---------------------------- MODULE ReviewPromise ----------------------------
(***************************************************************************)
(* What a review queue promises to the webhook handler that fills it and   *)
(* to the review it runs, whichever backend it is: the port                *)
(* IReviewQueuePort of src/apps/api/src/application/webhook/               *)
(* handle-webhook.ts with the guarantees the header of application/queue/  *)
(* review-queue.ts gives.                                                  *)
(*                                                                         *)
(* ReviewQueue implements it (its Safety is proved, the whole is checked), *)
(* and so does the DbReviewQueue of a single process (Safety alone, which  *)
(* is proved); ReviewService runs the reviews of the API server under a    *)
(* queue of which only this is known.                                      *)
(***************************************************************************)
EXTENDS Integers, SequencesExt

CONSTANTS
  PRs,       \* the pull requests
  Limit,     \* reviews that may run at once
  OnePerPR,  \* TRUE for a queue that runs one review of a pull request at a time
  Durable    \* TRUE for a queue whose requests outlive the process

VARIABLES
  wanted,  \* [PRs -> reviews of it the queue still means to begin]
  owed,    \* those with a request no review that began later has covered
  running  \* the reviews in progress, oldest first

vars == <<wanted, owed, running>>

Init ==
  /\ wanted = [k \in PRs |-> 0]
  /\ owed = {}
  /\ running = <<>>

\* Reviews that begin together: of different pull requests, in the order they
\* begin in.
Batches == UNION {{b \in [1..n -> PRs] : \A i, j \in 1..n : b[i] = b[j] => i = j} :
                    n \in 0..Limit}

\* The running reviews become `kept`, and then some of the reviews that are due
\* may begin. They cover every request made before.
Proceed(kept, due, owing) ==
  \E new \in Batches :
    LET begun == ToSet(new)
    IN  /\ Len(kept) + Len(new) <= Limit
        /\ \A k \in begun : due[k] > 0
        /\ OnePerPR => begun \cap ToSet(kept) = {}
        /\ running' = kept \o new
        /\ wanted' = [k \in PRs |-> IF k \in begun THEN due[k] - 1 ELSE due[k]]
        /\ owed' = owing \ begun

\* A request is accepted: a review more, or one with those already due.
Ask(k) ==
  \/ Proceed(running, [wanted EXCEPT ![k] = @ + 1], owed \cup {k})
  \/ wanted[k] > 0 /\ Proceed(running, wanted, owed \cup {k})

\* The i-th review settles.
End(i) == Proceed(RemoveAt(running, i), wanted, owed)

\* The queue gets round to a review.
Begin == running' # running /\ Proceed(running, wanted, owed)

\* The process is restarted. A durable queue begins its reviews again.
Restart ==
  /\ running' = <<>>
  /\ wanted' = [k \in PRs |->
       IF ~Durable THEN 0
       ELSE wanted[k] + (IF k \in ToSet(running) THEN 1 ELSE 0)]
  /\ owed' = IF Durable THEN owed ELSE {}

Next ==
  \/ \E k \in PRs : Ask(k)
  \/ \E i \in DOMAIN running : End(i)
  \/ Begin
  \/ Restart

\* Every review is one that was asked for, no request is forgotten...
Safety == Init /\ [][Next]_vars

\* ...and none waits for ever.
Spec ==
  /\ Safety
  /\ \A k \in PRs : k \in owed ~> k \notin owed
=============================================================================
