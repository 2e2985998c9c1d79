---------------------------- MODULE ReviewQueue ----------------------------
(***************************************************************************)
(* The in-process review queue of the API server,                          *)
(* src/apps/api/src/application/queue/review-queue.ts.                     *)
(*                                                                         *)
(* JavaScript runs one callback at a time: enqueue(), drain() and the      *)
(* finally block of execute() each run to completion, so each is one       *)
(* action here, the call of pump() inside it included.                     *)
(***************************************************************************)
EXTENDS Integers, FiniteSets, SequencesExt

CONSTANTS
  PRs,          \* the pull requests: keyOf(job)
  Concurrency,  \* the constructor's max(1, floor(opts.concurrency))
  MaxPushes     \* bound: webhook requests in one behaviour

ASSUME ConcurrencyAssumption == Concurrency \in Nat \ {0}
ASSUME MaxPushesAssumption == MaxPushes \in Nat

VARIABLES
  pending,   \* jobs waiting for a free slot, in arrival order
  executing, \* the jobs whose run() has begun and not settled, oldest first;
             \* the code keeps their number, this.running
  inFlight,  \* keys enqueue() treats as already queued or running
  rerun,     \* keys that got a duplicate while in flight
  waiters,   \* callers of drain() whose promise is unresolved
  pushes,    \* ghost: requests so far
  owed       \* ghost: PRs with a request no later-started run has covered

vars == <<pending, executing, inFlight, rerun, waiters, pushes, owed>>

Idle == pending = <<>> /\ executing = <<>>

Init ==
  /\ pending = <<>>
  /\ executing = <<>>
  /\ inFlight = {}
  /\ rerun = {}
  /\ waiters = 0
  /\ pushes = 0
  /\ owed = {}

\* Mutants of Fill: pump() without its cap, and with an off-by-one in it.
FillUncapped(queue, running) == Len(queue)
FillOneShort(queue, running) ==
  Min({Len(queue), Max({0, Concurrency - 1 - Len(running)})})

\* The number of jobs the while loop of pump() moves into free slots.
Fill(queue, running) == Min({Len(queue), Concurrency - Len(running)})

\* pump(), called with the queue and the running jobs as its caller left them
\* and `due` the PRs owed a review: a run that begins reads the head of its PR,
\* so it covers every request made so far.
Pump(queue, running, due) ==
  LET n == Fill(queue, running)
  IN  /\ executing' = running \o SubSeq(queue, 1, n)
      /\ pending' = SubSeq(queue, n + 1, Len(queue))
      /\ owed' = due \ {queue[i] : i \in 1..n}

\* A mutant of Dedupe: a duplicate of a running job is only discarded.
DedupeForgets(k) ==
  /\ k \in inFlight
  /\ owed' = owed \cup {k}
  /\ UNCHANGED <<pending, executing, inFlight, rerun>>

Dedupe(k) ==
  /\ k \in inFlight
  /\ rerun' = rerun \cup {k}
  /\ owed' = owed \cup {k}
  /\ UNCHANGED <<pending, executing, inFlight>>

Accept(k) ==
  /\ k \notin inFlight
  /\ inFlight' = inFlight \cup {k}
  /\ Pump(Append(pending, k), executing, owed \cup {k})
  /\ UNCHANGED rerun

Enqueue(k) ==
  /\ pushes < MaxPushes
  /\ pushes' = pushes + 1
  /\ Dedupe(k) \/ Accept(k)
  /\ UNCHANGED waiters

\* Mutants of Forget: the key, or the re-run flag, is not deleted.
ForgetFlagOnly(k) == rerun' = rerun \ {k} /\ UNCHANGED inFlight
ForgetKeyOnly(k) == inFlight' = inFlight \ {k} /\ UNCHANGED rerun

\* A job that settles is no longer in flight, and its flag is consumed.
Forget(k) ==
  /\ inFlight' = inFlight \ {k}
  /\ rerun' = rerun \ {k}

\* A mutant of Release: nobody is woken.
ReleaseNobody(again) == UNCHANGED waiters

\* A job that settles without a re-run wakes every drain() of an idle queue.
Release(again) ==
  waiters' = IF ~again /\ executing' = <<>> /\ pending' = <<>>
             THEN 0 ELSE waiters

\* The finally block of execute() for the i-th running job. A rejected run is
\* logged and settles like a resolved one.
Settle(i) ==
  LET k == executing[i]
      again == k \in rerun
  IN  /\ Forget(k)
      /\ Pump(IF again THEN Append(pending, k) ELSE pending,
              RemoveAt(executing, i), owed)
      /\ Release(again)
      /\ UNCHANGED pushes

SettleJob(k) == \E i \in DOMAIN executing : executing[i] = k /\ Settle(i)

\* drain(): a caller of an idle queue does not wait. One waiter stands for all.
Drain ==
  /\ ~Idle
  /\ waiters = 0
  /\ waiters' = 1
  /\ UNCHANGED <<pending, executing, inFlight, rerun, pushes, owed>>

Next ==
  \/ \E k \in PRs : Enqueue(k)
  \/ \E k \in PRs : SettleJob(k)
  \/ Drain

Spec == Init /\ [][Next]_vars

\* runReview settles: every call it makes carries a timeout.
FairSpec == Spec /\ \A k \in PRs : WF_vars(SettleJob(k))

\* What the rest of the server relies on. A pull request is due a review for
\* each job of it that waits, and one more if it is flagged to run again.
Due(k) ==
  Cardinality({i \in DOMAIN pending : pending[i] = k})
    + (IF k \in rerun THEN 1 ELSE 0)

Promise == INSTANCE ReviewPromise
  WITH wanted <- [k \in PRs |-> Due(k)], running <- executing,
       Limit <- Concurrency, OnePerPR <- FALSE, Durable <- FALSE

----------------------------------------------------------------------------
TypeOK ==
  /\ pending \in Seq(PRs)
  /\ executing \in Seq(PRs)
  /\ inFlight \subseteq PRs
  /\ rerun \subseteq PRs
  /\ waiters \in 0..1
  /\ pushes \in 0..MaxPushes
  /\ owed \subseteq PRs

\* "caps how many reviews execute at once": no interleaving of webhooks,
\* settling runs and re-runs puts more than Concurrency reviews in progress.
Capped == Len(executing) <= Concurrency

\* The comment in execute(), "pending implies running": no job waits while a
\* slot is free, although pump() is only called from enqueue() and execute().
WorkConserving == pending # <<>> => Len(executing) = Concurrency

\* "a push that lands mid-review is never dropped": a request no run has
\* covered is in the queue, or will be put there when a job of its PR that is
\* queued or running now settles.
NoPushDropped ==
  /\ owed \subseteq ToSet(pending) \cup rerun
  /\ rerun \subseteq ToSet(pending) \cup ToSet(executing)

\* A key that makes enqueue() dedupe has a job whose settling will clear it: no
\* pull request is deduped for ever against nothing.
InFlightHasJob == inFlight \subseteq ToSet(pending) \cup ToSet(executing)

\* drain() resolves: nobody waits on a queue that is already idle, since no
\* later settle would come to wake them.
NoLostWakeup == waiters > 0 => ~Idle

\* The queue implements its promise: no interleaving of webhooks, settling runs
\* and coalesced re-runs begins a review without a request of its own, exceeds
\* Concurrency or forgets a request, and every request is followed by a run of
\* its PR that begins after it.
ImplementsPromise == Promise!Spec

\* A coalesced re-run is not itself re-run for ever: when the requests stop,
\* the queue empties and stays empty.
Quiesces == <>[]Idle

\* The class header, "dedupes a pull request that is already queued or
\* running": one job per pull request is queued or running at a time.
OneJobPerPR ==
  \A i, j \in DOMAIN (pending \o executing) :
    i # j => (pending \o executing)[i] # (pending \o executing)[j]
=============================================================================
