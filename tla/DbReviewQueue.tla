--------------------------- MODULE DbReviewQueue ---------------------------
(***************************************************************************)
(* The Postgres-backed review queue: the pump and loop of                  *)
(* src/apps/api/src/infrastructure/queue/db-review-queue.ts over the rows  *)
(* of infrastructure/db/repositories/queue-repository.ts.                  *)
(*                                                                         *)
(* The store is shared by the API processes; everything else a process     *)
(* keeps is lost when it crashes. A statement or transaction of the        *)
(* repository is one step. run_after timestamps appear only as the order   *)
(* they give the rows, `order`.                                            *)
(***************************************************************************)
EXTENDS Integers, FiniteSets, SequencesExt

CONSTANTS
  PRs,          \* the pull requests: the rows' key
  Processes,    \* API processes that share the database
  Cap,          \* max(1, floor(concurrency)) of each process
  MaxPushes,    \* bound: webhook requests
  MaxFailures,  \* bound: reviews that throw
  MaxCrashes,   \* bound: processes killed
  MaxClaimErrors \* bound: claim transactions that fail

ASSUME CapAssumption == Cap \in Nat \ {0}
ASSUME BoundsAssumption ==
  {MaxPushes, MaxFailures, MaxCrashes, MaxClaimErrors} \subseteq Nat

VARIABLES
  state,   \* [PRs -> row state], "none" before the first request
  rerun,   \* [PRs -> rerun_requested]
  order,   \* the keys of the rows by run_after, then id
  jobs,    \* [Processes -> the jobs whose run() is in progress]
  ending,  \* [Processes -> the jobs whose complete() has committed and whose
           \*  finally block has not run, as the `rerun` each was answered];
           \*  inFlight counts them with `jobs`
  slots,   \* [Processes -> limit of the claim in progress, 0 if none: pumping]
  claimed, \* [Processes -> <<rows>> of a claim that has committed, else <<>>]
  pumper,  \* [Processes -> who called the pump() in progress]
  loop,    \* [Processes -> where loop() is]
  owed,    \* ghost: PRs with an accepted request no later-started run covers
  lost,    \* ghost: PRs claimed by a transaction whose answer was lost
  shared,  \* ghost: PRs a boot re-queued while another process had claimed them
  budget   \* what is left of each bound

store == <<state, rerun, order>>
pumping == <<slots, claimed, pumper>>
ghosts == <<owed, lost, shared>>
vars == <<store, jobs, ending, pumping, loop, ghosts, budget>>

States == {"none", "pending", "running", "done", "failed"}

\* The row's run_after becomes now: it is the last one due.
Postpone(k) == Append(RemoveFirst(order, k), k)

Init ==
  /\ state = [k \in PRs |-> "none"]
  /\ rerun = [k \in PRs |-> FALSE]
  /\ order = <<>>
  /\ jobs = [p \in Processes |-> <<>>]
  /\ ending = [p \in Processes |-> <<>>]
  /\ slots = [p \in Processes |-> 0]
  /\ claimed = [p \in Processes |-> <<>>]
  /\ pumper = [p \in Processes |-> "none"]
  /\ loop = [p \in Processes |-> "down"]
  /\ owed = {} /\ lost = {} /\ shared = {}
  /\ budget = [push |-> MaxPushes, fail |-> MaxFailures,
               crash |-> MaxCrashes, claim |-> MaxClaimErrors]

Spend(what) ==
  /\ budget[what] > 0
  /\ budget' = [budget EXCEPT ![what] = @ - 1]

Up(p) == loop[p] # "down"

\* The rows a process reviews, and those its claim has taken.
Reviewed(p) == ToSet(jobs[p])
Claimed(p) == IF claimed[p] = <<>> THEN {} ELSE claimed[p][1]

\* The process's inFlight.
InFlight(p) == Len(jobs[p]) + Len(ending[p])

\* pump() returns at once while another pump of this process is claiming, and
\* when every slot is taken.
PumpBusy(p, inFlight) == slots[p] > 0 \/ inFlight >= Cap

\* A mutant of CallPump: the claim asks for the whole cap whatever runs.
CallPumpForCap(p, who, inFlight) ==
  IF PumpBusy(p, inFlight)
  THEN UNCHANGED <<slots, pumper>>
  ELSE /\ slots' = [slots EXCEPT ![p] = Cap]
       /\ pumper' = [pumper EXCEPT ![p] = who]

\* The synchronous part of a call of pump() by `who`.
CallPump(p, who, inFlight) ==
  IF PumpBusy(p, inFlight)
  THEN UNCHANGED <<slots, pumper>>
  ELSE /\ slots' = [slots EXCEPT ![p] = Cap - inFlight]
       /\ pumper' = [pumper EXCEPT ![p] = who]

\* settleIfIdle(): the loop waits for inFlight = 0 and takes its next turn.
Wake(p, inFlight) ==
  IF inFlight = 0 /\ loop[p] = "waiting" THEN "turn" ELSE loop[p]

\* A mutant of Rest: the loop never polls.
RestAlways(inFlight) == "waiting"

\* loop() after its pump(): it waits for the jobs if every slot is taken, and
\* polls otherwise.
Rest(inFlight) == IF inFlight >= Cap THEN "waiting" ELSE "turn"

----------------------------------------------------------------------------
\* enqueue() by the webhook handler of process p: the upsert, its verdict, and
\* the pump a fresh or re-armed row calls for. A row that failed with the rerun
\* flag kept reads as deduped; a done row is left alone, its request dropped.
Enqueue(p, k) ==
  LET rearmed == state[k] \in {"none", "failed"}
  IN  /\ Up(p)
      /\ Spend("push")
      /\ state' = IF rearmed THEN [state EXCEPT ![k] = "pending"] ELSE state
      /\ rerun' = IF state[k] \in {"pending", "running"}
                  THEN [rerun EXCEPT ![k] = TRUE] ELSE rerun
      /\ order' = IF rearmed THEN Postpone(k) ELSE order
      /\ IF state'[k] = "pending" /\ ~rerun'[k]
         THEN CallPump(p, "enqueue", InFlight(p))
         ELSE UNCHANGED <<slots, pumper>>
      /\ owed' = IF state[k] = "done" THEN owed ELSE owed \cup {k}
      /\ UNCHANGED <<jobs, ending, claimed, loop, lost, shared>>

\* A turn of loop(): after a poll interval, or when the last job settled.
LoopTurn(p) ==
  /\ loop[p] = "turn"
  /\ CallPump(p, "loop", InFlight(p))
  /\ loop' = [loop EXCEPT ![p] =
       IF PumpBusy(p, InFlight(p)) THEN Rest(InFlight(p)) ELSE "awaiting"]
  /\ UNCHANGED <<store, jobs, ending, claimed, ghosts, budget>>

\* The rows among the oldest `limit` of those at the places given.
Oldest(places, limit) ==
  {order[i] : i \in {j \in places : Cardinality({h \in places : h <= j}) <= limit}}

\* A mutant of Due: the claim does not look at the status of the row.
DueWhatever(limit) ==
  Oldest({i \in DOMAIN order : state[order[i]] \in {"pending", "running"}}, limit)

\* The select of claimDue(): the oldest pending rows.
Due(limit) == Oldest({i \in DOMAIN order : state[order[i]] = "pending"}, limit)

\* claimDue() commits: those rows are running.
Claim(p) ==
  LET due == Due(slots[p])
  IN  /\ slots[p] > 0 /\ claimed[p] = <<>>
      /\ state' = [k \in PRs |-> IF k \in due THEN "running" ELSE state[k]]
      /\ claimed' = [claimed EXCEPT ![p] = <<due>>]
      /\ UNCHANGED <<rerun, order, jobs, ending, slots, pumper, loop, ghosts, budget>>

\* pump() after its claim: `begun` begin, and whoever awaited it goes on.
EndPump(p, begun) ==
  LET inFlight == InFlight(p) + Cardinality(begun)
  IN  /\ jobs' = [jobs EXCEPT ![p] = @ \o SetToSeq(begun)]
      /\ slots' = [slots EXCEPT ![p] = 0]
      /\ claimed' = [claimed EXCEPT ![p] = <<>>]
      /\ pumper' = [pumper EXCEPT ![p] = "none"]
      /\ loop' = [loop EXCEPT ![p] =
           CASE pumper[p] = "loop" -> Rest(inFlight)
             [] pumper[p] = "rerun" -> Wake(p, inFlight)
             [] OTHER -> loop[p]]

\* The claim's answer arrives and its reviews begin.
Begin(p) ==
  /\ claimed[p] # <<>>
  /\ EndPump(p, claimed[p][1])
  /\ owed' = owed \ claimed[p][1]
  /\ UNCHANGED <<store, ending, lost, shared, budget>>

\* The claim throws, and nothing begins: logged. The transaction was rolled
\* back, or it committed and its answer was lost.
ClaimFails(p) ==
  /\ slots[p] > 0
  /\ Spend("claim")
  /\ EndPump(p, {})
  /\ lost' = lost \cup Claimed(p)
  /\ UNCHANGED <<store, ending, owed, shared>>

\* A mutant of Again: complete() does not look at the flag.
AgainNever(k) == FALSE

\* complete() finds a request that landed meanwhile.
Again(k) == rerun[k] /\ state[k] \in {"pending", "running"}

\* complete() of the i-th job commits, without an error. A request that landed
\* meanwhile puts the row back on pending.
CompleteDone(p, i) ==
  LET k == jobs[p][i]
      again == Again(k)
  IN  /\ state' = [state EXCEPT ![k] = IF again THEN "pending" ELSE "done"]
      /\ rerun' = [rerun EXCEPT ![k] = FALSE]
      /\ order' = IF again THEN Postpone(k) ELSE order
      /\ jobs' = [jobs EXCEPT ![p] = RemoveAt(@, i)]
      /\ ending' = [ending EXCEPT ![p] = Append(@, again)]
      /\ UNCHANGED <<pumping, loop, ghosts, budget>>

\* complete() with an error, after a review that threw, or after a complete()
\* that did: the row is marked failed and keeps its flag.
CompleteFailed(p, i) ==
  /\ Spend("fail")
  /\ state' = [state EXCEPT ![jobs[p][i]] = "failed"]
  /\ jobs' = [jobs EXCEPT ![p] = RemoveAt(@, i)]
  /\ ending' = [ending EXCEPT ![p] = Append(@, FALSE)]
  /\ UNCHANGED <<rerun, order, pumping, loop, ghosts>>

Complete(p, k) ==
  \E i \in DOMAIN jobs[p] :
    jobs[p][i] = k /\ (CompleteDone(p, i) \/ CompleteFailed(p, i))

\* The finally block of execute(): a re-run pumps, and settleIfIdle() follows
\* that pump; without one, settleIfIdle() is called at once.
Finally(p) ==
  /\ ending[p] # <<>>
  /\ ending' = [ending EXCEPT ![p] = Tail(@)]
  /\ LET again == Head(ending[p])
         inFlight == InFlight(p) - 1
     IN  /\ IF again THEN CallPump(p, "rerun", inFlight)
                     ELSE UNCHANGED <<slots, pumper>>
         /\ loop' = IF again /\ ~PumpBusy(p, inFlight) THEN loop
                    ELSE [loop EXCEPT ![p] = Wake(p, inFlight)]
  /\ UNCHANGED <<store, jobs, claimed, ghosts, budget>>

\* The process dies: killed, or by the unhandled rejection of a complete()
\* that throws while recording a failure.
Crash(p) ==
  /\ Up(p)
  /\ Spend("crash")
  /\ jobs' = [jobs EXCEPT ![p] = <<>>]
  /\ ending' = [ending EXCEPT ![p] = <<>>]
  /\ slots' = [slots EXCEPT ![p] = 0]
  /\ claimed' = [claimed EXCEPT ![p] = <<>>]
  /\ pumper' = [pumper EXCEPT ![p] = "none"]
  /\ loop' = [loop EXCEPT ![p] = "down"]
  /\ UNCHANGED <<store, ghosts>>

\* A mutant of Boot: the interrupted rows are left running.
BootForgets(p) ==
  /\ ~Up(p)
  /\ loop' = [loop EXCEPT ![p] = "turn"]
  /\ UNCHANGED <<store, jobs, ending, pumping, ghosts, budget>>

\* start(): requeueInterrupted() puts every running row back, those of another
\* live process too, then the loop.
Boot(p) ==
  /\ ~Up(p)
  /\ state' = [k \in PRs |-> IF state[k] = "running" THEN "pending" ELSE state[k]]
  /\ loop' = [loop EXCEPT ![p] = "turn"]
  /\ lost' = {}
  /\ shared' = shared \cup {k \in PRs : state[k] = "running" /\
                              \E q \in Processes : k \in Reviewed(q) \cup Claimed(q)}
  /\ UNCHANGED <<rerun, order, jobs, ending, pumping, owed, budget>>

Next ==
  \E p \in Processes :
    \/ \E k \in PRs : Enqueue(p, k)
    \/ LoopTurn(p)
    \/ Claim(p)
    \/ Begin(p)
    \/ ClaimFails(p)
    \/ \E k \in PRs : Complete(p, k)
    \/ Finally(p)
    \/ Crash(p)
    \/ Boot(p)

Spec == Init /\ [][Next]_vars

\* The event loop of a live process runs, Postgres answers, every call of a
\* review has a timeout, and a dead process is restarted.
Fairness ==
  \A p \in Processes :
    /\ WF_vars(LoopTurn(p))
    /\ WF_vars(Claim(p))
    /\ WF_vars(Begin(p))
    /\ WF_vars(Finally(p))
    /\ WF_vars(Boot(p))
    /\ \A k \in PRs : WF_vars(Complete(p, k))

FairSpec == Spec /\ Fairness

----------------------------------------------------------------------------
TypeOK ==
  /\ state \in [PRs -> States]
  /\ rerun \in [PRs -> BOOLEAN]
  /\ order \in Seq(PRs)
  /\ jobs \in [Processes -> Seq(PRs)]
  /\ ending \in [Processes -> Seq(BOOLEAN)]
  /\ slots \in [Processes -> 0..Cap]
  /\ claimed \in [Processes -> {<<>>} \cup {<<rows>> : rows \in SUBSET PRs}]
  /\ pumper \in [Processes -> {"none", "enqueue", "loop", "rerun"}]
  /\ loop \in [Processes -> {"down", "turn", "awaiting", "waiting"}]
  /\ owed \subseteq PRs
  /\ lost \subseteq PRs
  /\ shared \subseteq PRs

\* No process runs more reviews than its cap, although the number of free slots
\* is read before the claim's answer and used after it.
Capped == \A p \in Processes : InFlight(p) <= Cap

Copies(k) == {pi \in UNION {{p} \X DOMAIN jobs[p] : p \in Processes} :
                jobs[pi[1]][pi[2]] = k}

\* "without double-reviewing a PR": processes that share the store never run
\* two reviews of one pull request, unless one of them was started while
\* another was already reviewing it.
NoDoubleReview == \A k \in PRs \ shared : Cardinality(Copies(k)) <= 1

\* "the review queue survives a restart": a row marked running is being
\* reviewed or is about to be, unless a process is down whose next boot will
\* re-queue it, or the answer of its claim was lost.
NoWedgedRow ==
  (\A p \in Processes : Up(p)) =>
    \A k \in PRs \ lost : state[k] = "running" =>
      \E p \in Processes : k \in Reviewed(p) \cup Claimed(p)

\* An accepted request is on its row until a review that begins later: the row
\* is pending, or flagged to re-run, or claimed for a review not begun yet,
\* through failures, restarts and claims whose answer is lost.
RequestRecorded ==
  \A k \in owed \ shared :
    \/ state[k] = "pending" \/ rerun[k]
    \/ state[k] = "running" /\ Copies(k) = {}

\* A deployment with one process.
Api == CHOOSE p \in Processes : TRUE

\* The reviews of k to begin: one for the row, pending or claimed or cut off by a
\* crash, and one for the request that is flagged on it.
Wanted(k) ==
  LET waits == \/ state[k] = "pending"
               \/ state[k] = "running" /\ k \notin Reviewed(Api)
  IN  (IF waits THEN 1 ELSE 0) + (IF rerun[k] THEN 1 ELSE 0)

Promise == INSTANCE ReviewPromise
  WITH wanted <- [k \in PRs |-> Wanted(k)], running <- jobs[Api],
       Limit <- Cap, OnePerPR <- TRUE, Durable <- TRUE

\* handle-webhook.ts IReviewQueuePort: with one process the table is a queue that
\* outlives it and reviews a pull request once at a time, each review for a request
\* or a restart, although its claims are awaited and bring several rows at once.
ImplementsPromise == Promise!Safety

\* Every pending row is claimed.
PendingClaimed == \A k \in PRs : state[k] = "pending" ~> state[k] # "pending"

\* Every accepted request is covered by a review that begins later, or its PR
\* is left failed with the error recorded, unless the answer of its claim was
\* lost or a starting process re-queued a row another process had claimed.
RequestSettles ==
  \A k \in PRs :
    k \in owed ~> (k \notin owed \/ state[k] = "failed" \/ k \in lost \cup shared)

\* The comment in complete(): a re-request that landed during a failing run
\* "survives for the next claim".
RequestSurvivesFailure ==
  \A k \in PRs : k \in owed ~> (k \notin owed \/ k \in lost \cup shared)
=============================================================================
