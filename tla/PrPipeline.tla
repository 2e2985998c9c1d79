----------------------------- MODULE PrPipeline -----------------------------
(***************************************************************************)
(* One pull request under the queue worker: processPr of                   *)
(* src/apps/worker/src/pr/pipeline.ts with its steps (pr/steps.ts), its    *)
(* gates (pr/gates.ts) and the record it keeps of the PR between ticks     *)
(* (state.ts).                                                             *)
(*                                                                         *)
(* The heads of the PR are numbered in the order they were pushed. One     *)
(* action is what the worker does between two awaits; in between, the      *)
(* author pushes, CI moves, the review service posts, the base branch      *)
(* moves, and the worker may be killed. The PR is one that the pin guard,  *)
(* the bump guard and the lockfile shortcut leave alone.                   *)
(***************************************************************************)
EXTENDS Integers, FiniteSets

CONSTANTS
  MaxHead,    \* bound: heads pushed after the first, 0
  Ceiling,    \* AI_FIX_BUDGET_CEILING
  MaxRounds,  \* MAX_FIX_ITERATIONS
  MaxCrashes  \* bound: worker kills in mid-tick

ASSUME PipelineAssumption ==
  /\ {MaxHead, MaxCrashes} \subseteq Nat
  /\ {Ceiling, MaxRounds} \subseteq Nat \ {0}

Heads == 0..MaxHead
NoHead == -1

VARIABLES
  \* GitHub, the author, CI and the review service
  byBot,    \* the author of the PR is dependabot[bot]
  status,   \* the PR: "open", "closed" or "merged"
  head,     \* the head of its branch
  shown,    \* the head GET /pulls/:n answers with, which lags a push
  ci,       \* [Heads -> check runs], "none" until a workflow registers
  conflict, \* the head conflicts with the base branch
  review,   \* the last review body: "none", "safe" or "unsafe"
  \* the worker
  pc,       \* the await processPr is at, "idle" between ticks
  c,        \* Ctx and the locals of processPr and stepAiFix
  fix,      \* the PR's entry of fix-state.json, budget_runs with its head
  \* ghosts, with the fields pinned, tip and passed of c
  sent,     \* [Heads -> skip notices for the head since a fix succeeded]
  spent,    \* [Heads -> budget-exhausting agent runs since a fix succeeded]
  crashes

world == <<byBot, status, head, shown, ci, conflict, review>>
ghosts == <<sent, spent, crashes>>
vars == <<world, pc, c, fix, ghosts>>

Up(n, bound) == IF n < bound THEN n + 1 ELSE n

NoFix == [sha |-> NoHead, skip |-> FALSE, notified |-> FALSE,
          budgetSha |-> NoHead, budgetRuns |-> 0]

NoCtx == [sha |-> NoHead, mergeable |-> "unknown", verdict |-> "none",
          already |-> FALSE, retry |-> FALSE, round |-> 0, site |-> "fix",
          next |-> "idle", pinned |-> FALSE, tip |-> NoHead, passed |-> NoHead]

Init ==
  /\ byBot \in BOOLEAN
  /\ status = "open"
  /\ head = 0 /\ shown = 0
  /\ ci = [h \in Heads |-> "none"]
  /\ conflict = FALSE
  /\ review = "none"
  /\ pc = "idle" /\ c = NoCtx /\ fix = NoFix
  /\ sent = [h \in Heads |-> 0]
  /\ spent = [h \in Heads |-> 0]
  /\ crashes = 0

----------------------------------------------------------------------------
(* The world.                                                              *)

worker == <<pc, c, fix>>

AuthorPushes ==
  /\ status = "open" /\ head < MaxHead
  /\ head' = head + 1
  /\ conflict' \in {FALSE, conflict}
  /\ UNCHANGED <<byBot, status, shown, ci, review, worker, ghosts>>

\* GET /pulls/:n "lags the push by seconds-to-minutes", then catches up.
ApiCatchesUp ==
  /\ shown # head
  /\ shown' = head
  /\ UNCHANGED <<byBot, status, head, ci, conflict, review, worker, ghosts>>

\* The checks of a head register, run, and may be re-run when they failed.
CiMoves(h) ==
  /\ status = "open"
  /\ h <= head
  /\ \/ ci[h] \in {"none", "red"} /\ ci' = [ci EXCEPT ![h] = "pending"]
     \/ ci[h] = "pending" /\ \E r \in {"green", "red"} : ci' = [ci EXCEPT ![h] = r]
  /\ UNCHANGED <<byBot, status, head, shown, conflict, review, worker, ghosts>>

BaseMoves ==
  /\ status = "open" /\ ~conflict
  /\ conflict' = TRUE
  /\ UNCHANGED <<byBot, status, head, shown, ci, review, worker, ghosts>>

ReviewPosted ==
  /\ status = "open"
  /\ \E v \in {"safe", "unsafe"} \ {review} : review' = v
  /\ UNCHANGED <<byBot, status, head, shown, ci, conflict, worker, ghosts>>

AuthorCloses ==
  /\ status = "open"
  /\ status' = "closed"
  /\ UNCHANGED <<byBot, head, shown, ci, conflict, review, worker, ghosts>>

\* GitHub's mergeable: null while it computes.
Mergeable == {"unknown", IF conflict THEN "no" ELSE "yes"}

\* checkCiPassed: a head with no check runs passes, "No CI configured".
CiPassed(h) == ci[h] \in {"none", "green"}

----------------------------------------------------------------------------
(* The entry of the PR in the state file.                                  *)

alreadyFixed(h) == fix.sha = h

\* A mutant of getSkipReason: the recorded reason is never read back.
getSkipReasonNever(h) == FALSE

getSkipReason(h) == fix.sha = h /\ fix.skip

\* A mutant of wasSkipNotified: the flag is never read back.
wasSkipNotifiedNever(h) == FALSE

wasSkipNotified(h) == fix.notified /\ fix.sha = h

budgetRunCount(h) == IF fix.budgetSha = h THEN fix.budgetRuns ELSE 0

\* A mutant of bumpBudgetRun: every run is the first of its head.
bumpBudgetRunFromOne(h) == [fix EXCEPT !.budgetSha = h, !.budgetRuns = 1]

bumpBudgetRun(h) ==
  [fix EXCEPT !.budgetSha = h, !.budgetRuns = Up(budgetRunCount(h), Ceiling)]

markFixed(h) == [NoFix EXCEPT !.sha = h]

markSkip(h) == [fix EXCEPT !.sha = h, !.skip = TRUE]

markSkipNotified(h) == [fix EXCEPT !.notified = TRUE]

----------------------------------------------------------------------------
(* The worker.                                                             *)

\* The locals of processPr are gone when the tick is.
At(next, ctx) == pc' = next /\ c' = IF next = "idle" THEN NoCtx ELSE ctx

Goto(next) == At(next, c) /\ UNCHANGED <<world, fix, ghosts>>

\* The head has a skip on record.
Pinned(h) == fix.sha = h /\ fix.skip

\* runTick reaches the PR with what the scan read of it.
StartTick ==
  /\ pc = "idle" /\ status = "open"
  /\ \E m \in Mergeable :
       c' = [NoCtx EXCEPT !.sha = shown, !.mergeable = m,
                          !.pinned = Pinned(shown)]
  /\ pc' = IF byBot THEN "bot" ELSE "find"
  /\ UNCHANGED <<world, fix, ghosts>>

\* dependabotCiStatus: green goes straight to stepMerge, with `already` true;
\* anything readable that is not green, pending included, counts as red.
DependabotCi ==
  /\ pc = "bot"
  /\ \/ /\ CiPassed(c.sha)
        /\ At("gate", [c EXCEPT !.already = TRUE, !.passed = c.sha])
     \/ ~CiPassed(c.sha) /\ At("find", [c EXCEPT !.retry = TRUE])
     \/ At("find", c) \* unreadable
  /\ UNCHANGED <<world, fix, ghosts>>

\* stepReview without a review, or without an answer: trigger one and stop.
TriggerReview == pc = "find" /\ Goto("idle")

\* The tests stepAiFix makes before it asks for the agent.
AgentOffered(already) == ~already /\ budgetRunCount(c.sha) < Ceiling

\* stepReview with one, then `already` and the recorded skip.
FindReview ==
  /\ pc = "find" /\ review # "none"
  /\ LET already == alreadyFixed(c.sha) /\ ~c.retry
     IN  At(IF getSkipReason(c.sha) THEN "tell"
            ELSE IF AgentOffered(already) THEN "valid" ELSE "ci",
            [c EXCEPT !.verdict = review, !.already = already,
                      !.retry = FALSE, !.round = 1])
  /\ UNCHANGED <<world, fix, ghosts>>

\* checkPrStillValid: the PR is open at the head the tick is about.
StillValid == status = "open" /\ shown = c.sha

\* checkPrStillValid in the fix loop. A head that moved under it is adopted,
\* and the rest of the tick goes on with it.
CheckValid ==
  /\ pc = "valid"
  /\ \/ StillValid /\ At("agent", [c EXCEPT !.site = "fix"])
     \/ /\ status = "open" /\ shown # c.sha
        /\ \E m \in Mergeable :
             At("ci", [c EXCEPT !.sha = shown, !.mergeable = m])
     \/ At("ci", c) \* closed, or no answer
  /\ UNCHANGED <<world, fix, ghosts>>

\* Where the agent's caller goes when the run leaves nothing more to do.
AfterAgent == IF c.site = "fix" THEN "ci" ELSE "idle"

FixSucceeds ==
  /\ sent' = [h \in Heads |-> 0]
  /\ spent' = [h \in Heads |-> 0]

\* The agent committed and the worker pushed, rebased if the branch had moved.
\* The commits are counted from c.sha: on a branch that had moved before the
\* clone, those of the author count as the agent's, and there may be no others.
\* The record names the tip, or c.sha when the tip could not be read.
AgentPushed ==
  /\ pc = "agent"
  /\ \/ head < MaxHead /\ head' = head + 1 /\ conflict' \in {FALSE, conflict}
     \/ head # c.sha /\ UNCHANGED <<head, conflict>>
  /\ \E sha \in {head', c.sha} : fix' = markFixed(sha)
  /\ At(IF c.site = "fix" THEN "after" ELSE "idle", [c EXCEPT !.tip = head'])
  /\ FixSucceeds
  /\ UNCHANGED <<byBot, status, shown, ci, review, crashes>>

\* The agent committed nothing, which counts as a success.
AgentClean ==
  /\ pc = "agent"
  /\ fix' = markFixed(c.sha)
  /\ At(IF c.site = "fix" THEN "clean" ELSE "idle", c)
  /\ FixSucceeds
  /\ UNCHANGED <<world, crashes>>

\* What a failed run reports: the agent is not installed or has no credential;
\* it used up its turns or its wall clock; the gateway or the network refused a
\* request; or it failed at the work, which alone is no [INFRA] failure.
Failures == {"install", "allowance", "request", "work"}

isInfra(f) == f # "work"

isBudgetExhaustion(f) == f = "allowance"

isTransientInfra(f) == isBudgetExhaustion(f) \/ f = "request"

AgentOutOfBudget ==
  /\ pc = "agent"
  /\ \E f \in Failures : isBudgetExhaustion(f)
  /\ fix' = bumpBudgetRun(c.sha)
  /\ At(AfterAgent, c)
  /\ spent' = [spent EXCEPT ![c.sha] = Up(@, Ceiling + 1)]
  /\ UNCHANGED <<world, sent, crashes>>

\* What the conflict resolver pins a head for, and what the fix loop does: there
\* a failure that is no [INFRA] failure at all leaves nothing behind.
ResolverPins(f) == ~isTransientInfra(f)
FixLoopPins(f) == isInfra(f) /\ ~isTransientInfra(f)
Pins(f) == IF c.site = "fix" THEN FixLoopPins(f) ELSE ResolverPins(f)

AgentFailedOnce ==
  /\ pc = "agent"
  /\ \E f \in Failures : ~isBudgetExhaustion(f) /\ ~Pins(f)
  /\ Goto(AfterAgent)

AgentFailedForGood ==
  /\ pc = "agent"
  /\ \E f \in Failures : Pins(f)
  /\ fix' = markSkip(c.sha)
  /\ At("tell", [c EXCEPT !.next = AfterAgent])
  /\ UNCHANGED <<world, ghosts>>

\* notifySkipOnce: the notice is sent before the flag is written.
SendNotice ==
  /\ pc = "tell"
  /\ IF wasSkipNotified(c.sha)
     THEN At(c.next, c) /\ UNCHANGED sent
     ELSE At("flag", c) /\ sent' = [sent EXCEPT ![c.sha] = Up(@, MaxCrashes + 2)]
  /\ UNCHANGED <<world, fix, spent, crashes>>

FlagNotice ==
  /\ pc = "flag"
  /\ fix' = markSkipNotified(c.sha)
  /\ At(c.next, c)
  /\ UNCHANGED <<world, ghosts>>

\* refetchHead after a run: a head that moved is adopted, whoever moved it.
\* After a push the fix loop then waits for CI on c.sha.
RefetchHead ==
  /\ pc \in {"after", "clean"}
  /\ LET next == IF pc = "after" THEN "settle" ELSE "ci"
     IN  \/ /\ shown # c.sha
            /\ \E m \in IF pc = "after" THEN Mergeable ELSE {c.mergeable} :
                 At(next, [c EXCEPT !.sha = shown, !.mergeable = m])
         \/ At(next, c) \* the same head, or no answer
  /\ UNCHANGED <<world, fix, ghosts>>

\* checkCiWithSuiteRequirement: green, but no suite ran, is no verdict.
SuiteVerdict(h) == IF ci[h] = "none" THEN "unknown" ELSE ci[h]

\* waitForCiSettled: what the polls end with, "pending" when the time is up; a
\* poll that cannot be read ends them too.
Settled(h) == {SuiteVerdict(h), "unknown"}

\* A mutant of IterateAgain: one iteration too many.
IterateOnceMore ==
  /\ pc = "settle" /\ "red" \in Settled(c.sha) /\ c.round <= MaxRounds
  /\ At("valid", [c EXCEPT !.round = @ + 1])
  /\ UNCHANGED <<world, fix, ghosts>>

\* shouldIterateAgain: the head is red, and iterations are left.
IterateAgain ==
  /\ pc = "settle" /\ "red" \in Settled(c.sha) /\ c.round < MaxRounds
  /\ At("valid", [c EXCEPT !.round = @ + 1])
  /\ UNCHANGED <<world, fix, ghosts>>

\* A mutant of StopIterating: the wait for CI has no deadline.
StopWhenSettled == pc = "settle" /\ ci[c.sha] # "pending" /\ Goto("ci")

\* Every other verdict, and red with no iteration left: on to the CI gate.
StopIterating ==
  /\ pc = "settle"
  /\ \E v \in Settled(c.sha) : v = "red" => c.round >= MaxRounds
  /\ Goto("ci")

\* resolveConflict up to its checkPrStillValid.
Resolve(already) == IF already THEN "idle" ELSE "recheck"

\* stepSafetyAndCi, then processPr's test of the mergeable it holds.
SafetyBlocks == pc = "ci" /\ c.verdict = "unsafe" /\ Goto("idle")

CiBlocks == pc = "ci" /\ c.verdict = "safe" /\ Goto("idle")

\* The close goes on whether or not the comment before it was posted.
closeStaleCiPr == status = "open" /\ status' = "closed"

CloseStale ==
  /\ pc = "ci" /\ c.verdict = "safe" /\ ~CiPassed(c.sha) /\ ~byBot
  /\ closeStaleCiPr
  /\ At("idle", c)
  /\ UNCHANGED <<byBot, head, shown, ci, conflict, review, fix, ghosts>>

CiPasses ==
  /\ pc = "ci" /\ c.verdict = "safe" /\ CiPassed(c.sha)
  /\ At(IF c.mergeable = "no" THEN Resolve(c.already) ELSE "gate",
        [c EXCEPT !.passed = c.sha])
  /\ UNCHANGED <<world, fix, ghosts>>

\* checkPrStillValid in the resolver: no valid answer, no agent.
RecheckValid ==
  /\ pc = "recheck"
  /\ \/ StillValid /\ At("agent", [c EXCEPT !.site = "resolve"])
     \/ At("idle", c)
  /\ UNCHANGED <<world, fix, ghosts>>

\* mergeableGate: its re-read looks at mergeable only, not at the head.
MergeableGate ==
  /\ pc = "gate"
  /\ \E m \in Mergeable :
       Goto(CASE m = "no" -> Resolve(alreadyFixed(c.sha))
              [] m = "unknown" -> "idle"
              [] m = "yes" -> "approve")

Approve == pc = "approve" /\ Goto("merge")

\* A mutant of Merge: the request does not carry the head it is for.
MergeAnyHead ==
  /\ pc = "merge"
  /\ status = "open" /\ ~conflict
  /\ status' = "merged"
  /\ At("idle", c)
  /\ UNCHANGED <<byBot, head, shown, ci, conflict, review, fix, ghosts>>

\* mergePr sends c.sha as GitHub's precondition. The answer to a merge that
\* happened may be lost; the tick ends either way.
Merge ==
  /\ pc = "merge"
  /\ status = "open" /\ head = c.sha /\ ~conflict
  /\ status' = "merged"
  /\ At("idle", c)
  /\ UNCHANGED <<byBot, head, shown, ci, conflict, review, fix, ghosts>>

\* 409 hands the PR to the resolver; every other refusal ends the tick.
MergeRefused ==
  /\ pc = "merge"
  /\ \/ Goto("idle")
     \/ /\ status = "open" /\ (head # c.sha \/ conflict)
        /\ Goto(Resolve(c.already))

\* The worker is killed; a kill between the push and the save of markFixed
\* leaves a pushed head with no record.
Crash ==
  /\ pc # "idle" /\ crashes < MaxCrashes
  /\ crashes' = crashes + 1
  /\ At("idle", c)
  /\ \/ UNCHANGED <<head, conflict>>
     \/ /\ pc = "agent" /\ head < MaxHead
        /\ head' = head + 1
        /\ conflict' \in {FALSE, conflict}
  /\ UNCHANGED <<byBot, status, shown, ci, review, fix, sent, spent>>

World ==
  \/ AuthorPushes \/ ApiCatchesUp \/ \E h \in Heads : CiMoves(h)
  \/ BaseMoves \/ ReviewPosted \/ AuthorCloses

\* What processPr does once a tick has begun.
ProcessPr ==
  \/ DependabotCi \/ TriggerReview \/ FindReview
  \/ CheckValid \/ AgentPushed \/ AgentClean \/ AgentOutOfBudget
  \/ AgentFailedOnce \/ AgentFailedForGood \/ SendNotice \/ FlagNotice
  \/ RefetchHead \/ IterateAgain \/ StopIterating
  \/ SafetyBlocks \/ CiBlocks \/ CloseStale \/ CiPasses
  \/ RecheckValid \/ MergeableGate \/ Approve \/ Merge \/ MergeRefused

Next == World \/ StartTick \/ ProcessPr \/ Crash

Spec == Init /\ [][Next]_vars

\* Every await of a tick ends: 20s per GitHub call, 1800s per agent run, ten
\* minutes per wait for CI.
FairSpec == Spec /\ WF_vars(ProcessPr)

----------------------------------------------------------------------------
Pcs == {"idle", "bot", "find", "valid", "agent", "tell", "flag", "after",
        "clean", "settle", "ci", "recheck", "gate", "approve", "merge"}

Ctxs ==
  [sha : Heads \cup {NoHead}, mergeable : {"yes", "no", "unknown"},
   verdict : {"none", "safe", "unsafe"}, already : BOOLEAN, retry : BOOLEAN,
   round : 0..MaxRounds, site : {"fix", "resolve"}, next : {"idle", "ci"},
   pinned : BOOLEAN, tip : Heads \cup {NoHead}, passed : Heads \cup {NoHead}]

Entries ==
  [sha : Heads \cup {NoHead}, skip : BOOLEAN, notified : BOOLEAN,
   budgetSha : Heads \cup {NoHead}, budgetRuns : 0..Ceiling]

WorldOK ==
  /\ byBot \in BOOLEAN
  /\ status \in {"open", "closed", "merged"}
  /\ head \in Heads
  /\ shown \in Heads
  /\ ci \in [Heads -> {"none", "pending", "red", "green"}]
  /\ conflict \in BOOLEAN
  /\ review \in {"none", "safe", "unsafe"}

\* A tick in progress is about a head of the PR.
WorkerOK ==
  /\ pc \in Pcs
  /\ c \in Ctxs
  /\ fix \in Entries
  /\ pc # "idle" => c.sha \in Heads

GhostsOK ==
  /\ sent \in [Heads -> 0..MaxCrashes + 2]
  /\ spent \in [Heads -> 0..Ceiling + 1]
  /\ crashes \in 0..MaxCrashes

TypeOK == WorldOK /\ WorkerOK /\ GhostsOK

\* Whatever the author, the agent or a lagging GitHub does to the branch while
\* a tick runs, the head that is merged is the one whose CI that tick has passed.
MergedHeadPassed ==
  [][status = "open" /\ status' = "merged" => head = c.passed]_vars

\* "Respect the recorded reason until the head changes": a tick that finds the
\* head already pinned buys no agent run for it and does not merge it, the
\* green dependabot bump excepted.
PinHonoured ==
  c.pinned => \/ pc \in {"idle", "bot", "find", "tell", "flag"}
              \/ byBot /\ pc \in {"gate", "approve", "merge"}

\* "so it cannot be retried without limit": the fix loop does not ask for the
\* agent at a head that has used up the budget ceiling, the runs the conflict
\* resolver spent there included.
FixLoopWithinBudget ==
  pc = "valid" \/ (pc = "agent" /\ c.site = "fix") => spent[c.sha] < Ceiling

\* "the alert fires ONCE per PR+head_sha+reason", and once more for every kill
\* between the send and the flag; a fix that succeeds re-arms it.
NoticeOnce == \A h \in Heads : sent[h] <= 1 + crashes

\* runTick processes the PRs one after another under the lock: a tick that
\* began on a PR leaves it, however often the fix loop iterates.
TickEnds == (pc # "idle") ~> (pc = "idle")

----------------------------------------------------------------------------
(* What comments of the code say, and the model refutes.                   *)

\* gates.ts, on budget exhaustion in the resolver: counted "so an expensive
\* timeout cannot repeat without limit".
BudgetBounded == \A h \in Heads : spent[h] <= Ceiling

\* steps.ts: "The fix MUST be verified by the real suite: a head with no
\* workflow run reads as green on zero checks otherwise".
FixVerified ==
  [][status' = "merged" /\ c.tip = head => ci[head] = "green"]_vars

\* context.ts: "the alert fires ONCE per PR+head_sha+reason". A flag that keeps
\* the notice of a pinned head back means that the notice of it went out.
NoticeSent ==
  pc = "idle" /\ fix.skip /\ fix.notified => sent[fix.sha] > 0
=============================================================================
