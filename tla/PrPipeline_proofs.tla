-------------------------- MODULE PrPipeline_proofs --------------------------
(***************************************************************************)
(* Theorems about PrPipeline, for every number of heads, budget ceiling,   *)
(* number of iterations and number of crashes.                             *)
(***************************************************************************)
EXTENDS PrPipeline, TLAPS

LEMMA Bounds ==
  /\ MaxHead \in Nat /\ MaxCrashes \in Nat
  /\ Ceiling \in Nat \ {0} /\ MaxRounds \in Nat \ {0}
  /\ 0 \in Heads
  BY PipelineAssumption DEF Heads

LEMMA NoCtxType == NoCtx \in Ctxs
  BY Bounds DEF NoCtx, Ctxs, Heads, NoHead

LEMMA NoFixType == NoFix \in Entries
  BY Bounds DEF NoFix, Entries, Heads, NoHead

\* The worker's part of the type invariant, for the locals At() leaves behind.
AtHead == pc \in Pcs /\ c \in Ctxs /\ (pc # "idle" => c.sha \in Heads)

LEMMA AtType ==
  ASSUME NEW next \in Pcs, NEW ctx \in Ctxs, ctx.sha \in Heads, At(next, ctx)
  PROVE  AtHead'
<1>1. CASE next = "idle"
  <2>1. pc' = "idle" /\ c' = NoCtx
    BY <1>1 DEF At
  <2> QED
    BY <2>1, NoCtxType DEF AtHead, Pcs
<1>2. CASE next # "idle"
  BY <1>2 DEF At, AtHead
<1> QED
  BY <1>1, <1>2

\* What the code assigns in the locals keeps their type.
LEMMA CtxUpdates ==
  ASSUME NEW x \in Ctxs, x.sha \in Heads, NEW h \in Heads, NEW b \in BOOLEAN
  PROVE  /\ \A m \in Mergeable :
              LET y == [x EXCEPT !.sha = h, !.mergeable = m]
              IN  y \in Ctxs /\ y.sha \in Heads
         /\ LET y == [x EXCEPT !.retry = b] IN y \in Ctxs /\ y.sha \in Heads
         /\ LET y == [x EXCEPT !.already = b, !.passed = h]
            IN  y \in Ctxs /\ y.sha \in Heads
         /\ LET y == [x EXCEPT !.passed = h] IN y \in Ctxs /\ y.sha \in Heads
         /\ LET y == [x EXCEPT !.tip = h] IN y \in Ctxs /\ y.sha \in Heads
         /\ \A s \in {"fix", "resolve"} :
              LET y == [x EXCEPT !.site = s] IN y \in Ctxs /\ y.sha \in Heads
         /\ \A n \in {"idle", "ci"} :
              LET y == [x EXCEPT !.next = n] IN y \in Ctxs /\ y.sha \in Heads
         /\ \A n \in 0..MaxRounds :
              LET y == [x EXCEPT !.round = n] IN y \in Ctxs /\ y.sha \in Heads
         /\ \A v \in {"none", "safe", "unsafe"}, d \in BOOLEAN, n \in 0..MaxRounds :
              LET y == [x EXCEPT !.verdict = v, !.already = b, !.retry = d, !.round = n]
              IN  y \in Ctxs /\ y.sha \in Heads
<1>1. \A m \in Mergeable :
        LET y == [x EXCEPT !.sha = h, !.mergeable = m]
        IN  y \in Ctxs /\ y.sha \in Heads
  BY DEF Ctxs, Mergeable
<1>2. LET y == [x EXCEPT !.retry = b] IN y \in Ctxs /\ y.sha \in Heads
  BY DEF Ctxs
<1>3. LET y == [x EXCEPT !.already = b, !.passed = h] IN y \in Ctxs /\ y.sha \in Heads
  BY DEF Ctxs
<1>4. LET y == [x EXCEPT !.passed = h] IN y \in Ctxs /\ y.sha \in Heads
  BY DEF Ctxs
<1>5. LET y == [x EXCEPT !.tip = h] IN y \in Ctxs /\ y.sha \in Heads
  BY DEF Ctxs
<1>6. \A s \in {"fix", "resolve"} :
        LET y == [x EXCEPT !.site = s] IN y \in Ctxs /\ y.sha \in Heads
  BY DEF Ctxs
<1>7. \A n \in {"idle", "ci"} :
        LET y == [x EXCEPT !.next = n] IN y \in Ctxs /\ y.sha \in Heads
  BY DEF Ctxs
<1>8. \A n \in 0..MaxRounds :
        LET y == [x EXCEPT !.round = n] IN y \in Ctxs /\ y.sha \in Heads
  BY DEF Ctxs
<1>9. \A v \in {"none", "safe", "unsafe"}, d \in BOOLEAN, n \in 0..MaxRounds :
        LET y == [x EXCEPT !.verdict = v, !.already = b, !.retry = d, !.round = n]
        IN  y \in Ctxs /\ y.sha \in Heads
  BY DEF Ctxs
<1> QED
  BY <1>1, <1>2, <1>3, <1>4, <1>5, <1>6, <1>7, <1>8, <1>9

\* The state file's mutators keep the type of the entry.
LEMMA EntryUpdates ==
  ASSUME fix \in Entries, NEW h \in Heads
  PROVE  /\ markFixed(h) \in Entries
         /\ markSkip(h) \in Entries
         /\ markSkipNotified(h) \in Entries
         /\ bumpBudgetRun(h) \in Entries
<1>1. markFixed(h) \in Entries
  BY NoFixType DEF markFixed, Entries
<1>2. markSkip(h) \in Entries
  BY DEF markSkip, Entries
<1>3. markSkipNotified(h) \in Entries
  BY DEF markSkipNotified, Entries
<1>4. Up(budgetRunCount(h), Ceiling) \in 0..Ceiling
  BY Bounds DEF Up, budgetRunCount, Entries
<1>5. bumpBudgetRun(h) \in Entries
  BY <1>4 DEF bumpBudgetRun, Entries
<1> QED
  BY <1>1, <1>2, <1>3, <1>5

LEMMA InitType == Init => TypeOK
<1> SUFFICES ASSUME Init PROVE TypeOK
  OBVIOUS
<1>1. WorldOK
  BY Bounds DEF Init, WorldOK
<1>2. pc = "idle" /\ c = NoCtx /\ fix = NoFix
  BY DEF Init
<1>3. WorkerOK
  BY <1>2, NoCtxType, NoFixType DEF WorkerOK, Pcs
<1>4. GhostsOK
  BY Bounds DEF Init, GhostsOK
<1> QED
  BY <1>1, <1>3, <1>4 DEF TypeOK

\* The world's own steps, and those of the worker's that reach it.
LEMMA WorldStep == ASSUME TypeOK, Next PROVE WorldOK'
<1> USE DEF TypeOK, WorldOK
<1>a. ASSUME conflict' \in {FALSE, conflict} PROVE conflict' \in BOOLEAN
  BY <1>a
<1>1. CASE World
  <2>1. CASE AuthorPushes
    <3>1. conflict' \in BOOLEAN
      BY <2>1, <1>a DEF AuthorPushes
    <3>2. head' \in Heads /\ UNCHANGED <<byBot, status, shown, ci, review>>
      BY <2>1, Bounds DEF AuthorPushes, Heads
    <3> QED
      BY <3>1, <3>2
  <2>2. CASE ApiCatchesUp
    BY <2>2 DEF ApiCatchesUp
  <2>3. ASSUME NEW h \in Heads, CiMoves(h) PROVE WorldOK'
    BY <2>3 DEF CiMoves
  <2>4. CASE BaseMoves \/ ReviewPosted \/ AuthorCloses
    BY <2>4 DEF BaseMoves, ReviewPosted, AuthorCloses
  <2> QED
    BY <1>1, <2>1, <2>2, <2>3, <2>4 DEF World
<1>2. CASE AgentPushed
  <2>1. conflict' \in BOOLEAN
    BY <1>2, <1>a DEF AgentPushed
  <2>2. head' \in Heads
    <3>1. CASE head < MaxHead /\ head' = head + 1
      BY <3>1, Bounds DEF Heads
    <3>2. CASE head' = head
      BY <3>2
    <3> QED
      BY <1>2, <3>1, <3>2 DEF AgentPushed
  <2>3. UNCHANGED <<byBot, status, shown, ci, review>>
    BY <1>2 DEF AgentPushed
  <2> QED
    BY <2>1, <2>2, <2>3
<1>3. CASE CloseStale \/ Merge
  BY <1>3 DEF CloseStale, closeStaleCiPr, Merge
<1>4. CASE Crash
  <2>1. conflict' \in BOOLEAN
    BY <1>4, <1>a DEF Crash
  <2>2. head' = head \/ (head < MaxHead /\ head' = head + 1)
    BY <1>4 DEF Crash
  <2>3. head' \in Heads
    BY <2>2, Bounds DEF Heads
  <2>4. UNCHANGED <<byBot, status, shown, ci, review>>
    BY <1>4 DEF Crash
  <2> QED
    BY <2>1, <2>3, <2>4
<1>5. ASSUME UNCHANGED world PROVE WorldOK'
  BY <1>5 DEF world
<1>6. CASE StartTick \/ DependabotCi \/ TriggerReview \/ FindReview \/ CheckValid
  BY <1>5, <1>6 DEF StartTick, DependabotCi, TriggerReview, FindReview,
     CheckValid, StillValid, Goto
<1>7. CASE AgentClean \/ AgentOutOfBudget \/ AgentFailedOnce \/ AgentFailedForGood
  BY <1>5, <1>7 DEF AgentClean, AgentOutOfBudget, AgentFailedOnce,
     AgentFailedForGood,
     Goto
<1>8. CASE SendNotice \/ FlagNotice \/ RefetchHead \/ IterateAgain \/ StopIterating
  BY <1>5, <1>8 DEF SendNotice, FlagNotice, RefetchHead, IterateAgain,
     StopIterating,
     Goto
<1>9. CASE SafetyBlocks \/ CiBlocks \/ CiPasses \/ RecheckValid \/ MergeableGate
  BY <1>5, <1>9 DEF SafetyBlocks, CiBlocks, CiPasses, RecheckValid, StillValid,
     MergeableGate, Goto
<1>10. CASE Approve \/ MergeRefused
  BY <1>5, <1>10 DEF Approve, MergeRefused, Goto
<1> QED
  BY <1>1, <1>2, <1>3, <1>4, <1>6, <1>7, <1>8, <1>9, <1>10 DEF Next, ProcessPr

\* A step of the worker moves on through At() and writes its entry through one
\* of the mutators.
LEMMA WorkerStep == ASSUME TypeOK, Next PROVE WorkerOK'
<1> USE DEF TypeOK, WorkerOK
<1>a. ASSUME AtHead', fix' \in Entries PROVE WorkerOK'
  BY <1>a DEF AtHead
<1>b. ASSUME pc # "idle" PROVE c \in Ctxs /\ c.sha \in Heads
  BY <1>b
<1>c. \A next \in Pcs : pc # "idle" /\ At(next, c) => AtHead'
  BY <1>b, AtType
<1>d. \A next \in Pcs : pc # "idle" /\ Goto(next) => WorkerOK'
  BY <1>a, <1>c DEF Goto
<1>1. CASE World
  BY <1>1 DEF World, AuthorPushes, ApiCatchesUp, CiMoves, BaseMoves, ReviewPosted,
     AuthorCloses, worker
<1>2. CASE StartTick
  <2>1. PICK m \in Mergeable :
          c' = [NoCtx EXCEPT !.sha = shown, !.mergeable = m, !.pinned = Pinned(shown)]
    BY <1>2 DEF StartTick
  <2>2. m \in {"yes", "no", "unknown"} /\ shown \in Heads
    BY DEF Mergeable, WorldOK
  <2>3. Pinned(shown) \in BOOLEAN
    BY DEF Pinned
  <2>4. c' \in Ctxs /\ c'.sha \in Heads
    BY <2>1, <2>2, <2>3, NoCtxType DEF Ctxs
  <2>5. pc' \in {"bot", "find"} /\ fix' = fix
    BY <1>2 DEF StartTick
  <2> QED
    BY <2>4, <2>5 DEF Pcs
<1>3. CASE DependabotCi
  <2>1. pc # "idle" /\ fix' = fix
    BY <1>3 DEF DependabotCi
  <2>2. \/ At("gate", [c EXCEPT !.already = TRUE, !.passed = c.sha])
        \/ At("find", [c EXCEPT !.retry = TRUE])
        \/ At("find", c)
    BY <1>3 DEF DependabotCi
  <2>3. "gate" \in Pcs /\ "find" \in Pcs
    BY DEF Pcs
  <2> QED
    BY <2>1, <2>2, <2>3, <1>a, <1>b, AtType, CtxUpdates
<1>4. CASE TriggerReview
  BY <1>4, <1>d DEF TriggerReview, Pcs
<1>5. CASE FindReview
  <2> DEFINE already == alreadyFixed(c.sha) /\ ~c.retry
             next == IF getSkipReason(c.sha) THEN "tell"
                     ELSE IF AgentOffered(already) THEN "valid" ELSE "ci"
             ctx == [c EXCEPT !.verdict = review, !.already = already,
                              !.retry = FALSE, !.round = 1]
  <2>1. At(next, ctx) /\ pc # "idle" /\ fix' = fix
    BY <1>5 DEF FindReview
  <2>2. next \in Pcs
    BY DEF Pcs
  <2>3. already \in BOOLEAN
    BY DEF alreadyFixed
  <2>4. review \in {"none", "safe", "unsafe"} /\ 1 \in 0..MaxRounds
    BY Bounds DEF WorldOK
  <2> HIDE DEF already, next
  <2>5. ctx \in Ctxs /\ ctx.sha \in Heads
    BY <2>1, <2>3, <2>4, <1>b, CtxUpdates
  <2> QED
    BY <2>1, <2>2, <2>5, <1>a, AtType
<1>6. CASE CheckValid \/ RecheckValid
  <2>1. pc # "idle" /\ fix' = fix /\ shown \in Heads
    BY <1>6 DEF CheckValid, StillValid, RecheckValid, WorldOK
  <2>2. \/ \E s \in {"fix", "resolve"} : At("agent", [c EXCEPT !.site = s])
        \/ \E m \in Mergeable : At("ci", [c EXCEPT !.sha = shown, !.mergeable = m])
        \/ At("ci", c)
        \/ At("idle", c)
    BY <1>6 DEF CheckValid, StillValid, RecheckValid
  <2>3. {"agent", "ci", "idle"} \subseteq Pcs
    BY DEF Pcs
  <2> QED
    BY <2>1, <2>2, <2>3, <1>a, <1>b, AtType, CtxUpdates
<1>7. CASE AgentPushed
  <2>1. pc # "idle" /\ head' \in Heads
    BY <1>7, WorldStep DEF AgentPushed, WorldOK
  <2>2. fix' \in Entries
    BY <1>7, <1>b, <2>1, EntryUpdates DEF AgentPushed
  <2>3. \E next \in {"after", "idle"} : At(next, [c EXCEPT !.tip = head'])
    BY <1>7 DEF AgentPushed
  <2>4. {"after", "idle"} \subseteq Pcs
    BY DEF Pcs
  <2>5. [c EXCEPT !.tip = head'] \in Ctxs /\ [c EXCEPT !.tip = head'].sha \in Heads
    BY <2>1, <1>b, CtxUpdates
  <2>6. AtHead'
    BY <2>3, <2>4, <2>5, AtType
  <2> QED
    BY <2>2, <2>6, <1>a
<1>8. CASE AgentClean \/ AgentOutOfBudget
  <2>1. pc # "idle"
    BY <1>8 DEF AgentClean, AgentOutOfBudget
  <2>2. fix' \in Entries
    BY <1>8, <2>1, <1>b, EntryUpdates DEF AgentClean, AgentOutOfBudget
  <2>3. \E next \in {"clean", "ci", "idle"} : At(next, c)
    BY <1>8 DEF AgentClean, AgentOutOfBudget, AfterAgent
  <2>4. {"clean", "ci", "idle"} \subseteq Pcs
    BY DEF Pcs
  <2> QED
    BY <2>1, <2>2, <2>3, <2>4, <1>a, <1>c
<1>9. CASE AgentFailedOnce
  BY <1>9, <1>d DEF AgentFailedOnce, AfterAgent, Pcs
<1>10. CASE AgentFailedForGood
  <2>1. pc # "idle" /\ AfterAgent \in {"idle", "ci"}
    BY <1>10 DEF AgentFailedForGood, AfterAgent
  <2>2. fix' \in Entries
    BY <1>10, <2>1, <1>b, EntryUpdates DEF AgentFailedForGood
  <2>3. At("tell", [c EXCEPT !.next = AfterAgent]) /\ "tell" \in Pcs
    BY <1>10 DEF AgentFailedForGood, Pcs
  <2>4. /\ [c EXCEPT !.next = AfterAgent] \in Ctxs
        /\ [c EXCEPT !.next = AfterAgent].sha \in Heads
    BY <2>1, <1>b, CtxUpdates
  <2> QED
    BY <2>2, <2>3, <2>4, <1>a, AtType
<1>11. CASE SendNotice \/ FlagNotice
  <2>1. pc # "idle"
    BY <1>11 DEF SendNotice, FlagNotice
  <2>2. fix' \in Entries
    BY <1>11, <2>1, <1>b, EntryUpdates DEF SendNotice, FlagNotice
  <2>3. c.next \in Pcs /\ "flag" \in Pcs
    BY DEF Ctxs, Pcs
  <2>4. At(c.next, c) \/ At("flag", c)
    BY <1>11 DEF SendNotice, FlagNotice
  <2> QED
    BY <2>1, <2>2, <2>3, <2>4, <1>a, <1>c
<1>12. CASE RefetchHead
  <2>1. pc # "idle" /\ fix' = fix /\ shown \in Heads
    BY <1>12 DEF RefetchHead, WorldOK
  <2>2. c.mergeable \in {"yes", "no", "unknown"}
    BY DEF Ctxs
  <2>3. PICK next \in {"settle", "ci"} :
          \/ \E m \in {"yes", "no", "unknown"} :
               At(next, [c EXCEPT !.sha = shown, !.mergeable = m])
          \/ At(next, c)
    BY <1>12, <2>2 DEF RefetchHead, Mergeable
  <2>4. {"settle", "ci"} \subseteq Pcs
    BY DEF Pcs
  <2>5. \A m \in {"yes", "no", "unknown"} :
          LET y == [c EXCEPT !.sha = shown, !.mergeable = m]
          IN  y \in Ctxs /\ y.sha \in Heads
    BY <2>1 DEF Ctxs
  <2> QED
    BY <2>1, <2>3, <2>4, <2>5, <1>a, <1>c, AtType
<1>13. CASE IterateAgain
  <2>1. pc # "idle" /\ fix' = fix /\ c.round + 1 \in 0..MaxRounds
    BY <1>13, Bounds DEF IterateAgain, Ctxs
  <2>2. At("valid", [c EXCEPT !.round = c.round + 1]) /\ "valid" \in Pcs
    BY <1>13 DEF IterateAgain, Pcs
  <2>3. /\ [c EXCEPT !.round = c.round + 1] \in Ctxs
        /\ [c EXCEPT !.round = c.round + 1].sha \in Heads
    BY <2>1, <1>b, CtxUpdates
  <2> QED
    BY <2>1, <2>2, <2>3, <1>a, AtType
<1>14. CASE StopIterating \/ SafetyBlocks \/ CiBlocks \/ Approve
  BY <1>14, <1>d DEF StopIterating, SafetyBlocks, CiBlocks, Approve, Pcs
<1>15. CASE MergeableGate \/ MergeRefused
  <2>1. pc # "idle"
    BY <1>15 DEF MergeableGate, MergeRefused
  <2>2. \E next \in {"idle", "recheck", "approve"} : Goto(next)
    BY <1>15 DEF MergeableGate, MergeRefused, Resolve, Mergeable
  <2> QED
    BY <2>1, <2>2, <1>d DEF Pcs
<1>16. CASE CloseStale \/ Merge \/ Crash
  <2>1. pc # "idle" /\ fix' = fix /\ At("idle", c) /\ "idle" \in Pcs
    BY <1>16 DEF CloseStale, closeStaleCiPr, Merge, Crash, Pcs
  <2> QED
    BY <2>1, <1>a, <1>c
<1>17. CASE CiPasses
  <2>1. pc # "idle" /\ fix' = fix
    BY <1>17 DEF CiPasses
  <2>2. \E next \in {"gate", "idle", "recheck"} : At(next, [c EXCEPT !.passed = c.sha])
    BY <1>17 DEF CiPasses, Resolve
  <2>3. {"gate", "idle", "recheck"} \subseteq Pcs
    BY DEF Pcs
  <2>4. [c EXCEPT !.passed = c.sha] \in Ctxs /\ [c EXCEPT !.passed = c.sha].sha \in Heads
    BY <2>1, <1>b, CtxUpdates
  <2> QED
    BY <2>1, <2>2, <2>3, <2>4, <1>a, AtType
<1> QED
  BY <1>1, <1>2, <1>3, <1>4, <1>5, <1>6, <1>7, <1>8, <1>9, <1>10, <1>11, <1>12,
     <1>13, <1>14, <1>15, <1>16, <1>17 DEF Next, ProcessPr

\* The ghosts stay within their caps.
LEMMA GhostsStep == ASSUME TypeOK, Next PROVE GhostsOK'
<1> USE DEF TypeOK, GhostsOK
<1>a. ASSUME UNCHANGED ghosts PROVE GhostsOK'
  BY <1>a DEF ghosts
<1>b. ASSUME FixSucceeds, UNCHANGED crashes PROVE GhostsOK'
  BY <1>b, Bounds DEF FixSucceeds
<1>1. CASE World
  BY <1>1, <1>a DEF World, AuthorPushes, ApiCatchesUp, CiMoves, BaseMoves,
     ReviewPosted, AuthorCloses
<1>2. CASE StartTick \/ DependabotCi \/ TriggerReview \/ FindReview \/ CheckValid
  BY <1>2, <1>a DEF StartTick, DependabotCi, TriggerReview, FindReview,
     CheckValid, StillValid, Goto
<1>3. CASE AgentPushed \/ AgentClean
  BY <1>3, <1>b DEF AgentPushed, AgentClean
<1>4. CASE AgentOutOfBudget
  <2>1. c.sha \in Heads
    BY <1>4 DEF AgentOutOfBudget, WorkerOK
  <2>2. Up(spent[c.sha], Ceiling + 1) \in 0..Ceiling + 1
    BY <2>1, Bounds DEF Up
  <2>3. spent' \in [Heads -> 0..Ceiling + 1] /\ UNCHANGED <<sent, crashes>>
    BY <1>4, <2>2 DEF AgentOutOfBudget
  <2> QED
    BY <2>3
<1>5. CASE AgentFailedOnce \/ AgentFailedForGood \/ FlagNotice \/ RefetchHead
  BY <1>5, <1>a DEF AgentFailedOnce, AgentFailedForGood, FlagNotice, RefetchHead,
     Goto
<1>6. CASE SendNotice
  BY <1>6, Bounds DEF SendNotice, Up
<1>7. CASE IterateAgain \/ StopIterating \/ SafetyBlocks \/ CiBlocks \/ CloseStale
  BY <1>7, <1>a DEF IterateAgain, StopIterating, SafetyBlocks, CiBlocks,
     CloseStale, closeStaleCiPr, Goto
<1>8. CASE CiPasses \/ RecheckValid \/ MergeableGate \/ Approve \/ Merge
  BY <1>8, <1>a DEF CiPasses, RecheckValid, StillValid, MergeableGate, Approve,
     Merge, Goto
<1>9. CASE MergeRefused
  BY <1>9, <1>a DEF MergeRefused, Goto
<1>10. CASE Crash
  BY <1>10, Bounds DEF Crash
<1> QED
  BY <1>1, <1>2, <1>3, <1>4, <1>5, <1>6, <1>7, <1>8, <1>9, <1>10 DEF Next, ProcessPr

\* The types of PrPipeline: in particular a tick in progress, from the scan to
\* the merge, always holds a head the PR has had.
THEOREM TypeCorrect == Spec => []TypeOK
<1>1. TypeOK /\ [Next]_vars => TypeOK'
  <2>1. ASSUME TypeOK, Next PROVE TypeOK'
    BY <2>1, WorldStep, WorkerStep, GhostsStep DEF TypeOK
  <2>2. ASSUME TypeOK, UNCHANGED vars PROVE TypeOK'
    BY <2>2 DEF TypeOK, WorldOK, WorkerOK, GhostsOK, vars, world, ghosts
  <2> QED
    BY <2>1, <2>2
<1> QED
  BY InitType, <1>1, PTL DEF Spec

----------------------------------------------------------------------------
\* Between the gate that read the CI and the merge, the head the tick goes on
\* with is the head whose CI it read.
GateInv == pc \in {"gate", "approve", "merge"} => c.passed = c.sha

LEMMA GateStep == ASSUME TypeOK, GateInv, [Next]_vars PROVE GateInv'
<1> USE DEF GateInv
<1>a. ASSUME NEW next, NEW ctx, At(next, ctx), next \notin {"gate", "approve", "merge"}
      PROVE GateInv'
  BY <1>a DEF At
<1>1. CASE World \/ UNCHANGED vars
  BY <1>1 DEF World, AuthorPushes, ApiCatchesUp, CiMoves, BaseMoves, ReviewPosted,
     AuthorCloses, worker, vars
<1>2. CASE StartTick
  BY <1>2 DEF StartTick
<1>3. CASE DependabotCi
  <2>1. \/ At("gate", [c EXCEPT !.already = TRUE, !.passed = c.sha])
        \/ \E ctx : At("find", ctx)
    BY <1>3 DEF DependabotCi
  <2>2. c \in Ctxs
    BY DEF TypeOK, WorkerOK
  <2>3. LET y == [c EXCEPT !.already = TRUE, !.passed = c.sha] IN y.passed = y.sha
    BY <2>2 DEF Ctxs
  <2> QED
    BY <2>1, <2>3, <1>a DEF At
<1>4. CASE CiPasses
  <2>1. \E next \in {"gate", "idle", "recheck"} : At(next, [c EXCEPT !.passed = c.sha])
    BY <1>4 DEF CiPasses, Resolve
  <2>2. c \in Ctxs
    BY DEF TypeOK, WorkerOK
  <2>3. LET y == [c EXCEPT !.passed = c.sha] IN y.passed = y.sha
    BY <2>2 DEF Ctxs
  <2> QED
    BY <2>1, <2>3, <1>a DEF At
<1>5. CASE MergeableGate \/ Approve
  <2>1. c.passed = c.sha
    BY <1>5 DEF MergeableGate, Approve
  <2>2. \E next \in {"idle", "recheck", "approve", "merge"} : At(next, c)
    BY <1>5 DEF MergeableGate, Approve, Goto, Resolve, Mergeable
  <2> QED
    BY <2>1, <2>2, <1>a DEF At
<1>6. CASE SendNotice \/ FlagNotice
  <2>1. c.next \in {"idle", "ci"}
    BY DEF TypeOK, WorkerOK, Ctxs
  <2>2. \E next \in {"idle", "ci", "flag"} : At(next, c)
    BY <1>6, <2>1 DEF SendNotice, FlagNotice
  <2> QED
    BY <2>2, <1>a
<1>7. CASE TriggerReview \/ FindReview
  <2>1. \E next \in {"idle", "tell", "ci", "valid"}, ctx \in {c, c'} : At(next, ctx)
    BY <1>7 DEF TriggerReview, FindReview, Goto, At
  <2> QED
    BY <2>1, <1>a
<1>8. CASE CheckValid \/ RecheckValid \/ RefetchHead
  BY <1>8 DEF CheckValid, StillValid, RecheckValid, RefetchHead, At
<1>9. CASE AgentPushed \/ AgentClean \/ AgentOutOfBudget
  BY <1>9 DEF AgentPushed, AgentClean, AgentOutOfBudget, AfterAgent, At
<1>10. CASE AgentFailedOnce \/ AgentFailedForGood \/ IterateAgain \/ StopIterating
  BY <1>10 DEF AgentFailedOnce, AgentFailedForGood, IterateAgain, StopIterating,
     AfterAgent, Goto, At
<1>11. CASE SafetyBlocks \/ CiBlocks \/ CloseStale \/ Merge \/ MergeRefused \/ Crash
  BY <1>11 DEF SafetyBlocks, CiBlocks, CloseStale, closeStaleCiPr, Merge,
     MergeRefused, Crash, Resolve,
     Goto, At
<1> QED
  BY <1>1, <1>2, <1>3, <1>4, <1>5, <1>6, <1>7, <1>8, <1>9, <1>10, <1>11
     DEF Next, ProcessPr

\* Whatever is pushed, by whom and when, and however GitHub lags, the head that
\* is merged is the one whose CI the merging tick has read as passing.
THEOREM MergesWhatItGated == Spec => MergedHeadPassed
<1>1. Init => GateInv
  BY DEF Init, GateInv
<1>2. ASSUME GateInv, [Next]_vars
      PROVE  [status = "open" /\ status' = "merged" => head = c.passed]_vars
  <2>1. CASE Merge
    BY <1>2, <2>1 DEF Merge, GateInv
  <2>2. CASE World
    BY <2>2 DEF World, AuthorPushes, ApiCatchesUp, CiMoves, BaseMoves, ReviewPosted,
       AuthorCloses
  <2>3. CASE AgentPushed \/ CloseStale \/ Crash
    BY <2>3 DEF AgentPushed, CloseStale, closeStaleCiPr, Crash
  <2>4. ASSUME UNCHANGED world
        PROVE [status = "open" /\ status' = "merged" => head = c.passed]_vars
    BY <2>4 DEF world
  <2>5. CASE StartTick \/ DependabotCi \/ TriggerReview \/ FindReview \/ CheckValid
    BY <2>4, <2>5 DEF StartTick, DependabotCi, TriggerReview, FindReview,
       CheckValid, StillValid, Goto
  <2>6. CASE AgentClean \/ AgentOutOfBudget \/ AgentFailedOnce \/ AgentFailedForGood
    BY <2>4, <2>6 DEF AgentClean, AgentOutOfBudget, AgentFailedOnce,
       AgentFailedForGood,
       Goto
  <2>7. CASE SendNotice \/ FlagNotice \/ RefetchHead \/ IterateAgain \/ StopIterating
    BY <2>4, <2>7 DEF SendNotice, FlagNotice, RefetchHead, IterateAgain,
       StopIterating,
       Goto
  <2>8. CASE SafetyBlocks \/ CiBlocks \/ CiPasses \/ RecheckValid \/ MergeableGate
    BY <2>4, <2>8 DEF SafetyBlocks, CiBlocks, CiPasses, RecheckValid, StillValid,
       MergeableGate, Goto
  <2>9. CASE Approve \/ MergeRefused \/ UNCHANGED vars
    BY <2>4, <2>9 DEF Approve, MergeRefused, Goto, vars
  <2> QED
    BY <1>2, <2>1, <2>2, <2>3, <2>5, <2>6, <2>7, <2>8, <2>9 DEF Next, ProcessPr
<1> QED
  BY TypeCorrect, <1>1, <1>2, GateStep, PTL DEF Spec, MergedHeadPassed

----------------------------------------------------------------------------
\* A tick that began on a pinned head keeps the pin on record, goes nowhere
\* after its notice, and on the green dependabot path passes `already`, so that
\* neither of the resolver's two callers asks for the agent.
PinInv ==
  c.pinned =>
    /\ Pinned(c.sha)
    /\ c.next = "idle"
    /\ \/ pc \in {"idle", "find", "tell", "flag"}
       \/ byBot /\ pc = "bot"
       \/ byBot /\ pc \in {"gate", "approve", "merge"} /\ c.already

\* The author of the pull request never changes.
LEMMA SameAuthor == ASSUME [Next]_vars PROVE byBot' = byBot
<1> USE DEF Goto, world
<1>1. CASE World
  BY <1>1 DEF World, AuthorPushes, ApiCatchesUp, CiMoves, BaseMoves, ReviewPosted,
     AuthorCloses
<1>2. CASE StartTick \/ Crash \/ UNCHANGED vars
  BY <1>2 DEF StartTick, Crash, vars
<1>3. CASE ProcessPr
  BY <1>3 DEF ProcessPr, DependabotCi, TriggerReview, FindReview, CheckValid,
     StillValid,
     AgentPushed, AgentClean, AgentOutOfBudget, AgentFailedOnce, AgentFailedForGood,
     SendNotice, FlagNotice, RefetchHead, IterateAgain, StopIterating, SafetyBlocks,
     CiBlocks, CloseStale, closeStaleCiPr, CiPasses, RecheckValid, MergeableGate,
        Approve, Merge,
     MergeRefused
<1> QED
  BY <1>1, <1>2, <1>3 DEF Next

LEMMA PinStep == ASSUME TypeOK, PinInv, [Next]_vars PROVE PinInv'
<1> USE DEF PinInv, Pinned, getSkipReason
<1>c. c \in Ctxs /\ fix \in Entries
  BY DEF TypeOK, WorkerOK
<1>e. byBot' = byBot
  BY SameAuthor
<1>a. ASSUME ~c'.pinned PROVE PinInv'
  BY <1>a
<1>b. ASSUME At("idle", c) PROVE PinInv'
  <2>1. ~c'.pinned
    BY <1>b DEF At, NoCtx
  <2> QED
    BY <2>1, <1>a
<1>d. ASSUME ~c.pinned, c'.pinned = c.pinned PROVE PinInv'
  BY <1>a, <1>d
<1>1. CASE World \/ UNCHANGED vars
  BY <1>1, <1>e DEF World, AuthorPushes, ApiCatchesUp, CiMoves, BaseMoves,
     ReviewPosted,
     AuthorCloses, worker, vars
<1>2. CASE StartTick
  <2>1. PICK m \in Mergeable :
          c' = [NoCtx EXCEPT !.sha = shown, !.mergeable = m, !.pinned = Pinned(shown)]
    BY <1>2 DEF StartTick
  <2>2. c'.sha = shown /\ c'.next = "idle" /\ (c'.pinned <=> Pinned(shown))
    BY <2>1 DEF NoCtx
  <2>3. (pc' = "find" \/ (byBot /\ pc' = "bot")) /\ fix' = fix
    BY <1>2 DEF StartTick
  <2> QED
    BY <2>2, <2>3, <1>e
<1>3. CASE DependabotCi
  <2>1. fix' = fix /\ pc = "bot"
    BY <1>3 DEF DependabotCi
  <2>2. CASE At("gate", [c EXCEPT !.already = TRUE, !.passed = c.sha])
    <3>1. /\ pc' = "gate" /\ c'.already = TRUE /\ c'.sha = c.sha /\ c'.next = c.next
          /\ c'.pinned = c.pinned
      BY <2>2, <1>c DEF At, Ctxs
    <3> QED
      BY <3>1, <2>1, <1>d, <1>e
  <2>3. CASE At("find", [c EXCEPT !.retry = TRUE]) \/ At("find", c)
    <3>1. /\ pc' = "find" /\ c'.sha = c.sha /\ c'.next = c.next
          /\ c'.pinned = c.pinned
      BY <2>3, <1>c DEF At, Ctxs
    <3> QED
      BY <3>1, <2>1, <1>d, <1>e
  <2> QED
    BY <1>3, <2>2, <2>3 DEF DependabotCi
<1>4. CASE TriggerReview \/ SafetyBlocks \/ CiBlocks \/ CloseStale \/ Merge \/ Crash
  BY <1>4, <1>b DEF TriggerReview, SafetyBlocks, CiBlocks, CloseStale,
     closeStaleCiPr, Merge, Crash, Goto
<1>5. CASE FindReview
  <2>1. fix' = fix /\ pc = "find"
    BY <1>5 DEF FindReview
  <2>2. c'.pinned = c.pinned /\ c'.sha = c.sha /\ c'.next = c.next
    BY <1>5, <1>c DEF FindReview, At, Ctxs
  <2>3. getSkipReason(c.sha) => pc' = "tell"
    BY <1>5 DEF FindReview, At
  <2> QED
    BY <2>1, <2>2, <2>3, <1>d
<1>6. CASE SendNotice \/ FlagNotice
  <2>1. CASE c.pinned
    <3>1. c.next = "idle"
      BY <2>1
    <3>2. CASE At("idle", c)
      BY <3>2, <1>b
    <3>3. CASE At("flag", c) /\ fix' = fix
      BY <3>3 DEF At
    <3> QED
      BY <1>6, <3>1, <3>2, <3>3 DEF SendNotice, FlagNotice
  <2>2. CASE ~c.pinned
    <3>1. \E next : At(next, c)
      BY <1>6 DEF SendNotice, FlagNotice
    <3> QED
      BY <2>2, <3>1, <1>a DEF At, NoCtx
  <2> QED
    BY <2>1, <2>2
<1>7. CASE MergeableGate \/ Approve \/ MergeRefused
  <2>1. CASE c.pinned
    <3>1. c.already /\ alreadyFixed(c.sha) /\ byBot
      BY <1>7, <2>1 DEF MergeableGate, Approve, MergeRefused, alreadyFixed
    <3>2. Goto("idle") \/ (Goto("approve") \/ Goto("merge"))
      BY <1>7, <3>1 DEF MergeableGate, Approve, MergeRefused, Resolve, Mergeable
    <3>3. ASSUME NEW next \in {"approve", "merge"}, Goto(next) PROVE PinInv'
      BY <2>1, <3>1, <3>3, <1>e DEF Goto, At
    <3> QED
      BY <3>2, <3>3, <1>b DEF Goto
  <2>2. CASE ~c.pinned
    <3>1. \E next : At(next, c)
      BY <1>7 DEF MergeableGate, Approve, MergeRefused, Goto
    <3> QED
      BY <2>2, <3>1, <1>a DEF At, NoCtx
  <2> QED
    BY <2>1, <2>2
\* The other steps begin where a pinned tick does not come.
<1>8. ASSUME pc \notin {"idle", "bot", "find", "tell", "flag", "gate", "approve", "merge"},
             NEW next, NEW ctx, At(next, ctx), ctx.pinned = c.pinned
      PROVE  PinInv'
  BY <1>8, <1>a DEF At, NoCtx
<1>9. CASE CheckValid \/ RecheckValid
  <2>1. \A m : [c EXCEPT !.sha = shown, !.mergeable = m].pinned = c.pinned
    BY <1>c DEF Ctxs
  <2>2. \A s : [c EXCEPT !.site = s].pinned = c.pinned
    BY <1>c DEF Ctxs
  <2>3. \/ \E s : At("agent", [c EXCEPT !.site = s])
        \/ \E m : At("ci", [c EXCEPT !.sha = shown, !.mergeable = m])
        \/ At("ci", c)
        \/ At("idle", c)
    BY <1>9 DEF CheckValid, StillValid, RecheckValid
  <2> QED
    BY <1>8, <1>9, <2>1, <2>2, <2>3 DEF CheckValid, StillValid, RecheckValid
<1>10. CASE AgentPushed
  <2>1. \E next, ctx : At(next, ctx) /\ ctx.pinned = c.pinned
    BY <1>10, <1>c DEF AgentPushed, Ctxs
  <2> QED
    BY <1>8, <1>10, <2>1 DEF AgentPushed
<1>11. CASE AgentClean \/ AgentOutOfBudget \/ AgentFailedOnce
  <2>1. \E next, ctx : At(next, ctx) /\ ctx.pinned = c.pinned
    BY <1>11 DEF AgentClean, AgentOutOfBudget, AgentFailedOnce, Goto
  <2> QED
    BY <1>8, <1>11, <2>1 DEF AgentClean, AgentOutOfBudget, AgentFailedOnce
<1>12. CASE AgentFailedForGood
  <2>1. \E next, ctx : At(next, ctx) /\ ctx.pinned = c.pinned
    BY <1>12, <1>c DEF AgentFailedForGood, Ctxs
  <2> QED
    BY <1>8, <1>12, <2>1 DEF AgentFailedForGood
<1>13. CASE RefetchHead
  <2>1. \A m : [c EXCEPT !.sha = shown, !.mergeable = m].pinned = c.pinned
    BY <1>c DEF Ctxs
  <2>2. \E next : \/ \E m : At(next, [c EXCEPT !.sha = shown, !.mergeable = m])
                  \/ At(next, c)
    BY <1>13 DEF RefetchHead
  <2> QED
    BY <1>8, <1>13, <2>1, <2>2 DEF RefetchHead
<1>14. CASE IterateAgain \/ StopIterating
  <2>1. \E next, ctx : At(next, ctx) /\ ctx.pinned = c.pinned
    BY <1>14, <1>c DEF IterateAgain, StopIterating, Goto, Ctxs
  <2> QED
    BY <1>8, <1>14, <2>1 DEF IterateAgain, StopIterating
<1>15. CASE CiPasses
  <2>1. \E next, ctx : At(next, ctx) /\ ctx.pinned = c.pinned
    BY <1>15, <1>c DEF CiPasses, Ctxs
  <2> QED
    BY <1>8, <1>15, <2>1 DEF CiPasses
<1> QED
  BY <1>1, <1>2, <1>3, <1>4, <1>5, <1>6, <1>7, <1>9, <1>10, <1>11, <1>12, <1>13,
     <1>14, <1>15 DEF Next, ProcessPr

\* A head that a tick finds pinned buys no agent run in that tick, and is not
\* merged by it unless it is a dependabot bump whose CI is green.
THEOREM PinsAreHonoured == Spec => []PinHonoured
<1>1. Init => PinInv
  BY DEF Init, PinInv, NoCtx
<1>2. PinInv => PinHonoured
  BY DEF PinInv, PinHonoured
<1> QED
  BY TypeCorrect, <1>1, <1>2, PinStep, PTL DEF Spec

----------------------------------------------------------------------------
\* The head a notice is about is the head on record, and a head whose notice
\* has gone out more often than the worker was killed is on record as notified,
\* but for the tick that is about to write the flag.
NoticeInv ==
  /\ pc \in {"tell", "flag"} => fix.sha = c.sha
  /\ \A h \in Heads : sent[h] <= 1 + crashes
  /\ \A h \in Heads : fix.notified \/ (pc = "flag" /\ c.sha = h) \/ sent[h] <= crashes

LEMMA NoticeStep == ASSUME TypeOK, NoticeInv, [Next]_vars PROVE NoticeInv'
<1> USE DEF NoticeInv
<1>t. /\ sent \in [Heads -> 0..MaxCrashes + 2] /\ crashes \in 0..MaxCrashes
      /\ fix \in Entries /\ c \in Ctxs /\ (pc # "idle" => c.sha \in Heads)
  BY DEF TypeOK, WorkerOK, GhostsOK
<1>n. \A h \in Heads : sent[h] \in Nat /\ crashes \in Nat /\ (sent[h] <= crashes => sent[h] <= 1 + crashes)
  BY <1>t, Bounds
\* A step that neither sends nor flags, and leaves the record as notified as it was.
<1>a. ASSUME UNCHANGED <<sent, crashes>>, fix'.notified = fix.notified, pc # "flag",
             pc' \in {"tell", "flag"} => fix'.sha = c'.sha
      PROVE  NoticeInv'
  BY <1>a
<1>b. ASSUME UNCHANGED <<fix, ghosts>>, pc # "flag", NEW next, NEW ctx, At(next, ctx),
             next \notin {"tell", "flag"}
      PROVE  NoticeInv'
  BY <1>a, <1>b DEF At, ghosts
\* A success, after which nothing has been sent.
<1>c. ASSUME FixSucceeds, UNCHANGED crashes, NEW next, NEW ctx, At(next, ctx),
             next \notin {"tell", "flag"}
      PROVE  NoticeInv'
  BY <1>c, <1>t DEF FixSucceeds, At
<1>1. CASE World \/ UNCHANGED vars
  BY <1>1 DEF World, AuthorPushes, ApiCatchesUp, CiMoves, BaseMoves, ReviewPosted,
     AuthorCloses, worker, vars, ghosts
<1>2. CASE StartTick
  BY <1>2, <1>a DEF StartTick, ghosts
<1>3. CASE DependabotCi \/ CheckValid \/ RecheckValid
  <2>1. \E next \in {"gate", "find", "agent", "ci", "idle"} : \E ctx : At(next, ctx)
    BY <1>3 DEF DependabotCi, CheckValid, RecheckValid
  <2>2. pc # "flag" /\ UNCHANGED <<fix, ghosts>>
    BY <1>3 DEF DependabotCi, CheckValid, RecheckValid
  <2> QED
    BY <1>b, <2>1, <2>2
<1>4. CASE TriggerReview \/ SafetyBlocks \/ CiBlocks \/ StopIterating \/ Approve
  BY <1>4, <1>b DEF TriggerReview, SafetyBlocks, CiBlocks, StopIterating, Approve, Goto
<1>5. CASE FindReview
  <2>1. CASE getSkipReason(c.sha)
    <3>1. c'.sha = c.sha /\ fix.sha = c.sha
      BY <1>5, <1>t, <2>1 DEF FindReview, At, Ctxs, getSkipReason
    <3> QED
      BY <1>5, <3>1, <1>a DEF FindReview, ghosts
  <2>2. CASE ~getSkipReason(c.sha)
    BY <1>5, <2>2, <1>b DEF FindReview
  <2> QED
    BY <2>1, <2>2
<1>6. CASE AgentPushed
  BY <1>6, <1>c DEF AgentPushed
<1>7. CASE AgentClean
  BY <1>7, <1>c DEF AgentClean
<1>8. CASE AgentOutOfBudget
  <2>1. fix'.notified = fix.notified
    BY <1>8, <1>t DEF AgentOutOfBudget, bumpBudgetRun, Entries
  <2>2. At(AfterAgent, c) /\ AfterAgent \notin {"tell", "flag"}
    BY <1>8 DEF AgentOutOfBudget, AfterAgent
  <2> QED
    BY <1>8, <1>a, <2>1, <2>2 DEF AgentOutOfBudget, At
<1>9. CASE AgentFailedOnce
  <2>1. At(AfterAgent, c) /\ AfterAgent \notin {"tell", "flag"}
    BY <1>9 DEF AgentFailedOnce, AfterAgent, Goto
  <2> QED
    BY <1>9, <1>b, <2>1 DEF AgentFailedOnce, Goto
<1>10. CASE AgentFailedForGood
  <2>1. fix'.notified = fix.notified /\ fix'.sha = c.sha
    BY <1>10, <1>t DEF AgentFailedForGood, markSkip, Entries
  <2>2. c' = [c EXCEPT !.next = AfterAgent]
    BY <1>10 DEF AgentFailedForGood, At
  <2>3. c'.sha = c.sha
    BY <2>2, <1>t DEF Ctxs
  <2> QED
    BY <1>10, <1>a, <2>1, <2>3 DEF AgentFailedForGood, ghosts
<1>11. CASE SendNotice
  <2>n. c.next \in {"idle", "ci"} /\ c.sha \in Heads /\ fix.sha = c.sha
    BY <1>11, <1>t DEF SendNotice, Ctxs
  <2>1. CASE wasSkipNotified(c.sha)
    <3>1. At(c.next, c) /\ UNCHANGED <<sent, fix, crashes>> /\ pc # "flag"
      BY <1>11, <2>1 DEF SendNotice
    <3> QED
      BY <3>1, <2>n, <1>a DEF At
  <2>2. CASE ~wasSkipNotified(c.sha)
    <3>1. ~fix.notified
      BY <2>2, <2>n DEF wasSkipNotified
    <3>2. \A h \in Heads : sent[h] <= crashes
      BY <3>1, <1>11 DEF SendNotice
    <3>3. /\ pc' = "flag" /\ c' = c /\ UNCHANGED <<fix, crashes>>
          /\ sent' = [sent EXCEPT ![c.sha] = Up(sent[c.sha], MaxCrashes + 2)]
      BY <1>11, <2>2 DEF SendNotice, At
    <3>4. sent[c.sha] \in 0..MaxCrashes + 2
      BY <1>t, <2>n
    <3>5. Up(sent[c.sha], MaxCrashes + 2) <= 1 + crashes
      BY <3>2, <3>4, <1>t, <2>n, Bounds DEF Up
    <3>6. sent'[c.sha] <= 1 + crashes /\ \A h \in Heads \ {c.sha} : sent'[h] <= crashes
      BY <3>2, <3>3, <3>5, <1>t, <2>n
    <3>7. \A h \in Heads : sent'[h] <= 1 + crashes
      <4> TAKE h \in Heads
      <4>1. CASE h = c.sha
        BY <4>1, <3>6
      <4>2. CASE h # c.sha
        <5>1. sent'[h] = sent[h]
          BY <4>2, <3>3, <1>t, <2>n
        <5> QED
          BY <5>1, <3>2, <1>n
      <4> QED
        BY <4>1, <4>2
    <3> QED
      BY <3>3, <3>6, <3>7, <2>n
  <2> QED
    BY <2>1, <2>2
<1>12. CASE FlagNotice
  <2>1. fix'.notified = TRUE /\ UNCHANGED <<sent, crashes>>
    BY <1>12, <1>t DEF FlagNotice, markSkipNotified, Entries, ghosts
  <2>2. pc' \notin {"tell", "flag"}
    BY <1>12, <1>t DEF FlagNotice, At, Ctxs
  <2> QED
    BY <2>1, <2>2
<1>13. CASE RefetchHead
  <2>1. \E next \in {"settle", "ci"} : \E ctx : At(next, ctx)
    BY <1>13 DEF RefetchHead
  <2> QED
    BY <1>13, <1>b, <2>1 DEF RefetchHead
<1>14. CASE IterateAgain
  BY <1>14, <1>b DEF IterateAgain
<1>15. CASE CloseStale \/ Merge
  BY <1>15, <1>b DEF CloseStale, closeStaleCiPr, Merge
<1>16. CASE CiPasses
  <2>1. \E next \in {"gate", "idle", "recheck"} : \E ctx : At(next, ctx)
    BY <1>16 DEF CiPasses, Resolve
  <2> QED
    BY <1>16, <1>b, <2>1 DEF CiPasses
<1>17. CASE MergeableGate \/ MergeRefused
  <2>1. \E next \in {"idle", "recheck", "approve"} : Goto(next)
    BY <1>17 DEF MergeableGate, MergeRefused, Resolve, Mergeable
  <2> QED
    BY <1>17, <1>b, <2>1 DEF MergeableGate, MergeRefused, Goto
<1>18. CASE Crash
  <2>1. pc' = "idle" /\ sent' = sent /\ fix' = fix /\ crashes' = crashes + 1
    BY <1>18 DEF Crash, At
  <2>2. \A h \in Heads : sent[h] <= crashes' /\ sent[h] <= 1 + crashes'
    <3>1. \A m, n \in Nat : m <= 1 + n => m <= n + 1 /\ m <= 1 + (n + 1)
      OBVIOUS
    <3> QED
      BY <3>1, <2>1, <1>n
  <2> QED
    BY <2>1, <2>2
<1> QED
  BY <1>1, <1>2, <1>3, <1>4, <1>5, <1>6, <1>7, <1>8, <1>9, <1>10, <1>11, <1>12,
     <1>13, <1>14, <1>15, <1>16, <1>17, <1>18 DEF Next, ProcessPr

\* For every number of kills: between two successful fixes, the notice of a head
\* that was given up on goes out once, and once more for every kill.
THEOREM NoticedOnce == Spec => []NoticeOnce
<1>1. Init => NoticeInv
  <2>1. ASSUME Init PROVE \A h \in Heads : sent[h] = 0 /\ crashes = 0 /\ pc = "idle"
    BY <2>1 DEF Init
  <2>2. 0 <= 1 + 0 /\ 0 <= 0
    OBVIOUS
  <2>3. Init => pc = "idle"
    BY DEF Init
  <2> QED
    BY <2>1, <2>2, <2>3 DEF NoticeInv
<1>2. NoticeInv => NoticeOnce
  BY DEF NoticeInv, NoticeOnce
<1> QED
  BY TypeCorrect, <1>1, <1>2, NoticeStep, PTL DEF Spec
=============================================================================
