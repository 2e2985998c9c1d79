----------------------------- MODULE PrWorktree -----------------------------
(***************************************************************************)
(* The directories under /tmp/pr-queue-work in which the worker changes a  *)
(* pull request, over the ticks: the lockfile repair of relock.ts, the     *)
(* agent's clone that runAiFix of autofix.ts keeps and reuses, the pid     *)
(* file killOrphanedAgent takes for a lease, and the sweep of lockfix.ts.  *)
(* PrPipeline decides when they are used; here it is any time a tick is    *)
(* about the pull request.                                                 *)
(*                                                                         *)
(* A step is one git command or one change of a file: the author, and the  *)
(* agent of a worker that was killed, go on in between.                    *)
(*                                                                         *)
(* A commit is a label, and a branch or a HEAD is the sequence of the      *)
(* labels of its history, the root first.                                  *)
(***************************************************************************)
EXTENDS Integers, FiniteSets, SequencesExt

CONSTANTS
  MaxCommits,  \* bound: commits anybody makes
  MaxFaults,   \* bound: git or network failures
  MaxKills     \* bound: kills of the worker

VARIABLES
  open,    \* the pull request is open
  hollow,  \* it only deletes files, so there is no file to fix
  branch,  \* its branch on GitHub
  tips,    \* ghost: every value the branch has had
  made,    \* commits so far
  tree,    \* the agent's clone
  spare,   \* the lockfile repair's clone
  orphan,  \* the agent of a killed worker still runs in the agent's clone
  lease,   \* the pid file: absent, this worker's pid, or that of a dead one
  pc,      \* what the worker does next
  view,    \* c.headSha: the head as the tick knows it
  fetched, \* FETCH_HEAD of the agent's clone, while a run needs it
  tip,     \* what the last run told its caller to record
  last,    \* how the last run ended
  work,    \* ghost: the commits the worker or its agent made in this run
  since,   \* ghost: the heads of the branch since the run took its clone up
  meddled, \* ghost: an orphan worked in the clone since then
  faults, kills

world == <<open, hollow, branch, tips, made>>
dirs == <<tree, spare, orphan, lease>>
locals == <<view, fetched, tip, last>>
ghosts == <<work, since, meddled>>
run == <<pc, locals, ghosts>>
bounds == <<faults, kills>>
vars == <<world, dirs, run, bounds>>

\* `seen` are the heads whose history the clone has; `old`, that nothing was
\* created at the top of the directory for SWEEP_MIN_AGE_HOURS.
NoTree == [log |-> <<>>, dirty |-> FALSE, seen |-> {}, old |-> FALSE]
Clone == [log |-> branch, dirty |-> FALSE, seen |-> {branch}, old |-> FALSE]
Exists(t) == t.log # <<>>

Init ==
  /\ open = TRUE
  /\ hollow \in BOOLEAN
  /\ branch = <<1>>
  /\ tips = {<<1>>}
  /\ made = 1
  /\ tree = NoTree
  /\ spare = NoTree
  /\ orphan = FALSE
  /\ lease = "none"
  /\ pc = "idle"
  /\ view = <<1>>
  /\ fetched = <<>>
  /\ tip = <<>>
  /\ last = "none"
  /\ work = {}
  /\ since = {}
  /\ meddled = FALSE
  /\ faults = 0
  /\ kills = 0

Fault == faults < MaxFaults /\ faults' = faults + 1 /\ UNCHANGED kills

----------------------------------------------------------------------------
(* The world.                                                              *)

Update(b) == branch' = b /\ tips' = tips \cup {b}

\* From the look at the clone to the start of the agent.
Preparing == {"fetch", "checkout", "clone", "files"}

\* The author adds a commit, or replaces the last one as dependabot does.
AuthorPushes ==
  /\ open /\ made < MaxCommits
  /\ made' = made + 1
  /\ \/ Update(Append(branch, made'))
     \/ Update(Append(Front(branch), made'))
  /\ since' = IF pc \in Preparing THEN since \cup {branch'} ELSE since
  /\ UNCHANGED <<open, hollow, dirs, pc, locals, work, meddled, bounds>>

Close ==
  /\ open
  /\ open' = FALSE
  /\ UNCHANGED <<hollow, branch, tips, made, dirs, run, bounds>>

\* Hours in which no tick uses the directories.
HoursPass ==
  /\ pc = "idle"
  /\ tree' = [tree EXCEPT !.old = Exists(tree)]
  /\ spare' = [spare EXCEPT !.old = Exists(spare)]
  /\ UNCHANGED <<world, orphan, lease, run, bounds>>

\* What an agent leaves behind: a commit, edits, both or neither. A file it
\* creates at the top of the directory makes the directory young.
Edited(t, commits, edits, young) ==
  [t EXCEPT !.log = IF commits THEN Append(@, made + 1) ELSE @,
            !.dirty = @ \/ edits,
            !.old = @ /\ ~young]

OrphanWorks ==
  /\ orphan /\ Exists(tree)
  /\ \E commits, edits, young \in BOOLEAN :
       /\ commits => made < MaxCommits
       /\ made' = IF commits THEN made + 1 ELSE made
       /\ tree' = Edited(tree, commits, edits, young)
  /\ meddled' = (pc \notin {"idle", "relock", "relockPush"})
  /\ UNCHANGED <<open, hollow, branch, tips, spare, orphan, lease, pc, locals, work,
                 since, bounds>>

OrphanEnds ==
  /\ orphan
  /\ orphan' = FALSE
  /\ UNCHANGED <<world, tree, spare, lease, run, bounds>>

----------------------------------------------------------------------------
(* The tick.                                                               *)

Goto(next) == pc' = next /\ UNCHANGED <<locals, ghosts>>

\* Mutant of Stale: nothing is swept when the scan is empty, as in an earlier
\* revision.
StaleUnlessEmpty(t) == FALSE

\* The sweep removes a directory of a pull request the scan does not show when
\* it is old enough.
Stale(t) == Exists(t) /\ t.old

Swept(t) == IF Stale(t) THEN NoTree ELSE t

\* A tick whose scan shows the pull request, which begins with the lockfile
\* repair if the title is trivial and CI is red.
StartTick ==
  /\ pc = "idle" /\ open
  /\ pc' \in {"relock", "lease"}
  /\ view' = branch
  /\ UNCHANGED <<world, dirs, fetched, tip, last, ghosts, bounds>>

\* A tick whose scan does not: it is closed, or its page could not be read.
OtherTick ==
  /\ pc = "idle"
  /\ IF open THEN Fault ELSE UNCHANGED bounds
  /\ tree' = Swept(tree)
  /\ spare' = Swept(spare)
  /\ UNCHANGED <<world, orphan, lease, run>>

\* fixLockfile up to its commit. Every other way out of it leaves no directory:
\* no token, clone, merge or install that fails, nothing to repair, other files.
RelockCommits ==
  /\ pc = "relock"
  /\ made < MaxCommits
  /\ made' = made + 1
  /\ spare' = [Clone EXCEPT !.log = Append(branch, made')]
  /\ work' = {made'}
  /\ pc' = "relockPush"
  /\ UNCHANGED <<locals, since, meddled, open, hollow, branch, tips, tree, orphan, lease, bounds>>

RelockGivesUp ==
  /\ pc = "relock"
  /\ spare' = NoTree
  /\ Goto("lease")
  /\ UNCHANGED <<world, tree, orphan, lease, bounds>>

\* GitHub takes a push that only adds to the branch.
FastForward(log) == IsPrefix(branch, log)

\* Its push. The head is read back, possibly before GitHub shows the new one.
RelockPushes ==
  /\ pc = "relockPush"
  /\ IF FastForward(spare.log)
       THEN /\ Update(spare.log)
            /\ view' \in {view, spare.log}
       ELSE UNCHANGED <<branch, tips, view>>
  /\ spare' = NoTree
  /\ pc' = "lease"
  /\ UNCHANGED <<open, hollow, made, tree, orphan, lease, fetched, tip, last, ghosts,
                 bounds>>

\* The process ends here: its locals are gone, its children are not.
Dies ==
  /\ pc' = "idle"
  /\ view' = branch
  /\ fetched' = <<>>
  /\ tip' = <<>>
  /\ last' = "none"
  /\ work' = {}
  /\ since' = {}
  /\ meddled' = FALSE

\* killOrphanedAgent signals the process the pid file names, and writes its own
\* pid there.
TakeLease ==
  /\ pc = "lease"
  /\ lease # "self"
  /\ lease' = "self"
  /\ Goto("tree")
  /\ UNCHANGED <<world, tree, spare, orphan, bounds>>

\* The pid is its own: an earlier run of this tick has left it there.
KillSelf ==
  /\ pc = "lease"
  /\ lease = "self"
  /\ lease' = "dead"
  /\ Dies
  /\ UNCHANGED <<world, tree, spare, orphan, bounds>>

\* How runAiFix returns to its caller.
Returns(result) ==
  /\ pc' = "gates"
  /\ last' = result
  /\ fetched' = <<>>
  /\ since' = {}
  /\ UNCHANGED <<view, work, meddled>>

\* Mutant of Reusable: the scratch of an earlier agent is built upon.
ReusableAsIs(t) == Exists(t)

\* A clone an earlier run left is used again if git status calls it clean.
Reusable(t) == Exists(t) /\ ~t.dirty

TakesUp(next) ==
  /\ pc' = next
  /\ work' = {}
  /\ since' = {branch}
  /\ meddled' = FALSE
  /\ UNCHANGED locals

ReuseTree ==
  /\ pc = "tree"
  /\ Reusable(tree)
  /\ TakesUp("fetch")
  /\ UNCHANGED <<world, dirs, bounds>>

DropTree ==
  /\ pc = "tree"
  /\ IF Reusable(tree) THEN Fault ELSE UNCHANGED bounds
  /\ tree' = NoTree
  /\ TakesUp("clone")
  /\ UNCHANGED <<world, spare, orphan, lease>>

\* git fetch, in the clone: FETCH_HEAD is the head the branch has now.
FetchHead(next) ==
  /\ fetched' = branch
  /\ tree' = [tree EXCEPT !.seen = @ \cup {branch}]
  /\ pc' = next
  /\ UNCHANGED <<world, spare, orphan, lease, view, tip, last, ghosts, bounds>>

Fetch == pc = "fetch" /\ FetchHead("checkout")

\* Mutant of Refreshed: commits that are on top of the head are kept.
RefreshedOnly(t, young) ==
  [t EXCEPT !.log = IF IsPrefix(fetched, @) THEN @ ELSE fetched, !.old = @ /\ ~young]

\* checkout -B to FETCH_HEAD: edits that are there stay, commits do not.
Refreshed(t, young) == [t EXCEPT !.log = fetched, !.old = @ /\ ~young]

Checkout ==
  /\ pc = "checkout"
  /\ \E young \in BOOLEAN : tree' = Refreshed(tree, young)
  /\ Goto("files")
  /\ UNCHANGED <<world, spare, orphan, lease, bounds>>

\* Either of the two failed, the checkout perhaps over an orphan's edits.
RefreshFails ==
  /\ pc \in {"fetch", "checkout"}
  /\ IF pc = "checkout" /\ tree.dirty THEN UNCHANGED bounds ELSE Fault
  /\ tree' = NoTree
  /\ Goto("clone")
  /\ UNCHANGED <<world, spare, orphan, lease>>

MakeClone ==
  /\ pc = "clone"
  /\ tree' = Clone
  /\ Goto("files")
  /\ UNCHANGED <<world, spare, orphan, lease, bounds>>

\* The clone could not be made. The pid file stays.
CloneFails ==
  /\ pc = "clone"
  /\ Fault
  /\ Returns("fail")
  /\ UNCHANGED <<world, dirs, tip>>

\* There is a file to fix: the agent is started, after the base branch, the
\* changed files and the failures of CI have been asked for.
StartAgent ==
  /\ pc = "files"
  /\ ~hollow
  /\ pc' = "agent"
  /\ fetched' = <<>>
  /\ since' = {}
  /\ UNCHANGED <<world, dirs, view, tip, last, work, meddled, bounds>>

\* "no changed files to fix", or none could be listed: the clone goes, the pid
\* file stays.
NothingToFix ==
  /\ pc = "files"
  /\ IF hollow THEN UNCHANGED bounds ELSE Fault
  /\ tree' = NoTree
  /\ Returns("fail")
  /\ UNCHANGED <<world, spare, orphan, lease, tip>>

\* Mutant of Discard: only the clone goes.
DiscardTree == tree' = NoTree /\ UNCHANGED lease

\* A run that ends takes its clone and its pid file with it.
Discard == tree' = NoTree /\ lease' = "none"

\* The session failed, timed out or could not be started.
AgentFails ==
  /\ pc = "agent"
  /\ Discard
  /\ Returns("fail")
  /\ UNCHANGED <<world, spare, orphan, tip, bounds>>

AgentEnds ==
  /\ pc = "agent"
  /\ \E commits, edits \in BOOLEAN :
       /\ commits => made < MaxCommits
       /\ made' = IF commits THEN made + 1 ELSE made
       /\ work' = IF commits THEN {made'} ELSE {}
       /\ tree' = Edited(tree, commits, edits, FALSE)
  /\ pc' = "count"
  /\ UNCHANGED <<open, hollow, branch, tips, spare, orphan, lease, locals, since,
                 meddled, bounds>>

\* The number of commits two histories share: how far the merge base is up.
Shared(a, b) ==
  Cardinality({n \in DOMAIN a \cap DOMAIN b : SubSeq(a, 1, n) = SubSeq(b, 1, n)})

\* rev-list --count view..HEAD, zero when the clone does not have that head.
NewCommits(t) ==
  IF \E s \in t.seen : IsPrefix(view, s)
    THEN Len(t.log) - Shared(view, t.log) ELSE 0

CountsSome ==
  /\ pc = "count"
  /\ NewCommits(tree) > 0
  /\ Goto("push")
  /\ UNCHANGED <<world, dirs, bounds>>

\* No commit, or a count that could not be read.
CountsNone ==
  /\ pc = "count"
  /\ IF NewCommits(tree) = 0 THEN UNCHANGED bounds ELSE Fault
  /\ Goto("status")
  /\ UNCHANGED <<world, dirs>>

\* "found nothing to improve" or "left uncommitted changes", both a success:
\* the clone is kept for the next run if it is clean.
KeepClean ==
  /\ pc = "status"
  /\ tree' = IF tree.dirty THEN NoTree ELSE tree
  /\ lease' = "none"
  /\ Returns("ok")
  /\ UNCHANGED <<world, spare, orphan, tip, bounds>>

\* A push that GitHub takes.
Land ==
  /\ FastForward(tree.log)
  /\ Update(tree.log)
  /\ Goto("tip")
  /\ UNCHANGED <<open, hollow, made, dirs, bounds>>

\* rev-parse HEAD after it, which may fail, and then the clone goes.
ReadTip ==
  /\ pc = "tip"
  /\ \/ tip' = tree.log /\ UNCHANGED bounds
     \/ tip' = <<>> /\ Fault
  /\ Discard
  /\ Returns("ok")
  /\ UNCHANGED <<world, spare, orphan>>

\* "AI committed but push failed".
PushRefused ==
  /\ Discard
  /\ Returns("fail")
  /\ UNCHANGED <<world, spare, orphan, tip>>

FirstPush == pc = "push" /\ Land

\* The branch is not where it was, or the push failed for another reason.
FirstPushRefused ==
  /\ pc = "push"
  /\ IF FastForward(tree.log) THEN Fault ELSE UNCHANGED bounds
  /\ Goto("refetch")
  /\ UNCHANGED <<world, dirs>>

Refetch == pc = "refetch" /\ FetchHead("rebase")

\* The commits the clone has beyond the head fetched, replayed on it. Those the
\* author has taken off the branch since the clone was made are among them.
Replayed(log) == fetched \o SubSeq(log, Shared(fetched, log) + 1, Len(log))

\* A dirty tree cannot be rebased; neither can commits that conflict.
Rebase ==
  /\ pc = "rebase"
  /\ ~tree.dirty
  /\ tree' = [tree EXCEPT !.log = Replayed(@)]
  /\ Goto("repush")
  /\ UNCHANGED <<world, spare, orphan, lease, bounds>>

RebaseFails ==
  /\ pc \in {"refetch", "rebase"}
  /\ IF pc = "refetch" THEN Fault ELSE UNCHANGED bounds
  /\ PushRefused

\* Mutant of Repush: the exit code of the second push is not looked at.
RepushUnchecked ==
  /\ pc = "repush"
  /\ IF FastForward(tree.log) THEN Update(tree.log) ELSE UNCHANGED <<branch, tips>>
  /\ Goto("tip")
  /\ UNCHANGED <<open, hollow, made, dirs, bounds>>

Repush == pc = "repush" /\ Land

RepushRefused ==
  /\ pc = "repush"
  /\ IF FastForward(tree.log) THEN Fault ELSE UNCHANGED bounds
  /\ PushRefused

\* Another iteration of the fix loop, or the conflict resolver: its validity
\* check has found the pull request open and its head where the tick has it.
RunAgain ==
  /\ pc = "gates"
  /\ open
  /\ pc' = "lease"
  /\ view' \in {view, branch}
  /\ tip' = <<>>
  /\ last' = "none"
  /\ UNCHANGED <<world, dirs, fetched, ghosts, bounds>>

Exits == lease' = IF lease = "self" THEN "dead" ELSE lease

EndTick ==
  /\ pc = "gates"
  /\ Exits
  /\ Dies
  /\ UNCHANGED <<world, tree, spare, orphan, bounds>>

\* The worker is killed. The agent is a process of its own and goes on, and so
\* does a git clone.
Kill ==
  /\ pc # "idle"
  /\ kills < MaxKills
  /\ kills' = kills + 1
  /\ orphan' = (orphan \/ pc = "agent")
  /\ tree' \in IF pc = "clone" THEN {tree, Clone} ELSE {tree}
  /\ Exits
  /\ Dies
  /\ UNCHANGED <<world, spare, faults>>

Tick ==
  \/ RelockCommits \/ RelockGivesUp \/ RelockPushes
  \/ TakeLease \/ KillSelf
  \/ ReuseTree \/ DropTree \/ Fetch \/ Checkout \/ RefreshFails
  \/ MakeClone \/ CloneFails \/ StartAgent \/ NothingToFix
  \/ AgentFails \/ AgentEnds
  \/ CountsSome \/ CountsNone \/ KeepClean
  \/ FirstPush \/ FirstPushRefused \/ Refetch \/ Rebase \/ RebaseFails
  \/ Repush \/ RepushRefused \/ ReadTip
  \/ EndTick

Next ==
  \/ AuthorPushes \/ Close \/ HoursPass \/ OrphanWorks \/ OrphanEnds
  \/ StartTick \/ OtherTick \/ Tick \/ RunAgain \/ Kill

Spec == Init /\ [][Next]_vars

\* Fairness: a tick goes on, time passes, the timer fires, and an agent stops
\* at its turn cap even when nobody waits for it.
FairSpec ==
  /\ Spec
  /\ WF_vars(Tick)
  /\ WF_vars(HoursPass)
  /\ WF_vars(OtherTick)
  /\ WF_vars(OrphanEnds)
----------------------------------------------------------------------------
Labels == 1..MaxCommits
Trees == [log : Seq(Labels), dirty : BOOLEAN, seen : SUBSET tips, old : BOOLEAN]

(* The states the worker keeps: a clone it no longer needs is not there, and  *)
(* the pid file names this process only while it runs, and no process once a  *)
(* run has succeeded.                                                         *)
TypeOK ==
  /\ tree \in Trees /\ spare \in Trees
  /\ pc \in Preparing \cup
            {"idle", "relock", "relockPush", "lease", "tree", "agent", "count",
             "status", "push", "refetch", "rebase", "repush", "tip", "gates"}
  /\ lease \in {"none", "self", "dead"}
  /\ lease = "self" => pc # "idle"
  /\ last = "ok" => lease = "none"
  /\ pc \in {"agent", "count", "status", "push", "refetch", "rebase", "repush", "tip"}
       => Exists(tree) /\ lease = "self"
  /\ pc = "relockPush" => Exists(spare)
  /\ last = "none" => tip = <<>>
  /\ since # {} => pc \in Preparing

(* An agent starts from a head the branch has had since its run took the      *)
(* clone up, without the edits and commits an earlier agent left there,       *)
(* whatever was killed in between; unless that agent is still at work.        *)
FreshGround ==
  [][pc # "agent" /\ pc' = "agent" =>
       meddled \/ (tree.log \in since /\ ~tree.dirty)]_vars

(* What a push of the worker adds to the branch has been on the branch or was *)
(* made in that run: what a killed run left in the clone is never published   *)
(* by a later one, unless its agent is still at work there.                   *)
Published == UNION {Range(h) : h \in tips}
OnlyThisRunsWork ==
  [][pc' # pc =>
       meddled \/ Range(branch') \subseteq Published \cup work]_vars

(* The tip a run tells its caller to record as fixed is a head the branch has *)
(* had, with every commit of that run below it; only the agent of a killed    *)
(* worker may have put a commit of its own on top.                            *)
TipIsTheWork ==
  tip # <<>> =>
    \E h \in tips : /\ IsPrefix(h, tip)
                    /\ h = tip \/ meddled
                    /\ work \subseteq Range(h)

(* The directories of a pull request that is closed are removed.              *)
SweptWhenClosed == ~open ~> (~Exists(tree) /\ ~Exists(spare))

(* The process the pid file names is never the worker itself, since "the pid  *)
(* file is deleted on every exit path" (autofix.ts).                          *)
NeverItself == ~(pc = "lease" /\ lease = "self")
=============================================================================
