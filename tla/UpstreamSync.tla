---------------------------- MODULE UpstreamSync ----------------------------
(***************************************************************************)
(* The upstream sync of src/apps/worker/src/sync/: every tick first looks  *)
(* at the CI of the merges it pushed to forks earlier and reverts the red  *)
(* ones by force push, then merges upstream into the forks that lag, the   *)
(* stalest first, within a budget.                                         *)
(*                                                                         *)
(* A step of the worker ends at an await or at a git command that reaches  *)
(* GitHub: upstream, the people of a fork, its CI and the clock move in    *)
(* between. The state of all forks is loaded when a tick begins and saved  *)
(* as a whole after each change, by a write that truncates the file first  *)
(* and whose failure nobody notices.                                       *)
(***************************************************************************)
EXTENDS Integers, Sequences, FiniteSets, SequencesExt

CONSTANTS
  Forks,        \* the forks of the installation
  MaxPerTick,   \* max_per_tick: attempts in one tick
  MaxUpstream,  \* bound: upstream tips of each fork
  MaxCommits,   \* bound: commits pushed to a fork
  MaxAlerts,    \* bound: the count of alerts kept per upstream tip
  MaxKills,     \* bound: kills of the worker
  MaxThrows,    \* bound: exceptions inside syncForkRepo
  MaxLosses     \* bound: saves of the state that fail or are cut short

ASSUME ForksAssumption == IsFiniteSet(Forks)
ASSUME BudgetAssumption == MaxPerTick \in Nat \ {0}
ASSUME BoundsAssumption ==
  /\ {MaxUpstream, MaxCommits, MaxAlerts, MaxKills, MaxThrows, MaxLosses}
       \subseteq Nat
  /\ MaxUpstream > 0 /\ MaxAlerts > MaxLosses + 1

VARIABLES
  up,         \* [Forks -> number of the upstream branch's tip]
  line,       \* [Forks -> the commits pushed to the fork's branch, in order]
  pushes,     \* [Forks -> commits pushed so far: each is named by its number]
  protected,  \* [Forks -> GitHub refuses direct pushes to the branch]
  prs,        \* [Forks -> upstream tips of the open upstream-sync PRs]
  entry,      \* [Forks -> the fork's entry of the state the tick has loaded]
  order,      \* the forks by last_sync_ts, the stalest first
  file,       \* what sync-state.json reads as: [entry, order]
  pc,         \* where the tick in progress is
  answered,   \* the forks of the installations that answered it
  todo,       \* the forks its loop has yet to look at
  budget,     \* the attempts it has left
  job,        \* the locals of the fork it is at
  letGo,      \* ghost: [Forks -> merges no longer watched, without a verdict]
  alerts,     \* ghost: [Forks -> [upstream tip -> skip alerts posted for it]]
  twins,      \* ghost: forks whose list of PRs once failed to load
  losses,     \* ghost: saves that failed or were cut short
  kills, throws

world == <<up, pushes, protected, prs>>
tick == <<pc, answered, todo, budget, job>>
store == <<entry, order, file, losses>>
ghosts == <<letGo, alerts, twins, kills, throws>>
vars == <<world, line, store, tick, ghosts>>

\* A commit of a fork's branch: who pushed it, the upstream tip it contains,
\* and the check runs of it that matter here.
Commit == [n : Nat, by : {"sync", "other"}, up : Nat,
           ci : {"none", "running", "red", "green"}]

Tip(f) == IF line[f] = <<>> THEN 0 ELSE Last(line[f]).n
MergedUp(f) == IF line[f] = <<>> THEN 0 ELSE Last(line[f]).up
\* Commits are numbered in the order of the pushes: those up to n come first.
Upto(s, n) ==
  SubSeq(s, 1, CHOOSE k \in 0..Len(s) : \A i \in DOMAIN s : s[i].n <= n <=> i <= k)

\* pending_verify; sha = 0 is "no watch". The age is what the thresholds
\* no_ci_grace_s and verify_ci_max_age_h tell apart.
NoWatch == [sha |-> 0, pre |-> 0, age |-> "young"]
Watched(f) == entry[f].watch.sha # 0

\* due: interval_h has passed since last_sync_ts. attempt 0: none yet.
NewEntry == [attempt |-> 0, due |-> TRUE, skip |-> FALSE, notified |-> FALSE,
             watch |-> NoWatch]

\* What a turn has read: the tip of upstream (in a verification: the tip its
\* branch had when it was asked for), the base of the clone, the upstream tip
\* merged into it, and its head once it is pushed.
NoJob == [seen |-> 0, base |-> 0, got |-> 0, head |-> 0]

\* A file that cannot be parsed reads as {}.
Forgotten == [entry |-> [f \in Forks |-> NewEntry], order |-> SetToSeq(Forks)]

Init ==
  /\ up = [f \in Forks |-> 1]
  /\ line = [f \in Forks |-> <<>>]
  /\ pushes = [f \in Forks |-> 0]
  /\ protected \in [Forks -> BOOLEAN]
  /\ prs = [f \in Forks |-> {}]
  /\ entry = Forgotten.entry
  /\ order = Forgotten.order
  /\ file = Forgotten
  /\ pc = "idle"
  /\ answered = {}
  /\ todo = <<>>
  /\ budget = 0
  /\ job = NoJob
  /\ letGo = [f \in Forks |-> {}]
  /\ alerts = [f \in Forks |-> [u \in 1..MaxUpstream |-> 0]]
  /\ twins = {}
  /\ losses = 0
  /\ kills = 0
  /\ throws = 0

----------------------------------------------------------------------------
\* The two loops of a tick. The locals of one fork end with its turn.

\* The tick is at this step, with this fork.
At(f, label) == pc = label /\ todo # <<>> /\ Head(todo) = f

Goto(label, locals) ==
  /\ pc' = label
  /\ job' = locals
  /\ UNCHANGED <<answered, todo, budget>>

EndTurn(loop, left) ==
  /\ pc' = loop
  /\ todo' = Tail(todo)
  /\ budget' = left
  /\ job' = NoJob
  /\ UNCHANGED answered
NextIn(loop) == EndTurn(loop, budget)

\* A turn of the sweep that made an attempt costs budget.
Attempted == EndTurn("sweep", budget - 1)

\* saveSyncState: what the file reads as afterwards. A write that fails leaves
\* the file as it was, or truncated, and the tick goes on.
Saved ==
  \/ /\ file' = [entry |-> entry', order |-> order']
     /\ UNCHANGED losses
  \/ /\ losses < MaxLosses
     /\ losses' = losses + 1
     /\ file' \in {file, Forgotten}

\* The process ends: what it has not saved is gone. A merge it watched is let
\* go when the file left behind does not watch it.
Unsaved(f, left) ==
  {n \in {entry[f].watch.sha} : n \notin {0, left.entry[f].watch.sha}}
Reload(left) ==
  /\ entry' = left.entry
  /\ order' = left.order

\* No tick is in progress.
Stop ==
  /\ pc' = "idle"
  /\ answered' = {}
  /\ todo' = <<>>
  /\ budget' = 0
  /\ job' = NoJob

\* `entry.last_sync_ts = now()`: f is the freshest fork now. Its mutants do
\* not record the attempt, or record it as one more fork.
TouchNever(f) == UNCHANGED order
TouchTwice(f) == order' = Append(order, f)
Touch(f) == order' = Append(SelectSeq(order, LAMBDA g : g # f), f)

\* These forks, the stalest first.
Stalest(forks) == SelectSeq(order, LAMBDA f : f \in forks)

\* listForkRepos: an installation that does not answer lists no fork.
Listings == SUBSET Forks

\* runUpstreamSync: the state, and the forks of every installation that
\* answers.
StartTick(listed) ==
  /\ pc = "idle"
  /\ pc' = "verify"
  /\ answered' = listed
  /\ todo' = Stalest(listed)
  /\ UNCHANGED <<budget, job>>
  /\ UNCHANGED <<world, line, store, ghosts>>

BeginSweep ==
  /\ pc = "verify" /\ todo = <<>>
  /\ pc' = "sweep"
  /\ todo' = Stalest(answered)
  /\ budget' = MaxPerTick
  /\ UNCHANGED <<answered, job>>
  /\ UNCHANGED <<world, line, store, ghosts>>

\* The state is saved once more, changed or not.
EndTick ==
  /\ pc = "sweep"
  /\ todo = <<>> \/ budget = 0
  /\ Goto("exit", job)
  /\ UNCHANGED <<world, line, entry, order, ghosts>>
  /\ Saved

Exit ==
  /\ pc = "exit"
  /\ Reload(file)
  /\ letGo' = [f \in Forks |-> letGo[f] \cup Unsaved(f, file)]
  /\ Stop
  /\ UNCHANGED <<world, line, file, losses, alerts, twins, kills, throws>>

----------------------------------------------------------------------------
\* verifyPendingSyncs

EndWatch(f) ==
  /\ entry' = [entry EXCEPT ![f].watch = NoWatch]
  /\ UNCHANGED order
  /\ Saved
LetGo(f) == letGo' = [letGo EXCEPT ![f] = @ \cup {entry[f].watch.sha}]

\* A fork without a watch is passed over. (b) Unverified for too long: the
\* merge is kept. Else the tip of the branch is asked for. GitHub answers with
\* a commit, the code expects a list of them and finds no tip: exit (c), for a
\* branch that moved past our merge, is never taken. `seen` keeps the tip for
\* the sake of RevertSparesOthers only.
VerifyTurn(f) ==
  /\ At(f, "verify")
  /\ \/ /\ ~Watched(f)
        /\ NextIn("verify")
        /\ UNCHANGED <<store, letGo>>
     \/ /\ Watched(f) /\ entry[f].watch.age = "old"
        /\ EndWatch(f)
        /\ LetGo(f)
        /\ NextIn("verify")
     \/ /\ Watched(f) /\ entry[f].watch.age # "old"
        /\ Goto("checks", [job EXCEPT !.seen = Tip(f)])
        /\ UNCHANGED <<store, letGo>>
  /\ UNCHANGED <<world, line, alerts, twins, kills, throws>>

\* The check runs of the merge commit, as the request answers: a failed
\* request reads like a commit without checks, and a commit taken off its
\* branch keeps the checks it has. A cancelled or timed-out run is not a
\* failure here, so it counts as green.
Verdicts == {"none", "running", "red", "green"}
Checks(f) ==
  LET c == {d \in ToSet(line[f]) : d.n = entry[f].watch.sha}
  IN  IF c = {} THEN Verdicts ELSE {"none"} \cup {d.ci : d \in c}

\* A mutant of StillRunning, and the exit (g) itself.
StillRunningNever(ci) == FALSE
StillRunning(ci) == ci = "running"

\* (d) red: go and revert; (e) no checks yet, (g) still running: wait for a
\* later tick; (f) no checks after the grace, (h) green: the watch ends. A
\* check that registers after a green answer is looked at by nobody.
ChecksRead(f) ==
  /\ At(f, "checks")
  /\ \E ci \in Checks(f) :
       \/ /\ ci = "red"
          /\ Goto("revert", job)
          /\ UNCHANGED <<store, letGo>>
       \/ /\ \/ ci = "none" /\ entry[f].watch.age = "young"
             \/ StillRunning(ci)
          /\ NextIn("verify")
          /\ UNCHANGED <<store, letGo>>
       \/ /\ ci = "none" /\ entry[f].watch.age # "young"
          /\ EndWatch(f)
          /\ LetGo(f)
          /\ NextIn("verify")
       \/ /\ ci \in {"green", "running"} /\ ~StillRunning(ci)
          /\ EndWatch(f)
          /\ IF ci = "green" THEN LetGo(f) ELSE UNCHANGED letGo
          /\ NextIn("verify")
  /\ UNCHANGED <<world, line, alerts, twins, kills, throws>>

\* syncRevertMerge: a clone of the branch that has the pre-merge commit, then
\* a force push of that commit, whatever the tip is by now.
Revert(f) ==
  /\ At(f, "revert")
  /\ \/ line' = [line EXCEPT ![f] = Upto(@, entry[f].watch.pre)]
        /\ UNCHANGED letGo
     \/ LetGo(f) /\ UNCHANGED line  \* clone, cat-file or push failed
  /\ Goto("reverted", job)
  /\ UNCHANGED <<world, store, alerts, twins, kills, throws>>

\* After the Discord post: the watch ends, also when the revert failed.
\* last_merged_upstream_sha, cleared here, is read nowhere; last_attempt_sha
\* keeps naming the tip.
RevertRecorded(f) ==
  /\ At(f, "reverted")
  /\ EndWatch(f)
  /\ NextIn("verify")
  /\ UNCHANGED <<world, line, ghosts>>

----------------------------------------------------------------------------
\* sweepForks

\* The comparison with upstream and the three gates on it; `seen` is the
\* upstream tip the attempt will be recorded for. An empty `commits` list
\* comes with nothing to merge, so the tip of a fork that lags is known.
Lags(f) == up[f] > MergedUp(f)
Handled(f) == entry[f].attempt = up[f]

Turn(f) == At(f, "sweep") /\ budget > 0

CompareFails(f) ==
  /\ Turn(f)
  /\ NextIn("sweep")
  /\ UNCHANGED <<world, line, store, ghosts>>

\* A fork in sync loses its skip note.
Compare(f) ==
  /\ Turn(f)
  /\ UNCHANGED <<world, line, order, ghosts>>
  /\ IF ~Lags(f) /\ entry[f].skip
       THEN entry' = [entry EXCEPT ![f].skip = FALSE] /\ Saved
       ELSE UNCHANGED <<entry, file, losses>>
  /\ IF Lags(f) /\ ~Handled(f) /\ entry[f].due
       THEN Goto("openpr", [job EXCEPT !.seen = up[f]])
       ELSE NextIn("sweep")

\* A mutant of SyncPrOpen, and the gate itself: syncOpenPr finds a PR of ours.
SyncPrOpenNever(f) == FALSE
SyncPrOpen(f) == prs[f] # {}

\* (4) One sync PR at a time; a list that fails to load reads as empty.
CheckOpenPr(f) ==
  /\ At(f, "openpr")
  /\ \/ /\ SyncPrOpen(f)
        /\ NextIn("sweep")
        /\ UNCHANGED twins
     \/ /\ ~SyncPrOpen(f)
        /\ Goto("clone", job)
        /\ UNCHANGED twins
     \/ /\ prs[f] # {}
        /\ Goto("clone", job)
        /\ twins' = twins \cup {f}
  /\ UNCHANGED <<world, line, store, letGo, alerts, kills, throws>>

----------------------------------------------------------------------------
\* syncForkRepo

\* clone, fetch or merge failed outright, or no PR could be opened: an error,
\* tried again in an hour.
TriedInVain(f) ==
  /\ entry' = [entry EXCEPT ![f].due = FALSE]
  /\ Touch(f)
  /\ Saved
  /\ Attempted
  /\ UNCHANGED <<world, line, ghosts>>
CloneFails(f) == At(f, "clone") /\ TriedInVain(f)

\* An exception anywhere before the push: the catch records nothing.
SyncThrows ==
  /\ pc \in {"clone", "merged"}
  /\ throws < MaxThrows
  /\ throws' = throws + 1
  /\ Attempted
  /\ UNCHANGED <<world, line, store, letGo, alerts, twins, kills>>

\* The fork is cloned, and upstream fetched as it is by now.
Clone(f) ==
  /\ At(f, "clone")
  /\ Goto("merged", [job EXCEPT !.base = Tip(f), !.got = up[f]])
  /\ UNCHANGED <<world, line, store, ghosts>>

\* What an agent that resolves conflicts may leave behind: a merge that is
\* complete; unmerged paths; staged files with conflict markers in them; or
\* the branch as it was, the merge aborted.
Trees == {"complete", "unmerged", "marked", "aborted"}

\* syncFinishMerge, called whether the agent reported success or not. An
\* aborted merge has nothing to commit, which is success; markers pass when
\* git grep itself fails.
FinishMerge(tree, grepped, committed) ==
  \/ tree = "aborted"
  \/ committed /\ (tree = "complete" \/ (tree = "marked" /\ ~grepped))

\* skipNote of a refused merge: this upstream tip is not tried again. The
\* mutant forgets to say so.
SkipNoteForgets(f) ==
  entry' = [entry EXCEPT ![f].due = FALSE, ![f].skip = TRUE,
                         ![f].notified = FALSE]
SkipNote(f) ==
  entry' = [entry EXCEPT ![f].attempt = job.seen, ![f].due = FALSE,
                         ![f].skip = TRUE, ![f].notified = FALSE]

\* resolveMerge: no conflict and perhaps a quality pass; or a conflict for the
\* agent; or a conflict that nobody resolves, by configuration.
Resolve(f) ==
  /\ At(f, "merged")
  /\ \/ /\ Goto("push", job)
        /\ UNCHANGED store
     \/ \E tree \in Trees, grepped \in BOOLEAN, committed \in BOOLEAN :
          /\ FinishMerge(tree, grepped, committed)
          /\ Goto("push", IF tree = "aborted" THEN [job EXCEPT !.got = 0]
                                              ELSE job)
          /\ UNCHANGED store
     \/ /\ SkipNote(f)
        /\ Touch(f)
        /\ Saved
        /\ Goto("skipped", job)
  /\ UNCHANGED <<world, line, ghosts>>

\* The merge lands, if nobody pushed since the clone. With the merge aborted
\* (got = 0) there is nothing to push, which git calls success.
Push(f) ==
  /\ At(f, "push")
  /\ Tip(f) = job.base
  /\ \/ /\ job.got = 0
        /\ Goto("record", [job EXCEPT !.head = job.base])
        /\ UNCHANGED <<line, pushes>>
     \/ /\ job.got # 0 /\ ~protected[f] /\ pushes[f] < MaxCommits
        /\ LET n == pushes[f] + 1
           IN  /\ line' = [line EXCEPT ![f] = Append(@, [n |-> n, by |-> "sync",
                                                up |-> job.got, ci |-> "none"])]
               /\ pushes' = [pushes EXCEPT ![f] = n]
               /\ Goto("record", [job EXCEPT !.head = n])
  /\ UNCHANGED <<up, protected, prs, store, ghosts>>

\* The watch of a pushed merge: HEAD of the clone and the commit before it. The
\* mutant keeps the pre-merge commit of a watch that it replaces.
ArmedOver(f) ==
  [sha |-> job.head, age |-> "young",
   pre |-> IF Watched(f) THEN entry[f].watch.pre ELSE job.base]
Armed(f) == [sha |-> job.head, age |-> "young", pre |-> job.base]

\* The state of a pushed merge, saved after the push. The watch replaces one
\* that had no verdict yet.
Record(f) ==
  /\ At(f, "record")
  /\ entry' = [entry EXCEPT ![f] =
                 [attempt |-> job.seen, due |-> FALSE, skip |-> FALSE,
                  notified |-> FALSE, watch |-> Armed(f)]]
  /\ LetGo(f)
  /\ Touch(f)
  /\ Saved
  /\ Attempted
  /\ UNCHANGED <<world, line, alerts, twins, kills, throws>>

\* A push refused for both credentials, or because somebody pushed since the
\* clone: recorded, and this upstream tip is not tried again.
PushFails(f) ==
  /\ At(f, "push")
  /\ SkipNote(f)
  /\ Touch(f)
  /\ Saved
  /\ Attempted
  /\ UNCHANGED <<world, line, ghosts>>

\* The branch refuses the push as protected: the merge goes to a branch of its
\* own, unless that fails as well.
PushRefused(f) ==
  /\ At(f, "push")
  /\ protected[f] /\ job.got # 0
  /\ \E step \in {"post", "unopened"} : Goto(step, job)
  /\ UNCHANGED <<world, line, store, ghosts>>

\* openSyncPr: the PR whose number came back is open; without a number it may
\* be open all the same, when only the answer was lost.
Posted(f, numbered) ==
  LET opened == [prs EXCEPT ![f] = @ \cup {job.got}]
  IN  prs' \in IF numbered THEN {opened} ELSE {prs, opened}
PostPr(f) ==
  /\ At(f, "post")
  /\ \E numbered \in BOOLEAN :
       /\ Posted(f, numbered)
       /\ Goto(IF numbered THEN "opened" ELSE "unopened", job)
  /\ UNCHANGED <<up, pushes, protected, line, store, ghosts>>

RecordPr(f) ==
  /\ At(f, "opened")
  /\ entry' = [entry EXCEPT ![f].attempt = job.seen, ![f].due = FALSE,
                           ![f].skip = FALSE, ![f].notified = FALSE]
  /\ Touch(f)
  /\ Saved
  /\ Attempted
  /\ UNCHANGED <<world, line, ghosts>>
RecordNoPr(f) == At(f, "unopened") /\ TriedInVain(f)

\* reportOutcome of a refused merge: notified is saved, then the alert posted.
MarkNotified(f) ==
  /\ At(f, "skipped")
  /\ ~entry[f].notified
  /\ entry' = [entry EXCEPT ![f].notified = TRUE]
  /\ Goto("alert", job)
  /\ UNCHANGED <<world, line, order, ghosts>>
  /\ Saved

PostAlert(f) ==
  /\ At(f, "alert")
  /\ alerts' = [alerts EXCEPT ![f][job.seen] =
                  IF @ < MaxAlerts THEN @ + 1 ELSE @]
  /\ Attempted
  /\ UNCHANGED <<world, line, store, letGo, twins, kills, throws>>

\* A kill: a save that it cuts short leaves a file that does not parse. A merge
\* that was pushed and not recorded is watched by nobody.
Saving == {"verify", "checks", "reverted", "sweep", "clone", "merged", "push",
           "record", "opened", "unopened", "skipped"}
Kill ==
  /\ pc # "idle" /\ kills < MaxKills
  /\ kills' = kills + 1
  /\ \/ UNCHANGED <<file, losses>>
     \/ /\ pc \in Saving /\ losses < MaxLosses
        /\ file' = Forgotten
        /\ losses' = losses + 1
  /\ Reload(file')
  /\ letGo' = [f \in Forks |->
                 letGo[f] \cup Unsaved(f, file')
                   \cup {n \in {job.head} : At(f, "record") /\ job.got # 0}]
  /\ Stop
  /\ UNCHANGED <<world, line, alerts, twins, throws>>

Tick ==
  \/ \E listed \in Listings : StartTick(listed)
  \/ BeginSweep \/ EndTick \/ Exit \/ SyncThrows
  \/ \E f \in Forks :
       \/ VerifyTurn(f) \/ ChecksRead(f) \/ Revert(f) \/ RevertRecorded(f)
       \/ CompareFails(f) \/ Compare(f) \/ CheckOpenPr(f)
       \/ CloneFails(f) \/ Clone(f) \/ Resolve(f)
       \/ Push(f) \/ Record(f) \/ PushFails(f) \/ PushRefused(f)
       \/ PostPr(f) \/ RecordPr(f) \/ RecordNoPr(f)
       \/ MarkNotified(f) \/ PostAlert(f)

----------------------------------------------------------------------------
\* GitHub, the people, CI and the clock.

UpstreamMoves(f) ==
  /\ up[f] < MaxUpstream
  /\ up' = [up EXCEPT ![f] = @ + 1]
  /\ UNCHANGED <<line, pushes, prs, entry, file>>

\* Somebody pushes to the branch, or merges a sync PR into it.
PushOther(f, u) ==
  /\ pushes[f] < MaxCommits
  /\ line' = [line EXCEPT ![f] =
                Append(@, [n |-> pushes[f] + 1, by |-> "other", up |-> u,
                           ci |-> "none"])]
  /\ pushes' = [pushes EXCEPT ![f] = @ + 1]
OthersPush(f) ==
  /\ PushOther(f, MergedUp(f))
  /\ UNCHANGED <<up, prs, entry, file>>
ClosePr(f, u) ==
  /\ prs' = [prs EXCEPT ![f] = @ \ {u}]
  /\ \/ UNCHANGED <<line, pushes>>
     \/ u > MergedUp(f) /\ PushOther(f, u)
  /\ UNCHANGED <<up, entry, file>>

\* CI of a merge of ours registers, runs and ends, and starts again: a check
\* that registers late, or one that is run once more.
CiMoves(f) ==
  /\ \E i \in DOMAIN line[f] :
       /\ line[f][i].by = "sync"
       /\ \E ci \in IF line[f][i].ci = "running" THEN {"green", "red"}
                                              ELSE {"running"} :
            line' = [line EXCEPT ![f][i].ci = ci]
  /\ UNCHANGED <<up, pushes, prs, entry, file>>

\* interval_h passes, or one of the two ages of a watch, for the timestamps of
\* the tick and of the file alike.
Rested(entries, f) == [entries EXCEPT ![f].due = TRUE]
IntervalPasses(f) ==
  /\ ~entry[f].due \/ ~file.entry[f].due
  /\ entry' = Rested(entry, f)
  /\ file' = [file EXCEPT !.entry = Rested(@, f)]
  /\ UNCHANGED <<up, line, pushes, prs>>

Older(watch) ==
  IF watch.sha = 0 THEN watch
  ELSE [watch EXCEPT !.age = IF @ = "young" THEN "settled" ELSE "old"]
Aged(entries, f) == [entries EXCEPT ![f].watch = Older(@)]
WatchAges(f) ==
  /\ \E watch \in {entry[f].watch, file.entry[f].watch} : watch # Older(watch)
  /\ entry' = Aged(entry, f)
  /\ file' = [file EXCEPT !.entry = Aged(@, f)]
  /\ UNCHANGED <<up, line, pushes, prs>>

Idly == UNCHANGED <<protected, order, losses, tick, ghosts>>
DueAgain(f) == IntervalPasses(f) /\ Idly

World ==
  /\ \E f \in Forks :
       \/ UpstreamMoves(f) \/ OthersPush(f) \/ CiMoves(f)
       \/ IntervalPasses(f) \/ WatchAges(f)
       \/ \E u \in prs[f] : ClosePr(f, u)
  /\ Idly

Next == Tick \/ Kill \/ World

Spec == Init /\ [][Next]_vars

\* cron starts a tick every five minutes and every command of it has a
\* timeout; hours pass; GitHub lists and compares every fork now and then.
Fairness ==
  /\ WF_vars(Tick)
  /\ SF_vars(StartTick(Forks))
  /\ \A f \in Forks : SF_vars(Compare(f)) /\ WF_vars(DueAgain(f))

FairSpec == Spec /\ Fairness

----------------------------------------------------------------------------
Labels == {"idle", "verify", "checks", "revert", "reverted", "sweep", "openpr",
           "clone", "merged", "push", "record", "post", "opened", "unopened",
           "skipped", "alert", "exit"}

TypeOK ==
  /\ \A f \in Forks :
       /\ \A i \in DOMAIN line[f] :
            /\ line[f][i] \in Commit
            /\ line[f][i].n <= pushes[f]
            /\ line[f][i].up <= up[f]
       /\ \A e \in {entry[f], file.entry[f]} :
            /\ e.watch.pre <= e.watch.sha
            /\ e.watch.sha <= pushes[f]
            /\ e.attempt <= up[f]
  /\ \A o \in {order, file.order} :
       ToSet(o) = Forks /\ Len(o) = Cardinality(Forks)
  /\ pc \in Labels
  /\ pc \notin {"idle", "verify", "sweep", "exit"} => todo # <<>>
  /\ budget \in 0..MaxPerTick
  /\ losses \in 0..MaxLosses
  /\ pc = "idle" => file = [entry |-> entry, order |-> order]

Numbers(s) == {s[i].n : i \in DOMAIN s}

\* A commit leaves a branch by the revert of a watched merge only, and was
\* pushed with that merge or after it: what was on the branch before survives
\* pushes that race with the merge, reverts that are repeated because their
\* record was lost, and watches that a lost save brings back.
EarlierHistoryKept ==
  [][\A f \in Forks : \A n \in Numbers(line[f]) \ Numbers(line'[f]) :
       Watched(f) /\ n >= entry[f].watch.sha]_vars

\* "only while that commit is still the tip. Once a human (or another sync)
\* pushes on top, the merge is no longer ours to undo" (sync/verify.ts:9): what
\* was on the branch when its tip was asked for is our own. It does not hold.
RevertSparesOthers ==
  [][\A f \in Forks : \A i \in DOMAIN line[f] :
       line[f][i].n \notin Numbers(line'[f]) =>
         line[f][i].by = "sync" \/ line[f][i].n > job.seen]_vars

\* A merge of ours that turned red does not stay on top of its branch without
\* a watch that will revert it, unless the watch was given up: for its age, for
\* want of checks, after a green answer, for a revert that failed or a later
\* merge, or with a process whose state was not saved.
RedMergeWatched ==
  \A f \in Forks : line[f] # <<>> =>
    LET c == Last(line[f])
    IN  c.by = "sync" /\ c.ci = "red" =>
          \/ entry[f].watch.sha = c.n
          \/ c.n \in letGo[f]
          \/ At(f, "record")

\* A fork has one sync PR of ours at a time (sync/repos.ts:154), as long as
\* the list of its PRs could be read.
OneSyncPr == \A f \in Forks \ twins : Cardinality(prs[f]) <= 1

\* The alert that a merge was given up is posted once per upstream tip, over
\* ticks and kills (sync/sweep.ts:184), and once more at most for each save of
\* the state that failed or was cut short.
AlertOnce ==
  \A f \in Forks : \A u \in 1..MaxUpstream : alerts[f][u] <= 1 + losses

\* A fork that lags gets its attempt, although the budget of a tick may be
\* spent on forks whose clones fail every time (sync/run.ts:131).
LaggingForkTried ==
  \A f \in Forks :
    Lags(f) /\ ~Handled(f)
      ~> \/ ~Lags(f) \/ Handled(f)
         \/ SyncPrOpen(f)
         \/ At(f, "clone")
=============================================================================
