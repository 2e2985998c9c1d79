----------------------------- MODULE SyncHooks -----------------------------
(***************************************************************************)
(* The daily run that keeps every repository of the owner configured,      *)
(* runSyncHooks of src/apps/worker/src/ops/syncHooks.ts: the webhook, the  *)
(* Dependabot file, the auto-merge workflow, its opt-out label, and the    *)
(* removal of the workflow from the path it used to be at.                 *)
(*                                                                         *)
(* A request is one action, because people and other tools change the same *)
(* repositories between two requests. github.ts repeats a request that got *)
(* no answer, and a request without an answer may have been carried out.   *)
(***************************************************************************)
EXTENDS Integers, Sequences

CONSTANTS
  Repos,      \* number of repositories the owner has
  Retries,    \* attempts of one request
  MaxEdits,   \* bound: changes made by others
  MaxFaults   \* bound: requests that fail, and answers that are lost

ASSUME ReposAssumption == Repos \in Nat \ {0}

\* What a run looks after in a repository, in the order of the loop body, and
\* what it may find: `wanted` stands for the template's bytes, or for the mere
\* presence of the hook and of the label.
Slots == <<"hook", "config", "workflow", "label", "legacy">>
Files == {"config", "workflow", "legacy"}
Contents(s) == IF s \in Files THEN {"absent", "wanted", "old", "edited"}
               ELSE {"absent", "wanted"}

VARIABLES
  secret,   \* whether the run is given a webhook secret
  content,  \* what GitHub holds: [1..Repos -> [slot -> Contents(slot)]]
  repo,     \* the repository of the loop's turn, 0 between two runs
  slot,     \* index in Slots of the step it is at
  phase,    \* "read" or "write": the request the step makes next
  seen,     \* what the read of this step showed
  tries,    \* attempts of the write made so far
  reported, \* the <<repo, slot>> pairs with a success line in its summary
  skipped,  \* whether it has put another kind of line there
  healthy,  \* what the exit code of the last run said
  listed,   \* ghost: whether the last run got to its repositories
  whole,    \* ghost: whether it got to the end of its loop
  spoiled,  \* ghost: the pairs that somebody edited since it began, or for
            \* which a request of it failed
  edits, faults

hooksVars == <<secret, content, repo, slot, phase, seen, tries, reported, skipped,
               healthy, listed, whole, spoiled, edits, faults>>

Name == Slots[slot]
Here == content[repo][Name]
Done(s) == IF s = "legacy" THEN "absent" ELSE "wanted"

\* The webhook step is skipped entirely without a secret.
FirstSlot == IF secret THEN 1 ELSE 2

HooksInit ==
  /\ secret \in BOOLEAN
  /\ content = [r \in 1..Repos |-> [s \in {Slots[i] : i \in DOMAIN Slots} |->
                  IF s = "legacy" THEN "old" ELSE "absent"]]
  /\ repo = 0
  /\ slot = 1
  /\ phase = "read"
  /\ seen = "absent"
  /\ tries = 0
  /\ reported = {}
  /\ skipped = FALSE
  /\ healthy = TRUE
  /\ listed = TRUE
  /\ whole = FALSE
  /\ spoiled = {}
  /\ edits = 0
  /\ faults = 0

Fault == faults < MaxFaults /\ faults' = faults + 1
Spoil(r, s) == spoiled' = spoiled \cup {<<r, s>>}

GoOn(r, i) ==
  /\ repo' = r
  /\ slot' = i
  /\ phase' = "read"
  /\ seen' = "absent"
  /\ tries' = 0

\* Mutants of NextStep: the legacy file is left where it is; the repositories
\* after the first are taken up as if there were no secret.
NextStepKeepsLegacy ==
  IF slot < Len(Slots) - 1 THEN <<repo, slot + 1>>
  ELSE IF repo < Repos THEN <<repo + 1, FirstSlot>> ELSE <<0, 1>>
NextStepSkipsHook ==
  IF slot < Len(Slots) THEN <<repo, slot + 1>>
  ELSE IF repo < Repos THEN <<repo + 1, 2>> ELSE <<0, 1>>

\* The loop's next turn: <<0, 1>> is the end of the run.
NextStep ==
  IF slot < Len(Slots) THEN <<repo, slot + 1>>
  ELSE IF repo < Repos THEN <<repo + 1, FirstSlot>> ELSE <<0, 1>>

\* The step records its line, with a tick or not, and the loop goes on. The
\* command ends with an exit code that is made of the two counts.
RecordLine(ok) ==
  /\ GoOn(NextStep[1], NextStep[2])
  /\ reported' = IF ok THEN reported \cup {<<repo, Name>>} ELSE reported
  /\ skipped' = (skipped \/ ~ok)
  /\ healthy' = IF NextStep[1] = 0 THEN reported' # {} \/ ~skipped' ELSE healthy
  /\ whole' = (NextStep[1] = 0)

\* The run ends before its loop does. Its exit code is 0 if it has done nothing.
Quit(lines) ==
  /\ GoOn(0, 1)
  /\ skipped' = (skipped \/ lines)
  /\ healthy' = (reported # {} \/ ~skipped')
  /\ UNCHANGED <<reported, whole>>

\* The run lists one page of repositories, or cannot: then nothing is synced.
StartRun ==
  /\ repo = 0
  /\ reported' = {}
  /\ skipped' = FALSE
  /\ healthy' = TRUE
  /\ whole' = FALSE
  /\ spoiled' = {}
  /\ \/ /\ GoOn(1, FirstSlot)
        /\ listed' = TRUE
        /\ UNCHANGED faults
     \/ /\ Fault
        /\ listed' = FALSE
        /\ UNCHANGED <<repo, slot, phase, seen, tries>>
  /\ UNCHANGED <<secret, content, edits>>

Reading == repo # 0 /\ phase = "read"

ToWrite(found) ==
  /\ phase' = "write"
  /\ seen' = found
  /\ UNCHANGED <<repo, slot, tries, reported, skipped, healthy, whole>>

\* The GET of a step: what is as it should be is left alone.
Read ==
  /\ Reading
  /\ IF Here = Done(Name) THEN RecordLine(FALSE) ELSE ToWrite(Here)
  /\ UNCHANGED <<secret, content, listed, spoiled, edits, faults>>

\* The GET fails. A hook or a label is then created blindly, a file left alone.
ReadFails ==
  /\ Reading
  /\ Fault
  /\ Spoil(repo, Name)
  /\ IF Name \in Files THEN RecordLine(FALSE) ELSE ToWrite("absent")
  /\ UNCHANGED <<secret, content, listed, edits>>

\* A template cannot be read: the throw ends the run, not the step.
TemplateMissing ==
  /\ Reading
  /\ Name \in {"config", "workflow"}
  /\ Fault
  /\ Quit(TRUE)
  /\ UNCHANGED <<secret, content, listed, spoiled, edits>>

\* A write carries the sha of what was read, or none to create: GitHub refuses
\* it when anything else is there, and refuses a second hook or label.
Takes == seen = Here

Apply == content' = [content EXCEPT ![repo][Name] = Done(Name)]

\* The write is answered: carried out, or refused with nothing done.
Write ==
  /\ phase = "write"
  /\ \/ /\ Takes
        /\ Apply
        /\ RecordLine(TRUE)
        /\ UNCHANGED <<spoiled, faults>>
     \/ /\ ~Takes
        /\ RecordLine(FALSE)
        /\ UNCHANGED <<content, spoiled, faults>>
     \/ /\ Fault
        /\ Spoil(repo, Name)
        /\ RecordLine(FALSE)
        /\ UNCHANGED content
  /\ UNCHANGED <<secret, listed, edits>>

\* An attempt gets no answer, and may have been carried out. The last one that
\* fails is reported as a status of 0.
WriteUnanswered ==
  /\ phase = "write"
  /\ Fault
  /\ Spoil(repo, Name)
  /\ \/ Takes /\ Apply
     \/ UNCHANGED content
  /\ IF tries + 1 < Retries
       THEN /\ tries' = tries + 1
            /\ UNCHANGED <<repo, slot, phase, seen, reported, skipped, healthy, whole>>
       ELSE RecordLine(FALSE)
  /\ UNCHANGED <<secret, listed, edits>>

\* The process is killed: no summary.
KillRun ==
  /\ repo # 0
  /\ Fault
  /\ GoOn(0, 1)
  /\ UNCHANGED <<secret, content, reported, skipped, healthy, listed, whole, spoiled,
                 edits>>

\* Somebody changes a repository.
Edit(r, s, c) ==
  /\ edits < MaxEdits
  /\ content[r][s] # c
  /\ content' = [content EXCEPT ![r][s] = c]
  /\ edits' = edits + 1
  /\ Spoil(r, s)
  /\ UNCHANGED <<secret, repo, slot, phase, seen, tries, reported, skipped, healthy,
                 listed, whole, faults>>

Step == Read \/ ReadFails \/ TemplateMissing \/ Write \/ WriteUnanswered

HooksNext ==
  \/ StartRun
  \/ Step
  \/ KillRun
  \/ \E r \in 1..Repos, i \in DOMAIN Slots :
       \E c \in Contents(Slots[i]) : Edit(r, Slots[i], c)

HooksSpec == HooksInit /\ [][HooksNext]_hooksVars

\* The scheduler starts a run every day, and each request is answered, retried
\* or given up in bounded time.
HooksFairSpec == HooksSpec /\ WF_hooksVars(StartRun) /\ WF_hooksVars(Step)
----------------------------------------------------------------------------
HooksTypeOK ==
  /\ secret \in BOOLEAN
  /\ \A r \in 1..Repos, i \in DOMAIN Slots :
       content[r][Slots[i]] \in Contents(Slots[i])
  /\ repo \in 0..Repos
  /\ slot \in DOMAIN Slots
  /\ phase \in {"read", "write"}
  /\ seen \in Contents("config")
  /\ tries \in 0..(Retries - 1)
  /\ reported \cup spoiled \subseteq (1..Repos) \X {Slots[i] : i \in DOMAIN Slots}
  /\ {skipped, healthy, listed, whole} \subseteq BOOLEAN
  /\ edits \in 0..MaxEdits
  /\ faults \in 0..MaxFaults

Wanted(s) == s = "hook" => secret
Configured(r) ==
  \A i \in DOMAIN Slots : Wanted(Slots[i]) => content[r][Slots[i]] = Done(Slots[i])

\* A run that gets to the end of its loop has configured everything, but for
\* what somebody edited while it ran and the very step whose request failed: a
\* failure costs neither the later steps of its repository nor the other
\* repositories (ops/syncHooks.ts:482), and no step takes back another's work.
FaultsStayLocal ==
  repo = 0 /\ whole =>
    \A r \in 1..Repos, i \in DOMAIN Slots :
      Wanted(Slots[i]) => \/ content[r][Slots[i]] = Done(Slots[i])
                         \/ <<r, Slots[i]>> \in spoiled

\* Once people and faults leave them alone, all repositories end up configured
\* and stay so, wherever earlier runs were interrupted.
Converges == <>[](\A r \in 1..Repos : Configured(r))

\* "reporting 0 synced for a transport failure would read as a healthy run".
FailedListingShows == repo = 0 /\ ~listed => ~healthy
=============================================================================
