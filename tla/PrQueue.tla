------------------------------- MODULE PrQueue -------------------------------
(***************************************************************************)
(* Ticks of the worker over the open PRs of all repositories: the scan     *)
(* (scan.ts), the walk of each PR through the toolchain pin guard, the     *)
(* bump guard and the review it finds (steps.ts, pins.ts, bump-guard.ts,   *)
(* review.ts), and the fix state that lives on in one file (state.ts),     *)
(* pruned when the tick ends (pipeline.ts).                                *)
(*                                                                         *)
(* What the agent and the gates do to one PR is PrPipeline; here it is one *)
(* step that pins the head, merges, pushes or changes nothing. Every write *)
(* of the file truncates it first, so a kill in between leaves it torn.    *)
(***************************************************************************)
EXTENDS ReviewVerdict, FiniteSets

CONSTANTS
  PRs,
  Repo,        \* [PRs -> the repository of the PR]
  Toolchain,   \* dependabot bumps of a pinned package to another major
  Bumps,       \* dependabot bumps of a single package with platform members
  Trivial,     \* PRs whose titles isTrivialPr knows
  Reviews,     \* what the model may answer about a PR
  Page,        \* PRs the scan reads of a repository
  CommentPage, \* comments that findReviewComment reads
  Threshold,   \* PRUNE_THRESHOLD
  MaxHead,
  MaxEvents,   \* bound: events of the world, and kills among them
  MaxKills     \* bound: kills

ASSUME QueueAssumption ==
  /\ IsFiniteSet(PRs)
  /\ Toolchain \cap Bumps = {} /\ Toolchain \cup Bumps \cup Trivial \subseteq PRs
  /\ Reviews \subseteq Answers
  /\ {Page, CommentPage, Threshold, MaxHead, MaxEvents, MaxKills} \subseteq Nat

Heads == 0..MaxHead
None == -1
Torn == <<>>      \* what is in the file does not parse
NoReview == [none |-> TRUE]

\* NO_CODE_REVIEW, the review the worker makes up for a PR without code.
NoCode == [security |-> "none", issues |-> "none", effort |-> 1, error |-> FALSE]

VARIABLES
  open,      \* GitHub: the PRs that are open
  head,      \* GitHub: [PRs -> head]
  before,    \* GitHub: [PRs -> comments older than the guide, counted up to CommentPage]
  guide,     \* the answer in the "PR Reviewer Guide" comment of a PR, or NoReview
  marked,    \* GitHub: the PRs with "No code suggestions found" on the first page
  absent,    \* npm: the <<PR, head>> whose bump lacks a published member
  file,      \* the fix state on disk, or Torn
  pc,
  seen,      \* the tick: the PRs the scan returned, with the heads it read
  todo,      \* the tick: those it has not begun
  cur,       \* processPr: [pr, head]
  mem,       \* processPr: the fix state it loaded
  found,     \* processPr: the review it found, or NoReview
  byCi,      \* processPr: a dependabot PR whose CI is green
  then,      \* where the worker goes on after a write
  told,      \* ghost: [Bumps \X Heads -> evidence comments]
  settled,   \* ghost: <<PR, head>> that a complete file recorded as pinned or refused
  again,     \* ghost: <<PR, head>> the agent ran at after they were settled
  merges,    \* ghost: [pr, review, byCi] of every merge
  wasAbsent, \* ghost: what `absent` was at first
  excused,   \* ghost: PRs whose record a torn file or a partial scan took
  events, kills

github == <<open, head, before, guide, marked>>
ghosts == <<told, settled, again, merges, wasAbsent, excused>>
worker == <<pc, seen, todo, cur, mem, found, byCi, then>>
vars == <<github, absent, file, worker, ghosts, events, kills>>

Blank == [bad |-> None, pin |-> None]
Empty == [p \in PRs |-> Blank]

\* loadFixState: a file that cannot be parsed reads as {}.
Load == IF file = Torn THEN Empty ELSE file

Nobody == [p \in {} |-> None]

Init ==
  /\ open = PRs
  /\ head = [p \in PRs |-> 0]
  /\ before = [p \in PRs |-> 0]
  /\ guide = [p \in PRs |-> NoReview]
  /\ marked = {}
  /\ absent \in SUBSET (Bumps \X Heads)
  /\ file = Empty
  /\ pc = "idle"
  /\ seen = Nobody /\ todo = {}
  /\ cur = [pr |-> None, head |-> None]
  /\ mem = Empty /\ found = NoReview /\ byCi = FALSE /\ then = "idle"
  /\ told = [x \in Bumps \X Heads |-> 0]
  /\ settled = {} /\ again = {} /\ merges = {} /\ excused = {}
  /\ wasAbsent = absent
  /\ events = 0 /\ kills = 0

Here == <<cur.pr, cur.head>>

\* The PR's turn ends.
Leave ==
  /\ pc' = "next"
  /\ cur' = [pr |-> None, head |-> None]
  /\ mem' = Empty /\ found' = NoReview /\ byCi' = FALSE /\ then' = "idle"
  /\ UNCHANGED <<seen, todo>>

\* The tick ends.
Stop ==
  /\ pc' = "idle"
  /\ seen' = Nobody /\ todo' = {}
  /\ cur' = [pr |-> None, head |-> None]
  /\ mem' = Empty /\ found' = NoReview /\ byCi' = FALSE /\ then' = "idle"

Goto(step) == pc' = step /\ UNCHANGED <<seen, todo, cur, mem, found, byCi, then>>

\* saveFixState: the file is truncated now and complete one step later.
Save(state, next) ==
  /\ file' = Torn
  /\ mem' = state
  /\ pc' = "write" /\ then' = next
  /\ UNCHANGED <<seen, todo, cur, found, byCi>>

Written ==
  /\ pc = "write"
  /\ file' = mem
  /\ settled' = settled \cup {x \in PRs \X Heads : x[2] \in {mem[x[1]].bad, mem[x[1]].pin}}
  /\ CASE then = "next" -> Leave
       [] then = "evidence" -> Goto("evidence")
       [] then = "idle" -> Stop
  /\ UNCHANGED <<github, absent, told, again, merges, wasAbsent, excused, events, kills>>

----------------------------------------------------------------------------
(* scan.ts and runTick.                                                    *)

\* What GitHub may answer: nothing of a repository, one page of its open PRs.
Answered(S) ==
  \A r \in {Repo[p] : p \in PRs} :
    LET its == {p \in open : Repo[p] = r}
        got == {p \in S : Repo[p] = r}
    IN got = {} \/ (IF Cardinality(its) <= Page THEN got = its ELSE Cardinality(got) = Page)

StartTick ==
  /\ pc = "idle"
  /\ \E S \in SUBSET open :
       /\ Answered(S)
       /\ seen' = [p \in S |-> head[p]]
       /\ todo' = S
       \* More PRs than the threshold, and yet not all of those with a record.
       /\ excused' = IF Cardinality(S) > Threshold THEN excused \cup (PRs \ S) ELSE excused
  /\ pc' = "next"
  /\ UNCHANGED <<github, absent, file, cur, mem, found, byCi, then,
                 told, settled, again, merges, wasAbsent, events, kills>>

\* Mutant of Pruned: any scan is taken for the whole truth.
PrunedOnAnyScan(state) == [p \in PRs |-> IF p \in DOMAIN seen THEN state[p] ELSE Blank]

\* pruneClosedFixState, at the end of the tick.
Pruned(state) ==
  IF Cardinality(DOMAIN seen) <= Threshold THEN state
  ELSE [p \in PRs |-> IF p \in DOMAIN seen THEN state[p] ELSE Blank]

EndTick ==
  /\ pc = "next" /\ todo = {}
  /\ IF Pruned(Load) = Load
       THEN Stop /\ UNCHANGED file
       ELSE Save(Pruned(Load), "idle")
  /\ UNCHANGED <<github, absent, ghosts, events, kills>>

----------------------------------------------------------------------------
(* processPr up to the agent.                                              *)

\* badBumpReason.
Refused(p, sha) == Load[p].bad = sha

\* processPr begins with the PR as the scan saw it and with the file as it is
\* now. Both guards come before anything that costs.
StartPr ==
  /\ pc = "next"
  /\ \E p \in todo :
       /\ todo' = todo \ {p}
       /\ IF p \in Bumps /\ Refused(p, seen[p])
            THEN UNCHANGED <<pc, cur, mem>>
            ELSE /\ cur' = [pr |-> p, head |-> seen[p]]
                 /\ mem' = Load
                 /\ pc' = IF p \in Toolchain THEN "pin"
                          ELSE IF p \in Bumps THEN "registry" ELSE "review"
  /\ UNCHANGED <<github, absent, file, seen, found, byCi, then, ghosts, events, kills>>

Comment(p) ==
  before' = IF guide[p] = NoReview /\ before[p] < CommentPage
            THEN [before EXCEPT ![p] = @ + 1] ELSE before

\* closeToolchainPr. The close may fail, and the comment before it leaves
\* nothing that is read of such a PR again.
PinClose ==
  /\ pc = "pin"
  /\ open' \in {open, open \ {cur.pr}}
  /\ Leave
  /\ UNCHANGED <<head, before, guide, marked, absent, file, ghosts, events, kills>>

\* Mutant of Missing: no answer counts as missing.
MissingUnlessAnswered(x) == {TRUE, FALSE}

\* findBadBump: a member is missing only when npm answers 404; no answer, and
\* any other answer, is a pass.
Missing(x) == IF x \in absent THEN {TRUE, FALSE} ELSE {FALSE}

markBadBump(state) == [state EXCEPT ![cur.pr].bad = cur.head]

\* The refusal is saved before the evidence is posted.
BumpGuard ==
  /\ pc = "registry"
  /\ \E missing \in Missing(Here) :
       IF missing THEN Save(markBadBump(mem), "evidence")
       ELSE Goto("ci") /\ UNCHANGED file
  /\ UNCHANGED <<github, absent, ghosts, events, kills>>

\* commentBadBump: best effort, and nothing is kept of a failure.
Evidence ==
  /\ pc = "evidence"
  /\ \/ /\ told' = [told EXCEPT ![Here] = @ + 1]
        /\ Comment(cur.pr)
     \/ UNCHANGED <<told, before>>
  /\ Leave
  /\ UNCHANGED <<open, head, guide, marked, absent, file, settled, again, merges, wasAbsent,
                 excused, events, kills>>

\* dependabotCiStatus: a green dependabot PR needs no review.
DependabotCi ==
  /\ pc = "ci"
  /\ byCi' \in BOOLEAN
  /\ pc' = IF byCi' THEN "work" ELSE "review"
  /\ UNCHANGED <<github, absent, file, seen, todo, cur, mem, found, then, ghosts,
                 events, kills>>

\* findReviewComment reads one page of comments, the oldest.
GuideFound(p) == guide[p] # NoReview /\ before[p] < CommentPage

\* What stepReview may read: nothing, when it is not there or GitHub gives no
\* list; the guide; or, having read no guide, the marker of a trivial PR.
ReviewRead(p) ==
  {NoReview} \cup (IF GuideFound(p) THEN {guide[p]} ELSE {})
             \cup (IF p \in Trivial \cap marked THEN {NoCode} ELSE {})

\* stepReview and the pin of an earlier tick. A PR without a review has one
\* triggered (ReviewPosted) and ends its turn.
Review ==
  /\ pc = "review"
  /\ \E r \in ReviewRead(cur.pr) :
       IF r # NoReview /\ mem[cur.pr].pin # cur.head
       THEN /\ found' = r
            /\ pc' = "work"
            /\ UNCHANGED <<seen, todo, cur, mem, byCi, then>>
       ELSE Leave
  /\ UNCHANGED <<github, absent, file, ghosts, events, kills>>

----------------------------------------------------------------------------
(* The rest of processPr, which PrPipeline has in detail.                  *)

\* Mutant of Pinned: the state of the other PRs is not carried over.
PinnedAlone(state) == [Empty EXCEPT ![cur.pr].pin = cur.head]

\* markSkip.
Pinned(state) == [state EXCEPT ![cur.pr].pin = cur.head]

\* The merge is refused when the branch has moved on. A review that is not
\* safe blocks it, unless the merge is of a green dependabot PR.
MayMerge == cur.pr \in open /\ head[cur.pr] = cur.head /\ (~byCi => Safe(found))

\* The agent runs in stepAiFix or in resolveConflict, which a green dependabot
\* PR reaches too (mergeableGate, a 409), and without a look at the pin.
Agent ==
  /\ again' = IF Here \in settled /\ (byCi => mem[cur.pr].pin # cur.head)
              THEN again \cup {Here} ELSE again
  /\ UNCHANGED <<open, merges>>
  /\ \/ Save(Pinned(mem), "next") /\ UNCHANGED head
     \/ /\ head' = [head EXCEPT ![cur.pr] = IF @ < MaxHead THEN @ + 1 ELSE @]
        /\ Leave
        /\ UNCHANGED file

Work ==
  /\ pc = "work"
  /\ \/ /\ MayMerge
        /\ open' = open \ {cur.pr}
        /\ merges' = merges \cup {[pr |-> cur.pr, review |-> found, byCi |-> byCi]}
        /\ Leave
        /\ UNCHANGED <<head, file, again>>
     \/ Agent
     \/ Leave /\ UNCHANGED <<open, merges, head, file, again>>
  /\ UNCHANGED <<before, guide, marked, absent, told, settled, wasAbsent, excused,
                 events, kills>>

----------------------------------------------------------------------------
(* The world.                                                              *)

Event == events < MaxEvents /\ events' = events + 1
Quiet == UNCHANGED <<file, worker, ghosts, kills>>

AuthorPushes(p) ==
  /\ Event /\ p \in open /\ head[p] < MaxHead
  /\ head' = [head EXCEPT ![p] = @ + 1]
  /\ UNCHANGED <<open, before, guide, marked, absent>> /\ Quiet

\* A person closes or reopens a PR. Its head stays.
CloseOrReopen(p) ==
  /\ Event
  /\ open' = IF p \in open THEN open \ {p} ELSE open \cup {p}
  /\ \A m \in merges : m.pr # p
  /\ UNCHANGED <<head, before, guide, marked, absent>> /\ Quiet

\* The missing platform package is published after all.
Publish(x) ==
  /\ Event /\ x \in absent
  /\ absent' = absent \ {x}
  /\ UNCHANGED github /\ Quiet

Chat(p) ==
  /\ Event /\ Comment(p)
  /\ UNCHANGED <<open, head, guide, marked, absent>> /\ Quiet

\* The review service posts its comment, or edits it in place.
ReviewPosted(p) ==
  /\ Event /\ p \in open
  /\ \E a \in Reviews : guide' = [guide EXCEPT ![p] = a]
  /\ UNCHANGED <<open, head, before, marked, absent>> /\ Quiet

\* The improve tool finds no code to comment on, and says so.
NoCodeNoted(p) ==
  /\ Event /\ p \in open /\ guide[p] = NoReview /\ before[p] < CommentPage
  /\ marked' = marked \cup {p}
  /\ Comment(p)
  /\ UNCHANGED <<open, head, guide, absent>> /\ Quiet

Kill ==
  /\ pc # "idle" /\ kills < MaxKills /\ events < MaxEvents
  /\ kills' = kills + 1 /\ events' = events + 1
  /\ Stop
  /\ excused' = IF file = Torn THEN PRs ELSE excused
  /\ UNCHANGED <<github, absent, file, told, settled, again, merges, wasAbsent>>

World ==
  \/ \E p \in PRs : CloseOrReopen(p)
  \/ \E p \in PRs \ Toolchain : AuthorPushes(p) \/ Chat(p) \/ ReviewPosted(p)
  \/ \E p \in Trivial \ Toolchain : NoCodeNoted(p)
  \/ \E x \in absent : Publish(x)

Worker ==
  \/ StartTick \/ StartPr \/ EndTick \/ Written
  \/ PinClose \/ BumpGuard \/ Evidence \/ DependabotCi \/ Review \/ Work

Next == World \/ Worker \/ Kill

Spec == Init /\ [][Next]_vars

----------------------------------------------------------------------------
(* Properties.                                                             *)

TypeOK ==
  /\ open \subseteq PRs /\ head \in [PRs -> Heads]
  /\ guide \in [PRs -> Reviews \cup {NoReview}] /\ marked \subseteq PRs
  /\ file \in {Torn} \cup [PRs -> [bad : Heads \cup {None}, pin : Heads \cup {None}]]
  /\ mem \in [PRs -> [bad : Heads \cup {None}, pin : Heads \cup {None}]]
  /\ pc \in {"idle", "next", "write", "pin", "registry", "evidence",
             "ci", "review", "work"}
  /\ DOMAIN seen \subseteq PRs /\ todo \subseteq DOMAIN seen

\* The evidence against a bump is posted at most once per head, over any number
\* of ticks, kills and scans that GitHub answered in part: only a record that a
\* torn file or a scan of more than Threshold PRs took is judged again.
EvidenceOnce ==
  \A x \in Bumps \X Heads : told[x] <= 1 \/ x[1] \in excused

\* A head once recorded as pinned or refused costs no agent run in a later turn,
\* with the same exceptions and that of a pinned head whose dependabot PR turned
\* green, where a conflict is resolved all the same. The records of all PRs share one file, which each PR of
\* each tick reads and writes whole.
SettledStaysSettled == \A x \in again : x[1] \in excused

\* A bump is refused only if one of its members really was missing: no failed
\* read of the registry and no mix-up of heads refuses a good one.
JudgedOnEvidence ==
  \A p \in PRs : Load[p].bad # None => <<p, Load[p].bad>> \in wasAbsent

\* Nothing is merged on a review that was read and reports a security concern,
\* whatever the rows beside it score, the green dependabot PR excepted.
MergedOnCleanReview ==
  \A m \in merges : m.byCi \/ m.review.security # "reported"

\* What state.ts:283-284 says of pruning: "a wrong open-PR set can leave the file
\* untouched but can never drop live state". It does not hold of a scan of more
\* than Threshold PRs that GitHub answered in part.
LiveStateKept ==
  [][pc = "next" /\ then' = "idle" /\ pc' = "write" =>
       \A p \in open : mem'[p] = Load[p]]_vars

\* What safety.ts:110-113 says: "only an explicitly empty or negated one is a
\* pass. A shape we have never seen cannot buy a merge". It does not hold: a
\* concern that begins with a markdown heading or a section's emoji reads as an
\* empty row.
UnknownShapeBlocks ==
  \A m \in merges : m.byCi \/ m.review.security \in {"absent", "none"}
=============================================================================
