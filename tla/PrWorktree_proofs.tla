------------------------- MODULE PrWorktree_proofs -------------------------
(***************************************************************************)
(* What the worker's pushes and directories guarantee, for any number of   *)
(* commits, failures and kills.                                            *)
(***************************************************************************)
EXTENDS PrWorktree, FiniteSetTheorems, SequenceTheorems, WellFoundedInduction, TLAPS

Dirs == [log : Seq(Nat), dirty : BOOLEAN, seen : SUBSET Seq(Nat), old : BOOLEAN]

\* Histories are sequences wherever they are kept, so that a push can be compared
\* with what it replaces; `seen` is one of the heads.
IInv ==
  /\ made \in Nat
  /\ branch \in Seq(Nat)
  /\ fetched \in Seq(Nat)
  /\ tips \in SUBSET Seq(Nat)
  /\ tree \in Dirs
  /\ spare \in Dirs

LEMMA NoTreeType == NoTree \in Dirs
BY DEF NoTree, Dirs

LEMMA CloneType == IInv => Clone \in Dirs
BY DEF IInv, Clone, Dirs

\* The agent's edits and commits leave a directory a directory.
LEMMA EditedType ==
  ASSUME IInv, NEW t \in Dirs, NEW c \in BOOLEAN, NEW e \in BOOLEAN, NEW y \in BOOLEAN
  PROVE  Edited(t, c, e, y) \in Dirs
<1>1. Append(t.log, made + 1) \in Seq(Nat)
  BY DEF IInv, Dirs
<1> QED BY <1>1 DEF Edited, Dirs

LEMMA SharedType ==
  ASSUME NEW a \in Seq(Nat), NEW b \in Seq(Nat)
  PROVE  Shared(a, b) \in Nat
<1> DEFINE S == {n \in DOMAIN a \cap DOMAIN b : SubSeq(a, 1, n) = SubSeq(b, 1, n)}
<1>1. IsFiniteSet(1..Len(a))
  BY FS_Interval
<1>2. S \subseteq 1..Len(a)
  OBVIOUS
<1>3. IsFiniteSet(S)
  BY <1>1, <1>2, FS_Subset
<1> QED BY <1>3, FS_CardinalityType DEF Shared

LEMMA ReplayedType ==
  ASSUME IInv, NEW log \in Seq(Nat)
  PROVE  Replayed(log) \in Seq(Nat)
<1> DEFINE k == Shared(fetched, log)
<1>1. k \in Nat
  BY SharedType DEF IInv
<1> HIDE DEF k
<1>2. \A i \in (k + 1)..Len(log) : log[i] \in Nat
  BY <1>1
<1>3. SubSeq(log, k + 1, Len(log)) \in Seq(Nat)
  BY <1>1, <1>2, SubSeqProperties
<1>4. fetched \o SubSeq(log, k + 1, Len(log)) \in Seq(Nat)
  BY <1>3, ConcatProperties DEF IInv
<1> QED BY <1>4 DEF Replayed, k

LEMMA InitEstablishes == Init => IInv
<1> SUFFICES ASSUME Init PROVE IInv
  OBVIOUS
<1>1. branch \in Seq(Nat) /\ tips \in SUBSET Seq(Nat) /\ fetched \in Seq(Nat)
  BY DEF Init
<1> QED BY <1>1, NoTreeType DEF Init, IInv

\* What a push may make of the branch: the history of a directory that adds to it.
Pushed ==
  \/ pc = "relockPush" /\ FastForward(spare.log) /\ branch' = spare.log
  \/ pc \in {"push", "repush"} /\ FastForward(tree.log) /\ branch' = tree.log

\* The branch changes by a push of the worker or by one of the author.
LEMMA TickBranch ==
  ASSUME Next, ~AuthorPushes
  PROVE  (Pushed /\ tips' = tips \cup {branch'}) \/ UNCHANGED <<branch, tips>>
<1> USE DEF world, dirs, bounds, Goto, Dies, Returns, Exits, Discard, Fault,
        PushRefused, Land, Update, Pushed, TakesUp, FetchHead
<1>1. CASE Close \/ HoursPass \/ OrphanWorks \/ OrphanEnds
  BY <1>1 DEF Close, HoursPass, OrphanWorks, OrphanEnds
<1>2. CASE StartTick \/ OtherTick \/ RunAgain \/ Kill
  BY <1>2 DEF StartTick, OtherTick, RunAgain, Kill
<1>3. CASE RelockCommits \/ RelockGivesUp \/ TakeLease \/ KillSelf
  BY <1>3 DEF RelockCommits, RelockGivesUp, TakeLease, KillSelf
<1>4. CASE ReuseTree \/ DropTree \/ Fetch \/ Checkout \/ RefreshFails \/ MakeClone
  BY <1>4 DEF ReuseTree, DropTree, Fetch, Checkout, RefreshFails, MakeClone
<1>5. CASE CloneFails \/ StartAgent \/ NothingToFix \/ AgentFails \/ AgentEnds
  BY <1>5 DEF CloneFails, StartAgent, NothingToFix, AgentFails, AgentEnds
<1>6. CASE CountsSome \/ CountsNone \/ KeepClean \/ FirstPushRefused \/ Refetch
           \/ Rebase \/ RebaseFails \/ RepushRefused \/ ReadTip \/ EndTick
  BY <1>6 DEF CountsSome, CountsNone, KeepClean, FirstPushRefused, Refetch, Rebase,
              RebaseFails, RepushRefused, ReadTip, EndTick
<1>7. CASE RelockPushes
  BY <1>7 DEF RelockPushes
<1>8. CASE FirstPush \/ Repush
  BY <1>8 DEF FirstPush, Repush
<1> QED BY <1>1, <1>2, <1>3, <1>4, <1>5, <1>6, <1>7, <1>8 DEF Next, Tick

LEMMA BranchType ==
  IInv /\ [Next]_vars => branch' \in Seq(Nat) /\ tips' \in SUBSET Seq(Nat)
<1> SUFFICES ASSUME IInv, [Next]_vars
             PROVE  branch' \in Seq(Nat) /\ tips' \in SUBSET Seq(Nat)
  OBVIOUS
<1>1. CASE AuthorPushes
  <2>1. made' \in Nat
    BY <1>1 DEF AuthorPushes, IInv
  <2>2. Front(branch) \in Seq(Nat)
    <3>1. \A i \in 1..(Len(branch) - 1) : branch[i] \in Nat
      BY DEF IInv
    <3>2. 1 \in Int /\ Len(branch) - 1 \in Int
      BY DEF IInv
    <3> QED BY <3>1, <3>2, SubSeqProperties DEF Front
  <2>3. /\ branch' = Append(branch, made') \/ branch' = Append(Front(branch), made')
        /\ tips' = tips \cup {branch'}
    BY <1>1 DEF AuthorPushes, Update
  <2>4. Append(branch, made') \in Seq(Nat)
    BY <2>1, AppendProperties DEF IInv
  <2>5. Append(Front(branch), made') \in Seq(Nat)
    BY <2>1, <2>2, AppendProperties
  <2> QED BY <2>3, <2>4, <2>5 DEF IInv
<1>2. CASE Next /\ ~AuthorPushes
  <2>1. (Pushed /\ tips' = tips \cup {branch'}) \/ UNCHANGED <<branch, tips>>
    BY <1>2, TickBranch
  <2>2. tree.log \in Seq(Nat) /\ spare.log \in Seq(Nat)
    BY DEF IInv, Dirs
  <2> QED BY <2>1, <2>2 DEF Pushed, IInv
<1>3. CASE UNCHANGED vars
  BY <1>3 DEF vars, world, IInv
<1> QED BY <1>1, <1>2, <1>3

LEMMA StepPreserves == IInv /\ [Next]_vars => IInv'
<1> SUFFICES ASSUME IInv, [Next]_vars
             PROVE  /\ made' \in Nat /\ tree' \in Dirs /\ spare' \in Dirs
                    /\ fetched' \in Seq(Nat)
  BY BranchType DEF IInv
<1> USE DEF world, dirs, run, locals, bounds, Goto, Dies, Returns, Discard, Land,
        PushRefused, TakesUp
<1>0. /\ made \in Nat /\ tree \in Dirs /\ spare \in Dirs /\ NoTree \in Dirs
      /\ Clone \in Dirs /\ fetched \in Seq(Nat) /\ <<>> \in Seq(Nat)
  BY NoTreeType, CloneType DEF IInv
<1>1. CASE AuthorPushes BY <1>0, <1>1 DEF AuthorPushes
<1>2. CASE HoursPass
  <2>1. Exists(tree) \in BOOLEAN /\ Exists(spare) \in BOOLEAN
    BY DEF Exists
  <2>2. \A t \in Dirs, b \in BOOLEAN : [t EXCEPT !.old = b] \in Dirs
    BY DEF Dirs
  <2>3. tree' \in Dirs /\ spare' \in Dirs
    BY <1>0, <1>2, <2>1, <2>2 DEF HoursPass
  <2> QED BY <1>0, <1>2, <2>3 DEF HoursPass
<1>3. CASE OrphanWorks \/ AgentEnds
  <2>1. PICK c \in BOOLEAN, e \in BOOLEAN, y \in BOOLEAN :
          /\ made' = IF c THEN made + 1 ELSE made
          /\ tree' = Edited(tree, c, e, y)
    BY <1>3 DEF OrphanWorks, AgentEnds
  <2>2. tree' \in Dirs
    BY <1>0, <2>1, EditedType
  <2>3. made' \in {made, made + 1}
    BY <2>1
  <2>4. UNCHANGED <<spare, fetched>>
    BY <1>3 DEF OrphanWorks, AgentEnds
  <2> QED BY <1>0, <2>2, <2>3, <2>4
<1>4. CASE RelockCommits
  <2>1. Append(branch, made + 1) \in Seq(Nat)
    BY DEF IInv
  <2>2. spare' = [Clone EXCEPT !.log = Append(branch, made + 1)]
    BY <1>4 DEF RelockCommits
  <2>3. spare' \in Dirs
    BY <2>1, <2>2, <1>0 DEF Dirs
  <2> QED BY <1>0, <1>4, <2>3 DEF RelockCommits
<1>5. CASE OtherTick BY <1>0, <1>5 DEF OtherTick, Swept
<1>6. CASE Checkout
  <2>1. \A y \in BOOLEAN : Refreshed(tree, y) \in Dirs
    BY <1>0 DEF Refreshed, Dirs
  <2> QED BY <1>0, <1>6, <2>1 DEF Checkout
<1>7. CASE Rebase
  <2>1. Replayed(tree.log) \in Seq(Nat)
    BY <1>0, ReplayedType DEF Dirs
  <2>2. tree' = [tree EXCEPT !.log = Replayed(tree.log)]
    BY <1>7 DEF Rebase
  <2>3. tree' \in Dirs
    BY <1>0, <2>1, <2>2 DEF Dirs
  <2> QED BY <1>0, <1>7, <2>3 DEF Rebase
<1>8. CASE Fetch \/ Refetch
  <2>1. tree' = [tree EXCEPT !.seen = tree.seen \cup {branch}] /\ fetched' = branch
    BY <1>8 DEF Fetch, Refetch, FetchHead
  <2>2. tree' \in Dirs /\ fetched' \in Seq(Nat)
    BY <1>0, <2>1 DEF Dirs, IInv
  <2> QED BY <1>0, <1>8, <2>2 DEF Fetch, Refetch, FetchHead
<1>9. CASE Close \/ OrphanEnds \/ StartTick \/ RunAgain \/ Kill
  BY <1>0, <1>9 DEF Close, OrphanEnds, StartTick, RunAgain, Kill
<1>10. CASE RelockGivesUp \/ RelockPushes \/ TakeLease \/ KillSelf \/ EndTick
  BY <1>0, <1>10 DEF RelockGivesUp, RelockPushes, TakeLease, KillSelf, EndTick
<1>11. CASE ReuseTree \/ DropTree \/ RefreshFails \/ MakeClone \/ CloneFails
  BY <1>0, <1>11 DEF ReuseTree, DropTree, RefreshFails, MakeClone, CloneFails
<1>12. CASE StartAgent \/ NothingToFix \/ AgentFails \/ CountsSome \/ CountsNone
  BY <1>0, <1>12 DEF StartAgent, NothingToFix, AgentFails, CountsSome, CountsNone
<1>13. CASE KeepClean \/ FirstPush \/ FirstPushRefused \/ RebaseFails
  BY <1>0, <1>13 DEF KeepClean, FirstPush, FirstPushRefused, RebaseFails
<1>14. CASE Repush \/ RepushRefused \/ ReadTip
  BY <1>0, <1>14 DEF Repush, RepushRefused, ReadTip
<1>15. CASE UNCHANGED vars BY <1>0, <1>15 DEF vars
<1> QED BY <1>1, <1>2, <1>3, <1>4, <1>5, <1>6, <1>7, <1>8, <1>9, <1>10, <1>11,
           <1>12, <1>13, <1>14, <1>15 DEF Next, Tick

LEMMA Invariant == Spec => []IInv
BY InitEstablishes, StepPreserves, PTL DEF Spec

----------------------------------------------------------------------------
(* Where an agent starts.                                                   *)

\* The clone is brought to a head the branch has had since the run took it up, and
\* has no edits but those of an agent that is still at work.
GroundInv ==
  /\ pc \in Preparing => branch \in since
  /\ pc = "checkout" => fetched \in since
  /\ pc \in {"fetch", "checkout"} => meddled \/ ~tree.dirty
  /\ pc = "files" => meddled \/ (tree.log \in since /\ ~tree.dirty)

LEMMA GroundStep == IInv /\ GroundInv /\ [Next]_vars => GroundInv'
<1> SUFFICES ASSUME IInv, GroundInv, [Next]_vars PROVE GroundInv'
  OBVIOUS
<1> USE DEF world, dirs, run, locals, ghosts, bounds, Goto, Dies, Returns, GroundInv,
        Preparing
<1>1. CASE AuthorPushes
  BY <1>1 DEF AuthorPushes
<1>2. CASE OrphanWorks
  BY <1>2 DEF OrphanWorks
<1>3. CASE Close \/ HoursPass \/ OrphanEnds \/ OtherTick \/ StartTick \/ RunAgain
  BY <1>3 DEF Close, HoursPass, OrphanEnds, OtherTick, StartTick, RunAgain
<1>4. CASE Kill \/ EndTick \/ KillSelf \/ TakeLease
  BY <1>4 DEF Kill, EndTick, KillSelf, TakeLease
<1>5. CASE RelockCommits \/ RelockGivesUp \/ RelockPushes
  BY <1>5 DEF RelockCommits, RelockGivesUp, RelockPushes
<1>6. CASE ReuseTree \/ DropTree
  BY <1>6 DEF ReuseTree, DropTree, TakesUp, Reusable
<1>7. CASE Fetch
  <2>1. tree'.dirty = tree.dirty
    BY <1>7 DEF Fetch, FetchHead, IInv, Dirs
  <2> QED BY <1>7, <2>1 DEF Fetch, FetchHead
<1>8. CASE Checkout
  <2>1. PICK y \in BOOLEAN : tree' = Refreshed(tree, y)
    BY <1>8 DEF Checkout
  <2>2. tree'.log = fetched /\ tree'.dirty = tree.dirty
    BY <2>1 DEF Refreshed, IInv, Dirs
  <2> QED BY <1>8, <2>2 DEF Checkout
<1>9. CASE RefreshFails
  BY <1>9 DEF RefreshFails
<1>10. CASE MakeClone
  BY <1>10 DEF MakeClone, Clone
<1>11. CASE CloneFails \/ StartAgent \/ NothingToFix \/ AgentFails \/ AgentEnds
  BY <1>11 DEF CloneFails, StartAgent, NothingToFix, AgentFails, AgentEnds
<1>12. CASE CountsSome \/ CountsNone \/ KeepClean \/ FirstPush \/ FirstPushRefused
  BY <1>12 DEF CountsSome, CountsNone, KeepClean, FirstPush, FirstPushRefused, Land
<1>13. CASE Refetch \/ Rebase \/ RebaseFails \/ Repush \/ RepushRefused \/ ReadTip
  BY <1>13 DEF Refetch, FetchHead, Rebase, RebaseFails, PushRefused, Repush, Land,
               RepushRefused, ReadTip
<1>14. CASE UNCHANGED vars
  BY <1>14 DEF vars
<1> QED BY <1>1, <1>2, <1>3, <1>4, <1>5, <1>6, <1>7, <1>8, <1>9, <1>10, <1>11, <1>12,
           <1>13, <1>14 DEF Next, Tick

\* Only StartAgent starts an agent.
LEMMA AgentStarts ==
  ASSUME Next, pc # "agent", pc' = "agent"
  PROVE  StartAgent
<1> USE DEF run, Goto, Dies, Returns, Land, PushRefused, TakesUp, FetchHead
<1>1. ~AuthorPushes /\ ~Close /\ ~HoursPass /\ ~OrphanWorks /\ ~OrphanEnds
  BY DEF AuthorPushes, Close, HoursPass, OrphanWorks, OrphanEnds
<1>2. ~StartTick /\ ~OtherTick /\ ~RunAgain /\ ~Kill /\ ~EndTick
  BY DEF StartTick, OtherTick, RunAgain, Kill, EndTick
<1>3. ~RelockCommits /\ ~RelockGivesUp /\ ~RelockPushes /\ ~TakeLease /\ ~KillSelf
  BY DEF RelockCommits, RelockGivesUp, RelockPushes, TakeLease, KillSelf
<1>4. /\ ~ReuseTree /\ ~DropTree /\ ~Fetch /\ ~Checkout /\ ~RefreshFails /\ ~MakeClone
  BY DEF ReuseTree, DropTree, Fetch, Checkout, RefreshFails, MakeClone
<1>5. ~CloneFails /\ ~NothingToFix /\ ~AgentFails /\ ~AgentEnds /\ ~CountsSome
  BY DEF CloneFails, NothingToFix, AgentFails, AgentEnds, CountsSome
<1>6. ~CountsNone /\ ~KeepClean /\ ~FirstPush /\ ~FirstPushRefused /\ ~Refetch
  BY DEF CountsNone, KeepClean, FirstPush, FirstPushRefused, Refetch
<1>7. ~Rebase /\ ~RebaseFails /\ ~Repush /\ ~RepushRefused /\ ~ReadTip
  BY DEF Rebase, RebaseFails, Repush, RepushRefused, ReadTip
<1> QED BY <1>1, <1>2, <1>3, <1>4, <1>5, <1>6, <1>7 DEF Next, Tick

LEMMA StepOnFreshGround ==
  GroundInv /\ [Next]_vars =>
    (pc # "agent" /\ pc' = "agent" => meddled \/ (tree.log \in since /\ ~tree.dirty))
<1> SUFFICES ASSUME GroundInv, Next, pc # "agent", pc' = "agent"
             PROVE  meddled \/ (tree.log \in since /\ ~tree.dirty)
  BY DEF vars, run
<1>1. StartAgent
  BY AgentStarts
<1> QED BY <1>1 DEF StartAgent, GroundInv

\* An agent starts from a head the branch has had since its run took the clone up,
\* without what an earlier agent left there, whatever was killed in between; unless
\* that agent is still at work.
THEOREM StartsOnFreshGround == Spec => FreshGround
<1>1. Init => GroundInv
  BY DEF Init, GroundInv, Preparing
<1> QED BY <1>1, Invariant, GroundStep, StepOnFreshGround, PTL DEF Spec, FreshGround

----------------------------------------------------------------------------
(* What a rebase keeps.                                                     *)

LEMMA LeastNatural ==
  ASSUME NEW T \in SUBSET Nat, T # {}
  PROVE  \E x \in T : \A y \in T : x <= y
<1> DEFINE R == {ss \in Nat \X Nat : ss[1] < ss[2]}
<1>1. IsWellFoundedOn(R, Nat)
  BY NatLessThanWellFounded DEF OpToRel
<1>2. \A x \in Nat, y \in Nat : y < x => <<y, x>> \in R
  OBVIOUS
<1> HIDE DEF R
<1>3. PICK x \in T : \A y \in T : ~ (<<y, x>> \in R)
  BY <1>1, WFMin
<1>4. ASSUME NEW y \in T PROVE x <= y
  <2>1. x \in Nat /\ y \in Nat /\ <<y, x>> \notin R
    BY <1>3
  <2>2. ~(y < x)
    BY <1>2, <2>1
  <2> QED BY <2>1, <2>2
<1> QED BY <1>4

\* An initial segment of the natural numbers is known by its size.
LEMMA InitialSegment ==
  ASSUME NEW m \in Nat, NEW S \in SUBSET (1..m),
         \A n \in S : \A i \in 1..n : i \in S
  PROVE  S = 1..Cardinality(S)
<1> DEFINE T == (1..(m + 1)) \ S
<1>1. T \in SUBSET Nat /\ T # {}
  <2>1. m + 1 \in T
    OBVIOUS
  <2> QED BY <2>1
<1>2. PICK x \in T : \A y \in T : x <= y
  BY <1>1, LeastNatural
<1>3. x \in 1..(m + 1) /\ x \notin S
  OBVIOUS
<1>4. \A n \in 1..(x - 1) : n \in S
  <2> SUFFICES ASSUME NEW n \in 1..(x - 1), n \notin S PROVE FALSE
    OBVIOUS
  <2>1. n \in 1..(m + 1) /\ n < x
    BY <1>3
  <2>2. x <= n
    BY <1>2, <2>1
  <2> QED BY <1>3, <2>1, <2>2
<1>5. \A n \in S : n \in 1..(x - 1)
  <2> SUFFICES ASSUME NEW n \in S PROVE n < x
    BY <1>3
  <2>1. x <= n => x \in 1..n
    BY <1>3
  <2>2. ~(x <= n)
    BY <1>3, <2>1
  <2> QED BY <1>3, <2>2
<1>6. S = 1..(x - 1)
  BY <1>4, <1>5
<1>7. x - 1 \in Nat
  BY <1>3
<1>8. Cardinality(1..(x - 1)) = x - 1
  BY <1>7, FS_Interval
<1> QED BY <1>6, <1>8

\* merge-base: up to Shared(a, b) the two histories are the same.
LEMMA SharedIsCommon ==
  ASSUME NEW a \in Seq(Nat), NEW b \in Seq(Nat)
  PROVE  \A n \in 1..Shared(a, b) : n \in DOMAIN a /\ n \in DOMAIN b /\ a[n] = b[n]
<1> DEFINE S == {n \in DOMAIN a \cap DOMAIN b : SubSeq(a, 1, n) = SubSeq(b, 1, n)}
<1>1. DOMAIN a = 1..Len(a) /\ DOMAIN b = 1..Len(b) /\ Len(a) \in Nat /\ Len(b) \in Nat
  OBVIOUS
<1>2. ASSUME NEW s \in Seq(Nat), NEW n \in 1..Len(s)
      PROVE  /\ SubSeq(s, 1, n) \in Seq(Nat) /\ Len(SubSeq(s, 1, n)) = n
             /\ \A i \in 1..n : SubSeq(s, 1, n)[i] = s[i]
  <2>1. \A i \in 1..n : s[i] \in Nat
    OBVIOUS
  <2>2. 1 \in Int /\ n \in Int
    OBVIOUS
  <2>3. /\ SubSeq(s, 1, n) \in Seq(Nat)
        /\ Len(SubSeq(s, 1, n)) = IF 1 <= n THEN n - 1 + 1 ELSE 0
        /\ \A i \in 1..(n - 1 + 1) : SubSeq(s, 1, n)[i] = s[1 + i - 1]
    BY <2>1, <2>2, SubSeqProperties
  <2> QED BY <2>3
<1>3. ASSUME NEW n \in S, NEW i \in 1..n PROVE i \in S /\ a[i] = b[i]
  <2>1. n \in 1..Len(a) /\ n \in 1..Len(b) /\ SubSeq(a, 1, n) = SubSeq(b, 1, n)
    BY <1>1
  <2>2. \A j \in 1..n : a[j] = b[j]
    BY <1>2, <2>1
  <2>3. i \in 1..Len(a) /\ i \in 1..Len(b)
    <3>1. n \in Nat /\ i \in Nat /\ 1 <= i /\ i <= n
      BY <2>1, <1>1
    <3>2. n <= Len(a) /\ n <= Len(b)
      BY <2>1, <1>1
    <3> QED BY <3>1, <3>2, <1>1
  <2>4. \A j \in 1..i : a[j] = b[j]
    BY <2>1, <2>2
  <2>5. SubSeq(a, 1, i) = SubSeq(b, 1, i)
    <3>1. SubSeq(a, 1, i) \in Seq(Nat) /\ SubSeq(b, 1, i) \in Seq(Nat)
      BY <1>2, <2>3
    <3>2. Len(SubSeq(a, 1, i)) = Len(SubSeq(b, 1, i))
      BY <1>2, <2>3
    <3>3. \A j \in 1..Len(SubSeq(a, 1, i)) : SubSeq(a, 1, i)[j] = SubSeq(b, 1, i)[j]
      BY <1>2, <2>3, <2>4
    <3> QED BY <3>1, <3>2, <3>3, SeqEqual
  <2> QED BY <1>1, <2>2, <2>3, <2>5
<1>4. S \in SUBSET (1..Len(a)) /\ S \subseteq DOMAIN a \cap DOMAIN b
  BY <1>1
<1>5. Shared(a, b) = Cardinality(S)
  BY DEF Shared
<1> HIDE DEF S
<1>6. S = 1..Cardinality(S)
  BY <1>1, <1>3, <1>4, InitialSegment
<1>7. ASSUME NEW n \in 1..Shared(a, b)
      PROVE  n \in DOMAIN a /\ n \in DOMAIN b /\ a[n] = b[n]
  <2>1. n \in S /\ n \in 1..n
    <3>1. n \in S
      BY <1>5, <1>6
    <3> QED BY <1>1, <1>4, <3>1
  <2> QED BY <1>3, <1>4, <2>1
<1> QED BY <1>7

\* Replaying the commits on another head keeps them all: those it leaves out are in
\* the history of that head.
LEMMA ReplayedKeeps ==
  ASSUME IInv, NEW log \in Seq(Nat)
  PROVE  /\ Range(log) \subseteq Range(Replayed(log))
         /\ Range(Replayed(log)) \subseteq Range(fetched) \cup Range(log)
<1> DEFINE k == Shared(fetched, log)
           own == SubSeq(log, k + 1, Len(log))
<1>1. fetched \in Seq(Nat) /\ k \in Nat /\ Len(log) \in Nat /\ Len(fetched) \in Nat
  BY SharedType DEF IInv
<1>2. \A n \in 1..k : n \in DOMAIN fetched /\ fetched[n] = log[n]
  BY <1>1, SharedIsCommon
<1> HIDE DEF k
<1>3. /\ own \in Seq(Nat)
      /\ Len(own) = IF k + 1 <= Len(log) THEN Len(log) - (k + 1) + 1 ELSE 0
      /\ \A i \in 1..(Len(log) - (k + 1) + 1) : own[i] = log[(k + 1) + i - 1]
  <2>1. \A i \in (k + 1)..Len(log) : log[i] \in Nat
    BY <1>1
  <2>2. k + 1 \in Int /\ Len(log) \in Int
    BY <1>1
  <2> QED BY <2>1, <2>2, SubSeqProperties
<1>4. Replayed(log) = fetched \o own
  BY DEF Replayed, k
<1> HIDE DEF own
<1>5. /\ fetched \o own \in Seq(Nat) /\ Len(fetched \o own) = Len(fetched) + Len(own)
      /\ \A i \in 1..(Len(fetched) + Len(own)) :
           (fetched \o own)[i] = IF i <= Len(fetched) THEN fetched[i] ELSE own[i - Len(fetched)]
  BY <1>1, <1>3, ConcatProperties
<1>6. Len(own) \in Nat /\ DOMAIN (fetched \o own) = 1..(Len(fetched) + Len(own))
  BY <1>3, <1>5
<1>7. ASSUME NEW n \in 1..Len(log)
      PROVE  \E i \in DOMAIN (fetched \o own) : (fetched \o own)[i] = log[n]
  <2>1. CASE n <= k
    <3>1. n \in DOMAIN fetched /\ fetched[n] = log[n]
      BY <1>2, <2>1
    <3>2. n \in 1..Len(fetched)
      BY <1>1, <3>1
    <3>3. n \in 1..(Len(fetched) + Len(own)) /\ n <= Len(fetched)
      BY <1>1, <1>6, <3>2
    <3> QED BY <1>5, <1>6, <3>1, <3>3
  <2>2. CASE n > k
    <3> DEFINE i == n - k
    <3>1. i \in 1..(Len(log) - (k + 1) + 1) /\ (k + 1) + i - 1 = n /\ i <= Len(own)
      BY <1>1, <1>3, <2>2
    <3>2. own[i] = log[n]
      BY <1>3, <3>1
    <3> HIDE DEF i
    <3>3. /\ Len(fetched) + i \in 1..(Len(fetched) + Len(own))
          /\ ~(Len(fetched) + i <= Len(fetched)) /\ (Len(fetched) + i) - Len(fetched) = i
      BY <1>1, <1>6, <3>1
    <3>4. (fetched \o own)[Len(fetched) + i] = own[(Len(fetched) + i) - Len(fetched)]
      BY <1>5, <3>3
    <3> QED BY <1>6, <3>2, <3>3, <3>4
  <2> QED BY <1>1, <2>1, <2>2
<1>8. DOMAIN log = 1..Len(log) /\ DOMAIN fetched = 1..Len(fetched)
  BY <1>1
<1>9. ASSUME NEW i \in DOMAIN (fetched \o own)
      PROVE  \/ \E n \in DOMAIN fetched : (fetched \o own)[i] = fetched[n]
             \/ \E n \in DOMAIN log : (fetched \o own)[i] = log[n]
  <2>1. i \in 1..(Len(fetched) + Len(own))
    BY <1>6
  <2>2. CASE i <= Len(fetched)
    <3>1. i \in DOMAIN fetched /\ (fetched \o own)[i] = fetched[i]
      BY <1>1, <1>5, <1>8, <2>1, <2>2
    <3> QED BY <3>1
  <2>3. CASE i > Len(fetched)
    <3> DEFINE j == i - Len(fetched)
    <3>1. j \in 1..Len(own) /\ (fetched \o own)[i] = own[j]
      BY <1>1, <1>5, <1>6, <2>1, <2>3
    <3> HIDE DEF j
    <3>2. /\ j \in 1..(Len(log) - (k + 1) + 1) /\ (k + 1) + j - 1 \in 1..Len(log)
      BY <1>1, <1>3, <3>1
    <3>3. own[j] = log[(k + 1) + j - 1]
      BY <1>3, <3>2
    <3> QED BY <1>8, <3>1, <3>2, <3>3
  <2> QED BY <1>1, <2>1, <2>2, <2>3
<1>10. Range(log) \subseteq Range(fetched \o own)
  BY <1>7, <1>8 DEF Range
<1>11. Range(fetched \o own) \subseteq Range(fetched) \cup Range(log)
  BY <1>9 DEF Range
<1> QED BY <1>4, <1>10, <1>11

\* The agent's commit is added to what was there.
LEMMA AppendKeeps ==
  ASSUME NEW s \in Seq(Nat), NEW x \in Nat
  PROVE  Range(Append(s, x)) = Range(s) \cup {x}
<1>1. /\ DOMAIN Append(s, x) = 1..(Len(s) + 1) /\ DOMAIN s = 1..Len(s)
      /\ \A i \in 1..Len(s) : Append(s, x)[i] = s[i]
      /\ Append(s, x)[Len(s) + 1] = x
      /\ Len(s) \in Nat
  OBVIOUS
<1>2. Len(s) + 1 \in DOMAIN Append(s, x)
  BY <1>1
<1>3. \A i \in DOMAIN Append(s, x) : i \in DOMAIN s \/ i = Len(s) + 1
  BY <1>1
<1>4. \A i \in DOMAIN s : i \in DOMAIN Append(s, x) /\ Append(s, x)[i] = s[i]
  BY <1>1
<1>5. Append(s, x)[Len(s) + 1] = x
  BY <1>1
<1> HIDE <1>1
<1> QED BY <1>2, <1>3, <1>4, <1>5 DEF Range

LEMMA EditedKeeps ==
  ASSUME IInv, NEW t \in Dirs, NEW c \in BOOLEAN, NEW e \in BOOLEAN, NEW y \in BOOLEAN
  PROVE  /\ Range(t.log) \subseteq Range(Edited(t, c, e, y).log)
         /\ c => made + 1 \in Range(Edited(t, c, e, y).log)
         /\ Range(Edited(t, c, e, y).log) \subseteq
              Range(t.log) \cup (IF c THEN {made + 1} ELSE {})
<1>1. t.log \in Seq(Nat) /\ made + 1 \in Nat
  BY DEF IInv, Dirs
<1>2. Edited(t, c, e, y).log = IF c THEN Append(t.log, made + 1) ELSE t.log
  BY DEF Edited, Dirs
<1>3. Range(Append(t.log, made + 1)) = Range(t.log) \cup {made + 1}
  BY <1>1, AppendKeeps
<1> QED BY <1>2, <1>3

\* What is below a history stays below it when a commit is added.
LEMMA EditedPrefix ==
  ASSUME IInv, NEW t \in Dirs, NEW c \in BOOLEAN, NEW e \in BOOLEAN, NEW y \in BOOLEAN,
         NEW h \in Seq(Nat), IsPrefix(h, t.log)
  PROVE  IsPrefix(h, Edited(t, c, e, y).log)
<1> DEFINE s == t.log
           a == Append(s, made + 1)
<1>1. s \in Seq(Nat) /\ made + 1 \in Nat /\ Len(s) \in Nat /\ Len(h) \in Nat
  BY DEF IInv, Dirs
<1>2. Edited(t, c, e, y).log = IF c THEN a ELSE s
  BY DEF Edited, Dirs
<1>3. /\ a \in Seq(Nat) /\ Len(a) = Len(s) + 1
      /\ \A i \in 1..Len(s) : a[i] = s[i]
  BY <1>1
<1>4. Len(h) <= Len(s) /\ SubSeq(h, 1, Len(h)) = SubSeq(s, 1, Len(h))
  BY DEF IsPrefix
<1> HIDE DEF s, a
<1>5. SubSeq(a, 1, Len(h)) = SubSeq(s, 1, Len(h))
  <2>1. 1 \in Int /\ Len(h) \in Int /\ Len(h) <= Len(a)
    BY <1>1, <1>3, <1>4
  <2>2. \A i \in 1..Len(h) : a[i] = s[i] /\ a[i] \in Nat /\ s[i] \in Nat
    <3> SUFFICES ASSUME NEW i \in 1..Len(h)
                 PROVE  a[i] = s[i] /\ s[i] \in Nat
      OBVIOUS
    <3>1. i \in 1..Len(s)
      BY <1>1, <1>4
    <3> QED BY <1>1, <1>3, <3>1
  <2>3. /\ SubSeq(a, 1, Len(h)) \in Seq(Nat)
        /\ Len(SubSeq(a, 1, Len(h))) = IF 1 <= Len(h) THEN Len(h) - 1 + 1 ELSE 0
        /\ \A i \in 1..(Len(h) - 1 + 1) : SubSeq(a, 1, Len(h))[i] = a[1 + i - 1]
    BY <2>1, <2>2, SubSeqProperties
  <2>4. /\ SubSeq(s, 1, Len(h)) \in Seq(Nat)
        /\ Len(SubSeq(s, 1, Len(h))) = IF 1 <= Len(h) THEN Len(h) - 1 + 1 ELSE 0
        /\ \A i \in 1..(Len(h) - 1 + 1) : SubSeq(s, 1, Len(h))[i] = s[1 + i - 1]
    BY <2>1, <2>2, SubSeqProperties
  <2>5. Len(SubSeq(a, 1, Len(h))) = Len(h) /\ Len(SubSeq(s, 1, Len(h))) = Len(h)
    BY <1>1, <2>3, <2>4
  <2>6. \A i \in 1..Len(h) : SubSeq(a, 1, Len(h))[i] = SubSeq(s, 1, Len(h))[i]
    BY <1>1, <2>2, <2>3, <2>4
  <2> QED BY <2>3, <2>4, <2>5, <2>6, SeqEqual
<1>6. Len(h) <= Len(a)
  BY <1>1, <1>3, <1>4
<1>7. IsPrefix(h, a)
  BY <1>4, <1>5, <1>6 DEF IsPrefix
<1> QED BY <1>2, <1>7 DEF s

LEMMA PrefixReflexive == \A s \in Seq(Nat) : IsPrefix(s, s)
BY DEF IsPrefix

----------------------------------------------------------------------------
(* What a run publishes, and what it has recorded.                          *)

LEMMA PublishedHas == \A h \in tips : Range(h) \subseteq Published
BY DEF Published

LEMMA PublishedGrows ==
  ASSUME [Next]_vars
  PROVE  /\ tips \subseteq tips' /\ Published \subseteq Published'
         /\ branch' = branch \/ branch' \in tips'
<1>1. CASE AuthorPushes
  BY <1>1 DEF AuthorPushes, Update, Published
<1>2. CASE Next /\ ~AuthorPushes
  BY <1>2, TickBranch DEF Published
<1>3. CASE UNCHANGED vars
  BY <1>3 DEF vars, world, Published
<1> QED BY <1>1, <1>2, <1>3

Finishing == {"count", "push", "refetch", "rebase", "repush"}

\* This history is a head the branch has had, with the commits of the run, or has
\* one below it.
LandedIn(log, heads, commits, excused) ==
  \E h \in heads : IsPrefix(h, log) /\ (h = log \/ excused) /\ commits \subseteq Range(h)
Landed(log) == LandedIn(log, tips, work, meddled)

\* From the start of the agent to the end of the push the clone has commits of the
\* branch and of this run only; from the end of the agent on it has those of this
\* run, through a rebase and what the agent of a killed worker adds.
WorkInv ==
  /\ branch \in tips
  /\ pc \in {"checkout", "rebase"} => fetched \in tips
  /\ pc \in {"files", "agent"} \cup Finishing =>
       meddled \/ Range(tree.log) \subseteq Published \cup work
  /\ pc \in Preparing \cup {"agent"} => work = {}
  /\ pc = "relockPush" => Range(spare.log) \subseteq Published \cup work
  /\ pc \in Finishing => work \subseteq Range(tree.log)
  /\ pc = "tip" => Landed(tree.log)
  /\ tip # <<>> => pc = "gates" /\ Landed(tip)

LEMMA WorkStep == IInv /\ WorkInv /\ [Next]_vars => WorkInv'
<1> SUFFICES ASSUME IInv, WorkInv, [Next]_vars PROVE WorkInv'
  OBVIOUS
<1>0. /\ tips \subseteq tips' /\ Published \subseteq Published' /\ branch' \in tips'
      /\ \A h \in tips : Range(h) \subseteq Published
      /\ \A h \in tips' : Range(h) \subseteq Published'
  BY PublishedGrows, PublishedHas DEF WorkInv, Published
<1>l. ASSUME NEW log, Landed(log), meddled => meddled', work' = work
      PROVE  LandedIn(log, tips', work', meddled')
  BY <1>0, <1>l DEF Landed, LandedIn
<1> USE DEF world, dirs, run, locals, ghosts, bounds, Goto, Dies, Returns, WorkInv,
        Finishing, Preparing, Landed
<1>1. CASE AuthorPushes
  BY <1>0, <1>1, <1>l DEF AuthorPushes
<1>2. CASE Close \/ OrphanEnds \/ StartTick \/ RunAgain
  BY <1>0, <1>2, <1>l DEF Close, OrphanEnds, StartTick, RunAgain
<1>3. CASE HoursPass \/ OtherTick
  BY <1>0, <1>3 DEF HoursPass, OtherTick
<1>4. CASE OrphanWorks
  <2>1. PICK c \in BOOLEAN, e \in BOOLEAN, y \in BOOLEAN : tree' = Edited(tree, c, e, y)
    BY <1>4 DEF OrphanWorks
  <2>2. Range(tree.log) \subseteq Range(tree'.log)
    BY <2>1, EditedKeeps DEF IInv
  <2>3. UNCHANGED <<pc, work, tip, tips, spare, fetched>>
    BY <1>4 DEF OrphanWorks
  <2>4. meddled' = (pc \notin {"idle", "relock", "relockPush"})
    BY <1>4 DEF OrphanWorks
  <2>5. pc = "tip" => LandedIn(tree'.log, tips', work', meddled')
    <3>1. ASSUME pc = "tip" PROVE LandedIn(tree'.log, tips', work', meddled')
      <4>1. PICK h \in tips : IsPrefix(h, tree.log) /\ work \subseteq Range(h)
        BY <3>1 DEF LandedIn
      <4>2. IsPrefix(h, tree'.log)
        BY <2>1, <4>1, EditedPrefix DEF IInv
      <4>3. meddled'
        BY <2>4, <3>1
      <4> QED BY <2>3, <4>1, <4>2, <4>3 DEF LandedIn
    <3> QED BY <3>1
  <2>6. tip' # <<>> => LandedIn(tip', tips', work', meddled')
    <3>1. ASSUME tip' # <<>> PROVE LandedIn(tip, tips', work', meddled')
      <4>1. Landed(tip) /\ meddled' /\ work' = work
        BY <2>3, <2>4, <3>1
      <4> QED BY <4>1, <1>l
    <3> QED BY <2>3, <3>1
  <2> QED BY <1>0, <2>2, <2>3, <2>4, <2>5, <2>6
<1>5. CASE Kill \/ EndTick \/ KillSelf
  BY <1>0, <1>5 DEF Kill, EndTick, KillSelf
<1>6. CASE RelockCommits
  <2>1. Range(Append(branch, made + 1)) = Range(branch) \cup {made + 1}
    BY AppendKeeps DEF IInv
  <2>2. spare'.log = Append(branch, made + 1) /\ work' = {made + 1}
    BY <1>6 DEF RelockCommits, Clone
  <2>3. Range(spare'.log) \subseteq Published' \cup work'
    BY <1>0, <2>1, <2>2
  <2> QED BY <1>0, <1>6, <2>3 DEF RelockCommits
<1>7. CASE RelockGivesUp \/ RelockPushes \/ TakeLease
  BY <1>0, <1>7 DEF RelockGivesUp, RelockPushes, TakeLease
<1>8. CASE ReuseTree \/ DropTree \/ RefreshFails \/ CloneFails \/ NothingToFix \/ AgentFails
  BY <1>0, <1>8 DEF ReuseTree, DropTree, TakesUp, RefreshFails, CloneFails,
                    NothingToFix, AgentFails
<1>9. CASE Fetch \/ Refetch
  <2>1. fetched' = branch /\ tree'.log = tree.log
    BY <1>9 DEF Fetch, Refetch, FetchHead, IInv, Dirs
  <2> QED BY <1>0, <1>9, <2>1 DEF Fetch, Refetch, FetchHead
<1>10. CASE Checkout
  <2>1. tree'.log = fetched
    BY <1>10 DEF Checkout, Refreshed, IInv, Dirs
  <2>2. Range(tree'.log) \subseteq Published'
    BY <1>0, <1>10, <2>1 DEF Checkout
  <2> QED BY <1>0, <1>10, <2>2 DEF Checkout
<1>11. CASE MakeClone
  BY <1>0, <1>11 DEF MakeClone, Clone
<1>12. CASE StartAgent
  BY <1>0, <1>12 DEF StartAgent
<1>13. CASE AgentEnds
  <2>1. PICK c \in BOOLEAN, e \in BOOLEAN :
          /\ made' = IF c THEN made + 1 ELSE made
          /\ work' = IF c THEN {made'} ELSE {}
          /\ tree' = Edited(tree, c, e, FALSE)
    BY <1>13 DEF AgentEnds
  <2>2. /\ c => made + 1 \in Range(tree'.log)
        /\ Range(tree'.log) \subseteq Range(tree.log) \cup work'
    BY <2>1, EditedKeeps DEF IInv
  <2>3. work' \subseteq Range(tree'.log)
    BY <2>1, <2>2
  <2>4. tip' = <<>> /\ UNCHANGED meddled /\ pc = "agent" /\ pc' = "count"
    BY <1>13 DEF AgentEnds
  <2>5. meddled' \/ Range(tree'.log) \subseteq Published' \cup work'
    BY <1>0, <2>2, <2>4
  <2> QED BY <1>0, <2>3, <2>4, <2>5
<1>14. CASE CountsSome \/ CountsNone \/ KeepClean \/ FirstPushRefused
  BY <1>0, <1>14 DEF CountsSome, CountsNone, KeepClean, FirstPushRefused
<1>15. CASE FirstPush \/ Repush
  <2>1. /\ pc \in Finishing /\ pc' = "tip" /\ tip' = <<>> /\ work' = work
        /\ tree' = tree /\ tips' = tips \cup {tree.log}
    BY <1>15 DEF FirstPush, Repush, Land, Update
  <2>2. IsPrefix(tree.log, tree.log)
    BY PrefixReflexive DEF IInv, Dirs
  <2>3. LandedIn(tree'.log, tips', work', meddled')
    BY <2>1, <2>2 DEF LandedIn
  <2> QED BY <1>0, <2>1, <2>3
<1>16. CASE Rebase
  <2>1. /\ Range(tree.log) \subseteq Range(Replayed(tree.log))
        /\ Range(Replayed(tree.log)) \subseteq Range(fetched) \cup Range(tree.log)
    BY ReplayedKeeps DEF IInv, Dirs
  <2>2. tree'.log = Replayed(tree.log)
    BY <1>16 DEF Rebase, IInv, Dirs
  <2>3. /\ pc = "rebase" /\ pc' = "repush" /\ tip' = <<>>
        /\ UNCHANGED <<work, meddled>>
    BY <1>16 DEF Rebase
  <2>4. work' \subseteq Range(tree'.log)
    BY <2>1, <2>2, <2>3
  <2>5. meddled' \/ Range(tree'.log) \subseteq Published' \cup work'
    BY <1>0, <2>1, <2>2, <2>3
  <2> QED BY <1>0, <2>3, <2>4, <2>5
<1>17. CASE ReadTip
  <2>1. /\ pc = "tip" /\ pc' = "gates" /\ UNCHANGED <<work, meddled>>
        /\ tip' = tree.log \/ tip' = <<>>
    BY <1>17 DEF ReadTip
  <2>2. LandedIn(tree.log, tips', work', meddled')
    BY <2>1, <1>l
  <2>3. tip' # <<>> => LandedIn(tip', tips', work', meddled')
    BY <2>1, <2>2 DEF LandedIn
  <2> QED BY <1>0, <2>1, <2>3
<1>18. CASE RebaseFails \/ RepushRefused
  BY <1>0, <1>18 DEF RebaseFails, RepushRefused, PushRefused
<1>19. CASE UNCHANGED vars
  BY <1>0, <1>l, <1>19 DEF vars
<1> QED BY <1>1, <1>2, <1>3, <1>4, <1>5, <1>6, <1>7, <1>8, <1>9, <1>10, <1>11, <1>12,
           <1>13, <1>14, <1>15, <1>16, <1>17, <1>18, <1>19 DEF Next, Tick

LEMMA WorkInvariant == Spec => []WorkInv
<1>1. Init => WorkInv
  BY DEF Init, WorkInv, Finishing, Preparing
<1> QED BY <1>1, Invariant, WorkStep, PTL DEF Spec

\* The tip runAiFix returns to be recorded as fixed is a head the branch has had,
\* with every commit the agent made in that run, also when the branch had moved and
\* the commits were replayed on it; what the agent of a killed worker committed
\* meanwhile may be on top.
THEOREM RecordsTheWork == Spec => []TipIsTheWork
<1>1. WorkInv => TipIsTheWork
  BY DEF WorkInv, TipIsTheWork, Landed, LandedIn
<1> QED BY <1>1, WorkInvariant, PTL

LEMMA StepPublishesOwn ==
  WorkInv /\ [Next]_vars =>
    (pc' # pc => meddled \/ Range(branch') \subseteq Published \cup work)
<1> SUFFICES ASSUME WorkInv, Next, pc' # pc
             PROVE  meddled \/ Range(branch') \subseteq Published \cup work
  BY DEF vars, run
<1>1. ~AuthorPushes
  BY DEF AuthorPushes
<1>2. Pushed \/ branch' = branch
  BY <1>1, TickBranch
<1> QED BY <1>2, PublishedHas DEF Pushed, WorkInv, Finishing

\* What the worker adds to a branch has been on it or was made in the run that
\* pushes: nothing a killed run left in the clone is published by a later one,
\* unless its agent is still at work there.
THEOREM PublishesItsOwnWork == Spec => OnlyThisRunsWork
<1> QED BY WorkInvariant, StepPublishesOwn, PTL DEF Spec, OnlyThisRunsWork
=============================================================================
