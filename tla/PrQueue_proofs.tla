---------------------------- MODULE PrQueue_proofs ----------------------------
(***************************************************************************)
(* The safety of the walk over the open PRs, for any PRs, repositories,    *)
(* reviews, pages and thresholds and any number of ticks and kills.        *)
(***************************************************************************)
EXTENDS PrQueue, FiniteSetTheorems, TLAPS

(* What safety.ts concludes from a rendered answer, for every answer.         *)

\* A security concern that is read as text blocks, whatever else the review
\* says and however small the change is (safety.ts:236-237).
THEOREM ConcernBlocks ==
  \A a \in Answers : a.security = "reported" => ~Safe(a)
BY DEF Answers, Readings, Safe, SecurityVerdict, SecurityRow, IsValueNo, Detail, Negated

\* A review that found nothing never blocks, not even on a large change.
THEOREM NothingFoundPasses ==
  \A a \in Answers :
    a.security = "none" /\ a.issues = "none" /\ ~a.error => Safe(a)
<1> SUFFICES ASSUME NEW a \in Answers,
                    a.security = "none", a.issues = "none", ~a.error
             PROVE Safe(a)
  OBVIOUS
<1>1. SecurityVerdict(a) = "clear"
  BY DEF SecurityVerdict, SecurityRow, IsValueNo
<1>2. IssuesVerdict(a) = "clear"
  BY DEF IssuesVerdict, IssuesRow, Detail, Negated
<1>3. a.effort \in Int
  BY DEF Answers
<1> QED BY <1>1, <1>2, <1>3 DEF Safe, Score

\* The verdict is monotone: of two answers that are read for what they say, the
\* worse one is never let through where the better one is held back. This ties
\* the points of the three rows together, which are given one by one.
THEOREM Monotone ==
  \A a, b \in Answers :
    Plain(a) /\ Plain(b) /\ AtLeastAsBad(a, b) /\ Safe(a) => Safe(b)
<1> SUFFICES ASSUME NEW a \in Answers, NEW b \in Answers,
                    Plain(a), Plain(b), AtLeastAsBad(a, b), Safe(a)
             PROVE Safe(b)
  OBVIOUS
<1>1. /\ a.effort \in Int /\ b.effort \in Int
      /\ a.security \in {"absent", "none", "reported"}
      /\ b.security \in {"absent", "none", "reported"}
      /\ a.issues \in {"absent", "none", "reported"}
      /\ b.issues \in {"absent", "none", "reported"}
  <2>1. \A c \in {a, b} : /\ c.security \notin {"denied", "headed"}
                         /\ c.issues \notin {"denied", "headed"}
    BY DEF Plain
  <2> QED BY <2>1 DEF Answers, Readings
<1>2. \A c \in {a, b} :
        SecurityVerdict(c) = IF c.security = "absent" THEN "absent"
                             ELSE IF c.security = "none" THEN "clear" ELSE "concern"
  BY <1>1 DEF SecurityVerdict, SecurityRow, IsValueNo, Detail, Negated
<1>3. \A c \in {a, b} :
        IssuesVerdict(c) = IF c.issues = "absent" THEN "absent"
                           ELSE IF c.issues = "none" THEN "clear" ELSE "reported"
  BY <1>1 DEF IssuesVerdict, IssuesRow, Detail, Negated
<1>4. a.security \in {"absent", "none"} /\ b.security \in {"absent", "none"}
  BY <1>1, <1>2 DEF Safe, AtLeastAsBad, Badness
<1>5. Score(a) <= Score(b)
  <2>1. (IF SecurityVerdict(a) = "clear" THEN 2 ELSE 0)
          <= (IF SecurityVerdict(b) = "clear" THEN 2 ELSE 0)
    BY <1>1, <1>2, <1>4 DEF AtLeastAsBad, Badness
  <2>2. (IF IssuesVerdict(a) = "clear" THEN 2 ELSE -1)
          <= (IF IssuesVerdict(b) = "clear" THEN 2 ELSE -1)
    BY <1>1, <1>3 DEF AtLeastAsBad, Badness
  <2>3. (IF a.effort >= 4 THEN -1 ELSE 1) <= (IF b.effort >= 4 THEN -1 ELSE 1)
    BY <1>1 DEF AtLeastAsBad
  <2> QED BY <2>1, <2>2, <2>3 DEF Score
<1>6. Score(a) \in Int /\ Score(b) \in Int
  BY DEF Score
<1> QED BY <1>2, <1>4, <1>5, <1>6 DEF Safe, AtLeastAsBad

----------------------------------------------------------------------------

\* The steps of a PR's turn, and the PR they are about.
Turn == {"pin", "registry", "evidence", "ci", "review", "work"}

TurnOK ==
  /\ seen \in [DOMAIN seen -> Heads]
  /\ pc = "write" => then \in {"next", "evidence", "idle"}
  /\ pc \in Turn \/ (pc = "write" /\ then = "evidence") =>
       cur.pr \in PRs /\ cur.head \in Heads

\* A refusal in `state` is of a head that lacked a member.
Judged(state) ==
  \A p \in PRs : state[p].bad # None => <<p, state[p].bad>> \in wasAbsent

\* What is missing now was missing at first, and the refusals of the file and of
\* the copy processPr works on are judged on that: the next save writes the copy.
EvidenceInv ==
  /\ absent \subseteq wasAbsent /\ absent \subseteq Bumps \X Heads
  /\ Judged(Load) /\ Judged(mem)

\* The agent and the merge are reached with a review in hand, a green
\* dependabot PR excepted.
ReviewInv ==
  /\ pc = "work" => byCi \/ found \in Reviews \cup {NoCode}
  /\ MergedOnCleanReview

IInv == TypeOK /\ TurnOK /\ EvidenceInv /\ ReviewInv

Rec == [bad : Heads \cup {None}, pin : Heads \cup {None}]

LEMMA TypeUse ==
  ASSUME TypeOK
  PROVE  /\ open \subseteq PRs /\ head \in [PRs -> Heads]
         /\ guide \in [PRs -> Reviews \cup {NoReview}] /\ marked \subseteq PRs
         /\ file \in {Torn} \cup [PRs -> Rec] /\ mem \in [PRs -> Rec]
         /\ DOMAIN seen \subseteq PRs /\ todo \subseteq DOMAIN seen
BY DEF TypeOK, Rec

LEMMA EmptyType == Empty \in [PRs -> Rec]
BY DEF Empty, Blank, Rec

LEMMA LoadType == TypeOK => Load \in [PRs -> Rec]
BY EmptyType, TypeUse DEF Load

LEMMA EmptyJudged == Judged(Empty)
BY DEF Judged, Empty, Blank

----------------------------------------------------------------------------
LEMMA InitEstablishes == Init => IInv
<1> SUFFICES ASSUME Init PROVE IInv
  OBVIOUS
<1>1. Empty \in [PRs -> Rec] /\ 0 \in Heads
  BY QueueAssumption, EmptyType DEF Heads
<1>2. TypeOK
  BY <1>1 DEF Init, TypeOK, Nobody, Rec
<1>3. TurnOK
  BY DEF Init, TurnOK, Nobody, Turn
<1>4. EvidenceInv
  <2>1. Load = Empty /\ mem = Empty
    BY DEF Init, Load
  <2>2. QED
    BY <2>1, EmptyJudged DEF Init, EvidenceInv
<1>5. ReviewInv
  BY DEF Init, ReviewInv, MergedOnCleanReview
<1>6. QED
  BY <1>2, <1>3, <1>4, <1>5 DEF IInv

----------------------------------------------------------------------------
\* The file and the copy of it are left alone.
Unwritten == file' = file /\ mem' \in {mem, Empty, Load}

LEMMA EvidenceKept ==
  ASSUME IInv, Unwritten, absent' \subseteq absent, wasAbsent' = wasAbsent
  PROVE  EvidenceInv'
<1>1. Load' = Load
  BY DEF Unwritten, Load
<1>2. Judged(Load) /\ Judged(mem) /\ Judged(Empty)
  BY EmptyJudged DEF IInv, EvidenceInv
<1>3. Judged(Load)' /\ Judged(mem)'
  BY <1>1, <1>2 DEF Unwritten, Judged
<1>4. QED
  BY <1>3 DEF IInv, EvidenceInv

LEMMA ReviewKept ==
  ASSUME IInv, merges' = merges,
         pc' = "work" => (pc = "work" /\ byCi' = byCi /\ found' = found)
  PROVE  ReviewInv'
BY DEF IInv, ReviewInv, MergedOnCleanReview

\* The world: authors, npm, GitHub's users.
LEMMA WorldPreserves == ASSUME IInv, World PROVE IInv'
<1>1. /\ UNCHANGED <<file, worker, ghosts>>
      /\ absent' \subseteq absent
  BY DEF World, AuthorPushes, CloseOrReopen, Publish, Chat, ReviewPosted, NoCodeNoted, Quiet, github
<1>2. /\ open' \subseteq PRs /\ head' \in [PRs -> Heads]
      /\ guide' \in [PRs -> Reviews \cup {NoReview}] /\ marked' \subseteq PRs
  <2> USE TypeUse DEF IInv
  <2>1. ASSUME NEW p \in PRs, AuthorPushes(p) PROVE <1>2
    <3>1. head[p] \in Heads /\ head[p] < MaxHead
      BY <2>1 DEF AuthorPushes
    <3>2. head[p] + 1 \in Heads
      BY <3>1, QueueAssumption DEF Heads
    <3>3. QED
      BY <2>1, <3>2 DEF AuthorPushes
  <2>2. ASSUME NEW p \in PRs, CloseOrReopen(p) PROVE <1>2
    BY <2>2 DEF CloseOrReopen
  <2>3. ASSUME NEW x \in absent, Publish(x) PROVE <1>2
    BY <2>3 DEF Publish, github
  <2>4. ASSUME NEW p \in PRs, Chat(p) PROVE <1>2
    BY <2>4 DEF Chat
  <2>5. ASSUME NEW p \in PRs, ReviewPosted(p) PROVE <1>2
    BY <2>5 DEF ReviewPosted
  <2>6. ASSUME NEW p \in PRs, NoCodeNoted(p) PROVE <1>2
    BY <2>6 DEF NoCodeNoted
  <2>7. QED
    BY <2>1, <2>2, <2>3, <2>4, <2>5, <2>6, QueueAssumption DEF World
<1>3. TypeOK' /\ TurnOK'
  BY <1>1, <1>2 DEF IInv, TypeOK, TurnOK, worker
<1>4. EvidenceInv'
  BY <1>1, EvidenceKept DEF Unwritten, worker, ghosts
<1>5. ReviewInv'
  BY <1>1, ReviewKept DEF worker, ghosts
<1>6. QED
  BY <1>3, <1>4, <1>5 DEF IInv

\* The end of a turn and the end of a tick.
LEMMA LeavePreserves ==
  ASSUME IInv, Leave \/ Stop, file' = file \/ (pc = "write" /\ file' = mem),
         open' \subseteq PRs, head' \in [PRs -> Heads], guide' = guide, marked' = marked,
         absent' = absent, wasAbsent' = wasAbsent
  PROVE  TypeOK' /\ TurnOK' /\ EvidenceInv' /\ (merges' = merges => ReviewInv')
<1>1. pc' \in {"next", "idle"} /\ mem' = Empty /\ then' = "idle"
  BY DEF Leave, Stop
<1>2. (seen' = seen /\ todo' = todo) \/ (seen' = Nobody /\ todo' = {})
  BY DEF Leave, Stop
<1>3. Empty \in [PRs -> Rec]
  BY EmptyType
<1>4. TypeOK'
  BY <1>1, <1>2, <1>3, TypeUse DEF IInv, TypeOK, Nobody, Rec
<1>5. TurnOK'
  BY <1>1, <1>2 DEF IInv, TurnOK, Nobody, Turn
<1>6. EvidenceInv'
  <2>1. Judged(Load) /\ Judged(mem) /\ Judged(Empty)
    BY EmptyJudged DEF IInv, EvidenceInv
  <2>2. Load' \in {Load, mem, Empty}
    BY DEF Load
  <2>3. Judged(Load)' /\ Judged(mem)'
    BY <2>1, <2>2, <1>1 DEF Judged
  <2>4. QED
    BY <2>3 DEF IInv, EvidenceInv
<1>7. merges' = merges => ReviewInv'
  BY <1>1, ReviewKept
<1>8. QED
  BY <1>4, <1>5, <1>6, <1>7

----------------------------------------------------------------------------
\* What a save writes: the truncated file and the copy to be written.
LEMMA SavePreserves ==
  ASSUME IInv, NEW state, NEW next, Save(state, next),
         state \in [PRs -> Rec], Judged(state), next \in {"next", "evidence", "idle"},
         next = "evidence" => pc \in Turn,
         open' \subseteq PRs, head' \in [PRs -> Heads], guide' = guide, marked' = marked,
         absent' = absent, wasAbsent' = wasAbsent, merges' = merges
  PROVE  IInv'
<1>1. pc' = "write" /\ then' = next /\ mem' = state /\ file' = Torn
      /\ UNCHANGED <<seen, todo, cur>>
  BY DEF Save
<1>2. TypeOK'
  BY <1>1, TypeUse DEF IInv, TypeOK, Rec
<1>3. TurnOK'
  BY <1>1 DEF IInv, TurnOK, Turn
<1>4. EvidenceInv'
  <2>1. Load' = Empty
    BY <1>1 DEF Load
  <2>2. Judged(Load)' /\ Judged(mem)'
    BY <1>1, <2>1, EmptyJudged DEF Judged
  <2>3. QED
    BY <2>2 DEF IInv, EvidenceInv
<1>5. ReviewInv'
  BY <1>1, ReviewKept
<1>6. QED
  BY <1>2, <1>3, <1>4, <1>5 DEF IInv

\* A step from one point of the tick to another.
LEMMA MovePreserves ==
  ASSUME IInv, UNCHANGED <<open, head, guide, marked, absent, wasAbsent, merges, file>>,
         pc' \in Turn \cup {"idle", "next"}, pc' # "work",
         DOMAIN seen' \subseteq PRs, todo' \subseteq DOMAIN seen',
         seen' \in [DOMAIN seen' -> Heads],
         pc' \in Turn => cur'.pr \in PRs /\ cur'.head \in Heads,
         mem' \in {mem, Empty, Load}
  PROVE  IInv'
<1>1. mem' \in [PRs -> Rec]
  BY LoadType, EmptyType, TypeUse DEF IInv
<1>2. TypeOK'
  BY <1>1, TypeUse DEF IInv, TypeOK, Rec, Turn
<1>3. TurnOK'
  BY DEF IInv, TurnOK, Turn
<1>4. EvidenceInv'
  BY EvidenceKept DEF Unwritten
<1>5. ReviewInv'
  BY ReviewKept
<1>6. QED
  BY <1>2, <1>3, <1>4, <1>5 DEF IInv

----------------------------------------------------------------------------
(* One lemma for the actions of the tick, one for those of a PR's turn.    *)

LEMMA TickPreserves ==
  ASSUME IInv, StartTick \/ StartPr \/ EndTick \/ Written
  PROVE  IInv'
<1> USE TypeUse DEF IInv
<1>1. CASE StartTick
  <2>1. PICK S \in SUBSET open :
          /\ seen' = [p \in S |-> head[p]] /\ todo' = S
          /\ pc' = "next" /\ mem' = mem
          /\ UNCHANGED <<open, head, guide, marked, absent, wasAbsent, merges, file>>
    BY <1>1 DEF StartTick, github
  <2>2. DOMAIN seen' = S /\ seen' \in [S -> Heads]
    BY <2>1
  <2>3. QED
    BY <2>1, <2>2, MovePreserves DEF Turn
<1>2. CASE StartPr
  <2>1. /\ UNCHANGED <<open, head, guide, marked, absent, wasAbsent, merges, file>>
        /\ seen' = seen /\ pc = "next"
    BY <1>2 DEF StartPr, github, ghosts
  <2>2. PICK p \in todo :
          /\ todo' = todo \ {p}
          /\ \/ pc' = "next" /\ mem' = mem
             \/ /\ cur' = [pr |-> p, head |-> seen[p]] /\ mem' = Load
                /\ pc' \in {"pin", "registry", "review"}
    BY <1>2, <2>1 DEF StartPr
  <2>3. p \in PRs /\ seen[p] \in Heads
    BY DEF TurnOK
  <2>4. /\ todo' \subseteq DOMAIN seen' /\ seen' \in [DOMAIN seen' -> Heads]
        /\ DOMAIN seen' \subseteq PRs
    BY <2>1, <2>2 DEF TurnOK
  <2>5. /\ pc' \in {"next", "pin", "registry", "review"} /\ mem' \in {mem, Empty, Load}
        /\ pc' \in Turn => cur'.pr \in PRs /\ cur'.head \in Heads
    BY <2>2, <2>3 DEF Turn
  <2>6. QED
    BY <2>1, <2>4, <2>5, MovePreserves DEF Turn
<1>3. CASE EndTick
  <2>1. /\ UNCHANGED <<open, head, guide, marked, absent, wasAbsent, merges>>
        /\ (Stop /\ file' = file) \/ Save(Pruned(Load), "idle")
    BY <1>3 DEF EndTick, github, ghosts
  <2>2. CASE Stop /\ file' = file
    BY <2>1, <2>2, LeavePreserves
  <2>3. CASE Save(Pruned(Load), "idle")
    <3>1. Pruned(Load) \in [PRs -> Rec]
      BY LoadType DEF Pruned, Blank, Rec
    <3>2. Judged(Pruned(Load))
      BY DEF Pruned, Judged, Blank, EvidenceInv
    <3>3. QED
      BY <2>1, <2>3, <3>1, <3>2, SavePreserves
  <2>4. QED
    BY <2>1, <2>2, <2>3
<1>4. CASE Written
  <2>1. /\ UNCHANGED <<open, head, guide, marked, absent, wasAbsent, merges>>
        /\ pc = "write" /\ file' = mem
        /\ then \in {"next", "idle", "evidence"}
    BY <1>4 DEF Written, github, TurnOK
  <2>2. CASE then \in {"next", "idle"}
    <3>1. Leave \/ Stop
      BY <1>4, <2>2 DEF Written
    <3>2. QED
      BY <2>1, <3>1, LeavePreserves
  <2>3. CASE then = "evidence"
    <3>1. pc' = "evidence" /\ UNCHANGED <<seen, todo, cur, mem>>
      BY <1>4, <2>3 DEF Written, Goto
    <3>2. TypeOK'
      BY <2>1, <3>1 DEF TypeOK
    <3>3. TurnOK'
      BY <2>1, <2>3, <3>1 DEF TurnOK, Turn
    <3>4. EvidenceInv'
      <4>1. Load' \in {mem, Empty}
        BY <2>1 DEF Load
      <4>2. Judged(Load)' /\ Judged(mem)'
        BY <2>1, <3>1, <4>1, EmptyJudged DEF Judged, EvidenceInv
      <4>3. QED
        BY <2>1, <4>2 DEF EvidenceInv
    <3>5. ReviewInv'
      BY <2>1, <3>1, ReviewKept
    <3>6. QED
      BY <3>2, <3>3, <3>4, <3>5
  <2>4. QED
    BY <2>1, <2>2, <2>3
<1>5. QED
  BY <1>1, <1>2, <1>3, <1>4

LEMMA TurnPreserves ==
  ASSUME IInv, PinClose \/ BumpGuard \/ Evidence \/ DependabotCi \/ Review
  PROVE  IInv'
<1> USE TypeUse DEF IInv
<1>1. CASE PinClose
  BY <1>1, LeavePreserves DEF PinClose, ghosts
<1>2. CASE BumpGuard
  <2>1. /\ UNCHANGED <<open, head, guide, marked, absent, wasAbsent, merges>>
        /\ pc = "registry" /\ cur.pr \in PRs /\ cur.head \in Heads
    BY <1>2 DEF BumpGuard, github, ghosts, TurnOK, Turn
  <2>2. PICK missing \in Missing(Here) :
          IF missing THEN Save(markBadBump(mem), "evidence")
          ELSE Goto("ci") /\ UNCHANGED file
    BY <1>2 DEF BumpGuard
  <2>3. CASE missing
    <3>1. Here \in wasAbsent
      BY <2>2, <2>3 DEF Missing, EvidenceInv
    <3>2. markBadBump(mem) \in [PRs -> Rec]
      BY <2>1 DEF markBadBump, Rec
    <3>3. Judged(markBadBump(mem))
      <4> SUFFICES ASSUME NEW p \in PRs, markBadBump(mem)[p].bad # None
                   PROVE <<p, markBadBump(mem)[p].bad>> \in wasAbsent
        BY DEF Judged
      <4>1. CASE p = cur.pr
        <5>1. markBadBump(mem)[p].bad = cur.head
          BY <2>1, <4>1 DEF markBadBump, Rec
        <5>2. QED
          BY <3>1, <4>1, <5>1 DEF Here
      <4>2. CASE p # cur.pr
        BY <4>2 DEF markBadBump, EvidenceInv, Judged
      <4>3. QED
        BY <4>1, <4>2
    <3>4. QED
      BY <2>1, <2>2, <2>3, <3>2, <3>3, SavePreserves DEF Turn
  <2>4. CASE ~missing
    <3>1. /\ pc' = "ci" /\ file' = file /\ UNCHANGED <<seen, todo, cur, mem>>
      BY <2>2, <2>4 DEF Goto
    <3>2. QED
      BY <2>1, <3>1, MovePreserves DEF TypeOK, TurnOK, Turn
  <2>5. QED
    BY <2>3, <2>4
<1>3. CASE Evidence
  BY <1>3, LeavePreserves DEF Evidence
<1>4. CASE DependabotCi
  <2>1. /\ UNCHANGED <<open, head, guide, marked, absent, wasAbsent, merges, file>>
        /\ UNCHANGED <<seen, todo, cur, mem>>
        /\ pc = "ci" /\ ((byCi' /\ pc' = "work") \/ pc' = "review")
    BY <1>4 DEF DependabotCi, github, ghosts
  <2>2. TypeOK' /\ TurnOK'
    BY <2>1 DEF TypeOK, TurnOK, Turn
  <2>3. EvidenceInv'
    BY <2>1, EvidenceKept DEF Unwritten
  <2>4. ReviewInv'
    BY <2>1 DEF ReviewInv, MergedOnCleanReview
  <2>5. QED
    BY <2>2, <2>3, <2>4
<1>5. CASE Review
  <2>1. UNCHANGED <<open, head, guide, marked, absent, wasAbsent, merges, file>> /\ pc = "review"
    BY <1>5 DEF Review, github, ghosts
  <2>2. CASE Leave
    BY <2>1, <2>2, LeavePreserves
  <2>3. CASE ~Leave
    <3>0. PICK r \in ReviewRead(cur.pr) :
            r # NoReview /\ found' = r /\ pc' = "work" /\ UNCHANGED <<seen, todo, cur, mem>>
      BY <1>5, <2>3 DEF Review
    <3>1. pc' = "work" /\ UNCHANGED <<seen, todo, cur, mem>>
      BY <3>0
    <3>2. found' \in Reviews \cup {NoCode}
      BY <2>1, <3>0 DEF ReviewRead, GuideFound, TurnOK, Turn
    <3>3. TypeOK' /\ TurnOK'
      BY <2>1, <3>1 DEF TypeOK, TurnOK, Turn
    <3>4. EvidenceInv'
      BY <2>1, <3>1, EvidenceKept DEF Unwritten
    <3>5. ReviewInv'
      BY <2>1, <3>2 DEF ReviewInv, MergedOnCleanReview
    <3>6. QED
      BY <3>3, <3>4, <3>5
  <2>4. QED
    BY <2>2, <2>3
<1>6. QED
  BY <1>1, <1>2, <1>3, <1>4, <1>5

\* The agent, its pin, its push and the merge.
LEMMA WorkPreserves == ASSUME IInv, Work PROVE IInv'
<1> USE TypeUse DEF IInv
<1>1. /\ UNCHANGED <<guide, marked, absent, wasAbsent>>
      /\ pc = "work" /\ cur.pr \in PRs /\ cur.head \in Heads
  BY DEF Work, Agent, TurnOK, Turn
<1>2. CASE MayMerge /\ Leave /\ UNCHANGED <<head, file>>
           /\ open' = open \ {cur.pr}
           /\ merges' = merges \cup {[pr |-> cur.pr, review |-> found, byCi |-> byCi]}
  <2>1. TypeOK' /\ TurnOK' /\ EvidenceInv'
    BY <1>1, <1>2, LeavePreserves
  <2>2. byCi \/ found.security # "reported"
    <3>1. byCi \/ (found \in Answers /\ Safe(found)) \/ found = NoCode
      BY <1>1, <1>2, QueueAssumption DEF MayMerge, ReviewInv
    <3>2. NoCode.security # "reported"
      BY DEF NoCode
    <3>3. QED
      BY <3>1, <3>2, ConcernBlocks
  <2>3. MergedOnCleanReview'
    BY <1>2, <2>2 DEF ReviewInv, MergedOnCleanReview
  <2>4. pc' = "next"
    BY <1>2 DEF Leave
  <2>5. QED
    BY <2>1, <2>3, <2>4 DEF ReviewInv
<1>3. CASE Save(Pinned(mem), "next") /\ UNCHANGED <<open, merges, head>>
  <2>1. Pinned(mem) \in [PRs -> Rec]
    BY <1>1 DEF Pinned, Rec
  <2>2. \A p \in PRs : Pinned(mem)[p].bad = mem[p].bad
    BY <1>1 DEF Pinned, Rec
  <2>3. Judged(Pinned(mem))
    BY <2>2 DEF Judged, EvidenceInv
  <2>4. QED
    BY <1>1, <1>3, <2>1, <2>3, SavePreserves
<1>4. CASE /\ Leave /\ UNCHANGED <<open, merges, file>>
           /\ head' = [head EXCEPT ![cur.pr] = IF @ < MaxHead THEN @ + 1 ELSE @]
  <2>1. head' \in [PRs -> Heads]
    <3>1. \A h \in Heads : (IF h < MaxHead THEN h + 1 ELSE h) \in Heads
      BY QueueAssumption DEF Heads
    <3>2. QED
      BY <1>1, <1>4, <3>1
  <2>2. QED
    BY <1>1, <1>4, <2>1, LeavePreserves
<1>5. CASE Leave /\ UNCHANGED <<open, merges, head, file>>
  BY <1>1, <1>5, LeavePreserves
<1>6. QED
  BY <1>2, <1>3, <1>4, <1>5 DEF Work, Agent

LEMMA KillPreserves == ASSUME IInv, Kill PROVE IInv'
BY LeavePreserves, TypeUse DEF IInv, Kill, github

LEMMA StepPreserves == IInv /\ [Next]_vars => IInv'
<1> SUFFICES ASSUME IInv, [Next]_vars PROVE IInv'
  OBVIOUS
<1>1. CASE World
  BY <1>1, WorldPreserves
<1>2. CASE Worker
  BY <1>2, TickPreserves, TurnPreserves, WorkPreserves DEF Worker
<1>3. CASE Kill
  BY <1>3, KillPreserves
<1>4. CASE UNCHANGED vars
  <2>1. UNCHANGED <<open, head, guide, marked, absent, file, pc, seen, todo, cur, mem, found,
                    byCi, then, merges, wasAbsent>>
    BY <1>4 DEF vars, github, worker, ghosts
  <2>2. Load' = Load
    BY <2>1 DEF Load
  <2>3. QED
    BY <2>1, <2>2 DEF IInv, TypeOK, TurnOK, EvidenceInv, Judged, ReviewInv,
                      MergedOnCleanReview
<1>5. QED
  BY <1>1, <1>2, <1>3, <1>4 DEF Next

----------------------------------------------------------------------------
\* The inductive invariant holds of every behaviour of the worker and the world.
THEOREM Invariant == Spec => []IInv
BY InitEstablishes, StepPreserves, PTL DEF Spec

\* The heads, the guide and both copies of the fix state stay of their types,
\* and the PRs of a tick are among those it has seen.
THEOREM TypeCorrect == Spec => []TypeOK
<1>1. IInv => TypeOK
  BY DEF IInv
<1>2. QED
  BY <1>1, Invariant, PTL

\* No failed read of the registry and no mix-up of PRs or heads refuses a bump
\* that is good, whatever is torn, pruned or killed on the way (bump-guard.ts,
\* state.ts): the refusals in the file and in the copy are judged on evidence.
THEOREM RefusedOnEvidence == Spec => []JudgedOnEvidence
<1>1. IInv => JudgedOnEvidence
  BY DEF IInv, EvidenceInv, Judged, JudgedOnEvidence
<1>2. QED
  BY <1>1, Invariant, PTL

\* Nothing but a green dependabot PR is merged on a review that reports a
\* security concern, for any reviews the model may write at any time.
THEOREM MergesCleanReviews == Spec => []MergedOnCleanReview
<1>1. IInv => MergedOnCleanReview
  BY DEF IInv, ReviewInv
<1>2. QED
  BY <1>1, Invariant, PTL

----------------------------------------------------------------------------
(* Why a settled head stays settled. The argument is about the record of a PR *)
(* in the file, or in the copy that is being written to it.                   *)

Kept == IF pc = "write" THEN mem ELSE Load

\* The steps at which the evidence is posted or about to be.
Accusing == pc = "evidence" \/ (pc = "write" /\ then = "evidence")

\* No record is ahead of the branch `hd`, nor of the head in the scan `sn`.
Behind(state, hd, sn) ==
  \A p \in PRs :
    /\ state[p].bad <= hd[p] /\ state[p].pin <= hd[p]
    /\ p \in DOMAIN sn => state[p].bad <= sn[p] /\ state[p].pin <= sn[p]

HeadsInv ==
  /\ \A p \in DOMAIN seen : seen[p] <= head[p]
  /\ Behind(Load, head, seen) /\ Behind(mem, head, seen)

\* Nobody else writes the file during a turn, which is about the head the scan saw.
CopyInv ==
  /\ pc \in Turn => mem = Load
  /\ pc = "write" => file = Torn
  /\ pc \in Turn \/ Accusing => cur.pr \in DOMAIN seen /\ cur.head = seen[cur.pr]

\* The guards a turn has passed: its head was not on record when it began.
PassedInv ==
  /\ pc \in {"registry", "ci", "review", "work"} => mem[cur.pr].bad # cur.head
  /\ pc = "work" /\ ~byCi => mem[cur.pr].pin # cur.head
  /\ pc = "registry" => cur.pr \in Bumps
  /\ Accusing => /\ cur.pr \in Bumps /\ mem[cur.pr].bad = cur.head
                 /\ told[Here] = 0 \/ cur.pr \in excused

\* A head on record once is on record still, or behind one that is.
SettledInv ==
  \A x \in settled :
    \/ x[1] \in excused
    \/ x[2] <= Kept[x[1]].bad
    \/ x[2] <= Kept[x[1]].pin

ToldInv ==
  \A x \in Bumps \X Heads : told[x] = 0 \/ x[1] \in excused \/ x[2] <= Kept[x[1]].bad

RecordInv == SettledInv /\ ToldInv /\ EvidenceOnce /\ SettledStaysSettled

\* A scan that is long enough to prune excuses every PR it does not have.
GhostsOK ==
  /\ settled \subseteq PRs \X Heads
  /\ told \in [Bumps \X Heads -> Nat]
  /\ wasAbsent \subseteq Bumps \X Heads /\ excused \subseteq PRs
  /\ Cardinality(DOMAIN seen) > Threshold => PRs \ DOMAIN seen \subseteq excused

OnceInv == HeadsInv /\ CopyInv /\ PassedInv /\ RecordInv /\ GhostsOK

LEMMA HeadsNat == Heads \subseteq Nat /\ None \notin Heads
BY QueueAssumption DEF Heads, None

LEMMA RecInt ==
  ASSUME NEW state \in [PRs -> Rec], NEW p \in PRs
  PROVE  state[p].bad \in Int /\ state[p].pin \in Int
<1>1. \A x \in Heads \cup {None} : x \in Int
  BY HeadsNat DEF None
<1>2. state[p] \in Rec
  OBVIOUS
<1>3. state[p].bad \in Heads \cup {None} /\ state[p].pin \in Heads \cup {None}
  BY <1>2 DEF Rec
<1> QED
  BY <1>1, <1>3

\* A complete file is read as it was written.
LEMMA LoadOf ==
  ASSUME NEW state \in [PRs -> Rec]
  PROVE  (IF state = Torn THEN Empty ELSE state) = state
<1>1. CASE state = Torn
  <2>1. DOMAIN state = {}
    BY <1>1 DEF Torn
  <2>2. PRs = {} /\ Empty = state
    BY <2>1 DEF Empty
  <2> QED
    BY <2>2
<1> QED
  BY <1>1

LEMMA BehindStays ==
  ASSUME NEW state \in [PRs -> Rec], NEW h1 \in [PRs -> Heads], NEW h2 \in [PRs -> Heads],
         \A p \in PRs : h1[p] <= h2[p],
         NEW s1, NEW s2, s2 = s1 \/ DOMAIN s2 = {},
         Behind(state, h1, s1)
  PROVE  Behind(state, h2, s2)
<1> SUFFICES ASSUME NEW p \in PRs
             PROVE  /\ state[p].bad <= h2[p] /\ state[p].pin <= h2[p]
                    /\ p \in DOMAIN s2 => state[p].bad <= s2[p] /\ state[p].pin <= s2[p]
  BY DEF Behind
<1>1. state[p].bad \in Int /\ state[p].pin \in Int /\ h1[p] \in Int /\ h2[p] \in Int
  BY RecInt, HeadsNat
<1>2. state[p].bad <= h1[p] /\ state[p].pin <= h1[p] /\ h1[p] <= h2[p]
  BY DEF Behind
<1>3. p \in DOMAIN s2 => state[p].bad <= s2[p] /\ state[p].pin <= s2[p]
  BY DEF Behind
<1> QED
  BY <1>1, <1>2, <1>3

LEMMA EmptyBehind ==
  ASSUME NEW hd \in [PRs -> Heads], NEW sn, sn \in [DOMAIN sn -> Heads]
  PROVE  Behind(Empty, hd, sn)
<1> SUFFICES ASSUME NEW p \in PRs
             PROVE  /\ None <= hd[p]
                    /\ p \in DOMAIN sn => None <= sn[p]
  BY DEF Behind, Empty, Blank
<1>1. \A h \in Heads : None <= h
  BY HeadsNat DEF None
<1> QED
  BY <1>1

\* A turn's head is one the agent may not have been at: nothing kept reaches it.
LEMMA NotReached ==
  ASSUME NEW a \in Int, NEW h \in Int, a <= h, a # h
  PROVE  ~(h <= a)
OBVIOUS

LEMMA RecordKept ==
  ASSUME OnceInv, Kept' = Kept, UNCHANGED <<settled, told, again>>, excused \subseteq excused'
  PROVE  RecordInv'
<1>1. SettledInv'
  BY DEF OnceInv, RecordInv, SettledInv
<1>2. ToldInv'
  BY DEF OnceInv, RecordInv, ToldInv
<1>3. EvidenceOnce' /\ SettledStaysSettled'
  BY DEF OnceInv, RecordInv, EvidenceOnce, SettledStaysSettled
<1> QED
  BY <1>1, <1>2, <1>3 DEF RecordInv

----------------------------------------------------------------------------
LEMMA OnceInit == Init => OnceInv
<1> SUFFICES ASSUME Init PROVE OnceInv
  OBVIOUS
<1>1. /\ pc = "idle" /\ mem = Empty /\ Load = Empty /\ seen = Nobody /\ DOMAIN seen = {}
      /\ settled = {} /\ again = {} /\ excused = {} /\ told = [x \in Bumps \X Heads |-> 0]
      /\ wasAbsent = absent /\ absent \in SUBSET (Bumps \X Heads)
      /\ head = [p \in PRs |-> 0]
  BY DEF Init, Load, Nobody
<1>2. head \in [PRs -> Heads] /\ seen \in [DOMAIN seen -> Heads]
  BY <1>1, QueueAssumption DEF Heads
<1>3. HeadsInv
  BY <1>1, <1>2, EmptyBehind DEF HeadsInv
<1>4. CopyInv /\ PassedInv
  BY <1>1 DEF CopyInv, PassedInv, Accusing, Turn
<1>5. RecordInv
  <2>1. \A x \in Bumps \X Heads : told[x] = 0
    BY <1>1
  <2>2. EvidenceOnce
    BY <2>1 DEF EvidenceOnce
  <2> QED
    BY <1>1, <2>1, <2>2 DEF RecordInv, SettledInv, ToldInv, SettledStaysSettled
<1>6. GhostsOK
  <2>1. Cardinality({}) = 0 /\ ~(0 > Threshold)
    BY FS_EmptySet, QueueAssumption
  <2>2. 0 \in Nat
    OBVIOUS
  <2> QED
    BY <1>1, <2>1, <2>2 DEF GhostsOK
<1> QED
  BY <1>3, <1>4, <1>5, <1>6 DEF OnceInv

\* The world moves the heads on, and nothing else of what this is about.
LEMMA OnceWorld == ASSUME IInv, OnceInv, World PROVE OnceInv'
<1>1. UNCHANGED <<file, worker, ghosts>>
  BY DEF World, AuthorPushes, CloseOrReopen, Publish, Chat, ReviewPosted, NoCodeNoted, Quiet, github
<1>2. head \in [PRs -> Heads] /\ head' \in [PRs -> Heads]
  BY WorldPreserves, TypeUse DEF IInv, TypeOK
<1>3. \A p \in PRs : head[p] <= head'[p]
  <2>1. \A h \in Heads : h <= h /\ h <= h + 1
    BY HeadsNat
  <2>2. CASE head' = head
    BY <2>1, <2>2, <1>2
  <2>3. ASSUME NEW p \in PRs, head' = [head EXCEPT ![p] = @ + 1] PROVE <1>3
    BY <2>1, <2>3, <1>2
  <2>4. head' = head \/ \E p \in PRs : head' = [head EXCEPT ![p] = @ + 1]
    BY DEF World, AuthorPushes, CloseOrReopen, Publish, Chat, ReviewPosted, NoCodeNoted, github
  <2> QED
    BY <2>2, <2>3, <2>4
<1>4. HeadsInv'
  <2>1. Load' = Load /\ mem' = mem /\ seen' = seen
    BY <1>1 DEF Load, worker
  <2>2. Behind(Load, head', seen) /\ Behind(mem, head', seen)
    BY <1>2, <1>3, BehindStays, LoadType, TypeUse DEF IInv, OnceInv, HeadsInv
  <2>3. \A p \in DOMAIN seen : seen[p] <= head'[p]
    <3>1. ASSUME NEW p \in DOMAIN seen PROVE seen[p] <= head'[p]
      <4>1. p \in PRs /\ seen[p] \in Heads /\ seen[p] <= head[p]
        BY TypeUse DEF IInv, TurnOK, OnceInv, HeadsInv
      <4>2. head[p] \in Heads /\ head'[p] \in Heads /\ head[p] <= head'[p]
        BY <4>1, <1>2, <1>3
      <4>3. \A a, b, d \in Heads : a <= b /\ b <= d => a <= d
        BY HeadsNat
      <4> QED
        BY <4>1, <4>2, <4>3
    <3> QED
      BY <3>1
  <2> QED
    BY <2>1, <2>2, <2>3 DEF HeadsInv
<1>5. CopyInv' /\ PassedInv' /\ GhostsOK'
  BY <1>1 DEF OnceInv, CopyInv, PassedInv, GhostsOK, Accusing, Here, Load, worker, ghosts
<1>6. RecordInv'
  BY <1>1, RecordKept DEF Kept, Load, worker, ghosts
<1> QED
  BY <1>4, <1>5, <1>6 DEF OnceInv

----------------------------------------------------------------------------
\* The end of a turn and of a tick.
LEMMA OnceLeave ==
  ASSUME IInv, OnceInv, Leave \/ Stop,
         (pc # "write" /\ file' = file) \/ (pc = "write" /\ file' = mem),
         head' \in [PRs -> Heads], \A p \in PRs : head[p] <= head'[p]
  PROVE  HeadsInv' /\ CopyInv' /\ PassedInv' /\ Kept' = Kept
         /\ (DOMAIN seen' = {} \/ seen' = seen)
<1>1. pc' \in {"next", "idle"} /\ mem' = Empty /\ then' = "idle"
  BY DEF Leave, Stop
<1>2. seen' = seen \/ DOMAIN seen' = {}
  BY DEF Leave, Stop, Nobody
<1>3. mem \in [PRs -> Rec] /\ Load \in [PRs -> Rec] /\ head \in [PRs -> Heads]
  BY LoadType, TypeUse DEF IInv
<1>4. Kept' = Load' /\ Load' = Kept
  <2>1. Kept' = Load'
    BY <1>1 DEF Kept
  <2>2. CASE pc = "write"
    <3>1. Load' = IF mem = Torn THEN Empty ELSE mem
      BY <2>2 DEF Load
    <3>2. (IF mem = Torn THEN Empty ELSE mem) = mem
      BY <1>3, LoadOf
    <3>3. Kept = mem
      BY <2>2 DEF Kept
    <3> QED
      BY <2>1, <3>1, <3>2, <3>3
  <2>3. CASE pc # "write"
    <3>1. Load' = Load
      BY <2>3 DEF Load
    <3>2. Kept = Load
      BY <2>3 DEF Kept
    <3> QED
      BY <2>1, <3>1, <3>2
  <2> QED
    BY <2>2, <2>3
<1>5. HeadsInv'
  <2>1. Kept \in {mem, Load}
    BY DEF Kept
  <2>2. Behind(Kept, head', seen')
    <3>1. Behind(mem, head', seen')
      BY <1>2, <1>3, BehindStays DEF OnceInv, HeadsInv
    <3>2. Behind(Load, head', seen')
      BY <1>2, <1>3, BehindStays DEF OnceInv, HeadsInv
    <3> QED
      BY <2>1, <3>1, <3>2
  <2>3. seen' \in [DOMAIN seen' -> Heads]
    BY DEF Leave, Stop, Nobody, IInv, TurnOK
  <2>4. Behind(Empty, head', seen')
    BY <2>3, EmptyBehind
  <2>5. \A p \in DOMAIN seen' : seen'[p] <= head'[p]
    <3>1. ASSUME NEW p \in DOMAIN seen' PROVE seen'[p] <= head'[p]
      <4>1. seen' = seen
        BY <3>1, <1>2
      <4>2. p \in PRs /\ seen[p] \in Heads /\ seen[p] <= head[p]
        BY <3>1, <4>1, TypeUse DEF IInv, TurnOK, OnceInv, HeadsInv
      <4>3. head[p] \in Heads /\ head'[p] \in Heads /\ head[p] <= head'[p]
        BY <4>2, <1>3
      <4>4. \A a, b, d \in Heads : a <= b /\ b <= d => a <= d
        BY HeadsNat
      <4> QED
        BY <4>1, <4>2, <4>3, <4>4
    <3> QED
      BY <3>1
  <2> QED
    BY <1>1, <1>4, <2>2, <2>4, <2>5 DEF HeadsInv
<1>6. CopyInv' /\ PassedInv'
  BY <1>1 DEF CopyInv, PassedInv, Accusing, Turn
<1> QED
  BY <1>2, <1>4, <1>5, <1>6

\* A scan with nothing in it, or the scan as it was, excuses no less.
LEMMA OnceGhosts ==
  ASSUME OnceInv, DOMAIN seen' = {} \/ seen' = seen,
         excused \subseteq excused', excused' \subseteq PRs,
         settled' \subseteq PRs \X Heads, told' \in [Bumps \X Heads -> Nat],
         wasAbsent' = wasAbsent
  PROVE  GhostsOK'
<1>1. Cardinality({}) = 0 /\ ~(0 > Threshold)
  <2>1. 0 \in Nat /\ Threshold \in Nat
    BY QueueAssumption
  <2> QED
    BY <2>1, FS_EmptySet
<1>2. CASE DOMAIN seen' = {}
  BY <1>1, <1>2 DEF OnceInv, GhostsOK
<1>3. CASE seen' = seen
  BY <1>3 DEF OnceInv, GhostsOK
<1> QED
  BY <1>2, <1>3

\* The copy that is saved is what is kept from now on.
LEMMA OnceSave ==
  ASSUME IInv, OnceInv, NEW state, NEW next, Save(state, next),
         state \in [PRs -> Rec], Behind(state, head, seen), head' = head,
         next = "evidence" => pc \in Turn
  PROVE  HeadsInv' /\ CopyInv' /\ Kept' = state
<1>1. pc' = "write" /\ then' = next /\ mem' = state /\ file' = Torn
      /\ UNCHANGED <<seen, todo, cur>>
  BY DEF Save
<1>2. Load' = Empty
  BY <1>1 DEF Load
<1>3. Behind(Empty, head, seen)
  BY EmptyBehind, TypeUse DEF IInv, TurnOK
<1>4. HeadsInv'
  BY <1>1, <1>2, <1>3 DEF OnceInv, HeadsInv
<1>5. CopyInv'
  BY <1>1 DEF OnceInv, CopyInv, Accusing, Turn
<1> QED
  BY <1>1, <1>4, <1>5 DEF Kept

\* A step within a turn, or the one that begins it.
LEMMA OnceMove ==
  ASSUME IInv, OnceInv, UNCHANGED <<file, head, seen, settled, told, again, wasAbsent>>,
         excused' = excused, pc # "write", pc' \in Turn, mem' = Load,
         cur'.pr \in DOMAIN seen /\ cur'.head = seen[cur'.pr]
  PROVE  HeadsInv' /\ CopyInv' /\ RecordInv' /\ GhostsOK'
<1>1. Load' = Load
  BY DEF Load
<1>2. Kept' = Kept
  BY <1>1 DEF Kept, Turn
<1>3. HeadsInv'
  BY <1>1 DEF OnceInv, HeadsInv
<1>4. CopyInv'
  BY <1>1 DEF OnceInv, CopyInv, Accusing, Turn
<1> QED
  BY <1>2, <1>3, <1>4, RecordKept DEF OnceInv, GhostsOK

----------------------------------------------------------------------------
\* A record is only ever replaced by one that is further on.
LEMMA RecordGrows ==
  ASSUME OnceInv, Kept \in [PRs -> Rec], Kept' \in [PRs -> Rec],
         UNCHANGED <<settled, told, excused>>,
         \A p \in PRs : Kept[p].bad <= Kept'[p].bad /\ Kept[p].pin <= Kept'[p].pin
  PROVE  SettledInv' /\ ToldInv' /\ EvidenceOnce'
<1>1. \A a, b, d \in Int : a <= b /\ b <= d => a <= d
  OBVIOUS
<1>2. \A p \in PRs : /\ Kept[p].bad \in Int /\ Kept'[p].bad \in Int
                     /\ Kept[p].pin \in Int /\ Kept'[p].pin \in Int
  BY RecInt
<1>3. \A h \in Heads : h \in Int
  BY HeadsNat
<1>4. SettledInv'
  <2>1. ASSUME NEW x \in settled
        PROVE  x[1] \in excused \/ x[2] <= Kept'[x[1]].bad \/ x[2] <= Kept'[x[1]].pin
    <3>1. x[1] \in PRs /\ x[2] \in Int
      BY <1>3 DEF OnceInv, GhostsOK
    <3>2. x[1] \in excused \/ x[2] <= Kept[x[1]].bad \/ x[2] <= Kept[x[1]].pin
      BY DEF OnceInv, RecordInv, SettledInv
    <3> QED
      BY <3>1, <3>2, <1>1, <1>2
  <2> QED
    BY <2>1 DEF SettledInv
<1>5. ToldInv'
  <2>1. ASSUME NEW x \in Bumps \X Heads
        PROVE  told[x] = 0 \/ x[1] \in excused \/ x[2] <= Kept'[x[1]].bad
    <3>1. x[1] \in PRs /\ x[2] \in Int
      BY <1>3, QueueAssumption
    <3>2. told[x] = 0 \/ x[1] \in excused \/ x[2] <= Kept[x[1]].bad
      BY DEF OnceInv, RecordInv, ToldInv
    <3> QED
      BY <3>1, <3>2, <1>1, <1>2
  <2> QED
    BY <2>1 DEF ToldInv
<1>6. EvidenceOnce'
  BY DEF OnceInv, RecordInv, EvidenceOnce
<1> QED
  BY <1>4, <1>5, <1>6

\* When the file is complete again, what it records as settled is what is kept.
LEMMA OnceWritten == ASSUME IInv, OnceInv, Written PROVE OnceInv'
<1>1. /\ pc = "write" /\ file' = mem /\ UNCHANGED <<head, told, again, excused, wasAbsent>>
      /\ settled' = settled \cup
           {x \in PRs \X Heads : x[2] \in {mem[x[1]].bad, mem[x[1]].pin}}
      /\ then \in {"next", "idle", "evidence"}
  BY DEF Written, github, IInv, TurnOK
<1>2. mem \in [PRs -> Rec] /\ head \in [PRs -> Heads] /\ Kept = mem
  BY <1>1, TypeUse DEF IInv, Kept
<1>3. HeadsInv' /\ CopyInv' /\ PassedInv' /\ Kept' = Kept
      /\ (DOMAIN seen' = {} \/ seen' = seen)
  <2>1. CASE then \in {"next", "idle"}
    <3>1. Leave \/ Stop
      BY <2>1 DEF Written
    <3>2. \A p \in PRs : head[p] <= head'[p]
      <4>1. \A h \in Heads : h <= h
        BY HeadsNat
      <4> QED
        BY <4>1, <1>1, <1>2
    <3> QED
      BY <1>1, <1>2, <3>1, <3>2, OnceLeave
  <2>2. CASE then = "evidence"
    <3>1. pc' = "evidence" /\ UNCHANGED <<seen, todo, cur, mem>>
      BY <2>2 DEF Written, Goto
    <3>2. Load' = mem
      <4>1. Load' = IF mem = Torn THEN Empty ELSE mem
        BY <1>1 DEF Load
      <4> QED
        BY <4>1, <1>2, LoadOf
    <3>3. Kept' = Kept
      BY <1>2, <3>1, <3>2 DEF Kept
    <3>4. HeadsInv'
      BY <1>1, <3>1, <3>2 DEF OnceInv, HeadsInv
    <3>5. Accusing
      BY <1>1, <2>2 DEF Accusing
    <3>6. CopyInv'
      BY <1>1, <3>1, <3>2, <3>5 DEF OnceInv, CopyInv
    <3>7. PassedInv'
      BY <1>1, <3>1, <3>5 DEF OnceInv, PassedInv, Here
    <3> QED
      BY <3>1, <3>3, <3>4, <3>6, <3>7
  <2> QED
    BY <1>1, <2>1, <2>2
<1>4. SettledInv'
  <2>1. ASSUME NEW x \in PRs \X Heads, x[2] \in {mem[x[1]].bad, mem[x[1]].pin}
        PROVE  x[2] <= mem[x[1]].bad \/ x[2] <= mem[x[1]].pin
    <3>1. x[2] \in Heads
      OBVIOUS
    <3>2. \A h \in Heads : h <= h
      BY HeadsNat
    <3> QED
      BY <3>1, <3>2, <2>1
  <2> QED
    BY <1>1, <1>2, <1>3, <2>1 DEF OnceInv, RecordInv, SettledInv
<1>5. ToldInv' /\ EvidenceOnce' /\ SettledStaysSettled'
  BY <1>1, <1>3 DEF OnceInv, RecordInv, ToldInv, EvidenceOnce, SettledStaysSettled
<1>6. GhostsOK'
  <2>1. settled' \subseteq PRs \X Heads
    BY <1>1 DEF OnceInv, GhostsOK
  <2> QED
    BY <1>1, <1>3, <2>1, OnceGhosts DEF OnceInv, GhostsOK
<1> QED
  BY <1>3, <1>4, <1>5, <1>6 DEF OnceInv, RecordInv

\* A turn that ends with nothing recorded.
LEMMA OnceLeft ==
  ASSUME IInv, OnceInv, Leave \/ Stop, pc # "write", file' = file, head' = head,
         UNCHANGED <<settled, told, again, wasAbsent>>,
         excused \subseteq excused', excused' \subseteq PRs
  PROVE  OnceInv'
<1>1. head \in [PRs -> Heads]
  BY TypeUse DEF IInv
<1>2. \A p \in PRs : head[p] <= head'[p]
  <2>1. \A h \in Heads : h <= h
    BY HeadsNat
  <2> QED
    BY <2>1, <1>1
<1>3. HeadsInv' /\ CopyInv' /\ PassedInv' /\ Kept' = Kept
      /\ (DOMAIN seen' = {} \/ seen' = seen)
  BY <1>1, <1>2, OnceLeave
<1>4. GhostsOK'
  BY <1>3, OnceGhosts DEF OnceInv, GhostsOK
<1> QED
  BY <1>3, <1>4, RecordKept DEF OnceInv

----------------------------------------------------------------------------
\* The steps of the tick between the turns.
LEMMA OnceTick == ASSUME IInv, OnceInv, StartTick \/ StartPr \/ EndTick PROVE OnceInv'
<1>t. /\ mem \in [PRs -> Rec] /\ Load \in [PRs -> Rec] /\ head \in [PRs -> Heads]
      /\ seen \in [DOMAIN seen -> Heads] /\ DOMAIN seen \subseteq PRs
  BY LoadType, TypeUse DEF IInv, TurnOK
<1>1. CASE StartTick
  <2>1. PICK S \in SUBSET open :
          /\ seen' = [p \in S |-> head[p]]
          /\ excused' = IF Cardinality(S) > Threshold THEN excused \cup (PRs \ S) ELSE excused
    BY <1>1 DEF StartTick
  <2>2. /\ pc = "idle" /\ pc' = "next"
        /\ UNCHANGED <<head, file, mem, told, settled, again, wasAbsent>>
    BY <1>1 DEF StartTick, github
  <2>3. S \subseteq PRs /\ DOMAIN seen' = S /\ \A p \in S : seen'[p] = head[p]
    BY <2>1, TypeUse DEF IInv
  <2>4. Load' = Load /\ Kept' = Kept
    BY <2>2 DEF Load, Kept
  <2>5. HeadsInv'
    <3>1. \A p \in S : head[p] <= head[p]
      <4>1. \A h \in Heads : h <= h
        BY HeadsNat
      <4> QED
        BY <4>1, <2>3, <1>t
    <3>2. Behind(Load, head, seen') /\ Behind(mem, head, seen')
      BY <2>3 DEF Behind, OnceInv, HeadsInv
    <3> QED
      BY <2>2, <2>3, <2>4, <3>1, <3>2 DEF HeadsInv
  <2>6. CopyInv' /\ PassedInv'
    BY <2>2 DEF CopyInv, PassedInv, Accusing, Turn
  <2>7. RecordInv'
    BY <2>1, <2>2, <2>4, RecordKept
  <2>8. GhostsOK'
    BY <2>1, <2>2, <2>3 DEF OnceInv, GhostsOK
  <2> QED
    BY <2>5, <2>6, <2>7, <2>8 DEF OnceInv
<1>2. CASE StartPr
  <2>1. /\ UNCHANGED <<head, file, seen, told, settled, again, excused, wasAbsent>>
        /\ pc = "next"
    BY <1>2 DEF StartPr, github, ghosts
  <2>2. PICK p \in todo :
          IF p \in Bumps /\ Refused(p, seen[p])
            THEN UNCHANGED <<pc, cur, mem>>
            ELSE /\ cur' = [pr |-> p, head |-> seen[p]]
                 /\ mem' = Load
                 /\ pc' = IF p \in Toolchain THEN "pin"
                          ELSE IF p \in Bumps THEN "registry" ELSE "review"
    BY <1>2 DEF StartPr
  <2>3. p \in DOMAIN seen /\ p \in PRs /\ seen[p] \in Heads
    BY TypeUse, <1>t DEF IInv
  <2>4. CASE UNCHANGED <<pc, cur, mem>>
    <3>1. Load' = Load /\ Kept' = Kept
      BY <2>1, <2>4 DEF Load, Kept
    <3>2. HeadsInv' /\ GhostsOK'
      BY <2>1, <2>4, <3>1 DEF OnceInv, HeadsInv, GhostsOK
    <3>3. CopyInv' /\ PassedInv'
      BY <2>1, <2>4 DEF CopyInv, PassedInv, Accusing, Turn
    <3>4. RecordInv'
      BY <2>1, <3>1, RecordKept
    <3> QED
      BY <3>2, <3>3, <3>4 DEF OnceInv
  <2>5. CASE /\ cur' = [pr |-> p, head |-> seen[p]]
             /\ mem' = Load
             /\ pc' = IF p \in Toolchain THEN "pin"
                      ELSE IF p \in Bumps THEN "registry" ELSE "review"
             /\ ~(p \in Bumps /\ Refused(p, seen[p]))
    <3>1. Load[p].bad # seen[p]
      <4>1. CASE p \in Bumps
        BY <2>5, <4>1 DEF Refused
      <4>2. CASE p \notin Bumps
        <5>1. Load[p].bad = None
          BY <2>3, <4>2 DEF IInv, EvidenceInv, Judged, OnceInv, GhostsOK
        <5> QED
          BY <5>1, <2>3, HeadsNat
      <4> QED
        BY <4>1, <4>2
    <3>2. PassedInv'
      BY <2>5, <3>1 DEF PassedInv, Accusing
    <3>3. HeadsInv' /\ CopyInv' /\ RecordInv' /\ GhostsOK'
      BY <2>1, <2>3, <2>5, OnceMove DEF Turn
    <3> QED
      BY <3>2, <3>3 DEF OnceInv
  <2> QED
    BY <2>2, <2>4, <2>5
<1>3. CASE EndTick
  <2>1. /\ UNCHANGED <<head, told, settled, again, excused, wasAbsent>> /\ pc = "next"
        /\ (Stop /\ file' = file) \/ Save(Pruned(Load), "idle")
    BY <1>3 DEF EndTick, github, ghosts
  <2>2. CASE Stop /\ file' = file
    BY <2>1, <2>2, OnceLeft DEF OnceInv, GhostsOK
  <2>3. CASE Save(Pruned(Load), "idle")
    <3>1. Pruned(Load) \in [PRs -> Rec]
      BY LoadType DEF IInv, Pruned, Blank, Rec
    <3>2. Behind(Pruned(Load), head, seen)
      <4>1. Behind(Empty, head, seen)
        BY <1>t, EmptyBehind
      <4>2. \A p \in PRs : Pruned(Load)[p] \in {Load[p], Empty[p]}
        BY DEF Pruned, Empty
      <4> QED
        BY <4>1, <4>2 DEF OnceInv, HeadsInv, Behind
    <3>3. HeadsInv' /\ CopyInv' /\ Kept' = Pruned(Load)
      BY <2>1, <2>3, <3>1, <3>2, OnceSave
    <3>4. pc' = "write" /\ then' = "idle" /\ seen' = seen
      BY <2>3 DEF Save
    <3>5. PassedInv'
      BY <3>4 DEF PassedInv, Accusing
    <3>6. \A p \in PRs : Pruned(Load)[p] = Load[p] \/ p \in excused
      <4>1. CASE Cardinality(DOMAIN seen) <= Threshold
        BY <4>1 DEF Pruned
      <4>2. CASE ~(Cardinality(DOMAIN seen) <= Threshold)
        <5>1. IsFiniteSet(DOMAIN seen)
          BY <1>t, QueueAssumption, FS_Subset
        <5>2. Cardinality(DOMAIN seen) \in Nat /\ Threshold \in Nat
          BY <5>1, QueueAssumption, FS_CardinalityType
        <5>3. PRs \ DOMAIN seen \subseteq excused
          BY <5>2, <4>2 DEF OnceInv, GhostsOK
        <5> QED
          BY <5>3, <4>2 DEF Pruned
      <4> QED
        BY <4>1, <4>2
    <3>7. Kept = Load
      BY <2>1 DEF Kept
    <3>8. SettledInv'
      <4>1. \A x \in settled : x[1] \in PRs
        BY DEF OnceInv, GhostsOK
      <4> QED
        BY <2>1, <3>3, <3>6, <3>7, <4>1 DEF OnceInv, RecordInv, SettledInv
    <3>9. ToldInv'
      <4>1. \A x \in Bumps \X Heads : x[1] \in PRs
        BY QueueAssumption
      <4> QED
        BY <2>1, <3>3, <3>6, <3>7, <4>1 DEF OnceInv, RecordInv, ToldInv
    <3>10. EvidenceOnce' /\ SettledStaysSettled'
      BY <2>1 DEF OnceInv, RecordInv, EvidenceOnce, SettledStaysSettled
    <3>11. GhostsOK'
      BY <2>1, <3>4 DEF OnceInv, GhostsOK
    <3> QED
      BY <3>3, <3>5, <3>8, <3>9, <3>10, <3>11 DEF OnceInv, RecordInv
  <2> QED
    BY <2>1, <2>2, <2>3
<1> QED
  BY <1>1, <1>2, <1>3

----------------------------------------------------------------------------
\* What is kept during a turn is the copy, and it does not reach the head that
\* the turn has found to be new.
LEMMA TurnUse ==
  ASSUME IInv, OnceInv, pc \in Turn
  PROVE  /\ cur.pr \in PRs /\ cur.head \in Heads /\ cur.pr \in DOMAIN seen
         /\ cur.head = seen[cur.pr] /\ cur.head <= head[cur.pr]
         /\ Kept = mem /\ mem = Load /\ mem \in [PRs -> Rec]
         /\ mem[cur.pr].bad <= cur.head /\ mem[cur.pr].pin <= cur.head
<1>1. cur.pr \in PRs /\ cur.head \in Heads /\ mem \in [PRs -> Rec]
  BY TypeUse DEF IInv, TurnOK
<1>2. mem = Load /\ cur.pr \in DOMAIN seen /\ cur.head = seen[cur.pr]
  BY DEF OnceInv, CopyInv
<1>3. Kept = mem
  BY <1>2 DEF Kept, Turn
<1> QED
  BY <1>1, <1>2, <1>3 DEF OnceInv, HeadsInv, Behind

LEMMA UpTo ==
  ASSUME NEW state \in [PRs -> Rec], NEW p \in PRs, NEW h \in Heads
  PROVE  /\ state[p].bad <= h /\ h <= state[p].bad => state[p].bad = h
         /\ state[p].pin <= h /\ h <= state[p].pin => state[p].pin = h
BY RecInt, HeadsNat

LEMMA OnceTurn ==
  ASSUME IInv, OnceInv, PinClose \/ BumpGuard \/ Evidence \/ DependabotCi \/ Review
  PROVE  OnceInv'
<1>g. excused \subseteq PRs
  BY DEF OnceInv, GhostsOK
<1>u. /\ pc \in Turn /\ UNCHANGED <<head, settled, again, excused, wasAbsent>>
      /\ pc # "write"
  BY DEF PinClose, BumpGuard, Evidence, DependabotCi, Review, github, ghosts, Turn
<1>t. /\ cur.pr \in PRs /\ cur.head \in Heads /\ cur.pr \in DOMAIN seen
      /\ cur.head = seen[cur.pr] /\ cur.head <= head[cur.pr]
      /\ Kept = mem /\ mem = Load /\ mem \in [PRs -> Rec]
      /\ mem[cur.pr].bad <= cur.head /\ mem[cur.pr].pin <= cur.head
  BY <1>u, TurnUse
<1>1. CASE PinClose
  BY <1>1, <1>u, <1>g, OnceLeft DEF PinClose, ghosts
<1>2. CASE BumpGuard
  <2>1. /\ pc = "registry" /\ told' = told
        /\ \/ Save(markBadBump(mem), "evidence")
           \/ Goto("ci") /\ file' = file
    BY <1>2 DEF BumpGuard, ghosts
  <2>2. CASE Save(markBadBump(mem), "evidence")
    <3> DEFINE new == markBadBump(mem)
    <3>1. /\ new \in [PRs -> Rec]
          /\ new[cur.pr].bad = cur.head /\ new[cur.pr].pin = mem[cur.pr].pin
          /\ \A p \in PRs \ {cur.pr} : new[p] = mem[p]
      BY <1>t DEF markBadBump, Rec
    <3> HIDE DEF new
    <3>2. Behind(new, head, seen)
      <4> SUFFICES ASSUME NEW p \in PRs
                   PROVE /\ new[p].bad <= head[p] /\ new[p].pin <= head[p]
                         /\ p \in DOMAIN seen => new[p].bad <= seen[p] /\ new[p].pin <= seen[p]
        BY DEF Behind
      <4>1. CASE p # cur.pr
        BY <4>1, <3>1 DEF OnceInv, HeadsInv, Behind
      <4>2. CASE p = cur.pr
        <5>1. \A h \in Heads : h <= h
          BY HeadsNat
        <5> QED
          BY <4>2, <5>1, <3>1, <1>t DEF OnceInv, HeadsInv, Behind
      <4> QED
        BY <4>1, <4>2
    <3>3. Save(new, "evidence")
      BY <2>2 DEF new
    <3>4. HeadsInv' /\ CopyInv' /\ Kept' = new
      BY <3>1, <3>2, <3>3, <1>u, OnceSave
    <3>5. \A p \in PRs : Kept[p].bad <= Kept'[p].bad /\ Kept[p].pin <= Kept'[p].pin
      <4>1. \A p \in PRs : mem[p].bad <= mem[p].bad /\ mem[p].pin <= mem[p].pin
        BY RecInt, <1>t
      <4> QED
        BY <4>1, <3>1, <3>4, <1>t
    <3>6. SettledInv' /\ ToldInv' /\ EvidenceOnce'
      BY <1>t, <1>u, <2>1, <3>1, <3>4, <3>5, RecordGrows
    <3>7. SettledStaysSettled'
      BY <1>u DEF OnceInv, RecordInv, SettledStaysSettled
    <3>8. pc' = "write" /\ then' = "evidence" /\ mem' = new /\ cur' = cur /\ seen' = seen
      BY <3>3 DEF Save
    <3>9. cur.pr \in Bumps /\ mem[cur.pr].bad # cur.head
      BY <2>1 DEF OnceInv, PassedInv
    <3>10. told[Here] = 0 \/ cur.pr \in excused
      <4>1. Here \in Bumps \X Heads /\ Here[1] = cur.pr /\ Here[2] = cur.head
        BY <3>9, <1>t DEF Here
      <4>2. told[Here] = 0 \/ cur.pr \in excused \/ cur.head <= mem[cur.pr].bad
        BY <4>1, <1>t DEF OnceInv, RecordInv, ToldInv
      <4> QED
        BY <4>2, <3>9, <1>t, UpTo
    <3>11. PassedInv'
      BY <3>1, <3>8, <3>9, <3>10, <2>1, <1>u DEF PassedInv, Accusing, Here
    <3>12. GhostsOK'
      BY <3>8, <2>1, <1>u DEF OnceInv, GhostsOK
    <3> QED
      BY <3>4, <3>6, <3>7, <3>11, <3>12 DEF OnceInv, RecordInv
  <2>3. CASE Goto("ci") /\ file' = file
    <3>1. pc' = "ci" /\ UNCHANGED <<seen, cur, mem>>
      BY <2>3 DEF Goto
    <3>2. HeadsInv' /\ CopyInv' /\ RecordInv' /\ GhostsOK'
      BY <2>1, <2>3, <3>1, <1>u, <1>t, OnceMove DEF Turn
    <3>3. PassedInv'
      BY <2>1, <3>1 DEF OnceInv, PassedInv, Accusing
    <3> QED
      BY <3>2, <3>3 DEF OnceInv
  <2> QED
    BY <2>1, <2>2, <2>3
<1>3. CASE Evidence
  <2>1. /\ pc = "evidence" /\ file' = file /\ Leave
        /\ told' \in {told, [told EXCEPT ![Here] = @ + 1]}
    BY <1>3 DEF Evidence
  <2>2. /\ cur.pr \in Bumps /\ mem[cur.pr].bad = cur.head
        /\ told[Here] = 0 \/ cur.pr \in excused
    BY <2>1 DEF OnceInv, PassedInv, Accusing
  <2>3. Here \in Bumps \X Heads /\ Here[1] = cur.pr /\ Here[2] = cur.head
    BY <2>2, <1>t DEF Here
  <2>4. told \in [Bumps \X Heads -> Nat]
    BY DEF OnceInv, GhostsOK
  <2>5. told' \in [Bumps \X Heads -> Nat]
    BY <2>1, <2>4
  <2>6. \A x \in Bumps \X Heads : told'[x] = told[x] \/ (x = Here /\ told'[x] = told[x] + 1)
    BY <2>1, <2>4
  <2>7. HeadsInv' /\ CopyInv' /\ PassedInv' /\ Kept' = Kept
        /\ (DOMAIN seen' = {} \/ seen' = seen)
    <3>1. head \in [PRs -> Heads]
      BY TypeUse DEF IInv
    <3>2. \A h \in Heads : h <= h
      BY HeadsNat
    <3>3. \A p \in PRs : head[p] <= head'[p]
      BY <3>1, <3>2, <1>u
    <3> QED
      BY <2>1, <3>1, <3>3, <1>u, OnceLeave
  <2>8. SettledInv' /\ SettledStaysSettled'
    BY <2>7, <1>u DEF OnceInv, RecordInv, SettledInv, SettledStaysSettled
  <2>9. ToldInv'
    <3>1. ASSUME NEW x \in Bumps \X Heads
          PROVE  told'[x] = 0 \/ x[1] \in excused \/ x[2] <= Kept[x[1]].bad
      <4>1. CASE told'[x] = told[x]
        BY <4>1 DEF OnceInv, RecordInv, ToldInv
      <4>2. CASE x = Here
        <5>1. \A h \in Heads : h <= h
          BY HeadsNat
        <5> QED
          BY <4>2, <5>1, <2>2, <2>3, <1>t
      <4> QED
        BY <4>1, <4>2, <2>6
    <3> QED
      BY <3>1, <2>7, <1>u DEF ToldInv
  <2>10. EvidenceOnce'
    <3>1. ASSUME NEW x \in Bumps \X Heads PROVE told'[x] <= 1 \/ x[1] \in excused
      <4>1. CASE told'[x] = told[x]
        BY <4>1 DEF OnceInv, RecordInv, EvidenceOnce
      <4>2. CASE x = Here /\ told'[x] = told[x] + 1
        <5>1. 0 + 1 <= 1
          OBVIOUS
        <5> QED
          BY <4>2, <5>1, <2>2, <2>3
      <4> QED
        BY <4>1, <4>2, <2>6
    <3> QED
      BY <3>1, <1>u DEF EvidenceOnce
  <2>11. GhostsOK'
    BY <2>5, <2>7, <1>u, OnceGhosts DEF OnceInv, GhostsOK
  <2> QED
    BY <2>7, <2>8, <2>9, <2>10, <2>11 DEF OnceInv, RecordInv
<1>4. CASE DependabotCi
  <2>1. /\ pc = "ci" /\ UNCHANGED <<file, seen, cur, mem, told>>
        /\ (pc' = "work" /\ byCi') \/ pc' = "review"
    BY <1>4 DEF DependabotCi, ghosts
  <2>2. HeadsInv' /\ CopyInv' /\ RecordInv' /\ GhostsOK'
    BY <2>1, <1>u, <1>t, OnceMove DEF Turn
  <2>3. PassedInv'
    BY <2>1 DEF OnceInv, PassedInv, Accusing
  <2> QED
    BY <2>2, <2>3 DEF OnceInv
<1>5. CASE Review
  <2>1. pc = "review" /\ file' = file /\ told' = told
    BY <1>5 DEF Review, ghosts
  <2>2. CASE Leave
    BY <2>1, <2>2, <1>u, <1>g, OnceLeft
  <2>3. CASE ~Leave
    <3>1. /\ mem[cur.pr].pin # cur.head /\ pc' = "work"
          /\ UNCHANGED <<seen, cur, mem>>
      BY <1>5, <2>3 DEF Review
    <3>2. HeadsInv' /\ CopyInv' /\ RecordInv' /\ GhostsOK'
      BY <2>1, <3>1, <1>u, <1>t, OnceMove DEF Turn
    <3>3. PassedInv'
      BY <2>1, <3>1 DEF OnceInv, PassedInv, Accusing
    <3> QED
      BY <3>2, <3>3 DEF OnceInv
  <2> QED
    BY <2>2, <2>3
<1> QED
  BY <1>1, <1>2, <1>3, <1>4, <1>5

LEMMA OnceWork == ASSUME IInv, OnceInv, Work PROVE OnceInv'
<1>u. pc = "work" /\ pc \in Turn /\ UNCHANGED <<told, settled, excused, wasAbsent>>
  BY DEF Work, Agent, Turn
<1>t. /\ cur.pr \in PRs /\ cur.head \in Heads /\ cur.pr \in DOMAIN seen
      /\ cur.head = seen[cur.pr] /\ cur.head <= head[cur.pr]
      /\ Kept = mem /\ mem = Load /\ mem \in [PRs -> Rec]
      /\ mem[cur.pr].bad <= cur.head /\ mem[cur.pr].pin <= cur.head
  BY <1>u, TurnUse
<1>g. excused \subseteq PRs /\ head \in [PRs -> Heads]
  BY TypeUse DEF IInv, OnceInv, GhostsOK
\* The agent is not asked for a head that is on record.
<1>a. SettledStaysSettled'
  <2>1. again' \in {again, again \cup {Here}}
        /\ (again' = again \/ (Here \in settled /\ (byCi => mem[cur.pr].pin # cur.head)))
    BY DEF Work, Agent
  <2>2. CASE again' = again
    BY <2>2, <1>u DEF OnceInv, RecordInv, SettledStaysSettled
  <2>3. CASE Here \in settled /\ (byCi => mem[cur.pr].pin # cur.head)
    <3>1. Here[1] = cur.pr /\ Here[2] = cur.head
      BY DEF Here
    <3>2. cur.pr \in excused \/ cur.head <= mem[cur.pr].bad \/ cur.head <= mem[cur.pr].pin
      BY <2>3, <3>1, <1>t DEF OnceInv, RecordInv, SettledInv
    <3>3. mem[cur.pr].bad # cur.head /\ mem[cur.pr].pin # cur.head
      BY <2>3, <1>u DEF OnceInv, PassedInv
    <3>4. cur.pr \in excused
      BY <3>2, <3>3, <1>t, UpTo
    <3> QED
      BY <2>1, <3>1, <3>4, <1>u DEF OnceInv, RecordInv, SettledStaysSettled
  <2> QED
    BY <2>1, <2>2, <2>3
<1>1. CASE Leave /\ file' = file
  <2>1. head' = head \/ head' = [head EXCEPT ![cur.pr] = IF @ < MaxHead THEN @ + 1 ELSE @]
    BY <1>1 DEF Work, Agent
  <2>2. /\ \A h \in Heads : h <= h
        /\ \A h \in Heads : /\ h <= IF h < MaxHead THEN h + 1 ELSE h
                            /\ (IF h < MaxHead THEN h + 1 ELSE h) \in Heads
    BY QueueAssumption DEF Heads
  <2>3. head' \in [PRs -> Heads]
    BY <2>1, <2>2, <1>g, <1>t
  <2>4. \A p \in PRs : head[p] <= head'[p]
    <3>1. CASE head' = head
      BY <2>2, <3>1, <1>g
    <3>2. CASE head' = [head EXCEPT ![cur.pr] = IF @ < MaxHead THEN @ + 1 ELSE @]
      <4> TAKE p \in PRs
      <4>1. CASE p = cur.pr
        BY <4>1, <3>2, <2>2, <1>g
      <4>2. CASE p # cur.pr
        BY <4>2, <3>2, <2>2, <1>g
      <4> QED
        BY <4>1, <4>2
    <3> QED
      BY <2>1, <3>1, <3>2
  <2>5. HeadsInv' /\ CopyInv' /\ PassedInv' /\ Kept' = Kept
        /\ (DOMAIN seen' = {} \/ seen' = seen)
    BY <1>1, <1>u, <2>3, <2>4, OnceLeave
  <2>6. SettledInv' /\ ToldInv' /\ EvidenceOnce'
    BY <2>5, <1>u DEF OnceInv, RecordInv, SettledInv, ToldInv, EvidenceOnce
  <2>7. GhostsOK'
    BY <2>5, <1>u, OnceGhosts DEF OnceInv, GhostsOK
  <2> QED
    BY <2>5, <2>6, <2>7, <1>a DEF OnceInv, RecordInv
<1>2. CASE Save(Pinned(mem), "next") /\ head' = head
  <2> DEFINE new == Pinned(mem)
  <2>1. /\ new \in [PRs -> Rec]
        /\ new[cur.pr].pin = cur.head /\ new[cur.pr].bad = mem[cur.pr].bad
        /\ \A p \in PRs \ {cur.pr} : new[p] = mem[p]
    BY <1>t DEF Pinned, Rec
  <2> HIDE DEF new
  <2>2. Behind(new, head, seen)
    <3> SUFFICES ASSUME NEW p \in PRs
                 PROVE /\ new[p].bad <= head[p] /\ new[p].pin <= head[p]
                       /\ p \in DOMAIN seen => new[p].bad <= seen[p] /\ new[p].pin <= seen[p]
      BY DEF Behind
    <3>1. CASE p # cur.pr
      BY <3>1, <2>1 DEF OnceInv, HeadsInv, Behind
    <3>2. CASE p = cur.pr
      <4>1. \A h \in Heads : h <= h
        BY HeadsNat
      <4> QED
        BY <3>2, <4>1, <2>1, <1>t DEF OnceInv, HeadsInv, Behind
    <3> QED
      BY <3>1, <3>2
  <2>3. Save(new, "next")
    BY <1>2 DEF new
  <2>4. HeadsInv' /\ CopyInv' /\ Kept' = new
    BY <2>1, <2>2, <2>3, <1>2, OnceSave
  <2>5. \A p \in PRs : Kept[p].bad <= Kept'[p].bad /\ Kept[p].pin <= Kept'[p].pin
    <3>1. \A p \in PRs : mem[p].bad <= mem[p].bad /\ mem[p].pin <= mem[p].pin
      BY RecInt, <1>t
    <3> QED
      BY <3>1, <2>1, <2>4, <1>t
  <2>6. SettledInv' /\ ToldInv' /\ EvidenceOnce'
    BY <1>t, <1>u, <2>1, <2>4, <2>5, RecordGrows
  <2>7. pc' = "write" /\ then' = "next" /\ seen' = seen
    BY <2>3 DEF Save
  <2>8. PassedInv'
    BY <2>7 DEF PassedInv, Accusing
  <2>9. GhostsOK'
    BY <2>7, <1>u DEF OnceInv, GhostsOK
  <2> QED
    BY <2>4, <2>6, <2>8, <2>9, <1>a DEF OnceInv, RecordInv
<1> QED
  BY <1>1, <1>2 DEF Work, Agent

\* A kill in the middle of a write excuses everybody; any other leaves the file.
LEMMA OnceKill == ASSUME IInv, OnceInv, Kill PROVE OnceInv'
<1>1. /\ Stop /\ UNCHANGED <<file, head, told, settled, again, wasAbsent>>
      /\ excused' = IF file = Torn THEN PRs ELSE excused
  BY DEF Kill, github
<1>2. excused \subseteq PRs
  BY DEF OnceInv, GhostsOK
<1>3. CASE pc # "write"
  BY <1>1, <1>2, <1>3, OnceLeft
<1>4. CASE pc = "write"
  <2>1. file = Torn /\ excused' = PRs /\ Load' = Empty
    BY <1>1, <1>4 DEF OnceInv, CopyInv, Load
  <2>2. pc' = "idle" /\ mem' = Empty /\ seen' = Nobody /\ DOMAIN seen' = {}
    BY <1>1 DEF Stop, Nobody
  <2>3. HeadsInv'
    <3>1. seen' \in [DOMAIN seen' -> Heads]
      BY <2>2 DEF Nobody
    <3>2. Behind(Empty, head, seen')
      BY <3>1, EmptyBehind, TypeUse DEF IInv
    <3> QED
      BY <1>1, <2>1, <2>2, <3>2 DEF HeadsInv
  <2>4. CopyInv' /\ PassedInv'
    BY <2>2 DEF CopyInv, PassedInv, Accusing, Turn
  <2>5. SettledInv' /\ ToldInv'
    <3>1. \A x \in settled : x[1] \in PRs
      BY DEF OnceInv, GhostsOK
    <3>2. \A x \in Bumps \X Heads : x[1] \in PRs
      BY QueueAssumption
    <3>3. SettledInv'
      BY <1>1, <2>1, <3>1 DEF SettledInv
    <3>4. ToldInv'
      BY <1>1, <2>1, <3>2 DEF ToldInv
    <3> QED
      BY <3>3, <3>4
  <2>6. EvidenceOnce' /\ SettledStaysSettled'
    BY <1>1, <1>2, <2>1 DEF OnceInv, RecordInv, EvidenceOnce, SettledStaysSettled
  <2>7. GhostsOK'
    BY <1>1, <1>2, <2>1, <2>2, OnceGhosts DEF OnceInv, GhostsOK
  <2> QED
    BY <2>3, <2>4, <2>5, <2>6, <2>7 DEF OnceInv, RecordInv
<1> QED
  BY <1>3, <1>4

LEMMA OnceStep == IInv /\ OnceInv /\ [Next]_vars => OnceInv'
<1> SUFFICES ASSUME IInv, OnceInv, [Next]_vars PROVE OnceInv'
  OBVIOUS
<1>1. CASE World
  BY <1>1, OnceWorld
<1>2. CASE StartTick \/ StartPr \/ EndTick
  BY <1>2, OnceTick
<1>3. CASE PinClose \/ BumpGuard \/ Evidence \/ DependabotCi \/ Review
  BY <1>3, OnceTurn
<1>4. CASE Work
  BY <1>4, OnceWork
<1>5. CASE Kill
  BY <1>5, OnceKill
<1>6. CASE Written
  BY <1>6, OnceWritten
<1>7. CASE UNCHANGED vars
  <2>1. UNCHANGED <<head, file, pc, seen, cur, mem, byCi, then, told, settled, again,
                    excused, wasAbsent>>
    BY <1>7 DEF vars, github, worker, ghosts
  <2>2. Load' = Load /\ Kept' = Kept
    BY <2>1 DEF Load, Kept
  <2>3. HeadsInv' /\ CopyInv' /\ PassedInv' /\ GhostsOK'
    BY <2>1, <2>2 DEF OnceInv, HeadsInv, CopyInv, PassedInv, GhostsOK, Accusing, Here
  <2> QED
    BY <2>1, <2>2, <2>3, RecordKept DEF OnceInv
<1> QED
  BY <1>1, <1>2, <1>3, <1>4, <1>5, <1>6, <1>7 DEF Next, Worker

LEMMA Once == Spec => []OnceInv
BY Invariant, OnceInit, OnceStep, PTL DEF Spec

\* However often the worker ticks, is killed or is answered in part, the evidence
\* against a bump is posted once per head, unless the record of the PR was taken
\* by a torn file or a scan of more than the threshold (pipeline.ts, state.ts).
THEOREM EvidencePostedOnce == Spec => []EvidenceOnce
<1>1. OnceInv => EvidenceOnce
  BY DEF OnceInv, RecordInv
<1> QED
  BY <1>1, Once, PTL

\* With the same exceptions, a head that a complete file once recorded as pinned
\* or refused never has the agent run at it again, although every turn writes
\* the records of all PRs back.
THEOREM SettledCostsNothing == Spec => []SettledStaysSettled
<1>1. OnceInv => SettledStaysSettled
  BY DEF OnceInv, RecordInv
<1> QED
  BY <1>1, Once, PTL
=============================================================================
