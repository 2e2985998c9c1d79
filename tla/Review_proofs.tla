---------------------------- MODULE Review_proofs ---------------------------
(***************************************************************************)
(* What the API server publishes and records, for any pull requests, pushes *)
(* and models, any queue that keeps ReviewPromise, and any number of failed *)
(* calls and restarts; then, of DiffBudget, what of a pull request the      *)
(* models are shown, where its numbers say it is, and what the comment of   *)
(* the improve tool stands for, for pull requests of any size and any       *)
(* thresholds.                                                              *)
(***************************************************************************)
EXTENDS ReviewService, DiffBudget, FiniteSetTheorems, FunctionTheorems, SequenceTheorems,
        NaturalsInduction, WellFoundedInduction, TLAPS

JobRec ==
  [pr : PRs, at : Stages, row : Nat, head : 0..MaxHeads,
   found : Nat, model : 1..Models, tries : 0..Retries, threw : BOOLEAN]

CommentRec == [opens : {"header", "facts", "note"}, head : 0..MaxHeads]

BudgetRec == [call : Nat, talk : Nat, fault : Nat, kill : 0..MaxKills]

RowRec == [pr : PRs, status : {"queued", "success", "failed"}, head : 0..MaxHeads]

Types ==
  /\ jobs \in Seq(JobRec)
  /\ comments \in [PRs -> Seq(CommentRec)]
  /\ rows \in Seq(RowRec)
  /\ wanted \in [PRs -> Nat]
  /\ owed \subseteq PRs /\ decided \subseteq PRs /\ open \subseteq PRs
  /\ head \in [PRs -> 0..MaxHeads]
  /\ \A d \in deliveries : d.pr \in PRs
  /\ IsFiniteSet(deliveries)
  /\ counted \in [success : Nat, failed : Nat]
  /\ asked \in [PRs -> Nat]
  /\ budget \in BudgetRec

\* A pull request has the comments its reviews open with, none of them ahead of it.
CommentsInv ==
  \A k \in PRs : \A c \in DOMAIN comments[k] :
    /\ comments[k][c].opens \in {Opening(k), "note"}
    /\ comments[k][c].head <= head[k]

Shown(k, h) == \E c \in Reviews(k) : comments[k][c].head >= h

\* What a job remembers is what it read: its own row, a head that was there, a
\* comment it may edit.
JobOK(job) ==
  /\ job.row # 0 => job.row \in DOMAIN rows /\ rows[job.row].pr = job.pr
  /\ job.head <= head[job.pr]
  /\ job.found # 0 => /\ job.found \in DOMAIN comments[job.pr]
                      /\ comments[job.pr][job.found].opens = "header"
  /\ job.threw => job.at \in {"finish", "count"}

\* And when nobody else reviews the pull request, what it read is still so.
SoloOK(job) ==
  LET k == job.pr
  IN  /\ job.at \in {"getFiles", "ask", "list", "write", "announce"} =>
           \A c \in DOMAIN comments[k] : comments[k][c].head <= job.head
      /\ job.at = "write" /\ job.found = 0 =>
           \A c \in DOMAIN comments[k] : c <= CommentPage => comments[k][c].opens # "header"
      /\ job.at = "announce" \/ (job.at = "finish" /\ ~job.threw) => Shown(k, job.head)

JobsInv ==
  /\ \A i \in DOMAIN jobs : JobOK(jobs[i])
  /\ Durable => \A i \in DOMAIN jobs : SoloOK(jobs[i])
  /\ Durable => \A i, j \in DOMAIN jobs : jobs[i].pr = jobs[j].pr => i = j

ShownInv ==
  Durable => \A r \in DOMAIN rows : rows[r].status = "success" => Shown(rows[r].pr, rows[r].head)

OneInv ==
  Durable => \A k \in PRs \ Bumps : \A c, e, x \in Reviews(k) : x <= CommentPage => c = e

\* The calls of runJob() that have not come to their history row yet.
FreshIn(s, k) == {i \in 1..Len(s) : s[i].pr = k /\ s[i].at = "start"}
Fresh(k) == FreshIn(jobs, k)
RowsOf(k) == {r \in DOMAIN rows : rows[r].pr = k}
Coming(k) == {d \in deliveries : d.pr = k /\ Actionable(d)}

\* Every review that has begun or may begin has a webhook, or a restart, of its own.
PaidInv ==
  \A k \in PRs :
    Cardinality(RowsOf(k)) + Cardinality(Fresh(k)) + wanted[k] + Cardinality(Coming(k))
      <= asked[k] + (MaxKills - budget.kill)

IInv == Types /\ CommentsInv /\ JobsInv /\ ShownInv /\ OneInv /\ PaidInv

----------------------------------------------------------------------------
(* Sequences and numbers.                                                     *)

\* What two of the terms of a sum gain, the other two lose, or the bound gains.
Traded(r, fr, w, c, fr2, w2, c2, due, paid, paid2, room) ==
  /\ r \in Nat /\ fr \in Nat /\ w \in Nat /\ c \in Nat
  /\ fr2 \in Nat /\ w2 \in Nat /\ c2 \in Nat /\ due \in Nat
  /\ paid \in Nat /\ paid2 \in Nat /\ room \in Nat
  /\ fr2 + w2 <= fr + due
  /\ due + c2 + paid <= w + c + paid2
  /\ r + fr + w + c <= paid + room

LEMMA Trade ==
  ASSUME NEW r, NEW fr, NEW w, NEW c, NEW fr2, NEW w2, NEW c2, NEW due,
         NEW paid, NEW paid2, NEW room,
         Traded(r, fr, w, c, fr2, w2, c2, due, paid, paid2, room)
  PROVE  r + fr2 + w2 + c2 <= paid2 + room
BY DEF Traded

\* A term of a sum turns into another.
Moved(r, fr, r2, fr2, w, c, room) ==
  /\ r \in Nat /\ fr \in Nat /\ r2 \in Nat /\ fr2 \in Nat
  /\ w \in Nat /\ c \in Nat /\ room \in Nat
  /\ r2 + fr2 <= r + fr
  /\ r + fr + w + c <= room

LEMMA Move ==
  ASSUME NEW r, NEW fr, NEW r2, NEW fr2, NEW w, NEW c, NEW room,
         Moved(r, fr, r2, fr2, w, c, room)
  PROVE  r2 + fr2 + w + c <= room
BY DEF Moved

\* Where the elements of a sequence are when one is taken out.
LEMMA RemoveAtPlaces ==
  ASSUME NEW S, NEW s \in Seq(S), NEW i \in 1..Len(s)
  PROVE  /\ RemoveAt(s, i) \in Seq(S)
         /\ Len(RemoveAt(s, i)) = Len(s) - 1
         /\ \A j \in 1..(Len(s) - 1) :
              RemoveAt(s, i)[j] = s[IF j < i THEN j ELSE j + 1]
<1> DEFINE a == SubSeq(s, 1, i - 1)
           b == SubSeq(s, i + 1, Len(s))
<1>1. /\ a \in Seq(S) /\ Len(a) = i - 1
      /\ \A j \in 1..(i - 1) : a[j] = s[j]
  <2>1. \A j \in 1..(i - 1) : s[j] \in S
    OBVIOUS
  <2>2. 1 \in Int /\ i - 1 \in Int
    OBVIOUS
  <2> QED BY <2>1, <2>2, SubSeqProperties
<1>2. /\ b \in Seq(S) /\ Len(b) = Len(s) - i
      /\ \A j \in 1..(Len(s) - i) : b[j] = s[j + i]
  <2>1. \A j \in (i + 1)..Len(s) : s[j] \in S
    OBVIOUS
  <2>2. i + 1 \in Int /\ Len(s) \in Int
    OBVIOUS
  <2> QED BY <2>1, <2>2, SubSeqProperties
<1> HIDE DEF a, b
<1>3. RemoveAt(s, i) = a \o b
  BY DEF RemoveAt, a, b
<1>4. a \o b \in Seq(S) /\ Len(a \o b) = Len(s) - 1
  BY <1>1, <1>2, ConcatProperties
<1>5. \A j \in 1..(Len(s) - 1) : (a \o b)[j] = s[IF j < i THEN j ELSE j + 1]
  <2> SUFFICES ASSUME NEW j \in 1..(Len(s) - 1)
               PROVE  (a \o b)[j] = s[IF j < i THEN j ELSE j + 1]
    OBVIOUS
  <2>1. (a \o b)[j] = IF j <= Len(a) THEN a[j] ELSE b[j - Len(a)]
    BY <1>1, <1>2, ConcatProperties
  <2>2. CASE j < i
    BY <1>1, <2>1, <2>2
  <2>3. CASE j >= i
    <3>1. j - Len(a) \in 1..(Len(s) - i) /\ (j - Len(a)) + i = j + 1 /\ ~(j <= Len(a))
      BY <1>1, <2>3
    <3>2. (a \o b)[j] = b[j - Len(a)]
      BY <2>1, <3>1
    <3>3. b[j - Len(a)] = s[(j - Len(a)) + i]
      BY <1>2, <3>1
    <3>4. ~(j < i)
      BY <2>3
    <3> QED BY <3>1, <3>2, <3>3, <3>4
  <2>4. j < i \/ j >= i
    OBVIOUS
  <2> QED BY <2>2, <2>3, <2>4
<1> QED BY <1>3, <1>4, <1>5

\* A number in a set of numbers that is not empty is its least.
LEMMA MinIsMember ==
  ASSUME NEW T \in SUBSET Nat, T # {}
  PROVE  Min(T) \in T /\ \A y \in T : Min(T) <= y
<1> DEFINE R == {ss \in Nat \X Nat : ss[1] < ss[2]}
<1>1. IsWellFoundedOn(R, Nat)
  BY NatLessThanWellFounded DEF OpToRel
<1>2. \A x \in Nat, y \in Nat : y < x => <<y, x>> \in R
  OBVIOUS
<1> HIDE DEF R
<1>3. PICK x \in T : \A y \in T : ~ (<<y, x>> \in R)
  BY <1>1, WFMin
<1>4. ASSUME NEW y \in T PROVE x =< y
  <2>1. x \in Nat /\ y \in Nat /\ <<y, x>> \notin R
    BY <1>3
  <2>2. ~(y < x)
    BY <1>2, <2>1
  <2> QED BY <2>1, <2>2
<1>5. \E z \in T : \A y \in T : z =< y
  BY <1>4
<1> QED BY <1>5 DEF Min

\* A sequence with one element more.
LEMMA AppendPlaces ==
  ASSUME NEW S, NEW s \in Seq(S), NEW e \in S
  PROVE  /\ Append(s, e) \in Seq(S)
         /\ Len(Append(s, e)) = Len(s) + 1 /\ Len(s) \in Nat
         /\ DOMAIN s = 1..Len(s) /\ DOMAIN Append(s, e) = 1..(Len(s) + 1)
         /\ \A i \in 1..Len(s) : Append(s, e)[i] = s[i]
         /\ Append(s, e)[Len(s) + 1] = e
BY AppendProperties, LenProperties

----------------------------------------------------------------------------
(* The queue.                                                                 *)

PrsIn(s) == [i \in DOMAIN s |-> s[i].pr]
Running == PrsIn(jobs)

LEMMA Sizes ==
  /\ Models \in Nat /\ 1 \in 1..Models /\ Retries \in Nat /\ MaxHeads \in Nat
  /\ MaxEvents \in Nat /\ MaxTalk \in Nat /\ MaxFaults \in Nat /\ MaxKills \in Nat /\ 0 \in 0..MaxHeads /\ 0 \in 0..Retries
BY SizesAssumption, BoundsAssumption

LEMMA NewJob == ASSUME NEW k \in PRs PROVE Job(k) \in JobRec
BY Sizes DEF Job, JobRec, Stages

LEMMA PrsOf ==
  ASSUME NEW s \in Seq(JobRec)
  PROVE  /\ PrsIn(s) \in Seq(PRs)
         /\ Len(PrsIn(s)) = Len(s)
         /\ \A i \in 1..Len(s) : PrsIn(s)[i] = s[i].pr
<1>1. DOMAIN s = 1..Len(s) /\ Len(s) \in Nat
  BY LenProperties
<1>2. \A i \in 1..Len(s) : s[i].pr \in PRs
  <2>1. \A i \in 1..Len(s) : s[i] \in JobRec
    BY ElementOfSeq
  <2> QED
    BY <2>1 DEF JobRec
<1> DEFINE t == PrsIn(s)
<1>3. t = [i \in 1..Len(s) |-> s[i].pr]
  BY <1>1 DEF PrsIn
<1>4. t \in [1..Len(s) -> PRs]
  BY <1>2, <1>3
<1>5. t \in Seq(PRs)
  BY <1>1, <1>4, SeqDef
<1>6. Len(t) = Len(s)
  BY <1>1, <1>4, <1>5, LenProperties
<1> QED
  BY <1>1, <1>3, <1>5, <1>6

\* u has the elements of s, then those of t.
Joined(u, s, t) ==
  /\ Len(s) \in Nat /\ Len(t) \in Nat
  /\ Len(u) = Len(s) + Len(t) /\ DOMAIN u = 1..(Len(s) + Len(t))
  /\ \A i \in 1..Len(s) : u[i] = s[i]
  /\ \A i \in 1..Len(t) : u[Len(s) + i] = t[i]
  /\ \A i \in 1..(Len(s) + Len(t)) :
       i \in 1..Len(s) \/ \E j \in 1..Len(t) : i = Len(s) + j

LEMMA ConcatPlaces ==
  ASSUME NEW S, NEW s \in Seq(S), NEW t \in Seq(S)
  PROVE  s \o t \in Seq(S) /\ Joined(s \o t, s, t)
<1>1. /\ s \o t \in Seq(S)
      /\ Len(s \o t) = Len(s) + Len(t)
      /\ \A i \in 1..(Len(s) + Len(t)) :
           (s \o t)[i] = IF i <= Len(s) THEN s[i] ELSE t[i - Len(s)]
  BY ConcatProperties
<1>2. Len(s) \in Nat /\ Len(t) \in Nat /\ DOMAIN (s \o t) = 1..(Len(s) + Len(t))
  BY <1>1, LenProperties
<1> DEFINE m == Len(s)
           n == Len(t)
           u == s \o t
<1> HIDE DEF m, n, u
<1>3. m \in Nat /\ n \in Nat /\ \A i \in 1..(m + n) : u[i] = IF i <= m THEN s[i] ELSE t[i - m]
  BY <1>1, <1>2 DEF m, n, u
<1>4. \A i \in 1..m : i \in 1..(m + n) /\ i <= m
  BY <1>3
<1>5. \A i \in 1..n : m + i \in 1..(m + n) /\ ~(m + i <= m) /\ (m + i) - m = i
  BY <1>3
<1>6. \A i \in 1..(m + n) : i \notin 1..m => i - m \in 1..n /\ i = m + (i - m)
  BY <1>3
<1> QED
  BY <1>1, <1>2, <1>3, <1>4, <1>5, <1>6 DEF m, n, u, Joined

\* The reviews a step of the queue begins are a sequence of pull requests, and
\* what runJob() is called for has their jobs.
JobsOf(new) == [i \in 1..Len(new) |-> Job(new[i])]

LEMMA BatchProperties ==
  ASSUME NEW new \in Queue!Batches
  PROVE  /\ new \in Seq(PRs) /\ Len(new) \in Nat /\ DOMAIN new = 1..Len(new)
         /\ \A i, j \in 1..Len(new) : new[i] = new[j] => i = j
         /\ JobsOf(new) \in Seq(JobRec) /\ Len(JobsOf(new)) = Len(new)
         /\ Queue!ToSet(new) = {new[i] : i \in 1..Len(new)}
<1>1. PICK n \in 0..Limit : /\ new \in [1..n -> PRs]
                            /\ \A i, j \in 1..n : new[i] = new[j] => i = j
  BY DEF Queue!Batches
<1>2. n \in Nat
  BY <1>1, SizesAssumption
<1>3. new \in Seq(PRs) /\ DOMAIN new = 1..n
  BY <1>1, <1>2, SeqDef
<1>4. Len(new) = n
  BY <1>2, <1>3, LenProperties
<1>5. JobsOf(new) \in [1..n -> JobRec]
  BY <1>1, <1>4, NewJob DEF JobsOf
<1>6. JobsOf(new) \in Seq(JobRec) /\ DOMAIN JobsOf(new) = 1..n
  BY <1>2, <1>5, SeqDef
<1>7. Len(JobsOf(new)) = n
  BY <1>2, <1>6, LenProperties
<1>8. Queue!ToSet(new) = {new[i] : i \in 1..Len(new)}
  BY <1>3, <1>4 DEF Queue!ToSet
<1> QED
  BY <1>1, <1>2, <1>3, <1>4, <1>6, <1>7, <1>8

\* What a step of the queue does to the calls of runJob(), `kept` going on.
BeginsAll(new, kept, due, owing) ==
  /\ jobs' = kept \o JobsOf(new)
  /\ \A i \in 1..Len(new) : due[new[i]] > 0
  /\ wanted' = [k \in PRs |-> IF \E i \in 1..Len(new) : new[i] = k
                              THEN due[k] - 1 ELSE due[k]]
  /\ owed' = owing \ {new[i] : i \in 1..Len(new)}
  /\ Durable => \A i \in 1..Len(kept), j \in 1..Len(new) : kept[i].pr # new[j]

Begins(kept, due, owing) == \E new \in Queue!Batches : BeginsAll(new, kept, due, owing)

LEMMA QueueEffect ==
  ASSUME NEW kept \in Seq(JobRec), NEW due \in [PRs -> Nat], NEW owing,
         QueueStep(kept), Queue!Proceed(PrsIn(kept), due, owing)
  PROVE  Begins(kept, due, owing)
<1> DEFINE prs == PrsIn(kept)
<1>p. /\ prs \in Seq(PRs) /\ Len(prs) = Len(kept) /\ Len(kept) \in Nat
      /\ \A i \in 1..Len(kept) : prs[i] = kept[i].pr
  BY PrsOf, LenProperties
<1>q. Queue!Proceed(prs, due, owing)
  OBVIOUS
<1> HIDE DEF prs
<1>1. PICK b \in Queue!Batches : jobs' = kept \o [i \in DOMAIN b |-> Job(b[i])]
  BY DEF QueueStep
<1>2. jobs' = kept \o JobsOf(b)
  BY <1>1, BatchProperties DEF JobsOf
<1>3. PICK new \in Queue!Batches :
        /\ \A k \in Queue!ToSet(new) : due[k] > 0
        /\ Durable => Queue!ToSet(new) \cap Queue!ToSet(prs) = {}
        /\ Running' = prs \o new
        /\ wanted' = [k \in PRs |-> IF k \in Queue!ToSet(new) THEN due[k] - 1 ELSE due[k]]
        /\ owed' = owing \ Queue!ToSet(new)
  BY <1>q DEF Queue!Proceed, Running, PrsIn
\* The jobs that began are those of the reviews that did.
<1>4. b = new
  <2>1. /\ b \in Seq(PRs) /\ Len(b) \in Nat /\ DOMAIN b = 1..Len(b)
        /\ JobsOf(b) \in Seq(JobRec) /\ Len(JobsOf(b)) = Len(b)
        /\ new \in Seq(PRs) /\ Len(new) \in Nat /\ DOMAIN new = 1..Len(new)
    BY BatchProperties
  <2> DEFINE s == jobs'
             t == JobsOf(b)
  <2>2. s \in Seq(JobRec) /\ Len(s) = Len(kept) + Len(b)
        /\ \A i \in 1..Len(b) : s[Len(kept) + i] = t[i]
    <3>1. t \in Seq(JobRec) /\ s = kept \o t /\ Len(t) = Len(b)
      BY <1>2, <2>1
    <3> HIDE DEF t, s
    <3>2. s \in Seq(JobRec) /\ Joined(s, kept, t)
      BY <3>1, ConcatPlaces
    <3> QED
      BY <3>1, <3>2 DEF Joined
  <2>3. Running' = PrsIn(s)
    BY DEF Running, PrsIn
  <2> HIDE DEF s
  <2>4. Len(Running') = Len(kept) + Len(b)
        /\ \A i \in 1..(Len(kept) + Len(b)) : Running'[i] = s[i].pr
    BY <2>2, <2>3, PrsOf
  <2>5. Len(Running') = Len(kept) + Len(new)
        /\ \A i \in 1..Len(new) : Running'[Len(kept) + i] = new[i]
    <3>1. /\ prs \in Seq(PRs) /\ new \in Seq(PRs)
          /\ Running' = prs \o new /\ Len(prs) = Len(kept)
      BY <1>3, <1>p, <2>1
    <3>2. Joined(prs \o new, prs, new)
      BY <3>1, ConcatPlaces
    <3> QED
      BY <3>1, <3>2 DEF Joined
  <2>6. Len(b) = Len(new)
    <3>1. \A x, y, z \in Nat : x + y = x + z => y = z
      OBVIOUS
    <3>2. Len(kept) \in Nat /\ Len(b) \in Nat /\ Len(new) \in Nat
      BY <1>p, <2>1
    <3>3. Len(kept) + Len(b) = Len(kept) + Len(new)
      BY <2>4, <2>5
    <3> QED
      BY <3>1, <3>2, <3>3
  <2>7. ASSUME NEW i \in 1..Len(b) PROVE b[i] = new[i]
    <3>1. Len(kept) + i \in 1..(Len(kept) + Len(b))
      BY <1>p, <2>1
    <3>2. Running'[Len(kept) + i] = t[i].pr
      BY <2>2, <2>4, <3>1
    <3>3. t[i].pr = b[i]
      BY DEF JobsOf, Job
    <3> QED
      BY <2>5, <2>6, <3>2, <3>3
  <2>8. b = [i \in 1..Len(b) |-> b[i]] /\ new = [i \in 1..Len(new) |-> new[i]]
    BY <2>1
  <2> QED
    BY <2>6, <2>7, <2>8
<1>5. Queue!ToSet(new) = {new[i] : i \in 1..Len(new)}
  BY BatchProperties
<1>6. Durable => \A i \in 1..Len(kept), j \in 1..Len(new) : kept[i].pr # new[j]
  <2>1. DOMAIN prs = 1..Len(kept)
    BY <1>p, LenProperties
  <2>2. \A i \in 1..Len(kept) : prs[i] \in Queue!ToSet(prs)
    BY <2>1 DEF Queue!ToSet
  <2> QED
    BY <1>3, <1>5, <1>p, <2>2
<1>7. \A k : k \in Queue!ToSet(new) <=> \E i \in 1..Len(new) : new[i] = k
  BY <1>5
<1>8. BeginsAll(new, kept, due, owing)
  BY <1>2, <1>3, <1>4, <1>5, <1>6, <1>7 DEF BeginsAll
<1> QED
  BY <1>8 DEF Begins

----------------------------------------------------------------------------
(* How many reviews have begun and have no row yet.                           *)

LEMMA FreshFinite ==
  ASSUME NEW s \in Seq(JobRec), NEW k
  PROVE  IsFiniteSet(FreshIn(s, k)) /\ Cardinality(FreshIn(s, k)) \in Nat
<1>1. Len(s) \in Nat
  BY LenProperties
<1>2. IsFiniteSet(1..Len(s))
  BY <1>1, FS_Interval
<1>3. FreshIn(s, k) \in SUBSET (1..Len(s))
  BY DEF FreshIn
<1>4. IsFiniteSet(FreshIn(s, k))
  BY <1>2, <1>3, FS_Subset
<1> QED
  BY <1>4, FS_CardinalityType

\* Fewer jobs, fewer of them fresh.
LEMMA FreshKept ==
  ASSUME NEW s \in Seq(JobRec), NEW t \in Seq(JobRec),
         NEW f \in Injection(1..Len(t), 1..Len(s)),
         \A j \in 1..Len(t) : t[j] = s[f[j]], NEW k
  PROVE  Cardinality(FreshIn(t, k)) <= Cardinality(FreshIn(s, k))
<1> DEFINE A == FreshIn(t, k)
           B == FreshIn(s, k)
           g == [j \in A |-> f[j]]
<1>0. /\ f \in [1..Len(t) -> 1..Len(s)]
      /\ \A a, b \in 1..Len(t) : f[a] = f[b] => a = b
  BY DEF Injection, IsInjective
<1>1. A \subseteq 1..Len(t)
  BY DEF FreshIn
<1>2. \A j \in A : f[j] \in B
  BY <1>0, <1>1 DEF FreshIn
<1>3. g \in Injection(A, B)
  BY <1>0, <1>1, <1>2 DEF Injection, IsInjective
<1>4. IsFiniteSet(B)
  BY FreshFinite
<1> QED
  BY <1>3, <1>4, FS_Injection

\* A review that begins is one more that has no row.
LEMMA FreshBegins ==
  ASSUME NEW s \in Seq(JobRec), NEW new \in Queue!Batches, NEW k
  PROVE  Cardinality(FreshIn(s \o JobsOf(new), k))
           = Cardinality(FreshIn(s, k)) + (IF \E j \in 1..Len(new) : new[j] = k THEN 1 ELSE 0)
<1> DEFINE t == s \o JobsOf(new)
           m == Len(s)
           n == Len(new)
<1>b. /\ n \in Nat /\ JobsOf(new) \in Seq(JobRec) /\ Len(JobsOf(new)) = n
      /\ \A i, j \in 1..n : new[i] = new[j] => i = j
  BY BatchProperties
<1>1. /\ m \in Nat /\ Len(t) = m + n
      /\ \A i \in 1..m : t[i] = s[i]
      /\ \A j \in 1..n : t[m + j] = JobsOf(new)[j]
      /\ \A i \in 1..(m + n) : i \in 1..m \/ \E j \in 1..n : i = m + j
  <2> DEFINE js == JobsOf(new)
  <2>1. js \in Seq(JobRec) /\ Len(js) = n
    BY <1>b
  <2> HIDE DEF js
  <2>2. Joined(s \o js, s, js)
    BY <2>1, ConcatPlaces
  <2>3. t = s \o js
    BY DEF js
  <2> HIDE DEF t, m, n
  <2>4. Joined(t, s, js) /\ Len(js) = n
    BY <2>1, <2>2, <2>3
  <2> QED
    BY <2>4 DEF Joined, js, m
<1>2. \A j \in 1..n : t[m + j].pr = new[j] /\ t[m + j].at = "start"
  BY <1>1 DEF Job, JobsOf
<1> HIDE DEF t, m, n
<1>3. /\ \A i \in 1..m : i \in 1..(m + n)
      /\ \A j \in 1..n : m + j \in 1..(m + n) /\ m + j \notin 1..m
  BY <1>b, <1>1
<1>4. FreshIn(s, k) \subseteq 1..m
  BY DEF FreshIn, m
<1>5. \A i \in 1..m : i \in FreshIn(t, k) <=> i \in FreshIn(s, k)
  BY <1>1, <1>3 DEF FreshIn, m
<1>6. \A j \in 1..n : m + j \in FreshIn(t, k) <=> new[j] = k
  BY <1>1, <1>2, <1>3 DEF FreshIn
<1>7. \A i \in FreshIn(t, k) : i \in 1..m \/ \E j \in 1..n : i = m + j
  BY <1>1 DEF FreshIn
<1>8. ASSUME NEW j \in 1..n, new[j] = k
      PROVE  Cardinality(FreshIn(t, k)) = Cardinality(FreshIn(s, k)) + 1
  <2>1. m + j \notin FreshIn(s, k)
    BY <1>3, <1>4
  <2>2. FreshIn(t, k) = FreshIn(s, k) \cup {m + j}
    BY <1>3, <1>4, <1>5, <1>6, <1>7, <1>8, <1>b
  <2> QED
    BY <2>1, <2>2, FreshFinite, FS_AddElement
<1>9. CASE \A j \in 1..n : new[j] # k
  <2>1. FreshIn(t, k) = FreshIn(s, k)
    BY <1>4, <1>5, <1>6, <1>7, <1>9
  <2> QED
    BY <1>9, <2>1, FreshFinite DEF t, n
<1>10. CASE \E j \in 1..n : new[j] = k
  BY <1>8, <1>10 DEF t, n
<1> QED
  BY <1>9, <1>10

\* A job that has begun is not fresh any more.
LEMMA FreshGo ==
  ASSUME NEW s \in Seq(JobRec), NEW i \in 1..Len(s), NEW job \in JobRec,
         job.at # "start", NEW k
  PROVE  /\ Cardinality(FreshIn([s EXCEPT ![i] = job], k)) <= Cardinality(FreshIn(s, k))
         /\ s[i].at = "start" /\ s[i].pr = k =>
              Cardinality(FreshIn([s EXCEPT ![i] = job], k)) = Cardinality(FreshIn(s, k)) - 1
<1> DEFINE t == [s EXCEPT ![i] = job]
<1>1. /\ Len(t) = Len(s)
      /\ \A j \in 1..Len(s) : t[j] = IF j = i THEN job ELSE s[j]
  BY ExceptSeq
<1> HIDE DEF t
<1>2. FreshIn(t, k) = FreshIn(s, k) \ {i}
  BY <1>1 DEF FreshIn
<1>3. s[i].at = "start" /\ s[i].pr = k => i \in FreshIn(s, k)
  BY DEF FreshIn
<1>4. IsFiniteSet(FreshIn(s, k)) /\ Cardinality(FreshIn(s, k)) \in Nat
  BY FreshFinite
<1>5. Cardinality(FreshIn(s, k) \ {i}) =
        IF i \in FreshIn(s, k) THEN Cardinality(FreshIn(s, k)) - 1
                               ELSE Cardinality(FreshIn(s, k))
  BY <1>4, FS_RemoveElement
<1>6. \A n \in Nat : n <= n /\ n - 1 <= n
  OBVIOUS
<1> QED
  BY <1>2, <1>3, <1>4, <1>5, <1>6 DEF t

----------------------------------------------------------------------------
\* A step of the queue, which lets go on the calls of runJob() that it keeps.
LEMMA QueuePreserves ==
  ASSUME IInv, NEW kept \in Seq(JobRec),
         NEW f \in Injection(1..Len(kept), 1..Len(jobs)),
         \A j \in 1..Len(kept) : kept[j] = jobs[f[j]],
         NEW due \in [PRs -> Nat], NEW owing \in SUBSET PRs,
         Begins(kept, due, owing), UNCHANGED <<head, comments, rows>>
  PROVE  /\ jobs' \in Seq(JobRec) /\ wanted' \in [PRs -> Nat] /\ owed' \subseteq PRs
         /\ JobsInv'
         /\ \A k \in PRs : Cardinality(Fresh(k)') + wanted'[k] <= Cardinality(Fresh(k)) + due[k]
<1>f. /\ f \in [1..Len(kept) -> 1..Len(jobs)]
      /\ \A a, b \in 1..Len(kept) : f[a] = f[b] => a = b
  BY DEF Injection, IsInjective
<1>t. /\ jobs \in Seq(JobRec) /\ DOMAIN jobs = 1..Len(jobs)
      /\ DOMAIN kept = 1..Len(kept) /\ Len(kept) \in Nat
      /\ head \in [PRs -> 0..MaxHeads]
  BY LenProperties DEF IInv, Types
\* The jobs that go on are as they were.
<1>k. /\ \A j \in 1..Len(kept) : JobOK(kept[j])' /\ (Durable => SoloOK(kept[j])')
      /\ Durable => \A a, b \in 1..Len(kept) : kept[a].pr = kept[b].pr => a = b
  <2>1. \A j \in 1..Len(kept) : JobOK(kept[j]) /\ (Durable => SoloOK(kept[j]))
    BY <1>f, <1>t DEF IInv, JobsInv
  <2>2. ASSUME NEW x PROVE /\ JobOK(x) => JobOK(x)'
                           /\ SoloOK(x) => SoloOK(x)'
    BY DEF JobOK, SoloOK, Shown, Reviews
  <2>3. Durable => \A a, b \in 1..Len(kept) : kept[a].pr = kept[b].pr => a = b
    <3>1. ASSUME Durable, NEW a \in 1..Len(kept), NEW b \in 1..Len(kept),
                 kept[a].pr = kept[b].pr
          PROVE  a = b
      <4>1. f[a] \in DOMAIN jobs /\ f[b] \in DOMAIN jobs /\ jobs[f[a]].pr = jobs[f[b]].pr
        BY <3>1, <1>f, <1>t
      <4>2. f[a] = f[b]
        BY <3>1, <4>1 DEF IInv, JobsInv
      <4> QED
        BY <1>f, <4>2
    <3> QED
      BY <3>1
  <2> QED
    BY <2>1, <2>2, <2>3
<1>n. \A k \in PRs : /\ Cardinality(FreshIn(kept, k)) \in Nat
                     /\ Cardinality(FreshIn(jobs, k)) \in Nat
                     /\ Cardinality(FreshIn(kept, k)) <= Cardinality(FreshIn(jobs, k))
  BY <1>t, FreshFinite, FreshKept
<1>1. PICK new \in Queue!Batches : BeginsAll(new, kept, due, owing)
  BY DEF Begins
<1> DEFINE m == Len(kept)
           n == Len(new)
<1>b. /\ n \in Nat /\ JobsOf(new) \in Seq(JobRec) /\ Len(JobsOf(new)) = n
      /\ new \in Seq(PRs) /\ DOMAIN new = 1..n
      /\ \A i, j \in 1..n : new[i] = new[j] => i = j
  BY BatchProperties
<1>2. /\ jobs' \in Seq(JobRec) /\ m \in Nat /\ DOMAIN jobs' = 1..(m + n)
      /\ \A i \in 1..m : jobs'[i] = kept[i]
      /\ \A j \in 1..n : jobs'[m + j] = Job(new[j])
      /\ \A i \in 1..(m + n) : i \in 1..m \/ \E j \in 1..n : i = m + j
  <2>1. jobs' = kept \o JobsOf(new)
    BY <1>1 DEF BeginsAll
  <2>2. \A j \in 1..n : JobsOf(new)[j] = Job(new[j])
    BY DEF JobsOf
  <2> DEFINE js == JobsOf(new)
  <2>3. js \in Seq(JobRec) /\ Len(js) = n /\ jobs' = kept \o js
    BY <1>b, <2>1
  <2>4. \A j \in 1..n : js[j] = Job(new[j])
    BY <2>2
  <2> HIDE DEF js
  <2>5. kept \o js \in Seq(JobRec) /\ Joined(kept \o js, kept, js)
    BY <2>3, ConcatPlaces
  <2> HIDE DEF m, n
  <2>6. jobs' \in Seq(JobRec) /\ Joined(jobs', kept, js) /\ Len(js) = n
    BY <2>3, <2>5
  <2> QED
    BY <2>4, <2>6 DEF Joined, m
<1>e. \A j \in 1..n : new[j] \in PRs
  BY <1>b, ElementOfSeq
<1> HIDE DEF m, n
<1>3. wanted' \in [PRs -> Nat] /\ owed' \subseteq PRs
  <2>1. \A k \in PRs : (\E i \in 1..n : new[i] = k) => due[k] - 1 \in Nat
    <3>1. \A x \in Nat : x > 0 => x - 1 \in Nat
      OBVIOUS
    <3>2. \A k \in PRs : due[k] \in Nat
      OBVIOUS
    <3> QED
      BY <1>1, <3>1, <3>2 DEF BeginsAll, n
  <2> QED
    BY <1>1, <2>1 DEF BeginsAll, n
<1>4. ASSUME NEW k \in PRs PROVE JobOK(Job(k))' /\ SoloOK(Job(k))'
  <2>1. 0 <= head[k]
    BY <1>t, Sizes
  <2>2. JobOK(Job(k))'
    BY <2>1 DEF JobOK, Job
  <2>3. SoloOK(Job(k))'
    BY DEF SoloOK, Job
  <2> QED
    BY <2>2, <2>3
<1>5. JobsInv'
  <2>1. (\A i \in DOMAIN jobs : JobOK(jobs[i]) /\ (Durable => SoloOK(jobs[i])))'
    <3> SUFFICES ASSUME NEW i \in 1..(m + n)
                 PROVE  (JobOK(jobs[i]) /\ (Durable => SoloOK(jobs[i])))'
      BY <1>2
    <3>1. CASE i \in 1..m
      BY <1>2, <1>k, <3>1 DEF m
    <3>2. ASSUME NEW j \in 1..n, i = m + j
          PROVE  (JobOK(jobs[i]) /\ (Durable => SoloOK(jobs[i])))'
      <4>1. new[j] \in PRs /\ jobs'[i] = Job(new[j])
        BY <1>2, <1>e, <3>2
      <4> QED BY <1>4, <4>1
    <3> QED
      BY <1>2, <3>1, <3>2
  <2>2. ASSUME Durable, NEW a \in 1..(m + n), NEW b \in 1..(m + n), jobs'[a].pr = jobs'[b].pr
        PROVE  a = b
    <3>1. \A j \in 1..n : jobs'[m + j].pr = new[j]
      <4>1. \A k : Job(k).pr = k
        BY DEF Job
      <4> QED
        BY <1>2, <4>1
    <3>2. \A x \in 1..m, j \in 1..n : jobs'[x].pr # new[j]
      BY <1>1, <1>2, <2>2 DEF BeginsAll, m, n
    <3>3. \A x, y \in 1..m : jobs'[x].pr = jobs'[y].pr => x = y
      BY <1>2, <1>k, <2>2 DEF m
    <3>4. CASE a \in 1..m /\ b \in 1..m
      BY <2>2, <3>3, <3>4
    <3>5. ASSUME NEW j \in 1..n, a = m + j PROVE a = b
      <4>1. jobs'[b].pr = new[j]
        BY <2>2, <3>1, <3>5
      <4>2. b \notin 1..m
        BY <3>2, <4>1
      <4>3. PICK i \in 1..n : b = m + i
        BY <1>2, <4>2
      <4>4. new[i] = new[j]
        BY <3>1, <4>1, <4>3
      <4>5. i = j
        BY <1>b, <4>4 DEF n
      <4> QED
        BY <3>5, <4>3, <4>5
    <3>6. ASSUME NEW j \in 1..n, b = m + j, a \in 1..m PROVE FALSE
      BY <2>2, <3>1, <3>2, <3>6
    <3> QED
      BY <1>2, <3>4, <3>5, <3>6
  <2> QED
    BY <1>2, <2>1, <2>2 DEF JobsInv
<1>6. ASSUME NEW k \in PRs
      PROVE  Cardinality(Fresh(k)') + wanted'[k] <= Cardinality(Fresh(k)) + due[k]
  <2> DEFINE one == IF \E j \in 1..n : new[j] = k THEN 1 ELSE 0
  <2>1. Cardinality(FreshIn(jobs', k)) = Cardinality(FreshIn(kept, k)) + one
    BY <1>1, FreshBegins DEF BeginsAll, n
  <2>2. due[k] \in Nat /\ wanted'[k] = due[k] - one
    BY <1>1 DEF BeginsAll, n
  <2>3. /\ Cardinality(FreshIn(kept, k)) \in Nat /\ Cardinality(FreshIn(jobs, k)) \in Nat
        /\ Cardinality(FreshIn(kept, k)) <= Cardinality(FreshIn(jobs, k))
    BY <1>n
  <2>4. one \in {0, 1}
    OBVIOUS
  <2> HIDE DEF one
  <2>5. \A a, b, d \in Nat : a <= b => /\ (a + 1) + (d - 1) <= b + d
                                       /\ (a + 0) + (d - 0) <= b + d
    OBVIOUS
  <2>6. Cardinality(FreshIn(jobs', k)) + wanted'[k] <= Cardinality(FreshIn(jobs, k)) + due[k]
    BY <2>1, <2>2, <2>3, <2>4, <2>5
  <2> QED
    BY <2>6 DEF Fresh, FreshIn
<1> QED
  BY <1>2, <1>3, <1>5, <1>6

----------------------------------------------------------------------------
(* One call of runJob() goes on.                                              *)

LEMMA Counts ==
  ASSUME Types, NEW k \in PRs
  PROVE  /\ IsFiniteSet(RowsOf(k)) /\ Cardinality(RowsOf(k)) \in Nat
         /\ IsFiniteSet(Coming(k)) /\ Cardinality(Coming(k)) \in Nat
         /\ Cardinality(Fresh(k)) \in Nat /\ wanted[k] \in Nat
         /\ asked[k] \in Nat /\ MaxKills - budget.kill \in Nat
         /\ asked[k] + (MaxKills - budget.kill) \in Nat
<1>1. IsFiniteSet(RowsOf(k))
  <2>1. DOMAIN rows = 1..Len(rows) /\ Len(rows) \in Nat
    BY LenProperties DEF Types
  <2>2. IsFiniteSet(DOMAIN rows)
    BY <2>1, FS_Interval
  <2>3. RowsOf(k) \in SUBSET DOMAIN rows
    BY DEF RowsOf
  <2> QED
    BY <2>2, <2>3, FS_Subset
<1>2. IsFiniteSet(Coming(k))
  <2>1. Coming(k) \in SUBSET deliveries
    BY DEF Coming
  <2> QED
    BY <2>1, FS_Subset DEF Types
<1>3. Cardinality(Fresh(k)) \in Nat
  BY FreshFinite DEF Fresh, Types
<1>4. wanted[k] \in Nat /\ asked[k] \in Nat
  BY Sizes DEF Types
<1>5. MaxKills - budget.kill \in Nat
  BY Sizes DEF Types, BudgetRec
<1>6. asked[k] + (MaxKills - budget.kill) \in Nat
  BY <1>4, <1>5
<1> QED
  BY <1>1, <1>2, <1>3, <1>4, <1>5, <1>6, FS_CardinalityType

LEMMA SpendFault ==
  ASSUME Types, Spend("fault")
  PROVE  budget' \in BudgetRec /\ budget'.kill = budget.kill
<1>1. budget \in BudgetRec /\ budget.fault > 0
  BY DEF Types, Spend
<1>2. budget.fault - 1 \in Nat
  BY <1>1 DEF BudgetRec
<1>3. budget' = [budget EXCEPT !.fault = budget.fault - 1]
  BY DEF Spend
<1> QED
  BY <1>1, <1>2, <1>3 DEF BudgetRec

LEMMA GoJobs ==
  ASSUME IInv, NEW i \in DOMAIN jobs, NEW job \in JobRec, Go(i, job),
         job.pr = jobs[i].pr, JobOK(job)', Durable => SoloOK(job)', head' = head,
         \A r \in DOMAIN rows : r \in DOMAIN rows' /\ rows'[r].pr = rows[r].pr,
         \A k \in PRs : k # job.pr => comments'[k] = comments[k],
         \A k \in PRs : \A c \in DOMAIN comments[k] :
           c \in DOMAIN comments'[k] /\ comments'[k][c].opens = comments[k][c].opens
  PROVE  jobs' \in Seq(JobRec) /\ JobsInv'
<1>1. jobs \in Seq(JobRec) /\ DOMAIN jobs = 1..Len(jobs)
  BY LenProperties DEF IInv, Types
<1>2. /\ jobs' \in Seq(JobRec) /\ DOMAIN jobs' = DOMAIN jobs
      /\ \A j \in DOMAIN jobs : jobs'[j] = IF j = i THEN job ELSE jobs[j]
  <2>1. jobs' = [jobs EXCEPT ![i] = job] /\ i \in 1..Len(jobs)
    BY <1>1 DEF Go
  <2>2. /\ jobs' \in Seq(JobRec) /\ Len(jobs') = Len(jobs)
        /\ \A j \in 1..Len(jobs) : jobs'[j] = IF j = i THEN job ELSE jobs[j]
    BY <1>1, <2>1, ExceptSeq
  <2>3. DOMAIN jobs' = 1..Len(jobs)
    BY <2>2, LenProperties
  <2> QED
    BY <1>1, <2>2, <2>3
<1>3. \A j \in DOMAIN jobs : jobs[j].pr \in PRs
  <2>1. \A j \in DOMAIN jobs : jobs[j] \in JobRec
    BY <1>1, ElementOfSeq
  <2> QED
    BY <2>1 DEF JobRec
<1>4. \A j \in DOMAIN jobs : JobOK(jobs[j]) /\ (Durable => SoloOK(jobs[j]))
  BY DEF IInv, JobsInv
<1>5. ASSUME NEW other, other.pr \in PRs, JobOK(other) PROVE JobOK(other)'
  BY <1>5 DEF JobOK
<1>6. ASSUME NEW other, other.pr \in PRs, other.pr # job.pr, SoloOK(other) PROVE SoloOK(other)'
  BY <1>6 DEF SoloOK, Shown, Reviews
<1>7. Durable => \A a, b \in DOMAIN jobs : jobs[a].pr = jobs[b].pr => a = b
  BY DEF IInv, JobsInv
<1>8. (\A j \in DOMAIN jobs : JobOK(jobs[j]))'
  BY <1>2, <1>3, <1>4, <1>5
<1>9. Durable => (\A j \in DOMAIN jobs : SoloOK(jobs[j]))'
  BY <1>2, <1>3, <1>4, <1>6, <1>7
<1>10. Durable => \A a, b \in DOMAIN jobs' : jobs'[a].pr = jobs'[b].pr => a = b
  BY <1>2, <1>7
<1> QED
  BY <1>2, <1>8, <1>9, <1>10 DEF JobsInv

LEMMA JobFacts ==
  ASSUME IInv, NEW i \in DOMAIN jobs
  PROVE  /\ jobs[i] \in JobRec /\ jobs[i].pr \in PRs /\ i \in 1..Len(jobs)
         /\ JobOK(jobs[i]) /\ (Durable => SoloOK(jobs[i]))
<1>1. jobs \in Seq(JobRec) /\ i \in 1..Len(jobs)
  BY LenProperties DEF IInv, Types
<1>2. jobs[i] \in JobRec
  BY <1>1, ElementOfSeq
<1>3. jobs[i].pr \in PRs
  BY <1>2 DEF JobRec
<1> QED
  BY <1>1, <1>2, <1>3 DEF IInv, JobsInv

LEMMA FreshStep ==
  ASSUME IInv, NEW i \in DOMAIN jobs, NEW job \in JobRec, Go(i, job), job.at # "start",
         NEW k \in PRs
  PROVE  /\ Cardinality(Fresh(k)') \in Nat
         /\ Cardinality(Fresh(k)') <= Cardinality(Fresh(k))
         /\ jobs[i].at = "start" /\ jobs[i].pr = k =>
              Cardinality(Fresh(k)') = Cardinality(Fresh(k)) - 1
<1>1. jobs \in Seq(JobRec) /\ i \in 1..Len(jobs)
  BY JobFacts DEF IInv, Types
<1> DEFINE t == [jobs EXCEPT ![i] = job]
<1>2. t \in Seq(JobRec)
  BY <1>1, ExceptSeq
<1>3. /\ Cardinality(FreshIn(t, k)) <= Cardinality(FreshIn(jobs, k))
      /\ jobs[i].at = "start" /\ jobs[i].pr = k =>
           Cardinality(FreshIn(t, k)) = Cardinality(FreshIn(jobs, k)) - 1
  BY <1>1, FreshGo
<1>4. Cardinality(FreshIn(t, k)) \in Nat
  BY <1>2, FreshFinite
<1>5. Fresh(k)' = FreshIn(t, k) /\ Fresh(k) = FreshIn(jobs, k)
  BY DEF Go, Fresh, FreshIn
<1> HIDE DEF t
<1> QED
  BY <1>3, <1>4, <1>5

\* A step after which GitHub and Postgres are as they were.
LEMMA QuietGo ==
  ASSUME IInv, NEW i \in DOMAIN jobs, NEW job \in JobRec, Go(i, job),
         job.pr = jobs[i].pr, job.at # "start", JobOK(job), Durable => SoloOK(job),
         UNCHANGED <<github, records, asked>>,
         budget' \in BudgetRec, budget'.kill = budget.kill
  PROVE  IInv'
<1>1. UNCHANGED <<head, open, deliveries, comments, rows, counted, wanted, owed, decided, asked>>
  BY DEF github, records, queue, Go
<1>2. jobs' \in Seq(JobRec) /\ JobsInv'
  <2>1. JobOK(job)' /\ (Durable => SoloOK(job)')
    BY <1>1 DEF JobOK, SoloOK, Shown, Reviews
  <2> QED
    BY <1>1, <2>1, GoJobs
<1>3. Types'
  BY <1>1, <1>2 DEF IInv, Types
<1>4. CommentsInv' /\ ShownInv' /\ OneInv'
  BY <1>1 DEF IInv, CommentsInv, ShownInv, OneInv, Shown, Reviews, Opening
<1>5. PaidInv'
  <2> SUFFICES ASSUME NEW k \in PRs
               PROVE  Cardinality(RowsOf(k)) + Cardinality(Fresh(k)') + wanted[k]
                        + Cardinality(Coming(k)) <= asked[k] + (MaxKills - budget.kill)
    BY <1>1 DEF PaidInv, RowsOf, Coming, Actionable
  <2>1. Cardinality(Fresh(k)') \in Nat /\ Cardinality(Fresh(k)') <= Cardinality(Fresh(k))
    BY FreshStep
  <2>2. /\ Cardinality(RowsOf(k)) \in Nat /\ Cardinality(Coming(k)) \in Nat
        /\ Cardinality(Fresh(k)) \in Nat /\ wanted[k] \in Nat
        /\ asked[k] \in Nat /\ MaxKills - budget.kill \in Nat
    BY Counts DEF IInv
  <2>3. Cardinality(RowsOf(k)) + Cardinality(Fresh(k)) + wanted[k] + Cardinality(Coming(k))
          <= asked[k] + (MaxKills - budget.kill)
    BY DEF IInv, PaidInv
  <2>4. \A a, b, c, d, e, f, g \in Nat :
          c <= b /\ a + b + d + e <= f + g => a + c + d + e <= f + g
    OBVIOUS
  <2> QED
    BY <2>1, <2>2, <2>3, <2>4
<1> QED
  BY <1>2, <1>3, <1>4, <1>5 DEF IInv

\* What a job that has thrown still remembers.
LEMMA ThrownJob ==
  ASSUME IInv, NEW i \in DOMAIN jobs, Throw(i)
  PROVE  \E job \in JobRec :
           /\ job = [jobs[i] EXCEPT !.at = "finish", !.threw = TRUE]
           /\ Go(i, job) /\ job.pr = jobs[i].pr /\ job.at # "start"
           /\ JobOK(job) /\ SoloOK(job)
           /\ job.row = jobs[i].row /\ job.head = jobs[i].head /\ job.found = jobs[i].found
           /\ job.at = "finish" /\ job.threw
<1> DEFINE job == [jobs[i] EXCEPT !.at = "finish", !.threw = TRUE]
<1>1. jobs[i] \in JobRec /\ JobOK(jobs[i]) /\ jobs[i].pr \in PRs
  BY JobFacts
<1>2. job \in JobRec
  BY <1>1 DEF JobRec, Stages
<1>3. /\ job.pr = jobs[i].pr /\ job.at = "finish" /\ job.threw
      /\ job.row = jobs[i].row /\ job.head = jobs[i].head /\ job.found = jobs[i].found
  BY <1>1 DEF JobRec
<1>4. Go(i, job)
  BY DEF Throw
<1> HIDE DEF job
<1>5. JobOK(job) /\ SoloOK(job)
  BY <1>1, <1>3 DEF JobOK, SoloOK
<1> QED
  BY <1>2, <1>3, <1>4, <1>5 DEF job

LEMMA RefusedPreserves ==
  ASSUME IInv, NEW i \in DOMAIN jobs, Throw(i), Spend("fault"),
         UNCHANGED <<github, records, asked>>
  PROVE  IInv'
<1>1. PICK job \in JobRec :
        /\ Go(i, job) /\ job.pr = jobs[i].pr /\ job.at # "start"
        /\ JobOK(job) /\ SoloOK(job)
  BY ThrownJob
<1>2. budget' \in BudgetRec /\ budget'.kill = budget.kill
  BY SpendFault DEF IInv
<1> QED
  BY <1>1, <1>2, QuietGo

LEMMA SameBudget ==
  ASSUME IInv, UNCHANGED budget
  PROVE  budget' \in BudgetRec /\ budget'.kill = budget.kill
BY DEF IInv, Types

LEMMA GetPrPreserves ==
  ASSUME IInv, NEW i \in DOMAIN jobs, GetPr(i)
  PROVE  IInv'
<1>0. jobs[i] \in JobRec /\ JobOK(jobs[i]) /\ jobs[i].pr \in PRs
  BY JobFacts
<1>1. CASE Refused(i)
  BY <1>1, RefusedPreserves DEF Refused
<1>2. CASE /\ Go(i, [jobs[i] EXCEPT !.at = "getFiles", !.head = head[jobs[i].pr]])
           /\ UNCHANGED <<github, records, asked, budget>>
  <2> DEFINE k == jobs[i].pr
             job == [jobs[i] EXCEPT !.at = "getFiles", !.head = head[k]]
  <2>1. head[k] \in 0..MaxHeads
    BY <1>0 DEF IInv, Types
  <2>2. job \in JobRec
    BY <1>0, <2>1 DEF JobRec, Stages
  <2>3. /\ job.pr = k /\ job.at = "getFiles" /\ job.head = head[k] /\ job.threw = jobs[i].threw
        /\ job.row = jobs[i].row /\ job.found = jobs[i].found
    BY <1>0 DEF JobRec
  <2>4. ~jobs[i].threw
    BY <1>0 DEF GetPr, At, JobOK
  <2>5. Go(i, job)
    BY <1>2
  <2> HIDE DEF job
  <2>6. JobOK(job)
    <3>1. \A n \in 0..MaxHeads : n <= n
      BY Sizes
    <3> QED
      BY <1>0, <2>1, <2>3, <2>4, <3>1 DEF JobOK
  <2>7. SoloOK(job)
    <3>1. \A c \in DOMAIN comments[k] : comments[k][c].head <= head[k]
      BY <1>0 DEF IInv, CommentsInv
    <3> QED
      BY <2>3, <3>1 DEF SoloOK
  <2> QED
    BY <1>2, <2>2, <2>3, <2>5, <2>6, <2>7, QuietGo, SameBudget
<1> QED
  BY <1>1, <1>2 DEF GetPr

LEMMA GetFilesPreserves ==
  ASSUME IInv, NEW i \in DOMAIN jobs, GetFiles(i)
  PROVE  IInv'
<1>0. jobs[i] \in JobRec /\ JobOK(jobs[i]) /\ jobs[i].pr \in PRs /\ (Durable => SoloOK(jobs[i]))
  BY JobFacts
<1>1. CASE Refused(i)
  BY <1>1, RefusedPreserves DEF Refused
<1>2. CASE /\ Go(i, [jobs[i] EXCEPT !.at = "ask"])
           /\ UNCHANGED <<github, records, asked, budget>>
  <2> DEFINE job == [jobs[i] EXCEPT !.at = "ask"]
  <2>2. job \in JobRec
    BY <1>0 DEF JobRec, Stages
  <2>3. /\ job.pr = jobs[i].pr /\ job.at = "ask" /\ job.head = jobs[i].head
        /\ job.threw = jobs[i].threw /\ job.row = jobs[i].row /\ job.found = jobs[i].found
    BY <1>0 DEF JobRec
  <2>4. ~jobs[i].threw /\ jobs[i].at = "getFiles"
    BY <1>0 DEF GetFiles, At, JobOK
  <2>5. Go(i, job)
    BY <1>2
  <2> HIDE DEF job
  <2>6. JobOK(job) /\ (Durable => SoloOK(job))
    BY <1>0, <2>3, <2>4 DEF JobOK, SoloOK
  <2> QED
    BY <1>2, <2>2, <2>3, <2>5, <2>6, QuietGo, SameBudget
<1> QED
  BY <1>1, <1>2 DEF GetFiles

LEMMA AskModelPreserves ==
  ASSUME IInv, NEW i \in DOMAIN jobs, AskModel(i)
  PROVE  IInv'
<1>0. jobs[i] \in JobRec /\ JobOK(jobs[i]) /\ jobs[i].pr \in PRs /\ (Durable => SoloOK(jobs[i]))
  BY JobFacts
<1>a. jobs[i].at = "ask" /\ ~jobs[i].threw /\ UNCHANGED <<github, records, asked>>
  BY <1>0 DEF AskModel, At, JobOK
\* A job that asks on, or has its answer.
<1>b. ASSUME NEW job \in JobRec, Go(i, job), job.pr = jobs[i].pr, job.at \in {"ask", "list"},
             job.head = jobs[i].head, job.threw = jobs[i].threw, job.row = jobs[i].row,
             job.found = jobs[i].found,
             budget' \in BudgetRec, budget'.kill = budget.kill
      PROVE  IInv'
  <2>1. JobOK(job) /\ (Durable => SoloOK(job))
    BY <1>0, <1>a, <1>b DEF JobOK, SoloOK
  <2> QED
    BY <1>a, <1>b, <2>1, QuietGo
<1>1. CASE /\ Go(i, [jobs[i] EXCEPT !.at = "list"]) /\ UNCHANGED budget
  <2> DEFINE job == [jobs[i] EXCEPT !.at = "list"]
  <2>1. job \in JobRec
    BY <1>0 DEF JobRec, Stages
  <2>2. /\ job.pr = jobs[i].pr /\ job.at = "list" /\ job.head = jobs[i].head
        /\ job.threw = jobs[i].threw /\ job.row = jobs[i].row /\ job.found = jobs[i].found
    BY <1>0 DEF JobRec
  <2>3. Go(i, job)
    BY <1>1
  <2> HIDE DEF job
  <2> QED
    BY <1>1, <1>b, <2>1, <2>2, <2>3, SameBudget
<1>2. ASSUME NEW retried \in BOOLEAN, Spend("fault"),
             Retry(jobs[i], retried).model <= Models,
             Go(i, Retry(jobs[i], retried))
      PROVE  IInv'
  <2> DEFINE job == Retry(jobs[i], retried)
  <2>1. /\ jobs[i].model \in 1..Models /\ jobs[i].tries \in 0..Retries
        /\ Models \in Nat /\ Retries \in Nat
    BY <1>0, Sizes DEF JobRec
  <2>2. jobs[i].tries < Retries => jobs[i].tries + 1 \in 0..Retries
    BY <2>1
  <2>3. jobs[i].model + 1 <= Models => jobs[i].model + 1 \in 1..Models
    BY <2>1
  <2>4. CASE retried /\ jobs[i].tries < Retries
    <3>1. job = [jobs[i] EXCEPT !.tries = @ + 1]
      BY <2>4 DEF Retry
    <3>2. /\ job \in JobRec
          /\ job.pr = jobs[i].pr /\ job.at = "ask" /\ job.head = jobs[i].head
          /\ job.threw = jobs[i].threw /\ job.row = jobs[i].row /\ job.found = jobs[i].found
      BY <1>0, <1>a, <2>2, <2>4, <3>1 DEF JobRec
    <3>3. Go(i, job)
      BY <1>2
    <3> HIDE DEF job
    <3> QED
      BY <1>2, <1>b, <3>2, <3>3, SpendFault DEF IInv, Types
  <2>5. CASE ~(retried /\ jobs[i].tries < Retries)
    <3>1. job = [jobs[i] EXCEPT !.model = @ + 1, !.tries = 0]
      BY <2>5 DEF Retry
    <3>2. job.model = jobs[i].model + 1
      BY <1>0, <3>1 DEF JobRec
    <3>3. jobs[i].model + 1 \in 1..Models
      BY <1>2, <2>3, <3>2
    <3>4. /\ job \in JobRec
          /\ job.pr = jobs[i].pr /\ job.at = "ask" /\ job.head = jobs[i].head
          /\ job.threw = jobs[i].threw /\ job.row = jobs[i].row /\ job.found = jobs[i].found
      BY <1>0, <1>a, <3>1, <3>3, Sizes DEF JobRec
    <3>5. Go(i, job)
      BY <1>2
    <3> HIDE DEF job
    <3> QED
      BY <1>2, <1>b, <3>4, <3>5, SpendFault DEF IInv, Types
  <2> QED
    BY <2>4, <2>5
<1>3. CASE Spend("fault") /\ Throw(i)
  BY <1>3, <1>a, RefusedPreserves
<1> QED
  BY <1>1, <1>2, <1>3 DEF AskModel

LEMMA ListCommentsPreserves ==
  ASSUME IInv, NEW i \in DOMAIN jobs, ListComments(i)
  PROVE  IInv'
<1>0. jobs[i] \in JobRec /\ JobOK(jobs[i]) /\ jobs[i].pr \in PRs /\ (Durable => SoloOK(jobs[i]))
  BY JobFacts
<1>1. CASE Refused(i)
  BY <1>1, RefusedPreserves DEF Refused
<1>2. CASE /\ Go(i, [jobs[i] EXCEPT !.at = "write", !.found = Previous(jobs[i].pr)])
           /\ UNCHANGED <<github, records, asked, budget>>
  <2> DEFINE k == jobs[i].pr
             own == {c \in DOMAIN comments[k] : c <= CommentPage /\ comments[k][c].opens = "header"}
             job == [jobs[i] EXCEPT !.at = "write", !.found = Previous(k)]
  <2>1. DOMAIN comments[k] = 1..Len(comments[k])
    <3>1. comments[k] \in Seq(CommentRec)
      BY <1>0 DEF IInv, Types
    <3> QED
      BY <3>1, LenProperties
  \* What it found is the first review listed, and 0 is none.
  <2>2. /\ Previous(k) \in Nat
        /\ Previous(k) # 0 => Previous(k) \in DOMAIN comments[k]
                              /\ comments[k][Previous(k)].opens = "header"
        /\ Previous(k) = 0 =>
             \A c \in DOMAIN comments[k] : c <= CommentPage => comments[k][c].opens # "header"
    <3>1. CASE own = {}
      <4>1. Previous(k) = 0
        BY <3>1 DEF Previous
      <4> QED
        BY <3>1, <4>1
    <3>2. CASE own # {}
      <4>1. Previous(k) = Min(own)
        BY <3>2 DEF Previous
      <4>2. \A x \in 1..Len(comments[k]) : x \in Nat /\ x # 0
        OBVIOUS
      <4>3. own \in SUBSET Nat /\ 0 \notin own
        BY <2>1, <4>2
      <4> HIDE DEF own
      <4>4. Min(own) \in own
        BY <3>2, <4>3, MinIsMember
      <4> QED
        BY <4>1, <4>3, <4>4 DEF own
    <3> QED
      BY <3>1, <3>2
  <2>3. job \in JobRec
    BY <1>0, <2>2 DEF JobRec, Stages
  <2>4. /\ job.pr = k /\ job.at = "write" /\ job.head = jobs[i].head
        /\ job.threw = jobs[i].threw /\ job.row = jobs[i].row /\ job.found = Previous(k)
    BY <1>0 DEF JobRec
  <2>5. ~jobs[i].threw /\ jobs[i].at = "list"
    BY <1>0 DEF ListComments, At, JobOK
  <2>6. Go(i, job)
    BY <1>2
  <2> HIDE DEF job
  <2>7. JobOK(job) /\ (Durable => SoloOK(job))
    BY <1>0, <2>2, <2>4, <2>5 DEF JobOK, SoloOK
  <2> QED
    BY <1>2, <2>3, <2>4, <2>6, <2>7, QuietGo, SameBudget
<1> QED
  BY <1>1, <1>2 DEF ListComments

\* What may become of the comments of one pull request.
CommentsGrow(k) ==
  /\ comments' \in [PRs -> Seq(CommentRec)]
  /\ \A p \in PRs : p # k => comments'[p] = comments[p]
  /\ \A c \in DOMAIN comments[k] :
       /\ c \in DOMAIN comments'[k] /\ comments'[k][c].opens = comments[k][c].opens
       /\ Durable => comments[k][c].head <= comments'[k][c].head
  /\ \A c \in DOMAIN comments'[k] :
       comments'[k][c].opens \in {Opening(k), "note"} /\ comments'[k][c].head <= head[k]
  /\ Durable /\ k \notin Bumps =>
       \A c, e, x \in DOMAIN comments'[k] :
         /\ comments'[k][c].opens # "note" /\ comments'[k][e].opens # "note"
         /\ comments'[k][x].opens # "note" /\ x <= CommentPage
         => c = e

LEMMA CommentTypes ==
  ASSUME Types, NEW k \in PRs
  PROVE  /\ comments[k] \in Seq(CommentRec) /\ DOMAIN comments[k] = 1..Len(comments[k])
         /\ Len(comments[k]) \in Nat
         /\ \A c \in DOMAIN comments[k] :
              comments[k][c] \in CommentRec /\ comments[k][c].head \in Nat
<1>1. comments[k] \in Seq(CommentRec)
  BY DEF Types
<1>2. DOMAIN comments[k] = 1..Len(comments[k]) /\ Len(comments[k]) \in Nat
  BY <1>1, LenProperties
<1>3. \A c \in DOMAIN comments[k] : comments[k][c] \in CommentRec
  BY <1>1, <1>2, ElementOfSeq
<1>4. \A n \in 0..MaxHeads : n \in Nat
  OBVIOUS
<1> QED
  BY <1>1, <1>2, <1>3, <1>4 DEF CommentRec

LEMMA CommentGo ==
  ASSUME IInv, NEW i \in DOMAIN jobs, NEW job \in JobRec, Go(i, job),
         job.pr = jobs[i].pr, job.at # "start", JobOK(job)', Durable => SoloOK(job)',
         CommentsGrow(job.pr), UNCHANGED <<head, open, deliveries, records, asked>>,
         budget' \in BudgetRec, budget'.kill = budget.kill
  PROVE  IInv'
<1> DEFINE k == job.pr
<1>0. k \in PRs
  BY DEF JobRec
<1>1. UNCHANGED <<head, open, deliveries, rows, counted, wanted, owed, decided, asked>>
  BY DEF records, queue, Go
<1>2. jobs' \in Seq(JobRec) /\ JobsInv'
  BY <1>1, GoJobs DEF CommentsGrow
<1>3. Types'
  BY <1>1, <1>2 DEF IInv, Types, CommentsGrow
<1>4. CommentsInv'
  <2> SUFFICES ASSUME NEW p \in PRs, NEW c \in DOMAIN comments'[p]
               PROVE  comments'[p][c].opens \in {Opening(p), "note"}
                      /\ comments'[p][c].head <= head[p]
    BY <1>1 DEF CommentsInv, Opening
  <2>1. CASE p = k
    BY <2>1 DEF CommentsGrow
  <2>2. CASE p # k
    BY <2>2 DEF CommentsGrow, IInv, CommentsInv
  <2> QED
    BY <2>1, <2>2
<1>5. ShownInv'
  <2> SUFFICES ASSUME Durable, NEW r \in DOMAIN rows, rows[r].status = "success"
               PROVE  Shown(rows[r].pr, rows[r].head)'
    BY <1>1 DEF ShownInv, Shown, Reviews
  <2>1. rows[r].pr \in PRs /\ rows[r].head \in Nat
    <3>1. rows \in Seq(RowRec) /\ r \in 1..Len(rows)
      BY LenProperties DEF IInv, Types
    <3>2. rows[r] \in RowRec
      BY <3>1, ElementOfSeq
    <3> QED
      BY <3>2 DEF RowRec
  <2> DEFINE p == rows[r].pr
  <2>2. PICK c \in DOMAIN comments[p] :
          comments[p][c].opens # "note" /\ comments[p][c].head >= rows[r].head
    BY DEF IInv, ShownInv, Shown, Reviews
  <2>3. c \in DOMAIN comments'[p] /\ comments'[p][c].opens # "note"
        /\ comments[p][c].head <= comments'[p][c].head
    <3>1. CASE p = k
      BY <2>2, <3>1 DEF CommentsGrow
    <3>2. CASE p # k
      <4>1. comments'[p] = comments[p]
        BY <2>1, <3>2 DEF CommentsGrow
      <4>2. \A n \in Nat : n <= n
        OBVIOUS
      <4>3. comments[p][c].head \in Nat
        BY <2>1, <2>2, CommentTypes DEF IInv
      <4> QED
        BY <2>2, <4>1, <4>2, <4>3
    <3> QED
      BY <3>1, <3>2
  <2>4. comments[p][c].head \in Nat /\ comments'[p][c].head \in Nat
    <3>1. (comments[p][c].head \in Nat)
      BY <2>1, <2>2, CommentTypes DEF IInv
    <3>2. comments'[p][c] \in CommentRec
      <4>1. comments'[p] \in Seq(CommentRec)
        BY <2>1 DEF CommentsGrow
      <4>2. c \in 1..Len(comments'[p])
        BY <2>3, <4>1, LenProperties
      <4> QED
        BY <4>1, <4>2, ElementOfSeq
    <3> QED
      BY <3>1, <3>2 DEF CommentRec
  <2>5. \A a, b, d \in Nat : a >= d /\ a <= b => b >= d
    OBVIOUS
  <2>6. comments'[p][c].head >= rows[r].head
    BY <2>1, <2>2, <2>3, <2>4, <2>5
  <2> QED
    BY <1>1, <2>3, <2>6 DEF Shown, Reviews
<1>6. OneInv'
  <2> SUFFICES ASSUME Durable, NEW p \in PRs \ Bumps,
                      NEW c \in Reviews(p)', NEW e \in Reviews(p)',
                      NEW x \in Reviews(p)', x <= CommentPage
               PROVE  c = e
    BY DEF OneInv
  <2>1. CASE p = k
    BY <2>1 DEF CommentsGrow, Reviews
  <2>2. CASE p # k
    <3>1. comments'[p] = comments[p]
      BY <2>2 DEF CommentsGrow
    <3>2. c \in Reviews(p) /\ e \in Reviews(p) /\ x \in Reviews(p)
      BY <3>1 DEF Reviews
    <3> QED
      BY <3>2 DEF IInv, OneInv
  <2> QED
    BY <2>1, <2>2
<1>7. PaidInv'
  <2> SUFFICES ASSUME NEW p \in PRs
               PROVE  Cardinality(RowsOf(p)) + Cardinality(Fresh(p)') + wanted[p]
                        + Cardinality(Coming(p)) <= asked[p] + (MaxKills - budget.kill)
    BY <1>1 DEF PaidInv, RowsOf, Coming, Actionable
  <2>1. Cardinality(Fresh(p)') \in Nat /\ Cardinality(Fresh(p)') <= Cardinality(Fresh(p))
    BY FreshStep
  <2>2. /\ Cardinality(RowsOf(p)) \in Nat /\ Cardinality(Coming(p)) \in Nat
        /\ Cardinality(Fresh(p)) \in Nat /\ wanted[p] \in Nat
        /\ asked[p] \in Nat /\ MaxKills - budget.kill \in Nat
    BY Counts DEF IInv
  <2>3. Cardinality(RowsOf(p)) + Cardinality(Fresh(p)) + wanted[p] + Cardinality(Coming(p))
          <= asked[p] + (MaxKills - budget.kill)
    BY DEF IInv, PaidInv
  <2>4. \A a, b, c, d, e, f, g \in Nat :
          c <= b /\ a + b + d + e <= f + g => a + c + d + e <= f + g
    OBVIOUS
  <2> QED
    BY <2>1, <2>2, <2>3, <2>4
<1> QED
  BY <1>2, <1>3, <1>4, <1>5, <1>6, <1>7 DEF IInv

\* What a job writes is the review it read the head for, in a new comment or in
\* the one it found.
LEMMA WrittenGrows ==
  ASSUME IInv, NEW i \in DOMAIN jobs, jobs[i].at = "write",
         comments' = Written(jobs[i])
  PROVE  /\ CommentsGrow(jobs[i].pr)
         /\ \E c \in DOMAIN comments'[jobs[i].pr] :
              /\ comments'[jobs[i].pr][c].opens # "note"
              /\ comments'[jobs[i].pr][c].head = jobs[i].head
         /\ Durable => \A c \in DOMAIN comments'[jobs[i].pr] :
                         comments'[jobs[i].pr][c].head <= jobs[i].head
<1> DEFINE k == jobs[i].pr
           h == jobs[i].head
           f == jobs[i].found
           s == comments[k]
           t == comments'[k]
           written == [opens |-> Opening(k), head |-> h]
<1>0. /\ jobs[i] \in JobRec /\ k \in PRs /\ h \in 0..MaxHeads /\ h \in Nat /\ h <= head[k]
      /\ f # 0 => f \in DOMAIN s /\ s[f].opens = "header"
      /\ Durable => /\ \A c \in DOMAIN s : s[c].head <= h
                    /\ f = 0 => \A c \in DOMAIN s : c <= CommentPage => s[c].opens # "header"
  <2>1. jobs[i] \in JobRec /\ k \in PRs /\ JobOK(jobs[i]) /\ (Durable => SoloOK(jobs[i]))
    BY JobFacts
  <2>2. h \in 0..MaxHeads
    BY <2>1 DEF JobRec
  <2>3. h \in Nat
    BY <2>2
  <2>4. Durable => /\ \A c \in DOMAIN s : s[c].head <= h
                   /\ f = 0 => \A c \in DOMAIN s : c <= CommentPage => s[c].opens # "header"
    BY <2>1 DEF SoloOK
  <2> QED
    BY <2>1, <2>2, <2>3, <2>4 DEF JobOK
<1>1. /\ s \in Seq(CommentRec) /\ DOMAIN s = 1..Len(s) /\ Len(s) \in Nat
      /\ \A c \in DOMAIN s : s[c] \in CommentRec /\ s[c].head \in Nat
  BY <1>0, CommentTypes DEF IInv
<1>2. written \in CommentRec /\ Opening(k) # "note"
  BY <1>0 DEF CommentRec, Opening
<1>3. \A c \in DOMAIN s : s[c].opens \in {Opening(k), "note"} /\ s[c].head <= head[k]
  BY <1>0 DEF IInv, CommentsInv
<1>4. comments \in [PRs -> Seq(CommentRec)]
  BY DEF IInv, Types
<1>5. comments' = [comments EXCEPT ![k] =
                     IF f = 0 THEN Append(s, written) ELSE [s EXCEPT ![f] = written]]
  BY DEF Written
<1>6. t = IF f = 0 THEN Append(s, written) ELSE [s EXCEPT ![f] = written]
  BY <1>0, <1>4, <1>5
<1>7. written.opens = Opening(k) /\ written.head = h
  OBVIOUS
<1>r. \A n \in Nat : n <= n
  OBVIOUS
<1> HIDE DEF written
\* A new comment.
<1>8. CASE f = 0
  <2> DEFINE n == Len(s) + 1
  <2>1. /\ t \in Seq(CommentRec) /\ DOMAIN t = 1..n
        /\ \A c \in 1..Len(s) : t[c] = s[c]
        /\ t[n] = written
    BY <1>1, <1>2, <1>6, <1>8, AppendPlaces
  <2>2. 1..n = (1..Len(s)) \cup {n}
    BY <1>1
  <2> HIDE DEF n
  <2>3. comments' \in [PRs -> Seq(CommentRec)] /\ (\A p \in PRs : p # k => comments'[p] = comments[p])
    BY <1>4, <1>5, <1>6, <2>1
  <2>4. \A c \in DOMAIN s :
          /\ c \in DOMAIN t /\ t[c].opens = s[c].opens
          /\ Durable => s[c].head <= t[c].head
    BY <1>1, <1>r, <2>1, <2>2
  <2>5. \A c \in DOMAIN t : t[c].opens \in {Opening(k), "note"} /\ t[c].head <= head[k]
    BY <1>0, <1>1, <1>3, <1>7, <2>1, <2>2
  <2>6. ASSUME Durable, k \notin Bumps, NEW c \in DOMAIN t, NEW e \in DOMAIN t,
               NEW x \in DOMAIN t, t[c].opens # "note", t[e].opens # "note",
               t[x].opens # "note", x <= CommentPage
        PROVE  c = e
    <3>1. \A y \in DOMAIN s : y <= CommentPage => s[y].opens = "note"
      BY <1>0, <1>3, <1>8, <2>6 DEF Opening
    <3>2. x = n
      BY <1>1, <2>1, <2>2, <2>6, <3>1
    <3>3. \A y \in DOMAIN s : s[y].opens = "note"
      <4>1. \A y \in 1..Len(s) : y <= n
        BY <1>1 DEF n
      <4>2. n \in Nat /\ CommentPage \in Nat
        BY <1>1, SizesAssumption DEF n
      <4>3. \A y \in 1..Len(s) : y <= CommentPage
        BY <2>6, <3>2, <4>1, <4>2
      <4> QED
        BY <1>1, <3>1, <4>3
    <3> QED
      BY <1>1, <2>1, <2>2, <2>6, <3>3
  <2>7. \E c \in DOMAIN t : t[c].opens # "note" /\ t[c].head = h
    BY <1>2, <1>7, <2>1, <2>2
  <2>8. Durable => \A c \in DOMAIN t : t[c].head <= h
    BY <1>0, <1>1, <1>7, <1>r, <2>1, <2>2
  <2> QED
    BY <2>3, <2>4, <2>5, <2>6, <2>7, <2>8 DEF CommentsGrow
\* The comment that is edited opened with the header, as all reviews of it do.
<1>9. CASE f # 0
  <2>1. f \in 1..Len(s) /\ s[f].opens = "header"
    BY <1>0, <1>1, <1>9
  <2>2. /\ t \in Seq(CommentRec) /\ Len(t) = Len(s)
        /\ \A c \in 1..Len(s) : t[c] = IF c = f THEN written ELSE s[c]
    BY <1>1, <1>2, <1>6, <1>9, <2>1, ExceptSeq
  <2>3. DOMAIN t = DOMAIN s
    BY <1>1, <2>2, LenProperties
  <2>4. Opening(k) = "header" /\ written.opens = s[f].opens
    BY <1>1, <1>3, <1>7, <2>1
  <2>5. comments' \in [PRs -> Seq(CommentRec)] /\ (\A p \in PRs : p # k => comments'[p] = comments[p])
    BY <1>4, <1>5, <1>6, <2>2
  <2>6. \A c \in DOMAIN s : t[c].opens = s[c].opens
    BY <1>1, <2>2, <2>4
  <2>7. \A c \in DOMAIN s : /\ c \in DOMAIN t /\ t[c].opens = s[c].opens
                            /\ Durable => s[c].head <= t[c].head
    BY <1>0, <1>1, <1>7, <1>r, <2>2, <2>3, <2>6
  <2>8. \A c \in DOMAIN t : t[c].opens \in {Opening(k), "note"} /\ t[c].head <= head[k]
    BY <1>0, <1>1, <1>3, <1>7, <2>2, <2>3
  <2>9. Durable /\ k \notin Bumps =>
          \A c, e, x \in DOMAIN t :
            /\ t[c].opens # "note" /\ t[e].opens # "note"
            /\ t[x].opens # "note" /\ x <= CommentPage
            => c = e
    <3>1. Durable /\ k \notin Bumps => \A c, e, x \in Reviews(k) : x <= CommentPage => c = e
      BY <1>0 DEF IInv, OneInv
    <3> QED
      BY <2>3, <2>6, <3>1 DEF Reviews
  <2>10. \E c \in DOMAIN t : t[c].opens # "note" /\ t[c].head = h
    BY <1>1, <1>2, <1>7, <2>1, <2>2, <2>3
  <2>11. Durable => \A c \in DOMAIN t : t[c].head <= h
    BY <1>0, <1>1, <1>7, <1>r, <2>2, <2>3
  <2> QED
    BY <2>5, <2>7, <2>8, <2>9, <2>10, <2>11 DEF CommentsGrow
<1> QED
  BY <1>8, <1>9

\* What the job has found is still a comment it may edit.
LEMMA FoundStays ==
  ASSUME IInv, NEW i \in DOMAIN jobs, CommentsGrow(jobs[i].pr),
         NEW job, job.pr = jobs[i].pr, job.row = jobs[i].row, job.head = jobs[i].head,
         job.found = jobs[i].found, job.threw => job.at \in {"finish", "count"},
         UNCHANGED <<head, rows>>
  PROVE  JobOK(job)'
<1>1. JobOK(jobs[i])
  BY JobFacts
<1> QED
  BY <1>1 DEF JobOK, CommentsGrow

LEMMA WriteCommentPreserves ==
  ASSUME IInv, NEW i \in DOMAIN jobs, WriteComment(i)
  PROVE  IInv'
<1>0. jobs[i] \in JobRec /\ JobOK(jobs[i]) /\ jobs[i].pr \in PRs /\ (Durable => SoloOK(jobs[i]))
  BY JobFacts
<1>a. /\ jobs[i].at = "write" /\ ~jobs[i].threw
      /\ UNCHANGED <<head, open, deliveries, records, asked, rows>>
  BY <1>0 DEF WriteComment, At, JobOK, records
<1>1. CASE /\ comments' = Written(jobs[i])
           /\ Go(i, [jobs[i] EXCEPT !.at = IF jobs[i].found = 0 THEN "finish" ELSE "announce"])
           /\ UNCHANGED budget
  <2> DEFINE k == jobs[i].pr
  <2>1. PICK job \in JobRec :
          job = [jobs[i] EXCEPT !.at = IF jobs[i].found = 0 THEN "finish" ELSE "announce"]
    <3>1. [jobs[i] EXCEPT !.at = IF jobs[i].found = 0 THEN "finish" ELSE "announce"] \in JobRec
      BY <1>0 DEF JobRec, Stages
    <3> QED
      BY <3>1
  <2>2. /\ job.pr = k /\ job.at \in {"finish", "announce"} /\ job.head = jobs[i].head
        /\ job.threw = jobs[i].threw /\ job.row = jobs[i].row /\ job.found = jobs[i].found
    BY <1>0, <2>1 DEF JobRec
  <2>3. Go(i, job)
    BY <1>1, <2>1
  <2>4. /\ CommentsGrow(k)
        /\ \E c \in DOMAIN comments'[k] :
             comments'[k][c].opens # "note" /\ comments'[k][c].head = job.head
        /\ Durable => \A c \in DOMAIN comments'[k] : comments'[k][c].head <= job.head
    BY <1>1, <1>a, <2>2, WrittenGrows
  <2>5. JobOK(job)'
    BY <1>a, <2>2, <2>4, FoundStays
  <2>6. Durable => SoloOK(job)'
    <3>1. job.head \in Nat
      BY <2>1 DEF JobRec
    <3>2. \A n \in Nat : n >= n
      OBVIOUS
    <3>3. /\ \E c \in DOMAIN comments'[job.pr] :
               comments'[job.pr][c].opens # "note" /\ comments'[job.pr][c].head = job.head
          /\ Durable => \A c \in DOMAIN comments'[job.pr] :
                          comments'[job.pr][c].head <= job.head
      BY <2>2, <2>4
    <3>4. Shown(job.pr, job.head)'
      BY <3>1, <3>2, <3>3 DEF Shown, Reviews
    <3> QED
      BY <1>a, <2>2, <3>3, <3>4 DEF SoloOK
  <2>7. CommentsGrow(job.pr)
    BY <2>2, <2>4
  <2>8. budget' \in BudgetRec /\ budget'.kill = budget.kill
    BY <1>1, SameBudget
  <2> QED
    BY <1>a, <2>1, <2>2, <2>3, <2>5, <2>6, <2>7, <2>8, CommentGo
<1>2. CASE /\ Spend("fault")
           /\ comments' \in {comments, Written(jobs[i])}
           /\ Throw(i)
  <2>1. CASE comments' = comments
    <3>1. UNCHANGED <<github, records, asked>>
      BY <1>a, <2>1 DEF github
    <3> QED
      BY <1>2, <3>1, RefusedPreserves
  <2>2. CASE comments' = Written(jobs[i])
    <3>1. PICK job \in JobRec :
            /\ Go(i, job) /\ job.pr = jobs[i].pr /\ job.at # "start"
            /\ job.row = jobs[i].row /\ job.head = jobs[i].head /\ job.found = jobs[i].found
            /\ job.at = "finish" /\ job.threw
      BY <1>2, ThrownJob
    <3>2. CommentsGrow(jobs[i].pr)
      BY <1>a, <2>2, WrittenGrows
    <3>3. JobOK(job)'
      BY <1>a, <3>1, <3>2, FoundStays
    <3>4. SoloOK(job)'
      BY <3>1 DEF SoloOK
    <3>5. budget' \in BudgetRec /\ budget'.kill = budget.kill
      BY <1>2, SpendFault DEF IInv
    <3>6. CommentsGrow(job.pr)
      BY <3>1, <3>2
    <3> QED
      BY <1>a, <3>1, <3>3, <3>4, <3>5, <3>6, CommentGo
  <2> QED
    BY <1>2, <2>1, <2>2
<1> QED
  BY <1>1, <1>2 DEF WriteComment

\* A comment more that is no review.
LEMMA NoteGrows ==
  ASSUME IInv, NEW k \in PRs, NEW h \in 0..MaxHeads, h <= head[k],
         comments' = [comments EXCEPT ![k] = Append(@, [opens |-> "note", head |-> h])]
  PROVE  /\ CommentsGrow(k)
         /\ DOMAIN comments'[k] = (DOMAIN comments[k]) \cup {Len(comments[k]) + 1}
         /\ \A c \in DOMAIN comments[k] : comments'[k][c] = comments[k][c]
         /\ comments'[k][Len(comments[k]) + 1] = [opens |-> "note", head |-> h]
<1> DEFINE s == comments[k]
           t == comments'[k]
           note == [opens |-> "note", head |-> h]
           n == Len(s) + 1
<1>1. /\ s \in Seq(CommentRec) /\ DOMAIN s = 1..Len(s) /\ Len(s) \in Nat
      /\ \A c \in DOMAIN s : s[c] \in CommentRec /\ s[c].head \in Nat
  BY CommentTypes DEF IInv
<1>2. note \in CommentRec /\ note.opens = "note" /\ note.head = h
  BY DEF CommentRec
<1>3. \A c \in DOMAIN s : s[c].opens \in {Opening(k), "note"} /\ s[c].head <= head[k]
  BY DEF IInv, CommentsInv
<1>4. comments \in [PRs -> Seq(CommentRec)]
  BY DEF IInv, Types
<1>5. comments' = [comments EXCEPT ![k] = Append(s, note)] /\ t = Append(s, note)
  BY <1>4
<1> HIDE DEF note
<1>6. /\ t \in Seq(CommentRec) /\ DOMAIN t = 1..n
      /\ \A c \in 1..Len(s) : t[c] = s[c]
      /\ t[n] = note
  BY <1>1, <1>2, <1>5, AppendPlaces
<1>7. 1..n = (1..Len(s)) \cup {n}
  BY <1>1
<1> HIDE DEF n
<1>8. comments' \in [PRs -> Seq(CommentRec)] /\ (\A p \in PRs : p # k => comments'[p] = comments[p])
  BY <1>4, <1>5, <1>6
<1>9. \A c \in DOMAIN s : /\ c \in DOMAIN t /\ t[c].opens = s[c].opens
                          /\ Durable => s[c].head <= t[c].head
  <2>1. \A m \in Nat : m <= m
    OBVIOUS
  <2> QED
    BY <1>1, <1>6, <1>7, <2>1
<1>10. \A c \in DOMAIN t : t[c].opens \in {Opening(k), "note"} /\ t[c].head <= head[k]
  BY <1>1, <1>2, <1>3, <1>6, <1>7
<1>11. Durable /\ k \notin Bumps =>
         \A c, e, x \in DOMAIN t :
           /\ t[c].opens # "note" /\ t[e].opens # "note"
           /\ t[x].opens # "note" /\ x <= CommentPage
           => c = e
  <2>1. Durable /\ k \notin Bumps => \A c, e, x \in Reviews(k) : x <= CommentPage => c = e
    BY DEF IInv, OneInv
  <2>2. \A c \in DOMAIN t : t[c].opens # "note" => c \in Reviews(k)
    BY <1>1, <1>2, <1>6, <1>7 DEF Reviews
  <2> QED
    BY <2>1, <2>2
<1>12. CommentsGrow(k)
  BY <1>8, <1>9, <1>10, <1>11 DEF CommentsGrow
<1> QED
  BY <1>1, <1>6, <1>7, <1>12 DEF n, note

LEMMA AnnouncePreserves ==
  ASSUME IInv, NEW i \in DOMAIN jobs, Announce(i)
  PROVE  IInv'
<1>0. jobs[i] \in JobRec /\ JobOK(jobs[i]) /\ jobs[i].pr \in PRs /\ (Durable => SoloOK(jobs[i]))
  BY JobFacts
<1>a. /\ jobs[i].at = "announce" /\ ~jobs[i].threw
      /\ UNCHANGED <<head, open, deliveries, records, asked, rows>>
  BY <1>0 DEF Announce, At, JobOK, records
<1>1. CASE /\ comments' = [comments EXCEPT ![jobs[i].pr] =
                Append(@, [opens |-> "note", head |-> jobs[i].head])]
           /\ Go(i, [jobs[i] EXCEPT !.at = "finish"])
           /\ UNCHANGED budget
  <2> DEFINE k == jobs[i].pr
  <2>1. PICK job \in JobRec : job = [jobs[i] EXCEPT !.at = "finish"]
    <3>1. [jobs[i] EXCEPT !.at = "finish"] \in JobRec
      BY <1>0 DEF JobRec, Stages
    <3> QED
      BY <3>1
  <2>2. /\ job.pr = k /\ job.at = "finish" /\ job.head = jobs[i].head
        /\ job.threw = jobs[i].threw /\ job.row = jobs[i].row /\ job.found = jobs[i].found
    BY <1>0, <2>1 DEF JobRec
  <2>3. Go(i, job)
    BY <1>1, <2>1
  <2>4. CommentsGrow(k)
    <3>1. jobs[i].head \in 0..MaxHeads /\ jobs[i].head <= head[k]
      BY <1>0 DEF JobRec, JobOK
    <3> QED
      BY <1>0, <1>1, <3>1, NoteGrows
  <2>5. JobOK(job)'
    BY <1>a, <2>2, <2>4, FoundStays
  \* The review is on the pull request since the job wrote it.
  <2>6. Durable => SoloOK(job)'
    <3> SUFFICES ASSUME Durable PROVE Shown(job.pr, job.head)'
      BY <2>2 DEF SoloOK
    <3>1. PICK c \in DOMAIN comments[k] :
            comments[k][c].opens # "note" /\ comments[k][c].head >= job.head
      BY <1>0, <1>a, <2>2 DEF SoloOK, Shown, Reviews
    <3>2. /\ c \in DOMAIN comments'[k] /\ comments'[k][c].opens # "note"
          /\ comments[k][c].head <= comments'[k][c].head
      BY <2>4, <3>1 DEF CommentsGrow
    <3>3. comments[k][c].head \in Nat /\ comments'[k][c].head \in Nat /\ job.head \in Nat
      <4>1. comments[k][c].head \in Nat
        BY <1>0, <3>1, CommentTypes DEF IInv
      <4>2. comments'[k] \in Seq(CommentRec)
        BY <1>0, <2>4 DEF CommentsGrow
      <4>3. comments'[k][c] \in CommentRec
        BY <3>2, <4>2, ElementOfSeq, LenProperties
      <4> QED
        BY <2>1, <4>1, <4>3 DEF CommentRec, JobRec
    <3>4. \A a, b, d \in Nat : a >= d /\ a <= b => b >= d
      OBVIOUS
    <3>5. comments'[k][c].head >= job.head
      BY <3>1, <3>2, <3>3, <3>4
    <3> QED
      BY <2>2, <3>2, <3>5 DEF Shown, Reviews
  <2>7. CommentsGrow(job.pr)
    BY <2>2, <2>4
  <2>8. budget' \in BudgetRec /\ budget'.kill = budget.kill
    BY <1>1, SameBudget
  <2> QED
    BY <1>a, <2>1, <2>2, <2>3, <2>5, <2>6, <2>7, <2>8, CommentGo
<1>2. CASE Spend("fault") /\ Throw(i) /\ UNCHANGED comments
  <2>1. UNCHANGED <<github, records, asked>>
    BY <1>2, <1>a DEF github
  <2> QED
    BY <1>2, <2>1, RefusedPreserves
<1> QED
  BY <1>1, <1>2 DEF Announce

LEMMA RowTypes ==
  ASSUME Types
  PROVE  /\ rows \in Seq(RowRec) /\ DOMAIN rows = 1..Len(rows) /\ Len(rows) \in Nat
         /\ \A r \in DOMAIN rows : rows[r] \in RowRec /\ rows[r].pr \in PRs
<1>1. rows \in Seq(RowRec) /\ DOMAIN rows = 1..Len(rows) /\ Len(rows) \in Nat
  BY LenProperties DEF Types
<1>2. \A r \in DOMAIN rows : rows[r] \in RowRec
  BY <1>1, ElementOfSeq
<1> QED
  BY <1>1, <1>2 DEF RowRec

\* A step that writes the history.
LEMMA RowGo ==
  ASSUME IInv, NEW i \in DOMAIN jobs, NEW job \in JobRec, Go(i, job),
         job.pr = jobs[i].pr, job.at # "start", JobOK(job)', Durable => SoloOK(job)',
         UNCHANGED <<github, counted, asked>>, rows' \in Seq(RowRec),
         \A r \in DOMAIN rows : r \in DOMAIN rows' /\ rows'[r].pr = rows[r].pr,
         Durable => \A r \in DOMAIN rows' :
           rows'[r].status = "success" => Shown(rows'[r].pr, rows'[r].head),
         \A k \in PRs :
           /\ Cardinality(RowsOf(k)') \in Nat
           /\ Cardinality(RowsOf(k)') + Cardinality(Fresh(k)')
                <= Cardinality(RowsOf(k)) + Cardinality(Fresh(k)),
         budget' \in BudgetRec, budget'.kill = budget.kill
  PROVE  IInv'
<1>1. UNCHANGED <<head, open, deliveries, comments, counted, wanted, owed, decided, asked>>
  BY DEF github, queue, Go
<1>2. jobs' \in Seq(JobRec) /\ JobsInv'
  BY <1>1, GoJobs
<1>3. Types'
  BY <1>1, <1>2 DEF IInv, Types
<1>4. CommentsInv' /\ OneInv'
  BY <1>1 DEF IInv, CommentsInv, OneInv, Reviews, Opening
<1>5. ShownInv'
  BY <1>1 DEF ShownInv, Shown, Reviews
<1>6. PaidInv'
  <2> SUFFICES ASSUME NEW k \in PRs
               PROVE  Cardinality(RowsOf(k)') + Cardinality(Fresh(k)') + wanted[k]
                        + Cardinality(Coming(k)) <= asked[k] + (MaxKills - budget.kill)
    BY <1>1 DEF PaidInv, Coming, Actionable
  <2>1. Cardinality(Fresh(k)') \in Nat
    BY FreshStep
  <2>2. /\ Cardinality(RowsOf(k)) \in Nat /\ Cardinality(Coming(k)) \in Nat
        /\ Cardinality(Fresh(k)) \in Nat /\ wanted[k] \in Nat
        /\ asked[k] \in Nat /\ MaxKills - budget.kill \in Nat
    BY Counts DEF IInv
  <2>3. Cardinality(RowsOf(k)) + Cardinality(Fresh(k)) + wanted[k] + Cardinality(Coming(k))
          <= asked[k] + (MaxKills - budget.kill)
    BY DEF IInv, PaidInv
  <2>4. Cardinality(RowsOf(k)') \in Nat
    OBVIOUS
  <2>5. Cardinality(RowsOf(k)') + Cardinality(Fresh(k)') <= Cardinality(RowsOf(k)) + Cardinality(Fresh(k))
    OBVIOUS
  <2>6. asked[k] + (MaxKills - budget.kill) \in Nat
    BY Counts DEF IInv
  <2>7. Moved(Cardinality(RowsOf(k)), Cardinality(Fresh(k)), Cardinality(RowsOf(k)'),
              Cardinality(Fresh(k)'), wanted[k], Cardinality(Coming(k)),
              asked[k] + (MaxKills - budget.kill))
    BY <2>1, <2>2, <2>3, <2>4, <2>5, <2>6 DEF Moved
  <2> QED
    BY <2>7, Move
<1> QED
  BY <1>2, <1>3, <1>4, <1>5, <1>6 DEF IInv

LEMMA StartPreserves ==
  ASSUME IInv, NEW i \in DOMAIN jobs, Start(i)
  PROVE  IInv'
<1>0. jobs[i] \in JobRec /\ JobOK(jobs[i]) /\ jobs[i].pr \in PRs
  BY JobFacts
<1>a. jobs[i].at = "start" /\ ~jobs[i].threw /\ UNCHANGED <<github, counted, asked>>
  BY <1>0 DEF Start, At, JobOK
<1>1. CASE /\ rows' = Append(rows, [pr |-> jobs[i].pr, status |-> "queued", head |-> 0])
           /\ Go(i, [jobs[i] EXCEPT !.at = "getPr", !.row = Len(rows) + 1])
           /\ UNCHANGED budget
  <2> DEFINE n == Len(rows) + 1
             row == [pr |-> jobs[i].pr, status |-> "queued", head |-> 0]
  <2>1. rows \in Seq(RowRec) /\ DOMAIN rows = 1..Len(rows) /\ Len(rows) \in Nat
        /\ \A r \in DOMAIN rows : rows[r].pr \in PRs
    BY RowTypes DEF IInv
  <2>2. row \in RowRec
    BY <1>0, Sizes DEF RowRec
  <2>3. row.pr = jobs[i].pr /\ row.status = "queued"
    OBVIOUS
  <2>4. PICK job \in JobRec : job = [jobs[i] EXCEPT !.at = "getPr", !.row = n]
    <3>1. n \in Nat
      BY <2>1
    <3>2. [jobs[i] EXCEPT !.at = "getPr", !.row = n] \in JobRec
      BY <1>0, <3>1 DEF JobRec, Stages
    <3> QED
      BY <3>2
  <2>5. /\ job.pr = jobs[i].pr /\ job.at = "getPr" /\ job.row = n /\ job.head = jobs[i].head
        /\ job.found = jobs[i].found /\ job.threw = jobs[i].threw
    BY <1>0, <2>4 DEF JobRec
  <2>6. Go(i, job)
    BY <1>1, <2>4
  <2> HIDE DEF row
  <2>7. /\ rows' \in Seq(RowRec) /\ DOMAIN rows' = 1..n
        /\ \A r \in 1..Len(rows) : rows'[r] = rows[r]
        /\ rows'[n] = row
    <3>1. rows' = Append(rows, row)
      BY <1>1 DEF row
    <3> QED
      BY <2>1, <2>2, <3>1, AppendPlaces
  <2>8. 1..n = (1..Len(rows)) \cup {n} /\ n \notin 1..Len(rows) /\ n \in 1..n
    BY <2>1
  <2>m. rows'[n].pr = job.pr /\ job.row \in DOMAIN rows'
        /\ rows'[job.row].pr = job.pr
    BY <2>3, <2>5, <2>7, <2>8
  <2> HIDE DEF n
  <2>9. JobOK(job)'
    BY <1>0, <1>a, <2>5, <2>m DEF JobOK, github
  <2>10. SoloOK(job)'
    BY <2>5 DEF SoloOK
  <2>11. \A r \in DOMAIN rows : r \in DOMAIN rows' /\ rows'[r].pr = rows[r].pr
    BY <2>1, <2>7, <2>8
  <2>12. Durable => \A r \in DOMAIN rows' :
           rows'[r].status = "success" => Shown(rows'[r].pr, rows'[r].head)
    <3> SUFFICES ASSUME Durable, NEW r \in DOMAIN rows', rows'[r].status = "success"
                 PROVE  Shown(rows'[r].pr, rows'[r].head)
      OBVIOUS
    <3>1. r \in DOMAIN rows /\ rows'[r] = rows[r]
      BY <2>1, <2>3, <2>7, <2>8
    <3> QED
      BY <3>1 DEF IInv, ShownInv
  <2>13. ASSUME NEW k \in PRs
         PROVE  /\ Cardinality(RowsOf(k)') \in Nat
                /\ Cardinality(RowsOf(k)') + Cardinality(Fresh(k)')
                     <= Cardinality(RowsOf(k)) + Cardinality(Fresh(k))
    <3>1. IsFiniteSet(RowsOf(k)) /\ Cardinality(RowsOf(k)) \in Nat /\ Cardinality(Fresh(k)) \in Nat
      BY Counts DEF IInv
    <3>2. /\ Cardinality(Fresh(k)') \in Nat
          /\ Cardinality(Fresh(k)') <= Cardinality(Fresh(k))
          /\ jobs[i].pr = k => Cardinality(Fresh(k)') = Cardinality(Fresh(k)) - 1
      BY <1>a, <2>5, <2>6, FreshStep
    <3>3. CASE jobs[i].pr = k
      <4>1. RowsOf(k)' = RowsOf(k) \cup {n} /\ n \notin RowsOf(k)
        BY <2>1, <2>5, <2>7, <2>8, <2>m, <3>3 DEF RowsOf
      <4>2. Cardinality(RowsOf(k)') = Cardinality(RowsOf(k)) + 1
        BY <3>1, <4>1, FS_AddElement
      <4>3. \A a, b \in Nat : a + 1 \in Nat /\ (a + 1) + (b - 1) <= a + b
        OBVIOUS
      <4> QED
        BY <3>1, <3>2, <3>3, <4>2, <4>3
    <3>4. CASE jobs[i].pr # k
      <4>1. RowsOf(k)' = RowsOf(k)
        BY <2>1, <2>5, <2>7, <2>8, <2>m, <3>4 DEF RowsOf
      <4>2. \A a, b, c \in Nat : b <= c => a + b <= a + c
        OBVIOUS
      <4> QED
        BY <3>1, <3>2, <4>1, <4>2
    <3> QED
      BY <3>3, <3>4
  <2>14. budget' \in BudgetRec /\ budget'.kill = budget.kill
    BY <1>1 DEF IInv, Types
  <2> QED
    BY <1>a, <2>5, <2>6, <2>7, <2>9, <2>10, <2>11, <2>12, <2>13, <2>14, RowGo
<1>2. CASE /\ Go(i, [jobs[i] EXCEPT !.at = "getPr"]) /\ Spend("fault") /\ UNCHANGED rows
  <2> DEFINE job == [jobs[i] EXCEPT !.at = "getPr"]
  <2>1. job \in JobRec
    BY <1>0 DEF JobRec, Stages
  <2>2. /\ job.pr = jobs[i].pr /\ job.at = "getPr" /\ job.row = jobs[i].row
        /\ job.head = jobs[i].head /\ job.found = jobs[i].found /\ job.threw = jobs[i].threw
    BY <1>0 DEF JobRec
  <2>3. Go(i, job)
    BY <1>2
  <2> HIDE DEF job
  <2>4. JobOK(job) /\ SoloOK(job)
    BY <1>0, <1>a, <2>2 DEF JobOK, SoloOK
  <2>5. budget' \in BudgetRec /\ budget'.kill = budget.kill
    BY <1>2, SpendFault DEF IInv
  <2>6. UNCHANGED <<github, records, asked>>
    BY <1>2, <1>a DEF records
  <2> QED
    BY <2>1, <2>2, <2>3, <2>4, <2>5, <2>6, QuietGo
<1> QED
  BY <1>1, <1>2 DEF Start

LEMMA FinishPreserves ==
  ASSUME IInv, NEW i \in DOMAIN jobs, Finish(i)
  PROVE  IInv'
<1>0. jobs[i] \in JobRec /\ JobOK(jobs[i]) /\ jobs[i].pr \in PRs /\ (Durable => SoloOK(jobs[i]))
  BY JobFacts
<1>a. jobs[i].at = "finish" /\ UNCHANGED <<github, counted, asked>>
  BY DEF Finish, At
<1>1. PICK job \in JobRec : job = [jobs[i] EXCEPT !.at = "count"]
  <2>1. [jobs[i] EXCEPT !.at = "count"] \in JobRec
    BY <1>0 DEF JobRec, Stages
  <2> QED
    BY <2>1
<1>2. /\ job.pr = jobs[i].pr /\ job.at = "count" /\ job.row = jobs[i].row
      /\ job.head = jobs[i].head /\ job.found = jobs[i].found
  BY <1>0, <1>1 DEF JobRec
<1>3. Go(i, job)
  BY <1>1 DEF Finish
<1>4. budget' \in BudgetRec /\ budget'.kill = budget.kill
  BY SpendFault DEF Finish, IInv, Types
<1>5. CASE rows' = rows
  <2>1. JobOK(job) /\ SoloOK(job)
    BY <1>0, <1>2 DEF JobOK, SoloOK
  <2>2. UNCHANGED <<github, records, asked>>
    BY <1>5, <1>a DEF records
  <2> QED
    BY <1>2, <1>3, <1>4, <2>1, <2>2, QuietGo
<1>6. CASE rows' # rows
  <2> DEFINE w == jobs[i].row
             done == [pr |-> jobs[i].pr, status |-> Outcome(jobs[i]),
                      head |-> IF jobs[i].threw THEN 0 ELSE jobs[i].head]
  <2>1. w # 0 /\ rows' = [rows EXCEPT ![w] = done]
    BY <1>6 DEF Finish
  <2>2. /\ rows \in Seq(RowRec) /\ DOMAIN rows = 1..Len(rows) /\ Len(rows) \in Nat
        /\ w \in 1..Len(rows) /\ rows[w].pr = jobs[i].pr
    BY <1>0, <2>1, RowTypes DEF IInv, JobOK
  <2>3. done \in RowRec
    BY <1>0, Sizes DEF RowRec, JobRec, Outcome
  <2>4. done.pr = jobs[i].pr /\ done.status = Outcome(jobs[i])
        /\ (~jobs[i].threw => done.head = jobs[i].head)
    OBVIOUS
  <2> HIDE DEF done
  <2>5. /\ rows' \in Seq(RowRec) /\ Len(rows') = Len(rows)
        /\ \A r \in 1..Len(rows) : rows'[r] = IF r = w THEN done ELSE rows[r]
    BY <2>1, <2>2, <2>3, ExceptSeq
  <2>6. DOMAIN rows' = DOMAIN rows
    BY <2>2, <2>5, LenProperties
  <2>7. \A r \in DOMAIN rows : rows'[r].pr = rows[r].pr
    BY <2>2, <2>4, <2>5
  <2>8. JobOK(job)'
    BY <1>0, <1>2, <1>a, <2>6, <2>7 DEF JobOK, github
  <2>9. SoloOK(job)'
    BY <1>2 DEF SoloOK
  \* What is recorded as a success has been published.
  <2>10. Durable => \A r \in DOMAIN rows' :
           rows'[r].status = "success" => Shown(rows'[r].pr, rows'[r].head)
    <3> SUFFICES ASSUME Durable, NEW r \in DOMAIN rows', rows'[r].status = "success"
                 PROVE  Shown(rows'[r].pr, rows'[r].head)
      OBVIOUS
    <3>1. CASE r = w
      <4>1. rows'[r] = done
        BY <2>2, <2>5, <3>1
      <4>2. ~jobs[i].threw
        BY <2>4, <4>1 DEF Outcome
      <4>3. Shown(jobs[i].pr, jobs[i].head)
        BY <1>0, <1>a, <4>2 DEF SoloOK
      <4> QED
        BY <2>4, <4>1, <4>2, <4>3
    <3>2. CASE r # w
      <4>1. r \in DOMAIN rows /\ rows'[r] = rows[r]
        BY <2>2, <2>5, <2>6, <3>2
      <4> QED
        BY <4>1 DEF IInv, ShownInv
    <3> QED
      BY <3>1, <3>2
  <2>11. ASSUME NEW k \in PRs
         PROVE  /\ Cardinality(RowsOf(k)') \in Nat
                /\ Cardinality(RowsOf(k)') + Cardinality(Fresh(k)')
                     <= Cardinality(RowsOf(k)) + Cardinality(Fresh(k))
    <3>1. Cardinality(RowsOf(k)) \in Nat /\ Cardinality(Fresh(k)) \in Nat
      BY Counts DEF IInv
    <3>2. Cardinality(Fresh(k)') \in Nat /\ Cardinality(Fresh(k)') <= Cardinality(Fresh(k))
      BY <1>2, <1>3, FreshStep
    <3>3. RowsOf(k)' = RowsOf(k)
      BY <2>6, <2>7 DEF RowsOf
    <3>4. \A a, b, c \in Nat : b <= c => a + b <= a + c
      OBVIOUS
    <3> QED
      BY <3>1, <3>2, <3>3, <3>4
  <2> QED
    BY <1>2, <1>3, <1>4, <1>a, <2>5, <2>6, <2>7, <2>8, <2>9, <2>10, <2>11, RowGo
<1> QED
  BY <1>5, <1>6

----------------------------------------------------------------------------
(* The queue, and GitHub.                                                     *)

\* A step of the queue that takes no more from GitHub than it is asked for.
LEMMA QueueGo ==
  ASSUME IInv, NEW kept \in Seq(JobRec),
         NEW f \in Injection(1..Len(kept), 1..Len(jobs)),
         \A j \in 1..Len(kept) : kept[j] = jobs[f[j]],
         NEW due \in [PRs -> Nat], NEW owing \in SUBSET PRs,
         Begins(kept, due, owing), UNCHANGED <<head, open, comments, rows>>,
         decided' \subseteq PRs, deliveries' \subseteq deliveries,
         counted' \in [success : Nat, failed : Nat], asked' \in [PRs -> Nat],
         budget' \in BudgetRec, budget'.kill = budget.kill,
         \A k \in PRs : due[k] + Cardinality(Coming(k)') + asked[k]
                          <= wanted[k] + Cardinality(Coming(k)) + asked'[k]
  PROVE  IInv'
<1>1. /\ jobs' \in Seq(JobRec) /\ wanted' \in [PRs -> Nat] /\ owed' \subseteq PRs
      /\ JobsInv'
      /\ \A k \in PRs : Cardinality(Fresh(k)') + wanted'[k] <= Cardinality(Fresh(k)) + due[k]
  BY QueuePreserves
<1>2. IsFiniteSet(deliveries')
  BY FS_Subset DEF IInv, Types
<1>3. Types'
  BY <1>1, <1>2 DEF IInv, Types
<1>4. CommentsInv' /\ ShownInv' /\ OneInv'
  BY DEF IInv, CommentsInv, ShownInv, OneInv, Shown, Reviews, Opening
<1>5. PaidInv'
  <2> SUFFICES ASSUME NEW k \in PRs
               PROVE  Cardinality(RowsOf(k)) + Cardinality(Fresh(k)') + wanted'[k]
                        + Cardinality(Coming(k)') <= asked'[k] + (MaxKills - budget.kill)
    BY DEF PaidInv, RowsOf
  <2>1. Cardinality(Fresh(k)') \in Nat /\ wanted'[k] \in Nat /\ due[k] \in Nat
    <3> DEFINE s == jobs'
    <3>1. s \in Seq(JobRec) /\ wanted'[k] \in Nat /\ due[k] \in Nat
      BY <1>1
    <3>2. Fresh(k)' = FreshIn(s, k)
      BY DEF Fresh, FreshIn
    <3> HIDE DEF s
    <3>3. Cardinality(FreshIn(s, k)) \in Nat
      BY <3>1, FreshFinite
    <3> QED
      BY <3>1, <3>2, <3>3
  <2>2. /\ Cardinality(RowsOf(k)) \in Nat /\ Cardinality(Coming(k)) \in Nat
        /\ Cardinality(Fresh(k)) \in Nat /\ wanted[k] \in Nat
        /\ asked[k] \in Nat /\ MaxKills - budget.kill \in Nat
    BY Counts DEF IInv
  <2>3. Cardinality(Coming(k)') \in Nat
    <3>1. Coming(k)' \in SUBSET deliveries'
      BY DEF Coming
    <3> QED
      BY <1>2, <3>1, FS_Subset, FS_CardinalityType
  <2>4. Cardinality(RowsOf(k)) + Cardinality(Fresh(k)) + wanted[k] + Cardinality(Coming(k))
          <= asked[k] + (MaxKills - budget.kill)
    BY DEF IInv, PaidInv
  <2>5. /\ Cardinality(Fresh(k)') + wanted'[k] <= Cardinality(Fresh(k)) + due[k]
        /\ due[k] + Cardinality(Coming(k)') + asked[k]
             <= wanted[k] + Cardinality(Coming(k)) + asked'[k]
    BY <1>1
  <2>6. asked'[k] \in Nat
    OBVIOUS
  <2>7. Traded(Cardinality(RowsOf(k)), Cardinality(Fresh(k)), wanted[k],
               Cardinality(Coming(k)), Cardinality(Fresh(k)'), wanted'[k],
               Cardinality(Coming(k)'), due[k], asked[k], asked'[k],
               MaxKills - budget.kill)
    BY <2>1, <2>2, <2>3, <2>4, <2>5, <2>6 DEF Traded
  <2> QED
    BY <2>7, Trade
<1> QED
  BY <1>1, <1>3, <1>4, <1>5 DEF IInv

\* All the calls of runJob() go on.
LEMMA AllKept ==
  ASSUME IInv
  PROVE  /\ jobs \in Seq(JobRec) /\ wanted \in [PRs -> Nat] /\ owed \in SUBSET PRs
         /\ \E f \in Injection(1..Len(jobs), 1..Len(jobs)) :
              \A j \in 1..Len(jobs) : jobs[j] = jobs[f[j]]
<1> DEFINE f == [j \in 1..Len(jobs) |-> j]
<1>1. f \in Injection(1..Len(jobs), 1..Len(jobs))
  BY DEF Injection, IsInjective
<1>2. \A j \in 1..Len(jobs) : jobs[j] = jobs[f[j]]
  OBVIOUS
<1> HIDE DEF f
<1>3. jobs \in Seq(JobRec) /\ wanted \in [PRs -> Nat] /\ owed \in SUBSET PRs
  BY DEF IInv, Types
<1> QED
  BY <1>1, <1>2, <1>3

LEMMA QueueBeginsPreserves ==
  ASSUME IInv, QueueBegins
  PROVE  IInv'
<1>1. PICK kept \in Seq(JobRec), due \in [PRs -> Nat], owing \in SUBSET PRs :
        /\ kept = jobs /\ due = wanted /\ owing = owed
        /\ \E f \in Injection(1..Len(kept), 1..Len(jobs)) :
             \A j \in 1..Len(kept) : kept[j] = jobs[f[j]]
  BY AllKept
<1>2. PICK f \in Injection(1..Len(kept), 1..Len(jobs)) :
        \A j \in 1..Len(kept) : kept[j] = jobs[f[j]]
  BY <1>1, Zenon
<1>3. QueueStep(kept) /\ Queue!Proceed(PrsIn(kept), due, owing)
  BY <1>1 DEF QueueBegins, QueueStep, Queue!Begin, Queue!Proceed, PrsIn
<1>4. Begins(kept, due, owing)
  BY <1>3, QueueEffect
<1>5. UNCHANGED <<head, open, deliveries, comments, rows, counted, decided, asked, budget>>
  BY DEF QueueBegins, github, records
<1>6. \A k \in PRs : due[k] + Cardinality(Coming(k)') + asked[k]
                     <= wanted[k] + Cardinality(Coming(k)) + asked'[k]
  <2> SUFFICES ASSUME NEW k \in PRs
               PROVE  due[k] + Cardinality(Coming(k)') + asked[k]
                        <= wanted[k] + Cardinality(Coming(k)) + asked'[k]
    OBVIOUS
  <2>1. Coming(k)' = Coming(k) /\ asked'[k] = asked[k]
    BY <1>5 DEF Coming, Actionable
  <2>2. \A a, b, c \in Nat : a + b + c <= a + b + c
    OBVIOUS
  <2>3. wanted[k] \in Nat /\ Cardinality(Coming(k)) \in Nat /\ asked[k] \in Nat
    BY Counts DEF IInv
  <2> QED
    BY <1>1, <2>1, <2>2, <2>3
<1>7. /\ decided' \subseteq PRs /\ deliveries' \subseteq deliveries
      /\ counted' \in [success : Nat, failed : Nat] /\ asked' \in [PRs -> Nat]
      /\ budget' \in BudgetRec /\ budget'.kill = budget.kill
  BY <1>5 DEF IInv, Types
<1> QED
  BY <1>2, <1>4, <1>5, <1>6, <1>7, QueueGo

\* Nothing happens but that GitHub has less to deliver.
LEMMA QuietWorld ==
  ASSUME IInv, deliveries' \subseteq deliveries,
         UNCHANGED <<queue, jobs, head, open, comments, records, asked>>,
         budget' \in BudgetRec, budget'.kill = budget.kill
  PROVE  IInv'
<1>1. UNCHANGED <<wanted, owed, decided, jobs, head, open, comments, rows, counted, asked>>
  BY DEF queue, records
<1>2. IsFiniteSet(deliveries')
  BY FS_Subset DEF IInv, Types
<1>3. Types'
  BY <1>1, <1>2 DEF IInv, Types
<1>4. CommentsInv' /\ ShownInv' /\ OneInv'
  BY <1>1 DEF IInv, CommentsInv, ShownInv, OneInv, Shown, Reviews, Opening
<1>5. JobsInv'
  BY <1>1 DEF IInv, JobsInv, JobOK, SoloOK, Shown, Reviews
<1>6. PaidInv'
  <2> SUFFICES ASSUME NEW k \in PRs
               PROVE  Cardinality(RowsOf(k)) + Cardinality(Fresh(k)) + wanted[k]
                        + Cardinality(Coming(k)') <= asked[k] + (MaxKills - budget.kill)
    BY <1>1 DEF PaidInv, RowsOf, Fresh, FreshIn
  <2>1. /\ Cardinality(RowsOf(k)) \in Nat /\ Cardinality(Coming(k)) \in Nat
        /\ Cardinality(Fresh(k)) \in Nat /\ wanted[k] \in Nat
        /\ asked[k] \in Nat /\ MaxKills - budget.kill \in Nat
        /\ IsFiniteSet(Coming(k))
    BY Counts DEF IInv
  <2>2. Coming(k)' \in SUBSET Coming(k)
    BY DEF Coming, Actionable
  <2>3. Cardinality(Coming(k)') \in Nat /\ Cardinality(Coming(k)') <= Cardinality(Coming(k))
    BY <2>1, <2>2, FS_Subset, FS_CardinalityType
  <2>4. Cardinality(RowsOf(k)) + Cardinality(Fresh(k)) + wanted[k] + Cardinality(Coming(k))
          <= asked[k] + (MaxKills - budget.kill)
    BY DEF IInv, PaidInv
  <2>5. \A a, b, c, d, e, f, g \in Nat :
          e <= d /\ a + b + c + d <= f + g => a + b + c + e <= f + g
    OBVIOUS
  <2> QED
    BY <2>1, <2>3, <2>4, <2>5
<1> QED
  BY <1>3, <1>4, <1>5, <1>6 DEF IInv

LEMMA DeliverPreserves ==
  ASSUME IInv, NEW d \in deliveries, Deliver(d)
  PROVE  IInv'
<1>0. d.pr \in PRs /\ IsFiniteSet(deliveries)
  BY DEF IInv, Types
<1>1. CASE /\ Actionable(d)
           /\ QueueStep(jobs)
           /\ Queue!Ask(d.pr)
           /\ \/ deliveries' = deliveries \ {d} /\ UNCHANGED <<asked, budget>>
              \/ /\ Spend("fault")
                 /\ asked' = [asked EXCEPT ![d.pr] = @ + 1]
                 /\ UNCHANGED deliveries
           /\ UNCHANGED <<decided, head, open, comments, records>>
  <2> DEFINE one == [wanted EXCEPT ![d.pr] = @ + 1]
  <2>1. jobs \in Seq(JobRec) /\ wanted \in [PRs -> Nat] /\ owed \in SUBSET PRs
    BY AllKept
  <2>2. wanted[d.pr] \in Nat /\ wanted[d.pr] + 1 \in Nat
    BY <1>0, <2>1
  <2>3. one \in [PRs -> Nat] /\ (owed \cup {d.pr}) \in SUBSET PRs
    BY <1>0, <2>1, <2>2
  <2>4. PICK kept \in Seq(JobRec), due \in [PRs -> Nat], owing \in SUBSET PRs :
          /\ kept = jobs /\ due \in {wanted, one} /\ owing = owed \cup {d.pr}
          /\ Queue!Proceed(PrsIn(kept), due, owing)
    <3>1. CASE Queue!Proceed(PrsIn(jobs), one, owed \cup {d.pr})
      BY <2>1, <2>3, <3>1 DEF Queue!Proceed
    <3>2. CASE Queue!Proceed(PrsIn(jobs), wanted, owed \cup {d.pr})
      BY <2>1, <2>3, <3>2 DEF Queue!Proceed
    <3> QED
      BY <1>1, <3>1, <3>2 DEF Queue!Ask, PrsIn
  <2>5. PICK f \in Injection(1..Len(kept), 1..Len(jobs)) :
          \A j \in 1..Len(kept) : kept[j] = jobs[f[j]]
    BY <2>4, AllKept
  <2>6. Begins(kept, due, owing)
    <3>1. QueueStep(kept)
      BY <1>1, <2>4 DEF QueueStep
    <3> QED
      BY <2>4, <3>1, QueueEffect
  <2>7. UNCHANGED <<head, open, comments, rows, counted, decided>>
    BY <1>1 DEF records
  <2>c. asked \in [PRs -> Nat] /\ asked[d.pr] \in Nat /\ asked[d.pr] + 1 \in Nat
    BY <1>0 DEF IInv, Types
  \* The webhook that asks for a review is not delivered again, or asks anew.
  <2>8. ASSUME NEW k \in PRs
        PROVE  due[k] + Cardinality(Coming(k)') + asked[k]
                 <= wanted[k] + Cardinality(Coming(k)) + asked'[k]
    <3>1. /\ wanted[k] \in Nat /\ Cardinality(Coming(k)) \in Nat /\ IsFiniteSet(Coming(k))
          /\ asked[k] \in Nat
      BY Counts DEF IInv
    <3>2. CASE k = d.pr
      <4>1. due[k] = wanted[k] \/ due[k] = wanted[k] + 1
        BY <2>1, <2>4, <3>2
      <4>2. CASE deliveries' = deliveries \ {d} /\ UNCHANGED <<asked, budget>>
        <5>1. Coming(k)' = Coming(k) \ {d} /\ d \in Coming(k)
          BY <1>1, <3>2, <4>2 DEF Coming, Actionable
        <5>2. Cardinality(Coming(k)') = Cardinality(Coming(k)) - 1 /\ asked'[k] = asked[k]
          BY <3>1, <4>2, <5>1, FS_RemoveElement
        <5>3. \A a, b, c \in Nat : /\ a + (b - 1) + c <= a + b + c
                                   /\ (a + 1) + (b - 1) + c <= a + b + c
          OBVIOUS
        <5> QED
          BY <3>1, <4>1, <5>2, <5>3
      <4>3. CASE asked' = [asked EXCEPT ![d.pr] = @ + 1] /\ UNCHANGED deliveries
        <5>1. Coming(k)' = Coming(k) /\ asked'[k] = asked[k] + 1
          BY <2>c, <3>2, <4>3 DEF Coming, Actionable
        <5>2. \A a, b, c \in Nat : /\ a + b + c <= a + b + (c + 1)
                                   /\ (a + 1) + b + c <= a + b + (c + 1)
          OBVIOUS
        <5> QED
          BY <3>1, <4>1, <5>1, <5>2
      <4> QED
        BY <1>1, <4>2, <4>3
    <3>3. CASE k # d.pr
      <4>1. Coming(k)' = Coming(k)
        BY <1>1, <3>3 DEF Coming, Actionable
      <4>2. due[k] = wanted[k] /\ asked'[k] = asked[k]
        BY <1>1, <2>1, <2>4, <2>c, <3>3
      <4>3. \A a, b, c \in Nat : a + b + c <= a + b + c
        OBVIOUS
      <4> QED
        BY <3>1, <4>1, <4>2, <4>3
    <3> QED
      BY <3>2, <3>3
  <2>9. asked' \in [PRs -> Nat]
    BY <1>1, <2>c
  <2>10. /\ decided' \subseteq PRs /\ deliveries' \subseteq deliveries
         /\ counted' \in [success : Nat, failed : Nat]
    BY <1>1, <2>7 DEF IInv, Types
  <2>11. budget' \in BudgetRec /\ budget'.kill = budget.kill
    BY <1>1, SpendFault DEF IInv, Types
  <2> QED
    BY <2>5, <2>6, <2>7, <2>8, <2>9, <2>10, <2>11, QueueGo
<1>2. CASE /\ deliveries' = deliveries \ {d}
           /\ UNCHANGED <<queue, jobs, head, open, comments, records, asked, budget>>
  BY <1>2, QuietWorld DEF IInv, Types
<1>3. CASE /\ Spend("fault")
           /\ deliveries' \in {deliveries, deliveries \ {d}}
           /\ UNCHANGED <<queue, jobs, head, open, comments, records, asked>>
  <2>1. budget' \in BudgetRec /\ budget'.kill = budget.kill
    BY <1>3, SpendFault DEF IInv
  <2> QED
    BY <1>3, <2>1, QuietWorld
<1> QED
  BY <1>1, <1>2, <1>3 DEF Deliver

\* The calls of runJob() that are left when one of them is done.
LEMMA OneDone ==
  ASSUME NEW s \in Seq(JobRec), NEW i \in 1..Len(s)
  PROVE  /\ RemoveAt(s, i) \in Seq(JobRec)
         /\ PrsIn(RemoveAt(s, i)) = RemoveAt(PrsIn(s), i)
         /\ \E f \in Injection(1..Len(RemoveAt(s, i)), 1..Len(s)) :
              \A j \in 1..Len(RemoveAt(s, i)) : RemoveAt(s, i)[j] = s[f[j]]
<1> DEFINE t == RemoveAt(s, i)
           n == Len(s) - 1
           f == [j \in 1..n |-> IF j < i THEN j ELSE j + 1]
<1>1. /\ t \in Seq(JobRec) /\ Len(t) = n
      /\ \A j \in 1..n : t[j] = s[IF j < i THEN j ELSE j + 1]
  BY RemoveAtPlaces
<1>2. Len(s) \in Nat /\ n \in Nat
  <2>1. Len(s) \in Nat
    BY LenProperties
  <2> QED
    BY <2>1
<1>3. \A j \in 1..n : (IF j < i THEN j ELSE j + 1) \in 1..Len(s)
  BY <1>2
<1>4. PrsIn(t) = RemoveAt(PrsIn(s), i)
  <2> DEFINE p == PrsIn(s)
             q == RemoveAt(p, i)
  <2>1. p \in Seq(PRs) /\ Len(p) = Len(s) /\ \A j \in 1..Len(s) : p[j] = s[j].pr
    BY PrsOf
  <2> HIDE DEF p
  <2>2. /\ q \in Seq(PRs) /\ Len(q) = n
        /\ \A j \in 1..n : q[j] = p[IF j < i THEN j ELSE j + 1]
    BY <2>1, RemoveAtPlaces
  <2> HIDE DEF q
  <2>3. PrsIn(t) \in Seq(PRs) /\ Len(PrsIn(t)) = n /\ \A j \in 1..n : PrsIn(t)[j] = t[j].pr
    BY <1>1, PrsOf
  <2>4. \A j \in 1..n : PrsIn(t)[j] = q[j]
    BY <1>1, <1>3, <2>1, <2>2, <2>3
  <2>5. PrsIn(t) = q
    BY <2>2, <2>3, <2>4, SeqEqual
  <2> QED
    BY <2>5 DEF q, p
<1>5. f \in Injection(1..n, 1..Len(s))
  <2>1. f \in [1..n -> 1..Len(s)]
    BY <1>3
  <2>2. \A a, b \in 1..n : f[a] = f[b] => a = b
    BY <1>2
  <2> HIDE DEF f
  <2> QED
    BY <2>1, <2>2 DEF Injection, IsInjective
<1>6. \A j \in 1..n : t[j] = s[f[j]]
  BY <1>1
<1> HIDE DEF f, t
<1>7. \E g \in Injection(1..Len(t), 1..Len(s)) : \A j \in 1..Len(t) : t[j] = s[g[j]]
  BY <1>1, <1>5, <1>6
<1> QED
  BY <1>1, <1>4, <1>7 DEF t

LEMMA CountPreserves ==
  ASSUME IInv, NEW i \in DOMAIN jobs, Count(i)
  PROVE  IInv'
<1>0. jobs[i] \in JobRec /\ jobs[i].pr \in PRs /\ i \in 1..Len(jobs)
  BY JobFacts
<1>1. jobs \in Seq(JobRec) /\ wanted \in [PRs -> Nat] /\ owed \in SUBSET PRs
  BY AllKept
<1>2. PICK kept \in Seq(JobRec), due \in [PRs -> Nat], owing \in SUBSET PRs :
        /\ kept = RemoveAt(jobs, i) /\ due = wanted /\ owing = owed
        /\ PrsIn(kept) = RemoveAt(PrsIn(jobs), i)
        /\ \E f \in Injection(1..Len(kept), 1..Len(jobs)) :
             \A j \in 1..Len(kept) : kept[j] = jobs[f[j]]
  BY <1>0, <1>1, OneDone
<1>3. PICK f \in Injection(1..Len(kept), 1..Len(jobs)) :
        \A j \in 1..Len(kept) : kept[j] = jobs[f[j]]
  BY <1>2
<1>4. Begins(kept, due, owing)
  <2>1. QueueStep(kept)
    BY <1>2 DEF Count, QueueStep
  <2>2. RemoveAt(PrsIn(jobs), i) = Queue!RemoveAt([j \in DOMAIN jobs |-> jobs[j].pr], i)
    BY DEF RemoveAt, Queue!RemoveAt, PrsIn
  <2>3. Queue!Proceed(PrsIn(kept), due, owing)
    BY <1>2, <2>2 DEF Count, Queue!End, Queue!Proceed
  <2> QED
    BY <2>1, <2>3, QueueEffect
<1>5. UNCHANGED <<head, open, deliveries, comments, rows, asked>>
  BY DEF Count, github
<1>6. \A k \in PRs : due[k] + Cardinality(Coming(k)') + asked[k]
                     <= wanted[k] + Cardinality(Coming(k)) + asked'[k]
  <2> SUFFICES ASSUME NEW k \in PRs
               PROVE  due[k] + Cardinality(Coming(k)') + asked[k]
                        <= wanted[k] + Cardinality(Coming(k)) + asked'[k]
    OBVIOUS
  <2>1. Coming(k)' = Coming(k) /\ asked'[k] = asked[k]
    BY <1>5 DEF Coming, Actionable
  <2>2. \A a, b, c \in Nat : a + b + c <= a + b + c
    OBVIOUS
  <2>3. wanted[k] \in Nat /\ Cardinality(Coming(k)) \in Nat /\ asked[k] \in Nat
    BY Counts DEF IInv
  <2> QED
    BY <1>2, <2>1, <2>2, <2>3
<1>7. counted' \in [success : Nat, failed : Nat]
  <2>1. counted \in [success : Nat, failed : Nat]
    BY DEF IInv, Types
  <2>2. counted.success + 1 \in Nat /\ counted.failed + 1 \in Nat
    BY <2>1
  <2>3. \/ counted' = counted
        \/ counted' = [counted EXCEPT !["success"] = counted["success"] + 1]
        \/ counted' = [counted EXCEPT !["failed"] = counted["failed"] + 1]
    BY DEF Count, Logged, Outcome
  <2> QED
    BY <2>1, <2>2, <2>3
<1>8. budget' \in BudgetRec /\ budget'.kill = budget.kill
  BY SpendFault DEF Count, Logged, IInv, Types
<1>9. decided' \subseteq PRs /\ deliveries' \subseteq deliveries /\ asked' \in [PRs -> Nat]
  BY <1>0, <1>5 DEF Count, IInv, Types
<1> QED
  BY <1>3, <1>4, <1>5, <1>6, <1>7, <1>8, <1>9, QueueGo

\* A restart pays for the reviews that begin again.
LEMMA RestartPreserves ==
  ASSUME IInv, Restart
  PROVE  IInv'
<1>1. UNCHANGED <<decided, head, open, deliveries, comments, rows, counted, asked>>
  BY DEF Restart, github, records
<1>2. jobs' = <<>> /\ jobs' \in Seq(JobRec) /\ DOMAIN jobs' = {} /\ Len(jobs') = 0
  BY DEF Restart
<1>3. /\ owed' \subseteq PRs /\ wanted' \in [PRs -> Nat]
      /\ \A k \in PRs : wanted'[k] \in Nat /\ wanted'[k] <= wanted[k] + 1
  <2>1. wanted \in [PRs -> Nat] /\ owed \subseteq PRs
    BY DEF IInv, Types
  <2>2. \A k \in PRs : wanted[k] \in Nat
    BY <2>1
  <2>3. owed' = IF Durable THEN owed ELSE {}
    BY DEF Restart, Queue!Restart
  <2>4. \E S : wanted' = [k \in PRs |-> IF ~Durable THEN 0
                                        ELSE wanted[k] + (IF k \in S THEN 1 ELSE 0)]
    BY DEF Restart, Queue!Restart
  <2>5. PICK S : wanted' = [k \in PRs |-> IF ~Durable THEN 0
                                          ELSE wanted[k] + (IF k \in S THEN 1 ELSE 0)]
    BY <2>4
  <2>6. \A n \in Nat : 0 \in Nat /\ n + 0 \in Nat /\ n + 1 \in Nat
                       /\ 0 <= n + 1 /\ n + 0 <= n + 1 /\ n + 1 <= n + 1
    OBVIOUS
  <2>7. \A k \in PRs : wanted'[k] \in Nat /\ wanted'[k] <= wanted[k] + 1
    BY <2>2, <2>5, <2>6
  <2>8. wanted' \in [PRs -> Nat]
    BY <2>5, <2>7
  <2> QED
    BY <2>1, <2>3, <2>7, <2>8
<1>4. /\ budget' \in BudgetRec
      /\ MaxKills - budget'.kill \in Nat
      /\ MaxKills - budget'.kill = (MaxKills - budget.kill) + 1
  <2>1. budget \in BudgetRec /\ budget.kill > 0
    BY DEF IInv, Types, Restart, Spend
  <2>2. MaxKills \in Nat /\ budget.kill \in 0..MaxKills
    BY <2>1, Sizes DEF BudgetRec
  <2>3. budget.kill - 1 \in 0..MaxKills
        /\ MaxKills - (budget.kill - 1) \in Nat
        /\ MaxKills - (budget.kill - 1) = (MaxKills - budget.kill) + 1
    BY <2>1, <2>2
  <2>4. budget' = [budget EXCEPT !.kill = budget.kill - 1]
    BY DEF Restart, Spend
  <2>5. budget'.kill = budget.kill - 1 /\ budget' \in BudgetRec
    BY <2>1, <2>3, <2>4 DEF BudgetRec
  <2> QED
    BY <2>3, <2>5
<1>5. Types'
  BY <1>1, <1>2, <1>3, <1>4 DEF IInv, Types
<1>6. CommentsInv' /\ ShownInv' /\ OneInv'
  BY <1>1 DEF IInv, CommentsInv, ShownInv, OneInv, Shown, Reviews, Opening
<1>7. JobsInv'
  BY <1>2 DEF JobsInv
<1>8. PaidInv'
  <2> SUFFICES ASSUME NEW k \in PRs
               PROVE  Cardinality(RowsOf(k)) + Cardinality(Fresh(k)') + wanted'[k]
                        + Cardinality(Coming(k)) <= asked[k] + (MaxKills - budget'.kill)
    BY <1>1 DEF PaidInv, RowsOf, Coming, Actionable
  <2>1. /\ Cardinality(RowsOf(k)) \in Nat /\ Cardinality(Coming(k)) \in Nat
        /\ Cardinality(Fresh(k)) \in Nat /\ wanted[k] \in Nat
        /\ asked[k] \in Nat /\ MaxKills - budget.kill \in Nat
    BY Counts DEF IInv
  <2>2. Cardinality(Fresh(k)') = 0
    <3>1. Fresh(k)' = {}
      BY <1>2 DEF Fresh, FreshIn
    <3> QED
      BY <3>1, FS_EmptySet
  <2>3. Cardinality(RowsOf(k)) + Cardinality(Fresh(k)) + wanted[k] + Cardinality(Coming(k))
          <= asked[k] + (MaxKills - budget.kill)
    BY DEF IInv, PaidInv
  <2>4. wanted'[k] \in Nat /\ wanted'[k] <= wanted[k] + 1
    BY <1>3
  <2>5. \A a, b, c, d, e, f, g \in Nat :
          e <= c + 1 /\ a + b + c + d <= f + g => a + 0 + e + d <= f + (g + 1)
    OBVIOUS
  <2>6. Cardinality(RowsOf(k)) + 0 + wanted'[k] + Cardinality(Coming(k))
          <= asked[k] + ((MaxKills - budget.kill) + 1)
    BY <2>1, <2>3, <2>4, <2>5
  <2> QED
    BY <1>4, <2>2, <2>6
<1> QED
  BY <1>5, <1>6, <1>7, <1>8 DEF IInv

\* A webhook more is paid for by itself.
LEMMA CalledPays ==
  ASSUME IInv, NEW k \in PRs, NEW action, action # "closed", Called(k, action),
         UNCHANGED <<wanted, jobs, rows>>, budget'.kill = budget.kill
  PROVE  /\ IsFiniteSet(deliveries') /\ \A e \in deliveries' : e.pr \in PRs
         /\ asked' \in [PRs -> Nat]
         /\ PaidInv'
<1> DEFINE d == [pr |-> k, action |-> action, nr |-> asked[k] + 1]
<1>1. d.pr = k /\ d.action # "closed"
  OBVIOUS
<1>2. /\ deliveries' = deliveries \cup {d} /\ asked' = [asked EXCEPT ![k] = @ + 1]
      /\ IsFiniteSet(deliveries) /\ asked \in [PRs -> Nat]
      /\ \A e \in deliveries : e.pr \in PRs
  BY DEF Called, IInv, Types
<1> HIDE DEF d
<1>3. asked[k] \in Nat /\ asked[k] + 1 \in Nat
  BY <1>2
<1>4. IsFiniteSet(deliveries')
  BY <1>2, FS_AddElement
<1>5. (\A e \in deliveries' : e.pr \in PRs) /\ asked' \in [PRs -> Nat]
  BY <1>1, <1>2, <1>3
<1>6. PaidInv'
  <2> SUFFICES ASSUME NEW p \in PRs
               PROVE  Cardinality(RowsOf(p)) + Cardinality(Fresh(p)) + wanted[p]
                        + Cardinality(Coming(p)') <= asked'[p] + (MaxKills - budget.kill)
    BY DEF PaidInv, RowsOf, Fresh, FreshIn
  <2>1. /\ Cardinality(RowsOf(p)) \in Nat /\ Cardinality(Coming(p)) \in Nat
        /\ Cardinality(Fresh(p)) \in Nat /\ wanted[p] \in Nat
        /\ asked[p] \in Nat /\ MaxKills - budget.kill \in Nat
        /\ IsFiniteSet(Coming(p))
    BY Counts DEF IInv
  <2>2. Cardinality(RowsOf(p)) + Cardinality(Fresh(p)) + wanted[p] + Cardinality(Coming(p))
          <= asked[p] + (MaxKills - budget.kill)
    BY DEF IInv, PaidInv
  <2>3. CASE p = k
    <3>1. Coming(p)' = Coming(p) \cup {d}
      BY <1>1, <1>2, <2>3 DEF Coming, Actionable
    <3>2. Cardinality(Coming(p)') = Cardinality(Coming(p))
          \/ Cardinality(Coming(p)') = Cardinality(Coming(p)) + 1
      BY <2>1, <3>1, FS_AddElement
    <3>3. asked'[p] = asked[p] + 1
      BY <1>2, <2>3
    <3>4. \A a, b, c, e, f, g \in Nat :
            a + b + c + e <= f + g => /\ a + b + c + e <= (f + 1) + g
                                      /\ a + b + c + (e + 1) <= (f + 1) + g
      OBVIOUS
    <3> QED
      BY <2>1, <2>2, <3>2, <3>3, <3>4
  <2>4. CASE p # k
    <3>1. Coming(p)' = Coming(p)
      BY <1>1, <1>2, <2>4 DEF Coming, Actionable
    <3>2. asked'[p] = asked[p]
      BY <1>2, <2>4
    <3> QED
      BY <2>2, <3>1, <3>2
  <2> QED
    BY <2>3, <2>4
<1> QED
  BY <1>4, <1>5, <1>6

LEMMA PushPreserves ==
  ASSUME IInv, NEW k \in PRs, Push(k)
  PROVE  IInv'
<1>1. UNCHANGED <<wanted, owed, decided, jobs, open, comments, rows, counted, budget>>
  BY DEF Push, queue, records
<1>2. head \in [PRs -> 0..MaxHeads]
  BY DEF IInv, Types
<1>3. head[k] \in 0..MaxHeads /\ head[k] + 1 \in 0..MaxHeads /\ head[k] \in Nat
  BY <1>2, Sizes DEF Push
<1>4. head' = [head EXCEPT ![k] = head[k] + 1]
  BY DEF Push
<1>5. /\ IsFiniteSet(deliveries') /\ \A e \in deliveries' : e.pr \in PRs
      /\ asked' \in [PRs -> Nat] /\ PaidInv'
  BY <1>1, CalledPays DEF Push
<1>6. head' \in [PRs -> 0..MaxHeads]
  BY <1>2, <1>3, <1>4
<1>7. /\ \A p \in PRs : head[p] \in Nat /\ head'[p] \in Nat /\ head[p] <= head'[p]
      /\ head'[k] = head[k] + 1
      /\ \A p \in PRs : p # k => head'[p] = head[p]
  <2>1. \A n \in Nat : n <= n /\ n <= n + 1
    OBVIOUS
  <2>2. \A n \in 0..MaxHeads : n \in Nat
    OBVIOUS
  <2>3. \A p \in PRs : head[p] \in Nat /\ head'[p] \in Nat
    BY <1>2, <1>6, <2>2
  <2>4. head'[k] = head[k] + 1 /\ \A p \in PRs : p # k => head'[p] = head[p]
    BY <1>2, <1>4
  <2>5. ASSUME NEW p \in PRs PROVE head[p] <= head'[p]
    <3>1. CASE p = k
      BY <2>1, <2>3, <2>4, <3>1
    <3>2. CASE p # k
      BY <2>1, <2>3, <2>4, <3>2
    <3> QED
      BY <3>1, <3>2
  <2> QED
    BY <2>3, <2>4, <2>5
<1>8. Types'
  BY <1>1, <1>5, <1>6 DEF IInv, Types
\* A head that goes up is still ahead of what was read of it.
<1>r. \A a, b, c \in Nat : a <= b /\ b <= c => a <= c
  OBVIOUS
<1>9. CommentsInv'
  <2> SUFFICES ASSUME NEW p \in PRs, NEW c \in DOMAIN comments[p]
               PROVE  comments[p][c].opens \in {Opening(p), "note"}
                      /\ comments[p][c].head <= head'[p]
    BY <1>1 DEF CommentsInv, Opening
  <2>1. comments[p][c].opens \in {Opening(p), "note"} /\ comments[p][c].head <= head[p]
    BY DEF IInv, CommentsInv
  <2>2. comments[p][c].head \in Nat
    BY CommentTypes DEF IInv
  <2> QED
    BY <1>7, <1>r, <2>1, <2>2
<1>10. JobsInv'
  <2>1. ASSUME NEW i \in DOMAIN jobs PROVE JobOK(jobs[i])'
    <3>1. jobs[i] \in JobRec /\ jobs[i].pr \in PRs /\ JobOK(jobs[i])
      BY JobFacts
    <3>2. \A n \in 0..MaxHeads : n \in Nat
      OBVIOUS
    <3>3. jobs[i].head \in Nat
      BY <3>1, <3>2 DEF JobRec
    <3>4. jobs[i].head <= head'[jobs[i].pr]
      BY <1>7, <1>r, <3>1, <3>3 DEF JobOK
    <3> QED
      BY <1>1, <3>1, <3>4 DEF JobOK
  <2>2. (\A i \in DOMAIN jobs : JobOK(jobs[i]))'
    BY <1>1, <2>1
  <2>3. Durable => (\A i \in DOMAIN jobs : SoloOK(jobs[i]))'
    BY <1>1 DEF IInv, JobsInv, SoloOK, Shown, Reviews
  <2> QED
    BY <1>1, <2>2, <2>3 DEF IInv, JobsInv
<1>11. ShownInv' /\ OneInv'
  BY <1>1 DEF IInv, ShownInv, OneInv, Shown, Reviews
<1> QED
  BY <1>5, <1>8, <1>9, <1>10, <1>11 DEF IInv

LEMMA TriggerPreserves ==
  ASSUME IInv, NEW k \in PRs, Trigger(k)
  PROVE  IInv'
<1>1. UNCHANGED <<wanted, owed, decided, jobs, head, open, comments, rows, counted>>
  BY DEF Trigger, queue, records
<1>2. budget' \in BudgetRec /\ budget'.kill = budget.kill
  <2>1. budget \in BudgetRec /\ budget.call > 0
    BY DEF IInv, Types, Trigger, Spend
  <2>2. budget.call - 1 \in Nat
    BY <2>1 DEF BudgetRec
  <2>3. budget' = [budget EXCEPT !.call = budget.call - 1]
    BY DEF Trigger, Spend
  <2> QED
    BY <2>1, <2>2, <2>3 DEF BudgetRec
<1>3. /\ IsFiniteSet(deliveries') /\ \A e \in deliveries' : e.pr \in PRs
      /\ asked' \in [PRs -> Nat] /\ PaidInv'
  BY <1>1, <1>2, CalledPays DEF Trigger
<1>4. Types'
  BY <1>1, <1>2, <1>3 DEF IInv, Types
<1>5. CommentsInv' /\ ShownInv' /\ OneInv'
  BY <1>1 DEF IInv, CommentsInv, ShownInv, OneInv, Shown, Reviews, Opening
<1>6. JobsInv'
  BY <1>1 DEF IInv, JobsInv, JobOK, SoloOK, Shown, Reviews
<1> QED
  BY <1>3, <1>4, <1>5, <1>6 DEF IInv

\* Somebody else's comment is no review, and moves none.
LEMMA TalkPreserves ==
  ASSUME IInv, NEW k \in PRs, Talk(k)
  PROVE  IInv' /\ CommentsGrow(k)
<1>1. UNCHANGED <<wanted, owed, decided, jobs, head, open, deliveries, rows, counted, asked>>
  BY DEF Talk, queue, records
<1>2. budget' \in BudgetRec /\ budget'.kill = budget.kill
  <2>1. budget \in BudgetRec /\ budget.talk > 0
    BY DEF IInv, Types, Talk, Spend
  <2>2. budget.talk - 1 \in Nat
    BY <2>1 DEF BudgetRec
  <2>3. budget' = [budget EXCEPT !.talk = budget.talk - 1]
    BY DEF Talk, Spend
  <2> QED
    BY <2>1, <2>2, <2>3 DEF BudgetRec
<1> DEFINE s == comments[k]
           t == comments'[k]
           n == Len(s) + 1
<1>3. /\ CommentsGrow(k) /\ DOMAIN t = (DOMAIN s) \cup {n}
      /\ \A c \in DOMAIN s : t[c] = s[c]
      /\ t[n].opens = "note" /\ t[n].head = 0
  <2>1. 0 \in 0..MaxHeads /\ 0 <= head[k]
    <3>1. head[k] \in 0..MaxHeads
      BY DEF IInv, Types
    <3> QED
      BY <3>1, Sizes
  <2>2. comments' = [comments EXCEPT ![k] = Append(@, [opens |-> "note", head |-> 0])]
    BY DEF Talk
  <2>3. /\ CommentsGrow(k) /\ DOMAIN t = (DOMAIN s) \cup {n}
        /\ \A c \in DOMAIN s : t[c] = s[c]
        /\ t[n] = [opens |-> "note", head |-> 0]
    BY <2>1, <2>2, NoteGrows
  <2> QED
    BY <2>3
<1>4. \A p \in PRs : p # k => comments'[p] = comments[p]
  BY <1>3 DEF CommentsGrow
<1> HIDE DEF n
<1>5. Types'
  BY <1>1, <1>2, <1>3 DEF IInv, Types, CommentsGrow
<1>6. CommentsInv'
  <2> SUFFICES ASSUME NEW p \in PRs, NEW c \in DOMAIN comments'[p]
               PROVE  comments'[p][c].opens \in {Opening(p), "note"}
                      /\ comments'[p][c].head <= head[p]
    BY <1>1 DEF CommentsInv, Opening
  <2>1. CASE p = k
    BY <1>3, <2>1 DEF CommentsGrow
  <2>2. CASE p # k
    BY <1>4, <2>2 DEF IInv, CommentsInv
  <2> QED
    BY <2>1, <2>2
\* The reviews there are stay where they are.
<1>7. \A p \in PRs : /\ Reviews(p)' = Reviews(p)
                     /\ \A c \in Reviews(p) : comments'[p][c] = comments[p][c]
  <2> SUFFICES ASSUME NEW p \in PRs
               PROVE  /\ Reviews(p)' = Reviews(p)
                      /\ \A c \in Reviews(p) : comments'[p][c] = comments[p][c]
    OBVIOUS
  <2>1. CASE p = k
    BY <1>3, <2>1 DEF Reviews
  <2>2. CASE p # k
    BY <1>4, <2>2 DEF Reviews
  <2> QED
    BY <2>1, <2>2
<1>8. \A p \in PRs : \A h : Shown(p, h) => Shown(p, h)'
  BY <1>7 DEF Shown
<1>9. OneInv'
  BY <1>7 DEF IInv, OneInv
<1>10. ShownInv'
  <2>1. \A x \in DOMAIN rows : rows[x].pr \in PRs
    BY RowTypes DEF IInv
  <2> SUFFICES ASSUME Durable, NEW x \in DOMAIN rows, rows[x].status = "success"
               PROVE  \E c \in Reviews(rows[x].pr)' :
                        comments'[rows[x].pr][c].head >= rows[x].head
    BY <1>1 DEF ShownInv, Shown, Reviews
  <2>2. Shown(rows[x].pr, rows[x].head)
    BY DEF IInv, ShownInv
  <2>3. PICK c \in Reviews(rows[x].pr) :
          comments[rows[x].pr][c].head >= rows[x].head
    BY <2>2 DEF Shown
  <2>4. /\ c \in Reviews(rows[x].pr)'
        /\ comments'[rows[x].pr][c] = comments[rows[x].pr][c]
    <3>1. \A p \in PRs : p = rows[x].pr => rows'[x].pr = p /\ c \in Reviews(p)'
                                         /\ comments'[p][c] = comments[p][c]
      BY <1>1, <1>7, <2>3
    <3> QED
      BY <1>1, <2>1, <3>1 DEF Reviews
  <2> QED
    BY <1>1, <2>3, <2>4 DEF Shown
<1>11. JobsInv'
  <2>1. ASSUME NEW i \in DOMAIN jobs PROVE JobOK(jobs[i])' /\ (Durable => SoloOK(jobs[i])')
    <3>0. PICK job \in JobRec : job = jobs[i]
      BY JobFacts
    <3>1. job \in JobRec /\ job.pr \in PRs /\ JobOK(job) /\ (Durable => SoloOK(job))
      BY <3>0, JobFacts
    <3>2. job.head \in Nat /\ 0 <= job.head
      <4>1. job.head \in 0..MaxHeads
        BY <3>1 DEF JobRec
      <4> QED
        BY <4>1
    <3>3. JobOK(job)'
      BY <1>1, <1>3, <1>4, <3>1 DEF JobOK
    <3>4. ASSUME Durable PROVE SoloOK(job)'
      <4>1. SoloOK(job)
        BY <3>1, <3>4
      <4>2. Shown(job.pr, job.head) => Shown(job.pr, job.head)'
        <5>1. ASSUME Shown(job.pr, job.head) PROVE Shown(job.pr, job.head)'
          BY <1>8, <3>1, <5>1
        <5> QED
          BY <5>1
      <4>3. CASE job.pr = k
        BY <1>3, <3>2, <4>1, <4>2, <4>3 DEF SoloOK
      <4>4. CASE job.pr # k
        BY <1>4, <3>1, <4>1, <4>2, <4>4 DEF SoloOK
      <4> QED
        BY <4>3, <4>4
    <3> QED
      BY <1>1, <3>0, <3>3, <3>4
  <2>2. (\A i \in DOMAIN jobs : JobOK(jobs[i]))'
    BY <1>1, <2>1
  <2>3. Durable => (\A i \in DOMAIN jobs : SoloOK(jobs[i]))'
    BY <1>1, <2>1
  <2> QED
    BY <1>1, <2>2, <2>3 DEF IInv, JobsInv
<1>12. PaidInv'
  <2>1. \A p \in PRs : RowsOf(p)' = RowsOf(p) /\ Fresh(p)' = Fresh(p) /\ Coming(p)' = Coming(p)
    BY <1>1 DEF RowsOf, Fresh, FreshIn, Coming, Actionable
  <2> QED
    BY <1>1, <1>2, <2>1 DEF IInv, PaidInv
<1> QED
  BY <1>3, <1>5, <1>6, <1>9, <1>10, <1>11, <1>12 DEF IInv

LEMMA ClosePreserves ==
  ASSUME IInv, NEW k \in PRs, Close(k)
  PROVE  IInv'
<1> DEFINE d == [pr |-> k, action |-> "closed", nr |-> 0]
<1>1. UNCHANGED <<wanted, owed, decided, jobs, head, comments, rows, counted, asked, budget>>
  BY DEF Close, queue, records
<1>2. /\ IsFiniteSet(deliveries)
      /\ \A e \in deliveries : e.pr \in PRs
      /\ open' \subseteq PRs
  BY DEF IInv, Types, Close
<1>3. deliveries' = deliveries \cup {d}
  BY DEF Close
<1>4. d.pr = k /\ d.action = "closed"
  OBVIOUS
<1> HIDE DEF d
<1>5. Types'
  <2>1. IsFiniteSet(deliveries')
    BY <1>2, <1>3, FS_AddElement
  <2>2. \A e \in deliveries' : e.pr \in PRs
    BY <1>2, <1>3, <1>4
  <2> QED
    BY <1>1, <1>2, <2>1, <2>2 DEF IInv, Types
<1>6. CommentsInv' /\ ShownInv' /\ OneInv'
  BY <1>1 DEF IInv, CommentsInv, ShownInv, OneInv, Shown, Reviews, Opening
<1>7. JobsInv'
  BY <1>1 DEF IInv, JobsInv, JobOK, SoloOK, Shown, Reviews
<1>8. PaidInv'
  <2>1. \A p \in PRs : Coming(p)' = Coming(p)
    BY <1>3, <1>4 DEF Coming, Actionable
  <2>2. \A p \in PRs : RowsOf(p)' = RowsOf(p) /\ Fresh(p)' = Fresh(p)
    BY <1>1 DEF RowsOf, Fresh, FreshIn
  <2> QED
    BY <1>1, <2>1, <2>2 DEF IInv, PaidInv
<1> QED
  BY <1>5, <1>6, <1>7, <1>8 DEF IInv

----------------------------------------------------------------------------
LEMMA InitEstablishes == Init => IInv
<1> SUFFICES ASSUME Init PROVE IInv
  OBVIOUS
<1>1. /\ jobs = <<>> /\ DOMAIN jobs = {} /\ Len(jobs) = 0 /\ rows = <<>> /\ DOMAIN rows = {}
      /\ wanted = [k \in PRs |-> 0] /\ owed = {} /\ deliveries = {}
  BY DEF Init, Queue!Init
<1>2. \A k \in PRs : comments[k] = <<>> /\ DOMAIN comments[k] = {}
  BY DEF Init
<1>3. Types
  <2>1. jobs \in Seq(JobRec) /\ rows \in Seq(RowRec)
    BY <1>1
  <2>2. comments \in [PRs -> Seq(CommentRec)]
    BY DEF Init
  <2>3. budget \in BudgetRec
    <3>1. {MaxEvents, MaxTalk, MaxFaults} \subseteq Nat /\ MaxKills \in 0..MaxKills
      BY Sizes
    <3> QED
      BY <3>1 DEF Init, BudgetRec
  <2>4. /\ head \in [PRs -> 0..MaxHeads] /\ asked \in [PRs -> Nat]
        /\ wanted \in [PRs -> Nat]
    BY <1>1, Sizes DEF Init
  <2>5. counted \in [success : Nat, failed : Nat]
    BY DEF Init
  <2>6. IsFiniteSet(deliveries)
    BY <1>1, FS_EmptySet
  <2> QED
    BY <1>1, <2>1, <2>2, <2>3, <2>4, <2>5, <2>6 DEF Init, Types
<1>4. CommentsInv /\ JobsInv /\ ShownInv
  BY <1>1, <1>2 DEF CommentsInv, JobsInv, ShownInv
<1>5. OneInv
  BY <1>2 DEF OneInv, Reviews
<1>6. PaidInv
  <2> SUFFICES ASSUME NEW k \in PRs
               PROVE  Cardinality(RowsOf(k)) + Cardinality(Fresh(k)) + wanted[k]
                        + Cardinality(Coming(k)) <= asked[k] + (MaxKills - budget.kill)
    BY DEF PaidInv
  <2>1. RowsOf(k) = {} /\ Fresh(k) = {} /\ Coming(k) = {}
    BY <1>1 DEF RowsOf, Fresh, FreshIn, Coming
  <2>2. Cardinality({}) = 0
    BY FS_EmptySet
  <2>3. asked[k] = 0 /\ wanted[k] = 0 /\ MaxKills - budget.kill = 0
    <3>1. budget.kill = MaxKills /\ asked[k] = 0 /\ wanted[k] = 0
      BY <1>1 DEF Init
    <3>2. MaxKills - MaxKills = 0
      BY Sizes
    <3> QED
      BY <3>1, <3>2
  <2>4. 0 + 0 + 0 + 0 <= 0 + 0
    OBVIOUS
  <2> QED
    BY <2>1, <2>2, <2>3, <2>4
<1> QED
  BY <1>3, <1>4, <1>5, <1>6 DEF IInv

LEMMA StepPreserves == IInv /\ [Next]_vars => IInv'
<1> SUFFICES ASSUME IInv, [Next]_vars PROVE IInv'
  OBVIOUS
<1>1. CASE UNCHANGED vars
  <2>1. /\ UNCHANGED <<queue, jobs, head, open, deliveries, comments, records, asked, budget>>
        /\ deliveries' \subseteq deliveries
    BY <1>1 DEF vars, github
  <2>2. budget' \in BudgetRec /\ budget'.kill = budget.kill
    BY <2>1 DEF IInv, Types
  <2> QED
    BY <2>1, <2>2, QuietWorld
<1>2. CASE QueueBegins
  BY <1>2, QueueBeginsPreserves
<1>3. ASSUME NEW k \in PRs, Push(k) PROVE IInv'
  BY <1>3, PushPreserves
<1>4. ASSUME NEW k \in PRs, Close(k) PROVE IInv'
  BY <1>4, ClosePreserves
<1>8. ASSUME NEW k \in PRs, Trigger(k) PROVE IInv'
  BY <1>8, TriggerPreserves
<1>9. ASSUME NEW k \in PRs, Talk(k) PROVE IInv'
  BY <1>9, TalkPreserves
<1>5. ASSUME NEW d \in deliveries, Deliver(d) PROVE IInv'
  BY <1>5, DeliverPreserves
<1>6. ASSUME NEW i \in DOMAIN jobs, Step(i) PROVE IInv'
  <2>1. CASE Start(i)
    BY <2>1, StartPreserves
  <2>2. CASE GetPr(i)
    BY <2>2, GetPrPreserves
  <2>3. CASE GetFiles(i)
    BY <2>3, GetFilesPreserves
  <2>4. CASE AskModel(i)
    BY <2>4, AskModelPreserves
  <2>5. CASE ListComments(i)
    BY <2>5, ListCommentsPreserves
  <2>6. CASE WriteComment(i)
    BY <2>6, WriteCommentPreserves
  <2>7. CASE Announce(i)
    BY <2>7, AnnouncePreserves
  <2>8. CASE Finish(i)
    BY <2>8, FinishPreserves
  <2>9. CASE Count(i)
    BY <2>9, CountPreserves
  <2> QED
    BY <1>6, <2>1, <2>2, <2>3, <2>4, <2>5, <2>6, <2>7, <2>8, <2>9 DEF Step
<1>7. CASE Restart
  BY <1>7, RestartPreserves
<1> QED
  BY <1>1, <1>2, <1>3, <1>4, <1>5, <1>6, <1>7, <1>8, <1>9 DEF Next

LEMMA Invariance == Spec => []IInv
<1>1. Init => IInv
  BY InitEstablishes
<1>2. IInv /\ [Next]_vars => IInv'
  BY StepPreserves
<1> QED
  BY <1>1, <1>2, PTL DEF Spec

\* The API server keeps its state in range: a job its own history row and a
\* comment there is, a webhook its pull request, the logs their counts.
THEOREM TypeCorrect == Spec => []TypeOK
<1>1. IInv => TypeOK
  <2> SUFFICES ASSUME IInv PROVE TypeOK
    OBVIOUS
  <2>1. ASSUME NEW i \in DOMAIN jobs
        PROVE  /\ jobs[i].pr \in PRs /\ jobs[i].at \in Stages
               /\ jobs[i].row \in 0..Len(rows)
               /\ jobs[i].head \in 0..MaxHeads
               /\ jobs[i].found \in 0..Len(comments[jobs[i].pr])
               /\ jobs[i].model \in 1..Models /\ jobs[i].tries \in 0..Retries
               /\ jobs[i].threw \in BOOLEAN
    <3>1. jobs[i] \in JobRec /\ jobs[i].pr \in PRs /\ JobOK(jobs[i])
      BY JobFacts
    <3>2. /\ jobs[i].row = 0 \/ jobs[i].row \in 1..Len(rows)
          /\ Len(rows) \in Nat
      BY <3>1, RowTypes DEF IInv, JobOK
    <3>3. /\ jobs[i].found = 0 \/ jobs[i].found \in 1..Len(comments[jobs[i].pr])
          /\ Len(comments[jobs[i].pr]) \in Nat
      BY <3>1, CommentTypes DEF IInv, JobOK
    <3>4. \A n, m \in Nat : n = 0 \/ n \in 1..m => n \in 0..m
      OBVIOUS
    <3>5. jobs[i].row \in Nat /\ jobs[i].found \in Nat
      BY <3>1 DEF JobRec
    <3>6. jobs[i].row \in 0..Len(rows) /\ jobs[i].found \in 0..Len(comments[jobs[i].pr])
      BY <3>2, <3>3, <3>4, <3>5
    <3> QED
      BY <3>1, <3>6 DEF JobRec
  <2>2. ASSUME NEW r \in DOMAIN rows
        PROVE  rows[r].pr \in PRs /\ rows[r].status \in {"queued", "success", "failed"}
    BY RowTypes DEF IInv, RowRec
  <2>3. {counted.success, counted.failed} \subseteq Nat
    BY DEF IInv, Types
  <2> QED
    BY <2>1, <2>2, <2>3 DEF IInv, Types, TypeOK
<1> QED
  BY <1>1, Invariance, PTL

\* When the queue is durable, so that one review of a pull request runs at a
\* time, a row that says success describes a review on the pull request: runJob()
\* finishes the row after the comment is written, and no comment goes back.
THEOREM SuccessesAreShown ==
  ASSUME Durable
  PROVE  Spec => []SuccessIsShown
<1>1. IInv => SuccessIsShown
  BY DEF IInv, ShownInv, Shown, SuccessIsShown
<1> QED
  BY <1>1, Invariance, PTL

\* Closing a pull request buys no review: whatever is delivered, coalesced,
\* delivered again or cut off by a restart, a review that begins has a webhook of
\* its own that asked for one, or a restart to repeat.
THEOREM NoneUnpaid == Spec => []ReviewsPaidFor
<1>1. IInv => ReviewsPaidFor
  <2> SUFFICES ASSUME IInv, NEW k \in PRs
               PROVE  Cardinality(RowsOf(k)) <= asked[k] + (MaxKills - budget.kill)
    BY DEF ReviewsPaidFor, RowsOf
  <2>1. /\ Cardinality(RowsOf(k)) \in Nat /\ Cardinality(Coming(k)) \in Nat
        /\ Cardinality(Fresh(k)) \in Nat /\ wanted[k] \in Nat
        /\ asked[k] \in Nat /\ MaxKills - budget.kill \in Nat
    BY Counts DEF IInv
  <2>2. Cardinality(RowsOf(k)) + Cardinality(Fresh(k)) + wanted[k] + Cardinality(Coming(k))
          <= asked[k] + (MaxKills - budget.kill)
    BY DEF IInv, PaidInv
  <2>3. \A a, b, c, d, f, g \in Nat : a + b + c + d <= f + g => a <= f + g
    OBVIOUS
  <2> QED
    BY <2>1, <2>2, <2>3
<1> QED
  BY <1>1, Invariance, PTL

\* A pull request whose review is among the comments listed has that one alone,
\* however often it is reviewed, whoever else comments and whichever call failed:
\* the job that creates one found none, and no other job was there to create one
\* meanwhile.
THEOREM OneCommentKept == Spec => []OneReviewComment
<1>1. IInv => OneReviewComment
  <2> SUFFICES ASSUME IInv, Durable, NEW k \in PRs \ Bumps,
                      NEW x \in Reviews(k), x <= CommentPage
               PROVE  Cardinality(Reviews(k)) = 1
    BY DEF OneReviewComment
  <2>1. \A c, e \in Reviews(k) : c = e
    BY DEF IInv, OneInv
  <2>2. Reviews(k) = {x}
    BY <2>1
  <2> QED
    BY <2>2, FS_Singleton
<1> QED
  BY <1>1, Invariance, PTL

\* What a step does to the comments, if anything, is to make them grow.
LEMMA CommentsStep ==
  ASSUME IInv, [Next]_vars
  PROVE  UNCHANGED comments \/ \E k \in PRs : CommentsGrow(k)
<1>1. CASE UNCHANGED vars
  BY <1>1 DEF vars, github
<1>2. CASE QueueBegins
  BY <1>2 DEF QueueBegins, github
<1>3. ASSUME NEW k \in PRs, Push(k) \/ Trigger(k) \/ Close(k) PROVE UNCHANGED comments
  BY <1>3 DEF Push, Trigger, Close
<1>7. ASSUME NEW k \in PRs, Talk(k) PROVE CommentsGrow(k)
  BY <1>7, TalkPreserves
<1>4. ASSUME NEW d \in deliveries, Deliver(d) PROVE UNCHANGED comments
  BY <1>4 DEF Deliver
<1>5. ASSUME NEW i \in DOMAIN jobs, Step(i)
      PROVE  UNCHANGED comments \/ (jobs[i].pr \in PRs /\ CommentsGrow(jobs[i].pr))
  <2>0. jobs[i] \in JobRec /\ jobs[i].pr \in PRs /\ JobOK(jobs[i])
    BY JobFacts
  <2>1. CASE Start(i) \/ GetPr(i) \/ GetFiles(i) \/ AskModel(i) \/ ListComments(i)
    BY <2>1 DEF Start, GetPr, GetFiles, AskModel, ListComments, Refused, github
  <2>2. CASE WriteComment(i)
    BY <2>0, <2>2, WrittenGrows DEF WriteComment, At
  <2>3. CASE Announce(i)
    <3>1. jobs[i].head \in 0..MaxHeads /\ jobs[i].head <= head[jobs[i].pr]
      BY <2>0 DEF JobRec, JobOK
    <3> QED
      BY <2>0, <2>3, <3>1, NoteGrows DEF Announce
  <2>4. CASE Finish(i) \/ Count(i)
    BY <2>4 DEF Finish, Count, github
  <2> QED
    BY <1>5, <2>1, <2>2, <2>3, <2>4 DEF Step
<1>6. CASE Restart
  BY <1>6 DEF Restart, github
<1> QED
  BY <1>1, <1>2, <1>3, <1>4, <1>5, <1>6, <1>7 DEF Next

\* When one review of a pull request runs at a time, no step takes a review
\* comment back to an older commit: a job writes the head it read, and the
\* comments are of no later one.
THEOREM CommitsOnlyAdvance == Spec => CommitNeverGoesBack
<1> DEFINE A == Durable => \A k \in PRs : \A c \in Reviews(k) :
                  comments'[k][c].head >= comments[k][c].head
<1>1. IInv /\ [Next]_vars => [A]_vars
  <2> SUFFICES ASSUME IInv, [Next]_vars, Durable, NEW k \in PRs, NEW c \in Reviews(k)
               PROVE  comments'[k][c].head >= comments[k][c].head
    OBVIOUS
  <2>0. c \in DOMAIN comments[k] /\ comments[k][c].head \in Nat
    BY CommentTypes DEF IInv, Reviews
  <2>1. \A n \in Nat : n >= n
    OBVIOUS
  <2>2. CASE comments'[k] = comments[k]
    BY <2>0, <2>1, <2>2
  <2>3. ASSUME CommentsGrow(k)
        PROVE  comments'[k][c].head >= comments[k][c].head
    <3>1. c \in DOMAIN comments'[k] /\ comments[k][c].head <= comments'[k][c].head
      BY <2>0, <2>3 DEF CommentsGrow
    <3>2. comments'[k] \in Seq(CommentRec)
      BY <2>3 DEF CommentsGrow
    <3>3. comments'[k][c] \in CommentRec
      BY <3>1, <3>2, ElementOfSeq, LenProperties
    <3>4. comments'[k][c].head \in Nat
      BY <3>3 DEF CommentRec
    <3>5. \A a, b \in Nat : a <= b => b >= a
      OBVIOUS
    <3> QED
      BY <2>0, <3>1, <3>4, <3>5
  <2>4. ASSUME NEW p \in PRs, CommentsGrow(p), p # k
        PROVE  comments'[k] = comments[k]
    BY <2>4 DEF CommentsGrow
  <2> QED
    BY <2>2, <2>3, <2>4, CommentsStep
<1>2. Spec => [][A]_vars
  BY <1>1, Invariance, PTL DEF Spec
<1> QED
  BY <1>2 DEF CommitNeverGoesBack

----------------------------------------------------------------------------
(* Places in order, and what is picked by them.                               *)

UpTo(I, R, i) == {j \in I : <<j, i>> \in R}

\* In a total order of a finite set every rank is the rank of one element.
LEMMA RankIsPlace ==
  ASSUME NEW I, IsFiniteSet(I), NEW R,
         \A i \in I : <<i, i>> \in R,
         \A g, h \in I : <<g, h>> \in R \/ <<h, g>> \in R,
         \A g, h \in I : <<g, h>> \in R /\ <<h, g>> \in R => g = h,
         \A g, h, i \in I : <<g, h>> \in R /\ <<h, i>> \in R => <<g, i>> \in R
  PROVE  /\ Cardinality(I) \in Nat
         /\ \A i \in I : Cardinality(UpTo(I, R, i)) \in 1..Cardinality(I)
         /\ \A k \in 1..Cardinality(I) : \E i \in I : Cardinality(UpTo(I, R, i)) = k
         /\ \A g, h \in I :
              Cardinality(UpTo(I, R, g)) <= Cardinality(UpTo(I, R, h)) => <<g, h>> \in R
<1> DEFINE n == Cardinality(I)
           Rank(i) == Cardinality(UpTo(I, R, i))
           rank == [i \in I |-> Rank(i)]
<1>1. n \in Nat
  BY FS_CardinalityType
<1>2. ASSUME NEW i \in I
      PROVE  IsFiniteSet(UpTo(I, R, i)) /\ Rank(i) \in 1..n
  <2>1. UpTo(I, R, i) \in SUBSET I /\ i \in UpTo(I, R, i)
    BY DEF UpTo
  <2>2. IsFiniteSet(UpTo(I, R, i)) /\ Rank(i) <= n
    BY <2>1, FS_Subset
  <2>3. Rank(i) \in Nat /\ Rank(i) # 0
    BY <2>1, <2>2, FS_CardinalityType, FS_EmptySet
  <2> HIDE DEF Rank, n
  <2> QED BY <1>1, <2>2, <2>3
<1>3. ASSUME NEW g \in I, NEW h \in I, <<g, h>> \in R, g # h
      PROVE  Rank(g) < Rank(h)
  <2>1. UpTo(I, R, g) \in SUBSET UpTo(I, R, h)
    BY <1>3 DEF UpTo
  <2>2. h \in UpTo(I, R, h) /\ h \notin UpTo(I, R, g)
    BY <1>3 DEF UpTo
  <2>3. UpTo(I, R, g) # UpTo(I, R, h)
    BY <2>2
  <2>4. Rank(g) <= Rank(h) /\ Rank(g) # Rank(h)
    BY <1>2, <2>1, <2>3, FS_Subset
  <2>5. Rank(g) \in 1..n /\ Rank(h) \in 1..n
    BY <1>2
  <2> HIDE DEF Rank, n
  <2> QED BY <1>1, <2>4, <2>5
<1> HIDE DEF n, Rank
<1>4. \A i \in I : Rank(i) \in 1..n /\ Rank(i) \in Nat
  BY <1>1, <1>2
<1>5. ASSUME NEW g \in I, NEW h \in I, Rank(g) <= Rank(h)
      PROVE  <<g, h>> \in R
  <2>1. ~(Rank(h) < Rank(g))
    BY <1>4, <1>5
  <2> QED BY <1>3, <2>1
<1>6. rank \in Injection(I, 1..n)
  <2>1. \A g, h \in I : Rank(g) = Rank(h) => g = h
    <3> SUFFICES ASSUME NEW g \in I, NEW h \in I, Rank(g) = Rank(h) PROVE g = h
      OBVIOUS
    <3>1. Rank(g) <= Rank(h) /\ Rank(h) <= Rank(g)
      BY <1>4
    <3> QED BY <1>5, <3>1
  <2> QED BY <1>4, <2>1 DEF Injection, IsInjective
<1>7. IsFiniteSet(1..n) /\ Cardinality(1..n) = n
  BY <1>1, FS_Interval
<1>8. rank \in Surjection(I, 1..n)
  <2> HIDE DEF rank
  <2>1. Cardinality(I) = Cardinality(1..n)
    BY <1>7 DEF n
  <2> QED BY <1>6, <1>7, <2>1, FS_Injection
<1>9. \A k \in 1..n : \E i \in I : Rank(i) = k
  BY <1>8 DEF Surjection
<1> QED BY <1>1, <1>4, <1>5, <1>9 DEF n, Rank

\* The k-th of a finite set of places is the one with k of them up to it.
LEMMA NthProperties ==
  ASSUME NEW I \in SUBSET Nat, IsFiniteSet(I)
  PROVE  /\ Cardinality(I) \in Nat
         /\ \A k \in 1..Cardinality(I) : Nth(I, k) \in I
         /\ \A i \in I : \E k \in 1..Cardinality(I) : Nth(I, k) = i
         /\ \A k, l \in 1..Cardinality(I) : k <= l => Nth(I, k) <= Nth(I, l)
<1> DEFINE n == Cardinality(I)
           R == {x \in Nat \X Nat : x[1] <= x[2]}
           Rank(i) == Cardinality(UpTo(I, R, i))
<1>1. \A i \in I : i \in Nat
  OBVIOUS
<1>2. \A g, h \in I : <<g, h>> \in R <=> g <= h
  BY <1>1
<1>3. \A i \in I : {j \in I : j <= i} = UpTo(I, R, i)
  BY <1>2 DEF UpTo
<1> HIDE DEF R
<1>4. /\ \A i \in I : <<i, i>> \in R
      /\ \A g, h \in I : <<g, h>> \in R \/ <<h, g>> \in R
      /\ \A g, h \in I : <<g, h>> \in R /\ <<h, g>> \in R => g = h
      /\ \A g, h, i \in I : <<g, h>> \in R /\ <<h, i>> \in R => <<g, i>> \in R
  BY <1>1, <1>2
<1>5. /\ n \in Nat
      /\ \A i \in I : Rank(i) \in 1..n
      /\ \A k \in 1..n : \E i \in I : Rank(i) = k
      /\ \A g, h \in I : Rank(g) <= Rank(h) => <<g, h>> \in R
  BY <1>4, RankIsPlace
<1>6. \A k : Nth(I, k) = CHOOSE i \in I : Rank(i) = k
  BY <1>3 DEF Nth
<1> HIDE DEF n, Rank
<1>7. \A k \in 1..n : Nth(I, k) \in I /\ Rank(Nth(I, k)) = k
  BY <1>5, <1>6
<1>8. ASSUME NEW i \in I PROVE \E k \in 1..n : Nth(I, k) = i
  <2>1. Rank(i) \in 1..n /\ Rank(Nth(I, Rank(i))) = Rank(i) /\ Nth(I, Rank(i)) \in I
    BY <1>5, <1>7
  <2>2. Rank(i) <= Rank(i)
    BY <1>5, <2>1
  <2>3. Nth(I, Rank(i)) = i
    BY <1>4, <1>5, <2>1, <2>2
  <2> QED BY <2>1, <2>3
<1>9. ASSUME NEW k \in 1..n, NEW l \in 1..n, k <= l PROVE Nth(I, k) <= Nth(I, l)
  <2>1. Rank(Nth(I, k)) <= Rank(Nth(I, l)) /\ Nth(I, k) \in I /\ Nth(I, l) \in I
    BY <1>7, <1>9
  <2> QED BY <1>2, <1>5, <2>1
<1> QED BY <1>5, <1>7, <1>8, <1>9 DEF n

LEMMA PlacesFinite ==
  ASSUME NEW S, NEW s \in Seq(S), NEW I \in SUBSET DOMAIN s
  PROVE  I \in SUBSET Nat /\ IsFiniteSet(I) /\ Cardinality(I) \in Nat
<1>1. DOMAIN s = 1..Len(s) /\ Len(s) \in Nat
  OBVIOUS
<1>2. IsFiniteSet(1..Len(s))
  BY <1>1, FS_Interval
<1> QED BY <1>1, <1>2, FS_Subset, FS_CardinalityType

\* A Pick has the elements at the places given, and those only, in their order.
LEMMA PickProperties ==
  ASSUME NEW S, NEW s \in Seq(S), NEW I \in SUBSET DOMAIN s
  PROVE  /\ Pick(s, I) \in Seq(S)
         /\ DOMAIN Pick(s, I) = 1..Cardinality(I) /\ Len(Pick(s, I)) = Cardinality(I)
         /\ \A i \in I : \E k \in DOMAIN Pick(s, I) : Pick(s, I)[k] = s[i]
         /\ \A k \in DOMAIN Pick(s, I) : Nth(I, k) \in I /\ Pick(s, I)[k] = s[Nth(I, k)]
         /\ \A k, l \in DOMAIN Pick(s, I) : k <= l => Nth(I, k) <= Nth(I, l)
<1> DEFINE n == Cardinality(I)
<1>1. I \in SUBSET Nat /\ IsFiniteSet(I) /\ n \in Nat
  BY PlacesFinite
<1> HIDE DEF n
<1>2. \A k \in 1..n : Nth(I, k) \in I
  BY <1>1, NthProperties DEF n
<1>3. \A i \in DOMAIN s : s[i] \in S
  OBVIOUS
<1>4. Pick(s, I) = [k \in 1..n |-> s[Nth(I, k)]]
  BY DEF Pick, n
<1>5. Pick(s, I) \in Seq(S) /\ DOMAIN Pick(s, I) = 1..n /\ Len(Pick(s, I)) = n
  <2>1. Pick(s, I) \in [1..n -> S]
    BY <1>2, <1>3, <1>4
  <2> QED BY <1>1, <2>1
<1>6. \A i \in I : \E k \in 1..n : Nth(I, k) = i
  BY <1>1, NthProperties DEF n
<1>7. \A k, l \in 1..n : k <= l => Nth(I, k) <= Nth(I, l)
  BY <1>1, NthProperties DEF n
<1> QED BY <1>2, <1>4, <1>5, <1>6, <1>7 DEF n

----------------------------------------------------------------------------
(* Folds: an induction for each, on sets of numbers.                          *)

LEMMA Induction ==
  ASSUME NEW T \in SUBSET Nat, 0 \in T, \A m \in T : m + 1 \in T
  PROVE  \A m \in Nat : m \in T
<1> SUFFICES ASSUME NEW k \in Nat, k \notin T PROVE FALSE
  OBVIOUS
<1> DEFINE R == Nat \ T
<1>1. Min(R) \in R
  BY MinIsMember
<1>2. \A x \in R : Min(R) <= x
  BY MinIsMember
<1> HIDE DEF R
<1>3. Min(R) \in Nat /\ Min(R) \notin T /\ Min(R) # 0
  BY <1>1 DEF R
<1>4. Min(R) - 1 \in Nat /\ Min(R) - 1 \notin R
  BY <1>2, <1>3
<1>5. Min(R) - 1 \in T
  BY <1>4 DEF R
<1>6. (Min(R) - 1) + 1 \in T
  BY <1>5
<1> QED BY <1>3, <1>6

LEMMA MaxOfPart ==
  ASSUME NEW m \in Nat, NEW t \in SUBSET (1..m), t # {}
  PROVE  Max(t) \in t /\ \A x \in t : x <= Max(t)
<1> DEFINE D == {d \in 0..m : m - d \in t}
<1>1. D \in SUBSET Nat
  OBVIOUS
<1>2. D # {}
  <2>1. PICK x \in t : TRUE
    OBVIOUS
  <2>2. m - x \in 0..m /\ m - (m - x) = x
    OBVIOUS
  <2> QED BY <2>1, <2>2
<1>3. Min(D) \in D /\ \A d \in D : Min(D) <= d
  BY <1>1, <1>2, MinIsMember
<1>4. ASSUME NEW x \in t PROVE x <= m - Min(D)
  <2>1. x \in 1..m
    OBVIOUS
  <2>2. m - x \in 0..m /\ m - (m - x) = x
    BY <2>1
  <2>3. m - x \in D
    BY <2>2
  <2>4. Min(D) <= m - x /\ Min(D) \in Nat
    BY <1>1, <1>3, <2>3
  <2> HIDE DEF D
  <2> QED BY <2>1, <2>4
<1>5. m - Min(D) \in t
  BY <1>3
<1>6. \E x \in t : \A y \in t : x >= y
  <2>1. \A y \in t : y \in Int
    OBVIOUS
  <2>2. m - Min(D) \in Int
    BY <1>5, <2>1
  <2> QED BY <1>4, <1>5, <2>1, <2>2
<1>7. Max(t) \in t /\ \A y \in t : Max(t) >= y
  BY <1>6 DEF Max
<1> QED BY <1>7

\* A fold goes through the places of a sequence from the last to the first.
LEMMA LastPlace ==
  ASSUME NEW m \in Nat
  PROVE  /\ 1..(m + 1) # {}
         /\ \A t \in SUBSET (1..(m + 1)) : m + 1 \in t => Max(t) = m + 1
         /\ (1..(m + 1)) \ {m + 1} = 1..m
<1>1. ASSUME NEW t \in SUBSET (1..(m + 1)), m + 1 \in t PROVE Max(t) = m + 1
  <2>0. m + 1 \in Nat /\ t # {}
    BY <1>1
  <2>1. Max(t) \in t /\ m + 1 <= Max(t)
    BY <1>1, <2>0, MaxOfPart
  <2>2. Max(t) \in 1..(m + 1)
    BY <2>1
  <2> QED BY <2>1, <2>2
<1> QED BY <1>1

FoldOn(it, b, step, m) ==
  it = [t \in SUBSET (1..m) |->
          IF t = {} THEN b ELSE step[<<it[t \ {Max(t)}], Max(t)>>]]

\* The function a fold chooses exists, for any step on a set of its values.
LEMMA FoldExists ==
  ASSUME NEW S, NEW b \in S, NEW n \in Nat, NEW step \in [S \X (1..n) -> S]
  PROVE  \E it \in [SUBSET (1..n) -> S] : FoldOn(it, b, step, n)
<1> DEFINE Has(m) == \E it \in [SUBSET (1..m) -> S] : FoldOn(it, b, step, m)
           T == {m \in Nat : m <= n => Has(m)}
<1>1. 0 \in T
  <2> DEFINE it == [t \in SUBSET (1..0) |-> b]
  <2>1. \A t \in SUBSET (1..0) : t = {}
    OBVIOUS
  <2>2. FoldOn(it, b, step, 0)
    BY <2>1 DEF FoldOn
  <2>3. it \in [SUBSET (1..0) -> S]
    OBVIOUS
  <2> HIDE DEF it
  <2>4. Has(0)
    BY <2>2, <2>3
  <2> HIDE DEF Has
  <2> QED BY <2>4
<1>2. ASSUME NEW m \in T PROVE m + 1 \in T
  <2> HIDE DEF Has
  <2>1. m \in Nat /\ m + 1 \in Nat
    OBVIOUS
  <2> SUFFICES ASSUME m + 1 <= n PROVE Has(m + 1)
    BY <2>1
  <2>0. Has(m)
    BY <2>1
  <2> USE DEF Has
  <2>2. PICK it \in [SUBSET (1..m) -> S] : FoldOn(it, b, step, m)
    BY <2>0
  <2> HIDE DEF T
  <2> DEFINE next == [t \in SUBSET (1..(m + 1)) |->
                        IF m + 1 \in t THEN step[<<it[t \ {m + 1}], m + 1>>] ELSE it[t]]
  <2>3. ASSUME NEW t \in SUBSET (1..(m + 1))
        PROVE  /\ next[t] = IF t = {} THEN b ELSE step[<<next[t \ {Max(t)}], Max(t)>>]
               /\ next[t] \in S
    <3>0. \A x \in 1..(m + 1) : x # m + 1 => x \in 1..m
      BY <2>1
    <3>1. CASE m + 1 \in t
      <4>1. Max(t) = m + 1 /\ t # {}
        BY <2>1, <3>1, LastPlace
      <4>2. /\ t \ {m + 1} \in SUBSET (1..(m + 1)) /\ m + 1 \notin t \ {m + 1}
            /\ t \ {m + 1} \in SUBSET (1..m)
        BY <3>0
      <4>3. next[t \ {m + 1}] = it[t \ {m + 1}]
        BY <4>2
      <4>4. next[t] = step[<<it[t \ {m + 1}], m + 1>>]
        BY <3>1
      <4>5. it[t \ {m + 1}] \in S /\ m + 1 \in 1..n
        BY <2>1, <2>2, <4>2
      <4> HIDE DEF next
      <4>6. <<it[t \ {m + 1}], m + 1>> \in S \X (1..n)
        BY <4>5
      <4>7. step[<<it[t \ {m + 1}], m + 1>>] \in S
        BY <4>6
      <4> QED BY <4>1, <4>3, <4>4, <4>7
    <3>2. CASE m + 1 \notin t
      <4>1. t \in SUBSET (1..m)
        BY <3>0, <3>2
      <4>2. next[t] = it[t]
        BY <3>2
      <4>3. next[t \ {Max(t)}] = it[t \ {Max(t)}]
        BY <3>2
      <4>4. it[t] = IF t = {} THEN b ELSE step[<<it[t \ {Max(t)}], Max(t)>>]
        BY <2>2, <4>1 DEF FoldOn
      <4>5. it[t] \in S
        BY <2>2, <4>1
      <4> HIDE DEF next
      <4> QED BY <4>2, <4>3, <4>4, <4>5
    <3> QED BY <3>1, <3>2
  <2>4. next = [t \in SUBSET (1..(m + 1)) |-> next[t]]
    OBVIOUS
  <2> HIDE DEF next
  <2>5. FoldOn(next, b, step, m + 1)
    <3>1. [t \in SUBSET (1..(m + 1)) |-> next[t]] =
          [t \in SUBSET (1..(m + 1)) |->
             IF t = {} THEN b ELSE step[<<next[t \ {Max(t)}], Max(t)>>]]
      BY <2>3
    <3> QED BY <2>4, <3>1 DEF FoldOn
  <2>6. next \in [SUBSET (1..(m + 1)) -> S]
    BY <2>3, <2>4
  <2> QED BY <2>5, <2>6
<1>3. T \in SUBSET Nat
  OBVIOUS
<1> HIDE DEF T, Has
<1>4. n \in T
  BY <1>1, <1>2, <1>3, Induction
<1>5. Has(n)
  BY <1>4 DEF T
<1> QED BY <1>5 DEF Has

----------------------------------------------------------------------------
(* GitHub's patch of a file, for any edit script.                             *)

Script == Seq({"=", "+", "-"})

HunkOf(n) == [start1 : Int, size1 : Int, start2 : Int, size2 : Int,
              lines : Seq(1..n), extra : SUBSET (1..n)]

\* A run ends, and begins, somewhere.
LEMMA RunEndIs ==
  ASSUME NEW n \in Nat, NEW shown \in SUBSET (1..n), NEW a \in shown
  PROVE  LET b == RunEnd(shown, a)
         IN  b \in shown /\ a <= b /\ a..b \subseteq shown /\ b + 1 \notin shown
<1> DEFINE T == {d \in Nat : a + d + 1 \notin shown}
           b == a + Min(T)
<1>1. a \in 1..n /\ T \in SUBSET Nat
  OBVIOUS
<1>2. n \in T
  <2>1. a + n + 1 \notin 1..n
    BY <1>1
  <2> QED BY <2>1
<1>3. Min(T) \in T /\ \A d \in T : Min(T) <= d
  BY <1>1, <1>2, MinIsMember
<1>4. Min(T) \in Nat /\ b + 1 \notin shown
  BY <1>3
<1>5. ASSUME NEW x \in a..b PROVE x \in shown
  <2>1. CASE x = a
    BY <2>1
  <2>2. CASE x # a
    <3>1. x - a - 1 \in Nat /\ ~(Min(T) <= x - a - 1) /\ a + (x - a - 1) + 1 = x
      BY <1>1, <1>4, <1>5, <2>2
    <3>2. x - a - 1 \notin T
      BY <1>3, <3>1
    <3> QED BY <3>1, <3>2
  <2> QED BY <2>1, <2>2
<1>6. a <= b /\ b \in a..b
  BY <1>1, <1>4
<1> HIDE DEF b
<1>7. \E x \in shown : a <= x /\ a..x \subseteq shown /\ x + 1 \notin shown
  BY <1>4, <1>5, <1>6
<1> QED BY <1>7 DEF RunEnd

LEMMA RunStartIs ==
  ASSUME NEW n \in Nat, NEW shown \in SUBSET (1..n), NEW i \in shown
  PROVE  \E a \in RunStarts(shown) : a <= i /\ a..i \subseteq shown
<1> DEFINE T == {d \in Nat : i - d - 1 \notin shown}
           a == i - Min(T)
<1>1. i \in 1..n /\ T \in SUBSET Nat
  OBVIOUS
<1>2. n \in T
  <2>1. i - n - 1 \notin 1..n
    BY <1>1
  <2> QED BY <2>1
<1>3. Min(T) \in T /\ \A d \in T : Min(T) <= d
  BY <1>1, <1>2, MinIsMember
<1>4. Min(T) \in Nat /\ a - 1 \notin shown
  BY <1>3
<1>5. ASSUME NEW x \in a..i PROVE x \in shown
  <2>1. CASE x = i
    BY <2>1
  <2>2. CASE x # i
    <3>1. i - x - 1 \in Nat /\ ~(Min(T) <= i - x - 1) /\ i - (i - x - 1) - 1 = x
      BY <1>1, <1>4, <1>5, <2>2
    <3>2. i - x - 1 \notin T
      BY <1>3, <3>1
    <3> QED BY <3>1, <3>2
  <2> QED BY <2>1, <2>2
<1>6. a <= i /\ a \in a..i
  BY <1>1, <1>4
<1> HIDE DEF a
<1> QED BY <1>4, <1>5, <1>6 DEF RunStarts

\* Places in order are a sequence of them, and have all of them.
LEMMA OrderedProperties ==
  ASSUME NEW n \in Nat, NEW I \in SUBSET (1..n)
  PROVE  /\ Ordered(I) \in Seq(I) /\ Len(Ordered(I)) = Cardinality(I)
         /\ DOMAIN Ordered(I) = 1..Cardinality(I) /\ Cardinality(I) \in Nat
         /\ \A i \in I : \E k \in DOMAIN Ordered(I) : Ordered(I)[k] = i
<1>1. IsFiniteSet(I) /\ I \in SUBSET Nat
  <2>1. 1 \in Int /\ n \in Int
    OBVIOUS
  <2>2. IsFiniteSet(1..n)
    BY <2>1, FS_Interval
  <2>3. IsFiniteSet(I)
    BY <2>2, FS_Subset
  <2> QED BY <2>3
<1> DEFINE c == Cardinality(I)
<1>2. c \in Nat /\ \A k \in 1..c : Nth(I, k) \in I
  BY <1>1, NthProperties
<1>3. \A i \in I : \E k \in 1..c : Nth(I, k) = i
  BY <1>1, NthProperties
<1> HIDE DEF c
<1>4. Ordered(I) = [k \in 1..c |-> Nth(I, k)]
  BY DEF Ordered, c
<1>5. Ordered(I) \in [1..c -> I]
  BY <1>2, <1>4
<1>6. Ordered(I) \in Seq(I) /\ Len(Ordered(I)) = c /\ DOMAIN Ordered(I) = 1..c
  BY <1>2, <1>5
<1> QED BY <1>2, <1>3, <1>4, <1>6 DEF c

LEMMA LinesType ==
  ASSUME NEW n, NEW P \in Seq(HunkOf(n)), NEW k \in DOMAIN P
  PROVE  P[k] \in HunkOf(n) /\ P[k].lines \in Seq(1..n)
<1>1. P[k] \in HunkOf(n)
  <2> DEFINE H == HunkOf(n)
  <2> HIDE DEF H
  <2>1. P \in Seq(H) => P[k] \in H
    OBVIOUS
  <2> QED BY <2>1 DEF H
<1> DEFINE L == Seq(1..n)
           E == SUBSET (1..n)
<1>2. P[k] \in [start1 : Int, size1 : Int, start2 : Int, size2 : Int, lines : L, extra : E]
  BY <1>1 DEF HunkOf
<1> HIDE DEF L, E
<1>3. P[k].lines \in L
  BY <1>2
<1> QED BY <1>1, <1>3 DEF L

LEMMA HunkType ==
  ASSUME NEW s \in Script, NEW a \in 1..Len(s), NEW b \in 1..Len(s), a <= b
  PROVE  /\ Hunk(s, a, b) \in HunkOf(Len(s))
         /\ \A i \in a..b : \E k \in DOMAIN Hunk(s, a, b).lines :
              Hunk(s, a, b).lines[k] = i
<1> DEFINE before(mark) == Cardinality({i \in 1..(a - 1) : s[i] # mark})
           size(mark) == Cardinality({i \in a..b : s[i] # mark})
           lines == [k \in 1..(b - a + 1) |-> a + k - 1]
<1>1. \A mark : before(mark) \in Nat /\ size(mark) \in Nat
  <2> SUFFICES ASSUME NEW mark PROVE before(mark) \in Nat /\ size(mark) \in Nat
    OBVIOUS
  <2>1. IsFiniteSet(1..(a - 1)) /\ IsFiniteSet(a..b)
    BY FS_Interval
  <2>2. /\ IsFiniteSet({i \in 1..(a - 1) : s[i] # mark})
        /\ IsFiniteSet({i \in a..b : s[i] # mark})
    BY <2>1, FS_Subset
  <2> QED BY <2>2, FS_CardinalityType
<1>2. lines \in Seq(1..Len(s)) /\ DOMAIN lines = 1..(b - a + 1)
  <2>1. Len(s) \in Nat /\ b - a + 1 \in Nat
    BY DEF Script
  <2>2. \A k \in 1..(b - a + 1) : a + k - 1 \in 1..Len(s)
    BY <2>1
  <2>3. lines \in [1..(b - a + 1) -> 1..Len(s)]
    BY <2>2
  <2> HIDE DEF lines
  <2> QED BY <2>1, <2>3
<1>3. ASSUME NEW i \in a..b PROVE \E k \in 1..(b - a + 1) : lines[k] = i
  <2>1. i - a + 1 \in 1..(b - a + 1) /\ a + (i - a + 1) - 1 = i
    OBVIOUS
  <2> QED BY <2>1
<1>4. Hunk(s, a, b) =
        [start1 |-> before("+") + (IF size("+") = 0 THEN 0 ELSE 1), size1 |-> size("+"),
         start2 |-> before("-") + (IF size("-") = 0 THEN 0 ELSE 1), size2 |-> size("-"),
         lines |-> lines, extra |-> {}]
  BY DEF Hunk
<1> HIDE DEF before, size, lines
<1>5. /\ before("+") \in Int /\ size("+") \in Int /\ before("-") \in Int /\ size("-") \in Int
      /\ before("+") + (IF size("+") = 0 THEN 0 ELSE 1) \in Int
      /\ before("-") + (IF size("-") = 0 THEN 0 ELSE 1) \in Int
  BY <1>1
<1>6. Hunk(s, a, b) \in HunkOf(Len(s))
  <2>1. {} \in SUBSET (1..Len(s))
    OBVIOUS
  <2> QED BY <1>2, <1>4, <1>5, <2>1 DEF HunkOf
<1>7. Hunk(s, a, b).lines = lines
  BY <1>4
<1> QED BY <1>2, <1>3, <1>6, <1>7

\* A patch is a sequence of hunks, and every changed line is in one of them.
LEMMA PatchProperties ==
  ASSUME NEW s \in Script, NEW context \in Nat
  PROVE  /\ Patch(s, context) \in Seq(HunkOf(Len(s)))
         /\ \A i \in DOMAIN s : s[i] # "=" =>
              \E k \in DOMAIN Patch(s, context) :
                \E j \in DOMAIN Patch(s, context)[k].lines :
                  Patch(s, context)[k].lines[j] = i
<1> DEFINE n == Len(s)
           shown == ShownLines(s, context)
           starts == Ordered(RunStarts(shown))
           P == Patch(s, context)
<1>1. n \in Nat /\ DOMAIN s = 1..n
  BY DEF Script
<1>2. shown \in SUBSET (1..n) /\ RunStarts(shown) \in SUBSET (1..n)
      /\ RunStarts(shown) \subseteq shown
  BY <1>1 DEF ShownLines, RunStarts
<1>3. /\ starts \in Seq(RunStarts(shown)) /\ DOMAIN starts = 1..Len(starts)
      /\ Len(starts) \in Nat
      /\ \A a \in RunStarts(shown) : \E k \in DOMAIN starts : starts[k] = a
  BY <1>1, <1>2, OrderedProperties
<1>4. P = [k \in DOMAIN starts |-> Hunk(s, starts[k], RunEnd(shown, starts[k]))]
  BY DEF Patch
<1> HIDE DEF n, shown, starts, P
<1>5. ASSUME NEW k \in DOMAIN starts
      PROVE  /\ starts[k] \in RunStarts(shown) /\ starts[k] \in 1..n
             /\ RunEnd(shown, starts[k]) \in 1..n
             /\ starts[k] <= RunEnd(shown, starts[k])
             /\ RunEnd(shown, starts[k]) + 1 \notin shown
  <2>1. starts[k] \in RunStarts(shown)
    BY <1>3
  <2>2. starts[k] \in shown /\ starts[k] \in 1..n
    BY <1>2, <2>1
  <2> QED BY <1>1, <1>2, <2>1, <2>2, RunEndIs
<1>6. \A k \in DOMAIN starts : P[k] \in HunkOf(n)
  BY <1>4, <1>5, HunkType DEF n
<1>7. P \in Seq(HunkOf(n))
  <2>1. P \in [1..Len(starts) -> HunkOf(n)]
    BY <1>3, <1>4, <1>6
  <2> QED BY <1>3, <2>1
<1>8. ASSUME NEW i \in DOMAIN s, s[i] # "="
      PROVE  \E k \in DOMAIN P : \E j \in DOMAIN P[k].lines : P[k].lines[j] = i
  <2>1. i \in shown
    <3>1. i - i \in (-context)..context
      BY <1>1
    <3> QED BY <1>8, <3>1 DEF shown, ShownLines
  <2>2. PICK a \in RunStarts(shown) : a <= i /\ a..i \subseteq shown
    BY <1>1, <1>2, <2>1, RunStartIs
  <2>3. PICK k \in DOMAIN starts : starts[k] = a
    BY <1>3
  <2> DEFINE b == RunEnd(shown, a)
  <2>4. a \in 1..n /\ b \in 1..n /\ a <= b /\ b + 1 \notin shown
    BY <1>5, <2>3
  <2> HIDE DEF b
  <2>5. i \in a..b
    <3>1. i \in Nat /\ a \in Nat /\ b \in Nat
      BY <1>1, <2>4
    <3>2. b + 1 \notin a..i
      BY <2>2, <2>4
    <3> QED BY <2>2, <2>4, <3>1, <3>2
  <2>6. P[k] = Hunk(s, a, b)
    BY <1>4, <2>3 DEF b
  <2>7. \E j \in DOMAIN P[k].lines : P[k].lines[j] = i
    BY <2>4, <2>5, <2>6, HunkType DEF n
  <2> QED BY <1>4, <2>3, <2>7
<1> QED BY <1>7, <1>8 DEF n, P

----------------------------------------------------------------------------
(* What is listed, and what is left of it once compressed.                    *)

ListedFile ==
  [name : Nat, script : Script, quotes : SUBSET Nat, main : BOOLEAN, section : Nat,
   base : BOOLEAN, head : BOOLEAN,
   kind : {"code", "prose", "manifest", "lockfile", "bunlock", "image"}]

LEMMA DiffFilesType ==
  ASSUME NEW files \in Seq(File), NEW lost
  PROVE  DiffFiles(files, lost) \in Seq(ListedFile)
<1> DEFINE page == {k \in DOMAIN files : k <= Page}
           valid == Pick(files, {k \in page : ~Generated(files[k])})
           base(k) == k < MaxFull /\ <<k, "base">> \notin lost
           new(k) == k < MaxFull /\ <<k, "head">> \notin lost
           numbered == [k \in DOMAIN valid |-> Listed(valid[k], base(k), new(k))]
<1>1. valid \in Seq(File) /\ DOMAIN valid = 1..Len(valid) /\ Len(valid) \in Nat
  <2>1. {k \in page : ~Generated(files[k])} \in SUBSET DOMAIN files
    OBVIOUS
  <2>2. valid \in Seq(File)
    BY <2>1, PickProperties
  <2> HIDE DEF valid
  <2> QED BY <2>2
<1>2. \A f \in File, l \in BOOLEAN, m \in BOOLEAN : Listed(f, l, m) \in ListedFile
  BY DEF Listed, File, ListedFile, Script
<1>3. numbered \in Seq(ListedFile)
  <2> HIDE DEF valid
  <2>1. \A k \in DOMAIN valid : valid[k] \in File /\ base(k) \in BOOLEAN /\ new(k) \in BOOLEAN
    BY <1>1
  <2> HIDE DEF base, new
  <2>2. numbered \in [1..Len(valid) -> ListedFile]
    BY <1>1, <1>2, <2>1
  <2> HIDE DEF numbered
  <2> QED BY <1>1, <2>2
<1>4. DiffFiles(files, lost) = Pick(numbered, {k \in DOMAIN numbered : PatchOf(numbered[k]) # <<>>})
  BY DEF DiffFiles
<1> HIDE DEF numbered
<1>5. {k \in DOMAIN numbered : PatchOf(numbered[k]) # <<>>} \in SUBSET DOMAIN numbered
  OBVIOUS
<1> QED BY <1>3, <1>4, <1>5, PickProperties

\* Each element at a place given is picked, and nothing else.
LEMMA PickHas ==
  ASSUME NEW S, NEW s \in Seq(S), NEW I \in SUBSET DOMAIN s
  PROVE  /\ \A i \in I : \E k \in DOMAIN Pick(s, I) : Pick(s, I)[k] = s[i]
         /\ \A k \in DOMAIN Pick(s, I) : \E i \in I : Pick(s, I)[k] = s[i]
<1>1. \A k \in DOMAIN Pick(s, I) : Nth(I, k) \in I /\ Pick(s, I)[k] = s[Nth(I, k)]
  BY PickProperties
<1>2. \A i \in I : \E k \in DOMAIN Pick(s, I) : Pick(s, I)[k] = s[i]
  BY PickProperties
<1> QED BY <1>1, <1>2, Zenon

\* A sequence picked from somewhere that is not empty is not empty.
LEMMA PickSome ==
  ASSUME NEW S, NEW s \in Seq(S), NEW I \in SUBSET DOMAIN s, NEW i \in I
  PROVE  Pick(s, I) # <<>>
<1>1. \E k \in DOMAIN Pick(s, I) : Pick(s, I)[k] = s[i]
  BY PickProperties
<1>2. DOMAIN <<>> = {}
  OBVIOUS
<1> QED BY <1>1, <1>2

\* handlePatchDeletions keeps a file with a line added.
LEMMA AddedIsKept ==
  ASSUME NEW f \in ListedFile
  PROVE  /\ Kept(f) \in Seq(HunkOf(Len(f.script)))
         /\ Adds(f) => Kept(f) # <<>>
<1> DEFINE s == f.script
           n == Len(s)
           P == PatchOf(f)
           J == {k \in DOMAIN P : Marked(s, P[k].lines, "+") # <<>>}
<1>1. s \in Script /\ n \in Nat /\ DOMAIN s = 1..n
  BY DEF ListedFile, Script
<1>2. /\ P \in Seq(HunkOf(n))
      /\ \A i \in DOMAIN s : s[i] # "=" =>
           \E k \in DOMAIN P : \E j \in DOMAIN P[k].lines : P[k].lines[j] = i
  <2>1. Context \in Nat
    BY DiffSizesAssumption
  <2> QED BY <1>1, <2>1, PatchProperties DEF PatchOf
<1>3. Kept(f) = IF Removed(f) THEN <<>> ELSE Pick(P, J)
  BY DEF Kept, OmitDeletionHunks
<1> HIDE DEF s, n, P
<1>4. J \in SUBSET DOMAIN P
  OBVIOUS
<1>5. Pick(P, J) \in Seq(HunkOf(n))
  BY <1>2, <1>4, PickProperties
<1>6. Kept(f) \in Seq(HunkOf(n))
  BY <1>3, <1>5
<1>7. ASSUME NEW i \in DOMAIN s, s[i] = "+" PROVE Kept(f) # <<>>
  <2>1. PICK k \in DOMAIN P : \E j \in DOMAIN P[k].lines : P[k].lines[j] = i
    BY <1>2, <1>7
  <2>2. PICK j \in DOMAIN P[k].lines : P[k].lines[j] = i
    BY <2>1
  <2>3. P[k].lines \in Seq(1..n)
    BY <1>2, LinesType
  <2> DEFINE L == P[k].lines
             M == {m \in DOMAIN L : s[L[m]] = "+"}
  <2>4. M \in SUBSET DOMAIN L /\ j \in M
    BY <1>7, <2>2
  <2>5. Pick(L, M) # <<>>
    BY <2>3, <2>4, PickSome
  <2>6. k \in J
    BY <2>5 DEF Marked
  <2>7. Pick(P, J) # <<>>
    BY <1>2, <1>4, <2>6, PickSome
  <2>8. ~Removed(f)
    <3> DEFINE H == {h \in DOMAIN s : s[h] \in {"=", "+"}}
    <3>1. H \in SUBSET (1..n) /\ i \in H
      BY <1>1, <1>7
    <3>2. HeadFile(s) = Ordered(H)
      BY DEF HeadFile, Places
    <3>3. \E h \in DOMAIN Ordered(H) : Ordered(H)[h] = i
      BY <1>1, <3>1, OrderedProperties
    <3>4. DOMAIN <<>> = {}
      OBVIOUS
    <3> QED BY <3>2, <3>3, <3>4 DEF Removed, s
  <2> QED BY <1>3, <2>7, <2>8
<1>8. Adds(f) => \E i \in DOMAIN s : s[i] = "+"
  BY DEF Adds, s
<1> QED BY <1>6, <1>7, <1>8 DEF n, s

LEMMA FiniteUnion ==
  ASSUME NEW n \in Nat, NEW F, DOMAIN F = 1..n, \A k \in 1..n : IsFiniteSet(F[k])
  PROVE  IsFiniteSet(UNION {F[k] : k \in 1..n})
<1> DEFINE R == {F[k] : k \in 1..n}
           g == [k \in 1..n |-> F[k]]
<1>1. IsFiniteSet(1..n)
  <2>1. 1 \in Int /\ n \in Int
    OBVIOUS
  <2> QED BY <2>1, FS_Interval
<1>2. g \in Surjection(1..n, R)
  BY DEF Surjection
<1> HIDE DEF g
<1>3. IsFiniteSet(R)
  BY <1>1, <1>2, FS_Surjection
<1>4. \A T \in R : IsFiniteSet(T)
  OBVIOUS
<1> HIDE DEF R
<1>5. IsFiniteSet(UNION R)
  BY <1>3, <1>4, FS_UNION
<1> QED BY <1>5 DEF R

LEMMA BlockFinite ==
  ASSUME NEW k, NEW m \in Nat
  PROVE  IsFiniteSet({k} \X (0..m))
<1>1. 0 \in Int /\ m \in Int
  OBVIOUS
<1>2. IsFiniteSet(0..m) /\ IsFiniteSet({k})
  BY <1>1, FS_Interval, FS_Singleton
<1> QED BY <1>2, FS_Product

\* A converted hunk has as many lines as it may.
LEMMA ConvertedType ==
  ASSUME NEW n, NEW s, NEW quotes, NEW P \in Seq(HunkOf(n)), NEW k \in DOMAIN P
  PROVE  LET C == ConvertedHunk(s, quotes, P[k])
         IN  Len(C.new) \in Nat /\ Len(C.old) \in Nat
<1> DEFINE h == P[k]
           all == h.lines
           Kept1 == {m \in DOMAIN all : all[m] \notin quotes}
           L == Pick(all, Kept1)
           New == {m \in DOMAIN L : s[L[m]] # "-"}
           Old == {m \in DOMAIN L : s[L[m]] # "+"}
           removes == Marked(s, L, "-") # <<>>
           numbered == Numbered(s, L, h.start2)
           C == ConvertedHunk(s, quotes, h)
<1>1. L \in Seq(1..n)
  <2>1. all \in Seq(1..n) /\ Kept1 \in SUBSET DOMAIN all
    BY LinesType
  <2> HIDE DEF all, Kept1
  <2> QED BY <2>1, PickProperties
<1>2. /\ C.new = IF removes \/ Marked(s, L, "+") # <<>> THEN numbered ELSE <<>>
      /\ C.old = IF removes THEN Pick(L, Old) ELSE <<>>
  BY DEF ConvertedHunk, Unmarked
<1>3. numbered = [j \in DOMAIN Pick(L, New) |->
                    [number |-> h.start2 + j - 1, line |-> Pick(L, New)[j]]]
  BY DEF Numbered, Unmarked
<1>4. New \in SUBSET DOMAIN L /\ Old \in SUBSET DOMAIN L
  OBVIOUS
<1> HIDE DEF h, all, L, New, Old, C, numbered, removes
<1>5. /\ Pick(L, New) \in Seq(1..n) /\ DOMAIN Pick(L, New) = 1..Cardinality(New)
      /\ Pick(L, Old) \in Seq(1..n) /\ Cardinality(New) \in Nat
  BY <1>1, <1>4, PickProperties, PlacesFinite
<1>6. Len(numbered) \in Nat
  <2> DEFINE E(j) == [number |-> h.start2 + j - 1, line |-> Pick(L, New)[j]]
             c == Cardinality(New)
  <2>1. numbered = [j \in 1..c |-> E(j)] /\ c \in Nat
    BY <1>3, <1>5
  <2> HIDE DEF E, c
  <2>2. Len([j \in 1..c |-> E(j)]) = c
    BY <2>1
  <2> QED BY <2>1, <2>2
<1>7. Len(<<>>) \in Nat /\ Len(Pick(L, Old)) \in Nat
  BY <1>5, LenProperties
<1>8. Len(C.new) \in Nat /\ Len(C.old) \in Nat
  BY <1>2, <1>6, <1>7
<1> QED BY <1>8 DEF C, h

LEMMA CompressedType ==
  ASSUME NEW f \in ListedFile
  PROVE  Compressed(f) \in [name : Nat, tokens : Nat]
<1> DEFINE s == f.script
           n == Len(s)
           K == Kept(f)
           C == Converted(s, f.quotes, K)
           F == [k \in DOMAIN C |->
                   {k} \X (Under("new", C[k].new) \cup Under("old", C[k].old))]
<1>1. K \in Seq(HunkOf(n)) /\ DOMAIN K = 1..Len(K) /\ Len(K) \in Nat
  <2>1. K \in Seq(HunkOf(n))
    BY AddedIsKept
  <2> HIDE DEF K, n
  <2> QED BY <2>1
<1> HIDE DEF K, n
<1>2. DOMAIN C = 1..Len(K) /\ \A k \in 1..Len(K) : C[k] = ConvertedHunk(s, f.quotes, K[k])
  BY <1>1 DEF Converted
<1>3. ASSUME NEW k \in 1..Len(K) PROVE Len(C[k].new) \in Nat /\ Len(C[k].old) \in Nat
  <2> HIDE DEF C, s
  <2> QED BY <1>1, <1>2, ConvertedType
<1> HIDE DEF C
<1>4. \A k \in 1..Len(K) : IsFiniteSet(F[k])
  <2> SUFFICES ASSUME NEW k \in 1..Len(K) PROVE IsFiniteSet(F[k])
    OBVIOUS
  <2> DEFINE A == Under("new", C[k].new)
             B == Under("old", C[k].old)
  <2>1. IsFiniteSet(A) /\ IsFiniteSet(B)
    BY <1>3, BlockFinite, FS_EmptySet DEF Under
  <2>2. F[k] = {k} \X (A \cup B)
    BY <1>2
  <2> HIDE DEF A, B, F
  <2>3. IsFiniteSet({k}) /\ IsFiniteSet(A \cup B)
    BY <2>1, FS_Union, FS_Singleton
  <2>4. IsFiniteSet({k} \X (A \cup B))
    BY <2>3, FS_Product
  <2> QED BY <2>2, <2>4
<1>5. DOMAIN F = 1..Len(K)
  BY <1>2
<1>6. Printed(C) = UNION {F[k] : k \in 1..Len(K)}
  BY <1>2 DEF Printed
<1> HIDE DEF F
<1>7. IsFiniteSet(Printed(C))
  BY <1>1, <1>4, <1>5, <1>6, FiniteUnion
<1>8. Cardinality(Printed(C)) \in Nat
  BY <1>7, FS_CardinalityType
<1>9. Compressed(f) = [name |-> f.name, tokens |-> 1 + Cardinality(Printed(C))]
  BY DEF Compressed, C, K
<1>10. f.name \in Nat
  BY DEF ListedFile
<1> QED BY <1>8, <1>9, <1>10


----------------------------------------------------------------------------
(* What the prompt of a review shows, and what its notice names.              *)

Piece == [name : Nat, tokens : Nat]

\* sortFilesByMainLanguages loses no file.
LEMMA MainFirstType ==
  ASSUME NEW files \in Seq(ListedFile)
  PROVE  /\ MainFirst(files) \in Seq(ListedFile)
         /\ \A k \in DOMAIN files : \E j \in DOMAIN MainFirst(files) :
              MainFirst(files)[j] = files[k]
<1> DEFINE I == {k \in DOMAIN files : files[k].main}
           J == {k \in DOMAIN files : ~files[k].main}
           A == Pick(files, I)
           B == Pick(files, J)
<1>1. MainFirst(files) = A \o B
  BY DEF MainFirst
<1>2. I \in SUBSET DOMAIN files /\ J \in SUBSET DOMAIN files
  OBVIOUS
<1>3. \A k \in DOMAIN files : k \in I \/ k \in J
  OBVIOUS
<1> HIDE DEF I, J
<1>4. A \in Seq(ListedFile) /\ \A k \in I : \E j \in DOMAIN A : A[j] = files[k]
  BY <1>2, PickProperties
<1>5. B \in Seq(ListedFile) /\ \A k \in J : \E j \in DOMAIN B : B[j] = files[k]
  BY <1>2, PickProperties
<1> HIDE DEF A, B
<1>6. A \o B \in Seq(ListedFile)
  BY <1>4, <1>5
<1>7. \A j \in DOMAIN A : j \in DOMAIN (A \o B) /\ (A \o B)[j] = A[j]
  BY <1>4, <1>5
<1>8. \A j \in DOMAIN B : j + Len(A) \in DOMAIN (A \o B) /\ (A \o B)[j + Len(A)] = B[j]
  BY <1>4, <1>5
<1>9. ASSUME NEW k \in DOMAIN files
      PROVE  \E j \in DOMAIN (A \o B) : (A \o B)[j] = files[k]
  BY <1>3, <1>4, <1>5, <1>7, <1>8
<1> QED BY <1>1, <1>6, <1>9

\* Of a file that adds a line something is left to show.
LEMMA CompressibleType ==
  ASSUME NEW files \in Seq(ListedFile)
  PROVE  /\ Compressible(files) \in Seq(Piece)
         /\ \A k \in DOMAIN files : Adds(files[k]) =>
              \E j \in DOMAIN Compressible(files) :
                Compressible(files)[j].name = files[k].name
<1> DEFINE I == {k \in DOMAIN files : Kept(files[k]) # <<>>}
           some == Pick(files, I)
           C == [k \in DOMAIN some |-> Compressed(some[k])]
<1>1. Compressible(files) = C
  BY DEF Compressible
<1>2. I \in SUBSET DOMAIN files
  OBVIOUS
<1>3. ASSUME NEW k \in DOMAIN files, Adds(files[k]) PROVE k \in I
  <2>1. files[k] \in ListedFile
    OBVIOUS
  <2>2. Kept(files[k]) # <<>>
    BY <1>3, <2>1, AddedIsKept
  <2> QED BY <2>2
<1> HIDE DEF I
<1>4. /\ some \in Seq(ListedFile)
      /\ \A k \in I : \E j \in DOMAIN some : some[j] = files[k]
  BY <1>2, PickProperties
<1> HIDE DEF some
<1>5. ASSUME NEW k \in DOMAIN some PROVE C[k] \in Piece /\ C[k].name = some[k].name
  <2>1. some[k] \in ListedFile
    BY <1>4
  <2>2. Compressed(some[k]) \in Piece
    BY <2>1, CompressedType DEF Piece
  <2>3. Compressed(some[k]).name = some[k].name
    BY DEF Compressed
  <2> QED BY <2>2, <2>3
<1>6. C \in Seq(Piece)
  <2>1. DOMAIN some = 1..Len(some) /\ Len(some) \in Nat /\ DOMAIN C = DOMAIN some
    BY <1>4
  <2>2. C = [k \in 1..Len(some) |-> C[k]]
    BY <2>1
  <2> HIDE DEF C
  <2>3. C \in [1..Len(some) -> Piece]
    BY <1>5, <2>1, <2>2
  <2> QED BY <2>1, <2>3
<1>7. ASSUME NEW k \in DOMAIN files, Adds(files[k])
      PROVE  \E j \in DOMAIN C : C[j].name = files[k].name
  <2>1. PICK j \in DOMAIN some : some[j] = files[k]
    BY <1>3, <1>4, <1>7
  <2>2. j \in DOMAIN C /\ C[j].name = some[j].name
    BY <1>5
  <2> QED BY <2>1, <2>2
<1> QED BY <1>1, <1>6, <1>7

Filling == [shown : Seq(Nat), remaining : Seq(Nat), total : Int]
Named(acc) == Range(acc.shown) \cup Range(acc.remaining)
Limiting == ~Unlimited /\ cfg.prompt <= cfg.max - cfg.soft

LEMMA RangeOfAppend ==
  ASSUME NEW S, NEW q \in Seq(S), NEW e \in S
  PROVE  Append(q, e) \in Seq(S) /\ Range(Append(q, e)) = Range(q) \cup {e}
<1> DEFINE a == Append(q, e)
<1>1. a \in Seq(S) /\ DOMAIN a = 1..(Len(q) + 1) /\ a[Len(q) + 1] = e
  OBVIOUS
<1>2. DOMAIN q = 1..Len(q) /\ Len(q) \in Nat /\ \A i \in DOMAIN q : a[i] = q[i]
  OBVIOUS
<1> HIDE DEF a
<1>3. \A i \in DOMAIN a : i \in DOMAIN q \/ i = Len(q) + 1
  BY <1>1, <1>2
<1>4. DOMAIN q \subseteq DOMAIN a /\ Len(q) + 1 \in DOMAIN a
  BY <1>1, <1>2
<1>5. {a[i] : i \in DOMAIN a} = {q[i] : i \in DOMAIN q} \cup {e}
  <2>1. ASSUME NEW x \in {a[i] : i \in DOMAIN a}
        PROVE  x \in {q[i] : i \in DOMAIN q} \cup {e}
    BY <1>1, <1>2, <1>3
  <2>2. ASSUME NEW x \in {q[i] : i \in DOMAIN q} \cup {e}
        PROVE  x \in {a[i] : i \in DOMAIN a}
    BY <1>1, <1>2, <1>4
  <2> QED BY <2>1, <2>2
<1> QED BY <1>1, <1>5 DEF Range, a

\* A file is shown or named, and a shown one is within the budget.
LEMMA FillStep ==
  ASSUME cfg \in Config, NEW acc \in Filling, NEW d \in Piece
  PROVE  /\ Fill(acc, d) \in Filling
         /\ Named(Fill(acc, d)) = Named(acc) \cup {d.name}
         /\ Limiting /\ acc.total <= cfg.max - cfg.soft =>
              Fill(acc, d).total <= cfg.max - cfg.soft
<1>0. acc = [shown |-> acc.shown, remaining |-> acc.remaining, total |-> acc.total]
  BY DEF Filling
<1>1. /\ acc.shown \in Seq(Nat) /\ acc.remaining \in Seq(Nat) /\ acc.total \in Int
  BY DEF Filling
<1>2. d.name \in Nat /\ d.tokens \in Nat
  BY DEF Piece
<1>3. cfg.max \in Int /\ cfg.soft \in Int /\ cfg.hard \in Int /\ cfg.prompt \in Int
  BY DEF Config
<1> DEFINE rest == [shown |-> acc.shown, remaining |-> Append(acc.remaining, d.name),
                    total |-> acc.total]
           more == [shown |-> Append(acc.shown, d.name), remaining |-> acc.remaining,
                    total |-> acc.total + d.tokens]
           over == \/ acc.total > Larger(cfg.max - cfg.hard, 0)
                   \/ /\ acc.total + d.tokens > Larger(cfg.max - cfg.soft, 0)
                      /\ ~Unlimited
<1>4. Fill(acc, d) = IF over THEN rest ELSE more
  <2>1. [acc EXCEPT !.remaining = Append(@, d.name)] = rest
    <3>1. \A x : [acc EXCEPT !.remaining = x] =
                  [shown |-> acc.shown, remaining |-> x, total |-> acc.total]
      BY <1>0
    <3> QED BY <3>1
  <2>2. [acc EXCEPT !.shown = Append(@, d.name), !.total = @ + d.tokens] = more
    <3> SUFFICES ASSUME NEW x, NEW y
                 PROVE  [acc EXCEPT !.shown = x, !.total = y] =
                        [shown |-> x, remaining |-> acc.remaining, total |-> y]
      OBVIOUS
    <3> DEFINE half == [shown |-> x, remaining |-> acc.remaining, total |-> acc.total]
    <3>1. [acc EXCEPT !.shown = x, !.total = y] = [[acc EXCEPT !.shown = x] EXCEPT !.total = y]
      BY <1>0
    <3>2. [acc EXCEPT !.shown = x] = half
      BY <1>0
    <3>3. /\ half = [shown |-> half.shown, remaining |-> half.remaining, total |-> half.total]
          /\ half.shown = x /\ half.remaining = acc.remaining
      OBVIOUS
    <3> HIDE DEF half
    <3>4. [half EXCEPT !.total = y] = [shown |-> half.shown, remaining |-> half.remaining, total |-> y]
      BY <3>3
    <3> QED BY <3>1, <3>2, <3>3, <3>4
  <2> QED BY <2>1, <2>2 DEF Fill
<1>5. rest \in Filling /\ Named(rest) = Named(acc) \cup {d.name}
  <2>1. /\ Append(acc.remaining, d.name) \in Seq(Nat)
        /\ Range(Append(acc.remaining, d.name)) = Range(acc.remaining) \cup {d.name}
    BY <1>1, <1>2, RangeOfAppend
  <2> QED BY <1>1, <2>1 DEF Filling, Named
<1>6. more \in Filling /\ Named(more) = Named(acc) \cup {d.name}
  <2>1. /\ Append(acc.shown, d.name) \in Seq(Nat)
        /\ Range(Append(acc.shown, d.name)) = Range(acc.shown) \cup {d.name}
    BY <1>1, <1>2, RangeOfAppend
  <2>2. acc.total + d.tokens \in Int
    BY <1>1, <1>2
  <2> QED BY <1>1, <2>1, <2>2 DEF Filling, Named
<1>7. Limiting /\ ~over => more.total <= cfg.max - cfg.soft
  BY <1>1, <1>2, <1>3 DEF Limiting, Unlimited, Larger
<1>8. rest.total = acc.total
  OBVIOUS
<1> HIDE DEF rest, more, over
<1> QED BY <1>4, <1>5, <1>6, <1>7, <1>8

\* A fold of Fill goes from file to file.
LEMMA FillSteps ==
  ASSUME cfg \in Config, NEW ds \in Seq(Piece)
  PROVE  \E g : /\ g[0] = Unfilled
                /\ \A k \in 1..Len(ds) : g[k] = Fill(g[k - 1], ds[k])
                /\ Filled(ds) = g[Len(ds)]
<1> DEFINE n == Len(ds)
           b == Unfilled
           FillOn(it) == it = [t \in SUBSET (1..n) |->
                                 IF t = {} THEN b ELSE Fill(it[t \ {Max(t)}], ds[Max(t)])]
           step == [x \in Filling \X (1..n) |-> Fill(x[1], ds[x[2]])]
           it == CHOOSE it : FillOn(it)
<1>1. n \in Nat /\ DOMAIN ds = 1..n /\ \A k \in 1..n : ds[k] \in Piece
  OBVIOUS
<1>2. Filled(ds) = it[1..n]
  BY <1>1 DEF Filled, FoldLeft, MapThenFoldSet
<1>3. b \in Filling
  <2>1. <<>> \in Seq(Nat) /\ cfg.prompt \in Int
    BY DEF Config
  <2> QED BY <2>1 DEF Unfilled, Filling
<1> HIDE DEF n, b, it
<1>4. \E f : FillOn(f)
  <2>1. \A x \in Filling, k \in 1..n : Fill(x, ds[k]) \in Filling
    BY <1>1, FillStep
  <2>2. /\ step \in [Filling \X (1..n) -> Filling]
        /\ \A x \in Filling, k \in 1..n : step[<<x, k>>] = Fill(x, ds[k])
    BY <2>1
  <2> HIDE DEF step
  <2>3. PICK f \in [SUBSET (1..n) -> Filling] : FoldOn(f, b, step, n)
    BY <1>1, <1>3, <2>2, FoldExists
  <2>4. ASSUME NEW t \in SUBSET (1..n), t # {}
        PROVE  step[<<f[t \ {Max(t)}], Max(t)>>] = Fill(f[t \ {Max(t)}], ds[Max(t)])
    <3>1. Max(t) \in 1..n /\ t \ {Max(t)} \in SUBSET (1..n)
      BY <1>1, <2>4, MaxOfPart
    <3> QED BY <2>2, <2>3, <3>1
  <2>5. [t \in SUBSET (1..n) |->
           IF t = {} THEN b ELSE step[<<f[t \ {Max(t)}], Max(t)>>]] =
        [t \in SUBSET (1..n) |->
           IF t = {} THEN b ELSE Fill(f[t \ {Max(t)}], ds[Max(t)])]
    BY <2>4
  <2>6. FillOn(f)
    BY <2>3, <2>5 DEF FoldOn
  <2> QED BY <2>6
<1>5. FillOn(it)
  BY <1>4 DEF it
<1> DEFINE g == [k \in 0..n |-> it[1..k]]
<1>6. g[0] = b
  <2>1. 1..0 = {} /\ 1..0 \in SUBSET (1..n) /\ 0 \in 0..n
    BY <1>1
  <2>2. it[1..0] = b
    BY <1>5, <2>1
  <2> QED BY <2>1, <2>2
<1>7. ASSUME NEW k \in 1..n PROVE g[k] = Fill(g[k - 1], ds[k])
  <2>1. /\ k - 1 \in Nat /\ (k - 1) + 1 = k /\ k \in 0..n /\ k - 1 \in 0..n
        /\ 1..k \in SUBSET (1..n) /\ k \in 1..k
    BY <1>1
  <2>2. 1..k # {} /\ Max(1..k) = k /\ (1..k) \ {k} = 1..(k - 1)
    BY <2>1, LastPlace
  <2>3. it[1..k] = Fill(it[1..(k - 1)], ds[k])
    BY <1>5, <2>1, <2>2
  <2> QED BY <2>1, <2>3
<1>8. g[n] = it[1..n]
  BY <1>1
<1> HIDE DEF g, FillOn
<1>9. /\ g[0] = Unfilled /\ Filled(ds) = g[n]
      /\ \A k \in 1..n : g[k] = Fill(g[k - 1], ds[k])
  BY <1>2, <1>6, <1>7, <1>8 DEF b
<1> QED BY <1>9 DEF n

\* Every file is shown or named, whatever the budget.
LEMMA FilledProperties ==
  ASSUME cfg \in Config, NEW ds \in Seq(Piece)
  PROVE  /\ Filled(ds) \in Filling
         /\ \A k \in DOMAIN ds : ds[k].name \in Named(Filled(ds))
         /\ Limiting => Filled(ds).total <= cfg.max - cfg.soft
<1> DEFINE n == Len(ds)
<1>1. n \in Nat /\ DOMAIN ds = 1..n /\ \A k \in 1..n : ds[k] \in Piece
  OBVIOUS
<1>2. PICK g : /\ g[0] = Unfilled
               /\ \A k \in 1..n : g[k] = Fill(g[k - 1], ds[k])
               /\ Filled(ds) = g[n]
  BY FillSteps
<1> HIDE DEF n
<1> DEFINE Good(m) ==
             /\ g[m] \in Filling
             /\ \A k \in 1..m : ds[k].name \in Named(g[m])
             /\ Limiting => g[m].total <= cfg.max - cfg.soft
           T == {m \in Nat : m <= n => Good(m)}
<1>3. 0 \in T
  <2>1. Unfilled \in Filling
    <3>1. <<>> \in Seq(Nat) /\ cfg.prompt \in Int
      BY DEF Config
    <3> QED BY <3>1 DEF Unfilled, Filling
  <2>2. Limiting => Unfilled.total <= cfg.max - cfg.soft
    BY DEF Limiting, Unfilled
  <2>3. \A k \in 1..0 : FALSE
    OBVIOUS
  <2> QED BY <1>2, <2>1, <2>2, <2>3
<1>4. ASSUME NEW m \in T PROVE m + 1 \in T
  <2>1. m \in Nat /\ m + 1 \in Nat
    OBVIOUS
  <2>2. SUFFICES ASSUME m + 1 <= n PROVE Good(m + 1)
    BY <2>1
  <2>3. Good(m)
    BY <2>1, <2>2, <1>1
  <2>4. m + 1 \in 1..n /\ (m + 1) - 1 = m
    BY <2>1, <2>2, <1>1
  <2>5. g[m + 1] = Fill(g[m], ds[m + 1]) /\ ds[m + 1] \in Piece
    BY <1>1, <1>2, <2>4
  <2>6. /\ g[m + 1] \in Filling
        /\ Named(g[m + 1]) = Named(g[m]) \cup {ds[m + 1].name}
        /\ Limiting /\ g[m].total <= cfg.max - cfg.soft =>
             g[m + 1].total <= cfg.max - cfg.soft
    BY <2>3, <2>5, FillStep
  <2>7. \A k \in 1..(m + 1) : k \in 1..m \/ k = m + 1
    BY <2>1
  <2> QED BY <2>3, <2>6, <2>7
<1>5. n \in T
  <2>1. T \in SUBSET Nat
    OBVIOUS
  <2> HIDE DEF T
  <2> QED BY <1>1, <1>3, <1>4, <2>1, Induction
<1>6. Good(n)
  BY <1>1, <1>5
<1> QED BY <1>1, <1>2, <1>6


----------------------------------------------------------------------------
(* The size of the whole diff is a number: extendPatch gives every hunk       *)
(* limits that are.                                                           *)

Lim == [start1 : Int, size1 : Int, start2 : Int, size2 : Int]

HasPlaces(h) ==
  h.start1 \in Int /\ h.size1 \in Int /\ h.start2 \in Int /\ h.size2 \in Int

LEMMA LimitsType ==
  ASSUME NEW h, HasPlaces(h), NEW base, Len(base) \in Nat,
         NEW before \in Int, NEW after \in Int
  PROVE  Limits(h, base, before, after) \in Lim
<1> DEFINE start1 == Larger(1, h.start1 - before)
           start2 == Larger(1, h.start2 - before)
           size1 == h.size1 + h.start1 - start1 + after
           size2 == h.size2 + h.start2 - start2 + after
           over == Larger(0, start1 - 1 + size1 - Len(base))
<1>1. h.start1 \in Int /\ h.size1 \in Int /\ h.start2 \in Int /\ h.size2 \in Int
  BY DEF HasPlaces
<1>2. start1 \in Int /\ start2 \in Int
  BY <1>1 DEF Larger
<1> HIDE DEF start1, start2
<1>3. size1 \in Int /\ size2 \in Int
  BY <1>1, <1>2
<1> HIDE DEF size1, size2
<1>4. over \in Int
  BY <1>2, <1>3 DEF Larger
<1> HIDE DEF over
<1>5. /\ Larger(size1 - over, h.size1) \in Int
      /\ Larger(size2 - over, h.size2) \in Int
  BY <1>1, <1>3, <1>4 DEF Larger
<1>6. Limits(h, base, before, after) =
        [start1 |-> start1, start2 |-> start2,
         size1 |-> IF over > 0 THEN Larger(size1 - over, h.size1) ELSE size1,
         size2 |-> IF over > 0 THEN Larger(size2 - over, h.size2) ELSE size2]
  BY DEF Limits, start1, start2, size1, size2, over
<1> QED BY <1>2, <1>3, <1>5, <1>6 DEF Lim

LEMMA NarrowedType ==
  ASSUME NEW lim \in Lim, NEW k \in Int
  PROVE  Narrowed(lim, k) \in Lim
BY DEF Narrowed, Lim

\* A part of lines is a sequence, even past their end.
LEMMA PartIsSequence ==
  ASSUME NEW s, NEW m \in Int, NEW n \in Int
  PROVE  \E V : SubSeq(s, m, n) \in Seq(V)
<1> DEFINE V == {s[x] : x \in Int}
           c == Len(SubSeq(s, m, n))
<1>1. /\ c \in Nat /\ DOMAIN SubSeq(s, m, n) = 1..c
      /\ SubSeq(s, m, n) = [i \in 1..c |-> s[i + m - 1]]
  OBVIOUS
<1> HIDE DEF c
<1>2. \A i \in 1..c : s[i + m - 1] \in V
  OBVIOUS
<1> HIDE DEF V
<1> DEFINE q == SubSeq(s, m, n)
<1>3. q = [i \in 1..c |-> s[i + m - 1]] /\ c \in Nat
  BY <1>1
<1> HIDE DEF q
<1>4. q \in [1..c -> V]
  BY <1>2, <1>3
<1>5. q \in Seq(V)
  <2>1. c \in Nat
    BY <1>3
  <2> QED BY <1>4, <2>1
<1> QED BY <1>5 DEF q

LEMMA ReachType ==
  ASSUME NEW h, HasPlaces(h), NEW base, Len(base) \in Nat, NEW newFile, NEW section,
         NEW before \in Int, NEW dynamic \in Int, NEW after \in Int
  PROVE  Reach(h, base, newFile, section, before, dynamic, after) \in Lim
<1> DEFINE wide == Limits(h, base, dynamic, after)
           near == Limits(h, base, before, after)
           hits == {i \in DOMAIN Above(h, base, wide) : Above(h, base, wide)[i] = section}
           k == (CHOOSE i \in hits : TRUE) - 1
<1>1. wide \in Lim /\ near \in Lim /\ h.start1 \in Int
  BY LimitsType DEF HasPlaces
<1> HIDE DEF wide, near
<1>2. DOMAIN Above(h, base, wide) \subseteq Nat
  <2>1. wide.start1 \in Int /\ h.start1 - 1 \in Int
    BY <1>1 DEF Lim
  <2>2. PICK V : SubSeq(base, wide.start1, h.start1 - 1) \in Seq(V)
    BY <2>1, PartIsSequence
  <2> QED BY <2>2 DEF Above
<1>3. hits # {} => k \in Int
  BY <1>2
<1>4. Reach(h, base, newFile, section, before, dynamic, after) =
        IF newFile # <<>> /\ hits # {}
             /\ Drop(Above(h, base, wide), k) = Drop(AboveNew(h, newFile, wide), k)
          THEN Narrowed(wide, k) ELSE near
  BY DEF Reach, wide, near
<1> HIDE DEF k, hits
<1>5. hits # {} => Narrowed(wide, k) \in Lim
  BY <1>1, <1>3, NarrowedType
<1> QED BY <1>1, <1>4, <1>5

LEMMA AgreedType ==
  ASSUME NEW h, HasPlaces(h), NEW base, NEW newFile, NEW lim \in Lim
  PROVE  Agreed(h, base, newFile, lim) \in Lim
<1> DEFINE old == Above(h, base, lim)
           new == AboveNew(h, newFile, lim)
           ks == {k \in 0..(Len(old) - 1) : Drop(old, k) = Drop(new, k)}
           own == [start1 |-> h.start1, size1 |-> h.size1,
                   start2 |-> h.start2, size2 |-> h.size2]
           least == CHOOSE k \in ks : \A m \in ks : k <= m
<1>2. own \in Lim
  BY DEF Lim, HasPlaces
<1> HIDE DEF own, old, new
<1>3. ks \subseteq Nat
  OBVIOUS
<1>4. Agreed(h, base, newFile, lim) =
        IF newFile = <<>> \/ old = new THEN lim
        ELSE IF ks = {} THEN own ELSE Narrowed(lim, least)
  BY DEF Agreed, old, new, own
<1> HIDE DEF ks
<1>5. ks # {} => least \in Int
  <2> SUFFICES ASSUME ks # {} PROVE least \in Int
    OBVIOUS
  <2>1. Min(ks) \in ks /\ \A m \in ks : Min(ks) <= m
    BY <1>3, MinIsMember
  <2>2. \E k \in ks : \A m \in ks : k <= m
    BY <2>1
  <2>3. least \in ks
    BY <2>2
  <2> HIDE DEF least
  <2> QED BY <1>3, <2>3
<1> HIDE DEF least
<1>6. ks # {} => Narrowed(lim, least) \in Lim
  BY <1>5, NarrowedType
<1> QED BY <1>2, <1>4, <1>6

LEMMA ExtendHunkLines ==
  ASSUME NEW n, NEW P \in Seq(HunkOf(n)), NEW j \in DOMAIN P, NEW base, NEW newFile,
         Len(base) \in Nat, NEW section, NEW c \in Config
  PROVE  Len(ExtendHunk(P[j], base, newFile, section, c).lines) \in Nat
<1> DEFINE h == P[j]
           lim == Agreed(h, base, newFile,
                    Reach(h, base, newFile, section, c.before, c.dynamic, c.after))
           above == SubSeq(base, lim.start1, h.start1 - 1)
           below == SubSeq(base, Larger(h.start1 + h.size1, 1),
                           Smaller(h.start1 + h.size1 + c.after - 1, Len(base)))
<1>0. HasPlaces(h)
  <2> DEFINE L == Seq(1..n)
             E == SUBSET (1..n)
  <2>1. h \in [start1 : Int, size1 : Int, start2 : Int, size2 : Int, lines : L, extra : E]
    BY LinesType DEF HunkOf
  <2> HIDE DEF h, L, E
  <2> QED BY <2>1 DEF HasPlaces
<1>1. c.before \in Int /\ c.dynamic \in Int /\ c.after \in Int
  BY DEF Config
<1>2. Reach(h, base, newFile, section, c.before, c.dynamic, c.after) \in Lim
  BY <1>0, <1>1, ReachType
<1>3. lim \in Lim
  BY <1>0, <1>2, AgreedType
<1>4. h.start1 \in Int /\ h.size1 \in Int /\ h.lines \in Seq(1..n)
  BY <1>0, LinesType DEF HasPlaces
<1>5. ExtendHunk(h, base, newFile, section, c).lines = above \o h.lines \o below
  BY DEF ExtendHunk, Above, Slice
<1> HIDE DEF h, lim
<1>6. PICK A : above \in Seq(A)
  <2>1. lim.start1 \in Int /\ h.start1 - 1 \in Int
    BY <1>3, <1>4 DEF Lim
  <2> QED BY <2>1, PartIsSequence
<1>7. PICK B : below \in Seq(B)
  <2>1. /\ Larger(h.start1 + h.size1, 1) \in Int
        /\ Smaller(h.start1 + h.size1 + c.after - 1, Len(base)) \in Int
    BY <1>1, <1>4 DEF Larger, Smaller
  <2> QED BY <2>1, PartIsSequence
<1> HIDE DEF above, below
<1> DEFINE V == A \cup B \cup (1..n)
<1>8. above \in Seq(V) /\ below \in Seq(V) /\ h.lines \in Seq(V)
  <2> DEFINE N == 1..n
  <2>1. A \subseteq V /\ B \subseteq V /\ N \subseteq V
    OBVIOUS
  <2>2. h.lines \in Seq(N)
    BY <1>4
  <2> HIDE DEF V, N
  <2> QED BY <1>6, <1>7, <2>1, <2>2
<1> HIDE DEF V
<1>9. Len(above \o h.lines \o below) \in Nat
  BY <1>8
<1> QED BY <1>5, <1>9 DEF h


\* A split file has one line more than the file.
LEMMA SplitType ==
  ASSUME NEW s \in Script
  PROVE  /\ Split(s) \in Script /\ Len(s) \in Nat
         /\ Len(Split(s)) = Len(s) + 1 /\ DOMAIN Split(s) = 1..(Len(s) + 1)
         /\ \A i \in 1..Len(s) : Split(s)[i] = s[i]
         /\ Split(s)[Len(s) + 1] = "="
<1>1. s \in Seq({"=", "+", "-"}) /\ "=" \in {"=", "+", "-"}
  BY DEF Script
<1>2. Len(s) \in Nat /\ DOMAIN s = 1..Len(s)
  BY <1>1
<1> QED BY <1>1, <1>2 DEF Split, Script

LEMMA ExtendedLines ==
  ASSUME cfg \in Config, NEW f \in ListedFile
  PROVE  \E n \in Nat : /\ DOMAIN Extended(f) = 1..n
                        /\ \A k \in 1..n : Len(Extended(f)[k].lines) \in Nat
<1> DEFINE s == f.script
           n == Len(s)
           P == PatchOf(f)
           base == BaseFile(Split(s))
           new == IF f.head /\ HeadFile(s) # <<>> THEN HeadFile(Split(s)) ELSE <<>>
           E == [k \in DOMAIN P |-> ExtendHunk(P[k], base, new, f.section, cfg)]
<1>1. s \in Script /\ n \in Nat /\ DOMAIN s = 1..n
  BY DEF ListedFile, Script
<1>2. P \in Seq(HunkOf(n))
  <2>1. Context \in Nat
    BY DiffSizesAssumption
  <2> QED BY <1>1, <2>1, PatchProperties DEF PatchOf
<1>3. Len(base) \in Nat
  <2> DEFINE t == Split(s)
             I == {i \in DOMAIN t : t[i] \in {"=", "-"}}
  <2>1. I \in SUBSET (1..(n + 1)) /\ n + 1 \in Nat
    BY <1>1, SplitType
  <2>2. base = Ordered(I)
    BY DEF BaseFile, Places
  <2> HIDE DEF I, base
  <2>3. Len(Ordered(I)) \in Nat
    BY <2>1, OrderedProperties
  <2> QED BY <2>2, <2>3
<1>4. Extended(f) = P \/ Extended(f) = E
  BY DEF Extended, ExtendPatch
<1> HIDE DEF n, P, s, base, new
<1>5. Len(P) \in Nat /\ DOMAIN P = 1..Len(P)
  BY <1>2
<1>6. \A k \in 1..Len(P) : Len(P[k].lines) \in Nat
  <2> SUFFICES ASSUME NEW k \in DOMAIN P PROVE Len(P[k].lines) \in Nat
    BY <1>5
  <2> DEFINE L == P[k].lines
             S == 1..n
  <2>1. L \in Seq(S)
    BY <1>2, LinesType
  <2> HIDE DEF L, S
  <2>2. Len(L) \in Nat
    BY <2>1
  <2> QED BY <2>2 DEF L
<1>7. \A k \in 1..Len(P) : Len(E[k].lines) \in Nat
  BY <1>2, <1>3, <1>5, ExtendHunkLines
<1>8. DOMAIN E = 1..Len(P)
  BY <1>5
<1> HIDE DEF E
<1>9. CASE Extended(f) = P
  BY <1>5, <1>6, <1>9
<1>10. CASE Extended(f) = E
  BY <1>5, <1>7, <1>8, <1>10
<1> QED BY <1>4, <1>9, <1>10

LEMMA WholeIsNumber ==
  ASSUME cfg \in Config, NEW files \in Seq(ListedFile)
  PROVE  Whole(files) \in Int
<1> DEFINE n == Len(files)
           R == [k \in DOMAIN files |-> {k} \X RawLines(Extended(files[k]))]
<1>1. n \in Nat /\ DOMAIN files = 1..n /\ \A k \in 1..n : files[k] \in ListedFile
  OBVIOUS
<1>2. ASSUME NEW k \in 1..n PROVE IsFiniteSet(RawLines(Extended(files[k])))
  <2> DEFINE E == Extended(files[k])
             F == [i \in DOMAIN E |-> {i} \X (0..Len(E[i].lines))]
  <2>1. PICK m \in Nat : DOMAIN E = 1..m /\ \A i \in 1..m : Len(E[i].lines) \in Nat
    BY <1>1, <1>2, ExtendedLines
  <2> HIDE DEF E
  <2>2. ASSUME NEW i \in 1..m PROVE IsFiniteSet(F[i])
    BY <2>1, BlockFinite
  <2>3. DOMAIN F = 1..m
    BY <2>1
  <2>4. RawLines(E) = UNION {F[i] : i \in 1..m}
    BY <2>1 DEF RawLines
  <2> HIDE DEF F
  <2>5. IsFiniteSet(RawLines(E))
    BY <2>1, <2>2, <2>3, <2>4, FiniteUnion
  <2> QED BY <2>5 DEF E
<1>3. ASSUME NEW k \in 1..n PROVE IsFiniteSet(R[k])
  <2>1. IsFiniteSet({k} \X RawLines(Extended(files[k])))
    BY <1>2, FS_Product, FS_Singleton
  <2>2. R[k] = {k} \X RawLines(Extended(files[k]))
    BY <1>1
  <2> QED BY <2>1, <2>2
<1>4. DOMAIN R = 1..n
  BY <1>1
<1>5. Whole(files) = cfg.prompt + Cardinality(UNION {R[k] : k \in 1..n})
  BY <1>1 DEF Whole
<1> HIDE DEF R, n
<1>6. IsFiniteSet(UNION {R[k] : k \in 1..n})
  BY <1>1, <1>3, <1>4, FiniteUnion
<1>7. Cardinality(UNION {R[k] : k \in 1..n}) \in Nat
  BY <1>6, FS_CardinalityType
<1>8. cfg.prompt \in Int
  BY DEF Config
<1> QED BY <1>5, <1>7, <1>8

----------------------------------------------------------------------------
(* The prompt of a review.                                                    *)

\* What getPrDiff returns for any files and thresholds.
LEMMA PrDiffProperties ==
  ASSUME cfg \in Config, NEW all \in Seq(ListedFile)
  PROVE  /\ \A k \in DOMAIN all : Adds(all[k]) =>
              all[k].name \in Range(PrDiff(all).shown) \cup Range(PrDiff(all).remaining)
         /\ Limiting /\ cfg.hard > 0 => PrDiff(all).total <= cfg.max
         /\ PrDiff(all).remaining \in Seq(Nat)
<1> DEFINE files == MainFirst(all)
           names == [k \in DOMAIN files |-> files[k].name]
           ds == Compressible(files)
           filled == Filled(ds)
           whole == [shown |-> names, remaining |-> <<>>, total |-> Whole(files)]
           rest == [filled EXCEPT !.total = Headed(Headed(Headed(@)))]
<1>1. PrDiff(all) = IF Whole(files) + cfg.soft < cfg.max THEN whole ELSE rest
  BY DEF PrDiff
<1>2. /\ files \in Seq(ListedFile)
      /\ \A k \in DOMAIN all : \E j \in DOMAIN files : files[j] = all[k]
  BY MainFirstType
<1> HIDE DEF files
<1>3. /\ ds \in Seq(Piece)
      /\ \A k \in DOMAIN files : Adds(files[k]) =>
           \E j \in DOMAIN ds : ds[j].name = files[k].name
  BY <1>2, CompressibleType
<1> HIDE DEF ds
<1>4. /\ filled \in Filling
      /\ \A k \in DOMAIN ds : ds[k].name \in Named(filled)
      /\ Limiting => filled.total <= cfg.max - cfg.soft
  BY <1>3, FilledProperties
<1>5. /\ cfg.max \in Int /\ cfg.soft \in Int /\ cfg.hard \in Int /\ Whole(files) \in Int
  BY <1>2, WholeIsNumber DEF Config
<1> HIDE DEF filled
<1>6. filled.total \in Int
  BY <1>4 DEF Filling
<1>7. /\ rest.shown = filled.shown /\ rest.remaining = filled.remaining
      /\ rest.total = Headed(Headed(Headed(filled.total)))
  BY <1>4 DEF Filling
<1>8. ASSUME NEW k \in DOMAIN all, Adds(all[k])
      PROVE  /\ all[k].name \in Range(whole.shown) \cup Range(whole.remaining)
             /\ all[k].name \in Range(rest.shown) \cup Range(rest.remaining)
  <2>1. PICK i \in DOMAIN files : files[i] = all[k]
    BY <1>2
  <2>2. PICK j \in DOMAIN ds : ds[j].name = files[i].name
    BY <1>3, <1>8, <2>1
  <2>3. names[i] = all[k].name /\ i \in DOMAIN names
    BY <2>1
  <2>4. all[k].name \in Range(names)
    BY <2>3 DEF Range
  <2>5. all[k].name \in Named(filled)
    BY <1>4, <2>1, <2>2
  <2> HIDE DEF names, rest
  <2> QED BY <1>7, <2>4, <2>5 DEF Named
<1>9. Limiting /\ cfg.hard > 0 /\ Whole(files) + cfg.soft < cfg.max =>
        whole.total <= cfg.max
  BY <1>5 DEF Limiting, Unlimited
<1>10. Limiting /\ cfg.hard > 0 => rest.total <= cfg.max
  <2> SUFFICES ASSUME Limiting, cfg.hard > 0
               PROVE  Headed(Headed(Headed(filled.total))) <= cfg.max
    BY <1>7
  <2> DEFINE Fits(t) == t \in Int /\ t <= cfg.max
  <2>1. Fits(filled.total)
    BY <1>4, <1>5, <1>6 DEF Limiting, Unlimited
  <2>2. ASSUME NEW t, Fits(t) PROVE Fits(Headed(t))
    BY <1>5, <2>2 DEF Headed
  <2> HIDE DEF Fits
  <2>3. Fits(Headed(Headed(Headed(filled.total))))
    BY <2>1, <2>2
  <2> QED BY <2>3 DEF Fits
<1>11. whole.remaining \in Seq(Nat) /\ rest.remaining \in Seq(Nat)
  BY <1>4, <1>7 DEF Filling
<1> HIDE DEF whole, rest
<1> QED BY <1>1, <1>8, <1>9, <1>10, <1>11

\* Of the names that were left out a notice does not name more than it counts.
LEMMA NoticeCounts ==
  ASSUME NEW remaining \in Seq(Nat), NEW untold,
         untold \subseteq Range(remaining) \ Range(Notice(remaining).named)
  PROVE  Cardinality(untold) <= Notice(remaining).more
<1> DEFINE n == Len(remaining)
           m == Smaller(MaxNamed, n)
           named == SubSeq(remaining, 1, m)
           f == [k \in (m + 1)..n |-> remaining[k]]
           R == {remaining[k] : k \in (m + 1)..n}
<1>1. n \in Nat /\ DOMAIN remaining = 1..n /\ m \in Nat /\ m <= n
  BY DiffSizesAssumption DEF Smaller
<1>2. Notice(remaining) = [named |-> named, more |-> n - Len(named)]
  BY DEF Notice
<1> HIDE DEF m, n
<1>3. /\ Len(named) = m /\ DOMAIN named = 1..m
      /\ \A k \in 1..m : named[k] = remaining[k]
  BY <1>1 DEF n
<1> HIDE DEF named
<1>4. Notice(remaining).more = n - m /\ Notice(remaining).named = named
  BY <1>2, <1>3
<1>5. untold \subseteq R
  <2> SUFFICES ASSUME NEW x \in untold PROVE x \in R
    OBVIOUS
  <2>1. PICK k \in 1..n : x = remaining[k]
    BY <1>1 DEF Range
  <2>2. k \notin 1..m
    BY <1>3, <1>4, <2>1 DEF Range
  <2>3. k \in (m + 1)..n
    BY <1>1, <2>2
  <2> QED BY <2>1, <2>3
<1>6. IsFiniteSet((m + 1)..n) /\ Cardinality((m + 1)..n) = n - m
  <2>1. m + 1 \in Int /\ n \in Int
    BY <1>1
  <2>2. /\ IsFiniteSet((m + 1)..n)
        /\ Cardinality((m + 1)..n) = IF m + 1 > n THEN 0 ELSE n - (m + 1) + 1
    BY <2>1, FS_Interval
  <2> QED BY <1>1, <2>2
<1>7. f \in Surjection((m + 1)..n, R)
  BY DEF Surjection
<1>8. IsFiniteSet(R) /\ Cardinality(R) <= n - m
  <2> HIDE DEF f, R
  <2> QED BY <1>6, <1>7, FS_Surjection
<1>9. Cardinality(untold) <= Cardinality(R) /\ Cardinality(untold) \in Nat
      /\ Cardinality(R) \in Nat
  <2> HIDE DEF R
  <2> QED BY <1>5, <1>8, FS_Subset, FS_CardinalityType
<1> QED BY <1>1, <1>4, <1>8, <1>9


----------------------------------------------------------------------------
(* The chunks of improve.ts are a sequence of sequences of files.             *)

Chunking == [done : Seq(Seq(Piece)), current : Seq(Piece), tokens : Int, call : Int]

LEMMA NoChunkType == NoChunk \in Chunking
<1> DEFINE D == Seq(Seq(Piece))
           C == Seq(Piece)
<1>1. <<>> \in D /\ <<>> \in C
  OBVIOUS
<1> HIDE DEF D, C
<1>2. NoChunk \in [done : D, current : C, tokens : Int, call : Int]
  BY <1>1 DEF NoChunk
<1> QED BY <1>2 DEF Chunking, D, C

LEMMA FlushType ==
  ASSUME NEW acc \in Chunking
  PROVE  Flush(acc) \in Chunking
<1> DEFINE C == Seq(Piece)
           D == Seq(C)
<1> HIDE DEF C
<1>1. acc \in [done : D, current : C, tokens : Int, call : Int]
  BY DEF Chunking, C
<1>2. Append(acc.done, acc.current) \in D
  <2>1. acc.done \in D /\ acc.current \in C
    BY <1>1
  <2> QED BY <2>1
<1>3. <<>> \in C
  BY DEF C
<1> HIDE DEF D
<1>4. Flush(acc) \in [done : D, current : C, tokens : Int, call : Int]
  <2> DEFINE flushed == [acc EXCEPT !.done = Append(@, acc.current), !.current = <<>>,
                                    !.tokens = 0]
  <2>1. flushed \in [done : D, current : C, tokens : Int, call : Int]
    <3>1. \A x \in D, y \in C, z \in Int :
            [acc EXCEPT !.done = x, !.current = y, !.tokens = z]
              \in [done : D, current : C, tokens : Int, call : Int]
      BY <1>1
    <3> DEFINE x == Append(acc.done, acc.current)
               y == <<>>
    <3>2. x \in D /\ y \in C /\ 0 \in Int
      BY <1>2, <1>3
    <3>3. flushed = [acc EXCEPT !.done = x, !.current = y, !.tokens = 0]
      OBVIOUS
    <3> HIDE DEF x, y, flushed
    <3> QED BY <3>1, <3>2, <3>3
  <2>2. Flush(acc) \in {acc, flushed}
    BY DEF Flush
  <2> HIDE DEF flushed
  <2> QED BY <1>1, <2>1, <2>2
<1> QED BY <1>4 DEF Chunking, C, D

LEMMA PutType ==
  ASSUME NEW acc \in Chunking, NEW d \in Piece
  PROVE  Put(acc, d) \in Chunking
<1> DEFINE C == Seq(Piece)
           D == Seq(C)
<1> HIDE DEF D
<1>1. acc \in [done : D, current : C, tokens : Int, call : Int]
  BY DEF Chunking, D
<1>2. Append(acc.current, d) \in C
  <2>1. acc.current \in C
    BY <1>1
  <2> QED BY <2>1
<1>3. acc.tokens + d.tokens \in Int
  <2>1. acc.tokens \in Int /\ d.tokens \in Nat
    BY <1>1 DEF Piece
  <2> QED BY <2>1
<1> HIDE DEF C
<1>4. Put(acc, d) \in [done : D, current : C, tokens : Int, call : Int]
  BY <1>1, <1>2, <1>3 DEF Put
<1> QED BY <1>4 DEF Chunking, C, D

LEMMA ChunkStep ==
  ASSUME NEW acc \in Chunking, NEW d \in Piece
  PROVE  Chunk(acc, d) \in Chunking
<1> DEFINE next == [Flush(acc) EXCEPT !.call = @ + 1]
<1>1. next \in Chunking
  <2> DEFINE D == Seq(Seq(Piece))
             C == Seq(Piece)
  <2>1. Flush(acc) \in [done : D, current : C, tokens : Int, call : Int]
    BY FlushType DEF Chunking
  <2> HIDE DEF C, D
  <2>2. Flush(acc).call + 1 \in Int
    BY <2>1
  <2>3. next \in [done : D, current : C, tokens : Int, call : Int]
    BY <2>1, <2>2
  <2> QED BY <2>3 DEF Chunking, C, D
<1> HIDE DEF next
<1>2. Put(next, d) \in Chunking /\ Put(acc, d) \in Chunking
  BY <1>1, PutType
<1>3. Chunk(acc, d) \in {acc, next, Put(next, d), Put(acc, d)}
  BY DEF Chunk, next
<1> QED BY <1>1, <1>2, <1>3

\* A fold of Chunk goes from file to file.
LEMMA ChunkSteps ==
  ASSUME NEW ds \in Seq(Piece)
  PROVE  \E g : /\ g[0] = NoChunk
                /\ \A k \in 1..Len(ds) : g[k] = Chunk(g[k - 1], ds[k])
                /\ Chunked(ds) = g[Len(ds)]
<1> DEFINE n == Len(ds)
           b == NoChunk
           ChunkOn(it) == it = [t \in SUBSET (1..n) |->
                                 IF t = {} THEN b ELSE Chunk(it[t \ {Max(t)}], ds[Max(t)])]
           step == [x \in Chunking \X (1..n) |-> Chunk(x[1], ds[x[2]])]
           it == CHOOSE it : ChunkOn(it)
<1>1. n \in Nat /\ DOMAIN ds = 1..n /\ \A k \in 1..n : ds[k] \in Piece
  OBVIOUS
<1>2. Chunked(ds) = it[1..n]
  BY <1>1 DEF Chunked, FoldLeft, MapThenFoldSet
<1>3. b \in Chunking
  BY NoChunkType
<1> HIDE DEF n, b, it
<1>4. \E f : ChunkOn(f)
  <2>1. \A x \in Chunking, k \in 1..n : Chunk(x, ds[k]) \in Chunking
    BY <1>1, ChunkStep
  <2>2. /\ step \in [Chunking \X (1..n) -> Chunking]
        /\ \A x \in Chunking, k \in 1..n : step[<<x, k>>] = Chunk(x, ds[k])
    BY <2>1
  <2> HIDE DEF step
  <2>3. PICK f \in [SUBSET (1..n) -> Chunking] : FoldOn(f, b, step, n)
    BY <1>1, <1>3, <2>2, FoldExists
  <2>4. ASSUME NEW t \in SUBSET (1..n), t # {}
        PROVE  step[<<f[t \ {Max(t)}], Max(t)>>] = Chunk(f[t \ {Max(t)}], ds[Max(t)])
    <3>1. Max(t) \in 1..n /\ t \ {Max(t)} \in SUBSET (1..n)
      BY <1>1, <2>4, MaxOfPart
    <3> QED BY <2>2, <2>3, <3>1
  <2>5. [t \in SUBSET (1..n) |->
           IF t = {} THEN b ELSE step[<<f[t \ {Max(t)}], Max(t)>>]] =
        [t \in SUBSET (1..n) |->
           IF t = {} THEN b ELSE Chunk(f[t \ {Max(t)}], ds[Max(t)])]
    BY <2>4
  <2>6. ChunkOn(f)
    BY <2>3, <2>5 DEF FoldOn
  <2> QED BY <2>6
<1>5. ChunkOn(it)
  BY <1>4 DEF it
<1> DEFINE g == [k \in 0..n |-> it[1..k]]
<1>6. g[0] = b
  <2>1. 1..0 = {} /\ 1..0 \in SUBSET (1..n) /\ 0 \in 0..n
    BY <1>1
  <2>2. it[1..0] = b
    BY <1>5, <2>1
  <2> QED BY <2>1, <2>2
<1>7. ASSUME NEW k \in 1..n PROVE g[k] = Chunk(g[k - 1], ds[k])
  <2>1. /\ k - 1 \in Nat /\ (k - 1) + 1 = k /\ k \in 0..n /\ k - 1 \in 0..n
        /\ 1..k \in SUBSET (1..n) /\ k \in 1..k
    BY <1>1
  <2>2. 1..k # {} /\ Max(1..k) = k /\ (1..k) \ {k} = 1..(k - 1)
    BY <2>1, LastPlace
  <2>3. it[1..k] = Chunk(it[1..(k - 1)], ds[k])
    BY <1>5, <2>1, <2>2
  <2> QED BY <2>1, <2>3
<1>8. g[n] = it[1..n]
  BY <1>1
<1> HIDE DEF g, ChunkOn
<1>9. /\ g[0] = NoChunk /\ Chunked(ds) = g[n]
      /\ \A k \in 1..n : g[k] = Chunk(g[k - 1], ds[k])
  BY <1>2, <1>6, <1>7, <1>8 DEF b
<1> QED BY <1>9 DEF n

LEMMA ChunkedType ==
  ASSUME NEW ds \in Seq(Piece)
  PROVE  Chunked(ds) \in Chunking
<1> DEFINE n == Len(ds)
<1>1. n \in Nat /\ DOMAIN ds = 1..n /\ \A k \in 1..n : ds[k] \in Piece
  OBVIOUS
<1>2. PICK g : /\ g[0] = NoChunk
               /\ \A k \in 1..n : g[k] = Chunk(g[k - 1], ds[k])
               /\ Chunked(ds) = g[n]
  BY ChunkSteps
<1> HIDE DEF n
<1> DEFINE T == {m \in Nat : m <= n => g[m] \in Chunking}
<1>3. 0 \in T
  BY <1>2, NoChunkType
<1>4. ASSUME NEW m \in T PROVE m + 1 \in T
  <2>1. m \in Nat /\ m + 1 \in Nat
    OBVIOUS
  <2>2. SUFFICES ASSUME m + 1 <= n PROVE g[m + 1] \in Chunking
    BY <2>1
  <2>3. g[m] \in Chunking
    BY <2>1, <2>2, <1>1
  <2>4. m + 1 \in 1..n /\ (m + 1) - 1 = m
    BY <2>1, <2>2, <1>1
  <2>5. g[m + 1] = Chunk(g[m], ds[m + 1]) /\ ds[m + 1] \in Piece
    BY <1>1, <1>2, <2>4
  <2> QED BY <2>3, <2>5, ChunkStep
<1>5. n \in T
  <2>1. T \in SUBSET Nat
    OBVIOUS
  <2> HIDE DEF T
  <2> QED BY <1>1, <1>3, <1>4, <2>1, Induction
<1> QED BY <1>1, <1>2, <1>5

\* What improve.ts asks for is a sequence of chunks, one at least.
LEMMA MultiDiffsSequence ==
  ASSUME NEW files \in Seq(ListedFile)
  PROVE  \E n \in Nat \ {0} : DOMAIN MultiDiffs(files) = 1..n
<1> DEFINE ds == Compressible(files)
           sorted == LargestFirst(ds)
           acc == Flush(Chunked(sorted))
           one == [k \in DOMAIN files |->
                     [name |-> files[k].name,
                      tokens |-> Cardinality(RawLines(Extended(files[k])))]]
<1>1. \/ MultiDiffs(files) = << one >>
      \/ MultiDiffs(files) = acc.done /\ acc.done # <<>>
  BY DEF MultiDiffs
<1>2. ds \in Seq(Piece)
  BY CompressibleType
<1> HIDE DEF ds, one
<1>3. sorted \in Seq(Piece)
  <2> DEFINE n == Len(ds)
             ahead(i) == {j \in DOMAIN ds : \/ ds[j].tokens > ds[i].tokens
                                            \/ ds[j].tokens = ds[i].tokens /\ j <= i}
             D == 1..n
             Before(g, h) == \/ ds[g].tokens > ds[h].tokens
                             \/ ds[g].tokens = ds[h].tokens /\ g <= h
             R == {x \in D \X D : Before(x[1], x[2])}
  <2>1. n \in Nat /\ DOMAIN ds = 1..n /\ \A i \in 1..n : ds[i] \in Piece /\ i \in Nat
    BY <1>2
  <2>2. \A i \in 1..n : ds[i].tokens \in Nat
    BY <2>1 DEF Piece
  <2>3. \A i \in D : ahead(i) = {j \in D : Before(j, i)}
    BY <2>1
  <2>4. sorted = [k \in D |-> ds[CHOOSE i \in D : Cardinality(ahead(i)) = k]]
    BY <2>1 DEF LargestFirst
  <2>5. /\ \A i \in D : Before(i, i)
        /\ \A g, h \in D : Before(g, h) \/ Before(h, g)
        /\ \A g, h \in D : Before(g, h) /\ Before(h, g) => g = h
        /\ \A g, h, i \in D : Before(g, h) /\ Before(h, i) => Before(g, i)
    BY <2>1, <2>2
  <2>6. IsFiniteSet(D) /\ Cardinality(D) = n
    <3>1. 1 \in Int /\ n \in Int /\ n >= 1 - 1
      BY <2>1
    <3>2. IsFiniteSet(1..n) /\ Cardinality(1..n) = IF 1 > n THEN 0 ELSE n - 1 + 1
      BY <3>1, FS_Interval
    <3> QED BY <2>1, <3>2
  <2> HIDE DEF n, D, Before, ahead, sorted
  <2>7. \A g, h \in D : <<g, h>> \in R <=> Before(g, h)
    OBVIOUS
  <2> HIDE DEF R
  <2>8. \A i \in D : ahead(i) = UpTo(D, R, i)
    BY <2>3, <2>7 DEF UpTo
  <2>13. /\ \A i \in D : <<i, i>> \in R
         /\ \A g, h \in D : <<g, h>> \in R \/ <<h, g>> \in R
         /\ \A g, h \in D : <<g, h>> \in R /\ <<h, g>> \in R => g = h
         /\ \A g, h, i \in D : <<g, h>> \in R /\ <<h, i>> \in R => <<g, i>> \in R
    BY <2>5, <2>7
  <2>9. \A k \in 1..n : \E i \in D : Cardinality(UpTo(D, R, i)) = k
    <3>1. IsFiniteSet(D)
      BY <2>6
    <3>2. /\ Cardinality(D) \in Nat
          /\ \A i \in D : Cardinality(UpTo(D, R, i)) \in 1..Cardinality(D)
          /\ \A k \in 1..Cardinality(D) : \E i \in D : Cardinality(UpTo(D, R, i)) = k
          /\ \A g, h \in D :
               Cardinality(UpTo(D, R, g)) <= Cardinality(UpTo(D, R, h)) => <<g, h>> \in R
      BY ONLY <2>13, <3>1, RankIsPlace, Zenon
    <3> QED BY <2>6, <3>2
  <2>10. \A k \in 1..n : \E i \in D : Cardinality(ahead(i)) = k
    BY <2>8, <2>9
  <2>11. \A k \in D : (CHOOSE i \in D : Cardinality(ahead(i)) = k) \in D
    BY <2>10 DEF D
  <2>12. sorted \in [1..n -> Piece]
    BY <2>1, <2>4, <2>11 DEF D
  <2> QED BY <2>1, <2>12
<1> HIDE DEF sorted
<1>4. acc \in Chunking
  BY <1>3, ChunkedType, FlushType
<1> HIDE DEF acc
<1>5. acc.done \in Seq(Seq(Piece))
  BY <1>4 DEF Chunking
<1>6. acc.done # <<>> => Len(acc.done) \in Nat \ {0} /\ DOMAIN acc.done = 1..Len(acc.done)
  <2> DEFINE D == Seq(Piece)
             d == acc.done
  <2> HIDE DEF D, d
  <2>1. d \in Seq(D)
    BY <1>5 DEF D, d
  <2>2. d # <<>> => Len(d) \in Nat \ {0} /\ DOMAIN d = 1..Len(d)
    BY <2>1, EmptySeq
  <2> QED BY <2>2 DEF d
<1>7. 1 \in Nat \ {0} /\ DOMAIN << one >> = 1..1
  OBVIOUS
<1> QED BY <1>1, <1>6, <1>7


----------------------------------------------------------------------------
(* The suggestions of the chunks, one list after the other.                   *)

Suggestion == [chunk : Nat, scored : BOOLEAN]

JoinOn(F, s, m) ==
  F = [i \in 1..m |-> IF i = 1 THEN s[i] ELSE F[i - 1] \o s[i]]

\* g joins the lists of s one by one.
Unrolled(g, s, n) ==
  /\ g[1] = s[1]
  /\ \A k \in 2..n : g[k] = g[k - 1] \o s[k]
  /\ FlattenSeq(s) = g[n]

LEMMA FlattenSteps ==
  ASSUME NEW n \in Nat \ {0}, NEW s, DOMAIN s = 1..n, Len(s) = n
  PROVE  \E g : Unrolled(g, s, n)
<1> DEFINE Has(m) == \E F : JoinOn(F, s, m)
           T == {m \in Nat : Has(m)}
<1>1. Has(0)
  <2> DEFINE F == [i \in 1..0 |-> s[i]]
  <2>1. JoinOn(F, s, 0)
    BY DEF JoinOn
  <2> HIDE DEF F
  <2> QED BY <2>1
<1>2. ASSUME NEW m \in Nat, Has(m) PROVE Has(m + 1)
  <2>1. PICK F : JoinOn(F, s, m)
    BY <1>2
  <2> DEFINE next == [i \in 1..(m + 1) |->
                        IF i = 1 THEN s[i]
                        ELSE IF i = m + 1 THEN F[m] \o s[i] ELSE F[i]]
  <2>2. ASSUME NEW i \in 1..(m + 1)
        PROVE  next[i] = IF i = 1 THEN s[i] ELSE next[i - 1] \o s[i]
    <3>1. CASE i = 1
      BY <3>1
    <3>2. CASE i # 1 /\ i # m + 1
      <4>1. i \in 1..m /\ i - 1 \in 1..m /\ i - 1 # m + 1
        BY <3>2
      <4>2. next[i] = F[i] /\ F[i] = F[i - 1] \o s[i]
        BY <2>1, <3>2, <4>1 DEF JoinOn
      <4>3. next[i - 1] = F[i - 1]
        BY <2>1, <4>1 DEF JoinOn
      <4> HIDE DEF next
      <4> QED BY <3>2, <4>2, <4>3
    <3>3. CASE i # 1 /\ i = m + 1
      <4>1. m \in 1..m /\ i - 1 = m /\ m # m + 1 /\ m \in 1..(m + 1)
        BY <3>3
      <4>2. next[i] = F[m] \o s[i]
        BY <3>3
      <4>3. next[m] = F[m]
        BY <2>1, <4>1 DEF JoinOn
      <4> HIDE DEF next
      <4> QED BY <3>3, <4>1, <4>2, <4>3
    <3> QED BY <3>1, <3>2, <3>3
  <2>3. next = [i \in 1..(m + 1) |-> next[i]]
    OBVIOUS
  <2> HIDE DEF next
  <2>4. [i \in 1..(m + 1) |-> next[i]] =
        [i \in 1..(m + 1) |-> IF i = 1 THEN s[i] ELSE next[i - 1] \o s[i]]
    BY <2>2
  <2>5. JoinOn(next, s, m + 1)
    BY <2>3, <2>4 DEF JoinOn
  <2> QED BY <2>5
<1> HIDE DEF Has
<1>3. T \in SUBSET Nat /\ 0 \in T /\ \A m \in T : m + 1 \in T
  BY <1>1, <1>2
<1> HIDE DEF T
<1>4. n \in T
  BY <1>3, Induction
<1>5. \E F : JoinOn(F, s, n)
  BY <1>4 DEF T, Has
<1> DEFINE g == CHOOSE F : JoinOn(F, s, n)
<1>6. JoinOn(g, s, n)
  BY <1>5
<1>7. FlattenSeq(s) = g[n]
  BY DEF FlattenSeq, JoinOn
<1> HIDE DEF g
<1>8. g[1] = s[1]
  BY <1>6 DEF JoinOn
<1>9. ASSUME NEW k \in 2..n PROVE g[k] = g[k - 1] \o s[k]
  <2>1. k \in 1..n /\ k # 1
    OBVIOUS
  <2> QED BY <1>6, <2>1 DEF JoinOn
<1> QED BY <1>7, <1>8, <1>9 DEF Unrolled

Lists(s, n) ==
  /\ n \in Nat \ {0} /\ DOMAIN s = 1..n /\ Len(s) = n
  /\ \A i \in 1..n : /\ s[i] \in Seq(Suggestion)
                     /\ \A k \in DOMAIN s[i] : s[i][k].chunk = i

Merged(m, s, n) ==
  /\ m \in Seq(Suggestion)
  /\ \A i \in 1..n : \A j \in DOMAIN s[i] : \E k \in DOMAIN m : m[k] = s[i][j]
  /\ \A k, l \in DOMAIN m : k <= l => m[k].chunk <= m[l].chunk

\* Every suggestion of a chunk is in the merged list, after those of the chunks
\* before it.
LEMMA MergedProperties ==
  ASSUME NEW n, NEW s, Lists(s, n)
  PROVE  Merged(FlattenSeq(s), s, n)
<1>0. /\ n \in Nat \ {0} /\ DOMAIN s = 1..n /\ Len(s) = n
      /\ \A i \in 1..n : /\ s[i] \in Seq(Suggestion)
                         /\ \A k \in DOMAIN s[i] : s[i][k].chunk = i
  BY DEF Lists
<1>g. PICK g : Unrolled(g, s, n)
  BY <1>0, FlattenSteps
<1>1. /\ g[1] = s[1]
      /\ \A k \in 2..n : g[k] = g[k - 1] \o s[k]
      /\ FlattenSeq(s) = g[n]
  BY <1>g DEF Unrolled
<1> DEFINE Typed(m) == g[m] \in Seq(Suggestion)
           Below(m) == \A k \in DOMAIN g[m] : g[m][k].chunk \in 1..m
           All(m) == \A i \in 1..m : \A j \in DOMAIN s[i] :
                       \E k \in DOMAIN g[m] : g[m][k] = s[i][j]
           Sorted(m) == \A k, l \in DOMAIN g[m] : k <= l =>
                          g[m][k].chunk <= g[m][l].chunk
           Good(m) == Typed(m) /\ Below(m) /\ All(m) /\ Sorted(m)
           T == {m \in Nat : m + 1 <= n => Good(m + 1)}
<1>2. 0 \in T
  <2>1. /\ s[1] \in Seq(Suggestion) /\ \A k \in DOMAIN s[1] : s[1][k].chunk = 1
    BY <1>0
  <2>2. Typed(1) /\ Below(1)
    BY <1>1, <2>1
  <2>3. All(1)
    <3>1. \A i \in 1..1 : i = 1
      OBVIOUS
    <3> QED BY <1>1, <3>1
  <2>4. Sorted(1)
    BY <1>1, <2>1
  <2>5. Good(0 + 1)
    BY <2>2, <2>3, <2>4
  <2> HIDE DEF Good
  <2> QED BY <2>5
<1>3. ASSUME NEW m \in T PROVE m + 1 \in T
  <2> HIDE DEF Good
  <2>1. m \in Nat /\ m + 1 \in Nat
    OBVIOUS
  <2> SUFFICES ASSUME m + 1 + 1 <= n PROVE Good(m + 1 + 1)
    BY <2>1
  <2>2. Good(m + 1)
    BY <1>0, <2>1
  <2> DEFINE p == m + 1
             q == m + 1 + 1
             a == g[p]
             b == s[q]
             c == Len(a)
  <2>3. q \in 2..n /\ q \in 1..n /\ q - 1 = p /\ p \in Nat
    BY <1>0, <2>1
  <2>4. g[q] = a \o b
    BY <1>1, <2>3
  <2>5. /\ a \in Seq(Suggestion) /\ b \in Seq(Suggestion)
        /\ \A k \in DOMAIN b : b[k].chunk = q
    BY <1>0, <2>2, <2>3 DEF Good
  <2> HIDE DEF T, a, b
  <2>6. /\ a \o b \in Seq(Suggestion) /\ c \in Nat /\ DOMAIN a = 1..c
        /\ \A k \in DOMAIN a : k \in DOMAIN (a \o b) /\ (a \o b)[k] = a[k]
        /\ \A k \in DOMAIN b : c + k \in DOMAIN (a \o b) /\ (a \o b)[c + k] = b[k]
        /\ \A k \in DOMAIN (a \o b) : k \in Nat
        /\ \A k \in DOMAIN (a \o b) :
             k \in DOMAIN a \/ (k - c \in DOMAIN b /\ c + (k - c) = k /\ k > c)
    BY <2>5
  <2>7. \A k \in DOMAIN a : a[k].chunk \in 1..p
    BY <2>2 DEF Good, a
  <2>8. \A k, l \in DOMAIN a : k <= l => a[k].chunk <= a[l].chunk
    BY <2>2 DEF Good, a
  <2>9. \A i \in 1..p : \A j \in DOMAIN s[i] : \E k \in DOMAIN a : a[k] = s[i][j]
    BY <2>2 DEF Good, a
  <2> DEFINE w == a \o b
  <2>10. w = g[q]
    BY <2>4
  <2> HIDE DEF w, c
  <2>11. /\ w \in Seq(Suggestion) /\ c \in Nat /\ DOMAIN a = 1..c
         /\ \A k \in DOMAIN a : k \in DOMAIN w /\ w[k] = a[k]
         /\ \A k \in DOMAIN b : c + k \in DOMAIN w /\ w[c + k] = b[k]
         /\ \A k \in DOMAIN w : k \in Nat
         /\ \A k \in DOMAIN w :
              k \in DOMAIN a \/ (k - c \in DOMAIN b /\ c + (k - c) = k /\ k > c)
    BY <2>6 DEF w
  <2>12. ASSUME NEW k \in DOMAIN w
         PROVE  \/ k \in 1..c /\ w[k] = a[k] /\ w[k].chunk \in 1..p
                \/ k > c /\ w[k].chunk = q
    <3>1. CASE k \in DOMAIN a
      BY <2>7, <2>11, <3>1
    <3>2. CASE k - c \in DOMAIN b /\ c + (k - c) = k /\ k > c
      <4>1. w[c + (k - c)] = b[k - c]
        BY <2>11, <3>2
      <4>2. b[k - c].chunk = q
        BY <2>5, <3>2
      <4> QED BY <3>2, <4>1, <4>2
    <3> QED BY <2>11, <3>1, <3>2
  <2>13. \A k \in DOMAIN w : w[k].chunk \in 1..q
    <3>1. \A x \in 1..p : x \in 1..q
      BY <2>3
    <3> QED BY <2>3, <2>12, <3>1
  <2>14. ASSUME NEW k \in DOMAIN w, NEW l \in DOMAIN w, k <= l
         PROVE  w[k].chunk <= w[l].chunk
    <3>1. CASE l \in 1..c
      <4>1. k \in 1..c
        BY <2>11, <2>14, <3>1
      <4>2. w[k] = a[k] /\ w[l] = a[l] /\ a[k].chunk <= a[l].chunk
        BY <2>8, <2>11, <2>14, <3>1, <4>1
      <4> QED BY <4>2
    <3>2. CASE ~(l \in 1..c)
      <4>1. w[l].chunk = q
        BY <2>12, <3>2
      <4>2. w[k].chunk \in 1..q
        BY <2>13
      <4> QED BY <2>3, <4>1, <4>2
    <3> QED BY <3>1, <3>2
  <2>15. ASSUME NEW i \in 1..q, NEW j \in DOMAIN s[i]
         PROVE  \E k \in DOMAIN w : w[k] = s[i][j]
    <3>1. CASE i = q
      <4>1. j \in DOMAIN b
        BY <3>1 DEF b
      <4>2. c + j \in DOMAIN w /\ w[c + j] = b[j]
        BY <2>11, <4>1
      <4> QED BY <3>1, <4>2 DEF b
    <3>2. CASE i # q
      <4>1. i \in 1..p
        BY <2>3, <3>2
      <4>2. PICK k \in DOMAIN a : a[k] = s[i][j]
        BY <2>9, <4>1
      <4> QED BY <2>11, <4>2
    <3> QED BY <3>1, <3>2
  <2>16. Typed(q) /\ Below(q) /\ All(q) /\ Sorted(q)
    BY <2>10, <2>11, <2>13, <2>14, <2>15
  <2> QED BY <2>16 DEF Good
<1>4. T \in SUBSET Nat
  OBVIOUS
<1> HIDE DEF T, Good
<1>5. n - 1 \in T
  <2>1. n - 1 \in Nat
    BY <1>0
  <2> QED BY <1>2, <1>3, <1>4, <2>1, Induction
<1>6. Good(n)
  <2>1. (n - 1) + 1 = n /\ n <= n
    BY <1>0
  <2> QED BY <1>5, <2>1 DEF T
<1> QED BY <1>1, <1>6 DEF Good, Merged


----------------------------------------------------------------------------
(* The invariant of the specification.                                        *)

\* A chunk has no list yet, or the one of its last answer.
Asked ==
  \E n \in Nat \ {0} :
    /\ DOMAIN chunks = 1..n /\ DOMAIN answers = 1..n
    /\ preds = [i \in 1..n |-> preds[i]]
    /\ \A i \in 1..n :
         \/ preds[i] = Null
         \/ /\ answers[i] \in Bodies \ {"unusable"}
            /\ preds[i] = parseSuggestionsYaml(answers[i], i)

DiffInv ==
  /\ pr \in Seq(File) /\ cfg \in Config /\ listed \in Seq(ListedFile)
  /\ pc = "list" => review = None
  /\ ReadOrNamed /\ PromptFits
  /\ pc = "asking" => Asked
  /\ SuggestionsComplete

LEMMA DiffInitially == DiffInit => DiffInv
<1> SUFFICES ASSUME DiffInit PROVE DiffInv
  OBVIOUS
<1>1. PICK i \in Inputs : pr = i.pr /\ cfg = i.cfg
  BY DEF DiffInit
<1>2. pr \in Seq(File) /\ cfg \in Config
  BY <1>1, DiffInputsAssumption
<1>3. listed \in Seq(ListedFile)
  BY DEF DiffInit
<1>4. review = None /\ pc = "list"
  BY DEF DiffInit
<1> QED
  BY <1>2, <1>3, <1>4 DEF DiffInv, ReadOrNamed, PromptFits, Reviewed, SuggestionsComplete

LEMMA ListFilesStep ==
  ASSUME DiffInv, ListFiles
  PROVE  DiffInv'
<1>1. listed' \in Seq(ListedFile)
  <2>1. PICK lost : listed' = DiffFiles(pr, lost)
    BY DEF ListFiles
  <2> QED BY <2>1, DiffFilesType DEF DiffInv
<1>2. review' = None /\ pc' = "review"
  BY DEF DiffInv, ListFiles
<1>3. pr' \in Seq(File) /\ cfg' \in Config
  BY DEF DiffInv, ListFiles
<1> QED
  BY <1>1, <1>2, <1>3 DEF DiffInv, ReadOrNamed, PromptFits, Reviewed, SuggestionsComplete

LEMMA ReviewStep ==
  ASSUME DiffInv, Review
  PROVE  DiffInv'
<1>1. /\ pr' = pr /\ cfg' = cfg /\ listed' = listed
      /\ review' = PrDiff(listed) /\ pc' = "improve"
  BY DEF Review
<1>2. pr \in Seq(File) /\ cfg \in Config /\ listed \in Seq(ListedFile)
  BY DEF DiffInv
<1>3. /\ \A k \in DOMAIN listed : Adds(listed[k]) =>
           listed[k].name \in Range(review'.shown) \cup Range(review'.remaining)
      /\ Limiting /\ cfg.hard > 0 => review'.total <= cfg.max
  BY <1>1, <1>2, PrDiffProperties
<1>4. ReadOrNamed'
  <2> DEFINE left == review'.remaining
             told == Range(review'.shown) \cup Range(Notice(left).named)
             adding == {k \in DOMAIN listed : Adds(listed[k])}
             untold == {listed[k].name : k \in adding} \ told
  <2>1. untold \subseteq Range(left) \ Range(Notice(left).named)
    BY <1>3
  <2>2. left \in Seq(Nat)
    BY <1>1, <1>2, PrDiffProperties
  <2> HIDE DEF untold, left
  <2>3. Cardinality(untold) <= Notice(left).more
    BY <2>1, <2>2, NoticeCounts
  <2> QED BY <1>1, <2>3 DEF ReadOrNamed, Adds, untold, left
<1>5. PromptFits'
  BY <1>1, <1>3 DEF PromptFits, Limiting, Unlimited
<1> QED
  BY <1>1, <1>2, <1>4, <1>5 DEF DiffInv, SuggestionsComplete

\* The two properties of the review say nothing of the steps after it.
LEMMA ReviewKept ==
  ASSUME DiffInv, UNCHANGED <<pr, cfg, listed, review>>, pc' # "list"
  PROVE  /\ pr' \in Seq(File) /\ cfg' \in Config /\ listed' \in Seq(ListedFile)
         /\ pc' = "list" => review' = None
         /\ ReadOrNamed' /\ PromptFits'
<1>1. ReadOrNamed'
  BY DEF DiffInv, ReadOrNamed, Reviewed, Adds, Notice
<1>2. PromptFits'
  BY DEF DiffInv, PromptFits, Reviewed, Unlimited
<1> QED BY <1>1, <1>2 DEF DiffInv

LEMMA ImproveStep ==
  ASSUME DiffInv, Improve
  PROVE  DiffInv'
<1>1. /\ UNCHANGED <<pr, cfg, listed, review>> /\ pc' = "asking"
      /\ chunks' = MultiDiffs(listed)
      /\ preds' = [i \in DOMAIN chunks' |-> Null]
      /\ answers' = [i \in DOMAIN chunks' |-> "unusable"]
  BY DEF Improve
<1>2. PICK n \in Nat \ {0} : DOMAIN chunks' = 1..n
  BY <1>1, MultiDiffsSequence DEF DiffInv
<1>3. Asked'
  <2>1. /\ DOMAIN answers' = 1..n
        /\ preds' = [i \in 1..n |-> preds'[i]]
        /\ \A i \in 1..n : preds'[i] = Null
    BY <1>1, <1>2
  <2> QED BY <1>2, <2>1 DEF Asked
<1> QED BY <1>1, <1>3, ReviewKept DEF DiffInv, SuggestionsComplete

LEMMA callChunkStep ==
  ASSUME DiffInv, NEW i \in DOMAIN preds, callChunk(i)
  PROVE  DiffInv'
<1>1. /\ UNCHANGED <<pr, cfg, listed, review, chunks>>
      /\ pc = "asking" /\ pc' \in {"asking", "failed"}
  BY DEF callChunk, diffs
<1>2. PICK body \in Bodies :
        /\ answers' = [answers EXCEPT ![i] = body]
        /\ preds' = [preds EXCEPT ![i] = parseSuggestionsYaml(body, i)]
  BY DEF callChunk
<1>3. PICK n \in Nat \ {0} :
        /\ DOMAIN chunks = 1..n /\ DOMAIN answers = 1..n
        /\ preds = [j \in 1..n |-> preds[j]]
        /\ \A j \in 1..n :
             \/ preds[j] = Null
             \/ /\ answers[j] \in Bodies \ {"unusable"}
                /\ preds[j] = parseSuggestionsYaml(answers[j], j)
  BY <1>1 DEF DiffInv, Asked
<1>4. i \in 1..n
  BY <1>3
<1>5. DOMAIN chunks' = 1..n /\ DOMAIN answers' = 1..n /\ preds' = [j \in 1..n |-> preds'[j]]
  BY <1>1, <1>2, <1>3
<1>6. ASSUME NEW j \in 1..n
      PROVE  \/ preds'[j] = Null
             \/ /\ answers'[j] \in Bodies \ {"unusable"}
                /\ preds'[j] = parseSuggestionsYaml(answers'[j], j)
  <2>1. CASE j = i
    <3>1. answers'[j] = body /\ preds'[j] = parseSuggestionsYaml(body, j)
      BY <1>2, <1>3, <1>4, <2>1
    <3>2. body = "unusable" => preds'[j] = Null
      BY <3>1 DEF parseSuggestionsYaml
    <3> QED BY <3>1, <3>2
  <2>2. CASE j # i
    <3>1. answers'[j] = answers[j] /\ preds'[j] = preds[j]
      BY <1>2, <1>3, <2>2
    <3> QED BY <1>3, <3>1
  <2> QED BY <2>1, <2>2
<1>7. Asked'
  BY <1>5, <1>6 DEF Asked
<1> QED BY <1>1, <1>7, ReviewKept DEF DiffInv, SuggestionsComplete

LEMMA PublishedStep ==
  ASSUME DiffInv, Published
  PROVE  DiffInv'
<1> DEFINE merged == FlattenSeq(preds)
           I == {k \in DOMAIN merged : merged[k].scored}
<1>1. /\ UNCHANGED <<pr, cfg, listed, review, chunks, preds, answers>>
      /\ pc = "asking" /\ pc' = "published"
      /\ \A i \in DOMAIN preds : preds[i] # Null
      /\ data' = Pick(merged, I)
  BY DEF Published, diffs
<1>2. PICK n \in Nat \ {0} :
        /\ DOMAIN chunks = 1..n /\ DOMAIN answers = 1..n
        /\ preds = [j \in 1..n |-> preds[j]]
        /\ \A j \in 1..n :
             \/ preds[j] = Null
             \/ /\ answers[j] \in Bodies \ {"unusable"}
                /\ preds[j] = parseSuggestionsYaml(answers[j], j)
  BY <1>1 DEF DiffInv, Asked
<1>3. DOMAIN preds = 1..n /\ Len(preds) = n
  BY <1>2
<1>4. ASSUME NEW i \in 1..n
      PROVE  /\ answers[i] \in Bodies \ {"unusable"}
             /\ preds[i] = parseSuggestionsYaml(answers[i], i)
             /\ preds[i] \in Seq(Suggestion)
             /\ \A k \in DOMAIN preds[i] : preds[i][k].chunk = i
             /\ answers[i] = "scored" => 1 \in DOMAIN preds[i] /\ preds[i][1].scored
  <2>1. answers[i] \in Bodies \ {"unusable"} /\ preds[i] = parseSuggestionsYaml(answers[i], i)
    BY <1>1, <1>2, <1>3
  <2> DEFINE scored == answers[i] = "scored"
             x == [chunk |-> i, scored |-> scored]
  <2>2. x \in Suggestion /\ x.chunk = i /\ (answers[i] = "scored" => x.scored)
    <3>1. scored \in BOOLEAN /\ (answers[i] = "scored" => scored)
      OBVIOUS
    <3> HIDE DEF scored
    <3>2. x.chunk = i /\ x.scored = scored /\ i \in Nat
      OBVIOUS
    <3>3. x \in Suggestion
      BY <3>1, <3>2 DEF Suggestion
    <3> QED BY <3>1, <3>2, <3>3
  <2>3. (preds[i] = <<>> /\ answers[i] # "scored") \/ preds[i] = <<x>>
    BY <2>1 DEF parseSuggestionsYaml, Bodies
  <2> HIDE DEF x
  <2>4. <<>> \in Seq(Suggestion) /\ <<x>> \in Seq(Suggestion)
    BY <2>2
  <2>5. DOMAIN <<>> = {} /\ DOMAIN <<x>> = {1} /\ <<x>>[1] = x
    OBVIOUS
  <2> QED BY <2>1, <2>2, <2>3, <2>4, <2>5
<1>5. /\ merged \in Seq(Suggestion)
      /\ \A i \in 1..n : \A j \in DOMAIN preds[i] :
           \E k \in DOMAIN merged : merged[k] = preds[i][j]
      /\ \A k, l \in DOMAIN merged : k <= l => merged[k].chunk <= merged[l].chunk
  <2>1. \A i \in 1..n : /\ preds[i] \in Seq(Suggestion)
                        /\ \A k \in DOMAIN preds[i] : preds[i][k].chunk = i
    BY <1>4
  <2>2. Lists(preds, n)
    BY <1>3, <2>1 DEF Lists
  <2>3. Merged(FlattenSeq(preds), preds, n)
    BY <2>2, MergedProperties
  <2> QED BY <2>3 DEF Merged
<1> HIDE DEF merged
<1>6. I \in SUBSET DOMAIN merged
  OBVIOUS
<1> DEFINE picked == Pick(merged, I)
<1>7. /\ \A k \in I : \E l \in DOMAIN picked : picked[l] = merged[k]
      /\ \A k \in DOMAIN picked : Nth(I, k) \in I /\ picked[k] = merged[Nth(I, k)]
      /\ \A k, l \in DOMAIN picked : k <= l => Nth(I, k) <= Nth(I, l)
  <2>1. merged \in Seq(Suggestion)
    BY <1>5
  <2> HIDE DEF I
  <2> QED BY <1>6, <2>1, PickProperties, Zenon
<1> HIDE DEF picked
<1>8. ASSUME NEW i \in 1..n, answers[i] = "scored"
      PROVE  \E k \in DOMAIN picked : picked[k].chunk = i
  <2>1. 1 \in DOMAIN preds[i] /\ preds[i][1].scored /\ preds[i][1].chunk = i
    BY <1>4, <1>8
  <2>2. PICK k \in DOMAIN merged : merged[k] = preds[i][1]
    BY <1>5, <2>1
  <2>3. PICK l \in DOMAIN picked : picked[l] = merged[k]
    BY <1>7, <2>1, <2>2
  <2> QED BY <2>1, <2>2, <2>3
<1>9. ASSUME NEW k \in DOMAIN picked, NEW l \in DOMAIN picked, k <= l
      PROVE  picked[k].chunk <= picked[l].chunk
  BY <1>5, <1>6, <1>7, <1>9
<1>10. SuggestionsComplete'
  <2>1. data' = picked
    BY <1>1 DEF picked
  <2>2. DOMAIN chunks' = 1..n /\ answers' = answers
    BY <1>1, <1>2
  <2>3. \A i \in 1..n : answers[i] # "unusable"
    BY <1>4
  <2> HIDE DEF I
  <2> QED BY <1>8, <1>9, <2>1, <2>2, <2>3 DEF SuggestionsComplete
<1> QED BY <1>1, <1>10, ReviewKept DEF DiffInv

LEMMA DiffStep == DiffInv /\ [DiffNext]_diffVars => DiffInv'
<1> SUFFICES ASSUME DiffInv, [DiffNext]_diffVars PROVE DiffInv'
  OBVIOUS
<1>1. CASE ListFiles
  BY <1>1, ListFilesStep
<1>2. CASE Review
  BY <1>2, ReviewStep
<1>3. CASE Improve
  BY <1>3, ImproveStep
<1>4. ASSUME NEW i \in DOMAIN preds, callChunk(i) PROVE DiffInv'
  BY <1>4, callChunkStep
<1>5. CASE Published
  BY <1>5, PublishedStep
<1>6. CASE UNCHANGED diffVars
  <2>1. UNCHANGED <<pr, cfg, listed, review, pc, chunks, preds, answers, data>>
    BY <1>6 DEF diffVars, diffs, calls
  <2>2. ReadOrNamed' /\ PromptFits'
    BY <2>1 DEF DiffInv, ReadOrNamed, PromptFits, Reviewed, Unlimited, Adds
  <2>3. Asked => Asked'
    BY <2>1 DEF Asked
  <2>4. SuggestionsComplete'
    BY <2>1 DEF DiffInv, SuggestionsComplete
  <2> QED BY <2>1, <2>2, <2>3, <2>4 DEF DiffInv
<1> QED BY <1>1, <1>2, <1>3, <1>4, <1>5, <1>6 DEF DiffNext

LEMMA DiffInvariant == DiffSpec => []DiffInv
<1> QED BY DiffInitially, DiffStep, PTL DEF DiffSpec

\* A listed file with new lines is in the prompt of the review, or named in the
\* notice of its comment or among those the notice only counts beyond the names it
\* lists, for every pull request and every threshold (budget.ts generateFullPatch,
\* getPrDiff).
THEOREM ReadOrNamedTheorem == DiffSpec => []ReadOrNamed
<1>1. DiffInv => ReadOrNamed
  BY DEF DiffInv
<1> QED BY <1>1, DiffInvariant, PTL

\* The prompt of a review fits the window of its model, for every pull request
\* and all thresholds that limit it (budget.ts getPrDiff).
THEOREM PromptFitsTheorem == DiffSpec => []PromptFits
<1>1. DiffInv => PromptFits
  BY DEF DiffInv
<1> QED BY <1>1, DiffInvariant, PTL

\* The comment of the improve tool has what the model answered for every chunk,
\* in their order, however many there are (improve.ts).
THEOREM SuggestionsCompleteTheorem == DiffSpec => []SuggestionsComplete
<1>1. DiffInv => SuggestionsComplete
  BY DEF DiffInv
<1> QED BY <1>1, DiffInvariant, PTL

----------------------------------------------------------------------------
(* Places counted, and increasing sequences of them.                          *)

CountTo(T, x) == Cardinality({j \in T : j <= x})

LEMMA CountFacts ==
  ASSUME NEW n \in Nat, NEW T \in SUBSET (1..n)
  PROVE  /\ IsFiniteSet(T) /\ Cardinality(T) \in Nat
         /\ \A x \in Int : CountTo(T, x) \in 0..Cardinality(T)
         /\ \A x, y \in Int : x <= y => CountTo(T, x) <= CountTo(T, y)
         /\ \A x \in Int, y \in T : x < y => CountTo(T, x) < CountTo(T, y)
         /\ CountTo(T, 0) = 0
         /\ \A x \in Int : x >= n => CountTo(T, x) = Cardinality(T)
<1>1. IsFiniteSet(T) /\ Cardinality(T) \in Nat
  <2>1. IsFiniteSet(1..n)
    BY FS_Interval
  <2> QED BY <2>1, FS_Subset, FS_CardinalityType
<1> DEFINE S(x) == {j \in T : j <= x}
<1>2. \A x : S(x) \in SUBSET T
  OBVIOUS
<1>3. \A x : IsFiniteSet(S(x)) /\ Cardinality(S(x)) \in Nat /\ Cardinality(S(x)) <= Cardinality(T)
  BY <1>1, <1>2, FS_Subset, FS_CardinalityType
<1>4. ASSUME NEW x \in Int, NEW y \in Int, x <= y
      PROVE  S(x) \in SUBSET S(y) /\ Cardinality(S(x)) <= Cardinality(S(y))
  <2>1. S(x) \in SUBSET S(y)
    <3>1. \A j \in T : j \in Int
      OBVIOUS
    <3>2. \A j \in T : j <= x => j <= y
      BY <1>4, <3>1
    <3> QED BY <3>2
  <2> HIDE DEF S
  <2> QED BY <1>3, <2>1, FS_Subset
<1>5. ASSUME NEW x \in Int, NEW y \in T, x < y
      PROVE  Cardinality(S(x)) < Cardinality(S(y))
  <2>1. y \in Int /\ x <= y
    BY <1>5
  <2>2. y \in S(y) /\ y \notin S(x)
    BY <1>5, <2>1
  <2> HIDE DEF S
  <2>3. S(x) \in SUBSET S(y) /\ S(x) # S(y)
    BY <1>4, <2>1, <2>2
  <2>4. Cardinality(S(x)) <= Cardinality(S(y)) /\ Cardinality(S(x)) # Cardinality(S(y))
    BY <1>3, <2>3, FS_Subset
  <2>5. Cardinality(S(x)) \in Nat /\ Cardinality(S(y)) \in Nat
    BY <1>3
  <2> QED BY <2>4, <2>5
<1>6. Cardinality(S(0)) = 0
  <2>0. \A j \in T : ~(j <= 0)
    OBVIOUS
  <2>1. S(0) = {}
    BY <2>0
  <2> QED BY <2>1, FS_EmptySet
<1>7. ASSUME NEW x \in Int, x >= n PROVE Cardinality(S(x)) = Cardinality(T)
  <2>0. \A j \in T : j \in 1..n
    OBVIOUS
  <2>2. \A j \in T : j <= x
    BY <1>7, <2>0
  <2>1. S(x) = T
    BY <2>2
  <2> QED BY <2>1
<1>8. \A x : CountTo(T, x) = Cardinality(S(x))
  BY DEF CountTo
<1> HIDE DEF S
<1> QED BY <1>1, <1>3, <1>4, <1>5, <1>6, <1>7, <1>8

\* Between two places there are as many as the counts differ.
LEMMA CountSum ==
  ASSUME NEW n \in Nat, NEW T \in SUBSET (1..n), NEW x \in Int, NEW y \in Int, x <= y,
         NEW B \in SUBSET T, \A j \in T : j \in B <=> x < j /\ j <= y
  PROVE  CountTo(T, y) = CountTo(T, x) + Cardinality(B)
<1> DEFINE A == {j \in T : j <= x}
           C == {j \in T : j <= y}
<1>1. \A j \in T : j \in Int
  OBVIOUS
<1>2. C = A \cup B /\ A \cap B = {} /\ A \in SUBSET T /\ B \in SUBSET T
  <2>1. \A j \in T : /\ j \in B => ~(j <= x) /\ j <= y
                     /\ j <= x => j <= y
                     /\ j <= y => j <= x \/ j \in B
    BY <1>1
  <2> QED BY <2>1
<1>3. IsFiniteSet(T)
  BY CountFacts
<1> HIDE DEF A, C
<1>4. IsFiniteSet(A) /\ IsFiniteSet(B)
  BY <1>2, <1>3, FS_Subset
<1>5. Cardinality(C) = Cardinality(A) + Cardinality(B) - Cardinality(A \cap B)
  BY <1>2, <1>4, FS_Union
<1>6. Cardinality(A \cap B) = 0
  BY <1>2, FS_EmptySet
<1>7. Cardinality(A) \in Nat /\ Cardinality(B) \in Nat
  BY <1>4, FS_CardinalityType
<1>8. Cardinality(C) = Cardinality(A) + Cardinality(B)
  BY <1>5, <1>6, <1>7
<1> QED BY <1>8 DEF A, C, CountTo

Increasing(q, n) ==
  /\ q \in Seq(1..n)
  /\ \A k, l \in DOMAIN q : k < l => q[k] < q[l]

\* A place in order is the one with that many up to it.
LEMMA OrderedAt ==
  ASSUME NEW n \in Nat, NEW T \in SUBSET (1..n)
  PROVE  /\ Increasing(Ordered(T), n)
         /\ Len(Ordered(T)) = Cardinality(T) /\ DOMAIN Ordered(T) = 1..Cardinality(T)
         /\ \A k \in 1..Cardinality(T) :
              Ordered(T)[k] \in T /\ CountTo(T, Ordered(T)[k]) = k
         /\ \A x \in T :
              CountTo(T, x) \in 1..Cardinality(T) /\ Ordered(T)[CountTo(T, x)] = x
<1> DEFINE c == Cardinality(T)
           rank == [x \in T |-> CountTo(T, x)]
<1>0. \A x \in T : x \in Int
  OBVIOUS
<1>1. /\ IsFiniteSet(T) /\ c \in Nat /\ CountTo(T, 0) = 0
      /\ \A x \in Int : CountTo(T, x) \in 0..c
      /\ \A x \in Int, y \in T : x < y => CountTo(T, x) < CountTo(T, y)
  BY CountFacts
<1> HIDE DEF c
<1>2. \A x \in T : CountTo(T, x) \in 1..c
  <2> SUFFICES ASSUME NEW x \in T PROVE CountTo(T, x) \in 1..c
    OBVIOUS
  <2>1. CountTo(T, 0) < CountTo(T, x)
    <3>1. 0 < x /\ 0 \in Int
      OBVIOUS
    <3> QED BY <1>1, <3>1
  <2>2. CountTo(T, x) \in 0..c
    BY <1>0, <1>1
  <2> QED BY <1>1, <2>1, <2>2
<1>3. \A x, y \in T : CountTo(T, x) = CountTo(T, y) => x = y
  <2> SUFFICES ASSUME NEW x \in T, NEW y \in T, CountTo(T, x) = CountTo(T, y) PROVE x = y
    OBVIOUS
  <2>1. ~(CountTo(T, x) < CountTo(T, y)) /\ ~(CountTo(T, y) < CountTo(T, x))
    BY <1>1, <1>2
  <2>2. ~(x < y) /\ ~(y < x)
    BY <1>0, <1>1, <2>1
  <2> QED BY <1>0, <2>2
<1>4. \A k \in 1..c : \E x \in T : CountTo(T, x) = k
  <2>1. rank \in Injection(T, 1..c)
    BY <1>2, <1>3 DEF Injection, IsInjective
  <2>2. IsFiniteSet(1..c) /\ Cardinality(1..c) = c
    BY <1>1, FS_Interval
  <2>3. rank \in Surjection(T, 1..c)
    <3> HIDE DEF rank
    <3>1. Cardinality(T) = Cardinality(1..c)
      BY <2>2 DEF c
    <3> QED BY <2>1, <2>2, <3>1, FS_Injection
  <2> QED BY <2>3 DEF Surjection
<1>5. Ordered(T) = [k \in 1..c |-> CHOOSE x \in T : CountTo(T, x) = k]
  BY DEF Ordered, Nth, CountTo, c
<1>6. \A k \in 1..c : Ordered(T)[k] \in T /\ CountTo(T, Ordered(T)[k]) = k
  BY <1>4, <1>5
<1>7. \A x \in T : Ordered(T)[CountTo(T, x)] = x
  BY <1>2, <1>3, <1>6
<1>8. Ordered(T) \in Seq(1..n) /\ Len(Ordered(T)) = c /\ DOMAIN Ordered(T) = 1..c
  <2>1. Ordered(T) \in [1..c -> 1..n]
    BY <1>5, <1>6
  <2> QED BY <1>1, <2>1
<1>9. ASSUME NEW k \in 1..c, NEW l \in 1..c, k < l
      PROVE  Ordered(T)[k] < Ordered(T)[l]
  <2> DEFINE x == Ordered(T)[k]
             y == Ordered(T)[l]
  <2>1. x \in T /\ y \in T /\ CountTo(T, x) = k /\ CountTo(T, y) = l
    BY <1>6
  <2> HIDE DEF x, y
  <2>2. ~(l < k) /\ k # l
    BY <1>9
  <2>3. ~(y < x) /\ x # y
    BY <1>0, <1>1, <2>1, <2>2
  <2>4. x < y
    BY <1>0, <2>1, <2>3
  <2> QED BY <2>4 DEF x, y
<1> QED BY <1>2, <1>6, <1>7, <1>8, <1>9 DEF c, Increasing

LEMMA OrderedNone == Ordered({}) = <<>>
<1>1. 1..Cardinality({}) = {}
  BY FS_EmptySet
<1>2. Ordered({}) = [k \in {} |-> Nth({}, k)]
  BY <1>1 DEF Ordered
<1> QED BY <1>2

\* The k-th element of an increasing sequence is the k-th of its elements.
LEMMA IncreasingCount ==
  ASSUME NEW n \in Nat, NEW q, Increasing(q, n)
  PROVE  /\ Range(q) \in SUBSET (1..n)
         /\ \A k \in DOMAIN q : CountTo(Range(q), q[k]) = k
<1>1. q \in Seq(1..n) /\ Len(q) \in Nat /\ DOMAIN q = 1..Len(q)
  BY DEF Increasing
<1>2. \A k \in DOMAIN q : q[k] \in 1..n /\ q[k] \in Int
  BY <1>1
<1>3. Range(q) \in SUBSET (1..n)
  BY <1>2 DEF Range
<1>4. ASSUME NEW k \in DOMAIN q PROVE CountTo(Range(q), q[k]) = k
  <2> DEFINE I == {j \in Range(q) : j <= q[k]}
             g == [i \in 1..k |-> q[i]]
  <2>0. k \in Nat /\ k <= Len(q) /\ 1..k \subseteq DOMAIN q
    BY <1>1
  <2>1. \A i, j \in DOMAIN q : q[i] = q[j] => i = j
    <3> SUFFICES ASSUME NEW i \in DOMAIN q, NEW j \in DOMAIN q, q[i] = q[j] PROVE i = j
      OBVIOUS
    <3>1. ~(q[i] < q[j]) /\ ~(q[j] < q[i])
      BY <1>2
    <3>2. ~(i < j) /\ ~(j < i)
      BY <3>1 DEF Increasing
    <3> QED BY <1>1, <3>2
  <2>2. \A i \in DOMAIN q : q[i] <= q[k] <=> i \in 1..k
    <3> SUFFICES ASSUME NEW i \in DOMAIN q PROVE q[i] <= q[k] <=> i \in 1..k
      OBVIOUS
    <3>1. i < k => q[i] < q[k]
      BY DEF Increasing
    <3>2. k < i => q[k] < q[i]
      BY DEF Increasing
    <3>3. i \in Nat /\ i >= 1
      BY <1>1
    <3>4. q[i] \in Int /\ q[k] \in Int
      BY <1>2
    <3>5. i = k => q[i] = q[k]
      OBVIOUS
    <3> QED BY <2>0, <3>1, <3>2, <3>3, <3>4, <3>5
  <2>3. I = {q[i] : i \in 1..k}
    BY <2>0, <2>2 DEF Range
  <2>4. g \in Bijection(1..k, I)
    <3>1. g \in [1..k -> I]
      BY <2>3
    <3>2. \A y \in I : \E i \in 1..k : g[i] = y
      BY <2>3
    <3>3. \A i, j \in 1..k : g[i] = g[j] => i = j
      BY <2>0, <2>1
    <3> HIDE DEF g, I
    <3> QED BY <3>1, <3>2, <3>3 DEF Bijection, Injection, Surjection, IsInjective
  <2>5. IsFiniteSet(1..k) /\ Cardinality(1..k) = k
    <3>1. 1 \in Int /\ k \in Int /\ k >= 1
      BY <1>1
    <3>2. Cardinality(1..k) = IF 1 > k THEN 0 ELSE k - 1 + 1
      BY <3>1, FS_Interval
    <3> QED BY <3>1, <3>2, FS_Interval
  <2>6. Cardinality(I) = k
    <3> HIDE DEF g, I
    <3> QED BY <2>4, <2>5, FS_Bijection DEF ExistsBijection
  <2> QED BY <2>6 DEF CountTo
<1> QED BY <1>3, <1>4

\* Increasing sequences of the same elements are the same.
LEMMA SameIncreasing ==
  ASSUME NEW n \in Nat, NEW q, NEW r, Increasing(q, n), Increasing(r, n), Range(q) = Range(r)
  PROVE  q = r
<1>1. /\ \A k \in DOMAIN q : CountTo(Range(q), q[k]) = k
      /\ \A k \in DOMAIN r : CountTo(Range(q), r[k]) = k
  BY IncreasingCount
<1>2. \A k \in DOMAIN q : k \in DOMAIN r /\ q[k] = r[k]
  <2> SUFFICES ASSUME NEW k \in DOMAIN q PROVE k \in DOMAIN r /\ q[k] = r[k]
    OBVIOUS
  <2>1. PICK l \in DOMAIN r : r[l] = q[k]
    BY DEF Range
  <2> QED BY <1>1, <2>1
<1>3. \A k \in DOMAIN r : k \in DOMAIN q
  <2> SUFFICES ASSUME NEW k \in DOMAIN r PROVE k \in DOMAIN q
    OBVIOUS
  <2>1. PICK l \in DOMAIN q : r[k] = q[l]
    BY DEF Range
  <2> QED BY <1>1, <2>1
<1>4. DOMAIN q = DOMAIN r
  BY <1>2, <1>3
<1>5. q = [k \in DOMAIN q |-> q[k]] /\ r = [k \in DOMAIN r |-> r[k]]
  <2>1. q \in Seq(1..n) /\ r \in Seq(1..n)
    BY DEF Increasing
  <2> QED BY <2>1
<1> QED BY <1>2, <1>4, <1>5

\* What is picked of an increasing sequence is increasing.
LEMMA PickIncreasing ==
  ASSUME NEW n \in Nat, NEW q, Increasing(q, n), NEW I \in SUBSET DOMAIN q
  PROVE  Increasing(Pick(q, I), n) /\ Range(Pick(q, I)) = {q[i] : i \in I}
<1>1. q \in Seq(1..n) /\ Len(q) \in Nat /\ DOMAIN q = 1..Len(q)
  BY DEF Increasing
<1>2. /\ DOMAIN Ordered(I) = 1..Cardinality(I)
      /\ \A k, l \in DOMAIN Ordered(I) : k < l => Ordered(I)[k] < Ordered(I)[l]
      /\ \A k \in 1..Cardinality(I) : Ordered(I)[k] \in I
  BY <1>1, OrderedAt DEF Increasing
<1>3. \A k \in 1..Cardinality(I) : Nth(I, k) = Ordered(I)[k]
  BY DEF Ordered
<1>4. /\ Pick(q, I) \in Seq(1..n) /\ DOMAIN Pick(q, I) = 1..Cardinality(I)
      /\ \A i \in I : \E k \in DOMAIN Pick(q, I) : Pick(q, I)[k] = q[i]
      /\ \A k \in DOMAIN Pick(q, I) : Nth(I, k) \in I /\ Pick(q, I)[k] = q[Nth(I, k)]
  BY <1>1, PickProperties
<1>5. ASSUME NEW k \in DOMAIN Pick(q, I), NEW l \in DOMAIN Pick(q, I), k < l
      PROVE  Pick(q, I)[k] < Pick(q, I)[l]
  <2>1. Nth(I, k) < Nth(I, l) /\ Nth(I, k) \in DOMAIN q /\ Nth(I, l) \in DOMAIN q
    BY <1>2, <1>3, <1>4, <1>5
  <2>2. q[Nth(I, k)] < q[Nth(I, l)]
    BY <2>1 DEF Increasing
  <2> QED BY <1>4, <2>2
<1>6. Range(Pick(q, I)) = {q[i] : i \in I}
  BY <1>4 DEF Range
<1> QED BY <1>4, <1>5, <1>6 DEF Increasing

\* A part of the places in order has the places with those counts.
LEMMA PartIncreasing ==
  ASSUME NEW n \in Nat, NEW T \in SUBSET (1..n), NEW l \in Int, NEW m \in Int,
         1 <= l, m <= Cardinality(T)
  PROVE  LET r == SubSeq(Ordered(T), l, m)
         IN  /\ Increasing(r, n) /\ Len(r) = IF l <= m THEN m - l + 1 ELSE 0
             /\ Range(r) \subseteq T
             /\ \A x \in T : x \in Range(r) <=> CountTo(T, x) \in l..m
<1> DEFINE o == Ordered(T)
           c == Cardinality(T)
           r == SubSeq(o, l, m)
           z == IF l <= m THEN m - l + 1 ELSE 0
<1>1. /\ c \in Nat /\ o \in Seq(1..n) /\ DOMAIN o = 1..c
      /\ \A k, h \in DOMAIN o : k < h => o[k] < o[h]
      /\ \A k \in 1..c : o[k] \in T /\ CountTo(T, o[k]) = k
      /\ \A x \in T : CountTo(T, x) \in 1..c /\ o[CountTo(T, x)] = x
  BY CountFacts, OrderedAt DEF Increasing
<1>2. \A i \in l..m : i \in 1..c /\ o[i] \in 1..n
  <2>1. \A i \in l..m : i \in 1..c
    BY <1>1
  <2> HIDE DEF o, c
  <2>2. \A i \in 1..c : o[i] \in 1..n
    BY <1>1
  <2> QED BY <2>1, <2>2
<1> HIDE DEF c, o
<1>3. /\ r \in Seq(1..n) /\ Len(r) = z
      /\ \A i \in 1..(m - l + 1) : r[i] = o[l + i - 1]
  BY <1>2, SubSeqProperties
<1> HIDE DEF r
<1>4. DOMAIN r = 1..z /\ \A i \in 1..z : i \in 1..(m - l + 1) /\ l + i - 1 \in l..m
  BY <1>3
<1>5. ASSUME NEW i \in DOMAIN r, NEW j \in DOMAIN r, i < j PROVE r[i] < r[j]
  <2>0. l + i - 1 \in l..m /\ l + j - 1 \in l..m
    BY <1>4
  <2>1. l + i - 1 \in DOMAIN o /\ l + j - 1 \in DOMAIN o /\ l + i - 1 < l + j - 1
    <3>1. l + i - 1 < l + j - 1
      BY <1>4, <1>5
    <3> QED BY <1>1, <1>2, <2>0, <3>1
  <2>2. o[l + i - 1] < o[l + j - 1]
    BY <1>1, <2>1
  <2>3. r[i] = o[l + i - 1] /\ r[j] = o[l + j - 1]
    BY <1>3, <1>4
  <2> QED BY <2>2, <2>3
<1>6. ASSUME NEW i \in DOMAIN r PROVE r[i] \in T /\ CountTo(T, r[i]) \in l..m
  <2>1. l + i - 1 \in l..m /\ r[i] = o[l + i - 1]
    BY <1>3, <1>4
  <2>2. l + i - 1 \in 1..c
    BY <1>2, <2>1
  <2> QED BY <1>1, <2>1, <2>2
<1>7. ASSUME NEW x \in T, CountTo(T, x) \in l..m PROVE \E i \in DOMAIN r : r[i] = x
  <2> DEFINE i == CountTo(T, x) - l + 1
  <2>1. i \in 1..z /\ i \in 1..(m - l + 1) /\ l + i - 1 = CountTo(T, x)
    BY <1>7
  <2> HIDE DEF i
  <2>2. r[i] = o[CountTo(T, x)]
    BY <1>3, <2>1
  <2> QED BY <1>1, <1>4, <2>1, <2>2
<1>8. Range(r) \subseteq T /\ \A x \in T : x \in Range(r) <=> CountTo(T, x) \in l..m
  BY <1>6, <1>7 DEF Range
<1>9. r \in Seq(1..n) /\ Len(r) = z
  BY <1>3
<1> HIDE DEF z
<1>10. Increasing(r, n)
  BY <1>5, <1>9 DEF Increasing
<1> QED BY <1>8, <1>9, <1>10 DEF r, o, z

LEMMA ConcatIncreasing ==
  ASSUME NEW n \in Nat, NEW p, NEW q, Increasing(p, n), Increasing(q, n),
         \A x \in Range(p), y \in Range(q) : x < y
  PROVE  Increasing(p \o q, n) /\ Range(p \o q) = Range(p) \cup Range(q)
<1> DEFINE u == p \o q
           c == Len(p)
           d == Len(q)
           S == 1..n
<1>1. p \in Seq(S) /\ q \in Seq(S)
  BY DEF Increasing
<1>2. DOMAIN p = 1..c /\ DOMAIN q = 1..d
  <2> HIDE DEF S
  <2> QED BY <1>1
<1> HIDE DEF S
<1>3. u \in Seq(S) /\ Joined(u, p, q)
  BY <1>1, ConcatPlaces
<1> HIDE DEF u, c, d
<1>4. /\ c \in Nat /\ d \in Nat /\ DOMAIN u = 1..(c + d)
      /\ \A i \in 1..c : u[i] = p[i]
      /\ \A i \in 1..d : u[c + i] = q[i]
      /\ \A i \in 1..(c + d) : i \in 1..c \/ \E j \in 1..d : i = c + j
  BY <1>3 DEF Joined, c, d
<1>5. ASSUME NEW i \in DOMAIN u, NEW j \in DOMAIN u, i < j PROVE u[i] < u[j]
  <2>1. CASE i \in 1..c /\ j \in 1..c
    BY <1>2, <1>4, <1>5, <2>1 DEF Increasing
  <2>2. ASSUME i \in 1..c, NEW k \in 1..d, j = c + k PROVE u[i] < u[j]
    <3>1. p[i] \in Range(p) /\ q[k] \in Range(q)
      BY <1>2, <2>2 DEF Range
    <3> QED BY <1>4, <2>2, <3>1
  <2>3. ASSUME NEW h \in 1..d, NEW k \in 1..d, i = c + h, j = c + k PROVE u[i] < u[j]
    <3>1. h < k
      BY <1>4, <1>5, <2>3
    <3>2. q[h] < q[k]
      BY <1>2, <3>1 DEF Increasing
    <3> QED BY <1>4, <2>3, <3>2
  <2>4. ASSUME NEW h \in 1..d, i = c + h, j \in 1..c PROVE FALSE
    BY <1>4, <1>5, <2>4
  <2> QED BY <1>4, <2>1, <2>2, <2>3, <2>4
<1>6. \A x \in Range(u) : x \in Range(p) \cup Range(q)
  <2> SUFFICES ASSUME NEW i \in 1..(c + d) PROVE u[i] \in Range(p) \cup Range(q)
    BY <1>4 DEF Range
  <2>1. CASE i \in 1..c
    BY <1>2, <1>4, <2>1 DEF Range
  <2>2. ASSUME NEW j \in 1..d, i = c + j PROVE u[i] \in Range(p) \cup Range(q)
    BY <1>2, <1>4, <2>2 DEF Range
  <2> QED BY <1>4, <2>1, <2>2
<1>7. \A x \in Range(p) : x \in Range(u)
  <2>1. \A i \in 1..c : i \in 1..(c + d)
    BY <1>4
  <2> QED BY <1>2, <1>4, <2>1 DEF Range
<1>8. \A x \in Range(q) : x \in Range(u)
  <2>1. \A i \in 1..d : c + i \in 1..(c + d)
    BY <1>4
  <2> QED BY <1>2, <1>4, <2>1 DEF Range
<1>9. Range(u) = Range(p) \cup Range(q)
  BY <1>6, <1>7, <1>8
<1>10. Increasing(u, n)
  BY <1>3, <1>5 DEF Increasing, S
<1> QED BY <1>9, <1>10 DEF u

PartOf(lines, file, start) ==
  \/ lines = <<>>
  \/ /\ lines = SubSeq(file, start, start + Len(lines) - 1)
     /\ start \in Int /\ 1 <= start /\ start + Len(lines) - 1 <= Len(file)

\* Lines in order that have, of one of the files, the places from lo to hi and
\* no other, are a part of it, from the line with as many before it as lo has.
LEMMA SideIs ==
  ASSUME NEW n \in Nat, NEW s, DOMAIN s = 1..n, NEW mark, NEW q, Increasing(q, n),
         NEW T \in SUBSET (1..n), \A i \in 1..n : i \in T <=> s[i] # mark, NEW lo \in Int, NEW hi \in Int,
         \A x \in T : x \in Range(q) <=> lo <= x /\ x <= hi
  PROVE  PartOf(Unmarked(s, q, mark), Ordered(T), CountTo(T, lo - 1) + 1)
<1> DEFINE u == Unmarked(s, q, mark)
           start == CountTo(T, lo - 1) + 1
           e == CountTo(T, hi)
           r == SubSeq(Ordered(T), start, e)
           I == {k \in DOMAIN q : s[q[k]] # mark}
<1>0. T \in SUBSET (1..n) /\ \A x \in T : x \in Int
  OBVIOUS
<1>1. u = Pick(q, I) /\ I \in SUBSET DOMAIN q
  BY DEF Unmarked
<1>2. \A k \in DOMAIN q : q[k] \in 1..n
  BY DEF Increasing
<1>3. Increasing(u, n) /\ Range(u) = {q[i] : i \in I}
  <2> HIDE DEF u, I
  <2> QED BY <1>1, PickIncreasing
<1>4. Range(u) = {x \in T : lo <= x /\ x <= hi}
  <2>1. {q[i] : i \in I} = {x \in T : x \in Range(q)}
    BY <1>2 DEF Range
  <2> QED BY <1>3, <2>1
<1> HIDE DEF u
<1>5. /\ start \in Int /\ e \in Int /\ 1 <= start /\ e <= Cardinality(T)
      /\ \A x \in T : CountTo(T, x) \in start..e <=> lo <= x /\ x <= hi
  <2>1. /\ Cardinality(T) \in Nat
        /\ \A x \in Int : CountTo(T, x) \in 0..Cardinality(T)
        /\ \A x, y \in Int : x <= y => CountTo(T, x) <= CountTo(T, y)
        /\ \A x \in Int, y \in T : x < y => CountTo(T, x) < CountTo(T, y)
    BY <1>0, CountFacts
  <2>2. lo - 1 \in Int
    OBVIOUS
  <2>3. CountTo(T, lo - 1) \in 0..Cardinality(T) /\ CountTo(T, hi) \in 0..Cardinality(T)
    BY <2>1, <2>2
  <2> DEFINE before == CountTo(T, lo - 1)
  <2>6. before \in 0..Cardinality(T) /\ start = before + 1 /\ e \in 0..Cardinality(T)
    BY <2>3
  <2>7. Cardinality(T) \in Nat
    BY <2>1
  <2>8. /\ \A x \in T : x <= lo - 1 => CountTo(T, x) <= before
        /\ \A x \in T : x <= hi => CountTo(T, x) <= e
        /\ \A x \in T : lo - 1 < x => before < CountTo(T, x)
        /\ \A x \in T : hi < x => e < CountTo(T, x)
    BY <1>0, <2>1, <2>2
  <2> HIDE DEF before, start, e
  <2>4. ASSUME NEW x \in T
        PROVE  CountTo(T, x) \in start..e <=> lo <= x /\ x <= hi
    <3> DEFINE k == CountTo(T, x)
    <3>1. /\ x <= lo - 1 => k <= before
          /\ lo - 1 < x => before < k
          /\ x <= hi => k <= e
          /\ hi < x => e < k
      BY <2>8
    <3>2. x \in Int /\ k \in 0..Cardinality(T)
      BY <1>0, <2>1
    <3> HIDE DEF k
    <3>3. k \in start..e <=> lo <= x /\ x <= hi
      BY <2>6, <2>7, <3>1, <3>2
    <3> QED BY <3>3 DEF k
  <2>5. start \in Int /\ e \in Int /\ 1 <= start /\ e <= Cardinality(T)
    BY <2>1, <2>6
  <2> QED BY <2>4, <2>5
<1> HIDE DEF start, e
<1>6. /\ Increasing(r, n) /\ Len(r) = IF start <= e THEN e - start + 1 ELSE 0
      /\ Range(r) \subseteq T
      /\ \A x \in T : x \in Range(r) <=> CountTo(T, x) \in start..e
  <2>1. T \in SUBSET (1..n) /\ start \in Int /\ e \in Int /\ 1 <= start /\ e <= Cardinality(T)
    BY <1>0, <1>5
  <2> QED BY <2>1, PartIncreasing
<1>7. u = r
  <2> HIDE DEF r
  <2>1. Range(r) = Range(u)
    BY <1>4, <1>5, <1>6
  <2> QED BY <1>3, <1>6, <2>1, SameIncreasing
<1>8. u = <<>> \/ start + Len(u) - 1 = e
  <2> HIDE DEF r
  <2>1. Len(u) = 0 => u = <<>>
    <3> DEFINE S == 1..n
    <3>1. u \in Seq(S)
      BY <1>3 DEF Increasing
    <3> HIDE DEF S
    <3> QED BY <3>1
  <2> QED BY <1>5, <1>6, <1>7, <2>1
<1>9. Len(Ordered(T)) = Cardinality(T)
  BY <1>0, OrderedAt
<1>10. u = <<>> \/ start + Len(u) - 1 <= Len(Ordered(T))
  BY <1>5, <1>8, <1>9
<1> HIDE DEF r
<1>11. PartOf(u, Ordered(T), start)
  <2>1. u = <<>> \/ u = SubSeq(Ordered(T), start, start + Len(u) - 1)
    BY <1>7, <1>8 DEF r
  <2> QED BY <1>5, <1>10, <2>1 DEF PartOf
<1> QED BY <1>11 DEF u, start

----------------------------------------------------------------------------
(* The lines extendPatch takes from above a hunk.                             *)

\* A part of lines, even past their end, and a part of it.
LEMMA PartIs ==
  ASSUME NEW s, NEW m \in Int, NEW e \in Int
  PROVE  LET q == SubSeq(s, m, e)
             c == IF m <= e THEN e - m + 1 ELSE 0
         IN  Len(q) = c /\ DOMAIN q = 1..c /\ q = [i \in 1..c |-> s[m + i - 1]]
<1> DEFINE V == {s[x] : x \in Int}
           q == SubSeq(s, m, e)
           c == IF m <= e THEN e - m + 1 ELSE 0
<1>1. \A x \in m..e : s[x] \in V
  OBVIOUS
<1> HIDE DEF V
<1>2. /\ q \in Seq(V) /\ Len(q) = c
      /\ \A i \in 1..(e - m + 1) : q[i] = s[m + i - 1]
  BY <1>1, SubSeqProperties
<1> HIDE DEF q
<1>3. q = [i \in 1..Len(q) |-> q[i]] /\ DOMAIN q = 1..Len(q)
  BY <1>2
<1>4. \A i \in 1..c : i \in 1..(e - m + 1)
  OBVIOUS
<1> HIDE DEF c
<1>5. q = [i \in 1..c |-> s[m + i - 1]]
  BY <1>2, <1>3, <1>4
<1> QED BY <1>2, <1>3, <1>5 DEF q, c

LEMMA DropOfPart ==
  ASSUME NEW s, NEW m \in Int, NEW e \in Int, NEW k \in Nat, k <= Len(SubSeq(s, m, e))
  PROVE  Drop(SubSeq(s, m, e), k) = SubSeq(s, m + k, e)
<1> DEFINE q == SubSeq(s, m, e)
           c == IF m <= e THEN e - m + 1 ELSE 0
           r == SubSeq(s, m + k, e)
           d == IF m + k <= e THEN e - (m + k) + 1 ELSE 0
           f == SubSeq(q, k + 1, c)
           g == IF k + 1 <= c THEN c - (k + 1) + 1 ELSE 0
<1>1. Len(q) = c /\ q = [i \in 1..c |-> s[m + i - 1]]
  BY PartIs
<1>2. r = [i \in 1..d |-> s[m + k + i - 1]]
  <2>1. m + k \in Int
    OBVIOUS
  <2> QED BY <2>1, PartIs
<1>3. f = [i \in 1..g |-> q[k + 1 + i - 1]]
  <2>1. k + 1 \in Int /\ c \in Int
    OBVIOUS
  <2> HIDE DEF q, c
  <2> QED BY <2>1, PartIs
<1>4. g = d /\ \A i \in 1..d : k + 1 + i - 1 \in 1..c /\ m + (k + 1 + i - 1) - 1 = m + k + i - 1
  <2>1. k <= c
    BY <1>1
  <2> QED BY <2>1
<1>5. Drop(q, k) = f
  BY <1>1 DEF Drop
<1> HIDE DEF q, c, r, d, f, g
<1>6. \A i \in 1..d : q[k + 1 + i - 1] = s[m + k + i - 1]
  BY <1>1, <1>4
<1>7. f = r
  BY <1>2, <1>3, <1>4, <1>6
<1> QED BY <1>5, <1>7 DEF q, r

\* Limits that begin at the hunk or above it, in both files.
Fit(h, lim) ==
  /\ lim \in Lim
  /\ 1 <= lim.start1 /\ lim.start1 <= h.start1
  /\ 1 <= lim.start2 /\ lim.start2 <= h.start2

LEMMA LimitsFit ==
  ASSUME NEW h, HasPlaces(h), 1 <= h.start1, 1 <= h.start2, NEW base, Len(base) \in Nat,
         NEW before \in Nat, NEW after \in Nat
  PROVE  Fit(h, Limits(h, base, before, after))
<1>1. Limits(h, base, before, after) \in Lim
  BY LimitsType
<1>2. /\ Limits(h, base, before, after).start1 = Larger(1, h.start1 - before)
      /\ Limits(h, base, before, after).start2 = Larger(1, h.start2 - before)
  BY DEF Limits
<1>3. h.start1 \in Int /\ h.start2 \in Int
  BY DEF HasPlaces
<1>4. /\ 1 <= Larger(1, h.start1 - before) /\ Larger(1, h.start1 - before) <= h.start1
      /\ 1 <= Larger(1, h.start2 - before) /\ Larger(1, h.start2 - before) <= h.start2
  BY <1>3 DEF Larger
<1> QED BY <1>1, <1>2, <1>4 DEF Fit

Both(h, base, newFile, lim) == Above(h, base, lim) = AboveNew(h, newFile, lim)

\* Narrowed to where both files have the same lines, they still do.
LEMMA NarrowedFit ==
  ASSUME NEW h, HasPlaces(h), NEW base, NEW newFile, NEW lim, Fit(h, lim),
         NEW k \in Nat, k < Len(Above(h, base, lim)),
         Drop(Above(h, base, lim), k) = Drop(AboveNew(h, newFile, lim), k)
  PROVE  Fit(h, Narrowed(lim, k)) /\ Both(h, base, newFile, Narrowed(lim, k))
<1> DEFINE m1 == lim.start1
           m2 == lim.start2
           e1 == h.start1 - 1
           e2 == h.start2 - 1
           old == SubSeq(base, m1, e1)
           new == SubSeq(newFile, m2, e2)
           nar == Narrowed(lim, k)
<1>1. /\ m1 \in Int /\ m2 \in Int /\ e1 \in Int /\ e2 \in Int
      /\ 1 <= m1 /\ m1 <= e1 + 1 /\ 1 <= m2 /\ m2 <= e2 + 1
  BY DEF Fit, HasPlaces, Lim
<1>2. nar \in Lim /\ nar.start1 = m1 + k /\ nar.start2 = m2 + k
  BY NarrowedType DEF Fit, Narrowed
<1>3. Above(h, base, lim) = old /\ AboveNew(h, newFile, lim) = new
  BY DEF Above, AboveNew
<1>4. Above(h, base, nar) = SubSeq(base, m1 + k, e1) /\ AboveNew(h, newFile, nar) = SubSeq(newFile, m2 + k, e2)
  BY <1>2 DEF Above, AboveNew
<1>4a. h.start1 = e1 + 1 /\ h.start2 = e2 + 1
  BY DEF HasPlaces
<1> HIDE DEF m1, m2, e1, e2, nar
<1>5. /\ Len(old) = IF m1 <= e1 THEN e1 - m1 + 1 ELSE 0
      /\ Len(new) = IF m2 <= e2 THEN e2 - m2 + 1 ELSE 0
  BY <1>1, PartIs
<1>5a. \A c : c = Len(old) \/ c = Len(new) => c \in Int
  BY <1>1, <1>5
<1>5b. \A c \in Int : k < c => k <= c
  OBVIOUS
<1>6. Drop(old, k) = SubSeq(base, m1 + k, e1)
  <2>1. k < Len(old)
    BY <1>3
  <2> HIDE DEF old
  <2>2. k <= Len(old)
    BY <1>5a, <1>5b, <2>1
  <2> USE DEF old
  <2> QED BY <1>1, <2>2, DropOfPart
<1>7. Len(Drop(old, k)) = e1 - (m1 + k) + 1 /\ m1 + k <= e1
  <2>1. m1 + k <= e1
    BY <1>1, <1>3, <1>5
  <2>2. m1 + k \in Int
    BY <1>1
  <2>3. Len(SubSeq(base, m1 + k, e1)) = IF m1 + k <= e1 THEN e1 - (m1 + k) + 1 ELSE 0
    BY <1>1, <2>2, PartIs
  <2> QED BY <1>6, <2>1, <2>3
<1>8. k < Len(new)
  <2> SUFFICES ASSUME ~(k < Len(new)) PROVE FALSE
    OBVIOUS
  <2> HIDE DEF new
  <2>0. \A c \in Int : ~(k < c) => c <= k
    OBVIOUS
  <2>1. Len(new) \in Int /\ Len(new) <= k
    BY <1>5a, <2>0
  <2>2. k + 1 \in Int
    OBVIOUS
  <2>3. Len(Drop(new, k)) = IF k + 1 <= Len(new) THEN Len(new) - (k + 1) + 1 ELSE 0
    BY <2>1, <2>2, PartIs DEF Drop
  <2>4. Len(Drop(new, k)) = 0
    BY <2>1, <2>3
  <2>5. Len(Drop(old, k)) = 0
    BY <1>3, <2>4
  <2> QED BY <1>1, <1>7, <2>5
<1>9. Drop(new, k) = SubSeq(newFile, m2 + k, e2)
  <2>1. k <= Len(new)
    <3> HIDE DEF new
    <3> QED BY <1>5a, <1>5b, <1>8
  <2> QED BY <1>1, <2>1, DropOfPart
<1>10. m2 + k <= e2
  BY <1>1, <1>5, <1>8
<1>11. Both(h, base, newFile, nar)
  BY <1>3, <1>4, <1>6, <1>9 DEF Both
<1>12. 1 <= m1 + k /\ m1 + k <= e1 + 1 /\ 1 <= m2 + k /\ m2 + k <= e2 + 1
  BY <1>1, <1>7, <1>10
<1> QED BY <1>2, <1>4a, <1>11, <1>12 DEF Fit, nar

LEMMA ReachFit ==
  ASSUME NEW h, HasPlaces(h), 1 <= h.start1, 1 <= h.start2, NEW base, Len(base) \in Nat,
         NEW newFile, NEW section, NEW before \in Nat, NEW dynamic \in Nat, NEW after \in Nat
  PROVE  Fit(h, Reach(h, base, newFile, section, before, dynamic, after))
<1> DEFINE wide == Limits(h, base, dynamic, after)
           near == Limits(h, base, before, after)
           hits == {i \in DOMAIN Above(h, base, wide) : Above(h, base, wide)[i] = section}
           j == CHOOSE i \in hits : TRUE
           k == j - 1
<1>1. Fit(h, wide) /\ Fit(h, near)
  BY LimitsFit
<1> HIDE DEF wide, near
<1>2. /\ Len(Above(h, base, wide)) \in Nat
      /\ DOMAIN Above(h, base, wide) = 1..Len(Above(h, base, wide))
  <2>1. wide.start1 \in Int /\ h.start1 - 1 \in Int
    BY <1>1 DEF Fit, Lim, HasPlaces
  <2>2. PICK V : SubSeq(base, wide.start1, h.start1 - 1) \in Seq(V)
    BY <2>1, PartIsSequence
  <2> QED BY <2>2 DEF Above
<1>3. hits # {} => k \in Nat /\ k < Len(Above(h, base, wide))
  <2> SUFFICES ASSUME hits # {} PROVE k \in Nat /\ k < Len(Above(h, base, wide))
    OBVIOUS
  <2>1. j \in hits
    OBVIOUS
  <2>2. j \in 1..Len(Above(h, base, wide))
    BY <1>2, <2>1
  <2> HIDE DEF j
  <2> QED BY <1>2, <2>2
<1>4. Reach(h, base, newFile, section, before, dynamic, after) =
        IF newFile # <<>> /\ hits # {}
             /\ Drop(Above(h, base, wide), k) = Drop(AboveNew(h, newFile, wide), k)
          THEN Narrowed(wide, k) ELSE near
  BY DEF Reach, wide, near
<1> HIDE DEF k, hits
<1>5. hits # {} /\ Drop(Above(h, base, wide), k) = Drop(AboveNew(h, newFile, wide), k)
        => Fit(h, Narrowed(wide, k))
  BY <1>1, <1>3, NarrowedFit
<1> QED BY <1>1, <1>4, <1>5

\* The lines Agreed leaves above a hunk are those of both files.
LEMMA AgreedFit ==
  ASSUME NEW h, HasPlaces(h), 1 <= h.start1, 1 <= h.start2, NEW base, NEW newFile,
         newFile # <<>>, NEW lim, Fit(h, lim)
  PROVE  /\ Fit(h, Agreed(h, base, newFile, lim))
         /\ Both(h, base, newFile, Agreed(h, base, newFile, lim))
<1> DEFINE old == Above(h, base, lim)
           new == AboveNew(h, newFile, lim)
           ks == {k \in 0..(Len(old) - 1) : Drop(old, k) = Drop(new, k)}
           own == [start1 |-> h.start1, size1 |-> h.size1,
                   start2 |-> h.start2, size2 |-> h.size2]
           least == CHOOSE k \in ks : \A m \in ks : k <= m
<1>1. Fit(h, own) /\ Both(h, base, newFile, own)
  <2>1. own \in Lim
    BY DEF Lim, HasPlaces
  <2>2. h.start1 \in Int /\ h.start2 \in Int
    BY DEF HasPlaces
  <2>3. SubSeq(base, h.start1, h.start1 - 1) = <<>>
    BY <2>2, SubSeqEmpty
  <2>4. SubSeq(newFile, h.start2, h.start2 - 1) = <<>>
    BY <2>2, SubSeqEmpty
  <2>5. own.start1 = h.start1 /\ own.start2 = h.start2
    OBVIOUS
  <2> HIDE DEF own
  <2>6. Both(h, base, newFile, own)
    BY <2>3, <2>4, <2>5 DEF Both, Above, AboveNew
  <2>7. Fit(h, own)
    BY <2>1, <2>2, <2>5 DEF Fit
  <2> QED BY <2>6, <2>7
<1>2. Agreed(h, base, newFile, lim) =
        IF old = new THEN lim
        ELSE IF ks = {} THEN own ELSE Narrowed(lim, least)
  BY DEF Agreed
<1>3. old = new => Both(h, base, newFile, lim)
  BY DEF Both
<1>4. Len(old) \in Nat
  <2>1. lim.start1 \in Int /\ h.start1 - 1 \in Int
    BY DEF Fit, Lim, HasPlaces
  <2>2. PICK V : SubSeq(base, lim.start1, h.start1 - 1) \in Seq(V)
    BY <2>1, PartIsSequence
  <2> QED BY <2>2 DEF Above
<1> HIDE DEF own
<1>5. ks # {} => Fit(h, Narrowed(lim, least)) /\ Both(h, base, newFile, Narrowed(lim, least))
  <2> SUFFICES ASSUME ks # {}
               PROVE  Fit(h, Narrowed(lim, least)) /\ Both(h, base, newFile, Narrowed(lim, least))
    OBVIOUS
  <2>1. ks \subseteq Nat
    OBVIOUS
  <2>2. Min(ks) \in ks /\ \A m \in ks : Min(ks) <= m
    BY <2>1, MinIsMember
  <2>3. \E k \in ks : \A m \in ks : k <= m
    BY <2>2
  <2>4. least \in ks
    BY <2>3
  <2> HIDE DEF least
  <2>5. PICK k : k = least
    OBVIOUS
  <2>6. k \in 0..(Len(old) - 1) /\ Drop(old, k) = Drop(new, k)
    BY <2>4, <2>5
  <2>7. k \in Nat /\ k < Len(old)
    <3> HIDE DEF old
    <3> QED BY <1>4, <2>6
  <2>8. Fit(h, Narrowed(lim, k)) /\ Both(h, base, newFile, Narrowed(lim, k))
    BY <2>6, <2>7, NarrowedFit
  <2> QED BY <2>5, <2>8
<1> HIDE DEF ks, least
<1> QED BY <1>1, <1>2, <1>3, <1>5

----------------------------------------------------------------------------
(* Where a run of shown lines is in both files.                               *)

\* The lines of the file before ("+" the mark it has not) or after ("-").
SideOf(s, mark) == {i \in DOMAIN s : s[i] # mark}

RunOf(s, context, a, b) ==
  LET shown == ShownLines(s, context)
  IN a \in shown /\ b \in shown /\ a <= b /\ a..b \subseteq shown
       /\ a - 1 \notin shown /\ b + 1 \notin shown

LEMMA SidesAre ==
  ASSUME NEW s \in Script
  PROVE  /\ BaseFile(s) = Ordered(SideOf(s, "+")) /\ HeadFile(s) = Ordered(SideOf(s, "-"))
         /\ Len(s) \in Nat /\ DOMAIN s = 1..Len(s)
         /\ \A mark : SideOf(s, mark) \in SUBSET (1..Len(s))
         /\ \A i \in 1..Len(s) : s[i] \in {"=", "+", "-"}
         /\ \A mark : \A i \in 1..Len(s) : i \in SideOf(s, mark) <=> s[i] # mark
<1>1. Len(s) \in Nat /\ DOMAIN s = 1..Len(s) /\ \A i \in DOMAIN s : s[i] \in {"=", "+", "-"}
  BY DEF Script
<1>2. {i \in DOMAIN s : s[i] \in {"=", "-"}} = SideOf(s, "+")
  BY <1>1 DEF SideOf
<1>3. {i \in DOMAIN s : s[i] \in {"=", "+"}} = SideOf(s, "-")
  BY <1>1 DEF SideOf
<1>4. \A mark : SideOf(s, mark) \in SUBSET DOMAIN s
  BY DEF SideOf
<1>5. \A mark : \A i \in DOMAIN s : i \in SideOf(s, mark) <=> s[i] # mark
  BY DEF SideOf
<1> QED BY <1>1, <1>2, <1>3, <1>4, <1>5 DEF BaseFile, HeadFile, Places

\* Every hunk of a patch is a run of shown lines.
LEMMA PatchRuns ==
  ASSUME NEW s \in Script, NEW context \in Nat, NEW k \in DOMAIN Patch(s, context)
  PROVE  \E a, b \in 1..Len(s) :
           RunOf(s, context, a, b) /\ Patch(s, context)[k] = Hunk(s, a, b)
<1> DEFINE n == Len(s)
           shown == ShownLines(s, context)
           starts == Ordered(RunStarts(shown))
<1>1. n \in Nat /\ DOMAIN s = 1..n
  BY SidesAre
<1>2. shown \in SUBSET (1..n) /\ RunStarts(shown) \in SUBSET (1..n)
  BY <1>1 DEF ShownLines, RunStarts
<1>3. starts \in Seq(RunStarts(shown))
  BY <1>1, <1>2, OrderedProperties
<1>4. k \in DOMAIN starts /\ Patch(s, context)[k] = Hunk(s, starts[k], RunEnd(shown, starts[k]))
  BY DEF Patch
<1> HIDE DEF n, shown, starts
<1>5. starts[k] \in RunStarts(shown)
  <2> DEFINE S == RunStarts(shown)
  <2> HIDE DEF S
  <2>1. starts \in Seq(S)
    BY <1>3 DEF S
  <2>2. starts[k] \in S
    BY <1>4, <2>1
  <2> QED BY <2>2 DEF S
<1> DEFINE a == starts[k]
           b == RunEnd(shown, a)
<1>6. a \in shown /\ a - 1 \notin shown
  BY <1>5 DEF RunStarts
<1>7. b \in shown /\ a <= b /\ a..b \subseteq shown /\ b + 1 \notin shown
  <2> HIDE DEF a, b
  <2>1. \A x \in shown : LET y == RunEnd(shown, x)
                         IN y \in shown /\ x <= y /\ x..y \subseteq shown /\ y + 1 \notin shown
    BY <1>1, <1>2, RunEndIs
  <2> QED BY <1>6, <2>1 DEF b
<1>8. a \in 1..n /\ b \in 1..n
  BY <1>2, <1>6, <1>7
<1> HIDE DEF a, b
<1>9. RunOf(s, context, a, b)
  BY <1>6, <1>7 DEF RunOf, shown
<1>10. Patch(s, context)[k] = Hunk(s, a, b)
  BY <1>4 DEF a, b
<1> QED BY <1>8, <1>9, <1>10 DEF n

\* A run has a changed line, begins and ends with a kept one where the file goes
\* on, and the context after its end is kept too.
LEMMA RunFacts ==
  ASSUME NEW s \in Script, NEW context \in Nat, context > 0,
         NEW a \in 1..Len(s), NEW b \in 1..Len(s), RunOf(s, context, a, b)
  PROVE  /\ a <= b
         /\ \E j \in a..b : s[j] # "="
         /\ a > 1 => s[a] = "="
         /\ b < Len(s) => s[b] = "="
         /\ \A x \in (b + 1)..(b + context + 1) : x <= Len(s) => s[x] = "="
<1> DEFINE n == Len(s)
           shown == ShownLines(s, context)
<1>1. n \in Nat /\ DOMAIN s = 1..n
  BY SidesAre
<1>2. /\ a <= b /\ a \in shown
      /\ a - 1 \notin shown /\ b + 1 \notin shown
  BY DEF RunOf
<1>3. \A i \in 1..n : i \in shown <=> \E j \in 1..n : s[j] # "=" /\ j - i \in (-context)..context
  BY <1>1 DEF ShownLines
<1>4. \A i \in shown : i \in 1..n
  BY <1>1 DEF ShownLines
<1> HIDE DEF shown
<1>5. a \in 1..n /\ b \in 1..n
  OBVIOUS
<1> HIDE DEF n
<1>6. PICK j \in 1..n : s[j] # "=" /\ j - a \in (-context)..context
  BY <1>2, <1>3, <1>5
<1>7. \A i \in 1..n : j - i \in (-context)..context => i \in shown
  BY <1>3, <1>6
<1>8. j \in a..b
  <2>1. CASE j < a
    <3>1. a - 1 \in 1..n /\ j - (a - 1) \in (-context)..context
      BY <1>1, <1>5, <1>6, <2>1
    <3> QED BY <1>2, <1>7, <3>1
  <2>2. CASE b < j
    <3>1. b + 1 \in 1..n /\ j - (b + 1) \in (-context)..context
      BY <1>1, <1>2, <1>5, <1>6, <2>2
    <3> QED BY <1>2, <1>7, <3>1
  <2> QED BY <1>5, <2>1, <2>2
<1>9. ASSUME a > 1 PROVE s[a] = "="
  <2>1. a - 1 \in 1..n /\ a - (a - 1) \in (-context)..context
    BY <1>1, <1>5, <1>9
  <2> QED BY <1>2, <1>3, <1>5, <2>1
<1>10. ASSUME b < n PROVE s[b] = "="
  <2>1. b + 1 \in 1..n /\ b - (b + 1) \in (-context)..context
    BY <1>1, <1>5, <1>10
  <2> QED BY <1>2, <1>3, <1>5, <2>1
<1>11. ASSUME NEW x \in (b + 1)..(b + context + 1), x <= n PROVE s[x] = "="
  <2>1. b + 1 \in 1..n /\ x \in 1..n /\ x - (b + 1) \in (-context)..context
    BY <1>1, <1>5, <1>11
  <2> QED BY <1>2, <1>3, <2>1
<1> QED BY <1>2, <1>6, <1>8, <1>9, <1>10, <1>11 DEF n

\* A run has a line of a file that has any.
LEMMA RunHas ==
  ASSUME NEW s \in Script, NEW context \in Nat, context > 0,
         NEW a \in 1..Len(s), NEW b \in 1..Len(s), RunOf(s, context, a, b),
         NEW mark \in {"+", "-"}, NEW x \in SideOf(s, mark)
  PROVE  \E j \in a..b : j \in SideOf(s, mark)
<1>1. a <= b /\ (a > 1 => s[a] = "=") /\ (b < Len(s) => s[b] = "=")
  BY RunFacts
<1>2. /\ Len(s) \in Nat /\ SideOf(s, mark) \in SUBSET (1..Len(s))
      /\ \A i \in 1..Len(s) : i \in SideOf(s, mark) <=> s[i] # mark
  BY SidesAre
<1>3. a \in a..b /\ b \in a..b
  BY <1>1
<1>4. x \in 1..Len(s)
  BY <1>2
<1>5. CASE x \in a..b
  BY <1>5
<1>6. CASE x < a
  <2>1. a \in SideOf(s, mark)
    <3>1. a > 1
      BY <1>4, <1>6
    <3> QED BY <1>1, <1>2, <3>1
  <2> QED BY <1>3, <2>1
<1>7. CASE b < x
  <2>1. b \in SideOf(s, mark)
    <3>1. b < Len(s)
      BY <1>2, <1>4, <1>7
    <3> QED BY <1>1, <1>2, <3>1
  <2> QED BY <1>3, <2>1
<1> QED BY <1>4, <1>5, <1>6, <1>7

\* The header of a hunk counts the lines of each file.
LEMMA HunkPlaces ==
  ASSUME NEW s \in Script, NEW context \in Nat, context > 0,
         NEW a \in 1..Len(s), NEW b \in 1..Len(s), RunOf(s, context, a, b)
  PROVE  LET h == Hunk(s, a, b)
             old == SideOf(s, "+")
             new == SideOf(s, "-")
         IN  /\ old # {} => /\ h.start1 = CountTo(old, a - 1) + 1
                            /\ h.start1 + h.size1 = CountTo(old, b) + 1
             /\ new # {} => h.start2 = CountTo(new, a - 1) + 1
             /\ new = {} => h.start2 = 0
             /\ HasPlaces(h) /\ h.extra = {}
             /\ Increasing(h.lines, Len(s)) /\ Range(h.lines) = a..b
<1> DEFINE n == Len(s)
           h == Hunk(s, a, b)
           before(mark) == Cardinality({i \in 1..(a - 1) : s[i] # mark})
           size(mark) == Cardinality({i \in a..b : s[i] # mark})
           start(mark) == before(mark) + (IF size(mark) = 0 THEN 0 ELSE 1)
           lines == [k \in 1..(b - a + 1) |-> a + k - 1]
<1>1. h = [start1 |-> start("+"), size1 |-> size("+"),
           start2 |-> start("-"), size2 |-> size("-"), lines |-> lines, extra |-> {}]
  BY DEF Hunk
<1>2. a <= b /\ a \in 1..n /\ b \in 1..n /\ n \in Nat
  BY RunFacts, SidesAre
<1>3. ASSUME NEW mark \in {"+", "-"}
      PROVE  /\ before(mark) = CountTo(SideOf(s, mark), a - 1)
             /\ before(mark) \in Nat /\ size(mark) \in Nat
             /\ CountTo(SideOf(s, mark), b) = before(mark) + size(mark)
             /\ SideOf(s, mark) # {} => size(mark) # 0
             /\ SideOf(s, mark) = {} => before(mark) = 0 /\ size(mark) = 0
  <2> DEFINE T == SideOf(s, mark)
             B == {i \in a..b : s[i] # mark}
  <2>1. T \in SUBSET (1..n) /\ \A i \in 1..n : i \in T <=> s[i] # mark
    BY SidesAre
  <2>2. before(mark) = CountTo(T, a - 1)
    <3>1. \A i \in 1..n : i <= a - 1 <=> i \in 1..(a - 1)
      BY <1>2
    <3>2. \A i \in 1..(a - 1) : i \in 1..n
      BY <1>2
    <3>3. {i \in 1..(a - 1) : s[i] # mark} = {j \in T : j <= a - 1}
      <4> HIDE DEF T, n
      <4> QED BY <2>1, <3>1, <3>2
    <3> QED BY <3>3 DEF CountTo
  <2>3. B \in SUBSET T /\ \A j \in T : j \in B <=> a - 1 < j /\ j <= b
    <3>1. \A i \in a..b : i \in 1..n
      BY <1>2
    <3>2. \A i \in 1..n : i \in a..b <=> a - 1 < i /\ i <= b
      BY <1>2
    <3> HIDE DEF T, n
    <3> QED BY <2>1, <3>1, <3>2
  <2>4. CountTo(T, b) = CountTo(T, a - 1) + Cardinality(B)
    <3>1. a - 1 \in Int /\ b \in Int /\ a - 1 <= b
      BY <1>2
    <3> HIDE DEF T, B, n
    <3> QED BY <1>2, <2>1, <2>3, <3>1, CountSum
  <2>5. IsFiniteSet(B) /\ IsFiniteSet({i \in 1..(a - 1) : s[i] # mark})
    <3>1. IsFiniteSet(a..b) /\ IsFiniteSet(1..(a - 1))
      BY <1>2, FS_Interval
    <3>2. B \in SUBSET (a..b) /\ {i \in 1..(a - 1) : s[i] # mark} \in SUBSET (1..(a - 1))
      OBVIOUS
    <3> QED BY <3>1, <3>2, FS_Subset
  <2>6. before(mark) \in Nat /\ size(mark) \in Nat
    BY <2>5, FS_CardinalityType
  <2>7. T # {} => B # {}
    <3> SUFFICES ASSUME T # {} PROVE B # {}
      OBVIOUS
    <3>1. PICK x \in SideOf(s, mark) : TRUE
      OBVIOUS
    <3>2. \E j \in a..b : j \in SideOf(s, mark)
      BY <3>1, RunHas
    <3> QED BY <3>2 DEF SideOf
  <2>8. T # {} => size(mark) # 0
    <3> HIDE DEF T, B
    <3>1. Cardinality(B) = 0 => B = {}
      BY <2>5, FS_EmptySet
    <3> QED BY <2>7, <3>1 DEF B
  <2>9. size(mark) = Cardinality(B)
    OBVIOUS
  <2>10. T = {} => before(mark) = 0 /\ size(mark) = 0
    <3> SUFFICES ASSUME T = {} PROVE before(mark) = 0 /\ size(mark) = 0
      OBVIOUS
    <3>1. {i \in 1..(a - 1) : s[i] # mark} = {} /\ B = {}
      <4>1. \A i \in 1..n : ~(s[i] # mark)
        BY <2>1
      <4>2. (\A i \in 1..(a - 1) : i \in 1..n) /\ \A i \in a..b : i \in 1..n
        BY <1>2
      <4> HIDE DEF n, T
      <4> QED BY <4>1, <4>2
    <3> QED BY <3>1, FS_EmptySet
  <2> HIDE DEF before, size, B
  <2> QED BY <2>2, <2>4, <2>6, <2>8, <2>9, <2>10
<1>4. Increasing(lines, n) /\ Range(lines) = a..b
  <2>1. \A k \in 1..(b - a + 1) : a + k - 1 \in 1..n /\ a + k - 1 \in a..b
    BY <1>2
  <2>2. lines \in [1..(b - a + 1) -> 1..n] /\ b - a + 1 \in Nat
    BY <1>2, <2>1
  <2>3. \A i \in a..b : i - a + 1 \in 1..(b - a + 1) /\ a + (i - a + 1) - 1 = i
    BY <1>2
  <2>4. \A i \in a..b : lines[i - a + 1] = i /\ i - a + 1 \in DOMAIN lines
    BY <2>3
  <2>5. \A k, l \in 1..(b - a + 1) : k < l => lines[k] < lines[l]
    <3>1. \A k, l \in 1..(b - a + 1) : k < l => a + k - 1 < a + l - 1
      BY <1>2
    <3> QED BY <3>1
  <2>6. \A k \in DOMAIN lines : lines[k] \in a..b
    BY <2>1
  <2>7. DOMAIN lines = 1..(b - a + 1)
    OBVIOUS
  <2> HIDE DEF lines, n
  <2>8. lines \in Seq(1..n)
    <3> DEFINE d == b - a + 1
               S == 1..n
    <3>1. lines \in [1..d -> S] /\ d \in Nat
      BY <2>2
    <3> HIDE DEF d, S
    <3>2. lines \in Seq(S)
      BY <3>1
    <3> QED BY <3>2 DEF S
  <2>9. Range(lines) = a..b
    BY <2>4, <2>6 DEF Range
  <2> QED BY <2>5, <2>7, <2>8, <2>9 DEF Increasing
<1> HIDE DEF before, size, lines, n
<1>5. /\ h.start1 = before("+") + (IF size("+") = 0 THEN 0 ELSE 1) /\ h.size1 = size("+")
      /\ h.start2 = before("-") + (IF size("-") = 0 THEN 0 ELSE 1) /\ h.size2 = size("-")
      /\ h.lines = lines /\ h.extra = {}
  BY <1>1
<1>6. /\ before("+") \in Nat /\ size("+") \in Nat
      /\ before("-") \in Nat /\ size("-") \in Nat
  BY <1>3
<1> HIDE DEF h
<1>7. HasPlaces(h)
  BY <1>5, <1>6 DEF HasPlaces
<1>8. SideOf(s, "+") # {} => /\ h.start1 = CountTo(SideOf(s, "+"), a - 1) + 1
                             /\ h.start1 + h.size1 = CountTo(SideOf(s, "+"), b) + 1
  <2>1. /\ before("+") = CountTo(SideOf(s, "+"), a - 1)
        /\ CountTo(SideOf(s, "+"), b) = before("+") + size("+")
        /\ SideOf(s, "+") # {} => size("+") # 0
    BY <1>3
  <2> QED BY <1>5, <1>6, <2>1
<1>9. SideOf(s, "-") # {} => h.start2 = CountTo(SideOf(s, "-"), a - 1) + 1
  <2>1. /\ before("-") = CountTo(SideOf(s, "-"), a - 1)
        /\ SideOf(s, "-") # {} => size("-") # 0
    BY <1>3
  <2> QED BY <1>5, <1>6, <2>1
<1>10. SideOf(s, "-") = {} => h.start2 = 0
  <2>1. SideOf(s, "-") = {} => before("-") = 0 /\ size("-") = 0
    BY <1>3
  <2> QED BY <1>5, <2>1
<1> QED BY <1>4, <1>5, <1>7, <1>8, <1>9, <1>10 DEF h, n

----------------------------------------------------------------------------
(* What an extended hunk has of each file.                                    *)

\* The last lines of a file before a place are its lines from some place on.
LEMMA AboveIs ==
  ASSUME NEW n \in Nat, NEW T \in SUBSET (1..n), NEW a \in Int,
         NEW l \in Int, 1 <= l, l <= CountTo(T, a - 1) + 1
  PROVE  LET q == SubSeq(Ordered(T), l, CountTo(T, a - 1))
         IN  /\ Increasing(q, n) /\ Range(q) \subseteq T
             /\ \E lo \in Int : /\ lo <= a /\ CountTo(T, lo - 1) + 1 = l
                                /\ \A x \in T : x \in Range(q) <=> lo <= x /\ x < a
<1> DEFINE e == CountTo(T, a - 1)
           c == Cardinality(T)
           q == SubSeq(Ordered(T), l, e)
<1>1. \A x \in T : x \in Int
  OBVIOUS
<1>2. /\ c \in Nat /\ \A x \in Int : CountTo(T, x) \in 0..c
      /\ \A x, y \in Int : x <= y => CountTo(T, x) <= CountTo(T, y)
      /\ \A x \in Int, y \in T : x < y => CountTo(T, x) < CountTo(T, y)
  BY CountFacts
<1>3. e \in 0..c
  <2>1. a - 1 \in Int
    OBVIOUS
  <2> QED BY <1>2, <2>1
<1>4. /\ Increasing(q, n) /\ Range(q) \subseteq T
      /\ \A x \in T : x \in Range(q) <=> CountTo(T, x) \in l..e
  <2>1. e \in Int /\ e <= Cardinality(T)
    BY <1>2, <1>3
  <2> HIDE DEF e
  <2> QED BY <2>1, PartIncreasing
<1>5. \A x \in T : CountTo(T, x) <= e <=> x < a
  <2> SUFFICES ASSUME NEW x \in T PROVE CountTo(T, x) <= e <=> x < a
    OBVIOUS
  <2> DEFINE k == CountTo(T, x)
  <2>1. a - 1 \in Int /\ x \in Int
    BY <1>1
  <2>2. k \in 0..c /\ (x <= a - 1 => k <= e) /\ (a - 1 < x => e < k)
    BY <1>2, <2>1
  <2> HIDE DEF k, e
  <2>3. k <= e <=> x < a
    BY <1>2, <1>3, <2>1, <2>2
  <2> QED BY <2>3 DEF k
<1> HIDE DEF c
<1>6. CASE l = e + 1
  <2>1. \A x \in T : x \notin Range(q)
    <3> HIDE DEF e, q
    <3>1. \A k : k \notin l..e
      BY <1>3, <1>6
    <3> QED BY <1>4, <3>1
  <2>2. \A x \in T : ~(a <= x /\ x < a)
    BY <1>1
  <2>3. a <= a /\ CountTo(T, a - 1) + 1 = l
    BY <1>6
  <2> HIDE DEF q
  <2>4. \A x \in T : x \in Range(q) <=> a <= x /\ x < a
    BY <2>1, <2>2
  <2> USE DEF q
  <2> QED BY <1>4, <2>3, <2>4
<1>7. CASE l <= e
  <2> DEFINE lo == Ordered(T)[l]
  <2>1. lo \in T /\ CountTo(T, lo) = l
    <3>1. l \in 1..c
      BY <1>2, <1>3, <1>7
    <3> QED BY <3>1, OrderedAt DEF c
  <2> HIDE DEF lo
  <2>2. lo \in Int /\ lo - 1 \in Int /\ lo - 1 <= lo
    BY <1>1, <2>1
  <2>3. CountTo(T, lo) = CountTo(T, lo - 1) + Cardinality({lo})
    <3> DEFINE B == {lo}
               low == lo - 1
    <3>1. B \in SUBSET T
      BY <2>1
    <3>2. \A j \in T : j \in B <=> low < j /\ j <= lo
      BY <1>1, <2>2
    <3>3. low \in Int /\ lo \in Int /\ low <= lo
      BY <2>2
    <3> HIDE DEF B, low
    <3>4. CountTo(T, lo) = CountTo(T, low) + Cardinality(B)
      BY <3>1, <3>2, <3>3, CountSum
    <3> QED BY <3>4 DEF B, low
  <2>4. CountTo(T, lo - 1) + 1 = l
    <3>1. Cardinality({lo}) = 1
      BY FS_Singleton
    <3> QED BY <2>1, <2>3, <3>1
  <2>5. lo < a
    BY <1>5, <1>7, <2>1
  <2>6. ASSUME NEW x \in T PROVE l <= CountTo(T, x) <=> lo <= x
    <3> DEFINE k == CountTo(T, x)
    <3>1. x \in Int /\ k \in 0..c
      BY <1>1, <1>2
    <3>2. (lo <= x => l <= k) /\ (x < lo => k < l)
      BY <1>2, <2>1, <2>2, <3>1
    <3> HIDE DEF k
    <3>3. l <= k <=> lo <= x
      BY <1>2, <2>2, <3>1, <3>2
    <3> QED BY <3>3 DEF k
  <2>7. \A x \in T : x \in Range(q) <=> lo <= x /\ x < a
    <3> SUFFICES ASSUME NEW x \in T PROVE x \in Range(q) <=> lo <= x /\ x < a
      OBVIOUS
    <3> DEFINE k == CountTo(T, x)
    <3>1. k \in Int
      BY <1>1, <1>2
    <3>2. x \in Range(q) <=> k \in l..e
      BY <1>4
    <3>3. (l <= k <=> lo <= x) /\ (k <= e <=> x < a)
      BY <1>5, <2>6
    <3> HIDE DEF k, e, q
    <3> QED BY <1>3, <3>1, <3>2, <3>3
  <2>8. lo <= a
    BY <2>2, <2>5
  <2> QED BY <1>4, <2>2, <2>4, <2>7, <2>8
<1>8. l = e + 1 \/ l <= e
  <2>1. l <= e + 1
    OBVIOUS
  <2> HIDE DEF e
  <2> QED BY <1>2, <1>3, <2>1
<1> QED BY <1>6, <1>7, <1>8

\* The next lines of a file after a place, if all that follow it are of the file,
\* are those that follow.
LEMMA BelowIs ==
  ASSUME NEW n \in Nat, NEW T \in SUBSET (1..n), NEW b \in 1..n, NEW after \in Nat,
         \A x \in (b + 1)..(b + after) : x <= n => x \in T
  PROVE  LET q == SubSeq(Ordered(T), CountTo(T, b) + 1,
                         Smaller(CountTo(T, b) + after, Cardinality(T)))
         IN  /\ Increasing(q, n) /\ Range(q) \subseteq T
             /\ \A x \in T : x \in Range(q) <=> b < x /\ x <= b + after
<1> DEFINE e == CountTo(T, b)
           c == Cardinality(T)
           z == Smaller(e + after, c)
           q == SubSeq(Ordered(T), e + 1, z)
           hi == Smaller(b + after, n)
           B == (b + 1)..hi
<1>1. \A x \in T : x \in Int /\ x <= n
  OBVIOUS
<1>2. /\ c \in Nat /\ \A x \in Int : CountTo(T, x) \in 0..c
      /\ \A x, y \in Int : x <= y => CountTo(T, x) <= CountTo(T, y)
      /\ \A x \in Int, y \in T : x < y => CountTo(T, x) < CountTo(T, y)
  BY CountFacts
<1>3. e \in 0..c
  <2>1. b \in Int
    OBVIOUS
  <2> QED BY <1>2, <2>1
<1>4. hi \in Int /\ b <= hi /\ hi <= b + after /\ hi <= n /\ (hi = b + after \/ hi = n)
  BY DEF Smaller
<1> HIDE DEF c, hi
<1>5. CountTo(T, hi) = e + (hi - b)
  <2>1. B \in SUBSET T
    <3>1. \A x \in B : x \in (b + 1)..(b + after) /\ x <= n
      BY <1>4
    <3> QED BY <3>1
  <2>2. \A j \in T : j \in B <=> b < j /\ j <= hi
    BY <1>1, <1>4
  <2>3. CountTo(T, hi) = e + Cardinality(B)
    <3>1. b \in Int
      OBVIOUS
    <3> HIDE DEF B
    <3> QED BY <1>4, <2>1, <2>2, <3>1, CountSum
  <2>4. Cardinality(B) = hi - b
    <3>1. b + 1 \in Int
      OBVIOUS
    <3>2. Cardinality((b + 1)..hi) = IF b + 1 > hi THEN 0 ELSE hi - (b + 1) + 1
      BY <1>4, <3>1, FS_Interval
    <3> QED BY <1>4, <3>2
  <2> QED BY <2>3, <2>4
<1> HIDE DEF B
<1>6. z \in Int /\ z <= c /\ z <= e + after /\ (z = c \/ z = e + after)
  BY <1>2, <1>3 DEF Smaller
<1>7. /\ Increasing(q, n) /\ Range(q) \subseteq T
      /\ \A x \in T : x \in Range(q) <=> CountTo(T, x) \in (e + 1)..z
  <2>1. e + 1 \in Int /\ 1 <= e + 1
    BY <1>3
  <2> HIDE DEF e, z
  <2> QED BY <1>6, <2>1, PartIncreasing DEF c
<1>8. ASSUME NEW x \in T PROVE CountTo(T, x) \in (e + 1)..z <=> b < x /\ x <= b + after
  <2> DEFINE k == CountTo(T, x)
             g == CountTo(T, hi)
  <2>1. x \in Int /\ x <= n /\ k \in 0..c
    BY <1>1, <1>2
  <2>2. (x <= b => k <= e) /\ (b < x => e < k) /\ (x <= hi => k <= g) /\ (hi < x => g < k)
    <3>1. b \in Int
      OBVIOUS
    <3> QED BY <1>2, <1>4, <2>1, <3>1
  <2>3. g = e + (hi - b)
    BY <1>5
  <2> HIDE DEF k, g, e, z
  <2>4. k \in (e + 1)..z <=> b < x /\ x <= b + after
    <3>1. e < k <=> b < x
      BY <1>2, <1>3, <2>1, <2>2
    <3>2. k <= z <=> k <= e + after
      BY <1>2, <1>3, <1>6, <2>1
    <3>3. k <= g <=> x <= hi
      BY <1>2, <1>3, <1>4, <2>1, <2>2, <2>3
    <3>4. k <= e + after <=> x <= b + after
      BY <1>2, <1>3, <1>4, <2>1, <2>3, <3>3
    <3> QED BY <1>2, <1>3, <1>6, <2>1, <3>1, <3>2, <3>4
  <2> QED BY <2>4 DEF k
<1>9. \A x \in T : x \in Range(q) <=> b < x /\ x <= b + after
  BY <1>7, <1>8
<1> QED BY <1>7, <1>9 DEF c

Real(s, h) ==
  /\ \A i \in h.extra : s[i] = "="
  /\ PartOf(Unmarked(s, h.lines, "+"), BaseFile(s), h.start1)
  /\ PartOf(Unmarked(s, h.lines, "-"), HeadFile(s), h.start2)

LEMMA NoSide ==
  ASSUME NEW s \in Script, NEW mark, SideOf(s, mark) = {}, NEW q, Increasing(q, Len(s))
  PROVE  Unmarked(s, q, mark) = <<>>
<1>1. \A i \in 1..Len(s) : s[i] = mark
  BY SidesAre
<1>2. \A k \in DOMAIN q : q[k] \in 1..Len(s)
  BY DEF Increasing
<1>3. {k \in DOMAIN q : s[q[k]] # mark} = {}
  BY <1>1, <1>2
<1>4. Unmarked(s, q, mark) = [k \in 1..Cardinality({}) |-> q[Nth({}, k)]]
  BY <1>3 DEF Unmarked, Pick
<1>5. 1..Cardinality({}) = {}
  BY FS_EmptySet
<1>6. [k \in {} |-> q[Nth({}, k)]] = <<>>
  OBVIOUS
<1> QED BY <1>4, <1>5, <1>6

LEMMA SideReal ==
  ASSUME NEW s \in Script, NEW mark, NEW q, Increasing(q, Len(s)),
         NEW lo \in Int, NEW hi \in Int,
         \A x \in SideOf(s, mark) : x \in Range(q) <=> lo <= x /\ x <= hi
  PROVE  PartOf(Unmarked(s, q, mark), Ordered(SideOf(s, mark)),
                CountTo(SideOf(s, mark), lo - 1) + 1)
<1> DEFINE T == SideOf(s, mark)
           n == Len(s)
<1>1. /\ n \in Nat /\ DOMAIN s = 1..n /\ T \in SUBSET (1..n)
      /\ \A i \in 1..n : i \in T <=> s[i] # mark
  BY SidesAre
<1>2. Increasing(q, n) /\ \A x \in T : x \in Range(q) <=> lo <= x /\ x <= hi
  OBVIOUS
<1> HIDE DEF T, n
<1>3. PartOf(Unmarked(s, q, mark), Ordered(T), CountTo(T, lo - 1) + 1)
  BY <1>1, <1>2, SideIs
<1> QED BY <1>3 DEF T

\* GitHub's hunks are where their headers say.
LEMMA RawReal ==
  ASSUME NEW s \in Script, NEW context \in Nat, context > 0,
         NEW a \in 1..Len(s), NEW b \in 1..Len(s), RunOf(s, context, a, b)
  PROVE  Real(s, Hunk(s, a, b))
<1> DEFINE h == Hunk(s, a, b)
           old == SideOf(s, "+")
           new == SideOf(s, "-")
<1>1. /\ old # {} => h.start1 = CountTo(old, a - 1) + 1
      /\ new # {} => h.start2 = CountTo(new, a - 1) + 1
      /\ h.extra = {} /\ Increasing(h.lines, Len(s)) /\ Range(h.lines) = a..b
  BY HunkPlaces
<1>2. /\ BaseFile(s) = Ordered(old) /\ HeadFile(s) = Ordered(new) /\ Len(s) \in Nat
      /\ old \in SUBSET (1..Len(s)) /\ new \in SUBSET (1..Len(s))
  BY SidesAre
<1> HIDE DEF h
<1>3. a \in Int /\ b \in Int
  OBVIOUS
<1>4. ASSUME NEW mark
      PROVE  \/ SideOf(s, mark) = {} /\ Unmarked(s, h.lines, mark) = <<>>
             \/ PartOf(Unmarked(s, h.lines, mark), Ordered(SideOf(s, mark)),
                       CountTo(SideOf(s, mark), a - 1) + 1)
  <2>1. SideOf(s, mark) \in SUBSET (1..Len(s))
    BY SidesAre
  <2>2. \A x \in SideOf(s, mark) : x \in Range(h.lines) <=> a <= x /\ x <= b
    BY <1>1, <1>3, <2>1
  <2>3. CASE SideOf(s, mark) = {}
    BY <1>1, <2>3, NoSide
  <2>4. CASE SideOf(s, mark) # {}
    BY <1>1, <1>3, <2>2, SideReal
  <2> QED BY <2>3, <2>4
<1>5. PartOf(Unmarked(s, h.lines, "+"), BaseFile(s), h.start1)
  <2>1. CASE old = {}
    <3>1. Unmarked(s, h.lines, "+") = <<>>
      BY <1>1, <2>1, NoSide
    <3> QED BY <3>1 DEF PartOf
  <2>2. CASE old # {}
    BY <1>1, <1>2, <1>4, <2>2
  <2> QED BY <2>1, <2>2
<1>6. PartOf(Unmarked(s, h.lines, "-"), HeadFile(s), h.start2)
  <2>1. CASE new = {}
    <3>1. Unmarked(s, h.lines, "-") = <<>>
      BY <1>1, <2>1, NoSide
    <3> QED BY <3>1 DEF PartOf
  <2>2. CASE new # {}
    BY <1>1, <1>2, <1>4, <2>2
  <2> QED BY <2>1, <2>2
<1> QED BY <1>1, <1>5, <1>6 DEF Real, h

----------------------------------------------------------------------------
(* A run in the split files.                                                  *)

\* What extendPatch is given as the new file.
NewLines(s) == IF HeadFile(s) # <<>> THEN HeadFile(Split(s)) ELSE <<>>

\* As many lines of a split file come before a place as of the file.
LEMMA SplitCounts ==
  ASSUME NEW s \in Script, NEW mark, NEW x \in Int, x <= Len(s)
  PROVE  CountTo(SideOf(Split(s), mark), x) = CountTo(SideOf(s, mark), x)
<1> DEFINE n == Len(s)
           t == Split(s)
<1>1. /\ n \in Nat /\ DOMAIN s = 1..n
      /\ DOMAIN t = 1..(n + 1) /\ \A i \in 1..n : t[i] = s[i]
  BY SidesAre, SplitType
<1>2. \A i \in 1..(n + 1) : i <= x => i \in 1..n
  BY <1>1
<1>3. \A i \in 1..n : i \in 1..(n + 1)
  BY <1>1
<1> HIDE DEF n, t
<1>4. {j \in SideOf(t, mark) : j <= x} = {j \in SideOf(s, mark) : j <= x}
  BY <1>1, <1>2, <1>3 DEF SideOf
<1> QED BY <1>4 DEF CountTo, t

\* The header of a hunk counts the lines of the split files too.
LEMMA SplitPlaces ==
  ASSUME NEW s \in Script, NEW context \in Nat, context > 0,
         NEW a \in 1..Len(s), NEW b \in 1..Len(s), RunOf(s, context, a, b)
  PROVE  LET t == Split(s)
             h == Hunk(s, a, b)
             old == SideOf(t, "+")
             new == SideOf(t, "-")
         IN  /\ SideOf(s, "+") # {} => /\ h.start1 = CountTo(old, a - 1) + 1
                                       /\ h.start1 + h.size1 = CountTo(old, b) + 1
             /\ SideOf(s, "-") # {} => h.start2 = CountTo(new, a - 1) + 1
             /\ SideOf(s, "-") = {} => a = 1 /\ h.start2 = 0
             /\ HasPlaces(h) /\ h.extra = {}
             /\ Increasing(h.lines, Len(t)) /\ Range(h.lines) = a..b
             /\ a <= b /\ \A x \in (b + 1)..(b + context + 1) : x <= Len(t) => t[x] = "="
<1> DEFINE n == Len(s)
           t == Split(s)
           h == Hunk(s, a, b)
<1>1. /\ SideOf(s, "+") # {} => /\ h.start1 = CountTo(SideOf(s, "+"), a - 1) + 1
                                /\ h.start1 + h.size1 = CountTo(SideOf(s, "+"), b) + 1
      /\ SideOf(s, "-") # {} => h.start2 = CountTo(SideOf(s, "-"), a - 1) + 1
      /\ SideOf(s, "-") = {} => h.start2 = 0
      /\ HasPlaces(h) /\ h.extra = {}
      /\ Increasing(h.lines, n) /\ Range(h.lines) = a..b
  BY HunkPlaces
<1>2. /\ n \in Nat /\ Len(t) = n + 1 /\ t[n + 1] = "=" /\ \A i \in 1..n : t[i] = s[i]
      /\ a \in 1..n /\ b \in 1..n
  BY SplitType
<1>3. /\ a <= b /\ a > 1 => s[a] = "="
      /\ \A x \in (b + 1)..(b + context + 1) : x <= n => s[x] = "="
  BY RunFacts
<1>4. /\ CountTo(SideOf(t, "+"), a - 1) = CountTo(SideOf(s, "+"), a - 1)
      /\ CountTo(SideOf(t, "-"), a - 1) = CountTo(SideOf(s, "-"), a - 1)
      /\ CountTo(SideOf(t, "+"), b) = CountTo(SideOf(s, "+"), b)
  <2>1. a - 1 \in Int /\ a - 1 <= n /\ b \in Int /\ b <= n
    BY <1>2
  <2> QED BY <2>1, SplitCounts
<1>5. SideOf(s, "-") = {} => a = 1
  <2>1. SideOf(s, "-") = {} => s[a] = "-"
    BY SidesAre
  <2>2. a > 1 => s[a] = "="
    BY RunFacts
  <2> QED BY <1>2, <2>1, <2>2
<1>6. Increasing(h.lines, n + 1)
  <2> HIDE DEF h, n
  <2>1. h.lines \in Seq(1..n) /\ \A k, l \in DOMAIN h.lines : k < l => h.lines[k] < h.lines[l]
    BY <1>1 DEF Increasing
  <2>2. 1..n \subseteq 1..(n + 1)
    BY <1>2
  <2>3. h.lines \in Seq(1..(n + 1))
    <3> DEFINE A == 1..n
               B == 1..(n + 1)
               L == h.lines
    <3>1. L \in Seq(A) /\ A \subseteq B
      BY <2>1, <2>2
    <3> HIDE DEF A, B, L
    <3>2. Len(L) \in Nat /\ L \in [1..Len(L) -> B]
      BY <3>1
    <3>3. L \in Seq(B)
      BY <3>2
    <3> QED BY <3>3 DEF B, L
  <2> QED BY <2>1, <2>3 DEF Increasing
<1>7. ASSUME NEW x \in (b + 1)..(b + context + 1), x <= n + 1 PROVE t[x] = "="
  <2>1. CASE x = n + 1
    BY <1>2, <2>1
  <2>2. CASE x # n + 1
    <3>1. x <= n /\ x \in 1..n
      BY <1>2, <1>7, <2>2
    <3>2. s[x] = "="
      BY <3>1, RunFacts
    <3> QED BY <1>2, <3>1, <3>2
  <2> QED BY <2>1, <2>2
<1>8. a <= b
  BY RunFacts
<1> HIDE DEF n, h, t
<1> QED BY <1>1, <1>2, <1>4, <1>5, <1>6, <1>7, <1>8 DEF n, h, t

\* GitHub's hunks are where their headers say in the split files too.
LEMMA RawSplit ==
  ASSUME NEW s \in Script, NEW context \in Nat, context > 0,
         NEW a \in 1..Len(s), NEW b \in 1..Len(s), RunOf(s, context, a, b)
  PROVE  Real(Split(s), Hunk(s, a, b))
<1> DEFINE h == Hunk(s, a, b)
           t == Split(s)
           n == Len(s)
<1>1. /\ SideOf(s, "+") # {} => h.start1 = CountTo(SideOf(t, "+"), a - 1) + 1
      /\ SideOf(s, "-") # {} => h.start2 = CountTo(SideOf(t, "-"), a - 1) + 1
      /\ h.extra = {} /\ Increasing(h.lines, Len(t)) /\ Range(h.lines) = a..b
  BY SplitPlaces
<1>2. Increasing(h.lines, n)
  BY HunkPlaces
<1>3. t \in Script /\ n \in Nat /\ \A i \in 1..n : t[i] = s[i]
  BY SplitType
<1>4. BaseFile(t) = Ordered(SideOf(t, "+")) /\ HeadFile(t) = Ordered(SideOf(t, "-"))
  BY <1>3, SidesAre
<1> HIDE DEF h, t
<1>5. a \in Int /\ b \in Int
  OBVIOUS
<1>6. ASSUME NEW mark, SideOf(s, mark) = {} PROVE Unmarked(t, h.lines, mark) = <<>>
  <2>1. Unmarked(s, h.lines, mark) = <<>>
    BY <1>2, <1>6, NoSide
  <2>2. \A k \in DOMAIN h.lines : h.lines[k] \in 1..n
    BY <1>2 DEF Increasing
  <2>3. {k \in DOMAIN h.lines : t[h.lines[k]] # mark} = {k \in DOMAIN h.lines : s[h.lines[k]] # mark}
    <3> HIDE DEF n
    <3> QED BY <1>3, <2>2
  <2> QED BY <2>1, <2>3 DEF Unmarked
<1>7. ASSUME NEW mark
      PROVE  PartOf(Unmarked(t, h.lines, mark), Ordered(SideOf(t, mark)),
                    CountTo(SideOf(t, mark), a - 1) + 1)
  <2>1. SideOf(t, mark) \in SUBSET (1..Len(t))
    BY <1>3, SidesAre
  <2>2. \A x \in SideOf(t, mark) : x \in Range(h.lines) <=> a <= x /\ x <= b
    BY <1>1, <1>5, <2>1
  <2> QED BY <1>1, <1>3, <1>5, <2>2, SideReal
<1>8. PartOf(Unmarked(t, h.lines, "+"), BaseFile(t), h.start1)
  <2>1. CASE SideOf(s, "+") = {}
    BY <1>6, <2>1 DEF PartOf
  <2>2. CASE SideOf(s, "+") # {}
    BY <1>1, <1>4, <1>7, <2>2
  <2> QED BY <2>1, <2>2
<1>9. PartOf(Unmarked(t, h.lines, "-"), HeadFile(t), h.start2)
  <2>1. CASE SideOf(s, "-") = {}
    BY <1>6, <2>1 DEF PartOf
  <2>2. CASE SideOf(s, "-") # {}
    BY <1>1, <1>4, <1>7, <2>2
  <2> QED BY <2>1, <2>2
<1> QED BY <1>1, <1>8, <1>9 DEF Real, h, t

\* Lines above a run, the run and the lines below it, in order.
LEMMA Stacked ==
  ASSUME NEW n \in Nat, NEW a \in Int, NEW b \in Int, a <= b,
         NEW above, NEW lines, NEW below,
         Increasing(above, n), Increasing(lines, n), Increasing(below, n),
         Range(lines) = a..b, \A x \in Range(above) : x < a, \A x \in Range(below) : b < x
  PROVE  /\ Increasing(above \o lines \o below, n)
         /\ Range(above \o lines \o below) = Range(above) \cup (a..b) \cup Range(below)
<1>1. \A q : Increasing(q, n) => Range(q) \subseteq Int
  BY IncreasingCount
<1>2. Range(above) \subseteq Int /\ Range(below) \subseteq Int
  BY <1>1
<1>3. \A x \in Range(above), y \in Range(lines) : x < y
  <2>1. \A x \in Int, y \in a..b : x < a => x < y
    OBVIOUS
  <2> QED BY <1>2, <2>1
<1>4. Increasing(above \o lines, n) /\ Range(above \o lines) = Range(above) \cup (a..b)
  BY <1>3, ConcatIncreasing
<1>5. \A x \in Range(above) \cup (a..b), y \in Range(below) : x < y
  <2>1. \A x \in Int, y \in Int : b < y /\ (x < a \/ x \in a..b) => x < y
    OBVIOUS
  <2>2. \A x \in a..b : x \in Int
    OBVIOUS
  <2> QED BY <1>2, <2>1, <2>2
<1> DEFINE p == above \o lines
<1>6. Increasing(p, n) /\ \A x \in Range(p), y \in Range(below) : x < y
  BY <1>4, <1>5
<1> HIDE DEF p
<1>7. Increasing(p \o below, n) /\ Range(p \o below) = Range(p) \cup Range(below)
  BY <1>6, ConcatIncreasing
<1> QED BY <1>4, <1>7 DEF p

ExtendLimits(s, h, section, c) ==
  Agreed(h, BaseFile(Split(s)), NewLines(s),
         Reach(h, BaseFile(Split(s)), NewLines(s), section, c.before, c.dynamic, c.after))

LimitsOf(t, a, h, lim) ==
  LET old == SideOf(t, "+")
      new == SideOf(t, "-")
      above == SubSeq(Ordered(old), lim.start1, CountTo(old, a - 1))
  IN  /\ Above(h, BaseFile(t), lim) = above
      /\ lim.start1 \in Int /\ 1 <= lim.start1 /\ lim.start1 <= CountTo(old, a - 1) + 1
      /\ above = SubSeq(Ordered(new), lim.start2, CountTo(new, a - 1))
      /\ lim.start2 \in Int /\ 1 <= lim.start2 /\ lim.start2 <= CountTo(new, a - 1) + 1

\* The limits of an extended hunk begin where the lines put above it do, in the
\* file before and the file after.
LEMMA LimitsAre ==
  ASSUME NEW s \in Script, NEW context \in Nat, context > 0,
         NEW a \in 1..Len(s), NEW b \in 1..Len(s), RunOf(s, context, a, b),
         SideOf(s, "+") # {}, NEW c \in Config, NEW section
  PROVE  LimitsOf(Split(s), a, Hunk(s, a, b), ExtendLimits(s, Hunk(s, a, b), section, c))
<1> DEFINE t == Split(s)
           n == Len(t)
           h == Hunk(s, a, b)
           old == SideOf(t, "+")
           new == SideOf(t, "-")
           base == BaseFile(t)
           newFile == NewLines(s)
           reach == Reach(h, base, newFile, section, c.before, c.dynamic, c.after)
           lim == Agreed(h, base, newFile, reach)
           e1 == CountTo(old, a - 1)
           e2 == CountTo(new, a - 1)
           above == SubSeq(Ordered(old), lim.start1, e1)
           some == SideOf(s, "-") # {}
<1>0. t \in Script /\ n = Len(s) + 1 /\ Len(s) \in Nat /\ t[n] = "="
  BY SplitType
<1>1. /\ base = Ordered(old) /\ HeadFile(t) = Ordered(new) /\ n \in Nat
      /\ old \in SUBSET (1..n) /\ new \in SUBSET (1..n) /\ n \in new
  <2> HIDE DEF t
  <2>1. n \in 1..n /\ n \in Nat
    BY <1>0
  <2> QED BY <1>0, <2>1, SidesAre
<1>2. /\ h.start1 = e1 + 1 /\ HasPlaces(h)
      /\ some => h.start2 = e2 + 1
      /\ ~some => a = 1 /\ h.start2 = 0
  BY SplitPlaces
<1>3. /\ Len(base) \in Nat /\ e1 \in Nat /\ e2 \in Nat
      /\ some => newFile # <<>> /\ newFile = Ordered(new)
      /\ ~some => newFile = <<>>
  <2>1. a - 1 \in Int
    OBVIOUS
  <2>2. e1 \in 0..Cardinality(old) /\ e2 \in 0..Cardinality(new)
        /\ Cardinality(old) \in Nat /\ Cardinality(new) \in Nat /\ IsFiniteSet(new)
    <3> HIDE DEF old, new, n
    <3> QED BY <1>1, <2>1, CountFacts
  <2>3. Len(Ordered(old)) = Cardinality(old) /\ Len(Ordered(new)) = Cardinality(new)
    <3> HIDE DEF old, new, n
    <3> QED BY <1>1, OrderedAt
  <2>4. Cardinality(new) # 0
    <3> HIDE DEF new, n
    <3> QED BY <1>1, <2>2, FS_EmptySet
  <2>5. Ordered(new) # <<>>
    <3>1. Len(<<>>) = 0
      OBVIOUS
    <3> QED BY <2>3, <2>4, <3>1
  <2>6. some <=> HeadFile(s) # <<>>
    <3> DEFINE N == SideOf(s, "-")
    <3>1. HeadFile(s) = Ordered(N) /\ N \in SUBSET (1..Len(s)) /\ Len(s) \in Nat
      BY SidesAre
    <3> HIDE DEF N
    <3>2. Len(Ordered(N)) = Cardinality(N) /\ IsFiniteSet(N)
      BY <3>1, OrderedAt, CountFacts
    <3>3. N # {} => Cardinality(N) # 0
      BY <3>2, FS_EmptySet
    <3>4. N = {} => Ordered(N) = <<>>
      BY OrderedNone
    <3>5. Len(<<>>) = 0
      OBVIOUS
    <3> QED BY <3>1, <3>2, <3>3, <3>4, <3>5 DEF N
  <2> HIDE DEF e1, e2, t, some
  <2> QED BY <1>1, <2>2, <2>3, <2>5, <2>6 DEF NewLines, t
<1>4. c.before \in Nat /\ c.dynamic \in Nat /\ c.after \in Nat
  BY DEF Config
<1>5. Above(h, base, lim) = SubSeq(Ordered(old), lim.start1, e1)
  <2>1. h.start1 - 1 = e1
    BY <1>2, <1>3
  <2> HIDE DEF h, lim, e1, old, t
  <2> QED BY <1>1, <2>1 DEF Above
<1>6. ASSUME some
      PROVE  /\ above = SubSeq(Ordered(new), lim.start2, e2)
             /\ lim.start1 \in Int /\ 1 <= lim.start1 /\ lim.start1 <= e1 + 1
             /\ lim.start2 \in Int /\ 1 <= lim.start2 /\ lim.start2 <= e2 + 1
  <2>1. h.start1 = e1 + 1 /\ h.start2 = e2 + 1 /\ newFile # <<>> /\ newFile = Ordered(new)
    BY <1>2, <1>3, <1>6
  <2> HIDE DEF h, e1, e2, base, newFile, old, new, some
  <2>2. 1 <= h.start1 /\ 1 <= h.start2
    BY <1>3, <2>1
  <2>3. Fit(h, reach)
    BY <1>2, <1>3, <1>4, <2>2, ReachFit
  <2> HIDE DEF reach
  <2>4. Fit(h, lim) /\ Both(h, base, newFile, lim)
    BY <1>2, <2>1, <2>2, <2>3, AgreedFit
  <2> HIDE DEF lim
  <2>5. AboveNew(h, newFile, lim) = SubSeq(newFile, lim.start2, e2)
    <3>1. h.start2 - 1 = e2
      BY <1>3, <2>1
    <3> QED BY <3>1 DEF AboveNew
  <2>6. above = SubSeq(newFile, lim.start2, e2)
    BY <1>5, <2>4, <2>5 DEF Both
  <2> QED BY <2>1, <2>4, <2>6 DEF Fit, Lim
<1>7. ASSUME ~some
      PROVE  /\ above = SubSeq(Ordered(new), lim.start2, e2)
             /\ lim.start1 \in Int /\ 1 <= lim.start1 /\ lim.start1 <= e1 + 1
             /\ lim.start2 \in Int /\ 1 <= lim.start2 /\ lim.start2 <= e2 + 1
  <2>1. a = 1 /\ h.start2 = 0 /\ newFile = <<>>
    BY <1>2, <1>3, <1>7
  <2>2. e1 = 0 /\ e2 = 0
    <3>1. CountTo(old, 0) = 0 /\ CountTo(new, 0) = 0
      <4> HIDE DEF old, new, n
      <4> QED BY <1>1, CountFacts
    <3> QED BY <2>1, <3>1
  <2> HIDE DEF h, e1, e2, base, newFile, old, new, some
  <2>3. lim = Limits(h, base, c.before, c.after)
    BY <2>1 DEF Agreed, Reach
  <2>4. /\ lim.start1 = Larger(1, h.start1 - c.before)
        /\ lim.start2 = Larger(1, h.start2 - c.before)
    BY <2>3 DEF Limits
  <2> HIDE DEF lim
  <2>5. lim.start1 = 1 /\ lim.start2 = 1
    BY <1>2, <1>4, <2>1, <2>2, <2>4 DEF Larger
  <2>6. SubSeq(Ordered(old), 1, 0) = <<>> /\ SubSeq(Ordered(new), 1, 0) = <<>>
    BY SubSeqEmpty
  <2> QED BY <2>2, <2>5, <2>6
<1> HIDE DEF h, e1, e2, lim, base, newFile, old, new, t, some
<1>8. LimitsOf(t, a, h, lim)
  BY <1>5, <1>6, <1>7 DEF LimitsOf, base, old, new, e1, e2
<1> QED BY <1>8 DEF ExtendLimits, h, lim, base, newFile, reach, t

\* So are the hunks extendPatch makes of them, when it adds no more lines below
\* than GitHub shows and one.
LEMMA ExtendedReal ==
  ASSUME NEW s \in Script, NEW context \in Nat, context > 0,
         NEW a \in 1..Len(s), NEW b \in 1..Len(s), RunOf(s, context, a, b),
         BaseFile(s) # <<>>, NEW c \in Config, c.after <= context + 1, NEW section
  PROVE  Real(Split(s),
              ExtendHunk(Hunk(s, a, b), BaseFile(Split(s)), NewLines(s), section, c))
<1> DEFINE t == Split(s)
           n == Len(t)
           h == Hunk(s, a, b)
           old == SideOf(t, "+")
           new == SideOf(t, "-")
           base == BaseFile(t)
           lim == ExtendLimits(s, h, section, c)
           above == SubSeq(Ordered(old), lim.start1, CountTo(old, a - 1))
           e == CountTo(old, b)
           below == SubSeq(Ordered(old), e + 1, Smaller(e + c.after, Cardinality(old)))
           q == above \o h.lines \o below
           x == ExtendHunk(h, base, NewLines(s), section, c)
<1>0. /\ t \in Script /\ Len(s) \in Nat /\ n = Len(s) + 1
      /\ a \in 1..n /\ b \in 1..n /\ a \in Int /\ b \in Int
  <2>1. t \in Script /\ Len(s) \in Nat /\ n = Len(s) + 1
    BY SplitType
  <2> QED BY <2>1
<1>1. /\ base = Ordered(old) /\ HeadFile(t) = Ordered(new) /\ n \in Nat
      /\ old \in SUBSET (1..n) /\ new \in SUBSET (1..n)
      /\ \A i \in 1..n : t[i] \in {"=", "+", "-"}
      /\ \A i \in 1..n : (i \in old <=> t[i] # "+") /\ (i \in new <=> t[i] # "-")
  <2> HIDE DEF t
  <2> QED BY <1>0, SidesAre
<1>2. SideOf(s, "+") # {}
  <2>1. BaseFile(s) = Ordered(SideOf(s, "+"))
    BY SidesAre
  <2> QED BY <2>1, OrderedNone
<1>3. /\ Above(h, base, lim) = above
      /\ lim.start1 \in Int /\ 1 <= lim.start1 /\ lim.start1 <= CountTo(old, a - 1) + 1
      /\ above = SubSeq(Ordered(new), lim.start2, CountTo(new, a - 1))
      /\ lim.start2 \in Int /\ 1 <= lim.start2 /\ lim.start2 <= CountTo(new, a - 1) + 1
  <2>1. LimitsOf(t, a, h, lim)
    BY <1>2, LimitsAre
  <2> HIDE DEF h, lim, t
  <2> QED BY <2>1 DEF LimitsOf
<1>4. /\ h.start1 + h.size1 = e + 1
      /\ Increasing(h.lines, n) /\ Range(h.lines) = a..b
      /\ a <= b /\ \A i \in (b + 1)..(b + context + 1) : i <= n => t[i] = "="
  BY <1>2, SplitPlaces
<1>6. e \in Nat /\ Len(base) = Cardinality(old) /\ Cardinality(old) \in Nat /\ c.after \in Nat
  <2>1. CountTo(old, b) \in 0..Cardinality(old) /\ Cardinality(old) \in Nat
    <3> HIDE DEF old, n
    <3> QED BY <1>0, <1>1, CountFacts
  <2>2. Len(Ordered(old)) = Cardinality(old)
    <3> HIDE DEF old, n
    <3> QED BY <1>1, OrderedAt
  <2>3. c.after \in Nat
    BY DEF Config
  <2> QED BY <1>1, <2>1, <2>2, <2>3
<1>7. /\ x.start1 = lim.start1 /\ x.start2 = lim.start2
      /\ x.lines = q /\ x.extra = Range(above) \cup Range(below)
  <2>1. Slice(base, h.start1 + h.size1, c.after) = below
    <3>1. h.start1 + h.size1 = e + 1 /\ base = Ordered(old)
      BY <1>1, <1>4
    <3> HIDE DEF h, base, e, old, t
    <3>2. Larger(e + 1, 1) = e + 1 /\ e + 1 + c.after - 1 = e + c.after
      BY <1>6 DEF Larger
    <3> QED BY <1>6, <3>1, <3>2 DEF Slice
  <2> HIDE DEF h, above, below, t
  <2>2. x = [start1 |-> lim.start1, size1 |-> lim.size1,
             start2 |-> lim.start2, size2 |-> lim.size2,
             lines |-> above \o h.lines \o below,
             extra |-> Range(above) \cup Range(below)]
    BY <1>3, <2>1 DEF ExtendHunk, ExtendLimits, lim, base, t
  <2> HIDE DEF x, lim
  <2> QED BY <2>2
<1>8. \A i \in (b + 1)..(b + c.after) : i <= n => i \in old /\ i \in new /\ t[i] = "="
  <2>1. \A i \in (b + 1)..(b + c.after) : i \in (b + 1)..(b + context + 1) /\ i >= 1
    BY <1>0, <1>6
  <2>2. \A i \in (b + 1)..(b + c.after) : i <= n => i \in 1..n /\ t[i] = "="
    <3> HIDE DEF n, t
    <3> QED BY <1>0, <1>1, <1>4, <2>1
  <2> HIDE DEF old, new, n, t
  <2> QED BY <1>1, <2>2
<1>9. /\ Increasing(below, n) /\ Range(below) \subseteq old
      /\ \A i \in old : i \in Range(below) <=> b < i /\ i <= b + c.after
  <2>1. \A i \in (b + 1)..(b + c.after) : i <= n => i \in old
    BY <1>8
  <2>2. b \in 1..n
    BY <1>0
  <2>3. n \in Nat /\ old \in SUBSET (1..n) /\ c.after \in Nat
    BY <1>1, <1>6
  <2> HIDE DEF old, n
  <2> QED BY <2>1, <2>2, <2>3, BelowIs
<1>10. /\ Increasing(above, n) /\ Range(above) \subseteq old
       /\ \E l \in Int : /\ l <= a /\ CountTo(old, l - 1) + 1 = lim.start1
                         /\ \A i \in old : i \in Range(above) <=> l <= i /\ i < a
  <2>1. /\ n \in Nat /\ old \in SUBSET (1..n) /\ a \in Int
        /\ lim.start1 \in Int /\ 1 <= lim.start1 /\ lim.start1 <= CountTo(old, a - 1) + 1
    BY <1>0, <1>1, <1>3
  <2> HIDE DEF old, n, lim
  <2> QED BY <2>1, AboveIs
<1>11. PICK lo \in Int :
         /\ lo <= a /\ CountTo(old, lo - 1) + 1 = lim.start1
         /\ \A i \in old : i \in Range(above) <=> lo <= i /\ i < a
  BY <1>10
<1>12. /\ Range(above) \subseteq new
       /\ \E l \in Int : /\ l <= a /\ CountTo(new, l - 1) + 1 = lim.start2
                         /\ \A i \in new : i \in Range(above) <=> l <= i /\ i < a
  <2> DEFINE p == SubSeq(Ordered(new), lim.start2, CountTo(new, a - 1))
  <2>1. above = p
    BY <1>3
  <2>2. /\ Range(p) \subseteq new
        /\ \E l \in Int : /\ l <= a /\ CountTo(new, l - 1) + 1 = lim.start2
                          /\ \A i \in new : i \in Range(p) <=> l <= i /\ i < a
    <3>1. /\ n \in Nat /\ new \in SUBSET (1..n) /\ a \in Int
          /\ lim.start2 \in Int /\ 1 <= lim.start2 /\ lim.start2 <= CountTo(new, a - 1) + 1
      BY <1>0, <1>1, <1>3
    <3> HIDE DEF new, n, lim
    <3> QED BY <3>1, AboveIs
  <2> HIDE DEF above, p, new, lim
  <2> QED BY <2>1, <2>2
<1> HIDE DEF h, old, new, base, lim, above, below, e, x, n, t
<1>13. \A i \in old : i \in Int /\ i \in 1..n
  BY <1>1
<1>14. Increasing(q, n) /\ Range(q) = Range(above) \cup (a..b) \cup Range(below)
  <2>1. (\A i \in Range(above) : i < a) /\ (\A i \in Range(below) : b < i)
    BY <1>9, <1>10, <1>11
  <2> QED BY <1>0, <1>1, <1>4, <1>9, <1>10, <2>1, Stacked
<1> HIDE DEF q
<1>15. ASSUME NEW i \in Range(above) \cup Range(below) PROVE t[i] = "="
  <2>1. CASE i \in Range(below)
    <3>1. i \in old /\ b < i /\ i <= b + c.after /\ i <= n /\ i \in Int
      BY <1>9, <1>13, <2>1
    <3>2. i \in (b + 1)..(b + c.after)
      BY <1>0, <1>6, <3>1
    <3> QED BY <1>8, <3>1, <3>2
  <2>2. CASE i \in Range(above)
    <3>1. i \in old /\ i \in new
      BY <1>10, <1>12, <2>2
    <3> QED BY <1>1, <1>13, <3>1
  <2> QED BY <1>15, <2>1, <2>2
<1>16. ASSUME NEW i \in 1..n PROVE i \in a..b <=> a <= i /\ i <= b
  BY <1>0
<1>17. PartOf(Unmarked(t, q, "+"), base, lim.start1)
  <2>1. ASSUME NEW i \in old PROVE i \in Range(q) <=> lo <= i /\ i <= b + c.after
    <3>1. i \in Range(q) <=> (lo <= i /\ i < a) \/ (a <= i /\ i <= b) \/ (b < i /\ i <= b + c.after)
      BY <1>9, <1>11, <1>13, <1>14, <1>16
    <3>2. i \in Int /\ lo <= a /\ a <= b /\ b <= b + c.after
      BY <1>0, <1>4, <1>6, <1>11, <1>13
    <3> QED BY <1>0, <1>6, <3>1, <3>2
  <2>2. b + c.after \in Int
    BY <1>0, <1>6
  <2>3. PartOf(Unmarked(t, q, "+"), Ordered(old), CountTo(old, lo - 1) + 1)
    BY <1>0, <1>14, <2>1, <2>2, SideReal DEF old, n
  <2> QED BY <1>1, <1>11, <2>3
<1>18. PartOf(Unmarked(t, q, "-"), HeadFile(t), lim.start2)
  <2>1. PICK l \in Int :
          /\ l <= a /\ CountTo(new, l - 1) + 1 = lim.start2
          /\ \A i \in new : i \in Range(above) <=> l <= i /\ i < a
    BY <1>12
  <2>2. ASSUME NEW i \in new PROVE i \in Range(q) <=> l <= i /\ i <= b + c.after
    <3>0. i \in 1..n /\ i \in Int
      BY <1>1
    <3>1. i \in Range(below) <=> b < i /\ i <= b + c.after
      <4>1. ASSUME b < i, i <= b + c.after PROVE i \in Range(below)
        <5>1. i \in (b + 1)..(b + c.after) /\ i <= n
          BY <1>0, <1>6, <3>0, <4>1
        <5>2. i \in old
          BY <1>8, <5>1
        <5> QED BY <1>9, <4>1, <5>2
      <4>2. ASSUME i \in Range(below) PROVE b < i /\ i <= b + c.after
        BY <1>9, <4>2
      <4> QED BY <4>1, <4>2
    <3>2. i \in Range(q) <=> (l <= i /\ i < a) \/ (a <= i /\ i <= b) \/ (b < i /\ i <= b + c.after)
      BY <1>14, <1>16, <2>1, <3>0, <3>1
    <3>3. l <= a /\ a <= b /\ b <= b + c.after
      BY <1>0, <1>4, <1>6, <2>1
    <3> QED BY <1>0, <1>6, <3>0, <3>2, <3>3
  <2>3. b + c.after \in Int
    BY <1>0, <1>6
  <2>4. PartOf(Unmarked(t, q, "-"), Ordered(new), CountTo(new, l - 1) + 1)
    BY <1>0, <1>14, <2>2, <2>3, SideReal DEF new, n
  <2> QED BY <1>1, <2>1, <2>4
<1>19. Real(t, x)
  BY <1>7, <1>15, <1>17, <1>18 DEF Real, base
<1> QED BY <1>19 DEF x, h, base, t

\* Every hunk the models may be shown of a file whose new content was loaded is
\* where its header says.
LEMMA ExtendedAreReal ==
  ASSUME NEW f \in ListedFile, f.head, cfg \in Config, Context > 0,
         cfg.after <= Context + 1, NEW h \in Range(Extended(f))
  PROVE  Real(Split(f.script), h)
<1> DEFINE s == f.script
           P == PatchOf(f)
           E == [k \in DOMAIN P |->
                   ExtendHunk(P[k], BaseFile(Split(s)), NewLines(s), f.section, cfg)]
<1>1. s \in Script /\ Context \in Nat
  BY DiffSizesAssumption DEF ListedFile
<1>2. ASSUME NEW k \in DOMAIN P
      PROVE  \E a, b \in 1..Len(s) : RunOf(s, Context, a, b) /\ P[k] = Hunk(s, a, b)
  BY <1>1, PatchRuns DEF PatchOf
<1>3. ASSUME NEW k \in DOMAIN P PROVE Real(Split(s), P[k])
  <2>1. PICK a \in 1..Len(s), b \in 1..Len(s) : RunOf(s, Context, a, b) /\ P[k] = Hunk(s, a, b)
    BY <1>2
  <2> HIDE DEF s, P
  <2> QED BY <1>1, <2>1, RawSplit
<1>4. Extended(f) = P \/ (BaseFile(s) # <<>> /\ Extended(f) = E)
  BY DEF Extended, ExtendPatch, NewLines
<1>5. ASSUME BaseFile(s) # <<>>, NEW k \in DOMAIN P PROVE Real(Split(s), E[k])
  <2>1. PICK a \in 1..Len(s), b \in 1..Len(s) : RunOf(s, Context, a, b) /\ P[k] = Hunk(s, a, b)
    BY <1>2
  <2>2. E[k] = ExtendHunk(Hunk(s, a, b), BaseFile(Split(s)), NewLines(s), f.section, cfg)
    BY <2>1
  <2> HIDE DEF E, s, P
  <2>3. \A section : \A c \in Config :
          c.after <= Context + 1 =>
            Real(Split(s), ExtendHunk(Hunk(s, a, b), BaseFile(Split(s)), NewLines(s), section, c))
    BY <1>1, <1>5, <2>1, ExtendedReal
  <2> QED BY <2>2, <2>3
<1>6. DOMAIN E = DOMAIN P
  OBVIOUS
<1> HIDE DEF s, P, E
<1>7. Real(Split(s), h)
  BY <1>3, <1>4, <1>5, <1>6 DEF Range
<1> QED BY <1>7 DEF s

AfterFits == cfg.after <= Context + 1

\* What the models are shown around a change is there, in every pull request, of
\* every file whose new content was loaded: the lines extendPatch adds are lines
\* of both files or the empty piece after their last newline, and without the
\* lines one of the files lacks a hunk is a part of it, from the line its header
\* names. GitHub shows some context, and extendPatch adds no more below than that
\* and one (the code asks for 1, GitHub gives 3): lines further down may be of
\* the next hunk.
THEOREM ContextIsRealTheorem ==
  ASSUME Context > 0, \A i \in Inputs : i.cfg.after <= Context + 1
  PROVE  DiffSpec => []ContextIsReal
<1>1. DiffInit => AfterFits
  BY DEF DiffInit, AfterFits
<1>2. AfterFits /\ [DiffNext]_diffVars => AfterFits'
  BY DEF AfterFits, DiffNext, ListFiles, Review, Improve, callChunk, Published, diffVars, diffs
<1>3. DiffInv /\ AfterFits => ContextIsReal
  <2> SUFFICES ASSUME DiffInv, AfterFits, NEW k \in DOMAIN listed, listed[k].head,
                      NEW h \in Range(Extended(listed[k]))
               PROVE  Real(Split(listed[k].script), h)
    BY DEF ContextIsReal, Real, PartOf
  <2>1. cfg \in Config /\ listed[k] \in ListedFile
    <3> DEFINE S == ListedFile
    <3>1. listed \in Seq(S) /\ cfg \in Config
      BY DEF DiffInv
    <3> HIDE DEF S
    <3>2. listed[k] \in S
      BY <3>1
    <3> QED BY <3>1, <3>2 DEF S
  <2> QED BY <2>1, ExtendedAreReal DEF AfterFits
<1> QED BY <1>1, <1>2, <1>3, DiffInvariant, PTL DEF DiffSpec

\* Everything picked, an increasing sequence is left as it is.
LEMMA PickWhole ==
  ASSUME NEW n \in Nat, NEW q, Increasing(q, n)
  PROVE  Pick(q, DOMAIN q) = q
<1>1. Increasing(Pick(q, DOMAIN q), n) /\ Range(Pick(q, DOMAIN q)) = {q[i] : i \in DOMAIN q}
  BY PickIncreasing
<1>2. Range(q) = {q[i] : i \in DOMAIN q}
  BY DEF Range
<1> QED BY <1>1, <1>2, SameIncreasing

\* In a file without the words git uses for a missing newline, a line shown with
\* a number has it in the new file, and no added line is lost.
LEMMA NumberedTrue ==
  ASSUME NEW f \in ListedFile, f.quotes = {}, Context > 0
  PROVE  LET hunks == Converted(f.script, f.quotes, OmitDeletionHunks(f.script, PatchOf(f)))
             shown == UNION {{h.new[n] : n \in DOMAIN h.new} : h \in Range(hunks)}
         IN /\ \A x \in shown : x.number \in DOMAIN HeadFile(f.script)
                                  /\ HeadFile(f.script)[x.number] = x.line
            /\ \A i \in DOMAIN f.script : f.script[i] = "+" =>
                 \E x \in shown : x.line = i
<1> DEFINE s == f.script
           n == Len(s)
           P == PatchOf(f)
           J == {k \in DOMAIN P : Marked(s, P[k].lines, "+") # <<>>}
           O == Pick(P, J)
           hunks == Converted(s, f.quotes, OmitDeletionHunks(s, P))
           shown == UNION {{h.new[m] : m \in DOMAIN h.new} : h \in Range(hunks)}
           file == HeadFile(s)
           newOf(k) == Unmarked(s, P[k].lines, "-")
           num(h) == Numbered(s, h.lines, h.start2)
<1>1. /\ s \in Script /\ n \in Nat /\ DOMAIN s = 1..n /\ Context \in Nat
      /\ P \in Seq(HunkOf(n)) /\ J \in SUBSET DOMAIN P
      /\ \A i \in DOMAIN s : s[i] # "=" =>
           \E k \in DOMAIN P : \E j \in DOMAIN P[k].lines : P[k].lines[j] = i
  <2>1. Context \in Nat /\ s \in Script
    BY DiffSizesAssumption DEF ListedFile
  <2> HIDE DEF s
  <2>2. n \in Nat /\ DOMAIN s = 1..n
    BY <2>1, SidesAre
  <2> QED BY <2>1, <2>2, PatchProperties DEF PatchOf, s
<1>3. /\ \A k \in J : \E l \in DOMAIN O : O[l] = P[k]
      /\ \A l \in DOMAIN O : \E k \in J : O[l] = P[k]
  <2> DEFINE H == HunkOf(n)
  <2> HIDE DEF P, J, H
  <2>1. P \in Seq(H) /\ J \in SUBSET DOMAIN P
    BY <1>1 DEF H
  <2> QED BY <2>1, PickHas
<1>4. file = Ordered(SideOf(s, "-")) /\ DOMAIN file = 1..Len(file) /\ Len(file) \in Nat
  <2> HIDE DEF s, n
  <2>1. file = Ordered(SideOf(s, "-")) /\ SideOf(s, "-") \in SUBSET (1..n)
    BY <1>1, SidesAre DEF n
  <2> QED BY <1>1, <2>1, CountFacts, OrderedAt
<1>5. ASSUME NEW k \in DOMAIN P
      PROVE  /\ PartOf(newOf(k), file, P[k].start2) /\ P[k].lines \in Seq(1..n)
             /\ Pick(P[k].lines, DOMAIN P[k].lines) = P[k].lines
  <2>1. PICK a \in 1..Len(s), b \in 1..Len(s) : RunOf(s, Context, a, b) /\ P[k] = Hunk(s, a, b)
    BY <1>1, PatchRuns DEF PatchOf
  <2>2. P[k].lines \in Seq(1..n)
    BY <1>1, LinesType
  <2> HIDE DEF s, P
  <2>3. Real(s, P[k])
    BY <1>1, <2>1, RawReal
  <2>4. Increasing(P[k].lines, n)
    BY <1>1, <2>1, HunkPlaces
  <2>5. Pick(P[k].lines, DOMAIN P[k].lines) = P[k].lines
    <3> HIDE DEF n
    <3> QED BY <1>1, <2>4, PickWhole
  <2> QED BY <2>2, <2>3, <2>5 DEF Real
<1>6. ASSUME NEW k \in DOMAIN P
      PROVE  LET new == newOf(k)
             IN  /\ DOMAIN num(P[k]) = DOMAIN new
                 /\ \A m \in DOMAIN new : num(P[k])[m] =
                      [number |-> P[k].start2 + m - 1, line |-> new[m]]
  BY DEF Numbered
<1>2. /\ DOMAIN hunks = DOMAIN O
      /\ \A l \in DOMAIN O : hunks[l].new = num(O[l])
  <2>1. DOMAIN hunks = DOMAIN O /\ \A l \in DOMAIN O : hunks[l] = ConvertedHunk(s, {}, O[l])
    BY DEF Converted, OmitDeletionHunks
  <2>2. ASSUME NEW l \in DOMAIN O PROVE ConvertedHunk(s, {}, O[l]).new = num(O[l])
    <3>1. PICK k \in J : O[l] = P[k]
      BY <1>3
    <3> DEFINE h == P[k]
               L == h.lines
    <3>2. Marked(s, L, "+") # <<>> /\ Pick(L, DOMAIN L) = L
      BY <1>5
    <3> HIDE DEF h
    <3>3. {i \in DOMAIN L : L[i] \notin {}} = DOMAIN L
      OBVIOUS
    <3> DEFINE lines == Pick(L, {i \in DOMAIN L : L[i] \notin {}})
               removes == Marked(s, lines, "-") # <<>>
    <3>4. lines = L
      BY <3>2, <3>3
    <3>5. ConvertedHunk(s, {}, h) =
            [new |-> IF removes \/ Marked(s, lines, "+") # <<>>
                       THEN Numbered(s, lines, h.start2) ELSE <<>>,
             old |-> IF removes THEN Unmarked(s, lines, "+") ELSE <<>>]
      BY DEF ConvertedHunk
    <3> HIDE DEF lines, removes
    <3>6. ConvertedHunk(s, {}, h).new = Numbered(s, L, h.start2)
      BY <3>2, <3>4, <3>5
    <3> QED BY <3>1, <3>6 DEF h
  <2> HIDE DEF hunks, O, num
  <2> QED BY <2>1, <2>2
<1> HIDE DEF hunks, O, J, P, file, s, newOf, num
<1>7. \A x : x \in shown <=> \E l \in DOMAIN O : \E m \in DOMAIN num(O[l]) :
                                x = num(O[l])[m]
  <2>1. \A x : x \in shown <=> \E l \in DOMAIN hunks : \E m \in DOMAIN hunks[l].new :
                                x = hunks[l].new[m]
    BY DEF Range
  <2> HIDE DEF shown
  <2> QED BY <1>2, <2>1
<1> HIDE DEF shown, n
<1>8. ASSUME NEW x \in shown
      PROVE  x.number \in DOMAIN file /\ file[x.number] = x.line
  <2>1. PICK l \in DOMAIN O : \E m \in DOMAIN num(O[l]) : x = num(O[l])[m]
    BY <1>7
  <2>2. PICK k \in DOMAIN P : O[l] = P[k]
    BY <1>3 DEF J
  <2> DEFINE new == newOf(k)
             from == P[k].start2
             to == from + Len(new) - 1
  <2>3. PICK m \in DOMAIN new : x = [number |-> from + m - 1, line |-> new[m]]
    BY <1>6, <2>1, <2>2
  <2>4. /\ new = SubSeq(file, from, to)
        /\ from \in Int /\ 1 <= from /\ to <= Len(file)
    <3>1. new # <<>>
      <4> HIDE DEF new
      <4> QED BY <2>3
    <3> QED BY <1>5, <3>1 DEF PartOf
  <2>5. Len(new) \in Nat /\ DOMAIN new = 1..Len(new)
    <3>1. P[k].lines \in Seq(1..n) /\ {j \in DOMAIN P[k].lines : s[P[k].lines[j]] # "-"}
                                          \in SUBSET DOMAIN P[k].lines
      BY <1>5
    <3> DEFINE S == 1..n
    <3>2. new \in Seq(S)
      BY <3>1, PickProperties DEF newOf, Unmarked
    <3> HIDE DEF S, new
    <3> QED BY <3>2
  <2> HIDE DEF new, from
  <2>6. to \in Int /\ m \in Nat /\ m >= 1 /\ from + m - 1 <= to
    BY <2>4, <2>5
  <2>7. from + m - 1 \in 1..Len(file)
    BY <1>4, <2>4, <2>6
  <2>8. new[m] = file[from + m - 1]
    <3> HIDE DEF to
    <3>1. SubSeq(file, from, to) = [i \in 1..(IF from <= to THEN to - from + 1 ELSE 0) |-> file[from + i - 1]]
      BY <2>4, <2>6, PartIs
    <3>2. m \in 1..(IF from <= to THEN to - from + 1 ELSE 0)
      BY <2>4, <2>6
    <3> QED BY <2>4, <3>1, <3>2
  <2> QED BY <1>4, <2>3, <2>7, <2>8
<1>9. ASSUME NEW i \in DOMAIN s, s[i] = "+"
      PROVE  \E x \in shown : x.line = i
  <2>1. PICK k \in DOMAIN P : \E j \in DOMAIN P[k].lines : P[k].lines[j] = i
    BY <1>1, <1>9
  <2>2. PICK j \in DOMAIN P[k].lines : P[k].lines[j] = i
    BY <2>1
  <2> DEFINE L == P[k].lines
             A == {d \in DOMAIN L : s[L[d]] = "+"}
             B == {d \in DOMAIN L : s[L[d]] # "-"}
             S == 1..n
  <2>3. L \in Seq(S) /\ A \in SUBSET DOMAIN L /\ B \in SUBSET DOMAIN L
    BY <1>5
  <2>4. j \in A /\ j \in B
    BY <1>9, <2>2
  <2>5. Marked(s, L, "+") = Pick(L, A) /\ newOf(k) = Pick(L, B)
    BY DEF Marked, Unmarked, newOf
  <2>6. L[j] = i
    BY <2>2
  <2> HIDE DEF S, L, A, B
  <2>7. Pick(L, A) # <<>>
    BY <2>3, <2>4, PickSome
  <2>8. k \in J
    BY <2>5, <2>7 DEF J, L
  <2>9. PICK l \in DOMAIN O : O[l] = P[k]
    BY <1>3, <2>8
  <2>10. PICK m \in DOMAIN Pick(L, B) : Pick(L, B)[m] = i
    <3>1. /\ \A d \in B : \E m \in DOMAIN Pick(L, B) : Pick(L, B)[m] = L[d]
          /\ \A m \in DOMAIN Pick(L, B) : \E d \in B : Pick(L, B)[m] = L[d]
      <4>1. L \in Seq(S) /\ B \in SUBSET DOMAIN L
        BY <2>3
      <4> QED BY <4>1, PickHas
    <3> QED BY <2>4, <2>6, <3>1
  <2>11. /\ m \in DOMAIN num(O[l])
         /\ num(O[l])[m] = [number |-> P[k].start2 + m - 1, line |-> i]
    BY <1>6, <2>5, <2>9, <2>10
  <2>12. num(O[l])[m] \in shown /\ num(O[l])[m].line = i
    BY <1>7, <2>11
  <2> QED BY <2>12
<1> QED BY <1>8, <1>9 DEF shown, hunks, P, file, s

\* The number a line is shown with is its number in the new file, and every added
\* line is shown, whatever the change, in every file none of whose lines has the
\* words "no newline at end of file": suggestions are placed by these numbers
\* (hunk.ts). GitHub shows some context.
THEOREM NumbersAreTrueTheorem ==
  ASSUME Context > 0
  PROVE  DiffSpec => []NumbersAreTrue
<1>1. DiffInv => NumbersAreTrue
  <2> SUFFICES ASSUME DiffInv, NEW k \in DOMAIN listed, listed[k].quotes = {}
               PROVE  LET f == listed[k]
                          hunks == Converted(f.script, f.quotes, OmitDeletionHunks(f.script, PatchOf(f)))
                          shown == UNION {{h.new[n] : n \in DOMAIN h.new} : h \in Range(hunks)}
                      IN /\ \A x \in shown : x.number \in DOMAIN HeadFile(f.script)
                                               /\ HeadFile(f.script)[x.number] = x.line
                         /\ \A i \in DOMAIN f.script : f.script[i] = "+" =>
                              \E x \in shown : x.line = i
    BY Zenon DEF NumbersAreTrue
  <2>1. listed[k] \in ListedFile
    <3> DEFINE S == ListedFile
    <3>1. listed \in Seq(S)
      BY DEF DiffInv
    <3> HIDE DEF S
    <3>2. listed[k] \in S
      BY <3>1
    <3> QED BY <3>2 DEF S
  <2> QED BY <2>1, NumberedTrue, Zenon
<1> QED BY <1>1, DiffInvariant, PTL
=============================================================================
