------------------------ MODULE DbReviewQueue_proofs ------------------------
(***************************************************************************)
(* The safety of the database queue, for any number of processes, pull     *)
(* requests, requests, failures, crashes and claims that fail.             *)
(***************************************************************************)
EXTENDS DbReviewQueue, FiniteSetTheorems, FunctionTheorems, SequenceTheorems,
        WellFoundedInduction, TLAPS

\* A slot counted free when the claim was asked for is kept for it: nothing else
\* of the process begins a review, and no claim takes more rows.
SlotsReserved ==
  \A p \in Processes :
    /\ InFlight(p) + slots[p] <= Cap
    /\ slots[p] = 0 => claimed[p] = <<>> /\ pumper[p] = "none"
    /\ IsFiniteSet(Claimed(p)) /\ Cardinality(Claimed(p)) <= slots[p]

\* A row nobody has wrongly re-queued is held once, as a job or as a claimed row,
\* and is marked running while it is.
OnceIn(s, k) == \A i, j \in DOMAIN s : s[i] = k /\ s[j] = k => i = j

HeldOnce(k) ==
  /\ \A p \in Processes : OnceIn(jobs[p], k)
  /\ \A p, q \in Processes : k \in Reviewed(p) /\ k \in Reviewed(q) => p = q
  /\ \A p, q \in Processes : k \in Claimed(p) /\ k \in Claimed(q) => p = q
  /\ \A p, q \in Processes : k \in Claimed(p) => k \notin Reviewed(q)
  /\ \A p \in Processes : k \in Reviewed(p) \cup Claimed(p) => state[k] = "running"

Holders == \A k \in PRs \ shared : HeldOnce(k)

\* The claim that the loop asked for is one that the loop awaits.
LoopAwaits == \A p \in Processes : pumper[p] = "loop" => loop[p] = "awaiting"

\* "a waiter can never be stranded": a loop that waits for its jobs has a job,
\* or a re-run's claim, whose end wakes it.
LoopNotStranded ==
  \A p \in Processes :
    loop[p] = "waiting" => InFlight(p) > 0 \/ pumper[p] = "rerun"

\* The inductive invariant. The cap needs the reservation; that no pull request is
\* reviewed twice needs the status of the rows held, and so does RequestRecorded.
IInv ==
  /\ TypeOK
  /\ SlotsReserved
  /\ Holders
  /\ NoWedgedRow
  /\ RequestRecorded
  /\ LoopAwaits
  /\ LoopNotStranded

----------------------------------------------------------------------------
(* Numbers, finite sets and sequences.                                        *)

LEMMA LeastNatural ==
  ASSUME NEW T \in SUBSET Nat, T # {}
  PROVE  \E x \in T : \A y \in T : x <= y
<1> DEFINE R == {ss \in Nat \X Nat : ss[1] < ss[2]}
<1>1. IsWellFoundedOn(R, Nat)
  BY NatLessThanWellFounded DEF OpToRel
<1>2. \A x \in Nat, y \in Nat : y < x => <<y, x>> \in R
  OBVIOUS
<1> HIDE DEF R
<1>3. PICK x \in T : \A y \in T : ~ (<<y, x>> \in R)
  BY <1>1, WFMin
<1>4. ASSUME NEW y \in T PROVE x <= y
  <2>1. x \in Nat /\ y \in Nat /\ <<y, x>> \notin R
    BY <1>3
  <2>2. ~(y < x)
    BY <1>2, <2>1
  <2> QED BY <2>1, <2>2
<1> QED BY <1>4

LEMMA SetToSeqProperties ==
  ASSUME NEW S, IsFiniteSet(S)
  PROVE  /\ SetToSeq(S) \in Seq(S)
         /\ Len(SetToSeq(S)) = Cardinality(S)
         /\ IsInjective(SetToSeq(S))
         /\ ToSet(SetToSeq(S)) = S
<1> DEFINE n == Cardinality(S)
           s == SetToSeq(S)
<1>1. n \in Nat /\ ExistsBijection(1..n, S)
  BY FS_CardinalityType
<1> HIDE DEF n
<1>2. \E f \in [1..n -> S] : IsInjective(f)
  BY <1>1 DEF ExistsBijection, Bijection, Injection
<1>3. s \in [1..n -> S] /\ IsInjective(s)
  BY <1>2 DEF SetToSeq, n
<1> HIDE DEF s
<1>4. s \in Seq(S) /\ Len(s) = n /\ DOMAIN s = 1..n
  BY <1>1, <1>3
<1>5. IsFiniteSet(1..n) /\ Cardinality(1..n) = n
  BY <1>1, FS_Interval
<1>6. s \in Surjection(1..n, S)
  <2>1. s \in Injection(1..n, S)
    BY <1>3 DEF Injection
  <2> QED BY <1>5, <2>1, FS_Injection DEF n
<1>7. ToSet(s) = S
  BY <1>3, <1>4, <1>6 DEF ToSet, Surjection
<1> QED BY <1>3, <1>4, <1>7 DEF n, s

LEMMA ConcatLength ==
  ASSUME NEW S, NEW s \in Seq(S), NEW t \in Seq(S)
  PROVE  s \o t \in Seq(S) /\ Len(s \o t) = Len(s) + Len(t)
BY ConcatProperties

LEMMA LengthSum ==
  ASSUME NEW S, NEW T, NEW s \in Seq(S), NEW t \in Seq(T)
  PROVE  Len(s) + Len(t) \in Nat
OBVIOUS

\* Where the elements of a sequence are when one is taken out.
LEMMA RemoveAtPlaces ==
  ASSUME NEW S, NEW s \in Seq(S), NEW i \in 1..Len(s)
  PROVE  /\ RemoveAt(s, i) \in Seq(S)
         /\ Len(RemoveAt(s, i)) = Len(s) - 1
         /\ \A j \in 1..(Len(s) - 1) :
              RemoveAt(s, i)[j] = s[IF j < i THEN j ELSE j + 1]
<1> DEFINE a == SubSeq(s, 1, i - 1)
           b == SubSeq(s, i + 1, Len(s))
<1>1. /\ a \in Seq(S) /\ Len(a) = i - 1
      /\ \A j \in 1..(i - 1) : a[j] = s[j]
  <2>1. \A j \in 1..(i - 1) : s[j] \in S
    OBVIOUS
  <2>2. 1 \in Int /\ i - 1 \in Int
    OBVIOUS
  <2> QED BY <2>1, <2>2, SubSeqProperties
<1>2. /\ b \in Seq(S) /\ Len(b) = Len(s) - i
      /\ \A j \in 1..(Len(s) - i) : b[j] = s[j + i]
  <2>1. \A j \in (i + 1)..Len(s) : s[j] \in S
    OBVIOUS
  <2>2. i + 1 \in Int /\ Len(s) \in Int
    OBVIOUS
  <2> QED BY <2>1, <2>2, SubSeqProperties
<1> HIDE DEF a, b
<1>3. RemoveAt(s, i) = a \o b
  BY DEF RemoveAt, a, b
<1>4. a \o b \in Seq(S) /\ Len(a \o b) = Len(s) - 1
  BY <1>1, <1>2, ConcatProperties
<1>5. \A j \in 1..(Len(s) - 1) : (a \o b)[j] = s[IF j < i THEN j ELSE j + 1]
  <2> SUFFICES ASSUME NEW j \in 1..(Len(s) - 1)
               PROVE  (a \o b)[j] = s[IF j < i THEN j ELSE j + 1]
    OBVIOUS
  <2>1. (a \o b)[j] = IF j <= Len(a) THEN a[j] ELSE b[j - Len(a)]
    BY <1>1, <1>2, ConcatProperties
  <2>2. CASE j < i
    BY <1>1, <2>1, <2>2
  <2>3. CASE j >= i
    <3>1. j - Len(a) \in 1..(Len(s) - i) /\ (j - Len(a)) + i = j + 1 /\ ~(j <= Len(a))
      BY <1>1, <2>3
    <3>2. (a \o b)[j] = b[j - Len(a)]
      BY <2>1, <3>1
    <3>3. b[j - Len(a)] = s[(j - Len(a)) + i]
      BY <1>2, <3>1
    <3>4. ~(j < i)
      BY <2>3
    <3> QED BY <3>1, <3>2, <3>3, <3>4
  <2>4. j < i \/ j >= i
    OBVIOUS
  <2> QED BY <2>2, <2>3, <2>4
<1> QED BY <1>3, <1>4, <1>5

\* The row taken out is at no other place, if it was there once.
LEMMA RemoveAtOnce ==
  ASSUME NEW S, NEW s \in Seq(S), NEW i \in 1..Len(s)
  PROVE  /\ ToSet(RemoveAt(s, i)) \subseteq ToSet(s)
         /\ ToSet(s) \ {s[i]} \subseteq ToSet(RemoveAt(s, i))
         /\ \A k : OnceIn(s, k) => OnceIn(RemoveAt(s, i), k)
         /\ OnceIn(s, s[i]) => s[i] \notin ToSet(RemoveAt(s, i))
<1> DEFINE r == RemoveAt(s, i)
           Was(j) == IF j < i THEN j ELSE j + 1
<1>1. /\ r \in Seq(S) /\ Len(r) = Len(s) - 1
      /\ \A j \in 1..(Len(s) - 1) : r[j] = s[Was(j)]
  BY RemoveAtPlaces
<1> HIDE DEF r
<1>2. DOMAIN r = 1..(Len(s) - 1) /\ DOMAIN s = 1..Len(s)
  BY <1>1
<1>3. \A j \in DOMAIN r : Was(j) \in DOMAIN s /\ Was(j) # i /\ r[j] = s[Was(j)]
  BY <1>1, <1>2
<1>4. \A g, h \in DOMAIN r : Was(g) = Was(h) => g = h
  BY <1>2
<1>5. \A h \in DOMAIN s : h # i => \E j \in DOMAIN r : Was(j) = h
  <2> SUFFICES ASSUME NEW h \in DOMAIN s, h # i PROVE \E j \in DOMAIN r : Was(j) = h
    OBVIOUS
  <2>1. CASE h < i
    <3>1. h \in DOMAIN r /\ Was(h) = h
      BY <1>2, <2>1
    <3> QED BY <3>1
  <2>2. CASE h > i
    <3>1. h - 1 \in DOMAIN r /\ Was(h - 1) = h
      BY <1>2, <2>2
    <3> QED BY <3>1
  <2> QED BY <1>2, <2>1, <2>2
<1> HIDE DEF Was
<1>6. i \in DOMAIN s
  BY <1>2
<1>7. ToSet(r) \subseteq ToSet(s)
  BY <1>3 DEF ToSet
<1>8. ToSet(s) \ {s[i]} \subseteq ToSet(r)
  BY <1>3, <1>5 DEF ToSet
<1>9. ASSUME NEW k, OnceIn(s, k) PROVE OnceIn(r, k)
  BY <1>3, <1>4, <1>9 DEF OnceIn
<1>10. OnceIn(s, s[i]) => s[i] \notin ToSet(r)
  BY <1>3, <1>6 DEF OnceIn, ToSet
<1> QED BY <1>7, <1>8, <1>9, <1>10 DEF r

\* Where the elements of two sequences are when one follows the other.
LEMMA ConcatOnce ==
  ASSUME NEW S, NEW s \in Seq(S), NEW t \in Seq(S)
  PROVE  /\ ToSet(s \o t) = ToSet(s) \cup ToSet(t)
         /\ \A k : OnceIn(s, k) /\ k \notin ToSet(t) => OnceIn(s \o t, k)
         /\ \A k : OnceIn(t, k) /\ k \notin ToSet(s) => OnceIn(s \o t, k)
<1> DEFINE c == s \o t
           n == Len(s)
<1>1. /\ n \in Nat /\ Len(t) \in Nat
      /\ DOMAIN s = 1..n /\ DOMAIN t = 1..Len(t)
      /\ \A j \in DOMAIN s : s[j] \in S
  OBVIOUS
<1>2. /\ DOMAIN c = 1..(n + Len(t))
      /\ \A j \in DOMAIN c : c[j] = IF j <= n THEN s[j] ELSE t[j - n]
  <2>1. c \in Seq(S) /\ Len(c) = n + Len(t)
    BY ConcatLength
  <2>2. \A j \in 1..(n + Len(t)) : c[j] = IF j <= n THEN s[j] ELSE t[j - n]
    BY ConcatProperties
  <2>3. DOMAIN c = 1..Len(c)
    BY <2>1
  <2> HIDE DEF c
  <2> QED BY <2>1, <2>2, <2>3
<1> HIDE DEF c, n
<1>3. \A j \in DOMAIN s : j \in DOMAIN c /\ c[j] = s[j] /\ j <= n
  BY <1>1, <1>2
<1>4. \A j \in DOMAIN t : j + n \in DOMAIN c /\ c[j + n] = t[j]
  <2> SUFFICES ASSUME NEW j \in DOMAIN t PROVE j + n \in DOMAIN c /\ c[j + n] = t[j]
    OBVIOUS
  <2>1. j + n \in DOMAIN c /\ ~(j + n <= n) /\ (j + n) - n = j
    BY <1>1, <1>2
  <2> QED BY <1>2, <2>1
<1>5. ASSUME NEW j \in DOMAIN c
      PROVE  \/ j \in DOMAIN s /\ c[j] = s[j]
             \/ j - n \in DOMAIN t /\ c[j] = t[j - n]
  <2>1. CASE j <= n
    <3>1. j \in DOMAIN s
      BY <1>1, <1>2, <2>1
    <3>2. c[j] = s[j]
      BY <1>2, <2>1
    <3> QED BY <3>1, <3>2
  <2>2. CASE ~(j <= n)
    <3>1. j - n \in DOMAIN t
      BY <1>1, <1>2, <2>2
    <3> QED BY <1>2, <2>2, <3>1
  <2> QED BY <2>1, <2>2
<1>6. ToSet(c) = ToSet(s) \cup ToSet(t)
  BY <1>3, <1>4, <1>5 DEF ToSet
<1>7. ASSUME NEW k, OnceIn(s, k), k \notin ToSet(t) PROVE OnceIn(c, k)
  BY <1>5, <1>7 DEF OnceIn, ToSet
<1>8. ASSUME NEW k, OnceIn(t, k), k \notin ToSet(s) PROVE OnceIn(c, k)
  <2>1. \A j \in DOMAIN c : c[j] = k => j - n \in DOMAIN t /\ t[j - n] = k
    BY <1>5, <1>8 DEF ToSet
  <2>2. \A g, h \in DOMAIN c : g - n = h - n => g = h
    BY <1>1, <1>2
  <2> QED BY <1>8, <2>1, <2>2 DEF OnceIn
<1> QED BY <1>6, <1>7, <1>8 DEF c

----------------------------------------------------------------------------
(* The order of the rows, and what a claim takes.                             *)

LEMMA PostponeType ==
  ASSUME order \in Seq(PRs), NEW k \in PRs
  PROVE  Postpone(k) \in Seq(PRs)
<1>1. RemoveFirst(order, k) \in Seq(PRs)
  <2> DEFINE I == {i \in 1..Len(order) : order[i] = k}
  <2>1. CASE I = {}
    BY <2>1 DEF RemoveFirst
  <2>2. CASE I # {}
    <3>1. I \in SUBSET Nat
      OBVIOUS
    <3>2. \E i \in I : \A j \in I : i <= j
      BY <2>2, <3>1, LeastNatural
    <3>3. Min(I) \in I
      BY <3>2 DEF Min
    <3>4. SelectInSeq(order, LAMBDA v : v = k) = Min(I)
      BY <2>2 DEF SelectInSeq
    <3>5. Min(I) \in 1..Len(order)
      BY <3>3
    <3> QED BY <2>2, <3>4, <3>5, RemoveAtPlaces DEF RemoveFirst
  <2> QED BY <2>1, <2>2
<1> QED BY <1>1 DEF Postpone

\* "the oldest `limit`" are at most that many.
LEMMA OldestBounded ==
  ASSUME order \in Seq(PRs), NEW places \in SUBSET DOMAIN order, NEW limit \in Nat
  PROVE  /\ Oldest(places, limit) \in SUBSET PRs
         /\ IsFiniteSet(Oldest(places, limit))
         /\ Cardinality(Oldest(places, limit)) <= limit
<1> DEFINE UpTo(j) == {h \in places : h <= j}
           I == {j \in places : Cardinality(UpTo(j)) <= limit}
           rank == [j \in I |-> Cardinality(UpTo(j))]
           row == [j \in I |-> order[j]]
<1>1. DOMAIN order = 1..Len(order) /\ Len(order) \in Nat
  OBVIOUS
<1>2. IsFiniteSet(places)
  <2>1. IsFiniteSet(1..Len(order))
    BY <1>1, FS_Interval
  <2>2. places \in SUBSET (1..Len(order))
    BY <1>1
  <2> QED BY <2>1, <2>2, FS_Subset
<1>3. ASSUME NEW j \in places
      PROVE  IsFiniteSet(UpTo(j)) /\ Cardinality(UpTo(j)) \in Nat \ {0}
  <2>1. UpTo(j) \in SUBSET places /\ j \in UpTo(j)
    BY <1>1
  <2>2. IsFiniteSet(UpTo(j))
    BY <1>2, <2>1, FS_Subset
  <2> QED BY <2>1, <2>2, FS_CardinalityType, FS_EmptySet
<1>4. ASSUME NEW g \in places, NEW h \in places, g < h
      PROVE  Cardinality(UpTo(g)) # Cardinality(UpTo(h))
  <2>1. UpTo(g) \in SUBSET UpTo(h) /\ h \in UpTo(h) /\ h \notin UpTo(g)
    BY <1>1, <1>4
  <2> QED BY <1>3, <2>1, FS_Subset
<1>5. rank \in Injection(I, 1..limit)
  <2>1. rank \in [I -> 1..limit]
    <3>1. \A j \in I : Cardinality(UpTo(j)) \in Nat \ {0} /\ Cardinality(UpTo(j)) <= limit
      BY <1>3
    <3> HIDE DEF UpTo, I
    <3>2. \A j \in I : Cardinality(UpTo(j)) \in 1..limit
      BY <3>1
    <3> QED BY <3>2
  <2>2. ASSUME NEW g \in I, NEW h \in I, rank[g] = rank[h] PROVE g = h
    <3>1. g \in places /\ h \in places /\ Cardinality(UpTo(g)) = Cardinality(UpTo(h))
      BY <2>2
    <3>2. ~(g < h) /\ ~(h < g)
      BY <1>4, <3>1
    <3>3. g \in Int /\ h \in Int
      BY <1>1, <3>1
    <3> QED BY <3>2, <3>3
  <2> QED BY <2>1, <2>2 DEF Injection, IsInjective
<1>6. IsFiniteSet(1..limit) /\ Cardinality(1..limit) = limit
  BY FS_Interval
<1> HIDE DEF rank, UpTo
<1>7. IsFiniteSet(I) /\ Cardinality(I) <= limit
  BY <1>5, <1>6, FS_Injection
<1>8. row \in Surjection(I, Oldest(places, limit))
  BY DEF Oldest, Surjection, UpTo
<1>9. IsFiniteSet(Oldest(places, limit)) /\ Cardinality(Oldest(places, limit)) <= Cardinality(I)
  BY <1>7, <1>8, FS_Surjection
<1>10. Cardinality(I) \in Nat /\ Cardinality(Oldest(places, limit)) \in Nat
  BY <1>7, <1>9, FS_CardinalityType
<1>11. Oldest(places, limit) \in SUBSET PRs
  <2>1. \A i \in places : order[i] \in PRs
    BY <1>1
  <2> QED BY <2>1 DEF Oldest
<1> QED BY <1>7, <1>9, <1>10, <1>11

LEMMA DueProperties ==
  ASSUME TypeOK, NEW limit \in Nat
  PROVE  /\ Due(limit) \in SUBSET PRs
         /\ \A k \in Due(limit) : state[k] = "pending"
         /\ IsFiniteSet(Due(limit))
         /\ Cardinality(Due(limit)) <= limit
<1>1. order \in Seq(PRs)
  BY DEF TypeOK
<1>2. {i \in DOMAIN order : state[order[i]] = "pending"} \in SUBSET DOMAIN order
  OBVIOUS
<1>3. \A k \in Due(limit) : state[k] = "pending"
  BY DEF Due, Oldest
<1> QED BY <1>1, <1>2, <1>3, OldestBounded DEF Due

----------------------------------------------------------------------------
(* What the operations do to the variables, with their types.                 *)

Pumpers == {"none", "enqueue", "loop", "rerun"}
Loops == {"down", "turn", "awaiting", "waiting"}

LEMMA TypeUse ==
  ASSUME TypeOK
  PROVE  /\ state \in [PRs -> States] /\ rerun \in [PRs -> BOOLEAN]
         /\ order \in Seq(PRs)
         /\ jobs \in [Processes -> Seq(PRs)] /\ ending \in [Processes -> Seq(BOOLEAN)]
         /\ slots \in [Processes -> 0..Cap]
         /\ claimed \in [Processes -> {<<>>} \cup {<<rows>> : rows \in SUBSET PRs}]
         /\ pumper \in [Processes -> Pumpers] /\ loop \in [Processes -> Loops]
         /\ \A p \in Processes : /\ Len(jobs[p]) \in Nat /\ Len(ending[p]) \in Nat
                                 /\ InFlight(p) \in Nat /\ slots[p] \in Nat
                                 /\ Claimed(p) \in SUBSET PRs
                                 /\ Reviewed(p) \in SUBSET PRs
<1>1. \A p \in Processes : Claimed(p) \in SUBSET PRs
  BY DEF TypeOK, Claimed
<1>2. \A p \in Processes : Reviewed(p) \in SUBSET PRs
  BY DEF TypeOK, Reviewed, ToSet
<1>3. \A p \in Processes : /\ Len(jobs[p]) \in Nat /\ Len(ending[p]) \in Nat
                           /\ slots[p] \in Nat
  BY CapAssumption DEF TypeOK
<1>4. \A p \in Processes : InFlight(p) \in Nat
  <2> SUFFICES ASSUME NEW p \in Processes PROVE InFlight(p) \in Nat
    OBVIOUS
  <2>1. jobs[p] \in Seq(PRs) /\ ending[p] \in Seq(BOOLEAN)
    BY DEF TypeOK
  <2>2. Len(jobs[p]) + Len(ending[p]) \in Nat
    BY <2>1, LengthSum
  <2> QED BY <2>2 DEF InFlight
<1> QED BY <1>1, <1>2, <1>3, <1>4 DEF TypeOK, Pumpers, Loops

\* pump() asks for the slots that are free, if it asks.
LEMMA CallPumpEffect ==
  ASSUME TypeOK, NEW p \in Processes, NEW who \in Pumpers, NEW n \in Nat,
         CallPump(p, who, n)
  PROVE  /\ slots' \in [Processes -> 0..Cap] /\ pumper' \in [Processes -> Pumpers]
         /\ \A q \in Processes \ {p} : slots'[q] = slots[q] /\ pumper'[q] = pumper[q]
         /\ \/ PumpBusy(p, n) /\ slots'[p] = slots[p] /\ pumper'[p] = pumper[p]
            \/ /\ ~PumpBusy(p, n)
               /\ slots[p] = 0 /\ n < Cap /\ slots'[p] = Cap - n /\ pumper'[p] = who
<1>1. slots \in [Processes -> 0..Cap] /\ pumper \in [Processes -> Pumpers]
  BY TypeUse
<1>2. CASE PumpBusy(p, n)
  BY <1>1, <1>2 DEF CallPump
<1>3. CASE ~PumpBusy(p, n)
  <2>1. slots[p] = 0 /\ n < Cap /\ Cap - n \in 0..Cap
    BY <1>1, <1>3, CapAssumption DEF PumpBusy
  <2>2. /\ slots' = [slots EXCEPT ![p] = Cap - n]
        /\ pumper' = [pumper EXCEPT ![p] = who]
    BY <1>3 DEF CallPump
  <2> QED BY <1>1, <1>3, <2>1, <2>2
<1> QED BY <1>2, <1>3

\* A pump that ends has given its slots to the reviews that begin.
LEMMA EndPumpEffect ==
  ASSUME TypeOK, NEW p \in Processes, NEW begun \in SUBSET PRs, IsFiniteSet(begun),
         EndPump(p, begun)
  PROVE  /\ jobs' \in [Processes -> Seq(PRs)] /\ slots' \in [Processes -> 0..Cap]
         /\ claimed' \in [Processes -> {<<>>} \cup {<<rows>> : rows \in SUBSET PRs}]
         /\ pumper' \in [Processes -> Pumpers] /\ loop' \in [Processes -> Loops]
         /\ \A q \in Processes \ {p} :
              /\ jobs'[q] = jobs[q] /\ slots'[q] = slots[q] /\ claimed'[q] = claimed[q]
              /\ pumper'[q] = pumper[q] /\ loop'[q] = loop[q]
         /\ jobs'[p] = jobs[p] \o SetToSeq(begun)
         /\ Len(jobs'[p]) = Len(jobs[p]) + Cardinality(begun)
         /\ slots'[p] = 0 /\ claimed'[p] = <<>> /\ pumper'[p] = "none"
         /\ loop'[p] = CASE pumper[p] = "loop" -> Rest(InFlight(p) + Cardinality(begun))
                         [] pumper[p] = "rerun" -> Wake(p, InFlight(p) + Cardinality(begun))
                         [] OTHER -> loop[p]
<1> USE TypeUse
<1>1. SetToSeq(begun) \in Seq(PRs) /\ Len(SetToSeq(begun)) = Cardinality(begun)
  <2>1. SetToSeq(begun) \in Seq(begun) /\ Len(SetToSeq(begun)) = Cardinality(begun)
    BY SetToSeqProperties
  <2> QED BY <2>1
<1>2. /\ jobs[p] \o SetToSeq(begun) \in Seq(PRs)
      /\ Len(jobs[p] \o SetToSeq(begun)) = Len(jobs[p]) + Cardinality(begun)
  <2>1. jobs[p] \in Seq(PRs)
    OBVIOUS
  <2> QED BY <1>1, <2>1, ConcatLength
<1>3. jobs' = [jobs EXCEPT ![p] = jobs[p] \o SetToSeq(begun)]
  BY DEF EndPump
<1>4. /\ jobs' \in [Processes -> Seq(PRs)] /\ jobs'[p] = jobs[p] \o SetToSeq(begun)
      /\ \A q \in Processes \ {p} : jobs'[q] = jobs[q]
  BY <1>2, <1>3
<1>5. /\ slots' \in [Processes -> 0..Cap] /\ slots'[p] = 0
      /\ claimed' \in [Processes -> {<<>>} \cup {<<rows>> : rows \in SUBSET PRs}]
      /\ claimed'[p] = <<>>
      /\ pumper' \in [Processes -> Pumpers] /\ pumper'[p] = "none"
      /\ \A q \in Processes \ {p} : /\ slots'[q] = slots[q] /\ claimed'[q] = claimed[q]
                                    /\ pumper'[q] = pumper[q]
  BY CapAssumption DEF EndPump, Pumpers
<1> DEFINE next == CASE pumper[p] = "loop" -> Rest(InFlight(p) + Cardinality(begun))
                     [] pumper[p] = "rerun" -> Wake(p, InFlight(p) + Cardinality(begun))
                     [] OTHER -> loop[p]
<1>6. next \in Loops
  <2>1. loop[p] \in Loops
    OBVIOUS
  <2> QED BY <2>1 DEF Rest, Wake, Loops
<1>7. loop' = [loop EXCEPT ![p] = next]
  BY DEF EndPump
<1> HIDE DEF next
<1>8. /\ loop' \in [Processes -> Loops] /\ loop'[p] = next
      /\ \A q \in Processes \ {p} : loop'[q] = loop[q]
  BY <1>6, <1>7
<1> QED BY <1>2, <1>4, <1>5, <1>8 DEF next

\* complete() takes one job out and gives its row a status that is not running.
LEMMA CompleteEffect ==
  ASSUME TypeOK, NEW p \in Processes, NEW i \in DOMAIN jobs[p],
         CompleteDone(p, i) \/ CompleteFailed(p, i)
  PROVE  /\ jobs[p][i] \in PRs
         /\ jobs' \in [Processes -> Seq(PRs)] /\ jobs' = [jobs EXCEPT ![p] = RemoveAt(@, i)]
         /\ Len(jobs'[p]) = Len(jobs[p]) - 1
         /\ ending' \in [Processes -> Seq(BOOLEAN)]
         /\ Len(ending'[p]) = Len(ending[p]) + 1
         /\ \A q \in Processes \ {p} : jobs'[q] = jobs[q] /\ ending'[q] = ending[q]
         /\ state' \in [PRs -> States]
         /\ state'[jobs[p][i]] \in {"pending", "done", "failed"}
         /\ \A k \in PRs \ {jobs[p][i]} : state'[k] = state[k] /\ rerun'[k] = rerun[k]
         /\ rerun' \in [PRs -> BOOLEAN] /\ order' \in Seq(PRs)
         /\ \/ /\ CompleteDone(p, i)
               /\ state'[jobs[p][i]] = IF Again(jobs[p][i]) THEN "pending" ELSE "done"
            \/ CompleteFailed(p, i) /\ rerun' = rerun
         /\ UNCHANGED <<slots, claimed, pumper, loop, owed, lost, shared>>
<1> USE TypeUse
<1> DEFINE k == jobs[p][i]
<1>1. k \in PRs /\ i \in 1..Len(jobs[p])
  OBVIOUS
<1>2. RemoveAt(jobs[p], i) \in Seq(PRs) /\ Len(RemoveAt(jobs[p], i)) = Len(jobs[p]) - 1
  BY <1>1, RemoveAtPlaces
<1>3. jobs' = [jobs EXCEPT ![p] = RemoveAt(jobs[p], i)]
  BY DEF CompleteDone, CompleteFailed
<1>4. /\ jobs' \in [Processes -> Seq(PRs)] /\ jobs'[p] = RemoveAt(jobs[p], i)
      /\ \A q \in Processes \ {p} : jobs'[q] = jobs[q]
  BY <1>2, <1>3
<1>5. PICK b \in BOOLEAN : ending' = [ending EXCEPT ![p] = Append(ending[p], b)]
  <2>1. Again(k) \in BOOLEAN
    BY <1>1 DEF Again
  <2> QED BY <2>1 DEF CompleteDone, CompleteFailed
<1>6. Append(ending[p], b) \in Seq(BOOLEAN) /\ Len(Append(ending[p], b)) = Len(ending[p]) + 1
  BY AppendProperties
<1>7. /\ ending' \in [Processes -> Seq(BOOLEAN)] /\ ending'[p] = Append(ending[p], b)
      /\ \A q \in Processes \ {p} : ending'[q] = ending[q]
  BY <1>5, <1>6
<1>8. PICK x \in {"pending", "done", "failed"} :
        /\ state' = [state EXCEPT ![k] = x]
        /\ CompleteDone(p, i) => x = IF Again(k) THEN "pending" ELSE "done"
  <2>1. CASE CompleteDone(p, i)
    <3>1. state' = [state EXCEPT ![k] = IF Again(k) THEN "pending" ELSE "done"]
      BY <2>1 DEF CompleteDone
    <3> QED BY <3>1
  <2>2. CASE CompleteFailed(p, i) /\ ~CompleteDone(p, i)
    BY <2>2 DEF CompleteFailed
  <2> QED BY <2>1, <2>2
<1>9. /\ state' \in [PRs -> States] /\ state'[k] = x
      /\ \A j \in PRs \ {k} : state'[j] = state[j]
  BY <1>1, <1>8 DEF States
<1>10. rerun' \in [PRs -> BOOLEAN] /\ \A j \in PRs \ {k} : rerun'[j] = rerun[j]
  BY <1>1 DEF CompleteDone, CompleteFailed
<1>11. order' \in Seq(PRs)
  <2>1. order' = order \/ order' = Postpone(k)
    BY DEF CompleteDone, CompleteFailed
  <2>2. Postpone(k) \in Seq(PRs)
    BY <1>1, PostponeType
  <2> QED BY <2>1, <2>2
<1>12. UNCHANGED <<slots, claimed, pumper, loop, owed, lost, shared>>
  BY DEF CompleteDone, CompleteFailed, pumping, ghosts
<1>13. CompleteFailed(p, i) => rerun' = rerun
  BY DEF CompleteFailed
<1> QED BY <1>1, <1>2, <1>3, <1>4, <1>6, <1>7, <1>8, <1>9, <1>10, <1>11, <1>12, <1>13

-----------------------------------------------------------------------------
(* The free slots.                                                            *)

\* A pump() that asks for the free slots reserves them, and leaves the pump of a
\* re-run alone.
LEMMA CallPumpReserves ==
  ASSUME TypeOK, SlotsReserved, NEW p \in Processes, NEW who \in Pumpers, NEW n \in Nat,
         CallPump(p, who, n) \/ UNCHANGED <<slots, pumper>>,
         n = InFlight(p)', n <= InFlight(p),
         \A q \in Processes \ {p} : InFlight(q)' = InFlight(q),
         claimed' = claimed
  PROVE  /\ SlotsReserved'
         /\ slots' \in [Processes -> 0..Cap] /\ pumper' \in [Processes -> Pumpers]
         /\ \A q \in Processes : pumper[q] = "rerun" => pumper'[q] = "rerun"
         /\ \A q \in Processes : pumper'[q] = "loop" =>
              \/ pumper[q] = "loop"
              \/ q = p /\ who = "loop" /\ ~PumpBusy(p, n)
<1> USE TypeUse
<1>1. /\ slots' \in [Processes -> 0..Cap] /\ pumper' \in [Processes -> Pumpers]
      /\ \A q \in Processes \ {p} : slots'[q] = slots[q] /\ pumper'[q] = pumper[q]
      /\ \/ slots'[p] = slots[p] /\ pumper'[p] = pumper[p]
         \/ /\ ~PumpBusy(p, n)
            /\ slots[p] = 0 /\ n < Cap /\ slots'[p] = Cap - n /\ pumper'[p] = who
  <2>1. CASE CallPump(p, who, n)
    BY <2>1, CallPumpEffect
  <2>2. CASE UNCHANGED <<slots, pumper>>
    BY <2>2
  <2> QED BY <2>1, <2>2
<1>2. \A q \in Processes : Claimed(q)' = Claimed(q)
  BY DEF Claimed
<1>3. ASSUME NEW q \in Processes
      PROVE  /\ InFlight(q)' + slots'[q] <= Cap
             /\ slots'[q] = 0 => claimed'[q] = <<>> /\ pumper'[q] = "none"
             /\ IsFiniteSet(Claimed(q)') /\ Cardinality(Claimed(q)') <= slots'[q]
  <2>1. /\ InFlight(q) \in Nat /\ slots[q] \in Nat /\ Cap \in Nat
        /\ InFlight(q) + slots[q] <= Cap
        /\ slots[q] = 0 => claimed[q] = <<>> /\ pumper[q] = "none"
        /\ IsFiniteSet(Claimed(q)) /\ Cardinality(Claimed(q)) <= slots[q]
        /\ Cardinality(Claimed(q)) \in Nat
    BY CapAssumption, FS_CardinalityType DEF SlotsReserved
  <2>2. CASE q # p
    BY <1>1, <1>2, <2>1, <2>2
  <2>3. CASE q = p /\ slots'[p] = slots[p] /\ pumper'[p] = pumper[p]
    BY <1>2, <2>1, <2>3
  <2>4. CASE q = p /\ slots[p] = 0 /\ n < Cap /\ slots'[p] = Cap - n /\ pumper'[p] = who
    <3> HIDE TypeUse
    <3>1. InFlight(q)' + slots'[q] = Cap /\ slots'[q] \in Nat /\ slots'[q] # 0
      <4>1. n + (Cap - n) = Cap /\ Cap - n \in Nat /\ Cap - n # 0
        BY <2>1, <2>4
      <4> QED BY <2>4, <4>1
    <3>2. Cardinality(Claimed(q)') <= slots'[q]
      BY <1>2, <2>1, <2>4, <3>1
    <3> QED BY <1>2, <2>1, <2>4, <3>1, <3>2
  <2> QED BY <1>1, <2>2, <2>3, <2>4
<1>4. \A q \in Processes : pumper[q] = "rerun" => pumper'[q] = "rerun"
  BY <1>1 DEF SlotsReserved
<1>5. \A q \in Processes : pumper'[q] = "loop" =>
        \/ pumper[q] = "loop"
        \/ q = p /\ who = "loop" /\ ~PumpBusy(p, n)
  <2> SUFFICES ASSUME NEW q \in Processes, pumper'[q] = "loop", pumper[q] # "loop"
               PROVE  q = p /\ who = "loop" /\ ~PumpBusy(p, n)
    OBVIOUS
  <2> HIDE TypeUse
  <2>1. q = p
    BY <1>1
  <2> QED BY <1>1, <2>1
<1>6. SlotsReserved'
  BY <1>3 DEF SlotsReserved
<1> QED BY <1>1, <1>4, <1>5, <1>6

\* What frees a slot of a process, or gives its slots to reviews.
LEMMA OthersReserved ==
  ASSUME SlotsReserved, NEW p \in Processes,
         \A q \in Processes \ {p} :
           /\ InFlight(q)' = InFlight(q) /\ slots'[q] = slots[q]
           /\ claimed'[q] = claimed[q] /\ pumper'[q] = pumper[q],
         InFlight(p)' <= Cap, InFlight(p)' \in Nat,
         slots'[p] = 0, claimed'[p] = <<>>, pumper'[p] = "none"
  PROVE  SlotsReserved'
<1>1. Claimed(p)' = {} /\ \A q \in Processes \ {p} : Claimed(q)' = Claimed(q)
  BY DEF Claimed
<1>2. IsFiniteSet(Claimed(p)') /\ Cardinality(Claimed(p)') = 0
  BY <1>1, FS_EmptySet
<1>3. \A q \in Processes \ {p} :
        /\ InFlight(q)' + slots'[q] <= Cap
        /\ slots'[q] = 0 => claimed'[q] = <<>> /\ pumper'[q] = "none"
        /\ IsFiniteSet(Claimed(q)') /\ Cardinality(Claimed(q)') <= slots'[q]
  BY <1>1 DEF SlotsReserved
<1>4. InFlight(p)' + slots'[p] <= Cap /\ Cardinality(Claimed(p)') <= slots'[p]
  BY <1>2
<1>5. \A q \in Processes :
        /\ InFlight(q)' + slots'[q] <= Cap
        /\ slots'[q] = 0 => claimed'[q] = <<>> /\ pumper'[q] = "none"
        /\ IsFiniteSet(Claimed(q)') /\ Cardinality(Claimed(q)') <= slots'[q]
  BY <1>2, <1>3, <1>4
<1> QED BY <1>5 DEF SlotsReserved

-----------------------------------------------------------------------------
(* The rows held.                                                             *)

\* A step that at most lets go of jobs and claims, and does not re-queue a row
\* that somebody holds without its being counted as shared.
LEMMA HoldersShrink ==
  ASSUME Holders, shared \subseteq shared',
         \A q \in Processes : /\ jobs'[q] \in {jobs[q], <<>>}
                              /\ claimed'[q] \in {claimed[q], <<>>},
         \A k \in PRs \ shared', q \in Processes :
           k \in Reviewed(q) \cup Claimed(q) => state'[k] = "running"
  PROVE  Holders'
<1>1. ASSUME NEW q \in Processes, NEW k
      PROVE  /\ k \in Reviewed(q)' => k \in Reviewed(q)
             /\ k \in Claimed(q)' => k \in Claimed(q)
             /\ OnceIn(jobs[q], k) => OnceIn(jobs'[q], k)
  <2>1. DOMAIN <<>> = {} /\ ToSet(<<>>) = {}
    BY DEF ToSet
  <2>2. k \in Reviewed(q)' => k \in Reviewed(q)
    BY <2>1 DEF Reviewed
  <2>3. k \in Claimed(q)' => k \in Claimed(q)
    BY DEF Claimed
  <2>4. OnceIn(jobs[q], k) => OnceIn(jobs'[q], k)
    BY <2>1 DEF OnceIn
  <2> QED BY <2>2, <2>3, <2>4
<1>2. ASSUME NEW k \in PRs \ shared' PROVE HeldOnce(k)'
  <2>1. HeldOnce(k)
    BY <1>2 DEF Holders
  <2>2. \A q \in Processes : k \in Reviewed(q)' \cup Claimed(q)' => state'[k] = "running"
    BY <1>1, <1>2
  <2> QED BY <1>1, <2>1, <2>2 DEF HeldOnce
<1> QED BY <1>2 DEF Holders

LEMMA HoldersClaim ==
  ASSUME TypeOK, SlotsReserved, Holders, NEW p \in Processes, Claim(p)
  PROVE  Holders'
<1> DEFINE due == Due(slots[p])
<1>1. due \in SUBSET PRs /\ \A k \in due : state[k] = "pending"
  BY TypeUse, DueProperties
<1>2. /\ claimed[p] = <<>> /\ claimed' = [claimed EXCEPT ![p] = <<due>>]
      /\ state' = [k \in PRs |-> IF k \in due THEN "running" ELSE state[k]]
      /\ jobs' = jobs /\ shared' = shared
  BY DEF Claim, ghosts
<1> HIDE DEF due
<1>3. /\ \A q \in Processes : Reviewed(q)' = Reviewed(q)
      /\ Claimed(p)' = due /\ Claimed(p) = {}
      /\ \A q \in Processes \ {p} : Claimed(q)' = Claimed(q)
  BY <1>2, TypeUse DEF Reviewed, Claimed
<1>4. ASSUME NEW k \in PRs \ shared PROVE HeldOnce(k)'
  <2>1. HeldOnce(k)
    BY DEF Holders
  <2>2. \A q \in Processes : OnceIn(jobs'[q], k)
    BY <1>2, <2>1 DEF HeldOnce
  <2>3. CASE k \in due
    <3>1. \A q \in Processes : k \notin Reviewed(q) /\ k \notin Claimed(q)
      BY <1>1, <2>1, <2>3 DEF HeldOnce
    <3>2. state'[k] = "running"
      BY <1>2, <2>3
    <3> QED BY <1>3, <2>2, <3>1, <3>2 DEF HeldOnce
  <2>4. CASE k \notin due
    <3>1. \A q \in Processes : k \in Claimed(q)' => k \in Claimed(q)
      BY <1>3, <2>4
    <3>2. state'[k] = state[k]
      BY <1>2, <2>4
    <3> QED BY <1>3, <2>1, <2>2, <3>1, <3>2 DEF HeldOnce
  <2> QED BY <2>3, <2>4
<1> QED BY <1>2, <1>4 DEF Holders

\* The reviews that begin are those of the rows claimed.
LEMMA BeginEffect ==
  ASSUME TypeOK, SlotsReserved, NEW p \in Processes, Begin(p)
  PROVE  /\ EndPump(p, Claimed(p)) /\ Claimed(p) \in SUBSET PRs /\ IsFiniteSet(Claimed(p))
         /\ Cardinality(Claimed(p)) <= slots[p]
         /\ owed' = owed \ Claimed(p)
         /\ UNCHANGED <<state, rerun, order, ending, lost, shared>>
<1>1. Claimed(p) = claimed[p][1]
  BY DEF Begin, Claimed
<1> QED BY <1>1, TypeUse DEF Begin, SlotsReserved, store

LEMMA HoldersBegin ==
  ASSUME TypeOK, SlotsReserved, Holders, NEW p \in Processes, Begin(p)
  PROVE  /\ Holders'
         /\ Reviewed(p)' = Reviewed(p) \cup Claimed(p)
         /\ Claimed(p)' = {}
         /\ \A q \in Processes \ {p} : /\ Reviewed(q)' = Reviewed(q)
                                       /\ Claimed(q)' = Claimed(q)
<1> DEFINE begun == Claimed(p)
<1>1. begun \in SUBSET PRs /\ IsFiniteSet(begun) /\ EndPump(p, begun)
  BY BeginEffect
<1>2. /\ state' = state /\ shared' = shared
      /\ jobs[p] \in Seq(PRs)
      /\ jobs'[p] = jobs[p] \o SetToSeq(begun) /\ claimed'[p] = <<>>
      /\ \A q \in Processes \ {p} : jobs'[q] = jobs[q] /\ claimed'[q] = claimed[q]
  BY <1>1, TypeUse, EndPumpEffect, BeginEffect
<1>3. /\ SetToSeq(begun) \in Seq(PRs) /\ ToSet(SetToSeq(begun)) = begun
      /\ \A k : OnceIn(SetToSeq(begun), k)
  <2>1. /\ SetToSeq(begun) \in Seq(begun) /\ ToSet(SetToSeq(begun)) = begun
        /\ IsInjective(SetToSeq(begun))
    BY <1>1, SetToSeqProperties
  <2>2. SetToSeq(begun) \in Seq(PRs)
    BY <1>1, <2>1
  <2> QED BY <2>1, <2>2 DEF OnceIn, IsInjective
<1>4. /\ Reviewed(p)' = Reviewed(p) \cup begun /\ Claimed(p)' = {}
      /\ \A q \in Processes \ {p} : Reviewed(q)' = Reviewed(q) /\ Claimed(q)' = Claimed(q)
  <2>1. ToSet(jobs'[p]) = ToSet(jobs[p]) \cup begun
    BY <1>2, <1>3, ConcatOnce
  <2> QED BY <1>2, <2>1 DEF Reviewed, Claimed
<1>5. ASSUME NEW k \in PRs \ shared PROVE HeldOnce(k)'
  <2>1. HeldOnce(k)
    BY DEF Holders
  <2>2. OnceIn(jobs'[p], k)
    <3>1. OnceIn(jobs[p], k)
      BY <2>1 DEF HeldOnce
    <3>2. CASE k \in begun
      <4>1. k \notin ToSet(jobs[p])
        BY <2>1, <3>2 DEF HeldOnce, Reviewed
      <4> QED BY <1>2, <1>3, <4>1, ConcatOnce
    <3>3. CASE k \notin begun
      BY <1>2, <1>3, <3>1, <3>3, ConcatOnce
    <3> QED BY <3>2, <3>3
  <2>3. \A q \in Processes : OnceIn(jobs'[q], k)
    BY <1>2, <2>1, <2>2 DEF HeldOnce
  <2>4. \A q \in Processes : k \in Reviewed(q)' \cup Claimed(q)' => state'[k] = "running"
    BY <1>2, <1>4, <2>1 DEF HeldOnce
  <2>5. \A q \in Processes : k \in Claimed(q)' => q # p /\ k \in Claimed(q)
    BY <1>4
  <2>6. \A q, r \in Processes : k \in Reviewed(q)' /\ k \in Reviewed(r)' => q = r
    BY <1>4, <2>1 DEF HeldOnce
  <2>7. \A q, r \in Processes : k \in Claimed(q)' /\ k \in Claimed(r)' => q = r
    BY <2>1, <2>5 DEF HeldOnce
  <2>8. \A q, r \in Processes : k \in Claimed(q)' => k \notin Reviewed(r)'
    BY <1>4, <2>1, <2>5 DEF HeldOnce
  <2> QED BY <2>3, <2>4, <2>6, <2>7, <2>8 DEF HeldOnce
<1> QED BY <1>2, <1>4, <1>5 DEF Holders

LEMMA HoldersComplete ==
  ASSUME TypeOK, Holders, NEW p \in Processes, NEW i \in DOMAIN jobs[p],
         CompleteDone(p, i) \/ CompleteFailed(p, i)
  PROVE  /\ Holders'
         /\ \A q \in Processes : /\ Claimed(q)' = Claimed(q)
                                 /\ Reviewed(q)' \subseteq Reviewed(q)
                                 /\ Reviewed(q) \ {jobs[p][i]} \subseteq Reviewed(q)'
         /\ jobs[p][i] \notin shared => \A q \in Processes : jobs[p][i] \notin Reviewed(q)'
<1> DEFINE r == jobs[p][i]
<1>1. /\ r \in PRs /\ jobs[p] \in Seq(PRs) /\ i \in 1..Len(jobs[p])
      /\ jobs' = [jobs EXCEPT ![p] = RemoveAt(@, i)] /\ jobs \in [Processes -> Seq(PRs)]
      /\ \A k \in PRs \ {r} : state'[k] = state[k]
      /\ shared' = shared /\ claimed' = claimed
  BY TypeUse, CompleteEffect
<1>2. /\ jobs'[p] = RemoveAt(jobs[p], i)
      /\ \A q \in Processes \ {p} : jobs'[q] = jobs[q]
      /\ \A q \in Processes : Claimed(q)' = Claimed(q)
  BY <1>1 DEF Claimed
<1>3. /\ ToSet(jobs'[p]) \subseteq ToSet(jobs[p])
      /\ ToSet(jobs[p]) \ {r} \subseteq ToSet(jobs'[p])
      /\ \A k : OnceIn(jobs[p], k) => OnceIn(jobs'[p], k)
      /\ OnceIn(jobs[p], r) => r \notin ToSet(jobs'[p])
  BY <1>1, <1>2, RemoveAtOnce
<1>4. \A q \in Processes : /\ Reviewed(q)' \subseteq Reviewed(q)
                           /\ Reviewed(q) \ {r} \subseteq Reviewed(q)'
                           /\ \A k : OnceIn(jobs[q], k) => OnceIn(jobs'[q], k)
  BY <1>2, <1>3 DEF Reviewed
<1>5. r \in Reviewed(p)
  BY <1>1 DEF Reviewed, ToSet
<1> HIDE DEF r
<1>6. r \notin shared => \A q \in Processes : r \notin Reviewed(q)' /\ r \notin Claimed(q)'
  <2> SUFFICES ASSUME r \notin shared, NEW q \in Processes
               PROVE  r \notin Reviewed(q)' /\ r \notin Claimed(q)'
    OBVIOUS
  <2>1. HeldOnce(r)
    BY <1>1 DEF Holders
  <2>2. r \notin Reviewed(p)'
    BY <1>3, <2>1 DEF HeldOnce, Reviewed
  <2>3. q # p => r \notin Reviewed(q)
    BY <1>5, <2>1 DEF HeldOnce
  <2>4. r \notin Claimed(q)
    BY <1>5, <2>1 DEF HeldOnce
  <2> QED BY <1>2, <1>4, <2>2, <2>3, <2>4
<1>7. ASSUME NEW k \in PRs \ shared PROVE HeldOnce(k)'
  <2>1. HeldOnce(k)
    BY DEF Holders
  <2>2. \A q \in Processes : k \in Reviewed(q)' \cup Claimed(q)' => state'[k] = "running"
    BY <1>1, <1>2, <1>4, <1>6, <2>1 DEF HeldOnce
  <2> QED BY <1>2, <1>4, <2>1, <2>2 DEF HeldOnce
<1> QED BY <1>1, <1>2, <1>4, <1>6, <1>7 DEF Holders, r

-----------------------------------------------------------------------------
(* The rows that are marked running, and the requests on the rows.            *)

LEMMA CopiesAreReviewed ==
  \A k : /\ Copies(k) = {} <=> \A p \in Processes : k \notin Reviewed(p)
         /\ Copies(k)' = {} <=> \A p \in Processes : k \notin Reviewed(p)'
<1> DEFINE In(J, k) == {pi \in UNION {{p} \X DOMAIN J[p] : p \in Processes} :
                          J[pi[1]][pi[2]] = k}
<1>1. ASSUME NEW J, NEW k
      PROVE  In(J, k) = {} <=> \A p \in Processes : k \notin ToSet(J[p])
  <2>1. ASSUME NEW p \in Processes, k \in ToSet(J[p]) PROVE In(J, k) # {}
    <3>1. PICK i \in DOMAIN J[p] : J[p][i] = k
      BY <2>1 DEF ToSet
    <3>2. <<p, i>> \in In(J, k)
      BY <3>1
    <3> QED BY <3>2
  <2>2. ASSUME NEW pi \in In(J, k) PROVE \E p \in Processes : k \in ToSet(J[p])
    <3>1. PICK p \in Processes : pi \in {p} \X DOMAIN J[p]
      OBVIOUS
    <3>2. J[p][pi[2]] = k /\ pi[2] \in DOMAIN J[p]
      BY <3>1
    <3> QED BY <3>2 DEF ToSet
  <2> QED BY <2>1, <2>2
<1>2. \A k : Copies(k) = In(jobs, k) /\ Copies(k)' = In(jobs', k)
  BY DEF Copies
<1> HIDE DEF In
<1> QED BY <1>1, <1>2 DEF Reviewed

\* A step that starts and ends no process, hands a row on from its holder at most to
\* another, and marks no row running.
LEMMA NoWedgedKept ==
  ASSUME NoWedgedRow, \A p \in Processes : Up(p)' => Up(p), lost \subseteq lost',
         \A k \in PRs \ lost' : state'[k] = "running" =>
           \/ \E p \in Processes : k \in Reviewed(p)' \cup Claimed(p)'
           \/ /\ state[k] = "running"
              /\ \A p \in Processes : k \in Reviewed(p) \cup Claimed(p) =>
                   \E q \in Processes : k \in Reviewed(q)' \cup Claimed(q)'
  PROVE  NoWedgedRow'
BY DEF NoWedgedRow

\* A step that loses no request: a flag is kept, a pending row goes on to be running
\* with nobody reviewing it, and a review that begins settles the requests.
LEMMA RequestKept ==
  ASSUME RequestRecorded, owed' \subseteq owed, shared \subseteq shared',
         \A k \in owed' \ shared' :
           /\ rerun[k] => rerun'[k] \/ state'[k] = "pending"
           /\ state[k] = "pending" =>
                \/ state'[k] = "pending"
                \/ state'[k] = "running" /\ \A p \in Processes : k \notin Reviewed(p)'
           /\ state[k] = "running" /\ (\A p \in Processes : k \notin Reviewed(p)) =>
                \/ state'[k] = "pending"
                \/ state'[k] = "running" /\ \A p \in Processes : k \notin Reviewed(p)'
  PROVE  RequestRecorded'
<1>1. ASSUME NEW k \in owed' \ shared'
      PROVE  \/ state'[k] = "pending" \/ rerun'[k]
             \/ state'[k] = "running" /\ Copies(k)' = {}
  <2>1. \/ state[k] = "pending" \/ rerun[k]
        \/ state[k] = "running" /\ Copies(k) = {}
    BY DEF RequestRecorded
  <2>2. /\ Copies(k) = {} => \A p \in Processes : k \notin Reviewed(p)
        /\ (\A p \in Processes : k \notin Reviewed(p)') => Copies(k)' = {}
    BY CopiesAreReviewed
  <2> QED BY <1>1, <2>1, <2>2
<1> QED BY <1>1 DEF RequestRecorded

-----------------------------------------------------------------------------
(* The invariant holds initially, and every operation keeps it.               *)

LEMMA Initially == Init => IInv
<1> SUFFICES ASSUME Init PROVE IInv
  OBVIOUS
<1>1. TypeOK
  BY CapAssumption DEF Init, TypeOK, States
<1>2. \A p \in Processes : /\ InFlight(p) = 0 /\ Reviewed(p) = {} /\ Claimed(p) = {}
                           /\ slots[p] = 0 /\ claimed[p] = <<>> /\ pumper[p] = "none"
                           /\ loop[p] = "down" /\ jobs[p] = <<>>
  BY DEF Init, InFlight, Reviewed, Claimed, ToSet
<1>3. SlotsReserved
  <2>1. IsFiniteSet({}) /\ Cardinality({}) = 0
    BY FS_EmptySet
  <2>2. 0 + 0 <= Cap
    BY CapAssumption
  <2>3. \A p \in Processes : InFlight(p) + slots[p] <= Cap
    <3>1. \A p \in Processes : InFlight(p) = 0 /\ slots[p] = 0
      BY <1>2
    <3> QED BY <2>2, <3>1
  <2>4. \A p \in Processes : Cardinality(Claimed(p)) <= slots[p] /\ IsFiniteSet(Claimed(p))
    <3>1. \A p \in Processes : Claimed(p) = {} /\ slots[p] = 0
      BY <1>2
    <3> QED BY <2>1, <3>1
  <2> QED BY <1>2, <2>3, <2>4 DEF SlotsReserved
<1>4. Holders
  BY <1>2 DEF Holders, HeldOnce, OnceIn
<1>5. NoWedgedRow /\ RequestRecorded
  BY DEF Init, NoWedgedRow, RequestRecorded
<1>6. LoopNotStranded /\ LoopAwaits
  BY <1>2 DEF LoopNotStranded, LoopAwaits
<1> QED BY <1>1, <1>3, <1>4, <1>5, <1>6 DEF IInv

LEMMA EnqueueKeeps ==
  ASSUME IInv, NEW p \in Processes, NEW k \in PRs, Enqueue(p, k)
  PROVE  IInv'
<1> USE DEF IInv
<1> USE TypeUse
<1>1. /\ jobs' = jobs /\ ending' = ending /\ claimed' = claimed /\ loop' = loop
      /\ lost' = lost /\ shared' = shared
      /\ CallPump(p, "enqueue", InFlight(p)) \/ UNCHANGED <<slots, pumper>>
  BY DEF Enqueue
<1>2. \A q \in Processes : /\ InFlight(q)' = InFlight(q) /\ Reviewed(q)' = Reviewed(q)
                           /\ Claimed(q)' = Claimed(q) /\ Up(q)' = Up(q)
  BY <1>1 DEF InFlight, Reviewed, Claimed, Up
<1>3. /\ SlotsReserved'
      /\ slots' \in [Processes -> 0..Cap] /\ pumper' \in [Processes -> Pumpers]
      /\ \A q \in Processes : pumper[q] = "rerun" => pumper'[q] = "rerun"
      /\ \A q \in Processes : pumper'[q] = "loop" => pumper[q] = "loop"
  <2>1. "enqueue" \in Pumpers /\ InFlight(p) \in Nat /\ InFlight(p) <= InFlight(p)
    BY DEF Pumpers
  <2> QED BY <1>1, <1>2, <2>1, CallPumpReserves
<1>4. /\ state' \in [PRs -> States] /\ rerun' \in [PRs -> BOOLEAN] /\ order' \in Seq(PRs)
      /\ owed' \subseteq PRs
      /\ \A j \in PRs : state[j] \in {"pending", "running"} =>
           state'[j] = state[j] /\ (rerun[j] => rerun'[j])
      /\ \A j \in PRs : state'[j] = "running" => state[j] = "running"
  <2>1. Postpone(k) \in Seq(PRs)
    BY PostponeType
  <2>2. order' = order \/ order' = Postpone(k)
    BY DEF Enqueue
  <2>3. \/ state' = state
        \/ state' = [state EXCEPT ![k] = "pending"] /\ state[k] \in {"none", "failed"}
    BY DEF Enqueue
  <2>4. rerun' = rerun \/ rerun' = [rerun EXCEPT ![k] = TRUE]
    BY DEF Enqueue
  <2>5. owed' \subseteq owed \cup {k}
    BY DEF Enqueue
  <2>6. /\ state' \in [PRs -> States]
        /\ \A j \in PRs : state[j] \in {"pending", "running"} => state'[j] = state[j]
        /\ \A j \in PRs : state'[j] = "running" => state[j] = "running"
    BY <2>3 DEF States
  <2>7. rerun' \in [PRs -> BOOLEAN] /\ \A j \in PRs : rerun[j] => rerun'[j]
    BY <2>4
  <2>8. order' \in Seq(PRs) /\ owed' \subseteq PRs
    <3>1. owed \subseteq PRs
      BY DEF TypeOK
    <3> QED BY <2>1, <2>2, <2>5, <3>1
  <2> QED BY <2>6, <2>7, <2>8
<1>5. TypeOK'
  BY <1>1, <1>3, <1>4 DEF TypeOK, Pumpers
<1>6. Holders'
  <2>1. \A j \in PRs \ shared', q \in Processes :
          j \in Reviewed(q) \cup Claimed(q) => state'[j] = "running"
    BY <1>1, <1>4 DEF Holders, HeldOnce
  <2> QED BY <1>1, <2>1, HoldersShrink
<1>7. NoWedgedRow'
  BY <1>1, <1>2, <1>4, NoWedgedKept
<1>8. RequestRecorded'
  <2> SUFFICES ASSUME NEW j \in owed' \ shared'
               PROVE  \/ state'[j] = "pending" \/ rerun'[j]
                      \/ state'[j] = "running" /\ Copies(j)' = {}
    BY DEF RequestRecorded
  <2>1. CASE j = k /\ state[k] # "done"
    <3>1. state[k] \in {"none", "pending", "running", "failed"}
      BY <2>1 DEF States
    <3> QED BY <2>1, <3>1 DEF Enqueue
  <2>2. CASE j # k \/ state[k] = "done"
    <3>1. j \in owed /\ j \in PRs
      <4>1. owed' \subseteq owed \cup {k} /\ (state[k] = "done" => owed' = owed)
        BY DEF Enqueue
      <4> QED BY <1>4, <2>2, <4>1
    <3>2. state'[j] = state[j]
      <4>1. \/ state' = state
            \/ state' = [state EXCEPT ![k] = "pending"] /\ state[k] # "done"
        BY DEF Enqueue
      <4> QED BY <2>2, <3>1, <4>1
    <3>3. rerun'[j] = rerun[j]
      <4>1. \/ rerun' = rerun
            \/ rerun' = [rerun EXCEPT ![k] = TRUE] /\ state[k] # "done"
        BY DEF Enqueue
      <4> QED BY <2>2, <3>1, <4>1
    <3>4. Copies(j)' = Copies(j)
      BY <1>1 DEF Copies
    <3> QED BY <1>1, <3>1, <3>2, <3>3, <3>4 DEF RequestRecorded
  <2> QED BY <2>1, <2>2
<1>9. LoopNotStranded' /\ LoopAwaits'
  BY <1>1, <1>2, <1>3 DEF LoopNotStranded, LoopAwaits
<1> QED BY <1>3, <1>5, <1>6, <1>7, <1>8, <1>9

LEMMA LoopTurnKeeps ==
  ASSUME IInv, NEW p \in Processes, LoopTurn(p)
  PROVE  IInv'
<1> USE DEF IInv
<1> USE TypeUse
<1> DEFINE next == IF PumpBusy(p, InFlight(p)) THEN Rest(InFlight(p)) ELSE "awaiting"
<1>1. /\ state' = state /\ rerun' = rerun /\ order' = order
      /\ jobs' = jobs /\ ending' = ending /\ claimed' = claimed
      /\ owed' = owed /\ lost' = lost /\ shared' = shared
      /\ loop[p] = "turn" /\ loop' = [loop EXCEPT ![p] = next]
      /\ CallPump(p, "loop", InFlight(p))
  BY DEF LoopTurn, store, ghosts
<1>2. next \in {"turn", "awaiting", "waiting"} /\ (next = "waiting" => InFlight(p) >= Cap)
  BY DEF Rest
<1> HIDE DEF next
<1>3. /\ loop' \in [Processes -> Loops] /\ loop'[p] = next
      /\ \A q \in Processes \ {p} : loop'[q] = loop[q]
  BY <1>1, <1>2 DEF Loops
<1>4. \A q \in Processes : /\ InFlight(q)' = InFlight(q) /\ Reviewed(q)' = Reviewed(q)
                           /\ Claimed(q)' = Claimed(q) /\ Up(q)' = Up(q)
  BY <1>1, <1>2, <1>3 DEF InFlight, Reviewed, Claimed, Up
<1>5. /\ SlotsReserved'
      /\ slots' \in [Processes -> 0..Cap] /\ pumper' \in [Processes -> Pumpers]
      /\ \A q \in Processes : pumper[q] = "rerun" => pumper'[q] = "rerun"
      /\ \A q \in Processes : pumper'[q] = "loop" =>
           pumper[q] = "loop" \/ (q = p /\ ~PumpBusy(p, InFlight(p)))
  <2>1. "loop" \in Pumpers /\ InFlight(p) \in Nat /\ InFlight(p) <= InFlight(p)
    BY DEF Pumpers
  <2> QED BY <1>1, <1>4, <2>1, CallPumpReserves
<1>6. TypeOK'
  BY <1>1, <1>3, <1>5 DEF TypeOK, Pumpers, Loops
<1>7. Holders'
  <2>1. \A j \in PRs \ shared', q \in Processes :
          j \in Reviewed(q) \cup Claimed(q) => state'[j] = "running"
    BY <1>1 DEF Holders, HeldOnce
  <2> QED BY <1>1, <2>1, HoldersShrink
<1>8. NoWedgedRow'
  BY <1>1, <1>4, NoWedgedKept
<1>9. RequestRecorded'
  BY <1>1, <1>4, RequestKept
<1>10. LoopNotStranded'
  <2>1. next = "waiting" => InFlight(p)' > 0
    <3>1. InFlight(p) \in Nat /\ Cap \in Nat \ {0} /\ InFlight(p)' = InFlight(p)
      BY <1>4, CapAssumption
    <3>2. InFlight(p) >= Cap => InFlight(p)' > 0
      BY <3>1
    <3> QED BY <1>2, <3>2
  <2> QED BY <1>3, <1>4, <1>5, <2>1 DEF LoopNotStranded
<1>11. LoopAwaits'
  <2>1. pumper[p] # "loop" /\ (~PumpBusy(p, InFlight(p)) => next = "awaiting")
    BY <1>1 DEF LoopAwaits, next
  <2> QED BY <1>3, <1>5, <2>1 DEF LoopAwaits
<1> QED BY <1>5, <1>6, <1>7, <1>8, <1>9, <1>10, <1>11

LEMMA ClaimKeeps ==
  ASSUME IInv, NEW p \in Processes, Claim(p)
  PROVE  IInv'
<1> USE DEF IInv
<1> DEFINE due == Due(slots[p])
<1>1. /\ due \in SUBSET PRs /\ \A k \in due : state[k] = "pending"
      /\ IsFiniteSet(due) /\ Cardinality(due) <= slots[p]
  BY TypeUse, DueProperties
<1>2. /\ slots[p] > 0 /\ claimed[p] = <<>> /\ claimed' = [claimed EXCEPT ![p] = <<due>>]
      /\ state' = [k \in PRs |-> IF k \in due THEN "running" ELSE state[k]]
      /\ rerun' = rerun /\ order' = order /\ jobs' = jobs /\ ending' = ending
      /\ slots' = slots /\ pumper' = pumper /\ loop' = loop
      /\ owed' = owed /\ lost' = lost /\ shared' = shared
  BY DEF Claim, ghosts
<1> HIDE DEF due
<1>3. /\ \A q \in Processes : /\ Reviewed(q)' = Reviewed(q) /\ InFlight(q)' = InFlight(q)
                              /\ Up(q)' = Up(q)
      /\ Claimed(p)' = due /\ Claimed(p) = {}
      /\ \A q \in Processes \ {p} : claimed'[q] = claimed[q] /\ Claimed(q)' = Claimed(q)
  BY <1>2, TypeUse DEF Reviewed, Claimed, InFlight, Up
<1>4. TypeOK'
  <2>1. claimed' \in [Processes -> {<<>>} \cup {<<rows>> : rows \in SUBSET PRs}]
    BY <1>1, <1>2, TypeUse
  <2>2. state' \in [PRs -> States]
    BY <1>2, TypeUse DEF States
  <2> QED BY <1>2, <2>1, <2>2 DEF TypeOK
<1>5. SlotsReserved'
  <2>1. \A q \in Processes \ {p} :
          /\ InFlight(q)' + slots'[q] <= Cap
          /\ slots'[q] = 0 => claimed'[q] = <<>> /\ pumper'[q] = "none"
          /\ IsFiniteSet(Claimed(q)') /\ Cardinality(Claimed(q)') <= slots'[q]
    BY <1>2, <1>3 DEF SlotsReserved
  <2>2. InFlight(p)' + slots'[p] <= Cap /\ slots'[p] # 0
    BY <1>2, <1>3 DEF SlotsReserved
  <2>3. \A q \in Processes :
          /\ InFlight(q)' + slots'[q] <= Cap
          /\ slots'[q] = 0 => claimed'[q] = <<>> /\ pumper'[q] = "none"
          /\ IsFiniteSet(Claimed(q)') /\ Cardinality(Claimed(q)') <= slots'[q]
    BY <1>1, <1>2, <1>3, <2>1, <2>2
  <2> QED BY <2>3 DEF SlotsReserved
<1>6. Holders'
  BY HoldersClaim
<1>7. NoWedgedRow'
  <2>1. \A k \in PRs : state'[k] = "running" => k \in Claimed(p)' \/ state[k] = "running"
    BY <1>2, <1>3
  <2>2. \A k \in PRs, q \in Processes :
          k \in Reviewed(q) \cup Claimed(q) => k \in Reviewed(q)' \cup Claimed(q)'
    BY <1>3
  <2> QED BY <1>2, <1>3, <2>1, <2>2, NoWedgedKept
<1>8. RequestRecorded'
  <2>1. ASSUME NEW k \in owed' \ shared'
        PROVE  /\ state[k] = "pending" =>
                    \/ state'[k] = "pending"
                    \/ state'[k] = "running" /\ \A q \in Processes : k \notin Reviewed(q)'
               /\ state[k] = "running" => state'[k] = "running"
    <3>1. k \in PRs \ shared
      BY <1>2 DEF TypeOK
    <3>2. state[k] = "pending" => \A q \in Processes : k \notin Reviewed(q)'
      BY <1>3, <3>1 DEF Holders, HeldOnce
    <3> QED BY <1>2, <3>1, <3>2
  <2> QED BY <1>2, <1>3, <2>1, RequestKept
<1>9. LoopNotStranded' /\ LoopAwaits'
  BY <1>2, <1>3 DEF LoopNotStranded, LoopAwaits
<1> QED BY <1>4, <1>5, <1>6, <1>7, <1>8, <1>9

\* A pump that ends leaves the loop where somebody wakes it.
LEMMA EndPumpKeeps ==
  ASSUME TypeOK, SlotsReserved, LoopAwaits, LoopNotStranded,
         NEW p \in Processes, NEW begun \in SUBSET PRs, IsFiniteSet(begun),
         Cardinality(begun) <= slots[p], EndPump(p, begun), ending' = ending
  PROVE  /\ SlotsReserved' /\ LoopAwaits' /\ LoopNotStranded'
         /\ \A q \in Processes : Up(q)' => Up(q)
<1> DEFINE inFlight == InFlight(p) + Cardinality(begun)
           next == CASE pumper[p] = "loop" -> Rest(inFlight)
                     [] pumper[p] = "rerun" -> Wake(p, inFlight)
                     [] OTHER -> loop[p]
<1>1. /\ \A q \in Processes \ {p} :
           /\ jobs'[q] = jobs[q] /\ slots'[q] = slots[q] /\ claimed'[q] = claimed[q]
           /\ pumper'[q] = pumper[q] /\ loop'[q] = loop[q]
      /\ Len(jobs'[p]) = Len(jobs[p]) + Cardinality(begun)
      /\ slots'[p] = 0 /\ claimed'[p] = <<>> /\ pumper'[p] = "none" /\ loop'[p] = next
  BY EndPumpEffect
<1>2. /\ InFlight(p) \in Nat /\ Len(jobs[p]) \in Nat /\ Len(ending[p]) \in Nat
      /\ slots[p] \in Nat /\ Cardinality(begun) \in Nat /\ Cap \in Nat \ {0}
  BY TypeUse, FS_CardinalityType, CapAssumption
<1>3. InFlight(p) + slots[p] <= Cap
  BY DEF SlotsReserved
<1>4. InFlight(p)' = inFlight
  <2>1. InFlight(p)' = (Len(jobs[p]) + Cardinality(begun)) + Len(ending[p])
    BY <1>1 DEF InFlight
  <2>2. InFlight(p) = Len(jobs[p]) + Len(ending[p])
    BY DEF InFlight
  <2>3. \A a, b, c \in Nat : (a + b) + c = (a + c) + b
    OBVIOUS
  <2>4. (Len(jobs[p]) + Cardinality(begun)) + Len(ending[p])
          = (Len(jobs[p]) + Len(ending[p])) + Cardinality(begun)
    BY <1>2, <2>3
  <2> QED BY <2>1, <2>2, <2>4
<1>5. inFlight \in Nat /\ inFlight <= Cap /\ inFlight >= InFlight(p)
  BY <1>2, <1>3
<1>6. \A q \in Processes \ {p} : InFlight(q)' = InFlight(q)
  BY <1>1 DEF InFlight
<1> HIDE DEF inFlight
<1>7. SlotsReserved'
  BY <1>1, <1>4, <1>5, <1>6, OthersReserved
<1>8. next = "waiting" => inFlight > 0
  <2>1. inFlight >= Cap => inFlight > 0
    BY <1>2, <1>5
  <2>2. CASE pumper[p] = "loop"
    BY <2>1, <2>2 DEF Rest
  <2>3. CASE pumper[p] = "rerun"
    <3>1. inFlight # 0 => inFlight > 0
      BY <1>5
    <3> QED BY <2>3, <3>1 DEF Wake
  <2>4. CASE pumper[p] \notin {"loop", "rerun"}
    <3>1. loop[p] = "waiting" => InFlight(p) > 0
      BY <2>4 DEF LoopNotStranded
    <3>2. InFlight(p) > 0 => inFlight > 0
      BY <1>2, <1>5
    <3> QED BY <2>4, <3>1, <3>2
  <2> QED BY <2>2, <2>3, <2>4
<1>9. next # "down" => loop[p] # "down"
  BY DEF LoopAwaits, Wake
<1> HIDE DEF next
<1>10. LoopNotStranded'
  BY <1>1, <1>4, <1>6, <1>8 DEF LoopNotStranded
<1>11. LoopAwaits'
  BY <1>1 DEF LoopAwaits
<1>12. \A q \in Processes : Up(q)' => Up(q)
  BY <1>1, <1>9 DEF Up
<1> QED BY <1>7, <1>10, <1>11, <1>12

LEMMA BeginKeeps ==
  ASSUME IInv, NEW p \in Processes, Begin(p)
  PROVE  IInv'
<1> USE DEF IInv
<1> DEFINE begun == Claimed(p)
<1>1. /\ EndPump(p, begun) /\ begun \in SUBSET PRs /\ IsFiniteSet(begun)
      /\ Cardinality(begun) <= slots[p] /\ owed' = owed \ begun
      /\ state' = state /\ rerun' = rerun /\ order' = order /\ ending' = ending
      /\ lost' = lost /\ shared' = shared
  BY BeginEffect
<1>2. /\ jobs' \in [Processes -> Seq(PRs)] /\ slots' \in [Processes -> 0..Cap]
      /\ claimed' \in [Processes -> {<<>>} \cup {<<rows>> : rows \in SUBSET PRs}]
      /\ pumper' \in [Processes -> Pumpers] /\ loop' \in [Processes -> Loops]
  BY <1>1, EndPumpEffect
<1>3. TypeOK'
  BY <1>1, <1>2 DEF TypeOK, Pumpers, Loops
<1>4. /\ SlotsReserved' /\ LoopAwaits' /\ LoopNotStranded'
      /\ \A q \in Processes : Up(q)' => Up(q)
  BY <1>1, EndPumpKeeps
<1>5. /\ Holders'
      /\ Reviewed(p)' = Reviewed(p) \cup begun
      /\ \A q \in Processes \ {p} : Reviewed(q)' = Reviewed(q) /\ Claimed(q)' = Claimed(q)
  BY HoldersBegin
<1> HIDE DEF begun
<1>6. NoWedgedRow'
  <2>1. \A k \in PRs, q \in Processes : k \in Reviewed(q) \cup Claimed(q) =>
          k \in Reviewed(q)' \cup Claimed(q)'
    BY <1>5 DEF begun
  <2> QED BY <1>1, <1>4, <2>1, NoWedgedKept
<1>7. RequestRecorded'
  <2>1. \A k \in owed' : \A q \in Processes : k \in Reviewed(q)' => k \in Reviewed(q)
    BY <1>1, <1>5
  <2> QED BY <1>1, <2>1, RequestKept
<1> QED BY <1>3, <1>4, <1>5, <1>6, <1>7

LEMMA ClaimFailsKeeps ==
  ASSUME IInv, NEW p \in Processes, ClaimFails(p)
  PROVE  IInv'
<1> USE DEF IInv
<1>1. /\ EndPump(p, {}) /\ lost' = lost \cup Claimed(p)
      /\ state' = state /\ rerun' = rerun /\ order' = order /\ ending' = ending
      /\ owed' = owed /\ shared' = shared
  BY DEF ClaimFails, store
<1>2. /\ {} \in SUBSET PRs /\ IsFiniteSet({}) /\ Cardinality({}) = 0
      /\ Cardinality({}) <= slots[p]
  <2>1. slots[p] \in Nat
    BY TypeUse
  <2> QED BY <2>1, FS_EmptySet
<1>3. /\ jobs' \in [Processes -> Seq(PRs)] /\ slots' \in [Processes -> 0..Cap]
      /\ claimed' \in [Processes -> {<<>>} \cup {<<rows>> : rows \in SUBSET PRs}]
      /\ pumper' \in [Processes -> Pumpers] /\ loop' \in [Processes -> Loops]
      /\ jobs'[p] = jobs[p] \o SetToSeq({}) /\ claimed'[p] = <<>>
      /\ \A q \in Processes \ {p} : jobs'[q] = jobs[q] /\ claimed'[q] = claimed[q]
  BY <1>1, <1>2, EndPumpEffect
<1>4. jobs'[p] = jobs[p]
  <2>1. SetToSeq({}) \in Seq({}) /\ Len(SetToSeq({})) = 0
    BY <1>2, SetToSeqProperties
  <2>2. SetToSeq({}) = <<>>
    BY <2>1, EmptySeq
  <2>3. jobs[p] \in Seq(PRs)
    BY TypeUse
  <2> QED BY <1>3, <2>2, <2>3, ConcatEmptySeq
<1>5. \A q \in Processes : /\ Reviewed(q)' = Reviewed(q) /\ jobs'[q] = jobs[q]
                           /\ claimed'[q] \in {claimed[q], <<>>}
                           /\ q # p => Claimed(q)' = Claimed(q)
  BY <1>3, <1>4 DEF Reviewed, Claimed
<1>6. TypeOK'
  <2>1. lost' \subseteq PRs
    BY <1>1, TypeUse DEF TypeOK
  <2> QED BY <1>1, <1>3, <2>1 DEF TypeOK, Pumpers, Loops
<1>7. /\ SlotsReserved' /\ LoopAwaits' /\ LoopNotStranded'
      /\ \A q \in Processes : Up(q)' => Up(q)
  BY <1>1, <1>2, EndPumpKeeps
<1>8. Holders'
  <2>1. \A k \in PRs \ shared', q \in Processes :
          k \in Reviewed(q) \cup Claimed(q) => state'[k] = "running"
    BY <1>1 DEF Holders, HeldOnce
  <2> QED BY <1>1, <1>5, <2>1, HoldersShrink
<1>9. NoWedgedRow'
  <2>1. \A k \in PRs \ lost', q \in Processes : k \in Reviewed(q) \cup Claimed(q) =>
          k \in Reviewed(q)' \cup Claimed(q)'
    BY <1>1, <1>5
  <2> QED BY <1>1, <1>7, <2>1, NoWedgedKept
<1>10. RequestRecorded'
  BY <1>1, <1>5, RequestKept
<1> QED BY <1>6, <1>7, <1>8, <1>9, <1>10

LEMMA CompleteKeeps ==
  ASSUME IInv, NEW p \in Processes, NEW i \in DOMAIN jobs[p],
         CompleteDone(p, i) \/ CompleteFailed(p, i)
  PROVE  IInv'
<1> USE DEF IInv
<1> DEFINE r == jobs[p][i]
<1>1. /\ r \in PRs /\ jobs' \in [Processes -> Seq(PRs)] /\ ending' \in [Processes -> Seq(BOOLEAN)]
      /\ Len(jobs'[p]) = Len(jobs[p]) - 1 /\ Len(ending'[p]) = Len(ending[p]) + 1
      /\ \A q \in Processes \ {p} : jobs'[q] = jobs[q] /\ ending'[q] = ending[q]
      /\ state' \in [PRs -> States] /\ rerun' \in [PRs -> BOOLEAN] /\ order' \in Seq(PRs)
      /\ state'[r] \in {"pending", "done", "failed"}
      /\ \A k \in PRs \ {r} : state'[k] = state[k] /\ rerun'[k] = rerun[k]
      /\ \/ CompleteDone(p, i) /\ state'[r] = IF Again(r) THEN "pending" ELSE "done"
         \/ CompleteFailed(p, i) /\ rerun' = rerun
      /\ slots' = slots /\ claimed' = claimed /\ pumper' = pumper /\ loop' = loop
      /\ owed' = owed /\ lost' = lost /\ shared' = shared
  BY CompleteEffect
<1>2. /\ Holders'
      /\ \A q \in Processes : /\ Claimed(q)' = Claimed(q)
                              /\ Reviewed(q)' \subseteq Reviewed(q)
                              /\ Reviewed(q) \ {r} \subseteq Reviewed(q)'
  BY HoldersComplete
<1>3. r \in Reviewed(p)
  BY TypeUse DEF Reviewed, ToSet
<1> HIDE DEF r
<1>4. \A q \in Processes : InFlight(q)' = InFlight(q) /\ (Up(q)' => Up(q))
  <2> SUFFICES ASSUME NEW q \in Processes PROVE InFlight(q)' = InFlight(q)
    BY <1>1 DEF Up
  <2>1. CASE q # p
    BY <1>1, <2>1 DEF InFlight
  <2>2. CASE q = p
    <3>1. Len(jobs[p]) \in Nat /\ Len(ending[p]) \in Nat
      BY TypeUse
    <3>2. (Len(jobs[p]) - 1) + (Len(ending[p]) + 1) = Len(jobs[p]) + Len(ending[p])
      <4>1. \A a, b \in Nat : (a - 1) + (b + 1) = a + b
        OBVIOUS
      <4> QED BY <3>1, <4>1
    <3> QED BY <1>1, <2>2, <3>2 DEF InFlight
  <2> QED BY <2>1, <2>2
<1>5. TypeOK'
  BY <1>1 DEF TypeOK
<1>6. SlotsReserved'
  <2>1. \A q \in Processes :
          /\ InFlight(q)' + slots'[q] <= Cap
          /\ slots'[q] = 0 => claimed'[q] = <<>> /\ pumper'[q] = "none"
          /\ IsFiniteSet(Claimed(q)') /\ Cardinality(Claimed(q)') <= slots'[q]
    BY <1>1, <1>2, <1>4 DEF SlotsReserved
  <2> QED BY <2>1 DEF SlotsReserved
<1>7. NoWedgedRow'
  <2>1. \A k \in PRs : state'[k] = "running" =>
          /\ state[k] = "running"
          /\ \A q \in Processes : k \in Reviewed(q) \cup Claimed(q) =>
               k \in Reviewed(q)' \cup Claimed(q)'
    BY <1>1, <1>2
  <2> QED BY <1>1, <1>4, <2>1, NoWedgedKept
<1>8. RequestRecorded'
  <2>1. ASSUME NEW k \in owed' \ shared'
        PROVE  /\ rerun[k] => rerun'[k] \/ state'[k] = "pending"
               /\ state[k] = "pending" => state'[k] = "pending"
               /\ state[k] = "running" /\ (\A q \in Processes : k \notin Reviewed(q)) =>
                    state'[k] = "running" /\ \A q \in Processes : k \notin Reviewed(q)'
    <3>1. k \in PRs \ shared
      BY <1>1, <1>5 DEF TypeOK
    <3>2. CASE k # r
      BY <1>1, <1>2, <3>1, <3>2
    <3>3. CASE k = r
      <4>1. state[k] = "running"
        BY <1>3, <3>1, <3>3 DEF Holders, HeldOnce
      <4>2. rerun[k] => rerun'[k] \/ state'[k] = "pending"
        BY <1>1, <3>3, <4>1 DEF Again
      <4> QED BY <1>3, <3>3, <4>1, <4>2
    <3> QED BY <3>2, <3>3
  <2> QED BY <1>1, <2>1, RequestKept
<1>9. LoopNotStranded' /\ LoopAwaits'
  BY <1>1, <1>4 DEF LoopNotStranded, LoopAwaits
<1> QED BY <1>2, <1>5, <1>6, <1>7, <1>8, <1>9

LEMMA FinallyKeeps ==
  ASSUME IInv, NEW p \in Processes, Finally(p)
  PROVE  IInv'
<1> USE DEF IInv
<1> DEFINE n == InFlight(p) - 1
           again == Head(ending[p])
           next == IF again /\ ~PumpBusy(p, n) THEN loop[p] ELSE Wake(p, n)
<1>1. /\ jobs \in [Processes -> Seq(PRs)] /\ ending \in [Processes -> Seq(BOOLEAN)]
      /\ Len(jobs[p]) \in Nat /\ Len(ending[p]) \in Nat /\ ending[p] # <<>>
      /\ loop \in [Processes -> Loops] /\ InFlight(p) \in Nat
  BY TypeUse DEF Finally
<1>2. /\ ending' = [ending EXCEPT ![p] = Tail(ending[p])]
      /\ state' = state /\ rerun' = rerun /\ order' = order
      /\ jobs' = jobs /\ claimed' = claimed
      /\ owed' = owed /\ lost' = lost /\ shared' = shared
      /\ IF again THEN CallPump(p, "rerun", n) ELSE UNCHANGED <<slots, pumper>>
      /\ loop' = [loop EXCEPT ![p] = next]
  BY <1>1 DEF Finally, store, ghosts
<1>3. /\ ending' \in [Processes -> Seq(BOOLEAN)] /\ Len(ending'[p]) = Len(ending[p]) - 1
      /\ Len(ending[p]) >= 1
      /\ \A q \in Processes \ {p} : ending'[q] = ending[q]
  <2>1. ending[p] \in Seq(BOOLEAN)
    BY <1>1
  <2>2. Tail(ending[p]) \in Seq(BOOLEAN) /\ Len(Tail(ending[p])) = Len(ending[p]) - 1
    BY <1>1, <2>1, HeadTailProperties
  <2>3. Len(ending[p]) >= 1
    BY <1>1, <2>1, EmptySeq
  <2> QED BY <1>1, <1>2, <2>2, <2>3
<1>4. InFlight(p)' = n /\ n \in Nat /\ n <= InFlight(p)
  <2>1. Len(jobs[p]) + (Len(ending[p]) - 1) = (Len(jobs[p]) + Len(ending[p])) - 1
    BY <1>1
  <2>2. InFlight(p)' = Len(jobs[p]) + (Len(ending[p]) - 1)
    BY <1>2, <1>3 DEF InFlight
  <2>3. InFlight(p) = Len(jobs[p]) + Len(ending[p])
    BY DEF InFlight
  <2>4. InFlight(p) >= 1
    BY <1>1, <1>3, <2>3
  <2> QED BY <1>1, <2>1, <2>2, <2>3, <2>4
<1>5. /\ next \in Loops /\ (next # "down" => loop[p] # "down")
      /\ loop[p] = "awaiting" => next = "awaiting"
  <2>1. loop[p] \in Loops
    BY <1>1
  <2> QED BY <2>1 DEF Wake, Loops
<1>6. next = "waiting" => n > 0 \/ (again /\ ~PumpBusy(p, n))
  <2> HIDE DEF n
  <2>1. n # 0 => n > 0
    <3>1. n \in Nat
      BY <1>4
    <3> QED BY <3>1
  <2> QED BY <2>1 DEF Wake
<1> HIDE DEF n, next
<1>7. /\ loop' \in [Processes -> Loops] /\ loop'[p] = next
      /\ \A q \in Processes \ {p} : loop'[q] = loop[q]
  BY <1>1, <1>2, <1>5
<1>8. \A q \in Processes : /\ Reviewed(q)' = Reviewed(q) /\ Claimed(q)' = Claimed(q)
                           /\ q # p => InFlight(q)' = InFlight(q)
                           /\ Up(q)' => Up(q)
  BY <1>2, <1>3, <1>5, <1>7 DEF InFlight, Reviewed, Claimed, Up
<1>9. /\ SlotsReserved'
      /\ slots' \in [Processes -> 0..Cap] /\ pumper' \in [Processes -> Pumpers]
      /\ \A q \in Processes : pumper[q] = "rerun" => pumper'[q] = "rerun"
      /\ \A q \in Processes : pumper'[q] = "loop" => pumper[q] = "loop"
  <2>1. "rerun" \in Pumpers /\ "rerun" # "loop"
    BY DEF Pumpers
  <2> QED BY <1>2, <1>4, <1>8, <2>1, CallPumpReserves
<1>10. again /\ ~PumpBusy(p, n) => pumper'[p] = "rerun"
  <2>1. "rerun" \in Pumpers
    BY DEF Pumpers
  <2> QED BY <1>2, <1>4, <2>1, CallPumpEffect
<1>11. TypeOK'
  BY <1>2, <1>3, <1>7, <1>9 DEF TypeOK, Pumpers, Loops
<1>12. Holders'
  <2>1. \A k \in PRs \ shared', q \in Processes :
          k \in Reviewed(q) \cup Claimed(q) => state'[k] = "running"
    BY <1>2 DEF Holders, HeldOnce
  <2> QED BY <1>2, <2>1, HoldersShrink
<1>13. NoWedgedRow'
  BY <1>2, <1>8, NoWedgedKept
<1>14. RequestRecorded'
  BY <1>2, <1>8, RequestKept
<1>15. LoopNotStranded'
  BY <1>4, <1>6, <1>7, <1>8, <1>9, <1>10 DEF LoopNotStranded
<1>16. LoopAwaits'
  BY <1>5, <1>7, <1>9 DEF LoopAwaits
<1> QED BY <1>9, <1>11, <1>12, <1>13, <1>14, <1>15, <1>16

LEMMA CrashKeeps ==
  ASSUME IInv, NEW p \in Processes, Crash(p)
  PROVE  IInv'
<1> USE DEF IInv
<1>1. /\ state' = state /\ rerun' = rerun /\ order' = order
      /\ owed' = owed /\ lost' = lost /\ shared' = shared
      /\ jobs' = [jobs EXCEPT ![p] = <<>>] /\ ending' = [ending EXCEPT ![p] = <<>>]
      /\ slots' = [slots EXCEPT ![p] = 0] /\ claimed' = [claimed EXCEPT ![p] = <<>>]
      /\ pumper' = [pumper EXCEPT ![p] = "none"] /\ loop' = [loop EXCEPT ![p] = "down"]
  BY DEF Crash, store, ghosts
<1>2. TypeOK'
  BY <1>1, CapAssumption DEF TypeOK
<1>3. /\ jobs'[p] = <<>> /\ ending'[p] = <<>> /\ slots'[p] = 0 /\ claimed'[p] = <<>>
      /\ pumper'[p] = "none" /\ loop'[p] = "down"
      /\ \A q \in Processes \ {p} :
           /\ jobs'[q] = jobs[q] /\ ending'[q] = ending[q] /\ slots'[q] = slots[q]
           /\ claimed'[q] = claimed[q] /\ pumper'[q] = pumper[q] /\ loop'[q] = loop[q]
  BY <1>1, TypeUse
<1>4. /\ InFlight(p)' = 0 /\ Reviewed(p)' = {}
      /\ \A q \in Processes \ {p} : /\ InFlight(q)' = InFlight(q)
                                    /\ Reviewed(q)' = Reviewed(q)
  <2>1. InFlight(p)' = 0
    <3>1. Len(<<>>) + Len(<<>>) = 0
      OBVIOUS
    <3> QED BY <1>3, <3>1 DEF InFlight
  <2>2. Reviewed(p)' = {}
    BY <1>3 DEF Reviewed, ToSet
  <2> QED BY <1>3, <2>1, <2>2 DEF InFlight, Reviewed
<1>5. SlotsReserved'
  <2>1. 0 <= Cap /\ 0 \in Nat
    BY CapAssumption
  <2> QED BY <1>3, <1>4, <2>1, OthersReserved
<1>6. Holders'
  <2>1. \A k \in PRs \ shared', q \in Processes :
          k \in Reviewed(q) \cup Claimed(q) => state'[k] = "running"
    BY <1>1 DEF Holders, HeldOnce
  <2>2. \A q \in Processes : /\ jobs'[q] \in {jobs[q], <<>>}
                             /\ claimed'[q] \in {claimed[q], <<>>}
    BY <1>3
  <2> QED BY <1>1, <2>1, <2>2, HoldersShrink
<1>7. NoWedgedRow'
  BY <1>3 DEF NoWedgedRow, Up
<1>8. RequestRecorded'
  <2>1. \A k \in owed' \ shared', q \in Processes : k \in Reviewed(q)' => k \in Reviewed(q)
    BY <1>4
  <2> QED BY <1>1, <2>1, RequestKept
<1>9. LoopNotStranded' /\ LoopAwaits'
  BY <1>3, <1>4 DEF LoopNotStranded, LoopAwaits
<1> QED BY <1>2, <1>5, <1>6, <1>7, <1>8, <1>9

LEMMA BootKeeps ==
  ASSUME IInv, NEW p \in Processes, Boot(p)
  PROVE  IInv'
<1> USE DEF IInv
<1>1. /\ ~Up(p)
      /\ state' = [k \in PRs |-> IF state[k] = "running" THEN "pending" ELSE state[k]]
      /\ loop' = [loop EXCEPT ![p] = "turn"] /\ lost' = {}
      /\ shared' = shared \cup {k \in PRs : state[k] = "running" /\
                                  \E q \in Processes : k \in Reviewed(q) \cup Claimed(q)}
      /\ rerun' = rerun /\ order' = order /\ jobs' = jobs /\ ending' = ending
      /\ slots' = slots /\ claimed' = claimed /\ pumper' = pumper /\ owed' = owed
  BY DEF Boot, pumping
<1>2. \A q \in Processes : /\ InFlight(q)' = InFlight(q) /\ Reviewed(q)' = Reviewed(q)
                           /\ Claimed(q)' = Claimed(q)
  BY <1>1 DEF InFlight, Reviewed, Claimed
<1>3. TypeOK'
  <2>1. state' \in [PRs -> States]
    BY <1>1, TypeUse DEF States
  <2>2. loop' \in [Processes -> {"down", "turn", "awaiting", "waiting"}]
    BY <1>1 DEF TypeOK
  <2>3. shared' \subseteq PRs
    BY <1>1 DEF TypeOK
  <2> QED BY <1>1, <2>1, <2>2, <2>3 DEF TypeOK
<1>4. SlotsReserved'
  BY <1>1, <1>2 DEF SlotsReserved
<1>5. \A k \in PRs : state'[k] # "running"
  BY <1>1
<1>6. Holders'
  <2>1. \A k \in PRs \ shared', q \in Processes : k \notin Reviewed(q) \cup Claimed(q)
    BY <1>1 DEF Holders, HeldOnce
  <2> QED BY <1>1, <2>1, HoldersShrink
<1>7. NoWedgedRow'
  BY <1>5 DEF NoWedgedRow
<1>8. RequestRecorded'
  <2>1. \A k \in owed' \ shared' : state[k] \in {"pending", "running"} => state'[k] = "pending"
    BY <1>1 DEF TypeOK
  <2> QED BY <1>1, <2>1, RequestKept
<1>9. /\ loop'[p] = "turn" /\ loop[p] = "down"
      /\ \A q \in Processes \ {p} : loop'[q] = loop[q]
  BY <1>1, TypeUse DEF Up
<1>10. LoopNotStranded' /\ LoopAwaits'
  BY <1>1, <1>2, <1>9 DEF LoopNotStranded, LoopAwaits
<1> QED BY <1>3, <1>4, <1>6, <1>7, <1>8, <1>10

LEMMA Inductive == IInv /\ [Next]_vars => IInv'
<1> SUFFICES ASSUME IInv, [Next]_vars PROVE IInv'
  OBVIOUS
<1>1. CASE UNCHANGED vars
  BY <1>1 DEF IInv, TypeOK, SlotsReserved, Holders, HeldOnce, NoWedgedRow, RequestRecorded,
     LoopAwaits, LoopNotStranded, Copies, InFlight, Reviewed, Claimed, Up, vars, store,
     pumping, ghosts
<1>2. ASSUME NEW p \in Processes, NEW k \in PRs, Enqueue(p, k) PROVE IInv'
  BY <1>2, EnqueueKeeps
<1>3. ASSUME NEW p \in Processes, LoopTurn(p) PROVE IInv'
  BY <1>3, LoopTurnKeeps
<1>4. ASSUME NEW p \in Processes, Claim(p) PROVE IInv'
  BY <1>4, ClaimKeeps
<1>5. ASSUME NEW p \in Processes, Begin(p) PROVE IInv'
  BY <1>5, BeginKeeps
<1>6. ASSUME NEW p \in Processes, ClaimFails(p) PROVE IInv'
  BY <1>6, ClaimFailsKeeps
<1>7. ASSUME NEW p \in Processes, NEW k \in PRs, Complete(p, k) PROVE IInv'
  BY <1>7, CompleteKeeps DEF Complete
<1>8. ASSUME NEW p \in Processes, Finally(p) PROVE IInv'
  BY <1>8, FinallyKeeps
<1>9. ASSUME NEW p \in Processes, Crash(p) PROVE IInv'
  BY <1>9, CrashKeeps
<1>10. ASSUME NEW p \in Processes, Boot(p) PROVE IInv'
  BY <1>10, BootKeeps
<1> QED BY <1>1, <1>2, <1>3, <1>4, <1>5, <1>6, <1>7, <1>8, <1>9, <1>10 DEF Next

LEMMA AlwaysIInv == Spec => []IInv
BY Initially, Inductive, PTL DEF Spec

-----------------------------------------------------------------------------
(* The results.                                                               *)

\* Every variable keeps its type through requests, claims, failures, crashes and
\* boots.
THEOREM TypeCorrect == Spec => []TypeOK
BY AlwaysIInv, PTL DEF IInv

\* pump() never has more reviews in flight than the cap of its process, although it
\* reads the number of free slots before the claim's answer and uses it after.
THEOREM CapKept == Spec => []Capped
<1>1. IInv => Capped
  <2> SUFFICES ASSUME IInv, NEW p \in Processes PROVE InFlight(p) <= Cap
    BY DEF Capped
  <2>1. InFlight(p) \in Nat /\ slots[p] \in Nat
    BY TypeUse DEF IInv
  <2>2. InFlight(p) + slots[p] <= Cap /\ Cap \in Nat
    BY CapAssumption DEF IInv, SlotsReserved
  <2> QED BY <2>1, <2>2
<1> QED BY <1>1, AlwaysIInv, PTL

\* claimDue() hands a pull request to one process at a time: no two reviews of it
\* run, unless a boot re-queued the row under a process that held it.
THEOREM NeverReviewedTwice == Spec => []NoDoubleReview
<1>1. IInv => NoDoubleReview
  <2> SUFFICES ASSUME IInv, NEW k \in PRs \ shared PROVE Cardinality(Copies(k)) <= 1
    BY DEF NoDoubleReview
  <2>1. HeldOnce(k)
    BY DEF IInv, Holders
  <2>2. ASSUME NEW x \in Copies(k), NEW y \in Copies(k) PROVE x = y
    <3>1. PICK p \in Processes : x \in {p} \X DOMAIN jobs[p]
      BY DEF Copies
    <3>2. PICK q \in Processes : y \in {q} \X DOMAIN jobs[q]
      BY DEF Copies
    <3>3. /\ x = <<p, x[2]>> /\ x[2] \in DOMAIN jobs[p] /\ jobs[p][x[2]] = k
          /\ y = <<q, y[2]>> /\ y[2] \in DOMAIN jobs[q] /\ jobs[q][y[2]] = k
      BY <3>1, <3>2 DEF Copies
    <3>4. p = q
      BY <2>1, <3>3 DEF HeldOnce, Reviewed, ToSet
    <3>5. x[2] = y[2]
      BY <2>1, <3>3, <3>4 DEF HeldOnce, OnceIn
    <3> QED BY <3>3, <3>4, <3>5
  <2>3. CASE Copies(k) = {}
    BY <2>3, FS_EmptySet
  <2>4. CASE Copies(k) # {}
    <3>1. PICK x : x \in Copies(k)
      BY <2>4
    <3>2. Copies(k) = {x}
      BY <2>2, <3>1
    <3>3. Cardinality(Copies(k)) = 1
      BY <3>2, FS_Singleton
    <3> QED BY <3>3
  <2> QED BY <2>3, <2>4
<1> QED BY <1>1, AlwaysIInv, PTL

\* requeueInterrupted() and the claims leave no row marked running that nobody
\* reviews, while every process is up.
THEOREM NoneWedged == Spec => []NoWedgedRow
BY AlwaysIInv, PTL DEF IInv

\* A request enqueue() accepted is on its row until a review begins after it, also
\* after a review that failed, a claim whose answer was lost and a restart.
THEOREM RequestsRecorded == Spec => []RequestRecorded
BY AlwaysIInv, PTL DEF IInv

\* settleIfIdle() reaches every loop that waits: something in flight, or the claim
\* of a re-run, ends in it.
THEOREM LoopsWoken == Spec => []LoopNotStranded
BY AlwaysIInv, PTL DEF IInv

-----------------------------------------------------------------------------
(* The promise of a deployment with one process.                              *)

\* A process that is down holds nothing.
DownInv ==
  \A p \in Processes :
    ~Up(p) => jobs[p] = <<>> /\ ending[p] = <<>> /\ slots[p] = 0

SoloInv == IInv /\ DownInv /\ shared = {}

LEMMA DownKept ==
  ASSUME IInv, DownInv, [Next]_vars
  PROVE  DownInv'
<1> USE TypeUse DEF IInv
<1> SUFFICES ASSUME NEW q \in Processes, loop'[q] = "down"
             PROVE  jobs'[q] = <<>> /\ ending'[q] = <<>> /\ slots'[q] = 0
  BY DEF DownInv, Up
<1>0. loop[q] = "down" => jobs[q] = <<>> /\ ending[q] = <<>> /\ slots[q] = 0
  BY DEF DownInv, Up
<1>1. CASE UNCHANGED vars
  BY <1>0, <1>1 DEF vars, pumping
<1>2. ASSUME NEW p \in Processes, NEW k \in PRs, Enqueue(p, k)
      PROVE  jobs'[q] = <<>> /\ ending'[q] = <<>> /\ slots'[q] = 0
  <2>1. Up(p) /\ loop' = loop /\ jobs' = jobs /\ ending' = ending
    BY <1>2 DEF Enqueue
  <2>2. q # p
    BY <2>1 DEF Up
  <2>3. slots'[q] = slots[q]
    <3>1. CASE CallPump(p, "enqueue", InFlight(p))
      BY <2>2, <3>1, CallPumpEffect DEF Pumpers
    <3>2. CASE UNCHANGED <<slots, pumper>>
      BY <3>2
    <3> QED BY <1>2, <3>1, <3>2 DEF Enqueue
  <2> QED BY <1>0, <2>1, <2>3
<1>3. ASSUME NEW p \in Processes, LoopTurn(p)
      PROVE  jobs'[q] = <<>> /\ ending'[q] = <<>> /\ slots'[q] = 0
  <2>1. /\ jobs' = jobs /\ ending' = ending /\ CallPump(p, "loop", InFlight(p))
        /\ loop' = [loop EXCEPT ![p] =
             IF PumpBusy(p, InFlight(p)) THEN Rest(InFlight(p)) ELSE "awaiting"]
    BY <1>3 DEF LoopTurn
  <2>2. q # p
    BY <2>1 DEF Rest
  <2>3. slots'[q] = slots[q] /\ loop'[q] = loop[q]
    BY <2>1, <2>2, CallPumpEffect DEF Pumpers
  <2> QED BY <1>0, <2>1, <2>3
<1>4. ASSUME NEW p \in Processes, Claim(p)
      PROVE  jobs'[q] = <<>> /\ ending'[q] = <<>> /\ slots'[q] = 0
  BY <1>0, <1>4 DEF Claim
\* A claim is of a process that is up, and leaves it up.
<1>e. ASSUME NEW p \in Processes, NEW begun \in SUBSET PRs, IsFiniteSet(begun),
             EndPump(p, begun), slots[p] > 0, ending' = ending
      PROVE  jobs'[q] = <<>> /\ ending'[q] = <<>> /\ slots'[q] = 0
  <2>1. loop[p] # "down"
    BY <1>e DEF DownInv, Up
  <2>2. loop'[p] = CASE pumper[p] = "loop" -> Rest(InFlight(p) + Cardinality(begun))
                     [] pumper[p] = "rerun" -> Wake(p, InFlight(p) + Cardinality(begun))
                     [] OTHER -> loop[p]
    BY <1>e, EndPumpEffect
  <2>3. loop'[p] # "down"
    BY <2>1, <2>2 DEF Rest, Wake
  <2>4. q # p
    BY <2>3
  <2>5. jobs'[q] = jobs[q] /\ slots'[q] = slots[q] /\ loop'[q] = loop[q]
    BY <1>e, <2>4, EndPumpEffect
  <2> QED BY <1>0, <1>e, <2>5
<1>5. ASSUME NEW p \in Processes, Begin(p)
      PROVE  jobs'[q] = <<>> /\ ending'[q] = <<>> /\ slots'[q] = 0
  <2>1. /\ EndPump(p, Claimed(p)) /\ Claimed(p) \in SUBSET PRs /\ IsFiniteSet(Claimed(p))
        /\ ending' = ending
    BY <1>5, BeginEffect
  <2>2. slots[p] > 0
    BY <1>5 DEF Begin, SlotsReserved
  <2> QED BY <1>e, <2>1, <2>2
<1>6. ASSUME NEW p \in Processes, ClaimFails(p)
      PROVE  jobs'[q] = <<>> /\ ending'[q] = <<>> /\ slots'[q] = 0
  <2>1. EndPump(p, {}) /\ slots[p] > 0 /\ ending' = ending
    BY <1>6 DEF ClaimFails
  <2>2. IsFiniteSet({})
    BY FS_EmptySet
  <2> QED BY <1>e, <2>1, <2>2
<1>7. ASSUME NEW p \in Processes, NEW k \in PRs, Complete(p, k)
      PROVE  jobs'[q] = <<>> /\ ending'[q] = <<>> /\ slots'[q] = 0
  <2>1. PICK i \in DOMAIN jobs[p] : CompleteDone(p, i) \/ CompleteFailed(p, i)
    BY <1>7 DEF Complete
  <2>2. /\ loop' = loop /\ slots' = slots
        /\ \A r \in Processes \ {p} : jobs'[r] = jobs[r] /\ ending'[r] = ending[r]
    BY <2>1, CompleteEffect
  <2>3. q # p
    <3>1. jobs[p] # <<>>
      BY <2>1
    <3> QED BY <1>0, <2>2, <3>1
  <2> QED BY <1>0, <2>2, <2>3
<1>8. ASSUME NEW p \in Processes, Finally(p)
      PROVE  jobs'[q] = <<>> /\ ending'[q] = <<>> /\ slots'[q] = 0
  <2>1. /\ ending[p] # <<>> /\ ending' = [ending EXCEPT ![p] = Tail(@)] /\ jobs' = jobs
        /\ \/ CallPump(p, "rerun", InFlight(p) - 1)
           \/ UNCHANGED <<slots, pumper>>
        /\ loop' = loop \/ loop' = [loop EXCEPT ![p] = Wake(p, InFlight(p) - 1)]
    BY <1>8 DEF Finally
  <2>2. loop[p] # "down"
    BY <2>1 DEF DownInv, Up
  <2>3. q # p
    BY <2>1, <2>2 DEF Wake
  <2>4. slots'[q] = slots[q]
    <3>1. CASE CallPump(p, "rerun", InFlight(p) - 1)
      BY <2>3, <3>1 DEF CallPump
    <3> QED BY <2>1, <3>1
  <2>5. loop'[q] = loop[q] /\ ending'[q] = ending[q]
    BY <2>1, <2>3
  <2> QED BY <1>0, <2>1, <2>4, <2>5
<1>9. ASSUME NEW p \in Processes, Crash(p)
      PROVE  jobs'[q] = <<>> /\ ending'[q] = <<>> /\ slots'[q] = 0
  <2>1. /\ jobs' = [jobs EXCEPT ![p] = <<>>] /\ ending' = [ending EXCEPT ![p] = <<>>]
        /\ slots' = [slots EXCEPT ![p] = 0] /\ loop' = [loop EXCEPT ![p] = "down"]
    BY <1>9 DEF Crash
  <2> QED BY <1>0, <2>1
<1>10. ASSUME NEW p \in Processes, Boot(p)
       PROVE  jobs'[q] = <<>> /\ ending'[q] = <<>> /\ slots'[q] = 0
  <2>1. /\ loop' = [loop EXCEPT ![p] = "turn"]
        /\ jobs' = jobs /\ ending' = ending /\ slots' = slots
    BY <1>10 DEF Boot, pumping
  <2>2. q # p
    BY <2>1
  <2> QED BY <1>0, <2>1, <2>2
<1> QED BY <1>1, <1>2, <1>3, <1>4, <1>5, <1>6, <1>7, <1>8, <1>9, <1>10 DEF Next

\* The one process finds no row at its boot that another holds.
LEMMA SoloKept ==
  ASSUME NEW p, Processes = {p}, SoloInv, [Next]_vars
  PROVE  SoloInv'
<1>1. IInv' /\ DownInv'
  BY Inductive, DownKept DEF SoloInv
<1>2. shared' = {}
  <2>1. CASE UNCHANGED vars
    BY <2>1 DEF SoloInv, vars, ghosts
  <2>2. CASE Boot(p)
    <3>1. jobs[p] = <<>> /\ claimed[p] = <<>>
      BY <2>2 DEF Boot, SoloInv, DownInv, IInv, SlotsReserved
    <3>2. Reviewed(p) = {} /\ Claimed(p) = {}
      BY <3>1 DEF Reviewed, Claimed, ToSet
    <3> QED BY <2>2, <3>2 DEF Boot, SoloInv
  <2>3. ASSUME NEW k \in PRs, Enqueue(p, k) PROVE shared' = shared
    BY <2>3 DEF Enqueue
  <2>4. ASSUME NEW k \in PRs, Complete(p, k) PROVE shared' = shared
    BY <2>4 DEF Complete, CompleteDone, CompleteFailed, ghosts
  <2>5. CASE LoopTurn(p) \/ Claim(p) \/ Begin(p) \/ ClaimFails(p) \/ Finally(p) \/ Crash(p)
    BY <2>5 DEF LoopTurn, Claim, Begin, ClaimFails, Finally, Crash, ghosts, SoloInv
  <2> QED BY <2>1, <2>2, <2>3, <2>4, <2>5 DEF Next, SoloInv
<1> QED BY <1>1, <1>2 DEF SoloInv

\* What the one process holds: rows on running, each once, within its cap.
LEMMA SoloFacts ==
  ASSUME NEW p, Processes = {p}, SoloInv
  PROVE  /\ Api = p /\ p \in Processes /\ TypeOK /\ SlotsReserved
         /\ jobs[p] \in Seq(PRs) /\ Len(jobs[p]) \in Nat /\ slots[p] \in Nat
         /\ Reviewed(p) = ToSet(jobs[p]) /\ Reviewed(p) \subseteq PRs
         /\ Claimed(p) \subseteq PRs /\ Claimed(p) \cap Reviewed(p) = {}
         /\ \A k \in Reviewed(p) \cup Claimed(p) : state[k] = "running"
         /\ Len(jobs[p]) + slots[p] <= Cap /\ Len(jobs[p]) <= Cap
         /\ state \in [PRs -> States] /\ rerun \in [PRs -> BOOLEAN] /\ owed \subseteq PRs
<1>1. Api = p /\ p \in Processes
  BY DEF Api
<1>2. TypeOK /\ SlotsReserved /\ \A k \in PRs : HeldOnce(k)
  BY DEF SoloInv, IInv, Holders
<1>3. /\ Reviewed(p) \subseteq PRs /\ Claimed(p) \subseteq PRs
      /\ Len(jobs[p]) \in Nat /\ Len(ending[p]) \in Nat /\ slots[p] \in Nat
      /\ jobs[p] \in Seq(PRs)
  BY <1>1, <1>2, TypeUse
<1>4. \A k \in Reviewed(p) \cup Claimed(p) : state[k] = "running"
  BY <1>1, <1>2, <1>3 DEF HeldOnce
<1>5. Claimed(p) \cap Reviewed(p) = {}
  BY <1>1, <1>2, <1>3 DEF HeldOnce
<1>6. Len(jobs[p]) + slots[p] <= Cap /\ Len(jobs[p]) <= Cap
  <2>1. (Len(jobs[p]) + Len(ending[p])) + slots[p] <= Cap
    BY <1>1, <1>2 DEF SlotsReserved, InFlight
  <2>2. \A a, b, c \in Nat, d \in Int : (a + b) + c <= d => a + c <= d /\ a <= d
    OBVIOUS
  <2>3. Cap \in Int
    BY CapAssumption
  <2> QED BY <1>3, <2>1, <2>2, <2>3
<1> QED BY <1>1, <1>2, <1>3, <1>4, <1>5, <1>6, TypeUse DEF Reviewed, TypeOK

\* What is wanted is a count of the row and its flag.
Waits(k) == state[k] = "pending" \/ (state[k] = "running" /\ k \notin Reviewed(Api))

LEMMA WantedIs ==
  ASSUME NEW k
  PROVE  Wanted(k) = (IF Waits(k) THEN 1 ELSE 0) + (IF rerun[k] THEN 1 ELSE 0)
BY DEF Wanted, Waits

LEMMA WantedSame ==
  ASSUME NEW k, Waits(k)' = Waits(k), rerun'[k] = rerun[k]
  PROVE  Wanted(k)' = Wanted(k)
BY DEF Wanted, Waits

Wants == [k \in PRs |-> Wanted(k)]

LEMMA Quiet ==
  ASSUME jobs'[Api] = jobs[Api], owed' = owed, rerun' = rerun,
         \A k \in PRs : Waits(k)' = Waits(k)
  PROVE  UNCHANGED Promise!vars
<1>1. \A k \in PRs : Wanted(k)' = Wanted(k)
  BY WantedSame
<1>2. [k \in PRs |-> Wanted(k)]' = [k \in PRs |-> Wanted(k)]
  BY <1>1
<1> QED BY <1>2 DEF Promise!vars

\* A step of the queue with which no review begins.
LEMMA NoneBegins ==
  ASSUME NEW kept \in Seq(PRs), NEW due, NEW owing, Len(kept) <= Cap,
         due = [k \in PRs |-> due[k]],
         jobs'[Api] = kept, Wants' = due, owed' = owing
  PROVE  Promise!Proceed(kept, due, owing)
<1> DEFINE new == <<>>
<1>1. new \in Promise!Batches /\ Len(new) = 0 /\ Promise!ToSet(new) = {}
  <2>1. 0 \in 0..Cap /\ new \in [1..0 -> PRs]
    BY CapAssumption
  <2> QED BY <2>1 DEF Promise!Batches, Promise!ToSet
<1>2. kept \o new = kept
  OBVIOUS
<1>3. Len(kept) + Len(new) <= Cap
  BY <1>1
<1> HIDE DEF new
<1>4. [k \in PRs |-> IF k \in Promise!ToSet(new) THEN due[k] - 1 ELSE due[k]] = due
  BY <1>1
<1>5. owing \ Promise!ToSet(new) = owing
  BY <1>1
<1>6. TRUE => Promise!ToSet(new) \cap Promise!ToSet(kept) = {}
  BY <1>1
<1> QED BY <1>1, <1>2, <1>3, <1>4, <1>5, <1>6 DEF Promise!Proceed, Wants

LEMMA WantsType == Wants \in [PRs -> 0..2]
BY DEF Wants, Wanted

\* A step that wants k once more, or as often, and the others as before.
LEMMA WantsNext ==
  ASSUME NEW k \in PRs, NEW n, Wanted(k)' = n,
         \A j \in PRs \ {k} : Wanted(j)' = Wanted(j)
  PROVE  Wants' = [Wants EXCEPT ![k] = n]
<1>1. Wants' = [j \in PRs |-> Wanted(j)']
  BY DEF Wants
<1>2. [Wants EXCEPT ![k] = n] = [j \in PRs |-> IF j = k THEN n ELSE Wanted(j)]
  BY DEF Wants
<1> QED BY <1>1, <1>2

LEMMA EnqueueAsks ==
  ASSUME NEW p, Processes = {p}, SoloInv, NEW k \in PRs, Enqueue(p, k)
  PROVE  Promise!Ask(k) \/ UNCHANGED Promise!vars
<1>1. /\ Api = p /\ state \in [PRs -> States] /\ rerun \in [PRs -> BOOLEAN]
      /\ jobs[p] \in Seq(PRs) /\ Len(jobs[p]) <= Cap
      /\ \A j \in Reviewed(p) : state[j] = "running"
  BY SoloFacts
<1>2. /\ jobs' = jobs
      /\ state' = IF state[k] \in {"none", "failed"} THEN [state EXCEPT ![k] = "pending"]
                  ELSE state
      /\ rerun' = IF state[k] \in {"pending", "running"}
                  THEN [rerun EXCEPT ![k] = TRUE] ELSE rerun
      /\ owed' = IF state[k] = "done" THEN owed ELSE owed \cup {k}
  BY DEF Enqueue
<1>3. \A j \in PRs \ {k} : state'[j] = state[j] /\ rerun'[j] = rerun[j]
  BY <1>1, <1>2
<1>4. \A j \in PRs : (j \in Reviewed(Api))' <=> j \in Reviewed(Api)
  BY <1>2 DEF Reviewed
<1>5. \A j \in PRs \ {k} : Wanted(j)' = Wanted(j)
  BY <1>3, <1>4 DEF Wanted
<1>6. Wants = [j \in PRs |-> Wants[j]] /\ Wants[k] = Wanted(k) /\ Wanted(k) \in 0..2
  BY DEF Wants, Wanted
\* The request adds a review, or one that is due covers it.
<1>7. ASSUME owed' = owed \cup {k}, Wanted(k)' = Wanted(k) + 1
      PROVE  Promise!Ask(k)
  <2> DEFINE due == [Wants EXCEPT ![k] = @ + 1]
  <2>1. Wants' = due
    BY <1>5, <1>6, <1>7, WantsNext
  <2>2. due = [j \in PRs |-> due[j]]
    BY DEF Wants
  <2> HIDE DEF due
  <2>3. Promise!Proceed(jobs[Api], due, owed \cup {k})
    BY <1>1, <1>2, <1>7, <2>1, <2>2, NoneBegins
  <2> QED BY <2>3 DEF Promise!Ask, Wants, due
<1>8. ASSUME owed' = owed \cup {k}, Wanted(k)' = Wanted(k), Wanted(k) > 0
      PROVE  Promise!Ask(k)
  <2>1. Wants' = Wants
    BY <1>5, <1>8 DEF Wants
  <2>2. Promise!Proceed(jobs[Api], Wants, owed \cup {k})
    BY <1>1, <1>2, <1>6, <1>8, <2>1, NoneBegins
  <2> QED BY <1>8, <2>2 DEF Promise!Ask, Wants
<1>9. CASE state[k] = "done"
  <2>1. state' = state /\ rerun' = rerun /\ owed' = owed
    BY <1>2, <1>9
  <2>2. \A j \in PRs : Waits(j)' = Waits(j)
    BY <1>4, <2>1 DEF Waits
  <2> QED BY <1>2, <2>1, <2>2, Quiet
<1>10. CASE state[k] \in {"none", "failed"}
  <2>1. state'[k] = "pending" /\ rerun'[k] = rerun[k] /\ owed' = owed \cup {k}
    BY <1>1, <1>2, <1>10
  <2>2. Wanted(k)' = 1 + (IF rerun[k] THEN 1 ELSE 0)
    BY <2>1 DEF Wanted
  <2>3. Wanted(k) = 0 + (IF rerun[k] THEN 1 ELSE 0)
    BY <1>10 DEF Wanted
  <2>4. Wanted(k)' = Wanted(k) + 1
    BY <2>2, <2>3
  <2> QED BY <1>7, <2>1, <2>4
<1>11. CASE state[k] \in {"pending", "running"}
  <2>1. state' = state /\ rerun'[k] = TRUE /\ owed' = owed \cup {k}
    BY <1>1, <1>2, <1>11
  <2>2. Waits(k)' = Waits(k)
    BY <1>4, <2>1 DEF Waits
  <2>3. Wanted(k)' = (IF Waits(k) THEN 1 ELSE 0) + 1
    BY <2>1, <2>2, WantedIs DEF Wanted, Waits
  <2>4. CASE rerun[k]
    <3>1. Wanted(k)' = Wanted(k) /\ Wanted(k) > 0
      BY <2>3, <2>4, WantedIs
    <3> QED BY <1>8, <2>1, <3>1
  <2>5. CASE ~rerun[k]
    <3>1. Wanted(k)' = Wanted(k) + 1
      BY <2>3, <2>5, WantedIs
    <3> QED BY <1>7, <2>1, <3>1
  <2> QED BY <2>4, <2>5
<1> QED BY <1>1, <1>9, <1>10, <1>11 DEF States
\* The rows of a claim begin together when its answer arrives.
LEMMA BeginBegins ==
  ASSUME NEW p, Processes = {p}, SoloInv, Begin(p)
  PROVE  Promise!Begin \/ UNCHANGED Promise!vars
<1> DEFINE C == Claimed(p)
           new == SetToSeq(C)
<1>1. /\ Api = p /\ p \in Processes /\ TypeOK /\ jobs[p] \in Seq(PRs)
      /\ Len(jobs[p]) \in Nat /\ slots[p] \in Nat
      /\ Reviewed(p) = ToSet(jobs[p]) /\ C \subseteq PRs /\ C \cap Reviewed(p) = {}
      /\ \A k \in C : state[k] = "running"
      /\ Len(jobs[p]) + slots[p] <= Cap
  BY SoloFacts
<1>2. /\ EndPump(p, C) /\ IsFiniteSet(C) /\ Cardinality(C) <= slots[p]
      /\ owed' = owed \ C /\ state' = state /\ rerun' = rerun
  BY <1>1, BeginEffect DEF SoloInv, IInv
<1>3. jobs'[p] = jobs[p] \o new
  BY <1>1, <1>2, EndPumpEffect
<1>4. Reviewed(p)' = Reviewed(p) \cup C
  BY <1>1, HoldersBegin DEF SoloInv, IInv
<1>5. /\ new \in Seq(C) /\ Len(new) = Cardinality(C) /\ IsInjective(new)
      /\ ToSet(new) = C
  BY <1>2, SetToSeqProperties
<1>6. Cardinality(C) \in Nat
  BY <1>2, FS_CardinalityType
<1> HIDE DEF C, new
<1>7. Len(jobs[p]) + Len(new) <= Cap /\ Len(new) \in 0..Cap
  <2>1. \A a, b, c \in Nat, d \in Int : b <= c /\ a + c <= d => a + b <= d /\ b <= d
    OBVIOUS
  <2>2. Cap \in Int
    BY CapAssumption
  <2>3. Len(jobs[p]) + Cardinality(C) <= Cap /\ Cardinality(C) <= Cap
    BY <1>1, <1>2, <1>6, <2>1, <2>2
  <2> QED BY <1>5, <1>6, <2>2, <2>3
<1>8. new \in Promise!Batches
  <2>1. /\ new \in [1..Len(new) -> PRs]
        /\ \A i, j \in 1..Len(new) : new[i] = new[j] => i = j
    BY <1>1, <1>5 DEF IsInjective
  <2> QED BY <1>7, <2>1 DEF Promise!Batches
<1>9. Promise!ToSet(new) = C /\ Promise!ToSet(jobs[p]) = Reviewed(p)
  BY <1>1, <1>5 DEF Promise!ToSet, ToSet
<1>10. ASSUME NEW k \in PRs
       PROVE  /\ k \in C => Wanted(k) > 0 /\ Wanted(k)' = Wanted(k) - 1
              /\ k \notin C => Waits(k)' = Waits(k) /\ Wanted(k)' = Wanted(k)
  <2>1. CASE k \in C
    <3>1. Waits(k) /\ ~Waits(k)'
      BY <1>1, <1>2, <1>4, <2>1 DEF Waits
    <3>2. Wanted(k)' = 0 + (IF rerun[k] THEN 1 ELSE 0)
      BY <1>2, <3>1 DEF Wanted, Waits
    <3>3. Wanted(k) = 1 + (IF rerun[k] THEN 1 ELSE 0)
      BY <3>1, WantedIs
    <3> QED BY <2>1, <3>2, <3>3
  <2>2. CASE k \notin C
    <3>1. Waits(k)' = Waits(k)
      BY <1>1, <1>2, <1>4, <2>2 DEF Waits
    <3> QED BY <1>2, <2>2, <3>1, WantedSame
  <2> QED BY <2>1, <2>2
<1>11. CASE jobs'[p] = jobs[p]
  <2>1. Reviewed(p)' = Reviewed(p)
    BY <1>11 DEF Reviewed
  <2>2. C = {}
    BY <1>1, <1>4, <2>1
  <2>3. owed' = owed /\ \A k \in PRs : Waits(k)' = Waits(k)
    BY <1>2, <1>10, <2>2
  <2> QED BY <1>1, <1>2, <1>11, <2>3, Quiet
<1>12. CASE jobs'[p] # jobs[p]
  <2>1. Promise!Proceed(jobs[p], Wants, owed)
    <3>1. \A k \in C : Wants[k] > 0
      BY <1>1, <1>10 DEF Wants
    <3>2. [k \in PRs |-> Wanted(k)]' = [k \in PRs |-> IF k \in C THEN Wants[k] - 1 ELSE Wants[k]]
      BY <1>10 DEF Wants
    <3>3. C \cap Reviewed(p) = {}
      BY <1>1
    <3> QED BY <1>1, <1>2, <1>3, <1>7, <1>8, <1>9, <3>1, <3>2, <3>3 DEF Promise!Proceed
  <2> QED BY <1>1, <1>12, <2>1 DEF Promise!Begin, Wants
<1> QED BY <1>11, <1>12
\* A review that settles leaves its row waiting for the request flagged on it.
LEMMA CompleteEnds ==
  ASSUME NEW p, Processes = {p}, SoloInv, NEW i \in DOMAIN jobs[p],
         CompleteDone(p, i) \/ CompleteFailed(p, i)
  PROVE  Promise!End(i)
<1> DEFINE kept == RemoveAt(jobs[p], i)
<1>k. PICK k : k = jobs[p][i]
  OBVIOUS
<1>1. /\ Api = p /\ p \in Processes /\ TypeOK /\ jobs[p] \in Seq(PRs)
      /\ Len(jobs[p]) <= Cap /\ Len(jobs[p]) \in Nat /\ i \in 1..Len(jobs[p])
      /\ Reviewed(p) = ToSet(jobs[p])
      /\ \A j \in Reviewed(p) : state[j] = "running"
      /\ rerun \in [PRs -> BOOLEAN]
  BY SoloFacts
<1>2. /\ k \in PRs /\ jobs' = [jobs EXCEPT ![p] = kept]
      /\ state'[k] \in {"pending", "done", "failed"}
      /\ \A j \in PRs \ {k} : state'[j] = state[j] /\ rerun'[j] = rerun[j]
      /\ \/ CompleteDone(p, i) /\ state'[k] = IF Again(k) THEN "pending" ELSE "done"
         \/ CompleteFailed(p, i) /\ rerun' = rerun
      /\ owed' = owed
  BY <1>k, <1>1, CompleteEffect
<1>3. jobs'[p] = kept
  BY <1>1, <1>2 DEF TypeOK
<1>4. kept \in Seq(PRs) /\ Len(kept) <= Cap
  <2>1. kept \in Seq(PRs) /\ Len(kept) = Len(jobs[p]) - 1
    BY <1>1, RemoveAtPlaces
  <2> HIDE DEF kept
  <2>2. Cap \in Int
    BY CapAssumption
  <2> QED BY <1>1, <2>1, <2>2
<1>5. k \in Reviewed(p)
  BY <1>k, <1>1 DEF ToSet
<1>6. Reviewed(p)' = Reviewed(p) \ {k}
  <2>1. OnceIn(jobs[p], k)
    BY <1>1, <1>2 DEF SoloInv, IInv, Holders, HeldOnce
  <2>2. /\ ToSet(kept) \subseteq ToSet(jobs[p])
        /\ ToSet(jobs[p]) \ {k} \subseteq ToSet(kept)
        /\ k \notin ToSet(kept)
    BY <1>k, <1>1, <2>1, RemoveAtOnce
  <2>3. Reviewed(p)' = ToSet(kept)
    BY <1>3 DEF Reviewed
  <2> HIDE DEF kept
  <2> QED BY <1>1, <2>2, <2>3
<1>7. CompleteDone(p, i) => rerun'[k] = FALSE
  BY <1>k, <1>1, <1>2 DEF CompleteDone
<1>8. CompleteFailed(p, i) => state'[k] = "failed"
  BY <1>k, <1>1, <1>2 DEF CompleteFailed, TypeOK
<1> HIDE DEF kept
<1>9. Wanted(k)' = Wanted(k)
  <2>1. state[k] = "running" /\ ~Waits(k)
    BY <1>1, <1>5 DEF Waits
  <2>2. Wanted(k) = 0 + (IF rerun[k] THEN 1 ELSE 0)
    BY <2>1, WantedIs
  <2>3. Wanted(k)' = (IF state'[k] = "pending" THEN 1 ELSE 0) + (IF rerun'[k] THEN 1 ELSE 0)
    BY <1>2 DEF Wanted
  <2>4. CASE CompleteDone(p, i) /\ state'[k] = IF Again(k) THEN "pending" ELSE "done"
    <3>1. Again(k) <=> rerun[k]
      BY <2>1 DEF Again
    <3> QED BY <1>7, <2>2, <2>3, <2>4, <3>1
  <2>5. CASE CompleteFailed(p, i) /\ rerun' = rerun
    BY <1>8, <2>2, <2>3, <2>5
  <2> QED BY <1>2, <2>4, <2>5
<1>10. ASSUME NEW j \in PRs \ {k} PROVE Wanted(j)' = Wanted(j)
  <2>1. Waits(j)' = Waits(j)
    BY <1>1, <1>2, <1>6 DEF Waits
  <2> QED BY <1>2, <2>1, WantedSame
<1>11. Wants' = Wants
  BY <1>9, <1>10 DEF Wants
<1>12. Wants = [j \in PRs |-> Wants[j]]
  BY DEF Wants
<1>13. Promise!Proceed(kept, Wants, owed)
  BY <1>1, <1>2, <1>3, <1>4, <1>11, <1>12, NoneBegins
<1>14. Promise!RemoveAt(jobs[p], i) = kept
  BY DEF Promise!RemoveAt, RemoveAt, kept
<1> QED BY <1>1, <1>13, <1>14 DEF Promise!End, Wants

\* The rows a crash cuts off wait for the boot.
LEMMA CrashRestarts ==
  ASSUME NEW p, Processes = {p}, SoloInv, Crash(p)
  PROVE  Promise!Restart
<1>1. /\ Api = p /\ jobs \in [Processes -> Seq(PRs)] /\ p \in Processes
      /\ Reviewed(p) = ToSet(jobs[p]) /\ \A j \in Reviewed(p) : state[j] = "running"
  BY SoloFacts DEF TypeOK
<1>2. state' = state /\ rerun' = rerun /\ owed' = owed /\ jobs' = [jobs EXCEPT ![p] = <<>>]
  BY DEF Crash, store, ghosts
<1>3. jobs'[p] = <<>> /\ Reviewed(p)' = {}
  BY <1>1, <1>2 DEF Reviewed, ToSet
<1>4. Promise!ToSet(jobs[p]) = Reviewed(p)
  BY <1>1 DEF Promise!ToSet, ToSet
<1>5. ASSUME NEW k \in PRs
      PROVE  Wanted(k)' = Wanted(k) + (IF k \in Reviewed(p) THEN 1 ELSE 0)
  <2>1. CASE k \in Reviewed(p)
    <3>1. ~Waits(k) /\ Waits(k)'
      BY <1>1, <1>2, <1>3, <2>1 DEF Waits
    <3>2. Wanted(k)' = 1 + (IF rerun[k] THEN 1 ELSE 0)
      BY <1>2, <3>1 DEF Wanted, Waits
    <3>3. Wanted(k) = 0 + (IF rerun[k] THEN 1 ELSE 0)
      BY <3>1, WantedIs
    <3> QED BY <2>1, <3>2, <3>3
  <2>2. CASE k \notin Reviewed(p)
    <3>1. Waits(k)' = Waits(k)
      BY <1>1, <1>2, <1>3, <2>2 DEF Waits
    <3>2. Wanted(k)' = Wanted(k) /\ Wanted(k) \in Nat
      BY <1>2, <3>1, WantedSame DEF Wanted
    <3> QED BY <2>2, <3>2
  <2> QED BY <2>1, <2>2
<1>6. [k \in PRs |-> Wanted(k)]' =
        [k \in PRs |-> Wants[k] + (IF k \in Reviewed(p) THEN 1 ELSE 0)]
  BY <1>5 DEF Wants
<1> QED BY <1>1, <1>2, <1>3, <1>4, <1>6 DEF Promise!Restart, Wants

\* A claim marks rows that wait, and leaves them waiting for its answer.
LEMMA ClaimQuiet ==
  ASSUME NEW p, Processes = {p}, SoloInv, Claim(p)
  PROVE  UNCHANGED Promise!vars
<1> DEFINE due == Due(slots[p])
<1>1. /\ Api = p /\ TypeOK /\ slots[p] \in Nat
      /\ \A k \in Reviewed(p) : state[k] = "running"
  BY SoloFacts
<1>2. \A k \in due : state[k] = "pending"
  BY <1>1, DueProperties
<1>3. /\ state' = [k \in PRs |-> IF k \in due THEN "running" ELSE state[k]]
      /\ jobs' = jobs /\ rerun' = rerun /\ owed' = owed
  BY DEF Claim, ghosts
<1> HIDE DEF due
<1>4. \A k \in PRs : Waits(k)' = Waits(k)
  BY <1>1, <1>2, <1>3 DEF Waits, Reviewed
<1> QED BY <1>3, <1>4, Quiet

LEMMA ClaimFailsQuiet ==
  ASSUME NEW p, Processes = {p}, SoloInv, ClaimFails(p)
  PROVE  UNCHANGED Promise!vars
<1>1. Api = p /\ p \in Processes /\ TypeOK /\ jobs[p] \in Seq(PRs)
  BY SoloFacts
<1>2. EndPump(p, {}) /\ state' = state /\ rerun' = rerun /\ owed' = owed
  BY DEF ClaimFails, store
<1>3. {} \in SUBSET PRs /\ IsFiniteSet({}) /\ Cardinality({}) = 0
  BY FS_EmptySet
<1>4. jobs'[p] = jobs[p] \o SetToSeq({})
  BY <1>1, <1>2, <1>3, EndPumpEffect
<1>5. SetToSeq({}) = <<>>
  BY <1>3, SetToSeqProperties, EmptySeq
<1>6. jobs'[p] = jobs[p]
  BY <1>1, <1>4, <1>5, ConcatEmptySeq
<1>7. \A k \in PRs : Waits(k)' = Waits(k)
  BY <1>1, <1>2, <1>6 DEF Waits, Reviewed
<1> QED BY <1>1, <1>2, <1>6, <1>7, Quiet

\* A boot re-queues rows that nobody reviews.
LEMMA BootQuiet ==
  ASSUME NEW p, Processes = {p}, SoloInv, Boot(p)
  PROVE  UNCHANGED Promise!vars
<1>1. Api = p /\ p \in Processes
  BY SoloFacts
<1>2. /\ state' = [k \in PRs |-> IF state[k] = "running" THEN "pending" ELSE state[k]]
      /\ jobs' = jobs /\ rerun' = rerun /\ owed' = owed
  BY DEF Boot
<1>3. jobs[p] = <<>>
  BY <1>1 DEF Boot, SoloInv, DownInv
<1>4. \A k \in PRs : Waits(k)' = Waits(k)
  BY <1>1, <1>2, <1>3 DEF Waits, Reviewed, ToSet
<1> QED BY <1>2, <1>4, Quiet

LEMMA SoloStep ==
  ASSUME NEW p, Processes = {p}, SoloInv, [Next]_vars
  PROVE  [Promise!Next]_(Promise!vars)
<1>1. Api = p
  BY SoloFacts
<1>2. CASE UNCHANGED vars
  <2>1. jobs' = jobs /\ state' = state /\ rerun' = rerun /\ owed' = owed
    BY <1>2 DEF vars, store, ghosts
  <2>2. \A k \in PRs : Waits(k)' = Waits(k)
    BY <2>1 DEF Waits, Reviewed
  <2> QED BY <2>1, <2>2, Quiet
<1>3. CASE LoopTurn(p) \/ Finally(p)
  <2>1. jobs' = jobs /\ state' = state /\ rerun' = rerun /\ owed' = owed
    BY <1>3 DEF LoopTurn, Finally, store, ghosts
  <2>2. \A k \in PRs : Waits(k)' = Waits(k)
    BY <2>1 DEF Waits, Reviewed
  <2> QED BY <2>1, <2>2, Quiet
<1>4. ASSUME NEW k \in PRs, Enqueue(p, k) PROVE [Promise!Next]_(Promise!vars)
  BY <1>4, EnqueueAsks DEF Promise!Next
<1>5. CASE Begin(p)
  BY <1>5, BeginBegins DEF Promise!Next
<1>6. ASSUME NEW k \in PRs, Complete(p, k) PROVE [Promise!Next]_(Promise!vars)
  <2>1. PICK i \in DOMAIN jobs[p] : CompleteDone(p, i) \/ CompleteFailed(p, i)
    BY <1>6 DEF Complete
  <2>2. Promise!End(i)
    BY <2>1, CompleteEnds
  <2> QED BY <1>1, <2>2 DEF Promise!Next
<1>7. CASE Crash(p)
  BY <1>7, CrashRestarts DEF Promise!Next
<1>8. CASE Claim(p) \/ ClaimFails(p) \/ Boot(p)
  BY <1>8, ClaimQuiet, ClaimFailsQuiet, BootQuiet
<1> QED BY <1>2, <1>3, <1>4, <1>5, <1>6, <1>7, <1>8 DEF Next

LEMMA SoloInit ==
  ASSUME NEW p, Processes = {p}, Init
  PROVE  SoloInv /\ Promise!Init
<1>1. Api = p /\ p \in Processes
  BY DEF Api
<1>2. SoloInv
  <2>1. IInv
    BY Initially
  <2>2. DownInv /\ shared = {}
    BY DEF Init, DownInv
  <2> QED BY <2>1, <2>2 DEF SoloInv
<1>3. jobs[p] = <<>> /\ owed = {}
  BY <1>1 DEF Init
<1>4. \A k \in PRs : Wanted(k) = 0
  BY DEF Init, Wanted
<1>5. [k \in PRs |-> Wanted(k)] = [k \in PRs |-> 0]
  BY <1>4
<1> QED BY <1>1, <1>2, <1>3, <1>5 DEF Promise!Init

\* With one process the table keeps the promise of the port: every review is for a
\* request or a restart, of a pull request once at a time and within the cap, and no
\* request or interrupted review is forgotten, whatever fails or dies and when.
THEOREM KeepsPromise ==
  ASSUME NEW CONSTANT p, Processes = {p}
  PROVE  Spec => ImplementsPromise
<1>1. Init => SoloInv /\ Promise!Init
  BY SoloInit
<1>2. SoloInv /\ [Next]_vars => SoloInv'
  BY SoloKept
<1>3. SoloInv /\ [Next]_vars => [Promise!Next]_(Promise!vars)
  BY SoloStep
<1> QED BY <1>1, <1>2, <1>3, PTL DEF Spec, ImplementsPromise, Promise!Safety

-----------------------------------------------------------------------------
=============================================================================
