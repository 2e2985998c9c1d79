------------------------ MODULE ReviewQueue_proofs ------------------------
(***************************************************************************)
(* The safety of the in-process review queue, for any set of pull          *)
(* requests, any concurrency and any number of requests, and its           *)
(* refinement of the safety part of ReviewPromise.                         *)
(***************************************************************************)
EXTENDS ReviewQueue, FiniteSetTheorems, FunctionTheorems, SequenceTheorems, TLAPS

\* The inductive invariant: the checked invariants together. None is inductive
\* alone: pump() is specified for a queue within its cap; a deduped request is
\* safe only because the key it was deduped against still has a job; and a drain
\* that waits is safe only because the step that empties the queue wakes it.
IInv ==
  /\ TypeOK
  /\ Capped
  /\ WorkConserving
  /\ NoPushDropped
  /\ InFlightHasJob
  /\ NoLostWakeup

----------------------------------------------------------------------------
\* Membership in a sequence, by position.
LEMMA ToSetMember ==
  ASSUME NEW S, NEW s \in Seq(S), NEW x
  PROVE  x \in ToSet(s) <=> \E i \in 1..Len(s) : s[i] = x
<1>1. DOMAIN s = 1..Len(s)
  OBVIOUS
<1>2. QED
  BY <1>1 DEF ToSet

LEMMA EmptyToSet == ToSet(<<>>) = {}
  BY DEF ToSet

LEMMA ToSetAppend ==
  ASSUME NEW S, NEW s \in Seq(S), NEW e \in S
  PROVE  /\ Append(s, e) \in Seq(S)
         /\ ToSet(Append(s, e)) = ToSet(s) \cup {e}
<1> DEFINE t == Append(s, e)
<1>1. /\ t \in Seq(S)
      /\ Len(t) = Len(s) + 1
      /\ \A i \in 1..Len(s) : t[i] = s[i]
      /\ t[Len(s) + 1] = e
  OBVIOUS
<1> HIDE DEF t
<1>2. ASSUME NEW z
      PROVE  z \in ToSet(t) <=> z \in ToSet(s) \cup {e}
  <2>1. /\ z \in ToSet(t) <=> \E l \in 1..Len(t) : t[l] = z
        /\ z \in ToSet(s) <=> \E l \in 1..Len(s) : s[l] = z
    BY <1>1, ToSetMember
  <2>2. 1..Len(t) = 1..Len(s) \cup {Len(s) + 1}
    BY <1>1
  <2>3. QED
    BY <2>1, <2>2, <1>1
<1>3. ToSet(t) = ToSet(s) \cup {e}
  BY <1>2
<1>4. QED
  BY <1>1, <1>3 DEF t

\* Dropping one element of a sequence loses at most that element.
LEMMA RemoveAtProperties ==
  ASSUME NEW S, NEW s \in Seq(S), NEW i \in 1..Len(s)
  PROVE  /\ RemoveAt(s, i) \in Seq(S)
         /\ Len(RemoveAt(s, i)) = Len(s) - 1
         /\ ToSet(s) \subseteq ToSet(RemoveAt(s, i)) \cup {s[i]}
         /\ ToSet(RemoveAt(s, i)) \subseteq ToSet(s)
<1> DEFINE a == SubSeq(s, 1, i - 1)
           b == SubSeq(s, i + 1, Len(s))
<1>1. /\ a \in Seq(S)
      /\ Len(a) = i - 1
      /\ \A j \in 1..(i - 1) : a[j] = s[j]
  OBVIOUS
<1>2. /\ b \in Seq(S)
      /\ Len(b) = Len(s) - i
      /\ \A j \in 1..(Len(s) - i) : b[j] = s[i + j]
  OBVIOUS
<1>3. RemoveAt(s, i) = a \o b
  BY DEF RemoveAt
<1> HIDE DEF a, b
<1>4. /\ a \o b \in Seq(S)
      /\ Len(a \o b) = Len(s) - 1
      /\ \A j \in 1..(i - 1) : (a \o b)[j] = s[j]
      /\ \A j \in i..(Len(s) - 1) : (a \o b)[j] = s[j + 1]
  <2>1. /\ a \o b \in Seq(S)
        /\ Len(a \o b) = Len(s) - 1
        /\ \A j \in 1..(i - 1) : (a \o b)[j] = s[j]
    BY <1>1, <1>2
  <2>2. ASSUME NEW j \in i..(Len(s) - 1)
        PROVE  (a \o b)[j] = s[j + 1]
    <3>1. j - (i - 1) \in 1..Len(b) /\ j = Len(a) + (j - (i - 1))
      <4>1. Len(a) = i - 1 /\ Len(b) = Len(s) - i
        BY <1>1, <1>2
      <4>2. QED
        BY <4>1
    <3>2. (a \o b)[j] = b[j - (i - 1)]
      BY <3>1, <1>1, <1>2
    <3>3. i + (j - (i - 1)) = j + 1
      OBVIOUS
    <3>4. QED
      BY <3>1, <3>2, <3>3, <1>2
  <2>3. QED
    BY <2>1, <2>2
<1> DEFINE t == a \o b
<1> HIDE DEF t
<1>5. ASSUME NEW j \in 1..Len(s), j # i
      PROVE  \E l \in 1..Len(t) : t[l] = s[j]
  <2>1. CASE j < i
    BY <2>1, <1>4, j \in 1..Len(t) DEF t
  <2>2. CASE j > i
    <3>1. PICK l \in i..(Len(s) - 1) : l + 1 = j
      BY <2>2, j - 1 \in i..(Len(s) - 1), (j - 1) + 1 = j
    <3>2. t[l] = s[l + 1] /\ l \in 1..Len(t)
      BY <3>1, <1>4 DEF t
    <3>3. QED
      BY <3>1, <3>2
  <2>3. QED
    BY <1>5, <2>1, <2>2
<1>6. ASSUME NEW l \in 1..Len(t)
      PROVE  \E j \in 1..Len(s) : s[j] = t[l]
  <2>1. CASE l < i
    <3>1. l \in 1..(i - 1) /\ l \in 1..Len(s)
      BY <2>1
    <3>2. t[l] = s[l]
      BY <3>1, <1>4 DEF t
    <3>3. QED
      BY <3>1, <3>2
  <2>2. CASE l >= i
    BY <2>2, <1>4, l + 1 \in 1..Len(s), t[l] = s[l + 1] DEF t
  <2>3. QED
    BY <2>1, <2>2
<1>7. ToSet(s) \subseteq ToSet(t) \cup {s[i]} /\ ToSet(t) \subseteq ToSet(s)
  <2>1. t \in Seq(S)
    BY <1>4 DEF t
  <2>2. ASSUME NEW z
        PROVE  /\ z \in ToSet(t) <=> \E l \in 1..Len(t) : t[l] = z
               /\ z \in ToSet(s) <=> \E l \in 1..Len(s) : s[l] = z
    BY <2>1, ToSetMember
  <2>3. QED
    BY <2>2, <1>5, <1>6
<1>8. QED
  BY <1>3, <1>4, <1>7 DEF t

\* What pump() leaves behind: no slot is exceeded, none stays free beside a
\* waiting job, no job is lost, and whoever is still owed a run was not among
\* the jobs that began.
LEMMA FillProperties ==
  ASSUME NEW q \in Seq(PRs), NEW r \in Seq(PRs), Len(r) <= Concurrency
  PROVE  /\ Fill(q, r) \in 0..Len(q)
         /\ Fill(q, r) <= Concurrency - Len(r)
         /\ Fill(q, r) < Len(q) => Fill(q, r) = Concurrency - Len(r)
<1> DEFINE m == Len(q)
           f == Concurrency - Len(r)
<1>1. m \in Nat /\ f \in Nat
  BY ConcurrencyAssumption
<1> HIDE DEF m, f
<1>2. \E x \in {m, f} : \A y \in {m, f} : x <= y
  BY <1>1
<1>3. Min({m, f}) \in {m, f} /\ Min({m, f}) <= m /\ Min({m, f}) <= f
  BY <1>2 DEF Min
<1>4. Fill(q, r) = Min({m, f})
  BY DEF Fill, m, f
<1>5. QED
  BY <1>1, <1>3, <1>4 DEF m, f

LEMMA PumpProperties ==
  ASSUME NEW q \in Seq(PRs), NEW r \in Seq(PRs), NEW due \in SUBSET PRs,
         Len(r) <= Concurrency,
         Pump(q, r, due)
  PROVE  /\ pending' \in Seq(PRs)
         /\ executing' \in Seq(PRs)
         /\ owed' \subseteq PRs
         /\ Capped'
         /\ WorkConserving'
         /\ ToSet(q) \cup ToSet(r) = ToSet(pending') \cup ToSet(executing')
         /\ owed' \subseteq due
         /\ owed' \cap ToSet(q) \subseteq ToSet(pending')
<1> DEFINE n == Fill(q, r)
           x == SubSeq(q, 1, n)
           y == SubSeq(q, n + 1, Len(q))
<1>1. n \in 0..Len(q) /\ n <= Concurrency - Len(r)
      /\ (n < Len(q) => n = Concurrency - Len(r))
  BY FillProperties
<1>2. /\ executing' = r \o x
      /\ pending' = y
      /\ owed' = due \ {q[i] : i \in 1..n}
  BY DEF Pump
<1> HIDE DEF n
<1>3. /\ x \in Seq(PRs)
      /\ Len(x) = n
      /\ \A i \in 1..n : x[i] = q[i]
  BY <1>1
<1>4. /\ y \in Seq(PRs)
      /\ Len(y) = Len(q) - n
      /\ \A i \in 1..(Len(q) - n) : y[i] = q[n + i]
  BY <1>1
<1> HIDE DEF x, y
<1>5. /\ r \o x \in Seq(PRs)
      /\ Len(r \o x) = Len(r) + n
      /\ \A i \in 1..Len(r) : (r \o x)[i] = r[i]
      /\ \A i \in 1..n : (r \o x)[Len(r) + i] = q[i]
  BY <1>1, <1>3
<1> DEFINE t == r \o x
<1> HIDE DEF t
<1>6. ToSet(t) = ToSet(r) \cup {q[i] : i \in 1..n}
  <2>1. ASSUME NEW i \in 1..n
        PROVE  \E l \in 1..Len(t) : t[l] = q[i]
    BY <1>1, <1>5, Len(r) + i \in 1..Len(t) DEF t
  <2>2. ASSUME NEW i \in 1..Len(r)
        PROVE  \E l \in 1..Len(t) : t[l] = r[i]
    BY <1>1, <1>5, i \in 1..Len(t) DEF t
  <2>3. ASSUME NEW l \in 1..Len(t)
        PROVE  \/ \E i \in 1..Len(r) : r[i] = t[l]
               \/ \E i \in 1..n : q[i] = t[l]
    <3>1. CASE l <= Len(r)
      BY <3>1, <1>5, l \in 1..Len(r) DEF t
    <3>2. CASE l > Len(r)
      <4>1. l - Len(r) \in 1..n /\ Len(r) + (l - Len(r)) = l
        BY <3>2, <1>1, <1>5 DEF t
      <4>2. t[l] = q[l - Len(r)]
        BY <4>1, <1>5 DEF t
      <4>3. QED
        BY <4>1, <4>2
    <3>3. QED
      BY <3>1, <3>2
  <2>4. t \in Seq(PRs)
    BY <1>5 DEF t
  <2>5. ASSUME NEW z
        PROVE  z \in ToSet(t) <=> z \in ToSet(r) \cup {q[i] : i \in 1..n}
    <3>1. z \in ToSet(t) <=> \E l \in 1..Len(t) : t[l] = z
      BY <2>4, ToSetMember
    <3>2. z \in ToSet(r) <=> \E i \in 1..Len(r) : r[i] = z
      BY ToSetMember
    <3>3. z \in {q[i] : i \in 1..n} <=> \E i \in 1..n : q[i] = z
      OBVIOUS
    <3>4. QED
      BY <2>1, <2>2, <2>3, <3>1, <3>2, <3>3
  <2>6. QED
    BY <2>5
<1>7. ToSet(q) = {q[i] : i \in 1..n} \cup ToSet(y)
  <2>1. ASSUME NEW i \in 1..Len(q)
        PROVE  \/ \E j \in 1..n : q[j] = q[i]
               \/ \E j \in 1..Len(y) : y[j] = q[i]
    <3>1. CASE i <= n
      BY <3>1, <1>1, i \in 1..n
    <3>2. CASE i > n
      BY <3>2, <1>1, <1>4, i - n \in 1..Len(y), n + (i - n) = i
    <3>3. QED
      BY <3>1, <3>2, <1>1
  <2>2. ASSUME NEW i \in 1..n
        PROVE  i \in 1..Len(q)
    BY <1>1
  <2>3. ASSUME NEW i \in 1..Len(y)
        PROVE  \E j \in 1..Len(q) : q[j] = y[i]
    BY <1>1, <1>4, n + i \in 1..Len(q)
  <2>4. ASSUME NEW z
        PROVE  z \in ToSet(q) <=> z \in {q[i] : i \in 1..n} \cup ToSet(y)
    <3>1. z \in ToSet(q) <=> \E i \in 1..Len(q) : q[i] = z
      BY ToSetMember
    <3>2. z \in ToSet(y) <=> \E i \in 1..Len(y) : y[i] = z
      BY <1>4, ToSetMember
    <3>3. z \in {q[i] : i \in 1..n} <=> \E i \in 1..n : q[i] = z
      OBVIOUS
    <3>4. QED
      BY <2>1, <2>2, <2>3, <3>1, <3>2, <3>3
  <2>5. QED
    BY <2>4
<1>8. Capped' /\ WorkConserving'
  <2>1. Len(executing') = Len(r) + n
    BY <1>2, <1>5
  <2>2. Len(r) \in Nat /\ Len(q) \in Nat /\ Concurrency \in Nat
    BY ConcurrencyAssumption
  <2>3. Capped'
    BY <2>1, <2>2, <1>1 DEF Capped
  <2>4. ASSUME pending' # <<>>
        PROVE  n < Len(q)
    <3>1. Len(y) # 0
      BY <2>4, <1>2, <1>4
    <3>2. QED
      BY <3>1, <1>1, <1>4
  <2>5. QED
    BY <2>1, <2>2, <2>3, <2>4, <1>1 DEF WorkConserving
<1>9. QED
  BY <1>2, <1>4, <1>5, <1>6, <1>7, <1>8 DEF t

----------------------------------------------------------------------------
LEMMA InitEstablishes == Init => IInv
<1> SUFFICES ASSUME Init PROVE IInv
  OBVIOUS
<1> USE DEF Init
<1>1. TypeOK
  BY MaxPushesAssumption DEF TypeOK
<1>2. Capped /\ WorkConserving /\ NoLostWakeup
  BY ConcurrencyAssumption DEF Capped, WorkConserving, NoLostWakeup, Idle
<1>3. NoPushDropped /\ InFlightHasJob
  BY DEF NoPushDropped, InFlightHasJob
<1>4. QED
  BY <1>1, <1>2, <1>3 DEF IInv

\* A webhook's request: deduped against a job in flight, or queued and pumped.
LEMMA EnqueuePreserves ==
  ASSUME IInv, NEW k \in PRs, Enqueue(k)
  PROVE  IInv'
<1>1. pushes' \in 0..MaxPushes /\ waiters' = waiters
  BY MaxPushesAssumption DEF IInv, Enqueue, TypeOK
<1>2. CASE Dedupe(k)
  <2>1. TypeOK' /\ Capped' /\ WorkConserving' /\ NoLostWakeup'
    BY <1>1, <1>2
       DEF Dedupe, IInv, TypeOK, Capped, WorkConserving, NoLostWakeup, Idle
  <2>2. NoPushDropped' /\ InFlightHasJob'
    BY <1>2 DEF Dedupe, IInv, NoPushDropped, InFlightHasJob
  <2>3. QED
    BY <2>1, <2>2 DEF IInv
<1>3. CASE Accept(k)
  <2> DEFINE q == Append(pending, k)
  <2>1. /\ q \in Seq(PRs)
        /\ ToSet(q) = ToSet(pending) \cup {k}
    <3>1. pending \in Seq(PRs)
      BY DEF IInv, TypeOK
    <3>2. QED
      BY <3>1, ToSetAppend
  <2>2. owed \cup {k} \in SUBSET PRs /\ executing \in Seq(PRs)
    BY DEF IInv, TypeOK
  <2>3. Len(executing) <= Concurrency
    BY DEF IInv, Capped
  <2>4. Pump(q, executing, owed \cup {k})
    BY <1>3 DEF Accept
  <2> HIDE DEF q
  <2>5. /\ pending' \in Seq(PRs)
        /\ executing' \in Seq(PRs)
        /\ owed' \subseteq PRs
        /\ Capped'
        /\ WorkConserving'
        /\ ToSet(q) \cup ToSet(executing) = ToSet(pending') \cup ToSet(executing')
        /\ owed' \subseteq owed \cup {k}
        /\ owed' \cap ToSet(q) \subseteq ToSet(pending')
    BY <2>1, <2>2, <2>3, <2>4, PumpProperties
  <2>6. TypeOK'
    BY <1>1, <1>3, <2>5 DEF Accept, IInv, TypeOK
  <2>7. NoPushDropped'
    BY <1>3, <2>1, <2>5 DEF Accept, IInv, NoPushDropped
  <2>8. InFlightHasJob'
    BY <1>3, <2>1, <2>5 DEF Accept, IInv, InFlightHasJob
  <2>9. NoLostWakeup'
    <3>1. ToSet(pending') \cup ToSet(executing') # {}
      BY <2>1, <2>5
    <3>2. QED
      BY <3>1, EmptyToSet DEF NoLostWakeup, Idle
  <2>10. QED
    BY <2>5, <2>6, <2>7, <2>8, <2>9 DEF IInv
<1>4. QED
  BY <1>2, <1>3 DEF Enqueue

\* A run settles, alone or followed by the one re-run its duplicates ask for.
LEMMA SettlePreserves ==
  ASSUME IInv, NEW i \in DOMAIN executing, Settle(i)
  PROVE  IInv'
<1> DEFINE k == executing[i]
           q == IF k \in rerun THEN Append(pending, k) ELSE pending
           r == RemoveAt(executing, i)
<1>1. i \in 1..Len(executing) /\ k \in PRs
  BY DEF IInv, TypeOK
<1>2. /\ r \in Seq(PRs)
      /\ Len(r) = Len(executing) - 1
      /\ ToSet(executing) \subseteq ToSet(r) \cup {k}
      /\ ToSet(r) \subseteq ToSet(executing)
  BY <1>1, RemoveAtProperties DEF IInv, TypeOK
<1>3. /\ q \in Seq(PRs)
      /\ k \in rerun => ToSet(q) = ToSet(pending) \cup {k}
      /\ k \notin rerun => ToSet(q) = ToSet(pending)
  <2>1. pending \in Seq(PRs)
    BY DEF IInv, TypeOK
  <2> HIDE DEF k
  <2>2. /\ Append(pending, k) \in Seq(PRs)
        /\ ToSet(Append(pending, k)) = ToSet(pending) \cup {k}
    BY <1>1, <2>1, ToSetAppend
  <2>3. QED
    BY <2>1, <2>2
<1>4. Len(r) <= Concurrency
  BY <1>2, ConcurrencyAssumption DEF IInv, TypeOK, Capped
<1>5. /\ Pump(q, r, owed)
      /\ inFlight' = inFlight \ {k}
      /\ rerun' = rerun \ {k}
      /\ pushes' = pushes
      /\ waiters' = IF k \notin rerun /\ Idle' THEN 0 ELSE waiters
  BY DEF Settle, Forget, Release, Idle
<1>6. owed \in SUBSET PRs
  BY DEF IInv, TypeOK
<1> HIDE DEF k, q, r
<1>7. /\ pending' \in Seq(PRs)
      /\ executing' \in Seq(PRs)
      /\ owed' \subseteq PRs
      /\ Capped'
      /\ WorkConserving'
      /\ ToSet(q) \cup ToSet(r) = ToSet(pending') \cup ToSet(executing')
      /\ owed' \subseteq owed
      /\ owed' \cap ToSet(q) \subseteq ToSet(pending')
  BY <1>2, <1>3, <1>4, <1>5, <1>6, PumpProperties
<1>8. TypeOK'
  BY <1>5, <1>7 DEF IInv, TypeOK
<1>9. NoPushDropped' /\ InFlightHasJob'
  BY <1>2, <1>3, <1>5, <1>7 DEF IInv, NoPushDropped, InFlightHasJob
<1>10. NoLostWakeup'
  <2>1. CASE k \in rerun
    <3>1. ToSet(pending') \cup ToSet(executing') # {}
      BY <2>1, <1>3, <1>7
    <3>2. QED
      BY <3>1, EmptyToSet DEF NoLostWakeup, Idle
  <2>2. CASE k \notin rerun
    BY <2>2, <1>5 DEF NoLostWakeup, Idle
  <2>3. QED
    BY <2>1, <2>2
<1>11. QED
  BY <1>7, <1>8, <1>9, <1>10 DEF IInv

\* The invariants of the review queue hold in every behaviour of it.
THEOREM Invariant == Spec => []IInv
<1>1. IInv /\ [Next]_vars => IInv'
  <2> SUFFICES ASSUME IInv, [Next]_vars PROVE IInv'
    OBVIOUS
  <2>1. ASSUME NEW k \in PRs, Enqueue(k) PROVE IInv'
    BY <2>1, EnqueuePreserves
  <2>2. ASSUME NEW k \in PRs, SettleJob(k) PROVE IInv'
    BY <2>2, SettlePreserves DEF SettleJob
  <2>3. CASE Drain
    BY <2>3 DEF Drain, IInv, TypeOK, Capped, WorkConserving, NoPushDropped, InFlightHasJob, NoLostWakeup, Idle
  <2>4. CASE UNCHANGED vars
    BY <2>4 DEF vars, IInv, TypeOK, Capped, WorkConserving, NoPushDropped, InFlightHasJob, NoLostWakeup, Idle
  <2>5. QED
    BY <2>1, <2>2, <2>3, <2>4 DEF Next
<1>2. QED
  BY <1>1, InitEstablishes, PTL DEF Spec

\* The queue's data stay what pump(), enqueue() and drain() take them for.
THEOREM TypeCorrect == Spec => []TypeOK
<1>1. IInv => TypeOK
  BY DEF IInv
<1>2. QED
  BY <1>1, Invariant, PTL

\* A push that lands while its pull request is queued or running is kept until
\* a review that begins after it: the request is queued, or flagged against a
\* job that will settle.
THEOREM PushesKept == Spec => [](NoPushDropped /\ InFlightHasJob)
<1>1. IInv => NoPushDropped /\ InFlightHasJob
  BY DEF IInv
<1>2. QED
  BY <1>1, Invariant, PTL

\* The cap is respected, and no job waits while a slot is free.
THEOREM SlotsUsed == Spec => [](Capped /\ WorkConserving)
<1>1. IInv => Capped /\ WorkConserving
  BY DEF IInv
<1>2. QED
  BY <1>1, Invariant, PTL

\* No caller of drain() is left waiting on an idle queue.
THEOREM DrainsWake == Spec => []NoLostWakeup
<1>1. IInv => NoLostWakeup
  BY DEF IInv
<1>2. QED
  BY <1>1, Invariant, PTL

----------------------------------------------------------------------------
(* Every step of the queue is a step of ReviewPromise, or none. What has to   *)
(* be shown is that a step begins at most one review, which rests on          *)
(* WorkConserving, and that the reviews a pull request is due are counted     *)
(* right while its jobs move from `rerun` to `pending` and out.               *)

\* How often k is in q.
Places(q, k) == {i \in 1..Len(q) : q[i] = k}
Count(q, k) == Cardinality(Places(q, k))

LEMMA CountType ==
  ASSUME NEW q \in Seq(PRs), NEW k
  PROVE  IsFiniteSet(Places(q, k)) /\ Count(q, k) \in Nat
<1>1. IsFiniteSet(1..Len(q))
  BY FS_Interval
<1>2. Places(q, k) \in SUBSET (1..Len(q))
  BY DEF Places
<1>3. IsFiniteSet(Places(q, k))
  BY <1>1, <1>2, FS_Subset
<1>4. QED
  BY <1>3, FS_CardinalityType DEF Count

LEMMA CountAppend ==
  ASSUME NEW q \in Seq(PRs), NEW e \in PRs, NEW k
  PROVE  Count(Append(q, e), k) = Count(q, k) + (IF e = k THEN 1 ELSE 0)
<1> DEFINE t == Append(q, e)
           m == Len(q) + 1
<1>1. /\ Len(t) = m
      /\ \A i \in 1..Len(q) : t[i] = q[i]
      /\ t[m] = e
      /\ m \notin 1..Len(q)
      /\ 1..m = 1..Len(q) \cup {m}
  OBVIOUS
<1>2. IsFiniteSet(Places(q, k)) /\ Count(q, k) \in Nat
  BY CountType
<1> HIDE DEF t, m
<1>3. m \notin Places(q, k)
  BY <1>1 DEF Places
<1>4. CASE e = k
  <2>1. Places(t, k) = Places(q, k) \cup {m}
    BY <1>1, <1>4 DEF Places
  <2>2. QED
    BY <2>1, <1>2, <1>3, <1>4, FS_AddElement DEF Count, t
<1>5. CASE e # k
  <2>1. Places(t, k) = Places(q, k)
    BY <1>1, <1>5 DEF Places
  <2>2. QED
    BY <2>1, <1>2, <1>5 DEF Count, t
<1>6. QED
  BY <1>4, <1>5

\* The first job leaves the queue.
LEMMA CountRest ==
  ASSUME NEW q \in Seq(PRs), Len(q) > 0, NEW k
  PROVE  Count(q, k) =
           Count(SubSeq(q, 2, Len(q)), k) + (IF q[1] = k THEN 1 ELSE 0)
<1> DEFINE t == SubSeq(q, 2, Len(q))
           A == Places(t, k)
           B == Places(q, k) \ {1}
           f == [i \in A |-> i + 1]
<1>1. /\ t \in Seq(PRs)
      /\ Len(t) = Len(q) - 1
      /\ \A i \in 1..(Len(q) - 1) : t[i] = q[i + 1]
  BY q # <<>>, TailIsSubSeq, HeadTailProperties
<1> HIDE DEF t
<1>2. /\ \A i \in A : i \in Nat /\ i + 1 \in B
      /\ \A j \in B : j \in Nat /\ j - 1 \in A /\ (j - 1) + 1 = j
  <2>1. ASSUME NEW i \in A
        PROVE  i \in Nat /\ i + 1 \in B
    <3>1. i \in 1..(Len(q) - 1) /\ t[i] = k
      BY <1>1 DEF Places
    <3>2. i + 1 \in 1..Len(q) /\ q[i + 1] = k /\ i + 1 # 1
      BY <3>1, <1>1
    <3>3. QED
      BY <3>1, <3>2 DEF Places
  <2>2. ASSUME NEW j \in B
        PROVE  j \in Nat /\ j - 1 \in A /\ (j - 1) + 1 = j
    <3>1. j \in 1..Len(q) /\ q[j] = k /\ j # 1
      BY DEF Places
    <3>2. j - 1 \in 1..(Len(q) - 1) /\ (j - 1) + 1 = j
      BY <3>1
    <3>3. t[j - 1] = k
      BY <3>1, <3>2, <1>1
    <3>4. QED
      BY <3>1, <3>2, <3>3, <1>1 DEF Places
  <2>3. QED
    BY <2>1, <2>2
<1>3. f \in Bijection(A, B)
  <2> HIDE DEF A, B
  <2>1. f \in [A -> B] /\ \A i, j \in A : f[i] = f[j] => i = j
    BY <1>2
  <2>2. \A j \in B : \E i \in A : f[i] = j
    BY <1>2
  <2>3. QED
    BY <2>1, <2>2 DEF Bijection, Injection, Surjection, IsInjective
<1>4. ExistsBijection(A, B)
  BY <1>3 DEF ExistsBijection
<1>5. IsFiniteSet(A) /\ Count(t, k) \in Nat
  BY <1>1, CountType
<1>6. Cardinality(B) = Count(t, k)
  BY <1>4, <1>5, FS_Bijection DEF Count
<1>7. IsFiniteSet(Places(q, k)) /\ Count(q, k) \in Nat
  BY CountType
<1>8. Cardinality(B) = IF 1 \in Places(q, k) THEN Count(q, k) - 1 ELSE Count(q, k)
  BY <1>7, FS_RemoveElement DEF Count
<1>9. 1 \in Places(q, k) <=> q[1] = k
  BY DEF Places
<1>10. QED
  BY <1>5, <1>6, <1>7, <1>8, <1>9 DEF t

----------------------------------------------------------------------------
\* The reviews due when the queue is q and the flags are F.
DueOf(q, F) == [k \in PRs |-> Count(q, k) + (IF k \in F THEN 1 ELSE 0)]

LEMMA DueIsCounted ==
  ASSUME TypeOK
  PROVE  [k \in PRs |-> Due(k)] = DueOf(pending, rerun)
<1>1. DOMAIN pending = 1..Len(pending)
  BY DEF TypeOK
<1>2. QED
  BY <1>1 DEF Due, DueOf, Count, Places

\* The two steps of Proceed that this queue takes: no review begins, or one.
LEMMA NoneBegins ==
  ASSUME NEW r \in Seq(PRs), NEW w, NEW owing,
         Len(r) <= Concurrency, w = [k \in PRs |-> w[k]],
         executing' = r, [k \in PRs |-> Due(k)]' = w, owed' = owing
  PROVE  Promise!Proceed(r, w, owing)
<1> DEFINE new == <<>>
<1>1. new \in Promise!Batches /\ Len(new) = 0 /\ Promise!ToSet(new) = {}
  <2>1. 0 \in 0..Concurrency /\ new \in [1..0 -> PRs]
    BY ConcurrencyAssumption
  <2> QED
    BY <2>1 DEF Promise!Batches, Promise!ToSet
<1>2. r \o new = r
  OBVIOUS
<1>3. Len(r) + Len(new) <= Concurrency
  BY <1>1
<1> HIDE DEF new
<1>4. [k \in PRs |-> IF k \in Promise!ToSet(new) THEN w[k] - 1 ELSE w[k]] = w
  BY <1>1
<1>5. owing \ Promise!ToSet(new) = owing
  BY <1>1
<1> QED
  BY <1>1, <1>2, <1>3, <1>4, <1>5 DEF Promise!Proceed

LEMMA OneBegins ==
  ASSUME NEW r \in Seq(PRs), NEW w, NEW owing, NEW j \in PRs,
         Len(r) < Concurrency, w[j] > 0, executing' = r \o << j >>,
         [k \in PRs |-> Due(k)]' = [k \in PRs |-> IF k = j THEN w[k] - 1 ELSE w[k]],
         owed' = owing \ {j}
  PROVE  Promise!Proceed(r, w, owing)
<1> DEFINE new == << j >>
<1>1. new \in [1..1 -> PRs] /\ Len(new) = 1 /\ new[1] = j
  OBVIOUS
<1>2. new \in Promise!Batches
  <2>1. 1 \in 0..Concurrency
    BY ConcurrencyAssumption
  <2>2. \A a, b \in 1..1 : new[a] = new[b] => a = b
    OBVIOUS
  <2> QED
    BY <1>1, <2>1, <2>2 DEF Promise!Batches
<1>3. Promise!ToSet(new) = {j}
  BY <1>1 DEF Promise!ToSet
<1>4. Len(r) + Len(new) <= Concurrency
  BY <1>1, ConcurrencyAssumption
<1>5. executing' = r \o new
  OBVIOUS
<1> HIDE DEF new
<1>6. [k \in PRs |-> Due(k)]' =
        [k \in PRs |-> IF k \in Promise!ToSet(new) THEN w[k] - 1 ELSE w[k]]
  BY <1>3
<1> QED
  BY <1>2, <1>3, <1>4, <1>5, <1>6 DEF Promise!Proceed

\* A pump() that begins one review at most is what the promise calls Proceed,
\* from the queue and the running jobs its caller left it.
LEMMA PumpProceeds ==
  ASSUME NEW q \in Seq(PRs), NEW r \in Seq(PRs), NEW due \in SUBSET PRs,
         Len(r) <= Concurrency,
         Fill(q, r) <= 1,
         Pump(q, r, due),
         TypeOK'
  PROVE  Promise!Proceed(r, DueOf(q, rerun'), due)
<1> DEFINE n == Fill(q, r)
           w == DueOf(q, rerun')
<1>1. n \in 0..1 /\ n <= Len(q) /\ n <= Concurrency - Len(r)
  BY FillProperties
<1>2. /\ executing' = r \o SubSeq(q, 1, n)
      /\ pending' = SubSeq(q, n + 1, Len(q))
      /\ owed' = due \ {q[i] : i \in 1..n}
  BY DEF Pump
<1>3. [k \in PRs |-> Due(k)]' = DueOf(pending', rerun')
  <2>1. DOMAIN pending' = 1..Len(pending')
    BY DEF TypeOK
  <2>2. QED
    BY <2>1 DEF Due, DueOf, Count, Places
<1> HIDE DEF n
<1>4. CASE n = 0
  <2>1. SubSeq(q, 1, 0) = <<>> /\ SubSeq(q, 0 + 1, Len(q)) = q
    BY SubSeqEmpty, SubSeqFull
  <2>2. r \o <<>> = r
    OBVIOUS
  <2>3. {q[i] : i \in 1..0} = {}
    OBVIOUS
  <2>4. executing' = r /\ pending' = q /\ owed' = due
    BY <1>2, <1>4, <2>1, <2>2, <2>3
  <2>5. [k \in PRs |-> Due(k)]' = w
    BY <1>3, <2>4
  <2>6. w = [k \in PRs |-> w[k]]
    BY DEF DueOf
  <2> HIDE DEF w
  <2>7. QED
    BY <2>4, <2>5, <2>6, NoneBegins DEF w
<1>5. CASE n = 1
  <2>1. Len(q) > 0 /\ Len(r) < Concurrency
    BY <1>1, <1>5, ConcurrencyAssumption
  <2>2. q[1] \in PRs
    BY <2>1
  <2>3. SubSeq(q, 1, 1) = << q[1] >>
    <3>1. SubSeq(q, 1, 1) = << q[1] >> \o SubSeq(q, 2, 1)
      BY <2>1, 1 \in 1..Len(q), SubSeqRecursiveFirst
    <3>2. SubSeq(q, 2, 1) = <<>>
      BY SubSeqEmpty
    <3>3. << q[1] >> \in Seq(PRs)
      BY <2>2
    <3>4. << q[1] >> \o <<>> = << q[1] >>
      BY <3>3, ConcatEmptySeq
    <3>5. QED
      BY <3>1, <3>2, <3>4
  <2>4. executing' = r \o << q[1] >>
    BY <1>2, <1>5, <2>3
  <2>5. pending' = SubSeq(q, 2, Len(q)) /\ owed' = due \ {q[1]}
    BY <1>2, <1>5
  <2>6. /\ w[q[1]] > 0
        /\ DueOf(pending', rerun') = [k \in PRs |-> IF k = q[1] THEN w[k] - 1 ELSE w[k]]
    <3>1. ASSUME NEW k \in PRs
          PROVE  /\ Count(q, k) = Count(pending', k) + (IF q[1] = k THEN 1 ELSE 0)
                 /\ Count(pending', k) \in Nat
      <4>1. pending' \in Seq(PRs)
        BY DEF TypeOK
      <4>2. QED
        BY <2>1, <2>5, <4>1, CountRest, CountType
    <3>2. DueOf(pending', rerun') = [k \in PRs |->
             Count(pending', k) + (IF k \in rerun' THEN 1 ELSE 0)]
      BY DEF DueOf
    <3>3. w = [k \in PRs |-> Count(q, k) + (IF k \in rerun' THEN 1 ELSE 0)]
      BY DEF DueOf
    <3> HIDE DEF w
    <3>4. w[q[1]] = Count(pending', q[1]) + 1 + (IF q[1] \in rerun' THEN 1 ELSE 0)
      BY <3>1, <3>3, <2>2
    <3>5. ASSUME NEW k \in PRs
          PROVE  DueOf(pending', rerun')[k] = IF k = q[1] THEN w[k] - 1 ELSE w[k]
      <4>1. CASE k = q[1]
        BY <4>1, <3>1, <3>2, <3>3, <3>4
      <4>2. CASE k # q[1]
        BY <4>2, <3>1, <3>2, <3>3
      <4>3. QED
        BY <4>1, <4>2
    <3>6. w[q[1]] > 0
      BY <3>1, <3>4, <2>2
    <3>7. QED
      BY <3>2, <3>3, <3>5, <3>6
  <2>7. QED
    <3>1. [k \in PRs |-> Due(k)]' = [k \in PRs |-> IF k = q[1] THEN w[k] - 1 ELSE w[k]]
      BY <1>3, <2>6
    <3>2. w[q[1]] > 0
      BY <2>6
    <3> HIDE DEF w
    <3>3. Promise!Proceed(r, w, due)
      BY <2>1, <2>2, <2>4, <2>5, <3>1, <3>2, OneBegins
    <3>4. QED
      BY <3>3 DEF w
<1>6. QED
  BY <1>1, <1>4, <1>5

----------------------------------------------------------------------------
\* A flag more, or a job more, is one review more that is due.
OneMore(due, k) == [due EXCEPT ![k] = @ + 1]

LEMMA DueOneMore ==
  ASSUME NEW q \in Seq(PRs), NEW F, NEW k \in PRs
  PROVE  /\ k \notin F => DueOf(q, F \cup {k}) = OneMore(DueOf(q, F), k)
         /\ DueOf(Append(q, k), F) = OneMore(DueOf(q, F), k)
<1> DEFINE a == DueOf(q, F)
           b == DueOf(q, F \cup {k})
           d == DueOf(Append(q, k), F)
<1>1. \A p \in PRs : Count(q, p) \in Nat
  BY CountType
<1>2. \A p \in PRs : Count(Append(q, k), p) = Count(q, p) + (IF k = p THEN 1 ELSE 0)
  BY CountAppend
<1>3. /\ a = [p \in PRs |-> Count(q, p) + (IF p \in F THEN 1 ELSE 0)]
      /\ b = [p \in PRs |-> Count(q, p) + (IF p \in F \cup {k} THEN 1 ELSE 0)]
      /\ d = [p \in PRs |-> Count(Append(q, k), p) + (IF p \in F THEN 1 ELSE 0)]
  BY DEF DueOf
<1> HIDE DEF a, b, d
<1>4. ASSUME NEW p \in PRs
      PROVE  /\ k \notin F => b[p] = [a EXCEPT ![k] = @ + 1][p]
             /\ d[p] = [a EXCEPT ![k] = @ + 1][p]
  <2>1. CASE p = k
    BY <2>1, <1>1, <1>2, <1>3
  <2>2. CASE p # k
    BY <2>2, <1>1, <1>2, <1>3
  <2>3. QED
    BY <2>1, <2>2
<1>5. QED
  BY <1>3, <1>4 DEF a, b, d, OneMore

\* A request: flagged against a job in flight, or queued.
LEMMA EnqueueAsks ==
  ASSUME IInv, IInv', NEW k \in PRs, Enqueue(k)
  PROVE  Promise!Ask(k)
<1> DEFINE w == [p \in PRs |-> Due(p)]
<1>1. /\ pending \in Seq(PRs) /\ executing \in Seq(PRs)
      /\ owed \cup {k} \in SUBSET PRs
      /\ Len(executing) <= Concurrency
  BY DEF IInv, TypeOK, Capped
<1>2. w = DueOf(pending, rerun)
  BY DueIsCounted DEF IInv
<1>3. \A p \in PRs : Count(pending, p) \in Nat
  BY <1>1, CountType
<1>4. TypeOK'
  BY DEF IInv
<1>5. w' = DueOf(pending', rerun')
  <2>1. DOMAIN pending' = 1..Len(pending')
    BY <1>4 DEF TypeOK
  <2>2. QED
    BY <2>1 DEF Due, DueOf, Count, Places
<1>6. CASE Dedupe(k) /\ k \in rerun
  <2>1. /\ pending' = pending /\ executing' = executing
        /\ rerun' = rerun /\ owed' = owed \cup {k}
    BY <1>6 DEF Dedupe
  <2>2. w[k] > 0 /\ w' = w
    <3>1. DueOf(pending, rerun)[k] = Count(pending, k) + 1
      BY <1>6 DEF DueOf
    <3>2. QED
      BY <2>1, <3>1, <1>2, <1>3, <1>5
  <2>3. Promise!Proceed(executing, w, owed \cup {k})
    BY <1>1, <2>1, <2>2, NoneBegins
  <2>4. QED
    BY <2>2, <2>3 DEF Promise!Ask
<1>7. CASE Dedupe(k) /\ k \notin rerun
  <2>1. /\ pending' = pending /\ executing' = executing
        /\ rerun' = rerun \cup {k} /\ owed' = owed \cup {k}
    BY <1>7 DEF Dedupe
  <2>2. w' = [w EXCEPT ![k] = @ + 1]
    <3>1. DueOf(pending, rerun \cup {k}) = OneMore(DueOf(pending, rerun), k)
      BY <1>1, <1>7, DueOneMore
    <3> HIDE DEF w
    <3>2. QED
      BY <2>1, <3>1, <1>2, <1>5 DEF OneMore
  <2> DEFINE v == [w EXCEPT ![k] = @ + 1]
  <2>3. v = [p \in PRs |-> v[p]]
    OBVIOUS
  <2> HIDE DEF v
  <2>4. Promise!Proceed(executing, v, owed \cup {k})
    BY <1>1, <2>1, <2>2, <2>3, NoneBegins DEF v
  <2>5. QED
    BY <2>4 DEF Promise!Ask, v
<1>8. CASE Accept(k)
  <2> DEFINE q == Append(pending, k)
  <2>1. /\ Pump(q, executing, owed \cup {k}) /\ rerun' = rerun
        /\ q \in Seq(PRs) /\ Len(q) = Len(pending) + 1
    BY <1>1, <1>8 DEF Accept
  <2>2. Fill(q, executing) <= 1
    <3>1. Fill(q, executing) \in 0..Len(q)
          /\ Fill(q, executing) <= Concurrency - Len(executing)
      BY <1>1, <2>1, FillProperties
    <3>2. CASE pending = <<>>
      BY <3>1, <3>2, <2>1
    <3>3. CASE pending # <<>>
      BY <3>1, <3>3, ConcurrencyAssumption DEF IInv, WorkConserving
    <3>4. QED
      BY <3>2, <3>3
  <2>3. DueOf(q, rerun') = [w EXCEPT ![k] = @ + 1]
    <3>1. DueOf(q, rerun) = OneMore(DueOf(pending, rerun), k)
      BY <1>1, DueOneMore
    <3> HIDE DEF w, q
    <3>2. QED
      BY <2>1, <3>1, <1>2 DEF OneMore
  <2>4. Promise!Proceed(executing, DueOf(q, rerun'), owed \cup {k})
    BY <1>1, <1>4, <2>1, <2>2, PumpProceeds
  <2> HIDE DEF q
  <2>5. QED
    BY <2>3, <2>4 DEF Promise!Ask
<1>9. QED
  BY <1>6, <1>7, <1>8 DEF Enqueue

\* A review settles, and the re-run its flag stands for is queued.
LEMMA SettleEnds ==
  ASSUME IInv, IInv', NEW i \in DOMAIN executing, Settle(i)
  PROVE  Promise!End(i)
<1> DEFINE k == executing[i]
           q == IF k \in rerun THEN Append(pending, k) ELSE pending
           r == RemoveAt(executing, i)
           w == [p \in PRs |-> Due(p)]
<1>1. /\ i \in 1..Len(executing) /\ k \in PRs
      /\ pending \in Seq(PRs) /\ executing \in Seq(PRs) /\ owed \in SUBSET PRs
  BY DEF IInv, TypeOK
<1>2. r \in Seq(PRs) /\ Len(r) = Len(executing) - 1
  BY <1>1, RemoveAtProperties
<1>3. Pump(q, r, owed) /\ rerun' = rerun \ {k}
  BY DEF Settle, Forget
<1> HIDE DEF k, r
<1>4. q \in Seq(PRs) /\ (pending = <<>> => Len(q) <= 1)
  BY <1>1
<1>5. Len(r) <= Concurrency /\ Fill(q, r) <= 1
  <2>1. Len(r) <= Concurrency
    BY <1>1, <1>2, ConcurrencyAssumption DEF IInv, Capped
  <2>2. Fill(q, r) \in 0..Len(q) /\ Fill(q, r) <= Concurrency - Len(r)
    BY <1>2, <1>4, <2>1, FillProperties
  <2>3. CASE pending = <<>>
    BY <2>1, <2>2, <2>3, <1>4
  <2>4. CASE pending # <<>>
    <3>1. Len(executing) = Concurrency
      BY <2>4 DEF IInv, WorkConserving
    <3>2. QED
      BY <2>1, <2>2, <3>1, <1>1, <1>2, ConcurrencyAssumption
  <2>5. QED
    BY <2>3, <2>4
<1>6. DueOf(q, rerun') = w
  <2>1. w = DueOf(pending, rerun)
    BY DueIsCounted DEF IInv
  <2>2. CASE k \in rerun
    <3>1. \A p \in PRs : /\ Count(q, p) = Count(pending, p) + (IF k = p THEN 1 ELSE 0)
                         /\ Count(pending, p) \in Nat
      BY <1>1, <2>2, CountAppend, CountType
    <3> HIDE DEF q
    <3>2. QED
      BY <2>1, <2>2, <3>1, <1>3 DEF DueOf
  <2>3. CASE k \notin rerun
    BY <2>1, <2>3, <1>3 DEF DueOf
  <2>4. QED
    BY <2>2, <2>3
<1>7. Promise!Proceed(r, DueOf(q, rerun'), owed)
  <2>1. TypeOK'
    BY DEF IInv
  <2> HIDE DEF q
  <2>2. QED
    BY <1>1, <1>2, <1>3, <1>4, <1>5, <2>1, PumpProceeds
<1>8. r = Promise!RemoveAt(executing, i)
  BY DEF r, RemoveAt, Promise!RemoveAt
<1> HIDE DEF q
<1>9. QED
  BY <1>6, <1>7, <1>8 DEF Promise!End

\* Every behaviour of the queue is one of its promise, fairness aside: a review
\* begins only for a request, at most Concurrency run, and a request stays owed
\* until a review that begins after it.
THEOREM KeepsPromise == Spec => Promise!Safety
<1>1. Init => Promise!Init
  <2> SUFFICES ASSUME Init PROVE Promise!Init
    OBVIOUS
  <2>1. \A k \in PRs : Due(k) = 0
    <3> SUFFICES ASSUME NEW k \in PRs PROVE Due(k) = 0
      OBVIOUS
    <3>1. {i \in DOMAIN pending : pending[i] = k} = {}
      BY DEF Init
    <3>2. QED
      BY <3>1, FS_EmptySet DEF Due, Init
  <2>2. QED
    BY <2>1 DEF Init, Promise!Init
<1>2. IInv /\ IInv' /\ [Next]_vars => [Promise!Next]_(Promise!vars)
  <2> SUFFICES ASSUME IInv, IInv', [Next]_vars
               PROVE  [Promise!Next]_(Promise!vars)
    OBVIOUS
  <2>1. ASSUME NEW k \in PRs, Enqueue(k) PROVE Promise!Next
    BY <2>1, EnqueueAsks DEF Promise!Next
  <2>2. ASSUME NEW k \in PRs, SettleJob(k) PROVE Promise!Next
    BY <2>2, SettleEnds DEF SettleJob, Promise!Next
  <2>3. CASE Drain \/ UNCHANGED vars
    <3>1. /\ pending' = pending /\ executing' = executing
          /\ rerun' = rerun /\ owed' = owed
      BY <2>3 DEF Drain, vars
    <3>2. [k \in PRs |-> Due(k)]' = [k \in PRs |-> Due(k)]
      BY <3>1 DEF Due
    <3>3. QED
      BY <3>1, <3>2 DEF Promise!vars
  <2>4. QED
    BY <2>1, <2>2, <2>3 DEF Next
<1>3. QED
  BY <1>1, <1>2, Invariant, PTL DEF Spec, Promise!Safety
=============================================================================
