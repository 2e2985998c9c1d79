---------------------------- MODULE Sync_proofs ----------------------------
(***************************************************************************)
(* The two jobs of the worker that keep repositories up to date: what the  *)
(* upstream sync does to the branches, pull requests and alerts of any     *)
(* number of forks, and what a run of the hook sync leaves configured, over*)
(* any number of ticks, runs, kills and changes by others.                 *)
(***************************************************************************)
EXTENDS UpstreamSync, SyncHooks, FiniteSetTheorems, SequenceTheorems,
        WellFoundedInduction, TLAPS

WatchRec == [sha : Nat, pre : Nat, age : {"young", "settled", "old"}]
EntryRec == [attempt : Nat, due : BOOLEAN, skip : BOOLEAN, notified : BOOLEAN,
             watch : WatchRec]
JobRec == [seen : Nat, base : Nat, got : Nat, head : Nat]

\* The order of the forks is left open: nothing below depends on whose turn it is.
Types ==
  /\ up \in [Forks -> Nat]
  /\ line \in [Forks -> Seq(Commit)]
  /\ pushes \in [Forks -> Nat]
  /\ prs \in [Forks -> SUBSET Nat]
  /\ entry \in [Forks -> EntryRec]
  /\ file = [entry |-> file.entry, order |-> file.order]
  /\ file.entry \in [Forks -> EntryRec]
  /\ losses \in Nat
  /\ job \in JobRec
  /\ letGo \in [Forks -> SUBSET Nat]
  /\ alerts \in [Forks -> [1..MaxUpstream -> Nat]]

\* The watch of a fork in the memory of the tick, and the one in the file: what
\* the next tick has when this one ends.
Watches(f) == {entry[f].watch, file.entry[f].watch}
Alike(v, w) == v.sha = w.sha /\ v.pre = w.pre

Increasing(s) == \A i, j \in DOMAIN s : i < j => s[i].n < s[j].n
\* No commit of the branch came between these two.
Clear(s, pre, sha) == \A i \in DOMAIN s : s[i].n <= pre \/ s[i].n >= sha

LineOK(f) ==
  /\ Increasing(line[f])
  /\ \A i \in DOMAIN line[f] : line[f][i].n \in 1..pushes[f]

\* A watched merge was pushed right on top of its base.
WatchOK(f) ==
  /\ \A w \in Watches(f) :
       w.pre <= w.sha /\ w.sha <= pushes[f] /\ Clear(line[f], w.pre, w.sha)
  /\ At(f, "record") =>
       /\ job.base <= job.head /\ job.head <= pushes[f]
       /\ Clear(line[f], job.base, job.head)
       /\ job.got = 0 <=> job.head = job.base
  /\ At(f, "checks") \/ At(f, "revert") => Watched(f)

\* Another commit lies on top of n, and no revert to come takes that one off.
Buried(f, n) ==
  \E j \in DOMAIN line[f] :
    /\ n < line[f][j].n
    /\ \A w \in Watches(f) : w.sha # 0 => line[f][j].n <= w.pre
    /\ At(f, "record") => line[f][j].n <= job.base

InHand(f, n) == At(f, "record") /\ job.got # 0 /\ n = job.head

\* A revert to its own base takes nothing off; one that failed does not either.
Reverted(f, n) ==
  \/ At(f, "reverted") /\ n = entry[f].watch.sha
  \/ \E w \in Watches(f) : w.sha = n /\ w.pre = n

\* A merge of ours is watched or about to be, or was let go, or is buried. That
\* it is green is no help: a check may yet register, and fail.
KeptOK(f) ==
  \A i \in DOMAIN line[f] : line[f][i].by = "sync" =>
    LET n == line[f][i].n
    IN  /\ n \in letGo[f] \/ n = entry[f].watch.sha \/ InHand(f, n) \/ Buried(f, n)
        /\ Reverted(f, n) => n \in letGo[f]

Branch(f) == LineOK(f) /\ WatchOK(f) /\ KeptOK(f)

\* The turn of f is at one of these steps.
In(f, labels) == pc \in labels /\ todo # <<>> /\ Head(todo) = f
Landing == {"clone", "merged", "push", "post"}
Aiming == {"openpr", "clone", "merged", "push", "record", "post", "opened", "unopened"}
GivenUp == {"skipped", "alert"}

\* The list of sync PRs that the attempt in progress found was empty.
PrOK(f) ==
  f \notin twins =>
    /\ IsFiniteSet(prs[f]) /\ Cardinality(prs[f]) <= 1
    /\ In(f, Landing) => prs[f] = {}

\* A tip is on record as tried, in memory and in the file: no attempt is made at
\* it before the record is lost.
OnRecord(f, u) == u <= entry[f].attempt /\ u <= file.entry[f].attempt

\* An alert is about a tip on record, but for those whose record was lost; an
\* attempt is about a later one.
AlertOK(f) ==
  /\ entry[f].attempt <= up[f] /\ file.entry[f].attempt <= up[f]
  /\ \A u \in 1..MaxUpstream :
       alerts[f][u] <= losses \/ (alerts[f][u] <= losses + 1 /\ OnRecord(f, u))
  /\ In(f, Aiming) => entry[f].attempt < job.seen /\ job.seen <= up[f]
  /\ In(f, GivenUp) =>
       /\ job.seen = entry[f].attempt
       /\ job.seen \in 1..MaxUpstream =>
            \/ alerts[f][job.seen] < losses
            \/ alerts[f][job.seen] <= losses /\ job.seen <= file.entry[f].attempt

IInv == Types /\ \A f \in Forks : Branch(f) /\ PrOK(f) /\ AlertOK(f)

----------------------------------------------------------------------------
LEMMA TypesInit == Init => Types
BY BoundsAssumption DEF Init, Types, Forgotten, NewEntry, NoWatch, NoJob, EntryRec,
                        WatchRec, JobRec

LEMMA LastCommit ==
  ASSUME Types, NEW f \in Forks
  PROVE  /\ Tip(f) \in Nat /\ MergedUp(f) \in Nat
         /\ line[f] # <<>> => /\ Len(line[f]) \in DOMAIN line[f]
                              /\ Last(line[f]) = line[f][Len(line[f])]
                              /\ \A i \in DOMAIN line[f] : i <= Len(line[f])
                              /\ Tip(f) = line[f][Len(line[f])].n
<1>1. line[f] \in Seq(Commit)
  BY DEF Types
<1>2. CASE line[f] = <<>>
  BY <1>2 DEF Tip, MergedUp
<1>3. CASE line[f] # <<>>
  <2>1. DOMAIN line[f] = 1..Len(line[f]) /\ Len(line[f]) \in Nat \ {0}
    BY <1>1, <1>3, EmptySeq, LenProperties
  <2>2. Len(line[f]) \in DOMAIN line[f]
    BY <2>1
  <2>3. line[f][Len(line[f])] \in Commit
    BY <1>1, <2>2, ElementOfSeq, LenProperties, <2>1
  <2>4. Last(line[f]) = line[f][Len(line[f])]
    BY DEF Last
  <2>5. Last(line[f]).n \in Nat /\ Last(line[f]).up \in Nat
    BY <2>3, <2>4 DEF Commit
  <2> QED
    BY <1>3, <2>1, <2>2, <2>4, <2>5 DEF Tip, MergedUp
<1> QED
  BY <1>2, <1>3

\* The effect of the writes to an entry.
LEMMA EntryTypes ==
  ASSUME Types, NEW f \in Forks
  PROVE  /\ [entry EXCEPT ![f].watch = NoWatch] \in [Forks -> EntryRec]
         /\ [entry EXCEPT ![f].skip = FALSE] \in [Forks -> EntryRec]
         /\ [entry EXCEPT ![f].due = FALSE] \in [Forks -> EntryRec]
         /\ [entry EXCEPT ![f].due = TRUE] \in [Forks -> EntryRec]
         /\ [entry EXCEPT ![f].notified = TRUE] \in [Forks -> EntryRec]
<1>1. entry \in [Forks -> EntryRec] /\ entry[f] \in EntryRec
  BY DEF Types
<1>2. NoWatch \in WatchRec
  BY DEF NoWatch, WatchRec
<1>3. ASSUME NEW e \in EntryRec PROVE [entry EXCEPT ![f] = e] \in [Forks -> EntryRec]
  BY <1>1
<1>4. [entry[f] EXCEPT !.watch = NoWatch] \in EntryRec
  BY <1>1, <1>2 DEF EntryRec
<1>5. [entry[f] EXCEPT !.skip = FALSE] \in EntryRec
  BY <1>1 DEF EntryRec
<1>6. /\ [entry[f] EXCEPT !.due = FALSE] \in EntryRec
      /\ [entry[f] EXCEPT !.due = TRUE] \in EntryRec
  BY <1>1 DEF EntryRec
<1>7. [entry[f] EXCEPT !.notified = TRUE] \in EntryRec
  BY <1>1 DEF EntryRec
<1> QED
  BY <1>3, <1>4, <1>5, <1>6, <1>7

----------------------------------------------------------------------------
(* Sequences of commits.                                                      *)

LEMMA LeastNatural ==
  ASSUME NEW T \in SUBSET Nat, T # {}
  PROVE  \E x \in T : \A y \in T : x <= y
<1> DEFINE R == {ss \in Nat \X Nat : ss[1] < ss[2]}
<1>1. IsWellFoundedOn(R, Nat)
  BY NatLessThanWellFounded DEF OpToRel
<1>2. \A x \in Nat, y \in Nat : y < x => <<y, x>> \in R
  OBVIOUS
<1> HIDE DEF R
<1>3. PICK x \in T : \A y \in T : ~ (<<y, x>> \in R)
  BY <1>1, WFMin
<1>4. ASSUME NEW y \in T PROVE x <= y
  <2>1. x \in Nat /\ y \in Nat /\ <<y, x>> \notin R
    BY <1>3
  <2>2. ~(y < x)
    BY <1>2, <2>1
  <2> QED BY <2>1, <2>2
<1> QED BY <1>4

\* The commits up to n are the first ones.
LEMMA UptoPrefix ==
  ASSUME NEW s \in Seq(Commit), Increasing(s), NEW n \in Nat
  PROVE  /\ Upto(s, n) \in Seq(Commit)
         /\ \A i \in DOMAIN Upto(s, n) :
              i \in DOMAIN s /\ Upto(s, n)[i] = s[i] /\ s[i].n <= n
         /\ \A i \in DOMAIN s : s[i].n <= n => i \in DOMAIN Upto(s, n)
<1>1. DOMAIN s = 1..Len(s) /\ Len(s) \in Nat /\ \A i \in 1..Len(s) : s[i] \in Commit
  BY LenProperties, ElementOfSeq
<1>2. \A i \in DOMAIN s : s[i].n \in Nat
  BY <1>1 DEF Commit
<1> DEFINE T == {k \in 0..Len(s) : \A i \in DOMAIN s : i > k => s[i].n > n}
<1>3. Len(s) \in T
  BY <1>1
<1>4. PICK k \in T : \A l \in T : k <= l
  <2>1. T \in SUBSET Nat /\ T # {}
    BY <1>1, <1>3
  <2> HIDE DEF T
  <2> QED BY <2>1, LeastNatural
<1>5. ASSUME NEW i \in DOMAIN s PROVE s[i].n <= n <=> i <= k
  <2>1. i > k => s[i].n > n
    BY <1>4
  <2>2. ASSUME i <= k, s[i].n > n PROVE FALSE
    <3>1. \A j \in DOMAIN s : j > i - 1 => s[j].n > n
      <4> SUFFICES ASSUME NEW j \in DOMAIN s, j > i - 1 PROVE s[j].n > n
        OBVIOUS
      <4>1. j = i \/ i < j
        BY <1>1
      <4>2. i < j => s[i].n < s[j].n
        BY DEF Increasing
      <4> QED BY <1>2, <2>2, <4>1, <4>2
    <3>2. i - 1 \in T
      BY <3>1, <1>1
    <3>3. k <= i - 1
      BY <3>2, <1>4
    <3> QED BY <2>2, <3>3, <1>1
  <2>3. i \in Int /\ k \in Int /\ s[i].n \in Int
    BY <1>1, <1>2
  <2> QED BY <2>1, <2>2, <2>3, <1>2
<1> DEFINE First(m) == \A i \in DOMAIN s : s[i].n <= n <=> i <= m
           m == CHOOSE m \in 0..Len(s) : First(m)
<1>6. m \in 0..Len(s) /\ First(m)
  <2>1. k \in 0..Len(s) /\ First(k)
    BY <1>5
  <2> HIDE DEF First
  <2> QED BY <2>1
<1>7. Upto(s, n) = SubSeq(s, 1, m)
  BY DEF Upto
<1> HIDE DEF m, T
<1>8. m \in Nat /\ m <= Len(s) /\ \A i \in DOMAIN s : s[i].n <= n <=> i <= m
  BY <1>1, <1>6
<1> HIDE DEF First
<1>9. /\ SubSeq(s, 1, m) \in Seq(Commit)
      /\ Len(SubSeq(s, 1, m)) = m
      /\ \A i \in 1..m : SubSeq(s, 1, m)[i] = s[i]
  <2>1. \A i \in 1..m : s[i] \in Commit
    BY <1>1, <1>8
  <2>2. 1 \in Int /\ m \in Int
    BY <1>8
  <2>3. /\ SubSeq(s, 1, m) \in Seq(Commit)
        /\ Len(SubSeq(s, 1, m)) = IF 1 <= m THEN m - 1 + 1 ELSE 0
        /\ \A i \in 1..(m - 1 + 1) : SubSeq(s, 1, m)[i] = s[1 + i - 1]
    BY <2>1, <2>2, SubSeqProperties
  <2> QED BY <2>3, <1>8
<1>10. DOMAIN SubSeq(s, 1, m) = 1..m
  BY <1>9, LenProperties
<1>11. \A i \in 1..m : i \in DOMAIN s /\ i <= m
  BY <1>1, <1>8
<1>12. \A i \in DOMAIN s : i <= m => i \in 1..m
  BY <1>1, <1>8
<1> QED
  BY <1>7, <1>8, <1>9, <1>10, <1>11, <1>12

LEMMA AppendCommit ==
  ASSUME NEW s \in Seq(Commit), NEW c \in Commit
  PROVE  /\ Append(s, c) \in Seq(Commit)
         /\ Len(s) + 1 \in DOMAIN Append(s, c) /\ Append(s, c)[Len(s) + 1] = c
         /\ \A i \in DOMAIN s : /\ i \in DOMAIN Append(s, c) /\ Append(s, c)[i] = s[i]
                                /\ i < Len(s) + 1
         /\ \A i \in DOMAIN Append(s, c) : i \in DOMAIN s \/ i = Len(s) + 1
<1>1. /\ Append(s, c) \in Seq(Commit) /\ Len(Append(s, c)) = Len(s) + 1
      /\ \A i \in 1..Len(s) : Append(s, c)[i] = s[i]
      /\ Append(s, c)[Len(s) + 1] = c
  BY AppendProperties
<1>2. /\ DOMAIN s = 1..Len(s) /\ Len(s) \in Nat
      /\ DOMAIN Append(s, c) = 1..(Len(s) + 1)
  BY <1>1, LenProperties
<1> QED
  BY <1>1, <1>2

LEMMA CommitAt ==
  ASSUME Types, NEW f \in Forks, NEW i \in DOMAIN line[f]
  PROVE  line[f][i] \in Commit /\ line[f][i].n \in Nat /\ i \in Nat
<1>1. line[f] \in Seq(Commit)
  BY DEF Types
<1>2. i \in 1..Len(line[f]) /\ i \in Nat
  BY <1>1, LenProperties
<1>3. line[f][i] \in Commit
  BY <1>1, <1>2, ElementOfSeq
<1> QED
  BY <1>2, <1>3 DEF Commit

----------------------------------------------------------------------------
(* What a step can do to the branch of a fork.                                *)

\* The same commits: only their checks may have moved.
SameCommits(s, t) ==
  /\ DOMAIN t = DOMAIN s
  /\ \A i \in DOMAIN s : t[i].n = s[i].n /\ t[i].by = s[i].by

\* No push to f and no revert of it. The watches of f are among those there
\* were; one that ends, or that a lost record brings back, leaves the merge that
\* was watched let go; the tick moves to a step that knows no more about f.
Steady(f) ==
  /\ SameCommits(line[f], line'[f]) /\ pushes'[f] = pushes[f]
  /\ \A v \in Watches(f)' : \E w \in Watches(f) \cup {NoWatch} : Alike(v, w)
  /\ letGo[f] \subseteq letGo'[f]
  /\ \A i \in DOMAIN line[f] :
       line[f][i].by = "sync" /\ line[f][i].n = entry[f].watch.sha =>
         line[f][i].n \in letGo'[f] \/ entry'[f].watch.sha = line[f][i].n
  /\ At(f, "record")' => At(f, "record") /\ job' = job
  /\ At(f, "record") => \/ At(f, "record")' /\ job' = job
                        \/ job.got # 0 => job.head \in letGo'[f]
  /\ At(f, "checks")' \/ At(f, "revert")' => entry'[f].watch.sha # 0
  /\ At(f, "reverted")' =>
       At(f, "reverted") /\ entry'[f].watch.sha = entry[f].watch.sha

LEMMA SteadyKeeps ==
  ASSUME Types, NEW f \in Forks, Branch(f), Steady(f)
  PROVE  Branch(f)'
<1> DEFINE s == line[f]
           t == line'[f]
<1>1. SameCommits(s, t) /\ pushes'[f] = pushes[f] /\ pushes[f] \in Nat
  BY DEF Steady, Types
<1>2. LineOK(f)'
  BY <1>1 DEF Branch, LineOK, Increasing, SameCommits
<1>3. \A a, b : Clear(s, a, b) => Clear(t, a, b)
  BY <1>1 DEF Clear, SameCommits
<1>4. ASSUME NEW v \in Watches(f)'
      PROVE  v.pre <= v.sha /\ v.sha <= pushes[f] /\ Clear(t, v.pre, v.sha)
  <2>1. PICK w \in Watches(f) \cup {NoWatch} : v.sha = w.sha /\ v.pre = w.pre
    BY DEF Steady, Alike
  <2>2. CASE w \in Watches(f)
    BY <1>3, <2>1, <2>2 DEF Branch, WatchOK
  <2>3. CASE w = NoWatch
    <3>1. \A i \in DOMAIN t : t[i].n >= 0
      BY <1>1, <1>2 DEF LineOK
    <3>2. v.sha = 0 /\ v.pre = 0
      BY <2>1, <2>3 DEF NoWatch
    <3> QED BY <1>1, <3>1, <3>2 DEF Clear
  <2> QED BY <2>1, <2>2, <2>3
<1>5. WatchOK(f)'
  <2>1. At(f, "record")' =>
          /\ job'.base <= job'.head /\ job'.head <= pushes'[f]
          /\ Clear(t, job'.base, job'.head)
          /\ job'.got = 0 <=> job'.head = job'.base
    BY <1>1, <1>3 DEF Branch, WatchOK, Steady
  <2>2. At(f, "checks")' \/ At(f, "revert")' => Watched(f)'
    BY DEF Steady, Watched
  <2> QED BY <1>1, <1>4, <2>1, <2>2 DEF WatchOK
<1>6. ASSUME NEW i \in DOMAIN t, NEW n, n = t[i].n, t[i].by = "sync"
      PROVE  /\ \/ n \in letGo'[f] \/ n = entry'[f].watch.sha
                \/ InHand(f, n)' \/ Buried(f, n)'
             /\ Reverted(f, n)' => n \in letGo'[f]
  <2>1. i \in DOMAIN s /\ s[i].by = "sync" /\ n = s[i].n /\ n # 0
    BY <1>1, <1>6 DEF SameCommits, Branch, LineOK
  <2>2. /\ \/ n \in letGo[f] \/ n = entry[f].watch.sha
           \/ InHand(f, n) \/ Buried(f, n)
        /\ Reverted(f, n) => n \in letGo[f]
    BY <2>1 DEF Branch, KeptOK
  <2>3. letGo[f] \subseteq letGo'[f]
    BY DEF Steady
  <2>4. n = entry[f].watch.sha => n \in letGo'[f] \/ n = entry'[f].watch.sha
    BY <2>1 DEF Steady
  <2>5. Buried(f, n) => Buried(f, n)'
    <3> SUFFICES ASSUME NEW j \in DOMAIN s, n < s[j].n,
                        \A w \in Watches(f) : w.sha # 0 => s[j].n <= w.pre,
                        At(f, "record") => s[j].n <= job.base
                 PROVE  /\ j \in DOMAIN t /\ n < t[j].n
                        /\ \A v \in Watches(f)' : v.sha # 0 => t[j].n <= v.pre
                        /\ At(f, "record")' => t[j].n <= job'.base
      BY DEF Buried
    <3>1. j \in DOMAIN t /\ t[j].n = s[j].n
      BY <1>1 DEF SameCommits
    <3>2. ASSUME NEW v \in Watches(f)', v.sha # 0 PROVE s[j].n <= v.pre
      <4>1. PICK w \in Watches(f) \cup {NoWatch} : v.sha = w.sha /\ v.pre = w.pre
        BY DEF Steady, Alike
      <4>2. w \in Watches(f)
        BY <3>2, <4>1 DEF NoWatch
      <4> QED BY <3>2, <4>1, <4>2
    <3> QED BY <3>1, <3>2 DEF Steady
  <2>6. InHand(f, n) => InHand(f, n)' \/ n \in letGo'[f]
    BY DEF InHand, Steady
  <2>7. Reverted(f, n)' => Reverted(f, n)
    <3>1. ASSUME NEW v \in Watches(f)', v.sha = n, v.pre = n
          PROVE  \E w \in Watches(f) : w.sha = n /\ w.pre = n
      <4>1. PICK w \in Watches(f) \cup {NoWatch} : v.sha = w.sha /\ v.pre = w.pre
        BY DEF Steady, Alike
      <4> QED BY <2>1, <3>1, <4>1 DEF NoWatch
    <3> QED BY <3>1 DEF Reverted, Steady
  <2> QED
    BY <2>2, <2>3, <2>4, <2>5, <2>6, <2>7
<1>7. KeptOK(f)'
  BY <1>6 DEF KeptOK
<1> QED
  BY <1>2, <1>5, <1>7 DEF Branch

LEMMA TipBounds ==
  ASSUME Types, NEW f \in Forks, LineOK(f)
  PROVE  /\ Tip(f) \in Nat /\ Tip(f) <= pushes[f]
         /\ \A i \in DOMAIN line[f] : line[f][i].n <= Tip(f)
<1>1. pushes[f] \in Nat
  BY DEF Types
<1>2. CASE line[f] = <<>>
  BY <1>1, <1>2, EmptySeq, LenProperties DEF Tip
<1>3. CASE line[f] # <<>>
  <2> DEFINE l == Len(line[f])
  <2>1. l \in DOMAIN line[f] /\ Tip(f) = line[f][l].n
    BY <1>3, LastCommit
  <2>2. \A i \in DOMAIN line[f] : i <= l /\ i \in Nat
    BY <1>3, LastCommit, CommitAt
  <2> HIDE DEF l
  <2>3. ASSUME NEW i \in DOMAIN line[f] PROVE line[f][i].n <= line[f][l].n
    <3>1. i = l \/ i < l
      BY <2>1, <2>2
    <3>2. line[f][i].n \in Nat /\ line[f][l].n \in Nat
      BY <2>1, CommitAt
    <3> QED
      BY <2>1, <3>1, <3>2 DEF LineOK, Increasing
  <2> QED
    BY <1>1, <2>1, <2>3, CommitAt DEF LineOK
<1> QED
  BY <1>2, <1>3

\* A new commit goes on top of the branch.
Grows(f, c) ==
  /\ line'[f] = Append(line[f], c)
  /\ pushes'[f] = pushes[f] + 1
  /\ c \in Commit /\ c.n = pushes[f] + 1

LEMMA GrowsLine ==
  ASSUME Types, NEW f \in Forks, LineOK(f), NEW c, Grows(f, c)
  PROVE  /\ LineOK(f)'
         /\ \A a \in Nat, b \in Nat : b <= pushes[f] /\ Clear(line[f], a, b)
                                        => Clear(line'[f], a, b)
<1> DEFINE s == line[f]
           l == Len(s) + 1
           t == line'[f]
<1>1. /\ l \in DOMAIN t /\ t[l] = c
      /\ \A i \in DOMAIN s : i \in DOMAIN t /\ t[i] = s[i] /\ i < l
      /\ \A i \in DOMAIN t : i \in DOMAIN s \/ i = l
  BY AppendCommit DEF Grows, Types
<1>2. /\ \A i \in DOMAIN s : s[i].n \in 1..pushes[f] /\ i \in Nat
      /\ \A i, j \in DOMAIN s : i < j => s[i].n < s[j].n
      /\ pushes[f] \in Nat
  BY CommitAt DEF LineOK, Increasing, Types
<1>3. c.n = pushes[f] + 1 /\ pushes'[f] = pushes[f] + 1
  BY DEF Grows
<1>4. l \in Nat
  BY LenProperties DEF Types
<1> HIDE DEF l
<1>5. ASSUME NEW i \in DOMAIN t PROVE t[i].n \in 1..(pushes[f] + 1)
  BY <1>1, <1>2, <1>3
<1>6. ASSUME NEW i \in DOMAIN t, NEW j \in DOMAIN t, i < j PROVE t[i].n < t[j].n
  <2>1. CASE i \in DOMAIN s /\ j \in DOMAIN s
    BY <1>1, <1>2, <1>6, <2>1
  <2>2. CASE i \in DOMAIN s /\ j = l
    BY <1>1, <1>2, <1>3, <2>2
  <2>3. CASE i = l
    <3>1. j = l \/ j < l
      BY <1>1
    <3>2. j \in Nat
      BY <1>1, <1>2, <1>4
    <3> QED BY <1>4, <1>6, <2>3, <3>1, <3>2
  <2> QED
    BY <1>1, <2>1, <2>2, <2>3
<1>7. LineOK(f)'
  BY <1>3, <1>5, <1>6 DEF LineOK, Increasing
<1>8. ASSUME NEW a \in Nat, NEW b \in Nat, b <= pushes[f], Clear(s, a, b)
      PROVE  Clear(t, a, b)
  <2> SUFFICES ASSUME NEW i \in DOMAIN t PROVE t[i].n <= a \/ t[i].n >= b
    BY DEF Clear
  <2>1. CASE i = l
    BY <1>1, <1>2, <1>3, <1>8, <2>1
  <2>2. CASE i \in DOMAIN s
    BY <1>1, <1>8, <2>2 DEF Clear
  <2> QED
    BY <1>1, <2>1, <2>2
<1> QED
  BY <1>7, <1>8

\* The watches of a fork are numbers.
LEMMA WatchTypes ==
  ASSUME Types, NEW f \in Forks
  PROVE  /\ entry[f].watch \in WatchRec /\ file.entry[f].watch \in WatchRec
         /\ \A w \in Watches(f) : w.sha \in Nat /\ w.pre \in Nat
         /\ job.base \in Nat /\ job.head \in Nat /\ job.got \in Nat /\ pushes[f] \in Nat
<1>1. entry[f] \in EntryRec /\ file.entry[f] \in EntryRec
  BY DEF Types
<1>2. entry[f].watch \in WatchRec /\ file.entry[f].watch \in WatchRec
  BY <1>1 DEF EntryRec
<1> QED
  BY <1>2 DEF Types, JobRec, Watches, WatchRec

\* Somebody else's commit buries what is below it.
LEMMA OthersOnTop ==
  ASSUME Types, NEW f \in Forks, Branch(f), NEW c, Grows(f, c), c.by = "other",
         UNCHANGED <<tick, entry, file, letGo>>
  PROVE  Branch(f)'
<1> DEFINE s == line[f]
           l == Len(s) + 1
           t == line'[f]
<1>1. /\ LineOK(f)'
      /\ \A a \in Nat, b \in Nat : b <= pushes[f] /\ Clear(s, a, b)
                                     => Clear(t, a, b)
  BY GrowsLine DEF Branch
<1>2. /\ t[l] = c
      /\ \A i \in DOMAIN s : i \in DOMAIN t /\ t[i] = s[i]
      /\ \A i \in DOMAIN t : i \in DOMAIN s \/ i = l
  BY AppendCommit DEF Grows, Types
<1> HIDE DEF l
<1>3. pushes[f] \in Nat /\ pushes'[f] = pushes[f] + 1
  BY DEF Types, Grows
<1>4. Watches(f)' = Watches(f)
  BY DEF Watches
<1>5. WatchOK(f)'
  <2>1. ASSUME NEW w \in Watches(f)
        PROVE  w.pre <= w.sha /\ w.sha <= pushes'[f] /\ Clear(t, w.pre, w.sha)
    BY <1>1, <1>3, WatchTypes DEF Branch, WatchOK
  <2>2. At(f, "record") =>
          /\ job.base <= job.head /\ job.head <= pushes'[f]
          /\ Clear(t, job.base, job.head)
          /\ job.got = 0 <=> job.head = job.base
    BY <1>1, <1>3, WatchTypes DEF Branch, WatchOK
  <2> QED
    BY <1>4, <2>1, <2>2 DEF Branch, WatchOK, At, tick, Watched
<1>6. ASSUME NEW i \in DOMAIN t, NEW n, n = t[i].n, t[i].by = "sync"
      PROVE  /\ \/ n \in letGo[f] \/ n = entry[f].watch.sha
                \/ InHand(f, n) \/ Buried(f, n)'
             /\ Reverted(f, n) => n \in letGo[f]
  <2>1. i \in DOMAIN s /\ t[i] = s[i]
    BY <1>2, <1>6
  <2>2. Buried(f, n) => Buried(f, n)'
    BY <1>2, <1>4 DEF Buried, At, tick
  <2> QED
    BY <1>6, <2>1, <2>2 DEF Branch, KeptOK
<1>7. KeptOK(f)'
  BY <1>4, <1>6 DEF KeptOK, InHand, Reverted, At, tick
<1> QED
  BY <1>1, <1>5, <1>7 DEF Branch

LEMMA PushKeeps ==
  ASSUME Types, NEW f \in Forks, Branch(f), Push(f)
  PROVE  Branch(f)'
<1> DEFINE s == line[f]
           t == line'[f]
           base == job.base
<1>1. base \in Nat /\ pushes[f] \in Nat /\ job.got \in Nat /\ job \in JobRec
  BY DEF Types, JobRec
<1>2. /\ base <= pushes[f] /\ \A i \in DOMAIN s : s[i].n <= base /\ s[i].n \in Nat
  BY TipBounds, CommitAt DEF Branch, Push
<1>3. /\ ~At(f, "record") /\ ~At(f, "reverted") /\ pc' = "record" /\ todo' = todo
      /\ ~At(f, "reverted")' /\ ~At(f, "checks")' /\ ~At(f, "revert")'
  BY DEF Push, Goto, At
<1>4. entry' = entry /\ file' = file /\ letGo' = letGo
  BY DEF Push, ghosts, store
<1>5. Watches(f)' = Watches(f) /\ \A n : Reverted(f, n)' <=> Reverted(f, n)
  BY <1>3, <1>4 DEF Reverted, Watches
<1>6. \A w \in Watches(f) : /\ w.sha \in Nat /\ w.pre \in Nat
                            /\ w.pre <= w.sha /\ w.sha <= pushes[f]
                            /\ Clear(s, w.pre, w.sha)
  BY WatchTypes DEF Branch, WatchOK
<1>7. CASE job.got = 0
  <2>1. line' = line /\ pushes' = pushes /\ job' = [job EXCEPT !.head = base]
    BY <1>7 DEF Push, Goto
  <2>2. job'.base = base /\ job'.head = base /\ job'.got = 0
    BY <1>1, <1>7, <2>1 DEF JobRec
  <2>3. Clear(s, base, base)
    BY <1>1, <1>2 DEF Clear
  <2>4. LineOK(f)' /\ WatchOK(f)'
    BY <1>1, <1>2, <1>3, <1>5, <1>6, <2>1, <2>2, <2>3 DEF Branch, LineOK, WatchOK
  <2>5. ASSUME NEW n PROVE Buried(f, n) => Buried(f, n)'
    BY <1>2, <1>5, <2>1, <2>2 DEF Buried
  <2>6. ASSUME NEW n PROVE ~InHand(f, n)
    BY <1>3 DEF InHand
  <2>7. KeptOK(f)'
    <3> SUFFICES ASSUME NEW i \in DOMAIN s, NEW n, n = s[i].n, s[i].by = "sync"
                 PROVE  /\ n \in letGo[f] \/ n = entry[f].watch.sha \/ Buried(f, n)'
                        /\ Reverted(f, n) => n \in letGo[f]
      BY <1>4, <1>5, <2>1 DEF KeptOK
    <3> QED
      BY <2>5, <2>6 DEF Branch, KeptOK
  <2> QED BY <2>4, <2>7 DEF Branch
<1>8. CASE job.got # 0
  <2> DEFINE new == pushes[f] + 1
             c == [n |-> new, by |-> "sync", up |-> job.got, ci |-> "none"]
             l == Len(s) + 1
  <2>1. line' = [line EXCEPT ![f] = Append(@, c)] /\ pushes' = [pushes EXCEPT ![f] = new]
        /\ job' = [job EXCEPT !.head = new]
    BY <1>8 DEF Push, Goto
  <2>2. Grows(f, c)
    BY <1>1, <2>1 DEF Grows, Commit, Types
  <2>3. job'.base = base /\ job'.head = new /\ job'.got = job.got
    BY <1>1, <2>1 DEF JobRec
  <2>4. pushes'[f] = new /\ c.n = new /\ c.by = "sync"
    BY <2>2 DEF Grows
  <2> HIDE DEF c
  <2>5. /\ LineOK(f)'
        /\ \A a \in Nat, b \in Nat : b <= pushes[f] /\ Clear(s, a, b)
                                       => Clear(t, a, b)
    BY <2>2, GrowsLine DEF Branch
  <2>6. /\ t[l] = c
        /\ \A i \in DOMAIN s : i \in DOMAIN t /\ t[i] = s[i]
        /\ \A i \in DOMAIN t : i \in DOMAIN s \/ i = l
    BY <2>2, AppendCommit DEF Grows, Types
  <2> HIDE DEF l
  <2>7. Clear(t, base, new)
    BY <1>1, <1>2, <2>4, <2>6 DEF Clear
  <2>8. WatchOK(f)'
    <3>1. \A w \in Watches(f)' :
            w.pre <= w.sha /\ w.sha <= pushes'[f] /\ Clear(t, w.pre, w.sha)
      BY <1>1, <1>5, <1>6, <2>4, <2>5
    <3> QED
      BY <1>1, <1>2, <1>3, <1>8, <2>3, <2>4, <2>7, <3>1 DEF WatchOK
  <2>9. ASSUME NEW i \in DOMAIN t, NEW n, n = t[i].n, t[i].by = "sync"
        PROVE  /\ \/ n \in letGo[f] \/ n = entry[f].watch.sha
                  \/ n = new \/ Buried(f, n)'
               /\ Reverted(f, n) => n \in letGo[f]
    <3>1. CASE i = l
      <4>1. n = new
        BY <2>4, <2>6, <2>9, <3>1
      <4>2. \A w \in Watches(f) : w.sha # n
        BY <1>1, <1>6, <4>1
      <4>3. ~Reverted(f, n)
        BY <1>3, <4>2 DEF Reverted
      <4> QED BY <4>1, <4>3
    <3>2. CASE i \in DOMAIN s
      <4>1. t[i] = s[i]
        BY <2>6, <3>2
      <4>2. Buried(f, n) => Buried(f, n)'
        BY <1>2, <1>5, <2>3, <2>6 DEF Buried
      <4>3. ~InHand(f, n)
        BY <1>3 DEF InHand
      <4> QED
        BY <2>9, <3>2, <4>1, <4>2, <4>3 DEF Branch, KeptOK
    <3> QED BY <2>6, <3>1, <3>2
  <2>10. At(f, "record")'
    BY <1>3 DEF At, Push
  <2>11. KeptOK(f)'
    BY <1>4, <1>5, <1>8, <2>3, <2>9, <2>10 DEF KeptOK, InHand
  <2> QED BY <2>5, <2>8, <2>11 DEF Branch
<1> QED
  BY <1>7, <1>8

----------------------------------------------------------------------------
(* The two copies of the state.                                               *)

\* A save writes what the tick has in memory, or loses it.
LEMMA SavedFile ==
  ASSUME Types, Saved, entry' \in [Forks -> EntryRec]
  PROVE  /\ file' = [entry |-> file'.entry, order |-> file'.order]
         /\ file'.entry \in [Forks -> EntryRec]
         /\ losses' \in Nat
         /\ \A f \in Forks :
              \/ losses' = losses /\ file'.entry[f] = entry'[f]
              \/ losses' = losses + 1 /\ file'.entry[f] \in {file.entry[f], NewEntry}
<1>1. Forgotten.entry = [f \in Forks |-> NewEntry]
      /\ Forgotten = [entry |-> Forgotten.entry, order |-> Forgotten.order]
  BY DEF Forgotten
<1>2. NewEntry \in EntryRec
  BY DEF NewEntry, NoWatch, EntryRec, WatchRec
<1>3. CASE file' = [entry |-> entry', order |-> order'] /\ UNCHANGED losses
  <2>1. file'.entry = entry' /\ file'.order = order'
    BY <1>3
  <2> QED BY <1>3, <2>1 DEF Types
<1>4. CASE losses' = losses + 1 /\ file' \in {file, Forgotten}
  <2>1. CASE file' = file
    BY <1>4, <2>1 DEF Types
  <2>2. CASE file' = Forgotten
    BY <1>1, <1>2, <1>4, <2>2 DEF Types
  <2> QED BY <1>4, <2>1, <2>2
<1> QED
  BY <1>3, <1>4 DEF Saved

\* The watch in the file after a save.
LEMMA SavedWatch ==
  ASSUME Types, Saved, entry' \in [Forks -> EntryRec], NEW f \in Forks
  PROVE  file'.entry[f].watch \in {entry'[f].watch, file.entry[f].watch, NoWatch}
BY SavedFile DEF NewEntry

LEMMA RecordKeeps ==
  ASSUME Types, NEW f \in Forks, Branch(f), Record(f)
  PROVE  Branch(f)'
<1> DEFINE s == line[f]
           armed == entry'[f].watch
<1>1. /\ ~At(f, "record")' /\ ~At(f, "reverted")' /\ ~At(f, "checks")' /\ ~At(f, "revert")'
      /\ At(f, "record")
  BY DEF Record, Attempted, EndTurn, At
<1>2. armed.sha = job.head /\ armed.pre = job.base
  BY DEF Record, Armed, Types
<1>3. line' = line /\ pushes' = pushes
  BY DEF Record, world
<1>4. letGo'[f] = letGo[f] \cup {entry[f].watch.sha}
  BY DEF Record, LetGo, Types
<1>5. LineOK(f)'
  BY <1>3 DEF Branch, LineOK
<1>6. entry' \in [Forks -> EntryRec]
  <2> DEFINE e == [attempt |-> job.seen, due |-> FALSE, skip |-> FALSE,
                   notified |-> FALSE, watch |-> Armed(f)]
  <2>1. e \in EntryRec
    BY DEF Types, JobRec, EntryRec, WatchRec, Armed
  <2>2. entry' = [entry EXCEPT ![f] = e]
    BY DEF Record
  <2> HIDE DEF e
  <2> QED BY <2>1, <2>2 DEF Types
<1>7. \A v \in Watches(f)' : v = armed \/ v \in Watches(f) \/ v = NoWatch
  BY <1>6, SavedWatch DEF Record, Watches
<1>8. \A i \in DOMAIN s : s[i].n \in Nat \ {0}
  BY DEF Branch, LineOK
<1>9. ASSUME NEW v \in Watches(f)'
      PROVE  v.pre <= v.sha /\ v.sha <= pushes[f] /\ Clear(s, v.pre, v.sha)
  <2>1. CASE v = armed
    BY <1>1, <1>2, <2>1 DEF Branch, WatchOK
  <2>2. CASE v \in Watches(f)
    BY <2>2 DEF Branch, WatchOK
  <2>3. CASE v = NoWatch
    BY <1>8, <2>3 DEF NoWatch, Clear, Types
  <2> QED BY <1>7, <2>1, <2>2, <2>3
<1>10. WatchOK(f)'
  BY <1>1, <1>3, <1>9 DEF WatchOK
<1>11. ASSUME NEW i \in DOMAIN s, NEW n, n = s[i].n, s[i].by = "sync"
      PROVE  /\ n \in letGo'[f] \/ n = job.head \/ Buried(f, n)'
             /\ Reverted(f, n)' => n \in letGo'[f]
  <2>1. /\ n \in letGo[f] \/ n = entry[f].watch.sha \/ InHand(f, n) \/ Buried(f, n)
        /\ Reverted(f, n) => n \in letGo[f]
    BY <1>11 DEF Branch, KeptOK
  <2>2. n \in Nat \ {0} /\ job.base \in Nat /\ job.head \in Nat
    BY <1>8, <1>11, WatchTypes
  <2>3. ASSUME NEW j \in DOMAIN s, n < s[j].n, s[j].n <= job.base,
               \A w \in Watches(f) : w.sha # 0 => s[j].n <= w.pre
        PROVE  Buried(f, n)' /\ n < job.base
    <3>1. \A v \in Watches(f)' : v.sha # 0 => s[j].n <= v.pre
      BY <1>2, <1>7, <2>3 DEF NoWatch
    <3>2. s[j].n \in Nat
      BY <1>8
    <3> QED BY <1>1, <1>3, <2>2, <2>3, <3>1, <3>2 DEF Buried
  <2>4. Buried(f, n) => Buried(f, n)' /\ n < job.base
    BY <1>1, <2>3 DEF Buried
  <2>5. InHand(f, n) => n = job.head /\ job.head # job.base
    BY <1>1 DEF InHand, Branch, WatchOK
  <2>6. Reverted(f, n)' => Reverted(f, n) \/ (job.base = n /\ job.head = n)
    BY <1>1, <1>2, <1>7, <2>2 DEF Reverted, NoWatch
  <2> QED
    BY <1>4, <2>1, <2>2, <2>4, <2>5, <2>6
<1>12. KeptOK(f)'
  BY <1>2, <1>3, <1>11 DEF KeptOK
<1> QED
  BY <1>5, <1>10, <1>12 DEF Branch

\* A revert takes off what came after the base of the watched merge.
LEMMA RevertKeeps ==
  ASSUME Types, NEW f \in Forks, Branch(f), Revert(f)
  PROVE  Branch(f)'
<1> DEFINE s == line[f]
           t == line'[f]
           pre == entry[f].watch.pre
           sha == entry[f].watch.sha
<1>1. /\ ~At(f, "record")' /\ At(f, "reverted")' /\ ~At(f, "checks")' /\ ~At(f, "revert")'
      /\ ~At(f, "record") /\ At(f, "revert")
  BY DEF Revert, Goto, At
<1>2. entry' = entry /\ pushes' = pushes /\ Watches(f)' = Watches(f)
  BY DEF Revert, world, store, Watches
<1>3. /\ pre \in Nat /\ sha \in Nat /\ pushes[f] \in Nat /\ pre <= sha /\ sha # 0
      /\ s \in Seq(Commit) /\ Increasing(s)
      /\ \A i \in DOMAIN s : s[i].n \in Nat \ {0}
      /\ entry[f].watch \in Watches(f)
  BY <1>1, WatchTypes DEF Types, Branch, LineOK, WatchOK, Watches, Watched
<1>4. \A n : Reverted(f, n)' => Reverted(f, n) \/ n = sha
  BY <1>2 DEF Reverted
<1>5. CASE LetGo(f) /\ UNCHANGED line
  <2>1. letGo'[f] = letGo[f] \cup {sha}
    BY <1>5 DEF LetGo, Types
  <2>2. LineOK(f)' /\ WatchOK(f)'
    BY <1>1, <1>2, <1>5 DEF Branch, LineOK, WatchOK
  <2>3. ASSUME NEW i \in DOMAIN s, NEW n, n = s[i].n, s[i].by = "sync"
        PROVE  /\ n \in letGo'[f] \/ Buried(f, n)'
               /\ Reverted(f, n)' => n \in letGo'[f]
    <3>1. Buried(f, n) => Buried(f, n)'
      BY <1>1, <1>2, <1>5 DEF Buried
    <3>2. ~InHand(f, n)
      BY <1>1 DEF InHand
    <3> QED
      BY <1>4, <2>1, <2>3, <3>1, <3>2 DEF Branch, KeptOK
  <2>4. KeptOK(f)'
    BY <1>5, <2>3 DEF KeptOK
  <2> QED BY <2>2, <2>4 DEF Branch
<1>6. CASE line' = [line EXCEPT ![f] = Upto(@, pre)] /\ UNCHANGED letGo
  <2>1. t = Upto(s, pre)
    BY <1>6 DEF Types
  <2>2. /\ \A i \in DOMAIN t : i \in DOMAIN s /\ t[i] = s[i] /\ s[i].n <= pre
        /\ \A i \in DOMAIN s : s[i].n <= pre => i \in DOMAIN t
    <3>1. pre \in Nat /\ s \in Seq(Commit) /\ Increasing(s)
      BY <1>3
    <3> HIDE DEF s, t, pre
    <3> QED BY <2>1, <3>1, UptoPrefix
  <2>3. LineOK(f)'
    <3>1. pushes'[f] = pushes[f] /\ LineOK(f)
      BY <1>2 DEF Branch
    <3>2. Increasing(t)
      BY <1>3, <2>2 DEF Increasing
    <3>3. \A i \in DOMAIN t : t[i].n \in 1..pushes[f]
      BY <2>2, <3>1 DEF LineOK
    <3> QED BY <3>1, <3>2, <3>3 DEF LineOK
  <2>4. \A a, b : Clear(s, a, b) => Clear(t, a, b)
    BY <2>2 DEF Clear
  <2>5. WatchOK(f)'
    BY <1>1, <1>2, <2>4 DEF Branch, WatchOK
  <2>6. ASSUME NEW i \in DOMAIN t, NEW n, n = t[i].n, t[i].by = "sync"
        PROVE  /\ n \in letGo[f] \/ n = sha \/ Buried(f, n)'
               /\ Reverted(f, n)' => n \in letGo[f]
    <3>1. /\ i \in DOMAIN s /\ t[i] = s[i] /\ n <= pre /\ n \in Nat \ {0}
      BY <1>3, <2>2, <2>6
    <3>2. ~InHand(f, n)
      BY <1>1 DEF InHand
    <3>3. Buried(f, n) => Buried(f, n)'
      BY <1>1, <1>2, <1>3, <2>2 DEF Buried
    <3>4. n = sha => Reverted(f, n)
      BY <1>3, <3>1 DEF Reverted
    <3> QED
      BY <1>4, <2>6, <3>1, <3>2, <3>3, <3>4 DEF Branch, KeptOK
  <2>7. KeptOK(f)'
    BY <1>2, <1>6, <2>6 DEF KeptOK
  <2> QED BY <2>3, <2>5, <2>7 DEF Branch
<1> QED
  BY <1>5, <1>6 DEF Revert

----------------------------------------------------------------------------
(* The branches, step by step.                                                *)

\* Nothing about f moves but the tick, which is not in the middle of a push to
\* f or of a revert of it, and the file, which may learn what the tick knows.
Delicate == {"record", "checks", "revert", "reverted"}
Same(f) ==
  /\ line'[f] = line[f] /\ pushes'[f] = pushes[f]
  /\ entry'[f].watch = entry[f].watch
  /\ file'.entry[f].watch \in Watches(f) \cup {NoWatch}
  /\ letGo[f] \subseteq letGo'[f]
Calm(f) ==
  /\ Same(f)
  /\ ~At(f, "record")
  /\ pc' \in Delicate => todo' # <<>> /\ Head(todo') # f

LEMMA SameSteady ==
  ASSUME NEW f, Same(f)
  PROVE  /\ SameCommits(line[f], line'[f])
         /\ \A v \in Watches(f)' : \E w \in Watches(f) \cup {NoWatch} : Alike(v, w)
         /\ \A i \in DOMAIN line[f] :
              line[f][i].by = "sync" /\ line[f][i].n = entry[f].watch.sha =>
                line[f][i].n \in letGo'[f] \/ entry'[f].watch.sha = line[f][i].n
<1>1. SameCommits(line[f], line'[f])
  BY DEF Same, SameCommits
<1>2. \A v \in Watches(f)' : v \in Watches(f) \cup {NoWatch}
  BY DEF Same, Watches
<1> QED
  BY <1>1, <1>2 DEF Same, Alike

LEMMA CalmKeeps ==
  ASSUME Types, NEW f \in Forks, Branch(f), Calm(f)
  PROVE  Branch(f)'
<1>1. ~At(f, "record")' /\ ~At(f, "checks")' /\ ~At(f, "revert")' /\ ~At(f, "reverted")'
  BY DEF Calm, At, Delicate
<1>2. Steady(f)
  BY <1>1, SameSteady DEF Steady, Calm, Same
<1> QED
  BY <1>2, SteadyKeeps

\* Nothing at all about the branch moves.
LEMMA IdleKeeps ==
  ASSUME Types, NEW f \in Forks, Branch(f), UNCHANGED tick, Same(f)
  PROVE  Branch(f)'
<1>1. \A label : At(f, label)' <=> At(f, label)
  BY DEF At, tick
<1>2. Steady(f)
  BY <1>1, SameSteady DEF Steady, Same, Branch, WatchOK, Watched, tick
<1> QED
  BY <1>2, SteadyKeeps

\* The turn of a fork leaves the other forks alone.
LEMMA OthersCalm ==
  ASSUME NEW f, NEW g, g # f, NEW label, At(f, label), Same(g),
         todo' = todo \/ pc' \in {"idle", "verify", "sweep"}
  PROVE  Calm(g)
BY DEF At, Calm, Delicate

LEMMA LetGoGrows ==
  ASSUME Types, NEW f \in Forks, LetGo(f) \/ letGo' = letGo
  PROVE  /\ letGo' \in [Forks -> SUBSET Nat]
         /\ \A g \in Forks : letGo[g] \subseteq letGo'[g]
<1>1. letGo \in [Forks -> SUBSET Nat] /\ entry[f].watch.sha \in Nat
  BY WatchTypes DEF Types, WatchRec
<1> QED
  BY <1>1 DEF LetGo

\* What a turn writes about f leaves the other forks out.
LEMMA SavedElsewhere ==
  ASSUME Types, NEW f \in Forks, NEW g \in Forks, g # f,
         UNCHANGED store \/ EndWatch(f)
  PROVE  /\ entry'[g] = entry[g]
         /\ file'.entry[g].watch \in Watches(g) \cup {NoWatch}
<1>1. CASE UNCHANGED store
  BY <1>1 DEF store, Watches
<1>2. CASE EndWatch(f)
  <2>1. entry'[g] = entry[g] /\ entry' \in [Forks -> EntryRec]
    BY <1>2, EntryTypes DEF EndWatch, Types
  <2> QED BY <1>2, <2>1, SavedWatch DEF EndWatch, Watches
<1> QED
  BY <1>1, <1>2

\* The end of a watch: with the merge let go, or gone from the branch.
LEMMA EndKeeps ==
  ASSUME Types, NEW f \in Forks, Branch(f), EndWatch(f),
         line' = line, pushes' = pushes, letGo[f] \subseteq letGo'[f],
         pc # "record", pc' = "verify",
         \A i \in DOMAIN line[f] :
           line[f][i].by = "sync" /\ line[f][i].n = entry[f].watch.sha =>
             line[f][i].n \in letGo'[f]
  PROVE  Branch(f)'
<1>1. ~At(f, "record")' /\ ~At(f, "checks")' /\ ~At(f, "revert")' /\ ~At(f, "reverted")'
  BY DEF At
<1>2. entry'[f].watch = NoWatch /\ entry' \in [Forks -> EntryRec]
  <2>1. entry \in [Forks -> EntryRec] /\ entry[f] \in EntryRec
    BY DEF Types
  <2>2. entry'[f] = [entry[f] EXCEPT !.watch = NoWatch]
    BY <2>1 DEF EndWatch
  <2>3. entry'[f].watch = NoWatch
    BY <2>1, <2>2 DEF EntryRec
  <2>4. entry' \in [Forks -> EntryRec]
    BY EntryTypes DEF EndWatch
  <2> QED BY <2>3, <2>4
<1>3. \A v \in Watches(f)' : v \in Watches(f) \cup {NoWatch}
  BY <1>2, SavedWatch DEF EndWatch, Watches
<1>4. Steady(f)
  BY <1>1, <1>3 DEF Steady, SameCommits, Alike, At
<1> QED
  BY <1>4, SteadyKeeps

LEMMA VerifyKeeps ==
  ASSUME Types, NEW f \in Forks, NEW g \in Forks, Branch(g), VerifyTurn(f)
  PROVE  Branch(g)'
<1>1. At(f, "verify") /\ line' = line /\ pushes' = pushes
  BY DEF VerifyTurn, world
<1>2. letGo[g] \subseteq letGo'[g]
  <2>1. LetGo(f) \/ letGo' = letGo
    BY DEF VerifyTurn
  <2> QED BY <2>1, LetGoGrows
<1>3. /\ UNCHANGED store \/ EndWatch(f)
      /\ todo' = todo \/ pc' = "verify"
  BY DEF VerifyTurn, NextIn, EndTurn, Goto
<1>4. CASE g # f
  <2>1. Same(g)
    BY <1>1, <1>2, <1>3, <1>4, SavedElsewhere DEF Same
  <2> QED BY <1>1, <1>3, <1>4, <2>1, OthersCalm, CalmKeeps
<1>5. CASE g = f /\ EndWatch(f) /\ LetGo(f) /\ NextIn("verify")
  <2>1. entry[f].watch.sha \in letGo'[f] /\ pc = "verify" /\ pc' = "verify"
    BY <1>1, <1>5 DEF LetGo, NextIn, EndTurn, At, Types
  <2> QED BY <1>1, <1>2, <1>5, <2>1, EndKeeps
<1>6. CASE g = f /\ UNCHANGED store /\ NextIn("verify")
  <2>1. Same(f)
    BY <1>1, <1>2, <1>6 DEF Same, store, Watches
  <2>2. Calm(f)
    BY <1>1, <1>6, <2>1 DEF Calm, At, NextIn, EndTurn, Delicate
  <2> QED BY <1>6, <2>2, CalmKeeps
<1>7. CASE /\ g = f /\ UNCHANGED store /\ Watched(f)
           /\ Goto("checks", [job EXCEPT !.seen = Tip(f)])
  <2>1. Same(f)
    BY <1>1, <1>2, <1>7 DEF Same, store, Watches
  <2>2. /\ ~At(f, "record") /\ ~At(f, "record")' /\ ~At(f, "reverted")'
        /\ entry'[f].watch.sha # 0
    BY <1>1, <1>7 DEF Goto, At, Watched, store
  <2>3. Steady(f)
    BY <2>1, <2>2, SameSteady DEF Steady, Same
  <2> QED BY <1>7, <2>3, SteadyKeeps
<1> QED
  BY <1>4, <1>5, <1>6, <1>7 DEF VerifyTurn

LEMMA ChecksKeeps ==
  ASSUME Types, NEW f \in Forks, NEW g \in Forks, Branch(g), ChecksRead(f)
  PROVE  Branch(g)'
<1>1. At(f, "checks") /\ line' = line /\ pushes' = pushes
  BY DEF ChecksRead, world
<1>2. letGo[g] \subseteq letGo'[g]
  <2>1. LetGo(f) \/ letGo' = letGo
    BY DEF ChecksRead
  <2> QED BY <2>1, LetGoGrows
<1>3. /\ UNCHANGED store \/ EndWatch(f)
      /\ todo' = todo \/ pc' = "verify"
  BY DEF ChecksRead, NextIn, EndTurn, Goto
<1>4. CASE g # f
  <2>1. Same(g)
    BY <1>1, <1>2, <1>3, <1>4, SavedElsewhere DEF Same
  <2> QED BY <1>1, <1>3, <1>4, <2>1, OthersCalm, CalmKeeps
<1>5. CASE g = f /\ Goto("revert", job) /\ UNCHANGED store
  <2>1. Same(f)
    BY <1>1, <1>2, <1>5 DEF Same, store, Watches
  <2>2. /\ ~At(f, "record") /\ ~At(f, "record")' /\ ~At(f, "reverted")'
        /\ entry'[f].watch.sha # 0
    BY <1>1, <1>5 DEF Goto, At, Watched, store, Branch, WatchOK
  <2>3. Steady(f)
    BY <2>1, <2>2, SameSteady DEF Steady, Same
  <2> QED BY <1>5, <2>3, SteadyKeeps
<1>6. CASE g = f /\ NextIn("verify") /\ UNCHANGED store
  <2>1. Same(f)
    BY <1>1, <1>2, <1>6 DEF Same, store, Watches
  <2>2. Calm(f)
    BY <1>1, <1>6, <2>1 DEF Calm, At, NextIn, EndTurn, Delicate
  <2> QED BY <1>6, <2>2, CalmKeeps
<1>7. CASE g = f /\ EndWatch(f) /\ LetGo(f) /\ NextIn("verify")
  <2>1. entry[f].watch.sha \in letGo'[f] /\ pc = "checks" /\ pc' = "verify"
    BY <1>1, <1>7 DEF LetGo, NextIn, EndTurn, At, Types
  <2> QED BY <1>1, <1>2, <1>7, <2>1, EndKeeps
<1> QED
  BY <1>4, <1>5, <1>6, <1>7 DEF ChecksRead, StillRunning

LEMMA RevertsKeep ==
  ASSUME Types, NEW f \in Forks, NEW g \in Forks, Branch(g),
         Revert(f) \/ RevertRecorded(f)
  PROVE  Branch(g)'
<1>1. CASE Revert(f)
  <2>1. CASE g = f
    BY <1>1, <2>1, RevertKeeps
  <2>2. CASE g # f
    <3>1. At(f, "revert") /\ todo' = todo /\ line'[g] = line[g] /\ UNCHANGED store
      BY <1>1, <2>2 DEF Revert, Goto, Types
    <3>2. letGo[g] \subseteq letGo'[g]
      BY <1>1, LetGoGrows DEF Revert
    <3>3. Same(g)
      BY <1>1, <3>1, <3>2 DEF Revert, Same, world, store, Watches
    <3> QED BY <2>2, <3>1, <3>3, OthersCalm, CalmKeeps
  <2> QED BY <2>1, <2>2
<1>2. CASE RevertRecorded(f)
  <2>1. /\ At(f, "reverted") /\ EndWatch(f) /\ pc' = "verify"
        /\ line' = line /\ pushes' = pushes /\ letGo' = letGo
    BY <1>2 DEF RevertRecorded, NextIn, EndTurn, world, ghosts
  <2>2. CASE g = f
    <3>1. \A i \in DOMAIN line[f] :
            line[f][i].by = "sync" /\ line[f][i].n = entry[f].watch.sha =>
              line[f][i].n \in letGo[f]
      BY <2>1, <2>2 DEF Branch, KeptOK, Reverted
    <3> QED BY <2>1, <2>2, <3>1, EndKeeps DEF At
  <2>3. CASE g # f
    <3>1. Same(g)
      BY <2>1, <2>3, SavedElsewhere DEF Same
    <3> QED BY <2>1, <2>3, <3>1, OthersCalm, CalmKeeps
  <2> QED BY <2>2, <2>3
<1> QED
  BY <1>1, <1>2

\* What the sweep notes about an attempt leaves the watches alone.
Notes(f) ==
  \/ entry' = entry
  \/ SkipNote(f)
  \/ entry' = [entry EXCEPT ![f].skip = FALSE]
  \/ entry' = [entry EXCEPT ![f].due = FALSE]
  \/ entry' = [entry EXCEPT ![f].notified = TRUE]
  \/ entry' = [entry EXCEPT ![f].attempt = job.seen, ![f].due = FALSE,
                            ![f].skip = FALSE, ![f].notified = FALSE]

LEMMA NotesSpareWatches ==
  ASSUME Types, NEW f \in Forks, NEW g \in Forks, Notes(f)
  PROVE  entry'[g].watch = entry[g].watch /\ entry' \in [Forks -> EntryRec]
<1>1. entry \in [Forks -> EntryRec] /\ entry[f] \in EntryRec /\ job.seen \in Nat
  BY DEF Types, JobRec
<1>2. PICK e : /\ entry' = [entry EXCEPT ![f] = e]
               /\ \/ e = entry[f]
                  \/ e = [entry[f] EXCEPT !.attempt = job.seen, !.due = FALSE,
                                          !.skip = TRUE, !.notified = FALSE]
                  \/ e = [entry[f] EXCEPT !.skip = FALSE]
                  \/ e = [entry[f] EXCEPT !.due = FALSE]
                  \/ e = [entry[f] EXCEPT !.notified = TRUE]
                  \/ e = [entry[f] EXCEPT !.attempt = job.seen, !.due = FALSE,
                                          !.skip = FALSE, !.notified = FALSE]
  BY <1>1 DEF Notes, SkipNote
<1>3. e \in EntryRec /\ e.watch = entry[f].watch
  BY <1>1, <1>2 DEF EntryRec
<1> QED
  BY <1>1, <1>2, <1>3

\* The file after a note.
LEMMA NotesSame ==
  ASSUME Types, NEW f \in Forks, NEW g \in Forks, Notes(f),
         UNCHANGED <<file, losses>> \/ Saved,
         line' = line, pushes' = pushes, letGo' = letGo
  PROVE  Same(g)
<1>1. entry'[g].watch = entry[g].watch /\ entry' \in [Forks -> EntryRec]
  BY NotesSpareWatches
<1>2. file'.entry[g].watch \in Watches(g) \cup {NoWatch}
  BY <1>1, SavedWatch DEF Watches
<1> QED
  BY <1>1, <1>2 DEF Same

\* The steps of the sweep around the push itself.
Errand(f) ==
  \/ CompareFails(f) \/ Compare(f) \/ CheckOpenPr(f)
  \/ CloneFails(f) \/ Clone(f) \/ Resolve(f) \/ PushFails(f)
  \/ PushRefused(f) \/ PostPr(f) \/ RecordPr(f) \/ RecordNoPr(f)
  \/ MarkNotified(f) \/ PostAlert(f)

LEMMA ErrandNotes ==
  ASSUME NEW f, Errand(f)
  PROVE  /\ Notes(f) /\ (UNCHANGED <<file, losses>> \/ Saved)
         /\ line' = line /\ pushes' = pushes /\ letGo' = letGo
<1> USE DEF Notes, store, world, ghosts
<1>1. CASE CompareFails(f) \/ Compare(f) \/ CheckOpenPr(f)
  BY <1>1 DEF CompareFails, Compare, CheckOpenPr
<1>2. CASE CloneFails(f) \/ Clone(f) \/ Resolve(f) \/ PushFails(f)
  BY <1>2 DEF CloneFails, TriedInVain, Clone, Resolve, PushFails
<1>3. CASE PushRefused(f) \/ PostPr(f) \/ RecordPr(f) \/ RecordNoPr(f)
  BY <1>3 DEF PushRefused, PostPr, RecordPr, RecordNoPr, TriedInVain
<1>4. CASE MarkNotified(f) \/ PostAlert(f)
  BY <1>4 DEF MarkNotified, PostAlert
<1> QED
  BY <1>1, <1>2, <1>3, <1>4 DEF Errand

LEMMA ErrandLabels ==
  ASSUME NEW f, Errand(f)
  PROVE  pc # "record" /\ pc' \notin Delicate
<1> USE DEF At, Delicate, Goto, NextIn, EndTurn, Attempted
<1>1. CASE CompareFails(f) \/ Compare(f) \/ CheckOpenPr(f)
  BY <1>1 DEF CompareFails, Compare, Turn, CheckOpenPr
<1>2. CASE CloneFails(f) \/ Clone(f) \/ Resolve(f) \/ PushFails(f)
  BY <1>2 DEF CloneFails, TriedInVain, Clone, Resolve, PushFails
<1>3. CASE PushRefused(f) \/ PostPr(f) \/ RecordPr(f) \/ RecordNoPr(f)
  BY <1>3 DEF PushRefused, PostPr, RecordPr, RecordNoPr, TriedInVain
<1>4. CASE MarkNotified(f) \/ PostAlert(f)
  BY <1>4 DEF MarkNotified, PostAlert
<1> QED
  BY <1>1, <1>2, <1>3, <1>4 DEF Errand

LEMMA ErrandKeeps ==
  ASSUME Types, NEW f \in Forks, NEW g \in Forks, Branch(g), Errand(f)
  PROVE  Branch(g)'
<1>1. Same(g)
  BY ErrandNotes, NotesSame
<1>2. Calm(g)
  BY <1>1, ErrandLabels DEF Calm, At
<1> QED
  BY <1>2, CalmKeeps

\* The process ends, and the next tick will start from the file it left.
Ends(left) ==
  /\ entry' = left.entry
  /\ file' = left
  /\ left = file \/ left = Forgotten
  /\ \A f \in Forks : letGo[f] \cup Unsaved(f, left) \subseteq letGo'[f]

LEMMA EndsKeeps ==
  ASSUME Types, NEW g \in Forks, Branch(g), NEW left, Ends(left),
         line' = line, pushes' = pushes, pc' = "idle",
         At(g, "record") /\ job.got # 0 => job.head \in letGo'[g]
  PROVE  Branch(g)'
<1>1. \A label \in Delicate : ~At(g, label)'
  BY DEF At, Delicate
<1>2. Watches(g)' = {left.entry[g].watch}
  BY DEF Watches, Ends
<1>3. left.entry[g].watch \in Watches(g) \cup {NoWatch}
  BY DEF Ends, Watches, Forgotten, NewEntry
<1>4. ASSUME NEW i \in DOMAIN line[g], line[g][i].by = "sync",
             line[g][i].n = entry[g].watch.sha
      PROVE  line[g][i].n \in letGo'[g] \/ entry'[g].watch.sha = line[g][i].n
  <2>1. line[g][i].n # 0
    BY DEF Branch, LineOK, Types
  <2> QED BY <1>4, <2>1 DEF Ends, Unsaved
<1>5. Steady(g)
  BY <1>1, <1>2, <1>3, <1>4 DEF Steady, SameCommits, Alike, Ends, Delicate
<1> QED
  BY <1>5, SteadyKeeps

LEMMA TickKeepsBranch ==
  ASSUME Types, NEW g \in Forks, Branch(g), Tick
  PROVE  Branch(g)'
<1>1. CASE UNCHANGED <<line, store, letGo>> /\ UNCHANGED world /\ pc # "record"
           /\ pc' \notin Delicate
  <2>1. Calm(g)
    BY <1>1 DEF Calm, Same, At, Watches, world, store
  <2> QED BY <2>1, CalmKeeps
<1>2. ASSUME NEW listing \in Listings, StartTick(listing) PROVE Branch(g)'
  BY <1>1, <1>2 DEF StartTick, Delicate, ghosts
<1>3. CASE BeginSweep \/ SyncThrows
  BY <1>1, <1>3 DEF BeginSweep, SyncThrows, Attempted, EndTurn, Delicate, ghosts
<1>4. CASE EndTick
  <2>1. /\ Saved /\ entry' = entry /\ line' = line /\ pushes' = pushes /\ letGo' = letGo
        /\ pc = "sweep" /\ pc' = "exit"
    BY <1>4 DEF EndTick, Goto, world, ghosts
  <2>2. Same(g)
    BY <2>1, NotesSame DEF Notes
  <2>3. Calm(g)
    BY <2>1, <2>2 DEF Calm, At, Delicate
  <2> QED BY <2>3, CalmKeeps
<1>5. CASE Exit
  <2>1. letGo' = [f \in Forks |-> letGo[f] \cup Unsaved(f, file)]
    BY <1>5 DEF Exit
  <2>2. Ends(file)
    BY <1>5, <2>1 DEF Exit, Reload, Ends
  <2>3. ~At(g, "record") /\ line' = line /\ pushes' = pushes /\ pc' = "idle"
    BY <1>5 DEF Exit, Stop, At, world
  <2> QED BY <2>2, <2>3, EndsKeeps
<1>6. ASSUME NEW f \in Forks, VerifyTurn(f) PROVE Branch(g)'
  BY <1>6, VerifyKeeps
<1>7. ASSUME NEW f \in Forks, ChecksRead(f) PROVE Branch(g)'
  BY <1>7, ChecksKeeps
<1>8. ASSUME NEW f \in Forks, Revert(f) \/ RevertRecorded(f) PROVE Branch(g)'
  BY <1>8, RevertsKeep
<1>9. ASSUME NEW f \in Forks, Errand(f) PROVE Branch(g)'
  BY <1>9, ErrandKeeps
<1>10. ASSUME NEW f \in Forks, Push(f) PROVE Branch(g)'
  <2>1. CASE g = f
    BY <1>10, <2>1, PushKeeps
  <2>2. CASE g # f
    <3>1. /\ At(f, "push") /\ todo' = todo /\ UNCHANGED store /\ letGo' = letGo
          /\ line'[g] = line[g] /\ pushes'[g] = pushes[g]
      BY <1>10, <2>2 DEF Push, Goto, Types, ghosts
    <3>2. Same(g)
      BY <3>1 DEF Same, store, Watches
    <3> QED BY <2>2, <3>1, <3>2, OthersCalm, CalmKeeps
  <2> QED BY <2>1, <2>2
<1>11. ASSUME NEW f \in Forks, Record(f) PROVE Branch(g)'
  <2>1. CASE g = f
    BY <1>11, <2>1, RecordKeeps
  <2>2. CASE g # f
    <3> DEFINE e == [attempt |-> job.seen, due |-> FALSE, skip |-> FALSE,
                     notified |-> FALSE, watch |-> Armed(f)]
    <3>1. e \in EntryRec
      BY DEF Types, JobRec, EntryRec, WatchRec, Armed
    <3>2. entry' = [entry EXCEPT ![f] = e]
      BY <1>11 DEF Record
    <3> HIDE DEF e
    <3>3. entry'[g] = entry[g] /\ entry' \in [Forks -> EntryRec]
      BY <2>2, <3>1, <3>2 DEF Types
    <3>4. file'.entry[g].watch \in Watches(g) \cup {NoWatch}
      BY <1>11, <3>3, SavedWatch DEF Record, Watches
    <3>5. /\ At(f, "record") /\ pc' = "sweep" /\ line' = line /\ pushes' = pushes
          /\ LetGo(f)
      BY <1>11 DEF Record, Attempted, EndTurn, world
    <3>6. Same(g)
      BY <3>3, <3>4, <3>5, LetGoGrows DEF Same
    <3> QED BY <2>2, <3>5, <3>6, OthersCalm, CalmKeeps
  <2> QED BY <2>1, <2>2
<1> QED
  BY <1>2, <1>3, <1>4, <1>5, <1>6, <1>7, <1>8, <1>9, <1>10, <1>11 DEF Tick, Errand

LEMMA KillKeepsBranch ==
  ASSUME Types, NEW g \in Forks, Branch(g), Kill
  PROVE  Branch(g)'
<1>1. line' = line /\ pushes' = pushes /\ pc' = "idle"
  BY DEF Kill, Stop, world
<1>2. file' = file \/ file' = Forgotten
  BY DEF Kill
<1>3. letGo' = [f \in Forks |-> letGo[f] \cup Unsaved(f, file')
                   \cup {n \in {job.head} : At(f, "record") /\ job.got # 0}]
  BY DEF Kill
<1>4. Ends(file')
  BY <1>2, <1>3 DEF Kill, Reload, Ends
<1>5. At(g, "record") /\ job.got # 0 => job.head \in letGo'[g]
  BY <1>3
<1> QED
  BY <1>1, <1>4, <1>5, EndsKeeps

LEMMA WorldKeepsBranch ==
  ASSUME Types, NEW g \in Forks, Branch(g), World
  PROVE  Branch(g)'
<1>1. UNCHANGED tick /\ letGo' = letGo
  BY DEF World, Idly, ghosts
<1>2. PICK f \in Forks :
        \/ UpstreamMoves(f) \/ OthersPush(f) \/ CiMoves(f)
        \/ IntervalPasses(f) \/ WatchAges(f)
        \/ \E u \in prs[f] : ClosePr(f, u)
  BY DEF World
<1>3. CASE UpstreamMoves(f)
  <2>1. Same(g)
    BY <1>1, <1>3 DEF UpstreamMoves, Same, Watches
  <2> QED BY <1>1, <2>1, IdleKeeps
<1>4. ASSUME NEW u \in Nat, PushOther(f, u), entry' = entry, file' = file
      PROVE  Branch(g)'
  <2> DEFINE c == [n |-> pushes[f] + 1, by |-> "other", up |-> u, ci |-> "none"]
  <2>1. CASE g = f
    <3>1. Grows(f, c) /\ c.by = "other"
      BY <1>4 DEF PushOther, Grows, Commit, Types
    <3> HIDE DEF c
    <3> QED BY <1>1, <1>4, <2>1, <3>1, OthersOnTop
  <2>2. CASE g # f
    <3>1. Same(g)
      BY <1>1, <1>4, <2>2 DEF PushOther, Same, Types, Watches
    <3> QED BY <1>1, <3>1, IdleKeeps
  <2> QED BY <2>1, <2>2
<1>5. CASE OthersPush(f)
  BY <1>4, <1>5, LastCommit DEF OthersPush
<1>6. ASSUME NEW u \in prs[f], ClosePr(f, u) PROVE Branch(g)'
  <2>1. u \in Nat /\ entry' = entry /\ file' = file
    BY <1>6 DEF Types, ClosePr
  <2>2. CASE UNCHANGED <<line, pushes>>
    <3>1. Same(g)
      BY <1>1, <2>1, <2>2 DEF Same, Watches
    <3> QED BY <1>1, <3>1, IdleKeeps
  <2> QED BY <1>4, <1>6, <2>1, <2>2 DEF ClosePr
<1>7. \A label : At(g, label)' <=> At(g, label)
  BY <1>1 DEF At, tick
<1>8. ASSUME SameCommits(line[g], line'[g]), pushes' = pushes,
             Alike(entry'[g].watch, entry[g].watch),
             Alike(file'.entry[g].watch, file.entry[g].watch)
      PROVE  Branch(g)'
  <2>1. \A v \in Watches(g)' : \E w \in Watches(g) : Alike(v, w)
    BY <1>8 DEF Watches
  <2>2. entry'[g].watch.sha = entry[g].watch.sha
    BY <1>8 DEF Alike
  <2>3. Steady(g)
    BY <1>1, <1>7, <1>8, <2>1, <2>2 DEF Steady, Branch, WatchOK, Watched, tick
  <2> QED BY <2>3, SteadyKeeps
<1>9. CASE CiMoves(f)
  <2>1. entry' = entry /\ file' = file /\ pushes' = pushes
    BY <1>9 DEF CiMoves
  <2>2. SameCommits(line[g], line'[g])
    <3>1. PICK i \in DOMAIN line[f], ci \in {"running", "green", "red"} :
            line' = [line EXCEPT ![f][i].ci = ci]
      BY <1>9 DEF CiMoves
    <3>2. CASE g # f
      BY <3>1, <3>2 DEF Types, SameCommits
    <3>3. CASE g = f
      <4>1. \A j \in DOMAIN line[f] : line[f][j] \in Commit
        BY CommitAt
      <4>2. line'[f] = [line[f] EXCEPT ![i].ci = ci]
        BY <3>1 DEF Types
      <4>3. /\ DOMAIN line'[f] = DOMAIN line[f]
            /\ line'[f][i] = [line[f][i] EXCEPT !.ci = ci]
            /\ \A j \in DOMAIN line[f] : j # i => line'[f][j] = line[f][j]
        BY <4>2
      <4>4. /\ line'[f][i].n = line[f][i].n /\ line'[f][i].by = line[f][i].by
        BY <4>1, <4>3 DEF Commit
      <4> QED BY <3>3, <4>3, <4>4 DEF SameCommits
    <3> QED BY <3>2, <3>3
  <2> QED BY <1>8, <2>1, <2>2 DEF Alike
<1>10. CASE IntervalPasses(f) \/ WatchAges(f)
  <2>1. SameCommits(line[g], line'[g]) /\ pushes' = pushes
    BY <1>10 DEF IntervalPasses, WatchAges, SameCommits
  <2>2. ASSUME NEW e \in [Forks -> EntryRec]
        PROVE  /\ Alike(Rested(e, f)[g].watch, e[g].watch)
               /\ Alike(Aged(e, f)[g].watch, e[g].watch)
    <3>1. CASE g # f
      BY <3>1 DEF Rested, Aged, Alike
    <3>2. CASE g = f
      <4>1. e[f] \in EntryRec /\ e[f].watch \in WatchRec
        BY DEF EntryRec
      <4>2. /\ Rested(e, f)[f].watch = e[f].watch
            /\ Aged(e, f)[f].watch = Older(e[f].watch)
        BY <4>1 DEF Rested, Aged, EntryRec
      <4>3. Alike(Older(e[f].watch), e[f].watch)
        BY <4>1 DEF Older, Alike, WatchRec
      <4> QED BY <3>2, <4>2, <4>3 DEF Alike
    <3> QED BY <3>1, <3>2
  <2>3. \/ entry' = Rested(entry, f) /\ file'.entry = Rested(file.entry, f)
        \/ entry' = Aged(entry, f) /\ file'.entry = Aged(file.entry, f)
    <3>1. \A e : [file EXCEPT !.entry = e].entry = e
      BY DEF Types
    <3> QED BY <1>10, <3>1 DEF IntervalPasses, WatchAges
  <2>4. entry \in [Forks -> EntryRec] /\ file.entry \in [Forks -> EntryRec]
    BY DEF Types
  <2> QED BY <1>8, <2>1, <2>2, <2>3, <2>4
<1> QED
  BY <1>2, <1>3, <1>5, <1>6, <1>9, <1>10

----------------------------------------------------------------------------
(* The alerts and the attempts, step by step.                                 *)

LEMMA AttemptTypes ==
  ASSUME Types, NEW f \in Forks
  PROVE  /\ up[f] \in Nat /\ entry[f].attempt \in Nat /\ file.entry[f].attempt \in Nat
         /\ job.seen \in Nat /\ losses \in Nat
         /\ \A u \in 1..MaxUpstream : alerts[f][u] \in Nat
<1>1. entry[f] \in EntryRec /\ file.entry[f] \in EntryRec
  BY DEF Types
<1> QED
  BY <1>1 DEF Types, EntryRec, JobRec

\* What is on record stays there, unless a loss is counted.
Logged(f) ==
  /\ losses' \in Nat /\ losses <= losses'
  /\ entry'[f].attempt \in Nat /\ file'.entry[f].attempt \in Nat
  /\ entry'[f].attempt <= up[f] /\ file'.entry[f].attempt <= up[f]
  /\ \A u \in 1..MaxUpstream : OnRecord(f, u) => OnRecord(f, u)' \/ losses < losses'

LEMMA SavedLogs ==
  ASSUME Types, NEW f \in Forks, AlertOK(f), Saved, entry' \in [Forks -> EntryRec],
         entry'[f].attempt = entry[f].attempt
  PROVE  /\ Logged(f)
         /\ file'.entry[f].attempt = entry[f].attempt \/ losses < losses'
<1>1. /\ losses' \in Nat
      /\ \/ losses' = losses /\ file'.entry[f] = entry'[f]
         \/ losses' = losses + 1 /\ file'.entry[f] \in {file.entry[f], NewEntry}
  BY SavedFile
<1>2. NewEntry.attempt = 0
  BY DEF NewEntry
<1>3. /\ up[f] \in Nat /\ entry[f].attempt \in Nat /\ file.entry[f].attempt \in Nat
      /\ losses \in Nat
  BY AttemptTypes
<1>4. entry[f].attempt <= up[f] /\ file.entry[f].attempt <= up[f]
  BY DEF AlertOK
<1>5. CASE losses' = losses /\ file'.entry[f] = entry'[f]
  BY <1>3, <1>4, <1>5 DEF Logged, OnRecord
<1>6. CASE losses' = losses + 1 /\ file'.entry[f] \in {file.entry[f], NewEntry}
  BY <1>2, <1>3, <1>4, <1>6 DEF Logged
<1> QED
  BY <1>1, <1>5, <1>6

\* The tick may leave an attempt or an alert, not start one.
AlertQuiet(f) ==
  /\ Logged(f)
  /\ up'[f] \in Nat /\ up[f] <= up'[f]
  /\ alerts'[f] = alerts[f]
  /\ In(f, Aiming)' => /\ In(f, Aiming) /\ job'.seen = job.seen
                       /\ entry'[f].attempt = entry[f].attempt
  /\ In(f, GivenUp)' => /\ In(f, GivenUp) /\ job'.seen = job.seen
                        /\ entry'[f].attempt = entry[f].attempt
                        /\ \/ losses < losses'
                           \/ file'.entry[f].attempt
                                \in {entry[f].attempt, file.entry[f].attempt}

LEMMA AlertQuietKeeps ==
  ASSUME Types, NEW f \in Forks, AlertOK(f), AlertQuiet(f)
  PROVE  AlertOK(f)'
<1>1. /\ up[f] \in Nat /\ entry[f].attempt \in Nat /\ file.entry[f].attempt \in Nat
      /\ job.seen \in Nat /\ losses \in Nat
      /\ \A u \in 1..MaxUpstream : alerts[f][u] \in Nat
  BY AttemptTypes
<1>2. /\ losses' \in Nat /\ losses <= losses' /\ up'[f] \in Nat /\ up[f] <= up'[f]
      /\ entry'[f].attempt \in Nat /\ file'.entry[f].attempt \in Nat
      /\ entry'[f].attempt <= up[f] /\ file'.entry[f].attempt <= up[f]
      /\ alerts'[f] = alerts[f]
  BY DEF AlertQuiet, Logged
<1>3. entry'[f].attempt <= up'[f] /\ file'.entry[f].attempt <= up'[f]
  BY <1>1, <1>2
<1>4. ASSUME NEW u \in 1..MaxUpstream
      PROVE  \/ alerts'[f][u] <= losses'
             \/ alerts'[f][u] <= losses' + 1 /\ OnRecord(f, u)'
  <2>1. \/ alerts[f][u] <= losses
        \/ alerts[f][u] <= losses + 1 /\ OnRecord(f, u)
    BY DEF AlertOK
  <2>2. OnRecord(f, u) => OnRecord(f, u)' \/ losses < losses'
    BY DEF AlertQuiet, Logged
  <2>3. alerts[f][u] \in Nat
    BY <1>1
  <2> QED BY <1>1, <1>2, <2>1, <2>2, <2>3
<1>5. In(f, Aiming)' => entry'[f].attempt < job'.seen /\ job'.seen <= up'[f]
  BY <1>1, <1>2 DEF AlertOK, AlertQuiet
<1>6. ASSUME In(f, GivenUp)'
      PROVE  /\ job'.seen = entry'[f].attempt
             /\ job'.seen \in 1..MaxUpstream =>
                  \/ alerts'[f][job'.seen] < losses'
                  \/ alerts'[f][job'.seen] <= losses' /\ job'.seen <= file'.entry[f].attempt
  <2>1. /\ In(f, GivenUp) /\ job'.seen = job.seen
        /\ entry'[f].attempt = entry[f].attempt
        /\ \/ losses < losses'
           \/ file'.entry[f].attempt \in {entry[f].attempt, file.entry[f].attempt}
    BY <1>6 DEF AlertQuiet
  <2>2. /\ job.seen = entry[f].attempt
        /\ job.seen \in 1..MaxUpstream =>
             \/ alerts[f][job.seen] < losses
             \/ alerts[f][job.seen] <= losses /\ job.seen <= file.entry[f].attempt
    BY <2>1 DEF AlertOK
  <2>3. job.seen \in 1..MaxUpstream => alerts[f][job.seen] \in Nat
    BY <1>1
  <2> QED BY <1>1, <1>2, <2>1, <2>2, <2>3
<1> QED
  BY <1>3, <1>4, <1>5, <1>6 DEF AlertOK

\* A turn of f says nothing about the attempts at other forks.
LEMMA NotTheirTurn ==
  ASSUME NEW f, NEW g, g # f, NEW label, At(f, label),
         todo' = todo \/ pc' \in {"idle", "verify", "sweep"}
  PROVE  ~In(g, Aiming)' /\ ~In(g, GivenUp)' /\ ~In(g, Landing)'
BY DEF At, In, Aiming, GivenUp, Landing

\* What is written without an attempt.
Mild(f) ==
  \/ entry' = entry
  \/ entry' = [entry EXCEPT ![f].watch = NoWatch]
  \/ entry' = [entry EXCEPT ![f].skip = FALSE]
  \/ entry' = [entry EXCEPT ![f].due = FALSE]
  \/ entry' = [entry EXCEPT ![f].notified = TRUE]

LEMMA MildSparesAttempts ==
  ASSUME Types, NEW f \in Forks, NEW g \in Forks, Mild(f)
  PROVE  entry'[g].attempt = entry[g].attempt /\ entry' \in [Forks -> EntryRec]
<1>1. entry \in [Forks -> EntryRec] /\ entry[f] \in EntryRec
  BY DEF Types
<1>2. PICK e : /\ entry' = [entry EXCEPT ![f] = e]
               /\ \/ e = entry[f]
                  \/ e = [entry[f] EXCEPT !.watch = NoWatch]
                  \/ e = [entry[f] EXCEPT !.skip = FALSE]
                  \/ e = [entry[f] EXCEPT !.due = FALSE]
                  \/ e = [entry[f] EXCEPT !.notified = TRUE]
  BY <1>1 DEF Mild
<1>3. e.attempt = entry[f].attempt
  BY <1>1, <1>2 DEF EntryRec
<1>4. entry' \in [Forks -> EntryRec]
  BY <1>1, EntryTypes DEF Mild
<1>5. CASE g = f
  <2>1. entry'[g] = e
    BY <1>1, <1>2, <1>5, Zenon
  <2> QED BY <1>3, <1>4, <1>5, <2>1
<1>6. CASE g # f
  <2>1. entry'[g] = entry[g]
    BY <1>1, <1>2, <1>6, Zenon
  <2> QED BY <1>4, <2>1
<1> QED
  BY <1>5, <1>6

\* A step that writes no attempt and starts none.
LEMMA MildKeeps ==
  ASSUME Types, NEW f \in Forks, NEW g \in Forks, AlertOK(g), Mild(f),
         UNCHANGED <<file, losses>> \/ Saved, up' = up, alerts' = alerts,
         In(g, Aiming)' => In(g, Aiming) /\ job'.seen = job.seen,
         In(g, GivenUp)' => In(g, GivenUp) /\ job'.seen = job.seen
  PROVE  AlertOK(g)'
<1>1. entry'[g].attempt = entry[g].attempt /\ entry' \in [Forks -> EntryRec]
  BY MildSparesAttempts
<1>2. /\ Logged(g)
      /\ \/ file'.entry[g].attempt \in {entry[g].attempt, file.entry[g].attempt}
         \/ losses < losses'
  <2>1. CASE UNCHANGED <<file, losses>>
    BY <1>1, <2>1, AttemptTypes DEF Logged, OnRecord, AlertOK
  <2>2. CASE Saved
    BY <1>1, <2>2, SavedLogs
  <2> QED BY <2>1, <2>2
<1>3. up'[g] \in Nat /\ up[g] <= up'[g]
  BY AttemptTypes
<1>4. AlertQuiet(g)
  BY <1>1, <1>2, <1>3 DEF AlertQuiet
<1> QED
  BY <1>4, AlertQuietKeeps

\* The attempt at f ends with this upstream tip on record.
Tried(f) ==
  /\ entry' = [entry EXCEPT ![f] = entry'[f]]
  /\ entry' \in [Forks -> EntryRec]
  /\ entry'[f].attempt = job.seen
  /\ Saved
  /\ up' = up /\ alerts' = alerts
  /\ In(f, Aiming)
  /\ \/ pc' = "sweep"
     \/ pc' = "skipped" /\ job' = job /\ todo' = todo

LEMMA TriedKeeps ==
  ASSUME Types, NEW f \in Forks, NEW g \in Forks, AlertOK(g), Tried(f)
  PROVE  AlertOK(g)'
<1>1. ~In(g, Aiming)' /\ (In(g, GivenUp)' => g = f /\ job' = job)
  BY DEF Tried, In, Aiming, GivenUp
<1>2. /\ job.seen \in Nat /\ up[g] \in Nat /\ entry[g].attempt \in Nat
      /\ file.entry[g].attempt \in Nat /\ losses \in Nat
      /\ \A u \in 1..MaxUpstream : alerts[g][u] \in Nat
  BY AttemptTypes
<1>3. CASE g # f
  <2>1. entry'[g] = entry[g]
    BY <1>3 DEF Tried, Types
  <2>2. Logged(g)
    BY <2>1, SavedLogs DEF Tried
  <2>3. AlertQuiet(g)
    BY <1>1, <1>2, <1>3, <2>2 DEF AlertQuiet, Tried
  <2> QED BY <2>3, AlertQuietKeeps
<1>4. CASE g = f
  <2>1. entry[f].attempt < job.seen /\ job.seen <= up[f]
    BY <1>4 DEF AlertOK, Tried
  <2>2. /\ losses' \in Nat
        /\ \/ losses' = losses /\ file'.entry[f].attempt = job.seen
           \/ losses' = losses + 1 /\ file'.entry[f].attempt \in {file.entry[f].attempt, 0}
    BY SavedFile DEF Tried, NewEntry
  <2>3. file.entry[f].attempt <= up[f]
    BY <1>4 DEF AlertOK
  <2>4. ASSUME NEW u \in 1..MaxUpstream
        PROVE  \/ alerts[f][u] <= losses
               \/ alerts[f][u] <= losses + 1 /\ u < job.seen
    BY <1>2, <1>4, <2>1 DEF AlertOK, OnRecord
  <2>5. ASSUME NEW u \in 1..MaxUpstream
        PROVE  \/ alerts[f][u] <= losses'
               \/ /\ alerts[f][u] <= losses' + 1
                  /\ u <= job.seen /\ u <= file'.entry[f].attempt
    <3>1. alerts[f][u] \in Nat
      BY <1>2, <1>4
    <3> QED BY <1>2, <2>2, <2>4, <3>1
  <2>6. job.seen \in 1..MaxUpstream =>
          \/ alerts[f][job.seen] < losses'
          \/ alerts[f][job.seen] <= losses' /\ job.seen <= file'.entry[f].attempt
    <3>1. SUFFICES ASSUME job.seen \in 1..MaxUpstream
                   PROVE  \/ alerts[f][job.seen] < losses'
                          \/ /\ alerts[f][job.seen] <= losses'
                             /\ job.seen <= file'.entry[f].attempt
      OBVIOUS
    <3>2. alerts[f][job.seen] \in Nat
      BY <1>2, <1>4, <3>1
    <3>3. alerts[f][job.seen] <= losses
      BY <1>2, <2>4, <3>1
    <3> QED BY <1>2, <2>2, <3>2, <3>3
  <2>7. entry'[f].attempt <= up'[f] /\ file'.entry[f].attempt <= up'[f]
    BY <1>2, <1>4, <2>1, <2>2, <2>3 DEF Tried
  <2>8. entry'[f].attempt = job.seen /\ alerts' = alerts
    BY DEF Tried
  <2> QED
    BY <1>1, <1>4, <2>5, <2>6, <2>7, <2>8 DEF AlertOK, OnRecord
<1> QED
  BY <1>3, <1>4

\* The tick starts from the file.
LEMMA ReloadKeeps ==
  ASSUME Types, NEW g \in Forks, AlertOK(g), entry' = file'.entry,
         \/ file' = file /\ losses' = losses
         \/ file' \in {file, Forgotten} /\ losses' = losses + 1,
         up' = up, alerts' = alerts, pc' = "idle"
  PROVE  AlertOK(g)'
<1>1. /\ up[g] \in Nat /\ file.entry[g].attempt \in Nat /\ losses \in Nat
      /\ file.entry[g].attempt <= up[g]
  BY AttemptTypes DEF AlertOK
<1>2. Forgotten.entry[g].attempt = 0
  BY DEF Forgotten, NewEntry
<1>3. ~In(g, Aiming)' /\ ~In(g, GivenUp)'
  BY DEF In, Aiming, GivenUp
<1>4. Logged(g)
  BY <1>1, <1>2 DEF Logged, OnRecord
<1>5. AlertQuiet(g)
  BY <1>1, <1>3, <1>4 DEF AlertQuiet
<1> QED
  BY <1>5, AlertQuietKeeps

\* The notes that record an attempt.
LEMMA NotedTypes ==
  ASSUME Types, NEW f \in Forks
  PROVE  /\ SkipNote(f) => /\ entry' \in [Forks -> EntryRec]
                           /\ entry'[f].attempt = job.seen
         /\ entry' = [entry EXCEPT ![f].attempt = job.seen, ![f].due = FALSE,
                                   ![f].skip = FALSE, ![f].notified = FALSE]
              => /\ entry' \in [Forks -> EntryRec]
                 /\ entry'[f].attempt = job.seen
         /\ Record(f) => /\ entry' \in [Forks -> EntryRec]
                         /\ entry'[f].attempt = job.seen
<1>1. job.seen \in Nat /\ entry \in [Forks -> EntryRec] /\ entry[f] \in EntryRec
  BY DEF Types, JobRec
<1>2. ASSUME NEW skip \in BOOLEAN,
             entry' = [entry EXCEPT ![f].attempt = job.seen, ![f].due = FALSE,
                                    ![f].skip = skip, ![f].notified = FALSE]
      PROVE  entry' \in [Forks -> EntryRec] /\ entry'[f].attempt = job.seen
  <2> DEFINE e == [entry[f] EXCEPT !.attempt = job.seen, !.due = FALSE,
                                   !.skip = skip, !.notified = FALSE]
  <2>1. e \in EntryRec /\ e.attempt = job.seen
    BY <1>1 DEF EntryRec
  <2>2. entry' = [entry EXCEPT ![f] = e]
    BY <1>1, <1>2
  <2> HIDE DEF e
  <2> QED BY <1>1, <2>1, <2>2
<1>3. ASSUME Record(f)
      PROVE  entry' \in [Forks -> EntryRec] /\ entry'[f].attempt = job.seen
  <2> DEFINE e == [attempt |-> job.seen, due |-> FALSE, skip |-> FALSE,
                   notified |-> FALSE, watch |-> Armed(f)]
  <2>1. e \in EntryRec /\ e.attempt = job.seen
    BY DEF Types, JobRec, EntryRec, WatchRec, Armed
  <2>2. entry' = [entry EXCEPT ![f] = e]
    BY <1>3 DEF Record
  <2> HIDE DEF e
  <2> QED BY <1>1, <2>1, <2>2
<1> QED
  BY <1>2, <1>3 DEF SkipNote

LEMMA TickKeepsAlert ==
  ASSUME Types, NEW g \in Forks, \A f \in Forks : AlertOK(f), Tick
  PROVE  AlertOK(g)'
<1> USE DEF world, ghosts
<1>1. ASSUME UNCHANGED <<entry, file, losses>> \/ (Saved /\ entry' = entry),
             up' = up, alerts' = alerts,
             In(g, Aiming)' => In(g, Aiming) /\ job'.seen = job.seen,
             In(g, GivenUp)' => In(g, GivenUp) /\ job'.seen = job.seen
      PROVE  AlertOK(g)'
  <2>1. Mild(g) /\ (UNCHANGED <<file, losses>> \/ Saved)
    BY <1>1 DEF Mild
  <2> QED BY <1>1, <2>1, MildKeeps
<1>2. ASSUME NEW listing \in Listings, StartTick(listing) PROVE AlertOK(g)'
  BY <1>1, <1>2 DEF StartTick, store, In, Aiming, GivenUp
<1>3. CASE BeginSweep \/ EndTick \/ SyncThrows
  BY <1>1, <1>3 DEF BeginSweep, EndTick, SyncThrows, Goto, Attempted, EndTurn, store,
                    In, Aiming, GivenUp
<1>4. CASE Exit
  <2>1. /\ file' = file /\ losses' = losses /\ entry' = file.entry
        /\ up' = up /\ alerts' = alerts /\ pc' = "idle"
    BY <1>4 DEF Exit, Reload, Stop
  <2> QED BY <2>1, ReloadKeeps
<1>5. ASSUME NEW f \in Forks,
             VerifyTurn(f) \/ ChecksRead(f) \/ Revert(f) \/ RevertRecorded(f)
      PROVE  AlertOK(g)'
  <2>1. pc' \in {"verify", "checks", "revert", "reverted"}
    BY <1>5 DEF VerifyTurn, ChecksRead, Revert, RevertRecorded, NextIn, EndTurn, Goto
  <2>2. UNCHANGED store \/ EndWatch(f)
    BY <1>5 DEF VerifyTurn, ChecksRead, Revert, RevertRecorded
  <2>3. up' = up /\ alerts' = alerts
    BY <1>5 DEF VerifyTurn, ChecksRead, Revert, RevertRecorded
  <2>4. Mild(f) /\ (UNCHANGED <<file, losses>> \/ Saved)
    BY <2>2 DEF Mild, EndWatch, store
  <2>5. ~In(g, Aiming)' /\ ~In(g, GivenUp)'
    BY <2>1 DEF In, Aiming, GivenUp
  <2> QED
    BY <2>3, <2>4, <2>5, MildKeeps
<1>6. ASSUME NEW f \in Forks, CompareFails(f) \/ CloneFails(f) \/ RecordNoPr(f)
      PROVE  AlertOK(g)'
  <2>1. pc' = "sweep" /\ up' = up /\ alerts' = alerts
    BY <1>6 DEF CompareFails, CloneFails, RecordNoPr, TriedInVain, Attempted, NextIn, EndTurn
  <2>2. Mild(f) /\ (UNCHANGED <<file, losses>> \/ Saved)
    BY <1>6 DEF CompareFails, CloneFails, RecordNoPr, TriedInVain, Mild, store
  <2>3. ~In(g, Aiming)' /\ ~In(g, GivenUp)'
    BY <2>1 DEF In, Aiming, GivenUp
  <2> QED BY <2>1, <2>2, <2>3, MildKeeps
<1>7. ASSUME NEW f \in Forks, Compare(f) PROVE AlertOK(g)'
  <2>1. Mild(f) /\ (UNCHANGED <<file, losses>> \/ Saved)
    BY <1>7 DEF Compare, Mild
  <2>2. At(f, "sweep") /\ up' = up /\ alerts' = alerts
    BY <1>7 DEF Compare, Turn
  <2>3. CASE pc' = "sweep"
    <3>1. ~In(g, Aiming)' /\ ~In(g, GivenUp)'
      BY <2>3 DEF In, Aiming, GivenUp
    <3> QED BY <2>1, <2>2, <3>1, MildKeeps
  <2>4. CASE Goto("openpr", [job EXCEPT !.seen = up[f]]) /\ Lags(f) /\ ~Handled(f)
    <3>1. CASE g # f
      <4>1. ~In(g, Aiming)' /\ ~In(g, GivenUp)'
        BY <2>2, <2>4, <3>1, NotTheirTurn DEF Goto
      <4> QED BY <2>1, <2>2, <4>1, MildKeeps
    <3>2. CASE g = f
      <4>1. job'.seen = up[f] /\ ~In(g, GivenUp)'
        BY <2>4 DEF Goto, Types, JobRec, In, GivenUp
      <4>2. entry[f].attempt < up[f]
        <5>1. entry[f].attempt <= up[f] /\ entry[f].attempt # up[f]
          BY <2>4 DEF AlertOK, Handled
        <5> QED BY <5>1, AttemptTypes
      <4>3. entry' = entry /\ file' = file /\ losses' = losses
        BY <1>7, <2>4 DEF Compare
      <4>4. up[f] \in Nat
        BY DEF Types
      <4> QED BY <2>2, <3>2, <4>1, <4>2, <4>3, <4>4 DEF AlertOK, OnRecord
    <3> QED BY <3>1, <3>2
  <2> QED BY <1>7, <2>3, <2>4 DEF Compare, NextIn, EndTurn
<1>8. ASSUME NEW f \in Forks,
             \/ CheckOpenPr(f) \/ Clone(f) \/ Push(f) \/ PushRefused(f) \/ PostPr(f)
      PROVE  AlertOK(g)'
  <2>1. up' = up /\ alerts' = alerts /\ UNCHANGED <<entry, file, losses>>
    BY <1>8 DEF CheckOpenPr, Clone, Push, PushRefused, PostPr, store
  <2>2. pc \in Aiming /\ pc' \in {"sweep"} \cup Aiming
    BY <1>8 DEF CheckOpenPr, Clone, Push, PushRefused, PostPr, Goto, NextIn, EndTurn, At,
                Aiming
  <2>3. ASSUME pc' # "sweep" PROVE job'.seen = job.seen /\ todo' = todo
    <3>1. job \in JobRec /\ Tip(f) \in Nat
      BY LastCommit DEF Types
    <3>2. CASE CheckOpenPr(f)
      BY <2>3, <3>2 DEF CheckOpenPr, Goto, NextIn, EndTurn
    <3>3. CASE Clone(f)
      BY <3>1, <3>3 DEF Clone, Goto, JobRec
    <3>4. CASE Push(f)
      <4>1. PICK head : job' = [job EXCEPT !.head = head]
        BY <3>4 DEF Push, Goto
      <4>2. todo' = todo
        BY <3>4 DEF Push, Goto
      <4> QED BY <3>1, <4>1, <4>2 DEF JobRec
    <3>5. CASE PushRefused(f) \/ PostPr(f)
      BY <3>5 DEF PushRefused, PostPr, Goto
    <3> QED BY <1>8, <3>2, <3>3, <3>4, <3>5
  <2> QED BY <1>1, <2>1, <2>2, <2>3 DEF In, Aiming, GivenUp
<1>9. ASSUME NEW f \in Forks, Resolve(f) PROVE AlertOK(g)'
  <2>1. At(f, "merged") /\ up' = up /\ alerts' = alerts
    BY <1>9 DEF Resolve
  <2>2. CASE UNCHANGED store /\ pc' = "push"
    <3>1. job'.seen = job.seen /\ todo' = todo
      BY <1>9, <2>2 DEF Resolve, Goto, Types, JobRec
    <3> QED BY <1>1, <2>1, <2>2, <3>1 DEF store, In, At, Aiming, GivenUp
  <2>3. CASE SkipNote(f) /\ Saved /\ Goto("skipped", job)
    <3>1. /\ entry' \in [Forks -> EntryRec] /\ entry'[f].attempt = job.seen
          /\ entry' = [entry EXCEPT ![f] = entry'[f]]
      BY <2>3, NotedTypes DEF SkipNote, Types
    <3>2. Tried(f)
      BY <2>1, <2>3, <3>1 DEF Tried, In, At, Goto, Aiming
    <3> QED BY <3>2, TriedKeeps
  <2> QED BY <1>9, <2>2, <2>3 DEF Resolve, Goto
<1>10. ASSUME NEW f \in Forks, Record(f) \/ PushFails(f) \/ RecordPr(f) PROVE AlertOK(g)'
  <2>1. In(f, Aiming) /\ pc' = "sweep" /\ up' = up /\ alerts' = alerts /\ Saved
    BY <1>10 DEF Record, PushFails, RecordPr, At, In, Aiming, Attempted, EndTurn
  <2>2. entry' \in [Forks -> EntryRec] /\ entry'[f].attempt = job.seen
    BY <1>10, NotedTypes DEF PushFails, RecordPr
  <2>3. entry' = [entry EXCEPT ![f] = entry'[f]]
    BY <1>10 DEF Record, PushFails, RecordPr, SkipNote, Types
  <2>4. Tried(f)
    BY <2>1, <2>2, <2>3 DEF Tried
  <2> QED BY <2>4, TriedKeeps
<1>11. ASSUME NEW f \in Forks, MarkNotified(f) PROVE AlertOK(g)'
  <2>1. /\ pc = "skipped" /\ pc' = "alert" /\ todo' = todo /\ job' = job
        /\ up' = up /\ alerts' = alerts
    BY <1>11 DEF MarkNotified, At, Goto
  <2>2. Mild(f) /\ Saved
    BY <1>11 DEF MarkNotified, Mild
  <2>3. /\ In(g, Aiming)' => In(g, Aiming) /\ job'.seen = job.seen
        /\ In(g, GivenUp)' => In(g, GivenUp) /\ job'.seen = job.seen
    BY <2>1 DEF In, Aiming, GivenUp
  <2> QED BY <2>1, <2>2, <2>3, MildKeeps
<1>12. ASSUME NEW f \in Forks, PostAlert(f) PROVE AlertOK(g)'
  <2>1. At(f, "alert") /\ pc' = "sweep" /\ up' = up /\ UNCHANGED <<entry, file, losses>>
    BY <1>12 DEF PostAlert, Attempted, EndTurn, store
  <2>2. ~In(g, Aiming)' /\ ~In(g, GivenUp)'
    BY <2>1 DEF In, Aiming, GivenUp
  <2>3. CASE g # f
    <3>1. alerts'[g] = alerts[g]
      BY <1>12, <2>3 DEF PostAlert, Types
    <3> QED BY <2>1, <2>2, <3>1 DEF AlertOK, OnRecord
  <2>4. CASE g = f
    <3>1. /\ job.seen = entry[f].attempt
          /\ job.seen \in 1..MaxUpstream =>
               \/ alerts[f][job.seen] < losses
               \/ alerts[f][job.seen] <= losses /\ job.seen <= file.entry[f].attempt
      BY <2>1 DEF AlertOK, At, In, GivenUp
    <3>2. /\ job.seen \in Nat /\ losses \in Nat /\ entry[f].attempt \in Nat
          /\ file.entry[f].attempt \in Nat
          /\ \A u \in 1..MaxUpstream : alerts[f][u] \in Nat
      BY AttemptTypes
    <3>3. ASSUME NEW u \in 1..MaxUpstream
          PROVE  \/ alerts'[f][u] <= losses
                 \/ alerts'[f][u] <= losses + 1 /\ OnRecord(f, u)
      <4>1. alerts \in [Forks -> [1..MaxUpstream -> Nat]]
        BY DEF Types
      <4>2. CASE u # job.seen
        <5>1. alerts'[f][u] = alerts[f][u]
          BY <1>12, <4>1, <4>2 DEF PostAlert
        <5> QED BY <5>1 DEF AlertOK
      <4>3. CASE u = job.seen
        <5>1. alerts'[f][u] \in {alerts[f][u], alerts[f][u] + 1}
          BY <1>12, <4>1, <4>3 DEF PostAlert
        <5>2. alerts[f][u] \in Nat
          BY <3>2
        <5> QED BY <3>1, <3>2, <4>3, <5>1, <5>2 DEF OnRecord
      <4> QED BY <4>2, <4>3
    <3> QED BY <2>1, <2>2, <2>4, <3>3 DEF AlertOK, OnRecord
  <2> QED BY <2>3, <2>4
<1> QED
  BY <1>2, <1>3, <1>4, <1>5, <1>6, <1>7, <1>8, <1>9, <1>10, <1>11, <1>12 DEF Tick

\* What the clock does to both copies of the state.
LEMMA ClockTypes ==
  ASSUME NEW e \in [Forks -> EntryRec], NEW f \in Forks
  PROVE  /\ Rested(e, f) \in [Forks -> EntryRec] /\ Aged(e, f) \in [Forks -> EntryRec]
         /\ \A g \in Forks : /\ Rested(e, f)[g].attempt = e[g].attempt
                             /\ Aged(e, f)[g].attempt = e[g].attempt
<1>1. e[f] \in EntryRec /\ e[f].watch \in WatchRec
  BY DEF EntryRec
<1>2. Older(e[f].watch) \in WatchRec
  BY <1>1 DEF Older, WatchRec
<1>3. /\ [e[f] EXCEPT !.due = TRUE] \in EntryRec
      /\ [e[f] EXCEPT !.due = TRUE].attempt = e[f].attempt
  BY <1>1 DEF EntryRec
<1>4. ASSUME NEW w \in WatchRec
      PROVE  /\ [e[f] EXCEPT !.watch = w] \in EntryRec
             /\ [e[f] EXCEPT !.watch = w].attempt = e[f].attempt
  BY <1>1 DEF EntryRec
<1>5. /\ Rested(e, f) = [e EXCEPT ![f] = [e[f] EXCEPT !.due = TRUE]]
      /\ Aged(e, f) = [e EXCEPT ![f] = [e[f] EXCEPT !.watch = Older(e[f].watch)]]
  BY DEF Rested, Aged
<1>6. ASSUME NEW x \in EntryRec, x.attempt = e[f].attempt
      PROVE  /\ [e EXCEPT ![f] = x] \in [Forks -> EntryRec]
             /\ \A g \in Forks : [e EXCEPT ![f] = x][g].attempt = e[g].attempt
  BY <1>6
<1> QED
  BY <1>2, <1>3, <1>4, <1>5, <1>6

LEMMA ClockParts ==
  ASSUME Types, NEW f \in Forks, IntervalPasses(f) \/ WatchAges(f)
  PROVE  /\ entry' \in [Forks -> EntryRec] /\ file'.entry \in [Forks -> EntryRec]
         /\ file' = [entry |-> file'.entry, order |-> file'.order]
         /\ \A g \in Forks : /\ entry'[g].attempt = entry[g].attempt
                             /\ file'.entry[g].attempt = file.entry[g].attempt
<1>1. PICK e \in {Rested(file.entry, f), Aged(file.entry, f)} : file' = [file EXCEPT !.entry = e]
  BY DEF IntervalPasses, WatchAges
<1>2. file'.entry = e /\ file' = [entry |-> file'.entry, order |-> file'.order]
  <2>1. file = [entry |-> file.entry, order |-> file.order]
    BY DEF Types
  <2> QED BY <1>1, <2>1
<1>3. entry' \in {Rested(entry, f), Aged(entry, f)}
  BY DEF IntervalPasses, WatchAges
<1>4. entry \in [Forks -> EntryRec] /\ file.entry \in [Forks -> EntryRec]
  BY DEF Types
<1>5. /\ e \in [Forks -> EntryRec]
      /\ \A g \in Forks : e[g].attempt = file.entry[g].attempt
  <2>1. PICK now : now = file.entry /\ now \in [Forks -> EntryRec]
    BY <1>4
  <2>2. /\ Rested(now, f) \in [Forks -> EntryRec] /\ Aged(now, f) \in [Forks -> EntryRec]
        /\ \A g \in Forks : /\ Rested(now, f)[g].attempt = now[g].attempt
                            /\ Aged(now, f)[g].attempt = now[g].attempt
    BY <2>1, ClockTypes
  <2> QED BY <2>1, <2>2
<1>6. /\ entry' \in [Forks -> EntryRec]
      /\ \A g \in Forks : entry'[g].attempt = entry[g].attempt
  BY <1>3, <1>4, ClockTypes
<1>7. \A g \in Forks : file'.entry[g].attempt = file.entry[g].attempt
  BY <1>2, <1>5
<1> QED
  BY <1>2, <1>5, <1>6, <1>7

LEMMA OthersKeepAlert ==
  ASSUME Types, NEW g \in Forks, AlertOK(g), Kill \/ World
  PROVE  AlertOK(g)'
<1>1. CASE Kill
  <2>1. /\ entry' = file'.entry
        /\ \/ file' = file /\ losses' = losses
           \/ file' \in {file, Forgotten} /\ losses' = losses + 1
        /\ up' = up /\ alerts' = alerts /\ pc' = "idle"
    BY <1>1 DEF Kill, Reload, Stop, world
  <2> QED BY <2>1, ReloadKeeps
<1>2. CASE World
  <2>1. UNCHANGED tick /\ alerts' = alerts /\ losses' = losses
    BY <1>2 DEF World, Idly, ghosts
  <2>2. PICK f \in Forks :
          \/ UpstreamMoves(f) \/ OthersPush(f) \/ CiMoves(f)
          \/ IntervalPasses(f) \/ WatchAges(f)
          \/ \E u \in prs[f] : ClosePr(f, u)
    BY <1>2 DEF World
  <2>3. up'[g] \in Nat /\ up[g] <= up'[g]
    <3>1. up' = up \/ UpstreamMoves(f)
      BY <2>2 DEF OthersPush, CiMoves, IntervalPasses, WatchAges, ClosePr
    <3>2. up' = up \/ up' = [up EXCEPT ![f] = @ + 1]
      BY <3>1 DEF UpstreamMoves
    <3>3. up \in [Forks -> Nat] /\ up[f] + 1 \in Nat
      BY DEF Types
    <3> QED BY <3>2, <3>3
  <2>4. /\ entry'[g].attempt = entry[g].attempt
        /\ file'.entry[g].attempt = file.entry[g].attempt
    <3>1. CASE UpstreamMoves(f) \/ OthersPush(f) \/ CiMoves(f)
      BY <3>1 DEF UpstreamMoves, OthersPush, CiMoves
    <3>2. CASE IntervalPasses(f) \/ WatchAges(f)
      BY <3>2, ClockParts
    <3>3. ASSUME NEW u \in prs[f], ClosePr(f, u)
          PROVE  entry' = entry /\ file' = file
      BY <3>3 DEF ClosePr
    <3> QED BY <2>2, <3>1, <3>2, <3>3
  <2>5. Logged(g)
    BY <2>1, <2>4, AttemptTypes DEF Logged, OnRecord, AlertOK
  <2>6. AlertQuiet(g)
    BY <2>1, <2>3, <2>4, <2>5 DEF AlertQuiet, In, tick
  <2> QED BY <2>6, AlertQuietKeeps
<1> QED
  BY <1>1, <1>2

----------------------------------------------------------------------------
(* The sync PRs, step by step.                                                *)

LEMMA FewerPrs ==
  ASSUME NEW S, NEW T, IsFiniteSet(S), Cardinality(S) <= 1, T \subseteq S
  PROVE  IsFiniteSet(T) /\ Cardinality(T) <= 1
<1>1. /\ IsFiniteSet(T) /\ Cardinality(T) <= Cardinality(S)
  BY FS_Subset
<1>2. Cardinality(T) \in Nat /\ Cardinality(S) \in Nat
  BY <1>1, FS_CardinalityType
<1> QED
  BY <1>1, <1>2

LEMMA FirstPr ==
  ASSUME NEW x, NEW T, T \subseteq {x}
  PROVE  IsFiniteSet(T) /\ Cardinality(T) <= 1
<1>1. IsFiniteSet({x}) /\ Cardinality({x}) = 1
  BY FS_Singleton
<1>2. Cardinality({x}) <= 1
  BY <1>1
<1> QED
  BY <1>1, <1>2, FewerPrs

\* No PR is opened, and the tick moves on to an attempt only from one.
PrQuiet(f) ==
  /\ prs'[f] \subseteq prs[f]
  /\ twins \subseteq twins'
  /\ In(f, Landing)' => In(f, Landing)

LEMMA PrQuietKeeps ==
  ASSUME NEW f, PrOK(f), PrQuiet(f)
  PROVE  PrOK(f)'
<1> SUFFICES ASSUME f \notin twins'
             PROVE  /\ IsFiniteSet(prs'[f]) /\ Cardinality(prs'[f]) <= 1
                    /\ In(f, Landing)' => prs'[f] = {}
  BY DEF PrOK
<1>1. f \notin twins
  BY DEF PrQuiet
<1>2. IsFiniteSet(prs[f]) /\ Cardinality(prs[f]) <= 1
  BY <1>1 DEF PrOK
<1>3. In(f, Landing) => prs[f] = {}
  BY <1>1 DEF PrOK
<1>4. prs'[f] \subseteq prs[f]
  BY DEF PrQuiet
<1>5. IsFiniteSet(prs'[f]) /\ Cardinality(prs'[f]) <= 1
  BY <1>2, <1>4, FewerPrs
<1> QED
  BY <1>3, <1>4, <1>5 DEF PrQuiet

LEMMA StepKeepsPr ==
  ASSUME Types, NEW g \in Forks, PrOK(g), Next
  PROVE  PrOK(g)'
<1>1. ASSUME prs' = prs, twins' = twins, pc' \notin Landing PROVE PrOK(g)'
  BY <1>1, PrQuietKeeps DEF PrQuiet, In
<1>2. ASSUME NEW listing \in Listings, StartTick(listing) PROVE PrOK(g)'
  BY <1>1, <1>2 DEF StartTick, Landing, world, ghosts
<1>3. CASE BeginSweep \/ EndTick \/ Exit
  BY <1>1, <1>3 DEF BeginSweep, EndTick, Exit, Goto, Stop, Landing, world, ghosts
<1>4. CASE SyncThrows
  BY <1>1, <1>4 DEF SyncThrows, Attempted, EndTurn, Landing, world
<1>5. ASSUME NEW f \in Forks,
             VerifyTurn(f) \/ ChecksRead(f) \/ Revert(f) \/ RevertRecorded(f)
      PROVE  PrOK(g)'
  <2>1. pc' \in {"verify", "checks", "revert", "reverted"}
    BY <1>5 DEF VerifyTurn, ChecksRead, Revert, RevertRecorded, NextIn, EndTurn, Goto
  <2>2. prs' = prs /\ twins' = twins
    BY <1>5 DEF VerifyTurn, ChecksRead, Revert, RevertRecorded, world, ghosts
  <2> QED BY <1>1, <2>1, <2>2 DEF Landing
<1>6. ASSUME NEW f \in Forks, CompareFails(f) \/ Compare(f) PROVE PrOK(g)'
  BY <1>1, <1>6 DEF CompareFails, Compare, NextIn, EndTurn, Goto, Landing, world, ghosts
<1>7. ASSUME NEW f \in Forks, CheckOpenPr(f) PROVE PrOK(g)'
  <2>1. /\ At(f, "openpr") /\ prs' = prs
        /\ twins' = twins \/ twins' = twins \cup {f}
    BY <1>7 DEF CheckOpenPr, world
  <2>2. CASE pc' = "sweep"
    <3>1. PrQuiet(g)
      BY <2>1, <2>2 DEF PrQuiet, In, Landing
    <3> QED BY <3>1, PrQuietKeeps
  <2>3. CASE todo' = todo /\ (prs[f] = {} \/ f \in twins')
    <3>1. CASE g # f
      <4>1. PrQuiet(g)
        BY <2>1, <2>3, <3>1, NotTheirTurn DEF PrQuiet
      <4> QED BY <4>1, PrQuietKeeps
    <3>2. CASE g = f
      BY <2>1, <2>3, <3>2 DEF PrOK
    <3> QED BY <3>1, <3>2
  <2> QED BY <1>7, <2>2, <2>3 DEF CheckOpenPr, SyncPrOpen, NextIn, EndTurn, Goto
<1>8. ASSUME NEW f \in Forks,
             \/ CloneFails(f) \/ Record(f) \/ PushFails(f) \/ PostAlert(f)
             \/ RecordPr(f) \/ RecordNoPr(f)
      PROVE  PrOK(g)'
  <2>1. prs' = prs /\ twins' = twins /\ pc' = "sweep"
    BY <1>8 DEF CloneFails, Record, PushFails, PostAlert, RecordPr, RecordNoPr,
                TriedInVain, Attempted, EndTurn, world, ghosts
  <2> QED BY <1>1, <2>1 DEF Landing
<1>9. ASSUME NEW f \in Forks,
             Clone(f) \/ Resolve(f) \/ Push(f) \/ PushRefused(f) \/ MarkNotified(f)
      PROVE  PrOK(g)'
  <2>1. prs' = prs /\ twins' = twins /\ todo' = todo
    BY <1>9 DEF Clone, Resolve, Push, PushRefused, MarkNotified, Goto, world, ghosts
  <2>2. pc' \in Landing => pc \in Landing
    BY <1>9 DEF Clone, Resolve, Push, PushRefused, MarkNotified, Goto, At, Landing
  <2>3. PrQuiet(g)
    BY <2>1, <2>2 DEF PrQuiet, In
  <2> QED BY <2>3, PrQuietKeeps
<1>10. ASSUME NEW f \in Forks, PostPr(f) PROVE PrOK(g)'
  <2>1. /\ At(f, "post") /\ pc' \in {"opened", "unopened"} /\ twins' = twins
        /\ prs' = prs \/ prs' = [prs EXCEPT ![f] = @ \cup {job.got}]
    BY <1>10 DEF PostPr, Posted, Goto, ghosts
  <2>2. ~In(g, Landing)'
    BY <2>1 DEF In, Landing
  <2>3. CASE prs'[g] = prs[g]
    BY <2>1, <2>2, <2>3 DEF PrOK
  <2>4. CASE g = f /\ prs'[g] = prs[g] \cup {job.got}
    <3>1. g \notin twins => prs[g] = {}
      BY <2>1, <2>4 DEF PrOK, At, In, Landing
    <3>2. g \notin twins => IsFiniteSet(prs'[g]) /\ Cardinality(prs'[g]) <= 1
      BY <2>4, <3>1, FirstPr
    <3> QED BY <2>1, <2>2, <3>2 DEF PrOK
  <2> QED BY <2>1, <2>3, <2>4 DEF Types
<1>11. CASE Kill
  BY <1>1, <1>11 DEF Kill, Stop, Landing, world
<1>12. CASE World
  <2>1. UNCHANGED tick /\ twins' = twins
    BY <1>12 DEF World, Idly, ghosts
  <2>2. prs'[g] \subseteq prs[g]
    <3>1. PICK f \in Forks :
            \/ UpstreamMoves(f) \/ OthersPush(f) \/ CiMoves(f)
            \/ IntervalPasses(f) \/ WatchAges(f)
            \/ \E u \in prs[f] : ClosePr(f, u)
      BY <1>12 DEF World
    <3>2. prs' = prs \/ \E u \in prs[f] : prs' = [prs EXCEPT ![f] = @ \ {u}]
      BY <3>1 DEF UpstreamMoves, OthersPush, CiMoves, IntervalPasses, WatchAges, ClosePr
    <3> QED BY <3>2 DEF Types
  <2>3. PrQuiet(g)
    BY <2>1, <2>2 DEF PrQuiet, In, tick
  <2> QED BY <2>3, PrQuietKeeps
<1> QED
  BY <1>2, <1>3, <1>4, <1>5, <1>6, <1>7, <1>8, <1>9, <1>10, <1>11, <1>12 DEF Next, Tick

----------------------------------------------------------------------------
(* The types, step by step.                                                   *)

----------------------------------------------------------------------------
(* The types, step by step.                                                   *)

LEMMA JobTypes ==
  ASSUME Types
  PROVE  /\ NoJob \in JobRec
         /\ \A n \in Nat : [job EXCEPT !.seen = n] \in JobRec
         /\ \A n \in Nat : [job EXCEPT !.got = n] \in JobRec
         /\ \A n \in Nat : [job EXCEPT !.head = n] \in JobRec
         /\ \A m, n \in Nat : [job EXCEPT !.base = m, !.got = n] \in JobRec
<1>1. job \in JobRec
  BY DEF Types
<1>2. NoJob \in JobRec
  BY DEF JobRec, NoJob
<1>3. ASSUME NEW n \in Nat
      PROVE  /\ [job EXCEPT !.seen = n] \in JobRec
             /\ [job EXCEPT !.got = n] \in JobRec
             /\ [job EXCEPT !.head = n] \in JobRec
  BY <1>1 DEF JobRec
<1>4. ASSUME NEW m \in Nat, NEW n \in Nat
      PROVE  [job EXCEPT !.base = m, !.got = n] \in JobRec
  BY <1>1 DEF JobRec
<1> QED
  BY <1>2, <1>3, <1>4

\* What is stored has its types when the entries of the tick have theirs.
Stored ==
  \/ UNCHANGED store
  \/ /\ entry' \in [Forks -> EntryRec]
     /\ file' = [entry |-> file'.entry, order |-> file'.order]
     /\ file'.entry \in [Forks -> EntryRec]
     /\ losses' \in Nat

LEMMA SavedStored ==
  ASSUME Types, entry' \in [Forks -> EntryRec], Saved
  PROVE  Stored
BY SavedFile DEF Stored

LEMMA MildStored ==
  ASSUME Types, NEW f \in Forks, Mild(f), Saved
  PROVE  Stored
<1>1. entry' \in [Forks -> EntryRec]
  BY MildSparesAttempts
<1> QED
  BY <1>1, SavedStored

\* The parts of Types that a step leaves alone need no further proof.
LEMMA TypesParts ==
  ASSUME Types, Stored,
         up' = up \/ up' \in [Forks -> Nat],
         line' = line \/ line' \in [Forks -> Seq(Commit)],
         pushes' = pushes \/ pushes' \in [Forks -> Nat],
         prs' = prs \/ prs' \in [Forks -> SUBSET Nat],
         job' = job \/ job' = NoJob \/ job' \in JobRec,
         letGo' = letGo \/ letGo' \in [Forks -> SUBSET Nat],
         alerts' = alerts \/ alerts' \in [Forks -> [1..MaxUpstream -> Nat]]
  PROVE  Types'
<1>1. NoJob \in JobRec
  BY DEF NoJob, JobRec
<1>2. /\ entry' \in [Forks -> EntryRec]
      /\ file' = [entry |-> file'.entry, order |-> file'.order]
      /\ file'.entry \in [Forks -> EntryRec]
      /\ losses' \in Nat
  BY DEF Types, Stored, store
<1> QED
  BY <1>1, <1>2 DEF Types

LEMMA TickKeepsTypes ==
  ASSUME Types, \A f \in Forks : Branch(f), Tick
  PROVE  Types'
<1> USE DEF world, ghosts
<1>1. ASSUME NEW listing \in Listings, StartTick(listing) PROVE Types'
  BY <1>1, TypesParts DEF StartTick, Stored
<1>2. CASE BeginSweep
  BY <1>2, TypesParts DEF BeginSweep, Stored
<1>3. CASE SyncThrows
  BY <1>3, TypesParts DEF SyncThrows, Attempted, EndTurn, Stored
<1>17. CASE EndTick
  <2>1. Stored
    BY <1>17, SavedStored DEF EndTick, Types
  <2> QED BY <1>17, <2>1, TypesParts DEF EndTick, Goto
<1>18. CASE Exit
  <2>1. Stored
    BY <1>18 DEF Exit, Reload, Types, Stored
  <2>2. \A f \in Forks : Unsaved(f, file) \in SUBSET Nat
    BY WatchTypes DEF Unsaved, WatchRec
  <2>3. letGo' \in [Forks -> SUBSET Nat]
    BY <1>18, <2>2 DEF Exit, Types
  <2> QED BY <1>18, <2>1, <2>3, TypesParts DEF Exit, Stop
<1>4. ASSUME NEW f \in Forks, VerifyTurn(f) PROVE Types'
  <2>1. letGo' \in [Forks -> SUBSET Nat]
    BY <1>4, LetGoGrows DEF VerifyTurn
  <2>2. Stored
    BY <1>4, MildStored DEF VerifyTurn, EndWatch, Mild, Stored
  <2>3. job' = NoJob \/ job' = [job EXCEPT !.seen = Tip(f)]
    BY <1>4 DEF VerifyTurn, NextIn, EndTurn, Goto
  <2>4. job' \in JobRec
    <3>1. [job EXCEPT !.seen = Tip(f)] \in JobRec
      BY LastCommit, JobTypes
    <3> QED BY <2>3, <3>1, JobTypes
  <2> QED BY <1>4, <2>1, <2>2, <2>4, TypesParts DEF VerifyTurn
<1>5. ASSUME NEW f \in Forks, ChecksRead(f) PROVE Types'
  <2>1. letGo' \in [Forks -> SUBSET Nat]
    BY <1>5, LetGoGrows DEF ChecksRead
  <2>2. Stored
    BY <1>5, MildStored DEF ChecksRead, EndWatch, Mild, Stored
  <2>3. job' \in {job, NoJob}
    BY <1>5 DEF ChecksRead, NextIn, EndTurn, Goto
  <2> QED BY <1>5, <2>1, <2>2, <2>3, TypesParts DEF ChecksRead
<1>6. ASSUME NEW f \in Forks, Revert(f) PROVE Types'
  <2>1. letGo' \in [Forks -> SUBSET Nat]
    BY <1>6, LetGoGrows DEF Revert
  <2>2. Upto(line[f], entry[f].watch.pre) \in Seq(Commit)
    BY UptoPrefix, WatchTypes DEF Types, WatchRec, Branch, LineOK
  <2>3. line' = line \/ line' \in [Forks -> Seq(Commit)]
    BY <1>6, <2>2 DEF Revert, Types
  <2> QED BY <1>6, <2>1, <2>3, TypesParts DEF Revert, Goto, Stored
<1>7. ASSUME NEW f \in Forks, RevertRecorded(f) PROVE Types'
  <2>1. Stored
    BY <1>7, MildStored DEF RevertRecorded, EndWatch, Mild
  <2> QED BY <1>7, <2>1, TypesParts DEF RevertRecorded, NextIn, EndTurn
<1>8. ASSUME NEW f \in Forks,
             \/ CompareFails(f) \/ CheckOpenPr(f) \/ CloneFails(f) \/ MarkNotified(f)
             \/ PushRefused(f) \/ RecordNoPr(f)
      PROVE  Types'
  <2>1. Stored
    BY <1>8, MildStored DEF CompareFails, CheckOpenPr, CloneFails, MarkNotified, PushRefused,
                            RecordNoPr, TriedInVain, Mild, Stored
  <2>2. job' \in {job, NoJob}
    BY <1>8 DEF CompareFails, CheckOpenPr, CloneFails, MarkNotified, PushRefused, RecordNoPr,
                TriedInVain, NextIn, Attempted, EndTurn, Goto
  <2> QED BY <1>8, <2>1, <2>2, TypesParts DEF CompareFails, CheckOpenPr, CloneFails,
                                          MarkNotified, PushRefused, RecordNoPr, TriedInVain
<1>9. ASSUME NEW f \in Forks, Compare(f) PROVE Types'
  <2>1. Stored
    <3>1. CASE UNCHANGED <<entry, file, losses>>
      BY <1>9, <3>1 DEF Compare, Stored, store
    <3>2. CASE Mild(f) /\ Saved
      BY <3>2, MildStored
    <3> QED BY <1>9, <3>1, <3>2 DEF Compare, Mild
  <2>2. job' = NoJob \/ job' = [job EXCEPT !.seen = up[f]]
    BY <1>9 DEF Compare, NextIn, EndTurn, Goto
  <2>3. job' \in JobRec
    <3>1. up[f] \in Nat
      BY DEF Types
    <3>2. [job EXCEPT !.seen = up[f]] \in JobRec
      BY <3>1, JobTypes
    <3> QED BY <2>2, <3>2, JobTypes
  <2> QED BY <1>9, <2>1, <2>3, TypesParts DEF Compare
<1>10. ASSUME NEW f \in Forks, Clone(f) PROVE Types'
  <2>1. job' = [job EXCEPT !.base = Tip(f), !.got = up[f]]
    BY <1>10 DEF Clone, Goto
  <2>2. job' \in JobRec
    BY <2>1, LastCommit, JobTypes DEF Types
  <2> QED BY <1>10, <2>2, TypesParts DEF Clone, Stored
<1>11. ASSUME NEW f \in Forks, Resolve(f) PROVE Types'
  <2>1. Stored
    BY <1>11, NotedTypes, SavedStored DEF Resolve, Stored
  <2>2. job' = job \/ job' = [job EXCEPT !.got = 0]
    BY <1>11 DEF Resolve, Goto
  <2>3. job' \in JobRec
    BY <2>2, JobTypes DEF Types
  <2> QED BY <1>11, <2>1, <2>3, TypesParts DEF Resolve
<1>12. ASSUME NEW f \in Forks, Push(f) PROVE Types'
  <2>1. job.base \in Nat /\ pushes[f] + 1 \in Nat
    BY DEF Types, JobRec
  <2>2. job' = [job EXCEPT !.head = job.base] \/ job' = [job EXCEPT !.head = pushes[f] + 1]
    BY <1>12 DEF Push, Goto
  <2>3. job' \in JobRec
    <3>1. /\ [job EXCEPT !.head = job.base] \in JobRec
          /\ [job EXCEPT !.head = pushes[f] + 1] \in JobRec
      BY <2>1, JobTypes
    <3> QED BY <2>2, <3>1
  <2>4. pushes' = pushes \/ pushes' \in [Forks -> Nat]
    <3>1. pushes' = pushes \/ pushes' = [pushes EXCEPT ![f] = pushes[f] + 1]
      BY <1>12 DEF Push
    <3> QED BY <2>1, <3>1 DEF Types
  <2>5. line' = line \/ line' \in [Forks -> Seq(Commit)]
    <3>1. CASE line' = line
      BY <3>1
    <3>2. CASE line' # line
      <4> DEFINE c == [n |-> pushes[f] + 1, by |-> "sync", up |-> job.got, ci |-> "none"]
      <4>1. line' = [line EXCEPT ![f] = Append(@, c)]
        BY <1>12, <3>2 DEF Push
      <4>2. c \in Commit
        BY <2>1 DEF Commit, Types, JobRec
      <4> HIDE DEF c
      <4> QED BY <4>1, <4>2, AppendCommit DEF Types
    <3> QED BY <3>1, <3>2
  <2> QED BY <1>12, <2>3, <2>4, <2>5, TypesParts DEF Push, Stored
<1>13. ASSUME NEW f \in Forks, Record(f) PROVE Types'
  <2>1. Stored
    BY <1>13, NotedTypes, SavedStored DEF Record
  <2>2. letGo' \in [Forks -> SUBSET Nat]
    BY <1>13, LetGoGrows DEF Record
  <2> QED BY <1>13, <2>1, <2>2, TypesParts DEF Record, Attempted, EndTurn
<1>14. ASSUME NEW f \in Forks, PushFails(f) \/ RecordPr(f) PROVE Types'
  <2>1. Stored
    BY <1>14, NotedTypes, SavedStored DEF PushFails, RecordPr
  <2> QED BY <1>14, <2>1, TypesParts DEF PushFails, RecordPr, Attempted, EndTurn
<1>15. ASSUME NEW f \in Forks, PostPr(f) PROVE Types'
  <2>1. prs' = prs \/ prs' = [prs EXCEPT ![f] = @ \cup {job.got}]
    BY <1>15 DEF PostPr, Posted
  <2>2. prs' = prs \/ prs' \in [Forks -> SUBSET Nat]
    <3>1. prs \in [Forks -> SUBSET Nat] /\ prs[f] \cup {job.got} \in SUBSET Nat
      BY DEF Types, JobRec
    <3> QED BY <2>1, <3>1
  <2> QED BY <1>15, <2>2, TypesParts DEF PostPr, Goto, Stored
<1>16. ASSUME NEW f \in Forks, PostAlert(f) PROVE Types'
  <2>1. alerts' \in [Forks -> [1..MaxUpstream -> Nat]]
    <3>1. alerts \in [Forks -> [1..MaxUpstream -> Nat]]
      BY DEF Types
    <3>2. alerts' = [alerts EXCEPT ![f] = alerts'[f]]
      BY <1>16, <3>1 DEF PostAlert
    <3>3. alerts'[f] = [alerts[f] EXCEPT ![job.seen] = IF @ < MaxAlerts THEN @ + 1 ELSE @]
      BY <1>16, <3>1 DEF PostAlert
    <3>4. alerts'[f] \in [1..MaxUpstream -> Nat]
      <4>1. PICK a : /\ alerts'[f] = [alerts[f] EXCEPT ![job.seen] = a]
                     /\ a \in {alerts[f][job.seen], alerts[f][job.seen] + 1}
        BY <3>3
      <4>2. ASSUME job.seen \in 1..MaxUpstream PROVE a \in Nat
        <5>1. alerts[f][job.seen] \in Nat
          BY <3>1, <4>2
        <5> QED BY <4>1, <5>1
      <4> QED BY <3>1, <4>1, <4>2
    <3> QED BY <3>1, <3>2, <3>4
  <2> QED BY <1>16, <2>1, TypesParts DEF PostAlert, Attempted, EndTurn, Stored
<1> QED
  BY <1>1, <1>2, <1>3, <1>4, <1>5, <1>6, <1>7, <1>8, <1>9, <1>10, <1>11, <1>12, <1>13,
     <1>14, <1>15, <1>16, <1>17, <1>18 DEF Tick

LEMMA OthersKeepTypes ==
  ASSUME Types, \A f \in Forks : Branch(f), Kill \/ World
  PROVE  Types'
<1>1. CASE Kill
  <2>1. /\ file' = [entry |-> file'.entry, order |-> file'.order]
        /\ file'.entry \in [Forks -> EntryRec] /\ losses' \in Nat
    <3>1. CASE UNCHANGED <<file, losses>>
      BY <3>1 DEF Types
    <3>2. CASE file' = Forgotten /\ losses' = losses + 1
      <4>1. NewEntry \in EntryRec
        BY DEF NewEntry, NoWatch, EntryRec, WatchRec
      <4>2. /\ Forgotten.entry = [f \in Forks |-> NewEntry]
            /\ Forgotten = [entry |-> Forgotten.entry, order |-> Forgotten.order]
        BY DEF Forgotten
      <4>3. losses' \in Nat
        BY <3>2 DEF Types
      <4> QED BY <3>2, <4>1, <4>2, <4>3
    <3> QED BY <1>1, <3>1, <3>2 DEF Kill
  <2>2. entry' = file'.entry
    BY <1>1 DEF Kill, Reload
  <2>3. Stored
    BY <2>1, <2>2 DEF Stored
  <2>4. \A f \in Forks : Unsaved(f, file') \in SUBSET Nat
    BY WatchTypes DEF Unsaved, WatchRec
  <2>5. letGo' \in [Forks -> SUBSET Nat]
    <3>1. job.head \in Nat /\ letGo \in [Forks -> SUBSET Nat]
      BY DEF Types, JobRec
    <3>2. \A f \in Forks :
            letGo[f] \cup Unsaved(f, file')
              \cup {n \in {job.head} : At(f, "record") /\ job.got # 0} \in SUBSET Nat
      BY <2>4, <3>1
    <3> QED BY <1>1, <3>2 DEF Kill
  <2> QED BY <1>1, <2>3, <2>5, TypesParts DEF Kill, Stop, world
<1>2. CASE World
  <2>1. job' = job /\ letGo' = letGo /\ alerts' = alerts /\ losses' = losses /\ order' = order
    BY <1>2 DEF World, Idly, tick, ghosts
  <2>2. PICK f \in Forks :
          \/ UpstreamMoves(f) \/ OthersPush(f) \/ CiMoves(f)
          \/ IntervalPasses(f) \/ WatchAges(f)
          \/ \E u \in prs[f] : ClosePr(f, u)
    BY <1>2 DEF World
  <2>10. entry' = entry /\ file' = file => Stored
    BY <2>1 DEF Stored, store
  <2>3. CASE UpstreamMoves(f)
    <3>1. up' \in [Forks -> Nat]
      BY <2>3 DEF UpstreamMoves, Types
    <3> QED BY <2>1, <2>10, <2>3, <3>1, TypesParts DEF UpstreamMoves
  <2>4. ASSUME NEW u \in Nat, PushOther(f, u)
        PROVE  line' \in [Forks -> Seq(Commit)] /\ pushes' \in [Forks -> Nat]
    <3> DEFINE c == [n |-> pushes[f] + 1, by |-> "other", up |-> u, ci |-> "none"]
    <3>1. line' = [line EXCEPT ![f] = Append(@, c)] /\ pushes' = [pushes EXCEPT ![f] = @ + 1]
      BY <2>4 DEF PushOther
    <3>2. c \in Commit
      BY DEF Commit, Types
    <3> HIDE DEF c
    <3> QED BY <3>1, <3>2, AppendCommit DEF Types
  <2>5. CASE OthersPush(f)
    BY <2>1, <2>10, <2>4, <2>5, LastCommit, TypesParts DEF OthersPush
  <2>6. ASSUME NEW u \in prs[f], ClosePr(f, u) PROVE Types'
    <3>1. prs' \in [Forks -> SUBSET Nat] /\ u \in Nat
      BY <2>6 DEF ClosePr, Types
    <3> QED BY <2>1, <2>10, <2>4, <2>6, <3>1, TypesParts DEF ClosePr
  <2>7. CASE IntervalPasses(f) \/ WatchAges(f)
    <3>1. Stored
      BY <2>1, <2>7, ClockParts DEF Stored, Types
    <3> QED BY <2>1, <2>7, <3>1, TypesParts DEF IntervalPasses, WatchAges
  <2>9. CASE CiMoves(f)
    <3>1. PICK i \in DOMAIN line[f], ci \in {"running", "green", "red"} :
            line' = [line EXCEPT ![f][i].ci = ci]
      BY <2>9 DEF CiMoves
    <3> DEFINE c == [line[f][i] EXCEPT !.ci = ci]
    <3>2. c \in Commit
      BY CommitAt DEF Commit
    <3>3. line' = [line EXCEPT ![f] = [line[f] EXCEPT ![i] = c]]
      BY <3>1
    <3> HIDE DEF c
    <3>4. [line[f] EXCEPT ![i] = c] \in Seq(Commit)
      BY <3>2, ExceptSeq, LenProperties DEF Types
    <3>5. line' \in [Forks -> Seq(Commit)]
      BY <3>3, <3>4 DEF Types
    <3> QED BY <2>1, <2>10, <2>9, <3>5, TypesParts DEF CiMoves
  <2> QED BY <2>2, <2>3, <2>5, <2>6, <2>7, <2>9
<1> QED
  BY <1>1, <1>2

----------------------------------------------------------------------------
(* What the upstream sync promises.                                           *)

LEMMA InitInv == Init => IInv
<1> SUFFICES ASSUME Init PROVE IInv
  OBVIOUS
<1>1. Types
  BY TypesInit
<1>2. ASSUME NEW f \in Forks
      PROVE  /\ line[f] = <<>> /\ entry[f] = NewEntry /\ file.entry[f] = NewEntry
             /\ pushes[f] = 0 /\ prs[f] = {} /\ up[f] = 1 /\ pc = "idle" /\ losses = 0
             /\ \A u \in 1..MaxUpstream : alerts[f][u] = 0
  BY DEF Init, Forgotten
<1>3. DOMAIN << >> = {}
  OBVIOUS
<1>4. ASSUME NEW f \in Forks PROVE Branch(f)
  BY <1>2, <1>3 DEF Branch, LineOK, WatchOK, KeptOK, Increasing, Clear, Watches, At,
                    NewEntry, NoWatch
<1>5. ASSUME NEW f \in Forks PROVE PrOK(f)
  <2>1. IsFiniteSet({}) /\ Cardinality({}) = 0
    BY FS_EmptySet
  <2>2. IsFiniteSet(prs[f]) /\ Cardinality(prs[f]) = 0
    BY <1>2, <2>1, Zenon
  <2>3. ~In(f, Landing)
    BY <1>2 DEF In, Landing
  <2> QED BY <2>2, <2>3 DEF PrOK
<1>6. ASSUME NEW f \in Forks PROVE AlertOK(f)
  <2>1. NewEntry.attempt = 0
    BY DEF NewEntry
  <2> QED BY <1>2, <2>1 DEF AlertOK, In, Aiming, GivenUp
<1> QED
  BY <1>1, <1>4, <1>5, <1>6 DEF IInv

LEMMA StepInv == IInv /\ [Next]_vars => IInv'
<1> SUFFICES ASSUME IInv, [Next]_vars PROVE IInv'
  OBVIOUS
<1>1. CASE Next
  <2>1. Types /\ \A f \in Forks : Branch(f) /\ PrOK(f) /\ AlertOK(f)
    BY DEF IInv
  <2>2. Types'
    BY <1>1, <2>1, TickKeepsTypes, OthersKeepTypes DEF Next
  <2>3. ASSUME NEW f \in Forks PROVE Branch(f)' /\ PrOK(f)' /\ AlertOK(f)'
    <3>1. Branch(f)'
      BY <1>1, <2>1, TickKeepsBranch, KillKeepsBranch, WorldKeepsBranch DEF Next
    <3>2. PrOK(f)'
      BY <1>1, <2>1, StepKeepsPr
    <3>3. AlertOK(f)'
      BY <1>1, <2>1, TickKeepsAlert, OthersKeepAlert DEF Next
    <3> QED BY <3>1, <3>2, <3>3
  <2> QED BY <2>2, <2>3 DEF IInv
<1>2. CASE UNCHANGED vars
  BY <1>2 DEF vars, world, store, tick, ghosts, IInv, Types, Branch, LineOK, WatchOK, KeptOK,
              Increasing, Clear, Watches, InHand, Buried, Reverted, Watched, PrOK,
              AlertOK, OnRecord, At, In
<1> QED
  BY <1>1, <1>2

LEMMA SyncInvariant == Spec => []IInv
BY InitInv, StepInv, PTL DEF Spec

LEMMA RedIsWatched == IInv => RedMergeWatched
<1> SUFFICES ASSUME IInv, NEW f \in Forks, line[f] # <<>>,
                    Last(line[f]).by = "sync", Last(line[f]).ci = "red"
             PROVE  \/ entry[f].watch.sha = Last(line[f]).n
                    \/ Last(line[f]).n \in letGo[f]
                    \/ At(f, "record")
  BY DEF RedMergeWatched
<1> DEFINE l == Len(line[f])
           n == line[f][l].n
<1>1. Types /\ Branch(f)
  BY DEF IInv
<1>2. l \in DOMAIN line[f] /\ Last(line[f]) = line[f][l] /\ Tip(f) = n
  BY <1>1, LastCommit
<1> HIDE DEF l
<1>3. n \in letGo[f] \/ n = entry[f].watch.sha \/ InHand(f, n) \/ Buried(f, n)
  BY <1>1, <1>2 DEF Branch, KeptOK
<1>4. ~Buried(f, n)
  <2>1. \A j \in DOMAIN line[f] : line[f][j].n <= n /\ line[f][j].n \in Nat
    BY <1>1, <1>2, TipBounds, CommitAt DEF Branch
  <2>2. n \in Nat
    BY <1>2, <2>1
  <2> QED BY <2>1, <2>2 DEF Buried
<1> QED
  BY <1>2, <1>3, <1>4 DEF InHand

\* For any number of forks, pushes, kills, lost saves and exceptions: a merge of the
\* worker that turned red and lies on top of its branch is watched by an entry that
\* will revert it, is being recorded, or was let go for one of the reasons that
\* RedMergeWatched lists.
THEOREM RedMergesStayWatched == Spec => []RedMergeWatched
BY SyncInvariant, RedIsWatched, PTL

\* A fork whose PRs could be listed never has two sync PRs, also when the answer to
\* one that was opened got lost, or the worker ended before it was recorded
\* (sync/repos.ts:154).
THEOREM OneSyncPrAtATime == Spec => []OneSyncPr
<1>1. IInv => OneSyncPr
  BY DEF IInv, OneSyncPr, PrOK
<1> QED BY <1>1, SyncInvariant, PTL

\* One upstream tip is alerted at most once for each time that the record of it was
\* lost, and once more, whatever is killed between the write of `notified` and the
\* post (sync/sweep.ts:184).
THEOREM AlertedOnce == Spec => []AlertOnce
<1>1. IInv => AlertOnce
  <2> SUFFICES ASSUME IInv, NEW f \in Forks, NEW u \in 1..MaxUpstream
               PROVE  alerts[f][u] <= 1 + losses
    BY DEF AlertOnce
  <2>1. Types /\ AlertOK(f)
    BY DEF IInv
  <2>2. alerts[f][u] \in Nat /\ losses \in Nat
    BY <2>1, AttemptTypes
  <2> QED BY <2>1, <2>2 DEF AlertOK
<1> QED BY <1>1, SyncInvariant, PTL

\* No other step takes a commit off a branch.
LEMMA OnlyRevertsTakeOff ==
  ASSUME Types, Next, NEW f \in Forks, NEW i \in DOMAIN line[f],
         line[f][i].n \notin Numbers(line'[f])
  PROVE  Revert(f)
<1>1. line[f] \in Seq(Commit) /\ line \in [Forks -> Seq(Commit)]
  BY DEF Types
<1>2. line'[f] # line[f]
  BY DEF Numbers
<1>3. line' # line
  BY <1>2
<1>4. ASSUME NEW c \in Commit PROVE line'[f] # Append(line[f], c)
  <2>1. i \in DOMAIN Append(line[f], c) /\ Append(line[f], c)[i] = line[f][i]
    BY <1>1, AppendProperties, LenProperties
  <2> QED BY <2>1 DEF Numbers
<1>5. ASSUME NEW g \in Forks, Push(g) PROVE FALSE
  <2> DEFINE c == [n |-> pushes[g] + 1, by |-> "sync", up |-> job.got, ci |-> "none"]
  <2>1. line' = [line EXCEPT ![g] = Append(@, c)]
    BY <1>3, <1>5 DEF Push
  <2>2. c \in Commit
    BY DEF Commit, Types, JobRec
  <2> HIDE DEF c
  <2> QED BY <1>1, <1>2, <1>4, <2>1, <2>2
<1>6. ASSUME NEW g \in Forks, NEW u \in Nat, PushOther(g, u) PROVE FALSE
  <2> DEFINE c == [n |-> pushes[g] + 1, by |-> "other", up |-> u, ci |-> "none"]
  <2>1. line' = [line EXCEPT ![g] = Append(@, c)]
    BY <1>6 DEF PushOther
  <2>2. c \in Commit
    BY DEF Commit, Types
  <2> HIDE DEF c
  <2> QED BY <1>1, <1>2, <1>4, <2>1, <2>2
<1>7. ASSUME NEW g \in Forks, CiMoves(g) PROVE FALSE
  <2>1. PICK k \in DOMAIN line[g], ci \in {"running", "green", "red"} :
          line' = [line EXCEPT ![g][k].ci = ci]
    BY <1>7 DEF CiMoves
  <2> DEFINE c == [line[g][k] EXCEPT !.ci = ci]
  <2>2. c.n = line[g][k].n
    BY CommitAt DEF Commit
  <2>3. line' = [line EXCEPT ![g] = [line[g] EXCEPT ![k] = c]]
    BY <1>1, <2>1
  <2> HIDE DEF c
  <2>4. g = f /\ line'[f] = [line[f] EXCEPT ![k] = c]
    BY <1>1, <1>2, <2>3
  <2>5. i \in DOMAIN line'[f] /\ line'[f][i].n = line[f][i].n
    BY <2>2, <2>4
  <2> QED BY <2>5 DEF Numbers
<1>8. ASSUME NEW g \in Forks, Revert(g), g # f PROVE FALSE
  BY <1>1, <1>2, <1>8 DEF Revert
<1>9. ~World
  <2>1. ASSUME NEW g \in Forks, NEW u \in prs[g] PROVE ~ClosePr(g, u)
    BY <1>3, <1>6 DEF ClosePr, Types
  <2>2. ASSUME NEW g \in Forks PROVE ~OthersPush(g)
    BY <1>6, LastCommit DEF OthersPush
  <2> QED
    BY <1>3, <1>7, <2>1, <2>2 DEF World, UpstreamMoves, IntervalPasses, WatchAges
<1>10. ~Kill
  BY <1>3 DEF Kill
<1>11. Tick
  BY <1>9, <1>10 DEF Next
<1>12. /\ ~\E listing \in Listings : StartTick(listing)
       /\ ~BeginSweep /\ ~EndTick /\ ~Exit /\ ~SyncThrows
  BY <1>3 DEF StartTick, BeginSweep, EndTick, Exit, SyncThrows
<1>13. ASSUME NEW g \in Forks
       PROVE  /\ ~VerifyTurn(g) /\ ~ChecksRead(g) /\ ~RevertRecorded(g)
              /\ ~CompareFails(g) /\ ~Compare(g) /\ ~CheckOpenPr(g)
              /\ ~CloneFails(g) /\ ~Clone(g) /\ ~Resolve(g)
              /\ ~Record(g) /\ ~PushFails(g) /\ ~PushRefused(g)
              /\ ~PostPr(g) /\ ~RecordPr(g) /\ ~RecordNoPr(g)
              /\ ~MarkNotified(g) /\ ~PostAlert(g)
  BY <1>3 DEF VerifyTurn, ChecksRead, RevertRecorded, CompareFails, Compare, CheckOpenPr,
              CloneFails, Clone, Resolve, Record, PushFails, PushRefused, PostPr, RecordPr,
              RecordNoPr, TriedInVain, MarkNotified, PostAlert
<1> QED
  BY <1>5, <1>8, <1>11, <1>12, <1>13 DEF Tick

LEMMA StepKeepsEarlier ==
  IInv /\ [Next]_vars =>
    \A f \in Forks : \A n \in Numbers(line[f]) \ Numbers(line'[f]) :
      Watched(f) /\ n >= entry[f].watch.sha
<1> SUFFICES ASSUME IInv, [Next]_vars, NEW f \in Forks,
                    NEW i \in DOMAIN line[f], line[f][i].n \notin Numbers(line'[f])
             PROVE  Watched(f) /\ line[f][i].n >= entry[f].watch.sha
  BY DEF Numbers
<1> DEFINE n == line[f][i].n
           w == entry[f].watch
<1>1. Types /\ Branch(f)
  BY DEF IInv
<1>2. line' # line
  BY DEF Numbers
<1>3. Revert(f)
  <2>1. Next
    BY <1>2 DEF vars
  <2> QED BY <1>1, <2>1, OnlyRevertsTakeOff
<1>4. line'[f] = Upto(line[f], w.pre)
  BY <1>1, <1>2, <1>3 DEF Revert, Types
<1>5. /\ w.pre \in Nat /\ w.sha \in Nat /\ n \in Nat
      /\ line[f] \in Seq(Commit) /\ Increasing(line[f])
  BY <1>1, WatchTypes, CommitAt DEF WatchRec, Types, Branch, LineOK
<1>6. ~(n <= w.pre)
  <2>1. ASSUME n <= w.pre PROVE FALSE
    <3> DEFINE t == Upto(line[f], w.pre)
    <3>1. /\ \A j \in DOMAIN t : j \in DOMAIN line[f] /\ t[j] = line[f][j]
          /\ \A j \in DOMAIN line[f] : line[f][j].n <= w.pre => j \in DOMAIN t
      BY <1>5, UptoPrefix
    <3> HIDE DEF t
    <3>2. line'[f] = t
      BY <1>4 DEF t
    <3> QED BY <2>1, <3>1, <3>2 DEF Numbers
  <2> QED BY <2>1
<1>7. Watched(f) /\ Clear(line[f], w.pre, w.sha)
  BY <1>1, <1>3 DEF Revert, Branch, WatchOK, Watches
<1> QED
  BY <1>5, <1>6, <1>7 DEF Clear

\* A commit leaves a branch by the revert of a merge that the worker watches, and it
\* was pushed with that merge or after it: what was there before is kept, for any
\* number of racing pushes, kills and lost saves (sync/verify.ts:78).
THEOREM RevertsKeepEarlierHistory == Spec => EarlierHistoryKept
BY SyncInvariant, StepKeepsEarlier, PTL DEF Spec, EarlierHistoryKept

----------------------------------------------------------------------------
(* The hook sync: what a run that gets to its end has done, for any number of *)
(* repositories, attempts, changes by others and faults.                      *)

SlotIds == {Slots[i] : i \in DOMAIN Slots}
Bytes == {"absent", "wanted", "old", "edited"}

HooksTypes ==
  /\ secret \in BOOLEAN
  /\ content \in [1..Repos -> [SlotIds -> Bytes]]
  /\ repo \in 0..Repos
  /\ slot \in 1..5

Settled(r, i) ==
  Wanted(Slots[i]) => \/ content[r][Slots[i]] = Done(Slots[i])
                      \/ <<r, Slots[i]>> \in spoiled

\* The steps before <<r, i>> in the order of the loop.
Before(r, i) ==
  {step \in (1..Repos) \X (1..5) : step[1] < r \/ (step[1] = r /\ step[2] < i)}

\* The run leaves settled steps behind, and writes over what it has read unless
\* the slot is somebody's by now.
HooksInv ==
  /\ HooksTypes
  /\ repo # 0 => /\ ~whole
                 /\ slot >= FirstSlot
                 /\ \A step \in Before(repo, slot) : Settled(step[1], step[2])
  /\ phase = "write" => /\ repo # 0
                        /\ seen = Here \/ <<repo, Name>> \in spoiled
  /\ repo = 0 /\ whole => \A r \in 1..Repos, i \in 1..5 : Settled(r, i)

LEMMA SlotTypes ==
  /\ Slots \in [1..5 -> SlotIds] /\ DOMAIN Slots = 1..5 /\ Len(Slots) = 5
  /\ \A i, j \in 1..5 : Slots[i] = Slots[j] => i = j
  /\ Slots[1] = "hook" /\ \A i \in 2..5 : Slots[i] # "hook"
  /\ \A s : Contents(s) \subseteq Bytes /\ Done(s) \in Bytes
BY DEF Slots, SlotIds, Bytes, Contents, Files, Done

\* A change of one slot changes nothing else.
LEMMA OneSlot ==
  ASSUME NEW C, NEW N, NEW B, NEW f \in [C -> [N -> B]], NEW r, NEW s, NEW c \in B
  PROVE  /\ [f EXCEPT ![r][s] = c] \in [C -> [N -> B]]
         /\ \A q \in C, t \in N :
              q # r \/ t # s => [f EXCEPT ![r][s] = c][q][t] = f[q][t]
<1> DEFINE new == [f EXCEPT ![r][s] = c]
<1>1. ASSUME NEW q \in C
      PROVE  new[q] \in [N -> B] /\ \A t \in N : q # r \/ t # s => new[q][t] = f[q][t]
  <2>1. new[q] = IF q = r THEN [f[q] EXCEPT ![s] = c] ELSE f[q]
    OBVIOUS
  <2>2. f[q] \in [N -> B]
    OBVIOUS
  <2> HIDE DEF new
  <2>3. CASE q = r
    BY <2>1, <2>2, <2>3
  <2>4. CASE q # r
    BY <2>1, <2>2, <2>4
  <2> QED BY <2>3, <2>4
<1>2. new = [q \in C |-> new[q]]
  OBVIOUS
<1> HIDE DEF new
<1>3. new \in [C -> [N -> B]]
  BY <1>1, <1>2
<1>4. \A q \in C, t \in N : q # r \/ t # s => new[q][t] = f[q][t]
  BY <1>1
<1> QED BY <1>3, <1>4 DEF new

LEMMA HooksInitInv == HooksInit => HooksInv
<1> SUFFICES ASSUME HooksInit PROVE HooksInv
  OBVIOUS
<1>1. content \in [1..Repos -> [SlotIds -> Bytes]]
  BY DEF HooksInit, SlotIds, Bytes
<1> QED
  BY <1>1, ReposAssumption DEF HooksInit, HooksInv, HooksTypes

\* One slot is as it should be now, the others are as they were.
LEMMA ApplyKeeps ==
  ASSUME HooksInv, repo # 0, Apply
  PROVE  /\ content' \in [1..Repos -> [SlotIds -> Bytes]]
         /\ content'[repo][Name] = Done(Name)
         /\ \A r \in 1..Repos, i \in 1..5 :
              content[r][Slots[i]] = Done(Slots[i]) => content'[r][Slots[i]] = Done(Slots[i])
<1>1. repo \in 1..Repos /\ Name \in SlotIds /\ Done(Name) \in Bytes
  BY SlotTypes, ReposAssumption DEF HooksInv, HooksTypes, Name
<1>2. content \in [1..Repos -> [SlotIds -> Bytes]]
  BY DEF HooksInv, HooksTypes
<1>3. /\ content' \in [1..Repos -> [SlotIds -> Bytes]]
      /\ \A q \in 1..Repos, t \in SlotIds :
           q # repo \/ t # Name => content'[q][t] = content[q][t]
  BY <1>1, <1>2, OneSlot, Zenon DEF Apply
<1>4. content'[repo][Name] = Done(Name)
  BY <1>1, <1>2 DEF Apply
<1> QED
  BY <1>3, <1>4, SlotTypes

\* The loop goes on from a step that is settled.
LEMMA TurnKeeps ==
  ASSUME HooksInv, repo # 0, HooksTypes',
         \A r \in 1..Repos, i \in 1..5 :
           Settled(r, i) \/ (r = repo /\ i = slot) => Settled(r, i)',
         UNCHANGED secret, NEW ok \in BOOLEAN, RecordLine(ok)
  PROVE  HooksInv'
<1>1. repo \in 1..Repos /\ slot \in 1..5 /\ slot >= FirstSlot /\ FirstSlot \in {1, 2}
  BY ReposAssumption DEF HooksInv, HooksTypes, FirstSlot
<1>2. /\ repo' = NextStep[1] /\ slot' = NextStep[2] /\ phase' = "read"
      /\ whole' = (NextStep[1] = 0)
  BY DEF RecordLine, GoOn
<1>3. FirstSlot' = FirstSlot
  BY DEF FirstSlot
<1>4. \A r \in 1..Repos, i \in 1..5 : i < FirstSlot => Settled(r, i)'
  BY SlotTypes DEF Settled, Wanted, FirstSlot
<1>5. \A step \in Before(repo, slot) : Settled(step[1], step[2])'
  BY DEF HooksInv, Before
<1>6. CASE slot < 5
  <2>1. repo' = repo /\ slot' = slot + 1
    BY <1>2, <1>6, SlotTypes DEF NextStep
  <2>2. ASSUME NEW step \in Before(repo', slot') PROVE Settled(step[1], step[2])'
    <3>1. /\ step[1] \in 1..Repos /\ step[2] \in 1..5
          /\ step \in Before(repo, slot) \/ (step[1] = repo /\ step[2] = slot)
      BY <1>1, <2>1 DEF Before
    <3> QED BY <1>5, <3>1
  <2>3. slot' >= FirstSlot'
    BY <1>1, <1>3, <2>1
  <2> QED BY <1>1, <1>2, <2>1, <2>2, <2>3 DEF HooksInv
<1>7. CASE slot = 5 /\ repo < Repos
  <2>1. repo' = repo + 1 /\ slot' = FirstSlot
    BY <1>2, <1>7, SlotTypes DEF NextStep
  <2>2. ASSUME NEW step \in Before(repo', slot') PROVE Settled(step[1], step[2])'
    <3>1. /\ step[1] \in 1..Repos /\ step[2] \in 1..5 /\ step = <<step[1], step[2]>>
          /\ \/ step[1] < repo \/ (step[1] = repo /\ step[2] < 5)
             \/ step[1] = repo /\ step[2] = 5
             \/ step[2] < FirstSlot
      BY <1>1, <2>1, ReposAssumption DEF Before
    <3>2. CASE step[1] < repo \/ (step[1] = repo /\ step[2] < 5)
      <4>1. step \in Before(repo, slot)
        BY <1>7, <3>1, <3>2 DEF Before
      <4> QED BY <1>5, <4>1
    <3>3. CASE step[1] = repo /\ step[2] = 5
      BY <1>7, <3>1, <3>3
    <3>4. CASE step[2] < FirstSlot
      BY <1>4, <3>1, <3>4
    <3> QED BY <3>1, <3>2, <3>3, <3>4
  <2>3. slot' >= FirstSlot' /\ repo' # 0 /\ NextStep[1] # 0
    BY <1>1, <1>2, <1>3, <2>1
  <2> QED BY <1>1, <1>2, <2>2, <2>3 DEF HooksInv
<1>8. CASE slot = 5 /\ repo = Repos
  <2>1. repo' = 0
    <3>1. ~(slot < Len(Slots)) /\ ~(repo < Repos)
      BY <1>1, <1>8, SlotTypes, ReposAssumption
    <3>2. NextStep = <<0, 1>>
      BY <3>1 DEF NextStep
    <3> QED BY <1>2, <3>2
  <2>2. ASSUME NEW r \in 1..Repos, NEW i \in 1..5 PROVE Settled(r, i)'
    <3>1. <<r, i>> \in Before(repo, slot) \/ (r = repo /\ i = slot)
      BY <1>1, <1>8, ReposAssumption DEF Before
    <3>2. <<r, i>>[1] = r /\ <<r, i>>[2] = i
      OBVIOUS
    <3> QED BY <1>5, <3>1, <3>2
  <2> QED BY <1>2, <2>1, <2>2 DEF HooksInv
<1> QED
  BY <1>1, <1>6, <1>7, <1>8, ReposAssumption

LEMMA TurnTypes ==
  ASSUME HooksInv, repo # 0, NEW ok \in BOOLEAN, RecordLine(ok)
  PROVE  repo' \in 0..Repos /\ slot' \in 1..5
<1>1. repo \in 1..Repos /\ slot \in 1..5 /\ FirstSlot \in {1, 2}
  BY ReposAssumption DEF HooksInv, HooksTypes, FirstSlot
<1>2. repo' = NextStep[1] /\ slot' = NextStep[2]
  BY DEF RecordLine, GoOn
<1> QED
  BY <1>1, <1>2, SlotTypes, ReposAssumption DEF NextStep

LEMMA StepKeepsHooks ==
  ASSUME HooksInv, Step
  PROVE  HooksInv'
<1>1. repo \in 0..Repos /\ slot \in 1..5 /\ Name \in SlotIds /\ Name = Slots[slot]
  BY SlotTypes DEF HooksInv, HooksTypes, Name
<1>2. ASSUME UNCHANGED secret, UNCHANGED content, spoiled \subseteq spoiled'
      PROVE  \A r \in 1..Repos, i \in 1..5 : Settled(r, i) => Settled(r, i)'
  BY <1>2 DEF Settled, Wanted
<1>3. ASSUME NEW ok \in BOOLEAN, RecordLine(ok), repo # 0, UNCHANGED <<secret, content>>,
             spoiled \subseteq spoiled',
             \A r \in 1..Repos, i \in 1..5 : r = repo /\ i = slot => Settled(r, i)'
      PROVE  HooksInv'
  <2>1. HooksTypes'
    BY <1>3, TurnTypes DEF HooksInv, HooksTypes
  <2> QED BY <1>2, <1>3, <2>1, TurnKeeps
<1>4. ASSUME ToWrite(seen'), repo # 0, UNCHANGED <<secret, content>>,
             spoiled \subseteq spoiled',
             seen' = Here \/ <<repo, Name>> \in spoiled'
      PROVE  HooksInv'
  <2>1. repo' = repo /\ slot' = slot /\ phase' = "write" /\ whole' = whole /\ Name' = Name
    BY <1>4 DEF ToWrite, Name
  <2>2. Here' = Here /\ FirstSlot' = FirstSlot
    BY <1>4, <2>1 DEF Here, Name, FirstSlot
  <2>3. \A step \in Before(repo, slot) : Settled(step[1], step[2])'
    BY <1>2, <1>4 DEF HooksInv, Before
  <2> QED BY <1>4, <2>1, <2>2, <2>3 DEF HooksInv, HooksTypes
<1>5. CASE Read
  <2>1. repo # 0 /\ UNCHANGED <<secret, content, spoiled>>
    BY <1>5 DEF Read, Reading
  <2>2. CASE Here = Done(Name) /\ RecordLine(FALSE)
    <3>1. \A r \in 1..Repos, i \in 1..5 : r = repo /\ i = slot => Settled(r, i)'
      BY <2>1, <2>2 DEF Settled, Here, Name
    <3> QED BY <1>3, <2>1, <2>2, <3>1
  <2>3. CASE ToWrite(Here)
    <3>1. seen' = Here
      BY <2>3 DEF ToWrite
    <3> QED BY <1>4, <2>1, <2>3, <3>1
  <2> QED BY <1>5, <2>2, <2>3 DEF Read
<1>6. CASE ReadFails
  <2>1. /\ repo # 0 /\ UNCHANGED <<secret, content>>
        /\ spoiled \subseteq spoiled' /\ <<repo, Name>> \in spoiled'
    BY <1>6 DEF ReadFails, Reading, Spoil
  <2>2. CASE RecordLine(FALSE)
    <3>1. \A r \in 1..Repos, i \in 1..5 : r = repo /\ i = slot => Settled(r, i)'
      BY <2>1 DEF Settled, Name
    <3> QED BY <1>3, <2>1, <2>2, <3>1
  <2>3. CASE ToWrite("absent")
    <3>1. seen' = "absent"
      BY <2>3 DEF ToWrite
    <3> QED BY <1>4, <2>1, <2>3, <3>1
  <2> QED BY <1>6, <2>2, <2>3 DEF ReadFails
<1>7. CASE TemplateMissing
  <2>1. /\ repo # 0 /\ repo' = 0 /\ slot' = 1 /\ phase' = "read" /\ whole' = whole
        /\ UNCHANGED <<secret, content, spoiled>>
    BY <1>7 DEF TemplateMissing, Reading, Quit, GoOn
  <2> QED BY <2>1, ReposAssumption DEF HooksInv, HooksTypes
<1>8. ASSUME repo # 0, phase = "write", Takes, Apply, UNCHANGED secret,
             spoiled \subseteq spoiled'
      PROVE  /\ content' \in [1..Repos -> [SlotIds -> Bytes]]
             /\ \A r \in 1..Repos, i \in 1..5 : Settled(r, i) => Settled(r, i)'
             /\ \A r \in 1..Repos, i \in 1..5 : r = repo /\ i = slot => Settled(r, i)'
  <2>1. /\ content' \in [1..Repos -> [SlotIds -> Bytes]]
        /\ content'[repo][Name] = Done(Name)
        /\ \A r \in 1..Repos, i \in 1..5 :
             content[r][Slots[i]] = Done(Slots[i]) => content'[r][Slots[i]] = Done(Slots[i])
    BY <1>8, ApplyKeeps
  <2>2. \A r \in 1..Repos, i \in 1..5 : Settled(r, i) => Settled(r, i)'
    BY <1>8, <2>1 DEF Settled, Wanted
  <2>3. \A r \in 1..Repos, i \in 1..5 : r = repo /\ i = slot => Settled(r, i)'
    BY <2>1 DEF Settled, Name
  <2> QED BY <2>1, <2>2, <2>3
<1>9. CASE Write
  <2>1. phase = "write" /\ UNCHANGED secret /\ spoiled \subseteq spoiled' /\ repo # 0
    BY <1>9 DEF Write, Spoil, HooksInv
  <2>2. CASE Takes /\ Apply /\ RecordLine(TRUE)
    <3>1. HooksTypes'
      BY <1>8, <2>1, <2>2, TurnTypes DEF HooksInv, HooksTypes
    <3> QED BY <1>8, <2>1, <2>2, <3>1, TurnKeeps
  <2>3. CASE ~Takes /\ RecordLine(FALSE) /\ UNCHANGED content
    <3>1. <<repo, Name>> \in spoiled
      BY <2>1, <2>3 DEF HooksInv, Takes
    <3>2. \A r \in 1..Repos, i \in 1..5 : r = repo /\ i = slot => Settled(r, i)'
      BY <2>1, <3>1 DEF Settled, Name
    <3> QED BY <1>3, <2>1, <2>3, <3>2
  <2>4. CASE Spoil(repo, Name) /\ RecordLine(FALSE) /\ UNCHANGED content
    <3>1. \A r \in 1..Repos, i \in 1..5 : r = repo /\ i = slot => Settled(r, i)'
      BY <2>4 DEF Settled, Name, Spoil
    <3> QED BY <1>3, <2>1, <2>4, <3>1
  <2> QED BY <1>9, <2>2, <2>3, <2>4 DEF Write
<1>10. CASE WriteUnanswered
  <2>1. /\ phase = "write" /\ UNCHANGED secret /\ repo # 0
        /\ spoiled \subseteq spoiled' /\ <<repo, Name>> \in spoiled'
    BY <1>10 DEF WriteUnanswered, Spoil, HooksInv
  <2>2. /\ content' \in [1..Repos -> [SlotIds -> Bytes]]
        /\ \A r \in 1..Repos, i \in 1..5 : Settled(r, i) => Settled(r, i)'
    <3>1. CASE Takes /\ Apply
      BY <1>8, <2>1, <3>1
    <3>2. CASE UNCHANGED content
      BY <1>2, <2>1, <3>2 DEF HooksInv, HooksTypes
    <3> QED BY <1>10, <3>1, <3>2 DEF WriteUnanswered
  <2>3. \A r \in 1..Repos, i \in 1..5 : r = repo /\ i = slot => Settled(r, i)'
    BY <2>1 DEF Settled, Name
  <2>4. CASE RecordLine(FALSE)
    <3>1. HooksTypes'
      BY <2>1, <2>2, <2>4, TurnTypes DEF HooksInv, HooksTypes
    <3> QED BY <2>1, <2>2, <2>3, <2>4, <3>1, TurnKeeps
  <2>5. CASE UNCHANGED <<repo, slot, phase, seen, reported, skipped, healthy, whole>>
    <3>1. Name' = Name /\ FirstSlot' = FirstSlot /\ Before(repo, slot)' = Before(repo, slot)
      BY <2>1, <2>5 DEF Name, FirstSlot, Before
    <3>2. \A step \in Before(repo, slot) : Settled(step[1], step[2])'
      BY <2>2 DEF HooksInv, Before
    <3> QED BY <2>1, <2>2, <2>5, <3>1, <3>2 DEF HooksInv, HooksTypes
  <2> QED BY <1>10, <2>4, <2>5 DEF WriteUnanswered
<1> QED BY <1>5, <1>6, <1>7, <1>9, <1>10 DEF Step

LEMMA OthersKeepHooks ==
  ASSUME HooksInv, StartRun \/ KillRun
  PROVE  HooksInv'
<1>1. CASE StartRun
  <2>1. /\ repo = 0 /\ whole' = FALSE /\ UNCHANGED <<secret, content>>
        /\ \/ repo' = 1 /\ slot' = FirstSlot /\ phase' = "read"
           \/ repo' = 0 /\ slot' = slot /\ phase' = phase
    BY <1>1 DEF StartRun, GoOn
  <2>2. FirstSlot' = FirstSlot /\ FirstSlot \in 1..5
    BY <2>1 DEF FirstSlot
  <2>3. ASSUME NEW step \in Before(1, FirstSlot) PROVE Settled(step[1], step[2])'
    <3>1. step[2] \in 1..5 /\ step[2] < FirstSlot
      BY <2>2 DEF Before
    <3>2. step[2] = 1 /\ ~secret
      BY <3>1 DEF FirstSlot
    <3>3. ~Wanted(Slots[step[2]])'
      BY <2>1, <3>2, SlotTypes DEF Wanted
    <3> QED BY <3>3 DEF Settled
  <2>4. HooksTypes'
    BY <2>1, <2>2, ReposAssumption DEF HooksInv, HooksTypes
  <2>5. CASE repo' = 1 /\ slot' = FirstSlot /\ phase' = "read"
    <3>1. slot' >= FirstSlot'
      BY <2>2, <2>5
    <3> QED BY <2>1, <2>3, <2>4, <2>5, <3>1 DEF HooksInv
  <2>6. CASE repo' = 0 /\ phase' = phase
    BY <2>1, <2>4, <2>6 DEF HooksInv
  <2> QED BY <2>1, <2>5, <2>6
<1>2. CASE KillRun
  <2>1. /\ repo # 0 /\ repo' = 0 /\ slot' = 1 /\ phase' = "read" /\ whole' = whole
        /\ UNCHANGED <<secret, content, spoiled>>
    BY <1>2 DEF KillRun, GoOn
  <2> QED BY <2>1, ReposAssumption DEF HooksInv, HooksTypes
<1> QED BY <1>1, <1>2

LEMMA EditKeepsHooks ==
  ASSUME HooksInv, NEW r \in 1..Repos, NEW i \in 1..5,
         NEW c \in Contents(Slots[i]), Edit(r, Slots[i], c)
  PROVE  HooksInv'
<1>1. /\ content' = [content EXCEPT ![r][Slots[i]] = c]
      /\ spoiled' = spoiled \cup {<<r, Slots[i]>>}
      /\ UNCHANGED <<secret, repo, slot, phase, seen, whole>>
  BY DEF Edit, Spoil
<1>2. c \in Bytes /\ Slots[i] \in SlotIds /\ content \in [1..Repos -> [SlotIds -> Bytes]]
  BY SlotTypes DEF HooksInv, HooksTypes
<1>3. /\ content' \in [1..Repos -> [SlotIds -> Bytes]]
      /\ \A q \in 1..Repos, t \in SlotIds : q # r \/ t # Slots[i] => content'[q][t] = content[q][t]
  <2>1. \A A, N, B : \A f \in [A -> [N -> B]] : \A p, s : \A b \in B :
          /\ [f EXCEPT ![p][s] = b] \in [A -> [N -> B]]
          /\ \A q \in A, t \in N :
               q # p \/ t # s => [f EXCEPT ![p][s] = b][q][t] = f[q][t]
    BY OneSlot, Zenon
  <2> QED BY <1>1, <1>2, <2>1
<1>4. ASSUME NEW q \in 1..Repos, NEW j \in 1..5, Settled(q, j) PROVE Settled(q, j)'
  <2>1. CASE q = r /\ Slots[j] = Slots[i]
    BY <1>1, <2>1 DEF Settled
  <2>2. CASE q # r \/ Slots[j] # Slots[i]
    <3>1. content'[q][Slots[j]] = content[q][Slots[j]]
      BY <1>3, <2>2, SlotTypes
    <3> QED BY <1>1, <1>4, <3>1 DEF Settled, Wanted
  <2> QED BY <2>1, <2>2
<1>5. HooksTypes'
  BY <1>1, <1>3 DEF HooksInv, HooksTypes
<1>6. FirstSlot' = FirstSlot /\ Name' = Name /\ Before(repo, slot)' = Before(repo, slot)
  BY <1>1 DEF FirstSlot, Name, Before
<1>7. ASSUME repo # 0, phase = "write" PROVE seen = Here' \/ <<repo, Name>> \in spoiled'
  <2>1. seen = Here \/ <<repo, Name>> \in spoiled
    BY <1>7 DEF HooksInv
  <2>2. repo \in 1..Repos /\ Name \in SlotIds
    BY <1>7, SlotTypes DEF HooksInv, HooksTypes, Name
  <2>3. Here' = Here \/ <<repo, Name>> \in spoiled'
    <3>1. CASE repo = r /\ Name = Slots[i]
      BY <1>1, <3>1
    <3>2. CASE repo # r \/ Name # Slots[i]
      BY <1>1, <1>3, <1>6, <2>2, <3>2 DEF Here
    <3> QED BY <3>1, <3>2
  <2> QED BY <1>1, <2>1, <2>3
<1>8. \A step \in Before(repo, slot) : Settled(step[1], step[2]) => Settled(step[1], step[2])'
  BY <1>4 DEF Before
<1> QED
  BY <1>1, <1>4, <1>5, <1>6, <1>7, <1>8 DEF HooksInv

LEMMA HooksStepInv == HooksInv /\ [HooksNext]_hooksVars => HooksInv'
<1> SUFFICES ASSUME HooksInv, [HooksNext]_hooksVars PROVE HooksInv'
  OBVIOUS
<1>1. CASE UNCHANGED hooksVars
  BY <1>1 DEF hooksVars, HooksInv, HooksTypes, Settled, Wanted, Before, FirstSlot, Here, Name
<1>2. CASE HooksNext
  BY <1>2, StepKeepsHooks, OthersKeepHooks, EditKeepsHooks, SlotTypes DEF HooksNext
<1> QED BY <1>1, <1>2

\* A run of the hook sync that gets to the end of its loop has configured every
\* repository, but for the slots that somebody edited meanwhile and the steps
\* whose own request failed: failures, lost answers and refused writes of other
\* steps cost nothing (ops/syncHooks.ts:482).
THEOREM FailuresStayLocal == HooksSpec => []FaultsStayLocal
<1>1. HooksSpec => []HooksInv
  BY HooksInitInv, HooksStepInv, PTL DEF HooksSpec
<1>2. HooksInv => FaultsStayLocal
  BY SlotTypes DEF HooksInv, FaultsStayLocal, Settled
<1> QED BY <1>1, <1>2, PTL
=============================================================================
