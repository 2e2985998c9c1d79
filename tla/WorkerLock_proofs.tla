------------------------- MODULE WorkerLock_proofs -------------------------
(***************************************************************************)
(* Exclusion of the worker lock for any number of workers, when no two     *)
(* acquires overlap.                                                       *)
(***************************************************************************)
EXTENDS WorkerLock, TLAPS

\* One worker at a time is inside acquire().
OneAcquirer ==
  \A v, w \in Workers : pc[v] \in Acquiring /\ pc[w] \in Acquiring => v = w

\* The file about to be written is still the one that was opened.
OwnFile == \A w \in Workers : pc[w] \in {"write", "rewrite"} => creator = w

\* A worker past the check of the recorded pid has no holder beside it, and one
\* at the check has read the holder's pid.
HolderSeen ==
  \A w, h \in Workers :
    pc[h] = "held" =>
      /\ pc[w] \notin {"write", "unlink", "reopen", "rewrite"}
      /\ pc[w] = "check" => seen[w] = h

\* The inductive invariant. Exclusion alone is not inductive: that a worker
\* may create the file rests on what the worker read before it unlinked.
LockInv ==
  /\ TypeOK
  /\ ~raced =>
       /\ OneAcquirer
       /\ MutualExclusion
       /\ \A w \in Workers : pc[w] = "held" => creator = w /\ content = w
       /\ OwnFile
       /\ HolderSeen

----------------------------------------------------------------------------
LEMMA InitLock == Init => LockInv
  BY NoneAssumption DEF Init, LockInv, TypeOK, OneAcquirer, MutualExclusion, OwnFile,
     HolderSeen, Acquiring, Gone

LEMMA TypeStep == TypeOK /\ [Next]_vars => TypeOK'
<1> SUFFICES ASSUME TypeOK, [Next]_vars PROVE TypeOK'
  OBVIOUS
<1> USE DEF TypeOK, Goto, Acquiring, Gone
<1>1. ASSUME NEW w \in Workers, Open(w) PROVE TypeOK'
  BY <1>1 DEF Open, TryCreate, Alive
<1>2. ASSUME NEW w \in Workers, WritePid(w) PROVE TypeOK'
  BY <1>2 DEF ghosts, WritePid
<1>3. ASSUME NEW w \in Workers, ReadPid(w) PROVE TypeOK'
  BY <1>3 DEF ghosts, ReadPid
<1>4. ASSUME NEW w \in Workers, CheckPid(w) PROVE TypeOK'
  BY <1>4 DEF ghosts, CheckPid
<1>5. ASSUME NEW w \in Workers, Steal(w) PROVE TypeOK'
  BY <1>5 DEF Steal
<1>6. ASSUME NEW w \in Workers, Reopen(w) PROVE TypeOK'
  BY <1>6 DEF ghosts, Reopen, TryCreate
<1>7. ASSUME NEW w \in Workers, Release(w) PROVE TypeOK'
  BY <1>7 DEF ghosts, Release
<1>8. ASSUME NEW w \in Workers, Die(w) PROVE TypeOK'
  BY <1>8 DEF ghosts, Die
<1>9. CASE UNCHANGED vars
  BY <1>9 DEF vars, ghosts
<1>10. QED
  BY <1>1, <1>2, <1>3, <1>4, <1>5, <1>6, <1>7, <1>8, <1>9 DEF Next

LEMMA LockStep == LockInv /\ [Next]_vars => LockInv'
<1> SUFFICES ASSUME LockInv, [Next]_vars PROVE LockInv'
  OBVIOUS
<1>1. TypeOK'
  BY TypeStep DEF LockInv
<1> SUFFICES ASSUME ~raced'
             PROVE  /\ OneAcquirer'
                    /\ MutualExclusion'
                    /\ (\A w \in Workers : pc[w] = "held" => creator = w /\ content = w)'
                    /\ OwnFile'
                    /\ HolderSeen'
  BY <1>1 DEF LockInv
<1> USE NoneAssumption
        DEF TypeOK, OneAcquirer, MutualExclusion, OwnFile, HolderSeen, Goto, Acquiring
<1>2. ~raced
  BY DEF Next, vars, ghosts, Open, WritePid, ReadPid, CheckPid, Steal, Reopen, Release, Die
<1>3. /\ TypeOK
      /\ OneAcquirer
      /\ MutualExclusion
      /\ \A w \in Workers : pc[w] = "held" => creator = w /\ content = w
      /\ OwnFile
      /\ HolderSeen
  BY <1>2 DEF LockInv
<1> DEFINE Goal ==
      /\ OneAcquirer'
      /\ MutualExclusion'
      /\ (\A w \in Workers : pc[w] = "held" => creator = w /\ content = w)'
      /\ OwnFile'
      /\ HolderSeen'
<1>4. ASSUME NEW w \in Workers, Open(w) PROVE Goal
  <2>1. \A v \in Workers \ {w} : pc[v] \notin Acquiring
    BY <1>4 DEF Open, Alive, Gone
  <2>2. QED
    BY <1>3, <1>4, <2>1 DEF Open, TryCreate
<1>5. ASSUME NEW w \in Workers, WritePid(w) PROVE Goal
  BY <1>3, <1>5 DEF ghosts, WritePid
<1>6. ASSUME NEW w \in Workers, ReadPid(w) PROVE Goal
  BY <1>3, <1>6 DEF ghosts, ReadPid
<1>7. ASSUME NEW w \in Workers, CheckPid(w) PROVE Goal
  BY <1>3, <1>7 DEF ghosts, CheckPid, Alive, Gone
<1>8. ASSUME NEW w \in Workers, Steal(w) PROVE Goal
  BY <1>3, <1>8 DEF Steal
<1>9. ASSUME NEW w \in Workers, Reopen(w) PROVE Goal
  BY <1>3, <1>9 DEF ghosts, Reopen, TryCreate
<1>10. ASSUME NEW w \in Workers, Release(w) PROVE Goal
  BY <1>3, <1>10 DEF ghosts, Release
<1>11. ASSUME NEW w \in Workers, Die(w) PROVE Goal
  BY <1>3, <1>11 DEF ghosts, Die
<1>12. CASE UNCHANGED vars
  BY <1>3, <1>12 DEF vars, ghosts
<1>13. QED
  BY <1>4, <1>5, <1>6, <1>7, <1>8, <1>9, <1>10, <1>11, <1>12 DEF Next

\* The lock is exclusive as long as no two acquires overlap.
THEOREM Exclusive == Spec => [](ExclusiveUnlessRaced /\ HolderNamed)
<1>1. LockInv => ExclusiveUnlessRaced /\ HolderNamed
  BY DEF LockInv, ExclusiveUnlessRaced, HolderNamed
<1>2. QED
  BY <1>1, InitLock, LockStep, PTL DEF Spec

\* The worker that looks up a pid has read one, and the rest is of its type.
THEOREM TypeCorrect == Spec => []TypeOK
<1>1. LockInv => TypeOK
  BY DEF LockInv
<1>2. QED
  BY <1>1, InitLock, LockStep, PTL DEF Spec

----------------------------------------------------------------------------
\* Why a worker that runs alone is not refused: no one else is alive to be
\* named by the file, no process reads its own pid, and no one creates a file
\* between an unlink that worked and its second claim.
AloneInv ==
  /\ TypeOK
  /\ \A w \in Workers : content = w => pc[w] \in {"held", "exited"}
  /\ \A w \in Workers : pc[w] = "check" => seen[w] \notin {w, None}
  /\ \A w \in Workers : pc[w] \in Acquiring /\ w \notin met =>
       \A v \in Workers \ {w} : ~Alive(v)
  /\ \A w \in Workers : pc[w] = "reopen" /\ w \notin met \cup stuck => creator = None
  /\ AloneAcquires

LEMMA InitAlone == Init => AloneInv
  BY NoneAssumption DEF Init, AloneInv, AloneAcquires, TypeOK, Acquiring, Gone

LEMMA AloneStep == AloneInv /\ [Next]_vars => AloneInv'
<1> SUFFICES ASSUME AloneInv, [Next]_vars PROVE AloneInv'
  OBVIOUS
<1>1. TypeOK'
  BY TypeStep DEF AloneInv
<1> USE <1>1, NoneAssumption
        DEF AloneInv, AloneAcquires, TypeOK, Goto, Acquiring, Gone, Alive
<1>2. ASSUME NEW w \in Workers, Open(w) PROVE AloneInv'
  BY <1>2 DEF Open, TryCreate
<1>3. ASSUME NEW w \in Workers, WritePid(w) PROVE AloneInv'
  BY <1>3 DEF ghosts, WritePid
<1>4. ASSUME NEW w \in Workers, ReadPid(w) PROVE AloneInv'
  BY <1>4 DEF ghosts, ReadPid
<1>5. ASSUME NEW w \in Workers, CheckPid(w) PROVE AloneInv'
  BY <1>5 DEF ghosts, CheckPid
<1>6. ASSUME NEW w \in Workers, Steal(w) PROVE AloneInv'
  BY <1>6 DEF Steal
<1>7. ASSUME NEW w \in Workers, Reopen(w) PROVE AloneInv'
  BY <1>7 DEF ghosts, Reopen, TryCreate
<1>8. ASSUME NEW w \in Workers, Release(w) PROVE AloneInv'
  BY <1>8 DEF ghosts, Release
<1>9. ASSUME NEW w \in Workers, Die(w) PROVE AloneInv'
  BY <1>9 DEF ghosts, Die
<1>10. CASE UNCHANGED vars
  BY <1>10 DEF vars, ghosts
<1>11. QED
  BY <1>2, <1>3, <1>4, <1>5, <1>6, <1>7, <1>8, <1>9, <1>10 DEF Next

\* A lock left behind by a dead worker never refuses a worker running alone that
\* may remove it.
THEOREM NeverWedged == Spec => []AloneAcquires
<1>1. AloneInv => AloneAcquires
  BY DEF AloneInv
<1>2. QED
  BY <1>1, InitAlone, AloneStep, PTL DEF Spec
=============================================================================
