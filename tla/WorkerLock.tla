----------------------------- MODULE WorkerLock -----------------------------
(***************************************************************************)
(* The lock file that keeps worker processes apart,                        *)
(* src/apps/worker/src/lock.ts, and its use by the tick, --sync-only and   *)
(* --sync-hooks of src/apps/worker/src/index.ts.                           *)
(*                                                                         *)
(* The workers are separate processes started by cron or by hand: every    *)
(* system call is a step. A worker is one process, named by its pid.       *)
(***************************************************************************)
EXTENDS FiniteSets

CONSTANTS
  Workers,  \* the processes, each runs once
  None      \* no lock file; a file with no pid in it

ASSUME NoneAssumption == None \notin Workers

VARIABLES
  creator,  \* whose open() made the file now at LOCK_FILE, None if absent
  content,  \* the pid in that file, None before it is written
  pc,       \* [Workers -> the next system call, or how the process ended]
  seen,     \* [Workers -> what readFileSync returned]
  raced,    \* ghost: some acquire() began while another was in progress
  met,      \* ghost: workers whose acquire() overlapped another process
  stuck     \* ghost: workers whose unlink of a stale lock failed

ghosts == <<raced, met, stuck>>
vars == <<creator, content, pc, seen, ghosts>>

Acquiring == {"write", "read", "check", "unlink", "reopen", "rewrite"}
Gone == {"ready", "refused", "exited"}

\* existsSync(`/proc/${pid}`)
Alive(w) == pc[w] \notin Gone

Goto(w, label) == pc' = [pc EXCEPT ![w] = label]

Init ==
  /\ creator = None
  /\ content = None
  /\ pc = [w \in Workers |-> "ready"]
  /\ seen = [w \in Workers |-> None]
  /\ raced = FALSE
  /\ met = {}
  /\ stuck = {}

\* openSync(path, "wx"): creates an empty file, or fails with EEXIST.
TryCreate(w, created, exists) ==
  IF creator = None
  THEN creator' = w /\ content' = None /\ Goto(w, created)
  ELSE UNCHANGED <<creator, content>> /\ Goto(w, exists)

\* acquire() begins with the claim.
Open(w) ==
  LET others == {v \in Workers \ {w} : Alive(v)}
  IN  /\ pc[w] = "ready"
      /\ TryCreate(w, "write", "read")
      /\ raced' = (raced \/ \E v \in others : pc[v] \in Acquiring)
      /\ met' = met \cup (IF others = {} THEN {} ELSE others \cup {w})
      /\ UNCHANGED <<seen, stuck>>

\* A mutant of WritePid: the claim ends without the pid in the file.
WritePidNever(w) ==
  /\ pc[w] \in {"write", "rewrite"}
  /\ Goto(w, "held")
  /\ UNCHANGED <<creator, content, seen, ghosts>>

\* writeSync(fd, pid) and close: into the file the worker created, wherever
\* LOCK_FILE points by now.
WritePid(w) ==
  /\ pc[w] \in {"write", "rewrite"}
  /\ content' = IF creator = w THEN w ELSE content
  /\ Goto(w, "held")
  /\ UNCHANGED <<creator, seen, ghosts>>

\* A mutant of ReadPid: an empty or absent file is not treated as stale.
ReadPidUnchecked(w) ==
  /\ pc[w] = "read"
  /\ seen' = [seen EXCEPT ![w] = content]
  /\ Goto(w, "check")
  /\ UNCHANGED <<creator, content, ghosts>>

\* readFileSync: an absent file throws, and reads as stale like an empty one.
ReadPid(w) ==
  /\ pc[w] = "read"
  /\ seen' = [seen EXCEPT ![w] = content]
  /\ Goto(w, IF content = None THEN "unlink" ELSE "check")
  /\ UNCHANGED <<creator, content, ghosts>>

\* Mutants of CheckPid: any lock is stale, or any lock is live.
CheckPidAlwaysStale(w) ==
  /\ pc[w] = "check"
  /\ Goto(w, "unlink")
  /\ UNCHANGED <<creator, content, seen, ghosts>>
CheckPidAlwaysLive(w) ==
  /\ pc[w] = "check"
  /\ Goto(w, "refused")
  /\ UNCHANGED <<creator, content, seen, ghosts>>

\* The lock is stale unless the process it names is alive.
CheckPid(w) ==
  /\ pc[w] = "check"
  /\ Goto(w, IF Alive(seen[w]) THEN "refused" ELSE "unlink")
  /\ UNCHANGED <<creator, content, seen, ghosts>>

\* unlinkSync of a stale lock, an error of it ignored: the file may be another
\* user's, whose directory does not let it go.
Steal(w) ==
  /\ pc[w] = "unlink"
  /\ \/ creator' = None /\ content' = None /\ UNCHANGED stuck
     \/ stuck' = stuck \cup {w} /\ UNCHANGED <<creator, content>>
  /\ Goto(w, "reopen")
  /\ UNCHANGED <<seen, raced, met>>

\* The second and last claim.
Reopen(w) ==
  /\ pc[w] = "reopen"
  /\ TryCreate(w, "rewrite", "refused")
  /\ UNCHANGED <<seen, ghosts>>

\* release(), at the end of the work or in the SIGTERM handler; then the
\* process ends. It unlinks whatever file is there, or fails to: then what
\* Die leaves is left.
Release(w) ==
  /\ pc[w] = "held"
  /\ creator' = None
  /\ content' = None
  /\ Goto(w, "exited")
  /\ UNCHANGED <<seen, ghosts>>

\* kill -9 at any point, or acquire() throwing because the pid cannot be
\* written: the file stays behind.
Die(w) ==
  /\ Alive(w)
  /\ Goto(w, "exited")
  /\ UNCHANGED <<creator, content, seen, ghosts>>

Next ==
  \E w \in Workers :
    \/ Open(w)
    \/ WritePid(w)
    \/ ReadPid(w)
    \/ CheckPid(w)
    \/ Steal(w)
    \/ Reopen(w)
    \/ Release(w)
    \/ Die(w)

Spec == Init /\ [][Next]_vars

----------------------------------------------------------------------------
\* In particular, a pid is looked up only if the file had one.
TypeOK ==
  /\ \A w \in Workers : pc[w] = "check" => seen[w] # None
  /\ creator \in Workers \cup {None}
  /\ content \in Workers \cup {None}
  /\ pc \in [Workers -> Acquiring \cup Gone \cup {"held"}]
  /\ seen \in [Workers -> Workers \cup {None}]
  /\ raced \in BOOLEAN
  /\ {met, stuck} \subseteq SUBSET Workers

\* lock.ts: "two workers can never both believe they hold it".
MutualExclusion ==
  \A v, w \in Workers : pc[v] = "held" /\ pc[w] = "held" => v = w

\* As long as no two acquires overlap, at most one worker holds the lock, in
\* spite of kills at every step, stale files and stolen locks.
ExclusiveUnlessRaced == ~raced => MutualExclusion

\* As long as no two acquires overlap, a holder's file is in place and names
\* it, so the next worker is refused.
HolderNamed ==
  ~raced => \A w \in Workers : pc[w] = "held" => creator = w /\ content = w

\* No wedge: a worker is refused only when another process was alive during
\* its acquire(), or when it could not remove a stale lock. A lock left by a dead
\* one never refuses a worker running alone that may unlink it, whatever the dead
\* one was doing when it died.
AloneAcquires == \A w \in Workers : pc[w] = "refused" => w \in met \cup stuck
=============================================================================
