------------------------------ MODULE SearchLock ------------------------------
(***************************************************************************)
(* Who may touch .cache/search.db (src/search/lock.ts, acquireSearchAccess)*)
(*                                                                         *)
(* Two lock files of the kernel: search-access.lock is taken shared by     *)
(* queries and exclusively by whoever copies or replaces the database;     *)
(* search-access-gate.lock is held while one waits for the first, so that  *)
(* new queries cannot overtake a writer that waits for the old ones.       *)
(* Locks are polled, never queued for, and a process that dies loses them. *)
(***************************************************************************)
CONSTANTS
  Procs   \* processes that use the cache directory

VARIABLES
  acc,   \* where each process is: "out", "gate", "access" or "in"
  mode   \* how it wants, or has, the access lock

locks == <<acc, mode>>

Modes == {"shared", "exclusive"}

LockInit ==
  /\ acc = [p \in Procs |-> "out"]
  /\ mode = [p \in Procs |-> "shared"]

\* The kernel's locks: the gate is held while one polls the access lock.
Gate == {p \in Procs : acc[p] = "access"}
Inside(m) == {p \in Procs : acc[p] = "in" /\ mode[p] = m}

Move(p, place) == acc' = [acc EXCEPT ![p] = place]

Request(p, m) ==
  /\ acc[p] = "out"
  /\ Move(p, "gate")
  /\ mode' = [mode EXCEPT ![p] = m]

\* Defect: the gate is given back before the access lock is taken.
PassGateFreely(p) ==
  /\ acc[p] = "gate"
  /\ Move(p, "access")
  /\ UNCHANGED mode

\* tryLock succeeds on the gate.
PassGate(p) ==
  /\ acc[p] = "gate"
  /\ Gate = {}
  /\ Move(p, "access")
  /\ UNCHANGED mode

Compatible(m) ==
  /\ Inside("exclusive") = {}
  /\ m = "exclusive" => Inside("shared") = {}

\* tryLock succeeds on the access lock, and the gate is given back.
Enter(p) ==
  /\ acc[p] = "access"
  /\ Compatible(mode[p])
  /\ Move(p, "in")
  /\ UNCHANGED mode

Release(p) ==
  /\ acc[p] = "in"
  /\ Move(p, "out")
  /\ UNCHANGED mode

\* The deadline has passed, or the process dies.
GiveUp(p) == Move(p, "out") /\ UNCHANGED mode

LockNext ==
  \E p \in Procs :
    \/ \E m \in Modes : Request(p, m)
    \/ PassGate(p) \/ Enter(p) \/ Release(p) \/ GiveUp(p)

LockSpec == LockInit /\ [][LockNext]_locks

-----------------------------------------------------------------------------
\* What the two lock files promise: shared holders only coexist with shared
\* holders, and at most one process waits in front of them.
AccessIsCompatible ==
  /\ \A p, q \in Procs : p \in Inside("exclusive") /\ acc[q] = "in" => p = q
  /\ \A p, q \in Gate : p = q
=============================================================================
