------------------------------ MODULE SourceLock ------------------------------
(***************************************************************************)
(* The lock around the cache of one external source                        *)
(* (packages/core/src/external-sources.ts: serialized,                     *)
(* acquireFilesystemLock, discardFilesystemLock).                          *)
(*                                                                         *)
(* Retrievals and cleanups of one process queue on a chain of promises     *)
(* (sourceLocks); the one whose turn it is competes with other processes   *)
(* for a lock directory.  Making the directory is atomic, everything else  *)
(* takes several file system calls: naming the owner, looking at a lock    *)
(* somebody else holds, taking away a lock that seems abandoned, and       *)
(* giving one's own lock back.  Each call is an action here, and the file   *)
(* system may refuse it (no space, an I/O error, too many open files).     *)
(***************************************************************************)
EXTENDS Naturals, FiniteSets

CONSTANTS
  Procs,       \* processes that share a vault: commands, servers, lat ui
  Tasks,       \* calls of serialized, each made at most once
  Proc,        \* the process that makes a call
  NoLock,      \* there is no lock directory
  NoTask,      \* no owner, no predecessor
  MaxAge,      \* bound: how old a lock gets, 0, Grace or Stale
  MaxCrashes,  \* bound: processes that die
  MaxRefusals  \* bound: calls that the file system refuses

ASSUME ProcAssumption == Proc \in [Tasks -> Procs] /\ NoTask \notin Tasks
ASSUME LockAssumption ==
  \A m \in Tasks, o \in Tasks \cup {NoTask}, a \in 0..2 :
    [maker |-> m, owner |-> o, age |-> a] # NoLock
ASSUME LockBoundAssumption == MaxAge \in 0..2 /\ {MaxCrashes, MaxRefusals} \subseteq Nat

VARIABLES
  lock,   \* the lock directory, with the owner that owner.json names
  alive,  \* processes that run
  tail,   \* sourceLocks of each process: its last call, if it is not over
  after,  \* the call whose end a call waits for
  pc,     \* where a call is
  seen,   \* the age statSync saw
  refusals, \* calls that the file system has refused
  robbed  \* history: a lock was taken away from a call under way

vars == <<lock, alive, tail, after, pc, seen, refusals, robbed>>

Grace == 1   \* older than LOCK_OWNER_GRACE_MS
Stale == 2   \* older than LOCK_STALE_MS

\* maker is the call that made the directory.  The program does not record it.
Lock == [maker : Tasks, owner : Tasks \cup {NoTask}, age : 0..2]
Ended == {"done", "failed"}

\* A call that has made the lock directory and has not given it back.
Working == {"owner", "held", "remove"}

Init ==
  /\ lock = NoLock /\ alive = Procs
  /\ tail = [p \in Procs |-> NoTask] /\ after = [t \in Tasks |-> NoTask]
  /\ pc = [t \in Tasks |-> "idle"] /\ seen = [t \in Tasks |-> 0]
  /\ refusals = 0 /\ robbed = FALSE

Refused == refusals < MaxRefusals /\ refusals' = refusals + 1

Goto(t, label) == pc' = [pc EXCEPT ![t] = label]

-----------------------------------------------------------------------------
(* The queue inside a process.                                             *)

\* serialized: the new call follows the last one and becomes the last one.
Enqueue(t) ==
  /\ pc[t] = "idle" /\ Proc[t] \in alive
  /\ after' = [after EXCEPT ![t] = tail[Proc[t]]]
  /\ tail' = [tail EXCEPT ![Proc[t]] = t]
  /\ Goto(t, "queued")
  /\ UNCHANGED <<lock, alive, seen, refusals, robbed>>

Turn(t) ==
  /\ pc[t] = "queued"
  /\ after[t] # NoTask => pc[after[t]] \in Ended
  /\ Goto(t, "mkdir")
  /\ UNCHANGED <<lock, alive, tail, after, seen, refusals, robbed>>

\* Defect: the entry of sourceLocks is deleted whoever it belongs to.
FinishDeletes(t, outcome) ==
  /\ Goto(t, outcome)
  /\ tail' = [tail EXCEPT ![Proc[t]] = NoTask]

\* release(), and the entry goes unless a later call has replaced it.
Finish(t, outcome) ==
  /\ Goto(t, outcome)
  /\ tail' = [tail EXCEPT ![Proc[t]] = IF @ = t THEN NoTask ELSE @]

-----------------------------------------------------------------------------
(* acquireFilesystemLock.                                                  *)

\* Defect: mkdir with "recursive" does not report EEXIST.
MakeDirectoryRecursive(t) ==
  /\ pc[t] = "mkdir"
  /\ lock' = IF lock = NoLock THEN [maker |-> t, owner |-> NoTask, age |-> 0]
             ELSE lock
  /\ Goto(t, "owner")
  /\ UNCHANGED <<alive, tail, after, seen, refusals, robbed>>

MakeDirectory(t) ==
  /\ pc[t] = "mkdir"
  /\ IF lock = NoLock
     THEN lock' = [maker |-> t, owner |-> NoTask, age |-> 0] /\ Goto(t, "owner")
     ELSE UNCHANGED lock /\ Goto(t, "look")
  /\ UNCHANGED <<alive, tail, after, seen, refusals, robbed>>

\* owner.json is written into whatever directory is there; creating the file
\* renews the directory's age.  Without a directory the call fails.
WriteOwner(t) ==
  /\ pc[t] = "owner"
  /\ IF lock = NoLock
     THEN Finish(t, "failed") /\ UNCHANGED lock
     ELSE /\ lock' = [lock EXCEPT !.owner = t,
                                  !.age = IF lock.owner = NoTask THEN 0 ELSE @]
          /\ Goto(t, "held") /\ UNCHANGED tail
  /\ UNCHANGED <<alive, after, seen, refusals, robbed>>

\* The directory exists: statSync its age.
Look(t) ==
  /\ pc[t] = "look"
  /\ IF lock = NoLock THEN Goto(t, "mkdir") /\ UNCHANGED seen
     ELSE Goto(t, "read") /\ seen' = [seen EXCEPT ![t] = lock.age]
  /\ UNCHANGED <<lock, alive, tail, after, refusals, robbed>>

\* filesystemLockOwner: null also when the file, or the directory, has gone.
OwnerNow == IF lock = NoLock THEN NoTask ELSE lock.owner

\* The age seen before and the owner read now decide.
Abandoned(t, owner) ==
  \/ seen[t] = Stale
  \/ owner # NoTask /\ Proc[owner] \notin alive
  \/ owner = NoTask /\ seen[t] >= Grace

\* An owner.json that cannot be read names nobody.
ReadOwner(t) ==
  /\ pc[t] = "read"
  /\ \/ /\ Goto(t, IF Abandoned(t, OwnerNow) THEN "discard" ELSE "wait")
        /\ UNCHANGED refusals
     \/ Refused /\ Goto(t, IF Abandoned(t, NoTask) THEN "discard" ELSE "wait")
  /\ UNCHANGED <<lock, alive, tail, after, seen, robbed>>

\* discardFilesystemLock renames whatever lock is there now.
Discard(t) ==
  /\ pc[t] = "discard"
  /\ robbed' = (robbed \/ (lock # NoLock /\ pc[lock.maker] \in Working))
  /\ lock' = NoLock
  /\ Goto(t, "mkdir")
  /\ UNCHANGED <<alive, tail, after, seen, refusals>>

\* The lock is renamed and what was renamed cannot be removed: nobody looks there.
DiscardLeavesRest(t) ==
  /\ pc[t] = "discard" /\ Refused
  /\ robbed' = (robbed \/ (lock # NoLock /\ pc[lock.maker] \in Working))
  /\ lock' = NoLock
  /\ Finish(t, "failed")
  /\ UNCHANGED <<alive, after, seen>>

\* mkdir, statSync or the rename throws something else than it is asked about, and
\* so does the call.
CallFails(t) ==
  /\ pc[t] \in {"mkdir", "look", "discard"} /\ Refused
  /\ Finish(t, "failed")
  /\ UNCHANGED <<lock, alive, after, seen, robbed>>

\* writeFile throws: the directory stays, with an owner.json that is missing or
\* torn and names nobody.
WriteOwnerFails(t) ==
  /\ pc[t] = "owner" /\ lock # NoLock /\ Refused
  /\ lock' \in {lock, [lock EXCEPT !.owner = NoTask, !.age = IF lock.owner = NoTask THEN 0 ELSE @]}
  /\ Finish(t, "failed")
  /\ UNCHANGED <<alive, after, seen, robbed>>

Retry(t) ==
  /\ pc[t] = "wait"
  /\ Goto(t, "mkdir")
  /\ UNCHANGED <<lock, alive, tail, after, seen, refusals, robbed>>

TimeOut(t) ==
  /\ pc[t] = "wait"
  /\ Finish(t, "failed")
  /\ UNCHANGED <<lock, alive, after, seen, refusals, robbed>>

-----------------------------------------------------------------------------
(* The work is over: the release function.                                 *)

\* Defect: the lock is left behind.
UnlockKeeps(t) ==
  /\ pc[t] = "held"
  /\ Finish(t, "done")
  /\ UNCHANGED <<lock, alive, after, seen, refusals, robbed>>

\* Read owner.json: a lock that is gone, or names somebody else, is let be.
Unlock(t) ==
  /\ pc[t] = "held"
  /\ IF OwnerNow = t THEN Goto(t, "remove") /\ UNCHANGED tail
     ELSE Finish(t, "done")
  /\ UNCHANGED <<lock, alive, after, seen, refusals, robbed>>

\* rm removes whatever directory has the name now.
RemoveLock(t) ==
  /\ pc[t] = "remove"
  /\ lock' = NoLock
  /\ Finish(t, "done")
  /\ UNCHANGED <<alive, after, seen, refusals, robbed>>

\* The release function throws: reading or parsing owner.json, or removing the
\* directory, of which owner.json may be gone.  The call rejects before it lets the
\* next one of its process start.
ReleaseFails(t) ==
  /\ pc[t] \in {"held", "remove"} /\ Refused
  /\ lock' \in {lock} \cup (IF pc[t] = "remove" /\ lock # NoLock
                            THEN {[lock EXCEPT !.owner = NoTask, !.age = 0]} ELSE {})
  /\ Goto(t, "stuck")
  /\ UNCHANGED <<alive, tail, after, seen, robbed>>

-----------------------------------------------------------------------------
Refusal(t) ==
  CallFails(t) \/ DiscardLeavesRest(t) \/ WriteOwnerFails(t) \/ ReleaseFails(t)

Step(t) ==
  \/ Turn(t) \/ MakeDirectory(t) \/ WriteOwner(t) \/ Look(t) \/ ReadOwner(t)
  \/ Discard(t) \/ Retry(t) \/ Unlock(t) \/ RemoveLock(t)

\* A process dies with all its calls; the lock directory stays.
Crash(p) ==
  /\ p \in alive /\ Cardinality(Procs \ alive) < MaxCrashes
  /\ alive' = alive \ {p}
  /\ pc' = [t \in Tasks |-> IF Proc[t] = p /\ pc[t] \notin Ended
                            THEN "dead" ELSE pc[t]]
  /\ UNCHANGED <<lock, tail, after, seen, refusals, robbed>>

Age ==
  /\ lock # NoLock
  /\ lock.age < MaxAge
  /\ lock' = [lock EXCEPT !.age = @ + 1]
  /\ UNCHANGED <<alive, tail, after, pc, seen, refusals, robbed>>

Next ==
  \/ \E t \in Tasks : Enqueue(t) \/ Step(t) \/ TimeOut(t) \/ Refusal(t)
  \/ \E p \in Procs : Crash(p)
  \/ Age

Spec == Init /\ [][Next]_vars

\* Processes that run take their steps and time passes.  Nobody has to time
\* out, to call or to die, and no call has to be refused.
FairSpec == Spec /\ WF_vars(Age) /\ \A t \in Tasks : WF_vars(Step(t))

-----------------------------------------------------------------------------
TypeOK ==
  /\ lock = NoLock \/ lock \in Lock
  /\ alive \subseteq Procs
  /\ tail \in [Procs -> Tasks \cup {NoTask}]
  /\ after \in [Tasks -> Tasks \cup {NoTask}]
  /\ pc \in [Tasks -> Ended \cup {"idle", "queued", "mkdir", "owner", "held",
                                  "look", "read", "discard", "wait", "remove",
                                  "stuck", "dead"}]
  /\ seen \in [Tasks -> 0..2] /\ refusals \in Nat
  /\ robbed \in BOOLEAN

\* Calls that read or write the cache now.
Holders == {t \in Tasks : pc[t] = "held"}

\* At most one call works on the cache.
MutualExclusion == \A t, u \in Holders : t = u

\* The exclusion, which external-sources.md promises ("concurrent commands and
\* server requests cannot publish competing generations"), holds as long as no
\* lock is taken from a call under way, as a waiter may do that has judged a lock
\* abandoned and takes away the one another call has made since, or that cannot read
\* the owner of an old one: neither releasing, nor failing, nor dying, nor taking
\* away the lock of a call that failed or died lets two calls in.
ExclusiveUnlessRobbed == robbed \/ MutualExclusion

\* The promise chain alone, whatever happens to the lock directory: of one
\* process at most one call is between its turn and its end.
OneCallPerProcess ==
  \A t, u \in Tasks :
    /\ Proc[t] = Proc[u]
    /\ pc[t] \notin Ended \cup {"idle", "queued", "dead"}
    /\ pc[u] \notin Ended \cup {"idle", "queued", "dead"}
    => t = u

\* A call leaves a lock behind only if it died, or the file system refused to
\* remove the lock, or it refused to name the owner: then nobody is named, so that
\* the next waiter need not wait until the lock is stale.
LocksAreReleased ==
  lock # NoLock /\ ~robbed =>
    \/ pc[lock.maker] \in Working \cup {"dead", "stuck"}
    \/ pc[lock.maker] = "failed" /\ lock.owner = NoTask

\* Every call gets its turn and ends, also behind a process that died with the
\* lock, before or after it named itself the owner, and behind a lock that a call
\* could not name or give back: unless a call of its own process could not.
CallsEnd ==
  \A t \in Tasks :
    pc[t] = "queued" ~> \/ pc[t] \in Ended \cup {"dead", "stuck"}
                        \/ \E u \in Tasks : Proc[u] = Proc[t] /\ pc[u] = "stuck"

\* The calls of a process take turns: no step lets a second one in, and each comes
\* to its end.
CallsTakeTurns == [][OneCallPerProcess']_vars /\ CallsEnd
=============================================================================
