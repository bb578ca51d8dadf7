----------------------------- MODULE WriterProofs -----------------------------
(***************************************************************************)
(* Theorems about SourceLock, Editor, SiteBuild and IndexFix: who may      *)
(* write the cache of an external source, what a user writes in the view,  *)
(* what is published of it, and what `lat check --fix` writes.             *)
(*                                                                         *)
(* Of the lock: it is exclusive until somebody takes it from a process     *)
(* that runs, for any number of processes and calls.  Of the editor: no    *)
(* typed text is lost, no dirty draft is left unasked and no save is       *)
(* replayed, whatever is typed, saved, written and navigated meanwhile.    *)
(* Of a build: the site that it puts is closed, whatever the files say and *)
(* however they change meanwhile.  Of a fixing run: what it leaves needs   *)
(* no other, and authors keep their text.                                  *)
(***************************************************************************)
EXTENDS SourceLock, Editor, SiteBuild, IndexFix, FiniteSetTheorems, SequenceTheorems,
        WellFoundedInduction, NaturalsInduction, TLAPS

(***************************************************************************)
(* The lock of an external source.                                         *)
(***************************************************************************)
Labels == Ended \cup {"idle", "queued", "mkdir", "owner", "held", "look", "read",
                      "discard", "wait", "remove", "stuck", "dead"}

\* A call that has made the directory finds its own lock there.
OwnsLock ==
  \A t \in Tasks : pc[t] \in Working =>
    /\ lock # NoLock /\ lock.maker = t
    /\ lock.owner = IF pc[t] = "owner" THEN NoTask ELSE t

\* A process that died takes no more steps.
DeadRest == \A t \in Tasks : Proc[t] \notin alive => pc[t] \in Ended \cup {"dead"}

LockInv ==
  /\ TypeOK
  /\ DeadRest
  /\ ~robbed => OwnsLock /\ LocksAreReleased

LEMMA LockInitially == Init => LockInv
<1> SUFFICES ASSUME Init PROVE LockInv
  OBVIOUS
<1>1. TypeOK
  <2>1. pc \in [Tasks -> {"idle"}] /\ seen \in [Tasks -> 0..2]
    BY DEF Init
  <2>2. tail \in [Procs -> Tasks \cup {NoTask}]
    BY DEF Init
  <2>3. after \in [Tasks -> Tasks \cup {NoTask}]
    BY DEF Init
  <2> QED
    BY <2>1, <2>2, <2>3, LockBoundAssumption DEF Init, TypeOK
<1>2. DeadRest
  BY ProcAssumption DEF Init, DeadRest
<1>3. OwnsLock /\ LocksAreReleased
  BY DEF Init, OwnsLock, LocksAreReleased, Working
<1> QED
  BY <1>1, <1>2, <1>3 DEF LockInv

\* Writing owner.json names the owner, and only a new file renews the age.
LEMMA WriteOwnerLock ==
  ASSUME TypeOK, NEW t \in Tasks, WriteOwner(t), lock # NoLock
  PROVE  lock' \in Lock /\ lock'.maker = lock.maker /\ lock'.owner = t
<1> DEFINE a == IF lock.owner = NoTask THEN 0 ELSE lock.age
<1>1. lock \in Lock
  BY DEF TypeOK
<1>2. lock' = [lock EXCEPT !.owner = t, !.age = a]
  BY DEF WriteOwner
<1>3. a \in 0..2
  BY <1>1 DEF Lock
<1> HIDE DEF a
<1> QED
  BY <1>1, <1>2, <1>3 DEF Lock

\* A lock without an owner.json that can be read is a lock of the same call.
LEMMA UnnamedLock ==
  ASSUME TypeOK, NEW t \in Tasks, WriteOwnerFails(t) \/ ReleaseFails(t)
  PROVE  \/ lock' = lock
         \/ lock' \in Lock /\ lock' # NoLock /\ lock'.maker = lock.maker /\ lock'.owner = NoTask
<1> SUFFICES ASSUME lock' # lock
             PROVE  lock' \in Lock /\ lock' # NoLock /\ lock'.maker = lock.maker /\ lock'.owner = NoTask
  OBVIOUS
<1>1. lock # NoLock /\ lock \in Lock
  BY DEF WriteOwnerFails, ReleaseFails, TypeOK
<1>2. PICK a \in 0..2 : lock' = [lock EXCEPT !.owner = NoTask, !.age = a]
  <2>1. lock.age \in 0..2 /\ 0 \in 0..2
    BY <1>1 DEF Lock
  <2> QED
    BY <2>1 DEF WriteOwnerFails, ReleaseFails
<1>3. lock' = [maker |-> lock.maker, owner |-> NoTask, age |-> a] /\ lock.maker \in Tasks
  BY <1>1, <1>2 DEF Lock
<1> QED
  BY <1>3, LockAssumption DEF Lock

LEMMA FinishTypes ==
  ASSUME TypeOK, NEW t \in Tasks, NEW o \in Ended, Finish(t, o)
  PROVE  /\ tail' \in [Procs -> Tasks \cup {NoTask}] /\ pc' \in [Tasks -> Labels]
         /\ pc' = [pc EXCEPT ![t] = o]
BY ProcAssumption DEF Finish, Goto, TypeOK, Labels

LEMMA StepTypes ==
  ASSUME TypeOK, NEW t \in Tasks, Enqueue(t) \/ Step(t) \/ TimeOut(t) \/ Refusal(t)
  PROVE  TypeOK'
<1>0. Refused => refusals' \in Nat
  BY DEF Refused, TypeOK
<1>1. CASE Enqueue(t) \/ Turn(t)
  BY <1>1, ProcAssumption DEF Enqueue, Turn, Goto, TypeOK, Ended
<1>2. CASE MakeDirectory(t)
  <2>1. lock' = lock \/ lock' \in Lock
    BY <1>2, LockAssumption DEF MakeDirectory, Lock
  <2> QED
    BY <1>2, <2>1 DEF MakeDirectory, Goto, TypeOK, Ended
<1>3. CASE WriteOwner(t)
  <2>1. CASE lock = NoLock
    BY <1>3, <2>1, FinishTypes DEF WriteOwner, TypeOK, Ended, Labels
  <2>2. CASE lock # NoLock
    BY <1>3, <2>2, WriteOwnerLock DEF WriteOwner, Goto, TypeOK, Ended
  <2> QED
    BY <2>1, <2>2
<1>4. CASE Look(t)
  BY <1>4 DEF Look, Goto, TypeOK, Ended, Lock
<1>5. CASE ReadOwner(t) \/ Retry(t)
  BY <1>0, <1>5 DEF ReadOwner, Retry, Goto, TypeOK, Ended
<1>6. CASE Discard(t)
  BY <1>6 DEF Discard, Goto, TypeOK, Ended
<1>7. CASE TimeOut(t)
  BY <1>7, FinishTypes DEF TimeOut, TypeOK, Ended, Labels
<1>8. CASE Unlock(t)
  <2>1. CASE OwnerNow = t
    BY <1>8, <2>1 DEF Unlock, Goto, TypeOK, Ended
  <2>2. CASE OwnerNow # t
    BY <1>8, <2>2, FinishTypes DEF Unlock, TypeOK, Ended, Labels
  <2> QED
    BY <2>1, <2>2
<1>9. CASE RemoveLock(t)
  BY <1>9, FinishTypes DEF RemoveLock, TypeOK, Ended, Labels
<1>10. CASE CallFails(t) \/ DiscardLeavesRest(t)
  BY <1>0, <1>10, FinishTypes DEF CallFails, DiscardLeavesRest, TypeOK, Ended, Labels
<1>11. CASE WriteOwnerFails(t)
  BY <1>0, <1>11, FinishTypes, UnnamedLock DEF WriteOwnerFails, TypeOK, Ended, Labels
<1>12. CASE ReleaseFails(t)
  BY <1>0, <1>12, UnnamedLock DEF ReleaseFails, Goto, TypeOK, Ended
<1> QED
  BY <1>1, <1>2, <1>3, <1>4, <1>5, <1>6, <1>7, <1>8, <1>9, <1>10, <1>11, <1>12 DEF Step, Refusal

LEMMA OtherTypes ==
  ASSUME TypeOK, (\E p \in Procs : Crash(p)) \/ Age
  PROVE  TypeOK'
<1>1. ASSUME NEW p \in Procs, Crash(p) PROVE TypeOK'
  BY <1>1 DEF Crash, TypeOK
<1>2. ASSUME Age PROVE TypeOK'
  <2>1. lock \in Lock /\ lock.age < 2
    BY <1>2, LockBoundAssumption DEF Age, TypeOK, Lock
  <2>2. lock' \in Lock
    BY <1>2, <2>1 DEF Age, Lock
  <2> QED
    BY <1>2, <2>2 DEF Age, TypeOK
<1> QED
  BY <1>1, <1>2

\* A call that is between two calls of the file system does not own the lock.
LEMMA StepKeepsLock ==
  ASSUME LockInv, ~robbed, TypeOK', NEW t \in Tasks,
         Enqueue(t) \/ Step(t) \/ TimeOut(t) \/ Refusal(t), ~robbed'
  PROVE  OwnsLock' /\ LocksAreReleased'
<1> USE DEF LockInv, OwnsLock, LocksAreReleased, Working, Goto, Ended
<1>1. CASE Enqueue(t) \/ Turn(t) \/ Look(t) \/ ReadOwner(t) \/ Retry(t)
  BY <1>1 DEF Enqueue, Turn, Look, ReadOwner, Retry, TypeOK, Lock
<1>2. CASE MakeDirectory(t)
  <2>1. CASE lock = NoLock
    <3>1. lock' = [maker |-> t, owner |-> NoTask, age |-> 0]
      BY <1>2, <2>1 DEF MakeDirectory
    <3>2. lock' # NoLock /\ lock'.maker = t /\ lock'.owner = NoTask
      BY <3>1, LockAssumption
    <3>3. \A u \in Tasks : pc[u] \notin Working
      BY <2>1
    <3> QED
      BY <1>2, <2>1, <3>2, <3>3 DEF MakeDirectory, TypeOK
  <2>2. CASE lock # NoLock
    BY <1>2, <2>2 DEF MakeDirectory, TypeOK, Lock
  <2> QED
    BY <2>1, <2>2
<1>3. CASE WriteOwner(t)
  <2>1. lock # NoLock /\ lock \in Lock /\ lock.maker = t
    BY <1>3 DEF WriteOwner, TypeOK
  <2>2. lock' \in Lock /\ lock'.maker = t /\ lock'.owner = t
    BY <1>3, <2>1, WriteOwnerLock
  <2>3. lock' # NoLock
    <3>1. lock' = [maker |-> lock'.maker, owner |-> lock'.owner,
                   age |-> lock'.age]
      BY <2>2 DEF Lock
    <3> QED
      BY <2>2, <3>1, LockAssumption DEF Lock
  <2>4. \A u \in Tasks : u # t => pc[u] \notin Working
    BY <2>1
  <2> QED
    BY <1>3, <2>1, <2>2, <2>3, <2>4 DEF WriteOwner, TypeOK
<1>4. CASE Discard(t) \/ DiscardLeavesRest(t)
  <2>1. \A u \in Tasks : pc[u] \notin Working
    BY <1>4 DEF Discard, DiscardLeavesRest
  <2>2. lock' = NoLock /\ \E l \in {"mkdir", "failed"} : pc' = [pc EXCEPT ![t] = l]
    BY <1>4 DEF Discard, DiscardLeavesRest, Finish
  <2> QED
    BY <2>1, <2>2 DEF TypeOK
<1>5. CASE TimeOut(t)
  <2>1. pc' = [pc EXCEPT ![t] = "failed"] /\ lock' = lock /\ pc[t] = "wait"
    BY <1>5 DEF TimeOut, Finish
  <2> QED
    BY <2>1 DEF TypeOK, Lock
<1>6. CASE Unlock(t)
  <2>1. OwnerNow = t
    BY <1>6 DEF Unlock, OwnerNow
  <2> QED
    BY <1>6, <2>1 DEF Unlock, TypeOK, Lock
<1>7. CASE RemoveLock(t)
  <2>1. \A u \in Tasks : u # t => pc[u] \notin Working
    BY <1>7 DEF RemoveLock
  <2>2. pc' = [pc EXCEPT ![t] = "done"] /\ lock' = NoLock
    BY <1>7 DEF RemoveLock, Finish
  <2> QED
    BY <2>1, <2>2 DEF TypeOK
<1>8. CASE CallFails(t)
  <2>1. pc' = [pc EXCEPT ![t] = "failed"] /\ lock' = lock /\ pc[t] \in {"mkdir", "look", "discard"}
    BY <1>8 DEF CallFails, Finish
  <2> QED
    BY <2>1 DEF TypeOK, Lock
<1>9. CASE WriteOwnerFails(t)
  <2>1. pc' = [pc EXCEPT ![t] = "failed"] /\ lock.maker = t /\ lock.owner = NoTask
    BY <1>9 DEF WriteOwnerFails, Finish
  <2>2. \/ lock' = lock
        \/ lock' # NoLock /\ lock'.maker = t /\ lock'.owner = NoTask
    BY <1>9, <2>1, UnnamedLock
  <2>3. \A u \in Tasks : u # t => pc[u] \notin Working
    BY <2>1
  <2> QED
    BY <2>1, <2>2, <2>3 DEF TypeOK
<1>10. CASE ReleaseFails(t)
  <2>1. pc' = [pc EXCEPT ![t] = "stuck"] /\ lock # NoLock /\ lock.maker = t
    BY <1>10 DEF ReleaseFails
  <2>2. lock' # NoLock /\ lock'.maker = t
    BY <1>10, <2>1, UnnamedLock
  <2>3. \A u \in Tasks : u # t => pc[u] \notin Working
    BY <2>1
  <2> QED
    BY <2>1, <2>2, <2>3 DEF TypeOK
<1> QED
  BY <1>1, <1>2, <1>3, <1>4, <1>5, <1>6, <1>7, <1>8, <1>9, <1>10 DEF Step, Refusal

LEMMA StepRests ==
  ASSUME LockInv, NEW t \in Tasks, Enqueue(t) \/ Step(t) \/ TimeOut(t) \/ Refusal(t)
  PROVE  DeadRest'
<1> USE DEF Refusal, CallFails, DiscardLeavesRest, WriteOwnerFails, ReleaseFails
<1>1. alive' = alive /\ Proc[t] \in alive
  BY DEF Enqueue, Step, TimeOut, Turn, MakeDirectory, WriteOwner, Look, ReadOwner,
         Retry, Discard, Unlock, RemoveLock, LockInv, DeadRest, Ended
<1>2. \A u \in Tasks : u # t => pc'[u] = pc[u]
  BY DEF Enqueue, Step, TimeOut, Turn, MakeDirectory, WriteOwner, Look, ReadOwner,
         Retry, Discard, Unlock, RemoveLock, Goto, Finish, LockInv, TypeOK
<1> QED
  BY <1>1, <1>2 DEF LockInv, DeadRest

LEMMA LockInductive == LockInv /\ [Next]_vars => LockInv'
<1> SUFFICES ASSUME LockInv, [Next]_vars PROVE LockInv'
  OBVIOUS
<1>1. ASSUME NEW t \in Tasks, Enqueue(t) \/ Step(t) \/ TimeOut(t) \/ Refusal(t)
      PROVE  LockInv'
  <2>1. TypeOK'
    BY <1>1, StepTypes DEF LockInv
  <2>2. ~robbed' => ~robbed
    BY <1>1 DEF Enqueue, Step, TimeOut, Turn, MakeDirectory, WriteOwner, Look,
                ReadOwner, Retry, Discard, Unlock, RemoveLock, Refusal, CallFails,
                DiscardLeavesRest, WriteOwnerFails, ReleaseFails
  <2> QED
    BY <1>1, <2>1, <2>2, StepKeepsLock, StepRests DEF LockInv
<1>2. ASSUME NEW p \in Procs, Crash(p)
      PROVE  LockInv'
  <2>1. TypeOK'
    BY <1>2, OtherTypes DEF LockInv
  <2>2. \A t \in Tasks : pc'[t] = pc[t] \/ pc'[t] = "dead"
    BY <1>2 DEF Crash
  <2>3. DeadRest'
    BY <1>2 DEF Crash, LockInv, DeadRest, Ended
  <2>4. ~robbed' => OwnsLock' /\ LocksAreReleased'
    BY <1>2, <2>2 DEF Crash, LockInv, OwnsLock, LocksAreReleased, Working, TypeOK,
                      Lock
  <2> QED
    BY <2>1, <2>3, <2>4 DEF LockInv
<1>3. ASSUME Age
      PROVE  LockInv'
  <2>1. TypeOK'
    BY <1>3, OtherTypes DEF LockInv
  <2>2. lock \in Lock /\ lock' = [lock EXCEPT !.age = @ + 1]
    BY <1>3 DEF Age, LockInv, TypeOK
  <2>3. lock'.maker = lock.maker /\ lock'.owner = lock.owner
    BY <2>2 DEF Lock
  <2>4. lock' # NoLock
    <3>1. lock.age + 1 \in 0..2
      BY <1>3, <2>2, LockBoundAssumption DEF Age, Lock
    <3>2. lock' = [maker |-> lock.maker, owner |-> lock.owner,
                   age |-> lock.age + 1]
      BY <2>2 DEF Lock
    <3> QED
      BY <2>2, <3>1, <3>2, LockAssumption DEF Lock
  <2> QED
    BY <1>3, <2>1, <2>3, <2>4 DEF Age, LockInv, DeadRest, OwnsLock, LocksAreReleased
<1>4. CASE UNCHANGED vars
  BY <1>4 DEF vars, LockInv, TypeOK, DeadRest, OwnsLock, LocksAreReleased
<1> QED
  BY <1>1, <1>2, <1>3, <1>4 DEF Next

\* As long as no waiter takes the lock from a call under way, at most one call,
\* of whatever process, works on the cache: releasing, failing, dying and
\* reclaiming the lock of a call that died or failed keep the exclusion.
THEOREM LockIsExclusive == Spec => []ExclusiveUnlessRobbed
<1>1. LockInv => ExclusiveUnlessRobbed
  BY DEF LockInv, OwnsLock, Working, ExclusiveUnlessRobbed, MutualExclusion, Holders
<1> QED
  BY <1>1, LockInitially, LockInductive, PTL DEF Spec

\* Under the same condition a lock directory always belongs to a call under way,
\* to a process that died, or to a call that was refused its release or its name,
\* and then it names nobody: nothing else that a live call does leaves one behind.
THEOREM NoLockIsLeftBehind == Spec => []LocksAreReleased
<1>1. LockInv => LocksAreReleased
  BY DEF LockInv, LocksAreReleased
<1> QED
  BY <1>1, LockInitially, LockInductive, PTL DEF Spec

(***************************************************************************)
(* The promise chain.  A call follows the last call of its process; the    *)
(* first in line is the one whose predecessor, if any, has ended.          *)
(***************************************************************************)
InTurn == Labels \ (Ended \cup {"idle", "queued", "dead"})

Live == {t \in Tasks : pc[t] \in InTurn \cup {"queued"}}

First(t) == after[t] = NoTask \/ pc[after[t]] \in Ended

\* Only a call that was made is waited for, and by one call of its own process.
Predecessors ==
  /\ \A t \in Tasks : pc[t] = "dead" => Proc[t] \notin alive
  /\ \A t \in Tasks : after[t] # NoTask => pc[after[t]] # "idle" /\ Proc[after[t]] = Proc[t]
  /\ \A t, u \in Live : after[t] = after[u] /\ after[t] # NoTask => t = u

\* The tail is the last call that is not over; nobody follows it yet.
TailIsLast ==
  \A p \in alive :
    /\ tail[p] = NoTask => \A t \in Live : Proc[t] # p
    /\ tail[p] # NoTask => /\ tail[p] \in Live /\ Proc[tail[p]] = p
                         /\ \A t \in Live : after[t] # tail[p]

\* Calls do not wait for one another in a circle.
NoCircle == \A S \in SUBSET Tasks : S # {} => \E t \in S : after[t] \notin S

\* One call of a process is first in line, and only that one has its turn.
OneFirst ==
  /\ \A t \in Live : pc[t] # "queued" => First(t)
  /\ \A t, u \in Live : Proc[t] = Proc[u] /\ First(t) /\ First(u) => t = u

ChainInv == LockInv /\ Predecessors /\ TailIsLast /\ NoCircle /\ OneFirst

LEMMA ChainInitially == Init => ChainInv
<1> SUFFICES ASSUME Init PROVE ChainInv
  OBVIOUS
<1>1. LockInv
  BY LockInitially
<1>2. Live = {}
  BY DEF Init, Live, InTurn, Labels
<1>3. NoCircle
  BY ProcAssumption DEF Init, NoCircle
<1> QED
  BY <1>1, <1>2, <1>3 DEF Init, ChainInv, Predecessors, TailIsLast, OneFirst

LEMMA EnqueueKeepsChain ==
  ASSUME ChainInv, NEW t \in Tasks, Enqueue(t)
  PROVE  Predecessors' /\ TailIsLast' /\ NoCircle' /\ OneFirst'
<1> USE ProcAssumption DEF ChainInv, LockInv, TypeOK
<1>1. /\ pc' = [pc EXCEPT ![t] = "queued"] /\ pc[t] = "idle" /\ Proc[t] \in alive
      /\ after' = [after EXCEPT ![t] = tail[Proc[t]]]
      /\ tail' = [tail EXCEPT ![Proc[t]] = t] /\ alive' = alive
  BY DEF Enqueue, Goto
<1>2. Live' = Live \cup {t} /\ t \notin Live
  BY <1>1 DEF Live, InTurn, Labels
<1>3. \A u \in Tasks : after[u] # t
  BY <1>1 DEF Predecessors
<1>4. \A u \in Tasks \ {t} : after'[u] = after[u] /\ pc'[u] = pc[u]
  BY <1>1
<1>5. after'[t] = tail[Proc[t]] /\ pc'[t] = "queued" /\ after'[t] # t
  BY <1>1, <1>2 DEF TailIsLast
<1>6. tail[Proc[t]] # NoTask => tail[Proc[t]] \in Live /\ Proc[tail[Proc[t]]] = Proc[t]
                              /\ \A u \in Live : after[u] # tail[Proc[t]]
  BY <1>1 DEF TailIsLast
<1>7. tail[Proc[t]] = NoTask => \A u \in Live : Proc[u] # Proc[t]
  BY <1>1 DEF TailIsLast
<1>8. Predecessors'
  <2>1. \A u \in Tasks : pc'[u] = "dead" => Proc[u] \notin alive'
    BY <1>1, <1>4, <1>5 DEF Predecessors
  <2>2. \A u \in Tasks : after'[u] # NoTask => pc'[after'[u]] # "idle" /\ Proc[after'[u]] = Proc[u]
    BY <1>3, <1>4, <1>5, <1>6 DEF Predecessors, Live, InTurn, Labels
  <2>3. \A u, v \in Live' : after'[u] = after'[v] /\ after'[u] # NoTask => u = v
    BY <1>2, <1>4, <1>5, <1>6 DEF Predecessors, Live
  <2> QED
    BY <2>1, <2>2, <2>3 DEF Predecessors
<1>9. TailIsLast'
  <2> SUFFICES ASSUME NEW p \in alive
               PROVE  /\ tail'[p] = NoTask => \A u \in Live' : Proc[u] # p
                      /\ tail'[p] # NoTask => /\ tail'[p] \in Live' /\ Proc[tail'[p]] = p
                                            /\ \A u \in Live' : after'[u] # tail'[p]
    BY <1>1 DEF TailIsLast
  <2>1. CASE p = Proc[t]
    BY <1>1, <1>2, <1>3, <1>4, <1>5, <2>1 DEF Live
  <2>2. CASE p # Proc[t]
    <3>1. tail'[p] = tail[p]
      BY <1>1, <2>2
    <3> QED
      BY <1>2, <1>4, <1>5, <1>6, <2>2, <3>1 DEF TailIsLast, Live
  <2> QED
    BY <2>1, <2>2
<1>10. NoCircle'
  <2> SUFFICES ASSUME NEW S \in SUBSET Tasks, S # {} PROVE \E u \in S : after'[u] \notin S
    BY DEF NoCircle
  <2>1. CASE S \subseteq {t}
    BY <1>5, <2>1
  <2>2. CASE ~(S \subseteq {t})
    <3>1. PICK u \in S \ {t} : after[u] \notin S \ {t}
      BY <2>2 DEF NoCircle
    <3> QED
      BY <1>3, <1>4, <3>1
  <2> QED
    BY <2>1, <2>2
<1>11. OneFirst'
  <2>1. \A u \in Live : First(u)' = First(u)
    BY <1>1, <1>2, <1>3, <1>4 DEF First, Live
  <2>2. First(t)' => \A u \in Live : Proc[u] # Proc[t]
    BY <1>4, <1>5, <1>6, <1>7 DEF First, Live, InTurn, Ended
  <2>3. \A u \in Live' : pc'[u] # "queued" => First(u)'
    <3>1. \A u \in Live : pc'[u] = pc[u]
      BY <1>2, <1>4 DEF Live
    <3> QED
      BY <1>2, <1>5, <2>1, <3>1 DEF OneFirst
  <2>4. \A u, v \in Live' : Proc[u] = Proc[v] /\ First(u)' /\ First(v)' => u = v
    BY <1>2, <2>1, <2>2 DEF OneFirst
  <2> QED
    BY <2>3, <2>4 DEF OneFirst
<1> QED
  BY <1>8, <1>9, <1>10, <1>11

\* A call that has its turn goes on, or takes it.
LEMMA MoveKeepsChain ==
  ASSUME ChainInv, NEW t \in Live, NEW l \in InTurn, Goto(t, l),
         pc[t] = "queued" => First(t), UNCHANGED <<alive, tail, after>>
  PROVE  Predecessors' /\ TailIsLast' /\ NoCircle' /\ OneFirst'
<1> USE DEF ChainInv, LockInv, TypeOK
<1>1. Live' = Live
  BY DEF Live, Goto, InTurn, Labels
<1>2. \A u \in Tasks : (pc'[u] \in Ended <=> pc[u] \in Ended) /\ (pc'[u] = "idle" <=> pc[u] = "idle")
                      /\ (pc'[u] = "dead" <=> pc[u] = "dead")
  BY DEF Live, Goto, InTurn, Labels, Ended
<1>3. \A u \in Tasks : First(u)' = First(u)
  BY <1>2 DEF First
<1>4. OneFirst'
  <2>1. \A u \in Live : pc'[u] = pc[u] \/ u = t
    BY DEF Goto, Live
  <2>2. First(t)
    BY DEF OneFirst
  <2>3. \A u \in Live : First(u)' = First(u)
    BY <1>3 DEF Live
  <2>4. \A u \in Live' : pc'[u] # "queued" => First(u)'
    BY <1>1, <2>1, <2>2, <2>3 DEF OneFirst
  <2>5. \A u, v \in Live' : Proc[u] = Proc[v] /\ First(u)' /\ First(v)' => u = v
    BY <1>1, <2>3 DEF OneFirst
  <2> QED
    BY <2>4, <2>5 DEF OneFirst
<1>5. Predecessors'
  <2>1. \A u \in Tasks : after[u] # NoTask => after[u] \in Tasks
    OBVIOUS
  <2> QED
    BY <1>1, <1>2, <2>1 DEF Predecessors
<1>6. TailIsLast' /\ NoCircle'
  BY <1>1 DEF TailIsLast, NoCircle
<1> QED
  BY <1>4, <1>5, <1>6

\* When the last call of a process ends, no other is left: one would wait, in
\* the end, for a call that nobody may follow.
LEMMA LastIsAlone ==
  ASSUME ChainInv, NEW t \in Live, First(t), Proc[t] \in alive, tail[Proc[t]] = t
  PROVE  \A u \in Live : Proc[u] = Proc[t] => u = t
<1> DEFINE S == {u \in Live : Proc[u] = Proc[t] /\ u # t}
<1> SUFFICES ASSUME S # {} PROVE FALSE
  OBVIOUS
<1>1. PICK u \in S : after[u] \notin S
  BY DEF ChainInv, NoCircle, Live
<1>2. ~First(u)
  BY <1>1 DEF ChainInv, OneFirst
<1>3. after[u] \in Tasks /\ pc[after[u]] \notin Ended \cup {"idle"} /\ Proc[after[u]] = Proc[t]
  BY <1>1, <1>2 DEF ChainInv, LockInv, TypeOK, Predecessors, First, Live
<1>4. pc[after[u]] # "dead"
  BY <1>3 DEF ChainInv, Predecessors
<1>5. after[u] \in Live
  BY <1>3, <1>4 DEF ChainInv, LockInv, TypeOK, Live, InTurn, Labels
<1>6. after[u] # t
  BY <1>1, ProcAssumption DEF ChainInv, TailIsLast, Live
<1> QED
  BY <1>1, <1>3, <1>5, <1>6

LEMMA FinishKeepsChain ==
  ASSUME ChainInv, NEW t \in Tasks, pc[t] \in InTurn, NEW o \in Ended, Finish(t, o),
         UNCHANGED <<alive, after>>
  PROVE  Predecessors' /\ TailIsLast' /\ NoCircle' /\ OneFirst'
<1> USE ProcAssumption DEF ChainInv, LockInv, TypeOK
<1>1. /\ pc' = [pc EXCEPT ![t] = o]
      /\ tail' = [tail EXCEPT ![Proc[t]] = IF tail[Proc[t]] = t THEN NoTask ELSE tail[Proc[t]]]
  BY DEF Finish, Goto
<1>2. t \in Live /\ Live' = Live \ {t} /\ o # "queued"
  BY <1>1 DEF Live, InTurn, Labels, Ended
<1>3. First(t) /\ Proc[t] \in alive
  BY <1>2 DEF OneFirst, InTurn, DeadRest
<1>4. Predecessors'
  BY <1>1, <1>2 DEF Predecessors, Ended
<1>5. TailIsLast'
  <2> SUFFICES ASSUME NEW p \in alive
               PROVE  /\ tail'[p] = NoTask => \A u \in Live' : Proc[u] # p
                      /\ tail'[p] # NoTask => /\ tail'[p] \in Live' /\ Proc[tail'[p]] = p
                                            /\ \A u \in Live' : after[u] # tail'[p]
    BY DEF TailIsLast
  <2>1. CASE p = Proc[t] /\ tail[p] = t
    BY <1>1, <1>2, <1>3, <2>1, LastIsAlone
  <2>2. CASE p # Proc[t] \/ tail[p] # t
    <3>1. tail'[p] = tail[p] /\ tail[p] # t
      BY <1>1, <2>2 DEF TailIsLast
    <3> QED
      BY <1>2, <3>1, <2>2 DEF TailIsLast
  <2> QED
    BY <2>1, <2>2
<1>6. OneFirst'
  <2>1. \A u \in Live' : First(u)' => First(u) \/ after[u] = t
    BY <1>1, <1>2 DEF First, Live
  <2>2. \A u \in Live' : First(u) => First(u)'
    BY <1>1, <1>2 DEF First, Live
  <2>3. \A u \in Live' : pc'[u] # "queued" => First(u)'
    BY <1>1, <1>2, <2>2 DEF OneFirst, Live
  <2>4. \A u \in Live' : First(u) => Proc[u] # Proc[t]
    BY <1>2, <1>3 DEF OneFirst
  <2>5. \A u \in Live' : after[u] = t => Proc[u] = Proc[t]
    BY <1>2 DEF Predecessors, Live
  <2>6. \A u, v \in Live' : Proc[u] = Proc[v] /\ First(u)' /\ First(v)' => u = v
    BY <1>2, <2>1, <2>4, <2>5 DEF OneFirst, Predecessors, Live
  <2> QED
    BY <2>3, <2>6 DEF OneFirst
<1> QED
  BY <1>4, <1>5, <1>6 DEF NoCircle

LEMMA CrashKeepsChain ==
  ASSUME ChainInv, NEW p \in Procs, Crash(p)
  PROVE  Predecessors' /\ TailIsLast' /\ NoCircle' /\ OneFirst'
<1> USE ProcAssumption DEF ChainInv, LockInv, TypeOK
<1>1. /\ alive' = alive \ {p} /\ tail' = tail /\ after' = after
      /\ pc' = [u \in Tasks |-> IF Proc[u] = p /\ pc[u] \notin Ended THEN "dead" ELSE pc[u]]
  BY DEF Crash
<1>2. Live' = {u \in Live : Proc[u] # p}
  BY <1>1 DEF Live, InTurn, Labels, Ended
<1>3. \A u \in Tasks : Proc[u] # p => pc'[u] = pc[u]
  BY <1>1
<1>4. Predecessors'
  BY <1>1, <1>2 DEF Predecessors
<1>5. TailIsLast'
  BY <1>1, <1>2 DEF TailIsLast
<1>6. \A u \in Live' : u \in Live /\ First(u)' = First(u) /\ pc'[u] = pc[u]
  <2> SUFFICES ASSUME NEW u \in Live'
               PROVE  u \in Live /\ First(u)' = First(u) /\ pc'[u] = pc[u]
    OBVIOUS
  <2>1. u \in Live /\ u \in Tasks /\ Proc[u] # p
    BY <1>2 DEF Live
  <2>2. after'[u] = after[u] /\ pc'[u] = pc[u]
    BY <1>1, <1>3, <2>1
  <2>3. after[u] # NoTask => after[u] \in Tasks /\ Proc[after[u]] # p
    BY <2>1 DEF Predecessors
  <2>4. after[u] # NoTask => pc'[after[u]] = pc[after[u]]
    BY <1>3, <2>3
  <2> QED
    BY <2>1, <2>2, <2>4 DEF First
<1> QED
  BY <1>1, <1>4, <1>5, <1>6 DEF NoCircle, OneFirst

LEMMA ChainInductive == ChainInv /\ [Next]_vars => ChainInv'
<1> SUFFICES ASSUME ChainInv, [Next]_vars
             PROVE  ChainInv'
  OBVIOUS
<1>1. ASSUME NEW t \in Tasks, Enqueue(t) \/ Step(t) \/ TimeOut(t) \/ Refusal(t)
      PROVE  Predecessors' /\ TailIsLast' /\ NoCircle' /\ OneFirst'
  <2>1. CASE Enqueue(t)
    BY <2>1, EnqueueKeepsChain
  <2>2. CASE Turn(t)
    <3>1. t \in Live /\ "mkdir" \in InTurn /\ First(t)
      BY <2>2 DEF Turn, Live, InTurn, Labels, First, Ended
    <3>2. Goto(t, "mkdir") /\ UNCHANGED <<alive, tail, after>>
      BY <2>2 DEF Turn
    <3> QED
      BY <3>1, <3>2, MoveKeepsChain
  <2>3. ASSUME pc[t] \in InTurn,
               \/ \E l \in InTurn : Goto(t, l) /\ UNCHANGED <<alive, tail, after>>
               \/ \E o \in Ended : Finish(t, o) /\ UNCHANGED <<alive, after>>
        PROVE  Predecessors' /\ TailIsLast' /\ NoCircle' /\ OneFirst'
    <3>1. t \in Live /\ pc[t] # "queued"
      BY <2>3 DEF Live, InTurn
    <3> QED
      BY <2>3, <3>1, MoveKeepsChain, FinishKeepsChain
  <2>4. CASE MakeDirectory(t) \/ Look(t) \/ ReadOwner(t) \/ Discard(t) \/ Retry(t)
    <3>1. pc[t] \in InTurn /\ \E l \in InTurn : Goto(t, l) /\ UNCHANGED <<alive, tail, after>>
      BY <2>4 DEF MakeDirectory, Look, ReadOwner, Discard, Retry, InTurn, Labels, Ended
    <3> QED
      BY <2>3, <3>1
  <2>5. CASE WriteOwner(t) \/ Unlock(t) \/ RemoveLock(t) \/ TimeOut(t)
    <3>1. /\ pc[t] \in InTurn
          /\ \/ \E l \in InTurn : Goto(t, l) /\ UNCHANGED <<alive, tail, after>>
             \/ \E o \in Ended : Finish(t, o) /\ UNCHANGED <<alive, after>>
      BY <2>5 DEF WriteOwner, Unlock, RemoveLock, TimeOut, InTurn, Labels, Ended
    <3> QED
      BY <2>3, <3>1
  <2>6. CASE Refusal(t)
    <3>1. /\ pc[t] \in InTurn
          /\ \/ \E l \in InTurn : Goto(t, l) /\ UNCHANGED <<alive, tail, after>>
             \/ \E o \in Ended : Finish(t, o) /\ UNCHANGED <<alive, after>>
      BY <2>6 DEF Refusal, CallFails, DiscardLeavesRest, WriteOwnerFails, ReleaseFails,
                  InTurn, Labels, Ended
    <3> QED
      BY <2>3, <3>1
  <2> QED
    BY <1>1, <2>1, <2>2, <2>4, <2>5, <2>6 DEF Step
<1>2. ASSUME NEW p \in Procs, Crash(p)
      PROVE  Predecessors' /\ TailIsLast' /\ NoCircle' /\ OneFirst'
  BY <1>2, CrashKeepsChain
<1>3. ASSUME Age \/ UNCHANGED vars
      PROVE  Predecessors' /\ TailIsLast' /\ NoCircle' /\ OneFirst'
  <2>1. UNCHANGED <<alive, tail, after, pc>>
    BY <1>3 DEF Age, vars
  <2>2. Live' = Live
    BY <2>1 DEF Live
  <2>3. \A t \in Live : First(t)' = First(t)
    BY <2>1 DEF First
  <2>4. OneFirst'
    BY <2>1, <2>2, <2>3 DEF ChainInv, OneFirst
  <2> QED
    BY <2>1, <2>2, <2>4 DEF ChainInv, Predecessors, TailIsLast, NoCircle
<1>4. LockInv'
  BY LockInductive DEF ChainInv
<1> QED
  BY <1>1, <1>2, <1>3, <1>4 DEF Next, ChainInv

\* Of one process at most one call is between its turn and its end, whatever
\* happens to the lock directory and to other processes: the promise chain
\* lets a call start only when the one before it has ended.
THEOREM CallsWaitTheirTurn == Spec => []OneCallPerProcess
<1>1. ChainInv => OneCallPerProcess
  BY DEF ChainInv, LockInv, TypeOK, OneFirst, OneCallPerProcess, Live, InTurn, Labels
<1> QED
  BY <1>1, ChainInitially, ChainInductive, PTL DEF Spec

-----------------------------------------------------------------------------
(***************************************************************************)
(* The inductive invariant.  DraftsAreSafe speaks of the draft and the     *)
(* disk only; whether the next transition, reload or answer keeps it so    *)
(* depends on what every other copy of the text holds.                     *)
(***************************************************************************)
EditorIsShown == editor # None => page = "shown" /\ mode = "edit" /\ ~graph

\* An editor without its source is empty; a reload comes for a clean editor.
EditorIsSound ==
  editor # None =>
    /\ ~editor.loaded => editor.draft = {} /\ editor.base = {} /\ ~editor.saving
    /\ editor.fetch # None => ~editor.saving /\ editor.base = editor.draft

\* A save writes once, and an editor has one save at a time.
SavesAreSound ==
  /\ \A s \in saves : s.writes <= 1 /\ (s.at = "sent" => s.writes = 0)
  /\ \A s, t \in saves : s.mine /\ t.mine => s = t

Kept(p, text) == \A k \in text \cap Typed : <<p, k>> \in kept

\* Text that came from the disk, or has reached it, is remembered there.
TextIsKept ==
  /\ \A p \in Paths : Kept(p, disk[p])
  /\ editor # None =>
       /\ Kept(path, editor.base)
       /\ editor.fetch \notin {None, Asked} => Kept(path, editor.fetch)
  /\ \A s \in saves :
       /\ Kept(s.path, s.base)
       /\ s.at = "applied" => Kept(s.path, s.content) /\ Kept(s.path, s.result)

DraftInv ==
  DraftsAreSafe /\ EditorIsShown /\ EditorIsSound /\ SavesAreSound /\ TextIsKept

LEMMA Bounds == MaxSaves \in Nat /\ MaxMoves \in Nat /\ MaxFaults \in Nat
BY EditorAssumption

\* One more move, save or fault keeps its bound.
LEMMA CountsOn ==
  ASSUME NEW max \in Nat, NEW n \in 0 .. max, n < max
  PROVE  n + 1 \in 0 .. max
OBVIOUS

(***************************************************************************)
(* Leaving the page.                                                       *)
(***************************************************************************)
\* Nothing unsaved is in front of the user unless the editor is dirty.
LEMMA CleanIsKept ==
  ASSUME DraftInv, accidents = {}, ~Dirty
  PROVE  work \subseteq kept
<1> SUFFICES ASSUME NEW w \in work \ kept PROVE FALSE
  OBVIOUS
<1>1. editor # None /\ path = w[1] /\ w[2] \in editor.draft
  BY DEF DraftInv, DraftsAreSafe, EveryKeystrokeIsKept
<1>2. w \in Paths \X Typed
  BY DEF DraftInv, DraftsAreSafe, EditorTypeOK
<1>3. editor.base = editor.draft
  BY <1>1 DEF Dirty, DraftInv, EditorIsSound
<1>4. <<path, w[2]>> \in kept /\ w = <<w[1], w[2]>>
  BY <1>1, <1>2, <1>3 DEF DraftInv, TextIsKept, Kept
<1> QED
  BY <1>1, <1>4

\* The page changes and the user gives up what is unsaved: nothing is owed.
LEMMA LeaveIsSafe ==
  ASSUME DraftInv, Leave, UNCHANGED <<kept, accidents>>
  PROVE  /\ work' \subseteq work
         /\ accidents = {} => work' \subseteq kept
<1>1. work' \subseteq work
  BY DEF Leave
<1>2. ASSUME accidents = {}, NEW w \in work', w \notin kept PROVE FALSE
  <2>1. editor # None /\ path = w[1] /\ w[2] \in editor.draft /\ w \in work
    BY <1>1, <1>2 DEF DraftInv, DraftsAreSafe, EveryKeystrokeIsKept
  <2>2. Dirty
    BY <1>1, <1>2, CleanIsKept
  <2>3. guard
    BY <1>2, <2>2 DEF DraftInv, DraftsAreSafe, DraftIsGuarded
  <2> QED
    BY <1>2, <2>1, <2>3 DEF Leave
<1> QED
  BY <1>1, <1>2

\* What Show does to the editor and its saves.
LEMMA ShowKeeps ==
  ASSUME DraftInv, NEW p \in Paths, NEW pg \in {"shown", "loading", "failed"},
         NEW md \in {"view", "edit"}, NEW g \in BOOLEAN, Show(p, pg, md, g),
         UNCHANGED <<disk, kept>>
  PROVE  /\ editor' \in {None} \cup Draft
         /\ saves' \subseteq Save
         /\ \A s \in saves' : s.mine => editor' # None /\ editor'.saving /\ s.path = p
         /\ EditorIsShown' /\ EditorIsSound' /\ SavesAreSound' /\ TextIsKept'
         /\ OneWritePerSave'
         /\ editor' # None => editor' = FreshEditor \/ (editor' = editor /\ p = path)
<1> DEFINE stays == pg = "shown" /\ md = "edit" /\ ~g
           Ends(s) == [s EXCEPT !.mine = FALSE,
                                !.unchanged = IF s.mine THEN editor.draft = s.content
                                              ELSE @]
<1> USE DEF DraftInv, DraftsAreSafe
<1>1. FreshEditor \in Draft
  BY DEF FreshEditor, Draft, DraftTexts
<1>2. /\ editor' = IF ~stays THEN None
                   ELSE IF editor = None \/ p # path THEN FreshEditor ELSE editor
      /\ path' = p /\ page' = pg /\ mode' = md /\ graph' = g
  BY DEF Show
<1>3. saves' = IF editor = None \/ (stays /\ p = path) THEN saves
               ELSE {Ends(s) : s \in saves}
  BY DEF Show
<1> HIDE DEF stays
<1>4. editor' \in {None} \cup Draft
  BY <1>1, <1>2 DEF EditorTypeOK
<1>5. editor' # None => editor' = FreshEditor \/ (editor' = editor /\ p = path)
  BY <1>2
<1>6. EditorIsShown'
  BY <1>2 DEF EditorIsShown, stays
<1>7. EditorIsSound'
  <2>1. FreshEditor.draft = {} /\ FreshEditor.base = {} /\ ~FreshEditor.saving
    BY DEF FreshEditor
  <2> QED
    BY <1>5, <2>1 DEF EditorIsSound
<1>8. ASSUME NEW s \in saves
      PROVE  /\ Ends(s) \in Save /\ ~Ends(s).mine
             /\ Ends(s).path = s.path /\ Ends(s).base = s.base
             /\ Ends(s).content = s.content /\ Ends(s).result = s.result
             /\ Ends(s).at = s.at /\ Ends(s).writes = s.writes
  <2> DEFINE u == IF s.mine THEN editor.draft = s.content ELSE s.unchanged
  <2>1. s \in Save
    BY DEF EditorTypeOK
  <2>2. u \in BOOLEAN
    BY <2>1 DEF Save
  <2>3. Ends(s) = [s EXCEPT !.mine = FALSE, !.unchanged = u]
    BY <2>1 DEF Save
  <2> HIDE DEF u, Ends
  <2> QED
    BY <2>1, <2>2, <2>3 DEF Save
<1> HIDE DEF Ends
<1>9. CASE saves' = saves /\ (editor = None \/ (stays /\ p = path))
  <2>1. \A s \in saves' : s.mine => editor' # None /\ editor'.saving /\ s.path = p
    BY <1>2, <1>9 DEF EditorTypeOK
  <2>2. SavesAreSound' /\ OneWritePerSave' /\ saves' \subseteq Save
    BY <1>9 DEF SavesAreSound, OneWritePerSave, EditorTypeOK
  <2>3. TextIsKept'
    BY <1>2, <1>5, <1>9 DEF TextIsKept, Kept, FreshEditor
  <2> QED
    BY <1>4, <1>5, <1>6, <1>7, <2>1, <2>2, <2>3
<1>10. CASE saves' = {Ends(s) : s \in saves}
  <2>1. \A s \in saves' : s \in Save /\ ~s.mine
    BY <1>8, <1>10
  <2>2. SavesAreSound' /\ OneWritePerSave'
    BY <1>8, <1>10, <2>1 DEF SavesAreSound, OneWritePerSave
  <2>3. TextIsKept'
    <3>1. \A s \in saves' :
            /\ Kept(s.path, s.base)
            /\ s.at = "applied" => Kept(s.path, s.content) /\ Kept(s.path, s.result)
      BY <1>8, <1>10 DEF TextIsKept
    <3> QED
      BY <1>2, <1>5, <3>1 DEF TextIsKept, Kept, FreshEditor
  <2> QED
    BY <1>4, <1>5, <1>6, <1>7, <2>1, <2>2, <2>3
<1> QED
  BY <1>3, <1>9, <1>10

LEMMA ShowIsSafe ==
  ASSUME DraftInv, NEW p \in Paths, NEW pg \in {"shown", "loading", "failed"},
         NEW md \in {"view", "edit"}, NEW g \in BOOLEAN, Show(p, pg, md, g),
         editor = None \/ ~(pg = "shown" /\ md = "edit" /\ ~g),
         UNCHANGED <<disk, news, clicks, kept>>, guard' \in BOOLEAN,
         moves' \in 0 .. MaxMoves, faults' \in 0 .. MaxFaults,
         accidents' \subseteq {"failed page", "late save"}, work' \subseteq work,
         accidents' = {} => work' \subseteq kept
  PROVE  DraftInv'
<1>1. /\ editor' \in {None} \cup Draft
      /\ saves' \subseteq Save
      /\ \A s \in saves' : s.mine => editor' # None /\ editor'.saving /\ s.path = p
      /\ EditorIsShown' /\ EditorIsSound' /\ SavesAreSound' /\ TextIsKept'
      /\ OneWritePerSave'
  BY ShowKeeps
<1>2. path' = p /\ page' = pg /\ mode' = md /\ graph' = g
  BY DEF Show
<1>3. EditorTypeOK'
  BY <1>1, <1>2 DEF EditorTypeOK, DraftInv, DraftsAreSafe
<1>4. EveryKeystrokeIsKept'
  BY DEF EveryKeystrokeIsKept
<1>5. editor' = None \/ editor' = FreshEditor
  BY DEF Show
<1>6. ~Dirty'
  <2>1. ~FreshEditor.loaded
    BY DEF FreshEditor
  <2> QED
    BY <1>5, <2>1 DEF Dirty
<1> QED
  BY <1>1, <1>3, <1>4, <1>6 DEF DraftInv, DraftsAreSafe, DraftIsGuarded

LEMMA ScreenIsSafe ==
  ASSUME DraftInv,
         \/ SwitchMode \/ ToggleGraph \/ Reload \/ PageLoads \/ RefreshFails \/ RetryPage
         \/ \E p \in Paths : NavigateTo(p)
  PROVE  DraftInv'
<1>1. EditorTypeOK
  BY DEF DraftInv, DraftsAreSafe
<1>2. ASSUME Moved PROVE moves' \in 0 .. MaxMoves
  BY <1>1, <1>2, Bounds, CountsOn DEF Moved, EditorTypeOK
<1>3. ASSUME editor = None, accidents = {} PROVE work \subseteq kept
  BY <1>3, CleanIsKept DEF Dirty
<1>4. ASSUME Leave, UNCHANGED <<kept, accidents>>
      PROVE  /\ guard' \in BOOLEAN /\ work' \subseteq work
             /\ accidents' = {} => work' \subseteq kept
             /\ accidents' \subseteq {"failed page", "late save"}
  BY <1>1, <1>4, LeaveIsSafe DEF Leave, EditorTypeOK
<1>5. CASE SwitchMode
  <2>1. CASE mode = "view"
    <3>1. editor = None
      BY <2>1 DEF DraftInv, EditorIsShown
    <3>2. Show(path, page, "edit", graph) /\ UNCHANGED <<guard, work, accidents>>
      BY <1>5, <2>1 DEF SwitchMode
    <3>3. UNCHANGED <<disk, news, clicks, kept, faults>> /\ Moved
      BY <1>5 DEF SwitchMode
    <3> QED
      BY <1>1, <1>2, <1>3, <3>1, <3>2, <3>3, ShowIsSafe DEF EditorTypeOK
  <2>2. CASE mode # "view"
    <3>1. Show(path, page, "view", graph) /\ Leave
      BY <1>5, <2>2 DEF SwitchMode
    <3>2. UNCHANGED <<disk, news, clicks, kept, accidents, faults>> /\ Moved
      BY <1>5 DEF SwitchMode
    <3> QED
      BY <1>1, <1>2, <1>4, <3>1, <3>2, ShowIsSafe DEF EditorTypeOK
  <2> QED
    BY <2>1, <2>2
<1>6. CASE ToggleGraph
  <2>0. /\ Show(path, page, mode, ~graph) /\ Moved
        /\ UNCHANGED <<disk, news, clicks, kept, accidents, faults>>
    BY <1>6 DEF ToggleGraph
  <2>1. CASE graph
    <3>1. editor = None
      BY <2>1 DEF DraftInv, EditorIsShown
    <3>2. UNCHANGED <<guard, work>>
      BY <1>6, <2>1 DEF ToggleGraph
    <3> QED
      BY <1>1, <1>2, <1>3, <2>0, <3>1, <3>2, ShowIsSafe DEF EditorTypeOK
  <2>2. CASE ~graph
    <3>1. Leave /\ (~graph) = TRUE
      BY <1>1, <1>6, <2>2 DEF ToggleGraph, EditorTypeOK
    <3> QED
      BY <1>1, <1>2, <1>4, <2>0, <3>1, ShowIsSafe DEF EditorTypeOK
  <2> QED
    BY <2>1, <2>2
<1>7. CASE Reload
  <2>1. /\ Show(path, "loading", "view", FALSE) /\ Leave /\ Moved
        /\ UNCHANGED <<disk, news, clicks, kept, accidents, faults>>
    BY <1>7 DEF Reload
  <2> QED
    BY <1>1, <1>2, <1>4, <2>1, ShowIsSafe DEF EditorTypeOK
<1>8. ASSUME NEW p \in Paths, NavigateTo(p) PROVE DraftInv'
  <2>1. /\ Show(p, "loading", "view", graph) /\ Leave /\ Moved
        /\ UNCHANGED <<disk, news, clicks, kept, accidents, faults>>
    BY <1>8 DEF NavigateTo
  <2> QED
    BY <1>1, <1>2, <1>4, <2>1, ShowIsSafe DEF EditorTypeOK
<1>9. CASE PageLoads \/ RetryPage
  <2>1. editor = None
    BY <1>9 DEF PageLoads, RetryPage, DraftInv, EditorIsShown
  <2>2. /\ Show(path, "shown", mode, graph) \/ Show(path, "loading", mode, graph)
        /\ UNCHANGED <<disk, news, guard, clicks, moves, faults, editorHistory>>
    BY <1>9 DEF PageLoads, RetryPage
  <2> QED
    BY <1>1, <1>3, <2>1, <2>2, ShowIsSafe DEF EditorTypeOK, editorHistory
<1>10. CASE RefreshFails
  <2>1. /\ Show(path, "failed", mode, graph)
        /\ accidents' = accidents \cup (IF Dirty THEN {"failed page"} ELSE {})
        /\ UNCHANGED <<disk, news, guard, clicks, moves, work, kept>>
        /\ faults < MaxFaults /\ faults' = faults + 1
    BY <1>10 DEF RefreshFails
  <2>2. faults' \in 0 .. MaxFaults
    BY <1>1, <2>1, Bounds, CountsOn DEF EditorTypeOK
  <2>3. accidents' = {} => work \subseteq kept
    BY <2>1, CleanIsKept
  <2> QED
    BY <1>1, <2>1, <2>2, <2>3, ShowIsSafe DEF EditorTypeOK
<1> QED
  BY <1>5, <1>6, <1>7, <1>8, <1>9, <1>10

(***************************************************************************)
(* The editor's source and draft.                                          *)
(***************************************************************************)
LEMMA SourceIsSafe ==
  ASSUME DraftInv,
         AnswerSource \/ SourceFails \/ RetrySource \/ Notice \/ ReloadSource
  PROVE  DraftInv'
<1>1. EditorTypeOK /\ UNCHANGED <<disk, screen, guard, saves, clicks, moves, editorHistory>>
  BY DEF AnswerSource, SourceFails, RetrySource, Notice, ReloadSource, DraftInv,
         DraftsAreSafe
\* Only what the editor knows of its source changes, and it asks only if clean.
<1>2. \/ editor = None /\ editor' = None
      \/ /\ editor # None /\ editor \in Draft /\ editor' \in Draft
         /\ editor'.loaded = editor.loaded /\ editor'.base = editor.base
         /\ editor'.draft = editor.draft /\ editor'.saving = editor.saving
         /\ editor'.fetch # None => ~editor.saving /\ editor.base = editor.draft
         /\ editor'.fetch \in {None, Asked, editor.fetch, disk[path]}
  <2>1. CASE AnswerSource
    <3>1. editor # None /\ editor \in Draft /\ disk[path] \in DraftTexts
      BY <1>1, <2>1 DEF AnswerSource, EditorTypeOK
    <3>2. editor' = [editor EXCEPT !.fetch = disk[path]]
      BY <2>1 DEF AnswerSource
    <3>3. ~editor.saving /\ editor.base = editor.draft
      <4>1. editor.fetch # None
        BY <2>1, EditorAssumption DEF AnswerSource
      <4> QED
        BY <3>1, <4>1 DEF DraftInv, EditorIsSound
    <3> QED
      BY <3>1, <3>2, <3>3 DEF Draft
  <2>2. CASE SourceFails
    BY <1>1, <2>2 DEF SourceFails, EditorTypeOK, Draft
  <2>3. CASE RetrySource \/ ReloadSource
    <3>1. editor # None /\ editor \in Draft
      BY <1>1, <2>3 DEF RetrySource, ReloadSource, EditorTypeOK
    <3>2. ~editor.saving /\ editor.base = editor.draft
      BY <2>3, <3>1 DEF RetrySource, ReloadSource, Dirty, DraftInv, EditorIsSound
    <3>3. \/ editor' = [editor EXCEPT !.fetch = Asked]
          \/ editor' = [editor EXCEPT !.newer = FALSE, !.fetch = Asked]
      BY <2>3 DEF RetrySource, ReloadSource
    <3> QED
      BY <3>1, <3>2, <3>3 DEF Draft
  <2>4. CASE Notice
    <3>1. CASE editor = None
      BY <2>4, <3>1 DEF Notice
    <3>2. CASE editor # None
      <4>1. editor \in Draft
        BY <1>1, <3>2 DEF EditorTypeOK
      <4>2. editor' = [editor EXCEPT !.newer = TRUE,
                                     !.fetch = IF editor.loaded THEN None ELSE @]
        BY <2>4, <3>2 DEF Notice
      <4>3. editor'.fetch \in {None, editor.fetch} /\ editor' \in Draft
        BY <4>1, <4>2 DEF Draft
      <4> QED
        BY <3>2, <4>1, <4>2, <4>3 DEF Draft, DraftInv, EditorIsSound
    <3> QED
      BY <3>1, <3>2
  <2> QED
    BY <2>1, <2>2, <2>3, <2>4
<1>3. faults' \in 0 .. MaxFaults
  <2>1. UNCHANGED faults \/ (faults < MaxFaults /\ faults' = faults + 1)
    BY DEF AnswerSource, SourceFails, RetrySource, Notice, ReloadSource
  <2>2. faults \in 0 .. MaxFaults
    BY <1>1 DEF EditorTypeOK
  <2> QED
    BY <2>1, <2>2, Bounds, CountsOn
<1>4. news' \in BOOLEAN
  BY <1>1 DEF AnswerSource, SourceFails, RetrySource, Notice, ReloadSource, EditorTypeOK
<1>5. editor' # None <=> editor # None
  BY <1>2, EditorAssumption
<1>6. EditorTypeOK'
  BY <1>1, <1>2, <1>3, <1>4, <1>5 DEF EditorTypeOK, screen, editorHistory
<1>7. Dirty' => Dirty
  BY <1>2 DEF Dirty
<1>8. EveryKeystrokeIsKept' /\ DraftIsGuarded' /\ OneWritePerSave'
  BY <1>1, <1>2, <1>5, <1>7 DEF DraftInv, DraftsAreSafe, EveryKeystrokeIsKept,
     DraftIsGuarded, OneWritePerSave, screen, editorHistory
<1>9. EditorIsShown' /\ EditorIsSound' /\ SavesAreSound'
  BY <1>1, <1>2, <1>5 DEF DraftInv, EditorIsShown, EditorIsSound, SavesAreSound, screen
<1>10. TextIsKept'
  BY <1>1, <1>2, <1>5 DEF DraftInv, TextIsKept, Kept, EditorTypeOK, screen, editorHistory
<1> QED
  BY <1>6, <1>8, <1>9, <1>10 DEF DraftInv, DraftsAreSafe

\* The editor takes the source it has fetched: it was clean, so nothing is lost.
LEMMA TakeSourceIsSafe == DraftInv /\ TakeSource => DraftInv'
<1> SUFFICES ASSUME DraftInv, TakeSource PROVE DraftInv'
  OBVIOUS
<1>1. /\ EditorTypeOK /\ UNCHANGED <<disk, news, screen, saves, clicks, moves, faults, editorHistory>>
      /\ editor # None /\ editor.fetch \notin {None, Asked} /\ guard' = FALSE
      /\ editor' = [editor EXCEPT !.loaded = TRUE, !.base = editor.fetch,
                                  !.draft = editor.fetch, !.fetch = None]
  BY DEF TakeSource, DraftInv, DraftsAreSafe
<1>2. editor \in Draft /\ editor.fetch \in DraftTexts
  BY <1>1 DEF EditorTypeOK, Draft
<1>3. /\ editor' \in Draft /\ editor'.loaded /\ editor'.base = editor.fetch
      /\ editor'.draft = editor.fetch /\ editor'.fetch = None
      /\ editor'.saving = editor.saving
  BY <1>1, <1>2 DEF Draft
<1>4. editor.base = editor.draft /\ ~editor.saving
  BY <1>1 DEF DraftInv, EditorIsSound
<1>5. editor' # None
  BY <1>3, EditorAssumption
<1>6. EditorTypeOK'
  BY <1>1, <1>3, <1>5 DEF EditorTypeOK, screen, editorHistory
<1>7. ~Dirty /\ ~Dirty'
  BY <1>3, <1>4 DEF Dirty
<1>8. EveryKeystrokeIsKept'
  BY <1>1, <1>7, CleanIsKept DEF EveryKeystrokeIsKept, editorHistory
<1>9. DraftIsGuarded' /\ OneWritePerSave'
  BY <1>1, <1>7 DEF DraftInv, DraftsAreSafe, DraftIsGuarded, OneWritePerSave
<1>10. EditorIsShown' /\ EditorIsSound' /\ SavesAreSound'
  BY <1>1, <1>3, <1>4 DEF DraftInv, EditorIsShown, EditorIsSound, SavesAreSound, screen
<1>11. TextIsKept'
  BY <1>1, <1>3 DEF DraftInv, TextIsKept, Kept, screen, editorHistory
<1> QED
  BY <1>6, <1>8, <1>9, <1>10, <1>11 DEF DraftInv, DraftsAreSafe

\* The user types or erases.
LEMMA ChangeIsSafe ==
  ASSUME DraftInv, NEW k \in Typed, Type(k) \/ Erase(k)
  PROVE  DraftInv'
<1> DEFINE text == IF Type(k) THEN editor.draft \cup {k} ELSE editor.draft \ {k}
<1>1. /\ EditorTypeOK /\ UNCHANGED <<disk, news, screen, saves, clicks, moves, faults, kept, accidents>>
      /\ editor # None /\ editor.loaded
      /\ editor' = [editor EXCEPT !.draft = text, !.fetch = None]
      /\ guard' = (editor.saving \/ text # editor.base)
  BY DEF Type, Erase, Change, DraftInv, DraftsAreSafe
<1>2. editor \in Draft /\ text \in DraftTexts
  BY <1>1 DEF EditorTypeOK, Draft, DraftTexts
<1>3. /\ work' \subseteq Paths \X Typed
      /\ \A w \in work' \ work : w = <<path, k>> /\ k \in text
      /\ \A w \in work' : (w \in work /\ w # <<path, k>>) \/ k \in text
      /\ \A x \in editor.draft \ {k} : x \in text
  <2>1. CASE Type(k)
    <3>1. text = editor.draft \cup {k} /\ work' = work \cup {<<path, k>>}
      BY <2>1 DEF Type
    <3>2. work \subseteq Paths \X Typed /\ <<path, k>> \in Paths \X Typed
      BY <1>1 DEF EditorTypeOK
    <3>3. k \in text /\ \A x \in editor.draft \ {k} : x \in text
      BY <3>1
    <3> HIDE DEF text
    <3> QED
      BY <3>1, <3>2, <3>3
  <2>2. CASE ~Type(k)
    <3>1. text = editor.draft \ {k} /\ work' = work \ {<<path, k>>}
      BY <2>2 DEF Erase
    <3>2. k \notin text /\ <<path, k>> \notin work'
      BY <3>1
    <3> QED
      BY <1>1, <3>1, <3>2 DEF EditorTypeOK
  <2> QED
    BY <2>1, <2>2
<1> HIDE DEF text
<1>4. /\ editor' \in Draft /\ editor'.loaded /\ editor'.base = editor.base
      /\ editor'.draft = text /\ editor'.fetch = None
      /\ editor'.saving = editor.saving
  BY <1>1, <1>2 DEF Draft
<1>5. editor' # None
  BY <1>4, EditorAssumption
<1>6. EditorTypeOK'
  BY <1>1, <1>2, <1>3, <1>4, <1>5 DEF EditorTypeOK, screen, Draft
<1>7. EveryKeystrokeIsKept'
  <2> SUFFICES ASSUME accidents = {}, NEW w \in work' \ kept
               PROVE  path = w[1] /\ w[2] \in text
    BY <1>1, <1>4, <1>5 DEF EveryKeystrokeIsKept, screen
  <2>1. w \in Paths \X Typed
    BY <1>3
  <2>2. CASE w \in work
    <3>1. path = w[1] /\ w[2] \in editor.draft
      BY <2>2 DEF DraftInv, DraftsAreSafe, EveryKeystrokeIsKept
    <3>2. CASE w[2] = k
      <4>1. w = <<path, k>>
        BY <2>1, <3>1, <3>2
      <4> QED
        BY <1>3, <3>1, <3>2, <4>1
    <3>3. CASE w[2] # k
      BY <1>3, <3>1, <3>3
    <3> QED
      BY <3>2, <3>3
  <2>3. CASE w \notin work
    BY <1>3, <2>3
  <2> QED
    BY <2>2, <2>3
<1>8. DraftIsGuarded' /\ OneWritePerSave'
  BY <1>1, <1>4 DEF DraftInv, DraftsAreSafe, DraftIsGuarded, OneWritePerSave, Dirty
<1>9. EditorIsShown' /\ EditorIsSound' /\ SavesAreSound'
  BY <1>1, <1>4 DEF DraftInv, EditorIsShown, EditorIsSound, SavesAreSound, screen
<1>10. TextIsKept'
  BY <1>1, <1>4 DEF DraftInv, TextIsKept, Kept, screen
<1> QED
  BY <1>6, <1>7, <1>8, <1>9, <1>10 DEF DraftInv, DraftsAreSafe

(***************************************************************************)
(* Saves.                                                                  *)
(***************************************************************************)
LEMMA SaveDraftIsSafe == DraftInv /\ SaveDraft => DraftInv'
<1> SUFFICES ASSUME DraftInv, SaveDraft PROVE DraftInv'
  OBVIOUS
<1> DEFINE new == [path |-> path, base |-> editor.base, content |-> editor.draft,
                   at |-> "sent", result |-> {}, writes |-> 0, mine |-> TRUE,
                   unchanged |-> FALSE]
<1>1. /\ EditorTypeOK /\ UNCHANGED <<disk, news, screen, guard, moves, faults, editorHistory>>
      /\ clicks < MaxSaves /\ clicks' = clicks + 1 /\ Dirty /\ ~editor.saving
      /\ editor' = [editor EXCEPT !.saving = TRUE]
      /\ saves' = saves \cup {new}
  BY DEF SaveDraft, DraftInv, DraftsAreSafe
<1>2. editor \in Draft /\ editor # None /\ editor.loaded /\ editor.base # editor.draft
  BY <1>1 DEF EditorTypeOK, Dirty
<1>3. /\ editor' \in Draft /\ editor'.loaded /\ editor'.base = editor.base
      /\ editor'.draft = editor.draft /\ editor'.fetch = editor.fetch /\ editor'.saving
  BY <1>1, <1>2 DEF Draft
<1>4. editor' # None /\ editor.fetch = None
  BY <1>2, <1>3, EditorAssumption DEF DraftInv, EditorIsSound
<1>5. /\ new \in Save /\ new.mine /\ new.path = path /\ new.writes = 0
      /\ new.at = "sent" /\ new.base = editor.base
  <2>1. path \in Paths /\ editor.base \in DraftTexts /\ editor.draft \in DraftTexts /\ {} \in DraftTexts
    BY <1>1, <1>2 DEF Draft, EditorTypeOK, DraftTexts
  <2>2. 0 \in 0 .. 2
    OBVIOUS
  <2> QED
    BY <2>1, <2>2 DEF Save
<1>6. \A s \in saves : ~s.mine
  BY <1>1 DEF EditorTypeOK
<1>7. clicks' \in 0 .. MaxSaves
  BY <1>1, Bounds, CountsOn DEF EditorTypeOK
<1> HIDE DEF new
<1>8. EditorTypeOK'
  BY <1>1, <1>3, <1>4, <1>5, <1>6, <1>7 DEF EditorTypeOK, screen, editorHistory
<1>9. EveryKeystrokeIsKept'
  BY <1>1, <1>2, <1>3, <1>4
     DEF DraftInv, DraftsAreSafe, EveryKeystrokeIsKept, screen, editorHistory
<1>12. DraftIsGuarded'
  BY <1>1 DEF DraftInv, DraftsAreSafe, DraftIsGuarded, editorHistory
<1>13. OneWritePerSave'
  BY <1>1, <1>5 DEF DraftInv, DraftsAreSafe, OneWritePerSave
<1>10. EditorIsShown' /\ EditorIsSound' /\ SavesAreSound'
  BY <1>1, <1>2, <1>3, <1>4, <1>5, <1>6
     DEF DraftInv, EditorIsShown, EditorIsSound, SavesAreSound, screen
<1>11. TextIsKept'
  BY <1>1, <1>2, <1>3, <1>5 DEF DraftInv, TextIsKept, Kept, screen, editorHistory
<1> QED
  BY <1>8, <1>9, <1>10, <1>11, <1>12, <1>13 DEF DraftInv, DraftsAreSafe

\* One save moves on: to the disk, or to its failure.
LEMMA ProgressIsSafe ==
  ASSUME DraftInv, NEW s \in saves, NEW t \in Save, saves' = (saves \ {s}) \cup {t},
         t.path = s.path, t.base = s.base, t.content = s.content, t.mine = s.mine,
         t.at # "sent", t.writes <= 1,
         t.at = "applied" =>
           \A k \in (t.content \cup t.result) \cap Typed : <<s.path, k>> \in kept',
         disk' \in [Paths -> DraftTexts], \A p \in Paths : Kept(p, disk[p])',
         kept \subseteq kept', kept' \subseteq Paths \X Typed,
         news' \in BOOLEAN, faults' \in 0 .. MaxFaults,
         UNCHANGED <<screen, editor, guard, clicks, moves, work, accidents>>
  PROVE  DraftInv'
<1> USE DEF DraftInv, DraftsAreSafe
<1>1. EditorTypeOK'
  BY DEF EditorTypeOK, screen
<1>2. EveryKeystrokeIsKept' /\ DraftIsGuarded' /\ OneWritePerSave'
  BY DEF EveryKeystrokeIsKept, DraftIsGuarded, OneWritePerSave, Dirty, screen
<1>3. EditorIsShown' /\ EditorIsSound'
  BY DEF EditorIsShown, EditorIsSound, screen
<1>4. SavesAreSound'
  BY DEF SavesAreSound
<1>5. TextIsKept'
  <2>1. \A p, x : Kept(p, x) => Kept(p, x)'
    BY DEF Kept
  <2>2. Kept(s.path, s.base)
    BY DEF TextIsKept
  <2> QED
    BY <2>1, <2>2 DEF TextIsKept, screen, Kept
<1> QED
  BY <1>1, <1>2, <1>3, <1>4, <1>5

LEMMA ApplySaveIsSafe ==
  ASSUME DraftInv, NEW s \in saves, ApplySave(s)
  PROVE  DraftInv'
<1> DEFINE t == [s EXCEPT !.at = "applied", !.result = Merged(s), !.writes = @ + 1]
<1>1. /\ EditorTypeOK /\ UNCHANGED <<screen, editor, guard, clicks, moves, faults, work, accidents>>
      /\ s.at = "sent" /\ saves' = (saves \ {s}) \cup {t}
      /\ disk' = [disk EXCEPT ![s.path] = Merged(s)]
      /\ news' = (news \/ disk' # disk)
      /\ kept' = kept \cup {<<s.path, k>> : k \in Merged(s) \cap Typed}
  BY DEF ApplySave, Write, DraftInv, DraftsAreSafe
<1>2. s \in Save /\ s.writes = 0
  BY <1>1 DEF EditorTypeOK, DraftInv, SavesAreSound
<1>3. Merged(s) \in DraftTexts
  BY <1>1, <1>2 DEF EditorTypeOK, Save, Merged, DraftTexts
<1>4. /\ t \in Save /\ t.path = s.path /\ t.base = s.base /\ t.content = s.content
      /\ t.mine = s.mine /\ t.at = "applied" /\ t.writes = 1 /\ t.result = Merged(s)
  <2>1. s.writes + 1 = 1 /\ 1 \in 0 .. 2
    BY <1>2
  <2> QED
    BY <1>2, <1>3, <2>1 DEF Save
<1> HIDE DEF t
<1>5. \A k \in Merged(s) \cap Typed : <<s.path, k>> \in kept'
  BY <1>1
<1>6. \A k \in (t.content \cup t.result) \cap Typed : <<s.path, k>> \in kept'
  <2>1. \A k \in s.base \cap Typed : <<s.path, k>> \in kept'
    BY <1>1 DEF DraftInv, TextIsKept, Kept
  <2>2. s.content \subseteq Merged(s) \cup s.base
    BY DEF Merged
  <2> QED
    BY <1>4, <1>5, <2>1, <2>2
<1>7. /\ disk' \in [Paths -> DraftTexts] /\ kept \subseteq kept'
      /\ kept' \subseteq Paths \X Typed
      /\ news' \in BOOLEAN /\ faults' \in 0 .. MaxFaults
  <2>1. news' \in BOOLEAN
    BY <1>1
  <2>2. s.path \in Paths
    BY <1>2 DEF Save
  <2>3. kept' \subseteq Paths \X Typed
    <3>1. kept \subseteq Paths \X Typed
      BY <1>1 DEF EditorTypeOK
    <3>2. \A k \in Typed : <<s.path, k>> \in Paths \X Typed
      BY <2>2
    <3> QED
      BY <1>1, <3>1, <3>2
  <2> QED
    BY <1>1, <1>3, <2>1, <2>2, <2>3 DEF EditorTypeOK
<1>8. \A p \in Paths : Kept(p, disk[p])'
  <2> SUFFICES ASSUME NEW p \in Paths, NEW k \in disk'[p] \cap Typed
               PROVE  <<p, k>> \in kept'
    BY DEF Kept
  <2>1. CASE p = s.path
    BY <1>1, <2>1 DEF EditorTypeOK
  <2>2. CASE p # s.path
    BY <1>1, <2>2 DEF EditorTypeOK, DraftInv, TextIsKept, Kept
  <2> QED
    BY <2>1, <2>2
<1> QED
  BY <1>1, <1>4, <1>6, <1>7, <1>8, ProgressIsSafe

LEMMA FailureIsSafe ==
  ASSUME DraftInv, NEW s \in saves, Conflict(s) \/ LoseSave(s)
  PROVE  DraftInv'
<1> DEFINE t == [s EXCEPT !.at = "failed"]
<1>1. /\ EditorTypeOK
      /\ UNCHANGED <<disk, news, screen, editor, guard, clicks, moves, editorHistory>>
      /\ saves' = (saves \ {s}) \cup {t}
      /\ UNCHANGED faults \/ (faults < MaxFaults /\ faults' = faults + 1)
  BY DEF Conflict, LoseSave, AfterFailure, DraftInv, DraftsAreSafe
<1>2. s \in Save /\ s.writes <= 1
  BY <1>1 DEF EditorTypeOK, DraftInv, SavesAreSound
<1>3. /\ t \in Save /\ t.path = s.path /\ t.base = s.base /\ t.content = s.content
      /\ t.mine = s.mine /\ t.at = "failed" /\ t.writes = s.writes
  BY <1>2 DEF Save
<1> HIDE DEF t
<1>4. faults' \in 0 .. MaxFaults
  BY <1>1, Bounds, CountsOn DEF EditorTypeOK
<1>5. \A p \in Paths : Kept(p, disk[p])'
  BY <1>1 DEF DraftInv, TextIsKept, Kept, editorHistory
<1>6. /\ disk' \in [Paths -> DraftTexts] /\ news' \in BOOLEAN
      /\ kept \subseteq kept' /\ kept' \subseteq Paths \X Typed
  BY <1>1 DEF EditorTypeOK, editorHistory
<1> QED
  BY <1>1, <1>2, <1>3, <1>4, <1>5, <1>6, ProgressIsSafe DEF editorHistory

\* A save ends: its editor takes the result over, if it is still there and the
\* draft has not changed since.
LEMMA EndSaveIsSafe ==
  ASSUME DraftInv, NEW s \in saves, EndSave(s)
  PROVE  DraftInv'
<1> DEFINE same == IF s.mine THEN editor.draft = s.content ELSE s.unchanged
           clean == s.at = "applied" /\ same
<1> USE DEF DraftInv, DraftsAreSafe
<1>1. /\ UNCHANGED <<disk, news, screen, clicks, moves, faults, work, kept>>
      /\ s.at # "sent" /\ saves' = saves \ {s} /\ guard' = ~clean
      /\ accidents' = accidents \cup
           (IF ~s.mine /\ clean /\ Dirty THEN {"late save"} ELSE {})
  BY DEF EndSave
<1>2. s \in Save /\ (same \in BOOLEAN)
  BY DEF EditorTypeOK, Save
<1>3. SavesAreSound' /\ OneWritePerSave'
  BY <1>1 DEF SavesAreSound, OneWritePerSave
<1>4. guard' \in BOOLEAN /\ accidents' \subseteq {"failed page", "late save"}
      /\ (accidents' = {} => accidents = {})
  BY <1>1, <1>2 DEF EditorTypeOK
<1>5. CASE ~s.mine
  <2>1. UNCHANGED editor
    BY <1>5 DEF EndSave
  <2>2. EditorTypeOK'
    BY <1>1, <1>4, <2>1 DEF EditorTypeOK, screen
  <2>3. EveryKeystrokeIsKept'
    BY <1>1, <1>4, <2>1 DEF EveryKeystrokeIsKept, screen
  <2>4. DraftIsGuarded'
    BY <1>1, <1>5, <2>1 DEF DraftIsGuarded, Dirty
  <2>5. EditorIsShown' /\ EditorIsSound' /\ TextIsKept'
    BY <1>1, <2>1 DEF EditorIsShown, EditorIsSound, TextIsKept, Kept, screen
  <2> QED
    BY <1>3, <2>2, <2>3, <2>4, <2>5
<1>6. CASE s.mine
  <2>1. /\ editor # None /\ editor \in Draft /\ editor.saving /\ s.path = path
        /\ editor.loaded /\ editor.fetch = None
    BY <1>6 DEF EditorTypeOK, EditorIsSound
  <2>2. /\ editor' \in Draft /\ ~editor'.saving /\ editor'.loaded
        /\ editor'.fetch = editor.fetch
        /\ IF clean THEN editor'.base = s.result /\ editor'.draft = s.result
           ELSE /\ editor'.draft = editor.draft
                /\ editor'.base = IF s.at = "applied" THEN s.content ELSE editor.base
    <3>1. CASE clean
      <4>1. editor' = [[editor EXCEPT !.base = s.result, !.draft = s.result]
                        EXCEPT !.saving = FALSE]
        BY <1>6, <3>1 DEF EndSave
      <4> QED
        BY <1>2, <2>1, <3>1, <4>1 DEF Draft, Save
    <3>2. CASE ~clean /\ s.at = "applied"
      <4>1. editor' = [[editor EXCEPT !.base = s.content] EXCEPT !.saving = FALSE]
        BY <1>6, <3>2 DEF EndSave
      <4> QED
        BY <1>2, <2>1, <3>2, <4>1 DEF Draft, Save
    <3>3. CASE s.at # "applied"
      <4>1. editor' = [editor EXCEPT !.saving = FALSE]
        BY <1>6, <3>3 DEF EndSave
      <4> QED
        BY <2>1, <3>3, <4>1 DEF Draft
    <3> QED
      BY <3>1, <3>2, <3>3
  <2>3. editor' # None
    BY <2>2, EditorAssumption
  <2>4. \A x \in saves' : ~x.mine
    BY <1>1, <1>6 DEF SavesAreSound
  <2>5. EditorTypeOK'
    BY <1>1, <1>4, <2>2, <2>4 DEF EditorTypeOK, screen
  <2>6. EditorIsShown' /\ EditorIsSound'
    BY <1>1, <2>1, <2>2 DEF EditorIsShown, EditorIsSound, screen
  <2>7. Kept(path, s.base) /\ (s.at = "applied" => Kept(path, s.content) /\ Kept(path, s.result))
    BY <2>1 DEF TextIsKept
  <2>8. TextIsKept'
    <3>1. Kept(path, editor'.base)
      BY <2>1, <2>2, <2>7 DEF TextIsKept
    <3> QED
      BY <1>1, <2>1, <2>2, <3>1 DEF TextIsKept, Kept, screen
  <2>9. DraftIsGuarded'
    BY <1>1, <2>2 DEF DraftIsGuarded, Dirty
  <2>10. EveryKeystrokeIsKept'
    <3> SUFFICES ASSUME accidents = {}, NEW w \in work \ kept
                 PROVE  path = w[1] /\ w[2] \in editor'.draft
      BY <1>1, <1>4, <2>3 DEF EveryKeystrokeIsKept, screen
    <3>1. path = w[1] /\ w[2] \in editor.draft
      BY DEF EveryKeystrokeIsKept
    <3>2. ~clean
      <4> SUFFICES ASSUME clean PROVE FALSE
        OBVIOUS
      <4>1. w \in Paths \X Typed
        BY DEF EditorTypeOK
      <4>2. w[2] \in s.content
        BY <1>6, <3>1
      <4>3. w = <<path, w[2]>> /\ w[2] \in Typed
        BY <3>1, <4>1
      <4> QED
        BY <2>7, <4>2, <4>3 DEF Kept
    <3> QED
      BY <2>2, <3>1, <3>2
  <2> QED
    BY <1>3, <2>5, <2>6, <2>8, <2>9, <2>10
<1> QED
  BY <1>5, <1>6

(***************************************************************************)
(* Other programs, and the theorem.                                        *)
(***************************************************************************)
LEMMA OtherWritesIsSafe ==
  ASSUME DraftInv, NEW p \in Paths, NEW w \in Others, OtherWrites(p, w)
  PROVE  DraftInv'
<1> USE DEF DraftInv, DraftsAreSafe
<1>1. /\ UNCHANGED <<screen, editor, guard, saves, clicks, faults, editorHistory>>
      /\ disk' = [disk EXCEPT ![p] = IF w \in @ THEN {} ELSE @ \cup {w}]
      /\ news' = TRUE /\ Moved
  BY DEF OtherWrites
<1>2. moves' \in 0 .. MaxMoves
  BY <1>1, Bounds, CountsOn DEF Moved, EditorTypeOK
<1>3. disk' \in [Paths -> DraftTexts]
  BY <1>1 DEF EditorTypeOK, DraftTexts
<1>4. EditorTypeOK'
  BY <1>1, <1>2, <1>3 DEF EditorTypeOK, screen, editorHistory
<1>5. /\ EveryKeystrokeIsKept' /\ DraftIsGuarded' /\ OneWritePerSave'
      /\ EditorIsShown' /\ EditorIsSound' /\ SavesAreSound'
  BY <1>1 DEF EveryKeystrokeIsKept, DraftIsGuarded, OneWritePerSave, EditorIsShown,
     EditorIsSound, SavesAreSound, Dirty, screen, editorHistory
<1>6. \A x \in Paths : disk'[x] \cap Typed \subseteq disk[x]
  BY <1>1, EditorAssumption DEF EditorTypeOK
<1>7. TextIsKept'
  BY <1>1, <1>6 DEF TextIsKept, Kept, screen, editorHistory
<1> QED
  BY <1>4, <1>5, <1>7

LEMMA Initially == EditorInit => DraftInv
<1> SUFFICES ASSUME EditorInit PROVE DraftInv
  OBVIOUS
<1>1. disk \in [Paths -> DraftTexts]
  BY DEF EditorInit, DraftTexts
<1>2. clicks \in 0 .. MaxSaves /\ moves \in 0 .. MaxMoves /\ faults \in 0 .. MaxFaults
  BY Bounds DEF EditorInit
<1>3. EditorTypeOK
  BY <1>1, <1>2 DEF EditorInit, EditorTypeOK
<1>4. /\ EveryKeystrokeIsKept /\ DraftIsGuarded /\ OneWritePerSave
      /\ EditorIsShown /\ EditorIsSound /\ SavesAreSound
  BY DEF EditorInit, EveryKeystrokeIsKept, DraftIsGuarded, OneWritePerSave, EditorIsShown,
     EditorIsSound, SavesAreSound, Dirty
<1>5. TextIsKept
  BY DEF EditorInit, TextIsKept, Kept
<1> QED
  BY <1>3, <1>4, <1>5 DEF DraftInv, DraftsAreSafe

LEMMA Inductive == DraftInv /\ [EditorNext]_editorVars => DraftInv'
<1> SUFFICES ASSUME DraftInv, [EditorNext]_editorVars PROVE DraftInv'
  OBVIOUS
<1>1. CASE \/ SwitchMode \/ ToggleGraph \/ Reload \/ PageLoads \/ RefreshFails \/ RetryPage
           \/ \E p \in Paths : NavigateTo(p)
  BY <1>1, ScreenIsSafe
<1>2. CASE AnswerSource \/ SourceFails \/ RetrySource \/ Notice \/ ReloadSource
  BY <1>2, SourceIsSafe
<1>3. CASE TakeSource
  BY <1>3, TakeSourceIsSafe
<1>4. CASE \E k \in Typed : Type(k) \/ Erase(k)
  BY <1>4, ChangeIsSafe
<1>5. CASE SaveDraft
  BY <1>5, SaveDraftIsSafe
<1>6. CASE \E s \in saves : ApplySave(s) \/ Conflict(s) \/ LoseSave(s) \/ EndSave(s)
  BY <1>6, ApplySaveIsSafe, FailureIsSafe, EndSaveIsSafe
<1>7. CASE \E p \in Paths, w \in Others : OtherWrites(p, w)
  BY <1>7, OtherWritesIsSafe
<1>8. CASE UNCHANGED editorVars
  BY <1>8 DEF editorVars, screen, editorHistory, DraftInv, DraftsAreSafe, EditorTypeOK, EveryKeystrokeIsKept,
     DraftIsGuarded, OneWritePerSave, EditorIsShown, EditorIsSound, SavesAreSound,
     TextIsKept, Kept, Dirty
<1> QED
  BY <1>1, <1>2, <1>3, <1>4, <1>5, <1>6, <1>7, <1>8 DEF EditorNext

\* The browser editor keeps every keystroke the user has not given up, asks
\* before it throws a dirty draft away and writes each save once, but for the
\* two accidents the code has: a page that fails to refresh under a dirty
\* editor, and a late save that clears the guard of another one.
THEOREM DraftsStaySafe == EditorSpec => []DraftsAreSafe
<1>1. DraftInv => DraftsAreSafe
  BY DEF DraftInv
<1> QED
  BY <1>1, Initially, Inductive, PTL DEF EditorSpec

-----------------------------------------------------------------------------
(***************************************************************************)
(* The inductive invariant of a build.  SiteIsWhole speaks of the site     *)
(* that stands; that every link of it leads to a page depends on what each *)
(* phase of the build has asked for, and on what may still be brought by a *)
(* page of a later phase: what quotes such a page is known from the        *)
(* documents and the graph, but for a source that has appeared meanwhile.  *)
(***************************************************************************)
Collecting == {"documents", "externals", "sources", "write"}
Complete == {"index", "package", "clear", "move"}

AllUrls ==
  {Document(d) : d \in Docs \cup Previews} \cup {External(x) : x \in Externals}
    \cup {Resource(r) : r \in Resources} \cup {Source(s, f) : s \in Sources, f \in Docs \cup {"", "comment"}}

Snapshots ==
  [docs : SUBSET Docs, comments : SUBSET (Sources \X (Docs \cup Externals)),
   externals : SUBSET Externals, graph : SUBSET AllUrls]

Pages == [url : AllUrls \cup {Graph}, urls : SUBSET AllUrls]

Builds ==
  [pc : {"off", "open", "done", "failed"} \cup Collecting \cup Complete,
   kind : {"static", "server", "vercel", "theirs", "ruins"}, force : BOOLEAN, retries : Nat,
   snap : Snapshots \cup {NoSite}, pages : SUBSET Pages, hits : SUBSET Docs, steady : BOOLEAN]

\* What a page links whatever files there are, and the sources it links now.
Lasting(p, snap) ==
  {Document(d) : d \in world.links[p] \cap (snap.docs \cup Previews)}
    \cup {Resource(r) : r \in world.links[p] \cap Resources}
    \cup {External(x) : x \in world.links[p] \cap (IF p \in Externals THEN snap.externals \cup {p}
                                                   ELSE Externals)}
LinkedSources(p) ==
  {Source(s, IF p \in Docs THEN p ELSE "") : s \in {x \in world.links[p] \cap Sources : Publishable(x)}}

Served(j) == {p.url : p \in j.pages}

\* What the documents and the graph link, and the documents.
Base(j) ==
  {Document(d) : d \in j.snap.docs} \cup UrlsOf(PagesOf(j.pages, {"document", "graph"}))

SnapIsSound(j) ==
  /\ j.snap \in Snapshots
  /\ "graph" \notin j.snap.docs
  /\ \A c \in j.snap.comments : Source(c[1], "comment") \in j.snap.graph
  /\ \A u \in j.snap.graph :
       /\ u.kind = "document" => u.file \in j.snap.docs
       /\ u.kind # "resource"
  /\ j.steady => j.snap.docs = Docs \cap present

\* Which pages there are by now.
KindsAre(j) ==
  \A p \in j.pages :
    /\ p.url.kind = "source" => j.pc \in {"sources", "write"}
    /\ p.url.kind = "external" => j.pc # "documents"
    /\ p.url.kind # "resource"
    /\ p.url.kind = "graph" => j.pc # "documents" /\ p.urls = j.snap.graph
    /\ p.url.kind = "document" => p.url.file \in j.snap.docs \cup Previews
    /\ \A u \in p.urls : u.kind = "document" => u.file \in j.snap.docs \cup Previews

DocumentsAreWhole(j) ==
  \A p \in PagesOf(j.pages, {"document"}) :
    /\ Lasting(p.url.file, j.snap) \subseteq p.urls
    /\ j.steady => LinkedSources(p.url.file) \subseteq p.urls

\* By then what quotes a page brings nothing new but an external, or a source.
QuotesAreKnown(j) ==
  /\ \A p \in PagesOf(j.pages, {"external"}) : \A u \in p.urls :
       u \in Base(j) \/ u.kind = "external" \/ (u.kind = "source" /\ ~j.steady)
  /\ \A p \in PagesOf(j.pages, {"source"}) : \A u \in p.urls :
       u \in Base(j) \/ u.kind = "source"

PhasesAreOver(j) ==
  /\ j.pc # "documents" =>
       /\ DocumentsAsked(j) \subseteq Served(j)
       /\ Page(Graph, j.snap.graph) \in j.pages
  /\ j.pc \in {"sources", "write"} =>
       OfKind(UrlsOf(PagesOf(j.pages, {"document", "graph", "external"})), "external") \subseteq Served(j)
  /\ j.pc = "write" => SourcesAsked(j) \subseteq Served(j)

Collects(j) ==
  /\ SnapIsSound(j) /\ KindsAre(j) /\ DocumentsAreWhole(j) /\ QuotesAreKnown(j) /\ PhasesAreOver(j)
  /\ j.hits = {}

\* A site that is whole.
Whole(j) ==
  /\ j.snap \in Snapshots /\ "graph" \notin j.snap.docs
  /\ \A p \in j.pages :
       /\ p.url.kind = "document" => p.url.file \in j.snap.docs \cup Previews
       /\ \A u \in p.urls :
            u \in Served(j) \/ (~j.steady /\ p.url.kind = "external" /\ u.kind = "source")
  /\ \A d \in j.snap.docs : Document(d) \in Served(j)
  /\ j.steady => j.hits \subseteq j.snap.docs

\* The invariant.
SiteInv ==
  /\ world \in Worlds
  /\ build \in Builds
  /\ output # NoSite => output \in Builds
  /\ build.pc \in Collecting => Collects(build)
  /\ build.pc = "open" => build.pages = {} /\ build.hits = {}
  /\ build.pc \in Complete => Whole(build)
  /\ build.pc = "index" /\ build.steady => build.snap.docs = Docs \cap present
  /\ output \notin {NoSite, Theirs, Ruins} => Whole(output)

\* What an address says.
LEMMA PartsOfUrls ==
  /\ \A d : Document(d).kind = "document" /\ Document(d).file = d
  /\ \A x : External(x).kind = "external" /\ External(x).file = x
  /\ \A r : Resource(r).kind = "resource" /\ Resource(r).file = r
  /\ \A s, f : Source(s, f).kind = "source" /\ Source(s, f).file = s
  /\ Graph.kind = "graph" /\ Graph.file = ""
  BY DEF Document, External, Resource, Source, Graph, Url

\* The addresses but that of the graph, by kind.
LEMMA FourKindsOfUrls ==
  ASSUME NEW u
  PROVE  u \in AllUrls <=>
           \/ \E d \in Docs \cup Previews : u = Document(d)
           \/ \E x \in Externals : u = External(x)
           \/ \E r \in Resources : u = Resource(r)
           \/ \E s \in Sources, f \in Docs \cup {"", "comment"} : u = Source(s, f)
  BY DEF AllUrls

\* The kind of an address tells what its file is.
LEMMA KindsOfUrls ==
  ASSUME NEW u \in AllUrls
  PROVE  /\ u.kind \in {"document", "external", "resource", "source"}
         /\ u.kind = "document" => u = Document(u.file) /\ u.file \in Docs \cup Previews
         /\ u.kind = "external" => u = External(u.file) /\ u.file \in Externals
         /\ u.kind = "resource" => u = Resource(u.file) /\ u.file \in Resources
         /\ u.kind = "source" => u.file \in Sources
<1>1. ASSUME NEW d \in Docs \cup Previews, u = Document(d)
      PROVE  u.kind = "document" /\ u.file = d
  BY <1>1, PartsOfUrls
<1>2. ASSUME NEW x \in Externals, u = External(x)
      PROVE  u.kind = "external" /\ u.file = x
  BY <1>2, PartsOfUrls
<1>3. ASSUME NEW r \in Resources, u = Resource(r)
      PROVE  u.kind = "resource" /\ u.file = r
  BY <1>3, PartsOfUrls
<1>4. ASSUME \E s \in Sources, f \in Docs \cup {"", "comment"} : u = Source(s, f)
      PROVE  u.kind = "source" /\ u.file \in Sources
  <2>1. PICK s \in Sources, f \in Docs \cup {"", "comment"} : u = Source(s, f)
    BY <1>4
  <2>2. u = [kind |-> "source", file |-> s, from |-> f]
    BY <2>1 DEF Source, Url
  <2> QED  BY <2>2
<1> QED  BY <1>1, <1>2, <1>3, <1>4, FourKindsOfUrls

\* What a page links, whether or not files come and go, and the sources among it.
LEMMA RenderedIs ==
  ASSUME NEW p, NEW snap
  PROVE  RenderedUrls(p, snap) = Lasting(p, snap) \cup LinkedSources(p)
  BY DEF RenderedUrls, Lasting, LinkedSources

\* Links of a page are addresses; to documents of the snapshot, or previews.
LEMMA LinksAreUrls ==
  ASSUME world \in Worlds, NEW p \in Names, NEW snap \in Snapshots
  PROVE  /\ Lasting(p, snap) \subseteq AllUrls
         /\ LinkedSources(p) \subseteq AllUrls
         /\ \A u \in Lasting(p, snap) :
              /\ u.kind # "source"
              /\ u.kind = "document" => u.file \in snap.docs \cup Previews
         /\ \A u \in LinkedSources(p) : u.kind = "source"
<1>1. snap.docs \subseteq Docs /\ snap.externals \subseteq Externals
  BY DEF Snapshots
<1>2. ASSUME NEW u \in Lasting(p, snap)
      PROVE  /\ u \in AllUrls /\ u.kind # "source"
             /\ u.kind = "document" => u.file \in snap.docs \cup Previews
  <2>1. ASSUME NEW d \in snap.docs \cup Previews, u = Document(d)
        PROVE  u \in AllUrls /\ u.kind = "document" /\ u.file = d
    <3>1. d \in Docs \cup Previews  BY <1>1
    <3>2. u.kind = "document" /\ u.file = d  BY <2>1, PartsOfUrls
    <3> QED  BY <2>1, <3>1, <3>2, FourKindsOfUrls
  <2>2. CASE \E r \in Resources : u = Resource(r)
    BY <2>2, PartsOfUrls, FourKindsOfUrls
  <2>3. CASE \E x \in Externals : u = External(x)
    BY <2>3, PartsOfUrls, FourKindsOfUrls
  <2> QED  BY <1>1, <2>1, <2>2, <2>3 DEF Lasting
<1>3. ASSUME NEW u \in LinkedSources(p)
      PROVE  u \in AllUrls /\ u.kind = "source"
  <2>1. PICK s \in Sources : u = Source(s, IF p \in Docs THEN p ELSE "")
    BY DEF LinkedSources
  <2>2. u.kind = "source"
    BY <2>1 DEF Source, Url
  <2> QED  BY <2>1, <2>2, FourKindsOfUrls
<1> QED  BY <1>2, <1>3

\* Where a link comes from that is on a page since it quotes a document or code.
LEMMA QuotedIs ==
  ASSUME NEW p, NEW snap, NEW u \in Quoted(p, snap)
  PROVE  \/ \E d \in snap.docs : u = Document(d) \/ u \in Lasting(d, snap) \/ u \in LinkedSources(d)
         \/ \E c \in snap.comments : u = Source(c[1], "comment")
<1>1. CASE u \in UNION {{Document(d)} \cup RenderedUrls(d, snap) : d \in {d \in snap.docs : p \in world.links[d]}}
  BY <1>1, RenderedIs
<1>2. CASE u \in {Source(c[1], "comment") : c \in {m \in snap.comments : m[2] = p}}
  BY <1>2
<1> QED  BY <1>1, <1>2 DEF Quoted

\* The same of what quotes a page.
LEMMA QuotesAreUrls ==
  ASSUME world \in Worlds, NEW p, NEW snap \in Snapshots
  PROVE  /\ Quoted(p, snap) \subseteq AllUrls
         /\ \A u \in Quoted(p, snap) : u.kind = "document" => u.file \in snap.docs \cup Previews
<1>1. ASSUME NEW u \in Quoted(p, snap)
      PROVE  u \in AllUrls /\ (u.kind = "document" => u.file \in snap.docs \cup Previews)
  <2>1. snap.docs \subseteq Docs /\ snap.comments \subseteq Sources \X (Docs \cup Externals)
    BY DEF Snapshots
  <2>2. snap.docs \subseteq Names
    BY <2>1 DEF Names, SiteFiles
  <2>3. ASSUME NEW d \in snap.docs, u = Document(d)
        PROVE  u \in AllUrls /\ u.file \in snap.docs \cup Previews
    BY <2>1, <2>3, PartsOfUrls, FourKindsOfUrls
  <2>4. ASSUME NEW d \in snap.docs, u \in Lasting(d, snap) \/ u \in LinkedSources(d)
        PROVE  u \in AllUrls /\ (u.kind = "document" => u.file \in snap.docs \cup Previews)
    BY <2>2, <2>4, LinksAreUrls
  <2>5. ASSUME NEW c \in snap.comments, u = Source(c[1], "comment")
        PROVE  u \in AllUrls /\ u.kind = "source"
    <3>1. c[1] \in Sources  BY <2>1
    <3>2. u.kind = "source"
      BY <2>5 DEF Source, Url
    <3> QED  BY <2>5, <3>1, <3>2, FourKindsOfUrls
  <2> QED  BY <2>3, <2>4, <2>5, QuotedIs
<1> QED  BY <1>1

\* The same of all links of a page.
LEMMA UrlsAreUrls ==
  ASSUME world \in Worlds, NEW u \in AllUrls, NEW snap \in Snapshots
  PROVE  /\ Urls(u, snap) \subseteq AllUrls
         /\ \A v \in Urls(u, snap) : v.kind = "document" => v.file \in snap.docs \cup Previews
<1>1. u.file \in Names
  BY KindsOfUrls DEF Names, SiteFiles
<1>2. \A v \in RenderedUrls(u.file, snap) :
        v \in AllUrls /\ (v.kind = "document" => v.file \in snap.docs \cup Previews)
  BY <1>1, RenderedIs, LinksAreUrls
<1> QED  BY <1>2, QuotesAreUrls DEF Urls

\* One more page.
With(j, u) == [j EXCEPT !.pages = @ \cup {Page(u, Urls(u, j.snap))}]

\* What a fetched page changes of a build.
LEMMA OneMorePage ==
  ASSUME SiteInv, build.pc \in Collecting, NEW u \in AllUrls
  PROVE  /\ With(build, u) \in Builds
         /\ With(build, u).pages = build.pages \cup {Page(u, Urls(u, build.snap))}
         /\ With(build, u).snap = build.snap /\ With(build, u).pc = build.pc
         /\ With(build, u).steady = build.steady /\ With(build, u).hits = build.hits
         /\ Served(With(build, u)) = Served(build) \cup {u}
         /\ build.snap \in Snapshots
         /\ Urls(u, build.snap) \subseteq AllUrls
         /\ \A v \in Urls(u, build.snap) : v.kind = "document" => v.file \in build.snap.docs \cup Previews
<1>1. build.snap \in Snapshots /\ world \in Worlds /\ build \in Builds
  BY DEF SiteInv, Collects, SnapIsSound
<1>2. /\ Urls(u, build.snap) \subseteq AllUrls
      /\ \A v \in Urls(u, build.snap) : v.kind = "document" => v.file \in build.snap.docs \cup Previews
  BY <1>1, UrlsAreUrls
<1>3. Page(u, Urls(u, build.snap)) \in Pages /\ Page(u, Urls(u, build.snap)).url = u
  BY <1>2 DEF Page, Pages
<1>4. /\ With(build, u).pages = build.pages \cup {Page(u, Urls(u, build.snap))}
      /\ With(build, u).snap = build.snap /\ With(build, u).pc = build.pc
      /\ With(build, u).steady = build.steady /\ With(build, u).hits = build.hits
      /\ With(build, u) \in Builds
  BY <1>1, <1>3 DEF With, Builds
<1>5. Served(With(build, u)) = Served(build) \cup {u}
  BY <1>3, <1>4 DEF Served
<1> QED  BY <1>1, <1>2, <1>4, <1>5

\* A document that was asked for adds what it links, and may ask for previews.
LEMMA DocumentFetched ==
  ASSUME SiteInv, build.pc = "documents", NEW u \in DocumentsAsked(build)
  PROVE  With(build, u) \in Builds /\ Collects(With(build, u))
<1> DEFINE k == With(build, u)
<1>1. Collects(build)
  BY DEF SiteInv, Collecting
<1>2. u \in AllUrls /\ u.kind = "document" /\ u.file \in build.snap.docs \cup Previews
  <2>1. CASE \E d \in build.snap.docs : u = Document(d)
    <3>1. PICK d \in build.snap.docs : u = Document(d)  BY <2>1
    <3>2. d \in Docs  BY <1>1 DEF Collects, SnapIsSound, Snapshots
    <3> QED  BY <3>1, <3>2, PartsOfUrls, FourKindsOfUrls
  <2>2. CASE u \in OfKind(UrlsOf(build.pages), "document")
    <3>1. PICK q \in build.pages : u \in q.urls /\ u.kind = "document"
      BY <2>2 DEF OfKind, UrlsOf
    <3>2. q \in Pages  BY <3>1 DEF SiteInv, Builds
    <3> QED  BY <1>1, <3>1, <3>2 DEF Collects, KindsAre, Pages
  <2> QED  BY <2>1, <2>2 DEF DocumentsAsked
<1> DEFINE new == Page(u, Urls(u, build.snap))
<1>3. /\ k \in Builds /\ k.pages = build.pages \cup {new} /\ k.snap = build.snap /\ k.pc = build.pc
      /\ k.steady = build.steady /\ k.hits = build.hits
      /\ \A v \in Urls(u, build.snap) : v.kind = "document" => v.file \in build.snap.docs \cup Previews
  BY <1>2, OneMorePage DEF Collecting
<1>4. new.url = u /\ new.urls = Urls(u, build.snap)
  BY DEF Page
<1>5. SnapIsSound(k)
  BY <1>1, <1>3 DEF Collects, SnapIsSound
<1>6. KindsAre(k)
  BY <1>1, <1>2, <1>3, <1>4 DEF Collects, KindsAre
<1>7. Lasting(u.file, build.snap) \cup LinkedSources(u.file) \subseteq new.urls
  BY <1>2, <1>4, RenderedIs DEF Urls
<1>8. DocumentsAreWhole(k)
  BY <1>1, <1>3, <1>4, <1>7 DEF Collects, DocumentsAreWhole, PagesOf
<1>9. PagesOf(k.pages, {"external"}) = {} /\ PagesOf(k.pages, {"source"}) = {}
  BY <1>3, <1>6 DEF KindsAre, PagesOf
<1> QED  BY <1>1, <1>3, <1>5, <1>6, <1>8, <1>9 DEF Collects, QuotesAreKnown, PhasesAreOver

\* When no document is asked for any more, the graph adds none.
LEMMA DocumentsFetched ==
  ASSUME SiteInv, build.pc = "documents", DocumentsAsked(build) \subseteq Served(build),
         NEW k, k = [build EXCEPT !.pc = "externals", !.pages = @ \cup {Page(Graph, build.snap.graph)}]
  PROVE  k \in Builds /\ Collects(k)
<1>1. Collects(build) /\ build \in Builds
  BY DEF SiteInv, Collecting
<1> DEFINE new == Page(Graph, build.snap.graph)
<1>2. new.url = Graph /\ new.urls = build.snap.graph /\ new \in Pages /\ Graph.kind = "graph"
  BY <1>1, PartsOfUrls DEF Page, Pages, Collects, SnapIsSound, Snapshots
<1>3. /\ k \in Builds /\ k.pages = build.pages \cup {new} /\ k.snap = build.snap /\ k.pc = "externals"
      /\ k.steady = build.steady /\ k.hits = build.hits
  BY <1>1, <1>2 DEF Builds, Collecting
<1>4. SnapIsSound(k)
  BY <1>1, <1>3 DEF Collects, SnapIsSound
<1>5. KindsAre(k)
  BY <1>1, <1>2, <1>3 DEF Collects, KindsAre, SnapIsSound
<1>6. DocumentsAreWhole(k)
  BY <1>1, <1>2, <1>3 DEF Collects, DocumentsAreWhole, PagesOf
<1>7. PagesOf(k.pages, {"external"}) = {} /\ PagesOf(k.pages, {"source"}) = {}
  BY <1>1, <1>2, <1>3 DEF Collects, KindsAre, PagesOf
<1>8. DocumentsAsked(k) \subseteq Served(k)
  <2>1. ASSUME NEW v \in build.snap.graph, v.kind = "document"
        PROVE  v \in DocumentsAsked(build)
    <3>1. v \in AllUrls /\ v.file \in build.snap.docs
      BY <1>1, <2>1 DEF Collects, SnapIsSound, Snapshots
    <3>2. v = Document(v.file)
      BY <2>1, <3>1, KindsOfUrls
    <3> QED  BY <3>1, <3>2 DEF DocumentsAsked
  <2> QED  BY <1>2, <1>3, <2>1 DEF DocumentsAsked, OfKind, UrlsOf, Served
<1> QED  BY <1>1, <1>3, <1>4, <1>5, <1>6, <1>7, <1>8 DEF Collects, QuotesAreKnown, PhasesAreOver

\* When the documents are there, what quotes a page brings nothing else, but for a
\* source that has appeared.
LEMMA QuotedIsKnown ==
  ASSUME SiteInv, build.pc \in Collecting \ {"documents"}, NEW p, NEW v \in Quoted(p, build.snap)
  PROVE  v \in Base(build) \/ (v.kind = "source" /\ ~build.steady)
<1>1. Collects(build)
  BY DEF SiteInv
<1>2. CASE \E d \in build.snap.docs : v = Document(d)
  BY <1>2 DEF Base
<1>3. ASSUME NEW d \in build.snap.docs, v \in Lasting(d, build.snap) \/ v \in LinkedSources(d)
      PROVE  v \in Base(build) \/ (v.kind = "source" /\ ~build.steady)
  <2>1. Document(d) \in Served(build)
    BY <1>1 DEF Collects, PhasesAreOver, DocumentsAsked
  <2>2. PICK q \in build.pages : q.url = Document(d)
    BY <2>1 DEF Served
  <2>3. q \in PagesOf(build.pages, {"document"}) /\ q.url.file = d
    BY <2>2, PartsOfUrls DEF PagesOf
  <2>4. q.urls \subseteq Base(build)
    BY <2>3 DEF Base, UrlsOf, PagesOf
  <2>5. Lasting(d, build.snap) \subseteq q.urls /\ (build.steady => LinkedSources(d) \subseteq q.urls)
    BY <1>1, <2>3 DEF Collects, DocumentsAreWhole
  <2>6. v \in LinkedSources(d) => v.kind = "source"
    <3>1. \A s, f : Source(s, f).kind = "source"
      BY DEF Source, Url
    <3> QED  BY <3>1 DEF LinkedSources
  <2> QED  BY <1>3, <2>4, <2>5, <2>6
<1>4. ASSUME NEW c \in build.snap.comments, v = Source(c[1], "comment")
      PROVE  v \in Base(build)
  <2>1. v \in build.snap.graph
    BY <1>1, <1>4 DEF Collects, SnapIsSound
  <2>2. Page(Graph, build.snap.graph) \in PagesOf(build.pages, {"document", "graph"})
    BY <1>1, PartsOfUrls DEF Collects, PhasesAreOver, PagesOf, Page
  <2> QED  BY <2>1, <2>2 DEF Base, UrlsOf, Page
<1> QED  BY <1>2, <1>3, <1>4, QuotedIs

\* An external document links externals only.
LEMMA ExternalLinks ==
  ASSUME world \in Worlds, NEW x \in Externals, NEW snap, NEW v \in RenderedUrls(x, snap),
         snap \in Snapshots
  PROVE  v.kind = "external"
<1>1. world.links[x] \cap SiteFiles = {} /\ world.links[x] \subseteq Externals
  BY SiteAssumption
<1>2. snap.docs \cup Previews \subseteq SiteFiles /\ Resources \subseteq SiteFiles /\ Sources \subseteq SiteFiles
  BY DEF Snapshots, SiteFiles
<1>3. v \notin LinkedSources(x)
  BY <1>1, <1>2 DEF LinkedSources
<1>4. v \in Lasting(x, snap)
  BY <1>3, RenderedIs
<1>5. \E y \in Externals : v = External(y)
  <2>1. world.links[x] \cap (snap.docs \cup Previews) = {} /\ world.links[x] \cap Resources = {}
    BY <1>1, <1>2
  <2>2. \E y \in world.links[x] : v = External(y)
    BY <1>4, <2>1 DEF Lasting
  <2> QED  BY <1>1, <2>2
<1> QED  BY <1>5, PartsOfUrls

\* The last step of a fetch that is not of a document.
LEMMA OtherFetched ==
  ASSUME SiteInv, build.pc \in {"externals", "sources"}, NEW u \in AllUrls,
         u.kind = IF build.pc = "externals" THEN "external" ELSE "source"
  PROVE  With(build, u) \in Builds /\ Collects(With(build, u))
<1> DEFINE k == With(build, u)
           new == Page(u, Urls(u, build.snap))
<1>1. Collects(build) /\ build.pc \in Collecting \ {"documents"} /\ world \in Worlds
  BY DEF SiteInv, Collecting
<1>2. /\ k \in Builds /\ k.pages = build.pages \cup {new} /\ k.snap = build.snap /\ k.pc = build.pc
      /\ k.steady = build.steady /\ k.hits = build.hits /\ Served(k) = Served(build) \cup {u}
      /\ Urls(u, build.snap) \subseteq AllUrls /\ build.snap \in Snapshots
      /\ \A v \in Urls(u, build.snap) : v.kind = "document" => v.file \in build.snap.docs \cup Previews
  BY <1>1, OneMorePage
<1>3. new.url = u /\ new.urls = Urls(u, build.snap)
  BY DEF Page
<1>4. SnapIsSound(k)
  BY <1>1, <1>2 DEF Collects, SnapIsSound
<1>5. KindsAre(k)
  BY <1>1, <1>2, <1>3 DEF Collects, KindsAre
<1>6. PagesOf(k.pages, {"document"}) = PagesOf(build.pages, {"document"})
  BY <1>2, <1>3 DEF PagesOf
<1>7. DocumentsAreWhole(k)
  BY <1>1, <1>2, <1>6 DEF Collects, DocumentsAreWhole
<1>8. PagesOf(k.pages, {"document", "graph"}) = PagesOf(build.pages, {"document", "graph"})
  BY <1>2, <1>3 DEF PagesOf
<1>9. Base(k) = Base(build)
  BY <1>2, <1>8 DEF Base
<1>10. ASSUME NEW v \in new.urls
       PROVE  v \in Base(build) \/ (v.kind = "external" /\ u.kind = "external")
                \/ (v.kind = "source" /\ ~build.steady)
  <2>1. CASE v \in Quoted(u.file, build.snap)
    BY <1>1, <2>1, QuotedIsKnown
  <2>2. CASE v \in RenderedUrls(u.file, build.snap) /\ u.kind = "external"
    BY <1>1, <1>2, <2>2, ExternalLinks, KindsOfUrls
  <2> QED  BY <1>3, <2>1, <2>2 DEF Urls
<1>11. QuotesAreKnown(k)
  BY <1>1, <1>2, <1>3, <1>9, <1>10 DEF Collects, QuotesAreKnown, PagesOf
<1>12. ASSUME NEW v \in new.urls, v.kind = "document"
       PROVE  v \in Served(build)
  <2>1. v \in Base(build)  BY <1>10, <1>12
  <2>2. v \in DocumentsAsked(build)
    BY <1>12, <2>1 DEF Base, DocumentsAsked, UrlsOf, OfKind, PagesOf
  <2> QED  BY <1>1, <2>2 DEF Collects, PhasesAreOver
<1>13. DocumentsAsked(k) \subseteq Served(k)
  BY <1>1, <1>2, <1>12 DEF Collects, PhasesAreOver, DocumentsAsked, UrlsOf, OfKind
<1>14. ASSUME k.pc = "sources"
       PROVE  PagesOf(k.pages, {"document", "graph", "external"})
                = PagesOf(build.pages, {"document", "graph", "external"})
  BY <1>2, <1>3, <1>14 DEF PagesOf
<1>15. PhasesAreOver(k)
  BY <1>1, <1>2, <1>13, <1>14 DEF Collects, PhasesAreOver
<1> QED  BY <1>1, <1>2, <1>4, <1>5, <1>7, <1>11, <1>15 DEF Collects

\* When no external, or no source, is asked for any more.
LEMMA PhaseOver ==
  ASSUME SiteInv,
         \/ build.pc = "externals" /\ ExternalsAsked(build) \subseteq Served(build)
         \/ build.pc = "sources" /\ SourcesAsked(build) \subseteq Served(build),
         NEW k, k = [build EXCEPT !.pc = IF build.pc = "externals" THEN "sources" ELSE "write"]
  PROVE  k \in Builds /\ Collects(k)
<1>1. Collects(build) /\ build \in Builds
  BY DEF SiteInv, Collecting
<1>2. /\ k \in Builds /\ k.pages = build.pages /\ k.snap = build.snap
      /\ k.pc = IF build.pc = "externals" THEN "sources" ELSE "write"
      /\ k.steady = build.steady /\ k.hits = build.hits
  BY <1>1 DEF Builds, Collecting
<1>3. SnapIsSound(k) /\ KindsAre(k) /\ DocumentsAreWhole(k)
  BY <1>1, <1>2 DEF Collects, SnapIsSound, KindsAre, DocumentsAreWhole
<1>4. QuotesAreKnown(k) /\ Base(k) = Base(build) /\ Served(k) = Served(build)
  BY <1>1, <1>2 DEF Collects, QuotesAreKnown, Base, Served
<1>5. DocumentsAsked(k) = DocumentsAsked(build) /\ SourcesAsked(k) = SourcesAsked(build)
  BY <1>2 DEF DocumentsAsked, SourcesAsked
<1>6. build.pc = "externals" =>
        OfKind(UrlsOf(PagesOf(k.pages, {"document", "graph", "external"})), "external") \subseteq Served(k)
  BY <1>2, <1>4 DEF ExternalsAsked, OfKind, UrlsOf, PagesOf
<1> QED  BY <1>1, <1>2, <1>3, <1>4, <1>5, <1>6 DEF Collects, PhasesAreOver

\* All that a page links is there.
LEMMA SiteWritten ==
  ASSUME SiteInv, build.pc = "write",
         NEW k, k = [build EXCEPT !.pc = IF build.kind = "static" THEN "clear" ELSE "index",
                                  !.pages = @ \cup {Page(u, {}) : u \in ResourcesAsked(build)}]
  PROVE  /\ k \in Builds /\ Whole(k) /\ k.pc \in {"clear", "index"}
         /\ k.steady => k.snap.docs = Docs \cap present
<1>1. Collects(build) /\ build \in Builds
  BY DEF SiteInv, Collecting
<1> DEFINE new == {Page(u, {}) : u \in ResourcesAsked(build)}
<1>2. \A q \in build.pages : q \in Pages /\ q.urls \subseteq AllUrls
  BY <1>1 DEF Builds, Pages
<1>3. ASSUME NEW u \in ResourcesAsked(build)
      PROVE  u \in AllUrls /\ u.kind = "resource" /\ Page(u, {}) \in Pages
               /\ Page(u, {}).url = u /\ Page(u, {}).urls = {}
  <2>1. u \in AllUrls /\ u.kind = "resource"
    BY <1>2 DEF ResourcesAsked, OfKind, UrlsOf, PagesOf
  <2> QED  BY <2>1 DEF Page, Pages
<1>4. new \subseteq Pages
  BY <1>3
<1>5. /\ k \in Builds /\ k.pages = build.pages \cup new /\ k.snap = build.snap
      /\ k.pc \in {"clear", "index"} /\ k.steady = build.steady /\ k.hits = {}
  BY <1>1, <1>4 DEF Builds, Complete, Collects
<1>6. Served(build) \subseteq Served(k) /\ ResourcesAsked(build) \subseteq Served(k)
  BY <1>3, <1>5 DEF Served
<1>7. ASSUME NEW q \in build.pages, NEW u \in q.urls, q.url.kind \in {"document", "graph"}
      PROVE  u \in Served(k)
  <2>1. u \in AllUrls /\ u.kind \in {"document", "external", "resource", "source"}
    BY <1>2, KindsOfUrls
  <2>2. CASE u.kind = "document"
    BY <1>1, <1>6, <2>2 DEF Collects, PhasesAreOver, DocumentsAsked, OfKind, UrlsOf
  <2>3. CASE u.kind = "external"
    BY <1>1, <1>6, <1>7, <2>3 DEF Collects, PhasesAreOver, PagesOf, OfKind, UrlsOf
  <2>4. CASE u.kind = "source"
    BY <1>1, <1>6, <1>7, <2>4 DEF Collects, PhasesAreOver, SourcesAsked, PagesOf, OfKind, UrlsOf
  <2>5. CASE u.kind = "resource"
    <3>1. q.url.kind # "graph"
      BY <1>1, <2>5 DEF Collects, KindsAre, SnapIsSound
    <3> QED  BY <1>6, <1>7, <2>5, <3>1 DEF ResourcesAsked, PagesOf, OfKind, UrlsOf
  <2> QED  BY <2>1, <2>2, <2>3, <2>4, <2>5
<1>8. Base(build) \subseteq Served(k)
  <2>1. {Document(d) : d \in build.snap.docs} \subseteq Served(k)
    BY <1>1, <1>6 DEF Collects, PhasesAreOver, DocumentsAsked
  <2> QED  BY <1>7, <2>1 DEF Base, UrlsOf, PagesOf
<1>9. ASSUME NEW q \in k.pages
      PROVE  /\ q.url.kind = "document" => q.url.file \in k.snap.docs \cup Previews
             /\ \A u \in q.urls :
                  u \in Served(k) \/ (~k.steady /\ q.url.kind = "external" /\ u.kind = "source")
  <2>1. CASE q \in new
    <3>1. PICK u \in ResourcesAsked(build) : q = Page(u, {})
      BY <2>1
    <3> QED  BY <1>3, <3>1
  <2>2. CASE q \in build.pages
    <3>1. q.url.kind = "document" => q.url.file \in k.snap.docs \cup Previews
      BY <1>1, <1>5, <2>2 DEF Collects, KindsAre
    <3>2. q.url.kind \in {"document", "graph", "external", "source"}
      <4>1. q.url \in AllUrls \cup {Graph}
        BY <1>2, <2>2 DEF Pages
      <4> QED  BY <1>1, <2>2, <4>1, KindsOfUrls, PartsOfUrls DEF Collects, KindsAre
    <3>3. ASSUME NEW u \in q.urls, q.url.kind = "external"
          PROVE  u \in Served(k) \/ (~k.steady /\ u.kind = "source")
      <4>1. u \in Base(build) \/ u.kind = "external" \/ (u.kind = "source" /\ ~k.steady)
        BY <1>1, <1>5, <2>2, <3>3 DEF Collects, QuotesAreKnown, PagesOf
      <4>2. u.kind = "external" => u \in Served(build)
        BY <1>1, <2>2, <3>3 DEF Collects, PhasesAreOver, PagesOf, OfKind, UrlsOf
      <4> QED  BY <1>6, <1>8, <4>1, <4>2
    <3>4. ASSUME NEW u \in q.urls, q.url.kind = "source"
          PROVE  u \in Served(k)
      <4>1. u \in Base(build) \/ u.kind = "source"
        BY <1>1, <2>2, <3>4 DEF Collects, QuotesAreKnown, PagesOf
      <4>2. u.kind = "source" => u \in Served(build)
        BY <1>1, <2>2, <3>4 DEF Collects, PhasesAreOver, SourcesAsked, PagesOf, OfKind, UrlsOf
      <4> QED  BY <1>6, <1>8, <4>1, <4>2
    <3> QED  BY <1>7, <2>2, <3>1, <3>2, <3>3, <3>4
  <2> QED  BY <1>5, <2>1, <2>2
<1>10. \A d \in k.snap.docs : Document(d) \in Served(k)
  BY <1>5, <1>8 DEF Base
<1>11. k.snap \in Snapshots /\ "graph" \notin k.snap.docs /\ (k.steady => k.snap.docs = Docs \cap present)
  BY <1>1, <1>5 DEF Collects, SnapIsSound
<1> QED  BY <1>5, <1>9, <1>10, <1>11 DEF Whole

\* A build begins with what its snapshot says.
LEMMA Opened ==
  ASSUME world \in Worlds, build \in Builds, build.pc = "open", build.pages = {}, build.hits = {},
         ValidRoutes(Snapshot.docs),
         NEW k, k = [build EXCEPT !.pc = "documents", !.snap = Snapshot]
  PROVE  k \in Builds /\ Collects(k)
<1> DEFINE docs == Docs \cap present
           comments == {c \in world.comments : Publishable(c[1]) /\ c[2] \in docs \cup Externals}
           linked == UNION {world.links[d] : d \in docs}
           externals == Externals \cap (linked \cup {c[2] : c \in comments})
           nodes == {Document(d) : d \in docs} \cup {External(x) : x \in externals}
                      \cup {Source(s, "") : s \in linked \cap Sources \cap present}
                      \cup {Source(c[1], "comment") : c \in comments}
<1>1. Snapshot = [docs |-> docs, comments |-> comments, externals |-> externals, graph |-> nodes]
  BY DEF Snapshot
<1>2. comments \subseteq Sources \X (Docs \cup Externals)
  BY SiteAssumption
<1>3. ASSUME NEW u \in nodes
      PROVE  u \in AllUrls /\ (u.kind = "document" => u.file \in docs) /\ u.kind # "resource"
  <2>1. ASSUME NEW d \in docs, u = Document(d)
        PROVE  u \in AllUrls /\ u.kind = "document" /\ u.file \in docs
    BY <2>1, PartsOfUrls, FourKindsOfUrls
  <2>2. ASSUME NEW x \in externals, u = External(x)
        PROVE  u \in AllUrls /\ u.kind = "external"
    BY <2>2, PartsOfUrls, FourKindsOfUrls
  <2>3. ASSUME NEW s \in Sources, NEW f \in {"", "comment"}, u = Source(s, f)
        PROVE  u \in AllUrls /\ u.kind = "source"
    <3>1. u.kind = "source"
      BY <2>3 DEF Source, Url
    <3> QED  BY <2>3, <3>1, FourKindsOfUrls
  <2>4. \A c \in comments : c[1] \in Sources
    BY <1>2
  <2>5. \/ \E d \in docs : u = Document(d)
        \/ \E x \in externals : u = External(x)
        \/ \E s \in linked \cap Sources \cap present : u = Source(s, "")
        \/ \E c \in comments : u = Source(c[1], "comment")
    OBVIOUS
  <2> HIDE DEF docs, comments, linked, externals, nodes
  <2> QED  BY <2>1, <2>2, <2>3, <2>4, <2>5
<1>4. docs \subseteq Docs /\ externals \subseteq Externals
  OBVIOUS
<1>5. \A c \in comments : Source(c[1], "comment") \in nodes
  OBVIOUS
<1>6. docs = Docs \cap present
  OBVIOUS
<1> HIDE DEF docs, comments, linked, externals, nodes
<1>7. Snapshot \in Snapshots
  BY <1>1, <1>2, <1>3, <1>4 DEF Snapshots
<1>8. /\ k \in Builds /\ k.pages = {} /\ k.snap = Snapshot /\ k.pc = "documents" /\ k.hits = {}
  BY <1>7 DEF Builds, Collecting
<1>9. SnapIsSound(k)
  <2>1. /\ k.snap \in Snapshots /\ k.snap.docs = docs /\ k.snap.comments = comments
        /\ k.snap.graph = nodes
    BY <1>1, <1>7, <1>8
  <2>2. "graph" \notin docs
    BY <1>1 DEF ValidRoutes
  <2> QED  BY <1>3, <1>5, <1>6, <2>1, <2>2 DEF SnapIsSound
<1> QED  BY <1>8, <1>9 DEF Collects, KindsAre, DocumentsAreWhole, QuotesAreKnown, PhasesAreOver, PagesOf

\* What a step of the build leaves behind, if it leaves the rest alone.
BuildIsSound(k) ==
  /\ k \in Builds
  /\ k.pc = "open" => k.pages = {} /\ k.hits = {}
  /\ k.pc \in Collecting => Collects(k)
  /\ k.pc \in Complete => Whole(k)
  /\ k.pc = "index" /\ k.steady => k.snap.docs = Docs \cap present

\* A step of a build that leaves the output alone.
LEMMA StepOfBuild ==
  ASSUME SiteInv, NEW k, BuildIsSound(k), build' = k, UNCHANGED <<world, present, output>>
  PROVE  SiteInv'
<1>1. Collects(k) => Collects(build)'
  <2>1. SnapIsSound(k) => SnapIsSound(build)'
    BY DEF SnapIsSound
  <2>2. KindsAre(k) => KindsAre(build)'
    BY DEF KindsAre
  <2>3. DocumentsAreWhole(k) => DocumentsAreWhole(build)'
    BY DEF DocumentsAreWhole, Lasting, LinkedSources, Publishable, PagesOf
  <2>4. QuotesAreKnown(k) => QuotesAreKnown(build)'
    BY DEF QuotesAreKnown, PagesOf, Base, UrlsOf
  <2>5. PhasesAreOver(k) => PhasesAreOver(build)'
    BY DEF PhasesAreOver, DocumentsAsked, SourcesAsked, Served, PagesOf, UrlsOf, OfKind
  <2> QED  BY <2>1, <2>2, <2>3, <2>4, <2>5 DEF Collects
<1>2. Whole(k) => Whole(build)'
  BY DEF Whole, Served
<1>3. output \notin {NoSite, Theirs, Ruins} => Whole(output)'
  BY DEF SiteInv, Whole, Served
<1> QED  BY <1>1, <1>2, <1>3 DEF SiteInv, BuildIsSound

\* A build that has ended holds nothing.
LEMMA BrokenIsSound ==
  ASSUME SiteInv
  PROVE  BuildIsSound(Broken) /\ BuildIsSound([Stopped EXCEPT !.pc = "failed"])
           /\ BuildIsSound([Stopped EXCEPT !.pc = "done"])
<1>1. Broken \in Builds /\ Broken.pc = "failed"
  BY DEF SiteInv, Broken, Stopped, Builds
<1>2. /\ [Stopped EXCEPT !.pc = "failed"] \in Builds /\ [Stopped EXCEPT !.pc = "failed"].pc = "failed"
      /\ [Stopped EXCEPT !.pc = "done"] \in Builds /\ [Stopped EXCEPT !.pc = "done"].pc = "done"
  BY DEF Stopped, Builds
<1> QED  BY <1>1, <1>2 DEF BuildIsSound, Collecting, Complete

\* So does one that has not begun, and the stand-in for the rival's.
LEMMA StoppedIsABuild ==
  Stopped \in Builds /\ Theirs \in Builds /\ Ruins \in Builds /\ Stopped.pc = "off"
  BY DEF Stopped, Theirs, Ruins, Builds

\* Steps of the build, one by one.
LEMMA SiteInitially == SiteInit => SiteInv
  BY StoppedIsABuild DEF SiteInit, SiteInv, Stopped, Collecting, Complete

LEMMA BeginKeeps == SiteInv /\ BeginBuild => SiteInv'
<1> SUFFICES ASSUME SiteInv, BeginBuild PROVE SiteInv'
  OBVIOUS
<1>1. PICK kind \in {"static", "server", "vercel"}, force \in BOOLEAN :
        /\ build' = IF output # NoSite /\ ~force THEN [Stopped EXCEPT !.pc = "failed"]
                    ELSE [Stopped EXCEPT !.pc = "open", !.kind = kind, !.force = force]
        /\ UNCHANGED <<world, present, output>>
  BY DEF BeginBuild, Goes, Keeps
<1>2. BuildIsSound([Stopped EXCEPT !.pc = "open", !.kind = kind, !.force = force])
  BY DEF BuildIsSound, Stopped, Builds, Collecting, Complete
<1> QED  BY <1>1, <1>2, BrokenIsSound, StepOfBuild

LEMMA OpenKeeps == SiteInv /\ Open => SiteInv'
<1> SUFFICES ASSUME SiteInv, Open PROVE SiteInv'
  OBVIOUS
<1> DEFINE k == [build EXCEPT !.pc = "documents", !.snap = Snapshot]
<1>1. /\ build.pc = "open" /\ UNCHANGED <<world, present, output>>
      /\ build' = IF Snapshot.docs # {} /\ ValidRoutes(Snapshot.docs) THEN k ELSE Broken
  BY DEF Open, Goes, Keeps
<1>2. ValidRoutes(Snapshot.docs) => BuildIsSound(k)
  <2>1. ASSUME ValidRoutes(Snapshot.docs) PROVE k \in Builds /\ Collects(k) /\ k.pc = "documents"
    BY <1>1, <2>1, Opened DEF SiteInv, Builds
  <2> QED  BY <2>1 DEF BuildIsSound, Collecting, Complete
<1> QED  BY <1>1, <1>2, BrokenIsSound, StepOfBuild

LEMMA FetchDocumentsKeeps == SiteInv /\ FetchDocuments => SiteInv'
<1> SUFFICES ASSUME SiteInv, FetchDocuments PROVE SiteInv'
  OBVIOUS
<1> DEFINE last == [build EXCEPT !.pc = "externals", !.pages = @ \cup {Page(Graph, build.snap.graph)}]
<1>1. build.pc = "documents" /\ UNCHANGED <<world, present, output>>
  BY DEF FetchDocuments, Fetch, Fetched, Goes, Keeps
<1>2. \/ \E u \in DocumentsAsked(build) : build' \in {With(build, u), Broken}
      \/ DocumentsAsked(build) \subseteq Served(build) /\ build' = last
  BY DEF FetchDocuments, Fetch, Fetched, Goes, With, Served
<1>3. ASSUME NEW u \in DocumentsAsked(build)
      PROVE  BuildIsSound(With(build, u))
  <2>1. With(build, u) \in Builds /\ Collects(With(build, u))
    BY <1>1, DocumentFetched
  <2>2. With(build, u).pc = "documents"
    BY <1>1 DEF SiteInv, Builds, With
  <2> QED  BY <2>1, <2>2 DEF BuildIsSound, Collecting, Complete
<1>4. ASSUME DocumentsAsked(build) \subseteq Served(build)
      PROVE  BuildIsSound(last)
  <2>1. last \in Builds /\ Collects(last) /\ last.pc = "externals"
    BY <1>1, <1>4, DocumentsFetched DEF SiteInv, Builds
  <2> QED  BY <2>1 DEF BuildIsSound, Collecting, Complete
<1> QED  BY <1>1, <1>2, <1>3, <1>4, BrokenIsSound, StepOfBuild

\* A page that is fetched after the documents.
LEMMA OtherFetchKeeps ==
  ASSUME SiteInv, build.pc \in {"externals", "sources"}, NEW asked, NEW kind,
         kind = IF build.pc = "externals" THEN "external" ELSE "source",
         \A u \in asked : u \in AllUrls /\ u.kind = kind,
         NEW u \in asked
  PROVE  BuildIsSound(With(build, u))
<1>1. With(build, u) \in Builds /\ Collects(With(build, u))
  BY OtherFetched
<1>2. With(build, u).pc \in {"externals", "sources"}
  BY DEF SiteInv, Builds, With
<1> QED  BY <1>1, <1>2 DEF BuildIsSound, Collecting, Complete

\* The end of such a phase.
LEMMA PhaseOverIsSound ==
  ASSUME SiteInv,
         \/ build.pc = "externals" /\ ExternalsAsked(build) \subseteq Served(build)
         \/ build.pc = "sources" /\ SourcesAsked(build) \subseteq Served(build),
         NEW k, k = [build EXCEPT !.pc = IF build.pc = "externals" THEN "sources" ELSE "write"]
  PROVE  BuildIsSound(k)
<1>1. k \in Builds /\ Collects(k)
  BY PhaseOver
<1>2. k.pc \in {"sources", "write"}
  BY DEF SiteInv, Builds
<1> QED  BY <1>1, <1>2 DEF BuildIsSound, Collecting, Complete

LEMMA FetchExternalsKeeps == SiteInv /\ FetchExternals => SiteInv'
<1> SUFFICES ASSUME SiteInv, FetchExternals PROVE SiteInv'
  OBVIOUS
<1> DEFINE last == [build EXCEPT !.pc = "sources"]
<1>1. build.pc = "externals" /\ UNCHANGED <<world, present, output>>
  BY DEF FetchExternals, Fetch, Fetched, Goes, Keeps
<1>2. \/ \E u \in ExternalsAsked(build) : build' \in {With(build, u), Broken}
      \/ ExternalsAsked(build) \subseteq Served(build) /\ build' = last
  BY DEF FetchExternals, Fetch, Fetched, Goes, With, Served
<1>3. ASSUME NEW u \in ExternalsAsked(build)
      PROVE  u \in AllUrls /\ u.kind = "external"
  <2>1. build.snap.externals \subseteq Externals /\ \A q \in build.pages : q.urls \subseteq AllUrls
    BY <1>1 DEF SiteInv, Builds, Pages, Collecting, Collects, SnapIsSound, Snapshots
  <2>2. CASE \E x \in build.snap.externals : u = External(x)
    <3>1. PICK x \in build.snap.externals : u = External(x)  BY <2>2
    <3>2. x \in Externals  BY <2>1
    <3> QED  BY <3>1, <3>2, PartsOfUrls, FourKindsOfUrls
  <2>3. CASE u \in OfKind(UrlsOf(build.pages), "external")
    BY <2>1, <2>3 DEF OfKind, UrlsOf
  <2> QED  BY <2>2, <2>3 DEF ExternalsAsked
<1>4. \A u \in ExternalsAsked(build) : BuildIsSound(With(build, u))
  BY <1>1, <1>3, OtherFetchKeeps
<1>5. ExternalsAsked(build) \subseteq Served(build) => BuildIsSound(last)
  BY <1>1, PhaseOverIsSound
<1> QED  BY <1>1, <1>2, <1>4, <1>5, BrokenIsSound, StepOfBuild

LEMMA FetchSourcesKeeps == SiteInv /\ FetchSources => SiteInv'
<1> SUFFICES ASSUME SiteInv, FetchSources PROVE SiteInv'
  OBVIOUS
<1> DEFINE last == [build EXCEPT !.pc = "write"]
<1>1. build.pc = "sources" /\ UNCHANGED <<world, present, output>>
  BY DEF FetchSources, Fetch, Fetched, Goes, Keeps
<1>2. \/ \E u \in SourcesAsked(build) : build' \in {With(build, u), Broken}
      \/ SourcesAsked(build) \subseteq Served(build) /\ build' = last
  BY DEF FetchSources, Fetch, Fetched, Goes, With, Served
<1>3. \A u \in SourcesAsked(build) : u \in AllUrls /\ u.kind = "source"
  BY DEF SourcesAsked, OfKind, UrlsOf, PagesOf, SiteInv, Builds, Pages
<1>4. \A u \in SourcesAsked(build) : BuildIsSound(With(build, u))
  BY <1>1, <1>3, OtherFetchKeeps
<1>5. SourcesAsked(build) \subseteq Served(build) => BuildIsSound(last)
  BY <1>1, PhaseOverIsSound
<1> QED  BY <1>1, <1>2, <1>4, <1>5, BrokenIsSound, StepOfBuild

LEMMA WriteSiteKeeps == SiteInv /\ WriteSite => SiteInv'
<1> SUFFICES ASSUME SiteInv, WriteSite PROVE SiteInv'
  OBVIOUS
<1> DEFINE k == [build EXCEPT !.pc = IF build.kind = "static" THEN "clear" ELSE "index",
                              !.pages = @ \cup {Page(u, {}) : u \in ResourcesAsked(build)}]
<1>1. build.pc = "write" /\ build' \in {k, Broken} /\ UNCHANGED <<world, present, output>>
  BY DEF WriteSite, Goes, Keeps
<1>2. /\ k \in Builds /\ Whole(k) /\ k.pc \in {"clear", "index"}
      /\ k.steady => k.snap.docs = Docs \cap present
  BY <1>1, SiteWritten
<1>3. BuildIsSound(k)
  BY <1>2 DEF BuildIsSound, Collecting, Complete
<1> QED  BY <1>1, <1>3, BrokenIsSound, StepOfBuild

\* A step that moves a complete build on.
LEMMA NextStage ==
  ASSUME SiteInv, build.pc \in Complete,
         NEW stage \in {"package", "clear", "move"}, NEW hits \in SUBSET Docs, NEW retries \in Nat,
         build.steady => hits \subseteq build.snap.docs,
         NEW k, k = [build EXCEPT !.pc = stage, !.hits = hits, !.retries = retries]
  PROVE  BuildIsSound(k)
<1>1. build \in Builds /\ Whole(build)
  BY DEF SiteInv
<1>2. /\ k \in Builds /\ k.pc = stage /\ k.snap = build.snap /\ k.pages = build.pages
      /\ k.hits = hits /\ k.steady = build.steady
  BY <1>1 DEF Builds, Complete
<1>3. Whole(k)
  BY <1>1, <1>2 DEF Whole, Served
<1> QED  BY <1>2, <1>3 DEF BuildIsSound, Collecting, Complete

\* A complete build that only moves on.
LEMMA MovesOn ==
  ASSUME SiteInv, build.pc \in Complete, NEW stage \in {"clear", "move"}
  PROVE  BuildIsSound([build EXCEPT !.pc = stage])
<1> DEFINE k == [build EXCEPT !.pc = stage]
<1>1. build \in Builds /\ Whole(build)
  BY DEF SiteInv
<1>2. k = [build EXCEPT !.pc = stage, !.hits = build.hits, !.retries = build.retries]
  BY <1>1 DEF Builds
<1>3. build.hits \in SUBSET Docs /\ build.retries \in Nat /\ (build.steady => build.hits \subseteq build.snap.docs)
  BY <1>1 DEF Builds, Whole
<1> HIDE DEF k
<1>4. BuildIsSound(k)
  BY <1>2, <1>3, NextStage
<1> QED  BY <1>4 DEF k

LEMMA StagesKeep == SiteInv /\ (BuildSearch \/ Package) => SiteInv'
<1> SUFFICES ASSUME SiteInv, BuildSearch \/ Package PROVE SiteInv'
  OBVIOUS
<1> DEFINE found(stage) == [build EXCEPT !.pc = stage, !.hits = Docs \cap present]
<1>1. /\ build.pc \in {"index", "package"} /\ UNCHANGED <<world, present, output>>
      /\ \/ build' = Broken
         \/ build.pc = "index" /\ build' \in {found("package"), found("clear")}
         \/ build.pc = "package" /\ build' = [build EXCEPT !.pc = "clear"]
  BY DEF BuildSearch, Package, Goes, Keeps
<1>2. build.pc \in Complete /\ build \in Builds
  BY <1>1 DEF Complete, SiteInv
<1>3. ASSUME build.pc = "index", NEW stage \in {"package", "clear"}
      PROVE  BuildIsSound(found(stage))
  <2>1. build.steady => Docs \cap present \subseteq build.snap.docs
    BY <1>3 DEF SiteInv
  <2>2. found(stage) = [build EXCEPT !.pc = stage, !.hits = Docs \cap present, !.retries = build.retries]
    BY <1>2 DEF Builds
  <2>3. build.retries \in Nat /\ Docs \cap present \in SUBSET Docs
    BY <1>2 DEF Builds
  <2> HIDE DEF found
  <2> QED  BY <1>2, <2>1, <2>2, <2>3, NextStage
<1>4. BuildIsSound([build EXCEPT !.pc = "clear"])
  BY <1>2, MovesOn
<1> HIDE DEF found
<1> QED  BY <1>1, <1>3, <1>4, BrokenIsSound, StepOfBuild

\* A step that puts a site, or removes one.
LEMMA StepOfOutput ==
  ASSUME SiteInv, NEW k, BuildIsSound(k), build' = k, UNCHANGED <<world, present>>,
         output' \in {NoSite, Theirs, Ruins} \/ (output' = build /\ build.pc = "move")
  PROVE  SiteInv'
<1>1. Collects(k) => Collects(build)'
  <2>1. SnapIsSound(k) => SnapIsSound(build)'
    BY DEF SnapIsSound
  <2>2. KindsAre(k) => KindsAre(build)'
    BY DEF KindsAre
  <2>3. DocumentsAreWhole(k) => DocumentsAreWhole(build)'
    BY DEF DocumentsAreWhole, Lasting, LinkedSources, Publishable, PagesOf
  <2>4. QuotesAreKnown(k) => QuotesAreKnown(build)'
    BY DEF QuotesAreKnown, PagesOf, Base, UrlsOf
  <2>5. PhasesAreOver(k) => PhasesAreOver(build)'
    BY DEF PhasesAreOver, DocumentsAsked, SourcesAsked, Served, PagesOf, UrlsOf, OfKind
  <2> QED  BY <2>1, <2>2, <2>3, <2>4, <2>5 DEF Collects
<1>2. Whole(k) => Whole(build)'
  BY DEF Whole, Served
<1>3. build.pc = "move" => Whole(build)
  BY DEF SiteInv, Complete
<1>4. (output \notin {NoSite, Theirs, Ruins})' => output' \in Builds /\ Whole(output)'
  BY <1>3 DEF SiteInv, Whole, Served
<1>5. (output # NoSite => output \in Builds)'
  BY <1>4, StoppedIsABuild
<1> QED  BY <1>1, <1>2, <1>4, <1>5 DEF SiteInv, BuildIsSound

\* Removing what stood, and moving the site to where it stood.
LEMMA ClearKeeps == SiteInv /\ Clear => SiteInv'
<1> SUFFICES ASSUME SiteInv, Clear PROVE SiteInv'
  OBVIOUS
<1>1. /\ build.pc = "clear" /\ build' \in {build, [build EXCEPT !.pc = "move"], Broken}
      /\ UNCHANGED <<world, present>>
      /\ output' \in {NoSite, Ruins} \/ UNCHANGED output
  BY DEF Clear, Goes, Keeps, RemoveSome, RemoveRest, RemoveNoMore
<1>2. BuildIsSound([build EXCEPT !.pc = "move"])
  BY <1>1, MovesOn DEF Complete
<1>3. BuildIsSound(build)
  BY DEF SiteInv, BuildIsSound
<1> QED  BY <1>1, <1>2, <1>3, BrokenIsSound, StepOfBuild, StepOfOutput

LEMMA MoveKeeps == SiteInv /\ Move => SiteInv'
<1> SUFFICES ASSUME SiteInv, Move PROVE SiteInv'
  OBVIOUS
<1> DEFINE again == [build EXCEPT !.retries = @ + 1]
<1>1. /\ build.pc = "move" /\ UNCHANGED <<world, present>>
      /\ \/ output' = build /\ build' = [Stopped EXCEPT !.pc = "done"]
         \/ build' \in {again, Broken} /\ UNCHANGED output
  BY DEF Move, Goes, Keeps
<1>2. BuildIsSound(again)
  <2>1. build.pc \in Complete /\ build \in Builds /\ Whole(build)
    BY <1>1 DEF Complete, SiteInv
  <2>2. again = [build EXCEPT !.pc = "move", !.hits = build.hits, !.retries = build.retries + 1]
    BY <1>1, <2>1 DEF Builds
  <2>3. build.retries + 1 \in Nat /\ build.hits \in SUBSET Docs /\ (build.steady => build.hits \subseteq build.snap.docs)
    BY <2>1 DEF Builds, Whole
  <2> HIDE DEF again
  <2> QED  BY <2>1, <2>2, <2>3, NextStage
<1> HIDE DEF again
<1> QED  BY <1>1, <1>2, BrokenIsSound, StepOfBuild, StepOfOutput

\* Another build, and a kill.
LEMMA RivalKeeps == SiteInv /\ Rival /\ UNCHANGED <<world, present, build>> => SiteInv'
<1> SUFFICES ASSUME SiteInv, Rival, UNCHANGED <<world, present, build>> PROVE SiteInv'
  OBVIOUS
<1>1. BuildIsSound(build)
  BY DEF SiteInv, BuildIsSound
<1>2. \/ UNCHANGED output
      \/ output' \in {NoSite, Theirs, Ruins}
  BY DEF Rival, Keeps, RemoveSome, RemoveRest, RemoveNoMore
<1> QED  BY <1>1, <1>2, StepOfBuild, StepOfOutput

LEMMA KillKeeps == SiteInv /\ Kill => SiteInv'
  BY BrokenIsSound, StepOfBuild DEF Kill

\* A file that changes only makes the build unsteady.
LEMMA ChangeProjectKeeps == SiteInv /\ ChangeProject => SiteInv'
<1> SUFFICES ASSUME SiteInv, ChangeProject PROVE SiteInv'
  OBVIOUS
<1>1. /\ build' = [build EXCEPT !.steady = FALSE]
      /\ UNCHANGED <<world, output>>
  BY DEF ChangeProject
<1>2. /\ build' \in Builds /\ ~build'.steady /\ build'.pc = build.pc /\ build'.snap = build.snap
      /\ build'.pages = build.pages /\ build'.hits = build.hits
  BY <1>1 DEF SiteInv, Builds
<1>3. Collects(build) => Collects(build)'
  <2>1. SnapIsSound(build) => SnapIsSound(build)'
    BY <1>2 DEF SnapIsSound
  <2>2. KindsAre(build) => KindsAre(build)'
    BY <1>2 DEF KindsAre
  <2>3. DocumentsAreWhole(build) => DocumentsAreWhole(build)'
    BY <1>1, <1>2 DEF DocumentsAreWhole, Lasting, PagesOf
  <2>4. QuotesAreKnown(build) => QuotesAreKnown(build)'
    BY <1>2 DEF QuotesAreKnown, PagesOf, Base, UrlsOf
  <2>5. PhasesAreOver(build) => PhasesAreOver(build)'
    BY <1>2 DEF PhasesAreOver, DocumentsAsked, SourcesAsked, Served, PagesOf, UrlsOf, OfKind
  <2> QED  BY <1>2, <2>1, <2>2, <2>3, <2>4, <2>5 DEF Collects
<1>4. Whole(build) => Whole(build)'
  BY <1>2 DEF Whole, Served
<1>5. output \notin {NoSite, Theirs, Ruins} => Whole(output)'
  BY <1>1 DEF SiteInv, Whole, Served
<1> QED  BY <1>1, <1>2, <1>3, <1>4, <1>5 DEF SiteInv

\* SiteInv is inductive.
LEMMA SiteGoesOn == SiteInv /\ [SiteNext]_siteVars => SiteInv'
<1> SUFFICES ASSUME SiteInv, [SiteNext]_siteVars PROVE SiteInv'
  OBVIOUS
<1>1. CASE UNCHANGED siteVars
  <2>1. BuildIsSound(build)
    BY DEF SiteInv, BuildIsSound
  <2> QED  BY <1>1, <2>1, StepOfBuild DEF siteVars
<1> QED  BY <1>1, BeginKeeps, OpenKeeps, FetchDocumentsKeeps, FetchExternalsKeeps, FetchSourcesKeeps,
            WriteSiteKeeps, StagesKeep, ClearKeeps, MoveKeeps, RivalKeeps, KillKeeps, ChangeProjectKeeps
            DEF SiteNext

\* A removal that ends with ruins is noted, whoever made them.
LEMMA RemovalsAreKnown ==
  SiteInv /\ SitesOutliveFailures /\ [SiteNext]_siteVars => SitesOutliveFailures'
<1> SUFFICES ASSUME SiteInv, SitesOutliveFailures, [SiteNext]_siteVars PROVE SitesOutliveFailures'
  OBVIOUS
<1> DEFINE removing == rival = "forced" \/ (build.pc = "clear" /\ build.force)
<1>1. NoSite # Ruins /\ Theirs \notin {NoSite, Ruins} /\ (\A j \in Builds : j.pc # "off" => j \notin {NoSite, Ruins})
  BY DEF NoSite, Ruins, Theirs, Stopped, Builds
<1>2. CASE RemoveSome /\ removing /\ UNCHANGED <<build, rival>>
  BY <1>2 DEF SitesOutliveFailures, RemoveSome
<1>3. CASE RemoveRest
  BY <1>1, <1>3 DEF SitesOutliveFailures, RemoveRest
<1>4. CASE RemoveNoMore
  BY <1>4 DEF SitesOutliveFailures, RemoveNoMore
<1>5. CASE /\ output' \notin {NoSite, Ruins}
  BY <1>5 DEF SitesOutliveFailures
<1>6. CASE UNCHANGED <<output, stood, cleared, cutShort>> /\ (removing => removing')
  BY <1>6 DEF SitesOutliveFailures
<1>7. CASE Clear
  <2>1. CASE ~build.force
    BY <1>6, <2>1, <1>7 DEF Clear, Goes, Keeps
  <2> QED  BY <1>2, <1>3, <1>4, <1>7, <2>1 DEF Clear, Goes
<1>8. CASE Move
  <2>1. CASE output' = build /\ build.pc = "move"
    BY <1>1, <1>5, <2>1 DEF SiteInv
  <2>2. CASE build.pc = "move" /\ Keeps /\ UNCHANGED rival
    BY <1>6, <2>2 DEF Keeps
  <2> QED  BY <1>8, <2>1, <2>2 DEF Move, Goes
<1>9. CASE Rival /\ UNCHANGED <<world, present, build, projectChanges, kills>>
  <2>1. CASE rival = "forced"
    BY <1>2, <1>3, <1>4, <1>9, <2>1 DEF Rival
  <2>2. CASE rival # "forced"
    <3>1. CASE output' = Theirs
      BY <1>1, <1>5, <3>1
    <3>2. CASE Keeps
      BY <1>6, <1>9, <2>2, <3>2 DEF Keeps
    <3> QED  BY <1>9, <2>2, <3>1, <3>2 DEF Rival
  <2> QED  BY <2>1, <2>2
<1>10. CASE Kill
  BY <1>10 DEF Kill, SitesOutliveFailures
<1>11. CASE ChangeProject
  <2>1. build'.pc = build.pc /\ build'.force = build.force
    BY <1>11 DEF ChangeProject, SiteInv, Builds
  <2> QED  BY <1>6, <1>11, <2>1 DEF ChangeProject
<1>12. CASE BeginBuild \/ Open \/ FetchDocuments \/ FetchExternals \/ FetchSources \/ WriteSite
              \/ BuildSearch \/ Package
  <2>1. build.pc # "clear" /\ Keeps /\ UNCHANGED rival
    BY <1>12 DEF BeginBuild, Open, FetchDocuments, FetchExternals, FetchSources, WriteSite, BuildSearch,
                 Package, Goes, Fetch, Fetched
  <2> QED  BY <1>6, <2>1 DEF Keeps
<1>13. CASE UNCHANGED siteVars
  BY <1>6, <1>13 DEF siteVars
<1> QED  BY <1>7, <1>8, <1>9, <1>10, <1>11, <1>12, <1>13 DEF SiteNext

\* No two pages have one address, since no document has that of the graph.
LEMMA RoutesTellPagesApart ==
  ASSUME NEW entry, NEW u \in AllUrls \cup {Graph}, NEW w \in AllUrls \cup {Graph},
         Document("graph") \notin {u, w}, Route(entry, u) = Route(entry, w)
  PROVE  u.kind = w.kind /\ u.file = w.file
<1> DEFINE kinds == {"document", "external", "resource", "source", "graph"}
<1>1. ASSUME NEW v \in {u, w}
      PROVE  /\ v.kind \in kinds
             /\ v.kind = "graph" => v.file = ""
             /\ v.kind = "document" => v.file # "graph"
  BY PartsOfUrls, KindsOfUrls
<1>2. \A v \in {u, w} :
        /\ v.kind = "document" => Route(entry, v) = IF v.file = entry THEN <<>> ELSE <<v.file>>
        /\ v.kind = "source" => Route(entry, v) = <<"code", v.file>>
        /\ v.kind = "external" => Route(entry, v) = <<"external", v.file>>
        /\ v.kind = "resource" => Route(entry, v) = <<"resources", v.file>>
        /\ v.kind = "graph" => Route(entry, v) = <<"graph">>
  BY DEF Route
<1>3. /\ \A a, b : <<a>> # <<>> /\ <<a, b>> # <<>> /\ (<<a>> = <<b>> => a = b)
      /\ \A a, b, c, d : <<a, b>> # <<c>> /\ (<<a, b>> = <<c, d>> => a = c /\ b = d)
  OBVIOUS
<1>4. ASSUME NEW v \in {u, w}, NEW a, NEW b, v.kind \in {"source", "external", "resource"},
             Route(entry, v) = <<a, b>>
      PROVE  b = v.file /\ a = IF v.kind = "resource" THEN "resources"
                                ELSE IF v.kind = "source" THEN "code" ELSE "external"
  <2>1. CASE v.kind = "source"
    BY <1>2, <1>3, <1>4, <2>1
  <2>2. CASE v.kind = "external"
    BY <1>2, <1>3, <1>4, <2>2
  <2>3. CASE v.kind = "resource"
    BY <1>2, <1>3, <1>4, <2>3
  <2> QED  BY <1>4, <2>1, <2>2, <2>3
<1>5. ASSUME NEW v \in {u, w}, v.kind \in {"source", "external", "resource"}
      PROVE  \E a, b : Route(entry, v) = <<a, b>>
  BY <1>2, <1>5
<1>6. ASSUME NEW v \in {u, w}, v.kind \in {"document", "graph"}
      PROVE  /\ Route(entry, v) = <<>> \/ \E a : Route(entry, v) = <<a>>
             /\ Route(entry, v) = <<>> => v.kind = "document" /\ v.file = entry
             /\ \A a : Route(entry, v) = <<a>> =>
                  a = IF v.kind = "graph" THEN "graph" ELSE v.file
  <2>1. CASE v.kind = "document" /\ v.file = entry
    BY <1>2, <1>3, <2>1
  <2>2. CASE v.kind = "document" /\ v.file # entry
    BY <1>2, <1>3, <2>2
  <2>3. CASE v.kind = "graph"
    BY <1>2, <1>3, <2>3
  <2> QED  BY <1>6, <2>1, <2>2, <2>3
<1>7. u.kind \in {"document", "graph"} <=> w.kind \in {"document", "graph"}
  <2>1. ASSUME NEW v \in {u, w}, NEW o \in {u, w}, v.kind \in {"document", "graph"},
               o.kind \in {"source", "external", "resource"}
        PROVE  Route(entry, v) # Route(entry, o)
    <3>1. PICK a, b : Route(entry, o) = <<a, b>>
      BY <1>5, <2>1
    <3>2. Route(entry, v) = <<>> \/ \E c : Route(entry, v) = <<c>>
      BY <1>6, <2>1
    <3> QED  BY <1>3, <3>1, <3>2
  <2>2. u.kind \in kinds /\ w.kind \in kinds
    BY <1>1
  <2> QED  BY <2>1, <2>2
<1>8. CASE u.kind \in {"document", "graph"}
  <2>1. CASE Route(entry, u) = <<>>
    BY <1>6, <1>7, <1>8, <2>1
  <2>2. PICK a : Route(entry, u) = <<>> \/ Route(entry, u) = <<a>>
    BY <1>6, <1>8
  <2>3. CASE Route(entry, u) = <<a>>
    <3>1. a = (IF u.kind = "graph" THEN "graph" ELSE u.file) /\ a = (IF w.kind = "graph" THEN "graph" ELSE w.file)
      BY <1>6, <1>7, <1>8, <2>3
    <3> QED  BY <1>1, <1>7, <1>8, <3>1
  <2> QED  BY <2>1, <2>2, <2>3
<1>9. CASE u.kind \notin {"document", "graph"}
  <2>1. PICK a, b : Route(entry, u) = <<a, b>>
    BY <1>1, <1>5, <1>9
  <2>2. /\ b = u.file /\ b = w.file
        /\ a = IF u.kind = "resource" THEN "resources" ELSE IF u.kind = "source" THEN "code" ELSE "external"
        /\ a = IF w.kind = "resource" THEN "resources" ELSE IF w.kind = "source" THEN "code" ELSE "external"
    <3>1. u.kind \in {"source", "external", "resource"} /\ w.kind \in {"source", "external", "resource"}
      BY <1>1, <1>7, <1>9
    <3>2. Route(entry, u) = <<a, b>> /\ Route(entry, w) = <<a, b>>
      BY <2>1
    <3>3. b = u.file /\ a = IF u.kind = "resource" THEN "resources" ELSE IF u.kind = "source" THEN "code" ELSE "external"
      BY <1>4, <3>1, <3>2
    <3>4. b = w.file /\ a = IF w.kind = "resource" THEN "resources" ELSE IF w.kind = "source" THEN "code" ELSE "external"
      BY <1>4, <3>1, <3>2
    <3> QED  BY <3>3, <3>4
  <2> QED  BY <1>1, <1>7, <1>9, <2>2
<1> QED  BY <1>8, <1>9

\* A site that is whole is closed.
LEMMA WholeSiteIsClosed == SiteInv => PublishedSiteIsClosed
<1> SUFFICES ASSUME SiteInv, output \notin {NoSite, Theirs, Ruins}
             PROVE  PublishedSiteIsClosed
  BY DEF PublishedSiteIsClosed
<1>1. output \in Builds /\ Whole(output)
  BY DEF SiteInv
<1> DEFINE entry == EntryOf(output.snap)
<1>2. ASSUME NEW p \in output.pages
      PROVE  p.url \in AllUrls \cup {Graph} /\ p.url # Document("graph")
  <2>1. p \in Pages
    BY <1>1 DEF Builds
  <2>2. "graph" \notin output.snap.docs \cup Previews
    BY <1>1, SiteAssumption DEF Whole
  <2>3. p.url.kind = "document" => p.url.file # "graph"
    BY <1>1, <2>2 DEF Whole
  <2>4. p.url # Document("graph")
    BY <2>3, PartsOfUrls
  <2> QED  BY <2>1, <2>4 DEF Pages
<1>3. ASSUME NEW u \in Served(output), NEW w \in Served(output), Route(entry, u) = Route(entry, w)
      PROVE  u.kind = w.kind /\ u.file = w.file
  <2> HIDE DEF entry
  <2>1. \A v \in Served(output) : v \in AllUrls \cup {Graph} /\ v # Document("graph")
    BY <1>2 DEF Served
  <2> QED  BY <1>3, <2>1, RoutesTellPagesApart
<1>4. \A d \in output.hits : Document(d) \in Served(output) \/ ~output.steady
  BY <1>1 DEF Whole
<1> QED  BY <1>1, <1>3, <1>4 DEF PublishedSiteIsClosed, Whole, Served

\* The site that stands is whole unless its removal was cut short, and one stands
\* unless a forced build removed it (SiteIsWhole), for any files, links, comments
\* and exclusions, any number of changes of the project while the build reads it,
\* retries and kills.
THEOREM SitesAreWhole == SiteSpec => []SiteIsWhole
<1>1. SiteInit => SiteInv /\ SitesOutliveFailures
  <2>1. SiteInit => SitesOutliveFailures
    BY DEF SiteInit, SitesOutliveFailures, NoSite, Ruins, Stopped
  <2> QED  BY <2>1, SiteInitially
<1>2. SiteInv /\ SitesOutliveFailures => SiteIsWhole
  BY WholeSiteIsClosed DEF SiteIsWhole
<1> QED  BY SiteGoesOn, RemovalsAreKnown, <1>1, <1>2, PTL DEF SiteSpec

(***************************************************************************)
(* `lat check --fix`: what a run leaves needs no other, and what authors   *)
(* wrote in an index stays.                                                *)
(***************************************************************************)
Texts == Seq(IndexLines)

\* The least member of a set of numbers is one.
LEMMA LeastIsLeast ==
  ASSUME NEW S \in SUBSET Nat, S # {}
  PROVE  Least(S) \in S /\ \A k \in S : Least(S) <= k
<1>1. PICK m \in S : \A k \in S : <<k, m>> \notin OpToRel(<, Nat)
  BY NatLessThanWellFounded, WFMin, Zenon
<1>2. \A k \in S : ~(k < m)
  BY <1>1 DEF OpToRel
<1>3. \A k \in S : m <= k
  BY <1>2
<1> QED
  BY <1>3 DEF Least

\* A listing put in the place of the lines after i and up to j.
Put(c, i, j, b) == SubSeq(c, 1, i) \o b \o SubSeq(c, j + 1, Len(c))

\* The lines of such a text.
LEMMA PutIs ==
  ASSUME NEW c \in Texts, NEW b \in Texts, NEW i \in 0..Len(c), NEW j \in i..Len(c)
  PROVE  LET new == Put(c, i, j, b)
             end == i + Len(b)
         IN  /\ new \in Texts /\ Len(new) = end + (Len(c) - j)
             /\ \A k \in 1..i : new[k] = c[k]
             /\ \A k \in 1..Len(b) : new[i + k] = b[k]
             /\ SubSeq(new, 1, i) = SubSeq(c, 1, i)
             /\ SubSeq(new, i + 1, end) = b
             /\ SubSeq(new, end + 1, Len(new)) = SubSeq(c, j + 1, Len(c))
<1> DEFINE p == SubSeq(c, 1, i)
           s == SubSeq(c, j + 1, Len(c))
           new == Put(c, i, j, b)
           end == i + Len(b)
<1>0. Len(c) \in Nat /\ Len(b) \in Nat /\ i \in Nat /\ j \in Nat /\ i <= j /\ j <= Len(c)
  BY DEF Texts
<1>1. p \in Texts /\ Len(p) = i /\ \A k \in 1..i : p[k] = c[k]
  <2>1. \A k \in 1..i : c[k] \in IndexLines
    BY <1>0 DEF Texts
  <2> QED
    BY <1>0, <2>1, SubSeqProperties DEF Texts
<1>2. s \in Texts /\ Len(s) = Len(c) - j /\ \A k \in 1..(Len(c) - j) : s[k] = c[j + k]
  <2>1. \A k \in (j + 1)..Len(c) : c[k] \in IndexLines
    BY <1>0 DEF Texts
  <2>2. /\ s \in Seq(IndexLines)
        /\ Len(s) = IF j + 1 <= Len(c) THEN Len(c) - (j + 1) + 1 ELSE 0
        /\ \A k \in 1..(Len(c) - (j + 1) + 1) : s[k] = c[(j + 1) + k - 1]
    BY <1>0, <2>1, SubSeqProperties
  <2>3. Len(s) = Len(c) - j
    BY <1>0, <2>2
  <2>4. Len(c) - (j + 1) + 1 = Len(c) - j /\ \A k \in 1..(Len(c) - j) : (j + 1) + k - 1 = j + k
    BY <1>0
  <2> QED
    BY <2>2, <2>3, <2>4 DEF Texts
<1> HIDE DEF p, s
<1>3. /\ p \o b \in Texts /\ Len(p \o b) = i + Len(b)
      /\ \A k \in 1..(i + Len(b)) : (p \o b)[k] = IF k <= i THEN p[k] ELSE b[k - i]
  BY <1>1, ConcatProperties DEF Texts
<1>4. /\ new \in Texts /\ Len(new) = end + (Len(c) - j)
      /\ \A k \in 1..Len(new) : new[k] = IF k <= end THEN (p \o b)[k] ELSE s[k - end]
  <2>1. new = (p \o b) \o s
    BY DEF Put, p, s
  <2> DEFINE q == p \o b
  <2>2. /\ q \o s \in Texts /\ Len(q \o s) = Len(q) + Len(s)
        /\ \A k \in 1..(Len(q) + Len(s)) : (q \o s)[k] = IF k <= Len(q) THEN q[k] ELSE s[k - Len(q)]
    <3> HIDE DEF q
    <3>1. q \in Seq(IndexLines) /\ s \in Seq(IndexLines)
      BY <1>2, <1>3 DEF q, Texts
    <3> QED
      BY <3>1, ConcatProperties DEF Texts
  <2>3. Len(q) = end /\ Len(s) = Len(c) - j
    BY <1>2, <1>3
  <2> HIDE DEF new
  <2> QED
    BY <2>1, <2>2, <2>3
<1> HIDE DEF new
<1>5. \A k \in 1..i : new[k] = c[k]
  BY <1>0, <1>1, <1>3, <1>4
<1>6. \A k \in 1..Len(b) : new[i + k] = b[k]
  <2> TAKE k \in 1..Len(b)
  <2>1. i + k \in 1..(i + Len(b)) /\ ~(i + k <= i) /\ (i + k) - i = k /\ i + k \in 1..Len(new)
    BY <1>0, <1>4
  <2> QED
    BY <2>1, <1>3, <1>4
<1>7. \A k \in 1..(Len(c) - j) : new[end + k] = c[j + k]
  <2> TAKE k \in 1..(Len(c) - j)
  <2>1. end + k \in 1..Len(new) /\ ~(end + k <= end) /\ (end + k) - end = k
    BY <1>0, <1>4
  <2> QED
    BY <2>1, <1>2, <1>4
<1>8. \A k \in 1..Len(new) : new[k] \in IndexLines
  BY <1>4 DEF Texts
<1>9. Len(new) \in Nat /\ end \in Nat /\ end <= Len(new)
  BY <1>0, <1>4
<1>10. SubSeq(new, 1, i) = p
  <2>1. SubSeq(new, 1, i) \in Texts /\ Len(SubSeq(new, 1, i)) = i
        /\ \A k \in 1..i : SubSeq(new, 1, i)[k] = new[k]
    BY <1>0, <1>8, <1>9, SubSeqProperties DEF Texts
  <2> QED
    BY <2>1, <1>1, <1>5, SeqEqual DEF Texts
<1>11. SubSeq(new, i + 1, end) = b
  <2>1. /\ SubSeq(new, i + 1, end) \in Seq(IndexLines)
        /\ Len(SubSeq(new, i + 1, end)) = IF i + 1 <= end THEN end - (i + 1) + 1 ELSE 0
        /\ \A k \in 1..(end - (i + 1) + 1) : SubSeq(new, i + 1, end)[k] = new[(i + 1) + k - 1]
    BY <1>0, <1>8, <1>9, SubSeqProperties
  <2>2. end - (i + 1) + 1 = Len(b) /\ (IF i + 1 <= end THEN end - (i + 1) + 1 ELSE 0) = Len(b)
    BY <1>0
  <2>3. \A k \in 1..Len(b) : (i + 1) + k - 1 = i + k
    BY <1>0
  <2> QED
    BY <2>1, <2>2, <2>3, <1>6, SeqEqual DEF Texts
<1>12. SubSeq(new, end + 1, Len(new)) = s
  <2>1. /\ SubSeq(new, end + 1, Len(new)) \in Seq(IndexLines)
        /\ Len(SubSeq(new, end + 1, Len(new))) = IF end + 1 <= Len(new) THEN Len(new) - (end + 1) + 1 ELSE 0
        /\ \A k \in 1..(Len(new) - (end + 1) + 1) :
             SubSeq(new, end + 1, Len(new))[k] = new[(end + 1) + k - 1]
    BY <1>0, <1>8, <1>9, SubSeqProperties
  <2>2. Len(new) - (end + 1) + 1 = Len(c) - j
        /\ (IF end + 1 <= Len(new) THEN Len(new) - (end + 1) + 1 ELSE 0) = Len(c) - j
    BY <1>0, <1>4
  <2>3. \A k \in 1..(Len(c) - j) : (end + 1) + k - 1 = end + k
    BY <1>0
  <2> DEFINE r == SubSeq(new, end + 1, Len(new))
  <2>6. r \in Texts /\ Len(r) = Len(c) - j
    BY <2>1, <2>2 DEF Texts
  <2>7. ASSUME NEW k \in 1..(Len(c) - j) PROVE r[k] = s[k]
    <3>1. k \in 1..(Len(new) - (end + 1) + 1)
      BY <2>2
    <3>2. r[k] = new[(end + 1) + k - 1]
      BY <2>1, <3>1
    <3> QED
      BY <3>2, <2>3, <1>2, <1>7
  <2> HIDE DEF r
  <2>4. r \in Texts /\ Len(r) = Len(s) /\ \A k \in 1..Len(r) : r[k] = s[k]
    BY <2>6, <2>7, <1>2
  <2>5. r = s
    BY <2>4, <1>2, SeqEqual DEF Texts
  <2> QED
    BY <2>5 DEF r
<1> QED
  BY <1>4, <1>5, <1>6, <1>10, <1>11, <1>12 DEF p, s, new

-----------------------------------------------------------------------------
\* The delimiters up to a line, and how many they are.
Fences(c, i) == {k \in 1..i : c[k][1] = "fence"}

LEMMA CountIsEvenOrOdd ==
  ASSUME NEW c, NEW i \in Nat
  PROVE  LET n == Cardinality(Fences(c, i)) IN n \in Nat /\ n % 2 \in {0, 1}
<1>1. IsFiniteSet(1..i) /\ Fences(c, i) \in SUBSET (1..i)
  BY FS_Interval DEF Fences
<1>2. IsFiniteSet(Fences(c, i))
  BY <1>1, FS_Subset
<1>3. Cardinality(Fences(c, i)) \in Nat
  BY <1>2, FS_CardinalityType
<1> QED
  BY <1>3

\* What no fence quotes, by the two rules.
LEMMA PlainIs ==
  ASSUME NEW c \in Texts, NEW kinds
  PROVE  /\ Plain(c, kinds) = {i \in 1..Len(c) : c[i][1] \in kinds /\ Outside(c, i)}
         /\ \A i \in Plain(c, kinds) : Cardinality(Fences(c, i - 1)) % 2 = 0
         /\ Plain(c, kinds) \in SUBSET Nat
<1>1. DOMAIN c = 1..Len(c) /\ Len(c) \in Nat
  BY DEF Texts
<1>2. \A i \in 1..Len(c) : Cardinality(Fences(c, i - 1)) % 2 \in {0, 1}
  BY <1>1, CountIsEvenOrOdd
<1>3. \A i \in DOMAIN c : i \notin FencedLines(c) <=> Outside(c, i)
  BY <1>1, <1>2 DEF FencedLines, Outside, Fences
<1>4. Plain(c, kinds) = {i \in 1..Len(c) : c[i][1] \in kinds /\ Outside(c, i)}
  <2>1. \A i : i \in Plain(c, kinds) <=> i \in 1..Len(c) /\ i \notin FencedLines(c) /\ c[i][1] \in kinds
    BY <1>1 DEF Plain
  <2>2. \A i : i \in Plain(c, kinds) <=> i \in 1..Len(c) /\ c[i][1] \in kinds /\ Outside(c, i)
    BY <2>1, <1>1, <1>3, Zenon
  <2> QED
    BY <2>2, Zenon
<1>5. \A i \in Plain(c, kinds) : Cardinality(Fences(c, i - 1)) % 2 = 0
  BY <1>4 DEF Outside, Fences
<1>6. Plain(c, kinds) \in SUBSET Nat
  BY <1>1, <1>4
<1> QED
  BY <1>4, <1>5, <1>6

\* The first run of bullets has no gaps.
LEMMA FirstRunIs ==
  ASSUME NEW c \in Texts, Plain(c, {"item", "away"}) # {}
  PROVE  \E i \in 0..Len(c) : \E j \in i..Len(c) :
           i < j /\ FirstRun(c) = (i + 1)..j /\ i + 1 = Least(Plain(c, {"item", "away"}))
<1> DEFINE bullets == Plain(c, {"item", "away"})
           start == Least(bullets)
           over == {k \in Nat : k > start /\ k \notin bullets}
           stop == Least(over)
<1>1. Len(c) \in Nat /\ bullets \in SUBSET (1..Len(c)) /\ bullets \in SUBSET Nat
  BY PlainIs DEF Texts
<1>2. start \in bullets /\ \A k \in bullets : start <= k
  BY <1>1, LeastIsLeast
<1>3. start \in 1..Len(c)
  BY <1>1, <1>2
<1> HIDE DEF bullets, start
<1>4. Len(c) + 1 \in over
  BY <1>1, <1>3
<1>5. stop \in over /\ \A k \in over : stop <= k
  BY <1>4, LeastIsLeast
<1> HIDE DEF stop
<1>6. stop \in Nat /\ start < stop /\ stop <= Len(c) + 1 /\ stop \notin bullets
  BY <1>3, <1>4, <1>5
<1>7. \A k \in start..(stop - 1) : k \in bullets
  <2> SUFFICES ASSUME NEW k \in start..(stop - 1), k \notin bullets PROVE FALSE
    OBVIOUS
  <2>1. k \in Nat /\ k > start
    BY <1>2, <1>3, <1>6
  <2>2. k \in over
    BY <2>1
  <2> QED
    BY <2>2, <1>3, <1>5, <1>6
<1>8. FirstRun(c) = {i \in bullets : \A j \in start..i : j \in bullets}
  BY DEF FirstRun, bullets, start
<1>9. FirstRun(c) = start..(stop - 1)
  <2>1. ASSUME NEW i \in bullets, \A j \in start..i : j \in bullets PROVE i \in start..(stop - 1)
    <3>1. i \in Nat /\ start <= i
      BY <1>1, <1>2
    <3>2. ~(stop <= i)
      BY <2>1, <3>1, <1>3, <1>6
    <3> QED
      BY <3>1, <3>2, <1>3, <1>6
  <2>2. ASSUME NEW i \in start..(stop - 1) PROVE i \in bullets /\ \A j \in start..i : j \in bullets
    BY <2>2, <1>3, <1>6, <1>7
  <2> QED
    BY <2>1, <2>2, <1>8
<1>10. start - 1 \in 0..Len(c) /\ stop - 1 \in (start - 1)..Len(c) /\ start - 1 < stop - 1
       /\ (start - 1) + 1 = start
  BY <1>3, <1>6
<1> QED
  BY <1>9, <1>10 DEF start, bullets

\* Replacing an interval.
LEMMA ReplaceIs ==
  ASSUME NEW c \in Texts, NEW b, NEW i \in 0..Len(c), NEW j \in i..Len(c), i < j
  PROVE  Replace(c, (i + 1)..j, b) = Put(c, i, j, b)
<1>1. Len(c) \in Nat
  BY DEF Texts
<1>2. i + 1 \in (i + 1)..j /\ \A k \in (i + 1)..j : i + 1 <= k
  BY <1>1
<1>3. Least((i + 1)..j) = i + 1
  <2>1. Least((i + 1)..j) \in (i + 1)..j /\ \A k \in (i + 1)..j : Least((i + 1)..j) <= k
    <3>1. (i + 1)..j \in SUBSET Nat /\ (i + 1)..j # {}
      <4>1. i \in Nat /\ j \in Nat
        BY <1>1
      <4>2. \A k \in (i + 1)..j : k \in Nat
        BY <4>1
      <4> QED
        BY <1>2, <4>2
    <3> QED
      BY <3>1, LeastIsLeast
  <2> QED
    BY <2>1, <1>1, <1>2
<1>4. Cardinality((i + 1)..j) = j - i
  <2>1. i + 1 \in Int /\ j \in Int /\ ~(i + 1 > j) /\ j - (i + 1) + 1 = j - i
    BY <1>1
  <2> QED
    BY <2>1, FS_Interval
<1>5. (i + 1) - 1 = i /\ (i + 1) + (j - i) = j + 1
  BY <1>1
<1> QED
  BY <1>3, <1>4, <1>5 DEF Replace, Put

\* Where spliceIndexContent puts a listing, whatever the listing: in the place of the
\* lines after i and up to j.
Place(c, i, j) ==
  /\ i \in 0..Len(c) /\ j \in i..Len(c) /\ MayGo(c, i, j)
  /\ Plain(c, {"begin"}) \cap (1..i) = {}
  /\ ~Swallows(c) => Cardinality(Fences(c, i)) % 2 = 0
  /\ \A b \in Texts : Splice(c, b) = Put(c, i, j, b)

\* Markers that are sound, or none, show a place.
LEMMA PlaceIsFound ==
  ASSUME NEW c \in Texts, c # NoIndex, ~MalformedMarkers(c)
  PROVE  \E i, j : Place(c, i, j)
<1> DEFINE begins == Plain(c, {"begin"})
           ends == Plain(c, {"end"})
           bullets == Plain(c, {"item", "away"})
           heads == Plain(c, {"head"})
           any == Plain(c, {"begin", "item", "away"})
<1>1. Len(c) \in Nat /\ DOMAIN c = 1..Len(c)
  BY DEF Texts
<1>2. \A kinds : \A i : i \in Plain(c, kinds) <=> i \in 1..Len(c) /\ c[i][1] \in kinds /\ Outside(c, i)
  BY PlainIs
<1>3. \A kinds : Plain(c, kinds) \in SUBSET Nat
  BY PlainIs
<1>4. \A kinds : \A i \in Plain(c, kinds) : Cardinality(Fences(c, i - 1)) % 2 = 0
  BY PlainIs
<1>5. \A i : i \in any <=> i \in begins \/ i \in bullets
  <2> HIDE DEF any, begins, bullets
  <2>1. \A i : i \in any <=> i \in 1..Len(c) /\ c[i][1] \in {"begin", "item", "away"} /\ Outside(c, i)
    BY <1>2 DEF any
  <2>2. \A i : i \in begins <=> i \in 1..Len(c) /\ c[i][1] \in {"begin"} /\ Outside(c, i)
    BY <1>2 DEF begins
  <2>3. \A i : i \in bullets <=> i \in 1..Len(c) /\ c[i][1] \in {"item", "away"} /\ Outside(c, i)
    BY <1>2 DEF bullets
  <2> QED
    BY <2>1, <2>2, <2>3
<1>6. CASE begins # {}
  <2> DEFINE first == Least(begins)
             later == {i \in ends : i > first}
             last == Least(later)
  <2>1. first \in begins /\ \A k \in begins : first <= k
    BY <1>3, <1>6, LeastIsLeast
  <2>2. later # {}
    BY <1>6 DEF MalformedMarkers
  <2>3. last \in later
    BY <1>3, <2>2, LeastIsLeast
  <2>4. first \in 1..Len(c) /\ c[first][1] = "begin" /\ Outside(c, first)
    BY <1>2, <2>1
  <2>5. last \in 1..Len(c) /\ c[last][1] = "end" /\ Outside(c, last) /\ first < last
    BY <1>2, <2>3, <2>4
  <2>6. Region(c) = first..last
    BY <1>6 DEF Region
  <2>7. Cardinality(Fences(c, first - 1)) % 2 = 0
    BY <1>4, <2>1
  <2> HIDE DEF first, last
  <2> DEFINE i == first - 1
  <2>8. i \in 0..Len(c) /\ last \in i..Len(c) /\ i < last /\ i + 1 = first /\ i + 1 < last /\ i \in Nat
    BY <1>1, <2>4, <2>5
  <2>9. begins \cap (1..i) = {}
    BY <1>1, <1>3, <2>1, <2>4
  <2> HIDE DEF i
  <2>10. MayGo(c, i, last)
    BY <2>4, <2>5, <2>8 DEF MayGo
  <2>11. ASSUME NEW b \in Texts PROVE Splice(c, b) = Put(c, i, last, b)
    <3>1. any # {}
      BY <1>5, <1>6
    <3>2. Splice(c, b) = Replace(c, Region(c), b)
      BY <3>1 DEF Splice
    <3> QED
      BY <3>2, <2>6, <2>8, ReplaceIs
  <2>12. Cardinality(Fences(c, i)) % 2 = 0
    BY <2>7 DEF i
  <2> QED
    BY <2>8, <2>9, <2>10, <2>11, <2>12 DEF Place
<1>7. CASE begins = {} /\ bullets # {}
  <2>1. PICK i \in 0..Len(c) : \E j \in i..Len(c) :
          i < j /\ FirstRun(c) = (i + 1)..j /\ i + 1 = Least(bullets)
    BY <1>7, FirstRunIs
  <2>2. PICK j \in i..Len(c) : i < j /\ FirstRun(c) = (i + 1)..j /\ i + 1 = Least(bullets)
    BY <2>1
  <2>3. i + 1 \in bullets
    BY <1>3, <1>7, <2>2, LeastIsLeast
  <2>4. \A k \in (i + 1)..j : k \in bullets
    BY <2>2 DEF FirstRun
  <2>5. \A k \in (i + 1)..j : c[k][1] \in {"item", "away"} /\ Outside(c, k)
    BY <1>2, <2>4
  <2>6. MayGo(c, i, j)
    BY <2>5 DEF MayGo
  <2>7. Cardinality(Fences(c, i)) % 2 = 0
    <3>1. (i + 1) - 1 = i
      BY <1>1
    <3> QED
      BY <1>4, <2>3, <3>1
  <2>8. ASSUME NEW b \in Texts PROVE Splice(c, b) = Put(c, i, j, b)
    <3>1. any # {}
      BY <1>5, <1>7
    <3>2. Region(c) = (i + 1)..j
      BY <1>7, <2>2 DEF Region
    <3>3. Splice(c, b) = Replace(c, Region(c), b)
      BY <3>1 DEF Splice
    <3> QED
      BY <3>2, <3>3, <2>2, ReplaceIs
  <2> QED
    BY <1>7, <2>2, <2>6, <2>7, <2>8 DEF Place
<1>8. CASE begins = {} /\ bullets = {} /\ heads # {}
  <2> DEFINE first == Least(heads)
             i == first - 1
  <2>1. first \in heads
    BY <1>3, <1>8, LeastIsLeast
  <2>2. first \in 1..Len(c) /\ Cardinality(Fences(c, first - 1)) % 2 = 0
    BY <1>2, <1>4, <2>1
  <2> HIDE DEF first
  <2>3. i \in 0..Len(c) /\ i \in i..Len(c) /\ i + 1 = first
    BY <1>1, <2>2
  <2>4. ASSUME NEW b \in Texts PROVE Splice(c, b) = Put(c, i, i, b)
    <3>1. any = {}
      BY <1>5, <1>8
    <3>2. Splice(c, b) = SubSeq(c, 1, first - 1) \o b \o SubSeq(c, first, Len(c))
      BY <1>8, <3>1 DEF Splice, first
    <3> QED
      BY <2>3, <3>2 DEF Put
  <2>5. MayGo(c, i, i)
    BY DEF MayGo
  <2> QED
    BY <1>8, <2>2, <2>3, <2>4, <2>5 DEF Place
<1>9. CASE begins = {} /\ bullets = {} /\ heads = {}
  <2> DEFINE i == Len(c)
  <2>1. any = {}
    BY <1>5, <1>9
  <2>2. i \in 0..Len(c) /\ i \in i..Len(c) /\ MayGo(c, i, i)
    BY <1>1 DEF MayGo
  <2>3. ASSUME NEW b \in Texts PROVE Splice(c, b) = Put(c, i, i, b)
    <3>1. Splice(c, b) = c \o b
      BY <1>9, <2>1 DEF Splice
    <3>2. SubSeq(c, 1, Len(c)) = c
      BY SubSeqFull DEF Texts
    <3>3. SubSeq(c, Len(c) + 1, Len(c)) = <<>>
      BY <1>1, SubSeqEmpty
    <3>4. c \o b \in Texts
      BY ConcatProperties DEF Texts
    <3>5. (c \o b) \o <<>> = c \o b
      BY <3>4, ConcatEmptySeq DEF Texts
    <3> QED
      BY <3>1, <3>2, <3>3, <3>5 DEF Put
  <2>4. ~Swallows(c) => Cardinality(Fences(c, i)) % 2 = 0
    <3>1. Plain(c, {"begin", "item", "away", "head"}) = {}
      <4>1. \A k : k \in heads <=> k \in 1..Len(c) /\ c[k][1] \in {"head"} /\ Outside(c, k)
        BY <1>2
      <4>2. \A k : k \in any <=> k \in 1..Len(c) /\ c[k][1] \in {"begin", "item", "away"} /\ Outside(c, k)
        BY <1>2
      <4>3. \A k : k \in Plain(c, {"begin", "item", "away", "head"}) <=>
              k \in 1..Len(c) /\ c[k][1] \in {"begin", "item", "away", "head"} /\ Outside(c, k)
        BY <1>2
      <4> HIDE DEF heads, any
      <4> QED
        BY <1>9, <2>1, <4>1, <4>2, <4>3
    <3>2. Cardinality(Fences(c, i)) % 2 \in {0, 1}
      BY <1>1, CountIsEvenOrOdd
    <3> QED
      BY <1>1, <3>1, <3>2 DEF Swallows, Fences
  <2> QED
    BY <1>9, <2>2, <2>3, <2>4 DEF Place
<1> QED
  BY <1>6, <1>7, <1>8, <1>9

\* A listing at its place is where the next run looks for it, and shows what it lists.
LEMMA ListingIsFound ==
  ASSUME NEW c \in Texts, NEW i, NEW j, Place(c, i, j), NEW b \in Texts, Listing(b),
         ~Swallows(c)
  PROVE  LET new == Put(c, i, j, b)
         IN  /\ Splice(new, b) = new
             /\ Region(new) = (i + 1)..(i + Len(b))
             /\ \A k \in 2..(Len(b) - 1) : i + k \in Plain(new, {"item"})
<1> DEFINE new == Put(c, i, j, b)
           end == i + Len(b)
           begins == Plain(new, {"begin"})
           ends == Plain(new, {"end"})
<1>1. i \in 0..Len(c) /\ j \in i..Len(c) /\ Len(c) \in Nat /\ Len(b) \in Nat /\ i \in Nat
  BY DEF Place, Texts
<1>2. Len(b) >= 2 /\ b[1][1] = "begin" /\ b[Len(b)][1] = "end"
      /\ \A k \in 2..(Len(b) - 1) : b[k][1] = "item"
  BY DEF Listing
<1>3. /\ new \in Texts /\ Len(new) = end + (Len(c) - j)
      /\ \A k \in 1..i : new[k] = c[k]
      /\ \A k \in 1..Len(b) : new[i + k] = b[k]
      /\ SubSeq(new, 1, i) = SubSeq(c, 1, i)
      /\ SubSeq(new, end + 1, Len(new)) = SubSeq(c, j + 1, Len(c))
  BY <1>1, PutIs
<1> HIDE DEF new
<1>4. Len(new) \in Nat /\ end \in Nat /\ end <= Len(new)
  BY <1>1, <1>3
<1>5. \A k \in 1..Len(b) : new[i + k][1] # "fence"
  <2> TAKE k \in 1..Len(b)
  <2>1. k = 1 \/ k = Len(b) \/ k \in 2..(Len(b) - 1)
    BY <1>1
  <2>2. b[k][1] # "fence"
    BY <1>2, <2>1
  <2> QED
    BY <1>3, <2>2
<1>6. \A k \in 0..Len(b) : Fences(new, i + k) = Fences(c, i)
  <2> TAKE k \in 0..Len(b)
  <2>1. ASSUME NEW l \in 1..(i + k), new[l][1] = "fence" PROVE l \in 1..i /\ c[l][1] = "fence"
    <3>1. CASE l <= i
      BY <1>1, <1>3, <2>1, <3>1
    <3>2. CASE l > i
      <4>1. l - i \in 1..Len(b) /\ i + (l - i) = l
        BY <1>1, <3>2
      <4> QED
        BY <1>5, <2>1, <4>1
    <3> QED
      BY <1>1, <3>1, <3>2
  <2>2. ASSUME NEW l \in 1..i, c[l][1] = "fence" PROVE l \in 1..(i + k) /\ new[l][1] = "fence"
    BY <1>1, <1>3, <2>2
  <2> QED
    BY <2>1, <2>2 DEF Fences
<1>7. Cardinality(Fences(c, i)) % 2 = 0
  BY DEF Place
<1>8. \A k \in 1..Len(b) : Outside(new, i + k)
  <2> TAKE k \in 1..Len(b)
  <2>1. k - 1 \in 0..Len(b) /\ (i + k) - 1 = i + (k - 1)
    BY <1>1
  <2>2. Fences(new, (i + k) - 1) = Fences(c, i)
    BY <1>6, <2>1
  <2> QED
    BY <1>5, <1>7, <2>2 DEF Outside, Fences
<1>9. \A kinds : \A k : k \in Plain(new, kinds) <=> k \in 1..Len(new) /\ new[k][1] \in kinds /\ Outside(new, k)
  BY <1>3, PlainIs
<1>10. \A kinds : Plain(new, kinds) \in SUBSET Nat
  BY <1>3, PlainIs
<1>11. \A k \in 1..Len(b) : i + k \in 1..Len(new)
  BY <1>1, <1>4
<1>12. \A k \in 2..(Len(b) - 1) : i + k \in Plain(new, {"item"})
  <2> TAKE k \in 2..(Len(b) - 1)
  <2>1. k \in 1..Len(b)
    BY <1>1
  <2>2. new[i + k][1] = "item"
    BY <1>2, <1>3, <2>1
  <2> QED
    BY <1>8, <1>9, <1>11, <2>1, <2>2
<1>13. i + 1 \in begins
  <2>1. 1 \in 1..Len(b)
    BY <1>1, <1>2
  <2>2. new[i + 1][1] = "begin"
    BY <1>2, <1>3, <2>1
  <2> QED
    BY <1>8, <1>9, <1>11, <2>1, <2>2
<1>14. \A k \in begins : i + 1 <= k
  <2> SUFFICES ASSUME NEW k \in begins, ~(i + 1 <= k) PROVE FALSE
    OBVIOUS
  <2>1. k \in 1..i /\ new[k][1] = "begin" /\ Outside(new, k)
    BY <1>1, <1>4, <1>9
  <2>2. c[k][1] = "begin"
    BY <1>3, <2>1
  <2>3. {l \in 1..(k - 1) : new[l][1] = "fence"} = {l \in 1..(k - 1) : c[l][1] = "fence"}
    <3>1. \A l \in 1..(k - 1) : new[l] = c[l]
      BY <1>1, <1>3, <2>1
    <3> QED
      BY <3>1
  <2>4. Outside(c, k)
    BY <2>1, <2>2, <2>3 DEF Outside
  <2>5. k \in Plain(c, {"begin"})
    <3>1. k \in 1..Len(c)
      BY <1>1, <2>1
    <3> QED
      BY <2>2, <2>4, <3>1, PlainIs
  <2> QED
    BY <2>1, <2>5 DEF Place
<1>15. Least(begins) = i + 1
  <2>1. Least(begins) \in begins /\ \A k \in begins : Least(begins) <= k
    BY <1>10, <1>13, LeastIsLeast
  <2>2. Least(begins) \in Nat
    BY <1>10, <2>1
  <2> QED
    BY <1>1, <1>13, <1>14, <2>1, <2>2
<1> DEFINE later == {k \in ends : k > Least(begins)}
<1>16. end \in later
  <2>1. Len(b) \in 1..Len(b)
    BY <1>1, <1>2
  <2>2. new[end][1] = "end" /\ Outside(new, end) /\ end \in 1..Len(new)
    BY <1>2, <1>3, <1>8, <1>11, <2>1
  <2>3. end > i + 1
    BY <1>1, <1>2
  <2> QED
    BY <1>9, <1>15, <2>2, <2>3
<1>17. \A k \in later : end <= k
  <2> SUFFICES ASSUME NEW k \in later, ~(end <= k) PROVE FALSE
    OBVIOUS
  <2>1. k \in Nat /\ k > i + 1 /\ new[k][1] = "end"
    BY <1>9, <1>10, <1>15
  <2>2. k - i \in 2..(Len(b) - 1) /\ k - i \in 1..Len(b) /\ i + (k - i) = k
    BY <1>1, <2>1
  <2>3. b[k - i][1] = "end"
    BY <1>3, <2>1, <2>2
  <2> QED
    BY <1>2, <2>2, <2>3
<1>18. Least(later) = end
  <2>1. later \in SUBSET Nat
    BY <1>10
  <2>2. Least(later) \in later /\ \A k \in later : Least(later) <= k
    BY <1>16, <2>1, LeastIsLeast
  <2> HIDE DEF later
  <2>3. Least(later) \in Nat
    BY <2>1, <2>2
  <2>4. end <= Least(later) /\ Least(later) <= end
    BY <1>16, <1>17, <2>2
  <2> QED
    BY <1>4, <2>3, <2>4
<1>19. Region(new) = (i + 1)..end
  BY <1>13, <1>15, <1>18 DEF Region
<1>20. Splice(new, b) = new
  <2>1. new # NoIndex
    BY <1>3, IndexFixAssumption DEF Texts
  <2>2. i + 1 \in Plain(new, {"begin", "item", "away"})
    BY <1>9, <1>13
  <2>3. Splice(new, b) = Replace(new, Region(new), b)
    BY <2>1, <2>2 DEF Splice
  <2>4. i \in 0..Len(new) /\ end \in i..Len(new) /\ i < end
    BY <1>1, <1>2, <1>4
  <2>5. Splice(new, b) = Put(new, i, end, b)
    BY <1>3, <1>19, <2>3, <2>4, ReplaceIs
  <2> QED
    BY <2>5, <1>3 DEF Put, new
<1> QED
  BY <1>12, <1>19, <1>20 DEF new

\* Nothing but the listing changes.
LEMMA OthersLinesStay ==
  ASSUME NEW c \in Texts, NEW i, NEW j, Place(c, i, j), NEW b \in Texts, Listing(b)
  PROVE  OnlyTheListing(c, Put(c, i, j, b))
<1> DEFINE new == Put(c, i, j, b)
<1>1. i \in 0..Len(c) /\ j \in i..Len(c) /\ MayGo(c, i, j) /\ Len(c) \in Nat /\ Len(b) \in Nat
  BY DEF Place, Texts
<1>2. /\ new \in Texts /\ Len(new) = (i + Len(b)) + (Len(c) - j)
      /\ SubSeq(new, 1, i) = SubSeq(c, 1, i)
      /\ SubSeq(new, i + 1, i + Len(b)) = b
      /\ SubSeq(new, (i + Len(b)) + 1, Len(new)) = SubSeq(c, j + 1, Len(c))
  BY <1>1, PutIs
<1> HIDE DEF new
<1>3. Len(new) - (Len(c) - j) = i + Len(b) /\ i <= i + Len(b)
  BY <1>1, <1>2
<1>4. OnlyTheListing(c, new)
  BY <1>1, <1>2, <1>3 DEF OnlyTheListing
<1> QED
  BY <1>4 DEF new

-----------------------------------------------------------------------------
(* The listing. *)

\* A stable sort of a finite set of entries shows each of them.
LEMMA SortedIs ==
  ASSUME NEW S, IsFiniteSet(S), \A x \in S : Rank(x[3]) \in Int
  PROVE  /\ Sorted(S) \in Seq(S)
         /\ \A x \in S : \E k \in 1..Len(Sorted(S)) : Sorted(S)[k] = x
<1> DEFINE s == SetToSeq(S)
           n == Cardinality(S)
           r(i) == Rank(s[i][3])
           upTo(i) == {j \in 1..n : r(j) < r(i) \/ (r(j) = r(i) /\ j <= i)}
           p == [i \in 1..n |-> Cardinality(upTo(i))]
<1>1. n \in Nat /\ ExistsBijection(1..n, S)
  BY FS_CardinalityType
<1>2. \E f \in [1..n -> S] : IsInjective(f)
  BY <1>1 DEF ExistsBijection, Bijection, Injection
<1>3. s \in [1..n -> S] /\ IsInjective(s)
  BY <1>2 DEF SetToSeq
<1>4. \A x \in S : \E i \in 1..n : s[i] = x
  <2>1. IsFiniteSet(1..n) /\ Cardinality(1..n) = n
    BY <1>1, FS_Interval
  <2>2. s \in Injection(1..n, S)
    BY <1>3 DEF Injection
  <2>3. s \in Surjection(1..n, S)
    BY <2>1, <2>2, FS_Injection
  <2> QED
    BY <2>3 DEF Surjection
<1>5. \A i \in 1..n : r(i) \in Int
  BY <1>3
<1>6. DOMAIN s = 1..n
  BY <1>3
<1>7. Sorted(S) = [k \in 1..n |-> s[CHOOSE i \in 1..n : Cardinality(upTo(i)) = k]]
  BY <1>6 DEF Sorted
<1> HIDE DEF s, n, r
<1>8. IsFiniteSet(1..n) /\ Cardinality(1..n) = n
  BY <1>1, FS_Interval
<1>9. \A i \in 1..n : upTo(i) \in SUBSET (1..n) /\ IsFiniteSet(upTo(i)) /\ Cardinality(upTo(i)) \in 0..n
                      /\ i \in upTo(i)
  <2> TAKE i \in 1..n
  <2>1. upTo(i) \in SUBSET (1..n) /\ i \in upTo(i)
    BY <1>1, <1>5
  <2> HIDE DEF upTo
  <2>2. IsFiniteSet(upTo(i)) /\ Cardinality(upTo(i)) <= n
    BY <1>8, <2>1, FS_Subset
  <2>3. Cardinality(upTo(i)) \in Nat
    BY <2>2, FS_CardinalityType
  <2> QED
    BY <1>1, <2>1, <2>2, <2>3
<1>10. \A i \in 1..n : Cardinality(upTo(i)) \in 1..n
  <2> TAKE i \in 1..n
  <2>1. Cardinality(upTo(i)) # 0
    BY <1>9, FS_EmptySet
  <2> HIDE DEF upTo
  <2> QED
    BY <1>1, <1>9, <2>1
<1>11. \A i, j \in 1..n : i # j => Cardinality(upTo(i)) # Cardinality(upTo(j))
  <2>1. ASSUME NEW i \in 1..n, NEW j \in 1..n, r(i) < r(j) \/ (r(i) = r(j) /\ i < j)
        PROVE  Cardinality(upTo(i)) # Cardinality(upTo(j))
    <3>1. j \notin upTo(i)
      BY <1>1, <1>5, <2>1
    <3>2. \A k \in 1..n : k \in upTo(i) => k \in upTo(j)
      BY <1>1, <1>5, <2>1
    <3>3. upTo(i) \in SUBSET upTo(j) /\ upTo(i) # upTo(j)
      BY <1>9, <3>1, <3>2
    <3> HIDE DEF upTo
    <3> QED
      BY <1>9, <3>3, FS_Subset
  <2> TAKE i, j \in 1..n
  <2>2. i # j => (r(i) < r(j) \/ (r(i) = r(j) /\ i < j)) \/ (r(j) < r(i) \/ (r(j) = r(i) /\ j < i))
    BY <1>1, <1>5
  <2> HIDE DEF upTo
  <2> QED
    BY <2>1, <2>2
<1> HIDE DEF upTo
<1>12. p \in Injection(1..n, 1..n)
  BY <1>10, <1>11 DEF Injection, IsInjective
<1>13. p \in Surjection(1..n, 1..n)
  BY <1>8, <1>12, FS_Injection
<1>14. \A k \in 1..n : \E i \in 1..n : Cardinality(upTo(i)) = k
  <2> TAKE k \in 1..n
  <2>1. \E i \in 1..n : p[i] = k
    BY <1>13 DEF Surjection
  <2> QED
    BY <2>1
<1>15. ASSUME NEW k \in 1..n PROVE Sorted(S)[k] \in S
  <2> DEFINE i == CHOOSE i \in 1..n : Cardinality(upTo(i)) = k
  <2>1. i \in 1..n
    BY <1>14
  <2>2. Sorted(S)[k] = s[i]
    BY <1>7
  <2> HIDE DEF i
  <2> QED
    BY <1>3, <2>1, <2>2
<1>16. Sorted(S) \in [1..n -> S]
  <2>1. DOMAIN Sorted(S) = 1..n /\ Sorted(S) = [k \in 1..n |-> Sorted(S)[k]]
    BY <1>7
  <2> QED
    BY <1>15, <2>1
<1>17. Sorted(S) \in Seq(S) /\ Len(Sorted(S)) = n
  BY <1>1, <1>16
<1>18. ASSUME NEW x \in S PROVE \E k \in 1..n : Sorted(S)[k] = x
  <2>1. PICK i \in 1..n : s[i] = x
    BY <1>4
  <2> DEFINE k == Cardinality(upTo(i))
             h == CHOOSE l \in 1..n : Cardinality(upTo(l)) = k
  <2>2. k \in 1..n
    BY <1>10
  <2>3. h \in 1..n /\ Cardinality(upTo(h)) = k
    OBVIOUS
  <2>4. h = i
    BY <1>11, <2>3
  <2>5. Sorted(S)[k] = s[h]
    BY <1>7, <2>2
  <2> QED
    BY <2>1, <2>2, <2>4, <2>5
<1> QED
  BY <1>17, <1>18

\* Lines that show no name.
LEMMA MarkersAreLines == \A kind \in LineKinds : IndexLine(kind) \in IndexLines
  BY DEF IndexLine, IndexLines

\* What the listing of some names is, whatever their titles: entries between markers,
\* one of each name.
LEMMA BlockIs ==
  ASSUME NEW names \in SUBSET EntryNames, IsFiniteSet(names),
         \A m \in names : TitleOf(m) \in ToSet(Alphabet)
  PROVE  LET b == Block(names)
         IN  /\ b \in Texts /\ Listing(b)
             /\ \A k \in 2..(Len(b) - 1) : b[k][2] \in names
             /\ \A m \in names : \E k \in 2..(Len(b) - 1) : b[k][2] = m
<1> DEFINE items == {Item(m, TitleOf(m)) : m \in names}
           s == Sorted(items)
           first == <<IndexLine("begin")>>
           last == <<IndexLine("end")>>
<1>1. \A a \in ToSet(Alphabet) : Rank(a) \in Int
  <2> TAKE a \in ToSet(Alphabet)
  <2>1. PICK k \in DOMAIN Alphabet : Alphabet[k] = a
    BY DEF ToSet
  <2>2. Rank(a) \in DOMAIN Alphabet
    BY <2>1 DEF Rank
  <2>3. DOMAIN Alphabet \subseteq Nat
    BY IndexFixAssumption
  <2> QED
    BY <2>2, <2>3
<1>2. IsFiniteSet(items)
  <2> DEFINE f == [m \in names |-> Item(m, TitleOf(m))]
  <2>1. f \in Surjection(names, items)
    BY DEF Surjection
  <2> QED
    BY <2>1, FS_Surjection
<1>3. \A m \in names : Item(m, TitleOf(m)) \in IndexLines
  BY <1>1 DEF Item, IndexLines, LineKinds
<1>4. \A x \in items : x \in IndexLines /\ x[1] = "item" /\ x[2] \in names /\ Rank(x[3]) \in Int
  BY <1>1, <1>3 DEF Item
<1>5. s \in Seq(items) /\ \A x \in items : \E k \in 1..Len(s) : s[k] = x
  BY <1>2, <1>4, SortedIs
<1>6. \A m \in names : \E k \in 1..Len(s) : s[k][2] = m
  <2> TAKE m \in names
  <2>1. Item(m, TitleOf(m)) \in items
    OBVIOUS
  <2>2. PICK k \in 1..Len(s) : s[k] = Item(m, TitleOf(m))
    BY <1>5, <2>1
  <2>3. s[k][2] = m
    BY <2>2 DEF Item
  <2> HIDE DEF s
  <2> QED
    BY <2>3
<1>7. Block(names) = first \o s \o last
  BY DEF Block
<1> HIDE DEF items, s
<1>8. s \in Texts /\ Len(s) \in Nat /\ \A k \in 1..Len(s) : s[k][1] = "item" /\ s[k][2] \in names
  <2>1. s \in Seq(items) /\ items \subseteq IndexLines
    BY <1>4, <1>5
  <2>2. s \in Texts
    BY <2>1, SeqMonotonic DEF Texts
  <2>3. \A k \in 1..Len(s) : s[k] \in items
    BY <2>1
  <2> QED
    BY <1>4, <2>2, <2>3 DEF Texts
<1>9. /\ first \in Texts /\ Len(first) = 1 /\ first[1][1] = "begin"
      /\ last \in Texts /\ Len(last) = 1 /\ last[1][1] = "end"
  <2>1. IndexLine("begin") \in IndexLines /\ IndexLine("end") \in IndexLines
    BY MarkersAreLines DEF LineKinds
  <2>2. IndexLine("begin")[1] = "begin" /\ IndexLine("end")[1] = "end"
    BY DEF IndexLine
  <2>3. ASSUME NEW x \in IndexLines PROVE <<x>> \in Texts /\ Len(<<x>>) = 1 /\ <<x>>[1] = x
    BY DEF Texts
  <2> QED
    BY <2>1, <2>2, <2>3
<1> HIDE DEF first, last
<1> DEFINE q == first \o s
           b == q \o last
<1>10. /\ q \in Texts /\ Len(q) = 1 + Len(s)
       /\ \A k \in 1..(1 + Len(s)) : q[k] = IF k <= 1 THEN first[k] ELSE s[k - 1]
  BY <1>8, <1>9, ConcatProperties DEF Texts
<1> HIDE DEF q
<1>11. /\ b \in Texts /\ Len(b) = Len(s) + 2
       /\ \A k \in 1..(Len(s) + 2) : b[k] = IF k <= 1 + Len(s) THEN q[k] ELSE last[k - (1 + Len(s))]
  <2>1. /\ b \in Texts /\ Len(b) = Len(q) + Len(last)
        /\ \A k \in 1..(Len(q) + Len(last)) : b[k] = IF k <= Len(q) THEN q[k] ELSE last[k - Len(q)]
    BY <1>9, <1>10, ConcatProperties DEF Texts
  <2>2. Len(q) = 1 + Len(s) /\ Len(q) + Len(last) = Len(s) + 2
    BY <1>8, <1>9, <1>10
  <2> HIDE DEF b
  <2> QED
    BY <2>1, <2>2
<1> HIDE DEF b
<1>12. b[1][1] = "begin" /\ b[Len(b)][1] = "end"
  <2>1. b[1] = first[1]
    BY <1>8, <1>10, <1>11
  <2>2. b[Len(s) + 2] = last[1]
    BY <1>8, <1>11
  <2> QED
    BY <1>9, <1>11, <2>1, <2>2
<1>13. \A k \in 1..Len(s) : b[k + 1] = s[k]
  <2> TAKE k \in 1..Len(s)
  <2>1. k + 1 \in 1..(Len(s) + 2) /\ k + 1 <= 1 + Len(s) /\ ~(k + 1 <= 1) /\ (k + 1) - 1 = k
        /\ k + 1 \in 1..(1 + Len(s))
    BY <1>8
  <2> QED
    BY <1>10, <1>11, <2>1
<1>14. \A k \in 2..(Len(b) - 1) : k - 1 \in 1..Len(s) /\ b[k] = s[k - 1]
  <2> TAKE k \in 2..(Len(b) - 1)
  <2>1. k - 1 \in 1..Len(s) /\ (k - 1) + 1 = k
    BY <1>8, <1>11
  <2> QED
    BY <1>13, <2>1
<1>15. Listing(b)
  BY <1>8, <1>11, <1>12, <1>14 DEF Listing
<1>16. \A m \in names : \E k \in 2..(Len(b) - 1) : b[k][2] = m
  <2> TAKE m \in names
  <2>1. PICK k \in 1..Len(s) : s[k][2] = m
    BY <1>6
  <2>2. k + 1 \in 2..(Len(b) - 1) /\ b[k + 1] = s[k]
    BY <1>8, <1>11, <1>13
  <2> QED
    BY <2>1, <2>2
<1>17. Block(names) = b
  BY <1>7 DEF b, q
<1> QED
  BY <1>8, <1>11, <1>14, <1>15, <1>16, <1>17

-----------------------------------------------------------------------------
(* The state. *)

Stages == {"next", "write", "rename"}
Todos == {<<"sub", "root">>, <<"root">>, <<>>}
Passes == [pc : Stages, todo : Todos, seen : [IndexDirs -> Texts \cup {NoIndex}], steady : BOOLEAN,
           refused : SUBSET IndexDirs, children : [IndexDirs -> SUBSET EntryNames],
           content : Texts \cup {NoIndex}]

FixTypeOK ==
  /\ documents \in SUBSET (RootDocs \cup SubDocs)
  /\ title \in [RootDocs \cup SubDocs -> ToSet(Alphabet)]
  /\ index \in [IndexDirs -> Texts \cup {NoIndex}]
  /\ temp \in [IndexDirs -> Texts \cup {NoIndex}]
  /\ fix \in [Fixers -> Passes \cup {IdleRun}]

\* What a pass is about to write is what it read, with a listing at its place.
HasContent(w) ==
  w.pc # "next" =>
    LET c == w.seen[Head(w.todo)]
    IN  /\ w.todo # <<>> /\ w.content \in Texts
        /\ c # NoIndex => ~MalformedMarkers(c)
        /\ \E b \in Texts : Listing(b) /\ w.content = Splice(c, b)

\* The check is content with an index that a pass left.
Settled(w, d) ==
  LET c == index[d]
      children == Children(d)
      block == Block(children)
  IN  (children # {} /\ ~Swallows(w.seen[d])) =>
        /\ c # NoIndex /\ MissingEntries(c, children) = {}
        /\ c # w.seen[d] =>
             /\ Splice(c, block) = c
             /\ \A n \in StaleEntries(c, children) :
                  \E i \in Plain(c, {"item"}) : c[i][2] = n /\ i \notin Region(c)

Ahead(w) == {w.todo[i] : i \in DOMAIN w.todo}

\* A pass that nobody disturbs knows the directories, finds an index as it read it,
\* writes today's listing and leaves what is settled.
Undisturbed(w) ==
  w.steady =>
    /\ \A d \in IndexDirs : w.children[d] = Children(d)
    /\ \A d \in Ahead(w) : index[d] = w.seen[d]
    /\ w.pc # "next" => LET d == Head(w.todo)
                        IN  w.children[d] # {} /\ w.content = Splice(w.seen[d], Block(w.children[d]))
    /\ w.pc = "rename" => temp[Head(w.todo)] = w.content
    /\ \A d \in IndexDirs \ (Ahead(w) \cup w.refused) : Settled(w, d)

FixInv ==
  /\ FixTypeOK
  /\ \A f \in Fixers : \A w \in Passes : fix[f] = w => HasContent(w) /\ Undisturbed(w)

\* What is assumed of names and texts, where it is needed.
LEMMA EntryNamesAre ==
  /\ IsFiniteSet(EntryNames) /\ IndexDirs = {"root", "sub"} /\ "sub" \notin RootDocs \cup SubDocs
  /\ EntryNames \subseteq ToSet(Alphabet) /\ "sub, summarised" \in ToSet(Alphabet)
  /\ "sub" \in EntryNames /\ RootDocs \cup SubDocs \subseteq EntryNames
  /\ HandWritten \subseteq Texts /\ NoIndex \notin Texts
<1>1. IsFiniteSet(RootDocs) /\ IsFiniteSet(SubDocs) /\ IsFiniteSet({"sub"})
  BY IndexFixAssumption, FS_Singleton
<1>2. IsFiniteSet(EntryNames)
  BY <1>1, FS_Union DEF EntryNames
<1>3. EntryNames \cup {"sub, summarised"} \subseteq ToSet(Alphabet)
  BY IndexFixAssumption
<1>4. HandWritten \subseteq Texts /\ NoIndex \notin Texts
  BY IndexFixAssumption DEF Texts
<1>5. "sub" \notin RootDocs \cup SubDocs
  BY IndexFixAssumption
<1> QED
  BY <1>2, <1>3, <1>4, <1>5 DEF IndexDirs, EntryNames

\* Whatever is listed has a title that can be sorted.
LEMMA TitlesAre ==
  ASSUME FixTypeOK
  PROVE  \A n \in EntryNames : TitleOf(n) \in ToSet(Alphabet)
<1> TAKE n \in EntryNames
<1>1. CASE n = "sub"
  BY <1>1, EntryNamesAre DEF TitleOf
<1>2. CASE n # "sub" /\ n \in documents
  BY <1>2 DEF TitleOf, FixTypeOK
<1>3. CASE n # "sub" /\ n \notin documents
  BY <1>3, EntryNamesAre DEF TitleOf
<1> QED
  BY <1>1, <1>2, <1>3

\* Children are names.
LEMMA ChildrenAre ==
  ASSUME FixTypeOK
  PROVE  \A d \in IndexDirs : Children(d) \in SUBSET EntryNames
BY EntryNamesAre DEF FixTypeOK, Children

\* The listing of any names.
LEMMA ListingOfNames ==
  ASSUME FixTypeOK, NEW names \in SUBSET EntryNames
  PROVE  LET b == Block(names)
         IN  /\ b \in Texts /\ Listing(b)
             /\ \A k \in 2..(Len(b) - 1) : b[k][2] \in names
             /\ \A m \in names : \E k \in 2..(Len(b) - 1) : b[k][2] = m
<1>1. IsFiniteSet(names)
  BY EntryNamesAre, FS_Subset
<1>2. \A m \in names : TitleOf(m) \in ToSet(Alphabet)
  BY TitlesAre
<1> QED
  BY <1>1, <1>2, BlockIs

-----------------------------------------------------------------------------
\* A directory without an index gets an introduction first.
Origin(c) == IF c = NoIndex THEN <<Intro>> ELSE c

\* The introduction alone: no fence, no marker, and the listing follows it.
LEMMA IntroIs ==
  /\ <<Intro>> \in Texts /\ <<Intro>> # NoIndex /\ ~MalformedMarkers(<<Intro>>) /\ ~Swallows(<<Intro>>)
  /\ \A b \in Texts : Splice(<<Intro>>, b) = <<Intro>> \o b
<1> DEFINE c == <<Intro>>
<1>1. Intro \in IndexLines /\ Intro[1] = "text"
  BY MarkersAreLines DEF Intro, LineKinds, IndexLine
<1>2. c \in Texts /\ Len(c) = 1 /\ c[1][1] = "text" /\ DOMAIN c = {1}
  BY <1>1 DEF Texts
<1> HIDE DEF c
<1>3. ASSUME NEW kinds, "text" \notin kinds PROVE Plain(c, kinds) = {}
  BY <1>2, <1>3 DEF Plain
<1>4. Plain(c, {"begin"}) = {} /\ Plain(c, {"end"}) = {} /\ Plain(c, {"head"}) = {}
      /\ Plain(c, {"begin", "item", "away"}) = {}
  BY <1>3
<1>5. c # NoIndex
  BY <1>2, EntryNamesAre
<1>6. ~MalformedMarkers(c)
  BY <1>4 DEF MalformedMarkers
<1>7. ~Swallows(c)
  <2>1. {i \in DOMAIN c : c[i][1] = "fence"} = {}
    BY <1>2
  <2>2. Cardinality({i \in DOMAIN c : c[i][1] = "fence"}) % 2 # 1
    <3>1. Cardinality({i \in DOMAIN c : c[i][1] = "fence"}) = 0
      BY <2>1, FS_EmptySet
    <3> QED
      BY <3>1
  <2> QED
    BY <2>2 DEF Swallows
<1>8. \A b \in Texts : Splice(c, b) = c \o b
  BY <1>4, <1>5 DEF Splice
<1> QED
  BY <1>2, <1>5, <1>6, <1>7, <1>8 DEF c

\* What is read has a place for the listing, or gets one.
LEMMA OriginIs ==
  ASSUME NEW c \in Texts \cup {NoIndex}, c # NoIndex => ~MalformedMarkers(c)
  PROVE  /\ Origin(c) \in Texts /\ Origin(c) # NoIndex
         /\ Swallows(Origin(c)) => Swallows(c)
         /\ \E i, j : Place(Origin(c), i, j) /\ \A b \in Texts : Splice(c, b) = Put(Origin(c), i, j, b)
<1>1. CASE c = NoIndex
  <2>1. Origin(c) = <<Intro>>
    BY <1>1 DEF Origin
  <2>2. PICK i, j : Place(<<Intro>>, i, j)
    BY IntroIs, PlaceIsFound
  <2>3. \A b \in Texts : Splice(c, b) = Put(<<Intro>>, i, j, b)
    <3> TAKE b \in Texts
    <3>1. Splice(c, b) = <<Intro>> \o b
      BY <1>1 DEF Splice
    <3>2. Splice(<<Intro>>, b) = Put(<<Intro>>, i, j, b)
      BY <2>2 DEF Place
    <3> QED
      BY <3>1, <3>2, IntroIs
  <2> QED
    BY <2>1, <2>2, <2>3, IntroIs
<1>2. CASE c # NoIndex
  <2>1. Origin(c) = c /\ c \in Texts /\ ~MalformedMarkers(c)
    BY <1>2 DEF Origin
  <2>2. PICK i, j : Place(c, i, j)
    BY <1>2, <2>1, PlaceIsFound
  <2> QED
    BY <1>2, <2>1, <2>2 DEF Place
<1> QED
  BY <1>1, <1>2

\* What the generating pass writes: a text, and in it the author's lines.
LEMMA SpliceIs ==
  ASSUME NEW c \in Texts \cup {NoIndex}, c # NoIndex => ~MalformedMarkers(c),
         NEW b \in Texts, Listing(b)
  PROVE  Splice(c, b) \in Texts /\ OnlyTheListing(Origin(c), Splice(c, b))
<1>1. PICK i, j : Place(Origin(c), i, j) /\ Splice(c, b) = Put(Origin(c), i, j, b)
  BY OriginIs
<1>2. Origin(c) \in Texts
  BY OriginIs
<1>3. i \in 0..Len(Origin(c)) /\ j \in i..Len(Origin(c))
  BY <1>1 DEF Place
<1>4. Put(Origin(c), i, j, b) \in Texts
  BY <1>2, <1>3, PutIs
<1> QED
  BY <1>1, <1>2, <1>4, OthersLinesStay

\* Unless the index swallows it, the listing is found again: nothing is missing, what
\* names nothing is outside it, and a further pass would write the same.
LEMMA SpliceSettles ==
  ASSUME NEW c \in Texts \cup {NoIndex}, c # NoIndex => ~MalformedMarkers(c), ~Swallows(c),
         NEW b \in Texts, Listing(b), NEW names,
         \A k \in 2..(Len(b) - 1) : b[k][2] \in names,
         \A m \in names : \E k \in 2..(Len(b) - 1) : b[k][2] = m
  PROVE  LET new == Splice(c, b)
         IN  /\ Splice(new, b) = new /\ MissingEntries(new, names) = {}
             /\ \A n \in StaleEntries(new, names) :
                  \E i \in Plain(new, {"item"}) : new[i][2] = n /\ i \notin Region(new)
<1> DEFINE o == Origin(c)
           new == Splice(c, b)
<1>1. o \in Texts /\ ~Swallows(o)
  BY OriginIs
<1>2. PICK i, j : Place(o, i, j) /\ new = Put(o, i, j, b)
  BY OriginIs
<1> HIDE DEF o, new
<1>3. i \in 0..Len(o) /\ j \in i..Len(o) /\ i \in Nat /\ Len(b) \in Nat /\ Len(o) \in Nat
  <2>1. Len(o) \in Nat /\ Len(b) \in Nat
    BY <1>1 DEF Texts
  <2> QED
    BY <1>2, <2>1 DEF Place
<1>4. /\ Splice(new, b) = new /\ Region(new) = (i + 1)..(i + Len(b))
      /\ \A k \in 2..(Len(b) - 1) : i + k \in Plain(new, {"item"})
  BY <1>1, <1>2, ListingIsFound
<1>5. new \in Texts /\ \A k \in 1..Len(b) : new[i + k] = b[k]
  BY <1>1, <1>2, <1>3, PutIs
<1>6. MissingEntries(new, names) = {}
  <2> SUFFICES ASSUME NEW m \in names PROVE m \in Listed(new)
    BY DEF MissingEntries
  <2>1. PICK k \in 2..(Len(b) - 1) : b[k][2] = m
    OBVIOUS
  <2>2. k \in 1..Len(b)
    BY <1>3
  <2>3. i + k \in Plain(new, {"item"}) /\ new[i + k][2] = m
    BY <1>4, <1>5, <2>1, <2>2
  <2> QED
    BY <2>3 DEF Listed
<1>7. ASSUME NEW n \in StaleEntries(new, names)
      PROVE  \E k \in Plain(new, {"item"}) : new[k][2] = n /\ k \notin Region(new)
  <2>1. n \in Listed(new) /\ n \notin names
    BY DEF StaleEntries
  <2>2. PICK k \in Plain(new, {"item"}) : new[k][2] = n
    BY <2>1 DEF Listed
  <2>3. k \in Nat /\ new[k][1] = "item"
    BY <1>5, PlainIs
  <2>4. k \notin Region(new)
    <3> SUFFICES ASSUME k \in Region(new) PROVE FALSE
      OBVIOUS
    <3>1. k - i \in 1..Len(b) /\ i + (k - i) = k
      BY <1>3, <1>4, <2>3
    <3>2. new[k] = b[k - i]
      BY <1>5, <3>1
    <3>3. k - i = 1 \/ k - i = Len(b) \/ k - i \in 2..(Len(b) - 1)
      BY <1>3, <3>1
    <3>4. k - i \in 2..(Len(b) - 1)
      BY <2>3, <3>2, <3>3 DEF Listing
    <3> QED
      BY <2>1, <2>2, <3>2, <3>4
  <2> QED
    BY <2>2, <2>4
<1> QED
  BY <1>4, <1>6, <1>7 DEF new

-----------------------------------------------------------------------------
(* Passes. *)

\* The two directories, one after the other.
LEMMA AheadIs ==
  ASSUME NEW w \in Passes
  PROVE  /\ w # IdleRun /\ w.pc # "idle" /\ IdleRun.pc = "idle"
         /\ w.todo = <<>> => Ahead(w) = {}
         /\ w.todo # <<>> =>
              LET v == Advance(w)
              IN  /\ \/ Head(w.todo) = "sub" /\ Ahead(w) = {"root", "sub"} /\ Ahead(v) = {"root"}
                     \/ Head(w.todo) = "root" /\ Ahead(w) = {"root"} /\ Ahead(v) = {}
                  /\ v \in Passes /\ v.pc = "next" /\ v.seen = w.seen /\ v.steady = w.steady
                  /\ v.children = w.children /\ v.refused = w.refused
                  /\ Ahead(Refuse(w)) = Ahead(v) /\ Refuse(w) \in Passes /\ Refuse(w).pc = "next"
                  /\ Refuse(w).seen = w.seen /\ Refuse(w).steady = w.steady
                  /\ Refuse(w).children = w.children
                  /\ Refuse(w).refused = w.refused \cup {Head(w.todo)}
<1>1. w # IdleRun /\ w.pc # "idle" /\ IdleRun.pc = "idle"
  BY DEF Passes, Stages, IdleRun
<1>2. w.todo \in {<<"sub", "root">>, <<"root">>, <<>>} /\ w.refused \in SUBSET IndexDirs
  BY DEF Passes, Todos
<1>3. ASSUME w.todo = <<>> PROVE Ahead(w) = {}
  BY <1>3 DEF Ahead
<1> DEFINE v == Advance(w)
<1>4. ASSUME w.todo # <<>>
      PROVE  /\ \/ Head(w.todo) = "sub" /\ Tail(w.todo) = <<"root">>
                   /\ DOMAIN w.todo = {1, 2} /\ w.todo[1] = "sub" /\ w.todo[2] = "root"
                \/ Head(w.todo) = "root" /\ Tail(w.todo) = <<>> /\ DOMAIN w.todo = {1} /\ w.todo[1] = "root"
  <2>1. ASSUME NEW s, s = <<"sub", "root">>
        PROVE  Head(s) = "sub" /\ Tail(s) = <<"root">> /\ DOMAIN s = {1, 2} /\ s[1] = "sub" /\ s[2] = "root"
    BY <2>1
  <2>2. ASSUME NEW s, s = <<"root">>
        PROVE  Head(s) = "root" /\ Tail(s) = <<>> /\ DOMAIN s = {1} /\ s[1] = "root"
    BY <2>2
  <2>3. w.todo = <<"sub", "root">> \/ w.todo = <<"root">>
    BY <1>2, <1>4
  <2> QED
    BY <2>1, <2>2, <2>3
<1>5. ASSUME w.todo # <<>>
      PROVE  /\ v \in Passes /\ v.pc = "next" /\ v.seen = w.seen /\ v.steady = w.steady
             /\ v.children = w.children /\ v.refused = w.refused /\ v.todo = Tail(w.todo)
  BY <1>4, <1>5 DEF Advance, Passes, Stages, Todos
<1>6. ASSUME w.todo # <<>> PROVE Head(w.todo) \in IndexDirs
  BY <1>4, <1>6 DEF IndexDirs
<1>7. ASSUME w.todo # <<>>
      PROVE  LET r == Refuse(w)
             IN /\ r \in Passes /\ r.pc = "next" /\ r.seen = w.seen /\ r.steady = w.steady
                /\ r.children = w.children /\ r.refused = w.refused \cup {Head(w.todo)}
                /\ r.todo = v.todo
  BY <1>2, <1>5, <1>6, <1>7 DEF Refuse, Passes
<1>8. ASSUME w.todo # <<>>
      PROVE  \/ Head(w.todo) = "sub" /\ Ahead(w) = {"root", "sub"} /\ Ahead(v) = {"root"}
             \/ Head(w.todo) = "root" /\ Ahead(w) = {"root"} /\ Ahead(v) = {}
  <2>1. CASE Head(w.todo) = "sub" /\ Tail(w.todo) = <<"root">>
                /\ DOMAIN w.todo = {1, 2} /\ w.todo[1] = "sub" /\ w.todo[2] = "root"
    <3>1. Ahead(w) = {"root", "sub"}
      BY <2>1 DEF Ahead
    <3>2. v.todo = <<"root">>
      BY <1>5, <1>8, <2>1
    <3> HIDE DEF v
    <3>3. Ahead(v) = {"root"}
      BY <3>2 DEF Ahead
    <3> QED
      BY <2>1, <3>1, <3>3 DEF v
  <2>2. CASE Head(w.todo) = "root" /\ Tail(w.todo) = <<>> /\ DOMAIN w.todo = {1} /\ w.todo[1] = "root"
    <3>1. Ahead(w) = {"root"}
      BY <2>2 DEF Ahead
    <3>2. v.todo = <<>>
      BY <1>5, <1>8, <2>2
    <3> HIDE DEF v
    <3>3. Ahead(v) = {}
      BY <3>2 DEF Ahead
    <3> QED
      BY <2>2, <3>1, <3>3 DEF v
  <2> QED
    BY <1>4, <1>8, <2>1, <2>2
<1>9. ASSUME w.todo # <<>> PROVE Ahead(Refuse(w)) = Ahead(v)
  BY <1>7, <1>9 DEF Ahead
<1> QED
  BY <1>1, <1>3, <1>5, <1>7, <1>8, <1>9

\* Names whose titles stay are listed as before.
LEMMA SameBlock ==
  ASSUME NEW names, \A n \in names : TitleOf(n)' = TitleOf(n)
  PROVE  Block(names)' = Block(names)
<1>1. {Item(n, TitleOf(n)') : n \in names} = {Item(n, TitleOf(n)) : n \in names}
  OBVIOUS
<1>2. Block(names)' = <<IndexLine("begin")>> \o Sorted({Item(n, TitleOf(n)') : n \in names}) \o <<IndexLine("end")>>
  BY DEF Block
<1> QED
  BY <1>1, <1>2 DEF Block

\* A pass rests while no file changes.
LEMMA PassRests ==
  ASSUME NEW w, UNCHANGED <<documents, title, index>>, Undisturbed(w),
         w.steady /\ w.pc = "rename" => temp'[Head(w.todo)] = w.content
  PROVE  Undisturbed(w)'
<1> SUFFICES ASSUME w.steady PROVE Undisturbed(w)'
  BY DEF Undisturbed
<1>1. \A d : Children(d)' = Children(d)
  BY DEF Children
<1>2. \A names : Block(names)' = Block(names)
  <2> TAKE names
  <2>1. \A n \in names : TitleOf(n)' = TitleOf(n)
    BY DEF TitleOf
  <2> QED
    BY <2>1, SameBlock
<1>3. \A d : Settled(w, d)' <=> Settled(w, d)
  <2> TAKE d
  <2>1. Block(Children(d))' = Block(Children(d))
    <3>1. Block(Children(d))' = <<IndexLine("begin")>> \o Sorted({Item(n, TitleOf(n)') : n \in Children(d)'}) \o <<IndexLine("end")>>
      BY DEF Block
    <3>2. \A n : TitleOf(n)' = TitleOf(n)
      BY DEF TitleOf
    <3>3. {Item(n, TitleOf(n)') : n \in Children(d)'} = {Item(n, TitleOf(n)) : n \in Children(d)}
      BY <1>1, <3>2
    <3> QED
      BY <3>1, <3>3 DEF Block
  <2>2. index'[d] = index[d]
    OBVIOUS
  <2> QED
    BY <1>1, <2>1, <2>2 DEF Settled
<1> QED
  BY <1>1, <1>2, <1>3 DEF Undisturbed

\* One run moves on, no index changes, and the temporary files of others stay.
LEMMA OneMoves ==
  ASSUME FixInv, NEW f \in Fixers, NEW v \in Passes \cup {IdleRun},
         fix' = [fix EXCEPT ![f] = v], UNCHANGED <<documents, title, index>>,
         temp' \in [IndexDirs -> Texts \cup {NoIndex}],
         \A g \in Fixers \ {f} : fix[g] # IdleRun /\ fix[g].steady /\ fix[g].pc = "rename"
            => temp'[Head(fix[g].todo)] = temp[Head(fix[g].todo)],
         v # IdleRun => HasContent(v) /\ Undisturbed(v)'
  PROVE  FixInv'
<1>1. FixTypeOK'
  BY DEF FixInv, FixTypeOK
<1>2. ASSUME NEW g \in Fixers, NEW w \in Passes, fix'[g] = w PROVE HasContent(w) /\ Undisturbed(w)'
  <2>1. CASE g = f
    <3>1. v = w
      BY <1>2, <2>1 DEF FixInv, FixTypeOK
    <3>2. w # IdleRun
      BY AheadIs
    <3> QED
      BY <3>1, <3>2
  <2>2. CASE g # f
    <3>1. fix[g] = w
      BY <1>2, <2>2 DEF FixInv, FixTypeOK
    <3>2. w # IdleRun /\ HasContent(w) /\ Undisturbed(w)
      BY <3>1, AheadIs DEF FixInv
    <3>3. w.steady /\ w.pc = "rename" => temp'[Head(w.todo)] = w.content
      BY <2>2, <3>1, <3>2 DEF Undisturbed
    <3> QED
      BY <3>2, <3>3, PassRests
  <2> QED
    BY <2>1, <2>2
<1> QED
  BY <1>1, <1>2 DEF FixInv

\* A run that is done with a directory, or refuses it, goes on.
LEMMA GoesOn ==
  ASSUME NEW w \in Passes, w.todo # <<>>, Undisturbed(w)
  PROVE  /\ (w.steady => Settled(w, Head(w.todo))) => Undisturbed(Advance(w))
         /\ Undisturbed(Refuse(w))
         /\ HasContent(Advance(w)) /\ HasContent(Refuse(w))
<1> DEFINE v == Advance(w)
           r == Refuse(w)
           h == Head(w.todo)
<1>1. /\ Ahead(v) \subseteq Ahead(w) /\ Ahead(w) \subseteq Ahead(v) \cup {h} /\ Ahead(r) = Ahead(v)
      /\ v.pc = "next" /\ v.seen = w.seen /\ v.steady = w.steady /\ v.children = w.children
      /\ v.refused = w.refused
      /\ r.pc = "next" /\ r.seen = w.seen /\ r.steady = w.steady /\ r.children = w.children
      /\ r.refused = w.refused \cup {h}
  BY AheadIs
<1>2. HasContent(v) /\ HasContent(r)
  BY <1>1 DEF HasContent
<1>3. \A d : (Settled(v, d) <=> Settled(w, d)) /\ (Settled(r, d) <=> Settled(w, d))
  BY <1>1 DEF Settled
<1> HIDE DEF v, r, h
<1>4. ASSUME w.steady => Settled(w, h) PROVE Undisturbed(v)
  BY <1>1, <1>3, <1>4 DEF Undisturbed
<1>5. Undisturbed(r)
  BY <1>1, <1>3 DEF Undisturbed
<1> QED
  BY <1>2, <1>4, <1>5 DEF v, r, h

\* What a run analyses is what there is.
LEMMA StartKeeps == \A f \in Fixers : FixInv /\ StartFix(f) => FixInv'
<1> SUFFICES ASSUME NEW f \in Fixers, FixInv, StartFix(f) PROVE FixInv'
  OBVIOUS
<1> DEFINE v == [pc |-> "next", todo |-> Order, seen |-> index, steady |-> TRUE, refused |-> {},
                 children |-> [d \in IndexDirs |-> Children(d)], content |-> NoIndex]
<1>1. FixTypeOK
  BY DEF FixInv
<1>2. fix' = [fix EXCEPT ![f] = v] /\ UNCHANGED <<documents, title, index, temp>>
  BY DEF StartFix
<1>3. v \in Passes
  <2>1. Order \in Todos
    BY DEF Order, Todos
  <2>2. [d \in IndexDirs |-> Children(d)] \in [IndexDirs -> SUBSET EntryNames]
    BY <1>1, ChildrenAre
  <2> QED
    BY <1>1, <2>1, <2>2 DEF Passes, Stages, FixTypeOK
<1>4. Ahead(v) = IndexDirs /\ v.pc = "next" /\ v.seen = index
      /\ v.children = [d \in IndexDirs |-> Children(d)]
  <2>1. v.todo = <<"sub", "root">>
    BY DEF Order
  <2>2. ASSUME NEW s, s = <<"sub", "root">> PROVE {s[i] : i \in DOMAIN s} = {"root", "sub"}
    BY <2>2
  <2> QED
    BY <2>1, <2>2 DEF Ahead, IndexDirs
<1> HIDE DEF v
<1>5. HasContent(v)
  BY <1>4 DEF HasContent
<1>6. \A w \in Passes : w = v => Undisturbed(w)'
  <2> SUFFICES ASSUME NEW w \in Passes, w = v PROVE Undisturbed(w)'
    OBVIOUS
  <2>1. Undisturbed(w)
    BY <1>4 DEF Undisturbed
  <2>2. w.pc # "rename"
    BY <1>4
  <2> QED
    BY <1>2, <2>1, <2>2, PassRests
<1>7. FixTypeOK'
  BY <1>1, <1>2, <1>3 DEF FixTypeOK
<1>8. ASSUME NEW g \in Fixers, NEW w \in Passes, fix'[g] = w PROVE HasContent(w) /\ Undisturbed(w)'
  <2>1. CASE g = f
    BY <1>1, <1>2, <1>5, <1>6, <1>8, <2>1 DEF FixTypeOK
  <2>2. CASE g # f
    <3>1. fix[g] = w
      BY <1>1, <1>2, <1>8, <2>2 DEF FixTypeOK
    <3>2. HasContent(w) /\ Undisturbed(w)
      BY <3>1 DEF FixInv
    <3>3. w.steady /\ w.pc = "rename" => temp'[Head(w.todo)] = w.content
      BY <1>2, <3>2 DEF Undisturbed
    <3> QED
      BY <1>2, <3>2, <3>3, PassRests
  <2> QED
    BY <2>1, <2>2
<1> QED
  BY <1>7, <1>8 DEF FixInv

\* A directory is passed, refused, or gets its listing written.
LEMMA VisitKeeps == \A f \in Fixers : FixInv /\ Visit(f) => FixInv'
<1> SUFFICES ASSUME NEW f \in Fixers, FixInv, Visit(f) PROVE FixInv'
  OBVIOUS
<1>1. FixTypeOK /\ fix[f].pc = "next" /\ fix[f].todo # <<>>
      /\ UNCHANGED <<documents, title, index, temp>>
  BY DEF FixInv, Visit
<1>2. fix[f] \in Passes
  BY <1>1 DEF FixTypeOK, IdleRun
<1>3. PICK w \in Passes : w = fix[f]
  BY <1>2
<1>4. HasContent(w) /\ Undisturbed(w)
  BY <1>3 DEF FixInv
<1> DEFINE d == Head(w.todo)
           c == w.seen[d]
           b == Block(w.children[d])
           sound == \/ w.children[d] = {}
                    \/ c # NoIndex /\ MissingEntries(c, w.children[d]) = {} /\ StaleEntries(c, w.children[d]) = {}
           x == [w EXCEPT !.pc = "write", !.content = Splice(c, b)]
<1>5. d \in IndexDirs /\ d \in Ahead(w)
  BY <1>1, <1>3, AheadIs, EntryNamesAre
<1>6. c \in Texts \cup {NoIndex} /\ w.children[d] \in SUBSET EntryNames
  BY <1>5 DEF Passes
<1>7. \/ sound /\ fix' = [fix EXCEPT ![f] = Advance(w)]
      \/ c # NoIndex /\ MalformedMarkers(c) /\ fix' = [fix EXCEPT ![f] = Refuse(w)]
      \/ ~sound /\ ~(c # NoIndex /\ MalformedMarkers(c)) /\ fix' = [fix EXCEPT ![f] = x]
  BY <1>3 DEF Visit
<1>8. temp' \in [IndexDirs -> Texts \cup {NoIndex}] /\ temp' = temp
  BY <1>1 DEF FixTypeOK
<1>9. CASE sound /\ fix' = [fix EXCEPT ![f] = Advance(w)]
  <2>1. w.steady => Settled(w, d)
    <3> SUFFICES ASSUME w.steady PROVE Settled(w, d)
      OBVIOUS
    <3>1. index[d] = c /\ Children(d) = w.children[d]
      BY <1>4, <1>5 DEF Undisturbed
    <3> QED
      BY <1>9, <3>1 DEF Settled
  <2>2. PICK v \in Passes : v = Advance(w)
    BY <1>1, <1>3, AheadIs
  <2>3. Undisturbed(v) /\ HasContent(v) /\ v.pc = "next"
    BY <1>1, <1>3, <1>4, <2>1, <2>2, GoesOn, AheadIs
  <2>4. Undisturbed(v)'
    BY <1>1, <2>3, PassRests
  <2> QED
    BY <1>1, <1>8, <1>9, <2>2, <2>3, <2>4, OneMoves
<1>10. CASE fix' = [fix EXCEPT ![f] = Refuse(w)]
  <2>2. PICK v \in Passes : v = Refuse(w)
    BY <1>1, <1>3, AheadIs
  <2>3. Undisturbed(v) /\ HasContent(v) /\ v.pc = "next"
    BY <1>1, <1>3, <1>4, <2>2, GoesOn, AheadIs
  <2>4. Undisturbed(v)'
    BY <1>1, <2>3, PassRests
  <2> QED
    BY <1>1, <1>8, <1>10, <2>2, <2>3, <2>4, OneMoves
<1>11. CASE ~sound /\ ~(c # NoIndex /\ MalformedMarkers(c)) /\ fix' = [fix EXCEPT ![f] = x]
  <2>1. b \in Texts /\ Listing(b)
    BY <1>1, <1>6, ListingOfNames
  <2>2. Splice(c, b) \in Texts
    BY <1>6, <1>11, <2>1, SpliceIs
  <2>3. x \in Passes /\ x.pc = "write" /\ x.content = Splice(c, b) /\ x.todo = w.todo /\ x.seen = w.seen
        /\ x.steady = w.steady /\ x.children = w.children /\ x.refused = w.refused
    BY <2>2 DEF Passes, Stages
  <2>4. PICK v \in Passes : v = x
    BY <2>3
  <2>5. HasContent(v)
    BY <1>1, <1>3, <1>11, <2>1, <2>2, <2>3, <2>4 DEF HasContent
  <2>6. Undisturbed(v)
    <3>1. Ahead(v) = Ahead(w) /\ \A e : Settled(v, e) <=> Settled(w, e)
      BY <2>3, <2>4 DEF Ahead, Settled
    <3>2. w.children[d] # {}
      BY <1>11
    <3>3. v.pc = "write" /\ v.content = Splice(c, b) /\ Head(v.todo) = d /\ v.seen[d] = c
          /\ v.children[d] = w.children[d] /\ v.seen = w.seen
          /\ v.steady = w.steady /\ v.children = w.children /\ v.refused = w.refused
      BY <2>3, <2>4
    <3> HIDE DEF c, x, d
    <3> QED
      BY <1>4, <3>1, <3>2, <3>3 DEF Undisturbed
  <2>7. Undisturbed(v)'
    BY <1>1, <2>3, <2>4, <2>6, PassRests
  <2> QED
    BY <1>1, <1>8, <1>11, <2>4, <2>5, <2>7, OneMoves
<1> QED
  BY <1>7, <1>9, <1>10, <1>11

\* A temporary file belongs to the run that made it, until somebody disturbs it.
LEMMA WriteTempKeeps == \A f \in Fixers : FixInv /\ WriteTemp(f) => FixInv'
<1> SUFFICES ASSUME NEW f \in Fixers, FixInv, WriteTemp(f) PROVE FixInv'
  OBVIOUS
<1>1. FixTypeOK /\ fix[f].pc = "write" /\ UNCHANGED <<documents, title, index>>
  BY DEF FixInv, WriteTemp
<1>2. fix[f] \in Passes
  BY <1>1 DEF FixTypeOK, IdleRun
<1>3. PICK w \in Passes : w = fix[f]
  BY <1>2
<1>4. HasContent(w) /\ Undisturbed(w) /\ w.pc = "write"
  BY <1>1, <1>3 DEF FixInv
<1> DEFINE d == Head(w.todo)
           x == [w EXCEPT !.pc = "rename"]
<1>5. w.todo # <<>> /\ w.content \in Texts
  BY <1>4 DEF HasContent
<1>6. d \in IndexDirs
  BY <1>5, AheadIs, EntryNamesAre
<1>7. \/ temp[d] = NoIndex /\ temp' = [temp EXCEPT ![d] = w.content] /\ fix' = [fix EXCEPT ![f] = x]
      \/ temp' = temp /\ fix' = [fix EXCEPT ![f] = Refuse(w)]
  <2>1. temp[d] = NoIndex => temp' = [temp EXCEPT ![d] = w.content] /\ fix' = [fix EXCEPT ![f].pc = "rename"]
    BY <1>3 DEF WriteTemp
  <2>2. temp[d] # NoIndex => temp' = temp /\ fix' = [fix EXCEPT ![f] = Refuse(w)]
    BY <1>3 DEF WriteTemp
  <2>3. [fix EXCEPT ![f].pc = "rename"] = [fix EXCEPT ![f] = x]
    BY <1>3
  <2> QED
    BY <2>1, <2>2, <2>3
<1>8. CASE temp[d] = NoIndex /\ temp' = [temp EXCEPT ![d] = w.content] /\ fix' = [fix EXCEPT ![f] = x]
  <2>1. temp' \in [IndexDirs -> Texts \cup {NoIndex}] /\ temp'[d] = w.content
        /\ \A e \in IndexDirs : e # d => temp'[e] = temp[e]
    BY <1>1, <1>5, <1>6, <1>8 DEF FixTypeOK
  <2>2. x \in Passes /\ x.pc = "rename" /\ x.content = w.content /\ x.todo = w.todo /\ x.seen = w.seen
        /\ x.steady = w.steady /\ x.children = w.children /\ x.refused = w.refused
    BY DEF Passes, Stages
  <2>3. PICK v \in Passes : v = x
    BY <2>2
  <2>4. HasContent(v)
    BY <1>4, <2>2, <2>3 DEF HasContent
  <2>5. Undisturbed(v)'
    <3>1. Undisturbed(w)'
      BY <1>1, <1>4, PassRests
    <3>2. Ahead(v) = Ahead(w) /\ \A e : Settled(v, e)' <=> Settled(w, e)'
      BY <2>2, <2>3 DEF Ahead, Settled
    <3>3. v.pc = "rename" /\ v.content = w.content /\ v.todo = w.todo /\ v.seen = w.seen
          /\ v.steady = w.steady /\ v.children = w.children /\ v.refused = w.refused
      BY <2>2, <2>3
    <3>4. temp'[Head(v.todo)] = v.content
      BY <2>1, <3>3
    <3> QED
      BY <1>4, <3>1, <3>2, <3>3, <3>4 DEF Undisturbed
  <2>6. ASSUME NEW g \in Fixers \ {f}, fix[g] # IdleRun, fix[g].steady, fix[g].pc = "rename"
        PROVE  temp'[Head(fix[g].todo)] = temp[Head(fix[g].todo)]
    <3>1. PICK u \in Passes : u = fix[g]
      BY <1>1, <2>6 DEF FixTypeOK
    <3>2. HasContent(u) /\ Undisturbed(u)
      BY <3>1 DEF FixInv
    <3>3. u.todo # <<>> /\ u.content \in Texts /\ temp[Head(u.todo)] = u.content
      BY <2>6, <3>1, <3>2 DEF HasContent, Undisturbed
    <3>4. temp[Head(u.todo)] # NoIndex
      BY <3>3, EntryNamesAre
    <3>5. Head(u.todo) \in IndexDirs
      BY <3>3, AheadIs, EntryNamesAre
    <3> QED
      BY <1>8, <2>1, <3>1, <3>4, <3>5
  <2> QED
    BY <1>1, <1>8, <2>1, <2>3, <2>4, <2>5, <2>6, OneMoves
<1>9. CASE temp' = temp /\ fix' = [fix EXCEPT ![f] = Refuse(w)]
  <2>1. PICK v \in Passes : v = Refuse(w)
    BY <1>5, AheadIs
  <2>2. Undisturbed(v) /\ HasContent(v) /\ v.pc = "next"
    BY <1>4, <1>5, <2>1, GoesOn, AheadIs
  <2>3. Undisturbed(v)'
    BY <1>1, <2>2, PassRests
  <2>4. temp' \in [IndexDirs -> Texts \cup {NoIndex}]
    BY <1>1, <1>9 DEF FixTypeOK
  <2> QED
    BY <1>1, <1>9, <2>1, <2>2, <2>3, <2>4, OneMoves
<1> QED
  BY <1>7, <1>8, <1>9

\* A run that ends leaves the files.
LEMMA EndsKeep == \A f \in Fixers : FixInv /\ (Report(f) \/ KillFix(f)) => FixInv'
<1> SUFFICES ASSUME NEW f \in Fixers, FixInv, Report(f) \/ KillFix(f) PROVE FixInv'
  OBVIOUS
<1>1. fix' = [fix EXCEPT ![f] = IdleRun] /\ UNCHANGED <<documents, title, index, temp>>
  BY DEF Report, KillFix
<1>2. temp' \in [IndexDirs -> Texts \cup {NoIndex}]
  BY <1>1 DEF FixInv, FixTypeOK
<1> QED
  BY <1>1, <1>2, OneMoves

\* The runs that a change of the files disturbs.
LEMMA Disturbed ==
  ASSUME FixInv, NEW g \in Fixers
  PROVE  /\ Unsteady[g] \in Passes \cup {IdleRun}
         /\ \A w \in Passes : Unsteady[g] = w => HasContent(w) /\ ~w.steady
<1>1. fix[g] \in Passes \cup {IdleRun}
  BY DEF FixInv, FixTypeOK
<1>2. CASE fix[g] = IdleRun
  <2>1. Unsteady[g] = IdleRun
    BY <1>2 DEF Unsteady, IdleRun
  <2> QED
    BY <2>1, AheadIs
<1>3. CASE fix[g] \in Passes
  <2>1. PICK u \in Passes : u = fix[g]
    BY <1>3
  <2> DEFINE x == [u EXCEPT !.steady = FALSE]
  <2>2. Unsteady[g] = x
    BY <2>1, AheadIs DEF Unsteady
  <2>3. x \in Passes /\ x.steady = FALSE /\ x.pc = u.pc /\ x.todo = u.todo /\ x.seen = u.seen
        /\ x.content = u.content
    BY DEF Passes
  <2>4. HasContent(u)
    BY <2>1 DEF FixInv
  <2> HIDE DEF x
  <2>5. HasContent(x)
    BY <2>3, <2>4 DEF HasContent
  <2> QED
    BY <2>2, <2>3, <2>5
<1> QED
  BY <1>1, <1>2, <1>3

\* A change of the files by somebody else.
LEMMA AuthorKeeps == FixInv /\ Author => FixInv'
<1> SUFFICES ASSUME FixInv, Author PROVE FixInv'
  OBVIOUS
<1>1. FixTypeOK
  BY DEF FixInv
<1>2. fix' = Unsteady
  BY DEF Author, TypeText, ClearTemp, AddOrRemove, Retitle, Edit
<1>3. /\ documents' \in SUBSET (RootDocs \cup SubDocs)
      /\ title' \in [RootDocs \cup SubDocs -> ToSet(Alphabet)]
      /\ index' \in [IndexDirs -> Texts \cup {NoIndex}]
      /\ temp' \in [IndexDirs -> Texts \cup {NoIndex}]
  <2>1. ASSUME NEW d \in IndexDirs, TypeText(d) PROVE <1>3!:
    <3>1. index[d] \in Texts /\ IndexLine("text") \in IndexLines
      BY <1>1, <2>1, MarkersAreLines DEF TypeText, Edit, FixTypeOK, LineKinds
    <3>2. Append(index[d], IndexLine("text")) \in Texts
      BY <3>1 DEF Texts
    <3> QED
      BY <1>1, <2>1, <3>2 DEF TypeText, Edit, FixTypeOK
  <2>2. ASSUME NEW d \in IndexDirs, ClearTemp(d) PROVE <1>3!:
    BY <1>1, <2>2 DEF ClearTemp, Edit, FixTypeOK
  <2>3. ASSUME NEW n \in RootDocs \cup SubDocs, AddOrRemove(n) PROVE <1>3!:
    BY <1>1, <2>3 DEF AddOrRemove, Edit, FixTypeOK
  <2>4. ASSUME NEW n \in RootDocs \cup SubDocs, Retitle(n) PROVE <1>3!:
    <3>1. Titles[n] \subseteq ToSet(Alphabet)
      BY IndexFixAssumption
    <3>2. PICK t \in Titles[n] : title' = [title EXCEPT ![n] = t]
      BY <2>4 DEF Retitle, Edit
    <3> QED
      BY <1>1, <2>4, <3>1, <3>2 DEF Retitle, Edit, FixTypeOK
  <2> QED
    BY <2>1, <2>2, <2>3, <2>4 DEF Author
<1>4. fix' \in [Fixers -> Passes \cup {IdleRun}]
  <2>1. \A g \in Fixers : Unsteady[g] \in Passes \cup {IdleRun}
    BY Disturbed
  <2> QED
    BY <1>2, <2>1 DEF Unsteady
<1>5. ASSUME NEW g \in Fixers, NEW w \in Passes, fix'[g] = w PROVE HasContent(w) /\ Undisturbed(w)'
  BY <1>2, <1>5, Disturbed DEF Undisturbed
<1> QED
  BY <1>3, <1>4, <1>5 DEF FixInv, FixTypeOK

\* A listing that takes the place of an index leaves its directory settled.
LEMMA RenameKeeps == \A f \in Fixers : FixInv /\ Rename(f) => FixInv'
<1> SUFFICES ASSUME NEW f \in Fixers, FixInv, Rename(f) PROVE FixInv'
  OBVIOUS
<1>1. FixTypeOK /\ fix[f].pc = "rename" /\ documents' = documents /\ title' = title
  BY DEF FixInv, Rename
<1>2. fix[f] \in Passes
  BY <1>1 DEF FixTypeOK, IdleRun
<1>3. PICK w \in Passes : w = fix[f]
  BY <1>2
<1>4. HasContent(w) /\ Undisturbed(w) /\ w.pc = "rename"
  BY <1>1, <1>3 DEF FixInv
<1> DEFINE d == Head(w.todo)
           c == w.seen[d]
           names == w.children[d]
           b == Block(names)
<1>5. w.todo # <<>> /\ w.content \in Texts
  BY <1>4 DEF HasContent
<1>6. d \in IndexDirs /\ c \in Texts \cup {NoIndex} /\ names \in SUBSET EntryNames
      /\ (c # NoIndex => ~MalformedMarkers(c))
  <2>1. d \in IndexDirs
    BY <1>5, AheadIs, EntryNamesAre
  <2> QED
    BY <1>4, <2>1 DEF Passes, HasContent
<1>7. CASE temp[d] = NoIndex
  <2>1. fix' = [fix EXCEPT ![f] = IdleRun] /\ UNCHANGED <<index, temp>>
    BY <1>3, <1>7 DEF Rename
  <2>2. temp' \in [IndexDirs -> Texts \cup {NoIndex}]
    BY <1>1, <2>1 DEF FixTypeOK
  <2> QED
    BY <1>1, <2>1, <2>2, OneMoves
<1>8. CASE temp[d] # NoIndex
  <2>1. /\ index' = [index EXCEPT ![d] = temp[d]] /\ temp' = [temp EXCEPT ![d] = NoIndex]
        /\ fix' = [Unsteady EXCEPT ![f] = Advance(w)]
    BY <1>3, <1>8 DEF Rename
  <2>2. index'[d] = temp[d] /\ \A e \in IndexDirs : e # d => index'[e] = index[e]
    BY <1>1, <1>6, <2>1 DEF FixTypeOK
  <2>3. PICK v \in Passes : v = Advance(w)
    BY <1>5, AheadIs
  <2>4. /\ v.pc = "next" /\ v.seen = w.seen /\ v.steady = w.steady
        /\ v.children = w.children /\ v.refused = w.refused
        /\ \/ d = "sub" /\ Ahead(w) = {"root", "sub"} /\ Ahead(v) = {"root"}
           \/ d = "root" /\ Ahead(w) = {"root"} /\ Ahead(v) = {}
    BY <1>5, <2>3, AheadIs
  <2>5. HasContent(v)
    BY <2>4 DEF HasContent
  <2>6. FixTypeOK'
    <3>1. index' \in [IndexDirs -> Texts \cup {NoIndex}] /\ temp' \in [IndexDirs -> Texts \cup {NoIndex}]
      BY <1>1, <1>6, <2>1 DEF FixTypeOK
    <3>2. \A g \in Fixers : Unsteady[g] \in Passes \cup {IdleRun}
      BY Disturbed
    <3>3. fix' \in [Fixers -> Passes \cup {IdleRun}]
      BY <2>1, <2>3, <3>2 DEF Unsteady
    <3> QED
      BY <1>1, <3>1, <3>3 DEF FixTypeOK
  <2>7. ASSUME w.steady PROVE Undisturbed(v)'
    <3> HIDE DEF d, c, names, b
    <3>1. /\ \A e \in IndexDirs : w.children[e] = Children(e)
          /\ \A e \in Ahead(w) : index[e] = w.seen[e]
          /\ names # {} /\ w.content = Splice(c, b) /\ temp[d] = w.content
          /\ \A e \in IndexDirs \ (Ahead(w) \cup w.refused) : Settled(w, e)
      BY <1>4, <2>7 DEF Undisturbed, d, c, names, b
    <3>2. \A e \in IndexDirs : Children(e)' = Children(e)
      <4>1. Children("sub")' = Children("sub")
        BY <1>1 DEF Children
      <4>2. Children("root")' = Children("root")
        <5>1. CASE d = "root"
          <6>1. index'["sub"] = index["sub"]
            BY <2>2, <5>1, EntryNamesAre
          <6> QED
            BY <1>1, <6>1 DEF Children
        <5>2. CASE d = "sub"
          <6>1. documents \cap SubDocs # {}
            BY <3>1, <5>2, EntryNamesAre DEF Children, names
          <6> QED
            BY <1>1, <6>1 DEF Children
        <5> QED
          BY <2>4, <5>1, <5>2
      <4> QED
        BY <4>1, <4>2, EntryNamesAre
    <3>3. \A n \in RootDocs \cup SubDocs : TitleOf(n)' = TitleOf(n)
      <4> TAKE n \in RootDocs \cup SubDocs
      <4>1. n # "sub"
        BY EntryNamesAre
      <4> QED
        BY <1>1, <4>1 DEF TitleOf
    <3>4. Children("sub") \subseteq RootDocs \cup SubDocs
      BY <1>1 DEF Children, FixTypeOK
    <3>5. Block(Children("sub"))' = Block(Children("sub"))
      <4>1. {Item(n, TitleOf(n)') : n \in Children("sub")'} = {Item(n, TitleOf(n)) : n \in Children("sub")}
        BY <3>2, <3>3, <3>4, EntryNamesAre
      <4>2. Block(Children("sub"))' = <<IndexLine("begin")>> \o Sorted({Item(n, TitleOf(n)') : n \in Children("sub")'}) \o <<IndexLine("end")>>
        BY DEF Block
      <4> QED
        BY <4>1, <4>2 DEF Block
    <3>6. d = "root" => Block(Children("root"))' = Block(Children("root"))
      <4> SUFFICES ASSUME d = "root" PROVE Block(Children("root"))' = Block(Children("root"))
        OBVIOUS
      <4>1. index'["sub"] = index["sub"]
        BY <2>2, EntryNamesAre
      <4>2. \A n : TitleOf(n)' = TitleOf(n)
        BY <1>1, <4>1 DEF TitleOf
      <4>3. {Item(n, TitleOf(n)') : n \in Children("root")'} = {Item(n, TitleOf(n)) : n \in Children("root")}
        BY <3>2, <4>2, EntryNamesAre
      <4>4. Block(Children("root"))' = <<IndexLine("begin")>> \o Sorted({Item(n, TitleOf(n)') : n \in Children("root")'}) \o <<IndexLine("end")>>
        BY DEF Block
      <4> QED
        BY <4>3, <4>4 DEF Block
    <3>7. Children(d)' = names /\ Block(Children(d))' = b /\ index'[d] = Splice(c, b) /\ v.seen[d] = c
      <4>1. Children(d)' = names /\ Children(d) = names
        BY <1>6, <3>1, <3>2 DEF names
      <4>2. CASE d = "sub"
        <5>1. Block(Children("sub"))' = b
          BY <3>5, <4>1, <4>2 DEF b
        <5> QED
          BY <2>2, <2>4, <3>1, <4>1, <4>2, <5>1 DEF c
      <4>3. CASE d = "root"
        <5>1. Block(Children("root"))' = b
          BY <3>6, <4>1, <4>3 DEF b
        <5> QED
          BY <2>2, <2>4, <3>1, <4>1, <4>3, <5>1 DEF c
      <4> QED
        BY <2>4, <4>2, <4>3
    <3>8. Settled(v, d)'
      <4>1. /\ b \in Texts /\ Listing(b)
            /\ \A k \in 2..(Len(b) - 1) : b[k][2] \in names
            /\ \A m \in names : \E k \in 2..(Len(b) - 1) : b[k][2] = m
        BY <1>1, <1>6, ListingOfNames DEF b
      <4> DEFINE new == Splice(c, b)
      <4>2. ASSUME ~Swallows(c)
            PROVE  /\ Splice(new, b) = new /\ MissingEntries(new, names) = {}
                   /\ \A n \in StaleEntries(new, names) :
                        \E i \in Plain(new, {"item"}) : new[i][2] = n /\ i \notin Region(new)
        BY <1>6, <4>1, <4>2, SpliceSettles
      <4>3. new # NoIndex
        BY <1>5, <3>1, EntryNamesAre
      <4> HIDE DEF new
      <4>4. index'[d] = new
        BY <3>7 DEF new
      <4> QED
        BY <3>7, <4>2, <4>3, <4>4 DEF Settled
    <3>9. ASSUME NEW e \in IndexDirs \ (Ahead(v) \cup v.refused), e # d PROVE Settled(v, e)'
      <4>1. e = "sub" /\ d = "root" /\ e \notin Ahead(w) /\ e \notin w.refused
        BY <2>4, <3>9, EntryNamesAre
      <4>2. Settled(w, "sub")
        BY <3>1, <4>1, EntryNamesAre
      <4>3. index'["sub"] = index["sub"] /\ Children("sub")' = Children("sub") /\ v.seen = w.seen
        BY <2>2, <2>4, <3>2, <4>1, EntryNamesAre
      <4>4. Settled(v, "sub")'
        BY <3>5, <4>2, <4>3 DEF Settled
      <4> QED
        BY <4>1, <4>4
    <3>10. \A e \in Ahead(v) : index'[e] = v.seen[e]
      BY <2>2, <2>4, <3>1, EntryNamesAre
    <3>11. \A e \in IndexDirs \ (Ahead(v) \cup v.refused) : Settled(v, e)'
      <4> TAKE e \in IndexDirs \ (Ahead(v) \cup v.refused)
      <4>1. CASE e = d
        <5>1. e = d /\ (d = "sub" \/ d = "root")
          BY <2>4, <4>1
        <5> QED
          BY <3>8, <4>1 DEF Settled
      <4> QED
        BY <3>9, <4>1
    <3> QED
      BY <2>4, <3>1, <3>2, <3>10, <3>11 DEF Undisturbed
  <2>8. Undisturbed(v)'
    <3>1. CASE w.steady
      BY <2>7, <3>1
    <3>2. CASE ~w.steady
      BY <2>4, <3>2 DEF Undisturbed
    <3> QED
      BY <3>1, <3>2
  <2>9. ASSUME NEW g \in Fixers, NEW u \in Passes, fix'[g] = u PROVE HasContent(u) /\ Undisturbed(u)'
    <3>1. CASE g = f
      <4>1. u = v
        BY <2>1, <2>3, <2>9, <3>1 DEF Unsteady
      <4> QED
        BY <2>5, <2>8, <4>1
    <3>2. CASE g # f
      <4>1. Unsteady[g] = u
        BY <2>1, <2>9, <3>2 DEF Unsteady
      <4>2. HasContent(u) /\ ~u.steady
        BY <4>1, Disturbed
      <4> QED
        BY <4>2 DEF Undisturbed
    <3> QED
      BY <3>1, <3>2
  <2> QED
    BY <2>6, <2>9 DEF FixInv
<1> QED
  BY <1>7, <1>8

\* No run has begun.
LEMMA FixInitially == FixInit => FixInv
<1> SUFFICES ASSUME FixInit PROVE FixInv
  OBVIOUS
<1>1. documents \in SUBSET (RootDocs \cup SubDocs) /\ title \in [RootDocs \cup SubDocs -> ToSet(Alphabet)]
  BY DEF FixInit
<1>2. index \in [IndexDirs -> Texts \cup {NoIndex}]
  <2>1. PICK c \in HandWritten \cup {NoIndex}, s \in {NoIndex, <<Intro>>} : index = [root |-> c, sub |-> s]
    BY DEF FixInit
  <2>2. c \in Texts \cup {NoIndex} /\ s \in Texts \cup {NoIndex}
    BY EntryNamesAre, IntroIs
  <2> QED
    BY <2>1, <2>2 DEF IndexDirs
<1>3. temp \in [IndexDirs -> Texts \cup {NoIndex}] /\ fix = [f \in Fixers |-> IdleRun]
  BY DEF FixInit
<1>4. FixTypeOK
  BY <1>1, <1>2, <1>3 DEF FixTypeOK
<1>5. \A f \in Fixers : fix[f] = IdleRun
  BY <1>3
<1> QED
  BY <1>4, <1>5, AheadIs DEF FixInv

\* Every step keeps the invariant.
LEMMA FixGoesOn == FixInv /\ [FixNext]_fixVars => FixInv'
<1> SUFFICES ASSUME FixInv, [FixNext]_fixVars PROVE FixInv'
  OBVIOUS
<1>1. ASSUME NEW f \in Fixers, Run(f) PROVE FixInv'
  BY <1>1, StartKeeps, VisitKeeps, WriteTempKeeps, RenameKeeps, EndsKeep DEF Run
<1>2. CASE Author
  BY <1>2, AuthorKeeps
<1>3. CASE UNCHANGED fixVars
  <2>1. UNCHANGED <<documents, title, index, temp, fix>>
    BY <1>3 DEF fixVars
  <2>2. FixTypeOK'
    BY <2>1 DEF FixInv, FixTypeOK
  <2>3. ASSUME NEW g \in Fixers, NEW w \in Passes, fix'[g] = w PROVE HasContent(w) /\ Undisturbed(w)'
    <3>1. HasContent(w) /\ Undisturbed(w)
      BY <2>1, <2>3 DEF FixInv
    <3>2. w.steady /\ w.pc = "rename" => temp'[Head(w.todo)] = w.content
      BY <2>1, <3>1 DEF Undisturbed
    <3> QED
      BY <2>1, <3>1, <3>2, PassRests
  <2> QED
    BY <2>2, <2>3 DEF FixInv
<1> QED
  BY <1>1, <1>2, <1>3 DEF FixNext

\* A run that has passed both directories has settled them.
LEMMA FixHolds == FixInv => FixSettles
<1> SUFFICES ASSUME FixInv, NEW f \in Fixers, fix[f].pc = "next", fix[f].todo = <<>>, fix[f].steady,
                    NEW d \in IndexDirs \ fix[f].refused
             PROVE  Settled(fix[f], d)
  BY DEF FixSettles, Settled
<1>1. fix[f] \in Passes
  BY DEF FixInv, FixTypeOK, IdleRun
<1>2. PICK w \in Passes : w = fix[f]
  BY <1>1
<1>3. Undisturbed(w) /\ Ahead(w) = {}
  BY <1>2, AheadIs DEF FixInv
<1> QED
  BY <1>2, <1>3 DEF Undisturbed

\* For any documents, titles, indexes, runs and authors: what an undisturbed run has
\* passed, the check is content with, and a further run would leave as it is.
THEOREM FixesSettle == FixSpec => []FixSettles
<1>1. FixInit => FixInv
  BY FixInitially
<1>2. FixInv /\ [FixNext]_fixVars => FixInv'
  BY FixGoesOn
<1>3. FixInv => FixSettles
  BY FixHolds
<1> QED
  BY <1>1, <1>2, <1>3, PTL DEF FixSpec

\* Only the rename of a run ends its writing.
LEMMA OnlyRenames ==
  ASSUME FixInv, FixNext, NEW f \in Fixers, fix[f].pc = "rename", fix'[f].pc = "next"
  PROVE  Rename(f) /\ temp[Head(fix[f].todo)] # NoIndex
<1>1. fix[f] \in Passes /\ fix \in [Fixers -> Passes \cup {IdleRun}]
  BY DEF FixInv, FixTypeOK, IdleRun
<1>2. Unsteady[f].pc = "rename"
  <2>1. PICK u \in Passes : u = fix[f]
    BY <1>1
  <2>2. Unsteady[f] = [u EXCEPT !.steady = FALSE]
    BY <2>1, AheadIs DEF Unsteady
  <2> QED
    BY <2>1, <2>2 DEF Passes
<1>3. ~Author
  <2>1. Author => fix' = Unsteady
    BY DEF Author, TypeText, ClearTemp, AddOrRemove, Retitle, Edit
  <2> QED
    BY <1>2, <2>1
<1>4. PICK g \in Fixers : Run(g)
  BY <1>3 DEF FixNext
<1>5. CASE g = f
  <2>1. ~StartFix(f) /\ ~Visit(f) /\ ~WriteTemp(f)
    BY DEF StartFix, Visit, WriteTemp
  <2>2. ~Report(f) /\ ~KillFix(f)
    <3>1. Report(f) \/ KillFix(f) => fix'[f] = IdleRun
      BY <1>1 DEF Report, KillFix
    <3> QED
      BY <3>1 DEF IdleRun
  <2>3. Rename(f)
    BY <1>4, <1>5, <2>1, <2>2 DEF Run
  <2>4. temp[Head(fix[f].todo)] = NoIndex => fix'[f] = IdleRun
    BY <1>1, <2>3 DEF Rename
  <2> QED
    BY <2>3, <2>4 DEF IdleRun
<1>6. CASE g # f
  <2>1. fix'[f] = fix[f] \/ fix'[f] = Unsteady[f]
    <3>1. CASE Rename(g)
      <4>1. \/ fix' = [fix EXCEPT ![g] = IdleRun]
            \/ fix' = [Unsteady EXCEPT ![g] = Advance(fix[g])]
        BY <3>1 DEF Rename
      <4> QED
        BY <1>1, <1>6, <4>1 DEF Unsteady
    <3>2. CASE StartFix(g)
      BY <1>1, <1>6, <3>2 DEF StartFix
    <3>3. CASE Visit(g)
      BY <1>1, <1>6, <3>3 DEF Visit
    <3>4. CASE WriteTemp(g)
      BY <1>1, <1>6, <3>4 DEF WriteTemp
    <3>5. CASE Report(g) \/ KillFix(g)
      BY <1>1, <1>6, <3>5 DEF Report, KillFix
    <3> QED
      BY <1>4, <3>1, <3>2, <3>3, <3>4, <3>5 DEF Run
  <2> QED
    BY <1>2, <2>1
<1> QED
  BY <1>5, <1>6

\* What is renamed is what was read, but for the listing.
LEMMA RenameKeepsText ==
  ASSUME FixInv, FixNext, NEW f \in Fixers, fix[f].pc = "rename", fix'[f].pc = "next",
         fix[f].seen[Head(fix[f].todo)] = index[Head(fix[f].todo)],
         temp[Head(fix[f].todo)] = fix[f].content
  PROVE  LET d == Head(fix[f].todo)
         IN  OnlyTheListing(IF index[d] = NoIndex THEN <<Intro>> ELSE index[d], index'[d])
<1> DEFINE d == Head(fix[f].todo)
<1>1. Rename(f) /\ temp[d] # NoIndex
  BY OnlyRenames
<1>2. fix[f] \in Passes /\ FixTypeOK
  BY DEF FixInv, FixTypeOK, IdleRun
<1>3. PICK w \in Passes : w = fix[f]
  BY <1>2
<1>4. HasContent(w)
  BY <1>3 DEF FixInv
<1>5. w.todo # <<>> /\ d = Head(w.todo)
  BY <1>3, <1>4 DEF HasContent
<1>6. d \in IndexDirs
  BY <1>5, AheadIs, EntryNamesAre
<1>7. index'[d] = w.content
  <2>1. index' = [index EXCEPT ![d] = temp[d]]
    BY <1>1 DEF Rename
  <2> QED
    BY <1>2, <1>3, <1>6, <2>1 DEF FixTypeOK
<1>8. PICK b \in Texts : Listing(b) /\ w.content = Splice(index[d], b)
  BY <1>3, <1>4, <1>5 DEF HasContent
<1>9. index[d] \in Texts \cup {NoIndex} /\ (index[d] # NoIndex => ~MalformedMarkers(index[d]))
  <2>1. w.seen[d] = index[d]
    BY <1>3
  <2> HIDE DEF d
  <2> QED
    BY <1>2, <1>3, <1>4, <1>5, <1>6, <2>1 DEF HasContent, FixTypeOK
<1>10. OnlyTheListing(Origin(index[d]), Splice(index[d], b))
  BY <1>8, <1>9, SpliceIs
<1> QED
  BY <1>7, <1>8, <1>10 DEF Origin

\* For any documents, titles, indexes, runs and authors: a rewrite changes nothing of
\* the index it read but the listing.
THEOREM RewritesKeepTheText == FixSpec => AuthorsKeepTheirText
<1> DEFINE Stays ==
      \A f \in Fixers :
        LET w == fix[f]
            d == Head(w.todo)
        IN (w.pc = "rename" /\ fix'[f].pc = "next" /\ w.seen[d] = index[d] /\ temp[d] = w.content)
             => OnlyTheListing(IF index[d] = NoIndex THEN <<Intro>> ELSE index[d], index'[d])
<1>1. FixInit => FixInv
  BY FixInitially
<1>2. FixInv /\ [FixNext]_fixVars => FixInv'
  BY FixGoesOn
<1>3. FixInv /\ [FixNext]_fixVars => [Stays]_fixVars
  <2> SUFFICES ASSUME FixInv, FixNext PROVE Stays
    OBVIOUS
  <2> QED
    BY RenameKeepsText
<1>4. AuthorsKeepTheirText <=> [][Stays]_fixVars
  BY DEF AuthorsKeepTheirText
<1> QED
  BY <1>1, <1>2, <1>3, <1>4, PTL DEF FixSpec

=============================================================================
