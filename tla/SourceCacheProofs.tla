-------------------------- MODULE SourceCacheProofs --------------------------
(***************************************************************************)
(* What a read through a cache returns, and that a removed cache stays     *)
(* removed, for any number of commands, commits, edits and failures.       *)
(***************************************************************************)
EXTENDS SourceCache, TLAPS

\* Commands with a source to read, and those of them that are renewing its cache.
Reading == {"wait", "check", "drop_directory", "drop_metadata", "populate", "publish",
            "read", "store", "recheck"}
Renewing == {"drop_directory", "drop_metadata", "populate", "publish"}

Source(t) == snapshot[t].source

\* The files of a cache, when there are any, are of the commit its metadata names.
CacheMatches(r) ==
  metadata[r] # None /\ metadata[r].strategy # "local"
    => directory[r] \in {Absent, {}, {metadata[r].commit}}

\* What a command knows of the cache it works on, by where it is.
Task(t) ==
  /\ pc[t] \in Reading => Source(t) # None /\ root[t] = RootOf(Source(t))
  /\ pc[t] \in Renewing => ~swept[root[t]]
  /\ pc[t] \in {"populate", "publish"} => metadata[root[t]] = None
  /\ pc[t] \in {"read", "store"} => metadata[root[t]] = Source(t)
  /\ pc[t] \in {"publish", "read"} /\ Source(t).strategy # "local"
       => directory[root[t]] \in {{}, {Source(t).commit}}
  /\ pc[t] = "store" => content[t] = Source(t).commit
  /\ pc[t] = "recheck" /\ Source(t).strategy # "local" => content[t] = Source(t).commit

SweptIsUnowned == \A r \in Roots : swept[r] => ~Owns(Loaded, r)

IInv ==
  /\ TypeOK /\ RemovalIsFinal /\ SweptIsUnowned
  /\ \A r \in Roots : CacheMatches(r)
  /\ \A t \in Resolvers : Task(t)

LEMMA LoadedType == TypeOK => Loaded \in Snapshot
<1> SUFFICES ASSUME TypeOK PROVE Loaded \in Snapshot
  OBVIOUS
<1>1. CASE canonical \in {None, Invalid}
  BY <1>1 DEF Loaded, Snapshot
<1>2. CASE canonical \notin {None, Invalid}
  <2>1. canonical.commit \in Commits /\ canonical.strategy \in {"fetch", "checkout"}
    BY <1>2 DEF TypeOK, Canonical
  <2>2. EffectiveCommit \in Commits
    BY <2>1 DEF EffectiveCommit, TypeOK, Override
  <2> QED
    BY <1>2, <2>1, <2>2 DEF Loaded, Snapshot, Generation
<1> QED
  BY <1>1, <1>2

LEMMA Initially == Init => IInv
<1> SUFFICES ASSUME Init PROVE IInv
  OBVIOUS
<1>1. TypeOK
  <2>1. canonical \in Canonical /\ override \in Override /\ head \in Commits
    BY ModelValues DEF Init, Canonical, Override
  <2>2. directory \in [Roots -> {Absent} \cup SUBSET Commits]
        /\ metadata \in [Roots -> {None} \cup Generation]
        /\ lock \in [Roots -> Resolvers \cup {Nobody}] /\ swept \in [Roots -> BOOLEAN]
        /\ orphaned \in [Roots -> BOOLEAN]
    BY DEF Init
  <2>3. pc \in [Resolvers -> Labels] /\ root \in [Resolvers -> Roots]
        /\ snapshot \in [Resolvers -> Snapshot] /\ content \in [Resolvers -> Commits \cup {None}]
    BY DEF Init, Labels, Roots, Snapshot
  <2>4. edits \in 0..MaxEdits /\ faults \in 0..MaxFaults
    BY BoundsAssumption DEF Init
  <2> QED
    BY <2>1, <2>2, <2>3, <2>4 DEF TypeOK, Init, Unlocked
<1> QED
  BY <1>1 DEF Init, IInv, RemovalIsFinal, SweptIsUnowned, CacheMatches, Task, Reading,
              Renewing

(***************************************************************************)
(* A command works on its own cache, under its lock.                       *)
(***************************************************************************)
Private(t) ==
  /\ \A u \in Resolvers \ {t} :
       /\ pc'[u] = pc[u] /\ root'[u] = root[u]
       /\ snapshot'[u] = snapshot[u] /\ content'[u] = content[u]
       /\ lock[root[u]] = u => lock'[root[u]] = u
  /\ \A r \in Roots :
       \/ r = root[t] /\ lock[r] = t
       \/ directory'[r] = directory[r] /\ metadata'[r] = metadata[r] /\ swept'[r] = swept[r]
  /\ UNCHANGED <<config, edits>>

LEMMA ReleasedLocks ==
  ASSUME TypeOK, NEW t \in Resolvers
  PROVE  /\ Released(t) \in [Roots -> Resolvers \cup {Nobody}]
         /\ \A u \in Resolvers \ {t}, r \in Roots : lock[r] = u => Released(t)[r] = u
BY DEF Released, TypeOK

LEMMA StepIsPrivate ==
  ASSUME TypeOK, NEW t \in Resolvers, Step(t) \/ Abandon(t)
  PROVE  Private(t)
<1> USE DEF TypeOK, Private, Goto, config, disk, bounds, history, RemoveDirectory
<1>1. CASE Load(t) \/ List(t)
  BY <1>1 DEF Load, List, NextRoot
<1>2. CASE SweepLock(t) \/ ReadLock(t)
  BY <1>2, ModelValues DEF SweepLock, ReadLock, Lock
<1>3. CASE SweepDirectory(t) \/ DropDirectory(t) \/ DropMetadata(t) \/ Populate(t)
           \/ Publish(t) \/ Store(t)
  BY <1>3 DEF SweepDirectory, DropDirectory, DropMetadata, Populate, Publish, Store, Unlocked
<1>4. CASE SweepMetadata(t)
  <2>1. /\ pc[t] = "sweep_metadata" /\ lock' = Released(t) /\ lock[root[t]] = t
        /\ metadata' = [metadata EXCEPT ![root[t]] = None]
        /\ swept' = [swept EXCEPT ![root[t]] = ~Owns(Loaded, root[t])]
        /\ UNCHANGED <<snapshot, content, directory, config, bounds>>
    BY <1>4 DEF SweepMetadata, Unlocked
  <2>2. \A u \in Resolvers \ {t} : pc'[u] = pc[u] /\ root'[u] = root[u]
    BY <1>4 DEF SweepMetadata, NextRoot
  <2> QED
    BY <2>1, <2>2, ReleasedLocks
<1>5. CASE Resolve(t) \/ Read(t)
  BY <1>5 DEF Resolve, Read, Forget
<1>6. CASE Check(t) \/ Recheck(t) \/ Abandon(t)
  BY <1>6, ReleasedLocks DEF Check, Recheck, Abandon, Forget
<1> QED
  BY <1>1, <1>2, <1>3, <1>4, <1>5, <1>6 DEF Step

LEMMA OthersKeepKnowing ==
  ASSUME IInv, NEW t \in Resolvers, Private(t), NEW u \in Resolvers, u # t
  PROVE  /\ pc'[u] \in Labels /\ root'[u] \in Roots /\ snapshot'[u] \in Snapshot
         /\ content'[u] \in Commits \cup {None}
         /\ pc'[u] \notin Unlocked => lock'[root'[u]] = u
         /\ Task(u)'
<1>1. pc'[u] = pc[u] /\ root'[u] = root[u] /\ snapshot'[u] = snapshot[u]
      /\ content'[u] = content[u] /\ (lock[root[u]] = u => lock'[root[u]] = u)
  BY DEF Private
<1>2. pc[u] \notin Unlocked =>
        /\ directory'[root[u]] = directory[root[u]] /\ metadata'[root[u]] = metadata[root[u]]
        /\ swept'[root[u]] = swept[root[u]]
  BY DEF IInv, TypeOK, Private
<1>3. Task(u)'
  BY <1>1, <1>2 DEF IInv, Task, Source, Reading, Renewing, Unlocked
<1> QED
  BY <1>1, <1>3 DEF IInv, TypeOK

(***************************************************************************)
(* Each step.                                                              *)
(***************************************************************************)
\* The parts of the invariant that the command t itself and the disk make up.
Own(t) ==
  /\ directory \in [Roots -> {Absent} \cup SUBSET Commits]
  /\ metadata \in [Roots -> {None} \cup Generation]
  /\ lock \in [Roots -> Resolvers \cup {Nobody}]
  /\ swept \in [Roots -> BOOLEAN] /\ orphaned \in [Roots -> BOOLEAN] /\ faults \in 0..MaxFaults
  /\ pc \in [Resolvers -> Labels] /\ root \in [Resolvers -> Roots]
  /\ snapshot \in [Resolvers -> Snapshot] /\ content \in [Resolvers -> Commits \cup {None}]
  /\ pc[t] \notin Unlocked => lock[root[t]] = t
  /\ RemovalIsFinal /\ SweptIsUnowned
  /\ \A r \in Roots : CacheMatches(r)
  /\ Task(t)

LEMMA SameConfiguration ==
  ASSUME UNCHANGED config
  PROVE  Loaded' = Loaded
BY DEF config, Loaded, EffectiveCommit, LocalIsValid

LEMMA StepKeepsOwn ==
  ASSUME IInv, NEW t \in Resolvers, Step(t)
  PROVE  Own(t)'
<1> USE DEF IInv, TypeOK, Own, Goto, Labels, Unlocked, Reading, Renewing, Source, Task,
            CacheMatches, RemovalIsFinal, SweptIsUnowned, disk, bounds, history, RemoveDirectory
<1>1. UNCHANGED config
  BY StepIsPrivate DEF Private
<1>2. Loaded' = Loaded /\ Loaded \in Snapshot
  BY <1>1, SameConfiguration, LoadedType
<1>3. \A r \in Roots : Owns(Loaded, r)' = Owns(Loaded, r)
  BY <1>2 DEF Owns
<1>4. CASE Load(t)
  BY <1>2, <1>3, <1>4 DEF Load, Roots
<1>5. CASE List(t)
  BY <1>3, <1>5 DEF List, NextRoot, Roots
<1>6. CASE SweepLock(t)
  BY <1>3, <1>6 DEF SweepLock, Lock
<1>7. CASE SweepDirectory(t)
  BY <1>3, <1>7 DEF SweepDirectory
<1>8. CASE SweepMetadata(t)
  BY <1>3, <1>8, ReleasedLocks DEF SweepMetadata, NextRoot, Roots
<1>9. CASE Resolve(t)
  <2>1. CASE snapshot[t].source = None
    <3>1. Forget(t) /\ UNCHANGED <<disk, bounds, history>>
      BY <1>9, <2>1 DEF Resolve
    <3> QED
      BY <1>3, <3>1 DEF Forget, Roots, Snapshot
  <2>2. CASE snapshot[t].source # None
    <3>1. RootOf(snapshot[t].source) \in Roots
      BY DEF RootOf, Roots
    <3> QED
      BY <1>3, <1>9, <2>2, <3>1 DEF Resolve
  <2> QED
    BY <2>1, <2>2
<1>10. CASE ReadLock(t)
  BY <1>3, <1>10 DEF ReadLock, Lock
<1>11. CASE Check(t)
  <2>1. CASE StillCurrent(t)
    <3>1. Owns(Loaded, root[t])
      BY <1>11, <2>1 DEF Check, StillCurrent, Owns
    <3>2. ~swept[root[t]]
      BY <3>1
    <3>3. /\ pc' = [pc EXCEPT ![t] = IF IsGeneration(root[t], snapshot[t].source)
                                     THEN "read" ELSE "drop_directory"]
          /\ pc[t] = "check" /\ UNCHANGED <<root, snapshot, content, disk, bounds, history>>
      BY <1>11, <2>1 DEF Check
    <3>4. CASE IsGeneration(root[t], snapshot[t].source)
      BY <1>3, <3>3, <3>4 DEF IsGeneration
    <3>5. CASE ~IsGeneration(root[t], snapshot[t].source)
      BY <1>3, <3>2, <3>3, <3>5
    <3> QED
      BY <3>4, <3>5
  <2>2. CASE ~StillCurrent(t)
    <3>1. Forget(t) /\ lock' = Released(t) /\ UNCHANGED <<directory, metadata, bounds, history>>
      BY <1>11, <2>2 DEF Check
    <3> QED
      BY <1>3, <3>1, ReleasedLocks DEF Forget, Roots, Snapshot
  <2> QED
    BY <2>1, <2>2
<1>12. CASE DropDirectory(t)
  BY <1>3, <1>12 DEF DropDirectory
<1>13. CASE DropMetadata(t)
  BY <1>3, <1>13 DEF DropMetadata
<1>14. CASE Populate(t)
  <2>1. pc[t] = "populate" /\ Source(t) \in Generation
    BY <1>14 DEF Populate, Snapshot
  <2>2. /\ pc' = [pc EXCEPT ![t] = "publish"]
        /\ \E files \in {{}, {Source(t).commit}} :
             directory' = [directory EXCEPT ![root[t]] = files]
        /\ UNCHANGED <<root, snapshot, content, metadata, lock, bounds, history>>
    BY <1>14 DEF Populate, Repository
  <2>3. {Source(t).commit} \in SUBSET Commits
    BY <2>1 DEF Generation
  <2> QED
    BY <1>3, <2>1, <2>2, <2>3
<1>15. CASE Publish(t)
  BY <1>3, <1>15 DEF Publish, Snapshot
<1>16. CASE Read(t)
  <2>1. pc[t] = "read" /\ Source(t) \in Generation /\ metadata[root[t]] = Source(t)
        /\ UNCHANGED <<root, snapshot, disk, bounds, history>>
    BY <1>16 DEF Read, Snapshot
  <2>2. Source(t).commit \in Commits
    BY <2>1 DEF Generation
  <2>3. CASE Source(t).strategy = "local"
    <3>1. content' = [content EXCEPT ![t] = head] /\ pc' = [pc EXCEPT ![t] = "recheck"]
      BY <1>16, <2>3 DEF Read
    <3> QED
      BY <1>3, <2>1, <2>3, <3>1
  <2>4. CASE Source(t).strategy # "local" /\ directory[root[t]] = {}
    <3>1. content' = [content EXCEPT ![t] = Source(t).commit] /\ pc' = [pc EXCEPT ![t] = "store"]
      BY <1>16, <2>4 DEF Read, Download
    <3> QED
      BY <1>3, <2>1, <2>2, <2>4, <3>1
  <2>5. CASE Source(t).strategy # "local" /\ directory[root[t]] # {}
    <3>1. directory[root[t]] = {Source(t).commit}
      BY <2>1, <2>5
    <3>2. content' = [content EXCEPT ![t] = Source(t).commit] /\ pc' = [pc EXCEPT ![t] = "recheck"]
      BY <1>16, <2>5, <3>1 DEF Read
    <3> QED
      BY <1>3, <2>1, <2>2, <3>2
  <2> QED
    BY <2>3, <2>4, <2>5
<1>17. CASE Store(t)
  <2>1. /\ pc[t] = "store" /\ metadata[root[t]] = Source(t) /\ Source(t) \in Generation
        /\ content[t] = Source(t).commit
    BY <1>17 DEF Store, Snapshot
  <2>2. {content[t]} \in SUBSET Commits
    BY <2>1 DEF Generation
  <2> QED
    BY <1>3, <1>17, <2>1, <2>2 DEF Store
<1>18. CASE Recheck(t)
  BY <1>3, <1>18, ReleasedLocks DEF Recheck, Forget, Roots, Snapshot
<1> QED
  BY <1>4, <1>5, <1>6, <1>7, <1>8, <1>9, <1>10, <1>11, <1>12, <1>13, <1>14, <1>15, <1>16,
     <1>17, <1>18 DEF Step

LEMMA AbandonKeepsOwn ==
  ASSUME IInv, NEW t \in Resolvers, Abandon(t)
  PROVE  Own(t)'
<1>1. \A r \in Roots : Owns(Loaded, r)' = Owns(Loaded, r)
  BY SameConfiguration DEF Abandon, Owns
<1>2. faults' \in 0..MaxFaults
  BY BoundsAssumption DEF IInv, TypeOK, Abandon
<1> QED
  BY <1>1, <1>2, ReleasedLocks DEF IInv, TypeOK, Own, Goto, Labels, Unlocked, Reading,
     Renewing, Task, CacheMatches, RemovalIsFinal, SweptIsUnowned, Abandon, Forget, Roots,
     Snapshot

LEMMA EditKeeps ==
  ASSUME IInv, Edit
  PROVE  IInv'
<1>1. canonical' \in Canonical /\ override' \in Override /\ head' \in Commits
  BY DEF IInv, TypeOK, Edit
<1>2. edits' \in 0..MaxEdits
  BY BoundsAssumption DEF IInv, TypeOK, Edit
<1>3. swept' \in [Roots -> BOOLEAN] /\ \A r \in Roots : swept'[r] => swept[r] /\ ~Owns(Loaded', r)
  BY DEF IInv, TypeOK, Edit
<1>4. TypeOK'
  BY <1>1, <1>2, <1>3 DEF IInv, TypeOK, Edit, disk, task
<1>5. RemovalIsFinal' /\ SweptIsUnowned'
  BY <1>3 DEF IInv, RemovalIsFinal, SweptIsUnowned, Edit, disk, Owns
<1>6. \A r \in Roots : CacheMatches(r)'
  BY DEF IInv, CacheMatches, Edit, disk
<1>7. \A t \in Resolvers : Task(t)'
  <2> SUFFICES ASSUME NEW t \in Resolvers PROVE Task(t)'
    OBVIOUS
  <2>1. root[t] \in Roots
    BY DEF IInv, TypeOK
  <2> QED
    BY <1>3, <2>1 DEF IInv, Task, Source, Edit, disk, task
<1> QED
  BY <1>4, <1>5, <1>6, <1>7 DEF IInv

LEMMA Inductive == IInv /\ [Next]_vars => IInv'
<1> SUFFICES ASSUME IInv, [Next]_vars PROVE IInv'
  OBVIOUS
<1>1. ASSUME NEW t \in Resolvers, Step(t) \/ Abandon(t) PROVE IInv'
  <2>1. Private(t)
    BY <1>1, StepIsPrivate DEF IInv
  <2>2. Own(t)'
    BY <1>1, StepKeepsOwn, AbandonKeepsOwn
  <2>3. canonical' \in Canonical /\ override' \in Override /\ head' \in Commits
        /\ edits' \in 0..MaxEdits
    BY <2>1 DEF Private, IInv, TypeOK, config
  <2>4. ASSUME NEW u \in Resolvers
        PROVE  (pc[u] \notin Unlocked => lock[root[u]] = u)' /\ Task(u)'
    BY <2>1, <2>2, OthersKeepKnowing DEF Own
  <2> QED
    BY <2>2, <2>3, <2>4 DEF Own, IInv, TypeOK
<1>2. CASE Edit
  BY <1>2, EditKeeps
<1>3. CASE UNCHANGED vars
  BY <1>3, SameConfiguration DEF vars, disk, config, task, bounds, history, IInv, TypeOK, RemovalIsFinal,
     SweptIsUnowned, CacheMatches, Task, Source, Owns
<1> QED
  BY <1>1, <1>2, <1>3 DEF Next

LEMMA Always == Spec => []IInv
BY Initially, Inductive, PTL DEF Spec

\* Every reachable state of the caches and their commands is well typed, and a
\* command that works on a cache holds its lock.
THEOREM CachesAreTyped == Spec => []TypeOK
<1>1. IInv => TypeOK
  BY DEF IInv
<1> QED
  BY <1>1, Always, PTL

\* A read that goes through a cache returns the file at the commit its command
\* was configured with: the files a command finds under its lock are of the commit
\* the metadata names, however often the cache was dropped, left half-made or renewed.
THEOREM ReadsAreOfTheirCommit == Spec => []AnswersAreOfTheirCommit
<1>1. IInv => AnswersAreOfTheirCommit
  BY DEF IInv, Task, Source, AnswersAreOfTheirCommit
<1> QED
  BY <1>1, Always, PTL

\* A retrieval in flight never brings back a cache that a reconciliation removed:
\* one that renews a cache has seen it owned, under the lock the sweep needs.
THEOREM RemovedCachesStayAway == Spec => []RemovalIsFinal
<1>1. IInv => RemovalIsFinal
  BY DEF IInv
<1> QED
  BY <1>1, Always, PTL
=============================================================================
