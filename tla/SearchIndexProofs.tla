--------------------------- MODULE SearchIndexProofs ---------------------------
(***************************************************************************)
(* The search index uses its access lock as it should, and a search never  *)
(* answers from an index it did not ask for, for any number of processes.  *)
(***************************************************************************)
EXTENDS SearchIndex, TLAPS

Places == {"out", "gate", "access", "in"}
LockTypes == acc \in [Procs -> Places] /\ mode \in [Procs -> Modes]

(***************************************************************************)
(* The access lock by itself.                                              *)
(***************************************************************************)
LockInv == LockTypes /\ AccessIsCompatible

LEMMA LockInitially == LockInit => LockInv
BY DEF LockInit, LockInv, LockTypes, Places, Modes, AccessIsCompatible, Inside, Gate

LEMMA MoveKeepsOthers ==
  ASSUME LockTypes, NEW p \in Procs, NEW place \in Places, Move(p, place)
  PROVE  /\ acc' \in [Procs -> Places]
         /\ acc'[p] = place
         /\ \A q \in Procs : q # p => acc'[q] = acc[q]
BY DEF Move, LockTypes

LEMMA LeavingKeepsLock ==
  ASSUME LockInv, NEW p \in Procs, NEW place \in {"out", "gate"},
         Move(p, place), mode' \in [Procs -> Modes],
         \A q \in Procs : q # p => mode'[q] = mode[q]
  PROVE  LockInv'
<1>1. /\ acc' \in [Procs -> Places] /\ acc'[p] = place
      /\ \A q \in Procs : q # p => acc'[q] = acc[q]
  BY MoveKeepsOthers DEF LockInv, Places
<1> QED
  BY <1>1 DEF LockInv, LockTypes, AccessIsCompatible, Inside, Gate

LEMMA LockInductive == LockInv /\ [LockNext]_locks => LockInv'
<1> SUFFICES ASSUME LockInv, [LockNext]_locks PROVE LockInv'
  OBVIOUS
<1>1. ASSUME NEW p \in Procs, NEW m \in Modes, Request(p, m) PROVE LockInv'
  BY <1>1, LeavingKeepsLock DEF Request, LockInv, LockTypes
<1>2. ASSUME NEW p \in Procs, PassGate(p) PROVE LockInv'
  <2>1. /\ acc' \in [Procs -> Places] /\ acc'[p] = "access"
        /\ \A q \in Procs : q # p => acc'[q] = acc[q]
    BY <1>2, MoveKeepsOthers DEF PassGate, LockInv, Places
  <2>2. \A q \in Procs : acc[q] # "access"
    BY <1>2 DEF PassGate, Gate
  <2> QED
    BY <1>2, <2>1, <2>2 DEF PassGate, LockInv, LockTypes, AccessIsCompatible,
                            Inside, Gate
<1>3. ASSUME NEW p \in Procs, Enter(p) PROVE LockInv'
  <2>1. /\ acc' \in [Procs -> Places] /\ acc'[p] = "in"
        /\ \A q \in Procs : q # p => acc'[q] = acc[q]
    BY <1>3, MoveKeepsOthers DEF Enter, LockInv, Places
  <2>2. mode' = mode /\ mode[p] \in Modes
    BY <1>3 DEF Enter, LockInv, LockTypes
  <2>3. \A q \in Procs : acc[q] = "in" =>
          mode[q] # "exclusive" /\ mode[p] # "exclusive"
    <3> SUFFICES ASSUME NEW q \in Procs, acc[q] = "in"
                 PROVE  mode[q] # "exclusive" /\ mode[p] # "exclusive"
      OBVIOUS
    <3>1. mode[q] \in {"shared", "exclusive"}
      BY DEF LockInv, LockTypes, Modes
    <3> QED
      BY <1>3, <3>1 DEF Enter, Compatible, Inside
  <2>4. \A q, r \in Procs : q \in Inside("exclusive")' /\ acc'[r] = "in" => q = r
    BY <2>1, <2>2, <2>3 DEF Inside
  <2>5. \A q, r \in Procs : q \in Gate' /\ r \in Gate' => q = r
    BY <2>1 DEF Gate, LockInv, AccessIsCompatible
  <2> QED
    BY <2>1, <2>2, <2>4, <2>5 DEF LockInv, LockTypes, AccessIsCompatible, Gate
<1>4. ASSUME NEW p \in Procs, Release(p) \/ GiveUp(p) PROVE LockInv'
  BY <1>4, LeavingKeepsLock DEF Release, GiveUp, LockInv, LockTypes
<1>5. CASE UNCHANGED locks
  BY <1>5 DEF locks, LockInv, LockTypes, AccessIsCompatible, Inside, Gate
<1> QED
  BY <1>1, <1>2, <1>3, <1>4, <1>5 DEF LockNext

\* The two lock files keep their promise, whatever the processes do with them:
\* an exclusive holder is alone, and one process at most polls in front.
THEOREM AccessIsExclusive == LockSpec => []AccessIsCompatible
<1>1. LockInv => AccessIsCompatible
  BY DEF LockInv
<1> QED
  BY <1>1, LockInitially, LockInductive, PTL DEF LockSpec

(***************************************************************************)
(* The index's commands take their steps by the lock.                      *)
(***************************************************************************)
LEMMA StepUsesLock == [Next]_vars => [LockNext]_locks
<1> SUFFICES ASSUME [Next]_vars PROVE [LockNext]_locks
  OBVIOUS
<1>1. ASSUME NEW p \in Procs, Start(p) \/ TakeWriteLock(p) \/ CheckpointAndCopy(p)
                              \/ RemoveSidecars(p) \/ Tidy(p)
      PROVE  UNCHANGED locks
  BY <1>1 DEF Start, TakeWriteLock, CheckpointAndCopy, RemoveSidecars, Tidy
<1>2. ASSUME NEW p \in Procs, Loop(p) \/ Prepare(p) \/ Clean(p)
                              \/ \E m \in Models : Build(p, m)
      PROVE  (\E m \in Modes : Request(p, m)) \/ UNCHANGED locks
  <2>1. "shared" \in Modes /\ "exclusive" \in Modes
    BY DEF Modes
  <2> QED
    BY <1>2, <2>1 DEF Loop, Prepare, Clean, Build
<1>3. ASSUME NEW p \in Procs, ReadMetadata(p) \/ Recheck(p) \/ Query(p)
                              \/ CopyDone(p) \/ Rename(p) \/ SearchFails(p)
                              \/ BuildFails(p)
      PROVE  Release(p) \/ UNCHANGED locks
  BY <1>3 DEF ReadMetadata, Recheck, Query, CopyDone, Rename, SearchFails,
              BuildFails
<1>4. ASSUME NEW p \in Procs, Admission(p)
      PROVE  PassGate(p) \/ Enter(p)
  BY <1>4 DEF Admission
<1>5. ASSUME NEW p \in Procs, TimeOut(p) \/ Kill(p)
      PROVE  GiveUp(p) \/ UNCHANGED locks
  BY <1>5 DEF TimeOut, Kill
<1>6. ASSUME ProjectChanges \/ UNCHANGED vars
      PROVE  UNCHANGED locks
  BY <1>6 DEF ProjectChanges, vars
<1> QED
  BY <1>1, <1>2, <1>3, <1>4, <1>5, <1>6 DEF Next, Step, LockNext

\* Every command of the search index, killed or not, is a client of the access
\* lock: it goes through the gate, enters, and leaves.
THEOREM IndexUsesAccessLock == Spec => UsesAccessLock
<1>1. Init => LockInit
  BY DEF Init
<1> QED
  BY <1>1, StepUsesLock, PTL DEF Spec, UsesAccessLock, LockSpec

(***************************************************************************)
(* Answers.                                                                *)
(***************************************************************************)
Shapes ==
  /\ LockInv
  /\ pc \in [Procs -> Labels] /\ view \in [Procs -> Nat] /\ project \in Nat
  /\ outcome \in [Procs -> {"done", "failed"}]
  /\ writeLock \in Procs \cup {None}
  /\ seen = [p \in Procs |-> seen[p]] /\ answer = [p \in Procs |-> answer[p]]

\* What a command knows, by where it is.
Knows(p) ==
  /\ pc[p] \in {"loop", "meta", "prepare", "recheck", "query"} => answer[p] = NoFile
  /\ pc[p] \in {"prepare", "recheck", "query"} => seen[p].project = view[p]
  /\ pc[p] \in {"recheck", "query"} => mode[p] = "shared"
  /\ pc[p] = "query" => acc[p] = "in" /\ active = seen[p]
  /\ pc[p] \in {"publish", "rename"} => mode[p] = "exclusive"
  /\ pc[p] = "rename" => acc[p] = "in"
  /\ p \notin Reindexers /\ answer[p] # NoFile
       => answer[p].project = view[p] /\ answer[p] = seen[p]

AnswerInv == Shapes /\ \A p \in Procs : Knows(p)

Acts(p) ==
  \/ Start(p) \/ Step(p) \/ SearchFails(p) \/ BuildFails(p)
  \/ TakeWriteLock(p) \/ Admission(p) \/ TimeOut(p) \/ Kill(p)

LEMMA AnswerInitially == Init => AnswerInv
BY LockInitially DEF Init, AnswerInv, Shapes, Knows, Labels

LEMMA ActsShapes ==
  ASSUME Shapes, NEW p \in Procs, Acts(p)
  PROVE  Shapes'
<1>1. LockInv'
  <2>1. [Next]_vars
    BY DEF Acts, Next
  <2> QED
    BY <2>1, StepUsesLock, LockInductive DEF Shapes
<1>2. CASE Start(p)
  BY <1>1, <1>2 DEF Shapes, Start, Goto, Labels
<1>3. CASE Loop(p) \/ Prepare(p) \/ Clean(p) \/ CheckpointAndCopy(p) \/ CopyDone(p)
           \/ RemoveSidecars(p) \/ Rename(p) \/ SearchFails(p) \/ TakeWriteLock(p)
  BY <1>1, <1>3 DEF Shapes, Loop, Prepare, Clean, CheckpointAndCopy, CopyDone,
                    RemoveSidecars, Rename, SearchFails, TakeWriteLock, Goto,
                    Labels, command
<1>4. CASE ReadMetadata(p) \/ Recheck(p) \/ Query(p)
  BY <1>1, <1>4 DEF Shapes, ReadMetadata, Recheck, Query, Goto, Labels
<1>5. ASSUME NEW m \in Models, Build(p, m) PROVE Shapes'
  BY <1>1, <1>5 DEF Shapes, Build, Goto, Labels
<1>6. CASE BuildFails(p) \/ TimeOut(p) \/ Kill(p) \/ Admission(p)
  BY <1>1, <1>6 DEF Shapes, BuildFails, TimeOut, Kill, Admission, Goto, Labels,
                    command
<1>7. CASE Tidy(p)
  BY <1>1, <1>7 DEF Shapes, Tidy, Goto, Labels, command
<1> QED
  BY <1>2, <1>3, <1>4, <1>5, <1>6, <1>7 DEF Acts, Step

\* A command changes nothing that belongs to another.
LEMMA ActsAlone ==
  ASSUME Shapes, NEW p \in Procs, Acts(p), NEW q \in Procs, q # p
  PROVE  /\ pc'[q] = pc[q] /\ acc'[q] = acc[q] /\ mode'[q] = mode[q]
         /\ view'[q] = view[q] /\ seen'[q] = seen[q] /\ answer'[q] = answer[q]
<1> USE DEF Goto, Move, Request, Release, GiveUp, PassGate, Enter, command, locks
<1>1. CASE Start(p)
  BY <1>1 DEF Shapes, LockInv, LockTypes, Start
<1>2. CASE Loop(p) \/ Prepare(p) \/ Clean(p) \/ CheckpointAndCopy(p) \/ CopyDone(p)
  BY <1>2 DEF Shapes, LockInv, LockTypes, Loop, Prepare, Clean,
              CheckpointAndCopy, CopyDone
<1>3. CASE RemoveSidecars(p) \/ Rename(p) \/ SearchFails(p) \/ TakeWriteLock(p)
           \/ Tidy(p)
  BY <1>3 DEF Shapes, LockInv, LockTypes, RemoveSidecars, Rename, SearchFails,
              TakeWriteLock, Tidy
<1>4. CASE ReadMetadata(p) \/ Recheck(p) \/ Query(p)
  BY <1>4 DEF Shapes, LockInv, LockTypes, ReadMetadata, Recheck, Query
<1>5. ASSUME NEW m \in Models, Build(p, m)
      PROVE  /\ pc'[q] = pc[q] /\ acc'[q] = acc[q] /\ mode'[q] = mode[q]
             /\ view'[q] = view[q] /\ seen'[q] = seen[q] /\ answer'[q] = answer[q]
  BY <1>5 DEF Shapes, LockInv, LockTypes, Build
<1>6. CASE BuildFails(p) \/ TimeOut(p) \/ Kill(p) \/ Admission(p)
  BY <1>6 DEF Shapes, LockInv, LockTypes, BuildFails, TimeOut, Kill, Admission
<1> QED
  BY <1>1, <1>2, <1>3, <1>4, <1>5, <1>6 DEF Acts, Step

\* Only a rename replaces the index, and then nobody queries it.
LEMMA QueriedIndexStays ==
  ASSUME AnswerInv, NEW p \in Procs, Acts(p), NEW q \in Procs, q # p,
         pc[q] = "query"
  PROVE  active' = active
<1>1. ~Rename(p)
  <2> SUFFICES ASSUME Rename(p) PROVE FALSE
    OBVIOUS
  <2>1. acc[p] = "in" /\ mode[p] = "exclusive"
    BY DEF Rename, AnswerInv, Knows
  <2>2. acc[q] = "in"
    BY DEF AnswerInv, Knows
  <2> QED
    BY <2>1, <2>2 DEF AnswerInv, Shapes, LockInv, AccessIsCompatible, Inside
<1>2. ASSUME NEW m \in Models, Build(p, m) PROVE active' = active
  BY <1>2 DEF Build
<1> QED
  BY <1>1, <1>2 DEF Acts, Step, Start, Loop, ReadMetadata, Prepare, Recheck, Query,
     Clean, CheckpointAndCopy, CopyDone, RemoveSidecars, Tidy, SearchFails,
     BuildFails, TakeWriteLock, Admission, TimeOut, Kill, files

LEMMA ActsKnowing ==
  ASSUME AnswerInv, Shapes', NEW p \in Procs, Acts(p)
  PROVE  Knows(p)'
<1> USE DEF AnswerInv, Shapes, Knows, LockInv, LockTypes, Goto
<1>1. CASE Start(p)
  BY <1>1 DEF Start
<1>2. CASE Loop(p)
  BY <1>2 DEF Loop, command
<1>3. CASE ReadMetadata(p)
  BY <1>3 DEF ReadMetadata
<1>4. CASE Prepare(p)
  BY <1>4 DEF Prepare, Request, command, files, Modes
<1>5. CASE Recheck(p)
  BY <1>5 DEF Recheck, files, locks
<1>6. CASE Query(p)
  BY <1>6 DEF Query
<1>7. CASE SearchFails(p) \/ TakeWriteLock(p) \/ Clean(p) \/ CheckpointAndCopy(p)
           \/ CopyDone(p)
  BY <1>7 DEF SearchFails, TakeWriteLock, Clean, CheckpointAndCopy, CopyDone,
              command
<1>8. ASSUME NEW m \in Models, Build(p, m) PROVE Knows(p)'
  BY <1>8 DEF Build, Request
<1>9. CASE RemoveSidecars(p) \/ Rename(p)
  BY <1>9 DEF RemoveSidecars, Rename, Release, command, locks
<1>10. CASE Tidy(p) \/ BuildFails(p) \/ Kill(p)
  BY <1>10 DEF Tidy, BuildFails, Kill, command
<1>11. CASE TimeOut(p)
  BY <1>11 DEF TimeOut
<1>12. CASE Admission(p)
  BY <1>12 DEF Admission, PassGate, Enter, Move, command, files
<1> QED
  BY <1>1, <1>2, <1>3, <1>4, <1>5, <1>6, <1>7, <1>8, <1>9, <1>10, <1>11, <1>12
     DEF Acts, Step

LEMMA AnswerInductive == AnswerInv /\ [Next]_vars => AnswerInv'
<1> SUFFICES ASSUME AnswerInv, [Next]_vars PROVE AnswerInv'
  OBVIOUS
<1>1. ASSUME NEW p \in Procs, Acts(p) PROVE AnswerInv'
  <2>1. Shapes'
    BY <1>1, ActsShapes DEF AnswerInv
  <2>2. Knows(p)'
    BY <1>1, <2>1, ActsKnowing
  <2>3. ASSUME NEW q \in Procs, q # p PROVE Knows(q)'
    <3>1. /\ pc'[q] = pc[q] /\ acc'[q] = acc[q] /\ mode'[q] = mode[q]
          /\ view'[q] = view[q] /\ seen'[q] = seen[q] /\ answer'[q] = answer[q]
      BY <1>1, <2>3, ActsAlone DEF AnswerInv
    <3>2. pc[q] = "query" => active' = active
      BY <1>1, <2>3, QueriedIndexStays
    <3> QED
      BY <3>1, <3>2 DEF AnswerInv, Knows
  <2> QED
    BY <2>1, <2>2, <2>3 DEF AnswerInv
<1>2. CASE ProjectChanges
  BY <1>2 DEF ProjectChanges, AnswerInv, Shapes, Knows, LockInv, LockTypes,
              AccessIsCompatible, Inside, Gate, locks, files, command
<1>3. CASE UNCHANGED vars
  BY <1>3 DEF vars, AnswerInv, Shapes, Knows, LockInv, LockTypes,
              AccessIsCompatible, Inside, Gate, locks, files, command
<1> QED
  BY <1>1, <1>2, <1>3 DEF Next, Acts

\* Whatever is published, killed or timed out between the two looks a search
\* takes at the index, its answer comes from the analysis it made and the model
\* it embedded its query with.
THEOREM AnswersAreConsistent == Spec => []AnswersMatchAnalysis
<1>1. AnswerInv => AnswersMatchAnalysis
  BY DEF AnswerInv, Knows, AnswersMatchAnalysis
<1> QED
  BY <1>1, AnswerInitially, AnswerInductive, PTL DEF Spec

(***************************************************************************)
(* The files.                                                              *)
(***************************************************************************)
Writing == {"clean", "copy", "copying", "build", "publish", "rename", "tidy"}

\* What a writer can rely on.
Owns(p) ==
  /\ pc[p] \in Writing => writeLock = p
  /\ pc[p] \in {"publish", "rename"} => staging.project = view[p]
  /\ pc[p] = "rename" => sidecar = NoFile

FileInv == AnswerInv /\ SidecarsMatch /\ \A p \in Procs : Owns(p)

LEMMA FilesInitially == Init => FileInv
BY AnswerInitially DEF Init, FileInv, Owns, SidecarsMatch, Writing

\* A process at the rename has the access lock for itself.
LEMMA RenamingIsAlone ==
  ASSUME AnswerInv, NEW p \in Procs, pc[p] = "rename", NEW q \in Procs, q # p
  PROVE  acc[q] # "in"
BY DEF AnswerInv, Shapes, Knows, LockInv, AccessIsCompatible, Inside

\* Who is not the writer leaves the staging file and the writer lock alone.
LEMMA OthersLeaveStaging ==
  ASSUME FileInv, NEW p \in Procs, Acts(p), NEW q \in Procs, q # p, pc[q] \in Writing
  PROVE  staging' = staging /\ writeLock' = writeLock
<1>1. writeLock = q /\ pc[p] \notin Writing /\ writeLock # None
  BY ProcAssumption DEF FileInv, Owns
<1>2. ASSUME NEW m \in Models, Build(p, m) PROVE FALSE
  BY <1>1, <1>2 DEF Build, Writing
<1>3. CASE Start(p) \/ Loop(p) \/ ReadMetadata(p) \/ Prepare(p) \/ Recheck(p) \/ Query(p)
           \/ SearchFails(p) \/ Admission(p) \/ TimeOut(p) \/ BuildFails(p)
  BY <1>3 DEF Start, Loop, ReadMetadata, Prepare, Recheck, Query, SearchFails, Admission,
              TimeOut, BuildFails, files
<1>4. CASE Kill(p)
  BY <1>1, <1>4 DEF Kill
<1>5. CASE TakeWriteLock(p) \/ Clean(p) \/ CheckpointAndCopy(p) \/ CopyDone(p)
           \/ RemoveSidecars(p) \/ Rename(p) \/ Tidy(p)
  BY <1>1, <1>5 DEF TakeWriteLock, Clean, CheckpointAndCopy, CopyDone, RemoveSidecars,
                    Rename, Tidy, Writing
<1> QED
  BY <1>2, <1>3, <1>4, <1>5 DEF Acts, Step

\* A WAL appears beside the database only where somebody had it open.
LEMMA SidecarSteps ==
  ASSUME FileInv, NEW p \in Procs, Acts(p)
  PROVE  /\ \/ sidecar' \in {sidecar, NoFile}
            \/ HasOpenDatabase(p) /\ sidecar' = active
         /\ SidecarsMatch'
<1>1. CASE Rename(p)
  BY <1>1 DEF Rename, FileInv, Owns, SidecarsMatch
<1>2. CASE Kill(p)
  BY <1>2 DEF Kill, FileInv, SidecarsMatch
<1>3. ASSUME NEW m \in Models, Build(p, m)
      PROVE  sidecar' = sidecar /\ active' = active
  BY <1>3 DEF Build
<1>4. CASE Start(p) \/ Loop(p) \/ ReadMetadata(p) \/ Prepare(p) \/ Recheck(p) \/ Query(p)
           \/ SearchFails(p) \/ Admission(p) \/ TimeOut(p) \/ BuildFails(p)
  BY <1>4 DEF Start, Loop, ReadMetadata, Prepare, Recheck, Query, SearchFails, Admission,
              TimeOut, BuildFails, files, FileInv, SidecarsMatch
<1>5. CASE TakeWriteLock(p) \/ Clean(p) \/ CheckpointAndCopy(p) \/ CopyDone(p)
           \/ RemoveSidecars(p) \/ Tidy(p)
  BY <1>5 DEF TakeWriteLock, Clean, CheckpointAndCopy, CopyDone, RemoveSidecars, Tidy,
              files, FileInv, SidecarsMatch
<1> QED
  BY <1>1, <1>2, <1>3, <1>4, <1>5 DEF Acts, Step, FileInv, SidecarsMatch

LEMMA ActsOwning ==
  ASSUME FileInv, NEW p \in Procs, Acts(p)
  PROVE  Owns(p)'
<1> USE DEF FileInv, AnswerInv, Shapes, Owns, Writing, Goto
<1>1. CASE Start(p) \/ Loop(p) \/ ReadMetadata(p) \/ Prepare(p) \/ Recheck(p) \/ Query(p)
           \/ SearchFails(p)
  BY <1>1 DEF Start, Loop, ReadMetadata, Prepare, Recheck, Query, SearchFails
<1>2. CASE TakeWriteLock(p) \/ Clean(p) \/ CheckpointAndCopy(p) \/ CopyDone(p)
  BY <1>2 DEF TakeWriteLock, Clean, CheckpointAndCopy, CopyDone
<1>3. ASSUME NEW m \in Models, Build(p, m) PROVE Owns(p)'
  BY <1>3 DEF Build
<1>4. CASE RemoveSidecars(p) \/ Rename(p) \/ Tidy(p)
  BY <1>4 DEF RemoveSidecars, Rename, Tidy, command
<1>5. CASE Admission(p)
  BY <1>5 DEF Admission, command, files
<1>6. CASE TimeOut(p) \/ BuildFails(p) \/ Kill(p)
  BY <1>6 DEF TimeOut, BuildFails, Kill
<1> QED
  BY <1>1, <1>2, <1>3, <1>4, <1>5, <1>6 DEF Acts, Step

LEMMA FilesInductive == FileInv /\ [Next]_vars => FileInv'
<1> SUFFICES ASSUME FileInv, [Next]_vars PROVE FileInv'
  OBVIOUS
<1>1. AnswerInv'
  BY AnswerInductive DEF FileInv
<1>2. ASSUME NEW p \in Procs, Acts(p) PROVE FileInv'
  <2>1. SidecarsMatch' /\ Owns(p)'
    BY <1>2, SidecarSteps, ActsOwning
  <2>2. ASSUME NEW q \in Procs, q # p PROVE Owns(q)'
    <3>1. pc'[q] = pc[q] /\ view'[q] = view[q]
      BY <1>2, <2>2, ActsAlone DEF FileInv, AnswerInv
    <3>2. pc[q] \in Writing => staging' = staging /\ writeLock' = writeLock
      BY <1>2, <2>2, OthersLeaveStaging
    <3>3. pc[q] = "rename" => ~HasOpenDatabase(p)
      BY <2>2, RenamingIsAlone DEF FileInv, HasOpenDatabase
    <3>4. pc[q] = "rename" => sidecar' = NoFile
      BY <1>2, <3>3, SidecarSteps DEF FileInv, Owns
    <3> QED
      BY <3>1, <3>2, <3>4 DEF FileInv, Owns, Writing
  <2> QED
    BY <1>1, <2>1, <2>2 DEF FileInv
<1>3. CASE ProjectChanges
  BY <1>1, <1>3 DEF ProjectChanges, FileInv, Owns, SidecarsMatch, files, command
<1>4. CASE UNCHANGED vars
  BY <1>1, <1>4 DEF vars, FileInv, Owns, SidecarsMatch, files, command
<1> QED
  BY <1>2, <1>3, <1>4 DEF Next, Acts

\* Only the rename of the writer lock's holder replaces the index.
LEMMA PublishingIsRename ==
  ASSUME FileInv, NEW p \in Procs, Acts(p), active' # active
  PROVE  Rename(p)
<1>1. ASSUME NEW m \in Models, Build(p, m) PROVE FALSE
  BY <1>1 DEF Build
<1> QED
  BY <1>1 DEF Acts, Step, Start, Loop, ReadMetadata, Prepare, Recheck, Query,
     Clean, CheckpointAndCopy, CopyDone, RemoveSidecars, Tidy, SearchFails,
     BuildFails, TakeWriteLock, Admission, TimeOut, Kill, files

\* Whatever is killed or fails, search.db is only ever replaced by the finished
\* build of whoever holds the writer lock, while nobody has it open, and a WAL
\* beside it is its own.
THEOREM FilesAreSafe == Spec => FilesStayInOrder
<1>1. FileInv => SidecarsMatch
  BY DEF FileInv
<1>2. ASSUME FileInv, [Next]_vars, active' # active
      PROVE  \E p \in Procs :
               /\ writeLock = p
               /\ pc[p] = "rename" /\ active'.project = view[p]
               /\ \A q \in Procs \ {p} : ~HasOpenDatabase(q)
  <2>1. PICK p \in Procs : Acts(p)
    BY <1>2 DEF Next, Acts, ProjectChanges, vars, files
  <2>2. Rename(p)
    BY <1>2, <2>1, PublishingIsRename
  <2>3. \A q \in Procs \ {p} : ~HasOpenDatabase(q)
    BY <1>2, <2>2, RenamingIsAlone DEF FileInv, HasOpenDatabase, Rename
  <2> QED
    BY <1>2, <2>2, <2>3 DEF Rename, FileInv, Owns, Writing
<1> QED
  BY <1>1, <1>2, FilesInitially, FilesInductive, PTL DEF Spec, FilesStayInOrder,
     PublishedIsOwnBuild
=============================================================================
