----------------------------- MODULE SearchIndex -----------------------------
(***************************************************************************)
(* Building, publishing and querying the search index                      *)
(* (src/search/cache.ts writeIndex, src/cli/search.ts withDb,              *)
(* src/cli/reindex.ts, src/search/lock.ts acquireSearchLock).              *)
(*                                                                         *)
(* `lat search` analyses the project, and queries search.db when the index *)
(* metadata says it was built from exactly that analysis.  Otherwise it    *)
(* copies the index to _search.db, brings the copy up to date under the    *)
(* writer lock and renames it over search.db.  `lat reindex` builds from   *)
(* nothing and may change the embedding model.  Any number of processes do *)
(* this at once, and each can be killed between any two steps.             *)
(*                                                                         *)
(* An index is the version of the project it was built from and the model  *)
(* of its vectors.  Both are in its metadata and, the transactions of the  *)
(* database being atomic, agree with its rows.                             *)
(***************************************************************************)
EXTENDS Naturals, FiniteSets, SearchLock

CONSTANTS
  Reindexers,   \* the processes that run `lat reindex`; the others search
  Models,       \* embedding models: the local one and hosted ones
  NoFile,       \* there is no such file
  Partial,      \* a file that is being written
  None,         \* nobody
  MaxVersion,   \* bound: changes of the project
  MaxKills      \* bound: processes killed

ASSUME ProcAssumption == Reindexers \subseteq Procs /\ None \notin Procs
ASSUME FileAssumption ==
  /\ NoFile # Partial
  /\ \A v \in 0..MaxVersion, m \in Models :
       [project |-> v, model |-> m] \notin {NoFile, Partial}
ASSUME IndexBoundAssumption == MaxVersion \in Nat /\ MaxKills \in Nat

VARIABLES
  project,    \* the version of the project's documents
  active,     \* search.db
  sidecar,    \* the index whose WAL lies beside search.db, or NoFile
  staging,    \* _search.db
  writeLock,  \* the holder of search-write.lock
  pc,         \* where a command is
  view,       \* the version of the project a command has analysed
  seen,       \* the index metadata a search has read
  attempt,    \* how often a search found the metadata changed
  answer,     \* the index a command's results come from
  outcome,    \* how a command will end once it has cleaned up
  kills       \* processes killed

files == <<active, sidecar, staging>>
command == <<view, seen, attempt, answer, outcome>>
vars == <<locks, project, files, writeLock, pc, command, kills>>

Attempts == 3
Index == [project : Nat, model : Models]
Goto(p, label) == pc' = [pc EXCEPT ![p] = label]

Init ==
  /\ LockInit
  /\ project = 0
  /\ active = NoFile \/ \E m \in Models : active = [project |-> 0, model |-> m]
  /\ sidecar = NoFile /\ staging = NoFile /\ writeLock = None
  /\ pc = [p \in Procs |-> "idle"]
  /\ view = [p \in Procs |-> 0]
  /\ seen = [p \in Procs |-> NoFile]
  /\ attempt = [p \in Procs |-> 0]
  /\ answer = [p \in Procs |-> NoFile]
  /\ outcome = [p \in Procs |-> "done"]
  /\ kills = 0

-----------------------------------------------------------------------------
(* The environment.                                                        *)

ProjectChanges ==
  /\ project < MaxVersion
  /\ project' = project + 1
  /\ UNCHANGED <<locks, files, writeLock, pc, command, kills>>

\* A process dies: the kernel releases its locks, its files stay.  A database
\* it had open may leave a WAL behind.
HasOpenDatabase(p) == acc[p] = "in" /\ pc[p] \in {"meta", "recheck", "query", "copy"}

Kill(p) ==
  /\ pc[p] \notin {"idle", "done", "failed", "dead"}
  /\ kills < MaxKills
  /\ kills' = kills + 1
  /\ Goto(p, "dead")
  /\ GiveUp(p)
  /\ writeLock' = IF writeLock = p THEN None ELSE writeLock
  /\ \/ UNCHANGED sidecar
     \/ HasOpenDatabase(p) /\ sidecar' = active
  /\ UNCHANGED <<project, active, staging, command>>

-----------------------------------------------------------------------------
(* `lat search`: withDb.                                                   *)

\* A command starts.  A search analyses the project first, a reindex when it
\* builds.
Start(p) ==
  /\ pc[p] \in {"idle", "done", "failed"}
  /\ Goto(p, IF p \in Reindexers THEN "lock" ELSE "loop")
  /\ view' = [view EXCEPT ![p] = project]
  /\ seen' = [seen EXCEPT ![p] = NoFile]
  /\ attempt' = [attempt EXCEPT ![p] = 0]
  /\ answer' = [answer EXCEPT ![p] = NoFile]
  /\ outcome' = [outcome EXCEPT ![p] = "done"]
  /\ UNCHANGED <<locks, project, files, writeLock, kills>>

\* Without an index there is nothing to look at: build one.
Loop(p) ==
  /\ pc[p] = "loop"
  /\ IF active = NoFile THEN Goto(p, "lock") /\ UNCHANGED locks
     ELSE IF attempt[p] >= Attempts THEN Goto(p, "failed") /\ UNCHANGED locks
     ELSE Request(p, "shared") /\ Goto(p, "meta")
  /\ UNCHANGED <<project, files, writeLock, command, kills>>

\* Read the metadata and close.  An index of another version has to be built.
ReadMetadata(p) ==
  /\ pc[p] = "meta" /\ Release(p)
  /\ seen' = [seen EXCEPT ![p] = active]
  /\ Goto(p, IF active.project = view[p] THEN "prepare" ELSE "lock")
  /\ UNCHANGED <<project, files, writeLock, view, attempt, answer, outcome,
                 kills>>

\* Defect: the second access does not go through the gate.
PreparePastGate(p) ==
  /\ pc[p] = "prepare"
  /\ Move(p, "access") /\ mode' = [mode EXCEPT ![p] = "shared"]
  /\ Goto(p, "recheck")
  /\ UNCHANGED <<project, files, writeLock, command, kills>>

\* The query is embedded with the model of the metadata, outside the locks.
Prepare(p) ==
  /\ pc[p] = "prepare"
  /\ Request(p, "shared")
  /\ Goto(p, "recheck")
  /\ UNCHANGED <<project, files, writeLock, command, kills>>

\* Defect: the metadata is not compared again.
RecheckNothing(p) ==
  /\ pc[p] = "recheck" /\ acc[p] = "in"
  /\ Goto(p, "query")
  /\ UNCHANGED <<locks, attempt, project, files, writeLock, view, seen, answer,
                 outcome, kills>>

\* Other metadata than before: close and try again.
Recheck(p) ==
  /\ pc[p] = "recheck" /\ acc[p] = "in"
  /\ IF active = seen[p]
     THEN Goto(p, "query") /\ UNCHANGED <<locks, attempt>>
     ELSE /\ Goto(p, "loop") /\ Release(p)
          /\ attempt' = [attempt EXCEPT ![p] = @ + 1]
  /\ UNCHANGED <<project, files, writeLock, view, seen, answer, outcome, kills>>

\* The rows are read under the same access, then the database is closed.
Query(p) ==
  /\ pc[p] = "query" /\ Release(p)
  /\ answer' = [answer EXCEPT ![p] = active]
  /\ Goto(p, "done")
  /\ UNCHANGED <<project, files, writeLock, view, seen, attempt, outcome, kills>>

\* Reading, embedding or querying throws; the database is closed.
SearchFails(p) ==
  /\ \/ pc[p] \in {"meta", "recheck", "query"} /\ Release(p)
     \/ pc[p] = "prepare" /\ UNCHANGED locks
  /\ Goto(p, "failed")
  /\ UNCHANGED <<project, files, writeLock, command, kills>>

-----------------------------------------------------------------------------
(* writeIndex.                                                             *)

\* acquireSearchLock: tryLock succeeds on search-write.lock.
TakeWriteLock(p) ==
  /\ pc[p] = "lock" /\ writeLock = None
  /\ writeLock' = p
  /\ Goto(p, "clean")
  /\ UNCHANGED <<locks, project, files, command, kills>>

\* Abandoned staging files go; an incremental build starts from a copy.
Clean(p) ==
  /\ pc[p] = "clean"
  /\ staging' = NoFile
  /\ IF active = NoFile \/ p \in Reindexers
     THEN Goto(p, "build") /\ UNCHANGED locks
     ELSE Goto(p, "copy") /\ Request(p, "exclusive")
  /\ UNCHANGED <<project, active, sidecar, writeLock, command, kills>>

\* Open the database to recover its WAL, close it and begin to copy it.
CheckpointAndCopy(p) ==
  /\ pc[p] = "copy" /\ acc[p] = "in"
  /\ sidecar' = NoFile
  /\ staging' = Partial
  /\ Goto(p, "copying")
  /\ UNCHANGED <<locks, project, active, writeLock, command, kills>>

CopyDone(p) ==
  /\ pc[p] = "copying" /\ Release(p)
  /\ staging' = active
  /\ Goto(p, "build")
  /\ UNCHANGED <<project, active, sidecar, writeLock, command, kills>>

\* A transaction brings the staging database to this command's analysis; a
\* search queries the result at once.  A copy keeps its model, an empty database
\* gets the one the environment or the user asks for.  A copy that was up to
\* date need not be published; recording its model again (setStoredModel) may
\* count as a change (total_changes) and publish it all the same.
Build(p, m) ==
  /\ pc[p] = "build"
  /\ staging # NoFile => m = staging.model
  /\ LET v == IF p \in Reindexers THEN project ELSE view[p]
         built == [project |-> v, model |-> m]
     IN /\ view' = [view EXCEPT ![p] = v]
        /\ staging' = built
        /\ IF p \in Reindexers THEN UNCHANGED <<seen, answer>>
           ELSE /\ seen' = [seen EXCEPT ![p] = built]
                /\ answer' = [answer EXCEPT ![p] = built]
        /\ \/ staging = built /\ Goto(p, "tidy") /\ UNCHANGED locks
           \/ Goto(p, "publish") /\ Request(p, "exclusive")
  /\ UNCHANGED <<project, active, sidecar, writeLock, attempt, outcome, kills>>

\* Defect: a leftover WAL stays beside the new database.
RemoveSidecarsNever(p) ==
  /\ pc[p] = "publish" /\ acc[p] = "in"
  /\ Goto(p, "rename")
  /\ UNCHANGED <<locks, project, files, writeLock, command, kills>>

\* Recover what an old WAL holds and remove it.
RemoveSidecars(p) ==
  /\ pc[p] = "publish" /\ acc[p] = "in"
  /\ sidecar' = NoFile
  /\ Goto(p, "rename")
  /\ UNCHANGED <<locks, project, active, staging, writeLock, command, kills>>

Rename(p) ==
  /\ pc[p] = "rename" /\ Release(p)
  /\ active' = staging
  /\ staging' = NoFile
  /\ Goto(p, "tidy")
  /\ UNCHANGED <<project, sidecar, writeLock, command, kills>>

\* Checkpointing, copying, building, removing or renaming throws.
BuildFails(p) ==
  /\ \/ pc[p] \in {"copy", "copying", "publish", "rename"} /\ acc[p] = "in"
     \/ pc[p] = "build"
  /\ IF acc[p] = "in" THEN Release(p) ELSE UNCHANGED locks
  /\ outcome' = [outcome EXCEPT ![p] = "failed"]
  /\ Goto(p, "tidy")
  /\ UNCHANGED <<project, files, writeLock, view, seen, attempt, answer, kills>>

\* Defect: the writer lock is only released on success.
TidyOnSuccess(p) ==
  /\ pc[p] = "tidy"
  /\ staging' = NoFile
  /\ writeLock' = IF outcome[p] = "done" THEN None ELSE writeLock
  /\ Goto(p, outcome[p])
  /\ UNCHANGED <<locks, project, active, sidecar, command, kills>>

\* finally: the staging files and the writer lock go.
Tidy(p) ==
  /\ pc[p] = "tidy"
  /\ staging' = NoFile
  /\ writeLock' = None
  /\ Goto(p, outcome[p])
  /\ UNCHANGED <<locks, project, active, sidecar, command, kills>>

-----------------------------------------------------------------------------
(* Waiting.                                                                *)

Admission(p) ==
  /\ PassGate(p) \/ Enter(p)
  /\ UNCHANGED <<project, files, writeLock, pc, command, kills>>

\* A lock is not had before its deadline: a search fails, a writer tidies up.
TimeOut(p) ==
  /\ \/ /\ acc[p] \in {"gate", "access"} /\ GiveUp(p)
        /\ IF writeLock = p
           THEN /\ Goto(p, "tidy")
                /\ outcome' = [outcome EXCEPT ![p] = "failed"]
           ELSE Goto(p, "failed") /\ UNCHANGED outcome
     \/ /\ pc[p] = "lock" /\ UNCHANGED <<locks, outcome>>
        /\ Goto(p, "failed")
  /\ UNCHANGED <<project, files, writeLock, view, seen, attempt, answer, kills>>

-----------------------------------------------------------------------------
Step(p) ==
  \/ Loop(p) \/ ReadMetadata(p) \/ Prepare(p) \/ Recheck(p) \/ Query(p)
  \/ Clean(p) \/ CheckpointAndCopy(p) \/ CopyDone(p)
  \/ \E m \in Models : Build(p, m)
  \/ RemoveSidecars(p) \/ Rename(p) \/ Tidy(p)

Next ==
  \/ ProjectChanges
  \/ \E p \in Procs :
       \/ Start(p) \/ Step(p) \/ SearchFails(p) \/ BuildFails(p)
       \/ TakeWriteLock(p) \/ Admission(p) \/ TimeOut(p) \/ Kill(p)

Spec == Init /\ [][Next]_vars

\* A process that runs takes its steps and polls a lock that stays free.  Its
\* deadline for the gate and the writer lock comes; nobody has to start,
\* fail or die.
Fairness ==
  \A p \in Procs :
    /\ WF_vars(Step(p))
    /\ WF_vars(Admission(p))
    /\ WF_vars(TakeWriteLock(p))
    /\ WF_vars(acc[p] # "access" /\ TimeOut(p))

FairSpec == Spec /\ Fairness

-----------------------------------------------------------------------------
(* Properties.                                                             *)

Labels == {"idle", "loop", "meta", "prepare", "recheck", "query", "lock",
           "clean", "copy", "copying", "build", "publish", "rename", "tidy",
           "done", "failed", "dead"}

TypeOK ==
  /\ acc \in [Procs -> {"out", "gate", "access", "in"}]
  /\ mode \in [Procs -> Modes]
  /\ project \in Nat
  /\ {active, sidecar} \subseteq {NoFile} \cup Index
  /\ staging \in {NoFile, Partial} \cup Index
  /\ writeLock \in Procs \cup {None}
  /\ pc \in [Procs -> Labels]
  /\ view \in [Procs -> Nat]
  /\ seen \in [Procs -> {NoFile} \cup Index]
  /\ attempt \in [Procs -> 0..Attempts]
  /\ answer \in [Procs -> {NoFile} \cup Index]
  /\ outcome \in [Procs -> {"done", "failed"}]
  /\ kills \in Nat

\* A search answers from an index of the documents it has analysed and of the
\* model it embedded the query with, however the index is replaced meanwhile.
AnswersMatchAnalysis ==
  \A p \in Procs \ Reindexers : answer[p] # NoFile
    => /\ answer[p].project = view[p]
       /\ answer[p] = seen[p]

\* A WAL beside search.db is never another database's: opening the database
\* would replay it into the wrong file.
SidecarsMatch == sidecar \in {NoFile, active}

\* Only a finished build is published, and only by the writer that made it,
\* while nobody has the database open; a published index is never removed.
PublishedIsOwnBuild ==
  [][active' # active =>
       \E p \in Procs :
         /\ writeLock = p
         /\ pc[p] = "rename" /\ active'.project = view[p]
         /\ \A q \in Procs \ {p} : ~HasOpenDatabase(q)]_vars

\* The files stay in order: every step leaves the database with a sidecar of its own
\* or none, and what is published is whole.
FilesStayInOrder == [][SidecarsMatch']_vars /\ PublishedIsOwnBuild

\* A query or writer that has the gate is admitted: commands that come later,
\* however many, do not overtake it.
WaitersAreAdmitted ==
  \A p \in Procs : acc[p] = "access" ~> acc[p] # "access"

\* The writer lock is always given back, by success, failure or death.
WriteLockIsReleased ==
  \A p \in Procs : writeLock = p ~> writeLock # p

\* The index's processes use the access lock as SearchLock says.
UsesAccessLock == LockSpec
=============================================================================
