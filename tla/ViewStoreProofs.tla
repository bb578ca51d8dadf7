--------------------------- MODULE ViewStoreProofs ---------------------------
(***************************************************************************)
(* ViewStore keeps its types, never loses track of a stale document and    *)
(* neither loses nor hides an acknowledged save, for any number of         *)
(* documents, edits and external writes.                                   *)
(***************************************************************************)
EXTENDS ViewStore, TLAPS

(***************************************************************************)
(* Types.                                                                  *)
(***************************************************************************)
LEMMA IdleTypes == IdleJob \in Job /\ IdleEdit \in EditState
BY DEF IdleJob, Job, NoFiles, Stored, Phases, IdleEdit, EditState, EditPhases

LEMMA InitTypes == Init => TypeOK
<1> SUFFICES ASSUME Init PROVE TypeOK
  OBVIOUS
<1>1. disk \in [Docs -> Stored]
  BY DEF Init, Stored, Content
<1>2. snapshot \in Snapshot
  BY <1>1 DEF Init, Snapshot
<1>3. base \in [Edits -> Stored] /\ reply \in [Edits -> Replies]
  BY DEF Init, Stored, Replies
<1>4. job \in Job /\ edit \in EditState
  BY IdleTypes DEF Init
<1>5. queue \in Seq(Request) /\ editQueue \in Seq(Edits)
  BY DEF Init
<1>6. since \in [Edits -> SUBSET Stored]
  BY DEF Init
<1> QED
  BY <1>1, <1>2, <1>3, <1>4, <1>5, <1>6 DEF Init, TypeOK

\* QueueRefresh appends a request.
LEMMA QueueTypes ==
  ASSUME queue \in Seq(Request), NEW p \in SUBSET Paths, NEW b \in BOOLEAN,
         NEW w \in Edits \cup {None}, QueueRefresh(p, b, w)
  PROVE  queue' \in Seq(Request)
<1>1. [paths |-> p, poll |-> b, waiter |-> w] \in Request
  BY DEF Request
<1> QED
  BY <1>1 DEF QueueRefresh

\* Settle leaves an idle job and answers at most the edit that waits.
LEMMA SettleTypes ==
  ASSUME TypeOK, NEW o \in Replies, Settle(o)
  PROVE  /\ job' \in Job /\ pollQueued' \in BOOLEAN
         /\ edit' \in EditState /\ reply' \in [Edits -> Replies]
         /\ since' \in [Edits -> SUBSET Stored]
         /\ editQueue' \in Seq(Edits) /\ base' \in [Edits -> Stored]
<1>1. CASE job.waiter = None
  BY <1>1, IdleTypes DEF Settle, TypeOK, Job
<1>2. CASE job.waiter # None
  BY <1>2, IdleTypes DEF Settle, TypeOK, Job
<1> QED
  BY <1>1, <1>2

LEMMA AnswerTypes ==
  ASSUME TypeOK, NEW e \in Edits, NEW o \in Replies, Answer(e, o)
  PROVE  /\ edit' \in EditState /\ reply' \in [Edits -> Replies]
         /\ since' \in [Edits -> SUBSET Stored]
BY IdleTypes DEF Answer, TypeOK

LEMMA SeenTypes ==
  ASSUME TypeOK, NEW d \in Docs, NEW c \in Stored
  PROVE  Seen(d, c) \in [Edits -> SUBSET Stored]
BY DEF Seen, TypeOK

LEMMA DiskTypes ==
  ASSUME TypeOK, NEW d \in Docs, NEW c \in Stored, DiskBecomes(d, c)
  PROVE  /\ disk' \in [Docs -> Stored] /\ events' \subseteq Docs \cup {Ext}
         /\ forgotten' \subseteq Docs
BY DEF DiskBecomes, TypeOK

LEMMA EnvironmentTypes == TypeOK /\ Environment => TypeOK'
<1> SUFFICES ASSUME TypeOK, Environment PROVE TypeOK'
  OBVIOUS
<1> USE DEF env, watch, refreshes, editing, closing, history
<1>1. ASSUME NEW d \in Docs, NEW w \in Writes, ExternalWrite(d, w)
      PROVE  TypeOK'
  <2> DEFINE c == IF disk[d] = Absent THEN {w} ELSE disk[d] \cup {w}
  <2>1. c \in Stored
    BY DEF TypeOK, Stored, Content
  <2>2. DiskBecomes(d, c) /\ since' = Seen(d, c)
    BY <1>1 DEF ExternalWrite
  <2>3. /\ disk' \in [Docs -> Stored] /\ events' \subseteq Docs \cup {Ext}
        /\ forgotten' \subseteq Docs /\ since' \in [Edits -> SUBSET Stored]
    BY <2>1, <2>2, DiskTypes, SeenTypes
  <2> HIDE DEF c
  <2> QED
    BY <1>1, <2>3 DEF ExternalWrite, TypeOK
<1>2. ASSUME NEW d \in Docs, NEW w \in Writes, ExternalDelete(d, w)
      PROVE  TypeOK'
  <2>1. Absent \in Stored
    BY DEF Stored
  <2>2. DiskBecomes(d, Absent) /\ since' = Seen(d, Absent)
    BY <1>2 DEF ExternalDelete
  <2>3. /\ disk' \in [Docs -> Stored] /\ events' \subseteq Docs \cup {Ext}
        /\ forgotten' \subseteq Docs /\ since' \in [Edits -> SUBSET Stored]
    BY <2>1, <2>2, DiskTypes, SeenTypes
  <2> QED
    BY <1>2, <2>3 DEF ExternalDelete, TypeOK
<1>3. ASSUME Commit PROVE TypeOK'
  BY <1>3 DEF Commit, TypeOK
<1>4. ASSUME ExternalSourceChange PROVE TypeOK'
  BY <1>4 DEF ExternalSourceChange, TypeOK
<1>5. ASSUME NEW e \in Edits, SubmitEdit(e) PROVE TypeOK'
  <2>1. base' \in [Edits -> Stored]
    BY <1>5, TargetAssumption DEF SubmitEdit, TypeOK
  <2>2. reply' \in [Edits -> Replies]
    BY <1>5 DEF SubmitEdit, TypeOK, Replies
  <2>3. editQueue' \in Seq(Edits)
    BY <1>5 DEF SubmitEdit, TypeOK
  <2> QED
    BY <1>5, <2>1, <2>2, <2>3 DEF SubmitEdit, TypeOK
<1> QED
  BY <1>1, <1>2, <1>3, <1>4, <1>5 DEF Environment

LEMMA RunRefreshTypes == TypeOK /\ RunRefresh => TypeOK'
<1> SUFFICES ASSUME TypeOK, RunRefresh PROVE TypeOK'
  OBVIOUS
<1> USE DEF env, watch, editing, closing, history
<1>0. "saved" \in Replies
  BY DEF Replies
<1>1. CASE StartRefresh
  <2>1. Head(queue) \in Request /\ Tail(queue) \in Seq(Request)
    BY <1>1 DEF StartRefresh, TypeOK
  <2>2. job' \in Job
    <3>1. /\ Head(queue).paths \in SUBSET Paths /\ Head(queue).poll \in BOOLEAN
          /\ Head(queue).waiter \in Edits \cup {None}
          /\ snapshot.files \in [Docs -> Stored] /\ snapshot.git \in Nat
      BY <2>1 DEF Request, TypeOK, Snapshot
    <3>2. \E at \in Phases :
            job' = [IdleJob EXCEPT !.at = at, !.paths = Head(queue).paths, !.poll = Head(queue).poll,
                                   !.waiter = Head(queue).waiter, !.files = snapshot.files,
                                   !.git = snapshot.git]
      BY <1>1 DEF StartRefresh, Phases
    <3> QED
      BY <3>1, <3>2, IdleTypes DEF Job
  <2> QED
    BY <1>1, <2>1, <2>2 DEF StartRefresh, TypeOK
<1>2. CASE ListFiles
  <2>1. job' \in Job
    BY <1>2 DEF ListFiles, TypeOK, Job, Phases
  <2> QED
    BY <1>2, <2>1 DEF ListFiles, TypeOK
<1>3. CASE ReadsDone
  BY <1>3 DEF ReadsDone, TypeOK, Job, Phases
<1>4. CASE NothingChanged
  BY <1>0, <1>4, SettleTypes DEF NothingChanged, TypeOK
<1>5. CASE BuildSnapshot
  <2>1. snapshot.generation \in Nat /\ snapshot.markdownGeneration \in Nat /\ ext \in Nat
    BY DEF TypeOK, Snapshot
  <2> DEFINE g == snapshot.generation + 1
             m == snapshot.markdownGeneration + (IF MarkdownChanged THEN 1 ELSE 0)
  <2>2. /\ g \in Nat /\ m \in Nat
        /\ job' = [job EXCEPT !.at = "publish", !.ext = ext, !.generation = g,
                              !.markdownGeneration = m]
    <3>1. job' = [job EXCEPT !.at = "publish", !.ext = ext, !.generation = g,
                              !.markdownGeneration = m]
      BY <1>5 DEF BuildSnapshot
    <3>2. (IF MarkdownChanged THEN 1 ELSE 0) \in Nat
      OBVIOUS
    <3>3. g \in Nat /\ m \in Nat
      BY <2>1, <3>2
    <3> QED
      BY <3>1, <3>3
  <2> HIDE DEF g, m
  <2>3. job' \in Job
    <3>1. job \in Job
      BY DEF TypeOK
    <3> QED
      BY <2>1, <2>2, <3>1 DEF Job, Phases
  <2> QED
    BY <1>5, <2>3 DEF BuildSnapshot, TypeOK
<1>6. CASE PublishSnapshot
  <2>1. snapshot' \in Snapshot
    BY <1>6 DEF PublishSnapshot, TypeOK, Snapshot, Job
  <2> QED
    BY <1>0, <1>6, <2>1, SettleTypes DEF PublishSnapshot, TypeOK
<1>7. ASSUME NEW d \in Docs, ReadFile(d) PROVE TypeOK'
  <2>1. job' \in Job
    BY <1>7 DEF ReadFile, TypeOK, Job, Phases, Stored
  <2> QED
    BY <1>7, <2>1 DEF ReadFile, TypeOK
<1>8. ASSUME NEW ok \in BOOLEAN, ReadGit(ok) PROVE TypeOK'
  <2>1. CASE ok
    BY <1>8, <2>1 DEF ReadGit, TypeOK, Job, Phases
  <2>2. CASE ~ok
    <3>1. job' = [job EXCEPT !.at = "build"] /\ job \in Job
      BY <1>8, <2>2 DEF ReadGit, TypeOK, Job
    <3>2. job' \in Job
      BY <3>1 DEF Job, Phases
    <3>3. fails' \in Nat
      BY <1>8, <2>2 DEF ReadGit, TypeOK
    <3> QED
      BY <1>8, <3>2, <3>3 DEF ReadGit, TypeOK
  <2> QED
    BY <2>1, <2>2
<1> QED
  BY <1>1, <1>2, <1>3, <1>4, <1>5, <1>6, <1>7, <1>8 DEF RunRefresh

\* The edit that runs is one of Edits: its phase is not idle.
EditHasId == edit.at # "idle" => edit.id \in Edits

LEMMA RunEditTypes == TypeOK /\ EditHasId /\ RunEdit => TypeOK'
<1> SUFFICES ASSUME TypeOK, EditHasId, RunEdit PROVE TypeOK'
  OBVIOUS
<1> USE DEF env, watch, refreshes, closing
<1>0. {"saved", "conflict", "notfound", "error"} \subseteq Replies
  BY DEF Replies
<1>1. CASE StartEdit
  <2> DEFINE e == Head(editQueue)
  <2>1. e \in Edits /\ Tail(editQueue) \in Seq(Edits)
    BY <1>1 DEF StartEdit, TypeOK
  <2>2. \/ Answer(e, "notfound")
        \/ edit' = [IdleEdit EXCEPT !.id = e, !.at = "read"]
           /\ UNCHANGED <<reply, since>>
    BY <1>1 DEF StartEdit
  <2>3. /\ edit' \in EditState /\ reply' \in [Edits -> Replies]
        /\ since' \in [Edits -> SUBSET Stored]
    <3>1. CASE Answer(e, "notfound")
      BY <1>0, <2>1, <3>1, AnswerTypes
    <3>2. CASE edit' = [IdleEdit EXCEPT !.id = e, !.at = "read"]
               /\ UNCHANGED <<reply, since>>
      BY <2>1, <3>2, IdleTypes DEF TypeOK, EditState, EditPhases, IdleEdit
    <3> QED
      BY <2>2, <3>1, <3>2
  <2> QED
    BY <1>1, <2>1, <2>3 DEF StartEdit, TypeOK
<1>2. ASSUME NEW conflict \in BOOLEAN, EditRead(conflict) PROVE TypeOK'
  <2> DEFINE e == edit.id
             c == disk[Target[e]]
  <2>1. e \in Edits /\ c \in Stored
    BY <1>2, TargetAssumption DEF EditRead, EditHasId, TypeOK
  <2>2. \/ Answer(e, "error") \/ Answer(e, "conflict")
        \/ /\ c # Absent
           /\ edit' = [edit EXCEPT !.at = "check", !.current = c,
                                   !.next = c \cup {e}]
           /\ UNCHANGED <<reply, since>>
    BY <1>2 DEF EditRead
  <2>3. /\ edit' \in EditState /\ reply' \in [Edits -> Replies]
        /\ since' \in [Edits -> SUBSET Stored]
    <3>1. CASE Answer(e, "error") \/ Answer(e, "conflict")
      BY <1>0, <2>1, <3>1, AnswerTypes
    <3>2. CASE /\ c # Absent
               /\ edit' = [edit EXCEPT !.at = "check", !.current = c,
                                       !.next = c \cup {e}]
               /\ UNCHANGED <<reply, since>>
      <4>1. c \cup {e} \in Stored
        BY <2>1, <3>2 DEF Stored, Content
      <4> QED
        BY <2>1, <3>2, <4>1 DEF TypeOK, EditState, EditPhases
    <3> QED
      BY <2>2, <3>1, <3>2
  <2> QED
    BY <1>2, <2>3 DEF EditRead, TypeOK
<1>3. CASE EditCheck
  <2> DEFINE e == edit.id
  <2>1. e \in Edits
    BY <1>3 DEF EditCheck, EditHasId
  <2>2. \/ Answer(e, "error") \/ Answer(e, "conflict")
        \/ /\ UNCHANGED <<reply, since>>
           /\ \/ edit' = [edit EXCEPT !.at = "rename"]
              \/ edit' = [edit EXCEPT !.at = "read", !.tries = @ + 1]
    BY <1>3 DEF EditCheck
  <2>3. /\ edit' \in EditState /\ reply' \in [Edits -> Replies]
        /\ since' \in [Edits -> SUBSET Stored]
    <3>1. CASE Answer(e, "error") \/ Answer(e, "conflict")
      BY <1>0, <2>1, <3>1, AnswerTypes
    <3>2. CASE /\ UNCHANGED <<reply, since>>
               /\ \/ edit' = [edit EXCEPT !.at = "rename"]
                  \/ edit' = [edit EXCEPT !.at = "read", !.tries = @ + 1]
      <4>1. CASE edit' = [edit EXCEPT !.at = "rename"]
        BY <3>2, <4>1 DEF TypeOK, EditState, EditPhases
      <4>2. CASE edit' = [edit EXCEPT !.at = "read", !.tries = @ + 1]
        <5>1. edit.tries + 1 \in Nat
          BY DEF TypeOK, EditState
        <5> QED
          BY <3>2, <4>2, <5>1 DEF TypeOK, EditState, EditPhases
      <4> QED
        BY <3>2, <4>1, <4>2
    <3> QED
      BY <2>2, <3>1, <3>2
  <2> QED
    BY <1>3, <2>3 DEF EditCheck, TypeOK
<1>4. CASE EditRename
  <2> DEFINE e == edit.id
  <2>1. e \in Edits /\ Target[e] \in Docs /\ edit.next \in Stored
    BY <1>4, TargetAssumption DEF EditRename, EditHasId, TypeOK, EditState
  <2>2. DiskBecomes(Target[e], edit.next)
    BY <1>4 DEF EditRename
  <2>3. since' \in [Edits -> SUBSET Stored]
    BY <1>4, <2>1, SeenTypes DEF EditRename
  <2>4. edit' \in EditState
    BY <1>4 DEF EditRename, TypeOK, EditState, EditPhases
  <2>5. /\ disk' \in [Docs -> Stored] /\ events' \subseteq Docs \cup {Ext}
        /\ forgotten' \subseteq Docs
    BY <2>1, <2>2, DiskTypes
  <2> QED
    BY <1>4, <2>3, <2>4, <2>5 DEF EditRename, TypeOK
<1>5. CASE EditRefresh
  <2>1. edit.id \in Edits
    BY <1>5 DEF EditRefresh, EditHasId
  <2>2. CASE store = "open"
    <3>1. {Target[edit.id]} \in SUBSET Paths /\ FALSE \in BOOLEAN
      BY <2>1, TargetAssumption DEF Paths
    <3>2. queue' \in Seq(Request)
      BY <1>5, <2>1, <2>2, <3>1, QueueTypes DEF EditRefresh, TypeOK
    <3>3. edit' \in EditState
      BY <1>5, <2>2 DEF EditRefresh, TypeOK, EditState, EditPhases
    <3> QED
      BY <1>5, <2>2, <3>2, <3>3 DEF EditRefresh, TypeOK
  <2>3. CASE store # "open"
    BY <1>0, <1>5, <2>1, <2>3, AnswerTypes DEF EditRefresh, TypeOK
  <2> QED
    BY <2>2, <2>3
<1> QED
  BY <1>1, <1>2, <1>3, <1>4, <1>5 DEF RunEdit

LEMMA OtherTypes ==
  ASSUME TypeOK,
         \/ StartWatching \/ DebounceFires \/ GitPollTick \/ RefreshFails
         \/ Close \/ CloseDone
         \/ \E p \in Paths, named \in BOOLEAN : ScheduleRefresh(p, named)
  PROVE  TypeOK'
<1> USE DEF env, watch, refreshes, editing, closing, history
<1>1. CASE StartWatching
  BY <1>1 DEF StartWatching, TypeOK
<1>2. ASSUME NEW p \in Paths, NEW named \in BOOLEAN, ScheduleRefresh(p, named)
      PROVE  TypeOK'
  BY <1>2 DEF ScheduleRefresh, TypeOK, Paths
<1>3. CASE DebounceFires
  <2>1. queue' \in Seq(Request)
    BY <1>3, QueueTypes DEF DebounceFires, TypeOK
  <2> QED
    BY <1>3, <2>1 DEF DebounceFires, TypeOK
<1>4. CASE GitPollTick
  <2>1. queue' \in Seq(Request)
    BY <1>4, QueueTypes DEF GitPollTick, TypeOK
  <2> QED
    BY <1>4, <2>1 DEF GitPollTick, TypeOK
<1>5. CASE RefreshFails
  <2>1. "error" \in Replies
    BY DEF Replies
  <2> QED
    BY <1>5, <2>1, SettleTypes DEF RefreshFails, TypeOK
<1>6. CASE Close
  BY <1>6 DEF Close, TypeOK
<1>7. CASE CloseDone
  BY <1>7 DEF CloseDone, TypeOK
<1> QED
  BY <1>1, <1>2, <1>3, <1>4, <1>5, <1>6, <1>7

(***************************************************************************)
(* The inductive invariant.  StaleIsCovered alone is not inductive: while  *)
(* a refresh runs, what it has read is judged against a disk that goes on  *)
(* changing, and its listing may already be out of date.                   *)
(***************************************************************************)
\* Before the watcher opens nothing runs, and the store has been told nothing.
StartingIsQuiet ==
  store = "starting" =>
    /\ job.at = "idle" /\ queue = <<>> /\ ~timer
    /\ editQueue = <<>> /\ edit.at = "idle"
    /\ \A d \in Docs : snapshot.files[d] # disk[d] => d \in forgotten

JobShape ==
  /\ job.todo \subseteq job.changed
  /\ job.at \in {"git", "build", "publish"} => job.todo = {}
  /\ job.at = "list" => job.files = snapshot.files

\* A document the listing did not see is absent, or the store will hear of it.
NotFoundIsCovered ==
  store = "open" /\ job.at = "read" =>
    \A d \in Docs \ job.found : disk[d] = Absent \/ Waiting(d)

\* What the refresh no longer has to read is what the disk holds, or the store
\* will hear of it, or the refresh had no reason to look at it.
ReadIsCovered ==
  store = "open" /\ job.at \in {"read", "git", "build", "publish"} =>
    \A d \in Docs \ job.todo :
      job.files[d] = disk[d] \/ Waiting(d) \/ d \in forgotten \ job.changed

CoverInv ==
  /\ StaleIsCovered /\ NotFoundIsCovered /\ ReadIsCovered
  /\ JobShape /\ StartingIsQuiet /\ EditHasId

IInv == TypeOK /\ CoverInv

LEMMA AppendCovers ==
  ASSUME queue \in Seq(Request), NEW p, NEW b, NEW w,
         [paths |-> p, poll |-> b, waiter |-> w] \in Request,
         QueueRefresh(p, b, w), NEW d
  PROVE  QueueCovers(queue, d) \/ Covers(p, d) => QueueCovers(queue', d)
<1> DEFINE r == [paths |-> p, poll |-> b, waiter |-> w]
<1>1. queue' = Append(queue, r)
  BY DEF QueueRefresh
<1>2. /\ DOMAIN queue = 1 .. Len(queue) /\ DOMAIN queue' = 1 .. (Len(queue) + 1)
      /\ Len(queue) \in Nat
      /\ \A i \in DOMAIN queue : queue'[i] = queue[i]
      /\ queue'[Len(queue) + 1] = r
  BY <1>1
<1> HIDE DEF r
<1>3. r.paths = p
  BY DEF r
<1> QED
  BY <1>2, <1>3 DEF QueueCovers

LEMMA TailCovers ==
  ASSUME queue \in Seq(Request), queue # <<>>, NEW d, QueueCovers(queue, d)
  PROVE  Covers(Head(queue).paths, d) \/ QueueCovers(Tail(queue), d)
<1>1. PICK i \in DOMAIN queue : Covers(queue[i].paths, d)
  BY DEF QueueCovers
<1>2. CASE i = 1
  BY <1>1, <1>2
<1>3. CASE i # 1
  <2>1. i - 1 \in DOMAIN Tail(queue) /\ Tail(queue)[i - 1] = queue[i]
    BY <1>3
  <2> QED
    BY <1>1, <2>1 DEF QueueCovers
<1> QED
  BY <1>2, <1>3

\* A step that leaves the refresh alone keeps the invariant if every document
\* either is waited for afterwards or has not changed in any way that matters.
LEMMA StableCover ==
  ASSUME CoverInv, UNCHANGED <<store, job, snapshot>>,
         store = "open" =>
           \A d \in Docs :
             \/ Waiting(d)'
             \/ /\ disk'[d] = disk[d] /\ ~Waiting(d)
                /\ d \in forgotten => d \in forgotten'
  PROVE  (StaleIsCovered /\ NotFoundIsCovered /\ ReadIsCovered /\ JobShape)'
<1>1. StaleIsCovered'
  BY DEF CoverInv, StaleIsCovered, Running
<1>2. NotFoundIsCovered'
  BY DEF CoverInv, NotFoundIsCovered
<1>3. ReadIsCovered'
  BY DEF CoverInv, ReadIsCovered
<1>4. JobShape'
  BY DEF CoverInv, JobShape
<1> QED
  BY <1>1, <1>2, <1>3, <1>4

LEMMA DiskCover ==
  ASSUME TypeOK, CoverInv, NEW d \in Docs, NEW c, DiskBecomes(d, c),
         UNCHANGED <<store, job, snapshot, pending, queue>>
  PROVE  (StaleIsCovered /\ NotFoundIsCovered /\ ReadIsCovered /\ JobShape)'
<1>1. ASSUME store = "open", NEW x \in Docs
      PROVE  \/ Waiting(x)'
             \/ /\ disk'[x] = disk[x] /\ ~Waiting(x)
                /\ x \in forgotten => x \in forgotten'
  <2>1. events' = events \cup {d} /\ disk' = [disk EXCEPT ![d] = c]
        /\ forgotten' = forgotten
    BY <1>1 DEF DiskBecomes
  <2>2. CASE x = d
    BY <2>1, <2>2 DEF Waiting
  <2>3. CASE x # d
    BY <2>1, <2>3 DEF Waiting, TypeOK
  <2> QED
    BY <2>2, <2>3
<1> QED
  BY <1>1, StableCover

\* A change nobody watches is recorded as forgotten.
LEMMA DiskQuiet ==
  ASSUME TypeOK, StartingIsQuiet, NEW d \in Docs, NEW c, DiskBecomes(d, c),
         UNCHANGED <<store, job, snapshot, queue, timer, editQueue, edit>>
  PROVE  StartingIsQuiet'
<1> SUFFICES ASSUME store = "starting" PROVE StartingIsQuiet'
  BY DEF StartingIsQuiet
<1>1. forgotten' = forgotten \cup {d} /\ disk' = [disk EXCEPT ![d] = c]
  BY DEF DiskBecomes
<1>2. ASSUME NEW x \in Docs, snapshot'.files[x] # disk'[x]
      PROVE  x \in forgotten'
  BY <1>1, <1>2 DEF StartingIsQuiet, TypeOK
<1> QED
  BY <1>2 DEF StartingIsQuiet

LEMMA EnvironmentCover == TypeOK /\ CoverInv /\ Environment => CoverInv'
<1> SUFFICES ASSUME TypeOK, CoverInv, Environment PROVE CoverInv'
  OBVIOUS
<1> USE DEF env, watch, refreshes, editing, closing, history
<1>1. ASSUME NEW d \in Docs, NEW c, DiskBecomes(d, c),
             UNCHANGED <<store, job, snapshot, pending, queue, timer,
                         editQueue, edit>>
      PROVE  CoverInv'
  BY <1>1, DiskCover, DiskQuiet DEF CoverInv, EditHasId
<1>2. ASSUME NEW d \in Docs, NEW w \in Writes, ExternalWrite(d, w)
      PROVE  CoverInv'
  BY <1>1, <1>2 DEF ExternalWrite
<1>3. ASSUME NEW d \in Docs, NEW w \in Writes, ExternalDelete(d, w)
      PROVE  CoverInv'
  BY <1>1, <1>3 DEF ExternalDelete
<1>4. CASE Commit
  BY <1>4, StableCover DEF Commit, CoverInv, Waiting, QueueCovers,
                           StartingIsQuiet, EditHasId
<1>5. CASE ExternalSourceChange
  BY <1>5, StableCover DEF ExternalSourceChange, CoverInv, Waiting,
                           QueueCovers, StartingIsQuiet, EditHasId
<1>6. ASSUME NEW e \in Edits, SubmitEdit(e) PROVE CoverInv'
  <2>1. (StaleIsCovered /\ NotFoundIsCovered /\ ReadIsCovered /\ JobShape)'
    BY <1>6, StableCover DEF SubmitEdit, Waiting, QueueCovers
  <2> QED
    BY <1>6, <2>1 DEF SubmitEdit, CoverInv, StartingIsQuiet, EditHasId
<1> QED
  BY <1>2, <1>3, <1>4, <1>5, <1>6 DEF Environment

LEMMA WatchCover ==
  ASSUME TypeOK, CoverInv,
         \/ StartWatching \/ DebounceFires \/ GitPollTick
         \/ \E p \in Paths, named \in BOOLEAN : ScheduleRefresh(p, named)
  PROVE  CoverInv'
<1> USE DEF env, watch, refreshes, editing, closing, history
<1>1. CASE StartWatching
  <2>1. StartingIsQuiet /\ JobShape /\ EditHasId
    BY DEF CoverInv
  <2>2. StaleIsCovered'
    BY <1>1, <2>1 DEF StartWatching, StartingIsQuiet, StaleIsCovered
  <2> QED
    BY <1>1, <2>1, <2>2 DEF StartWatching, CoverInv, StartingIsQuiet,
                            NotFoundIsCovered, ReadIsCovered, JobShape, EditHasId
<1>2. ASSUME NEW p \in Paths, NEW named \in BOOLEAN, ScheduleRefresh(p, named)
      PROVE  CoverInv'
  <2>1. ASSUME NEW d \in Docs, Waiting(d) PROVE Waiting(d)'
    BY <1>2, <2>1, TokenAssumption
       DEF ScheduleRefresh, Waiting, Covers, QueueCovers
  <2>2. (StaleIsCovered /\ NotFoundIsCovered /\ ReadIsCovered /\ JobShape)'
    BY <1>2, <2>1, StableCover DEF ScheduleRefresh
  <2> QED
    BY <1>2, <2>2 DEF ScheduleRefresh, CoverInv, StartingIsQuiet, EditHasId
<1>3. CASE DebounceFires
  <2>1. [paths |-> pending, poll |-> FALSE, waiter |-> None] \in Request
    BY DEF Request, TypeOK
  <2>2. ASSUME NEW d \in Docs, Waiting(d) PROVE Waiting(d)'
    BY <1>3, <2>1, <2>2, AppendCovers DEF DebounceFires, Waiting, TypeOK
  <2>3. (StaleIsCovered /\ NotFoundIsCovered /\ ReadIsCovered /\ JobShape)'
    BY <1>3, <2>2, StableCover DEF DebounceFires
  <2> QED
    BY <1>3, <2>3 DEF DebounceFires, CoverInv, StartingIsQuiet, EditHasId
<1>4. CASE GitPollTick
  <2>1. [paths |-> {}, poll |-> TRUE, waiter |-> None] \in Request
    BY DEF Request
  <2>2. ASSUME NEW d \in Docs, Waiting(d) PROVE Waiting(d)'
    BY <1>4, <2>1, <2>2, AppendCovers DEF GitPollTick, Waiting, TypeOK, Covers
  <2>3. (StaleIsCovered /\ NotFoundIsCovered /\ ReadIsCovered /\ JobShape)'
    BY <1>4, <2>2, StableCover DEF GitPollTick
  <2> QED
    BY <1>4, <2>3 DEF GitPollTick, CoverInv, StartingIsQuiet, EditHasId
<1> QED
  BY <1>1, <1>2, <1>3, <1>4

\* Closing makes every claim about coverage moot.
LEMMA CloseCover == ASSUME TypeOK, CoverInv, Close \/ CloseDone PROVE CoverInv'
BY DEF Close, CloseDone, CoverInv, StaleIsCovered, NotFoundIsCovered,
       ReadIsCovered, JobShape, StartingIsQuiet, EditHasId, env, watch,
       refreshes, editing, history

(***************************************************************************)
(* The refresh.                                                            *)
(***************************************************************************)
\* What a batch was going to look at is now being looked at.
LEMMA StartRefreshCover == TypeOK /\ CoverInv /\ StartRefresh => CoverInv'
<1> SUFFICES ASSUME TypeOK, CoverInv, StartRefresh PROVE CoverInv'
  OBVIOUS
<1> DEFINE paths == Head(queue).paths
<1>1. /\ job'.at = IF TouchesMarkdown(paths) THEN "list"
                   ELSE IF Head(queue).poll THEN "git" ELSE "build"
      /\ job'.paths = paths /\ job'.files = snapshot.files
      /\ job'.todo = {} /\ job'.changed = {}
  BY DEF StartRefresh, IdleJob
<1>2. /\ job.at = "idle" /\ queue # <<>> /\ queue' = Tail(queue)
      /\ UNCHANGED <<disk, snapshot, store, forgotten, events, pending, edit,
                     timer, editQueue>>
  BY DEF StartRefresh, env, watch, editing, closing, history
<1>3. store # "starting"
  BY <1>2 DEF CoverInv, StartingIsQuiet
<1>4. ASSUME NEW d \in Docs, Waiting(d) PROVE Waiting(d)' \/ Covers(paths, d)
  <2>1. CASE d \in events \/ Covers(pending, d)
    BY <1>2, <2>1 DEF Waiting
  <2>2. CASE QueueCovers(queue, d)
    BY <1>2, <2>2, TailCovers DEF Waiting, TypeOK
  <2> QED
    BY <1>4, <2>1, <2>2 DEF Waiting
<1>5. ASSUME store = "open", NEW d \in Docs, snapshot.files[d] # disk[d]
      PROVE  Waiting(d)' \/ Covers(paths, d) \/ d \in forgotten
  BY <1>2, <1>4, <1>5 DEF CoverInv, StaleIsCovered, Running
<1> HIDE DEF paths
<1>6. StaleIsCovered'
  BY <1>1, <1>2, <1>5 DEF StaleIsCovered, Running
<1>7. NotFoundIsCovered'
  BY <1>1 DEF NotFoundIsCovered
<1>8. ReadIsCovered'
  <2>1. ASSUME NEW d \in Docs, Covers(paths, d) PROVE TouchesMarkdown(paths)
    BY <2>1 DEF Covers, TouchesMarkdown
  <2> QED
    BY <1>1, <1>2, <1>5, <2>1 DEF ReadIsCovered
<1>9. JobShape'
  BY <1>1, <1>2 DEF JobShape
<1> QED
  BY <1>2, <1>3, <1>6, <1>7, <1>8, <1>9
     DEF CoverInv, StartingIsQuiet, EditHasId

\* Inside a refresh: only the job changes.
LEMMA ListFilesCover == TypeOK /\ CoverInv /\ ListFiles => CoverInv'
<1> SUFFICES ASSUME TypeOK, CoverInv, ListFiles PROVE CoverInv'
  OBVIOUS
<1> DEFINE found == {d \in Docs : disk[d] # Absent}
           known == {d \in Docs : job.files[d] # Absent}
           changed == (known \ found) \cup (found \ known)
                        \cup ((job.paths \cap Docs)
                               \cup (IF All \in job.paths THEN found ELSE {}))
<1>1. /\ job' = [job EXCEPT !.at = "read", !.found = found,
                            !.changed = changed, !.todo = changed]
      /\ UNCHANGED <<disk, snapshot, store, forgotten, events, pending, edit,
                     timer, editQueue, queue>>
      /\ job.at = "list"
  BY DEF ListFiles, env, watch, editing, closing, history
<1>2. /\ job'.at = "read" /\ job'.found = found /\ job'.changed = changed
      /\ job'.todo = changed /\ job'.files = job.files
      /\ job'.paths = job.paths
  BY <1>1 DEF TypeOK, Job
<1>3. \A d \in Docs : Waiting(d)' <=> Waiting(d)
  BY <1>1 DEF Waiting, QueueCovers
<1>4. StaleIsCovered'
  BY <1>1, <1>2, <1>3 DEF CoverInv, StaleIsCovered, Running
<1>5. NotFoundIsCovered'
  BY <1>1, <1>2 DEF NotFoundIsCovered
<1>6. ASSUME NEW d \in Docs \ changed, store = "open"
      PROVE  job.files[d] = disk[d] \/ Waiting(d) \/ d \in forgotten
  <2>1. CASE disk[d] = Absent
    BY <2>1
  <2>2. CASE disk[d] # Absent
    <3>1. ~Running(d)
      BY <2>2 DEF Running, Covers
    <3> QED
      BY <1>1, <1>6, <3>1 DEF CoverInv, StaleIsCovered, JobShape
  <2> QED
    BY <2>1, <2>2
<1> HIDE DEF found, known, changed
<1>7. ReadIsCovered'
  BY <1>1, <1>2, <1>3, <1>6 DEF ReadIsCovered
<1>8. JobShape'
  BY <1>2 DEF JobShape
<1> QED
  BY <1>1, <1>2, <1>4, <1>5, <1>7, <1>8 DEF CoverInv, StartingIsQuiet, EditHasId

LEMMA ReadFileCover ==
  ASSUME TypeOK, CoverInv, NEW d \in Docs, ReadFile(d)
  PROVE  CoverInv'
<1>1. /\ UNCHANGED <<disk, snapshot, store, forgotten, events, pending, edit,
                     timer, editQueue, queue>>
      /\ job.at = "read"
  BY DEF ReadFile, env, watch, editing, closing, history
<1>2. /\ job'.at = "read" /\ job'.found = job.found
      /\ job'.changed = job.changed /\ job'.todo = job.todo \ {d}
      /\ job'.files = [job.files EXCEPT ![d] = IF d \in job.found THEN disk[d]
                                               ELSE Absent]
      /\ job'.paths = job.paths
  BY DEF ReadFile, TypeOK, Job
<1>3. \A x \in Docs : Waiting(x)' <=> Waiting(x)
  BY <1>1 DEF Waiting, QueueCovers
<1>4. StaleIsCovered' /\ NotFoundIsCovered'
  BY <1>1, <1>2, <1>3
     DEF CoverInv, StaleIsCovered, NotFoundIsCovered, Running
<1>5. ASSUME store = "open", NEW x \in Docs \ job'.todo
      PROVE  job'.files[x] = disk[x] \/ Waiting(x)
               \/ x \in forgotten \ job.changed
  <2>1. CASE x = d
    BY <1>1, <1>2, <1>5, <2>1 DEF CoverInv, NotFoundIsCovered, TypeOK, Job
  <2>2. CASE x # d
    BY <1>1, <1>2, <1>5, <2>2 DEF CoverInv, ReadIsCovered, TypeOK, Job
  <2> QED
    BY <2>1, <2>2
<1>6. ReadIsCovered'
  BY <1>1, <1>2, <1>3, <1>5 DEF ReadIsCovered
<1>7. JobShape'
  BY <1>2 DEF CoverInv, JobShape
<1> QED
  BY <1>1, <1>2, <1>4, <1>6, <1>7 DEF CoverInv, StartingIsQuiet, EditHasId

\* Reading Git and building the snapshot keep what has been read.
LEMMA AdvanceCover ==
  ASSUME TypeOK, CoverInv,
         ReadsDone \/ BuildSnapshot \/ \E ok \in BOOLEAN : ReadGit(ok)
  PROVE  CoverInv'
<1>1. /\ UNCHANGED <<disk, snapshot, store, forgotten, events, pending, edit,
                     timer, editQueue, queue>>
      /\ job.at \in {"read", "git", "build"} /\ job.todo = {}
      /\ job'.at \in {"git", "build", "publish"}
      /\ job'.files = job.files /\ job'.changed = job.changed
      /\ job'.todo = job.todo /\ job'.paths = job.paths
  BY DEF ReadsDone, BuildSnapshot, ReadGit, TypeOK, CoverInv, JobShape, Job,
         env, watch, editing, closing, history
<1>2. \A d \in Docs : Waiting(d)' <=> Waiting(d)
  BY <1>1 DEF Waiting, QueueCovers
<1>3. (StaleIsCovered /\ NotFoundIsCovered /\ ReadIsCovered /\ JobShape)'
  BY <1>1, <1>2 DEF CoverInv, StaleIsCovered, NotFoundIsCovered, ReadIsCovered,
                    JobShape, Running
<1> QED
  BY <1>1, <1>3 DEF CoverInv, StartingIsQuiet, EditHasId

\* A refresh that ends well leaves a snapshot that shows what it read.
LEMMA FinishCover ==
  ASSUME TypeOK, CoverInv, NothingChanged \/ PublishSnapshot
  PROVE  CoverInv'
<1>0. Settle("saved") /\ job.at \in {"build", "publish"}
  BY DEF NothingChanged, PublishSnapshot
<1>1. /\ UNCHANGED <<disk, store, pending, queue, timer, editQueue>>
      /\ events \ {Ext} \subseteq events'
      /\ forgotten' = forgotten \ job.changed
      /\ snapshot'.files = job.files
      /\ job.at \in {"build", "publish"} /\ job.todo = {}
  <2>1. job.todo = {}
    BY <1>0 DEF CoverInv, JobShape
  <2>2. UNCHANGED editQueue
    BY <1>0 DEF Settle
  <2>3. CASE NothingChanged
    BY <1>0, <2>1, <2>2, <2>3
       DEF NothingChanged, NeedsSnapshot, MarkdownChanged, env, watch, closing
  <2>4. CASE PublishSnapshot
    BY <1>0, <2>1, <2>2, <2>4 DEF PublishSnapshot, env, closing
  <2> QED
    BY <2>3, <2>4
<1>2. job' = IdleJob /\ (edit' = edit \/ edit' = IdleEdit)
  BY <1>0 DEF Settle
<1>3. job'.at = "idle" /\ job'.todo = {} /\ job'.changed = {}
  BY <1>2 DEF IdleJob
<1>4. \A d \in Docs : Waiting(d) => Waiting(d)'
  BY <1>1, TokenAssumption DEF Waiting, QueueCovers
<1>5. StaleIsCovered'
  BY <1>1, <1>4 DEF CoverInv, ReadIsCovered, StaleIsCovered
<1>6. (NotFoundIsCovered /\ ReadIsCovered /\ JobShape)'
  BY <1>3 DEF NotFoundIsCovered, ReadIsCovered, JobShape
<1>7. EditHasId'
  BY <1>2 DEF CoverInv, EditHasId, IdleEdit
<1>8. StartingIsQuiet'
  BY <1>1 DEF CoverInv, StartingIsQuiet
<1> QED
  BY <1>5, <1>6, <1>7, <1>8 DEF CoverInv

\* A refresh that rejects is remembered in forgotten.
LEMMA FailCover == TypeOK /\ CoverInv /\ RefreshFails => CoverInv'
<1> SUFFICES ASSUME TypeOK, CoverInv, RefreshFails PROVE CoverInv'
  OBVIOUS
<1>1. /\ UNCHANGED <<disk, store, pending, queue, timer, editQueue, events,
                     snapshot>>
      /\ forgotten' = forgotten \cup
                        (IF All \in job.paths THEN Docs ELSE job.paths \cap Docs)
      /\ job.at # "idle" /\ Settle("error")
  <2>1. Settle("error")
    BY DEF RefreshFails
  <2>2. UNCHANGED editQueue
    BY <2>1 DEF Settle
  <2> QED
    BY <2>1, <2>2 DEF RefreshFails, env, watch, closing
<1>2. job' = IdleJob /\ (edit' = edit \/ edit' = IdleEdit)
  BY <1>1 DEF Settle
<1>3. job'.at = "idle" /\ job'.todo = {} /\ job'.changed = {}
  BY <1>2 DEF IdleJob
<1>4. \A d \in Docs : Waiting(d)' <=> Waiting(d)
  BY <1>1 DEF Waiting, QueueCovers
<1>5. \A d \in Docs : Running(d) => d \in forgotten'
  BY <1>1 DEF Running, Covers
<1>6. StaleIsCovered'
  BY <1>1, <1>4, <1>5 DEF CoverInv, StaleIsCovered
<1>7. (NotFoundIsCovered /\ ReadIsCovered /\ JobShape)'
  BY <1>3 DEF NotFoundIsCovered, ReadIsCovered, JobShape
<1>8. EditHasId'
  BY <1>2 DEF CoverInv, EditHasId, IdleEdit
<1>9. StartingIsQuiet'
  BY <1>1 DEF CoverInv, StartingIsQuiet
<1> QED
  BY <1>6, <1>7, <1>8, <1>9 DEF CoverInv

(***************************************************************************)
(* The editor.                                                             *)
(***************************************************************************)
LEMMA RunEditCover == TypeOK /\ CoverInv /\ RunEdit => CoverInv'
<1> SUFFICES ASSUME TypeOK, CoverInv, RunEdit PROVE CoverInv'
  OBVIOUS
<1> USE DEF env, watch, refreshes, closing
<1>0. ASSUME NEW e, NEW o, Answer(e, o) PROVE edit'.at = "idle"
  BY <1>0 DEF Answer, IdleEdit
<1>1. store # "starting" /\ UNCHANGED store
  BY DEF RunEdit, StartEdit, EditRead, EditCheck, EditRename, EditRefresh,
         CoverInv, StartingIsQuiet
<1>2. EditHasId'
  <2>1. CASE StartEdit
    <3>1. Head(editQueue) \in Edits
      BY <2>1 DEF StartEdit, TypeOK
    <3>2. CASE Answer(Head(editQueue), "notfound")
      BY <1>0, <3>2 DEF EditHasId
    <3>3. CASE edit' = [IdleEdit EXCEPT !.id = Head(editQueue), !.at = "read"]
      BY <3>1, <3>3 DEF EditHasId, IdleEdit
    <3> QED
      BY <2>1, <3>2, <3>3 DEF StartEdit
  <2>2. ASSUME NEW conflict \in BOOLEAN, EditRead(conflict) PROVE EditHasId'
    BY <2>2, <1>0 DEF EditRead, EditHasId, TypeOK, EditState, CoverInv
  <2>3. CASE EditCheck
    BY <2>3, <1>0 DEF EditCheck, EditHasId, TypeOK, EditState, CoverInv
  <2>4. CASE EditRename \/ EditRefresh
    BY <2>4, <1>0 DEF EditRename, EditRefresh, EditHasId, TypeOK, EditState,
                      CoverInv
  <2> QED
    BY <2>1, <2>2, <2>3, <2>4 DEF RunEdit
<1>3. (StaleIsCovered /\ NotFoundIsCovered /\ ReadIsCovered /\ JobShape)'
  <2>1. CASE \/ StartEdit \/ EditCheck
             \/ \E conflict \in BOOLEAN : EditRead(conflict)
    <3>1. UNCHANGED <<store, job, snapshot, disk, forgotten, events, pending,
                      queue>>
      BY <2>1 DEF StartEdit, EditCheck, EditRead
    <3> QED
      BY <3>1, StableCover DEF Waiting, QueueCovers
  <2>2. CASE EditRename
    <3>1. Target[edit.id] \in Docs
      BY <2>2, TargetAssumption DEF EditRename, CoverInv, EditHasId
    <3> QED
      BY <2>2, <3>1, DiskCover DEF EditRename
  <2>3. CASE EditRefresh
    <3>1. [paths |-> {Target[edit.id]}, poll |-> FALSE, waiter |-> edit.id]
            \in Request
      BY <2>3, TargetAssumption
         DEF EditRefresh, CoverInv, EditHasId, Request, Paths
    <3>2. UNCHANGED <<store, job, snapshot, disk, forgotten, events, pending>>
      BY <2>3 DEF EditRefresh
    <3>3. ASSUME NEW d \in Docs, Waiting(d), store = "open" PROVE Waiting(d)'
      BY <2>3, <3>1, <3>2, <3>3, AppendCovers DEF EditRefresh, Waiting, TypeOK
    <3> QED
      BY <3>2, <3>3, StableCover
  <2> QED
    BY <2>1, <2>2, <2>3 DEF RunEdit
<1> QED
  BY <1>1, <1>2, <1>3 DEF CoverInv, StartingIsQuiet

(***************************************************************************)
(* The theorems.                                                           *)
(***************************************************************************)
LEMMA Inductive == IInv /\ [Next]_vars => IInv'
<1> SUFFICES ASSUME IInv, [Next]_vars PROVE IInv'
  OBVIOUS
<1> USE DEF IInv
<1>1. CASE Environment
  BY <1>1, EnvironmentTypes, EnvironmentCover
<1>2. CASE \/ StartWatching \/ DebounceFires \/ GitPollTick
           \/ \E p \in Paths, named \in BOOLEAN : ScheduleRefresh(p, named)
  BY <1>2, OtherTypes, WatchCover
<1>3. CASE RunRefresh
  <2>1. CoverInv'
    BY <1>3, StartRefreshCover, ListFilesCover, ReadFileCover, AdvanceCover,
       FinishCover DEF RunRefresh
  <2> QED
    BY <1>3, <2>1, RunRefreshTypes
<1>4. CASE RefreshFails
  BY <1>4, OtherTypes, FailCover
<1>5. CASE RunEdit
  BY <1>5, RunEditTypes, RunEditCover DEF CoverInv
<1>6. CASE Close \/ CloseDone
  BY <1>6, OtherTypes, CloseCover
<1>7. CASE UNCHANGED vars
  <2>1. UNCHANGED <<disk, head, ext, spent, events, extWatch, pending, timer,
                    pollQueued, queue, job, snapshot, fails>>
    BY <1>7 DEF vars, env, watch, refreshes
  <2>2. UNCHANGED <<editQueue, edit, base, reply, store, closeWaits,
                    forgotten, since, erased>>
    BY <1>7 DEF vars, editing, closing, history
  <2>3. TypeOK'
    BY <2>1, <2>2 DEF TypeOK
  <2>4. CoverInv'
    BY <2>1, <2>2 DEF CoverInv, StaleIsCovered, NotFoundIsCovered,
       ReadIsCovered, JobShape, StartingIsQuiet, EditHasId, Waiting, Running,
       QueueCovers, Covers
  <2> QED
    BY <2>3, <2>4
<1> QED
  BY <1>1, <1>2, <1>3, <1>4, <1>5, <1>6, <1>7 DEF Next

LEMMA Initially == Init => IInv
<1> SUFFICES ASSUME Init PROVE IInv
  OBVIOUS
<1>1. TypeOK
  BY InitTypes
<1>2. CoverInv
  BY DEF Init, CoverInv, StaleIsCovered, NotFoundIsCovered, ReadIsCovered,
         JobShape, StartingIsQuiet, EditHasId, IdleJob, IdleEdit
<1> QED
  BY <1>1, <1>2 DEF IInv

\* Every variable of the store keeps its type.
THEOREM TypeCorrect == Spec => []TypeOK
<1>1. IInv => TypeOK
  BY DEF IInv
<1> QED
  BY <1>1, Initially, Inductive, PTL DEF Spec

\* Whatever the interleaving of writers, watcher callbacks, timers, edits and
\* refreshes, an open store never shows a document differently from the disk
\* without somebody still owing it a look, except for the changes it was never
\* told of and the ones whose refresh rejected.
THEOREM StaleDocumentsAreCovered == Spec => []StaleIsCovered
<1>1. IInv => StaleIsCovered
  BY DEF IInv, CoverInv
<1> QED
  BY <1>1, Initially, Inductive, PTL DEF Spec

(***************************************************************************)
(* Generations.  Nothing replaces the snapshot between the moment a        *)
(* refresh copies it and the moment it publishes.                          *)
(***************************************************************************)
GenerationInv ==
  /\ job.at # "idle" => \A d \in Docs \ job.changed : job.files[d] = snapshot.files[d]
  /\ job.at = "publish" =>
       /\ job.generation = snapshot.generation + 1
       /\ job.markdownGeneration = snapshot.markdownGeneration + (IF MarkdownChanged THEN 1 ELSE 0)

\* Only PublishSnapshot replaces the snapshot, and then the refresh is over.
LEMMA OnlyPublishing ==
  ASSUME [Next]_vars
  PROVE  \/ PublishSnapshot /\ job'.at = "idle"
         \/ UNCHANGED snapshot /\ (job' = job \/ job'.at = "idle" \/ RunRefresh)
<1>1. CASE PublishSnapshot
  BY <1>1 DEF PublishSnapshot, Settle, IdleJob
<1>2. CASE Environment \/ StartWatching \/ Close \/ CloseDone
  BY <1>2 DEF Environment, Commit, ExternalSourceChange, ExternalWrite, ExternalDelete,
     SubmitEdit, StartWatching, Close, CloseDone, refreshes
<1>3. CASE DebounceFires \/ GitPollTick
  BY <1>3 DEF DebounceFires, GitPollTick
<1>4. CASE \E p \in Paths, named \in BOOLEAN : ScheduleRefresh(p, named)
  BY <1>4 DEF ScheduleRefresh, refreshes
<1>5. CASE RefreshFails
  <2>1. UNCHANGED snapshot /\ Settle("error")
    BY <1>5 DEF RefreshFails
  <2> QED
    BY <2>1 DEF Settle, IdleJob
<1>6. CASE RunRefresh /\ ~PublishSnapshot
  BY <1>6 DEF RunRefresh, StartRefresh, ListFiles, ReadsDone, NothingChanged,
     BuildSnapshot, ReadFile, ReadGit
<1>7. CASE RunEdit
  BY <1>7 DEF RunEdit, StartEdit, EditRead, EditCheck, EditRename, EditRefresh, refreshes
<1>8. CASE UNCHANGED vars
  BY <1>8 DEF vars, refreshes
<1> QED
  BY <1>1, <1>2, <1>3, <1>4, <1>5, <1>6, <1>7, <1>8 DEF Next

LEMMA GenerationStep == IInv /\ GenerationInv /\ [Next]_vars => GenerationInv'
<1> SUFFICES ASSUME TypeOK, JobShape, GenerationInv, [Next]_vars PROVE GenerationInv'
  BY DEF IInv, CoverInv
<1>1. CASE job'.at = "idle"
  BY <1>1 DEF GenerationInv
<1>2. CASE UNCHANGED <<snapshot, job>>
  BY <1>2 DEF GenerationInv, MarkdownChanged
<1>3. CASE RunRefresh /\ UNCHANGED snapshot /\ job'.at # "idle"
  <2>1. CASE StartRefresh
    <3>1. job'.files = snapshot.files /\ job'.at # "publish"
      BY <2>1 DEF StartRefresh, IdleJob, NoFiles
    <3> QED
      BY <1>3, <3>1 DEF GenerationInv
  <2>2. CASE ListFiles
    BY <2>2, <1>3 DEF ListFiles, GenerationInv, JobShape, TypeOK, Job
  <2>3. CASE ReadsDone
    BY <2>3, <1>3 DEF ReadsDone, GenerationInv, TypeOK, Job
  <2>4. CASE NothingChanged \/ PublishSnapshot
    <3>1. Settle("saved")
      BY <2>4 DEF NothingChanged, PublishSnapshot
    <3> QED
      BY <3>1, <1>3 DEF Settle, IdleJob
  <2>5. CASE BuildSnapshot
    BY <2>5, <1>3 DEF BuildSnapshot, GenerationInv, MarkdownChanged, TypeOK, Job
  <2>6. ASSUME NEW d \in Docs, ReadFile(d) PROVE GenerationInv'
    <3>1. d \in job.changed /\ job'.changed = job.changed /\ job'.at = "read"
      BY <2>6 DEF ReadFile, JobShape, TypeOK, Job
    <3>2. \A e \in Docs \ {d} : job'.files[e] = job.files[e]
      BY <2>6 DEF ReadFile, TypeOK, Job
    <3> QED
      BY <3>1, <3>2, <1>3, <2>6 DEF GenerationInv, ReadFile
  <2>7. ASSUME NEW ok \in BOOLEAN, ReadGit(ok) PROVE GenerationInv'
    <3>1. job'.at = "build" /\ job'.files = job.files /\ job'.changed = job.changed /\ job.at = "git"
      BY <2>7 DEF ReadGit, TypeOK, Job
    <3> QED
      BY <3>1, <1>3 DEF GenerationInv
  <2> QED
    BY <1>3, <2>1, <2>2, <2>3, <2>4, <2>5, <2>6, <2>7 DEF RunRefresh
<1> QED
  BY <1>1, <1>2, <1>3, OnlyPublishing

\* A generation names one snapshot, although it is computed before an await: no
\* refresh, save or poll replaces the snapshot between the copy a refresh makes and
\* its publication, which therefore counts one replacement, and one of the
\* documents exactly if they differ, and puts back no older document.
THEOREM GenerationsAreSound == Spec => GenerationsIdentifySnapshots
<1> DEFINE Counts ==
      snapshot' # snapshot =>
        /\ snapshot'.generation = snapshot.generation + 1
        /\ snapshot'.markdownGeneration - snapshot.markdownGeneration
             = IF snapshot'.files # snapshot.files THEN 1 ELSE 0
        /\ job.at = "publish" =>
             \A d \in Docs \ job.changed : snapshot'.files[d] = snapshot.files[d]
<1>1. TypeOK /\ GenerationInv /\ [Next]_vars => [Counts]_vars
  <2> SUFFICES ASSUME TypeOK, GenerationInv, Next, snapshot' # snapshot PROVE Counts
    BY DEF vars, refreshes
  <2>1. PublishSnapshot
    BY OnlyPublishing
  <2>2. snapshot.markdownGeneration \in Nat
    BY DEF TypeOK, Snapshot
  <2> QED
    BY <2>1, <2>2 DEF PublishSnapshot, MarkdownChanged, GenerationInv
<1>2. IInv => TypeOK
  BY DEF IInv
<1>3. Init => GenerationInv
  BY DEF Init, IdleJob, GenerationInv
<1> QED
  BY <1>1, <1>2, <1>3, Initially, Inductive, GenerationStep, PTL DEF Spec, GenerationsIdentifySnapshots

(***************************************************************************)
(* Saves.  An acknowledged save must outlive the next edit of the same     *)
(* document, and the refresh it waits for must show it.                    *)
(***************************************************************************)
\* A save stands in line once, unanswered; the edit that runs has left the line.
EditLine ==
  /\ \A i \in DOMAIN editQueue :
       /\ reply[editQueue[i]] = "queued"
       /\ edit.at # "idle" => editQueue[i] # edit.id
  /\ \A i, j \in DOMAIN editQueue : editQueue[i] = editQueue[j] => i = j
  /\ edit.at # "idle" => reply[edit.id] = "queued"

\* The running edit waits for this refresh, which looks at its document.
Awaits(r) ==
  edit.at = "wait" /\ r.waiter = edit.id /\ r.paths = {Target[edit.id]}

\* At most one refresh, queued or running, has a waiter.
OneWaiter ==
  /\ job.waiter # None =>
       Awaits(job) /\ \A i \in DOMAIN queue : queue[i].waiter = None
  /\ \A i \in DOMAIN queue : queue[i].waiter # None => Awaits(queue[i])
  /\ \A i, j \in DOMAIN queue :
       queue[i].waiter # None /\ queue[j].waiter # None => i = j

\* The save has been renamed over the document and is not refused.
Landed(e) ==
  reply[e] = "saved" \/ (e = edit.id /\ edit.at \in {"refresh", "wait"})

LandedIsKept ==
  \A e \in Edits : Landed(e) /\ Target[e] \notin erased
                     => disk[Target[e]] # Absent /\ e \in disk[Target[e]]

\* What the next rename writes holds every acknowledged save of the document:
\* edits run one at a time, so none can land between the check and the rename.
MergeIsWhole ==
  /\ edit.at \in {"check", "rename"} =>
       edit.current # Absent /\ edit.next = edit.current \cup {edit.id}
  /\ edit.at = "rename" =>
       \A e \in Edits :
         reply[e] = "saved" /\ Target[e] = Target[edit.id] /\ Target[e] \notin erased
           => e \in edit.current

SinceHoldsDisk ==
  edit.at \in {"refresh", "wait"} => disk[Target[edit.id]] \in since[edit.id]

\* A refresh with a waiter lists, and what it holds of the waiter's document
\* was read after the rename.
ReadSince ==
  job.waiter # None =>
    /\ job.at # "idle"
    /\ job.at = "read" /\ Target[edit.id] \notin job.found
         => Absent \in since[edit.id]
    /\ job.at # "list" /\ Target[edit.id] \notin job.todo
         => job.files[Target[edit.id]] \in since[edit.id]

SavedInv ==
  /\ EditLine /\ OneWaiter /\ LandedIsKept /\ MergeIsWhole
  /\ SinceHoldsDisk /\ ReadSince

\* A step that leaves documents and edits alone.
LEMMA StillSaved ==
  ASSUME SavedInv,
         UNCHANGED <<disk, since, erased, editQueue, edit, reply, queue, job>>
  PROVE  SavedInv'
BY DEF SavedInv, EditLine, OneWaiter, Awaits, LandedIsKept, Landed,
       MergeIsWhole, SinceHoldsDisk, ReadSince

\* Another program's change of a document.
LEMMA DiskSaved ==
  ASSUME TypeOK, EditHasId, SavedInv, NEW d \in Docs, NEW c \in Stored,
         DiskBecomes(d, c), since' = Seen(d, c),
         UNCHANGED <<editQueue, edit, reply, queue, job>>,
         erased \subseteq erased',
         d \notin erased' => c # Absent /\ (disk[d] # Absent => disk[d] \subseteq c)
  PROVE  SavedInv'
<1>1. disk' = [disk EXCEPT ![d] = c]
  BY DEF DiskBecomes
<1>2. EditLine' /\ OneWaiter'
  BY DEF SavedInv, EditLine, OneWaiter, Awaits
<1>3. LandedIsKept'
  BY <1>1, TargetAssumption DEF SavedInv, LandedIsKept, Landed, TypeOK
<1>4. MergeIsWhole'
  BY DEF SavedInv, MergeIsWhole
<1>5. \A e \in Edits : since[e] \subseteq since'[e]
  BY DEF Seen
<1>6. SinceHoldsDisk'
  <2> SUFFICES ASSUME edit.at \in {"refresh", "wait"}
               PROVE  disk'[Target[edit.id]] \in since'[edit.id]
    BY DEF SinceHoldsDisk
  <2>1. edit.id \in Edits /\ disk[Target[edit.id]] \in since[edit.id]
    BY DEF SavedInv, SinceHoldsDisk, EditHasId
  <2> QED
    BY <1>1, <1>5, <2>1, TargetAssumption DEF Seen, TypeOK
<1>7. ReadSince'
  BY <1>5 DEF SavedInv, ReadSince, OneWaiter, Awaits, EditHasId
<1> QED
  BY <1>2, <1>3, <1>4, <1>6, <1>7 DEF SavedInv

LEMMA EnvironmentSaved ==
  TypeOK /\ EditHasId /\ SavedInv /\ Environment => SavedInv'
<1> SUFFICES ASSUME TypeOK, EditHasId, SavedInv, Environment PROVE SavedInv'
  OBVIOUS
<1> USE DEF env, watch, refreshes, editing, closing, history
<1>1. ASSUME NEW d \in Docs, NEW w \in Writes, ExternalWrite(d, w)
      PROVE  SavedInv'
  <2> DEFINE c == IF disk[d] = Absent THEN {w} ELSE disk[d] \cup {w}
  <2>1. c \in Stored /\ c # Absent /\ (disk[d] # Absent => disk[d] \subseteq c)
    BY TokenAssumption DEF TypeOK, Stored, Content
  <2>2. /\ DiskBecomes(d, c) /\ since' = Seen(d, c)
        /\ UNCHANGED <<editQueue, edit, reply, queue, job, erased>>
    BY <1>1 DEF ExternalWrite
  <2> HIDE DEF c
  <2> QED
    BY <2>1, <2>2, DiskSaved
<1>2. ASSUME NEW d \in Docs, NEW w \in Writes, ExternalDelete(d, w)
      PROVE  SavedInv'
  <2>1. Absent \in Stored
    BY DEF Stored
  <2>2. /\ DiskBecomes(d, Absent) /\ since' = Seen(d, Absent)
        /\ UNCHANGED <<editQueue, edit, reply, queue, job>>
        /\ erased' = erased \cup {d}
    BY <1>2 DEF ExternalDelete
  <2> QED
    BY <2>1, <2>2, DiskSaved
<1>3. CASE Commit \/ ExternalSourceChange
  BY <1>3, StillSaved DEF Commit, ExternalSourceChange
<1>4. ASSUME NEW e \in Edits, SubmitEdit(e) PROVE SavedInv'
  <2>1. /\ UNCHANGED <<disk, since, erased, edit, queue, job>>
        /\ reply[e] = "unsent" /\ reply' = [reply EXCEPT ![e] = "queued"]
        /\ editQueue' = Append(editQueue, e)
    BY <1>4 DEF SubmitEdit
  <2>2. EditLine'
    <3>1. \A i \in DOMAIN editQueue' :
            editQueue'[i] = IF i \in DOMAIN editQueue THEN editQueue[i] ELSE e
      BY <2>1 DEF TypeOK
    <3>2. \A i \in DOMAIN editQueue : editQueue[i] \in Edits /\ editQueue[i] # e
      BY <2>1 DEF SavedInv, EditLine, TypeOK
    <3>3. \A i, j \in DOMAIN editQueue' :
            i \notin DOMAIN editQueue /\ j \notin DOMAIN editQueue => i = j
      BY <2>1 DEF TypeOK
    <3>4. edit.at # "idle" => edit.id # e /\ edit.id \in Edits
      BY <2>1 DEF SavedInv, EditLine, EditHasId
    <3> QED
      BY <2>1, <3>1, <3>2, <3>3, <3>4 DEF SavedInv, EditLine, TypeOK
  <2>3. \A x \in Edits : reply'[x] = "saved" <=> reply[x] = "saved"
    BY <2>1 DEF TypeOK
  <2>4. LandedIsKept' /\ MergeIsWhole'
    BY <2>1, <2>3 DEF SavedInv, LandedIsKept, Landed, MergeIsWhole
  <2>5. OneWaiter' /\ SinceHoldsDisk' /\ ReadSince'
    BY <2>1 DEF SavedInv, OneWaiter, Awaits, SinceHoldsDisk, ReadSince
  <2> QED
    BY <2>2, <2>4, <2>5 DEF SavedInv
<1> QED
  BY <1>1, <1>2, <1>3, <1>4 DEF Environment

\* Who is queued with whom after one more request.
LEMMA AppendRequest ==
  ASSUME queue \in Seq(Request), NEW p, NEW b, NEW w,
         [paths |-> p, poll |-> b, waiter |-> w] \in Request,
         QueueRefresh(p, b, w)
  PROVE  /\ DOMAIN queue \subseteq DOMAIN queue'
         /\ \A i \in DOMAIN queue : queue'[i] = queue[i]
         /\ \A i \in DOMAIN queue' \ DOMAIN queue :
              /\ queue'[i] = [paths |-> p, poll |-> b, waiter |-> w]
              /\ \A j \in DOMAIN queue' : j \notin DOMAIN queue => i = j
BY DEF QueueRefresh

\* A refresh nobody waits for joins the queue.
LEMMA QueueSaved ==
  ASSUME TypeOK, SavedInv, NEW p \in SUBSET Paths, NEW b \in BOOLEAN,
         QueueRefresh(p, b, None),
         UNCHANGED <<disk, since, erased, editQueue, edit, reply, job>>
  PROVE  SavedInv'
<1>1. [paths |-> p, poll |-> b, waiter |-> None] \in Request
  BY DEF Request
<1>2. /\ \A i \in DOMAIN queue : queue'[i] = queue[i]
      /\ \A i \in DOMAIN queue' \ DOMAIN queue : queue'[i].waiter = None
  <2>1. queue \in Seq(Request)
    BY DEF TypeOK
  <2> QED
    BY <1>1, <2>1, AppendRequest
<1>3. OneWaiter'
  BY <1>2 DEF SavedInv, OneWaiter, Awaits
<1> QED
  BY <1>3 DEF SavedInv, EditLine, LandedIsKept, Landed, MergeIsWhole,
              SinceHoldsDisk, ReadSince

LEMMA OtherSaved ==
  ASSUME TypeOK, SavedInv,
         \/ StartWatching \/ DebounceFires \/ GitPollTick \/ Close \/ CloseDone
         \/ \E p \in Paths, named \in BOOLEAN : ScheduleRefresh(p, named)
  PROVE  SavedInv'
<1> USE DEF env, watch, refreshes, editing, closing, history
<1>1. CASE \/ StartWatching \/ Close \/ CloseDone
           \/ \E p \in Paths, named \in BOOLEAN : ScheduleRefresh(p, named)
  BY <1>1, StillSaved DEF StartWatching, Close, CloseDone, ScheduleRefresh
<1>2. CASE DebounceFires
  <2>1. pending \in SUBSET Paths
    BY DEF TypeOK
  <2> QED
    BY <1>2, <2>1, QueueSaved DEF DebounceFires
<1>3. CASE GitPollTick
  BY <1>3, QueueSaved DEF GitPollTick
<1> QED
  BY <1>1, <1>2, <1>3

\* The running refresh takes its waiter along when it leaves the queue.
LEMMA StartRefreshSaved == TypeOK /\ SavedInv /\ StartRefresh => SavedInv'
<1> SUFFICES ASSUME TypeOK, SavedInv, StartRefresh PROVE SavedInv'
  OBVIOUS
<1> DEFINE r == Head(queue)
<1>1. /\ UNCHANGED <<disk, since, erased, editQueue, edit, reply>>
      /\ queue # <<>> /\ queue' = Tail(queue)
  BY DEF StartRefresh, env, editing, history
<1>2. /\ job'.at = IF TouchesMarkdown(r.paths) THEN "list"
                   ELSE IF r.poll THEN "git" ELSE "build"
      /\ job'.paths = r.paths /\ job'.waiter = r.waiter
  BY DEF StartRefresh, IdleJob
<1>3. /\ r = queue[1] /\ 1 \in DOMAIN queue
      /\ \A i \in DOMAIN queue' : /\ i + 1 \in DOMAIN queue /\ i + 1 # 1
                                  /\ queue'[i] = queue[i + 1]
                                  /\ i \in Nat
  BY <1>1 DEF TypeOK
<1>4. OneWaiter'
  <2>1. job'.waiter # None =>
          Awaits(job)' /\ \A i \in DOMAIN queue' : queue'[i].waiter = None
    BY <1>1, <1>2, <1>3 DEF SavedInv, OneWaiter, Awaits
  <2>2. \A i \in DOMAIN queue' : queue'[i].waiter # None => Awaits(queue[i])'
    BY <1>1, <1>3 DEF SavedInv, OneWaiter, Awaits
  <2>3. \A i, j \in DOMAIN queue' :
          queue'[i].waiter # None /\ queue'[j].waiter # None => i = j
    <3> SUFFICES ASSUME NEW i \in DOMAIN queue', NEW j \in DOMAIN queue',
                        queue'[i].waiter # None, queue'[j].waiter # None
                 PROVE  i = j
      OBVIOUS
    <3>1. i + 1 = j + 1
      BY <1>3 DEF SavedInv, OneWaiter
    <3> QED
      BY <1>3, <3>1
  <2> QED
    BY <2>1, <2>2, <2>3 DEF OneWaiter
<1>5. ReadSince'
  <2> SUFFICES ASSUME job'.waiter # None PROVE job'.at = "list"
    BY DEF ReadSince
  <2>1. Awaits(queue[1])
    BY <1>2, <1>3 DEF SavedInv, OneWaiter
  <2>2. r \in Request
    BY <1>1 DEF TypeOK
  <2>3. edit.id \in Edits
    BY <1>2, <1>3, <2>1, <2>2 DEF Awaits, Request
  <2>4. TouchesMarkdown(r.paths)
    BY <1>3, <2>1, <2>3, TargetAssumption DEF Awaits, TouchesMarkdown
  <2> QED
    BY <1>2, <2>4
<1> QED
  BY <1>1, <1>4, <1>5 DEF SavedInv, EditLine, LandedIsKept, Landed,
                          MergeIsWhole, SinceHoldsDisk

\* Listing and reading: what the refresh looks at now, the edit's client may see.
LEMMA ReadSaved ==
  ASSUME TypeOK, EditHasId, JobShape, SavedInv,
         \/ ListFiles \/ ReadsDone \/ BuildSnapshot
         \/ \E d \in Docs : ReadFile(d)
         \/ \E ok \in BOOLEAN : ReadGit(ok)
  PROVE  SavedInv'
<1>1. /\ UNCHANGED <<disk, since, erased, editQueue, edit, reply, queue>>
      /\ job'.waiter = job.waiter /\ job'.paths = job.paths /\ job'.at # "idle"
  BY DEF ListFiles, ReadsDone, BuildSnapshot, ReadFile, ReadGit, TypeOK, Job,
         env, editing, history
<1>2. OneWaiter'
  BY <1>1 DEF SavedInv, OneWaiter, Awaits
<1>3. ASSUME job.waiter # None
      PROVE  /\ edit.id \in Edits /\ Target[edit.id] \in Docs
             /\ disk[Target[edit.id]] \in since[edit.id]
             /\ Target[edit.id] \in job.paths
  BY <1>3, TargetAssumption
     DEF SavedInv, OneWaiter, Awaits, EditHasId, SinceHoldsDisk
<1>4. ReadSince'
  <2> SUFFICES ASSUME job.waiter # None PROVE ReadSince'
    BY <1>1 DEF ReadSince
  <2>1. CASE ListFiles
    <3>1. /\ job'.at = "read"
          /\ job'.found = {d \in Docs : disk[d] # Absent}
          /\ job.paths \cap Docs \subseteq job'.todo
      BY <2>1 DEF ListFiles, TypeOK, Job
    <3> QED
      BY <1>1, <1>3, <3>1 DEF ReadSince
  <2>2. ASSUME NEW d \in Docs, ReadFile(d) PROVE ReadSince'
    <3>1. /\ job.at = "read" /\ job'.at = "read" /\ job'.found = job.found
          /\ job'.todo = job.todo \ {d}
          /\ job'.files = [job.files EXCEPT ![d] = IF d \in job.found
                                                   THEN disk[d] ELSE Absent]
      BY <2>2 DEF ReadFile, TypeOK, Job
    <3>2. Target[edit.id] \notin job'.todo
            => job'.files[Target[edit.id]] \in since[edit.id]
      <4>1. CASE Target[edit.id] = d
        BY <1>3, <3>1, <4>1 DEF SavedInv, ReadSince, TypeOK, Job
      <4>2. CASE Target[edit.id] # d
        BY <1>3, <3>1, <4>2 DEF SavedInv, ReadSince, TypeOK, Job
      <4> QED
        BY <4>1, <4>2
    <3> QED
      BY <1>1, <3>1, <3>2 DEF SavedInv, ReadSince
  <2>3. CASE \/ ReadsDone \/ BuildSnapshot \/ \E ok \in BOOLEAN : ReadGit(ok)
    <3>1. /\ job.at \in {"read", "git", "build"} /\ job'.at # "read"
          /\ job'.files = job.files /\ job'.todo = job.todo
      BY <2>3 DEF ReadsDone, BuildSnapshot, ReadGit, TypeOK, Job
    <3> QED
      BY <1>1, <3>1 DEF SavedInv, ReadSince
  <2> QED
    BY <2>1, <2>2, <2>3
<1> QED
  BY <1>1, <1>2, <1>4 DEF SavedInv, EditLine, LandedIsKept, Landed,
                          MergeIsWhole, SinceHoldsDisk

\* The end of a refresh answers the edit that runs, and none else.
LEMMA SettleSaved ==
  ASSUME TypeOK, EditHasId, SavedInv, NEW o \in {"saved", "error"}, Settle(o),
         UNCHANGED <<disk, erased, queue>>
  PROVE  SavedInv'
<1>1. job' = IdleJob /\ job'.waiter = None /\ UNCHANGED editQueue
  BY DEF Settle, IdleJob
<1>2. ReadSince'
  BY <1>1 DEF ReadSince
<1>3. CASE job.waiter = None
  <2>1. UNCHANGED <<edit, reply, since>>
    BY <1>3 DEF Settle
  <2> QED
    BY <1>1, <1>2, <2>1 DEF SavedInv, EditLine, OneWaiter, Awaits,
       LandedIsKept, Landed, MergeIsWhole, SinceHoldsDisk
<1>4. CASE job.waiter # None
  <2>1. /\ edit' = IdleEdit /\ edit'.at = "idle"
        /\ reply' = [reply EXCEPT ![edit.id] = o]
        /\ edit.at = "wait" /\ edit.id \in Edits
        /\ \A i \in DOMAIN queue : queue[i].waiter = None
    BY <1>4 DEF Settle, IdleEdit, SavedInv, OneWaiter, Awaits, EditHasId
  <2>2. EditLine'
    BY <1>1, <2>1 DEF SavedInv, EditLine, TypeOK
  <2>3. OneWaiter'
    BY <1>1, <2>1 DEF OneWaiter
  <2>4. \A e \in Edits : Landed(e)' => Landed(e)
    BY <2>1 DEF Landed, TypeOK
  <2>5. LandedIsKept'
    BY <2>4 DEF SavedInv, LandedIsKept
  <2> QED
    BY <1>2, <2>1, <2>2, <2>3, <2>5 DEF SavedInv, MergeIsWhole, SinceHoldsDisk
<1> QED
  BY <1>3, <1>4

LEMMA FinishSaved ==
  ASSUME TypeOK, EditHasId, SavedInv,
         NothingChanged \/ PublishSnapshot \/ RefreshFails
  PROVE  SavedInv'
<1>1. UNCHANGED <<disk, erased, queue>>
  BY DEF NothingChanged, PublishSnapshot, RefreshFails, env
<1>2. \E o \in {"saved", "error"} : Settle(o)
  BY DEF NothingChanged, PublishSnapshot, RefreshFails
<1> QED
  BY <1>1, <1>2, SettleSaved

LEMMA RunEditSaved ==
  TypeOK /\ EditHasId /\ SavedInv /\ RunEdit => SavedInv'
<1> SUFFICES ASSUME TypeOK, EditHasId, SavedInv, RunEdit PROVE SavedInv'
  OBVIOUS
<1> USE DEF env, watch, refreshes, closing
\* Until it waits, the running edit has no refresh.
<1>1. edit.at # "wait" =>
        job.waiter = None /\ \A i \in DOMAIN queue : queue[i].waiter = None
  BY DEF SavedInv, OneWaiter, Awaits
\* An edit that is answered before it waits.
<1>2. ASSUME NEW e \in Edits, NEW o \in Answered, Answer(e, o),
             UNCHANGED <<disk, erased, job, queue>>, edit.at # "wait",
             edit.at # "idle" => e = edit.id, o = "saved" => Landed(e),
             \/ UNCHANGED editQueue /\ edit.at # "idle"
             \/ /\ edit.at = "idle" /\ editQueue # <<>> /\ e = Head(editQueue)
                /\ editQueue' = Tail(editQueue)
      PROVE  SavedInv'
  <2>1. /\ edit'.at = "idle" /\ reply' = [reply EXCEPT ![e] = o]
    BY <1>2 DEF Answer, IdleEdit
  <2>2. EditLine'
    <3>1. CASE UNCHANGED editQueue /\ edit.at # "idle"
      BY <1>2, <2>1, <3>1 DEF SavedInv, EditLine, TypeOK
    <3>2. CASE /\ edit.at = "idle" /\ editQueue # <<>> /\ e = Head(editQueue)
               /\ editQueue' = Tail(editQueue)
      <4>1. \A i \in DOMAIN editQueue' :
              /\ i \in Nat /\ i + 1 \in DOMAIN editQueue /\ i + 1 # 1
              /\ editQueue'[i] = editQueue[i + 1]
        BY <3>2 DEF TypeOK
      <4>2. e = editQueue[1] /\ 1 \in DOMAIN editQueue
        BY <3>2 DEF TypeOK
      <4>3. \A i \in DOMAIN editQueue' :
              reply'[editQueue'[i]] = "queued" /\ editQueue'[i] # e
        BY <2>1, <4>1, <4>2 DEF SavedInv, EditLine, TypeOK
      <4>4. ASSUME NEW i \in DOMAIN editQueue', NEW j \in DOMAIN editQueue',
                   editQueue'[i] = editQueue'[j]
            PROVE  i = j
        <5>1. i + 1 = j + 1
          BY <4>1, <4>4 DEF SavedInv, EditLine
        <5> QED
          BY <4>1, <5>1
      <4> QED
        BY <2>1, <4>3, <4>4 DEF EditLine
    <3> QED
      BY <1>2, <3>1, <3>2
  <2>3. OneWaiter'
    BY <1>1, <1>2, <2>1 DEF OneWaiter
  <2>4. \A x \in Edits : Landed(x)' => Landed(x)
    BY <1>2, <2>1 DEF Landed, TypeOK
  <2>5. LandedIsKept'
    BY <1>2, <2>4 DEF SavedInv, LandedIsKept
  <2> QED
    BY <1>1, <1>2, <2>1, <2>2, <2>3, <2>5
       DEF SavedInv, MergeIsWhole, SinceHoldsDisk, ReadSince
\* A step of the running edit that answers nobody and writes nothing.
<1>3. ASSUME UNCHANGED <<disk, erased, since, editQueue, reply, job, queue>>,
             edit'.id = edit.id, edit.at \notin {"idle", "wait", "refresh"},
             edit'.at \in {"read", "check", "rename"}, MergeIsWhole'
      PROVE  SavedInv'
  <2>1. EditLine' /\ OneWaiter'
    BY <1>1, <1>3 DEF SavedInv, EditLine, OneWaiter
  <2>2. LandedIsKept'
    BY <1>3 DEF SavedInv, LandedIsKept, Landed
  <2> QED
    BY <1>1, <1>3, <2>1, <2>2 DEF SavedInv, SinceHoldsDisk, ReadSince
<1>4. CASE StartEdit
  <2> DEFINE e == Head(editQueue)
  <2>1. /\ edit.at = "idle" /\ editQueue # <<>> /\ e \in Edits
        /\ editQueue' = Tail(editQueue)
        /\ UNCHANGED <<disk, erased, job, queue>>
    BY <1>4 DEF StartEdit, TypeOK
  <2>2. CASE Answer(e, "notfound")
    BY <1>2, <2>1, <2>2 DEF Answered
  <2>3. CASE edit' = [IdleEdit EXCEPT !.id = e, !.at = "read"]
             /\ UNCHANGED <<reply, since>>
    <3>1. edit'.id = e /\ edit'.at = "read"
      BY <2>3 DEF IdleEdit
    <3>2. \A i \in DOMAIN editQueue' :
            /\ i \in Nat /\ i + 1 \in DOMAIN editQueue /\ i + 1 # 1
            /\ editQueue'[i] = editQueue[i + 1]
      BY <2>1 DEF TypeOK
    <3>3. e = editQueue[1] /\ 1 \in DOMAIN editQueue
      BY <2>1 DEF TypeOK
    <3>4. \A i \in DOMAIN editQueue' :
            reply[editQueue'[i]] = "queued" /\ editQueue'[i] # e
      BY <3>2, <3>3 DEF SavedInv, EditLine
    <3>5. ASSUME NEW i \in DOMAIN editQueue', NEW j \in DOMAIN editQueue',
                 editQueue'[i] = editQueue'[j]
          PROVE  i = j
      <4>1. i + 1 = j + 1
        BY <3>2, <3>5 DEF SavedInv, EditLine
      <4> QED
        BY <3>2, <4>1
    <3>6. reply[e] = "queued"
      BY <3>3 DEF SavedInv, EditLine
    <3>7. EditLine'
      BY <2>3, <3>1, <3>4, <3>5, <3>6 DEF EditLine
    <3>8. OneWaiter' /\ ReadSince'
      BY <1>1, <2>1 DEF OneWaiter, ReadSince
    <3>9. LandedIsKept' /\ MergeIsWhole' /\ SinceHoldsDisk'
      BY <2>1, <2>3, <3>1
         DEF SavedInv, LandedIsKept, Landed, MergeIsWhole, SinceHoldsDisk
    <3> QED
      BY <3>7, <3>8, <3>9 DEF SavedInv
  <2> QED
    BY <1>4, <2>2, <2>3 DEF StartEdit
<1>5. ASSUME NEW conflict \in BOOLEAN, EditRead(conflict) PROVE SavedInv'
  <2> DEFINE e == edit.id
             c == disk[Target[e]]
  <2>1. /\ edit.at = "read" /\ e \in Edits
        /\ UNCHANGED <<disk, erased, job, queue, editQueue>>
    BY <1>5 DEF EditRead, EditHasId
  <2>2. CASE Answer(e, "error") \/ Answer(e, "conflict")
    BY <1>2, <2>1, <2>2 DEF Answered
  <2>3. CASE /\ c # Absent /\ UNCHANGED <<reply, since>>
             /\ edit' = [edit EXCEPT !.at = "check", !.current = c,
                                     !.next = c \cup {e}]
    <3>1. /\ edit'.at = "check" /\ edit'.id = e /\ edit'.current = c
          /\ edit'.next = c \cup {e}
      BY <2>3 DEF TypeOK, EditState
    <3>2. MergeIsWhole'
      BY <2>3, <3>1 DEF MergeIsWhole
    <3> QED
      BY <1>3, <2>1, <2>3, <3>1, <3>2
  <2> QED
    BY <1>5, <2>2, <2>3 DEF EditRead
<1>6. CASE EditCheck
  <2> DEFINE e == edit.id
             c == disk[Target[e]]
  <2>1. /\ edit.at = "check" /\ e \in Edits
        /\ UNCHANGED <<disk, erased, job, queue, editQueue>>
    BY <1>6 DEF EditCheck, EditHasId
  <2>2. CASE Answer(e, "error") \/ Answer(e, "conflict")
    BY <1>2, <2>1, <2>2 DEF Answered
  <2>3. CASE /\ c = edit.current /\ UNCHANGED <<reply, since>>
             /\ edit' = [edit EXCEPT !.at = "rename"]
    <3>1. /\ edit'.at = "rename" /\ edit'.id = e
          /\ edit'.current = edit.current /\ edit'.next = edit.next
      BY <2>3 DEF TypeOK, EditState
    <3>2. \A x \in Edits :
            reply[x] = "saved" /\ Target[x] = Target[e] /\ Target[x] \notin erased
              => x \in edit.current
      <4> SUFFICES ASSUME NEW x \in Edits, reply[x] = "saved",
                          Target[x] = Target[e], Target[x] \notin erased
                   PROVE  x \in edit.current
        OBVIOUS
      <4>1. x \in disk[Target[x]]
        BY DEF SavedInv, LandedIsKept, Landed
      <4>2. disk[Target[x]] = edit.current
        BY <2>3
      <4> QED
        BY <4>1, <4>2
    <3>3. edit.current # Absent /\ edit.next = edit.current \cup {e}
      BY <2>1 DEF SavedInv, MergeIsWhole
    <3>4. MergeIsWhole'
      BY <2>1, <2>3, <3>1, <3>2, <3>3 DEF MergeIsWhole
    <3> QED
      BY <1>3, <2>1, <2>3, <3>1, <3>4
  <2>4. CASE /\ UNCHANGED <<reply, since>>
             /\ edit' = [edit EXCEPT !.at = "read", !.tries = @ + 1]
    <3>1. edit'.at = "read" /\ edit'.id = e
      BY <2>4 DEF TypeOK, EditState
    <3>2. MergeIsWhole'
      BY <3>1 DEF MergeIsWhole
    <3> QED
      BY <1>3, <2>1, <2>4, <3>1, <3>2
  <2> QED
    BY <1>6, <2>2, <2>3, <2>4 DEF EditCheck
<1>7. CASE EditRename
  <2> DEFINE e == edit.id
             d == Target[e]
  <2>1. /\ edit.at = "rename" /\ e \in Edits /\ d \in Docs
        /\ UNCHANGED <<erased, job, queue, editQueue, reply>>
        /\ edit'.at = "refresh" /\ edit'.id = e
        /\ disk' = [disk EXCEPT ![d] = edit.next]
        /\ since'[e] = {edit.next}
    BY <1>7, TargetAssumption
       DEF EditRename, EditHasId, DiskBecomes, TypeOK, EditState, Seen
  <2>2. edit.next # Absent /\ edit.next = edit.current \cup {e}
    <3>1. edit.current # Absent /\ edit.next = edit.current \cup {e}
      BY <2>1 DEF SavedInv, MergeIsWhole
    <3>2. edit.next \in Content
      BY <2>1, <3>1 DEF TypeOK, EditState, Stored, Content
    <3> QED
      BY <3>1, <3>2, TokenAssumption DEF Content
  <2>3. LandedIsKept'
    <3> SUFFICES ASSUME NEW x \in Edits, Landed(x)', Target[x] \notin erased
                 PROVE  disk'[Target[x]] # Absent /\ x \in disk'[Target[x]]
      BY <2>1 DEF LandedIsKept
    <3>1. CASE Target[x] = d
      <4>1. disk'[Target[x]] = edit.next
        BY <2>1, <3>1 DEF TypeOK
      <4>2. x = e \/ x \in edit.current
        BY <2>1, <3>1 DEF Landed, SavedInv, MergeIsWhole
      <4> QED
        BY <2>2, <4>1, <4>2
    <3>2. CASE Target[x] # d
      <4>1. reply[x] = "saved" /\ disk'[Target[x]] = disk[Target[x]]
        BY <2>1, <3>2, TargetAssumption DEF Landed, TypeOK
      <4> QED
        BY <4>1 DEF SavedInv, LandedIsKept, Landed
    <3> QED
      BY <3>1, <3>2
  <2>4. SinceHoldsDisk'
    BY <2>1 DEF SinceHoldsDisk, TypeOK
  <2>5. EditLine' /\ MergeIsWhole'
    BY <2>1 DEF SavedInv, EditLine, MergeIsWhole
  <2>6. OneWaiter' /\ ReadSince'
    BY <1>1, <2>1 DEF OneWaiter, ReadSince
  <2> QED
    BY <2>3, <2>4, <2>5, <2>6 DEF SavedInv
<1>8. CASE EditRefresh
  <2> DEFINE e == edit.id
  <2>1. /\ edit.at = "refresh" /\ e \in Edits /\ Target[e] \in Docs
        /\ UNCHANGED <<disk, erased, job, editQueue>>
    BY <1>8, TargetAssumption DEF EditRefresh, EditHasId
  <2>2. CASE Answer(e, "saved") /\ UNCHANGED queue
    BY <1>2, <2>1, <2>2 DEF Answered, Landed
  <2>3. CASE /\ QueueRefresh({Target[e]}, FALSE, e)
             /\ edit' = [edit EXCEPT !.at = "wait"]
             /\ UNCHANGED <<reply, since>>
    <3>1. edit'.at = "wait" /\ edit'.id = e
      BY <2>3 DEF TypeOK, EditState
    <3>2. [paths |-> {Target[e]}, poll |-> FALSE, waiter |-> e] \in Request
      BY <2>1 DEF Request, Paths
    <3>3. queue \in Seq(Request)
      BY DEF TypeOK
    <3>0. /\ \A i \in DOMAIN queue : queue'[i] = queue[i]
          /\ \A i \in DOMAIN queue' \ DOMAIN queue :
               /\ queue'[i] = [paths |-> {Target[e]}, poll |-> FALSE, waiter |-> e]
               /\ \A j \in DOMAIN queue' : j \notin DOMAIN queue => i = j
      BY <2>3, <3>2, <3>3 DEF QueueRefresh
    <3>4. /\ \A i \in DOMAIN queue : queue'[i] = queue[i]
          /\ \A i \in DOMAIN queue' \ DOMAIN queue :
               /\ queue'[i].waiter = e /\ queue'[i].paths = {Target[e]}
               /\ \A j \in DOMAIN queue' : j \notin DOMAIN queue => i = j
      BY <3>0
    <3>5. \A i \in DOMAIN queue : queue'[i].waiter = None
      BY <1>1, <2>1, <3>4
    <3>6. OneWaiter'
      <4>1. job'.waiter = None
        BY <1>1, <2>1
      <4>2. \A i \in DOMAIN queue' :
              queue'[i].waiter # None => i \notin DOMAIN queue
        BY <3>5
      <4>3. \A i \in DOMAIN queue' \ DOMAIN queue : Awaits(queue[i])'
        BY <3>1, <3>4 DEF Awaits
      <4> QED
        BY <3>4, <4>1, <4>2, <4>3 DEF OneWaiter
    <3>7. LandedIsKept'
      BY <2>1, <2>3, <3>1 DEF SavedInv, LandedIsKept, Landed
    <3>8. EditLine' /\ MergeIsWhole' /\ SinceHoldsDisk'
      BY <2>1, <2>3, <3>1 DEF SavedInv, EditLine, MergeIsWhole, SinceHoldsDisk
    <3>9. ReadSince'
      BY <1>1, <2>1 DEF ReadSince
    <3> QED
      BY <3>6, <3>7, <3>8, <3>9 DEF SavedInv
  <2> QED
    BY <1>8, <2>2, <2>3 DEF EditRefresh
<1> QED
  BY <1>4, <1>5, <1>6, <1>7, <1>8 DEF RunEdit

LEMMA SavedInductive == IInv /\ SavedInv /\ [Next]_vars => SavedInv'
<1> SUFFICES ASSUME IInv, SavedInv, [Next]_vars PROVE SavedInv'
  OBVIOUS
<1> USE DEF IInv, CoverInv
<1>1. CASE Environment
  BY <1>1, EnvironmentSaved
<1>2. CASE \/ StartWatching \/ DebounceFires \/ GitPollTick \/ Close \/ CloseDone
           \/ \E p \in Paths, named \in BOOLEAN : ScheduleRefresh(p, named)
  BY <1>2, OtherSaved
<1>3. CASE RunRefresh
  BY <1>3, StartRefreshSaved, ReadSaved, FinishSaved DEF RunRefresh
<1>4. CASE RefreshFails
  BY <1>4, FinishSaved
<1>5. CASE RunEdit
  BY <1>5, RunEditSaved
<1>6. CASE UNCHANGED vars
  BY <1>6, StillSaved DEF vars, env, refreshes, editing, history
<1> QED
  BY <1>1, <1>2, <1>3, <1>4, <1>5, <1>6 DEF Next

LEMMA SavedInitially == Init => SavedInv
BY DEF Init, SavedInv, EditLine, OneWaiter, LandedIsKept, Landed, MergeIsWhole,
       SinceHoldsDisk, ReadSince, IdleJob, IdleEdit

\* Whatever other programs write between the reads of an edit and its rename,
\* and however many saves stand in line, a save the editor was told about stays
\* in its document until another program deletes the document.
THEOREM SavesSurvive == Spec => []AcknowledgedEditsSurvive
<1>1. SavedInv => AcknowledgedEditsSurvive
  BY DEF SavedInv, LandedIsKept, Landed, AcknowledgedEditsSurvive
<1> QED
  BY <1>1, Initially, Inductive, SavedInitially, SavedInductive, PTL DEF Spec

\* When editDocument acknowledges a save after its refresh, the snapshot shows
\* the document as it was at some moment after the rename: no earlier batch can
\* answer in the place of that refresh.
THEOREM SavesAreShown == Spec => ReadYourWrites
<1> DEFINE Shown ==
      edit.at = "wait" /\ reply'[edit.id] = "saved"
        => snapshot'.files[Target[edit.id]] \in since[edit.id]
<1>1. IInv /\ SavedInv /\ [Next]_vars => [Shown]_vars
  <2> SUFFICES ASSUME IInv, SavedInv, Next,
                      edit.at = "wait", reply'[edit.id] = "saved"
               PROVE  snapshot'.files[Target[edit.id]] \in since[edit.id]
    OBVIOUS
  <2>1. reply[edit.id] = "queued" /\ edit.id \in Edits
    BY DEF SavedInv, EditLine, IInv, CoverInv, EditHasId
  <2>2. reply' # reply
    BY <2>1
  <2>3. NothingChanged \/ PublishSnapshot
    <3>1. ~Environment
      <4>1. ~\E e \in Edits : SubmitEdit(e)
        BY <2>1 DEF SubmitEdit, IInv, TypeOK
      <4> QED
        BY <2>2, <4>1 DEF Environment, ExternalWrite, ExternalDelete, Commit,
           ExternalSourceChange, editing
    <3>2. ~(\/ StartWatching \/ DebounceFires \/ GitPollTick \/ Close \/ CloseDone
            \/ \E p \in Paths, named \in BOOLEAN : ScheduleRefresh(p, named))
      BY <2>2 DEF StartWatching, DebounceFires, GitPollTick, Close, CloseDone,
         ScheduleRefresh, editing
    <3>3. ~RunEdit
      BY DEF RunEdit, StartEdit, EditRead, EditCheck, EditRename, EditRefresh
    <3>4. ~RefreshFails
      BY <2>1, <2>2 DEF RefreshFails, Settle, SavedInv, OneWaiter, Awaits, IInv,
         TypeOK
    <3>5. ~(\/ StartRefresh \/ ListFiles \/ ReadsDone \/ BuildSnapshot
            \/ \E d \in Docs : ReadFile(d)
            \/ \E ok \in BOOLEAN : ReadGit(ok))
      BY <2>2 DEF StartRefresh, ListFiles, ReadsDone, BuildSnapshot, ReadFile,
         ReadGit, editing
    <3> QED
      BY <3>1, <3>2, <3>3, <3>4, <3>5 DEF Next, RunRefresh
  <2>4. job.waiter # None /\ job.at \in {"build", "publish"}
    BY <2>2, <2>3 DEF NothingChanged, PublishSnapshot, Settle
  <2>5. job.files[Target[edit.id]] \in since[edit.id]
    <3>1. Target[edit.id] \notin job.todo
      BY <2>4 DEF IInv, CoverInv, JobShape
    <3> QED
      BY <2>4, <3>1 DEF SavedInv, ReadSince
  <2>6. snapshot'.files = job.files
    BY <2>3 DEF NothingChanged, PublishSnapshot, NeedsSnapshot, MarkdownChanged
  <2> QED
    BY <2>5, <2>6
<1> QED
  BY <1>1, Initially, Inductive, SavedInitially, SavedInductive, PTL
     DEF Spec, ReadYourWrites
=============================================================================
