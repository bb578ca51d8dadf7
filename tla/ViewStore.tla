------------------------------ MODULE ViewStore ------------------------------
(***************************************************************************)
(* The live project snapshot of `lat ui` (src/view/store.ts).              *)
(*                                                                         *)
(* A ViewStore owns one immutable snapshot of the vault.  File watchers,   *)
(* a Git poll timer and the editor all ask it to refresh; refreshes run    *)
(* one at a time on a promise queue (refreshTail) and editor writes run    *)
(* one at a time on another (editTail).  Every await of the code is a      *)
(* boundary between two actions here, so disk writes of other programs,    *)
(* watcher callbacks, timers and close() interleave with a refresh or an   *)
(* edit wherever the event loop allows it.                                 *)
(*                                                                         *)
(* The content of a document is the set of changes it contains: an editor  *)
(* save adds its own id, another program's write adds one of Writes.  A    *)
(* three-way merge (view/document-edit.ts) is then a union, and a lost     *)
(* update is an id that is missing.                                        *)
(***************************************************************************)
EXTENDS Naturals, Sequences, FiniteSets

CONSTANTS
  Docs,           \* Markdown documents of the vault
  Edits,          \* editor saves (PATCH requests), each sent once
  Writes,         \* changes other programs make; each happens at most once
  Target,         \* the document each edit is for
  Absent,         \* the "content" of a document that does not exist
  None,           \* no edit
  All,            \* the path '': the watcher gave no file name
  Ext,            \* EXTERNAL_REFRESH_PATH: something in an external source
  Attempts,       \* DOCUMENT_EDIT_WRITE_ATTEMPTS
  MaxFail,        \* bound: refreshes that reject
  MaxHead,        \* bound: commits made while the store runs
  MaxExt          \* bound: changes of the external sources

ASSUME TargetAssumption == Target \in [Edits -> Docs]
ASSUME BoundAssumption ==
  /\ Attempts \in Nat \ {0}
  /\ MaxFail \in Nat /\ MaxHead \in Nat /\ MaxExt \in Nat
ASSUME TokenAssumption ==
  /\ All \notin Docs /\ Ext \notin Docs /\ All # Ext
  /\ None \notin Edits
  /\ \A c \in SUBSET (Edits \cup Writes) : c # Absent

VARIABLES
  disk,       \* content of each document on disk
  head,       \* the commit Git compares the vault with
  ext,        \* version of the external sources' local checkouts
  events,     \* paths whose watcher notification is not delivered yet
  store,      \* "starting", "open", "closing" or "closed"
  extWatch,   \* are the external watchers open?
  pending,    \* pendingPaths
  timer,      \* is the debounce timer armed?
  pollQueued, \* gitPollQueued
  queue,      \* refreshes waiting on refreshTail
  job,        \* the refresh that runs
  snapshot,   \* snapshotValue
  editQueue,  \* edits waiting on editTail
  edit,       \* the edit that runs
  base,       \* the content the client of an edit had loaded
  reply,      \* what the client of an edit knows
  closeWaits, \* edits close() waits for (editTail when it was called)
  spent,      \* the members of Writes that have happened
  fails,      \* refreshes that have rejected
  \* History variables: they are only read by properties.
  forgotten,  \* documents whose last change the store was never told of, or
              \* was told of in a batch whose refresh rejected
  since,      \* contents a document has had since an edit was renamed over it
  erased      \* documents another program has deleted

env == <<disk, head, ext, spent>>
watch == <<events, extWatch, pending, timer>>
refreshes == <<pollQueued, queue, job, snapshot, fails>>
editing == <<editQueue, edit, base, reply>>
closing == <<store, closeWaits>>
history == <<forgotten, since, erased>>
vars == <<env, watch, refreshes, editing, closing, history>>

-----------------------------------------------------------------------------
Content == SUBSET (Edits \cup Writes)
Stored == {Absent} \cup Content
Paths == Docs \cup {All, Ext}
Snapshot == [generation : Nat, markdownGeneration : Nat,
             files : [Docs -> Stored], git : Nat, ext : Nat]
Request == [paths : SUBSET Paths, poll : BOOLEAN, waiter : Edits \cup {None}]
Phases == {"idle", "list", "read", "git", "build", "publish"}
Job == [at : Phases, paths : SUBSET Paths, poll : BOOLEAN,
        waiter : Edits \cup {None}, files : [Docs -> Stored],
        found : SUBSET Docs, changed : SUBSET Docs, todo : SUBSET Docs,
        git : Nat, ext : Nat, generation : Nat, markdownGeneration : Nat]
EditPhases == {"idle", "read", "check", "rename", "refresh", "wait"}
EditState == [id : Edits \cup {None}, at : EditPhases, tries : Nat,
              current : Stored, next : Stored]
Replies == {"unsent", "queued", "saved", "conflict", "notfound", "error"}
Answered == {"saved", "conflict", "notfound", "error"}

NoFiles == [d \in Docs |-> Absent]
IdleJob == [at |-> "idle", paths |-> {}, poll |-> FALSE, waiter |-> None,
            files |-> NoFiles, found |-> {}, changed |-> {}, todo |-> {},
            git |-> 0, ext |-> 0, generation |-> 0, markdownGeneration |-> 0]
IdleEdit == [id |-> None, at |-> "idle", tries |-> 0,
             current |-> Absent, next |-> Absent]

\* createViewStore has scanned the vault and built generation 0; the watchers
\* are not open yet.
Init ==
  /\ disk \in [Docs -> {Absent, {}}]
  /\ \E d \in Docs : disk[d] # Absent
  /\ head = 0 /\ ext = 0 /\ spent = {}
  /\ events = {} /\ extWatch = FALSE /\ pending = {} /\ timer = FALSE
  /\ pollQueued = FALSE /\ queue = <<>> /\ job = IdleJob /\ fails = 0
  /\ snapshot = [generation |-> 0, markdownGeneration |-> 0,
                 files |-> disk, git |-> 0, ext |-> 0]
  /\ editQueue = <<>> /\ edit = IdleEdit
  /\ base = [e \in Edits |-> Absent] /\ reply = [e \in Edits |-> "unsent"]
  /\ store = "starting" /\ closeWaits = {}
  /\ forgotten = {} /\ since = [e \in Edits |-> {}] /\ erased = {}

-----------------------------------------------------------------------------
(* Disk, Git and the watchers' notifications.                              *)

\* The root watcher is open exactly while the store is; a change nobody
\* watches raises no notification.
DiskBecomes(d, c) ==
  /\ disk' = [disk EXCEPT ![d] = c]
  /\ events' = IF store = "open" THEN events \cup {d} ELSE events
  /\ forgotten' = IF store = "open" THEN forgotten ELSE forgotten \cup {d}

\* Edits between their rename and their reply see one more content.
Seen(d, c) ==
  [e \in Edits |-> IF Target[e] = d /\ since[e] # {}
                   THEN since[e] \cup {c} ELSE since[e]]

\* Another program adds its change to a document, or creates it.
ExternalWrite(d, w) ==
  /\ w \in Writes \ spent
  /\ spent' = spent \cup {w}
  /\ LET c == IF disk[d] = Absent THEN {w} ELSE disk[d] \cup {w} IN
       /\ DiskBecomes(d, c)
       /\ since' = Seen(d, c)
  /\ UNCHANGED <<head, ext, extWatch, pending, timer, refreshes, editing,
                 closing, erased>>

ExternalDelete(d, w) ==
  /\ w \in Writes \ spent
  /\ disk[d] # Absent
  /\ spent' = spent \cup {w}
  /\ DiskBecomes(d, Absent)
  /\ since' = Seen(d, Absent)
  /\ erased' = erased \cup {d}
  /\ UNCHANGED <<head, ext, extWatch, pending, timer, refreshes, editing,
                 closing>>

Commit ==
  /\ head < MaxHead
  /\ head' = head + 1
  /\ UNCHANGED <<disk, ext, spent, watch, refreshes, editing, closing, history>>

ExternalSourceChange ==
  /\ ext < MaxExt
  /\ ext' = ext + 1
  /\ events' = IF extWatch THEN events \cup {Ext} ELSE events
  /\ UNCHANGED <<disk, head, spent, extWatch, pending, timer, refreshes,
                 editing, closing, history>>

-----------------------------------------------------------------------------
(* Watching and scheduling.                                                *)

StartWatching ==
  /\ store = "starting"
  /\ store' = "open"
  /\ extWatch' = TRUE
  /\ UNCHANGED <<env, events, pending, timer, refreshes, editing, closeWaits,
                 history>>

\* A watcher calls back: scheduleRefresh collects the path and restarts the
\* debounce timer.  fs.watch may leave the file name out.
ScheduleRefresh(p, named) ==
  /\ p \in events
  /\ store = "open"
  /\ events' = events \ {p}
  /\ pending' = pending \cup {IF named \/ p = Ext THEN p ELSE All}
  /\ timer' = TRUE
  /\ UNCHANGED <<env, extWatch, refreshes, editing, closing, history>>

\* queueRefresh chains applyRefresh on refreshTail.
QueueRefresh(paths, poll, waiter) ==
  queue' = Append(queue, [paths |-> paths, poll |-> poll, waiter |-> waiter])

\* Defect: the batch is dropped when a refresh is already running.
DebounceFiresUnlessBusy ==
  /\ timer
  /\ timer' = FALSE
  /\ pending' = {}
  /\ IF job.at = "idle" THEN QueueRefresh(pending, FALSE, None)
     ELSE UNCHANGED queue
  /\ UNCHANGED <<env, events, extWatch, pollQueued, job, snapshot, fails,
                 editing, closing, history>>

DebounceFires ==
  /\ timer
  /\ timer' = FALSE
  /\ pending' = {}
  /\ QueueRefresh(pending, FALSE, None)
  /\ UNCHANGED <<env, events, extWatch, pollQueued, job, snapshot, fails,
                 editing, closing, history>>

GitPollTick ==
  /\ store = "open" /\ ~pollQueued
  /\ pollQueued' = TRUE
  /\ QueueRefresh({}, TRUE, None)
  /\ UNCHANGED <<env, watch, job, snapshot, fails, editing, closing, history>>

-----------------------------------------------------------------------------
(* applyRefresh, one action per await.                                     *)

TouchesMarkdown(paths) == All \in paths \/ paths \cap Docs # {}

StartRefresh ==
  /\ job.at = "idle" /\ queue # <<>>
  /\ LET r == Head(queue) IN
       job' = [IdleJob EXCEPT
                 !.at = IF TouchesMarkdown(r.paths) THEN "list"
                        ELSE IF r.poll THEN "git" ELSE "build",
                 !.paths = r.paths, !.poll = r.poll, !.waiter = r.waiter,
                 !.files = snapshot.files, !.git = snapshot.git]
  /\ queue' = Tail(queue)
  /\ UNCHANGED <<env, watch, pollQueued, snapshot, fails, editing, closing,
                 history>>

\* listLatticeFiles, then the set of documents to look at again: the ones
\* that appeared or disappeared and the ones the batch names.
ListFiles ==
  /\ job.at = "list"
  /\ LET found == {d \in Docs : disk[d] # Absent}
         known == {d \in Docs : job.files[d] # Absent}
         named == (job.paths \cap Docs)
                    \cup (IF All \in job.paths THEN found ELSE {})
         changed == (known \ found) \cup (found \ known) \cup named
     IN job' = [job EXCEPT !.at = "read", !.found = found,
                           !.changed = changed, !.todo = changed]
  /\ UNCHANGED <<env, watch, pollQueued, queue, snapshot, fails, editing,
                 closing, history>>

\* Defect: a document already in memory is not read again.
ReadFileOnce(d) ==
  /\ job.at = "read" /\ d \in job.todo
  /\ job' = [job EXCEPT !.todo = @ \ {d},
                        !.files[d] = IF d \notin job.found THEN Absent
                                     ELSE IF @ = Absent THEN disk[d] ELSE @]
  /\ UNCHANGED <<env, watch, pollQueued, queue, snapshot, fails, editing,
                 closing, history>>

\* readMarkdownFile: a document that was not listed, or has gone since, is
\* dropped.  The code goes through the paths in sorted order; any order here.
ReadFile(d) ==
  /\ job.at = "read" /\ d \in job.todo
  /\ job' = [job EXCEPT !.todo = @ \ {d},
                        !.files[d] = IF d \in job.found THEN disk[d]
                                     ELSE Absent]
  /\ UNCHANGED <<env, watch, pollQueued, queue, snapshot, fails, editing,
                 closing, history>>

ReadsDone ==
  /\ job.at = "read" /\ job.todo = {}
  /\ job' = [job EXCEPT !.at = "git"]
  /\ UNCHANGED <<env, watch, pollQueued, queue, snapshot, fails, editing,
                 closing, history>>

\* readViewGitSnapshot; when it throws, the previous Git state is kept.
ReadGit(ok) ==
  /\ job.at = "git"
  /\ job' = [job EXCEPT !.at = "build", !.git = IF ok THEN head ELSE @]
  /\ ok \/ fails < MaxFail
  /\ fails' = IF ok THEN fails ELSE fails + 1
  /\ UNCHANGED <<env, watch, pollQueued, queue, snapshot, editing, closing,
                 history>>

MarkdownChanged == job.files # snapshot.files
\* A full refresh rescans the code files, which always counts as a change.
NeedsSnapshot ==
  \/ MarkdownChanged
  \/ job.git # snapshot.git
  \/ job.paths \cap {All, Ext} # {}

\* Defect: the poll flag is reset on success only (then instead of finally).
SettleOnSuccess(outcome) ==
  /\ job' = IdleJob
  /\ pollQueued' = IF job.poll /\ outcome = "saved" THEN FALSE ELSE pollQueued
  /\ IF job.waiter = None
     THEN UNCHANGED <<edit, reply, since>>
     ELSE /\ edit' = IdleEdit
          /\ reply' = [reply EXCEPT ![job.waiter] = outcome]
          /\ since' = [since EXCEPT ![job.waiter] = {}]
  /\ UNCHANGED <<editQueue, base>>

\* Defect: a rejected refresh is swallowed before the edit sees it.
SettleSilently(outcome) ==
  /\ job' = IdleJob
  /\ pollQueued' = IF job.poll THEN FALSE ELSE pollQueued
  /\ IF job.waiter = None \/ outcome = "error"
     THEN UNCHANGED <<edit, reply, since>>
     ELSE /\ edit' = IdleEdit
          /\ reply' = [reply EXCEPT ![job.waiter] = outcome]
          /\ since' = [since EXCEPT ![job.waiter] = {}]
  /\ UNCHANGED <<editQueue, base>>

\* The edit that waits for this refresh is answered; the poll may run again.
Settle(outcome) ==
  /\ job' = IdleJob
  /\ pollQueued' = IF job.poll THEN FALSE ELSE pollQueued
  /\ IF job.waiter = None
     THEN UNCHANGED <<edit, reply, since>>
     ELSE /\ edit' = IdleEdit
          /\ reply' = [reply EXCEPT ![job.waiter] = outcome]
          /\ since' = [since EXCEPT ![job.waiter] = {}]
  /\ UNCHANGED <<editQueue, base>>

NothingChanged ==
  /\ job.at = "build" /\ ~NeedsSnapshot
  /\ Settle("saved")
  /\ forgotten' = forgotten \ job.changed
  /\ UNCHANGED <<env, watch, queue, snapshot, fails, closing, erased>>

\* buildSnapshot reads the external sources while it builds.  The generations are
\* computed before it is awaited.
BuildSnapshot ==
  /\ job.at = "build" /\ NeedsSnapshot
  /\ job' = [job EXCEPT !.at = "publish", !.ext = ext,
                        !.generation = snapshot.generation + 1,
                        !.markdownGeneration = snapshot.markdownGeneration
                                                 + (IF MarkdownChanged THEN 1 ELSE 0)]
  /\ UNCHANGED <<env, watch, pollQueued, queue, snapshot, fails, editing,
                 closing, history>>

\* The new snapshot replaces the old one and refreshExternalWatchers closes
\* and reopens the external watchers, whether or not the store is closed: what
\* a closed watcher had not delivered yet is gone.
PublishSnapshot ==
  /\ job.at = "publish"
  /\ snapshot' = [generation |-> job.generation,
                  markdownGeneration |-> job.markdownGeneration,
                  files |-> job.files, git |-> job.git, ext |-> job.ext]
  /\ extWatch' = TRUE
  /\ events' = events \ {Ext}
  /\ Settle("saved")
  /\ forgotten' = forgotten \ job.changed
  /\ UNCHANGED <<env, pending, timer, queue, fails, closing, erased>>

\* Listing, reading or building throws: the refresh rejects.  Its paths have
\* left pendingPaths and nothing asks for them again.
RefreshFails ==
  /\ job.at \in {"list", "read", "publish"}
  /\ fails < MaxFail
  /\ fails' = fails + 1
  /\ Settle("error")
  /\ forgotten' = forgotten \cup
                    (IF All \in job.paths THEN Docs ELSE job.paths \cap Docs)
  /\ UNCHANGED <<env, watch, queue, snapshot, closing, erased>>

-----------------------------------------------------------------------------
(* editDocument.                                                           *)

Answer(e, outcome) ==
  /\ edit' = IdleEdit
  /\ reply' = [reply EXCEPT ![e] = outcome]
  /\ since' = [since EXCEPT ![e] = {}]

\* A client that loaded the document as it is now will send its save later.
SubmitEdit(e) ==
  /\ reply[e] = "unsent" /\ store # "starting" /\ disk[Target[e]] # Absent
  /\ base' = [base EXCEPT ![e] = disk[Target[e]]]
  /\ reply' = [reply EXCEPT ![e] = "queued"]
  /\ editQueue' = Append(editQueue, e)
  /\ UNCHANGED <<env, watch, refreshes, edit, closing, history>>

\* editableDocumentPath: known to the snapshot and still on disk.
StartEdit ==
  /\ edit.at = "idle" /\ editQueue # <<>>
  /\ editQueue' = Tail(editQueue)
  /\ LET e == Head(editQueue)
         d == Target[e]
     IN IF snapshot.files[d] = Absent \/ disk[d] = Absent
        THEN Answer(e, "notfound")
        ELSE /\ edit' = [IdleEdit EXCEPT !.id = e, !.at = "read"]
             /\ UNCHANGED <<reply, since>>
  /\ UNCHANGED <<env, watch, refreshes, base, closing, forgotten, erased>>

\* Defect: the last save wins, the client's content is written as it is.
EditReadOverwrites(conflict) ==
  /\ edit.at = "read"
  /\ LET e == edit.id
         c == disk[Target[e]]
     IN /\ conflict => c # base[e]
        /\ IF c = Absent THEN Answer(e, "error")
           ELSE IF conflict THEN Answer(e, "conflict")
           ELSE /\ edit' = [edit EXCEPT !.at = "check", !.current = c,
                                        !.next = base[e] \cup {e}]
                /\ UNCHANGED <<reply, since>>
  /\ UNCHANGED <<env, watch, refreshes, editQueue, base, closing, forgotten,
                 erased>>

\* Read the latest content and merge: against the content the client loaded
\* the merge cannot fail, against any other it may conflict.
EditRead(conflict) ==
  /\ edit.at = "read"
  /\ LET e == edit.id
         c == disk[Target[e]]
     IN /\ conflict => c # base[e]
        /\ IF c = Absent THEN Answer(e, "error")
           ELSE IF conflict THEN Answer(e, "conflict")
           ELSE /\ edit' = [edit EXCEPT !.at = "check", !.current = c,
                                        !.next = c \cup {e}]
                /\ UNCHANGED <<reply, since>>
  /\ UNCHANGED <<env, watch, refreshes, editQueue, base, closing, forgotten,
                 erased>>

\* The temporary file is written; the document is read again before the rename.
EditCheck ==
  /\ edit.at = "check"
  /\ LET e == edit.id
         c == disk[Target[e]]
     IN IF c = Absent THEN Answer(e, "error")
        ELSE IF c = edit.current
        THEN /\ edit' = [edit EXCEPT !.at = "rename"]
             /\ UNCHANGED <<reply, since>>
        ELSE IF edit.tries + 1 < Attempts
        THEN /\ edit' = [edit EXCEPT !.at = "read", !.tries = @ + 1]
             /\ UNCHANGED <<reply, since>>
        ELSE Answer(e, "conflict")
  /\ UNCHANGED <<env, watch, refreshes, editQueue, base, closing, forgotten,
                 erased>>

EditRename ==
  /\ edit.at = "rename"
  /\ LET e == edit.id IN
       /\ DiskBecomes(Target[e], edit.next)
       /\ since' = [Seen(Target[e], edit.next) EXCEPT ![e] = {edit.next}]
  /\ edit' = [edit EXCEPT !.at = "refresh"]
  /\ UNCHANGED <<head, ext, spent, extWatch, pending, timer, refreshes,
                 editQueue, base, reply, closing, erased>>

\* Defect: the edit joins the refresh that happens to be running.
EditRefreshJoins ==
  /\ edit.at = "refresh"
  /\ edit' = [edit EXCEPT !.at = "wait"]
  /\ IF job.at # "idle"
     THEN /\ job' = [job EXCEPT !.waiter = edit.id]
          /\ UNCHANGED queue
     ELSE /\ QueueRefresh({Target[edit.id]}, FALSE, edit.id)
          /\ UNCHANGED job
  /\ UNCHANGED <<env, watch, pollQueued, snapshot, fails, editQueue, base,
                 reply, closing, history>>

\* Defect: the edit refreshes by itself, beside the queue.
EditRefreshAlone ==
  /\ edit.at = "refresh"
  /\ LET d == Target[edit.id]
         changed == IF snapshot.files[d] = disk[d] THEN 0 ELSE 1
     IN snapshot' = IF store # "open" THEN snapshot
                    ELSE [snapshot EXCEPT !.generation = @ + changed, !.markdownGeneration = @ + changed,
                                          !.files[d] = disk[d]]
  /\ Answer(edit.id, "saved")
  /\ UNCHANGED <<env, watch, pollQueued, queue, job, fails, editQueue, base,
                 closing, forgotten, erased>>

\* refresh([path]) returns at once when the store has been closed.
EditRefresh ==
  /\ edit.at = "refresh"
  /\ IF store = "open"
     THEN /\ QueueRefresh({Target[edit.id]}, FALSE, edit.id)
          /\ edit' = [edit EXCEPT !.at = "wait"]
          /\ UNCHANGED <<reply, since>>
     ELSE /\ Answer(edit.id, "saved")
          /\ UNCHANGED queue
  /\ UNCHANGED <<env, watch, pollQueued, job, snapshot, fails, editQueue, base,
                 closing, forgotten, erased>>

-----------------------------------------------------------------------------
(* close().                                                                *)

Close ==
  /\ store = "open"
  /\ store' = "closing"
  /\ timer' = FALSE
  /\ extWatch' = FALSE
  /\ events' = {}
  /\ closeWaits' = {e \in Edits : reply[e] = "queued"}
  /\ UNCHANGED <<env, pending, refreshes, editing, history>>

CloseDone ==
  /\ store = "closing"
  /\ \A e \in closeWaits : reply[e] # "queued"
  /\ queue = <<>> /\ job.at = "idle"
  /\ store' = "closed"
  /\ UNCHANGED <<env, watch, refreshes, editing, closeWaits, history>>

-----------------------------------------------------------------------------
Environment ==
  \/ \E d \in Docs, w \in Writes : ExternalWrite(d, w) \/ ExternalDelete(d, w)
  \/ Commit
  \/ ExternalSourceChange
  \/ \E e \in Edits : SubmitEdit(e)

RunRefresh ==
  \/ StartRefresh \/ ListFiles \/ ReadsDone \/ NothingChanged
  \/ BuildSnapshot \/ PublishSnapshot
  \/ \E d \in Docs : ReadFile(d)
  \/ \E ok \in BOOLEAN : ReadGit(ok)

RunEdit ==
  \/ StartEdit \/ EditCheck \/ EditRename \/ EditRefresh
  \/ \E conflict \in BOOLEAN : EditRead(conflict)

Next ==
  \/ Environment
  \/ StartWatching
  \/ \E p \in Paths, named \in BOOLEAN : ScheduleRefresh(p, named)
  \/ DebounceFires \/ GitPollTick
  \/ RunRefresh \/ RefreshFails
  \/ RunEdit
  \/ Close \/ CloseDone

Spec == Init /\ [][Next]_vars

\* The event loop runs what is ready: watcher callbacks, timers and the
\* continuations of every await.  Nothing obliges the user, other programs or
\* close() to act.
Fairness ==
  /\ WF_vars(StartWatching)
  /\ WF_vars(\E p \in Paths, named \in BOOLEAN : ScheduleRefresh(p, named))
  /\ WF_vars(DebounceFires)
  /\ WF_vars(GitPollTick)
  /\ WF_vars(RunRefresh \/ RefreshFails)
  /\ WF_vars(RunEdit)
  /\ WF_vars(CloseDone)

FairSpec == Spec /\ Fairness

-----------------------------------------------------------------------------
(* Properties.                                                             *)

TypeOK ==
  /\ disk \in [Docs -> Stored] /\ head \in Nat /\ ext \in Nat
  /\ spent \subseteq Writes
  /\ events \subseteq Docs \cup {Ext} /\ extWatch \in BOOLEAN
  /\ pending \subseteq Paths /\ timer \in BOOLEAN
  /\ pollQueued \in BOOLEAN /\ queue \in Seq(Request) /\ job \in Job
  /\ snapshot \in Snapshot /\ fails \in Nat
  /\ editQueue \in Seq(Edits) /\ edit \in EditState
  /\ base \in [Edits -> Stored] /\ reply \in [Edits -> Replies]
  /\ store \in {"starting", "open", "closing", "closed"}
  /\ closeWaits \subseteq Edits
  /\ forgotten \subseteq Docs /\ erased \subseteq Docs
  /\ since \in [Edits -> SUBSET Stored]

Covers(paths, d) == d \in paths \/ All \in paths

QueueCovers(q, d) == \E i \in DOMAIN q : Covers(q[i].paths, d)

\* Somebody will still ask the store to look at d: a watcher, the debounce
\* timer, or a refresh that waits.
Waiting(d) == d \in events \/ Covers(pending, d) \/ QueueCovers(queue, d)

Running(d) == job.at # "idle" /\ Covers(job.paths, d)

\* While the store is open, a document the snapshot shows differently from the
\* disk is always owed a look: by a notification, by the debounce timer, by a
\* queued refresh or by the running one.  The only exceptions are changes made
\* before the watcher was opened and changes whose refresh rejected.
StaleIsCovered ==
  store = "open" =>
    \A d \in Docs : snapshot.files[d] # disk[d]
                      => Waiting(d) \/ Running(d) \/ d \in forgotten

\* No acknowledged save is undone by the store itself: the serialised edits
\* and their merge keep every save the editor was told about, until another
\* program deletes the document.
AcknowledgedEditsSurvive ==
  \A e \in Edits : reply[e] = "saved" /\ Target[e] \notin erased
                     => disk[Target[e]] # Absent /\ e \in disk[Target[e]]

\* What editDocument promises: when it acknowledges a save it has awaited a
\* refresh for, the published snapshot already shows the document as it was at
\* some moment after the rename, whatever batches ran in between.
ReadYourWrites ==
  [][edit.at = "wait" /\ reply'[edit.id] = "saved"
       => snapshot'.files[Target[edit.id]] \in since[edit.id]]_vars

\* Clients and the search index recognise a snapshot by its generations, which a
\* refresh computes, and the documents it does not read, which it copies, before it
\* awaits anything: when it publishes, the generation still counts this replacement,
\* the Markdown generation still counts exactly the replacements that change a
\* document, and no document goes back to what it was before another refresh.
GenerationsIdentifySnapshots ==
  [][snapshot' # snapshot =>
       /\ snapshot'.generation = snapshot.generation + 1
       /\ snapshot'.markdownGeneration - snapshot.markdownGeneration
            = IF snapshot'.files # snapshot.files THEN 1 ELSE 0
       /\ job.at = "publish" =>
            \A d \in Docs \ job.changed : snapshot'.files[d] = snapshot.files[d]]_vars

\* Once other programs are quiet the snapshot shows the disk.
Converges ==
  \A d \in Docs : <>[](\/ snapshot.files[d] = disk[d]
                       \/ d \in forgotten \/ store # "open")

\* A commit touches no file of the vault, yet the poll notices it.
CommitIsNoticed ==
  snapshot.git # head ~> (snapshot.git = head \/ store # "open")

\* Every save is answered, also the ones close() finds in the queue.
EditsAreAnswered ==
  \A e \in Edits : reply[e] = "queued" ~> reply[e] \in Answered

\* close() returns: neither the edit queue nor the refresh queue hangs it.
CloseReturns == store = "closing" ~> store = "closed"

\* Neither a save nor close() waits for ever, whatever fails meanwhile.
CallsReturn == EditsAreAnswered /\ CloseReturns
=============================================================================
