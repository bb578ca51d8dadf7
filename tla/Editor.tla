------------------------------- MODULE Editor -------------------------------
(***************************************************************************)
(* Editing a document in the browser: the editor's draft, its saves and    *)
(* reloads, and the questions the application asks before it throws a      *)
(* draft away (view/src/MarkdownEditor.tsx, App.tsx, unsaved-changes.ts;   *)
(* PATCH /api/document in src/view/server.ts).                             *)
(*                                                                         *)
(* A document is the set of the pieces of text in it.  LiveView shows how  *)
(* the tab learns of new snapshots; here a change is news until the tab    *)
(* has noticed it.  ViewStore shows how the store applies an edit; here it *)
(* is one step.  The effects that an input event makes due have run before *)
(* the next answer arrives, as React flushes them with that event.         *)
(***************************************************************************)
EXTENDS Naturals

CONSTANTS
    Paths,
    Typed,       \* pieces of text the user may type
    Others,      \* pieces of text another program may write
    None,        \* no editor, no request
    Asked,       \* a request that has not been answered
    MaxSaves, MaxMoves, MaxFaults

DraftTexts == SUBSET (Typed \cup Others)

Draft == [loaded : BOOLEAN,   \* sourceLoaded
          base : DraftTexts, draft : DraftTexts,
          newer : BOOLEAN,    \* revision # loadedRevision
          saving : BOOLEAN,   \* saveInFlight
          fetch : {None, Asked} \cup DraftTexts]

ASSUME EditorAssumption ==
    /\ {MaxSaves, MaxMoves, MaxFaults} \subseteq Nat
    /\ Typed \cap Others = {}
    /\ None \notin Draft /\ None # Asked

VARIABLES
    disk,        \* the documents in the vault
    news,        \* the tab has still to hear of a new Markdown generation
    path, page,  \* the route, and what the page shows of it
    mode, graph, \* documentMode, graphMode
    editor,      \* None, or the mounted MarkdownEditor
    guard,       \* documentDirty
    saves,       \* PATCH requests, with what their editor was when it unmounted
    clicks, moves, faults,
    work, kept,  \* history: what the user typed and did not give up; what was saved
    accidents    \* history: how a draft may have been lost

screen == <<path, page, mode, graph>>
editorHistory == <<work, kept, accidents>>
editorVars == <<disk, news, screen, editor, guard, saves, clicks, moves, faults, editorHistory>>

Save == [path : Paths, base : DraftTexts, content : DraftTexts, at : {"sent", "applied", "failed"},
         result : DraftTexts, writes : 0..2, mine : BOOLEAN, unchanged : BOOLEAN]

EditorInit ==
    /\ disk = [p \in Paths |-> {}]
    /\ news = FALSE
    /\ path \in Paths /\ page = "shown" /\ mode = "view" /\ graph = FALSE
    /\ editor = None
    /\ guard = FALSE
    /\ saves = {}
    /\ clicks = 0 /\ moves = 0 /\ faults = 0
    /\ work = {} /\ kept = {} /\ accidents = {}

Dirty == editor # None /\ editor.loaded /\ editor.base # editor.draft

-----------------------------------------------------------------------------
(* What the application shows.                                              *)

\* An editor that mounts has nothing yet and asks for the source.
FreshEditor == [loaded |-> FALSE, base |-> {}, draft |-> {}, newer |-> FALSE,
                saving |-> FALSE, fetch |-> Asked]

\* The editor is mounted while the page shows its document in edit mode.  Its
\* requests for the source end with it, its saves do not.
Show(p, pg, md, g) ==
    LET stays == pg = "shown" /\ md = "edit" /\ ~g
    IN  /\ path' = p /\ page' = pg /\ mode' = md /\ graph' = g
        /\ editor' = IF ~stays THEN None
                     ELSE IF editor = None \/ p # path THEN FreshEditor ELSE editor
        /\ saves' = IF editor = None \/ (stays /\ p = path) THEN saves
                    ELSE {[s EXCEPT !.mine = FALSE,
                                    !.unchanged = IF s.mine THEN editor.draft = s.content ELSE @] :
                             s \in saves}

\* confirmDiscardUnsavedChanges: without unsaved changes nothing is asked; with
\* them the user gives the draft up, or the transition is canceled.
Leave ==
    /\ guard' = FALSE
    /\ work' = IF guard /\ editor # None
               THEN {w \in work : ~(w[1] = path /\ w[2] \in editor.draft)} ELSE work

Moved == moves < MaxMoves /\ moves' = moves + 1

\* onDocumentModeChange
SwitchMode ==
    /\ Moved
    /\ page = "shown" /\ ~graph
    /\ IF mode = "view"
       THEN Show(path, page, "edit", graph) /\ UNCHANGED <<guard, work>>
       ELSE Show(path, page, "view", graph) /\ Leave
    /\ UNCHANGED <<disk, news, clicks, faults, kept, accidents>>

\* onGraphToggleClick
ToggleGraph ==
    /\ Moved
    /\ Show(path, page, mode, ~graph)
    /\ IF graph THEN UNCHANGED <<guard, work>> ELSE Leave
    /\ UNCHANGED <<disk, news, clicks, faults, kept, accidents>>

\* navigate and onPopState to another document: it opens in view mode.
NavigateTo(p) ==
    /\ Moved
    /\ p # path
    /\ Show(p, "loading", "view", graph)
    /\ Leave
    /\ UNCHANGED <<disk, news, clicks, faults, kept, accidents>>

\* The tab is reloaded: blockUnsavedChangesUnload has the browser ask.
Reload ==
    /\ Moved
    /\ Show(path, "loading", "view", FALSE)
    /\ Leave
    /\ UNCHANGED <<disk, news, clicks, faults, kept, accidents>>

PageLoads ==
    /\ page = "loading"
    /\ Show(path, "shown", mode, graph)
    /\ UNCHANGED <<disk, news, guard, clicks, moves, faults, editorHistory>>

\* A refresh of the page fails: the error takes the place of the page, and of
\* the editor on it.
RefreshFails ==
    /\ faults < MaxFaults
    /\ faults' = faults + 1
    /\ page # "failed"
    /\ Show(path, "failed", mode, graph)
    /\ accidents' = accidents \cup (IF Dirty THEN {"failed page"} ELSE {})
    /\ UNCHANGED <<disk, news, guard, clicks, moves, work, kept>>

\* retryPage
RetryPage ==
    /\ page = "failed"
    /\ Show(path, "loading", mode, graph)
    /\ UNCHANGED <<disk, news, guard, clicks, moves, faults, editorHistory>>

-----------------------------------------------------------------------------
(* The editor's source.                                                     *)

\* GET /api/document-source
AnswerSource ==
    /\ editor # None /\ editor.fetch = Asked
    /\ editor' = [editor EXCEPT !.fetch = disk[path]]
    /\ UNCHANGED <<disk, news, screen, guard, saves, clicks, moves, faults, editorHistory>>

\* The source becomes base and draft, on the first load and on every reload.
TakeSource ==
    /\ editor # None /\ editor.fetch \notin {None, Asked}
    /\ editor' = [editor EXCEPT !.loaded = TRUE, !.base = editor.fetch,
                                !.draft = editor.fetch, !.fetch = None]
    /\ guard' = FALSE
    /\ UNCHANGED <<disk, news, screen, saves, clicks, moves, faults, editorHistory>>

SourceFails ==
    /\ faults < MaxFaults
    /\ faults' = faults + 1
    /\ editor # None /\ editor.fetch # None
    /\ editor' = [editor EXCEPT !.fetch = None]
    /\ UNCHANGED <<disk, news, screen, guard, saves, clicks, moves, editorHistory>>

RetrySource ==
    /\ editor # None /\ ~editor.loaded /\ editor.fetch = None
    /\ editor' = [editor EXCEPT !.fetch = Asked]
    /\ UNCHANGED <<disk, news, screen, guard, saves, clicks, moves, faults, editorHistory>>

\* A new Markdown generation reaches the tab; a reload for an older one ends.
Notice ==
    /\ news
    /\ news' = FALSE
    /\ editor' = IF editor = None THEN None
                 ELSE [editor EXCEPT !.newer = TRUE, !.fetch = IF editor.loaded THEN None ELSE @]
    /\ UNCHANGED <<disk, screen, guard, saves, clicks, moves, faults, editorHistory>>

\* The reload effect: only a clean editor that is not saving follows the disk.
ReloadSource ==
    /\ editor # None /\ editor.loaded /\ editor.newer
    /\ ~editor.saving /\ ~Dirty
    /\ editor' = [editor EXCEPT !.newer = FALSE, !.fetch = Asked]
    /\ UNCHANGED <<disk, news, screen, guard, saves, clicks, moves, faults, editorHistory>>

\* updateContent.  The change of status runs the reload effect again, which
\* aborts a reload in flight.
Change(text) ==
    /\ editor # None /\ editor.loaded
    /\ editor' = [editor EXCEPT !.draft = text, !.fetch = None]
    /\ guard' = (editor.saving \/ text # editor.base)
    /\ UNCHANGED <<disk, news, screen, saves, clicks, moves, faults, kept, accidents>>

Type(k) ==
    /\ editor # None /\ k \notin editor.draft /\ <<path, k>> \notin work
    /\ Change(editor.draft \cup {k})
    /\ work' = work \cup {<<path, k>>}

Erase(k) ==
    /\ editor # None /\ k \in editor.draft
    /\ Change(editor.draft \ {k})
    /\ work' = work \ {<<path, k>>}

-----------------------------------------------------------------------------
(* Saving.                                                                  *)

SaveDraft ==
    /\ clicks < MaxSaves
    /\ Dirty /\ ~editor.saving
    /\ clicks' = clicks + 1
    /\ editor' = [editor EXCEPT !.saving = TRUE]
    /\ saves' = saves \cup
         {[path |-> path, base |-> editor.base, content |-> editor.draft, at |-> "sent",
           result |-> {}, writes |-> 0, mine |-> TRUE, unchanged |-> FALSE]}
    /\ UNCHANGED <<disk, news, screen, guard, moves, faults, editorHistory>>

\* applyDocumentEdit: the user's changes on top of what the disk has by now.
Merged(s) == (disk[s.path] \cup (s.content \ s.base)) \ (s.base \ s.content)

Write(s, at) ==
    /\ disk' = [disk EXCEPT ![s.path] = Merged(s)]
    /\ news' = (news \/ disk' # disk)
    /\ kept' = kept \cup {<<s.path, k>> : k \in Merged(s) \cap Typed}
    /\ saves' = (saves \ {s}) \cup
         {[s EXCEPT !.at = at, !.result = Merged(s), !.writes = @ + 1]}

ApplySave(s) ==
    /\ s.at = "sent"
    /\ Write(s, "applied")
    /\ UNCHANGED <<screen, editor, guard, clicks, moves, faults, work, accidents>>

\* Overlapping changes: ViewDocumentConflictError.
Conflict(s) ==
    /\ s.at = "sent" /\ disk[s.path] \notin {s.base, s.content}
    /\ saves' = (saves \ {s}) \cup {[s EXCEPT !.at = "failed"]}
    /\ UNCHANGED <<disk, news, screen, editor, guard, clicks, moves, faults, editorHistory>>

\* fetchJsonFile sends a PATCH once, whatever becomes of it.
AfterFailure(s) == [s EXCEPT !.at = "failed"]

\* The connection breaks before the request or after the write.
LoseSave(s) ==
    /\ s.at # "failed"
    /\ faults < MaxFaults
    /\ faults' = faults + 1
    /\ saves' = (saves \ {s}) \cup {AfterFailure(s)}
    /\ UNCHANGED <<disk, news, screen, editor, guard, clicks, moves, editorHistory>>

\* Defect: a save that ends removes the guard whatever was typed since.
EndSaveClearsGuard(s) ==
    /\ s.at # "sent"
    /\ saves' = saves \ {s}
    /\ guard' = (s.at # "applied")
    /\ editor' = IF ~s.mine THEN editor
                 ELSE [editor EXCEPT !.base = IF s.at = "applied" THEN s.content ELSE @,
                                     !.saving = FALSE]
    /\ UNCHANGED <<disk, news, screen, clicks, moves, faults, editorHistory>>

\* saveDraft goes on: for an unmounted editor too, whose refs it still has.
EndSave(s) ==
    /\ s.at # "sent"
    /\ saves' = saves \ {s}
    /\ LET same  == IF s.mine THEN editor.draft = s.content ELSE s.unchanged
           clean == s.at = "applied" /\ same
           after == IF clean THEN [editor EXCEPT !.base = s.result, !.draft = s.result]
                    ELSE IF s.at = "applied" THEN [editor EXCEPT !.base = s.content]
                    ELSE editor
       IN  /\ guard' = ~clean
           /\ editor' = IF s.mine THEN [after EXCEPT !.saving = FALSE] ELSE editor
           /\ accidents' = accidents \cup
                (IF ~s.mine /\ clean /\ Dirty THEN {"late save"} ELSE {})
    /\ UNCHANGED <<disk, news, screen, clicks, moves, faults, work, kept>>

\* Another program writes a document.
OtherWrites(p, w) ==
    /\ Moved
    /\ disk' = [disk EXCEPT ![p] = IF w \in @ THEN {} ELSE @ \cup {w}]
    /\ news' = TRUE
    /\ UNCHANGED <<screen, editor, guard, saves, clicks, faults, editorHistory>>

EditorNext ==
    \/ SwitchMode \/ ToggleGraph \/ Reload \/ \E p \in Paths : NavigateTo(p)
    \/ PageLoads \/ RefreshFails \/ RetryPage
    \/ AnswerSource \/ TakeSource \/ SourceFails \/ RetrySource
    \/ Notice \/ ReloadSource
    \/ \E k \in Typed : Type(k) \/ Erase(k)
    \/ SaveDraft
    \/ \E s \in saves : ApplySave(s) \/ Conflict(s) \/ LoseSave(s) \/ EndSave(s)
    \/ \E p \in Paths, w \in Others : OtherWrites(p, w)

EditorSpec == EditorInit /\ [][EditorNext]_editorVars

-----------------------------------------------------------------------------

\* The variables have these types; an editor that saves has one save under way.
EditorTypeOK ==
    /\ disk \in [Paths -> DraftTexts]
    /\ news \in BOOLEAN
    /\ path \in Paths /\ page \in {"shown", "loading", "failed"}
    /\ mode \in {"view", "edit"} /\ graph \in BOOLEAN
    /\ editor \in {None} \cup Draft
    /\ guard \in BOOLEAN
    /\ saves \subseteq Save
    /\ clicks \in 0..MaxSaves /\ moves \in 0..MaxMoves /\ faults \in 0..MaxFaults
    /\ work \subseteq Paths \X Typed /\ kept \subseteq Paths \X Typed
    /\ accidents \subseteq {"failed page", "late save"}
    /\ \A s \in saves : s.mine => editor # None /\ editor.saving /\ s.path = path

(***************************************************************************)
(* What the user has typed and not given up is on disk or was, or is in    *)
(* the draft in front of the user, through saves, conflicts, lost answers  *)
(* and reloads - unless the page failed to refresh under a dirty editor,   *)
(* or a late save had cleared documentDirty.                               *)
(***************************************************************************)
EveryKeystrokeIsKept ==
    accidents = {} =>
        \A w \in work \ kept : editor # None /\ path = w[1] /\ w[2] \in editor.draft

(***************************************************************************)
(* A dirty draft is guarded: leaving it asks.  Only a save of an editor    *)
(* that is no longer mounted can take the guard away.                      *)
(***************************************************************************)
DraftIsGuarded == Dirty /\ "late save" \notin accidents => guard

(***************************************************************************)
(* "Does not replay uncertain writes": no save writes the document twice.  *)
(***************************************************************************)
OneWritePerSave == \A s \in saves : s.writes <= 1

(***************************************************************************)
(* What the editor owes whoever types in it: typed text is never lost, a   *)
(* dirty draft is guarded and no save is replayed.                         *)
(***************************************************************************)
DraftsAreSafe == EditorTypeOK /\ EveryKeystrokeIsKept /\ DraftIsGuarded /\ OneWritePerSave
=============================================================================
