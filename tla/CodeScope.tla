------------------------------ MODULE CodeScope ------------------------------
(***************************************************************************)
(* How the live store keeps its code references (src/view/store.ts,        *)
(* applyRefresh's second half and scanCodeState).                          *)
(*                                                                         *)
(* Scanning the project for source files is expensive, so the store keeps  *)
(* the set of files the last scan found (codeScope) and the changed paths  *)
(* that scan did not find (ignoredCodePaths).  A batch rereads the files   *)
(* in scope one by one, skips the ignored ones, and scans again only when  *)
(* it names a path that is in neither set, or a .gitignore file.           *)
(*                                                                         *)
(* Batches are serialised by the store's refresh queue (module ViewStore), *)
(* so one runs at a time here; other programs act between its awaits.  A   *)
(* refresh that rejects loses its batch.                                   *)
(***************************************************************************)
EXTENDS Naturals, FiniteSets

CONSTANTS
  Files,       \* paths with a source file extension
  Gitignore,   \* the path of a .gitignore file
  All,         \* the path '': the watcher gave no file name
  Contents,    \* references a file may hold
  Absent,      \* no file, or no references kept for it
  MaxChanges   \* bound: changes other programs make

ASSUME CodeAssumption ==
  /\ Gitignore \notin Files /\ All \notin Files /\ All # Gitignore
  /\ Absent \notin Contents
  /\ MaxChanges \in Nat

VARIABLES
  sources,    \* content of each source file on disk
  excluded,   \* files the .gitignore rules out
  changes,    \* how many changes there have been
  pending,    \* paths notified or collected and not yet refreshed
  batch,      \* the paths of the refresh that runs, or {}
  at,         \* "idle", "list", "load", "reread" or "publish"
  todo,       \* files the refresh still has to read
  found,      \* the inventory the running scan listed
  working,    \* the codeFiles the refresh is building
  codeFiles,  \* this.codeFiles: references kept for each file
  codeScope,
  ignoredCodePaths,
  snapshotFiles,  \* the references of the snapshot that readers see
  forgotten,      \* history: the paths a rejected refresh took, and no later one read
  unpublished     \* history: the last snapshot could not be built

env == <<sources, excluded, changes, pending>>
scopes == <<codeScope, ignoredCodePaths>>
readers == <<snapshotFiles, unpublished>>
codeVars == <<env, batch, at, todo, found, working, codeFiles, scopes, forgotten, readers>>

-----------------------------------------------------------------------------
\* What a scan of the project would keep for a file now.
Visible(f) == IF f \in excluded THEN Absent ELSE sources[f]
Inventory == {f \in Files : sources[f] # Absent /\ f \notin excluded}

CodeInit ==
  /\ sources \in [Files -> Contents \cup {Absent}]
  /\ excluded \in SUBSET Files
  /\ changes = 0 /\ pending = {}
  /\ batch = {} /\ at = "idle" /\ todo = {} /\ found = {}
  /\ codeFiles = [f \in Files |-> Visible(f)]
  /\ working = codeFiles
  /\ codeScope = Inventory
  /\ ignoredCodePaths = {}
  /\ snapshotFiles = codeFiles /\ forgotten = {} /\ unpublished = FALSE

\* Another program creates, changes or deletes a source file.  The watcher may
\* leave out the name.
FileChanges(f, c, named) ==
  /\ changes < MaxChanges
  /\ sources[f] # c
  /\ sources' = [sources EXCEPT ![f] = c]
  /\ pending' = pending \cup {IF named THEN f ELSE All}
  /\ changes' = changes + 1
  /\ UNCHANGED <<excluded, batch, at, todo, found, working, codeFiles, scopes, forgotten, readers>>

GitignoreChanges(s) ==
  /\ changes < MaxChanges
  /\ excluded # s
  /\ excluded' = s
  /\ pending' = pending \cup {Gitignore}
  /\ changes' = changes + 1
  /\ UNCHANGED <<sources, batch, at, todo, found, working, codeFiles, scopes, forgotten, readers>>

-----------------------------------------------------------------------------
codePaths(paths) == paths \cap Files

\* Defect: a path the last scan did not find never asks for another scan.
RefreshCodeScopeKnown(paths) ==
  paths \cap {All, Gitignore} # {}

refreshCodeScope(paths) ==
  \/ paths \cap {All, Gitignore} # {}
  \/ codePaths(paths) \ (codeScope \cup ignoredCodePaths) # {}

\* A batch of collected paths starts: scan again, or reread what it names; one
\* that names nothing to reread changes nothing.
StartRefresh ==
  LET reread == (codePaths(pending) \cap codeScope) \ ignoredCodePaths IN
  /\ at = "idle" /\ pending # {}
  /\ pending' = {}
  /\ working' = codeFiles
  /\ IF refreshCodeScope(pending)
     THEN batch' = pending /\ at' = "list" /\ todo' = {}
     ELSE IF reread # {}
     THEN batch' = pending /\ at' = "reread" /\ todo' = reread
     ELSE UNCHANGED <<batch, at, todo>>
  /\ UNCHANGED <<sources, excluded, changes, found, codeFiles, scopes, forgotten, readers>>

\* Its first half, the Markdown files, may reject.
StartRejects ==
  /\ at = "idle" /\ pending # {}
  /\ forgotten' = forgotten \cup pending
  /\ pending' = {}
  /\ UNCHANGED <<sources, excluded, changes, batch, at, todo, found, working, codeFiles, scopes,
                 readers>>

\* A refresh for another reason publishes what there is.
OtherRefresh ==
  /\ at = "idle"
  /\ at' = "publish"
  /\ UNCHANGED <<env, batch, todo, found, working, codeFiles, scopes, forgotten, readers>>

\* scanCodeState lists the supported files that exist and are not ignored ...
ScanList ==
  /\ at = "list"
  /\ at' = "load" /\ todo' = Inventory /\ found' = Inventory
  /\ working' = [f \in Files |-> Absent]
  /\ UNCHANGED <<env, batch, codeFiles, scopes, forgotten, readers>>

\* ... and then reads them; one that has disappeared since contributes nothing.
ScanLoad(f) ==
  /\ at = "load" /\ f \in todo
  /\ working' = [working EXCEPT ![f] = sources[f]]
  /\ todo' = todo \ {f}
  /\ UNCHANGED <<env, batch, at, found, codeFiles, scopes, forgotten, readers>>

\* Git, a directory or a file may refuse: the scan rejects and replaces nothing.
ScanRejects ==
  /\ at \in {"list", "load"}
  /\ forgotten' = forgotten \cup batch
  /\ batch' = {} /\ at' = "idle" /\ todo' = {} /\ found' = {}
  /\ UNCHANGED <<env, working, codeFiles, scopes, readers>>

\* The scan replaces the scope; the batch's paths it did not find are ignored
\* from now on.
ScanDone ==
  /\ at = "load" /\ todo = {}
  /\ codeScope' = found
  /\ ignoredCodePaths' = codePaths(batch) \ found
  /\ codeFiles' = working
  /\ forgotten' = {}
  /\ batch' = {} /\ at' = "publish" /\ found' = {}
  /\ UNCHANGED <<env, todo, working, readers>>

\* Reread one file of the batch: one that is gone leaves the scope, so that
\* its return will ask for a scan.
Reread(f) ==
  /\ at = "reread" /\ f \in todo
  /\ working' = [working EXCEPT ![f] = sources[f]]
  /\ codeScope' = IF sources[f] = Absent THEN codeScope \ {f} ELSE codeScope
  /\ todo' = todo \ {f}
  /\ UNCHANGED <<env, batch, at, found, codeFiles, ignoredCodePaths, forgotten, readers>>

RereadDone ==
  /\ at = "reread" /\ todo = {}
  /\ codeFiles' = working
  /\ forgotten' = forgotten \ batch
  /\ batch' = {} /\ at' = "publish"
  /\ UNCHANGED <<env, todo, found, working, scopes, readers>>

\* buildSnapshot gives what was read to the readers, or rejects.
BuildSnapshot ==
  /\ at = "publish" /\ at' = "idle"
  /\ \/ snapshotFiles' = codeFiles /\ unpublished' = FALSE
     \/ unpublished' = TRUE /\ UNCHANGED snapshotFiles
  /\ UNCHANGED <<env, batch, todo, found, working, codeFiles, scopes, forgotten>>

-----------------------------------------------------------------------------
RunRefresh ==
  \/ StartRefresh \/ StartRejects \/ OtherRefresh
  \/ ScanList \/ ScanRejects \/ ScanDone \/ RereadDone \/ BuildSnapshot
  \/ \E f \in Files : ScanLoad(f) \/ Reread(f)

CodeNext ==
  \/ \E f \in Files, c \in Contents \cup {Absent}, named \in BOOLEAN :
       FileChanges(f, c, named)
  \/ \E s \in SUBSET Files : GitignoreChanges(s)
  \/ RunRefresh

CodeSpec == CodeInit /\ [][CodeNext]_codeVars

-----------------------------------------------------------------------------
(* Properties.                                                             *)

CodeTypeOK ==
  /\ sources \in [Files -> Contents \cup {Absent}] /\ excluded \subseteq Files
  /\ changes \in 0 .. MaxChanges
  /\ pending \subseteq Files \cup {Gitignore, All}
  /\ batch \subseteq Files \cup {Gitignore, All}
  /\ at \in {"idle", "list", "load", "reread", "publish"}
  /\ todo \subseteq Files /\ found \subseteq Files
  /\ working \in [Files -> Contents \cup {Absent}]
  /\ codeFiles \in [Files -> Contents \cup {Absent}]
  /\ codeScope \subseteq Files /\ ignoredCodePaths \subseteq Files
  /\ forgotten \subseteq Files \cup {Gitignore, All}
  /\ snapshotFiles \in [Files -> Contents \cup {Absent}] /\ unpublished \in BOOLEAN

Quiet == at = "idle" /\ pending = {}

\* A refresh that took a notification of the file has rejected.
Missed(f) == forgotten \cap {f, All, Gitignore} # {}

\* Between refreshes every file is known as it is, unless the last scan that
\* was told about it did not find it, or a refresh that was told about it
\* rejected and none has read it since: ignoredCodePaths and a rejected refresh
\* are the only ways for a reference to go missing, and only the latter keeps
\* one of a lost file.
OnlyIgnoredPathsAreStale ==
  Quiet => \A f \in Files : \/ codeFiles[f] = Visible(f)
                            \/ f \in ignoredCodePaths /\ codeFiles[f] = Absent
                            \/ Missed(f)

\* The readers see what is known, unless the last snapshot could not be built.
ReadersAreTold == Quiet => snapshotFiles = codeFiles \/ unpublished

\* References are kept only for files that the next notification will reread:
\* no path is both in scope and skipped, and a file that left the scope has
\* taken its references with it.
ScopeMatchesKeptFiles ==
  Quiet => /\ codeScope \cap ignoredCodePaths = {}
           /\ \A f \in Files : codeFiles[f] # Absent => f \in codeScope

\* The references shown are those of the files, and the next look finds them.
ScopeIsCurrent ==
  CodeTypeOK /\ OnlyIgnoredPathsAreStale /\ ReadersAreTold /\ ScopeMatchesKeptFiles
=============================================================================
