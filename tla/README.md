# TLA+ specifications of lat.md

These modules specify the parts of lat.md whose correctness depends on the
order of events or on several pieces of code agreeing: the live project store
of `lat ui` and the browser on it, external sources, the search index, what a
link means, the agent hooks, `lat init`, the checks, the scans and the builds.
Each module is a translation of the TypeScript sources; `PROJECT.json` maps
every definition to its lines and lists the TLC runs, the mutants that show
each property can fail, the hazards, the finding and the theorems.

Run a model: `tlc -config SearchIndex.cfg SearchIndexMC.tla`.
Check the proofs: `tlapm SearchIndexProofs.tla`.

## Inventory

Paths are relative to the repository root.  "Hard" says what a unit test would
hardly reach.

| Component | State | Operations | Hard |
|---|---|---|---|
| Live view store `src/view/store.ts` | snapshot, code scope, pending paths, debounce timer, poll flag, two promise queues, watchers | `startWatching`, `scheduleRefresh`, `refresh`, `applyRefresh`, `editDocument`, `close` | watcher callbacks, timers, other programs and edits between every two awaits; failed refreshes; closing while queues run |
| External sources `packages/core/src/external-sources.ts` | in-process chains, lock directories, cache generations on disk | `serialized`, `acquireFilesystemLock`, `ensureGenerationUnlocked`, `validateRemovedCaches`, `readProviderContent` | processes that die with a lock, waiters that judge it at the same time, configuration that changes during a download |
| Search index `src/search/*.ts`, `src/cli/search.ts`, `src/cli/reindex.ts` | `search.db`, `_search.db`, three lock files, index metadata | `withDb`, `writeIndex`, `acquireSearchAccess`, `reindexCommand` | any number of processes, kills between any two file operations, an index replaced under a query |
| View search `src/view/search.ts` | the promise of the running build, the indexed generation | `prepareIndex`, query | queries that share a build started before a change |
| View server `src/view/server.ts` | SSE clients, instance id | `broadcastChange`, PATCH, `close` | clients that connect while a change is published |
| Browser client `view/src/*` | known generations, page and search requests, editor draft and base | `mergeProjectChange`, effects, `saveDraft` | answers out of order, reconnection to a new server, typing during a save |
| Document merge `src/view/document-edit.ts` | none | `applyDocumentEdit` | three-way merge against a changed file |
| Markdown analysis, code scan, parser cache (`packages/core/src`) | worker pools, file list, cache entries | `scanCodeRefs`, `walkFiles`, `SourceParserRuntime` | tools that list differently, files that come and go, one parser shared by many extractions |
| Section and reference resolution `lattice.ts`, `lattice-model.ts` | none | `parseSections`, `resolveRef`, `findSections`, the commands on them | repeated headings and ambiguous names, resolved in five places |
| Check commands `packages/core/src/cli/*` | index files | `lat check` and its parts, `--fix` | two fixers, an author writing meanwhile, a kill |
| Agent hooks `src/cli/hook.ts`, `comment-*.ts`, `src/fork/antigravity-hook.ts` | none between calls | gate, reminder, stop, prompt | two halves that must agree; a list written twice |
| Knowledge federation `src/knowledge/*` | session markers in the temp directory | load, look up, mutate, save | two hooks of a session at once, deadlines |
| Init `src/cli/init.ts`, `src/cli/fork-*.ts` | templates, hooks, hashes, stamp, gate, backend | sequential writes | runs cut short, user edits, upgrades between runs |
| Fork tooling `src/fork/upstream-*.ts` | sync point, list of reasons | verify, regenerate, report | tree, list and upstream move independently |
| Builds `src/view/*-build.ts` | staging and output directories | collect, render, replace | the vault changes during a build; removing the old site before moving the new one |
| Embedding, grammars, rendering, graph export, MCP adapter | caches of loaded grammars and models | data transformations | numeric and textual detail |

Interaction: the view server owns one view store, subscribes to it and pushes
its generations to browsers over SSE; the browser's editor sends PATCH requests
that become `editDocument`; view search compares the store's Markdown
generation with the one it has indexed and calls the same index functions as
the command line; building a snapshot reads external sources under their
locks.  Commands, hooks, `lat ui` and the MCP server run in different processes
and meet only in files: the vault, `.cache/search.db`, the external caches, the
session markers and what `lat init` wrote.

What makes the components correct:

- *Store*: nothing stale is forgotten; an acknowledged save is on disk and in
  the snapshot; a generation names one snapshot; the store converges, answers
  and closes.
- *Browser*: it shows what is asked, catches up after whatever it missed, and
  never throws typed text away unasked.
- *External sources*: one call at a time works on a cache; locks come back; a
  read is of the configured commit; what is removed stays removed.
- *Search*: an answer comes from an index of the documents and the model the
  query was prepared for; a reader never sees a half-written or replaced
  database; nobody is locked out for ever.
- *Links*: every reader takes a link for the same place, and adding documents
  redirects none.
- *Writers of the user's files* (`init`, `check --fix`, builds): the user's text
  survives, a second run changes nothing, a cut run leaves no false record.
- *Gates* (hooks, policies, upstream guard): what passes is what the rule says.

## Modules

| Module | Models | Source |
|---|---|---|
| `ViewStore`, `ViewStoreMC`, `ViewStoreProofs` | the store's refreshes, edits, watchers and close | `src/view/store.ts`, `document-edit.ts` |
| `CodeScope`, `LiveViewProofs` | the code reference scope of a refresh | `src/view/store.ts` |
| `LiveView`, `LiveViewProofs` | one browser tab on a server that publishes, indexes and restarts | `view/src/App.tsx`, `live-updates.ts`, `data-source.ts`, `SearchPage.tsx`, `src/view/server.ts`, `search.ts` |
| `Editor`, `WriterProofs` | draft, saves, reloads, guards and modes | `view/src/MarkdownEditor.tsx`, `App.tsx`, `unsaved-changes.ts`, PATCH in `src/view/server.ts` |
| `SourceLock`, `SourceLockMC`, `WriterProofs` | the in-process chain and the lock directory | `external-sources.ts` |
| `SourceCache`, `SourceCacheProofs` | configuration, sweep, retrieval and reads | `external-sources.ts` |
| `SearchLock` | abstract: what the gate and the access lock promise | `src/search/lock.ts` |
| `SearchIndex`, `SearchIndexMC`, `SearchIndexProofs` | searching, building, publishing, dying | `src/search/*`, `src/cli/search.ts`, `reindex.ts` |
| `Vault`, `VaultMC`, `ProjectProofs` | section ids and what a reference means | `lattice.ts`, `lattice-model.ts`, the commands on them |
| `IndexFix`, `WriterProofs` | `lat check --fix` | `cli/check.ts`, `gen-index.ts`, `link-scheme.ts` |
| `DocumentPolicy`, `ProjectProofs` | reviews, modes, gate, frontmatter | `cli/check-status.ts`, `check-mode.ts`, `check-frontmatter.ts` |
| `CodeRefs`, `ProjectProofs` | inventory and scan for `@lat` references | `code-refs.ts`, `walk.ts` |
| `SourceSymbols` | extractors, run promises, parser, symbol cache | `source-parser.ts` |
| `CommentGate`, `HookProofs` | comment gate and reminder | `src/cli/comment-guard.ts`, `comment-reminder.ts`, `hook.ts` |
| `StopHook`, `StopHookMC` | the end of a turn | `src/cli/hook.ts`, `src/fork/antigravity-hook.ts` |
| `Federation`, `FederationMC`, `HookProofs` | what a prompt adds | `src/knowledge/*`, prompt handlers of the hooks |
| `Install`, `InstallProofs` | `lat init` | `src/cli/init.ts`, `src/cli/fork-instructions.ts`, `fork-scaffold.ts` |
| `SiteBuild`, `WriterProofs` | static, server and Vercel builds | `src/view/static-build.ts`, `server-build.ts`, `vercel-build.ts` |
| `UpstreamGuard`, `ProjectProofs` | upstream guard and drift report | `src/fork/upstream-guard.ts`, `upstream-drift.ts` |
| `Parts` | nine of them side by side, for one TLC run | |

`SearchIndex` extends `SearchLock` and implements it.  `Parts` runs nine
components that share no state side by side, so that every behaviour is one of
one of them and its state space is the sum of theirs.  It extends `Editor`,
`CodeScope`, `CodeRefs`, `CommentGate`, `DocumentPolicy`, `UpstreamGuard`,
`SiteBuild` and `IndexFix`, whose own variables rest while another part runs;
`SourceSymbols` is an instance over the places `x1` to `x9`.  The comments above
them state each one's bounds.

An operator whose comment begins with "Defect" is a wrong form of the code's,
which the mutants of `PROJECT.json` put in its place to see a property fail.

### ViewStore

The code is a single event loop, so the text between two awaits is one action
and everything else may happen at an await.  `applyRefresh` becomes
`StartRefresh`, `ListFiles`, `ReadFile` (one per document), `ReadsDone`,
`ReadGit`, then `NothingChanged` or `BuildSnapshot` and `PublishSnapshot`;
`RefreshFails` is its rejection.  `queue` is `refreshTail` with the requests
chained on it and `job` the one that runs.  `editDocument` becomes `StartEdit`,
`EditRead`, `EditCheck`, `EditRename` and `EditRefresh`; its answer arrives when
the refresh it waits for settles.  `BuildSnapshot` computes the generations of the
snapshot to come and then awaits it, as the code does; `PublishSnapshot` uses the
numbers it was left with.  `GitPollTick`, `DebounceFires` and
`ScheduleRefresh` are the timers and the watcher callback, `Close` and
`CloseDone` the two halves of `close()`.

The content of a document is the set of changes in it.  A three-way merge is a
union, or a conflict when the file is not what the client had loaded.  The
change an external program makes keeps what was there, so a lost change was
lost by the store.  A watcher may report no file name, which the store turns
into a full refresh.

History variables that only properties read: `forgotten` (documents whose last
notification was consumed by a refresh that failed, or that changed before
anybody watched), `since` (what a document has contained since a save was
renamed over it) and `erased`.

Left out: changes of linked non-Markdown resources (they only force a rebuild),
code files (in `CodeScope`), the initial scan's failures (the command ends).

### CodeScope

`applyRefresh`'s second half: a batch either scans the project again
(`ScanList`, `ScanLoad`, `ScanDone`) or rereads the files it names (`Reread`,
`RereadDone`).  `refreshCodeScope` is the code's condition of that name.
Refreshes are serialised by the store's queue, so one runs at a time; other
programs act at its awaits.  `pending` joins the paths the watcher has reported
and the ones the debounce timer has collected.  A file that comes back after a
scan did not find it stays out until the next scan: the code does that, and
`ScopeIsCurrent` says what else may be out of date.  A refresh may reject while it
looks at the Markdown files (`StartRejects`), lists or reads the sources
(`ScanRejects`), or builds its snapshot, after it has replaced the references
(`BuildSnapshot`); nothing asks for the paths of a rejected batch again.  The
history `forgotten` has those that no later refresh has read, `unpublished` that
the readers' snapshot (`snapshotFiles`) was not built from what is kept.

### LiveView and Editor

In `LiveView` the server is the store reduced to the sequence of its
publications (`Publish`, `Restart`) with `prepareIndex` on top: `indexing` is the
generation of the build whose promise is shared, `index` what it has written,
`indexed` what it is credited with.  The tab consumes one event of the stream at
a time (`mergeProjectChange`), React runs the effects whose dependencies have
changed (`due`), and each effect sends one request per panel and aborts the one
before.  Requests are answered, rejected or cut (`Interrupt`) in any order; a
request keeps the change the tab knew when it asked.

`Editor` takes that a change becomes known (`Notice`) and that the store applies
a save at once (`ApplySave`), and follows every button, navigation, question,
save and reload.  A save may be applied and its answer lost (`LoseSave`), and
the editor may be gone when the answer arrives (`EndSave`).  `accidents` records
the ways in which the code does give up typed text.

### SourceLock and SourceCache

One call of `serialized` is one member of `Tasks`.  `Enqueue`, `Turn` and
`Finish` are the promise chain of a process; `MakeDirectory`, `WriteOwner`,
`Look`, `ReadOwner`, `Discard`, `Retry` and `TimeOut` are
`acquireFilesystemLock`, one action per file system call; `Unlock` and
`RemoveLock` are the release function.  Any of these calls may be refused by the
file system: `CallFails` and `DiscardLeavesRest` end the call and leave the lock
alone, `WriteOwnerFails` ends it and leaves a lock that names nobody, and
`ReleaseFails` leaves the call "stuck", for the error is thrown before the next
call of its process is let start.  Ages are compared with two thresholds
only, so an age is 0, `Grace` or `Stale`.  A process that dies (`Crash`) leaves
the directory.  `lock.maker` records who made the directory; the program does
not know it and only properties read it.  Creating `owner.json` renews the
directory's modification time, as a file system does.  Reusing a process id and
removing the lock directory file by file are not modelled, but that a removal that
fails may have taken `owner.json` first.

`SourceCache` takes the lock as one step and follows what is done under it, in
both cache roots: load the configuration, sweep the caches it does not own,
wait, check, drop the directory and the metadata, populate, publish, read,
store, recheck.  `Edit` is an author or `lat external` changing `lat.md` or the
override, or the local checkout moving; `Abandon` is a command that fails, times
out or dies at any step.  `orphaned` remembers the directories of commands that
ended before they wrote the metadata, by which alone a sweep finds caches.

### SearchLock and SearchIndex

`SearchLock` is the abstract specification: processes request, pass the gate,
enter and leave.  `SearchIndex` contains its variables and operators, adds the
database files, the writer lock and the commands, and implements it: the
property `UsesAccessLock`, which is `LockSpec`, is model-checked and proved.

An index is the version of the project and the model it was built from, because
the metadata and the rows are written in transactions.  `withDb` is `Loop`,
`ReadMetadata`, `Prepare`, `Recheck`, `Query`; `writeIndex` is `TakeWriteLock`,
`Clean`, `CheckpointAndCopy`, `CopyDone`, `Build`, `RemoveSidecars`, `Rename`,
`Tidy`.  `SearchFails`, `BuildFails` and `TimeOut` are the rejections of each
and their `finally` blocks, `Kill` the death of a process: the kernel drops its
locks, its files stay, and a database it had open may leave a WAL
(`sidecar`).  A copy that was up to date is published or not, because recording
the model again may count as a change of the database.

### Vault

A document is the sequence of its headings; documents appear, grow and
disappear, and `analysis` keeps what was parsed of each.  Everything else is the
pure code of the resolver translated as operators, which take the vault they
look in: `Parse` gives the sections with their literal names, slugs and suffixes;
`Known` is `resolveKnown`, `InFile` `resolveInFile`, `Stems` `buildFileIndex` and
`Resolve` `resolveRef`; `PathMatch` and `NameMatch` are the first match of
`findSections`; then what `check`, `refs`, `section`, `expand`, the graph, the
view's links and its back-references make of a link.  The property compares them
on every vault.  Its exception, `Shadowed`, is a document in whose path the path
of another ends.

### Install and Federation

`Install` keeps a queue `todo` of the writes of one run; each is an action whose
guard asks the question the code asks, and `Cut` drops the rest.  The fork's own
writes truncate a file and then fill it, so `CutWhileWriting` may also leave the file
empty; the other files are replaced by a rename.  A file is a
sequence of pieces (markers, template text of a version, text of the user) and a
hash is the text it is of.  Of the root index only the flag, the listing and the
directories are kept, not its text.  `git` says whether there is a repository or a
`.gitignore`, and which paths are checked in: those `EnsureGitignored` passes over.
`SetupEmbeddings` may fail to read the key (`usable`) or the index (`stored`) and then
goes on without it.  `EditFile`, `Upgrade`, `WipeCache`, `SetGate`, `ChangeGit`,
`ChangeKey` and `Reindex` happen between runs.

In `Federation` a hook reads the markers, looks the documents up with
`Concurrency` workers in whose steps the budgets and the deadline cut in, writes
the markers (truncate, then write) and prints.  Hooks may overlap or be killed
at each step; the stores may learn and the lifetime of an empty attempt passes.

### The checks, scans, gates and builds

- `IndexFix`: `checkIndex` and `writeGeneratedIndex` directory by directory, with a
  temporary file, a second fixer, an author and a kill; `spliceIndexContent` on
  lines that are markers, fences, bullets and text.  What the author writes in an
  index includes two pairs of markers, a listing in a fence, a fence between the
  markers and a fence that is never closed.
- `DocumentPolicy`: what is hashed, compared and required, over documents that
  people and agents edit in any order.
- `CodeRefs`: listing by git, ripgrep or a walk, then batches of ripgrep or file
  by file, in a bounded pool, while files change.  A directory may be a file by
  now (`taken`), may not be entered (`closed`), or goes away (`gone`), or its
  `.gitignore` does (`ruleless`): there the listing by git or the walk fails.
- `SourceSymbols`: every extractor over small syntax trees (recursive operators, as
  the code recurses), and the order of promise, cache and parser of two
  processes.
- `CommentGate`: one call is judged before it is applied and again after it, as
  each agent's hooks are wired; others change the file between the two.
- `StopHook`: the two lists of validators and the churn rule.
- `SiteBuild`: the pages that a build collects, one at a time while files change,
  until none is asked for that is not there, and the replacement of the directory,
  with retries, a kill and a rival.  A forced build removes the old site file by file
  (`RemoveSome`, `RemoveRest`), and may die or be refused in the middle
  (`RemoveNoMore`): what then stands is `Ruins`, and `cutShort` tells so.
- `UpstreamGuard`: publish, merge, edit, record, regenerate and verify over trees
  whose files are the commit that changed them last.  The fork commits too
  (`forked`), and any commit in the history of HEAD can be recorded as the sync
  point, its own among them.

## Runs

| Run | Instance | Shows |
|---|---|---|
| `view_refresh` | 1 or 2 documents, 1 or 2 saves, 1 external write or deletion, 1 failure, 1 change of a source | `StaleIsCovered`, `AcknowledgedEditsSurvive`, `ReadYourWrites`, `GenerationsIdentifySnapshots` |
| `view_live` | 1 document, 1 save, 1 write, 1 failure, 1 commit; fair | `Converges`, `CommitIsNoticed`, `CallsReturn` |
| `live_view` | 1 page, the search page, 1 query, 1 restart, 3 snapshots, 1 fault, 1 move; fair | `ShowsWhatIsAsked`, `SearchSeesKnownChanges`, `CatchesUp` |
| `source_lock` | 2 processes, 4 calls, 1 crash, 1 refused call, all three ages; fair | `ExclusiveUnlessRobbed`, `LocksAreReleased`, `CallsTakeTurns` |
| `source_cache` | 2 commands at a time, 2 commits, 2 edits, 1 fault; fair | `AnswersAreOfTheirCommit`, `RemovalIsFinal`, `UnownedCachesGo` |
| `search` | 2 searches, 1 reindex, 2 models, 1 change, 1 kill | `AnswersMatchAnalysis`, `UsesAccessLock`, `FilesStayInOrder` |
| `search_live` | the same with 1 model and no change; fair | `WaitersAreAdmitted`, `WriteLockIsReleased` |
| `vault` | all vaults of up to 4 headings in 4 documents, one shadowed by another, 2 other files | `LinksMeanTheSame`, `NewDocumentsRedirectNothing` |
| `install` | 3 runs, 1 cut, 1 event, 2 versions, 1 path that may be checked in | `SetupIsSound`, `EditsSurvive`, `RerunsChangeNothing` |
| `federation` | 2 hooks, 4 documents, 2 prompts; fair | `ShownOnce`, `AcceptsLikeSequential`, `Surfaces` |
| `parts` | nine components, bounds in `Parts.tla` and `Parts.cfg` | `DraftsAreSafe`, `ScopeIsCurrent`, `HalvesAgree`, `BlocksPassUnseen`, `FixSettles`, `AuthorsKeepTheirText`, `SymbolsAreSound`, `SiteIsWhole`, `GuardHolds`, `PolicyHolds`, `ScansAreComplete` |
| `stop_gate` | violation | a turn ends over a tree that `lat check` fails |

**Bounds.**  Two saves are the least that can undo each other; two documents let
a batch name one and not the other; `OneEditOrOneDocument` splits `view_refresh`
into these two cases, because a second document adds nothing to how saves merge.
One failure is enough because `forgotten` absorbs every later effect of it.
`Attempts = 2` in place of 3 reaches both the retry and the final conflict.  Three
changes let a file be deleted and come back around a change of `.gitignore`.
Three queued calls in one process are the least for which deleting the
chain's entry too early lets two run; they begin in one order (`InOrder` in
`SourceLockMC`), for which of them comes first makes no difference.  One refused call
gives each kind of lock left behind.  Two searches and a reindex give every
pair of reader, incremental writer and rebuilding writer; one change of the
project is enough for a stale analysis and one kill for a leftover of each kind;
commands start again without limit, so that the third attempt of a search is
reached.  Two commits and two edits let a source change while one is being
downloaded, and be removed and come back.  Three snapshots of which a restart
forgets some let a generation return under another instance.  Four headings give
a name, a slug that equals it, an authored suffix and a generated one.  Three
runs of `init` are a first, one cut short or upgraded, and a rerun (3.1 million
states, about two minutes).  Two hooks
and two orders of the same documents give every overlap of their files.
Symmetry is used in `search` (searches, models) and `view_refresh` (saves) only,
and in no liveness run.

**Fairness.**  Every liveness run uses weak fairness of the program's own steps:
the event loop runs ready callbacks, timers fire, a process that is not killed
takes its next step, and a lock that stays free is found by the next poll.  In
`SearchIndex` the deadline of a waiter at the gate or at the writer lock is fair,
that of a waiter inside the gate is not, so `WaitersAreAdmitted` does not hold by
giving up.  In `SourceLock` the clock is fair and lock time-outs are not.  In
`LiveView` the server and the tab take their steps; publications, moves and
faults need not happen.  In `SourceCache` each command slot goes on.  In
`Federation` some hook always moves: prompts keep coming, or `Surfaces` would
promise nothing.  Nobody has to edit, commit, crash, fail or close.  Deadlock
checking is off where the system may stop: a closed store, commands that are
over, changes that are used up, a tab at rest.

## Proofs

`tlapm` checks these for every value of the constants that satisfies the named
assumptions of the modules.

- `TypeCorrect`, `StaleDocumentsAreCovered` (`ViewStoreProofs`).
  `StaleIsCovered` is not inductive: a running refresh may already have read a
  document, or found it missing, before it changed.  `CoverInv` adds what the
  job knows: a document it has read differs from the disk only if somebody will
  look again (`ReadIsCovered`), the same for a document its listing did not
  find (`NotFoundIsCovered`), the shape of a job in each phase (`JobShape`),
  that nothing runs before the watchers open (`StartingIsQuiet`) and that an
  edit under way has an id (`EditHasId`).
- `SavesSurvive`, `SavesAreShown`: what an acknowledged save added is on disk and
  in the snapshot.  `SavedInv` follows an edit to its answer: edits take turns
  (`EditLine`) and one refresh at most has a waiter (`OneWaiter`); what landed was
  erased by nobody but those who erase (`LandedIsKept`); a merge holds both its
  sides (`MergeIsWhole`); `since` has the disk in it (`SinceHoldsDisk`), and the
  refresh an edit waits for holds only what the document contained after the
  rename (`ReadSince`).
- `GenerationsAreSound`: `GenerationInv` says that the numbers a job computed before
  it awaited its snapshot are still the next ones when it publishes, whatever other
  callbacks did meanwhile: jobs run one at a time, and nothing else replaces the
  snapshot.
- `TabShowsWhatIsAsked`, `SearchesSeeWhatIsKnown` (`LiveViewProofs`).  `AsksInv`:
  requests that are left are for the present route and query, or the search
  effect is due.  The other invariant says that the server is never behind what
  a tab or a request knows of its instance, that events on the stream are in
  order, and that the index is at least as new as what it is credited with;
  then an answer shows what its request knew.
- `DraftsStaySafe` (`WriterProofs`).  `DraftInv` adds to `DraftsAreSafe` that an
  editor which awaits a reload is clean (`EditorIsSound`), that a save writes once
  and an editor has one save at a time (`SavesAreSound`), and that typed text which
  came from the disk or has reached it is remembered there (`TextIsKept`).
- `LockIsExclusive`, `NoLockIsLeftBehind` (`WriterProofs`).  While no
  lock has been robbed, whoever works under the lock made the directory that is
  there (`OwnsLock`), and calls of dead processes take no step (`DeadRest`).  A lock
  that stays behind belongs to a call that died or was refused its release, or names
  nobody because its `owner.json` was refused (`UnnamedLock`).
- `CallsWaitTheirTurn`: whatever happens to the directory, the chain alone keeps
  the calls of a process apart.  `ChainInv`: two live calls never follow the
  same one, the tail is the last live call and nobody follows it, one call of a
  process is first in line and only that one has its turn, and no set of calls
  waits in a circle, so that there is a first one.
- `CachesAreTyped`, `ReadsAreOfTheirCommit`, `RemovedCachesStayAway`
  (`SourceCacheProofs`).  A command's step changes only its own state and the
  cache whose lock it holds (`Private`), the files of a cache are of the commit
  its metadata names (`CacheMatches`), and a command that renews a cache has
  seen it owned and not swept since (`Task`).
- `AccessIsExclusive` (`SearchIndexProofs`): the abstract lock, from its types
  and itself.
- `IndexUsesAccessLock`: every action of `SearchIndex` is a step of `LockNext` or
  leaves the lock's variables alone; the identity is the refinement mapping.
- `AnswersAreConsistent`: a search between its second check and its query is
  inside the access lock, so `Rename`, which needs exclusive access, cannot
  change `active`; `Knows` says what each label of a search has established.
- `FilesAreSafe`: whoever writes has the writer lock and what it has staged is of
  its own analysis (`Owns`), whoever renames is alone inside the access lock and
  has removed the sidecar.

- `ScopeStaysCurrent` (`LiveViewProofs`).  `ScopeInv` says at each await of a batch and of a scan
  which files may be out of date: those that have yet to be read, and those the
  store is about to be told of (`IdleIsCurrent`, `RereadIsCurrent`,
  `LoadIsCurrent`), or that a rejected refresh has forgotten; what is kept was not
  ruled out (`ScopeIsAllowed`), and at rest it is published (`RestIsPublished`).
- `ScansFindEverything` (`ProjectProofs`): a scan that ends reports every reference of the files
  that stood still, and no other.  `ScanInv`: the pool never has more workers
  than it may (`PoolIsSound`), what the walk has found, is reading and has yet to
  read is closed under the tree (`WalkIsSound`), and every listed file is in a
  batch that waits, runs or has answered (`SearchIsSound`, `EndIsSound`), and a
  scan fails exactly where the listing does.  What a scan owes is proved for the
  references that `ExtractCodeRefTargets` takes from a line, without a hypothesis
  (`ScanIsWhole(Extracted)`).  That these are the ones meant is only model-checked,
  on the lines of `Parts`; where it is so (`LinesAreRead`), the theorem concludes
  `ScansAreComplete`.
- `DocumentsAreShownOnce`, `WorkersAcceptInOrder` (`HookProofs`).  `FederationInv`:
  the workers of a hook claim what is open in order and stop only when enough was
  found or attempted or nothing is left (`WorkersAreSound`), a hook has read of
  the markers all that was shown (`SeenIsAccounted`), and until a disturbance one
  hook runs at a time (`Undisturbed`).  The order of acceptance rests on a lemma
  about ranks in finite sets of numbers.
- `TheHalvesAgree`, `BlocksSlipOnlyUnseen` (`HookProofs`).  `GateInv`: while nobody
  else has written the file, an edit replaces lines of the file
  (`EditsReplaceLines`) and what the gate let through it would let through again
  (`PassedTheGate`); the rest are lemmas about the judgement of a text: a line that
  is nowhere in what it replaces counts as new, a run of two lines with a new one
  is refused, a text without a baseline is judged no milder, and what is refused
  adds a line of prose.
- `PoliciesHold` (`ProjectProofs`).  `PolicyInv`: the recorded hash is of the text
  that was read, whatever was edited since (`HashIsOfRead`).  What remains is about
  one text: with fences of one length, one is open after an odd number of them
  (`FencesAlternate`, by induction over the lines, which makes Markdown's rule and
  `fencedLineMask` agree), so that the hash leaves out the words of the headings
  and nothing else (`HashIsOfClaims`); and a hash is never taken for no hash.
- `GuardsHold` (`ProjectProofs`).  `GuardInv`: a merge under way is newer than what
  was merged, and both copies record a commit, of upstream or of the fork, and
  lines of the list.
  The rest is about lists: what is read of one has a path once and a reason
  (`EntriesAreRead`), and a set of such entries is written and read back, but for
  the lines that are read as something else (`WrittenIsRead`), so that regenerating
  twice writes the same.
- `LinksMeanOnePlace`, `NewDocumentsKeepLinks` (`ProjectProofs`).  `VaultInv`: what
  was analysed of a document is well formed (`WellFormed`: no two sections have
  the same literal headings, no two the same anchor, and what stands above a
  section is one of them).  A suffix that is not taken exists because there are
  more suffixes than names (`FreshIsNew`), and `Parse` keeps the document well
  formed heading by heading (`AddedIsWellFormed`, `ParsedIsWellFormed`).  So an id
  is known to be its own section; the rest is about the cases of `Resolve`: with
  one file, or with several, which is ambiguous.  Neither theorem has a
  hypothesis on the links or the documents beyond `VaultAssumption`.

- `SitesAreWhole` (`WriterProofs`).  `SiteInv` says of each phase of a build what the
  pages so far link: a document links at least what does not depend on files that
  come and go (`DocumentsAreWhole`), so that what quotes a page of a later phase
  brings nothing new but an external or, if files changed, a source
  (`QuotesAreKnown`); a phase that is over has fetched all that it was asked for
  (`PhasesAreOver`).  Hence a complete build is closed (`Whole`), and `Move` puts
  nothing else; the removal of an old site is `Ruins` at every step until it is over.
  Files may change at any step and as often as they like.
- `UsersTextSurvives` (`InstallProofs`): `EditsSurvive` for any agents, versions,
  runs and edits.  `IInv`: a recorded hash is of init's own text (`Ours`), but for
  the hook file that init merges with the user's, and that file is only ever
  merged (`Steps`); while a question is open, the reason for it still holds
  (`AskedAbout`), since nobody else changes the recorded hashes meanwhile.  So a
  text that is replaced unasked holds nothing of the user's.  The rest counts the
  user's pieces of a text: joining adds them up (`UsersAddUp`), and a section that
  is replaced leaves what is around it and is found again where it was
  (`SplicedKeepsTheRest`).  A run killed in the middle of a write of the fork's is the
  exception it needs: the file is empty then.
- `SetupStaysSound`, `RerunsAreQuiet` (`InstallProofs`): `SetupIsSound` and
  `RerunsChangeNothing` for any agents, versions, runs and edits.  Neither property is
  inductive, since what a run finds done depends on everything that was written before
  it.  `WholeInv` adds to `IInv`:
  - `ListInv`: the list of steps is what remains of the plan for the agents chosen, in
    its order, and a file that a step makes does not change the plan (`PlanStays`);
  - `AccountInv`: a template that stands in a shared file, inside its markers or not, is
    the recorded one or is noted as not recorded (`SharedAccounted`), so too a file of its
    own in which the user has written nothing (`WholeAccounted`), and what the run has in
    hand to record is of its version and in the file (`FreshIsCurrent`).  Pieces have to
    be followed place by place through every splice, for a user who moves a marker
    decides what the next run takes for a section (`ComesFrom`);
  - `RunInv`: of the plan of a run, what is not on the list any more is `Done`, that is,
    the next run would find nothing to write for it unasked;
  - `SettledInv`: of the plan of the last complete run everything is `Done`, and its
    version is stamped.  When a run ends, `RunInv` becomes `SettledInv`; while another
    run is under way, a cut or a wiped cache leaves both sound;
  - `GateInv`: a listing of the modes is written only after the directories that are
    missing, wherever an offer was cut short; `HostedInv`: a hosted backend has a key.
  The proof attempts corrected what the two properties said.  A file can come to hold two
  templates of one channel once the user has taken a marker of the first, and then
  neither is accounted for: the history `doubled` names such files.  A section that had
  come to enclose pieces of the other takes them out when it is written over, with a yes
  or without one (`Swallows`), so that the setup counts as disturbed from then on.  And
  a key is named for what it opens, never `none` or `local` (`KeysAssumption`).
- `FixesSettle`, `RewritesKeepTheText` (`WriterProofs`): `FixSettles` and
  `AuthorsKeepTheirText` for any documents, titles, fixers and hand-written indexes.
  `FixInv`: what a run is about to write is what it read with the listing in its
  place (`HasContent`); while nobody has disturbed a run, it knows the directories,
  the indexes ahead of it are as it read them, the temporary file is its own, and
  every directory it has passed is settled (`Undisturbed`).  The rest is about lines:
  `spliceIndexContent` always puts the listing in the place of a run of lines
  (`PlaceIsFound`) with an even number of fences before it, so that the next run
  finds it again (`ListingIsFound`) and writes the same (`SpliceSettles`); and a
  stable sort shows every entry it is given (`SortedIs`).  The proof attempts
  corrected both properties: an index whose last fence is never closed can swallow
  its listing (`Swallows`), and fences between the markers are the author's lines
  that a rewrite does take away.

The assumptions are on the bounds (naturals), on model values being different and
on the sets an instance chooses: `EditorAssumption`, `CodeAssumption`,
`ScanAssumption` (finitely many files and directories, in a tree below the root),
`GateAssumption`, `FederationAssumption`, `PolicyAssumption`, `GuardAssumption`
(finitely many paths), `VaultAssumption` (a heading is a word and numbers, the
paths are listed in some order, no other file is a document), `SiteAssumption`
(an external document links no file of the project, and no preview is named as
the graph's page is), `AgentsAssumption` and `KeysAssumption` (the agents there are; a
key is not named as a local backend is), `IndexFixAssumption` (no document is named as
the subdirectory, and whatever is listed has its place in the sorted order) and those of
the other modules.  TLC evaluates each in a run.

Only model-checked: every liveness property (which needs fairness and ENABLED), and
`SymbolsAreSound` of `SourceSymbols`, whose operators are recursive, which the provers
do not accept.  The induction theorems of the library need an operator that the
installed provers cannot instantiate; where one induction was enough
(`FencesAlternate`, `ParsedIsWellFormed`) it is done on a set of numbers instead
(`OneAfterAnother`).

## Known divergences

The finding of `stop_gate` quotes a comment that the code contradicts.  The
models also keep these behaviours, which a reader may not expect.  Properties
name them as exceptions or histories absorb them; none is hidden by a bound.

Store and external sources
- A write by another program between an edit's second read and its rename is
  lost (`store.ts:728`; `specs.md:272` promises that it survives).
- Reopening the external watchers drops notifications that are not delivered
  (`store.ts:1040`; `external-sources.md:361`).
- A code path that was absent during a scan and returns is ignored until the
  next scan (`store.ts:990`; `specs.md:310`).
- A refresh that rejects loses its batch (`store.ts:845`): a document or a reference
  stays stale until the next event for it, and references that were kept before
  their snapshot could not be built (`store.ts:1029`) are shown by the next one.
- A lock whose `owner.json` cannot be written stays (`external-sources.ts:770`, the
  error is rethrown at 787) until a waiter finds it older than the owner grace.  A
  release that fails (776-784) leaves the lock too, and throws at 827 before the
  chain goes on: later calls of that process for that source wait for ever.
- A cache directory without metadata, of a command that ended between making it and
  writing the metadata, and a `.staging-` directory are never swept, for the sweep
  goes by the metadata (`external-sources.ts:986`; `external-sources.md:349` has
  directory and metadata deleted): the exception of `UnownedCachesGo`.
- Two waiters may judge one lock abandoned; the second discards the fresh lock
  of the first (`external-sources.ts:796`; `external-sources.md:343`).

Browser
- A save that ends after its editor closed clears the guard of the next editor
  (`MarkdownEditor.tsx:86`; `specs.md:270`): the exception of `DraftsAreSafe`.
- A page refresh that fails unmounts an editor with a draft (`App.tsx:620`).
- Search results are not asked for again after a server restart
  (`SearchPage.tsx:112`), and a failed refresh of the index keeps the old
  sidebar without a visible error.
- After a save whose answer was lost, further typing and saving can conflict
  with or repeat the user's own text; typing and undoing it aborts a reload
  whose revision is already recorded.

Checks and scans
- `check --fix` loses an index edited between analysis and rename
  (`check.ts:783`); a kill leaves `<index>.tmp`, which later runs refuse; bullets
  outside the listing are never removed, and a first migration deletes bullets
  that lead elsewhere (`cli.md:150`).
- An index whose last fence is never closed, with no marker, bullet or heading
  outside fences, gets the listing appended inside that fence (`gen-index.ts:294`):
  the check still misses every entry, and each `check --fix` appends the listing
  again.  It is the exception `Swallows` of `FixSettles`.
- ripgrep's exit status 1 (nothing found) counts as a failure
  (`code-refs.ts:153`), so such scans fall back to TypeScript; git, ripgrep and
  the walk list dot-named files differently.  A tracked file below what is now a
  file, or may not be entered, fails a scan with git (`code-refs.ts:271`); a directory
  that is removed or may not be entered, or whose `.gitignore` goes between listing
  and reading it, fails the walk (`walk.ts:68`).
- `lat refs <ambiguous name>` answers for the first file (`markdown.md:189`); links
  are taken for source links by extension before they are resolved
  (`section.ts:122`, `graph.ts:205`).
- Where the path of a document ends in that of another, as `lat.md/lat.md/x` in
  `lat.md/x`, a link to the shorter path that is no section id means the other
  document, and so may the suggestion for an ambiguous link, although the comment
  leaves full paths to the exact match (`lattice-model.ts:103`): the exception
  `Shadowed` of the properties of `Vault`.
- A document with CRLF line ends has no frontmatter for `parseFrontmatter`
  (`lattice.ts:60`), so its review, mode and gate vanish; nested fences of two
  lengths confuse `fencedLineMask`; unknown keys under `lat:` are not reported
  (`cli.md:161`).
- `export function*` is no symbol although a plain generator is;
  `typedef struct Tag {…} Alias` loses `Tag` (`markdown.md:183`).

Hooks and federation
- A block of comments passes the gate in steps that do not carry its neighbour.
  Codex has the reminder only, Antigravity the gate only.
- An empty attempt that expires between slow prompts can starve a later
  document; a hook killed between saving and printing loses a document for the
  session; a torn marker file counts as empty; overlapping hooks can show a
  document twice.

Init, fork and builds
- An entry of hooks that mixes the user's with lat's is removed whole
  (`init.ts:176`); a section whose end marker was deleted is appended and, at
  the next yes, swallows what follows; an end marker before the begin marker
  gets another section each run (`cli.md:302`); text typed while a question is
  open is overwritten; hashes are recorded at the end only; a run without a
  terminal stamps the version without choosing agents.
- The block and the skill of the fork, and the root index, are truncated and then
  filled (`fork-instructions.ts:149`, 183, `fork-scaffold.ts:343`, 579): a run killed
  in between loses the user's text of `AGENTS.md`, of the skill or of the index.  The
  first two are an exception of `EditsSurvive`; of the index the model keeps no text.
- A run without a terminal that cannot read the key or the index for once takes a
  working hosted setup for a broken one and pins the local model (`init.ts:1204`,
  1216; the comment at 1239 wants a deliberate choice kept): the exception of
  `WorkingHostedIsKept`.
- `lat reindex` records the backend before it publishes (`reindex.ts:172`); if that
  fails, preference and index are apart until the next reindex.
- The sync point may be a commit of the fork's own, `HEAD` for one
  (`upstream-guard.ts:447`, and the check at 380 agrees): what the fork had changed by
  then passes unexplained, the exception of `PassesAreExplained`.
  The guard's two files are written in place (462, 505); a kill in the middle, which
  leaves one empty or short for the next check to report, is not modelled.
- A stale sync point hides changes of files that upstream has added since;
  paths that begin with `#` are asked for for ever; duplicates lose entries when
  the list is regenerated.
- A forced build removes the old site before it moves the new one
  (`static-build.ts:1104`, `vercel-build.ts:214`, the latter without retry), and
  a kill leaves its staging directory; a removal that is killed or refused halfway
  leaves half a site standing, the exception of `SiteIsWhole`; the server build
  analyses the vault twice.

## Not modelled

Parsers' grammars, rendering, embedding arithmetic, graph layout and formatting
are data without control a model checker could explore; their promises are about
text and numbers.  The MCP server and graph export are adapters of functions
that are modelled.  Terminal dialogue, routing, headers, template texts, assets,
the website and the GitHub action are left out.  `PROJECT.json` says for each
component what part of it is missing and why.

Three hazards have no property because the code has them: the windows at
`store.ts:728` and `store.ts:413` above, and the backend that `lat reindex` records
before it publishes (`reindex.ts:172`).

## What could come next

1. `CodeScope` and `ViewStore` in one module.
2. The read-only search session of `query.ts` as a process of `SearchIndex`.
3. `SourceCache` over `SourceLock` in place of its one-step lock, as a refinement.
4. Two browser tabs whose editors save to one document through `ViewStore`.
