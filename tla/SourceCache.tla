----------------------------- MODULE SourceCache -----------------------------
(***************************************************************************)
(* The cache of one external source: how commands load its configuration,  *)
(* sweep the caches it no longer owns, and read a file of it through the   *)
(* selected provider (packages/core/src/external-sources.ts).              *)
(*                                                                         *)
(* A resolver is one ExternalResolver: a snapshot of the configuration,    *)
(* one reconciliation, and one read of a file, whose outcome it keeps.     *)
(* Any number of commands run one after the other in each resolver slot.   *)
(* The lock of a cache is SourceLock's, taken here as one step: what it    *)
(* promises while no lock is robbed is proved there.                       *)
(*                                                                         *)
(* A commit stands for the pair of the provider's source string and the    *)
(* commit, and a file of a cache for the commit it was downloaded at.      *)
(***************************************************************************)
EXTENDS Naturals

CONSTANTS
    Resolvers, Commits,
    First,       \* the commit the project and the local checkout start with
    None,        \* no source, no commit, no metadata
    Invalid,     \* a lat.md that does not parse
    Absent,      \* no directory
    Nobody,      \* nobody's lock
    MaxEdits, MaxFaults

ASSUME BoundsAssumption == MaxEdits \in Nat /\ MaxFaults \in Nat

ASSUME ModelValues == First \in Commits /\ Nobody \notin Resolvers /\ None \notin Commits

Roots == {"external", "managed"}
Canonical == {None, Invalid} \cup [commit : Commits, strategy : {"fetch", "checkout"}]
Override == [path : BOOLEAN, commit : Commits \cup {None}]
Generation == [commit : Commits, strategy : {"fetch", "checkout", "local"}]
Snapshot == [valid : BOOLEAN, source : Generation \cup {None}]

VARIABLES
    canonical,  \* the source's entry in lat.md
    override,   \* the source's entry in config.local.yaml
    head,       \* the commit the local checkout is at
    directory,  \* per cache root: absent, or the files below it
    metadata,   \* per cache root: <handle>.json
    lock,       \* per cache root: who works under its lock
    pc, root, snapshot, content,   \* per resolver
    edits, faults,                 \* bounds
    swept,      \* history: caches a reconciliation has removed since
    orphaned    \* history: directories left by a command that ended before their metadata

disk == <<directory, metadata, lock>>
config == <<canonical, override, head>>
task == <<pc, root, snapshot, content>>
bounds == <<edits, faults>>
history == <<swept, orphaned>>
vars == <<disk, config, task, bounds, history>>

(***************************************************************************)
(* localCheckoutStatus and loadExternalSources.  A local path is valid     *)
(* when its HEAD is the overriding commit, or else the canonical one.  An  *)
(* override without a canonical source is an error that selects nothing.   *)
(***************************************************************************)
EffectiveCommit == IF override.commit = None THEN canonical.commit ELSE override.commit

LocalIsValid == override.path /\ head = EffectiveCommit

Loaded ==
    [valid  |-> canonical # Invalid,
     source |-> IF canonical \in {None, Invalid} THEN None
                ELSE [commit   |-> EffectiveCommit,
                      strategy |-> IF LocalIsValid THEN "local" ELSE canonical.strategy]]

\* Where a generation is cached: Git repositories live outside the project.
RootOf(source) == IF source.strategy = "checkout" THEN "managed" ELSE "external"

\* The snapshot has a use for the cache under this root.
Owns(s, r) == s.source # None /\ RootOf(s.source) = r

-----------------------------------------------------------------------------

Init ==
    /\ canonical \in {None} \cup [commit : {First}, strategy : {"fetch", "checkout"}]
    /\ override = [path |-> FALSE, commit |-> None]
    /\ head = First
    /\ directory = [r \in Roots |-> Absent]
    /\ metadata = [r \in Roots |-> None]
    /\ lock = [r \in Roots |-> Nobody]
    /\ pc = [t \in Resolvers |-> "idle"]
    /\ root = [t \in Resolvers |-> "external"]
    /\ snapshot = [t \in Resolvers |-> [valid |-> TRUE, source |-> None]]
    /\ content = [t \in Resolvers |-> None]
    /\ edits = 0 /\ faults = 0
    /\ swept = [r \in Roots |-> FALSE]
    /\ orphaned = [r \in Roots |-> FALSE]

Goto(t, label) == pc' = [pc EXCEPT ![t] = label]

Released(t) == [r \in Roots |-> IF lock[r] = t THEN Nobody ELSE lock[r]]

\* A slot that has nothing to remember: the process or the command is over.
Forget(t) ==
    /\ Goto(t, "idle")
    /\ root' = [root EXCEPT ![t] = "external"]
    /\ snapshot' = [snapshot EXCEPT ![t] = [valid |-> TRUE, source |-> None]]
    /\ content' = [content EXCEPT ![t] = None]

\* The user, or another program, edits the configuration or moves the checkout.
Edit ==
    /\ edits < MaxEdits
    /\ edits' = edits + 1
    /\ \/ canonical' \in Canonical \ {canonical} /\ UNCHANGED <<override, head>>
       \/ override' \in Override \ {override} /\ UNCHANGED <<canonical, head>>
       \/ head' \in Commits \ {head} /\ UNCHANGED <<canonical, override>>
    /\ swept' = [r \in Roots |-> swept[r] /\ ~Owns(Loaded', r)]
    /\ UNCHANGED <<disk, task, faults, orphaned>>

\* createExternalResolver: load the configuration, then reconcile.
Load(t) ==
    /\ pc[t] = "idle"
    /\ snapshot' = [snapshot EXCEPT ![t] = Loaded]
    /\ Goto(t, IF Loaded.valid THEN "list" ELSE "reconciled")
    /\ root' = [root EXCEPT ![t] = "external"]
    /\ UNCHANGED <<content, disk, config, bounds, history>>

\* rm(paths.directory): a directory that is gone is nobody's orphan.
RemoveDirectory(r) ==
    /\ directory' = [directory EXCEPT ![r] = Absent]
    /\ orphaned' = [orphaned EXCEPT ![r] = FALSE]

\* Defect: the managed root is not swept.
OneRootOnly(t) == Goto(t, "reconciled") /\ UNCHANGED root

\* validateRemovedCaches goes on with the other root, or is done.
NextRoot(t) ==
    IF root[t] = "external"
    THEN Goto(t, "list") /\ root' = [root EXCEPT ![t] = "managed"]
    ELSE Goto(t, "reconciled") /\ UNCHANGED root

\* It lists the root and looks for metadata the snapshot has no use for.
List(t) ==
    /\ pc[t] = "list"
    /\ IF metadata[root[t]] # None /\ ~Owns(snapshot[t], root[t])
       THEN Goto(t, "sweep") /\ UNCHANGED root
       ELSE NextRoot(t)
    /\ UNCHANGED <<snapshot, content, disk, config, bounds, history>>

\* serialized(): the caller waits until nobody works under the lock.
Lock(t, from, to) ==
    /\ pc[t] = from
    /\ lock[root[t]] = Nobody
    /\ lock' = [lock EXCEPT ![root[t]] = t]
    /\ Goto(t, to)
    /\ UNCHANGED <<root, snapshot, content, directory, metadata, config, bounds, history>>

SweepLock(t) == Lock(t, "sweep", "sweep_directory")

SweepDirectory(t) ==
    /\ pc[t] = "sweep_directory"
    /\ RemoveDirectory(root[t])
    /\ Goto(t, "sweep_metadata")
    /\ UNCHANGED <<root, snapshot, content, metadata, lock, config, bounds, swept>>

SweepMetadata(t) ==
    /\ pc[t] = "sweep_metadata"
    /\ metadata' = [metadata EXCEPT ![root[t]] = None]
    /\ lock' = Released(t)
    /\ NextRoot(t)
    /\ swept' = [swept EXCEPT ![root[t]] = ~Owns(Loaded, root[t])]
    /\ UNCHANGED <<snapshot, content, directory, config, bounds, orphaned>>

\* resolve(): an unknown handle has nothing to read.
Resolve(t) ==
    /\ pc[t] = "reconciled"
    /\ IF snapshot[t].source = None
       THEN Forget(t)
       ELSE /\ Goto(t, "wait")
            /\ root' = [root EXCEPT ![t] = RootOf(snapshot[t].source)]
            /\ UNCHANGED <<snapshot, content>>
    /\ UNCHANGED <<disk, config, bounds, history>>

ReadLock(t) == Lock(t, "wait", "check")

-----------------------------------------------------------------------------
(* readProviderContent, under the lock.                                     *)

\* Defect: the configuration is not read again before publishing.
NeverChecksAgain(t) == TRUE

\* assertCurrentGeneration: the configuration still selects this generation.
StillCurrent(t) == Loaded.valid /\ Loaded.source = snapshot[t].source

\* Defect: any complete generation is kept, whatever commit it is of.
IsGenerationOfAnyCommit(r, source) ==
    /\ metadata[r] # None
    /\ (directory[r] = Absent) = (source.strategy = "local")

\* ensureGenerationUnlocked keeps what metadata and directory both confirm.
IsGeneration(r, source) ==
    /\ metadata[r] = source
    /\ (directory[r] = Absent) = (source.strategy = "local")

Check(t) ==
    /\ pc[t] = "check"
    /\ IF StillCurrent(t)
       THEN /\ Goto(t, IF IsGeneration(root[t], snapshot[t].source)
                       THEN "read" ELSE "drop_directory")
            /\ UNCHANGED <<root, snapshot, content, lock>>
       ELSE Forget(t) /\ lock' = Released(t)
    /\ UNCHANGED <<directory, metadata, config, bounds, history>>

DropDirectory(t) ==
    /\ pc[t] = "drop_directory"
    /\ RemoveDirectory(root[t])
    /\ Goto(t, "drop_metadata")
    /\ UNCHANGED <<root, snapshot, content, metadata, lock, config, bounds, swept>>

DropMetadata(t) ==
    /\ pc[t] = "drop_metadata"
    /\ metadata' = [metadata EXCEPT ![root[t]] = None]
    /\ Goto(t, IF snapshot[t].source.strategy = "local" THEN "publish" ELSE "populate")
    /\ UNCHANGED <<root, snapshot, content, directory, lock, config, bounds, history>>

\* initializeCheckout: a bare repository that has fetched one commit.
Repository(source) == {source.commit}

\* An empty directory for downloads, or a staged repository renamed into place.
Populate(t) ==
    /\ pc[t] = "populate"
    /\ directory' = [directory EXCEPT ![root[t]] =
                        IF snapshot[t].source.strategy = "checkout"
                        THEN Repository(snapshot[t].source) ELSE {}]
    /\ Goto(t, "publish")
    /\ UNCHANGED <<root, snapshot, content, metadata, lock, config, bounds, history>>

Publish(t) ==
    /\ pc[t] = "publish"
    /\ metadata' = [metadata EXCEPT ![root[t]] = snapshot[t].source]
    /\ Goto(t, "read")
    /\ UNCHANGED <<root, snapshot, content, directory, lock, config, bounds, history>>

\* fetchUrl and readHttps: the URL of the file names the commit.
Download(source) == source.commit

\* The file comes from the checkout at hand, the repository, or the downloads.
Read(t) ==
    /\ pc[t] = "read"
    /\ IF snapshot[t].source.strategy = "local"
       THEN content' = [content EXCEPT ![t] = head] /\ Goto(t, "recheck")
       ELSE IF directory[root[t]] = {}
       THEN content' = [content EXCEPT ![t] = Download(snapshot[t].source)] /\ Goto(t, "store")
       ELSE /\ \E c \in directory[root[t]] : content' = [content EXCEPT ![t] = c]
            /\ Goto(t, "recheck")
    /\ UNCHANGED <<root, snapshot, disk, config, bounds, history>>

\* A download is written beside the cached file and renamed over it.
Store(t) ==
    /\ pc[t] = "store"
    /\ directory' = [directory EXCEPT ![root[t]] = {content[t]}]
    /\ Goto(t, "recheck")
    /\ UNCHANGED <<root, snapshot, content, metadata, lock, config, bounds, history>>

Recheck(t) ==
    /\ pc[t] = "recheck"
    /\ lock' = Released(t)
    /\ Forget(t)
    /\ UNCHANGED <<directory, metadata, config, bounds, history>>

\* An await rejects (a download, git, the file system) and the command ends
\* with an error, or its process dies; SourceLock shows that its lock comes back.
\* A directory made and not yet described by metadata is left as it is.
Abandon(t) ==
    /\ pc[t] # "idle"
    /\ faults < MaxFaults
    /\ faults' = faults + 1
    /\ lock' = Released(t)
    /\ Forget(t)
    /\ orphaned' = [orphaned EXCEPT ![root[t]] =
                      @ \/ (pc[t] = "publish" /\ directory[root[t]] # Absent)]
    /\ UNCHANGED <<directory, metadata, config, edits, swept>>

Step(t) ==
    \/ Load(t) \/ List(t) \/ SweepLock(t) \/ SweepDirectory(t) \/ SweepMetadata(t)
    \/ Resolve(t) \/ ReadLock(t) \/ Check(t)
    \/ DropDirectory(t) \/ DropMetadata(t) \/ Populate(t) \/ Publish(t)
    \/ Read(t) \/ Store(t) \/ Recheck(t)

Next == Edit \/ \E t \in Resolvers : Step(t) \/ Abandon(t)

Spec == Init /\ [][Next]_vars

\* Commands keep coming and, once started, run on.
FairSpec == Spec /\ \A t \in Resolvers : WF_vars(Step(t))

-----------------------------------------------------------------------------

Labels == {"idle", "list", "sweep", "sweep_directory", "sweep_metadata", "reconciled",
           "wait", "check", "drop_directory", "drop_metadata", "populate",
           "publish", "read", "store", "recheck"}

Unlocked == {"idle", "list", "sweep", "reconciled", "wait"}

\* The variables have these types; a resolver under a lock holds it.
TypeOK ==
    /\ canonical \in Canonical /\ override \in Override /\ head \in Commits
    /\ directory \in [Roots -> {Absent} \cup SUBSET Commits]
    /\ metadata \in [Roots -> {None} \cup Generation]
    /\ lock \in [Roots -> Resolvers \cup {Nobody}]
    /\ pc \in [Resolvers -> Labels]
    /\ root \in [Resolvers -> Roots]
    /\ snapshot \in [Resolvers -> Snapshot]
    /\ content \in [Resolvers -> Commits \cup {None}]
    /\ edits \in 0..MaxEdits /\ faults \in 0..MaxFaults
    /\ swept \in [Roots -> BOOLEAN] /\ orphaned \in [Roots -> BOOLEAN]
    /\ \A t \in Resolvers : pc[t] \notin Unlocked => lock[root[t]] = t

(***************************************************************************)
(* A read through a cache returns the file at the commit its command was   *)
(* configured with, whatever other commands, edits, failures and crashes   *)
(* did to the cache.  (A local checkout is read as it is.)                 *)
(***************************************************************************)
AnswersAreOfTheirCommit ==
    \A t \in Resolvers :
        pc[t] = "recheck" /\ StillCurrent(t) /\ snapshot[t].source.strategy # "local"
            => content[t] = snapshot[t].source.commit

(***************************************************************************)
(* Once a reconciliation has removed a cache that the configuration does   *)
(* not own, no retrieval that is still in flight brings it back until the  *)
(* configuration asks for it again.                                        *)
(***************************************************************************)
RemovalIsFinal == \A r \in Roots : swept[r] => metadata[r] = None

\* Files or metadata stand under this root.  An orphan does not count: a sweep
\* goes by the metadata it finds, and sees no directory that has none.
Cached(r) == metadata[r] # None \/ (directory[r] # Absent /\ ~orphaned[r])

(***************************************************************************)
(* When the configuration is left alone and valid, commands remove the     *)
(* files and the metadata of every cache it has no use for, in both roots, *)
(* and none comes back.  The only directories that stay are those whose    *)
(* command ended between making them and writing their metadata.           *)
(***************************************************************************)
UnownedCachesGo ==
    <>[](canonical = Invalid \/ \A r \in Roots : Cached(r) => Owns(Loaded, r))
=============================================================================
