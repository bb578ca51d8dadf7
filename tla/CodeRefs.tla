------------------------------ MODULE CodeRefs ------------------------------
(***************************************************************************)
(* The scan for references in code.  The files are listed once, by git,    *)
(* by ripgrep or by a walk of the directories; their lines are searched    *)
(* by ripgrep in batches, or file by file by the program itself when       *)
(* ripgrep is missing or one of its batches fails.  Walk and searches run  *)
(* in a bounded pool while other programs change the files.  A directory   *)
(* may have given its name to a file before, or not let one in.            *)
(***************************************************************************)
EXTENDS Integers, Sequences, FiniteSets, SequencesExt, FiniteSetsExt

CONSTANTS
  ProjectFiles,  \* the files
  Kinds,         \* what a file may be: [source, tracked, ignored, hidden, nested]
  DirOf,         \* the directory of a file
  Sub,           \* the directories in a directory
  Root,          \* the directory of the project
  Barred,        \* bound: the directories that may be out of reach from the beginning
  Means,         \* the lines, each with the places in it that are references
  Workers,       \* availableParallelism
  MaxBatch,      \* bound: files of a batch (16 000 characters of path in the code)
  MaxWrites,     \* bound: changes by other programs during a scan
  Nothing        \* no such file, nothing yet

Dirs == DOMAIN Sub

\* The places that references may have.
Places == ProjectFiles \X UNION {DOMAIN line : line \in DOMAIN Means}

\* The directories are a tree below the root, in which every file has its place.
ASSUME ScanAssumption ==
  /\ IsFiniteSet(ProjectFiles) /\ IsFiniteSet(Dirs)
  /\ Kinds \subseteq [source : BOOLEAN, tracked : BOOLEAN, ignored : BOOLEAN,
                      hidden : BOOLEAN, nested : BOOLEAN]
  /\ Sub \in [Dirs -> SUBSET Dirs] /\ Root \in Dirs
  /\ Barred \subseteq Dirs \ {Root}
  /\ \A ds \in SUBSET Dirs : Root \in ds /\ (\A d \in ds : Sub[d] \subseteq ds) => ds = Dirs
  /\ DirOf \in [ProjectFiles -> Dirs]
  /\ MaxBatch \in Nat \ {0}
  /\ Nothing \notin DOMAIN Means
  /\ \A refs \in SUBSET Places : refs # Nothing

VARIABLES
  kind,       \* what each file is
  tools,      \* the tools at hand: "git" (and a repository), "rg"
  lines,      \* the line of each file
  taken,      \* the directories git knows whose name a file has by now
  closed,     \* the directories one is not let into
  gone,       \* the directories removed
  ruleless,   \* those whose .gitignore went after it was seen and before it was read
  scan,       \* where the scan is
  jobs,       \* the work of the pool: directories, or sets of files
  started,    \* how many of it are started
  running,    \* those under way
  results,    \* those which ended, with what they returned
  inventory,  \* the files listed (sourceFilesPromise)
  writes,     \* changes made so far
  touched,    \* the files changed since the scan began, or out of reach before
  seen        \* the references that were in a file at some time since

scanVars == <<kind, tools, lines, taken, closed, gone, ruleless, scan, jobs, started,
             running, results, inventory, writes, touched, seen>>

Present == {f \in ProjectFiles : lines[f] # Nothing}
IsSource(f) == kind[f].source

-----------------------------------------------------------------------------
\* A marker between two quotes is an example, one whose quotes do not pair up is
\* not; `lat:ignore` silences its line.
IsInsideQuotedSpan(line, i) ==
  \E q \in {"single", "tick"} :
    LET at == {j \in DOMAIN line : line[j] = q}
    IN Cardinality(at) % 2 = 0 /\ Cardinality({j \in at : j < i}) % 2 = 1

ExtractCodeRefTargets(line) ==
  {i \in DOMAIN line :
     /\ line[i] = "@lat"
     /\ \A j \in DOMAIN line : line[j] # "lat:ignore"
     /\ ~IsInsideQuotedSpan(line, i)}

RefsIn(f) == {<<f, i>> : i \in ExtractCodeRefTargets(lines[f])}

-----------------------------------------------------------------------------
\* The three inventories.  Git's is of the tracked files that are still there: one
\* that is missing is left out, but where a directory of its path is a file, or
\* closed, the look at it throws.  The others pass over what is ignored or hidden.
GitTracked == {f \in ProjectFiles : IsSource(f) /\ kind[f].tracked /\ ~kind[f].nested}
OutOfReach == {f \in GitTracked : DirOf[f] \in taken \cup closed}
FindGitTrackedSourceFiles == GitTracked \cap Present

Unhidden(f) == IsSource(f) /\ ~kind[f].ignored /\ ~kind[f].hidden /\ ~kind[f].nested

TryRipgrepSourceFiles == {f \in Present : Unhidden(f)}

\* What one directory adds to the walk.  It cannot be read when it is gone or closed,
\* nor when the .gitignore it listed is not there any more.
ReadDirectory(dir) == {f \in Present : DirOf[f] = dir /\ Unhidden(f)}
CannotRead(dir) == dir \in gone \cup closed \cup ruleless

\* ripgrepPathBatches: the files in their order, as many to a batch as fit.
Ordered(files) == SetToSeq(files)
Batches(files, size) ==
  LET list == Ordered(files)
      count == (Len(list) + size - 1) \div size
  IN [n \in 1..count |->
        {list[i] : i \in ((n - 1) * size + 1)..Min({n * size, Len(list)})}]

\* One run of ripgrep: a missing file makes it fail, and so does a batch without
\* any line to report, since tryExec does not find the exit code it looks for.
RipgrepRun(batch) ==
  LET found == {f \in batch \cap Present : \E i \in DOMAIN lines[f] : lines[f][i] = "@lat"}
  IN IF ~(batch \subseteq Present) \/ found = {} THEN Nothing ELSE UNION {RefsIn(f) : f \in found}

\* One file by the program: what cannot be read has no references.
ScanFileWithTs(file) == IF file \subseteq Present THEN UNION {RefsIn(f) : f \in file} ELSE {}

\* The pool has ended when nothing is running and nothing is left to start.
PoolEnded == running = {} /\ started = Len(jobs)

-----------------------------------------------------------------------------
Start(work) ==
  /\ jobs' = work
  /\ started' = 0 /\ running' = {} /\ results' = <<>>

Idle == UNCHANGED <<jobs, started, running, results>>

World == <<kind, tools, lines, taken, closed, gone, ruleless, writes, touched, seen>>

\* The search begins with the inventory, in batches or one by one.
Search(files) ==
  /\ inventory' = files
  /\ IF "rg" \in tools
     THEN scan' = "rg" /\ Start(Batches(files, MaxBatch))
     ELSE scan' = "ts" /\ Start(Batches(files, 1))

ScanInit ==
  /\ kind \in [ProjectFiles -> Kinds]
  /\ tools \in SUBSET {"git", "rg"}
  /\ taken \in SUBSET Barred /\ closed \in SUBSET (Barred \ taken)
  /\ \A d \in taken : Sub[d] \subseteq taken
  /\ \A d \in closed : Sub[d] \subseteq closed
  /\ \E reach \in [ProjectFiles -> DOMAIN Means] :
       lines = [f \in ProjectFiles |-> IF DirOf[f] \in taken \cup closed THEN Nothing
                                                                         ELSE reach[f]]
  /\ gone = taken /\ ruleless = {}
  /\ scan = "list"
  /\ jobs = <<>> /\ started = 0 /\ running = {} /\ results = <<>>
  /\ inventory = Nothing
  /\ writes = 0
  /\ touched = {f \in ProjectFiles : DirOf[f] \in taken \cup closed}
  /\ seen = UNION {RefsIn(f) : f \in Present}

\* listSourceFiles, once for all who ask.  Nothing catches what git's inventory
\* throws; a failing list of ripgrep's, as where a directory is closed, or an empty
\* one goes on to the walk.
List ==
  /\ scan = "list"
  /\ IF "git" \in tools
     THEN IF OutOfReach = {} THEN Search(FindGitTrackedSourceFiles)
                             ELSE scan' = "failed" /\ Idle /\ UNCHANGED inventory
     ELSE IF "rg" \in tools /\ closed = {} /\ TryRipgrepSourceFiles # {}
          THEN Search(TryRipgrepSourceFiles)
          ELSE scan' = "walk" /\ Start(<<Root>>) /\ UNCHANGED inventory
  /\ UNCHANGED World

\* A worker takes the next job.
Take ==
  /\ scan \in {"walk", "rg", "ts"}
  /\ started < Len(jobs) /\ Cardinality(running) < Workers
  /\ started' = started + 1
  /\ running' = running \cup {started + 1}
  /\ UNCHANGED <<World, scan, jobs, results, inventory>>

\* A directory is read: its files are kept, its directories are put in the queue.
EndDirectory ==
  /\ scan = "walk"
  /\ \E n \in running :
       /\ running' = running \ {n}
       /\ IF CannotRead(jobs[n])
          THEN scan' = "failed" /\ UNCHANGED <<jobs, results>>
          ELSE /\ jobs' = jobs \o SetToSeq(Sub[jobs[n]] \ gone)
               /\ results' = Append(results, ReadDirectory(jobs[n]))
               /\ UNCHANGED scan
  /\ UNCHANGED <<World, started, inventory>>

EndSearch ==
  /\ scan \in {"rg", "ts"}
  /\ \E n \in running :
       /\ running' = running \ {n}
       /\ results' = Append(results, IF scan = "rg" THEN RipgrepRun(jobs[n])
                                                    ELSE ScanFileWithTs(jobs[n]))
  /\ UNCHANGED <<World, scan, jobs, started, inventory>>

EndWalk ==
  /\ scan = "walk" /\ PoolEnded
  /\ Search(UNION ToSet(results))
  /\ UNCHANGED World

\* Defect of Failed: the other batches are kept.
FailedAltogether == results # <<>> /\ ToSet(results) = {Nothing}

\* One batch of ripgrep's that failed, and the program searches all files itself.
Failed == Nothing \in ToSet(results)

EndScan ==
  /\ scan \in {"rg", "ts"} /\ PoolEnded
  /\ IF Failed THEN scan' = "ts" /\ Start(Batches(inventory, 1))
     ELSE scan' = "done" /\ Idle
  /\ UNCHANGED <<World, inventory>>

\* Another program writes, creates or removes a file, or removes a directory or the
\* .gitignore of one that is being read.
ChangeFiles ==
  /\ writes < MaxWrites /\ scan \notin {"list", "done", "failed"}
  /\ \/ \E f \in ProjectFiles, line \in DOMAIN Means \cup {Nothing} :
          /\ DirOf[f] \notin gone \cup closed /\ line # lines[f]
          /\ lines' = [lines EXCEPT ![f] = line]
          /\ touched' = touched \cup {f}
          /\ seen' = seen \cup (IF line = Nothing THEN {}
                                ELSE {<<f, i>> : i \in ExtractCodeRefTargets(line)})
          /\ UNCHANGED <<gone, ruleless>>
     \/ \E dir \in Dirs \ (gone \cup closed \cup {Root}) :
          /\ Sub[dir] \subseteq gone
          /\ gone' = gone \cup {dir}
          /\ lines' = [f \in ProjectFiles |-> IF DirOf[f] = dir THEN Nothing ELSE lines[f]]
          /\ touched' = touched \cup {f \in ProjectFiles : DirOf[f] = dir}
          /\ UNCHANGED <<ruleless, seen>>
     \/ /\ scan = "walk"
        /\ \E n \in running : ruleless' = ruleless \cup {jobs[n]}
        /\ UNCHANGED <<lines, gone, touched, seen>>
  /\ writes' = writes + 1
  /\ UNCHANGED <<kind, tools, taken, closed, scan, jobs, started, running, results,
                 inventory>>

ScanNext ==
  \/ List \/ Take \/ EndDirectory \/ EndSearch \/ EndWalk \/ EndScan \/ ChangeFiles

ScanSpec == ScanInit /\ [][ScanNext]_scanVars

-----------------------------------------------------------------------------
\* What scanCodeRefs returns.
Refs == UNION (ToSet(results) \ {Nothing})

\* A file which every inventory lists.
Ordinary(f) == kind[f].tracked /\ Unhidden(f)

\* What a scan owes when targets are the references of a line.
ScanIsWhole(targets) ==
  /\ scan = "done" =>
       /\ \A f \in ProjectFiles \ touched :
            Ordinary(f) => \A i \in targets[lines[f]] : <<f, i>> \in Refs
       /\ \A ref \in Refs :
            /\ ref \in seen /\ ref[1] \in inventory
            /\ ref[1] \notin touched => ref[2] \in targets[lines[ref[1]]]
  /\ IF "git" \in tools THEN scan # "list" => (scan = "failed" <=> OutOfReach # {})
     ELSE scan = "failed" => (gone \ taken) \cup closed \cup ruleless # {}

\* Whichever tools are at hand, and although files come and go during the scan: a
\* scan that ends has every reference of an ordinary file within reach that nobody
\* touched, no example that is no reference, nothing of a file which was not listed
\* and nothing that was never there (ts-fallback.md: both scanners consume the same
\* list).  With git it fails if and only if a tracked file lies below what is now
\* a file, or closed; the walk fails only where a directory is closed, or it or its
\* .gitignore disappears during the scan, and a searching scan never.
ScansAreComplete == ScanIsWhole(Means)
=============================================================================
