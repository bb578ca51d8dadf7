---------------------------- MODULE ProjectProofs ----------------------------
(***************************************************************************)
(* What is read of a project and what is asked of it, for any project.     *)
(* References in code: a scan finds them all (CodeRefs).  Links: all who   *)
(* read one take it for the same place (Vault).  Rules: what a document    *)
(* says of its review and its mode is what it is held to (DocumentPolicy), *)
(* and a fork whose guard passes has explained what it changes             *)
(* (UpstreamGuard).                                                        *)
(***************************************************************************)
EXTENDS CodeRefs, Vault, DocumentPolicy, UpstreamGuard,
        FiniteSetTheorems, SequenceTheorems, TLAPS

\* Induction on a set of numbers.
LEMMA SmallestMember ==
  ASSUME NEW S \in SUBSET Nat, S # {}
  PROVE  \E m \in S : \A k \in S : m <= k
<1>1. PICK m \in S : \A k \in S : <<k, m>> \notin OpToRel(<, Nat)
  BY NatLessThanWellFounded, WFMin, Zenon
<1>2. \A k \in S : ~(k < m)
  BY <1>1 DEF OpToRel
<1> QED
  BY <1>2

LEMMA OneAfterAnother ==
  ASSUME NEW n \in Nat, NEW S, 0 \in S, \A i \in 1..n : i - 1 \in S => i \in S
  PROVE  \A i \in 0..n : i \in S
<1> DEFINE Bad == (0..n) \ S
<1> SUFFICES ASSUME Bad # {} PROVE FALSE
  OBVIOUS
<1>1. PICK m \in Bad : \A k \in Bad : m <= k
  <2>1. Bad \in SUBSET Nat
    OBVIOUS
  <2> HIDE DEF Bad
  <2> QED
    BY <2>1, SmallestMember
<1>2. m \in 1..n /\ m - 1 \in 0..n /\ ~(m <= m - 1)
  OBVIOUS
<1>3. m - 1 \in S
  BY <1>1, <1>2
<1> QED
  BY <1>2, <1>3

-----------------------------------------------------------------------------
(***************************************************************************)
(* Scans.  The inductive invariant of a scan, in parts: the shape of its   *)
(* work, what holds of the files whatever the scan does, what the walk has *)
(* found, and what the search has found.                                   *)
(***************************************************************************)
Untouched == ProjectFiles \ touched

\* The jobs that have ended.
Ended == (1..started) \ running

Searching == scan \in {"rg", "ts", "done"}

PoolIsSound ==
  /\ started \in 0..Len(jobs) /\ running \subseteq 1..started
  /\ scan = "walk" =>
       jobs \in Seq(Dirs) /\ results \in Seq(SUBSET ProjectFiles)
  /\ Searching =>
       /\ inventory \subseteq ProjectFiles
       /\ jobs \in Seq(SUBSET inventory) /\ results \in Seq((SUBSET Places) \cup {Nothing})

ScanTypeOK ==
  /\ kind \in [ProjectFiles -> Kinds]
  /\ lines \in [ProjectFiles -> DOMAIN Means \cup {Nothing}]
  /\ scan \in {"list", "walk", "rg", "ts", "done", "failed"}
  /\ touched \subseteq ProjectFiles /\ gone \subseteq Dirs /\ taken \subseteq gone \ {Root}
  /\ PoolIsSound

\* Nobody removes what is untouched, or a directory that has something in it.
WorldIsSound ==
  /\ \A d \in gone : Sub[d] \subseteq gone
  /\ \A f \in Untouched : lines[f] # Nothing /\ DirOf[f] \notin gone
  /\ \A f \in Present : RefsIn(f) \subseteq seen

\* The walk has listed the files of the directories it has read, and has their
\* directories among its jobs.
WalkIsSound ==
  scan = "walk" =>
    /\ "git" \notin tools
    /\ Root \in ToSet(jobs) /\ ToSet(jobs) \cap taken = {}
    /\ \A n \in Ended :
         /\ Sub[jobs[n]] \subseteq ToSet(jobs) \cup gone
         /\ \A f \in Untouched : DirOf[f] = jobs[n] /\ Unhidden(f) => f \in UNION ToSet(results)

\* The jobs of a search are all that was listed, one by one in the program's own,
\* and the jobs that have ended have brought their references, or have failed.
SearchIsSound ==
  Searching =>
    /\ \A f \in Untouched : Ordinary(f) => f \in inventory
    /\ \A f \in inventory : \E n \in DOMAIN jobs : f \in jobs[n]
    /\ scan = "ts" => ~Failed /\ \A n \in DOMAIN jobs : \E f \in inventory : jobs[n] = {f}
    /\ \A n \in Ended : Failed \/ \A f \in jobs[n] \ touched : RefsIn(f) \subseteq Refs
    /\ \A ref \in Refs :
         /\ ref \in seen /\ ref[1] \in inventory
         /\ ref[1] \notin touched => ref \in RefsIn(ref[1])

\* A scan that is over.
EndIsSound ==
  /\ scan = "done" => PoolEnded /\ ~Failed
  /\ IF "git" \in tools THEN scan # "list" => (scan = "failed" <=> OutOfReach # {})
     ELSE scan = "failed" => (gone \ taken) \cup closed \cup ruleless # {}

ScanInv == ScanTypeOK /\ WorldIsSound /\ WalkIsSound /\ SearchIsSound /\ EndIsSound

(***************************************************************************)
(* Lists: sets as lists, the batches they are cut into, what is added.     *)
(***************************************************************************)
\* A set as a list.
LEMMA Listing ==
  ASSUME NEW S, IsFiniteSet(S)
  PROVE  /\ Cardinality(S) \in Nat
         /\ SetToSeq(S) \in [1..Cardinality(S) -> S]
         /\ ToSet(SetToSeq(S)) = S
<1> DEFINE n == Cardinality(S)
<1>1. n \in Nat /\ ExistsBijection(1..n, S)
  BY FS_CardinalityType
<1>2. \E f \in [1..n -> S] : IsInjective(f)
  BY <1>1 DEF ExistsBijection, Bijection, Injection, IsInjective
<1>3. SetToSeq(S) \in [1..n -> S] /\ IsInjective(SetToSeq(S))
  BY <1>2 DEF SetToSeq
<1>4. SetToSeq(S) \in Injection(1..n, S)
  BY <1>3 DEF Injection, IsInjective
<1>5. Cardinality(1..n) = n
  BY <1>1, FS_Interval
<1>6. SetToSeq(S) \in Surjection(1..n, S)
  BY <1>4, <1>5, FS_Injection
<1> QED
  BY <1>1, <1>3, <1>6 DEF Surjection, ToSet

\* ... each member once.
LEMMA ListedOnce ==
  ASSUME NEW S, IsFiniteSet(S)
  PROVE  \A i, j \in DOMAIN SetToSeq(S) : SetToSeq(S)[i] = SetToSeq(S)[j] => i = j
<1> DEFINE n == Cardinality(S)
<1>1. n \in Nat /\ ExistsBijection(1..n, S)
  BY FS_CardinalityType
<1>2. \E f \in [1..n -> S] : IsInjective(f)
  BY <1>1 DEF ExistsBijection, Bijection, Injection, IsInjective
<1>3. SetToSeq(S) \in [1..n -> S] /\ IsInjective(SetToSeq(S))
  BY <1>2 DEF SetToSeq
<1> QED
  BY <1>3 DEF IsInjective

\* ripgrepPathBatches: the batches hold every file.
LEMMA Quotients ==
  ASSUME NEW a \in Nat, NEW size \in Nat \ {0}
  PROVE  /\ a \div size \in Nat
         /\ (a \div size) * size <= a /\ a < (a \div size) * size + size
OBVIOUS

LEMMA LessQuotient ==
  ASSUME NEW m \in Nat, NEW n \in Nat, NEW size \in Nat \ {0}, m * size < (n + 1) * size
  PROVE  m <= n
OBVIOUS


\* The i-th of len files is in the n-th batch, which there is.
LEMMA InSomeBatch ==
  ASSUME NEW len \in Nat, NEW i \in 1..len, NEW size \in Nat \ {0}
  PROVE  \E n \in 1..((len + size - 1) \div size) :
           (n - 1) * size + 1 <= i /\ i <= n * size
<1> DEFINE n == (i + size - 1) \div size
           count == (len + size - 1) \div size
<1>1. /\ n \in Nat /\ n * size <= i + size - 1 /\ i + size - 1 < n * size + size
  BY Quotients
<1>2. /\ count \in Nat /\ len + size - 1 < count * size + size
  BY Quotients
<1> HIDE DEF n, count
<1>3. n # 0
  <2>1. n = 0 => n * size = 0
    OBVIOUS
  <2> QED
    BY <1>1, <2>1
<1>4. (n - 1) * size = n * size - size
  BY <1>1
<1>5. (count + 1) * size = count * size + size
  BY <1>2
<1>6. n <= count
  BY <1>1, <1>2, <1>5, LessQuotient
<1> QED
  BY <1>1, <1>2, <1>3, <1>4, <1>6 DEF count

Covers(batches, files, size) ==
  /\ batches \in Seq(SUBSET files)
  /\ \A f \in files : \E n \in DOMAIN batches : f \in batches[n]
  /\ size = 1 => \A n \in DOMAIN batches : \E f \in files : batches[n] = {f}

LEMMA BatchesCover ==
  ASSUME NEW files, IsFiniteSet(files), NEW size \in Nat \ {0}
  PROVE  Covers(Batches(files, size), files, size)
<1> DEFINE len == Cardinality(files)
           list == Ordered(files)
           count == (len + size - 1) \div size
           last(n) == Min({n * size, len})
           part(n) == {list[i] : i \in ((n - 1) * size + 1)..last(n)}
<1>1. len \in Nat /\ list \in [1..len -> files] /\ files = {list[i] : i \in 1..len}
  BY Listing DEF Ordered, ToSet
<1>2. Len(list) = len
  BY <1>1
<1>3. Batches(files, size) = [n \in 1..count |-> part(n)]
  BY <1>2 DEF Batches
<1>4. count \in Nat /\ (size = 1 => count = len)
  BY <1>1, Quotients
<1>5. ASSUME NEW n \in 1..count
      PROVE  last(n) \in {n * size, len} /\ last(n) <= len /\ last(n) <= n * size
  <2>1. n * size \in Nat
    BY <1>4
  <2>2. \E x \in {n * size, len} : \A y \in {n * size, len} : x <= y
    BY <1>1, <2>1
  <2> QED
    BY <2>2 DEF Min
<1>6. ASSUME NEW n \in 1..count
      PROVE  n \in Nat /\ n * size \in Nat /\ (n - 1) * size \in Nat
  <2>1. n \in Nat /\ n - 1 \in Nat
    BY <1>4
  <2> QED
    BY <2>1
<1> HIDE DEF len, list, count, last
<1>7. ASSUME NEW n \in 1..count
      PROVE  part(n) \subseteq files
  <2>1. last(n) \in Nat /\ last(n) <= len
    BY <1>1, <1>5, <1>6
  <2>2. \A i \in ((n - 1) * size + 1)..last(n) : i \in 1..len
    BY <1>1, <1>6, <2>1
  <2> QED
    BY <1>1, <2>2
<1>8. ASSUME NEW f \in files
      PROVE  \E n \in 1..count : f \in part(n)
  <2>1. PICK i \in 1..len : f = list[i]
    BY <1>1
  <2>2. PICK n \in 1..count : (n - 1) * size + 1 <= i /\ i <= n * size
    BY <1>1, InSomeBatch DEF count
  <2>3. i \in Nat /\ i <= len
    BY <1>1
  <2>4. last(n) \in Nat /\ i <= last(n)
    BY <1>1, <1>5, <1>6, <2>2, <2>3
  <2>5. i \in ((n - 1) * size + 1)..last(n)
    BY <1>6, <2>2, <2>3, <2>4
  <2> QED
    BY <2>1, <2>5
<1>9. ASSUME size = 1, NEW n \in 1..count
      PROVE  \E f \in files : part(n) = {f}
  <2>1. n \in 1..len /\ n \in Nat
    BY <1>4, <1>6, <1>9
  <2>2. n * 1 = n /\ (n - 1) * 1 + 1 = n
    BY <2>1
  <2>3. n * size = n /\ (n - 1) * size + 1 = n
    BY <1>9, <2>2
  <2>4. last(n) = n
    BY <1>1, <1>5, <2>1, <2>3
  <2>5. \A i : i \in ((n - 1) * size + 1)..last(n) <=> i = n
    BY <2>1, <2>3, <2>4
  <2>6. part(n) = {list[n]}
    BY <2>5
  <2> QED
    BY <1>1, <2>1, <2>6
<1> HIDE DEF part
<1>10. Batches(files, size) \in Seq(SUBSET files)
  BY <1>3, <1>4, <1>7
<1> QED
  BY <1>3, <1>8, <1>9, <1>10 DEF Covers

LEMMA Appended ==
  ASSUME NEW S, NEW s \in Seq(S), NEW r \in S
  PROVE  /\ Append(s, r) \in Seq(S)
         /\ ToSet(Append(s, r)) = ToSet(s) \cup {r}
<1>1. /\ Append(s, r) \in Seq(S)
      /\ DOMAIN Append(s, r) = DOMAIN s \cup {Len(s) + 1}
      /\ Append(s, r)[Len(s) + 1] = r
      /\ \A n \in DOMAIN s : Append(s, r)[n] = s[n]
  OBVIOUS
<1> QED
  BY <1>1 DEF ToSet

LEMMA Joined ==
  ASSUME NEW S, NEW s \in Seq(S), NEW T \in SUBSET S, IsFiniteSet(T)
  PROVE  /\ s \o SetToSeq(T) \in Seq(S)
         /\ Len(s) <= Len(s \o SetToSeq(T))
         /\ \A n \in DOMAIN s : (s \o SetToSeq(T))[n] = s[n]
         /\ ToSet(s \o SetToSeq(T)) = ToSet(s) \cup T
<1> DEFINE t == SetToSeq(T)
<1>1. t \in Seq(S) /\ ToSet(t) = T
  BY Listing
<1> HIDE DEF t
<1>2. s \o t \in Seq(S) /\ Len(s \o t) = Len(s) + Len(t)
  BY <1>1
<1>3. /\ \A n \in DOMAIN s : (s \o t)[n] = s[n]
      /\ \A n \in DOMAIN t : (s \o t)[Len(s) + n] = t[n]
      /\ \A n \in DOMAIN (s \o t) : \/ n \in DOMAIN s
                                    \/ n - Len(s) \in DOMAIN t /\ (s \o t)[n] = t[n - Len(s)]
  BY <1>1
<1>4. ToSet(s \o t) \subseteq ToSet(s) \cup ToSet(t)
  BY <1>3 DEF ToSet
<1>5. ToSet(s) \subseteq ToSet(s \o t)
  BY <1>1, <1>2, <1>3 DEF ToSet
<1>6. ToSet(t) \subseteq ToSet(s \o t)
  <2>1. \A n \in DOMAIN t : Len(s) + n \in DOMAIN (s \o t)
    BY <1>1, <1>2
  <2> QED
    BY <1>3, <2>1 DEF ToSet
<1> QED
  BY <1>1, <1>2, <1>3, <1>4, <1>5, <1>6 DEF t

(***************************************************************************)
(* What a search may return.                                               *)
(***************************************************************************)
LEMMA RefsHavePlaces ==
  ASSUME ScanTypeOK, NEW f \in Present
  PROVE  RefsIn(f) \subseteq Places
<1>1. f \in ProjectFiles /\ lines[f] \in DOMAIN Means
  BY DEF Present, ScanTypeOK
<1>2. ExtractCodeRefTargets(lines[f]) \subseteq DOMAIN lines[f]
  BY DEF ExtractCodeRefTargets
<1> QED
  BY <1>1, <1>2 DEF RefsIn, Places

\* What one job of a search may return for its files.
Finds(part, refs) ==
  /\ refs \in SUBSET Places
  /\ \A f \in part \ touched : RefsIn(f) \subseteq refs
  /\ \A ref \in refs : ref \in seen /\ ref[1] \in part /\ ref \in RefsIn(ref[1])

LEMMA FoundIsFound ==
  ASSUME ScanTypeOK, WorldIsSound, NEW hits \in SUBSET Present, NEW part \in SUBSET ProjectFiles,
         hits \subseteq part, \A f \in part \ touched : f \in hits \/ RefsIn(f) = {}
  PROVE  Finds(part, UNION {RefsIn(f) : f \in hits})
<1>1. \A f \in hits : \A ref \in RefsIn(f) : ref \in Places /\ ref \in seen /\ ref[1] = f
  BY RefsHavePlaces DEF WorldIsSound, RefsIn
<1> QED
  BY <1>1 DEF Finds

LEMMA RipgrepFinds ==
  ASSUME ScanTypeOK, WorldIsSound, NEW part \in SUBSET ProjectFiles
  PROVE  RipgrepRun(part) = Nothing \/ Finds(part, RipgrepRun(part))
<1> DEFINE hits == {f \in part \cap Present : \E i \in DOMAIN lines[f] : lines[f][i] = "@lat"}
<1>1. CASE ~(part \subseteq Present) \/ hits = {}
  BY <1>1 DEF RipgrepRun
<1>2. CASE part \subseteq Present /\ hits # {}
  <2>1. RipgrepRun(part) = UNION {RefsIn(f) : f \in hits}
    BY <1>2 DEF RipgrepRun
  <2>2. \A f \in part \ hits : RefsIn(f) = {}
    BY <1>2 DEF RefsIn, ExtractCodeRefTargets
  <2>3. hits \subseteq Present /\ hits \subseteq part
    OBVIOUS
  <2> HIDE DEF hits
  <2> QED
    BY <2>1, <2>2, <2>3, FoundIsFound
<1> QED
  BY <1>1, <1>2

LEMMA ProgramFinds ==
  ASSUME ScanTypeOK, WorldIsSound, NEW f \in ProjectFiles
  PROVE  ScanFileWithTs({f}) # Nothing /\ Finds({f}, ScanFileWithTs({f}))
<1>1. Finds({f}, ScanFileWithTs({f}))
  <2>1. CASE f \in Present
    <3>1. ScanFileWithTs({f}) = UNION {RefsIn(g) : g \in {f}}
      BY <2>1 DEF ScanFileWithTs
    <3> QED
      BY <2>1, <3>1, FoundIsFound
  <2>2. CASE f \notin Present
    <3>1. ScanFileWithTs({f}) = {}
      BY <2>2 DEF ScanFileWithTs
    <3>2. f \in touched
      BY <2>2 DEF WorldIsSound, Untouched, Present
    <3> QED
      BY <3>1, <3>2 DEF Finds
  <2> QED
    BY <2>1, <2>2
<1> QED
  BY <1>1, ScanAssumption DEF Finds

(***************************************************************************)
(* The steps of a scan.                                                    *)
(***************************************************************************)
LEMMA ScanInitially == ScanInit => ScanInv
<1> SUFFICES ASSUME ScanInit PROVE ScanInv
  OBVIOUS
<1>1. ScanTypeOK
  <2>1. taken \subseteq gone \ {Root} /\ gone \subseteq Dirs
    BY ScanAssumption DEF ScanInit
  <2>2. lines \in [ProjectFiles -> DOMAIN Means \cup {Nothing}]
    BY DEF ScanInit
  <2> QED
    BY <2>1, <2>2 DEF ScanInit, ScanTypeOK, PoolIsSound, Searching
<1>2. WorldIsSound
  <2>1. \A f \in Untouched : lines[f] # Nothing
    BY ScanAssumption DEF ScanInit, Untouched
  <2>2. \A f \in Untouched : DirOf[f] \notin gone
    BY DEF ScanInit, Untouched
  <2>3. \A d \in gone : Sub[d] \subseteq gone
    BY DEF ScanInit
  <2>4. \A f \in Present : RefsIn(f) \subseteq seen
    BY DEF ScanInit
  <2> QED
    BY <2>1, <2>2, <2>3, <2>4 DEF WorldIsSound
<1>3. WalkIsSound /\ SearchIsSound /\ EndIsSound
  BY DEF ScanInit, WalkIsSound, SearchIsSound, EndIsSound, Searching
<1> QED
  BY <1>1, <1>2, <1>3 DEF ScanInv

\* Whatever the program does, the files stay as they are.
LEMMA FilesRest ==
  ASSUME ScanInv, UNCHANGED World
  PROVE  /\ WorldIsSound'
         /\ touched' = touched /\ gone' = gone /\ seen' = seen /\ tools' = tools
         /\ UNCHANGED <<taken, closed, ruleless>> /\ OutOfReach' = OutOfReach
         /\ Present' = Present
         /\ \A f : /\ RefsIn(f)' = RefsIn(f)
                   /\ Unhidden(f)' = Unhidden(f) /\ Ordinary(f)' = Ordinary(f)
BY DEF ScanInv, World, WorldIsSound, Untouched, Present, RefsIn, Unhidden, Ordinary, IsSource,
       OutOfReach, GitTracked

LEMMA OrdinaryIsListed ==
  ASSUME ScanInv, NEW f \in Untouched, Ordinary(f)
  PROVE  f \in FindGitTrackedSourceFiles /\ f \in TryRipgrepSourceFiles
<1>1. f \in Present /\ f \in ProjectFiles
  BY DEF ScanInv, WorldIsSound, Untouched, Present
<1> QED
  BY <1>1 DEF Ordinary, Unhidden, FindGitTrackedSourceFiles, GitTracked, TryRipgrepSourceFiles,
     IsSource

\* A search begins with all that was listed.
LEMMA BatchesStart ==
  ASSUME ScanInv, UNCHANGED World, NEW files \in SUBSET ProjectFiles,
         \A f \in Untouched : Ordinary(f) => f \in files,
         inventory' = files, NEW size \in Nat \ {0}, Start(Batches(files, size)),
         scan' \in {"rg", "ts"}, scan' = "ts" => size = 1,
         "git" \in tools => OutOfReach = {}
  PROVE  ScanInv'
<1>1. IsFiniteSet(files)
  BY ScanAssumption, FS_Subset
<1>2. jobs' = Batches(files, size) /\ started' = 0 /\ running' = {} /\ results' = <<>>
  BY DEF Start
<1>3. /\ jobs' \in Seq(SUBSET files)
      /\ \A f \in files : \E n \in DOMAIN jobs' : f \in jobs'[n]
      /\ scan' = "ts" => \A n \in DOMAIN jobs' : \E f \in files : jobs'[n] = {f}
  <2>1. Covers(jobs', files, size)
    BY <1>1, <1>2, BatchesCover
  <2> QED
    BY <2>1 DEF Covers
<1>4. Ended' = {} /\ ToSet(results') = {}
  BY <1>2 DEF Ended, ToSet
<1>5. Refs' = {} /\ ~Failed'
  BY <1>4 DEF Refs, Failed
<1>6. ScanTypeOK'
  <2>1. Len(jobs') \in Nat /\ started' \in 0..Len(jobs') /\ running' \subseteq 1..started'
    BY <1>2, <1>3
  <2>2. results' \in Seq((SUBSET Places) \cup {Nothing})
    BY <1>2
  <2>3. PoolIsSound'
    BY <1>2, <1>3, <2>1, <2>2 DEF PoolIsSound, Searching
  <2> QED
    BY <1>2, <2>3 DEF ScanInv, ScanTypeOK, World
<1>7. SearchIsSound'
  BY <1>3, <1>4, <1>5, FilesRest DEF SearchIsSound, Untouched
<1>8. WalkIsSound' /\ EndIsSound'
  BY <1>2, FilesRest DEF WalkIsSound, EndIsSound
<1> QED
  BY <1>6, <1>7, <1>8, FilesRest DEF ScanInv

LEMMA SearchStarts ==
  ASSUME ScanInv, UNCHANGED World, NEW files \in SUBSET ProjectFiles,
         \A f \in Untouched : Ordinary(f) => f \in files,
         "git" \in tools => OutOfReach = {}, Search(files)
  PROVE  ScanInv'
<1>1. inventory' = files
  BY DEF Search
<1>2. CASE scan' = "rg" /\ Start(Batches(files, MaxBatch))
  BY <1>1, <1>2, BatchesStart, ScanAssumption
<1>3. CASE scan' = "ts" /\ Start(Batches(files, 1))
  BY <1>1, <1>3, BatchesStart
<1> QED
  BY <1>2, <1>3 DEF Search

LEMMA ListKeeps == ScanInv /\ List => ScanInv'
<1> SUFFICES ASSUME ScanInv, List PROVE ScanInv'
  OBVIOUS
<1>1. UNCHANGED World
  BY DEF List
<1>2. /\ FindGitTrackedSourceFiles \subseteq ProjectFiles
      /\ TryRipgrepSourceFiles \subseteq ProjectFiles
  BY DEF FindGitTrackedSourceFiles, TryRipgrepSourceFiles, Present
<1>3. CASE "git" \in tools /\ OutOfReach = {} /\ Search(FindGitTrackedSourceFiles)
  BY <1>1, <1>2, <1>3, OrdinaryIsListed, SearchStarts
<1>4. CASE "git" \notin tools /\ Search(TryRipgrepSourceFiles)
  BY <1>1, <1>2, <1>4, OrdinaryIsListed, SearchStarts
<1>5. CASE "git" \notin tools /\ scan' = "walk" /\ Start(<<Root>>) /\ UNCHANGED inventory
  <2>1. jobs' = <<Root>> /\ started' = 0 /\ running' = {} /\ results' = <<>>
    BY <1>5 DEF Start
  <2>2. Ended' = {}
    BY <2>1 DEF Ended
  <2>3. jobs' \in Seq(Dirs) /\ Len(jobs') = 1 /\ ToSet(jobs') = {Root}
    BY <2>1, ScanAssumption DEF ToSet
  <2>4. ScanTypeOK'
    <3>1. results' \in Seq(SUBSET ProjectFiles)
      BY <2>1
    <3>2. started' \in 0..Len(jobs') /\ running' \subseteq 1..started'
      BY <2>1, <2>3
    <3>3. PoolIsSound'
      BY <1>5, <2>3, <3>1, <3>2 DEF PoolIsSound, Searching
    <3> QED
      BY <1>1, <1>5, <3>3 DEF ScanInv, ScanTypeOK, World
  <2>5. WalkIsSound'
    <3>1. Root \notin taken
      BY DEF ScanInv, ScanTypeOK
    <3> QED
      BY <1>5, <2>2, <2>3, <3>1, <1>1, FilesRest DEF WalkIsSound
  <2>6. SearchIsSound' /\ EndIsSound'
    BY <1>1, <1>5, FilesRest DEF SearchIsSound, EndIsSound, Searching
  <2> QED
    BY <1>1, <2>4, <2>5, <2>6, FilesRest DEF ScanInv
<1>6. CASE "git" \in tools /\ OutOfReach # {} /\ scan' = "failed" /\ Idle /\ UNCHANGED inventory
  <2>1. UNCHANGED <<jobs, started, running, results>> /\ scan = "list"
    BY <1>6 DEF Idle, List
  <2>2. ScanTypeOK'
    BY <1>1, <1>6, <2>1 DEF ScanInv, ScanTypeOK, PoolIsSound, Searching, World
  <2>3. WalkIsSound' /\ SearchIsSound' /\ EndIsSound'
    BY <1>1, <1>6, FilesRest DEF WalkIsSound, SearchIsSound, EndIsSound, Searching
  <2> QED
    BY <1>1, <2>2, <2>3, FilesRest DEF ScanInv
<1> QED
  BY <1>3, <1>4, <1>5, <1>6 DEF List

LEMMA TakeKeeps == ScanInv /\ Take => ScanInv'
<1> SUFFICES ASSUME ScanInv, Take PROVE ScanInv'
  OBVIOUS
<1>1. /\ UNCHANGED World /\ scan' = scan /\ jobs' = jobs /\ results' = results
      /\ inventory' = inventory
      /\ started' = started + 1 /\ running' = running \cup {started + 1}
      /\ started < Len(jobs) /\ scan \in {"walk", "rg", "ts"}
  BY DEF Take
<1>2. started \in Nat /\ Len(jobs) \in Nat /\ running \subseteq 1..started
  <2>1. jobs \in Seq(Dirs) \/ jobs \in Seq(SUBSET inventory)
    BY <1>1 DEF ScanInv, ScanTypeOK, PoolIsSound, Searching
  <2> QED
    BY <2>1 DEF ScanInv, ScanTypeOK, PoolIsSound
<1>3. Ended' = Ended
  BY <1>1, <1>2 DEF Ended
<1>4. ScanTypeOK'
  <2>1. started' \in 0..Len(jobs') /\ running' \subseteq 1..started'
    BY <1>1, <1>2
  <2>2. PoolIsSound'
    BY <1>1, <2>1 DEF ScanInv, ScanTypeOK, PoolIsSound, Searching
  <2> QED
    BY <1>1, <2>2 DEF ScanInv, ScanTypeOK, World
<1>5. WalkIsSound'
  BY <1>1, <1>3, FilesRest DEF ScanInv, WalkIsSound, Untouched
<1>6. SearchIsSound'
  BY <1>1, <1>3, FilesRest DEF ScanInv, SearchIsSound, Untouched, Searching, Failed, Refs
<1>7. EndIsSound'
  BY <1>1, FilesRest DEF ScanInv, EndIsSound
<1> QED
  BY <1>1, <1>4, <1>5, <1>6, <1>7, FilesRest DEF ScanInv

LEMMA EndDirectoryKeeps == ScanInv /\ EndDirectory => ScanInv'
<1> SUFFICES ASSUME ScanInv, EndDirectory PROVE ScanInv'
  OBVIOUS
<1>1. PICK n \in running :
        /\ running' = running \ {n}
        /\ IF CannotRead(jobs[n])
           THEN scan' = "failed" /\ UNCHANGED <<jobs, results>>
           ELSE /\ jobs' = jobs \o SetToSeq(Sub[jobs[n]] \ gone)
                /\ results' = Append(results, ReadDirectory(jobs[n]))
                /\ UNCHANGED scan
  BY DEF EndDirectory
<1>2. scan = "walk" /\ UNCHANGED World /\ started' = started /\ inventory' = inventory
  BY DEF EndDirectory
<1>3. /\ jobs \in Seq(Dirs) /\ results \in Seq(SUBSET ProjectFiles)
      /\ started \in 0..Len(jobs) /\ running \subseteq 1..started
      /\ "git" \notin tools /\ Root \in ToSet(jobs)
      /\ ToSet(jobs) \cap taken = {} /\ taken \subseteq gone
  BY <1>2 DEF ScanInv, ScanTypeOK, PoolIsSound, WalkIsSound
<1>4. Len(jobs) \in Nat /\ DOMAIN jobs = 1..Len(jobs)
  BY <1>3
<1>5. n \in 1..started /\ n \in DOMAIN jobs /\ jobs[n] \in Dirs /\ jobs[n] \notin taken
  BY <1>3, <1>4 DEF ToSet
<1>6. CASE CannotRead(jobs[n])
  <2>1. scan' = "failed" /\ jobs' = jobs /\ results' = results
    BY <1>1, <1>6
  <2>2. PoolIsSound'
    BY <1>1, <1>2, <1>3, <2>1 DEF PoolIsSound, Searching
  <2>3. ScanTypeOK'
    BY <1>2, <2>1, <2>2 DEF ScanInv, ScanTypeOK, World
  <2>4. EndIsSound'
    BY <1>2, <1>3, <1>5, <1>6, <2>1, FilesRest DEF EndIsSound, CannotRead
  <2>5. WalkIsSound' /\ SearchIsSound'
    BY <2>1 DEF WalkIsSound, SearchIsSound, Searching
  <2> QED
    BY <1>2, <2>3, <2>4, <2>5, FilesRest DEF ScanInv
<1>7. CASE ~CannotRead(jobs[n])
  <2> DEFINE more == Sub[jobs[n]] \ gone
             listed == ReadDirectory(jobs[n])
  <2>1. jobs' = jobs \o SetToSeq(more) /\ results' = Append(results, listed) /\ scan' = scan
    BY <1>1, <1>7
  <2>2. more \in SUBSET Dirs /\ IsFiniteSet(more)
    <3>1. more \subseteq Dirs
      BY <1>5, ScanAssumption
    <3> QED
      BY <3>1, ScanAssumption, FS_Subset
  <2>3. listed \in SUBSET ProjectFiles
    BY DEF ReadDirectory, Present
  <2>4. \A f \in Untouched : DirOf[f] = jobs[n] /\ Unhidden(f) => f \in listed
    BY DEF ScanInv, WorldIsSound, Untouched, ReadDirectory, Present
  <2>5. Sub[jobs[n]] \subseteq more \cup gone /\ more \cap gone = {}
    OBVIOUS
  <2> HIDE DEF more, listed
  <2>6. /\ jobs' \in Seq(Dirs) /\ Len(jobs) <= Len(jobs')
        /\ \A m \in DOMAIN jobs : jobs'[m] = jobs[m]
        /\ ToSet(jobs') = ToSet(jobs) \cup more
    BY <1>3, <2>1, <2>2, Joined
  <2>7. /\ results' \in Seq(SUBSET ProjectFiles)
        /\ ToSet(results') = ToSet(results) \cup {listed}
    <3>1. /\ Append(results, listed) \in Seq(SUBSET ProjectFiles)
          /\ ToSet(Append(results, listed)) = ToSet(results) \cup {listed}
      BY <1>3, <2>3, Appended
    <3> QED
      BY <2>1, <3>1
  <2>8. Ended' = Ended \cup {n} /\ \A m \in Ended' : m \in DOMAIN jobs
    BY <1>1, <1>2, <1>3, <1>4, <1>5 DEF Ended
  <2>9. ScanTypeOK'
    <3>1. Len(jobs') \in Nat
      BY <2>6
    <3>2. started' \in 0..Len(jobs') /\ running' \subseteq 1..started'
      BY <1>1, <1>2, <1>3, <1>4, <2>6, <3>1
    <3>3. PoolIsSound'
      BY <1>2, <2>1, <2>6, <2>7, <3>2 DEF PoolIsSound, Searching
    <3> QED
      BY <1>2, <2>1, <3>3 DEF ScanInv, ScanTypeOK, World
  <2>10. WalkIsSound'
    <3>1. ASSUME NEW m \in Ended'
          PROVE  /\ Sub[jobs'[m]] \subseteq ToSet(jobs') \cup gone
                 /\ \A f \in Untouched :
                      DirOf[f] = jobs'[m] /\ Unhidden(f) => f \in UNION ToSet(results')
      <4>1. jobs'[m] = jobs[m]
        BY <2>6, <2>8
      <4>2. CASE m = n
        BY <2>4, <2>5, <2>6, <2>7, <4>1, <4>2
      <4>3. CASE m \in Ended
        <5>1. /\ Sub[jobs[m]] \subseteq ToSet(jobs) \cup gone
              /\ \A f \in Untouched :
                   DirOf[f] = jobs[m] /\ Unhidden(f) => f \in UNION ToSet(results)
          BY <1>2, <4>3 DEF ScanInv, WalkIsSound
        <5> QED
          BY <2>6, <2>7, <4>1, <5>1
      <4> QED
        BY <2>8, <4>2, <4>3
    <3>2. ToSet(jobs') \cap taken = {}
      BY <1>3, <2>5, <2>6
    <3> QED
      BY <1>2, <1>3, <2>1, <2>6, <3>1, <3>2, FilesRest DEF WalkIsSound, Untouched
  <2>11. SearchIsSound' /\ EndIsSound'
    BY <1>2, <1>3, <2>1, FilesRest DEF SearchIsSound, EndIsSound, Searching
  <2> QED
    BY <1>2, <2>9, <2>10, <2>11, FilesRest DEF ScanInv
<1> QED
  BY <1>6, <1>7

\* The walk has reached every directory that is still there.
LEMMA WalkIsWhole ==
  ASSUME ScanInv, scan = "walk", PoolEnded, NEW f \in Untouched, Unhidden(f)
  PROVE  f \in UNION ToSet(results)
<1>1. jobs \in Seq(Dirs) /\ Ended = DOMAIN jobs
  <2>1. jobs \in Seq(Dirs) /\ started = Len(jobs) /\ running = {}
    BY DEF ScanInv, ScanTypeOK, PoolIsSound, PoolEnded
  <2> QED
    BY <2>1 DEF Ended
<1> DEFINE reached == ToSet(jobs) \cup gone
<1>2. reached \subseteq Dirs
  BY <1>1 DEF ToSet, ScanInv, ScanTypeOK
<1>3. Root \in reached
  BY DEF ScanInv, WalkIsSound
<1>4. ASSUME NEW d \in reached PROVE Sub[d] \subseteq reached
  <2>1. CASE d \in gone
    BY <2>1 DEF ScanInv, WorldIsSound
  <2>2. CASE d \in ToSet(jobs)
    <3>1. PICK n \in Ended : d = jobs[n]
      BY <1>1, <2>2 DEF ToSet
    <3> QED
      BY <3>1 DEF ScanInv, WalkIsSound
  <2> QED
    BY <2>1, <2>2
<1>5. reached = Dirs
  BY <1>2, <1>3, <1>4, ScanAssumption
<1>6. DirOf[f] \in Dirs /\ DirOf[f] \notin gone
  BY ScanAssumption DEF ScanInv, WorldIsSound, Untouched
<1>7. PICK n \in Ended : DirOf[f] = jobs[n]
  BY <1>1, <1>5, <1>6 DEF ToSet
<1> QED
  BY <1>7 DEF ScanInv, WalkIsSound

LEMMA EndWalkKeeps == ScanInv /\ EndWalk => ScanInv'
<1> SUFFICES ASSUME ScanInv, EndWalk PROVE ScanInv'
  OBVIOUS
<1>1. scan = "walk" /\ PoolEnded /\ Search(UNION ToSet(results)) /\ UNCHANGED World
  BY DEF EndWalk
<1>2. UNION ToSet(results) \in SUBSET ProjectFiles
  <2>1. results \in Seq(SUBSET ProjectFiles)
    BY <1>1 DEF ScanInv, ScanTypeOK, PoolIsSound
  <2> QED
    BY <2>1 DEF ToSet
<1>3. \A f \in Untouched : Ordinary(f) => f \in UNION ToSet(results)
  BY <1>1, WalkIsWhole DEF Ordinary
<1>4. "git" \notin tools
  BY <1>1 DEF ScanInv, WalkIsSound
<1> QED
  BY <1>1, <1>2, <1>3, <1>4, SearchStarts

\* The references of a search when one more result has come in.
LEMMA MoreRefs ==
  ASSUME results \in Seq((SUBSET Places) \cup {Nothing}),
         NEW r \in (SUBSET Places) \cup {Nothing}, results' = Append(results, r)
  PROVE  /\ results' \in Seq((SUBSET Places) \cup {Nothing})
         /\ Failed' = (Failed \/ r = Nothing)
         /\ Refs' = Refs \cup (IF r = Nothing THEN {} ELSE r)
<1>1. /\ Append(results, r) \in Seq((SUBSET Places) \cup {Nothing})
      /\ ToSet(Append(results, r)) = ToSet(results) \cup {r}
  BY Appended
<1>2. results' \in Seq((SUBSET Places) \cup {Nothing}) /\ ToSet(results') = ToSet(results) \cup {r}
  BY <1>1
<1>3. Failed' = (Nothing \in ToSet(results')) /\ Refs' = UNION (ToSet(results') \ {Nothing})
  BY DEF Failed, Refs
<1>4. Failed' = (Failed \/ r = Nothing)
  BY <1>2, <1>3 DEF Failed
<1>5. Refs' = Refs \cup (IF r = Nothing THEN {} ELSE r)
  BY <1>2, <1>3 DEF Refs
<1> QED
  BY <1>2, <1>4, <1>5

LEMMA EndSearchKeeps == ScanInv /\ EndSearch => ScanInv'
<1> SUFFICES ASSUME ScanInv, EndSearch PROVE ScanInv'
  OBVIOUS
<1>1. PICK n \in running :
        /\ running' = running \ {n}
        /\ results' = Append(results, IF scan = "rg" THEN RipgrepRun(jobs[n])
                                                     ELSE ScanFileWithTs(jobs[n]))
  BY DEF EndSearch
<1>2. /\ scan \in {"rg", "ts"} /\ scan' = scan /\ UNCHANGED World
      /\ jobs' = jobs /\ started' = started /\ inventory' = inventory
  BY DEF EndSearch
<1>3. /\ inventory \subseteq ProjectFiles
      /\ jobs \in Seq(SUBSET inventory) /\ results \in Seq((SUBSET Places) \cup {Nothing})
      /\ started \in 0..Len(jobs) /\ running \subseteq 1..started
  BY <1>2 DEF ScanInv, ScanTypeOK, PoolIsSound, Searching
<1>4. n \in DOMAIN jobs /\ n \in 1..started
  BY <1>3
<1>5. jobs[n] \in SUBSET inventory /\ jobs[n] \in SUBSET ProjectFiles
  BY <1>3, <1>4
<1>6. PICK r : /\ results' = Append(results, r)
               /\ r = Nothing \/ Finds(jobs[n], r)
               /\ scan = "ts" => r # Nothing
  <2>1. CASE scan = "rg"
    BY <1>1, <1>5, <2>1, RipgrepFinds DEF ScanInv
  <2>2. CASE scan = "ts"
    <3>1. PICK f \in inventory : jobs[n] = {f}
      BY <1>4, <2>2 DEF ScanInv, SearchIsSound, Searching
    <3>2. ScanFileWithTs(jobs[n]) # Nothing /\ Finds(jobs[n], ScanFileWithTs(jobs[n]))
      BY <1>3, <3>1, ProgramFinds DEF ScanInv
    <3> QED
      BY <1>1, <2>2, <3>2
  <2> QED
    BY <1>2, <2>1, <2>2
<1>7. r \in (SUBSET Places) \cup {Nothing}
  <2>1. CASE r = Nothing
    BY <2>1
  <2>2. CASE Finds(jobs[n], r)
    BY <2>2 DEF Finds
  <2> QED
    BY <1>6, <2>1, <2>2
<1>8. /\ results' \in Seq((SUBSET Places) \cup {Nothing})
      /\ Failed' = (Failed \/ r = Nothing)
      /\ Refs' = Refs \cup (IF r = Nothing THEN {} ELSE r)
  BY <1>3, <1>6, <1>7, MoreRefs
<1>9. Ended' = Ended \cup {n}
  BY <1>1, <1>2, <1>4 DEF Ended
<1>10. ScanTypeOK'
  <2>1. PoolIsSound'
    BY <1>1, <1>2, <1>3, <1>8 DEF PoolIsSound, Searching
  <2> QED
    BY <1>2, <2>1 DEF ScanInv, ScanTypeOK, World
<1>11. ASSUME NEW m \in Ended'
       PROVE  Failed' \/ \A f \in jobs[m] \ touched : RefsIn(f) \subseteq Refs'
  <2>1. CASE m = n
    BY <1>6, <1>8, <2>1 DEF Finds
  <2>2. CASE m \in Ended
    <3>1. Failed \/ \A f \in jobs[m] \ touched : RefsIn(f) \subseteq Refs
      BY <1>2, <2>2 DEF ScanInv, SearchIsSound, Searching
    <3> QED
      BY <1>8, <3>1
  <2> QED
    BY <1>9, <2>1, <2>2
<1>12. ASSUME NEW ref \in Refs'
       PROVE  /\ ref \in seen /\ ref[1] \in inventory
              /\ ref[1] \notin touched => ref \in RefsIn(ref[1])
  <2>1. CASE ref \in Refs
    BY <1>2, <2>1 DEF ScanInv, SearchIsSound, Searching
  <2>2. CASE r # Nothing /\ ref \in r
    BY <1>5, <1>6, <2>2 DEF Finds
  <2> QED
    BY <1>8, <2>1, <2>2
<1>13. SearchIsSound'
  <2>1. /\ \A f \in Untouched : Ordinary(f) => f \in inventory
        /\ \A f \in inventory : \E m \in DOMAIN jobs : f \in jobs[m]
        /\ scan = "ts" => ~Failed /\ \A m \in DOMAIN jobs : \E f \in inventory : jobs[m] = {f}
    BY <1>2 DEF ScanInv, SearchIsSound, Searching
  <2>2. scan = "ts" => ~Failed'
    BY <1>6, <1>8, <2>1
  <2>3. Untouched' = Untouched
    BY <1>2 DEF World, Untouched
  <2> QED
    BY <1>2, <1>11, <1>12, <2>1, <2>2, <2>3, FilesRest DEF SearchIsSound
<1>14. WalkIsSound' /\ EndIsSound'
  BY <1>2, FilesRest DEF ScanInv, WalkIsSound, EndIsSound
<1> QED
  BY <1>2, <1>10, <1>13, <1>14, FilesRest DEF ScanInv

LEMMA EndScanKeeps == ScanInv /\ EndScan => ScanInv'
<1> SUFFICES ASSUME ScanInv, EndScan PROVE ScanInv'
  OBVIOUS
<1>1. scan \in {"rg", "ts"} /\ PoolEnded /\ UNCHANGED World /\ inventory' = inventory
  BY DEF EndScan
<1>2. /\ inventory \subseteq ProjectFiles
      /\ \A f \in Untouched : Ordinary(f) => f \in inventory
  BY <1>1 DEF ScanInv, ScanTypeOK, PoolIsSound, SearchIsSound, Searching
<1>3. CASE Failed
  <2>1. scan' = "ts" /\ Start(Batches(inventory, 1))
    BY <1>3 DEF EndScan
  <2>2. "git" \in tools => OutOfReach = {}
    BY <1>1 DEF ScanInv, EndIsSound
  <2> QED
    BY <1>1, <1>2, <2>1, <2>2, BatchesStart
<1>4. CASE ~Failed
  <2>1. scan' = "done" /\ jobs' = jobs /\ started' = started /\ running' = running
        /\ results' = results
    BY <1>4 DEF EndScan, Idle
  <2>2. ScanTypeOK'
    <3>1. PoolIsSound'
      BY <1>1, <2>1 DEF ScanInv, ScanTypeOK, PoolIsSound, Searching
    <3> QED
      BY <1>1, <2>1, <3>1 DEF ScanInv, ScanTypeOK, World
  <2>3. Ended' = Ended /\ Refs' = Refs /\ Failed' = Failed /\ Untouched' = Untouched
    BY <1>1, <2>1 DEF Ended, Refs, Failed, Untouched, World
  <2>4. SearchIsSound'
    BY <1>1, <2>1, <2>3, FilesRest DEF ScanInv, SearchIsSound, Searching
  <2>5. WalkIsSound' /\ EndIsSound'
    BY <1>1, <1>4, <2>1, <2>3, FilesRest DEF ScanInv, WalkIsSound, EndIsSound, PoolEnded
  <2> QED
    BY <1>1, <2>2, <2>4, <2>5, FilesRest DEF ScanInv
<1> QED
  BY <1>3, <1>4

\* A change by another program touches what it changes.
LEMMA ChangeIsTouched ==
  ASSUME ScanInv, WorldIsSound', scan \in {"walk", "rg", "ts"},
         touched \subseteq touched', touched' \subseteq ProjectFiles,
         gone \subseteq gone', gone' \subseteq Dirs, ruleless \subseteq ruleless',
         seen \subseteq seen',
         lines' \in [ProjectFiles -> DOMAIN Means \cup {Nothing}],
         \A f \in Untouched' : lines'[f] = lines[f],
         UNCHANGED <<kind, tools, taken, closed, scan, jobs, started, running, results,
                     inventory>>
  PROVE  ScanInv'
<1>1. ScanTypeOK'
  BY DEF ScanInv, ScanTypeOK, PoolIsSound, Searching
<1>2. /\ Untouched' \subseteq Untouched
      /\ \A f \in Untouched' : RefsIn(f)' = RefsIn(f)
      /\ \A f : Unhidden(f)' = Unhidden(f) /\ Ordinary(f)' = Ordinary(f)
  BY DEF Untouched, RefsIn, Unhidden, Ordinary, IsSource
<1>3. Ended' = Ended /\ Refs' = Refs /\ Failed' = Failed
  BY DEF Ended, Refs, Failed
<1>4. WalkIsSound'
  <2> SUFFICES ASSUME scan = "walk" PROVE WalkIsSound'
    BY DEF WalkIsSound
  <2>1. /\ "git" \notin tools /\ Root \in ToSet(jobs) /\ ToSet(jobs) \cap taken = {}
        /\ \A n \in Ended :
             /\ Sub[jobs[n]] \subseteq ToSet(jobs) \cup gone
             /\ \A f \in Untouched :
                  DirOf[f] = jobs[n] /\ Unhidden(f) => f \in UNION ToSet(results)
    BY DEF ScanInv, WalkIsSound
  <2> QED
    BY <1>2, <1>3, <2>1 DEF WalkIsSound
<1>5. SearchIsSound'
  <2> SUFFICES ASSUME Searching PROVE SearchIsSound'
    BY DEF SearchIsSound, Searching
  <2>1. /\ \A f \in Untouched : Ordinary(f) => f \in inventory
        /\ \A f \in inventory : \E n \in DOMAIN jobs : f \in jobs[n]
        /\ scan = "ts" => ~Failed /\ \A n \in DOMAIN jobs : \E f \in inventory : jobs[n] = {f}
        /\ inventory \subseteq ProjectFiles /\ jobs \in Seq(SUBSET inventory)
        /\ started \in 0..Len(jobs)
    BY DEF ScanInv, ScanTypeOK, PoolIsSound, SearchIsSound
  <2>2. ASSUME NEW n \in Ended
        PROVE  Failed \/ \A f \in jobs[n] \ touched' : RefsIn(f)' \subseteq Refs
    <3>1. jobs[n] \subseteq ProjectFiles
      <4>1. n \in DOMAIN jobs
        BY <2>1 DEF Ended
      <4> QED
        BY <2>1, <4>1
    <3>2. jobs[n] \ touched' \subseteq Untouched' /\ jobs[n] \ touched' \subseteq jobs[n] \ touched
      BY <3>1 DEF Untouched
    <3>3. Failed \/ \A f \in jobs[n] \ touched : RefsIn(f) \subseteq Refs
      BY DEF ScanInv, SearchIsSound
    <3> QED
      BY <1>2, <3>2, <3>3
  <2>3. ASSUME NEW ref \in Refs
        PROVE  /\ ref \in seen' /\ ref[1] \in inventory
               /\ ref[1] \notin touched' => ref \in RefsIn(ref[1])'
    <3>1. /\ ref \in seen /\ ref[1] \in inventory
          /\ ref[1] \notin touched => ref \in RefsIn(ref[1])
      BY DEF ScanInv, SearchIsSound
    <3>2. ref[1] \notin touched' => ref[1] \in Untouched'
      BY <2>1, <3>1 DEF Untouched
    <3> QED
      BY <1>2, <3>1, <3>2
  <2> QED
    BY <1>2, <1>3, <2>1, <2>2, <2>3 DEF SearchIsSound
<1>6. EndIsSound'
  <2>1. OutOfReach' = OutOfReach
    BY DEF OutOfReach, GitTracked, IsSource
  <2>2. scan \notin {"list", "failed", "done"}
    OBVIOUS
  <2> QED
    BY <2>1, <2>2 DEF ScanInv, EndIsSound
<1> QED
  BY <1>1, <1>4, <1>5, <1>6 DEF ScanInv

LEMMA ChangeFilesKeeps == ScanInv /\ ChangeFiles => ScanInv'
<1> SUFFICES ASSUME ScanInv, ChangeFiles PROVE ScanInv'
  OBVIOUS
<1>1. /\ scan \in {"walk", "rg", "ts"}
      /\ UNCHANGED <<kind, tools, taken, closed, scan, jobs, started, running, results,
                     inventory>>
  BY DEF ChangeFiles, ScanInv, ScanTypeOK
<1>2. /\ lines \in [ProjectFiles -> DOMAIN Means \cup {Nothing}]
      /\ touched \subseteq ProjectFiles /\ gone \subseteq Dirs
  BY DEF ScanInv, ScanTypeOK
<1>3. /\ \A d \in gone : Sub[d] \subseteq gone
      /\ \A f \in Untouched : lines[f] # Nothing /\ DirOf[f] \notin gone
      /\ \A f \in Present : RefsIn(f) \subseteq seen
  BY DEF ScanInv, WorldIsSound
<1>4. ASSUME NEW f \in ProjectFiles, NEW line \in DOMAIN Means \cup {Nothing},
             lines' = [lines EXCEPT ![f] = line], touched' = touched \cup {f},
             seen' = seen \cup (IF line = Nothing THEN {}
                                ELSE {<<f, i>> : i \in ExtractCodeRefTargets(line)}),
             gone' = gone, ruleless' = ruleless
      PROVE  ScanInv'
  <2>1. /\ lines' \in [ProjectFiles -> DOMAIN Means \cup {Nothing}]
        /\ \A g \in ProjectFiles \ {f} : lines'[g] = lines[g]
        /\ lines'[f] = line
    BY <1>2, <1>4
  <2>2. Untouched' = Untouched \ {f}
    BY <1>4 DEF Untouched
  <2>3. ASSUME NEW g \in Present' PROVE RefsIn(g)' \subseteq seen'
    <3>1. g \in ProjectFiles /\ lines'[g] # Nothing
      BY DEF Present
    <3>2. CASE g = f
      BY <1>4, <2>1, <3>1, <3>2 DEF RefsIn
    <3>3. CASE g # f
      <4>1. g \in Present /\ RefsIn(g)' = RefsIn(g)
        BY <2>1, <3>1, <3>3 DEF Present, RefsIn
      <4> QED
        BY <1>3, <1>4, <4>1
    <3> QED
      BY <3>2, <3>3
  <2>4. \A g \in Untouched' : g \in Untouched /\ lines'[g] = lines[g]
    BY <2>1, <2>2 DEF Untouched
  <2>5. WorldIsSound'
    BY <1>3, <1>4, <2>3, <2>4 DEF WorldIsSound
  <2> QED
    BY <1>1, <1>2, <1>4, <2>1, <2>4, <2>5, ChangeIsTouched
<1>5. ASSUME NEW dir \in Dirs \ (gone \cup {Root}), Sub[dir] \subseteq gone,
             gone' = gone \cup {dir},
             lines' = [f \in ProjectFiles |-> IF DirOf[f] = dir THEN Nothing ELSE lines[f]],
             touched' = touched \cup {f \in ProjectFiles : DirOf[f] = dir},
             seen' = seen, ruleless' = ruleless
      PROVE  ScanInv'
  <2>1. /\ lines' \in [ProjectFiles -> DOMAIN Means \cup {Nothing}]
        /\ \A g \in ProjectFiles : lines'[g] = IF DirOf[g] = dir THEN Nothing ELSE lines[g]
    BY <1>2, <1>5
  <2>2. \A g \in Untouched' : g \in Untouched /\ DirOf[g] # dir /\ lines'[g] = lines[g]
    BY <1>5, <2>1 DEF Untouched
  <2>3. \A g \in Present' : g \in Present /\ RefsIn(g)' = RefsIn(g)
    BY <2>1 DEF Present, RefsIn
  <2>4. WorldIsSound'
    BY <1>3, <1>5, <2>2, <2>3 DEF WorldIsSound
  <2> QED
    BY <1>1, <1>2, <1>5, <2>1, <2>2, <2>4, ChangeIsTouched
<1>6. ASSUME NEW n \in running, ruleless' = ruleless \cup {jobs[n]},
             UNCHANGED <<lines, gone, touched, seen>>
      PROVE  ScanInv'
  <2>1. WorldIsSound'
    BY <1>6 DEF ScanInv, WorldIsSound, Untouched, Present, RefsIn
  <2> QED
    BY <1>1, <1>2, <1>6, <2>1, ChangeIsTouched
<1> QED
  BY <1>4, <1>5, <1>6 DEF ChangeFiles

LEMMA ScanGoesOn == ScanInv /\ [ScanNext]_scanVars => ScanInv'
<1> SUFFICES ASSUME ScanInv, [ScanNext]_scanVars PROVE ScanInv'
  OBVIOUS
<1>1. CASE ScanNext
  BY <1>1, ListKeeps, TakeKeeps, EndDirectoryKeeps, EndSearchKeeps, EndWalkKeeps,
     EndScanKeeps, ChangeFilesKeeps DEF ScanNext
<1>2. CASE UNCHANGED scanVars
  <2>1. UNCHANGED World /\ UNCHANGED <<scan, jobs, started, running, results, inventory>>
    BY <1>2 DEF scanVars, World
  <2>2. ScanTypeOK'
    BY <2>1 DEF ScanInv, ScanTypeOK, PoolIsSound, Searching, World
  <2>3. Ended' = Ended /\ Refs' = Refs /\ Failed' = Failed /\ Untouched' = Untouched
    BY <2>1 DEF Ended, Refs, Failed, Untouched, World
  <2>4. WalkIsSound' /\ SearchIsSound' /\ EndIsSound'
    BY <2>1, <2>3, FilesRest DEF ScanInv, WalkIsSound, SearchIsSound, EndIsSound, Searching,
       PoolEnded
  <2> QED
    BY <2>1, <2>2, <2>4, FilesRest DEF ScanInv
<1> QED
  BY <1>1, <1>2

\* What the program takes for references, and that it is what a line means.
Extracted == [line \in DOMAIN Means |-> ExtractCodeRefTargets(line)]
LinesAreRead == Means = Extracted

LEMMA ScanIsComplete ==
  ASSUME ScanInv
  PROVE  ScanIsWhole(Extracted)
<1>1. ASSUME NEW f \in Present
      PROVE  RefsIn(f) = {<<f, i>> : i \in Extracted[lines[f]]}
  <2>1. lines[f] \in DOMAIN Means
    BY DEF ScanInv, ScanTypeOK, Present
  <2> QED
    BY <2>1 DEF RefsIn, Extracted
<1>2. \A f \in Untouched : f \in Present
  BY DEF ScanInv, WorldIsSound, Untouched, Present
<1>3. ASSUME scan = "done", NEW f \in Untouched, Ordinary(f), NEW i \in Extracted[lines[f]]
      PROVE  <<f, i>> \in Refs
  <2>1. PICK n \in DOMAIN jobs : f \in jobs[n]
    BY <1>3 DEF ScanInv, SearchIsSound, Searching
  <2>2. n \in Ended /\ ~Failed
    <3>1. jobs \in Seq(SUBSET inventory) /\ started = Len(jobs) /\ running = {} /\ ~Failed
      BY <1>3 DEF ScanInv, ScanTypeOK, PoolIsSound, EndIsSound, PoolEnded, Searching
    <3> QED
      BY <3>1 DEF Ended
  <2>3. RefsIn(f) \subseteq Refs
    BY <1>3, <2>1, <2>2 DEF ScanInv, SearchIsSound, Searching, Untouched
  <2> QED
    BY <1>1, <1>2, <1>3, <2>3
<1>4. ASSUME scan = "done", NEW ref \in Refs
      PROVE  /\ ref \in seen /\ ref[1] \in inventory
             /\ ref[1] \notin touched => ref[2] \in Extracted[lines[ref[1]]]
  <2>1. /\ ref \in seen /\ ref[1] \in inventory /\ inventory \subseteq ProjectFiles
        /\ ref[1] \notin touched => ref \in RefsIn(ref[1])
    BY <1>4 DEF ScanInv, SearchIsSound, ScanTypeOK, PoolIsSound, Searching
  <2>2. ASSUME ref[1] \notin touched PROVE ref[2] \in Extracted[lines[ref[1]]]
    <3>1. ref[1] \in Present
      BY <1>2, <2>1, <2>2 DEF Untouched
    <3>2. ref \in {<<ref[1], i>> : i \in Extracted[lines[ref[1]]]}
      BY <1>1, <2>1, <2>2, <3>1
    <3> QED
      BY <3>2
  <2> QED
    BY <2>1, <2>2
<1>5. IF "git" \in tools THEN scan # "list" => (scan = "failed" <=> OutOfReach # {})
      ELSE scan = "failed" => (gone \ taken) \cup closed \cup ruleless # {}
  BY DEF ScanInv, EndIsSound
<1> QED
  BY <1>3, <1>4, <1>5 DEF ScanIsWhole, Untouched

(***************************************************************************)
(* Whatever the tools at hand, however the files lie in directories, which *)
(* of these are closed or have become files, and although they change      *)
(* meanwhile: a scan that ends has found all that the program takes for    *)
(* references in the untouched files and nothing else (scanCodeRefs), and  *)
(* it fails only where the listing does.  The second half is for the run:  *)
(* where a line is read as it is meant, these are the references meant.    *)
(***************************************************************************)
THEOREM ScansFindEverything ==
  ScanSpec => [](ScanIsWhole(Extracted) /\ (LinesAreRead => ScansAreComplete))
<1>1. ScanInv => ScanIsWhole(Extracted) /\ (LinesAreRead => ScansAreComplete)
  <2>1. ASSUME LinesAreRead, ScanIsWhole(Extracted) PROVE ScansAreComplete
    BY <2>1 DEF LinesAreRead, ScansAreComplete
  <2> QED
    BY <2>1, ScanIsComplete
<1> QED
  BY <1>1, ScanInitially, ScanGoesOn, PTL DEF ScanSpec

-----------------------------------------------------------------------------
(***************************************************************************)
(* Documents.  The inductive invariant: what a document and the gate may   *)
(* say, and that the hash is of the text that was read.                    *)
(***************************************************************************)
PolicyTypeOK ==
  /\ doc.place \in Homes /\ doc.eol \in Endings /\ doc.block \in Blocks
  /\ doc.mode \in Modes \cup {"other", Unset}
  /\ doc.status \in Statuses \cup {"other", Unset}
  /\ doc.body \in Seq(Lines)
  /\ DOMAIN doc = {"place", "eol", "block", "mode", "status", "hash", "body"}
  /\ gate \in [value : {"true", "yes", Unset}, block : Blocks, eol : Endings]
  /\ read # Unset => read \in Seq(Lines)

HashIsOfRead == read # Unset => doc.hash = HashReviewedBody(read)

PolicyInv == PolicyTypeOK /\ HashIsOfRead

\* Fences before line i, that line included.
FencesUpTo(body, i) == Cardinality({j \in 1..i : body[j][1] \in Fences})
IsOdd(n) == n % 2 = 1

LEMMA FencesAreCounted ==
  ASSUME NEW body, NEW i \in Nat
  PROVE  /\ FencesUpTo(body, i) \in Nat
         /\ FencesUpTo(body, 0) = 0
         /\ FencesUpTo(body, i + 1) =
              FencesUpTo(body, i) + (IF body[i + 1][1] \in Fences THEN 1 ELSE 0)
<1> DEFINE F(n) == {j \in 1..n : body[j][1] \in Fences}
<1>1. IsFiniteSet(1..i) /\ F(i) \subseteq 1..i
  BY FS_Interval
<1>2. IsFiniteSet(F(i)) /\ Cardinality(F(i)) \in Nat
  BY <1>1, FS_Subset, FS_CardinalityType
<1>3. F(0) = {} /\ Cardinality({}) = 0
  BY FS_EmptySet
<1>6. \A n : FencesUpTo(body, n) = Cardinality(F(n))
  BY DEF FencesUpTo
<1>4. CASE body[i + 1][1] \in Fences
  <2>1. F(i + 1) = F(i) \cup {i + 1} /\ i + 1 \notin F(i)
    BY <1>4
  <2>2. Cardinality(F(i + 1)) = Cardinality(F(i)) + 1
    <3> HIDE DEF F
    <3> QED
      BY <1>2, <2>1, FS_AddElement
  <2> QED
    BY <1>2, <1>3, <1>4, <1>6, <2>2
<1>5. CASE body[i + 1][1] \notin Fences
  <2>1. F(i + 1) = F(i)
    BY <1>5
  <2> QED
    BY <1>2, <1>3, <1>5, <1>6, <2>1
<1> QED
  BY <1>4, <1>5

LEMMA OddNext ==
  ASSUME NEW n \in Nat
  PROVE  IsOdd(n + 1) <=> ~IsOdd(n)
BY DEF IsOdd

LEMMA NoneIsEven == ~IsOdd(0)
BY DEF IsOdd

OpenStep(body, open, i) ==
  IF i = 0 THEN 0
  ELSE LET size == Size(body[i])
       IN IF size = 0 THEN open[i - 1]
          ELSE IF open[i - 1] = 0 THEN size
          ELSE IF size >= open[i - 1] THEN 0 ELSE open[i - 1]

\* With fences of one size, a fence is open after an odd number of them.
LEMMA FencesAlternate ==
  ASSUME NEW body \in Seq(Lines), NEW s \in {3, 4},
         \A i \in DOMAIN body : Size(body[i]) = IF body[i][1] \in Fences THEN s ELSE 0
  PROVE  \A i \in 0..Len(body) :
           OpenFence(body)[i] = IF IsOdd(FencesUpTo(body, i)) THEN s ELSE 0
<1> DEFINE N == Len(body)
           g == [i \in 0..N |-> IF IsOdd(FencesUpTo(body, i)) THEN s ELSE 0]
           f == OpenFence(body)
<1>1. N \in Nat /\ DOMAIN body = 1..N
  OBVIOUS
<1>2. ASSUME NEW i \in 0..N
      PROVE  g[i] = OpenStep(body, g, i)
  <2>1. CASE i = 0
    BY <2>1, FencesAreCounted, NoneIsEven DEF OpenStep
  <2>2. CASE i # 0
    <3>1. i - 1 \in Nat /\ i - 1 \in 0..N /\ (i - 1) + 1 = i /\ i \in 1..N
      BY <1>1, <2>2
    <3>2. /\ FencesUpTo(body, i - 1) \in Nat
          /\ FencesUpTo(body, i) =
              FencesUpTo(body, i - 1) + (IF body[i][1] \in Fences THEN 1 ELSE 0)
      BY <3>1, FencesAreCounted
    <3>3. Size(body[i]) = IF body[i][1] \in Fences THEN s ELSE 0
      BY <1>1, <3>1
    <3>4. /\ g[i] = IF IsOdd(FencesUpTo(body, i)) THEN s ELSE 0
          /\ g[i - 1] = IF IsOdd(FencesUpTo(body, i - 1)) THEN s ELSE 0
      BY <3>1
    <3> HIDE DEF g
    <3>5. CASE body[i][1] \in Fences
      <4>1. IsOdd(FencesUpTo(body, i)) <=> ~IsOdd(FencesUpTo(body, i - 1))
        BY <3>2, <3>5, OddNext
      <4> QED
        BY <2>2, <3>3, <3>4, <3>5, <4>1 DEF OpenStep
    <3>6. CASE body[i][1] \notin Fences
      <4>1. FencesUpTo(body, i) = FencesUpTo(body, i - 1)
        BY <3>2, <3>6
      <4> QED
        BY <2>2, <3>3, <3>4, <3>6, <4>1 DEF OpenStep
    <3> QED
      BY <3>5, <3>6
  <2> QED
    BY <2>1, <2>2
<1>3. g = [i \in 0..N |-> OpenStep(body, g, i)]
  BY <1>2
<1>4. f = CHOOSE h : h = [i \in 0..N |-> OpenStep(body, h, i)]
  BY DEF OpenFence, OpenStep
<1>5. f = [i \in 0..N |-> OpenStep(body, f, i)]
  <2> HIDE DEF f, g
  <2> QED
    BY <1>3, <1>4
<1> HIDE DEF f
<1> DEFINE S == {i \in 0..N : f[i] = g[i]}
<1>6. 0 \in S
  <2>1. 0 \in 0..N /\ OpenStep(body, f, 0) = 0 /\ OpenStep(body, g, 0) = 0
    BY <1>1 DEF OpenStep
  <2> HIDE DEF g, N
  <2>2. f[0] = 0
    BY <1>5, <2>1
  <2>3. g[0] = 0
    BY <1>2, <2>1
  <2> QED
    BY <2>1, <2>2, <2>3
<1>7. ASSUME NEW i \in 1..N, i - 1 \in S PROVE i \in S
  <2>1. i \in 0..N /\ f[i - 1] = g[i - 1]
    BY <1>1, <1>7
  <2>2. OpenStep(body, f, i) = OpenStep(body, g, i)
    BY <2>1 DEF OpenStep
  <2>3. f[i] = OpenStep(body, f, i) /\ g[i] = OpenStep(body, g, i)
    BY <1>2, <1>5, <2>1
  <2> HIDE DEF g
  <2> QED
    BY <2>1, <2>2, <2>3
<1>8. \A i \in 0..N : i \in S
  <2> HIDE DEF S, N
  <2> QED
    BY <1>1, <1>6, <1>7, OneAfterAnother
<1> QED
  BY <1>8 DEF f

\* Headings are in code alike for the mask and for Markdown.
LEMMA CodeIsFenced ==
  ASSUME NEW body \in Seq(Lines), ~BothFences(body), NEW i \in DOMAIN body,
         body[i][1] \in Headings
  PROVE  i \in InCode(body) <=> i \in Fenced(body)
<1>1. PICK s \in {3, 4} : \A j \in DOMAIN body :
        Size(body[j]) = IF body[j][1] \in Fences THEN s ELSE 0
  <2>1. CASE "fence3" \notin {body[j][1] : j \in DOMAIN body}
    <3>1. \A j \in DOMAIN body : Size(body[j]) = IF body[j][1] \in Fences THEN 4 ELSE 0
      BY <2>1 DEF Size, Fences
    <3> QED
      BY <3>1
  <2>2. CASE "fence4" \notin {body[j][1] : j \in DOMAIN body}
    <3>1. \A j \in DOMAIN body : Size(body[j]) = IF body[j][1] \in Fences THEN 3 ELSE 0
      BY <2>2 DEF Size, Fences
    <3> QED
      BY <3>1
  <2> QED
    BY <2>1, <2>2 DEF BothFences, Fences
<1>2. i \in 1..Len(body) /\ Len(body) \in Nat
  OBVIOUS
<1>3. i - 1 \in Nat /\ i - 1 \in 0..Len(body) /\ i \in 0..Len(body) /\ (i - 1) + 1 = i
  BY <1>2
<1>4. body[i][1] \notin Fences
  BY DEF Headings, Fences
<1>5. FencesUpTo(body, i) = FencesUpTo(body, i - 1)
  <2>1. FencesUpTo(body, i - 1) \in Nat
        /\ FencesUpTo(body, i) =
             FencesUpTo(body, i - 1) + (IF body[i][1] \in Fences THEN 1 ELSE 0)
    BY <1>3, FencesAreCounted
  <2> QED
    BY <1>4, <2>1
<1>6. \A j \in 0..Len(body) :
        OpenFence(body)[j] = IF IsOdd(FencesUpTo(body, j)) THEN s ELSE 0
  BY <1>1, FencesAlternate
<1>7. i \in InCode(body) <=> IsOdd(FencesUpTo(body, i))
  BY <1>3, <1>5, <1>6 DEF InCode
<1>8. i \in Fenced(body) <=> IsOdd(FencesUpTo(body, i))
  BY <1>4 DEF Fenced, IsOdd, FencesUpTo
<1> QED
  BY <1>7, <1>8

LEMMA HashIsOfClaims ==
  ASSUME NEW body \in Seq(Lines), ~BothFences(body)
  PROVE  HashReviewedBody(body) = Claims(body)
BY CodeIsFenced DEF HashReviewedBody, Claims

LEMMA HashIsText ==
  ASSUME NEW body \in Seq(Lines)
  PROVE  HashReviewedBody(body) # Unset
<1> DEFINE Hashed == Lines \cup {Line("h1", "")}
<1>1. \A heading \in Headings : Line(heading, "") \in Hashed
  <2>1. Line("h2", "") \in Lines
    BY DEF Lines, Line
  <2>2. Line("h1", "") \in Hashed /\ Line("h2", "") \in Hashed
    BY <2>1
  <2> HIDE DEF Hashed
  <2> QED
    BY <2>2 DEF Headings
<1>2. /\ Len(body) \in Nat /\ DOMAIN body = 1..Len(body)
      /\ \A i \in 1..Len(body) : body[i] \in Hashed
  <2>1. Len(body) \in Nat /\ DOMAIN body = 1..Len(body)
    OBVIOUS
  <2>2. \A i \in 1..Len(body) : body[i] \in Lines
    OBVIOUS
  <2> QED
    BY <2>1, <2>2
<1> DEFINE hash(i) == IF body[i][1] \in Headings /\ i \notin Fenced(body)
                      THEN Line(body[i][1], "") ELSE body[i]
<1>3. HashReviewedBody(body) = [i \in 1..Len(body) |-> hash(i)]
  BY <1>2 DEF HashReviewedBody
<1>4. \A i \in 1..Len(body) : hash(i) \in Hashed
  BY <1>1, <1>2
<1> HIDE DEF hash, Hashed
<1>5. [i \in 1..Len(body) |-> hash(i)] \in Seq(Hashed)
  BY <1>2, <1>4
<1>6. Unset \notin Seq(Hashed)
  BY PolicyAssumption DEF Hashed
<1> QED
  BY <1>3, <1>5, <1>6

LEMMA PolicyInitially == PolicyInit => PolicyInv
<1> SUFFICES ASSUME PolicyInit PROVE PolicyInv
  OBVIOUS
<1>1. PICK body \in Bodies, place \in Homes :
        doc = [place |-> place, eol |-> "lf", block |-> "lat", mode |-> Unset,
               status |-> Unset, hash |-> Unset, body |-> body]
  BY DEF PolicyInit
<1>2. body \in Seq(Lines)
  BY PolicyAssumption
<1> HIDE DEF Lines
<1>3. gate \in [value : {"true", "yes", Unset}, block : Blocks, eol : Endings]
  BY DEF PolicyInit, Blocks, Endings
<1>4. doc.eol \in Endings /\ doc.block \in Blocks
  BY <1>1 DEF Endings, Blocks
<1>5. read = Unset
  BY DEF PolicyInit
<1> QED
  BY <1>1, <1>2, <1>3, <1>4, <1>5 DEF PolicyInv, PolicyTypeOK, HashIsOfRead

LEMMA RemovedLine ==
  ASSUME NEW body \in Seq(Lines), NEW i \in DOMAIN body
  PROVE  RemoveAt(body, i) \in Seq(Lines)
<1>1. Len(body) \in Nat /\ DOMAIN body = 1..Len(body)
  OBVIOUS
<1>2. \A j \in 1..Len(body) : body[j] \in Lines
  OBVIOUS
<1>3. SubSeq(body, 1, i - 1) \in Seq(Lines)
  <2>1. 1 \in Int /\ i - 1 \in Int /\ \A j \in 1..(i - 1) : body[j] \in Lines
    BY <1>1, <1>2
  <2> QED
    BY <2>1, SubSeqProperties
<1>4. SubSeq(body, i + 1, Len(body)) \in Seq(Lines)
  <2>1. i + 1 \in Int /\ Len(body) \in Int /\ \A j \in (i + 1)..Len(body) : body[j] \in Lines
    BY <1>1, <1>2
  <2> QED
    BY <2>1, SubSeqProperties
<1> QED
  BY <1>3, <1>4 DEF RemoveAt

LEMMA EditedBody ==
  ASSUME NEW body \in Seq(Lines), NEW new \in Edited(body)
  PROVE  new \in Seq(Lines)
<1>1. CASE \E i \in DOMAIN body, line \in Lines : new = [body EXCEPT ![i] = line]
  BY <1>1
<1>2. CASE \E line \in Lines : new = Append(body, line)
  BY <1>2
<1>3. CASE \E i \in DOMAIN body : new = RemoveAt(body, i)
  BY <1>3, RemovedLine
<1> QED
  BY <1>1, <1>2, <1>3 DEF Edited

LEMMA PolicyGoesOn == PolicyInv /\ [PolicyNext]_policyVars => PolicyInv'
<1> SUFFICES ASSUME PolicyInv, [PolicyNext]_policyVars PROVE PolicyInv'
  OBVIOUS
<1>1. CASE Review
  <2>1. /\ doc' = [doc EXCEPT !.status = "human-reviewed", !.hash = HashReviewedBody(doc.body)]
        /\ read' = doc.body /\ gate' = gate
    BY <1>1 DEF Review
  <2>2. /\ doc'.place = doc.place /\ doc'.eol = doc.eol /\ doc'.block = doc.block
        /\ doc'.mode = doc.mode /\ doc'.body = doc.body
        /\ doc'.status = "human-reviewed" /\ doc'.hash = HashReviewedBody(doc.body)
        /\ DOMAIN doc' = DOMAIN doc
    BY <2>1 DEF PolicyInv, PolicyTypeOK
  <2> QED
    BY <2>1, <2>2 DEF PolicyInv, PolicyTypeOK, HashIsOfRead, Statuses
<1>2. CASE EditBody
  <2>1. PICK body \in Edited(doc.body) : doc' = [doc EXCEPT !.body = body]
    BY <1>2 DEF EditBody
  <2>2. gate' = gate /\ read' = read
    BY <1>2 DEF EditBody
  <2>3. body \in Seq(Lines)
    BY EditedBody DEF PolicyInv, PolicyTypeOK
  <2>4. /\ doc'.place = doc.place /\ doc'.eol = doc.eol /\ doc'.block = doc.block
        /\ doc'.mode = doc.mode /\ doc'.body = body
        /\ doc'.status = doc.status /\ doc'.hash = doc.hash
        /\ DOMAIN doc' = DOMAIN doc
    BY <2>1 DEF PolicyInv, PolicyTypeOK
  <2> QED
    BY <2>2, <2>3, <2>4 DEF PolicyInv, PolicyTypeOK, HashIsOfRead
<1>3. CASE EditFront
  <2>1. /\ doc'.place \in Homes /\ doc'.eol \in Endings /\ doc'.block \in Blocks
        /\ doc'.mode \in Modes \cup {"other", Unset}
        /\ doc'.status \in Statuses \cup {"other", Unset}
        /\ doc'.body = doc.body /\ doc'.hash = doc.hash /\ DOMAIN doc' = DOMAIN doc
    BY <1>3 DEF EditFront, PolicyInv, PolicyTypeOK
  <2>2. gate' = gate /\ read' = read
    BY <1>3 DEF EditFront
  <2> QED
    BY <2>1, <2>2 DEF PolicyInv, PolicyTypeOK, HashIsOfRead
<1>4. CASE EditGate
  <2>1. gate' \in [value : {"true", "yes", Unset}, block : Blocks, eol : Endings]
        /\ doc' = doc /\ read' = read
    BY <1>4 DEF EditGate
  <2> QED
    BY <2>1 DEF PolicyInv, PolicyTypeOK, HashIsOfRead
<1>5. CASE UNCHANGED policyVars
  BY <1>5 DEF policyVars, PolicyInv, PolicyTypeOK, HashIsOfRead
<1> QED
  BY <1>1, <1>2, <1>3, <1>4, <1>5 DEF PolicyNext

LEMMA ReviewsShow == PolicyInv => StaleReviewsShow
<1> SUFFICES ASSUME PolicyInv, read # Unset, doc.status = "human-reviewed", doc.eol = "lf",
                    ~BothFences(doc.body), ~BothFences(read)
             PROVE  IF doc.block # "lat" THEN CheckFrontmatter
                    ELSE /\ (Claims(doc.body) # Claims(read)) = (ProvenanceNote = "stale")
                         /\ ProvenanceNote = "stale" => CheckStatus
  BY DEF StaleReviewsShow
<1>1. /\ "human-reviewed" # Unset /\ doc.block \in Blocks
      /\ read \in Seq(Lines) /\ doc.body \in Seq(Lines) /\ doc.hash = HashReviewedBody(read)
  BY PolicyAssumption DEF PolicyInv, PolicyTypeOK, HashIsOfRead, Statuses
<1>2. CASE doc.block # "lat"
  <2>1. Problems(doc, TRUE)
    BY <1>1, <1>2 DEF Problems, Blocks
  <2> QED
    BY <1>1, <1>2, <2>1 DEF CheckFrontmatter
<1>3. CASE doc.block = "lat"
  <2>1. Provenance.status = "human-reviewed" /\ Provenance.hash = HashReviewedBody(read)
    BY <1>1, <1>3 DEF Provenance, Field
  <2>2. HashReviewedBody(read) # Unset
    BY <1>1, HashIsText
  <2>3. ProvenanceNote = IF HashReviewedBody(read) = HashReviewedBody(doc.body)
                         THEN "reviewed" ELSE "stale"
    BY <1>1, <2>1, <2>2 DEF ProvenanceNote
  <2>4. HashReviewedBody(read) = Claims(read) /\ HashReviewedBody(doc.body) = Claims(doc.body)
    BY <1>1, HashIsOfClaims
  <2>5. (Claims(doc.body) # Claims(read)) = (ProvenanceNote = "stale")
    BY <2>3, <2>4
  <2>6. ProvenanceNote = "stale" => CheckStatus
    BY <2>1, <2>2, <2>3 DEF CheckStatus
  <2> QED
    BY <1>3, <2>5, <2>6
<1> QED
  BY <1>2, <1>3

LEMMA GateIsHeard == PolicyInv => GateDoesWhatItSays
<1> SUFFICES ASSUME PolicyInv PROVE GateDoesWhatItSays
  OBVIOUS
<1>1. /\ gate.value \in {"true", "yes", Unset} /\ gate.block \in Blocks
      /\ doc.place.index \in BOOLEAN
  BY DEF PolicyInv, PolicyTypeOK, Homes
<1>2. ASSUME gate.value # Unset, gate.eol = "lf"
      PROVE  RequireMode \/ CheckMode(RequireMode) \/ CheckFrontmatter
  <2>1. CASE gate.block = "lat"
    <3>1. Field(gate, gate.value) = gate.value
      BY <1>2, <2>1 DEF Field
    <3> QED
      BY <1>1, <1>2, <3>1 DEF RequireMode, CheckMode
  <2>2. CASE gate.block # "lat"
    <3>1. Problems(gate, gate.value # Unset)
      BY <1>1, <1>2, <2>2 DEF Problems, Blocks
    <3> QED
      BY <3>1 DEF CheckFrontmatter
  <2> QED
    BY <2>1, <2>2
<1>3. ASSUME RequireMode, ~CheckMode(RequireMode)
      PROVE  doc.place.index \/ ModeOf \in Modes
  BY <1>3 DEF CheckMode
<1>4. CheckMode(TRUE) # CheckMode(FALSE) => ModeOf = Unset /\ ~doc.place.index
  BY DEF CheckMode
<1> QED
  BY <1>2, <1>3, <1>4 DEF GateDoesWhatItSays

(***************************************************************************)
(* Whatever the text and however often it, its frontmatter, its place and  *)
(* the gate are edited: a review never covers a text that nobody read, and *)
(* the gate does what its line says or somebody is told                    *)
(* (hashReviewedBody, readRequireModeFlag).                                *)
(***************************************************************************)
THEOREM PoliciesHold == PolicySpec => []PolicyHolds
<1>1. PolicyInv => PolicyHolds
  BY ReviewsShow, GateIsHeard DEF PolicyHolds
<1> QED
  BY <1>1, PolicyInitially, PolicyGoesOn, PTL DEF PolicySpec

-----------------------------------------------------------------------------
(***************************************************************************)
(* The guard of a fork.                                                    *)
(***************************************************************************)
Trees == [TreePaths -> Int]
AllowLines == [path : TreePaths, reason : {Real, Todo, NoReason}]

\* A copy of the fork: its tree and the guard's two files.
IsCopy(copy, commits) ==
  /\ DOMAIN copy = {"tree", "sync", "list"}
  /\ copy.tree \in Trees
  /\ copy.sync \in commits \cup {Unwritten}
  /\ copy.list \in Seq(AllowLines) \cup {Unwritten}

GuardInv ==
  /\ upstream \in Seq(Trees) /\ forked \in Seq(Trees)
  /\ merged \in DOMAIN upstream
  /\ merging \in DOMAIN upstream \cup {0}
  /\ merging # 0 => merged < merging
  /\ handEdits \in Nat
  /\ IsCopy(head, Revisions) /\ IsCopy(worktree, Revisions)

\* What is read of a list has a path once and a reason.
LEMMA EntriesAreRead ==
  ASSUME NEW list \in Seq(AllowLines)
  PROVE  /\ \A e \in Entries(list) :
              e \in AllowLines /\ e.path \notin Unreadable /\ e.reason \in {Real, Todo}
         /\ \A e1, e2 \in Entries(list) : e1.path = e2.path => e1 = e2
<1>1. /\ Len(list) \in Nat /\ DOMAIN list = 1..Len(list)
      /\ \A i \in 1..Len(list) : list[i] \in AllowLines
  OBVIOUS
<1>2. ASSUME NEW e \in Entries(list)
      PROVE  \E i \in 1..Len(list) :
               /\ e = list[i] /\ Legible(list[i])
               /\ \A k \in 1..(i - 1) : Legible(list[k]) => list[k].path # list[i].path
  BY <1>1 DEF Entries
<1>3. ASSUME NEW e \in Entries(list)
      PROVE  e \in AllowLines /\ e.path \notin Unreadable /\ e.reason \in {Real, Todo}
  <2>1. e \in AllowLines /\ Legible(e)
    BY <1>1, <1>2
  <2> QED
    BY <2>1 DEF Legible, AllowLines
<1>4. ASSUME NEW e1 \in Entries(list), NEW e2 \in Entries(list), e1.path = e2.path
      PROVE  e1 = e2
  <2>1. PICK i \in 1..Len(list) :
          /\ e1 = list[i] /\ Legible(list[i])
          /\ \A k \in 1..(i - 1) : Legible(list[k]) => list[k].path # list[i].path
    BY <1>2
  <2>2. PICK j \in 1..Len(list) :
          /\ e2 = list[j] /\ Legible(list[j])
          /\ \A k \in 1..(j - 1) : Legible(list[k]) => list[k].path # list[j].path
    BY <1>2
  <2>3. ~(i < j) /\ ~(j < i)
    <3>1. i < j => i \in 1..(j - 1)
      BY <1>1
    <3>2. j < i => j \in 1..(i - 1)
      BY <1>1
    <3> QED
      BY <1>4, <2>1, <2>2, <3>1, <3>2
  <2>4. i = j
    BY <1>1, <2>3
  <2> QED
    BY <2>1, <2>2, <2>4
<1> QED
  BY <1>3, <1>4

\* A set of entries with a path once each and a reason is written and read back,
\* except for the lines that are read as something else.
WrittenOnce(E) == \A e1, e2 \in E : e1.path = e2.path => e1 = e2

LEMMA WrittenIsRead ==
  ASSUME NEW E, IsFiniteSet(E), \A e \in E : e \in AllowLines /\ e.reason # NoReason,
         WrittenOnce(E)
  PROVE  /\ Rendered(E) \in Seq(AllowLines)
         /\ Entries(Rendered(E)) = {e \in E : e.path \notin Unreadable}
         /\ ~Malformed(Rendered(E))
<1> DEFINE list == SetToSeq(E)
           n == Cardinality(E)
<1>1. /\ n \in Nat /\ list \in [1..n -> E] /\ ToSet(list) = E
      /\ \A i, j \in DOMAIN list : list[i] = list[j] => i = j
  BY Listing, ListedOnce
<1>2. Rendered(E) = list
  BY DEF Rendered
<1> HIDE DEF list, n
<1>3. DOMAIN list = 1..n /\ \A i \in 1..n : list[i] \in E
  BY <1>1
<1>4. list \in Seq(AllowLines)
  <2>1. \A i \in 1..n : list[i] \in AllowLines
    BY <1>3
  <2>2. list \in [1..n -> AllowLines]
    BY <1>1, <2>1
  <2> QED
    BY <1>1, <2>2
<1>5. ASSUME NEW i \in 1..n, NEW k \in 1..(i - 1)
      PROVE  list[k].path # list[i].path
  <2>1. k \in 1..n /\ k # i
    BY <1>1
  <2>2. list[k] \in E /\ list[i] \in E /\ list[k] # list[i]
    BY <1>1, <1>3, <2>1
  <2> QED
    BY <2>2 DEF WrittenOnce
<1>6. Entries(list) = {list[i] : i \in {j \in 1..n : Legible(list[j])}}
  BY <1>3, <1>5 DEF Entries
<1>7. \A e \in E : \E i \in 1..n : e = list[i]
  BY <1>1, <1>3 DEF ToSet
<1>8. \A e \in E : Legible(e) <=> e.path \notin Unreadable
  BY DEF Legible
<1>9. Entries(list) = {e \in E : e.path \notin Unreadable}
  BY <1>3, <1>6, <1>7, <1>8
<1>10. ~Malformed(list)
  BY <1>3, <1>5 DEF Malformed
<1> QED
  BY <1>2, <1>4, <1>9, <1>10

-----------------------------------------------------------------------------
\* What regenerating writes of a path: the reason it had, or the placeholder.
OldLines(copy) == IF copy.list = Unwritten THEN {} ELSE Entries(copy.list)

OldReason(copy, p) ==
  IF \E e \in OldLines(copy) : e.path = p
  THEN (CHOOSE e \in OldLines(copy) : e.path = p).reason ELSE Todo

Kept(copy, rev) == Touched(copy, rev) \ Deleted(copy, rev)

NewLines(copy, rev) == {Entry(p, OldReason(copy, p)) : p \in Kept(copy, rev)}

LEMMA OldReasonIs ==
  ASSUME GuardInv, NEW copy, IsCopy(copy, Revisions), NEW p
  PROVE  /\ OldReason(copy, p) \in {Real, Todo}
         /\ \A e \in OldLines(copy) : e.path = p => e.reason = OldReason(copy, p)
         /\ ~(\E e \in OldLines(copy) : e.path = p) => OldReason(copy, p) = Todo
         /\ p \in Unreadable => OldReason(copy, p) = Todo
<1>1. /\ \A e \in OldLines(copy) : e.path \notin Unreadable /\ e.reason \in {Real, Todo}
      /\ \A e1, e2 \in OldLines(copy) : e1.path = e2.path => e1 = e2
  <2>1. CASE copy.list = Unwritten
    BY <2>1 DEF OldLines
  <2>2. CASE copy.list # Unwritten
    BY <2>2, EntriesAreRead DEF OldLines, IsCopy
  <2> QED
    BY <2>1, <2>2
<1>2. CASE \E e \in OldLines(copy) : e.path = p
  <2>1. PICK e \in OldLines(copy) : e.path = p
    BY <1>2
  <2>2. OldReason(copy, p) = e.reason
    BY <1>1, <1>2, <2>1 DEF OldReason
  <2> QED
    BY <1>1, <2>1, <2>2
<1>3. CASE ~(\E e \in OldLines(copy) : e.path = p)
  BY <1>3 DEF OldReason
<1> QED
  BY <1>2, <1>3

LEMMA NewLinesAreWritten ==
  ASSUME GuardInv, NEW copy, IsCopy(copy, Revisions), NEW rev
  PROVE  /\ Regenerated(copy, rev) = Rendered(NewLines(copy, rev))
         /\ Regenerated(copy, rev) \in Seq(AllowLines)
         /\ Regenerated(copy, rev) # Unwritten
         /\ ~Malformed(Regenerated(copy, rev))
         /\ Entries(Regenerated(copy, rev)) =
              {Entry(p, OldReason(copy, p)) : p \in Kept(copy, rev) \ Unreadable}
<1> DEFINE E == NewLines(copy, rev)
<1>1. Kept(copy, rev) \subseteq TreePaths /\ IsFiniteSet(Kept(copy, rev))
  <2>1. Kept(copy, rev) \subseteq TreePaths
    BY DEF Kept, Touched, DiffNames
  <2> QED
    BY <2>1, GuardAssumption, FS_Subset
<1>2. IsFiniteSet(E)
  <2> DEFINE f == [p \in Kept(copy, rev) |-> Entry(p, OldReason(copy, p))]
  <2>1. f \in Surjection(Kept(copy, rev), E)
    BY DEF Surjection, NewLines
  <2> HIDE DEF f, E
  <2> QED
    BY <1>1, <2>1, FS_Surjection
<1>3. ASSUME NEW e \in E PROVE e \in AllowLines /\ e.reason # NoReason
  <2>1. PICK p \in Kept(copy, rev) : e = Entry(p, OldReason(copy, p))
    BY DEF NewLines
  <2>2. OldReason(copy, p) \in {Real, Todo}
    BY OldReasonIs
  <2> QED
    BY <1>1, <2>1, <2>2 DEF Entry, AllowLines, Real, Todo, NoReason
<1>4. WrittenOnce(E)
  BY DEF WrittenOnce, NewLines, Entry
<1>5. Regenerated(copy, rev) = Rendered(E)
  BY DEF Regenerated, NewLines, OldReason, OldLines, Kept
<1>6. /\ Rendered(E) \in Seq(AllowLines) /\ ~Malformed(Rendered(E))
      /\ Entries(Rendered(E)) = {e \in E : e.path \notin Unreadable}
  <2> HIDE DEF E
  <2> QED
    BY <1>2, <1>3, <1>4, WrittenIsRead
<1>7. {e \in E : e.path \notin Unreadable} =
        {Entry(p, OldReason(copy, p)) : p \in Kept(copy, rev) \ Unreadable}
  BY DEF NewLines, Entry
<1>8. Unwritten \notin Seq(AllowLines)
  BY GuardAssumption DEF AllowLines, Real, Todo, NoReason
<1> QED
  BY <1>5, <1>6, <1>7, <1>8

LEMMA SettledAgain ==
  ASSUME GuardInv, NEW rev \in Ancestors
  PROVE  LET after == [worktree EXCEPT !.list = Regenerated(worktree, rev)]
             old == IF worktree.list = Unwritten THEN <<>> ELSE worktree.list
             kept == Touched(worktree, rev) \ Deleted(worktree, rev)
             unwritten == {p \in kept : Reasons(old, p) # {Real}}
         IN  /\ ~Malformed(after.list)
             /\ Stale(after, rev) = {}
             /\ Classify(after, rev) =
                  {Finding("deletion", p) : p \in Deleted(worktree, rev)}
                  \cup {Finding("missing-reason", p) : p \in unwritten \ Unreadable}
                  \cup {Finding("unallowlisted", p) : p \in kept \cap Unreadable}
             /\ Regenerated(after, rev) = after.list
<1> DEFINE after == [worktree EXCEPT !.list = Regenerated(worktree, rev)]
           old == IF worktree.list = Unwritten THEN <<>> ELSE worktree.list
           kept == Touched(worktree, rev) \ Deleted(worktree, rev)
           unwritten == {p \in kept : Reasons(old, p) # {Real}}
           R(p) == OldReason(worktree, p)
<1>1. IsCopy(worktree, Revisions)
  BY DEF GuardInv
<1>2. /\ after.tree = worktree.tree /\ after.sync = worktree.sync
      /\ after.list = Regenerated(worktree, rev)
      /\ DOMAIN after = {"tree", "sync", "list"}
  BY <1>1 DEF IsCopy
<1>3. /\ after.list = Rendered(NewLines(worktree, rev))
      /\ after.list \in Seq(AllowLines) /\ after.list # Unwritten
      /\ ~Malformed(after.list)
      /\ Entries(after.list) = {Entry(p, R(p)) : p \in kept \ Unreadable}
  BY <1>1, <1>2, NewLinesAreWritten DEF Kept
<1>4. IsCopy(after, Revisions)
  BY <1>1, <1>2, <1>3 DEF IsCopy
<1> HIDE DEF after
<1>5. Touched(after, rev) = Touched(worktree, rev) /\ Deleted(after, rev) = Deleted(worktree, rev)
  BY <1>2 DEF Touched, Deleted
<1>6. Stale(after, rev) = {}
  <2>1. \A e \in Entries(after.list) : e.path \in Touched(worktree, rev)
    BY <1>3 DEF Entry
  <2> QED
    BY <1>5, <2>1 DEF Stale
<1>7. ASSUME NEW p \in kept
      PROVE  Reasons(after.list, p) = IF p \in Unreadable THEN {} ELSE {R(p)}
  <2> DEFINE Read == Entries(after.list)
  <2>1. /\ \A q \in kept \ Unreadable : Entry(q, R(q)) \in Read
        /\ \A e \in Read : \E q \in kept \ Unreadable : e = Entry(q, R(q))
    BY <1>3
  <2>2. \A q : Entry(q, R(q)).path = q /\ Entry(q, R(q)).reason = R(q)
    BY DEF Entry
  <2> HIDE DEF R, Read
  <2>3. \A e \in Read : e.path \in kept \ Unreadable /\ e.reason = R(e.path)
    BY <2>1, <2>2
  <2>4. Reasons(after.list, p) = {e.reason : e \in {e \in Read : e.path = p}}
    BY DEF Reasons, Read
  <2>5. CASE p \in Unreadable
    BY <2>3, <2>4, <2>5
  <2>6. CASE p \notin Unreadable
    <3>1. Entry(p, R(p)) \in Read
      BY <2>1, <2>6
    <3> QED
      BY <2>2, <2>3, <2>4, <2>6, <3>1
  <2> QED
    BY <2>5, <2>6
<1>8. ASSUME NEW p \in kept
      PROVE  p \in unwritten <=> R(p) = Todo
  <2>1. Entries(old) = OldLines(worktree)
    BY DEF OldLines, Entries
  <2>2. /\ R(p) \in {Real, Todo}
        /\ \A e \in OldLines(worktree) : e.path = p => e.reason = R(p)
        /\ ~(\E e \in OldLines(worktree) : e.path = p) => R(p) = Todo
    BY <1>1, OldReasonIs
  <2>3. CASE R(p) = Real
    <3>1. Reasons(old, p) = {Real}
      BY <2>1, <2>2, <2>3 DEF Reasons, Real, Todo
    <3> QED
      BY <2>3, <3>1 DEF Real, Todo
  <2>4. CASE R(p) = Todo
    <3>1. Real \notin Reasons(old, p)
      BY <2>1, <2>2, <2>4 DEF Reasons, Real, Todo
    <3> QED
      BY <2>4, <3>1
  <2> QED
    BY <2>2, <2>3, <2>4
<1>9. Classify(after, rev) =
        {Finding("deletion", p) : p \in Deleted(worktree, rev)}
        \cup {Finding("missing-reason", p) : p \in unwritten \ Unreadable}
        \cup {Finding("unallowlisted", p) : p \in kept \cap Unreadable}
  <2>1. {q \in kept : Reasons(after.list, q) = {}} = kept \cap Unreadable
    BY <1>7
  <2>2. {q \in kept : Reasons(after.list, q) = {Todo}} = unwritten \ Unreadable
    BY <1>7, <1>8
  <2>3. Classify(after, rev) =
          {Finding("deletion", p) : p \in Deleted(worktree, rev)}
          \cup {Finding("unallowlisted", p) : p \in {q \in kept : Reasons(after.list, q) = {}}}
          \cup {Finding("missing-reason", p) : p \in {q \in kept : Reasons(after.list, q) = {Todo}}}
    BY <1>5 DEF Classify
  <2> QED
    BY <2>1, <2>2, <2>3
<1>10. Regenerated(after, rev) = after.list
  <2>1. Regenerated(after, rev) = Rendered(NewLines(after, rev))
    BY <1>4, NewLinesAreWritten
  <2>2. OldLines(after) = {Entry(p, R(p)) : p \in kept \ Unreadable}
    BY <1>3 DEF OldLines
  <2>3. ASSUME NEW p \in kept PROVE OldReason(after, p) = R(p)
    <3>1. CASE p \in Unreadable
      BY <1>1, <1>4, <3>1, OldReasonIs
    <3>2. CASE p \notin Unreadable
      <4>1. Entry(p, R(p)) \in OldLines(after)
        BY <2>2, <3>2
      <4>2. Entry(p, R(p)).path = p /\ Entry(p, R(p)).reason = R(p)
        BY DEF Entry
      <4> QED
        BY <1>4, <4>1, <4>2, OldReasonIs
    <3> QED
      BY <3>1, <3>2
  <2>4. NewLines(after, rev) = NewLines(worktree, rev)
    BY <1>5, <2>3 DEF NewLines, Kept
  <2> QED
    BY <1>3, <2>1, <2>4
<1> QED
  BY <1>3, <1>6, <1>9, <1>10 DEF after

LEMMA ListsSettle == GuardInv => RegenerationSettles
BY SettledAgain DEF RegenerationSettles

\* What every history has, and the trees of its commits.
LEMMA History ==
  ASSUME GuardInv
  PROVE  /\ Newest \in DOMAIN upstream /\ Newest \in Nat \ {0}
         /\ Ancestors \subseteq Revisions
         /\ \A rev \in Revisions : TreeAt(rev) \in Trees
<1>1. /\ Len(upstream) \in Nat /\ DOMAIN upstream = 1..Len(upstream)
      /\ Len(forked) \in Nat /\ DOMAIN forked = 1..Len(forked)
      /\ merged \in 1..Len(upstream) /\ merging \in 0..Len(upstream)
  BY DEF GuardInv
<1>2. Newest \in 1..Len(upstream)
  BY <1>1 DEF Newest
<1>3. Ancestors \subseteq Revisions
  BY <1>1, <1>2 DEF Ancestors, Revisions
<1>4. ASSUME NEW rev \in Revisions PROVE TreeAt(rev) \in Trees
  <2>1. CASE rev \in DOMAIN upstream
    <3>1. upstream[rev] \in Trees /\ rev > 0
      BY <1>1, <2>1 DEF GuardInv
    <3> QED
      BY <3>1 DEF TreeAt
  <2>2. CASE rev \in OwnCommits
    <3>1. PICK k \in DOMAIN forked : rev = -k
      BY <2>2 DEF OwnCommits
    <3>2. forked[k] \in Trees /\ ~(rev > 0) /\ -rev = k
      BY <1>1, <3>1 DEF GuardInv
    <3> QED
      BY <3>2 DEF TreeAt
  <2> QED
    BY <2>1, <2>2 DEF Revisions
<1> QED
  BY <1>1, <1>2, <1>3, <1>4

LEMMA PassesExplain == GuardInv => PassesAreExplained
<1> SUFFICES ASSUME GuardInv, Passes(worktree, FALSE, FALSE)
             PROVE  /\ worktree.sync \in Ancestors
                    /\ worktree.sync = Newest => Unexplained(Newest) = {}
                    /\ \A p \in Unexplained(Newest) :
                         \/ /\ worktree.sync \in 1..(Newest - 1)
                            /\ upstream[worktree.sync][p] = Missing
                         \/ /\ worktree.sync # Newest
                            /\ worktree.tree[p] = TreeAt(worktree.sync)[p]
                         \/ /\ worktree.sync \in OwnCommits
                            /\ forked[-worktree.sync][p] = Missing
  BY DEF PassesAreExplained
<1> DEFINE rev == worktree.sync
<1>1. worktree.list \in Seq(AllowLines) \cup {Unwritten}
  BY DEF GuardInv, IsCopy
<1>2. rev \in Ancestors /\ worktree.list # Unwritten /\ Classify(worktree, rev) = {}
  BY DEF Passes, Refused
<1>3. ASSUME NEW p \in TreePaths, TreeAt(rev)[p] \notin {Missing, worktree.tree[p]}
      PROVE  worktree.tree[p] # Missing /\ Reasons(worktree.list, p) = {Real}
  <2>1. p \in Touched(worktree, rev)
    BY <1>3 DEF Touched, DiffNames
  <2>2. p \notin Deleted(worktree, rev)
    BY <1>2 DEF Classify
  <2>3. Reasons(worktree.list, p) # {} /\ Reasons(worktree.list, p) # {Todo}
    BY <1>2, <2>1, <2>2 DEF Classify
  <2>4. worktree.tree[p] # Missing
    BY <2>1, <2>2 DEF Deleted
  <2>5. /\ \A e \in Entries(worktree.list) : e.reason \in {Real, Todo}
        /\ \A e1, e2 \in Entries(worktree.list) : e1.path = e2.path => e1 = e2
    BY <1>1, <1>2, EntriesAreRead
  <2>6. PICK e \in Entries(worktree.list) : e.path = p
    BY <2>3 DEF Reasons
  <2>7. Reasons(worktree.list, p) = {e.reason}
    BY <2>5, <2>6 DEF Reasons
  <2> QED
    BY <2>3, <2>4, <2>5, <2>6, <2>7
<1>4. Unexplained(rev) = {}
  BY <1>3 DEF Unexplained
<1>5. ASSUME NEW p \in Unexplained(Newest)
      PROVE  rev # Newest /\ TreeAt(rev)[p] \in {Missing, worktree.tree[p]}
  BY <1>3, <1>4, <1>5 DEF Unexplained
<1>6. Newest \in Nat \ {0}
  BY History
<1>7. rev # Newest => rev \in 1..(Newest - 1) \/ rev \in OwnCommits
  <2>1. CASE rev \in 1..Newest
    BY <1>6, <2>1
  <2> QED
    BY <1>2, <2>1 DEF Ancestors
<1>8. rev \in 1..(Newest - 1) => TreeAt(rev) = upstream[rev]
  BY <1>6 DEF TreeAt
<1>9. rev \in OwnCommits => TreeAt(rev) = forked[-rev]
  <2> SUFFICES ASSUME rev \in OwnCommits PROVE ~(rev > 0)
    BY DEF TreeAt
  <2>1. PICK k \in DOMAIN forked : rev = -k
    BY DEF OwnCommits
  <2>2. k \in Nat
    BY DEF GuardInv
  <2> QED
    BY <2>1, <2>2
<1> QED
  BY <1>2, <1>4, <1>5, <1>7, <1>8, <1>9

LEMMA ClonesAgree == CloneAgrees
BY DEF CloneAgrees, Passes, Refused

LEMMA ConflictsShow == GuardInv => ConflictsAreForeseen
<1> SUFFICES ASSUME GuardInv
             PROVE  /\ Conflicts(upstream[merged], head.tree, upstream[Len(upstream)])
                         \subseteq Overlap(merged)
                    /\ Ahead(merged) = 0 => Overlap(merged) = {}
  BY DEF ConflictsAreForeseen
<1>1. merged \in Nat \ {0} /\ Len(upstream) \in Nat
  BY DEF GuardInv
<1>2. TreeAt(merged) = upstream[merged]
  BY <1>1 DEF TreeAt
<1>3. Conflicts(upstream[merged], head.tree, upstream[Len(upstream)]) \subseteq Overlap(merged)
  BY <1>2 DEF Conflicts, Overlap, DiffNames
<1>4. ASSUME Ahead(merged) = 0 PROVE Overlap(merged) = {}
  <2>1. merged = Len(upstream)
    BY <1>1, <1>4 DEF Ahead
  <2> QED
    BY <1>2, <2>1 DEF Overlap, DiffNames
<1> QED
  BY <1>3, <1>4

-----------------------------------------------------------------------------
LEMMA GuardInitially == GuardInit => GuardInv
<1> SUFFICES ASSUME GuardInit PROVE GuardInv
  OBVIOUS
<1>1. PICK tree \in [TreePaths -> {Missing, 1}] :
        /\ upstream = <<tree>>
        /\ head = [tree |-> tree, sync |-> Unwritten, list |-> Unwritten]
  BY DEF GuardInit
<1>2. tree \in Trees
  BY DEF Missing, Trees
<1>3. /\ upstream \in Seq(Trees) /\ DOMAIN upstream = {1}
      /\ forked = <<>> /\ forked \in Seq(Trees)
  BY <1>1, <1>2 DEF GuardInit
<1>4. IsCopy(head, Revisions)
  BY <1>1, <1>2 DEF IsCopy
<1> QED
  BY <1>3, <1>4 DEF GuardInit, GuardInv

LEMMA MergedTrees ==
  ASSUME GuardInv, NEW base, NEW ours \in Trees, NEW theirs \in Trees,
         NEW tree \in Merges(base, ours, theirs)
  PROVE  tree \in Trees
<1>1. MergeMade \in Int
  <2>1. MaxHandEdits \in Nat
    BY GuardAssumption, Zenon
  <2>2. Len(upstream) \in Nat
    BY DEF GuardInv
  <2> QED
    BY <2>1, <2>2 DEF MergeMade
<1>2. \A p \in TreePaths : tree[p] \in {ours[p], theirs[p], MergeMade}
  BY DEF Merges
<1>3. \A p \in TreePaths : tree[p] \in Int
  BY <1>1, <1>2 DEF Trees
<1>4. DOMAIN tree = TreePaths /\ tree = [p \in DOMAIN tree |-> tree[p]]
  BY DEF Merges
<1> QED
  BY <1>3, <1>4 DEF Trees

\* Where neither history loses a commit, what is recorded of one stays so.
LEMMA CopiesStay ==
  ASSUME NEW copy, IsCopy(copy, Revisions), Revisions \subseteq Revisions'
  PROVE  IsCopy(copy, Revisions')
BY DEF IsCopy

LEMMA PublishKeeps == GuardInv /\ Publish => GuardInv'
<1> SUFFICES ASSUME GuardInv, Publish PROVE GuardInv'
  OBVIOUS
<1>1. PICK p \in TreePaths, new \in {Missing, Len(upstream) + 1} :
        upstream' = Append(upstream, [upstream[Len(upstream)] EXCEPT ![p] = new])
  BY DEF Publish
<1>2. /\ upstream \in Seq(Trees) /\ Len(upstream) \in Nat
      /\ merged \in 1..Len(upstream) /\ DOMAIN upstream = 1..Len(upstream)
  BY DEF GuardInv
<1>3. [upstream[Len(upstream)] EXCEPT ![p] = new] \in Trees
  <2>1. upstream[Len(upstream)] \in Trees /\ new \in Int
    BY <1>2 DEF Missing
  <2> QED
    BY <2>1 DEF Trees
<1>4. /\ upstream' \in Seq(Trees)
      /\ DOMAIN upstream \subseteq DOMAIN upstream'
  <2> DEFINE tree == [upstream[Len(upstream)] EXCEPT ![p] = new]
  <2> HIDE DEF tree
  <2>1. upstream' = Append(upstream, tree) /\ tree \in Trees
    BY <1>1, <1>3 DEF tree
  <2> QED
    BY <1>2, <2>1
<1>5. /\ UNCHANGED <<forked, merged, merging, head, worktree, handEdits>>
      /\ Revisions \subseteq Revisions'
  BY <1>4 DEF Publish, Revisions, OwnCommits
<1>6. IsCopy(head, Revisions') /\ IsCopy(worktree, Revisions')
  BY <1>5, CopiesStay DEF GuardInv
<1> QED
  BY <1>4, <1>5, <1>6 DEF GuardInv

LEMMA EditFileKeeps == GuardInv /\ EditFile => GuardInv'
<1> SUFFICES ASSUME GuardInv, EditFile PROVE GuardInv'
  OBVIOUS
<1>0. PICK p \in TreePaths :
        \E new \in {Missing, HandMade} \cup {TreeAt(n)[p] : n \in Ancestors} :
          worktree' = [worktree EXCEPT !.tree[p] = new]
  BY DEF EditFile
<1>1. PICK new \in {Missing, HandMade} \cup {TreeAt(n)[p] : n \in Ancestors} :
        worktree' = [worktree EXCEPT !.tree[p] = new]
  BY <1>0
<1>2. new \in Int
  <2>1. \A n \in Ancestors : TreeAt(n) \in Trees
    BY History
  <2>2. HandMade \in Int
    BY DEF HandMade, GuardInv
  <2> QED
    BY <2>1, <2>2 DEF Missing, Trees
<1>3. IsCopy(worktree', Revisions)
  <2>1. /\ worktree'.tree = [worktree.tree EXCEPT ![p] = new]
        /\ worktree'.sync = worktree.sync /\ worktree'.list = worktree.list
        /\ DOMAIN worktree' = DOMAIN worktree
    BY <1>1 DEF GuardInv, IsCopy
  <2> QED
    BY <1>2, <2>1 DEF GuardInv, IsCopy, Trees
<1>4. UNCHANGED <<upstream, forked, merged, merging, head>> /\ handEdits' \in Nat
  BY DEF EditFile, GuardInv
<1>5. Revisions' = Revisions
  BY <1>4 DEF Revisions, OwnCommits
<1> QED
  BY <1>3, <1>4, <1>5 DEF GuardInv

LEMMA EditListKeeps == GuardInv /\ EditList => GuardInv'
<1> SUFFICES ASSUME GuardInv, EditList PROVE GuardInv'
  OBVIOUS
<1> DEFINE list == IF worktree.list = Unwritten THEN <<>> ELSE worktree.list
<1>1. list \in Seq(AllowLines)
  BY DEF GuardInv, IsCopy
<1>0. UNCHANGED <<upstream, forked, merged, merging, head, Revisions>> /\ handEdits' \in Nat
  BY DEF EditList, GuardInv, Revisions, OwnCommits
<1>2. CASE \E p \in TreePaths \ Unreadable, reason \in {Real, Todo, NoReason} :
             worktree' = [worktree EXCEPT !.list = Append(list, Entry(p, reason))]
  <2> HIDE DEF list
  <2>1. PICK p \in TreePaths, reason \in {Real, Todo, NoReason} :
          worktree' = [worktree EXCEPT !.list = Append(list, Entry(p, reason))]
    BY <1>2
  <2>2. Append(list, Entry(p, reason)) \in Seq(AllowLines)
    <3>1. Entry(p, reason) \in AllowLines
      BY DEF Entry, AllowLines
    <3> QED
      BY <1>1, <3>1
  <2>3. IsCopy(worktree', Revisions)
    BY <2>1, <2>2 DEF GuardInv, IsCopy
  <2> QED
    BY <1>0, <2>3 DEF GuardInv
<1>3. CASE \E i \in DOMAIN list :
             /\ list[i].reason # Real
             /\ worktree' = [worktree EXCEPT !.list[i].reason = Real]
  <2>1. PICK i \in DOMAIN list : worktree' = [worktree EXCEPT !.list[i].reason = Real]
    BY <1>3
  <2>2. worktree.list = list
    BY <2>1
  <2> HIDE DEF list
  <2>3. /\ worktree'.list = [list EXCEPT ![i] = [list[i] EXCEPT !.reason = Real]]
        /\ worktree'.tree = worktree.tree /\ worktree'.sync = worktree.sync
        /\ DOMAIN worktree' = DOMAIN worktree
    BY <2>1, <2>2 DEF GuardInv, IsCopy
  <2>4. [list[i] EXCEPT !.reason = Real] \in AllowLines
    <3>1. list[i] \in AllowLines
      BY <1>1
    <3> QED
      BY <3>1 DEF AllowLines
  <2>5. worktree'.list \in Seq(AllowLines)
    <3> DEFINE line == [list[i] EXCEPT !.reason = Real]
    <3> HIDE DEF line
    <3>1. worktree'.list = [list EXCEPT ![i] = line] /\ line \in AllowLines
      BY <2>3, <2>4 DEF line
    <3> QED
      BY <1>1, <3>1
  <2>6. IsCopy(worktree', Revisions)
    BY <2>3, <2>5 DEF GuardInv, IsCopy
  <2> QED
    BY <1>0, <2>6 DEF GuardInv
<1> QED
  BY <1>2, <1>3 DEF EditList

LEMMA MergeKeeps == GuardInv /\ Merge => GuardInv'
<1> SUFFICES ASSUME GuardInv, Merge PROVE GuardInv'
  OBVIOUS
<1>1. PICK tree \in Merges(upstream[merged], head.tree, upstream[Len(upstream)]) :
        worktree' = [worktree EXCEPT !.tree = tree]
  BY DEF Merge
<1>2. /\ Len(upstream) \in Nat /\ merged \in Nat /\ merged < Len(upstream)
      /\ DOMAIN upstream = 1..Len(upstream) /\ head.tree \in Trees
  BY DEF Merge, GuardInv, IsCopy
<1>3. upstream[Len(upstream)] \in Trees
  BY <1>2 DEF GuardInv
<1>4. tree \in Trees
  BY <1>2, <1>3, MergedTrees
<1>5. IsCopy(worktree', Revisions)
  BY <1>1, <1>4 DEF GuardInv, IsCopy
<1>6. /\ UNCHANGED <<upstream, forked, merged, head, handEdits, Revisions>>
      /\ merging' = Len(upstream)
  BY DEF Merge, Revisions, OwnCommits
<1>7. merging' \in DOMAIN upstream /\ merged < merging'
  BY <1>2, <1>6
<1> QED
  BY <1>5, <1>6, <1>7 DEF GuardInv

LEMMA CommitKeeps == GuardInv /\ Commit => GuardInv'
<1> SUFFICES ASSUME GuardInv, Commit PROVE GuardInv'
  OBVIOUS
<1>1. /\ forked' = Append(forked, worktree.tree) /\ head' = worktree /\ merging' = 0
      /\ merged' = (IF merging = 0 THEN merged ELSE merging)
      /\ UNCHANGED <<upstream, worktree, handEdits>>
  BY DEF Commit
<1>2. worktree.tree \in Trees /\ forked \in Seq(Trees)
  BY DEF GuardInv, IsCopy
<1>3. forked' \in Seq(Trees) /\ DOMAIN forked \subseteq DOMAIN forked'
  <2> DEFINE tree == worktree.tree
  <2>1. forked' = Append(forked, tree) /\ tree \in Trees
    BY <1>1, <1>2
  <2> HIDE DEF tree
  <2> QED
    BY <1>2, <2>1
<1>4. Revisions \subseteq Revisions'
  BY <1>1, <1>3 DEF Revisions, OwnCommits
<1>5. IsCopy(worktree, Revisions')
  BY <1>4, CopiesStay DEF GuardInv
<1>6. merged' \in DOMAIN upstream
  BY <1>1 DEF GuardInv
<1> QED
  BY <1>1, <1>3, <1>5, <1>6 DEF GuardInv

LEMMA OthersKeep ==
  GuardInv /\ (AbortMerge \/ RecordSyncPoint \/ Regenerate) => GuardInv'
<1> SUFFICES ASSUME GuardInv
             PROVE  AbortMerge \/ RecordSyncPoint \/ Regenerate => GuardInv'
  OBVIOUS
<1>1. UNCHANGED <<upstream, forked>> => UNCHANGED Revisions
  BY DEF Revisions, OwnCommits
<1>2. CASE AbortMerge
  BY <1>1, <1>2 DEF AbortMerge, GuardInv
<1>3. CASE RecordSyncPoint
  <2>1. PICK rev \in Revisions : worktree' = [worktree EXCEPT !.sync = rev]
    BY <1>3 DEF RecordSyncPoint
  <2>2. IsCopy(worktree', Revisions)
    BY <2>1 DEF GuardInv, IsCopy
  <2> QED
    BY <1>1, <1>3, <2>2 DEF RecordSyncPoint, GuardInv
<1>4. CASE Regenerate
  <2>1. PICK rev : worktree' = [worktree EXCEPT !.list = Regenerated(worktree, rev)]
    BY <1>4 DEF Regenerate
  <2>2. Regenerated(worktree, rev) \in Seq(AllowLines)
    BY NewLinesAreWritten DEF GuardInv
  <2>3. IsCopy(worktree', Revisions)
    BY <2>1, <2>2 DEF GuardInv, IsCopy
  <2> QED
    BY <1>1, <1>4, <2>3 DEF Regenerate, GuardInv
<1> QED
  BY <1>2, <1>3, <1>4

LEMMA GuardGoesOn == GuardInv /\ [GuardNext]_guardVars => GuardInv'
<1>1. GuardInv /\ UNCHANGED guardVars => GuardInv'
  BY DEF GuardInv, guardVars, Revisions, OwnCommits
<1> QED
  BY <1>1, PublishKeeps, EditFileKeeps, EditListKeeps, CommitKeeps, MergeKeeps, OthersKeep
     DEF GuardNext

(***************************************************************************)
(* Whatever upstream and the fork do: a pass is explained, here and on the *)
(* build machine, regenerating settles the list, and the report before a   *)
(* merge misses no conflict (runGuard, regenerate, upstream-drift.ts).     *)
(***************************************************************************)
THEOREM GuardsHold == GuardSpec => []GuardHolds
<1>1. GuardInv => GuardHolds
  BY PassesExplain, ClonesAgree, ListsSettle, ConflictsShow DEF GuardHolds
<1> QED
  BY <1>1, GuardInitially, GuardGoesOn, PTL DEF GuardSpec

-----------------------------------------------------------------------------
\* The first of a sequence that is in a set is in both.
LEMMA FirstIsThere ==
  ASSUME NEW T, NEW seq \in Seq(T), NEW S
  PROVE  /\ Range(seq) \cap S = {} => FirstOf(seq, S) = None
         /\ Range(seq) \cap S # {} => FirstOf(seq, S) \in Range(seq) \cap S
<1> DEFINE at == {i \in DOMAIN seq : seq[i] \in S}
<1>1. Range(seq) \cap S = {} <=> at = {}
  BY DEF Range
<1>2. at # {} => (CHOOSE i \in at : \A j \in at : i <= j) \in at
  <2>1. at \in SUBSET Nat
    OBVIOUS
  <2> HIDE DEF at
  <2>2. at # {} => \E i \in at : \A j \in at : i <= j
    BY <2>1, SmallestMember
  <2> QED
    BY <2>2
<1>3. \A i \in at : seq[i] \in Range(seq) \cap S
  BY DEF Range
<1>4. FirstOf(seq, S) = IF at = {} THEN None
                        ELSE seq[CHOOSE i \in at : \A j \in at : i <= j]
  BY DEF FirstOf
<1> HIDE DEF at
<1> QED
  BY <1>1, <1>2, <1>3, <1>4

\* A bounded set of numbers has a largest one.
LEMMA LargestMember ==
  ASSUME NEW n \in Nat, NEW S \in SUBSET (1..n), S # {}
  PROVE  \E m \in S : \A k \in S : k <= m
<1> DEFINE R == {n - k : k \in S}
<1>1. R \in SUBSET Nat /\ R # {}
  <2>1. \A k \in S : k \in 1..n
    OBVIOUS
  <2>2. \A k \in S : n - k \in Nat
    BY <2>1
  <2> QED
    BY <2>2
<1>2. PICK r \in R : \A q \in R : r <= q
  <2> HIDE DEF R
  <2> QED
    BY <1>1, SmallestMember
<1>3. PICK m \in S : r = n - m
  OBVIOUS
<1>4. ASSUME NEW k \in S PROVE k <= m
  <2>1. n - m <= n - k
    BY <1>2, <1>3
  <2>2. k \in 1..n /\ m \in 1..n
    OBVIOUS
  <2> QED
    BY <2>1, <2>2
<1> QED
  BY <1>4

-----------------------------------------------------------------------------
\* Of more numbers than there are names taken, one gives a name that is free.
LEMMA FreshIsNew ==
  ASSUME NEW name \in Names, NEW used, IsFiniteSet(used)
  PROVE  Fresh(name, used) \in Names /\ Fresh(name, used) \notin used
<1> DEFINE Part == DOMAIN Slug \cup Range(Slug) \cup Nat
           Bound == Cardinality(used) + 1
           Taken(n) == Append(name, n) \in used
           Free == {n \in 1..Bound : ~Taken(n)}
           Least(n) == ~Taken(n) /\ \A m \in 1..(n - 1) : Taken(m)
<1>1. Bound \in Nat /\ Cardinality(used) \in Nat
  BY FS_CardinalityType
<1>2. \A n \in 1..Bound : Append(name, n) \in Names
  <2>1. name \in Seq(Part)
    BY DEF Names
  <2>2. 1..Bound \in SUBSET Part
    BY <1>1
  <2> HIDE DEF Part, Bound
  <2> QED
    BY <2>1, <2>2 DEF Names, Part
<1>3. Free # {}
  <2> SUFFICES ASSUME Free = {} PROVE FALSE
    OBVIOUS
  <2> DEFINE g == [n \in 1..Bound |-> Append(name, n)]
  <2>1. g \in [1..Bound -> used]
    OBVIOUS
  <2>2. \A n, m \in 1..Bound : g[n] = g[m] => n = m
    <3> SUFFICES ASSUME NEW n \in 1..Bound, NEW m \in 1..Bound,
                        Append(name, n) = Append(name, m)
                 PROVE  n = m
      OBVIOUS
    <3>1. name \in Seq(Part) /\ n \in Part /\ m \in Part
      BY <1>1 DEF Names
    <3> HIDE DEF Part, Bound
    <3>2. /\ Append(name, n)[Len(name) + 1] = n
          /\ Append(name, m)[Len(name) + 1] = m
      BY <3>1
    <3> QED
      BY <3>2
  <2>3. g \in Injection(1..Bound, used)
    BY <2>1, <2>2 DEF Injection, IsInjective
  <2>4. IsFiniteSet(1..Bound) /\ Cardinality(1..Bound) = Bound
    BY <1>1, FS_Interval
  <2> HIDE DEF g, Free
  <2>5. Cardinality(1..Bound) <= Cardinality(used)
    BY <2>3, <2>4, FS_Injection
  <2> QED
    BY <1>1, <2>4, <2>5
<1>4. \E n \in 1..Bound : Least(n)
  <2>1. Free \in SUBSET Nat
    OBVIOUS
  <2>2. PICK n \in Free : \A m \in Free : n <= m
    <3> HIDE DEF Free
    <3> QED
      BY <1>3, <2>1, SmallestMember
  <2>3. \A m \in 1..(n - 1) : m \in 1..Bound /\ ~(n <= m)
    BY <1>1
  <2>4. \A m \in 1..(n - 1) : Taken(m)
    BY <2>2, <2>3
  <2> QED
    BY <2>2, <2>4
<1> DEFINE c == CHOOSE n \in 1..Bound : Least(n)
<1>5. c \in 1..Bound /\ Least(c)
  <2> HIDE DEF Bound, Least
  <2> QED
    BY <1>4
<1>6. Fresh(name, used) = IF name \notin used THEN name ELSE Append(name, c)
  BY DEF Fresh
<1> HIDE DEF c, Bound
<1> QED
  BY <1>2, <1>5, <1>6
-----------------------------------------------------------------------------
(***************************************************************************)
(* The sections of a document: no two have the same literal headings, no   *)
(* two the same anchor, and what stands above a section is one of them.    *)
(***************************************************************************)
Anchor(s) == Last(s.levels).slug

Typed(file, found) ==
  /\ found \in Seq(Sections)
  /\ \A i \in DOMAIN found : found[i].file = file /\ found[i].levels # <<>>

IdsDiffer(found) ==
  \A i, j \in DOMAIN found : Heads(found[i]) = Heads(found[j]) => i = j

AnchorsDiffer(found) ==
  \A i, j \in DOMAIN found : Anchor(found[i]) = Anchor(found[j]) => i = j

ParentsAreThere(found) ==
  \A i \in DOMAIN found :
    \/ Front(found[i].levels) = <<>>
    \/ \E j \in DOMAIN found : found[j].levels = Front(found[i].levels)

WellFormed(file, found) ==
  Typed(file, found) /\ IdsDiffer(found) /\ AnchorsDiffer(found) /\ ParentsAreThere(found)

LevelSet == [literal : Names, slug : Names]

\* The headings of a text are names, and so is its slug.
LEMMA TextsAreNames ==
  ASSUME NEW text \in Texts
  PROVE  text \in Names /\ SlugOf(text) \in Names
<1> DEFINE Part == DOMAIN Slug \cup Range(Slug) \cup Nat
<1>1. /\ text[1] \in DOMAIN Slug /\ Tail(text) \in Seq(Nat)
      /\ text = <<text[1]>> \o Tail(text)
  BY VaultAssumption
<1>2. Tail(text) \in Seq(Part)
  BY <1>1
<1>3. text[1] \in Part /\ Slug[text[1]] \in Part
  BY <1>1 DEF Range
<1>4. <<text[1]>> \in Seq(Part) /\ <<Slug[text[1]]>> \in Seq(Part)
  BY <1>3
<1>5. \A a, b \in Seq(Part) : a \o b \in Seq(Part)
  OBVIOUS
<1> HIDE DEF Part
<1>6. text \in Seq(Part) /\ SlugOf(text) \in Seq(Part)
  <2>1. <<text[1]>> \o Tail(text) \in Seq(Part)
    BY <1>2, <1>4, <1>5
  <2>2. <<Slug[text[1]]>> \o Tail(text) \in Seq(Part)
    BY <1>2, <1>4, <1>5
  <2> QED
    BY <1>1, <2>1, <2>2 DEF SlugOf
<1> QED
  BY <1>6 DEF Part, Names

\* What a level under others has: its own text last, theirs before it.
LEMMA LevelsAppended ==
  ASSUME NEW prefix \in Seq(LevelSet), NEW level \in LevelSet
  PROVE  LET levels == Append(prefix, level)
         IN  /\ levels \in Seq(LevelSet) /\ levels # <<>>
             /\ Last(levels) = level /\ Front(levels) = prefix
<1> DEFINE levels == Append(prefix, level)
<1>1. /\ levels \in Seq(LevelSet) /\ Len(levels) = Len(prefix) + 1
      /\ levels[Len(prefix) + 1] = level
      /\ \A i \in 1..Len(prefix) : levels[i] = prefix[i]
  OBVIOUS
<1>2. levels # <<>> /\ Last(levels) = level
  BY <1>1 DEF Last
<1>3. Front(levels) = prefix
  <2>1. Front(levels) = SubSeq(levels, 1, Len(prefix))
    BY <1>1 DEF Front
  <2>2. /\ SubSeq(levels, 1, Len(prefix)) \in Seq(LevelSet)
        /\ Len(SubSeq(levels, 1, Len(prefix))) = Len(prefix)
        /\ \A i \in 1..Len(prefix) : SubSeq(levels, 1, Len(prefix))[i] = levels[i]
    <3> HIDE DEF levels
    <3>1. Len(prefix) \in Nat /\ Len(prefix) <= Len(levels)
      BY <1>1
    <3> QED
      BY <1>1, <3>1, SubSeqProperties
  <2> QED
    BY <1>1, <2>1, <2>2
<1> QED
  BY <1>1, <1>2, <1>3

LiteralsOf(levels) == [i \in DOMAIN levels |-> levels[i].literal]

LEMMA HeadsAreLiterals ==
  ASSUME NEW s
  PROVE  Heads(s) = LiteralsOf(s.levels)
BY DEF Heads, Id, LiteralsOf

\* Levels of one literal path have one under the last, and one last.
LEMMA SameLiterals ==
  ASSUME NEW a \in Seq(LevelSet), NEW b \in Seq(LevelSet), a # <<>>, b # <<>>,
         LiteralsOf(a) = LiteralsOf(b)
  PROVE  /\ Last(a).literal = Last(b).literal
         /\ LiteralsOf(Front(a)) = LiteralsOf(Front(b))
         /\ Front(a) = <<>> <=> Front(b) = <<>>
<1>1. DOMAIN a = DOMAIN b /\ \A i \in DOMAIN a : a[i].literal = b[i].literal
  BY DEF LiteralsOf
<1>2. Len(a) = Len(b) /\ Len(a) \in DOMAIN a /\ Len(a) \in Nat
  BY <1>1
<1>3. Last(a).literal = Last(b).literal
  BY <1>1, <1>2 DEF Last
<1> DEFINE n == Len(a) - 1
<1>4. n \in Nat /\ \A i \in 1..n : i \in DOMAIN a /\ i \in DOMAIN b
  BY <1>2
<1>5. /\ Front(a) \in Seq(LevelSet) /\ Len(Front(a)) = n
      /\ \A i \in 1..n : Front(a)[i] = a[i]
  <2>1. Front(a) = SubSeq(a, 1, n)
    BY DEF Front
  <2>2. \A i \in 1..n : a[i] \in LevelSet
    BY <1>4
  <2> HIDE DEF n
  <2> QED
    BY <1>4, <2>1, <2>2, SubSeqProperties
<1>6. /\ Front(b) \in Seq(LevelSet) /\ Len(Front(b)) = n
      /\ \A i \in 1..n : Front(b)[i] = b[i]
  <2>1. Front(b) = SubSeq(b, 1, n)
    BY <1>2 DEF Front
  <2>2. \A i \in 1..n : b[i] \in LevelSet
    BY <1>4
  <2> HIDE DEF n
  <2> QED
    BY <1>4, <2>1, <2>2, SubSeqProperties
<1> HIDE DEF n
<1>7. LiteralsOf(Front(a)) = LiteralsOf(Front(b))
  <2>1. DOMAIN Front(a) = 1..n /\ DOMAIN Front(b) = 1..n
    BY <1>4, <1>5, <1>6
  <2>2. \A i \in 1..n : Front(a)[i].literal = Front(b)[i].literal
    BY <1>1, <1>4, <1>5, <1>6
  <2> QED
    BY <2>1, <2>2 DEF LiteralsOf
<1>8. Front(a) = <<>> <=> Front(b) = <<>>
  BY <1>4, <1>5, <1>6
<1> QED
  BY <1>3, <1>7, <1>8

\* What is taken in a document is finite.
LEMMA TakenIsFinite ==
  ASSUME NEW found \in Seq(Sections), NEW S \in SUBSET Range(found)
  PROVE  /\ IsFiniteSet({Last(s.levels).literal : s \in S})
         /\ IsFiniteSet({Last(s.levels).slug : s \in S})
<1>1. IsFiniteSet(DOMAIN found)
  <2>1. Len(found) \in Nat /\ DOMAIN found = 1..Len(found)
    OBVIOUS
  <2> QED
    BY <2>1, FS_Interval
<1>2. IsFiniteSet({Last(found[i].levels).literal : i \in DOMAIN found})
  <2> DEFINE g == [i \in DOMAIN found |-> Last(found[i].levels).literal]
             R == {Last(found[i].levels).literal : i \in DOMAIN found}
  <2>1. g \in Surjection(DOMAIN found, R)
    BY DEF Surjection
  <2> HIDE DEF g, R
  <2>2. IsFiniteSet(R)
    BY <1>1, <2>1, FS_Surjection
  <2> QED
    BY <2>2 DEF R
<1>3. IsFiniteSet({Last(found[i].levels).slug : i \in DOMAIN found})
  <2> DEFINE g == [i \in DOMAIN found |-> Last(found[i].levels).slug]
             R == {Last(found[i].levels).slug : i \in DOMAIN found}
  <2>1. g \in Surjection(DOMAIN found, R)
    BY DEF Surjection
  <2> HIDE DEF g, R
  <2>2. IsFiniteSet(R)
    BY <1>1, <2>1, FS_Surjection
  <2> QED
    BY <2>2 DEF R
<1>4. {Last(s.levels).literal : s \in S}
        \in SUBSET {Last(found[i].levels).literal : i \in DOMAIN found}
  BY DEF Range
<1>5. {Last(s.levels).slug : s \in S}
        \in SUBSET {Last(found[i].levels).slug : i \in DOMAIN found}
  BY DEF Range
<1> QED
  BY <1>2, <1>3, <1>4, <1>5, FS_Subset

\* A heading that is added has an id and an anchor of its own.
LEMMA AddedIsWellFormed ==
  ASSUME NEW file \in Paths, NEW found, WellFormed(file, found),
         NEW heading \in AnyHeading
  PROVE  /\ WellFormed(file, AddSection(found, file, heading))
         /\ AddSection(found, file, heading) # <<>>
<1> DEFINE above == {i \in DOMAIN found : found[i].depth < heading.depth}
           prefix == IF above = {} THEN <<>>
                     ELSE found[CHOOSE i \in above : \A j \in above : j <= i].levels
           siblings == {s \in Range(found) : Front(s.levels) = prefix}
           literals == {Last(s.levels).literal : s \in siblings}
           slugs == {Last(s.levels).slug : s \in Range(found)}
           level == [literal |-> Fresh(heading.text, literals),
                     slug |-> Fresh(SlugOf(heading.text), slugs)]
           new == [file |-> file, depth |-> heading.depth, levels |-> Append(prefix, level)]
<1>1. AddSection(found, file, heading) = Append(found, new)
  BY DEF AddSection
<1>2. found \in Seq(Sections) /\ Len(found) \in Nat /\ DOMAIN found = 1..Len(found)
  BY DEF WellFormed, Typed
<1>3. \A i \in DOMAIN found :
        /\ found[i] \in Sections /\ found[i].file = file
        /\ found[i].levels \in Seq(LevelSet) /\ found[i].levels # <<>>
  <2>1. \A i \in DOMAIN found : found[i] \in Sections
    BY <1>2
  <2> QED
    BY <2>1 DEF WellFormed, Typed, Sections, LevelSet
<1>4. \/ prefix = <<>>
      \/ \E j \in DOMAIN found : found[j].levels = prefix
  <2>1. CASE above = {}
    BY <2>1
  <2>2. CASE above # {}
    <3>1. above \in SUBSET (1..Len(found))
      BY <1>2
    <3>2. \E m \in above : \A k \in above : k <= m
      <4> HIDE DEF above
      <4> QED
        BY <1>2, <2>2, <3>1, LargestMember
    <3> DEFINE c == CHOOSE i \in above : \A j \in above : j <= i
    <3>3. c \in above
      <4> HIDE DEF above, prefix
      <4> QED
        BY <3>2, Zenon
    <3>4. prefix = found[c].levels
      BY <2>2
    <3> HIDE DEF c, prefix
    <3> QED
      BY <3>3, <3>4
  <2> QED
    BY <2>1, <2>2
<1> HIDE DEF above, prefix
<1>5. prefix \in Seq(LevelSet)
  <2>1. <<>> \in Seq(LevelSet)
    OBVIOUS
  <2> QED
    BY <1>3, <1>4, <2>1, Zenon
<1>6. IsFiniteSet(literals) /\ IsFiniteSet(slugs)
  <2>1. siblings \in SUBSET Range(found) /\ Range(found) \in SUBSET Range(found)
    OBVIOUS
  <2> HIDE DEF siblings
  <2> QED
    BY <1>2, <2>1, TakenIsFinite
<1>7. level \in LevelSet /\ level.literal \notin literals /\ level.slug \notin slugs
  <2>1. heading.text \in Texts
    BY DEF AnyHeading
  <2>2. heading.text \in Names /\ SlugOf(heading.text) \in Names
    BY <2>1, TextsAreNames
  <2> HIDE DEF literals, slugs
  <2>3. /\ Fresh(heading.text, literals) \in Names
        /\ Fresh(heading.text, literals) \notin literals
    BY <1>6, <2>2, FreshIsNew
  <2>4. /\ Fresh(SlugOf(heading.text), slugs) \in Names
        /\ Fresh(SlugOf(heading.text), slugs) \notin slugs
    BY <1>6, <2>2, FreshIsNew
  <2> QED
    BY <2>3, <2>4 DEF LevelSet
<1> HIDE DEF level
<1>8. /\ new.levels \in Seq(LevelSet) /\ new.levels # <<>>
      /\ Last(new.levels) = level /\ Front(new.levels) = prefix
  <2>1. new.levels = Append(prefix, level)
    OBVIOUS
  <2> QED
    BY <1>5, <1>7, <2>1, LevelsAppended
<1>9. new \in Sections /\ new.file = file
  <2>1. heading.depth \in 1..2
    BY DEF AnyHeading
  <2> QED
    BY <1>8, <2>1 DEF Sections, LevelSet
<1> HIDE DEF new
<1>10. ASSUME NEW i \in DOMAIN found PROVE Heads(found[i]) # Heads(new)
  <2> SUFFICES ASSUME Heads(found[i]) = Heads(new) PROVE FALSE
    OBVIOUS
  <2>1. LiteralsOf(found[i].levels) = LiteralsOf(new.levels)
    BY HeadsAreLiterals
  <2>2. /\ Last(found[i].levels).literal = level.literal
        /\ LiteralsOf(Front(found[i].levels)) = LiteralsOf(prefix)
        /\ Front(found[i].levels) = <<>> <=> prefix = <<>>
    BY <1>3, <1>8, <2>1, SameLiterals
  <2>3. Front(found[i].levels) = prefix
    <3>1. CASE prefix = <<>>
      BY <2>2, <3>1
    <3>2. CASE prefix # <<>>
      <4>1. PICK j \in DOMAIN found : found[j].levels = prefix
        BY <1>4, <3>2
      <4>2. PICK k \in DOMAIN found : found[k].levels = Front(found[i].levels)
        BY <2>2, <3>2 DEF WellFormed, ParentsAreThere
      <4>3. Heads(found[k]) = Heads(found[j])
        BY <2>2, <4>1, <4>2, HeadsAreLiterals
      <4>4. k = j
        BY <4>3 DEF WellFormed, IdsDiffer
      <4> QED
        BY <4>1, <4>2, <4>4
    <3> QED
      BY <3>1, <3>2
  <2>4. found[i] \in siblings
    BY <2>3 DEF Range
  <2>5. Last(found[i].levels).literal \in literals
    BY <2>4
  <2> HIDE DEF literals
  <2> QED
    BY <1>7, <2>2, <2>5
<1>11. ASSUME NEW i \in DOMAIN found PROVE Anchor(found[i]) # Anchor(new)
  <2>1. Anchor(found[i]) \in slugs
    <3>1. found[i] \in Range(found)
      BY DEF Range
    <3> QED
      BY <3>1 DEF Anchor
  <2>2. Anchor(new) = level.slug
    BY <1>8 DEF Anchor
  <2> HIDE DEF slugs
  <2> QED
    BY <1>7, <2>1, <2>2
<1> DEFINE more == Append(found, new)
<1>12. /\ more \in Seq(Sections) /\ more # <<>>
       /\ DOMAIN more = DOMAIN found \cup {Len(found) + 1}
       /\ more[Len(found) + 1] = new
       /\ \A i \in DOMAIN found : more[i] = found[i]
  BY <1>2, <1>9
<1> HIDE DEF more
<1>13. Typed(file, more)
  BY <1>3, <1>8, <1>9, <1>12 DEF Typed
<1>14. IdsDiffer(more)
  BY <1>10, <1>12 DEF IdsDiffer, WellFormed
<1>15. AnchorsDiffer(more)
  BY <1>11, <1>12 DEF AnchorsDiffer, WellFormed
<1>16. ParentsAreThere(more)
  <2>1. Front(new.levels) = <<>> \/ \E j \in DOMAIN more : more[j].levels = Front(new.levels)
    BY <1>4, <1>8, <1>12
  <2>2. \A i \in DOMAIN found :
          \/ Front(found[i].levels) = <<>>
          \/ \E j \in DOMAIN more : more[j].levels = Front(found[i].levels)
    BY <1>12 DEF ParentsAreThere, WellFormed
  <2> QED
    BY <1>12, <2>1, <2>2 DEF ParentsAreThere
<1> QED
  BY <1>1, <1>12, <1>13, <1>14, <1>15, <1>16 DEF WellFormed, more

\* Parse, one heading after another.
ParseStep(file, headings, f, i) ==
  IF i = 0 THEN <<>> ELSE AddSection(f[i - 1], file, headings[i])

\* There is such a function, so Parse's is one.
LEMMA ParseIsDefined ==
  ASSUME NEW file, NEW headings, NEW N \in Nat
  PROVE  \E f : f = [i \in 0..N |-> ParseStep(file, headings, f, i)]
<1> DEFINE S == {n \in 0..N : \E f : f = [i \in 0..n |-> ParseStep(file, headings, f, i)]}
<1>1. 0 \in S
  <2> DEFINE f == [i \in 0..0 |-> <<>>]
  <2>1. f = [i \in 0..0 |-> ParseStep(file, headings, f, i)]
    <3>1. \A i \in 0..0 : ParseStep(file, headings, f, i) = <<>>
      BY DEF ParseStep
    <3> QED
      BY <3>1
  <2> HIDE DEF f
  <2> QED
    BY <2>1
<1>2. ASSUME NEW n \in 1..N, n - 1 \in S PROVE n \in S
  <2>1. PICK f : f = [i \in 0..(n - 1) |-> ParseStep(file, headings, f, i)]
    BY <1>2
  <2> DEFINE g == [i \in 0..n |-> IF i = n THEN AddSection(f[n - 1], file, headings[n])
                                  ELSE f[i]]
  <2>2. ASSUME NEW i \in 0..n PROVE g[i] = ParseStep(file, headings, g, i)
    <3>1. CASE i = n
      <4>1. n - 1 \in 0..n /\ n - 1 # n /\ n # 0
        OBVIOUS
      <4>2. g[i] = AddSection(f[n - 1], file, headings[n]) /\ g[n - 1] = f[n - 1]
        BY <3>1, <4>1
      <4> HIDE DEF g
      <4> QED
        BY <3>1, <4>1, <4>2 DEF ParseStep
    <3>2. CASE i # n
      <4>1. i \in 0..(n - 1)
        BY <3>2
      <4>2. g[i] = f[i] /\ f[i] = ParseStep(file, headings, f, i)
        BY <2>1, <3>2, <4>1
      <4>3. i # 0 => g[i - 1] = f[i - 1]
        BY <4>1
      <4> HIDE DEF g
      <4> QED
        BY <4>2, <4>3 DEF ParseStep
    <3> QED
      BY <3>1, <3>2
  <2>3. g = [i \in 0..n |-> ParseStep(file, headings, g, i)]
    BY <2>2
  <2> HIDE DEF g
  <2> QED
    BY <2>3
<1>3. \A n \in 0..N : n \in S
  <2> HIDE DEF S
  <2> QED
    BY <1>1, <1>2, OneAfterAnother
<1>4. N \in S
  <2>1. N \in 0..N
    OBVIOUS
  <2> HIDE DEF S
  <2> QED
    BY <1>3, <2>1
<1> QED
  BY <1>4

LEMMA ParsedIsWellFormed ==
  ASSUME NEW file \in Paths, NEW headings \in Seq(AnyHeading)
  PROVE  /\ WellFormed(file, Parse(file, headings))
         /\ headings = <<>> <=> Parse(file, headings) = <<>>
<1> DEFINE N == Len(headings)
           upto == CHOOSE f : f = [i \in 0..N |-> ParseStep(file, headings, f, i)]
<1>1. N \in Nat /\ \A i \in 1..N : headings[i] \in AnyHeading
  OBVIOUS
<1>2. Parse(file, headings) = upto[N]
  BY DEF Parse, ParseStep
<1> HIDE DEF N
<1>3. upto = [i \in 0..N |-> ParseStep(file, headings, upto, i)]
  BY <1>1, ParseIsDefined
<1> HIDE DEF upto
<1> DEFINE S == {i \in 0..N : WellFormed(file, upto[i]) /\ (i = 0 <=> upto[i] = <<>>)}
<1>4. 0 \in S
  <2>1. 0 \in 0..N /\ ParseStep(file, headings, upto, 0) = <<>>
    BY <1>1 DEF ParseStep
  <2>2. upto[0] = <<>>
    BY <1>3, <2>1
  <2>3. WellFormed(file, <<>>)
    BY DEF WellFormed, Typed, IdsDiffer, AnchorsDiffer, ParentsAreThere
  <2> QED
    BY <2>1, <2>2, <2>3
<1>5. ASSUME NEW i \in 1..N, i - 1 \in S PROVE i \in S
  <2>1. i \in 0..N /\ i # 0 /\ ParseStep(file, headings, upto, i) =
                                 AddSection(upto[i - 1], file, headings[i])
    BY <1>1 DEF ParseStep
  <2>2. upto[i] = AddSection(upto[i - 1], file, headings[i])
    BY <1>3, <2>1
  <2>3. WellFormed(file, upto[i - 1])
    BY <1>5
  <2>4. WellFormed(file, upto[i]) /\ upto[i] # <<>>
    BY <1>1, <2>2, <2>3, AddedIsWellFormed
  <2> QED
    BY <2>1, <2>4
<1>6. \A i \in 0..N : i \in S
  <2> HIDE DEF S
  <2> QED
    BY <1>1, <1>4, <1>5, OneAfterAnother
<1>7. N \in S
  <2>1. N \in 0..N
    BY <1>1
  <2> HIDE DEF S
  <2> QED
    BY <1>6, <2>1
<1>8. headings = <<>> <=> N = 0
  BY DEF N
<1> QED
  BY <1>2, <1>7, <1>8

-----------------------------------------------------------------------------
(***************************************************************************)
(* The inductive invariant: what was analysed of each document is well     *)
(* formed, and only of a document that has headings there is anything.     *)
(***************************************************************************)
Analysed(vault) ==
  /\ vault \in [Paths -> Seq(Sections)]
  /\ \A p \in Paths : WellFormed(p, vault[p])

VaultInv ==
  /\ docs \in [Paths -> Seq(AnyHeading)]
  /\ Analysed(analysis)
  /\ \A p \in Paths : docs[p] = <<>> <=> analysis[p] = <<>>

LEMMA VaultStarts == Init => VaultInv
<1> SUFFICES ASSUME Init PROVE VaultInv
  OBVIOUS
<1>1. \A p \in Paths : WellFormed(p, <<>>)
  BY DEF WellFormed, Typed, IdsDiffer, AnchorsDiffer, ParentsAreThere
<1>2. /\ docs = [p \in Paths |-> <<>>] /\ docs \in [Paths -> Seq(AnyHeading)]
      /\ analysis = [p \in Paths |-> <<>>] /\ analysis \in [Paths -> Seq(Sections)]
  BY DEF Init
<1> QED
  BY <1>1, <1>2 DEF VaultInv, Analysed

LEMMA SaveKeepsVault ==
  ASSUME VaultInv, NEW p \in Paths, NEW headings \in Seq(AnyHeading), Save(p, headings)
  PROVE  VaultInv'
<1> DEFINE found == Parse(p, headings)
<1>1. WellFormed(p, found) /\ (headings = <<>> <=> found = <<>>)
  BY ParsedIsWellFormed
<1>2. found \in Seq(Sections)
  BY <1>1 DEF WellFormed, Typed
<1>3. /\ docs' = [docs EXCEPT ![p] = headings]
      /\ analysis' = [analysis EXCEPT ![p] = found]
  BY DEF Save
<1> HIDE DEF found
<1>4. /\ docs' \in [Paths -> Seq(AnyHeading)] /\ analysis' \in [Paths -> Seq(Sections)]
      /\ docs'[p] = headings /\ analysis'[p] = found
      /\ \A q \in Paths \ {p} : docs'[q] = docs[q] /\ analysis'[q] = analysis[q]
  BY <1>2, <1>3 DEF VaultInv, Analysed
<1>5. \A q \in Paths : WellFormed(q, analysis'[q]) /\ (docs'[q] = <<>> <=> analysis'[q] = <<>>)
  BY <1>1, <1>4 DEF VaultInv, Analysed
<1> QED
  BY <1>4, <1>5 DEF VaultInv, Analysed

LEMMA VaultGoesOn == VaultInv /\ [Next]_vars => VaultInv'
<1> SUFFICES ASSUME VaultInv, [Next]_vars PROVE VaultInv'
  OBVIOUS
<1>1. ASSUME NEW p \in Paths, CreateDocument(p) PROVE VaultInv'
  <2>1. PICK h \in AnyHeading : Save(p, <<h>>)
    BY <1>1 DEF CreateDocument
  <2>2. <<h>> \in Seq(AnyHeading)
    OBVIOUS
  <2> QED
    BY <2>1, <2>2, SaveKeepsVault
<1>2. ASSUME NEW p \in Paths, AddHeading(p) PROVE VaultInv'
  <2>1. PICK h \in AnyHeading : Save(p, Append(docs[p], h))
    BY <1>2 DEF AddHeading
  <2>2. docs[p] \in Seq(AnyHeading)
    BY DEF VaultInv
  <2>3. Append(docs[p], h) \in Seq(AnyHeading)
    BY <2>2
  <2> QED
    BY <2>1, <2>3, SaveKeepsVault
<1>3. ASSUME NEW p \in Paths, DeleteDocument(p) PROVE VaultInv'
  <2>1. Save(p, <<>>) /\ <<>> \in Seq(AnyHeading)
    BY <1>3 DEF DeleteDocument
  <2> QED
    BY <2>1, SaveKeepsVault
<1>4. CASE UNCHANGED vars
  <2>1. docs' = docs /\ analysis' = analysis
    BY <1>4 DEF vars
  <2> QED
    BY <2>1 DEF VaultInv
<1> QED
  BY <1>1, <1>2, <1>3, <1>4 DEF Next

LEMMA VaultIsAnalysed == Spec => []VaultInv
BY VaultStarts, VaultGoesOn, PTL DEF Spec

-----------------------------------------------------------------------------
(* What resolution finds in a vault that is analysed.                      *)

LEMMA SectionFacts ==
  ASSUME NEW vault, Analysed(vault), NEW file
  PROVE  /\ SectionsOf(vault, file) \in Seq(Sections)
         /\ file \notin Paths => SectionsIn(vault, file) = {}
         /\ \A s \in SectionsIn(vault, file) :
              /\ s \in Sections /\ s # None /\ s.file = file
              /\ s.levels \in Seq(LevelSet) /\ s.levels # <<>>
<1>1. CASE file \in Paths
  <2>1. SectionsOf(vault, file) = vault[file] /\ WellFormed(file, vault[file])
    BY <1>1 DEF SectionsOf, Analysed
  <2>2. /\ vault[file] \in Seq(Sections)
        /\ \A i \in DOMAIN vault[file] :
             vault[file][i].file = file /\ vault[file][i].levels # <<>>
    BY <2>1 DEF WellFormed, Typed
  <2>3. \A i \in DOMAIN vault[file] : vault[file][i] \in Sections
    BY <2>2
  <2>4. \A s \in Sections : s # None /\ s.levels \in Seq(LevelSet)
    BY VaultAssumption DEF Sections, LevelSet
  <2> QED
    BY <1>1, <2>1, <2>2, <2>3, <2>4 DEF SectionsIn, Range
<1>2. CASE file \notin Paths
  BY <1>2 DEF SectionsOf, SectionsIn, Range
<1> QED
  BY <1>1, <1>2

\* An id is that of one section, an anchor in a file too.
LEMMA OneOfEach ==
  ASSUME NEW vault, Analysed(vault), NEW file,
         NEW r \in SectionsIn(vault, file), NEW s \in SectionsIn(vault, file)
  PROVE  /\ Heads(r) = Heads(s) => r = s
         /\ Anchor(r) = Anchor(s) => r = s
<1>1. file \in Paths
  BY SectionFacts
<1>2. SectionsOf(vault, file) = vault[file] /\ WellFormed(file, vault[file])
  BY <1>1 DEF SectionsOf, Analysed
<1>3. PICK i \in DOMAIN vault[file] : r = vault[file][i]
  BY <1>2 DEF SectionsIn, Range
<1>4. PICK j \in DOMAIN vault[file] : s = vault[file][j]
  BY <1>2 DEF SectionsIn, Range
<1> QED
  BY <1>2, <1>3, <1>4 DEF WellFormed, IdsDiffer, AnchorsDiffer

\* The first of the sections of a file that are in a set.
LEMMA FirstSection ==
  ASSUME NEW vault, Analysed(vault), NEW file, NEW S \in SUBSET SectionsIn(vault, file)
  PROVE  /\ S = {} => FirstOf(SectionsOf(vault, file), S) = None
         /\ S # {} => FirstOf(SectionsOf(vault, file), S) \in S
         /\ \A s : S = {s} => FirstOf(SectionsOf(vault, file), S) = s
<1>1. SectionsOf(vault, file) \in Seq(Sections)
  BY SectionFacts
<1>2. Range(SectionsOf(vault, file)) \cap S = S
  BY DEF SectionsIn
<1> QED
  BY <1>1, <1>2, FirstIsThere

LEMMA KnownIsThere ==
  ASSUME NEW vault, Analysed(vault), NEW file, NEW heads
  PROVE  \/ /\ Known(vault, file, heads) = None
            /\ ~\E s \in SectionsIn(vault, file) : Heads(s) = heads \/ IsAlias(s, heads)
         \/ /\ Known(vault, file, heads) \in SectionsIn(vault, file)
            /\ \/ Heads(Known(vault, file, heads)) = heads
               \/ IsAlias(Known(vault, file, heads), heads)
<1> DEFINE literal == {s \in SectionsIn(vault, file) : Heads(s) = heads}
           alias == {s \in SectionsIn(vault, file) : IsAlias(s, heads)}
           S == IF literal # {} THEN literal ELSE alias
<1>1. Known(vault, file, heads) = FirstOf(SectionsOf(vault, file), S)
  BY DEF Known
<1>2. S \in SUBSET SectionsIn(vault, file)
  OBVIOUS
<1>3. CASE S = {}
  <2>1. Known(vault, file, heads) = None
    BY <1>1, <1>2, <1>3, FirstSection
  <2> QED
    BY <1>3, <2>1
<1>4. CASE S # {}
  <2>1. Known(vault, file, heads) \in S
    <3> HIDE DEF S
    <3> QED
      BY <1>1, <1>2, <1>4, FirstSection
  <2> QED
    BY <2>1
<1> QED
  BY <1>3, <1>4

\* A section is found by its id.
LEMMA KnownById ==
  ASSUME NEW vault, Analysed(vault), NEW file, NEW s \in SectionsIn(vault, file)
  PROVE  Known(vault, file, Heads(s)) = s
<1> DEFINE literal == {r \in SectionsIn(vault, file) : Heads(r) = Heads(s)}
<1>1. literal = {s}
  BY OneOfEach
<1>2. Known(vault, file, Heads(s)) = FirstOf(SectionsOf(vault, file), literal)
  BY <1>1 DEF Known
<1> QED
  BY <1>1, <1>2, FirstSection

\* Without headings nothing is known.
LEMMA KnownByNothing ==
  ASSUME NEW vault, Analysed(vault), NEW file
  PROVE  Known(vault, file, <<>>) = None
<1>1. ASSUME NEW s \in SectionsIn(vault, file)
      PROVE  Heads(s) # <<>> /\ ~IsAlias(s, <<>>)
  <2>1. s.levels \in Seq(LevelSet) /\ s.levels # <<>>
    BY SectionFacts
  <2>2. Len(s.levels) # 0 /\ DOMAIN s.levels # {}
    <3> DEFINE n == Len(s.levels)
    <3>1. n \in Nat /\ DOMAIN s.levels = 1..n /\ n # 0
      BY <2>1
    <3> HIDE DEF n
    <3>2. 1 \in 1..n
      BY <3>1
    <3> QED
      BY <3>1, <3>2 DEF n
  <2>3. DOMAIN Heads(s) = DOMAIN s.levels
    BY HeadsAreLiterals DEF LiteralsOf
  <2>4. ~IsAlias(s, <<>>)
    BY <2>2 DEF IsAlias
  <2>5. DOMAIN <<>> = {}
    OBVIOUS
  <2> QED
    BY <2>2, <2>3, <2>4, <2>5
<1> QED
  BY <1>1, KnownIsThere, Zenon

\* What is below the first root that has it.
BelowRoot(vault, file, root, heads) == Known(vault, file, Heads(root) \o heads)

RootsWith(vault, file, heads) ==
  {s \in SectionsIn(vault, file) : IsRoot(s) /\ BelowRoot(vault, file, s, heads) # None}

LEMMA InFileIsThere ==
  ASSUME NEW vault, Analysed(vault), NEW file, NEW heads
  PROVE  /\ Known(vault, file, heads) # None =>
              InFile(vault, file, heads) = Known(vault, file, heads)
         /\ \/ InFile(vault, file, heads) = None
            \/ InFile(vault, file, heads) \in SectionsIn(vault, file)
<1> DEFINE first == FirstOf(SectionsOf(vault, file), RootsWith(vault, file, heads))
<1>1. InFile(vault, file, heads) =
        IF Known(vault, file, heads) # None THEN Known(vault, file, heads)
        ELSE IF RootsWith(vault, file, heads) = {} THEN None
        ELSE BelowRoot(vault, file, first, heads)
  BY DEF InFile, RootsWith, BelowRoot
<1>2. \/ BelowRoot(vault, file, first, heads) = None
      \/ BelowRoot(vault, file, first, heads) \in SectionsIn(vault, file)
  BY KnownIsThere DEF BelowRoot
<1>3. \/ Known(vault, file, heads) = None
      \/ Known(vault, file, heads) \in SectionsIn(vault, file)
  BY KnownIsThere
<1> HIDE DEF first
<1> QED
  BY <1>1, <1>2, <1>3

\* A file that is named without a heading is its first root.
LEMMA InFileWithoutHeads ==
  ASSUME NEW vault, Analysed(vault), NEW file
  PROVE  InFile(vault, file, <<>>) =
           FirstOf(SectionsOf(vault, file), {s \in SectionsIn(vault, file) : IsRoot(s)})
<1> DEFINE roots == {s \in SectionsIn(vault, file) : IsRoot(s)}
           first == FirstOf(SectionsOf(vault, file), roots)
<1>1. ASSUME NEW s \in SectionsIn(vault, file)
      PROVE  BelowRoot(vault, file, s, <<>>) = s /\ s # None
  <2>1. s.levels \in Seq(LevelSet) /\ s # None
    BY SectionFacts
  <2>2. Heads(s) \in Seq(Names)
    <3> DEFINE n == Len(s.levels)
    <3>1. DOMAIN s.levels = 1..n /\ n \in Nat
      BY <2>1
    <3>2. \A i \in 1..n : s.levels[i] \in LevelSet
      BY <2>1, <3>1
    <3>3. \A i \in 1..n : s.levels[i].literal \in Names
      BY <3>2 DEF LevelSet
    <3> HIDE DEF n
    <3>4. [i \in 1..n |-> s.levels[i].literal] \in Seq(Names)
      BY <3>1, <3>3
    <3> QED
      BY <3>1, <3>4, HeadsAreLiterals DEF LiteralsOf
  <2>3. Heads(s) \o <<>> = Heads(s)
    BY <2>2
  <2> QED
    BY <2>1, <2>3, KnownById DEF BelowRoot
<1>2. RootsWith(vault, file, <<>>) = roots
  BY <1>1 DEF RootsWith
<1>3. InFile(vault, file, <<>>) =
        IF Known(vault, file, <<>>) # None THEN Known(vault, file, <<>>)
        ELSE IF roots = {} THEN None
        ELSE BelowRoot(vault, file, first, <<>>)
  BY <1>2 DEF InFile, RootsWith, BelowRoot
<1>4. roots \in SUBSET SectionsIn(vault, file)
  OBVIOUS
<1>5. /\ roots = {} => first = None
      /\ roots # {} => first \in SectionsIn(vault, file)
  <2> HIDE DEF roots
  <2> QED
    BY <1>4, FirstSection
<1> HIDE DEF roots, first
<1> QED
  BY <1>1, <1>3, <1>5, KnownByNothing DEF roots, first

LEMMA ResolveCases ==
  ASSUME NEW vault, NEW t
  PROVE  LET direct == Known(vault, t.file, t.heads)
             files == FilesFor(vault, t)
             r == Resolve(vault, t)
         IN  /\ direct # None => r = Resolved(direct)
             /\ direct = None => \A f : files = {f} => r = Resolved(InFile(vault, f, t.heads))
             /\ direct = None /\ (~\E f : files = {f}) =>
                  /\ r.section = None /\ r.ambiguous = files
                  /\ r.suggested # None =>
                       \E f : /\ Valid(vault, t) = {f}
                              /\ r.suggested = [file |-> f, heads |-> t.heads]
<1> DEFINE direct == Known(vault, t.file, t.heads)
           files == FilesFor(vault, t)
           valid == Valid(vault, t)
           single(S) == \E f \in S : S = {f}
           many == [section |-> None, ambiguous |-> files,
                    suggested |-> IF single(valid)
                                  THEN [file |-> CHOOSE f \in valid : TRUE, heads |-> t.heads]
                                  ELSE None]
<1>1. Resolve(vault, t) =
        IF direct # None THEN Resolved(direct)
        ELSE IF single(files) THEN Resolved(InFile(vault, CHOOSE f \in files : TRUE, t.heads))
        ELSE many
  BY DEF Resolve
<1>2. ASSUME NEW S, NEW f, S = {f} PROVE single(S) /\ (CHOOSE g \in S : TRUE) = f
  BY <1>2
<1>3. \A S : single(S) <=> \E f : S = {f}
  OBVIOUS
<1>4. /\ many.section = None /\ many.ambiguous = files
      /\ many.suggested # None =>
           \E f : valid = {f} /\ many.suggested = [file |-> f, heads |-> t.heads]
  <2>1. many.suggested = IF single(valid)
                         THEN [file |-> CHOOSE f \in valid : TRUE, heads |-> t.heads]
                         ELSE None
    OBVIOUS
  <2>2. CASE single(valid)
    <3>1. PICK f : valid = {f}
      BY <2>2
    <3>2. (CHOOSE g \in valid : TRUE) = f
      BY <1>2, <3>1
    <3> HIDE DEF valid
    <3> QED
      BY <2>1, <2>2, <3>1, <3>2
  <2>3. CASE ~single(valid)
    BY <2>1, <2>3
  <2> QED
    BY <2>2, <2>3
<1> HIDE DEF direct, files, valid, single, many
<1>5. direct = None => \A f : files = {f} =>
        Resolve(vault, t) = Resolved(InFile(vault, f, t.heads))
  BY <1>1, <1>2
<1>6. direct = None /\ (~\E f : files = {f}) => Resolve(vault, t) = many
  BY <1>1, <1>3
<1>7. direct # None => Resolve(vault, t) = Resolved(direct)
  BY <1>1
<1> QED
  BY <1>4, <1>5, <1>6, <1>7 DEF direct, files, valid

LEMMA OneFileResolves ==
  ASSUME NEW vault, NEW t, NEW f,
         Known(vault, t.file, t.heads) = None, FilesFor(vault, t) = {f}
  PROVE  Resolve(vault, t).section = InFile(vault, f, t.heads)
<1>1. Resolve(vault, t) = Resolved(InFile(vault, f, t.heads))
  BY ResolveCases
<1> QED
  BY <1>1 DEF Resolved

LEMMA MoreAreAmbiguous ==
  ASSUME NEW vault, NEW t,
         Known(vault, t.file, t.heads) = None, ~\E f : FilesFor(vault, t) = {f}
  PROVE  /\ Resolve(vault, t).section = None
         /\ Resolve(vault, t).ambiguous = FilesFor(vault, t)
<1>1. Known(vault, t.file, t.heads) = None /\ (~\E f : FilesFor(vault, t) = {f}) =>
        Resolve(vault, t).section = None /\ Resolve(vault, t).ambiguous = FilesFor(vault, t)
  BY ResolveCases
<1> QED
  BY <1>1

\* What a reference means is a section of the vault.
LEMMA ResolvedIsThere ==
  ASSUME NEW vault, Analysed(vault), NEW t
  PROVE  LET s == Resolve(vault, t).section
         IN  s = None \/ \E file \in Paths : s \in SectionsIn(vault, file)
<1>1. \A s : Resolved(s).section = s
  BY DEF Resolved
<1>2. \A file : \/ Known(vault, file, t.heads) = None
                \/ Known(vault, file, t.heads) \in SectionsIn(vault, file)
  BY KnownIsThere
<1>3. \A file : \/ InFile(vault, file, t.heads) = None
                \/ InFile(vault, file, t.heads) \in SectionsIn(vault, file)
  BY InFileIsThere
<1>4. \A file, s : s \in SectionsIn(vault, file) => file \in Paths
  BY SectionFacts
<1>5. CASE Known(vault, t.file, t.heads) # None
  <2>1. Resolve(vault, t).section = Known(vault, t.file, t.heads)
    BY <1>1, <1>5, ResolveCases
  <2> QED
    BY <1>2, <1>4, <2>1
<1>6. CASE Known(vault, t.file, t.heads) = None
  <2>1. CASE \E f : FilesFor(vault, t) = {f}
    <3>1. PICK f : FilesFor(vault, t) = {f}
      BY <2>1
    <3>2. Resolve(vault, t).section = InFile(vault, f, t.heads)
      BY <1>6, <3>1, OneFileResolves
    <3> QED
      BY <1>3, <1>4, <3>2
  <2>2. CASE ~\E f : FilesFor(vault, t) = {f}
    BY <1>6, <2>2, MoreAreAmbiguous
  <2> QED
    BY <2>1, <2>2
<1> QED
  BY <1>5, <1>6

LEMMA AllAreThere ==
  ASSUME VaultInv
  PROVE  /\ \A s \in AllSections : s \in SectionsIn(analysis, s.file) /\ s.file \in Paths
         /\ \A p \in Paths : SectionsIn(analysis, p) \in SUBSET AllSections
         /\ \A t : Meaning(t).section = None \/ Meaning(t).section \in AllSections
<1>1. Analysed(analysis)
  BY DEF VaultInv
<1>2. \A p \in Paths : \A s \in SectionsIn(analysis, p) : s.file = p
  BY <1>1, SectionFacts
<1>3. \A p \in Paths : SectionsIn(analysis, p) \in SUBSET AllSections
  BY DEF AllSections
<1>4. \A s \in AllSections : \E p \in Paths : s \in SectionsIn(analysis, p)
  BY DEF AllSections
<1>5. \A t : \/ Meaning(t).section = None
             \/ \E p \in Paths : Meaning(t).section \in SectionsIn(analysis, p)
  BY <1>1, ResolvedIsThere DEF Meaning
<1> QED
  BY <1>2, <1>3, <1>4, <1>5

\* An id means the section it is of.
LEMMA IdsMeanTheirSection ==
  ASSUME VaultInv, NEW s \in AllSections
  PROVE  Meaning(TargetOf(s)).section = s
<1>1. Analysed(analysis) /\ s \in SectionsIn(analysis, s.file)
  BY AllAreThere DEF VaultInv
<1>2. TargetOf(s).file = s.file /\ TargetOf(s).heads = Heads(s)
  BY DEF TargetOf
<1>3. Known(analysis, s.file, Heads(s)) = s /\ s # None
  BY <1>1, KnownById, SectionFacts
<1>4. Resolve(analysis, TargetOf(s)) = Resolved(s)
  BY <1>2, <1>3, ResolveCases
<1> QED
  BY <1>4 DEF Meaning, Resolved

LEMMA IdentitiesHold == VaultInv => IdentitiesLeadBack
<1> SUFFICES ASSUME VaultInv, NEW s \in AllSections
             PROVE  /\ Meaning(TargetOf(s)).section = s
                    /\ AtAnchor(s.file, Last(s.levels).slug) = s
                    /\ LET slugs == [i \in DOMAIN s.levels |-> s.levels[i].slug]
                           found == Known(analysis, s.file, slugs)
                       IN  found = s \/ Last(found.levels).literal = Last(slugs)
                    /\ \A r \in AllSections : Id(r) = Id(s) => r = s
  BY DEF IdentitiesLeadBack
<1>1. Analysed(analysis) /\ s \in SectionsIn(analysis, s.file)
  BY AllAreThere DEF VaultInv
<1>2. Meaning(TargetOf(s)).section = s
  BY IdsMeanTheirSection
<1>3. AtAnchor(s.file, Last(s.levels).slug) = s
  <2> DEFINE S == {r \in SectionsIn(analysis, s.file) : Last(r.levels).slug = Anchor(s)}
  <2>1. S = {s}
    BY <1>1, OneOfEach DEF Anchor
  <2>2. AtAnchor(s.file, Last(s.levels).slug) = FirstOf(SectionsOf(analysis, s.file), S)
    BY DEF AtAnchor, Anchor
  <2>3. S \in SUBSET SectionsIn(analysis, s.file)
    OBVIOUS
  <2> HIDE DEF S
  <2> QED
    BY <1>1, <2>1, <2>2, <2>3, FirstSection
<1>4. LET slugs == [i \in DOMAIN s.levels |-> s.levels[i].slug]
          found == Known(analysis, s.file, slugs)
      IN  found = s \/ Last(found.levels).literal = Last(slugs)
  <2> DEFINE slugs == [i \in DOMAIN s.levels |-> s.levels[i].slug]
             found == Known(analysis, s.file, slugs)
             n == Len(s.levels)
  <2>1. s.levels \in Seq(LevelSet) /\ s.levels # <<>>
    BY <1>1, SectionFacts
  <2>2. DOMAIN s.levels = 1..n /\ n \in Nat /\ n # 0
    BY <2>1
  <2>3. DOMAIN slugs = 1..n /\ Len(slugs) = n /\ \A i \in 1..n : slugs[i] = s.levels[i].slug
    BY <2>2
  <2>4. n \in 1..n
    BY <2>2
  <2>5. Last(slugs) = Anchor(s)
    BY <2>3, <2>4 DEF Last, Anchor
  <2> HIDE DEF slugs, n
  <2>6. IsAlias(s, slugs)
    BY <2>2, <2>3 DEF IsAlias, n
  <2>7. /\ found \in SectionsIn(analysis, s.file)
        /\ Heads(found) = slugs \/ IsAlias(found, slugs)
    BY <1>1, <2>6, KnownIsThere
  <2> HIDE DEF found
  <2>8. found.levels \in Seq(LevelSet) /\ found.levels # <<>>
    BY <1>1, <2>7, SectionFacts
  <2>9. ASSUME Heads(found) = slugs PROVE Last(found.levels).literal = Last(slugs)
    <3>1. DOMAIN found.levels = 1..n /\ \A i \in 1..n : slugs[i] = found.levels[i].literal
      BY <2>3, <2>9, HeadsAreLiterals DEF LiteralsOf
    <3>2. Len(found.levels) = n
      BY <2>2, <2>8, <3>1
    <3> QED
      BY <2>3, <2>4, <3>1, <3>2 DEF Last
  <2>10. ASSUME IsAlias(found, slugs)
         PROVE  found = s \/ Last(found.levels).literal = Last(slugs)
    <3>1. Len(found.levels) = n /\ slugs[n] \in {found.levels[n].literal, found.levels[n].slug}
      BY <2>3, <2>4, <2>10 DEF IsAlias
    <3>2. CASE slugs[n] = found.levels[n].literal
      BY <2>3, <3>1, <3>2 DEF Last
    <3>3. CASE slugs[n] = found.levels[n].slug
      <4>1. Anchor(found) = Anchor(s)
        BY <2>3, <2>5, <3>1, <3>3 DEF Anchor, Last
      <4> QED
        BY <1>1, <2>7, <4>1, OneOfEach
    <3> QED
      BY <3>1, <3>2, <3>3
  <2> QED
    BY <2>7, <2>9, <2>10 DEF found, slugs
<1>5. ASSUME NEW r \in AllSections, Id(r) = Id(s) PROVE r = s
  <2>1. r.file = s.file /\ Heads(r) = Heads(s)
    BY <1>5 DEF Id, Heads
  <2>2. r \in SectionsIn(analysis, s.file)
    BY <2>1, AllAreThere
  <2> QED
    BY <1>1, <2>1, <2>2, OneOfEach
<1> QED
  BY <1>2, <1>3, <1>4, <1>5

-----------------------------------------------------------------------------
LEMMA OnlyOneFile ==
  ASSUME NEW f \in Paths
  PROVE  FirstOf(Order, {f}) = f
<1>1. Order \in Seq(Paths)
  BY VaultAssumption
<1>2. Range(Order) \cap {f} = {f}
  BY DEF Paths
<1> QED
  BY <1>1, <1>2, FirstIsThere

LEMMA StrictIsLenient ==
  ASSUME VaultInv, NEW t, Meaning(t).section # None, ~Shadowed(t.file)
  PROVE  Best(t) = Meaning(t).section
<1>1. Analysed(analysis)
  BY DEF VaultInv
<1>2. Meaning(t) = Resolve(analysis, t) /\ \A s : Resolved(s).section = s
  BY DEF Meaning, Resolved
<1>3. CASE Known(analysis, t.file, t.heads) # None
  <2>1. Meaning(t).section = Known(analysis, t.file, t.heads)
    BY <1>2, <1>3, ResolveCases
  <2>2. t.heads # <<>>
    BY <1>1, <1>3, KnownByNothing
  <2>3. PathMatch(t) = Known(analysis, t.file, t.heads)
    BY <1>3 DEF PathMatch
  <2> QED
    BY <2>1, <2>2, <2>3 DEF Best
<1>4. CASE Known(analysis, t.file, t.heads) = None
  <2>1. PICK f : FilesFor(analysis, t) = {f}
    <3>1. (~\E f : FilesFor(analysis, t) = {f}) => Resolve(analysis, t).section = None
      BY <1>4, MoreAreAmbiguous
    <3> QED
      BY <1>2, <3>1
  <2>2. Meaning(t).section = InFile(analysis, f, t.heads)
    BY <1>2, <1>4, <2>1, OneFileResolves
  <2>3. InFile(analysis, f, t.heads) \in SectionsIn(analysis, f) /\ f \in Paths
    BY <1>1, <2>2, InFileIsThere, SectionFacts
  <2>4. CASE t.heads # <<>>
    <3>1. Valid(analysis, t) = {f}
      BY <2>1, <2>2 DEF Valid
    <3>2. PathMatch(t) = InFile(analysis, FirstOf(Order, {f}), t.heads)
      BY <1>4, <3>1 DEF PathMatch
    <3>3. FirstOf(Order, {f}) = f
      BY <2>3, OnlyOneFile
    <3> QED
      BY <2>2, <2>4, <3>2, <3>3 DEF Best
  <2>5. CASE t.heads = <<>>
    <3> DEFINE roots == {s \in SectionsIn(analysis, f) : IsRoot(s)}
               files == {t.file} \cup Stems(analysis, t.file)
               named == {s \in AllSections : IsRoot(s) /\ s.file \in files}
               having == {p \in Paths : SectionsIn(analysis, p) \cap named # {}}
    <3>1. Meaning(t).section = FirstOf(SectionsOf(analysis, f), roots)
      BY <1>1, <2>2, <2>5, InFileWithoutHeads
    <3>2. roots # {}
      <4>1. roots \in SUBSET SectionsIn(analysis, f)
        OBVIOUS
      <4> HIDE DEF roots
      <4> QED
        BY <1>1, <3>1, <4>1, FirstSection
    <3>3. f \in files /\ \A p \in Paths : p \in files => p = f
      <4>1. CASE Stems(analysis, t.file) = {}
        <5>1. f = t.file
          BY <2>1, <4>1 DEF FilesFor
        <5> QED
          BY <4>1, <5>1
      <4>2. CASE Stems(analysis, t.file) # {}
        <5>1. Stems(analysis, t.file) = {f}
          BY <2>1, <4>2 DEF FilesFor
        <5>2. EndsIn(f, t.file)
          BY <5>1 DEF Stems
        <5>3. t.file \notin Paths
          BY <2>3, <5>2 DEF Shadowed
        <5> QED
          BY <5>1, <5>3
      <4> QED
        BY <4>1, <4>2
    <3>4. named = roots
      <4>1. \A s \in AllSections : s \in SectionsIn(analysis, s.file) /\ s.file \in Paths
        BY AllAreThere
      <4>2. \A s \in SectionsIn(analysis, f) : s \in AllSections /\ s.file = f
        BY <1>1, <2>3, AllAreThere, SectionFacts
      <4> HIDE DEF files
      <4> QED
        BY <3>3, <4>1, <4>2
    <3>5. NameMatch(t.file) = FirstInVault(named)
      <4>1. named # {}
        BY <3>2, <3>4
      <4> QED
        BY <4>1 DEF NameMatch
    <3>6. having = {f}
      <4>1. \A p \in Paths : \A s \in SectionsIn(analysis, p) : s.file = p
        BY <1>1, SectionFacts
      <4>2. SectionsIn(analysis, f) \cap named # {}
        BY <3>2, <3>4
      <4>3. \A p \in Paths : SectionsIn(analysis, p) \cap named # {} => p = f
        BY <2>3, <3>4, <4>1
      <4> HIDE DEF named
      <4> QED
        BY <2>3, <4>2, <4>3
    <3>7. FirstInVault(named) = FirstOf(analysis[f], named)
      <4>1. FirstInVault(named) = IF having = {} THEN None
                                  ELSE FirstOf(analysis[FirstOf(Order, having)], named)
        BY DEF FirstInVault
      <4>2. FirstOf(Order, having) = f
        BY <2>3, <3>6, OnlyOneFile
      <4> HIDE DEF having, named
      <4> QED
        BY <3>6, <4>1, <4>2
    <3>8. SectionsOf(analysis, f) = analysis[f]
      BY <2>3 DEF SectionsOf
    <3> HIDE DEF roots, named
    <3> QED
      BY <2>5, <3>1, <3>4, <3>5, <3>7, <3>8 DEF Best
  <2> QED
    BY <2>4, <2>5
<1> QED
  BY <1>3, <1>4

\* The link of AcceptedLinksAreFollowed stands in a section.
LEMMA LinkIsInASection ==
  ASSUME VaultInv, AllSections # {}, NEW t
  PROVE  LET link == [file |-> (CHOOSE f \in Paths : docs[f] # <<>>), at |-> 1, target |-> t]
         IN  From(link) # None
<1> DEFINE g == CHOOSE f \in Paths : docs[f] # <<>>
           link == [file |-> g, at |-> 1, target |-> t]
<1>1. \E f \in Paths : docs[f] # <<>>
  <2>1. PICK s \in AllSections : TRUE
    OBVIOUS
  <2>2. s \in SectionsIn(analysis, s.file) /\ s.file \in Paths
    BY AllAreThere
  <2>3. analysis[s.file] # <<>>
    BY <2>2 DEF SectionsIn, SectionsOf, Range
  <2> QED
    BY <2>2, <2>3 DEF VaultInv
<1>2. g \in Paths /\ docs[g] # <<>>
  BY <1>1
<1> HIDE DEF g
<1>3. analysis[g] # <<>> /\ analysis[g] \in Seq(Sections)
  BY <1>2 DEF VaultInv, Analysed
<1>4. From(link) = SectionsOf(analysis, g)[1] /\ SectionsOf(analysis, g) = analysis[g]
  BY <1>2 DEF From, SectionsOf
<1>5. analysis[g][1] \in Sections
  BY <1>3
<1> QED
  BY <1>4, <1>5, VaultAssumption DEF g

LEMMA SectionsAreNoFiles ==
  ASSUME VaultInv, NEW s \in AllSections
  PROVE  s # None /\ ~IsSourceQuery(TargetOf(s)) /\ Queried(TargetOf(s)) = s
<1>1. s \in SectionsIn(analysis, s.file) /\ s.file \in Paths /\ Analysed(analysis)
  BY AllAreThere DEF VaultInv
<1>2. s # None
  BY <1>1, SectionFacts
<1>3. TargetOf(s).file \notin RepositoryFiles
  BY <1>1, VaultAssumption DEF TargetOf
<1>4. Meaning(TargetOf(s)).section = s
  BY IdsMeanTheirSection
<1> QED
  BY <1>2, <1>3, <1>4 DEF IsSourceQuery, Queried

LEMMA AcceptedAreFollowed == VaultInv => AcceptedLinksAreFollowed
<1> SUFFICES ASSUME VaultInv, NEW t \in Targets, CheckAccepts(t), AllSections # {}
             PROVE  LET s == Meaning(t).section
                        link == [file |-> (CHOOSE f \in Paths : docs[f] # <<>>), at |-> 1,
                                 target |-> t]
                    IN  \/ /\ s # None
                           /\ From(link) \in MdRefs(TargetOf(s), {link})
                           /\ ShownAtSection(link) /\ ViewLink(t) = Section(s)
                           /\ ~NamesSource(t) =>
                                Outgoing(t) = Section(s) /\ GraphNode(t) = Section(s)
                        \/ /\ s = None /\ t.file \in RepositoryFiles
                           /\ NamesSource(t) =>
                                /\ From(link) \in MdRefs(t, {link})
                                /\ ShownAtSource(link)
                                /\ {ViewLink(t), Outgoing(t), GraphNode(t)} = {Source(t)}
  BY DEF AcceptedLinksAreFollowed
<1> DEFINE s == Meaning(t).section
           g == CHOOSE f \in Paths : docs[f] # <<>>
           link == [file |-> g, at |-> 1, target |-> t]
<1>1. From(link) # None /\ link.target = t
  BY LinkIsInASection
<1> HIDE DEF g, link
<1>2. Meaning(t).ambiguous = {} /\ (s # None \/ RepositoryLinkOk(t))
  BY DEF CheckAccepts
<1>3. ASSUME s # None
      PROVE  /\ From(link) \in MdRefs(TargetOf(s), {link})
             /\ ShownAtSection(link) /\ ViewLink(t) = Section(s)
             /\ ~NamesSource(t) => Outgoing(t) = Section(s) /\ GraphNode(t) = Section(s)
  <2>1. s \in AllSections
    BY <1>3, AllAreThere
  <2>2. ~IsSourceQuery(TargetOf(s)) /\ Queried(TargetOf(s)) = s
    BY <2>1, SectionsAreNoFiles
  <2>3. From(link) \in MdRefs(TargetOf(s), {link})
    BY <1>1, <1>3, <2>2 DEF MdRefs
  <2>4. ShownAtSection(link)
    BY <1>1, <1>3 DEF ShownAtSection
  <2>5. ViewLink(t) = Section(s)
    BY <1>2, <1>3 DEF ViewLink
  <2>6. ~NamesSource(t) => Outgoing(t) = Section(s) /\ GraphNode(t) = Section(s)
    BY <1>3 DEF Outgoing, GraphNode
  <2> QED
    BY <2>3, <2>4, <2>5, <2>6
<1>4. ASSUME s = None
      PROVE  /\ t.file \in RepositoryFiles
             /\ NamesSource(t) =>
                  /\ From(link) \in MdRefs(t, {link})
                  /\ ShownAtSource(link)
                  /\ {ViewLink(t), Outgoing(t), GraphNode(t)} = {Source(t)}
  <2>1. t.file \in RepositoryFiles /\ (t.heads = <<>> \/ SymbolExists(t))
    BY <1>2, <1>4 DEF RepositoryLinkOk
  <2>2. ASSUME NamesSource(t)
        PROVE  /\ From(link) \in MdRefs(t, {link})
               /\ ShownAtSource(link)
               /\ {ViewLink(t), Outgoing(t), GraphNode(t)} = {Source(t)}
    <3>1. IsSourceQuery(t)
      BY <2>1, <2>2 DEF IsSourceQuery
    <3>2. From(link) \in MdRefs(t, {link})
      BY <1>1, <3>1 DEF MdRefs, SameSource
    <3>3. ShownAtSource(link)
      BY <1>1, <2>2 DEF ShownAtSource
    <3>4. SymbolExists(t)
      BY <2>1 DEF SymbolExists
    <3>5. ViewLink(t) = Source(t)
      BY <1>2, <1>4, <2>1, <2>2, <3>4 DEF ViewLink
    <3>6. Outgoing(t) = Source(t) /\ GraphNode(t) = Source(t)
      BY <2>1, <2>2 DEF Outgoing, GraphNode
    <3> QED
      BY <3>2, <3>3, <3>5, <3>6
  <2> QED
    BY <2>1, <2>2
<1> QED
  BY <1>3, <1>4 DEF link, g

LEMMA MentionsHold == VaultInv => MentionsAreFound
<1> SUFFICES ASSUME VaultInv, NEW m \in Targets, NEW s \in AllSections,
                    ~LacksMention(s, {m}), IsLeaf(s)
             PROVE  m \in CodeRefs(TargetOf(s), {m})
  BY DEF MentionsAreFound
<1>1. Meaning(m).section = s
  BY DEF LacksMention, Mentioned
<1>2. s # None /\ ~IsSourceQuery(TargetOf(s)) /\ Queried(TargetOf(s)) = s
  BY SectionsAreNoFiles
<1> QED
  BY <1>1, <1>2 DEF CodeRefs

LEMMA SuggestedIsValid ==
  ASSUME VaultInv, NEW t, Meaning(t).suggested # None,
         ~Shadowed(Meaning(t).suggested.file)
  PROVE  LET r == Meaning(t)
         IN  /\ Meaning(r.suggested).section = InFile(analysis, r.suggested.file, t.heads)
             /\ CheckAccepts(r.suggested)
             /\ \A f \in r.ambiguous \ {r.suggested.file} :
                  InFile(analysis, f, t.heads) = None
<1> DEFINE r == Meaning(t)
<1>1. Analysed(analysis) /\ r = Resolve(analysis, t)
  BY DEF VaultInv, Meaning
<1>2. \A s : /\ Resolved(s).section = s /\ Resolved(s).ambiguous = {}
             /\ Resolved(s).suggested = None
  BY DEF Resolved
<1>3. Known(analysis, t.file, t.heads) = None
  <2>1. Known(analysis, t.file, t.heads) # None =>
          r = Resolved(Known(analysis, t.file, t.heads))
    BY <1>1, ResolveCases
  <2> QED
    BY <1>2, <2>1
<1>4. ~\E f : FilesFor(analysis, t) = {f}
  <2>1. \A f : FilesFor(analysis, t) = {f} => r = Resolved(InFile(analysis, f, t.heads))
    BY <1>1, <1>3, ResolveCases
  <2> QED
    BY <1>2, <2>1
<1>5. /\ r.ambiguous = FilesFor(analysis, t)
      /\ \E f : Valid(analysis, t) = {f} /\ r.suggested = [file |-> f, heads |-> t.heads]
  <2> DEFINE q == Resolve(analysis, t)
  <2>1. /\ q.ambiguous = FilesFor(analysis, t)
        /\ q.suggested # None =>
             \E f : Valid(analysis, t) = {f} /\ q.suggested = [file |-> f, heads |-> t.heads]
    BY <1>3, <1>4, ResolveCases
  <2>2. r = q /\ r.suggested # None
    BY <1>1
  <2> HIDE DEF q, r
  <2> QED
    BY <2>1, <2>2
<1>6. PICK f : Valid(analysis, t) = {f} /\ r.suggested = [file |-> f, heads |-> t.heads]
  BY <1>5
<1>7. r.suggested.file = f /\ r.suggested.heads = t.heads
  BY <1>6
<1>8. InFile(analysis, f, t.heads) # None
  BY <1>6 DEF Valid
<1>9. f \in Paths
  BY <1>1, <1>8, InFileIsThere, SectionFacts
<1>10. Resolve(analysis, r.suggested) = Resolved(InFile(analysis, f, t.heads))
  <2>1. FilesFor(analysis, r.suggested) = {f}
    <3>1. Stems(analysis, f) = {}
      BY <1>7, <1>9 DEF Stems, Shadowed
    <3> QED
      BY <1>7, <3>1 DEF FilesFor
  <2>2. CASE Known(analysis, f, t.heads) # None
    <3>1. Resolve(analysis, r.suggested) = Resolved(Known(analysis, f, t.heads))
      BY <1>7, <2>2, ResolveCases
    <3>2. InFile(analysis, f, t.heads) = Known(analysis, f, t.heads)
      BY <1>1, <2>2, InFileIsThere
    <3> QED
      BY <3>1, <3>2
  <2>3. CASE Known(analysis, f, t.heads) = None
    BY <1>7, <2>1, <2>3, ResolveCases
  <2> QED
    BY <2>2, <2>3
<1>11. /\ Meaning(r.suggested).section = InFile(analysis, f, t.heads)
       /\ Meaning(r.suggested).ambiguous = {}
  <2> HIDE DEF r
  <2> QED
    BY <1>2, <1>10 DEF Meaning
<1>12. CheckAccepts(r.suggested)
  BY <1>8, <1>11 DEF CheckAccepts
<1>13. \A g \in r.ambiguous \ {f} : InFile(analysis, g, t.heads) = None
  BY <1>5, <1>6 DEF Valid
<1> QED
  BY <1>7, <1>11, <1>12, <1>13

-----------------------------------------------------------------------------
(* A new document changes what is known of its own file only.              *)

LEMMA OtherFilesStay ==
  ASSUME NEW vault, NEW after, NEW p \in Paths, NEW file, file # p,
         \A q \in Paths \ {p} : after[q] = vault[q], NEW heads
  PROVE  /\ SectionsOf(after, file) = SectionsOf(vault, file)
         /\ Known(after, file, heads) = Known(vault, file, heads)
         /\ InFile(after, file, heads) = InFile(vault, file, heads)
<1>1. SectionsOf(after, file) = SectionsOf(vault, file)
  BY DEF SectionsOf
<1>2. SectionsIn(after, file) = SectionsIn(vault, file)
  BY <1>1 DEF SectionsIn
<1>3. \A h : Known(after, file, h) = Known(vault, file, h)
  BY <1>1, <1>2 DEF Known
<1>4. InFile(after, file, heads) = InFile(vault, file, heads)
  BY <1>1, <1>2, <1>3 DEF InFile
<1> QED
  BY <1>1, <1>3, <1>4

LEMMA NothingIsRedirected ==
  ASSUME NEW vault, Analysed(vault), NEW after, NEW p \in Paths,
         vault[p] = <<>>, after[p] # <<>>, \A q \in Paths \ {p} : after[q] = vault[q],
         NEW t, Resolve(vault, t).section # None, ~Shadowed(t.file)
  PROVE  \/ Resolve(vault, t).section = Resolve(after, t).section
         \/ Resolve(after, t).ambiguous # {}
<1>1. \A s : Resolved(s).section = s
  BY DEF Resolved
<1>2. \A heads : Known(vault, p, heads) = None /\ InFile(vault, p, heads) = None
  <2>1. SectionsIn(vault, p) = {}
    BY DEF SectionsIn, SectionsOf, Range
  <2> QED
    BY <2>1, KnownIsThere, InFileIsThere
<1>3. ASSUME NEW file, file # p, NEW heads
      PROVE  /\ Known(after, file, heads) = Known(vault, file, heads)
             /\ InFile(after, file, heads) = InFile(vault, file, heads)
  BY <1>3, OtherFilesStay
<1>4. CASE Known(vault, t.file, t.heads) # None
  <2>1. t.file # p
    BY <1>2, <1>4
  <2>2. Known(after, t.file, t.heads) = Known(vault, t.file, t.heads)
    BY <1>3, <2>1
  <2>3. /\ Resolve(vault, t) = Resolved(Known(vault, t.file, t.heads))
        /\ Resolve(after, t) = Resolved(Known(after, t.file, t.heads))
    BY <1>4, <2>2, ResolveCases
  <2> QED
    BY <2>2, <2>3
<1>5. CASE Known(vault, t.file, t.heads) = None
  <2>1. PICK f : FilesFor(vault, t) = {f}
    <3>1. (~\E f : FilesFor(vault, t) = {f}) => Resolve(vault, t).section = None
      BY <1>5, MoreAreAmbiguous
    <3> QED
      BY <3>1
  <2>2. Resolve(vault, t).section = InFile(vault, f, t.heads)
    BY <1>5, <2>1, OneFileResolves
  <2>3. f # p /\ InFile(after, f, t.heads) = InFile(vault, f, t.heads) /\ f \in Paths
    <3>1. f # p
      BY <1>2, <2>2
    <3>2. f \in Paths
      BY <2>2, InFileIsThere, SectionFacts
    <3> QED
      BY <1>3, <3>1, <3>2
  <2>4. t.file # p
    <3> SUFFICES ASSUME t.file = p PROVE FALSE
      OBVIOUS
    <3>1. Stems(vault, p) = {}
      BY DEF Stems, Shadowed
    <3>2. FilesFor(vault, t) = {p}
      BY <3>1 DEF FilesFor
    <3> QED
      BY <2>1, <2>3, <3>2
  <2>5. Known(after, t.file, t.heads) = None
    <3>1. Known(after, t.file, t.heads) = Known(vault, t.file, t.heads)
      BY <1>3, <2>4
    <3> QED
      BY <1>5, <3>1
  <2>6. CASE p \notin Stems(after, t.file)
    <3>1. Stems(after, t.file) = Stems(vault, t.file)
      BY <2>6 DEF Stems
    <3>2. FilesFor(after, t) = {f}
      BY <2>1, <3>1 DEF FilesFor
    <3>3. Resolve(after, t).section = InFile(after, f, t.heads)
      BY <2>5, <3>2, OneFileResolves
    <3> QED
      BY <2>2, <2>3, <3>3
  <2>7. CASE p \in Stems(after, t.file)
    <3>1. EndsIn(p, t.file)
      BY <2>7 DEF Stems
    <3>2. t.file \notin Paths
      BY <3>1 DEF Shadowed
    <3>3. f \in Stems(vault, t.file)
      BY <2>1, <2>3, <3>2 DEF FilesFor
    <3>4. f \in Stems(after, t.file)
      BY <2>3, <3>3 DEF Stems
    <3>5. {p, f} \in SUBSET FilesFor(after, t)
      BY <2>7, <3>4 DEF FilesFor
    <3>6. (~\E g : FilesFor(after, t) = {g}) => Resolve(after, t).ambiguous = FilesFor(after, t)
      BY <2>5, MoreAreAmbiguous
    <3>7. ~\E g : FilesFor(after, t) = {g}
      BY <2>3, <3>5
    <3> QED
      BY <3>5, <3>6, <3>7
  <2> QED
    BY <2>6, <2>7
<1> QED
  BY <1>4, <1>5

LEMMA NewDocumentIsApart ==
  ASSUME VaultInv, NEW p \in Paths, CreateDocument(p),
         NEW t, Meaning(t).section # None, ~Shadowed(t.file)
  PROVE  \/ Meaning(t).section = Resolve(analysis', t).section
         \/ Resolve(analysis', t).ambiguous # {}
<1>1. PICK h \in AnyHeading : Save(p, <<h>>)
  BY DEF CreateDocument
<1>2. <<h>> \in Seq(AnyHeading) /\ <<h>> # <<>>
  OBVIOUS
<1>3. Parse(p, <<h>>) # <<>>
  BY <1>2, ParsedIsWellFormed
<1>4. analysis \in [Paths -> Seq(Sections)] /\ Analysed(analysis)
  BY DEF VaultInv, Analysed
<1>5. analysis'[p] # <<>> /\ \A q \in Paths \ {p} : analysis'[q] = analysis[q]
  BY <1>1, <1>3, <1>4 DEF Save
<1>6. analysis[p] = <<>>
  BY DEF CreateDocument, VaultInv
<1> QED
  BY <1>4, <1>5, <1>6, NothingIsRedirected DEF Meaning

-----------------------------------------------------------------------------
(* The theorems.                                                           *)

\* Whatever headings and documents a vault has, all who read a link, by id,
\* anchor, name or suggestion, strictly or not, take it for the same place
\* (resolveRef, findSections and the commands and pages that use them).
THEOREM LinksMeanOnePlace == Spec => []LinksMeanTheSame
<1>1. VaultInv => LinksMeanTheSame
  <2> SUFFICES ASSUME VaultInv PROVE LinksMeanTheSame
    OBVIOUS
  <2>1. StrictAndLenientAgree
    BY StrictIsLenient DEF StrictAndLenientAgree
  <2>2. SuggestionsAreValid
    BY SuggestedIsValid DEF SuggestionsAreValid
  <2> QED
    BY <2>1, <2>2, IdentitiesHold, AcceptedAreFollowed, MentionsHold DEF LinksMeanTheSame
<1> QED
  BY <1>1, VaultIsAnalysed, PTL

\* A new document never redirects a link: it keeps its meaning or is reported as
\* ambiguous (buildFileIndex, resolveRef).
THEOREM NewDocumentsKeepLinks == Spec => NewDocumentsRedirectNothing
<1> DEFINE Stays(p) ==
      CreateDocument(p) =>
        \A t \in Targets :
          Meaning(t).section # None /\ ~Shadowed(t.file) =>
            \/ Meaning(t).section = Resolve(analysis', t).section
            \/ Resolve(analysis', t).ambiguous # {}
<1>1. VaultInv => \A p \in Paths : Stays(p)
  BY NewDocumentIsApart
<1>2. VaultInv /\ [Next]_vars => [\A p \in Paths : Stays(p)]_vars
  BY <1>1
<1> QED
  BY <1>2, VaultIsAnalysed, PTL DEF Spec, NewDocumentsRedirectNothing
=============================================================================
