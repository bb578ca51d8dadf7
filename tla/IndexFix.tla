------------------------------ MODULE IndexFix ------------------------------
(***************************************************************************)
(* `lat check --fix`: every directory of the vault carries an index that   *)
(* lists its children, and the generating pass rewrites the listing of     *)
(* those whose entries are missing or stale (checkIndex and                *)
(* writeGeneratedIndex of cli/check.ts, spliceIndexContent of              *)
(* cli/gen-index.ts, link-scheme.ts).                                      *)
(*                                                                         *)
(* Authors and other runs write the same files meanwhile, and a run can be *)
(* killed between its temporary file and the rename.  A line of an index   *)
(* is <<kind, name, text>>; blank lines, escapes and summaries are left    *)
(* out, and a title stands for an entry's whole text.                      *)
(***************************************************************************)
EXTENDS Integers, Sequences, FiniteSets, SequencesExt

CONSTANTS
    Fixers,       \* runs that may overlap
    RootDocs,     \* the documents of the root directory
    SubDocs,      \* the documents of its subdirectory "sub"
    Titles,       \* [Docs \cup SubDocs -> the titles a document may carry]
    Alphabet,     \* the titles in their sorted order
    HandWritten,  \* what an author may have written in the root's index
    NoIndex,
    MaxEdits, MaxRuns, MaxFixKills

LineKinds == {"text", "head", "fence", "begin", "end", "item", "away"}
EntryNames == RootDocs \cup SubDocs \cup {"sub"}
IndexLines == LineKinds \X (EntryNames \cup {"self", "old", ""}) \X (ToSet(Alphabet) \cup {"by hand", ""})

ASSUME IndexFixAssumption ==
  /\ RootDocs \cap SubDocs = {} /\ {MaxEdits, MaxRuns, MaxFixKills} \subseteq Nat
  /\ IsFiniteSet(RootDocs) /\ IsFiniteSet(SubDocs) /\ "sub" \notin RootDocs \cup SubDocs
  /\ Titles \in [RootDocs \cup SubDocs -> (SUBSET ToSet(Alphabet)) \ {{}}]
  /\ DOMAIN Alphabet \subseteq Nat /\ EntryNames \cup {"sub, summarised"} \subseteq ToSet(Alphabet)
  /\ HandWritten \subseteq Seq(IndexLines) /\ NoIndex \notin Seq(IndexLines)

VARIABLES
    documents,     \* the documents there are
    title,    \* [Docs \cup SubDocs -> their titles]
    index,    \* [Dirs -> the lines of the index file, or None]
    temp,     \* [Dirs -> the lines at the temporary path, or None]
    fix,      \* the state of each run
    edits, runs, fixKills

fixVars == <<documents, title, index, temp, fix, edits, runs, fixKills>>

IndexDirs == {"root", "sub"}
IndexLine(kind) == <<kind, "", "">>
Item(name, text) == <<"item", name, text>>
Intro == IndexLine("text")
IdleRun == [pc |-> "idle"]

-----------------------------------------------------------------------------
(* What an index lists. *)

\* Defect: a fenced example is taken for the real thing.
FencedNever(c) == {}

\* fencedLineMask: a delimiter counts as inside its fence.
FencedLines(c) ==
  {i \in DOMAIN c : c[i][1] = "fence"
     \/ Cardinality({j \in 1..(i - 1) : c[j][1] = "fence"}) % 2 = 1}

Plain(c, kinds) == {i \in DOMAIN c \ FencedLines(c) : c[i][1] \in kinds}

\* parseIndexEntries: bullets that name a child, in wiki or in Markdown form.  A
\* bullet "away" leads out of the directory, and names nothing.
Listed(c) == {c[i][2] : i \in Plain(c, {"item"})}

\* immediateEntries of the files found by the walk.
Children(dir) ==
  IF dir = "sub" THEN documents \cap SubDocs
  ELSE (documents \cap RootDocs)
         \cup (IF documents \cap SubDocs # {} \/ index["sub"] # NoIndex THEN {"sub"} ELSE {})

MissingEntries(c, children) == children \ Listed(c)
StaleEntries(c, children) == Listed(c) \ (children \cup {"self"})

-----------------------------------------------------------------------------
(* What the generating pass writes. *)

\* titleAndSummary: a file that cannot be read falls back to its name.
TitleOf(name) ==
  IF name = "sub" THEN IF index["sub"] = NoIndex THEN "sub" ELSE "sub, summarised"
  ELSE IF name \in documents THEN title[name] ELSE name

Rank(text) == CHOOSE i \in DOMAIN Alphabet : Alphabet[i] = text

\* The sort by title, which leaves entries of one title in the order they had.
Sorted(items) ==
  LET s == SetToSeq(items)
      place(i) == Cardinality({j \in DOMAIN s :
                    \/ Rank(s[j][3]) < Rank(s[i][3])
                    \/ Rank(s[j][3]) = Rank(s[i][3]) /\ j <= i})
  IN  [k \in DOMAIN s |-> s[CHOOSE i \in DOMAIN s : place(i) = k]]

\* renderIndexEntries, between the markers.
Block(children) ==
  <<IndexLine("begin")>> \o Sorted({Item(n, TitleOf(n)) : n \in children}) \o <<IndexLine("end")>>

Least(S) == CHOOSE i \in S : \A j \in S : i <= j

\* The first run of local bullets of an index without markers.
FirstRun(c) ==
  LET bullets == Plain(c, {"item", "away"})
      start == Least(bullets)
  IN  {i \in bullets : \A j \in start..i : j \in bullets}

Replace(c, S, block) ==
  SubSeq(c, 1, Least(S) - 1) \o block \o SubSeq(c, Least(S) + Cardinality(S), Len(c))

\* The region that --fix may rewrite: between the markers, or the first run.
Region(c) ==
  LET begins == Plain(c, {"begin"})
      ends == {i \in Plain(c, {"end"}) : i > Least(begins)}
  IN  IF begins # {} THEN Least(begins)..Least(ends) ELSE FirstRun(c)

\* spliceIndexContent refuses a marker without its counterpart.
MalformedMarkers(c) ==
  LET begins == Plain(c, {"begin"})
      ends == Plain(c, {"end"})
  IN  begins \cup ends # {} /\ (begins = {} \/ ~\E i \in ends : i > Least(begins))

\* spliceIndexContent, where the markers are sound.
Splice(c, block) ==
  LET heads == Plain(c, {"head"})
  IN  IF c = NoIndex THEN <<Intro>> \o block
      ELSE IF Plain(c, {"begin", "item", "away"}) # {} THEN Replace(c, Region(c), block)
      ELSE IF heads # {} THEN
        SubSeq(c, 1, Least(heads) - 1) \o block \o SubSeq(c, Least(heads), Len(c))
      ELSE c \o block

-----------------------------------------------------------------------------
FixInit ==
  /\ documents \in {RootDocs \cup SubDocs, RootDocs}
  /\ title \in {t \in [RootDocs \cup SubDocs -> ToSet(Alphabet)] : \A d \in DOMAIN t : t[d] \in Titles[d]}
  /\ index \in {[root |-> c, sub |-> s] : c \in HandWritten \cup {NoIndex}, s \in {NoIndex, <<Intro>>}}
  /\ temp = [d \in IndexDirs |-> NoIndex]
  /\ fix = [f \in Fixers |-> IdleRun]
  /\ edits = 0 /\ runs = 0 /\ fixKills = 0

Unsteady == [f \in Fixers |-> IF fix[f].pc = "idle" THEN IdleRun ELSE [fix[f] EXCEPT !.steady = FALSE]]

\* Defect: parents before their children.
OrderShallow == <<"root", "sub">>

\* Deepest directories first.
Order == <<"sub", "root">>

\* The run analyses the vault once: names and contents are those of its start.
StartFix(f) ==
  /\ fix[f].pc = "idle" /\ runs < MaxRuns /\ runs' = runs + 1
  /\ fix' = [fix EXCEPT ![f] =
       [pc |-> "next", todo |-> Order, seen |-> index, steady |-> TRUE, refused |-> {},
        children |-> [d \in IndexDirs |-> Children(d)], content |-> NoIndex]]
  /\ UNCHANGED <<documents, title, index, temp, edits, fixKills>>

Advance(w) == [w EXCEPT !.todo = Tail(@), !.pc = "next", !.content = NoIndex]
Refuse(w) == [Advance(w) EXCEPT !.refused = @ \cup {Head(w.todo)}]

\* One directory: nothing to do, a refusal, or a listing from today's titles.
Visit(f) ==
  LET w == fix[f]
      d == Head(w.todo)
      c == w.seen[d]
      sound ==
        \/ w.children[d] = {}
        \/ c # NoIndex /\ MissingEntries(c, w.children[d]) = {} /\ StaleEntries(c, w.children[d]) = {}
  IN
  /\ w.pc = "next" /\ w.todo # <<>>
  /\ fix' = [fix EXCEPT ![f] =
       IF sound THEN Advance(w)
       ELSE IF c # NoIndex /\ MalformedMarkers(c) THEN Refuse(w)
       ELSE [w EXCEPT !.pc = "write", !.content = Splice(c, Block(w.children[d]))]]
  /\ UNCHANGED <<documents, title, index, temp, edits, runs, fixKills>>

\* The temporary file is created exclusively; one that exists is refused.
WriteTemp(f) ==
  LET w == fix[f]
      d == Head(w.todo)
  IN
  /\ w.pc = "write"
  /\ IF temp[d] = NoIndex
     THEN /\ temp' = [temp EXCEPT ![d] = w.content]
          /\ fix' = [fix EXCEPT ![f].pc = "rename"]
     ELSE /\ fix' = [fix EXCEPT ![f] = Refuse(w)]
          /\ UNCHANGED temp
  /\ UNCHANGED <<documents, title, index, edits, runs, fixKills>>

\* The rename replaces whatever the index is by now; it fails, and the run with
\* it, if somebody removed the temporary file.
Rename(f) ==
  LET w == fix[f]
      d == Head(w.todo)
  IN
  /\ w.pc = "rename"
  /\ IF temp[d] = NoIndex
     THEN /\ fix' = [fix EXCEPT ![f] = IdleRun]
          /\ UNCHANGED <<index, temp>>
     ELSE /\ index' = [index EXCEPT ![d] = temp[d]]
          /\ temp' = [temp EXCEPT ![d] = NoIndex]
          /\ fix' = [Unsteady EXCEPT ![f] = Advance(w)]
  /\ UNCHANGED <<documents, title, edits, runs, fixKills>>

\* The run reports, and ends.
Report(f) ==
  /\ fix[f].pc = "next" /\ fix[f].todo = <<>>
  /\ fix' = [fix EXCEPT ![f] = IdleRun]
  /\ UNCHANGED <<documents, title, index, temp, edits, runs, fixKills>>

KillFix(f) ==
  /\ fix[f].pc # "idle" /\ fixKills < MaxFixKills /\ fixKills' = fixKills + 1
  /\ fix' = [fix EXCEPT ![f] = IdleRun]
  /\ UNCHANGED <<documents, title, index, temp, edits, runs>>

-----------------------------------------------------------------------------
(* Authors. *)

Edit(effect) ==
  /\ edits < MaxEdits /\ edits' = edits + 1
  /\ effect
  /\ fix' = Unsteady
  /\ UNCHANGED <<runs, fixKills>>

TypeText(d) ==
  Edit(/\ index[d] # NoIndex
       /\ index' = [index EXCEPT ![d] = Append(@, IndexLine("text"))]
       /\ UNCHANGED <<documents, title, temp>>)

AddOrRemove(n) ==
  Edit(/\ documents' = IF n \in documents THEN documents \ {n} ELSE documents \cup {n}
       /\ UNCHANGED <<title, index, temp>>)

Retitle(n) ==
  Edit(/\ n \in documents
       /\ \E t \in Titles[n] \ {title[n]} : title' = [title EXCEPT ![n] = t]
       /\ UNCHANGED <<documents, index, temp>>)

ClearTemp(d) ==
  Edit(/\ temp[d] # NoIndex
       /\ temp' = [temp EXCEPT ![d] = NoIndex]
       /\ UNCHANGED <<documents, title, index>>)

-----------------------------------------------------------------------------
Run(f) == StartFix(f) \/ Visit(f) \/ WriteTemp(f) \/ Rename(f) \/ Report(f) \/ KillFix(f)

Author ==
  \/ \E d \in IndexDirs : TypeText(d) \/ ClearTemp(d)
  \/ \E n \in RootDocs \cup SubDocs : AddOrRemove(n) \/ Retitle(n)

FixNext == (\E f \in Fixers : Run(f)) \/ Author

FixSpec == FixInit /\ [][FixNext]_fixVars

-----------------------------------------------------------------------------
\* By the plain rule for fences: an even number of delimiters precedes the line.
Outside(c, i) ==
  c[i][1] # "fence" /\ Cardinality({j \in 1..(i - 1) : c[j][1] = "fence"}) % 2 = 0

\* The lines after i and up to j may go: a pair of markers that no fence quotes and
\* what is between them, or bullets that no fence quotes.
MayGo(c, i, j) ==
  \/ i = j
  \/ /\ c[i + 1][1] = "begin" /\ c[j][1] = "end" /\ i + 1 < j
     /\ Outside(c, i + 1) /\ Outside(c, j)
  \/ \A k \in (i + 1)..j : c[k][1] \in {"item", "away"} /\ Outside(c, k)

\* Entries between their markers.
Listing(b) ==
  /\ Len(b) >= 2 /\ b[1][1] = "begin" /\ b[Len(b)][1] = "end"
  /\ \A k \in 2..(Len(b) - 1) : b[k][1] = "item"

\* One listing takes the place of another, or of the first bullets, or stands where
\* there was none; every other line stays as the author wrote it.
OnlyTheListing(old, new) ==
  \E i \in 0..Len(old) : \E j \in i..Len(old) :
    LET end == Len(new) - (Len(old) - j)
    IN  /\ MayGo(old, i, j) /\ i <= end
        /\ SubSeq(new, 1, i) = SubSeq(old, 1, i)
        /\ Listing(SubSeq(new, i + 1, end))
        /\ SubSeq(new, end + 1, Len(new)) = SubSeq(old, j + 1, Len(old))

\* Rewriting a listing leaves the rest of the index alone, whatever its markers,
\* fences and bullets, unless somebody changed the index after the run read it.  A
\* new index gets its introduction.
AuthorsKeepTheirText ==
  [][\A f \in Fixers :
       LET w == fix[f]
           d == Head(w.todo)
       IN (w.pc = "rename" /\ fix'[f].pc = "next" /\ w.seen[d] = index[d] /\ temp[d] = w.content)
            => OnlyTheListing(IF index[d] = NoIndex THEN <<Intro>> ELSE index[d], index'[d])]_fixVars

\* Nothing closes the last fence, and nothing before it tells where the listing
\* goes: it is appended, inside the fence, where no check and no later run sees it.
Swallows(c) ==
  /\ c # NoIndex /\ Plain(c, {"begin", "item", "away", "head"}) = {}
  /\ Cardinality({i \in DOMAIN c : c[i][1] = "fence"}) % 2 = 1

\* When a run that nobody disturbed has passed a directory without refusing it,
\* the check has nothing left to say about it but hand-written entries outside
\* the listing that name nothing; the listing of a parent shows its
\* subdirectory as the run leaves it; and a further run would write the same.
\* Unless the index swallowed the listing.
FixSettles ==
  \A f \in Fixers :
    (fix[f].pc = "next" /\ fix[f].todo = <<>> /\ fix[f].steady) =>
      \A d \in IndexDirs \ fix[f].refused :
        LET c == index[d]
            children == Children(d)
            block == Block(children)
        IN  (children # {} /\ ~Swallows(fix[f].seen[d])) =>
              /\ c # NoIndex /\ MissingEntries(c, children) = {}
              /\ c # fix[f].seen[d] =>
                   /\ Splice(c, block) = c
                   /\ \A n \in StaleEntries(c, children) :
                        \E i \in Plain(c, {"item"}) : c[i][2] = n /\ i \notin Region(c)

=============================================================================
