---------------------------- MODULE UpstreamGuard ----------------------------
(***************************************************************************)
(* A fork keeps its difference from upstream small and explained: the     *)
(* upstream commit it has last merged is recorded in one file, and every   *)
(* upstream file it changes has a line with a reason in another.  The      *)
(* guard measures the working tree against both, and a second tool tells   *)
(* where the next merge will hurt.  Nothing tells a commit of upstream     *)
(* from one of the fork's own, which is recorded just as well.             *)
(***************************************************************************)
EXTENDS Integers, Sequences, FiniteSets, SequencesExt

CONSTANTS
  TreePaths,     \* the paths of both trees
  Unreadable,    \* the paths whose line is read back as another, or as a comment
  MaxCommits,    \* bound: commits of upstream
  MaxOwnCommits, \* bound: commits of the fork
  MaxHandEdits,  \* bound: edits of the tree and of the list by hand
  MaxEntries,    \* bound: lines of the list when one is added by hand
  Unwritten      \* no such file

ASSUME GuardAssumption ==
  /\ IsFiniteSet(TreePaths)
  /\ {MaxCommits, MaxOwnCommits, MaxHandEdits, MaxEntries} \subseteq Nat
  /\ Unwritten \notin Int
  /\ Unwritten \notin Seq([path : TreePaths, reason : {"real", "todo", ""}])

VARIABLES
  upstream,  \* the trees of upstream's commits, oldest first
  forked,    \* those of the fork's own, merges among them
  merged,    \* the newest of them that HEAD descends from
  merging,   \* the one being merged (MERGE_HEAD), or 0
  head,      \* what HEAD holds: its tree and the guard's two files
  worktree,  \* the working tree
  handEdits  \* edits made by hand so far

guardVars == <<upstream, forked, merged, merging, head, worktree, handEdits>>

\* A file of upstream is the number of the commit that changed it last, one of the
\* fork's the negative of that of the edit or of the merge that made it.
Missing == 0
HandMade == -(handEdits + 1)
MergeMade == -(MaxHandEdits + Len(upstream))

\* A commit of upstream goes by its number, one of the fork's by its negative.
OwnCommits == {-k : k \in DOMAIN forked}
Revisions == DOMAIN upstream \cup OwnCommits
TreeAt(rev) == IF rev > 0 THEN upstream[rev] ELSE forked[-rev]
Tip == IF forked = <<>> THEN merged ELSE -Len(forked)

\* A list is made of lines with a path and a reason: one that somebody wrote,
\* the placeholder, or none.
Real == "real"
Todo == "todo"
NoReason == ""
Entry(path, reason) == [path |-> path, reason |-> reason]

-----------------------------------------------------------------------------
\* The lines that are read as entries: a path counts once, and only with a reason.
Legible(line) == line.path \notin Unreadable /\ line.reason # NoReason

Entries(list) ==
  {list[i] : i \in {j \in DOMAIN list :
     Legible(list[j]) /\ \A k \in 1..(j - 1) : Legible(list[k]) => list[k].path # list[j].path}}

\* A line without a reason, or for a path that an earlier line has.
Malformed(list) ==
  \E i \in DOMAIN list :
    /\ list[i].path \notin Unreadable
    /\ \/ list[i].reason = NoReason
       \/ \E k \in 1..(i - 1) : list[k].path = list[i].path /\ list[k].reason # NoReason

Reasons(list, path) == {entry.reason : entry \in {e \in Entries(list) : e.path = path}}

Rendered(entries) == SetToSeq(entries)

\* The paths that differ between two trees, a rename being two of them.
DiffNames(from, to) == {p \in TreePaths : from[p] # to[p]}

\* The paths of the difference which the commit measured from has.
Touched(copy, rev) ==
  {p \in DiffNames(TreeAt(rev), copy.tree) : TreeAt(rev)[p] # Missing}

Deleted(copy, rev) == {p \in Touched(copy, rev) : copy.tree[p] = Missing}

Finding(kind, path) == [kind |-> kind, path |-> path]

\* What the check reports of a difference, and the lines nothing needs any more.
Classify(copy, rev) ==
  LET kept == Touched(copy, rev) \ Deleted(copy, rev)
  IN {Finding("deletion", p) : p \in Deleted(copy, rev)}
     \cup {Finding("unallowlisted", p) : p \in {q \in kept : Reasons(copy.list, q) = {}}}
     \cup {Finding("missing-reason", p) : p \in {q \in kept : Reasons(copy.list, q) = {Todo}}}

Stale(copy, rev) == {e.path : e \in Entries(copy.list)} \ Touched(copy, rev)

-----------------------------------------------------------------------------
\* The newest commit of upstream in the history of HEAD or the merge under way, and
\* all that history.
Newest == IF merging > merged THEN merging ELSE merged
Ancestors == 1..Newest \cup OwnCommits

\* Defect of Refused: any commit of the repository can be measured from.
RefusedIfMissing(rev, shallow, fetch) ==
  \/ rev \notin Revisions
  \/ shallow /\ ~fetch /\ rev # Tip

\* A shallow clone holds a commit other than HEAD only if it is fetched, and cannot
\* tell what descends from what.
Refused(rev, shallow, fetch) ==
  \/ rev \notin Revisions
  \/ shallow /\ ~fetch /\ rev # Tip
  \/ ~shallow /\ rev \notin Ancestors

\* The check passes: it changes nothing, so that it is a predicate here.
Passes(copy, shallow, fetch) ==
  /\ ~Refused(copy.sync, shallow, fetch)
  /\ copy.list # Unwritten
  /\ ~Malformed(copy.list)
  /\ Classify(copy, copy.sync) = {}

\* The list written from the difference: reasons are carried over, a path without
\* one gets the placeholder, deletions and paths that no longer differ get nothing.
Regenerated(copy, rev) ==
  LET known == IF copy.list = Unwritten THEN {} ELSE Entries(copy.list)
      ReasonOf(p) == IF \E e \in known : e.path = p
                     THEN (CHOOSE e \in known : e.path = p).reason ELSE Todo
  IN Rendered({Entry(p, ReasonOf(p)) : p \in Touched(copy, rev) \ Deleted(copy, rev)})

-----------------------------------------------------------------------------
\* `git merge` of a tree, file by file: what one side alone has changed is
\* taken, and a conflict is resolved to either side or to something new.
Conflicts(base, ours, theirs) ==
  {p \in TreePaths : base[p] # ours[p] /\ base[p] # theirs[p] /\ ours[p] # theirs[p]}

Merges(base, ours, theirs) ==
  {tree \in [TreePaths -> UNION {{ours[p], theirs[p], MergeMade} : p \in TreePaths}] :
     \A p \in TreePaths :
       IF p \in Conflicts(base, ours, theirs) THEN tree[p] \in {ours[p], theirs[p], MergeMade}
       ELSE tree[p] = (IF base[p] = ours[p] THEN theirs[p] ELSE ours[p])}

\* The report before a merge: what both sides have changed since the sync point.
Overlap(rev) ==
  DiffNames(TreeAt(rev), upstream[Len(upstream)]) \cap DiffNames(TreeAt(rev), head.tree)

\* How far upstream is ahead of one of its commits.
Ahead(rev) == Len(upstream) - rev

-----------------------------------------------------------------------------
GuardInit ==
  /\ \E tree \in [TreePaths -> {Missing, 1}] :
       /\ upstream = <<tree>>
       /\ head = [tree |-> tree, sync |-> Unwritten, list |-> Unwritten]
  /\ forked = <<>> /\ merged = 1 /\ merging = 0
  /\ worktree = head
  /\ handEdits = 0

\* Upstream changes, adds or deletes one file.
Publish ==
  /\ Len(upstream) < MaxCommits
  /\ \E p \in TreePaths, new \in {Missing, Len(upstream) + 1} :
       /\ new # upstream[Len(upstream)][p]
       /\ upstream' = Append(upstream, [upstream[Len(upstream)] EXCEPT ![p] = new])
  /\ UNCHANGED <<forked, merged, merging, head, worktree, handEdits>>

\* Somebody changes or deletes a file, or puts an earlier version back.
EditFile ==
  /\ handEdits < MaxHandEdits
  /\ \E p \in TreePaths :
       \E new \in ({Missing, HandMade} \cup {TreeAt(n)[p] : n \in Ancestors}) \ {worktree.tree[p]} :
         worktree' = [worktree EXCEPT !.tree[p] = new]
  /\ handEdits' = handEdits + 1
  /\ UNCHANGED <<upstream, forked, merged, merging, head>>

\* Somebody adds a line to the list, or writes a reason over what a line has.
EditList ==
  /\ handEdits < MaxHandEdits
  /\ LET list == IF worktree.list = Unwritten THEN <<>> ELSE worktree.list
     IN \/ /\ Len(list) < MaxEntries
           /\ \E p \in TreePaths \ Unreadable, reason \in {Real, Todo, NoReason} :
                worktree' = [worktree EXCEPT !.list = Append(list, Entry(p, reason))]
        \/ \E i \in DOMAIN list :
             /\ list[i].reason # Real
             /\ worktree' = [worktree EXCEPT !.list[i].reason = Real]
  /\ handEdits' = handEdits + 1
  /\ UNCHANGED <<upstream, forked, merged, merging, head>>

Commit ==
  /\ Len(forked) < MaxOwnCommits
  /\ worktree # head \/ merging # 0
  /\ forked' = Append(forked, worktree.tree)
  /\ head' = worktree
  /\ merged' = IF merging = 0 THEN merged ELSE merging
  /\ merging' = 0
  /\ UNCHANGED <<upstream, worktree, handEdits>>

\* The merge is left uncommitted until Commit; the two files are the fork's own.
Merge ==
  /\ merging = 0 /\ worktree = head /\ merged < Len(upstream)
  /\ \E tree \in Merges(upstream[merged], head.tree, upstream[Len(upstream)]) :
       worktree' = [worktree EXCEPT !.tree = tree]
  /\ merging' = Len(upstream)
  /\ UNCHANGED <<upstream, forked, merged, head, handEdits>>

AbortMerge ==
  /\ merging # 0
  /\ worktree' = head
  /\ merging' = 0
  /\ UNCHANGED <<upstream, forked, merged, head, handEdits>>

\* --set-sync-point of a commit: refused off the history of HEAD and MERGE_HEAD.
RecordSyncPoint ==
  /\ \E rev \in Revisions :
       /\ ~Refused(rev, FALSE, FALSE)
       /\ worktree' = [worktree EXCEPT !.sync = rev]
  /\ UNCHANGED <<upstream, forked, merged, merging, head, handEdits>>

\* --regenerate, from the recorded commit or (--sync-point) from another.
Regenerate ==
  /\ \E rev \in {worktree.sync} \cup Revisions :
       /\ ~Refused(rev, FALSE, FALSE)
       /\ worktree' = [worktree EXCEPT !.list = Regenerated(worktree, rev)]
  /\ UNCHANGED <<upstream, forked, merged, merging, head, handEdits>>

GuardNext ==
  \/ Publish \/ EditFile \/ EditList \/ Commit \/ Merge \/ AbortMerge
  \/ RecordSyncPoint \/ Regenerate

GuardSpec == GuardInit /\ [][GuardNext]_guardVars

-----------------------------------------------------------------------------
\* Unexplained(rev): upstream's files at a commit which the tree does not have as
\* they are there, and for which the list has no written reason.
Unexplained(rev) ==
  {p \in TreePaths :
     /\ TreeAt(rev)[p] \notin {Missing, worktree.tree[p]}
     /\ worktree.tree[p] = Missing \/ Reasons(worktree.list, p) # {Real}}

\* What a pass says (the comment on the ancestor test in runGuard).  The commit
\* measured from is in the history of HEAD or of the merge under way.  When it is
\* the newest of upstream's there, every file of upstream that differs is still there
\* and has a written reason.  A fork that forgets to record a merge is told less: a
\* file which upstream added since, or which is as it was before, goes unseen.  And a
\* fork that records a commit of its own, as the code lets it, is told only of what
\* it changed since: whatever it had changed by then passes unexplained.
PassesAreExplained ==
  Passes(worktree, FALSE, FALSE) =>
    /\ worktree.sync \in Ancestors
    /\ worktree.sync = Newest => Unexplained(Newest) = {}
    /\ \A p \in Unexplained(Newest) :
         \/ worktree.sync \in 1..(Newest - 1) /\ upstream[worktree.sync][p] = Missing
         \/ worktree.sync # Newest /\ worktree.tree[p] = TreeAt(worktree.sync)[p]
         \/ worktree.sync \in OwnCommits /\ forked[-worktree.sync][p] = Missing

\* The clone of the build machine, which cannot see the history, agrees with a full
\* one unless the recorded commit is off it, where it alone may pass.
CloneAgrees ==
  merging = 0 =>
    /\ Passes(head, FALSE, FALSE) => Passes(head, TRUE, TRUE)
    /\ Passes(head, TRUE, TRUE) /\ head.sync \in Ancestors => Passes(head, FALSE, FALSE)

\* Regenerating settles the list: whatever the old one held and whatever was merged
\* or aborted since, the check then asks for the reasons nobody wrote and reports
\* deletions, and nothing else; a written reason of a file that still differs is
\* kept; doing it again changes nothing.  A path whose line is not read back
\* (it begins with #) is asked for for ever.
RegenerationSettles ==
  \A rev \in Ancestors :
    LET after == [worktree EXCEPT !.list = Regenerated(worktree, rev)]
        old == IF worktree.list = Unwritten THEN <<>> ELSE worktree.list
        kept == Touched(worktree, rev) \ Deleted(worktree, rev)
        unwritten == {p \in kept : Reasons(old, p) # {Real}}
    IN /\ ~Malformed(after.list)
       /\ Stale(after, rev) = {}
       /\ Classify(after, rev) =
            {Finding("deletion", p) : p \in Deleted(worktree, rev)}
            \cup {Finding("missing-reason", p) : p \in unwritten \ Unreadable}
            \cup {Finding("unallowlisted", p) : p \in kept \cap Unreadable}
       /\ Regenerated(after, rev) = after.list

\* The report misses no conflict of the merge it announces, as long as the recorded
\* commit is the one merged last ("A file both sides changed is where the next
\* conflict comes from", upstream-drift.ts).
ConflictsAreForeseen ==
  worktree.sync = merged =>
    /\ Conflicts(upstream[merged], head.tree, upstream[Len(upstream)]) \subseteq Overlap(merged)
    /\ Ahead(merged) = 0 => Overlap(merged) = {}

\* What a fork relies on: a pass is explained, here and on the build machine, the
\* list can be regenerated and the report misses no conflict.
GuardHolds ==
  PassesAreExplained /\ CloneAgrees /\ RegenerationSettles /\ ConflictsAreForeseen
=============================================================================
