---------------------------- MODULE ViewStoreMC ----------------------------
(***************************************************************************)
(* Small instances of ViewStore for TLC: every edit is of document d1.     *)
(***************************************************************************)
EXTENDS ViewStore, TLC

CONSTANTS d1, d2, e1, e2, w1

SameTarget == [e \in Edits |-> d1]

\* Edits are alike.
SameEdits == Permutations(Edits)

\* Two halves of one state space.  Either a single edit is sent, and refreshes
\* may fail and everything around the store may change; or both are, of the
\* only document there is, while other programs write it.
OneEditOrOneDocument ==
  \/ \E e \in Edits : reply[e] = "unsent"
  \/ fails = 0 /\ ext = 0 /\ \A d \in Docs \ {d1} : disk[d] = Absent /\ d \notin erased
=============================================================================
