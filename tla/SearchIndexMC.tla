---------------------------- MODULE SearchIndexMC ----------------------------
(* Two searches and a reindex.  The searches are interchangeable, and so   *)
(* are the models; the runs of liveness properties use no symmetry.        *)
EXTENDS SearchIndex, TLC

CONSTANTS s1, s2, r1

SameProgram == Permutations({s1, s2}) \cup Permutations(Models)
=============================================================================
