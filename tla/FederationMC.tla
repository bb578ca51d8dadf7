---------------------------- MODULE FederationMC ----------------------------
(***************************************************************************)
(* Federation on three documents that every prompt names in one of two     *)
(* orders, the search adding one without a search term and a repeated one. *)
(***************************************************************************)
EXTENDS Federation

CONSTANTS A, B, C, U

MCDocs == {A, B, C, U}
MCTagged == {A, B, C}
MCPrompts == {[refs |-> <<A, B, C>>, matches |-> <<U, A>>],
              [refs |-> <<B, A, C>>, matches |-> <<>>]}

=============================================================================
