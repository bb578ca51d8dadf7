----------------------------- MODULE StopHookMC -----------------------------
(***************************************************************************)
(* StopHook at the two sides of each of its thresholds.                    *)
(***************************************************************************)
EXTENDS StopHook

MCChurns == [code : {4, 5, 21, 1001}, vault : {0, 1, 49, 50}]

=============================================================================
