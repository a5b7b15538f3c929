------------------------- MODULE MCRefreshRotation -------------------------
(***************************************************************************)
(* RefreshRotation for TLC.                                                *)
(***************************************************************************)
EXTENDS RefreshRotation, TLC

\* Tokens, handlers and sessions are each interchangeable.
Symmetry == Permutations(Tokens) \cup Permutations(Handlers) \cup Permutations(Sessions)

=============================================================================
