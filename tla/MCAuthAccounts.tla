--------------------------- MODULE MCAuthAccounts ---------------------------
(***************************************************************************)
(* AuthAccounts for TLC, on the ports that the configuration names.        *)
(***************************************************************************)
EXTENDS AuthAccounts, NodePorts, TLC

RequestSymmetry == Permutations(Requests) \cup Permutations(Emails)

=============================================================================
