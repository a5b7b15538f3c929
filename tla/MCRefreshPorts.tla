--------------------------- MODULE MCRefreshPorts ---------------------------
(***************************************************************************)
(* RefreshPorts for TLC, once for each way in which the ports refresh.     *)
(***************************************************************************)
EXTENDS RefreshPorts, NodePorts, TLC

RotationPorts == Representatives(NodeBehaviour, LAMBDA b : <<b.refresh, b.cleanup>>)

\* The port that rotates in three statements.
SplitPorts == {p \in RotationPorts : "claimRow" \in NodeBehaviour[p].refresh}

\* Tokens, handlers and sessions are each interchangeable.
PortSymmetry == Permutations(Tokens) \cup Permutations(Handlers) \cup Permutations(Sessions)

=============================================================================
