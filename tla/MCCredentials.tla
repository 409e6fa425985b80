--------------------------- MODULE MCCredentials ---------------------------
(* Credentials with two processes, or one on a host that loses power.       *)
EXTENDS Credentials, TLC

CONSTANTS web, tui, router, k1, k2, k3, ko

KeySymmetry == Permutations({k1, k2, k3})
Symmetry    == Permutations({web, tui}) \cup KeySymmetry
=============================================================================
