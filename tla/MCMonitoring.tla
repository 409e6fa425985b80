---------------------------- MODULE MCMonitoring ----------------------------
(***************************************************************************)
(* A small instance of Monitoring: two devices, and ids for one of them to *)
(* be deleted and registered again in the middle of a cycle.               *)
(***************************************************************************)
EXTENDS Monitoring, TLC

CONSTANTS router, switch

Symmetry == Permutations(Devices)
=============================================================================
