--------------------------- MODULE SnmpCollection ---------------------------
(***************************************************************************)
(* What the threads collect over SNMP, each on a task of its own: a walk   *)
(* for a caller of walk_oid or walk_oid_reliable, a topology discovery,    *)
(* polls of the interfaces of a device, and the reading of its CPU,        *)
(* memory, optical power and template.                                     *)
(*                                                                         *)
(* Every task opens sessions of its own and shares no memory with the      *)
(* others; so one of them runs in a behaviour, and what belongs to the     *)
(* others stays as it is.                                                  *)
(***************************************************************************)
EXTENDS SnmpWalk, Topology, InterfaceSamples, Readings

VARIABLE task  \* what runs

vars == <<task, walkVars, topologyVars, sampleVars, readingVars>>

Tasks == {"walk", "topology", "samples", "readings"}

AWorld == CHOOSE w \in Worlds : TRUE
ACase  == CHOOSE c \in Cases : TRUE
NoWalk == table = {} /\ call = [reliable |-> FALSE, valid |-> FALSE, limit |-> 0, faulty |-> FALSE]
NoPoll ==
  /\ device = [there |-> {}, restarts |-> 0, total |-> [i \in Interfaces |-> 0], base |-> [i \in Interfaces |-> 0]]
  /\ agent = "sound" /\ engine = "web"

Init ==
  /\ task \in Tasks
  /\ task = "walk"     \/ (task # "walk" /\ NoWalk)
  /\ task = "topology" \/ (task # "topology" /\ world = AWorld)
  /\ task = "samples"  \/ (task # "samples" /\ NoPoll)
  /\ task = "readings" \/ (task # "readings" /\ case = ACase)
  /\ WalkInit /\ TopologyInit /\ SamplesInit /\ ReadingsInit

Walking  == task = "walk" /\ WalkNext /\ UNCHANGED <<topologyVars, sampleVars, readingVars>>
Drawing  == task = "topology" /\ TopologyNext /\ UNCHANGED <<walkVars, sampleVars, readingVars>>
Sampling == task = "samples" /\ SamplesNext /\ UNCHANGED <<walkVars, topologyVars, readingVars>>
Reading  == task = "readings" /\ ReadingsNext /\ UNCHANGED <<walkVars, topologyVars, sampleVars>>

Next == (Walking \/ Drawing \/ Sampling \/ Reading) /\ UNCHANGED task

Spec == Init /\ [][Next]_vars
=============================================================================
