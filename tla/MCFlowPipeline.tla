--------------------------- MODULE MCFlowPipeline ---------------------------
(***************************************************************************)
(* A small instance of FlowPipeline with two listeners.  A behaviour keeps *)
(* within one of two budgets: two records, a clock of two ticks, which is  *)
(* two rollup passes with a bucket boundary in between, and a restart; or  *)
(* three records of one or two units at one instant, for a ring of two     *)
(* records and three units: three small ones are over the limit of the     *)
(* count alone, two large ones over that of the bytes alone.               *)
(***************************************************************************)
EXTENDS FlowPipeline

CONSTANTS netflow, sflow, tcp

VARIABLE budget

MCBudgets == {[records |-> 2, sizes |-> {1}, ticks |-> 2, restarts |-> 1],
              [records |-> 3, sizes |-> {1, 2}, ticks |-> 0, restarts |-> 0]}

WithinBudget ==
  /\ Len(flows) <= budget.records /\ \A i \in DOMAIN flows : flows[i].size \in budget.sizes
  /\ clock <= budget.ticks /\ crashes <= budget.restarts

MCInit == Init /\ budget \in MCBudgets
MCNext == Next /\ UNCHANGED budget /\ WithinBudget'

\* A budget holds back receipts, ticks and restarts only, none of which is owed.
MCSpec == MCInit /\ [][MCNext]_<<vars, budget>> /\ Fairness
=============================================================================
