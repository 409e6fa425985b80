-------------------------- MODULE MCFlowTemplates --------------------------
(***************************************************************************)
(* A small instance of FlowTemplates: a v9 scope on one listener and an    *)
(* IPFIX scope on the other, two template ids and limits of one, so that   *)
(* every cap, expiry, replay and second parking is reached within three    *)
(* datagrams.                                                              *)
(***************************************************************************)
EXTENDS FlowTemplates, TLC

CONSTANTS netflow, ipfix, v9a, ipfixA, t1, t2

MCListeners  == {netflow, ipfix}
MCScopes     == {v9a, ipfixA}
MCListenerOf == (v9a :> netflow) @@ (ipfixA :> ipfix)

Defs(ids) == [kind |-> "templates", defs |-> ids, tid |-> t1]
Data(id)  == [kind |-> "data", defs |-> <<>>, tid |-> id]
Options   == [kind |-> "other", defs |-> <<>>, tid |-> t1]

\* Two templates in one set, data on both sides of a template set, and two data
\* sets before an options set.
MCDatagrams == { <<Defs(<<t2, t1>>)>>,
                 <<Data(t1), Defs(<<t2>>), Data(t2)>>,
                 <<Data(t2), Data(t1), Options>> }
=============================================================================
