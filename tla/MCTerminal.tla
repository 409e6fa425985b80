----------------------------- MODULE MCTerminal -----------------------------
(***************************************************************************)
(* A small instance of Terminal: three hosts, scanned by two workers.      *)
(***************************************************************************)
EXTENDS Terminal

CONSTANTS a, b, c, x

MCAddresses == <<a, b, c>>
\* Alerts; what is selected and shown while the table changes; the same with a filter;
\* the form and scans.
MCBudgets ==
  {[known |-> 1, ports |-> 0, tabs |-> {"Alerts"}, filters |-> 1, text |-> 0, range |-> 0,
    polls |-> 1, alerts |-> 2, changes |-> 0],
   [known |-> 2, ports |-> 1, tabs |-> {"Devices", "Interfaces", "Traffic"}, filters |-> 0, text |-> 0, range |-> 0,
    polls |-> 1, alerts |-> 0, changes |-> 2],
   [known |-> 1, ports |-> 1, tabs |-> {"Devices", "Interfaces"}, filters |-> 1, text |-> 0, range |-> 0,
    polls |-> 1, alerts |-> 0, changes |-> 1],
   [known |-> 1, ports |-> 0, tabs |-> {}, filters |-> 0, text |-> 2, range |-> 3,
    polls |-> 1, alerts |-> 0, changes |-> 1]}

MCHits == {<<x, b>>, <<x, 1>>}
=============================================================================
