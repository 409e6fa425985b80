---------------------------- MODULE MCWebServer -----------------------------
(***************************************************************************)
(* A small instance of WebServer: two connections at a time.               *)
(***************************************************************************)
EXTENDS WebServer

CONSTANTS t1, t2

MCThreads == {t1, t2}
MCBodies == {<<>>, <<1, 2>>, <<2, 3>>, <<3, 3>>}
MCCidrs  == {{1, 2}, {2, 3}}

\* Locks and saves; registrations beside the TUI; scans.
MCBudgets ==
  {[kinds |-> Kinds \ {"asset", "register", "scan", "status"}, requests |-> 2, ranges |-> 0,
    failures |-> 1, restarts |-> 0, others |-> 0, background |-> TRUE],
   [kinds |-> {"settings", "oids"}, requests |-> 3, ranges |-> 0,
    failures |-> 2, restarts |-> 1, others |-> 0, background |-> FALSE],
   [kinds |-> {"register", "delete", "detail"}, requests |-> 3, ranges |-> 0,
    failures |-> 0, restarts |-> 0, others |-> 1, background |-> FALSE],
   [kinds |-> {"scan", "status", "asset"}, requests |-> 2, ranges |-> 2,
    failures |-> 0, restarts |-> 1, others |-> 0, background |-> FALSE]}
=============================================================================
