------------------------------ MODULE SnmpWalk ------------------------------
(***************************************************************************)
(* Walking a table of an SNMP agent with GETNEXT: the plain walk           *)
(* (walk_oid_with_limit of src/snmp/client.rs), which ends without a word  *)
(* on every error, and the reliable one (walk_with of                      *)
(* src/snmp/walk_api.rs), which says how it ended, keeps a deadline and    *)
(* can be cancelled.                                                       *)
(*                                                                         *)
(* An OID is its place in the order: 0 is the prefix, 1 .. MaxOid is what  *)
(* lies under it, and -1 and MaxOid + 1 lie outside.  The agent's table    *)
(* may change during the walk, and the agent may be a faulty one that      *)
(* answers anything.                                                       *)
(***************************************************************************)
EXTENDS Integers, Sequences, FiniteSets

CONSTANTS
  MaxOid,      \* the number of OIDs under the prefix
  WalkLimits,  \* values of max_varbinds
  MaxChanges   \* bound: how often the table changes during a walk

ASSUME WalkAssumption == MaxOid \in Nat \ {0} /\ WalkLimits \subseteq Nat /\ MaxChanges \in Nat

Under   == 1 .. MaxOid
Outside == {-1, MaxOid + 1}
Errors  == {"timeout", "transport", "agentError", "empty", "invalidOid"}
Row(o)  == [kind |-> "row", oid |-> o]
Plainly(kind) == [kind |-> kind, oid |-> 0]
Answers == {Row(o) : o \in Under \cup Outside \cup {0}}
             \cup {Plainly(k) : k \in Errors \cup {"endOfMib", "unsupported"}}

VARIABLES
  call,       \* the call: which walk, its prefix and address, its limit; and the agent
  table,      \* the OIDs the agent has under the prefix
  at,         \* where the walk is
  found,      \* varbinds
  outcome,    \* ReliableWalkStatus, or "Ok" or "Err" of the plain walk
  cancelled,  \* the caller's flag
  expired,    \* the deadline has passed
  changes,    \* bound: changes of the table so far
  stayed,     \* history: the OIDs that have been in the table throughout
  erred,      \* history: an answer was an error or did not come
  late        \* history: requests sent after the cancellation

walkVars == <<call, table, at, found, outcome, cancelled, expired, changes, stayed, erred, late>>
environment == <<call, table, cancelled, expired, changes, stayed>>

Calls == [reliable: BOOLEAN, valid: BOOLEAN, limit: WalkLimits, faulty: BOOLEAN]

WalkInit ==
  /\ call \in Calls /\ table \in SUBSET Under /\ stayed = table
  /\ at = "start" /\ found = <<>> /\ outcome = "none"
  /\ cancelled = FALSE /\ expired = FALSE /\ changes = 0
  /\ erred = FALSE /\ late = 0

\* The OID the next request asks the successor of.
Current == IF found = <<>> THEN 0 ELSE found[Len(found)]

FoundAny == IF found = <<>> THEN "Failed" ELSE "Partial"

\* An answer is taken if it lies under the prefix and goes on from the last one.
Extends(a) == a.kind = "row" /\ a.oid \in Under /\ a.oid > Current

Ended(how) == at' = "done" /\ outcome' = how
Goto(place) == at' = place /\ UNCHANGED outcome

-----------------------------------------------------------------------------
\* An empty address or prefix; the reliable walk also refuses a limit of 0.
Refuse ==
  /\ at = "start" /\ (~call.valid \/ (call.reliable /\ call.limit = 0))
  /\ Ended(IF call.reliable THEN "Failed" ELSE "Err")
  /\ UNCHANGED <<environment, found, erred, late>>

Start ==
  /\ at = "start" /\ call.valid /\ (call.reliable => call.limit > 0)
  /\ Goto("head")
  /\ UNCHANGED <<environment, found, erred, late>>

\* The head of the plain walk's loop.
PlainHead ==
  /\ at = "head" /\ ~call.reliable
  /\ IF Len(found) < call.limit THEN Goto("asking") ELSE Ended("Ok")
  /\ UNCHANGED <<environment, found, erred, late>>

\* The head of the reliable walk's loop: the first request is sent at once.
ReliableHead ==
  /\ at = "head" /\ call.reliable
  /\ CASE cancelled -> Ended("Cancelled")
       [] ~cancelled /\ expired -> Ended(FoundAny)
       [] OTHER -> Goto(IF found = <<>> THEN "due" ELSE "waiting")
  /\ UNCHANGED <<environment, found, erred, late>>

\* The wait between two requests looks at both flags, but not at its very end.
Wait ==
  /\ at = "waiting"
  /\ \/ cancelled /\ Ended("Cancelled")
     \/ expired /\ Ended(FoundAny)
     \/ Goto("due")
  /\ UNCHANGED <<environment, found, erred, late>>

Ask ==
  /\ at = "due"
  /\ IF expired THEN Ended(FoundAny) /\ UNCHANGED late
     ELSE Goto("asking") /\ late' = IF cancelled THEN late + 1 ELSE late
  /\ UNCHANGED <<environment, found, erred>>

\* What an agent may answer: a sound one names the successor of the OID it is asked for,
\* or says that there is none.
Answered(a) ==
  \/ call.faulty
  \/ a.kind \in Errors
  \/ /\ \E o \in table : o > Current
     /\ a.kind = "row" /\ a.oid \in table /\ a.oid > Current
     /\ \A o \in table : o > Current => a.oid <= o
  \/ /\ \A o \in table : o <= Current
     /\ a.kind = "endOfMib" \/ a = Row(MaxOid + 1)

\* The row is kept.  The reliable walk ends at its limit here, the plain one at its head.
Take(a) ==
  /\ at = "asking" /\ Extends(a)
  /\ found' = Append(found, a.oid)
  /\ IF call.reliable /\ Len(found) + 1 = call.limit THEN Ended("Partial") ELSE Goto("head")
  /\ UNCHANGED <<environment, erred, late>>

\* Mutant of EndedBy: an answer without a varbind is taken for the end of the table.
EndedByEmpty(a) ==
  CASE a.kind \in {"endOfMib", "empty"} \/ (a.kind = "row" /\ a.oid \in Outside) -> "Complete"
    [] a.kind = "unsupported" -> "Unsupported"
    [] OTHER -> FoundAny

\* How the reliable walk ends with an answer it does not keep.
EndedBy(a) ==
  CASE a.kind = "endOfMib" \/ (a.kind = "row" /\ a.oid \in Outside) -> "Complete"
    [] a.kind = "unsupported" -> "Unsupported"
    [] OTHER -> FoundAny

End(a) ==
  /\ at = "asking" /\ ~Extends(a)
  /\ Ended(IF call.reliable THEN EndedBy(a) ELSE "Ok")
  /\ erred' = (erred \/ a.kind \in Errors)
  /\ UNCHANGED <<environment, found, late>>

-----------------------------------------------------------------------------
\* The table of the agent changes.
Change ==
  /\ at # "done" /\ changes < MaxChanges
  /\ table' \in SUBSET Under
  /\ stayed' = stayed \cap table' /\ changes' = changes + 1
  /\ UNCHANGED <<call, at, found, outcome, cancelled, expired, erred, late>>

Cancel ==
  /\ at # "done" /\ call.reliable /\ ~cancelled /\ cancelled' = TRUE
  /\ UNCHANGED <<call, table, at, found, outcome, expired, changes, stayed, erred, late>>

Expire ==
  /\ at # "done" /\ call.reliable /\ ~expired /\ expired' = TRUE
  /\ UNCHANGED <<call, table, at, found, outcome, cancelled, changes, stayed, erred, late>>

WalkNext ==
  \/ Refuse \/ Start \/ PlainHead \/ ReliableHead \/ Wait \/ Ask
  \/ \E a \in Answers : Answered(a) /\ (Take(a) \/ End(a))
  \/ Change \/ Cancel \/ Expire

WalkSpec == WalkInit /\ [][WalkNext]_walkVars

-----------------------------------------------------------------------------
\* A walk goes forward within its prefix and its limit, whatever the agent answers.
WalkIncreases ==
  /\ \A i \in DOMAIN found : found[i] \in Under
  /\ \A i, j \in DOMAIN found : i < j => found[i] < found[j]
  /\ Len(found) <= call.limit

\* A sound agent's rows that stay are not skipped, however the others change.
NoHole ==
  ~call.faulty =>
    \A o \in stayed : o <= Current => \E i \in DOMAIN found : found[i] = o

\* What the status says is so: a complete walk has seen the whole table and no error, a
\* partial one has rows, a failed one has none.
StatusIsTrue ==
  /\ outcome = "Complete" => ~erred
  /\ outcome = "Complete" /\ ~call.faulty => \A o \in stayed : \E i \in DOMAIN found : found[i] = o
  /\ outcome = "Partial" => found # <<>>
  /\ outcome \in {"Failed", "Err"} => found = <<>>

\* Once it is cancelled a walk sends at most the request it was about to send.
StopsWhenCancelled == late <= 1

\* What the callers of a walk rely on: topology discovery that the rows are a beginning of
\* the table, a caller of the reliable walk that the status tells how much it is.
WalksAreHonest == WalkIncreases /\ NoHole /\ StatusIsTrue /\ StopsWhenCancelled
=============================================================================
