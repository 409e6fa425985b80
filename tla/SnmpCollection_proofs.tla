------------------------ MODULE SnmpCollection_proofs ------------------------
(***************************************************************************)
(* Every walk of SnmpCollection is honest, whatever the number of OIDs,    *)
(* the limit, the changes of the table and the answers of the agent; the   *)
(* samples of every interface are true, whatever the width of the          *)
(* counters, the device does and the answers that are lost; a topology     *)
(* that is drawn is sound, whatever the device says and where its tables   *)
(* are cut, and complete where none of them was; and of the many places a  *)
(* device may give a value in, the one that is shown is the one that is    *)
(* named, whatever the device, the configuration and the answers that are  *)
(* lost.                                                                   *)
(***************************************************************************)
EXTENDS SnmpCollection, Basics, SequenceTheorems, TLAPS

WalkPlaces == {"start", "head", "waiting", "due", "asking", "done"}
Statuses   == {"Complete", "Unsupported", "Partial", "Failed", "Cancelled", "Ok", "Err"}

\* The state is well formed.
WalkTypeOK ==
  /\ call \in Calls /\ table \subseteq Under /\ stayed \subseteq table
  /\ at \in WalkPlaces /\ outcome \in Statuses \cup {"none"}
  /\ found \in Seq(Under) /\ changes \in Nat /\ late \in Nat
  /\ cancelled \in BOOLEAN /\ expired \in BOOLEAN /\ erred \in BOOLEAN

\* Every row taken lies beyond those before it.
Increasing == \A i, j \in DOMAIN found : i < j => found[i] < found[j]

\* There is room for a row while one may be asked for; before the first request there
\* are no rows, and before the end neither an error nor an outcome.
Progress ==
  /\ Len(found) <= call.limit
  /\ at \in {"waiting", "due", "asking"} => Len(found) < call.limit
  /\ at = "head" /\ call.reliable => Len(found) < call.limit
  /\ at = "start" => found = <<>>
  /\ at # "done" => ~erred /\ outcome = "none"

\* A walk that was cancelled does not come back to where requests are decided on.
Cancellation ==
  /\ late <= 1 /\ (late = 1 => cancelled)
  /\ at \in {"start", "waiting", "due"} => late = 0

WalkInv == WalkTypeOK /\ Increasing /\ Progress /\ NoHole /\ StatusIsTrue /\ Cancellation

-----------------------------------------------------------------------------
\* The walk is at an OID of its range; only without rows it is at the prefix.
LEMMA CurrentIsAnOid ==
  ASSUME WalkAssumption, WalkTypeOK
  PROVE  /\ Current \in 0 .. MaxOid
         /\ found # <<>> => Len(found) \in DOMAIN found /\ Current = found[Len(found)]
  BY DEF WalkAssumption, WalkTypeOK, Current, Under

\* The walk is as far as its furthest row.
LEMMA NothingBeyondCurrent ==
  ASSUME WalkAssumption, WalkTypeOK, Increasing
  PROVE  \A i \in DOMAIN found : found[i] <= Current
<1>1. SUFFICES ASSUME NEW i \in DOMAIN found PROVE found[i] <= Current
  OBVIOUS
<1>2. found \in Seq(Under) /\ Under \subseteq Int /\ i \in 1 .. Len(found) /\ Len(found) \in Nat
  BY DEF WalkTypeOK, Under, WalkAssumption
<1>3. found # <<>> /\ \A k \in DOMAIN found : found[k] \in Int
  <2>1. found # <<>>
    BY <1>2
  <2>2. ASSUME NEW k \in DOMAIN found PROVE found[k] \in Int
    <3>1. found[k] \in Under
      BY <1>2, <2>2
    <3> QED
      BY <3>1, <1>2
  <2> QED
    BY <2>1, <2>2
<1>4. Current = found[Len(found)] /\ Len(found) \in DOMAIN found
  BY <1>3, CurrentIsAnOid
<1>5. CASE i = Len(found)
  BY <1>3, <1>4, <1>5
<1>6. CASE i # Len(found)
  <2>1. i < Len(found)
    BY <1>2, <1>6
  <2> QED
    BY <2>1, <1>2, <1>3, <1>4 DEF Increasing
<1> QED
  BY <1>5, <1>6

\* FoundAny says whether there are rows.
LEMMA FoundAnyIsTrue ==
  /\ FoundAny \in {"Failed", "Partial"}
  /\ FoundAny = "Partial" => found # <<>>
  /\ FoundAny = "Failed" => found = <<>>
  BY DEF FoundAny

\* A walk starts honestly.
LEMMA WalkInitInv == ASSUME WalkAssumption PROVE WalkInit => WalkInv
<1>1. SUFFICES ASSUME WalkInit PROVE WalkInv
  OBVIOUS
<1>2. WalkTypeOK
  <2>1. call \in Calls /\ table \subseteq Under /\ stayed \subseteq table
    BY <1>1 DEF WalkInit
  <2>2. found \in Seq(Under)
    BY <1>1 DEF WalkInit
  <2> QED
    BY <1>1, <2>1, <2>2 DEF WalkInit, WalkTypeOK, WalkPlaces
<1>3. call.limit \in Nat
  BY <1>2 DEF WalkTypeOK, Calls, WalkAssumption
<1>4. Increasing /\ Progress
  BY <1>1, <1>3 DEF WalkInit, Increasing, Progress
<1>5. NoHole
  BY <1>1 DEF WalkInit, NoHole, Current, Under
<1>6. StatusIsTrue /\ Cancellation
  BY <1>1 DEF WalkInit, StatusIsTrue, Cancellation
<1> QED
  BY <1>2, <1>4, <1>5, <1>6 DEF WalkInv

-----------------------------------------------------------------------------
(* The steps.                                                              *)

\* The limit of a walk is a number.
LEMMA LimitIsNat == ASSUME WalkAssumption, WalkTypeOK PROVE call.limit \in Nat
  BY DEF WalkAssumption, WalkTypeOK, Calls

\* A step that takes no row and leaves the agent's table alone keeps the rows right.
LEMMA SameRows ==
  ASSUME WalkInv, UNCHANGED <<environment, found>>
  PROVE  Increasing' /\ NoHole' /\ call' = call /\ cancelled' = cancelled
<1>1. call' = call /\ stayed' = stayed /\ found' = found /\ cancelled' = cancelled
  BY DEF environment
<1>2. Current' = Current
  BY <1>1 DEF Current
<1> QED
  BY <1>1, <1>2 DEF WalkInv, Increasing, NoHole

\* A step that takes no row, and neither ends the walk nor sends after a cancellation.
LEMMA GotoKeeps ==
  ASSUME WalkAssumption, WalkInv, UNCHANGED <<environment, found, erred>>,
         at # "done", NEW place \in WalkPlaces \ {"start", "done"}, Goto(place),
         place \in {"waiting", "due", "asking"} => Len(found) < call.limit,
         place = "head" /\ call.reliable => Len(found) < call.limit,
         late' \in {0, 1}, late' = 1 => cancelled,
         place \in {"waiting", "due"} => late' = 0
  PROVE  WalkInv'
<1>1. WalkTypeOK'
  BY DEF WalkInv, WalkTypeOK, environment, Goto
<1>2. Increasing' /\ NoHole' /\ call' = call /\ cancelled' = cancelled
  BY SameRows
<1>3. Progress'
  BY <1>2 DEF WalkInv, Progress, Goto, WalkPlaces
<1>4. outcome' = "none"
  BY DEF WalkInv, Progress, Goto
<1>5. StatusIsTrue'
  BY <1>4 DEF StatusIsTrue
<1>6. Cancellation'
  BY <1>2 DEF Cancellation, Goto, WalkPlaces
<1> QED
  BY <1>1, <1>2, <1>3, <1>5, <1>6 DEF WalkInv

\* A step that ends the walk without a new row, with a status that is true.
LEMMA EndedKeeps ==
  ASSUME WalkAssumption, WalkInv, UNCHANGED <<environment, found, late>>,
         erred' \in BOOLEAN, NEW how \in Statuses, Ended(how), StatusIsTrue'
  PROVE  WalkInv'
<1>1. WalkTypeOK'
  BY DEF WalkInv, WalkTypeOK, environment, Ended, WalkPlaces
<1>2. Increasing' /\ NoHole' /\ call' = call /\ cancelled' = cancelled
  BY SameRows
<1>3. Progress'
  BY <1>2 DEF WalkInv, Progress, Ended
<1>4. Cancellation'
  BY <1>2 DEF WalkInv, Cancellation, Ended
<1> QED
  BY <1>1, <1>2, <1>3, <1>4 DEF WalkInv

\* A walk that ends as cancelled, as a plain one, or by whether it has rows tells the truth.
LEMMA PlainEnds ==
  ASSUME UNCHANGED found, NEW how, Ended(how),
         how \in {"Cancelled", "Ok", "Unsupported", FoundAny}
  PROVE  StatusIsTrue' /\ how \in Statuses
<1>1. found' = found /\ outcome' = how
  BY DEF Ended
<1> QED
  BY <1>1, FoundAnyIsTrue DEF StatusIsTrue, Statuses

\* The heads of the loops, the wait and the request keep the walk honest.
LEMMA ControlKeeps ==
  ASSUME WalkAssumption, WalkInv, Refuse \/ Start \/ PlainHead \/ ReliableHead \/ Wait \/ Ask
  PROVE  WalkInv'
<1> USE DEF WalkPlaces
<1>1. call.limit \in Nat /\ Len(found) \in Nat /\ erred \in BOOLEAN /\ late \in {0, 1}
      /\ (late = 1 => cancelled)
  BY LimitIsNat DEF WalkInv, WalkTypeOK, Cancellation
<1>2. CASE Refuse
  <2>1. PICK how \in {"Failed", "Err"} : Ended(how)
    BY <1>2 DEF Refuse
  <2>2. found = <<>> /\ UNCHANGED <<environment, found, late, erred>>
    BY <1>2 DEF Refuse, WalkInv, Progress
  <2>3. StatusIsTrue'
    BY <2>1, <2>2 DEF StatusIsTrue, Ended
  <2> QED
    BY <1>1, <2>1, <2>2, <2>3, EndedKeeps DEF Statuses
<1>3. CASE Start
  <2>1. at = "start" /\ found = <<>> /\ late = 0 /\ late' = late /\ UNCHANGED <<environment, found, erred>>
    BY <1>3 DEF Start, WalkInv, Progress, Cancellation
  <2>2. call.reliable => Len(found) < call.limit
    BY <1>1, <1>3, <2>1 DEF Start
  <2>3. Goto("head")
    BY <1>3 DEF Start
  <2> QED
    BY <1>1, <2>1, <2>2, <2>3, GotoKeeps
<1>4. CASE PlainHead
  <2>1. at = "head" /\ late' = late /\ UNCHANGED <<environment, found, erred>>
    BY <1>4 DEF PlainHead
  <2>2. CASE Len(found) < call.limit
    BY <1>1, <1>4, <2>1, <2>2, GotoKeeps DEF PlainHead
  <2>3. CASE ~(Len(found) < call.limit)
    <3>1. Ended("Ok")
      BY <1>4, <2>3 DEF PlainHead
    <3> QED
      BY <1>1, <2>1, <3>1, PlainEnds, EndedKeeps
  <2> QED
    BY <2>2, <2>3
<1>5. CASE ReliableHead
  <2>1. at = "head" /\ late' = late /\ UNCHANGED <<environment, found, erred>>
    BY <1>5 DEF ReliableHead
  <2>2. CASE cancelled
    <3>1. Ended("Cancelled")
      BY <1>5, <2>2 DEF ReliableHead
    <3> QED
      BY <1>1, <2>1, <3>1, PlainEnds, EndedKeeps
  <2>3. CASE ~cancelled /\ expired
    <3>1. Ended(FoundAny)
      BY <1>5, <2>3 DEF ReliableHead
    <3> QED
      BY <1>1, <2>1, <3>1, PlainEnds, EndedKeeps
  <2>4. CASE ~cancelled /\ ~expired
    <3>1. PICK place \in {"due", "waiting"} : Goto(place)
      BY <1>5, <2>4 DEF ReliableHead
    <3>2. Len(found) < call.limit /\ late = 0
      BY <1>1, <1>5, <2>4 DEF ReliableHead, WalkInv, Progress
    <3> QED
      BY <2>1, <3>1, <3>2, GotoKeeps
  <2> QED
    BY <2>2, <2>3, <2>4
<1>6. CASE Wait
  <2>1. at = "waiting" /\ late = 0 /\ late' = late /\ Len(found) < call.limit
        /\ UNCHANGED <<environment, found, erred>>
    BY <1>6 DEF Wait, WalkInv, Progress, Cancellation
  <2>2. CASE Goto("due")
    BY <2>1, <2>2, GotoKeeps
  <2>3. CASE Ended("Cancelled")
    BY <1>1, <2>1, <2>3, PlainEnds, EndedKeeps
  <2>4. CASE Ended(FoundAny)
    BY <1>1, <2>1, <2>4, PlainEnds, EndedKeeps
  <2> QED
    BY <1>6, <2>2, <2>3, <2>4 DEF Wait
<1>7. CASE Ask
  <2>1. at = "due" /\ late = 0 /\ Len(found) < call.limit /\ UNCHANGED <<environment, found, erred>>
    BY <1>7 DEF Ask, WalkInv, Progress, Cancellation
  <2>2. CASE expired
    <3>1. Ended(FoundAny) /\ late' = late
      BY <1>7, <2>2 DEF Ask
    <3> QED
      BY <1>1, <2>1, <3>1, PlainEnds, EndedKeeps
  <2>3. CASE ~expired
    <3>1. Goto("asking") /\ late' = IF cancelled THEN 1 ELSE 0
      BY <1>7, <2>1, <2>3 DEF Ask
    <3> QED
      BY <2>1, <3>1, GotoKeeps
  <2> QED
    BY <2>2, <2>3
<1> QED
  BY <1>2, <1>3, <1>4, <1>5, <1>6, <1>7

\* A sound agent that names an OID beyond the current one passes over none of its own.
LEMMA NothingPassedOver ==
  ASSUME WalkAssumption, WalkTypeOK, NEW a \in Answers, Answered(a), Extends(a), ~call.faulty
  PROVE  a.oid \in table /\ \A o \in table : o > Current => a.oid <= o
<1>1. a.kind = "row" /\ a.oid \in Under
  BY DEF Extends
<1>2. a.kind \notin Errors /\ a.kind # "endOfMib"
  BY <1>1 DEF Errors
<1>3. a # Row(MaxOid + 1)
  BY <1>1 DEF Row, Under, WalkAssumption
<1> QED
  BY <1>2, <1>3 DEF Answered

\* A row that is taken lies beyond all others, and leaves no hole.
LEMMA TakeKeeps ==
  ASSUME WalkAssumption, WalkInv, NEW a \in Answers, Answered(a), Take(a)
  PROVE  WalkInv'
<1> USE DEF WalkPlaces
<1>1. a.oid \in Under /\ a.oid > Current /\ at = "asking" /\ found' = Append(found, a.oid)
      /\ Extends(a)
  BY DEF Take, Extends
<1>2. UNCHANGED environment /\ erred' = erred /\ late' = late /\ call' = call
      /\ stayed' = stayed /\ cancelled' = cancelled
  BY DEF Take, environment
<1>3. WalkTypeOK /\ call.limit \in Nat /\ found \in Seq(Under) /\ Len(found) < call.limit
      /\ Len(found) \in Nat /\ late \in {0, 1} /\ ~erred /\ outcome = "none"
  BY <1>1, LimitIsNat DEF WalkInv, WalkTypeOK, Progress, Cancellation
<1>4. /\ Len(found') = Len(found) + 1 /\ found'[Len(found) + 1] = a.oid /\ found' # <<>>
      /\ \A i \in DOMAIN found : i \in DOMAIN found' /\ found'[i] = found[i]
      /\ \A i \in DOMAIN found' : i \in DOMAIN found \/ i = Len(found) + 1
      /\ DOMAIN found = 1 .. Len(found) /\ found' \in Seq(Under)
  BY <1>1, <1>3
<1>5. Current' = a.oid
  BY <1>4 DEF Current
<1>6. \/ call.reliable /\ Len(found) + 1 = call.limit /\ at' = "done" /\ outcome' = "Partial"
      \/ /\ ~(call.reliable /\ Len(found) + 1 = call.limit)
         /\ at' = "head" /\ outcome' = outcome
  BY DEF Take, Ended, Goto
<1>7. WalkTypeOK'
  BY <1>2, <1>3, <1>4, <1>6 DEF WalkTypeOK, environment, Statuses
<1>8. Increasing'
  <2>1. SUFFICES ASSUME NEW i \in DOMAIN found', NEW j \in DOMAIN found', i < j
                 PROVE  found'[i] < found'[j]
    BY DEF Increasing
  <2>2. CASE j \in DOMAIN found
    <3>1. i \in DOMAIN found
      BY <1>3, <1>4, <2>1, <2>2
    <3> QED
      BY <1>4, <2>1, <2>2, <3>1 DEF WalkInv, Increasing
  <2>3. CASE j = Len(found) + 1
    <3>1. i \in DOMAIN found
      BY <1>3, <1>4, <2>1, <2>3
    <3>2. found[i] <= Current
      BY <1>3, <3>1, NothingBeyondCurrent DEF WalkInv
    <3>3. found[i] \in Int /\ Current \in Int /\ a.oid \in Int
      BY <1>1, <1>3, <3>1, CurrentIsAnOid DEF Under, WalkAssumption
    <3> QED
      BY <1>1, <1>4, <2>3, <3>1, <3>2, <3>3
  <2> QED
    BY <1>4, <2>2, <2>3
<1>9. Progress'
  BY <1>2, <1>3, <1>4, <1>6 DEF Progress
<1>10. NoHole'
  <2>1. SUFFICES ASSUME ~call.faulty, NEW o \in stayed, o <= a.oid
                 PROVE  \E i \in DOMAIN found' : found'[i] = o
    BY <1>2, <1>5 DEF NoHole
  <2>2. o \in table /\ o \in Int /\ Current \in Int /\ a.oid \in Int
    BY <1>1, <1>3, <2>1, CurrentIsAnOid DEF WalkTypeOK, Under, WalkAssumption
  <2>3. CASE o <= Current
    BY <1>4, <2>1, <2>3 DEF WalkInv, NoHole
  <2>4. CASE o > Current
    <3>1. o = a.oid
      BY <1>1, <1>3, <2>1, <2>2, <2>4, NothingPassedOver
    <3> QED
      BY <1>3, <1>4, <3>1
  <2> QED
    BY <2>2, <2>3, <2>4
<1>11. StatusIsTrue'
  BY <1>3, <1>4, <1>6 DEF StatusIsTrue
<1>12. Cancellation'
  BY <1>2, <1>3, <1>6 DEF WalkInv, Cancellation
<1> QED
  BY <1>7, <1>8, <1>9, <1>10, <1>11, <1>12 DEF WalkInv

\* A reliable walk is complete only when the agent has said that nothing is left.
LEMMA EndKeeps ==
  ASSUME WalkAssumption, WalkInv, NEW a \in Answers, Answered(a), End(a)
  PROVE  WalkInv'
<1>1. at = "asking" /\ UNCHANGED <<environment, found, late>> /\ erred \in BOOLEAN
      /\ erred' = (erred \/ a.kind \in Errors) /\ ~erred
  BY DEF End, WalkInv, WalkTypeOK, Progress
<1>2. CASE ~call.reliable
  <2>1. Ended("Ok")
    BY <1>2 DEF End
  <2> QED
    BY <1>1, <2>1, PlainEnds, EndedKeeps
<1>3. CASE call.reliable
  <2>1. Ended(EndedBy(a))
    BY <1>3 DEF End
  <2>2. CASE a.kind = "endOfMib" \/ (a.kind = "row" /\ a.oid \in Outside)
    <3>1. EndedBy(a) = "Complete"
      BY <2>2 DEF EndedBy
    <3>2. ~erred'
      BY <1>1, <2>2 DEF Errors
    <3>3. ASSUME ~call.faulty, NEW o \in stayed PROVE \E i \in DOMAIN found : found[i] = o
      <4>1. o \in table
        BY DEF WalkInv, WalkTypeOK
      <4>2. ~(a.kind = "row" /\ a.oid \in table)
        BY <2>2 DEF WalkInv, WalkTypeOK, Under, Outside, WalkAssumption
      <4>3. o <= Current
        BY <2>2, <3>3, <4>1, <4>2 DEF Answered, Errors
      <4> QED
        BY <3>3, <4>3 DEF WalkInv, NoHole
    <3>4. call' = call /\ stayed' = stayed /\ found' = found /\ outcome' = "Complete"
      BY <1>1, <2>1, <3>1 DEF environment, Ended
    <3>5. StatusIsTrue'
      BY <3>2, <3>3, <3>4 DEF StatusIsTrue
    <3> QED
      BY <1>1, <2>1, <3>1, <3>5, EndedKeeps DEF Statuses
  <2>3. CASE ~(a.kind = "endOfMib" \/ (a.kind = "row" /\ a.oid \in Outside))
    <3>1. EndedBy(a) \in {"Unsupported", FoundAny}
      BY <2>3 DEF EndedBy
    <3> QED
      BY <1>1, <2>1, <3>1, PlainEnds, EndedKeeps
  <2> QED
    BY <2>2, <2>3
<1> QED
  BY <1>2, <1>3

\* The environment: the table changes, the caller cancels, the deadline passes.
LEMMA EnvironmentKeeps ==
  ASSUME WalkAssumption, WalkInv, Change \/ Cancel \/ Expire
  PROVE  WalkInv'
<1>1. /\ UNCHANGED <<call, at, found, outcome, erred, late>> /\ at # "done"
      /\ stayed' \subseteq stayed /\ (cancelled => cancelled')
  BY DEF Change, Cancel, Expire
<1>2. WalkTypeOK'
  <2>1. table' \subseteq Under /\ stayed' \subseteq table' /\ changes' \in Nat
    BY DEF Change, Cancel, Expire, WalkInv, WalkTypeOK
  <2>2. cancelled' \in BOOLEAN /\ expired' \in BOOLEAN
    BY DEF Change, Cancel, Expire, WalkInv, WalkTypeOK
  <2> QED
    BY <1>1, <2>1, <2>2 DEF WalkInv, WalkTypeOK
<1>3. Current' = Current
  BY <1>1 DEF Current
<1>4. Increasing' /\ Progress' /\ NoHole'
  BY <1>1, <1>3 DEF WalkInv, Increasing, Progress, NoHole
<1>5. StatusIsTrue'
  BY <1>1 DEF WalkInv, Progress, StatusIsTrue
<1>6. Cancellation'
  BY <1>1 DEF WalkInv, Cancellation
<1> QED
  BY <1>2, <1>4, <1>5, <1>6 DEF WalkInv

\* No step of the walk, of the agent or of the caller makes the walk dishonest.
LEMMA WalkStepInv == ASSUME WalkAssumption PROVE WalkInv /\ [WalkNext]_walkVars => WalkInv'
<1>1. SUFFICES ASSUME WalkInv, [WalkNext]_walkVars PROVE WalkInv'
  OBVIOUS
<1>2. CASE Refuse \/ Start \/ PlainHead \/ ReliableHead \/ Wait \/ Ask
  BY <1>1, <1>2, ControlKeeps
<1>3. ASSUME NEW a \in Answers, Answered(a), Take(a) \/ End(a) PROVE WalkInv'
  BY <1>1, <1>3, TakeKeeps, EndKeeps
<1>4. CASE Change \/ Cancel \/ Expire
  BY <1>1, <1>4, EnvironmentKeeps
<1>5. CASE UNCHANGED walkVars
  BY <1>1, <1>5 DEF walkVars, WalkInv, WalkTypeOK, Increasing, Progress, NoHole, StatusIsTrue,
                    Cancellation, Current
<1> QED
  BY <1>1, <1>2, <1>3, <1>4, <1>5 DEF WalkNext

\* What the invariant says is what the callers of a walk rely on.
LEMMA WalkInvIsHonest == ASSUME WalkAssumption PROVE WalkInv => WalksAreHonest
<1>1. SUFFICES ASSUME WalkInv PROVE WalksAreHonest
  OBVIOUS
<1>2. \A i \in DOMAIN found : found[i] \in Under
  BY <1>1 DEF WalkInv, WalkTypeOK
<1>3. WalkIncreases
  BY <1>1, <1>2 DEF WalkInv, WalkIncreases, Increasing, Progress
<1> QED
  BY <1>1, <1>3 DEF WalkInv, WalksAreHonest, StopsWhenCancelled, Cancellation

-----------------------------------------------------------------------------
\* The samples of interfaces.
Samples == [index : Interfaces, errors : 0 .. Modulus - 1, lost : BOOLEAN, total : Nat, restarts : Nat]
Devices == [there : SUBSET Interfaces, restarts : Nat, total : [Interfaces -> Nat], base : [Interfaces -> Nat]]

\* The state is well formed, and no counter stands below where the device restarted it.
SamplesTypeOK ==
  /\ device \in Devices /\ \A i \in Interfaces : device.base[i] <= device.total[i]
  /\ stage \in {"idle", "discover", "guess", "query", "again"}
  /\ cursor \in Nat /\ steps \in Nat /\ indexes \in Seq(Nat) /\ todo \in Seq(Nat)
  /\ taken \in Seq(Samples) /\ stored \in [Interfaces -> Seq(Samples)]
  /\ steady \subseteq Interfaces /\ clean \in BOOLEAN

\* What a sample says is so of the device as it was: its counter stood there since the last
\* restart, or before it.
IsPast(s) ==
  /\ s.total <= device.total[s.index] /\ s.restarts <= device.restarts
  /\ s.restarts < device.restarts => s.total <= device.base[s.index]
  /\ s.restarts = device.restarts =>
       /\ device.base[s.index] <= s.total
       /\ ~s.lost => s.errors = (s.total - device.base[s.index]) % Modulus

\* The difference of two samples is true.
PairIsTrue(new, old) ==
  ~new.lost /\ ~old.lost =>
    /\ Delta(old.errors, new.errors) <=
         new.total - old.total + (IF new.restarts = old.restarts THEN 0 ELSE Margin + 1)
    /\ new.restarts = old.restarts /\ new.total - old.total < Modulus
         /\ (new.errors >= old.errors \/ old.errors >= Modulus - 1 - Margin)
       => Delta(old.errors, new.errors) = new.total - old.total

\* The samples that are stored are of their interface, the latest is past, and the two
\* have a true difference.
StoredIsOK(i) ==
  /\ Len(stored[i]) <= 2
  /\ stored[i] # <<>> => stored[i][1].index = i /\ IsPast(stored[i][1])
  /\ Len(stored[i]) = 2 => PairIsTrue(stored[i][1], stored[i][2])
StoredOK == \A i \in Interfaces : StoredIsOK(i)

\* The samples of a poll are past, and have true differences to those they come after.
TakenOK ==
  /\ stage \in {"discover", "guess"} => taken = <<>>
  /\ stage # "idle" => \A k \in DOMAIN taken :
       /\ IsPast(taken[k])
       /\ stored[taken[k].index] # <<>> => PairIsTrue(taken[k], stored[taken[k].index][1])

\* Nothing is found, asked or sampled twice in a poll.
OnceOK ==
  /\ IsInjective(indexes) /\ IsInjective(todo) /\ SampledOnce
  /\ stage = "guess" => \A p \in DOMAIN indexes, q \in DOMAIN todo : indexes[p] # todo[q]
  /\ stage \in {"query", "again"} => \A k \in DOMAIN taken, q \in DOMAIN todo : taken[k].index # todo[q]

\* An interface that must be sampled: the discovery has come as far.
IsDue(i) == i \in steady /\ (steps < MaxSteps \/ i <= cursor)
Lists(s, i) == \E p \in DOMAIN s : s[p] = i
IsSampled(i) == \E k \in DOMAIN taken : taken[k].index = i

\* Of a sound agent the discovery finds, and the poll samples, what must be sampled.
FoundOK ==
  /\ stage # "idle" => steady \subseteq device.there
  /\ agent = "sound" =>
       /\ stage = "discover" => \A i \in steady : i <= cursor => Lists(indexes, i)
       /\ stage = "guess" /\ clean => \A i \in Interfaces : IsDue(i) => Lists(indexes, i)
       /\ stage \in {"query", "again"} /\ clean =>
            \A i \in Interfaces : IsDue(i) => Lists(todo, i) \/ IsSampled(i)

SamplesInv == SamplesTypeOK /\ StoredOK /\ TakenOK /\ OnceOK /\ FoundOK

-----------------------------------------------------------------------------
\* Division leaves a remainder.
LEMMA Remainder ==
  ASSUME NEW m \in Nat \ {0}, NEW x \in Nat
  PROVE  \E q \in Nat : x = m * q + (x % m) /\ x % m \in 0 .. m - 1
<1>1. x = m * (x \div m) + (x % m) /\ x % m \in 0 .. m - 1 /\ x \div m \in Nat
  OBVIOUS
<1> QED
  BY <1>1

\* The multiples of a number are it, or nothing, or far from it.
LEMMA Multiples ==
  ASSUME NEW m \in Nat \ {0}, NEW p \in Nat, NEW q \in Nat
  PROVE  \/ m * q = m * p \/ m * q = m * p + m
         \/ m * q >= m * p + 2 * m \/ m * q <= m * p - m
<1>1. CASE q = p
  BY <1>1
<1>2. CASE q = p + 1
  BY <1>2
<1>3. CASE q >= p + 2
  <2>1. PICK e \in Nat : e = q - p - 2
    BY <1>3
  <2>2. m * q = m * p + 2 * m + m * e /\ m * e \in Nat /\ m * p \in Nat
    <3>1. q = p + 2 + e
      BY <2>1
    <3> QED
      BY <3>1
  <2> QED
    BY <2>2
<1>4. CASE q < p
  <2>1. PICK e \in Nat : e = p - q - 1
    BY <1>4
  <2>2. m * p = m * q + m + m * e /\ m * e \in Nat /\ m * q \in Nat
    <3>1. p = q + 1 + e
      BY <2>1
    <3> QED
      BY <3>1
  <2> QED
    BY <2>2
<1>5. q = p \/ q = p + 1 \/ q >= p + 2 \/ q < p
  OBVIOUS
<1> QED
  BY <1>1, <1>2, <1>3, <1>4, <1>5

\* The difference of two values of a counter.
LEMMA DeltaIs ==
  ASSUME SampleAssumption, NEW old \in 0 .. Modulus - 1, NEW new \in 0 .. Modulus - 1
  PROVE  Delta(old, new) = IF new >= old THEN new - old
                           ELSE IF old >= Modulus - 1 - Margin THEN Modulus - old + new ELSE 0
<1>1. Modulus \in Nat \ {0} /\ Margin \in Nat
  BY DEF SampleAssumption
<1> QED
  BY <1>1 DEF Delta

\* A counter that went from t to u since the device started at b: whether it went round or
\* not, the difference is not larger than that, and exact for a small one.
LEMMA DeltaOfOneRun ==
  ASSUME SampleAssumption, NEW b \in Nat, NEW t \in Nat, NEW u \in Nat, b <= t, t <= u
  PROVE  LET old == (t - b) % Modulus
             new == (u - b) % Modulus
         IN  /\ Delta(old, new) <= u - t
             /\ u - t < Modulus /\ (new >= old \/ old >= Modulus - 1 - Margin) => Delta(old, new) = u - t
<1> DEFINE old == (t - b) % Modulus
           new == (u - b) % Modulus
<1>1. Modulus \in Nat \ {0} /\ Margin \in Nat
  BY DEF SampleAssumption
<1>2. t - b \in Nat /\ u - b \in Nat
  OBVIOUS
<1>3. PICK p \in Nat : t - b = Modulus * p + old /\ old \in 0 .. Modulus - 1
  BY <1>1, <1>2, Remainder
<1>4. PICK q \in Nat : u - b = Modulus * q + new /\ new \in 0 .. Modulus - 1
  BY <1>1, <1>2, Remainder
<1> HIDE DEF old, new
<1>5. Delta(old, new) = IF new >= old THEN new - old
                        ELSE IF old >= Modulus - 1 - Margin THEN Modulus - old + new ELSE 0
  BY <1>3, <1>4, DeltaIs
<1>6. PICK j, k, w : j = Modulus * p /\ k = Modulus * q /\ w = Delta(old, new)
  OBVIOUS
<1>7. j \in Nat /\ k \in Nat /\ (k = j \/ k = j + Modulus \/ k >= j + 2 * Modulus \/ k <= j - Modulus)
  BY <1>1, <1>6, Multiples
<1>8. t - b = j + old /\ u - b = k + new
  BY <1>3, <1>4, <1>6
<1>9. /\ w <= u - t
      /\ u - t < Modulus /\ (new >= old \/ old >= Modulus - 1 - Margin) => w = u - t
  <2>1. old \in 0 .. Modulus - 1 /\ new \in 0 .. Modulus - 1
    BY <1>3, <1>4
  <2>2. w = IF new >= old THEN new - old
            ELSE IF old >= Modulus - 1 - Margin THEN Modulus - old + new ELSE 0
    BY <1>5, <1>6
  <2> QED
    BY <2>1, <2>2, <1>1, <1>7, <1>8
<1> QED
  BY <1>6, <1>9 DEF old, new

\* Between two samples the device was restarted at b: the difference is not larger than
\* what was counted since, but for the distance of the old value from its end.
LEMMA DeltaOfTwoRuns ==
  ASSUME SampleAssumption, NEW b \in Nat, NEW t \in Nat, NEW u \in Nat, t <= b, b <= u,
         NEW old \in 0 .. Modulus - 1
  PROVE  Delta(old, (u - b) % Modulus) <= u - t + (Margin + 1)
<1> DEFINE new == (u - b) % Modulus
<1>1. Modulus \in Nat \ {0} /\ Margin \in Nat
  BY DEF SampleAssumption
<1>2. u - b \in Nat
  OBVIOUS
<1>3. PICK q \in Nat : u - b = Modulus * q + new /\ new \in 0 .. Modulus - 1
  BY <1>1, <1>2, Remainder
<1> HIDE DEF new
<1>4. Delta(old, new) = IF new >= old THEN new - old
                        ELSE IF old >= Modulus - 1 - Margin THEN Modulus - old + new ELSE 0
  BY <1>3, DeltaIs
<1>5. PICK k, w : k = Modulus * q /\ w = Delta(old, new)
  OBVIOUS
<1>6. k \in Nat
  BY <1>1, <1>5
<1>7. u - b = k + new /\ new \in 0 .. Modulus - 1
  BY <1>3, <1>5
<1>8. w = IF new >= old THEN new - old
          ELSE IF old >= Modulus - 1 - Margin THEN Modulus - old + new ELSE 0
  BY <1>4, <1>5
<1>9. w <= u - t + (Margin + 1)
  BY <1>1, <1>6, <1>7, <1>8
<1> QED
  BY <1>5, <1>9 DEF new

\* A sample that is taken is of the device as it is.
LEMMA SampleIsPast ==
  ASSUME SampleAssumption, SamplesTypeOK, NEW i \in Interfaces, NEW lost \in BOOLEAN
  PROVE  SampleOf(i, lost) \in Samples /\ SampleOf(i, lost).index = i /\ IsPast(SampleOf(i, lost))
<1> DEFINE s == SampleOf(i, lost)
<1>1. /\ Modulus \in Nat \ {0} /\ device.total[i] \in Nat /\ device.base[i] \in Nat
      /\ device.base[i] <= device.total[i] /\ device.restarts \in Nat
  BY DEF SampleAssumption, SamplesTypeOK, Devices
<1>2. Counter(i) = (device.total[i] - device.base[i]) % Modulus
  BY DEF Counter
<1>3. Counter(i) \in 0 .. Modulus - 1 /\ 0 \in 0 .. Modulus - 1
  <2>1. device.total[i] - device.base[i] \in Nat
    BY <1>1
  <2>2. (device.total[i] - device.base[i]) % Modulus \in 0 .. Modulus - 1
    BY <2>1, <1>1, Remainder
  <2> QED
    BY <2>2, <1>1, <1>2
<1>4. s = [index |-> i, errors |-> IF lost THEN 0 ELSE Counter(i), lost |-> lost,
           total |-> device.total[i], restarts |-> device.restarts]
  BY DEF SampleOf
<1>5. s \in Samples
  BY <1>1, <1>3, <1>4 DEF Samples
<1>6. /\ s.index = i /\ s.total = device.total[i] /\ s.restarts = device.restarts /\ s.lost = lost
      /\ s.errors = IF lost THEN 0 ELSE Counter(i)
  BY <1>4
<1> HIDE DEF s
<1>7. IsPast(s)
  BY <1>1, <1>2, <1>6 DEF IsPast
<1> QED
  BY <1>5, <1>6, <1>7 DEF s

\* Its difference to an earlier sample is true.
LEMMA NewPairIsTrue ==
  ASSUME SampleAssumption, SamplesTypeOK, NEW i \in Interfaces, NEW lost \in BOOLEAN,
         NEW old \in Samples, old.index = i, IsPast(old)
  PROVE  PairIsTrue(SampleOf(i, lost), old)
<1> DEFINE new == SampleOf(i, lost)
<1>1. PICK t, b, u, r, q, e : /\ t = old.total /\ b = device.base[i] /\ u = device.total[i]
                              /\ r = old.restarts /\ q = device.restarts /\ e = old.errors
  OBVIOUS
<1>2. /\ t \in Nat /\ r \in Nat /\ e \in 0 .. Modulus - 1
      /\ b \in Nat /\ u \in Nat /\ b <= u /\ q \in Nat
  BY <1>1 DEF SamplesTypeOK, Devices, Samples
<1>3. /\ t <= u /\ r <= q
      /\ r < q => t <= b
      /\ r = q => b <= t /\ (~old.lost => e = (t - b) % Modulus)
  BY <1>1 DEF IsPast
<1>4. /\ new.total = u /\ new.restarts = q /\ new.lost = lost
      /\ ~lost => new.errors = (u - b) % Modulus
  BY <1>1 DEF SampleOf, Counter
<1> HIDE DEF new
<1>5. Margin \in Nat
  BY DEF SampleAssumption
<1>6. SUFFICES ASSUME ~lost, ~old.lost
               PROVE  LET now == (u - b) % Modulus
                      IN  /\ Delta(e, now) <= u - t + (IF q = r THEN 0 ELSE Margin + 1)
                          /\ q = r /\ u - t < Modulus /\ (now >= e \/ e >= Modulus - 1 - Margin)
                               => Delta(e, now) = u - t
  BY <1>1, <1>4 DEF PairIsTrue, new
<1>7. CASE q = r
  <2>1. e = (t - b) % Modulus /\ b <= t
    BY <1>3, <1>6, <1>7
  <2>2. u - t + 0 = u - t
    BY <1>2
  <2> QED
    BY <2>1, <2>2, <1>2, <1>3, <1>7, DeltaOfOneRun
<1>8. CASE q # r
  <2>1. t <= b
    <3>1. r < q
      BY <1>2, <1>3, <1>8
    <3> QED
      BY <3>1, <1>3
  <2>2. Delta(e, (u - b) % Modulus) <= u - t + (Margin + 1)
    BY <2>1, <1>2, DeltaOfTwoRuns
  <2> QED
    BY <2>2, <1>8
<1> QED
  BY <1>7, <1>8

\* Everything a sample says stays so, whatever happens to the device.
LEMMA PastStays ==
  ASSUME SampleAssumption, SamplesTypeOK, SamplesNext, NEW CONSTANT s \in Samples, IsPast(s)
  PROVE  IsPast(s)'
<1>1. /\ s.index \in Interfaces /\ s.total \in Nat /\ s.restarts \in Nat /\ device \in Devices
      /\ \A i \in Interfaces : device.base[i] <= device.total[i]
  BY DEF Samples, SamplesTypeOK
<1>2. CASE device' = device
  BY <1>2 DEF IsPast
<1>3. ASSUME NEW i \in Interfaces, NEW n \in Rises, device' = [device EXCEPT !.total[i] = @ + n]
      PROVE  IsPast(s)'
  <2>1. n \in Nat
    BY DEF SampleAssumption
  <2>2. /\ device'.restarts = device.restarts /\ device'.base = device.base
        /\ device.total[s.index] \in Nat /\ device'.total[s.index] \in Nat
        /\ device.total[s.index] <= device'.total[s.index]
    BY <1>1, <1>3, <2>1 DEF Devices
  <2> QED
    BY <1>1, <2>2 DEF IsPast
<1>4. ASSUME NEW i \in Interfaces, ComeOrGo(i)
      PROVE  IsPast(s)'
  <2>1. device'.restarts = device.restarts /\ device'.base = device.base /\ device'.total = device.total
    BY <1>1, <1>4 DEF ComeOrGo, Devices
  <2> QED
    BY <2>1 DEF IsPast
<1>5. CASE Restart
  <2>1. /\ device'.restarts = device.restarts + 1 /\ device'.total = device.total
        /\ device'.base = device.total /\ device.restarts \in Nat
    BY <1>1, <1>5 DEF Restart, Devices
  <2>2. s.restarts < device.restarts + 1 /\ s.restarts # device.restarts + 1
    BY <1>1, <2>1 DEF IsPast
  <2> QED
    BY <1>1, <2>1, <2>2 DEF IsPast
<1>6. \/ device' = device \/ Restart
      \/ \E i \in Interfaces : ComeOrGo(i)
      \/ \E i \in Interfaces, n \in Rises : device' = [device EXCEPT !.total[i] = @ + n]
  BY DEF SamplesNext, BeginPoll, NoSession, EndDiscovery, Guess, EndGuessing, Query, QueryAgain,
         SaveSamples, NextIndex, CountErrors
<1> QED
  BY <1>2, <1>3, <1>4, <1>5, <1>6

\* The two latest of some entries after a new one.
LEMMA TwoLatest ==
  ASSUME NEW S, NEW x \in S, NEW t \in Seq(S), NEW all, all = <<x>> \o t
  PROVE  SubSeq(all, 1, IF Len(all) < 2 THEN Len(all) ELSE 2) = IF t = <<>> THEN <<x>> ELSE <<x, t[1]>>
<1>1. /\ all \in Seq(S) /\ Len(all) = Len(t) + 1 /\ Len(t) \in Nat /\ all[1] = x
      /\ t # <<>> => Len(t) >= 1 /\ all[2] = t[1]
  <2>1. <<x>> \in Seq(S) /\ Len(<<x>>) = 1
    OBVIOUS
  <2>2. Len(t) \in Nat /\ Len(all) = Len(t) + 1 /\ all \in Seq(S)
    BY <2>1
  <2>3. all[1] = x
    BY <2>1, <2>2
  <2>4. ASSUME t # <<>> PROVE Len(t) >= 1 /\ all[2] = t[1]
    BY <2>1, <2>2, <2>4
  <2> QED
    BY <2>2, <2>3, <2>4
<1>2. CASE t = <<>>
  <2>1. Len(all) = 1
    BY <1>1, <1>2
  <2>2. PICK u : u = SubSeq(all, 1, 1)
    OBVIOUS
  <2>3. u \in Seq(S) /\ Len(u) = 1 /\ u[1] = x
    BY <1>1, <2>1, <2>2
  <2>4. u = <<x>>
    BY <2>3
  <2>5. (IF Len(all) < 2 THEN Len(all) ELSE 2) = 1
    BY <2>1
  <2> QED
    BY <2>2, <2>4, <2>5, <1>2, Zenon
<1>3. CASE t # <<>>
  <2>1. Len(all) >= 2 /\ Len(all) \in Nat
    BY <1>1, <1>3
  <2>2. PICK u : u = SubSeq(all, 1, 2)
    OBVIOUS
  <2>3. u \in Seq(S) /\ Len(u) = 2 /\ u[1] = x /\ u[2] = t[1]
    BY <1>1, <1>3, <2>1, <2>2
  <2>4. u = <<x, t[1]>>
    BY <2>3
  <2>5. (IF Len(all) < 2 THEN Len(all) ELSE 2) = 2
    BY <2>1
  <2> QED
    BY <2>2, <2>4, <2>5, <1>3, Zenon
<1> QED
  BY <1>2, <1>3

\* The empty list reversed is empty.
LEMMA NothingReversed == Reverse(<<>>) = <<>>
<1>1. Len(<<>>) = 0 /\ 1 .. 0 = {}
  OBVIOUS
<1>2. Reverse(<<>>) = [n \in 1 .. Len(<<>>) |-> <<>>[(Len(<<>>) - n) + 1]]
  BY Zenon DEF Reverse
<1>3. Reverse(<<>>) \in Seq({}) /\ Len(Reverse(<<>>)) = 0
  BY <1>1, <1>2
<1> QED
  BY <1>3

\* Of an interface the sample of a poll is stored, if there is one, and the latest before
\* it: or what was stored stays.
LEMMA StoredIs ==
  ASSUME SamplesTypeOK, SampledOnce, NEW i \in Interfaces, Len(stored[i]) <= 2
  PROVE  /\ StoredWith(taken)[i] \in Seq(Samples)
         /\ \/ StoredWith(taken)[i] = stored[i]
            \/ \E k \in DOMAIN taken :
                 /\ taken[k].index = i
                 /\ StoredWith(taken)[i] =
                      IF stored[i] = <<>> THEN <<taken[k]>> ELSE <<taken[k], stored[i][1]>>
<1> DEFINE places == {k \in DOMAIN taken : taken[k].index = i}
           mine   == EntriesAt(taken, places)
           all    == Reverse(mine) \o stored[i]
           result == SubSeq(all, 1, IF Len(all) < 2 THEN Len(all) ELSE 2)
<1>1. StoredWith(taken)[i] = result
  BY Zenon DEF StoredWith
<1>2. taken \in Seq(Samples) /\ stored[i] \in Seq(Samples) /\ places \in SUBSET (1 .. Len(taken))
  BY DEF SamplesTypeOK
<1>3. /\ mine \in Seq(Samples) /\ Len(mine) = Cardinality(places)
      /\ \A k \in places : \E n \in 1 .. Len(mine) : mine[n] = taken[k]
  BY <1>2, AtIsOf
<1>4. CASE places = {}
  <2>1. mine = <<>>
    <3>1. Len(mine) = 0
      BY <1>3, <1>4, FS_EmptySet
    <3> QED
      BY <3>1, <1>3
  <2>2. Reverse(mine) = <<>>
    BY <2>1, NothingReversed
  <2>3. PICK t : t = stored[i] /\ t \in Seq(Samples)
    BY <1>2
  <2>4. PICK r : r = Reverse(mine) /\ r = <<>>
    BY <2>2
  <2>5. r \o t = t
    <3>1. <<>> \o t = t
      BY <2>3
    <3> QED
      BY <3>1, <2>4, Zenon
  <2>6. Len(t) <= 2 /\ Len(t) \in Nat
    BY <2>3
  <2>7. (IF Len(t) < 2 THEN Len(t) ELSE 2) = Len(t)
    <3>1. PICK n : n = Len(t)
      OBVIOUS
    <3>2. n \in Nat /\ n <= 2
      BY <2>6, <3>1
    <3>3. (IF n < 2 THEN n ELSE 2) = n
      BY <3>2
    <3> QED
      BY <3>1, <3>3
  <2>8. SubSeq(t, 1, Len(t)) = t
    BY <2>3
  <2> QED
    BY <1>1, <2>3, <2>4, <2>5, <2>7, <2>8, Zenon
<1>5. ASSUME NEW k \in places
      PROVE  StoredWith(taken)[i] = IF stored[i] = <<>> THEN <<taken[k]>> ELSE <<taken[k], stored[i][1]>>
  <2>1. places = {k}
    BY <1>5 DEF SampledOnce
  <2>2. Len(mine) = 1
    BY <2>1, <1>3, FS_Singleton
  <2>3. mine[1] = taken[k]
    BY <2>2, <1>3
  <2>4. Reverse(mine) = <<taken[k]>>
    <3>1. Reverse(mine) = [n \in 1 .. 1 |-> mine[(1 - n) + 1]]
      BY <2>2 DEF Reverse
    <3>2. \A n \in 1 .. 1 : mine[(1 - n) + 1] = taken[k]
      BY <2>3
    <3> QED
      BY <3>1, <3>2
  <2>5. PICK x : x = taken[k] /\ x \in Samples
    BY <1>2
  <2>6. PICK t : t = stored[i] /\ t \in Seq(Samples)
    BY <1>2
  <2>7. all = <<x>> \o t
    BY <2>4, <2>5, <2>6
  <2> HIDE DEF all
  <2>8. result = IF t = <<>> THEN <<x>> ELSE <<x, t[1]>>
    BY <2>5, <2>6, <2>7, TwoLatest
  <2> QED
    BY <2>5, <2>6, <2>8, <1>1
<1>6. CASE places # {}
  <2>1. PICK k \in places : TRUE
    BY <1>6
  <2>2. StoredWith(taken)[i] = IF stored[i] = <<>> THEN <<taken[k]>> ELSE <<taken[k], stored[i][1]>>
    BY <1>5
  <2>3. taken[k] \in Samples /\ (stored[i] # <<>> => stored[i][1] \in Samples)
    BY <1>2
  <2> QED
    BY <2>1, <2>2, <2>3
<1>7. CASE places = {}
  <2>1. StoredWith(taken)[i] = stored[i]
    BY <1>4, <1>7
  <2> QED
    BY <2>1, <1>2
<1> QED
  BY <1>6, <1>7

\* Both ends of a queue that loses its head.
LEMMA HeadAndTail ==
  ASSUME NEW S, NEW s \in Seq(S), s # <<>>
  PROVE  /\ Head(s) \in S /\ Head(s) = s[1] /\ 1 \in DOMAIN s
         /\ Tail(s) \in Seq(S)
         /\ \A p \in DOMAIN Tail(s) : p \in Nat /\ p + 1 \in DOMAIN s /\ p + 1 # 1 /\ Tail(s)[p] = s[p + 1]
         /\ \A p \in DOMAIN s : p = 1 \/ (p - 1 \in DOMAIN Tail(s) /\ Tail(s)[p - 1] = s[p])
  OBVIOUS

\* What is added to a sequence comes last.
LEMMA Added ==
  ASSUME NEW S, NEW s \in Seq(S), NEW x \in S
  PROVE  /\ Append(s, x) \in Seq(S)
         /\ \A p \in DOMAIN Append(s, x) :
              (p \in DOMAIN s /\ Append(s, x)[p] = s[p]) \/ (p = Len(s) + 1 /\ Append(s, x)[p] = x)
         /\ \A p \in DOMAIN s : p \in DOMAIN Append(s, x) /\ Append(s, x)[p] = s[p]
         /\ Len(s) + 1 \in DOMAIN Append(s, x) /\ Append(s, x)[Len(s) + 1] = x
         /\ Len(s) + 1 \notin DOMAIN s
  OBVIOUS

\* A step of the polls keeps the state well formed.
LEMMA SamplesTypeStep ==
  ASSUME SampleAssumption, SamplesInv, SamplesNext
  PROVE  SamplesTypeOK'
<1>0. /\ Interfaces \subseteq Nat \ {0} /\ Rises \subseteq Nat
      /\ Guesses \in Seq(Nat) /\ Fallback \in Seq(Nat)
      /\ Interfaces \subseteq Nat
  BY DEF SampleAssumption
<1>1. SamplesTypeOK /\ device \in Devices /\ \A i \in Interfaces : device.base[i] <= device.total[i]
  BY DEF SamplesInv, SamplesTypeOK
<1>2. CASE BeginPoll
  BY <1>1, <1>2 DEF BeginPoll, SamplesTypeOK, Devices
<1>3. CASE NoSession
  BY <1>0, <1>1, <1>3 DEF NoSession, Lost, SamplesTypeOK, discovery
<1>4. ASSUME NEW i \in Interfaces, NextIndex(i) PROVE SamplesTypeOK'
  <2>1. i \in Nat /\ Append(indexes, i) \in Seq(Nat) /\ steps + 1 \in Nat
    BY <1>0, <1>1 DEF SamplesTypeOK
  <2> QED
    BY <2>1, <1>1, <1>4 DEF NextIndex, Kept, SamplesTypeOK
<1>5. CASE EndDiscovery
  BY <1>0, <1>1, <1>5 DEF EndDiscovery, Kept, Lost, SamplesTypeOK, discovery
<1>6. CASE Guess
  <2>1. todo # <<>> /\ todo \in Seq(Nat) /\ indexes \in Seq(Nat)
    BY <1>1, <1>6 DEF Guess, SamplesTypeOK
  <2>2. Tail(todo) \in Seq(Nat) /\ Append(indexes, Head(todo)) \in Seq(Nat)
    BY <2>1
  <2> QED
    BY <2>2, <1>1, <1>6 DEF Guess, Kept, Lost, SamplesTypeOK
<1>7. CASE EndGuessing
  BY <1>1, <1>7 DEF EndGuessing, Kept, SamplesTypeOK, discovery
<1>8. CASE Query
  <2>1. todo # <<>> /\ todo \in Seq(Nat) /\ taken \in Seq(Samples) /\ device.there \subseteq Interfaces
    BY <1>1, <1>8 DEF Query, SamplesTypeOK, Devices
  <2>2. Tail(todo) \in Seq(Nat)
    BY <2>1
  <2>3. ASSUME NEW lost \in BOOLEAN, Head(todo) \in device.there
        PROVE  Append(taken, SampleOf(Head(todo), lost)) \in Seq(Samples)
    <3>1. SampleOf(Head(todo), lost) \in Samples
      BY <1>1, <2>1, <2>3, SampleIsPast
    <3> QED
      BY <3>1, <2>1
  <2>4. taken' \in Seq(Samples)
    BY <1>8, <2>1, <2>3 DEF Query, QueryNext
  <2>5. clean' \in BOOLEAN
    BY <1>1, <1>8 DEF Query, QueryNext, Kept, Lost, SamplesTypeOK
  <2> QED
    BY <2>2, <2>4, <2>5, <1>1, <1>8 DEF Query, SamplesTypeOK, discovery
<1>9. CASE QueryAgain
  BY <1>0, <1>1, <1>9 DEF QueryAgain, Kept, SamplesTypeOK, discovery
<1>10. CASE SaveSamples
  <2>1. \A i \in Interfaces : StoredWith(taken)[i] \in Seq(Samples)
    BY <1>1, StoredIs DEF SamplesInv, OnceOK, StoredOK, StoredIsOK
  <2>2. StoredWith(taken) \in [Interfaces -> Seq(Samples)]
    BY <2>1 DEF StoredWith
  <2> QED
    BY <2>2, <1>1, <1>10 DEF SaveSamples, Kept, SamplesTypeOK, discovery
<1>11. ASSUME NEW i \in Interfaces, NEW n \in Rises, CountErrors(i, n) PROVE SamplesTypeOK'
  <2>1. n \in Nat
    BY <1>0
  <2>2. device' = [there |-> device.there, restarts |-> device.restarts, base |-> device.base,
                   total |-> [device.total EXCEPT ![i] = @ + n]]
    BY <1>1, <1>11 DEF CountErrors, Devices
  <2>3. device' \in Devices /\ \A j \in Interfaces : device'.base[j] <= device'.total[j]
    BY <1>1, <2>1, <2>2 DEF Devices
  <2> QED
    BY <2>3, <1>1, <1>11 DEF CountErrors, SamplesTypeOK, discovery
<1>12. ASSUME NEW i \in Interfaces, ComeOrGo(i) PROVE SamplesTypeOK'
  <2>1. device' \in Devices /\ device'.base = device.base /\ device'.total = device.total
    BY <1>1, <1>12 DEF ComeOrGo, Devices
  <2> QED
    BY <2>1, <1>1, <1>12 DEF ComeOrGo, SamplesTypeOK, discovery
<1>13. CASE Restart
  <2>0. device' = [there |-> device.there, restarts |-> device.restarts + 1, base |-> device.total,
                   total |-> device.total]
    BY <1>1, <1>13 DEF Restart, Devices
  <2>1. device' \in Devices /\ device'.base = device.total /\ device'.total = device.total
    BY <1>1, <2>0 DEF Devices
  <2>2. \A j \in Interfaces : device'.base[j] <= device'.total[j]
    BY <1>1, <2>1 DEF Devices
  <2> QED
    BY <2>1, <2>2, <1>1, <1>13 DEF Restart, SamplesTypeOK, discovery
<1> QED
  BY <1>2, <1>3, <1>4, <1>5, <1>6, <1>7, <1>8, <1>9, <1>10, <1>11, <1>12, <1>13 DEF SamplesNext

\* A step of the polls keeps what is said of the stored samples.
LEMMA StoredStep ==
  ASSUME SampleAssumption, SamplesInv, SamplesNext
  PROVE  StoredOK'
<1>1. SamplesTypeOK /\ StoredOK /\ TakenOK /\ SampledOnce
  BY DEF SamplesInv, OnceOK
<1>2. SUFFICES ASSUME NEW i \in Interfaces
               PROVE  StoredIsOK(i)'
  BY DEF StoredOK
<1>3. stored[i] \in Seq(Samples) /\ Len(stored[i]) <= 2 /\ (stored[i] # <<>> => stored[i][1] \in Samples)
  BY <1>1 DEF SamplesTypeOK, StoredOK, StoredIsOK
<1>4. ASSUME stored'[i] = stored[i] PROVE StoredIsOK(i)'
  <2>1. CASE stored[i] = <<>>
    BY <1>4, <2>1, <1>3 DEF StoredIsOK
  <2>2. CASE stored[i] # <<>>
    <3>1. PICK s : s = stored[i][1]
      OBVIOUS
    <3>2. s \in Samples /\ IsPast(s)
      BY <1>1, <1>3, <2>2, <3>1 DEF StoredOK, StoredIsOK
    <3>3. IsPast(s)'
      BY <1>1, <3>2, PastStays
    <3>4. StoredIsOK(i)
      BY <1>1 DEF StoredOK
    <3>5. PairIsTrue(stored[i][1], stored[i][2])' <=> PairIsTrue(stored[i][1], stored[i][2])
      BY <1>4 DEF PairIsTrue
    <3> QED
      BY <3>1, <3>3, <3>4, <1>4, <2>2 DEF StoredIsOK, IsPast, PairIsTrue
  <2> QED
    BY <2>1, <2>2
<1>5. ASSUME SaveSamples PROVE StoredIsOK(i)'
  <2>1. stored' = StoredWith(taken) /\ device' = device /\ stage # "idle"
    BY <1>5 DEF SaveSamples
  <2>2. CASE StoredWith(taken)[i] = stored[i]
    BY <2>1, <2>2, <1>4
  <2>3. ASSUME NEW k \in DOMAIN taken, taken[k].index = i,
               StoredWith(taken)[i] = IF stored[i] = <<>> THEN <<taken[k]>> ELSE <<taken[k], stored[i][1]>>
        PROVE  StoredIsOK(i)'
    <3>1. PICK s, l : s = taken[k] /\ l = stored[i][1]
      OBVIOUS
    <3>2. s.index = i /\ IsPast(s) /\ (stored[i] # <<>> => PairIsTrue(s, l))
      BY <1>1, <2>1, <2>3, <3>1 DEF TakenOK
    <3>3. stored'[i] = IF stored[i] = <<>> THEN <<s>> ELSE <<s, l>>
      BY <2>1, <2>3, <3>1
    <3>4. /\ stored'[i] # <<>> /\ Len(stored'[i]) <= 2 /\ stored'[i][1] = s
          /\ Len(stored'[i]) = 2 => stored[i] # <<>> /\ stored'[i][2] = l
      BY <3>3
    <3> QED
      BY <2>1, <3>2, <3>4 DEF StoredIsOK, IsPast, PairIsTrue
  <2> QED
    BY <1>1, <1>3, <2>2, <2>3, StoredIs
<1>6. stored' = stored \/ SaveSamples
  BY DEF SamplesNext, BeginPoll, NoSession, EndDiscovery, Guess, EndGuessing, Query, QueryAgain,
         Restart, NextIndex, ComeOrGo, CountErrors
<1> QED
  BY <1>4, <1>5, <1>6

\* A step of the polls keeps what is said of the samples taken.
LEMMA TakenStep ==
  ASSUME SampleAssumption, SamplesInv, SamplesNext
  PROVE  TakenOK'
<1>1. SamplesTypeOK /\ StoredOK /\ TakenOK /\ SamplesTypeOK' /\ taken \in Seq(Samples)
  BY SamplesTypeStep DEF SamplesInv, SamplesTypeOK
<1>2. CASE SaveSamples
  BY <1>2 DEF SaveSamples, TakenOK
<1>3. CASE BeginPoll
  BY <1>3 DEF BeginPoll, TakenOK
<1>4. ASSUME stored' = stored, stage # "idle",
             NEW k, k \in DOMAIN taken, taken'[k] = taken[k]
      PROVE  /\ IsPast(taken[k])'
             /\ stored'[taken'[k].index] # <<>> => PairIsTrue(taken[k], stored[taken[k].index][1])'
  <2>1. PICK s : s = taken[k] /\ s \in Samples
    BY <1>1, <1>4
  <2>2. IsPast(s) /\ (stored[s.index] # <<>> => PairIsTrue(s, stored[s.index][1]))
    BY <1>1, <1>4, <2>1 DEF TakenOK
  <2>3. IsPast(s)'
    BY <1>1, <2>1, <2>2, PastStays
  <2> QED
    BY <1>4, <2>1, <2>2, <2>3 DEF IsPast, PairIsTrue
<1>5. ASSUME taken' = taken, stored' = stored, stage # "idle",
             stage' \in {"discover", "guess"} => taken = <<>>
      PROVE  TakenOK'
  BY <1>4, <1>5 DEF TakenOK
<1>6. CASE stage = "idle" /\ stage' = "idle"
  BY <1>6 DEF TakenOK
<1>7. ASSUME Query PROVE TakenOK'
  <2>1. /\ todo # <<>> /\ todo \in Seq(Nat) /\ stored' = stored /\ device' = device
        /\ stage \in {"query", "again"} /\ stage' = stage
    BY <1>1, <1>7 DEF Query, SamplesTypeOK
  <2>2. CASE taken' = taken
    BY <2>1, <2>2, <1>5
  <2>3. ASSUME NEW i, i = Head(todo), i \in device.there, NEW lost \in BOOLEAN,
               taken' = Append(taken, SampleOf(i, lost))
        PROVE  TakenOK'
    <3>1. i \in Interfaces
      BY <1>1, <2>3 DEF SamplesTypeOK, Devices
    <3>2. PICK s : s = SampleOf(i, lost)
      OBVIOUS
    <3>3. s \in Samples /\ s.index = i /\ IsPast(s)
      BY <1>1, <3>1, <3>2, SampleIsPast
    <3>4. IsPast(s)'
      BY <1>1, <3>3, PastStays
    <3>5. stored[i] # <<>> => PairIsTrue(s, stored[i][1])
      <4>1. SUFFICES ASSUME stored[i] # <<>> PROVE PairIsTrue(s, stored[i][1])
        OBVIOUS
      <4>2. PICK o : o = stored[i][1]
        OBVIOUS
      <4>3. o \in Samples
        BY <1>1, <3>1, <4>1, <4>2 DEF SamplesTypeOK
      <4>4. o.index = i /\ IsPast(o)
        BY <1>1, <3>1, <4>1, <4>2 DEF StoredOK, StoredIsOK
      <4> QED
        BY <1>1, <3>1, <3>2, <4>2, <4>3, <4>4, NewPairIsTrue
    <3>6. \A p \in DOMAIN taken' :
            (p \in DOMAIN taken /\ taken'[p] = taken[p]) \/ taken'[p] = s
      BY <1>1, <2>3, <3>2, <3>3, Added
    <3>7. SUFFICES ASSUME NEW p, p \in DOMAIN taken'
                   PROVE  /\ IsPast(taken[p])'
                          /\ stored'[taken'[p].index] # <<>> => PairIsTrue(taken[p], stored[taken[p].index][1])'
      BY <2>1 DEF TakenOK
    <3>8. CASE taken'[p] = s
      BY <3>8, <3>3, <3>4, <3>5, <2>1 DEF IsPast, PairIsTrue
    <3>9. CASE p \in DOMAIN taken /\ taken'[p] = taken[p]
      BY <3>9, <2>1, <1>4
    <3> QED
      BY <3>6, <3>7, <3>8, <3>9
  <2> QED
    BY <1>7, <2>2, <2>3 DEF Query, QueryNext
<1>8. \/ Query \/ SaveSamples \/ BeginPoll \/ (stage = "idle" /\ stage' = "idle")
      \/ /\ taken' = taken /\ stored' = stored /\ stage # "idle"
         /\ stage' \in {"discover", "guess"} => taken = <<>>
  BY <1>1 DEF SamplesNext, NoSession, EndDiscovery, Guess, EndGuessing, QueryAgain, TakenOK,
         Restart, NextIndex, ComeOrGo, CountErrors, SamplesTypeOK
<1> QED
  BY <1>2, <1>3, <1>5, <1>6, <1>7, <1>8

\* A step of the polls takes no sample of an interface twice.
LEMMA OnceStep ==
  ASSUME SampleAssumption, SamplesInv, SamplesNext
  PROVE  OnceOK'
<1>1. /\ OnceOK /\ TakenOK /\ indexes \in Seq(Nat) /\ todo \in Seq(Nat) /\ taken \in Seq(Samples)
      /\ SamplesTypeOK
  BY DEF SamplesInv, SamplesTypeOK
<1>2. IsInjective(Guesses) /\ IsInjective(Fallback) /\ IsInjective(<<>>)
  BY DEF SampleAssumption, IsInjective
<1>3. CASE BeginPoll
  BY <1>1, <1>2, <1>3 DEF BeginPoll, OnceOK, SampledOnce
<1>4. CASE NoSession
  BY <1>1, <1>2, <1>4 DEF NoSession, OnceOK, SampledOnce, TakenOK, discovery
<1>5. ASSUME NEW i \in Interfaces, NextIndex(i) PROVE OnceOK'
  <2>1. stage = "discover" /\ stage' = stage /\ taken' = taken /\ todo' = todo
    BY <1>5 DEF NextIndex
  <2>2. IsInjective(indexes')
    <3>1. CASE indexes' = indexes
      BY <3>1, <1>1 DEF OnceOK
    <3>2. CASE indexes' = Append(indexes, i) /\ ~Contains(indexes, i)
      <4>1. \A p \in DOMAIN indexes : indexes[p] # i
        BY <1>1, <3>2 DEF Contains
      <4>2. i \in Nat
        BY DEF SampleAssumption
      <4> QED
        BY <1>1, <3>2, <4>1, <4>2, Added DEF OnceOK, IsInjective
    <3> QED
      BY <3>1, <3>2, <1>5 DEF NextIndex
  <2> QED
    BY <1>1, <2>1, <2>2 DEF OnceOK, SampledOnce
<1>6. CASE EndDiscovery
  BY <1>1, <1>2, <1>6 DEF EndDiscovery, OnceOK, SampledOnce, TakenOK, discovery
<1>7. CASE Guess
  <2>1. /\ todo # <<>> /\ todo' = Tail(todo) /\ taken' = taken /\ stage = "guess" /\ stage' = "guess"
        /\ indexes' = indexes \/ indexes' = Append(indexes, Head(todo))
    BY <1>7 DEF Guess
  <2>2. /\ Head(todo) = todo[1] /\ 1 \in DOMAIN todo /\ Head(todo) \in Nat
        /\ \A p \in DOMAIN todo' : p \in Nat /\ p + 1 \in DOMAIN todo /\ p + 1 # 1 /\ todo'[p] = todo[p + 1]
    BY <1>1, <2>1, HeadAndTail
  <2>3. IsInjective(todo') /\ \A p \in DOMAIN todo' : todo'[p] # Head(todo)
    BY <1>1, <2>2 DEF OnceOK, IsInjective
  <2>4. /\ \A p \in DOMAIN indexes : indexes[p] # Head(todo)
        /\ \A p \in DOMAIN indexes, q \in DOMAIN todo' : indexes[p] # todo'[q]
    BY <1>1, <2>1, <2>2 DEF OnceOK
  <2>5. IsInjective(indexes') /\ \A p \in DOMAIN indexes', q \in DOMAIN todo' : indexes'[p] # todo'[q]
    <3>1. CASE indexes' = indexes
      BY <3>1, <1>1, <2>4 DEF OnceOK
    <3>2. CASE indexes' = Append(indexes, Head(todo))
      <4>1. \A p \in DOMAIN indexes' :
              (p \in DOMAIN indexes /\ indexes'[p] = indexes[p]) \/ (p = Len(indexes) + 1 /\ indexes'[p] = Head(todo))
        BY <1>1, <2>2, <3>2, Added
      <4>2. IsInjective(indexes)
        BY <1>1 DEF OnceOK
      <4> QED
        BY <4>1, <4>2, <2>3, <2>4 DEF IsInjective
    <3> QED
      BY <3>1, <3>2, <2>1
  <2> QED
    BY <1>1, <2>1, <2>3, <2>5 DEF OnceOK, SampledOnce
<1>8. CASE EndGuessing
  BY <1>1, <1>2, <1>8 DEF EndGuessing, OnceOK, SampledOnce, TakenOK, discovery
<1>9. CASE Query
  <2>1. /\ todo # <<>> /\ todo' = Tail(todo) /\ indexes' = indexes
        /\ stage \in {"query", "again"} /\ stage' = stage
    BY <1>9 DEF Query, discovery
  <2>2. /\ Head(todo) = todo[1] /\ 1 \in DOMAIN todo /\ Head(todo) \in Nat
        /\ \A p \in DOMAIN todo' : p \in Nat /\ p + 1 \in DOMAIN todo /\ p + 1 # 1 /\ todo'[p] = todo[p + 1]
    BY <1>1, <2>1, HeadAndTail
  <2>3. IsInjective(todo') /\ \A p \in DOMAIN todo' : todo'[p] # Head(todo)
    BY <1>1, <2>2 DEF OnceOK, IsInjective
  <2>4. /\ \A k \in DOMAIN taken : taken[k].index # Head(todo)
        /\ \A k \in DOMAIN taken, q \in DOMAIN todo' : taken[k].index # todo'[q]
    BY <1>1, <2>1, <2>2 DEF OnceOK
  <2>5. CASE taken' = taken
    BY <1>1, <2>1, <2>3, <2>4, <2>5 DEF OnceOK, SampledOnce
  <2>6. ASSUME NEW lost \in BOOLEAN, Head(todo) \in device.there,
               taken' = Append(taken, SampleOf(Head(todo), lost))
        PROVE  OnceOK'
    <3>1. Head(todo) \in Interfaces
      BY <1>1, <2>6 DEF SamplesTypeOK, Devices
    <3>2. PICK s : s = SampleOf(Head(todo), lost)
      OBVIOUS
    <3>3. s \in Samples /\ s.index = Head(todo)
      BY <1>1, <3>1, <3>2, SampleIsPast
    <3>4. \A p \in DOMAIN taken' :
            (p \in DOMAIN taken /\ taken'[p] = taken[p]) \/ (p = Len(taken) + 1 /\ taken'[p] = s)
      BY <1>1, <2>6, <3>2, <3>3, Added
    <3>5. SampledOnce'
      <4>1. SampledOnce
        BY <1>1 DEF OnceOK
      <4> QED
        BY <4>1, <2>4, <3>3, <3>4 DEF SampledOnce
    <3>6. \A k \in DOMAIN taken', q \in DOMAIN todo' : taken'[k].index # todo'[q]
      BY <2>3, <2>4, <3>3, <3>4
    <3> QED
      BY <1>1, <2>1, <2>3, <3>5, <3>6 DEF OnceOK
  <2> QED
    BY <1>9, <2>5, <2>6 DEF Query, QueryNext
<1>10. CASE QueryAgain
  BY <1>1, <1>2, <1>10 DEF QueryAgain, OnceOK, SampledOnce, discovery
<1>11. CASE SaveSamples
  BY <1>1, <1>2, <1>11 DEF SaveSamples, OnceOK, SampledOnce, discovery
<1>12. ASSUME UNCHANGED <<stage, discovery, todo, taken>>
       PROVE  OnceOK'
  BY <1>1, <1>12 DEF OnceOK, SampledOnce, discovery
<1> QED
  BY <1>3, <1>4, <1>5, <1>6, <1>7, <1>8, <1>9, <1>10, <1>11, <1>12
  DEF SamplesNext, Restart, ComeOrGo, CountErrors, discovery

\* A step of the polls keeps what is said of the interfaces found.
LEMMA FoundStep ==
  ASSUME SampleAssumption, SamplesInv, SamplesNext
  PROVE  FoundOK'
<1>1. /\ FoundOK /\ TakenOK /\ indexes \in Seq(Nat) /\ todo \in Seq(Nat) /\ taken \in Seq(Samples)
      /\ SamplesTypeOK /\ cursor \in Nat /\ steps \in Nat /\ steady \subseteq Interfaces
      /\ device \in Devices /\ device.there \subseteq Interfaces
  BY DEF SamplesInv, SamplesTypeOK, Devices
<1>2. Interfaces \subseteq Nat \ {0} /\ MaxSteps \in Nat
  BY DEF SampleAssumption
<1>3. CASE BeginPoll
  <2>1. /\ agent' = agent /\ stage' = "discover" /\ steady' = device.there /\ device' = device
        /\ cursor' = 0 /\ indexes' = <<>>
    BY <1>3 DEF BeginPoll
  <2>2. \A i \in steady' : i \in Nat /\ ~(i <= 0)
    <3>1. \A i \in Nat \ {0} : i \in Nat /\ ~(i <= 0)
      OBVIOUS
    <3>2. steady' \subseteq Nat \ {0}
      BY <1>1, <1>2, <2>1
    <3> QED
      BY <3>1, <3>2
  <2> QED
    BY <2>1, <2>2 DEF FoundOK
<1>4. CASE NoSession
  BY <1>1, <1>4 DEF NoSession, FoundOK, Lost, discovery
<1>5. ASSUME NEW i \in Interfaces, NextIndex(i) PROVE FoundOK'
  <2>1. /\ stage = "discover" /\ stage' = stage /\ steady' = steady /\ device' = device /\ agent' = agent
        /\ cursor' = i /\ i \in Nat
        /\ indexes' = IF Contains(indexes, i) THEN indexes ELSE Append(indexes, i)
    BY <1>2, <1>5 DEF NextIndex
  <2>2. /\ \A p \in DOMAIN indexes : p \in DOMAIN indexes' /\ indexes'[p] = indexes[p]
        /\ Lists(indexes', i)
    <3>1. CASE Contains(indexes, i)
      <4>1. indexes' = indexes
        BY <2>1, <3>1
      <4>2. \E p \in DOMAIN indexes : indexes[p] = i
        BY <1>1, <3>1 DEF Contains
      <4> QED
        BY <4>1, <4>2 DEF Lists
    <3>2. CASE ~Contains(indexes, i)
      <4>1. indexes' = Append(indexes, i)
        BY <2>1, <3>2
      <4>2. /\ \A p \in DOMAIN indexes : p \in DOMAIN indexes' /\ indexes'[p] = indexes[p]
            /\ Len(indexes) + 1 \in DOMAIN indexes' /\ indexes'[Len(indexes) + 1] = i
        <5>1. i \in Nat /\ indexes \in Seq(Nat)
          BY <2>1, <1>1
        <5>2. /\ \A p \in DOMAIN indexes : p \in DOMAIN Append(indexes, i) /\ Append(indexes, i)[p] = indexes[p]
              /\ Len(indexes) + 1 \in DOMAIN Append(indexes, i) /\ Append(indexes, i)[Len(indexes) + 1] = i
          BY <5>1, Added
        <5> QED
          BY <4>1, <5>2
      <4> QED
        BY <4>2 DEF Lists
    <3> QED
      BY <3>1, <3>2
  <2>3. ASSUME agent = "sound", NEW j \in steady, j <= i PROVE Lists(indexes', j)
    <3>1. j \in device.there /\ j \in Nat /\ (j <= cursor => Lists(indexes, j))
      BY <1>1, <1>2, <2>1, <2>3 DEF FoundOK
    <3>2. j > cursor => i <= j
      BY <3>1, <2>3, <1>5 DEF NextIndex
    <3>3. CASE j <= cursor
      BY <3>1, <3>3, <2>2 DEF Lists
    <3>4. CASE j > cursor
      BY <3>1, <3>2, <3>4, <2>1, <2>2, <2>3
    <3> QED
      BY <3>1, <3>3, <3>4, <1>1
  <2> QED
    BY <1>1, <2>1, <2>3 DEF FoundOK
<1>6. ASSUME EndDiscovery PROVE FoundOK'
  <2>1. /\ stage = "discover" /\ steady' = steady /\ device' = device /\ agent' = agent
        /\ cursor' = cursor /\ steps' = steps /\ indexes' = indexes /\ taken' = taken
        /\ steady \subseteq device.there
        /\ \/ stage' = "guess" \/ (stage' = "query" /\ todo' = indexes)
    BY <1>1, <1>6 DEF EndDiscovery, discovery, FoundOK
  <2>2. ASSUME agent = "sound", clean', NEW j \in Interfaces, IsDue(j) PROVE Lists(indexes, j)
    <3>1. j \in steady /\ j \in device.there /\ (steps < MaxSteps \/ j <= cursor)
      BY <2>1, <2>2 DEF IsDue
    <3>2. steps = MaxSteps \/ \A k \in device.there : k <= cursor
      BY <1>6, <2>2 DEF EndDiscovery, Lost
    <3>3. j <= cursor
      BY <3>1, <3>2, <1>1, <1>2
    <3> QED
      BY <3>1, <3>3, <2>1, <2>2, <1>1 DEF FoundOK
  <2> QED
    BY <2>1, <2>2 DEF FoundOK, IsDue
<1>7. ASSUME Guess PROVE FoundOK'
  <2>1. /\ stage = "guess" /\ stage' = stage /\ steady' = steady /\ device' = device /\ agent' = agent
        /\ cursor' = cursor /\ steps' = steps /\ todo # <<>>
        /\ indexes' = indexes \/ indexes' = Append(indexes, Head(todo))
        /\ clean' => clean
    BY <1>7 DEF Guess, Kept, Lost
  <2>2. \A p \in DOMAIN indexes : p \in DOMAIN indexes' /\ indexes'[p] = indexes[p]
    <3>1. Head(todo) \in Nat
      BY <1>1, <2>1, HeadAndTail
    <3> QED
      BY <3>1, <1>1, <2>1, Added
  <2> QED
    BY <1>1, <2>1, <2>2 DEF FoundOK, IsDue, Lists
<1>8. CASE EndGuessing
  BY <1>1, <1>8 DEF EndGuessing, FoundOK, Kept, discovery, IsDue
<1>9. ASSUME Query PROVE FoundOK'
  <2>1. /\ todo # <<>> /\ todo' = Tail(todo) /\ indexes' = indexes /\ steady' = steady /\ device' = device
        /\ stage \in {"query", "again"} /\ stage' = stage /\ agent' = agent
        /\ cursor' = cursor /\ steps' = steps
    BY <1>9 DEF Query, discovery
  <2>0. clean' => clean
    BY <1>9 DEF Query, QueryNext, Kept, Lost
  <2>2. /\ Head(todo) = todo[1] /\ 1 \in DOMAIN todo
        /\ \A p \in DOMAIN todo : p = 1 \/ (p - 1 \in DOMAIN todo' /\ todo'[p - 1] = todo[p])
    BY <1>1, <2>1, HeadAndTail
  <2>3. \A k \in DOMAIN taken : k \in DOMAIN taken' /\ taken'[k] = taken[k]
    <3>1. CASE taken' = taken
      BY <3>1
    <3>2. ASSUME NEW lost \in BOOLEAN, Head(todo) \in device.there,
                 taken' = Append(taken, SampleOf(Head(todo), lost))
          PROVE  \A k \in DOMAIN taken : k \in DOMAIN taken' /\ taken'[k] = taken[k]
      <4>1. SampleOf(Head(todo), lost) \in Samples
        BY <1>1, <3>2, SampleIsPast
      <4> QED
        BY <4>1, <1>1, <3>2, Added
    <3> QED
      BY <3>1, <3>2, <1>9 DEF Query, QueryNext
  <2>4. ASSUME clean', Head(todo) \in device.there
        PROVE  \E k \in DOMAIN taken' : taken'[k].index = Head(todo)
    <3>1. PICK s : s = SampleOf(Head(todo), FALSE)
      OBVIOUS
    <3>2. taken' = Append(taken, s)
      BY <1>9, <2>4, <3>1 DEF Query, QueryNext, Lost
    <3>3. s \in Samples /\ s.index = Head(todo)
      BY <1>1, <2>4, <3>1, SampleIsPast
    <3>4. Len(taken) + 1 \in DOMAIN taken' /\ taken'[Len(taken) + 1] = s
      BY <1>1, <3>2, <3>3, Added
    <3>5. taken'[Len(taken) + 1].index = Head(todo)
      BY <3>3, <3>4
    <3> QED
      BY <3>4, <3>5
  <2>5. ASSUME agent = "sound", clean', NEW j \in Interfaces, IsDue(j)
        PROVE  Lists(todo', j) \/ IsSampled(j)'
    <3>1. Lists(todo, j) \/ IsSampled(j)
      BY <1>1, <2>0, <2>1, <2>5 DEF FoundOK
    <3>2. j \in device.there
      BY <1>1, <2>1, <2>5 DEF FoundOK, IsDue
    <3>3. CASE IsSampled(j)
      BY <3>3, <2>3 DEF IsSampled
    <3>4. ASSUME NEW p \in DOMAIN todo, todo[p] = j PROVE Lists(todo', j) \/ IsSampled(j)'
      <4>1. CASE p = 1
        <5>1. j = Head(todo)
          BY <4>1, <3>4, <2>2
        <5>2. \E k \in DOMAIN taken' : taken'[k].index = Head(todo)
          BY <5>1, <3>2, <2>4, <2>5 DEF IsSampled
        <5> QED
          BY <5>1, <5>2 DEF IsSampled
      <4>2. CASE p # 1
        BY <4>2, <3>4, <2>2 DEF Lists
      <4> QED
        BY <4>1, <4>2
    <3> QED
      BY <3>1, <3>3, <3>4 DEF Lists
  <2> QED
    BY <1>1, <2>1, <2>5 DEF FoundOK, IsDue
<1>10. CASE QueryAgain
  <2>1. \A j : ~Lists(todo, j) /\ ~IsSampled(j)
    BY <1>10 DEF QueryAgain, Lists, IsSampled
  <2> QED
    BY <1>1, <1>10, <2>1 DEF QueryAgain, FoundOK, Kept, discovery, IsDue
<1>11. CASE SaveSamples
  BY <1>1, <1>11 DEF SaveSamples, FoundOK
<1>12. ASSUME NEW i \in Interfaces, ComeOrGo(i) PROVE FoundOK'
  <2>1. device'.there = IF i \in device.there THEN device.there \ {i} ELSE device.there \cup {i}
    BY <1>1, <1>12 DEF ComeOrGo, Devices
  <2> QED
    BY <1>1, <1>12, <2>1 DEF ComeOrGo, FoundOK, IsDue, IsSampled, discovery
<1>13. ASSUME device'.there = device.there, clean' = clean,
              UNCHANGED <<agent, stage, discovery, todo, taken, steady>>
       PROVE  FoundOK'
  BY <1>1, <1>13 DEF FoundOK, IsDue, IsSampled, discovery
<1>14. CASE Restart
  <2>1. device'.there = device.there
    BY <1>1, <1>14 DEF Restart, Devices
  <2> QED
    BY <2>1, <1>13, <1>14 DEF Restart
<1>15. ASSUME NEW i \in Interfaces, NEW n \in Rises, CountErrors(i, n) PROVE FoundOK'
  <2>1. device'.there = device.there
    BY <1>1, <1>15 DEF CountErrors, Devices
  <2> QED
    BY <2>1, <1>13, <1>15 DEF CountErrors
<1> QED
  BY <1>3, <1>4, <1>5, <1>6, <1>7, <1>8, <1>9, <1>10, <1>11, <1>12, <1>14, <1>15 DEF SamplesNext

\* No sample is there at first.
LEMMA SamplesInitInv ==
  ASSUME SampleAssumption, SamplesInit
  PROVE  SamplesInv
<1>1. Interfaces \subseteq Nat \ {0} /\ Starts \subseteq Nat
  BY DEF SampleAssumption
<1>2. PICK s \in Nat : device = [there |-> device.there, restarts |-> 0, total |-> [i \in Interfaces |-> s],
                                 base |-> [i \in Interfaces |-> 0]]
                       /\ device.there \subseteq Interfaces
  BY <1>1 DEF SamplesInit
<1>3. device \in Devices /\ \A i \in Interfaces : device.base[i] <= device.total[i]
  BY <1>2 DEF Devices
<1>4. SamplesTypeOK
  BY <1>3 DEF SamplesInit, SamplesTypeOK
<1>5. StoredOK /\ TakenOK /\ OnceOK /\ FoundOK
  BY DEF SamplesInit, StoredOK, StoredIsOK, TakenOK, OnceOK, FoundOK, SampledOnce, IsInjective
<1> QED
  BY <1>4, <1>5 DEF SamplesInv

\* Every step of the polls keeps the invariant,
LEMMA SamplesStepInv ==
  ASSUME SampleAssumption, SamplesInv, [SamplesNext]_sampleVars
  PROVE  SamplesInv'
<1>1. CASE SamplesNext
  BY <1>1, SamplesTypeStep, StoredStep, TakenStep, OnceStep, FoundStep DEF SamplesInv
<1>2. CASE UNCHANGED sampleVars
  BY <1>2 DEF sampleVars, discovery, SamplesInv, SamplesTypeOK, StoredOK, StoredIsOK, TakenOK, OnceOK,
              FoundOK, SampledOnce, IsPast, PairIsTrue, IsDue, IsSampled
<1> QED
  BY <1>1, <1>2

\* which says that the samples are true.
LEMMA SamplesInvIsTrue ==
  ASSUME SampleAssumption, SamplesInv
  PROVE  SamplesAreTrue
<1>1. SamplesTypeOK /\ StoredOK /\ OnceOK /\ FoundOK
  BY DEF SamplesInv
<1>2. DeltasAreTrue
  <2>1. SUFFICES ASSUME NEW i \in Interfaces, Len(stored[i]) = 2,
                        ~stored[i][1].lost, ~stored[i][2].lost
                 PROVE  LET s == stored[i]
                            rise == s[1].total - s[2].total
                        IN  /\ PortDelta(s) <= rise + (IF s[1].restarts = s[2].restarts THEN 0 ELSE Margin + 1)
                            /\ s[1].restarts = s[2].restarts /\ rise < Modulus
                                 /\ (s[1].errors >= s[2].errors \/ s[2].errors >= Modulus - 1 - Margin)
                               => PortDelta(s) = rise
    BY Zenon DEF DeltasAreTrue
  <2>2. PortDelta(stored[i]) = Delta(stored[i][2].errors, stored[i][1].errors)
    BY <2>1 DEF PortDelta
  <2>3. PairIsTrue(stored[i][1], stored[i][2])
    BY <1>1, <2>1 DEF StoredOK, StoredIsOK
  <2> QED
    BY <2>1, <2>2, <2>3 DEF PairIsTrue
<1>3. EveryInterfaceIsSampled
  <2>1. SUFFICES ASSUME stage \in {"query", "again"}, todo = <<>>, clean, agent = "sound",
                        NEW i \in steady, steps < MaxSteps \/ i <= cursor
                 PROVE  \E k \in DOMAIN taken : taken[k].index = i
    BY DEF EveryInterfaceIsSampled
  <2>2. i \in Interfaces /\ IsDue(i) /\ ~Lists(todo, i)
    BY <1>1, <2>1 DEF SamplesTypeOK, IsDue, Lists
  <2> QED
    BY <1>1, <2>1, <2>2 DEF FoundOK, IsSampled
<1>4. SampledOnce
  BY <1>1 DEF OnceOK
<1> QED
  BY <1>2, <1>3, <1>4 DEF SamplesAreTrue

-----------------------------------------------------------------------------
(* Keys in their order.                                                    *)

\* Keys of the same length are in a strict total order.
LEMMA PrecedesIsOrder ==
  ASSUME NEW n \in Nat, NEW k \in [1 .. n -> Nat], NEW l \in [1 .. n -> Nat]
  PROVE  /\ ~Precedes(k, k)
         /\ k # l => Precedes(k, l) \/ Precedes(l, k)
         /\ \A m \in [1 .. n -> Nat] : Precedes(k, l) /\ Precedes(l, m) => Precedes(k, m)
<1>1. ~Precedes(k, k)
  BY DEF Precedes
<1>2. ASSUME k # l PROVE Precedes(k, l) \/ Precedes(l, k)
  <2> DEFINE D == {i \in 1 .. n : k[i] # l[i]}
  <2>1. D \in SUBSET Nat /\ D # {}
    BY <1>2
  <2>2. PICK i \in D : \A j \in D : i <= j
    <3> HIDE DEF D
    <3> QED
      BY <2>1, FirstNumber
  <2>3. i \in 1 .. n /\ \A j \in 1 .. i - 1 : k[j] = l[j]
    BY <2>2
  <2>4. k[i] < l[i] \/ l[i] < k[i]
    BY <2>2, <2>3
  <2>5. DOMAIN k = 1 .. n /\ DOMAIN l = 1 .. n
    OBVIOUS
  <2> QED
    BY <2>3, <2>4, <2>5 DEF Precedes
<1>3. ASSUME NEW m \in [1 .. n -> Nat], Precedes(k, l), Precedes(l, m) PROVE Precedes(k, m)
  <2>1. PICK a \in 1 .. n : k[a] < l[a] /\ \A j \in 1 .. a - 1 : k[j] = l[j]
    BY <1>3 DEF Precedes
  <2>2. PICK b \in 1 .. n : l[b] < m[b] /\ \A j \in 1 .. b - 1 : l[j] = m[j]
    BY <1>3 DEF Precedes
  <2>3. DOMAIN k = 1 .. n
    OBVIOUS
  <2>4. CASE a < b
    <3>1. k[a] < m[a] /\ \A j \in 1 .. a - 1 : k[j] = m[j]
      BY <2>1, <2>2, <2>4
    <3> QED
      BY <2>3, <3>1 DEF Precedes
  <2>5. CASE b < a
    <3>1. k[b] < m[b] /\ \A j \in 1 .. b - 1 : k[j] = m[j]
      BY <2>1, <2>2, <2>5
    <3> QED
      BY <2>3, <3>1 DEF Precedes
  <2>6. CASE a = b
    <3>1. k[a] < m[a] /\ \A j \in 1 .. a - 1 : k[j] = m[j]
      BY <2>1, <2>2, <2>6
    <3> QED
      BY <2>3, <3>1 DEF Precedes
  <2> QED
    BY <2>4, <2>5, <2>6
<1> QED
  BY <1>1, <1>2, <1>3

\* A set of keys in order is made of its keys.
LEMMA OrderedIs ==
  ASSUME NEW n \in Nat, NEW keys \in SUBSET [1 .. n -> Nat], IsFiniteSet(keys)
  PROVE  /\ Ordered(keys) \in Seq(keys)
         /\ \A k \in keys : \E i \in DOMAIN Ordered(keys) : Ordered(keys)[i] = k
<1> DEFINE upTo(k) == {l \in keys : l = k \/ Precedes(l, k)}
           N == Cardinality(keys)
           rank == [k \in keys |-> Rank(keys, k)]
<1>1. N \in Nat
  BY FS_CardinalityType
<1>2. ASSUME NEW k \in keys
      PROVE  IsFiniteSet(upTo(k)) /\ Rank(keys, k) = Cardinality(upTo(k)) /\ Rank(keys, k) \in 1 .. N
  <2>1. IsFiniteSet(upTo(k)) /\ Cardinality(upTo(k)) <= N
    <3>1. upTo(k) \in SUBSET keys
      OBVIOUS
    <3> HIDE DEF upTo
    <3> QED
      BY <3>1, FS_Subset
  <2>2. Cardinality(upTo(k)) \in Nat /\ Cardinality(upTo(k)) # 0
    <3>1. upTo(k) # {}
      OBVIOUS
    <3> HIDE DEF upTo
    <3> QED
      BY <2>1, <3>1, FS_CardinalityType, FS_EmptySet
  <2>3. Rank(keys, k) = Cardinality(upTo(k))
    BY DEF Rank
  <2> HIDE DEF upTo, N
  <2> QED
    BY <1>1, <2>1, <2>2, <2>3
<1>3. ASSUME NEW k \in keys, NEW l \in keys, Precedes(k, l)
      PROVE  Rank(keys, k) # Rank(keys, l)
  <2>1. \A m \in keys : Precedes(m, k) => Precedes(m, l)
    BY <1>3, PrecedesIsOrder
  <2>2. ~Precedes(l, k) /\ k # l
    <3>1. ~Precedes(k, k)
      BY PrecedesIsOrder
    <3>2. Precedes(k, l) /\ Precedes(l, k) => Precedes(k, k)
      BY PrecedesIsOrder
    <3> QED
      BY <1>3, <3>1, <3>2
  <2>3. upTo(k) \subseteq upTo(l) /\ l \in upTo(l) /\ l \notin upTo(k)
    BY <1>3, <2>1, <2>2
  <2>4. upTo(k) \in SUBSET upTo(l) /\ upTo(k) # upTo(l)
    BY <2>3
  <2>5. IsFiniteSet(upTo(l)) /\ Rank(keys, k) = Cardinality(upTo(k)) /\ Rank(keys, l) = Cardinality(upTo(l))
    BY <1>2
  <2> HIDE DEF upTo
  <2> QED
    BY <2>4, <2>5, FS_Subset
<1>4. \A k, l \in keys : Rank(keys, k) = Rank(keys, l) => k = l
  BY <1>3, PrecedesIsOrder
<1>5. rank \in Injection(keys, 1 .. N)
  <2>1. rank \in [keys -> 1 .. N]
    BY <1>2
  <2>2. \A k, l \in keys : rank[k] = rank[l] => k = l
    BY <1>4
  <2> QED
    BY <2>1, <2>2 DEF Injection, IsInjective
<1>6. rank \in Surjection(keys, 1 .. N)
  <2>1. IsFiniteSet(1 .. N) /\ Cardinality(1 .. N) = N
    BY <1>1, FS_Interval
  <2> HIDE DEF rank
  <2> QED
    BY <1>5, <2>1, FS_Injection
<1>7. \A m \in 1 .. N : \E k \in keys : Rank(keys, k) = m
  BY <1>6 DEF Surjection
<1>8. \A m \in 1 .. N : Ordered(keys)[m] \in keys
  <2>1. ASSUME NEW m \in 1 .. N PROVE Ordered(keys)[m] \in keys
    <3>1. Ordered(keys)[m] = CHOOSE k \in keys : Rank(keys, k) = m
      BY DEF Ordered
    <3> QED
      BY <1>7, <3>1
  <2> QED
    BY <2>1
<1>9. DOMAIN Ordered(keys) = 1 .. N
  BY DEF Ordered
<1>10. ASSUME NEW k \in keys PROVE \E i \in 1 .. N : Ordered(keys)[i] = k
  <2> DEFINE i == Rank(keys, k)
             l == CHOOSE l \in keys : Rank(keys, l) = i
  <2>1. i \in 1 .. N /\ Ordered(keys)[i] = l
    BY <1>2 DEF Ordered
  <2>2. l \in keys /\ Rank(keys, l) = Rank(keys, k)
    BY Zenon
  <2> HIDE DEF i, l
  <2>3. l = k
    BY <1>4, <2>2
  <2> QED
    BY <2>1, <2>3
<1>11. Ordered(keys) \in Seq(keys)
  BY <1>1, <1>8 DEF Ordered
<1> HIDE DEF N
<1>12. \A k \in keys : \E i \in DOMAIN Ordered(keys) : Ordered(keys)[i] = k
  BY <1>9, <1>10, Zenon
<1> QED
  BY <1>11, <1>12, Zenon

-----------------------------------------------------------------------------
(* What is collected.                                                      *)

Tables  == {"ifs", "ports", "lldp", "addresses", "cdp"}
Columns == {"name", "descr", "alias", "phys", "subtype", "id", "desc", "chassisSubtype", "chassis",
            "portSubtype", "port", "host", "addr"}

\* What a row of a table may say.
CellsOf(rows, names) == {[col |-> c, key |-> r.key, value |-> r[c]] : c \in names, r \in rows}

\* What was collected of the remote tables and of the addresses is of their rows.
CollectedOK ==
  /\ DOMAIN got = Tables
  /\ world \in Worlds
  /\ got["lldp"] \in Seq(CellsOf(ToSet(world.lldp), Columns))
  /\ got["cdp"] \in Seq(CellsOf(ToSet(world.cdp), Columns))
  /\ got["addresses"] \in Seq(CellsOf(ToSet(world.addresses), {"addr"}))

\* Quotient and remainder of a number below a product.
LEMMA Quotient ==
  ASSUME NEW m \in Nat \ {0}, NEW k \in Nat, NEW x \in 0 .. m * k - 1
  PROVE  x \div m \in 0 .. k - 1 /\ x % m \in 0 .. m - 1
<1> DEFINE q == x \div m
<1>1. q \in Nat /\ x = m * q + (x % m) /\ x % m \in 0 .. m - 1
  OBVIOUS
<1> HIDE DEF q
<1>2. m * q < m * k
  BY <1>1
<1>3. ~(q >= k)
  <2>1. ASSUME q >= k PROVE FALSE
    <3>1. PICK e \in Nat : q = k + e
      <4>1. q - k \in Nat /\ q = k + (q - k)
        BY <1>1, <2>1
      <4> QED
        BY <4>1
    <3>2. m * q = m * k + m * e /\ m * e \in Nat
      BY <3>1
    <3>3. m * k \in Nat
      OBVIOUS
    <3> QED
      BY <1>2, <3>2, <3>3
  <2> QED
    BY <2>1
<1>4. q \in 0 .. k - 1
  BY <1>1, <1>3
<1> QED
  BY <1>1, <1>4 DEF q

\* The cell of a row and a column is one.
LEMMA CellIs ==
  ASSUME NEW rows, NEW names, NEW x,
         \E c \in names, r \in rows : x = [col |-> c, key |-> r.key, value |-> r[c]]
  PROVE  x \in CellsOf(rows, names)
  BY DEF CellsOf

\* The varbinds of a table are cells of its rows.
LEMMA VarbindsAreCells ==
  ASSUME NEW rows, NEW lines \in Seq(rows), NEW names, NEW columns \in Seq(names)
  PROVE  Varbinds(lines, columns) \in Seq(CellsOf(rows, names))
<1> DEFINE n == Len(lines)
           m == Len(columns)
           cells == [i \in 1 .. n * m |->
                      LET c == columns[((i - 1) \div n) + 1]
                          r == lines[((i - 1) % n) + 1]
                      IN  [col |-> c, key |-> r.key, value |-> r[c]]]
           places == {i \in DOMAIN cells : cells[i].value # "none"}
<1>1. n \in Nat /\ m \in Nat /\ n * m \in Nat
  OBVIOUS
<1>2. ASSUME NEW i \in 1 .. n * m PROVE cells[i] \in CellsOf(rows, names)
  <2>1. n # 0
    BY <1>1
  <2>2. i - 1 \in 0 .. n * m - 1
    BY <1>1
  <2>3. (i - 1) \div n \in 0 .. m - 1 /\ (i - 1) % n \in 0 .. n - 1
    <3> HIDE DEF n, m
    <3> QED
      BY <1>1, <2>1, <2>2, Quotient
  <2>4. ((i - 1) \div n) + 1 \in 1 .. m /\ ((i - 1) % n) + 1 \in 1 .. n
    <3> DEFINE a == (i - 1) \div n
               b == (i - 1) % n
    <3>1. a \in 0 .. m - 1 /\ b \in 0 .. n - 1
      BY <2>3
    <3> HIDE DEF a, b, n, m
    <3>2. a + 1 \in 1 .. m /\ b + 1 \in 1 .. n
      BY <1>1, <3>1
    <3> QED
      BY <3>2 DEF a, b
  <2>5. PICK c \in names : c = columns[((i - 1) \div n) + 1]
    <3> DEFINE a == ((i - 1) \div n) + 1
    <3>1. a \in 1 .. m
      BY <2>4
    <3> HIDE DEF a
    <3>2. columns[a] \in names
      BY <3>1
    <3> QED
      BY <3>2 DEF a
  <2>6. PICK r \in rows : r = lines[((i - 1) % n) + 1]
    <3> DEFINE a == ((i - 1) % n) + 1
    <3>1. a \in 1 .. n
      BY <2>4
    <3> HIDE DEF a
    <3>2. lines[a] \in rows
      BY <3>1
    <3> QED
      BY <3>2 DEF a
  <2>7. cells[i] = [col |-> c, key |-> r.key, value |-> r[c]]
    BY <2>5, <2>6, Zenon
  <2> HIDE DEF cells, n, m
  <2>8. \E d \in names, s \in rows : cells[i] = [col |-> d, key |-> s.key, value |-> s[d]]
    BY <2>7
  <2> QED
    BY <2>8, CellIs
<1>3. cells \in Seq(CellsOf(rows, names)) /\ Len(cells) = n * m /\ DOMAIN cells = 1 .. n * m
  <2>1. DOMAIN cells = 1 .. n * m /\ cells = [i \in 1 .. n * m |-> cells[i]]
    OBVIOUS
  <2> HIDE DEF cells, n, m
  <2> QED
    BY <1>1, <1>2, <2>1
<1>4. places \in SUBSET (1 .. Len(cells))
  <2> HIDE DEF cells, n, m
  <2> QED
    BY <1>3
<1>5. EntriesAt(cells, places) \in Seq(CellsOf(rows, names))
  <2> HIDE DEF cells, places, n, m
  <2> QED
    BY <1>3, <1>4, AtIsOf
<1>6. Varbinds(lines, columns) = EntriesAt(cells, places)
  BY Zenon DEF Varbinds
<1> QED
  BY <1>5, <1>6, Zenon

\* The keys of what was collected are those of rows, and finitely many.
LEMMA KeysAreOfRows ==
  ASSUME NEW rows, NEW names, NEW v \in Seq(CellsOf(rows, names))
  PROVE  Keys(v) \subseteq {r.key : r \in rows} /\ IsFiniteSet(Keys(v))
<1> DEFINE key == [i \in 1 .. Len(v) |-> v[i].key]
<1>1. Len(v) \in Nat /\ DOMAIN v = 1 .. Len(v) /\ \A i \in 1 .. Len(v) : v[i] \in CellsOf(rows, names)
  OBVIOUS
<1>2. \A x \in CellsOf(rows, names) : x.key \in {r.key : r \in rows}
  BY DEF CellsOf
<1>3. Keys(v) \subseteq {r.key : r \in rows}
  BY <1>1, <1>2 DEF Keys, ToSet
<1>4. key \in Surjection(1 .. Len(v), Keys(v))
  <2>1. \A i \in 1 .. Len(v) : key[i] \in Keys(v)
    BY <1>1 DEF Keys, ToSet
  <2>2. \A k \in Keys(v) : \E i \in 1 .. Len(v) : key[i] = k
    BY <1>1 DEF Keys, ToSet
  <2> HIDE DEF key
  <2>3. key \in [1 .. Len(v) -> Keys(v)]
    BY <2>1 DEF key
  <2> QED
    BY <2>2, <2>3 DEF Surjection
<1>5. IsFiniteSet(1 .. Len(v))
  BY <1>1, FS_Interval
<1> QED
  BY <1>3, <1>4, <1>5, FS_Surjection

\* A cell that was collected is the row's, or nothing.
LEMMA CellIsOfRow ==
  ASSUME NEW rows, NEW names, NEW v \in Seq(CellsOf(rows, names)), NEW r \in rows,
         \A s \in rows : s.key = r.key => s = r, NEW c
  PROVE  Cell(v, r.key, c) \in {r[c], "none"}
<1> DEFINE hits == {x \in ToSet(v) : x.key = r.key /\ x.col = c}
<1>1. \A x \in hits : x.value = r[c]
  <2>1. ASSUME NEW x \in hits PROVE x.value = r[c]
    <3>1. x \in CellsOf(rows, names) /\ x.key = r.key /\ x.col = c
      BY DEF ToSet
    <3>2. PICK d \in names, s \in rows : x = [col |-> d, key |-> s.key, value |-> s[d]]
      BY <3>1 DEF CellsOf
    <3>3. s = r /\ d = c /\ x.value = s[d]
      BY <3>1, <3>2
    <3> QED
      BY <3>3
  <2> QED
    BY <2>1
<1>2. Cell(v, r.key, c) = IF hits = {} THEN "none" ELSE (CHOOSE x \in hits : TRUE).value
  BY Zenon DEF Cell
<1>3. hits # {} => (CHOOSE x \in hits : TRUE) \in hits
  OBVIOUS
<1> HIDE DEF hits
<1> QED
  BY <1>1, <1>2, <1>3

-----------------------------------------------------------------------------
(* What is made of it.                                                     *)

IsEdge(e) ==
  e = [protocol |-> e.protocol, index |-> e.index, ip |-> e.ip, host |-> e.host, port |-> e.port,
       target |-> e.target, health |-> e.health, label |-> e.label]

\* A row of the device says what the edge says.
IsTold(e) ==
  \/ \E r \in ToSet(world.lldp) : ToldByLldp(e, r)
  \/ \E r \in ToSet(world.cdp) : ToldByCdp(e, r)

\* An edge with an address leads to the node of the address.
LeadsToAddress(e) == e.ip = "none" \/ e.target = <<"ip", e.ip>>

EdgeOK(e) == IsEdge(e) /\ IsTold(e) /\ LeadsToAddress(e) /\ e.health = "Healthy"

EdgesOK(edges) ==
  /\ edges \in Seq(ToSet(edges))
  /\ \A i \in DOMAIN edges : EdgeOK(edges[i])

\* A function on the numbers up to n is a sequence of n members.
LEMMA IsSequence ==
  ASSUME NEW n \in Nat, NEW s, s = [i \in 1 .. n |-> s[i]]
  PROVE  s \in Seq(ToSet(s)) /\ Len(s) = n /\ DOMAIN s = 1 .. n
<1>1. DOMAIN s = 1 .. n
  BY Zenon
<1>2. \A i \in 1 .. n : s[i] \in ToSet(s)
  BY <1>1 DEF ToSet
<1>3. s \in [1 .. n -> ToSet(s)]
  BY <1>2
<1> QED
  BY <1>1, <1>3

\* The members of two lists put together are those of the one and of the other.
LEMMA OfBoth ==
  ASSUME NEW S, NEW s \in Seq(S), NEW t \in Seq(S)
  PROVE  ToSet(s \o t) = ToSet(s) \cup ToSet(t)
<1>1. /\ Len(s \o t) = Len(s) + Len(t) /\ DOMAIN (s \o t) = 1 .. Len(s) + Len(t)
      /\ \A i \in 1 .. Len(s) + Len(t) : (s \o t)[i] = IF i <= Len(s) THEN s[i] ELSE t[i - Len(s)]
  BY ConcatProperties
<1>2. Len(s) \in Nat /\ Len(t) \in Nat /\ DOMAIN s = 1 .. Len(s) /\ DOMAIN t = 1 .. Len(t)
  OBVIOUS
<1>3. ASSUME NEW i \in 1 .. Len(s) + Len(t) PROVE (s \o t)[i] \in ToSet(s) \cup ToSet(t)
  <2>1. CASE i <= Len(s)
    BY <1>1, <1>2, <2>1 DEF ToSet
  <2>2. CASE ~(i <= Len(s))
    <3>1. i - Len(s) \in 1 .. Len(t)
      BY <1>2, <2>2
    <3> QED
      BY <1>1, <1>2, <2>2, <3>1 DEF ToSet
  <2> QED
    BY <2>1, <2>2
<1>4. ASSUME NEW i \in 1 .. Len(s) PROVE s[i] \in ToSet(s \o t)
  <2>1. i \in 1 .. Len(s) + Len(t) /\ i <= Len(s)
    BY <1>2
  <2> QED
    BY <1>1, <2>1 DEF ToSet
<1>5. ASSUME NEW i \in 1 .. Len(t) PROVE t[i] \in ToSet(s \o t)
  <2>1. Len(s) + i \in 1 .. Len(s) + Len(t) /\ ~(Len(s) + i <= Len(s)) /\ (Len(s) + i) - Len(s) = i
    BY <1>2
  <2>2. (s \o t)[Len(s) + i] = t[i]
    BY <1>1, <2>1
  <2> QED
    BY <1>1, <2>1, <2>2 DEF ToSet
<1>6. ToSet(s \o t) \subseteq ToSet(s) \cup ToSet(t)
  BY <1>1, <1>3 DEF ToSet
<1>7. ToSet(s) \subseteq ToSet(s \o t) /\ ToSet(t) \subseteq ToSet(s \o t)
  BY <1>2, <1>4, <1>5 DEF ToSet
<1> QED
  BY <1>6, <1>7

\* The members of a sequence are of its set.
LEMMA IsOfSeq ==
  ASSUME NEW S, NEW s \in Seq(S)
  PROVE  \A x \in ToSet(s) : x \in S
  BY DEF ToSet

\* An edge with the remote port and the target of one that is told, and its host or none,
\* is told.
LEMMA ToldToo ==
  ASSUME NEW e, IsTold(e), NEW f, f.port = e.port, f.target = e.target, f.host \in {e.host, "none"}
  PROVE  IsTold(f)
  BY DEF IsTold, ToldByLldp, ToldByCdp, Told

\* Rows with different keys at different places: a key is of one row.
LEMMA RowsAreOne ==
  ASSUME NEW t, \A i, j \in DOMAIN t : t[i].key = t[j].key => i = j
  PROVE  \A r, s \in ToSet(t) : s.key = r.key => s = r
  BY DEF ToSet

\* Where the edge of a neighbour leads to: its address, its name, or nowhere known.
LEMMA PlacedIs ==
  ASSUME NEW g, NEW edge, NEW position, NEW e, e = Placed(g, edge, position)
  PROVE  /\ IsEdge(e) /\ LeadsToAddress(e) /\ e.health = "Healthy"
         /\ e.port = edge.port /\ e.host = edge.host
         /\ \/ e.target = <<"ip", edge.ip>> /\ edge.ip # "none"
            \/ e.target = <<"name", edge.host>>
            \/ e.target[1] = "unknown"
<1>1. /\ IsEdge(e) /\ e.health = "Healthy" /\ e.target = TargetOf(edge, position)
      /\ e.port = edge.port /\ e.host = edge.host /\ e.ip = edge.ip
  BY DEF Placed, IsEdge
<1>2. CASE edge.ip # "none"
  <2>1. e.target = <<"ip", edge.ip>>
    BY <1>1, <1>2 DEF TargetOf
  <2> QED
    BY <1>1, <1>2, <2>1 DEF LeadsToAddress
<1>3. CASE edge.ip = "none" /\ edge.host \notin {"none", ""}
  <2>1. e.target = <<"name", edge.host>>
    BY <1>1, <1>3 DEF TargetOf
  <2> QED
    BY <1>1, <1>3, <2>1 DEF LeadsToAddress
<1>4. CASE edge.ip = "none" /\ edge.host \in {"none", ""}
  <2>1. e.target = <<"unknown", ToString(position)>>
    BY <1>1, <1>4 DEF TargetOf
  <2>2. e.target[1] = "unknown"
    BY <2>1
  <2> QED
    BY <1>1, <1>4, <2>2 DEF LeadsToAddress
<1> QED
  BY <1>2, <1>3, <1>4

\* The address of a neighbour is one of those that the device gives for its row.
LEMMA AddressIsOfRow ==
  ASSUME CollectedOK, NEW key, AddressOf(got, key) # "none"
  PROVE  AddressOf(got, key) \in {a.addr : a \in {a \in ToSet(world.addresses) : a.key = key}}
<1> DEFINE v == got.addresses
           readable == {i \in DOMAIN v : v[i].key = key /\ v[i].value # "bad"}
<1>1. v \in Seq(CellsOf(ToSet(world.addresses), {"addr"}))
  BY DEF CollectedOK
<1>2. AddressOf(got, key) = IF readable = {} THEN "none" ELSE v[Earliest(readable)].value
  BY Zenon DEF AddressOf
<1>3. readable # {}
  <2> HIDE DEF readable, v
  <2> QED
    BY <1>2
<1>4. Earliest(readable) \in readable
  <2>1. readable \in SUBSET Nat
    BY <1>1
  <2> HIDE DEF readable
  <2>2. \E i \in readable : \A j \in readable : i <= j
    BY <1>3, <2>1, FirstNumber
  <2> QED
    BY <2>2 DEF Earliest
<1>5. PICK i \in DOMAIN v : v[i].key = key /\ AddressOf(got, key) = v[i].value
  <2>1. AddressOf(got, key) = v[Earliest(readable)].value
    BY <1>2, <1>3, Zenon
  <2> QED
    BY <1>4, <2>1
<1>6. v[i] \in CellsOf(ToSet(world.addresses), {"addr"})
  BY <1>1
<1>7. PICK a \in ToSet(world.addresses) : v[i] = [col |-> "addr", key |-> a.key, value |-> a["addr"]]
  BY <1>6 DEF CellsOf
<1>8. a.key = key /\ AddressOf(got, key) = a.addr
  BY <1>5, <1>7
<1> QED
  BY <1>8

\* An edge of an LLDP row is told of it.
LEMMA LldpIsTold ==
  ASSUME WorldAssumption, CollectedOK, NEW key \in Keys(got.lldp), NEW position,
         NEW e, e = Placed(got, LldpEdge(got, key), position)
  PROVE  EdgeOK(e)
<1> DEFINE rows == ToSet(world.lldp)
           edge == LldpEdge(got, key)
           addresses(r) == {a.addr : a \in {a \in ToSet(world.addresses) : a.key = r.key}}
<1>1. got.lldp \in Seq(CellsOf(rows, Columns))
  BY DEF CollectedOK
<1>2. PICK r \in rows : key = r.key
  <2> HIDE DEF rows
  <2> QED
    BY <1>1, KeysAreOfRows
<1>3. \A s \in rows : s.key = r.key => s = r
  BY RowsAreOne DEF CollectedOK, WorldAssumption
<1>4. \A c : Cell(got.lldp, key, c) \in {r[c], "none"}
  <2> HIDE DEF rows
  <2> QED
    BY <1>1, <1>2, <1>3, CellIsOfRow
<1>5. /\ edge.port = Cell(got.lldp, key, "port") /\ edge.ip = AddressOf(got, key)
      /\ edge.host = Or(Text(Cell(got.lldp, key, "host")), Cell(got.lldp, key, "chassis"))
  BY DEF LldpEdge
<1>6. edge.port \in {r.port, "none"}
  BY <1>4, <1>5
<1>7. edge.host \in {Text(r.host), r.chassis, "none"}
  <2>1. Cell(got.lldp, key, "host") \in {r.host, "none"} /\ Cell(got.lldp, key, "chassis") \in {r.chassis, "none"}
    BY <1>4
  <2>2. Text("none") = "none"
    BY DEF Text
  <2>3. Text(Cell(got.lldp, key, "host")) \in {Text(r.host), "none"}
    BY <2>1, <2>2, Zenon
  <2> HIDE DEF edge
  <2> QED
    BY <1>5, <2>1, <2>3 DEF Or
<1>8. edge.ip # "none" => edge.ip \in addresses(r)
  <2>1. AddressOf(got, key) # "none" => AddressOf(got, key) \in addresses(r)
    BY <1>2, AddressIsOfRow, Zenon
  <2> HIDE DEF edge, addresses
  <2> QED
    BY <1>5, <2>1
<1> HIDE DEF edge
<1>9. /\ IsEdge(e) /\ LeadsToAddress(e) /\ e.health = "Healthy"
      /\ e.port = edge.port /\ e.host = edge.host
      /\ \/ e.target = <<"ip", edge.ip>> /\ edge.ip # "none"
         \/ e.target = <<"name", edge.host>>
         \/ e.target[1] = "unknown"
  <2>1. e = Placed(got, edge, position)
    BY DEF edge
  <2> QED
    BY <2>1, PlacedIs
<1>10. ToldByLldp(e, r)
  <2> DEFINE given == addresses(r)
  <2>1. edge.ip # "none" => edge.ip \in given
    BY <1>8
  <2>2. ToldByLldp(e, r) <=> Told(e, r, {Text(r.host), r.chassis, "none"}, given)
    BY Zenon DEF ToldByLldp
  <2> HIDE DEF given
  <2>3. Told(e, r, {Text(r.host), r.chassis, "none"}, given)
    BY <1>6, <1>7, <1>9, <2>1 DEF Told
  <2> QED
    BY <2>2, <2>3
<1> QED
  BY <1>9, <1>10 DEF IsTold, EdgeOK

\* An edge of a CDP row is told of it.
LEMMA CdpIsTold ==
  ASSUME WorldAssumption, CollectedOK, NEW key \in Keys(got.cdp), NEW position,
         NEW e, e = Placed(got, CdpEdge(got, key), position)
  PROVE  EdgeOK(e)
<1> DEFINE rows == ToSet(world.cdp)
           edge == CdpEdge(got, key)
<1>1. got.cdp \in Seq(CellsOf(rows, Columns))
  BY DEF CollectedOK
<1>2. PICK r \in rows : key = r.key
  <2> HIDE DEF rows
  <2> QED
    BY <1>1, KeysAreOfRows
<1>3. \A s \in rows : s.key = r.key => s = r
  BY RowsAreOne DEF CollectedOK, WorldAssumption
<1>4. \A c : Cell(got.cdp, key, c) \in {r[c], "none"}
  <2> HIDE DEF rows
  <2> QED
    BY <1>1, <1>2, <1>3, CellIsOfRow
<1>5. /\ edge.port = Cell(got.cdp, key, "port") /\ edge.host = Text(Cell(got.cdp, key, "host"))
      /\ edge.ip \in {Cell(got.cdp, key, "addr"), "none"}
  BY DEF CdpEdge
<1>6. edge.port \in {r.port, "none"} /\ edge.ip \in {r.addr, "none"}
  BY <1>4, <1>5
<1>7. edge.host \in {Text(r.host), "none"}
  <2>1. Cell(got.cdp, key, "host") \in {r.host, "none"}
    BY <1>4
  <2>2. Text("none") = "none"
    BY DEF Text
  <2> HIDE DEF edge
  <2> QED
    BY <1>5, <2>1, <2>2, Zenon
<1> HIDE DEF edge
<1>8. /\ IsEdge(e) /\ LeadsToAddress(e) /\ e.health = "Healthy"
      /\ e.port = edge.port /\ e.host = edge.host
      /\ \/ e.target = <<"ip", edge.ip>> /\ edge.ip # "none"
         \/ e.target = <<"name", edge.host>>
         \/ e.target[1] = "unknown"
  <2>1. e = Placed(got, edge, position)
    BY DEF edge
  <2> QED
    BY <2>1, PlacedIs
<1>9. ToldByCdp(e, r)
  BY <1>6, <1>7, <1>8 DEF ToldByCdp, Told
<1> QED
  BY <1>8, <1>9 DEF IsTold, EdgeOK

\* The keys of a remote table are put in order.
LEMMA KeysAreOrdered ==
  ASSUME WorldAssumption, CollectedOK
  PROVE  /\ Ordered(Keys(got.lldp)) \in Seq(Keys(got.lldp))
         /\ Ordered(Keys(got.cdp)) \in Seq(Keys(got.cdp))
         /\ \A k \in Keys(got.lldp) : \E i \in DOMAIN Ordered(Keys(got.lldp)) : Ordered(Keys(got.lldp))[i] = k
         /\ \A k \in Keys(got.cdp) : \E i \in DOMAIN Ordered(Keys(got.cdp)) : Ordered(Keys(got.cdp))[i] = k
<1>1. \A r \in ToSet(world.lldp) : r.key \in [1 .. 3 -> Nat]
  BY DEF CollectedOK, WorldAssumption, ToSet
<1>2. \A r \in ToSet(world.cdp) : r.key \in [1 .. 2 -> Nat]
  BY DEF CollectedOK, WorldAssumption, ToSet
<1>3. Keys(got.lldp) \in SUBSET [1 .. 3 -> Nat] /\ IsFiniteSet(Keys(got.lldp))
  BY <1>1, KeysAreOfRows DEF CollectedOK
<1>4. Keys(got.cdp) \in SUBSET [1 .. 2 -> Nat] /\ IsFiniteSet(Keys(got.cdp))
  BY <1>2, KeysAreOfRows DEF CollectedOK
<1>5. /\ Ordered(Keys(got.lldp)) \in Seq(Keys(got.lldp))
      /\ \A k \in Keys(got.lldp) : \E i \in DOMAIN Ordered(Keys(got.lldp)) : Ordered(Keys(got.lldp))[i] = k
  BY <1>3, OrderedIs
<1>6. /\ Ordered(Keys(got.cdp)) \in Seq(Keys(got.cdp))
      /\ \A k \in Keys(got.cdp) : \E i \in DOMAIN Ordered(Keys(got.cdp)) : Ordered(Keys(got.cdp))[i] = k
  BY <1>4, OrderedIs
<1> QED
  BY <1>5, <1>6, Zenon

\* Edges put behind edges are edges.
LEMMA EdgesOfBoth ==
  ASSUME NEW a, NEW b, EdgesOK(a), EdgesOK(b)
  PROVE  EdgesOK(a \o b)
<1> DEFINE s == a \o b
<1>1. Len(a) \in Nat /\ Len(b) \in Nat /\ DOMAIN a = 1 .. Len(a) /\ DOMAIN b = 1 .. Len(b)
  BY DEF EdgesOK
<1>2. /\ s \in Seq(ToSet(a) \cup ToSet(b)) /\ Len(s) = Len(a) + Len(b)
      /\ \A i \in 1 .. Len(a) + Len(b) : s[i] = IF i <= Len(a) THEN a[i] ELSE b[i - Len(a)]
  <2>1. a \in Seq(ToSet(a) \cup ToSet(b)) /\ b \in Seq(ToSet(a) \cup ToSet(b))
    BY <1>1 DEF EdgesOK
  <2> QED
    BY <2>1, ConcatProperties
<1>3. s = [i \in 1 .. Len(a) + Len(b) |-> s[i]] /\ DOMAIN s = 1 .. Len(a) + Len(b)
  <2> HIDE DEF s
  <2> QED
    BY <1>2
<1> HIDE DEF s
<1>4. s \in Seq(ToSet(s))
  <2>1. Len(a) + Len(b) \in Nat
    BY <1>1
  <2> QED
    BY <1>3, <2>1, IsSequence
<1>5. ASSUME NEW i \in 1 .. Len(a) + Len(b)
      PROVE  EdgeOK(s[i])
  <2>1. CASE i <= Len(a)
    <3>1. i \in 1 .. Len(a)
      BY <1>1, <2>1
    <3> QED
      BY <1>1, <1>2, <2>1, <3>1 DEF EdgesOK
  <2>2. CASE ~(i <= Len(a))
    <3>1. i - Len(a) \in 1 .. Len(b)
      BY <1>1, <2>2
    <3> QED
      BY <1>1, <1>2, <2>2, <3>1 DEF EdgesOK
  <2> QED
    BY <2>1, <2>2
<1> QED
  BY <1>3, <1>4, <1>5 DEF EdgesOK, s

\* Every neighbour is of one row.
LEMMA NeighborsAreTold ==
  ASSUME WorldAssumption, CollectedOK
  PROVE  EdgesOK(Neighbors(got))
<1> DEFINE lldp == Ordered(Keys(got.lldp))
           cdp == Ordered(Keys(got.cdp))
           a == [i \in 1 .. Len(lldp) |-> Placed(got, LldpEdge(got, lldp[i]), i - 1)]
           b == [i \in 1 .. Len(cdp) |-> Placed(got, CdpEdge(got, cdp[i]), Len(lldp) + i - 1)]
<1>1. /\ Len(lldp) \in Nat /\ \A i \in 1 .. Len(lldp) : lldp[i] \in Keys(got.lldp)
      /\ Len(cdp) \in Nat /\ \A i \in 1 .. Len(cdp) : cdp[i] \in Keys(got.cdp)
  <2>1. lldp \in Seq(Keys(got.lldp)) /\ cdp \in Seq(Keys(got.cdp))
    BY KeysAreOrdered
  <2> HIDE DEF lldp, cdp
  <2> QED
    BY <2>1
<1>2. Neighbors(got) = a \o b
  BY Zenon DEF Neighbors
<1> HIDE DEF lldp, cdp
<1>3. a = [i \in 1 .. Len(lldp) |-> a[i]] /\ b = [i \in 1 .. Len(cdp) |-> b[i]]
  OBVIOUS
<1>4. ASSUME NEW i \in 1 .. Len(lldp) PROVE EdgeOK(a[i])
  <2>1. a[i] = Placed(got, LldpEdge(got, lldp[i]), i - 1)
    OBVIOUS
  <2> HIDE DEF a
  <2> QED
    BY <1>1, <2>1, LldpIsTold
<1>5. ASSUME NEW i \in 1 .. Len(cdp) PROVE EdgeOK(b[i])
  <2>1. b[i] = Placed(got, CdpEdge(got, cdp[i]), Len(lldp) + i - 1)
    OBVIOUS
  <2> HIDE DEF b
  <2> QED
    BY <1>1, <2>1, CdpIsTold
<1> HIDE DEF a, b
<1>6. a \in Seq(ToSet(a)) /\ DOMAIN a = 1 .. Len(lldp)
  BY <1>1, <1>3, IsSequence
<1>7. b \in Seq(ToSet(b)) /\ DOMAIN b = 1 .. Len(cdp)
  BY <1>1, <1>3, IsSequence
<1>8. EdgesOK(a)
  BY <1>4, <1>6 DEF EdgesOK
<1>9. EdgesOK(b)
  BY <1>5, <1>7 DEF EdgesOK
<1> QED
  BY <1>2, <1>8, <1>9, EdgesOfBoth

-----------------------------------------------------------------------------
(* What is drawn of it.                                                    *)

NoDuplicates(edges) == \A i, j \in DOMAIN edges : i # j => ~Duplicates(edges[i], edges[j])

\* The first known value is nothing, or that of one of the edges.
LEMMA FirstKnownIs ==
  ASSUME NEW edges, NEW places \in SUBSET Nat, NEW field, NEW nothing
  PROVE  \/ FirstKnown(edges, places, field, nothing) = nothing
         \/ \E i \in places : FirstKnown(edges, places, field, nothing) = edges[i][field]
<1> DEFINE known == {i \in places : edges[i][field] # nothing}
<1>1. CASE known = {}
  BY <1>1 DEF FirstKnown
<1>2. CASE known # {}
  <2>1. known \in SUBSET Nat
    OBVIOUS
  <2>2. Earliest(known) \in known
    <3> HIDE DEF known
    <3>1. \E m \in known : \A q \in known : m <= q
      BY <1>2, <2>1, FirstNumber
    <3> QED
      BY <3>1 DEF Earliest
  <2>3. FirstKnown(edges, places, field, nothing) = edges[Earliest(known)][field]
    BY <1>2, Zenon DEF FirstKnown
  <2> QED
    BY <2>2, <2>3
<1> QED
  BY <1>1, <1>2

\* An edge that others have joined is still of one row, the one its host is from, and at the
\* address of its node.
LEMMA JoinedIs ==
  ASSUME NEW edges, EdgesOK(edges), NEW i \in DOMAIN edges, NEW e, e = Joined(edges, i)
  PROVE  /\ EdgeOK(e)
         /\ e.target = edges[i].target /\ e.port = edges[i].port
<1> DEFINE alike == {i} \cup {j \in DOMAIN edges : j > i /\ Duplicates(edges[i], edges[j])}
<1>1. /\ IsEdge(e) /\ e.target = edges[i].target /\ e.port = edges[i].port
      /\ e.health = edges[i].health
      /\ e.host = FirstKnown(edges, alike, "host", "none")
      /\ e.ip = FirstKnown(edges, alike, "ip", "none")
  BY DEF Joined, IsEdge
<1>2. alike \subseteq DOMAIN edges /\ DOMAIN edges \subseteq Nat
  BY DEF EdgesOK
<1>3. \A j \in alike : edges[j].port = edges[i].port /\ edges[j].target = edges[i].target
  BY DEF Duplicates
<1>4. e.health = "Healthy" /\ \A j \in DOMAIN edges : IsTold(edges[j]) /\ LeadsToAddress(edges[j])
  BY <1>1 DEF EdgesOK, EdgeOK
<1>5. IsTold(e)
  <2> HIDE DEF alike
  <2>1. alike \in SUBSET Nat
    BY <1>2
  <2>2. CASE e.host = "none"
    BY <1>1, <1>4, <2>2, ToldToo
  <2>3. CASE \E j \in alike : e.host = edges[j].host
    <3>1. PICK j \in alike : e.host = edges[j].host
      BY <2>3
    <3>2. IsTold(edges[j]) /\ e.port = edges[j].port /\ e.target = edges[j].target
      BY <1>1, <1>2, <1>3, <1>4
    <3> QED
      BY <3>1, <3>2, ToldToo
  <2>4. e.host = "none" \/ \E j \in alike : e.host = edges[j].host
    BY <1>1, <2>1, FirstKnownIs
  <2> QED
    BY <2>2, <2>3, <2>4
<1>6. LeadsToAddress(e)
  <2> HIDE DEF alike
  <2>1. alike \in SUBSET Nat
    BY <1>2
  <2>2. CASE e.ip = "none"
    BY <2>2 DEF LeadsToAddress
  <2>3. CASE \E j \in alike : e.ip = edges[j].ip
    <3>1. PICK j \in alike : e.ip = edges[j].ip
      BY <2>3
    <3>2. LeadsToAddress(edges[j]) /\ e.target = edges[j].target
      BY <1>1, <1>2, <1>3, <1>4
    <3> QED
      BY <3>1, <3>2 DEF LeadsToAddress
  <2>4. e.ip = "none" \/ \E j \in alike : e.ip = edges[j].ip
    BY <1>1, <2>1, FirstKnownIs
  <2> QED
    BY <2>2, <2>3, <2>4
<1> QED
  BY <1>1, <1>4, <1>5, <1>6 DEF EdgeOK

\* Of edges with the same target and port only the first stays.
LEMMA MergedIs ==
  ASSUME NEW edges, EdgesOK(edges), NEW merged, merged = Merged(edges)
  PROVE  EdgesOK(merged) /\ NoDuplicates(merged)
<1> DEFINE all == [i \in DOMAIN edges |-> Joined(edges, i)]
           places == {i \in DOMAIN edges : \A j \in 1 .. i - 1 : ~Duplicates(edges[j], edges[i])}
           n == Len(edges)
<1>1. n \in Nat /\ DOMAIN edges = 1 .. n
  BY DEF EdgesOK
<1>2. all \in Seq(ToSet(all)) /\ Len(all) = n /\ DOMAIN all = 1 .. n
  <2>1. all = [i \in 1 .. n |-> all[i]]
    BY <1>1
  <2> HIDE DEF all, n
  <2> QED
    BY <1>1, <2>1, IsSequence
<1>3. merged = EntriesAt(all, places)
  BY Zenon DEF Merged
<1>4. places \in SUBSET (1 .. Len(all))
  BY <1>1, <1>2
<1> HIDE DEF all, places, n
<1>5. /\ merged \in Seq(ToSet(all)) /\ Len(merged) = Cardinality(places)
      /\ \A p \in 1 .. Len(merged) : NthPlace(places, p) \in places /\ merged[p] = all[NthPlace(places, p)]
      /\ \A p, q \in 1 .. Len(merged) : p < q => NthPlace(places, p) < NthPlace(places, q)
  BY <1>2, <1>3, <1>4, AtIsOf
<1>6. Len(merged) \in Nat /\ DOMAIN merged = 1 .. Len(merged)
  BY <1>5
<1>7. merged \in Seq(ToSet(merged))
  <2>1. merged = [p \in 1 .. Len(merged) |-> merged[p]]
    BY <1>5
  <2> QED
    BY <1>6, <2>1, IsSequence
<1>8. ASSUME NEW p \in 1 .. Len(merged)
      PROVE  /\ NthPlace(places, p) \in DOMAIN edges
             /\ merged[p] = Joined(edges, NthPlace(places, p))
  BY <1>1, <1>2, <1>4, <1>5 DEF all
<1>9. \A p \in DOMAIN merged :
         /\ EdgeOK(merged[p])
         /\ merged[p].target = edges[NthPlace(places, p)].target
         /\ merged[p].port = edges[NthPlace(places, p)].port
  BY <1>6, <1>8, JoinedIs
<1>10. ASSUME NEW p \in DOMAIN merged, NEW q \in DOMAIN merged, p < q
       PROVE  ~Duplicates(merged[p], merged[q]) /\ ~Duplicates(merged[q], merged[p])
  <2> DEFINE a == NthPlace(places, p)
             b == NthPlace(places, q)
  <2>1. a < b /\ a \in DOMAIN edges /\ b \in places
    BY <1>5, <1>6, <1>8, <1>10
  <2>2. a \in 1 .. b - 1
    BY <1>1, <2>1 DEF places
  <2>3. ~Duplicates(edges[a], edges[b])
    BY <2>1, <2>2 DEF places
  <2>4. /\ merged[p].target = edges[a].target /\ merged[p].port = edges[a].port
        /\ merged[q].target = edges[b].target /\ merged[q].port = edges[b].port
    BY <1>9
  <2> HIDE DEF a, b
  <2> QED
    BY <2>3, <2>4 DEF Duplicates
<1>11. NoDuplicates(merged)
  <2>1. ASSUME NEW p \in DOMAIN merged, NEW q \in DOMAIN merged, p # q
        PROVE  ~Duplicates(merged[p], merged[q])
    <3>1. p < q \/ q < p
      BY <1>6, <2>1
    <3> QED
      BY <1>10, <3>1
  <2> QED
    BY <2>1 DEF NoDuplicates
<1> QED
  BY <1>7, <1>9, <1>11 DEF EdgesOK

\* The nodes: the seed first, then each target once.
NodesOK(nodes, edges) ==
  /\ nodes \in Seq(ToSet(nodes)) /\ Len(nodes) >= 1
  /\ nodes[1].id = <<"ip", Seed>>
  /\ \A i, j \in DOMAIN nodes : i # j => nodes[i].id # nodes[j].id
  /\ \A i \in DOMAIN nodes :
       nodes[i] = [id |-> nodes[i].id, ip |-> nodes[i].ip, host |-> nodes[i].host, kind |-> nodes[i].kind]
  /\ \A i \in DOMAIN edges : \E j \in DOMAIN nodes : nodes[j].id = edges[i].target

\* The nodes of some edges are the seed and each of their targets.
LEMMA NodesAre ==
  ASSUME NEW edges, EdgesOK(edges)
  PROVE  NodesOK(NodesOf(edges), edges)
<1> DEFINE degree(e) == Cardinality({i \in DOMAIN edges : edges[i].target = e.target})
           all == [i \in DOMAIN edges |->
                    [id |-> edges[i].target, ip |-> edges[i].ip, host |-> edges[i].host,
                     kind |-> IF degree(edges[i]) >= 2 THEN "switch" ELSE "endpoint"]]
           new == {i \in DOMAIN edges : /\ edges[i].target # SeedNode.id
                                        /\ \A j \in 1 .. i - 1 : edges[j].target # edges[i].target}
           rest == EntriesAt(all, new)
           nodes == NodesOf(edges)
           n == Len(edges)
<1>1. n \in Nat /\ DOMAIN edges = 1 .. n
  BY DEF EdgesOK
<1>2. all \in Seq(ToSet(all)) /\ Len(all) = n /\ DOMAIN all = 1 .. n
  <2>1. all = [i \in 1 .. n |-> all[i]]
    BY <1>1
  <2> HIDE DEF all, n
  <2> QED
    BY <1>1, <2>1, IsSequence
<1>3. nodes = <<SeedNode>> \o rest
  BY Zenon DEF NodesOf
<1>4. new \in SUBSET (1 .. Len(all)) /\ new \in SUBSET (1 .. n)
  BY <1>1, <1>2
<1>5. \A i \in 1 .. n :
        /\ all[i].id = edges[i].target
        /\ all[i] = [id |-> all[i].id, ip |-> all[i].ip, host |-> all[i].host, kind |-> all[i].kind]
  BY <1>1
<1>6. /\ \A i \in new : edges[i].target # SeedNode.id
      /\ \A i \in new : \A j \in 1 .. i - 1 : edges[j].target # edges[i].target
  OBVIOUS
<1>7. ASSUME NEW i \in 1 .. n, edges[i].target # SeedNode.id
      PROVE  \E j \in new : edges[j].target = edges[i].target
  <2> DEFINE same == {j \in 1 .. n : edges[j].target = edges[i].target}
  <2>1. same \in SUBSET Nat /\ same # {}
    BY <1>1
  <2>2. PICK j \in same : \A k \in same : j <= k
    <3> HIDE DEF same
    <3> QED
      BY <2>1, FirstNumber
  <2>3. j \in 1 .. n /\ edges[j].target = edges[i].target
    BY <2>2
  <2>4. ASSUME NEW k \in 1 .. j - 1 PROVE edges[k].target # edges[j].target
    <3>1. k \in 1 .. n /\ ~(j <= k)
      BY <1>1, <2>3
    <3> QED
      BY <2>2, <2>3, <3>1
  <2>5. j \in new
    BY <1>1, <1>7, <2>3, <2>4
  <2> QED
    BY <2>3, <2>5
<1> HIDE DEF all, new, n
<1>8. /\ rest \in Seq(ToSet(all)) /\ Len(rest) = Cardinality(new)
      /\ \A p \in 1 .. Len(rest) : NthPlace(new, p) \in new /\ rest[p] = all[NthPlace(new, p)]
      /\ \A p, q \in 1 .. Len(rest) : p < q => NthPlace(new, p) < NthPlace(new, q)
      /\ \A i \in new : \E p \in 1 .. Len(rest) : rest[p] = all[i]
  BY <1>2, <1>4, AtIsOf
<1> HIDE DEF rest, nodes
<1>9. PICK m \in Nat : m = Len(rest)
  BY <1>8
<1>10. /\ Len(nodes) = m + 1 /\ DOMAIN nodes = 1 .. m + 1
       /\ nodes[1] = SeedNode /\ \A p \in 1 .. m : nodes[p + 1] = rest[p]
       /\ nodes = [p \in 1 .. m + 1 |-> nodes[p]]
  BY <1>3, <1>8, <1>9
<1>11. nodes \in Seq(ToSet(nodes)) /\ Len(nodes) >= 1
  <2>1. m + 1 \in Nat
    OBVIOUS
  <2>2. nodes \in Seq(ToSet(nodes))
    BY <1>10, <2>1, IsSequence
  <2> QED
    BY <1>10, <2>2
<1>12. nodes[1].id = <<"ip", Seed>>
  BY <1>10 DEF SeedNode
<1>13. \A p \in 1 .. m : /\ NthPlace(new, p) \in new /\ NthPlace(new, p) \in 1 .. n
                         /\ rest[p].id = edges[NthPlace(new, p)].target
  BY <1>4, <1>5, <1>8, <1>9
<1>14. ASSUME NEW p \in 1 .. m, NEW q \in 1 .. m, p < q PROVE rest[p].id # rest[q].id
  <2>1. NthPlace(new, p) \in 1 .. NthPlace(new, q) - 1
    <3>1. NthPlace(new, p) < NthPlace(new, q)
      BY <1>8, <1>9, <1>14
    <3> QED
      BY <1>1, <1>13, <3>1
  <2> QED
    BY <1>6, <1>13, <2>1
<1>15. \A p \in 1 .. m : rest[p].id # SeedNode.id
  BY <1>6, <1>13
<1>16. \A i, j \in DOMAIN nodes : i # j => nodes[i].id # nodes[j].id
  <2>1. ASSUME NEW i \in 1 .. m + 1, NEW j \in 1 .. m + 1, i < j PROVE nodes[i].id # nodes[j].id
    <3>1. PICK q \in 1 .. m : j = q + 1
      <4>1. j - 1 \in 1 .. m /\ j = (j - 1) + 1
        BY <2>1
      <4> QED
        BY <4>1
    <3>2. CASE i = 1
      BY <1>10, <1>15, <3>1, <3>2
    <3>3. CASE i # 1
      <4>1. PICK p \in 1 .. m : i = p + 1
        <5>1. i - 1 \in 1 .. m /\ i = (i - 1) + 1
          BY <2>1, <3>3
        <5> QED
          BY <5>1
      <4>2. p < q
        BY <2>1, <3>1, <4>1
      <4>3. nodes[i].id = rest[p].id /\ nodes[j].id = rest[q].id
        BY <1>10, <3>1, <4>1
      <4> QED
        BY <1>14, <4>2, <4>3
    <3> QED
      BY <3>2, <3>3
  <2>2. \A i, j \in 1 .. m + 1 : i # j => i < j \/ j < i
    OBVIOUS
  <2> QED
    BY <1>10, <2>1, <2>2
<1>17. ASSUME NEW i \in DOMAIN nodes
       PROVE  nodes[i] = [id |-> nodes[i].id, ip |-> nodes[i].ip, host |-> nodes[i].host, kind |-> nodes[i].kind]
  <2>1. CASE i = 1
    BY <1>10, <2>1 DEF SeedNode
  <2>2. CASE i # 1
    <3>1. PICK p \in 1 .. m : i = p + 1
      <4>1. i - 1 \in 1 .. m /\ i = (i - 1) + 1
        BY <1>10, <2>2
      <4> QED
        BY <4>1
    <3>2. nodes[i] = all[NthPlace(new, p)]
      BY <1>8, <1>9, <1>10, <3>1
    <3> QED
      BY <1>5, <1>13, <3>2
  <2> QED
    BY <2>1, <2>2
<1>18. ASSUME NEW i \in DOMAIN edges PROVE \E j \in DOMAIN nodes : nodes[j].id = edges[i].target
  <2>1. CASE edges[i].target = SeedNode.id
    <3>1. 1 \in DOMAIN nodes /\ nodes[1].id = edges[i].target
      BY <1>10, <2>1
    <3> QED
      BY <3>1
  <2>2. CASE edges[i].target # SeedNode.id
    <3>1. PICK j \in new : edges[j].target = edges[i].target
      BY <1>1, <1>7, <2>2
    <3>2. PICK p \in 1 .. m : rest[p] = all[j]
      BY <1>8, <1>9, <3>1
    <3>3. p + 1 \in DOMAIN nodes /\ nodes[p + 1] = all[j]
      <4>1. p + 1 \in 1 .. m + 1
        OBVIOUS
      <4>2. nodes[p + 1] = rest[p]
        BY <1>10
      <4> QED
        BY <1>10, <3>2, <4>1, <4>2
    <3>4. j \in 1 .. n /\ all[j].id = edges[j].target
      BY <1>4, <1>5, <3>1
    <3> QED
      BY <3>1, <3>3, <3>4
  <2> QED
    BY <2>1, <2>2
<1> QED
  BY <1>11, <1>12, <1>16, <1>17, <1>18 DEF NodesOK, nodes

\* What enrichment leaves alone.
LEMMA EnrichedIs ==
  ASSUME NEW node, node = [id |-> node.id, ip |-> node.ip, host |-> node.host, kind |-> node.kind], NEW db
  PROVE  Enriched(node, db).id = node.id
<1> DEFINE known == {d \in db : d.ip = node.ip}
           d == CHOOSE d \in known : TRUE
           host == Or(node.host, Text(d.name))
           kind == IF d.type \in {"switch", "router", "firewall"} THEN "switch" ELSE node.kind
<1>1. CASE known = {}
  BY <1>1 DEF Enriched
<1>2. CASE known # {}
  <2>1. Enriched(node, db) = [node EXCEPT !.host = host, !.kind = kind]
    BY <1>2 DEF Enriched
  <2> HIDE DEF host, kind
  <2> QED
    BY <2>1
<1> QED
  BY <1>1, <1>2

\* An edge takes the health of the port it is at, and nothing else of it.
LEMMA AnnotatedIs ==
  ASSUME NEW edge, IsEdge(edge), edge.health = "Healthy", NEW db, NEW e, e = Annotated(edge, db)
  PROVE  /\ e.target = edge.target /\ e.port = edge.port /\ e.host = edge.host /\ e.ip = edge.ip
         /\ e.index = edge.index
         /\ e.health # "Healthy" =>
              \E d \in db : d.ip = Seed /\ \E p \in d.ports : p.index = e.index /\ PortHealth(p) = e.health
<1> DEFINE ports == {p \in UNION {d.ports : d \in {d \in db : d.ip = Seed}} : p.index = edge.index}
           port == CHOOSE p \in ports : TRUE
           health == PortHealth(port)
<1>1. CASE edge.index = NoIndex \/ ports = {}
  <2>1. e = edge
    BY <1>1, Zenon DEF Annotated
  <2> QED
    BY <2>1
<1>2. CASE ~(edge.index = NoIndex \/ ports = {})
  <2>1. e = [edge EXCEPT !.health = health]
    BY <1>2, Zenon DEF Annotated
  <2>2. port \in ports
    BY <1>2
  <2>3. PICK d \in db : d.ip = Seed /\ port \in d.ports
    BY <2>2
  <2>4. port.index = edge.index
    BY <2>2
  <2> HIDE DEF health, ports, port
  <2>5. e = [protocol |-> edge.protocol, index |-> edge.index, ip |-> edge.ip, host |-> edge.host,
             port |-> edge.port, target |-> edge.target, health |-> health, label |-> edge.label]
    BY <2>1 DEF IsEdge
  <2>6. /\ e.target = edge.target /\ e.port = edge.port /\ e.host = edge.host /\ e.index = edge.index
        /\ e.ip = edge.ip /\ e.health = health
    BY <2>5
  <2>7. PortHealth(port) = e.health
    BY <2>6 DEF health
  <2> QED
    BY <2>3, <2>4, <2>6, <2>7
<1> QED
  BY <1>1, <1>2

\* The nodes and edges of a report, before and after the limit.
DrawnOK(r) ==
  /\ r.nodes[1].id = <<"ip", Seed>>
  /\ \A e \in ToSet(r.edges) : \E n \in ToSet(r.nodes) : n.id = e.target
  /\ \A i, j \in DOMAIN r.nodes : r.nodes[i].id = r.nodes[j].id => i = j
  /\ NoDuplicates(r.edges)
  /\ Len(r.nodes) + r.hidden = r.total

\* A report is drawn of its nodes and edges, and of all edges if none is hidden.
LEMMA LimitedIs ==
  ASSUME NEW nodes, nodes \in Seq(ToSet(nodes)), Len(nodes) >= 1, nodes[1].id = <<"ip", Seed>>,
         \A i, j \in DOMAIN nodes : nodes[i].id = nodes[j].id => i = j,
         NEW edges, edges \in Seq(ToSet(edges)), NoDuplicates(edges),
         \A i \in DOMAIN edges : \E j \in DOMAIN nodes : nodes[j].id = edges[i].target,
         NEW limit \in Nat, NEW r, r = Limited(nodes, edges, limit)
  PROVE  /\ DrawnOK(r) /\ ToSet(r.edges) \subseteq ToSet(edges)
         /\ r.hidden = 0 => r.edges = edges
<1> DEFINE n == Len(nodes)
           m == Len(edges)
<1>1. n \in Nat /\ m \in Nat /\ DOMAIN nodes = 1 .. n /\ DOMAIN edges = 1 .. m /\ n >= 1
  OBVIOUS
<1>2. CASE limit = 0 \/ n <= limit
  <2>1. r = [nodes |-> nodes, edges |-> edges, total |-> n, hidden |-> 0]
    BY <1>2, Zenon DEF Limited
  <2>2. \A e \in ToSet(edges) : \E x \in ToSet(nodes) : x.id = e.target
    <3>1. ASSUME NEW e \in ToSet(edges) PROVE \E x \in ToSet(nodes) : x.id = e.target
      <4>1. PICK i \in DOMAIN edges : e = edges[i]
        BY DEF ToSet
      <4>2. PICK j \in DOMAIN nodes : nodes[j].id = edges[i].target
        OBVIOUS
      <4>3. nodes[j] \in ToSet(nodes)
        BY DEF ToSet
      <4> QED
        BY <4>1, <4>2, <4>3
    <3> QED
      BY <3>1
  <2>3. r.nodes = nodes /\ r.edges = edges /\ r.total = n /\ r.hidden = 0
    BY <2>1
  <2>4. n + 0 = n
    BY <1>1
  <2> HIDE DEF m
  <2> QED
    BY <2>2, <2>3, <2>4 DEF DrawnOK
<1>3. CASE ~(limit = 0 \/ n <= limit)
  <2> DEFINE visible == SubSeq(nodes, 1, limit)
             ends(e) == {<<"ip", Seed>>, e.target} \subseteq {x.id : x \in ToSet(visible)}
             places == {i \in DOMAIN edges : ends(edges[i])}
             shown == EntriesAt(edges, places)
  <2>1. r = [nodes |-> visible, edges |-> shown, total |-> n, hidden |-> n - limit]
    BY <1>3, Zenon DEF Limited
  <2>2. limit \in 1 .. n
    BY <1>1, <1>3
  <2>3. /\ Len(visible) = limit /\ DOMAIN visible = 1 .. limit
        /\ \A i \in 1 .. limit : visible[i] = nodes[i]
    BY <1>1, <2>2
  <2>4. visible[1].id = <<"ip", Seed>>
    <3> HIDE DEF visible
    <3> QED
      BY <2>2, <2>3
  <2>5. \A i, j \in DOMAIN visible : visible[i].id = visible[j].id => i = j
    <3> HIDE DEF visible
    <3>1. 1 .. limit \subseteq DOMAIN nodes
      BY <1>1, <2>2
    <3> QED
      BY <2>3, <3>1
  <2>6. places \in SUBSET (1 .. m)
    BY <1>1
  <2>7. \A i \in places : \E x \in ToSet(visible) : x.id = edges[i].target
    <3> HIDE DEF visible
    <3> QED
      OBVIOUS
  <2> HIDE DEF visible, places, n, m
  <2>8. /\ shown \in Seq(ToSet(edges)) /\ Len(shown) \in Nat
        /\ \A p \in 1 .. Len(shown) : NthPlace(places, p) \in places /\ shown[p] = edges[NthPlace(places, p)]
        /\ \A p, q \in 1 .. Len(shown) : p < q => NthPlace(places, p) < NthPlace(places, q)
    <3>1. places \in SUBSET (1 .. Len(edges))
      BY <2>6 DEF m
    <3>2. /\ shown \in Seq(ToSet(edges))
          /\ \A p \in 1 .. Len(shown) : NthPlace(places, p) \in places /\ shown[p] = edges[NthPlace(places, p)]
          /\ \A p, q \in 1 .. Len(shown) : p < q => NthPlace(places, p) < NthPlace(places, q)
      BY <3>1, AtIsOf
    <3> HIDE DEF shown
    <3> QED
      BY <3>2
  <2> HIDE DEF shown
  <2>9. DOMAIN shown = 1 .. Len(shown)
    BY <2>8
  <2>10. \A e \in ToSet(shown) : \E x \in ToSet(visible) : x.id = e.target
    <3>1. ASSUME NEW p \in 1 .. Len(shown) PROVE \E x \in ToSet(visible) : x.id = shown[p].target
      BY <2>7, <2>8
    <3>2. ASSUME NEW e \in ToSet(shown) PROVE \E x \in ToSet(visible) : x.id = e.target
      <4>1. PICK p \in 1 .. Len(shown) : e = shown[p]
        BY <2>9 DEF ToSet
      <4> QED
        BY <3>1, <4>1
    <3> QED
      BY <3>2
  <2>11. NoDuplicates(shown)
    <3>1. ASSUME NEW p \in 1 .. Len(shown), NEW q \in 1 .. Len(shown), p # q
          PROVE  ~Duplicates(shown[p], shown[q])
      <4>1. NthPlace(places, p) \in 1 .. m /\ NthPlace(places, q) \in 1 .. m
        BY <2>6, <2>8
      <4>2. p < q \/ q < p
        BY <2>8, <3>1
      <4>3. NthPlace(places, p) # NthPlace(places, q)
        BY <1>1, <2>8, <4>1, <4>2
      <4> QED
        BY <1>1, <2>8, <4>1, <4>3 DEF NoDuplicates
    <3> QED
      BY <2>9, <3>1 DEF NoDuplicates
  <2>12. r.nodes = visible /\ r.edges = shown /\ r.total = n /\ r.hidden = n - limit
    BY <2>1
  <2>13. Len(visible) + (n - limit) = n
    BY <1>1, <2>2, <2>3
  <2>14. ToSet(shown) \subseteq ToSet(edges)
    BY <2>8, IsOfSeq
  <2>15. r.hidden # 0
    BY <1>1, <1>3, <2>2, <2>12
  <2> QED
    BY <2>4, <2>5, <2>10, <2>11, <2>12, <2>13, <2>14, <2>15 DEF DrawnOK
<1> QED
  BY <1>2, <1>3

-----------------------------------------------------------------------------
(* What was collected whole is drawn whole.                                *)

\* Products and remainders of a place in a table.
LEMMA PlaceInTable ==
  ASSUME NEW n \in Nat \ {0}, NEW a \in Nat, NEW b \in 0 .. n - 1
  PROVE  (n * a + b) \div n = a /\ (n * a + b) % n = b
<1> DEFINE x == n * a + b
           q == x \div n
           r == x % n
<1>1. n * a \in Nat /\ x \in Nat
  OBVIOUS
<1>2. q \in Nat /\ r \in 0 .. n - 1 /\ x = n * q + r
  <2> HIDE DEF x
  <2> QED
    BY <1>1
<1>3. n * q - n * a = b - r
  <2> HIDE DEF q, r
  <2> QED
    BY <1>1, <1>2
<1>4. n * q - n * a > - n /\ n * q - n * a < n
  <2> HIDE DEF q, r
  <2> QED
    BY <1>2, <1>3
<1>5. q = a
  <2> HIDE DEF q, r, x
  <2>1. \/ n * q = n * a \/ n * q = n * a + n
        \/ n * q >= n * a + 2 * n \/ n * q <= n * a - n
    BY <1>2, Multiples
  <2>2. n * q \in Int /\ n * a \in Int
    BY <1>2
  <2>3. n * q = n * a
    BY <1>4, <2>1, <2>2
  <2>4. CASE q < a
    <3>1. PICK e \in Nat : a = q + 1 + e
      <4>1. a - q - 1 \in Nat /\ a = q + 1 + (a - q - 1)
        BY <1>2, <2>4
      <4> QED
        BY <4>1
    <3>2. n * a = n * q + n + n * e /\ n * e \in Nat
      BY <1>2, <3>1
    <3> QED
      BY <2>2, <2>3, <3>2
  <2>5. CASE a < q
    <3>1. PICK e \in Nat : q = a + 1 + e
      <4>1. q - a - 1 \in Nat /\ q = a + 1 + (q - a - 1)
        BY <1>2, <2>5
      <4> QED
        BY <4>1
    <3>2. n * q = n * a + n + n * e /\ n * e \in Nat
      BY <3>1
    <3> QED
      BY <2>2, <2>3, <3>2
  <2> QED
    BY <1>2, <2>4, <2>5
<1>6. r = b
  <2> HIDE DEF q, r, x
  <2> QED
    BY <1>1, <1>2, <1>3, <1>5
<1> QED
  BY <1>5, <1>6

\* What the columns of a table hold: the cells that are not missing.
CellsThere(lines, columns) == {x \in CellsOf(ToSet(lines), columns) : x.value # "none"}

\* The cells of a list at some of its places are the members there.
LEMMA MembersAt ==
  ASSUME NEW S, NEW s \in Seq(S), NEW places \in SUBSET (1 .. Len(s))
  PROVE  ToSet(EntriesAt(s, places)) = {s[i] : i \in places}
<1> DEFINE e == EntriesAt(s, places)
<1>1. /\ e \in Seq(S)
      /\ \A n \in 1 .. Len(e) : NthPlace(places, n) \in places /\ e[n] = s[NthPlace(places, n)]
      /\ \A i \in places : \E n \in 1 .. Len(e) : e[n] = s[i]
  BY AtIsOf
<1> HIDE DEF e
<1>2. DOMAIN e = 1 .. Len(e)
  BY <1>1
<1>3. ToSet(e) = {s[i] : i \in places}
  BY <1>1, <1>2 DEF ToSet
<1> QED
  BY <1>3 DEF e

\* A walk that ends with the table has all that is in its columns.
LEMMA VarbindsAreThere ==
  ASSUME NEW rows, NEW lines \in Seq(rows), NEW names, NEW columns \in Seq(names)
  PROVE  ToSet(Varbinds(lines, columns)) = CellsThere(lines, ToSet(columns))
<1> DEFINE n == Len(lines)
           m == Len(columns)
           cells == [i \in 1 .. n * m |->
                      LET c == columns[((i - 1) \div n) + 1]
                          r == lines[((i - 1) % n) + 1]
                      IN  [col |-> c, key |-> r.key, value |-> r[c]]]
           places == {i \in DOMAIN cells : cells[i].value # "none"}
<1>1. n \in Nat /\ m \in Nat /\ n * m \in Nat /\ DOMAIN lines = 1 .. n /\ DOMAIN columns = 1 .. m
  OBVIOUS
<1>2. ASSUME NEW i \in 1 .. n * m PROVE cells[i] \in CellsOf(ToSet(lines), ToSet(columns))
  <2> DEFINE a == (i - 1) \div n
             b == (i - 1) % n
  <2>1. n # 0 /\ i - 1 \in 0 .. n * m - 1
    BY <1>1
  <2>2. a \in 0 .. m - 1 /\ b \in 0 .. n - 1
    <3> HIDE DEF n, m
    <3> QED
      BY <1>1, <2>1, Quotient
  <2>3. cells[i] = [col |-> columns[a + 1], key |-> lines[b + 1].key, value |-> lines[b + 1][columns[a + 1]]]
    BY Zenon
  <2> HIDE DEF a, b, n, m, cells
  <2>4. a + 1 \in DOMAIN columns /\ b + 1 \in DOMAIN lines
    BY <1>1, <2>2
  <2>5. columns[a + 1] \in ToSet(columns) /\ lines[b + 1] \in ToSet(lines)
    BY <2>4 DEF ToSet
  <2> QED
    BY <2>3, <2>5, CellIs
<1>3. ASSUME NEW p \in 1 .. n, NEW q \in 1 .. m
      PROVE  \E i \in 1 .. n * m : cells[i] = [col |-> columns[q], key |-> lines[p].key, value |-> lines[p][columns[q]]]
  <2> DEFINE i == n * (q - 1) + (p - 1) + 1
  <2>1. n \in Nat \ {0} /\ q - 1 \in Nat /\ p - 1 \in 0 .. n - 1
    BY <1>1
  <2>2. n * (q - 1) \in Nat /\ n * (q - 1) + n <= n * m
    <3>1. PICK e \in Nat : m = q + e
      <4>1. m - q \in Nat /\ m = q + (m - q)
        BY <1>1
      <4> QED
        BY <4>1
    <3> HIDE DEF n, m
    <3>2. n * m = n * (q - 1) + n + n * e /\ n * e \in Nat
      BY <2>1, <3>1
    <3>3. n * (q - 1) \in Nat
      BY <2>1
    <3> QED
      BY <2>1, <3>2, <3>3
  <2>3. i - 1 = n * (q - 1) + (p - 1) /\ i \in 1 .. n * m
    <3> HIDE DEF n, m
    <3> QED
      BY <1>1, <2>1, <2>2
  <2>4. (i - 1) \div n = q - 1 /\ (i - 1) % n = p - 1
    <3> HIDE DEF n, m, i
    <3>1. (n * (q - 1) + (p - 1)) \div n = q - 1 /\ (n * (q - 1) + (p - 1)) % n = p - 1
      BY <2>1, PlaceInTable
    <3> QED
      BY <2>3, <3>1, Zenon
  <2>5. ((i - 1) \div n) + 1 = q /\ ((i - 1) % n) + 1 = p
    <3> HIDE DEF n, m, i
    <3>1. (q - 1) + 1 = q /\ (p - 1) + 1 = p
      BY <1>1
    <3> QED
      BY <2>4, <3>1
  <2>6. cells[i] = [col |-> columns[((i - 1) \div n) + 1], key |-> lines[((i - 1) % n) + 1].key,
                    value |-> lines[((i - 1) % n) + 1][columns[((i - 1) \div n) + 1]]]
    <3> HIDE DEF i, n, m
    <3> QED
      BY <2>3, Zenon
  <2> HIDE DEF cells, i, n, m
  <2> QED
    BY <2>3, <2>5, <2>6
<1>4. cells \in Seq(CellsOf(ToSet(lines), ToSet(columns))) /\ Len(cells) = n * m /\ DOMAIN cells = 1 .. n * m
  <2>1. DOMAIN cells = 1 .. n * m /\ cells = [i \in 1 .. n * m |-> cells[i]]
    OBVIOUS
  <2> HIDE DEF cells, n, m
  <2> QED
    BY <1>1, <1>2, <2>1
<1>5. places \in SUBSET (1 .. Len(cells))
  <2> HIDE DEF cells, n, m
  <2> QED
    BY <1>4
<1>6. Varbinds(lines, columns) = EntriesAt(cells, places)
  BY Zenon DEF Varbinds
<1>7. ToSet(EntriesAt(cells, places)) = {cells[i] : i \in places}
  <2> HIDE DEF cells, places, n, m
  <2> QED
    BY <1>4, <1>5, MembersAt
<1>8. ASSUME NEW x \in CellsThere(lines, ToSet(columns)) PROVE x \in {cells[i] : i \in places}
  <2>1. PICK c \in ToSet(columns), r \in ToSet(lines) : x = [col |-> c, key |-> r.key, value |-> r[c]]
    BY DEF CellsThere, CellsOf
  <2>2. PICK q \in 1 .. m : c = columns[q]
    BY <1>1 DEF ToSet
  <2>3. PICK p \in 1 .. n : r = lines[p]
    BY <1>1 DEF ToSet
  <2>4. PICK i \in 1 .. n * m : cells[i] = x
    <3> HIDE DEF cells, n, m
    <3> QED
      BY <1>3, <2>1, <2>2, <2>3
  <2>5. x.value # "none"
    BY DEF CellsThere
  <2> HIDE DEF cells, n, m
  <2> QED
    BY <1>4, <2>4, <2>5
<1>9. ASSUME NEW i \in places PROVE cells[i] \in CellsThere(lines, ToSet(columns))
  <2> HIDE DEF cells, n, m
  <2> QED
    BY <1>2, <1>4 DEF CellsThere
<1> HIDE DEF cells, places, n, m
<1> QED
  BY <1>6, <1>7, <1>8, <1>9

\* A list that has all that is in some columns of a table has each cell of them,
LEMMA WholeCell ==
  ASSUME NEW lines, NEW columns, NEW v, ToSet(v) = CellsThere(lines, columns),
         NEW r \in ToSet(lines), \A s \in ToSet(lines) : s.key = r.key => s = r, NEW c \in columns
  PROVE  Cell(v, r.key, c) = r[c]
<1> DEFINE hits == {x \in ToSet(v) : x.key = r.key /\ x.col = c}
<1>1. \A x \in hits : x.value = r[c] /\ r[c] # "none"
  <2>1. ASSUME NEW x \in hits PROVE x.value = r[c] /\ r[c] # "none"
    <3>1. x \in CellsOf(ToSet(lines), columns) /\ x.key = r.key /\ x.col = c /\ x.value # "none"
      BY DEF CellsThere
    <3>2. PICK d \in columns, s \in ToSet(lines) : x = [col |-> d, key |-> s.key, value |-> s[d]]
      BY <3>1 DEF CellsOf
    <3>3. s = r /\ d = c /\ x.value = s[d]
      BY <3>1, <3>2
    <3> QED
      BY <3>1, <3>3
  <2> QED
    BY <2>1
<1>2. r[c] # "none" => hits # {}
  <2> DEFINE x == [col |-> c, key |-> r.key, value |-> r[c]]
  <2>1. x \in CellsOf(ToSet(lines), columns)
    BY CellIs
  <2>2. x.key = r.key /\ x.col = c /\ x.value = r[c]
    OBVIOUS
  <2> HIDE DEF x
  <2> QED
    BY <2>1, <2>2 DEF CellsThere
<1>3. Cell(v, r.key, c) = IF hits = {} THEN "none" ELSE (CHOOSE x \in hits : TRUE).value
  BY Zenon DEF Cell
<1>4. hits # {} => (CHOOSE x \in hits : TRUE) \in hits
  OBVIOUS
<1> HIDE DEF hits
<1> QED
  BY <1>1, <1>2, <1>3, <1>4

\* and the key of each row that they say something of, and no other.
LEMMA WholeKeys ==
  ASSUME NEW lines, NEW columns, NEW v, ToSet(v) = CellsThere(lines, columns)
  PROVE  /\ \A k \in Keys(v) : \E r \in ToSet(lines) : k = r.key
         /\ \A r \in ToSet(lines) : \A c \in columns : r[c] # "none" => r.key \in Keys(v)
<1>1. ASSUME NEW k \in Keys(v) PROVE \E r \in ToSet(lines) : k = r.key
  <2>1. PICK x \in CellsThere(lines, columns) : k = x.key
    BY <1>1 DEF Keys
  <2>2. PICK c \in columns, r \in ToSet(lines) : x = [col |-> c, key |-> r.key, value |-> r[c]]
    BY DEF CellsThere, CellsOf
  <2> QED
    BY <2>1, <2>2
<1>2. ASSUME NEW r \in ToSet(lines), NEW c \in columns, r[c] # "none" PROVE r.key \in Keys(v)
  <2> DEFINE x == [col |-> c, key |-> r.key, value |-> r[c]]
  <2>1. x \in CellsOf(ToSet(lines), columns)
    BY CellIs
  <2>2. x.key = r.key /\ x.value = r[c]
    OBVIOUS
  <2> HIDE DEF x
  <2>3. x \in ToSet(v)
    BY <1>2, <2>1, <2>2 DEF CellsThere
  <2> QED
    BY <2>2, <2>3 DEF Keys
<1> QED
  BY <1>1, <1>2

\* A cell that says something is of a row.
LEMMA CellHasRow ==
  ASSUME NEW lines, NEW columns, NEW v, ToSet(v) = CellsThere(lines, columns),
         NEW k, NEW c, Cell(v, k, c) # "none"
  PROVE  \E r \in ToSet(lines) : r.key = k
<1> DEFINE hits == {x \in ToSet(v) : x.key = k /\ x.col = c}
<1>1. Cell(v, k, c) = IF hits = {} THEN "none" ELSE (CHOOSE x \in hits : TRUE).value
  BY Zenon DEF Cell
<1>2. PICK x \in hits : TRUE
  <2> HIDE DEF hits
  <2> QED
    BY <1>1
<1>3. k \in Keys(v)
  BY <1>2 DEF Keys
<1> QED
  BY <1>3, WholeKeys

\* What was collected is all that the walks visit.
GotWhole ==
  /\ ToSet(got.ifs) = CellsThere(world.ifs, {"name", "descr", "alias", "phys"})
  /\ ToSet(got.ports) = CellsThere(world.ports, {"subtype", "id", "desc"})
  /\ ToSet(got.lldp) = CellsThere(world.lldp, {"chassisSubtype", "chassis", "portSubtype", "port", "host"})
  /\ ToSet(got.addresses) = CellsThere(world.addresses, {"addr"})
  /\ ToSet(got.cdp) = CellsThere(world.cdp, {"addr", "host", "port"})

\* Of what is given, something is taken, unless nothing of it is of use.
IsOneOf(value, given, useless) ==
  IF given \ useless = {} THEN value \in useless ELSE value \in given \ useless

\* The address of a neighbour is one of those that are given, if one can be read.
LEMMA WholeAddress ==
  ASSUME CollectedOK, GotWhole, NEW key
  PROVE  LET given == {a.addr : a \in {a \in ToSet(world.addresses) : a.key = key}}
         IN  /\ given \ {"none", "bad"} = {} => AddressOf(got, key) = "none"
             /\ given \ {"none", "bad"} # {} => AddressOf(got, key) \in given \ {"none", "bad"}
<1> DEFINE v == got.addresses
           lines == ToSet(world.addresses)
           given == {a.addr : a \in {a \in lines : a.key = key}}
           readable == {i \in DOMAIN v : v[i].key = key /\ v[i].value # "bad"}
<1>1. v \in Seq(CellsOf(lines, {"addr"}))
  BY DEF CollectedOK
<1>2. AddressOf(got, key) = IF readable = {} THEN "none" ELSE v[Earliest(readable)].value
  BY Zenon DEF AddressOf
<1>3. readable \in SUBSET Nat
  BY <1>1
<1>4. ToSet(v) = {x \in CellsOf(lines, {"addr"}) : x.value # "none"}
  BY DEF GotWhole, CellsThere
<1>5. ASSUME NEW i \in readable PROVE v[i].value \in given \ {"none", "bad"}
  <2>1. v[i] \in ToSet(v) /\ v[i].key = key /\ v[i].value # "bad"
    BY DEF ToSet
  <2> HIDE DEF readable, v, lines
  <2>2. v[i] \in CellsOf(lines, {"addr"}) /\ v[i].value # "none"
    BY <1>4, <2>1
  <2>3. PICK a \in lines : v[i] = [col |-> "addr", key |-> a.key, value |-> a["addr"]]
    BY <2>2 DEF CellsOf
  <2>4. a.key = key /\ v[i].value = a.addr
    BY <2>1, <2>3
  <2> QED
    BY <2>1, <2>2, <2>4
<1>6. ASSUME NEW x \in given \ {"none", "bad"} PROVE readable # {}
  <2>1. PICK a \in lines : a.key = key /\ x = a.addr
    OBVIOUS
  <2> DEFINE cell == [col |-> "addr", key |-> a.key, value |-> a["addr"]]
  <2>2. cell \in CellsOf(lines, {"addr"})
    BY CellIs
  <2>3. cell.key = key /\ cell.value = x /\ x # "none" /\ x # "bad"
    BY <2>1
  <2> HIDE DEF cell, readable, v, lines
  <2>4. cell \in ToSet(v)
    BY <1>4, <2>2, <2>3
  <2>5. PICK i \in DOMAIN v : v[i] = cell
    BY <2>4 DEF ToSet
  <2> QED
    BY <2>3, <2>5 DEF readable
<1>7. readable # {} => Earliest(readable) \in readable
  <2> HIDE DEF readable, v
  <2>1. readable # {} => \E i \in readable : \A j \in readable : i <= j
    BY <1>3, FirstNumber
  <2> QED
    BY <2>1 DEF Earliest
<1> HIDE DEF readable, v, given
<1>8. given \ {"none", "bad"} = {} => AddressOf(got, key) = "none"
  BY <1>2, <1>5, <1>7
<1>9. given \ {"none", "bad"} # {} => AddressOf(got, key) \in given \ {"none", "bad"}
  BY <1>2, <1>5, <1>6, <1>7
<1> QED
  BY <1>8, <1>9 DEF given

\* The first of a pair.
LEMMA PairHas == \A t, a, b : t = <<a, b>> => t[1] = a
  OBVIOUS

\* An edge whose port, address and name are given leads to where they say.
LEMMA PlacedLeads ==
  ASSUME NEW g, NEW edge, NEW position, NEW e, e = Placed(g, edge, position),
         NEW row, NEW names, NEW addresses, edge.port = row.port,
         addresses \ {"none", "bad"} = {} => edge.ip = "none",
         addresses \ {"none", "bad"} # {} => edge.ip \in addresses \ {"none", "bad"},
         IsOneOf(edge.host, names, {"none", ""})
  PROVE  Leads(e, row, names, addresses)
<1> DEFINE useful == addresses \ {"none", "bad"}
           said == names \ {"none", ""}
           nodes == {<<"ip", a>> : a \in useful}
           named == {<<"name", n>> : n \in said}
<1>1. e.target = TargetOf(edge, position) /\ e.port = row.port
  BY DEF Placed
<1>2. /\ useful = {} => edge.ip = "none"
      /\ useful # {} => edge.ip \in useful /\ edge.ip # "none"
      /\ said = {} => edge.host \in {"none", ""}
      /\ said # {} => edge.host \in said /\ edge.host \notin {"none", ""}
  BY DEF IsOneOf
<1>3. (nodes = {} <=> useful = {}) /\ (named = {} <=> said = {})
  OBVIOUS
<1> HIDE DEF useful, said
<1>4. CASE useful # {}
  <2>1. e.target = <<"ip", edge.ip>>
    BY <1>1, <1>2, <1>4 DEF TargetOf
  <2> QED
    BY <1>1, <1>2, <1>3, <1>4, <2>1 DEF Leads, useful, said
<1>5. CASE useful = {} /\ said # {}
  <2>1. e.target = <<"name", edge.host>>
    BY <1>1, <1>2, <1>5 DEF TargetOf
  <2> QED
    BY <1>1, <1>2, <1>3, <1>5, <2>1 DEF Leads, useful, said
<1>6. CASE useful = {} /\ said = {}
  <2>1. e.target = <<"unknown", ToString(position)>>
    BY <1>1, <1>2, <1>6 DEF TargetOf
  <2>2. e.target[1] = "unknown"
    BY <2>1, PairHas
  <2> QED
    BY <1>1, <1>3, <1>6, <2>2 DEF Leads, useful, said
<1> QED
  BY <1>4, <1>5, <1>6

\* Or takes the second of two texts when the first is missing.
LEMMA NameOf ==
  ASSUME NEW a, NEW b
  PROVE  IsOneOf(Or(Text(a), b), {Text(a), b}, {"none", ""})
<1>1. Text(a) # ""
  BY DEF Text
<1>2. CASE Text(a) = "none"
  <2>1. Or(Text(a), b) = b
    BY <1>2 DEF Or
  <2>2. CASE b \in {"none", ""}
    BY <1>2, <2>1, <2>2 DEF IsOneOf
  <2>3. CASE b \notin {"none", ""}
    BY <1>2, <2>1, <2>3 DEF IsOneOf
  <2> QED
    BY <2>2, <2>3
<1>3. CASE Text(a) # "none"
  <2>1. Or(Text(a), b) = Text(a)
    BY <1>3 DEF Or
  <2> QED
    BY <1>1, <1>3, <2>1 DEF IsOneOf
<1> QED
  BY <1>2, <1>3

\* An edge that leads to a neighbour is told of it.
LEMMA LeadsIsTold ==
  ASSUME NEW e, NEW row, NEW names, NEW addresses, Leads(e, row, names, addresses), NEW all,
         names \subseteq all, e.host \in all
  PROVE  Told(e, row, all, addresses)
<1> DEFINE nodes == {<<"ip", a>> : a \in addresses \ {"none", "bad"}}
           named == {<<"name", n>> : n \in names \ {"none", ""}}
<1>1. /\ e.port = row.port
      /\ nodes # {} => e.target \in nodes
      /\ nodes = {} /\ named # {} => e.target \in named
      /\ nodes \cup named = {} => e.target[1] = "unknown"
  BY Zenon DEF Leads
<1>2. nodes \subseteq {<<"ip", a>> : a \in addresses} /\ named \subseteq {<<"name", n>> : n \in all}
  OBVIOUS
<1> HIDE DEF nodes, named
<1> QED
  BY <1>1, <1>2 DEF Told

\* An edge of an LLDP row that was collected whole leads to the neighbour of the row.
LEMMA WholeLldp ==
  ASSUME WorldAssumption, CollectedOK, GotWhole, NEW r \in ToSet(world.lldp), NEW position,
         NEW e, e = Placed(got, LldpEdge(got, r.key), position)
  PROVE  /\ ToldByLldp(e, r) /\ LldpLeads(e, r)
         /\ e.index = LocalIndex(Candidates(got, r.key[2]))
<1> DEFINE key == r.key
           edge == LldpEdge(got, key)
           names == {Text(r.host), r.chassis}
           given == {a.addr : a \in {a \in ToSet(world.addresses) : a.key = key}}
<1>1. \A s \in ToSet(world.lldp) : s.key = r.key => s = r
  BY RowsAreOne DEF CollectedOK, WorldAssumption
<1>2. \A c \in {"chassisSubtype", "chassis", "portSubtype", "port", "host"} : Cell(got.lldp, key, c) = r[c]
  BY <1>1, WholeCell DEF GotWhole
<1>3. Cell(got.lldp, key, "port") = r.port /\ Cell(got.lldp, key, "host") = r.host /\ Cell(got.lldp, key, "chassis") = r.chassis
  BY <1>2
<1>4. /\ edge.port = r.port /\ edge.ip = AddressOf(got, key) /\ edge.host = Or(Text(r.host), r.chassis)
      /\ edge.index = LocalIndex(Candidates(got, key[2]))
  BY <1>3 DEF LldpEdge
<1>5. /\ given \ {"none", "bad"} = {} => edge.ip = "none"
      /\ given \ {"none", "bad"} # {} => edge.ip \in given \ {"none", "bad"}
  BY <1>4, WholeAddress, Zenon
<1>6. IsOneOf(edge.host, names, {"none", ""})
  <2>1. IsOneOf(Or(Text(r.host), r.chassis), names, {"none", ""})
    BY NameOf, Zenon
  <2> HIDE DEF edge, names
  <2> QED
    BY <1>4, <2>1
<1>7. e = Placed(got, edge, position)
  OBVIOUS
<1>8. Leads(e, r, names, given)
  <2> HIDE DEF given, names, edge
  <2> QED
    BY <1>4, <1>5, <1>6, <1>7, PlacedLeads
<1>9. e.host = edge.host /\ e.index = edge.index
  BY DEF Placed
<1>10. e.host \in {Text(r.host), r.chassis, "none"}
  <2> HIDE DEF edge
  <2> QED
    BY <1>4, <1>9 DEF Or
<1>11. Told(e, r, {Text(r.host), r.chassis, "none"}, given)
  <2> HIDE DEF given, edge
  <2> QED
    BY <1>8, <1>10, LeadsIsTold
<1> HIDE DEF edge
<1> QED
  BY <1>4, <1>8, <1>9, <1>11, Zenon DEF ToldByLldp, LldpLeads

\* So does that of a CDP row, at the interface of the row.
LEMMA WholeCdp ==
  ASSUME WorldAssumption, CollectedOK, GotWhole, NEW r \in ToSet(world.cdp), NEW position,
         NEW e, e = Placed(got, CdpEdge(got, r.key), position)
  PROVE  CdpLeads(e, r) /\ e.index = r.key[1]
<1> DEFINE key == r.key
           edge == CdpEdge(got, key)
<1>1. \A s \in ToSet(world.cdp) : s.key = r.key => s = r
  BY RowsAreOne DEF CollectedOK, WorldAssumption
<1>2. \A c \in {"addr", "host", "port"} : Cell(got.cdp, key, c) = r[c]
  BY <1>1, WholeCell DEF GotWhole
<1>3. Cell(got.cdp, key, "port") = r.port /\ Cell(got.cdp, key, "host") = r.host /\ Cell(got.cdp, key, "addr") = r.addr
  BY <1>2
<1>4. /\ edge.port = r.port /\ edge.host = Text(r.host) /\ edge.index = key[1]
      /\ edge.ip = IF r.addr = "bad" THEN "none" ELSE r.addr
  BY <1>3 DEF CdpEdge
<1>5. /\ {r.addr} \ {"none", "bad"} = {} => edge.ip = "none"
      /\ {r.addr} \ {"none", "bad"} # {} => edge.ip \in {r.addr} \ {"none", "bad"}
  <2> HIDE DEF edge
  <2>1. CASE r.addr \in {"none", "bad"}
    BY <1>4, <2>1
  <2>2. CASE r.addr \notin {"none", "bad"}
    BY <1>4, <2>2
  <2> QED
    BY <2>1, <2>2
<1>6. IsOneOf(edge.host, {Text(r.host)}, {"none", ""})
  <2> HIDE DEF edge
  <2>1. CASE Text(r.host) \in {"none", ""}
    BY <1>4, <2>1 DEF IsOneOf
  <2>2. CASE Text(r.host) \notin {"none", ""}
    BY <1>4, <2>2 DEF IsOneOf
  <2> QED
    BY <2>1, <2>2
<1>7. e = Placed(got, edge, position) /\ e.index = edge.index
  BY DEF Placed
<1>8. Leads(e, r, {Text(r.host)}, {r.addr})
  <2> DEFINE names == {Text(r.host)}
             given == {r.addr}
  <2>1. /\ given \ {"none", "bad"} = {} => edge.ip = "none"
        /\ given \ {"none", "bad"} # {} => edge.ip \in given \ {"none", "bad"}
    BY <1>5
  <2>2. IsOneOf(edge.host, names, {"none", ""})
    BY <1>6
  <2>3. e = Placed(got, edge, position) /\ edge.port = r.port
    BY <1>4, <1>7
  <2> HIDE DEF edge, names, given
  <2>4. Leads(e, r, names, given)
    BY <2>1, <2>2, <2>3, PlacedLeads
  <2> QED
    BY <2>4 DEF names, given
<1> HIDE DEF edge
<1> QED
  BY <1>4, <1>7, <1>8 DEF CdpLeads

\* The interfaces an LLDP port may be are those that fit what the device says of it.
LEMMA WholeCandidates ==
  ASSUME WorldAssumption, CollectedOK, GotWhole, NEW p
  PROVE  /\ \A i \in Candidates(got, p) :
              \E x \in ToSet(world.ports), y \in ToSet(world.ifs) : x.key = <<p>> /\ Matches(x, y) /\ y.key[1] = i
         /\ \A x \in ToSet(world.ports), y \in ToSet(world.ifs) :
              x.key = <<p>> /\ Matches(x, y) => y.key[1] \in Candidates(got, p)
<1> DEFINE port(c)  == Cell(got.ports, <<p>>, c)
           field    == [alias |-> "alias", mac |-> "phys", name |-> "name"]
           byId(k)  == port("subtype") \in DOMAIN field
                         /\ Same(port("id"), Cell(got.ifs, k, field[port("subtype")]))
           byText(k) == \E c \in {"name", "descr"} : Same(port("desc"), Cell(got.ifs, k, c))
<1>1. Candidates(got, p) = {k[1] : k \in {k \in Keys(got.ifs) : byId(k) \/ byText(k)}}
  BY Zenon DEF Candidates
<1>2. /\ \A x, y \in ToSet(world.ports) : x.key = y.key => x = y
      /\ \A x, y \in ToSet(world.ifs) : x.key = y.key => x = y
  BY DEF CollectedOK, WorldAssumption, ToSet
<1>3. ASSUME NEW y \in ToSet(world.ifs)
      PROVE  /\ \A c \in {"name", "descr", "alias", "phys"} : Cell(got.ifs, y.key, c) = y[c]
             /\ \A c \in {"name", "descr", "alias", "phys"} : y[c] # "none" => y.key \in Keys(got.ifs)
  BY <1>2, WholeCell, WholeKeys DEF GotWhole
<1>4. \A k \in Keys(got.ifs) : \E y \in ToSet(world.ifs) : k = y.key
  BY WholeKeys DEF GotWhole
<1>5. ASSUME NEW x \in ToSet(world.ports), x.key = <<p>>
      PROVE  port("subtype") = x.subtype /\ port("id") = x.id /\ port("desc") = x.desc
  <2>1. \A c \in {"subtype", "id", "desc"} : Cell(got.ports, x.key, c) = x[c]
    BY <1>2, WholeCell DEF GotWhole
  <2> QED
    BY <1>5, <2>1
<1>6. DOMAIN field = {"alias", "mac", "name"} /\ field.alias = "alias" /\ field.mac = "phys" /\ field.name = "name"
  OBVIOUS
<1> HIDE DEF field
<1>7. ASSUME NEW x \in ToSet(world.ports), x.key = <<p>>, NEW y \in ToSet(world.ifs)
      PROVE  byId(y.key) \/ byText(y.key) <=> Matches(x, y)
  <2>1. /\ port("subtype") = x.subtype /\ port("id") = x.id /\ port("desc") = x.desc
    BY <1>5, <1>7
  <2>2. /\ Cell(got.ifs, y.key, "name") = y.name /\ Cell(got.ifs, y.key, "descr") = y.descr
        /\ Cell(got.ifs, y.key, "alias") = y.alias /\ Cell(got.ifs, y.key, "phys") = y.phys
    BY <1>3
  <2>3. byText(y.key) <=> Same(x.desc, y.name) \/ Same(x.desc, y.descr)
    BY <2>1, <2>2
  <2>4. byId(y.key) <=> \/ x.subtype = "alias" /\ Same(x.id, y.alias)
                        \/ x.subtype = "mac" /\ Same(x.id, y.phys)
                        \/ x.subtype = "name" /\ Same(x.id, y.name)
    BY <1>6, <2>1, <2>2
  <2> QED
    BY <2>3, <2>4 DEF Matches
<1>8. ASSUME NEW i \in Candidates(got, p)
      PROVE  \E x \in ToSet(world.ports), y \in ToSet(world.ifs) : x.key = <<p>> /\ Matches(x, y) /\ y.key[1] = i
  <2>1. PICK k \in Keys(got.ifs) : (byId(k) \/ byText(k)) /\ i = k[1]
    BY <1>1
  <2>2. PICK y \in ToSet(world.ifs) : k = y.key
    BY <1>4
  <2>3. \E c : port(c) # "none"
    BY <2>1 DEF Same
  <2>4. PICK x \in ToSet(world.ports) : x.key = <<p>>
    BY <2>3, CellHasRow DEF GotWhole
  <2>5. Matches(x, y)
    BY <1>7, <2>1, <2>2, <2>4
  <2> QED
    BY <2>1, <2>2, <2>4, <2>5
<1>9. ASSUME NEW x \in ToSet(world.ports), NEW y \in ToSet(world.ifs), x.key = <<p>>, Matches(x, y)
      PROVE  y.key[1] \in Candidates(got, p)
  <2>1. byId(y.key) \/ byText(y.key)
    BY <1>7, <1>9
  <2>2. y.name # "none" \/ y.descr # "none" \/ y.alias # "none" \/ y.phys # "none"
    BY <1>9 DEF Matches, Same
  <2>3. y.key \in Keys(got.ifs)
    BY <1>3, <2>2
  <2> QED
    BY <1>1, <2>1, <2>3
<1> QED
  BY <1>8, <1>9

\* A set of one has its member only.
LEMMA OnlyMember ==
  ASSUME NEW A, IsFiniteSet(A), Cardinality(A) = 1
  PROVE  \E x : x \in A /\ A = {x}
<1>1. \E x : A = {x}
  BY FS_Singleton
<1> QED
  BY <1>1

\* What was collected of every table is of its rows.
ListsOK == \A t \in Tables : got[t] \in Seq(CellsOf(ToSet(world[t]), Columns))

\* So a port of which the device says what is right is found where it is, or nowhere.
LEMMA RightIndex ==
  ASSUME WorldAssumption, CollectedOK, ListsOK, GotWhole, NEW p, IsRight(p),
         LocalIndex(Candidates(got, p)) # NoIndex
  PROVE  LocalIndex(Candidates(got, p)) = world.at[p]
<1> DEFINE C == Candidates(got, p)
<1>1. Cardinality(C) = 1 /\ LocalIndex(C) = CHOOSE i \in C : TRUE
  BY DEF LocalIndex
<1>2. IsFiniteSet(C)
  <2> DEFINE K == {k \in Keys(got.ifs) : k[1] \in C}
             f == [k \in K |-> k[1]]
  <2>1. C \subseteq {k[1] : k \in Keys(got.ifs)}
    BY Zenon DEF Candidates
  <2>2. IsFiniteSet(Keys(got.ifs))
    <3>1. got.ifs \in Seq(CellsOf(ToSet(world["ifs"]), Columns))
      BY DEF ListsOK, Tables
    <3> QED
      BY <3>1, KeysAreOfRows
  <2> HIDE DEF C
  <2>3. IsFiniteSet(K)
    <3>1. K \in SUBSET Keys(got.ifs)
      OBVIOUS
    <3> HIDE DEF K
    <3> QED
      BY <2>2, <3>1, FS_Subset
  <2>4. f \in [K -> C] /\ \A i \in C : \E k \in K : f[k] = i
    BY <2>1
  <2>5. f \in Surjection(K, C)
    <3> HIDE DEF f, K
    <3> QED
      BY <2>4 DEF Surjection
  <2> HIDE DEF f, K
  <2> QED
    BY <2>3, <2>5, FS_Surjection
<1>3. C # {}
  <2> HIDE DEF C
  <2> QED
    BY <1>1, FS_EmptySet
<1>4. PICK i : i \in C /\ C = {i}
  <2> HIDE DEF C
  <2> QED
    BY <1>1, <1>2, <1>3, OnlyMember
<1>5. PICK x \in ToSet(world.ports), y \in ToSet(world.ifs) : x.key = <<p>> /\ Matches(x, y)
  BY <1>4, WholeCandidates
<1>6. PICK z \in ToSet(world.ifs) : z.key[1] = world.at[p] /\ Matches(x, z)
  BY <1>5 DEF IsRight
<1>7. world.at[p] \in C
  BY <1>5, <1>6, WholeCandidates
<1> HIDE DEF C
<1>8. LocalIndex(C) = i /\ world.at[p] = i
  BY <1>1, <1>4, <1>7
<1> QED
  BY <1>8 DEF C

\* An edge is of a row: it leads to the neighbour, and is where the row says.
IsOfLldp(e, r) == LldpLeads(e, r) /\ (IsRight(r.key[2]) => e.index \in {NoIndex, world.at[r.key[2]]})
IsOfCdp(e, r)  == CdpLeads(e, r) /\ e.index \in {NoIndex, r.key[1]}
IsOfRow(e) ==
  \/ e.index = NoIndex
  \/ \E r \in ToSet(world.lldp) : IsOfLldp(e, r)
  \/ \E r \in ToSet(world.cdp) : IsOfCdp(e, r)

\* Every row that was collected whole has an edge, and every edge is of such a row.
LEMMA WholeNeighbors ==
  ASSUME WorldAssumption, CollectedOK, ListsOK, GotWhole, NEW edges, edges = Neighbors(got)
  PROVE  /\ \A i \in DOMAIN edges : IsOfRow(edges[i])
         /\ \A r \in ToSet(world.lldp) : \E i \in DOMAIN edges :
              /\ ToldByLldp(edges[i], r) /\ LldpLeads(edges[i], r)
              /\ edges[i].index = LocalIndex(Candidates(got, r.key[2]))
         /\ \A r \in ToSet(world.cdp) : \E i \in DOMAIN edges : CdpLeads(edges[i], r)
<1> DEFINE lldp == Ordered(Keys(got.lldp))
           cdp == Ordered(Keys(got.cdp))
           a == [i \in 1 .. Len(lldp) |-> Placed(got, LldpEdge(got, lldp[i]), i - 1)]
           b == [i \in 1 .. Len(cdp) |-> Placed(got, CdpEdge(got, cdp[i]), Len(lldp) + i - 1)]
           n == Len(lldp)
           m == Len(cdp)
<1>1. /\ lldp \in Seq(Keys(got.lldp)) /\ cdp \in Seq(Keys(got.cdp))
      /\ \A k \in Keys(got.lldp) : \E i \in DOMAIN lldp : lldp[i] = k
      /\ \A k \in Keys(got.cdp) : \E i \in DOMAIN cdp : cdp[i] = k
  BY KeysAreOrdered
<1>2. edges = a \o b
  BY Zenon DEF Neighbors
<1>3. /\ \A k \in Keys(got.lldp) : \E r \in ToSet(world.lldp) : k = r.key
      /\ \A r \in ToSet(world.lldp) : r.key \in Keys(got.lldp)
  <2>1. \A r \in ToSet(world.lldp) : \E c \in {"chassisSubtype", "chassis", "portSubtype", "port", "host"} : r[c] # "none"
    BY DEF CollectedOK, WorldAssumption, ToSet
  <2> QED
    BY <2>1, WholeKeys DEF GotWhole
<1>4. /\ \A k \in Keys(got.cdp) : \E r \in ToSet(world.cdp) : k = r.key
      /\ \A r \in ToSet(world.cdp) : r.key \in Keys(got.cdp)
  <2>1. \A r \in ToSet(world.cdp) : \E c \in {"addr", "host", "port"} : r[c] # "none"
    BY DEF CollectedOK, WorldAssumption, ToSet
  <2> QED
    BY <2>1, WholeKeys DEF GotWhole
<1> HIDE DEF lldp, cdp
<1>5. n \in Nat /\ m \in Nat /\ DOMAIN lldp = 1 .. n /\ DOMAIN cdp = 1 .. m
  BY <1>1
<1>6. \A i \in 1 .. n : a[i] = Placed(got, LldpEdge(got, lldp[i]), i - 1)
  OBVIOUS
<1>7. \A i \in 1 .. m : b[i] = Placed(got, CdpEdge(got, cdp[i]), Len(lldp) + i - 1)
  OBVIOUS
<1>8. a = [i \in 1 .. n |-> a[i]] /\ b = [i \in 1 .. m |-> b[i]]
  OBVIOUS
<1> HIDE DEF a, b
<1>9. a \in Seq(ToSet(a)) /\ b \in Seq(ToSet(b)) /\ Len(a) = n /\ Len(b) = m
  <2> HIDE DEF n, m
  <2>1. a \in Seq(ToSet(a)) /\ Len(a) = n
    BY <1>5, <1>8, IsSequence
  <2>2. b \in Seq(ToSet(b)) /\ Len(b) = m
    BY <1>5, <1>8, IsSequence
  <2> QED
    BY <2>1, <2>2
<1> HIDE DEF n, m
<1>10. /\ DOMAIN edges = 1 .. n + m
       /\ \A i \in 1 .. n : i \in 1 .. n + m /\ edges[i] = a[i]
       /\ \A i \in 1 .. m : n + i \in 1 .. n + m /\ edges[n + i] = b[i]
       /\ \A i \in 1 .. n + m : (i \in 1 .. n) \/ \E j \in 1 .. m : i = n + j
  <2>1. /\ Len(a \o b) = Len(a) + Len(b) /\ DOMAIN (a \o b) = 1 .. Len(a) + Len(b)
        /\ \A i \in 1 .. Len(a) + Len(b) : (a \o b)[i] = IF i <= Len(a) THEN a[i] ELSE b[i - Len(a)]
    <3>1. a \in Seq(ToSet(a) \cup ToSet(b)) /\ b \in Seq(ToSet(a) \cup ToSet(b))
      BY <1>9
    <3>2. a \o b \in Seq(ToSet(a) \cup ToSet(b))
      BY <3>1, ConcatProperties
    <3> QED
      BY <3>1, <3>2, ConcatProperties
  <2>2. \A i \in 1 .. n : i \in 1 .. n + m /\ i <= n
    BY <1>5
  <2>3. \A i \in 1 .. m : n + i \in 1 .. n + m /\ ~(n + i <= n) /\ (n + i) - n = i
    BY <1>5
  <2>4. \A i \in 1 .. n + m : ~(i \in 1 .. n) => i - n \in 1 .. m /\ i = n + (i - n)
    BY <1>5
  <2> QED
    BY <1>2, <1>9, <2>1, <2>2, <2>3, <2>4
<1>11. ASSUME NEW i \in 1 .. n PROVE IsOfRow(a[i])
  <2>1. PICK r \in ToSet(world.lldp) : lldp[i] = r.key
    BY <1>1, <1>3, <1>5
  <2>2. LldpLeads(a[i], r) /\ a[i].index = LocalIndex(Candidates(got, r.key[2]))
    <3>1. a[i] = Placed(got, LldpEdge(got, r.key), i - 1)
      BY <1>6, <2>1
    <3> QED
      BY <3>1, WholeLldp
  <2>3. IsRight(r.key[2]) => a[i].index \in {NoIndex, world.at[r.key[2]]}
    BY <2>2, RightIndex
  <2> QED
    BY <2>2, <2>3 DEF IsOfRow, IsOfLldp
<1>12. ASSUME NEW i \in 1 .. m PROVE IsOfRow(b[i])
  <2>1. PICK r \in ToSet(world.cdp) : cdp[i] = r.key
    BY <1>1, <1>4, <1>5
  <2>2. CdpLeads(b[i], r) /\ b[i].index = r.key[1]
    <3>1. \E position : b[i] = Placed(got, CdpEdge(got, r.key), position)
      BY <1>7, <2>1
    <3> QED
      BY <3>1, WholeCdp
  <2> QED
    BY <2>2 DEF IsOfRow, IsOfCdp
<1>13. ASSUME NEW r \in ToSet(world.lldp)
       PROVE  \E i \in DOMAIN edges :
                /\ ToldByLldp(edges[i], r) /\ LldpLeads(edges[i], r)
                /\ edges[i].index = LocalIndex(Candidates(got, r.key[2]))
  <2>1. PICK i \in 1 .. n : lldp[i] = r.key
    BY <1>1, <1>3, <1>5
  <2>2. /\ ToldByLldp(a[i], r) /\ LldpLeads(a[i], r)
        /\ a[i].index = LocalIndex(Candidates(got, r.key[2]))
    <3>1. a[i] = Placed(got, LldpEdge(got, r.key), i - 1)
      BY <1>6, <2>1
    <3> QED
      BY <3>1, WholeLldp
  <2> QED
    BY <1>10, <2>2
<1>14. ASSUME NEW r \in ToSet(world.cdp) PROVE \E i \in DOMAIN edges : CdpLeads(edges[i], r)
  <2>1. PICK i \in 1 .. m : cdp[i] = r.key
    BY <1>1, <1>4, <1>5
  <2>2. CdpLeads(b[i], r)
    <3>1. \E position : b[i] = Placed(got, CdpEdge(got, r.key), position)
      BY <1>7, <2>1
    <3> QED
      BY <3>1, WholeCdp
  <2> QED
    BY <1>10, <2>2
<1>15. \A i \in DOMAIN edges : IsOfRow(edges[i])
  BY <1>10, <1>11, <1>12
<1> QED
  BY <1>13, <1>14, <1>15

\* Edges with the same port and target lead to the same neighbour.
LEMMA LeadsToo ==
  ASSUME NEW e, NEW f, f.port = e.port, f.target = e.target
  PROVE  /\ \A r : LldpLeads(e, r) => LldpLeads(f, r)
         /\ \A r : CdpLeads(e, r) => CdpLeads(f, r)
  BY DEF LldpLeads, CdpLeads, Leads

\* An edge that others have joined is where one of them is, or nowhere.
LEMMA JoinedIndex ==
  ASSUME NEW edges, EdgesOK(edges), NEW i \in DOMAIN edges
  PROVE  \/ Joined(edges, i).index = NoIndex
         \/ \E j \in DOMAIN edges : /\ Joined(edges, i).index = edges[j].index
                                    /\ edges[j].target = edges[i].target /\ edges[j].port = edges[i].port
<1> DEFINE alike == {i} \cup {j \in DOMAIN edges : j > i /\ Duplicates(edges[i], edges[j])}
<1>1. Joined(edges, i).index = FirstKnown(edges, alike, "index", NoIndex)
  BY DEF Joined
<1>2. alike \subseteq DOMAIN edges /\ DOMAIN edges \subseteq Nat
  BY DEF EdgesOK
<1>3. \A j \in alike : edges[j].port = edges[i].port /\ edges[j].target = edges[i].target
  BY DEF Duplicates
<1> HIDE DEF alike
<1>4. alike \in SUBSET Nat
  BY <1>2
<1>5. \/ Joined(edges, i).index = NoIndex
      \/ \E j \in alike : Joined(edges, i).index = edges[j].index
  BY <1>1, <1>4, FirstKnownIs
<1> QED
  BY <1>2, <1>3, <1>5

\* What stays is joined, and every edge has joined what stays.
LEMMA MergedHasAll ==
  ASSUME NEW edges, EdgesOK(edges), NEW merged, merged = Merged(edges)
  PROVE  /\ \A p \in DOMAIN merged : \E i \in DOMAIN edges : merged[p] = Joined(edges, i)
         /\ \A i \in DOMAIN edges : \E p \in DOMAIN merged :
              merged[p].target = edges[i].target /\ merged[p].port = edges[i].port
<1> DEFINE all == [i \in DOMAIN edges |-> Joined(edges, i)]
           places == {i \in DOMAIN edges : \A j \in 1 .. i - 1 : ~Duplicates(edges[j], edges[i])}
           n == Len(edges)
<1>1. n \in Nat /\ DOMAIN edges = 1 .. n
  BY DEF EdgesOK
<1>2. all \in Seq(ToSet(all)) /\ Len(all) = n /\ DOMAIN all = 1 .. n
  <2>1. all = [i \in 1 .. n |-> all[i]]
    BY <1>1
  <2> HIDE DEF all, n
  <2> QED
    BY <1>1, <2>1, IsSequence
<1>3. merged = EntriesAt(all, places)
  BY Zenon DEF Merged
<1>4. places \in SUBSET (1 .. Len(all))
  BY <1>1, <1>2
<1>5. \A i \in DOMAIN edges : all[i] = Joined(edges, i)
  OBVIOUS
<1>6. ASSUME NEW i \in DOMAIN edges
      PROVE  \E j \in places : edges[j].target = edges[i].target /\ edges[j].port = edges[i].port
  <2> DEFINE like == {j \in DOMAIN edges : j = i \/ Duplicates(edges[j], edges[i])}
  <2>1. like \in SUBSET Nat /\ like # {}
    BY <1>1
  <2>2. PICK j \in like : \A k \in like : j <= k
    <3> HIDE DEF like
    <3> QED
      BY <2>1, FirstNumber
  <2>3. edges[j].target = edges[i].target /\ edges[j].port = edges[i].port
    BY DEF Duplicates
  <2>4. ASSUME NEW k \in 1 .. j - 1 PROVE ~Duplicates(edges[k], edges[j])
    <3>1. k \in DOMAIN edges /\ ~(j <= k)
      BY <1>1
    <3>2. ~Duplicates(edges[k], edges[i])
      BY <2>2, <3>1
    <3> QED
      BY <2>3, <3>2 DEF Duplicates
  <2> QED
    BY <2>3, <2>4
<1> HIDE DEF all, places, n
<1>7. /\ merged \in Seq(ToSet(all))
      /\ \A p \in 1 .. Len(merged) : NthPlace(places, p) \in places /\ merged[p] = all[NthPlace(places, p)]
      /\ \A i \in places : \E p \in 1 .. Len(merged) : merged[p] = all[i]
  BY <1>2, <1>3, <1>4, AtIsOf
<1>8. DOMAIN merged = 1 .. Len(merged)
  BY <1>7
<1>9. ASSUME NEW p \in DOMAIN merged PROVE \E i \in DOMAIN edges : merged[p] = Joined(edges, i)
  <2>1. NthPlace(places, p) \in DOMAIN edges /\ merged[p] = all[NthPlace(places, p)]
    BY <1>1, <1>2, <1>4, <1>7, <1>8
  <2> QED
    BY <1>5, <2>1
<1>10. ASSUME NEW i \in DOMAIN edges
       PROVE  \E p \in DOMAIN merged : merged[p].target = edges[i].target /\ merged[p].port = edges[i].port
  <2>1. PICK j \in places : edges[j].target = edges[i].target /\ edges[j].port = edges[i].port
    BY <1>6
  <2>2. j \in DOMAIN edges
    BY <1>1, <1>2, <1>4
  <2>3. PICK p \in DOMAIN merged : merged[p] = all[j]
    BY <1>7, <1>8
  <2>4. merged[p].target = edges[j].target /\ merged[p].port = edges[j].port
    BY <1>5, <2>2, <2>3, JoinedIs
  <2> QED
    BY <2>1, <2>4
<1> QED
  BY <1>9, <1>10

\* What is left of the neighbours of a device that was collected whole.
LEMMA WholeMerged ==
  ASSUME WorldAssumption, CollectedOK, ListsOK, GotWhole, NEW merged, merged = Merged(Neighbors(got))
  PROVE  /\ \A p \in DOMAIN merged : IsOfRow(merged[p])
         /\ \A r \in ToSet(world.lldp) : \E p \in DOMAIN merged : LldpLeads(merged[p], r)
         /\ \A r \in ToSet(world.cdp) : \E p \in DOMAIN merged : CdpLeads(merged[p], r)
<1> DEFINE edges == Neighbors(got)
<1>1. EdgesOK(edges)
  BY NeighborsAreTold
<1>2. /\ \A i \in DOMAIN edges : IsOfRow(edges[i])
      /\ \A r \in ToSet(world.lldp) : \E i \in DOMAIN edges : LldpLeads(edges[i], r)
      /\ \A r \in ToSet(world.cdp) : \E i \in DOMAIN edges : CdpLeads(edges[i], r)
  <2> HIDE DEF edges
  <2>1. edges = Neighbors(got)
    BY DEF edges
  <2> QED
    BY <2>1, WholeNeighbors
<1>3. merged = Merged(edges)
  OBVIOUS
<1> HIDE DEF edges
<1>4. /\ \A p \in DOMAIN merged : \E i \in DOMAIN edges : merged[p] = Joined(edges, i)
      /\ \A i \in DOMAIN edges : \E p \in DOMAIN merged :
           merged[p].target = edges[i].target /\ merged[p].port = edges[i].port
  BY <1>1, <1>3, MergedHasAll
<1>5. ASSUME NEW p \in DOMAIN merged PROVE IsOfRow(merged[p])
  <2>1. PICK i \in DOMAIN edges : merged[p] = Joined(edges, i)
    BY <1>4
  <2>2. merged[p].target = edges[i].target /\ merged[p].port = edges[i].port
    BY <1>1, <2>1, JoinedIs
  <2>3. CASE merged[p].index = NoIndex
    BY <2>3 DEF IsOfRow
  <2>4. CASE merged[p].index # NoIndex
    <3>1. PICK j \in DOMAIN edges : /\ merged[p].index = edges[j].index
                                    /\ edges[j].target = edges[i].target /\ edges[j].port = edges[i].port
      BY <1>1, <2>1, <2>4, JoinedIndex
    <3>2. IsOfRow(edges[j]) /\ merged[p].target = edges[j].target /\ merged[p].port = edges[j].port
      BY <1>2, <2>2, <3>1
    <3>3. /\ \A r : LldpLeads(edges[j], r) => LldpLeads(merged[p], r)
          /\ \A r : CdpLeads(edges[j], r) => CdpLeads(merged[p], r)
      BY <3>2, LeadsToo
    <3> QED
      BY <3>1, <3>2, <3>3 DEF IsOfRow, IsOfLldp, IsOfCdp
  <2> QED
    BY <2>3, <2>4
<1>6. ASSUME NEW i \in DOMAIN edges
      PROVE  \E p \in DOMAIN merged : /\ \A r : LldpLeads(edges[i], r) => LldpLeads(merged[p], r)
                                      /\ \A r : CdpLeads(edges[i], r) => CdpLeads(merged[p], r)
  BY <1>4, LeadsToo
<1>7. \A r \in ToSet(world.lldp) : \E p \in DOMAIN merged : LldpLeads(merged[p], r)
  BY <1>2, <1>6
<1>8. \A r \in ToSet(world.cdp) : \E p \in DOMAIN merged : CdpLeads(merged[p], r)
  BY <1>2, <1>6
<1> QED
  BY <1>5, <1>7, <1>8

-----------------------------------------------------------------------------
(* Every discovery is like that.                                           *)

TopologyInv == CollectedOK /\ next \in Nat \ {0} /\ TopologyIsSound

\* There are eight walks.
LEMMA NumberOfWalks == Len(Walks) = 8 /\ DOMAIN Walks = 1 .. 8
  BY DEF Walks

\* Nothing is collected at first.
LEMMA TopologyInitInv ==
  ASSUME WorldAssumption, TopologyInit
  PROVE  TopologyInv
<1>1. CollectedOK
  BY DEF TopologyInit, CollectedOK, Tables
<1>2. next \in Nat \ {0} /\ ~Drawn
  BY NumberOfWalks DEF TopologyInit, Drawn
<1> QED
  BY <1>1, <1>2 DEF TopologyInv, TopologyIsSound

\* A walk of a remote table delivers cells of its rows.
LEMMA WalkKeepsInv ==
  ASSUME WorldAssumption, TopologyInv, WalkTable
  PROVE  TopologyInv'
<1> DEFINE w == Walks[next]
           all == Varbinds(world[w.of], w.columns)
<1>1. next \in 1 .. 8 /\ next' = next + 1 /\ world' = world
  <2>1. next \in Nat /\ next <= Len(Walks) /\ next' = next + 1 /\ world' = world
    BY DEF WalkTable, TopologyInv
  <2>2. next # 0
    BY DEF TopologyInv
  <2> QED
    BY <2>1, <2>2, NumberOfWalks
<1>2. PICK n \in 0 .. Len(all) : got' = [got EXCEPT ![w.of] = @ \o SubSeq(all, 1, n)]
  BY DEF WalkTable
<1>3. /\ w.of \in Tables
      /\ w.of = "lldp" => w.columns = LldpColumns
      /\ w.of = "cdp" => w.columns = CdpColumns
      /\ w.of = "addresses" => w.columns = <<"addr">>
  BY <1>1 DEF Walks, Tables
<1>4. LldpColumns \in Seq(Columns) /\ CdpColumns \in Seq(Columns) /\ <<"addr">> \in Seq({"addr"})
  BY DEF LldpColumns, CdpColumns, Columns
<1>5. world.lldp \in Seq(ToSet(world.lldp)) /\ world.cdp \in Seq(ToSet(world.cdp))
      /\ world.addresses \in Seq(ToSet(world.addresses))
  BY DEF TopologyInv, CollectedOK, WorldAssumption
<1>6. ASSUME NEW S, all \in Seq(S) PROVE SubSeq(all, 1, n) \in Seq(S)
  <2> HIDE DEF all
  <2>1. Len(all) \in Nat /\ n \in 0 .. Len(all)
    BY <1>2, <1>6
  <2> QED
    BY <1>6, <2>1, SubSeqProperties
<1>7. DOMAIN got' = Tables
  BY <1>2 DEF TopologyInv, CollectedOK
<1>8. got'["lldp"] \in Seq(CellsOf(ToSet(world.lldp), Columns))
  <2>1. got["lldp"] \in Seq(CellsOf(ToSet(world.lldp), Columns)) /\ "lldp" \in DOMAIN got
    BY DEF TopologyInv, CollectedOK, Tables
  <2>2. CASE w.of = "lldp"
    <3>1. all \in Seq(CellsOf(ToSet(world.lldp), Columns))
      BY <1>3, <1>4, <1>5, <2>2, VarbindsAreCells
    <3>2. SubSeq(all, 1, n) \in Seq(CellsOf(ToSet(world.lldp), Columns))
      BY <1>6, <3>1
    <3>3. got'["lldp"] = got["lldp"] \o SubSeq(all, 1, n)
      <4> HIDE DEF all, w
      <4> QED
        BY <1>2, <2>1, <2>2
    <3> HIDE DEF all
    <3> QED
      BY <2>1, <3>2, <3>3
  <2>3. CASE w.of # "lldp"
    <3> HIDE DEF all, w
    <3> QED
      BY <1>2, <2>1, <2>3
  <2> QED
    BY <2>2, <2>3
<1>9. got'["cdp"] \in Seq(CellsOf(ToSet(world.cdp), Columns))
  <2>1. got["cdp"] \in Seq(CellsOf(ToSet(world.cdp), Columns)) /\ "cdp" \in DOMAIN got
    BY DEF TopologyInv, CollectedOK, Tables
  <2>2. CASE w.of = "cdp"
    <3>1. all \in Seq(CellsOf(ToSet(world.cdp), Columns))
      BY <1>3, <1>4, <1>5, <2>2, VarbindsAreCells
    <3>2. SubSeq(all, 1, n) \in Seq(CellsOf(ToSet(world.cdp), Columns))
      BY <1>6, <3>1
    <3>3. got'["cdp"] = got["cdp"] \o SubSeq(all, 1, n)
      <4> HIDE DEF all, w
      <4> QED
        BY <1>2, <2>1, <2>2
    <3> HIDE DEF all
    <3> QED
      BY <2>1, <3>2, <3>3
  <2>3. CASE w.of # "cdp"
    <3> HIDE DEF all, w
    <3> QED
      BY <1>2, <2>1, <2>3
  <2> QED
    BY <2>2, <2>3
<1>10. got'["addresses"] \in Seq(CellsOf(ToSet(world.addresses), {"addr"}))
  <2>1. got["addresses"] \in Seq(CellsOf(ToSet(world.addresses), {"addr"})) /\ "addresses" \in DOMAIN got
    BY DEF TopologyInv, CollectedOK, Tables
  <2>2. CASE w.of = "addresses"
    <3>1. all \in Seq(CellsOf(ToSet(world.addresses), {"addr"}))
      BY <1>3, <1>4, <1>5, <2>2, VarbindsAreCells
    <3>2. SubSeq(all, 1, n) \in Seq(CellsOf(ToSet(world.addresses), {"addr"}))
      BY <1>6, <3>1
    <3>3. got'["addresses"] = got["addresses"] \o SubSeq(all, 1, n)
      <4> HIDE DEF all, w
      <4> QED
        BY <1>2, <2>1, <2>2
    <3> HIDE DEF all
    <3> QED
      BY <2>1, <3>2, <3>3
  <2>3. CASE w.of # "addresses"
    <3> HIDE DEF all, w
    <3> QED
      BY <1>2, <2>1, <2>3
  <2> QED
    BY <2>2, <2>3
<1>11. CollectedOK'
  BY <1>1, <1>7, <1>8, <1>9, <1>10 DEF CollectedOK, TopologyInv
<1>12. next' \in Nat \ {0} /\ ~Drawn'
  BY <1>1, NumberOfWalks DEF Drawn
<1> QED
  BY <1>11, <1>12 DEF TopologyInv, TopologyIsSound

\* Nodes and edges that can be drawn, and what the limit makes of them.
CanBeDrawn(nodes, edges) ==
  /\ nodes \in Seq(ToSet(nodes)) /\ Len(nodes) >= 1 /\ nodes[1].id = <<"ip", Seed>>
  /\ \A i, j \in DOMAIN nodes : nodes[i].id = nodes[j].id => i = j
  /\ edges \in Seq(ToSet(edges)) /\ NoDuplicates(edges)
  /\ \A i \in DOMAIN edges : \E j \in DOMAIN nodes : nodes[j].id = edges[i].target
IsLimited(r, edges) ==
  /\ DrawnOK(r) /\ ToSet(r.edges) \subseteq ToSet(edges)
  /\ r.hidden = 0 => r.edges = edges

\* The limit leaves what can be drawn.
LEMMA LimitIsDrawn ==
  ASSUME NEW nodes, NEW edges, CanBeDrawn(nodes, edges), NEW limit \in Nat
  PROVE  IsLimited(Limited(nodes, edges, limit), edges)
  BY LimitedIs DEF CanBeDrawn, IsLimited

\* An edge is shown as it is, with the health of its port.
IsShown(e, f, db) ==
  /\ f.target = e.target /\ f.port = e.port /\ f.host = e.host /\ f.ip = e.ip /\ f.index = e.index
  /\ f.health # "Healthy" =>
       \E d \in db : d.ip = Seed /\ \E p \in d.ports : p.index = f.index /\ PortHealth(p) = f.health

\* What is drawn shows what is left of the neighbours.
LEMMA ReportIs ==
  ASSUME TopologyAssumption, WorldAssumption, TopologyInv, Draw
  PROVE  \E edges, shown :
           /\ edges = Merged(Neighbors(got)) /\ EdgesOK(edges) /\ DOMAIN shown = DOMAIN edges
           /\ \A i \in DOMAIN edges : IsShown(edges[i], shown[i], database')
           /\ DrawnOK(report') /\ ToSet(report'.edges) \subseteq ToSet(shown)
           /\ report'.hidden = 0 => report'.edges = shown
<1> DEFINE edges == Merged(Neighbors(got))
           nodes == NodesOf(edges)
           shownNodes == [i \in DOMAIN nodes |-> Enriched(nodes[i], database')]
           shownEdges == [i \in DOMAIN edges |-> Annotated(edges[i], database')]
<1>1. edges = Merged(Neighbors(got))
  OBVIOUS
<1>2. PICK limit \in Nat : report' = Limited(shownNodes, shownEdges, limit)
  <2>1. PICK limit \in NodeLimits : report' = Shown(edges, database', limit)
    BY Zenon DEF Draw
  <2>2. limit \in Nat /\ report' = Limited(shownNodes, shownEdges, limit)
    BY <2>1, Zenon DEF Shown, TopologyAssumption
  <2> QED
    BY <2>2
<1>3. EdgesOK(edges) /\ NoDuplicates(edges)
  BY NeighborsAreTold, MergedIs DEF TopologyInv
<1>4. NodesOK(nodes, edges)
  BY <1>3, NodesAre
<1> HIDE DEF edges, nodes
<1>5. PICK n \in Nat, m \in Nat :
        /\ n = Len(nodes) /\ DOMAIN nodes = 1 .. n /\ n >= 1
        /\ m = Len(edges) /\ DOMAIN edges = 1 .. m
  BY <1>3, <1>4 DEF NodesOK, EdgesOK
<1>6. shownNodes \in Seq(ToSet(shownNodes)) /\ Len(shownNodes) = n /\ DOMAIN shownNodes = 1 .. n
  <2>1. shownNodes = [i \in 1 .. n |-> shownNodes[i]]
    BY <1>5
  <2> HIDE DEF shownNodes
  <2> QED
    BY <2>1, IsSequence
<1>7. shownEdges \in Seq(ToSet(shownEdges)) /\ DOMAIN shownEdges = 1 .. m
  <2>1. shownEdges = [i \in 1 .. m |-> shownEdges[i]]
    BY <1>5
  <2> HIDE DEF shownEdges
  <2> QED
    BY <2>1, IsSequence
<1>8. \A i \in 1 .. n : shownNodes[i].id = nodes[i].id
  BY <1>4, <1>5, EnrichedIs DEF NodesOK
<1>9. ASSUME NEW i \in 1 .. m
      PROVE  /\ shownEdges[i].target = edges[i].target /\ shownEdges[i].port = edges[i].port
             /\ IsShown(edges[i], shownEdges[i], database')
  <2>1. shownEdges[i] = Annotated(edges[i], database') /\ IsEdge(edges[i]) /\ edges[i].health = "Healthy"
    BY <1>3, <1>5 DEF EdgesOK, EdgeOK
  <2> HIDE DEF shownEdges
  <2> QED
    BY <2>1, AnnotatedIs DEF IsShown
<1> HIDE DEF shownNodes, shownEdges
<1>10. NoDuplicates(shownEdges)
  <2>1. ASSUME NEW i \in 1 .. m, NEW j \in 1 .. m, i # j
        PROVE  ~Duplicates(shownEdges[i], shownEdges[j])
    <3>1. ~Duplicates(edges[i], edges[j])
      BY <1>3, <1>5, <2>1 DEF NoDuplicates
    <3>2. /\ shownEdges[i].target = edges[i].target /\ shownEdges[i].port = edges[i].port
          /\ shownEdges[j].target = edges[j].target /\ shownEdges[j].port = edges[j].port
      BY <1>9
    <3> QED
      BY <3>1, <3>2 DEF Duplicates
  <2> QED
    BY <1>7, <2>1 DEF NoDuplicates
<1>11. \A i, j \in DOMAIN shownNodes : shownNodes[i].id = shownNodes[j].id => i = j
  BY <1>4, <1>5, <1>6, <1>8 DEF NodesOK
<1>12. \A i \in DOMAIN shownEdges : \E j \in DOMAIN shownNodes : shownNodes[j].id = shownEdges[i].target
  BY <1>4, <1>5, <1>6, <1>7, <1>8, <1>9 DEF NodesOK
<1>13. Len(shownNodes) >= 1 /\ shownNodes[1].id = <<"ip", Seed>>
  BY <1>4, <1>5, <1>6, <1>8 DEF NodesOK
<1>14. /\ DrawnOK(report') /\ ToSet(report'.edges) \subseteq ToSet(shownEdges)
       /\ report'.hidden = 0 => report'.edges = shownEdges
  <2>1. CanBeDrawn(shownNodes, shownEdges)
    BY <1>6, <1>7, <1>10, <1>11, <1>12, <1>13 DEF CanBeDrawn
  <2>2. IsLimited(report', shownEdges)
    BY <1>2, <2>1, LimitIsDrawn
  <2> QED
    BY <2>2 DEF IsLimited
<1> QED
  BY <1>1, <1>3, <1>5, <1>7, <1>9, <1>14

\* What is drawn is sound.
LEMMA DrawKeepsInv ==
  ASSUME TopologyAssumption, WorldAssumption, TopologyInv, Draw
  PROVE  TopologyInv'
<1>1. next' = next + 1 /\ next' \in Nat \ {0} /\ world' = world /\ got' = got
  BY DEF Draw, TopologyInv
<1>2. PICK edges, shown :
        /\ EdgesOK(edges) /\ DOMAIN shown = DOMAIN edges
        /\ \A i \in DOMAIN edges : IsShown(edges[i], shown[i], database')
        /\ DrawnOK(report') /\ ToSet(report'.edges) \subseteq ToSet(shown)
  BY ReportIs
<1>3. ASSUME NEW e \in ToSet(report'.edges)
      PROVE  /\ IsTold(e) /\ LeadsToAddress(e)
             /\ e.health # "Healthy" =>
                  \E d \in database' : d.ip = Seed /\ \E p \in d.ports : p.index = e.index /\ PortHealth(p) = e.health
  <2>1. PICK i \in DOMAIN edges : e = shown[i]
    <3>1. e \in ToSet(shown) /\ DOMAIN shown = DOMAIN edges
      BY <1>2
    <3> QED
      BY <3>1 DEF ToSet
  <2>2. IsTold(edges[i]) /\ LeadsToAddress(edges[i])
    BY <1>2 DEF EdgesOK, EdgeOK
  <2>3. IsShown(edges[i], e, database')
    BY <1>2, <2>1
  <2>4. IsTold(e) /\ LeadsToAddress(e)
    BY <2>2, <2>3, ToldToo DEF LeadsToAddress, IsShown
  <2> QED
    BY <2>3, <2>4 DEF IsShown
<1>4. DrawingIsWhole'
  BY <1>2 DEF DrawnOK, DrawingIsWhole, Edges, IsInjective, NoDuplicates
<1>5. NothingIsInvented'
  BY <1>1, <1>3 DEF NothingIsInvented, IsTold, LeadsToAddress, ToldByLldp, ToldByCdp, Edges
<1>6. HealthIsOfThePort'
  BY <1>3 DEF HealthIsOfThePort, Edges
<1>7. CollectedOK'
  BY <1>1 DEF CollectedOK, TopologyInv
<1> QED
  BY <1>1, <1>4, <1>5, <1>6, <1>7 DEF TopologyInv, TopologyIsSound

\* Every step of a discovery keeps the invariant.
LEMMA TopologyStepInv ==
  ASSUME TopologyAssumption, WorldAssumption, TopologyInv, [TopologyNext]_topologyVars
  PROVE  TopologyInv'
<1>1. CASE UNCHANGED topologyVars
  BY <1>1 DEF topologyVars, TopologyInv, CollectedOK, TopologyIsSound, Drawn, DrawingIsWhole,
              NothingIsInvented, HealthIsOfThePort, Edges, ToldByLldp, ToldByCdp
<1>2. CASE WalkTable
  BY <1>2, WalkKeepsInv
<1>3. CASE Draw
  BY <1>3, DrawKeepsInv
<1> QED
  BY <1>1, <1>2, <1>3 DEF TopologyNext

-----------------------------------------------------------------------------
(* And a discovery that lost no answer shows the whole of the device.       *)

\* The columns of a table that the walks before the n-th have visited.
Visited(t, n) == {c \in Columns : \E k \in 1 .. 8 : k < n /\ Walks[k].of = t /\ c \in ToSet(Walks[k].columns)}

\* Without a loss, what was collected of every table is all that the walks have visited.
WholeOK ==
  losses = 0 => \A t \in Tables : ToSet(got[t]) = CellsThere(world[t], Visited(t, next))

CompleteInv == TopologyInv /\ losses \in Nat /\ ListsOK /\ WholeOK /\ TopologyIsComplete

\* Each walk is of a table and visits columns of it.
LEMMA WalksAre ==
  ASSUME NEW k \in 1 .. 8
  PROVE  Walks[k].of \in Tables /\ Walks[k].columns \in Seq(Columns)
<1>1. /\ <<"name">> \in Seq(Columns) /\ <<"descr">> \in Seq(Columns) /\ <<"alias">> \in Seq(Columns)
      /\ <<"phys">> \in Seq(Columns) /\ <<"addr">> \in Seq(Columns)
  BY DEF Columns
<1>2. PortColumns \in Seq(Columns) /\ LldpColumns \in Seq(Columns) /\ CdpColumns \in Seq(Columns)
  BY DEF PortColumns, LldpColumns, CdpColumns, Columns
<1>3. k \in {1, 2, 3, 4, 5, 6, 7, 8}
  OBVIOUS
<1>4. /\ Walks[1].columns = <<"name">> /\ Walks[2].columns = <<"descr">> /\ Walks[3].columns = <<"alias">>
      /\ Walks[4].columns = <<"phys">> /\ Walks[5].columns = PortColumns /\ Walks[6].columns = LldpColumns
      /\ Walks[7].columns = <<"addr">> /\ Walks[8].columns = CdpColumns
  BY DEF Walks
<1>5. Walks[k].of \in Tables
  BY <1>3 DEF Walks, Tables
<1>6. Walks[k].columns \in Seq(Columns)
  BY <1>1, <1>2, <1>3, <1>4
<1> QED
  BY <1>5, <1>6

\* The members of the lists of columns.
LEMMA ColumnSets ==
  /\ ToSet(<<"name">>) = {"name"} /\ ToSet(<<"descr">>) = {"descr"} /\ ToSet(<<"alias">>) = {"alias"}
  /\ ToSet(<<"phys">>) = {"phys"} /\ ToSet(<<"addr">>) = {"addr"}
  /\ ToSet(PortColumns) = {"subtype", "id", "desc"}
  /\ ToSet(LldpColumns) = {"chassisSubtype", "chassis", "portSubtype", "port", "host"}
  /\ ToSet(CdpColumns) = {"addr", "host", "port"}
<1>1. /\ ToSet(<<"name">>) = {"name"} /\ ToSet(<<"descr">>) = {"descr"} /\ ToSet(<<"alias">>) = {"alias"}
      /\ ToSet(<<"phys">>) = {"phys"} /\ ToSet(<<"addr">>) = {"addr"}
  BY DEF ToSet
<1>2. ToSet(PortColumns) = {"subtype", "id", "desc"}
  BY DEF ToSet, PortColumns
<1>3. ToSet(LldpColumns) = {"chassisSubtype", "chassis", "portSubtype", "port", "host"}
  BY DEF ToSet, LldpColumns
<1>4. ToSet(CdpColumns) = {"addr", "host", "port"}
  BY DEF ToSet, CdpColumns
<1> QED
  BY <1>1, <1>2, <1>3, <1>4

\* After the last walk all of every table has been visited.
LEMMA AllIsVisited ==
  ASSUME NEW n, n = 9
  PROVE  /\ Visited("ifs", n) = {"name", "descr", "alias", "phys"}
         /\ Visited("ports", n) = {"subtype", "id", "desc"}
         /\ Visited("lldp", n) = {"chassisSubtype", "chassis", "portSubtype", "port", "host"}
         /\ Visited("addresses", n) = {"addr"}
         /\ Visited("cdp", n) = {"addr", "host", "port"}
<1>1. \A t : Visited(t, n) = {c \in Columns : \E k \in 1 .. 8 : Walks[k].of = t /\ c \in ToSet(Walks[k].columns)}
  BY DEF Visited
<1>2. 1 .. 8 = {1, 2, 3, 4, 5, 6, 7, 8}
  OBVIOUS
<1>3. /\ Walks[1].of = "ifs" /\ Walks[2].of = "ifs" /\ Walks[3].of = "ifs" /\ Walks[4].of = "ifs"
      /\ Walks[5].of = "ports" /\ Walks[6].of = "lldp" /\ Walks[7].of = "addresses" /\ Walks[8].of = "cdp"
  BY DEF Walks
<1>4. /\ ToSet(Walks[1].columns) = {"name"} /\ ToSet(Walks[2].columns) = {"descr"}
      /\ ToSet(Walks[3].columns) = {"alias"} /\ ToSet(Walks[4].columns) = {"phys"}
      /\ ToSet(Walks[5].columns) = {"subtype", "id", "desc"}
      /\ ToSet(Walks[6].columns) = {"chassisSubtype", "chassis", "portSubtype", "port", "host"}
      /\ ToSet(Walks[7].columns) = {"addr"}
      /\ ToSet(Walks[8].columns) = {"addr", "host", "port"}
  <2>1. /\ Walks[1].columns = <<"name">> /\ Walks[2].columns = <<"descr">> /\ Walks[3].columns = <<"alias">>
        /\ Walks[4].columns = <<"phys">> /\ Walks[5].columns = PortColumns /\ Walks[6].columns = LldpColumns
        /\ Walks[7].columns = <<"addr">> /\ Walks[8].columns = CdpColumns
    BY DEF Walks
  <2> QED
    BY <2>1, ColumnSets
<1>5. ASSUME NEW t
      PROVE  Visited(t, n) =
               {c \in Columns : \/ t = "ifs" /\ c \in {"name", "descr", "alias", "phys"}
                                \/ t = "ports" /\ c \in {"subtype", "id", "desc"}
                                \/ t = "lldp" /\ c \in {"chassisSubtype", "chassis", "portSubtype", "port", "host"}
                                \/ t = "addresses" /\ c \in {"addr"}
                                \/ t = "cdp" /\ c \in {"addr", "host", "port"}}
  <2>1. ASSUME NEW c
        PROVE  (\E k \in 1 .. 8 : Walks[k].of = t /\ c \in ToSet(Walks[k].columns)) <=>
                 \/ t = "ifs" /\ c \in {"name", "descr", "alias", "phys"}
                 \/ t = "ports" /\ c \in {"subtype", "id", "desc"}
                 \/ t = "lldp" /\ c \in {"chassisSubtype", "chassis", "portSubtype", "port", "host"}
                 \/ t = "addresses" /\ c \in {"addr"}
                 \/ t = "cdp" /\ c \in {"addr", "host", "port"}
    BY <1>2, <1>3, <1>4
  <2> QED
    BY <1>1, <2>1
<1>6. Visited("ifs", n) = {"name", "descr", "alias", "phys"}
  BY <1>5 DEF Columns
<1>7. Visited("ports", n) = {"subtype", "id", "desc"}
  BY <1>5 DEF Columns
<1>8. Visited("lldp", n) = {"chassisSubtype", "chassis", "portSubtype", "port", "host"}
  BY <1>5 DEF Columns
<1>9. Visited("addresses", n) = {"addr"}
  BY <1>5 DEF Columns
<1>10. Visited("cdp", n) = {"addr", "host", "port"}
  BY <1>5 DEF Columns
<1> QED
  BY <1>6, <1>7, <1>8, <1>9, <1>10

\* Each table of a device is a list of rows.
LEMMA WorldHasLists ==
  ASSUME WorldAssumption, CollectedOK, NEW t \in Tables
  PROVE  world[t] \in Seq(ToSet(world[t]))
  BY DEF CollectedOK, WorldAssumption, Tables

\* At first nothing was visited, and nothing collected.
LEMMA CompleteInitInv ==
  ASSUME WorldAssumption, TopologyInit
  PROVE  CompleteInv
<1>1. TopologyInv
  BY TopologyInitInv
<1>2. losses \in Nat /\ next = 1 /\ \A t \in Tables : got[t] = <<>>
  BY DEF TopologyInit, Tables
<1>3. ListsOK
  <2>1. \A S : <<>> \in Seq(S)
    OBVIOUS
  <2> QED
    BY <1>2, <2>1, Zenon DEF ListsOK
<1>4. ASSUME NEW t \in Tables PROVE ToSet(got[t]) = CellsThere(world[t], Visited(t, next))
  <2>1. Visited(t, next) = {}
    BY <1>2 DEF Visited
  <2>2. CellsThere(world[t], Visited(t, next)) = {}
    BY <2>1 DEF CellsThere, CellsOf
  <2>3. ToSet(<<>>) = {}
    BY DEF ToSet
  <2> QED
    BY <1>2, <2>2, <2>3
<1>5. ~Drawn
  BY <1>2, NumberOfWalks DEF Drawn
<1> QED
  BY <1>1, <1>2, <1>3, <1>4, <1>5 DEF CompleteInv, WholeOK, TopologyIsComplete

\* What another walk brings joins what there is.
LEMMA WalkKeepsComplete ==
  ASSUME WorldAssumption, CompleteInv, WalkTable
  PROVE  CompleteInv'
<1> DEFINE w == Walks[next]
           all == Varbinds(world[w.of], w.columns)
<1>1. /\ TopologyInv /\ CollectedOK /\ DOMAIN got = Tables /\ losses \in Nat /\ ListsOK /\ WholeOK
      /\ next \in Nat \ {0}
  BY DEF CompleteInv, TopologyInv, CollectedOK
<1>2. next \in 1 .. 8 /\ next' = next + 1 /\ world' = world
  <2>1. next <= Len(Walks) /\ next' = next + 1 /\ world' = world
    BY DEF WalkTable
  <2> QED
    BY <1>1, <2>1, NumberOfWalks
<1>3. PICK n \in 0 .. Len(all) :
        /\ got' = [got EXCEPT ![w.of] = @ \o SubSeq(all, 1, n)]
        /\ losses' = IF n < Len(all) THEN losses + 1 ELSE losses
  BY DEF WalkTable
<1>4. TopologyInv'
  BY <1>1, WalkKeepsInv
<1>5. w.of \in Tables /\ w.columns \in Seq(Columns)
  BY <1>2, WalksAre
<1> DEFINE t == w.of
           columns == w.columns
<1> HIDE DEF w
<1>6. world[t] \in Seq(ToSet(world[t])) /\ got[t] \in Seq(CellsOf(ToSet(world[t]), Columns))
  BY <1>1, <1>5, WorldHasLists DEF ListsOK
<1>7. all \in Seq(CellsOf(ToSet(world[t]), Columns)) /\ ToSet(all) = CellsThere(world[t], ToSet(columns))
  BY <1>5, <1>6, VarbindsAreCells, VarbindsAreThere
<1> HIDE DEF all
<1>8. Len(all) \in Nat /\ SubSeq(all, 1, n) \in Seq(CellsOf(ToSet(world[t]), Columns))
  <2>1. Len(all) \in Nat /\ n \in 0 .. Len(all)
    BY <1>3, <1>7
  <2> QED
    BY <1>7, <2>1, SubSeqProperties
<1> HIDE DEF t, columns
<1>9. /\ got'[t] = got[t] \o SubSeq(all, 1, n)
      /\ \A s \in Tables : s # t => got'[s] = got[s]
  BY <1>1, <1>3, <1>5 DEF t
<1>10. ListsOK'
  <2>1. got'[t] \in Seq(CellsOf(ToSet(world[t]), Columns))
    BY <1>6, <1>8, <1>9, ConcatProperties
  <2> QED
    BY <1>1, <1>2, <1>9, <2>1 DEF ListsOK
<1>11. losses' \in Nat /\ (losses' = 0 => losses = 0 /\ n = Len(all))
  <2>1. losses \in Nat /\ n \in 0 .. Len(all)
    BY <1>1, <1>3
  <2> QED
    BY <1>3, <1>8, <2>1
<1>12. \A s \in Tables : s # t => Visited(s, next') = Visited(s, next)
  BY <1>2 DEF Visited, t, w
<1>13. Visited(t, next') = Visited(t, next) \cup ToSet(columns)
  <2>1. \A c \in ToSet(columns) : c \in Columns
    BY <1>5, IsOfSeq DEF columns
  <2>2. t = Walks[next].of /\ columns = Walks[next].columns
    BY DEF t, columns, w
  <2>3. \A k \in 1 .. 8 : k < next' <=> k < next \/ k = next
    BY <1>2
  <2> QED
    BY <1>2, <2>1, <2>2, <2>3 DEF Visited
<1>14. ASSUME losses' = 0, NEW s \in Tables
       PROVE  ToSet(got'[s]) = CellsThere(world[s], Visited(s, next'))
  <2>1. ToSet(got[s]) = CellsThere(world[s], Visited(s, next))
    BY <1>1, <1>11, <1>14 DEF WholeOK
  <2>2. CASE s # t
    BY <1>9, <1>12, <2>1, <2>2
  <2>3. CASE s = t
    <3>1. SubSeq(all, 1, n) = all
      <4>1. n = Len(all)
        BY <1>11, <1>14
      <4>2. \A x \in Seq(CellsOf(ToSet(world[t]), Columns)) : SubSeq(x, 1, Len(x)) = x
        OBVIOUS
      <4> QED
        BY <1>7, <4>1, <4>2 DEF t
    <3>2. ToSet(got'[s]) = ToSet(got[s]) \cup ToSet(all)
      <4>1. got[t] \in Seq(CellsOf(ToSet(world[t]), Columns)) /\ all \in Seq(CellsOf(ToSet(world[t]), Columns))
        BY <1>6, <1>7 DEF t
      <4>2. ToSet(got[t] \o all) = ToSet(got[t]) \cup ToSet(all)
        BY <4>1, OfBoth
      <4> QED
        BY <1>9, <2>3, <3>1, <4>2
    <3>3. ToSet(all) = CellsThere(world[s], ToSet(columns))
      BY <1>7, <2>3 DEF t, columns
    <3>4. CellsThere(world[s], Visited(s, next) \cup ToSet(columns))
            = CellsThere(world[s], Visited(s, next)) \cup CellsThere(world[s], ToSet(columns))
      BY DEF CellsThere, CellsOf
    <3> QED
      BY <1>13, <2>1, <2>3, <3>2, <3>3, <3>4
  <2> QED
    BY <2>2, <2>3
<1>15. WholeOK'
  BY <1>2, <1>14 DEF WholeOK
<1>16. ~Drawn'
  BY <1>2, NumberOfWalks DEF Drawn
<1> QED
  BY <1>4, <1>10, <1>11, <1>15, <1>16 DEF CompleteInv, TopologyIsComplete

\* What is drawn of a device that was collected whole is all of it.
LEMMA WholeIsDrawnWhole ==
  ASSUME TopologyAssumption, WorldAssumption, TopologyInv, ListsOK, GotWhole, Draw
  PROVE  WholeTablesAreTrue'
<1>1. world' = world /\ got' = got /\ CollectedOK
  BY DEF Draw, TopologyInv
<1>2. PICK edges, shown :
        /\ edges = Merged(Neighbors(got)) /\ DOMAIN shown = DOMAIN edges
        /\ \A i \in DOMAIN edges : IsShown(edges[i], shown[i], database')
        /\ ToSet(report'.edges) \subseteq ToSet(shown)
        /\ report'.hidden = 0 => report'.edges = shown
  BY ReportIs
<1>3. /\ \A p \in DOMAIN edges : IsOfRow(edges[p])
      /\ \A r \in ToSet(world.lldp) : \E p \in DOMAIN edges : LldpLeads(edges[p], r)
      /\ \A r \in ToSet(world.cdp) : \E p \in DOMAIN edges : CdpLeads(edges[p], r)
  BY <1>1, <1>2, WholeMerged
<1>4. ASSUME NEW i \in DOMAIN edges
      PROVE  /\ \A r : LldpLeads(edges[i], r) => LldpLeads(shown[i], r)
             /\ \A r : CdpLeads(edges[i], r) => CdpLeads(shown[i], r)
             /\ shown[i].index = edges[i].index /\ shown[i] \in ToSet(shown)
  <2>1. /\ shown[i].port = edges[i].port /\ shown[i].target = edges[i].target
        /\ shown[i].index = edges[i].index
    BY <1>2 DEF IsShown
  <2>2. shown[i] \in ToSet(shown)
    BY <1>2 DEF ToSet
  <2> QED
    BY <2>1, <2>2, LeadsToo
<1>5. ASSUME report'.hidden = 0
      PROVE  /\ \A r \in ToSet(world.lldp) : \E e \in ToSet(report'.edges) : LldpLeads(e, r)
             /\ \A r \in ToSet(world.cdp) : \E e \in ToSet(report'.edges) : CdpLeads(e, r)
  <2>1. ToSet(report'.edges) = ToSet(shown)
    BY <1>2, <1>5
  <2> QED
    BY <1>3, <1>4, <2>1
<1>6. ASSUME NEW e \in ToSet(report'.edges)
      PROVE  \/ e.index = NoIndex
             \/ \E r \in ToSet(world.lldp) : LldpLeads(e, r) /\ (IsRight(r.key[2]) => e.index = world.at[r.key[2]])
             \/ \E r \in ToSet(world.cdp) : CdpLeads(e, r) /\ r.key[1] = e.index
  <2>1. PICK i \in DOMAIN edges : e = shown[i]
    <3>1. e \in ToSet(shown) /\ DOMAIN shown = DOMAIN edges
      BY <1>2
    <3> QED
      BY <3>1 DEF ToSet
  <2>2. IsOfRow(edges[i]) /\ e.index = edges[i].index
    BY <1>3, <1>4, <2>1
  <2>3. CASE \E r \in ToSet(world.lldp) : IsOfLldp(edges[i], r)
    <3>1. PICK r \in ToSet(world.lldp) : IsOfLldp(edges[i], r)
      BY <2>3
    <3>2. LldpLeads(e, r)
      BY <1>4, <2>1, <3>1 DEF IsOfLldp
    <3> QED
      BY <2>2, <3>1, <3>2 DEF IsOfLldp
  <2>4. CASE \E r \in ToSet(world.cdp) : IsOfCdp(edges[i], r)
    <3>1. PICK r \in ToSet(world.cdp) : IsOfCdp(edges[i], r)
      BY <2>4
    <3>2. CdpLeads(e, r)
      BY <1>4, <2>1, <3>1 DEF IsOfCdp
    <3> QED
      BY <2>2, <3>1, <3>2 DEF IsOfCdp
  <2> QED
    BY <2>2, <2>3, <2>4 DEF IsOfRow
<1>7. ASSUME LldpIsComplete(got), NEW r \in ToSet(world.lldp), IsRight(r.key[2])
      PROVE  \E e \in ToSet(Neighbors(got)) : ToldByLldp(e, r) /\ LldpLeads(e, r) /\ e.index = world.at[r.key[2]]
  <2> DEFINE told == Neighbors(got)
  <2>1. told = Neighbors(got)
    OBVIOUS
  <2> HIDE DEF told
  <2>2. \A s \in ToSet(world.lldp) : \E i \in DOMAIN told :
          /\ ToldByLldp(told[i], s) /\ LldpLeads(told[i], s)
          /\ told[i].index = LocalIndex(Candidates(got, s.key[2]))
    BY <1>1, <2>1, WholeNeighbors
  <2>3. PICK i \in DOMAIN told :
          /\ ToldByLldp(told[i], r) /\ LldpLeads(told[i], r)
          /\ told[i].index = LocalIndex(Candidates(got, r.key[2]))
    BY <2>2
  <2>4. r.key \in Keys(got.lldp)
    <3>1. \E c \in {"chassisSubtype", "chassis", "portSubtype", "port", "host"} : r[c] # "none"
      BY <1>1 DEF CollectedOK, WorldAssumption, ToSet
    <3> QED
      BY <3>1, WholeKeys DEF GotWhole
  <2>5. LocalIndex(Candidates(got, r.key[2])) # NoIndex
    BY <1>7, <2>4 DEF LldpIsComplete, UnresolvedPorts
  <2>6. told[i].index = world.at[r.key[2]]
    BY <1>1, <1>7, <2>3, <2>5, RightIndex
  <2>7. told[i] \in ToSet(told)
    BY DEF ToSet
  <2> QED
    BY <2>1, <2>3, <2>6, <2>7
<1> QED
  BY <1>1, <1>5, <1>6, <1>7 DEF WholeTablesAreTrue, Edges, LldpLeads, CdpLeads, ToldByLldp, IsRight

\* The drawing of what was collected whole is complete.
LEMMA DrawKeepsComplete ==
  ASSUME TopologyAssumption, WorldAssumption, CompleteInv, Draw
  PROVE  CompleteInv'
<1>1. /\ next = 9 /\ next' = 10 /\ world' = world /\ got' = got /\ losses' = losses
      /\ TopologyInv /\ losses \in Nat /\ ListsOK /\ WholeOK
  BY NumberOfWalks DEF Draw, CompleteInv
<1>2. TopologyInv'
  BY <1>1, DrawKeepsInv
<1>3. ListsOK'
  BY <1>1 DEF ListsOK
<1>4. \A t \in Tables : Visited(t, next') = Visited(t, next)
  BY <1>1 DEF Visited
<1>5. WholeOK'
  BY <1>1, <1>4 DEF WholeOK
<1>6. ASSUME losses = 0 PROVE WholeTablesAreTrue'
  <2>1. \A t \in Tables : ToSet(got[t]) = CellsThere(world[t], Visited(t, next))
    BY <1>1, <1>6 DEF WholeOK
  <2>2. GotWhole
    BY <1>1, <2>1, AllIsVisited DEF GotWhole, Tables
  <2> QED
    BY <1>1, <2>2, WholeIsDrawnWhole
<1>7. WholeTablesAreTrue'
  <2>1. CASE losses = 0
    BY <1>6, <2>1
  <2>2. CASE losses # 0
    BY <1>1, <2>2 DEF WholeTablesAreTrue
  <2> QED
    BY <2>1, <2>2
<1> QED
  BY <1>1, <1>2, <1>3, <1>5, <1>7 DEF CompleteInv, TopologyIsComplete

\* Every step of a discovery keeps what is collected whole.
LEMMA CompleteStepInv ==
  ASSUME TopologyAssumption, WorldAssumption, CompleteInv, [TopologyNext]_topologyVars
  PROVE  CompleteInv'
<1>1. CASE UNCHANGED topologyVars
  <2>1. TopologyInv'
    BY <1>1, TopologyStepInv DEF CompleteInv
  <2>2. /\ world' = world /\ next' = next /\ got' = got /\ losses' = losses /\ report' = report
    BY <1>1 DEF topologyVars
  <2>3. losses' \in Nat /\ ListsOK' /\ WholeOK'
    BY <2>2 DEF CompleteInv, ListsOK, WholeOK
  <2>4. TopologyIsComplete'
    BY <2>2 DEF CompleteInv, TopologyIsComplete, Drawn, WholeTablesAreTrue, Edges, LldpLeads, CdpLeads,
                ToldByLldp, IsRight
  <2> QED
    BY <2>1, <2>3, <2>4 DEF CompleteInv
<1>2. CASE WalkTable
  BY <1>2, WalkKeepsComplete
<1>3. CASE Draw
  BY <1>3, DrawKeepsComplete
<1> QED
  BY <1>1, <1>2, <1>3 DEF TopologyNext

-----------------------------------------------------------------------------
\* What the polling loop and the diagnosis read, each with the answers it lost.
PolledOf(d, lost)    == Read(d, lost, PolledCpu(d, lost), Inventory(d, lost))
DiagnosedOf(d, lost) == Read(d, lost, DiagnosedCpu(d, lost), DiagnosedInventory(d, lost))
ReadingsInv ==
  /\ case \in Cases
  /\ polled = <<>> \/ \E lost \in LossSets : polled = <<PolledOf(case, lost)>>
  /\ \/ diagnosed = <<>>
     \/ /\ polled # <<>> /\ case.kind \in {"cpu", "memory", "hardware"}
        /\ \E lost \in LossSets : diagnosed = <<DiagnosedOf(case, lost)>>

\* Nothing is read at first; then what was read is what the operations choose.
LEMMA ReadingsInitInv == ReadingsInit => ReadingsInv
  BY DEF ReadingsInit, ReadingsInv

\* Every reading keeps that.
LEMMA ReadingsStepInv == ReadingsInv /\ [ReadingsNext]_readingVars => ReadingsInv'
<1> SUFFICES ASSUME ReadingsInv, [ReadingsNext]_readingVars PROVE ReadingsInv'
  OBVIOUS
<1>1. ASSUME NEW lost \in LossSets, Poll(lost) PROVE ReadingsInv'
  <2>1. diagnosed = <<>> /\ case' = case /\ diagnosed' = diagnosed
    BY <1>1 DEF Poll, ReadingsInv
  <2>2. polled' = <<PolledOf(case, lost)>>
    BY <1>1 DEF Poll, PolledOf
  <2> QED
    BY <2>1, <2>2 DEF ReadingsInv
<1>2. ASSUME NEW lost \in LossSets, Diagnose(lost) PROVE ReadingsInv'
  <2>1. case' = case /\ polled' = polled /\ polled # <<>> /\ case.kind \in {"cpu", "memory", "hardware"}
    BY <1>2 DEF Diagnose
  <2>2. diagnosed' = <<DiagnosedOf(case, lost)>>
    BY <1>2 DEF Diagnose, DiagnosedOf
  <2> QED
    BY <2>1, <2>2 DEF ReadingsInv
<1>3. CASE UNCHANGED readingVars
  BY <1>3 DEF readingVars, ReadingsInv
<1> QED
  BY <1>1, <1>2, <1>3 DEF ReadingsNext

\* A reading of a kind is of the values that the operations of that kind choose.
LEMMA ReadIs ==
  ASSUME NEW d, NEW lost, NEW cpu, NEW inventory
  PROVE  LET r == Read(d, lost, cpu, inventory)
         IN  /\ d.kind = "cpu" => r.lost = lost /\ r.value = cpu
             /\ d.kind = "memory" => r.lost = lost /\ r.value = MemoryUsage(d, lost) /\ r.bytes = MemoryBytes(d, lost)
             /\ d.kind = "hardware" => r.lost = lost /\ r.value = inventory
             /\ d.kind = "neighbors" => r.lost = lost /\ r.value = PortNeighbors(d, lost)
             /\ d.kind = "dom" => r.lost = lost /\ r.value = OpticalPower(d)
             /\ d.kind = "template" => r.lost = lost /\ r.value = Selected(Loaded(d.bundled, d.custom), d.oid)
  BY DEF Read

\* There is no place in the empty tuple.
LEMMA NoPlace == DOMAIN <<>> = {}
  OBVIOUS

\* Of a list of options, the first that is there is taken.
LEMMA FirstOfIs ==
  ASSUME NEW n \in Nat, NEW options, DOMAIN options = 1 .. n
  PROVE  \/ FirstOf(options) = {} /\ \A i \in 1 .. n : options[i] = {}
         \/ \E i \in 1 .. n : /\ FirstOf(options) = options[i] /\ options[i] # {}
                              /\ \A j \in 1 .. n : j < i => options[j] = {}
<1> DEFINE some == {i \in DOMAIN options : options[i] # {}}
<1>1. CASE some = {}
  BY <1>1 DEF FirstOf
<1>2. CASE some # {}
  <2>1. some \in SUBSET Nat
    OBVIOUS
  <2>2. PICK m : m = Earliest(some) /\ m \in some /\ \A q \in some : m <= q
    <3>1. \E m \in some : \A q \in some : m <= q
      BY <1>2, <2>1, FirstNumber
    <3> QED
      BY <3>1, Zenon DEF Earliest
  <2>3. FirstOf(options) = options[m] /\ options[m] # {} /\ m \in 1 .. n
    BY <1>2, <2>2 DEF FirstOf
  <2>4. ASSUME NEW j \in 1 .. n, j < m PROVE options[j] = {}
    <3>1. j \in some => m <= j
      BY <2>2
    <3>2. m \in Nat
      BY <2>1, <2>2
    <3> QED
      BY <2>4, <3>1, <3>2
  <2> QED
    BY <2>3, <2>4
<1> QED
  BY <1>1, <1>2

\* What a lookup or a column gives are integers, as many as there are.
LEMMA RowsAreIntegers ==
  ASSUME NEW d \in Cases, d.kind \in {"cpu", "memory"}, NEW lost, NEW o \in DOMAIN d.answers
  PROVE  /\ Got(d, lost, o) \subseteq Int
         /\ d.answers[o].column \in Seq(Int)
         /\ RowsGot(d, lost, o) \in Seq(Int)
<1>1. IsOptional(d.answers[o].scalar, Int) /\ d.answers[o].column \in Seq(Int)
  BY CaseAssumption
<1>2. Got(d, lost, o) \subseteq Int
  BY <1>1 DEF Got, IsOptional
<1>3. RowsGot(d, lost, o) \in Seq(Int)
  <2> DEFINE most == RowsRead(o \in lost.walks)
  <2>1. most \in Nat
    BY ReadingAssumption DEF RowsRead
  <2> HIDE DEF most
  <2>2. Len(d.answers[o].column) > most => SubSeq(d.answers[o].column, 1, most) \in Seq(Int)
    BY <1>1, <2>1
  <2> QED
    BY <1>1, <2>2 DEF RowsGot, most
<1> QED
  BY <1>1, <1>2, <1>3

\* An override is of numbers of 32 bits.
LEMMA OverrideIsNat ==
  ASSUME ReadingAssumption, NEW d \in Cases, d.kind \in {"cpu", "memory"}, NEW lost, NEW o \in DOMAIN d.answers
  PROVE  GotU32(d, lost, o) \subseteq Nat /\ WithTableFallback(d, lost, o) \subseteq Nat
<1>1. \A v \in Int : AsU32(v) \in Nat
  BY DEF ReadingAssumption, AsU32
<1>2. GotU32(d, lost, o) \subseteq Nat
  BY <1>1, RowsAreIntegers DEF GotU32
<1>3. RowsGot(d, lost, o) # <<>> => RowsGot(d, lost, o)[1] \in Int
  BY RowsAreIntegers
<1> QED
  BY <1>1, <1>2, <1>3 DEF WithTableFallback, OrElse

\* What a template takes for a percentage is one.
LEMMA TemplatePercentageIs ==
  ASSUME NEW d \in Cases, d.kind \in {"cpu", "memory"}, NEW lost, NEW o \in DOMAIN d.answers, NEW how
  PROVE  \A v \in TemplatePercentage(d, lost, o, how) : Percentage(v)
<1> DEFINE rows == d.answers[o].column
           shown == {i \in DOMAIN rows : Percentage(rows[i])}
           given == {rows[i] : i \in shown}
<1>1. rows \in Seq(Int)
  BY RowsAreIntegers
<1>2. ASSUME shown # {} PROVE rows[Earliest(shown)] \in 0 .. 100 /\ Greatest(given) \in 0 .. 100
  <2>1. shown \in SUBSET Nat
    BY <1>1
  <2>2. \E m \in shown : \A q \in shown : m <= q
    BY <1>2, <2>1, FirstNumber
  <2>3. Earliest(shown) \in shown
    BY <2>2, Zenon DEF Earliest
  <2>4. given \in SUBSET (0 .. 100) /\ given # {}
    BY <1>2 DEF Percentage
  <2>5. \E m \in given : \A q \in given : q <= m
    <3> HIDE DEF given
    <3> QED
      BY <2>4, LastNumber
  <2>6. Greatest(given) \in given
    BY <2>5, Zenon DEF Greatest
  <2> QED
    BY <2>3, <2>4, <2>6 DEF Percentage
<1> HIDE DEF given
<1>3. CASE Got(d, lost, o) # {}
  BY <1>3 DEF TemplatePercentage
<1>4. CASE Got(d, lost, o) = {} /\ (o \in lost.walks \/ shown = {})
  BY <1>4 DEF TemplatePercentage
<1>5. CASE Got(d, lost, o) = {} /\ ~(o \in lost.walks \/ shown = {})
  <2>1. TemplatePercentage(d, lost, o, how) = {IF how = "first" THEN rows[Earliest(shown)] ELSE Greatest(given)}
    BY <1>5 DEF TemplatePercentage, given
  <2> QED
    BY <1>2, <1>5, <2>1 DEF Percentage
<1> QED
  BY <1>3, <1>4, <1>5

-----------------------------------------------------------------------------
\* An average is one or none.
LEMMA AverageIsOne ==
  ASSUME NEW d, NEW lost, NEW o
  PROVE  TableAverage(d, lost, o) = {} \/ \E x : TableAverage(d, lost, o) = {x}
  BY DEF TableAverage

\* Polling and diagnosis agree on an override that answers or has no column.
LEMMA SameOverride ==
  ASSUME NEW d, NEW lost, NEW o, Got(d, lost, o) # {} \/ RowsGot(d, lost, o) = <<>>
  PROVE  WithTableFallback(d, lost, o) = GotU32(d, lost, o)
<1>1. CASE Got(d, lost, o) # {}
  <2>1. GotU32(d, lost, o) # {}
    BY <1>1 DEF GotU32
  <2> QED
    BY <2>1 DEF WithTableFallback, OrElse
<1>2. CASE RowsGot(d, lost, o) = <<>>
  BY <1>2 DEF WithTableFallback, OrElse
<1> QED
  BY <1>1, <1>2

\* With overrides that are no columns, the diagnosis chooses what the polling loop chooses, or
\* refuses a standard load above 100.
LEMMA DiagnosisExplains ==
  ASSUME NEW d, NEW lost, \A o \in d.override : Got(d, lost, o) # {} \/ RowsGot(d, lost, o) = <<>>
  PROVE  \/ DiagnosedCpu(d, lost) = PolledCpu(d, lost)
         \/ /\ PolledCpu(d, lost) = TableAverage(d, lost, d.standard)
            /\ \E v \in PolledCpu(d, lost) : ~Percentage(v)
<1> DEFINE A == {v \in UNION {GotU32(d, lost, o) : o \in d.override} : v <= 100}
           B == {v \in UNION {WithTableFallback(d, lost, o) : o \in d.override} : v <= 100}
           T == TemplateCpu(d, lost)
           S == TableAverage(d, lost, d.standard)
<1>1. A = B
  <2>1. {GotU32(d, lost, o) : o \in d.override} = {WithTableFallback(d, lost, o) : o \in d.override}
    BY SameOverride
  <2> QED
    BY <2>1
<1>2. /\ PolledCpu(d, lost) = OrElse(A, OrElse(T, S))
      /\ DiagnosedCpu(d, lost) = OrElse(B, OrElse(T, {v \in S : v <= 100}))
  BY DEF PolledCpu, DiagnosedCpu
<1> HIDE DEF A, B, T, S
<1>3. CASE \A v \in S : v <= 100
  <2>1. {v \in S : v <= 100} = S
    BY <1>3
  <2> QED
    BY <1>1, <1>2, <2>1
<1>4. CASE \E v \in S : ~(v <= 100)
  <2>1. \E v \in S : ~Percentage(v)
    <3>1. \A v \in 0 .. 100 : v <= 100
      OBVIOUS
    <3>2. PICK v \in S : ~(v <= 100)
      BY <1>4
    <3>3. ~(v \in 0 .. 100)
      BY <3>1, <3>2, Zenon
    <3> QED
      BY <3>2, <3>3 DEF Percentage
  <2>2. CASE A = {} /\ T = {}
    BY <1>2, <2>1, <2>2 DEF OrElse, S
  <2>3. CASE ~(A = {} /\ T = {})
    BY <1>1, <1>2, <2>3 DEF OrElse
  <2> QED
    BY <2>2, <2>3
<1> QED
  BY <1>3, <1>4

\* The load from a template is a percentage.
LEMMA TemplateCpuIs ==
  ASSUME NEW d \in Cases, d.kind = "cpu", NEW lost
  PROVE  \A v \in TemplateCpu(d, lost) : Percentage(v)
<1> DEFINE options == [i \in DOMAIN d.candidates |-> TemplatePercentage(d, lost, d.candidates[i], d.aggregation)]
<1>1. d.candidates \in Seq(DOMAIN d.answers)
  BY CaseAssumption
<1>2. Len(d.candidates) \in Nat /\ DOMAIN d.candidates = 1 .. Len(d.candidates)
  BY <1>1
<1>3. \A i \in DOMAIN options : \A v \in options[i] : Percentage(v)
  BY <1>1, TemplatePercentageIs
<1>4. DOMAIN options = 1 .. Len(d.candidates)
  BY <1>2
<1>5. TemplateCpu(d, lost) = FirstOf(options)
  BY DEF TemplateCpu
<1> HIDE DEF options
<1>6. FirstOf(options) = {} \/ \E i \in 1 .. Len(d.candidates) : FirstOf(options) = options[i]
  BY <1>2, <1>4, FirstOfIs
<1> QED
  BY <1>3, <1>4, <1>5, <1>6

\* The CPU load shown is a percentage, or the average of the standard column.
LEMMA CpuIsInRange ==
  ASSUME ReadingAssumption, NEW d \in Cases, d.kind = "cpu", NEW lost
  PROVE  /\ \A v \in PolledCpu(d, lost) :
              Percentage(v) \/ PolledCpu(d, lost) = TableAverage(d, lost, d.standard)
         /\ \A v \in DiagnosedCpu(d, lost) :
              Percentage(v) \/ DiagnosedCpu(d, lost) = TableAverage(d, lost, d.standard)
<1> DEFINE A == {v \in UNION {GotU32(d, lost, o) : o \in d.override} : v <= 100}
           B == {v \in UNION {WithTableFallback(d, lost, o) : o \in d.override} : v <= 100}
           T == TemplateCpu(d, lost)
           S == TableAverage(d, lost, d.standard)
           L == {v \in S : v <= 100}
<1>1. \A v \in A \cup B : Percentage(v)
  <2>1. d.override \subseteq DOMAIN d.answers
    BY CaseAssumption
  <2>2. \A o \in d.override : GotU32(d, lost, o) \subseteq Nat /\ WithTableFallback(d, lost, o) \subseteq Nat
    BY <2>1, OverrideIsNat
  <2>3. \A v \in Nat : v <= 100 => Percentage(v)
    BY DEF Percentage
  <2> QED
    BY <2>2, <2>3
<1>2. \A v \in T : Percentage(v)
  BY TemplateCpuIs
<1>3. L = {} \/ L = S
  BY AverageIsOne
<1>4. PolledCpu(d, lost) = OrElse(A, OrElse(T, S)) /\ DiagnosedCpu(d, lost) = OrElse(B, OrElse(T, L))
  BY DEF PolledCpu, DiagnosedCpu
<1> HIDE DEF A, B, T, L
<1> QED
  BY <1>1, <1>2, <1>3, <1>4 DEF OrElse

-----------------------------------------------------------------------------
\* Of some places, one has the largest number, and is the last of those that do.
LEMMA LargestPlace ==
  ASSUME NEW N \in Nat, NEW P \in SUBSET (0 .. N), P # {}, NEW c \in [P -> Nat]
  PROVE  \E m \in P : \A j \in P : c[j] < c[m] \/ (c[j] = c[m] /\ j <= m)
<1> DEFINE IsLargest(Q, m) == m \in Q /\ \A j \in Q : c[j] < c[m] \/ (c[j] = c[m] /\ j <= m)
           Fails(k) == \E Q \in SUBSET P : Q # {} /\ Q \subseteq 0 .. k /\ ~\E m \in Q : IsLargest(Q, m)
           F == {k \in Nat : Fails(k)}
<1>1. ASSUME F # {} PROVE FALSE
  <2>1. PICK k \in F : \A q \in F : k <= q
    <3>1. F \in SUBSET Nat
      OBVIOUS
    <3> HIDE DEF F
    <3> QED
      BY <1>1, <3>1, FirstNumber
  <2>2. PICK Q \in SUBSET P : Q # {} /\ Q \subseteq 0 .. k /\ ~\E m \in Q : IsLargest(Q, m)
    OBVIOUS
  <2>3. k \in Nat
    OBVIOUS
  <2>4. k \in Q
    <3>1. ASSUME k \notin Q PROVE FALSE
      <4>1. \A q \in Q : q \in 0 .. k - 1
        BY <2>2, <2>3, <3>1
      <4>2. k - 1 \in Nat
        <5>1. PICK q \in Q : TRUE
          BY <2>2
        <5>2. q \in 0 .. k - 1
          BY <4>1
        <5> HIDE DEF F
        <5> QED
          BY <2>3, <5>2
      <4>3. k - 1 \in F
        BY <2>2, <4>1, <4>2
      <4> HIDE DEF F
      <4> QED
        BY <2>1, <2>3, <4>3
    <3> QED
      BY <3>1
  <2> DEFINE R == Q \ {k}
  <2>5. CASE R = {}
    <3>1. Q = {k}
      BY <2>4, <2>5
    <3>2. IsLargest(Q, k)
      BY <2>3, <3>1
    <3> QED
      BY <2>2, <2>4, <3>2
  <2>6. CASE R # {}
    <3>1. \A q \in R : q \in 0 .. k - 1
      BY <2>2, <2>3
    <3>2. k - 1 \in Nat
      <4>1. PICK q \in R : TRUE
        BY <2>6
      <4>2. q \in 0 .. k - 1
        BY <3>1
      <4> HIDE DEF F, R
      <4> QED
        BY <2>3, <4>2
    <3>3. k - 1 \notin F
      <4> HIDE DEF F
      <4> QED
        BY <2>1, <2>3, <3>2
    <3>4. R \in SUBSET P /\ R \subseteq 0 .. k - 1
      BY <3>1
    <3>5. PICK m \in R : IsLargest(R, m)
      <4> HIDE DEF R, IsLargest
      <4> QED
        BY <2>6, <3>2, <3>3, <3>4
    <3>6. \A j \in Q : c[j] \in Nat /\ j \in Nat
      BY <2>2
    <3>7. m < k /\ m \in Q /\ \A j \in Q : j \in R \/ j = k
      BY <3>1
    <3>8. CASE c[m] > c[k]
      <4>1. IsLargest(Q, m)
        BY <3>5, <3>6, <3>7, <3>8
      <4> QED
        BY <2>2, <3>7, <4>1
    <3>9. CASE ~(c[m] > c[k])
      <4>1. IsLargest(Q, k)
        BY <2>4, <3>5, <3>6, <3>7, <3>9
      <4> QED
        BY <2>2, <2>4, <4>1
    <3> QED
      BY <3>8, <3>9
  <2> QED
    BY <2>5, <2>6
<1>2. ~Fails(N)
  BY <1>1
<1> QED
  BY <1>2

\* A column of a source is of natural numbers, in places of which there is a last one.
IsMeasured(f) == (\A i \in DOMAIN f : f[i] \in Nat) /\ \E N \in Nat : DOMAIN f \subseteq 0 .. N

\* The rows of a column that are not negative are such a column.
LEMMA NotNegative ==
  ASSUME NEW rows \in Seq(Int)
  PROVE  IsMeasured([i \in {i \in DOMAIN rows : rows[i] >= 0} |-> rows[i]])
<1> DEFINE kept == {i \in DOMAIN rows : rows[i] >= 0}
           f == [i \in kept |-> rows[i]]
<1>1. Len(rows) \in Nat /\ kept \subseteq 0 .. Len(rows)
  OBVIOUS
<1>2. DOMAIN f = kept /\ \A i \in kept : f[i] \in Nat
  OBVIOUS
<1> HIDE DEF kept, f
<1>3. IsMeasured(f)
  BY <1>1, <1>2 DEF IsMeasured
<1> QED
  BY <1>3 DEF f, kept

\* A single number is one, of one row.
LEMMA OneNumber ==
  ASSUME NEW answer, IsOptional(answer, Int)
  PROVE  IsMeasured([i \in {0 : v \in {v \in answer : v >= 0}} |-> The(answer)])
<1> DEFINE some == {0 : v \in {v \in answer : v >= 0}}
           f == [i \in some |-> The(answer)]
<1>1. some \subseteq 0 .. 0
  <2>1. \A i \in some : i = 0
    BY Zenon
  <2> HIDE DEF some
  <2> QED
    BY <2>1
<1>2. ASSUME NEW i \in some PROVE The(answer) \in Nat
  <2>1. PICK v \in answer : v >= 0
    BY <1>2, Zenon
  <2>2. The(answer) \in answer
    BY <2>1, Zenon DEF The
  <2>3. v = The(answer) /\ v \in Int
    BY <2>2 DEF IsOptional
  <2> QED
    BY <2>1, <2>3
<1>3. DOMAIN f = some /\ \A i \in some : f[i] = The(answer)
  BY Zenon
<1> HIDE DEF some, f
<1>4. IsMeasured(f)
  BY <1>1, <1>2, <1>3 DEF IsMeasured
<1> QED
  BY <1>4, Zenon DEF f, some

\* So a column of a source is of natural numbers, however it is read.
LEMMA SourceColumnIs ==
  ASSUME NEW d \in Cases, d.kind = "memory", NEW lost, NEW o \in DOMAIN d.answers \cup {""}
  PROVE  IsMeasured(SourceColumn(d, lost, o))
<1>1. CASE o = ""
  <2>1. SourceColumn(d, lost, o) = <<>>
    BY <1>1 DEF SourceColumn
  <2>2. DOMAIN SourceColumn(d, lost, o) = {}
    BY <2>1, NoPlace
  <2>3. {} \subseteq 0 .. 0 /\ 0 \in Nat
    OBVIOUS
  <2> QED
    BY <2>2, <2>3 DEF IsMeasured
<1>2. CASE o # "" /\ Got(d, lost, o) # {}
  <2>1. IsOptional(Got(d, lost, o), Int)
    BY <1>2, CaseAssumption DEF Got, IsOptional
  <2>2. SourceColumn(d, lost, o) = [i \in {0 : v \in {v \in Got(d, lost, o) : v >= 0}} |-> The(Got(d, lost, o))]
    BY <1>2, Zenon DEF SourceColumn
  <2> QED
    BY <2>1, <2>2, OneNumber, Zenon
<1>3. CASE o # "" /\ Got(d, lost, o) = {}
  <2>1. d.answers[o].column \in Seq(Int)
    BY <1>3, RowsAreIntegers
  <2>2. SourceColumn(d, lost, o) = [i \in {i \in DOMAIN d.answers[o].column : d.answers[o].column[i] >= 0} |-> d.answers[o].column[i]]
    BY <1>3, Zenon DEF SourceColumn
  <2> QED
    BY <2>1, <2>2, NotNegative, Zenon
<1> QED
  BY <1>1, <1>2, <1>3

\* Rounding keeps a share below the whole below a hundred.
LEMMA RoundedIs ==
  ASSUME NEW c \in Nat \ {0}, NEW u \in Nat
  PROVE  Rounded(u, c) \in Nat /\ (u <= c => Rounded(u, c) \in 0 .. 100)
<1> DEFINE x == 200 * u + c
           m == 2 * c
<1>1. m \in Nat \ {0} /\ x \in Nat
  OBVIOUS
<1>2. Rounded(u, c) = x \div m
  BY DEF Rounded
<1>3. u <= c => x \in 0 .. m * 101 - 1
  OBVIOUS
<1> HIDE DEF x, m
<1>4. x \div m \in Nat
  BY <1>1
<1>5. x \in 0 .. m * 101 - 1 => x \div m \in 0 .. 101 - 1
  BY <1>1, Quotient
<1> QED
  BY <1>2, <1>3, <1>4, <1>5

\* A source is read as percentages; it has bytes if it computes with them, and no reading
\* when there is nothing to compute with.
LEMMA SourceIs ==
  ASSUME NEW d \in Cases, d.kind = "memory", NEW lost, NEW s \in ToSet(d.sources)
  PROVE  /\ \A r \in SourceReading(d, lost, s) : Percentage(r.percent)
         /\ s.mode = "direct" => \A r \in SourceReading(d, lost, s) : r.bytes = {}
         /\ s.mode # "direct" /\ s.bytes => \A r \in SourceReading(d, lost, s) : r.bytes # {}
         /\ s.mode # "direct" /\ s.used = "" => SourceReading(d, lost, s) = {}
<1> DEFINE used  == SourceColumn(d, lost, s.used)
           free  == SourceColumn(d, lost, s.free)
           total == SourceColumn(d, lost, s.total)
           capacity(i) == IF i \in DOMAIN free THEN used[i] + free[i]
                          ELSE IF i \in DOMAIN total THEN total[i] ELSE 0
           fit == {i \in DOMAIN used : capacity(i) > 0 /\ used[i] <= capacity(i)}
           row == CHOOSE i \in fit : \A j \in fit : capacity(j) < capacity(i) \/ (capacity(j) = capacity(i) /\ j <= i)
           reading == [percent |-> Rounded(used[row], capacity(row)), row |-> row,
                       bytes |-> IF s.bytes THEN {used[row]} ELSE {}]
<1>1. {s.used, s.free, s.total} \subseteq DOMAIN d.answers \cup {""} /\ (s.mode = "direct" => s.oid \in DOMAIN d.answers)
  BY CaseAssumption
<1>2. CASE s.mode = "direct"
  <2>1. SourceReading(d, lost, s) = {[percent |-> v, bytes |-> {}, row |-> 0] :
                                       v \in TemplatePercentage(d, lost, s.oid, s.aggregation)}
    BY <1>2 DEF SourceReading
  <2>2. \A v \in TemplatePercentage(d, lost, s.oid, s.aggregation) : Percentage(v)
    BY <1>1, <1>2, TemplatePercentageIs
  <2> QED
    BY <1>2, <2>1, <2>2
<1>3. CASE s.mode # "direct" /\ (SourceFails(d, lost, s) \/ fit = {})
  <2>1. SourceReading(d, lost, s) = {}
    BY <1>3 DEF SourceReading
  <2> QED
    BY <1>3, <2>1
<1>4. CASE s.mode # "direct" /\ ~(SourceFails(d, lost, s) \/ fit = {})
  <2>1. SourceReading(d, lost, s) = {reading}
    BY <1>4 DEF SourceReading
  <2>2. IsMeasured(used) /\ IsMeasured(free) /\ IsMeasured(total)
    BY <1>1, SourceColumnIs
  <2>3. s.used # ""
    <3>1. ASSUME s.used = "" PROVE FALSE
      <4>1. DOMAIN used = {}
        BY <3>1, NoPlace DEF SourceColumn
      <4> QED
        BY <1>4, <4>1
    <3> QED
      BY <3>1
  <2> HIDE DEF used, free, total
  <2>4. \A i \in DOMAIN used : used[i] \in Nat /\ capacity(i) \in Nat
    BY <2>2 DEF IsMeasured
  <2>5. row \in fit
    <3> DEFINE c == [i \in fit |-> capacity(i)]
    <3>1. PICK N \in Nat : DOMAIN used \subseteq 0 .. N
      BY <2>2 DEF IsMeasured
    <3>2. fit \in SUBSET (0 .. N) /\ fit # {} /\ fit \subseteq DOMAIN used
      BY <1>4, <3>1
    <3>3. c \in [fit -> Nat]
      BY <2>4, <3>2
    <3>4. \E m \in fit : \A j \in fit : c[j] < c[m] \/ (c[j] = c[m] /\ j <= m)
      <4> HIDE DEF fit, c
      <4> QED
        BY <3>2, <3>3, LargestPlace
    <3>5. \A i \in fit : c[i] = capacity(i)
      OBVIOUS
    <3>6. \E m \in fit : \A j \in fit : capacity(j) < capacity(m) \/ (capacity(j) = capacity(m) /\ j <= m)
      <4> HIDE DEF fit, c, capacity
      <4> QED
        BY <3>4, <3>5
    <3> HIDE DEF fit, c, capacity
    <3> QED
      BY <3>6, Zenon
  <2>6. row \in DOMAIN used /\ capacity(row) > 0 /\ used[row] <= capacity(row)
    <3> HIDE DEF row, capacity
    <3> QED
      BY <2>5
  <2>7. Rounded(used[row], capacity(row)) \in 0 .. 100
    <3> HIDE DEF row, capacity
    <3>1. used[row] \in Nat /\ capacity(row) \in Nat \ {0}
      BY <2>4, <2>6
    <3> QED
      BY <2>6, <3>1, RoundedIs
  <2>8. Percentage(reading.percent) /\ (s.bytes => reading.bytes # {})
    <3> HIDE DEF row, capacity
    <3> QED
      BY <2>7 DEF Percentage
  <2> HIDE DEF reading
  <2> QED
    BY <1>4, <2>1, <2>3, <2>8
<1> QED
  BY <1>2, <1>3, <1>4

\* A value is kept with the place it is from.
LEMMA FromIs ==
  ASSUME NEW value, NEW where
  PROVE  \A u \in From(value, where) : u.value \in value /\ u.from = where
  BY DEF From

\* The first of the rows that are seen is one of them.
LEMMA LeastIs ==
  ASSUME NEW S \in SUBSET Nat, S # {}
  PROVE  Least(S) \in S /\ \A q \in S : Least(S) <= q
<1>1. \E m \in S : \A q \in S : m <= q
  BY FirstNumber
<1> QED
  BY <1>1, Zenon DEF Least

\* The rows of RAM are rows of a table whose cells are natural numbers or missing.
LEMMA RamRowsAre ==
  ASSUME NEW d \in Cases, d.kind = "memory"
  PROVE  /\ RamRows(d) \in SUBSET Nat
         /\ \A i \in RamRows(d), column \in {"units", "size", "used"} : IsOptional(d.storage[i][column], Nat)
<1>1. IsList(d.storage) /\ \A row \in ToSet(d.storage) : \A column \in {"units", "size", "used"} :
        IsOptional(row[column], Nat)
  BY CaseAssumption
<1>2. d.storage \in Seq(ToSet(d.storage))
  BY <1>1 DEF IsList
<1>3. RamRows(d) \subseteq DOMAIN d.storage /\ DOMAIN d.storage \subseteq Nat
  BY <1>2 DEF RamRows
<1>4. \A i \in RamRows(d) : d.storage[i] \in ToSet(d.storage)
  BY <1>3 DEF ToSet
<1> QED
  BY <1>1, <1>3, <1>4

\* An optional value that is there is the only one.
LEMMA OptionIs ==
  ASSUME NEW a, NEW S, IsOptional(a, S), a # {}
  PROVE  The(a) \in S /\ \A v \in a : v = The(a)
<1>1. The(a) \in a
  BY Zenon DEF The
<1> QED
  BY <1>1 DEF IsOptional

\* The storage table, if it is read, gives a percentage of its first row of RAM.
LEMMA StorageUsageIs ==
  ASSUME NEW d \in Cases, d.kind = "memory", NEW lost, StorageUsage(d, lost) # {}
  PROVE  LET seen == {i \in RamRows(d) : i <= RowsRead("types" \in lost.walks)}
             row == Least(seen)
         IN  /\ seen # {} /\ row \in seen
             /\ \A u \in StorageUsage(d, lost) : Percentage(u.value) /\ u.from = <<"storage", row>>
             /\ Walked(d, lost, row, "units") # {} => The(Walked(d, lost, row, "units")) > 0
<1> DEFINE seen == {i \in RamRows(d) : i <= RowsRead("types" \in lost.walks)}
           row  == Least(seen)
           cell(column) == Walked(d, lost, row, column)
           units == IF cell("units") = {} THEN 1 ELSE The(cell("units"))
           util == Rounded(The(cell("used")) * units, The(cell("size")) * units)
<1>1. seen # {} /\ cell("used") # {} /\ cell("size") # {} /\ The(cell("size")) * units # 0
  BY DEF StorageUsage
<1>2. StorageUsage(d, lost) = From({IF util > 100 THEN 100 ELSE util}, <<"storage", row>>)
  BY <1>1 DEF StorageUsage
<1>3. row \in RamRows(d) /\ row \in seen
  <2>1. seen \in SUBSET Nat /\ seen \subseteq RamRows(d)
    BY RamRowsAre
  <2> HIDE DEF seen
  <2> QED
    BY <1>1, <2>1, LeastIs
<1> HIDE DEF row, seen
<1>4. \A column \in {"units", "size", "used"} : IsOptional(cell(column), Nat)
  BY <1>3, RamRowsAre DEF Walked, IsOptional
<1>5. \A column \in {"units", "size", "used"} : cell(column) # {} => The(cell(column)) \in Nat
  <2> HIDE DEF cell
  <2> QED
    BY <1>4, OptionIs
<1>6. units \in Nat /\ The(cell("used")) \in Nat /\ The(cell("size")) \in Nat
  <2> HIDE DEF cell
  <2> QED
    BY <1>1, <1>5
<1> DEFINE u == The(cell("used"))
           s == The(cell("size"))
<1>7. u * units \in Nat /\ s * units \in Nat \ {0} /\ units # 0
  <2> HIDE DEF cell, units, u, s
  <2>1. units \in Nat /\ u \in Nat /\ s \in Nat /\ s * units # 0
    BY <1>1, <1>6 DEF u, s
  <2>2. units # 0
    <3>1. ASSUME units = 0 PROVE FALSE
      <4>1. s * units = s * 0 /\ s * 0 = 0
        BY <2>1, <3>1
      <4> QED
        BY <2>1, <4>1
    <3> QED
      BY <3>1
  <2> QED
    BY <2>1, <2>2
<1>8. util \in Nat
  <2> HIDE DEF cell, units, u, s
  <2>1. Rounded(u * units, s * units) \in Nat
    BY <1>7, RoundedIs
  <2> QED
    BY <2>1 DEF u, s
<1>9. ASSUME NEW w \in StorageUsage(d, lost)
      PROVE  Percentage(w.value) /\ w.from = <<"storage", row>>
  <2> HIDE DEF util, cell, units, u, s
  <2>1. w.value = (IF util > 100 THEN 100 ELSE util) /\ w.from = <<"storage", row>>
    BY <1>2, <1>9, FromIs
  <2> QED
    BY <1>8, <2>1 DEF Percentage
<1>10. cell("units") # {} => The(cell("units")) > 0
  <2> HIDE DEF cell
  <2> QED
    BY <1>6, <1>7
<1> QED
  BY <1>1, <1>3, <1>9, <1>10 DEF row, seen

\* A value that is there is one from its place.
LEMMA FromOne ==
  ASSUME NEW a, NEW x \in a, NEW where
  PROVE  \E b \in From(a, where) : b.from = where
<1>1. [value |-> x, from |-> where] \in From(a, where)
  BY DEF From
<1>2. [value |-> x, from |-> where].from = where
  OBVIOUS
<1> QED
  BY <1>1, <1>2, Zenon

\* The sources of a template are a list.
LEMMA SourcesAre ==
  ASSUME NEW d \in Cases, d.kind = "memory"
  PROVE  /\ Len(d.sources) \in Nat /\ DOMAIN d.sources = 1 .. Len(d.sources)
         /\ \A k \in DOMAIN d.sources : d.sources[k] \in ToSet(d.sources)
<1>1. d.sources \in Seq(ToSet(d.sources))
  BY CaseAssumption DEF IsList
<1> QED
  BY <1>1 DEF ToSet

\* The memory shown is a percentage.
LEMMA MemoryIsInRange ==
  ASSUME ReadingAssumption, NEW d \in Cases, d.kind = "memory", NEW lost
  PROVE  \A u \in MemoryUsage(d, lost) : Percentage(u.value)
<1> DEFINE override == {v \in UNION {WithTableFallback(d, lost, o) : o \in d.override} : v <= 100}
           source(k) == UNION {From({r.percent}, <<"source", k, r.row>>) :
                                 r \in SourceReading(d, lost, d.sources[k])}
           tried(k)  == d.sources[k].mode # "" \/ d.sources[k].used # ""
           options == [k \in DOMAIN d.sources |-> IF tried(k) THEN source(k) ELSE {}]
<1>1. MemoryUsage(d, lost) = OrElse(From(override, <<"override">>), OrElse(FirstOf(options), StorageUsage(d, lost)))
  BY DEF MemoryUsage
<1>2. \A u \in From(override, <<"override">>) : Percentage(u.value)
  <2>1. d.override \subseteq DOMAIN d.answers
    BY CaseAssumption
  <2>2. \A o \in d.override : WithTableFallback(d, lost, o) \subseteq Nat
    BY <2>1, OverrideIsNat
  <2>3. \A v \in Nat : v <= 100 => Percentage(v)
    BY DEF Percentage
  <2>4. \A v \in override : Percentage(v)
    BY <2>2, <2>3
  <2> HIDE DEF override
  <2> QED
    BY <2>4, FromIs
<1>3. Len(d.sources) \in Nat /\ DOMAIN options = 1 .. Len(d.sources) /\ DOMAIN d.sources = 1 .. Len(d.sources)
  BY SourcesAre
<1>4. ASSUME NEW k \in 1 .. Len(d.sources), NEW u \in options[k] PROVE Percentage(u.value)
  <2>1. u \in source(k)
    BY <1>3, <1>4
  <2>2. PICK r \in SourceReading(d, lost, d.sources[k]) : u \in From({r.percent}, <<"source", k, r.row>>)
    BY <2>1
  <2> HIDE DEF options, override, source
  <2>3. u.value \in {r.percent}
    BY <2>2, FromIs, Zenon
  <2>4. d.sources[k] \in ToSet(d.sources)
    BY <1>3, SourcesAre
  <2>5. Percentage(r.percent)
    BY <2>4, SourceIs
  <2> QED
    BY <2>3, <2>5
<1>5. \A u \in FirstOf(options) : Percentage(u.value)
  <2> HIDE DEF options
  <2>1. FirstOf(options) = {} \/ \E k \in 1 .. Len(d.sources) : FirstOf(options) = options[k]
    BY <1>3, FirstOfIs
  <2> QED
    BY <1>4, <2>1
<1>6. \A u \in StorageUsage(d, lost) : Percentage(u.value)
  BY StorageUsageIs
<1> HIDE DEF override, options
<1> QED
  BY <1>1, <1>2, <1>5, <1>6 DEF OrElse

\* A storage table of whole rows has its bytes in the row that has its percentage.
LEMMA StorageBytesAre ==
  ASSUME NEW d \in Cases, d.kind = "memory", NEW lost, lost.gets \cup lost.walks = {},
         \A i \in RamRows(d) : {} \notin {d.storage[i].units, d.storage[i].size, d.storage[i].used},
         NEW u \in StorageUsage(d, lost)
  PROVE  \E b \in StorageBytes(d, lost) : b.from = u.from
<1> DEFINE seen == {i \in RamRows(d) : i <= RowsRead("types" \in lost.walks)}
           whole == {i \in RamRows(d) :
                       /\ i <= RowsRead("types" \in lost.walks)
                       /\ \E v \in Fetched(d, lost, i, "units") : v > 0
                       /\ Fetched(d, lost, i, "used") # {}}
           row == Least(seen)
<1>1. lost.gets = {} /\ lost.walks = {}
  OBVIOUS
<1>2. seen # {} /\ row \in seen /\ u.from = <<"storage", row>>
      /\ (Walked(d, lost, row, "units") # {} => The(Walked(d, lost, row, "units")) > 0)
  BY StorageUsageIs
<1>3. \A i \in RamRows(d) : /\ Fetched(d, lost, i, "units") = d.storage[i].units
                            /\ Fetched(d, lost, i, "used") = d.storage[i].used
  BY <1>1 DEF Fetched
<1>w. Walked(d, lost, row, "units") = d.storage[row].units
  <2>1. ("types" \in lost.walks) = FALSE /\ ("units" \in lost.walks) = FALSE
    BY <1>1
  <2>2. MaxRows \in Int /\ row \in RamRows(d) /\ row <= MaxRows
    <3> HIDE DEF row
    <3>1. row \in RamRows(d) /\ row <= RowsRead("types" \in lost.walks)
      BY <1>2
    <3>2. RowsRead("types" \in lost.walks) = MaxRows
      BY <2>1 DEF RowsRead
    <3> QED
      BY <3>1, <3>2, ReadingAssumption
  <2>3. row \in Int
    BY <2>2, RamRowsAre
  <2>4. RowsRead("units" \in lost.walks) = MaxRows /\ ~(row > MaxRows)
    <3>1. \A x, y \in Int : x <= y => ~(x > y)
      OBVIOUS
    <3>2. ~(row > MaxRows)
      BY <2>2, <2>3, <3>1
    <3> QED
      BY <2>1, <3>2 DEF RowsRead
  <2> HIDE DEF row
  <2> QED
    BY <2>4 DEF Walked
<1>4. row \in whole
  <2>1. d.storage[row].units # {} /\ d.storage[row].used # {}
    BY <1>2
  <2>2. The(d.storage[row].units) \in d.storage[row].units
    BY <2>1, Zenon DEF The
  <2> HIDE DEF row
  <2> QED
    BY <1>2, <1>3, <1>w, <2>1, <2>2
<1>5. seen \in SUBSET Nat /\ whole \subseteq seen
  BY RamRowsAre
<1>6. \A q \in seen : row <= q
  BY <1>2, <1>5, LeastIs
<1>7. Least(whole) = row
  <2>1. Least(whole) \in whole /\ \A q \in whole : Least(whole) <= q
    <3> HIDE DEF whole, row
    <3> QED
      BY <1>4, <1>5, LeastIs
  <2> HIDE DEF whole, row
  <2>2. PICK w : w = Least(whole)
    OBVIOUS
  <2>3. w <= row /\ row <= w /\ w \in Nat /\ row \in Nat
    BY <1>4, <1>5, <1>6, <2>1, <2>2
  <2> QED
    BY <2>2, <2>3
<1>8. StorageBytes(d, lost) = From({The(d.storage[row].units) * The(d.storage[row].used)}, <<"storage", row>>)
  <2>1. StorageBytes(d, lost) = From({The(d.storage[Least(whole)].units) * The(d.storage[Least(whole)].used)}, <<"storage", Least(whole)>>)
    BY <1>4 DEF StorageBytes
  <2> HIDE DEF whole, row
  <2> QED
    BY <1>7, <2>1
<1> HIDE DEF row, seen, whole
<1>9. \E b \in StorageBytes(d, lost) : b.from = <<"storage", row>>
  BY <1>8, FromOne
<1> QED
  BY <1>2, <1>9

\* The memory that is shown in percent is that of the row the bytes are of, if it is
\* computed from bytes.
LEMMA MemoryRowIsOne ==
  ASSUME NEW d \in Cases, d.kind = "memory", NEW lost, lost.gets \cup lost.walks = {}, d.override = {},
         \A i \in RamRows(d) : {} \notin {d.storage[i].units, d.storage[i].size, d.storage[i].used},
         NEW u \in MemoryUsage(d, lost)
  PROVE  \/ u.from[1] = "source" /\ \E k \in DOMAIN d.sources :
              u.from[2] = k /\ (d.sources[k].mode = "direct" \/ ~d.sources[k].bytes)
         \/ \E b \in MemoryBytes(d, lost) : b.from = u.from
<1> DEFINE reading(k) == SourceReading(d, lost, d.sources[k])
           percents(k) == UNION {From({r.percent}, <<"source", k, r.row>>) : r \in reading(k)}
           bytes(k)    == UNION {From(r.bytes, <<"source", k, r.row>>) : r \in reading(k)}
           tried(k)    == d.sources[k].mode # "" \/ d.sources[k].used # ""
           options     == [k \in DOMAIN d.sources |-> IF tried(k) THEN percents(k) ELSE {}]
           counted     == [k \in DOMAIN d.sources |-> IF d.sources[k].bytes THEN bytes(k) ELSE {}]
           N           == Len(d.sources)
<1>1. /\ MemoryUsage(d, lost) = OrElse(FirstOf(options), StorageUsage(d, lost))
      /\ MemoryBytes(d, lost) = OrElse(FirstOf(counted), StorageBytes(d, lost))
  <2>1. {v \in UNION {WithTableFallback(d, lost, o) : o \in d.override} : v <= 100} = {}
        /\ {v \in UNION {WithTableFallback(d, lost, o) : o \in d.override} : v > 0} = {}
    OBVIOUS
  <2>2. From({}, <<"override">>) = {}
    BY DEF From
  <2>3. /\ MemoryUsage(d, lost) = OrElse(From({}, <<"override">>), OrElse(FirstOf(options), StorageUsage(d, lost)))
        /\ MemoryBytes(d, lost) = OrElse(From({}, <<"override">>), OrElse(FirstOf(counted), StorageBytes(d, lost)))
    BY <2>1 DEF MemoryUsage, MemoryBytes
  <2> HIDE DEF options, counted
  <2> QED
    BY <2>2, <2>3 DEF OrElse
<1>2. /\ N \in Nat /\ DOMAIN d.sources = 1 .. N /\ DOMAIN options = 1 .. N /\ DOMAIN counted = 1 .. N
      /\ \A k \in 1 .. N : d.sources[k] \in ToSet(d.sources)
  BY SourcesAre
<1>3. ASSUME NEW k \in 1 .. N, options[k] = {} PROVE counted[k] = {}
  <2>1. reading(k) = {} \/ d.sources[k].mode = "direct" \/ ~tried(k)
    <3>1. tried(k) => percents(k) = {}
      BY <1>2, <1>3
    <3>2. ASSUME NEW r \in reading(k) PROVE percents(k) # {}
      <4>1. PICK x \in From({r.percent}, <<"source", k, r.row>>) : TRUE
        BY FromOne
      <4>2. x \in percents(k)
        BY <3>2, <4>1, Zenon
      <4> QED
        BY <4>2
    <3> HIDE DEF reading, percents, tried
    <3> QED
      BY <3>1, <3>2
  <2>2. reading(k) = {} \/ \A r \in reading(k) : r.bytes = {}
    <3>1. /\ d.sources[k].mode = "direct" => \A r \in reading(k) : r.bytes = {}
          /\ d.sources[k].mode # "direct" /\ d.sources[k].used = "" => reading(k) = {}
      BY <1>2, SourceIs
    <3> QED
      BY <2>1, <3>1
  <2>3. bytes(k) = {}
    <3>1. \A where : From({}, where) = {}
      BY DEF From
    <3> HIDE DEF reading
    <3> QED
      BY <2>2, <3>1
  <2> QED
    BY <1>2, <2>3
<1>4. ASSUME NEW k \in 1 .. N, u \in options[k]
      PROVE  \/ u.from[1] = "source" /\ u.from[2] = k /\ (d.sources[k].mode = "direct" \/ ~d.sources[k].bytes)
             \/ d.sources[k].bytes /\ \E b \in counted[k] : b.from = u.from
  <2>1. u \in percents(k)
    BY <1>2, <1>4
  <2>2. PICK r \in reading(k) : u \in From({r.percent}, <<"source", k, r.row>>)
    BY <2>1
  <2>3. u.from = <<"source", k, r.row>>
    BY <2>2, FromIs
  <2>4. u.from[1] = "source" /\ u.from[2] = k
    BY <2>3
  <2>5. ASSUME d.sources[k].mode # "direct", d.sources[k].bytes PROVE \E b \in counted[k] : b.from = u.from
    <3>1. r.bytes # {}
      <4>1. d.sources[k] \in ToSet(d.sources)
        BY <1>2
      <4>2. d.sources[k].mode # "direct" /\ d.sources[k].bytes => \A q \in reading(k) : q.bytes # {}
        BY <4>1, SourceIs, Zenon
      <4> QED
        BY <2>2, <2>5, <4>2
    <3>2. PICK x \in r.bytes : TRUE
      BY <3>1
    <3>3. PICK b \in From(r.bytes, <<"source", k, r.row>>) : b.from = <<"source", k, r.row>>
      BY FromOne
    <3>4. b \in bytes(k)
      BY <2>2, <3>3
    <3>5. counted[k] = bytes(k)
      BY <1>2, <2>5
    <3> QED
      BY <2>3, <3>3, <3>4, <3>5
  <2> QED
    BY <2>4, <2>5
<1> HIDE DEF options, counted, N
<1>5. \/ FirstOf(options) = {} /\ \A k \in 1 .. N : options[k] = {}
      \/ \E k \in 1 .. N : FirstOf(options) = options[k] /\ options[k] # {} /\ \A j \in 1 .. N : j < k => options[j] = {}
  BY <1>2, FirstOfIs
<1>6. \/ FirstOf(counted) = {} /\ \A k \in 1 .. N : counted[k] = {}
      \/ \E k \in 1 .. N : FirstOf(counted) = counted[k] /\ counted[k] # {} /\ \A j \in 1 .. N : j < k => counted[j] = {}
  BY <1>2, FirstOfIs
<1>7. CASE FirstOf(options) = {} /\ \A k \in 1 .. N : options[k] = {}
  <2>1. FirstOf(counted) = {}
    BY <1>3, <1>6, <1>7
  <2>2. u \in StorageUsage(d, lost) /\ MemoryBytes(d, lost) = StorageBytes(d, lost)
    BY <1>1, <1>7, <2>1 DEF OrElse
  <2> QED
    BY <2>2, StorageBytesAre
<1>8. ASSUME NEW k \in 1 .. N, FirstOf(options) = options[k], options[k] # {},
             \A j \in 1 .. N : j < k => options[j] = {}
      PROVE  \/ u.from[1] = "source" /\ u.from[2] = k /\ (d.sources[k].mode = "direct" \/ ~d.sources[k].bytes)
             \/ \E b \in MemoryBytes(d, lost) : b.from = u.from
  <2>1. u \in options[k]
    BY <1>1, <1>8 DEF OrElse
  <2>2. CASE d.sources[k].bytes /\ \E b \in counted[k] : b.from = u.from
    <3>1. counted[k] # {}
      BY <2>2
    <3>2. \A j \in 1 .. N : j < k => counted[j] = {}
      BY <1>3, <1>8
    <3>3. PICK i \in 1 .. N : FirstOf(counted) = counted[i] /\ counted[i] # {} /\ \A j \in 1 .. N : j < i => counted[j] = {}
      BY <1>6, <3>1
    <3>4. i = k
      BY <1>2, <3>1, <3>2, <3>3
    <3>5. MemoryBytes(d, lost) = counted[k]
      BY <1>1, <3>1, <3>3, <3>4 DEF OrElse
    <3> QED
      BY <2>2, <3>5
  <2> QED
    BY <1>4, <2>1, <2>2
<1> QED
  BY <1>2, <1>5, <1>7, <1>8

-----------------------------------------------------------------------------
\* The places to which a custom template goes: of those with a selector the first stays.
KeptCustom(custom) ==
  {j \in DOMAIN custom : /\ custom[j].selector # <<>>
                         /\ \A k \in 1 .. j - 1 : custom[k].selector # custom[j].selector}
CustomFor(custom, t) == {j \in KeptCustom(custom) : custom[j].selector = t.selector}
NewCustom(bundled, custom) == {j \in KeptCustom(custom) : \A i \in DOMAIN bundled : j \notin CustomFor(custom, bundled[i])}

\* A custom template with a selector leaves one with that selector: the first that has it.
LEMMA KeptHas ==
  ASSUME NEW S, NEW custom \in Seq(S), NEW j \in DOMAIN custom, custom[j].selector # <<>>
  PROVE  \E k \in KeptCustom(custom) : custom[k].selector = custom[j].selector
<1> DEFINE same == {k \in DOMAIN custom : custom[k].selector = custom[j].selector}
<1>1. same \in SUBSET Nat /\ same # {} /\ DOMAIN custom = 1 .. Len(custom) /\ Len(custom) \in Nat
  OBVIOUS
<1>2. PICK k \in same : \A q \in same : k <= q
  <2> HIDE DEF same
  <2> QED
    BY <1>1, FirstNumber
<1>3. k \in DOMAIN custom /\ custom[k].selector = custom[j].selector /\ k \in 1 .. Len(custom)
  BY <1>1
<1>4. ASSUME NEW q \in 1 .. k - 1 PROVE custom[q].selector # custom[k].selector
  <2>1. q \in DOMAIN custom /\ ~(k <= q)
    BY <1>1, <1>3
  <2> QED
    BY <1>2, <1>3, <2>1
<1>5. k \in KeptCustom(custom)
  BY <1>3, <1>4 DEF KeptCustom
<1> QED
  BY <1>3, <1>5

\* What a registry consists of: bundled templates, each in its place unless a custom one takes
\* it, and the other custom ones.
IsRegistry(registry, bundled, custom) ==
  /\ Len(registry) >= Len(bundled)
  /\ \A i \in 1 .. Len(bundled) :
       /\ CustomFor(custom, bundled[i]) = {} => registry[i] = bundled[i]
       /\ CustomFor(custom, bundled[i]) # {} => \E j \in CustomFor(custom, bundled[i]) : registry[i] = custom[j]
  /\ \A i \in DOMAIN registry : i > Len(bundled) => \E j \in NewCustom(bundled, custom) : registry[i] = custom[j]
  /\ \A j \in NewCustom(bundled, custom) : \E i \in DOMAIN registry : registry[i] = custom[j]

\* A registry that is loaded is one.
LEMMA LoadedIs ==
  ASSUME NEW S, NEW bundled \in Seq(S), NEW custom \in Seq(S)
  PROVE  Loaded(bundled, custom) \in Seq(S) /\ IsRegistry(Loaded(bundled, custom), bundled, custom)
<1> DEFINE n == Len(bundled)
           A == [i \in DOMAIN bundled |-> IF CustomFor(custom, bundled[i]) = {} THEN bundled[i]
                                          ELSE custom[The(CustomFor(custom, bundled[i]))]]
           new == NewCustom(bundled, custom)
           B == EntriesAt(custom, new)
           registry == A \o B
<1>1. Loaded(bundled, custom) = registry
  BY DEF Loaded, CustomFor, NewCustom, KeptCustom
<1>2. n \in Nat /\ DOMAIN bundled = 1 .. n /\ DOMAIN custom = 1 .. Len(custom)
  OBVIOUS
<1>3. ASSUME NEW i \in 1 .. n
      PROVE  /\ A[i] \in S
             /\ CustomFor(custom, bundled[i]) = {} => A[i] = bundled[i]
             /\ CustomFor(custom, bundled[i]) # {} => \E j \in CustomFor(custom, bundled[i]) : A[i] = custom[j]
  <2>1. A[i] = IF CustomFor(custom, bundled[i]) = {} THEN bundled[i] ELSE custom[The(CustomFor(custom, bundled[i]))]
    BY <1>2
  <2>2. CustomFor(custom, bundled[i]) # {} => The(CustomFor(custom, bundled[i])) \in CustomFor(custom, bundled[i])
    BY Zenon DEF The
  <2>3. CustomFor(custom, bundled[i]) \subseteq DOMAIN custom
    BY DEF CustomFor, KeptCustom
  <2> HIDE DEF A
  <2> QED
    BY <1>2, <2>1, <2>2, <2>3
<1>4. A \in Seq(S) /\ Len(A) = n
  <2>1. A \in [1 .. n -> S]
    <3>1. DOMAIN A = 1 .. n /\ A = [i \in 1 .. n |-> A[i]]
      BY <1>2
    <3> HIDE DEF A
    <3> QED
      BY <1>3, <3>1
  <2> HIDE DEF A, n
  <2> QED
    BY <1>2, <2>1
<1>5. new \in SUBSET (1 .. Len(custom))
  BY <1>2 DEF NewCustom, KeptCustom
<1>6. /\ B \in Seq(S) /\ Len(B) \in Nat
      /\ \A k \in 1 .. Len(B) : \E j \in new : B[k] = custom[j]
      /\ \A j \in new : \E k \in 1 .. Len(B) : B[k] = custom[j]
  <2> HIDE DEF new
  <2>1. /\ B \in Seq(S)
        /\ \A k \in 1 .. Len(B) : NthPlace(new, k) \in new /\ B[k] = custom[NthPlace(new, k)]
        /\ \A j \in new : \E k \in 1 .. Len(B) : B[k] = custom[j]
    BY <1>5, AtIsOf
  <2> HIDE DEF B
  <2> QED
    BY <2>1
<1> HIDE DEF A, B, n, new
<1>7. /\ registry \in Seq(S) /\ Len(registry) = n + Len(B)
      /\ \A i \in 1 .. n + Len(B) : registry[i] = IF i <= n THEN A[i] ELSE B[i - n]
  BY <1>4, <1>6, ConcatProperties
<1> HIDE DEF registry
<1>8. DOMAIN registry = 1 .. n + Len(B) /\ n + Len(B) >= n
  BY <1>2, <1>6, <1>7
<1>9. \A i \in 1 .. n : registry[i] = A[i]
  BY <1>2, <1>6, <1>7
<1>10. ASSUME NEW i \in DOMAIN registry, i > n PROVE \E j \in new : registry[i] = custom[j]
  <2>1. i \in 1 .. n + Len(B) /\ i - n \in 1 .. Len(B) /\ ~(i <= n)
    BY <1>2, <1>6, <1>8, <1>10
  <2>2. registry[i] = B[i - n]
    BY <1>7, <2>1
  <2> QED
    BY <1>6, <2>1, <2>2
<1>11. ASSUME NEW j \in new PROVE \E i \in DOMAIN registry : registry[i] = custom[j]
  <2>1. PICK k \in 1 .. Len(B) : B[k] = custom[j]
    BY <1>6
  <2>2. n + k \in 1 .. n + Len(B) /\ ~(n + k <= n) /\ (n + k) - n = k
    BY <1>2, <1>6
  <2>3. registry[n + k] = B[k]
    BY <1>7, <2>2
  <2> QED
    BY <1>8, <2>1, <2>2, <2>3
<1>12. Len(registry) >= n
  BY <1>7, <1>8
<1>13. n = Len(bundled) /\ new = NewCustom(bundled, custom)
  BY DEF n, new
<1>14. /\ registry \in Seq(S)
       /\ \A i \in 1 .. n : /\ CustomFor(custom, bundled[i]) = {} => registry[i] = bundled[i]
                            /\ CustomFor(custom, bundled[i]) # {} =>
                                 \E j \in CustomFor(custom, bundled[i]) : registry[i] = custom[j]
  BY <1>3, <1>7, <1>9
<1>15. /\ \A i \in DOMAIN registry : i > n => \E j \in new : registry[i] = custom[j]
       /\ \A j \in new : \E i \in DOMAIN registry : registry[i] = custom[j]
  BY <1>10, <1>11
<1>16. IsRegistry(registry, bundled, custom)
  BY <1>12, <1>13, <1>14, <1>15, Zenon DEF IsRegistry
<1> QED
  BY <1>1, <1>14, <1>16

\* When some template fits, the one that is selected fits and none that fits is longer.
LEMMA SelectedIs ==
  ASSUME NEW S, NEW registry \in Seq(S), NEW oid, \A t \in S : t.selector \in Seq(Nat),
         NEW k \in DOMAIN registry, registry[k].selector # <<>>, IsPrefix(registry[k].selector, oid)
  PROVE  \E i \in DOMAIN registry :
           /\ Selected(registry, oid) = registry[i]
           /\ registry[i].selector # <<>> /\ IsPrefix(registry[i].selector, oid)
           /\ \A j \in DOMAIN registry : registry[j].selector # <<>> /\ IsPrefix(registry[j].selector, oid) =>
                Len(registry[j].selector) <= Len(registry[i].selector)
<1> DEFINE fits == {i \in DOMAIN registry : registry[i].selector # <<>> /\ IsPrefix(registry[i].selector, oid)}
           length == [i \in fits |-> Len(registry[i].selector)]
           best(i) == \A j \in fits : Len(registry[j].selector) <= Len(registry[i].selector)
<1>1. k \in fits /\ fits \in SUBSET (0 .. Len(registry)) /\ Len(registry) \in Nat
  OBVIOUS
<1>2. \A i \in fits : registry[i].selector \in Seq(Nat)
  OBVIOUS
<1>3. length \in [fits -> Nat]
  <2> HIDE DEF fits
  <2> QED
    BY <1>2
<1>4. \E i \in fits : \A j \in fits : length[j] < length[i] \/ (length[j] = length[i] /\ j <= i)
  <2> HIDE DEF fits, length
  <2> QED
    BY <1>1, <1>3, LargestPlace
<1>5. \A i \in fits : length[i] = Len(registry[i].selector) /\ length[i] \in Nat
  BY <1>3
<1>6. \E i \in fits : best(i)
  <2> HIDE DEF fits, length
  <2> QED
    BY <1>4, <1>5
<1>7. Selected(registry, oid) = registry[CHOOSE i \in fits : best(i)]
  <2>1. fits # {}
    BY <1>1
  <2> QED
    BY <2>1 DEF Selected
<1>8. PICK i \in fits : best(i) /\ Selected(registry, oid) = registry[i]
  <2> HIDE DEF fits, best
  <2>1. (CHOOSE i \in fits : best(i)) \in fits /\ best(CHOOSE i \in fits : best(i))
    BY <1>6, Zenon
  <2> QED
    BY <1>7, <2>1, Zenon
<1> QED
  BY <1>8

Usable(d) == {t \in ToSet(d.bundled \o d.custom) : t.selector # <<>> /\ IsPrefix(t.selector, d.oid)}

\* The template that is selected is the generic one, or the closest; a custom one goes before
\* a bundled one.
LEMMA ClosestIs ==
  ASSUME NEW d \in Cases, d.kind = "template"
  PROVE  LET used == Selected(Loaded(d.bundled, d.custom), d.oid)
         IN  IF Usable(d) = {} THEN used = d.bundled[1]
             ELSE /\ used \in Usable(d) /\ \A t \in Usable(d) : Len(t.selector) <= Len(used.selector)
                  /\ (\E t \in ToSet(d.custom) : t.selector = used.selector) => used \in ToSet(d.custom)
<1> DEFINE S == ToSet(d.bundled) \cup ToSet(d.custom)
           L == Loaded(d.bundled, d.custom)
           used == Selected(L, d.oid)
           n == Len(d.bundled)
           Fits(t) == t.selector # <<>> /\ IsPrefix(t.selector, d.oid)
<1>1. /\ d.bundled \in Seq(ToSet(d.bundled)) /\ d.custom \in Seq(ToSet(d.custom))
      /\ d.bundled # <<>> /\ d.bundled[1].selector = <<>>
      /\ \A t \in S : t.selector \in Seq(Nat)
  BY CaseAssumption DEF IsList
<1>2. d.bundled \in Seq(S) /\ d.custom \in Seq(S)
  <2>1. ToSet(d.bundled) \subseteq S /\ ToSet(d.custom) \subseteq S
    OBVIOUS
  <2> HIDE DEF S
  <2>2. \A A : A \subseteq S => Seq(A) \subseteq Seq(S)
    OBVIOUS
  <2> QED
    BY <1>1, <2>1, <2>2
<1>3. Usable(d) = {t \in S : Fits(t)}
  BY <1>2, OfBoth DEF Usable
<1> HIDE DEF S, L
<1>4. n \in Nat \ {0} /\ 1 \in 1 .. n /\ DOMAIN d.bundled = 1 .. n /\ DOMAIN d.custom = 1 .. Len(d.custom)
  BY <1>1
<1>5. /\ L \in Seq(S) /\ Len(L) >= n
      /\ \A i \in 1 .. n : /\ CustomFor(d.custom, d.bundled[i]) = {} => L[i] = d.bundled[i]
                           /\ CustomFor(d.custom, d.bundled[i]) # {} =>
                                \E j \in CustomFor(d.custom, d.bundled[i]) : L[i] = d.custom[j]
      /\ \A i \in DOMAIN L : i > n => \E j \in NewCustom(d.bundled, d.custom) : L[i] = d.custom[j]
      /\ \A j \in NewCustom(d.bundled, d.custom) : \E i \in DOMAIN L : L[i] = d.custom[j]
  <2>1. L \in Seq(S) /\ IsRegistry(L, d.bundled, d.custom)
    BY <1>2, LoadedIs DEF L
  <2> QED
    BY <2>1, Zenon DEF IsRegistry
<1>6. DOMAIN L = 1 .. Len(L) /\ Len(L) \in Nat /\ 1 .. n \subseteq DOMAIN L
  BY <1>4, <1>5
<1>7. \A t \in DOMAIN d.custom : d.custom[t] \in ToSet(d.custom)
  BY DEF ToSet
<1>8. \A t : \A j \in CustomFor(d.custom, t) : j \in KeptCustom(d.custom) /\ d.custom[j].selector = t.selector /\ j \in DOMAIN d.custom
  BY DEF CustomFor, KeptCustom
<1>9. \A j \in NewCustom(d.bundled, d.custom) : j \in DOMAIN d.custom
  BY DEF NewCustom, KeptCustom
\* A template that fits has one in the registry with its selector.
<1>10. ASSUME NEW t \in S, Fits(t) PROVE \E i \in DOMAIN L : L[i].selector = t.selector
  <2>1. CASE \E i \in DOMAIN d.bundled : t = d.bundled[i]
    <3>1. PICK i \in 1 .. n : t = d.bundled[i]
      BY <1>4, <2>1
    <3>2. L[i].selector = t.selector
      BY <1>5, <1>8, <3>1
    <3> QED
      BY <1>6, <3>2
  <2>2. CASE \E j \in DOMAIN d.custom : t = d.custom[j]
    <3>1. PICK j \in KeptCustom(d.custom) : d.custom[j].selector = t.selector
      BY <1>2, <1>10, <2>2, KeptHas
    <3>2. CASE j \in NewCustom(d.bundled, d.custom)
      BY <1>5, <3>1, <3>2
    <3>3. CASE j \notin NewCustom(d.bundled, d.custom)
      <4>1. PICK i \in 1 .. n : j \in CustomFor(d.custom, d.bundled[i])
        BY <1>4, <3>1, <3>3 DEF NewCustom
      <4>2. L[i].selector = t.selector
        <5>1. CustomFor(d.custom, d.bundled[i]) # {}
          BY <4>1
        <5>2. PICK q \in CustomFor(d.custom, d.bundled[i]) : L[i] = d.custom[q]
          BY <1>5, <5>1
        <5> QED
          BY <1>8, <3>1, <4>1, <5>2
      <4> QED
        BY <1>6, <4>2
    <3> QED
      BY <3>2, <3>3
  <2> QED
    BY <2>1, <2>2 DEF S, ToSet
<1>11. ASSUME Usable(d) = {} PROVE used = d.bundled[1]
  <2>1. {i \in DOMAIN L : L[i].selector # <<>> /\ IsPrefix(L[i].selector, d.oid)} = {}
    <3>1. \A i \in DOMAIN L : L[i] \in S
      BY <1>5, <1>6
    <3> QED
      BY <1>3, <1>11, <3>1
  <2>2. used = L[1]
    BY <2>1 DEF Selected
  <2>3. CustomFor(d.custom, d.bundled[1]) = {}
    BY <1>1 DEF CustomFor, KeptCustom
  <2> QED
    BY <1>4, <1>5, <2>2, <2>3
<1>12. ASSUME Usable(d) # {}
       PROVE  /\ used \in Usable(d) /\ \A t \in Usable(d) : Len(t.selector) <= Len(used.selector)
              /\ (\E t \in ToSet(d.custom) : t.selector = used.selector) => used \in ToSet(d.custom)
  <2>1. PICK t \in S : Fits(t)
    BY <1>3, <1>12
  <2>2. PICK k \in DOMAIN L : L[k].selector = t.selector
    BY <1>10, <2>1
  <2>3. PICK i \in DOMAIN L :
          /\ used = L[i] /\ Fits(L[i])
          /\ \A j \in DOMAIN L : Fits(L[j]) => Len(L[j].selector) <= Len(L[i].selector)
    <3>1. \A x \in S : x.selector \in Seq(Nat)
      BY <1>1 DEF S
    <3>2. L[k].selector # <<>> /\ IsPrefix(L[k].selector, d.oid)
      BY <2>1, <2>2
    <3> QED
      BY <1>5, <3>1, <3>2, SelectedIs
  <2>4. used \in S /\ used \in Usable(d)
    BY <1>3, <1>5, <1>6, <2>3
  <2>5. ASSUME NEW x \in Usable(d) PROVE Len(x.selector) <= Len(used.selector)
    <3>1. PICK j \in DOMAIN L : L[j].selector = x.selector
      BY <1>3, <1>10
    <3> QED
      BY <1>3, <2>3, <3>1
  <2>6. ASSUME \E x \in ToSet(d.custom) : x.selector = used.selector PROVE used \in ToSet(d.custom)
    <3>1. CASE i > n
      BY <1>5, <1>7, <1>9, <2>3, <3>1
    <3>2. CASE ~(i > n)
      <4>1. i \in 1 .. n
        BY <1>4, <1>6, <3>2
      <4>2. CASE CustomFor(d.custom, d.bundled[i]) # {}
        <5>1. PICK j \in CustomFor(d.custom, d.bundled[i]) : L[i] = d.custom[j]
          BY <1>5, <4>1, <4>2
        <5>2. j \in DOMAIN d.custom
          BY <1>8
        <5> HIDE DEF used
        <5> QED
          BY <1>7, <2>3, <5>1, <5>2
      <4>3. CASE CustomFor(d.custom, d.bundled[i]) = {}
        <5>1. used = d.bundled[i]
          BY <1>5, <2>3, <4>1, <4>3
        <5>2. PICK x \in DOMAIN d.custom : d.custom[x].selector = used.selector
          BY <2>6 DEF ToSet
        <5>3. PICK j \in KeptCustom(d.custom) : d.custom[j].selector = used.selector
          BY <1>2, <2>3, <5>2, KeptHas
        <5> QED
          BY <4>3, <5>1, <5>3 DEF CustomFor
      <4> QED
        BY <4>2, <4>3
    <3> QED
      BY <3>1, <3>2
  <2> QED
    BY <2>4, <2>5, <2>6
<1> QED
  BY <1>11, <1>12 DEF L

-----------------------------------------------------------------------------
\* The way up from an entity, N steps long.
Above(m, entity, N, f) ==
  /\ DOMAIN f = 0 .. N /\ f[0] = entity
  /\ \A n \in 1 .. N : f[n] = Parent(m, f[n - 1])

\* It exists for every number of steps: a least number without one has one, a step longer
\* than that of the number before.
LEMMA AboveExists ==
  ASSUME NEW m, NEW entity, NEW N \in Nat
  PROVE  \E f : Above(m, entity, N, f)
<1> DEFINE S == {k \in Nat : ~\E f : Above(m, entity, k, f)}
<1>1. ASSUME S # {} PROVE FALSE
  <2>1. PICK k \in S : \A q \in S : k <= q
    <3>1. S \in SUBSET Nat
      OBVIOUS
    <3> HIDE DEF S
    <3> QED
      BY <1>1, <3>1, FirstNumber
  <2>2. k \in Nat /\ ~\E f : Above(m, entity, k, f)
    OBVIOUS
  <2>3. CASE k = 0
    <3> DEFINE f == [n \in 0 .. 0 |-> entity]
    <3>1. DOMAIN f = 0 .. 0 /\ f[0] = entity
      OBVIOUS
    <3>2. 1 .. 0 = {}
      OBVIOUS
    <3> HIDE DEF f
    <3>3. Above(m, entity, 0, f)
      BY <3>1, <3>2 DEF Above
    <3> QED
      BY <2>2, <2>3, <3>3
  <2>4. CASE k # 0
    <3>1. k - 1 \in Nat /\ ~(k <= k - 1)
      BY <2>2, <2>4
    <3>2. k - 1 \notin S
      <4> HIDE DEF S
      <4> QED
        BY <2>1, <3>1
    <3>3. PICK f : Above(m, entity, k - 1, f)
      BY <3>1, <3>2
    <3> DEFINE g == [n \in 0 .. k |-> IF n = k THEN Parent(m, f[k - 1]) ELSE f[n]]
    <3>4. DOMAIN g = 0 .. k /\ g[k] = Parent(m, f[k - 1]) /\ \A n \in 0 .. k - 1 : g[n] = f[n]
      BY <2>2
    <3>5. g[0] = entity
      BY <3>1, <3>3, <3>4 DEF Above
    <3> HIDE DEF g
    <3>6. ASSUME NEW n \in 1 .. k PROVE g[n] = Parent(m, g[n - 1])
      <4>1. n - 1 \in 0 .. k - 1
        BY <2>2
      <4>2. CASE n = k
        BY <3>4, <4>1, <4>2
      <4>3. CASE n # k
        <5>1. n \in 1 .. k - 1 /\ n \in 0 .. k - 1
          BY <2>2, <4>3
        <5> QED
          BY <3>3, <3>4, <4>1, <5>1 DEF Above
      <4> QED
        BY <4>2, <4>3
    <3>7. Above(m, entity, k, g)
      BY <3>4, <3>5, <3>6 DEF Above
    <3> QED
      BY <2>2, <3>7
  <2> QED
    BY <2>3, <2>4
<1> QED
  BY <1>1

\* What a finite set is mapped to is finite; one of one element has only that.
LEMMA SecondsAreFinite ==
  ASSUME NEW A, IsFiniteSet(A)
  PROVE  IsFiniteSet({a[2] : a \in A})
<1> DEFINE T == {a[2] : a \in A}
           f == [a \in A |-> a[2]]
<1>1. f \in [A -> T] /\ \A t \in T : \E a \in A : f[a] = t
  OBVIOUS
<1>2. f \in Surjection(A, T)
  <2> HIDE DEF f, T
  <2> QED
    BY <1>1 DEF Surjection
<1> HIDE DEF f, T
<1>3. IsFiniteSet(T)
  BY <1>2, FS_Surjection
<1> QED
  BY <1>3 DEF T

\* A member of a set of one is all of it.
LEMMA OnlyOne ==
  ASSUME NEW A, IsFiniteSet(A), Cardinality(A) = 1, NEW x \in A
  PROVE  A = {x}
<1>1. \E y : A = {y}
  BY FS_Singleton
<1> QED
  BY <1>1

\* The ports an entity stands for are those of one it is inside of.
LEMMA PortIsAbove ==
  ASSUME ReadingAssumption, NEW m, IsFiniteSet(m.aliases), NEW entity, NEW p \in EntityPort(m, entity)
  PROVE  \E a \in m.aliases : a[2] = p /\ p > 0 /\ AliasOf(m, a[1]) = {p} /\ IsInside(m, a[1], entity)
<1> DEFINE above == CHOOSE f : f = [n \in 0 .. MaxDepth |-> IF n = 0 THEN entity ELSE Parent(m, f[n - 1])]
           reached == {n \in 0 .. MaxDepth - 1 :
                         /\ above[n] # 0 /\ HasAlias(m, above[n])
                         /\ \A k \in 0 .. n - 1 : above[k] # 0 /\ ~HasAlias(m, above[k])}
<1>1. MaxDepth \in Nat
  BY DEF ReadingAssumption
<1>2. EntityPort(m, entity) = UNION {AliasOf(m, above[n]) : n \in reached}
  BY DEF EntityPort
<1>3. Above(m, entity, MaxDepth, above)
  <2>1. PICK f : Above(m, entity, MaxDepth, f)
    BY <1>1, AboveExists
  <2> DEFINE g == [n \in 0 .. MaxDepth |-> IF n = 0 THEN entity ELSE Parent(m, f[n - 1])]
  <2> DEFINE h == [n \in 0 .. MaxDepth |-> f[n]]
  <2>2. \A n \in 0 .. MaxDepth : g[n] = h[n]
    <3>1. ASSUME NEW n \in 0 .. MaxDepth PROVE g[n] = h[n]
      <4>1. n = 0 \/ n \in 1 .. MaxDepth
        BY <1>1
      <4> QED
        BY <2>1, <4>1 DEF Above
    <3> QED
      BY <3>1
  <2>3. g = h
    BY <2>2
  <2>4. h = [n \in 0 .. MaxDepth |-> IF n = 0 THEN entity ELSE Parent(m, h[n - 1])]
    <3>1. \A n \in 0 .. MaxDepth : n # 0 => h[n - 1] = f[n - 1]
      BY <1>1
    <3>2. [n \in 0 .. MaxDepth |-> IF n = 0 THEN entity ELSE Parent(m, h[n - 1])] = g
      <4> HIDE DEF h
      <4> QED
        BY <3>1
    <3> QED
      BY <2>3, <3>2
  <2>5. above = [n \in 0 .. MaxDepth |-> IF n = 0 THEN entity ELSE Parent(m, above[n - 1])]
    <3> HIDE DEF h
    <3> QED
      BY <2>4, Zenon
  <2> HIDE DEF above
  <2>6. /\ DOMAIN above = 0 .. MaxDepth
        /\ \A n \in 0 .. MaxDepth : above[n] = IF n = 0 THEN entity ELSE Parent(m, above[n - 1])
    BY <2>5, Zenon
  <2>7. above[0] = entity
    BY <1>1, <2>6
  <2>8. ASSUME NEW n \in 1 .. MaxDepth PROVE above[n] = Parent(m, above[n - 1])
    <3>1. n \in 0 .. MaxDepth /\ n # 0
      BY <1>1
    <3> QED
      BY <2>6, <3>1
  <2> QED
    BY <2>6, <2>7, <2>8 DEF Above
<1>4. PICK n \in reached : p \in AliasOf(m, above[n])
  BY <1>2
<1> HIDE DEF above
<1>5. /\ n \in 0 .. MaxDepth - 1 /\ n \in Nat
      /\ \A k \in 0 .. n : above[k] # 0
  BY <1>1, <1>4
<1>6. ASSUME NEW inside, entity \in inside,
             \A x \in inside \cap DOMAIN m.parents : m.parents[x] \in inside
      PROVE  above[n] \in inside
  <2> DEFINE F == {k \in 0 .. n : above[k] \notin inside}
  <2>1. ASSUME F # {} PROVE FALSE
    <3>1. PICK k \in F : \A q \in F : k <= q
      <4>1. F \in SUBSET Nat
        BY <1>5
      <4> HIDE DEF F
      <4> QED
        BY <2>1, <4>1, FirstNumber
    <3>2. k \in 0 .. n /\ above[k] \notin inside
      OBVIOUS
    <3>3. k # 0
      BY <1>1, <1>3, <1>6, <3>2 DEF Above
    <3>4. k - 1 \in 0 .. n /\ ~(k <= k - 1) /\ k \in 1 .. MaxDepth
      BY <1>1, <1>5, <3>2, <3>3
    <3>5. k - 1 \notin F
      <4> HIDE DEF F
      <4> QED
        BY <3>1, <3>4
    <3>6. above[k - 1] \in inside
      BY <3>4, <3>5
    <3>7. above[k] = Parent(m, above[k - 1]) /\ above[k] # 0
      BY <1>3, <1>5, <3>2, <3>4 DEF Above
    <3>8. above[k - 1] \in DOMAIN m.parents /\ above[k] = m.parents[above[k - 1]]
      BY <3>7 DEF Parent
    <3> QED
      BY <1>6, <3>2, <3>6, <3>8
  <2>2. n \in 0 .. n
    BY <1>5
  <2> QED
    BY <2>1, <2>2
<1>7. IsInside(m, above[n], entity)
  BY <1>6 DEF IsInside
<1>8. AliasOf(m, above[n]) = {p} /\ \E a \in m.aliases : a[1] = above[n] /\ a[2] > 0 /\ a[2] = p
  <2> DEFINE named == {a[2] : a \in {a \in m.aliases : a[1] = above[n] /\ a[2] > 0}}
  <2>1. AliasOf(m, above[n]) = named /\ Cardinality(named) = 1 /\ p \in named
    BY <1>4 DEF AliasOf
  <2>2. IsFiniteSet(named)
    <3>1. IsFiniteSet({a \in m.aliases : a[1] = above[n] /\ a[2] > 0})
      BY FS_Subset
    <3> QED
      BY <3>1, SecondsAreFinite
  <2>3. named = {p}
    <3> HIDE DEF named
    <3> QED
      BY <2>1, <2>2, OnlyOne
  <2>4. \E a \in m.aliases : a[1] = above[n] /\ a[2] > 0 /\ a[2] = p
    BY <2>1
  <2> QED
    BY <2>1, <2>3, <2>4
<1>9. PICK a \in m.aliases : a[1] = above[n] /\ a[2] > 0 /\ a[2] = p
  BY <1>8
<1> QED
  BY <1>7, <1>8, <1>9

\* The power shown for a port is that of the only sensor of its kind below that port.
LEMMA PowerIsOfOne ==
  ASSUME ReadingAssumption, NEW d \in Cases, d.kind = "dom", NEW metric, NEW p, NEW v \in PortPower(d, metric, p)
  PROVE  \E s \in d.sensors :
           /\ s.power = v /\ s.shows = {metric} /\ ~s.lane /\ s.works
           /\ \E a \in d.aliases : a[2] = p /\ p > 0 /\ AliasOf(d, a[1]) = {p} /\ IsInside(d, a[1], s.entity)
           /\ \A t \in d.sensors \ {s} : t.shows = {metric} /\ t.works /\ ~t.lane => p \notin EntityPort(d, t.entity)
<1> DEFINE readings == SensorsOf(d, metric, p)
<1>1. IsFiniteSet(d.sensors) /\ IsFiniteSet(d.aliases)
  BY CaseAssumption
<1>2. Cardinality(readings) = 1 /\ v \in {s.power : s \in readings}
  BY DEF PortPower
<1>3. PICK s \in readings : v = s.power
  BY <1>2
<1>4. readings = {s}
  <2>1. readings \subseteq d.sensors
    BY DEF SensorsOf
  <2>2. IsFiniteSet(readings)
    BY <1>1, <2>1, FS_Subset
  <2> HIDE DEF readings
  <2> QED
    BY <1>2, <2>2, OnlyOne
<1>5. s \in d.sensors /\ s.shows = {metric} /\ ~s.lane /\ s.works /\ p \in EntityPort(d, s.entity)
  BY DEF SensorsOf
<1>6. \E a \in d.aliases : a[2] = p /\ p > 0 /\ AliasOf(d, a[1]) = {p} /\ IsInside(d, a[1], s.entity)
  BY <1>1, <1>5, PortIsAbove
<1>7. ASSUME NEW t \in d.sensors \ {s}, t.shows = {metric} /\ t.works /\ ~t.lane
      PROVE  p \notin EntityPort(d, t.entity)
  BY <1>4, <1>7 DEF SensorsOf
<1> QED
  BY <1>3, <1>5, <1>6, <1>7

-----------------------------------------------------------------------------
\* The overrides that are added to a list: each OID that is not in it, once.
AddedTo(d, sensors) ==
  {i \in DOMAIN d.manual : /\ \A s \in sensors : s.oid # d.manual[i].oid
                           /\ \A j \in 1 .. i - 1 : d.manual[j].oid # d.manual[i].oid}
ManualSensor(o, lost) == [oid |-> o.oid, from |-> "manual", kind |-> "none", alarm |-> FALSE,
                          value |-> IF o.at \in lost.gets THEN {} ELSE {AsU32(o.value)}]

\* An override that is added is shown, and nothing else is.
LEMMA WithManualIs ==
  ASSUME NEW d, NEW lost, NEW sensors
  PROVE  /\ \A s \in sensors : s \in WithManual(d, lost, sensors)
         /\ \A s \in WithManual(d, lost, sensors) :
              s \in sensors \/ \E i \in AddedTo(d, sensors) : s = ManualSensor(d.manual[i], lost)
         /\ \A i \in AddedTo(d, sensors) : ManualSensor(d.manual[i], lost) \in WithManual(d, lost, sensors)
  BY DEF WithManual, AddedTo, ManualSensor

\* Every override is shown; and alone, if a sensor that was added for it is.
LEMMA ManualIsShown ==
  ASSUME NEW S, NEW d, d.manual \in Seq(S), NEW lost, NEW sensors, NEW i \in DOMAIN d.manual
  PROVE  \E s \in WithManual(d, lost, sensors) : s.oid = d.manual[i].oid
<1> DEFINE same == {k \in DOMAIN d.manual : d.manual[k].oid = d.manual[i].oid}
<1>1. same \in SUBSET Nat /\ i \in same
  OBVIOUS
<1>2. PICK k \in same : \A q \in same : k <= q
  <2> HIDE DEF same
  <2> QED
    BY <1>1, FirstNumber
<1>3. k \in DOMAIN d.manual /\ d.manual[k].oid = d.manual[i].oid /\ k \in Nat
  BY <1>1
<1>4. ASSUME NEW q \in 1 .. k - 1 PROVE d.manual[q].oid # d.manual[k].oid
  <2>1. q \in DOMAIN d.manual /\ ~(k <= q)
    BY <1>3
  <2> QED
    BY <1>2, <1>3, <2>1
<1>5. CASE \E s \in sensors : s.oid = d.manual[i].oid
  BY <1>5, WithManualIs
<1>6. CASE ~\E s \in sensors : s.oid = d.manual[i].oid
  <2>1. k \in AddedTo(d, sensors)
    BY <1>3, <1>4, <1>6 DEF AddedTo
  <2>2. ManualSensor(d.manual[k], lost).oid = d.manual[i].oid
    BY <1>3 DEF ManualSensor
  <2> QED
    BY <2>1, <2>2, WithManualIs
<1> QED
  BY <1>5, <1>6

\* And a sensor that was added for an override is alone with its OID.
LEMMA ManualIsAlone ==
  ASSUME NEW S, NEW d, d.manual \in Seq(S), NEW lost, NEW sensors, \A s \in sensors : s.from # "manual",
         NEW s \in WithManual(d, lost, sensors), s.from = "manual",
         NEW t \in WithManual(d, lost, sensors), t.oid = s.oid
  PROVE  t = s
<1>1. PICK i \in AddedTo(d, sensors) : s = ManualSensor(d.manual[i], lost)
  BY WithManualIs
<1>2. s.oid = d.manual[i].oid
  BY <1>1 DEF ManualSensor
<1>3. t \notin sensors
  BY <1>1, <1>2 DEF AddedTo
<1>4. PICK j \in AddedTo(d, sensors) : t = ManualSensor(d.manual[j], lost)
  BY <1>3, WithManualIs
<1>5. t.oid = d.manual[j].oid
  BY <1>4 DEF ManualSensor
<1>6. i \in Nat /\ j \in Nat /\ d.manual[i].oid = d.manual[j].oid /\ i > 0 /\ j > 0
  BY <1>2, <1>5 DEF AddedTo
<1>7. ~(i < j) /\ ~(j < i)
  BY <1>6 DEF AddedTo
<1> QED
  BY <1>1, <1>4, <1>6, <1>7

\* Adding the overrides once more adds nothing.
LEMMA DiagnosedIsPolled ==
  ASSUME NEW d \in Cases, d.kind = "hardware", NEW lost
  PROVE  DiagnosedInventory(d, lost) = Inventory(d, lost)
<1> DEFINE base == EntitySensors(d, lost) \cup UNION {GroupSensors(g, lost) : g \in d.groups}
           shown == WithManual(d, lost, base)
<1>1. d.manual \in Seq(ToSet(d.manual))
  BY CaseAssumption DEF IsList
<1>2. Inventory(d, lost) = shown /\ DiagnosedInventory(d, lost) = WithManual(d, lost, shown)
  BY DEF Inventory, DiagnosedInventory
<1> HIDE DEF base
<1>3. \A i \in DOMAIN d.manual : \E s \in shown : s.oid = d.manual[i].oid
  BY <1>1, ManualIsShown
<1> HIDE DEF shown
<1>4. AddedTo(d, shown) = {}
  BY <1>3 DEF AddedTo
<1>5. WithManual(d, lost, shown) = shown
  BY <1>4, WithManualIs
<1> QED
  BY <1>2, <1>5

\* A row is walked if there is room for all of its table.
LEMMA RowsWalkedAre ==
  ASSUME NEW column, NEW cut \in BOOLEAN
  PROVE  /\ DOMAIN RowsWalked(column, cut) \subseteq DOMAIN column
         /\ \A i \in DOMAIN RowsWalked(column, cut) : RowsWalked(column, cut)[i] = column[i]
         /\ ~cut /\ DOMAIN column \subseteq Nat /\ IsFiniteSet(DOMAIN column)
              /\ MaxRows \in Nat /\ Cardinality(DOMAIN column) <= MaxRows =>
              DOMAIN RowsWalked(column, cut) = DOMAIN column
<1> DEFINE before(i) == Cardinality({j \in DOMAIN column : j < i})
           within == {i \in DOMAIN column : before(i) < RowsRead(cut)}
<1>1. RowsWalked(column, cut) = [i \in within |-> column[i]]
  BY DEF RowsWalked
<1>2. within \subseteq DOMAIN column
  OBVIOUS
<1>3. ASSUME ~cut, DOMAIN column \subseteq Nat, IsFiniteSet(DOMAIN column), MaxRows \in Nat,
             Cardinality(DOMAIN column) <= MaxRows, NEW i \in DOMAIN column
      PROVE  i \in within
  <2> DEFINE B == {j \in DOMAIN column : j < i}
  <2>1. B \subseteq DOMAIN column /\ i \notin B
    BY <1>3
  <2>2. IsFiniteSet(B) /\ Cardinality(B) < Cardinality(DOMAIN column)
    <3> HIDE DEF B
    <3>1. IsFiniteSet(B) /\ Cardinality(B) <= Cardinality(DOMAIN column)
          /\ (Cardinality(B) = Cardinality(DOMAIN column) => B = DOMAIN column)
      BY <1>3, <2>1, FS_Subset
    <3>2. Cardinality(B) \in Nat /\ Cardinality(DOMAIN column) \in Nat
      BY <1>3, <3>1, FS_CardinalityType
    <3>3. B # DOMAIN column
      BY <2>1
    <3> QED
      BY <3>1, <3>2, <3>3
  <2>3. Cardinality(B) \in Nat /\ Cardinality(DOMAIN column) \in Nat
    BY <1>3, <2>2, FS_CardinalityType
  <2>4. Cardinality(B) < MaxRows
    <3> HIDE DEF B
    <3> QED
      BY <1>3, <2>2, <2>3
  <2>5. RowsRead(cut) = MaxRows
    BY <1>3 DEF RowsRead
  <2> QED
    BY <1>3, <2>4, <2>5
<1> HIDE DEF within
<1> QED
  BY <1>1, <1>2, <1>3

\* The rows a device reports to be in alarm.
ReportedByEntities(d) == {<<"values", i>> : i \in {i \in DOMAIN d.values \cap DOMAIN d.statuses : d.statuses[i] \in EntityAlarms}}
ReportedByGroup(g) == {<<g.stateAt, i>> : i \in {i \in DOMAIN StateColumn(g) :
                          /\ g.states[i] \in GroupAlarms(g)
                          /\ g.filter = {} \/ i \in UNION g.filter}}
Listed(d, lost) == EntitySensors(d, lost) \cup UNION {GroupSensors(g, lost) : g \in d.groups}

\* The sensors of the entity tables alarm for the rows that are reported, and for each of these
\* when the tables are read whole.
LEMMA EntitySensorsAre ==
  ASSUME NEW d \in Cases, d.kind = "hardware", NEW lost
  PROVE  /\ \A s \in EntitySensors(d, lost) : s.from = "entity" /\ (s.alarm => s.oid \in ReportedByEntities(d))
         /\ ReadingAssumption /\ lost.walks = {} /\ Cardinality(DOMAIN d.values) <= MaxRows
              /\ Cardinality(DOMAIN d.statuses) <= MaxRows =>
              \A o \in ReportedByEntities(d) : \E s \in EntitySensors(d, lost) : s.oid = o /\ s.alarm
<1> DEFINE values   == RowsWalked(d.values, "values" \in lost.walks)
           statuses == RowsWalked(d.statuses, "statuses" \in lost.walks)
           sensor(i) == [oid |-> <<"values", i>>, from |-> "entity", value |-> {values[i]}, kind |-> "none",
                         alarm |-> i \in DOMAIN statuses /\ statuses[i] \in EntityAlarms]
<1>1. EntitySensors(d, lost) = {sensor(i) : i \in DOMAIN values}
  BY DEF EntitySensors
<1>2. \A i : /\ sensor(i).oid = <<"values", i>> /\ sensor(i).from = "entity"
             /\ sensor(i).alarm <=> i \in DOMAIN statuses /\ statuses[i] \in EntityAlarms
  BY Zenon
<1>3. /\ DOMAIN values \subseteq DOMAIN d.values /\ DOMAIN statuses \subseteq DOMAIN d.statuses
      /\ \A i \in DOMAIN statuses : statuses[i] = d.statuses[i]
  <2>1. ("values" \in lost.walks) \in BOOLEAN /\ ("statuses" \in lost.walks) \in BOOLEAN
    OBVIOUS
  <2>2. DOMAIN values \subseteq DOMAIN d.values
    BY <2>1, RowsWalkedAre
  <2>3. DOMAIN statuses \subseteq DOMAIN d.statuses /\ \A i \in DOMAIN statuses : statuses[i] = d.statuses[i]
    BY <2>1, RowsWalkedAre
  <2> QED
    BY <2>2, <2>3
<1>4. ReadingAssumption /\ lost.walks = {} /\ Cardinality(DOMAIN d.values) <= MaxRows
        /\ Cardinality(DOMAIN d.statuses) <= MaxRows =>
        DOMAIN values = DOMAIN d.values /\ DOMAIN statuses = DOMAIN d.statuses
  <2>1. /\ DOMAIN d.values \cup DOMAIN d.statuses \subseteq Nat
        /\ IsFiniteSet(DOMAIN d.values) /\ IsFiniteSet(DOMAIN d.statuses)
    BY CaseAssumption
  <2> SUFFICES ASSUME ReadingAssumption, lost.walks = {}, Cardinality(DOMAIN d.values) <= MaxRows,
                      Cardinality(DOMAIN d.statuses) <= MaxRows
               PROVE  DOMAIN values = DOMAIN d.values /\ DOMAIN statuses = DOMAIN d.statuses
    BY Zenon
  <2>2. MaxRows \in Nat
    BY DEF ReadingAssumption
  <2>3. ("values" \in lost.walks) = FALSE /\ ("statuses" \in lost.walks) = FALSE
    OBVIOUS
  <2> QED
    BY <2>1, <2>2, <2>3, RowsWalkedAre
<1> HIDE DEF values, statuses, sensor
<1>5. ASSUME NEW s \in EntitySensors(d, lost)
      PROVE  s.from = "entity" /\ (s.alarm => s.oid \in ReportedByEntities(d))
  <2>1. PICK i \in DOMAIN values : s = sensor(i)
    BY <1>1
  <2>2. s.from = "entity" /\ s.oid = <<"values", i>>
    BY <1>2, <2>1
  <2>3. ASSUME s.alarm PROVE i \in DOMAIN d.values \cap DOMAIN d.statuses /\ d.statuses[i] \in EntityAlarms
    <3>1. i \in DOMAIN statuses /\ statuses[i] \in EntityAlarms
      BY <1>2, <2>1, <2>3, Zenon
    <3> QED
      BY <1>3, <3>1
  <2> QED
    BY <2>2, <2>3 DEF ReportedByEntities
<1>6. ASSUME ReadingAssumption, lost.walks = {}, Cardinality(DOMAIN d.values) <= MaxRows,
             Cardinality(DOMAIN d.statuses) <= MaxRows, NEW o \in ReportedByEntities(d)
      PROVE  \E s \in EntitySensors(d, lost) : s.oid = o /\ s.alarm
  <2>1. PICK i \in DOMAIN d.values \cap DOMAIN d.statuses : d.statuses[i] \in EntityAlarms /\ o = <<"values", i>>
    BY DEF ReportedByEntities
  <2>2. i \in DOMAIN values /\ i \in DOMAIN statuses /\ statuses[i] \in EntityAlarms
    BY <1>3, <1>4, <1>6, <2>1
  <2>3. sensor(i) \in EntitySensors(d, lost) /\ sensor(i).oid = o /\ sensor(i).alarm
    BY <1>1, <1>2, <2>1, <2>2, Zenon
  <2> QED
    BY <2>3, Zenon
<1> QED
  BY <1>5, <1>6

\* So do those of a group of a template.
LEMMA GroupSensorsAre ==
  ASSUME NEW g, NEW lost
  PROVE  /\ \A s \in GroupSensors(g, lost) : s.from = "template" /\ (s.alarm => s.oid \in ReportedByGroup(g))
         /\ lost.walks = {} /\ lost.gets = {} =>
              \A o \in ReportedByGroup(g) : \E s \in GroupSensors(g, lost) : s.oid = o /\ s.alarm
<1> DEFINE state(i) == Cells(StateColumn(g), i)
           alarm(i) == state(i) \cap GroupAlarms(g) # {}
           sensor(i) == [oid   |-> <<IF g.stateAt # "" THEN g.stateAt ELSE g.valueAt, i>>, from |-> "template",
             value |-> Cells(g.values, i), alarm |-> alarm(i),
             kind  |-> IF state(i) = {} \/ g.normals = {} THEN "none"
                       ELSE IF alarm(i) THEN "critical"
                       ELSE IF state(i) \subseteq g.normals THEN "normal" ELSE "warning"]
<1>1. GroupSensors(g, lost) = IF {g.valueAt, g.stateAt} \cap lost.walks # {} THEN {}
                              ELSE {sensor(i) : i \in GroupRows(g, lost)}
  BY DEF GroupSensors
<1>2. \A i : /\ sensor(i).oid = <<IF g.stateAt # "" THEN g.stateAt ELSE g.valueAt, i>>
             /\ sensor(i).from = "template" /\ (sensor(i).alarm <=> alarm(i))
  BY Zenon
<1>3. ASSUME NEW i PROVE alarm(i) <=> i \in DOMAIN StateColumn(g) /\ StateColumn(g)[i] \in GroupAlarms(g)
  BY DEF Cells
<1> HIDE DEF sensor, alarm, state
<1>4. ASSUME NEW i \in DOMAIN StateColumn(g) PROVE g.stateAt # "" /\ StateColumn(g) = g.states
  BY NoPlace DEF StateColumn
<1>5. ASSUME NEW s \in GroupSensors(g, lost)
      PROVE  s.from = "template" /\ (s.alarm => s.oid \in ReportedByGroup(g))
  <2>1. PICK i \in GroupRows(g, lost) : s = sensor(i)
    BY <1>1
  <2>2. ASSUME s.alarm PROVE s.oid \in ReportedByGroup(g)
    <3>1. i \in DOMAIN StateColumn(g) /\ StateColumn(g)[i] \in GroupAlarms(g)
      BY <1>2, <1>3, <2>1, <2>2, Zenon
    <3>2. s.oid = <<g.stateAt, i>> /\ g.states[i] \in GroupAlarms(g)
      BY <1>2, <1>4, <2>1, <3>1
    <3>3. g.filter = {} \/ i \in UNION g.filter
      BY DEF GroupRows
    <3> QED
      BY <3>1, <3>2, <3>3 DEF ReportedByGroup
  <2> QED
    BY <1>2, <2>1, <2>2
<1>6. ASSUME lost.walks = {}, lost.gets = {}, NEW o \in ReportedByGroup(g)
      PROVE  \E s \in GroupSensors(g, lost) : s.oid = o /\ s.alarm
  <2>1. PICK i \in DOMAIN StateColumn(g) :
          o = <<g.stateAt, i>> /\ g.states[i] \in GroupAlarms(g) /\ (g.filter = {} \/ i \in UNION g.filter)
    BY DEF ReportedByGroup
  <2>2. i \in GroupRows(g, lost)
    BY <1>6, <2>1 DEF GroupRows
  <2>3. sensor(i) \in GroupSensors(g, lost)
    BY <1>1, <1>6, <2>2
  <2>4. sensor(i).oid = o
    BY <1>2, <1>4, <2>1
  <2>5. StateColumn(g)[i] \in GroupAlarms(g)
    BY <1>4, <2>1
  <2>6. sensor(i).alarm
    BY <1>2, <1>3, <2>1, <2>5, Zenon
  <2> QED
    BY <2>3, <2>4, <2>6, Zenon
<1> QED
  BY <1>5, <1>6

\* All the rows that are reported, and those a list alarms for.
ReportedIn(d) == ReportedByEntities(d) \cup UNION {ReportedByGroup(g) : g \in d.groups}
AlarmsIn(sensors) == {s.oid : s \in {s \in sensors : s.alarm}}

\* A list of hardware has the alarms a device reports, and every override.
LEMMA InventoryIs ==
  ASSUME ReadingAssumption, NEW d \in Cases, d.kind = "hardware", NEW lost
  PROVE  LET sensors == Inventory(d, lost)
         IN  /\ AlarmsIn(sensors) \subseteq ReportedIn(d)
             /\ lost.gets \cup lost.walks = {} /\ Cardinality(DOMAIN d.values) <= MaxRows
                  /\ Cardinality(DOMAIN d.statuses) <= MaxRows => AlarmsIn(sensors) = ReportedIn(d)
             /\ \A o \in ToSet(d.manual) :
                  LET there == {s \in sensors : s.oid = o.oid}
                  IN  there # {} /\ ((\A s \in there : s.from # "manual") \/ Cardinality(there) = 1)
<1> DEFINE base == Listed(d, lost)
           sensors == Inventory(d, lost)
<1>1. d.manual \in Seq(ToSet(d.manual))
  BY CaseAssumption DEF IsList
<1>2. sensors = WithManual(d, lost, base)
  BY DEF Inventory, Listed
<1>3. \A s \in base : s.from # "manual" /\ (s.alarm => s.oid \in ReportedIn(d))
  <2>1. ASSUME NEW s \in EntitySensors(d, lost) PROVE s.from # "manual" /\ (s.alarm => s.oid \in ReportedIn(d))
    <3>1. s.from = "entity" /\ (s.alarm => s.oid \in ReportedByEntities(d))
      BY EntitySensorsAre, Zenon
    <3> QED
      BY <3>1 DEF ReportedIn
  <2>2. ASSUME NEW g \in d.groups, NEW s \in GroupSensors(g, lost)
        PROVE  s.from # "manual" /\ (s.alarm => s.oid \in ReportedIn(d))
    <3>1. s.from = "template" /\ (s.alarm => s.oid \in ReportedByGroup(g))
      BY GroupSensorsAre, Zenon
    <3> QED
      BY <3>1 DEF ReportedIn
  <2> QED
    BY <2>1, <2>2 DEF Listed
<1> HIDE DEF base, sensors
<1>4. ASSUME NEW s \in sensors, s.alarm PROVE s.oid \in ReportedIn(d)
  <2>1. CASE s \in base
    BY <1>3, <1>4, <2>1
  <2>2. CASE s \notin base
    <3>1. PICK i \in AddedTo(d, base) : s = ManualSensor(d.manual[i], lost)
      BY <1>2, <2>2, WithManualIs
    <3>2. s.alarm = FALSE
      BY <3>1, Zenon DEF ManualSensor
    <3> QED
      BY <1>4, <3>2, Zenon
  <2> QED
    BY <2>1, <2>2
<1>5. AlarmsIn(sensors) \subseteq ReportedIn(d)
  BY <1>4, Zenon DEF AlarmsIn
<1>6. ASSUME lost.gets \cup lost.walks = {}, Cardinality(DOMAIN d.values) <= MaxRows,
             Cardinality(DOMAIN d.statuses) <= MaxRows, NEW o \in ReportedIn(d)
      PROVE  o \in AlarmsIn(sensors)
  <2>1. lost.gets = {} /\ lost.walks = {}
    BY <1>6
  <2>2. \E s \in base : s.oid = o /\ s.alarm
    <3>1. CASE o \in ReportedByEntities(d)
      <4>1. PICK s \in EntitySensors(d, lost) : s.oid = o /\ s.alarm
        BY <1>6, <2>1, <3>1, EntitySensorsAre, Zenon
      <4> QED
        BY <4>1, Zenon DEF base, Listed
    <3>2. ASSUME NEW g \in d.groups, o \in ReportedByGroup(g) PROVE \E s \in base : s.oid = o /\ s.alarm
      <4>1. PICK s \in GroupSensors(g, lost) : s.oid = o /\ s.alarm
        BY <2>1, <3>2, GroupSensorsAre, Zenon
      <4> QED
        BY <4>1, Zenon DEF base, Listed
    <3> QED
      BY <1>6, <3>1, <3>2, Zenon DEF ReportedIn
  <2>3. base \subseteq sensors
    BY <1>2, WithManualIs
  <2> QED
    BY <2>2, <2>3, Zenon DEF AlarmsIn
<1>7. ASSUME NEW o \in ToSet(d.manual)
      PROVE  LET there == {s \in sensors : s.oid = o.oid}
             IN  there # {} /\ ((\A s \in there : s.from # "manual") \/ Cardinality(there) = 1)
  <2> DEFINE there == {s \in sensors : s.oid = o.oid}
  <2>1. PICK i \in DOMAIN d.manual : o = d.manual[i]
    BY DEF ToSet
  <2>2. there # {}
    <3>1. \E s \in WithManual(d, lost, base) : s.oid = d.manual[i].oid
      BY <1>1, ManualIsShown
    <3> QED
      BY <1>2, <2>1, <3>1
  <2>3. ASSUME NEW s \in there, s.from = "manual" PROVE Cardinality(there) = 1
    <3>1. ASSUME NEW t \in there PROVE t = s
      <4>1. t \in WithManual(d, lost, base) /\ s \in WithManual(d, lost, base) /\ t.oid = s.oid
        BY <1>2
      <4>2. \A x \in base : x.from # "manual"
        BY <1>3
      <4> QED
        BY <1>1, <2>3, <4>1, <4>2, ManualIsAlone
    <3>2. there = {s}
      BY <3>1
    <3> QED
      BY <3>2, FS_Singleton
  <2> QED
    BY <2>2, <2>3
<1> QED
  BY <1>5, <1>6, <1>7 DEF sensors

-----------------------------------------------------------------------------
\* The rows for a port, and what it is for a neighbour to be given by them.
RowsOf(rows, p) == {i \in DOMAIN rows : rows[i].port = p}
GivenBy(rows, n) ==
  /\ \E i \in RowsOf(rows, n.port) : rows[i].name = n.name
  /\ n.remote \subseteq {rows[i].remote : i \in RowsOf(rows, n.port)}

\* A text is of a row for the port, and there is one when such a row has been read.
IsTextOf(text, rows, column, k, p) ==
  /\ \A x, y \in text : x = y
  /\ \A x \in text : \E i \in RowsOf(rows, p) : x = rows[i][column]
  /\ \A i \in 1 .. k : rows[i].port = p /\ rows[i][column] # "" => text # {}

\* A text of a port is the text of one of its rows.
LEMMA TextIs ==
  ASSUME NEW S, NEW rows \in Seq(S), NEW column, NEW k \in 0 .. Len(rows), NEW p
  PROVE  IsTextOf(TextOfPort(rows, column, k, p), rows, column, k, p)
<1> DEFINE of == {i \in 1 .. k : rows[i].port = p /\ rows[i][column] # ""}
           last == CHOOSE i \in of : \A j \in of : j <= i
<1>1. TextOfPort(rows, column, k, p) = IF of = {} THEN {} ELSE {rows[last][column]}
  BY DEF TextOfPort
<1>2. of \in SUBSET (0 .. k) /\ k \in Nat /\ of \subseteq RowsOf(rows, p)
  <2>1. Len(rows) \in Nat /\ DOMAIN rows = 1 .. Len(rows)
    OBVIOUS
  <2>2. \A i \in of : i \in 1 .. k /\ rows[i].port = p
    BY Zenon
  <2> HIDE DEF of
  <2>3. k \in Nat /\ \A i \in of : i \in 0 .. k /\ i \in DOMAIN rows
    BY <2>1, <2>2
  <2> QED
    BY <2>2, <2>3 DEF RowsOf
<1>3. of # {} => last \in of
  <2> HIDE DEF of
  <2>1. of # {} => \E i \in of : \A j \in of : j <= i
    BY <1>2, LastNumber
  <2> QED
    BY <2>1, Zenon
<1>4. \A i \in 1 .. k : rows[i].port = p /\ rows[i][column] # "" => i \in of
  OBVIOUS
<1> HIDE DEF last, of
<1> QED
  BY <1>1, <1>2, <1>3, <1>4 DEF IsTextOf

\* A limit cuts nothing that is shorter than it.
LEMMA CappedIs ==
  ASSUME NEW S, NEW rows \in Seq(S), NEW n \in Int
  PROVE  Capped(n, rows) \in 0 .. Len(rows) /\ (n >= Len(rows) => Capped(n, rows) = Len(rows))
  BY DEF Capped

\* The neighbours that are there are given by the rows, one for a port.
AreBeside(there, rows, reach) ==
  /\ \A n \in there : GivenBy(rows, n)
  /\ \A m, n \in there : m.port = n.port => m = n
  /\ reach >= 2 * Len(rows) =>
       \A i \in DOMAIN rows : rows[i].name # "" => \E n \in there : n.port = rows[i].port

\* The neighbours in a table are those its rows give, one for a port; and each row with a
\* name has one when the table is read to its end.
LEMMA NeighborsInAre ==
  ASSUME NEW S, NEW rows \in Seq(S), NEW first, NEW second, NEW reach \in Int
  PROVE  AreBeside(NeighborsIn(rows, first, second, reach), rows, reach)
<1> DEFINE upTo(column) == Capped(IF column = first THEN reach ELSE reach - Len(rows), rows)
           text(column, p) == TextOfPort(rows, column, upTo(column), p)
           neighbor(p) == {[port |-> p, name |-> n, remote |-> text("remote", p)] : n \in text("name", p)}
           there == NeighborsIn(rows, first, second, reach)
<1>1. there = UNION {neighbor(rows[i].port) : i \in DOMAIN rows}
  BY DEF NeighborsIn
<1>2. Len(rows) \in Nat /\ DOMAIN rows = 1 .. Len(rows)
  OBVIOUS
<1>3. \A column : upTo(column) \in 0 .. Len(rows) /\ (reach >= 2 * Len(rows) => upTo(column) = Len(rows))
  <2>1. \A column : (IF column = first THEN reach ELSE reach - Len(rows)) \in Int
                    /\ (reach >= 2 * Len(rows) => (IF column = first THEN reach ELSE reach - Len(rows)) >= Len(rows))
    BY <1>2
  <2> QED
    BY <2>1, CappedIs
<1> HIDE DEF upTo, there
<1>4. ASSUME NEW n \in there
      PROVE  n.name \in text("name", n.port) /\ n.remote = text("remote", n.port)
             /\ n = [port |-> n.port, name |-> n.name, remote |-> text("remote", n.port)]
  <2>1. PICK i \in DOMAIN rows : n \in neighbor(rows[i].port)
    BY <1>1
  <2>2. PICK x \in text("name", rows[i].port) : n = [port |-> rows[i].port, name |-> x, remote |-> text("remote", rows[i].port)]
    BY <2>1
  <2> HIDE DEF text
  <2>3. n.port = rows[i].port /\ n.name = x /\ n.remote = text("remote", rows[i].port)
    BY <2>2
  <2> QED
    BY <2>2, <2>3
<1>5. ASSUME NEW column, NEW p PROVE IsTextOf(text(column, p), rows, column, upTo(column), p)
  BY <1>3, TextIs
<1>6. ASSUME NEW n \in there PROVE GivenBy(rows, n)
  <2> HIDE DEF text
  <2>1. PICK i \in RowsOf(rows, n.port) : n.name = rows[i].name
    <3>1. IsTextOf(text("name", n.port), rows, "name", upTo("name"), n.port)
      BY <1>5
    <3>2. \A x \in text("name", n.port) : \E j \in RowsOf(rows, n.port) : x = rows[j].name
      BY <3>1 DEF IsTextOf
    <3> QED
      BY <1>4, <3>2
  <2>2. \A x \in n.remote : \E j \in RowsOf(rows, n.port) : x = rows[j].remote
    <3>1. IsTextOf(text("remote", n.port), rows, "remote", upTo("remote"), n.port)
      BY <1>5
    <3>2. \A x \in text("remote", n.port) : \E j \in RowsOf(rows, n.port) : x = rows[j].remote
      BY <3>1 DEF IsTextOf
    <3> QED
      BY <1>4, <3>2
  <2> QED
    BY <2>1, <2>2 DEF GivenBy
<1>7. ASSUME NEW m \in there, NEW n \in there, m.port = n.port PROVE m = n
  <2> HIDE DEF text
  <2>1. m.name = n.name
    BY <1>4, <1>5, <1>7 DEF IsTextOf
  <2> QED
    BY <1>4, <1>7, <2>1
<1>8. ASSUME reach >= 2 * Len(rows), NEW i \in DOMAIN rows, rows[i].name # ""
      PROVE  \E n \in there : n.port = rows[i].port
  <2>1. i \in 1 .. upTo("name")
    BY <1>2, <1>3, <1>8
  <2>2. PICK x \in text("name", rows[i].port) : TRUE
    <3>1. IsTextOf(text("name", rows[i].port), rows, "name", upTo("name"), rows[i].port)
      BY <1>5
    <3>2. \A j \in 1 .. upTo("name") : rows[j].port = rows[i].port /\ rows[j].name # "" => text("name", rows[i].port) # {}
      BY <3>1 DEF IsTextOf
    <3> QED
      BY <1>8, <2>1, <3>2
  <2> DEFINE n == [port |-> rows[i].port, name |-> x, remote |-> text("remote", rows[i].port)]
  <2>3. n \in neighbor(rows[i].port)
    BY <2>2
  <2> HIDE DEF text, n, neighbor
  <2>4. n \in there
    BY <1>1, <2>3
  <2>5. n.port = rows[i].port
    BY DEF n
  <2> QED
    BY <2>5, <2>4
<1> QED
  BY <1>6, <1>7, <1>8 DEF there, AreBeside

\* The neighbour of a port is the one LLDP has for it, or the one CDP has.
LEMMA PortNeighborsAre ==
  ASSUME NEW d \in Cases, d.kind = "neighbors", NEW lost
  PROVE  /\ \A n \in PortNeighbors(d, lost) : GivenBy(d.lldp, n) \/ GivenBy(d.cdp, n)
         /\ \A m, n \in PortNeighbors(d, lost) : m.port = n.port => m = n
         /\ lost.gets \cup lost.walks = {} =>
              \A n \in PortNeighbors(d, lost) :
                (\E i \in RowsOf(d.lldp, n.port) : d.lldp[i].name # "") => GivenBy(d.lldp, n)
<1> DEFINE reach(rows, which) == IF which \in lost.walks THEN d.cut ELSE 2 * Len(rows)
           lldp == NeighborsIn(d.lldp, "remote", "name", reach(d.lldp, "lldp"))
           cdp  == NeighborsIn(d.cdp, "name", "remote", reach(d.cdp, "cdp"))
           both == PortNeighbors(d, lost)
<1>1. both = lldp \cup {n \in cdp : \A l \in lldp : l.port # n.port}
  BY DEF PortNeighbors
<1>2. d.lldp \in Seq(ToSet(d.lldp)) /\ d.cdp \in Seq(ToSet(d.cdp)) /\ d.cut \in Nat
  BY CaseAssumption DEF IsList
<1>3. reach(d.lldp, "lldp") \in Int /\ reach(d.cdp, "cdp") \in Int
  BY <1>2
<1>4. lost.gets \cup lost.walks = {} => reach(d.lldp, "lldp") >= 2 * Len(d.lldp)
  BY <1>2
<1> HIDE DEF reach
<1>5. /\ \A n \in lldp : GivenBy(d.lldp, n)
      /\ \A m, n \in lldp : m.port = n.port => m = n
      /\ reach(d.lldp, "lldp") >= 2 * Len(d.lldp) =>
           \A i \in DOMAIN d.lldp : d.lldp[i].name # "" => \E n \in lldp : n.port = d.lldp[i].port
  <2>1. AreBeside(lldp, d.lldp, reach(d.lldp, "lldp"))
    BY <1>2, <1>3, NeighborsInAre
  <2> HIDE DEF lldp
  <2> QED
    BY <2>1 DEF AreBeside
<1>6. /\ \A n \in cdp : GivenBy(d.cdp, n)
      /\ \A m, n \in cdp : m.port = n.port => m = n
  <2>1. AreBeside(cdp, d.cdp, reach(d.cdp, "cdp"))
    BY <1>2, <1>3, NeighborsInAre
  <2> HIDE DEF cdp
  <2> QED
    BY <2>1 DEF AreBeside
<1> HIDE DEF lldp, cdp, both
<1>7. \A m, n \in both : m.port = n.port => m = n
  BY <1>1, <1>5, <1>6
<1>8. ASSUME lost.gets \cup lost.walks = {}, NEW n \in both, NEW i \in RowsOf(d.lldp, n.port), d.lldp[i].name # ""
      PROVE  GivenBy(d.lldp, n)
  <2>1. PICK l \in lldp : l.port = n.port
    BY <1>4, <1>5, <1>8 DEF RowsOf
  <2> QED
    BY <1>1, <1>5, <2>1
<1> QED
  BY <1>1, <1>5, <1>6, <1>7, <1>8 DEF both

-----------------------------------------------------------------------------
\* What was read: by the polling loop first, then by the diagnosis.
LEMMA ReadingsAre ==
  ASSUME ReadingsInv
  PROVE  /\ polled # <<>> => \E lost : polled[1] = PolledOf(case, lost)
         /\ diagnosed # <<>> => polled # <<>> /\ \E lost : diagnosed[1] = DiagnosedOf(case, lost)
         /\ \A r \in ToSet(polled \o diagnosed) :
              \E lost : r = PolledOf(case, lost) \/ (case.kind \in {"cpu", "memory", "hardware"} /\ r = DiagnosedOf(case, lost))
<1>1. polled = <<>> \/ \E lost : polled = <<PolledOf(case, lost)>>
  BY DEF ReadingsInv
<1>2. diagnosed = <<>> \/ (case.kind \in {"cpu", "memory", "hardware"} /\ \E lost : diagnosed = <<DiagnosedOf(case, lost)>>)
  BY DEF ReadingsInv
<1>3. \A x : <<x>>[1] = x /\ ToSet(<<x>>) = {x}
  BY DEF ToSet
<1>4. ToSet(<<>>) = {}
  BY DEF ToSet
<1>5. \A S : <<>> \in Seq(S) /\ \A x \in S : <<x>> \in Seq(S)
  OBVIOUS
<1>6. ToSet(polled \o diagnosed) = ToSet(polled) \cup ToSet(diagnosed)
  <2> DEFINE S == ToSet(polled) \cup ToSet(diagnosed)
  <2>1. polled \in Seq(S)
    <3>1. polled \in Seq(ToSet(polled))
      BY <1>1, <1>3, <1>5
    <3>2. ToSet(polled) \subseteq S
      OBVIOUS
    <3> HIDE DEF S
    <3> QED
      BY <3>1, <3>2
  <2>2. diagnosed \in Seq(S)
    <3>1. diagnosed \in Seq(ToSet(diagnosed))
      <4>1. CASE diagnosed = <<>>
        BY <1>5, <4>1
      <4>2. CASE \E lost : diagnosed = <<DiagnosedOf(case, lost)>>
        <5>1. PICK x : diagnosed = <<x>>
          BY <4>2
        <5> QED
          BY <1>3, <1>5, <5>1
      <4> QED
        BY <1>2, <4>1, <4>2
    <3>2. ToSet(diagnosed) \subseteq S
      OBVIOUS
    <3> HIDE DEF S
    <3> QED
      BY <3>1, <3>2
  <2> HIDE DEF S
  <2> QED
    BY <2>1, <2>2, OfBoth
<1>7. polled # <<>> => \E lost : polled[1] = PolledOf(case, lost)
  BY <1>1
<1>8. diagnosed # <<>> => polled # <<>> /\ \E lost : diagnosed[1] = DiagnosedOf(case, lost)
  BY <1>2 DEF ReadingsInv
<1>9. \A r \in ToSet(polled) : \E lost : r = PolledOf(case, lost)
  BY <1>1, <1>3, <1>4
<1>10. \A r \in ToSet(diagnosed) : case.kind \in {"cpu", "memory", "hardware"} /\ \E lost : r = DiagnosedOf(case, lost)
  BY <1>2, <1>3, <1>4
<1> QED
  BY <1>6, <1>7, <1>9, <1>10, <1>8

\* Each part of what is to be shown follows, for a value that was read, from the lemma on it.
LEMMA ExplainsHolds ==
  ASSUME ReadingsInv PROVE DiagnosisExplainsPoll
<1> SUFFICES ASSUME case.kind = "cpu", diagnosed # <<>>, diagnosed[1].lost = polled[1].lost,
                    \A o \in case.override : ~(Got(case, polled[1].lost, o) = {} /\ RowsGot(case, polled[1].lost, o) # <<>>)
             PROVE  \/ diagnosed[1].value = polled[1].value
                    \/ /\ polled[1].value = TableAverage(case, polled[1].lost, case.standard)
                       /\ \E v \in polled[1].value : ~Percentage(v)
  BY DEF DiagnosisExplainsPoll
<1> DEFINE lost == polled[1].lost
<1>1. PICK l, m : polled[1] = PolledOf(case, l) /\ diagnosed[1] = DiagnosedOf(case, m)
  BY ReadingsAre
<1>2. polled[1].lost = l /\ polled[1].value = PolledCpu(case, l)
  BY <1>1, ReadIs DEF PolledOf
<1>3. diagnosed[1].lost = m /\ diagnosed[1].value = DiagnosedCpu(case, m)
  BY <1>1, ReadIs DEF DiagnosedOf
<1>4. m = l /\ \A o \in case.override : Got(case, l, o) # {} \/ RowsGot(case, l, o) = <<>>
  BY <1>2, <1>3
<1> QED
  BY <1>2, <1>3, <1>4, DiagnosisExplains

\* So each part of SelectionIsFaithful holds: percentages are in their range,
LEMMA InRangeHolds ==
  ASSUME ReadingAssumption, ReadingsInv PROVE PercentagesAreInRange
<1> SUFFICES ASSUME NEW r \in ToSet(polled \o diagnosed)
             PROVE  /\ case.kind = "memory" => \A u \in r.value : Percentage(u.value)
                    /\ case.kind = "cpu" => \A v \in r.value :
                         Percentage(v) \/ r.value = TableAverage(case, r.lost, case.standard)
  BY DEF PercentagesAreInRange
<1>1. PICK lost : r = PolledOf(case, lost) \/ r = DiagnosedOf(case, lost)
  BY ReadingsAre
<1>2. case \in Cases
  BY DEF ReadingsInv
<1>3. CASE case.kind = "memory"
  <2>1. r.value = MemoryUsage(case, lost)
    BY <1>1, <1>3, ReadIs DEF PolledOf, DiagnosedOf
  <2> QED
    BY <1>2, <1>3, <2>1, MemoryIsInRange
<1>4. CASE case.kind = "cpu"
  <2>1. r.lost = lost /\ r.value \in {PolledCpu(case, lost), DiagnosedCpu(case, lost)}
    BY <1>1, <1>4, ReadIs DEF PolledOf, DiagnosedOf
  <2> QED
    BY <1>2, <1>4, <2>1, CpuIsInRange
<1> QED
  BY <1>3, <1>4

\* memory is that of one row,
LEMMA OneRowHolds ==
  ASSUME ReadingsInv PROVE MemoryIsOfOneRow
<1> SUFFICES ASSUME NEW r \in ToSet(polled \o diagnosed),
                    case.kind = "memory" /\ NothingLost(r) /\ case.override = {},
                    \A i \in RamRows(case) : {} \notin {case.storage[i].units, case.storage[i].size, case.storage[i].used},
                    NEW u \in r.value
             PROVE  \/ u.from[1] = "source" /\ \E k \in DOMAIN case.sources :
                         u.from[2] = k /\ (case.sources[k].mode = "direct" \/ ~case.sources[k].bytes)
                    \/ \E b \in r.bytes : b.from = u.from
  BY DEF MemoryIsOfOneRow
<1>1. PICK lost : r = PolledOf(case, lost) \/ r = DiagnosedOf(case, lost)
  BY ReadingsAre
<1>2. r.lost = lost /\ r.value = MemoryUsage(case, lost) /\ r.bytes = MemoryBytes(case, lost)
  BY <1>1, ReadIs DEF PolledOf, DiagnosedOf
<1>3. case \in Cases /\ lost.gets \cup lost.walks = {}
  BY <1>2 DEF ReadingsInv, NothingLost
<1> QED
  BY <1>2, <1>3, MemoryRowIsOne

\* optical power is that of a sensor of the port,
LEMMA PowerHolds ==
  ASSUME ReadingAssumption, ReadingsInv PROVE PowerIsOfThePort
<1> SUFFICES ASSUME case.kind = "dom", polled # <<>>, NEW p \in DOMAIN polled[1].value, NEW metric \in {"rx", "tx"},
                    NEW v \in polled[1].value[p][metric]
             PROVE  \E s \in case.sensors :
                      /\ s.power = v /\ s.shows = {metric} /\ ~s.lane /\ s.works
                      /\ \E a \in case.aliases :
                           a[2] = p /\ p > 0 /\ AliasOf(case, a[1]) = {p} /\ IsInside(case, a[1], s.entity)
                      /\ \A t \in case.sensors \ {s} :
                           t.shows = {metric} /\ t.works /\ ~t.lane => p \notin EntityPort(case, t.entity)
  BY DEF PowerIsOfThePort
<1>1. PICK lost : polled[1] = PolledOf(case, lost)
  BY ReadingsAre
<1>2. polled[1].value = OpticalPower(case)
  BY <1>1, ReadIs DEF PolledOf
<1>3. polled[1].value[p] = [rx |-> PortPower(case, "rx", p), tx |-> PortPower(case, "tx", p)]
  BY <1>2 DEF OpticalPower
<1>4. v \in PortPower(case, metric, p)
  BY <1>3
<1>5. case \in Cases
  BY DEF ReadingsInv
<1> QED
  BY <1>4, <1>5, PowerIsOfOne

\* the template is the closest,
LEMMA ClosestHolds ==
  ASSUME ReadingsInv PROVE TemplateIsTheClosest
<1> SUFFICES ASSUME case.kind = "template", polled # <<>>
             PROVE  LET usable == Usable(case)
                        used == polled[1].value
                    IN  IF usable = {} THEN used = case.bundled[1]
                        ELSE /\ used \in usable /\ \A t \in usable : Len(t.selector) <= Len(used.selector)
                             /\ (\E t \in ToSet(case.custom) : t.selector = used.selector) => used \in ToSet(case.custom)
  BY DEF TemplateIsTheClosest, Usable
<1>1. PICK lost : polled[1] = PolledOf(case, lost)
  BY ReadingsAre
<1>2. polled[1].value = Selected(Loaded(case.bundled, case.custom), case.oid)
  BY <1>1, ReadIs DEF PolledOf
<1>3. case \in Cases
  BY DEF ReadingsInv
<1> QED
  BY <1>2, <1>3, ClosestIs

\* alarms are of what is reported,
LEMMA AlarmsHold ==
  ASSUME ReadingAssumption, ReadingsInv PROVE AlarmsAreReported
<1> DEFINE Good(r) ==
             LET alarms == {s.oid : s \in {s \in r.value : s.alarm}}
             IN  /\ alarms \subseteq ReportedIn(case)
                 /\ NothingLost(r) /\ Cardinality(DOMAIN case.values) <= MaxRows
                      /\ Cardinality(DOMAIN case.statuses) <= MaxRows => alarms = ReportedIn(case)
                 /\ \A o \in ToSet(case.manual) :
                      LET there == {s \in r.value : s.oid = o.oid}
                      IN  there # {} /\ ((\A s \in there : s.from # "manual") \/ Cardinality(there) = 1)
<1> SUFFICES ASSUME case.kind = "hardware"
             PROVE  /\ \A r \in ToSet(polled \o diagnosed) : Good(r)
                    /\ diagnosed # <<>> /\ diagnosed[1].lost = polled[1].lost => diagnosed[1].value = polled[1].value
  BY Zenon DEF AlarmsAreReported, ReportedIn, ReportedByEntities, ReportedByGroup
<1>1. case \in Cases
  BY DEF ReadingsInv
<1>2. ASSUME NEW r \in ToSet(polled \o diagnosed) PROVE Good(r)
  <2>1. PICK lost : r = PolledOf(case, lost) \/ r = DiagnosedOf(case, lost)
    BY ReadingsAre
  <2>2. DiagnosedInventory(case, lost) = Inventory(case, lost)
    BY <1>1, DiagnosedIsPolled
  <2>3. r.lost = lost /\ r.value = Inventory(case, lost)
    BY <2>1, <2>2, ReadIs DEF PolledOf, DiagnosedOf
  <2> DEFINE sensors == Inventory(case, lost)
  <2>4. /\ AlarmsIn(sensors) \subseteq ReportedIn(case)
        /\ lost.gets \cup lost.walks = {} /\ Cardinality(DOMAIN case.values) <= MaxRows
             /\ Cardinality(DOMAIN case.statuses) <= MaxRows => AlarmsIn(sensors) = ReportedIn(case)
        /\ \A o \in ToSet(case.manual) :
             LET there == {s \in sensors : s.oid = o.oid}
             IN  there # {} /\ ((\A s \in there : s.from # "manual") \/ Cardinality(there) = 1)
    BY <1>1, InventoryIs
  <2> HIDE DEF sensors
  <2>5. r.value = sensors /\ r.lost = lost
    BY <2>3 DEF sensors
  <2> QED
    BY <2>4, <2>5, Zenon DEF AlarmsIn, NothingLost
<1>3. ASSUME diagnosed # <<>>, diagnosed[1].lost = polled[1].lost PROVE diagnosed[1].value = polled[1].value
  <2>1. PICK l, m : polled[1] = PolledOf(case, l) /\ diagnosed[1] = DiagnosedOf(case, m)
    BY <1>3, ReadingsAre
  <2>2. polled[1].lost = l /\ polled[1].value = Inventory(case, l)
    BY <2>1, ReadIs DEF PolledOf
  <2>3. diagnosed[1].lost = m /\ diagnosed[1].value = DiagnosedInventory(case, m)
    BY <2>1, ReadIs DEF DiagnosedOf
  <2> QED
    BY <1>1, <1>3, <2>2, <2>3, DiagnosedIsPolled
<1> QED
  BY <1>2, <1>3

\* and neighbours are those of the port.
LEMMA NeighborsHold ==
  ASSUME ReadingsInv PROVE NeighborsAreOfThePort
<1> DEFINE Fits(rows, n) ==
             /\ \E i \in RowsOf(rows, n.port) : rows[i].name = n.name
             /\ Cardinality(RowsOf(rows, n.port)) = 1 => n.remote \subseteq {rows[i].remote : i \in RowsOf(rows, n.port)}
<1> SUFFICES ASSUME case.kind = "neighbors", polled # <<>>, NEW n \in polled[1].value
             PROVE  /\ Fits(case.lldp, n) \/ Fits(case.cdp, n)
                    /\ \A m \in polled[1].value : m.port = n.port => m = n
                    /\ NothingLost(polled[1]) /\ (\E i \in RowsOf(case.lldp, n.port) : case.lldp[i].name # "") => Fits(case.lldp, n)
  BY Zenon DEF NeighborsAreOfThePort, RowsOf
<1>1. PICK lost : polled[1] = PolledOf(case, lost)
  BY ReadingsAre
<1>2. polled[1].lost = lost /\ polled[1].value = PortNeighbors(case, lost)
  BY <1>1, ReadIs DEF PolledOf
<1>3. case \in Cases
  BY DEF ReadingsInv
<1>4. \A rows : GivenBy(rows, n) => Fits(rows, n)
  BY DEF GivenBy
<1>5. /\ GivenBy(case.lldp, n) \/ GivenBy(case.cdp, n)
      /\ \A m \in PortNeighbors(case, lost) : m.port = n.port => m = n
      /\ lost.gets \cup lost.walks = {} /\ (\E i \in RowsOf(case.lldp, n.port) : case.lldp[i].name # "") => GivenBy(case.lldp, n)
  <2> DEFINE both == PortNeighbors(case, lost)
  <2>1. /\ \A x \in both : GivenBy(case.lldp, x) \/ GivenBy(case.cdp, x)
        /\ \A m, x \in both : m.port = x.port => m = x
        /\ lost.gets \cup lost.walks = {} =>
             \A x \in both : (\E i \in RowsOf(case.lldp, x.port) : case.lldp[i].name # "") => GivenBy(case.lldp, x)
    BY <1>3, PortNeighborsAre, Zenon
  <2>2. n \in both
    BY <1>2
  <2> HIDE DEF both
  <2> QED
    BY <2>1, <2>2, Zenon DEF both
<1> HIDE DEF Fits
<1> QED
  BY <1>2, <1>4, <1>5 DEF NothingLost

-----------------------------------------------------------------------------
\* One task runs at a time: a step is one of the walk, or leaves it alone.
LEMMA StepOfWalk == [Next]_vars => [WalkNext]_walkVars
  BY DEF Next, Walking, Drawing, Sampling, Reading, vars

\* Or it is a step of the polls,
LEMMA StepOfSamples == [Next]_vars => [SamplesNext]_sampleVars
  BY DEF Next, Walking, Drawing, Sampling, Reading, vars

\* of the discovery,
LEMMA StepOfTopology == [Next]_vars => [TopologyNext]_topologyVars
  BY DEF Next, Walking, Drawing, Sampling, Reading, vars

\* or of the readings.
LEMMA StepOfReadings == [Next]_vars => [ReadingsNext]_readingVars
  BY DEF Next, Walking, Drawing, Sampling, Reading, vars

\* Every walk goes forward within its prefix and its limit, skips no row that stays, ends
\* with a status that is true, and sends at most one request once it is cancelled
\* (walk_oid_with_limit, walk_with).
THEOREM WalksAreHonestHolds == Spec => []WalksAreHonest
<1>1. Init => WalkInv
  BY WalkAssumption, WalkInitInv DEF Init
<1>2. WalkInv /\ [Next]_vars => WalkInv'
  BY WalkAssumption, WalkStepInv, StepOfWalk
<1>3. WalkInv => WalksAreHonest
  BY WalkAssumption, WalkInvIsHonest
<1> QED
  BY <1>1, <1>2, <1>3, PTL DEF Spec

\* The difference of two samples is never more than was counted, but for a restart near the
\* end of the counter, and exact where it can be; a poll whose answers all arrive samples
\* every interface that is there throughout, and no poll samples one twice
\* (discover_interface_indexes, query_interface, counter32_delta).
THEOREM SamplesAreTrueHolds == Spec => []SamplesAreTrue
<1>1. Init => SamplesInv
  BY SampleAssumption, SamplesInitInv DEF Init
<1>2. SamplesInv /\ [Next]_vars => SamplesInv'
  BY SampleAssumption, SamplesStepInv, StepOfSamples
<1>3. SamplesInv => SamplesAreTrue
  BY SampleAssumption, SamplesInvIsTrue
<1> QED
  BY <1>1, <1>2, <1>3, PTL DEF Spec

\* A topology that is drawn can be drawn: the seed first, both ends of every link there, no
\* node and no link twice, what the node limit hides counted; no link says of a neighbour
\* what no row of the device says, however the tables were cut and merged; and a link is
\* shown as faulty for the local port it is at only (discover_topology_once,
\* merge_duplicate_edges, rebuild_nodes, annotate_edge_health, apply_node_limit).
THEOREM TopologyIsSoundHolds == Spec => []TopologyIsSound
<1>1. Init => TopologyInv
  BY WorldAssumption, TopologyInitInv DEF Init
<1>2. TopologyInv /\ [Next]_vars => TopologyInv'
  BY TopologyAssumption, WorldAssumption, TopologyStepInv, StepOfTopology
<1>3. TopologyInv => TopologyIsSound
  BY DEF TopologyInv
<1> QED
  BY <1>1, <1>2, <1>3, PTL DEF Spec

\* A topology for which no answer was lost shows the whole of the device: every row has its
\* link unless the node limit hides some, to the address the row gives or else to the name; a
\* link is at the port the neighbour is connected to, or at none, unless what the device says
\* of that port fits another interface and not that one; and where nothing is missing from the
\* quality every neighbour is at its port (normalize_lldp_neighbors, normalize_cdp_neighbors,
\* resolve_local_port, merge_duplicate_edges).
THEOREM TopologyIsCompleteHolds == Spec => []TopologyIsComplete
<1>1. Init => CompleteInv
  BY WorldAssumption, CompleteInitInv DEF Init
<1>2. CompleteInv /\ [Next]_vars => CompleteInv'
  BY TopologyAssumption, WorldAssumption, CompleteStepInv, StepOfTopology
<1>3. CompleteInv => TopologyIsComplete
  BY DEF CompleteInv
<1> QED
  BY <1>1, <1>2, <1>3, PTL DEF Spec

\* Of all the places a device may give a value in, the one that is named is shown: the polling
\* loop and the diagnosis agree, a percentage is one, memory is that of one row, power that of
\* one sensor of the port, a template the closest, an alarm one that is reported, a neighbour
\* one of the port (query_cpu_usage, diagnose_device, query_template_memory_source, query_dom,
\* TemplateRegistry::select, query_hardware_inventory, query_device_port_neighbors).
THEOREM SelectionIsFaithfulHolds == Spec => []SelectionIsFaithful
<1>1. Init => ReadingsInv
  BY ReadingsInitInv DEF Init
<1>2. ReadingsInv /\ [Next]_vars => ReadingsInv'
  BY ReadingsStepInv, StepOfReadings
<1>3. ReadingsInv => SelectionIsFaithful
  BY ReadingAssumption, ExplainsHolds, InRangeHolds, OneRowHolds, PowerHolds, ClosestHolds, AlarmsHold, NeighborsHold
     DEF SelectionIsFaithful
<1> QED
  BY <1>1, <1>2, <1>3, PTL DEF Spec
=============================================================================
