------------------------- MODULE Monitoring_proofs -------------------------
(***************************************************************************)
(* Proofs about the polling loop, for every set of devices and every       *)
(* number of registrations, cycles and restarts.                           *)
(***************************************************************************)
EXTENDS Monitoring, TLAPS

\* The step of the specification, split into its actions.
LEMMA NextCases ==
  ASSUME [Next]_vars
  PROVE  \/ StartCycle \/ Restart \/ UNCHANGED vars
         \/ \E d \in Devices : Probe(d)
         \/ \E d \in Devices : Apply(d)
         \/ \E d \in Devices : StopWithin(d)
         \/ \E d \in Devices : Register(d)
         \/ \E d \in Devices : Delete(d)
         \/ \E d \in Devices : Flip(d)
BY DEF Next

\* A refused or a stored sample leaves a well-formed table.
LEMMA SamplesAfterType ==
  ASSUME TypeOK, NEW i \in Ids, NEW s \in {"none", "calm", "spike"}
  PROVE  /\ SamplesAfter(i, s) \in [Ids -> {"none", "first", "calm", "spike"}]
         /\ \A j \in Ids : SamplesAfter(i, s)[j] # samples[j] => j = i /\ Registered(i)
BY DEF SamplesAfter, TypeOK

\* A result, and the row it was collected for, have their types.
LEMMA ResultType ==
  ASSUME TypeOK, NEW d \in Devices, results[d] # NoResult
  PROVE  /\ results[d] \in Result
         /\ results[d].status \in {"online", "warning", "offline"}
         /\ results[d].metric \in {"none", "ok"} \cup Severities
         /\ results[d].sample \in {"none", "calm", "spike"}
BY DEF TypeOK, Result

\* A touched row is a row.
LEMMA TouchedType ==
  ASSUME NEW row \in Row, NEW status \in {"online", "warning", "critical", "offline"}
  PROVE  Touched(row, status) \in Row
BY DEF Touched, Row

\* The type of what is published.
EventType == [ip: Devices, id: Ids, kind: {"offline", "metric", "spike"},
              severity: {"offline"} \cup Severities, saved: BOOLEAN]

\* An event about a device has the type of what is published.
LEMMA EventHasType ==
  ASSUME NEW d \in Devices, NEW i \in Ids, NEW k \in {"offline", "metric", "spike"},
         NEW s \in {"offline"} \cup Severities, NEW b \in BOOLEAN
  PROVE  Event(d, i, k, s, b) \in EventType
BY DEF Event, EventType

\* The histories keep their types.
LEMMA HistoriesType ==
  ASSUME TypeOK, NEW d \in Devices, NEW r \in Result, NEW i \in Ids, NEW announced
  PROVE  /\ NotifiedAfter(d, r, announced) \in [Devices -> BOOLEAN]
         /\ LevelAfter(i, r.metric) \in [Ids -> {"ok"} \cup Severities]
         /\ MissesAfter(d, r) \in [Devices -> 0 .. MaxMisses]
<1>1. NotifiedAfter(d, r, announced) \in [Devices -> BOOLEAN]
  BY DEF NotifiedAfter, TypeOK
<1>2. LevelAfter(i, r.metric) \in [Ids -> {"ok"} \cup Severities]
  BY DEF LevelAfter, TypeOK, Result
<1>3. MissesAfter(d, r) \in [Devices -> 0 .. MaxMisses]
  BY BoundAssumption DEF MissesAfter, TypeOK
<1> QED
  BY <1>1, <1>2, <1>3

\* A result belongs to a row of the cycle.
ResultsBelong == \A d \in Devices : results[d] # NoResult => polling[d] # Absent

\* The inductive type invariant.
TypeInv == TypeOK /\ ResultsBelong

LEMMA TypeInit == Init => TypeInv
BY BoundAssumption DEF Init, TypeInv, TypeOK, ResultsBelong, Row, Result, Ids, Severities

LEMMA TypeStep == TypeInv /\ [Next]_vars => TypeInv'
<1> SUFFICES ASSUME TypeInv, [Next]_vars PROVE TypeInv'
  OBVIOUS
<1> USE BoundAssumption DEF TypeInv
<1>1. CASE StartCycle
  BY <1>1 DEF StartCycle, TypeOK, ResultsBelong, tables, history
<1>2. CASE Restart
  BY <1>2 DEF Restart, StartAgain, TypeOK, ResultsBelong, tables, history
<1>3. CASE UNCHANGED vars
  BY <1>3 DEF vars, tables, loopVars, history, TypeOK, ResultsBelong
<1>4. ASSUME NEW d \in Devices, Probe(d) PROVE TypeInv'
  BY <1>4 DEF Probe, TypeOK, ResultsBelong, tables, history
<1>5. ASSUME NEW d \in Devices, Register(d) PROVE TypeInv'
  <2>1. [id |-> nextId, status |-> "online", seen |-> "rfc3339"] \in Row
    BY <1>5 DEF Register, TypeOK, Row, Ids
  <2> QED
    BY <1>5, <2>1 DEF Register, TypeOK, ResultsBelong, loopVars, Ids
<1>6. ASSUME NEW d \in Devices, Delete(d) PROVE TypeInv'
  BY <1>6 DEF Delete, TypeOK, ResultsBelong, loopVars, history
<1>7. ASSUME NEW d \in Devices, Flip(d) PROVE TypeInv'
  BY <1>7 DEF Flip, TypeOK, ResultsBelong, loopVars, tables, history
<1>8. ASSUME NEW d \in Devices, Apply(d) PROVE TypeInv'
  <2> DEFINE r == results[d]  row == polling[d]
  <2>0. /\ r \in Result /\ r.metric \in {"none", "ok"} \cup Severities
        /\ r.status \in {"online", "warning", "offline"}
        /\ r.sample \in {"none", "calm", "spike"}
    BY <1>8, ResultType DEF Apply
  <2>1. row \in Row /\ row.id \in Ids
    BY <1>8 DEF Apply, TypeOK, ResultsBelong, Row
  <2>2. devices' \in [Devices -> Row \cup {Absent}]
    <3>1. ShownStatus(r) \in {"online", "warning", "critical", "offline"}
      BY <2>0 DEF ShownStatus, Severities
    <3>2. devices[d] # Absent => Touched(devices[d], ShownStatus(r)) \in Row
      BY <3>1, TouchedType DEF TypeOK
    <3> QED
      BY <1>8, <3>2 DEF Apply, TypeOK
  <2>3. samples' \in [Ids -> {"none", "first", "calm", "spike"}]
    BY <1>8, <2>0, <2>1, SamplesAfterType DEF Apply
  <2>4. active' \in [Ids -> {"none"} \cup Severities]
    BY <1>8, <2>0 DEF Apply, ActiveAfter, TypeOK
  <2>5. outbox' \subseteq EventType
    <3>1. Registered(row.id) \in BOOLEAN
      BY DEF Registered
    <3>2. OfflineEvents(d, row, r) \subseteq EventType
      BY <2>1, EventHasType DEF OfflineEvents
    <3>3. MetricEvents(d, row, r) \subseteq EventType
      BY <2>0, <2>1, <3>1, EventHasType DEF MetricEvents, Raised
    <3>4. SpikeEvents(d, row, r) \subseteq EventType
      BY <2>1, <3>1, EventHasType DEF SpikeEvents, Severities
    <3> QED
      BY <1>8, <3>2, <3>3, <3>4 DEF Apply
  <2>6. notified' \in [Devices -> BOOLEAN]
    BY <1>8, <2>0, <2>1, HistoriesType DEF Apply
  <2>7. level' \in [Ids -> {"ok"} \cup Severities]
    BY <1>8, <2>0, <2>1, HistoriesType DEF Apply
  <2>8. misses' \in [Devices -> 0 .. MaxMisses]
    BY <1>8, <2>0, <2>1, HistoriesType DEF Apply
  <2>9. polling' \in [Devices -> Row \cup {Absent}] /\ results' \in [Devices -> Result \cup {NoResult}]
    BY <1>8 DEF Apply, TypeOK
  <2>10. ResultsBelong'
    BY <1>8 DEF Apply, TypeOK, ResultsBelong
  <2> QED
    BY <1>8, <2>2, <2>3, <2>4, <2>5, <2>6, <2>7, <2>8, <2>9, <2>10 DEF Apply, TypeOK, EventType
<1>9. ASSUME NEW d \in Devices, StopWithin(d) PROVE TypeInv'
  <2> DEFINE r == results[d]  row == polling[d]
  <2>0. /\ r \in Result /\ r.metric \in {"none", "ok"} \cup Severities
        /\ r.status \in {"online", "warning", "offline"}
        /\ r.sample \in {"none", "calm", "spike"}
    BY <1>9, ResultType DEF StopWithin
  <2>1. row \in Row /\ row.id \in Ids
    BY <1>9 DEF StopWithin, TypeOK, ResultsBelong, Row
  <2>2. devices' \in [Devices -> Row \cup {Absent}]
    <3>1. PICK status \in {r.status, ShownStatus(r)} :
            devices' = [devices EXCEPT ![d] = IF @ = Absent THEN Absent ELSE Touched(@, status)]
      BY <1>9 DEF StopWithin
    <3>2. status \in {"online", "warning", "critical", "offline"}
      BY <2>0, <3>1 DEF ShownStatus, Severities
    <3>3. devices[d] # Absent => Touched(devices[d], status) \in Row
      BY <3>2, TouchedType DEF TypeOK
    <3> QED
      BY <3>1, <3>3 DEF TypeOK
  <2>3. samples' \in [Ids -> {"none", "first", "calm", "spike"}]
    <3>1. samples' \in {samples, SamplesAfter(row.id, r.sample)}
      BY <1>9 DEF StopWithin
    <3>2. SamplesAfter(row.id, r.sample) \in [Ids -> {"none", "first", "calm", "spike"}]
      BY <2>0, <2>1, SamplesAfterType
    <3> QED
      BY <3>1, <3>2 DEF TypeOK
  <2>4. outbox' \subseteq EventType
    <3>1. OfflineEvents(d, row, r) \subseteq EventType
      BY <2>1, EventHasType DEF OfflineEvents
    <3>2. Registered(row.id) \in BOOLEAN
      BY DEF Registered
    <3>3. MetricEvents(d, row, r) \subseteq EventType
      BY <2>0, <2>1, <3>2, EventHasType DEF MetricEvents, Raised
    <3>4. outbox' \subseteq OfflineEvents(d, row, r) \cup MetricEvents(d, row, r)
      BY <1>9 DEF StopWithin
    <3> QED
      BY <3>1, <3>3, <3>4
  <2>5. notified' \in [Devices -> BOOLEAN]
    <3>1. PICK announced : notified' = NotifiedAfter(d, r, announced)
      BY <1>9 DEF StopWithin
    <3> QED
      BY <2>0, <2>1, <3>1, HistoriesType
  <2>6. level' \in [Ids -> {"ok"} \cup Severities]
    <3>1. level' \in {level, LevelAfter(row.id, r.metric)}
      BY <1>9 DEF StopWithin
    <3>2. LevelAfter(row.id, r.metric) \in [Ids -> {"ok"} \cup Severities]
      BY <2>0, <2>1, HistoriesType
    <3> QED
      BY <3>1, <3>2 DEF TypeOK
  <2>7. misses' \in [Devices -> 0 .. MaxMisses]
    BY <1>9, <2>0, <2>1, HistoriesType DEF StopWithin
  <2>8. /\ polling' = [e \in Devices |-> Absent] /\ results' = [e \in Devices |-> NoResult]
        /\ active' = [i \in Ids |-> "none"] /\ restarts' \in 0 .. MaxRestarts
        /\ nextId' = nextId /\ answers' = answers
    BY <1>9 DEF StopWithin, StartAgain, TypeOK
  <2>9. ResultsBelong'
    BY <2>8 DEF ResultsBelong
  <2> QED
    BY <2>2, <2>3, <2>4, <2>5, <2>6, <2>7, <2>8, <2>9 DEF TypeOK, EventType
<1> QED
  BY <1>1, <1>2, <1>3, <1>4, <1>5, <1>6, <1>7, <1>8, <1>9, NextCases

\* Every variable of the monitoring loop keeps its type.
THEOREM TypeCorrect == Spec => []TypeOK
<1>1. Init => TypeInv
  BY TypeInit
<1>2. TypeInv /\ [Next]_vars => TypeInv'
  BY TypeStep
<1>3. TypeInv => TypeOK
  BY DEF TypeInv
<1> QED
  BY <1>1, <1>2, <1>3, PTL DEF Spec

-----------------------------------------------------------------------------
\* Every action but Register leaves the ids of the rows that stay, and the copies of
\* a cycle are copies of rows.
IdInv == TypeInv /\ IdsIdentifyDevices

LEMMA IdInit == Init => IdInv
BY TypeInit, BoundAssumption DEF IdInv, IdsIdentifyDevices, Init, Absent

LEMMA IdStep == IdInv /\ [Next]_vars => IdInv'
<1> SUFFICES ASSUME IdInv, [Next]_vars PROVE IdsIdentifyDevices'
  BY TypeStep DEF IdInv
<1> USE DEF IdInv, TypeInv
<1>1. CASE StartCycle
  BY <1>1 DEF StartCycle, IdsIdentifyDevices, Registered, tables
<1>2. CASE Restart
  BY <1>2, BoundAssumption DEF Restart, StartAgain, IdsIdentifyDevices, Registered, tables, Absent, TypeOK
<1>3. CASE UNCHANGED vars
  BY <1>3 DEF vars, tables, loopVars, IdsIdentifyDevices, Registered
<1>4. ASSUME NEW d \in Devices, Probe(d) PROVE IdsIdentifyDevices'
  BY <1>4 DEF Probe, IdsIdentifyDevices, Registered, tables
<1>5. ASSUME NEW d \in Devices, Register(d) PROVE IdsIdentifyDevices'
  <2>1. devices' = [devices EXCEPT ![d] =
                      [id |-> nextId, status |-> "online", seen |-> "rfc3339"]]
    BY <1>5 DEF Register
  <2>2. \A e \in Devices : devices'[e].id = IF e = d THEN nextId ELSE devices[e].id
    BY <2>1 DEF TypeOK
  <2>3. \A e \in Devices : e # d => devices'[e] = devices[e]
    BY <2>1 DEF TypeOK
  <2>4. \A e \in Devices : devices[e].id < nextId /\ polling[e].id < nextId
    BY DEF IdsIdentifyDevices
  <2>5. nextId' = nextId + 1 /\ polling' = polling /\ samples' = samples /\ nextId \in Nat
    BY <1>5, BoundAssumption DEF Register, loopVars, TypeOK
  <2>6. \A e \in Devices : devices[e].id \in Nat /\ polling[e].id \in Nat
    BY BoundAssumption DEF TypeOK, Row, Absent, Ids
  <2>7. \A e, f \in Devices : devices'[e].id = devices'[f].id /\ devices'[e] # Absent => e = f
    BY <2>2, <2>3, <2>4, <2>6 DEF IdsIdentifyDevices
  <2>8. \A e \in Devices : devices'[e].id < nextId' /\ polling'[e].id < nextId'
    BY <2>2, <2>4, <2>5, <2>6
  <2>9. \A i \in Ids : samples'[i] # "none" => Registered(i)'
    <3>1. devices[d].id = 0
      BY <1>5 DEF Register, Absent
    <3>2. \A i \in Ids : Registered(i) => Registered(i)'
      BY <2>2, <3>1 DEF Registered, Ids
    <3> QED
      BY <2>5, <3>2 DEF IdsIdentifyDevices
  <2> QED
    BY <2>7, <2>8, <2>9 DEF IdsIdentifyDevices
<1>6. ASSUME NEW d \in Devices, Delete(d) PROVE IdsIdentifyDevices'
  <2>1. /\ devices' = [devices EXCEPT ![d] = Absent]
        /\ samples' = [samples EXCEPT ![devices[d].id] = "none"]
        /\ polling' = polling /\ nextId' = nextId /\ devices[d] \in Row
    BY <1>6 DEF Delete, loopVars, TypeOK
  <2>2. \A e \in Devices : devices'[e] = IF e = d THEN Absent ELSE devices[e]
    BY <2>1 DEF TypeOK
  <2>3. \A e \in Devices : devices[e] # Absent => devices[e].id \in Ids
    BY DEF TypeOK, Row
  <2>4. Absent.id = 0 /\ 0 < nextId
    BY BoundAssumption DEF Absent, TypeOK
  <2>5. \A e, f \in Devices : devices'[e].id = devices'[f].id /\ devices'[e] # Absent => e = f
    BY <2>2, <2>3, <2>4 DEF IdsIdentifyDevices, Ids
  <2>6. \A e \in Devices : devices'[e].id < nextId' /\ polling'[e].id < nextId'
    BY <2>1, <2>2, <2>4 DEF IdsIdentifyDevices
  <2>7. \A i \in Ids : samples'[i] # "none" => Registered(i)'
    <3> SUFFICES ASSUME NEW i \in Ids, samples'[i] # "none" PROVE Registered(i)'
      OBVIOUS
    <3>1. i # devices[d].id /\ samples[i] # "none"
      BY <2>1 DEF TypeOK
    <3>2. PICK e \in Devices : devices[e].id = i
      BY <3>1 DEF IdsIdentifyDevices, Registered
    <3> QED
      BY <2>2, <3>1, <3>2 DEF Registered
  <2> QED
    BY <2>5, <2>6, <2>7 DEF IdsIdentifyDevices
<1>7. ASSUME NEW d \in Devices, Flip(d) PROVE IdsIdentifyDevices'
  BY <1>7 DEF Flip, IdsIdentifyDevices, Registered, tables, loopVars
<1>8. ASSUME NEW d \in Devices, Apply(d) PROVE IdsIdentifyDevices'
  <2>1. results[d].sample \in {"none", "calm", "spike"} /\ polling[d].id \in Ids
    BY <1>8, ResultType DEF Apply, TypeOK, ResultsBelong, Row
  <2>2. /\ \A e \in Devices : devices'[e].id = devices[e].id
        /\ \A e \in Devices : devices'[e] = Absent <=> devices[e] = Absent
    <3>1. devices[d] # Absent =>
            Touched(devices[d], ShownStatus(results[d])).id = devices[d].id
      BY DEF Touched, TypeOK, Row
    <3>2. devices[d] # Absent => devices[d].id # 0
      BY DEF TypeOK, Row, Ids
    <3>3. Absent.id = 0
      BY DEF Absent
    <3> QED
      BY <1>8, <3>1, <3>2, <3>3 DEF Apply, TypeOK
  <2>3. nextId' = nextId /\ polling' = [polling EXCEPT ![d] = Absent]
    BY <1>8 DEF Apply
  <2>4. \A i \in Ids : Registered(i)' <=> Registered(i)
    BY <2>2 DEF Registered
  <2>5. \A i \in Ids : samples'[i] # "none" => Registered(i)'
    BY <1>8, <2>1, <2>4, SamplesAfterType DEF Apply, IdsIdentifyDevices
  <2>6. \A e \in Devices : devices'[e].id < nextId' /\ polling'[e].id < nextId'
    BY <2>2, <2>3, BoundAssumption DEF IdsIdentifyDevices, TypeOK, Absent
  <2>7. \A e, f \in Devices : devices'[e].id = devices'[f].id /\ devices'[e] # Absent => e = f
    BY <2>2 DEF IdsIdentifyDevices
  <2> QED
    BY <2>5, <2>6, <2>7 DEF IdsIdentifyDevices
<1>9. ASSUME NEW d \in Devices, StopWithin(d) PROVE IdsIdentifyDevices'
  <2>1. results[d].sample \in {"none", "calm", "spike"} /\ polling[d].id \in Ids
    BY <1>9, ResultType DEF StopWithin, TypeOK, ResultsBelong, Row
  <2>2. /\ \A e \in Devices : devices'[e].id = devices[e].id
        /\ \A e \in Devices : devices'[e] = Absent <=> devices[e] = Absent
    <3>1. PICK status :
            devices' = [devices EXCEPT ![d] = IF @ = Absent THEN Absent ELSE Touched(@, status)]
      BY <1>9 DEF StopWithin
    <3>2. devices[d] # Absent => Touched(devices[d], status).id = devices[d].id /\ devices[d].id # 0
      BY DEF Touched, TypeOK, Row, Ids
    <3>3. Absent.id = 0
      BY DEF Absent
    <3> QED
      BY <3>1, <3>2, <3>3 DEF TypeOK
  <2>3. nextId' = nextId /\ polling' = [e \in Devices |-> Absent]
    BY <1>9 DEF StopWithin, StartAgain
  <2>4. \A i \in Ids : Registered(i)' <=> Registered(i)
    BY <2>2 DEF Registered
  <2>5. \A i \in Ids : samples'[i] # "none" => Registered(i)'
    <3>1. samples' \in {samples, SamplesAfter(polling[d].id, results[d].sample)}
      BY <1>9 DEF StopWithin
    <3> QED
      BY <2>1, <2>4, <3>1, SamplesAfterType DEF IdsIdentifyDevices
  <2>6. \A e \in Devices : devices'[e].id < nextId' /\ polling'[e].id < nextId'
    <3>1. Absent.id = 0 /\ 0 < nextId
      BY BoundAssumption DEF Absent, TypeOK
    <3> QED
      BY <2>2, <2>3, <3>1 DEF IdsIdentifyDevices
  <2>7. \A e, f \in Devices : devices'[e].id = devices'[f].id /\ devices'[e] # Absent => e = f
    BY <2>2 DEF IdsIdentifyDevices
  <2> QED
    BY <2>5, <2>6, <2>7 DEF IdsIdentifyDevices
<1> QED
  BY <1>1, <1>2, <1>3, <1>4, <1>5, <1>6, <1>7, <1>8, <1>9, NextCases

\* An id names one device for ever, and no sample outlives its device: the history a
\* poll writes for a device deleted under it is refused.
THEOREM IdsCorrect == Spec => []IdsIdentifyDevices
<1>1. Init => IdInv
  BY IdInit
<1>2. IdInv /\ [Next]_vars => IdInv'
  BY IdStep
<1>3. IdInv => IdsIdentifyDevices
  BY DEF IdInv
<1> QED
  BY <1>1, <1>2, <1>3, PTL DEF Spec

-----------------------------------------------------------------------------
\* What was announced shows: neither the row nor the copy of a cycle still says that
\* the device answers.
NotifiedShows ==
  \A d \in Devices : notified[d] =>
    devices[d].status \in {"absent", "offline"} /\ polling[d].status \in {"absent", "offline"}

\* What the tracker holds is the level the metric had when last collected.
TrackerMatches ==
  \A i \in Ids : active[i] = "none" \/ active[i] = level[i]

AlertInv == TypeInv /\ NotifiedShows /\ TrackerMatches

LEMMA AlertInit == Init => AlertInv
BY TypeInit DEF AlertInv, Init, NotifiedShows, TrackerMatches

LEMMA AlertStep == AlertInv /\ [Next]_vars => AlertInv'
<1> SUFFICES ASSUME AlertInv, [Next]_vars PROVE NotifiedShows' /\ TrackerMatches'
  BY TypeStep DEF AlertInv
<1> USE DEF AlertInv, TypeInv
<1>1. CASE StartCycle
  BY <1>1 DEF StartCycle, NotifiedShows, TrackerMatches, tables, history
<1>2. CASE Restart
  BY <1>2 DEF Restart, StartAgain, NotifiedShows, TrackerMatches, tables, history, TypeOK, Absent
<1>3. CASE UNCHANGED vars
  BY <1>3 DEF vars, tables, loopVars, history, NotifiedShows, TrackerMatches
<1>4. ASSUME NEW d \in Devices, Probe(d) PROVE NotifiedShows' /\ TrackerMatches'
  BY <1>4 DEF Probe, NotifiedShows, TrackerMatches, tables, history
<1>5. ASSUME NEW d \in Devices, Register(d) PROVE NotifiedShows' /\ TrackerMatches'
  BY <1>5 DEF Register, NotifiedShows, TrackerMatches, loopVars, TypeOK
<1>6. ASSUME NEW d \in Devices, Delete(d) PROVE NotifiedShows' /\ TrackerMatches'
  BY <1>6 DEF Delete, NotifiedShows, TrackerMatches, loopVars, history, TypeOK, Absent
<1>7. ASSUME NEW d \in Devices, Flip(d) PROVE NotifiedShows' /\ TrackerMatches'
  BY <1>7 DEF Flip, NotifiedShows, TrackerMatches, loopVars, tables, history
<1>8. ASSUME NEW d \in Devices, Apply(d) PROVE NotifiedShows' /\ TrackerMatches'
  <2> DEFINE r == results[d]  row == polling[d]
  <2>0. r.metric \in {"none", "ok"} \cup Severities /\ row.id \in Ids
    BY <1>8, ResultType DEF Apply, TypeOK, ResultsBelong, Row
  <2>1. NotifiedShows'
    <3> SUFFICES ASSUME NEW e \in Devices, notified'[e]
                 PROVE  /\ devices'[e].status \in {"absent", "offline"}
                        /\ polling'[e].status \in {"absent", "offline"}
      BY DEF NotifiedShows
    <3>1. CASE e # d
      BY <1>8, <3>1 DEF Apply, NotifiedAfter, NotifiedShows, TypeOK
    <3>2. CASE e = d
      <4>1. r.status = "offline"
        BY <1>8, <3>2 DEF Apply, NotifiedAfter, TypeOK
      <4>2. ShownStatus(r) = "offline"
        BY <4>1 DEF ShownStatus
      <4>3. devices[d] # Absent => Touched(devices[d], "offline").status = "offline"
        BY DEF Touched, TypeOK, Row
      <4>4. Absent.status = "absent"
        BY DEF Absent
      <4> QED
        BY <1>8, <3>2, <4>2, <4>3, <4>4 DEF Apply, TypeOK, NotifiedAfter
    <3> QED
      BY <3>1, <3>2
  <2>2. TrackerMatches'
    <3> SUFFICES ASSUME NEW i \in Ids PROVE active'[i] = "none" \/ active'[i] = level'[i]
      BY DEF TrackerMatches
    <3>1. CASE i # row.id
      BY <1>8, <3>1 DEF Apply, ActiveAfter, LevelAfter, TrackerMatches, TypeOK
    <3>2. CASE i = row.id
      BY <1>8, <2>0, <3>2 DEF Apply, ActiveAfter, LevelAfter, TypeOK, Severities
    <3> QED
      BY <3>1, <3>2
  <2> QED
    BY <2>1, <2>2
<1>9. ASSUME NEW d \in Devices, StopWithin(d) PROVE NotifiedShows' /\ TrackerMatches'
  <2> DEFINE r == results[d]
  <2>1. /\ polling' = [e \in Devices |-> Absent] /\ active' = [i \in Ids |-> "none"]
        /\ Absent.status = "absent"
    BY <1>9 DEF StopWithin, StartAgain, Absent
  <2>s. PICK status \in {r.status, ShownStatus(r)} : \E announced :
          /\ devices' = [devices EXCEPT ![d] = IF @ = Absent THEN Absent ELSE Touched(@, status)]
          /\ notified' = NotifiedAfter(d, r, announced)
    BY <1>9 DEF StopWithin
  <2>2. PICK announced :
          /\ devices' = [devices EXCEPT ![d] = IF @ = Absent THEN Absent ELSE Touched(@, status)]
          /\ notified' = NotifiedAfter(d, r, announced)
    BY <2>s
  <2>3. NotifiedShows'
    <3> SUFFICES ASSUME NEW e \in Devices, notified'[e]
                 PROVE  devices'[e].status \in {"absent", "offline"}
      BY <2>1 DEF NotifiedShows
    <3>1. CASE e # d
      BY <2>2, <3>1 DEF NotifiedAfter, NotifiedShows, TypeOK
    <3>2. CASE e = d
      <4>1. r.status = "offline"
        BY <2>2, <3>2 DEF NotifiedAfter, TypeOK
      <4>2. status = "offline"
        BY <2>2, <4>1 DEF ShownStatus
      <4>3. devices[d] # Absent => Touched(devices[d], "offline").status = "offline"
        BY DEF Touched, TypeOK, Row
      <4> QED
        BY <2>1, <2>2, <3>2, <4>2, <4>3 DEF TypeOK
    <3> QED
      BY <3>1, <3>2
  <2>4. TrackerMatches'
    BY <2>1 DEF TrackerMatches
  <2> QED
    BY <2>3, <2>4
<1> QED
  BY <1>1, <1>2, <1>3, <1>4, <1>5, <1>6, <1>7, <1>8, <1>9, NextCases

\* Only Apply, or the part of it that is done before a stop, publishes anything or changes
\* a level.
LEMMA OnlyApplyPublishes ==
  ASSUME Next
  PROVE  \/ outbox' = {} /\ level' = level
         \/ \E d \in Devices : Apply(d) \/ StopWithin(d)
BY DEF Next, StartCycle, Restart, Probe, Register, Delete, Flip, history

\* The event of an offline transition is published by a poll of a device whose outage
\* has not been announced.
LEMMA OfflineStep ==
  ASSUME AlertInv, Next, NEW e \in outbox', e.kind = "offline"
  PROVE  ~notified[e.ip]
<1>1. PICK d \in Devices : Apply(d) \/ StopWithin(d)
  BY OnlyApplyPublishes
<1> DEFINE r == results[d]  row == polling[d]
<1>2. e \in OfflineEvents(d, row, r)
  <2>1. e \notin MetricEvents(d, row, r) /\ e \notin SpikeEvents(d, row, r)
    BY DEF MetricEvents, SpikeEvents, Event
  <2>2. outbox' \subseteq OfflineEvents(d, row, r) \cup MetricEvents(d, row, r) \cup SpikeEvents(d, row, r)
    BY <1>1 DEF Apply, StopWithin
  <2> QED
    BY <2>1, <2>2
<1>3. e.ip = d /\ row.status # "offline"
  BY <1>2 DEF OfflineEvents, Event
<1>4. row \in Row
  BY <1>1 DEF Apply, StopWithin, AlertInv, TypeInv, TypeOK, ResultsBelong
<1> QED
  BY <1>3, <1>4 DEF AlertInv, NotifiedShows, Row

\* One outage is announced once, whatever the GUI deletes and registers meanwhile and
\* however often the process restarts.
THEOREM OfflineOnce == Spec => OfflineAnnouncedOnce
<1>1. Init => AlertInv
  BY AlertInit
<1>2. AlertInv /\ [Next]_vars => AlertInv'
  BY AlertStep
<1>3. AlertInv /\ [Next]_vars =>
        [\A e \in outbox' : e.kind = "offline" => ~notified[e.ip]]_vars
  BY OfflineStep
<1> QED
  BY <1>1, <1>2, <1>3, PTL DEF Spec, OfflineAnnouncedOnce

\* A change of severity raises an event: the tracker cannot already hold the new one.
LEMMA SeverityStep ==
  ASSUME AlertInv, Next, NEW i \in Ids, level'[i] # level[i], level'[i] \in Severities
  PROVE  \E e \in outbox' : /\ e.id = i /\ e.kind = "metric" /\ e.severity = level'[i]
                            /\ Registered(i) => e.saved
<1>1. PICK d \in Devices : Apply(d) \/ StopWithin(d)
  BY OnlyApplyPublishes
<1> DEFINE r == results[d]  row == polling[d]
<1>0. level' = LevelAfter(row.id, r.metric) /\ MetricEvents(d, row, r) \subseteq outbox'
  <2>1. CASE Apply(d)
    BY <2>1 DEF Apply
  <2>2. CASE StopWithin(d)
    <3>1. PICK parts \in 1 .. 5 :
            /\ outbox' = (IF parts < 2 THEN {} ELSE OfflineEvents(d, row, r))
                           \cup (IF parts < 5 THEN {} ELSE MetricEvents(d, row, r))
            /\ level' = IF parts < 5 THEN level ELSE LevelAfter(row.id, r.metric)
      BY <2>2 DEF StopWithin
    <3>2. ~(parts < 5)
      BY <3>1
    <3> QED
      BY <3>1, <3>2
  <2> QED
    BY <1>1, <2>1, <2>2
<1>2. i = row.id /\ level'[i] = r.metric
  BY <1>0 DEF LevelAfter, AlertInv, TypeInv, TypeOK
<1>3. active[i] # r.metric
  BY <1>2 DEF AlertInv, TrackerMatches, Severities
<1>4. MetricEvents(d, row, r) = {Event(d, i, "metric", r.metric, Registered(i))}
  BY <1>2, <1>3 DEF MetricEvents, Raised
<1>5. Event(d, i, "metric", r.metric, Registered(i)) \in outbox'
  BY <1>0, <1>4
<1> QED
  BY <1>2, <1>5 DEF Event

\* No change of severity is swallowed, by a failed poll, an outage or a restart.
THEOREM SeverityChangesRaised == Spec => SeverityChangesAreRaised
<1>1. Init => AlertInv
  BY AlertInit
<1>2. AlertInv /\ [Next]_vars => AlertInv'
  BY AlertStep
<1>3. AlertInv /\ [Next]_vars =>
        [\A i \in Ids : level'[i] # level[i] /\ level'[i] \in Severities =>
           \E e \in outbox' : /\ e.id = i /\ e.kind = "metric" /\ e.severity = level'[i]
                              /\ Registered(i) => e.saved]_vars
  BY SeverityStep
<1> QED
  BY <1>1, <1>2, <1>3, PTL DEF Spec, SeverityChangesAreRaised

\* A sample that turns an interface's latest pair into a spike was stored, and the
\* check that follows in the same critical section sees it.
LEMMA SpikeStep ==
  ASSUME TypeInv, Next, NEW i \in Ids, samples[i] # "spike", samples'[i] = "spike",
         restarts' = restarts
  PROVE  \E e \in outbox' : e.id = i /\ e.kind = "spike" /\ e.saved
<1>0. ~\E d \in Devices : StopWithin(d)
  <2>1. restarts \in Nat
    BY BoundAssumption DEF TypeInv, TypeOK
  <2> QED
    BY <2>1 DEF StopWithin, StartAgain
<1>1. PICK d \in Devices : Apply(d)
  BY <1>0 DEF Next, StartCycle, Restart, Probe, Register, Delete, Flip, tables, TypeInv, TypeOK
<1> DEFINE r == results[d]  row == polling[d]
<1>2. r.sample \in {"none", "calm", "spike"} /\ row.id \in Ids
  BY <1>1, ResultType DEF Apply, TypeInv, TypeOK, ResultsBelong, Row
<1>3. samples' = SamplesAfter(row.id, r.sample)
  BY <1>1 DEF Apply
<1>4. i = row.id /\ Registered(i)
  BY <1>2, <1>3, SamplesAfterType DEF TypeInv
<1>5. SpikeEvents(d, row, r) = {Event(d, i, "spike", "warning", Registered(i))}
  BY <1>3, <1>4 DEF SpikeEvents
<1>6. Event(d, i, "spike", "warning", Registered(i)) \in outbox'
  BY <1>1, <1>5 DEF Apply
<1> QED
  BY <1>4, <1>6 DEF Event

\* Every new spike is saved and published by the poll that stored its sample, unless the
\* process stops between the two.
THEOREM SpikesReported == Spec => SpikesAreReportedAtOnce
<1>1. Init => TypeInv
  BY TypeInit
<1>2. TypeInv /\ [Next]_vars => TypeInv'
  BY TypeStep
<1>3. TypeInv /\ [Next]_vars =>
        [\A i \in Ids : samples[i] # "spike" /\ samples'[i] = "spike" /\ restarts' = restarts =>
           \E e \in outbox' : e.id = i /\ e.kind = "spike" /\ e.saved]_vars
  BY SpikeStep
<1> QED
  BY <1>1, <1>2, <1>3, PTL DEF Spec, SpikesAreReportedAtOnce
=============================================================================
