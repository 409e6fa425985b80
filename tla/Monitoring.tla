----------------------------- MODULE Monitoring -----------------------------
(***************************************************************************)
(* The polling loop of src/web/server.rs, the alert tracker of             *)
(* src/alert/rules.rs and the device rows both work on, while the Web GUI  *)
(* deletes and registers devices.                                          *)
(*                                                                         *)
(* A cycle copies the device table, probes every device of the copy in a   *)
(* thread of its own, and applies each result under the repository mutex:  *)
(* the new status, the samples, the alerts saved and the events published. *)
(* The rows may have changed since the copy, and a result is written to    *)
(* the row by its IP but to every other table by the id of the copy.       *)
(*                                                                         *)
(* One metric and one interface stand for all of a device's: the tracker   *)
(* and the spike check treat each of them on its own.                      *)
(***************************************************************************)
EXTENDS Integers, FiniteSets

CONSTANTS
  Devices,      \* IP addresses
  MaxId,        \* bound: device ids handed out
  MaxRestarts,  \* bound: restarts of the process
  MaxMisses     \* bound: unanswered polls the history counts

ASSUME BoundAssumption == MaxId \in Nat /\ MaxRestarts \in Nat /\ MaxMisses \in Nat

VARIABLES
  devices,      \* the devices table: ip -> row or Absent
  nextId,       \* AUTOINCREMENT: an id is never used again
  samples,      \* interface_samples: what the last two of an id tell
  answers,      \* environment: does the device answer SNMP?
  polling,      \* ip -> the row the cycle works on, or Absent
  results,      \* ip -> the result of its thread, or NoResult
  active,       \* MetricAlertTracker: id -> the severity it holds, or "none"
  outbox,       \* the events published by the last step, and whether saved
  notified,     \* history: ip -> offline was announced and it has not answered since
  level,        \* history: id -> the metric's level when it was last collected
  misses,       \* history: ip -> unanswered polls in a row, up to MaxMisses
  restarts      \* bound: restarts so far

tables    == <<devices, nextId, samples>>
loopVars  == <<polling, results, active>>
history   == <<notified, level, misses>>
vars == <<tables, answers, loopVars, outbox, history, restarts>>

Ids        == 1 .. MaxId
Severities == {"warning", "critical"}
Absent     == [id |-> 0, status |-> "absent", seen |-> "never"]
NoResult   == [status |-> "none", metric |-> "none", sample |-> "none"]

\* The text of last_seen_at: registration writes RFC 3339, a poll writes SQLite's
\* CURRENT_TIMESTAMP, and the polling loop can parse only the first.
Row == [id: Ids, status: {"online", "warning", "critical", "offline"},
        seen: {"rfc3339", "sqlite"}]

\* What a poll collects: the level of the metric, "none" when it was not collected,
\* and how the interface's error counters moved, "none" when it was not queried.
Result == [status: {"online", "warning", "offline"},
           metric: {"none", "ok"} \cup Severities,
           sample: {"none", "calm", "spike"}]

Registered(id) == \E d \in Devices : devices[d].id = id

-----------------------------------------------------------------------------
Init ==
  /\ devices  = [d \in Devices |-> Absent]
  /\ nextId   = 1
  /\ samples  = [i \in Ids |-> "none"]
  /\ answers \in [Devices -> BOOLEAN]
  /\ polling  = [d \in Devices |-> Absent]
  /\ results  = [d \in Devices |-> NoResult]
  /\ active   = [i \in Ids |-> "none"]
  /\ outbox   = {}
  /\ notified = [d \in Devices |-> FALSE]
  /\ level    = [i \in Ids |-> "ok"]
  /\ misses   = [d \in Devices |-> 0]
  /\ restarts = 0

\* api_register: a device that is already there is skipped.
Register(d) ==
  /\ devices[d] = Absent /\ nextId <= MaxId
  /\ devices' = [devices EXCEPT ![d] =
                   [id |-> nextId, status |-> "online", seen |-> "rfc3339"]]
  /\ nextId'   = nextId + 1
  /\ notified' = [notified EXCEPT ![d] = FALSE]
  /\ misses'   = [misses EXCEPT ![d] = 0]
  /\ outbox'   = {}
  /\ UNCHANGED <<samples, answers, loopVars, level, restarts>>

\* api_delete_device: the history rows, then the device.
Delete(d) ==
  /\ devices[d] # Absent
  /\ samples' = [samples EXCEPT ![devices[d].id] = "none"]
  /\ devices' = [devices EXCEPT ![d] = Absent]
  /\ outbox'  = {}
  /\ UNCHANGED <<nextId, answers, loopVars, history, restarts>>

\* The device goes away or comes back.
Flip(d) ==
  /\ answers' = [answers EXCEPT ![d] = ~@]
  /\ outbox'  = {}
  /\ UNCHANGED <<tables, loopVars, history, restarts>>

\* list_devices after the sleep; an empty table ends the cycle at once.
StartCycle ==
  /\ polling = [d \in Devices |-> Absent]
  /\ \E d \in Devices : devices[d] # Absent
  /\ polling' = devices
  /\ outbox'  = {}
  /\ UNCHANGED <<tables, answers, results, active, history, restarts>>

\* The status of a device that did not answer: within three intervals of a
\* last_seen_at that can be parsed it is a warning.
UnansweredStatus(row) == IF row.seen = "rfc3339" THEN {"warning", "offline"} ELSE {"offline"}

\* One device's thread: the probe and, when it answers, the queries, each of which
\* may fail.
Probe(d) ==
  /\ polling[d] # Absent /\ results[d] = NoResult
  /\ \E r \in Result :
       /\ IF answers[d] THEN r.status = "online"
          ELSE /\ r.status \in UnansweredStatus(polling[d])
               /\ r.metric = "none" /\ r.sample = "none"
       /\ results' = [results EXCEPT ![d] = r]
  /\ outbox' = {}
  /\ UNCHANGED <<tables, answers, polling, active, history, restarts>>

\* Mutant of ShownStatus: the level is stored whatever it is.
ShownStatusUnchecked(r) == IF r.status = "online" THEN r.metric ELSE r.status

\* update_device_status, once or twice: an answering device shows its worst metric.
ShownStatus(r) ==
  IF r.status = "online" /\ r.metric \in Severities THEN r.metric ELSE r.status

\* Mutant of Touched: last_seen_at is written as RFC 3339, as registration does.
TouchedInRfc3339(row, status) == [row EXCEPT !.status = status, !.seen = "rfc3339"]

\* The row of an IP after update_device_status, which touches last_seen_at too.
Touched(row, status) == [row EXCEPT !.status = status, !.seen = "sqlite"]

\* Mutant of SamplesAfter: no foreign key.
SamplesAfterNoForeignKey(id, sample) ==
  IF sample = "none" THEN samples
  ELSE [samples EXCEPT ![id] = IF @ = "none" THEN "first" ELSE sample]

\* save_sample: the foreign key refuses the sample of a deleted device.
SamplesAfter(id, sample) ==
  IF sample = "none" \/ ~Registered(id) THEN samples
  ELSE [samples EXCEPT ![id] = IF @ = "none" THEN "first" ELSE sample]

\* Mutant of ActiveAfter: an entry is added or replaced but never removed.
ActiveAfterInsertOnly(id, metric) ==
  [active EXCEPT ![id] = IF metric \in Severities THEN metric ELSE @]

\* MetricAlertTracker::transitions: the device's entries are replaced by this poll's.
ActiveAfter(id, metric) ==
  [active EXCEPT ![id] = IF metric \in Severities THEN metric ELSE "none"]

Raised(id, metric) == metric \in Severities /\ active[id] # metric

Event(d, id, kind, severity, saved) ==
  [ip |-> d, id |-> id, kind |-> kind, severity |-> severity, saved |-> saved]

\* Mutant of OfflineEvents: announced by every poll that finds the device offline.
OfflineEventsEveryPoll(d, row, r) ==
  IF r.status = "offline"
  THEN {Event(d, row.id, "offline", "offline", FALSE)} ELSE {}

\* device_offline goes to the subscribers only, and only on the transition that the
\* copied row shows.
OfflineEvents(d, row, r) ==
  IF r.status = "offline" /\ row.status # "offline"
  THEN {Event(d, row.id, "offline", "offline", FALSE)} ELSE {}

MetricEvents(d, row, r) ==
  IF Raised(row.id, r.metric)
  THEN {Event(d, row.id, "metric", r.metric, Registered(row.id))} ELSE {}

\* Mutant of SpikeEvents: the check runs before the sample is stored.
SpikeEventsBeforeSave(d, row, r) ==
  IF samples[row.id] = "spike"
  THEN {Event(d, row.id, "spike", "warning", Registered(row.id))} ELSE {}

\* check_interface_spikes reads the two latest samples, whenever they were taken.
SpikeEvents(d, row, r) ==
  IF SamplesAfter(row.id, r.sample)[row.id] = "spike"
  THEN {Event(d, row.id, "spike", "warning", Registered(row.id))} ELSE {}

\* The histories after a result, of which some events were published.
NotifiedAfter(d, r, announced) ==
  [notified EXCEPT ![d] = r.status = "offline" /\ (@ \/ announced # {})]
LevelAfter(id, metric) ==
  IF metric = "none" THEN level ELSE [level EXCEPT ![id] = metric]
MissesAfter(d, r) ==
  [misses EXCEPT ![d] = IF r.status = "online" THEN 0 ELSE IF @ < MaxMisses THEN @ + 1 ELSE @]

\* One result under the repository mutex.
Apply(d) ==
  LET row == polling[d]
      r   == results[d]
  IN  /\ r # NoResult
      /\ devices' = [devices EXCEPT ![d] =
                       IF @ = Absent THEN Absent ELSE Touched(@, ShownStatus(r))]
      /\ samples' = SamplesAfter(row.id, r.sample)
      /\ active'  = ActiveAfter(row.id, r.metric)
      /\ outbox'  = OfflineEvents(d, row, r) \cup MetricEvents(d, row, r)
                      \cup SpikeEvents(d, row, r)
      /\ polling' = [polling EXCEPT ![d] = Absent]
      /\ results' = [results EXCEPT ![d] = NoResult]
      /\ notified' = NotifiedAfter(d, r, OfflineEvents(d, row, r))
      /\ level'    = LevelAfter(row.id, r.metric)
      /\ misses'   = MissesAfter(d, r)
      /\ UNCHANGED <<nextId, answers, restarts>>

\* The process stops and is started again: the cycle and the tracker are gone.
StartAgain ==
  /\ restarts < MaxRestarts
  /\ restarts' = restarts + 1
  /\ polling'  = [d \in Devices |-> Absent]
  /\ results'  = [d \in Devices |-> NoResult]
  /\ active'   = [i \in Ids |-> "none"]

Restart ==
  /\ StartAgain
  /\ outbox' = {}
  /\ UNCHANGED <<tables, answers, history>>

\* The process stops in the middle of Apply, whose statements commit one by one: after the
\* status of the probe, the offline event, the samples, the status shown or the events of
\* the metrics; the check for spikes would be next.
StopWithin(d) ==
  LET row == polling[d]
      r   == results[d]
  IN  /\ r # NoResult
      /\ StartAgain
      /\ \E parts \in 1 .. 5 :
           LET announced == IF parts < 2 THEN {} ELSE OfflineEvents(d, row, r)
               raised    == IF parts < 5 THEN {} ELSE MetricEvents(d, row, r)
               status    == IF parts < 4 THEN r.status ELSE ShownStatus(r)
           IN  /\ devices' = [devices EXCEPT ![d] =
                                IF @ = Absent THEN Absent ELSE Touched(@, status)]
               /\ samples' = IF parts < 3 THEN samples ELSE SamplesAfter(row.id, r.sample)
               /\ outbox'  = announced \cup raised
               /\ notified' = NotifiedAfter(d, r, announced)
               /\ level' = IF parts < 5 THEN level ELSE LevelAfter(row.id, r.metric)
      /\ misses' = MissesAfter(d, r)
      /\ UNCHANGED <<nextId, answers>>

Next ==
  \/ StartCycle
  \/ \E d \in Devices : Probe(d) \/ Apply(d) \/ StopWithin(d)
  \/ \E d \in Devices : Register(d) \/ Delete(d) \/ Flip(d)
  \/ Restart

\* The loop and its threads run as long as the process does; a probe ends because
\* every SNMP request has a timeout.
Fairness == /\ WF_vars(StartCycle)
            /\ \A d \in Devices : WF_vars(Probe(d)) /\ WF_vars(Apply(d))

Spec == Init /\ [][Next]_vars /\ Fairness

-----------------------------------------------------------------------------
TypeOK ==
  /\ devices \in [Devices -> Row \cup {Absent}]
  /\ nextId \in 1 .. MaxId + 1
  /\ samples \in [Ids -> {"none", "first", "calm", "spike"}]
  /\ answers \in [Devices -> BOOLEAN]
  /\ polling \in [Devices -> Row \cup {Absent}]
  /\ results \in [Devices -> Result \cup {NoResult}]
  /\ active \in [Ids -> {"none"} \cup Severities]
  /\ outbox \subseteq [ip: Devices, id: Ids, kind: {"offline", "metric", "spike"},
                       severity: {"offline"} \cup Severities, saved: BOOLEAN]
  /\ notified \in [Devices -> BOOLEAN]
  /\ level \in [Ids -> {"ok"} \cup Severities]
  /\ misses \in [Devices -> 0 .. MaxMisses]
  /\ restarts \in 0 .. MaxRestarts

\* An outage is announced once: two offline events of an IP never follow each other
\* without an answered poll or a new registration in between, over restarts and
\* whatever happened to the row since the cycle copied it.
OfflineAnnouncedOnce ==
  [][\A e \in outbox' : e.kind = "offline" => ~notified[e.ip]]_vars

\* A metric that reaches another severity than it had when last collected is always
\* published, and saved while its device is registered: neither a poll that failed,
\* nor an outage, nor a restart swallows the change, and what a poll that is cut off has
\* collected but not raised is raised when it is collected again.
SeverityChangesAreRaised ==
  [][\A i \in Ids : level'[i] # level[i] /\ level'[i] \in Severities =>
       \E e \in outbox' : /\ e.id = i /\ e.kind = "metric" /\ e.severity = level'[i]
                          /\ Registered(i) => e.saved]_vars

\* A spike is reported by the poll whose sample shows it (the sample is stored before
\* the check), never a cycle later, unless the process stops between the two.
SpikesAreReportedAtOnce ==
  [][\A i \in Ids : samples[i] # "spike" /\ samples'[i] = "spike" /\ restarts' = restarts =>
       \E e \in outbox' : e.id = i /\ e.kind = "spike" /\ e.saved]_vars

\* The rows, the cycle and the ids: an id is never shared by two devices or handed out
\* twice, and no sample is kept for an id that is not registered.
IdsIdentifyDevices ==
  /\ \A d, e \in Devices : devices[d].id = devices[e].id /\ devices[d] # Absent => d = e
  /\ \A d \in Devices : devices[d].id < nextId /\ polling[d].id < nextId
  /\ \A i \in Ids : samples[i] # "none" => Registered(i)

\* The status shown follows the device: one that stops answering for good is eventually
\* shown offline for good, and one that answers for good is not; no grace period, stale
\* copy or registration keeps it otherwise for ever.
StatusFollowsDevice ==
  \A d \in Devices :
    /\ <>[](~answers[d] /\ devices[d] # Absent) => <>[](devices[d].status = "offline")
    /\ <>[](answers[d] /\ devices[d] # Absent) => <>[](devices[d].status # "offline")

-----------------------------------------------------------------------------
\* Properties the documentation or a comment states and the code does not have.

\* "deliver only at the moment of the transition": a device that is registered and
\* becomes offline is announced by that very poll.
TransitionsAreAnnounced ==
  [][\A d \in Devices :
       /\ devices[d] # Absent /\ devices[d].status # "offline"
       /\ devices'[d].status = "offline"
       => \E e \in outbox' : e.ip = d /\ e.kind = "offline"]_vars

\* "Repeated alerts are suppressed until severity changes or the metric recovers."
RepeatsAreSuppressed ==
  [][\A e \in outbox' : e.kind = "metric" => level[e.id] # e.severity]_vars

\* A device becomes offline after three unanswered polls in a row, not earlier, if a poll has
\* written its last_seen_at before.  (MaxMisses >= 3.)
OfflineAfterThreeMisses ==
  [][\A d \in Devices :
       /\ devices[d].status # "offline" /\ devices[d].seen = "sqlite"
       /\ devices'[d].status = "offline"
       => misses'[d] >= 3]_vars
=============================================================================
