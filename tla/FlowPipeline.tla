---------------------------- MODULE FlowPipeline ----------------------------
(***************************************************************************)
(* From a decoded flow record to the database: the listener threads, the   *)
(* in-memory ring, the rollup thread and the repository (src/flow.rs and   *)
(* the flow tables of src/db/repository.rs).                               *)
(*                                                                         *)
(* A listener pushes each record of a datagram into the ring and saves it; *)
(* a save is two autocommitted statements under the repository mutex, and  *)
(* the counters follow one by one: each statement may fail and the process *)
(* may stop between any two of these steps.  Once a minute the             *)
(* rollup thread reads the clock, scans the ring for what arrived since    *)
(* its watermark and adds it to the per-minute table, group by group.      *)
(* FlowTemplates models how a datagram becomes records.                    *)
(***************************************************************************)
EXTENDS Integers, Sequences, FiniteSets, SequencesExt, Places

CONSTANTS
  Listeners,        \* one thread per socket
  Protocols,        \* the protocol names of the records
  Sizes,            \* estimated_flow_bytes, in units
  RingTTL,          \* MEMORY_FLOW_TTL, in ticks
  RingLimit,        \* MEMORY_FLOW_LIMIT
  RingBytesLimit,   \* MEMORY_FLOW_BYTES_LIMIT, in units of Sizes
  RollupInterval,   \* the sleep of the rollup thread, in ticks
  Minute,           \* ticks of one bucket
  MaxBatch,         \* bound: records of one datagram
  MaxFlows,         \* bound: records in all
  MaxClock,         \* bound: clock ticks
  MaxCrashes        \* bound: restarts of the process

ASSUME BoundAssumption == /\ MaxBatch \in Nat /\ MaxFlows \in Nat
                          /\ MaxClock \in Nat /\ MaxCrashes \in Nat
ASSUME RingAssumption  == /\ RingTTL \in Nat /\ RingLimit \in Nat \ {0}
                          /\ RingBytesLimit \in Nat
                          /\ Sizes \subseteq Nat \ {0}
                          /\ RollupInterval \in Nat \ {0} /\ Minute \in Nat \ {0}

VARIABLES
  clock,       \* Instant::now() and Utc::now()
  flows,       \* flow id -> [protocol, size, observed] of the records so far
  queue,       \* the records of its datagram a listener has still to handle
  pc,          \* where each listener is
  failed,      \* save_result.is_err() of the record a listener is saving
  ring,        \* LIVE_FLOW_RING: sequence of [flow, size, at]
  rollupPc,    \* where the rollup thread is
  now,         \* its reading of the clock
  watermark,   \* the reading of its previous pass
  batch,       \* the records it has still to add to aggregated_flows_1m
  parsed,      \* PARSED_FLOWS
  written,     \* DB_WRITE_COUNT
  dropped,     \* DROPPED_FLOWS
  rawRows,     \* flow_records, as the set of flow ids stored
  convRows,    \* aggregated_conversations_1m_v2: how often each flow is counted
  rollupRows,  \* aggregated_flows_1m: how often each flow is counted
  marks,       \* history: the watermarks of the running rollup thread
  spoiled,     \* history: records of rollup passes that failed half-way
  crashes      \* bound: restarts so far

listenerVars == <<queue, pc, failed, parsed, written, dropped>>
rollupVars   == <<rollupPc, now, watermark, batch, marks, spoiled>>
tables       == <<rawRows, convRows, rollupRows>>
vars == <<clock, flows, listenerVars, ring, rollupVars, tables, crashes>>

FlowIds == 1 .. MaxFlows
Flow    == [protocol: Protocols, size: Sizes, observed: 0 .. MaxClock]
Entry   == [flow: FlowIds, size: Sizes, at: 0 .. MaxClock]

\* (bucket_start, protocol), the key of aggregated_flows_1m.
GroupOf(f) == <<flows[f].observed \div Minute, flows[f].protocol>>

\* The sizes of a ring's entries, added up.
RingBytes(r) ==
  LET bytes[n \in 0 .. Len(r)] == IF n = 0 THEN 0 ELSE bytes[n - 1] + r[n].size
  IN  bytes[Len(r)]

\* retain: the entries that are not too old, in their order.
Retained(r) == EntriesAt(r, {i \in DOMAIN r : clock - r[i].at <= RingTTL})

\* Mutant of Trimmed: pop_front while the ring is over both limits.
TrimmedOverBoth(r) ==
  LET Fits(n) == LET rest == SubSeq(r, n, Len(r))
                 IN  Len(rest) <= RingLimit \/ RingBytes(rest) <= RingBytesLimit
      first   == CHOOSE n \in 1 .. Len(r) + 1 :
                   Fits(n) /\ \A m \in 1 .. n - 1 : ~Fits(m)
  IN  SubSeq(r, first, Len(r))

\* pop_front while the ring is over one of its limits: the longest suffix within both.
Trimmed(r) ==
  LET Fits(n) == LET rest == SubSeq(r, n, Len(r))
                 IN  Len(rest) <= RingLimit /\ RingBytes(rest) <= RingBytesLimit
      first   == CHOOSE n \in 1 .. Len(r) + 1 :
                   Fits(n) /\ \A m \in 1 .. n - 1 : ~Fits(m)
  IN  SubSeq(r, first, Len(r))

\* retain, push_back and trim.
RingAfterPush(f) ==
  Trimmed(Append(Retained(ring), [flow |-> f, size |-> flows[f].size, at |-> clock]))

\* The mutex around the repository is held between the two statements of a save and
\* across the statements of a rollup.
RepositoryFree ==
  rollupPc # "upsert" /\ \A l \in Listeners : pc[l] \notin {"conversation", "saved"}

-----------------------------------------------------------------------------
Init ==
  /\ clock = 0 /\ flows = <<>> /\ crashes = 0
  /\ rawRows = {}
  /\ convRows   = [f \in FlowIds |-> 0]
  /\ rollupRows = [f \in FlowIds |-> 0]
  /\ queue = [l \in Listeners |-> <<>>]
  /\ pc    = [l \in Listeners |-> "receive"]
  /\ failed = [l \in Listeners |-> FALSE]
  /\ ring  = <<>>
  /\ rollupPc = "start" /\ now = 0 /\ watermark = 0 /\ marks = {}
  /\ batch = {} /\ spoiled = {}
  /\ parsed = 0 /\ written = 0 /\ dropped = 0

Goto(l, place) == pc' = [pc EXCEPT ![l] = place]

\* recv_from and parse: the records of one datagram share observed_at.
Receive(l) ==
  /\ pc[l] = "receive"
  /\ \E n \in 1 .. MaxBatch, p \in Protocols, s \in Sizes :
       LET ids == [i \in 1 .. n |-> Len(flows) + i]
           new == [i \in 1 .. n |-> [protocol |-> p, size |-> s, observed |-> clock]]
       IN  /\ Len(flows) + n <= MaxFlows
           /\ flows' = flows \o new
           /\ queue' = [queue EXCEPT ![l] = ids]
  /\ Goto(l, "parsed")
  /\ UNCHANGED <<clock, failed, parsed, written, dropped, ring, rollupVars, tables, crashes>>

\* PARSED_FLOWS.fetch_add.
CountParsed(l) ==
  /\ pc[l] = "parsed"
  /\ parsed' = parsed + Len(queue[l])
  /\ Goto(l, "push")
  /\ UNCHANGED <<clock, flows, queue, failed, written, dropped, ring, rollupVars, tables,
                 crashes>>

\* Any error of recv_from but a timeout ends the thread for good.
ReceiveFails(l) ==
  /\ pc[l] = "receive"
  /\ Goto(l, "ended")
  /\ UNCHANGED <<clock, flows, queue, failed, parsed, written, dropped, ring, rollupVars,
                 tables, crashes>>

\* Mutant of Push: the instant is the one of the datagram, read before the lock.
PushDatagramInstant(l) ==
  /\ pc[l] = "push" /\ queue[l] # <<>>
  /\ LET f == flows[queue[l][1]]
     IN  ring' = Trimmed(Append(Retained(ring), [flow |-> queue[l][1], size |-> f.size,
                                                 at |-> f.observed]))
  /\ Goto(l, "save")
  /\ UNCHANGED <<clock, flows, queue, failed, parsed, written, dropped, rollupVars,
                 tables, crashes>>

\* The ring mutex: the entry's instant is read while it is held.
Push(l) ==
  /\ pc[l] = "push" /\ queue[l] # <<>>
  /\ ring' = RingAfterPush(queue[l][1])
  /\ Goto(l, "save")
  /\ UNCHANGED <<clock, flows, queue, failed, parsed, written, dropped, rollupVars,
                 tables, crashes>>

DatagramDone(l) ==
  /\ pc[l] = "push" /\ queue[l] = <<>>
  /\ Goto(l, "receive")
  /\ UNCHANGED <<clock, flows, queue, failed, parsed, written, dropped, ring, rollupVars,
                 tables, crashes>>

\* save_flow_record: the mutex and the first statement.
InsertRaw(l) ==
  /\ pc[l] = "save" /\ RepositoryFree
  /\ rawRows' = rawRows \cup {queue[l][1]}
  /\ Goto(l, "conversation")
  /\ UNCHANGED <<clock, flows, queue, failed, parsed, written, dropped, ring, rollupVars,
                 convRows, rollupRows, crashes>>

\* Mutant of InsertRawFails: a failed save ends the thread, as a failed receive does.
InsertRawFailsAndStops(l) ==
  /\ pc[l] = "save" /\ RepositoryFree
  /\ Goto(l, "ended")
  /\ UNCHANGED <<clock, flows, queue, failed, parsed, written, dropped, ring, rollupVars,
                 tables, crashes>>

InsertRawFails(l) ==
  /\ pc[l] = "save" /\ RepositoryFree
  /\ failed' = [failed EXCEPT ![l] = TRUE]
  /\ Goto(l, "saved")
  /\ UNCHANGED <<clock, flows, queue, parsed, written, dropped, ring, rollupVars, tables,
                 crashes>>

UpsertConversation(l) ==
  /\ pc[l] = "conversation"
  /\ convRows' = [convRows EXCEPT ![queue[l][1]] = @ + 1]
  /\ Goto(l, "saved")
  /\ UNCHANGED <<clock, flows, queue, failed, parsed, written, dropped, ring, rollupVars,
                 rawRows, rollupRows, crashes>>

\* Mutant of UpsertConversationFails: only the first statement counts as a drop.
UpsertConversationFailsSilently(l) ==
  /\ pc[l] = "conversation"
  /\ Goto(l, "saved")
  /\ UNCHANGED <<clock, flows, queue, failed, parsed, written, dropped, ring, rollupVars,
                 tables, crashes>>

\* The raw row is already committed and stays.
UpsertConversationFails(l) ==
  /\ pc[l] = "conversation"
  /\ failed' = [failed EXCEPT ![l] = TRUE]
  /\ Goto(l, "saved")
  /\ UNCHANGED <<clock, flows, queue, parsed, written, dropped, ring, rollupVars, tables,
                 crashes>>

\* The guard of the mutex goes out of scope.
Unlock(l) ==
  /\ pc[l] = "saved"
  /\ Goto(l, "write")
  /\ UNCHANGED <<clock, flows, queue, failed, parsed, written, dropped, ring, rollupVars,
                 tables, crashes>>

\* The loop goes on to the next record.
RecordDone(l) ==
  /\ queue'  = [queue EXCEPT ![l] = Tail(@)]
  /\ failed' = [failed EXCEPT ![l] = FALSE]
  /\ Goto(l, "push")

\* Mutant of CountWrite: a failed save is counted as two writes.
CountWriteTwice(l) ==
  /\ pc[l] = "write"
  /\ written' = written + (IF failed[l] THEN 2 ELSE 1)
  /\ IF failed[l] THEN Goto(l, "drop") /\ UNCHANGED <<queue, failed>>
                  ELSE RecordDone(l)
  /\ UNCHANGED <<clock, flows, parsed, dropped, ring, rollupVars, tables, crashes>>

\* DB_WRITE_COUNT.fetch_add, for failed saves too.
CountWrite(l) ==
  /\ pc[l] = "write"
  /\ written' = written + 1
  /\ IF failed[l] THEN Goto(l, "drop") /\ UNCHANGED <<queue, failed>>
                  ELSE RecordDone(l)
  /\ UNCHANGED <<clock, flows, parsed, dropped, ring, rollupVars, tables, crashes>>

\* DROPPED_FLOWS.fetch_add.
CountDrop(l) ==
  /\ pc[l] = "drop"
  /\ dropped' = dropped + 1
  /\ RecordDone(l)
  /\ UNCHANGED <<clock, flows, parsed, written, ring, rollupVars, tables, crashes>>

-----------------------------------------------------------------------------
\* run_rollup_loop starts some time after the listeners may have.
RollupStart ==
  /\ rollupPc = "start"
  /\ watermark' = clock /\ marks' = {clock}
  /\ rollupPc' = "sleep"
  /\ UNCHANGED <<clock, flows, listenerVars, ring, now, batch, spoiled, tables, crashes>>

\* The sleep is over; the clock is read before the ring is locked.
RollupWake ==
  /\ rollupPc = "sleep" /\ clock - watermark >= RollupInterval
  /\ now' = clock
  /\ rollupPc' = "scan"
  /\ UNCHANGED <<clock, flows, listenerVars, ring, watermark, batch, marks, spoiled,
                 tables, crashes>>

\* Mutant of InWindow: both ends of the window are closed.
InClosedWindow(e) == watermark <= e.at /\ e.at <= now

\* Mutant of InWindow: the last interval, whenever the previous pass was.
InLastInterval(e) == now - RollupInterval < e.at /\ e.at <= now

\* received_at > watermark && received_at <= now
InWindow(e) == watermark < e.at /\ e.at <= now

\* The scan under the ring mutex, and the watermark, which moves on whatever the
\* repository will answer.
RollupScan ==
  /\ rollupPc = "scan"
  /\ batch' = {e.flow : e \in {x \in ToSet(ring) : InWindow(x)}}
  /\ watermark' = now /\ marks' = marks \cup {now}
  /\ rollupPc' = IF batch' = {} THEN "sleep" ELSE "wait"
  /\ UNCHANGED <<clock, flows, listenerVars, ring, now, spoiled, tables, crashes>>

RollupLock ==
  /\ rollupPc = "wait" /\ RepositoryFree
  /\ rollupPc' = "upsert"
  /\ UNCHANGED <<clock, flows, listenerVars, ring, now, watermark, batch, marks,
                 spoiled, tables, crashes>>

\* One group in the order of a hash map.
UpsertGroup ==
  /\ rollupPc = "upsert"
  /\ \E g \in {GroupOf(f) : f \in batch} :
       LET group == {f \in batch : GroupOf(f) = g}
       IN  /\ rollupRows' = [f \in FlowIds |-> rollupRows[f] + (IF f \in group THEN 1 ELSE 0)]
           /\ batch' = batch \ group
  /\ UNCHANGED <<clock, flows, listenerVars, ring, rollupPc, now, watermark, marks,
                 spoiled, rawRows, convRows, crashes>>

\* The first failing group ends the pass; nothing is kept for the next one.
UpsertGroupFails ==
  /\ rollupPc = "upsert" /\ batch # {}
  /\ spoiled' = spoiled \cup batch
  /\ batch' = {}
  /\ UNCHANGED <<clock, flows, listenerVars, ring, rollupPc, now, watermark, marks,
                 tables, crashes>>

RollupEnds ==
  /\ rollupPc = "upsert" /\ batch = {}
  /\ rollupPc' = "sleep"
  /\ UNCHANGED <<clock, flows, listenerVars, ring, now, watermark, batch, marks,
                 spoiled, tables, crashes>>

-----------------------------------------------------------------------------
Tick ==
  /\ clock < MaxClock
  /\ clock' = clock + 1
  /\ UNCHANGED <<flows, listenerVars, ring, rollupVars, tables, crashes>>

\* The process stops anywhere and is started again; only the tables survive.
Crash ==
  /\ crashes < MaxCrashes
  /\ crashes' = crashes + 1
  /\ queue' = [l \in Listeners |-> <<>>]
  /\ pc'    = [l \in Listeners |-> "receive"]
  /\ failed' = [l \in Listeners |-> FALSE]
  /\ ring'  = <<>>
  /\ rollupPc' = "start" /\ now' = clock /\ watermark' = clock /\ marks' = {}
  /\ batch' = {} /\ spoiled' = {}
  /\ parsed' = 0 /\ written' = 0 /\ dropped' = 0
  /\ UNCHANGED <<clock, flows, tables>>

ListenerStep(l) ==
  \/ CountParsed(l) \/ Push(l) \/ DatagramDone(l)
  \/ InsertRaw(l) \/ InsertRawFails(l)
  \/ UpsertConversation(l) \/ UpsertConversationFails(l)
  \/ Unlock(l) \/ CountWrite(l) \/ CountDrop(l)

RollupStep ==
  \/ RollupStart \/ RollupWake \/ RollupScan \/ RollupLock
  \/ UpsertGroup \/ UpsertGroupFails \/ RollupEnds

Next ==
  \/ \E l \in Listeners : Receive(l) \/ ReceiveFails(l) \/ ListenerStep(l)
  \/ RollupStep
  \/ Tick
  \/ Crash

\* The threads are scheduled by the operating system and no call blocks for ever;
\* datagrams, failures of the socket and crashes are nobody's duty.
Fairness == /\ \A l \in Listeners : WF_vars(ListenerStep(l))
            /\ WF_vars(RollupStep)

Spec == Init /\ [][Next]_vars /\ Fairness

-----------------------------------------------------------------------------
Locations == {"receive", "parsed", "push", "save", "conversation", "saved", "write", "drop",
              "ended"}

TypeOK ==
  /\ clock \in 0 .. MaxClock /\ crashes \in 0 .. MaxCrashes
  /\ flows \in Seq(Flow) /\ Len(flows) <= MaxFlows
  /\ queue \in [Listeners -> Seq(FlowIds)]
  /\ pc \in [Listeners -> Locations]
  /\ failed \in [Listeners -> BOOLEAN]
  /\ ring \in Seq(Entry)
  /\ rollupPc \in {"start", "sleep", "scan", "wait", "upsert"}
  /\ {now, watermark} \cup marks \subseteq 0 .. MaxClock
  /\ batch \subseteq FlowIds /\ spoiled \subseteq FlowIds
  /\ {parsed, written, dropped} \subseteq 0 .. MaxFlows
  /\ rawRows \subseteq FlowIds
  /\ convRows \in [FlowIds -> Nat] /\ rollupRows \in [FlowIds -> Nat]

\* The ring is in the order of its instants, whichever listeners fill it, so what the
\* limits push out at the front is always the oldest, and it stays within both limits.
RingOrderedAndBounded ==
  /\ \A i, j \in DOMAIN ring : i < j => ring[i].at <= ring[j].at
  /\ Len(ring) <= RingLimit /\ RingBytes(ring) <= RingBytesLimit

\* No table counts a record twice, over every pass of the rollup, every retry-free
\* failure and every restart: the windows of successive passes do not overlap.
CountedAtMostOnce == \A f \in FlowIds : convRows[f] <= 1 /\ rollupRows[f] <= 1

\* A record that is still in the ring and older than the watermark has been rolled up
\* or is about to be, unless its pass failed; a listener that was between its push
\* and the scan is never overtaken.  (A record of the very instant of a watermark,
\* or from before the rollup thread started, is outside every window.)
RollupCoversRing ==
  \A i \in DOMAIN ring :
    LET e == ring[i]
    IN  /\ e.at < watermark /\ e.at \notin marks
        /\ \E m \in marks : m < e.at
        => rollupRows[e.flow] = 1 \/ e.flow \in batch \cup spoiled

\* The records at the head of the queues of the listeners at some of the locations.
HeadsAt(S) == {queue[l][1] : l \in {m \in Listeners : pc[m] \in S}}

\* The records of a listener that are counted as parsed and not yet as written.
AwaitingOf(l) ==
  IF pc[l] = "parsed" THEN {} ELSE ToSet(IF pc[l] = "drop" THEN Tail(queue[l]) ELSE queue[l])

Awaiting == UNION {AwaitingOf(l) : l \in Listeners}

Stored == {f \in FlowIds : convRows[f] > 0}

\* The counters account for every record decoded since the start.  Each one moves behind
\* what it counts, so the equations correct for the listeners that are in between: a record
\* counted as parsed is still to be counted as written or was, and a record counted as
\* written is counted as dropped, or about to be, or reached both tables.  (The rows of
\* earlier runs of the process are not counted.)
CountersAccountForFlows ==
  /\ parsed = written + Cardinality(Awaiting)
  /\ crashes = 0 =>
       written = dropped + Cardinality(HeadsAt({"drop"}))
                         + Cardinality(Stored \ HeadsAt({"saved", "write"}))

\* No thread of the collector is stuck, with a failing database either: what the listeners
\* have queued is handled to the last record, or lost with the process, once no more
\* datagrams come (the bound ends them), and every pass of the rollup ends.
ThreadsKeepGoing ==
  /\ []<>(\A l \in Listeners : queue[l] = <<>>)
  /\ []<>(rollupPc = "sleep")
=============================================================================
