# TracePulse: formal models

TLA+ models of TracePulse, the configurations TLC checks them with, and theorems
about them that TLAPS proves. Line numbers refer to the repository's `src/`.

| module | models | checked by | proofs |
|---|---|---|---|
| `FlowTemplates` | NetFlow v9 / IPFIX template cache and orphan buffer (`src/flow.rs`) | `flow_templates` | `FlowTemplates_proofs` |
| `FlowDelivery` | what the decoder promises, without caches or threads | refined by `FlowTemplates` | `FlowTemplates_proofs` |
| `FlowPipeline` | listeners, live ring, rollup thread, flow tables (`src/flow.rs`, `src/db/repository.rs`) | `flow_pipeline` | `FlowPipeline_proofs` |
| `Monitoring` | polling loop, alert tracker, device rows (`src/web/server.rs`, `src/alert/rules.rs`) | `monitoring`, `monitoring_live`, three violation runs | `Monitoring_proofs` |
| `Credentials` | master key, encrypted communities, start-up (`src/lib.rs`, `src/crypto.rs`, `src/db/credentials.rs`, `src/config/mod.rs`) | `credentials`, `power_loss` | `Credentials_proofs` |
| `Terminal` | the TUI's event loop, its tasks, another process on its database (`src/ui/tui.rs`) | `terminal` | `Terminal_proofs` |
| `WebServer` | request threads, shared configuration and repository, settings, registration, scan jobs (`src/web/server.rs`) | `web_server` | `WebServer_proofs` |
| `HostChunks` | how a scan deals its hosts out to workers; used by the two above | `terminal`, `web_server` | `Basics` |
| `Places` | filtering and ordering by places instead of by recursion; used where sequences are filtered or ordered | `flow_pipeline`, `terminal`, `web_server`, `snmp` | `Basics` |
| `SnmpWalk` | the plain and the reliable walk (`src/snmp/client.rs`, `src/snmp/walk_api.rs`) | `snmp` | `SnmpCollection_proofs` |
| `Topology` | LLDP and CDP tables into links and nodes (`src/snmp/topology.rs`, `src/web/server.rs`) | `snmp` | `SnmpCollection_proofs` |
| `InterfaceSamples` | interface discovery, samples and counter differences (`src/snmp/client.rs`, `src/monitor/`, `src/db/repository.rs`) | `snmp` | `SnmpCollection_proofs` |
| `Hardware`, `Readings` | which value of many is shown: CPU, memory, optics, sensors, neighbours, template (`src/snmp/client.rs`, `dom.rs`, `template.rs`) | `snmp` | `SnmpCollection_proofs` |
| `SnmpCollection` | the five above, as the tasks they are | `snmp` | `SnmpCollection_proofs` |

## 1. Inventory

TracePulse is a Web GUI or a TUI, or both, each one process. It discovers SNMP devices, polls them, raises alerts,
collects NetFlow/IPFIX/sFlow, stores everything in one SQLite file and shows it in a
Web GUI and a TUI.

| part | state | operations | hard part |
|---|---|---|---|
| Template decoder (`flow.rs` 772-1038) | `TemplateCache`, `OrphanCache`, `ORPHAN_PACKET_SEQUENCE` | cache a template set, decode or park a data set, replay the parked ones | two mutexes taken one after the other by two threads; expiry and caps at every access; replays that park again |
| Flow pipeline (`flow.rs` 360-506, `repository.rs` 302-369) | `LIVE_FLOW_RING`, watermark, counters, three tables | receive, push, save (two statements), roll up once a minute | three listeners and the rollup share a ring and one repository mutex; windows of successive passes; a statement that fails, a restart |
| Record formats (`flow.rs` 568-770, 1040-1249) | none | bytes to `FlowRecord` | lengths and boundaries |
| Polling loop (`server.rs` 4565-4907) | the copied device table, one thread per device, the tracker | copy, probe, apply results | rows deleted and registered while a cycle works on its copy |
| Alert rules (`alert/rules.rs`) | `MetricAlertTracker.active` | `transitions` | must neither repeat nor swallow changes, over failed polls and restarts |
| Broadcaster (`alert/broadcaster.rs`) | a bounded broadcast channel | publish, subscribe | lagging subscribers |
| Repository (`db/repository.rs`, `db/sqlite.rs`) | SQLite tables, foreign keys on | rows of devices, samples, alerts, flows | no transactions around several statements; text comparison of times |
| Registration and removal (`server.rs` 1368, 2815) | `devices` | register, delete | limit of the edition, races with the poller |
| HTTP server (`server.rs` 203-862) | the locks of configuration, repository and jobs | one thread per connection | order of locks, queries made with a lock held |
| Scan jobs (`server.rs` 2016-2236) | a table of at most 16 `ScanJob`s | start, workers, status | workers that finish out of order, eviction of a running job |
| Credentials (`lib.rs`, `crypto.rs`, `db/credentials.rs`) | `secret.key`, encrypted rows, `credential_storage` | load or create the key, migrate, clean up, read, write | a crash or a loss of power between the steps of start-up; two processes that start together |
| Settings (`config/`, `server.rs` 1661-1999) | shared `AppConfig`, the file | change, persist | memory and file may disagree |
| Walks (`snmp/client.rs` 899-1020, `snmp/walk_api.rs`) | none kept | GETNEXT until the end, an error, a limit, a deadline, a cancellation | tables that change, agents that loop, what "complete" means |
| Readings (`snmp/client.rs`, `dom.rs`, `template.rs`) | none kept | GET and walk of alternatives | tables joined by row, lost answers, precedence |
| Interface samples (`client.rs` 649-868, `monitor/`, `repository.rs` 1053-1661) | `interface_samples` | discover, query, store, compare | wraps and restarts, interfaces that come and go |
| Topology (`snmp/topology.rs`, `server.rs` 2238-2630) | none kept | merge neighbour tables into edges | ambiguous local ports, duplicates seen by two protocols |
| TUI (`ui/tui.rs`) | copies of devices, interfaces and alerts with indexes into them; a tracker and a connection of its own | keys, ticks, scan and poll threads | everything reloaded or removed under a selection |
| Retention (`cleanup/`, `repository.rs` 996-1045) | | | nobody calls it |

The parts interact through the repository mutex (listeners, rollup, poller, HTTP
handlers), the ring mutex (listeners, rollup, HTTP handlers), the two mutexes of the
decoder, the shared configuration, and the broadcast channel of the alerts. The TUI
goes around the mutex with its own connection.

What makes each part correct: the decoder neither loses nor repeats a data set except
by its own rules; the pipeline counts each record once in each table, and its counters
tell the truth; the poller shows what devices do, announces an outage once, swallows no
change of severity; ids of deleted devices never come back to life; stored secrets are
all under one key, which is never lost, and never lie beside plaintext. `PROJECT.json`
lists the hazards line by line.

## 2. How the models correspond to the code

### FlowTemplates

One action is one critical section (one `lock()` and its guard's lifetime) of one
listener thread. `BeginTemplateSet`, `InsertTemplate` and `EndTemplateSet` are the one
critical section of `cache_templates` cut at each definition, because each definition
reads the clock; `TemplatesFree` keeps the other listener out in between.
`decode_data_set` is two critical sections: `DecodeDataSet` or `MissTemplate`, then
`ParkDataSet`. `TakeOrphans` is the section of `replay_orphans`, which then calls
`decode_data_set` for each data set taken, hence `pending`.

- A datagram is a list of flow sets of three kinds. Everything the parser skips
  (options templates, reserved ids) is `other`; a malformed header or a set whose length
  does not fit is a shorter list. A template that is withdrawn is cached like any other.
- The orphan buffer is a function from packet id to its parked positions and arrival
  time. The order of the vector is abstracted: the order in which replayed data sets are
  decoded is nondeterministic, which allows every order the code has.
- `packets` and `consumed` are history variables: the first gives data sets their scope,
  the second counts decodings.
- A poisoned mutex (a panic while it is held) is not modelled.

`FlowDelivery` says what is promised: a data set is unseen, held, then decoded or
dropped, for good. The refinement mapping (`StatusOf`) reads that status off the listeners
and the buffer: a data set is held if it is ahead of a parser, in hand or parked (`Held`) and
has not been decoded, decoded only if it is in none of these places and was decoded once.
Anything else is `astray`, which `FlowDelivery` does not know: a decoded data set that stayed
in the buffer, or came back to it, would break the refinement (mutant `TakeOrphansCopy`).

### FlowPipeline

A listener is `receive -> parsed -> push -> save -> conversation -> saved -> write (-> drop)
-> push ...`, the rollup thread `start -> sleep -> scan -> wait -> upsert -> sleep`. Push and
scan are the two critical sections of the ring. The repository mutex is `RepositoryFree`: it
is held from the first statement of a save until its guard is dropped (`Unlock`), and over a
whole rollup. Each counter moves in a step of its own, as each is one relaxed `fetch_add`:
`CountParsed` after the receipt, `CountWrite` after the unlock, `CountDrop` after that. Every
statement may fail; a restart (`Crash`) may come anywhere and leaves only the tables.

`CountersAccountForFlows` is therefore not an equality of the counters and the tables, which
does not hold during a save, but one corrected for what is in flight: a record counted as
parsed is counted as written or still awaits it (`Awaiting`), and until a restart one counted
as written is dropped, about to be, or stored in both tables, of which those whose listener has
not come to the counter yet are taken off.

Clock readings are coarse ticks, so that two readings may be equal. `observed` gives the bucket of a record.
A record is its protocol, size and time; addresses and ports do not change control.
`Retained` is the `retain` of the ring, written by places instead of by recursion.
`RECEIVED_DATAGRAMS` and the latency sum are left out.

### Monitoring

`StartCycle` is `list_devices` after the sleep, `Probe` one device's thread, `Apply` one
turn of the loop that joins the threads, under the repository mutex. The table has no
`ORDER BY`, so results are applied in any order. `Register` and `Delete` are the HTTP
handlers. A row keeps the *format* of `last_seen_at`, which decides whether the grace
period can apply. One metric and one interface stand for all: the tracker's keys and the
spike check treat each on its own. `samples` keeps what the two latest samples of an id
say. `outbox` holds the events of the last step, with a flag that says whether
`save_alert` was accepted by the foreign key. The statements of `Apply` commit one by one, but
under the repository mutex, so in one process (another one that polls is not modelled) only a
stop can come between them: `StopWithin`
is a stop (and the next start) after one of five parts of the result, as `Restart` is one
between two steps. `notified`, `level` and `misses` are history.
Panics of probe threads, a failing `list_devices` (the cycle is skipped) and statements
that fail for another reason than the foreign key are not modelled.

### Credentials

The processes share a data directory; `pc` is the place of each in `run` (`lib.rs` 24):
verify the key of the configuration (`Start`), protect the database, load and migrate the
configuration, then `Repository::new`, which protects once more. `opened` tells the two
passes apart. One action is what no other process and no crash can split: a transaction, a
rename, a synchronisation, a read. `Reopen` is the repository the TUI opens for each poll.

- An envelope is the key it is encrypted under; it decrypts under that key and no other.
  `key_check` is one more envelope. Forged envelopes are not modelled.
- `residue` is where old plaintext survives after its row was encrypted: in `pages` of the
  file or the log, or, after a `VACUUM` that is only in the log, in the file below it
  (`compacted`). A checkpoint writes the log to the file.
- `durable` is the set of contents a loss of power may leave: with `synchronous=NORMAL`
  every commit since the last checkpoint may be gone. Automatic checkpoints would only make
  the set smaller. `synced` says the same of the directory entry of `secret.key`.
- Any step may fail. A failed start-up ends the process, which is `Stop` at that step; a
  failed handler changes nothing, but for `ConfigUnsynced`.
- A process loads its key from `TRACEPULSE_MASTER_KEY`, fixed when it starts, or from the
  file. The operator acts only while no process runs: loses or restores `secret.key`,
  starts over with an empty database, writes a community into `config.toml`. Restoring an
  old backup of the database is not modelled.
- The model also lets the TUI save settings, which it does not: more behaviours, not fewer.
- The code does not synchronise a key file it finds. A creator that is killed between the
  rename of `secret.key` and the synchronisation of its directory, or whose synchronisation
  fails, leaves such a file: what later starts encrypt under it a loss of power can make
  unreadable, until some process writes `config.toml`, which synchronises the directory they
  share (`WriteConfig`; `ConfigUnsynced` is a write whose synchronisation fails). `exposed`
  is the history of these keys and `KeyKeptWithData` names the window instead of assuming it
  away; no document of the repository promises more.
- The rename of `config.toml` itself counts as durable at once: a rename that is taken back
  leaves plaintext, or an envelope under the same key (`OneKey`).

### Terminal

One turn of `run_app` is: take over the finished task (`TakeScan` or `TakePoll`), receive the
alerts one by one (`ReceiveAlert`) until there is none, load the interfaces if asked to
(`Refresh`), draw, handle one key (`Keys`). Scan workers (`ProbeHost`), the thread
that joins them, poll threads and the background loop run beside it. `RegisterElsewhere` and
`RemoveElsewhere` are the Web GUI on the same database. A finished scan is taken over in
several steps, because that process may come between them: `TakeScan` copies what was found,
`SaveFound` saves one host, or fails to and goes on (`let _ =`, 993), `PollFound` opens a new
connection, lists the devices and starts the poll, or shows them if that fails. `scan.missing`
is the history of the hosts whose save failed or that were removed elsewhere. Text fields are their lengths, a
filter is the set of what it shows (`Hits`). What a poll writes is in `Monitoring`; the
window and order of the traffic tab, the pause of the drawing, the notification test,
extensions and statements that fail, but for the saves of a scan and the list of devices, are
left out.

### WebServer

A handler is a sequence of sections, each under one lock or none (`thread[t].at`); a section
that waits for the network or the disk, or that another process can come into, is cut, with
the lock held across the cut (`holder`). `Accept` to `Answer` is one connection.
`SaveConfig` and `SaveConfigFails` are `persist_config`; the second covers every way to fail,
a directory that cannot be synchronised after the rename included (`torn`). A scan is its
job and its threads, which put down a host that answers and count it (`Probed`), then report
the count they took (`Reported`); `Evicted` is the table of 16. Job numbers are taken as
distinct.
`ScanState::Error` is never set by the code. Names, tags, metadata and bulk rename are left
out: one statement each under the repository lock.

### The SNMP modules

Each task opens sessions of its own and shares no memory with the others, so a behaviour of
`SnmpCollection` runs one of them.

- `SnmpWalk`: an OID is its place in the order. The agent is sound (it names the successor in
  a table that may change) or faulty (it answers anything). The back-off and the clock are
  the flag `expired`.
- `Topology`: a world is what the tables of a device hold; a walk that loses an answer
  delivers a beginning of its table (`WalkIncreases` and `NoHole` of `SnmpWalk`). The rows of
  the neighbour tables are put in the order of their keys (`Ordered`), which is that of
  the code's maps. On which interface a port really is (`at`) is not something the device
  answers; what it says of the port may fit that interface, another one or both (`IsRight`).
  Links with one target and remote port are merged (`Merged`): each field of the
  merged one is the first that is known. Enrichment and the node limit are those of
  `server.rs`.
- `InterfaceSamples`: one error counter of the nine, modulo a small number; the Web server's
  loop and the TUI's engine differ in what they try when a discovery fails.
- `Readings` and `Hardware`: a device is a function from OIDs to a scalar and a column; a
  loss is a set of OIDs. `Poll` and `Diagnose` are the two callers. Of the DOM tables those
  by entity are modelled, direct ones are not. The walks of `query_table_*` and of hrStorage
  end after `MaxRows` rows (64), or after one when an answer is lost; numbers that the code
  takes as `u32` are taken modulo `Wide`. Names, types and units of sensors are left
  out, and a name filter is the set of rows it fits.

## 3. Runs

| run | bounds | shows |
|---|---|---|
| `flow_templates` | 2 listeners, 2 scopes, 2 template ids, 3 shapes of datagram, 3 datagrams, clock 0..2, TTLs 1, limits 1 | types; `DecodedAtMostOnce`; `NoStrandedOrphan`; `WithinLimits`; `DropsAreJustified`; `DeliversOrDrops` (refinement); no deadlock |
| `flow_pipeline` | 2 listeners, ring of 2 records and 3 units, 2 budgets: 2 records of one size, clock 0..2, one restart; 3 records of sizes 1 and 2 at one instant | types; `RingOrderedAndBounded`; `RollupCoversRing`; `CountersAccountForFlows`; `CountedAtMostOnce`; `ThreadsKeepGoing` |
| `monitoring` | 2 devices, 2 ids, no restart | types; `IdsIdentifyDevices` |
| `monitoring_live` | 1 device, 3 ids, one restart, anywhere within the application of a result too | `OfflineAnnouncedOnce`; `SeverityChangesAreRaised`; `SpikesAreReportedAtOnce`; `StatusFollowsDevice` |
| `credentials` | 2 processes, 1 device, 3 keys to generate and 1 of the operator, no loss of power | types; `OneKey`; `OpenedClean`; no deadlock |
| `power_loss` | 1 process, 1 device, the same keys, losses of power at any time | `KeyKeptWithData`; `CleanupRemembered`; `KeysAreNotRecreated`; no deadlock |
| `terminal` | 3 hosts of which up to 2 are known, 2 workers, 4 budgets: alerts (2) with a filter; tabs, pages and 2 changes by another process; a filter and 1 change; the form and ranges of 0 to 3 hosts | types; `InterfacesOfSelected`; `PanicsOnlyAfterRemoval`; `ScanRegistersAndPolls`; `SelectedAlertStays`; `TasksEnd` |
| `web_server` | 2 connections, 3 addresses, limit 2, table of 1 job, 4 budgets: every handler beside the background; 3 saves with 2 failures and a restart; registrations, deletions and the TUI; 2 scans and a restart | types; `SettingsAreSaved`; `DoneScansAreComplete`; `LimitHolds`; `WorkIsFinished` |
| `snmp` | walks of up to 3 rows with limits 0 to 4 and one change of the table; 165 worlds of 2 interfaces, 15 of which say something wrong of their ports, with 2 lost answers; 3 polls of 2 interfaces with 1 loss and 2 changes; some 4500 cases of readings, each with 6 sets of losses | `WalksAreHonest`; `TopologyIsSound`; `TopologyIsComplete`; `SamplesAreTrue`; `SelectionIsFaithful` |
| `stale_result` | 1 device, 2 ids | violates `TransitionsAreAnnounced` |
| `repeated_alert` | 1 device | violates `RepeatsAreSuppressed` |
| `three_misses` | 1 device, `MaxMisses` 3 | violates `OfflineAfterThreeMisses` |

Why the bounds are enough. Limits of one make every insertion beyond the first an
eviction; three datagrams allow a packet to be parked, replayed, parked again and dropped
by a newer one; a clock of two ticks lets an entry expire, or not, before each of them;
two scopes on two listeners are what crosses. In the pipeline two records over three
ticks give two rollup passes with a bucket boundary between them and ties with the
watermark. In the other budget three records of size 1 are within the limit of bytes and over
that of entries, two of size 2 the other way round, and the two listeners decide in which
order they come (`TrimmedOverBoth`, which trims only when both limits are exceeded, is caught
by it). Two ids for two devices allow a
device to be deleted and registered again, under a new id, in the middle of a cycle.
`CHECK_DEADLOCK FALSE` stands where a bound or a dead socket really ends the model:
`FlowPipeline` when its records and ticks are used up, `Monitoring` when the table stays
empty and no id is left. `FlowTemplates` keeps deadlock checking, with `Exhausted` for
the listeners that wait for ever in `recv_from`.

In `credentials` two processes race for the key file with three keys to generate, enough
for the losers' keys to be wrong ones; one row is enough because every row is treated
alike, in one transaction. In `power_loss` one process is enough: what a loss of power takes
back does not depend on who wrote it, and `KeysAreNotRecreated` speaks of one process at a
time (two that are started together under different keys may race, and one of them then
stops at the verification value; `OneKey` covers that case). The theorem
`KeyNeverLost` is about any number of processes.

In `flow_pipeline`, `terminal` and `web_server` a behaviour keeps within one of several budgets: what two parts
cannot do to each other (the form and the alerts, scans and settings) is not multiplied out.
Three hosts over two workers give chunks of different lengths, two, one and none; a limit of
two devices and bodies of two addresses make the last place contested; one job in the table
makes the second scan evict the first while it runs. In `snmp` each kind of task has every
combination of the tables that decide about one result (ports by alias, MAC, name or number;
rows without a name, with equal names, with malformed addresses; sensors with equal ports,
loops of containment; overrides as scalar, column or nothing), and losses of each of them.

Symmetry is used in safety runs only: permutations of
the devices in `monitoring`, of the generated keys (and, in `credentials`, of the
processes), which the specifications treat alike.

Fairness. `FlowPipeline`: weak fairness of each listener between two datagrams and of the
rollup thread: the operating system schedules every thread, and the statements return.
The mutexes of the standard library promise no order, but the records are finite, so a
waiting thread is let in eventually. Receiving, failing and crashing are never forced.
`Monitoring`: weak fairness of the cycle, of each probe (every SNMP request has a
timeout) and of each application; the devices and the users owe nothing.
`Terminal`: weak fairness of the loop, which waits 50 ms for a key and goes on without one,
and of the threads; no key is ever owed. `WebServer`: strong fairness of each connection's
handler, because the locks it waits for are let go again and again (the poller sleeps, other
handlers answer), weak fairness of the scan's threads and of the poller while it holds the
lock; requests, failures and restarts are not owed.

### Findings

1. `stale_result` (bug). `update_device_status` writes to the row of an IP, the
   announcement looks at the status copied at the start of the cycle. Delete and register
   an offline device while its probe runs: the old result takes the new row offline, and
   no event is ever published (`server.rs` 4771-4789; comment at 4783).
2. `repeated_alert` (documentation). A poll that could not collect a metric empties the
   tracker, so an unchanged severity is raised again; `README.md` 512 promises suppression
   until the severity changes or the metric recovers (`rules.rs` 81).
3. `three_misses` (documentation). The plan says a device goes offline at the third
   unanswered poll in a row (`IMPLEMENTATION_PLAN.md` 73). The grace period of three intervals
   (`server.rs` 4650-4666) reads `last_seen_at` as RFC 3339, but every poll, answered or not,
   writes it in SQLite's format (`repository.rs` 112), so only a device's first poll can have
   one. The property speaks of devices that were polled before; in TLC's trace a new device
   misses a poll within the grace period of its registration, which writes the other format,
   and the second unanswered poll takes it offline.

A remark on the third: the mutant `TouchedInRfc3339` repairs the format and nothing else,
and `StatusFollowsDevice` fails, because *every* poll touches `last_seen_at`, an
unanswered one too. Offline detection works today because the two formats differ.

Not findings but worth knowing: a database whose last plaintext row was deleted by an older
version keeps that row in its free pages, because only a row that is converted sets
`cleanup_pending`; `docs/design/01-system-architecture.md` 78 lets a start go on with
defaults when the configuration cannot be read, `run` stops; the rollup misses a record whose instant equals the
watermark (excluded in `RollupCoversRing`, which says so), the groups after a failed one
are lost, and records pushed out of the ring before a pass are never rolled up.

The TUI: a host found by a scan whose save fails is dropped without a word (`tui.rs` 993); '/'
opens the filter from every mode, so during a scan it drops the scan and the
hosts found are never registered, and it cannot be typed into the CIDR field, while Space in
the version field pauses the screen (`README.md` 143 has the hosts that respond registered,
304 has Space toggle the version); a
scan ignores the version field and the device limit; PageUp and PageDown panic after another
process has removed devices and a poll has reloaded the list (`tui.rs` 2187,
`PanicsOnlyAfterRemoval` says this is the only way); the traffic filter stays on an interface
of the device selected before; alerts that are published but not saved disappear when a
manual poll reloads the list.

The Web server: SNMP overrides whose save failed stay in use, and the next save of anything
writes them (`SettingsAreSaved` speaks of the settings); a save that fails only to
synchronise the directory has replaced the file though an error is answered; an edit of
`config.toml` by hand between two requests is overwritten by the next save; a scan that is
evicted while it runs never shows its result; its progress may go backwards; the page says a
device was registered when the limit refused it (`discovery.ts`).

SNMP: a lost GET of an error counter is stored as 0, and the next sample shows a spike nobody
had; a lost GET of a status shows a port that is up as down; only 64 index requests are made,
and only 64 rows of the sensor and storage tables and of the processors read, so what lies
beyond is never shown, alarms included; a lost status column turns a sensor's alarm off; a manual sensor whose OID does not
answer is shown as "Normal"; one override of the memory OID is read as a percentage up to 100
and as bytes at the same time; a local port that is ambiguous can look unique when the alias
or name table was cut short; without the management addresses a device seen by LLDP and CDP
becomes two nodes; two neighbours without addresses that share host name and port are one
link; the TUI keys LLDP neighbours by local port number and looks them up by ifIndex
(`client.rs` 534, `tui.rs` 2676), and may pair the name of one neighbour of a port with the
remote port of another.

## 4. Proofs

TLAPS checks the following for every value of the constants that satisfies the named
assumptions of the modules (`ScopesAssumption`, `DatagramAssumption`, `LimitAssumption` and
`FiniteAssumption` of `FlowTemplates`, `RingAssumption` of `FlowPipeline`, `BoundAssumption`
of each, `KeysAssumption` of `Credentials`, `LimitsAssumption`, `ThreadsAssumption` and
`BudgetsAssumption` of `WebServer`, `RangeAssumption`, `TabsAssumption`, `LimitAssumption`
and `BudgetAssumption` of `Terminal`, `WalkAssumption`, `SampleAssumption`,
`TopologyAssumption`, `WorldAssumption`, `ReadingAssumption`, `CaseAssumption`; TLC evaluates
all of them). They give the constants their types, finite sets where something is counted,
limits that leave room for one entry, and the rows of a device's tables different indexes,
which SNMP gives them. `WorldAssumption` also says that a row of a neighbour table has a
column that says something: the code knows a row by the columns it has read of it.
`CaseAssumption` says what a device of each kind of reading looks like: numbers under OIDs,
tables that end, amounts of memory that are not negative, and a generic template in front of
the bundled ones.

`FlowTemplates_proofs`

- `TypeCorrect`: `Spec => []TypeOK`. The inductive invariant `TypeInv` adds that a busy
  listener parses a received packet of one of its own scopes (`Parsing`) and stands at a
  set of it (`Positions`); without them an index could be out of range.
- `NothingStranded`: `Spec => []NoStrandedOrphan`. It needs `StructInv`: what a listener
  has in hand is of the scope it parses (`PendingOK`), and a missed template is still
  missing when the data set is parked (`MissingOK`). The argument is `ScopesApart`: two
  busy listeners are in different scopes, so only the listener itself could have cached
  the template, and expiry only removes (`LiveTemplatesKeepOrRemove`).
- `DecodedOnce`: `Spec => []DecodedAtMostOnce`. The strengthening `OnceInv` says that a
  data set is in one place: ahead of the parser, in the hands of one listener
  (`HandsApart`), or parked; and not yet decoded while it is in any of them.
- `LimitsHold`: `Spec => []WithinLimits`. A section that inserts evicts first, and what it
  keeps (`Newest`) is of the size it asks for.
- `ImplementsDelivery`: `Spec => DeliversOrDrops`. `DeliveryInv` adds `IdleAtFirst` to the
  invariants above, of which `OnceInv` says that what is held was not decoded: without it a
  decoding would not lead to `decoded`. A datagram received turns its own data sets from unseen to held
  (`ReceiveArrives`), a decoding turns one from held to decoded (`DecodeDecodes`), and every
  other action turns some from held to dropped and none back (`OtherStepsHoldNoMore`).
- `DropsJustified`: `Spec => DropsAreJustified`. The parser passes over a data set only to
  hand it on (`AheadStays`), so what leaves the decoder was parked; and where the buffer
  leaves out a packet, the newest ones it keeps are as many as the limit (`NewestIsFull`,
  `EvictedByNewer`).

`FlowPipeline_proofs`

- `TypeCorrect`, `RingKept`, `RollupCovers`, `CountersAccount`, `CountedOnce`: all the
  invariants of the run, for any listeners, records, limits, clock and restarts.
- `CountersAccount` is about any number of listeners, each at its own step between a statement
  and a counter; `CountInv` ties what is stored to those steps (`StoredInv`).
- The inductive invariant is `PipelineInv`. `QueueInv`: a record is queued once, in one
  listener. `CountInv`: what is queued has no conversation yet. `PassInv`: what the batch,
  the ring beyond the watermark and the records still to be pushed hold is not rolled up,
  and a record has one entry in the ring; a pass that begins at the watermark therefore
  cannot count anything again. `WatermarkInv`: no entry and no watermark is ahead of the
  clock, which is what makes a listener that pushes during a pass fall into the next one.
- `Retained` and `Trimmed` are shown to keep the order and to stay within the limits by a
  counting argument (`CountingUp`, `PlaceExists`), since nothing about them is recursive.

`Monitoring_proofs`

- `TypeCorrect`, `IdsCorrect`, `OfflineOnce`, `SeverityChangesRaised`, `SpikesReported`:
  the invariants and action properties of the runs `monitoring` and `monitoring_live`, for
  any set of devices and any bounds, with a stop between any two parts of a result.
  `SpikesReported` says nothing of a step in which the process stops: a sample stored just
  before it is checked by the next poll. `IdInv` says what a copied row may be: its id was
  handed out, and nobody else has it. `AlertInv` says what the events rest on: while an
  outage is announced, the row and the copy of it are offline or gone (`NotifiedShows`),
  and the tracker holds the level collected last or nothing (`TrackerMatches`).

`Credentials_proofs`

- `TypeCorrect`, `OneKeyForAll`, `ResidueRemembered`, `CleanOnceOpened`, for any number of
  processes, devices and keys, with or without losses of power.
- `OneKey` rests on `KeyInv`: in every database a loss of power may leave, the envelopes are
  under the key it verifies, which is that of the database in use and of the configuration
  (`DatabasesAgree`); a process holds the key it would load again (`SourceHeld`); past the
  transaction of `protect` that is the key of the database (`KeyChecked`); and while the
  database has none, it will be the key of the configuration (`ConfigPromised`).
- `CleanupRemembered` and `OpenedClean` rest on `CleanInv`: in every database a loss of power
  may leave, residue comes with the marker (`Marked`), and how clean the database is at each
  place of the start-up, whatever the other processes do (`CleanAt`).
- `KeyNeverLost`: `Spec => []KeyKeptWithData`, for any number of processes, with losses of
  power. `KeptInv` says that every key that a database a loss of power may leave needs is safe
  (`Kept`, `Safe`): in the file, the operator's, one the operator has lost, or exposed. What
  carries it is `UnsyncedIsExposed`: while the directory entry of the key file is not
  synchronised, the file's key is that of a creator about to synchronise it, which encrypts
  nothing yet, or is exposed already. The property names that window, because the code has
  it: a later start does not close it.
- `KeysNotRecreated`: `Alone /\ Spec => KeysAreNotRecreated`, for one process. `CreateInv` adds
  that a verification value never comes without the table, which is what `protect` looks at
  (`TableFirst`), and that nothing is encrypted while a new key waits to be written
  (`CreationSafe`).

`WebServer_proofs`, for any number of connections, addresses, devices, jobs and restarts

- `LimitAlwaysHolds`: `Spec => []LimitHolds`. `LockInv` says who holds a lock at each section
  of a handler; `LimitInv`, that the room a registration was granted is still there while it
  holds the repository, for each device of its body that is left.
- `SettingsAlwaysSaved`: `Spec => []SettingsAreSaved`. `SettingsInv` says what memory and file
  are while a handler is between its change and its answer.
- `TypeCorrect`: `Spec => []TypeOK`, and `DoneScansAlwaysComplete`:
  `Spec => []DoneScansAreComplete`. `DataInv` says what a request holds (`InputsInv`), what
  the devices and the settings are (`RowsInv`, `ValuesInv`), and of every job (`JobOK`) that
  the hosts still to probe are apart from each other and from those that answered, and with
  the count of those probed make up its hosts (`CountsOK`), that what it found is what
  answered, once, while the table lists it (`FoundOK`), and that nothing is left to do when it
  is done (`DoneOK`). The chunks are taken apart one host at a time
  (`ContentOf` and `Distinct` in `Basics`), so their number does not matter.

`SnmpCollection_proofs`, over the `Spec` of `SnmpCollection`

- `WalksAreHonestHolds`: `[]WalksAreHonest`, for tables, limits and changes of any number.
  `WalkInv` adds what holds at each place of the loop (`Progress`) and how many requests were
  made since the cancellation (`Cancellation`).
- `SamplesAreTrueHolds`: `[]SamplesAreTrue`, for a counter of any width, any interfaces, any
  limit of requests and any number of polls, restarts and losses. A sample in hand is a past
  of its interface (`IsPast`): how far the counter had come, in which run of the device, and
  that what it shows is the rest of a division by its width. Two pasts in order have a true
  difference (`PairIsTrue`); that is arithmetic, and the one place where it can fail is a
  restart near the end of the counter, which the property names. `OnceOK` says that what is
  found, asked and sampled are apart, `FoundOK` that an interface that stays is found or still
  before the cursor.
- `TopologyIsSoundHolds`: `[]TopologyIsSound`, for any tables, any losses, any database and
  any node limit. What was collected are cells of the rows of the device (`CollectedOK`); so
  each neighbour tells of one row (`LldpIsTold`, `CdpIsTold`), and a merged link does
  (`JoinedIs`), because links are merged by target *and* remote port: the proof needs both.
  That nodes and links are drawn once rests on the order of the keys being one
  (`PrecedesIsOrder`), of which the rank of a key is a numbering (`OrderedIs`), and that no two
  links that are left are duplicates (`MergedIs`); `LimitedIs` and `AnnotatedIs` follow what the
  node limit and the health do to them.
- `TopologyIsCompleteHolds`: `[]TopologyIsComplete`, for any tables. `CompleteInv` adds that,
  as long as no answer was lost, what was collected of every table is exactly what the walks
  so far have visited (`WholeOK`): the varbinds of a walk are the cells of its columns that
  are there (`VarbindsAreThere`), so after the last walk a cell that was collected is the
  row's (`WholeCell`) and every row has its key in the order (`WholeKeys`, `OrderedIs`). Then
  the edge of each row leads where the row says (`PlacedLeads`); where the device says
  what is right of a port, the interface it is on is among the candidates, so a single
  candidate is that one (`RightIndex`); and merging loses none of it: each edge has
  joined one that stays, with its target and port (`MergedHasAll`), which is at the
  interface of one of those that joined (`JoinedIndex`).
- `SelectionIsFaithfulHolds`: `[]SelectionIsFaithful`, for any device, configuration,
  templates, losses, width of the counters, limit of rows and depth of the containment. The
  invariant (`ReadingsInv`) only says that what was read is what the operations choose for
  some loss; the work is one lemma for each rule of choice. The first of some options that is
  there (`FirstOfIs`); the row with the largest capacity, the last of several, which exists
  because rows are finite (`LargestPlace`, `SourceIs`); the range of a percentage, whether
  read, averaged or rounded (`TemplatePercentageIs`, `CpuIsInRange`); that all cells of a
  memory reading are of one row (`StorageUsageIs`, `MemoryRowIsOne`); the longest selector
  among bundled and custom templates (`LoadedIs`, `SelectedIs`, `ClosestIs`); the first
  entity above a sensor that stands for a port (`AboveExists`, `PortIsAbove`); overrides
  added once (`WithManualIs`, `InventoryIs`), so that the diagnosis, which adds them twice,
  lists what the polling loop lists; and the later row of a port (`NeighborsInAre`).

`Terminal_proofs`, for any hosts, tabs, filters and limits

- `TypeCorrect`: `Spec => []TypeOK`; `ScansAreTakenOver`: `Spec => ScanRegistersAndPolls`;
  `SelectionFollowsItsAlert`: `Spec => SelectedAlertStays`. `TerminalInv` has a part for each
  group of variables; what carries the first action property is `ScanOK`: every host of the
  range is probed or with one of the workers, none twice, and a scan that is finished has
  nothing with a worker; and `SavingOK`: what was found is still to be saved, registered, or
  missing for one of the two reasons the property names, whatever another process does
  between two saves.
- `ShowsTheSelected`: `Spec => []InterfacesOfSelected`. `ShownInv` says that the interfaces
  are those of the selected device or a refresh is asked for (`FreshOrAsked`), and that the
  refresh is done before the next key (`AnsweredBeforeKey`).
- `NoPanicOnItsOwn`: `Spec => []PanicsOnlyAfterRemoval`. Until another process removes a
  device, the list is no longer than the table and the selection within it (`ListsInv`): a
  scan only adds rows (`RegisteredGrows`), so no reload shortens the list.

`Basics` holds the facts several of these use: a set of numbers has a first one, a bounded
one a last, and is put in order by `InOrder`; what filtering by places keeps (`EntriesAt`);
what is in pieces of a sequence, and that the chunks of a scan are all of it, once.

Only model-checked:

- The liveness properties (`ThreadsKeepGoing`, `StatusFollowsDevice`, `TasksEnd`,
  `WorkIsFinished`): fairness and ENABLED are out of the prover's reach.
  Every other property of the runs that hold is the statement of a theorem.

How a property was restated for its proof. `TopologyIsComplete` first asked that every
neighbour be drawn at its port under its name. That is not true of all tables: of two rows
with one address and one remote port but two names one link is left, with one of the names;
and a device that says of a port what fits another interface has its neighbour drawn there.
So the property now says where a link leads (`Leads`), and speaks of the interface of those
ports of which the device says what is right (`IsRight`); the run has devices of both kinds.
Where the induction over data could be avoided it was: the path above a sensor is a recursive
function, of which the proof needs only that its first step to a port is the least number
with some property; and no property depends on what the sum of an average, a fold, amounts
to, only on polling and diagnosis taking the same one.

## 5. Not modelled

Byte-level parsing and rendering (flow record formats, SNMP encoding, HTTP, JSON, the front
end, the TUI's screens): pure input and output. Retention: `cleanup_old_history` and
`enforce_flow_database_limit` have no caller, and the scheduler of `cleanup/` only prints,
so the retention the documentation describes does not happen and there is no behaviour to
model. The broadcast channel: behaviour of its library. History queries: they read one
snapshot and change nothing; `flow_timeseries` (`repository.rs` 950) compares two formats of
a time as text and keeps whole days instead of the window, which is a property of SQLite's
order of strings and not of any state here. Diagnostics reports, mail and the scorer: no
state of their own.

## 6. Plan

Done, in the order of importance: `FlowTemplates` with `FlowDelivery`, `FlowPipeline`,
`Monitoring`, `Credentials`, `WebServer`, `Terminal`, the SNMP modules, and the theorems
above. Left: two pollers on one device table
(`Monitoring` composed with itself), which needs a larger model than TLC finishes in
minutes, and failing statements in `Monitoring`. No safety property that a run checks is
without its theorem.
