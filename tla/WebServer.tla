----------------------------- MODULE WebServer ------------------------------
(***************************************************************************)
(* The Web server of src/web/server.rs: one thread per connection, the     *)
(* configuration and the repository its threads share behind one lock      *)
(* each, the configuration file, and the scan jobs with their threads.     *)
(*                                                                         *)
(* A handler is a sequence of sections, each under one lock or none.  A    *)
(* section in which nothing else can be observed is one action; one that   *)
(* waits for the network or the disk, or meets another process in the      *)
(* database, is several, with the lock held in between.                    *)
(*                                                                         *)
(* What the pages and answers show, display names and tags are left out,   *)
(* and so are the extension hooks, except that one may refuse a request.   *)
(***************************************************************************)
EXTENDS Integers, Sequences, FiniteSets, SequencesExt, Places, HostChunks

CONSTANTS
  Threads,     \* the connections served at a time
  Concurrency, \* CONCURRENCY: the threads of a scan
  Ips,         \* addresses, as numbers
  Bodies,      \* what a registration may ask for: sequences of addresses
  Cidrs,       \* the ranges one may scan: sets of addresses
  MaxDevices,  \* WebLimits::max_devices
  MaxCidrs,    \* WebLimits::max_discovery_cidrs
  MaxHosts,    \* the values of max_hosts
  MaxJobs,     \* jobs kept in the job table
  Values,      \* values of a setting
  Budgets      \* bounds: a behaviour keeps within one of these

Kinds == {"asset", "summary", "thresholds", "devices", "detail", "diagnostics", "topology",
          "settings", "oids", "register", "delete", "scan", "status"}

ASSUME LimitsAssumption ==
  /\ Ips \subseteq Nat /\ IsFiniteSet(Ips) /\ 1 \in Ips
  /\ Bodies \subseteq Seq(Ips) /\ Cidrs \subseteq SUBSET Ips /\ 0 \in Values
  /\ {MaxDevices, MaxCidrs, MaxJobs, Concurrency} \subseteq Nat \ {0} /\ MaxHosts \subseteq Nat
\* Those who may hold a lock are told apart.
ASSUME ThreadsAssumption == Threads \cap {"free", "background"} = {}
\* The kinds of requests, how many of them, how many ranges a scan asks for, how often a
\* save fails, the process is restarted, or another process registers a device, and
\* whether the background threads use the repository.
ASSUME BudgetsAssumption ==
  Budgets \subseteq [kinds: SUBSET Kinds, requests: Nat, ranges: Nat, failures: Nat,
                     restarts: Nat, others: Nat, background: BOOLEAN]

VARIABLES
  thread,      \* a connection: its kind, where its handler is, and its locals
  holder,      \* who holds the lock of "cfg" and of "repo"
  config,      \* the shared AppConfig: the settings and the OID overrides
  file,        \* the same in the configuration file
  rows,        \* the addresses in the devices table
  scans,       \* every scan started: its job, whether the table lists it, its threads
  budget,      \* bound: that of this behaviour
  arrived, failures, restarts,  \* bounds: counters of what budget limits
  acked,       \* history: the settings last acknowledged or loaded
  lastSave,    \* history: how the last save ended
  torn,        \* history: a save that failed has replaced the file
  elsewhere    \* history: the rows another process has registered

settingsVars == <<config, file, acked, lastSave, torn>>
rowVars      == <<rows, elsewhere>>
counters     == <<budget, arrived, failures, restarts>>
vars == <<thread, holder, settingsVars, rowVars, scans, counters>>

Idle == [kind |-> "none", at |-> "idle", input |-> <<>>, slots |-> 0]
Answering == [Idle EXCEPT !.at = "answer"]
Free == [cfg |-> "free", repo |-> "free"]

Init ==
  /\ budget \in Budgets
  /\ thread = [t \in Threads |-> Idle] /\ holder = Free
  /\ config = [settings |-> 0, oids |-> 0] /\ file = config
  /\ rows \in {{}, {1}} /\ scans = <<>>
  /\ arrived = 0 /\ failures = 0 /\ restarts = 0
  /\ acked = 0 /\ lastSave = "ok" /\ torn = FALSE /\ elsewhere = {}

At(t, kinds, place) == thread[t].kind \in kinds /\ thread[t].at = place
Goto(t, place)      ==
  thread' = [thread EXCEPT ![t] = IF place = "answer" THEN Answering ELSE [@ EXCEPT !.at = place]]
IsFree(lock)        == holder[lock] = "free"
Hold(lock, t)       == holder' = [holder EXCEPT ![lock] = t]
Release(lock)       == Hold(lock, "free")

-----------------------------------------------------------------------------
(* Connections.                                                            *)

\* The section a handler begins with.
FirstSection(kind) ==
  CASE kind \in {"scan", "status"}                -> "jobs"
    [] kind \in {"summary", "register", "delete"} -> "repo"
    [] OTHER                                      -> "cfg"

\* What a request says: the value of a setting, an address, addresses, ranges.
Inputs(kind) ==
  CASE kind \in {"settings", "oids"} -> {<<v>> : v \in Values}
    [] kind \in {"detail", "delete"} -> {<<ip>> : ip \in Ips}
    [] kind = "register"             -> Bodies
    [] kind = "scan"                 -> UNION {[1 .. n -> Cidrs] : n \in 0 .. budget.ranges}
    [] OTHER                         -> {<<>>}

\* accept, parse_request and handle_connection.  A request that cannot be read, or that
\* the extension refuses, or answers itself, reaches no handler.
Accept(t) ==
  /\ thread[t].at = "idle" /\ arrived < budget.requests
  /\ \E kind \in budget.kinds : \E input \in Inputs(kind), handled \in BOOLEAN :
       thread' = [thread EXCEPT ![t] =
         IF handled /\ kind # "asset"
           THEN [kind |-> kind, at |-> FirstSection(kind), input |-> input, slots |-> 0]
           ELSE Answering]
  /\ arrived' = arrived + 1
  /\ UNCHANGED <<holder, settingsVars, rowVars, scans, budget, failures, restarts>>

\* respond, respond_mutation and the end of the thread; the client may be gone.
Answer(t) ==
  /\ thread[t].at = "answer"
  /\ thread' = [thread EXCEPT ![t] = Idle]
  /\ UNCHANGED <<holder, settingsVars, rowVars, scans, counters>>

-----------------------------------------------------------------------------
(* The shared configuration.                                               *)

\* Handlers that copy what they need and let the lock go: pages and the settings answer
\* from the copy, the others go on with the network or the repository.
ReadConfig(t) ==
  /\ At(t, {"thresholds", "devices", "detail", "diagnostics", "topology"}, "cfg")
  /\ IsFree("cfg")
  /\ Goto(t, CASE thread[t].kind \in {"devices", "detail"}       -> "repo"
               [] thread[t].kind \in {"diagnostics", "topology"} -> "network"
               [] OTHER                                          -> "answer")
  /\ UNCHANGED <<holder, settingsVars, rowVars, scans, counters>>

\* api_post_settings and api_post_alert_thresholds change a copy, and refuse values that
\* do not validate.
TakeSettings(t) ==
  /\ At(t, {"settings"}, "cfg") /\ IsFree("cfg")
  /\ \/ Goto(t, "answer") /\ UNCHANGED holder
     \/ Goto(t, "save") /\ Hold("cfg", t)
  /\ UNCHANGED <<settingsVars, rowVars, scans, counters>>

\* api_post_oid_overrides validates nothing and changes the shared configuration itself.
TakeOids(t) ==
  /\ At(t, {"oids"}, "cfg") /\ IsFree("cfg")
  /\ config' = [config EXCEPT !.oids = thread[t].input[1]]
  /\ Goto(t, "save") /\ Hold("cfg", t)
  /\ UNCHANGED <<file, acked, lastSave, torn, rowVars, scans, counters>>

\* The configuration a save writes.
Updated(t) ==
  IF thread[t].kind = "settings" THEN [config EXCEPT !.settings = thread[t].input[1]]
  ELSE config

\* Mutant of AfterFailure: the settings are changed where they are, as the overrides are.
AfterFailureInPlace(t) == Updated(t)

\* What is in use after a save that failed.
AfterFailure(t) == config

\* persist_config: the file is replaced, the copy takes the place of the configuration.
SaveConfig(t) ==
  /\ At(t, {"settings", "oids"}, "save")
  /\ config' = Updated(t) /\ file' = Updated(t)
  /\ acked' = Updated(t).settings /\ lastSave' = "ok" /\ torn' = FALSE
  /\ Goto(t, "answer") /\ Release("cfg")
  /\ UNCHANGED <<rowVars, scans, counters>>

\* The file or the key cannot be read, or the new file not be written; or it has taken the
\* place of the old one and its directory cannot be synced.
SaveConfigFails(t) ==
  /\ At(t, {"settings", "oids"}, "save") /\ failures < budget.failures
  /\ failures' = failures + 1
  /\ \/ UNCHANGED <<file, torn>>
     \/ file' = Updated(t) /\ torn' = TRUE
  /\ config' = AfterFailure(t) /\ lastSave' = "failed"
  /\ Goto(t, "answer") /\ Release("cfg")
  /\ UNCHANGED <<acked, rowVars, scans, budget, arrived, restarts>>

-----------------------------------------------------------------------------
(* The network and the repository.                                         *)

\* query_device and the like for the diagnostics page, discover_topology_once: no lock is
\* held.  A report goes on to enrich_topology_nodes, an error is answered.
Probe(t) ==
  /\ At(t, {"diagnostics", "topology"}, "network")
  /\ \/ Goto(t, "answer")
     \/ thread[t].kind = "topology" /\ Goto(t, "repo")
  /\ UNCHANGED <<holder, settingsVars, rowVars, scans, counters>>

\* Handlers and pages that read under the lock.
ReadRepository(t) ==
  /\ At(t, {"summary", "devices", "topology"}, "repo") /\ IsFree("repo")
  /\ Goto(t, "answer")
  /\ UNCHANGED <<holder, settingsVars, rowVars, scans, counters>>

\* api_device_detail: the sensors and the template of a registered device are queried with
\* the lock held, unless the request is passive.
TakeDetail(t) ==
  /\ At(t, {"detail"}, "repo") /\ IsFree("repo")
  /\ \/ Goto(t, "answer") /\ UNCHANGED holder
     \/ /\ thread[t].input[1] \in rows
        /\ Goto(t, "probing") /\ Hold("repo", t)
  /\ UNCHANGED <<settingsVars, rowVars, scans, counters>>

\* Mutant of MayReadHistory: reading the history takes the lock once more.
MayReadHistoryLocking(t) == IsFree("repo")

\* The histories are read through the guard taken before the queries.
MayReadHistory(t) == holder["repo"] = t

EndDetail(t) ==
  /\ At(t, {"detail"}, "probing") /\ MayReadHistory(t)
  /\ Goto(t, "answer") /\ Release("repo")
  /\ UNCHANGED <<settingsVars, rowVars, scans, counters>>

\* api_delete_device.
DeleteDevice(t) ==
  /\ At(t, {"delete"}, "repo") /\ IsFree("repo")
  /\ rows' = rows \ {thread[t].input[1]} /\ elsewhere' = elsewhere \ {thread[t].input[1]}
  /\ Goto(t, "answer")
  /\ UNCHANGED <<holder, settingsVars, scans, counters>>

\* saturating_sub of the rows there are.
Slots == IF Cardinality(rows) >= MaxDevices THEN 0 ELSE MaxDevices - Cardinality(rows)

\* Mutant of CountingHolder: the devices are counted before the lock is taken.
CountingHolderNobody(t) == "free"

\* Who has the repository once the devices are counted.
CountingHolder(t) == t

\* api_register: the devices are counted once per request.
CountDevices(t) ==
  /\ At(t, {"register"}, "repo") /\ IsFree("repo")
  /\ \/ thread[t].input = <<>> /\ Goto(t, "answer") /\ UNCHANGED holder
     \/ /\ thread[t].input # <<>>
        /\ thread' = [thread EXCEPT ![t].at = "registering", ![t].slots = Slots]
        /\ Hold("repo", CountingHolder(t))
  /\ UNCHANGED <<settingsVars, rowVars, scans, counters>>

\* One device of the request: skipped when it is registered, refused without a slot or
\* when it cannot be saved, else saved.  Another process may come between two of them.
RegisterDevice(t) ==
  /\ At(t, {"register"}, "registering") /\ thread[t].input # <<>>
  /\ LET ip == Head(thread[t].input)
         next(slots) == thread' = [thread EXCEPT ![t].input = Tail(@), ![t].slots = slots]
     IN  \/ next(thread[t].slots) /\ UNCHANGED rows
         \/ /\ ip \notin rows /\ thread[t].slots > 0
            /\ rows' = rows \cup {ip} /\ next(thread[t].slots - 1)
  /\ UNCHANGED <<holder, settingsVars, elsewhere, scans, counters>>

EndRegistration(t) ==
  /\ At(t, {"register"}, "registering") /\ thread[t].input = <<>>
  /\ Goto(t, "answer") /\ Release("repo")
  /\ UNCHANGED <<settingsVars, rowVars, scans, counters>>

-----------------------------------------------------------------------------
(* Scan jobs.                                                              *)

\* enumerate_discovery_hosts: sorted, each address once; none when a range is refused.
HostsOf(ranges) == InOrder(UNION ToSet(ranges))

ScanJob(hosts) ==
  LET chunks == Chunks(hosts, Concurrency)
  IN  [listed |-> TRUE, state |-> "running", total |-> Len(hosts), scanned |-> 0,
       found |-> <<>>, todo |-> chunks, reports |-> [w \in DOMAIN chunks |-> 0],
       count |-> 0, answered |-> {}]

Listed(all) == {j \in DOMAIN all : all[j].listed}

\* Mutant of Evicted: a job more than the table keeps.
EvictedLate(all) ==
  IF Cardinality(Listed(all)) > MaxJobs + 1
    THEN [all EXCEPT ![Min(Listed(all))].listed = FALSE] ELSE all

\* More than the table keeps: the oldest job goes, whatever it is doing.
Evicted(all) ==
  IF Cardinality(Listed(all)) > MaxJobs
    THEN [all EXCEPT ![Min(Listed(all))].listed = FALSE] ELSE all

\* api_scan_start and the beginning of run_scan_job.
StartScan(t) ==
  /\ At(t, {"scan"}, "jobs")
  /\ \/ UNCHANGED scans
     \/ /\ thread[t].input # <<>> /\ Len(thread[t].input) <= MaxCidrs
        /\ \E most \in MaxHosts :
             LET hosts == HostsOf(thread[t].input)
             IN  scans' = Evicted(Append(scans,
                            ScanJob(SubSeq(hosts, 1, Lesser(most, Len(hosts))))))
  /\ Goto(t, "answer")
  /\ UNCHANGED <<holder, settingsVars, rowVars, counters>>

\* api_scan_status: reads the job table.
ScanStatus(t) ==
  /\ At(t, {"status"}, "jobs")
  /\ Goto(t, "answer")
  /\ UNCHANGED <<holder, settingsVars, rowVars, scans, counters>>

onlyScans == <<thread, holder, settingsVars, rowVars, counters>>

\* The job when its worker w has probed a host: one that answers is put down in it, if the
\* table still lists it; then the host is counted.
Probed(job, w, answers) ==
  LET host == Head(job.todo[w])
  IN  [job EXCEPT
         !.todo[w] = Tail(@), !.count = @ + 1, !.reports[w] = job.count + 1,
         !.answered = IF answers THEN @ \cup {host} ELSE @,
         !.found    = IF answers /\ job.listed THEN Append(@, host) ELSE @]

ProbeHost(j, w) ==
  /\ scans[j].todo[w] # <<>> /\ scans[j].reports[w] = 0
  /\ \E answers \in BOOLEAN : scans' = [scans EXCEPT ![j] = Probed(@, w, answers)]
  /\ UNCHANGED onlyScans

\* The job when its worker has reported the count it took, which others may have passed.
Reported(job, w) ==
  [job EXCEPT !.scanned = IF job.listed THEN job.reports[w] ELSE @, !.reports[w] = 0]

ReportProgress(j, w) ==
  /\ scans[j].reports[w] # 0
  /\ scans' = [scans EXCEPT ![j] = Reported(@, w)]
  /\ UNCHANGED onlyScans

\* Mutant of Joined: the scan waits for its first worker only.
JoinedFirst(j) ==
  \A w \in DOMAIN scans[j].todo :
    w = 1 => scans[j].todo[w] = <<>> /\ scans[j].reports[w] = 0

\* Every worker has ended.
Joined(j) ==
  \A w \in DOMAIN scans[j].todo : scans[j].todo[w] = <<>> /\ scans[j].reports[w] = 0

FinishScan(j) ==
  /\ scans[j].state = "running" /\ scans[j].listed /\ Joined(j)
  /\ scans' = [scans EXCEPT ![j].scanned = scans[j].total, ![j].state = "done"]
  /\ UNCHANGED onlyScans

-----------------------------------------------------------------------------
(* The other threads and processes.                                        *)

\* run_polling_loop_with_observer and the flow listeners use the repository now and then.
BackgroundTakes ==
  /\ budget.background /\ IsFree("repo") /\ Hold("repo", "background")
  /\ UNCHANGED <<thread, settingsVars, rowVars, scans, counters>>

BackgroundReleases ==
  /\ holder["repo"] = "background" /\ Release("repo")
  /\ UNCHANGED <<thread, settingsVars, rowVars, scans, counters>>

\* The TUI saves a device it has found.
RegisterElsewhere(ip) ==
  /\ Cardinality(elsewhere) < budget.others /\ ip \notin rows
  /\ rows' = rows \cup {ip} /\ elsewhere' = elsewhere \cup {ip}
  /\ UNCHANGED <<thread, holder, settingsVars, scans, counters>>

\* The process ends and is started again: it loads the file.
Restart ==
  /\ restarts < budget.restarts /\ restarts' = restarts + 1
  /\ thread' = [t \in Threads |-> Idle] /\ holder' = Free /\ scans' = <<>>
  /\ config' = file /\ acked' = file.settings /\ lastSave' = "ok" /\ torn' = FALSE
  /\ UNCHANGED <<file, rowVars, budget, arrived, failures>>

-----------------------------------------------------------------------------
Handler(t) ==
  \/ Answer(t) \/ ReadConfig(t) \/ TakeSettings(t) \/ TakeOids(t)
  \/ SaveConfig(t) \/ SaveConfigFails(t) \/ Probe(t) \/ ReadRepository(t)
  \/ TakeDetail(t) \/ EndDetail(t) \/ DeleteDevice(t)
  \/ CountDevices(t) \/ RegisterDevice(t) \/ EndRegistration(t)
  \/ StartScan(t) \/ ScanStatus(t)

Worker(j, w) == ProbeHost(j, w) \/ ReportProgress(j, w)

Next ==
  \/ \E t \in Threads : Accept(t) \/ Handler(t)
  \/ \E j \in DOMAIN scans : FinishScan(j) \/ \E w \in DOMAIN scans[j].todo : Worker(j, w)
  \/ BackgroundTakes \/ BackgroundReleases
  \/ \E ip \in Ips : RegisterElsewhere(ip)
  \/ Restart

\* Queries, writes and the other threads' work take a bounded time.  A lock that is let go
\* again and again is had in the end: its users sleep or answer in between.
Fairness ==
  /\ \A t \in Threads : SF_vars(Handler(t))
  /\ WF_vars(BackgroundReleases)
  /\ WF_vars(\E j \in DOMAIN scans :
               FinishScan(j) \/ \E w \in DOMAIN scans[j].todo : Worker(j, w))

Spec == Init /\ [][Next]_vars /\ Fairness

-----------------------------------------------------------------------------
Holders == Threads \cup {"free", "background"}

\* The state is well formed; nobody holds the lock of a section he is not in, and a scan
\* never shows more progress than it has hosts.
TypeOK ==
  /\ thread \in [Threads -> [kind: Kinds \cup {"none"}, at: {"idle", "cfg", "save", "network",
                  "repo", "probing", "registering", "jobs", "answer"},
                  input: {thread[t].input : t \in Threads}, slots: 0 .. MaxDevices]]
  /\ \A t \in Threads :
       thread[t].input \in Seq(IF thread[t].kind = "scan" THEN Cidrs ELSE Values \cup Ips)
  /\ holder \in [cfg: Holders, repo: Holders]
  /\ \A t \in Threads :
       /\ holder["cfg"] = t <=> thread[t].at = "save"
       /\ holder["repo"] = t <=> thread[t].at \in {"probing", "registering"}
  /\ {config, file} \subseteq [settings: Values, oids: Values]
  /\ acked \in Values /\ lastSave \in {"ok", "failed"} /\ torn \in BOOLEAN
  /\ elsewhere \subseteq rows /\ rows \subseteq Ips
  /\ \A j \in DOMAIN scans :
       /\ scans[j].state \in {"running", "done"} /\ scans[j].listed \in BOOLEAN
       /\ scans[j].scanned \in 0 .. scans[j].total
       /\ scans[j].count \in 0 .. scans[j].total
       /\ ToSet(scans[j].found) \subseteq scans[j].answered /\ scans[j].answered \subseteq Ips
  /\ Cardinality(Listed(scans)) <= MaxJobs

\* A settings request that was answered with an error is not in use, whatever other
\* requests save later, and not in the file either unless only its directory could not be
\* synced; what a save acknowledged is in the file until the next one, overrides included
\* (api_post_settings, api_post_oid_overrides, persist_config).
SettingsAreSaved ==
  IsFree("cfg") =>
    /\ config.settings = acked
    /\ ~torn => file.settings = acked
    /\ lastSave = "ok" => file = config

\* A job that the table shows as done has every host that answered, once, and all of its
\* hosts are scanned (run_scan_job joins its workers before it marks the job).
DoneScansAreComplete ==
  \A j \in Listed(scans) : scans[j].state = "done" =>
    /\ ToSet(scans[j].found) = scans[j].answered
    /\ Len(scans[j].found) = Cardinality(scans[j].answered)
    /\ scans[j].scanned = scans[j].total /\ scans[j].count = scans[j].total

\* However many requests register devices at a time, the Web server never fills the table
\* beyond the limit of the edition; only another process does (api_register).
LimitHolds == Cardinality(rows \ elsewhere) <= MaxDevices

\* Every request is answered, though queries are made and files written with a lock held,
\* and every scan the table lists is done in the end, unless the table drops it.
WorkIsFinished ==
  /\ \A t \in Threads : thread[t].at # "idle" ~> thread[t].at = "idle"
  /\ <>[](\A j \in Listed(scans) : scans[j].state = "done")
=============================================================================
