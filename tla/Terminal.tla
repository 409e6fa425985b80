------------------------------ MODULE Terminal ------------------------------
(***************************************************************************)
(* The event loop of the TUI (src/ui/tui.rs): its modes, what is selected  *)
(* and shown, the scan and poll tasks it starts as threads, and the alerts *)
(* it receives, while the background polling loop and another process (the *)
(* Web GUI) work on the same database.                                     *)
(*                                                                         *)
(* One turn of the loop takes over the tasks that are finished, receives   *)
(* the alerts and refreshes, draws, and handles one key.  The draw is the  *)
(* state in phase "key".                                                   *)
(*                                                                         *)
(* The status a poll writes, its samples and the tracker are the business  *)
(* of Monitoring; here a poll only visits devices and raises alerts.       *)
(***************************************************************************)
EXTENDS Integers, Sequences, FiniteSets, SequencesExt, HostChunks, Places

CONSTANTS
  Addresses,    \* the hosts of the scanned range, a sequence
  Texts,        \* filters one may type, without the empty one
  Hits,         \* which of them shows which host or interface: a set of pairs
  Tabs,         \* the built-in tabs
  Concurrency,  \* CONCURRENCY: the threads of a scan
  AlertLimit,   \* alerts kept while receiving
  RecentLimit,  \* alerts loaded from the database
  Budgets       \* bounds: a behaviour keeps within one of these

Hosts == ToSet(Addresses)
\* A range enumerates no address twice.
ASSUME RangeAssumption == Addresses \in Seq(Hosts) /\ IsInjective(Addresses)
\* The first tab is there, and the interfaces from which the traffic is opened.
ASSUME TabsAssumption ==
  /\ Tabs \subseteq {"Dashboard", "Devices", "Interfaces", "Traffic", "Alerts"}
  /\ "Dashboard" \in Tabs /\ ("Traffic" \in Tabs => "Interfaces" \in Tabs)
ASSUME LimitAssumption ==
  /\ Concurrency \in Nat \ {0} /\ AlertLimit \in Nat \ {0} /\ RecentLimit \in Nat

\* How many hosts are registered at first, how many interfaces a device has, which tabs are visited, how many of them have a
\* filter at a time, how long the fields of the form are, how many hosts a scan has, how
\* many polls are started, how many alerts raised, and how many rows another process
\* registers or removes.
ASSUME BudgetAssumption ==
  Budgets \subseteq [known: Nat, ports: Nat, tabs: SUBSET Tabs, filters: Nat, text: Nat, range: Nat,
                     polls: Nat, alerts: Nat, changes: Nat]

VARIABLES
  rows,        \* the devices table, in the order of its row ids
  recorded,    \* alert_events, newest first, as [id, host]
  phase,       \* where the loop is, "quit" or "panicked"
  mode,        \* TuiMode
  form,        \* DiscoveryModalState: the field, the cursor and the lengths
  tab,         \* active_tab
  filters,     \* filter_query and tab_filters: that of the active tab is in use
  devices,     \* the summaries the loop has loaded
  selected,    \* selected_device_idx
  shown,       \* current_interfaces: whose they are and how many
  needRefresh, \* interfaces_need_refresh
  port,        \* interface_idx
  portFilter,  \* protocol_filter: the device of the interface it names, or "none"
  alerts,      \* the alerts of the screen, newest first
  picked,      \* alert_idx
  channel,     \* alerts published and not yet received
  scan,        \* the scan of the mode "scanning"
  polls,       \* the poll threads: the rows they have still to visit, and finished
  task,        \* the poll thread of the mode "polling", or 0
  budget,      \* bound: that of this behaviour
  raised,      \* bound: alerts so far
  changes,     \* bound: changes by another process so far
  removed      \* history: another process has removed a device

store    == <<rows, recorded>>
view     == <<tab, filters, selected, shown, needRefresh, port, portFilter>>
inbox    == <<alerts, picked, channel>>
tasks    == <<scan, polls, task>>
counters == <<budget, raised, changes, removed>>
vars == <<store, phase, mode, form, view, devices, inbox, tasks, counters>>

\* unsaved: the hosts found that are still to be registered; missing: history, those whose
\* save failed or that another process has removed while they were registered.
NoScan == [range |-> <<>>, todo |-> <<>>, probed |-> {}, found |-> <<>>, finished |-> FALSE,
           unsaved |-> <<>>, missing |-> {}]
NoForm == [field |-> 0, cursor |-> 0, len |-> <<0, 0>>]
Nobody == [host |-> "none", ports |-> 0]

Pred(n)     == IF n = 0 THEN 0 ELSE n - 1       \* saturating_sub(1)

\* tui_filter_matches and device_filter_matches: the empty filter matches everything.
FilterMatches(item) == filters[tab] = "" \/ <<filters[tab], item>> \in Hits

\* devices.get(selected_device_idx); indices start at 0.
HasSelected(list) == selected < Len(list)
SelectedOf(list)  == list[selected + 1]

\* move_visible_selection: the visible index before or after, the first one when the
\* selected one is hidden; nothing moves when nothing is visible.
Moved(visible, current) ==
  LET after  == {v \in visible : v > current}
      before == {v \in visible : v < current}
  IN  IF visible = {} THEN {current}
      ELSE IF current \notin visible THEN {Min(visible)}
      ELSE {IF after = {} THEN current ELSE Min(after),
            IF before = {} THEN current ELSE Max(before)}

\* load_interface_summaries: as many as the latest samples of the device show.
Loaded(host) == [host: {host}, ports: 0 .. budget.ports]

-----------------------------------------------------------------------------
Init ==
  /\ budget \in Budgets
  /\ rows \in {SubSeq(Addresses, 1, n) : n \in 0 .. Lesser(budget.known, Len(Addresses))}
  /\ recorded = <<>>
  /\ phase = "tasks" /\ mode = "normal" /\ form = NoForm
  /\ tab = "Dashboard" /\ filters = [t \in Tabs |-> ""]
  /\ devices = rows /\ selected = 0
  /\ shown \in (IF rows = <<>> THEN {Nobody} ELSE Loaded(rows[1]))
  /\ needRefresh = FALSE /\ port = 0 /\ portFilter = "none"
  /\ alerts = <<>> /\ picked = 0 /\ channel = <<>>
  /\ scan = NoScan /\ polls = <<>> /\ task = 0
  /\ raised = 0 /\ changes = 0 /\ removed = FALSE

\* start_poll_task: a connection of its own, and the rows as they are now.
PollOf(list) == [todo |-> list, finished |-> FALSE]

StartPoll(list) ==
  /\ Len(polls) < budget.polls
  /\ polls' = Append(polls, PollOf(list))
  /\ task' = Len(polls) + 1
  /\ mode' = "polling"

\* Mutant of ShownOf: the interfaces are loaded only when there are none yet.
ShownOfStale(list) ==
  IF HasSelected(list) /\ shown = Nobody THEN Loaded(SelectedOf(list)) ELSE {shown}

\* What the loop shows of the device that is selected in a list; without one it keeps
\* what it showed.
ShownOf(list) == IF HasSelected(list) THEN Loaded(SelectedOf(list)) ELSE {shown}

\* The rows after save_device_config: a new host comes last, a known one is updated.
Registered(host) == IF host \in ToSet(rows) THEN rows ELSE Append(rows, host)

ScanDone == phase = "tasks" /\ mode = "scanning" /\ scan.finished
PollDone == phase = "tasks" /\ mode = "polling" /\ polls[task].finished

\* A finished scan: the loop takes a copy of what it found.
TakeScan ==
  /\ ScanDone
  /\ phase' = "saving" /\ scan' = [scan EXCEPT !.unsaved = scan.found]
  /\ UNCHANGED <<store, mode, form, view, devices, inbox, polls, task, counters>>

\* Mutant of SaveFound: the first save that fails ends the registration.
SaveFoundOrGiveUp ==
  /\ phase = "saving" /\ scan.unsaved # <<>>
  /\ LET host == Head(scan.unsaved)
     IN  \/ /\ rows' = Registered(host)
            /\ scan' = [scan EXCEPT !.unsaved = Tail(@)]
         \/ /\ scan' = [scan EXCEPT !.unsaved = <<>>, !.missing = @ \cup {host}]
            /\ UNCHANGED rows
  /\ UNCHANGED <<recorded, phase, mode, form, view, devices, inbox, polls, task, counters>>

\* save_device_config of the next host.  Its statements commit one by one; what another
\* process does between them comes to the same as before or after.  An error is ignored.
SaveFound ==
  /\ phase = "saving" /\ scan.unsaved # <<>>
  /\ LET host == Head(scan.unsaved)
     IN  \/ /\ rows' = Registered(host)
            /\ scan' = [scan EXCEPT !.unsaved = Tail(@)]
         \/ /\ scan' = [scan EXCEPT !.unsaved = Tail(@), !.missing = @ \cup {host}]
            /\ UNCHANGED rows
  /\ UNCHANGED <<recorded, phase, mode, form, view, devices, inbox, polls, task, counters>>

\* start_poll_task over the devices that are registered by then; when it fails, they are
\* only shown.
PollFound ==
  /\ phase = "saving" /\ scan.unsaved = <<>>
  /\ phase' = "tasks" /\ scan' = NoScan
  /\ \/ /\ StartPoll(rows)
        /\ UNCHANGED <<devices, shown, port>>
     \/ /\ devices' = rows /\ shown' \in ShownOf(rows) /\ port' = 0
        /\ mode' = "normal"
        /\ UNCHANGED <<polls, task>>
  /\ UNCHANGED <<store, form, tab, filters, selected, needRefresh, portFilter, inbox, counters>>

\* A finished poll: devices, interfaces and alerts are loaded again.  alert_idx is left
\* as it is.
TakePoll ==
  /\ PollDone
  /\ devices' = rows
  /\ shown' \in ShownOf(rows)
  /\ port' = Lesser(port, Pred(shown'.ports))
  /\ alerts' = SubSeq(recorded, 1, Lesser(RecentLimit, Len(recorded)))
  /\ mode' = "normal" /\ task' = 0
  /\ UNCHANGED <<store, phase, form, tab, filters, selected, needRefresh, portFilter,
                 picked, channel, scan, polls, counters>>

\* list_devices fails in one of the two, and the hosts found are registered: run_app returns.
LoadFails ==
  /\ PollDone \/ (phase = "saving" /\ scan.unsaved = <<>>)
  /\ phase' = "quit"
  /\ UNCHANGED <<store, mode, form, view, devices, inbox, tasks, counters>>

\* Mutant of WithAlert: the selection keeps its index.
WithAlertKeepingIndex(seen, alert) ==
  LET longer == Cons(alert, seen.alerts)
  IN  [alerts |-> SubSeq(longer, 1, Lesser(AlertLimit, Len(longer))), picked |-> seen.picked]

\* One alert received: it goes on top, and the selection moves down with its alert.
WithAlert(seen, alert) ==
  LET longer == Cons(alert, seen.alerts)
      kept   == SubSeq(longer, 1, Lesser(AlertLimit, Len(longer)))
  IN  [alerts |-> kept,
       picked |-> IF seen.alerts = <<>> THEN seen.picked
                  ELSE Lesser(seen.picked + 1, Len(kept) - 1)]

CanReceive == phase = "receive" \/ (phase = "tasks" /\ ~ScanDone /\ ~PollDone)

\* try_recv finds an alert: the loop takes it and tries again.
ReceiveAlert ==
  /\ CanReceive /\ channel # <<>>
  /\ phase' = "receive"
  /\ LET seen == WithAlert([alerts |-> alerts, picked |-> picked], Head(channel))
     IN  alerts' = seen.alerts /\ picked' = seen.picked
  /\ channel' = Tail(channel)
  /\ UNCHANGED <<store, mode, form, view, devices, tasks, counters>>

\* The channel is empty: the refresh that a new selection asked for.
Refresh ==
  /\ CanReceive /\ channel = <<>>
  /\ phase' = "key"
  /\ IF needRefresh /\ tab \in {"Interfaces", "Traffic"} /\ HasSelected(devices)
     THEN shown' \in Loaded(SelectedOf(devices)) /\ port' = 0 /\ needRefresh' = FALSE
     ELSE UNCHANGED <<shown, port, needRefresh>>
  /\ UNCHANGED <<store, mode, form, tab, filters, selected, portFilter, devices, inbox,
                 tasks, counters>>

-----------------------------------------------------------------------------
(* Keys.  Each ends the turn.                                              *)

\* A key in a mode that changes nothing but the mode and the view; Space only stops
\* and resumes the drawing, as no key at all does.
Key(m) ==
  /\ phase = "key" /\ mode = m /\ phase' = "tasks"
  /\ UNCHANGED <<store, devices, inbox, scan, polls, counters>>

NoKey ==
  /\ phase = "key" /\ phase' = "tasks"
  /\ UNCHANGED <<store, mode, form, view, devices, inbox, tasks, counters>>

\* '/' opens the filter from every other mode, whose task or form is dropped: nobody
\* looks at a scan any more, while a poll goes on writing.
OpenFilter ==
  /\ phase = "key" /\ mode # "filter" /\ phase' = "tasks"
  /\ mode' = "filter" /\ form' = NoForm /\ scan' = NoScan /\ task' = 0
  /\ UNCHANGED <<store, view, devices, inbox, polls, counters>>

Quit ==
  /\ phase = "key" /\ mode = "normal" /\ phase' = "quit"
  /\ UNCHANGED <<store, mode, form, view, devices, inbox, tasks, counters>>

\* 1-9, arrows, brackets, the mouse, and Enter on a device that the filter shows.
ChangeTab ==
  /\ Key("normal")
  /\ tab' \in budget.tabs
  /\ UNCHANGED <<mode, form, filters, selected, shown, needRefresh, port, portFilter, task>>

\* 'p': from an interface to its traffic and back.
ShowTraffic ==
  /\ Key("normal") /\ tab = "Interfaces" /\ tab' = "Traffic" /\ tab' \in budget.tabs
  /\ portFilter' = IF port < shown.ports /\ FilterMatches(port) THEN shown.host ELSE "none"
  /\ UNCHANGED <<mode, form, filters, selected, shown, needRefresh, port, task>>

LeaveTraffic ==
  /\ Key("normal") /\ tab = "Traffic" /\ tab' = "Interfaces"
  /\ portFilter' = "none"
  /\ UNCHANGED <<mode, form, filters, selected, shown, needRefresh, port, task>>

\* Mutant of PageTargets: PageDown is not held at the last device.
PageTargetsUnbounded == {Pred(selected), selected + 1}

\* PageUp and PageDown: saturating_sub(1), and min with the last index.
PageTargets == {Pred(selected), Lesser(selected + 1, Pred(Len(devices)))}

Page ==
  /\ Key("normal") /\ tab = "Interfaces"
  /\ \E next \in PageTargets \ {selected} :
       /\ next < Len(devices)
       /\ selected' = next
       /\ shown' \in Loaded(devices[next + 1])
  /\ port' = 0 /\ portFilter' = "none"
  /\ UNCHANGED <<mode, form, tab, filters, needRefresh, task>>

\* devices[next] is out of range: the program panics.
PagePanics ==
  /\ phase = "key" /\ mode = "normal" /\ tab = "Interfaces" /\ phase' = "panicked"
  /\ \E next \in PageTargets \ {selected} : next >= Len(devices)
  /\ UNCHANGED <<store, mode, form, view, devices, inbox, tasks, counters>>

\* 'c'
ClearFilter ==
  /\ Key("normal")
  /\ filters' = [filters EXCEPT ![tab] = ""]
  /\ portFilter' = IF tab = "Traffic" THEN "none" ELSE portFilter
  /\ UNCHANGED <<mode, form, tab, selected, shown, needRefresh, port, task>>

\* Up and Down
SelectDevice ==
  /\ Key("normal") /\ tab = "Devices"
  /\ selected' \in Moved({i \in 0 .. Len(devices) - 1 : FilterMatches(devices[i + 1])}, selected)
  /\ needRefresh' = (needRefresh \/ selected' # selected)
  /\ UNCHANGED <<mode, form, tab, filters, shown, port, portFilter, task>>

SelectPort ==
  /\ Key("normal") /\ tab = "Interfaces"
  /\ port' \in Moved({i \in 0 .. shown.ports - 1 : FilterMatches(i)}, port)
  /\ UNCHANGED <<mode, form, tab, filters, selected, shown, needRefresh, portFilter, task>>

SelectAlert ==
  /\ phase = "key" /\ mode = "normal" /\ phase' = "tasks" /\ tab = "Alerts"
  /\ picked' \in Moved({i \in 0 .. Len(alerts) - 1 : FilterMatches(alerts[i + 1].host)}, picked)
  /\ UNCHANGED <<store, mode, form, view, devices, alerts, channel, tasks, counters>>

\* Enter on an alert, an interface or a flow; which flows there are is outside.
Opens ==
  CASE tab = "Alerts"     -> picked < Len(alerts) /\ FilterMatches(alerts[picked + 1].host)
    [] tab = "Interfaces" -> port < shown.ports /\ FilterMatches(port)
    [] OTHER              -> tab = "Traffic"

OpenDetails ==
  /\ Key("normal") /\ Opens
  /\ mode' = "detail"
  /\ UNCHANGED <<form, view, task>>

OpenNotifications ==
  /\ Key("normal")
  /\ mode' = "notifications"
  /\ UNCHANGED <<form, view, task>>

\* Esc in the details, the notifications, the filter and the form; Enter in some of them.
Close ==
  /\ \E m \in {"detail", "notifications", "filter", "form"} : Key(m)
  /\ mode' = "normal" /\ form' = NoForm
  /\ UNCHANGED <<view, task>>

\* A character or Backspace; 'c' clears the filter and closes.
TypeFilter ==
  /\ Key("filter")
  /\ \/ /\ filters' \in {[filters EXCEPT ![tab] = x] : x \in Texts \cup {""}}
        /\ Cardinality({t \in Tabs : filters'[t] # ""}) <= budget.filters
        /\ mode' = mode
     \/ /\ filters' = [filters EXCEPT ![tab] = ""]
        /\ mode' = "normal"
  /\ UNCHANGED <<form, tab, selected, shown, needRefresh, port, portFilter, task>>

\* 'r'; when it cannot be started only the message changes.
PollNow ==
  /\ phase = "key" /\ mode = "normal" /\ phase' = "tasks"
  /\ StartPoll(rows)
  /\ UNCHANGED <<store, form, view, devices, inbox, scan, counters>>

-----------------------------------------------------------------------------
(* The discovery form: two text fields and the version, which a scan does  *)
(* not read.                                                               *)

OpenForm ==
  /\ Key("normal")
  /\ mode' = "form"
  /\ form' = [field |-> 0, cursor |-> budget.text, len |-> <<budget.text, budget.text>>]
  /\ UNCHANGED <<view, task>>

TextLen == IF form.field = 2 THEN 0 ELSE form.len[form.field + 1]

\* set_field: Tab and Down, BackTab and Up.
SetField(f) == [form EXCEPT !.field = f, !.cursor = IF f = 2 THEN 0 ELSE form.len[f + 1]]

\* Mutant of DeleteBackspace: the cursor stays.
DeleteBackspaceInPlace == [form EXCEPT !.len[form.field + 1] = @ - 1]

\* insert_char, delete_backspace and delete_char at the cursor.
InsertChar == [form EXCEPT !.len[form.field + 1] = @ + 1, !.cursor = @ + 1]
DeleteBackspace == [form EXCEPT !.len[form.field + 1] = @ - 1, !.cursor = @ - 1]
DeleteChar == [form EXCEPT !.len[form.field + 1] = @ - 1]

EditForm ==
  /\ Key("form")
  /\ \/ \E step \in {1, 2} : form' = SetField((form.field + step) % 3)
     \/ /\ form.field # 2
        /\ \/ form' \in {[form EXCEPT !.cursor = c] :
                          c \in {0, TextLen, Pred(form.cursor), Lesser(form.cursor + 1, TextLen)}}
           \/ TextLen < budget.text /\ form' = InsertChar
           \/ form.cursor > 0 /\ form' = DeleteBackspace
           \/ form.cursor < TextLen /\ form' = DeleteChar
  /\ UNCHANGED <<mode, view, task>>

\* Enter: start_scan.  A range that is refused only leaves a message.
StartScan ==
  /\ phase = "key" /\ mode = "form" /\ phase' = "tasks"
  /\ mode' = "scanning" /\ form' = NoForm
  /\ \E n \in 0 .. Lesser(budget.range, Len(Addresses)) :
       LET hosts == SubSeq(Addresses, 1, n)
       IN  scan' = [NoScan EXCEPT !.range = hosts, !.todo = Chunks(hosts, Concurrency)]
  /\ UNCHANGED <<store, view, devices, inbox, polls, task, counters>>

-----------------------------------------------------------------------------
(* The other threads and processes.                                        *)

Running == phase \notin {"quit", "panicked"}

others == <<phase, mode, form, view, devices, alerts, picked>>

\* A worker of the scan probes the next host of its chunk.
ProbeHost(i) ==
  /\ Running /\ i \in DOMAIN scan.todo /\ scan.todo[i] # <<>>
  /\ LET host == Head(scan.todo[i])
     IN  \E found \in {scan.found, Append(scan.found, host)} :
           scan' = [scan EXCEPT !.todo[i] = Tail(@), !.probed = @ \cup {host},
                                !.found = found]
  /\ UNCHANGED <<store, others, channel, polls, task, counters>>

\* Mutant of FinishScan: a scan without hosts has nobody to report its end.
FinishScanByWorker ==
  /\ Running /\ mode = "scanning" /\ ~scan.finished
  /\ DOMAIN scan.todo # {} /\ \A i \in DOMAIN scan.todo : scan.todo[i] = <<>>
  /\ scan' = [scan EXCEPT !.finished = TRUE]
  /\ UNCHANGED <<store, others, channel, polls, task, counters>>

\* The thread that joined the workers.
FinishScan ==
  /\ Running /\ mode = "scanning" /\ ~scan.finished
  /\ \A i \in DOMAIN scan.todo : scan.todo[i] = <<>>
  /\ scan' = [scan EXCEPT !.finished = TRUE]
  /\ UNCHANGED <<store, others, channel, polls, task, counters>>

\* publish_alert, with save_alert before it or not; a row that is gone takes no alert.
Publish(host) ==
  \E saved \in BOOLEAN :
    LET alert == [id |-> raised + 1, host |-> host]
    IN  /\ raised < budget.alerts /\ raised' = raised + 1
        /\ channel' = Append(channel, alert)
        /\ recorded' = IF saved /\ host \in ToSet(rows) THEN Cons(alert, recorded) ELSE recorded

\* A poll thread visits its next device, which may raise an alert.
VisitDevice(p) ==
  /\ Running /\ p \in DOMAIN polls /\ polls[p].todo # <<>>
  /\ polls' = [polls EXCEPT ![p].todo = Tail(@)]
  /\ Publish(Head(polls[p].todo)) \/ UNCHANGED <<recorded, channel, raised>>
  /\ UNCHANGED <<rows, others, scan, task, budget, changes, removed>>

FinishPoll(p) ==
  /\ Running /\ p \in DOMAIN polls /\ polls[p].todo = <<>> /\ ~polls[p].finished
  /\ polls' = [polls EXCEPT ![p].finished = TRUE]
  /\ UNCHANGED <<store, others, channel, scan, task, counters>>

\* The polling loop in the background has the same broadcaster.
BackgroundAlert ==
  /\ Running /\ \E h \in ToSet(rows) : Publish(h)
  /\ UNCHANGED <<rows, others, tasks, budget, changes, removed>>

\* Another process registers or removes a device.
RegisterElsewhere(h) ==
  /\ Running /\ h \notin ToSet(rows) /\ changes < budget.changes
  /\ rows' = Append(rows, h) /\ changes' = changes + 1
  /\ UNCHANGED <<recorded, others, channel, tasks, budget, raised, removed>>

RemoveElsewhere(h) ==
  /\ Running /\ h \in ToSet(rows) /\ changes < budget.changes
  /\ rows' = EntriesAt(rows, {i \in DOMAIN rows : rows[i] # h})
  /\ recorded' = EntriesAt(recorded, {i \in DOMAIN recorded : recorded[i].host # h})
  /\ scan' = IF phase = "saving" THEN [scan EXCEPT !.missing = @ \cup {h}] ELSE scan
  /\ changes' = changes + 1 /\ removed' = TRUE
  /\ UNCHANGED <<others, channel, polls, task, budget, raised>>

-----------------------------------------------------------------------------
Keys ==
  \/ NoKey \/ OpenFilter \/ Quit \/ ChangeTab \/ ShowTraffic \/ LeaveTraffic
  \/ Page \/ PagePanics \/ ClearFilter \/ SelectDevice \/ SelectPort \/ SelectAlert
  \/ OpenDetails \/ OpenNotifications \/ Close \/ TypeFilter \/ PollNow
  \/ OpenForm \/ EditForm \/ StartScan

Loop ==
  \/ TakeScan \/ SaveFound \/ PollFound \/ TakePoll \/ LoadFails \/ ReceiveAlert \/ Refresh
  \/ Keys

Next ==
  \/ Loop
  \/ \E i \in 1 .. Concurrency : ProbeHost(i)
  \/ FinishScan
  \/ \E p \in DOMAIN polls : VisitDevice(p) \/ FinishPoll(p)
  \/ BackgroundAlert
  \/ \E h \in Hosts : RegisterElsewhere(h) \/ RemoveElsewhere(h)

\* The loop waits 50 ms for a key and goes on without one; a probe ends because every
\* SNMP request has a timeout.
Fairness ==
  /\ WF_vars(Loop)
  /\ \A i \in 1 .. Concurrency : WF_vars(ProbeHost(i))
  /\ WF_vars(FinishScan)
  /\ \A p \in 1 .. Max({b.polls : b \in Budgets}) : WF_vars(VisitDevice(p)) /\ WF_vars(FinishPoll(p))

Spec == Init /\ [][Next]_vars /\ Fairness

-----------------------------------------------------------------------------
TypeOK ==
  /\ rows \in Seq(Hosts) /\ devices \in Seq(Hosts) /\ IsInjective(rows)
  /\ phase \in {"tasks", "saving", "receive", "key", "quit", "panicked"}
  /\ mode \in {"normal", "filter", "detail", "notifications", "form", "scanning", "polling"}
  /\ form.field \in 0 .. 2 /\ form.cursor \in 0 .. TextLen
  /\ tab \in Tabs /\ filters \in [Tabs -> Texts \cup {""}]
  /\ selected \in Nat /\ needRefresh \in BOOLEAN
  /\ shown \in [host: Hosts \cup {"none"}, ports: 0 .. budget.ports]
  /\ port = 0 \/ port < shown.ports
  /\ portFilter \in Hosts \cup {"none"}
  /\ Len(alerts) <= Max({AlertLimit, RecentLimit}) /\ picked \in Nat
  /\ task \in 0 .. Len(polls) /\ (mode = "polling" <=> task # 0)
  /\ scan.probed \subseteq ToSet(scan.range) /\ ToSet(scan.found) \subseteq scan.probed

\* Whenever a key is handled on the tab of the interfaces, or on that of the traffic which is
\* opened from them, the interfaces that are loaded are those of the device that is selected:
\* over every reload, page, poll and change of the table by another process.
InterfacesOfSelected ==
  phase = "key" /\ tab \in {"Interfaces", "Traffic"} /\ HasSelected(devices)
    => shown.host = SelectedOf(devices)

\* A scan that is taken over has probed every host of its range, however the range was
\* cut into chunks and in whatever order the workers ended.  Each host that answered is then
\* registered, unless its own save failed or another process has removed it, and the poll
\* that follows visits every one of them that is.
ScanRegistersAndPolls ==
  [][mode = "scanning" /\ mode' \in {"polling", "normal"} =>
       /\ scan.probed = ToSet(scan.range)
       /\ ToSet(scan.found) \subseteq ToSet(rows) \cup scan.missing
       /\ mode' = "polling" => ToSet(scan.found) \cap ToSet(rows) \subseteq ToSet(polls'[task'].todo)]_vars

\* While alerts come in, the selected one stays selected, unless it falls off the end.
SelectedAlertStays ==
  [][phase' = "receive" /\ picked < Len(alerts) /\ picked + 1 < AlertLimit
       => alerts'[picked' + 1] = alerts[picked + 1]]_vars

\* The index of the selected device leaves the list only when another process has
\* removed a device: on its own the TUI never panics.
PanicsOnlyAfterRemoval == phase = "panicked" => removed

\* Scanning and polling, which take no keys, always end.
TasksEnd == []<>(mode \notin {"scanning", "polling"} \/ phase = "quit")
=============================================================================
