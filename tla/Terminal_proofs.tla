-------------------------- MODULE Terminal_proofs --------------------------
(***************************************************************************)
(* What the screen of Terminal shows, that its loop never panics on its    *)
(* own, and what scans and alerts come to, for any hosts, tabs, filters,   *)
(* threads and limits.                                                     *)
(***************************************************************************)
EXTENDS Terminal, Basics

\* The interfaces are those of the selected device, or a refresh is asked for.
FreshOrAsked ==
  HasSelected(devices) /\ ~needRefresh => shown.host = SelectedOf(devices)

\* A refresh that is asked for is done before the next key.
AnsweredBeforeKey ==
  phase = "key" /\ tab \in {"Interfaces", "Traffic"} /\ HasSelected(devices) => ~needRefresh

ShownInv == needRefresh \in BOOLEAN /\ FreshOrAsked /\ AnsweredBeforeKey

\* What is loaded for a list is of its selected device.
LEMMA ShownOfSelected ==
  ASSUME NEW list, NEW s \in ShownOf(list), HasSelected(list)
  PROVE  s.host = SelectedOf(list)
BY DEF ShownOf, Loaded

LEMMA ShownAtFirst == Init => ShownInv
<1> SUFFICES ASSUME Init PROVE ShownInv
  OBVIOUS
<1>1. needRefresh \in BOOLEAN /\ AnsweredBeforeKey
  BY DEF Init, AnsweredBeforeKey
<1>2. ASSUME HasSelected(devices) PROVE shown.host = SelectedOf(devices)
  <2>0. devices = rows /\ selected = 0
    BY DEF Init
  <2>1. rows # <<>>
    BY <1>2, <2>0 DEF HasSelected
  <2>2. shown \in Loaded(rows[1])
    BY <2>1 DEF Init
  <2> QED
    BY <2>0, <2>2 DEF Loaded, SelectedOf
<1> QED
  BY <1>1, <1>2 DEF ShownInv, FreshOrAsked

\* A step that leaves the view alone, and does not come to the keys.
LEMMA ViewKept ==
  ASSUME ShownInv, UNCHANGED <<devices, selected, shown, needRefresh>>, phase' # "key"
  PROVE  ShownInv'
BY DEF ShownInv, FreshOrAsked, AnsweredBeforeKey, HasSelected, SelectedOf

LEMMA ViewUntouched ==
  ASSUME ShownInv, UNCHANGED <<devices, view, phase>>
  PROVE  ShownInv'
BY DEF ShownInv, FreshOrAsked, AnsweredBeforeKey, HasSelected, SelectedOf, view

LEMMA RefreshShows ==
  ASSUME ShownInv, Refresh
  PROVE  ShownInv'
<1>1. devices' = devices /\ selected' = selected /\ tab' = tab
  BY DEF Refresh
<1>2. CASE needRefresh /\ tab \in {"Interfaces", "Traffic"} /\ HasSelected(devices)
  <2>1. shown' \in Loaded(SelectedOf(devices)) /\ needRefresh' = FALSE
    BY <1>2 DEF Refresh
  <2> QED
    BY <1>1, <2>1 DEF ShownInv, FreshOrAsked, AnsweredBeforeKey, HasSelected, SelectedOf, Loaded
<1>3. CASE ~(needRefresh /\ tab \in {"Interfaces", "Traffic"} /\ HasSelected(devices))
  <2>1. UNCHANGED <<shown, needRefresh>>
    BY <1>3 DEF Refresh
  <2> QED
    BY <1>1, <1>3, <2>1 DEF ShownInv, FreshOrAsked, AnsweredBeforeKey, HasSelected, SelectedOf
<1> QED
  BY <1>2, <1>3

LEMMA LoadsShow ==
  ASSUME ShownInv, PollFound \/ TakePoll
  PROVE  ShownInv'
<1>1. CASE PollFound
  <2>1. phase' # "key" /\ selected' = selected /\ needRefresh' = needRefresh
    BY <1>1 DEF PollFound
  <2>2. \/ UNCHANGED <<devices, shown>>
        \/ devices' = rows /\ shown' \in ShownOf(rows)
    BY <1>1 DEF PollFound
  <2>3. CASE UNCHANGED <<devices, shown>>
    BY <2>1, <2>3, ViewKept
  <2>4. CASE devices' = rows /\ shown' \in ShownOf(rows)
    <3>1. HasSelected(devices') => shown'.host = SelectedOf(devices')
      BY <2>4, ShownOfSelected
    <3> QED
      BY <2>1, <3>1 DEF ShownInv, FreshOrAsked, AnsweredBeforeKey, HasSelected, SelectedOf
  <2> QED
    BY <2>2, <2>3, <2>4
<1>2. CASE TakePoll
  <2>1. /\ phase' # "key" /\ selected' = selected /\ needRefresh' = needRefresh
        /\ devices' = rows /\ shown' \in ShownOf(rows)
    BY <1>2 DEF TakePoll, PollDone
  <2>2. HasSelected(rows) => shown'.host = SelectedOf(rows)
    BY <2>1, ShownOfSelected
  <2> QED
    BY <2>1, <2>2 DEF ShownInv, FreshOrAsked, AnsweredBeforeKey, HasSelected, SelectedOf
<1> QED
  BY <1>1, <1>2

LEMMA TurnsShow ==
  ASSUME ShownInv, TakeScan \/ SaveFound \/ LoadFails \/ ReceiveAlert
  PROVE  ShownInv'
<1>1. CASE TakeScan
  BY <1>1, ViewKept DEF TakeScan, view
<1>2. CASE SaveFound
  BY <1>2, ViewKept DEF SaveFound, view
<1>3. CASE LoadFails
  BY <1>3, ViewKept DEF LoadFails, view
<1>4. CASE ReceiveAlert
  BY <1>4, ViewKept DEF ReceiveAlert, view
<1> QED
  BY <1>1, <1>2, <1>3, <1>4

LEMMA KeysShow ==
  ASSUME ShownInv, Keys
  PROVE  ShownInv'
<1>1. CASE Page
  <2>1. PICK next \in PageTargets \ {selected} :
          selected' = next /\ shown' \in Loaded(devices[next + 1])
    BY <1>1 DEF Page
  <2>2. phase' = "tasks" /\ devices' = devices
    BY <1>1 DEF Page, Key
  <2>3. shown'.host = devices[selected' + 1]
    BY <2>1 DEF Loaded
  <2>4. needRefresh' = needRefresh
    BY <1>1 DEF Page
  <2> QED
    BY <2>2, <2>3, <2>4 DEF ShownInv, FreshOrAsked, AnsweredBeforeKey, HasSelected, SelectedOf
<1>2. CASE SelectDevice
  <2>1. /\ phase' = "tasks" /\ devices' = devices /\ shown' = shown
        /\ needRefresh' = (needRefresh \/ selected' # selected)
    BY <1>2 DEF SelectDevice, Key
  <2> QED
    BY <2>1 DEF ShownInv, FreshOrAsked, AnsweredBeforeKey, HasSelected, SelectedOf
<1>3. ASSUME ~Page, ~SelectDevice
      PROVE  UNCHANGED <<devices, selected, shown, needRefresh>> /\ phase' # "key"
  BY <1>3 DEF Keys, NoKey, OpenFilter, Quit, ChangeTab, ShowTraffic, LeaveTraffic, PagePanics,
     ClearFilter, SelectPort, SelectAlert, OpenDetails, OpenNotifications, Close, TypeFilter,
     PollNow, OpenForm, EditForm, StartScan, Key, view
<1> QED
  BY <1>1, <1>2, <1>3, ViewKept

LEMMA OthersShow ==
  ASSUME ShownInv,
         \/ \E i \in 1 .. Concurrency : ProbeHost(i)
         \/ FinishScan
         \/ \E p \in DOMAIN polls : VisitDevice(p) \/ FinishPoll(p)
         \/ BackgroundAlert
         \/ \E h \in Hosts : RegisterElsewhere(h) \/ RemoveElsewhere(h)
  PROVE  ShownInv'
<1>1. UNCHANGED <<devices, view, phase>>
  BY DEF ProbeHost, FinishScan, VisitDevice, FinishPoll, BackgroundAlert, RegisterElsewhere,
     RemoveElsewhere, others
<1> QED
  BY <1>1, ViewUntouched

\* The screen never shows the interfaces of another device than the one that is selected, over
\* every reload, page, poll and change of the table elsewhere:
\* interfaces_need_refresh, the reload of run_app and the page keys of src/ui/tui.rs.
THEOREM ShowsTheSelected == Spec => []InterfacesOfSelected
<1>1. Init => ShownInv
  BY ShownAtFirst
<1>2. ShownInv /\ [Next]_vars => ShownInv'
  <2> SUFFICES ASSUME ShownInv, [Next]_vars PROVE ShownInv'
    OBVIOUS
  <2>1. CASE Next
    BY <2>1, RefreshShows, LoadsShow, TurnsShow, KeysShow, OthersShow DEF Next, Loop
  <2>2. CASE UNCHANGED vars
    BY <2>2, ViewUntouched DEF vars
  <2> QED
    BY <2>1, <2>2
<1>3. ShownInv => InterfacesOfSelected
  BY DEF ShownInv, FreshOrAsked, AnsweredBeforeKey, InterfacesOfSelected
<1> QED
  BY <1>1, <1>2, <1>3, PTL DEF Spec

-----------------------------------------------------------------------------
(* No panic on its own.                                                    *)

IsList(s) == \E S : s \in Seq(S)

\* The device that is selected is one of the list, or the first of none.
SelectionWithin == selected < Len(devices) \/ selected = 0

\* As long as no other process has removed a device, the list is no longer than the
\* table: a reload cannot shorten it under the selection.
ListsInv ==
  /\ selected \in Nat /\ Len(devices) \in Nat
  /\ IsList(rows)
  /\ Len(devices) <= Len(rows)
  /\ SelectionWithin

NoPanicInv == removed \/ (phase # "panicked" /\ ListsInv)

LEMMA ListLength ==
  ASSUME NEW s, IsList(s)
  PROVE  Len(s) \in Nat
BY DEF IsList

LEMMA ListGrows ==
  ASSUME NEW s, NEW e, IsList(s)
  PROVE  IsList(Append(s, e)) /\ Len(Append(s, e)) = Len(s) + 1
<1>1. PICK S : s \in Seq(S)
  BY DEF IsList
<1>2. s \in Seq(S \cup {e}) /\ e \in S \cup {e}
  BY <1>1
<1>3. Append(s, e) \in Seq(S \cup {e}) /\ Len(Append(s, e)) = Len(s) + 1
  BY <1>2
<1> QED
  BY <1>3 DEF IsList

\* Registering a host only adds to the table.
LEMMA RegisteredGrows ==
  ASSUME NEW host, IsList(rows)
  PROVE  IsList(Registered(host)) /\ Len(Registered(host)) >= Len(rows)
<1>1. Len(rows) \in Nat
  BY ListLength
<1>2. IsList(Append(rows, host)) /\ Len(Append(rows, host)) = Len(rows) + 1
  BY ListGrows
<1> QED
  BY <1>1, <1>2 DEF Registered

\* The arrows go to what is visible or stay.
LEMMA MovedAmong ==
  ASSUME NEW n \in Nat, NEW current \in Nat, NEW visible \in SUBSET (0 .. n - 1),
         NEW next \in Moved(visible, current)
  PROVE  next \in visible \cup {current}
<1>1. CASE visible = {}
  <2>1. Moved(visible, current) = {current}
    BY <1>1 DEF Moved
  <2> QED
    BY <2>1
<1>2. ASSUME NEW S \in SUBSET visible, S # {} PROVE Min(S) \in S
  <2>1. S \in SUBSET Nat
    OBVIOUS
  <2> QED
    BY <1>2, <2>1, FirstNumber DEF Min
<1>3. ASSUME NEW S \in SUBSET visible, S # {} PROVE Max(S) \in S
  <2>1. S \in SUBSET (0 .. n)
    OBVIOUS
  <2>2. \E m \in S : \A q \in S : q <= m
    BY <1>3, <2>1, LastNumber
  <2>3. \E m \in S : \A q \in S : m >= q
    BY <2>1, <2>2
  <2> QED
    BY <2>3 DEF Max
<1>4. CASE visible # {}
  <2> DEFINE after == {v \in visible : v > current}
             before == {v \in visible : v < current}
  <2>1. after # {} => Min(after) \in visible
    BY <1>2
  <2>2. before # {} => Max(before) \in visible
    BY <1>3
  <2>3. Min(visible) \in visible
    BY <1>2, <1>4
  <2> QED
    BY <1>4, <2>1, <2>2, <2>3 DEF Moved
<1> QED
  BY <1>1, <1>4

\* The arrows keep the selection among the devices.
LEMMA MovedWithin ==
  ASSUME NEW n \in Nat, NEW current \in Nat, current < n \/ current = 0,
         NEW visible \in SUBSET (0 .. n - 1), NEW next \in Moved(visible, current)
  PROVE  next \in Nat /\ (next < n \/ next = 0)
<1>1. next \in visible \cup {current}
  BY MovedAmong
<1>2. next \in 0 .. n - 1 \/ next = current
  BY <1>1
<1> QED
  BY <1>2

LEMMA ListsAtFirst == Init => NoPanicInv
<1> SUFFICES ASSUME Init PROVE NoPanicInv
  OBVIOUS
<1>1. PICK n \in 0 .. Lesser(budget.known, Len(Addresses)) : rows = SubSeq(Addresses, 1, n)
  BY DEF Init
<1>2. budget.known \in Nat
  BY BudgetAssumption DEF Init
<1>3. Len(Addresses) \in Nat /\ n \in 0 .. Len(Addresses)
  BY <1>1, <1>2, RangeAssumption DEF Lesser
<1>4. rows \in Seq(Hosts)
  BY <1>1, <1>3, RangeAssumption
<1>5. devices = rows /\ selected = 0 /\ phase = "tasks"
  BY DEF Init
<1> QED
  BY <1>4, <1>5 DEF NoPanicInv, ListsInv, IsList, SelectionWithin

\* A step that leaves the lists alone, or adds to the table.
LEMMA ListsKept ==
  ASSUME ListsInv, UNCHANGED <<devices, selected>>,
         IsList(rows'), Len(rows') >= Len(rows)
  PROVE  ListsInv'
<1>1. Len(rows) \in Nat /\ Len(rows') \in Nat
  BY ListLength DEF ListsInv
<1>2. Len(devices) <= Len(rows')
  BY <1>1 DEF ListsInv
<1> QED
  BY <1>2 DEF ListsInv, SelectionWithin

\* The list is loaded again.
LEMMA ListsLoaded ==
  ASSUME ListsInv, selected' = selected, devices' = rows',
         IsList(rows'), Len(rows') >= Len(rows)
  PROVE  ListsInv'
<1>1. Len(rows) \in Nat /\ Len(rows') \in Nat
  BY ListLength DEF ListsInv
<1>2. selected < Len(rows') \/ selected = 0
  BY <1>1 DEF ListsInv, SelectionWithin
<1> QED
  BY <1>1, <1>2 DEF ListsInv, SelectionWithin

LEMMA LoopLists ==
  ASSUME ListsInv, phase # "panicked",
         TakeScan \/ SaveFound \/ PollFound \/ TakePoll \/ LoadFails \/ ReceiveAlert \/ Refresh
  PROVE  ListsInv' /\ phase' # "panicked"
<1>0. IsList(rows) /\ Len(rows) >= Len(rows)
  BY ListLength DEF ListsInv
<1>1. CASE PollFound
  <2>1. /\ rows' = rows /\ phase' = "tasks" /\ selected' = selected
        /\ devices' = devices \/ devices' = rows
    BY <1>1 DEF PollFound, store
  <2> QED
    BY <1>0, <2>1, ListsLoaded, ListsKept
<1>2. CASE TakePoll
  <2>1. rows' = rows /\ phase' = phase /\ selected' = selected /\ devices' = rows
    BY <1>2 DEF TakePoll, store
  <2> QED
    BY <1>0, <2>1, ListsLoaded
<1>3. CASE SaveFound
  <2>1. PICK host : rows' = Registered(host) \/ rows' = rows
    BY <1>3 DEF SaveFound
  <2>2. UNCHANGED <<devices, selected>> /\ phase' = phase
    BY <1>3 DEF SaveFound, view
  <2>3. IsList(rows') /\ Len(rows') >= Len(rows)
    BY <1>0, <2>1, RegisteredGrows
  <2> QED
    BY <2>2, <2>3, ListsKept
<1>4. CASE TakeScan \/ LoadFails \/ ReceiveAlert \/ Refresh
  <2>1. /\ rows' = rows /\ UNCHANGED <<devices, selected>>
        /\ phase' \in {"saving", "quit", "receive", "key"}
    BY <1>4 DEF TakeScan, LoadFails, ReceiveAlert, Refresh, store, view
  <2> QED
    BY <1>0, <2>1, ListsKept
<1> QED
  BY <1>1, <1>2, <1>3, <1>4

\* A device that the keys choose is one of the list.
LEMMA PageStaysWithin ==
  ASSUME ListsInv, NEW next \in PageTargets \ {selected}
  PROVE  next \in Nat /\ next < Len(devices)
BY DEF ListsInv, SelectionWithin, PageTargets, Pred, Lesser

LEMMA SelectStaysWithin ==
  ASSUME ListsInv, SelectDevice
  PROVE  selected' \in Nat /\ (selected' < Len(devices) \/ selected' = 0)
<1> DEFINE visible == {i \in 0 .. Len(devices) - 1 : FilterMatches(devices[i + 1])}
<1>1. selected' \in Moved(visible, selected)
  BY DEF SelectDevice
<1>2. visible \in SUBSET (0 .. Len(devices) - 1)
  OBVIOUS
<1> HIDE DEF visible
<1> QED
  BY <1>1, <1>2, MovedWithin DEF ListsInv, SelectionWithin

LEMMA KeyLists ==
  ASSUME ListsInv, Keys
  PROVE  ListsInv' /\ phase' # "panicked"
<1>0. IsList(rows) /\ Len(rows) >= Len(rows)
  BY ListLength DEF ListsInv
<1>1. CASE Page
  <2>1. PICK next \in PageTargets \ {selected} : selected' = next
    BY <1>1 DEF Page
  <2>2. rows' = rows /\ UNCHANGED devices /\ phase' = "tasks"
    BY <1>1 DEF Page, Key, store
  <2> QED
    BY <2>1, <2>2, PageStaysWithin DEF ListsInv, SelectionWithin
<1>2. CASE SelectDevice
  <2>1. rows' = rows /\ UNCHANGED devices /\ phase' = "tasks"
    BY <1>2 DEF SelectDevice, Key, store
  <2> QED
    BY <1>2, <2>1, SelectStaysWithin DEF ListsInv, SelectionWithin
<1>3. CASE PagePanics
  <2>1. PICK next \in PageTargets \ {selected} : next >= Len(devices)
    BY <1>3 DEF PagePanics
  <2>2. next \in Nat /\ next < Len(devices) /\ Len(devices) \in Nat
    BY PageStaysWithin DEF ListsInv
  <2> QED
    BY <2>1, <2>2
<1>4. ASSUME ~Page, ~SelectDevice, ~PagePanics
      PROVE  rows' = rows /\ UNCHANGED <<devices, selected>> /\ phase' # "panicked"
  BY <1>4 DEF Keys, NoKey, OpenFilter, Quit, ChangeTab, ShowTraffic, LeaveTraffic, ClearFilter,
     SelectPort, SelectAlert, OpenDetails, OpenNotifications, Close, TypeFilter, PollNow,
     OpenForm, EditForm, StartScan, Key, store, view
<1> QED
  BY <1>0, <1>1, <1>2, <1>3, <1>4, ListsKept

LEMMA OthersLists ==
  ASSUME ListsInv,
         \/ \E i \in 1 .. Concurrency : ProbeHost(i)
         \/ FinishScan
         \/ \E p \in DOMAIN polls : VisitDevice(p) \/ FinishPoll(p)
         \/ BackgroundAlert
         \/ \E h \in Hosts : RegisterElsewhere(h)
  PROVE  ListsInv'
<1>0. IsList(rows) /\ Len(rows) >= Len(rows) /\ Len(rows) \in Nat
  BY ListLength DEF ListsInv
<1>1. UNCHANGED <<devices, selected>>
  BY DEF ProbeHost, FinishScan, VisitDevice, FinishPoll, BackgroundAlert, RegisterElsewhere,
     others, view
<1>2. CASE \E h \in Hosts : RegisterElsewhere(h)
  <2>1. PICK h : rows' = Append(rows, h)
    BY <1>2 DEF RegisterElsewhere
  <2>2. IsList(rows') /\ Len(rows') >= Len(rows)
    BY <1>0, <2>1, ListGrows
  <2> QED
    BY <1>1, <2>2, ListsKept
<1>3. CASE \/ \E i \in 1 .. Concurrency : ProbeHost(i)
           \/ FinishScan
           \/ \E p \in DOMAIN polls : VisitDevice(p) \/ FinishPoll(p)
           \/ BackgroundAlert
  <2>1. rows' = rows
    BY <1>3 DEF ProbeHost, FinishScan, VisitDevice, FinishPoll, BackgroundAlert, store
  <2> QED
    BY <1>0, <1>1, <2>1, ListsKept
<1> QED
  BY <1>2, <1>3

LEMMA OthersPhase ==
  ASSUME \/ \E i \in 1 .. Concurrency : ProbeHost(i)
         \/ FinishScan
         \/ \E p \in DOMAIN polls : VisitDevice(p) \/ FinishPoll(p)
         \/ BackgroundAlert
         \/ \E h \in Hosts : RegisterElsewhere(h)
  PROVE  phase' = phase
BY DEF ProbeHost, FinishScan, VisitDevice, FinishPoll, BackgroundAlert, RegisterElsewhere, others

\* What another process has removed stays so.
LEMMA RemovedStays == [Next]_vars /\ removed => removed'
BY DEF Next, Loop, Keys, TakeScan, SaveFound, PollFound, TakePoll, LoadFails, ReceiveAlert, Refresh, NoKey, OpenFilter, Quit,
   ChangeTab, ShowTraffic, LeaveTraffic, Page, PagePanics, ClearFilter, SelectDevice,
   SelectPort, SelectAlert, OpenDetails, OpenNotifications, Close, TypeFilter, PollNow,
   OpenForm, EditForm, StartScan, Key, ProbeHost, FinishScan, VisitDevice, FinishPoll,
   BackgroundAlert, RegisterElsewhere, RemoveElsewhere, counters, vars

\* The page keys index the devices without a check, in run_app of src/ui/tui.rs: that the
\* program panics there takes a device removed by another process, whatever is scanned,
\* registered, polled, filtered and selected.
THEOREM NoPanicOnItsOwn == Spec => []PanicsOnlyAfterRemoval
<1>1. Init => NoPanicInv
  BY ListsAtFirst
<1>2. NoPanicInv /\ [Next]_vars => NoPanicInv'
  <2> SUFFICES ASSUME ~removed, phase # "panicked", ListsInv, [Next]_vars
               PROVE  NoPanicInv'
    BY RemovedStays DEF NoPanicInv
  <2>1. CASE Loop
    BY <2>1, LoopLists, KeyLists DEF Loop, NoPanicInv
  <2>2. CASE \/ \E i \in 1 .. Concurrency : ProbeHost(i)
             \/ FinishScan
             \/ \E p \in DOMAIN polls : VisitDevice(p) \/ FinishPoll(p)
             \/ BackgroundAlert
             \/ \E h \in Hosts : RegisterElsewhere(h)
    BY <2>2, OthersLists, OthersPhase DEF NoPanicInv
  <2>3. CASE \E h \in Hosts : RemoveElsewhere(h)
    BY <2>3 DEF RemoveElsewhere, NoPanicInv
  <2>4. CASE UNCHANGED vars
    BY <2>4 DEF vars, store, view, counters, NoPanicInv, ListsInv, SelectionWithin
  <2> QED
    BY <2>1, <2>2, <2>3, <2>4 DEF Next
<1>3. NoPanicInv => PanicsOnlyAfterRemoval
  BY DEF NoPanicInv, PanicsOnlyAfterRemoval
<1> QED
  BY <1>1, <1>2, <1>3, PTL DEF Spec

-----------------------------------------------------------------------------
(* Types, and what a scan still has to do.                                 *)

Alerts == [id: Nat, host: Hosts]
Polls  == [todo: Seq(Hosts), finished: BOOLEAN]
Scans  == [range: Seq(Hosts), todo: Seq(Seq(Hosts)), probed: SUBSET Hosts, found: Seq(Hosts),
           finished: BOOLEAN, unsaved: Seq(Hosts), missing: SUBSET Hosts]

TablesOK == budget \in Budgets /\ rows \in Seq(Hosts) /\ IsInjective(rows) /\ devices \in Seq(Hosts)

InboxOK ==
  /\ recorded \in Seq(Alerts) /\ alerts \in Seq(Alerts) /\ channel \in Seq(Alerts)
  /\ Len(alerts) <= Max({AlertLimit, RecentLimit})
  /\ picked \in Nat /\ raised \in Nat

FormOK ==
  /\ form \in [field: 0 .. 2, cursor: Nat, len: [1 .. 2 -> Nat]]
  /\ form.cursor <= TextLen

ViewOK ==
  /\ tab \in Tabs /\ filters \in [Tabs -> Texts \cup {""}]
  /\ selected \in Nat /\ needRefresh \in BOOLEAN
  /\ shown \in [host: Hosts \cup {"none"}, ports: 0 .. budget.ports]
  /\ port \in Nat /\ (port = 0 \/ port < shown.ports)
  /\ portFilter \in Hosts \cup {"none"}

ModeOK ==
  /\ phase \in {"tasks", "saving", "receive", "key", "quit", "panicked"}
  /\ mode \in {"normal", "filter", "detail", "notifications", "form", "scanning", "polling"}
  /\ polls \in Seq(Polls)
  /\ task \in 0 .. Len(polls) /\ (mode = "polling" <=> task # 0)

\* Every host of the range is probed or with one of the workers, and no host twice.
ScanOK ==
  /\ scan \in Scans
  /\ scan.probed \subseteq ToSet(scan.range) /\ ToSet(scan.found) \subseteq scan.probed
  /\ IsInjective(scan.found)
  /\ Distinct(scan.todo) /\ ContentOf(scan.todo) = ToSet(scan.range) \ scan.probed
  /\ scan.finished => \A i \in DOMAIN scan.todo : scan.todo[i] = <<>>

\* Of the hosts that a finished scan has found, those that are no longer to be saved are in
\* the table, unless their save failed or another process has removed them.
SavingOK ==
  phase = "saving" =>
    /\ mode = "scanning" /\ scan.finished
    /\ ToSet(scan.found) \subseteq ToSet(rows) \cup scan.missing \cup ToSet(scan.unsaved)

TerminalInv == TablesOK /\ InboxOK /\ FormOK /\ ViewOK /\ ModeOK /\ ScanOK /\ SavingOK

LEMMA LimitsAreNumbers ==
  /\ AlertLimit <= Max({AlertLimit, RecentLimit}) /\ RecentLimit <= Max({AlertLimit, RecentLimit})
  /\ Max({AlertLimit, RecentLimit}) \in Nat
<1> DEFINE S == {AlertLimit, RecentLimit}
<1>1. S \subseteq Nat
  BY LimitAssumption
<1>2. \E m \in S : \A q \in S : m >= q
  <2>1. AlertLimit >= RecentLimit \/ RecentLimit >= AlertLimit
    BY <1>1
  <2>2. AlertLimit >= AlertLimit /\ RecentLimit >= RecentLimit
    BY <1>1
  <2> QED
    BY <2>1, <2>2
<1> HIDE DEF S
<1>3. Max(S) \in S /\ \A q \in S : Max(S) >= q
  BY <1>2 DEF Max
<1>4. AlertLimit \in S /\ RecentLimit \in S
  BY DEF S
<1> QED
  BY <1>1, <1>3, <1>4 DEF S

LEMMA NoFormIs ==
  /\ NoForm \in [field: 0 .. 2, cursor: Nat, len: [1 .. 2 -> Nat]]
  /\ NoForm.field = 0 /\ NoForm.cursor = 0 /\ NoForm.len[0 + 1] = 0
<1>1. <<0, 0>> \in [1 .. 2 -> Nat]
  OBVIOUS
<1> QED
  BY <1>1 DEF NoForm

LEMMA TypesAtFirst == Init => TerminalInv
<1> SUFFICES ASSUME Init PROVE TerminalInv
  OBVIOUS
<1>1. budget \in Budgets /\ budget.known \in Nat /\ budget.ports \in Nat
  BY BudgetAssumption DEF Init
<1>2. PICK n \in 0 .. Lesser(budget.known, Len(Addresses)) : rows = SubSeq(Addresses, 1, n)
  BY DEF Init
<1>3. Len(Addresses) \in Nat /\ n \in 0 .. Len(Addresses)
  BY <1>1, <1>2, RangeAssumption DEF Lesser
<1>4. rows \in Seq(Hosts) /\ Len(rows) = n /\ \A i \in 1 .. n : rows[i] = Addresses[i]
  BY <1>2, <1>3, RangeAssumption
<1>5. IsInjective(rows)
  BY <1>3, <1>4, RangeAssumption DEF IsInjective
<1>6. TablesOK
  BY <1>1, <1>4, <1>5 DEF TablesOK, Init
<1>7. InboxOK
  <2>1. recorded = <<>> /\ alerts = <<>> /\ channel = <<>> /\ picked = 0 /\ raised = 0
    BY DEF Init
  <2>2. Len(alerts) <= Max({AlertLimit, RecentLimit})
    <3>1. Len(alerts) = 0
      BY <2>1
    <3> QED
      BY <3>1, LimitsAreNumbers
  <2> QED
    BY <2>1, <2>2 DEF InboxOK
<1>8. FormOK
  <2>1. form = NoForm
    BY DEF Init
  <2> QED
    BY <2>1, NoFormIs DEF FormOK, TextLen
<1>9. ViewOK
  <2>1. shown \in [host: Hosts \cup {"none"}, ports: 0 .. budget.ports]
    <3>1. CASE rows = <<>>
      <4>1. shown = Nobody
        BY <3>1 DEF Init
      <4> QED
        BY <1>1, <4>1 DEF Nobody
    <3>2. CASE rows # <<>>
      <4>1. rows[1] \in Hosts
        BY <1>4, <3>2
      <4>2. shown \in [host: {rows[1]}, ports: 0 .. budget.ports]
        BY <3>2 DEF Init, Loaded
      <4> QED
        BY <4>1, <4>2
    <3> QED
      BY <3>1, <3>2
  <2> QED
    BY <2>1, TabsAssumption DEF ViewOK, Init
<1>10. ModeOK
  <2>1. phase = "tasks" /\ mode = "normal" /\ polls = <<>> /\ task = 0
    BY DEF Init
  <2> QED
    BY <2>1 DEF ModeOK
<1>11. ScanOK
  <2>1. scan = NoScan
    BY DEF Init
  <2>2. ContentOf(NoScan.todo) = {} /\ Distinct(NoScan.todo)
    BY NothingHeld DEF NoScan
  <2> QED
    BY <2>1, <2>2 DEF ScanOK, NoScan, Scans, ToSet, IsInjective
<1>12. SavingOK
  BY DEF SavingOK, Init
<1> QED
  BY <1>6, <1>7, <1>8, <1>9, <1>10, <1>11, <1>12 DEF TerminalInv

\* A host that is appended to a table without it is there once, after the others.
LEMMA AppendedIs ==
  ASSUME NEW list \in Seq(Hosts), IsInjective(list), NEW host \in Hosts, host \notin ToSet(list)
  PROVE  /\ Append(list, host) \in Seq(Hosts) /\ IsInjective(Append(list, host))
         /\ ToSet(Append(list, host)) = ToSet(list) \cup {host}
<1> DEFINE n == Len(list)
           longer == Append(list, host)
<1>1. /\ n \in Nat /\ DOMAIN list = 1 .. n /\ longer \in Seq(Hosts) /\ DOMAIN longer = 1 .. n + 1
      /\ longer[n + 1] = host /\ \A k \in 1 .. n : longer[k] = list[k]
  OBVIOUS
<1>2. \A k \in 1 .. n : list[k] # host
  BY <1>1 DEF ToSet
<1>3. \A k \in 1 .. n + 1 : k = n + 1 \/ k \in 1 .. n
  BY <1>1
<1>4. n + 1 \in 1 .. n + 1 /\ \A k \in 1 .. n : k \in 1 .. n + 1
  BY <1>1
<1> HIDE DEF n, longer
<1>5. IsInjective(longer)
  BY <1>1, <1>2, <1>3 DEF IsInjective
<1>6. ToSet(longer) = ToSet(list) \cup {host}
  BY <1>1, <1>3, <1>4 DEF ToSet
<1> QED
  BY <1>1, <1>5, <1>6 DEF longer

\* Registering adds the host, if it is not there.
LEMMA RegisteredIs ==
  ASSUME TablesOK, NEW host \in Hosts
  PROVE  /\ Registered(host) \in Seq(Hosts) /\ IsInjective(Registered(host))
         /\ ToSet(Registered(host)) = ToSet(rows) \cup {host}
<1>1. rows \in Seq(Hosts) /\ IsInjective(rows)
  BY DEF TablesOK
<1>2. CASE host \in ToSet(rows)
  BY <1>1, <1>2 DEF Registered
<1>3. CASE host \notin ToSet(rows)
  BY <1>1, <1>3, AppendedIs DEF Registered
<1> QED
  BY <1>2, <1>3

\* What a part does not mention cannot disturb it.
LEMMA PartsKept ==
  /\ TablesOK /\ UNCHANGED <<budget, rows, devices>> => TablesOK'
  /\ InboxOK /\ UNCHANGED <<recorded, alerts, picked, channel, raised>> => InboxOK'
  /\ FormOK /\ UNCHANGED form => FormOK'
  /\ ViewOK /\ UNCHANGED <<view, budget>> => ViewOK'
  /\ ModeOK /\ UNCHANGED <<phase, mode, polls, task>> => ModeOK'
  /\ ScanOK /\ UNCHANGED scan => ScanOK'
  /\ SavingOK /\ UNCHANGED <<phase, mode, rows, scan>> => SavingOK'
<1>1. TablesOK /\ UNCHANGED <<budget, rows, devices>> => TablesOK'
  BY DEF TablesOK
<1>2. InboxOK /\ UNCHANGED <<recorded, alerts, picked, channel, raised>> => InboxOK'
  BY DEF InboxOK
<1>3. FormOK /\ UNCHANGED form => FormOK'
  BY DEF FormOK, TextLen
<1>4. ViewOK /\ UNCHANGED <<view, budget>> => ViewOK'
  BY DEF ViewOK, view
<1>5. ModeOK /\ UNCHANGED <<phase, mode, polls, task>> => ModeOK'
  BY DEF ModeOK
<1>6. ScanOK /\ UNCHANGED scan => ScanOK'
  BY DEF ScanOK
<1>7. SavingOK /\ UNCHANGED <<phase, mode, rows, scan>> => SavingOK'
  BY DEF SavingOK
<1> QED
  BY <1>1, <1>2, <1>3, <1>4, <1>5, <1>6, <1>7

LEMMA NothingToSave == phase' # "saving" => SavingOK'
BY DEF SavingOK

\* What is left to save of a scan, and what is missing, is no business of its workers.
LEMMA ScanPartKept ==
  ASSUME ScanOK, NEW list \in Seq(Hosts), NEW lost \in SUBSET Hosts,
         scan' = [scan EXCEPT !.unsaved = list, !.missing = lost]
  PROVE  /\ ScanOK'
         /\ scan'.found = scan.found /\ scan'.finished = scan.finished
         /\ scan'.unsaved = list /\ scan'.missing = lost
<1>1. scan \in Scans
  BY DEF ScanOK
<1>2. /\ scan' \in Scans /\ scan'.range = scan.range /\ scan'.todo = scan.todo
      /\ scan'.probed = scan.probed /\ scan'.found = scan.found /\ scan'.finished = scan.finished
      /\ scan'.unsaved = list /\ scan'.missing = lost
  BY <1>1 DEF Scans
<1> QED
  BY <1>2 DEF ScanOK

LEMMA NoScanOK == scan' = NoScan => ScanOK'
<1> SUFFICES ASSUME scan' = NoScan PROVE ScanOK'
  OBVIOUS
<1>1. NoScan \in Scans
  BY DEF NoScan, Scans
<1>2. /\ DOMAIN NoScan.todo = {} /\ DOMAIN NoScan.found = {} /\ NoScan.probed = {}
      /\ DOMAIN NoScan.range = {} /\ NoScan.finished = FALSE
  BY DEF NoScan
<1>3. ContentOf(NoScan.todo) = {} /\ Distinct(NoScan.todo)
  BY <1>2, NothingHeld
<1> QED
  BY <1>1, <1>2, <1>3 DEF ScanOK, ToSet, IsInjective

\* A poll that is started has the rows to visit.
LEMMA StartPollOK ==
  ASSUME ModeOK, phase' \in {"tasks", "key"}, NEW list \in Seq(Hosts), StartPoll(list)
  PROVE  ModeOK' /\ polls'[task'].todo = list
<1>1. polls \in Seq(Polls) /\ Len(polls) \in Nat
  BY DEF ModeOK
<1>2. PollOf(list) \in Polls
  BY DEF PollOf, Polls
<1>3. polls' = Append(polls, PollOf(list)) /\ task' = Len(polls) + 1 /\ mode' = "polling"
  BY DEF StartPoll
<1>4. polls' \in Seq(Polls) /\ Len(polls') = Len(polls) + 1 /\ polls'[Len(polls) + 1] = PollOf(list)
  BY <1>1, <1>2, <1>3
<1>5. ModeOK'
  BY <1>1, <1>3, <1>4 DEF ModeOK
<1> QED
  BY <1>3, <1>4, <1>5 DEF PollOf

\* What is loaded is of a host, with as many ports as a device may have.
LEMMA LoadedOK ==
  ASSUME TablesOK, ViewOK, NEW list \in Seq(Hosts), NEW s \in ShownOf(list)
  PROVE  s \in [host: Hosts \cup {"none"}, ports: 0 .. budget.ports]
<1>1. CASE HasSelected(list)
  <2>0. selected \in Nat /\ selected < Len(list) /\ Len(list) \in Nat
    <3>1. selected \in Nat
      BY DEF ViewOK
    <3>2. Len(list) \in Nat
      OBVIOUS
    <3> QED
      BY <1>1, <3>1, <3>2 DEF HasSelected
  <2>1. SelectedOf(list) \in Hosts
    <3>1. selected + 1 \in 1 .. Len(list)
      BY <2>0
    <3>2. list[selected + 1] \in Hosts
      BY <3>1
    <3> QED
      BY <3>2 DEF SelectedOf
  <2>2. s \in [host: {SelectedOf(list)}, ports: 0 .. budget.ports]
    BY <1>1 DEF ShownOf, Loaded
  <2> QED
    BY <2>1, <2>2
<1>2. CASE ~HasSelected(list)
  BY <1>2 DEF ShownOf, ViewOK
<1> QED
  BY <1>1, <1>2

LEMMA PortWithin ==
  ASSUME NEW n \in Nat, NEW p \in Nat
  PROVE  LET q == Lesser(p, Pred(n)) IN q \in Nat /\ (q = 0 \/ q < n)
BY DEF Lesser, Pred

LEMMA TakeScanTypes ==
  ASSUME TerminalInv, TakeScan
  PROVE  TerminalInv'
<1> USE DEF TerminalInv
<1>1. /\ ScanDone /\ phase' = "saving" /\ scan' = [scan EXCEPT !.unsaved = scan.found]
      /\ UNCHANGED <<store, mode, form, view, devices, inbox, polls, task, counters>>
  BY DEF TakeScan
<1>2. TablesOK' /\ InboxOK' /\ FormOK' /\ ViewOK'
  BY <1>1, PartsKept DEF store, inbox, counters
<1>3. ModeOK'
  BY <1>1 DEF ModeOK
<1>4. scan.found \in Seq(Hosts) /\ scan.missing \in SUBSET Hosts /\ scan \in Scans
  BY DEF ScanOK, Scans
<1>5. scan' = [scan EXCEPT !.unsaved = scan.found, !.missing = scan.missing]
  BY <1>1, <1>4 DEF Scans
<1>6. /\ ScanOK' /\ scan'.found = scan.found /\ scan'.finished = scan.finished
      /\ scan'.unsaved = scan.found
  BY <1>4, <1>5, ScanPartKept
<1>7. SavingOK'
  BY <1>1, <1>6 DEF SavingOK, ScanDone
<1> QED
  BY <1>2, <1>3, <1>6, <1>7

\* The next host goes from those to be saved to the table, or to the missing.
LEMMA SaveFoundTypes ==
  ASSUME TerminalInv, SaveFound
  PROVE  TerminalInv'
<1> USE DEF TerminalInv
<1>1. /\ phase = "saving" /\ scan.unsaved # <<>>
      /\ UNCHANGED <<recorded, phase, mode, form, view, devices, inbox, polls, task, counters>>
  BY DEF SaveFound
<1> DEFINE host == Head(scan.unsaved)
           left == Tail(scan.unsaved)
<1>2. scan.unsaved \in Seq(Hosts) /\ scan.missing \in SUBSET Hosts /\ scan \in Scans
  BY DEF ScanOK, Scans
<1>3. host \in Hosts /\ left \in Seq(Hosts) /\ ToSet(scan.unsaved) \subseteq {host} \cup ToSet(left)
  <2> DEFINE list == scan.unsaved
             n    == Len(list)
  <2>1. list \in Seq(Hosts) /\ list # <<>>
    BY <1>1, <1>2
  <2> HIDE DEF list
  <2>2. /\ Head(list) \in Hosts /\ Head(list) = list[1] /\ Tail(list) \in Seq(Hosts)
        /\ n \in Nat /\ DOMAIN list = 1 .. n /\ DOMAIN Tail(list) = 1 .. n - 1
        /\ \A k \in 1 .. n - 1 : Tail(list)[k] = list[k + 1]
    BY <2>1
  <2> HIDE DEF n
  <2>3. \A k \in 1 .. n : k = 1 \/ (k - 1 \in 1 .. n - 1 /\ (k - 1) + 1 = k)
    BY <2>2
  <2>4. \A k \in DOMAIN list : list[k] = Head(list) \/ \E i \in DOMAIN Tail(list) : Tail(list)[i] = list[k]
    BY <2>2, <2>3
  <2>5. ToSet(list) \subseteq {Head(list)} \cup ToSet(Tail(list))
    BY <2>4, Zenon DEF ToSet
  <2> QED
    BY <2>2, <2>5 DEF list
<1>4. \/ /\ rows' = Registered(host)
         /\ scan' = [scan EXCEPT !.unsaved = left, !.missing = scan.missing]
      \/ /\ rows' = rows
         /\ scan' = [scan EXCEPT !.unsaved = left, !.missing = scan.missing \cup {host}]
  <2>1. \A list : [scan EXCEPT !.unsaved = list]
                   = [scan EXCEPT !.unsaved = list, !.missing = scan.missing]
    BY <1>2 DEF Scans
  <2>2. \/ rows' = Registered(host) /\ scan' = [scan EXCEPT !.unsaved = left]
        \/ /\ rows' = rows
           /\ scan' = [scan EXCEPT !.unsaved = left, !.missing = scan.missing \cup {host}]
    BY DEF SaveFound
  <2> QED
    BY <2>1, <2>2
<1> HIDE DEF host, left
<1>5. /\ rows' \in Seq(Hosts) /\ IsInjective(rows') /\ ToSet(rows) \subseteq ToSet(rows')
      /\ ScanOK' /\ scan'.found = scan.found /\ scan'.finished = scan.finished
      /\ scan'.unsaved = left /\ scan.missing \subseteq scan'.missing
      /\ host \in ToSet(rows') \cup scan'.missing
  <2>1. CASE /\ rows' = Registered(host)
             /\ scan' = [scan EXCEPT !.unsaved = left, !.missing = scan.missing]
    <3>1. /\ Registered(host) \in Seq(Hosts) /\ IsInjective(Registered(host))
          /\ ToSet(Registered(host)) = ToSet(rows) \cup {host}
      BY <1>3, RegisteredIs
    <3>2. /\ ScanOK' /\ scan'.found = scan.found /\ scan'.finished = scan.finished
          /\ scan'.unsaved = left /\ scan'.missing = scan.missing
      BY <1>2, <1>3, <2>1, ScanPartKept
    <3> QED
      BY <2>1, <3>1, <3>2
  <2>2. CASE /\ rows' = rows
             /\ scan' = [scan EXCEPT !.unsaved = left, !.missing = scan.missing \cup {host}]
    <3>1. rows \in Seq(Hosts) /\ IsInjective(rows)
      BY DEF TablesOK
    <3> DEFINE lost == scan.missing \cup {host}
    <3>2. lost \in SUBSET Hosts /\ scan' = [scan EXCEPT !.unsaved = left, !.missing = lost]
      BY <1>2, <1>3, <2>2
    <3> HIDE DEF lost
    <3>3. /\ ScanOK' /\ scan'.found = scan.found /\ scan'.finished = scan.finished
          /\ scan'.unsaved = left /\ scan'.missing = lost
      BY <1>3, <3>2, ScanPartKept
    <3> QED
      BY <2>2, <3>1, <3>3 DEF lost
  <2> QED
    BY <1>4, <2>1, <2>2
<1>6. TablesOK'
  BY <1>1, <1>5 DEF TablesOK, counters
<1>7. InboxOK' /\ FormOK' /\ ViewOK' /\ ModeOK'
  BY <1>1, PartsKept DEF inbox, counters
<1>8. SavingOK'
  BY <1>1, <1>3, <1>5 DEF SavingOK
<1> QED
  BY <1>5, <1>6, <1>7, <1>8

LEMMA PollFoundTypes ==
  ASSUME TerminalInv, PollFound
  PROVE  TerminalInv'
<1> USE DEF TerminalInv
<1>1. /\ phase = "saving" /\ phase' = "tasks" /\ scan' = NoScan
      /\ UNCHANGED <<store, form, tab, filters, selected, needRefresh, portFilter, inbox, counters>>
  BY DEF PollFound
<1>2. InboxOK' /\ FormOK' /\ ScanOK' /\ SavingOK'
  BY <1>1, PartsKept, NoScanOK, NothingToSave DEF store, inbox, counters
<1>3. budget' = budget /\ rows' = rows /\ rows \in Seq(Hosts) /\ IsInjective(rows)
  BY <1>1 DEF counters, store, TablesOK
<1>4. CASE StartPoll(rows) /\ UNCHANGED <<devices, shown, port>>
  <2>1. TablesOK' /\ ViewOK'
    BY <1>1, <1>3, <1>4, PartsKept DEF view
  <2>2. ModeOK'
    BY <1>1, <1>3, <1>4, StartPollOK
  <2> QED
    BY <1>2, <2>1, <2>2
<1>5. CASE /\ devices' = rows /\ shown' \in ShownOf(rows) /\ port' = 0
           /\ mode' = "normal" /\ UNCHANGED <<polls, task>>
  <2>1. TablesOK'
    BY <1>3, <1>5 DEF TablesOK
  <2>2. ViewOK'
    <3>1. shown' \in [host: Hosts \cup {"none"}, ports: 0 .. budget.ports]
      BY <1>3, <1>5, LoadedOK
    <3> QED
      BY <1>1, <1>3, <1>5, <3>1 DEF ViewOK
  <2>3. ModeOK'
    BY <1>1, <1>5 DEF ModeOK, SavingOK
  <2> QED
    BY <1>2, <2>1, <2>2, <2>3
<1> QED
  BY <1>4, <1>5 DEF PollFound

LEMMA TakePollTypes ==
  ASSUME TerminalInv, TakePoll
  PROVE  TerminalInv'
<1> USE DEF TerminalInv
<1>1. /\ devices' = rows /\ shown' \in ShownOf(rows) /\ port' = Lesser(port, Pred(shown'.ports))
      /\ alerts' = SubSeq(recorded, 1, Lesser(RecentLimit, Len(recorded)))
      /\ mode' = "normal" /\ task' = 0
      /\ UNCHANGED <<store, phase, form, tab, filters, selected, needRefresh, portFilter>>
      /\ UNCHANGED <<picked, channel, scan, polls, counters>>
  BY DEF TakePoll
<1>2. rows' = rows /\ recorded' = recorded /\ budget' = budget /\ raised' = raised
  BY <1>1 DEF store, counters
<1>3. TablesOK'
  BY <1>1, <1>2 DEF TablesOK
<1>4. FormOK' /\ ScanOK'
  BY <1>1, PartsKept
<1>5. InboxOK'
  <2>1. recorded \in Seq(Alerts) /\ Len(recorded) \in Nat
    BY DEF InboxOK
  <2> DEFINE n == Lesser(RecentLimit, Len(recorded))
  <2>2. n \in 0 .. Len(recorded) /\ n <= RecentLimit
    BY <2>1, LimitAssumption DEF Lesser
  <2> HIDE DEF n
  <2>3. alerts' \in Seq(Alerts) /\ Len(alerts') = n
    BY <1>1, <2>1, <2>2 DEF n
  <2>4. Len(alerts') <= Max({AlertLimit, RecentLimit})
    BY <2>2, <2>3, LimitsAreNumbers, LimitAssumption
  <2> QED
    BY <1>1, <1>2, <2>3, <2>4 DEF InboxOK
<1>6. ViewOK'
  <2>1. shown' \in [host: Hosts \cup {"none"}, ports: 0 .. budget.ports]
    BY <1>1, LoadedOK DEF TablesOK
  <2>2. budget.ports \in Nat
    BY BudgetAssumption DEF TablesOK
  <2>3. shown'.ports \in Nat /\ port \in Nat
    <3>1. shown'.ports \in 0 .. budget.ports
      BY <2>1
    <3>2. port \in Nat
      BY DEF ViewOK
    <3> QED
      BY <2>2, <3>1, <3>2
  <2>4. port' \in Nat /\ (port' = 0 \/ port' < shown'.ports)
    BY <1>1, <2>3, PortWithin
  <2> QED
    BY <1>1, <1>2, <2>1, <2>4 DEF ViewOK
<1>7. ModeOK' /\ SavingOK'
  BY <1>1 DEF TakePoll, PollDone, ModeOK, SavingOK
<1> QED
  BY <1>3, <1>4, <1>5, <1>6, <1>7

\* An alert on top, and no more than the limit.
LEMMA WithAlertOK ==
  ASSUME NEW list \in Seq(Alerts), NEW p \in Nat, NEW alert \in Alerts,
         NEW seen, seen = WithAlert([alerts |-> list, picked |-> p], alert)
  PROVE  /\ seen.alerts \in Seq(Alerts) /\ Len(seen.alerts) <= AlertLimit /\ seen.picked \in Nat
         /\ p < Len(list) /\ p + 1 < AlertLimit
              => seen.alerts[seen.picked + 1] = list[p + 1]
<1> DEFINE longer == Cons(alert, list)
           n == Lesser(AlertLimit, Len(longer))
           kept == SubSeq(longer, 1, n)
<1>1. /\ longer \in Seq(Alerts) /\ Len(longer) = Len(list) + 1 /\ Len(list) \in Nat
      /\ \A i \in 1 .. Len(list) : longer[i + 1] = list[i]
  BY DEF Cons
<1>2. /\ seen.alerts = kept
      /\ seen.picked = IF list = <<>> THEN p ELSE Lesser(p + 1, Len(kept) - 1)
  BY DEF WithAlert
<1> HIDE DEF longer
<1>3. n \in 1 .. Len(longer) /\ n <= AlertLimit /\ AlertLimit \in Nat
      /\ (n = AlertLimit \/ n = Len(longer))
  BY <1>1, LimitAssumption DEF Lesser
<1> HIDE DEF n
<1>4. kept \in Seq(Alerts) /\ Len(kept) = n /\ \A i \in 1 .. n : kept[i] = longer[i]
  BY <1>1, <1>3
<1> HIDE DEF kept
<1>5. seen.picked \in Nat
  BY <1>2, <1>3, <1>4 DEF Lesser
<1>6. ASSUME p < Len(list), p + 1 < AlertLimit PROVE seen.alerts[seen.picked + 1] = list[p + 1]
  <2>1. list # <<>>
    BY <1>6
  <2>2. p + 1 <= n - 1
    BY <1>1, <1>3, <1>6
  <2>3. seen.picked = p + 1
    BY <1>2, <1>3, <1>4, <2>1, <2>2 DEF Lesser
  <2>4. p + 1 + 1 \in 1 .. n /\ p + 1 \in 1 .. Len(list)
    BY <1>1, <1>3, <1>6, <2>2
  <2> QED
    BY <1>1, <1>2, <1>4, <2>3, <2>4
<1> QED
  BY <1>2, <1>3, <1>4, <1>5, <1>6

LEMMA ReceiveAlertTypes ==
  ASSUME TerminalInv, ReceiveAlert
  PROVE  TerminalInv' /\ (picked < Len(alerts) /\ picked + 1 < AlertLimit
                            => alerts'[picked' + 1] = alerts[picked + 1])
<1> USE DEF TerminalInv
<1>1. /\ CanReceive /\ channel # <<>> /\ phase' = "receive" /\ channel' = Tail(channel)
      /\ UNCHANGED <<store, mode, form, view, devices, tasks, counters>>
  BY DEF ReceiveAlert
<1>2. PICK seen : /\ seen = WithAlert([alerts |-> alerts, picked |-> picked], Head(channel))
                  /\ alerts' = seen.alerts /\ picked' = seen.picked
  BY DEF ReceiveAlert
<1>3. alerts \in Seq(Alerts) /\ picked \in Nat /\ channel \in Seq(Alerts)
  BY DEF InboxOK
<1>4. Head(channel) \in Alerts /\ channel' \in Seq(Alerts)
  BY <1>1, <1>3
<1>5. /\ alerts' \in Seq(Alerts) /\ Len(alerts') <= AlertLimit /\ picked' \in Nat
      /\ picked < Len(alerts) /\ picked + 1 < AlertLimit
           => alerts'[picked' + 1] = alerts[picked + 1]
  BY <1>2, <1>3, <1>4, WithAlertOK
<1>6. InboxOK'
  <2>1. Len(alerts') <= Max({AlertLimit, RecentLimit})
    BY <1>5, LimitsAreNumbers, LimitAssumption
  <2> QED
    BY <1>1, <1>4, <1>5, <2>1 DEF InboxOK, store, counters
<1>7. TablesOK' /\ FormOK' /\ ViewOK' /\ ScanOK'
  BY <1>1, PartsKept DEF store, counters, tasks
<1>8. ModeOK' /\ SavingOK'
  BY <1>1 DEF ModeOK, SavingOK, tasks
<1> QED
  BY <1>5, <1>6, <1>7, <1>8

LEMMA RefreshTypes ==
  ASSUME TerminalInv, Refresh \/ LoadFails
  PROVE  TerminalInv'
<1> USE DEF TerminalInv
<1>1. /\ UNCHANGED <<store, mode, form, tab, filters, selected, portFilter, devices>>
      /\ UNCHANGED <<inbox, tasks, counters>> /\ phase' \in {"key", "quit"}
  BY DEF Refresh, LoadFails, view
<1>2. TablesOK' /\ FormOK' /\ ScanOK' /\ InboxOK'
  BY <1>1, PartsKept DEF store, counters, tasks, inbox
<1>3. ModeOK' /\ SavingOK'
  BY <1>1 DEF ModeOK, SavingOK, tasks
<1>4. ViewOK'
  <2>1. CASE UNCHANGED <<shown, port, needRefresh>>
    BY <1>1, <2>1, PartsKept DEF view, counters
  <2>2. CASE /\ HasSelected(devices) /\ shown' \in Loaded(SelectedOf(devices)) /\ port' = 0
             /\ needRefresh' = FALSE
    <3>1. shown' \in ShownOf(devices)
      BY <2>2 DEF ShownOf
    <3>2. shown' \in [host: Hosts \cup {"none"}, ports: 0 .. budget.ports]
      BY <3>1, LoadedOK DEF TablesOK
    <3> QED
      BY <1>1, <2>2, <3>2 DEF ViewOK, counters
  <2> QED
    BY <2>1, <2>2 DEF Refresh, LoadFails, view
<1> QED
  BY <1>2, <1>3, <1>4

\* A scan starts with every host of its range with one worker.
LEMMA StartScanOK ==
  ASSUME TablesOK, StartScan
  PROVE  ScanOK'
<1>0. budget.range \in Nat
  BY BudgetAssumption DEF TablesOK
<1>1. PICK n \in 0 .. Lesser(budget.range, Len(Addresses)) :
        scan' = [NoScan EXCEPT !.range = SubSeq(Addresses, 1, n),
                               !.todo = Chunks(SubSeq(Addresses, 1, n), Concurrency)]
  BY DEF StartScan
<1> DEFINE hosts == SubSeq(Addresses, 1, n)
           pieces == Chunks(hosts, Concurrency)
<1>2. hosts \in Seq(Hosts) /\ IsInjective(hosts)
  <2>1. Addresses \in Seq(Hosts) /\ Len(Addresses) \in Nat /\ IsInjective(Addresses)
    BY RangeAssumption
  <2>2. CASE n \in 0 .. Len(Addresses)
    <3>1. hosts \in Seq(Hosts) /\ Len(hosts) = n /\ \A i \in 1 .. n : hosts[i] = Addresses[i]
      BY <2>1, <2>2
    <3>2. \A i \in 1 .. n : i \in DOMAIN Addresses
      BY <2>1, <2>2
    <3> HIDE DEF hosts
    <3>3. IsInjective(hosts)
      BY <2>1, <3>1, <3>2 DEF IsInjective
    <3> QED
      BY <3>1, <3>3
  <2>3. n \in 0 .. Len(Addresses)
    <3>1. n \in Int /\ 0 <= n
      OBVIOUS
    <3>2. CASE budget.range < Len(Addresses)
      <4>1. n \in 0 .. budget.range
        BY <3>2 DEF Lesser
      <4> DEFINE b == budget.range
                 l == Len(Addresses)
      <4>2. b \in Nat /\ l \in Nat /\ b < l /\ n \in 0 .. b
        BY <1>0, <2>1, <3>2, <4>1
      <4> HIDE DEF b, l
      <4>3. n \in 0 .. l
        BY <4>2
      <4> QED
        BY <4>3 DEF l
    <3>3. CASE ~(budget.range < Len(Addresses))
      BY <3>3 DEF Lesser
    <3> QED
      BY <3>2, <3>3
  <2> QED
    BY <2>2, <2>3
<1> HIDE DEF hosts
<1>3. Len(hosts) \in Nat /\ DOMAIN hosts = 1 .. Len(hosts)
  BY <1>2
<1>4. Concurrency \in Nat \ {0}
  BY LimitAssumption
<1> HIDE DEF pieces
<1>5. /\ pieces \in Seq(Seq(Hosts)) /\ Distinct(pieces)
      /\ ContentOf(pieces) = ToSet(hosts)
  <2>1. \A p, q \in DOMAIN hosts : hosts[p] = hosts[q] => p = q
    BY <1>2 DEF IsInjective
  <2>2. pieces = Chunks(hosts, Concurrency)
    BY DEF pieces
  <2>3. /\ pieces \in Seq(Seq(Hosts)) /\ Distinct(pieces)
        /\ ContentOf(pieces) = {hosts[p] : p \in DOMAIN hosts}
    BY <1>2, <1>4, <2>1, <2>2, ChunksHoldAll
  <2> QED
    BY <2>3 DEF ToSet
<1>6. /\ scan'.range = hosts /\ scan'.todo = pieces /\ scan'.probed = {}
      /\ scan'.found = <<>> /\ scan'.finished = FALSE
      /\ scan' \in Scans
  <2>1. scan' = [range |-> hosts, todo |-> pieces, probed |-> {}, found |-> <<>>, finished |-> FALSE,
                 unsaved |-> <<>>, missing |-> {}]
    BY <1>1 DEF NoScan, hosts, pieces
  <2> QED
    BY <1>2, <1>5, <2>1 DEF Scans
<1>7. ToSet(scan'.found) = {} /\ IsInjective(scan'.found)
  BY <1>6 DEF ToSet, IsInjective
<1> QED
  BY <1>5, <1>6, <1>7 DEF ScanOK

LEMMA ViewNumbers ==
  ASSUME TablesOK, ViewOK
  PROVE  /\ selected \in Nat /\ port \in Nat /\ (port = 0 \/ port < shown.ports)
         /\ shown.ports \in Nat /\ devices \in Seq(Hosts) /\ Len(devices) \in Nat
<1>1. selected \in Nat /\ port \in Nat /\ (port = 0 \/ port < shown.ports)
  BY DEF ViewOK
<1>2. shown.ports \in Nat
  <2>1. budget.ports \in Nat
    BY BudgetAssumption DEF TablesOK
  <2>2. shown.ports \in 0 .. budget.ports
    BY DEF ViewOK
  <2> QED
    BY <2>1, <2>2
<1>3. devices \in Seq(Hosts) /\ Len(devices) \in Nat
  BY DEF TablesOK
<1> QED
  BY <1>1, <1>2, <1>3

LEMMA KeyViews ==
  ASSUME TablesOK, ViewOK, Keys
  PROVE  ViewOK'
<1>0. budget' = budget /\ budget.ports \in Nat
  <2>1. budget' = budget
    BY DEF Keys, NoKey, OpenFilter, Quit, ChangeTab, ShowTraffic, LeaveTraffic, Page, PagePanics,
       ClearFilter, SelectDevice, SelectPort, SelectAlert, OpenDetails, OpenNotifications, Close,
       TypeFilter, PollNow, OpenForm, EditForm, StartScan, Key, counters
  <2> QED
    BY <2>1, BudgetAssumption DEF TablesOK
<1>1. CASE ChangeTab
  <2>1. /\ tab' \in budget.tabs
        /\ UNCHANGED <<filters, selected, shown, needRefresh, port, portFilter>>
    BY <1>1 DEF ChangeTab
  <2>2. budget.tabs \subseteq Tabs
    BY BudgetAssumption DEF TablesOK
  <2> QED
    BY <1>0, <2>1, <2>2 DEF ViewOK
<1>2. CASE ShowTraffic
  <2>1. /\ tab' \in budget.tabs
        /\ portFilter' \in {shown.host, "none"}
        /\ UNCHANGED <<filters, selected, shown, needRefresh, port>>
    BY <1>2 DEF ShowTraffic
  <2>2. budget.tabs \subseteq Tabs
    BY BudgetAssumption DEF TablesOK
  <2>3. shown.host \in Hosts \cup {"none"}
    BY DEF ViewOK
  <2> QED
    BY <1>0, <2>1, <2>2, <2>3 DEF ViewOK
<1>3. CASE LeaveTraffic
  <2>1. /\ tab = "Traffic" /\ tab' = "Interfaces" /\ portFilter' = "none"
        /\ UNCHANGED <<filters, selected, shown, needRefresh, port>>
    BY <1>3 DEF LeaveTraffic
  <2>2. tab' \in Tabs
    BY <2>1, TabsAssumption DEF ViewOK
  <2> QED
    BY <1>0, <2>1, <2>2 DEF ViewOK
<1>4. CASE Page
  <2>1. PICK next \in PageTargets \ {selected} :
          next < Len(devices) /\ selected' = next /\ shown' \in Loaded(devices[next + 1])
    BY <1>4 DEF Page
  <2>2. port' = 0 /\ portFilter' = "none" /\ UNCHANGED <<tab, filters, needRefresh>>
    BY <1>4 DEF Page
  <2>3. devices \in Seq(Hosts) /\ Len(devices) \in Nat /\ selected \in Nat
    BY ViewNumbers
  <2>4. next \in Nat
    BY <2>1, <2>3 DEF PageTargets, Pred, Lesser
  <2>5. next + 1 \in 1 .. Len(devices)
    BY <2>1, <2>3, <2>4
  <2>6. devices[next + 1] \in Hosts
    BY <2>3, <2>5
  <2>7. shown' \in [host: Hosts \cup {"none"}, ports: 0 .. budget.ports]
    <3>1. shown' \in [host: {devices[next + 1]}, ports: 0 .. budget.ports]
      BY <2>1 DEF Loaded
    <3> QED
      BY <2>6, <3>1
  <2> QED
    BY <1>0, <2>1, <2>2, <2>4, <2>7 DEF ViewOK
<1>5. CASE ClearFilter
  <2>1. filters' = [filters EXCEPT ![tab] = ""] /\ portFilter' \in {"none", portFilter}
    BY <1>5 DEF ClearFilter
  <2>2. filters' \in [Tabs -> Texts \cup {""}]
    BY <2>1 DEF ViewOK
  <2>3. UNCHANGED <<tab, selected, shown, needRefresh, port>>
    BY <1>5 DEF ClearFilter
  <2> QED
    BY <1>0, <2>1, <2>2, <2>3 DEF ViewOK
<1>6. CASE SelectDevice
  <2>1. selected' \in Moved({i \in 0 .. Len(devices) - 1 : FilterMatches(devices[i + 1])}, selected)
        /\ needRefresh' = (needRefresh \/ selected' # selected)
        /\ UNCHANGED <<tab, filters, shown, port, portFilter>>
    BY <1>6 DEF SelectDevice
  <2> DEFINE visible == {i \in 0 .. Len(devices) - 1 : FilterMatches(devices[i + 1])}
  <2>2. visible \in SUBSET (0 .. Len(devices) - 1)
    OBVIOUS
  <2> HIDE DEF visible
  <2>9. selected' \in Moved(visible, selected)
    BY <2>1 DEF visible
  <2>3. selected' \in visible \cup {selected}
    BY <2>2, <2>9, MovedAmong, ViewNumbers
  <2>4. selected' \in Nat
    <3>1. selected \in Nat /\ Len(devices) \in Nat
      BY ViewNumbers
    <3> QED
      BY <2>2, <2>3, <3>1
  <2> QED
    BY <1>0, <2>1, <2>4 DEF ViewOK
<1>7. CASE SelectPort
  <2>1. port' \in Moved({i \in 0 .. shown.ports - 1 : FilterMatches(i)}, port)
        /\ UNCHANGED <<tab, filters, selected, shown, needRefresh, portFilter>>
    BY <1>7 DEF SelectPort
  <2> DEFINE visible == {i \in 0 .. shown.ports - 1 : FilterMatches(i)}
  <2>2. visible \in SUBSET (0 .. shown.ports - 1)
    OBVIOUS
  <2>3. shown.ports \in Nat
    BY ViewNumbers
  <2>4. port \in Nat /\ (port = 0 \/ port < shown.ports)
    BY ViewNumbers
  <2>9. port' \in Moved(visible, port)
    BY <2>1
  <2> HIDE DEF visible
  <2>5. port' \in visible \cup {port}
    <3> DEFINE n == shown.ports
    <3>1. n \in Nat /\ visible \in SUBSET (0 .. n - 1)
      BY <2>2, <2>3
    <3> HIDE DEF n
    <3> QED
      BY <2>4, <2>9, <3>1, MovedAmong
  <2>6. port' \in Nat /\ (port' = 0 \/ port' < shown.ports)
    BY <2>2, <2>3, <2>4, <2>5
  <2> QED
    BY <1>0, <2>1, <2>6 DEF ViewOK
<1>8. CASE TypeFilter
  <2>1. PICK x \in Texts \cup {""} : filters' = [filters EXCEPT ![tab] = x]
    BY <1>8 DEF TypeFilter
  <2>2. filters' \in [Tabs -> Texts \cup {""}]
    BY <2>1 DEF ViewOK
  <2>3. UNCHANGED <<tab, selected, shown, needRefresh, port, portFilter>>
    BY <1>8 DEF TypeFilter
  <2> QED
    BY <1>0, <2>2, <2>3 DEF ViewOK
<1>9. ASSUME ~ChangeTab, ~ShowTraffic, ~LeaveTraffic, ~Page, ~ClearFilter, ~SelectDevice,
             ~SelectPort, ~TypeFilter
      PROVE  UNCHANGED view
  BY <1>9 DEF Keys, NoKey, OpenFilter, Quit, PagePanics, SelectAlert, OpenDetails,
     OpenNotifications, Close, PollNow, OpenForm, EditForm, StartScan, Key, view
<1> QED
  BY <1>0, <1>1, <1>2, <1>3, <1>4, <1>5, <1>6, <1>7, <1>8, <1>9, PartsKept

\* The fields of the form have a length, and the cursor is within.
LEMMA EditFormOK ==
  ASSUME FormOK, EditForm
  PROVE  FormOK'
<1>1. /\ form.field \in 0 .. 2 /\ form.cursor \in Nat /\ form.len \in [1 .. 2 -> Nat]
      /\ form.cursor <= TextLen
      /\ form = [field |-> form.field, cursor |-> form.cursor, len |-> form.len]
  BY DEF FormOK
<1>2. TextLen \in Nat
  BY <1>1 DEF TextLen
<1>3. ASSUME NEW f \in 0 .. 2, form' = SetField(f) PROVE FormOK'
  <2>1. form' = [field |-> f, cursor |-> IF f = 2 THEN 0 ELSE form.len[f + 1], len |-> form.len]
    BY <1>1, <1>3 DEF SetField
  <2> QED
    BY <1>1, <2>1 DEF FormOK, TextLen
<1>4. ASSUME NEW c \in Nat, c <= TextLen, form' = [form EXCEPT !.cursor = c] PROVE FormOK'
  <2>1. form' = [field |-> form.field, cursor |-> c, len |-> form.len]
    BY <1>1, <1>4
  <2> QED
    BY <1>1, <1>4, <2>1 DEF FormOK, TextLen
<1>5. ASSUME form.field # 2, NEW n \in Nat, NEW c \in Nat, c <= n,
             form' = [field |-> form.field, cursor |-> c, len |-> [form.len EXCEPT ![form.field + 1] = n]]
      PROVE  FormOK'
  <2>1. form.field + 1 \in 1 .. 2
    BY <1>1, <1>5
  <2>2. [form.len EXCEPT ![form.field + 1] = n] \in [1 .. 2 -> Nat]
        /\ [form.len EXCEPT ![form.field + 1] = n][form.field + 1] = n
    BY <1>1, <2>1
  <2> QED
    BY <1>1, <1>5, <2>2 DEF FormOK, TextLen
<1>6. ASSUME form.field # 2 PROVE TextLen = form.len[form.field + 1]
  BY <1>6 DEF TextLen
<1>7. CASE \E step \in {1, 2} : form' = SetField((form.field + step) % 3)
  <2>1. PICK step \in {1, 2} : form' = SetField((form.field + step) % 3)
    BY <1>7
  <2>2. (form.field + step) % 3 \in 0 .. 2
    BY <1>1
  <2> QED
    BY <1>3, <2>1, <2>2
<1>8. CASE form' \in {[form EXCEPT !.cursor = c] :
                       c \in {0, TextLen, Pred(form.cursor), Lesser(form.cursor + 1, TextLen)}}
  <2>1. PICK c \in {0, TextLen, Pred(form.cursor), Lesser(form.cursor + 1, TextLen)} :
          form' = [form EXCEPT !.cursor = c]
    BY <1>8
  <2>2. c \in Nat /\ c <= TextLen
    BY <1>1, <1>2 DEF Pred, Lesser
  <2> QED
    BY <1>4, <2>1, <2>2
<1>9. CASE form.field # 2 /\ form' = InsertChar
  <2>1. form' = [field |-> form.field, cursor |-> form.cursor + 1,
                 len |-> [form.len EXCEPT ![form.field + 1] = TextLen + 1]]
    BY <1>1, <1>6, <1>9 DEF InsertChar
  <2> QED
    BY <1>1, <1>2, <1>5, <1>9, <2>1
<1>10. CASE form.field # 2 /\ form.cursor > 0 /\ form' = DeleteBackspace
  <2>1. form' = [field |-> form.field, cursor |-> form.cursor - 1,
                 len |-> [form.len EXCEPT ![form.field + 1] = TextLen - 1]]
    BY <1>1, <1>6, <1>10 DEF DeleteBackspace
  <2>2. form.cursor - 1 \in Nat /\ TextLen - 1 \in Nat /\ form.cursor - 1 <= TextLen - 1
    BY <1>1, <1>2, <1>10
  <2> QED
    BY <1>5, <1>10, <2>1, <2>2
<1>11. CASE form.field # 2 /\ form.cursor < TextLen /\ form' = DeleteChar
  <2>1. form' = [field |-> form.field, cursor |-> form.cursor,
                 len |-> [form.len EXCEPT ![form.field + 1] = TextLen - 1]]
    BY <1>1, <1>6, <1>11 DEF DeleteChar
  <2>2. TextLen - 1 \in Nat /\ form.cursor <= TextLen - 1
    BY <1>1, <1>2, <1>11
  <2> QED
    BY <1>1, <1>5, <1>11, <2>1, <2>2
<1> QED
  BY <1>7, <1>8, <1>9, <1>10, <1>11 DEF EditForm

\* Where a key leads while a scan or a poll goes on.
LEMMA KeyModes ==
  ASSUME TerminalInv, Keys
  PROVE  ModeOK' /\ (mode = "scanning" => mode' \in {"scanning", "filter"})
<1> USE DEF TerminalInv
<1>1. ModeOK /\ rows \in Seq(Hosts)
  BY DEF TablesOK
<1>2. CASE PollNow
  <2>1. phase' = "tasks" /\ StartPoll(rows) /\ mode = "normal"
    BY <1>2 DEF PollNow
  <2> QED
    BY <1>1, <2>1, StartPollOK
<1>3. CASE ~PollNow
  <2>1. polls' = polls /\ phase' \in {"tasks", "quit", "panicked"}
    BY <1>3 DEF Keys, NoKey, OpenFilter, Quit, ChangeTab, ShowTraffic, LeaveTraffic, Page, PagePanics,
       ClearFilter, SelectDevice, SelectPort, SelectAlert, OpenDetails, OpenNotifications, Close,
       TypeFilter, OpenForm, EditForm, StartScan, Key, tasks
  <2>2. \/ mode' = mode /\ task' = task
        \/ mode' = "filter" /\ task' = 0
        \/ /\ mode \notin {"scanning", "polling"} /\ task' = task
           /\ mode' \in {"normal", "detail", "notifications", "form", "scanning"}
    BY <1>3 DEF Keys, NoKey, OpenFilter, Quit, ChangeTab, ShowTraffic, LeaveTraffic, Page, PagePanics,
       ClearFilter, SelectDevice, SelectPort, SelectAlert, OpenDetails, OpenNotifications, Close,
       TypeFilter, OpenForm, EditForm, StartScan, Key, tasks
  <2> QED
    BY <1>1, <2>1, <2>2 DEF ModeOK
<1> QED
  BY <1>2, <1>3

LEMMA KeyTypes ==
  ASSUME TerminalInv, Keys
  PROVE  TerminalInv' /\ (mode = "scanning" => mode' \in {"scanning", "filter"})
<1> USE DEF TerminalInv
<1>1. UNCHANGED <<store, devices, counters>>
  BY DEF Keys, NoKey, OpenFilter, Quit, ChangeTab, ShowTraffic, LeaveTraffic, Page, PagePanics,
     ClearFilter, SelectDevice, SelectPort, SelectAlert, OpenDetails, OpenNotifications, Close,
     TypeFilter, PollNow, OpenForm, EditForm, StartScan, Key
<1>2. TablesOK'
  BY <1>1, PartsKept DEF store, counters
<1>3. InboxOK'
  <2>1. CASE SelectAlert
    <3>1. picked' \in Moved({i \in 0 .. Len(alerts) - 1 : FilterMatches(alerts[i + 1].host)}, picked)
          /\ UNCHANGED <<alerts, channel>>
      BY <2>1 DEF SelectAlert
    <3> DEFINE visible == {i \in 0 .. Len(alerts) - 1 : FilterMatches(alerts[i + 1].host)}
    <3>2. visible \in SUBSET (0 .. Len(alerts) - 1) /\ picked' \in Moved(visible, picked)
      BY <3>1
    <3> HIDE DEF visible
    <3>3. Len(alerts) \in Nat /\ picked \in Nat
      BY DEF InboxOK
    <3>4. picked' \in visible \cup {picked}
      BY <3>2, <3>3, MovedAmong
    <3>5. picked' \in Nat
      BY <3>2, <3>3, <3>4
    <3> QED
      BY <1>1, <3>1, <3>5 DEF InboxOK, store, counters
  <2>2. CASE ~SelectAlert
    <3>1. UNCHANGED inbox
      BY <2>2 DEF Keys, NoKey, OpenFilter, Quit, ChangeTab, ShowTraffic, LeaveTraffic, Page,
         PagePanics, ClearFilter, SelectDevice, SelectPort, OpenDetails, OpenNotifications, Close,
         TypeFilter, PollNow, OpenForm, EditForm, StartScan, Key
    <3> QED
      BY <1>1, <3>1, PartsKept DEF inbox, store, counters
  <2> QED
    BY <2>1, <2>2
<1>4. FormOK'
  <2>1. CASE OpenForm
    <3>1. form' = [field |-> 0, cursor |-> budget.text, len |-> <<budget.text, budget.text>>]
      BY <2>1 DEF OpenForm
    <3>2. budget.text \in Nat
      BY BudgetAssumption DEF TablesOK
    <3>3. /\ <<budget.text, budget.text>> \in [1 .. 2 -> Nat]
          /\ <<budget.text, budget.text>>[0 + 1] = budget.text
      BY <3>2
    <3> QED
      BY <3>1, <3>2, <3>3 DEF FormOK, TextLen
  <2>2. CASE EditForm
    BY <2>2, EditFormOK
  <2>3. CASE OpenFilter \/ Close \/ StartScan
    <3>1. form' = NoForm
      BY <2>3 DEF OpenFilter, Close, StartScan
    <3> QED
      BY <3>1, NoFormIs DEF FormOK, TextLen
  <2>4. ASSUME ~OpenForm, ~EditForm, ~OpenFilter, ~Close, ~StartScan PROVE UNCHANGED form
    BY <2>4 DEF Keys, NoKey, Quit, ChangeTab, ShowTraffic, LeaveTraffic, Page, PagePanics,
       ClearFilter, SelectDevice, SelectPort, SelectAlert, OpenDetails, OpenNotifications,
       TypeFilter, PollNow, Key
  <2> QED
    BY <2>1, <2>2, <2>3, <2>4, PartsKept
<1>5. ScanOK'
  <2>1. CASE OpenFilter
    BY <2>1, NoScanOK DEF OpenFilter
  <2>2. CASE StartScan
    BY <2>2, StartScanOK
  <2>3. ASSUME ~OpenFilter, ~StartScan PROVE UNCHANGED scan
    BY <2>3 DEF Keys, NoKey, Quit, ChangeTab, ShowTraffic, LeaveTraffic, Page, PagePanics,
       ClearFilter, SelectDevice, SelectPort, SelectAlert, OpenDetails, OpenNotifications, Close,
       TypeFilter, PollNow, OpenForm, EditForm, Key, tasks
  <2> QED
    BY <2>1, <2>2, <2>3, PartsKept
<1>6. SavingOK'
  BY NothingToSave DEF Keys, NoKey, OpenFilter, Quit, ChangeTab, ShowTraffic, LeaveTraffic, Page,
     PagePanics, ClearFilter, SelectDevice, SelectPort, SelectAlert, OpenDetails, OpenNotifications,
     Close, TypeFilter, PollNow, OpenForm, EditForm, StartScan, Key
<1> QED
  BY <1>2, <1>3, <1>4, <1>5, <1>6, KeyModes, KeyViews

\* A worker probes the host at the head of its chunk, which nobody else has.
LEMMA ProbeHostOK ==
  ASSUME ScanOK, NEW i, ProbeHost(i)
  PROVE  ScanOK'
<1> DEFINE todo == scan.todo
           mine == scan.todo[i]
           host == Head(mine)
<1>1. PICK found \in {scan.found, Append(scan.found, host)} :
        scan' = [scan EXCEPT !.todo[i] = Tail(@), !.probed = @ \cup {host}, !.found = found]
  BY DEF ProbeHost
<1>2. i \in DOMAIN todo /\ mine # <<>>
  BY DEF ProbeHost
<1>3. /\ todo \in Seq(Seq(Hosts)) /\ scan.found \in Seq(Hosts) /\ scan.range \in Seq(Hosts)
      /\ scan.probed \in SUBSET Hosts /\ scan.finished \in BOOLEAN
      /\ scan.unsaved \in Seq(Hosts) /\ scan.missing \in SUBSET Hosts
      /\ scan = [range |-> scan.range, todo |-> todo, probed |-> scan.probed,
                 found |-> scan.found, finished |-> scan.finished,
                 unsaved |-> scan.unsaved, missing |-> scan.missing]
  BY DEF ScanOK, Scans
<1> DEFINE left == [todo EXCEPT ![i] = Tail(@)]
<1>4. /\ host \in Hosts \cap ContentOf(todo) /\ left \in Seq(Seq(Hosts))
      /\ Distinct(left) /\ ContentOf(left) = ContentOf(todo) \ {host}
  <2>1. Distinct(todo)
    BY DEF ScanOK
  <2>2. /\ todo \in Seq(Seq(Hosts)) /\ i \in DOMAIN todo /\ todo[i] # <<>>
        /\ left = [todo EXCEPT ![i] = Tail(@)] /\ host = Head(todo[i])
    BY <1>2, <1>3
  <2> HIDE DEF left, todo, mine, host
  <2> QED
    BY <2>1, <2>2, HeadIsTaken
<1> HIDE DEF left, todo, mine, host
<1>5. found \in Seq(Hosts)
  <2>1. Append(scan.found, host) \in Seq(Hosts)
    BY <1>3, <1>4
  <2> QED
    BY <1>1, <1>3, <2>1 DEF host, mine
<1>6. /\ scan'.range = scan.range /\ scan'.todo = left
      /\ scan'.probed = scan.probed \cup {host} /\ scan'.found = found
      /\ scan'.finished = scan.finished
      /\ scan' \in Scans
  <2>1. scan' = [range |-> scan.range, todo |-> left, probed |-> scan.probed \cup {host},
                 found |-> found, finished |-> scan.finished,
                 unsaved |-> scan.unsaved, missing |-> scan.missing]
    BY <1>1, <1>3 DEF left, todo, mine, host
  <2> QED
    BY <1>3, <1>4, <1>5, <2>1 DEF Scans
<1>7. host \in ToSet(scan.range) \ scan.probed
  BY <1>4 DEF ScanOK, todo
<1>8. ToSet(scan'.found) \subseteq scan'.probed /\ IsInjective(scan'.found)
  <2>1. ToSet(scan.found) \subseteq scan.probed /\ IsInjective(scan.found)
    BY DEF ScanOK
  <2>2. CASE found = scan.found
    BY <1>6, <2>1, <2>2
  <2>3. CASE found = Append(scan.found, host)
    <3> DEFINE n == Len(scan.found)
    <3>1. /\ n \in Nat /\ DOMAIN scan.found = 1 .. n /\ DOMAIN found = 1 .. n + 1
          /\ found[n + 1] = host /\ \A k \in 1 .. n : found[k] = scan.found[k]
      BY <1>3, <1>4, <2>3
    <3>2. \A k \in 1 .. n : scan.found[k] # host /\ scan.found[k] \in scan.probed
      BY <1>7, <2>1, <3>1 DEF ToSet
    <3>3. \A k \in 1 .. n + 1 : k = n + 1 \/ k \in 1 .. n
      BY <3>1
    <3> HIDE DEF n
    <3>4. ToSet(found) \subseteq scan.probed \cup {host}
      BY <3>1, <3>2, <3>3 DEF ToSet
    <3>5. IsInjective(found)
      BY <2>1, <3>1, <3>2, <3>3 DEF IsInjective
    <3> QED
      BY <1>6, <3>4, <3>5
  <2> QED
    BY <1>1, <2>2, <2>3 DEF host, mine
<1>9. scan'.probed \subseteq ToSet(scan'.range)
  BY <1>6, <1>7 DEF ScanOK
<1>10. ContentOf(scan'.todo) = ToSet(scan'.range) \ scan'.probed
  BY <1>4, <1>6 DEF ScanOK, todo
<1>11. ~scan'.finished
  BY <1>2, <1>6 DEF ScanOK, todo, mine
<1> QED
  BY <1>4, <1>6, <1>8, <1>9, <1>10, <1>11 DEF ScanOK

LEMMA FinishScanOK ==
  ASSUME ScanOK, FinishScan
  PROVE  ScanOK'
<1>1. scan' = [scan EXCEPT !.finished = TRUE] /\ \A i \in DOMAIN scan.todo : scan.todo[i] = <<>>
  BY DEF FinishScan
<1>2. scan \in Scans
  BY DEF ScanOK
<1>3. /\ scan' \in Scans /\ scan'.range = scan.range /\ scan'.todo = scan.todo
      /\ scan'.probed = scan.probed /\ scan'.found = scan.found
  BY <1>1, <1>2 DEF Scans
<1> QED
  BY <1>1, <1>3 DEF ScanOK

\* While the hosts that a scan has found are saved, it has no workers any more.
LEMMA SavingAlone ==
  ASSUME ScanOK, SavingOK, (\E i \in 1 .. Concurrency : ProbeHost(i)) \/ FinishScan
  PROVE  phase # "saving"
<1>1. CASE FinishScan
  BY <1>1 DEF FinishScan, SavingOK
<1>2. ASSUME NEW i, ProbeHost(i) PROVE phase # "saving"
  <2>1. i \in DOMAIN scan.todo /\ scan.todo[i] # <<>>
    BY <1>2 DEF ProbeHost
  <2> QED
    BY <2>1 DEF ScanOK, SavingOK
<1> QED
  BY <1>1, <1>2

\* An alert that is published is of a host.
LEMMA PublishOK ==
  ASSUME InboxOK, NEW host \in Hosts, Publish(host), UNCHANGED <<alerts, picked>>
  PROVE  InboxOK'
<1>1. PICK alert : /\ alert = [id |-> raised + 1, host |-> host]
                   /\ raised' = raised + 1
                   /\ channel' = Append(channel, alert)
                   /\ recorded' \in {Cons(alert, recorded), recorded}
  BY DEF Publish
<1>2. recorded \in Seq(Alerts) /\ alerts \in Seq(Alerts) /\ channel \in Seq(Alerts) /\ raised \in Nat
  BY DEF InboxOK
<1>3. alert \in Alerts /\ raised' \in Nat
  BY <1>1, <1>2 DEF Alerts
<1>4. channel' \in Seq(Alerts) /\ Cons(alert, recorded) \in Seq(Alerts)
  BY <1>1, <1>2, <1>3 DEF Cons
<1>5. recorded' \in Seq(Alerts)
  BY <1>1, <1>2, <1>4
<1> QED
  BY <1>3, <1>4, <1>5 DEF InboxOK

\* Removing rows leaves a table, and the rows of the alerts.
LEMMA RemoveElsewhereOK ==
  ASSUME TerminalInv, NEW h, RemoveElsewhere(h)
  PROVE  TerminalInv'
<1> USE DEF TerminalInv
<1>1. /\ rows' = EntriesAt(rows, {i \in DOMAIN rows : rows[i] # h})
      /\ recorded' = EntriesAt(recorded, {i \in DOMAIN recorded : recorded[i].host # h})
      /\ UNCHANGED <<others, channel, polls, task, budget, raised>>
  BY DEF RemoveElsewhere
<1>2. TablesOK'
  <2>1. rows \in Seq(Hosts) /\ IsInjective(rows)
    BY DEF TablesOK
  <2> DEFINE places == {i \in DOMAIN rows : rows[i] # h}
             left   == EntriesAt(rows, places)
  <2>2. places \in SUBSET (1 .. Len(rows)) /\ DOMAIN rows = 1 .. Len(rows)
    BY <2>1
  <2> HIDE DEF places
  <2>3. /\ left \in Seq(Hosts)
        /\ \A n \in 1 .. Len(left) : NthPlace(places, n) \in places /\ left[n] = rows[NthPlace(places, n)]
        /\ \A m, n \in 1 .. Len(left) : m < n => NthPlace(places, m) < NthPlace(places, n)
    BY <2>1, <2>2, AtIsOf
  <2> HIDE DEF left
  <2>4. DOMAIN left = 1 .. Len(left) /\ Len(left) \in Nat
    BY <2>3
  <2>5. IsInjective(left)
    <3> SUFFICES ASSUME NEW m \in 1 .. Len(left), NEW n \in 1 .. Len(left), left[m] = left[n], m < n
                 PROVE  FALSE
      <4>1. \A m, n \in 1 .. Len(left) : m < n \/ n < m \/ m = n
        BY <2>4
      <4> QED
        BY <2>4, <4>1 DEF IsInjective
    <3> DEFINE p == NthPlace(places, m)
               q == NthPlace(places, n)
    <3>1. p \in places /\ q \in places /\ rows[p] = rows[q] /\ p < q
      BY <2>3
    <3> HIDE DEF p, q
    <3>2. p = q /\ p \in Int
      BY <2>1, <2>2, <3>1 DEF IsInjective
    <3> QED
      BY <3>1, <3>2
  <2>6. rows' = left
    BY <1>1 DEF left, places
  <2> QED
    BY <1>1, <2>3, <2>5, <2>6 DEF TablesOK, others
<1>5. ToSet(rows) \subseteq ToSet(rows') \cup {h}
  <2>1. rows \in Seq(Hosts)
    BY DEF TablesOK
  <2> DEFINE places == {i \in DOMAIN rows : rows[i] # h}
             left   == EntriesAt(rows, places)
  <2>2. places \in SUBSET (1 .. Len(rows)) /\ \A i \in DOMAIN rows : rows[i] = h \/ i \in places
    BY <2>1
  <2> HIDE DEF places
  <2>3. left \in Seq(Hosts) /\ \A i \in places : \E n \in 1 .. Len(left) : left[n] = rows[i]
    BY <2>1, <2>2, AtIsOf
  <2>4. rows' = left
    BY <1>1 DEF left, places
  <2> HIDE DEF left
  <2>5. DOMAIN left = 1 .. Len(left)
    BY <2>3
  <2> QED
    BY <2>2, <2>3, <2>4, <2>5 DEF ToSet
<1>6. h \in Hosts
  BY DEF RemoveElsewhere, TablesOK, ToSet
<1>7. ScanOK' /\ SavingOK'
  <2>1. CASE phase = "saving"
    <3>1. scan \in Scans /\ scan.unsaved \in Seq(Hosts) /\ scan.missing \in SUBSET Hosts
      BY DEF ScanOK, Scans
    <3> DEFINE lost == scan.missing \cup {h}
    <3>2. scan' = [scan EXCEPT !.missing = lost]
      BY <2>1 DEF RemoveElsewhere
    <3>3. scan' = [scan EXCEPT !.unsaved = scan.unsaved, !.missing = lost] /\ lost \in SUBSET Hosts
      BY <1>6, <3>1, <3>2 DEF Scans
    <3> HIDE DEF lost
    <3>4. /\ ScanOK' /\ scan'.found = scan.found /\ scan'.finished = scan.finished
          /\ scan'.unsaved = scan.unsaved /\ scan'.missing = lost
      BY <3>1, <3>3, ScanPartKept
    <3> QED
      BY <1>1, <1>5, <2>1, <3>4 DEF SavingOK, others, lost
  <2>2. CASE phase # "saving"
    <3>1. scan' = scan /\ phase' = phase
      BY <1>1, <2>2 DEF RemoveElsewhere, others
    <3> QED
      BY <2>2, <3>1, PartsKept, NothingToSave
  <2> QED
    BY <2>1, <2>2
<1>3. InboxOK'
  <2> DEFINE places == {i \in DOMAIN recorded : recorded[i].host # h}
  <2>1. recorded \in Seq(Alerts)
    BY DEF InboxOK
  <2>2. places \in SUBSET (1 .. Len(recorded)) /\ recorded' = EntriesAt(recorded, places)
    BY <1>1, <2>1
  <2> HIDE DEF places
  <2>3. EntriesAt(recorded, places) \in Seq(Alerts)
    BY <2>1, <2>2, AtIsOf
  <2> QED
    BY <1>1, <2>2, <2>3 DEF InboxOK, others
<1>4. FormOK' /\ ViewOK' /\ ModeOK'
  BY <1>1, PartsKept DEF others
<1> QED
  BY <1>2, <1>3, <1>4, <1>7

LEMMA OthersTypes ==
  ASSUME TerminalInv,
         \/ \E i \in 1 .. Concurrency : ProbeHost(i)
         \/ FinishScan
         \/ \E p \in DOMAIN polls : VisitDevice(p) \/ FinishPoll(p)
         \/ BackgroundAlert
         \/ \E h \in Hosts : RegisterElsewhere(h)
  PROVE  TerminalInv'
<1> USE DEF TerminalInv
<1>1. UNCHANGED <<others, budget>>
  BY DEF ProbeHost, FinishScan, VisitDevice, FinishPoll, BackgroundAlert, RegisterElsewhere, counters
<1>2. FormOK' /\ ViewOK'
  BY <1>1, PartsKept DEF others
<1>3. CASE (\E i \in 1 .. Concurrency : ProbeHost(i)) \/ FinishScan
  <2>1. UNCHANGED <<store, channel, polls, task, counters>>
    BY <1>3 DEF ProbeHost, FinishScan
  <2>2. TablesOK' /\ InboxOK' /\ ModeOK'
    BY <1>1, <2>1, PartsKept DEF others, store, counters
  <2>3. ScanOK' /\ SavingOK'
    <3>1. phase' # "saving"
      BY <1>1, <1>3, SavingAlone DEF others
    <3> QED
      BY <1>3, <3>1, ProbeHostOK, FinishScanOK, NothingToSave
  <2> QED
    BY <1>2, <2>2, <2>3
<1>4. ASSUME NEW p \in DOMAIN polls, VisitDevice(p) \/ FinishPoll(p) PROVE TerminalInv'
  <2>1. UNCHANGED <<rows, scan, task>>
    BY <1>4 DEF VisitDevice, FinishPoll, store
  <2>2. TablesOK' /\ ScanOK' /\ SavingOK'
    BY <1>1, <2>1, PartsKept DEF others
  <2>3. polls \in Seq(Polls) /\ polls[p] \in Polls
    BY DEF ModeOK
  <2>4. polls[p].todo \in Seq(Hosts)
    BY <2>3 DEF Polls
  <2>8. \A t, f : [polls[p] EXCEPT !.todo = t] = [todo |-> t, finished |-> polls[p].finished]
                  /\ [polls[p] EXCEPT !.finished = f] = [todo |-> polls[p].todo, finished |-> f]
    <3>1. PICK poll \in Polls : poll = polls[p]
      BY <2>3
    <3>2. \A t, f : [poll EXCEPT !.todo = t] = [todo |-> t, finished |-> poll.finished]
                   /\ [poll EXCEPT !.finished = f] = [todo |-> poll.todo, finished |-> f]
      BY DEF Polls
    <3> QED
      BY <3>1, <3>2
  <2>5. polls' \in Seq(Polls) /\ Len(polls') = Len(polls)
    <3>1. CASE VisitDevice(p)
      <4>1. polls' = [polls EXCEPT ![p] = [todo |-> Tail(polls[p].todo), finished |-> polls[p].finished]]
        <5>1. polls' = [polls EXCEPT ![p] = [polls[p] EXCEPT !.todo = Tail(polls[p].todo)]]
          BY <3>1 DEF VisitDevice
        <5>2. [polls[p] EXCEPT !.todo = Tail(polls[p].todo)]
                = [todo |-> Tail(polls[p].todo), finished |-> polls[p].finished]
          BY <2>8
        <5> QED
          BY <5>1, <5>2
      <4>2. Tail(polls[p].todo) \in Seq(Hosts)
        BY <2>4, <3>1 DEF VisitDevice
      <4>3. [todo |-> Tail(polls[p].todo), finished |-> polls[p].finished] \in Polls
        BY <2>3, <4>2 DEF Polls
      <4> QED
        BY <2>3, <4>1, <4>3
    <3>2. CASE FinishPoll(p)
      <4>1. polls' = [polls EXCEPT ![p] = [todo |-> polls[p].todo, finished |-> TRUE]]
        <5>1. polls' = [polls EXCEPT ![p] = [polls[p] EXCEPT !.finished = TRUE]]
          BY <3>2 DEF FinishPoll
        <5>2. [polls[p] EXCEPT !.finished = TRUE] = [todo |-> polls[p].todo, finished |-> TRUE]
          BY <2>8
        <5> QED
          BY <5>1, <5>2
      <4>2. [todo |-> polls[p].todo, finished |-> TRUE] \in Polls
        BY <2>4 DEF Polls
      <4> QED
        BY <2>3, <4>1, <4>2
    <3> QED
      BY <1>4, <3>1, <3>2
  <2>6. ModeOK'
    BY <1>1, <2>1, <2>5 DEF ModeOK, others
  <2>7. InboxOK'
    <3>1. CASE UNCHANGED <<recorded, channel, raised>>
      BY <1>1, <3>1, PartsKept DEF others
    <3>2. CASE VisitDevice(p) /\ Publish(Head(polls[p].todo))
      <4>1. Head(polls[p].todo) \in Hosts
        BY <2>4, <3>2 DEF VisitDevice
      <4> QED
        BY <1>1, <3>2, <4>1, PublishOK DEF others
    <3> QED
      BY <1>4, <3>1, <3>2 DEF VisitDevice, FinishPoll, store, counters
  <2> QED
    BY <1>2, <2>2, <2>6, <2>7
<1>5. CASE BackgroundAlert
  <2>1. PICK host \in ToSet(rows) : Publish(host)
    BY <1>5 DEF BackgroundAlert
  <2>2. host \in Hosts
    BY <2>1 DEF TablesOK, ToSet
  <2>3. UNCHANGED <<rows, tasks>>
    BY <1>5 DEF BackgroundAlert
  <2>4. InboxOK'
    BY <1>1, <2>1, <2>2, PublishOK DEF others
  <2> QED
    BY <1>1, <1>2, <2>3, <2>4, PartsKept DEF others, tasks
<1>6. ASSUME NEW h \in Hosts, RegisterElsewhere(h) PROVE TerminalInv'
  <2>1. rows' = Append(rows, h) /\ h \notin ToSet(rows) /\ UNCHANGED <<recorded, channel, tasks, raised>>
    BY <1>6 DEF RegisterElsewhere
  <2>2. rows \in Seq(Hosts) /\ IsInjective(rows)
    BY DEF TablesOK
  <2>3. rows' \in Seq(Hosts) /\ IsInjective(rows') /\ ToSet(rows') = ToSet(rows) \cup {h}
    BY <1>6, <2>1, <2>2, AppendedIs
  <2>4. TablesOK'
    BY <1>1, <2>3 DEF TablesOK, others
  <2>5. SavingOK'
    BY <1>1, <2>1, <2>3 DEF SavingOK, others, tasks
  <2> QED
    BY <1>1, <1>2, <2>1, <2>4, <2>5, PartsKept DEF others, tasks
<1> QED
  BY <1>3, <1>4, <1>5, <1>6

LEMMA TypesStep == TerminalInv /\ [Next]_vars => TerminalInv'
<1> SUFFICES ASSUME TerminalInv, [Next]_vars PROVE TerminalInv'
  OBVIOUS
<1>1. CASE UNCHANGED vars
  BY <1>1, PartsKept DEF vars, TerminalInv, store, view, inbox, tasks, counters
<1>2. CASE Next
  BY <1>2, TakeScanTypes, SaveFoundTypes, PollFoundTypes, TakePollTypes, ReceiveAlertTypes, RefreshTypes, KeyTypes, OthersTypes,
     RemoveElsewhereOK DEF Next, Loop
<1> QED
  BY <1>1, <1>2

\* The types hold for any range, tabs, texts and limits: in particular no host is in the
\* devices table twice, whatever is registered by scans and elsewhere, the cursor of the
\* form is within its field, the selected port is one of those shown, and the mode
\* "polling" always has a poll.
THEOREM TypeCorrect == Spec => []TypeOK
<1>1. TerminalInv => TypeOK
  <2> SUFFICES ASSUME TerminalInv PROVE TypeOK
    OBVIOUS
  <2>1. form.cursor \in 0 .. TextLen /\ form.field \in 0 .. 2
    <3>1. form.cursor \in Nat /\ form.field \in 0 .. 2 /\ form.len \in [1 .. 2 -> Nat] /\ form.cursor <= TextLen
      BY DEF TerminalInv, FormOK
    <3>2. TextLen \in Nat
      BY <3>1 DEF TextLen
    <3> QED
      BY <3>1, <3>2
  <2> QED
    BY <2>1 DEF TerminalInv, TablesOK, InboxOK, ViewOK, ModeOK, ScanOK, TypeOK
<1> QED
  BY <1>1, TypesAtFirst, TypesStep, PTL DEF Spec

\* No host of a scan is left out, and none that answered is left unregistered or without
\* its first poll, unless its own save failed or another process has removed it: start_scan
\* and the scanning mode of src/ui/tui.rs, for any range and any number of threads.
THEOREM ScansAreTakenOver == Spec => ScanRegistersAndPolls
<1> DEFINE TakenOver ==
      mode = "scanning" /\ mode' \in {"polling", "normal"} =>
        /\ scan.probed = ToSet(scan.range)
        /\ ToSet(scan.found) \subseteq ToSet(rows) \cup scan.missing
        /\ mode' = "polling" => ToSet(scan.found) \cap ToSet(rows) \subseteq ToSet(polls'[task'].todo)
<1>1. TerminalInv /\ [Next]_vars => [TakenOver]_vars
  <2> SUFFICES ASSUME TerminalInv, [Next]_vars, mode = "scanning", mode' \in {"polling", "normal"}
               PROVE  TakenOver
    OBVIOUS
  <2>1. CASE PollFound
    <3>0. phase = "saving" /\ phase' = "tasks" /\ scan.unsaved = <<>> /\ rows \in Seq(Hosts)
      BY <2>1 DEF PollFound, TerminalInv, TablesOK
    <3>1. ToSet(scan.found) \subseteq ToSet(rows) \cup scan.missing
      <4>1. ToSet(<<>>) = {}
        BY DEF ToSet
      <4> QED
        BY <3>0, <4>1 DEF TerminalInv, SavingOK
    <3>2. scan.probed = ToSet(scan.range)
      <4>1. scan.finished
        BY <3>0 DEF TerminalInv, SavingOK
      <4>2. \A i \in DOMAIN scan.todo : scan.todo[i] = <<>>
        BY <4>1 DEF TerminalInv, ScanOK
      <4>3. ContentOf(scan.todo) = {}
        BY <4>2, NothingHeld
      <4> QED
        BY <4>3 DEF TerminalInv, ScanOK
    <3>3. ASSUME mode' = "polling" PROVE polls'[task'].todo = rows
      <4>1. StartPoll(rows)
        BY <2>1, <3>3 DEF PollFound
      <4> QED
        BY <3>0, <4>1, StartPollOK DEF TerminalInv
    <3> QED
      BY <3>1, <3>2, <3>3
  <2>2. CASE Keys
    BY <2>2, KeyTypes
  <2>3. ASSUME ~PollFound, ~Keys PROVE mode' = mode
    BY <2>3 DEF Next, Loop, TakeScan, SaveFound, TakePoll, PollDone, LoadFails, ReceiveAlert, Refresh, ProbeHost, FinishScan,
       VisitDevice, FinishPoll, BackgroundAlert, RegisterElsewhere, RemoveElsewhere, others, vars
  <2> QED
    BY <2>1, <2>2, <2>3
<1> QED
  BY <1>1, TypesAtFirst, TypesStep, PTL DEF Spec, ScanRegistersAndPolls

\* However alerts come in, the selected one stays selected until it falls off the end:
\* alert_idx in the receiving loop of run_app of src/ui/tui.rs, for any limit.
THEOREM SelectionFollowsItsAlert == Spec => SelectedAlertStays
<1> DEFINE Stays == phase' = "receive" /\ picked < Len(alerts) /\ picked + 1 < AlertLimit
                      => alerts'[picked' + 1] = alerts[picked + 1]
<1>1. TerminalInv /\ [Next]_vars => [Stays]_vars
  <2> SUFFICES ASSUME TerminalInv, Next, phase' = "receive", picked < Len(alerts), picked + 1 < AlertLimit
               PROVE  alerts'[picked' + 1] = alerts[picked + 1]
    OBVIOUS
  <2>1. CASE ReceiveAlert
    BY <2>1, ReceiveAlertTypes
  <2>2. CASE Keys \/ TakeScan \/ PollFound \/ TakePoll \/ Refresh \/ LoadFails
    <3>1. phase' # "receive"
      BY <2>2 DEF Keys, NoKey, OpenFilter, Quit, ChangeTab, ShowTraffic, LeaveTraffic, Page,
         PagePanics, ClearFilter, SelectDevice, SelectPort, SelectAlert, OpenDetails,
         OpenNotifications, Close, TypeFilter, PollNow, OpenForm, EditForm, StartScan, Key,
         TakeScan, PollFound, TakePoll, PollDone, Refresh, LoadFails
    <3> QED
      BY <3>1
  <2>3. ASSUME ~ReceiveAlert, ~Keys, ~TakeScan, ~PollFound, ~TakePoll, ~Refresh, ~LoadFails
        PROVE  UNCHANGED <<alerts, picked>>
    BY <2>3 DEF Next, Loop, SaveFound, ProbeHost, FinishScan, VisitDevice, FinishPoll,
       BackgroundAlert, RegisterElsewhere, RemoveElsewhere, others, inbox
  <2> QED
    BY <2>1, <2>2, <2>3
<1> QED
  BY <1>1, TypesAtFirst, TypesStep, PTL DEF Spec, SelectedAlertStays
=============================================================================
