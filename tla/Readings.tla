------------------------------ MODULE Readings ------------------------------
(***************************************************************************)
(* How one value is chosen among the many a device may give it in: the     *)
(* vendor template (src/snmp/template.rs), CPU and memory for the polling  *)
(* loop and for the diagnosis (src/snmp/client.rs), the optical power of a *)
(* port (src/snmp/dom.rs), and what Hardware says of sensors and           *)
(* neighbours.                                                             *)
(*                                                                         *)
(* Optional values are sets of at most one element.  An agent answers a    *)
(* GET of an OID or has a column under it; a lost answer leaves the GET    *)
(* without a value and cuts the walk of the column after its first row.    *)
(* Labels, units, statuses and the order of the probes are left out, and   *)
(* so is the arithmetic of decibels.                                       *)
(***************************************************************************)
EXTENDS Hardware, Places

CONSTANTS
  Cases,     \* the devices and the configurations that are looked at
  LossSets,  \* which answers are lost: the OIDs whose GET is, and whose walk is
  MaxDepth   \* how far a sensor may be below its port

ASSUME ReadingAssumption == Wide \in Nat \ (0 .. 100) /\ MaxDepth \in Nat /\ MaxRows \in Nat \ {0}

IsOptional(a, S) == a \subseteq S /\ \A v, w \in a : v = w
IsList(s)        == s \in Seq(ToSet(s))

\* What devices and templates look like: numbers under OIDs, tables that end, memory counted
\* in natural numbers, one bundled template without a selector, in front.
ASSUME CaseAssumption ==
  \A c \in Cases :
    /\ c.kind \in {"cpu", "memory"} =>
         /\ \A o \in DOMAIN c.answers :
              IsOptional(c.answers[o].scalar, Int) /\ c.answers[o].column \in Seq(Int)
         /\ c.override \subseteq DOMAIN c.answers
    /\ c.kind = "cpu" => c.candidates \in Seq(DOMAIN c.answers) /\ c.standard \in DOMAIN c.answers
    /\ c.kind = "memory" =>
         /\ IsList(c.sources) /\ \A s \in ToSet(c.sources) :
              /\ {s.used, s.free, s.total} \subseteq DOMAIN c.answers \cup {""}
              /\ s.mode = "direct" => s.oid \in DOMAIN c.answers
         /\ IsList(c.storage) /\ \A row \in ToSet(c.storage) : \A column \in {"units", "size", "used"} :
              IsOptional(row[column], Nat)
    /\ c.kind = "dom" => IsFiniteSet(c.sensors) /\ IsFiniteSet(c.aliases)
    /\ c.kind = "hardware" =>
         /\ DOMAIN c.values \cup DOMAIN c.statuses \subseteq Nat
         /\ IsFiniteSet(DOMAIN c.values) /\ IsFiniteSet(DOMAIN c.statuses) /\ IsList(c.manual)
    /\ c.kind = "neighbors" => IsList(c.lldp) /\ IsList(c.cdp) /\ c.cut \in Nat
    /\ c.kind = "template" =>
         /\ IsList(c.bundled) /\ c.bundled # <<>> /\ c.bundled[1].selector = <<>> /\ IsList(c.custom)
         /\ \A t \in ToSet(c.bundled) \cup ToSet(c.custom) : t.selector \in Seq(Nat)

VARIABLES
  case,      \* what is looked at
  polled,    \* what the polling loop made of it
  diagnosed  \* what the diagnosis made of it

readingVars == <<case, polled, diagnosed>>

ReadingsInit == case \in Cases /\ polled = <<>> /\ diagnosed = <<>>

OrElse(a, b) == IF a # {} THEN a ELSE b
The(a)       == CHOOSE v \in a : TRUE
\* find_map: the first of some optional values that is there.
FirstOf(options) ==
  LET some == {i \in DOMAIN options : options[i] # {}}
  IN  IF some = {} THEN {} ELSE options[Earliest(some)]
Greatest(s)  == CHOOSE v \in s : \A w \in s : w <= v

-----------------------------------------------------------------------------
\* TemplateRegistry::load: custom templates in the order of their files.  One without a
\* selector is dropped, of two with the same selector the second; one with the selector of
\* a bundled template takes its place.
Loaded(bundled, custom) ==
  LET kept == {j \in DOMAIN custom :
                 /\ custom[j].selector # <<>>
                 /\ \A k \in 1 .. j - 1 : custom[k].selector # custom[j].selector}
      for(t) == {j \in kept : custom[j].selector = t.selector}
      new == {j \in kept : \A i \in DOMAIN bundled : j \notin for(bundled[i])}
  IN  [i \in DOMAIN bundled |-> IF for(bundled[i]) = {} THEN bundled[i] ELSE custom[The(for(bundled[i]))]]
        \o EntriesAt(custom, new)

\* Mutant of Selected: the first template that fits.
SelectedFirst(registry, oid) ==
  LET fits == {i \in DOMAIN registry :
                 registry[i].selector # <<>> /\ IsPrefix(registry[i].selector, oid)}
  IN  IF fits = {} THEN registry[1] ELSE registry[CHOOSE i \in fits : \A j \in fits : i <= j]

\* TemplateRegistry::select: the longest selector the object id begins with, or the
\* generic template.
Selected(registry, oid) ==
  LET fits == {i \in DOMAIN registry :
                 registry[i].selector # <<>> /\ IsPrefix(registry[i].selector, oid)}
  IN  IF fits = {} THEN registry[1]
      ELSE registry[CHOOSE i \in fits :
             \A j \in fits : Len(registry[j].selector) <= Len(registry[i].selector)]

-----------------------------------------------------------------------------
\* query_u32 and query_numeric_value of one OID.
Got(d, lost, oid)  == IF oid \in lost.gets THEN {} ELSE d.answers[oid].scalar
GotU32(d, lost, oid) == {AsU32(v) : v \in Got(d, lost, oid)}

\* The rows of a column; the helpers that walk hrProcessorLoad, hrStorage and overrides take
\* what they have got when an answer is lost or their rows are used up, template columns are
\* an error then.
RowsGot(d, lost, oid) ==
  LET all == d.answers[oid].column
      most == RowsRead(oid \in lost.walks)
  IN  IF Len(all) > most THEN SubSeq(all, 1, most) ELSE all

\* query_table_first_u32 after query_u32.
WithTableFallback(d, lost, oid) ==
  OrElse(GotU32(d, lost, oid),
         LET rows == RowsGot(d, lost, oid) IN IF rows = <<>> THEN {} ELSE {AsU32(rows[1])})

Sum(rows) == FoldLeft(LAMBDA sum, v : sum + AsU32(v), 0, rows)
TableAverage(d, lost, oid) ==
  LET rows == RowsGot(d, lost, oid) IN IF rows = <<>> THEN {} ELSE {Sum(rows) \div Len(rows)}

Percentage(v) == v \in 0 .. 100

\* query_template_percentage: a number is an answer, be it a percentage or not.
TemplatePercentage(d, lost, oid, aggregation) ==
  LET rows  == d.answers[oid].column
      shown == {i \in DOMAIN rows : Percentage(rows[i])}
  IN  CASE Got(d, lost, oid) # {} -> {v \in Got(d, lost, oid) : Percentage(v)}
        [] Got(d, lost, oid) = {} /\ (oid \in lost.walks \/ shown = {}) -> {}
        [] OTHER -> {IF aggregation = "first" THEN rows[Earliest(shown)] ELSE Greatest({rows[i] : i \in shown})}

TemplateCpu(d, lost) ==
  FirstOf([i \in DOMAIN d.candidates |->
             TemplatePercentage(d, lost, d.candidates[i], d.aggregation)])

\* query_cpu_usage: what the polling loop shows.
PolledCpu(d, lost) ==
  OrElse({v \in UNION {GotU32(d, lost, o) : o \in d.override} : v <= 100},
         OrElse(TemplateCpu(d, lost), TableAverage(d, lost, d.standard)))

\* diagnose_device: what the diagnosis shows.
DiagnosedCpu(d, lost) ==
  OrElse({v \in UNION {WithTableFallback(d, lost, o) : o \in d.override} : v <= 100},
         OrElse(TemplateCpu(d, lost), {v \in TableAverage(d, lost, d.standard) : v <= 100}))

-----------------------------------------------------------------------------
\* A column of a template's memory source, by row; a single number is row 0.
SourceColumn(d, lost, oid) ==
  LET rows == d.answers[oid].column
  IN  IF oid = "" THEN <<>>
      ELSE IF Got(d, lost, oid) # {}
           THEN [i \in {0 : v \in {v \in Got(d, lost, oid) : v >= 0}} |-> The(Got(d, lost, oid))]
           ELSE [i \in {i \in DOMAIN rows : rows[i] >= 0} |-> rows[i]]

SourceFails(d, lost, source) ==
  \E oid \in {source.used, source.free, source.total} \ {""} :
    Got(d, lost, oid) = {} /\ oid \in lost.walks

Rounded(used, capacity) == (200 * used + capacity) \div (2 * capacity)

\* query_template_memory_source: the row with the largest capacity, the last of several.
SourceReading(d, lost, source) ==
  LET used  == SourceColumn(d, lost, source.used)
      free  == SourceColumn(d, lost, source.free)
      total == SourceColumn(d, lost, source.total)
      capacity(i) == IF i \in DOMAIN free THEN used[i] + free[i]
                     ELSE IF i \in DOMAIN total THEN total[i] ELSE 0
      fit == {i \in DOMAIN used : capacity(i) > 0 /\ used[i] <= capacity(i)}
      row == CHOOSE i \in fit : \A j \in fit : capacity(j) < capacity(i) \/ (capacity(j) = capacity(i) /\ j <= i)
  IN  CASE source.mode = "direct" ->
             {[percent |-> v, bytes |-> {}, row |-> 0] :
                v \in TemplatePercentage(d, lost, source.oid, source.aggregation)}
        [] source.mode # "direct" /\ (SourceFails(d, lost, source) \/ fit = {}) -> {}
        [] OTHER -> {[percent |-> Rounded(used[row], capacity(row)), row |-> row,
                      bytes |-> IF source.bytes THEN {used[row]} ELSE {}]}

\* Where a value comes from is kept beside it, as history.
From(value, where) == {[value |-> v, from |-> where] : v \in value}

RamRows(d) == {i \in DOMAIN d.storage : d.storage[i].ram}
Least(s)   == CHOOSE v \in s : \A w \in s : v <= w
\* A cell of hrStorageTable as a walk of its column has it.
Walked(d, lost, i, column) == IF i > RowsRead(column \in lost.walks) THEN {} ELSE d.storage[i][column]
Fetched(d, lost, i, column) == IF column \in lost.gets THEN {} ELSE d.storage[i][column]

\* query_hr_storage_memory_used_and_total: the first row of RAM, counted in single bytes if
\* its units are not known.
StorageUsage(d, lost) ==
  LET seen == {i \in RamRows(d) : i <= RowsRead("types" \in lost.walks)}
      row  == Least(seen)
      units == IF Walked(d, lost, row, "units") = {} THEN 1 ELSE The(Walked(d, lost, row, "units"))
      used == Walked(d, lost, row, "used")
      size == Walked(d, lost, row, "size")
  IN  IF seen = {} \/ used = {} \/ size = {} THEN {}
      ELSE IF The(size) * units = 0 THEN {}
      ELSE LET util == Rounded(The(used) * units, The(size) * units)
           IN  From({IF util > 100 THEN 100 ELSE util}, <<"storage", row>>)

\* query_hr_storage_memory_used_bytes: the first row of RAM whose cells are all there.
StorageBytes(d, lost) ==
  LET whole == {i \in RamRows(d) :
                  /\ i <= RowsRead("types" \in lost.walks)
                  /\ \E v \in Fetched(d, lost, i, "units") : v > 0
                  /\ Fetched(d, lost, i, "used") # {}}
      row == Least(whole)
  IN  IF whole = {} THEN {}
      ELSE From({The(d.storage[row].units) * The(d.storage[row].used)}, <<"storage", row>>)

\* diagnose_memory_candidates, which the polling loop uses too.
MemoryUsage(d, lost) ==
  LET override == {v \in UNION {WithTableFallback(d, lost, o) : o \in d.override} : v <= 100}
      source(k) == UNION {From({r.percent}, <<"source", k, r.row>>) :
                            r \in SourceReading(d, lost, d.sources[k])}
      tried(k)  == d.sources[k].mode # "" \/ d.sources[k].used # ""
  IN  OrElse(From(override, <<"override">>),
             OrElse(FirstOf([k \in DOMAIN d.sources |-> IF tried(k) THEN source(k) ELSE {}]),
                    StorageUsage(d, lost)))

\* diagnose_memory_bytes_candidates: the same override is taken for bytes.
MemoryBytes(d, lost) ==
  LET override == {v \in UNION {WithTableFallback(d, lost, o) : o \in d.override} : v > 0}
      source(k) == UNION {From(r.bytes, <<"source", k, r.row>>) :
                            r \in SourceReading(d, lost, d.sources[k])}
  IN  OrElse(From(override, <<"override">>),
             OrElse(FirstOf([k \in DOMAIN d.sources |-> IF d.sources[k].bytes THEN source(k) ELSE {}]),
                    StorageBytes(d, lost)))

-----------------------------------------------------------------------------
\* The port an entity stands for: the only ifIndex its alias rows name, if they name one.
AliasOf(m, e) ==
  LET named == {a[2] : a \in {a \in m.aliases : a[1] = e /\ a[2] > 0}}
  IN  IF Cardinality(named) = 1 THEN named ELSE {}
HasAlias(m, e) == \E a \in m.aliases : a[1] = e /\ a[2] > 0

\* entity_port: up the containment, at most MaxDepth steps, to the first entity that stands
\* for a port; a loop ends in nothing, as the steps run out or something is met again.
Parent(m, e) == IF e \in DOMAIN m.parents THEN m.parents[e] ELSE 0
EntityPort(m, entity) ==
  LET above[n \in 0 .. MaxDepth] == IF n = 0 THEN entity ELSE Parent(m, above[n - 1])
      reached == {n \in 0 .. MaxDepth - 1 :
                    /\ above[n] # 0 /\ HasAlias(m, above[n])
                    /\ \A k \in 0 .. n - 1 : above[k] # 0 /\ ~HasAlias(m, above[k])}
  IN  UNION {AliasOf(m, above[n]) : n \in reached}

\* join: the readings of a metric, those of named single sensors that work; two readings of
\* one port are none.
SensorsOf(m, metric, port) ==
  {s \in m.sensors : s.shows = {metric} /\ ~s.lane /\ s.works /\ port \in EntityPort(m, s.entity)}
PortPower(m, metric, port) ==
  LET readings == SensorsOf(m, metric, port)
  IN  IF Cardinality(readings) = 1 THEN {s.power : s \in readings} ELSE {}
\* query_dom of a table of entities: the power of every port that has a reading.
OpticalPower(m) ==
  [p \in {p \in UNION {EntityPort(m, s.entity) : s \in m.sensors} :
            SensorsOf(m, "rx", p) \cup SensorsOf(m, "tx", p) # {}} |->
     [rx |-> PortPower(m, "rx", p), tx |-> PortPower(m, "tx", p)]]

-----------------------------------------------------------------------------
\* One operation on what is looked at, with some answers lost; polling and diagnosis differ in
\* the CPU load and the sensors.
Read(d, lost, cpu, inventory) ==
  CASE d.kind = "cpu"      -> [lost |-> lost, value |-> cpu]
    [] d.kind = "memory"   -> [lost |-> lost, value |-> MemoryUsage(d, lost), bytes |-> MemoryBytes(d, lost)]
    [] d.kind = "hardware" -> [lost |-> lost, value |-> inventory]
    [] d.kind = "neighbors" -> [lost |-> lost, value |-> PortNeighbors(d, lost)]
    [] d.kind = "dom"      -> [lost |-> lost, value |-> OpticalPower(d)]
    [] d.kind = "template" -> [lost |-> lost, value |-> Selected(Loaded(d.bundled, d.custom), d.oid)]

Poll(lost) ==
  /\ polled = <<>> /\ polled' = <<Read(case, lost, PolledCpu(case, lost), Inventory(case, lost))>>
  /\ UNCHANGED <<case, diagnosed>>

Diagnose(lost) ==
  /\ polled # <<>> /\ diagnosed = <<>> /\ case.kind \in {"cpu", "memory", "hardware"}
  /\ diagnosed' = <<Read(case, lost, DiagnosedCpu(case, lost), DiagnosedInventory(case, lost))>>
  /\ UNCHANGED <<case, polled>>

ReadingsNext == \E lost \in LossSets : Poll(lost) \/ Diagnose(lost)

ReadingsSpec == ReadingsInit /\ [][ReadingsNext]_readingVars

-----------------------------------------------------------------------------
NothingLost(reading) == reading.lost.gets \cup reading.lost.walks = {}

\* The diagnosis of a device shows the CPU load that the polling loop shows, given the same
\* answers, but for an override that is a column and a standard load above 100.
DiagnosisExplainsPoll ==
  case.kind = "cpu" /\ diagnosed # <<>> /\ diagnosed[1].lost = polled[1].lost =>
    LET lost == polled[1].lost
    IN  \/ diagnosed[1].value = polled[1].value
        \/ \E o \in case.override : Got(case, lost, o) = {} /\ RowsGot(case, lost, o) # <<>>
        \/ /\ polled[1].value = TableAverage(case, lost, case.standard)
           /\ \E v \in polled[1].value : ~Percentage(v)

\* Percentages are percentages, but for that standard load.
PercentagesAreInRange ==
  \A r \in ToSet(polled \o diagnosed) :
    /\ case.kind = "memory" => \A u \in r.value : Percentage(u.value)
    /\ case.kind = "cpu" => \A v \in r.value :
         Percentage(v) \/ r.value = TableAverage(case, r.lost, case.standard)

\* Without an override, and of whole rows, the memory shown in percent and in bytes is that
\* of the same row, if the percentage was computed from bytes.
MemoryIsOfOneRow ==
  \A r \in ToSet(polled \o diagnosed) :
    /\ case.kind = "memory" /\ NothingLost(r) /\ case.override = {}
    /\ \A i \in RamRows(case) : {} \notin {case.storage[i].units, case.storage[i].size, case.storage[i].used}
    => \A u \in r.value :
         \/ u.from[1] = "source" /\ \E k \in DOMAIN case.sources :
              u.from[2] = k /\ (case.sources[k].mode = "direct" \/ ~case.sources[k].bytes)
         \/ \E b \in r.bytes : b.from = u.from

\* e is s or one of the entities s is contained in: the least set that holds s and the
\* parents of its members has it.
IsInside(m, e, s) ==
  LET entities == {s} \cup DOMAIN m.parents \cup {m.parents[x] : x \in DOMAIN m.parents}
  IN  \A inside \in SUBSET entities :
        s \in inside /\ (\A x \in inside \cap DOMAIN m.parents : m.parents[x] \in inside) => e \in inside

\* The power of a port is that of one sensor inside that port's entity: never that of
\* another port, nor one of several lanes or sensors.
PowerIsOfThePort ==
  case.kind = "dom" /\ polled # <<>> =>
    \A p \in DOMAIN polled[1].value : \A metric \in {"rx", "tx"} :
      \A v \in polled[1].value[p][metric] :
        \E s \in case.sensors :
          /\ s.power = v /\ s.shows = {metric} /\ ~s.lane /\ s.works
          /\ \E a \in case.aliases :
               a[2] = p /\ p > 0 /\ AliasOf(case, a[1]) = {p} /\ IsInside(case, a[1], s.entity)
          /\ \A t \in case.sensors \ {s} :
               t.shows = {metric} /\ t.works /\ ~t.lane => p \notin EntityPort(case, t.entity)

\* The template used is the most specific there is, a custom one before a bundled one.
TemplateIsTheClosest ==
  case.kind = "template" /\ polled # <<>> =>
    LET usable == {t \in ToSet(case.bundled \o case.custom) :
                     t.selector # <<>> /\ IsPrefix(t.selector, case.oid)}
        used == polled[1].value
    IN  IF usable = {} THEN used = case.bundled[1]
        ELSE /\ used \in usable /\ \A t \in usable : Len(t.selector) <= Len(used.selector)
             /\ (\E t \in ToSet(case.custom) : t.selector = used.selector) => used \in ToSet(case.custom)

\* A sensor alarms only for a row the device reports to be in alarm, and for each of these
\* when no answer is lost and the tables are short; an override hides no sensor and is
\* itself shown once; the diagnosis lists the sensors the polling loop lists.
AlarmsAreReported ==
  case.kind = "hardware" =>
    LET reported ==
          {<<"values", i>> : i \in {i \in DOMAIN case.values \cap DOMAIN case.statuses : case.statuses[i] \in EntityAlarms}}
            \cup UNION {{<<g.stateAt, i>> : i \in {i \in DOMAIN StateColumn(g) :
                            /\ g.states[i] \in GroupAlarms(g)
                            /\ g.filter = {} \/ i \in UNION g.filter}} : g \in case.groups}
    IN  /\ \A r \in ToSet(polled \o diagnosed) :
             LET alarms == {s.oid : s \in {s \in r.value : s.alarm}}
             IN  /\ alarms \subseteq reported
                 /\ NothingLost(r) /\ Cardinality(DOMAIN case.values) <= MaxRows
                      /\ Cardinality(DOMAIN case.statuses) <= MaxRows => alarms = reported
                 /\ \A o \in ToSet(case.manual) :
                      LET at == {s \in r.value : s.oid = o.oid}
                      IN  at # {} /\ ((\A s \in at : s.from # "manual") \/ Cardinality(at) = 1)
        /\ diagnosed # <<>> /\ diagnosed[1].lost = polled[1].lost => diagnosed[1].value = polled[1].value

\* A port has one neighbour; its name is one that the device gives for that port, and if the
\* table has one row for the port, the remote port is of that row or missing.
NeighborsAreOfThePort ==
  case.kind = "neighbors" /\ polled # <<>> =>
    \A n \in polled[1].value :
      LET at(rows) == {i \in DOMAIN rows : rows[i].port = n.port}
          fits(rows) == /\ \E i \in at(rows) : rows[i].name = n.name
                        /\ Cardinality(at(rows)) = 1 =>
                             n.remote \subseteq {rows[i].remote : i \in at(rows)}
      IN  /\ fits(case.lldp) \/ fits(case.cdp)
          /\ \A m \in polled[1].value : m.port = n.port => m = n
          /\ NothingLost(polled[1]) /\ (\E i \in at(case.lldp) : case.lldp[i].name # "") => fits(case.lldp)

\* Whatever a device answers, the value shown is the one the rules above name.
SelectionIsFaithful ==
  /\ DiagnosisExplainsPoll /\ PercentagesAreInRange /\ MemoryIsOfOneRow
  /\ PowerIsOfThePort /\ TemplateIsTheClosest
  /\ AlarmsAreReported /\ NeighborsAreOfThePort
=============================================================================
