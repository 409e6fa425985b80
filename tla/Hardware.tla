------------------------------ MODULE Hardware ------------------------------
(***************************************************************************)
(* The hardware sensors of a device (the ENTITY-SENSOR-MIB, the groups of  *)
(* its template, the OIDs an operator has added) and the neighbours the    *)
(* TUI lists beside its ports (src/snmp/client.rs).                        *)
(*                                                                         *)
(* A column is a function from row numbers to numbers; a sensor is shown   *)
(* under the OID of its row, <<column, row>>.  Names, types, units, labels *)
(* and probes are left out, the name filter of a group is the set of its   *)
(* rows that fit.                                                          *)
(***************************************************************************)
EXTENDS Integers, Sequences, FiniteSets, SequencesExt

CONSTANTS
  MaxRows,  \* rows a column is read for, but for the columns of a template: 64
  Wide      \* stands for 2^32

AsU32(v) == v % Wide

\* The query_table_* helpers: a lost answer ends a walk after its first row.
RowsRead(lost) == IF lost THEN 1 ELSE MaxRows

\* query_table_i64_values: rows in their order.
RowsWalked(column, lost) ==
  LET before(i) == Cardinality({j \in DOMAIN column : j < i})
  IN  [i \in {i \in DOMAIN column : before(i) < RowsRead(lost)} |-> column[i]]

EntityAlarms == {3, 4, 5}

\* query_hardware_inventory_with_session of the module: one sensor per value.
EntitySensors(d, lost) ==
  LET values   == RowsWalked(d.values, "values" \in lost.walks)
      statuses == RowsWalked(d.statuses, "statuses" \in lost.walks)
  IN  {[oid |-> <<"values", i>>, from |-> "entity", value |-> {values[i]}, kind |-> "none",
        alarm |-> i \in DOMAIN statuses /\ statuses[i] \in EntityAlarms] : i \in DOMAIN values}

Cells(column, i)  == IF i \in DOMAIN column THEN {column[i]} ELSE {}
GroupAlarms(g)    == IF g.alarms = {} THEN {2, 3, 4, 6} ELSE UNION g.alarms
StateColumn(g)    == IF g.stateAt = "" THEN <<>> ELSE g.states
\* The rows of a group: those of either column, but for those whose name does not fit or is
\* lost when there is a filter.
GroupRows(g, lost) ==
  {i \in DOMAIN g.values \cup DOMAIN StateColumn(g) :
     g.filter = {} \/ (g.named \notin lost.gets /\ i \in UNION g.filter)}

\* query_sensors_from_template, for one group: a column that is not read to its end leaves
\* the whole group out.
GroupSensors(g, lost) ==
  IF {g.valueAt, g.stateAt} \cap lost.walks # {} THEN {}
  ELSE LET state(i) == Cells(StateColumn(g), i)
           alarm(i) == state(i) \cap GroupAlarms(g) # {}
       IN  {[oid   |-> <<IF g.stateAt # "" THEN g.stateAt ELSE g.valueAt, i>>, from |-> "template",
             value |-> Cells(g.values, i), alarm |-> alarm(i),
             kind  |-> IF state(i) = {} \/ g.normals = {} THEN "none"
                       ELSE IF alarm(i) THEN "critical"
                       ELSE IF state(i) \subseteq g.normals THEN "normal" ELSE "warning"] :
              i \in GroupRows(g, lost)}

\* merge_manual_hardware_overrides, of OIDs of single values: an OID that is shown already is
\* not shown twice; one that does not answer is shown without a value.
WithManual(d, lost, sensors) ==
  LET added == {i \in DOMAIN d.manual :
                  /\ \A s \in sensors : s.oid # d.manual[i].oid
                  /\ \A j \in 1 .. i - 1 : d.manual[j].oid # d.manual[i].oid}
      sensor(o) == [oid |-> o.oid, from |-> "manual", kind |-> "none", alarm |-> FALSE,
                    value |-> IF o.at \in lost.gets THEN {} ELSE {AsU32(o.value)}]
  IN  sensors \cup {sensor(d.manual[i]) : i \in added}

\* SnmpClient::query_hardware_inventory_with_session, as the polling loop, the detail page
\* and the diagnosis use it.
Inventory(d, lost) ==
  WithManual(d, lost, EntitySensors(d, lost) \cup UNION {GroupSensors(g, lost) : g \in d.groups})

\* SnmpClient::query_hardware_inventory: the diagnosis adds the overrides once more.
DiagnosedInventory(d, lost) == WithManual(d, lost, Inventory(d, lost))

-----------------------------------------------------------------------------
\* query_device_port_neighbors: walk_oid over a whole table gives its columns one after the
\* other, ports before names in LLDP, names before ports in CDP, as far as it gets; of two
\* rows of a port, the later one counts, column by column.
TextOfPort(rows, column, got, p) ==
  LET of == {i \in 1 .. got : rows[i].port = p /\ rows[i][column] # ""}
  IN  IF of = {} THEN {} ELSE {rows[CHOOSE i \in of : \A j \in of : j <= i][column]}
Capped(n, rows) == IF n > Len(rows) THEN Len(rows) ELSE IF n < 0 THEN 0 ELSE n

NeighborsIn(rows, first, second, got) ==
  LET text(column, p) ==
        TextOfPort(rows, column, Capped(IF column = first THEN got ELSE got - Len(rows), rows), p)
      neighbor(p) == {[port |-> p, name |-> n, remote |-> text("remote", p)] : n \in text("name", p)}
  IN  UNION {neighbor(rows[i].port) : i \in DOMAIN rows}

\* LLDP's, and CDP's for the ports LLDP has none for.
PortNeighbors(d, lost) ==
  LET got(rows, table) == IF table \in lost.walks THEN d.cut ELSE 2 * Len(rows)
      lldp == NeighborsIn(d.lldp, "remote", "name", got(d.lldp, "lldp"))
      cdp  == NeighborsIn(d.cdp, "name", "remote", got(d.cdp, "cdp"))
  IN  lldp \cup {n \in cdp : \A l \in lldp : l.port # n.port}
=============================================================================
