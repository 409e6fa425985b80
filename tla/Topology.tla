------------------------------ MODULE Topology ------------------------------
(***************************************************************************)
(* Topology discovery: discover_topology_once and its callers in           *)
(* src/web/server.rs, and the normalisers of src/snmp/topology.rs.  One    *)
(* thread walks eight tables of the seed device, one after the other, and  *)
(* draws the neighbours it makes out of them.                              *)
(*                                                                         *)
(* A walk is the plain one of SnmpWalk: a beginning of the table, since    *)
(* every error ends it without a word.  Columns come one after the other,  *)
(* so that a neighbour may be collected with some of its columns only.     *)
(* Identifiers and names are strings, "none" stands for no value; what is  *)
(* not UTF-8, and the decoding of addresses, is left out.                  *)
(***************************************************************************)
EXTENDS Integers, Sequences, FiniteSets, SequencesExt, Places

CONSTANTS
  Worlds,      \* seed devices: their tables, and on which interface each LLDP port is
  Macs,        \* the identifiers of six bytes
  Databases,   \* what may be registered: devices, and the health of their ports
  NodeLimits,  \* WebLimits::max_devices, 0 for none
  MaxLosses    \* bound: how many of the walks may be cut short

ASSUME TopologyAssumption == NodeLimits \subseteq Nat /\ MaxLosses \in Nat

\* The remote tables are indexed by time mark, local port and row, and by interface and row;
\* no two rows have the same index, and a row is there by what one of its columns says.
ASSUME WorldAssumption ==
  \A w \in Worlds :
    /\ w.ifs \in Seq(ToSet(w.ifs)) /\ \A i, j \in DOMAIN w.ifs : w.ifs[i].key = w.ifs[j].key => i = j
    /\ w.ports \in Seq(ToSet(w.ports)) /\ \A i, j \in DOMAIN w.ports : w.ports[i].key = w.ports[j].key => i = j
    /\ w.lldp \in Seq(ToSet(w.lldp)) /\ \A i \in DOMAIN w.lldp : w.lldp[i].key \in [1 .. 3 -> Nat]
    /\ w.addresses \in Seq(ToSet(w.addresses))
    /\ w.cdp \in Seq(ToSet(w.cdp)) /\ \A i \in DOMAIN w.cdp : w.cdp[i].key \in [1 .. 2 -> Nat]
    /\ \A i, j \in DOMAIN w.lldp : w.lldp[i].key = w.lldp[j].key => i = j
    /\ \A i, j \in DOMAIN w.cdp : w.cdp[i].key = w.cdp[j].key => i = j
    /\ \A i \in DOMAIN w.lldp : \E c \in {"chassisSubtype", "chassis", "portSubtype", "port", "host"} : w.lldp[i][c] # "none"
    /\ \A i \in DOMAIN w.cdp : \E c \in {"addr", "host", "port"} : w.cdp[i][c] # "none"

Seed == "seed"
InterfaceColumns == <<"name", "descr", "alias", "phys">>
PortColumns      == <<"subtype", "id", "desc">>
LldpColumns      == <<"chassisSubtype", "chassis", "portSubtype", "port", "host">>
CdpColumns       == <<"addr", "host", "port">>
NoIndex          == 0

\* The walks in their order: the table of the world, and the columns they visit.
Walks == <<[of |-> "ifs", columns |-> <<"name">>], [of |-> "ifs", columns |-> <<"descr">>],
           [of |-> "ifs", columns |-> <<"alias">>], [of |-> "ifs", columns |-> <<"phys">>],
           [of |-> "ports", columns |-> PortColumns], [of |-> "lldp", columns |-> LldpColumns],
           [of |-> "addresses", columns |-> <<"addr">>], [of |-> "cdp", columns |-> CdpColumns]>>

VARIABLES
  world,     \* the seed device
  next,      \* the walk that comes next, or what follows the last one
  got,       \* the varbinds of each table so far
  losses,    \* bound: walks cut short so far
  database,  \* what the repository held when it was asked
  report     \* the answer

topologyVars == <<world, next, got, losses, database, report>>

NoReport == [nodes |-> <<>>, edges |-> <<>>, total |-> 0, hidden |-> 0]

TopologyInit ==
  /\ world \in Worlds /\ next = 1 /\ losses = 0
  /\ got = [t \in {"ifs", "ports", "lldp", "addresses", "cdp"} |-> <<>>]
  /\ database = {} /\ report = NoReport

-----------------------------------------------------------------------------
\* The varbinds of a table in the order of their OIDs: one column after the other.
Varbinds(table, columns) ==
  LET rows == Len(table)
      cells == [n \in 1 .. rows * Len(columns) |->
                  LET c == columns[((n - 1) \div rows) + 1]
                      r == table[((n - 1) % rows) + 1]
                  IN  [col |-> c, key |-> r.key, value |-> r[c]]]
  IN  EntriesAt(cells, {n \in DOMAIN cells : cells[n].value # "none"})

Cell(varbinds, key, column) ==
  LET hits == {v \in ToSet(varbinds) : v.key = key /\ v.col = column}
  IN  IF hits = {} THEN "none" ELSE (CHOOSE v \in hits : TRUE).value

Precedes(k, l) == \E i \in DOMAIN k : k[i] < l[i] /\ \A j \in 1 .. i - 1 : k[j] = l[j]
Keys(varbinds) == {v.key : v \in ToSet(varbinds)}
Rank(keys, k)  == Cardinality({l \in keys : l = k \/ Precedes(l, k)})
Ordered(keys)  == [n \in 1 .. Cardinality(keys) |-> CHOOSE k \in keys : Rank(keys, k) = n]

Text(value)   == IF value = "" THEN "none" ELSE value
Same(a, b)    == a \notin {"none", ""} /\ a = b
Or(a, b)      == IF a = "none" THEN b ELSE a

\* The interfaces that the LLDP port p may be.
Candidates(g, p) ==
  LET port(c)  == Cell(g.ports, <<p>>, c)
      field    == [alias |-> "alias", mac |-> "phys", name |-> "name"]
      byId(k)  == port("subtype") \in DOMAIN field
                    /\ Same(port("id"), Cell(g.ifs, k, field[port("subtype")]))
      byText(k) == \E c \in {"name", "descr"} : Same(port("desc"), Cell(g.ifs, k, c))
  IN  {k[1] : k \in {k \in Keys(g.ifs) : byId(k) \/ byText(k)}}

\* Mutant of LocalIndex: the first of several will do.
LocalIndexFirst(candidates) ==
  IF candidates # {} THEN CHOOSE i \in candidates : \A j \in candidates : i <= j ELSE NoIndex

\* resolve_local_port: the only candidate there is.
LocalIndex(candidates) ==
  IF Cardinality(candidates) = 1 THEN CHOOSE i \in candidates : TRUE ELSE NoIndex

\* The first management address of a neighbour that can be read.
AddressOf(g, key) ==
  LET readable == {i \in DOMAIN g.addresses : g.addresses[i].key = key /\ g.addresses[i].value # "bad"}
  IN  IF readable = {} THEN "none" ELSE g.addresses[Earliest(readable)].value

LldpEdge(g, key) ==
  [protocol |-> {"LLDP"}, index |-> LocalIndex(Candidates(g, key[2])),
   ip   |-> AddressOf(g, key),
   host |-> Or(Text(Cell(g.lldp, key, "host")), Cell(g.lldp, key, "chassis")),
   port |-> Cell(g.lldp, key, "port")]

CdpEdge(g, key) ==
  [protocol |-> {"CDP"}, index |-> key[1],
   ip   |-> LET a == Cell(g.cdp, key, "addr") IN IF a = "bad" THEN "none" ELSE a,
   host |-> Text(Cell(g.cdp, key, "host")), port |-> Cell(g.cdp, key, "port")]

\* remote_node_id: the node an edge leads to.
TargetOf(edge, position) ==
  CASE edge.ip # "none" -> <<"ip", edge.ip>>
    [] edge.ip = "none" /\ edge.host \notin {"none", ""} -> <<"name", edge.host>>
    [] OTHER -> <<"unknown", ToString(position)>>

\* An edge is labelled with the ifName of its local port, or with nothing.
Placed(g, edge, position) ==
  [protocol |-> edge.protocol, index |-> edge.index, ip |-> edge.ip, host |-> edge.host,
   port |-> edge.port, target |-> TargetOf(edge, position), health |-> "Healthy",
   label |-> Cell(g.ifs, <<edge.index>>, "name")]

\* The neighbours of both protocols.
Neighbors(g) ==
  LET lldp == Ordered(Keys(g.lldp))
      cdp  == Ordered(Keys(g.cdp))
  IN  [i \in 1 .. Len(lldp) |-> Placed(g, LldpEdge(g, lldp[i]), i - 1)]
        \o [i \in 1 .. Len(cdp) |-> Placed(g, CdpEdge(g, cdp[i]), Len(lldp) + i - 1)]

\* Mutant of Duplicates: the remote port alone decides.
DuplicatesByPort(e, f) == f.port \notin {"none", ""} /\ e.port = f.port

Duplicates(e, f) == f.port \notin {"none", ""} /\ e.target = f.target /\ e.port = f.port

\* The first value there is, of some edges in their order.
FirstKnown(edges, places, field, nothing) ==
  LET known == {i \in places : edges[i][field] # nothing}
  IN  IF known = {} THEN nothing ELSE edges[Earliest(known)][field]

\* What the edge at a place becomes when those like it have joined it.
Joined(edges, i) ==
  LET alike == {i} \cup {j \in DOMAIN edges : j > i /\ Duplicates(edges[i], edges[j])}
      e     == edges[i]
  IN  [protocol |-> UNION {edges[j].protocol : j \in alike}, health |-> e.health,
       target |-> e.target, port |-> e.port,
       index |-> FirstKnown(edges, alike, "index", NoIndex),
       label |-> FirstKnown(edges, alike, "label", "none"),
       ip    |-> FirstKnown(edges, alike, "ip", "none"),
       host  |-> FirstKnown(edges, alike, "host", "none")]

\* merge_duplicate_edges: an edge joins the first one with its target and remote port.
Merged(edges) ==
  EntriesAt([i \in DOMAIN edges |-> Joined(edges, i)],
            {i \in DOMAIN edges : \A j \in 1 .. i - 1 : ~Duplicates(edges[j], edges[i])})

-----------------------------------------------------------------------------
SeedNode == [id |-> <<"ip", Seed>>, ip |-> Seed, host |-> "none", kind |-> "switch"]

\* rebuild_nodes: the seed, then every target once, a switch if two edges lead to it.
NodesOf(edges) ==
  LET degree(e) == Cardinality({i \in DOMAIN edges : edges[i].target = e.target})
      nodes == [i \in DOMAIN edges |->
                  [id |-> edges[i].target, ip |-> edges[i].ip, host |-> edges[i].host,
                   kind |-> IF degree(edges[i]) >= 2 THEN "switch" ELSE "endpoint"]]
      new   == {i \in DOMAIN edges : /\ edges[i].target # SeedNode.id
                                     /\ \A j \in 1 .. i - 1 : edges[j].target # edges[i].target}
  IN  <<SeedNode>> \o EntriesAt(nodes, new)

\* enrich_topology_nodes: what is registered under the node's address.
Enriched(node, db) ==
  LET known == {d \in db : d.ip = node.ip}
  IN  IF known = {} THEN node
      ELSE LET d == CHOOSE d \in known : TRUE
           IN  [node EXCEPT !.host = Or(@, Text(d.name)),
                            !.kind = IF d.type \in {"switch", "router", "firewall"} THEN "switch" ELSE @]

\* evaluate_port_health of the differences of a port.
PortHealth(delta) ==
  CASE delta.inErrors >= 50 -> "Critical"
    [] delta.inErrors \in 1 .. 49 \/ (delta.inErrors = 0 /\ delta.others > 0) -> "Warning"
    [] OTHER -> "Healthy"

\* annotate_edge_health: the health of the local port.  Every edge starts at the seed.
Annotated(edge, db) ==
  LET ports == {p \in UNION {d.ports : d \in {d \in db : d.ip = Seed}} : p.index = edge.index}
  IN  IF edge.index = NoIndex \/ ports = {} THEN edge
      ELSE [edge EXCEPT !.health = PortHealth(CHOOSE p \in ports : TRUE)]

\* apply_node_limit: the first nodes, and the edges between them.
Limited(nodes, edges, limit) ==
  IF limit = 0 \/ Len(nodes) <= limit
  THEN [nodes |-> nodes, edges |-> edges, total |-> Len(nodes), hidden |-> 0]
  ELSE LET visible == SubSeq(nodes, 1, limit)
           ends(e) == {<<"ip", Seed>>, e.target} \subseteq {n.id : n \in ToSet(visible)}
       IN  [nodes |-> visible, edges |-> EntriesAt(edges, {i \in DOMAIN edges : ends(edges[i])}),
            total |-> Len(nodes), hidden |-> Len(nodes) - limit]

-----------------------------------------------------------------------------
\* The quality of what was collected, as sets of keys: no caller asks for it yet.
Subtypes == {"mac", "alias", "name", "local"}
Identifies(value, subtype) ==
  value \notin {"none", ""} /\ subtype \in Subtypes /\ (subtype = "mac" => value \in Macs)

RejectedRows(varbinds, port) == {k \in Keys(varbinds) : k[port] = 0 \/ k[Len(k)] = 0}

IncompleteLldp(g) ==
  {k \in Keys(g.lldp) \ RejectedRows(g.lldp, 2) :
     \/ ~Identifies(Cell(g.lldp, k, "chassis"), Cell(g.lldp, k, "chassisSubtype"))
     \/ ~Identifies(Cell(g.lldp, k, "port"), Cell(g.lldp, k, "portSubtype"))}

IncompleteCdp(g) ==
  {k \in Keys(g.cdp) \ RejectedRows(g.cdp, 1) :
     \/ Cell(g.cdp, k, "host") \in {"none", ""} \/ Cell(g.cdp, k, "port") \in {"none", ""}
     \/ Cell(g.cdp, k, "addr") = "bad"}

MalformedAddresses(g) ==
  {v \in ToSet(g.addresses) : v.key \in Keys(g.lldp) /\ v.value = "bad"}

\* The local ports that neighbours refer to, if what was collected of them is no good.
MalformedPorts(g) ==
  {v \in ToSet(g.ports) :
     /\ \E k \in Keys(g.lldp) : k[2] = v.key[1]
     /\ \/ v.col = "subtype" /\ v.value \notin Subtypes
        \/ v.col = "id" /\ ~Identifies(v.value, Cell(g.ports, v.key, "subtype"))
        \/ v.key[1] = 0}

UnresolvedPorts(g) == {k \in Keys(g.lldp) : LocalIndex(Candidates(g, k[2])) = NoIndex}

\* is_complete of the quality of each protocol.
LldpIsComplete(g) ==
  /\ RejectedRows(g.lldp, 2) \cup IncompleteLldp(g) \cup UnresolvedPorts(g) = {}
  /\ MalformedAddresses(g) = {} /\ MalformedPorts(g) = {}
CdpIsComplete(g) == RejectedRows(g.cdp, 1) \cup IncompleteCdp(g) = {}

-----------------------------------------------------------------------------
\* A walk ends with the whole table, or with the beginning it had when an answer was lost
\* (nothing, with a warning, when no session could be opened).
WalkTable ==
  /\ next <= Len(Walks)
  /\ LET w   == Walks[next]
         all == Varbinds(world[w.of], w.columns)
     IN  \E n \in 0 .. Len(all) :
           /\ n < Len(all) => losses < MaxLosses
           /\ got' = [got EXCEPT ![w.of] = @ \o SubSeq(all, 1, n)]
           /\ losses' = IF n < Len(all) THEN losses + 1 ELSE losses
  /\ next' = next + 1
  /\ UNCHANGED <<world, database, report>>

\* What is shown of the edges: their nodes with what is registered of them.
Shown(edges, db, limit) ==
  LET nodes == NodesOf(edges)
  IN  Limited([i \in DOMAIN nodes |-> Enriched(nodes[i], db)],
              [i \in DOMAIN edges |-> Annotated(edges[i], db)], limit)

\* api_discovery_topology after the walks.
Draw ==
  /\ next = Len(Walks) + 1
  /\ database' \in Databases
  /\ \E limit \in NodeLimits, edges \in {Merged(Neighbors(got))} : report' = Shown(edges, database', limit)
  /\ next' = next + 1
  /\ UNCHANGED <<world, got, losses>>

TopologyNext == WalkTable \/ Draw

TopologySpec == TopologyInit /\ [][TopologyNext]_topologyVars

-----------------------------------------------------------------------------
Drawn == next = Len(Walks) + 2
Edges == ToSet(report.edges)

\* What is drawn can be drawn: both ends of an edge are there, the seed first, no node and
\* no link twice, and hidden nodes are counted.
DrawingIsWhole ==
  /\ report.nodes[1].id = <<"ip", Seed>>
  /\ \A e \in Edges : \E n \in ToSet(report.nodes) : n.id = e.target
  /\ IsInjective([i \in DOMAIN report.nodes |-> report.nodes[i].id])
  /\ \A i, j \in DOMAIN report.edges : i # j => ~Duplicates(report.edges[i], report.edges[j])
  /\ Len(report.nodes) + report.hidden = report.total

\* A row of the device says what the edge says: the remote port, the name of the neighbour
\* and the node it leads to, all of that row.
Told(e, row, names, addresses) ==
  /\ e.port \in {row.port, "none"} /\ e.host \in names
  /\ \/ e.target \in {<<"ip", a>> : a \in addresses} \cup {<<"name", n>> : n \in names}
     \/ e.target[1] = "unknown"

ToldByLldp(e, r) ==
  Told(e, r, {Text(r.host), r.chassis, "none"}, {a.addr : a \in {a \in ToSet(world.addresses) : a.key = r.key}})
ToldByCdp(e, r) == Told(e, r, {Text(r.host), "none"}, {r.addr})

\* No edge mixes two neighbours, however the tables were cut.
NothingIsInvented ==
  \A e \in Edges :
    /\ \/ \E r \in ToSet(world.lldp) : ToldByLldp(e, r)
       \/ \E r \in ToSet(world.cdp) : ToldByCdp(e, r)
    /\ e.ip = "none" \/ e.target = <<"ip", e.ip>>

\* An edge has the remote port of a row and leads to the address it gives of the neighbour,
\* or else to the name, or else nowhere known.
Leads(e, row, names, addresses) ==
  LET nodes == {<<"ip", a>> : a \in addresses \ {"none", "bad"}}
      named == {<<"name", n>> : n \in names \ {"none", ""}}
  IN  /\ e.port = row.port
      /\ nodes # {} => e.target \in nodes
      /\ nodes = {} /\ named # {} => e.target \in named
      /\ nodes \cup named = {} => e.target[1] = "unknown"
LldpLeads(e, r) ==
  Leads(e, r, {Text(r.host), r.chassis}, {a.addr : a \in {a \in ToSet(world.addresses) : a.key = r.key}})
CdpLeads(e, r) == Leads(e, r, {Text(r.host)}, {r.addr})

\* What the device says of an LLDP port fits an interface; it is right if it fits the one
\* the port is on, or none.
Matches(port, interface) ==
  \/ port.subtype = "alias" /\ Same(port.id, interface.alias)
  \/ port.subtype = "mac" /\ Same(port.id, interface.phys)
  \/ port.subtype = "name" /\ Same(port.id, interface.name)
  \/ Same(port.desc, interface.name) \/ Same(port.desc, interface.descr)
IsRight(p) ==
  /\ p \in DOMAIN world.at
  /\ \A x \in {x \in ToSet(world.ports) : x.key = <<p>>} :
       (\E i \in ToSet(world.ifs) : Matches(x, i)) =>
         \E i \in ToSet(world.ifs) : i.key[1] = world.at[p] /\ Matches(x, i)

\* Of tables that were read to their ends every neighbour is drawn, and at the interface it
\* is connected to, or at none, if what the device says of its ports is right; a complete
\* quality means that each was found at the right one.
WholeTablesAreTrue ==
  losses = 0 =>
    /\ report.hidden = 0 =>
         /\ \A r \in ToSet(world.lldp) : \E e \in Edges : LldpLeads(e, r)
         /\ \A r \in ToSet(world.cdp) : \E e \in Edges : CdpLeads(e, r)
    /\ \A e \in Edges :
         \/ e.index = NoIndex
         \/ \E r \in ToSet(world.lldp) :
              LldpLeads(e, r) /\ (IsRight(r.key[2]) => e.index = world.at[r.key[2]])
         \/ \E r \in ToSet(world.cdp) : CdpLeads(e, r) /\ r.key[1] = e.index
    /\ LldpIsComplete(got) =>
         \A r \in ToSet(world.lldp) : IsRight(r.key[2]) =>
           \E e \in ToSet(Neighbors(got)) : ToldByLldp(e, r) /\ LldpLeads(e, r) /\ e.index = world.at[r.key[2]]

\* An edge is shown as faulty only for the local port it is at.
HealthIsOfThePort ==
  \A e \in Edges : e.health # "Healthy" =>
    \E d \in database : d.ip = Seed /\ \E p \in d.ports : p.index = e.index /\ PortHealth(p) = e.health

\* What topology discovery draws is so: it can be drawn, and nothing is invented or drawn
\* twice, however the tables were cut.
TopologyIsSound ==
  Drawn => DrawingIsWhole /\ NothingIsInvented /\ HealthIsOfThePort

\* What was collected whole is drawn whole, each neighbour at the port it is connected to
\* (normalize_lldp_neighbors, resolve_local_port, merge_duplicate_edges).
TopologyIsComplete == Drawn => WholeTablesAreTrue
=============================================================================
