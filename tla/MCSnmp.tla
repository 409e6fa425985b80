------------------------------ MODULE MCSnmp --------------------------------
\* Small devices for every kind of task.
EXTENDS SnmpCollection

\* Interfaces 11 and 12: all different; sharing alias and MAC; without ifName.
MCInterfaces ==
  {<<[key |-> <<11>>, name |-> "g1", descr |-> "d1", alias |-> "a1", phys |-> "m1"],
     [key |-> <<12>>, name |-> "g2", descr |-> "d2", alias |-> "a2", phys |-> "m2"]>>,
   <<[key |-> <<11>>, name |-> "g1", descr |-> "d", alias |-> "up", phys |-> "m1"],
     [key |-> <<12>>, name |-> "g2", descr |-> "d", alias |-> "up", phys |-> "m1"]>>,
   <<[key |-> <<11>>, name |-> "none", descr |-> "d1", alias |-> "none", phys |-> "m1"],
     [key |-> <<12>>, name |-> "none", descr |-> "d2", alias |-> "none", phys |-> "none"]>>}
MCField == [alias |-> "alias", mac |-> "phys", name |-> "name", local |-> "local", none |-> "none"]
MCPorts(ifs, subtype, described) ==
  [p \in 1..2 |->
    [key |-> <<p>>, subtype |-> subtype,
     id |-> IF subtype = "local" THEN "7" ELSE IF subtype = "none" THEN "none" ELSE ifs[p][MCField[subtype]],
     desc |-> IF described THEN ifs[p].descr ELSE ""]]
Neighbor(port, index, chassis, remote, host) ==
  [key |-> <<0, port, index>>, chassisSubtype |-> "mac", chassis |-> chassis,
   portSubtype |-> "name", port |-> remote, host |-> host]
MCNeighbors ==
  { \* one switch on two ports, seen by both protocols
    [lldp |-> <<Neighbor(1, 1, "m8", "p1", "sw"), Neighbor(2, 2, "m8", "p2", "sw")>>,
     addresses |-> <<[key |-> <<0, 1, 1>>, addr |-> "bad"], [key |-> <<0, 1, 1>>, addr |-> "ip1"],
                     [key |-> <<0, 2, 2>>, addr |-> "ip1"]>>,
     cdp |-> <<[key |-> <<11, 1>>, addr |-> "ip1", host |-> "sw", port |-> "p1"]>>],
    \* two of a kind without addresses
    [lldp |-> <<Neighbor(1, 1, "m8", "e0", "ap"), Neighbor(2, 2, "m9", "e0", "ap")>>,
     addresses |-> <<>>, cdp |-> <<[key |-> <<12, 1>>, addr |-> "bad", host |-> "ap", port |-> "e0"]>>],
    \* two behind one port, one of them without a name or a port
    [lldp |-> <<Neighbor(1, 1, "m8", "p1", ""), Neighbor(1, 2, "", "", "none")>>,
     addresses |-> <<[key |-> <<0, 1, 1>>, addr |-> "seed"]>>, cdp |-> <<>>],
    \* two names for one port of one neighbour
    [lldp |-> <<Neighbor(1, 1, "m8", "p1", "sw"), Neighbor(2, 1, "m8", "p1", "old")>>,
     addresses |-> <<[key |-> <<0, 1, 1>>, addr |-> "ip1"], [key |-> <<0, 2, 1>>, addr |-> "ip1"]>>, cdp |-> <<>>],
    \* no LLDP, or none of use
    [lldp |-> <<Neighbor(0, 1, "m8", "p1", "sw")>>, addresses |-> <<>>,
     cdp |-> <<[key |-> <<11, 1>>, addr |-> "none", host |-> "sw", port |-> "p1"],
               [key |-> <<12, 2>>, addr |-> "ip2", host |-> "", port |-> "none"]>>]}
MCWorlds ==
  {[ifs |-> i, ports |-> MCPorts(i, s, d), lldp |-> n.lldp, addresses |-> n.addresses, cdp |-> n.cdp,
    at |-> [p \in 0..2 |-> p + 10]] :
      i \in MCInterfaces, s \in {"alias", "mac", "name", "local", "none"}, d \in BOOLEAN, n \in MCNeighbors}
    \* what it says of its ports is wrong
    \cup {[ifs |-> i, ports |-> MCPorts(i, "name", FALSE), lldp |-> n.lldp, addresses |-> n.addresses, cdp |-> n.cdp,
           at |-> [p \in 0..2 |-> 13 - p]] : i \in MCInterfaces, n \in MCNeighbors}
MCDatabases ==
  {{}, {[ip |-> "seed", name |-> "core", type |-> "router", ports |-> {[index |-> 11, inErrors |-> 50, others |-> 0], [index |-> 12, inErrors |-> 0, others |-> 1]}],
        [ip |-> "ip1", name |-> "", type |-> "server", ports |-> {[index |-> 11, inErrors |-> 1, others |-> 0]}]}}
MCWide == 1000
Is(s, c) == [scalar |-> s, column |-> c]
MCCpu ==
  {[kind |-> "cpu", override |-> o, candidates |-> <<"c1", "c2">>, aggregation |-> g, standard |-> "std",
    answers |-> [ov |-> a, c1 |-> b, c2 |-> c, std |-> d]] :
      o \in {{}, {"ov"}}, g \in {"first", "max"},
      a \in {Is({}, <<>>), Is({40}, <<>>), Is({}, <<130, 20>>), Is({1040}, <<>>)},
      b \in {Is({150}, <<>>), Is({}, <<200, 30, 70>>), Is({-1}, <<5>>)},
      c \in {Is({}, <<>>), Is({10}, <<>>), Is({}, <<200>>)},
      d \in {Is({}, <<>>), Is({}, <<25, 50, 90>>), Is({}, <<120, 150>>)}}
Source(mode, used, free, total, bytes) ==
  [mode |-> mode, oid |-> "d", aggregation |-> "max", used |-> used, free |-> free, total |-> total, bytes |-> bytes]
MCStorage ==
  {<<>>, <<[ram |-> FALSE, units |-> {2}, size |-> {50}, used |-> {20}], [ram |-> TRUE, units |-> {2}, size |-> {40}, used |-> {10}]>>,
   <<[ram |-> TRUE, units |-> {2}, size |-> {40}, used |-> {50}], [ram |-> TRUE, units |-> {4}, size |-> {40}, used |-> {10}]>>,
   <<[ram |-> TRUE, units |-> {}, size |-> {40}, used |-> {10}], [ram |-> TRUE, units |-> {4}, size |-> {}, used |-> {10}]>>,
   <<[ram |-> TRUE, units |-> {0}, size |-> {40}, used |-> {10}], [ram |-> TRUE, units |-> {4}, size |-> {40}, used |-> {20}]>>,
   [i \in 1 .. 3 |-> [ram |-> i = 3, units |-> {2}, size |-> {40}, used |-> {10}]]}
MCMemory ==
  {[kind |-> "memory", override |-> o, sources |-> s, storage |-> r,
    answers |-> [ov |-> a, d |-> b, u |-> u, f |-> f, t |-> t]] :
      o \in {{}, {"ov"}}, r \in MCStorage,
      s \in {<<>>, <<Source("direct", "", "", "", FALSE), Source("ratio", "u", "f", "", TRUE)>>,
             <<Source("ratio", "u", "", "t", TRUE)>>, <<Source("", "u", "f", "", FALSE), Source("ratio", "u", "f", "t", TRUE)>>},
      a \in {Is({80}, <<>>), Is({}, <<300>>)},
      b \in {Is({150}, <<>>), Is({}, <<200, 60>>)},
      u \in {Is({30}, <<>>), Is({}, <<10, 60, 60>>), Is({}, <<-1, 20>>)},
      f \in {Is({10}, <<>>), Is({}, <<50, 40, 40>>)},
      t \in {Is({}, <<20, 200>>)}}
Sensor(e, shows, lane, works, p) == [entity |-> e, shows |-> shows, lane |-> lane, works |-> works, power |-> p]
MCSensors ==
  {Sensor(3, {"rx"}, FALSE, TRUE, -3), Sensor(3, {"tx"}, FALSE, TRUE, -2), Sensor(2, {"tx"}, FALSE, TRUE, -5),
   Sensor(4, {"rx"}, FALSE, TRUE, -7), Sensor(5, {"rx"}, FALSE, FALSE, -9), Sensor(5, {"rx"}, TRUE, TRUE, -8),
   Sensor(3, {"rx", "tx"}, FALSE, TRUE, -4)}
MCDom ==
  {[kind |-> "dom", aliases |-> a, parents |-> p, sensors |-> s] :
      a \in SUBSET {<<1, 7>>, <<1, 8>>, <<2, 8>>, <<4, 7>>},
      p \in {[e \in {2, 3, 4, 5} |-> e - 1], [e \in {2, 3, 4, 5} |-> IF e < 4 THEN 1 ELSE 2],
             [e \in {2, 3, 5} |-> IF e = 3 THEN 2 ELSE IF e = 2 THEN 3 ELSE 4]},
      s \in {t \in SUBSET MCSensors : Cardinality(t) \in 1 .. 3}}
Template(name, selector) == [name |-> name, selector |-> selector]
MCSelectors == {<<>>, <<9>>, <<9, 1>>, <<9, 1, 2>>, <<8>>}
MCTemplates ==
  {[kind |-> "template", oid |-> o,
    bundled |-> <<Template("generic", <<>>), Template("vendor", <<9>>), Template("model", <<9, 1>>)>>,
    custom |-> <<Template("a", x), Template("b", y)>>] :
      o \in {<<9>>, <<9, 1, 2, 3>>, <<7>>, <<8, 1>>, <<>>}, x \in MCSelectors, y \in MCSelectors}
Group(valueAt, stateAt, values, alarms, normals, filter) ==
  [valueAt |-> valueAt, stateAt |-> stateAt, named |-> "n", values |-> values, states |-> <<1, 3, 5>>,
   alarms |-> alarms, normals |-> normals, filter |-> filter]
Manual(column, row) == [oid |-> <<column, row>>, at |-> "ov", value |-> 1007]
MCHardware ==
  {[kind |-> "hardware", values |-> v, statuses |-> t, groups |-> g, manual |-> o] :
      v \in {<<>>, <<20, 30>>, [i \in {2, 5, 7} |-> i]}, t \in {<<>>, <<1, 3>>, [i \in {1, 5, 7} |-> i - 2]},
      g \in SUBSET {Group("c1", "u", <<8, 9>>, {}, {1}, {}), Group("c2", "", <<8>>, {}, {}, {}),
                    Group("", "f", <<>>, {{5}}, {1}, {{2, 3}})},
      o \in {<<>>, <<Manual("values", 2), Manual("u", 3)>>, <<Manual("x", 0), Manual("x", 0), Manual("c1", 1)>>}}
Beside(port, name, remote) == [port |-> port, name |-> name, remote |-> remote]
MCBeside ==
  {<<>>, <<Beside(1, "sw", "p1"), Beside(2, "", "p2")>>, <<Beside(1, "ap", ""), Beside(1, "", "p3"), Beside(2, "ap", "e0")>>}
MCPortNeighbors ==
  {[kind |-> "neighbors", lldp |-> l, cdp |-> c, cut |-> n] : l \in MCBeside, c \in MCBeside, n \in 0 .. 5}
MCCases == MCDom \cup MCCpu \cup MCMemory \cup MCTemplates \cup MCHardware \cup MCPortNeighbors
Loss(g, w) == [gets |-> g, walks |-> w]
MCLossSets == {Loss({}, {}), Loss({"ov", "c1", "u", "units"}, {}),
               Loss({}, {"ov", "c1", "std", "f", "types", "used"}), Loss({"u", "c2"}, {"u", "size", "units"}),
               Loss({"n"}, {"values", "lldp"}), Loss({}, {"statuses", "cdp"})}

MCGuesses == <<1, 2>>
MCFallback == <<1>>
MCBudget == [polls |-> 3, losses |-> 1, changes |-> 2]
=============================================================================
