------------------------ MODULE FlowTemplates_proofs ------------------------
(***************************************************************************)
(* Proofs about the template decoder, for every set of scopes, templates   *)
(* and datagrams, every limit and every interleaving of the listeners.     *)
(***************************************************************************)
EXTENDS FlowTemplates, FiniteSetTheorems, Basics, TLAPS

\* The step of the specification, split into its actions.
LEMMA NextCases ==
  ASSUME [Next]_vars
  PROVE  \/ Tick \/ UNCHANGED vars
         \/ \E l \in Listeners : Receive(l)
         \/ \E l \in Listeners : SkipSet(l)
         \/ \E l \in Listeners : EndSet(l)
         \/ \E l \in Listeners : EndPacket(l)
         \/ \E l \in Listeners : BeginTemplateSet(l)
         \/ \E l \in Listeners : InsertTemplate(l)
         \/ \E l \in Listeners : EndTemplateSet(l)
         \/ \E l \in Listeners : TakeOrphans(l)
         \/ \E l \in Listeners : BeginDataSet(l)
         \/ \E l \in Listeners : DecodeDataSet(l)
         \/ \E l \in Listeners : MissTemplate(l)
         \/ \E l \in Listeners : ParkDataSet(l)
BY DEF Next, Step, Exhausted

-----------------------------------------------------------------------------
\* Lemmas about the operators the decoder is built from.

\* Expiry keeps a cache entry as it is or removes it.
LEMMA LiveTemplatesKeepOrRemove ==
  ASSUME TypeOK
  PROVE  /\ LiveTemplates \in [Scopes -> [TemplateIds -> Nat \cup {NotCached}]]
         /\ \A s \in Scopes, t \in TemplateIds :
              LiveTemplates[s][t] \in {templates[s][t], NotCached}
BY DEF LiveTemplates, TypeOK

\* Expiry keeps an orphan as it is or removes it.
LEMMA LiveOrphansKeepOrRemove ==
  ASSUME TypeOK
  PROVE  /\ LiveOrphans \in [PacketIds -> [parked: SUBSET (1 .. MaxSets), at: Nat]]
         /\ \A p \in PacketIds : LiveOrphans[p] = orphans[p] \/ LiveOrphans[p] = NoOrphan
         /\ \A p \in PacketIds : LiveOrphans[p].parked \subseteq orphans[p].parked
<1>1. NoOrphan \in [parked: SUBSET (1 .. MaxSets), at: Nat] /\ NoOrphan.parked = {}
  BY DEF NoOrphan
<1> QED
  BY <1>1 DEF LiveOrphans, TypeOK

\* Caching a definition writes its own entry and at most removes others.
LEMMA AfterInsertWrites ==
  ASSUME TypeOK, NEW entries \in [TemplateIds -> Nat \cup {NotCached}],
         NEW t \in TemplateIds, NEW new \in AfterInsert(entries, t)
  PROVE  /\ new \in [TemplateIds -> Nat \cup {NotCached}]
         /\ \A u \in TemplateIds : u # t => new[u] \in {entries[u], NotCached}
<1> DEFINE grown == [entries EXCEPT ![t] = clock]
<1>1. /\ grown \in [TemplateIds -> Nat \cup {NotCached}]
      /\ \A u \in TemplateIds : u # t => grown[u] = entries[u]
  BY DEF TypeOK
<1>2. new = grown \/ \E v \in Oldest(grown) : new = [grown EXCEPT ![v] = NotCached]
  BY DEF AfterInsert
<1> HIDE DEF grown
<1>3. CASE new = grown
  BY <1>1, <1>3
<1>4. ASSUME NEW v \in Oldest(grown), new = [grown EXCEPT ![v] = NotCached]
      PROVE  /\ new \in [TemplateIds -> Nat \cup {NotCached}]
             /\ \A u \in TemplateIds : u # t => new[u] \in {entries[u], NotCached}
  BY <1>1, <1>4
<1> QED
  BY <1>2, <1>3, <1>4

\* Parking a data set adds it to its own packet and at most removes others.
LEMMA AfterParkAdds ==
  ASSUME TypeOK, NEW d \in DataSets
  PROVE  /\ AfterPark(d) \in [PacketIds -> [parked: SUBSET (1 .. MaxSets), at: Nat]]
         /\ \A p \in PacketIds : AfterPark(d)[p].parked \subseteq
              orphans[p].parked \cup (IF p = d[1] THEN {d[2]} ELSE {})
<1> DEFINE live  == LiveOrphans
           entry == IF live[d[1]].parked # {} THEN live[d[1]] ELSE [parked |-> {}, at |-> clock]
           added == [entry EXCEPT !.parked = @ \cup {d[2]}]
           grown == [live EXCEPT ![d[1]] = added]
           here  == Waiting(grown, ScopeOf(d[1]))
<1>1. d[1] \in PacketIds /\ d[2] \in 1 .. MaxSets
  BY DEF DataSets
<1>2. /\ live \in [PacketIds -> [parked: SUBSET (1 .. MaxSets), at: Nat]]
      /\ \A p \in PacketIds : live[p].parked \subseteq orphans[p].parked
  BY LiveOrphansKeepOrRemove
<1>3. entry \in [parked: SUBSET (1 .. MaxSets), at: Nat] /\ entry.parked \subseteq orphans[d[1]].parked
  BY <1>1, <1>2 DEF TypeOK
<1>4. /\ added \in [parked: SUBSET (1 .. MaxSets), at: Nat]
      /\ added.parked \subseteq orphans[d[1]].parked \cup {d[2]}
  BY <1>1, <1>3
<1>5. NoOrphan \in [parked: SUBSET (1 .. MaxSets), at: Nat] /\ NoOrphan.parked = {}
  BY DEF NoOrphan
<1>6. /\ grown \in [PacketIds -> [parked: SUBSET (1 .. MaxSets), at: Nat]]
      /\ \A p \in PacketIds : grown[p] = IF p = d[1] THEN added ELSE live[p]
  BY <1>1, <1>2, <1>4
<1>7. AfterPark(d) = [p \in PacketIds |->
                        IF p \in here \ Newest(here, OrphanLimit) THEN NoOrphan ELSE grown[p]]
  BY DEF AfterPark
<1> HIDE DEF grown, here, added, entry, live
<1> QED
  BY <1>2, <1>4, <1>5, <1>6, <1>7

\* The flow sets of a packet are a sequence of at most MaxSets.
LEMMA SetsType ==
  ASSUME TypeOK, NEW p \in PacketIds
  PROVE  /\ packets[p].sets \in Seq(FlowSet)
         /\ Len(packets[p].sets) \in 0 .. MaxSets
         /\ \A k \in 1 .. Len(packets[p].sets) :
              packets[p].sets[k] \in FlowSet /\ packets[p].sets[k].tid \in TemplateIds
<1>1. packets[p].sets \in Datagrams \cup {<<>>}
  BY DEF TypeOK
<1>2. CASE packets[p].sets \in Datagrams
  <2>1. packets[p].sets \in Seq(FlowSet) /\ Len(packets[p].sets) <= MaxSets
    BY <1>2, DatagramAssumption
  <2>2. Len(packets[p].sets) \in Nat
    BY <2>1
  <2>3. \A k \in 1 .. Len(packets[p].sets) : packets[p].sets[k] \in FlowSet
    BY <2>1
  <2>4. \A f \in FlowSet : f.tid \in TemplateIds
    BY DEF FlowSet
  <2> QED
    BY <2>1, <2>2, <2>3, <2>4, BoundAssumption
<1>3. CASE packets[p].sets = <<>>
  BY <1>3, BoundAssumption
<1> QED
  BY <1>1, <1>2, <1>3

-----------------------------------------------------------------------------
\* A listener that is not idle parses a packet it has received from one of its scopes.
Parsing ==
  \A l \in Listeners : pc[l] # "idle" =>
    /\ pid[l] \in PacketIds /\ pid[l] < nextPacket
    /\ ListenerOf[ScopeOf(pid[l])] = l

\* Inside a flow set the position is one of the packet's.
Positions ==
  \A l \in Listeners : pc[l] \in {"caching", "take", "decode", "park"} =>
    pos[l] <= Len(packets[pid[l]].sets)

\* The inductive type invariant.
TypeInv == TypeOK /\ Parsing /\ Positions

LEMMA TypeInit == Init => TypeInv
<1> SUFFICES ASSUME Init PROVE TypeInv
  OBVIOUS
<1>1. NoOrphan \in [parked: SUBSET (1 .. MaxSets), at: Nat]
  BY DEF NoOrphan
<1>2. (CHOOSE s \in Scopes : TRUE) \in Scopes
  BY ScopesAssumption
<1>3. TypeOK
  BY <1>1, <1>2, BoundAssumption DEF Init, TypeOK, NotCached
<1>4. Parsing /\ Positions
  BY DEF Init, Parsing, Positions
<1> QED
  BY <1>3, <1>4 DEF TypeInv

LEMMA TypeStep == TypeInv /\ [Next]_vars => TypeInv'
<1> SUFFICES ASSUME TypeInv, [Next]_vars PROVE TypeInv'
  OBVIOUS
<1> USE BoundAssumption DEF TypeInv
<1>1. CASE Tick
  BY <1>1 DEF Tick, TypeOK, Parsing, Positions, ScopeOf
<1>2. CASE UNCHANGED vars
  BY <1>2 DEF vars, TypeOK, Parsing, Positions, ScopeOf
<1>3. ASSUME NEW l \in Listeners, Receive(l) PROVE TypeInv'
  <2>1. PICK s \in Scopes, g \in Datagrams :
          /\ ListenerOf[s] = l
          /\ packets' = [packets EXCEPT ![nextPacket] = [scope |-> s, sets |-> g]]
    BY <1>3 DEF Receive
  <2>2. nextPacket \in PacketIds /\ nextPacket \in Nat /\ nextPacket' = nextPacket + 1
    BY <1>3 DEF Receive, TypeOK, PacketIds
  <2>3. TypeOK'
    BY <1>3, <2>1, <2>2 DEF Receive, TypeOK, PacketIds
  <2>4. /\ packets'[nextPacket] = [scope |-> s, sets |-> g]
        /\ \A p \in PacketIds : p # nextPacket => packets'[p] = packets[p]
    BY <2>1, <2>2 DEF TypeOK
  <2>5. Parsing'
    BY <1>3, <2>1, <2>2, <2>4 DEF Receive, TypeOK, Parsing, ScopeOf, PacketIds
  <2>6. Positions'
    <3> SUFFICES ASSUME NEW m \in Listeners, pc'[m] \in {"caching", "take", "decode", "park"}
                 PROVE  pos'[m] <= Len(packets'[pid'[m]].sets)
      BY DEF Positions
    <3>1. m # l /\ pc'[m] = pc[m] /\ pid'[m] = pid[m] /\ pos'[m] = pos[m]
      BY <1>3 DEF Receive, TypeOK
    <3>2. pid[m] \in PacketIds /\ pid[m] # nextPacket
      BY <2>2, <3>1 DEF Parsing, PacketIds
    <3> QED
      BY <2>4, <3>1, <3>2 DEF Positions
  <2> QED
    BY <2>3, <2>5, <2>6
<1>4. ASSUME NEW l \in Listeners, SkipSet(l) PROVE TypeInv'
  <2>1. pid[l] \in PacketIds /\ pos[l] <= Len(packets[pid[l]].sets)
    BY <1>4 DEF SkipSet, AtSet, Parsing
  <2>2. pos[l] + 1 \in 1 .. MaxSets + 1
    BY <2>1, SetsType DEF TypeOK
  <2> QED
    BY <1>4, <2>2 DEF SkipSet, AtSet, TypeOK, Parsing, Positions, ScopeOf
<1>5. ASSUME NEW l \in Listeners, EndSet(l) PROVE TypeInv'
  <2>1. pid[l] \in PacketIds /\ pos[l] <= Len(packets[pid[l]].sets)
    BY <1>5 DEF EndSet, Parsing, Positions
  <2>2. pos[l] + 1 \in 1 .. MaxSets + 1
    BY <2>1, SetsType DEF TypeOK
  <2> QED
    BY <1>5, <2>2 DEF EndSet, TypeOK, Parsing, Positions, ScopeOf
<1>6. ASSUME NEW l \in Listeners, EndPacket(l) PROVE TypeInv'
  BY <1>6 DEF EndPacket, TypeOK, Parsing, Positions, ScopeOf
<1>7. ASSUME NEW l \in Listeners, BeginTemplateSet(l) PROVE TypeInv'
  BY <1>7, LiveTemplatesKeepOrRemove
  DEF BeginTemplateSet, AtSet, TypeOK, Parsing, Positions, ScopeOf
<1>8. ASSUME NEW l \in Listeners, InsertTemplate(l) PROVE TypeInv'
  <2> DEFINE s == ScopeOf(pid[l])  t == CurrentSet(l).defs[def[l]]
  <2>1. pid[l] \in PacketIds /\ pos[l] \in 1 .. Len(packets[pid[l]].sets)
    BY <1>8, SetsType DEF InsertTemplate, TypeOK, Parsing, Positions
  <2>2. s \in Scopes
    BY <2>1 DEF TypeOK, ScopeOf
  <2>3. t \in TemplateIds
    BY <1>8, <2>1, SetsType DEF InsertTemplate, CurrentSet, FlowSet, TypeOK
  <2>4. PICK entries \in AfterInsert(templates[s], t) :
          templates' = [templates EXCEPT ![s] = entries]
    BY <1>8 DEF InsertTemplate
  <2>5. entries \in [TemplateIds -> Nat \cup {NotCached}]
    BY <2>2, <2>3, AfterInsertWrites DEF TypeOK
  <2>6. templates' \in [Scopes -> [TemplateIds -> Nat \cup {NotCached}]]
    BY <2>2, <2>4, <2>5 DEF TypeOK
  <2> QED
    BY <1>8, <2>6 DEF InsertTemplate, TypeOK, Parsing, Positions, ScopeOf
<1>9. ASSUME NEW l \in Listeners, EndTemplateSet(l) PROVE TypeInv'
  BY <1>9 DEF EndTemplateSet, TypeOK, Parsing, Positions, ScopeOf
<1>10. ASSUME NEW l \in Listeners, TakeOrphans(l) PROVE TypeInv'
  <2>1. orphans' \in [PacketIds -> [parked: SUBSET (1 .. MaxSets), at: Nat]]
    BY <1>10, LiveOrphansKeepOrRemove DEF TakeOrphans, NoOrphan
  <2>2. pending' \in [Listeners -> SUBSET DataSets]
    BY <1>10 DEF TakeOrphans, TypeOK
  <2> QED
    BY <1>10, <2>1, <2>2 DEF TakeOrphans, TypeOK, Parsing, Positions, ScopeOf
<1>11. ASSUME NEW l \in Listeners, BeginDataSet(l) PROVE TypeInv'
  <2>1. <<pid[l], pos[l]>> \in DataSets
    BY <1>11, SetsType DEF BeginDataSet, AtSet, Parsing, TypeOK, DataSets
  <2> QED
    BY <1>11, <2>1 DEF BeginDataSet, AtSet, TypeOK, Parsing, Positions, ScopeOf
<1>12. ASSUME NEW l \in Listeners, DecodeDataSet(l) PROVE TypeInv'
  <2>1. PICK d \in pending[l] : /\ pending'  = [pending EXCEPT ![l] = @ \ {d}]
                                /\ consumed' = [consumed EXCEPT ![d] = @ + 1]
    BY <1>12 DEF DecodeDataSet
  <2>2. pending' \in [Listeners -> SUBSET DataSets] /\ consumed' \in [DataSets -> Nat]
    BY <2>1 DEF TypeOK
  <2> QED
    BY <1>12, <2>2, LiveTemplatesKeepOrRemove
    DEF DecodeDataSet, TypeOK, Parsing, Positions, ScopeOf
<1>13. ASSUME NEW l \in Listeners, MissTemplate(l) PROVE TypeInv'
  BY <1>13, LiveTemplatesKeepOrRemove DEF MissTemplate, TypeOK, Parsing, Positions, ScopeOf
<1>14. ASSUME NEW l \in Listeners, ParkDataSet(l) PROVE TypeInv'
  <2>1. PICK d \in missing[l] : /\ orphans' = AfterPark(d)
                                /\ pending' = [pending EXCEPT ![l] = @ \ {d}]
    BY <1>14 DEF ParkDataSet
  <2>2. d \in DataSets
    BY DEF TypeOK
  <2>3. orphans' \in [PacketIds -> [parked: SUBSET (1 .. MaxSets), at: Nat]]
    BY <2>1, <2>2, AfterParkAdds
  <2>4. pending' \in [Listeners -> SUBSET DataSets]
    BY <2>1 DEF TypeOK
  <2> QED
    BY <1>14, <2>3, <2>4 DEF ParkDataSet, TypeOK, Parsing, Positions, ScopeOf
<1> QED
  BY <1>1, <1>2, <1>3, <1>4, <1>5, <1>6, <1>7, <1>8, <1>9, <1>10, <1>11, <1>12, <1>13,
     <1>14, NextCases

\* Every variable of the decoder keeps its type; in particular no position, packet id
\* or template id it indexes with is ever out of range.
THEOREM TypeCorrect == Spec => []TypeOK
<1>1. Init => TypeInv
  BY TypeInit
<1>2. TypeInv /\ [Next]_vars => TypeInv'
  BY TypeStep
<1>3. TypeInv => TypeOK
  BY DEF TypeInv
<1> QED
  BY <1>1, <1>2, <1>3, PTL DEF Spec

-----------------------------------------------------------------------------
\* What a listener still has to hand to decode_data_set are data sets of the scope it
\* is parsing.
PendingOK ==
  \A l \in Listeners : \A d \in pending[l] :
    pc[l] \in {"decode", "park"} /\ IsDataSet(d) /\ ScopeOf(d[1]) = ScopeOf(pid[l])

\* A lookup that missed is still a miss when its data set is parked: only this
\* listener writes templates of the scope.
MissingOK ==
  \A l \in Listeners :
    /\ pc[l] # "park" => missing[l] = {}
    /\ \A d \in missing[l] :
         d \in pending[l] /\ templates[ScopeOf(pid[l])][TemplateOf(d)] = NotCached

\* What is parked are data sets of packets received.
ParkedOK == \A p \in PacketIds : \A k \in orphans[p].parked : IsDataSet(<<p, k>>)

StructInv == TypeInv /\ PendingOK /\ MissingOK /\ ParkedOK

\* Two listeners that parse are in different scopes.
LEMMA ScopesApart ==
  ASSUME TypeInv, NEW l \in Listeners, NEW m \in Listeners, l # m,
         pc[l] # "idle", pc[m] # "idle"
  PROVE  /\ ScopeOf(pid[l]) # ScopeOf(pid[m])
         /\ pid[l] # pid[m]
BY DEF TypeInv, Parsing

\* A datagram received leaves the packets before it alone.
LEMMA ReceiveKeeps ==
  ASSUME TypeInv, NEW l \in Listeners, Receive(l)
  PROVE  /\ nextPacket \in PacketIds /\ nextPacket' = nextPacket + 1
         /\ \A p \in PacketIds : p # nextPacket => packets'[p] = packets[p]
         /\ \A p \in PacketIds : p # nextPacket => ScopeOf(p)' = ScopeOf(p)
         /\ \A d \in DataSets : IsDataSet(d) =>
              IsDataSet(d)' /\ TemplateOf(d)' = TemplateOf(d) /\ ScopeOf(d[1])' = ScopeOf(d[1])
<1>1. nextPacket \in PacketIds /\ nextPacket \in Nat /\ nextPacket' = nextPacket + 1
  BY BoundAssumption DEF Receive, TypeInv, TypeOK, PacketIds
<1>2. \A p \in PacketIds : p # nextPacket => packets'[p] = packets[p]
  BY DEF Receive, TypeInv, TypeOK
<1>3. \A p \in PacketIds : p # nextPacket => ScopeOf(p)' = ScopeOf(p)
  BY <1>2 DEF ScopeOf
<1>4. ASSUME NEW d \in DataSets, IsDataSet(d)
      PROVE  IsDataSet(d)' /\ TemplateOf(d)' = TemplateOf(d) /\ ScopeOf(d[1])' = ScopeOf(d[1])
  <2>1. d[1] \in PacketIds /\ d[1] < nextPacket
    BY <1>4 DEF DataSets, IsDataSet
  <2>2. packets'[d[1]] = packets[d[1]] /\ d[1] < nextPacket'
    BY <1>1, <1>2, <2>1 DEF PacketIds
  <2> QED
    BY <1>4, <2>2 DEF IsDataSet, TemplateOf, ScopeOf
<1> QED
  BY <1>1, <1>2, <1>3, <1>4

\* A data set has a scope and needs a template.
LEMMA DataSetType ==
  ASSUME TypeOK, NEW d \in DataSets
  PROVE  /\ d[1] \in PacketIds /\ d[2] \in 1 .. MaxSets /\ d = <<d[1], d[2]>>
         /\ ScopeOf(d[1]) \in Scopes
         /\ IsDataSet(d) => TemplateOf(d) \in TemplateIds
<1>1. d[1] \in PacketIds /\ d[2] \in 1 .. MaxSets /\ d = <<d[1], d[2]>>
  BY DEF DataSets
<1> QED
  BY <1>1, SetsType DEF TypeOK, ScopeOf, TemplateOf, IsDataSet

LEMMA StructInit == Init => StructInv
BY TypeInit DEF Init, StructInv, PendingOK, MissingOK, ParkedOK, NoOrphan

\* Expiry cannot bring back a template that was looked up in vain.
LEMMA ExpiryKeepsMisses ==
  ASSUME StructInv, NEW m \in Listeners, NEW d \in missing[m]
  PROVE  LiveTemplates[ScopeOf(pid[m])][TemplateOf(d)] = NotCached
<1>1. d \in pending[m] /\ templates[ScopeOf(pid[m])][TemplateOf(d)] = NotCached
  BY DEF StructInv, MissingOK
<1>2. d \in DataSets /\ IsDataSet(d) /\ ScopeOf(d[1]) = ScopeOf(pid[m])
  BY <1>1 DEF StructInv, PendingOK, TypeInv, TypeOK
<1> QED
  BY <1>1, <1>2, DataSetType, LiveTemplatesKeepOrRemove DEF StructInv, TypeInv

\* The data sets of packets already received do not change while no datagram arrives.
LEMMA PacketsKept ==
  ASSUME UNCHANGED <<packets, nextPacket>>
  PROVE  /\ \A p \in PacketIds : ScopeOf(p)' = ScopeOf(p)
         /\ \A d \in DataSets : IsDataSet(d)' = IsDataSet(d) /\ TemplateOf(d)' = TemplateOf(d)
BY DEF ScopeOf, IsDataSet, TemplateOf

\* What a listener has in hand stays of its scope.
LEMMA PendingStep == StructInv /\ [Next]_vars => PendingOK'
<1> SUFFICES ASSUME StructInv, [Next]_vars,
                    NEW m \in Listeners, NEW d \in pending'[m]
             PROVE  /\ pc'[m] \in {"decode", "park"} /\ IsDataSet(d)'
                    /\ ScopeOf(d[1])' = ScopeOf(pid[m])'
  BY DEF PendingOK
<1> USE DEF StructInv, TypeInv
<1>0. TypeOK'
  BY TypeStep
<1>a. d \in DataSets
  BY <1>0 DEF TypeOK
<1>b. d \in pending[m] => /\ pc[m] \in {"decode", "park"} /\ IsDataSet(d)
                          /\ ScopeOf(d[1]) = ScopeOf(pid[m]) /\ pid[m] \in PacketIds
                          /\ pid[m] < nextPacket
  BY DEF PendingOK, Parsing
<1>1. CASE Tick \/ UNCHANGED vars
  BY <1>1, <1>b DEF Tick, vars, IsDataSet, ScopeOf
<1>2. ASSUME NEW l \in Listeners, Receive(l)
      PROVE  /\ pc'[m] \in {"decode", "park"} /\ IsDataSet(d)'
             /\ ScopeOf(d[1])' = ScopeOf(pid[m])'
  <2>1. d \in pending[m] /\ m # l
    BY <1>2, <1>b DEF Receive
  <2>2. pc'[m] = pc[m] /\ pid'[m] = pid[m] /\ pid[m] # nextPacket
    BY <1>2, <1>b, <2>1 DEF Receive, TypeOK, PacketIds
  <2>3. ScopeOf(pid[m])' = ScopeOf(pid[m])
    BY <1>2, <1>b, <2>1, <2>2, ReceiveKeeps DEF ScopeOf
  <2> QED
    BY <1>2, <1>a, <1>b, <2>1, <2>2, <2>3, ReceiveKeeps
<1>3. ASSUME NEW l \in Listeners,
             \/ SkipSet(l) \/ EndSet(l) \/ EndPacket(l) \/ BeginTemplateSet(l)
             \/ InsertTemplate(l) \/ EndTemplateSet(l) \/ DecodeDataSet(l)
             \/ MissTemplate(l) \/ ParkDataSet(l)
      PROVE  /\ pc'[m] \in {"decode", "park"} /\ IsDataSet(d)'
             /\ ScopeOf(d[1])' = ScopeOf(pid[m])'
  <2>0. UNCHANGED <<packets, nextPacket>>
    BY <1>3 DEF SkipSet, EndSet, EndPacket, BeginTemplateSet, InsertTemplate,
                EndTemplateSet, DecodeDataSet, MissTemplate, ParkDataSet
  <2>1. d \in pending[m]
    <3>1. CASE UNCHANGED pending
      BY <3>1
    <3>2. ASSUME NEW e, pending' = [pending EXCEPT ![l] = @ \ {e}] PROVE d \in pending[m]
      BY <3>2 DEF TypeOK
    <3> QED
      BY <1>3, <3>1, <3>2
      DEF SkipSet, EndSet, EndPacket, BeginTemplateSet, InsertTemplate,
          EndTemplateSet, DecodeDataSet, MissTemplate, ParkDataSet
  <2>2. pid'[m] = pid[m]
    BY <1>3, <1>b, <2>1 DEF SkipSet, EndSet, EndPacket, BeginTemplateSet, InsertTemplate,
                EndTemplateSet, DecodeDataSet, MissTemplate, ParkDataSet, TypeOK
  <2>3. pc'[m] \in {"decode", "park"}
    BY <1>3, <1>b, <2>1 DEF SkipSet, EndSet, EndPacket, BeginTemplateSet, InsertTemplate,
                EndTemplateSet, DecodeDataSet, MissTemplate, ParkDataSet, AtSet, TypeOK
  <2> QED
    BY <1>a, <1>b, <2>0, <2>1, <2>2, <2>3 DEF IsDataSet, ScopeOf
<1>4. ASSUME NEW l \in Listeners, TakeOrphans(l)
      PROVE  /\ pc'[m] \in {"decode", "park"} /\ IsDataSet(d)'
             /\ ScopeOf(d[1])' = ScopeOf(pid[m])'
  <2>1. UNCHANGED <<packets, nextPacket, pid>>
    BY <1>4 DEF TakeOrphans
  <2>2. CASE m = l
    <3>1. /\ pc'[m] = "decode"
          /\ d[1] \in Waiting(LiveOrphans, ScopeOf(pid[l])) /\ d[2] \in orphans[d[1]].parked
      BY <1>4, <2>2 DEF TakeOrphans, TypeOK
    <3>2. IsDataSet(<<d[1], d[2]>>) /\ ScopeOf(d[1]) = ScopeOf(pid[l])
      BY <1>a, <3>1, DataSetType DEF ParkedOK, Waiting
    <3> QED
      BY <1>a, <2>1, <2>2, <3>1, <3>2, DataSetType DEF IsDataSet, ScopeOf
  <2>3. CASE m # l
    BY <1>4, <1>b, <2>1, <2>3 DEF TakeOrphans, TypeOK, IsDataSet, ScopeOf
  <2> QED
    BY <2>2, <2>3
<1>5. ASSUME NEW l \in Listeners, BeginDataSet(l)
      PROVE  /\ pc'[m] \in {"decode", "park"} /\ IsDataSet(d)'
             /\ ScopeOf(d[1])' = ScopeOf(pid[m])'
  <2>1. UNCHANGED <<packets, nextPacket, pid>>
    BY <1>5 DEF BeginDataSet
  <2>2. CASE m = l
    <3>1. pc'[m] = "decode" /\ d[1] = pid[l] /\ d[2] = pos[l]
      BY <1>5, <2>2 DEF BeginDataSet, TypeOK
    <3>2. IsDataSet(d)
      BY <1>5, <3>1 DEF BeginDataSet, AtSet, CurrentSet, IsDataSet, Parsing
    <3> QED
      BY <2>1, <2>2, <3>1, <3>2 DEF IsDataSet, ScopeOf
  <2>3. CASE m # l
    BY <1>5, <1>b, <2>1, <2>3 DEF BeginDataSet, TypeOK, IsDataSet, ScopeOf
  <2> QED
    BY <2>2, <2>3
<1> QED
  BY <1>1, <1>2, <1>3, <1>4, <1>5, NextCases

\* A miss stays a miss.
LEMMA MissingStep == StructInv /\ [Next]_vars => MissingOK'
<1> SUFFICES ASSUME StructInv, [Next]_vars, NEW m \in Listeners
             PROVE  /\ pc'[m] # "park" => missing'[m] = {}
                    /\ \A d \in missing'[m] :
                         /\ d \in pending'[m]
                         /\ templates'[ScopeOf(pid[m])'][TemplateOf(d)'] = NotCached
  BY DEF MissingOK
<1> USE DEF StructInv, TypeInv
<1>a. \A d \in missing[m] : /\ pc[m] = "park" /\ d \in DataSets /\ IsDataSet(d) /\ d \in pending[m]
                            /\ templates[ScopeOf(pid[m])][TemplateOf(d)] = NotCached
                            /\ pid[m] \in PacketIds /\ pid[m] < nextPacket
  BY DEF MissingOK, PendingOK, Parsing, TypeOK
<1>b. pc[m] # "park" => missing[m] = {}
  BY DEF MissingOK
<1> DEFINE Goal == /\ pc'[m] # "park" => missing'[m] = {}
                   /\ \A d \in missing'[m] :
                         /\ d \in pending'[m]
                         /\ templates'[ScopeOf(pid[m])'][TemplateOf(d)'] = NotCached
<1>1. CASE Tick \/ UNCHANGED vars
  BY <1>1, <1>a, <1>b DEF Tick, vars, ScopeOf, TemplateOf
<1>2. ASSUME NEW l \in Listeners, Receive(l) PROVE Goal
  <2>1. missing'[m] = missing[m] /\ pending'[m] = pending[m] /\ templates' = templates
    BY <1>2 DEF Receive
  <2>2. m # l => pc'[m] = pc[m] /\ pid'[m] = pid[m]
    BY <1>2 DEF Receive, TypeOK
  <2>3. m = l => missing[m] = {}
    BY <1>2, <1>b DEF Receive
  <2>4. ASSUME NEW d \in missing[m]
        PROVE  ScopeOf(pid[m])' = ScopeOf(pid[m]) /\ TemplateOf(d)' = TemplateOf(d)
    <3>1. pid[m] # nextPacket /\ pid'[m] = pid[m]
      BY <1>a, <2>2, <2>3, <2>4 DEF PacketIds, TypeOK
    <3> QED
      BY <1>2, <1>a, <2>4, <3>1, ReceiveKeeps DEF ScopeOf
  <2> QED
    BY <1>a, <1>b, <2>1, <2>2, <2>3, <2>4
<1>3. ASSUME NEW l \in Listeners,
             SkipSet(l) \/ EndSet(l) \/ EndPacket(l) \/ EndTemplateSet(l)
      PROVE  Goal
  <2>1. UNCHANGED <<missing, pending, templates, packets>>
    BY <1>3 DEF SkipSet, EndSet, EndPacket, EndTemplateSet
  <2>2. /\ pc'[m] # "park" => pc[m] # "park"
        /\ pc[m] = "park" => pid'[m] = pid[m]
    BY <1>3 DEF SkipSet, EndSet, EndPacket, EndTemplateSet, AtSet, TypeOK
  <2> QED
    BY <1>a, <1>b, <2>1, <2>2 DEF ScopeOf, TemplateOf
<1>4. ASSUME NEW l \in Listeners, BeginTemplateSet(l) PROVE Goal
  <2>1. /\ UNCHANGED <<missing, pending, packets, pid>> /\ templates' = LiveTemplates
        /\ pc'[m] # "park" => pc[m] # "park"
    BY <1>4 DEF BeginTemplateSet, AtSet, TypeOK
  <2> QED
    BY <1>a, <1>b, <2>1, ExpiryKeepsMisses DEF ScopeOf, TemplateOf
<1>5. ASSUME NEW l \in Listeners, InsertTemplate(l) PROVE Goal
  <2>1. UNCHANGED <<missing, pending, packets, pid, pc>> /\ pc[l] = "caching"
    BY <1>5 DEF InsertTemplate
  <2>2. ASSUME NEW d \in missing[m]
        PROVE  templates'[ScopeOf(pid[m])] = templates[ScopeOf(pid[m])]
    <3>1. m # l /\ ScopeOf(pid[m]) # ScopeOf(pid[l])
      BY <1>a, <2>1, <2>2, ScopesApart
    <3>2. ScopeOf(pid[m]) \in Scopes
      BY <1>a, <2>2 DEF ScopeOf, TypeOK
    <3> QED
      BY <1>5, <3>1, <3>2 DEF InsertTemplate, TypeOK
  <2> QED
    BY <1>a, <1>b, <2>1, <2>2 DEF ScopeOf, TemplateOf
<1>6. ASSUME NEW l \in Listeners, TakeOrphans(l) \/ BeginDataSet(l) PROVE Goal
  <2>1. UNCHANGED <<missing, packets, pid, templates>> /\ pc[l] # "park"
    BY <1>6 DEF TakeOrphans, BeginDataSet, AtSet
  <2>2. m # l => pending'[m] = pending[m] /\ pc'[m] = pc[m]
    BY <1>6 DEF TakeOrphans, BeginDataSet, TypeOK
  <2> QED
    BY <1>a, <1>b, <2>1, <2>2 DEF ScopeOf, TemplateOf
<1>7. ASSUME NEW l \in Listeners, DecodeDataSet(l) PROVE Goal
  <2>1. /\ UNCHANGED <<missing, packets, pid, pc>> /\ pc[l] = "decode"
        /\ templates' = LiveTemplates
    BY <1>7 DEF DecodeDataSet
  <2>2. m # l => pending'[m] = pending[m]
    BY <1>7 DEF DecodeDataSet, TypeOK
  <2> QED
    BY <1>a, <1>b, <2>1, <2>2, ExpiryKeepsMisses DEF ScopeOf, TemplateOf
<1>8. ASSUME NEW l \in Listeners, MissTemplate(l) PROVE Goal
  <2>1. UNCHANGED <<pending, packets, pid>> /\ templates' = LiveTemplates
    BY <1>8 DEF MissTemplate
  <2>2. PICK d \in pending[l] : /\ LiveTemplates[ScopeOf(pid[l])][TemplateOf(d)] = NotCached
                                /\ missing' = [missing EXCEPT ![l] = {d}]
    BY <1>8 DEF MissTemplate
  <2>3. CASE m = l
    BY <1>8, <2>1, <2>2, <2>3 DEF MissTemplate, ScopeOf, TemplateOf, TypeOK
  <2>4. CASE m # l
    <3>1. missing'[m] = missing[m] /\ pc'[m] = pc[m]
      BY <1>8, <2>2, <2>4 DEF MissTemplate, TypeOK
    <3> QED
      BY <1>a, <1>b, <2>1, <3>1, ExpiryKeepsMisses DEF ScopeOf, TemplateOf
  <2> QED
    BY <2>3, <2>4
<1>9. ASSUME NEW l \in Listeners, ParkDataSet(l) PROVE Goal
  <2>1. UNCHANGED <<templates, packets, pid>> /\ missing'[l] = {}
    BY <1>9 DEF ParkDataSet, TypeOK
  <2>2. m # l => missing'[m] = missing[m] /\ pc'[m] = pc[m] /\ pending'[m] = pending[m]
    BY <1>9 DEF ParkDataSet, TypeOK
  <2> QED
    BY <1>a, <1>b, <2>1, <2>2 DEF ScopeOf, TemplateOf
<1> QED
  BY <1>1, <1>2, <1>3, <1>4, <1>5, <1>6, <1>7, <1>8, <1>9, NextCases

\* Only data sets of packets received are ever parked.
LEMMA ParkedStep == StructInv /\ [Next]_vars => ParkedOK'
<1> SUFFICES ASSUME StructInv, [Next]_vars, NEW p \in PacketIds, NEW k \in orphans'[p].parked
             PROVE  IsDataSet(<<p, k>>)'
  BY DEF ParkedOK
<1> USE DEF StructInv, TypeInv
<1>0. k \in 1 .. MaxSets
  BY TypeStep DEF TypeOK
<1>a. k \in orphans[p].parked => IsDataSet(<<p, k>>)
  BY DEF ParkedOK
<1>1. ASSUME NEW l \in Listeners, Receive(l) PROVE IsDataSet(<<p, k>>)'
  <2>1. k \in orphans[p].parked /\ <<p, k>> \in DataSets
    BY <1>1, <1>0 DEF Receive, DataSets
  <2> QED
    BY <1>1, <1>a, <2>1, ReceiveKeeps
<1>2. ASSUME NEW l \in Listeners, TakeOrphans(l) PROVE IsDataSet(<<p, k>>)'
  <2>1. k \in orphans[p].parked /\ UNCHANGED <<packets, nextPacket>>
    BY <1>2, LiveOrphansKeepOrRemove DEF TakeOrphans, NoOrphan
  <2> QED
    BY <1>a, <2>1 DEF IsDataSet
<1>3. ASSUME NEW l \in Listeners, ParkDataSet(l) PROVE IsDataSet(<<p, k>>)'
  <2>1. PICK d \in missing[l] : orphans' = AfterPark(d)
    BY <1>3 DEF ParkDataSet
  <2>2. d \in DataSets /\ IsDataSet(d)
    BY DEF MissingOK, PendingOK, TypeOK
  <2>3. k \in orphans[p].parked \/ <<p, k>> = d
    BY <2>1, <2>2, AfterParkAdds, DataSetType
  <2> QED
    BY <1>3, <1>a, <2>2, <2>3 DEF ParkDataSet, IsDataSet
<1>4. CASE UNCHANGED <<orphans, packets, nextPacket>>
  BY <1>a, <1>4 DEF IsDataSet
<1> QED
  BY <1>1, <1>2, <1>3, <1>4, NextCases
  DEF Tick, vars, SkipSet, EndSet, EndPacket, BeginTemplateSet, InsertTemplate,
      EndTemplateSet, BeginDataSet, DecodeDataSet, MissTemplate

LEMMA StructStep == StructInv /\ [Next]_vars => StructInv'
BY TypeStep, PendingStep, MissingStep, ParkedStep DEF StructInv

-----------------------------------------------------------------------------
LEMMA StrandedInit == Init => NoStrandedOrphan
BY DEF Init, NoStrandedOrphan, NoOrphan

LEMMA StrandedStep == StructInv /\ NoStrandedOrphan /\ [Next]_vars => NoStrandedOrphan'
<1> SUFFICES ASSUME StructInv, NoStrandedOrphan, [Next]_vars,
                    NEW p \in PacketIds, NEW k \in orphans'[p].parked,
                    templates'[ScopeOf(p)'][TemplateOf(<<p, k>>)'] # NotCached
             PROVE  LET m == ListenerOf[ScopeOf(p)]
                    IN  (pc[m] \in {"caching", "take"} /\ ScopeOf(pid[m]) = ScopeOf(p))'
  BY DEF NoStrandedOrphan, ScopeOf
<1> USE DEF StructInv, TypeInv
<1> DEFINE m == ListenerOf[ScopeOf(p)]
           Goal == LET n == ListenerOf[ScopeOf(p)]
                   IN  (pc[n] \in {"caching", "take"} /\ ScopeOf(pid[n]) = ScopeOf(p))'
<1>0. <<p, k>> \in DataSets
  BY TypeStep DEF TypeOK, DataSets
<1>a. k \in orphans[p].parked /\ templates[ScopeOf(p)][TemplateOf(<<p, k>>)] # NotCached =>
        pc[m] \in {"caching", "take"} /\ ScopeOf(pid[m]) = ScopeOf(p)
  BY DEF NoStrandedOrphan
<1>b. k \in orphans[p].parked => IsDataSet(<<p, k>>)
  BY DEF ParkedOK
<1>c. ScopeOf(p) \in Scopes /\ m \in Listeners
  BY ScopesAssumption DEF ScopeOf, TypeOK
<1>d. k \in orphans[p].parked => TemplateOf(<<p, k>>) \in TemplateIds
  BY <1>0, <1>b, DataSetType
<1> HIDE DEF m
<1>1. CASE Tick \/ UNCHANGED vars
  BY <1>1, <1>a DEF Tick, vars, ScopeOf, TemplateOf, m
<1>2. ASSUME NEW l \in Listeners, Receive(l) PROVE Goal
  <2>1. orphans' = orphans /\ templates' = templates /\ pc[l] = "idle"
    BY <1>2 DEF Receive
  <2>2. p # nextPacket
    BY <1>b, <2>1 DEF IsDataSet, TypeOK, PacketIds
  <2>3. ScopeOf(p)' = ScopeOf(p) /\ TemplateOf(<<p, k>>)' = TemplateOf(<<p, k>>)
    BY <1>2, <1>0, <1>b, <2>1, <2>2, ReceiveKeeps
  <2>4. pc[m] \in {"caching", "take"} /\ ScopeOf(pid[m]) = ScopeOf(p)
    BY <1>a, <2>1, <2>3
  <2>5. m # l /\ pc'[m] = pc[m] /\ pid'[m] = pid[m]
    BY <1>2, <1>c, <2>1, <2>4 DEF Receive, TypeOK
  <2>6. pid[m] \in PacketIds /\ pid[m] # nextPacket
    BY <1>c, <2>4 DEF Parsing, TypeOK, PacketIds
  <2>7. packets'[pid'[m]] = packets[pid[m]]
    BY <1>2, <2>5, <2>6, ReceiveKeeps
  <2> QED
    BY <2>3, <2>4, <2>5, <2>7 DEF m, ScopeOf
<1>3. ASSUME NEW l \in Listeners,
             SkipSet(l) \/ EndSet(l) \/ EndPacket(l) \/ EndTemplateSet(l) \/ BeginDataSet(l)
      PROVE  Goal
  <2>1. UNCHANGED <<orphans, templates, packets>>
    BY <1>3 DEF SkipSet, EndSet, EndPacket, EndTemplateSet, BeginDataSet
  <2>2. pc[m] \in {"caching", "take"} /\ ScopeOf(pid[m]) = ScopeOf(p)
    BY <1>a, <2>1 DEF ScopeOf, TemplateOf
  <2>3. pc'[m] \in {"caching", "take"} /\ pid'[m] = pid[m]
    BY <1>3, <1>c, <2>2 DEF SkipSet, EndSet, EndPacket, EndTemplateSet, BeginDataSet, AtSet, TypeOK
  <2> QED
    BY <2>1, <2>2, <2>3 DEF m, ScopeOf
<1>4. ASSUME NEW l \in Listeners,
             BeginTemplateSet(l) \/ DecodeDataSet(l) \/ MissTemplate(l)
      PROVE  Goal
  <2>1. UNCHANGED <<orphans, packets, pid>> /\ templates' = LiveTemplates
    BY <1>4 DEF BeginTemplateSet, DecodeDataSet, MissTemplate
  <2>2. templates[ScopeOf(p)][TemplateOf(<<p, k>>)] # NotCached
    BY <1>c, <1>d, <2>1, LiveTemplatesKeepOrRemove DEF ScopeOf, TemplateOf
  <2>3. pc[m] \in {"caching", "take"} /\ ScopeOf(pid[m]) = ScopeOf(p)
    BY <1>a, <2>1, <2>2
  <2>4. pc'[m] \in {"caching", "take"}
    BY <1>4, <1>c, <2>3 DEF BeginTemplateSet, DecodeDataSet, MissTemplate, TypeOK
  <2> QED
    BY <2>1, <2>3, <2>4 DEF m, ScopeOf
<1>5. ASSUME NEW l \in Listeners, InsertTemplate(l) PROVE Goal
  <2>1. UNCHANGED <<orphans, packets, pid, pc>> /\ pc[l] = "caching"
    BY <1>5 DEF InsertTemplate
  <2>2. CASE ScopeOf(p) = ScopeOf(pid[l])
    <3>1. m = l
      BY <2>1, <2>2 DEF m, Parsing
    <3> QED
      BY <2>1, <2>2, <3>1 DEF m, ScopeOf
  <2>3. CASE ScopeOf(p) # ScopeOf(pid[l])
    <3>1. templates'[ScopeOf(p)] = templates[ScopeOf(p)]
      BY <1>5, <1>c, <2>3 DEF InsertTemplate, TypeOK
    <3>2. pc[m] \in {"caching", "take"} /\ ScopeOf(pid[m]) = ScopeOf(p)
      BY <1>a, <2>1, <3>1 DEF ScopeOf, TemplateOf
    <3> QED
      BY <2>1, <3>2 DEF m, ScopeOf
  <2> QED
    BY <2>2, <2>3
<1>6. ASSUME NEW l \in Listeners, TakeOrphans(l) PROVE Goal
  <2>1. UNCHANGED <<templates, packets, pid>>
    BY <1>6 DEF TakeOrphans
  <2>2. /\ p \notin Waiting(LiveOrphans, ScopeOf(pid[l]))
        /\ k \in LiveOrphans[p].parked
    BY <1>6 DEF TakeOrphans, NoOrphan
  <2>3. k \in orphans[p].parked /\ ScopeOf(p) # ScopeOf(pid[l])
    BY <2>2, LiveOrphansKeepOrRemove DEF Waiting
  <2>4. pc[m] \in {"caching", "take"} /\ ScopeOf(pid[m]) = ScopeOf(p)
    BY <1>a, <2>1, <2>3 DEF ScopeOf, TemplateOf
  <2>5. pc'[m] = pc[m]
    BY <1>6, <1>c, <2>3, <2>4 DEF TakeOrphans, TypeOK
  <2> QED
    BY <2>1, <2>4, <2>5 DEF m, ScopeOf
<1>7. ASSUME NEW l \in Listeners, ParkDataSet(l) PROVE Goal
  <2>1. UNCHANGED <<templates, packets, pid>> /\ pc[l] = "park"
    BY <1>7 DEF ParkDataSet
  <2>2. PICK d \in missing[l] : orphans' = AfterPark(d)
    BY <1>7 DEF ParkDataSet
  <2>3. /\ d \in DataSets /\ ScopeOf(d[1]) = ScopeOf(pid[l])
        /\ templates[ScopeOf(pid[l])][TemplateOf(d)] = NotCached
    BY DEF MissingOK, PendingOK, TypeOK
  <2>4. k \in orphans[p].parked \/ <<p, k>> = d
    BY <2>2, <2>3, AfterParkAdds, DataSetType
  <2>5. <<p, k>> # d
    BY <2>1, <2>3 DEF ScopeOf, TemplateOf
  <2>6. pc[m] \in {"caching", "take"} /\ ScopeOf(pid[m]) = ScopeOf(p)
    BY <1>a, <2>1, <2>4, <2>5 DEF ScopeOf, TemplateOf
  <2>7. pc'[m] = pc[m]
    BY <1>7, <1>c, <2>1, <2>6 DEF ParkDataSet, TypeOK
  <2> QED
    BY <2>1, <2>6, <2>7 DEF m, ScopeOf
<1> QED
  BY <1>1, <1>2, <1>3, <1>4, <1>5, <1>6, <1>7, NextCases

\* A parked data set never waits for a cached template, except between the insertion
\* of that template and the replay that follows it: the two critical sections of
\* decode_data_set lose nothing, because one listener alone serves each scope.
THEOREM NothingStranded == Spec => []NoStrandedOrphan
<1>1. Init => StructInv /\ NoStrandedOrphan
  BY StructInit, StrandedInit
<1>2. StructInv /\ NoStrandedOrphan /\ [Next]_vars => StructInv' /\ NoStrandedOrphan'
  BY StructStep, StrandedStep
<1> QED
  BY <1>1, <1>2, PTL DEF Spec

-----------------------------------------------------------------------------
\* A data set is in one place at a time: ahead of the parser, in the hands of one
\* listener, or in the buffer; and it is not yet decoded while it is in any of them.
InHand   == \A l \in Listeners : \A d \in pending[l] :
              consumed[d] = 0 /\ d[2] \notin orphans[d[1]].parked /\ ~Ahead(d)
InBuffer == \A p \in PacketIds : \A k \in orphans[p].parked :
              consumed[<<p, k>>] = 0 /\ ~Ahead(<<p, k>>)
ToCome   == \A d \in DataSets : d[1] >= nextPacket \/ Ahead(d) => consumed[d] = 0

OnceInv == DecodedAtMostOnce /\ InHand /\ InBuffer /\ ToCome

\* The parser never goes back: only a datagram received puts data sets ahead of it,
\* its own, and beginning a data set puts it behind.
LEMMA AheadShrinks ==
  ASSUME StructInv, NEW d \in DataSets
  PROVE  /\ Tick \/ UNCHANGED vars => Ahead(d)' = Ahead(d)
         /\ \A l \in Listeners :
              /\ Receive(l) /\ Ahead(d)' => Ahead(d) \/ d[1] = nextPacket
              /\ Step(l) /\ ~Receive(l) /\ Ahead(d)' => Ahead(d)
              /\ BeginDataSet(l) /\ d = <<pid[l], pos[l]>> => Ahead(d) /\ ~Ahead(d)'
<1> USE DEF StructInv, TypeInv
<1>1. Tick \/ UNCHANGED vars => Ahead(d)' = Ahead(d)
  BY DEF Tick, vars, Ahead
<1>0. d[2] \in Nat
  BY DataSetType
<1>2. ASSUME NEW l \in Listeners, Receive(l), Ahead(d)' PROVE Ahead(d) \/ d[1] = nextPacket
  BY <1>2 DEF Receive, Ahead, TypeOK
<1>3. ASSUME NEW l \in Listeners, Step(l), ~Receive(l), NEW m \in Listeners,
             pid'[m] = d[1], pc'[m] # "idle",
             pos'[m] < d[2] \/ (pos'[m] = d[2] /\ pc'[m] = "parse")
      PROVE  /\ pid[m] = d[1] /\ pc[m] # "idle"
             /\ pos[m] < d[2] \/ (pos[m] = d[2] /\ pc[m] = "parse")
  <2>a. pos[m] \in Nat
    BY DEF TypeOK
  <2>1. CASE SkipSet(l) \/ EndSet(l)
    <3>1. pid'[m] = pid[m] /\ pc[m] # "idle" /\ (pos'[m] = pos[m] + 1 \/ (pos'[m] = pos[m] /\ pc'[m] = pc[m]))
      BY <1>3, <2>1 DEF SkipSet, EndSet, AtSet, TypeOK
    <3> QED
      BY <1>0, <1>3, <2>a, <3>1
  <2>2. CASE EndPacket(l)
    BY <1>3, <2>2 DEF EndPacket, TypeOK
  <2>3. CASE \/ BeginTemplateSet(l) \/ InsertTemplate(l) \/ EndTemplateSet(l)
             \/ TakeOrphans(l) \/ BeginDataSet(l) \/ DecodeDataSet(l)
             \/ MissTemplate(l) \/ ParkDataSet(l)
    <3>1. UNCHANGED <<pid, pos>>
      BY <2>3 DEF BeginTemplateSet, InsertTemplate, EndTemplateSet, TakeOrphans,
                  BeginDataSet, DecodeDataSet, MissTemplate, ParkDataSet
    <3>2. pc[m] # "idle" /\ (pc'[m] = "parse" => pc[m] = "parse")
      BY <1>3, <2>3 DEF BeginTemplateSet, InsertTemplate, EndTemplateSet, TakeOrphans,
                  BeginDataSet, DecodeDataSet, MissTemplate, ParkDataSet, AtSet, TypeOK
    <3> QED
      BY <1>3, <3>1, <3>2
  <2> QED
    BY <1>3, <2>1, <2>2, <2>3 DEF Step
<1>4. ASSUME NEW l \in Listeners, BeginDataSet(l), d = <<pid[l], pos[l]>>
      PROVE  Ahead(d) /\ ~Ahead(d)'
  <2>1. pc[l] = "parse" /\ pc' = [pc EXCEPT ![l] = "decode"] /\ UNCHANGED <<pid, pos>>
    BY <1>4 DEF BeginDataSet, AtSet
  <2>2. Ahead(d)
    BY <1>4, <2>1 DEF Ahead
  <2>3. ASSUME NEW m \in Listeners, pid[m] = d[1], pc'[m] # "idle" PROVE m = l
    BY <1>4, <2>1, <2>3, ScopesApart DEF TypeOK
  <2>4. pos[l] = d[2] /\ pc'[l] = "decode" /\ pos[l] \in Nat
    BY <1>4, <2>1 DEF TypeOK
  <2>5. ~Ahead(d)'
    BY <2>1, <2>3, <2>4 DEF Ahead
  <2> QED
    BY <2>2, <2>5
<1> QED
  BY <1>1, <1>2, <1>3, <1>4 DEF Ahead

\* No two listeners have the same data set in hand.
LEMMA HandsApart ==
  ASSUME StructInv, NEW l \in Listeners, NEW m \in Listeners,
         NEW d \in pending[l], d \in pending[m]
  PROVE  l = m
BY ScopesApart DEF StructInv, PendingOK

\* What is in hand or parked came with a packet received.
LEMMA HeldReceived ==
  ASSUME StructInv
  PROVE  /\ \A l \in Listeners : \A d \in pending[l] : d \in DataSets /\ d[1] < nextPacket
         /\ \A p \in PacketIds : \A k \in orphans[p].parked :
              <<p, k>> \in DataSets /\ p < nextPacket
BY DEF StructInv, PendingOK, ParkedOK, IsDataSet, TypeInv, TypeOK, DataSets

LEMMA OnceInit == Init => OnceInv
BY BoundAssumption DEF Init, OnceInv, DecodedAtMostOnce, InHand, InBuffer, ToCome, NoOrphan, Ahead

\* A step that moves no data set and shows the parser no new one changes nothing here.
LEMMA OnceQuiet ==
  ASSUME StructInv, OnceInv, UNCHANGED <<consumed, orphans, pending>>,
         nextPacket' >= nextPacket, nextPacket \in Nat, nextPacket' \in Nat,
         \A d \in DataSets : Ahead(d)' => Ahead(d) \/ d[1] >= nextPacket
  PROVE  OnceInv'
<1>1. DecodedAtMostOnce'
  BY DEF OnceInv, DecodedAtMostOnce
<1>2. InHand'
  BY HeldReceived DEF OnceInv, InHand, DataSets, PacketIds
<1>3. InBuffer'
  <2> SUFFICES ASSUME NEW p \in PacketIds, NEW k \in orphans[p].parked
               PROVE  consumed[<<p, k>>] = 0 /\ ~Ahead(<<p, k>>)'
    BY DEF InBuffer
  <2>1. <<p, k>> \in DataSets /\ <<p, k>>[1] = p /\ p < nextPacket /\ p \in Nat
    BY HeldReceived DEF PacketIds
  <2> QED
    BY <2>1 DEF OnceInv, InBuffer
<1>4. ToCome'
  BY DEF OnceInv, ToCome, DataSets, PacketIds
<1> QED
  BY <1>1, <1>2, <1>3, <1>4 DEF OnceInv

LEMMA OnceStep == StructInv /\ OnceInv /\ [Next]_vars => OnceInv'
<1> SUFFICES ASSUME StructInv, OnceInv, [Next]_vars PROVE OnceInv'
  OBVIOUS
<1>0. /\ TypeOK /\ TypeInv
      /\ nextPacket \in Nat
      /\ \A d \in DataSets : d = <<d[1], d[2]>> /\ d[1] \in PacketIds
  BY DataSetType DEF StructInv, TypeInv, TypeOK
<1>h. /\ \A l \in Listeners : \A d \in pending[l] :
           /\ d \in DataSets /\ d[1] < nextPacket /\ consumed[d] = 0
           /\ d[2] \notin orphans[d[1]].parked /\ ~Ahead(d)
      /\ \A p \in PacketIds : \A k \in orphans[p].parked :
           <<p, k>> \in DataSets /\ p < nextPacket /\ consumed[<<p, k>>] = 0 /\ ~Ahead(<<p, k>>)
      /\ \A d \in DataSets : /\ d[1] >= nextPacket \/ Ahead(d) => consumed[d] = 0
                             /\ consumed[d] <= 1 /\ consumed[d] \in Nat
  BY <1>0, HeldReceived DEF OnceInv, InHand, InBuffer, ToCome, DecodedAtMostOnce, TypeOK
<1>1. CASE Tick \/ UNCHANGED vars
  BY <1>0, <1>1, AheadShrinks, OnceQuiet DEF Tick, vars
<1>2. ASSUME NEW l \in Listeners, Receive(l) PROVE OnceInv'
  <2>1. nextPacket' \in Nat /\ nextPacket' >= nextPacket /\ UNCHANGED <<consumed, orphans, pending>>
    BY <1>0, <1>2 DEF Receive
  <2>2. \A d \in DataSets : Ahead(d)' => Ahead(d) \/ d[1] >= nextPacket
    BY <1>0, <1>2, AheadShrinks
  <2> QED
    BY <1>0, <2>1, <2>2, OnceQuiet
<1>3. ASSUME NEW l \in Listeners,
             \/ SkipSet(l) \/ EndSet(l) \/ EndPacket(l) \/ BeginTemplateSet(l)
             \/ InsertTemplate(l) \/ EndTemplateSet(l) \/ MissTemplate(l)
      PROVE OnceInv'
  <2>1. UNCHANGED <<consumed, orphans, pending, nextPacket>> /\ Step(l) /\ ~Receive(l)
    BY <1>0, <1>3 DEF SkipSet, EndSet, EndPacket, BeginTemplateSet, InsertTemplate,
                EndTemplateSet, MissTemplate, Step, Receive
  <2>2. \A d \in DataSets : Ahead(d)' => Ahead(d)
    BY <2>1, AheadShrinks
  <2> QED
    BY <1>0, <2>1, <2>2, OnceQuiet
<1>4. ASSUME NEW l \in Listeners, TakeOrphans(l) PROVE OnceInv'
  <2> DEFINE here == Waiting(LiveOrphans, ScopeOf(pid[l]))
  <2>1. UNCHANGED <<consumed, nextPacket>> /\ Step(l) /\ ~Receive(l)
    BY <1>4 DEF TakeOrphans, Step, Receive
  <2>2. \A d \in DataSets : Ahead(d)' => Ahead(d)
    BY <2>1, AheadShrinks
  <2>3. \A p \in PacketIds : /\ orphans'[p].parked \subseteq orphans[p].parked
                             /\ p \in here => orphans'[p].parked = {}
    BY <1>0, <1>4, LiveOrphansKeepOrRemove DEF TakeOrphans, NoOrphan
  <2>4. \A d \in pending'[l] : d \in DataSets /\ d[1] \in here /\ d[2] \in orphans[d[1]].parked
    BY <1>0, <1>4 DEF TakeOrphans, TypeOK
  <2>5. \A m \in Listeners : m # l => pending'[m] = pending[m]
    BY <1>0, <1>4 DEF TakeOrphans, TypeOK
  <2> HIDE DEF here
  <2>6. InHand'
    <3> SUFFICES ASSUME NEW m \in Listeners, NEW d \in pending'[m]
                 PROVE  consumed[d] = 0 /\ d[2] \notin orphans'[d[1]].parked /\ ~Ahead(d)'
      BY <2>1 DEF InHand
    <3>1. CASE m = l
      <4>1. d \in DataSets /\ d[1] \in here /\ d[2] \in orphans[d[1]].parked /\ d[1] \in PacketIds
        BY <1>0, <2>4, <3>1
      <4>2. d = <<d[1], d[2]>>
        BY <1>0, <4>1
      <4>3. consumed[<<d[1], d[2]>>] = 0 /\ ~Ahead(<<d[1], d[2]>>)
        BY <1>h, <4>1
      <4>4. consumed[d] = 0 /\ ~Ahead(d)
        BY <4>2, <4>3
      <4> QED
        BY <2>2, <2>3, <4>1, <4>4
    <3>2. CASE m # l
      BY <1>0, <1>h, <2>2, <2>3, <2>5, <3>2
    <3> QED
      BY <3>1, <3>2
  <2>7. InBuffer' /\ ToCome' /\ DecodedAtMostOnce'
    BY <1>h, <2>1, <2>2, <2>3 DEF InBuffer, ToCome, DecodedAtMostOnce
  <2> QED
    BY <2>6, <2>7 DEF OnceInv
<1>5. ASSUME NEW l \in Listeners, BeginDataSet(l) PROVE OnceInv'
  <2>1. UNCHANGED <<consumed, orphans, nextPacket>> /\ Step(l) /\ ~Receive(l)
    BY <1>5 DEF BeginDataSet, AtSet, Step, Receive
  <2>2. \A d \in DataSets : Ahead(d)' => Ahead(d)
    BY <2>1, AheadShrinks
  <2>3. /\ pending'[l] = {<<pid[l], pos[l]>>}
        /\ \A m \in Listeners : m # l => pending'[m] = pending[m]
    BY <1>0, <1>5 DEF BeginDataSet, TypeOK
  <2>4. PICK b \in DataSets : b = <<pid[l], pos[l]>>
    BY <2>3, TypeStep DEF StructInv, TypeInv, TypeOK
  <2>5. Ahead(b) /\ ~Ahead(b)'
    BY <1>5, <2>4, AheadShrinks
  <2>6. consumed[b] = 0 /\ b[2] \notin orphans[b[1]].parked
    BY <1>0, <1>h, <2>4, <2>5
  <2>7. InHand'
    BY <1>h, <2>1, <2>2, <2>3, <2>4, <2>5, <2>6 DEF InHand
  <2>8. InBuffer' /\ ToCome' /\ DecodedAtMostOnce'
    BY <1>h, <2>1, <2>2 DEF InBuffer, ToCome, DecodedAtMostOnce
  <2> QED
    BY <2>7, <2>8 DEF OnceInv
<1>6. ASSUME NEW l \in Listeners, DecodeDataSet(l) PROVE OnceInv'
  <2>1. UNCHANGED <<orphans, nextPacket>> /\ Step(l) /\ ~Receive(l)
    BY <1>6 DEF DecodeDataSet, Step, Receive
  <2>2. \A d \in DataSets : Ahead(d)' => Ahead(d)
    BY <2>1, AheadShrinks
  <2>3. PICK b \in pending[l] : /\ pending'  = [pending EXCEPT ![l] = @ \ {b}]
                                /\ consumed' = [consumed EXCEPT ![b] = @ + 1]
    BY <1>6 DEF DecodeDataSet
  <2>4. b \in DataSets /\ b[1] < nextPacket /\ consumed[b] = 0 /\ ~Ahead(b)
        /\ b[2] \notin orphans[b[1]].parked
    BY <1>h
  <2>5. /\ \A m \in Listeners : pending'[m] \subseteq pending[m] \ {b}
        /\ consumed'[b] = 1
        /\ \A d \in DataSets : d # b => consumed'[d] = consumed[d]
    BY <1>0, <2>3, <2>4, HandsApart DEF TypeOK
  <2>6. InHand'
    BY <1>h, <2>1, <2>2, <2>5 DEF InHand
  <2>7. InBuffer'
    <3> SUFFICES ASSUME NEW p \in PacketIds, NEW k \in orphans[p].parked
                 PROVE  consumed'[<<p, k>>] = 0 /\ ~Ahead(<<p, k>>)'
      BY <2>1 DEF InBuffer
    <3>1. <<p, k>> # b
      BY <2>4
    <3> QED
      BY <1>h, <2>2, <2>5, <3>1
  <2>8. ToCome'
    BY <1>0, <1>h, <2>1, <2>2, <2>4, <2>5 DEF ToCome, PacketIds
  <2>9. DecodedAtMostOnce'
    BY <1>h, <2>5 DEF DecodedAtMostOnce
  <2> QED
    BY <2>6, <2>7, <2>8, <2>9 DEF OnceInv
<1>7. ASSUME NEW l \in Listeners, ParkDataSet(l) PROVE OnceInv'
  <2>1. UNCHANGED <<consumed, nextPacket>> /\ Step(l) /\ ~Receive(l)
    BY <1>7 DEF ParkDataSet, Step, Receive
  <2>2. \A d \in DataSets : Ahead(d)' => Ahead(d)
    BY <2>1, AheadShrinks
  <2>3. PICK b \in missing[l] : /\ orphans' = AfterPark(b)
                                /\ pending' = [pending EXCEPT ![l] = @ \ {b}]
    BY <1>7 DEF ParkDataSet
  <2>4. b \in pending[l]
    BY DEF StructInv, MissingOK
  <2>5. b \in DataSets /\ consumed[b] = 0 /\ ~Ahead(b)
    BY <1>h, <2>4
  <2>6. \A m \in Listeners : pending'[m] \subseteq pending[m] \ {b}
    BY <1>0, <2>3, <2>4, HandsApart DEF TypeOK
  <2>7. \A p \in PacketIds : \A k \in orphans'[p].parked : k \in orphans[p].parked \/ <<p, k>> = b
    BY <1>0, <2>3, <2>5, AfterParkAdds
  <2>8. InHand'
    <3> SUFFICES ASSUME NEW m \in Listeners, NEW d \in pending'[m]
                 PROVE  consumed[d] = 0 /\ d[2] \notin orphans'[d[1]].parked /\ ~Ahead(d)'
      BY <2>1 DEF InHand
    <3>1. d \in pending[m] /\ d # b
      BY <2>6
    <3>2. d \in DataSets /\ d = <<d[1], d[2]>> /\ d[1] \in PacketIds
      BY <1>0, <1>h, <3>1
    <3>3. d[2] \notin orphans'[d[1]].parked
      BY <1>h, <2>7, <3>1, <3>2
    <3> QED
      BY <1>h, <2>2, <3>1, <3>2, <3>3
  <2>9. InBuffer'
    BY <1>h, <2>1, <2>2, <2>5, <2>7 DEF InBuffer
  <2>10. ToCome' /\ DecodedAtMostOnce'
    BY <1>h, <2>1, <2>2 DEF ToCome, DecodedAtMostOnce
  <2> QED
    BY <2>8, <2>9, <2>10 DEF OnceInv
<1> QED
  BY <1>1, <1>2, <1>3, <1>4, <1>5, <1>6, <1>7, NextCases

\* No data set is decoded twice: its flows are counted once, however often it is
\* parked, taken for replay and parked again, and whatever the other listener does.
THEOREM DecodedOnce == Spec => []DecodedAtMostOnce
<1>1. Init => StructInv /\ OnceInv
  BY StructInit, OnceInit
<1>2. StructInv /\ OnceInv /\ [Next]_vars => StructInv' /\ OnceInv'
  BY StructStep, OnceStep
<1>3. OnceInv => DecodedAtMostOnce
  BY DEF OnceInv
<1> QED
  BY <1>1, <1>2, <1>3, PTL DEF Spec

-----------------------------------------------------------------------------
(* The limits.                                                             *)

\* Of the newest packets there are no more than asked for: all but the first come after it.
LEMMA NewestIsBounded ==
  ASSUME NEW S \in SUBSET Nat, IsFiniteSet(S), NEW n \in Nat \ {0}
  PROVE  IsFiniteSet(Newest(S, n)) /\ Cardinality(Newest(S, n)) <= n
<1> DEFINE N == Newest(S, n)
           After(m) == {q \in S : q > m}
<1>1. N \in SUBSET S /\ \A p \in N : Cardinality(After(p)) < n
  BY DEF Newest
<1>2. IsFiniteSet(N) /\ Cardinality(N) \in Nat
  BY <1>1, FS_Subset, FS_CardinalityType
<1>3. CASE N = {}
  BY <1>3, FS_EmptySet
<1>4. CASE N # {}
  <2>1. PICK m \in N : \A q \in N : m <= q
    BY <1>1, <1>4, FirstNumber
  <2>2. N \ {m} \in SUBSET After(m)
    <3>1. ASSUME NEW q \in N \ {m} PROVE q \in S /\ q > m
      <4>1. q \in N /\ q # m /\ q \in S /\ q \in Nat /\ m \in Nat
        BY <1>1, <2>1
      <4> QED
        BY <2>1, <4>1
    <3> QED
      BY <3>1
  <2>3. After(m) \in SUBSET S
    OBVIOUS
  <2>4. IsFiniteSet(After(m)) /\ Cardinality(After(m)) \in Nat
    BY <2>3, FS_Subset, FS_CardinalityType
  <2>5. Cardinality(N \ {m}) = Cardinality(N) - 1 /\ Cardinality(N \ {m}) <= Cardinality(After(m))
    BY <1>2, <2>2, <2>4, FS_RemoveElement, FS_Subset
  <2> QED
    BY <1>1, <1>2, <2>1, <2>4, <2>5
<1> QED
  BY <1>2, <1>3, <1>4

\* The entries of a scope are finitely many, and removing some leaves no more.
LEMMA KnownShrinks ==
  ASSUME NEW entries, NEW new, \A t \in TemplateIds : new[t] \in {entries[t], NotCached}
  PROVE  /\ IsFiniteSet(Known(entries)) /\ Cardinality(Known(entries)) \in Nat
         /\ IsFiniteSet(Known(new)) /\ Cardinality(Known(new)) \in Nat
         /\ Cardinality(Known(new)) <= Cardinality(Known(entries))
<1>1. Known(entries) \in SUBSET TemplateIds /\ Known(new) \in SUBSET Known(entries)
  BY DEF Known
<1>2. IsFiniteSet(Known(entries))
  BY <1>1, FiniteAssumption, FS_Subset
<1> QED
  BY <1>1, <1>2, FS_Subset, FS_CardinalityType

\* A definition that is cached makes room for itself.
LEMMA AfterInsertBounded ==
  ASSUME TypeOK, NEW entries \in [TemplateIds -> Nat \cup {NotCached}], NEW t \in TemplateIds,
         Cardinality(Known(entries)) <= TemplateLimit, NEW new \in AfterInsert(entries, t)
  PROVE  Cardinality(Known(new)) <= TemplateLimit
<1> DEFINE grown == [entries EXCEPT ![t] = clock]
<1>1. Known(grown) = Known(entries) \cup {t}
  BY DEF Known, TypeOK, NotCached
<1>2. IsFiniteSet(Known(entries)) /\ Cardinality(Known(entries)) \in Nat
  BY KnownShrinks
<1> HIDE DEF grown
<1>3. IsFiniteSet(Known(grown)) /\ Cardinality(Known(grown)) \in Nat
      /\ Cardinality(Known(grown)) <= Cardinality(Known(entries)) + 1
  <2> DEFINE before == Known(entries)
  <2>1. IsFiniteSet(before) /\ Cardinality(before) \in Nat
    BY <1>2
  <2> HIDE DEF before
  <2>2. /\ IsFiniteSet(before \cup {t})
        /\ Cardinality(before \cup {t}) = IF t \in before THEN Cardinality(before)
                                          ELSE Cardinality(before) + 1
    BY <2>1, FS_AddElement
  <2>3. /\ Cardinality(before \cup {t}) \in Nat
        /\ Cardinality(before \cup {t}) <= Cardinality(before) + 1
    BY <2>1, <2>2
  <2>4. Known(grown) = before \cup {t} /\ before = Known(entries)
    BY <1>1 DEF before
  <2> QED
    BY <2>2, <2>3, <2>4
<1>4. TemplateLimit \in Nat
  BY LimitAssumption
<1>5. CASE Cardinality(Known(grown)) <= TemplateLimit
  <2>1. new = grown
    BY <1>5 DEF AfterInsert, grown
  <2> QED
    BY <1>5, <2>1
<1>6. CASE ~(Cardinality(Known(grown)) <= TemplateLimit)
  <2>1. PICK u \in Oldest(grown) : new = [grown EXCEPT ![u] = NotCached]
    BY <1>6 DEF AfterInsert, grown
  <2>2. u \in Known(grown) /\ Known(new) = Known(grown) \ {u}
    BY <2>1 DEF Oldest, Known, grown
  <2>3. Cardinality(Known(new)) = Cardinality(Known(grown)) - 1
    BY <1>3, <2>2, FS_RemoveElement
  <2> QED
    BY <1>2, <1>3, <1>4, <2>3
<1> QED
  BY <1>5, <1>6

\* The packets that wait are finitely many, and with fewer parked there are no more.
LEMMA WaitingShrinks ==
  ASSUME NEW buffer, NEW less, NEW s,
         \A p \in PacketIds : ScopeOf(p) = s => less[p].parked \subseteq buffer[p].parked
  PROVE  /\ IsFiniteSet(Waiting(buffer, s)) /\ Cardinality(Waiting(buffer, s)) \in Nat
         /\ Cardinality(Waiting(less, s)) <= Cardinality(Waiting(buffer, s))
<1>1. Waiting(buffer, s) \in SUBSET PacketIds /\ Waiting(less, s) \in SUBSET Waiting(buffer, s)
  BY DEF Waiting
<1>2. IsFiniteSet(PacketIds)
  <2>1. 1 \in Int /\ MaxPackets \in Int
    BY BoundAssumption
  <2> QED
    BY <2>1, FS_Interval, Zenon DEF PacketIds
<1>3. IsFiniteSet(Waiting(buffer, s))
  BY <1>1, <1>2, FS_Subset
<1> QED
  BY <1>1, <1>3, FS_Subset, FS_CardinalityType

\* A data set that is parked makes room for its packet.
LEMMA AfterParkBounded ==
  ASSUME TypeOK, NEW d \in DataSets, NEW s \in Scopes,
         Cardinality(Waiting(orphans, s)) <= OrphanLimit
  PROVE  Cardinality(Waiting(AfterPark(d), s)) <= OrphanLimit
<1>1. d[1] \in PacketIds /\ OrphanLimit \in Nat \ {0}
  BY LimitAssumption DEF DataSets
<1>2. CASE s # ScopeOf(d[1])
  <2>1. \A p \in PacketIds : ScopeOf(p) = s => AfterPark(d)[p].parked \subseteq orphans[p].parked
    BY <1>1, <1>2, AfterParkAdds
  <2>2. /\ Cardinality(Waiting(orphans, s)) \in Nat
        /\ Cardinality(Waiting(AfterPark(d), s)) <= Cardinality(Waiting(orphans, s))
        /\ IsFiniteSet(Waiting(AfterPark(d), s)) /\ Cardinality(Waiting(AfterPark(d), s)) \in Nat
    BY <2>1, WaitingShrinks
  <2> QED
    BY <1>1, <2>2
<1>3. CASE s = ScopeOf(d[1])
  <2> DEFINE live  == LiveOrphans
             entry == IF live[d[1]].parked # {} THEN live[d[1]] ELSE [parked |-> {}, at |-> clock]
             grown == [live EXCEPT ![d[1]] = [entry EXCEPT !.parked = @ \cup {d[2]}]]
             here  == Waiting(grown, ScopeOf(d[1]))
             kept  == Newest(here, OrphanLimit)
  <2>1. AfterPark(d) = [p \in PacketIds |-> IF p \in here \ kept THEN NoOrphan ELSE grown[p]]
    BY DEF AfterPark
  <2> HIDE DEF grown
  <2>2. here \in SUBSET Nat /\ IsFiniteSet(here) /\ here \subseteq PacketIds
    <3>1. IsFiniteSet(here)
      BY WaitingShrinks
    <3>2. here \subseteq PacketIds
      BY DEF Waiting
    <3> QED
      BY <3>1, <3>2, BoundAssumption DEF PacketIds
  <2>3. IsFiniteSet(kept) /\ Cardinality(kept) <= OrphanLimit /\ Cardinality(kept) \in Nat
    BY <1>1, <2>2, NewestIsBounded, FS_CardinalityType
  <2> HIDE DEF kept
  <2>4. Waiting(AfterPark(d), s) \in SUBSET kept
    <3>1. SUFFICES ASSUME NEW p \in PacketIds, AfterPark(d)[p].parked # {}, ScopeOf(p) = s
                   PROVE  p \in kept
      BY DEF Waiting
    <3>2. p \notin here \ kept /\ grown[p].parked # {}
      BY <2>1, <3>1 DEF NoOrphan
    <3>3. p \in here
      BY <1>3, <3>1, <3>2 DEF Waiting
    <3> QED
      BY <3>2, <3>3
  <2> QED
    BY <1>1, <2>3, <2>4, FS_Subset, FS_CardinalityType
<1> QED
  BY <1>2, <1>3

LEMMA LimitsInit == Init => WithinLimits
<1> SUFFICES ASSUME Init, NEW s \in Scopes
             PROVE  Known(templates[s]) = {} /\ Waiting(orphans, s) = {}
  BY LimitAssumption, FS_EmptySet DEF WithinLimits
<1> QED
  BY DEF Init, Known, Waiting, NoOrphan

\* A step that leaves the scopes of packets alone and at most removes entries and orphans.
LEMMA ShrinkingKeepsLimits ==
  ASSUME TypeOK, WithinLimits,
         \A s \in Scopes, t \in TemplateIds : templates'[s][t] \in {templates[s][t], NotCached},
         \A p \in PacketIds : orphans'[p].parked \subseteq orphans[p].parked,
         \A p \in PacketIds : orphans'[p].parked # {} => ScopeOf(p)' = ScopeOf(p)
  PROVE  WithinLimits'
<1> SUFFICES ASSUME NEW s \in Scopes
             PROVE  /\ Cardinality(Known(templates'[s])) <= TemplateLimit
                    /\ Cardinality(Waiting(orphans, s)') <= OrphanLimit
  BY DEF WithinLimits, Known
<1>1. /\ Cardinality(Known(templates'[s])) \in Nat /\ Cardinality(Known(templates[s])) \in Nat
      /\ Cardinality(Known(templates'[s])) <= Cardinality(Known(templates[s]))
  BY KnownShrinks
<1>2. Waiting(orphans, s)' \in SUBSET Waiting(orphans, s)
  BY DEF Waiting
<1>3. IsFiniteSet(Waiting(orphans, s))
  BY WaitingShrinks
<1>4. /\ Cardinality(Waiting(orphans, s)') \in Nat /\ Cardinality(Waiting(orphans, s)) \in Nat
      /\ Cardinality(Waiting(orphans, s)') <= Cardinality(Waiting(orphans, s))
  BY <1>2, <1>3, FS_Subset, FS_CardinalityType
<1> QED
  BY <1>1, <1>4, LimitAssumption DEF WithinLimits

LEMMA LimitsStep == StructInv /\ WithinLimits /\ [Next]_vars => WithinLimits'
<1> SUFFICES ASSUME StructInv, WithinLimits, [Next]_vars PROVE WithinLimits'
  OBVIOUS
<1> USE DEF StructInv, TypeInv
<1>1. CASE Tick \/ UNCHANGED vars
  <2>1. UNCHANGED <<templates, orphans, packets>>
    BY <1>1 DEF Tick, vars
  <2> QED
    BY <2>1, ShrinkingKeepsLimits DEF ScopeOf
<1>2. ASSUME NEW l \in Listeners, Receive(l) PROVE WithinLimits'
  <2>1. UNCHANGED <<templates, orphans>>
    BY <1>2 DEF Receive
  <2>2. \A p \in PacketIds : orphans[p].parked # {} => ScopeOf(p)' = ScopeOf(p)
    <3>1. ASSUME NEW p \in PacketIds, NEW k \in orphans[p].parked PROVE p # nextPacket
      <4>1. IsDataSet(<<p, k>>) /\ p \in Nat /\ nextPacket \in Nat
        BY <3>1, BoundAssumption DEF ParkedOK, PacketIds, TypeOK
      <4> QED
        BY <4>1 DEF IsDataSet
    <3> QED
      BY <1>2, <3>1, ReceiveKeeps
  <2> QED
    BY <2>1, <2>2, ShrinkingKeepsLimits
<1>3. ASSUME NEW l \in Listeners,
             \/ SkipSet(l) \/ EndSet(l) \/ EndPacket(l) \/ BeginTemplateSet(l)
             \/ EndTemplateSet(l) \/ TakeOrphans(l) \/ BeginDataSet(l)
             \/ DecodeDataSet(l) \/ MissTemplate(l)
      PROVE  WithinLimits'
  <2>1. UNCHANGED packets /\ templates' \in {templates, LiveTemplates}
    BY <1>3 DEF SkipSet, EndSet, EndPacket, BeginTemplateSet, EndTemplateSet, TakeOrphans,
                BeginDataSet, DecodeDataSet, MissTemplate
  <2>2. \A s \in Scopes, t \in TemplateIds : templates'[s][t] \in {templates[s][t], NotCached}
    BY <2>1, LiveTemplatesKeepOrRemove
  <2>3. \A p \in PacketIds : orphans'[p].parked \subseteq orphans[p].parked
    <3>1. CASE TakeOrphans(l)
      <4>1. \A p \in PacketIds : orphans'[p] \in {NoOrphan, LiveOrphans[p]}
        BY <3>1 DEF TakeOrphans
      <4> QED
        BY <4>1, LiveOrphansKeepOrRemove DEF NoOrphan
    <3>2. CASE orphans' = orphans
      BY <3>2
    <3> QED
      BY <1>3, <3>1, <3>2
      DEF SkipSet, EndSet, EndPacket, BeginTemplateSet, EndTemplateSet, BeginDataSet,
          DecodeDataSet, MissTemplate
  <2> QED
    BY <2>1, <2>2, <2>3, ShrinkingKeepsLimits DEF ScopeOf
<1>4. ASSUME NEW l \in Listeners, InsertTemplate(l) PROVE WithinLimits'
  <2> DEFINE s == ScopeOf(pid[l])  t == CurrentSet(l).defs[def[l]]
  <2>1. pid[l] \in PacketIds /\ pos[l] \in 1 .. Len(packets[pid[l]].sets)
    BY <1>4, SetsType DEF InsertTemplate, TypeOK, Parsing, Positions
  <2>2. s \in Scopes /\ templates[s] \in [TemplateIds -> Nat \cup {NotCached}]
    BY <2>1 DEF TypeOK, ScopeOf
  <2>3. t \in TemplateIds
    BY <1>4, <2>1, SetsType DEF InsertTemplate, CurrentSet, FlowSet, TypeOK
  <2>4. PICK entries \in AfterInsert(templates[s], t) :
          templates' = [templates EXCEPT ![s] = entries]
    BY <1>4 DEF InsertTemplate
  <2>5. Cardinality(Known(entries)) <= TemplateLimit
    BY <2>2, <2>3, AfterInsertBounded DEF WithinLimits
  <2>6. UNCHANGED <<orphans, packets>>
    BY <1>4 DEF InsertTemplate
  <2>7. ASSUME NEW x \in Scopes PROVE Cardinality(Known(templates'[x])) <= TemplateLimit
    <3> HIDE DEF s
    <3>1. templates'[x] = IF x = s THEN entries ELSE templates[x]
      BY <2>2, <2>4 DEF TypeOK
    <3> QED
      BY <2>5, <3>1 DEF WithinLimits
  <2>8. ASSUME NEW x \in Scopes PROVE Waiting(orphans, x)' = Waiting(orphans, x)
    BY <2>6 DEF Waiting, ScopeOf
  <2> QED
    BY <2>7, <2>8 DEF WithinLimits, Known
<1>5. ASSUME NEW l \in Listeners, ParkDataSet(l) PROVE WithinLimits'
  <2>1. PICK d \in missing[l] : orphans' = AfterPark(d)
    BY <1>5 DEF ParkDataSet
  <2>2. d \in DataSets /\ UNCHANGED <<templates, packets>>
    BY <1>5 DEF ParkDataSet, TypeOK
  <2>3. ASSUME NEW x \in Scopes PROVE Cardinality(Waiting(orphans, x)') <= OrphanLimit
    <3>1. Waiting(orphans, x)' = Waiting(AfterPark(d), x)
      BY <2>1, <2>2 DEF Waiting, ScopeOf
    <3> QED
      BY <2>2, <3>1, AfterParkBounded DEF WithinLimits
  <2> QED
    BY <2>2, <2>3 DEF WithinLimits, Known
<1> QED
  BY <1>1, <1>2, <1>3, <1>4, <1>5, NextCases

\* The template cache and the orphan buffer keep within their limits in every scope,
\* for any limits, however the listeners park, replay and expire (cache_templates,
\* park_orphan, replay_orphans).
THEOREM LimitsHold == Spec => []WithinLimits
<1>1. Init => StructInv /\ WithinLimits
  BY StructInit, LimitsInit
<1>2. StructInv /\ WithinLimits /\ [Next]_vars => (StructInv /\ WithinLimits)'
  BY StructStep, LimitsStep
<1> QED
  BY <1>1, <1>2, PTL DEF Spec

-----------------------------------------------------------------------------
(* The refinement of FlowDelivery.                                         *)

\* A listener that waits for a datagram will parse it from its first flow set.
IdleAtFirst == \A l \in Listeners : pc[l] = "idle" => pos[l] = 1

DeliveryInv == StructInv /\ OnceInv /\ IdleAtFirst

\* What is held has not been decoded.
LEMMA HeldIsNotDecoded ==
  ASSUME DeliveryInv, NEW d \in DataSets
  PROVE  (Held(d) => consumed[d] = 0) /\ consumed[d] \in {0, 1}
<1>1. TypeOK /\ d = <<d[1], d[2]>> /\ d[1] \in PacketIds
  BY DataSetType DEF DeliveryInv, StructInv, TypeInv
<1>2. consumed[d] \in {0, 1}
  <2>1. consumed[d] \in Nat /\ consumed[d] <= 1
    BY <1>1 DEF TypeOK, DeliveryInv, OnceInv, DecodedAtMostOnce
  <2> QED
    BY <2>1
<1>3. ASSUME d[2] \in orphans[d[1]].parked PROVE consumed[d] = 0
  BY <1>1, <1>3 DEF DeliveryInv, OnceInv, InBuffer
<1>4. ASSUME NEW l \in Listeners, d \in pending[l] PROVE consumed[d] = 0
  BY <1>4 DEF DeliveryInv, OnceInv, InHand
<1>5. ASSUME Ahead(d) PROVE consumed[d] = 0
  BY <1>5 DEF DeliveryInv, OnceInv, ToCome
<1> QED
  BY <1>2, <1>3, <1>4, <1>5 DEF Held

\* The same after a step.
LEMMA HeldIsNotDecodedNext ==
  DeliveryInv' => (\A d \in DataSets : (Held(d) => consumed[d] = 0) /\ consumed[d] \in {0, 1})'
<1>1. DeliveryInv => \A d \in DataSets : (Held(d) => consumed[d] = 0) /\ consumed[d] \in {0, 1}
  BY HeldIsNotDecoded
<1> QED
  BY <1>1, PTL

LEMMA IdleStep == TypeInv /\ IdleAtFirst /\ [Next]_vars => IdleAtFirst'
<1> SUFFICES ASSUME TypeInv, IdleAtFirst, [Next]_vars, NEW m \in Listeners, pc'[m] = "idle"
             PROVE  pos'[m] = 1
  BY DEF IdleAtFirst
<1>0. pc[m] = "idle" => pos[m] = 1
  BY DEF IdleAtFirst
<1>1. CASE Tick \/ UNCHANGED vars
  BY <1>0, <1>1 DEF Tick, vars
<1>2. ASSUME NEW l \in Listeners, EndPacket(l) PROVE pos'[m] = 1
  BY <1>0, <1>2 DEF EndPacket, TypeInv, TypeOK
<1>3. ASSUME NEW l \in Listeners, SkipSet(l) \/ EndSet(l) PROVE pos'[m] = 1
  BY <1>0, <1>3 DEF SkipSet, EndSet, AtSet, TypeInv, TypeOK
<1>4. ASSUME NEW l \in Listeners,
             \/ Receive(l) \/ BeginTemplateSet(l) \/ InsertTemplate(l) \/ EndTemplateSet(l)
             \/ TakeOrphans(l) \/ BeginDataSet(l) \/ DecodeDataSet(l) \/ MissTemplate(l)
             \/ ParkDataSet(l)
      PROVE  pos'[m] = 1
  <2>1. pos' = pos /\ pc'[m] = pc[m]
    BY <1>4 DEF Receive, BeginTemplateSet, InsertTemplate, EndTemplateSet, TakeOrphans,
                BeginDataSet, DecodeDataSet, MissTemplate, ParkDataSet, TypeInv, TypeOK
  <2> QED
    BY <1>0, <2>1
<1> QED
  BY <1>1, <1>2, <1>3, <1>4, NextCases

\* The invariant of the refinement.
LEMMA DeliveryStep == DeliveryInv /\ [Next]_vars => DeliveryInv'
  BY StructStep, OnceStep, IdleStep DEF DeliveryInv, StructInv

\* A datagram received turns its own data sets from unseen to held, and no other.
LEMMA ReceiveArrives ==
  ASSUME DeliveryInv, NEW l \in Listeners, Receive(l), NEW d \in DataSets
  PROVE  StatusOf(d)' = StatusOf(d) \/ (StatusOf(d) = "unseen" /\ StatusOf(d)' = "held")
<1>0. TypeInv /\ TypeOK /\ StructInv /\ OnceInv /\ nextPacket \in Nat
      /\ d[1] \in PacketIds /\ d[1] \in Nat /\ d[2] \in Nat /\ d[2] >= 1
  <2>1. TypeInv /\ TypeOK /\ StructInv /\ OnceInv
    BY DEF DeliveryInv, StructInv, TypeInv
  <2>2. nextPacket \in Nat
    BY <2>1 DEF TypeOK
  <2>3. d[1] \in PacketIds /\ d[2] \in 1..MaxSets
    BY <2>1, DataSetType
  <2>4. d[1] \in Nat
    BY <2>3 DEF PacketIds
  <2>5. d[2] \in Nat /\ d[2] >= 1
    BY <2>3, BoundAssumption
  <2> QED
    BY <2>1, <2>2, <2>3, <2>4, <2>5
<1>1. /\ nextPacket' = nextPacket + 1
      /\ \A p \in PacketIds : p # nextPacket => packets'[p] = packets[p]
  BY <1>0, ReceiveKeeps
<1>2. /\ pc[l] = "idle" /\ pc'[l] = "parse" /\ pid'[l] = nextPacket
      /\ \A m \in Listeners \ {l} : pc'[m] = pc[m] /\ pid'[m] = pid[m]
      /\ UNCHANGED <<pos, pending, orphans, consumed>>
  BY <1>0 DEF Receive, TypeOK
<1>3. CASE d[1] = nextPacket
  <2>1. ~IsDataSet(d) /\ consumed[d] = 0
    BY <1>0, <1>3 DEF IsDataSet, OnceInv, ToCome
  <2>2. pos[l] = 1
    BY <1>2 DEF DeliveryInv, IdleAtFirst
  <2>3. Ahead(d)'
    BY <1>0, <1>2, <1>3, <2>2 DEF Ahead
  <2>4. Held(d)'
    BY <2>3 DEF Held
  <2>5. consumed'[d] = 0
    BY <1>2, <2>1
  <2> QED
    BY <2>1, <2>4, <2>5 DEF StatusOf
<1>4. CASE d[1] # nextPacket
  <2>1. IsDataSet(d)' <=> IsDataSet(d)
    BY <1>0, <1>1, <1>4 DEF IsDataSet
  <2>2. Ahead(d)' <=> Ahead(d)
    BY <1>2, <1>4 DEF Ahead
  <2>3. Held(d)' <=> Held(d)
    BY <1>2, <2>2 DEF Held
  <2> QED
    BY <1>2, <2>1, <2>3 DEF StatusOf
<1> QED
  BY <1>3, <1>4

\* A decoding takes one data set that is held, and leaves the others where they are.
LEMMA DecodeDecodes ==
  ASSUME DeliveryInv, DeliveryInv', NEW l \in Listeners, DecodeDataSet(l)
  PROVE  \E b \in DataSets : /\ StatusOf(b) = "held" /\ StatusOf(b)' = "decoded"
                             /\ \A d \in DataSets : d # b => StatusOf(d)' = StatusOf(d)
<1>0. TypeOK /\ StructInv /\ OnceInv
  BY DEF DeliveryInv, StructInv, TypeInv
<1>1. PICK b \in pending[l] : /\ pending'  = [pending EXCEPT ![l] = @ \ {b}]
                              /\ consumed' = [consumed EXCEPT ![b] = @ + 1]
  BY DEF DecodeDataSet
<1>2. b \in DataSets /\ IsDataSet(b) /\ consumed[b] = 0 /\ Held(b)
  BY <1>0, HeldReceived DEF StructInv, PendingOK, OnceInv, InHand, Held
<1>3. /\ UNCHANGED <<packets, nextPacket, pc, pid, pos, orphans>>
      /\ consumed'[b] = 1
      /\ \A d \in DataSets : d # b => consumed'[d] = consumed[d]
      /\ \A m \in Listeners : \A d : d # b => (d \in pending'[m] <=> d \in pending[m])
  BY <1>0, <1>1, <1>2 DEF DecodeDataSet, TypeOK
<1>4. \A d \in DataSets : IsDataSet(d)' = IsDataSet(d)
  BY <1>3 DEF IsDataSet
<1>5. StatusOf(b) = "held" /\ StatusOf(b)' = "decoded"
  <2>1. ~Held(b)'
    <3>1. \A d \in DataSets : Held(d)' => consumed'[d] = 0
      BY HeldIsNotDecodedNext
    <3> QED
      BY <1>2, <1>3, <3>1
  <2> QED
    BY <1>2, <1>3, <1>4, <2>1 DEF StatusOf
<1>6. ASSUME NEW d \in DataSets, d # b PROVE StatusOf(d)' = StatusOf(d)
  <2>1. Ahead(d)' <=> Ahead(d)
    BY <1>3 DEF Ahead
  <2>2. Held(d)' <=> Held(d)
    BY <1>3, <1>6, <2>1 DEF Held
  <2> QED
    BY <1>3, <1>4, <1>6, <2>2 DEF StatusOf
<1> QED
  BY <1>2, <1>5, <1>6

\* No other step takes up what is not held.
LEMMA OtherStepsHoldNoMore ==
  ASSUME DeliveryInv, [Next]_vars, ~\E l \in Listeners : Receive(l) \/ DecodeDataSet(l),
         NEW d \in DataSets
  PROVE  StatusOf(d)' = StatusOf(d) \/ (StatusOf(d) = "held" /\ StatusOf(d)' = "dropped")
<1>0. TypeOK /\ TypeInv /\ StructInv /\ OnceInv /\ d = <<d[1], d[2]>> /\ d[1] \in PacketIds
  BY DataSetType DEF DeliveryInv, StructInv, TypeInv
<1>1. SUFFICES UNCHANGED <<packets, nextPacket, consumed>> /\ (Held(d)' => Held(d))
  <2>1. Held(d) => consumed[d] = 0
    BY HeldIsNotDecoded
  <2> QED
    BY <2>1 DEF StatusOf, IsDataSet
<1>2. CASE Tick \/ UNCHANGED vars
  BY <1>2 DEF Tick, vars, Held, Ahead
<1>3. ASSUME NEW l \in Listeners,
             \/ SkipSet(l) \/ EndSet(l) \/ EndPacket(l) \/ BeginTemplateSet(l)
             \/ InsertTemplate(l) \/ EndTemplateSet(l) \/ MissTemplate(l)
      PROVE  UNCHANGED <<packets, nextPacket, consumed>> /\ (Held(d)' => Held(d))
  <2>1. UNCHANGED <<packets, nextPacket, consumed, pending, orphans>> /\ Step(l) /\ ~Receive(l)
    BY <1>0, <1>3 DEF SkipSet, EndSet, EndPacket, BeginTemplateSet, InsertTemplate,
                EndTemplateSet, MissTemplate, Step, Receive
  <2>2. Ahead(d)' => Ahead(d)
    BY <1>0, <2>1, AheadShrinks
  <2> QED
    BY <2>1, <2>2 DEF Held
<1>4. ASSUME NEW l \in Listeners, TakeOrphans(l)
      PROVE  UNCHANGED <<packets, nextPacket, consumed>> /\ (Held(d)' => Held(d))
  <2>1. UNCHANGED <<packets, nextPacket, consumed>> /\ Step(l) /\ ~Receive(l)
    BY <1>4 DEF TakeOrphans, Step, Receive
  <2>2. Ahead(d)' => Ahead(d)
    BY <1>0, <2>1, AheadShrinks
  <2>3. \A p \in PacketIds : orphans'[p].parked \subseteq orphans[p].parked
    BY <1>0, <1>4, LiveOrphansKeepOrRemove DEF TakeOrphans, NoOrphan
  <2>4. \A m \in Listeners : d \in pending'[m] => d \in pending[m] \/ d[2] \in orphans[d[1]].parked
    BY <1>0, <1>4 DEF TakeOrphans, TypeOK
  <2> QED
    BY <1>0, <2>1, <2>2, <2>3, <2>4 DEF Held
<1>5. ASSUME NEW l \in Listeners, BeginDataSet(l)
      PROVE  UNCHANGED <<packets, nextPacket, consumed>> /\ (Held(d)' => Held(d))
  <2>1. UNCHANGED <<packets, nextPacket, consumed, orphans>> /\ Step(l) /\ ~Receive(l)
    BY <1>5 DEF BeginDataSet, AtSet, Step, Receive
  <2>2. Ahead(d)' => Ahead(d)
    BY <1>0, <2>1, AheadShrinks
  <2>3. d = <<pid[l], pos[l]>> => Ahead(d)
    BY <1>0, <1>5, AheadShrinks
  <2>4. \A m \in Listeners : d \in pending'[m] => d \in pending[m] \/ d = <<pid[l], pos[l]>>
    BY <1>0, <1>5 DEF BeginDataSet, TypeOK
  <2> QED
    BY <2>1, <2>2, <2>3, <2>4 DEF Held
<1>6. ASSUME NEW l \in Listeners, ParkDataSet(l)
      PROVE  UNCHANGED <<packets, nextPacket, consumed>> /\ (Held(d)' => Held(d))
  <2>1. UNCHANGED <<packets, nextPacket, consumed>> /\ Step(l) /\ ~Receive(l)
    BY <1>6 DEF ParkDataSet, Step, Receive
  <2>2. Ahead(d)' => Ahead(d)
    BY <1>0, <2>1, AheadShrinks
  <2>3. PICK b \in missing[l] : /\ orphans' = AfterPark(b)
                                /\ pending' = [pending EXCEPT ![l] = @ \ {b}]
    BY <1>6 DEF ParkDataSet
  <2>4. b \in pending[l] /\ b \in DataSets
    BY <1>0, HeldReceived DEF StructInv, MissingOK
  <2>5. d[2] \in orphans'[d[1]].parked => d[2] \in orphans[d[1]].parked \/ d = b
    <3>1. b = <<b[1], b[2]>>
      BY <1>0, <2>4, DataSetType
    <3> QED
      BY <1>0, <2>3, <2>4, <3>1, AfterParkAdds
  <2>6. \A m \in Listeners : d \in pending'[m] => d \in pending[m]
    BY <1>0, <2>3 DEF TypeOK
  <2> QED
    BY <2>1, <2>2, <2>4, <2>5, <2>6 DEF Held
<1> QED
  BY <1>2, <1>3, <1>4, <1>5, <1>6, NextCases

\* The decoder implements FlowDelivery: for every number of listeners, scopes, packets
\* and templates, and with any limits, each data set is held until it is decoded or
\* dropped, and both are final.
THEOREM ImplementsDelivery == Spec => DeliversOrDrops
<1> DEFINE status == [d \in DataSets |-> StatusOf(d)]
<1>1. Init => DeliveryInv
  BY StructInit, OnceInit DEF DeliveryInv, IdleAtFirst, Init
<1>2. DeliveryInv /\ [Next]_vars => DeliveryInv'
  BY DeliveryStep
<1>3. status = [d \in DataSets |-> StatusOf(d)]
  OBVIOUS
<1>4. status' = [d \in DataSets |-> StatusOf(d)']
  OBVIOUS
<1>5. Init => Delivery!Init
  <2> SUFFICES ASSUME Init, NEW d \in DataSets PROVE StatusOf(d) = "unseen"
    BY <1>3 DEF Delivery!Init
  <2>1. d[1] \in PacketIds /\ packets[d[1]].sets = <<>> /\ d[2] >= 1 /\ d[2] \in Nat
    BY DEF Init, DataSets
  <2>2. ~(d[2] <= Len(packets[d[1]].sets))
    BY <2>1
  <2> QED
    BY <2>2 DEF StatusOf, IsDataSet
<1>6. DeliveryInv /\ [Next]_vars => [Delivery!Next]_status
  <2> SUFFICES ASSUME DeliveryInv, [Next]_vars PROVE Delivery!Next
    OBVIOUS
  <2>0. DeliveryInv'
    BY DeliveryStep
  <2>1. status' \in [DataSets -> Delivery!Statuses]
    <3>1. \A d \in DataSets : (Held(d)' => consumed'[d] = 0) /\ consumed'[d] \in {0, 1}
      BY <2>0, HeldIsNotDecodedNext
    <3> QED
      BY <1>4, <3>1 DEF Delivery!Statuses, StatusOf
  <2>2. \A d \in DataSets : status[d] = StatusOf(d) /\ status'[d] = StatusOf(d)'
    BY <1>3, <1>4
  <2>3. CASE \E l \in Listeners : Receive(l)
    <3>1. \A d \in DataSets :
            StatusOf(d)' = StatusOf(d) \/ (StatusOf(d) = "unseen" /\ StatusOf(d)' = "held")
      BY <2>3, ReceiveArrives
    <3> HIDE DEF status
    <3>2. Delivery!Arrive
      BY <2>1, <2>2, <3>1 DEF Delivery!Arrive, Delivery!Move, status
    <3> QED
      BY <3>2 DEF Delivery!Next
  <2>4. CASE \E l \in Listeners : DecodeDataSet(l)
    <3>1. PICK b \in DataSets : /\ StatusOf(b) = "held" /\ StatusOf(b)' = "decoded"
                                /\ \A d \in DataSets : d # b => StatusOf(d)' = StatusOf(d)
      BY <2>0, <2>4, DecodeDecodes
    <3>2. status' = [status EXCEPT ![b] = "decoded"] /\ status[b] = "held"
      BY <1>3, <1>4, <3>1
    <3>3. Delivery!Decode
      BY <3>2 DEF Delivery!Decode
    <3> QED
      BY <3>3 DEF Delivery!Next
  <2>5. CASE ~\E l \in Listeners : Receive(l) \/ DecodeDataSet(l)
    <3>1. \A d \in DataSets :
            StatusOf(d)' = StatusOf(d) \/ (StatusOf(d) = "held" /\ StatusOf(d)' = "dropped")
      BY <2>5, OtherStepsHoldNoMore
    <3>2. Delivery!Drop
      BY <2>1, <2>2, <3>1 DEF Delivery!Drop, Delivery!Move, status
    <3> QED
      BY <3>2 DEF Delivery!Next
  <2> QED
    BY <2>3, <2>4, <2>5
<1> QED
  BY <1>1, <1>2, <1>5, <1>6, PTL DEF Spec, DeliversOrDrops, Delivery!Spec

-----------------------------------------------------------------------------
(* What is lost, and why.                                                  *)

\* Where one packet is left out of the newest n, there are n of them, all newer.
LEMMA NewestIsFull ==
  ASSUME NEW M \in Nat, NEW S \in SUBSET (1 .. M), NEW n \in Nat \ {0}, NEW p \in S \ Newest(S, n)
  PROVE  Cardinality(Newest(S, n)) = n /\ \A q \in Newest(S, n) : q > p
<1> DEFINE N == Newest(S, n)
           After(m) == {q \in S : q > m}
<1>0. S \in SUBSET Nat /\ IsFiniteSet(S)
  <2>1. IsFiniteSet(1 .. M)
    BY FS_Interval
  <2>2. IsFiniteSet(S)
    BY <2>1, FS_Subset
  <2> QED
    BY <2>2
<1>1. /\ N \in SUBSET S /\ \A q \in N : Cardinality(After(q)) < n
      /\ \A q \in S \ N : ~(Cardinality(After(q)) < n)
  BY DEF Newest
<1>2. \A m : After(m) \in SUBSET S /\ IsFiniteSet(After(m)) /\ Cardinality(After(m)) \in Nat
  <2>1. \A m : After(m) \in SUBSET S
    OBVIOUS
  <2> QED
    BY <1>0, <2>1, FS_Subset, FS_CardinalityType
<1>3. IsFiniteSet(N) /\ Cardinality(N) \in Nat /\ Cardinality(N) <= n
  BY <1>0, NewestIsBounded, FS_CardinalityType
<1> HIDE DEF N
<1>4. ASSUME NEW q \in N PROVE q > p
  <2>1. SUFFICES ASSUME ~(q > p) PROVE FALSE
    OBVIOUS
  <2>2. After(p) \in SUBSET After(q)
    <3>1. ASSUME NEW r \in S, r > p PROVE r > q
      <4>1. r \in Nat /\ p \in Nat /\ q \in Nat
        BY <1>0, <1>1
      <4> QED
        BY <2>1, <3>1, <4>1
    <3> QED
      BY <3>1
  <2>3. Cardinality(After(p)) <= Cardinality(After(q))
    BY <1>2, <2>2, FS_Subset
  <2>4. p \in S \ N
    BY DEF N
  <2>5. Cardinality(After(q)) < n /\ ~(Cardinality(After(p)) < n)
    BY <1>1, <2>4
  <2>6. Cardinality(After(p)) \in Nat /\ Cardinality(After(q)) \in Nat
    BY <1>2
  <2> HIDE DEF After
  <2> QED
    BY <2>3, <2>5, <2>6
<1>5. PICK y \in S \ N : \A q \in S \ N : q <= y
  <2> DEFINE T == {M - q : q \in S \ N}
  <2>1. T \in SUBSET Nat
    OBVIOUS
  <2>2. M - p \in T
    BY DEF N
  <2> HIDE DEF T
  <2>3. PICK m \in T : \A t \in T : m <= t
    BY <2>1, <2>2, FirstNumber
  <2>4. PICK y \in S \ N : m = M - y
    BY DEF T
  <2>5. ASSUME NEW q \in S \ N PROVE q <= y
    <3>1. M - y <= M - q
      BY <2>3, <2>4 DEF T
    <3>2. q \in 1 .. M /\ y \in 1 .. M
      OBVIOUS
    <3> QED
      BY <3>1, <3>2
  <2> QED
    BY <2>4, <2>5
<1>6. After(y) \in SUBSET N
  <2>1. ASSUME NEW q \in S, q > y PROVE q \in N
    BY <1>0, <1>5, <2>1
  <2> QED
    BY <2>1
<1>7. Cardinality(After(y)) <= Cardinality(N)
  BY <1>3, <1>6, FS_Subset
<1>8. ~(Cardinality(After(y)) < n) /\ Cardinality(After(y)) \in Nat
  BY <1>1, <1>2, <1>5
<1> HIDE DEF After
<1>9. Cardinality(N) = n
  BY <1>3, <1>7, <1>8
<1> QED
  BY <1>4, <1>9 DEF N

\* A data set that is parked, or alive when another is, stays unless its scope is full of
\* newer packets.
LEMMA EvictedByNewer ==
  ASSUME TypeOK, NEW b \in DataSets, NEW d \in DataSets,
         d = b \/ d[2] \in LiveOrphans[d[1]].parked,
         d[2] \notin AfterPark(b)[d[1]].parked
  PROVE  LET stay == Waiting(AfterPark(b), ScopeOf(d[1]))
         IN  Cardinality(stay) = OrphanLimit /\ \A q \in stay : q > d[1]
<1> DEFINE live  == LiveOrphans
           entry == IF live[b[1]].parked # {} THEN live[b[1]] ELSE [parked |-> {}, at |-> clock]
           added == [entry EXCEPT !.parked = @ \cup {b[2]}]
           grown == [live EXCEPT ![b[1]] = added]
           here  == Waiting(grown, ScopeOf(b[1]))
           kept  == Newest(here, OrphanLimit)
<1>1. b[1] \in PacketIds /\ b[2] \in 1 .. MaxSets /\ d[1] \in PacketIds
  BY DEF DataSets
<1>2. live \in [PacketIds -> [parked: SUBSET (1 .. MaxSets), at: Nat]]
  BY LiveOrphansKeepOrRemove
<1>3. entry \in [parked: SUBSET (1 .. MaxSets), at: Nat] /\ live[b[1]].parked \subseteq entry.parked
  BY <1>1, <1>2 DEF TypeOK
<1>4. added.parked = entry.parked \cup {b[2]}
  BY <1>3
<1>5. \A p \in PacketIds : grown[p] = IF p = b[1] THEN added ELSE live[p]
  BY <1>1, <1>2
<1>6. AfterPark(b) = [p \in PacketIds |-> IF p \in here \ kept THEN NoOrphan ELSE grown[p]]
  BY DEF AfterPark
<1> HIDE DEF grown, added, entry
<1>7. d[2] \in grown[d[1]].parked
  <2>1. CASE d = b
    BY <1>1, <1>4, <1>5, <2>1
  <2>2. CASE d[2] \in live[d[1]].parked
    BY <1>1, <1>3, <1>4, <1>5, <2>2
  <2> QED
    BY <2>1, <2>2
<1> HIDE DEF live
<1>8. d[1] \in here \ kept
  BY <1>1, <1>6, <1>7
<1>9. ScopeOf(d[1]) = ScopeOf(b[1])
  BY <1>8 DEF Waiting
<1>10. Waiting(AfterPark(b), ScopeOf(b[1])) = kept
  <2>1. kept \subseteq here
    BY DEF Newest
  <2>2. here = {p \in PacketIds : grown[p].parked # {} /\ ScopeOf(p) = ScopeOf(b[1])}
    BY DEF Waiting
  <2> HIDE DEF here, kept
  <2>3. \A p \in PacketIds : AfterPark(b)[p].parked # {} <=>
                               p \notin here \ kept /\ grown[p].parked # {}
    BY <1>6 DEF NoOrphan
  <2> QED
    BY <2>1, <2>2, <2>3 DEF Waiting
<1>11. here \in SUBSET (1 .. MaxPackets) /\ MaxPackets \in Nat /\ OrphanLimit \in Nat \ {0}
  BY BoundAssumption, LimitAssumption DEF Waiting, PacketIds
<1> HIDE DEF here
<1>12. Cardinality(kept) = OrphanLimit /\ \A q \in kept : q > d[1]
  BY <1>8, <1>11, NewestIsFull
<1> QED
  BY <1>9, <1>10, <1>12

\* The parser passes over a data set only to hand it on.
LEMMA AheadStays ==
  ASSUME StructInv, NEW d \in DataSets, IsDataSet(d), Ahead(d), NEW l \in Listeners, Step(l)
  PROVE  Ahead(d)' \/ (BeginDataSet(l) /\ d = <<pid[l], pos[l]>>)
<1> USE DEF StructInv, TypeInv
<1>0. d[2] \in Nat /\ d = <<d[1], d[2]>> /\ d[1] \in PacketIds
  BY DataSetType
<1>1. PICK m \in Listeners : /\ pid[m] = d[1] /\ pc[m] # "idle"
                             /\ pos[m] < d[2] \/ (pos[m] = d[2] /\ pc[m] = "parse")
  BY DEF Ahead
<1>2. pos[m] \in Nat
  BY DEF TypeOK
<1>3. CASE l # m
  <2>1. pc'[m] = pc[m] /\ pid'[m] = pid[m] /\ pos'[m] = pos[m]
    BY <1>3 DEF Step, Receive, SkipSet, EndSet, EndPacket, BeginTemplateSet, InsertTemplate,
                EndTemplateSet, TakeOrphans, BeginDataSet, DecodeDataSet, MissTemplate,
                ParkDataSet, TypeOK
  <2> QED
    BY <1>1, <2>1 DEF Ahead
<1>4. CASE l = m
  <2>1. pos[m] = d[2] => CurrentSet(m).kind = "data"
    BY <1>0, <1>1 DEF IsDataSet, CurrentSet
  <2>2. ~Receive(l)
    BY <1>1, <1>4 DEF Receive
  <2>3. CASE SkipSet(l)
    <3>1. pos[m] < d[2] /\ pos'[m] = pos[m] + 1 /\ pc[m] = "parse" /\ UNCHANGED <<pc, pid>>
      BY <1>1, <1>4, <2>1, <2>3 DEF SkipSet, AtSet, TypeOK
    <3>2. pos'[m] < d[2] \/ pos'[m] = d[2]
      BY <1>0, <1>2, <3>1
    <3> QED
      BY <1>1, <3>1, <3>2 DEF Ahead
  <2>4. CASE EndSet(l)
    <3>1. pos[m] < d[2] /\ pos'[m] = pos[m] + 1 /\ pc'[m] = "parse" /\ UNCHANGED pid
      BY <1>1, <1>4, <2>4 DEF EndSet, TypeOK
    <3>2. pos'[m] < d[2] \/ pos'[m] = d[2]
      BY <1>0, <1>2, <3>1
    <3> QED
      BY <1>1, <3>1, <3>2 DEF Ahead
  <2>5. ~EndPacket(l)
    <3>1. SUFFICES ASSUME EndPacket(l) PROVE FALSE
      OBVIOUS
    <3>2. pos[m] > Len(packets[d[1]].sets) /\ d[2] <= Len(packets[d[1]].sets)
      BY <1>1, <1>4, <3>1 DEF EndPacket, IsDataSet
    <3>3. Len(packets[d[1]].sets) \in Nat
      BY <1>0, SetsType DEF TypeOK
    <3> QED
      BY <1>0, <1>1, <1>2, <3>2, <3>3
  <2>6. CASE BeginDataSet(l)
    <3>1. pc[m] = "parse" /\ pc'[m] = "decode" /\ UNCHANGED <<pid, pos>>
      BY <1>4, <2>6 DEF BeginDataSet, AtSet, TypeOK
    <3>2. CASE pos[m] = d[2]
      BY <1>0, <1>1, <1>4, <2>6, <3>2
    <3>3. CASE pos[m] < d[2]
      BY <1>1, <3>1, <3>3 DEF Ahead
    <3> QED
      BY <1>1, <3>2, <3>3
  <2>7. CASE \/ BeginTemplateSet(l) \/ InsertTemplate(l) \/ EndTemplateSet(l)
             \/ TakeOrphans(l) \/ DecodeDataSet(l) \/ MissTemplate(l) \/ ParkDataSet(l)
    <3>1. pc'[m] # "idle" /\ UNCHANGED <<pid, pos>>
      BY <1>4, <2>7 DEF BeginTemplateSet, InsertTemplate, EndTemplateSet, TakeOrphans,
                        DecodeDataSet, MissTemplate, ParkDataSet, TypeOK
    <3>2. pos[m] < d[2]
      BY <1>1, <1>4, <2>1, <2>7 DEF BeginTemplateSet, InsertTemplate, EndTemplateSet,
                        TakeOrphans, DecodeDataSet, MissTemplate, ParkDataSet, AtSet
    <3> QED
      BY <1>1, <3>1, <3>2 DEF Ahead
  <2> QED
    BY <2>2, <2>3, <2>4, <2>5, <2>6, <2>7 DEF Step
<1> QED
  BY <1>3, <1>4

\* A data set that is not held any more, and was not decoded.
Lost(d) == IsDataSet(d) /\ Held(d) /\ ~Held(d)' /\ consumed'[d] = consumed[d]

Justified(d) ==
  \/ d[2] \in orphans[d[1]].parked /\ clock - orphans[d[1]].at > OrphanTTL
  \/ /\ Cardinality(Waiting(orphans', ScopeOf(d[1]))) = OrphanLimit
     /\ \A q \in Waiting(orphans', ScopeOf(d[1])) : q > d[1]

LEMMA LossJustified ==
  ASSUME StructInv, [Next]_vars, NEW d \in DataSets, Lost(d)
  PROVE  Justified(d)
<1> USE DEF StructInv, TypeInv
<1>0. /\ TypeOK /\ d = <<d[1], d[2]>> /\ d[1] \in PacketIds
      /\ ~Ahead(d)' /\ d[2] \notin orphans'[d[1]].parked
      /\ \A m \in Listeners : d \notin pending'[m]
  BY DataSetType DEF Lost, Held
<1>a. d[2] \in orphans[d[1]].parked =>
        Justified(d) \/ (clock - orphans[d[1]].at <= OrphanTTL /\ LiveOrphans[d[1]] = orphans[d[1]])
  <2>1. orphans[d[1]].at \in Nat /\ clock \in Nat /\ OrphanTTL \in Nat
    BY <1>0, LimitAssumption DEF TypeOK
  <2>2. clock - orphans[d[1]].at <= OrphanTTL => LiveOrphans[d[1]] = orphans[d[1]]
    BY <1>0 DEF LiveOrphans
  <2> QED
    BY <2>1, <2>2 DEF Justified
<1>1. CASE Tick \/ UNCHANGED vars
  BY <1>1 DEF Tick, vars, Lost, Held, Ahead
<1>2. ASSUME NEW l \in Listeners, Step(l) PROVE Justified(d)
  <2>1. CASE BeginDataSet(l) /\ d = <<pid[l], pos[l]>>
    <3>1. d \in pending'[l]
      BY <2>1 DEF BeginDataSet, TypeOK
    <3> QED
      BY <1>0, <3>1
  <2>2. CASE ~(BeginDataSet(l) /\ d = <<pid[l], pos[l]>>)
    <3>0. (\E m \in Listeners : d \in pending[m]) \/ d[2] \in orphans[d[1]].parked
      BY <1>0, <1>2, <2>2, AheadStays DEF Lost, Held
    <3>1. CASE TakeOrphans(l)
      <4>1. pending[l] = {}
        BY <3>1 DEF TakeOrphans, PendingOK
      <4>2. \A m \in Listeners : m # l => pending'[m] = pending[m]
        BY <3>1 DEF TakeOrphans, TypeOK
      <4>3. d[2] \in orphans[d[1]].parked
        BY <1>0, <3>0, <4>1, <4>2
      <4> DEFINE here == Waiting(LiveOrphans, ScopeOf(pid[l]))
      <4>4. CASE d[1] \in here
        <5>1. d \in pending'[l]
          BY <3>1, <4>3, <4>4 DEF TakeOrphans, TypeOK
        <5> QED
          BY <1>0, <5>1
      <4>5. CASE d[1] \notin here
        <5>1. orphans'[d[1]] = LiveOrphans[d[1]]
          BY <1>0, <3>1, <4>5 DEF TakeOrphans
        <5> QED
          BY <1>0, <1>a, <4>3, <5>1
      <4> QED
        BY <4>4, <4>5
    <3>2. CASE ParkDataSet(l)
      <4>1. PICK b \in missing[l] : /\ orphans' = AfterPark(b)
                                    /\ pending' = [pending EXCEPT ![l] = @ \ {b}]
        BY <3>2 DEF ParkDataSet
      <4>2. b \in DataSets
        BY DEF TypeOK
      <4>3. d = b \/ d[2] \in orphans[d[1]].parked
        BY <1>0, <3>0, <4>1 DEF TypeOK
      <4>4. CASE d = b \/ d[2] \in LiveOrphans[d[1]].parked
        BY <1>0, <4>1, <4>2, <4>4, EvictedByNewer DEF Justified
      <4> QED
        BY <1>a, <4>3, <4>4
    <3>3. CASE DecodeDataSet(l)
      <4>1. PICK b \in pending[l] : /\ pending' = [pending EXCEPT ![l] = @ \ {b}]
                                    /\ consumed' = [consumed EXCEPT ![b] = @ + 1]
        BY <3>3 DEF DecodeDataSet
      <4>2. orphans' = orphans /\ consumed[d] \in Nat
        BY <3>3 DEF DecodeDataSet, TypeOK
      <4>3. d # b
        BY <4>1, <4>2 DEF Lost, TypeOK
      <4> QED
        BY <1>0, <3>0, <4>1, <4>2, <4>3 DEF TypeOK
    <3>4. CASE BeginDataSet(l)
      <4>1. orphans' = orphans /\ pending[l] = {}
        BY <3>4 DEF BeginDataSet, AtSet, PendingOK
      <4>2. \A m \in Listeners : m # l => pending'[m] = pending[m]
        BY <3>4 DEF BeginDataSet, TypeOK
      <4> QED
        BY <1>0, <3>0, <4>1, <4>2
    <3>5. CASE \/ Receive(l) \/ SkipSet(l) \/ EndSet(l) \/ EndPacket(l) \/ BeginTemplateSet(l)
               \/ InsertTemplate(l) \/ EndTemplateSet(l) \/ MissTemplate(l)
      <4>1. UNCHANGED <<orphans, pending>>
        BY <3>5 DEF Receive, SkipSet, EndSet, EndPacket, BeginTemplateSet, InsertTemplate,
                    EndTemplateSet, MissTemplate
      <4> QED
        BY <1>0, <3>0, <4>1
    <3> QED
      BY <1>2, <3>1, <3>2, <3>3, <3>4, <3>5 DEF Step
  <2> QED
    BY <2>1, <2>2
<1>3. CASE Exhausted
  BY <1>1, <1>3 DEF Exhausted
<1> QED
  BY <1>1, <1>2, <1>3 DEF Next

\* A data set is lost only when it has outlived the orphan TTL, or when its scope is full of
\* packets newer than its own: no interleaving of two listeners, and no replay, loses one
\* (park_orphan, replay_orphans).
THEOREM DropsJustified == Spec => DropsAreJustified
<1>1. StructInv /\ [Next]_vars =>
        [\A d \in DataSets :
           IsDataSet(d) /\ Held(d) /\ ~Held(d)' /\ consumed'[d] = consumed[d] =>
             \/ d[2] \in orphans[d[1]].parked /\ clock - orphans[d[1]].at > OrphanTTL
             \/ /\ Cardinality(Waiting(orphans', ScopeOf(d[1]))) = OrphanLimit
                /\ \A q \in Waiting(orphans', ScopeOf(d[1])) : q > d[1]]_vars
  BY LossJustified DEF Lost, Justified
<1> QED
  BY <1>1, StructInit, StructStep, PTL DEF Spec, DropsAreJustified
=============================================================================
