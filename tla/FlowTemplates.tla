--------------------------- MODULE FlowTemplates ---------------------------
(***************************************************************************)
(* The NetFlow v9 / IPFIX template decoder of src/flow.rs.                 *)
(*                                                                         *)
(* A datagram is a list of flow sets.  A template set fills the template   *)
(* cache of its scope; a data set is decoded with the cached template it   *)
(* names, or is parked as an orphan until that template arrives.  The      *)
(* cache and the orphan buffer are two mutexes shared by the listener      *)
(* threads; every action below is one critical section of one listener,    *)
(* so time passes and the other listener runs between any two of them.     *)
(*                                                                         *)
(* A scope is a (format, exporter, observation domain) triple.  One        *)
(* listener serves one format, so it is the only one to read or write the  *)
(* entries of its scopes; the expiry of old entries crosses scopes.        *)
(***************************************************************************)
EXTENDS Integers, Sequences, FiniteSets

CONSTANTS
  Listeners,        \* the threads that decode templates: NetFlow and IPFIX
  Scopes,           \* (format, exporter, observation domain) triples
  ListenerOf,       \* the listener whose socket receives a scope's datagrams
  TemplateIds,
  Datagrams,        \* the flow-set lists a datagram may carry
  MaxSets,          \* bound: flow sets of one datagram
  MaxPackets,       \* bound: datagrams received
  MaxClock,         \* bound: clock ticks
  TemplateTTL,      \* TEMPLATE_TTL, in ticks
  OrphanTTL,        \* ORPHAN_TTL, in ticks
  TemplateLimit,    \* 256 in the code, per scope
  OrphanLimit       \* ORPHAN_PACKET_LIMIT, per scope

\* A flow set.  "templates" carries the ids of the well-formed definitions of
\* the set, in order; "data" the id its records were encoded with; "other" is
\* an options template set or a reserved id, which the decoder skips.
FlowSet == [kind: {"templates", "data", "other"},
            defs: Seq(TemplateIds),
            tid:  TemplateIds]

ASSUME ScopesAssumption   == ListenerOf \in [Scopes -> Listeners] /\ Scopes # {}
ASSUME DatagramAssumption == /\ Datagrams \subseteq Seq(FlowSet)
                             /\ \A g \in Datagrams : Len(g) <= MaxSets
ASSUME BoundAssumption    == /\ MaxSets \in Nat /\ MaxPackets \in Nat
                             /\ MaxClock \in Nat
ASSUME LimitAssumption    == /\ TemplateLimit \in Nat \ {0}
                             /\ OrphanLimit \in Nat \ {0}
                             /\ TemplateTTL \in Nat /\ OrphanTTL \in Nat
ASSUME FiniteAssumption   == IsFiniteSet(TemplateIds)

VARIABLES
  clock,        \* Instant::now()
  templates,    \* TemplateCache: scope -> template id -> received_at
  orphans,      \* OrphanCache: packet id -> [parked positions, received_at]
  packets,      \* packet id -> the scope and flow sets of the datagram
  nextPacket,   \* ORPHAN_PACKET_SEQUENCE
  pc,           \* where each listener is
  pid,          \* the packet it is parsing
  pos,          \* the flow set it has reached
  def,          \* the template definition it has reached
  pending,      \* the data sets it has still to hand to decode_data_set
  missing,      \* the one whose template it looked up and did not find
  consumed      \* history: how often each data set was decoded

vars == <<clock, templates, orphans, packets, nextPacket,
          pc, pid, pos, def, pending, missing, consumed>>

PacketIds == 1 .. MaxPackets
DataSets  == PacketIds \X (1 .. MaxSets)
NotCached == -1
NoOrphan  == [parked |-> {}, at |-> 0]

\* The scope a packet or data set belongs to, and the template a data set needs.
ScopeOf(p)    == packets[p].scope
TemplateOf(d) == packets[d[1]].sets[d[2]].tid

\* The flow set a listener has reached.
CurrentSet(l) == packets[pid[l]].sets[pos[l]]

Known(entries)  == {t \in TemplateIds : entries[t] # NotCached}
Oldest(entries) == {t \in Known(entries) :
                      \A u \in Known(entries) : entries[t] <= entries[u]}

\* retain(|template| received_at.elapsed() <= TEMPLATE_TTL), over the whole cache.
LiveTemplates ==
  [s \in Scopes |-> [t \in TemplateIds |->
     IF clock - templates[s][t] <= TemplateTTL THEN templates[s][t] ELSE NotCached]]

\* retain(|item| received_at.elapsed() <= ORPHAN_TTL), over the whole buffer.
LiveOrphans ==
  [p \in PacketIds |->
     IF clock - orphans[p].at <= OrphanTTL THEN orphans[p] ELSE NoOrphan]

\* Mutant of AfterInsert: the cap is compared before the insertion is counted.
AfterInsertOffByOne(entries, t) ==
  LET grown == [entries EXCEPT ![t] = clock]
  IN  IF Cardinality(Known(entries)) <= TemplateLimit
      THEN {grown}
      ELSE {[grown EXCEPT ![u] = NotCached] : u \in Oldest(grown)}

\* The entries of a scope after one definition is cached: over the cap the oldest
\* goes, any of them when several were received at the same instant.
AfterInsert(entries, t) ==
  LET grown == [entries EXCEPT ![t] = clock]
  IN  IF Cardinality(Known(grown)) <= TemplateLimit
      THEN {grown}
      ELSE {[grown EXCEPT ![u] = NotCached] : u \in Oldest(grown)}

\* The packets of a scope that hold at least one parked data set.
Waiting(buffer, s) == {p \in PacketIds : buffer[p].parked # {} /\ ScopeOf(p) = s}

\* Mutant of Newest: the highest packet id goes first.
NewestByMaximum(S, n) == {p \in S : Cardinality({q \in S : q < p}) < n}

\* Dropping the lowest packet id while more than n are left.
Newest(S, n) == {p \in S : Cardinality({q \in S : q > p}) < n}

\* The buffer after a data set is parked: a packet that already waits keeps its
\* arrival time, and the oldest packets of the scope over the limit are dropped.
AfterPark(d) ==
  LET live  == LiveOrphans
      entry == IF live[d[1]].parked # {} THEN live[d[1]]
               ELSE [parked |-> {}, at |-> clock]
      grown == [live EXCEPT ![d[1]] = [entry EXCEPT !.parked = @ \cup {d[2]}]]
      here  == Waiting(grown, ScopeOf(d[1]))
  IN  [p \in PacketIds |->
         IF p \in here \ Newest(here, OrphanLimit) THEN NoOrphan ELSE grown[p]]

\* The templates mutex is held across a whole template set.
TemplatesFree == \A l \in Listeners : pc[l] # "caching"

-----------------------------------------------------------------------------
Init ==
  /\ clock      = 0
  /\ templates  = [s \in Scopes |-> [t \in TemplateIds |-> NotCached]]
  /\ orphans    = [p \in PacketIds |-> NoOrphan]
  /\ packets    = [p \in PacketIds |->
                     [scope |-> CHOOSE s \in Scopes : TRUE, sets |-> <<>>]]
  /\ nextPacket = 1
  /\ pc         = [l \in Listeners |-> "idle"]
  /\ pid        = [l \in Listeners |-> 0]
  /\ pos        = [l \in Listeners |-> 1]
  /\ def        = [l \in Listeners |-> 1]
  /\ pending    = [l \in Listeners |-> {}]
  /\ missing    = [l \in Listeners |-> {}]
  /\ consumed   = [d \in DataSets |-> 0]

\* Mutant of Receive: the header is taken for longer than it is, and with it goes
\* the first flow set.
ReceiveLongHeader(l) ==
  /\ pc[l] = "idle"
  /\ nextPacket <= MaxPackets
  /\ \E s \in Scopes, g \in Datagrams :
       /\ ListenerOf[s] = l
       /\ packets' = [packets EXCEPT ![nextPacket] = [scope |-> s, sets |-> g]]
  /\ nextPacket' = nextPacket + 1
  /\ pid' = [pid EXCEPT ![l] = nextPacket]
  /\ pos' = [pos EXCEPT ![l] = 2]
  /\ pc'  = [pc EXCEPT ![l] = "parse"]
  /\ UNCHANGED <<clock, templates, orphans, def, pending, missing, consumed>>

\* recv_from returns a datagram of a scope of this listener.  A malformed header
\* is the empty list of flow sets: it too takes a packet id.
Receive(l) ==
  /\ pc[l] = "idle"
  /\ nextPacket <= MaxPackets
  /\ \E s \in Scopes, g \in Datagrams :
       /\ ListenerOf[s] = l
       /\ packets' = [packets EXCEPT ![nextPacket] = [scope |-> s, sets |-> g]]
  /\ nextPacket' = nextPacket + 1
  /\ pid' = [pid EXCEPT ![l] = nextPacket]
  /\ pc'  = [pc EXCEPT ![l] = "parse"]
  /\ UNCHANGED <<clock, templates, orphans, pos, def, pending, missing, consumed>>

\* The parser is at a flow set of the given kind.
AtSet(l, kind) ==
  /\ pc[l] = "parse"
  /\ pos[l] <= Len(packets[pid[l]].sets)
  /\ CurrentSet(l).kind = kind

\* Mutant of SkipSet: the length of a skipped set is counted twice.
SkipSetTwice(l) ==
  /\ AtSet(l, "other")
  /\ pos' = [pos EXCEPT ![l] = @ + 2]
  /\ UNCHANGED <<clock, templates, orphans, packets, nextPacket,
                 pc, pid, def, pending, missing, consumed>>

SkipSet(l) ==
  /\ AtSet(l, "other")
  /\ pos' = [pos EXCEPT ![l] = @ + 1]
  /\ UNCHANGED <<clock, templates, orphans, packets, nextPacket,
                 pc, pid, def, pending, missing, consumed>>

\* cache_templates takes the mutex and drops the expired entries.
BeginTemplateSet(l) ==
  /\ AtSet(l, "templates")
  /\ TemplatesFree
  /\ templates' = LiveTemplates
  /\ pc' = [pc EXCEPT ![l] = "caching"]
  /\ UNCHANGED <<clock, orphans, packets, nextPacket,
                 pid, pos, def, pending, missing, consumed>>

InsertTemplate(l) ==
  /\ pc[l] = "caching"
  /\ def[l] <= Len(CurrentSet(l).defs)
  /\ \E entries \in AfterInsert(templates[ScopeOf(pid[l])], CurrentSet(l).defs[def[l]]) :
       templates' = [templates EXCEPT ![ScopeOf(pid[l])] = entries]
  /\ def' = [def EXCEPT ![l] = @ + 1]
  /\ UNCHANGED <<clock, orphans, packets, nextPacket,
                 pc, pid, pos, pending, missing, consumed>>

\* Mutant of EndTemplateSet: parsing goes on without replaying the orphans.
EndTemplateSetNoReplay(l) ==
  /\ pc[l] = "caching"
  /\ def[l] > Len(CurrentSet(l).defs)
  /\ def' = [def EXCEPT ![l] = 1]
  /\ pc'  = [pc EXCEPT ![l] = "decode"]
  /\ UNCHANGED <<clock, templates, orphans, packets, nextPacket,
                 pid, pos, pending, missing, consumed>>

\* The end of the set releases the mutex; replay_orphans comes next.
EndTemplateSet(l) ==
  /\ pc[l] = "caching"
  /\ def[l] > Len(CurrentSet(l).defs)
  /\ def' = [def EXCEPT ![l] = 1]
  /\ pc'  = [pc EXCEPT ![l] = "take"]
  /\ UNCHANGED <<clock, templates, orphans, packets, nextPacket,
                 pid, pos, pending, missing, consumed>>

\* Mutant of TakeOrphans: the matching packets are cloned but stay in the buffer.
TakeOrphansCopy(l) ==
  LET here == Waiting(LiveOrphans, ScopeOf(pid[l]))
  IN  /\ pc[l] = "take"
      /\ pending' = [pending EXCEPT ![l] =
                       {d \in DataSets : d[1] \in here /\ d[2] \in orphans[d[1]].parked}]
      /\ orphans' = LiveOrphans
      /\ pc' = [pc EXCEPT ![l] = "decode"]
      /\ UNCHANGED <<clock, templates, packets, nextPacket,
                     pid, pos, def, missing, consumed>>

\* replay_orphans takes every live orphan of the scope out of the buffer.
TakeOrphans(l) ==
  LET here == Waiting(LiveOrphans, ScopeOf(pid[l]))
  IN  /\ pc[l] = "take"
      /\ pending' = [pending EXCEPT ![l] =
                       {d \in DataSets : d[1] \in here /\ d[2] \in orphans[d[1]].parked}]
      /\ orphans' = [p \in PacketIds |-> IF p \in here THEN NoOrphan ELSE LiveOrphans[p]]
      /\ pc' = [pc EXCEPT ![l] = "decode"]
      /\ UNCHANGED <<clock, templates, packets, nextPacket,
                     pid, pos, def, missing, consumed>>

BeginDataSet(l) ==
  /\ AtSet(l, "data")
  /\ pending' = [pending EXCEPT ![l] = {<<pid[l], pos[l]>>}]
  /\ pc' = [pc EXCEPT ![l] = "decode"]
  /\ UNCHANGED <<clock, templates, orphans, packets, nextPacket,
                 pid, pos, def, missing, consumed>>

\* decode_data_set, first critical section: drop the expired templates and look the
\* needed one up.  Found, the records are decoded with a copy of its fields (none
\* when the template withdrew itself); not found, the data set is to be parked.
DecodeDataSet(l) ==
  /\ pc[l] = "decode"
  /\ TemplatesFree
  /\ \E d \in pending[l] :
       /\ LiveTemplates[ScopeOf(pid[l])][TemplateOf(d)] # NotCached
       /\ pending'  = [pending EXCEPT ![l] = @ \ {d}]
       /\ consumed' = [consumed EXCEPT ![d] = @ + 1]
  /\ templates' = LiveTemplates
  /\ UNCHANGED <<clock, orphans, packets, nextPacket, pc, pid, pos, def, missing>>

MissTemplate(l) ==
  /\ pc[l] = "decode"
  /\ TemplatesFree
  /\ \E d \in pending[l] :
       /\ LiveTemplates[ScopeOf(pid[l])][TemplateOf(d)] = NotCached
       /\ missing' = [missing EXCEPT ![l] = {d}]
  /\ templates' = LiveTemplates
  /\ pc' = [pc EXCEPT ![l] = "park"]
  /\ UNCHANGED <<clock, orphans, packets, nextPacket, pid, pos, def, pending, consumed>>

\* decode_data_set, second critical section: park under the id of its own packet.
ParkDataSet(l) ==
  /\ pc[l] = "park"
  /\ \E d \in missing[l] :
       /\ orphans' = AfterPark(d)
       /\ pending' = [pending EXCEPT ![l] = @ \ {d}]
  /\ missing' = [missing EXCEPT ![l] = {}]
  /\ pc' = [pc EXCEPT ![l] = "decode"]
  /\ UNCHANGED <<clock, templates, packets, nextPacket, pid, pos, def, consumed>>

EndSet(l) ==
  /\ pc[l] = "decode"
  /\ pending[l] = {}
  /\ pos' = [pos EXCEPT ![l] = @ + 1]
  /\ pc'  = [pc EXCEPT ![l] = "parse"]
  /\ UNCHANGED <<clock, templates, orphans, packets, nextPacket,
                 pid, def, pending, missing, consumed>>

\* The records go to the ring and the database (FlowPipeline); back to recv_from.
EndPacket(l) ==
  /\ pc[l] = "parse"
  /\ pos[l] > Len(packets[pid[l]].sets)
  /\ pid' = [pid EXCEPT ![l] = 0]
  /\ pos' = [pos EXCEPT ![l] = 1]
  /\ pc'  = [pc EXCEPT ![l] = "idle"]
  /\ UNCHANGED <<clock, templates, orphans, packets, nextPacket,
                 def, pending, missing, consumed>>

Tick ==
  /\ clock < MaxClock
  /\ clock' = clock + 1
  /\ UNCHANGED <<templates, orphans, packets, nextPacket,
                 pc, pid, pos, def, pending, missing, consumed>>

\* The bounds are used up: every listener waits in recv_from for ever.
Exhausted ==
  /\ nextPacket > MaxPackets /\ clock = MaxClock
  /\ \A l \in Listeners : pc[l] = "idle"
  /\ UNCHANGED vars

Step(l) ==
  \/ Receive(l) \/ SkipSet(l) \/ EndSet(l) \/ EndPacket(l)
  \/ BeginTemplateSet(l) \/ InsertTemplate(l) \/ EndTemplateSet(l)
  \/ TakeOrphans(l) \/ BeginDataSet(l)
  \/ DecodeDataSet(l) \/ MissTemplate(l) \/ ParkDataSet(l)

Next == Tick \/ Exhausted \/ \E l \in Listeners : Step(l)

Spec == Init /\ [][Next]_vars

-----------------------------------------------------------------------------
TypeOK ==
  /\ clock \in Nat
  /\ templates \in [Scopes -> [TemplateIds -> Nat \cup {NotCached}]]
  /\ orphans \in [PacketIds -> [parked: SUBSET (1 .. MaxSets), at: Nat]]
  /\ packets \in [PacketIds -> [scope: Scopes, sets: Datagrams \cup {<<>>}]]
  /\ nextPacket \in 1 .. MaxPackets + 1
  /\ pc \in [Listeners -> {"idle", "parse", "caching", "take", "decode", "park"}]
  /\ pid \in [Listeners -> 0 .. MaxPackets]
  /\ pos \in [Listeners -> 1 .. MaxSets + 1]
  /\ def \in [Listeners -> Nat \ {0}]
  /\ pending \in [Listeners -> SUBSET DataSets]
  /\ missing \in [Listeners -> SUBSET DataSets]
  /\ consumed \in [DataSets -> Nat]

\* No data set is decoded twice, however often it is parked, taken for replay and
\* parked again: its bytes and packets are counted once (replay_orphans removes what
\* it takes under the same lock).
DecodedAtMostOnce == \A d \in DataSets : consumed[d] <= 1

\* A parked data set never waits for a template that is in the cache, except while
\* its listener is between caching templates of that scope and replaying them.  The
\* lookup and the parking are two critical sections; this says nothing is lost
\* between them.
NoStrandedOrphan ==
  \A p \in PacketIds : \A k \in orphans[p].parked :
    templates[ScopeOf(p)][TemplateOf(<<p, k>>)] # NotCached =>
      LET l == ListenerOf[ScopeOf(p)]
      IN  pc[l] \in {"caching", "take"} /\ ScopeOf(pid[l]) = ScopeOf(p)

\* Neither shared structure outgrows its cap in any scope, whatever the listeners
\* park, replay and park again in between.
WithinLimits ==
  \A s \in Scopes : /\ Cardinality(Known(templates[s])) <= TemplateLimit
                    /\ Cardinality(Waiting(orphans, s)) <= OrphanLimit

\* Where a data set stands, read off the listeners and the buffer: still ahead of
\* the parser, handed to decode_data_set, or parked, it is held.
IsDataSet(d) ==
  /\ d[1] < nextPacket
  /\ d[2] <= Len(packets[d[1]].sets)
  /\ packets[d[1]].sets[d[2]].kind = "data"

Ahead(d) ==
  \E l \in Listeners :
    /\ pid[l] = d[1] /\ pc[l] # "idle"
    /\ pos[l] < d[2] \/ (pos[l] = d[2] /\ pc[l] = "parse")

Held(d) ==
  \/ Ahead(d)
  \/ \E l \in Listeners : d \in pending[l]
  \/ d[2] \in orphans[d[1]].parked

\* A data set is lost only by outliving the orphan TTL in the buffer, or because its
\* scope is at the limit and every packet that stays is newer than its own; not by a
\* lookup, a replay or another listener's clean-up that comes in between.
DropsAreJustified ==
  [][\A d \in DataSets :
       IsDataSet(d) /\ Held(d) /\ ~Held(d)' /\ consumed'[d] = consumed[d] =>
         \/ d[2] \in orphans[d[1]].parked /\ clock - orphans[d[1]].at > OrphanTTL
         \/ /\ Cardinality(Waiting(orphans', ScopeOf(d[1]))) = OrphanLimit
            /\ \A q \in Waiting(orphans', ScopeOf(d[1])) : q > d[1]]_vars

\* The status of a data set in FlowDelivery.  One that is still held after it was decoded,
\* or was decoded twice, has none: no step of FlowDelivery leads to it.
StatusOf(d) ==
  CASE ~IsDataSet(d)                                  -> "unseen"
    [] IsDataSet(d) /\ Held(d)  /\ consumed[d] = 0    -> "held"
    [] IsDataSet(d) /\ ~Held(d) /\ consumed[d] = 1    -> "decoded"
    [] IsDataSet(d) /\ ~Held(d) /\ consumed[d] = 0    -> "dropped"
    [] OTHER                                          -> "astray"

Delivery == INSTANCE FlowDelivery WITH status <- [d \in DataSets |-> StatusOf(d)]

\* The decoder implements FlowDelivery: every data set of every datagram received is
\* held until it is decoded or dropped, never decoded after it was dropped, and once
\* decoded no listener and no packet of the buffer holds it, then or later.
DeliversOrDrops == Delivery!Spec
=============================================================================
