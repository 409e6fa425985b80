------------------------- MODULE FlowPipeline_proofs -------------------------
(***************************************************************************)
(* The invariants of FlowPipeline, for any number of listeners and records,*)
(* any limits of the ring, any clock and any number of restarts.           *)
(***************************************************************************)
EXTENDS FlowPipeline, Basics, FiniteSetTheorems, TLAPS

\* What is queued is of this process, once, and at the right place of the listener; a save
\* has failed only where it was tried.
QueueInv ==
  /\ \A l \in Listeners : pc[l] \notin {"receive", "push", "ended"} => queue[l] # <<>>
  /\ \A l \in Listeners : pc[l] \in {"receive", "ended"} => queue[l] = <<>>
  /\ \A l, m \in Listeners : \A i \in DOMAIN queue[l], j \in DOMAIN queue[m] :
       queue[l][i] = queue[m][j] => l = m /\ i = j
  /\ \A l \in Listeners : \A i \in DOMAIN queue[l] : queue[l][i] <= Len(flows)
  /\ \A l \in Listeners : failed[l] => pc[l] \in {"saved", "write", "drop"}
  /\ \A l \in Listeners : pc[l] = "drop" => failed[l]

\* The records of a listener, and of all, that are not counted as parsed yet.
UncountedOf(l) == IF pc[l] = "parsed" THEN ToSet(queue[l]) ELSE {}
Uncounted == UNION {UncountedOf(l) : l \in Listeners}

\* What is queued is not in the table of conversations, but for what was just stored.
JustStored(l) == pc[l] \in {"saved", "write"} /\ ~failed[l]
StoredInv ==
  /\ \A f \in FlowIds : convRows[f] <= 1 /\ (f > Len(flows) => convRows[f] = 0)
  /\ \A l \in Listeners : \A i \in DOMAIN queue[l] :
       convRows[queue[l][i]] = IF i = 1 /\ JustStored(l) THEN 1 ELSE 0

\* The counters, and how far they are behind.
CountInv ==
  /\ CountersAccountForFlows /\ StoredInv
  /\ parsed + Cardinality(Uncounted) <= Len(flows)
  /\ dropped + Cardinality(HeadsAt({"drop"})) <= written

\* The records that have not come into the ring.
Unpushed ==
  {f \in FlowIds : \/ f > Len(flows)
                   \/ \E l \in Listeners : \E i \in DOMAIN queue[l] :
                        f = queue[l][i] /\ (i > 1 \/ pc[l] \in {"parsed", "push"})}

\* Not rolled up, and not about to be.
Untouched(f) == rollupRows[f] = 0 /\ f \notin batch

\* What a pass may still add is not there: neither the records of its batch, nor those of
\* the ring beyond the watermark, nor those that have not come into the ring.
PassInv ==
  /\ \A f \in FlowIds : rollupRows[f] <= 1
  /\ \A f \in batch : rollupRows[f] = 0
  /\ \A f \in Unpushed : Untouched(f) /\ \A i \in DOMAIN ring : ring[i].flow # f
  /\ \A i \in DOMAIN ring : ring[i].at > watermark => Untouched(ring[i].flow)
  /\ \A i, j \in DOMAIN ring : ring[i].flow = ring[j].flow => i = j

\* The readings of the clock, and where the rollup thread is when it holds a batch.
WatermarkInv ==
  /\ \A i \in DOMAIN ring : ring[i].at <= clock
  /\ batch # {} => rollupPc \in {"wait", "upsert"}
  /\ watermark <= clock /\ now <= clock
  /\ rollupPc = "scan" => watermark <= now
  /\ IF rollupPc = "start" THEN marks = {} ELSE watermark \in marks

PipelineInv == /\ TypeOK /\ QueueInv /\ CountInv /\ PassInv /\ WatermarkInv
               /\ RollupCoversRing /\ RingOrderedAndBounded

-----------------------------------------------------------------------------
\* A new ring is made of places of an old one, in their order.
MadeOf(new, old) ==
  \E from \in [DOMAIN new -> DOMAIN old] :
    /\ \A i \in DOMAIN new : new[i] = old[from[i]]
    /\ \A i, j \in DOMAIN new : i < j => from[i] < from[j]

LEMMA MadeOfTransitive ==
  ASSUME NEW S, NEW a \in Seq(S), NEW b \in Seq(S), NEW c \in Seq(S), MadeOf(a, b), MadeOf(b, c)
  PROVE  MadeOf(a, c)
<1>1. PICK f \in [DOMAIN a -> DOMAIN b] :
        /\ \A i \in DOMAIN a : a[i] = b[f[i]]
        /\ \A i, j \in DOMAIN a : i < j => f[i] < f[j]
  BY DEF MadeOf
<1>2. PICK g \in [DOMAIN b -> DOMAIN c] :
        /\ \A i \in DOMAIN b : b[i] = c[g[i]]
        /\ \A i, j \in DOMAIN b : i < j => g[i] < g[j]
  BY DEF MadeOf
<1> DEFINE h == [i \in DOMAIN a |-> g[f[i]]]
<1>3. h \in [DOMAIN a -> DOMAIN c]
  BY <1>1, <1>2
<1>4. \A i \in DOMAIN a : a[i] = c[h[i]]
  BY <1>1, <1>2
<1>5. \A i, j \in DOMAIN a : i < j => h[i] < h[j]
  BY <1>1, <1>2
<1> QED
  BY <1>3, <1>4, <1>5 DEF MadeOf

\* retain keeps entries in their order.
LEMMA RetainedIsMadeOf ==
  ASSUME NEW S, NEW r \in Seq(S)
  PROVE  Retained(r) \in Seq(S) /\ MadeOf(Retained(r), r)
<1>1. PICK kept : kept = {i \in DOMAIN r : clock - r[i].at <= RingTTL}
  OBVIOUS
<1> DEFINE t    == EntriesAt(r, kept)
           from == [n \in DOMAIN t |-> NthPlace(kept, n)]
<1>2. Retained(r) = t
  BY <1>1 DEF Retained
<1>3. kept \in SUBSET (1 .. Len(r)) /\ DOMAIN r = 1 .. Len(r)
  BY <1>1
<1>4. /\ t \in Seq(S)
      /\ \A n \in 1 .. Len(t) : NthPlace(kept, n) \in kept /\ t[n] = r[NthPlace(kept, n)]
      /\ \A m, n \in 1 .. Len(t) : m < n => NthPlace(kept, m) < NthPlace(kept, n)
  BY <1>3, AtIsOf
<1> HIDE DEF t
<1>5. DOMAIN t = 1 .. Len(t)
  BY <1>4
<1>6. /\ from \in [DOMAIN t -> DOMAIN r]
      /\ \A i \in DOMAIN t : t[i] = r[from[i]]
      /\ \A i, j \in DOMAIN t : i < j => from[i] < from[j]
  BY <1>3, <1>4, <1>5
<1> QED
  BY <1>2, <1>4, <1>6 DEF MadeOf

\* An empty ring has no bytes.
LEMMA NoBytes == RingBytes(<<>>) = 0
<1> DEFINE Adds(g) == g = [n \in 0 .. Len(<<>>) |-> IF n = 0 THEN 0 ELSE g[n - 1] + (<<>>)[n].size]
<1>1. Adds([n \in {0} |-> 0])
  OBVIOUS
<1>2. Adds(CHOOSE g : Adds(g))
  BY <1>1, Zenon
<1>3. RingBytes(<<>>) = (CHOOSE g : Adds(g))[0]
  BY DEF RingBytes
<1> QED
  BY <1>2, <1>3

\* Trimming takes entries from the front until both limits are kept.
LEMMA TrimmedIsMadeOf ==
  ASSUME NEW S, NEW r \in Seq(S)
  PROVE  /\ Trimmed(r) \in Seq(S) /\ MadeOf(Trimmed(r), r)
         /\ Len(Trimmed(r)) <= RingLimit /\ RingBytes(Trimmed(r)) <= RingBytesLimit
<1> DEFINE Rest(n) == SubSeq(r, n, Len(r))
           Fits(n) == Len(Rest(n)) <= RingLimit /\ RingBytes(Rest(n)) <= RingBytesLimit
           First(n) == n \in 1 .. Len(r) + 1 /\ Fits(n) /\ \A m \in 1 .. n - 1 : ~Fits(m)
           first == CHOOSE n \in 1 .. Len(r) + 1 : Fits(n) /\ \A m \in 1 .. n - 1 : ~Fits(m)
<1>1. Trimmed(r) = Rest(first)
  BY DEF Trimmed
<1>2. Len(r) \in Nat
  OBVIOUS
<1>3. Fits(Len(r) + 1)
  <2>1. Rest(Len(r) + 1) = <<>>
    BY <1>2
  <2>2. 0 <= RingLimit /\ 0 <= RingBytesLimit
    BY RingAssumption
  <2> QED
    BY <2>1, <2>2, NoBytes
<1>4. \E n \in 1 .. Len(r) + 1 : Fits(n) /\ \A m \in 1 .. n - 1 : ~Fits(m)
  <2> HIDE DEF Fits
  <2> DEFINE T == {n \in 1 .. Len(r) + 1 : Fits(n)}
  <2>1. T \subseteq Nat /\ T # {}
    BY <1>2, <1>3
  <2>2. PICK n \in T : \A q \in T : n <= q
    BY <2>1, FirstNumber
  <2>3. \A m \in 1 .. n - 1 : m \in 1 .. Len(r) + 1 /\ ~(n <= m)
    BY <1>2, <2>2
  <2> QED
    BY <2>2, <2>3
<1>5. first \in 1 .. Len(r) + 1 /\ Fits(first)
  <2> HIDE DEF Fits
  <2> QED
    BY <1>4
<1> HIDE DEF first
<1>6. /\ Rest(first) \in Seq(S) /\ DOMAIN Rest(first) = 1 .. Len(r) - first + 1
      /\ \A i \in 1 .. Len(r) - first + 1 : Rest(first)[i] = r[first + i - 1]
  BY <1>2, <1>5
<1>7. MadeOf(Rest(first), r)
  <2> DEFINE from == [i \in 1 .. Len(r) - first + 1 |-> first + i - 1]
  <2>1. \A i \in 1 .. Len(r) - first + 1 : first + i - 1 \in DOMAIN r
    BY <1>2, <1>5
  <2>2. from \in [DOMAIN Rest(first) -> DOMAIN r]
    BY <1>6, <2>1
  <2>3. \A i \in DOMAIN Rest(first) : Rest(first)[i] = r[from[i]]
    BY <1>6
  <2>4. \A i, j \in DOMAIN Rest(first) : i < j => from[i] < from[j]
    BY <1>2, <1>5, <1>6
  <2> HIDE DEF from
  <2> QED
    BY <2>2, <2>3, <2>4 DEF MadeOf
<1> QED
  BY <1>1, <1>5, <1>6, <1>7

\* A ring after a push: entries it had, in their order, and the new one behind them.
LEMMA AfterPush ==
  ASSUME TypeOK, NEW f \in 1 .. Len(flows)
  PROVE  LET new == [flow |-> f, size |-> flows[f].size, at |-> clock]
             r   == RingAfterPush(f)
         IN  /\ r \in Seq(Entry)
             /\ \A i \in DOMAIN r : r[i] = new \/ \E k \in DOMAIN ring : r[i] = ring[k]
             /\ (\A i, j \in DOMAIN ring : i < j => ring[i].at <= ring[j].at)
                /\ (\A i \in DOMAIN ring : ring[i].at <= clock)
                => \A i, j \in DOMAIN r : i < j => r[i].at <= r[j].at
             /\ (\A i, j \in DOMAIN ring : ring[i].flow = ring[j].flow => i = j)
                /\ (\A i \in DOMAIN ring : ring[i].flow # f)
                => \A i, j \in DOMAIN r : r[i].flow = r[j].flow => i = j
             /\ Len(r) <= RingLimit /\ RingBytes(r) <= RingBytesLimit
<1> DEFINE new  == [flow |-> f, size |-> flows[f].size, at |-> clock]
           kept == Retained(ring)
           long == Append(kept, new)
           r    == RingAfterPush(f)
<1>1. new \in Entry /\ new.at = clock /\ clock \in Nat
  <2>1. flows \in Seq(Flow) /\ Len(flows) <= MaxFlows /\ clock \in 0 .. MaxClock
    BY DEF TypeOK
  <2>2. flows[f] \in Flow
    BY <2>1
  <2>3. flows[f].size \in Sizes
    BY <2>2 DEF Flow
  <2>4. f \in FlowIds /\ clock \in Nat
    BY <2>1, BoundAssumption DEF FlowIds
  <2> QED
    BY <2>1, <2>3, <2>4 DEF Entry
<1>2. ring \in Seq(Entry)
  BY DEF TypeOK
<1>3. kept \in Seq(Entry) /\ MadeOf(kept, ring)
  BY <1>2, RetainedIsMadeOf
<1> HIDE DEF new, kept
<1>4. long \in Seq(Entry)
  BY <1>1, <1>3
<1>5. r = Trimmed(long)
  BY DEF RingAfterPush, new, kept
<1>6. /\ r \in Seq(Entry) /\ MadeOf(r, long)
      /\ Len(r) <= RingLimit /\ RingBytes(r) <= RingBytesLimit
  BY <1>4, <1>5, TrimmedIsMadeOf
<1> HIDE DEF r
<1>7. PICK g \in [DOMAIN kept -> DOMAIN ring] :
        /\ \A i \in DOMAIN kept : kept[i] = ring[g[i]]
        /\ \A i, j \in DOMAIN kept : i < j => g[i] < g[j]
  BY <1>3 DEF MadeOf
<1>8. PICK h \in [DOMAIN r -> DOMAIN long] :
        /\ \A i \in DOMAIN r : r[i] = long[h[i]]
        /\ \A i, j \in DOMAIN r : i < j => h[i] < h[j]
  BY <1>6 DEF MadeOf
<1>9. /\ Len(kept) \in Nat /\ DOMAIN kept = 1 .. Len(kept) /\ DOMAIN long = 1 .. Len(kept) + 1
      /\ \A k \in 1 .. Len(kept) : long[k] = kept[k]
      /\ long[Len(kept) + 1] = new
  BY <1>1, <1>3
<1> HIDE DEF long
<1>10. \A k \in DOMAIN long : k \in DOMAIN kept \/ k = Len(kept) + 1
  BY <1>9
<1>11. \A i \in DOMAIN r : r[i] = new \/ \E k \in DOMAIN ring : r[i] = ring[k]
  BY <1>7, <1>8, <1>9, <1>10
<1>12. ASSUME \A i, j \in DOMAIN ring : i < j => ring[i].at <= ring[j].at,
              \A i \in DOMAIN ring : ring[i].at <= clock,
              NEW i \in DOMAIN r, NEW j \in DOMAIN r, i < j
       PROVE  r[i].at <= r[j].at
  <2>1. h[i] \in DOMAIN long /\ h[j] \in DOMAIN long /\ h[i] < h[j]
        /\ r[i] = long[h[i]] /\ r[j] = long[h[j]]
    BY <1>8, <1>12
  <2>2. h[i] \in DOMAIN kept /\ r[i] = ring[g[h[i]]] /\ g[h[i]] \in DOMAIN ring
    BY <1>7, <1>9, <2>1
  <2>3. CASE h[j] \in DOMAIN kept
    <3>1. g[h[i]] < g[h[j]] /\ g[h[j]] \in DOMAIN ring /\ r[j] = ring[g[h[j]]]
      BY <1>7, <1>9, <2>1, <2>2, <2>3
    <3> QED
      BY <1>12, <2>2, <3>1
  <2>4. CASE h[j] = Len(kept) + 1
    BY <1>1, <1>9, <1>12, <2>1, <2>2, <2>4
  <2> QED
    BY <1>10, <2>1, <2>3, <2>4
<1>13. ASSUME \A i, j \in DOMAIN ring : ring[i].flow = ring[j].flow => i = j,
              \A i \in DOMAIN ring : ring[i].flow # f,
              NEW i \in DOMAIN r, NEW j \in DOMAIN r, i < j
       PROVE  r[i].flow # r[j].flow
  <2>1. h[i] \in DOMAIN long /\ h[j] \in DOMAIN long /\ h[i] < h[j]
        /\ r[i] = long[h[i]] /\ r[j] = long[h[j]]
    BY <1>8, <1>13
  <2>2. h[i] \in DOMAIN kept /\ r[i] = ring[g[h[i]]] /\ g[h[i]] \in DOMAIN ring
    BY <1>7, <1>9, <2>1
  <2>3. CASE h[j] \in DOMAIN kept
    <3>1. g[h[i]] < g[h[j]] /\ g[h[j]] \in DOMAIN ring /\ r[j] = ring[g[h[j]]]
      BY <1>7, <1>9, <2>1, <2>2, <2>3
    <3>2. g[h[i]] # g[h[j]]
      BY <1>2, <2>2, <3>1
    <3> QED
      BY <1>13, <2>2, <3>1, <3>2
  <2>4. CASE h[j] = Len(kept) + 1
    <3>1. r[j] = new /\ new.flow = f
      BY <1>9, <2>1, <2>4 DEF new
    <3> QED
      BY <1>13, <2>2, <3>1
  <2> QED
    BY <1>10, <2>1, <2>3, <2>4
<1>14. ASSUME \A i, j \in DOMAIN ring : ring[i].flow = ring[j].flow => i = j,
              \A i \in DOMAIN ring : ring[i].flow # f,
              NEW i \in DOMAIN r, NEW j \in DOMAIN r, r[i].flow = r[j].flow
       PROVE  i = j
  <2>1. i \in Int /\ j \in Int
    BY <1>6
  <2>2. ~(i < j) /\ ~(j < i)
    BY <1>13, <1>14
  <2> QED
    BY <2>1, <2>2
<1> QED
  BY <1>6, <1>11, <1>12, <1>14 DEF new, r

-----------------------------------------------------------------------------
\* Records are finitely many.
LEMMA FlowsAreFinite ==
  \A S \in SUBSET FlowIds : IsFiniteSet(S) /\ Cardinality(S) \in Nat
<1>1. IsFiniteSet(FlowIds)
  <2>1. MaxFlows \in Int /\ 1 \in Int
    BY BoundAssumption
  <2> QED
    BY <2>1, FS_Interval DEF FlowIds
<1>2. ASSUME NEW S \in SUBSET FlowIds PROVE IsFiniteSet(S)
  BY <1>1, FS_Subset
<1>3. ASSUME NEW S \in SUBSET FlowIds PROVE Cardinality(S) \in Nat
  BY <1>2, FS_CardinalityType
<1> QED
  BY <1>2, <1>3

\* Without its first record a queue has the others.
LEMMA TailIs ==
  ASSUME NEW s \in Seq(FlowIds), s # <<>>, \A i, j \in DOMAIN s : s[i] = s[j] => i = j
  PROVE  s[1] \in ToSet(s) /\ ToSet(Tail(s)) = ToSet(s) \ {s[1]}
<1>1. /\ 1 \in DOMAIN s /\ Tail(s) \in Seq(FlowIds)
      /\ \A i \in DOMAIN Tail(s) : i + 1 \in DOMAIN s /\ Tail(s)[i] = s[i + 1] /\ i + 1 # 1
      /\ \A i \in DOMAIN s : i # 1 => i - 1 \in DOMAIN Tail(s) /\ Tail(s)[i - 1] = s[i]
  OBVIOUS
<1>2. \A f : f \in ToSet(s) <=> \E i \in DOMAIN s : f = s[i]
  BY DEF ToSet
<1>3. \A f : f \in ToSet(Tail(s)) <=> \E i \in DOMAIN Tail(s) : f = Tail(s)[i]
  BY DEF ToSet
<1>4. ASSUME NEW f \in ToSet(Tail(s)) PROVE f \in ToSet(s) \ {s[1]}
  <2>1. PICK i \in DOMAIN Tail(s) : f = Tail(s)[i]
    BY <1>3
  <2>2. f = s[i + 1] /\ i + 1 \in DOMAIN s /\ i + 1 # 1
    BY <1>1, <2>1
  <2> QED
    BY <1>1, <1>2, <2>2
<1>5. ASSUME NEW f \in ToSet(s) \ {s[1]} PROVE f \in ToSet(Tail(s))
  <2>1. PICK i \in DOMAIN s : f = s[i]
    BY <1>2
  <2> QED
    BY <1>1, <1>3, <2>1
<1> QED
  BY <1>1, <1>2, <1>4, <1>5

\* The head of a queue, where the listener is at one of some locations.
HeadOf(l, S) == IF pc[l] \in S THEN {queue[l][1]} ELSE {}

\* What a step of one listener changes: the parts of the others stay, and are of other
\* records than its own.
LEMMA OneListener ==
  ASSUME TypeOK, QueueInv, NEW l \in Listeners,
         \A m \in Listeners \ {l} : queue'[m] = queue[m] /\ pc'[m] = pc[m]
  PROVE  \E A, U, D, W \in SUBSET FlowIds :
           /\ Awaiting = AwaitingOf(l) \cup A /\ Awaiting' = AwaitingOf(l)' \cup A
           /\ Uncounted = UncountedOf(l) \cup U /\ Uncounted' = UncountedOf(l)' \cup U
           /\ HeadsAt({"drop"}) = HeadOf(l, {"drop"}) \cup D
           /\ HeadsAt({"drop"})' = HeadOf(l, {"drop"})' \cup D
           /\ HeadsAt({"saved", "write"}) = HeadOf(l, {"saved", "write"}) \cup W
           /\ HeadsAt({"saved", "write"})' = HeadOf(l, {"saved", "write"})' \cup W
           /\ \A f \in A \cup U \cup D \cup W : f \notin ToSet(queue[l]) /\ f <= Len(flows)
           /\ ToSet(queue[l]) \subseteq FlowIds
<1> DEFINE Others == Listeners \ {l}
           A == UNION {AwaitingOf(m) : m \in Others}
           U == UNION {UncountedOf(m) : m \in Others}
           D == UNION {HeadOf(m, {"drop"}) : m \in Others}
           W == UNION {HeadOf(m, {"saved", "write"}) : m \in Others}
<1>1. \A m \in Others : /\ AwaitingOf(m)' = AwaitingOf(m) /\ UncountedOf(m)' = UncountedOf(m)
                        /\ \A S : HeadOf(m, S)' = HeadOf(m, S)
  BY DEF AwaitingOf, UncountedOf, HeadOf
<1>2. Awaiting = AwaitingOf(l) \cup A /\ Awaiting' = AwaitingOf(l)' \cup A
  BY <1>1 DEF Awaiting
<1>3. Uncounted = UncountedOf(l) \cup U /\ Uncounted' = UncountedOf(l)' \cup U
  BY <1>1 DEF Uncounted
<1>4. /\ HeadsAt({"drop"}) = HeadOf(l, {"drop"}) \cup D
      /\ HeadsAt({"drop"})' = HeadOf(l, {"drop"})' \cup D
  <2>1. HeadsAt({"drop"}) = UNION {HeadOf(m, {"drop"}) : m \in Listeners}
        /\ HeadsAt({"drop"})' = UNION {HeadOf(m, {"drop"})' : m \in Listeners}
    BY DEF HeadsAt, HeadOf
  <2> QED
    BY <1>1, <2>1
<1>5. /\ HeadsAt({"saved", "write"}) = HeadOf(l, {"saved", "write"}) \cup W
      /\ HeadsAt({"saved", "write"})' = HeadOf(l, {"saved", "write"})' \cup W
  <2>1. HeadsAt({"saved", "write"}) = UNION {HeadOf(m, {"saved", "write"}) : m \in Listeners}
        /\ HeadsAt({"saved", "write"})' = UNION {HeadOf(m, {"saved", "write"})' : m \in Listeners}
    BY DEF HeadsAt, HeadOf
  <2> QED
    BY <1>1, <2>1
<1>6. ASSUME NEW m \in Listeners
      PROVE  \A f \in AwaitingOf(m) \cup UncountedOf(m) \cup HeadOf(m, {"drop"})
                      \cup HeadOf(m, {"saved", "write"}) : f \in ToSet(queue[m])
  <2>1. queue[m] \in Seq(FlowIds) /\ (pc[m] \in {"drop", "saved", "write"} => queue[m] # <<>>)
        /\ \A i, j \in DOMAIN queue[m] : queue[m][i] = queue[m][j] => i = j
    <3>1. queue[m] \in Seq(FlowIds)
      BY DEF TypeOK
    <3>2. pc[m] \in {"drop", "saved", "write"} => queue[m] # <<>>
      BY DEF QueueInv
    <3>3. \A i, j \in DOMAIN queue[m] : queue[m][i] = queue[m][j] => i = j
      BY DEF QueueInv
    <3> QED
      BY <3>1, <3>2, <3>3
  <2>2. pc[m] \in {"drop", "saved", "write"} =>
          queue[m][1] \in ToSet(queue[m]) /\ ToSet(Tail(queue[m])) \subseteq ToSet(queue[m])
    BY <2>1, TailIs
  <2> QED
    BY <2>2 DEF AwaitingOf, UncountedOf, HeadOf
<1>7. \A m \in Listeners : \A f \in ToSet(queue[m]) : f \in FlowIds /\ f <= Len(flows)
  BY DEF ToSet, TypeOK, QueueInv
<1>8. \A m \in Others : \A f \in ToSet(queue[m]) : f \notin ToSet(queue[l])
  BY DEF ToSet, QueueInv
<1>9. \A f \in A \cup U \cup D \cup W : f \in FlowIds /\ f \notin ToSet(queue[l]) /\ f <= Len(flows)
  BY <1>6, <1>7, <1>8
<1> HIDE DEF A, U, D, W
<1> QED
  BY <1>2, <1>3, <1>4, <1>5, <1>7, <1>9

\* What the types say of one listener and of the counters.
LEMMA Typed ==
  ASSUME TypeOK
  PROVE  /\ MaxFlows \in Nat /\ MaxClock \in Nat /\ clock \in Nat /\ crashes \in Nat
         /\ Len(flows) \in Nat /\ parsed \in Nat /\ written \in Nat /\ dropped \in Nat
         /\ \A l \in Listeners : /\ queue[l] \in Seq(FlowIds) /\ Len(queue[l]) \in Nat
                                 /\ DOMAIN queue[l] = 1 .. Len(queue[l])
         /\ \A l \in Listeners : queue[l] # <<>> => 1 \in DOMAIN queue[l] /\ queue[l][1] \in FlowIds
  BY BoundAssumption DEF TypeOK

\* The initial states.
LEMMA PipelineInit == Init => PipelineInv
<1> SUFFICES ASSUME Init PROVE PipelineInv
  OBVIOUS
<1>1. TypeOK
  BY BoundAssumption DEF Init, TypeOK, Locations
<1>3. QueueInv
  BY DEF Init, QueueInv
<1>4. CountInv
  <2>1. Stored = {} /\ Stored \ HeadsAt({"saved", "write"}) = {}
    BY DEF Init, Stored
  <2>2. Awaiting = {} /\ Uncounted = {} /\ HeadsAt({"drop"}) = {}
    BY DEF Init, Awaiting, AwaitingOf, Uncounted, UncountedOf, HeadsAt, ToSet
  <2>3. StoredInv
    BY DEF Init, StoredInv
  <2>4. Len(flows) = 0 /\ parsed = 0 /\ written = 0 /\ dropped = 0
    BY DEF Init
  <2>5. Cardinality({}) = 0
    BY FS_EmptySet
  <2>6. /\ Cardinality(Awaiting) = 0 /\ Cardinality(Uncounted) = 0
        /\ Cardinality(HeadsAt({"drop"})) = 0
        /\ Cardinality(Stored \ HeadsAt({"saved", "write"})) = 0
    BY <2>1, <2>2, <2>5
  <2> QED
    BY <2>3, <2>4, <2>6 DEF CountInv, CountersAccountForFlows
<1>5. PassInv /\ WatermarkInv /\ RollupCoversRing
  BY DEF Init, PassInv, WatermarkInv, RollupCoversRing, Untouched, Unpushed
<1>6. RingOrderedAndBounded
  <2>1. ring = <<>> /\ Len(ring) = 0
    BY DEF Init
  <2> QED
    BY <2>1, NoBytes, RingAssumption DEF RingOrderedAndBounded
<1> QED
  BY <1>1, <1>3, <1>4, <1>5, <1>6 DEF PipelineInv

\* A listener that goes to another place with the same queue.
LEMMA SameQueues ==
  ASSUME UNCHANGED <<queue, flows, pc>>
  PROVE  Unpushed' = Unpushed
  BY DEF Unpushed

\* What is counted does not change while listeners are at the same places, or one goes to
\* another where its records count as they did.
LEMMA SameCounts ==
  ASSUME CountInv, UNCHANGED <<queue, failed, flows, parsed, written, dropped, convRows, crashes>>,
         \A l \in Listeners : \/ pc'[l] = pc[l]
                              \/ pc[l] \in {"receive", "push", "save"} /\ pc'[l] \in {"ended", "receive", "save", "conversation"}
                              \/ pc[l] = "saved" /\ pc'[l] = "write"
  PROVE  CountInv'
<1>1. \A l \in Listeners : AwaitingOf(l)' = AwaitingOf(l) /\ UncountedOf(l)' = UncountedOf(l)
  BY DEF AwaitingOf, UncountedOf
<1>2. Awaiting' = Awaiting /\ Uncounted' = Uncounted
  BY <1>1 DEF Awaiting, Uncounted
<1>3. HeadsAt({"drop"})' = HeadsAt({"drop"}) /\ HeadsAt({"saved", "write"})' = HeadsAt({"saved", "write"})
  BY DEF HeadsAt
<1>4. Stored' = Stored
  BY DEF Stored
<1>5. StoredInv'
  <2>1. \A l \in Listeners : JustStored(l)' = JustStored(l)
    BY DEF JustStored
  <2> QED
    BY <2>1 DEF CountInv, StoredInv
<1> QED
  BY <1>2, <1>3, <1>4, <1>5 DEF CountInv, CountersAccountForFlows

\* A datagram is received: its records are queued behind all others.
LEMMA ReceiveStep ==
  ASSUME PipelineInv, NEW l \in Listeners, Receive(l)
  PROVE  PipelineInv'
<1>0. TypeOK /\ QueueInv /\ CountInv /\ PassInv /\ WatermarkInv /\ RollupCoversRing
      /\ RingOrderedAndBounded
  BY DEF PipelineInv
<1>1. /\ pc[l] = "receive" /\ queue[l] = <<>> /\ pc' = [pc EXCEPT ![l] = "parsed"]
      /\ UNCHANGED <<clock, failed, parsed, written, dropped, ring, rollupVars, tables, crashes>>
  BY <1>0 DEF Receive, Goto, QueueInv
<1>2. PICK n \in 1 .. MaxBatch, p \in Protocols, s \in Sizes :
        LET ids == [i \in 1 .. n |-> Len(flows) + i]
            new == [i \in 1 .. n |-> [protocol |-> p, size |-> s, observed |-> clock]]
        IN  /\ Len(flows) + n <= MaxFlows
            /\ flows'  = flows \o new
            /\ queue'  = [queue EXCEPT ![l] = ids]
  BY DEF Receive
<1> DEFINE ids == [i \in 1 .. n |-> Len(flows) + i]
           new == [i \in 1 .. n |-> [protocol |-> p, size |-> s, observed |-> clock]]
<1>3. n \in Nat /\ n > 0 /\ MaxFlows \in Nat /\ Len(flows) \in Nat /\ Len(flows) + n <= MaxFlows
  BY <1>0, <1>2, BoundAssumption DEF TypeOK
<1>4. ids \in Seq(FlowIds) /\ Len(ids) = n /\ DOMAIN ids = 1 .. n
  BY <1>3 DEF FlowIds
<1>5. flows' \in Seq(Flow) /\ Len(flows') = Len(flows) + n
  <2>1. [protocol |-> p, size |-> s, observed |-> clock] \in Flow
    BY <1>0 DEF TypeOK, Flow
  <2>2. new \in Seq(Flow) /\ Len(new) = n
    BY <2>1, <1>3
  <2>3. flows \in Seq(Flow)
    BY <1>0 DEF TypeOK
  <2>4. flows' = flows \o new
    BY <1>2
  <2> HIDE DEF new
  <2>5. (flows \o new) \in Seq(Flow) /\ Len(flows \o new) = Len(flows) + Len(new)
    BY <2>2, <2>3
  <2> QED
    BY <2>2, <2>4, <2>5
<1>6. queue' \in [Listeners -> Seq(FlowIds)] /\ queue'[l] = ids
      /\ \A m \in Listeners \ {l} : queue'[m] = queue[m]
  BY <1>0, <1>2, <1>4 DEF TypeOK
<1>7. pc'[l] = "parsed" /\ \A m \in Listeners \ {l} : pc'[m] = pc[m]
  BY <1>0, <1>1 DEF TypeOK
<1>8. \A m \in Listeners \ {l} : \A i \in DOMAIN queue[m] :
        queue[m][i] \in FlowIds /\ queue[m][i] <= Len(flows)
  BY <1>0, Typed DEF QueueInv, TypeOK
<1> DEFINE fresh == Len(flows) + 1 .. Len(flows) + n
<1>9. \A i \in 1 .. n : ids[i] \in fresh /\ ids[i] = Len(flows) + i
  BY <1>3
<1>10. \A f \in fresh : f - Len(flows) \in 1 .. n /\ ids[f - Len(flows)] = f
  BY <1>3
<1> HIDE DEF ids, new
<1>11. ToSet(ids) = fresh /\ ToSet(queue[l]) = {}
  <2>1. ToSet(queue[l]) = {}
    BY <1>1 DEF ToSet
  <2>2. \A f : f \in ToSet(ids) <=> \E i \in 1 .. n : f = ids[i]
    BY <1>4 DEF ToSet
  <2> HIDE DEF fresh
  <2>3. \A f \in fresh : f \in ToSet(ids)
    BY <1>10, <2>2
  <2>4. \A f \in ToSet(ids) : f \in fresh
    BY <1>9, <2>2
  <2> QED
    BY <2>1, <2>3, <2>4
<1>12. \A m \in Listeners \ {l} : queue'[m] = queue[m] /\ pc'[m] = pc[m]
  BY <1>6, <1>7
<1>13. PICK A, U, D, W \in SUBSET FlowIds :
         /\ Awaiting = AwaitingOf(l) \cup A /\ Awaiting' = AwaitingOf(l)' \cup A
         /\ Uncounted = UncountedOf(l) \cup U /\ Uncounted' = UncountedOf(l)' \cup U
         /\ HeadsAt({"drop"}) = HeadOf(l, {"drop"}) \cup D
         /\ HeadsAt({"drop"})' = HeadOf(l, {"drop"})' \cup D
         /\ HeadsAt({"saved", "write"}) = HeadOf(l, {"saved", "write"}) \cup W
         /\ HeadsAt({"saved", "write"})' = HeadOf(l, {"saved", "write"})' \cup W
         /\ \A f \in A \cup U \cup D \cup W : f \notin ToSet(queue[l]) /\ f <= Len(flows)
         /\ ToSet(queue[l]) \subseteq FlowIds
  BY <1>0, <1>12, OneListener
<1>14. QueueInv'
  <2>1. ASSUME NEW m \in Listeners
        PROVE  /\ pc'[m] \notin {"receive", "push", "ended"} => queue'[m] # <<>>
               /\ pc'[m] \in {"receive", "ended"} => queue'[m] = <<>>
               /\ \A i \in DOMAIN queue'[m] : queue'[m][i] <= Len(flows')
               /\ failed'[m] => pc'[m] \in {"saved", "write", "drop"}
               /\ pc'[m] = "drop" => failed'[m]
    <3>1. CASE m = l
      <4>1. failed'[l] = failed[l] /\ ~failed[l]
        BY <1>0, <1>1 DEF QueueInv
      <4> QED
        BY <3>1, <4>1, <1>3, <1>4, <1>5, <1>6, <1>7, <1>9
    <3>2. CASE m # l
      <4>1. queue'[m] = queue[m] /\ pc'[m] = pc[m]
        BY <3>2, <1>6, <1>7
      <4>2. \A i \in DOMAIN queue[m] : queue[m][i] \in Nat /\ queue[m][i] <= Len(flows)
        BY <3>2, <1>8 DEF FlowIds
      <4>3. \A i \in DOMAIN queue[m] : queue[m][i] <= Len(flows')
        BY <4>2, <1>3, <1>5
      <4> QED
        BY <4>1, <4>3, <1>0, <1>1 DEF QueueInv
    <3> QED
      BY <3>1, <3>2
  <2>2. ASSUME NEW m \in Listeners, NEW k \in Listeners, NEW i \in DOMAIN queue'[m],
               NEW j \in DOMAIN queue'[k], queue'[m][i] = queue'[k][j]
        PROVE  m = k /\ i = j
    <3>1. CASE m = l /\ k = l
      BY <2>2, <3>1, <1>3, <1>4, <1>6, <1>9
    <3>2. CASE m # l /\ k # l
      BY <2>2, <3>2, <1>0, <1>6 DEF QueueInv
    <3>3. \A f \in fresh : f > Len(flows) /\ f \in Int
      BY <1>3
    <3>4. \A x \in Listeners \ {l} : \A y \in DOMAIN queue[x] :
            queue[x][y] \in Int /\ ~(queue[x][y] > Len(flows))
      BY <1>3, <1>8 DEF FlowIds
    <3>5. CASE m = l /\ k # l
      BY <2>2, <3>3, <3>4, <3>5, <1>4, <1>6, <1>9
    <3>6. CASE m # l /\ k = l
      BY <2>2, <3>3, <3>4, <3>6, <1>4, <1>6, <1>9
    <3> QED
      BY <3>1, <3>2, <3>5, <3>6
  <2> QED
    BY <2>1, <2>2 DEF QueueInv
<1>15. CountInv'
  <2>1. /\ AwaitingOf(l) = {} /\ AwaitingOf(l)' = {} /\ UncountedOf(l) = {} /\ UncountedOf(l)' = fresh
        /\ HeadOf(l, {"drop"}) = {} /\ HeadOf(l, {"drop"})' = {}
        /\ HeadOf(l, {"saved", "write"}) = {} /\ HeadOf(l, {"saved", "write"})' = {}
    BY <1>1, <1>6, <1>7, <1>11 DEF AwaitingOf, UncountedOf, HeadOf
  <2>2. /\ Awaiting' = Awaiting /\ Uncounted' = U \cup fresh /\ Uncounted = U
        /\ HeadsAt({"drop"})' = HeadsAt({"drop"})
        /\ HeadsAt({"saved", "write"})' = HeadsAt({"saved", "write"})
    BY <1>13, <2>1
  <2>3. Cardinality(U \cup fresh) = Cardinality(U) + n
    <3>1. IsFiniteSet(fresh) /\ Cardinality(fresh) = n
      <4>1. Len(flows) + 1 \in Int /\ Len(flows) + n \in Int /\ ~(Len(flows) + 1 > Len(flows) + n)
            /\ Len(flows) + n - (Len(flows) + 1) + 1 = n
        BY <1>3
      <4> QED
        BY <4>1, FS_Interval
    <3>2. IsFiniteSet(U) /\ Cardinality(U) \in Nat
      BY FlowsAreFinite
    <3>3. U \cap fresh = {}
      <4>1. ASSUME NEW f \in U, f \in fresh PROVE FALSE
        BY <1>3, <1>13, <4>1 DEF FlowIds
      <4> QED
        BY <4>1
    <3>4. Cardinality(U \cap fresh) = 0
      BY <3>3, FS_EmptySet
    <3>5. Cardinality(U \cup fresh) = Cardinality(U) + Cardinality(fresh) - Cardinality(U \cap fresh)
      BY <3>1, <3>2, FS_Union
    <3> QED
      BY <3>1, <3>2, <3>4, <3>5, <1>3
  <2>4. parsed' + Cardinality(Uncounted') <= Len(flows')
    <3>1. parsed + Cardinality(U) <= Len(flows) /\ parsed \in Nat /\ Cardinality(U) \in Nat
      BY <1>0, <2>2, Typed, FlowsAreFinite DEF CountInv
    <3> QED
      BY <1>1, <1>3, <1>5, <2>2, <2>3, <3>1
  <2>5. UNCHANGED <<convRows, crashes, parsed, written, dropped, failed>>
    BY <1>1 DEF tables
  <2>6. Stored' = Stored
    BY <2>5 DEF Stored
  <2>7. StoredInv'
    <3>1. \A f \in FlowIds : f > Len(flows') => f > Len(flows)
      BY <1>3, <1>5 DEF FlowIds
    <3>2. \A i \in 1 .. n : convRows[ids[i]] = 0
      <4>1. \A i \in 1 .. n : ids[i] \in FlowIds /\ ids[i] > Len(flows)
        BY <1>3, <1>4, <1>9
      <4> QED
        BY <1>0, <4>1 DEF CountInv, StoredInv
    <3>3. ~JustStored(l)' /\ \A m \in Listeners \ {l} : JustStored(m)' = JustStored(m)
      BY <1>7, <2>5 DEF JustStored
    <3>4. ASSUME NEW m \in Listeners, NEW i \in DOMAIN queue'[m]
          PROVE  convRows[queue'[m][i]] = IF i = 1 /\ JustStored(m)' THEN 1 ELSE 0
      <4>1. CASE m = l
        BY <1>4, <1>6, <3>2, <3>3, <3>4, <4>1
      <4>2. CASE m # l
        BY <1>0, <1>6, <3>3, <3>4, <4>2 DEF CountInv, StoredInv
      <4> QED
        BY <4>1, <4>2
    <3>5. \A f \in FlowIds : convRows[f] <= 1 /\ (f > Len(flows) => convRows[f] = 0)
      BY <1>0 DEF CountInv, StoredInv
    <3> QED
      BY <2>5, <3>1, <3>4, <3>5 DEF StoredInv
  <2> QED
    BY <1>0, <2>2, <2>4, <2>5, <2>6, <2>7 DEF CountInv, CountersAccountForFlows
<1>16. Unpushed' \subseteq Unpushed
  <2>1. SUFFICES ASSUME NEW f \in Unpushed' PROVE f \in Unpushed
    OBVIOUS
  <2>2. f \in FlowIds
    BY DEF Unpushed
  <2>3. CASE f > Len(flows')
    BY <2>2, <2>3, <1>3, <1>5 DEF Unpushed, FlowIds
  <2>4. CASE \E m \in Listeners : \E i \in DOMAIN queue'[m] :
               f = queue'[m][i] /\ (i > 1 \/ pc'[m] \in {"parsed", "push"})
    <3>1. PICK m \in Listeners : \E i \in DOMAIN queue'[m] :
               f = queue'[m][i] /\ (i > 1 \/ pc'[m] \in {"parsed", "push"})
      BY <2>4
    <3>2. CASE m = l
      <4>1. f \in fresh
        BY <3>1, <3>2, <1>4, <1>6, <1>9
      <4>2. f > Len(flows)
        BY <4>1, <1>3
      <4> QED
        BY <4>2, <2>2 DEF Unpushed
    <3>3. CASE m # l
      BY <2>2, <3>1, <3>3, <1>6, <1>7 DEF Unpushed
    <3> QED
      BY <3>2, <3>3
  <2> QED
    BY <2>3, <2>4 DEF Unpushed
<1>17. PassInv' /\ WatermarkInv' /\ RollupCoversRing' /\ RingOrderedAndBounded'
  BY <1>0, <1>1, <1>16 DEF rollupVars, tables, PassInv, WatermarkInv, RollupCoversRing,
     RingOrderedAndBounded, Untouched
<1>18. TypeOK'
  <2>1. pc' \in [Listeners -> Locations]
    BY <1>0, <1>1 DEF TypeOK, Locations
  <2> QED
    BY <1>0, <1>1, <1>3, <1>5, <1>6, <2>1 DEF TypeOK, rollupVars, tables
<1> QED
  BY <1>14, <1>15, <1>17, <1>18 DEF PipelineInv

\* A listener that only goes on to another place, or has its record stored.
LEMMA PlaceStep ==
  ASSUME PipelineInv, NEW l \in Listeners,
         ReceiveFails(l) \/ DatagramDone(l) \/ InsertRaw(l) \/ Unlock(l)
  PROVE  PipelineInv'
<1>0. TypeOK /\ QueueInv /\ CountInv /\ PassInv /\ WatermarkInv /\ RollupCoversRing
      /\ RingOrderedAndBounded
  BY DEF PipelineInv
<1>1. /\ UNCHANGED <<clock, flows, queue, failed, parsed, written, dropped, ring, rollupVars,
                    convRows, rollupRows, crashes>>
      /\ \/ pc[l] \in {"receive", "push"} /\ queue[l] = <<>>
            /\ \/ pc' = [pc EXCEPT ![l] = "ended"]
               \/ pc' = [pc EXCEPT ![l] = "receive"]
         \/ pc[l] = "save" /\ pc' = [pc EXCEPT ![l] = "conversation"]
         \/ pc[l] = "saved" /\ pc' = [pc EXCEPT ![l] = "write"]
  BY <1>0 DEF ReceiveFails, DatagramDone, InsertRaw, Unlock, Goto, tables, QueueInv
<1>2. /\ pc' \in [Listeners -> Locations]
      /\ \A m \in Listeners \ {l} : pc'[m] = pc[m]
      /\ \/ pc[l] \in {"receive", "push"} /\ pc'[l] \in {"ended", "receive"} /\ queue[l] = <<>>
         \/ pc[l] = "save" /\ pc'[l] = "conversation"
         \/ pc[l] = "saved" /\ pc'[l] = "write"
  BY <1>0, <1>1 DEF TypeOK, Locations
<1>3. rawRows' \subseteq FlowIds
  <2>1. CASE rawRows' = rawRows
    BY <1>0, <2>1 DEF TypeOK
  <2>2. CASE InsertRaw(l)
    <3>1. queue[l] # <<>>
      BY <1>0, <2>2 DEF InsertRaw, QueueInv
    <3>2. queue[l][1] \in FlowIds
      BY <3>1, <1>0, Typed
    <3> QED
      BY <1>0, <2>2, <3>2 DEF InsertRaw, TypeOK
  <2> QED
    BY <2>1, <2>2 DEF ReceiveFails, DatagramDone, Unlock, tables
<1>4. TypeOK'
  BY <1>0, <1>1, <1>2, <1>3 DEF TypeOK, rollupVars
<1>5. QueueInv'
  <2>1. ASSUME NEW m \in Listeners
        PROVE  /\ pc'[m] \notin {"receive", "push", "ended"} => queue[m] # <<>>
               /\ pc'[m] \in {"receive", "ended"} => queue[m] = <<>>
               /\ failed[m] => pc'[m] \in {"saved", "write", "drop"}
               /\ pc'[m] = "drop" => failed[m]
    BY <1>0, <1>2 DEF QueueInv
  <2> QED
    BY <1>0, <1>1, <2>1 DEF QueueInv
<1>6. CountInv'
  BY <1>0, <1>1, <1>2, SameCounts
<1>7. Unpushed' \subseteq Unpushed
  BY <1>1, <1>2 DEF Unpushed
<1>8. PassInv' /\ WatermarkInv' /\ RollupCoversRing' /\ RingOrderedAndBounded'
  BY <1>0, <1>1, <1>7 DEF rollupVars, PassInv, WatermarkInv, RollupCoversRing,
     RingOrderedAndBounded, Untouched
<1> QED
  BY <1>4, <1>5, <1>6, <1>8 DEF PipelineInv

\* A record comes into the ring: it was not pushed, so it is neither counted nor about to
\* be, and its instant is no earlier than the watermark.
LEMMA PushStep ==
  ASSUME PipelineInv, NEW l \in Listeners, Push(l)
  PROVE  PipelineInv'
<1>0. TypeOK /\ QueueInv /\ CountInv /\ PassInv /\ WatermarkInv /\ RollupCoversRing
      /\ RingOrderedAndBounded
  BY DEF PipelineInv
<1> DEFINE f == queue[l][1]
           e == [flow |-> f, size |-> flows[f].size, at |-> clock]
<1>1. /\ pc[l] = "push" /\ queue[l] # <<>> /\ ring' = RingAfterPush(f)
      /\ pc' = [pc EXCEPT ![l] = "save"]
      /\ UNCHANGED <<clock, flows, queue, failed, parsed, written, dropped, rollupVars, tables,
                     crashes>>
  BY DEF Push, Goto
<1>2. 1 \in DOMAIN queue[l] /\ f \in FlowIds /\ f \in 1 .. Len(flows)
  <2>1. 1 \in DOMAIN queue[l] /\ f \in FlowIds /\ Len(flows) \in Nat
    BY <1>0, <1>1, Typed
  <2>2. f <= Len(flows)
    BY <1>0, <2>1 DEF QueueInv
  <2> QED
    BY <2>1, <2>2, <1>0, Typed DEF FlowIds
<1>3. f \in Unpushed
  BY <1>1, <1>2 DEF Unpushed
<1>4. /\ ring' \in Seq(Entry)
      /\ \A i \in DOMAIN ring' : ring'[i] = e \/ \E k \in DOMAIN ring : ring'[i] = ring[k]
      /\ \A i, j \in DOMAIN ring' : i < j => ring'[i].at <= ring'[j].at
      /\ \A i, j \in DOMAIN ring' : ring'[i].flow = ring'[j].flow => i = j
      /\ Len(ring') <= RingLimit /\ RingBytes(ring') <= RingBytesLimit
  <2>1. /\ \A i, j \in DOMAIN ring : i < j => ring[i].at <= ring[j].at
        /\ \A i \in DOMAIN ring : ring[i].at <= clock
        /\ \A i, j \in DOMAIN ring : ring[i].flow = ring[j].flow => i = j
        /\ \A i \in DOMAIN ring : ring[i].flow # f
    BY <1>0, <1>3 DEF RingOrderedAndBounded, WatermarkInv, PassInv
  <2> QED
    BY <1>0, <1>1, <1>2, <2>1, AfterPush
<1> HIDE DEF f
<1>5. e.flow = f /\ e.at = clock
  OBVIOUS
<1> HIDE DEF e
<1>6. /\ pc' \in [Listeners -> Locations]
      /\ pc'[l] = "save" /\ \A m \in Listeners \ {l} : pc'[m] = pc[m]
  BY <1>0, <1>1 DEF TypeOK, Locations
<1>7. TypeOK'
  BY <1>0, <1>1, <1>4, <1>6 DEF TypeOK, rollupVars, tables
<1>8. QueueInv'
  BY <1>0, <1>1, <1>6 DEF QueueInv
<1>9. CountInv'
  BY <1>0, <1>1, <1>6, SameCounts DEF tables
<1>10. Unpushed' \subseteq Unpushed \ {f}
  <2>1. SUFFICES ASSUME NEW g \in Unpushed' PROVE g \in Unpushed /\ g # f
    OBVIOUS
  <2>2. CASE g > Len(flows)
    BY <2>1, <2>2, <1>1, <1>2, <1>0, Typed DEF Unpushed
  <2>3. CASE \E m \in Listeners : \E i \in DOMAIN queue[m] :
               g = queue[m][i] /\ (i > 1 \/ pc'[m] \in {"parsed", "push"})
    <3>0. PICK m \in Listeners : \E i \in DOMAIN queue[m] :
               g = queue[m][i] /\ (i > 1 \/ pc'[m] \in {"parsed", "push"})
      BY <2>3
    <3>1. PICK i \in DOMAIN queue[m] : g = queue[m][i] /\ (i > 1 \/ pc'[m] \in {"parsed", "push"})
      BY <3>0
    <3>2. g \in Unpushed
      BY <2>1, <3>1, <1>1, <1>6 DEF Unpushed
    <3>3. ~(m = l /\ i = 1)
      BY <3>1, <1>6
    <3>4. g # f
      BY <3>1, <3>3, <1>0, <1>2 DEF QueueInv, f
    <3> QED
      BY <3>2, <3>4
  <2> QED
    BY <1>1, <2>1, <2>2, <2>3 DEF Unpushed
<1>11. UNCHANGED <<clock, watermark, now, batch, marks, spoiled, rollupPc, rollupRows>>
  BY <1>1 DEF rollupVars, tables
<1>12. PassInv'
  <2>1. rollupRows[f] = 0 /\ f \notin batch
    BY <1>0, <1>3 DEF PassInv, Untouched
  <2>2. ASSUME NEW g \in Unpushed'
        PROVE  rollupRows[g] = 0 /\ g \notin batch /\ \A i \in DOMAIN ring' : ring'[i].flow # g
    <3>1. g \in Unpushed /\ g # f
      BY <1>10
    <3>2. Untouched(g) /\ \A i \in DOMAIN ring : ring[i].flow # g
      BY <1>0, <3>1 DEF PassInv
    <3>3. \A i \in DOMAIN ring' : ring'[i].flow # g
      BY <1>4, <1>5, <3>1, <3>2
    <3> QED
      BY <3>2, <3>3 DEF Untouched
  <2>3. ASSUME NEW i \in DOMAIN ring', ring'[i].at > watermark
        PROVE  rollupRows[ring'[i].flow] = 0 /\ ring'[i].flow \notin batch
    <3>1. CASE ring'[i] = e
      BY <3>1, <1>5, <2>1
    <3>2. CASE \E k \in DOMAIN ring : ring'[i] = ring[k]
      BY <3>2, <2>3, <1>0 DEF PassInv, Untouched
    <3> QED
      BY <1>4, <3>1, <3>2
  <2>4. /\ \A g \in FlowIds : rollupRows[g] <= 1
        /\ \A g \in batch : rollupRows[g] = 0
    BY <1>0 DEF PassInv
  <2> QED
    BY <1>4, <1>11, <2>2, <2>3, <2>4 DEF PassInv, Untouched
<1>13. clock \in Nat /\ watermark <= clock /\ watermark \in Nat
  BY <1>0, Typed, BoundAssumption DEF TypeOK, WatermarkInv
<1>14. WatermarkInv'
  <2>1. \A i \in DOMAIN ring' : ring'[i].at <= clock
    BY <1>0, <1>4, <1>5, <1>13 DEF WatermarkInv
  <2> QED
    BY <1>0, <1>11, <2>1 DEF WatermarkInv
<1>15. RollupCoversRing'
  <2>1. ASSUME NEW i \in DOMAIN ring', ring'[i].at < watermark, ring'[i].at \notin marks,
               \E m \in marks : m < ring'[i].at
        PROVE  rollupRows[ring'[i].flow] = 1 \/ ring'[i].flow \in batch \cup spoiled
    <3>1. ring'[i] # e
      BY <2>1, <1>5, <1>13
    <3>2. PICK k \in DOMAIN ring : ring'[i] = ring[k]
      BY <1>4, <3>1
    <3> QED
      BY <1>0, <2>1, <3>2 DEF RollupCoversRing
  <2> QED
    BY <1>11, <2>1 DEF RollupCoversRing
<1>16. RingOrderedAndBounded'
  BY <1>4 DEF RingOrderedAndBounded
<1> QED
  BY <1>7, <1>8, <1>9, <1>12, <1>14, <1>15, <1>16 DEF PipelineInv

\* The step of a listener keeps what does not depend on the queues.
LEMMA QuietStep ==
  ASSUME PassInv, WatermarkInv, RollupCoversRing, RingOrderedAndBounded, Unpushed' \subseteq Unpushed,
         UNCHANGED <<clock, ring, rollupVars, rollupRows>>
  PROVE  PassInv' /\ WatermarkInv' /\ RollupCoversRing' /\ RingOrderedAndBounded'
  BY DEF rollupVars, PassInv, WatermarkInv, RollupCoversRing, RingOrderedAndBounded, Untouched

\* The records of a datagram are counted as parsed.
LEMMA ParsedStep ==
  ASSUME PipelineInv, NEW l \in Listeners, CountParsed(l)
  PROVE  PipelineInv'
<1>0. TypeOK /\ QueueInv /\ CountInv /\ PassInv /\ WatermarkInv /\ RollupCoversRing
      /\ RingOrderedAndBounded
  BY DEF PipelineInv
<1>1. /\ pc[l] = "parsed" /\ pc' = [pc EXCEPT ![l] = "push"] /\ parsed' = parsed + Len(queue[l])
      /\ UNCHANGED <<clock, flows, queue, failed, written, dropped, ring, rollupVars, tables, crashes>>
  BY DEF CountParsed, Goto
<1>2. pc' \in [Listeners -> Locations] /\ pc'[l] = "push"
      /\ \A m \in Listeners \ {l} : queue'[m] = queue[m] /\ pc'[m] = pc[m]
  BY <1>0, <1>1 DEF TypeOK, Locations
<1>3. PICK A, U, D, W \in SUBSET FlowIds :
         /\ Awaiting = AwaitingOf(l) \cup A /\ Awaiting' = AwaitingOf(l)' \cup A
         /\ Uncounted = UncountedOf(l) \cup U /\ Uncounted' = UncountedOf(l)' \cup U
         /\ HeadsAt({"drop"}) = HeadOf(l, {"drop"}) \cup D
         /\ HeadsAt({"drop"})' = HeadOf(l, {"drop"})' \cup D
         /\ HeadsAt({"saved", "write"}) = HeadOf(l, {"saved", "write"}) \cup W
         /\ HeadsAt({"saved", "write"})' = HeadOf(l, {"saved", "write"})' \cup W
         /\ \A f \in A \cup U \cup D \cup W : f \notin ToSet(queue[l]) /\ f <= Len(flows)
         /\ ToSet(queue[l]) \subseteq FlowIds
  BY <1>0, <1>2, OneListener
<1> DEFINE own == ToSet(queue[l])
<1>4. /\ AwaitingOf(l) = {} /\ AwaitingOf(l)' = own /\ UncountedOf(l) = own /\ UncountedOf(l)' = {}
      /\ HeadOf(l, {"drop"}) = {} /\ HeadOf(l, {"drop"})' = {}
      /\ HeadOf(l, {"saved", "write"}) = {} /\ HeadOf(l, {"saved", "write"})' = {}
  BY <1>1, <1>2 DEF AwaitingOf, UncountedOf, HeadOf
<1>5. /\ IsFiniteSet(own) /\ Cardinality(own) = Len(queue[l]) /\ Len(queue[l]) \in Nat
  <2>1. queue[l] \in Seq(FlowIds) /\ \A i, j \in DOMAIN queue[l] : queue[l][i] = queue[l][j] => i = j
    BY <1>0 DEF TypeOK, QueueInv
  <2>2. own = {queue[l][i] : i \in DOMAIN queue[l]}
    BY DEF ToSet
  <2> HIDE DEF own
  <2> QED
    BY <2>1, <2>2, NoRepetition
<1> HIDE DEF own
<1>6. /\ Awaiting = A /\ Awaiting' = A \cup own /\ Uncounted = U \cup own /\ Uncounted' = U
      /\ HeadsAt({"drop"})' = HeadsAt({"drop"})
      /\ HeadsAt({"saved", "write"})' = HeadsAt({"saved", "write"})
      /\ A \cap own = {} /\ U \cap own = {}
  <2>1. \A f \in A \cup U : f \notin own
    BY <1>3 DEF own
  <2> QED
    BY <1>3, <1>4, <2>1
<1>7. /\ Cardinality(A \cup own) = Cardinality(A) + Len(queue[l]) /\ Cardinality(A) \in Nat
      /\ Cardinality(U \cup own) = Cardinality(U) + Len(queue[l]) /\ Cardinality(U) \in Nat
  <2>1. \A S \in SUBSET FlowIds : S \cap own = {} =>
          Cardinality(S \cup own) = Cardinality(S) + Len(queue[l]) /\ Cardinality(S) \in Nat
    <3>1. SUFFICES ASSUME NEW S \in SUBSET FlowIds, S \cap own = {}
                   PROVE  Cardinality(S \cup own) = Cardinality(S) + Len(queue[l]) /\ Cardinality(S) \in Nat
      OBVIOUS
    <3>2. IsFiniteSet(S) /\ Cardinality(S) \in Nat /\ Cardinality(S \cap own) = 0
      BY <3>1, FlowsAreFinite, FS_EmptySet
    <3>3. Cardinality(S \cup own) = Cardinality(S) + Cardinality(own) - Cardinality(S \cap own)
      BY <1>5, <3>2, FS_Union
    <3> QED
      BY <1>5, <3>2, <3>3
  <2> QED
    BY <1>6, <2>1
<1>8. CountInv'
  <2>1. UNCHANGED <<convRows, crashes, written, dropped, failed, flows, queue>>
    BY <1>1 DEF tables
  <2>2. Stored' = Stored
    BY <2>1 DEF Stored
  <2>3. StoredInv'
    <3>1. \A m \in Listeners : JustStored(m)' = JustStored(m)
      BY <1>1, <1>2, <2>1 DEF JustStored
    <3> QED
      BY <1>0, <2>1, <3>1 DEF CountInv, StoredInv
  <2>4. parsed' = written' + Cardinality(Awaiting') /\ parsed' + Cardinality(Uncounted') <= Len(flows')
    <3>1. /\ parsed = written + Cardinality(A) /\ parsed + Cardinality(U \cup own) <= Len(flows)
          /\ parsed \in Nat /\ written \in Nat /\ Len(flows) \in Nat
      BY <1>0, <1>6, Typed DEF CountInv, CountersAccountForFlows
    <3>2. parsed' = written + (Cardinality(A) + Len(queue[l]))
          /\ parsed' + Cardinality(U) <= Len(flows)
      <4> DEFINE a == Cardinality(A)
                 u == Cardinality(U)
                 q == Len(queue[l])
      <4>1. /\ parsed = written + a /\ parsed + (u + q) <= Len(flows) /\ parsed' = parsed + q
            /\ a \in Nat /\ u \in Nat /\ q \in Nat
        BY <1>1, <1>5, <1>7, <3>1
      <4> HIDE DEF a, u, q
      <4>2. parsed' = written + (a + q) /\ parsed' + u <= Len(flows)
        BY <3>1, <4>1
      <4> QED
        BY <4>2 DEF a, u, q
    <3> QED
      BY <1>6, <1>7, <2>1, <3>2
  <2> QED
    BY <1>0, <1>6, <2>1, <2>2, <2>3, <2>4 DEF CountInv, CountersAccountForFlows
<1>9. TypeOK'
  <2>1. parsed' \in 0 .. MaxFlows
    <3>1. parsed' + Cardinality(U) <= Len(flows) /\ Cardinality(U) \in Nat
      BY <1>1, <1>6, <1>7, <1>8 DEF CountInv
    <3>2. parsed' \in Nat /\ Len(flows) <= MaxFlows /\ Len(flows) \in Nat /\ MaxFlows \in Nat
      BY <1>0, <1>1, <1>5, Typed DEF TypeOK
    <3> QED
      BY <3>1, <3>2
  <2> QED
    BY <1>0, <1>1, <1>2, <2>1 DEF TypeOK, rollupVars, tables
<1>10. QueueInv'
  <2>1. ASSUME NEW m \in Listeners
        PROVE  /\ pc'[m] \notin {"receive", "push", "ended"} => queue[m] # <<>>
               /\ pc'[m] \in {"receive", "ended"} => queue[m] = <<>>
               /\ failed[m] => pc'[m] \in {"saved", "write", "drop"}
               /\ pc'[m] = "drop" => failed[m]
    BY <1>0, <1>1, <1>2 DEF QueueInv
  <2> QED
    BY <1>0, <1>1, <2>1 DEF QueueInv
<1>11. Unpushed' \subseteq Unpushed
  <2>1. SUFFICES ASSUME NEW f \in Unpushed' PROVE f \in Unpushed
    OBVIOUS
  <2> QED
    BY <1>1, <1>2 DEF Unpushed
<1> QED
  BY <1>0, <1>1, <1>8, <1>9, <1>10, <1>11, QuietStep DEF PipelineInv, tables

\* The statements of a save are over: with the second one done, or with either failed.
LEMMA SavedStep ==
  ASSUME PipelineInv, NEW l \in Listeners,
         InsertRawFails(l) \/ UpsertConversation(l) \/ UpsertConversationFails(l)
  PROVE  PipelineInv'
<1>0. TypeOK /\ QueueInv /\ CountInv /\ PassInv /\ WatermarkInv /\ RollupCoversRing
      /\ RingOrderedAndBounded
  BY DEF PipelineInv
<1> DEFINE f == queue[l][1]
<1>1. /\ pc[l] \in {"save", "conversation"} /\ pc' = [pc EXCEPT ![l] = "saved"]
      /\ \/ failed' = [failed EXCEPT ![l] = TRUE] /\ convRows' = convRows
         \/ failed' = failed /\ convRows' = [convRows EXCEPT ![f] = @ + 1]
      /\ UNCHANGED <<clock, flows, queue, parsed, written, dropped, ring, rollupVars, rawRows,
                     rollupRows, crashes>>
  BY DEF InsertRawFails, UpsertConversation, UpsertConversationFails, Goto, tables
<1>2. /\ pc' \in [Listeners -> Locations] /\ pc'[l] = "saved"
      /\ \A m \in Listeners \ {l} : queue'[m] = queue[m] /\ pc'[m] = pc[m]
  BY <1>0, <1>1 DEF TypeOK, Locations
<1>3. /\ queue[l] \in Seq(FlowIds) /\ queue[l] # <<>> /\ 1 \in DOMAIN queue[l]
      /\ ~failed[l] /\ failed \in [Listeners -> BOOLEAN]
      /\ f \in ToSet(queue[l]) /\ f \in FlowIds
  <2>1. queue[l] \in Seq(FlowIds) /\ failed \in [Listeners -> BOOLEAN]
    BY <1>0 DEF TypeOK
  <2>2. queue[l] # <<>> /\ ~failed[l]
    BY <1>0, <1>1 DEF QueueInv
  <2>3. \A i, j \in DOMAIN queue[l] : queue[l][i] = queue[l][j] => i = j
    BY <1>0 DEF QueueInv
  <2>4. f \in ToSet(queue[l])
    BY <2>1, <2>2, <2>3, TailIs
  <2>5. 1 \in DOMAIN queue[l] /\ f \in FlowIds
    BY <2>1, <2>2
  <2> QED
    BY <2>1, <2>2, <2>4, <2>5
<1>4. /\ failed' \in [Listeners -> BOOLEAN] /\ \A m \in Listeners \ {l} : failed'[m] = failed[m]
      /\ convRows' \in [FlowIds -> Nat] /\ \A g \in FlowIds \ {f} : convRows'[g] = convRows[g]
      /\ convRows[f] = 0 /\ convRows'[f] = IF failed'[l] THEN 0 ELSE 1
  <2>1. convRows \in [FlowIds -> Nat]
    BY <1>0 DEF TypeOK
  <2>2. convRows[f] = 0
    BY <1>0, <1>1, <1>3 DEF CountInv, StoredInv, JustStored
  <2> HIDE DEF f
  <2>3. CASE failed' = [failed EXCEPT ![l] = TRUE] /\ convRows' = convRows
    BY <1>3, <2>1, <2>2, <2>3
  <2>4. CASE failed' = failed /\ convRows' = [convRows EXCEPT ![f] = @ + 1]
    <3>1. convRows' \in [FlowIds -> Nat] /\ convRows'[f] = 1
          /\ \A g \in FlowIds \ {f} : convRows'[g] = convRows[g]
      BY <1>3, <2>1, <2>2, <2>4
    <3> QED
      BY <1>3, <2>2, <2>4, <3>1
  <2> QED
    BY <1>1, <2>3, <2>4 DEF f
<1>5. PICK A, U, D, W \in SUBSET FlowIds :
         /\ Awaiting = AwaitingOf(l) \cup A /\ Awaiting' = AwaitingOf(l)' \cup A
         /\ Uncounted = UncountedOf(l) \cup U /\ Uncounted' = UncountedOf(l)' \cup U
         /\ HeadsAt({"drop"}) = HeadOf(l, {"drop"}) \cup D
         /\ HeadsAt({"drop"})' = HeadOf(l, {"drop"})' \cup D
         /\ HeadsAt({"saved", "write"}) = HeadOf(l, {"saved", "write"}) \cup W
         /\ HeadsAt({"saved", "write"})' = HeadOf(l, {"saved", "write"})' \cup W
         /\ \A g \in A \cup U \cup D \cup W : g \notin ToSet(queue[l]) /\ g <= Len(flows)
         /\ ToSet(queue[l]) \subseteq FlowIds
  BY <1>0, <1>2, OneListener
<1>6. /\ AwaitingOf(l)' = AwaitingOf(l) /\ UncountedOf(l) = {} /\ UncountedOf(l)' = {}
      /\ HeadOf(l, {"drop"}) = {} /\ HeadOf(l, {"drop"})' = {}
      /\ HeadOf(l, {"saved", "write"}) = {} /\ HeadOf(l, {"saved", "write"})' = {f}
  BY <1>1, <1>2 DEF AwaitingOf, UncountedOf, HeadOf
<1>7. /\ Awaiting' = Awaiting /\ Uncounted' = Uncounted /\ HeadsAt({"drop"})' = HeadsAt({"drop"})
      /\ HeadsAt({"saved", "write"})' = HeadsAt({"saved", "write"}) \cup {f}
  BY <1>5, <1>6
<1>8. Stored' \ HeadsAt({"saved", "write"})' = Stored \ HeadsAt({"saved", "write"})
  <2>1. \A g \in FlowIds \ {f} : g \in Stored' <=> g \in Stored
    BY <1>4 DEF Stored
  <2>2. f \notin Stored /\ Stored \subseteq FlowIds /\ Stored' \subseteq FlowIds
    BY <1>4 DEF Stored
  <2> HIDE DEF f
  <2> QED
    BY <1>7, <2>1, <2>2
<1>9. StoredInv'
  <2>1. \A g \in FlowIds : convRows'[g] <= 1 /\ (g > Len(flows) => convRows'[g] = 0)
    <3>1. f <= Len(flows) /\ f \in Nat /\ Len(flows) \in Nat
      BY <1>0, <1>3, Typed DEF QueueInv, FlowIds
    <3>2. \A g \in FlowIds : convRows[g] <= 1 /\ (g > Len(flows) => convRows[g] = 0)
      BY <1>0 DEF CountInv, StoredInv
    <3> HIDE DEF f
    <3> QED
      BY <1>4, <3>1, <3>2
  <2>2. ASSUME NEW m \in Listeners, NEW i \in DOMAIN queue[m]
        PROVE  convRows'[queue[m][i]] = IF i = 1 /\ JustStored(m)' THEN 1 ELSE 0
    <3>1. convRows[queue[m][i]] = IF i = 1 /\ JustStored(m) THEN 1 ELSE 0
      BY <1>0 DEF CountInv, StoredInv
    <3>2. CASE m = l /\ i = 1
      BY <1>2, <1>4, <3>2 DEF JustStored
    <3>3. CASE ~(m = l /\ i = 1)
      <4>1. queue[m][i] # f /\ queue[m][i] \in FlowIds
        BY <1>0, <1>3, <3>3 DEF QueueInv, TypeOK
      <4>2. m # l => JustStored(m)' = JustStored(m)
        BY <1>2, <1>4 DEF JustStored
      <4>3. m = l => i # 1
        BY <3>3
      <4> HIDE DEF f
      <4> QED
        BY <1>4, <3>1, <4>1, <4>2, <4>3
    <3> QED
      BY <3>2, <3>3
  <2> QED
    BY <1>1, <2>1, <2>2 DEF StoredInv
<1>10. CountInv'
  BY <1>0, <1>1, <1>7, <1>8, <1>9 DEF CountInv, CountersAccountForFlows
<1>11. TypeOK'
  BY <1>0, <1>1, <1>2, <1>4 DEF TypeOK, rollupVars
<1>12. QueueInv'
  <2>1. ASSUME NEW m \in Listeners
        PROVE  /\ pc'[m] \notin {"receive", "push", "ended"} => queue[m] # <<>>
               /\ pc'[m] \in {"receive", "ended"} => queue[m] = <<>>
               /\ failed'[m] => pc'[m] \in {"saved", "write", "drop"}
               /\ pc'[m] = "drop" => failed'[m]
    BY <1>0, <1>2, <1>3, <1>4 DEF QueueInv
  <2> QED
    BY <1>0, <1>1, <2>1 DEF QueueInv
<1>13. Unpushed' \subseteq Unpushed
  <2>1. SUFFICES ASSUME NEW g \in Unpushed' PROVE g \in Unpushed
    OBVIOUS
  <2> QED
    BY <1>1, <1>2 DEF Unpushed
<1> QED
  BY <1>0, <1>1, <1>10, <1>11, <1>12, <1>13, QuietStep DEF PipelineInv

\* A listener goes on to its next record: the one that is done leaves its queue.
LEMMA RecordDoneQueues ==
  ASSUME TypeOK, QueueInv, StoredInv, NEW l \in Listeners, pc[l] \in {"write", "drop"},
         RecordDone(l), UNCHANGED <<flows, convRows>>
  PROVE  /\ queue' \in [Listeners -> Seq(FlowIds)] /\ pc' \in [Listeners -> Locations]
         /\ failed' \in [Listeners -> BOOLEAN]
         /\ queue'[l] = Tail(queue[l]) /\ pc'[l] = "push"
         /\ \A m \in Listeners \ {l} : queue'[m] = queue[m] /\ pc'[m] = pc[m]
         /\ QueueInv' /\ StoredInv' /\ Unpushed' \subseteq Unpushed
<1>1. /\ queue' = [queue EXCEPT ![l] = Tail(@)] /\ failed' = [failed EXCEPT ![l] = FALSE]
      /\ pc' = [pc EXCEPT ![l] = "push"]
  BY DEF RecordDone, Goto
<1>2. queue[l] # <<>> /\ queue[l] \in Seq(FlowIds) /\ 1 \in DOMAIN queue[l]
  BY Typed DEF QueueInv
<1>3. /\ Tail(queue[l]) \in Seq(FlowIds)
      /\ \A i \in DOMAIN Tail(queue[l]) :
           i + 1 \in DOMAIN queue[l] /\ i + 1 > 1 /\ Tail(queue[l])[i] = queue[l][i + 1] /\ i \in Nat
  BY <1>2
<1>4. /\ queue' \in [Listeners -> Seq(FlowIds)] /\ queue'[l] = Tail(queue[l])
      /\ \A m \in Listeners \ {l} : queue'[m] = queue[m]
  BY <1>1, <1>3 DEF TypeOK
<1>5. /\ pc' \in [Listeners -> Locations] /\ failed' \in [Listeners -> BOOLEAN]
      /\ pc'[l] = "push" /\ ~failed'[l]
      /\ \A m \in Listeners \ {l} : pc'[m] = pc[m] /\ failed'[m] = failed[m]
  BY <1>1 DEF TypeOK, Locations
\* Where each queued record was before.
<1>6. ASSUME NEW m \in Listeners, NEW i \in DOMAIN queue'[m]
      PROVE  \E k \in DOMAIN queue[m] :
               /\ queue'[m][i] = queue[m][k]
               /\ k = (IF m = l THEN i + 1 ELSE i)
               /\ m = l => k > 1
  BY <1>3, <1>4, <1>6
<1>7. QueueInv'
  <2>1. ASSUME NEW m \in Listeners
        PROVE  /\ pc'[m] \notin {"receive", "push", "ended"} => queue'[m] # <<>>
               /\ pc'[m] \in {"receive", "ended"} => queue'[m] = <<>>
               /\ \A i \in DOMAIN queue'[m] : queue'[m][i] <= Len(flows')
               /\ failed'[m] => pc'[m] \in {"saved", "write", "drop"}
               /\ pc'[m] = "drop" => failed'[m]
    <3>1. \A i \in DOMAIN queue'[m] : queue'[m][i] <= Len(flows')
      BY <1>6 DEF QueueInv
    <3>2. CASE m = l
      BY <1>5, <3>1, <3>2
    <3>3. CASE m # l
      BY <1>4, <1>5, <3>1, <3>3 DEF QueueInv
    <3> QED
      BY <3>2, <3>3
  <2>2. ASSUME NEW m \in Listeners, NEW k \in Listeners, NEW i \in DOMAIN queue'[m],
               NEW j \in DOMAIN queue'[k], queue'[m][i] = queue'[k][j]
        PROVE  m = k /\ i = j
    <3>1. PICK a \in DOMAIN queue[m] : queue'[m][i] = queue[m][a]
                                       /\ a = (IF m = l THEN i + 1 ELSE i)
      BY <1>6
    <3>2. PICK b \in DOMAIN queue[k] : queue'[k][j] = queue[k][b]
                                       /\ b = (IF k = l THEN j + 1 ELSE j)
      BY <1>6
    <3>3. m = k /\ a = b
      <4>1. queue[m][a] = queue[k][b]
        BY <2>2, <3>1, <3>2
      <4>2. \A x, y \in Listeners : \A i1 \in DOMAIN queue[x], j1 \in DOMAIN queue[y] :
              queue[x][i1] = queue[y][j1] => x = y /\ i1 = j1
        BY DEF QueueInv
      <4>3. a \in DOMAIN queue[m] /\ b \in DOMAIN queue[k] /\ m \in Listeners /\ k \in Listeners
        BY <2>2, <3>1, <3>2
      <4> QED
        BY <4>1, <4>2, <4>3, Zenon
    <3>4. i \in Nat /\ j \in Nat
      BY <1>4
    <3> QED
      BY <3>1, <3>2, <3>3, <3>4
  <2> QED
    BY <2>1, <2>2 DEF QueueInv
<1>8. StoredInv'
  <2>1. ASSUME NEW m \in Listeners, NEW i \in DOMAIN queue'[m]
        PROVE  convRows[queue'[m][i]] = IF i = 1 /\ JustStored(m)' THEN 1 ELSE 0
    <3>1. CASE m = l
      <4>1. PICK k \in DOMAIN queue[l] : queue'[l][i] = queue[l][k] /\ k > 1 /\ k \in Nat
        BY <1>2, <1>6, <3>1
      <4>2. convRows[queue[l][k]] = 0
        BY <4>1 DEF StoredInv
      <4>3. ~JustStored(l)'
        BY <1>5 DEF JustStored
      <4> QED
        BY <3>1, <4>1, <4>2, <4>3
    <3>2. CASE m # l
      <4>1. JustStored(m)' = JustStored(m)
        BY <1>5, <3>2 DEF JustStored
      <4> QED
        BY <1>4, <2>1, <3>2, <4>1 DEF StoredInv
    <3> QED
      BY <3>1, <3>2
  <2> QED
    BY <2>1 DEF StoredInv
<1>9. Unpushed' \subseteq Unpushed
  <2>1. SUFFICES ASSUME NEW g \in Unpushed' PROVE g \in Unpushed
    OBVIOUS
  <2>2. g \in FlowIds /\ flows' = flows
    BY DEF Unpushed
  <2>3. CASE \E m \in Listeners : \E i \in DOMAIN queue'[m] :
               g = queue'[m][i] /\ (i > 1 \/ pc'[m] \in {"parsed", "push"})
    <3>1. PICK m \in Listeners : \E i \in DOMAIN queue'[m] :
               g = queue'[m][i] /\ (i > 1 \/ pc'[m] \in {"parsed", "push"})
      BY <2>3
    <3>2. CASE m = l
      <4>1. PICK k \in DOMAIN queue[l] : g = queue[l][k] /\ k > 1
        BY <1>6, <3>1, <3>2
      <4> QED
        BY <2>2, <4>1 DEF Unpushed
    <3>3. CASE m # l
      BY <2>2, <3>1, <3>3, <1>4, <1>5 DEF Unpushed
    <3> QED
      BY <3>2, <3>3
  <2>4. CASE g > Len(flows)
    BY <2>2, <2>4 DEF Unpushed
  <2> QED
    BY <2>1, <2>2, <2>3, <2>4 DEF Unpushed
<1> QED
  BY <1>4, <1>5, <1>7, <1>8, <1>9

\* The counters after a save: a record is counted as written, or as dropped after that.
LEMMA CountStep ==
  ASSUME PipelineInv, NEW l \in Listeners, CountWrite(l) \/ CountDrop(l)
  PROVE  PipelineInv'
<1>0. TypeOK /\ QueueInv /\ CountInv /\ PassInv /\ WatermarkInv /\ RollupCoversRing
      /\ RingOrderedAndBounded /\ StoredInv
  BY DEF PipelineInv, CountInv
<1> DEFINE f == queue[l][1]
<1>1. /\ pc[l] \in {"write", "drop"}
      /\ UNCHANGED <<clock, flows, parsed, ring, rollupVars, rawRows, convRows, rollupRows, crashes>>
      /\ \/ /\ pc[l] = "write" /\ failed[l] /\ written' = written + 1 /\ dropped' = dropped
            /\ pc' = [pc EXCEPT ![l] = "drop"] /\ UNCHANGED <<queue, failed>>
         \/ /\ pc[l] = "write" /\ ~failed[l] /\ written' = written + 1 /\ dropped' = dropped
            /\ RecordDone(l)
         \/ /\ pc[l] = "drop" /\ written' = written /\ dropped' = dropped + 1
            /\ RecordDone(l)
  BY DEF CountWrite, CountDrop, Goto, tables
<1>2. /\ queue[l] \in Seq(FlowIds) /\ queue[l] # <<>> /\ 1 \in DOMAIN queue[l]
      /\ f \in ToSet(queue[l]) /\ f \in FlowIds /\ ToSet(Tail(queue[l])) = ToSet(queue[l]) \ {f}
      /\ pc[l] = "drop" => failed[l]
  <2>1. queue[l] \in Seq(FlowIds)
    BY <1>0 DEF TypeOK
  <2>2. queue[l] # <<>> /\ (pc[l] = "drop" => failed[l])
    BY <1>0, <1>1 DEF QueueInv
  <2>3. \A i, j \in DOMAIN queue[l] : queue[l][i] = queue[l][j] => i = j
    BY <1>0 DEF QueueInv
  <2>4. f \in ToSet(queue[l]) /\ ToSet(Tail(queue[l])) = ToSet(queue[l]) \ {f}
    BY <2>1, <2>2, <2>3, TailIs
  <2>5. 1 \in DOMAIN queue[l] /\ f \in FlowIds
    BY <2>1, <2>2
  <2> QED
    BY <2>1, <2>2, <2>4, <2>5
<1>3. /\ queue' \in [Listeners -> Seq(FlowIds)] /\ pc' \in [Listeners -> Locations]
      /\ failed' \in [Listeners -> BOOLEAN]
      /\ \A m \in Listeners \ {l} : queue'[m] = queue[m] /\ pc'[m] = pc[m]
      /\ QueueInv' /\ StoredInv' /\ Unpushed' \subseteq Unpushed
      /\ \/ pc[l] = "write" /\ failed[l] /\ pc'[l] = "drop" /\ queue'[l] = queue[l]
         \/ ((pc[l] = "write" /\ ~failed[l]) \/ pc[l] = "drop") /\ pc'[l] = "push"
            /\ queue'[l] = Tail(queue[l])
  <2>1. CASE RecordDone(l)
    BY <1>0, <1>1, <2>1, RecordDoneQueues DEF RecordDone
  <2>2. CASE pc[l] = "write" /\ failed[l] /\ pc' = [pc EXCEPT ![l] = "drop"] /\ UNCHANGED <<queue, failed>>
    <3>1. /\ pc' \in [Listeners -> Locations] /\ pc'[l] = "drop"
          /\ \A m \in Listeners \ {l} : pc'[m] = pc[m]
      BY <1>0, <2>2 DEF TypeOK, Locations
    <3>2. QueueInv'
      <4>1. ASSUME NEW m \in Listeners
            PROVE  /\ pc'[m] \notin {"receive", "push", "ended"} => queue[m] # <<>>
                   /\ pc'[m] \in {"receive", "ended"} => queue[m] = <<>>
                   /\ failed[m] => pc'[m] \in {"saved", "write", "drop"}
                   /\ pc'[m] = "drop" => failed[m]
        BY <1>0, <2>2, <3>1 DEF QueueInv
      <4> QED
        BY <1>0, <1>1, <2>2, <4>1 DEF QueueInv
    <3>3. StoredInv'
      <4>1. \A m \in Listeners : JustStored(m)' = JustStored(m)
        BY <2>2, <3>1 DEF JustStored
      <4> QED
        BY <1>0, <1>1, <2>2, <4>1 DEF StoredInv
    <3>4. Unpushed' \subseteq Unpushed
      <4>1. SUFFICES ASSUME NEW g \in Unpushed' PROVE g \in Unpushed
        OBVIOUS
      <4> QED
        BY <1>1, <2>2, <3>1 DEF Unpushed
    <3> QED
      BY <1>0, <2>2, <3>1, <3>2, <3>3, <3>4 DEF TypeOK
  <2> QED
    BY <1>1, <2>1, <2>2
<1>4. PICK A, U, D, W \in SUBSET FlowIds :
         /\ Awaiting = AwaitingOf(l) \cup A /\ Awaiting' = AwaitingOf(l)' \cup A
         /\ Uncounted = UncountedOf(l) \cup U /\ Uncounted' = UncountedOf(l)' \cup U
         /\ HeadsAt({"drop"}) = HeadOf(l, {"drop"}) \cup D
         /\ HeadsAt({"drop"})' = HeadOf(l, {"drop"})' \cup D
         /\ HeadsAt({"saved", "write"}) = HeadOf(l, {"saved", "write"}) \cup W
         /\ HeadsAt({"saved", "write"})' = HeadOf(l, {"saved", "write"})' \cup W
         /\ \A g \in A \cup U \cup D \cup W : g \notin ToSet(queue[l]) /\ g <= Len(flows)
         /\ ToSet(queue[l]) \subseteq FlowIds
  BY <1>0, <1>3, OneListener
<1>5. UncountedOf(l) = {} /\ UncountedOf(l)' = {} /\ Uncounted' = Uncounted
  BY <1>1, <1>3, <1>4 DEF UncountedOf
<1>6. /\ f \notin A /\ f \notin D /\ f \notin W
      /\ Awaiting \in SUBSET FlowIds /\ D \in SUBSET FlowIds
      /\ Stored' = Stored /\ Stored \in SUBSET FlowIds
      /\ f \in Stored <=> pc[l] = "write" /\ ~failed[l]
  <2>1. f \in Stored <=> pc[l] = "write" /\ ~failed[l]
    BY <1>0, <1>1, <1>2 DEF StoredInv, Stored, JustStored
  <2>2. AwaitingOf(l) \subseteq FlowIds
    <3>1. AwaitingOf(l) \subseteq ToSet(queue[l])
      BY <1>2 DEF AwaitingOf
    <3> QED
      BY <1>4, <3>1
  <2>3. Stored' = Stored /\ Stored \in SUBSET FlowIds
    BY <1>1 DEF Stored
  <2> QED
    BY <1>2, <1>4, <2>1, <2>2, <2>3
<1>7. /\ parsed \in Nat /\ written \in Nat /\ dropped \in Nat
      /\ parsed = written + Cardinality(Awaiting) /\ dropped + Cardinality(HeadsAt({"drop"})) <= written
      /\ crashes = 0 => written = dropped + Cardinality(HeadsAt({"drop"}))
                                  + Cardinality(Stored \ HeadsAt({"saved", "write"}))
  BY <1>0, Typed DEF CountInv, CountersAccountForFlows
<1>a. /\ IsFiniteSet(Awaiting) /\ Cardinality(Awaiting) \in Nat /\ IsFiniteSet(D) /\ Cardinality(D) \in Nat
      /\ IsFiniteSet(Stored \ W) /\ Cardinality(Stored \ W) \in Nat
      /\ IsFiniteSet((Stored \ W) \ {f}) /\ Cardinality((Stored \ W) \ {f}) \in Nat
      /\ IsFiniteSet(Awaiting \ {f}) /\ Cardinality(Awaiting \ {f}) \in Nat
  BY <1>6, FlowsAreFinite
<1>b. Cardinality(D \cup {f}) = Cardinality(D) + 1
  BY <1>6, <1>a, FS_AddElement
<1> DEFINE Conclusion == /\ parsed = written' + Cardinality(Awaiting')
                         /\ dropped' + Cardinality(HeadsAt({"drop"})') <= written'
                         /\ crashes = 0 => written' = dropped' + Cardinality(HeadsAt({"drop"})')
                                             + Cardinality(Stored \ HeadsAt({"saved", "write"})')
                         /\ written' \in Nat /\ dropped' \in Nat
                         /\ written' <= parsed /\ dropped' <= written'
<1>8. ASSUME pc[l] = "write" PROVE Conclusion
  <2>1. /\ AwaitingOf(l) = ToSet(queue[l]) /\ AwaitingOf(l)' = ToSet(queue[l]) \ {f}
        /\ HeadOf(l, {"drop"}) = {} /\ HeadOf(l, {"saved", "write"}) = {f}
        /\ HeadOf(l, {"saved", "write"})' = {}
        /\ HeadOf(l, {"drop"})' = IF failed[l] THEN {f} ELSE {}
    BY <1>2, <1>3, <1>8 DEF AwaitingOf, HeadOf
  <2>2. /\ Awaiting' = Awaiting \ {f} /\ f \in Awaiting
        /\ HeadsAt({"drop"}) = D /\ HeadsAt({"drop"})' = IF failed[l] THEN D \cup {f} ELSE D
        /\ HeadsAt({"saved", "write"}) = W \cup {f} /\ HeadsAt({"saved", "write"})' = W
        /\ written' = written + 1 /\ dropped' = dropped
    <3> HIDE DEF f
    <3> QED
      BY <1>1, <1>2, <1>4, <1>6, <1>8, <2>1
  <2>3. Cardinality(Awaiting \ {f}) = Cardinality(Awaiting) - 1
    BY <1>a, <2>2, FS_RemoveElement
  <2>4. Stored \ (W \cup {f}) = (Stored \ W) \ {f}
    OBVIOUS
  <2>5. Cardinality((Stored \ W) \ {f}) = IF failed[l] THEN Cardinality(Stored \ W)
                                                        ELSE Cardinality(Stored \ W) - 1
    <3>1. f \in Stored \ W <=> ~failed[l]
      BY <1>6, <1>8
    <3>2. CASE failed[l]
      <4>1. (Stored \ W) \ {f} = Stored \ W
        BY <3>1, <3>2
      <4> QED
        BY <3>2, <4>1
    <3>3. CASE ~failed[l]
      <4> DEFINE kept == Stored \ W
      <4>1. f \in kept /\ IsFiniteSet(kept)
        BY <1>a, <3>1, <3>3
      <4> HIDE DEF kept, f
      <4>2. Cardinality(kept \ {f}) = IF f \in kept THEN Cardinality(kept) - 1
                                                    ELSE Cardinality(kept)
        BY <4>1, FS_RemoveElement, Zenon
      <4> QED
        BY <3>3, <4>1, <4>2 DEF kept
    <3> QED
      BY <3>2, <3>3
  <2> DEFINE aw == Cardinality(Awaiting)
             dr == Cardinality(D)
             st == Cardinality(Stored \ W)
  <2>6. /\ aw \in Nat /\ dr \in Nat /\ st \in Nat /\ parsed = written + aw /\ dropped + dr <= written
        /\ crashes = 0 => written = dropped + dr + (IF failed[l] THEN st ELSE st - 1)
    BY <1>7, <1>a, <2>2, <2>4, <2>5
  <2>7. /\ Cardinality(Awaiting') = aw - 1 /\ aw - 1 \in Nat
        /\ Cardinality(HeadsAt({"drop"})') = IF failed[l] THEN dr + 1 ELSE dr
        /\ Cardinality(Stored \ HeadsAt({"saved", "write"})') = st
    BY <1>a, <1>b, <2>2, <2>3
  <2> HIDE DEF aw, dr, st
  <2>8. CASE failed[l]
    <3>1. Cardinality(HeadsAt({"drop"})') = dr + 1 /\ (crashes = 0 => written = dropped + dr + st)
      BY <2>6, <2>7, <2>8
    <3> QED
      BY <1>7, <2>2, <2>6, <2>7, <3>1
  <2>9. CASE ~failed[l]
    <3>1. Cardinality(HeadsAt({"drop"})') = dr /\ (crashes = 0 => written = dropped + dr + (st - 1))
      BY <2>6, <2>7, <2>9
    <3> QED
      BY <1>7, <2>2, <2>6, <2>7, <3>1
  <2> QED
    BY <2>8, <2>9
<1>9. ASSUME pc[l] = "drop" PROVE Conclusion
  <2>1. /\ AwaitingOf(l)' = AwaitingOf(l) /\ HeadOf(l, {"drop"}) = {f} /\ HeadOf(l, {"drop"})' = {}
        /\ HeadOf(l, {"saved", "write"}) = {} /\ HeadOf(l, {"saved", "write"})' = {}
    BY <1>2, <1>3, <1>9 DEF AwaitingOf, HeadOf
  <2>2. /\ Awaiting' = Awaiting /\ HeadsAt({"drop"}) = D \cup {f} /\ HeadsAt({"drop"})' = D
        /\ HeadsAt({"saved", "write"})' = HeadsAt({"saved", "write"})
        /\ written' = written /\ dropped' = dropped + 1
    BY <1>1, <1>4, <1>9, <2>1
  <2> DEFINE aw == Cardinality(Awaiting)
             dr == Cardinality(D)
             st == Cardinality(Stored \ HeadsAt({"saved", "write"}))
  <2>3. /\ aw \in Nat /\ dr \in Nat /\ st \in Nat /\ parsed = written + aw
        /\ dropped + (dr + 1) <= written
        /\ crashes = 0 => written = dropped + (dr + 1) + st
    BY <1>6, <1>7, <1>a, <1>b, <2>2, FlowsAreFinite
  <2>4. /\ Cardinality(Awaiting') = aw /\ Cardinality(HeadsAt({"drop"})') = dr
        /\ Cardinality(Stored \ HeadsAt({"saved", "write"})') = st
    BY <2>2
  <2> HIDE DEF aw, dr, st
  <2> QED
    BY <1>7, <2>2, <2>3, <2>4
<1>10. Conclusion
  BY <1>1, <1>8, <1>9
<1>11. CountInv'
  BY <1>0, <1>1, <1>3, <1>5, <1>6, <1>10 DEF CountInv, CountersAccountForFlows
<1>12. TypeOK'
  <2>1. written' \in 0 .. MaxFlows /\ dropped' \in 0 .. MaxFlows
    <3>1. parsed \in 0 .. MaxFlows /\ MaxFlows \in Nat
      BY <1>0, Typed DEF TypeOK
    <3> QED
      BY <1>10, <3>1
  <2> QED
    BY <1>0, <1>1, <1>3, <2>1 DEF TypeOK, rollupVars
<1> QED
  BY <1>0, <1>1, <1>3, <1>11, <1>12, QuietStep DEF PipelineInv

-----------------------------------------------------------------------------
\* The rollup thread and the clock: no listener, record or counter changes.
LEMMA BesideListeners ==
  ASSUME TypeOK, QueueInv, CountInv, RingOrderedAndBounded,
         UNCHANGED <<flows, queue, pc, failed, parsed, written, dropped, convRows, crashes, ring>>
  PROVE  /\ QueueInv' /\ CountInv' /\ Unpushed' = Unpushed /\ RingOrderedAndBounded'
         /\ \A i \in DOMAIN ring : ring[i].flow \in FlowIds /\ ring[i].at \in Nat
<1>1. QueueInv' /\ RingOrderedAndBounded'
  BY DEF QueueInv, RingOrderedAndBounded
<1>2. CountInv'
  BY SameCounts
<1>3. Unpushed' = Unpushed
  BY SameQueues
<1>4. \A i \in DOMAIN ring : ring[i].flow \in FlowIds /\ ring[i].at \in Nat
  <2>1. ASSUME NEW i \in DOMAIN ring PROVE ring[i] \in Entry
    BY DEF TypeOK
  <2>2. \A e \in Entry : e.flow \in FlowIds /\ e.at \in Nat
    BY BoundAssumption DEF Entry
  <2> QED
    BY <2>1, <2>2
<1> QED
  BY <1>1, <1>2, <1>3, <1>4

\* Steps of the rollup thread that change neither its batch nor the table.
LEMMA RollupPlaceStep ==
  ASSUME PipelineInv, RollupStart \/ RollupWake \/ RollupLock \/ RollupEnds
  PROVE  PipelineInv'
<1>0. TypeOK /\ QueueInv /\ CountInv /\ PassInv /\ WatermarkInv /\ RollupCoversRing
      /\ RingOrderedAndBounded
  BY DEF PipelineInv
<1>1. UNCHANGED <<clock, flows, queue, pc, failed, parsed, written, dropped, ring, batch, spoiled,
                  rawRows, convRows, rollupRows, crashes>>
  BY DEF RollupStart, RollupWake, RollupLock, RollupEnds, listenerVars, tables
<1>2. QueueInv' /\ CountInv' /\ Unpushed' = Unpushed /\ RingOrderedAndBounded'
      /\ \A i \in DOMAIN ring : ring[i].flow \in FlowIds /\ ring[i].at \in Nat
  BY <1>0, <1>1, BesideListeners
<1>3. clock \in Nat /\ watermark \in Nat /\ now \in Nat /\ watermark <= clock /\ now <= clock
      /\ clock \in 0 .. MaxClock
  BY <1>0, Typed DEF TypeOK, WatermarkInv
<1>4. CASE RollupStart
  <2>1. /\ rollupPc = "start" /\ watermark' = clock /\ marks' = {clock}
        /\ rollupPc' = "sleep" /\ now' = now
    BY <1>4 DEF RollupStart
  <2>2. batch = {} /\ \A i \in DOMAIN ring : ring[i].at <= clock
    BY <1>0, <2>1 DEF WatermarkInv
  <2>3. \A i \in DOMAIN ring : ~(ring[i].at > clock) /\ ~(clock < ring[i].at)
    BY <1>2, <1>3, <2>2
  <2>4. TypeOK'
    BY <1>0, <1>1, <1>3, <2>1 DEF TypeOK
  <2>5. WatermarkInv' /\ PassInv' /\ RollupCoversRing'
    BY <1>0, <1>1, <1>2, <1>3, <2>1, <2>2, <2>3
    DEF WatermarkInv, PassInv, RollupCoversRing, Untouched
  <2> QED
    BY <1>2, <2>4, <2>5 DEF PipelineInv
<1>5. CASE RollupWake \/ RollupLock \/ RollupEnds
  <2>1. /\ watermark' = watermark /\ marks' = marks
        /\ \/ rollupPc = "sleep" /\ rollupPc' = "scan" /\ now' = clock
           \/ rollupPc = "wait" /\ rollupPc' = "upsert" /\ now' = now
           \/ rollupPc = "upsert" /\ rollupPc' = "sleep" /\ now' = now /\ batch = {}
    BY <1>5 DEF RollupWake, RollupLock, RollupEnds
  <2>2. TypeOK'
    BY <1>0, <1>1, <1>3, <2>1 DEF TypeOK
  <2>3. WatermarkInv'
    BY <1>0, <1>1, <1>3, <2>1 DEF WatermarkInv
  <2>4. PassInv' /\ RollupCoversRing'
    BY <1>0, <1>1, <1>2, <2>1 DEF PassInv, RollupCoversRing, Untouched
  <2> QED
    BY <1>2, <2>2, <2>3, <2>4 DEF PipelineInv
<1> QED
  BY <1>4, <1>5

\* The scan takes every entry between the watermarks, none of which was taken before.
LEMMA ScanStep ==
  ASSUME PipelineInv, RollupScan
  PROVE  PipelineInv'
<1>0. TypeOK /\ QueueInv /\ CountInv /\ PassInv /\ WatermarkInv /\ RollupCoversRing
      /\ RingOrderedAndBounded
  BY DEF PipelineInv
<1>1. UNCHANGED <<clock, flows, queue, pc, failed, parsed, written, dropped, ring, spoiled, now,
                  rawRows, convRows, rollupRows, crashes>>
  BY DEF RollupScan, listenerVars, tables
<1>2. /\ rollupPc = "scan" /\ watermark' = now /\ marks' = marks \cup {now}
      /\ rollupPc' = IF batch' = {} THEN "sleep" ELSE "wait"
      /\ \A f : f \in batch' <=> \E i \in DOMAIN ring :
                  f = ring[i].flow /\ watermark < ring[i].at /\ ring[i].at <= now
  <2>1. batch' = {e.flow : e \in {x \in ToSet(ring) : InWindow(x)}}
    BY DEF RollupScan
  <2> QED
    BY <2>1 DEF RollupScan, ToSet, InWindow
<1>3. QueueInv' /\ CountInv' /\ Unpushed' = Unpushed /\ RingOrderedAndBounded'
      /\ \A i \in DOMAIN ring : ring[i].flow \in FlowIds /\ ring[i].at \in Nat
  BY <1>0, <1>1, BesideListeners
<1>4. /\ clock \in Nat /\ watermark \in Nat /\ now \in Nat /\ watermark <= now /\ now <= clock
      /\ batch = {} /\ watermark \in marks
  BY <1>0, <1>2, Typed, BoundAssumption DEF TypeOK, WatermarkInv
<1>5. \A f \in batch' : f \in FlowIds /\ rollupRows[f] = 0
  BY <1>0, <1>2, <1>3, <1>4 DEF PassInv, Untouched
<1>6. TypeOK'
  <2>1. {now', watermark'} \cup marks' \subseteq 0 .. MaxClock
    BY <1>0, <1>1, <1>2 DEF TypeOK
  <2>2. batch' \subseteq FlowIds /\ rollupPc' \in {"sleep", "wait"}
    BY <1>2, <1>5
  <2> QED
    BY <1>0, <1>1, <2>1, <2>2 DEF TypeOK
<1>7. PassInv'
  <2>1. \A f \in Unpushed : rollupRows[f] = 0 /\ f \notin batch'
                            /\ \A i \in DOMAIN ring : ring[i].flow # f
    BY <1>0, <1>2 DEF PassInv, Untouched
  <2>2. ASSUME NEW i \in DOMAIN ring, ring[i].at > now
        PROVE  rollupRows[ring[i].flow] = 0 /\ ring[i].flow \notin batch'
    <3>1. rollupRows[ring[i].flow] = 0
      BY <1>0, <1>3, <1>4, <2>2 DEF PassInv, Untouched
    <3>2. ASSUME ring[i].flow \in batch' PROVE FALSE
      <4>1. PICK j \in DOMAIN ring : ring[i].flow = ring[j].flow /\ ring[j].at <= now
        BY <1>2, <3>2
      <4>2. i = j
        BY <1>0, <2>2, <4>1 DEF PassInv
      <4> QED
        BY <1>3, <1>4, <2>2, <4>1, <4>2
    <3> QED
      BY <3>1, <3>2
  <2> QED
    BY <1>0, <1>1, <1>2, <1>3, <1>5, <2>1, <2>2 DEF PassInv, Untouched
<1>8. WatermarkInv'
  BY <1>0, <1>1, <1>2, <1>4 DEF WatermarkInv
<1>9. RollupCoversRing'
  <2>1. ASSUME NEW i \in DOMAIN ring, ring[i].at < now, ring[i].at \notin marks \cup {now},
               \E m \in marks \cup {now} : m < ring[i].at
        PROVE  rollupRows[ring[i].flow] = 1 \/ ring[i].flow \in batch' \cup spoiled
    <3>1. ring[i].at \in Nat /\ ring[i].at # watermark /\ \E m \in marks : m < ring[i].at
      <4>1. ring[i].at \in Nat /\ ring[i].at # watermark /\ ~(now < ring[i].at)
        BY <1>3, <1>4, <2>1
      <4>2. PICK m \in marks \cup {now} : m < ring[i].at
        BY <2>1
      <4>3. m # now
        BY <4>1, <4>2
      <4> QED
        BY <4>1, <4>2, <4>3
    <3>2. CASE watermark < ring[i].at
      BY <1>2, <1>3, <1>4, <2>1, <3>1, <3>2
    <3>3. CASE ring[i].at < watermark
      BY <1>0, <1>4, <2>1, <3>1, <3>3 DEF RollupCoversRing
    <3> QED
      BY <1>4, <3>1, <3>2, <3>3
  <2> QED
    BY <1>1, <1>2, <2>1 DEF RollupCoversRing
<1> QED
  BY <1>3, <1>6, <1>7, <1>8, <1>9 DEF PipelineInv

\* A group is added, or the pass fails and what is left of its batch is spoiled.
LEMMA GroupStep ==
  ASSUME PipelineInv, UpsertGroup \/ UpsertGroupFails
  PROVE  PipelineInv'
<1>0. TypeOK /\ QueueInv /\ CountInv /\ PassInv /\ WatermarkInv /\ RollupCoversRing
      /\ RingOrderedAndBounded
  BY DEF PipelineInv
<1>1. UNCHANGED <<clock, flows, queue, pc, failed, parsed, written, dropped, ring, now, watermark,
                  marks, rollupPc, rawRows, convRows, crashes>>
  BY DEF UpsertGroup, UpsertGroupFails, listenerVars, tables
<1>2. PICK group \in SUBSET batch :
        /\ \A f \in batch' : f \in batch /\ f \notin group
        /\ \A f \in FlowIds : rollupRows'[f] = rollupRows[f] + (IF f \in group THEN 1 ELSE 0)
        /\ \A f \in batch : f \in group \/ f \in batch' \cup spoiled'
        /\ spoiled \subseteq spoiled' /\ spoiled' \subseteq spoiled \cup batch
        /\ rollupRows' \in [FlowIds -> Nat]
        /\ rollupPc = "upsert"
  <2>1. CASE UpsertGroup
    <3>1. PICK g \in {GroupOf(f) : f \in batch} :
            LET group == {f \in batch : GroupOf(f) = g}
            IN  /\ rollupRows' = [f \in FlowIds |-> rollupRows[f] + (IF f \in group THEN 1 ELSE 0)]
                /\ batch' = batch \ group
      BY <2>1 DEF UpsertGroup
    <3>2. PICK group \in SUBSET batch :
            /\ rollupRows' = [f \in FlowIds |-> rollupRows[f] + (IF f \in group THEN 1 ELSE 0)]
            /\ batch' = batch \ group
      BY <3>1
    <3>3. rollupRows' \in [FlowIds -> Nat]
      BY <1>0, <3>2 DEF TypeOK
    <3>4. spoiled' = spoiled /\ rollupPc = "upsert"
      BY <2>1 DEF UpsertGroup
    <3> QED
      BY <3>2, <3>3, <3>4
  <2>2. CASE UpsertGroupFails
    <3>1. /\ spoiled' = spoiled \cup batch /\ batch' = {} /\ rollupPc = "upsert"
          /\ rollupRows' = rollupRows /\ rollupRows \in [FlowIds -> Nat]
      BY <1>0, <2>2 DEF UpsertGroupFails, tables, TypeOK
    <3>2. \A f \in FlowIds : rollupRows'[f] = rollupRows[f] + 0
      BY <3>1
    <3> QED
      BY <3>1, <3>2
  <2> QED
    BY <2>1, <2>2
<1>3. QueueInv' /\ CountInv' /\ Unpushed' = Unpushed /\ RingOrderedAndBounded'
      /\ \A i \in DOMAIN ring : ring[i].flow \in FlowIds /\ ring[i].at \in Nat
  BY <1>0, <1>1, BesideListeners
<1>4. batch \subseteq FlowIds /\ spoiled \subseteq FlowIds
      /\ \A f \in FlowIds : rollupRows[f] \in Nat
  BY <1>0 DEF TypeOK
<1>5. /\ \A f \in FlowIds : f \notin group => rollupRows'[f] = rollupRows[f]
      /\ \A f \in group : rollupRows'[f] = 1 /\ f \in batch /\ f \in FlowIds
  <2>1. \A f \in group : f \in batch /\ f \in FlowIds /\ rollupRows[f] = 0
    BY <1>0, <1>4 DEF PassInv
  <2> QED
    BY <1>2, <1>4, <2>1
<1>6. TypeOK'
  <2>1. batch' \subseteq FlowIds /\ spoiled' \subseteq FlowIds
    BY <1>2, <1>4
  <2> QED
    BY <1>0, <1>1, <1>2, <2>1 DEF TypeOK
<1>7. PassInv'
  <2>1. \A f \in FlowIds : rollupRows'[f] <= 1
    BY <1>0, <1>5 DEF PassInv
  <2>2. \A f \in batch' : rollupRows'[f] = 0
    BY <1>0, <1>2, <1>4, <1>5 DEF PassInv
  <2>3. ASSUME NEW f \in FlowIds, Untouched(f) PROVE rollupRows'[f] = 0 /\ f \notin batch'
    BY <1>2, <1>5, <2>3 DEF Untouched
  <2>4. \A f \in Unpushed : f \in FlowIds
    BY DEF Unpushed
  <2> QED
    BY <1>0, <1>1, <1>3, <2>1, <2>2, <2>3, <2>4 DEF PassInv, Untouched
<1>8. WatermarkInv'
  <2>1. batch' # {} => rollupPc' \in {"wait", "upsert"}
    BY <1>1, <1>2
  <2> QED
    BY <1>0, <1>1, <2>1 DEF WatermarkInv
<1>9. RollupCoversRing'
  <2>1. ASSUME NEW f \in FlowIds, rollupRows[f] = 1 \/ f \in batch \cup spoiled
        PROVE  rollupRows'[f] = 1 \/ f \in batch' \cup spoiled'
    BY <1>2, <1>5, <2>1
  <2> QED
    BY <1>0, <1>1, <1>3, <2>1 DEF RollupCoversRing
<1> QED
  BY <1>3, <1>6, <1>7, <1>8, <1>9 DEF PipelineInv

\* The clock goes on; the process restarts with empty memory.
LEMMA TickStep ==
  ASSUME PipelineInv, Tick
  PROVE  PipelineInv'
<1>0. TypeOK /\ QueueInv /\ CountInv /\ PassInv /\ WatermarkInv /\ RollupCoversRing
      /\ RingOrderedAndBounded
  BY DEF PipelineInv
<1>1. /\ clock < MaxClock /\ clock' = clock + 1
      /\ UNCHANGED <<flows, queue, pc, failed, parsed, written, dropped, ring, rollupPc, now, watermark,
                     batch, marks, spoiled, rawRows, convRows, rollupRows, crashes>>
  BY DEF Tick, listenerVars, rollupVars, tables
<1>2. QueueInv' /\ CountInv' /\ Unpushed' = Unpushed /\ RingOrderedAndBounded'
      /\ \A i \in DOMAIN ring : ring[i].flow \in FlowIds /\ ring[i].at \in Nat
  BY <1>0, <1>1, BesideListeners
<1>3. clock \in Nat /\ watermark \in Nat /\ now \in Nat /\ clock' \in 0 .. MaxClock
  BY <1>0, <1>1, Typed, BoundAssumption DEF TypeOK
<1>4. TypeOK'
  BY <1>0, <1>1, <1>3 DEF TypeOK
<1>5. WatermarkInv'
  BY <1>0, <1>1, <1>2, <1>3 DEF WatermarkInv
<1>6. PassInv' /\ RollupCoversRing'
  BY <1>0, <1>1, <1>2 DEF PassInv, RollupCoversRing, Untouched
<1> QED
  BY <1>2, <1>4, <1>5, <1>6 DEF PipelineInv

LEMMA CrashStep ==
  ASSUME PipelineInv, Crash
  PROVE  PipelineInv'
<1>0. TypeOK /\ QueueInv /\ CountInv /\ PassInv /\ WatermarkInv /\ RollupCoversRing
      /\ RingOrderedAndBounded
  BY DEF PipelineInv
<1>1. /\ crashes < MaxCrashes /\ crashes' = crashes + 1
      /\ queue' = [l \in Listeners |-> <<>>] /\ pc' = [l \in Listeners |-> "receive"]
      /\ failed' = [l \in Listeners |-> FALSE]
      /\ ring'  = <<>> /\ rollupPc' = "start" /\ now' = clock /\ watermark' = clock
      /\ marks' = {} /\ batch' = {} /\ spoiled' = {}
      /\ parsed' = 0 /\ written' = 0 /\ dropped' = 0
      /\ UNCHANGED <<clock, flows, rawRows, convRows, rollupRows>>
  BY DEF Crash, tables
<1>2. /\ Awaiting' = {} /\ Uncounted' = {} /\ HeadsAt({"drop"})' = {}
      /\ \A l \in Listeners : queue'[l] = <<>>
  BY <1>1 DEF Awaiting, AwaitingOf, Uncounted, UncountedOf, HeadsAt, ToSet
<1>3. TypeOK'
  <2>1. crashes' \in 0 .. MaxCrashes /\ MaxFlows \in Nat
    BY <1>0, <1>1, BoundAssumption DEF TypeOK
  <2> QED
    BY <1>0, <1>1, <2>1 DEF TypeOK, Locations
<1>4. QueueInv'
  BY <1>1 DEF QueueInv
<1>5. CountInv'
  <2>1. Cardinality(Awaiting') = 0 /\ Cardinality(Uncounted') = 0 /\ Cardinality(HeadsAt({"drop"})') = 0
    BY <1>2, FS_EmptySet
  <2>2. crashes' # 0 /\ Len(flows) \in Nat
    BY <1>0, <1>1, Typed
  <2>3. StoredInv'
    BY <1>0, <1>1, <1>2 DEF CountInv, StoredInv
  <2> QED
    BY <1>1, <2>1, <2>2, <2>3 DEF CountInv, CountersAccountForFlows
<1>6. WatermarkInv' /\ RollupCoversRing'
  <2>1. clock <= clock
    BY <1>0, Typed
  <2> QED
    BY <1>0, <1>1, <2>1 DEF WatermarkInv, RollupCoversRing
<1>7. PassInv'
  <2>1. \A f \in Unpushed' : f \in Unpushed
    BY <1>1 DEF Unpushed
  <2> QED
    BY <1>0, <1>1, <2>1 DEF PassInv, Untouched
<1>8. RingOrderedAndBounded'
  <2>1. ring' = <<>> /\ Len(ring') = 0 /\ RingBytes(ring') = 0
    BY <1>1, NoBytes
  <2> QED
    BY <2>1, RingAssumption DEF RingOrderedAndBounded
<1> QED
  BY <1>3, <1>4, <1>5, <1>6, <1>7, <1>8 DEF PipelineInv

-----------------------------------------------------------------------------
\* Every step keeps the invariant.
LEMMA PipelineStep == PipelineInv /\ [Next]_vars => PipelineInv'
<1> SUFFICES ASSUME PipelineInv, [Next]_vars PROVE PipelineInv'
  OBVIOUS
<1>1. ASSUME NEW l \in Listeners, Receive(l) \/ ReceiveFails(l) \/ ListenerStep(l)
      PROVE  PipelineInv'
  <2>1. CASE Receive(l)
    BY <2>1, ReceiveStep
  <2>2. CASE Push(l)
    BY <2>2, PushStep
  <2>3. CASE ReceiveFails(l) \/ DatagramDone(l) \/ InsertRaw(l) \/ Unlock(l)
    BY <2>3, PlaceStep
  <2>4. CASE InsertRawFails(l) \/ UpsertConversation(l) \/ UpsertConversationFails(l)
    BY <2>4, SavedStep
  <2>5. CASE CountParsed(l)
    BY <2>5, ParsedStep
  <2>6. CASE CountWrite(l) \/ CountDrop(l)
    BY <2>6, CountStep
  <2> QED
    BY <1>1, <2>1, <2>2, <2>3, <2>4, <2>5, <2>6 DEF ListenerStep
<1>2. CASE RollupStep
  <2>1. CASE RollupStart \/ RollupWake \/ RollupLock \/ RollupEnds
    BY <2>1, RollupPlaceStep
  <2>2. CASE RollupScan
    BY <2>2, ScanStep
  <2>3. CASE UpsertGroup \/ UpsertGroupFails
    BY <2>3, GroupStep
  <2> QED
    BY <1>2, <2>1, <2>2, <2>3 DEF RollupStep
<1>3. CASE Tick
  BY <1>3, TickStep
<1>4. CASE Crash
  BY <1>4, CrashStep
<1>5. CASE UNCHANGED vars
  <2>1. UNCHANGED <<clock, flows, queue, pc, failed, parsed, written, dropped, ring, rollupPc, now,
                    watermark, batch, marks, spoiled, rawRows, convRows, rollupRows, crashes>>
    BY <1>5 DEF vars, listenerVars, rollupVars, tables
  <2>2. TypeOK /\ QueueInv /\ CountInv /\ PassInv /\ WatermarkInv /\ RollupCoversRing
        /\ RingOrderedAndBounded
    BY DEF PipelineInv
  <2>3. QueueInv' /\ CountInv' /\ Unpushed' = Unpushed /\ RingOrderedAndBounded'
    BY <2>1, <2>2, BesideListeners
  <2>4. TypeOK' /\ WatermarkInv'
    BY <2>1, <2>2 DEF TypeOK, WatermarkInv
  <2>5. PassInv' /\ RollupCoversRing'
    BY <2>1, <2>2, <2>3 DEF PassInv, RollupCoversRing, Untouched
  <2> QED
    BY <2>3, <2>4, <2>5 DEF PipelineInv
<1> QED
  BY <1>1, <1>2, <1>3, <1>4, <1>5 DEF Next

\* The invariant of the collector, from which the theorems below are read.
LEMMA PipelineInvHolds == Spec => []PipelineInv
<1>1. Init => PipelineInv
  BY PipelineInit
<1>2. PipelineInv /\ [Next]_vars => PipelineInv'
  BY PipelineStep
<1> QED
  BY <1>1, <1>2, PTL DEF Spec

\* Every variable keeps its type; the counters never exceed what was received.
THEOREM TypeCorrect == Spec => []TypeOK
<1>1. PipelineInv => TypeOK
  BY DEF PipelineInv
<1> QED
  BY <1>1, PipelineInvHolds, PTL

\* The ring is in the order of its instants and within both limits, whichever listeners
\* fill it.
THEOREM RingKept == Spec => []RingOrderedAndBounded
<1>1. PipelineInv => RingOrderedAndBounded
  BY DEF PipelineInv
<1> QED
  BY <1>1, PipelineInvHolds, PTL

\* The rollup misses no record of the ring that lies between two of its watermarks.
THEOREM RollupCovers == Spec => []RollupCoversRing
<1>1. PipelineInv => RollupCoversRing
  BY DEF PipelineInv
<1> QED
  BY <1>1, PipelineInvHolds, PTL

\* The counters account for every record, over failing statements and restarts, whatever
\* step the listeners have come to.
THEOREM CountersAccount == Spec => []CountersAccountForFlows
<1>1. PipelineInv => CountersAccountForFlows
  BY DEF PipelineInv, CountInv
<1> QED
  BY <1>1, PipelineInvHolds, PTL

\* No table counts a record twice, over any number of passes and restarts.
THEOREM CountedOnce == Spec => []CountedAtMostOnce
<1>1. PipelineInv => CountedAtMostOnce
  BY DEF PipelineInv, CountInv, StoredInv, PassInv, CountedAtMostOnce
<1> QED
  BY <1>1, PipelineInvHolds, PTL
=============================================================================
