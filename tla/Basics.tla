------------------------------- MODULE Basics -------------------------------
(***************************************************************************)
(* Facts about numbers, finite sets of them and sequences that several     *)
(* proofs need: which is the first, the last and the n-th of a set, and    *)
(* what a sequence in pieces consists of.                                  *)
(***************************************************************************)
EXTENDS Integers, Sequences, FiniteSets, Places, HostChunks, FiniteSetTheorems, WellFoundedInduction, TLAPS

\* Among numbers there is a first one.
LEMMA FirstNumber ==
  ASSUME NEW S \in SUBSET Nat, S # {}
  PROVE  \E m \in S : \A q \in S : m <= q
<1>1. \A q, m \in Nat : q < m => <<q, m>> \in OpToRel(<, Nat)
  BY Zenon DEF OpToRel
<1>2. PICK R : IsWellFoundedOn(R, Nat) /\ \A q, m \in Nat : q < m => <<q, m>> \in R
  BY <1>1, NatLessThanWellFounded, Zenon
<1>3. PICK m \in S : \A q \in S : ~(<<q, m>> \in R)
  <2>1. S \subseteq Nat
    OBVIOUS
  <2>2. IsWellFoundedOn(R, Nat)
    BY <1>2
  <2>3. S # {}
    OBVIOUS
  <2> QED
    BY <2>1, <2>2, <2>3, WFMin
<1>4. ASSUME NEW q \in S PROVE m <= q
  <2>1. m \in Nat /\ q \in Nat /\ ~(q < m)
    BY <1>2, <1>3
  <2> QED
    BY <2>1
<1> QED
  BY <1>4

\* Among bounded numbers there is a last one: it is the first one counted from above.
LEMMA LastNumber ==
  ASSUME NEW N \in Nat, NEW S \in SUBSET (0 .. N), S # {}
  PROVE  \E m \in S : \A q \in S : q <= m
<1> DEFINE T == {N - q : q \in S}
<1>1. T \in SUBSET Nat /\ T # {}
  <2>1. \A q \in S : N - q \in Nat
    OBVIOUS
  <2>2. PICK q \in S : TRUE
    OBVIOUS
  <2>3. N - q \in T
    BY <2>2
  <2> QED
    BY <2>1, <2>3
<1>2. PICK t \in T : \A u \in T : t <= u
  <2> HIDE DEF T
  <2> QED
    BY <1>1, FirstNumber
<1>3. PICK m \in S : t = N - m
  OBVIOUS
<1>4. ASSUME NEW q \in S PROVE q <= m
  <2>1. N - q \in T /\ q \in Int /\ m \in Int
    OBVIOUS
  <2>2. t <= N - q
    BY <1>2, <2>1
  <2> QED
    BY <1>3, <2>1, <2>2
<1> QED
  BY <1>4

\* What counts up by one at most leaves out no number.
LEMMA CountingUp ==
  ASSUME NEW N \in Nat, NEW c \in [0 .. N -> Nat], c[0] = 0,
         \A i \in 1 .. N : c[i] <= c[i - 1] + 1, NEW n \in 1 .. c[N]
  PROVE  \E i \in 1 .. N : c[i] = n /\ c[i - 1] # n
<1> DEFINE S == {i \in 0 .. N : c[i] >= n}
<1>1. S \subseteq Nat /\ N \in S
  OBVIOUS
<1>2. PICK m \in S : \A q \in S : m <= q
  BY <1>1, FirstNumber
<1>3. m \in 1 .. N /\ m - 1 \in 0 .. N /\ m - 1 < m
  BY <1>2
<1>4. m - 1 \notin S
  BY <1>1, <1>2, <1>3
<1>5. c[m - 1] \in Nat /\ c[m - 1] < n /\ c[m] \in Nat /\ c[m] >= n
  BY <1>2, <1>3, <1>4
<1> QED
  BY <1>3, <1>5

\* A finite set of numbers is bounded: a least subset without a bound would have one when
\* any of its numbers is left out.
LEMMA FiniteIsBounded ==
  ASSUME NEW A \in SUBSET Nat, IsFiniteSet(A)
  PROVE  \E N \in Nat : A \subseteq 0 .. N
<1> DEFINE Finite == FiniteSubsetsOf(A)
           Smaller == StrictSubsetOrdering(A)
           Free == {B \in Finite : ~\E N \in Nat : B \subseteq 0 .. N}
<1>1. IsWellFoundedOn(Smaller, Finite)
  BY FS_StrictSubsetOrderingWellFounded
<1>2. A \in Finite
  BY DEF FiniteSubsetsOf
<1>3. ASSUME Free # {} PROVE FALSE
  <2>1. Free \subseteq Finite
    OBVIOUS
  <2>2. PICK B \in Free : \A C \in Free : ~(<<C, B>> \in Smaller)
    <3> HIDE DEF Finite, Smaller, Free
    <3> QED
      BY <1>1, <1>3, <2>1, WFMin
  <2>3. B \in SUBSET A /\ IsFiniteSet(B) /\ ~\E N \in Nat : B \subseteq 0 .. N
    BY DEF FiniteSubsetsOf
  <2>4. PICK x \in B : x \in Nat
    <3>1. B # {}
      BY <2>3
    <3> QED
      BY <2>3, <3>1
  <2>5. B \ {x} \in Finite
    BY <2>3, FS_Subset DEF FiniteSubsetsOf
  <2>6. <<B \ {x}, B>> \in Smaller
    BY <2>3 DEF StrictSubsetOrdering
  <2>7. PICK N \in Nat : B \ {x} \subseteq 0 .. N
    BY <2>2, <2>5, <2>6
  <2>8. B \subseteq 0 .. N + x
    <3>1. \A y \in B : y \in Nat /\ (y = x \/ y \in 0 .. N)
      BY <2>3, <2>7
    <3> QED
      BY <2>4, <3>1
  <2>9. N + x \in Nat
    BY <2>4
  <2> QED
    BY <2>3, <2>8, <2>9
<1> QED
  BY <1>2, <1>3

\* A set of places has a place for each number up to its size.
LEMMA PlaceExists ==
  ASSUME NEW N \in Nat, NEW kept \in SUBSET (0 .. N), NEW n \in 1 .. Cardinality(kept)
  PROVE  \E i \in kept : Cardinality({j \in kept : j <= i}) = n
<1>0. /\ 0 \in 0 .. N + 1 /\ N + 1 \in 0 .. N + 1 /\ N + 1 \in Nat
      /\ \A j \in kept : j \in Int /\ 0 <= j /\ j < N + 1
  OBVIOUS
<1>1. IsFiniteSet(kept)
  <2>1. IsFiniteSet(0 .. N)
    BY FS_Interval
  <2> QED
    BY <2>1, FS_Subset
<1>2. PICK below \in [0 .. N + 1 -> SUBSET kept] :
        \A i \in 0 .. N + 1 : below[i] = {j \in kept : j < i}
  <2> DEFINE b == [i \in 0 .. N + 1 |-> {j \in kept : j < i}]
  <2>1. b \in [0 .. N + 1 -> SUBSET kept] /\ \A i \in 0 .. N + 1 : b[i] = {j \in kept : j < i}
    OBVIOUS
  <2> QED
    BY <2>1
<1>3. \A i \in 0 .. N + 1 : IsFiniteSet(below[i])
  BY <1>1, <1>2, FS_Subset
<1>4. \A i \in 0 .. N + 1 : Cardinality(below[i]) \in Nat
  BY <1>3, FS_CardinalityType
<1> DEFINE c == [i \in 0 .. N + 1 |-> Cardinality(below[i])]
<1>5. c \in [0 .. N + 1 -> Nat]
  BY <1>4
<1>6. c[0] = 0
  <2>1. below[0] = {}
    <3>1. \A j \in kept : ~(j < 0)
      BY <1>0
    <3>2. below[0] = {j \in kept : j < 0}
      BY <1>0, <1>2
    <3> QED
      BY <3>1, <3>2
  <2>2. Cardinality(below[0]) = 0
    BY <2>1, FS_EmptySet
  <2> QED
    BY <1>0, <2>2
<1>7. ASSUME NEW i \in 1 .. N + 1
      PROVE  /\ i - 1 \in 0 .. N + 1 /\ i \in 0 .. N + 1
             /\ below[i] = {j \in kept : j <= i - 1}
             /\ i - 1 \in kept => below[i] = below[i - 1] \cup {i - 1}
             /\ i - 1 \notin kept => below[i] = below[i - 1]
  <2>1. i - 1 \in 0 .. N + 1 /\ i \in 0 .. N + 1
    BY <1>0
  <2>2. \A j \in kept : j \in Int /\ (j < i <=> j < i - 1 \/ j = i - 1) /\ (j < i <=> j <= i - 1)
    BY <1>0
  <2>3. below[i] = {j \in kept : j < i} /\ below[i - 1] = {j \in kept : j < i - 1}
    BY <1>2, <2>1
  <2> QED
    BY <2>1, <2>2, <2>3
<1>8. \A i \in 1 .. N + 1 : c[i] <= c[i - 1] + 1
  <2>1. SUFFICES ASSUME NEW i \in 1 .. N + 1 PROVE c[i] <= c[i - 1] + 1
    OBVIOUS
  <2>2. IsFiniteSet(below[i - 1])
    BY <1>3, <1>7
  <2>3. Cardinality(below[i - 1] \cup {i - 1}) = IF i - 1 \in below[i - 1] THEN Cardinality(below[i - 1])
                                                 ELSE Cardinality(below[i - 1]) + 1
    BY <2>2, FS_AddElement
  <2>4. Cardinality(below[i]) = Cardinality(below[i - 1])
        \/ Cardinality(below[i]) = Cardinality(below[i - 1]) + 1
    BY <1>7, <2>3
  <2>5. Cardinality(below[i - 1]) \in Nat
    BY <1>4, <1>7
  <2>6. Cardinality(below[i]) <= Cardinality(below[i - 1]) + 1
    BY <2>4, <2>5
  <2> QED
    BY <1>7, <2>6
<1>9. n \in 1 .. c[N + 1]
  <2>1. below[N + 1] = kept
    BY <1>0, <1>2
  <2> QED
    BY <1>0, <2>1
<1> HIDE DEF c
<1>10. PICK i \in 1 .. N + 1 : c[i] = n /\ c[i - 1] # n
  BY <1>0, <1>5, <1>6, <1>8, <1>9, CountingUp
<1>11. i - 1 \in kept
  BY <1>7, <1>10 DEF c
<1>12. Cardinality({j \in kept : j <= i - 1}) = n
  BY <1>7, <1>10 DEF c
<1> QED
  BY <1>11, <1>12

\* The places of a set are found by their number: each has one, in their order.
LEMMA PlaceIsOne ==
  ASSUME NEW N \in Nat, NEW places \in SUBSET (0 .. N)
  PROVE  /\ Cardinality(places) \in Nat
         /\ \A n \in 1 .. Cardinality(places) :
              NthPlace(places, n) \in places /\ Cardinality({j \in places : j <= NthPlace(places, n)}) = n
         /\ \A i \in places : \E n \in 1 .. Cardinality(places) : NthPlace(places, n) = i
         /\ \A m, n \in 1 .. Cardinality(places) : m < n => NthPlace(places, m) < NthPlace(places, n)
<1> DEFINE upTo(i) == {j \in places : j <= i}
<1>1. IsFiniteSet(places)
  <2>1. IsFiniteSet(0 .. N)
    BY FS_Interval
  <2> QED
    BY <2>1, FS_Subset
<1>2. Cardinality(places) \in Nat
  BY <1>1, FS_CardinalityType
<1>3. ASSUME NEW n \in 1 .. Cardinality(places)
      PROVE  NthPlace(places, n) \in places /\ Cardinality(upTo(NthPlace(places, n))) = n
  <2>1. \E i \in places : Cardinality({j \in places : j <= i}) = n
    BY PlaceExists
  <2> QED
    BY <2>1, Zenon DEF NthPlace
<1>4. ASSUME NEW i \in places, NEW k \in places, i < k
      PROVE  Cardinality(upTo(i)) # Cardinality(upTo(k))
  <2>1. upTo(i) \subseteq upTo(k) /\ k \in upTo(k) /\ k \notin upTo(i)
    <3>1. \A j \in places : j \in Int
      OBVIOUS
    <3>2. \A j \in places : j <= i => j <= k
      BY <1>4, <3>1
    <3>3. k <= k /\ ~(k <= i)
      BY <1>4, <3>1
    <3> QED
      BY <3>2, <3>3
  <2>2. IsFiniteSet(upTo(k))
    BY <1>1, FS_Subset
  <2> HIDE DEF upTo
  <2> QED
    BY <2>1, <2>2, FS_Subset
<1>5. ASSUME NEW i \in places
      PROVE  \E n \in 1 .. Cardinality(places) : NthPlace(places, n) = i
  <2>1. upTo(i) \subseteq places /\ i \in upTo(i) /\ i \in Int
    OBVIOUS
  <2>2. Cardinality(upTo(i)) \in Nat /\ Cardinality(upTo(i)) <= Cardinality(places)
    BY <1>1, <2>1, FS_Subset, FS_CardinalityType
  <2>3. Cardinality(upTo(i)) # 0
    BY <1>1, <2>1, FS_Subset, FS_EmptySet
  <2> DEFINE n == Cardinality(upTo(i))
  <2>4. n \in 1 .. Cardinality(places)
    <3> HIDE DEF upTo
    <3> QED
      BY <1>2, <2>2, <2>3
  <2>5. NthPlace(places, n) \in places /\ Cardinality(upTo(NthPlace(places, n))) = n
    BY <1>3, <2>4
  <2> DEFINE k == NthPlace(places, n)
  <2>6. k \in places /\ Cardinality(upTo(k)) = Cardinality(upTo(i))
    BY <2>5
  <2>60. i \in Int /\ k \in Int
    <3> HIDE DEF k
    <3> QED
      BY <2>6
  <2> HIDE DEF n, k, upTo
  <2>7. k = i
    <3>1. k < i \/ i < k \/ k = i
      BY <2>60
    <3> QED
      BY <1>4, <2>6, <3>1
  <2> QED
    BY <2>4, <2>7 DEF k
<1> QED
  <2>1. ASSUME NEW m \in 1 .. Cardinality(places), NEW n \in 1 .. Cardinality(places), m < n
        PROVE  NthPlace(places, m) < NthPlace(places, n)
    <3> DEFINE p == NthPlace(places, m)
               q == NthPlace(places, n)
    <3>1. p \in places /\ q \in places /\ Cardinality(upTo(p)) = m /\ Cardinality(upTo(q)) = n
      BY <1>3
    <3> HIDE DEF p, q
    <3>2. p \in Int /\ q \in Int
      BY <3>1
    <3>3. ASSUME q <= p PROVE FALSE
      <4>1. upTo(q) \subseteq upTo(p)
        <5>1. \A j \in places : j <= q => j <= p
          BY <3>2, <3>3
        <5> QED
          BY <5>1
      <4>2. IsFiniteSet(upTo(p))
        BY <1>1, FS_Subset
      <4> HIDE DEF upTo
      <4>3. Cardinality(upTo(q)) <= Cardinality(upTo(p))
        BY <4>1, <4>2, FS_Subset
      <4> QED
        BY <1>2, <2>1, <3>1, <4>3
    <3>4. p < q
      BY <3>2, <3>3
    <3> QED
      BY <3>4 DEF p, q
  <2> QED
    BY <1>2, <1>3, <1>5, <2>1

\* What is left of a sequence at some of its places is of the same entries, each once, in
\* their order.
LEMMA AtIsOf ==
  ASSUME NEW S, NEW s \in Seq(S), NEW places \in SUBSET (1 .. Len(s))
  PROVE  /\ EntriesAt(s, places) \in Seq(S) /\ Len(EntriesAt(s, places)) = Cardinality(places)
         /\ \A n \in 1 .. Len(EntriesAt(s, places)) :
              NthPlace(places, n) \in places /\ EntriesAt(s, places)[n] = s[NthPlace(places, n)]
         /\ \A m, n \in 1 .. Len(EntriesAt(s, places)) : m < n => NthPlace(places, m) < NthPlace(places, n)
         /\ \A i \in places : \E n \in 1 .. Len(EntriesAt(s, places)) : EntriesAt(s, places)[n] = s[i]
<1> DEFINE k == Cardinality(places)
           t == EntriesAt(s, places)
<1>1. Len(s) \in Nat /\ places \in SUBSET (0 .. Len(s))
  OBVIOUS
<1>2. /\ k \in Nat
      /\ \A n \in 1 .. k : NthPlace(places, n) \in places
      /\ \A m, n \in 1 .. k : m < n => NthPlace(places, m) < NthPlace(places, n)
      /\ \A i \in places : \E n \in 1 .. k : NthPlace(places, n) = i
  BY <1>1, PlaceIsOne
<1>3. t = [n \in 1 .. k |-> s[NthPlace(places, n)]]
  BY DEF EntriesAt
<1> HIDE DEF k, t
<1>4. \A n \in 1 .. k : s[NthPlace(places, n)] \in S
  <2>1. \A i \in places : s[i] \in S
    OBVIOUS
  <2> QED
    BY <1>2, <2>1
<1>5. t \in [1 .. k -> S]
  BY <1>3, <1>4
<1>6. t \in Seq(S) /\ Len(t) = k
  BY <1>2, <1>5
<1> QED
  BY <1>2, <1>3, <1>6 DEF k, t

\* Every place is in one of the pieces of a given size.
LEMMA PieceOf ==
  ASSUME NEW n \in Nat, NEW size \in Nat \ {0}, NEW k \in 1 .. n
  PROVE  \E i \in 1 .. (n + size - 1) \div size : (i - 1) * size < k /\ k <= i * size
<1> DEFINE q == (k - 1) \div size
           m == (n + size - 1) \div size
<1>1. q \in Nat /\ size * q <= k - 1 /\ k - 1 < size * q + size
  OBVIOUS
<1>2. (k - 1 + size) \div size <= m /\ m \in Nat
  OBVIOUS
<1>3. (k - 1 + size) \div size = q + 1
  OBVIOUS
<1> HIDE DEF q, m
<1>4. q + 1 \in 1 .. m
  BY <1>1, <1>2, <1>3
<1>5. (q + 1) - 1 = q /\ (q + 1) * size = size * q + size /\ q * size = size * q
  BY <1>1
<1>6. ((q + 1) - 1) * size < k /\ k <= (q + 1) * size
  BY <1>1, <1>5
<1>7. \E i \in 1 .. m : (i - 1) * size < k /\ k <= i * size
  BY <1>4, <1>6
<1> QED
  BY <1>7 DEF m

\* Where the k-th entry of the i-th piece was.
PlaceIn(size, i, k) == (i - 1) * size + k

\* Each place of a piece is one of the sequence, each of the sequence is in a piece, and
\* none in two.
CutInto(pieces, s, size) ==
  /\ \A i \in DOMAIN pieces : \A k \in 1 .. Len(pieces[i]) :
       PlaceIn(size, i, k) \in 1 .. Len(s) /\ pieces[i][k] = s[PlaceIn(size, i, k)]
  /\ \A k \in 1 .. Len(s) : \E i \in DOMAIN pieces : \E l \in 1 .. Len(pieces[i]) : pieces[i][l] = s[k]
  /\ \A i, j \in DOMAIN pieces : \A k \in 1 .. Len(pieces[i]), l \in 1 .. Len(pieces[j]) :
       PlaceIn(size, i, k) = PlaceIn(size, j, l) => i = j /\ k = l

LEMMA PiecesOf ==
  ASSUME NEW S, NEW s \in Seq(S), NEW size \in Nat \ {0}, NEW pieces, pieces = InPieces(s, size)
  PROVE  pieces \in Seq(Seq(S)) /\ CutInto(pieces, s, size)
<1> DEFINE n == Len(s)
           m == (n + size - 1) \div size
           last(i) == Lesser(i * size, n)
<1>1. n \in Nat /\ m \in Nat /\ DOMAIN pieces = 1 .. m
  BY DEF InPieces
<1>2. ASSUME NEW i \in 1 .. m
      PROVE  /\ pieces[i] \in Seq(S)
             /\ (i - 1) * size \in Nat /\ i * size = (i - 1) * size + size
             /\ Len(pieces[i]) = last(i) - (i - 1) * size /\ Len(pieces[i]) \in 0 .. size
             /\ last(i) \in 0 .. n
             /\ \A k \in 1 .. Len(pieces[i]) :
                  (i - 1) * size + k \in 1 .. n /\ pieces[i][k] = s[(i - 1) * size + k]
  <2> DEFINE a == (i - 1) * size
  <2>1. a \in Nat /\ i * size = a + size
    OBVIOUS
  <2>2. a <= n
    <3>1. size * m <= n + size - 1
      OBVIOUS
    <3>2. i * size <= m * size /\ m * size = size * m
      BY <1>1
    <3> QED
      BY <2>1, <3>1, <3>2, <1>1
  <2>3. pieces[i] = SubSeq(s, a + 1, last(i))
    BY DEF InPieces
  <2>4. last(i) \in 0 .. n /\ a + 1 <= last(i) + 1 /\ last(i) <= i * size
    BY <1>1, <2>1, <2>2 DEF Lesser
  <2> HIDE DEF a, last, n, m
  <2>5. /\ SubSeq(s, a + 1, last(i)) \in Seq(S)
        /\ Len(SubSeq(s, a + 1, last(i))) = last(i) - a
        /\ \A k \in 1 .. last(i) - a : SubSeq(s, a + 1, last(i))[k] = s[a + k]
    BY <1>1, <2>1, <2>4 DEF n
  <2>6. last(i) - a \in 0 .. size /\ \A k \in 1 .. last(i) - a : a + k \in 1 .. n
    BY <1>1, <2>1, <2>4
  <2> QED
    BY <2>1, <2>3, <2>4, <2>5, <2>6 DEF a
<1> HIDE DEF n, m, last
<1>4. pieces \in Seq(Seq(S))
  <2>1. pieces \in [1 .. m -> Seq(S)]
    BY <1>1, <1>2 DEF InPieces, n, m, last
  <2>2. pieces \in [1 .. m -> Seq(S)] /\ m \in Nat
    BY <1>1, <2>1
  <2> DEFINE T == Seq(S)
  <2> HIDE DEF m, T
  <2>3. pieces \in [1 .. m -> T]
    BY <2>2 DEF T
  <2>4. pieces \in Seq(T)
    BY <2>2, <2>3
  <2> QED
    BY <2>4 DEF T
<1>6. ASSUME NEW k \in 1 .. n
      PROVE  \E i \in DOMAIN pieces : \E l \in 1 .. Len(pieces[i]) : pieces[i][l] = s[k]
  <2>1. PICK i \in 1 .. m : (i - 1) * size < k /\ k <= i * size
    BY <1>1, PieceOf DEF m
  <2> DEFINE a == (i - 1) * size
  <2>2. a \in Nat /\ a < k /\ Len(pieces[i]) = last(i) - a
    BY <1>2, <2>1
  <2>3. k <= last(i) /\ last(i) \in 0 .. n
    BY <1>1, <1>2, <2>1 DEF last, Lesser
  <2>4. k - a \in 1 .. Len(pieces[i]) /\ a + (k - a) = k
    <3> DEFINE z == last(i)
               len == Len(pieces[i])
    <3>1. a \in Nat /\ a < k /\ len = z - a /\ k <= z /\ z \in Nat /\ k \in Nat
      BY <1>1, <2>2, <2>3
    <3> HIDE DEF a, z, len
    <3>2. k - a \in 1 .. len /\ a + (k - a) = k
      BY <3>1
    <3> QED
      BY <3>2 DEF len
  <2>5. pieces[i][k - a] = s[k]
    BY <1>2, <2>4
  <2> QED
    BY <1>1, <2>4, <2>5
<1>7. ASSUME NEW i \in 1 .. m, NEW j \in 1 .. m, NEW k \in 1 .. Len(pieces[i]),
             NEW l \in 1 .. Len(pieces[j]), (i - 1) * size + k = (j - 1) * size + l
      PROVE  i = j /\ k = l
  <2>0. Len(pieces[i]) \in 0 .. size /\ Len(pieces[j]) \in 0 .. size
    BY <1>2
  <2>1. k \in 1 .. size /\ l \in 1 .. size
    BY <2>0
  <2>2. ASSUME i < j PROVE FALSE
    <3>1. i * size <= (j - 1) * size
      BY <2>2
    <3>2. i * size = (i - 1) * size + size /\ (i - 1) * size \in Nat /\ (j - 1) * size \in Nat
      BY <1>2
    <3> DEFINE a == (i - 1) * size
               b == (j - 1) * size
    <3>3. a \in Nat /\ b \in Nat /\ a + k = b + l
      BY <1>7, <3>2
    <3>4. a + size <= b \/ b + size <= a
      BY <3>1, <3>2
    <3> HIDE DEF a, b
    <3> QED
      BY <2>1, <3>3, <3>4
  <2>3. ASSUME j < i PROVE FALSE
    <3>1. j * size <= (i - 1) * size
      BY <2>3
    <3>2. j * size = (j - 1) * size + size /\ (i - 1) * size \in Nat /\ (j - 1) * size \in Nat
      BY <1>2
    <3> DEFINE a == (i - 1) * size
               b == (j - 1) * size
    <3>3. a \in Nat /\ b \in Nat /\ a + k = b + l
      BY <1>7, <3>2
    <3>4. a + size <= b \/ b + size <= a
      BY <3>1, <3>2
    <3> HIDE DEF a, b
    <3> QED
      BY <2>1, <3>3, <3>4
  <2>4. i = j
    BY <1>1, <2>2, <2>3
  <2>5. (i - 1) * size \in Nat
    BY <1>2
  <2> QED
    BY <1>7, <2>1, <2>4, <2>5
<1> QED
  <2>1. \A i \in DOMAIN pieces : \A k \in 1 .. Len(pieces[i]) :
          PlaceIn(size, i, k) \in 1 .. Len(s) /\ pieces[i][k] = s[PlaceIn(size, i, k)]
    BY <1>1, <1>2 DEF n, PlaceIn
  <2>2. \A k \in 1 .. Len(s) : \E i \in DOMAIN pieces : \E l \in 1 .. Len(pieces[i]) : pieces[i][l] = s[k]
    BY <1>6 DEF n
  <2>3. \A i, j \in DOMAIN pieces : \A k \in 1 .. Len(pieces[i]), l \in 1 .. Len(pieces[j]) :
          PlaceIn(size, i, k) = PlaceIn(size, j, l) => i = j /\ k = l
    <3> SUFFICES ASSUME NEW i \in DOMAIN pieces, NEW j \in DOMAIN pieces, NEW k \in 1 .. Len(pieces[i]),
                        NEW l \in 1 .. Len(pieces[j]), PlaceIn(size, i, k) = PlaceIn(size, j, l)
                 PROVE  i = j /\ k = l
      OBVIOUS
    <3>1. i \in 1 .. m /\ j \in 1 .. m /\ (i - 1) * size + k = (j - 1) * size + l
      BY <1>1 DEF PlaceIn
    <3> QED
      BY <1>7, <3>1
  <2> QED
    BY <1>4, <2>1, <2>2, <2>3 DEF CutInto

\* The chunks of a scan have a size, so that this is what they are.
LEMMA ChunkSizeIsPositive ==
  ASSUME NEW n \in Nat, NEW concurrency \in Nat \ {0}
  PROVE  ChunkSize(n, concurrency) \in Nat \ {0}
<1> DEFINE a == Larger(n + concurrency - 1, 1)
           b == Lesser(concurrency, Larger(n, 1))
<1>1. a \in Nat /\ b \in Nat \ {0} /\ b <= a
  BY DEF Larger, Lesser
<1>2. ChunkSize(n, concurrency) = a \div b
  BY DEF ChunkSize
<1> HIDE DEF a, b
<1>3. a \div b \in Nat /\ b * (a \div b) <= a /\ a < b * (a \div b) + b
  BY <1>1
<1>4. a \div b # 0
  BY <1>1, <1>3
<1> QED
  BY <1>2, <1>3, <1>4

\* What a sequence of sequences holds, and that it holds nothing twice.
ContentOf(pieces) == UNION {{pieces[i][k] : k \in DOMAIN pieces[i]} : i \in DOMAIN pieces}

Distinct(pieces) ==
  \A i, j \in DOMAIN pieces : \A k \in DOMAIN pieces[i], l \in DOMAIN pieces[j] :
    pieces[i][k] = pieces[j][l] => i = j /\ k = l

\* A scan's chunks hold its hosts and no others, and each once.
LEMMA ChunksHoldAll ==
  ASSUME NEW S, NEW s \in Seq(S), \A p, q \in DOMAIN s : s[p] = s[q] => p = q,
         NEW concurrency \in Nat \ {0}, NEW pieces, pieces = Chunks(s, concurrency)
  PROVE  /\ pieces \in Seq(Seq(S)) /\ Distinct(pieces)
         /\ ContentOf(pieces) = {s[p] : p \in DOMAIN s}
<1>1. PICK size \in Nat \ {0} : pieces = InPieces(s, size)
  <2>1. Len(s) \in Nat
    OBVIOUS
  <2> QED
    BY <2>1, ChunkSizeIsPositive DEF Chunks
<1>2. pieces \in Seq(Seq(S)) /\ CutInto(pieces, s, size)
  BY <1>1, PiecesOf
<1>3. \A i \in DOMAIN pieces : DOMAIN pieces[i] = 1 .. Len(pieces[i])
  BY <1>2
<1>4. DOMAIN s = 1 .. Len(s)
  OBVIOUS
<1>5. ASSUME NEW i \in DOMAIN pieces, NEW j \in DOMAIN pieces,
             NEW k \in DOMAIN pieces[i], NEW l \in DOMAIN pieces[j], pieces[i][k] = pieces[j][l]
      PROVE  i = j /\ k = l
  <2>1. k \in 1 .. Len(pieces[i]) /\ l \in 1 .. Len(pieces[j])
    BY <1>3
  <2>2. /\ PlaceIn(size, i, k) \in DOMAIN s /\ pieces[i][k] = s[PlaceIn(size, i, k)]
        /\ PlaceIn(size, j, l) \in DOMAIN s /\ pieces[j][l] = s[PlaceIn(size, j, l)]
    BY <1>2, <1>4, <2>1 DEF CutInto
  <2>3. PlaceIn(size, i, k) = PlaceIn(size, j, l)
    BY <1>5, <2>2
  <2> QED
    BY <1>2, <2>1, <2>3 DEF CutInto
<1>6. ASSUME NEW i \in DOMAIN pieces, NEW k \in DOMAIN pieces[i]
      PROVE  \E p \in DOMAIN s : pieces[i][k] = s[p]
  <2>1. k \in 1 .. Len(pieces[i])
    BY <1>3
  <2>2. PlaceIn(size, i, k) \in DOMAIN s /\ pieces[i][k] = s[PlaceIn(size, i, k)]
    BY <1>2, <1>4, <2>1 DEF CutInto
  <2> QED
    BY <2>2
<1>7. ASSUME NEW p \in DOMAIN s
      PROVE  \E i \in DOMAIN pieces : \E k \in DOMAIN pieces[i] : pieces[i][k] = s[p]
  <2>1. PICK i \in DOMAIN pieces : \E k \in 1 .. Len(pieces[i]) : pieces[i][k] = s[p]
    BY <1>2, <1>4 DEF CutInto
  <2> QED
    BY <1>3, <2>1
<1>8. ContentOf(pieces) = {s[p] : p \in DOMAIN s}
  BY <1>6, <1>7 DEF ContentOf
<1> QED
  BY <1>2, <1>5, <1>8 DEF Distinct

\* What a sequence holds is held.
LEMMA IsHeld ==
  ASSUME NEW pieces, NEW i \in DOMAIN pieces, NEW k, k \in DOMAIN pieces[i]
  PROVE  pieces[i][k] \in ContentOf(pieces)
  BY DEF ContentOf

\* What is held are entries of the sequences.
LEMMA HeldIsOf ==
  ASSUME NEW S, NEW pieces \in Seq(Seq(S))
  PROVE  ContentOf(pieces) \subseteq S
<1>1. \A i \in DOMAIN pieces : pieces[i] \in Seq(S)
  OBVIOUS
<1>2. \A i \in DOMAIN pieces : \A k \in DOMAIN pieces[i] : pieces[i][k] \in S
  BY <1>1
<1> QED
  BY <1>2 DEF ContentOf

\* What is empty holds nothing, and twice nothing.
LEMMA NothingHeld ==
  ASSUME NEW pieces, \A i \in DOMAIN pieces : pieces[i] = <<>>
  PROVE  ContentOf(pieces) = {} /\ Distinct(pieces)
<1>1. \A i \in DOMAIN pieces : DOMAIN pieces[i] = {}
  OBVIOUS
<1> QED
  BY <1>1 DEF ContentOf, Distinct

\* Taking the head of one of the sequences takes just that.
LEMMA HeadIsTaken ==
  ASSUME NEW S, NEW pieces \in Seq(Seq(S)), Distinct(pieces),
         NEW i \in DOMAIN pieces, pieces[i] # <<>>,
         NEW left, left = [pieces EXCEPT ![i] = Tail(@)]
  PROVE  /\ Head(pieces[i]) \in S \cap ContentOf(pieces)
         /\ left \in Seq(Seq(S)) /\ DOMAIN left = DOMAIN pieces /\ Distinct(left)
         /\ ContentOf(left) = ContentOf(pieces) \ {Head(pieces[i])}
<1> DEFINE mine == pieces[i]
           host == Head(mine)
<1>1. mine \in Seq(S)
  OBVIOUS
<1>2. /\ host = mine[1] /\ 1 \in DOMAIN mine /\ host \in S
      /\ Tail(mine) \in Seq(S)
      /\ \A k \in DOMAIN Tail(mine) : k + 1 \in DOMAIN mine /\ Tail(mine)[k] = mine[k + 1] /\ k # 0
      /\ \A k \in DOMAIN mine : k # 1 => k - 1 \in DOMAIN Tail(mine) /\ Tail(mine)[k - 1] = mine[k]
  BY <1>1
<1>3. /\ DOMAIN left = DOMAIN pieces /\ left[i] = Tail(mine) /\ left \in Seq(Seq(S))
      /\ \A j \in DOMAIN pieces : j # i => left[j] = pieces[j]
  BY <1>2
\* What is left was there before, one place further on in the one that lost its head.
<1> DEFINE Was(j, k) == IF j = i THEN k + 1 ELSE k
<1>4. mine = pieces[i]
  OBVIOUS
<1> HIDE DEF mine, host
<1>5. ASSUME NEW j \in DOMAIN pieces, NEW k, k \in DOMAIN left[j]
      PROVE  /\ Was(j, k) \in DOMAIN pieces[j] /\ left[j][k] = pieces[j][Was(j, k)]
             /\ ~(j = i /\ Was(j, k) = 1)
  <2>1. CASE j = i
    <3>1. k \in DOMAIN Tail(mine)
      BY <1>3, <1>5, <2>1
    <3>2. k \in Int
      BY <1>2, <3>1
    <3>3. k + 1 \in DOMAIN mine /\ Tail(mine)[k] = mine[k + 1] /\ k # 0
      BY <1>2, <3>1
    <3> QED
      BY <1>3, <1>4, <2>1, <3>2, <3>3
  <2>2. CASE j # i
    BY <1>3, <1>5, <2>2
  <2> QED
    BY <2>1, <2>2
<1>6. host = pieces[i][1] /\ 1 \in DOMAIN pieces[i]
  BY <1>2, <1>4
<1>7. Distinct(left)
  <2> SUFFICES ASSUME NEW j \in DOMAIN left, NEW m \in DOMAIN left, NEW k, k \in DOMAIN left[j],
                      NEW l, l \in DOMAIN left[m], left[j][k] = left[m][l]
               PROVE  j = m /\ k = l
    BY DEF Distinct
  <2>1. PICK p, q : p = Was(j, k) /\ q = Was(m, l)
    OBVIOUS
  <2>2. p \in DOMAIN pieces[j] /\ q \in DOMAIN pieces[m] /\ pieces[j][p] = pieces[m][q]
        /\ j \in DOMAIN pieces /\ m \in DOMAIN pieces
    BY <1>3, <1>5, <2>1
  <2>3. j = m /\ p = q
    BY <2>2 DEF Distinct
  <2>4. j = i => k \in Int /\ l \in Int
    BY <1>2, <1>3, <2>3
  <2> QED
    BY <2>1, <2>3, <2>4
<1>8. ASSUME NEW j \in DOMAIN pieces, NEW k, k \in DOMAIN left[j]
      PROVE  left[j][k] \in ContentOf(pieces) \ {host}
  <2>1. PICK p : p = Was(j, k)
    OBVIOUS
  <2>2. p \in DOMAIN pieces[j] /\ left[j][k] = pieces[j][p] /\ ~(j = i /\ p = 1)
    BY <1>5, <1>8, <2>1
  <2>3. pieces[j][p] # host
    BY <1>6, <2>2 DEF Distinct
  <2>4. pieces[j][p] \in ContentOf(pieces)
    BY <2>2, IsHeld
  <2> QED
    BY <2>2, <2>3, <2>4
<1>9. ASSUME NEW h \in ContentOf(pieces) \ {host}
      PROVE  \E j \in DOMAIN left : \E k \in DOMAIN left[j] : h = left[j][k]
  <2>1. PICK j \in DOMAIN pieces : \E k \in DOMAIN pieces[j] : h = pieces[j][k]
    BY DEF ContentOf
  <2>2. CASE j # i
    BY <1>3, <2>1, <2>2
  <2>3. CASE j = i
    <3>1. PICK k \in DOMAIN mine : h = mine[k]
      BY <1>4, <2>1, <2>3
    <3>2. k - 1 \in DOMAIN Tail(mine) /\ Tail(mine)[k - 1] = h
      BY <1>2, <3>1
    <3> QED
      BY <1>3, <3>2
  <2> QED
    BY <2>2, <2>3
<1>10. ContentOf(left) = ContentOf(pieces) \ {host}
  <2>1. ContentOf(left) \subseteq ContentOf(pieces) \ {host}
    <3> SUFFICES ASSUME NEW h \in ContentOf(left) PROVE h \in ContentOf(pieces) \ {host}
      OBVIOUS
    <3>1. PICK j \in DOMAIN left : \E k \in DOMAIN left[j] : h = left[j][k]
      BY DEF ContentOf
    <3> QED
      BY <1>3, <1>8, <3>1
  <2>2. ASSUME NEW h \in ContentOf(pieces) \ {host} PROVE h \in ContentOf(left)
    <3>1. PICK j \in DOMAIN left : \E k \in DOMAIN left[j] : h = left[j][k]
      BY <1>9
    <3> QED
      BY <3>1, IsHeld
  <2> QED
    BY <2>1, <2>2
<1>11. host \in ContentOf(pieces)
  BY <1>6, IsHeld
<1> QED
  BY <1>2, <1>3, <1>7, <1>10, <1>11 DEF mine, host

\* A finite set of numbers in order has each of them once.
LEMMA InOrderIs ==
  ASSUME NEW numbers \in SUBSET Nat, IsFiniteSet(numbers)
  PROVE  /\ InOrder(numbers) \in Seq(numbers)
         /\ \A p, q \in DOMAIN InOrder(numbers) :
              InOrder(numbers)[p] = InOrder(numbers)[q] => p = q
<1> DEFINE k == Cardinality(numbers)
           s == InOrder(numbers)
<1>1. PICK N \in Nat : numbers \subseteq 0 .. N
  BY FiniteIsBounded
<1>2. /\ k \in Nat
      /\ \A n \in 1 .. k : NthPlace(numbers, n) \in numbers
      /\ \A m, n \in 1 .. k : m < n => NthPlace(numbers, m) < NthPlace(numbers, n)
  BY <1>1, PlaceIsOne
<1>3. s = [n \in 1 .. k |-> NthPlace(numbers, n)]
  BY DEF InOrder
<1> HIDE DEF k, s
<1>4. s \in Seq(numbers) /\ DOMAIN s = 1 .. k
  BY <1>2, <1>3
<1>5. ASSUME NEW p \in 1 .. k, NEW q \in 1 .. k, p < q PROVE s[p] # s[q]
  <2>1. s[p] = NthPlace(numbers, p) /\ s[q] = NthPlace(numbers, q)
    BY <1>3
  <2>2. s[p] \in Int /\ s[q] \in Int
    <3>1. NthPlace(numbers, p) \in numbers /\ NthPlace(numbers, q) \in numbers
      BY <1>2
    <3>2. \A x \in numbers : x \in Int
      OBVIOUS
    <3> QED
      BY <2>1, <3>1, <3>2
  <2>3. s[p] < s[q]
    BY <1>2, <1>5, <2>1
  <2> QED
    BY <2>2, <2>3
<1>6. \A p, q \in 1 .. k : p = q \/ p < q \/ q < p
  BY <1>2
<1> QED
  BY <1>4, <1>5, <1>6 DEF s

\* A sequence without repetition has as many entries as places.
LEMMA NoRepetition ==
  ASSUME NEW S, NEW s \in Seq(S), \A p, q \in DOMAIN s : s[p] = s[q] => p = q,
         NEW entries, entries = {s[p] : p \in DOMAIN s}
  PROVE  IsFiniteSet(entries) /\ Cardinality(entries) = Len(s)
<1>1. Len(s) \in Nat /\ DOMAIN s = 1 .. Len(s)
  OBVIOUS
<1>2. s \in [1 .. Len(s) -> entries]
  BY <1>1
<1>3. s \in Bijection(1 .. Len(s), entries)
  BY <1>1, <1>2 DEF Bijection, Injection, Surjection, IsInjective
<1>4. IsFiniteSet(1 .. Len(s)) /\ Cardinality(1 .. Len(s)) = Len(s)
  BY <1>1, FS_Interval
<1> QED
  BY <1>3, <1>4, FS_Bijection DEF ExistsBijection
=============================================================================
