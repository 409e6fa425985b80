------------------------------- MODULE Places -------------------------------
(***************************************************************************)
(* Places in a sequence, as sets of numbers: what stays when a sequence is *)
(* filtered (Iterator::filter, DELETE ... WHERE) or a set is put in order. *)
(***************************************************************************)
EXTENDS Integers, FiniteSets

\* The first of a set of numbers.
Earliest(places) == CHOOSE i \in places : \A j \in places : i <= j

\* The n-th of a set of numbers.
NthPlace(places, n) == CHOOSE i \in places : Cardinality({j \in places : j <= i}) = n

\* A set of numbers in order.
InOrder(numbers) == [n \in 1 .. Cardinality(numbers) |-> NthPlace(numbers, n)]

\* The entries of s at some of its places, in their order.
EntriesAt(s, places) == [n \in 1 .. Cardinality(places) |-> s[NthPlace(places, n)]]
=============================================================================
