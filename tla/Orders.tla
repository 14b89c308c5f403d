-------------------------------- MODULE Orders --------------------------------
(***************************************************************************)
(* Orders in sequences, and the order in which a QMap or a sorted list has *)
(* its keys.                                                               *)
(***************************************************************************)
EXTENDS Integers, FiniteSets, Sequences

\* Whether a comes before b in a sequence.
Precedes(s, a, b) == \E i, j \in DOMAIN s : i < j /\ s[i] = a /\ s[j] = b

\* A finite set of integers from the least to the greatest: the i-th has i - 1 below it.
InOrder(S) == [i \in 1..Cardinality(S) |->
                  CHOOSE n \in S : Cardinality({m \in S : m < n}) = i - 1]

\* The elements of a sequence at these places, and those that are in S, in their order.
Picked(s, places) == LET order == InOrder(places) IN [k \in DOMAIN order |-> s[order[k]]]
Only(s, S) == Picked(s, {i \in DOMAIN s : s[i] \in S})
=============================================================================
