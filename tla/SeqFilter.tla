------------------------------ MODULE SeqFilter ------------------------------
(***************************************************************************)
(* List comprehensions `[x for x in s if x in S]` of the Python code, as a *)
(* closed expression instead of a recursion, so that the proof modules can *)
(* reason about it.                                                        *)
(***************************************************************************)
EXTENDS Integers, Sequences, FiniteSets, Functions

(* The positions of s that hold an element of S. *)
Positions(s, S) == {i \in 1..Len(s) : s[i] \in S}

(* How many positions of P are at or before i. *)
Rank(P, i) == Cardinality({k \in P : k <= i})

(* [x for x in s if x in S]: the elements of s that are in S, in order. *)
Keep(s, S) ==
    LET P == Positions(s, S)
    IN  [j \in 1..Cardinality(P) |-> s[CHOOSE i \in P : Rank(P, i) = j]]

(* [x for x in s if x not in S] *)
Drop(s, S) == Keep(s, Range(s) \ S)

(* s.count(x) *)
Count(s, x) == Cardinality(Positions(s, {x}))

(* reversed(s) *)
Backwards(s) == [i \in 1..Len(s) |-> s[Len(s) + 1 - i]]

(* No element occurs at two positions. *)
NoDup(s) == \A i, j \in 1..Len(s) : s[i] = s[j] => i = j

(* x occurs before y. *)
Before(s, x, y) == \E i, j \in 1..Len(s) : i < j /\ s[i] = x /\ s[j] = y
==============================================================================
