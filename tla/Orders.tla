------------------------------- MODULE Orders -------------------------------
(***************************************************************************)
(* What the program's sort_by and retain leave of a collection, written     *)
(* without recursion: an entry's place is the number of entries that come   *)
(* no later than it.                                                       *)
(***************************************************************************)
EXTENDS Integers, Sequences, FiniteSets

\* The members of S in the order R puts them.
InOrder(S, R) ==
    [k \in 1..Cardinality(S) |->
        CHOOSE x \in S : Cardinality({y \in S : <<y, x>> \in R}) = k]

\* What is left of q when only the entries at these places are kept.
Retain(q, places) ==
    LET next == InOrder(places, {p \in places \X places : p[1] <= p[2]})
    IN  [k \in 1..Cardinality(places) |-> q[next[k]]]

\* What is left of q when only the members of S are kept: retain, filter.
Only(q, S) == Retain(q, {i \in DOMAIN q : q[i] \in S})
=============================================================================
