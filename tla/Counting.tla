------------------------------ MODULE Counting ------------------------------
(***************************************************************************)
(* How often an element occurs in a queue.                                 *)
(***************************************************************************)
EXTENDS Integers, Sequences, FiniteSets

Count(queue, x) == Cardinality({i \in DOMAIN queue : queue[i] = x})

\* 1 or 0, to add a condition up with counts.
One(condition) == IF condition THEN 1 ELSE 0
=============================================================================
