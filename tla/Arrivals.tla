------------------------------- MODULE Arrivals -------------------------------
(***************************************************************************)
(* Queues of the program that are only appended to and removed from, as    *)
(* sets with the order their members arrived in: `f` is that order.        *)
(***************************************************************************)
EXTENDS Integers, FiniteSets

\* The members of S that arrived before j.
Before(S, f, j) == {k \in S : f[k] < f[j]}

\* The first n members of S.
FirstServed(S, f, n) == {j \in S : Cardinality(Before(S, f, j)) < n}

\* No two members of S arrived at once.
Distinct(S, f) == \A j, k \in S : f[j] = f[k] => j = k
===============================================================================
