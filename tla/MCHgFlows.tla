------------------------------- MODULE MCHgFlows ------------------------------
(* Instances of HgFlows for TLC: two files and a subrepo, the files and the  *)
(* contents interchangeable.                                               *)
EXTENDS HgFlows, TLC

Interchangeable == Permutations(Files) \cup Permutations(Contents)
===============================================================================
