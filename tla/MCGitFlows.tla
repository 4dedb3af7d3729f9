------------------------------ MODULE MCGitFlows ------------------------------
(* Instances of GitFlows for TLC: two files, or a file and a submodule.  The *)
(* files are interchangeable, and so are the contents.                     *)
EXTENDS GitFlows, TLC

Interchangeable == Permutations(Files) \cup Permutations(Contents)
===============================================================================
