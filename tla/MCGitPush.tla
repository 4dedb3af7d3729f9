------------------------------ MODULE MCGitPush ------------------------------
(* A repository, a submodule of it and a submodule of that one. *)
EXTENDS GitPush

CONSTANTS outer, sub, nested
Chain == (sub :> outer) @@ (nested :> sub)
===============================================================================
