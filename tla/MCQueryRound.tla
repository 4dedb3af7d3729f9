---------------------------- MODULE MCQueryRound ----------------------------
(* The round launches j1 from its scope or a callback and j2 likewise, j1  *)
(* being the one whose answer launches more; j3 is a command of somebody   *)
(* else, taking the one slot in between.                                   *)
EXTENDS QueryRound, TLC

CONSTANTS j1, j2, j3, repository

MCContextOf == (j1 :> repository) @@ (j2 :> repository) @@ (j3 :> NoContext)
=============================================================================
