------------------------ MODULE MCHistoryListing ------------------------
(* The change rebases the branch onto the checkout as a branch of another  *)
(* name; the search, which reads refs too, then matches one commit less.   *)
EXTENDS HistoryListing

MCWalk ==
    [at \in (0..1) \X Scopes |->
        CASE at[2] = "CheckedOut" -> <<"b", "a", "o">>
          [] at[2] = "EveryRef"   -> IF at[1] = 0 THEN <<"b", "x", "a", "o">> ELSE <<"c", "b", "a", "o">>
          [] OTHER                -> IF at[1] = 0 THEN <<"x", "o">> ELSE NoWalk]
MCNoWalk == <<>>
MCMatched == [v \in 0..1 |-> IF v = 0 THEN {"b", "o"} ELSE {"o"}]
=============================================================================
