---------------------- MODULE MCRepositoryWindows ----------------------
(* proj has the submodule s; t, inside proj too, is a junction to q, *)
(* whose submodule is u.                                               *)
EXTENDS RepositoryWindows
CONSTANTS proj, s, t, q, u, m, j

MCDirectory == (proj :> "P") @@ (s :> "S") @@ (t :> "Q") @@ (q :> "Q") @@ (u :> "U")
MCPassesThrough == (proj :> {"P"}) @@ (s :> {"P", "S"}) @@ (t :> {"P", "J", "Q"}) @@ (q :> {"Q"}) @@ (u :> {"Q", "U"})
MCCanonical == (proj :> proj) @@ (s :> s) @@ (t :> q) @@ (q :> q) @@ (u :> u)
MCSubmoduleRoot == (<<proj, m>> :> s) @@ (<<proj, j>> :> t) @@ (<<q, m>> :> u)
MCMatches == "s" :> {s}
E(r, subs, time) == [root |-> r, submodules |-> subs, lastUsed |-> time]
MCInitialLists == {<<E(proj, {m}, 2), E(q, {m}, 1)>>}
MCFounds == {<<E(s, {}, 2), E(t, {}, 1)>>, <<E(q, {}, 3), E(proj, {m, j}, 0)>>}
=============================================================================
