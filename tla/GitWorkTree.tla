----------------------------- MODULE GitWorkTree -----------------------------
(***************************************************************************)
(* A git repository on disk as the commit window's commands see it: the    *)
(* index between the last commit and the working tree, and what each       *)
(* command gitrepository.cpp runs does to them.  Git itself is external:   *)
(* every operator here is the effect the callers rely on.                  *)
(***************************************************************************)
EXTENDS WorkingTree

CONSTANT Unmerged   \* an index entry left conflicted by an operation

ASSUME GitWorkTreeAssumption == Unmerged \notin Contents \cup {None}

VARIABLE index      \* Path -> content staged

disk == <<log, index, work, inside, merging>>

DiskTypeOK ==
    /\ WorkingTreeTypeOK
    /\ index \in [Paths -> Held \cup {Unmerged}]

Tracked(p) == index[p] # None
IsUntracked(p) == work[p] # None /\ ~Tracked(p)

\* What `git diff HEAD` compares with the commit: an untracked path is not there.
InTree(p) == IF Tracked(p) THEN work[p] ELSE None

Differing == {p \in Paths : InTree(p) # head[p]}

\* diff -M: a path that went paired with one that came holding the same.
Renames ==
    LET pairs == {r \in Files \X Files : /\ head[r[1]] # None /\ InTree(r[1]) = None
                                         /\ head[r[2]] = None /\ InTree(r[2]) = head[r[1]]}
        Matching(m) == \A r, s \in m : r = s \/ (r[1] # s[1] /\ r[2] # s[2])
    IN  CHOOSE m \in SUBSET pairs : /\ Matching(m)
                                    /\ \A n \in SUBSET pairs : Matching(n) => Cardinality(n) <= Cardinality(m)

\* `git diff --cached`: an unmerged entry differs too.
Staged == {p \in Paths : index[p] # head[p]}

-------------------------------------------------------------------------------
(* The index after each command.  A pathspec that matches nothing fails the  *)
(* whole command, and a failed command leaves the index alone.               *)

Matches(P) == \A p \in P : Tracked(p) \/ work[p] # None
AfterAdd(P) == [p \in Paths |-> IF p \in P THEN work[p] ELSE index[p]]
AfterAddTracked == [p \in Paths |-> InTree(p)]
AfterReset(P) == [p \in Paths |-> IF p \in P THEN head[p] ELSE index[p]]
AfterUpdateIndex(saved) == [p \in Paths |-> IF p \in DOMAIN saved THEN saved[p] ELSE index[p]]

\* `git commit` refuses an index with conflicts, and an unchanged one unless it ends a merge.
Committable ==
    /\ \A p \in Paths : index[p] # Unmerged
    /\ Staged # {} \/ merging

\* `git restore --source=HEAD --staged --worktree`
CanRestore(P) == \A p \in P : head[p] # None \/ Tracked(p)
===============================================================================
