----------------------------- MODULE WorkingTree ------------------------------
(***************************************************************************)
(* What a repository of either system has on disk: its commits, its        *)
(* working tree and an unfinished merge, path by path.  GitWorkTree and    *)
(* HgWorkTree add what each system keeps between the two.                  *)
(***************************************************************************)
EXTENDS Naturals, Sequences, FiniteSets

CONSTANTS
    Files,       \* paths of ordinary files
    Submodules,  \* paths of submodules; the "content" of one is the commit it is on
    Contents,    \* what a path can hold
    None         \* holds nothing: not in the commit, not tracked or not on disk

Paths == Files \cup Submodules

ASSUME WorkingTreeAssumption ==
    /\ IsFiniteSet(Files)
    /\ Files \cap Submodules = {}
    /\ None \notin Contents \cup Paths

VARIABLES
    log,      \* the commits HEAD descends from, oldest first; none while unborn
    work,     \* Path -> content on disk
    inside,   \* Submodule -> what its own status says of its content
    merging   \* a merge is uncommitted

Held == Contents \cup {None}
Tree == [Paths -> Held]
\* joins: it ended a merge; copies: the names it recorded as copied from another, which git does not.
Commit == [tree : Tree, joins : BOOLEAN, copies : [Files -> Files \cup {None}]]
NoCopies == [p \in Files |-> None]

\* Path -> content in the last commit; the empty tree stands in for an unborn HEAD.
head == IF log = <<>> THEN [p \in Paths |-> None] ELSE log[Len(log)].tree

parentCount == IF Len(log) = 0 THEN 0 ELSE IF log[Len(log)].joins THEN 2 ELSE IF Len(log) > 1 THEN 1 ELSE 0

Committed(tree, copies) == Append(log, [tree |-> tree, joins |-> merging, copies |-> copies])

WorkingTreeTypeOK ==
    /\ log \in Seq(Commit)
    /\ work \in Tree
    /\ inside \in [Submodules -> {"Clean", "Untracked", "DirtyTracked"}]
    /\ merging \in BOOLEAN
===============================================================================
