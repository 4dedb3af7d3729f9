------------------------------ MODULE HgWorkTree ------------------------------
(***************************************************************************)
(* A Mercurial repository on disk as the commit window's commands see it:  *)
(* the dirstate and the mergestate between the last commit and the working *)
(* tree, and what each command hgrepository.cpp runs does to them.         *)
(* Mercurial itself is external: every operator here is the effect the     *)
(* callers rely on.  A subrepo's entry in a commit is .hgsubstate's.       *)
(***************************************************************************)
EXTENDS WorkingTree

VARIABLES
    tracked,     \* the files the dirstate has, added ones included
    source,      \* File -> what the dirstate records it as copied from
    unresolved,  \* the files the mergestate lists as conflicted
    mergestate   \* .hg/merge exists

hgState == <<tracked, source, unresolved, mergestate>>
disk == <<log, work, inside, merging, hgState>>

DiskTypeOK ==
    /\ WorkingTreeTypeOK
    /\ tracked \subseteq Files
    /\ source \in [Files -> Files \cup {None}]
    /\ unresolved \subseteq Files
    /\ mergestate \in BOOLEAN

\* `hg status`, file by file: "!", "A", "M", "?" and "R".  A forgotten file is "R"
\* whether it is on disk or not.
IsMissing(p) == p \in tracked /\ work[p] = None
IsAdded(p)   == p \in tracked /\ work[p] # None /\ head[p] = None
IsModified(p) == p \in tracked /\ work[p] # None /\ head[p] \notin {None, work[p]}
IsUnknown(p) == p \notin tracked /\ work[p] # None /\ head[p] = None
IsRemoved(p) == p \notin tracked /\ head[p] # None

ChangedFile(p) == IsMissing(p) \/ IsAdded(p) \/ IsModified(p) \/ IsUnknown(p) \/ IsRemoved(p)
MovedSubrepo(s) == work[s] # head[s]

-------------------------------------------------------------------------------
(* The dirstate after each command.                                          *)

Without(P) == [p \in Files |-> IF p \in P THEN None ELSE source[p]]

\* `hg add`, which adds what it can of the files named and fails where one is not there
CanAdd(P) == \A p \in P : work[p] # None
AfterAdd(P) == tracked \cup {p \in P : work[p] # None}

\* `hg addremove -I "set:unknown() or missing()"` over P
CanAddRemove(P) == \A p \in P : p \in tracked \/ work[p] # None \/ head[p] # None
AfterAddRemove(P) == (tracked \cup {p \in P : IsUnknown(p)}) \ {p \in P : IsMissing(p)}

\* `hg forget`, of the files named that are tracked
AfterForget(P) == tracked \ P

\* `hg revert -C --rev .`: a file the parent does not have is only forgotten
AfterRevert(P) == (tracked \ P) \cup {p \in P : head[p] # None}
Reverted(P) == [p \in Paths |-> IF p \in P /\ head[p] # None THEN head[p] ELSE work[p]]

\* What a commit of P holds; a missing file stays as it was where it is not named.
AfterCommit(P) ==
    [p \in Paths |-> IF p \notin P \/ (p \in Files /\ IsMissing(p)) THEN head[p]
                     ELSE IF p \in Files \ tracked THEN None ELSE work[p]]

CommitChanges(P) ==
    /\ unresolved = {}
    /\ \A s \in P \cap Submodules : inside[s] # "DirtyTracked"
    /\ merging \/ AfterCommit(P) # head

\* A path named must be one it tracks and has, or one removed; a merge is not committed in parts.
CanCommitNamed(P) ==
    /\ CommitChanges(P)
    /\ ~merging
    /\ \A p \in P \cap Files : (p \in tracked \/ IsRemoved(p)) /\ ~IsMissing(p)

\* Without names, of a merge with no file missing.
CanCommitAll == CommitChanges(Paths) /\ (merging => \A p \in Files : ~IsMissing(p))
===============================================================================
