------------------------- MODULE RecentRepositories -------------------------
(***************************************************************************)
(* recentrepositories.cpp: what each operation makes of the stored list.   *)
(* Every operation reads the whole list, computes the next one and writes  *)
(* it as one value; the reading and the writing are steps of               *)
(* RepositoryWindows, the computing is here.                               *)
(*                                                                         *)
(* A root is a spelling: Directory gives the directory it leads to when it *)
(* leads anywhere, and two roots may be aliases of one.  PassesThrough[r]  *)
(* is what has to be on the disk for that: the directory itself, those it  *)
(* lies in, the links on the way.  Nested(r) are the paths a repository    *)
(* rooted at r may declare as submodules, SubmoduleRoot[<<r, path>>] the   *)
(* root each composes.  Time is counted in openings.                       *)
(***************************************************************************)
EXTENDS Integers, Sequences, SequencesExt, FiniteSets

CONSTANTS Roots, Paths, Directory, PassesThrough, SubmoduleRoot, MaxRecent

ASSUME RootsAssumption ==
    /\ SubmoduleRoot \in [DOMAIN SubmoduleRoot -> Roots]
    /\ DOMAIN SubmoduleRoot \subseteq Roots \X Paths
    /\ DOMAIN Directory = Roots /\ DOMAIN PassesThrough = Roots
    /\ MaxRecent \in Nat \ {0}

Nested(r) == {path \in Paths : <<r, path>> \in DOMAIN SubmoduleRoot}

Entry == [root : Roots, submodules : SUBSET Paths, lastUsed : Nat]

submoduleRoots(entry) ==
    {SubmoduleRoot[<<entry.root, path>>] : path \in entry.submodules \cap Nested(entry.root)}

(* A path leads to a directory, whose identity then answers for it. *)
resolves(r, onDisk) == PassesThrough[r] \subseteq onDisk

(* A parent that is gone from the disk hides nothing. *)
claimsSubmoduleAt(entry, root, onDisk) ==
    root \in submoduleRoots(entry) /\ resolves(entry.root, onDisk)

(* A path that leads nowhere is only the same as itself, though its        *)
(* directory may be there still by another.                                *)
sameDirectoryOnDisk(r, s, onDisk) ==
    r = s \/ (Directory[r] = Directory[s] /\ resolves(r, onDisk) /\ resolves(s, onDisk))

rootsOf(list) == {list[i].root : i \in DOMAIN list}

(* Stable: entries of one timestamp keep the order they are in. *)
sortByLastUsed(list) ==
    LET before(i, j) == \/ list[i].lastUsed > list[j].lastUsed
                        \/ list[i].lastUsed = list[j].lastUsed /\ i < j
        place(i) == Cardinality({j \in DOMAIN list : before(j, i)})
    IN  [k \in DOMAIN list |-> list[CHOOSE i \in DOMAIN list : place(i) = k - 1]]

capped(list) == SubSeq(list, 1, IF Len(list) < MaxRecent THEN Len(list) ELSE MaxRecent)

bumped(list, i, entry) == <<entry>> \o RemoveAt(list, i)

(* The submodule of a listed repository bumps that repository; a directory *)
(* already listed moves to the front under the spelling just opened.       *)
recordOpen(list, root, now, onDisk) ==
    LET parent == SelectInSeq(list, LAMBDA e : claimsSubmoduleAt(e, root, onDisk))
        existing == SelectInSeq(list, LAMBDA e : sameDirectoryOnDisk(e.root, root, onDisk))
    IN  IF parent # 0
        THEN bumped(list, parent, [list[parent] EXCEPT !.lastUsed = now])
        ELSE IF existing # 0
        THEN bumped(list, existing, [list[existing] EXCEPT !.root = root, !.lastUsed = now])
        ELSE capped(<<[root |-> root, submodules |-> {}, lastUsed |-> now]>> \o list)

(* Each candidate is held against the list as the ones before it left it.  *)
(* The cap falls on the oldest of the merged list.                         *)
recordFound(list, found, onDisk) ==
    LET listed(l, root) == \E i \in DOMAIN l : \/ l[i].root = root
                                               \/ claimsSubmoduleAt(l[i], root, onDisk)
        merged[k \in 0..Len(found)] ==
            IF k = 0 THEN list
            ELSE IF listed(merged[k - 1], found[k].root) THEN merged[k - 1]
            ELSE Append(merged[k - 1], found[k])
        all == merged[Len(found)]
    IN  IF all = list THEN list ELSE capped(sortByLastUsed(all))

without(list, roots) ==
    FlattenSeq([k \in DOMAIN list |-> IF list[k].root \in roots THEN <<>> ELSE <<list[k]>>])

(* What the parent declared before shadows still. *)
setSubmodulesStale(list, root, submodules) ==
    LET at == SelectInSeq(list, LAMBDA e : e.root = root)
    IN  IF at = 0 THEN list
        ELSE without([list EXCEPT ![at].submodules = submodules], submoduleRoots(list[at]) \ {root})

(* The submodules a refresh read replace the recorded ones, and top-level  *)
(* entries they shadow are dropped.  Matched by spelling.                  *)
setSubmodules(list, root, submodules) ==
    LET at == SelectInSeq(list, LAMBDA e : e.root = root)
        parent == [list[at] EXCEPT !.submodules = submodules]
    IN  IF at = 0 THEN list
        ELSE without([list EXCEPT ![at] = parent], submoduleRoots(parent) \ {root})

forget(list, root) ==
    LET at == SelectInSeq(list, LAMBDA e : e.root = root)
    IN  IF at = 0 THEN list ELSE RemoveAt(list, at)
=============================================================================
