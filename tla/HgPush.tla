-------------------------------- MODULE HgPush --------------------------------
(***************************************************************************)
(* What a Mercurial push plans (planPush of hgrepository.cpp): the whole   *)
(* branch, the changesets of one line one by one, or one of that line.     *)
(* Changesets are rows of a listing, newest first; below[i] are those a    *)
(* changeset has, itself included (`::i`), and parents[i] its parents in   *)
(* order, 0 one the listing lacks; phase gives each "public", "draft" or   *)
(* "secret", no lower than its parents'; dot is the working directory's    *)
(* parent.                                                                 *)
(***************************************************************************)
EXTENDS CommitGraph

History(commits) ==
    LET parents == [i \in DOMAIN commits |->
                      [k \in DOMAIN commits[i].parents |-> rowOf(commits, commits[i].parents[k])]]
        below[i \in 0..Len(commits)] ==
            IF i = 0 THEN {} ELSE {i} \cup UNION {below[p] : p \in ToSet(parents[i])}
    IN  [parents |-> parents, below |-> [i \in DOMAIN commits |-> below[i]]]

heads(h, set) == {i \in set : \A j \in set : i \in h.below[j] => i = j}
roots(h, set) == {i \in set : h.below[i] \cap set = {i}}
descendants(h, set) == {i \in DOMAIN h.below : h.below[i] \cap set # {}}
OfPhase(set, phase, p) == {i \in set : phase[i] = p}

(* The drafts below dot, wherever they start. *)
pushCandidatesAll(h, phase, dot) == OfPhase(h.below[dot], phase, "draft")

(* OneByOnePushCandidatesRevset. *)
pushCandidates(h, phase, dot) ==
    LET below == h.below[dot]
    IN  OfPhase(below, phase, "draft")
        \cap descendants(h, heads(h, OfPhase(below, phase, "public"))
                            \cup OfPhase(roots(h, below), phase, "draft"))

(* From the newest candidate, oldest first. *)
firstParentLineOldestFirst(h, candidates) ==
    LET firstParent(i) == IF h.parents[i] = <<>> THEN 0 ELSE h.parents[i][1]
        line[i \in 0..Len(h.parents)] ==
            IF i \in candidates THEN Append(line[firstParent(i)], i) ELSE <<>>
    IN  IF candidates = {} THEN <<>> ELSE line[CHOOSE i \in candidates : \A j \in candidates : i <= j]

oneByOneLine(h, phase, dot) == firstParentLineOldestFirst(h, pushCandidates(h, phase, dot))

(* The answer to a push of one changeset: its step, or the cause it is     *)
(* refused for.                                                            *)
planUpTo(h, phase, dot, node) ==
    IF node \in ToSet(oneByOneLine(h, phase, dot)) THEN "Planned"
    ELSE IF node \notin h.below[dot] THEN "NotAnAncestor"
    ELSE CASE phase[node] = "public" -> "Public"
           [] phase[node] = "draft" -> "OffTheLine"
           [] phase[node] = "secret" -> "Secret"
-----------------------------------------------------------------------------
(* Each changeset of the line, pushed when the earlier ones are, replaces  *)
(* a head of what is public, and brings along no other of the line.        *)
StepsReplaceHeads(h, phase, dot) ==
    LET line == oneByOneLine(h, phase, dot)
        public == OfPhase(h.below[dot], phase, "public")
        before(k) == public \cup UNION {h.below[line[j]] : j \in 1..k - 1}
    IN  \A k \in DOMAIN line :
            /\ before(k) # {} => heads(h, before(k)) \cap h.below[line[k]] # {}
            /\ line[k] \notin before(k)
            /\ \A j \in DOMAIN line : line[j] \in h.below[line[k]] => j <= k

(* Where dot is not secret, the line publishes every draft below it, and   *)
(* one refused as off the line comes with a merge that is on it.           *)
LinePublishesAll(h, phase, dot) ==
    LET line == oneByOneLine(h, phase, dot)
    IN  phase[dot] # "secret" =>
          \A i \in OfPhase(h.below[dot], phase, "draft") :
              \E j \in ToSet(line) :
                 /\ i \in h.below[j]
                 /\ planUpTo(h, phase, dot, i) = "OffTheLine" => Len(h.parents[j]) > 1
=============================================================================
