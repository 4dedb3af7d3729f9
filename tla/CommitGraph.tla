------------------------------ MODULE CommitGraph ------------------------------
(***************************************************************************)
(* The lane diagram of commitgraph.cpp.  Commits are listed newest first,  *)
(* each above all its parents, as records of a sha and its parents in      *)
(* order; rows, lanes and chains count from 1 (chains from 0), and the end *)
(* of a segment at the row's own node is 0.                                *)
(***************************************************************************)
EXTENDS Integers, Sequences, SequencesExt, FiniteSets

Node == 0
NoSha == ""
Free == [waitingFor |-> NoSha, chain |-> 0, ahead |-> FALSE]

leftmostFreeLane(lanes) ==
    LET free == SelectInSeq(lanes, LAMBDA lane : lane.waitingFor = NoSha)
    IN  IF free = 0 THEN Len(lanes) + 1 ELSE free

laneWaitingFor(lanes, sha) == SelectInSeq(lanes, LAMBDA lane : lane.waitingFor = sha)

withLane(lanes, l, lane) == IF l > Len(lanes) THEN Append(lanes, lane) ELSE [lanes EXCEPT ![l] = lane]

rowOf(commits, sha) == SelectInSeq(commits, LAMBDA c : c.sha = sha)

(* The commits with a path of child links down to the current one, each    *)
(* row decided from the rows below it.                                     *)
commitsAboveCurrent(commits, current) ==
    LET ahead[i \in 1..Len(commits)] ==
            /\ current # NoSha /\ commits[i].sha # current
            /\ \E parent \in ToSet(commits[i].parents) :
                  parent = current \/ (rowOf(commits, parent) # 0 /\ ahead[rowOf(commits, parent)])
    IN  ahead

segment(from, to, chain, ahead) == [from |-> from, to |-> to, chain |-> chain, ahead |-> ahead]
-----------------------------------------------------------------------------
(* The node takes the lane reserved for it, or the leftmost free one.      *)
placeNode(g, commit) ==
    LET reserved == laneWaitingFor(g.lanes, commit.sha)
        lane == IF reserved = 0 THEN leftmostFreeLane(g.lanes) ELSE reserved
    IN  IF reserved = 0
        THEN [g EXCEPT !.lane = lane, !.chain = g.nextChain, !.nextChain = @ + 1,
                       !.lanes = withLane(@, lane, Free), !.segments = {}]
        ELSE [g EXCEPT !.lane = lane, !.chain = g.lanes[lane].chain, !.lanes[lane] = Free,
                       !.segments = {segment(lane, Node, g.lanes[lane].chain, g.lanes[lane].ahead)}]

ownEdge(g, target) ==
    [g EXCEPT !.segments = @ \cup {segment(Node, target, g.lanes[target].chain, g.ahead)}]

newLine(g, parent, first) ==
    LET target == IF first THEN g.lane ELSE leftmostFreeLane(g.lanes)
        line == [waitingFor |-> parent, chain |-> IF first THEN g.chain ELSE g.nextChain, ahead |-> g.ahead]
    IN  ownEdge([g EXCEPT !.lanes = withLane(@, target, line),
                          !.nextChain = IF first THEN @ ELSE @ + 1], target)

(* The line given up is still waiting. *)
takeLineKept(g, parent, target) ==
    LET given == g.lanes[target]
        line == [waitingFor |-> parent, chain |-> g.chain, ahead |-> given.ahead /\ g.ahead]
    IN  ownEdge([g EXCEPT !.lanes = [@ EXCEPT ![g.lane] = line],
                          !.segments = @ \cup {segment(target, g.lane, given.chain, given.ahead)}],
                g.lane)

(* The line waiting for the first parent gives it up and slants across.    *)
takeLine(g, parent, target) ==
    LET given == g.lanes[target]
        line == [waitingFor |-> parent, chain |-> g.chain, ahead |-> given.ahead /\ g.ahead]
    IN  ownEdge([g EXCEPT !.lanes = [@ EXCEPT ![target] = Free, ![g.lane] = line],
                          !.segments = @ \cup {segment(target, g.lane, given.chain, given.ahead)}],
                g.lane)

joinLine(g, target) == ownEdge([g EXCEPT !.lanes[target].ahead = @ /\ g.ahead], target)

passParent(g, parent, first) ==
    LET target == laneWaitingFor(g.lanes, parent)
    IN  IF target = 0 THEN newLine(g, parent, first)
        ELSE IF first /\ g.lane < target THEN takeLine(g, parent, target)
        ELSE joinLine(g, target)

passParents(g, parents) ==
    LET passed[p \in 0..Len(parents)] ==
            IF p = 0 THEN g ELSE passParent(passed[p - 1], parents[p], p = 1)
    IN  passed[Len(parents)]

(* The lanes still waiting for what they waited for above draw through.    *)
drawThrough(g, above) ==
    [g EXCEPT !.segments = @ \cup
        {segment(l, l, g.lanes[l].chain, g.lanes[l].ahead) :
            l \in {k \in DOMAIN above : /\ above[k].waitingFor # NoSha
                                        /\ g.lanes[k].waitingFor = above[k].waitingFor}}]

nextRow(g, commit, ahead) ==
    drawThrough(passParents(placeNode([g EXCEPT !.ahead = ahead], commit), commit.parents), g.lanes)

(* The rows and the last lanes. *)
buildCommitGraph(commits, current) ==
    LET ahead == commitsAboveCurrent(commits, current)
        start == [lanes |-> <<>>, nextChain |-> 0, lane |-> 0, chain |-> 0, ahead |-> FALSE, segments |-> {}]
        at[i \in 0..Len(commits)] ==
            IF i = 0 THEN <<start>>
            ELSE Append(at[i - 1], nextRow(Last(at[i - 1]), commits[i], ahead[i]))
        built == at[Len(commits)]
    IN  [i \in 1..Len(commits) |->
            [lane |-> built[i + 1].lane, chain |-> built[i + 1].chain, segments |-> built[i + 1].segments,
             ahead |-> ahead[i], current |-> current # NoSha /\ commits[i].sha = current]]

(* The nodes a search leaves, those of one chain joined.  visible holds    *)
(* ascending rows.                                                         *)
filteredCommitGraph(rows, visible) ==
    LET joined(r, s) == rows[visible[r]].chain = rows[visible[s]].chain
    IN  [r \in DOMAIN visible |->
            LET row == rows[visible[r]]
            IN  [row EXCEPT !.segments =
                    {[from |-> row.lane, to |-> Node, elided |-> visible[r - 1] # visible[r] - 1,
                      ahead |-> row.ahead \/ row.current] :
                        k \in {j \in {r} : j > 1 /\ joined(r, j - 1)}}
                    \cup
                    {[from |-> Node, to |-> row.lane, elided |-> visible[r + 1] # visible[r] + 1,
                      ahead |-> row.ahead] :
                        k \in {j \in {r} : j < Len(visible) /\ joined(r, j + 1)}}]]
-----------------------------------------------------------------------------
(* What the diagram shows, read off its segments. *)

(* The rows the line entering row k in this lane ends at; one past the     *)
(* last where it runs off the bottom edge.                                 *)
endsOfLine(rows, k, lane) ==
    LET ends[at \in (1..Len(rows) + 1) \X Nat] ==
            IF at[1] > Len(rows) THEN {at[1]}
            ELSE UNION {IF s.to = Node THEN {at[1]} ELSE ends[<<at[1] + 1, s.to>>] :
                           s \in {x \in rows[at[1]].segments : x.from = at[2]}}
    IN  ends[<<k, lane>>]

(* Lines neither begin nor end between two rows, and none forks. *)
LinesJoin(rows) ==
    \A k \in 1..Len(rows) :
        LET entering == {s \in rows[k].segments : s.from # Node}
        IN  /\ {s.from : s \in entering} =
                  IF k = 1 THEN {} ELSE {s.to : s \in rows[k - 1].segments} \ {Node}
            /\ \A s, t \in entering : s.from = t.from => s = t
            /\ \A s \in entering : s.to = Node => s.from = rows[k].lane

(* Each row's lines end at its parents: one for each, below the listing    *)
(* where the listing does not hold it.                                     *)
LinesReachParents(commits, rows) ==
    \A i \in 1..Len(commits) :
        LET own == {s \in rows[i].segments : s.from = Node}
            row(parent) == IF rowOf(commits, parent) = 0 THEN Len(commits) + 1 ELSE rowOf(commits, parent)
        IN  /\ UNION {endsOfLine(rows, i + 1, s.to) : s \in own} = {row(p) : p \in ToSet(commits[i].parents)}
            /\ Cardinality(own) = Len(commits[i].parents)

Descendants(commits, i) ==
    LET above[k \in 0..i] ==
            IF k = 0 THEN {i}
            ELSE above[k - 1] \cup
                 {j \in 1..i : \E p \in ToSet(commits[j].parents) : rowOf(commits, p) \in above[k - 1]}
    IN  above[i]

(* The rows whose edges run down the line leaving row k in this lane. *)
CarriedRows(rows, k, lane) ==
    LET carried[at \in (0..Len(rows)) \X Nat] ==
            IF at[1] = 0 THEN {}
            ELSE UNION {IF s.from = Node THEN {at[1]} ELSE carried[<<at[1] - 1, s.from>>] :
                           s \in {x \in rows[at[1]].segments : x.to = at[2]}}
    IN  carried[<<k, lane>>]

(* The commits above the current one are those descending from it, and a   *)
(* line is marked so where all its edges are theirs; one joined in a row   *)
(* may lose the mark in that row already.                                  *)
AheadIsNew(commits, current, rows) ==
    LET at == rowOf(commits, current)
        new == IF at = 0 THEN {} ELSE Descendants(commits, at) \ {at}
    IN  \A k \in 1..Len(rows) :
            /\ rows[k].ahead <=> k \in new
            /\ \A s \in {x \in rows[k].segments : x.from # Node} :
                  LET entering == CarriedRows(rows, k - 1, s.from)
                      leaving == IF s.to = Node THEN entering ELSE CarriedRows(rows, k, s.to)
                  IN  /\ s.ahead => entering \subseteq new
                      /\ leaving \subseteq new => s.ahead

(* "A chain is one first-parent path, so two commits sharing one are       *)
(* ancestor and descendant, and a chain holds a single lane."              *)
ChainsAreLines(commits, rows) ==
    \A i, j \in 1..Len(commits) :
        i < j /\ rows[i].chain = rows[j].chain =>
            /\ i \in Descendants(commits, j)
            /\ rows[i].lane = rows[j].lane

(* The joins of a filtered diagram meet, in one lane, between a commit and *)
(* the next shown of its chain, and say whether rows are hidden between.   *)
FilteredJoins(commits, rows, visible, shown) ==
    \A r \in 1..Len(visible) - 1 :
        LET leaving == {s \in shown[r].segments : s.from = Node}
            entering == {s \in shown[r + 1].segments : s.to = Node}
        IN  /\ {s.to : s \in leaving} = {s.from : s \in entering}
            /\ {s.elided : s \in leaving} = {s.elided : s \in entering}
            /\ leaving # {} => /\ visible[r] \in Descendants(commits, visible[r + 1])
                               /\ shown[r + 1].current => \A s \in leaving : s.ahead
=============================================================================
