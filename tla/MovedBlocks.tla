------------------------------ MODULE MovedBlocks ------------------------------
(***************************************************************************)
(* movedblocks.cpp: the blocks a diff removes in one place and adds in     *)
(* another.  Lines are records of a text and the side they are on; indices *)
(* count from 1, and ranges are kept by their first line and their count.  *)
(***************************************************************************)
EXTENDS TextDiff, FiniteSets

CONSTANTS MinMovedBlockContentLines, MinMovedBlockAlnumChars, MaxMovedBlockGap,
          MinEditedEndSimilarity, MaxBlockStartCandidates

trimmed(text) ==
    LET content == {k \in DOMAIN text : text[k] \notin Spaces}
    IN  IF content = {} THEN <<>>
        ELSE SubSeq(text, CHOOSE k \in content : \A j \in content : k <= j,
                          CHOOSE k \in content : \A j \in content : k >= j)

alnumCount(text) == FoldLeft(LAMBDA n, token : IF token \in Words THEN n + Width[token] ELSE n, 0, text)

removedAt(lines, i) == i \in DOMAIN lines /\ lines[i].side = "Removed"
addedAt(lines, taken, i) == i \in DOMAIN lines /\ lines[i].side = "Added" /\ i \notin taken
same(lines, r, a) == trimmed(lines[r].text) = trimmed(lines[a].text)
hasContent(lines, i) == \E token \in ToSet(lines[i].text) : token \in Words

(* The removed lines equal to an added one, ascending; none where it seeds *)
(* no block.                                                               *)
seedCopies(lines, taken, a) ==
    LET copies == SetToSortSeq({r \in DOMAIN lines : removedAt(lines, r) /\ same(lines, r, a)}, <)
    IN  IF ~addedAt(lines, taken, a) \/ ~hasContent(lines, a) \/ Len(copies) > MaxBlockStartCandidates
        THEN <<>> ELSE copies

NoAnchor == <<0, 0>>

(* The fewest lines past, then the fewest of the removed side. *)
nearest(distances) ==
    CHOOSE d \in distances :
        \A e \in distances : d[1] + d[2] < e[1] + e[2] \/ (d[1] + d[2] = e[1] + e[2] /\ d[1] <= e[1])

(* The nearest anchor past (r, a): within the gap of either side, the      *)
(* lines up to it still the block's kind.                                  *)
nextAnchor(lines, taken, r, a, step) ==
    LET reach(At(_)) ==
            CHOOSE n \in 0..MaxMovedBlockGap :
                /\ \A k \in 1..n : At(k)
                /\ n < MaxMovedBlockGap => ~At(n + 1)
        removedReach == reach(LAMBDA k : removedAt(lines, r + step * k))
        addedReach == reach(LAMBDA k : addedAt(lines, taken, a + step * k))
        anchors == {d \in (0..removedReach) \X (0..addedReach) :
                       /\ d[1] + d[2] > 0
                       /\ hasContent(lines, r + step * d[1])
                       /\ same(lines, r + step * d[1], a + step * d[2])}
        at(d) == <<r + step * d[1], a + step * d[2]>>
    IN  IF anchors = {} THEN NoAnchor ELSE at(nearest(anchors))

pair(r, a, edited) == [removed |-> r, added |-> a, edited |-> edited]

(* The lines between two anchors, in the order walked. *)
pairGap(lines, r, a, anchor, step) ==
    LET firstRemoved == IF step > 0 THEN r ELSE anchor[1] + 1
        firstAdded == IF step > 0 THEN a ELSE anchor[2] + 1
        removedCount == IF step > 0 THEN anchor[1] - r ELSE r - anchor[1]
        addedCount == IF step > 0 THEN anchor[2] - a ELSE a - anchor[2]
        textsFrom(first, count) == [k \in 1..count |-> lines[first + k - 1].text]
        placed(found) == [k \in DOMAIN found |->
                             pair(firstRemoved + found[k].left - 1, firstAdded + found[k].right - 1, TRUE)]
        walked(gap) == IF step > 0 THEN gap ELSE Reverse(gap)
    IN  walked(placed(pairSimilarLines(textsFrom(firstRemoved, removedCount), textsFrom(firstAdded, addedCount))))

(* An anchor, the nearest anchor within a gap, or a line alike enough. *)
extend(lines, taken, r0, a0, step) ==
    LET pairs[at \in (0..Len(lines) + 1) \X (0..Len(lines) + 1)] ==
            LET r == at[1]
                a == at[2]
                past(anchor) ==
                    IF anchor # NoAnchor
                    THEN pairGap(lines, r, a, anchor, step) \o <<pair(anchor[1], anchor[2], FALSE)>>
                         \o pairs[<<anchor[1] + step, anchor[2] + step>>]
                    ELSE IF alignTokens(lines[r].text, lines[a].text).similarity >= MinEditedEndSimilarity
                         THEN <<pair(r, a, TRUE)>> \o pairs[<<r + step, a + step>>]
                    ELSE <<>>
            IN  IF ~removedAt(lines, r) \/ ~addedAt(lines, taken, a) THEN <<>>
                ELSE IF same(lines, r, a) THEN <<pair(r, a, FALSE)>> \o pairs[<<r + step, a + step>>]
                ELSE past(nextAnchor(lines, taken, r, a, step))
    IN  pairs[<<r0, a0>>]

blockOf(pairs) ==
    [removedFirst |-> Head(pairs).removed, removedCount |-> Last(pairs).removed - Head(pairs).removed + 1,
     addedFirst |-> Head(pairs).added, addedCount |-> Last(pairs).added - Head(pairs).added + 1,
     pairs |-> pairs]

(* The block is grown downwards from its seed only. *)
growDown(lines, taken, r, a) ==
    blockOf(<<pair(r, a, FALSE)>> \o extend(lines, taken, r + 1, a + 1, 1))

grow(lines, taken, r, a) ==
    blockOf(Reverse(extend(lines, taken, r - 1, a - 1, -1)) \o <<pair(r, a, FALSE)>>
            \o extend(lines, taken, r + 1, a + 1, 1))

(* Its exact pairs of lines with content. *)
anchorsOf(lines, block) ==
    SelectSeq(block.pairs, LAMBDA p : ~p.edited /\ hasContent(lines, p.removed))
isEnough(lines, block) ==
    LET anchors == anchorsOf(lines, block)
    IN  /\ Len(anchors) >= MinMovedBlockContentLines
        /\ FoldLeft(LAMBDA n, p : n + alnumCount(lines[p.removed].text), 0, anchors) >= MinMovedBlockAlnumChars

removedEnd(block) == block.removedFirst + block.removedCount
addedEnd(block) == block.addedFirst + block.addedCount

(* What the copies of an added line grow to, where that is enough. *)
candidatesFrom(lines, taken, a) ==
    LET grown(copies) == [k \in DOMAIN copies |-> grow(lines, taken, copies[k], a)]
    IN  SelectSeq(grown(seedCopies(lines, taken, a)), LAMBDA block : isEnough(lines, block))

(* The block of the most anchors, the first of them. *)
bestOf(lines, candidates) ==
    LET count(k) == Len(anchorsOf(lines, candidates[k]))
    IN  candidates[CHOOSE k \in DOMAIN candidates :
                      \A j \in DOMAIN candidates : count(j) < count(k) \/ (count(j) = count(k) /\ k <= j)]

(* It with its copies: those of the same added lines, the ones inside one  *)
(* another's removed lines but for the first.                              *)
copiesOf(best, candidates) ==
    LET alike == SelectSeq(candidates, LAMBDA block : block.addedFirst = best.addedFirst
                                                      /\ block.addedCount = best.addedCount)
    IN  FoldLeft(LAMBDA kept, block :
                    IF kept # <<>> /\ block.removedFirst < removedEnd(Last(kept)) THEN kept
                    ELSE Append(kept, block),
                 <<>>, SortSeq(alike, LAMBDA x, y : x.removedFirst < y.removedFirst))

(* Past a block, from each added line that seeds one. *)
ungroupedBlocks(lines) ==
    LET from[at \in (1..Len(lines) + 1) \X SUBSET DOMAIN lines] ==
            LET a == at[1]
                taken == at[2]
                past(block) == from[<<addedEnd(block), taken \cup (block.addedFirst..addedEnd(block) - 1)>>]
                taking(candidates) ==
                    IF candidates = <<>> THEN from[<<a + 1, taken>>]
                    ELSE copiesOf(bestOf(lines, candidates), candidates) \o past(bestOf(lines, candidates))
            IN  IF a > Len(lines) THEN <<>> ELSE taking(candidatesFrom(lines, taken, a))
    IN  from[<<1, {}>>]

overlap(x, y) ==
    \/ x.removedFirst < removedEnd(y) /\ y.removedFirst < removedEnd(x)
    \/ x.addedFirst < addedEnd(y) /\ y.addedFirst < addedEnd(x)

root(parent, b) ==
    LET up[k \in DOMAIN parent] == IF parent[k] = k THEN k ELSE up[parent[k]] IN up[b]

unite(parent, i, j) == [parent EXCEPT ![root(parent, j)] = root(parent, i)]

(* The root block of each, the overlapping ones united in the code's order. *)
groupRoots(blocks) ==
    LET n == Len(blocks)
        pairs == SetToSortSeq({p \in (1..n) \X (1..n) : p[2] < p[1] /\ overlap(blocks[p[2]], blocks[p[1]])},
                              LAMBDA p, q : p[1] < q[1] \/ (p[1] = q[1] /\ p[2] < q[2]))
        united == FoldLeft(LAMBDA parent, p : unite(parent, p[2], p[1]), [b \in 1..n |-> b], pairs)
    IN  [b \in 1..n |-> root(united, b)]

(* Numbered from 0 in the order the groups appear. *)
numbered(blocks, roots) ==
    LET number(b) == Cardinality({roots[k] : k \in 1..(CHOOSE k \in 1..b : /\ roots[k] = roots[b]
                                                          /\ \A j \in 1..k - 1 : roots[j] # roots[b])}) - 1
    IN  [b \in DOMAIN blocks |-> blocks[b] @@ [group |-> number(b)]]

grouped(blocks) == numbered(blocks, groupRoots(blocks))

detectMovedBlocks(lines) == grouped(ungroupedBlocks(lines))
-----------------------------------------------------------------------------
(* Reference definitions. *)
AddedLines(block) == block.addedFirst..addedEnd(block) - 1
RemovedLines(block) == block.removedFirst..removedEnd(block) - 1

(* A block is a range of each side, bounded by its first and last pair,    *)
(* the pairs ascending on both; and an added line is in one place.         *)
BlocksAreRanges(lines, blocks) ==
    /\ \A b \in DOMAIN blocks :
          LET block == blocks[b]
          IN  /\ \A i \in RemovedLines(block) : removedAt(lines, i)
              /\ \A i \in AddedLines(block) : addedAt(lines, {}, i)
              /\ \A k \in 1..Len(block.pairs) - 1 :
                    /\ block.pairs[k].removed < block.pairs[k + 1].removed
                    /\ block.pairs[k].added < block.pairs[k + 1].added
    /\ \A b, c \in DOMAIN blocks :
          b < c => \/ addedEnd(blocks[b]) <= blocks[c].addedFirst
                   \/ AddedLines(blocks[b]) = AddedLines(blocks[c])
                      /\ removedEnd(blocks[b]) <= blocks[c].removedFirst

(* Lines moved as they are, enough of them, are seen where one of them     *)
(* could seed a block.                                                     *)
ExactMovesAreFound(lines, blocks) ==
    \A r, a \in DOMAIN lines, n \in 1..Len(lines) :
        LET run == [k \in 1..n |-> pair(r + k - 1, a + k - 1, FALSE)]
        IN  /\ \A k \in 0..n - 1 : removedAt(lines, r + k) /\ addedAt(lines, {}, a + k) /\ same(lines, r + k, a + k)
            /\ isEnough(lines, blockOf(run))
            /\ \E k \in 0..n - 1 : seedCopies(lines, {}, a + k) # <<>>
            => \E b \in DOMAIN blocks : AddedLines(blocks[b]) \cap (a..a + n - 1) # {}

(* One group for the blocks a chain of overlaps connects. *)
GroupsAreConnected(blocks) ==
    LET near[k \in 0..Len(blocks), b \in DOMAIN blocks] ==
            IF k = 0 THEN {b}
            ELSE near[k - 1, b] \cup {c \in DOMAIN blocks : \E d \in near[k - 1, b] : overlap(blocks[c], blocks[d])}
    IN  \A b, c \in DOMAIN blocks :
            blocks[b].group = blocks[c].group <=> c \in near[Len(blocks), b]
=============================================================================
