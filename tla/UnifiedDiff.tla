------------------------------ MODULE UnifiedDiff ------------------------------
(***************************************************************************)
(* unifieddiff.cpp: a diff read into the lines shown for it.  A line read  *)
(* is a record of its mark ("@@", " ", "+", "-", "\\", "diff" for the      *)
(* first header of a file's section, "other" for any other line outside a  *)
(* hunk, "rest" for a line cut off by a terminator within it), its tokens  *)
(* past the mark, and the line numbers a hunk header starts at.  The marks *)
(* within the lines of an edited move are left out.                        *)
(***************************************************************************)
EXTENDS MovedBlocks

CONSTANTS BaseInlineChanges, CharsPerExtraInlineChange, MaxInlineChanges

diffLine(kind, old, new) == [kind |-> kind, oldLine |-> old, newLine |-> new]

(* The scanner's state x after a line, its last line with it. *)
classify(x, line) ==
    CASE line.mark = "rest" -> [x EXCEPT !.line = diffLine(x.line.kind, 0, 0)]
      [] line.mark = "@@" ->
            [old |-> line.start[1], new |-> line.start[2], inHunk |-> TRUE, line |-> diffLine("HunkHeader", 0, 0)]
      [] ~x.inHunk /\ line.mark \notin {"rest", "@@"} -> [x EXCEPT !.line = diffLine("FileHeader", 0, 0)]
      [] x.inHunk /\ line.mark = " " ->
            [x EXCEPT !.line = diffLine("Context", x.old, x.new), !.old = @ + 1, !.new = @ + 1]
      [] x.inHunk /\ line.mark = "+" -> [x EXCEPT !.line = diffLine("Added", 0, x.new), !.new = @ + 1]
      [] x.inHunk /\ line.mark = "-" -> [x EXCEPT !.line = diffLine("Removed", x.old, 0), !.old = @ + 1]
      [] x.inHunk /\ line.mark = "\\" -> [x EXCEPT !.line = diffLine("NoNewline", 0, 0)]
      [] OTHER -> [x EXCEPT !.line = diffLine("FileHeader", 0, 0), !.inHunk = FALSE]

scanDiff(read) ==
    LET start == [old |-> 0, new |-> 0, inHunk |-> FALSE, line |-> diffLine("FileHeader", 0, 0)]
        at[i \in 0..Len(read)] == IF i = 0 THEN start ELSE classify(at[i - 1], read[i])
    IN  [i \in 1..Len(read) |-> at[i].line]

isContinuation(line) == line.mark = "rest"

changeLinesOf(read, lines) ==
    [i \in DOMAIN read |->
        IF ~isContinuation(read[i]) /\ lines[i].kind \in {"Removed", "Added"}
        THEN [text |-> read[i].text, side |-> lines[i].kind]
        ELSE [text |-> <<>>, side |-> "None"]]
-----------------------------------------------------------------------------
(* A line shown, the lines read it is for, and the parts of it one side of *)
(* an edit has: their sides, in order.                                     *)
asRead(lines, k) == lines[k] @@ [from |-> {k}, spans |-> <<>>]
asReadAll(lines, first, end) == [n \in 1..end - first |-> asRead(lines, first + n - 1)]

sizeOf(text) == FoldLeft(LAMBDA n, token : n + Width[token], 1, text)
maxInlineChanges(size) == Smaller(BaseInlineChanges + size \div CharsPerExtraInlineChange, MaxInlineChanges)

changeCount(segments) ==
    Cardinality({k \in DOMAIN segments :
                    segments[k].kind # "Common" /\ (k = 1 \/ segments[k - 1].kind = "Common")})

(* One line where that reads, the diff's own two where it does not. *)
pairShown(read, lines, r, a, segments) ==
    LET changes == SelectSeq(segments, LAMBDA s : s.kind # "Common")
    IN  IF changeCount(segments) <= maxInlineChanges(Larger(sizeOf(read[r].text), sizeOf(read[a].text)))
        THEN <<diffLine("Edited", lines[r].oldLine, lines[a].newLine)
               @@ [from |-> {r, a}, spans |-> [k \in DOMAIN changes |-> changes[k].kind]]>>
        ELSE <<asRead(lines, r), asRead(lines, a)>>

appendPair(read, lines, r, a) ==
    pairShown(read, lines, r, a, alignTokens(read[r].text, read[a].text).segments)

contents(read, first, end) == [n \in 1..end - first |-> read[first + n - 1].text]

(* The lines without a counterpart, up to r and a. *)
appendUnpairedUpTo(x, lines, r, a) ==
    [shown |-> x.shown \o asReadAll(lines, x.r, r) \o asReadAll(lines, x.a, a), r |-> r, a |-> a]

(* The lines that have no counterpart come after all the pairs. *)
appendRunPairsFirst(read, lines, removedBegin, removedLast, addedBegin, addedLast) ==
    LET unpaired(pairs, first, last, number(_)) ==
            SetToSortSeq({k \in first..last - 1 : \A p \in DOMAIN pairs : number(pairs[p]) # k - first + 1}, <)
        shownFor(pairs) ==
            FlattenSeq([p \in DOMAIN pairs |->
                appendPair(read, lines, removedBegin + pairs[p].left - 1, addedBegin + pairs[p].right - 1)])
            \o [n \in DOMAIN unpaired(pairs, removedBegin, removedLast, LAMBDA p : p.left) |->
                   asRead(lines, unpaired(pairs, removedBegin, removedLast, LAMBDA p : p.left)[n])]
            \o [n \in DOMAIN unpaired(pairs, addedBegin, addedLast, LAMBDA p : p.right) |->
                   asRead(lines, unpaired(pairs, addedBegin, addedLast, LAMBDA p : p.right)[n])]
    IN  shownFor(pairSimilarLines(contents(read, removedBegin, removedLast), contents(read, addedBegin, addedLast)))

appendRun(read, lines, removedBegin, removedLast, addedBegin, addedLast) ==
    LET withPair(x, r, a) ==
            [shown |-> appendUnpairedUpTo(x, lines, r, a).shown \o appendPair(read, lines, r, a),
             r |-> r + 1, a |-> a + 1]
        paired == FoldLeft(LAMBDA x, p : withPair(x, removedBegin + p.left - 1, addedBegin + p.right - 1),
                           [shown |-> <<>>, r |-> removedBegin, a |-> addedBegin],
                           pairSimilarLines(contents(read, removedBegin, removedLast),
                                            contents(read, addedBegin, addedLast)))
    IN  appendUnpairedUpTo(paired, lines, removedLast, addedLast).shown

(* The first line from i on, of n, that is not in the set. *)
EndOfRun(i, n, set) == CHOOSE e \in i..n + 1 : i..e - 1 \subseteq set /\ e \notin set

linesShown(read, lines, moved, mergeEdits) ==
    LET n == Len(lines)
        pairable(kind) == {k \in 1..n : mergeEdits /\ lines[k].kind = kind /\ ~isContinuation(read[k])} \ moved
        from[i \in 1..n + 1] ==
            IF i > n THEN <<>>
            ELSE IF i \notin pairable("Removed") THEN <<asRead(lines, i)>> \o from[i + 1]
            ELSE LET removedLast == EndOfRun(i, n, pairable("Removed"))
                     marked == /\ removedLast < n
                               /\ lines[removedLast].kind = "NoNewline" /\ lines[removedLast + 1].kind = "Added"
                     addedBegin == IF marked THEN removedLast + 1 ELSE removedLast
                     addedLast == EndOfRun(addedBegin, n, pairable("Added"))
                 IN  appendRun(read, lines, i, removedLast, addedBegin, addedLast)
                     \o (IF marked THEN <<asRead(lines, removedLast)>> ELSE <<>>)
                     \o from[addedLast]
    IN  from[1]

lineShownFor(shown, k) == SelectInSeq(shown, LAMBDA line : k \in line.from)

NoForeign == [file |-> 0, line |-> 0, below |-> FALSE]

removedOf(m) == {m.removedFirst + k : k \in 0..m.removedCount - 1}
addedOf(m) == {m.addedFirst + k : k \in 0..m.addedCount - 1}
MovedLines(moves) == UNION {removedOf(moves[m]) \cup addedOf(moves[m]) : m \in DOMAIN moves}

(* The moves as ranges of the lines shown. *)
movesShown(shown, moves) ==
    [m \in DOMAIN moves |->
        [removedFirst |-> IF moves[m].removedCount > 0 THEN lineShownFor(shown, moves[m].removedFirst) ELSE 0,
         removedCount |-> moves[m].removedCount,
         addedFirst |-> IF moves[m].addedCount > 0 THEN lineShownFor(shown, moves[m].addedFirst) ELSE 0,
         addedCount |-> moves[m].addedCount, group |-> moves[m].group, foreign |-> moves[m].foreign]]

markMoved(shown, moves) ==
    [lines |-> [k \in DOMAIN shown |-> shown[k] @@ [moved |-> k \in MovedLines(moves)]], moves |-> moves]
rendered(shown, moves) == markMoved(shown, movesShown(shown, moves))

(* moves: a block in the lines read, a range in another file empty, and    *)
(* where that end is.                                                      *)
render(read, lines, moves, mergeEdits) ==
    rendered(linesShown(read, lines, MovedLines(moves), mergeEdits), moves)

local(block) == block @@ [foreign |-> NoForeign]

withLocal(blocks) == [b \in DOMAIN blocks |-> local(blocks[b])]

parseUnifiedDiff(read) ==
    render(read, scanDiff(read), withLocal(detectMovedBlocks(changeLinesOf(read, scanDiff(read)))), TRUE)

parseRawUnifiedDiff(read) == render(read, scanDiff(read), <<>>, FALSE)
-----------------------------------------------------------------------------
(* A whole change: each file's section, cut at the headers, its lines      *)
(* counted on from the sections above it.                                  *)
sectionsOf(read) ==
    LET starts == SetToSortSeq({i \in DOMAIN read : read[i].mark = "diff"}, <)
        endOf(f) == IF f = Len(starts) THEN Len(read) + 1 ELSE starts[f + 1]
    IN  [f \in DOMAIN starts |-> [diff |-> SubSeq(read, starts[f], endOf(f) - 1), first |-> starts[f] - starts[1]]]

linesInSequence(files) ==
    FoldLeft(LAMBDA lines, file : lines \o changeLinesOf(file.diff, scanDiff(file.diff)), <<>>, files)

changeSet(read) == [files |-> sectionsOf(read), moves |-> detectMovedBlocks(linesInSequence(sectionsOf(read)))]

fileOfLine(set, line) ==
    CHOOSE f \in DOMAIN set.files :
        /\ set.files[f].first < line
        /\ f < Len(set.files) => line <= set.files[f + 1].first

foreignEnd(set, f, line) ==
    LET there == fileOfLine(set, line)
    IN  [file |-> there, line |-> line - set.files[there].first, below |-> there > f]

(* One section, with the moves of the set that touch it. *)
parseSection(set, f) ==
    LET here == set.files[f]
        isHere(line) == fileOfLine(set, line) = f
        touching == SelectSeq(set.moves, LAMBDA b : isHere(b.removedFirst) \/ isHere(b.addedFirst))
        cut(b) ==
            [b EXCEPT !.removedFirst = IF isHere(@) THEN @ - here.first ELSE 1,
                      !.removedCount = IF isHere(b.removedFirst) THEN @ ELSE 0,
                      !.addedFirst = IF isHere(@) THEN @ - here.first ELSE 1,
                      !.addedCount = IF isHere(b.addedFirst) THEN @ ELSE 0]
            @@ [foreign |-> IF ~isHere(b.removedFirst) THEN foreignEnd(set, f, b.removedFirst)
                            ELSE IF ~isHere(b.addedFirst) THEN foreignEnd(set, f, b.addedFirst)
                            ELSE NoForeign]
    IN  render(here.diff, scanDiff(here.diff), [m \in DOMAIN touching |-> cut(touching[m])], TRUE)
-----------------------------------------------------------------------------
(* Reference definitions. *)
Ascending(s) == \A i, j \in DOMAIN s : i < j => s[i] < s[j]
NumbersOf(shown, number(_)) ==
    LET numbers == [k \in DOMAIN shown |-> number(shown[k])] IN SelectSeq(numbers, LAMBDA n : n # 0)

(* Every line read is shown, by one line; a line shows one read, or the    *)
(* removed and the added half of an edit; and both files' lines come in    *)
(* their order.                                                            *)
ShowsEveryLine(read, shown) ==
    LET lines == scanDiff(read)
    IN  /\ \A k \in DOMAIN read : Cardinality({s \in DOMAIN shown : k \in shown[s].from}) = 1
        /\ \A s \in DOMAIN shown :
              IF shown[s].kind = "Edited"
              THEN \E r, a \in shown[s].from :
                      /\ shown[s].from = {r, a} /\ lines[r].kind = "Removed" /\ lines[a].kind = "Added"
              ELSE \E k \in shown[s].from :
                      shown[s].from = {k} /\ lines[k].kind = shown[s].kind
        /\ Ascending(NumbersOf(shown, LAMBDA line : line.oldLine))
        /\ Ascending(NumbersOf(shown, LAMBDA line : line.newLine))

(* A move's lines are shown as the diff printed them, one after another,   *)
(* and no other line is marked as moved.                                   *)
MovesStand(parsed) ==
    LET rangeOf(first, count) == {first + k : k \in 0..count - 1}
    IN  /\ \A m \in DOMAIN parsed.moves :
              /\ \A k \in rangeOf(parsed.moves[m].removedFirst, parsed.moves[m].removedCount) :
                    parsed.lines[k].kind = "Removed"
              /\ \A k \in rangeOf(parsed.moves[m].addedFirst, parsed.moves[m].addedCount) :
                    parsed.lines[k].kind = "Added"
        /\ \A k \in DOMAIN parsed.lines : parsed.lines[k].moved => parsed.lines[k].kind \in {"Removed", "Added"}

(* A jump from one end of a move between files lands on the first line of  *)
(* the other, from which the jump back lands here again.                   *)
JumpsMeet(sections) ==
    \A f \in DOMAIN sections : \A m \in DOMAIN sections[f].moves :
        LET move == sections[f].moves[m]
            to == move.foreign
            there == sections[to.file]
            inAdded == move.addedCount = 0
        IN  to # NoForeign =>
                /\ to.file # f /\ (to.below <=> to.file > f)
                /\ \E o \in DOMAIN there.moves :
                      LET back == there.moves[o]
                      IN  /\ back.group = move.group /\ back.foreign.file = f
                          /\ lineShownFor(there.lines, to.line)
                                = IF inAdded THEN back.addedFirst ELSE back.removedFirst
                          /\ lineShownFor(sections[f].lines, back.foreign.line)
                                = IF inAdded THEN move.removedFirst ELSE move.addedFirst
=============================================================================
