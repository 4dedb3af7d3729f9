------------------------------ MODULE Algorithms ------------------------------
(***************************************************************************)
(* The pure algorithms over all small inputs: histories for the lane       *)
(* diagram, grown a child at a time, and diffs of a change set, grown a    *)
(* line at a time as git prints them.  A vocabulary bounds a diff: the     *)
(* lines its hunks hold, and how many files, hunks and lines it has.       *)
(***************************************************************************)
EXTENDS UnifiedDiff, HgPush

CONSTANTS ShaOf,         \* the commits' names, oldest first
          Unlisted,      \* parents no listing holds
          MaxParents, MaxEdges,
          Vocabularies

(* A sha is never empty and names one commit, an unlisted one none that is *)
(* listed.                                                                 *)
ASSUME NamesAssumption ==
    /\ ShaOf \in Seq(Range(ShaOf)) /\ IsInjective(ShaOf)
    /\ Range(ShaOf) \cap Unlisted = {}
    /\ NoSha \notin Range(ShaOf) \cup Unlisted

VARIABLES commits, diff
inputs == <<commits, diff>>

(* `git log --topo-order`, `hg log -G`'s order. *)
ListedShas == {commits[i].sha : i \in DOMAIN commits}
Parents == {ps \in UNION {[1..n -> ListedShas \cup Unlisted] : n \in 0..MaxParents} : IsInjective(ps)}
EdgeCount == FoldLeft(LAMBDA n, c : n + Len(c.parents), 0, commits)

AddCommit ==
    /\ diff = <<>>
    /\ Len(commits) < Len(ShaOf)
    /\ \E parents \in Parents :
          /\ EdgeCount + Len(parents) <= MaxEdges
          /\ commits' = <<[sha |-> ShaOf[Len(commits) + 1], parents |-> parents]>> \o commits
    /\ UNCHANGED diff

Marked(mark) == Cardinality({i \in DOMAIN diff : diff[i].mark = mark})
ReadLine(mark, text, start) == [mark |-> mark, text |-> text, start |-> start]
Plain == <<0, 0>>

(* The scanner's numbers, which a hunk further down starts past. *)
NextNumbers ==
    LET sections == {i \in DOMAIN diff : diff[i].mark = "diff"}
        section == SubSeq(diff, CHOOSE i \in sections : \A j \in sections : j <= i, Len(diff))
        x == FoldLeft(classify, [old |-> 0, new |-> 0, inHunk |-> FALSE, line |-> diffLine("FileHeader", 0, 0)], section)
    IN  <<x.old + 1, x.new + 1>>

HunkLines == Len(diff) - Marked("diff") - Marked("@@")
Within(v) ==
    /\ Marked("diff") <= v.files /\ Marked("@@") <= v.hunks /\ HunkLines <= v.lines
    /\ \A i \in DOMAIN diff :
          diff[i].mark \notin {"diff", "@@"} => [mark |-> diff[i].mark, text |-> diff[i].text] \in v.changes
Bounded == \E v \in Vocabularies : Within(v)
Changes == UNION {v.changes : v \in Vocabularies}

AddFile ==
    /\ commits = <<>>
    /\ diff' = diff \o <<ReadLine("diff", <<>>, Plain), ReadLine("@@", <<>>, <<1, 1>>)>>
    /\ Bounded'
    /\ UNCHANGED commits

AddHunk ==
    /\ diff # <<>>
    /\ diff' = Append(diff, ReadLine("@@", <<>>, NextNumbers))
    /\ Bounded'
    /\ UNCHANGED commits

(* A line of a hunk; "rest" and "\\" come after one only. *)
AddLine ==
    /\ diff # <<>>
    /\ \E change \in Changes :
          /\ change.mark \in {"rest", "\\"} => Last(diff).mark \in {" ", "-", "+"}
          /\ diff' = Append(diff, ReadLine(change.mark, change.text, Plain))
    /\ Bounded'
    /\ UNCHANGED commits

InputsInit == commits = <<>> /\ diff = <<>>
InputsNext == AddCommit \/ AddFile \/ AddHunk \/ AddLine
InputsSpec == InputsInit /\ [][InputsNext]_inputs
-----------------------------------------------------------------------------
(* The lines of the diagram run unbroken from each commit to its parents.  *)
LanesReachParents ==
    LET rows == buildCommitGraph(commits, NoSha)
    IN  LinesJoin(rows) /\ LinesReachParents(commits, rows) /\ ChainsAreLines(commits, rows)

(* The rows a search may leave of the first n, in their order. *)
RowsLeft(n) ==
    LET upTo[k \in 0..n] == IF k = 0 THEN {<<>>} ELSE upTo[k - 1] \cup {Append(v, k) : v \in upTo[k - 1]}
    IN  upTo[n]

(* What is marked as above the checkout is what the checkout lacks,        *)
(* whichever listed commit that is; and a search that hides rows joins     *)
(* only commits one of which descends from the other.                      *)
MarksWhatIsAhead ==
    \A sha \in ListedShas :
        LET rows == buildCommitGraph(commits, sha)
        IN  /\ AheadIsNew(commits, sha, rows)
            /\ \A visible \in RowsLeft(Len(commits)) :
                  FilteredJoins(commits, rows, visible, filteredCommitGraph(rows, visible))

(* Both: the diagram joins what the history joins, and marks what is new.  *)
GraphTellsTheTruth == LanesReachParents /\ MarksWhatIsAhead

(* A sha the listing does not hold marks nothing, as commitgraph.h has it. *)
UnlistedMarksNothing ==
    \A sha \in Unlisted : \A i \in DOMAIN commits : ~commitsAboveCurrent(commits, sha)[i]

(* Phases as Mercurial keeps them: a changeset's is no lower than its      *)
(* parents'.                                                               *)
Phases(h) ==
    LET rank == [p \in {"public", "draft", "secret"} |->
                    CASE p = "public" -> 0 [] p = "draft" -> 1 [] p = "secret" -> 2]
    IN  {phase \in [DOMAIN h.below -> DOMAIN rank] :
           \A i \in DOMAIN h.below : \A j \in h.below[i] : rank[phase[j]] <= rank[phase[i]]}

UnrelatedDraft(h, phase, dot) ==
    /\ OfPhase(h.below[dot], phase, "public") # {}
    /\ OfPhase(roots(h, h.below[dot]), phase, "draft") # {}

(* A Mercurial push one by one makes no new head on the remote and leaves  *)
(* nothing behind, where no unrelated draft root was merged in.            *)
PushesAddNoHead ==
    commits # <<>> =>
      \A h \in {History(commits)} : \A phase \in Phases(h) : \A dot \in DOMAIN commits :
        /\ UnrelatedDraft(h, phase, dot) \/ StepsReplaceHeads(h, phase, dot)
        /\ LinePublishesAll(h, phase, dot)

(* The same with unrelated draft roots, which the comment of               *)
(* OneByOnePushCandidatesRevset takes "while nothing is public" only.      *)
UnrelatedRootsToo ==
    commits # <<>> =>
      \A h \in {History(commits)} : \A phase \in Phases(h) : \A dot \in DOMAIN commits :
        StepsReplaceHeads(h, phase, dot)

(* Any two lines are aligned by the greatest weight they can share, and    *)
(* any removed lines paired with added ones for the most similarity.       *)
TextsOfKind(lines, kind) ==
    LET own == SetToSortSeq({i \in DOMAIN lines : lines[i].kind = kind}, <)
    IN  [k \in DOMAIN own |-> diff[own[k]].text]
AreAlignedBest(removed, added) ==
    /\ PairsBest(removed, added)
    /\ \A i \in DOMAIN removed, j \in DOMAIN added : AlignsBest(removed[i], added[j])
AlignmentsAreBest ==
    AreAlignedBest(TextsOfKind(scanDiff(diff), "Removed"), TextsOfKind(scanDiff(diff), "Added"))

(* The moves of a change set, between its files as within one.             *)
MovesAreFound(lines, blocks) ==
    BlocksAreRanges(lines, blocks) /\ ExactMovesAreFound(lines, blocks) /\ GroupsAreConnected(blocks)

(* Each section shown merged, alone or in its set, and shown as it is.     *)
ShowsSection(read, parsed) == ShowsEveryLine(read, parsed.lines) /\ MovesStand(parsed)
ShowsSections(set) ==
    \A f \in DOMAIN set.files :
        /\ ShowsSection(set.files[f].diff, parseSection(set, f))
        /\ ShowsSection(set.files[f].diff, parseUnifiedDiff(set.files[f].diff))
        /\ ShowsSection(set.files[f].diff, parseRawUnifiedDiff(set.files[f].diff))
ShowsTheDiff == ShowsSections(changeSet(diff))

ReadsTheSet(set) ==
    /\ MovesAreFound(linesInSequence(set.files), set.moves)
    /\ JumpsMeet([f \in DOMAIN set.files |-> parseSection(set, f)])

(* What is read of a change set: the pairs of its lines, the moves in it   *)
(* and the jumps between their ends.                                       *)
ChangesAreMatched == AlignmentsAreBest /\ ReadsTheSet(changeSet(diff))
=============================================================================
