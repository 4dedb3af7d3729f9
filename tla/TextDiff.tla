------------------------------- MODULE TextDiff -------------------------------
(***************************************************************************)
(* textdiff.cpp: two lines aligned as sequences of tokens, and the removed *)
(* lines of a change paired with the added ones they were edited into.  A  *)
(* token is a word, a run of whitespace or one other character, with its   *)
(* width; a similarity is the code's fraction over Scale.  Segments are    *)
(* kept token by token: a run of one kind is one segment there.            *)
(***************************************************************************)
EXTENDS Integers, Sequences, SequencesExt

CONSTANTS Width,        \* [tokens -> characters]
          Spaces,       \* the whitespace tokens
          Words,        \* the tokens of letters and digits
          Scale, SimilarityThreshold, MaxAlignedTokens, MaxLinePairings

Larger(x, y) == IF x >= y THEN x ELSE y
Smaller(x, y) == IF x <= y THEN x ELSE y

weight(token) == IF token \in Spaces THEN 0 ELSE Width[token]
weightOf(line) == FoldLeft(LAMBDA total, token : total + weight(token), 0, line)

(* The longest common ends, the back counted past the front. *)
commonEnds(left, right) ==
    LET limit == Smaller(Len(left), Len(right))
        prefix == CHOOSE n \in 0..limit :
                     /\ SubSeq(left, 1, n) = SubSeq(right, 1, n)
                     /\ n < limit => left[n + 1] # right[n + 1]
        back(n) == SubSeq(left, Len(left) - n + 1, Len(left)) = SubSeq(right, Len(right) - n + 1, Len(right))
    IN  [prefix |-> prefix,
         suffix |-> CHOOSE n \in 0..(limit - prefix) : back(n) /\ (n < limit - prefix => ~back(n + 1))]

NoAlignment == [similarity |-> 0, segments |-> <<>>]
SameSegments(tokens) == [k \in DOMAIN tokens |-> [kind |-> "Common", token |-> tokens[k]]]

(* The greatest weight the two middles can share from i and from j on. *)
sharedFrom(left, right) ==
    LET lcs[at \in (1..Len(left) + 1) \X (1..Len(right) + 1)] ==
            LET i == at[1]
                j == at[2]
            IN  IF i > Len(left) \/ j > Len(right) THEN 0
                ELSE IF left[i] = right[j] THEN lcs[<<i + 1, j + 1>>] + weight(left[i])
                ELSE Larger(lcs[<<i + 1, j>>], lcs[<<i, j + 1>>])
    IN  lcs

(* The walk through both middles, one step a segment. *)
segmentsOf(left, right, lcs) ==
    LET walk[at \in (1..Len(left) + 1) \X (1..Len(right) + 1)] ==
            LET i == at[1]
                j == at[2]
                removed == <<[kind |-> "Removed", token |-> left[i]]>> \o walk[<<i + 1, j>>]
                added == <<[kind |-> "Added", token |-> right[j]]>> \o walk[<<i, j + 1>>]
            IN  IF i > Len(left) THEN IF j > Len(right) THEN <<>> ELSE added
                ELSE IF j > Len(right) THEN removed
                ELSE IF left[i] = right[j]
                     THEN <<[kind |-> "Common", token |-> left[i]]>> \o walk[<<i + 1, j + 1>>]
                ELSE IF lcs[<<i + 1, j>>] >= lcs[<<i, j + 1>>] THEN removed ELSE added
    IN  walk[<<1, 1>>]

(* The lines aligned around the middles their ends leave. *)
alignWithin(left, right, ends) ==
    LET middle(line) == SubSeq(line, ends.prefix + 1, Len(line) - ends.suffix)
        lcs == sharedFrom(middle(left), middle(right))
        prefix == SubSeq(left, 1, ends.prefix)
        suffix == SubSeq(left, Len(left) - ends.suffix + 1, Len(left))
        total == weightOf(left \o right)
    IN  IF left = <<>> /\ right = <<>> THEN [NoAlignment EXCEPT !.similarity = Scale]
        ELSE IF Len(middle(left)) > MaxAlignedTokens \/ Len(middle(right)) > MaxAlignedTokens THEN NoAlignment
        ELSE [similarity |-> IF total = 0 THEN Scale
                             ELSE (2 * (weightOf(prefix \o suffix) + lcs[<<1, 1>>]) * Scale) \div total,
              segments |-> SameSegments(prefix) \o segmentsOf(middle(left), middle(right), lcs)
                           \o SameSegments(suffix)]

alignTokens(left, right) == alignWithin(left, right, commonEnds(left, right))

(* Every candidate pair, aligned once. *)
alignments(left, right) ==
    [at \in (DOMAIN left) \X (DOMAIN right) |-> alignTokens(left[at[1]], right[at[2]])]

(* The best score from the pairs that are alike enough. *)
pairedScore(alike, best, at) ==
    IF alike[at].similarity >= SimilarityThreshold
    THEN alike[at].similarity + best[<<at[1] + 1, at[2] + 1>>] ELSE -1

bestFrom(left, right, alike) ==
    LET best[at \in (1..Len(left) + 1) \X (1..Len(right) + 1)] ==
            IF at[1] > Len(left) \/ at[2] > Len(right) THEN 0
            ELSE Larger(pairedScore(alike, best, at),
                        Larger(best[<<at[1] + 1, at[2]>>], best[<<at[1], at[2] + 1>>]))
    IN  best

bestPairs(left, right, alike, best) ==
    LET walk[at \in (1..Len(left) + 1) \X (1..Len(right) + 1)] ==
            LET i == at[1]
                j == at[2]
            IN  IF i > Len(left) \/ j > Len(right) THEN <<>>
                ELSE IF pairedScore(alike, best, at) >= best[at]
                     THEN <<[left |-> i, right |-> j]>> \o walk[<<i + 1, j + 1>>]
                ELSE IF best[<<i + 1, j>>] >= best[<<i, j + 1>>] THEN walk[<<i + 1, j>>]
                ELSE walk[<<i, j + 1>>]
    IN  walk[<<1, 1>>]

pairAligned(left, right, alike) == bestPairs(left, right, alike, bestFrom(left, right, alike))

pairSimilarLines(left, right) ==
    IF Len(left) * Len(right) > MaxLinePairings THEN <<>>
    ELSE pairAligned(left, right, alignments(left, right))
-----------------------------------------------------------------------------
(* Reference definitions. *)

CommonSubsequences(left, right) == AllSubSeqs(left) \cap AllSubSeqs(right)

Shared(segments) == weightOf([k \in DOMAIN SelectSeq(segments, LAMBDA s : s.kind = "Common")
                                |-> SelectSeq(segments, LAMBDA s : s.kind = "Common")[k].token])
Spelled(segments, other) ==
    LET own == SelectSeq(segments, LAMBDA s : s.kind # other) IN [k \in DOMAIN own |-> own[k].token]

(* The segments spell both lines, and no alignment shares more. *)
AlignsBest(left, right) ==
    \A aligned \in {alignTokens(left, right)} \ {NoAlignment} :
        /\ Spelled(aligned.segments, "Added") = left
        /\ Spelled(aligned.segments, "Removed") = right
        /\ \A s \in CommonSubsequences(left, right) : weightOf(s) <= Shared(aligned.segments)

(* No set of pairs in order, each alike enough, is more alike in all. *)
PairsAreBest(left, right, alike, pairs) ==
    LET total(P) == FoldSet(LAMBDA p, sum : sum + alike[p].similarity, 0, P)
        uncrossed(P) == \A p, q \in P : p # q => (p[1] < q[1] /\ p[2] < q[2]) \/ (q[1] < p[1] /\ q[2] < p[2])
        chosen == {<<pairs[k].left, pairs[k].right>> : k \in DOMAIN pairs}
        similar == {p \in DOMAIN alike : alike[p].similarity >= SimilarityThreshold}
    IN  /\ chosen \subseteq similar /\ uncrossed(chosen)
        /\ \A P \in SUBSET similar : uncrossed(P) => total(P) <= total(chosen)

PairsBest(left, right) ==
    Len(left) * Len(right) <= MaxLinePairings =>
        PairsAreBest(left, right, alignments(left, right), pairSimilarLines(left, right))
=============================================================================
