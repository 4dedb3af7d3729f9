----------------------------- MODULE MCAlgorithms -----------------------------
EXTENDS Algorithms

MCShaOf == <<"1", "2", "3", "4">>
MCWidth == [t \in {" ", "foo", "bar", "baz", "}"} |-> IF t \in {" ", "}"} THEN 1 ELSE 3]
Line(mark, text) == [mark |-> mark, text |-> text]
Removed(texts) == {Line("-", t) : t \in texts}
Added(texts) == {Line("+", t) : t \in texts}
X == <<"foo", " ", "bar">>
Indented == <<" ", "foo", " ", "bar">>
Y == <<"baz", " ", "baz">>
Alike == <<"foo", " ", "baz">>
Brace == <<"}">>

(* Edits and the ends of lines; moves and their copies; edited and         *)
(* indented lines in a move; and moves between two files.                  *)
MCVocabularies ==
    {[changes |-> Removed({X, Alike, Brace}) \cup Added({X, Alike, Brace})
                  \cup {Line(" ", Brace), Line("\\", <<>>), Line("rest", <<"foo">>)},
      files |-> 1, hunks |-> 2, lines |-> 3],
     [changes |-> Removed({X, Y}) \cup Added({X, Y}), files |-> 1, hunks |-> 1, lines |-> 6],
     [changes |-> Removed({X, Alike}) \cup Added({Indented, Brace}), files |-> 1, hunks |-> 1, lines |-> 5],
     [changes |-> Removed({X, Y}) \cup Added({X, Y}), files |-> 2, hunks |-> 2, lines |-> 4]}
=============================================================================
