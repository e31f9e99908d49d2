---------------------------- MODULE MC_IndexView ----------------------------
EXTENDS IndexView

\* keywords "A", "ab", "b": "a" matches the upper-case "A", "ab" only the
\* second entry, "b" the last
MC_Ids == << <<65>>, <<97, 98>>, <<98>> >>

\* the flat index: no keyword has sub-entries
MC_FlatSubs == <<0, 0, 0>>
MC_FlatLabels == [n \in {} |-> <<>>]

\* "ab" has two sub-entries and "b" one, each with the link text "c"
MC_TreeSubs == <<0, 2, 1>>
MC_TreeLabels == [n \in {<<2, 1>>, <<2, 2>>, <<3, 1>>} |-> <<99>>]

\* every text of at most two of the letters a, b
MC_Patterns == {<<>>, <<97>>, <<98>>, <<97, 97>>, <<97, 98>>, <<98, 97>>, <<98, 98>>}

\* a list window of two rows, which the expanded tree of six entries overflows
MC_WinH == 2

=============================================================================
