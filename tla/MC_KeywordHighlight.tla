------------------------ MODULE MC_KeywordHighlight ------------------------
EXTENDS KeywordHighlight

\* three text nodes, "Abab", "cb" and "bA": a keyword in another case, twice in
\* one node, and one keyword ("b") inside the other's highlights
MC_Text == << <<65, 98, 97, 98>>, <<99, 98>>, <<98, 65>> >>

\* keywords "ab" and "B", in the page's order
MC_Keywords == << <<97, 98>>, <<66>> >>

MC_EarlyReadyState == FALSE
MC_EarlyReadyStateBeforeBody == TRUE

=============================================================================
