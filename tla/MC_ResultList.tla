--------------------------- MODULE MC_ResultList ---------------------------
EXTENDS ResultList, TLC

\* seven rows; rows 0 and 2 link to the same topic (a bookmark added
\* twice), so selectTopic must take the first
MC_N == 7
MC_Hrefs == [r \in 0..6 |-> IF r = 2 THEN "t0" ELSE "t" \o ToString(r)]

\* a window of three rows over a page of seven, so that the page can be
\* scrolled by more than a row; cell and anchor one unit high
MC_RowH == 1
MC_LinkH == 1
MC_WinH == 3

\* the bookmark list, which has the popup menu
MC_HasMenu == TRUE

=============================================================================
