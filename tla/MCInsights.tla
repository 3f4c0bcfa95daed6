----------------------------- MODULE MCInsights -----------------------------
EXTENDS Insights

CONSTANTS a, b, c, d, e

\* Three insights: with two per page the last page is short, and an arrival
\* moves one across the page boundary.
MCFirst  == <<a, b, c>>
MCIdArgs == {<<a>>, <<c, a>>, <<b, b>>, <<d>>}
=============================================================================
