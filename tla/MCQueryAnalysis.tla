--------------------------- MODULE MCQueryAnalysis ---------------------------
(* Small instances of QueryAnalysis.                                         *)
EXTENDS QueryAnalysis

(* No rows at all; an empty page in the middle; an empty page at the end;    *)
(* enough pages for three layers of groups of two.                           *)
MCResults == {<<0>>, <<2, 0, 1>>, <<1, 2, 0>>, <<2, 1, 1, 1, 2>>}
=============================================================================
