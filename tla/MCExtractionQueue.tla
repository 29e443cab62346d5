-------------------------- MODULE MCExtractionQueue --------------------------
(* Instance of ExtractionQueue for TLC: three documents with a reader, one   *)
(* that is Markdown already, two remembered records.                         *)
EXTENDS ExtractionQueue
CONSTANTS p1, p2, p3, md

MCPaths == {p1, p2, p3, md}
MCExtractable == {p1, p2, p3}
MCMarkdown == {md}
=============================================================================
