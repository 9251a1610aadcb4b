------------------------- MODULE MCLineReaderScopes -------------------------
(* LineReaderScopes over the value definitions of MCLineReader. *)
EXTENDS LineReaderScopes, MCLineReader
=============================================================================
