------------------------- MODULE MCLineReaderWrites -------------------------
(* LineReaderWrites over the value definitions of MCLineReader. *)
EXTENDS LineReaderWrites, MCLineReader
=============================================================================
