------------------------- MODULE MCLineReaderThreads -------------------------
(***************************************************************************)
(* LineReaderThreads over the value definitions of MCLineReader.  A single *)
(* thread that is free has no use for what the last line left in the       *)
(* scratch members, all of which it writes before it reads them: for one   *)
(* thread two such states may be told apart by the rest alone.             *)
(***************************************************************************)
EXTENDS LineReaderThreads, MCLineReader

Reposo == \A h \in Hilos : paso[h] = "libre"
Vista == <<vars, paso, conf, IF Reposo THEN <<>> ELSE trabajo>>
=============================================================================
