---------------------------- MODULE MCLineReader ----------------------------
(***************************************************************************)
(* Small instances of LineReader.  Numbers are counted in halves, so that  *)
(* storing one in an int really truncates; sums stop at the largest one.   *)
(***************************************************************************)
EXTENDS LineReader, TLC

CONSTANTS MaxNumero

MCNumeros == 0..MaxNumero

MCAritmetica == [args \in Operadores \X MCNumeros \X MCNumeros |->
    LET suma == args[2] + args[3] IN IF suma > MaxNumero THEN MaxNumero ELSE suma]

MCConversion == [t \in Tipos \ {"char"} |->
    [x \in MCNumeros |-> IF t \in {"int", "long"} THEN 2 * (x \div 2) ELSE x]]

SimetriaNombres == Permutations(Nombres)
=============================================================================
