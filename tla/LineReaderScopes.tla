-------------------------- MODULE LineReaderScopes --------------------------
(***************************************************************************)
(* LineReader with a record of what a reader of the program text expects   *)
(* of its braces: how high the stack was at each "{" still open, and       *)
(* whether every brace so far has been used the way the interpreter        *)
(* supports, with a declaration between any two of them.                   *)
(*                                                                         *)
(* The code keeps no such record: it marks the first variable declared     *)
(* after a "{" and pops down to the newest mark at a "}".                  *)
(***************************************************************************)
EXTENDS LineReader

VARIABLES
  alturas,       (* stack heights at the open "{", outermost first         *)
  disciplinado   (* no brace came while the flag of the last one was up    *)

ambitos == <<alturas, disciplinado>>

AInit == /\ Init
         /\ alturas = <<>>
         /\ disciplinado = TRUE

(* A brace that comes now has no declaration between it and the last "{". *)
Suelta == isllaveAbierta /\ ~(stackVar = <<>> /\ llavesDisponibles = 0)

Limpio == stackVar = <<>> /\ llavesDisponibles = 0 /\ isllaveAbierta

ANext ==
    /\ Next
    /\ alturas' = IF llavesDisponibles' > llavesDisponibles
                  THEN Append(alturas, Len(stackVar))
                  ELSE SubSeq(alturas, 1, llavesDisponibles')
    /\ disciplinado' = \/ Limpio'
                       \/ /\ disciplinado
                          /\ llavesDisponibles' # llavesDisponibles => ~Suelta

ASpec == AInit /\ [][ANext]_<<vars, ambitos>>

(* Where every block declares something, the marks do what a record of the
   heights would: a "}" takes the stack back to its height at the matching
   "{", removing all the block declared and nothing else, and it never runs
   off the stack; cerrarLlaves, abrirLlaves and the flag that declarar
   clears.  Blocks that declare nothing, or two "{" in a row, break this. *)
AmbitoRestaurado ==
    [][disciplinado /\ ~isllaveAbierta /\ llavesDisponibles > 0 =>
        /\ llavesDisponibles' < llavesDisponibles /\ ~isllaveAbierta'
             => Len(stackVar') = alturas[llavesDisponibles]
        /\ fallo' = "nulo" => Huecos > 0]_<<vars, ambitos>>
=============================================================================
