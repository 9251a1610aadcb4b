-------------------------- MODULE LineReaderWrites --------------------------
(***************************************************************************)
(* LineReader with the environment as it was before the last request, so   *)
(* that a state tells what that request changed.                           *)
(***************************************************************************)
EXTENDS LineReader

VARIABLE antes     (* Entorno before the last request *)

WInit == Init /\ antes = <<>>

WNext == Next /\ antes' = Entorno

WSpec == WInit /\ [][WNext]_<<vars, antes>>

(* What the reply to an assignment says: the variable it names was assigned.
   The comment over that branch of definirOperacion says "Asignacion", and
   the reply of asignar names the variable of the line's first word; so no
   other variable may have changed. *)
SoloCambiaLaNombrada ==
    respuesta.clase = "Asignacion" =>
        \A i \in 1..Len(antes) :
            antes[i].nombre # respuesta.nombre => Entorno[i] = antes[i]
=============================================================================
