------------------------------ MODULE VarStack ------------------------------
(***************************************************************************)
(* What the line interpreter promises its clients, with all of its memory  *)
(* management hidden: an ordered environment of named, typed variables     *)
(* whose lifetimes nest.  A declaration adds one variable at the end, a    *)
(* store changes the value of one variable and of no other, and closing a  *)
(* block or clearing removes the newest variables and leaves the older     *)
(* ones exactly as they were.  The process may also die, and then nothing  *)
(* more happens.                                                           *)
(*                                                                         *)
(* The slot array, the slot counter and the freeing of blocks of the code  *)
(* do not appear here.  LineReader implements this specification, so they  *)
(* never make one variable disturb another.                                *)
(***************************************************************************)
EXTENDS Integers, Sequences

CONSTANTS Nombres,     (* variable names                                   *)
          Tipos,       (* type names                                       *)
          Dominio      (* the values a variable of each type may hold      *)

VARIABLES entorno,     (* the live variables, oldest first                 *)
          vivo         (* the process is running                           *)

evars == <<entorno, vivo>>

EInit == /\ entorno = <<>>
         /\ vivo = TRUE

(* A new variable: its name is free, its value fits its type. *)
Declara == \E t \in Tipos, n \in Nombres : \E v \in Dominio[t] :
    /\ \A i \in 1..Len(entorno) : entorno[i].nombre # n
    /\ entorno' = Append(entorno, [tipo |-> t, nombre |-> n, valor |-> v])
    /\ UNCHANGED vivo

(* One variable takes a value of its own type; every other one keeps its own. *)
Almacena == \E i \in 1..Len(entorno) : \E v \in Dominio[entorno[i].tipo] :
    /\ entorno' = [entorno EXCEPT ![i].valor = v]
    /\ UNCHANGED vivo

(* The variables from the k-th on go away together. *)
Descarta == \E k \in 1..Len(entorno) :
    /\ entorno' = SubSeq(entorno, 1, k - 1)
    /\ UNCHANGED vivo

Muere == /\ vivo' = FALSE
         /\ UNCHANGED entorno

ENext == /\ vivo
         /\ \/ Declara \/ Almacena \/ Descarta \/ Muere

ESpec == EInit /\ [][ENext]_evars
=============================================================================
