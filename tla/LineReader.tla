----------------------------- MODULE LineReader -----------------------------
(***************************************************************************)
(* The line interpreter of src/mserver/src/lineReader.cpp: a toy C         *)
(* interpreter fed one line per HTTP request.  It keeps a linked stack of  *)
(* declared variables (stackVar), an array of pointers to their heap       *)
(* blocks (memoria, malloc(120): fifteen pointers), a slot counter         *)
(* (numVariables), the number of braces still open (llavesDisponibles) and *)
(* a flag saying that the next declaration starts a block                  *)
(* (isllaveAbierta).                                                       *)
(*                                                                         *)
(* Here a request is one atomic step, which is what a server with one      *)
(* thread does.  The scratch members of the class (linea, nombreVar,       *)
(* valorVarNumT ...) are written before they are read in every request, so *)
(* they carry nothing from one step to the next and are not variables.     *)
(*                                                                         *)
(* A line is given by what its words say: the type, the names, the         *)
(* literals, the operator.  Names are assumed not to read as numbers and   *)
(* not to contain a semicolon.                                             *)
(***************************************************************************)
EXTENDS Integers, Sequences, FiniteSets

CONSTANTS
  Nombres,          (* names a line may mention                            *)
  Tipos,            (* the declarable types in use, out of TodosTipos      *)
  Numeros,          (* values of the numeric types                         *)
  Caracteres,       (* values of type char                                 *)
  Literales,        (* the numbers and characters a line may write out     *)
  Cero, CarNulo,    (* what a declaration without "=" stores               *)
  Operadores,       (* arithmetic operators in use, out of + - * /         *)
  Aritmetica,       (* <<operator, x, y>> to the double it computes        *)
  Conversion,       (* [type][double] to the value stored in that type     *)
  Capacidad,        (* pointers that fit in memoria: 15 in the code        *)
  Indeterminado,    (* a pointer malloc never initialised                  *)
  Nulo,             (* nullptr; also "no name", "no value" in a reply      *)
  MaxNumVariables,  (* bound on the slot counter, which the code leaves    *)
  MaxLlaves         (* bound on the brace counter   unbounded              *)

TodosTipos == {"int", "float", "long", "double", "char"}
TiposNum   == Tipos \ {"char"}
Valores    == Numeros \cup Caracteres

ASSUME TiposAssumption == Tipos \subseteq TodosTipos
ASSUME ValoresAssumption ==
    /\ Numeros \cap Caracteres = {} /\ Numeros \cap Nombres = {}
    /\ Caracteres \cap Nombres = {}
    /\ Literales \subseteq Valores
    /\ Cero \in Numeros /\ CarNulo \in Caracteres
    /\ Nulo \notin Valores /\ Nulo \notin Nombres
    /\ Indeterminado \notin Valores /\ Indeterminado # Nulo
ASSUME AritmeticaAssumption ==
    /\ Aritmetica \in [Operadores \X Numeros \X Numeros -> Numeros]
    /\ Conversion \in [TiposNum -> [Numeros -> Numeros]]
    /\ "ninguno" \notin Operadores
ASSUME CotasAssumption ==
    /\ Capacidad \in Nat \ {0} /\ MaxNumVariables \in Nat /\ MaxLlaves \in Nat

VARIABLES
  stackVar,           (* the declared variables, oldest first              *)
  memoria,            (* slot to the value of its block, Nulo, or garbage  *)
  numVariables,       (* slot of the last declaration, -1 at first         *)
  llavesDisponibles,  (* braces opened and not closed                      *)
  isllaveAbierta,     (* the next declaration is the first of its block    *)
  fallo,              (* "no", or how the process died                     *)
  respuesta           (* the reply to the last line                        *)

vars == <<stackVar, memoria, numVariables, llavesDisponibles, isllaveAbierta,
          fallo, respuesta>>

Slots == 0 .. Capacidad - 1

Variable == [tipo : Tipos, nombre : Nombres, posicion : Nat, comienzoLlaves : BOOLEAN]

(* What follows the "=" of a line: a value, or two values and an operator. *)
Operandos   == Nombres \cup Literales
Expresiones == [operador : Operadores, a : Operandos, b : Operandos]
                 \cup [operador : {"ninguno"}, a : Operandos, b : {Nulo}]
SinIgual    == [operador |-> "sin igual", a |-> Nulo, b |-> Nulo]

Clases == {"Aviso", "Error", "Cout", "Declaracion", "Asignacion", "memoria"}
Respuestas == [clase : Clases, nombre : Nombres \cup {Nulo},
               valor : Valores \cup {Nulo, Indeterminado}]

(***************************************************************************)
(* Type invariant.                                                         *)
(***************************************************************************)
TypeOK ==
    /\ stackVar \in Seq(Variable)
    /\ memoria \in [Slots -> Valores \cup {Nulo, Indeterminado}]
    /\ numVariables \in Int /\ numVariables >= -1
    /\ llavesDisponibles \in Nat
    /\ isllaveAbierta \in BOOLEAN
    /\ fallo \in {"no", "nulo", "indefinido"}
    /\ respuesta \in Respuestas

-----------------------------------------------------------------------------
(* Looking variables up. *)

Existe(n) == \E i \in 1..Len(stackVar) : stackVar[i].nombre = n

(* The newest variable of that name, as the walk from the top finds it. *)
encontrarVar(n) == CHOOSE i \in 1..Len(stackVar) :
    /\ stackVar[i].nombre = n
    /\ \A j \in i+1..Len(stackVar) : stackVar[j].nombre # n

Variable_de(n) == stackVar[encontrarVar(n)]

(* The doubles that reading a variable as a number may give.  A char has no
   case of its own: eight bytes are read from its one-byte block. *)
valorVarNum(x) == IF x.tipo = "char" THEN Numeros ELSE {memoria[x.posicion]}

(* The characters that reading a variable as a char may give: for a number,
   the first byte of its representation. *)
CaracterEn(x) == IF x.tipo = "char" THEN {memoria[x.posicion]} ELSE Caracteres

-----------------------------------------------------------------------------
(* Evaluating the right-hand side.  Each operator gives the set of values
   the code may end up with; the set is empty when it rejects the line. *)

LeerNum(o) ==
    {x \in Numeros : x = o \/ (o \in Nombres /\ Existe(o) /\ x \in valorVarNum(Variable_de(o)))}

LeerChar(o) ==
    {c \in Caracteres : c = o \/ (o \in Nombres /\ Existe(o) /\ c \in CaracterEn(Variable_de(o)))}

Resultado(e) ==
    IF e.operador = "ninguno" THEN LeerNum(e.a)
    ELSE {z \in Numeros : \E x \in LeerNum(e.a), y \in LeerNum(e.b) :
                              z = Aritmetica[<<e.operador, x, y>>]}

separarAsignacion(t, e) ==
    CASE t # "char" /\ e = SinIgual -> {Conversion[t][Cero]}
      [] t # "char" /\ e # SinIgual -> {Conversion[t][x] : x \in Resultado(e)}
      [] t = "char" /\ e = SinIgual -> {CarNulo}
      [] t = "char" /\ e # SinIgual -> IF e.operador = "ninguno" THEN LeerChar(e.a) ELSE {}

-----------------------------------------------------------------------------
(* Replies and deaths. *)

Responder(c, n, v) == respuesta' = [clase |-> c, nombre |-> n, valor |-> v]

(* A line refused before it touched the interpreter's state. *)
error == /\ Responder("Error", Nulo, Nulo)
         /\ UNCHANGED <<stackVar, memoria, numVariables, llavesDisponibles,
                        isllaveAbierta, fallo>>

(* A null dereference kills the process; an access outside memoria or
   through an indeterminate pointer is undefined behaviour, after which
   nothing is promised.  Either way no later request is answered, and what
   the dead process had already popped is of no consequence. *)
Fallar(como) == /\ fallo' = como
                /\ UNCHANGED <<stackVar, memoria, numVariables, llavesDisponibles,
                               isllaveAbierta, respuesta>>

-----------------------------------------------------------------------------
(* Braces. *)

(* Mutant of abrirLlaves: the flag goes up and the brace is not counted. *)
abrirLlaves_SinContar ==
    /\ isllaveAbierta' = TRUE
    /\ Responder("Aviso", Nulo, Nulo)
    /\ UNCHANGED <<stackVar, memoria, numVariables, llavesDisponibles, fallo>>

abrirLlaves ==
    /\ llavesDisponibles < MaxLlaves
    /\ isllaveAbierta' = TRUE
    /\ llavesDisponibles' = llavesDisponibles + 1
    /\ Responder("Aviso", Nulo, Nulo)
    /\ UNCHANGED <<stackVar, memoria, numVariables, fallo>>

(* Mutant of Liberada: the block is freed and its slot keeps the pointer. *)
Liberada_SinAnular(k) == memoria

(* The pops of the variables from the k-th on: each block is freed and its
   slot cleared, and the counter goes down by one per variable. *)
Liberada(k) == [p \in Slots |-> IF \E i \in k..Len(stackVar) : stackVar[i].posicion = p
                                THEN Nulo ELSE memoria[p]]

popVariables(k) == /\ stackVar' = SubSeq(stackVar, 1, k - 1)
                   /\ memoria' = Liberada(k)

Marcas == {i \in 1..Len(stackVar) : stackVar[i].comienzoLlaves}

(* Mutants of Sacadas: the count of a pop too many; the counter set back to
   the slot below the block's first variable. *)
Sacadas_UnaDeMas(k) == Len(stackVar) - k + 2

Sacadas_HastaSuSlot(k) == numVariables - stackVar[k].posicion + 1

(* How many times the counter goes down while the variables from the k-th
   on are popped. *)
Sacadas(k) == Len(stackVar) - k + 1

(* Mutant of FinDelBloque: the loop stops at the oldest mark. *)
FinDelBloque_LaPrimera(k) == \A j \in Marcas : k <= j

(* The pops stop with the first marked variable met from the top. *)
FinDelBloque(k) == \A j \in Marcas : j <= k

(* "}" pops down to the newest variable that starts a block, that one too. *)
cerrarBloque == \E k \in Marcas :
    /\ llavesDisponibles > 0
    /\ FinDelBloque(k)
    /\ popVariables(k)
    /\ numVariables' = numVariables - Sacadas(k)
    /\ llavesDisponibles' = llavesDisponibles - 1
    /\ Responder("Aviso", Nulo, Nulo)
    /\ UNCHANGED <<isllaveAbierta, fallo>>

(* With a brace open and no such variable, the loop runs off the stack. *)
cerrarSinMarca == /\ llavesDisponibles > 0
                  /\ Marcas = {}
                  /\ Fallar("nulo")

cerrarSinAbrir == /\ llavesDisponibles = 0
                  /\ error

cerrarLlaves == cerrarBloque \/ cerrarSinMarca \/ cerrarSinAbrir

-----------------------------------------------------------------------------
(* "cout". *)

imprimirTexto == /\ Responder("Cout", Nulo, Nulo)
                 /\ UNCHANGED <<stackVar, memoria, numVariables, llavesDisponibles,
                                isllaveAbierta, fallo>>

imprimirVariable(n) ==
    /\ Existe(n)
    /\ Responder("Cout", n, memoria[Variable_de(n).posicion])
    /\ UNCHANGED <<stackVar, memoria, numVariables, llavesDisponibles,
                   isllaveAbierta, fallo>>

imprimirDesconocida(n) == ~Existe(n) /\ error

imprimir == \/ imprimirTexto
            \/ \E n \in Nombres : imprimirVariable(n) \/ imprimirDesconocida(n)

-----------------------------------------------------------------------------
(* Declarations.  The counter is advanced before anything else is looked at. *)

declararRepetida(n) ==
    /\ Existe(n)
    /\ numVariables < MaxNumVariables
    /\ numVariables' = numVariables + 1
    /\ Responder("Error", Nulo, Nulo)
    /\ UNCHANGED <<stackVar, memoria, llavesDisponibles, isllaveAbierta, fallo>>

SlotNuevo == numVariables + 1

declararNueva(t, n, v) ==
    /\ ~Existe(n)
    /\ SlotNuevo \in Slots
    /\ numVariables' = numVariables + 1
    /\ memoria' = [memoria EXCEPT ![SlotNuevo] = v]
    /\ stackVar' = Append(stackVar, [tipo |-> t, nombre |-> n, posicion |-> SlotNuevo,
                                     comienzoLlaves |-> isllaveAbierta])
    /\ isllaveAbierta' = FALSE
    /\ Responder("Declaracion", n, v)
    /\ UNCHANGED <<llavesDisponibles, fallo>>

(* The sixteenth slot: the pointer is written past the end of memoria. *)
declararDesbordada(n) == /\ ~Existe(n)
                         /\ SlotNuevo \notin Slots
                         /\ Fallar("indefinido")

declarar(t, n, v) == declararRepetida(n) \/ declararNueva(t, n, v) \/ declararDesbordada(n)

Declaracion(t, n, e) == \/ \E v \in separarAsignacion(t, e) : declarar(t, n, v)
                        \/ separarAsignacion(t, e) = {} /\ error

-----------------------------------------------------------------------------
(* Assignments. *)

(* Mutant of Escribir: the value lands one slot higher. *)
Escribir_SlotSiguiente(p, v) ==
    memoria' = [memoria EXCEPT ![IF p + 1 \in Slots THEN p + 1 ELSE p] = v]

Escribir(p, v) == memoria' = [memoria EXCEPT ![p] = v]

Escrita(n) == /\ Responder("Asignacion", n, memoria'[Variable_de(n).posicion])
              /\ UNCHANGED <<stackVar, numVariables, llavesDisponibles,
                             isllaveAbierta, fallo>>

asignarNum(n, v) == Escribir(Variable_de(n).posicion, v) /\ Escrita(n)

(* A char goes to the slot the counter points at, whichever variable was
   named.  It replaces a char there, or the first byte of a number. *)
asignarChar(n, v) ==
    /\ numVariables \in Slots
    /\ \/ memoria[numVariables] \in Caracteres /\ Escribir(numVariables, v)
       \/ /\ memoria[numVariables] \in Numeros
          /\ \E x \in Numeros : Escribir(numVariables, x)
    /\ Escrita(n)

asignarCharNulo == /\ numVariables \in Slots
                   /\ memoria[numVariables] = Nulo
                   /\ Fallar("nulo")

asignarCharIndefinido == /\ numVariables \in Slots => memoria[numVariables] = Indeterminado
                         /\ Fallar("indefinido")

asignar(n, v) ==
    \/ Variable_de(n).tipo # "char" /\ asignarNum(n, v)
    \/ /\ Variable_de(n).tipo = "char"
       /\ asignarChar(n, v) \/ asignarCharNulo \/ asignarCharIndefinido

Asignacion(n, e) ==
    \/ /\ Existe(n)
       /\ \/ \E v \in separarAsignacion(Variable_de(n).tipo, e) : asignar(n, v)
          \/ separarAsignacion(Variable_de(n).tipo, e) = {} /\ error
    \/ ~Existe(n) /\ error

-----------------------------------------------------------------------------
(* The other two requests. *)

clear == /\ popVariables(1)
         /\ numVariables' = -1
         /\ isllaveAbierta' = TRUE
         /\ llavesDisponibles' = 0
         /\ Responder("Aviso", Nulo, Nulo)
         /\ UNCHANGED fallo

memory == /\ Responder("memoria", Nulo, Nulo)
          /\ UNCHANGED <<stackVar, memoria, numVariables, llavesDisponibles,
                         isllaveAbierta, fallo>>

-----------------------------------------------------------------------------
Init == /\ stackVar = <<>>
        /\ memoria = [p \in Slots |-> Indeterminado]
        /\ numVariables = -1
        /\ llavesDisponibles = 0
        /\ isllaveAbierta = TRUE
        /\ fallo = "no"
        /\ respuesta = [clase |-> "Aviso", nombre |-> Nulo, valor |-> Nulo]

(* What a line does; the last disjunct is a line that lacks its semicolon,
   starts with an unknown word or is badly put together. *)
leerLinea ==
    \/ abrirLlaves
    \/ cerrarLlaves
    \/ imprimir
    \/ \E t \in Tipos, n \in Nombres : \E e \in Expresiones \cup {SinIgual} : Declaracion(t, n, e)
    \/ \E n \in Nombres : \E e \in Expresiones : Asignacion(n, e)
    \/ error

Next == /\ fallo = "no"
        /\ leerLinea \/ clear \/ memory

Spec == Init /\ [][Next]_vars

-----------------------------------------------------------------------------
(* Properties. *)

ValoresDe(t) == IF t = "char" THEN Caracteres ELSE Numeros

(* No two live variables share a name: a declaration never shadows. *)
NombresUnicos == \A i, j \in 1..Len(stackVar) :
    stackVar[i].nombre = stackVar[j].nombre => i = j

(* Slots grow along the stack, and above a variable's slot the counter has
   counted every younger variable, so the slot the next declaration takes is
   always free.  Refused declarations push the counter higher still. *)
PilaOrdenada ==
    /\ \A i \in 1..Len(stackVar) : stackVar[i].posicion \in Slots
    /\ \A i, j \in 1..Len(stackVar) : i < j => stackVar[i].posicion < stackVar[j].posicion
    /\ \A i \in 1..Len(stackVar) :
           i - 1 <= stackVar[i].posicion /\ stackVar[i].posicion + Len(stackVar) - i <= numVariables
    /\ Len(stackVar) <= numVariables + 1

(* A slot points at a live block exactly when a variable owns it: nothing
   leaks, nothing is freed twice, and no variable points at freed memory. *)
UnBloquePorVariable == \A p \in Slots :
    memoria[p] \in Valores <=> \E i \in 1..Len(stackVar) : stackVar[i].posicion = p

(* A block holds a value of its owner's type, though a char assignment may
   write through any slot. *)
BloqueDelTipo == \A i \in 1..Len(stackVar) :
    memoria[stackVar[i].posicion] \in ValoresDe(stackVar[i].tipo)

(* The heap is sound after every request, whatever declarations were refused
   (which moves the counter away from the stack), blocks closed and variables
   cleared before it: lineReader::declarar, asignar, popVariable, clear. *)
MemoriaCoherente == NombresUnicos /\ PilaOrdenada /\ UnBloquePorVariable /\ BloqueDelTipo

(* Each "{" lets at most one variable be marked as the start of a block, on
   top of the very first declaration, which needs no brace.  So a "}" never
   finds more than one block beyond the braces it may still close. *)
MarcasAcotadas ==
    Cardinality(Marcas) + (IF isllaveAbierta THEN 1 ELSE 0) <= llavesDisponibles + 1

(* The slots lost below the counter. *)
Huecos == numVariables + 1 - Len(stackVar)

(* A slot lost to a refused declaration is lost until "clear": no request
   but that one brings the counter and the stack closer together, so the
   interpreter's capacity only ever shrinks. *)
HuecosHastaLimpiar == [][Huecos' < Huecos => numVariables' = -1 /\ stackVar' = <<>>]_vars

(* How the process can die.  Memory is accessed out of bounds or through
   garbage only once a slot has been lost, or with memoria full; a null is
   followed only once a slot has been lost, or when braces outnumber the
   blocks on the stack. *)
MuerteConCausa ==
    [][/\ fallo' = "indefinido" => Huecos > 0 \/ Len(stackVar) = Capacidad
       /\ fallo' = "nulo" => Huecos > 0 \/ llavesDisponibles > Cardinality(Marcas)]_vars

(* The interpreter implements an ordered environment of typed variables:
   seen through its memory map, every request declares one variable, changes
   one value, removes a run of the newest variables, or changes nothing. *)
Entorno == [i \in 1..Len(stackVar) |->
    [tipo |-> stackVar[i].tipo, nombre |-> stackVar[i].nombre,
     valor |-> memoria[stackVar[i].posicion]]]

Abstracto == INSTANCE VarStack WITH entorno <- Entorno, vivo <- (fallo = "no"),
                                    Dominio <- [t \in Tipos |-> ValoresDe(t)]

ImplementaVarStack == Abstracto!ESpec
=============================================================================
