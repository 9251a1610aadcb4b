-------------------------- MODULE LineReaderThreads --------------------------
(***************************************************************************)
(* The interpreter as the server calls it (include/http_server.h): one     *)
(* global lineReader, no lock, and a pool of threads that each bring a     *)
(* request to it.  A request is cut where it goes through the members of   *)
(* the class that every thread shares: linea, primeraPalabra, tipoVar,     *)
(* nombreVar, valorVarNumT and valorVarChar, the counter and the stack.    *)
(*                                                                         *)
(* The cuts are those of sequentially consistent memory, one per group of  *)
(* members written together; a torn string or pointer, which the data      *)
(* races of the code also allow, is not modelled.  What goes wrong here    *)
(* goes wrong in the program; the converse is not claimed.                 *)
(***************************************************************************)
EXTENDS LineReader

CONSTANT Hilos        (* the threads that serve requests                   *)

VARIABLES
  linea,              (* the line, by what it says                         *)
  primeraPalabra,     (* its first word, when that is a name               *)
  tipoVar, nombreVar, (* what separarAsignacion took from it               *)
  valorVarNumT, valorVarChar,
  paso,               (* where each thread is                              *)
  conf                (* ghost: the interpreter when a request last ended  *)

trabajo == <<linea, primeraPalabra, tipoVar, nombreVar, valorVarNumT, valorVarChar>>
hvars == <<vars, trabajo, paso, conf>>

Pasos == {"libre", "leida", "separaD", "separaA", "declara", "guarda", "apila",
          "asigna", "cierra", "cerrada", "limpia"}

Linea(que, t, n, e) == [que |-> que, tipo |-> t, nombre |-> n, expr |-> e]

Lineas == {Linea(que, Nulo, Nulo, SinIgual) : que \in {"abrir", "cerrar", "otra"}}
     \cup {Linea("cout", Nulo, n, SinIgual) : n \in Nombres}
     \cup {Linea("declara", t, n, e) : t \in Tipos, n \in Nombres,
                                       e \in Expresiones \cup {SinIgual}}
     \cup {Linea("asigna", Nulo, n, e) : n \in Nombres, e \in Expresiones}

HInit == /\ Init
         /\ linea = Linea("otra", Nulo, Nulo, SinIgual)
         /\ primeraPalabra = Nulo /\ tipoVar = Nulo /\ nombreVar = Nulo
         /\ valorVarNumT = Cero /\ valorVarChar = CarNulo
         /\ paso = [h \in Hilos |-> "libre"]
         /\ conf = [stackVar |-> stackVar, memoria |-> memoria,
                    numVariables |-> numVariables, llavesDisponibles |-> llavesDisponibles,
                    isllaveAbierta |-> isllaveAbierta, fallo |-> fallo, respuesta |-> respuesta]

-----------------------------------------------------------------------------
(* How a step ends: the request goes on, is answered, or kills the process. *)

Sigue(h, p) == /\ paso' = [paso EXCEPT ![h] = p]
               /\ UNCHANGED conf

Responde(h) ==
    /\ paso' = [paso EXCEPT ![h] = "libre"]
    /\ conf' = [stackVar |-> stackVar', memoria |-> memoria', numVariables |-> numVariables',
                llavesDisponibles |-> llavesDisponibles', isllaveAbierta |-> isllaveAbierta',
                fallo |-> fallo', respuesta |-> respuesta']

Muere(como) == /\ Fallar(como)
               /\ conf' = [conf EXCEPT !.fallo = como]
               /\ UNCHANGED <<trabajo, paso>>

Rechaza(h) == error /\ Responde(h) /\ UNCHANGED trabajo

-----------------------------------------------------------------------------
(* The three endpoints. *)

NewLine(h, l) == /\ paso[h] = "libre"
                 /\ linea' = l
                 /\ Sigue(h, "leida")
                 /\ UNCHANGED <<vars, primeraPalabra, tipoVar, nombreVar, valorVarNumT, valorVarChar>>

ClearLines(h) == paso[h] = "libre" /\ Sigue(h, "limpia") /\ UNCHANGED <<vars, trabajo>>

MemorySaved(h) == paso[h] = "libre" /\ memory /\ Responde(h) /\ UNCHANGED trabajo

-----------------------------------------------------------------------------
(* definirOperacion looks at whatever line is there by now. *)

Abrir(h) == linea.que = "abrir" /\ abrirLlaves /\ Responde(h) /\ UNCHANGED trabajo

EmpiezaACerrar(h) == /\ linea.que = "cerrar"
                     /\ \/ llavesDisponibles > 0 /\ Sigue(h, "cierra") /\ UNCHANGED <<vars, trabajo>>
                        \/ llavesDisponibles <= 0 /\ Rechaza(h)

Imprimir(h) == /\ linea.que = "cout"
               /\ imprimirTexto \/ imprimirVariable(linea.nombre) \/ imprimirDesconocida(linea.nombre)
               /\ Responde(h) /\ UNCHANGED trabajo

EsDeclaracion(h) == /\ linea.que = "declara"
                    /\ primeraPalabra' = Nulo /\ tipoVar' = linea.tipo
                    /\ Sigue(h, "separaD")
                    /\ UNCHANGED <<vars, linea, nombreVar, valorVarNumT, valorVarChar>>

(* An assignment is rewritten in place with its type in front, after which
   it reads like a declaration. *)
EsAsignacion(h) ==
    /\ linea.que = "asigna" /\ Existe(linea.nombre)
    /\ primeraPalabra' = linea.nombre /\ tipoVar' = Variable_de(linea.nombre).tipo
    /\ linea' = [linea EXCEPT !.que = "declara", !.tipo = Variable_de(linea.nombre).tipo]
    /\ Sigue(h, "separaA")
    /\ UNCHANGED <<vars, nombreVar, valorVarNumT, valorVarChar>>

EsDesconocida(h) == /\ linea.que = "otra" \/ (linea.que = "asigna" /\ ~Existe(linea.nombre))
                    /\ Rechaza(h)

definirOperacion(h) ==
    /\ paso[h] = "leida"
    /\ \/ Abrir(h) \/ EmpiezaACerrar(h) \/ Imprimir(h)
       \/ EsDeclaracion(h) \/ EsAsignacion(h) \/ EsDesconocida(h)

-----------------------------------------------------------------------------
(* separarAsignacion takes the name and the value from the line, by the type
   in tipoVar. *)

Evaluada(e, num, car) ==
    \/ e = SinIgual /\ num = Cero /\ car = CarNulo
    \/ e # SinIgual /\ tipoVar # "char" /\ num \in Resultado(e) /\ car = CarNulo
    \/ e # SinIgual /\ tipoVar = "char" /\ e.operador = "ninguno" /\ car \in LeerChar(e.a) /\ num = Cero

(* A line of one brace, put there by another thread, has no name: the one
   left from some earlier line loses its last letter and is used. *)
NombreEn(l) == IF l.que = "declara" THEN {l.nombre}
               ELSE IF l.que \in {"abrir", "cerrar"} THEN Nombres ELSE {}

Separar(h) ==
    /\ paso[h] \in {"separaD", "separaA"}
    /\ \/ \E n \in NombreEn(linea), num \in Numeros, car \in Caracteres :
             /\ Evaluada(linea.expr, num, car)
             /\ nombreVar' = n /\ valorVarNumT' = num /\ valorVarChar' = car
             /\ Sigue(h, IF paso[h] = "separaD" THEN "declara" ELSE "asigna")
             /\ UNCHANGED <<vars, linea, primeraPalabra, tipoVar>>
       \/ /\ \A n \in NombreEn(linea), num \in Numeros, car \in Caracteres :
                ~Evaluada(linea.expr, num, car)
          /\ Rechaza(h)

Convertida == IF tipoVar = "char" THEN valorVarChar ELSE Conversion[tipoVar][valorVarNumT]

-----------------------------------------------------------------------------
(* declarar: the counter, the block, the variable. *)

(* Mutant of Contar: the counter is left alone. *)
Contar_SinContar(h) ==
    /\ paso[h] = "declara" /\ numVariables < MaxNumVariables
    /\ UNCHANGED <<stackVar, memoria, numVariables, llavesDisponibles, isllaveAbierta, fallo, trabajo>>
    /\ \/ Existe(nombreVar) /\ Responder("Error", Nulo, Nulo) /\ Responde(h)
       \/ ~Existe(nombreVar) /\ UNCHANGED respuesta /\ Sigue(h, "guarda")

Contar(h) ==
    /\ paso[h] = "declara" /\ numVariables < MaxNumVariables
    /\ numVariables' = numVariables + 1
    /\ UNCHANGED <<stackVar, memoria, llavesDisponibles, isllaveAbierta, fallo, trabajo>>
    /\ \/ Existe(nombreVar) /\ Responder("Error", Nulo, Nulo) /\ Responde(h)
       \/ ~Existe(nombreVar) /\ UNCHANGED respuesta /\ Sigue(h, "guarda")

Guardar(h) ==
    /\ paso[h] = "guarda"
    /\ \/ /\ numVariables \in Slots
          /\ Escribir(numVariables, Convertida)
          /\ Sigue(h, "apila")
          /\ UNCHANGED <<stackVar, numVariables, llavesDisponibles, isllaveAbierta, fallo,
                         respuesta, trabajo>>
       \/ numVariables \notin Slots /\ Muere("indefinido")

(* pushVariable, the flag, and the reply that reads the new block. *)
Apilar(h) ==
    /\ paso[h] = "apila"
    /\ \/ /\ numVariables \in Slots /\ memoria[numVariables] \in Valores
          /\ stackVar' = Append(stackVar, [tipo |-> tipoVar, nombre |-> nombreVar,
                 posicion |-> numVariables, comienzoLlaves |-> isllaveAbierta])
          /\ isllaveAbierta' = FALSE
          /\ Responder("Declaracion", nombreVar, memoria[numVariables])
          /\ UNCHANGED <<memoria, numVariables, llavesDisponibles, fallo, trabajo>>
          /\ Responde(h)
       \/ numVariables \in Slots /\ memoria[numVariables] = Nulo /\ Muere("nulo")
       \/ (numVariables \in Slots => memoria[numVariables] = Indeterminado) /\ Muere("indefinido")

(* asignar finds the variable again, and writes by the type in tipoVar. *)
Asignar(h) ==
    /\ paso[h] = "asigna"
    /\ \/ ~Existe(primeraPalabra) /\ Muere("nulo")
       \/ /\ Existe(primeraPalabra) /\ tipoVar # "char"
          /\ LET p == Variable_de(primeraPalabra).posicion IN
             \/ /\ memoria[p] \in Numeros
                /\ asignarNum(primeraPalabra, Convertida) /\ Responde(h) /\ UNCHANGED trabajo
             \/ memoria[p] = Nulo /\ Muere("nulo")
             \/ memoria[p] \in Caracteres \cup {Indeterminado} /\ Muere("indefinido")
       \/ /\ Existe(primeraPalabra) /\ tipoVar = "char"
          /\ \/ asignarChar(primeraPalabra, Convertida) /\ Responde(h) /\ UNCHANGED trabajo
             \/ asignarCharNulo /\ Muere("nulo")
             \/ asignarCharIndefinido /\ Muere("indefinido")

-----------------------------------------------------------------------------
(* The loops of cerrarLlaves and clear, one popVariable at a time. *)

popVariable == /\ popVariables(Len(stackVar))
               /\ numVariables' = numVariables - 1
               /\ UNCHANGED <<llavesDisponibles, isllaveAbierta, fallo, respuesta, trabajo>>

SacarBloque(h) ==
    /\ paso[h] = "cierra"
    /\ \/ stackVar = <<>> /\ Muere("nulo")
       \/ /\ stackVar # <<>>
          /\ popVariable
          /\ Sigue(h, IF stackVar[Len(stackVar)].comienzoLlaves THEN "cerrada" ELSE "cierra")

Cerrar(h) == /\ paso[h] = "cerrada"
             /\ llavesDisponibles' = llavesDisponibles - 1
             /\ Responder("Aviso", Nulo, Nulo)
             /\ UNCHANGED <<stackVar, memoria, numVariables, isllaveAbierta, fallo, trabajo>>
             /\ Responde(h)

SacarTodo(h) == paso[h] = "limpia" /\ stackVar # <<>> /\ popVariable /\ Sigue(h, "limpia")

Limpiar(h) == paso[h] = "limpia" /\ stackVar = <<>> /\ clear /\ Responde(h) /\ UNCHANGED trabajo

-----------------------------------------------------------------------------
HNext == /\ fallo = "no"
         /\ \E h \in Hilos :
              \/ \E l \in Lineas : NewLine(h, l)
              \/ ClearLines(h) \/ MemorySaved(h)
              \/ definirOperacion(h) \/ Separar(h)
              \/ Contar(h) \/ Guardar(h) \/ Apilar(h) \/ Asignar(h)
              \/ SacarBloque(h) \/ Cerrar(h) \/ SacarTodo(h) \/ Limpiar(h)

HSpec == HInit /\ [][HNext]_hvars

-----------------------------------------------------------------------------
(* Properties. *)

Serie == INSTANCE LineReader WITH
    stackVar <- conf.stackVar, memoria <- conf.memoria, numVariables <- conf.numVariables,
    llavesDisponibles <- conf.llavesDisponibles, isllaveAbierta <- conf.isllaveAbierta,
    fallo <- conf.fallo, respuesta <- conf.respuesta

(* Requests that come one at a time are the single steps of LineReader: the
   steps of leerLinea, definirOperacion, separarAsignacion, declarar, asignar
   and the loops of popVariable add up to what that module says in one, or
   kill the process when it says so. *)
ImplementaLineReader == Serie!Spec

(* The comment on kThreads, "number of requests it supports at the same time":
   when no request is under way and the process lives, the heap is sound. *)
CoherenteEnReposo ==
    fallo = "no" /\ (\A h \in Hilos : paso[h] = "libre") => MemoriaCoherente
=============================================================================
