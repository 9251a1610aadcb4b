---------------------- MODULE LineReaderThreadsProofs ----------------------
(***************************************************************************)
(* Proof that with one thread the many steps of a request add up to one    *)
(* step of LineReader.  The abstract interpreter is conf, the record of    *)
(* what the last request left; the invariant says, of each place where the *)
(* thread may be, how far the members have moved away from it and what the *)
(* scratch members hold.                                                   *)
(***************************************************************************)
EXTENDS LineReaderThreads, TLAPS

P == INSTANCE LineReaderProofs WITH
    stackVar <- conf.stackVar, memoria <- conf.memoria, numVariables <- conf.numVariables,
    llavesDisponibles <- conf.llavesDisponibles, isllaveAbierta <- conf.isllaveAbierta,
    fallo <- conf.fallo, respuesta <- conf.respuesta

Campos == {"stackVar", "memoria", "numVariables", "llavesDisponibles", "isllaveAbierta",
           "fallo", "respuesta"}

(* What no step changes before the last one of its request. *)
Resto == /\ llavesDisponibles = conf.llavesDisponibles
         /\ isllaveAbierta = conf.isllaveAbierta
         /\ fallo = conf.fallo /\ respuesta = conf.respuesta

Igual == /\ stackVar = conf.stackVar /\ memoria = conf.memoria
         /\ numVariables = conf.numVariables /\ Resto

(* A line is on its way to be a declaration. *)
LineaDe == /\ linea.que = "declara" /\ linea.tipo = tipoVar /\ tipoVar \in Tipos
           /\ linea.nombre \in Nombres

(* What separarAsignacion took from a line with right-hand side e. *)
Evaluo(e) == Convertida \in Serie!separarAsignacion(tipoVar, e)

DeDeclaracion == /\ tipoVar \in Tipos /\ nombreVar \in Nombres /\ Convertida \in Valores
                 /\ \E e \in Expresiones \cup {SinIgual} : Evaluo(e)

(* The pops so far: the variables from the (Len(stackVar) + 1)-st on are gone. *)
Sacando == /\ Len(stackVar) <= Len(conf.stackVar)
           /\ stackVar = SubSeq(conf.stackVar, 1, Len(stackVar))
           /\ memoria = Serie!Liberada(Len(stackVar) + 1)
           /\ numVariables = conf.numVariables - (Len(conf.stackVar) - Len(stackVar))
           /\ Resto

SinMarcas(k) == \A i \in k..Len(conf.stackVar) : ~conf.stackVar[i].comienzoLlaves

(* The invariant, for the one thread h. *)
Donde(p) ==
    /\ p = "libre" => Igual
    /\ p = "leida" => Igual /\ linea \in Lineas
    /\ p = "separaD" => /\ Igual /\ LineaDe
                        /\ linea.expr \in Expresiones \cup {SinIgual}
    /\ p = "separaA" => /\ Igual /\ LineaDe /\ linea.expr \in Expresiones
                        /\ primeraPalabra = linea.nombre /\ Existe(primeraPalabra)
                        /\ tipoVar = Variable_de(primeraPalabra).tipo
    /\ p = "declara" => Igual /\ DeDeclaracion
    /\ p = "guarda" => /\ stackVar = conf.stackVar /\ memoria = conf.memoria /\ Resto
                       /\ numVariables = conf.numVariables + 1
                       /\ DeDeclaracion /\ ~Existe(nombreVar)
    /\ p = "apila" => /\ stackVar = conf.stackVar /\ Resto
                      /\ numVariables = conf.numVariables + 1 /\ numVariables \in Slots
                      /\ memoria = [conf.memoria EXCEPT ![numVariables] = Convertida]
                      /\ DeDeclaracion /\ ~Existe(nombreVar)
    /\ p = "asigna" => /\ Igual /\ primeraPalabra \in Nombres /\ Existe(primeraPalabra)
                       /\ tipoVar = Variable_de(primeraPalabra).tipo
                       /\ \E e \in Expresiones : Evaluo(e)
    /\ p = "cierra" => /\ Sacando /\ conf.llavesDisponibles > 0
                       /\ SinMarcas(Len(stackVar) + 1)
    /\ p = "cerrada" => /\ Sacando /\ conf.llavesDisponibles > 0
                        /\ Len(stackVar) + 1 \in Serie!Marcas
                        /\ SinMarcas(Len(stackVar) + 2)
    /\ p = "limpia" => Sacando

HTipos == /\ DOMAIN conf = Campos
          /\ paso \in [Hilos -> Pasos]
          /\ fallo = conf.fallo


HInv == /\ P!IInv /\ HTipos
        /\ fallo = "no" => \A h \in Hilos : Donde(paso[h])

-----------------------------------------------------------------------------
(* The two instances of LineReader are the same. *)

USE DEF Serie!Valores, Valores, P!Valores

LEMMA MismaInvariante ==
    P!IInv => Serie!TypeOK /\ Serie!MemoriaCoherente
BY DEF P!IInv, P!TypeOK, Serie!TypeOK, P!MemoriaCoherente, Serie!MemoriaCoherente,
   P!NombresUnicos, Serie!NombresUnicos, P!PilaOrdenada, Serie!PilaOrdenada,
   P!UnBloquePorVariable, Serie!UnBloquePorVariable, P!BloqueDelTipo, Serie!BloqueDelTipo,
   P!Variable, Serie!Variable, P!Respuestas, Serie!Respuestas, P!Clases, Serie!Clases,
   P!Slots, Serie!Slots, P!ValoresDe, Serie!ValoresDe

(* Where the stack and the memory are those of conf, so is what is read of
   them. *)
LEMMA MismaLectura ==
    ASSUME stackVar = conf.stackVar
    PROVE  /\ \A n : Serie!Existe(n) <=> Existe(n)
           /\ \A n : Serie!encontrarVar(n) = encontrarVar(n)
           /\ \A n : Serie!Variable_de(n) = Variable_de(n)
BY DEF Serie!Existe, Existe, Serie!encontrarVar, encontrarVar, Serie!Variable_de, Variable_de

LEMMA MismosResultados ==
    ASSUME stackVar = conf.stackVar, memoria = conf.memoria
    PROVE  /\ \A e : Serie!Resultado(e) = Resultado(e)
           /\ \A o : Serie!LeerChar(o) = LeerChar(o)
<1>1. \A x : Serie!valorVarNum(x) = valorVarNum(x) /\ Serie!CaracterEn(x) = CaracterEn(x)
  BY DEF Serie!valorVarNum, valorVarNum, Serie!CaracterEn, CaracterEn
<1>2. \A o : Serie!LeerNum(o) = LeerNum(o) /\ Serie!LeerChar(o) = LeerChar(o)
  BY <1>1, MismaLectura DEF Serie!LeerNum, LeerNum, Serie!LeerChar, LeerChar,
     Serie!Operandos, Operandos
<1> QED
  BY <1>2 DEF Serie!Resultado, Resultado

LEMMA MismoNext == Serie!Next <=> P!Next
BY DEF P!Valores, Serie!Valores, P!TiposNum, Serie!TiposNum, P!Slots, Serie!Slots,
   P!Variable, Serie!Variable, P!Operandos, Serie!Operandos, P!Expresiones,
   Serie!Expresiones, P!SinIgual, Serie!SinIgual, P!Clases, Serie!Clases, P!Respuestas,
   Serie!Respuestas, P!Existe, Serie!Existe, P!encontrarVar, Serie!encontrarVar,
   P!Variable_de, Serie!Variable_de, P!valorVarNum, Serie!valorVarNum, P!CaracterEn,
   Serie!CaracterEn, P!LeerNum, Serie!LeerNum, P!LeerChar, Serie!LeerChar, P!Resultado,
   Serie!Resultado, P!separarAsignacion, Serie!separarAsignacion, P!Responder,
   Serie!Responder, P!error, Serie!error, P!Fallar, Serie!Fallar, P!abrirLlaves,
   Serie!abrirLlaves, P!Liberada, Serie!Liberada, P!popVariables, Serie!popVariables,
   P!Marcas, Serie!Marcas, P!Sacadas, Serie!Sacadas, P!FinDelBloque, Serie!FinDelBloque,
   P!cerrarBloque, Serie!cerrarBloque, P!cerrarSinMarca, Serie!cerrarSinMarca,
   P!cerrarSinAbrir, Serie!cerrarSinAbrir, P!cerrarLlaves, Serie!cerrarLlaves,
   P!imprimirTexto, Serie!imprimirTexto, P!imprimirVariable, Serie!imprimirVariable,
   P!imprimirDesconocida, Serie!imprimirDesconocida, P!imprimir, Serie!imprimir,
   P!declararRepetida, Serie!declararRepetida, P!SlotNuevo, Serie!SlotNuevo,
   P!declararNueva, Serie!declararNueva, P!declararDesbordada, Serie!declararDesbordada,
   P!declarar, Serie!declarar, P!Declaracion, Serie!Declaracion, P!Escribir, Serie!Escribir,
   P!Escrita, Serie!Escrita, P!asignarNum, Serie!asignarNum, P!asignarChar,
   Serie!asignarChar, P!asignarCharNulo, Serie!asignarCharNulo, P!asignarCharIndefinido,
   Serie!asignarCharIndefinido, P!asignar, Serie!asignar, P!Asignacion, Serie!Asignacion,
   P!clear, Serie!clear, P!memory, Serie!memory, P!leerLinea, Serie!leerLinea, P!Next,
   Serie!Next

LEMMA InvarianteSigue ==
    ASSUME P!IInv, Serie!Next \/ UNCHANGED conf
    PROVE  P!IInv'
<1>1. [P!Next]_P!vars
  BY MismoNext DEF P!vars
<1> QED
  BY <1>1, P!Paso, TiposAssumption, ValoresAssumption, AritmeticaAssumption, CotasAssumption
  DEF P!TiposNum, TiposNum, P!TodosTipos, TodosTipos

-----------------------------------------------------------------------------
(* How steps end, seen from conf. *)

LEMMA Respondida ==
    ASSUME NEW h \in Hilos, HTipos, Responde(h), fallo = "no", fallo' = fallo
    PROVE  Igual' /\ HTipos' /\ paso'[h] = "libre" /\ Donde(paso[h])'
<1>1. /\ conf'.stackVar = stackVar' /\ conf'.memoria = memoria'
      /\ conf'.numVariables = numVariables' /\ conf'.llavesDisponibles = llavesDisponibles'
      /\ conf'.isllaveAbierta = isllaveAbierta' /\ conf'.fallo = fallo'
      /\ conf'.respuesta = respuesta' /\ DOMAIN conf' = Campos
  BY DEF Responde, Campos
<1>2. Igual'
  BY <1>1 DEF Igual, Resto
<1>3. paso' \in [Hilos -> Pasos] /\ paso'[h] = "libre"
  BY DEF Responde, HTipos, Pasos
<1> QED
  BY <1>1, <1>2, <1>3 DEF HTipos, Donde

LEMMA Seguida ==
    ASSUME NEW h \in Hilos, HTipos, NEW q \in Pasos, Sigue(h, q), fallo' = fallo
    PROVE  HTipos' /\ paso'[h] = q /\ conf' = conf
BY DEF HTipos, Sigue

LEMMA Muerta ==
    ASSUME HTipos, Resto, NEW como \in {"nulo", "indefinido"}, Muere(como)
    PROVE  Serie!Fallar(como) /\ HTipos' /\ fallo' # "no"
<1>1. /\ conf' = [conf EXCEPT !.fallo = como] /\ DOMAIN conf = Campos
  BY DEF Muere, HTipos
<1>2. /\ conf'.stackVar = conf.stackVar /\ conf'.memoria = conf.memoria
      /\ conf'.numVariables = conf.numVariables
      /\ conf'.llavesDisponibles = conf.llavesDisponibles
      /\ conf'.isllaveAbierta = conf.isllaveAbierta /\ conf'.fallo = como
      /\ conf'.respuesta = conf.respuesta /\ DOMAIN conf' = Campos
  BY <1>1 DEF Campos
<1> QED
  BY <1>2 DEF Muere, Fallar, Serie!Fallar, HTipos

(* Requests that are one step here too. *)
LEMMA UnPaso ==
    ASSUME Igual, Igual'
    PROVE  /\ abrirLlaves => Serie!abrirLlaves
           /\ error => Serie!error
           /\ memory => Serie!memory
           /\ imprimirTexto => Serie!imprimirTexto
           /\ \A n : imprimirVariable(n) => Serie!imprimirVariable(n)
           /\ \A n : imprimirDesconocida(n) => Serie!imprimirDesconocida(n)
           /\ \A n : declararRepetida(n) => Serie!declararRepetida(n)
           /\ \A n, v : asignarNum(n, v) => Serie!asignarNum(n, v)
           /\ \A n, v : asignarChar(n, v) => Serie!asignarChar(n, v)
<1> USE DEF Igual, Resto, Serie!Responder, Responder
<1>1. /\ abrirLlaves => Serie!abrirLlaves
      /\ error => Serie!error
      /\ memory => Serie!memory
      /\ imprimirTexto => Serie!imprimirTexto
  BY DEF abrirLlaves, Serie!abrirLlaves, error, Serie!error, memory, Serie!memory,
     imprimirTexto, Serie!imprimirTexto
<1>2. /\ \A n : imprimirVariable(n) => Serie!imprimirVariable(n)
      /\ \A n : imprimirDesconocida(n) => Serie!imprimirDesconocida(n)
      /\ \A n : declararRepetida(n) => Serie!declararRepetida(n)
  BY <1>1, MismaLectura DEF imprimirVariable, Serie!imprimirVariable, imprimirDesconocida,
     Serie!imprimirDesconocida, declararRepetida, Serie!declararRepetida
<1>3. \A n : Escrita(n) => Serie!Escrita(n)
  BY MismaLectura DEF Escrita, Serie!Escrita
<1>4. \A p, v : Escribir(p, v) => Serie!Escribir(p, v)
  BY DEF Escribir, Serie!Escribir
<1>5. \A n, v : asignarNum(n, v) => Serie!asignarNum(n, v)
  BY <1>3, <1>4, MismaLectura DEF asignarNum, Serie!asignarNum
<1>6. \A n, v : asignarChar(n, v) => Serie!asignarChar(n, v)
  BY <1>3, <1>4 DEF asignarChar, Serie!asignarChar, Slots, Serie!Slots
<1> QED
  BY <1>1, <1>2, <1>5, <1>6

(* With nothing popped yet. *)
LEMMA NadaSacado == P!IInv /\ Igual => Sacando
<1> SUFFICES ASSUME P!IInv, Igual PROVE Sacando
  OBVIOUS
<1>1. /\ stackVar \in Seq(Serie!Variable) /\ numVariables \in Int
      /\ memoria \in [Slots -> Valores \cup {Nulo, Indeterminado}]
  BY MismaInvariante DEF Igual, Serie!TypeOK, Serie!Slots, Slots
<1>2. Len(stackVar) \in Nat /\ stackVar = SubSeq(stackVar, 1, Len(stackVar))
  BY <1>1
<1>3. Serie!Liberada(Len(stackVar) + 1) = memoria
  <2>1. ~ \E i \in Len(stackVar) + 1..Len(stackVar) : TRUE
    BY <1>2
  <2>2. Serie!Liberada(Len(stackVar) + 1) = [p \in Slots |-> memoria[p]]
    BY <2>1 DEF Serie!Liberada, Igual, Serie!Slots, Slots
  <2> QED
    BY <1>1, <2>2
<1> QED
  BY <1>1, <1>2, <1>3 DEF Sacando, Igual

(* The variable of a name that exists, its block and what it holds. *)
LEMMA VariableDe ==
    ASSUME P!IInv, Igual, NEW n, Existe(n)
    PROVE  /\ Variable_de(n) \in Variable /\ Variable_de(n).tipo \in Tipos
           /\ Variable_de(n).posicion \in Slots
           /\ memoria[Variable_de(n).posicion] \in ValoresDe(Variable_de(n).tipo)
<1>1. /\ stackVar \in Seq(Variable) /\ \A i \in 1..Len(stackVar) : stackVar[i].posicion \in Slots
      /\ \A i \in 1..Len(stackVar) : memoria[stackVar[i].posicion] \in ValoresDe(stackVar[i].tipo)
  BY MismaInvariante DEF Igual, Serie!TypeOK, Serie!MemoriaCoherente, Serie!PilaOrdenada,
     Serie!BloqueDelTipo, Serie!Variable, Variable, Serie!Slots, Slots, Serie!ValoresDe, ValoresDe
<1>2. P!TypeOK /\ P!NombresUnicos /\ P!Existe(n)
  BY DEF P!IInv, P!MemoriaCoherente, P!Existe, Existe, Igual
<1>3. P!encontrarVar(n) \in 1..Len(conf.stackVar)
  BY <1>2, P!Encontrada, TiposAssumption, ValoresAssumption, AritmeticaAssumption,
     CotasAssumption DEF P!TiposNum, TiposNum, P!TodosTipos, TodosTipos
<1>4. encontrarVar(n) \in 1..Len(stackVar)
  BY <1>3 DEF P!encontrarVar, encontrarVar, Igual
<1>5. Variable_de(n) = stackVar[encontrarVar(n)] /\ stackVar[encontrarVar(n)] \in Variable
  BY <1>1, <1>4 DEF Variable_de
<1>6. Variable_de(n).tipo \in Tipos
  BY <1>5 DEF Variable
<1> QED
  BY <1>1, <1>4, <1>5, <1>6

-----------------------------------------------------------------------------
(* The steps, one lemma for each place where the thread may be. *)

(* What each step has to show. *)
Bien(h) == /\ Serie!Next \/ UNCHANGED conf
           /\ HTipos'
           /\ fallo' = "no" => Donde(paso[h])'

LEMMA FinBien ==
    ASSUME NEW h \in Hilos, HTipos, fallo = "no", Igual, Responde(h),
           abrirLlaves \/ error \/ memory \/ imprimirTexto
               \/ \E n \in Nombres : imprimirVariable(n) \/ imprimirDesconocida(n)
    PROVE  Bien(h)
<1>1. fallo' = fallo
  BY DEF abrirLlaves, error, memory, imprimirTexto, imprimirVariable, imprimirDesconocida
<1>2. Igual' /\ HTipos' /\ Donde(paso[h])'
  BY <1>1, Respondida
<1>3. Serie!leerLinea \/ Serie!memory
  BY <1>2, UnPaso DEF Serie!leerLinea, Serie!imprimir
<1>4. conf.fallo = "no"
  BY DEF HTipos
<1> QED
  BY <1>2, <1>3, <1>4 DEF Bien, Serie!Next

LEMMA RechazaBien ==
    ASSUME NEW h \in Hilos, HTipos, fallo = "no", Igual, Rechaza(h)
    PROVE  Bien(h)
BY FinBien DEF Rechaza

LEMMA LineaLeida ==
    ASSUME NEW l \in Lineas
    PROVE  /\ l.que = "declara" => l.tipo \in Tipos /\ l.expr \in Expresiones \cup {SinIgual}
           /\ l.que = "asigna" => l.expr \in Expresiones
           /\ l.que \in {"declara", "asigna", "cout"} => l.nombre \in Nombres
           /\ DOMAIN l = {"que", "tipo", "nombre", "expr"}
BY DEF Lineas, Linea

LEMMA LibreBien ==
    ASSUME HInv, NEW h \in Hilos, Hilos = {h}, fallo = "no",
           (\E l \in Lineas : NewLine(h, l)) \/ ClearLines(h) \/ MemorySaved(h)
    PROVE  Bien(h)
<1>1. paso[h] = "libre" /\ Igual /\ HTipos
  BY DEF HInv, NewLine, ClearLines, MemorySaved, Donde
<1>2. ASSUME NEW l \in Lineas, NewLine(h, l) PROVE Bien(h)
  <2>1. UNCHANGED vars /\ linea' = l /\ Sigue(h, "leida")
    BY <1>2 DEF NewLine
  <2>2. HTipos' /\ paso'[h] = "leida" /\ conf' = conf
    BY <1>1, <2>1, Seguida DEF vars, Pasos
  <2>3. Igual'
    BY <1>1, <2>1, <2>2 DEF Igual, Resto, vars
  <2> QED
    BY <2>1, <2>2, <2>3 DEF Bien, Donde
<1>3. CASE ClearLines(h)
  <2>1. UNCHANGED vars /\ Sigue(h, "limpia")
    BY <1>3 DEF ClearLines
  <2>2. HTipos' /\ paso'[h] = "limpia" /\ conf' = conf
    BY <1>1, <2>1, Seguida DEF vars, Pasos
  <2>4. Sacando
    BY <1>1, NadaSacado DEF HInv
  <2>5. Sacando'
    BY <2>1, <2>2, <2>4 DEF Sacando, Resto, vars, Serie!Liberada, Serie!Slots
  <2> QED
    BY <2>2, <2>5 DEF Bien, Donde
<1>4. CASE MemorySaved(h)
  BY <1>1, <1>4, FinBien DEF MemorySaved
<1> QED
  BY <1>2, <1>3, <1>4

LEMMA LeidaBien ==
    ASSUME HInv, NEW h \in Hilos, Hilos = {h}, fallo = "no", definirOperacion(h)
    PROVE  Bien(h)
<1>1. paso[h] = "leida" /\ Igual /\ HTipos /\ linea \in Lineas
  BY DEF HInv, definirOperacion, Donde
<1>2. CASE Abrir(h)
  BY <1>1, <1>2, FinBien DEF Abrir
<1>3. CASE EmpiezaACerrar(h)
  <2>1. CASE Rechaza(h)
    BY <1>1, <2>1, RechazaBien
  <2>2. CASE llavesDisponibles > 0 /\ Sigue(h, "cierra") /\ UNCHANGED <<vars, trabajo>>
    <3>1. HTipos' /\ paso'[h] = "cierra" /\ conf' = conf
      BY <1>1, <2>2, Seguida DEF vars, Pasos
    <3>2. Sacando /\ conf.llavesDisponibles > 0
      BY <1>1, <2>2, NadaSacado DEF HInv, Igual, Resto
    <3>3. Sacando'
      BY <2>2, <3>1, <3>2 DEF Sacando, Resto, vars, Serie!Liberada, Serie!Slots
    <3>4. SinMarcas(Len(stackVar) + 1)'
      <4>1. stackVar' = conf.stackVar /\ Len(stackVar) \in Nat
        BY <1>1, <2>2, MismaInvariante DEF Igual, vars, HInv, Serie!TypeOK
      <4>2. ~ \E i \in Len(stackVar) + 1..Len(stackVar) : TRUE
        BY <4>1
      <4> QED
        BY <2>2, <3>1, <4>1, <4>2 DEF SinMarcas, vars
    <3> QED
      BY <3>1, <3>2, <3>3, <3>4 DEF Bien, Donde
  <2> QED
    BY <1>3, <2>1, <2>2 DEF EmpiezaACerrar
<1>4. CASE Imprimir(h)
  <2>1. linea.nombre \in Nombres
    BY <1>1, <1>4, LineaLeida DEF Imprimir
  <2> QED
    BY <1>1, <1>4, <2>1, FinBien DEF Imprimir
<1>5. CASE EsDeclaracion(h)
  <2>1. /\ primeraPalabra' = Nulo /\ tipoVar' = linea.tipo /\ Sigue(h, "separaD")
        /\ linea.que = "declara" /\ UNCHANGED <<vars, linea>>
    BY <1>5 DEF EsDeclaracion
  <2>2. HTipos' /\ paso'[h] = "separaD" /\ conf' = conf
    BY <1>1, <2>1, Seguida DEF vars, Pasos
  <2>3. Igual'
    BY <1>1, <2>1, <2>2 DEF Igual, Resto, vars
  <2>4. LineaDe' /\ linea'.expr \in Expresiones \cup {SinIgual}
    BY <1>1, <2>1, LineaLeida DEF LineaDe
  <2> QED
    BY <2>2, <2>3, <2>4 DEF Bien, Donde
<1>6. CASE EsAsignacion(h)
  <2> DEFINE x == Variable_de(linea.nombre)
  <2>1. /\ linea.que = "asigna" /\ Existe(linea.nombre) /\ Sigue(h, "separaA")
        /\ primeraPalabra' = linea.nombre /\ tipoVar' = x.tipo
        /\ linea' = [linea EXCEPT !.que = "declara", !.tipo = x.tipo]
        /\ UNCHANGED vars
    BY <1>6 DEF EsAsignacion
  <2>2. HTipos' /\ paso'[h] = "separaA" /\ conf' = conf
    BY <1>1, <2>1, Seguida DEF vars, Pasos
  <2>3. Igual'
    BY <1>1, <2>1, <2>2 DEF Igual, Resto, vars
  <2>4. /\ linea'.que = "declara" /\ linea'.tipo = x.tipo
        /\ linea'.nombre = linea.nombre /\ linea'.expr = linea.expr
        /\ linea.nombre \in Nombres /\ linea.expr \in Expresiones
    BY <1>1, <2>1, LineaLeida
  <2>5. x.tipo \in Tipos
    BY <1>1, <2>1, VariableDe DEF HInv
  <2>6. Existe(linea.nombre)' /\ Variable_de(linea.nombre)' = x
    BY <2>1, <2>4 DEF Existe, Variable_de, encontrarVar, vars
  <2>7. Existe(primeraPalabra)' /\ Variable_de(primeraPalabra)' = x
    BY <2>1, <2>4, <2>6
  <2> HIDE DEF x
  <2> QED
    BY <2>1, <2>2, <2>3, <2>4, <2>5, <2>7 DEF Bien, Donde, LineaDe
<1>7. CASE EsDesconocida(h)
  BY <1>1, <1>7, RechazaBien DEF EsDesconocida
<1> QED
  BY <1>2, <1>3, <1>4, <1>5, <1>6, <1>7 DEF definirOperacion

LEMMA SepararBien ==
    ASSUME HInv, NEW h \in Hilos, Hilos = {h}, fallo = "no", Separar(h)
    PROVE  Bien(h)
<1>1. /\ paso[h] \in {"separaD", "separaA"} /\ Igual /\ HTipos /\ LineaDe
      /\ linea.expr \in Expresiones \cup {SinIgual}
  BY DEF HInv, Separar, Donde
<1>2. CASE Rechaza(h)
  BY <1>1, <1>2, RechazaBien
<1>3. ASSUME NEW n \in NombreEn(linea), NEW num \in Numeros, NEW car \in Caracteres,
             Evaluada(linea.expr, num, car),
             nombreVar' = n, valorVarNumT' = num, valorVarChar' = car,
             Sigue(h, IF paso[h] = "separaD" THEN "declara" ELSE "asigna"),
             UNCHANGED <<vars, linea, primeraPalabra, tipoVar>>
      PROVE  Bien(h)
  <2> DEFINE q == IF paso[h] = "separaD" THEN "declara" ELSE "asigna"
             e == linea.expr
  <2>1. HTipos' /\ paso'[h] = q /\ conf' = conf
    BY <1>1, <1>3, Seguida DEF vars, Pasos
  <2>2. Igual'
    BY <1>1, <1>3, <2>1 DEF Igual, Resto, vars
  <2>3. n = linea.nombre /\ n \in Nombres
    BY <1>1 DEF NombreEn, LineaDe
  <2>4. Evaluo(e)'
    <3>1. tipoVar' = tipoVar /\ e' = e
      BY <1>3
    <3>2. Serie!separarAsignacion(tipoVar, e)' = Serie!separarAsignacion(tipoVar, e)
      BY <2>1, <3>1 DEF Serie!separarAsignacion, Serie!Resultado,
         Serie!LeerNum, Serie!LeerChar, Serie!Existe, Serie!valorVarNum, Serie!CaracterEn,
         Serie!Variable_de, Serie!encontrarVar
    <3>3. Convertida' = IF tipoVar = "char" THEN car ELSE Conversion[tipoVar][num]
      BY <1>3 DEF Convertida
    <3>4. num \in Resultado(e) <=> num \in Serie!Resultado(e)
      BY <1>1, MismosResultados DEF Igual
    <3>5. LeerChar(e.a) = Serie!LeerChar(e.a)
      BY <1>1, MismosResultados DEF Igual
    <3>6. Convertida' \in Serie!separarAsignacion(tipoVar, e)
      BY <1>3, <3>3, <3>4, <3>5 DEF Evaluada, Serie!separarAsignacion, Serie!SinIgual, SinIgual
    <3> QED
      BY <3>2, <3>6 DEF Evaluo
  <2>5. Convertida' \in Valores
    <3>1. P!IInv'
      BY <2>1, InvarianteSigue DEF HInv
    <3>2. tipoVar \in Tipos
      BY <1>1 DEF LineaDe
    <3>3. Convertida' = IF tipoVar = "char" THEN car ELSE Conversion[tipoVar][num]
      BY <1>3 DEF Convertida
    <3>4. tipoVar # "char" => Conversion[tipoVar][num] \in Numeros
      BY <3>2, AritmeticaAssumption DEF TiposNum
    <3> QED
      BY <3>3, <3>4
  <2>6. CASE paso[h] = "separaD"
    <3>1. DeDeclaracion'
      BY <1>1, <1>3, <2>3, <2>4, <2>5 DEF DeDeclaracion, LineaDe
    <3> QED
      BY <2>1, <2>2, <2>6, <3>1 DEF Bien, Donde
  <2>7. CASE paso[h] = "separaA"
    <3>1. /\ e \in Expresiones /\ primeraPalabra = linea.nombre /\ Existe(primeraPalabra)
          /\ tipoVar = Variable_de(primeraPalabra).tipo
      BY <2>7 DEF HInv, Donde
    <3>2. Existe(primeraPalabra)' /\ Variable_de(primeraPalabra)' = Variable_de(primeraPalabra)
      BY <1>3, <3>1 DEF Existe, Variable_de, encontrarVar, vars
    <3>3. /\ primeraPalabra' \in Nombres /\ tipoVar' = Variable_de(primeraPalabra)'.tipo
          /\ e \in Expresiones /\ Evaluo(e)' /\ e' = e
      BY <1>3, <2>3, <2>4, <3>1, <3>2
    <3>4. \E x \in Expresiones : Evaluo(x)'
      BY <3>3 DEF Evaluo
    <3> QED
      BY <2>1, <2>2, <2>7, <3>2, <3>3, <3>4 DEF Bien, Donde
  <2> QED
    BY <1>1, <2>6, <2>7
<1> QED
  BY <1>2, <1>3 DEF Separar

(* The request of a declaration ends as declarar says. *)
LEMMA DeclaraNext ==
    ASSUME DeDeclaracion, conf.fallo = "no", Serie!declarar(tipoVar, nombreVar, Convertida)
    PROVE  Serie!Next
<1>1. PICK e \in Expresiones \cup {SinIgual} : Convertida \in Serie!separarAsignacion(tipoVar, e)
  BY DEF DeDeclaracion, Evaluo
<1>2. Serie!Declaracion(tipoVar, nombreVar, e)
  BY <1>1 DEF Serie!Declaracion
<1>3. e \in Serie!Expresiones \cup {Serie!SinIgual}
  BY DEF Serie!Expresiones, Expresiones, Serie!SinIgual, SinIgual, Serie!Operandos, Operandos
<1> QED
  BY <1>2, <1>3 DEF Serie!Next, Serie!leerLinea, DeDeclaracion

LEMMA MismaDeclaracion ==
    ASSUME DeDeclaracion, UNCHANGED <<tipoVar, nombreVar, valorVarNumT, valorVarChar, conf>>
    PROVE  DeDeclaracion' /\ Convertida' = Convertida
<1>1. Convertida' = Convertida
  BY DEF Convertida
<1>2. ASSUME NEW e PROVE Evaluo(e)' <=> Evaluo(e)
  BY <1>1 DEF Evaluo, Serie!separarAsignacion, Serie!Resultado,
     Serie!LeerNum, Serie!LeerChar, Serie!Existe, Serie!valorVarNum, Serie!CaracterEn,
     Serie!Variable_de, Serie!encontrarVar
<1> QED
  BY <1>1, <1>2 DEF DeDeclaracion

LEMMA ContarBien ==
    ASSUME HInv, NEW h \in Hilos, Hilos = {h}, fallo = "no", Contar(h)
    PROVE  Bien(h)
<1>1. /\ paso[h] = "declara" /\ Igual /\ HTipos /\ DeDeclaracion /\ conf.fallo = "no"
  BY DEF HInv, Contar, Donde, HTipos
<1>2. CASE Existe(nombreVar) /\ Responder("Error", Nulo, Nulo) /\ Responde(h)
  <2>1. declararRepetida(nombreVar) /\ fallo' = fallo
    BY <1>2 DEF Contar, declararRepetida
  <2>2. Igual' /\ HTipos' /\ Donde(paso[h])'
    BY <1>1, <1>2, <2>1, Respondida
  <2>3. Serie!declarar(tipoVar, nombreVar, Convertida)
    BY <1>1, <2>1, <2>2, UnPaso DEF Serie!declarar
  <2> QED
    BY <1>1, <2>2, <2>3, DeclaraNext DEF Bien
<1>3. CASE ~Existe(nombreVar) /\ UNCHANGED respuesta /\ Sigue(h, "guarda")
  <2>1. /\ numVariables' = numVariables + 1
        /\ UNCHANGED <<stackVar, memoria, llavesDisponibles, isllaveAbierta, fallo, trabajo>>
    BY DEF Contar
  <2>2. HTipos' /\ paso'[h] = "guarda" /\ conf' = conf
    BY <1>1, <1>3, <2>1, Seguida DEF Pasos
  <2>3. DeDeclaracion'
    BY <1>1, <2>1, <2>2, MismaDeclaracion DEF trabajo
  <2>4. ~Existe(nombreVar)'
    BY <1>3, <2>1 DEF Existe, trabajo
  <2>5. /\ stackVar' = conf'.stackVar /\ memoria' = conf'.memoria /\ Resto'
        /\ numVariables' = conf'.numVariables + 1
    BY <1>1, <1>3, <2>1, <2>2 DEF Igual, Resto
  <2> QED
    BY <2>2, <2>3, <2>4, <2>5 DEF Bien, Donde
<1> QED
  BY <1>2, <1>3 DEF Contar

LEMMA GuardarBien ==
    ASSUME HInv, NEW h \in Hilos, Hilos = {h}, fallo = "no", Guardar(h)
    PROVE  Bien(h)
<1>1. /\ paso[h] = "guarda" /\ stackVar = conf.stackVar /\ memoria = conf.memoria /\ Resto
      /\ numVariables = conf.numVariables + 1 /\ HTipos /\ DeDeclaracion
      /\ ~Existe(nombreVar) /\ conf.fallo = "no"
  BY DEF HInv, Guardar, Donde, HTipos
<1>2. CASE /\ numVariables \in Slots /\ Escribir(numVariables, Convertida) /\ Sigue(h, "apila")
           /\ UNCHANGED <<stackVar, numVariables, llavesDisponibles, isllaveAbierta, fallo,
                          respuesta, trabajo>>
  <2>1. HTipos' /\ paso'[h] = "apila" /\ conf' = conf
    BY <1>1, <1>2, Seguida DEF Pasos
  <2>2. DeDeclaracion' /\ Convertida' = Convertida
    BY <1>1, <1>2, <2>1, MismaDeclaracion DEF trabajo
  <2>3. ~Existe(nombreVar)'
    BY <1>1, <1>2 DEF Existe, trabajo
  <2>4. /\ stackVar' = conf'.stackVar /\ Resto'
        /\ numVariables' = conf'.numVariables + 1 /\ numVariables' \in Slots
        /\ memoria' = [conf'.memoria EXCEPT ![numVariables'] = Convertida']
    BY <1>1, <1>2, <2>1, <2>2 DEF Resto, Escribir
  <2> QED
    BY <2>1, <2>2, <2>3, <2>4 DEF Bien, Donde
<1>3. CASE numVariables \notin Slots /\ Muere("indefinido")
  <2>1. Serie!Fallar("indefinido") /\ HTipos' /\ fallo' # "no"
    BY <1>1, <1>3, Muerta
  <2>2. ~Serie!Existe(nombreVar)
    BY <1>1, MismaLectura
  <2>3. Serie!declararDesbordada(nombreVar)
    BY <1>1, <1>3, <2>1, <2>2 DEF Serie!declararDesbordada, Serie!SlotNuevo, Serie!Slots, Slots
  <2> QED
    BY <1>1, <2>1, <2>3, DeclaraNext DEF Bien, Serie!declarar
<1> QED
  BY <1>2, <1>3 DEF Guardar

LEMMA ApilarBien ==
    ASSUME HInv, NEW h \in Hilos, Hilos = {h}, fallo = "no", Apilar(h)
    PROVE  Bien(h)
<1>1. /\ paso[h] = "apila" /\ stackVar = conf.stackVar /\ Resto
      /\ numVariables = conf.numVariables + 1 /\ numVariables \in Slots
      /\ memoria = [conf.memoria EXCEPT ![numVariables] = Convertida]
      /\ HTipos /\ DeDeclaracion /\ ~Existe(nombreVar) /\ conf.fallo = "no"
  BY DEF HInv, Apilar, Donde, HTipos
<1>2. memoria[numVariables] = Convertida /\ Convertida \in Valores
  <2>1. DOMAIN conf.memoria = Slots
    BY MismaInvariante DEF HInv, Serie!TypeOK, Serie!Slots, Slots
  <2> QED
    BY <1>1, <2>1 DEF DeDeclaracion
<1>3. /\ stackVar' = Append(stackVar, [tipo |-> tipoVar, nombre |-> nombreVar,
                posicion |-> numVariables, comienzoLlaves |-> isllaveAbierta])
      /\ isllaveAbierta' = FALSE
      /\ Responder("Declaracion", nombreVar, memoria[numVariables])
      /\ UNCHANGED <<memoria, numVariables, llavesDisponibles, fallo>>
      /\ Responde(h)
  BY <1>1, <1>2, ValoresAssumption DEF Apilar
<1>4. Igual' /\ HTipos' /\ Donde(paso[h])'
  BY <1>1, <1>3, Respondida
<1>5. ~Serie!Existe(nombreVar)
  BY <1>1, MismaLectura
<1>6. Serie!SlotNuevo = numVariables /\ Serie!Slots = Slots
  BY <1>1 DEF Serie!SlotNuevo, Serie!Slots, Slots
<1>7. Serie!declararNueva(tipoVar, nombreVar, Convertida)
  BY <1>1, <1>2, <1>3, <1>4, <1>5, <1>6
  DEF Serie!declararNueva, Igual, Resto, Responder, Serie!Responder
<1> QED
  BY <1>1, <1>4, <1>7, DeclaraNext DEF Bien, Serie!declarar

LEMMA AsignaNext ==
    ASSUME Igual, conf.fallo = "no", primeraPalabra \in Nombres, Existe(primeraPalabra),
           tipoVar = Variable_de(primeraPalabra).tipo,
           NEW e \in Expresiones, Evaluo(e), Serie!asignar(primeraPalabra, Convertida)
    PROVE  Serie!Next
<1>1. Serie!Existe(primeraPalabra) /\ Serie!Variable_de(primeraPalabra).tipo = tipoVar
  BY MismaLectura DEF Igual
<1>2. Serie!Asignacion(primeraPalabra, e)
  BY <1>1 DEF Serie!Asignacion, Evaluo
<1>3. e \in Serie!Expresiones
  BY DEF Serie!Expresiones, Expresiones, Serie!Operandos, Operandos
<1> QED
  BY <1>2, <1>3 DEF Serie!Next, Serie!leerLinea

LEMMA AsignarBien ==
    ASSUME HInv, NEW h \in Hilos, Hilos = {h}, fallo = "no", Asignar(h)
    PROVE  Bien(h)
<1> DEFINE n == primeraPalabra
           q == Variable_de(n).posicion
<1>1. /\ paso[h] = "asigna" /\ Igual /\ HTipos /\ conf.fallo = "no"
      /\ n \in Nombres /\ Existe(n) /\ tipoVar = Variable_de(n).tipo
      /\ \E e \in Expresiones : Evaluo(e)
  BY DEF HInv, Asignar, Donde, HTipos
<1>2. PICK e \in Expresiones : Evaluo(e)
  BY <1>1
<1>3. Serie!Variable_de(n).tipo = tipoVar
  BY <1>1, MismaLectura DEF Igual
<1>4. q \in Slots /\ memoria[q] \in ValoresDe(tipoVar)
  BY <1>1, VariableDe DEF HInv
<1>5. CASE tipoVar # "char"
  <2>1. memoria[q] \in Numeros
    BY <1>4, <1>5 DEF ValoresDe
  <2>2. asignarNum(n, Convertida) /\ Responde(h)
    BY <1>1, <1>5, <2>1, ValoresAssumption DEF Asignar
  <2>3. Igual' /\ HTipos' /\ Donde(paso[h])'
    BY <1>1, <2>2, Respondida DEF asignarNum, Escrita
  <2>4. Serie!asignar(n, Convertida)
    BY <1>1, <1>3, <1>5, <2>2, <2>3, UnPaso DEF Serie!asignar
  <2> QED
    BY <1>1, <1>2, <2>3, <2>4, AsignaNext DEF Bien
<1>6. CASE tipoVar = "char"
  <2>1. CASE asignarChar(n, Convertida) /\ Responde(h)
    <3>1. Igual' /\ HTipos' /\ Donde(paso[h])'
      BY <1>1, <2>1, Respondida DEF asignarChar, Escrita
    <3>2. Serie!asignar(n, Convertida)
      BY <1>1, <1>3, <1>6, <2>1, <3>1, UnPaso DEF Serie!asignar
    <3> QED
      BY <1>1, <1>2, <3>1, <3>2, AsignaNext DEF Bien
  <2>2. CASE asignarCharNulo /\ Muere("nulo")
    <3>1. Serie!Fallar("nulo") /\ HTipos' /\ fallo' # "no"
      BY <1>1, <2>2, Muerta DEF Igual
    <3>2. Serie!asignarCharNulo
      BY <1>1, <2>2, <3>1 DEF asignarCharNulo, Serie!asignarCharNulo, Igual, Slots, Serie!Slots
    <3>3. Serie!asignar(n, Convertida)
      BY <1>3, <1>6, <3>2 DEF Serie!asignar
    <3> QED
      BY <1>1, <1>2, <3>1, <3>3, AsignaNext DEF Bien
  <2>3. CASE asignarCharIndefinido /\ Muere("indefinido")
    <3>1. Serie!Fallar("indefinido") /\ HTipos' /\ fallo' # "no"
      BY <1>1, <2>3, Muerta DEF Igual
    <3>2. Serie!asignarCharIndefinido
      BY <1>1, <2>3, <3>1
      DEF asignarCharIndefinido, Serie!asignarCharIndefinido, Igual, Slots, Serie!Slots
    <3>3. Serie!asignar(n, Convertida)
      BY <1>3, <1>6, <3>2 DEF Serie!asignar
    <3> QED
      BY <1>1, <1>2, <3>1, <3>3, AsignaNext DEF Bien
  <2> QED
    BY <1>1, <1>6, <2>1, <2>2, <2>3 DEF Asignar
<1> QED
  BY <1>5, <1>6

-----------------------------------------------------------------------------
(* The loops. *)

LEMMA PopUno ==
    ASSUME P!IInv, Sacando, stackVar # <<>>, popVariable, conf' = conf, fallo = conf.fallo
    PROVE  Sacando' /\ Len(stackVar') = Len(stackVar) - 1
<1> DEFINE N == Len(conf.stackVar)
           k == Len(stackVar)
<1>1. /\ conf.stackVar \in Seq(Serie!Variable) /\ conf.numVariables \in Int /\ N \in Nat
  BY MismaInvariante DEF Serie!TypeOK
<1>2. /\ stackVar = SubSeq(conf.stackVar, 1, k) /\ k <= N /\ k \in 1..N
      /\ stackVar \in Seq(Serie!Variable)
  BY <1>1 DEF Sacando
<1>3. stackVar' = SubSeq(stackVar, 1, k - 1) /\ memoria' = Liberada(k)
  BY DEF popVariable, popVariables
<1>4. /\ stackVar' = SubSeq(conf.stackVar, 1, k - 1) /\ Len(stackVar') = k - 1
  BY <1>1, <1>2, <1>3
<1>5. stackVar[k] = conf.stackVar[k]
  BY <1>1, <1>2
<1>6. memoria' = Serie!Liberada(k)
  <2>1. memoria = Serie!Liberada(k + 1)
    BY DEF Sacando
  <2>2. \A i : i \in k..k <=> i = k
    BY <1>2
  <2>3. \A i : i \in k..N <=> i = k \/ i \in k + 1..N
    BY <1>1, <1>2
  <2>4. ASSUME NEW s \in Slots
        PROVE  (IF \E i \in k..k : stackVar[i].posicion = s THEN Nulo ELSE memoria[s])
                 = (IF \E i \in k..N : conf.stackVar[i].posicion = s THEN Nulo ELSE conf.memoria[s])
    <3>1. memoria[s] = IF \E i \in k + 1..N : conf.stackVar[i].posicion = s THEN Nulo
                       ELSE conf.memoria[s]
      BY <2>1 DEF Serie!Liberada, Serie!Slots, Slots
    <3>2. (\E i \in k..k : stackVar[i].posicion = s) <=> conf.stackVar[k].posicion = s
      BY <1>5, <2>2
    <3>3. (\E i \in k..N : conf.stackVar[i].posicion = s)
             <=> conf.stackVar[k].posicion = s \/ \E i \in k + 1..N : conf.stackVar[i].posicion = s
      BY <2>3
    <3> QED
      BY <3>1, <3>2, <3>3
  <2> QED
    BY <1>3, <2>4 DEF Liberada, Serie!Liberada, Slots, Serie!Slots
<1>7. numVariables' = conf.numVariables - (N - (k - 1)) /\ Resto'
  BY <1>1, <1>2 DEF popVariable, Sacando, Resto
<1>8. Len(stackVar') + 1 = k
  BY <1>2, <1>4
<1>9. Serie!Liberada(Len(stackVar) + 1)' = Serie!Liberada(k)
  BY <1>8 DEF Serie!Liberada, Serie!Slots
<1>10. Len(stackVar') <= N /\ N - (k - 1) = N - Len(stackVar')
  <2>1. Len(stackVar') = k - 1
    BY <1>4
  <2>2. k \in Int /\ N \in Int /\ k <= N
    BY <1>1, <1>2
  <2> HIDE DEF N, k
  <2>3. k - 1 <= N
    BY <2>2
  <2> QED
    BY <2>1, <2>3
<1>11. stackVar' = SubSeq(conf.stackVar, 1, Len(stackVar'))
  BY <1>4
<1> QED
  BY <1>4, <1>6, <1>7, <1>9, <1>10, <1>11 DEF Sacando

LEMMA SacarBloqueBien ==
    ASSUME HInv, NEW h \in Hilos, Hilos = {h}, fallo = "no", SacarBloque(h)
    PROVE  Bien(h)
<1> DEFINE N == Len(conf.stackVar)
           k == Len(stackVar)
<1>1. /\ paso[h] = "cierra" /\ Sacando /\ conf.llavesDisponibles > 0 /\ SinMarcas(k + 1)
      /\ HTipos /\ conf.fallo = "no" /\ fallo = conf.fallo
  BY DEF HInv, SacarBloque, Donde, HTipos
<1>2. /\ conf.stackVar \in Seq(Serie!Variable) /\ N \in Nat /\ k \in Nat /\ k <= N
  BY <1>1, MismaInvariante DEF HInv, Serie!TypeOK, Sacando
<1>3. CASE stackVar = <<>> /\ Muere("nulo")
  <2>1. Serie!Fallar("nulo") /\ HTipos' /\ fallo' # "no"
    BY <1>1, <1>3, Muerta DEF Sacando
  <2>2. Serie!Marcas = {}
    BY <1>1, <1>2, <1>3 DEF Serie!Marcas, SinMarcas
  <2>3. Serie!cerrarSinMarca
    BY <1>1, <2>1, <2>2 DEF Serie!cerrarSinMarca
  <2> QED
    BY <1>1, <2>1, <2>3 DEF Bien, Serie!Next, Serie!leerLinea, Serie!cerrarLlaves
<1>4. CASE /\ stackVar # <<>> /\ popVariable
           /\ Sigue(h, IF stackVar[k].comienzoLlaves THEN "cerrada" ELSE "cierra")
  <2>1. /\ HTipos' /\ conf' = conf
        /\ paso'[h] = IF stackVar[k].comienzoLlaves THEN "cerrada" ELSE "cierra"
    BY <1>1, <1>4, Seguida DEF Pasos, popVariable
  <2>2. Sacando' /\ Len(stackVar') = k - 1
    BY <1>1, <1>4, <2>1, PopUno DEF HInv
  <2>3. k \in 1..N /\ stackVar[k] = conf.stackVar[k] /\ Len(stackVar') + 1 = k
        /\ Len(stackVar') + 2 = k + 1
    BY <1>1, <1>2, <1>4, <2>2 DEF Sacando
  <2>4. CASE stackVar[k].comienzoLlaves
    <3>1. k \in Serie!Marcas
      BY <2>3, <2>4 DEF Serie!Marcas
    <3>2. (Len(stackVar) + 1 \in Serie!Marcas)'
      BY <2>1, <2>3, <3>1 DEF Serie!Marcas
    <3>3. SinMarcas(Len(stackVar) + 2)'
      BY <1>1, <2>1, <2>3 DEF SinMarcas
    <3>4. conf'.llavesDisponibles > 0
      BY <1>1, <2>1
    <3> QED
      BY <2>1, <2>2, <2>4, <3>2, <3>3, <3>4 DEF Bien, Donde
  <2>5. CASE ~stackVar[k].comienzoLlaves
    <3>1. \A i : i \in k..N <=> i = k \/ i \in k + 1..N
      BY <1>2, <2>3
    <3>2. SinMarcas(k)
      BY <1>1, <2>3, <2>5, <3>1 DEF SinMarcas
    <3>3. SinMarcas(Len(stackVar) + 1)'
      BY <2>1, <2>3, <3>2 DEF SinMarcas
    <3> QED
      BY <1>1, <2>1, <2>2, <2>5, <3>3 DEF Bien, Donde
  <2> QED
    BY <2>4, <2>5
<1> QED
  BY <1>3, <1>4 DEF SacarBloque

LEMMA CerrarBien ==
    ASSUME HInv, NEW h \in Hilos, Hilos = {h}, fallo = "no", Cerrar(h)
    PROVE  Bien(h)
<1> DEFINE k == Len(stackVar) + 1
<1>1. /\ paso[h] = "cerrada" /\ Sacando /\ conf.llavesDisponibles > 0
      /\ k \in Serie!Marcas /\ SinMarcas(Len(stackVar) + 2)
      /\ HTipos /\ conf.fallo = "no"
  BY DEF HInv, Cerrar, Donde, HTipos
<1>2. /\ conf.stackVar \in Seq(Serie!Variable) /\ Len(stackVar) \in Nat
      /\ conf.numVariables \in Int
  BY <1>1, MismaInvariante DEF HInv, Serie!TypeOK, Sacando
<1>3. Igual' /\ HTipos' /\ Donde(paso[h])'
  BY <1>1, Respondida DEF Cerrar
<1>4. Serie!FinDelBloque(k)
  <2>1. SUFFICES ASSUME NEW j \in Serie!Marcas, ~(j <= k) PROVE FALSE
    BY DEF Serie!FinDelBloque
  <2>2. j \in Len(stackVar) + 2..Len(conf.stackVar)
    BY <1>2, <2>1 DEF Serie!Marcas
  <2> QED
    BY <1>1, <2>1, <2>2 DEF SinMarcas, Serie!Marcas
<1>5. Serie!popVariables(k)
  BY <1>1, <1>2, <1>3 DEF Serie!popVariables, Sacando, Igual, Cerrar
<1>6. conf'.numVariables = conf.numVariables - Serie!Sacadas(k)
  <2>1. Len(conf.stackVar) \in Nat /\ Serie!Sacadas(k) = Len(conf.stackVar) - k + 1
    BY <1>2 DEF Serie!Sacadas
  <2>2. conf'.numVariables = conf.numVariables - (Len(conf.stackVar) - Len(stackVar))
    BY <1>1, <1>3 DEF Sacando, Igual, Cerrar
  <2> QED
    BY <1>2, <2>1, <2>2
<1>7. Serie!cerrarBloque
  BY <1>1, <1>3, <1>4, <1>5, <1>6
  DEF Serie!cerrarBloque, Cerrar, Igual, Resto, Sacando, Responder, Serie!Responder
<1> QED
  BY <1>1, <1>3, <1>7 DEF Bien, Serie!Next, Serie!leerLinea, Serie!cerrarLlaves

LEMMA LimpiarBien ==
    ASSUME HInv, NEW h \in Hilos, Hilos = {h}, fallo = "no", SacarTodo(h) \/ Limpiar(h)
    PROVE  Bien(h)
<1>1. /\ paso[h] = "limpia" /\ Sacando /\ HTipos /\ conf.fallo = "no" /\ fallo = conf.fallo
  BY DEF HInv, SacarTodo, Limpiar, Donde, HTipos
<1>2. CASE SacarTodo(h)
  <2>1. HTipos' /\ conf' = conf /\ paso'[h] = "limpia"
    BY <1>1, <1>2, Seguida DEF Pasos, popVariable, SacarTodo
  <2>2. Sacando'
    BY <1>1, <1>2, <2>1, PopUno DEF HInv, SacarTodo
  <2> QED
    BY <2>1, <2>2 DEF Bien, Donde
<1>3. CASE Limpiar(h)
  <2>1. stackVar = <<>> /\ clear /\ Responde(h)
    BY <1>3 DEF Limpiar
  <2>2. Igual' /\ HTipos' /\ Donde(paso[h])'
    BY <1>1, <2>1, Respondida DEF clear
  <2>3. memoria' = memoria /\ stackVar' = <<>>
    <3>1. memoria = [s \in Slots |-> memoria[s]]
      BY <1>1 DEF Sacando, Serie!Liberada, Serie!Slots, Slots
    <3>2. ~ \E i \in 1..Len(stackVar) : TRUE
      BY <2>1
    <3>3. Liberada(1) = [s \in Slots |-> memoria[s]]
      BY <3>2 DEF Liberada
    <3> QED
      BY <2>1, <3>1, <3>3 DEF clear, popVariables
  <2>4. memoria = Serie!Liberada(1) /\ SubSeq(conf.stackVar, 1, 0) = <<>>
    BY <1>1, <2>1 DEF Sacando
  <2>5. Serie!clear
    BY <2>1, <2>2, <2>3, <2>4, <1>1
    DEF clear, Serie!clear, Serie!popVariables, Igual, Resto, Responder, Serie!Responder
  <2> QED
    BY <1>1, <2>2, <2>5 DEF Bien, Serie!Next
<1> QED
  BY <1>2, <1>3

-----------------------------------------------------------------------------
LEMMA HInicio == HInit => HInv /\ Serie!Init
<1> SUFFICES ASSUME HInit PROVE HInv /\ Serie!Init
  OBVIOUS
<1>1. /\ stackVar = conf.stackVar /\ memoria = conf.memoria
      /\ numVariables = conf.numVariables /\ llavesDisponibles = conf.llavesDisponibles
      /\ isllaveAbierta = conf.isllaveAbierta /\ fallo = conf.fallo
      /\ respuesta = conf.respuesta /\ DOMAIN conf = Campos
  BY DEF HInit, Campos
<1>2. Serie!Init /\ P!Init
  BY <1>1 DEF HInit, Init, Serie!Init, Serie!Slots, Slots, P!Init, P!Slots
<1>3. P!IInv
  BY <1>2, P!Inicio, TiposAssumption, ValoresAssumption, AritmeticaAssumption, CotasAssumption
  DEF P!TiposNum, TiposNum, P!TodosTipos, TodosTipos
<1>4. HTipos
  BY <1>1 DEF HTipos, HInit, Pasos
<1>5. \A h \in Hilos : Donde(paso[h])
  <2>1. Igual /\ \A h \in Hilos : paso[h] = "libre"
    BY <1>1 DEF Igual, Resto, HInit
  <2> QED
    BY <2>1 DEF Donde
<1> QED
  BY <1>2, <1>3, <1>4, <1>5 DEF HInv

LEMMA HPaso ==
    ASSUME HInv, NEW h, Hilos = {h}, [HNext]_hvars
    PROVE  HInv' /\ (Serie!Next \/ UNCHANGED conf)
<1>1. CASE HNext
  <2>1. fallo = "no" /\ h \in Hilos
    BY <1>1 DEF HNext
  <2>2. Bien(h)
    BY <1>1, <2>1, LibreBien, LeidaBien, SepararBien, ContarBien, GuardarBien, ApilarBien,
       AsignarBien, SacarBloqueBien, CerrarBien, LimpiarBien DEF HNext
  <2>3. P!IInv'
    BY <2>2, InvarianteSigue DEF HInv, Bien
  <2> QED
    BY <2>2, <2>3 DEF Bien, HInv
<1>2. CASE UNCHANGED hvars
  <2>1. conf' = conf /\ UNCHANGED <<vars, trabajo, paso>>
    BY <1>2 DEF hvars
  <2>2. P!IInv'
    BY <2>1, InvarianteSigue DEF HInv
  <2>3. HTipos'
    BY <2>1 DEF HTipos, HInv, vars
  <2>4. Donde(paso[h]) => Donde(paso[h])'
    <3>1. UNCHANGED <<stackVar, memoria, numVariables, llavesDisponibles, isllaveAbierta, fallo,
                      respuesta, linea, primeraPalabra, tipoVar, nombreVar, valorVarNumT,
                      valorVarChar, paso, conf>>
      BY <2>1 DEF vars, trabajo
    <3>2. (Igual' <=> Igual) /\ (LineaDe' <=> LineaDe) /\ (Resto' <=> Resto)
      BY <3>1 DEF Igual, Resto, LineaDe
    <3>3. /\ Convertida' = Convertida
          /\ Existe(nombreVar)' <=> Existe(nombreVar)
          /\ Existe(primeraPalabra)' <=> Existe(primeraPalabra)
          /\ Variable_de(primeraPalabra)' = Variable_de(primeraPalabra)
      BY <3>1 DEF Convertida, Existe, Variable_de, encontrarVar
    <3>4. \A e : Evaluo(e)' <=> Evaluo(e)
      BY <3>1, <3>3 DEF Evaluo, Serie!separarAsignacion, Serie!Resultado,
         Serie!LeerNum, Serie!LeerChar, Serie!Existe, Serie!valorVarNum, Serie!CaracterEn,
         Serie!Variable_de, Serie!encontrarVar
    <3>5. DeDeclaracion' <=> DeDeclaracion
      BY <3>1, <3>3, <3>4 DEF DeDeclaracion
    <3>6. /\ Sacando' <=> Sacando
          /\ SinMarcas(Len(stackVar) + 1)' <=> SinMarcas(Len(stackVar) + 1)
          /\ SinMarcas(Len(stackVar) + 2)' <=> SinMarcas(Len(stackVar) + 2)
          /\ Serie!Marcas' = Serie!Marcas
      BY <3>1, <3>2 DEF Sacando, SinMarcas, Serie!Liberada, Serie!Slots, Serie!Marcas
    <3> QED
      BY <3>1, <3>2, <3>3, <3>4, <3>5, <3>6 DEF Donde
  <2> QED
    BY <2>1, <2>2, <2>3, <2>4 DEF HInv, vars
<1> QED
  BY <1>1, <1>2

(* With one thread in the pool, however many names, slots and braces there
   are: the steps of leerLinea, definirOperacion, separarAsignacion, declarar,
   asignar and the loops of popVariable are together the one step that
   LineReader makes of a request. *)
THEOREM UnHiloImplementa ==
    ASSUME NEW h, Hilos = {h}
    PROVE  HSpec => ImplementaLineReader
<1>1. HInit => HInv /\ Serie!Init
  BY HInicio
<1>2. HInv /\ [HNext]_hvars => HInv' /\ [Serie!Next]_Serie!vars
  BY HPaso DEF Serie!vars
<1> QED
  BY <1>1, <1>2, PTL DEF HSpec, ImplementaLineReader, Serie!Spec
=============================================================================
