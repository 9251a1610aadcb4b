-------------------------- MODULE LineReaderProofs --------------------------
(***************************************************************************)
(* Proofs about LineReader, for every set of names, types and values and   *)
(* every capacity of memoria.  The invariant TypeOK /\ MemoriaCoherente is *)
(* inductive; the action properties and the refinement of VarStack follow  *)
(* from it step by step.                                                   *)
(***************************************************************************)
EXTENDS LineReader, FiniteSetTheorems, TLAPS

IInv == TypeOK /\ MemoriaCoherente

-----------------------------------------------------------------------------
(* A variable that exists is found, under the name it was asked for by:
   encontrarVar walks from the newest variable, and names do not repeat. *)
LEMMA Encontrada ==
    ASSUME TypeOK, NombresUnicos, NEW n, Existe(n)
    PROVE  /\ encontrarVar(n) \in 1..Len(stackVar)
           /\ Variable_de(n) \in Variable
           /\ Variable_de(n).nombre = n
           /\ \A i \in 1..Len(stackVar) : stackVar[i].nombre = n => i = encontrarVar(n)
<1> DEFINE Buena(i) == /\ i \in 1..Len(stackVar)
                       /\ stackVar[i].nombre = n
                       /\ \A j \in i+1..Len(stackVar) : stackVar[j].nombre # n
<1>1. PICK i \in 1..Len(stackVar) : stackVar[i].nombre = n
  BY DEF Existe
<1>2. Len(stackVar) \in Nat
  BY DEF TypeOK
<1>3. \A j \in i+1..Len(stackVar) : stackVar[j].nombre # n
  <2> SUFFICES ASSUME NEW j \in i+1..Len(stackVar), stackVar[j].nombre = n
               PROVE  FALSE
    OBVIOUS
  <2>1. j \in 1..Len(stackVar) /\ j # i
    BY <1>2
  <2> QED
    BY <1>1, <2>1 DEF NombresUnicos
<1>4. encontrarVar(n) \in 1..Len(stackVar) /\ stackVar[encontrarVar(n)].nombre = n
  BY <1>1, <1>3 DEF encontrarVar
<1>5. stackVar[encontrarVar(n)] \in Variable
  BY <1>4 DEF TypeOK
<1> QED
  BY <1>4, <1>5 DEF Variable_de, NombresUnicos

(* What the right-hand side of a line evaluates to fits the type it is
   stored in, whatever is read on the way: separarAsignacion. *)
LEMMA ValorDelTipo ==
    ASSUME NEW t \in Tipos, NEW e \in Expresiones \cup {SinIgual},
           NEW v \in separarAsignacion(t, e)
    PROVE  v \in ValoresDe(t)
<1>1. Resultado(e) \subseteq Numeros
  BY DEF Resultado, LeerNum
<1>2. CASE t = "char"
  BY <1>2, ValoresAssumption DEF separarAsignacion, ValoresDe, LeerChar
<1>3. CASE t # "char"
  <2>1. t \in TiposNum
    BY <1>3 DEF TiposNum
  <2>2. \A x \in Numeros : Conversion[t][x] \in Numeros
    BY <2>1, AritmeticaAssumption
  <2> QED
    BY <1>1, <1>3, <2>2, ValoresAssumption DEF separarAsignacion, ValoresDe
<1> QED
  BY <1>2, <1>3

(* Slots are integers. *)
LEMMA PosicionesEnteras ==
    ASSUME PilaOrdenada
    PROVE  \A i \in 1..Len(stackVar) :
               stackVar[i].posicion \in Slots /\ stackVar[i].posicion \in Int
BY CotasAssumption DEF PilaOrdenada, Slots

-----------------------------------------------------------------------------
(* Popping the variables from the k-th on, and as many steps of the counter,
   leaves the memory of the older ones sound: popVariable. *)
LEMMA PopConserva ==
    ASSUME TypeOK, MemoriaCoherente, NEW k \in 1..Len(stackVar),
           popVariables(k), numVariables' = numVariables - Sacadas(k)
    PROVE  /\ MemoriaCoherente'
           /\ stackVar' \in Seq(Variable)
           /\ memoria' \in [Slots -> Valores \cup {Nulo, Indeterminado}]
           /\ numVariables' \in Int /\ numVariables' >= -1
           /\ \A i \in 1..Len(stackVar') : memoria'[stackVar'[i].posicion] = memoria[stackVar[i].posicion]
<1> USE DEF MemoriaCoherente
<1>1. Len(stackVar) \in Nat /\ stackVar \in Seq(Variable)
  BY DEF TypeOK
<1>2. /\ stackVar' \in Seq(Variable)
      /\ Len(stackVar') = k - 1
      /\ \A i \in 1..k-1 : stackVar'[i] = stackVar[i]
  BY <1>1 DEF popVariables
<1>3. \A i \in 1..Len(stackVar') : i \in 1..Len(stackVar) /\ i < k /\ stackVar'[i] = stackVar[i]
  BY <1>1, <1>2
<1>4. memoria' \in [Slots -> Valores \cup {Nulo, Indeterminado}]
  BY DEF popVariables, Liberada, TypeOK
<1>5. /\ numVariables' = numVariables - (Len(stackVar) - k + 1)
      /\ numVariables' \in Int /\ numVariables' >= -1
      /\ Len(stackVar') <= numVariables' + 1
  BY <1>1, <1>2 DEF Sacadas, TypeOK, PilaOrdenada
<1>6. NombresUnicos'
  BY <1>3 DEF NombresUnicos
<1>7. PilaOrdenada'
  <2>1. ASSUME NEW i \in 1..Len(stackVar')
        PROVE  stackVar'[i].posicion + Len(stackVar') - i <= numVariables'
    <3>1. stackVar[i].posicion + Len(stackVar) - i <= numVariables
      BY <1>3 DEF PilaOrdenada
    <3>2. stackVar[i].posicion \in Int
      BY <1>3, PosicionesEnteras
    <3>3. i \in Int /\ k \in Int /\ numVariables \in Int /\ Len(stackVar) \in Int
      BY <1>1, <1>2 DEF TypeOK
    <3>4. /\ stackVar'[i].posicion = stackVar[i].posicion
          /\ Len(stackVar') = k - 1
          /\ numVariables' = numVariables - (Len(stackVar) - k + 1)
      BY <1>2, <1>3, <1>5
    <3>5. \A a, n, l, m, j \in Int : a + l - j <= n => a + (m - 1) - j <= n - (l - m + 1)
      OBVIOUS
    <3> HIDE DEF MemoriaCoherente
    <3> QED
      BY <3>1, <3>2, <3>3, <3>4, <3>5
  <2> QED
    BY <1>3, <1>5, <2>1 DEF PilaOrdenada
<1>8. \A i \in 1..Len(stackVar') : memoria'[stackVar'[i].posicion] = memoria[stackVar[i].posicion]
  <2> SUFFICES ASSUME NEW i \in 1..Len(stackVar')
               PROVE  memoria'[stackVar'[i].posicion] = memoria[stackVar[i].posicion]
    OBVIOUS
  <2>1. \A j \in k..Len(stackVar) : stackVar[i].posicion < stackVar[j].posicion
    BY <1>1, <1>3 DEF PilaOrdenada
  <2>2. stackVar[i].posicion \in Slots
    BY <1>3 DEF PilaOrdenada
  <2>3. \A j \in k..Len(stackVar) : stackVar[j].posicion # stackVar[i].posicion
    BY <2>1, <2>2, CotasAssumption DEF Slots
  <2> QED
    BY <1>3, <2>2, <2>3 DEF popVariables, Liberada
<1>9. BloqueDelTipo'
  BY <1>3, <1>8 DEF BloqueDelTipo, ValoresDe
<1>10. UnBloquePorVariable'
  <2> SUFFICES ASSUME NEW p \in Slots
               PROVE  memoria'[p] \in Valores <=>
                        \E i \in 1..Len(stackVar') : stackVar'[i].posicion = p
    BY DEF UnBloquePorVariable, Slots, Valores
  <2>1. CASE \E i \in k..Len(stackVar) : stackVar[i].posicion = p
    <3>1. memoria'[p] = Nulo
      BY <2>1 DEF popVariables, Liberada
    <3>2. PICK j \in k..Len(stackVar) : stackVar[j].posicion = p
      BY <2>1
    <3>3. ASSUME NEW i \in 1..Len(stackVar') PROVE stackVar'[i].posicion # p
      <4>1. stackVar[i].posicion < stackVar[j].posicion
        BY <1>1, <1>3, <3>2 DEF PilaOrdenada
      <4> QED
        BY <1>3, <3>2, <4>1, CotasAssumption DEF Slots
    <3> QED
      BY <3>1, <3>3, ValoresAssumption
  <2>2. CASE ~ \E i \in k..Len(stackVar) : stackVar[i].posicion = p
    <3>1. memoria'[p] = memoria[p]
      BY <2>2 DEF popVariables, Liberada
    <3>2. (\E i \in 1..Len(stackVar) : stackVar[i].posicion = p)
            <=> \E i \in 1..Len(stackVar') : stackVar'[i].posicion = p
      BY <1>1, <1>2, <1>3, <2>2
    <3> QED
      BY <3>1, <3>2 DEF UnBloquePorVariable
  <2> QED
    BY <2>1, <2>2
<1> QED
  BY <1>2, <1>4, <1>5, <1>6, <1>7, <1>8, <1>9, <1>10

(* A new variable takes a slot above all others, so it disturbs none:
   declarar and pushVariable. *)
LEMMA DeclararConserva ==
    ASSUME TypeOK, MemoriaCoherente, NEW t \in Tipos, NEW n \in Nombres,
           NEW v \in ValoresDe(t), declararNueva(t, n, v)
    PROVE  /\ MemoriaCoherente'
           /\ stackVar' \in Seq(Variable)
           /\ memoria' \in [Slots -> Valores \cup {Nulo, Indeterminado}]
           /\ \A i \in 1..Len(stackVar) : memoria'[stackVar[i].posicion] = memoria[stackVar[i].posicion]
<1> USE DEF MemoriaCoherente
<1> DEFINE q == numVariables + 1
           nueva == [tipo |-> t, nombre |-> n, posicion |-> q, comienzoLlaves |-> isllaveAbierta]
<1>1. /\ stackVar \in Seq(Variable) /\ Len(stackVar) \in Nat
      /\ numVariables \in Int
  BY DEF TypeOK
<1>2. q \in Slots /\ q \in Nat /\ v \in Valores /\ nueva \in Variable
  BY CotasAssumption DEF declararNueva, SlotNuevo, Slots, ValoresDe, Valores, Variable, TypeOK
<1>3. /\ stackVar' = Append(stackVar, nueva)
      /\ memoria' = [memoria EXCEPT ![q] = v]
      /\ numVariables' = q
  BY DEF declararNueva, SlotNuevo
<1>4. /\ stackVar' \in Seq(Variable)
      /\ Len(stackVar') = Len(stackVar) + 1
      /\ stackVar'[Len(stackVar) + 1] = nueva
      /\ \A i \in 1..Len(stackVar) : stackVar'[i] = stackVar[i]
  BY <1>1, <1>2, <1>3
<1>5. \A i \in 1..Len(stackVar') :
          \/ i \in 1..Len(stackVar) /\ stackVar'[i] = stackVar[i]
          \/ i = Len(stackVar) + 1 /\ stackVar'[i] = nueva
  BY <1>1, <1>4
<1>6. \A i \in 1..Len(stackVar) : stackVar[i].posicion \in Slots /\ stackVar[i].posicion < q
  BY <1>1, CotasAssumption DEF PilaOrdenada, Slots
<1>7. memoria' \in [Slots -> Valores \cup {Nulo, Indeterminado}]
  BY <1>2, <1>3 DEF TypeOK
<1>8. memoria'[q] = v /\ \A p \in Slots : p # q => memoria'[p] = memoria[p]
  BY <1>2, <1>3 DEF TypeOK
<1>9. NombresUnicos'
  BY <1>5 DEF NombresUnicos, declararNueva, Existe
<1>10. PilaOrdenada'
  <2>1. \A i \in 1..Len(stackVar') : stackVar'[i].posicion \in Slots
    BY <1>2, <1>5, <1>6
  <2>2. \A i, j \in 1..Len(stackVar') : i < j => stackVar'[i].posicion < stackVar'[j].posicion
    <3> SUFFICES ASSUME NEW i \in 1..Len(stackVar'), NEW j \in 1..Len(stackVar'), i < j
                 PROVE  stackVar'[i].posicion < stackVar'[j].posicion
      OBVIOUS
    <3>1. i \in 1..Len(stackVar) /\ stackVar'[i] = stackVar[i]
      BY <1>1, <1>4
    <3>2. CASE j = Len(stackVar) + 1 /\ stackVar'[j] = nueva
      BY <1>6, <3>1, <3>2
    <3>3. CASE j \in 1..Len(stackVar) /\ stackVar'[j] = stackVar[j]
      BY <3>1, <3>3 DEF PilaOrdenada
    <3> QED
      BY <1>5, <3>2, <3>3
  <2>3. ASSUME NEW i \in 1..Len(stackVar')
        PROVE  /\ i - 1 <= stackVar'[i].posicion
               /\ stackVar'[i].posicion + Len(stackVar') - i <= numVariables'
    <3>1. CASE i \in 1..Len(stackVar) /\ stackVar'[i] = stackVar[i]
      <4>1. /\ i - 1 <= stackVar[i].posicion
            /\ stackVar[i].posicion + Len(stackVar) - i <= numVariables
        BY <3>1 DEF PilaOrdenada
      <4>2. stackVar[i].posicion \in Int
        BY <1>6, <3>1, CotasAssumption DEF Slots
      <4> QED
        BY <1>1, <1>3, <1>4, <3>1, <4>1, <4>2
    <3>2. CASE i = Len(stackVar) + 1 /\ stackVar'[i] = nueva
      BY <1>1, <1>3, <1>4, <3>2 DEF PilaOrdenada
    <3> QED
      BY <1>5, <3>1, <3>2
  <2>4. Len(stackVar') <= numVariables' + 1
    BY <1>1, <1>3, <1>4 DEF PilaOrdenada
  <2> QED
    BY <2>1, <2>2, <2>3, <2>4 DEF PilaOrdenada, Slots
<1>11. UnBloquePorVariable'
  <2> SUFFICES ASSUME NEW p \in Slots
               PROVE  memoria'[p] \in Valores <=>
                        \E i \in 1..Len(stackVar') : stackVar'[i].posicion = p
    BY DEF UnBloquePorVariable, Slots, Valores
  <2>1. CASE p = q
    BY <1>1, <1>2, <1>4, <1>8, <2>1
  <2>2. CASE p # q
    <3>1. (\E i \in 1..Len(stackVar') : stackVar'[i].posicion = p)
            <=> \E i \in 1..Len(stackVar) : stackVar[i].posicion = p
      BY <1>1, <1>4, <1>5, <2>2
    <3> QED
      BY <1>8, <2>2, <3>1 DEF UnBloquePorVariable
  <2> QED
    BY <2>1, <2>2
<1>12. BloqueDelTipo'
  <2> SUFFICES ASSUME NEW i \in 1..Len(stackVar')
               PROVE  memoria'[stackVar'[i].posicion] \in ValoresDe(stackVar'[i].tipo)
    BY DEF BloqueDelTipo, ValoresDe
  <2>1. CASE i \in 1..Len(stackVar) /\ stackVar'[i] = stackVar[i]
    <3>1. memoria'[stackVar[i].posicion] = memoria[stackVar[i].posicion]
      BY <1>2, <1>6, <1>8, <2>1, CotasAssumption DEF Slots
    <3> QED
      BY <2>1, <3>1 DEF BloqueDelTipo
  <2>2. CASE i = Len(stackVar) + 1 /\ stackVar'[i] = nueva
    BY <1>8, <2>2
  <2> QED
    BY <1>5, <2>1, <2>2
<1>13. \A i \in 1..Len(stackVar) : memoria'[stackVar[i].posicion] = memoria[stackVar[i].posicion]
  BY <1>2, <1>6, <1>8, CotasAssumption DEF Slots
<1> QED
  BY <1>4, <1>7, <1>9, <1>10, <1>11, <1>12, <1>13

(* A refused declaration moves the counter and nothing else: declarar. *)
LEMMA RepetirConserva ==
    ASSUME TypeOK, MemoriaCoherente, numVariables' = numVariables + 1,
           UNCHANGED <<stackVar, memoria>>
    PROVE  MemoriaCoherente'
<1>1. Len(stackVar) \in Nat /\ numVariables \in Int
  BY DEF TypeOK
<1>2. \A i \in 1..Len(stackVar) :
          stackVar[i].posicion + Len(stackVar) - i <= numVariables + 1
  <2> SUFFICES ASSUME NEW i \in 1..Len(stackVar)
               PROVE  stackVar[i].posicion + Len(stackVar) - i <= numVariables + 1
    OBVIOUS
  <2>1. stackVar[i].posicion \in Int
    BY PosicionesEnteras DEF MemoriaCoherente
  <2>2. stackVar[i].posicion + Len(stackVar) - i <= numVariables
    BY DEF MemoriaCoherente, PilaOrdenada
  <2> QED
    BY <1>1, <2>1, <2>2
<1>3. PilaOrdenada'
  BY <1>1, <1>2 DEF MemoriaCoherente, PilaOrdenada
<1>4. NombresUnicos' /\ UnBloquePorVariable' /\ BloqueDelTipo'
  BY DEF MemoriaCoherente, NombresUnicos, UnBloquePorVariable, BloqueDelTipo, ValoresDe, Slots, Valores
<1> QED
  BY <1>3, <1>4 DEF MemoriaCoherente

(* A write to a live block changes its owner's value, to one that fits, and
   no other variable's: asignar. *)
LEMMA EscribirConserva ==
    ASSUME TypeOK, MemoriaCoherente,
           NEW d \in 1..Len(stackVar), NEW x \in ValoresDe(stackVar[d].tipo),
           Escribir(stackVar[d].posicion, x), UNCHANGED <<stackVar, numVariables>>
    PROVE  /\ MemoriaCoherente'
           /\ memoria' \in [Slots -> Valores \cup {Nulo, Indeterminado}]
           /\ memoria'[stackVar[d].posicion] = x
           /\ \A i \in 1..Len(stackVar) :
                  i # d => memoria'[stackVar[i].posicion] = memoria[stackVar[i].posicion]
<1> USE DEF MemoriaCoherente
<1> DEFINE p == stackVar[d].posicion
<1>1. p \in Slots /\ x \in Valores
  BY PosicionesEnteras DEF ValoresDe, Valores
<1>2. memoria' = [memoria EXCEPT ![p] = x]
  BY DEF Escribir
<1>3. /\ memoria' \in [Slots -> Valores \cup {Nulo, Indeterminado}]
      /\ memoria'[p] = x
      /\ \A r \in Slots : r # p => memoria'[r] = memoria[r]
  BY <1>1, <1>2 DEF TypeOK
<1>4. \A i \in 1..Len(stackVar) : i # d => stackVar[i].posicion # p
  <2> SUFFICES ASSUME NEW i \in 1..Len(stackVar), i # d
               PROVE  stackVar[i].posicion # p
    OBVIOUS
  <2>1. i \in Int /\ d \in Int /\ (i < d \/ d < i)
    BY DEF TypeOK
  <2>2. stackVar[i].posicion < p \/ p < stackVar[i].posicion
    BY <2>1 DEF PilaOrdenada
  <2> QED
    BY <2>2, PosicionesEnteras
<1>5. \A i \in 1..Len(stackVar) : i # d => memoria'[stackVar[i].posicion] = memoria[stackVar[i].posicion]
  BY <1>3, <1>4, PosicionesEnteras
<1>6. NombresUnicos' /\ PilaOrdenada'
  BY DEF NombresUnicos, PilaOrdenada, Slots
<1>7. UnBloquePorVariable'
  <2> SUFFICES ASSUME NEW r \in Slots
               PROVE  memoria'[r] \in Valores <=> \E i \in 1..Len(stackVar) : stackVar[i].posicion = r
    BY DEF UnBloquePorVariable, Slots, Valores
  <2>1. CASE r = p
    BY <1>1, <1>3, <2>1
  <2>2. CASE r # p
    BY <1>3, <2>2 DEF UnBloquePorVariable
  <2> QED
    BY <2>1, <2>2
<1>8. BloqueDelTipo'
  <2> SUFFICES ASSUME NEW i \in 1..Len(stackVar)
               PROVE  memoria'[stackVar[i].posicion] \in ValoresDe(stackVar[i].tipo)
    BY DEF BloqueDelTipo, ValoresDe
  <2>1. CASE i = d
    BY <1>3, <2>1
  <2>2. CASE i # d
    BY <1>5, <2>2 DEF BloqueDelTipo
  <2> QED
    BY <2>1, <2>2
<1> QED
  BY <1>3, <1>5, <1>6, <1>7, <1>8

(* The slot a char assignment writes through holds a live block of the kind
   it finds there: the branch of asignar for char. *)
LEMMA DuenoDelSlot ==
    ASSUME TypeOK, MemoriaCoherente, NEW p \in Slots, memoria[p] \in Valores
    PROVE  \E d \in 1..Len(stackVar) :
              /\ stackVar[d].posicion = p
              /\ memoria[p] \in Caracteres => ValoresDe(stackVar[d].tipo) = Caracteres
              /\ memoria[p] \in Numeros => ValoresDe(stackVar[d].tipo) = Numeros
<1>1. PICK d \in 1..Len(stackVar) : stackVar[d].posicion = p
  BY DEF MemoriaCoherente, UnBloquePorVariable
<1>2. memoria[p] \in ValoresDe(stackVar[d].tipo)
  BY <1>1 DEF MemoriaCoherente, BloqueDelTipo
<1> QED
  BY <1>1, <1>2, ValoresAssumption DEF ValoresDe

-----------------------------------------------------------------------------
(* What a request can do to the interpreter, in the terms the proofs need. *)

Quieto == /\ UNCHANGED <<stackVar, memoria, numVariables, fallo>>
          /\ respuesta' \in Respuestas
          /\ \/ UNCHANGED <<llavesDisponibles, isllaveAbierta>>
             \/ llavesDisponibles' = llavesDisponibles + 1 /\ isllaveAbierta' = TRUE

Repite == \E n \in Nombres : declararRepetida(n)

Nueva == \E t \in Tipos, n \in Nombres : \E v \in ValoresDe(t) : declararNueva(t, n, v)

Escribe == \E d \in 1..Len(stackVar) : \E x \in ValoresDe(stackVar[d].tipo) :
              /\ Escribir(stackVar[d].posicion, x)
              /\ \E n \in Nombres : Existe(n) /\ Escrita(n)

Muerte == \/ cerrarSinMarca
          \/ \E n \in Nombres : declararDesbordada(n)
          \/ Len(stackVar) > 0 /\ (asignarCharNulo \/ asignarCharIndefinido)

LEMMA RespuestaAviso ==
    ASSUME NEW c \in Clases, Responder(c, Nulo, Nulo)
    PROVE  respuesta' \in Respuestas
BY DEF Responder, Respuestas

LEMMA ErrorQuieto ==
    ASSUME TypeOK, error
    PROVE  Quieto
BY RespuestaAviso DEF error, Quieto, TypeOK, Clases

(* Assigning a value that fits the variable's type either writes to a live
   block what fits its owner, or kills the process. *)
LEMMA AsignarCasos ==
    ASSUME IInv, NEW n \in Nombres, Existe(n),
           NEW v \in ValoresDe(Variable_de(n).tipo), asignar(n, v)
    PROVE  Escribe \/ Muerte
<1> USE DEF IInv, MemoriaCoherente
<1>1. /\ encontrarVar(n) \in 1..Len(stackVar)
      /\ Variable_de(n) = stackVar[encontrarVar(n)]
  BY Encontrada DEF Variable_de
<1>2. Len(stackVar) > 0
  BY <1>1 DEF TypeOK
<1>3. CASE asignarNum(n, v)
  BY <1>1, <1>3 DEF asignarNum, Escribe
<1>4. CASE Variable_de(n).tipo = "char" /\ asignarChar(n, v)
  <2>1. v \in Caracteres
    BY <1>4 DEF ValoresDe
  <2>2. numVariables \in Slots /\ Escrita(n)
    BY <1>4 DEF asignarChar
  <2>3. CASE memoria[numVariables] \in Caracteres /\ Escribir(numVariables, v)
    <3>1. PICK d \in 1..Len(stackVar) : /\ stackVar[d].posicion = numVariables
                                        /\ ValoresDe(stackVar[d].tipo) = Caracteres
      BY <2>2, <2>3, DuenoDelSlot DEF Valores
    <3> QED
      BY <2>1, <2>2, <2>3, <3>1 DEF Escribe
  <2>4. CASE memoria[numVariables] \in Numeros /\ \E x \in Numeros : Escribir(numVariables, x)
    <3>1. PICK d \in 1..Len(stackVar) : /\ stackVar[d].posicion = numVariables
                                        /\ ValoresDe(stackVar[d].tipo) = Numeros
      BY <2>2, <2>4, DuenoDelSlot DEF Valores
    <3> QED
      BY <2>2, <2>4, <3>1 DEF Escribe
  <2> QED
    BY <1>4, <2>3, <2>4 DEF asignarChar
<1>5. CASE asignarCharNulo \/ asignarCharIndefinido
  BY <1>2, <1>5 DEF Muerte
<1> QED
  BY <1>3, <1>4, <1>5 DEF asignar

(* Every request falls in one of the cases above, closes a block or clears. *)
LEMMA Casos ==
    ASSUME IInv, Next
    PROVE  Quieto \/ Repite \/ Nueva \/ Escribe \/ Muerte \/ cerrarBloque \/ clear
<1> USE DEF IInv, MemoriaCoherente
<1>1. CASE abrirLlaves
  BY <1>1, RespuestaAviso DEF abrirLlaves, Quieto, TypeOK, Clases
<1>2. CASE cerrarLlaves
  BY <1>2, ErrorQuieto DEF cerrarLlaves, cerrarSinAbrir, Muerte
<1>3. CASE imprimir
  <2>1. CASE imprimirTexto
    BY <2>1, RespuestaAviso DEF imprimirTexto, Quieto, TypeOK, Clases
  <2>2. ASSUME NEW n \in Nombres, imprimirVariable(n) PROVE Quieto
    <3>1. Variable_de(n) \in Variable /\ Existe(n)
      BY <2>2, Encontrada DEF imprimirVariable
    <3>2. memoria[Variable_de(n).posicion] \in Valores \cup {Nulo, Indeterminado}
      BY <3>1, Encontrada, PosicionesEnteras DEF TypeOK, Variable_de
    <3> QED
      BY <2>2, <3>2 DEF imprimirVariable, Quieto, TypeOK, Responder, Respuestas, Clases
  <2>3. ASSUME NEW n \in Nombres, imprimirDesconocida(n) PROVE Quieto
    BY <2>3, ErrorQuieto DEF imprimirDesconocida
  <2> QED
    BY <1>3, <2>1, <2>2, <2>3 DEF imprimir
<1>4. ASSUME NEW t \in Tipos, NEW n \in Nombres, NEW e \in Expresiones \cup {SinIgual},
             Declaracion(t, n, e)
      PROVE  Quieto \/ Repite \/ Nueva \/ Muerte
  <2>1. ASSUME NEW v \in separarAsignacion(t, e), declarar(t, n, v)
        PROVE  Repite \/ Nueva \/ Muerte
    <3>1. v \in ValoresDe(t)
      BY ValorDelTipo
    <3> QED
      BY <2>1, <3>1 DEF declarar, Repite, Nueva, Muerte
  <2> QED
    BY <1>4, <2>1, ErrorQuieto DEF Declaracion
<1>5. ASSUME NEW n \in Nombres, NEW e \in Expresiones, Asignacion(n, e)
      PROVE  Quieto \/ Escribe \/ Muerte
  <2>1. ASSUME Existe(n), NEW v \in separarAsignacion(Variable_de(n).tipo, e), asignar(n, v)
        PROVE  Escribe \/ Muerte
    <3>1. Variable_de(n).tipo \in Tipos
      BY <2>1, Encontrada DEF Variable
    <3>2. v \in ValoresDe(Variable_de(n).tipo)
      BY <3>1, ValorDelTipo
    <3> QED
      BY <2>1, <3>2, AsignarCasos
  <2> QED
    BY <1>5, <2>1, ErrorQuieto DEF Asignacion
<1>6. CASE error
  BY <1>6, ErrorQuieto
<1>7. CASE memory
  BY <1>7, RespuestaAviso DEF memory, Quieto, TypeOK, Clases
<1> QED
  BY <1>1, <1>2, <1>3, <1>4, <1>5, <1>6, <1>7 DEF Next, leerLinea

-----------------------------------------------------------------------------
(* The invariant is inductive. *)

LEMMA Inicio ==
    ASSUME Init
    PROVE  IInv
<1>1. TypeOK
  BY CotasAssumption DEF Init, TypeOK, Variable, Respuestas, Clases
<1>2. Len(stackVar) = 0
  BY DEF Init
<1>3. MemoriaCoherente
  BY <1>2, ValoresAssumption
     DEF Init, MemoriaCoherente, NombresUnicos, PilaOrdenada, UnBloquePorVariable, BloqueDelTipo
<1> QED
  BY <1>1, <1>3 DEF IInv

(* "clear" empties the stack and frees every block: lineReader::clear. *)
LEMMA ClearConserva ==
    ASSUME IInv, clear
    PROVE  IInv' /\ stackVar' = <<>>
<1> USE DEF IInv, MemoriaCoherente
<1>1. stackVar' = <<>> /\ Len(stackVar') = 0
  BY DEF clear, popVariables, TypeOK
<1>2. \A p \in Slots : memoria'[p] \notin Valores
  <2> SUFFICES ASSUME NEW p \in Slots PROVE memoria'[p] \notin Valores
    OBVIOUS
  <2>1. CASE \E i \in 1..Len(stackVar) : stackVar[i].posicion = p
    BY <2>1, ValoresAssumption DEF clear, popVariables, Liberada
  <2>2. CASE ~ \E i \in 1..Len(stackVar) : stackVar[i].posicion = p
    BY <2>2 DEF clear, popVariables, Liberada, UnBloquePorVariable
  <2> QED
    BY <2>1, <2>2
<1>3. memoria' \in [Slots -> Valores \cup {Nulo, Indeterminado}]
  BY DEF clear, popVariables, Liberada, TypeOK
<1>4. TypeOK'
  BY <1>1, <1>3, RespuestaAviso DEF clear, TypeOK, Clases, Slots, Valores, Variable, Respuestas
<1>5. MemoriaCoherente'
  BY <1>1, <1>2, <1>4 DEF clear, NombresUnicos, PilaOrdenada, UnBloquePorVariable,
                          BloqueDelTipo, TypeOK, Slots, Valores
<1> QED
  BY <1>1, <1>4, <1>5

LEMMA Paso ==
    ASSUME IInv, [Next]_vars
    PROVE  IInv'
<1> USE DEF IInv
<1>1. CASE UNCHANGED vars
  BY <1>1 DEF vars, TypeOK, MemoriaCoherente, NombresUnicos, PilaOrdenada,
              UnBloquePorVariable, BloqueDelTipo, ValoresDe, Slots, Valores,
              Variable, Respuestas
<1>2. CASE Quieto
  <2>0. llavesDisponibles' \in Nat /\ isllaveAbierta' \in BOOLEAN
    <3>1. llavesDisponibles' \in Nat
      BY <1>2 DEF Quieto, TypeOK
    <3>2. CASE UNCHANGED isllaveAbierta
      BY <3>1, <3>2 DEF TypeOK
    <3>3. CASE isllaveAbierta' = TRUE
      BY <3>1, <3>3
    <3> QED
      BY <1>2, <3>2, <3>3 DEF Quieto
  <2>1. TypeOK'
    BY <1>2, <2>0 DEF Quieto, TypeOK, Slots, Valores, Variable, Respuestas
  <2>2. MemoriaCoherente'
    BY <1>2 DEF Quieto, MemoriaCoherente, NombresUnicos, PilaOrdenada,
                UnBloquePorVariable, BloqueDelTipo, ValoresDe, Slots, Valores
  <2> QED
    BY <2>1, <2>2
<1>3. CASE Repite
  <2>1. PICK n \in Nombres : declararRepetida(n)
    BY <1>3 DEF Repite
  <2>2. MemoriaCoherente'
    BY <2>1, RepetirConserva DEF declararRepetida
  <2>3. TypeOK'
    BY <2>1, RespuestaAviso DEF declararRepetida, TypeOK, Clases, Slots, Valores, Variable, Respuestas
  <2> QED
    BY <2>2, <2>3
<1>4. CASE Nueva
  <2>1. PICK t \in Tipos, n \in Nombres : \E v \in ValoresDe(t) : declararNueva(t, n, v)
    BY <1>4 DEF Nueva
  <2>2. PICK v \in ValoresDe(t) : declararNueva(t, n, v)
    BY <2>1
  <2>3. /\ MemoriaCoherente'
        /\ stackVar' \in Seq(Variable)
        /\ memoria' \in [Slots -> Valores \cup {Nulo, Indeterminado}]
    BY <2>2, DeclararConserva
  <2>4. respuesta' \in Respuestas
    BY <2>2 DEF declararNueva, Responder, Respuestas, Clases, ValoresDe, Valores
  <2>5. /\ numVariables' = numVariables + 1 /\ isllaveAbierta' = FALSE
        /\ UNCHANGED <<llavesDisponibles, fallo>>
    BY <2>2 DEF declararNueva
  <2>6. numVariables' \in Int /\ numVariables' >= -1
    BY <2>5 DEF TypeOK
  <2>7. llavesDisponibles' \in Nat /\ fallo' \in {"no", "nulo", "indefinido"}
    BY <2>5 DEF TypeOK
  <2>8. isllaveAbierta' \in BOOLEAN
    BY <2>5
  <2>9. TypeOK'
    BY <2>3, <2>4, <2>6, <2>7, <2>8 DEF TypeOK, Slots, Valores, Variable, Respuestas
  <2> QED
    BY <2>3, <2>9
<1>5. CASE Escribe
  <2>0. PICK d \in 1..Len(stackVar) : \E x \in ValoresDe(stackVar[d].tipo) :
            /\ Escribir(stackVar[d].posicion, x)
            /\ \E n \in Nombres : Existe(n) /\ Escrita(n)
    BY <1>5 DEF Escribe
  <2>1. PICK x \in ValoresDe(stackVar[d].tipo) :
            /\ Escribir(stackVar[d].posicion, x)
            /\ \E n \in Nombres : Existe(n) /\ Escrita(n)
    BY <2>0
  <2>2. PICK n \in Nombres : Existe(n) /\ Escrita(n)
    BY <2>1
  <2>3. /\ MemoriaCoherente'
        /\ memoria' \in [Slots -> Valores \cup {Nulo, Indeterminado}]
    BY <2>1, <2>2, EscribirConserva DEF Escrita
  <2>4. Variable_de(n).posicion \in Slots
    BY <2>2, Encontrada, PosicionesEnteras DEF MemoriaCoherente, Variable_de
  <2>5. respuesta' \in Respuestas
    BY <2>2, <2>3, <2>4 DEF Escrita, Responder, Respuestas, Clases
  <2>6. TypeOK'
    BY <2>2, <2>3, <2>5 DEF Escrita, TypeOK, Slots, Valores, Variable, Respuestas
  <2> QED
    BY <2>3, <2>6
<1>6. CASE Muerte
  <2>1. \E f \in {"nulo", "indefinido"} : Fallar(f)
    BY <1>6 DEF Muerte, cerrarSinMarca, declararDesbordada, asignarCharNulo, asignarCharIndefinido
  <2>2. TypeOK'
    BY <2>1 DEF Fallar, TypeOK, Slots, Valores, Variable, Respuestas
  <2>3. MemoriaCoherente'
    BY <2>1 DEF Fallar, MemoriaCoherente, NombresUnicos, PilaOrdenada,
                UnBloquePorVariable, BloqueDelTipo, ValoresDe, Slots, Valores
  <2> QED
    BY <2>2, <2>3
<1>7. CASE cerrarBloque
  <2>1. PICK k \in Marcas : /\ llavesDisponibles > 0
                            /\ popVariables(k)
                            /\ numVariables' = numVariables - Sacadas(k)
                            /\ llavesDisponibles' = llavesDisponibles - 1
                            /\ Responder("Aviso", Nulo, Nulo)
                            /\ UNCHANGED <<isllaveAbierta, fallo>>
    BY <1>7 DEF cerrarBloque
  <2>2. k \in 1..Len(stackVar)
    BY DEF Marcas
  <2>3. /\ MemoriaCoherente'
        /\ stackVar' \in Seq(Variable)
        /\ memoria' \in [Slots -> Valores \cup {Nulo, Indeterminado}]
        /\ numVariables' \in Int /\ numVariables' >= -1
    BY <2>1, <2>2, PopConserva
  <2>4. TypeOK'
    BY <2>1, <2>3, RespuestaAviso DEF TypeOK, Clases, Slots, Valores, Variable, Respuestas
  <2> QED
    BY <2>3, <2>4
<1>8. CASE clear
  BY <1>8, ClearConserva
<1> QED
  BY <1>1, <1>2, <1>3, <1>4, <1>5, <1>6, <1>7, <1>8, Casos DEF vars

(* The invariant holds in every state the interpreter can reach. *)
THEOREM Invariante == Spec => []IInv
<1>1. Init => IInv
  BY Inicio
<1>2. IInv /\ [Next]_vars => IInv'
  BY Paso
<1> QED
  BY <1>1, <1>2, PTL DEF Spec

(* The interpreter's state is well typed after any sequence of lines. *)
THEOREM TipoCorrecto == Spec => []TypeOK
BY Invariante, PTL DEF IInv

(* The heap is sound after any sequence of lines: names are unique, slots
   grow along the stack and never pass the counter, every live block belongs
   to exactly one variable and holds a value of its type. *)
THEOREM MemoriaSiempreCoherente == Spec => []MemoriaCoherente
BY Invariante, PTL DEF IInv

-----------------------------------------------------------------------------
(* Action properties. *)

LEMMA HuecosPaso ==
    ASSUME IInv, Next
    PROVE  Huecos' < Huecos => numVariables' = -1 /\ stackVar' = <<>>
<1> USE DEF IInv, Huecos
<1>1. Len(stackVar) \in Nat /\ numVariables \in Int
  BY DEF TypeOK
<1>2. CASE Quieto \/ Escribe \/ Muerte
  <2>1. UNCHANGED <<stackVar, numVariables>>
    BY <1>2 DEF Quieto, Escribe, Escrita, Muerte, Fallar, cerrarSinMarca, declararDesbordada,
                asignarCharNulo, asignarCharIndefinido
  <2> QED
    BY <1>1, <2>1
<1>3. CASE Repite
  BY <1>1, <1>3 DEF Repite, declararRepetida
<1>4. CASE Nueva
  <2>1. numVariables' = numVariables + 1 /\ Len(stackVar') = Len(stackVar) + 1
    BY <1>4 DEF Nueva, declararNueva, TypeOK
  <2> QED
    BY <1>1, <2>1
<1>5. CASE cerrarBloque
  <2>1. PICK k \in Marcas : popVariables(k) /\ numVariables' = numVariables - Sacadas(k)
    BY <1>5 DEF cerrarBloque
  <2>2. k \in 1..Len(stackVar) /\ numVariables' = numVariables - (Len(stackVar) - k + 1)
    BY <2>1 DEF Marcas, Sacadas
  <2>3. Len(stackVar') = k - 1
    BY <1>1, <2>1, <2>2 DEF popVariables, TypeOK
  <2> QED
    BY <1>1, <2>2, <2>3
<1>6. CASE clear
  BY <1>6, ClearConserva DEF clear
<1> QED
  BY <1>2, <1>3, <1>4, <1>5, <1>6, Casos

(* A slot lost to a refused declaration stays lost until "clear": no other
   request brings the counter closer to the stack. *)
THEOREM HuecosNoSeRecuperan == Spec => HuecosHastaLimpiar
<1>1. IInv /\ [Next]_vars => [Huecos' < Huecos => numVariables' = -1 /\ stackVar' = <<>>]_vars
  BY HuecosPaso
<1> QED
  BY <1>1, Invariante, PTL DEF Spec, HuecosHastaLimpiar

(* With no slot lost the counter points at the newest variable's slot. *)
LEMMA SinHuecos ==
    ASSUME IInv, Huecos <= 0, Len(stackVar) > 0
    PROVE  numVariables \in Slots /\ memoria[numVariables] \in Valores
<1> USE DEF IInv, MemoriaCoherente
<1>1. Len(stackVar) \in Nat /\ numVariables \in Int /\ Len(stackVar) \in 1..Len(stackVar)
  BY DEF TypeOK
<1>2. numVariables + 1 = Len(stackVar)
  BY <1>1 DEF Huecos, PilaOrdenada
<1>3. /\ stackVar[Len(stackVar)].posicion \in Int
      /\ Len(stackVar) - 1 <= stackVar[Len(stackVar)].posicion
      /\ stackVar[Len(stackVar)].posicion + Len(stackVar) - Len(stackVar) <= numVariables
  BY <1>1, PosicionesEnteras DEF PilaOrdenada
<1>4. stackVar[Len(stackVar)].posicion = numVariables
  BY <1>1, <1>2, <1>3
<1> QED
  BY <1>1, <1>4, PosicionesEnteras DEF UnBloquePorVariable

LEMMA MuertePaso ==
    ASSUME IInv, Next
    PROVE  /\ fallo' = "indefinido" => Huecos > 0 \/ Len(stackVar) = Capacidad
           /\ fallo' = "nulo" => Huecos > 0 \/ llavesDisponibles > Cardinality(Marcas)
<1> USE DEF IInv
<1>1. fallo = "no" /\ Len(stackVar) \in Nat /\ numVariables \in Int
  BY DEF Next, TypeOK
<1>2. CASE cerrarSinMarca
  <2>1. Cardinality(Marcas) = 0
    BY <1>2, FS_EmptySet DEF cerrarSinMarca
  <2> QED
    BY <1>2, <2>1 DEF cerrarSinMarca, Fallar, TypeOK
<1>3. ASSUME NEW n \in Nombres, declararDesbordada(n)
      PROVE  fallo' = "indefinido" /\ (Huecos > 0 \/ Len(stackVar) = Capacidad)
  <2>1. fallo' = "indefinido" /\ numVariables + 1 \notin Slots
    BY <1>3 DEF declararDesbordada, SlotNuevo, Fallar
  <2>2. numVariables + 1 >= Capacidad
    BY <1>1, <2>1, CotasAssumption DEF Slots, TypeOK
  <2>3. Len(stackVar) <= Capacidad
    <3>1. CASE Len(stackVar) = 0
      BY <3>1, CotasAssumption
    <3>2. CASE Len(stackVar) > 0
      <4>1. Len(stackVar) \in 1..Len(stackVar)
        BY <1>1, <3>2
      <4>2. /\ stackVar[Len(stackVar)].posicion \in Slots
            /\ Len(stackVar) - 1 <= stackVar[Len(stackVar)].posicion
        BY <4>1 DEF MemoriaCoherente, PilaOrdenada
      <4> QED
        BY <1>1, <4>2, CotasAssumption DEF Slots
    <3> QED
      BY <1>1, <3>1, <3>2
  <2> QED
    BY <1>1, <2>1, <2>2, <2>3, CotasAssumption DEF Huecos
<1>4. CASE Len(stackVar) > 0 /\ (asignarCharNulo \/ asignarCharIndefinido)
  <2>1. Huecos > 0
    <3> SUFFICES ASSUME ~(Huecos > 0) PROVE FALSE
      OBVIOUS
    <3>1. Huecos <= 0
      BY <1>1 DEF Huecos
    <3>2. numVariables \in Slots /\ memoria[numVariables] \in Valores
      BY <1>4, <3>1, SinHuecos
    <3> QED
      BY <1>4, <3>2, ValoresAssumption DEF asignarCharNulo, asignarCharIndefinido
  <2> QED
    BY <2>1
<1>5. CASE Quieto \/ Repite \/ Nueva \/ Escribe \/ cerrarBloque \/ clear
  <2>1. fallo' = fallo
    BY <1>5 DEF Quieto, Repite, declararRepetida, Nueva, declararNueva, Escribe, Escrita,
                cerrarBloque, clear
  <2> QED
    BY <1>1, <2>1
<1> QED
  BY <1>2, <1>3, <1>4, <1>5, Casos DEF Muerte

(* The process never dies of an out-of-bounds or garbage access before a
   slot has been lost or memoria has filled up, nor of a null dereference
   before a slot has been lost or braces outnumber the marked blocks. *)
THEOREM MuerteSoloConCausa == Spec => MuerteConCausa
<1>1. IInv /\ [Next]_vars =>
        [/\ fallo' = "indefinido" => Huecos > 0 \/ Len(stackVar) = Capacidad
         /\ fallo' = "nulo" => Huecos > 0 \/ llavesDisponibles > Cardinality(Marcas)]_vars
  BY MuertePaso
<1> QED
  BY <1>1, Invariante, PTL DEF Spec, MuerteConCausa

-----------------------------------------------------------------------------
(* Marked blocks against open braces. *)

LEMMA MarcasFinitas ==
    ASSUME TypeOK
    PROVE  IsFiniteSet(Marcas) /\ Cardinality(Marcas) \in Nat
<1>1. IsFiniteSet(1..Len(stackVar))
  BY FS_Interval DEF TypeOK
<1>2. IsFiniteSet(Marcas)
  BY <1>1, FS_Subset DEF Marcas
<1> QED
  BY <1>2, FS_CardinalityType

LEMMA MarcasPaso ==
    ASSUME IInv, IInv', MarcasAcotadas, [Next]_vars
    PROVE  MarcasAcotadas'
<1> USE DEF IInv
<1> DEFINE bandera == IF isllaveAbierta THEN 1 ELSE 0
<1>1. /\ Len(stackVar) \in Nat /\ llavesDisponibles \in Nat /\ isllaveAbierta \in BOOLEAN
      /\ IsFiniteSet(Marcas) /\ Cardinality(Marcas) \in Nat
      /\ Cardinality(Marcas) + bandera <= llavesDisponibles + 1
  BY MarcasFinitas DEF TypeOK, MarcasAcotadas
<1>2. CASE UNCHANGED vars
  BY <1>2 DEF vars, MarcasAcotadas, Marcas
<1>3. CASE Quieto
  <2>1. Marcas' = Marcas
    BY <1>3 DEF Quieto, Marcas
  <2> QED
    BY <1>1, <1>3, <2>1 DEF Quieto, MarcasAcotadas
<1>4. CASE Repite \/ Escribe \/ Muerte
  <2>1. UNCHANGED <<stackVar, llavesDisponibles, isllaveAbierta>>
    BY <1>4 DEF Repite, declararRepetida, Escribe, Escrita, Muerte, cerrarSinMarca,
                declararDesbordada, asignarCharNulo, asignarCharIndefinido, Fallar
  <2>2. Marcas' = Marcas
    BY <2>1 DEF Marcas
  <2> QED
    BY <2>1, <2>2 DEF MarcasAcotadas
<1>5. CASE Nueva
  <2>1. PICK t \in Tipos, n \in Nombres : \E v \in ValoresDe(t) : declararNueva(t, n, v)
    BY <1>5 DEF Nueva
  <2> DEFINE nueva == [tipo |-> t, nombre |-> n, posicion |-> SlotNuevo,
                       comienzoLlaves |-> isllaveAbierta]
  <2>2. /\ stackVar' = Append(stackVar, nueva)
        /\ isllaveAbierta' = FALSE /\ llavesDisponibles' = llavesDisponibles
    BY <2>1 DEF declararNueva
  <2>3. /\ Len(stackVar') = Len(stackVar) + 1
        /\ stackVar'[Len(stackVar) + 1] = nueva
        /\ \A i \in 1..Len(stackVar) : stackVar'[i] = stackVar[i]
    BY <2>2 DEF TypeOK
  <2>4. CASE isllaveAbierta
    <3>1. Marcas' = Marcas \cup {Len(stackVar) + 1}
      BY <1>1, <2>3, <2>4 DEF Marcas
    <3>2. Len(stackVar) + 1 \notin Marcas
      BY <1>1 DEF Marcas
    <3>3. Cardinality(Marcas') = Cardinality(Marcas) + 1
      BY <1>1, <3>1, <3>2, FS_AddElement
    <3> QED
      BY <1>1, <2>2, <2>4, <3>3 DEF MarcasAcotadas
  <2>5. CASE ~isllaveAbierta
    <3>1. Marcas' = Marcas
      BY <1>1, <2>3, <2>5 DEF Marcas
    <3> QED
      BY <1>1, <2>2, <2>5, <3>1 DEF MarcasAcotadas
  <2> QED
    BY <2>4, <2>5
<1>6. CASE cerrarBloque
  <2>1. PICK k \in Marcas : /\ FinDelBloque(k) /\ popVariables(k)
                            /\ llavesDisponibles > 0
                            /\ llavesDisponibles' = llavesDisponibles - 1
                            /\ isllaveAbierta' = isllaveAbierta
    BY <1>6 DEF cerrarBloque
  <2>2. /\ Len(stackVar') = k - 1
        /\ \A i \in 1..k-1 : stackVar'[i] = stackVar[i]
    BY <1>1, <2>1 DEF popVariables, Marcas, TypeOK
  <2>3. Marcas' = Marcas \ {k}
    BY <1>1, <2>1, <2>2 DEF Marcas, FinDelBloque
  <2>4. Cardinality(Marcas') = Cardinality(Marcas) - 1
    BY <1>1, <2>1, <2>3, FS_RemoveElement
  <2> QED
    BY <1>1, <2>1, <2>4 DEF MarcasAcotadas
<1>7. CASE clear
  <2>1. Marcas' = {}
    <3>1. Len(stackVar') = 0
      BY <1>7, ClearConserva
    <3> QED
      BY <3>1 DEF Marcas
  <2>2. Cardinality(Marcas') = 0
    BY <2>1, FS_EmptySet
  <2> QED
    BY <1>7, <2>2 DEF clear, MarcasAcotadas
<1> QED
  BY <1>2, <1>3, <1>4, <1>5, <1>6, <1>7, Casos

(* However braces and declarations follow each other, there are never more
   marked blocks on the stack than open braces, but for the one the very
   first declaration starts: abrirLlaves, cerrarLlaves, declarar. *)
THEOREM MarcasSiempreAcotadas == Spec => []MarcasAcotadas
<1>1. Init => MarcasAcotadas
  <2> SUFFICES ASSUME Init PROVE MarcasAcotadas
    OBVIOUS
  <2>1. Marcas = {}
    BY DEF Init, Marcas
  <2> QED
    BY <2>1, FS_EmptySet DEF Init, MarcasAcotadas
<1>2. IInv /\ IInv' /\ MarcasAcotadas /\ [Next]_vars => MarcasAcotadas'
  BY MarcasPaso
<1> QED
  BY <1>1, <1>2, Invariante, PTL DEF Spec

-----------------------------------------------------------------------------
(* LineReader implements VarStack: every request is a step of the abstract
   ordered environment or leaves it alone. *)

LEMMA EntornoFuncion ==
    ASSUME TypeOK
    PROVE  /\ Len(Entorno) = Len(stackVar) /\ Len(stackVar) \in Nat
           /\ DOMAIN Entorno = 1..Len(stackVar)
           /\ \A i \in 1..Len(stackVar) :
                 Entorno[i] = [tipo |-> stackVar[i].tipo, nombre |-> stackVar[i].nombre,
                               valor |-> memoria[stackVar[i].posicion]]
<1>1. Len(stackVar) \in Nat
  BY DEF TypeOK
<1> QED
  BY <1>1 DEF Entorno

(* The abstract environment only depends on the stack and on the blocks its
   variables own. *)
LEMMA EntornoIgual ==
    ASSUME stackVar' = stackVar,
           \A i \in 1..Len(stackVar) : memoria'[stackVar[i].posicion] = memoria[stackVar[i].posicion]
    PROVE  Entorno' = Entorno
BY DEF Entorno

LEMMA MuereAbstracto ==
    ASSUME IInv, Next, Muerte
    PROVE  Abstracto!Muere
<1>1. \E f \in {"nulo", "indefinido"} : Fallar(f)
  BY DEF Muerte, cerrarSinMarca, declararDesbordada, asignarCharNulo, asignarCharIndefinido
<1>2. Entorno' = Entorno
  BY <1>1, EntornoIgual DEF Fallar
<1>3. (fallo = "no")' = FALSE
  BY <1>1 DEF Fallar
<1> QED
  BY <1>2, <1>3 DEF Abstracto!Muere

LEMMA DescartaAbstracto ==
    ASSUME IInv, cerrarBloque
    PROVE  Abstracto!Descarta
<1> USE DEF IInv
<1>1. PICK k \in Marcas : /\ popVariables(k)
                          /\ numVariables' = numVariables - Sacadas(k)
                          /\ fallo' = fallo
  BY DEF cerrarBloque
<1>2. k \in 1..Len(stackVar)
  BY DEF Marcas
<1>3. /\ stackVar' \in Seq(Variable)
      /\ \A i \in 1..Len(stackVar') : memoria'[stackVar'[i].posicion] = memoria[stackVar[i].posicion]
  BY <1>1, <1>2, PopConserva
<1>4. /\ Len(stackVar) \in Nat
      /\ Len(stackVar') = k - 1
      /\ \A i \in 1..k-1 : i \in 1..Len(stackVar) /\ stackVar'[i] = stackVar[i]
  BY <1>1, <1>2 DEF popVariables, TypeOK
<1>5. Entorno' = [i \in 1..k-1 |-> Entorno[i]]
  <2>1. \A i \in 1..k-1 :
            [tipo |-> stackVar'[i].tipo, nombre |-> stackVar'[i].nombre,
             valor |-> memoria'[stackVar'[i].posicion]] = Entorno[i]
    BY <1>3, <1>4, EntornoFuncion
  <2> QED
    BY <1>4, <2>1 DEF Entorno
<1>6. SubSeq(Entorno, 1, k - 1) = [i \in 1..k-1 |-> Entorno[i]]
  BY <1>2, <1>4
<1>7. k \in 1..Len(Entorno)
  BY <1>2, EntornoFuncion
<1> QED
  BY <1>1, <1>5, <1>6, <1>7 DEF Abstracto!Descarta

(* "clear" drops the whole environment, or finds it empty. *)
LEMMA ClearAbstracto ==
    ASSUME IInv, clear
    PROVE  Abstracto!Descarta \/ UNCHANGED Abstracto!evars
<1> USE DEF IInv
<1>1. Entorno' = <<>> /\ fallo' = fallo
  <2>1. stackVar' = <<>>
    BY ClearConserva
  <2>2. Entorno' = <<>>
    BY <2>1 DEF Entorno
  <2> QED
    BY <2>2 DEF clear
<1>2. CASE Len(stackVar) = 0
  <2>1. Entorno = <<>>
    BY <1>2, EntornoFuncion DEF Entorno
  <2> QED
    BY <1>1, <2>1 DEF Abstracto!evars
<1>3. CASE Len(stackVar) > 0
  <2>1. 1 \in 1..Len(Entorno)
    BY <1>3, EntornoFuncion
  <2>2. SubSeq(Entorno, 1, 1 - 1) = <<>>
    OBVIOUS
  <2> QED
    BY <1>1, <2>1, <2>2 DEF Abstracto!Descarta
<1> QED
  BY <1>2, <1>3, EntornoFuncion

LEMMA DeclaraAbstracto ==
    ASSUME IInv, Nueva
    PROVE  Abstracto!Declara
<1> USE DEF IInv
<1>1. PICK t \in Tipos, n \in Nombres : \E v \in ValoresDe(t) : declararNueva(t, n, v)
  BY DEF Nueva
<1>2. PICK v \in ValoresDe(t) : declararNueva(t, n, v)
  BY <1>1
<1> DEFINE q == numVariables + 1
           nueva == [tipo |-> t, nombre |-> n, posicion |-> q, comienzoLlaves |-> isllaveAbierta]
           entrada == [tipo |-> t, nombre |-> n, valor |-> v]
<1>3. /\ Len(stackVar) \in Nat /\ q \in Slots
      /\ stackVar' = Append(stackVar, nueva)
      /\ memoria'[q] = v
      /\ fallo' = fallo
      /\ \A i \in 1..Len(stackVar) : stackVar[i].nombre # n
  BY <1>2 DEF declararNueva, SlotNuevo, TypeOK, Existe
<1>4. \A i \in 1..Len(stackVar) : memoria'[stackVar[i].posicion] = memoria[stackVar[i].posicion]
  BY <1>2, DeclararConserva
<1>5. /\ Len(stackVar') = Len(stackVar) + 1
      /\ stackVar'[Len(stackVar) + 1] = nueva
      /\ \A i \in 1..Len(stackVar) : stackVar'[i] = stackVar[i]
  BY <1>3 DEF TypeOK
<1>6. \A i \in 1..Len(stackVar) + 1 :
          [tipo |-> stackVar'[i].tipo, nombre |-> stackVar'[i].nombre,
           valor |-> memoria'[stackVar'[i].posicion]]
            = IF i = Len(stackVar) + 1 THEN entrada ELSE Entorno[i]
  <2> SUFFICES ASSUME NEW i \in 1..Len(stackVar) + 1
               PROVE  [tipo |-> stackVar'[i].tipo, nombre |-> stackVar'[i].nombre,
                       valor |-> memoria'[stackVar'[i].posicion]]
                        = IF i = Len(stackVar) + 1 THEN entrada ELSE Entorno[i]
    OBVIOUS
  <2>1. CASE i = Len(stackVar) + 1
    BY <1>3, <1>5, <2>1
  <2>2. CASE i # Len(stackVar) + 1
    <3>1. i \in 1..Len(stackVar)
      BY <1>3, <2>2
    <3> QED
      BY <1>4, <1>5, <2>2, <3>1, EntornoFuncion
  <2> QED
    BY <2>1, <2>2
<1>7. Entorno' = [i \in 1..Len(stackVar) + 1 |->
                    IF i = Len(stackVar) + 1 THEN entrada ELSE Entorno[i]]
  BY <1>5, <1>6 DEF Entorno
<1>8. Append(Entorno, entrada) = [i \in 1..Len(stackVar) + 1 |->
                    IF i = Len(stackVar) + 1 THEN entrada ELSE Entorno[i]]
  BY EntornoFuncion
<1>9. \A i \in 1..Len(Entorno) : Entorno[i].nombre # n
  BY <1>3, EntornoFuncion
<1>10. v \in [u \in Tipos |-> ValoresDe(u)][t]
  BY <1>2
<1> QED
  BY <1>1, <1>3, <1>7, <1>8, <1>9, <1>10 DEF Abstracto!Declara

LEMMA AlmacenaAbstracto ==
    ASSUME IInv, Escribe
    PROVE  Abstracto!Almacena
<1> USE DEF IInv
<1>1. PICK d \in 1..Len(stackVar) : \E x \in ValoresDe(stackVar[d].tipo) :
          Escribir(stackVar[d].posicion, x) /\ \E n \in Nombres : Existe(n) /\ Escrita(n)
  BY DEF Escribe
<1>2. PICK x \in ValoresDe(stackVar[d].tipo) :
          Escribir(stackVar[d].posicion, x) /\ \E n \in Nombres : Existe(n) /\ Escrita(n)
  BY <1>1
<1>3. UNCHANGED <<stackVar, numVariables, fallo>>
  BY <1>2 DEF Escrita
<1>4. /\ memoria'[stackVar[d].posicion] = x
      /\ \A i \in 1..Len(stackVar) :
            i # d => memoria'[stackVar[i].posicion] = memoria[stackVar[i].posicion]
  BY <1>2, <1>3, EscribirConserva
<1>5. Entorno' = [i \in 1..Len(stackVar) |->
          [tipo |-> stackVar[i].tipo, nombre |-> stackVar[i].nombre,
           valor |-> memoria'[stackVar[i].posicion]]]
  BY <1>3 DEF Entorno
<1>6. [Entorno EXCEPT ![d].valor = x] = [i \in 1..Len(stackVar) |->
          [tipo |-> stackVar[i].tipo, nombre |-> stackVar[i].nombre,
           valor |-> memoria'[stackVar[i].posicion]]]
  <2> DEFINE nuevo == [Entorno EXCEPT ![d].valor = x]
  <2>1. DOMAIN nuevo = 1..Len(stackVar)
    BY EntornoFuncion
  <2>2. nuevo = [i \in 1..Len(stackVar) |-> nuevo[i]]
    BY <2>1
  <2>3. \A i \in 1..Len(stackVar) :
            nuevo[i] = [tipo |-> stackVar[i].tipo, nombre |-> stackVar[i].nombre,
                        valor |-> memoria'[stackVar[i].posicion]]
    <3> SUFFICES ASSUME NEW i \in 1..Len(stackVar)
                 PROVE  nuevo[i] = [tipo |-> stackVar[i].tipo, nombre |-> stackVar[i].nombre,
                                    valor |-> memoria'[stackVar[i].posicion]]
      OBVIOUS
    <3>1. CASE i = d
      <4>1. nuevo[d] = [Entorno[d] EXCEPT !.valor = x]
        BY EntornoFuncion
      <4> QED
        BY <1>4, <3>1, <4>1, EntornoFuncion
    <3>2. CASE i # d
      <4>1. nuevo[i] = Entorno[i]
        BY <3>2, EntornoFuncion
      <4> QED
        BY <1>4, <3>2, <4>1, EntornoFuncion
    <3> QED
      BY <3>1, <3>2
  <2> QED
    BY <2>2, <2>3
<1>7. d \in 1..Len(Entorno) /\ Entorno[d].tipo = stackVar[d].tipo
  BY EntornoFuncion
<1>8. stackVar[d].tipo \in Tipos
  <2>1. stackVar[d] \in Variable
    BY DEF TypeOK
  <2> QED
    BY <2>1 DEF Variable
<1>9. x \in [u \in Tipos |-> ValoresDe(u)][Entorno[d].tipo]
  BY <1>2, <1>7, <1>8
<1> QED
  BY <1>3, <1>5, <1>6, <1>7, <1>9 DEF Abstracto!Almacena

(* The interpreter is an ordered environment of typed variables: each line
   declares one variable, changes the value of one, discards a run of the
   newest, kills the process, or changes nothing a client could see. *)
THEOREM Refina == Spec => ImplementaVarStack
<1>1. Init => Abstracto!EInit
  BY DEF Init, Abstracto!EInit, Entorno
<1>2. IInv /\ [Next]_vars => [Abstracto!ENext]_(Abstracto!evars)
  <2> SUFFICES ASSUME IInv, [Next]_vars
               PROVE  [Abstracto!ENext]_(Abstracto!evars)
    OBVIOUS
  <2>1. CASE UNCHANGED vars
    BY <2>1 DEF vars, Abstracto!evars, Entorno
  <2>2. CASE Next
    <3>1. fallo = "no"
      BY <2>2 DEF Next
    <3>2. CASE Quieto \/ Repite
      <4>1. UNCHANGED <<stackVar, memoria, fallo>>
        BY <3>2 DEF Quieto, Repite, declararRepetida
      <4> QED
        BY <4>1 DEF Abstracto!evars, Entorno
    <3>3. CASE Nueva
      BY <3>1, <3>3, DeclaraAbstracto DEF Abstracto!ENext
    <3>4. CASE Escribe
      BY <3>1, <3>4, AlmacenaAbstracto DEF Abstracto!ENext
    <3>5. CASE Muerte
      BY <2>2, <3>1, <3>5, MuereAbstracto DEF Abstracto!ENext
    <3>6. CASE cerrarBloque
      BY <3>1, <3>6, DescartaAbstracto DEF Abstracto!ENext
    <3>7. CASE clear
      BY <3>1, <3>7, ClearAbstracto DEF Abstracto!ENext
    <3> QED
      BY <2>2, <3>2, <3>3, <3>4, <3>5, <3>6, <3>7, Casos
  <2> QED
    BY <2>1, <2>2
<1> QED
  BY <1>1, <1>2, Invariante, PTL DEF Spec, ImplementaVarStack, Abstracto!ESpec
=============================================================================
