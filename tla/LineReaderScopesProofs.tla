----------------------- MODULE LineReaderScopesProofs -----------------------
(***************************************************************************)
(* Proof that the interpreter's marks keep the scopes that its braces open *)
(* where every block declares something: what the code remembers of a "{", *)
(* one bit in the first variable declared after it, agrees with the height *)
(* of the stack that LineReaderScopes remembers.                           *)
(***************************************************************************)
EXTENDS LineReaderScopes, LineReaderProofs

Alturas == /\ alturas \in Seq(Nat) /\ Len(alturas) = llavesDisponibles
           /\ disciplinado \in BOOLEAN

(* Each open block but the newest has declared something, and the newest has
   once the flag is down. *)
Escalones ==
    /\ \A i, j \in 1..llavesDisponibles : i < j => alturas[i] < alturas[j]
    /\ ~isllaveAbierta => \A i \in 1..llavesDisponibles : alturas[i] < Len(stackVar)
    /\ isllaveAbierta => IF llavesDisponibles = 0 THEN stackVar = <<>>
                         ELSE alturas[llavesDisponibles] = Len(stackVar)

(* The first variable of each block is marked, and besides these only such as
   lie below all blocks: the very first declaration is, with no brace before. *)
DelBloque(i, k) == k = alturas[i] + 1

Marcados ==
    /\ \A i \in 1..llavesDisponibles :
           (i < llavesDisponibles \/ ~isllaveAbierta) => alturas[i] + 1 \in Marcas
    /\ \A k \in Marcas : \/ \E i \in 1..llavesDisponibles : DelBloque(i, k)
                         \/ \A i \in 1..llavesDisponibles : k <= alturas[i]

AInv == Alturas /\ (disciplinado => Escalones /\ Marcados)

-----------------------------------------------------------------------------
(* What a step does to the record. *)

Sigue == disciplinado /\ (llavesDisponibles' # llavesDisponibles => ~Suelta)

(* What SubSeq keeps, for plain numbers. *)
LEMMA Recorte ==
    ASSUME NEW s \in Seq(Nat), NEW n \in Nat, n <= Len(s)
    PROVE  /\ SubSeq(s, 1, n) \in Seq(Nat) /\ Len(SubSeq(s, 1, n)) = n
           /\ \A i \in 1..n : SubSeq(s, 1, n)[i] = s[i]
           /\ n = Len(s) => SubSeq(s, 1, n) = s
OBVIOUS

LEMMA AlturasPaso ==
    ASSUME IInv, IInv', Alturas, ANext
    PROVE  /\ Alturas'
           /\ disciplinado' = (Limpio' \/ Sigue)
           /\ llavesDisponibles' = llavesDisponibles => alturas' = alturas
           /\ llavesDisponibles' > llavesDisponibles => alturas' = Append(alturas, Len(stackVar))
           /\ llavesDisponibles' < llavesDisponibles =>
                  \A i \in 1..llavesDisponibles' : alturas'[i] = alturas[i]
<1>1. /\ llavesDisponibles \in Nat /\ llavesDisponibles' \in Nat /\ Len(stackVar) \in Nat
      /\ isllaveAbierta \in BOOLEAN /\ isllaveAbierta' \in BOOLEAN
  BY DEF IInv, TypeOK
<1>2. alturas \in Seq(Nat) /\ Len(alturas) = llavesDisponibles /\ disciplinado \in BOOLEAN
  BY DEF Alturas
<1>3. disciplinado' = (Limpio' \/ Sigue)
  BY DEF ANext, Sigue
<1>4. disciplinado' \in BOOLEAN
  BY <1>3
<1>5. llavesDisponibles' \in llavesDisponibles + 1..llavesDisponibles + 1
          \/ llavesDisponibles' <= llavesDisponibles
  <2>1. Quieto \/ Repite \/ Nueva \/ Escribe \/ Muerte \/ cerrarBloque \/ clear
    BY Casos DEF ANext
  <2>2. CASE Quieto
    BY <1>1, <2>2 DEF Quieto
  <2>3. CASE Repite \/ Nueva \/ Escribe \/ Muerte
    <3>1. llavesDisponibles' = llavesDisponibles
      BY <2>3 DEF Repite, declararRepetida, Nueva, declararNueva, Escribe, Escrita, Muerte,
         cerrarSinMarca, declararDesbordada, asignarCharNulo, asignarCharIndefinido, Fallar
    <3> QED
      BY <1>1, <3>1
  <2>4. CASE cerrarBloque
    BY <1>1, <2>4 DEF cerrarBloque
  <2>5. CASE clear
    BY <1>1, <2>5 DEF clear
  <2> QED
    BY <2>1, <2>2, <2>3, <2>4, <2>5
<1>6. CASE llavesDisponibles' > llavesDisponibles
  <2>1. alturas' = Append(alturas, Len(stackVar)) /\ llavesDisponibles' = llavesDisponibles + 1
    BY <1>1, <1>5, <1>6 DEF ANext
  <2>2. alturas' \in Seq(Nat) /\ Len(alturas') = llavesDisponibles'
    BY <1>1, <1>2, <2>1
  <2>3. Alturas'
    BY <1>4, <2>2 DEF Alturas
  <2> QED
    BY <1>1, <1>3, <1>6, <2>1, <2>3
<1>7. CASE llavesDisponibles' <= llavesDisponibles
  <2>0. ~(llavesDisponibles' > llavesDisponibles)
    BY <1>1, <1>7
  <2>1. alturas' = SubSeq(alturas, 1, llavesDisponibles')
    BY <2>0 DEF ANext
  <2>2. /\ alturas' \in Seq(Nat) /\ Len(alturas') = llavesDisponibles'
        /\ \A i \in 1..llavesDisponibles' : alturas'[i] = alturas[i]
    BY <1>1, <1>2, <1>7, <2>1, Recorte
  <2>3. Alturas'
    BY <1>4, <2>2 DEF Alturas
  <2>4. llavesDisponibles' = llavesDisponibles => alturas' = alturas
    BY <1>1, <1>2, <2>1, Recorte
  <2> QED
    BY <1>1, <1>3, <1>7, <2>2, <2>3, <2>4
<1> QED
  BY <1>1, <1>6, <1>7

(* A clean interpreter is disciplined whatever came before. *)
LEMMA LimpioCumple == Limpio' => (Escalones /\ Marcados)'
<1> SUFFICES ASSUME Limpio' PROVE Escalones' /\ Marcados'
  OBVIOUS
<1>1. stackVar' = <<>> /\ llavesDisponibles' = 0 /\ isllaveAbierta'
  BY DEF Limpio
<1>2. Marcas' = {}
  BY <1>1 DEF Marcas
<1> QED
  BY <1>1, <1>2 DEF Escalones, Marcados

LEMMA MismaPila ==
    ASSUME Escalones, Marcados,
           UNCHANGED <<stackVar, llavesDisponibles, isllaveAbierta, alturas>>
    PROVE  Escalones' /\ Marcados'
<1>1. Marcas' = Marcas
  BY DEF Marcas
<1> QED
  BY <1>1 DEF Escalones, Marcados, DelBloque

(* "{", with no other flag up. *)
LEMMA AbrirCumple ==
    ASSUME IInv, Alturas, Escalones, Marcados, ~Suelta, UNCHANGED stackVar,
           llavesDisponibles' = llavesDisponibles + 1, isllaveAbierta' = TRUE,
           alturas' = Append(alturas, Len(stackVar))
    PROVE  Escalones' /\ Marcados'
<1> DEFINE L == llavesDisponibles
           N == Len(stackVar)
<1>1. /\ L \in Nat /\ N \in Nat /\ isllaveAbierta \in BOOLEAN
      /\ alturas \in Seq(Nat) /\ Len(alturas) = L
  BY DEF IInv, TypeOK, Alturas
<1>2. /\ llavesDisponibles' = L + 1 /\ Len(stackVar') = N /\ Marcas' = Marcas
      /\ alturas'[L + 1] = N /\ \A i \in 1..L : alturas'[i] = alturas[i]
  BY <1>1 DEF Marcas
<1>3. /\ L + 1 \in Nat /\ \A i \in 1..L+1 : i \in 1..L \/ i = L + 1
      /\ \A i \in 1..L : i < L + 1 /\ alturas[i] \in Nat
  BY <1>1
<1>4. \A i \in 1..L : alturas[i] < N
  BY <1>1 DEF Suelta, Escalones
<1>5. \A i, j \in 1..L : i < j => alturas[i] < alturas[j]
  BY DEF Escalones
<1>6. \A k \in Marcas : k \in Nat /\ k <= N
  BY <1>1 DEF Marcas
<1>7. \A i \in 1..L : alturas[i] + 1 \in Marcas
  <2>1. CASE L = 0
    BY <2>1
  <2>2. CASE L # 0
    <3>1. ~isllaveAbierta
      BY <1>1, <2>2 DEF Suelta
    <3> QED
      BY <3>1 DEF Marcados
  <2> QED
    BY <2>1, <2>2
<1>8. \A k \in Marcas : \/ \E i \in 1..L : DelBloque(i, k)
                        \/ \A i \in 1..L : k <= alturas[i]
  BY DEF Marcados
<1> HIDE DEF L, N
<1>9. Escalones'
  <2>1. ASSUME NEW i \in 1..L+1, NEW j \in 1..L+1, i < j PROVE alturas'[i] < alturas'[j]
    <3>1. i \in 1..L
      BY <1>1, <2>1
    <3>2. CASE j \in 1..L
      BY <1>2, <1>5, <2>1, <3>1, <3>2
    <3>3. CASE j = L + 1
      BY <1>2, <1>4, <3>1, <3>3
    <3> QED
      BY <1>3, <3>2, <3>3
  <2>2. L + 1 # 0
    BY <1>1
  <2> QED
    BY <1>2, <2>1, <2>2 DEF Escalones
<1>10. Marcados'
  <2>1. ASSUME NEW i \in 1..L+1, i < L + 1 PROVE alturas'[i] + 1 \in Marcas
    <3>1. i \in 1..L
      BY <1>1, <2>1
    <3> QED
      BY <1>2, <1>7, <3>1
  <2>2. ASSUME NEW k \in Marcas
        PROVE  \/ \E i \in 1..L+1 : k = alturas'[i] + 1
               \/ \A i \in 1..L+1 : k <= alturas'[i]
    <3>1. CASE \E i \in 1..L : DelBloque(i, k)
      <4>1. PICK i \in 1..L : k = alturas[i] + 1
        BY <3>1 DEF DelBloque
      <4>2. i \in 1..L+1 /\ alturas'[i] = alturas[i]
        BY <1>1, <1>2
      <4> QED
        BY <4>1, <4>2
    <3>2. CASE \A i \in 1..L : k <= alturas[i]
      BY <1>2, <1>3, <1>6, <3>2
    <3> QED
      BY <1>8, <3>1, <3>2
  <2> QED
    BY <1>2, <2>1, <2>2 DEF Marcados, DelBloque
<1> QED
  BY <1>9, <1>10

(* A declaration, the first of its block or a later one. *)
LEMMA NuevaCumple ==
    ASSUME IInv, Alturas, Escalones, Marcados, Nueva, alturas' = alturas
    PROVE  Escalones' /\ Marcados'
<1> DEFINE L == llavesDisponibles
           N == Len(stackVar)
<1>1. /\ L \in Nat /\ N \in Nat /\ isllaveAbierta \in BOOLEAN
      /\ stackVar \in Seq(Variable) /\ \A i \in 1..L : alturas[i] \in Nat
  BY DEF IInv, TypeOK, Alturas
<1>2. PICK x : stackVar' = Append(stackVar, x) /\ x.comienzoLlaves = isllaveAbierta
  BY DEF Nueva, declararNueva
<1>3. llavesDisponibles' = L /\ isllaveAbierta' = FALSE
  BY DEF Nueva, declararNueva
<1>4. /\ Len(stackVar') = N + 1 /\ stackVar'[N + 1] = x
      /\ \A i \in 1..N : stackVar'[i] = stackVar[i]
  BY <1>1, <1>2
<1>5. Marcas' = IF isllaveAbierta THEN Marcas \cup {N + 1} ELSE Marcas
  <2>1. \A i \in 1..N+1 : i \in 1..N \/ i = N + 1
    BY <1>1
  <2>2. \A i \in 1..N : i \in 1..N+1
    BY <1>1
  <2>3. N + 1 \in 1..N+1 /\ N + 1 \notin 1..N
    BY <1>1
  <2>4. Marcas' = {i \in 1..N+1 : stackVar'[i].comienzoLlaves}
    BY <1>4 DEF Marcas
  <2>5. \A i \in 1..N : i \in Marcas' <=> i \in Marcas
    BY <1>4, <2>2, <2>4 DEF Marcas
  <2>6. N + 1 \in Marcas' <=> isllaveAbierta
    BY <1>2, <1>4, <2>3, <2>4
  <2>7. Marcas \subseteq 1..N /\ Marcas' \subseteq 1..N+1
    BY <2>4 DEF Marcas
  <2> HIDE DEF N
  <2>8. ASSUME NEW i \in Marcas' PROVE i \in Marcas \/ (isllaveAbierta /\ i = N + 1)
    <3>1. i \in 1..N \/ i = N + 1
      BY <2>1, <2>7
    <3>2. CASE i \in 1..N
      BY <2>5, <2>8, <3>2
    <3>3. CASE i = N + 1
      BY <2>6, <3>3
    <3> QED
      BY <3>1, <3>2, <3>3
  <2>9. Marcas \subseteq Marcas'
    BY <2>5, <2>7
  <2>10. CASE isllaveAbierta
    BY <2>6, <2>8, <2>9, <2>10
  <2>11. CASE ~isllaveAbierta
    BY <2>8, <2>9, <2>11
  <2> QED
    BY <2>10, <2>11
<1>6. \A i, j \in 1..L : i < j => alturas[i] < alturas[j]
  BY DEF Escalones
<1>7. \A i \in 1..L : alturas[i] <= N
  <2>1. CASE ~isllaveAbierta
    BY <1>1, <2>1 DEF Escalones
  <2>2. CASE isllaveAbierta
    <3> TAKE i \in 1..L
    <3>1. L # 0 /\ alturas[L] = N /\ L \in 1..L
      BY <1>1, <2>2 DEF Escalones
    <3>2. i < L \/ i = L
      BY <1>1
    <3> QED
      BY <1>1, <1>6, <3>1, <3>2
  <2> QED
    BY <1>1, <2>1, <2>2
<1>8. isllaveAbierta /\ L # 0 => alturas[L] = N
  BY DEF Escalones
<1> HIDE DEF L, N
<1>9. Escalones'
  <2>1. \A i \in 1..L : alturas[i] < N + 1
    BY <1>1, <1>7
  <2> QED
    BY <1>3, <1>4, <1>6, <2>1 DEF Escalones
<1>10. Marcados'
  <2>1. ASSUME NEW i \in 1..L PROVE alturas[i] + 1 \in Marcas'
    <3>1. CASE isllaveAbierta /\ i = L
      BY <1>1, <1>5, <1>8, <3>1
    <3>2. CASE ~(isllaveAbierta /\ i = L)
      <4>1. i < L \/ ~isllaveAbierta
        BY <1>1, <3>2
      <4>2. alturas[i] + 1 \in Marcas
        BY <4>1 DEF Marcados, L
      <4> QED
        BY <1>5, <4>2
    <3> QED
      BY <3>1, <3>2
  <2>2. ASSUME NEW k \in Marcas'
        PROVE  \/ \E i \in 1..L : k = alturas[i] + 1
               \/ \A i \in 1..L : k <= alturas[i]
    <3>1. CASE k \in Marcas
      BY <3>1 DEF Marcados, DelBloque, L
    <3>2. CASE isllaveAbierta /\ k = N + 1
      <4>1. CASE L = 0
        BY <4>1
      <4>2. CASE L # 0
        <5>1. L \in 1..L /\ k = alturas[L] + 1
          BY <1>1, <1>8, <3>2, <4>2
        <5> QED
          BY <5>1
      <4> QED
        BY <4>1, <4>2
    <3> QED
      BY <1>5, <3>1, <3>2
  <2> QED
    BY <1>3, <2>1, <2>2 DEF Marcados, DelBloque
<1> QED
  BY <1>9, <1>10

(* "}": the newest mark is that of the newest block. *)
LEMMA CerrarCumple ==
    ASSUME IInv, Alturas, Escalones, Marcados, ~isllaveAbierta, llavesDisponibles > 0,
           cerrarBloque, \A i \in 1..llavesDisponibles' : alturas'[i] = alturas[i]
    PROVE  Len(stackVar') = alturas[llavesDisponibles] /\ Escalones' /\ Marcados'
<1> DEFINE L == llavesDisponibles
           N == Len(stackVar)
<1>1. /\ L \in Nat /\ N \in Nat /\ L \in 1..L
      /\ stackVar \in Seq(Variable) /\ \A i \in 1..L : alturas[i] \in Nat
  BY DEF IInv, TypeOK, Alturas
<1>2. PICK k \in Marcas : /\ FinDelBloque(k) /\ popVariables(k)
                          /\ llavesDisponibles' = L - 1 /\ isllaveAbierta' = isllaveAbierta
  BY DEF cerrarBloque
<1>3. \A i, j \in 1..L : i < j => alturas[i] < alturas[j]
  BY DEF Escalones
<1>4. \A i \in 1..L : alturas[i] + 1 \in Marcas
  BY DEF Marcados
<1>5. \A m \in Marcas : m \in 1..N
  BY DEF Marcas
<1>6. \A m \in Marcas : \/ \E i \in 1..L : DelBloque(i, m)
                        \/ \A i \in 1..L : m <= alturas[i]
  BY DEF Marcados
<1>7. k = alturas[L] + 1
  <2>1. alturas[L] + 1 <= k
    BY <1>1, <1>2, <1>4 DEF FinDelBloque
  <2>2. k <= alturas[L] + 1
    <3>1. CASE \E i \in 1..L : DelBloque(i, k)
      <4>1. PICK i \in 1..L : k = alturas[i] + 1
        BY <3>1 DEF DelBloque
      <4>2. i < L \/ i = L
        BY <1>1
      <4> QED
        BY <1>1, <1>3, <4>1, <4>2
    <3>2. CASE \A i \in 1..L : k <= alturas[i]
      <4>1. k <= alturas[L] /\ k \in Int
        BY <1>1, <1>5, <3>2
      <4> QED
        BY <1>1, <4>1
    <3> QED
      BY <1>6, <3>1, <3>2
  <2>3. k \in Int
    BY <1>5
  <2> QED
    BY <1>1, <2>1, <2>2, <2>3
<1>8. k \in 1..N /\ stackVar' = SubSeq(stackVar, 1, k - 1)
  BY <1>2, <1>5 DEF popVariables
<1> HIDE DEF L, N
<1>9. Len(stackVar') = k - 1 /\ \A i \in 1..k-1 : stackVar'[i] = stackVar[i]
  BY <1>1, <1>8 DEF N
<1>10. Len(stackVar') = alturas[L]
  BY <1>1, <1>7, <1>9
<1>11. Marcas' = {m \in Marcas : m < k}
  <2>1. Marcas' = {m \in 1..k-1 : stackVar'[m].comienzoLlaves}
    BY <1>9 DEF Marcas
  <2>2. \A m : m \in 1..k-1 <=> m \in 1..N /\ m < k
    BY <1>1, <1>8
  <2> QED
    BY <1>9, <2>1, <2>2 DEF Marcas, N
<1>12. /\ llavesDisponibles' = L - 1 /\ isllaveAbierta' = isllaveAbierta
       /\ \A i \in 1..L-1 : alturas'[i] = alturas[i] /\ i \in 1..L /\ i < L
  BY <1>1, <1>2 DEF L
<1>13. Escalones'
  <2>1. \A i \in 1..L-1 : alturas[i] < Len(stackVar')
    BY <1>1, <1>3, <1>10, <1>12
  <2> QED
    BY <1>3, <1>12, <2>1 DEF Escalones
<1>14. Marcados'
  <2>1. ASSUME NEW i \in 1..L-1 PROVE alturas[i] + 1 \in Marcas'
    <3>1. alturas[i] < alturas[L] /\ alturas[i] + 1 \in Marcas
      BY <1>1, <1>3, <1>4, <1>12
    <3>2. alturas[i] + 1 < k
      BY <1>1, <1>7, <1>12, <3>1
    <3> QED
      BY <1>11, <3>1, <3>2
  <2>2. ASSUME NEW m \in Marcas'
        PROVE  \/ \E i \in 1..L-1 : m = alturas[i] + 1
               \/ \A i \in 1..L-1 : m <= alturas[i]
    <3>1. m \in Marcas /\ m < k
      BY <1>11
    <3>2. CASE \E i \in 1..L : DelBloque(i, m)
      <4>1. PICK i \in 1..L : m = alturas[i] + 1
        BY <3>2 DEF DelBloque
      <4>2. i # L
        BY <1>1, <1>7, <3>1, <4>1
      <4>3. i \in 1..L-1
        BY <1>1, <4>2
      <4> QED
        BY <4>1, <4>3
    <3>3. CASE \A i \in 1..L : m <= alturas[i]
      BY <1>12, <3>3
    <3> QED
      BY <1>6, <3>1, <3>2, <3>3
  <2> QED
    BY <1>12, <2>1, <2>2 DEF Marcados, DelBloque
<1> QED
  BY <1>10, <1>13, <1>14 DEF L

LEMMA AInicio == AInit => IInv /\ AInv
<1> SUFFICES ASSUME AInit PROVE IInv /\ AInv
  OBVIOUS
<1>1. IInv
  BY Inicio DEF AInit
<1>2. stackVar = <<>> /\ llavesDisponibles = 0 /\ isllaveAbierta = TRUE
  BY DEF AInit, Init
<1>3. Alturas
  BY <1>2 DEF AInit, Alturas
<1>4. Marcas = {}
  BY <1>2 DEF Marcas
<1>5. Escalones /\ Marcados
  BY <1>2, <1>4 DEF Escalones, Marcados
<1> QED
  BY <1>1, <1>3, <1>5 DEF AInv

LEMMA APaso ==
    ASSUME IInv, AInv, [ANext]_<<vars, ambitos>>
    PROVE  IInv' /\ AInv'
<1>1. [Next]_vars
  BY DEF ANext
<1>2. IInv'
  BY <1>1, Paso
<1>3. CASE UNCHANGED <<vars, ambitos>>
  <2>1. UNCHANGED <<stackVar, llavesDisponibles, isllaveAbierta, alturas, disciplinado>>
    BY <1>3 DEF vars, ambitos
  <2>2. Alturas'
    BY <2>1 DEF AInv, Alturas
  <2>3. disciplinado' => Escalones' /\ Marcados'
    BY <2>1, MismaPila DEF AInv
  <2> QED
    BY <1>2, <2>2, <2>3 DEF AInv
<1>4. CASE ANext
  <2>1. /\ Alturas'
        /\ disciplinado' = (Limpio' \/ Sigue)
        /\ llavesDisponibles' = llavesDisponibles => alturas' = alturas
        /\ llavesDisponibles' > llavesDisponibles => alturas' = Append(alturas, Len(stackVar))
        /\ llavesDisponibles' < llavesDisponibles =>
               \A i \in 1..llavesDisponibles' : alturas'[i] = alturas[i]
    BY <1>2, <1>4, AlturasPaso DEF AInv
  <2>2. llavesDisponibles \in Nat
    BY DEF IInv, TypeOK
  <2>3. ASSUME disciplinado', ~Limpio' PROVE Escalones' /\ Marcados'
    <3>1. disciplinado /\ (llavesDisponibles' # llavesDisponibles => ~Suelta)
      BY <2>1, <2>3 DEF Sigue
    <3>2. Alturas /\ Escalones /\ Marcados
      BY <3>1 DEF AInv
    <3>3. Quieto \/ Repite \/ Nueva \/ Escribe \/ Muerte \/ cerrarBloque \/ clear
      BY <1>4, Casos DEF ANext
    <3>4. CASE Quieto
      <4>1. stackVar' = stackVar
        BY <3>4 DEF Quieto
      <4>2. CASE UNCHANGED <<llavesDisponibles, isllaveAbierta>>
        BY <2>1, <3>2, <4>1, <4>2, MismaPila
      <4>3. CASE llavesDisponibles' = llavesDisponibles + 1 /\ isllaveAbierta' = TRUE
        <5>1. llavesDisponibles' > llavesDisponibles /\ llavesDisponibles' # llavesDisponibles
          BY <2>2, <4>3
        <5> QED
          BY <2>1, <3>1, <3>2, <4>1, <4>3, <5>1, AbrirCumple
      <4> QED
        BY <3>4, <4>2, <4>3 DEF Quieto
    <3>5. CASE Repite \/ Escribe \/ Muerte
      <4>1. UNCHANGED <<stackVar, llavesDisponibles, isllaveAbierta>>
        BY <3>5 DEF Repite, declararRepetida, Escribe, Escrita, Muerte, cerrarSinMarca,
           declararDesbordada, asignarCharNulo, asignarCharIndefinido, Fallar
      <4> QED
        BY <2>1, <3>2, <4>1, MismaPila
    <3>6. CASE Nueva
      <4>1. llavesDisponibles' = llavesDisponibles
        BY <3>6 DEF Nueva, declararNueva
      <4> QED
        BY <2>1, <3>2, <3>6, <4>1, NuevaCumple
    <3>7. CASE cerrarBloque
      <4>1. llavesDisponibles > 0 /\ llavesDisponibles' = llavesDisponibles - 1
        BY <3>7 DEF cerrarBloque
      <4>2. llavesDisponibles' < llavesDisponibles /\ llavesDisponibles' # llavesDisponibles
        BY <2>2, <4>1
      <4>3. ~isllaveAbierta
        BY <2>2, <3>1, <4>1, <4>2 DEF Suelta
      <4> QED
        BY <2>1, <3>2, <3>7, <4>1, <4>2, <4>3, CerrarCumple
    <3>8. CASE clear
      <4>1. stackVar' = <<>> /\ llavesDisponibles' = 0 /\ isllaveAbierta' = TRUE
        BY <3>8, ClearConserva DEF clear
      <4> QED
        BY <2>3, <4>1 DEF Limpio
    <3> QED
      BY <3>3, <3>4, <3>5, <3>6, <3>7, <3>8
  <2>4. disciplinado' => Escalones' /\ Marcados'
    BY <2>3, LimpioCumple
  <2> QED
    BY <1>2, <2>1, <2>4 DEF AInv
<1> QED
  BY <1>3, <1>4

(* What a closing brace and a death do, seen from such a state. *)
LEMMA AmbitoPaso ==
    ASSUME IInv, AInv, ANext, disciplinado, ~isllaveAbierta, llavesDisponibles > 0
    PROVE  /\ llavesDisponibles' < llavesDisponibles /\ ~isllaveAbierta'
                => Len(stackVar') = alturas[llavesDisponibles]
           /\ fallo' = "nulo" => Huecos > 0
<1>1. IInv' /\ Alturas /\ Escalones /\ Marcados
  BY Paso DEF ANext, AInv
<1>2. llavesDisponibles \in Nat /\ Len(stackVar) \in Nat /\ numVariables \in Int
  BY DEF IInv, TypeOK
<1>3. Quieto \/ Repite \/ Nueva \/ Escribe \/ Muerte \/ cerrarBloque \/ clear
  BY Casos DEF ANext
<1>4. fallo = "no"
  BY DEF ANext, Next
<1>5. CASE Quieto \/ Repite \/ Nueva \/ Escribe
  <2>1. fallo' = fallo
    BY <1>5 DEF Quieto, Repite, declararRepetida, Nueva, declararNueva, Escribe, Escrita
  <2>2. ~(llavesDisponibles' < llavesDisponibles)
    <3>1. \/ llavesDisponibles' = llavesDisponibles
          \/ llavesDisponibles' = llavesDisponibles + 1
      BY <1>5 DEF Quieto, Repite, declararRepetida, Nueva, declararNueva, Escribe, Escrita
    <3> QED
      BY <1>2, <3>1
  <2> QED
    BY <1>4, <2>1, <2>2
<1>6. CASE Muerte
  <2>1. ~(llavesDisponibles' < llavesDisponibles)
    <3>1. llavesDisponibles' = llavesDisponibles
      BY <1>6 DEF Muerte, cerrarSinMarca, declararDesbordada, asignarCharNulo,
         asignarCharIndefinido, Fallar
    <3> QED
      BY <1>2, <3>1
  <2>2. CASE cerrarSinMarca
    <3>1. alturas[llavesDisponibles] + 1 \in Marcas
      <4>1. llavesDisponibles \in 1..llavesDisponibles
        BY <1>2
      <4> QED
        BY <1>1, <4>1 DEF Marcados
    <3> QED
      BY <2>2, <3>1 DEF cerrarSinMarca
  <2>3. CASE \E n \in Nombres : declararDesbordada(n)
    <3>1. fallo' = "indefinido"
      BY <2>3 DEF declararDesbordada, Fallar
    <3> QED
      BY <2>1, <3>1
  <2>4. CASE Len(stackVar) > 0 /\ (asignarCharNulo \/ asignarCharIndefinido)
    <3>1. Huecos > 0
      <4> SUFFICES ASSUME ~(Huecos > 0) PROVE FALSE
        OBVIOUS
      <4>1. Huecos <= 0
        BY <1>2 DEF Huecos
      <4>2. numVariables \in Slots /\ memoria[numVariables] \in Valores
        BY <2>4, <4>1, SinHuecos
      <4> QED
        BY <2>4, <4>2, ValoresAssumption DEF asignarCharNulo, asignarCharIndefinido
    <3> QED
      BY <2>1, <3>1
  <2> QED
    BY <1>6, <2>2, <2>3, <2>4 DEF Muerte
<1>7. CASE cerrarBloque
  <2>1. fallo' = fallo
    BY <1>7 DEF cerrarBloque
  <2>2. llavesDisponibles' < llavesDisponibles
    BY <1>2, <1>7 DEF cerrarBloque
  <2>3. \A i \in 1..llavesDisponibles' : alturas'[i] = alturas[i]
    BY <1>1, <2>2, AlturasPaso
  <2> QED
    BY <1>1, <1>4, <1>7, <2>1, <2>3, CerrarCumple
<1>8. CASE clear
  BY <1>4, <1>8 DEF clear
<1> QED
  BY <1>3, <1>5, <1>6, <1>7, <1>8

(* Where every block declares something, a "}" removes all its block declared
   and nothing else, and the loop of cerrarLlaves never runs off the stack,
   with any number of blocks open within one another. *)
THEOREM AmbitoSiempreRestaurado == ASpec => AmbitoRestaurado
<1> DEFINE Restaura ==
      disciplinado /\ ~isllaveAbierta /\ llavesDisponibles > 0 =>
        /\ llavesDisponibles' < llavesDisponibles /\ ~isllaveAbierta'
             => Len(stackVar') = alturas[llavesDisponibles]
        /\ fallo' = "nulo" => Huecos > 0
<1>1. AInit => IInv /\ AInv
  BY AInicio
<1>2. IInv /\ AInv /\ [ANext]_<<vars, ambitos>> => IInv' /\ AInv'
  BY APaso
<1>3. IInv /\ AInv /\ [ANext]_<<vars, ambitos>> => [Restaura]_<<vars, ambitos>>
  BY AmbitoPaso
<1> QED
  BY <1>1, <1>2, <1>3, PTL DEF ASpec, AmbitoRestaurado
=============================================================================
