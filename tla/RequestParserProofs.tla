------------------------ MODULE RequestParserProofs ------------------------
(***************************************************************************)
(* Proofs about RequestParser, for any requests, widths and size limit.    *)
(* What a chunk does to the machine is shown byte by byte: after every     *)
(* byte the machine is where the stream up to it leads, however the chunks *)
(* before were cut.                                                        *)
(***************************************************************************)
EXTENDS RequestParser, SequenceTheorems, FiniteSetTheorems, WellFoundedInduction, TLAPS

Kinds == {"start", "name", "value", "sep", "space", "CR", "LF", "bad", "body"}

Bytes == [kind : Kinds, of : Methods \cup Names \cup {"none"}, i : Nat]

LEMMA Least ==
    ASSUME NEW T \in SUBSET Nat, T # {}
    PROVE  \E x \in T : \A y \in T : x <= y
<1>1. PICK x \in T : \A y \in T : ~(<<y, x>> \in OpToRel(<, Nat))
  BY WFMin, NatLessThanWellFounded
<1>2. \A y \in Nat : <<y, x>> \in OpToRel(<, Nat) <=> y < x
  BY DEF OpToRel
<1>3. \A y \in T : x <= y
  <2> TAKE y \in T
  <2>1. ~(y < x)
    BY <1>1, <1>2
  <2> QED
    BY <2>1
<1> QED
  BY <1>3

(* Induction over the naturals below a bound, for a set instead of a predicate. *)
LEMMA Induction ==
    ASSUME NEW n \in Nat, NEW S, 0 \in S, \A i \in 0..n-1 : i \in S => i + 1 \in S
    PROVE  \A i \in 0..n : i \in S
<1> DEFINE T == {i \in 0..n : i \notin S}
<1> SUFFICES ASSUME T # {} PROVE FALSE
  OBVIOUS
<1>1. T \in SUBSET Nat
  OBVIOUS
<1> HIDE DEF T
<1>2. PICK x \in T : \A y \in T : x <= y
  BY <1>1, Least
<1>3. x \in 0..n /\ x \notin S
  BY <1>2 DEF T
<1>4. x - 1 \in 0..n-1 /\ x - 1 < x
  BY <1>3
<1>5. x - 1 \in S
  BY <1>2, <1>4 DEF T
<1> QED
  BY <1>3, <1>4, <1>5

-----------------------------------------------------------------------------
(* Where the bytes of a request are: Off(r, j) of them come before the j-th
   header field, or before the blank line if there is no j-th. *)

LineLen(r) == IF r.eol = "LF" THEN 7 ELSE 8

Off(r, j) == IF r.eol = "LF" THEN 7 * j - 5 ELSE 8 * j - 5

Lines(r) == [j \in 1..Len(r.headers) |-> Line(r, r.headers[j])]

(* f has what the first i of the sequences ss make, for every i. *)
Unfolds(f, ss) ==
    /\ f[0] = <<>>
    /\ \A i \in 1..Len(ss) : f[i] = f[i - 1] \o ss[i]

LEMMA FlattenUnfolds ==
    ASSUME NEW S, NEW ss \in Seq(Seq(S))
    PROVE  \E f : Unfolds(f, ss) /\ FlattenSeq(ss) = f[Len(ss)]
<1> DEFINE Def(g, n) == [i \in 1..n |-> IF i = 1 THEN ss[i] ELSE g[i - 1] \o ss[i]]
           Made == {n \in Nat : \E g : g = Def(g, n)}
           flat == CHOOSE g : g = Def(g, Len(ss))
<1>0. Len(ss) \in Nat
  OBVIOUS
<1>1. 0 \in Made
  <2>1. <<>> = Def(<<>>, 0)
    OBVIOUS
  <2> QED
    BY <2>1
<1>2. ASSUME NEW n \in 0..Len(ss)-1, n \in Made PROVE n + 1 \in Made
  <2>1. PICK g : g = Def(g, n)
    BY <1>2
  <2> DEFINE h == [i \in 1..n+1 |-> IF i <= n THEN g[i]
                                    ELSE IF i = 1 THEN ss[i] ELSE g[n] \o ss[i]]
  <2>2. ASSUME NEW i \in 1..n+1
        PROVE  h[i] = IF i = 1 THEN ss[i] ELSE h[i - 1] \o ss[i]
    <3>1. CASE i \in 1..n
      <4>1. i <= n /\ (i # 1 => i - 1 \in 1..n /\ i - 1 <= n /\ i - 1 \in 1..n+1)
        BY <3>1
      <4>2. g[i] = IF i = 1 THEN ss[i] ELSE g[i - 1] \o ss[i]
        BY <2>1, <3>1
      <4> QED
        BY <4>1, <4>2
    <3>2. CASE i = n + 1
      <4>1. ~(i <= n) /\ i - 1 = n /\ (i # 1 => n \in 1..n+1 /\ n <= n)
        BY <3>2
      <4> QED
        BY <4>1
    <3> QED
      BY <3>1, <3>2
  <2>3. h = Def(h, n + 1)
    BY <2>2
  <2>4. n + 1 \in Nat
    OBVIOUS
  <2> HIDE DEF h, Def
  <2> QED
    BY <2>3, <2>4
<1>3. flat = Def(flat, Len(ss))
  <2>1. \A i \in 0..Len(ss) : i \in Made
    <3> HIDE DEF Made
    <3> QED
      BY <1>0, <1>1, <1>2, Induction
  <2>2. Len(ss) \in Made
    <3> HIDE DEF Made
    <3> QED
      BY <1>0, <2>1
  <2> QED
    BY <2>2
<1>4. CASE Len(ss) = 0
  <2> DEFINE f == [i \in 0..0 |-> <<>>]
  <2>1. Unfolds(f, ss)
    BY <1>4 DEF Unfolds
  <2>2. FlattenSeq(ss) = f[Len(ss)]
    BY <1>4 DEF FlattenSeq
  <2> QED
    BY <2>1, <2>2
<1>5. CASE Len(ss) # 0
  <2> DEFINE f == [i \in 0..Len(ss) |-> IF i = 0 THEN <<>> ELSE flat[i]]
  <2>1. FlattenSeq(ss) = flat[Len(ss)]
    BY <1>5 DEF FlattenSeq
  <2>2. \A i \in 1..Len(ss) : flat[i] = IF i = 1 THEN ss[i] ELSE flat[i - 1] \o ss[i]
    <3>1. \A i \in 1..Len(ss) :
              Def(flat, Len(ss))[i] = IF i = 1 THEN ss[i] ELSE flat[i - 1] \o ss[i]
      BY <1>0
    <3> HIDE DEF Def, flat
    <3> QED
      BY <1>3, <3>1
  <2> HIDE DEF flat
  <2>3. f[0] = <<>> /\ f[Len(ss)] = flat[Len(ss)]
    BY <1>0, <1>5
  <2>4. ASSUME NEW i \in 1..Len(ss) PROVE f[i] = f[i - 1] \o ss[i]
    <3>1. i \in 0..Len(ss) /\ i # 0 /\ i - 1 \in 0..Len(ss) /\ ss[i] \in Seq(S)
      BY <1>0
    <3>2. CASE i = 1
      <4>1. f[i - 1] = <<>> /\ f[i] = ss[i]
        BY <2>2, <3>1, <3>2
      <4> QED
        BY <3>1, <4>1, ConcatEmptySeq
    <3>3. CASE i # 1
      <4>1. i - 1 # 0 /\ f[i - 1] = flat[i - 1] /\ f[i] = flat[i]
        BY <3>1, <3>3
      <4> QED
        BY <2>2, <3>3, <4>1
    <3> QED
      BY <3>2, <3>3
  <2>5. Unfolds(f, ss)
    BY <2>3, <2>4 DEF Unfolds
  <2> QED
    BY <2>1, <2>3, <2>5
<1> QED
  BY <1>4, <1>5

-----------------------------------------------------------------------------
(* The bytes of a request. *)

LEMMA ByteIs ==
    ASSUME NEW k \in Kinds, NEW o \in Methods \cup Names \cup {"none"}, NEW i \in Nat
    PROVE  Byte(k, o, i) \in Bytes /\ Byte(k, o, i).kind = k
BY DEF Byte, Bytes

LEMMA PlainIs == ASSUME NEW k \in Kinds PROVE Plain(k) \in Bytes /\ Plain(k).kind = k
BY ByteIs DEF Plain

Joins(S, s, t, u) ==
    /\ u \in Seq(S) /\ Len(u) = Len(s) + Len(t)
    /\ \A i \in 1..Len(s) : u[i] = s[i]
    /\ \A i \in 1..Len(t) : u[Len(s) + i] = t[i]

LEMMA Joined ==
    ASSUME NEW S, NEW s \in Seq(S), NEW t \in Seq(S)
    PROVE  Joins(S, s, t, s \o t)
BY DEF Joins

LEMMA LineBytes ==
    ASSUME NEW r \in Request, NEW n \in Names
    PROVE  /\ Line(r, n) \in Seq(Bytes) /\ Len(Line(r, n)) = LineLen(r)
           /\ Line(r, n)[1] = Byte("name", n, 1) /\ Line(r, n)[2] = Byte("name", n, 2)
           /\ Line(r, n)[3].kind = "sep" /\ Line(r, n)[4].kind = "space"
           /\ Line(r, n)[5] = Byte("value", n, 1) /\ Line(r, n)[6] = Byte("value", n, 2)
           /\ r.eol = "LF" => Line(r, n)[7].kind = "LF"
           /\ r.eol = "CRLF" => Line(r, n)[7].kind = "CR" /\ Line(r, n)[8].kind = "LF"
<1>2. /\ Byte("name", n, 1) \in Bytes /\ Byte("name", n, 2) \in Bytes
      /\ Byte("value", n, 1) \in Bytes /\ Byte("value", n, 2) \in Bytes
      /\ Plain("sep") \in Bytes /\ Plain("sep").kind = "sep"
      /\ Plain("space") \in Bytes /\ Plain("space").kind = "space"
      /\ Plain("CR") \in Bytes /\ Plain("CR").kind = "CR"
      /\ Plain("LF") \in Bytes /\ Plain("LF").kind = "LF"
  BY ByteIs, PlainIs DEF Kinds
<1>3. r.eol \in {"CRLF", "LF"}
  BY DEF Request
<1> DEFINE s1 == Name(n)
           s2 == <<Plain("sep"), Plain("space")>>
           s3 == Value(n)
           s4 == Eol(r)
           t2 == s1 \o s2
           t3 == t2 \o s3
<1>4. /\ s1 \in Seq(Bytes) /\ Len(s1) = 2 /\ s1[1] = Byte("name", n, 1)
      /\ s1[2] = Byte("name", n, 2)
  BY <1>2 DEF Name
<1>5. s2 \in Seq(Bytes) /\ Len(s2) = 2 /\ s2[1].kind = "sep" /\ s2[2].kind = "space"
  BY <1>2
<1>6. /\ s3 \in Seq(Bytes) /\ Len(s3) = 2 /\ s3[1] = Byte("value", n, 1)
      /\ s3[2] = Byte("value", n, 2)
  BY <1>2 DEF Value
<1>7. /\ s4 \in Seq(Bytes) /\ Len(s4) = LineLen(r) - 6
      /\ r.eol = "LF" => s4[1].kind = "LF"
      /\ r.eol = "CRLF" => s4[1].kind = "CR" /\ s4[2].kind = "LF"
  <2>1. CASE r.eol = "LF"
    BY <1>2, <2>1 DEF Eol, LineLen
  <2>2. CASE r.eol = "CRLF"
    BY <1>2, <2>2 DEF Eol, LineLen
  <2> QED
    BY <1>3, <2>1, <2>2
<1>8. Line(r, n) = t3 \o s4
  BY DEF Line
<1> HIDE DEF s1, s2, s3, s4
<1>9. t2 \in Seq(Bytes) /\ Len(t2) = 4 /\ \A i \in 1..2 : t2[i] = s1[i] /\ t2[2 + i] = s2[i]
  <2>1. Joins(Bytes, s1, s2, t2)
    BY <1>4, <1>5, Joined
  <2> HIDE DEF t2
  <2> QED
    BY <1>4, <1>5, <2>1 DEF Joins
<1> HIDE DEF t2
<1>10. /\ t3 \in Seq(Bytes) /\ Len(t3) = 6
       /\ \A i \in 1..4 : t3[i] = t2[i]
       /\ \A i \in 1..2 : t3[4 + i] = s3[i]
  <2>1. Joins(Bytes, t2, s3, t3)
    BY <1>6, <1>9, Joined
  <2> HIDE DEF t3
  <2> QED
    BY <1>6, <1>9, <2>1 DEF Joins
<1> HIDE DEF t3
<1>11. /\ Line(r, n) \in Seq(Bytes) /\ Len(Line(r, n)) = 6 + Len(s4)
       /\ \A i \in 1..6 : Line(r, n)[i] = t3[i]
       /\ \A i \in 1..Len(s4) : Line(r, n)[6 + i] = s4[i]
  <2>1. Joins(Bytes, t3, s4, Line(r, n))
    BY <1>7, <1>8, <1>10, Joined
  <2> QED
    BY <1>7, <1>10, <2>1 DEF Joins
<1>12. /\ t2[1] = s1[1] /\ t2[2] = s1[2] /\ t2[3] = s2[1] /\ t2[4] = s2[2]
       /\ t3[1] = t2[1] /\ t3[2] = t2[2] /\ t3[3] = t2[3] /\ t3[4] = t2[4]
  <2>1. t2[2 + 1] = s2[1] /\ t2[2 + 2] = s2[2]
    BY <1>9
  <2> QED
    BY <1>9, <1>10, <2>1
<1>13. t3[5] = s3[1] /\ t3[6] = s3[2]
  <2>1. t3[4 + 1] = s3[1] /\ t3[4 + 2] = s3[2]
    BY <1>10
  <2> QED
    BY <2>1
<1>14. \A i \in {1, 2, 3, 4, 5, 6} : Line(r, n)[i] = t3[i]
  BY <1>11
<1>15. r.eol = "LF" => Len(s4) = 1 /\ Line(r, n)[7] = s4[1]
  <2>1. r.eol = "LF" => Len(s4) = 1 /\ Line(r, n)[6 + 1] = s4[1]
    BY <1>7, <1>11 DEF LineLen
  <2> QED
    BY <2>1
<1>16. r.eol = "CRLF" => Len(s4) = 2 /\ Line(r, n)[7] = s4[1] /\ Line(r, n)[8] = s4[2]
  <2>1. r.eol = "CRLF" => Len(s4) = 2 /\ Line(r, n)[6 + 1] = s4[1]
            /\ Line(r, n)[6 + 2] = s4[2]
    BY <1>7, <1>11 DEF LineLen
  <2> QED
    BY <2>1
<1>17. Len(Line(r, n)) = LineLen(r)
  BY <1>3, <1>7, <1>11 DEF LineLen
<1> QED
  BY <1>4, <1>5, <1>6, <1>7, <1>11, <1>12, <1>13, <1>14, <1>15, <1>16, <1>17

LEMMA FieldBytes ==
    ASSUME NEW r \in Request
    PROVE  /\ FlattenSeq(Lines(r)) \in Seq(Bytes)
           /\ Len(FlattenSeq(Lines(r))) = Off(r, Len(r.headers) + 1) - Off(r, 1)
           /\ \A j \in 1..Len(r.headers), d \in 1..LineLen(r) :
                  FlattenSeq(Lines(r))[Off(r, j) - Off(r, 1) + d] = Line(r, r.headers[j])[d]
<1> DEFINE K == Len(r.headers)
           L == LineLen(r)
           At(j) == Off(r, j) - Off(r, 1)
<1>1. r.headers \in Seq(Names) /\ K \in Nat
  BY DEF Request
<1>2. \A j \in 1..K : r.headers[j] \in Names /\ Lines(r)[j] = Line(r, r.headers[j])
  BY <1>1 DEF Lines
<1>3. Lines(r) \in Seq(Seq(Bytes)) /\ Len(Lines(r)) = K
  <2>1. \A j \in 1..K : Line(r, r.headers[j]) \in Seq(Bytes)
    BY <1>2, LineBytes
  <2> QED
    BY <1>1, <2>1 DEF Lines
<1>4. PICK f : Unfolds(f, Lines(r)) /\ FlattenSeq(Lines(r)) = f[K]
  BY <1>3, FlattenUnfolds
<1>5. /\ \A j \in Nat : At(j) \in Int /\ At(j + 1) = At(j) + L
      /\ At(1) = 0 /\ L \in Nat
      /\ \A j \in Nat \ {0} : At(j) \in Nat
      /\ \A i, j \in Nat : i < j => At(i) + L <= At(j)
  BY DEF Off, LineLen
<1> DEFINE Good(n) == /\ f[n] \in Seq(Bytes) /\ Len(f[n]) = At(n + 1)
                      /\ \A j \in 1..n, d \in 1..L :
                             f[n][At(j) + d] = Line(r, r.headers[j])[d]
           Goods == {n \in 0..K : Good(n)}
<1> HIDE DEF At, L
<1>6. 0 \in Goods
  <2>1. f[0] = <<>> /\ 0 \in 0..K /\ 0 + 1 = 1
    BY <1>1, <1>4 DEF Unfolds
  <2>2. Good(0)
    BY <1>5, <2>1
  <2> QED
    BY <2>1, <2>2
<1>7. ASSUME NEW n \in 0..K-1, n \in Goods PROVE n + 1 \in Goods
  <2>1. n + 1 \in 1..K /\ (n + 1) - 1 = n /\ n \in Nat
    BY <1>1
  <2>2. Good(n)
    BY <1>7
  <2> DEFINE t == Line(r, r.headers[n + 1])
  <2>3. f[n + 1] = f[n] \o t
    BY <1>2, <1>3, <1>4, <2>1 DEF Unfolds
  <2>4. t \in Seq(Bytes) /\ Len(t) = L
    BY <1>2, <2>1, LineBytes DEF L
  <2>5. /\ f[n + 1] \in Seq(Bytes) /\ Len(f[n + 1]) = At(n + 1) + L
        /\ \A i \in 1..At(n + 1) : f[n + 1][i] = f[n][i]
        /\ \A i \in 1..L : f[n + 1][At(n + 1) + i] = t[i]
    <3>1. f[n] \in Seq(Bytes) /\ Len(f[n]) = At(n + 1)
      BY <2>2
    <3> HIDE DEF t
    <3>2. Joins(Bytes, f[n], t, f[n + 1])
      BY <2>3, <2>4, <3>1, Joined
    <3> QED
      BY <2>4, <3>1, <3>2 DEF Joins
  <2>6. ASSUME NEW j \in 1..n+1, NEW d \in 1..L
        PROVE  f[n + 1][At(j) + d] = Line(r, r.headers[j])[d]
    <3>1. CASE j \in 1..n
      <4>1. At(j) \in Nat /\ At(n + 1) \in Nat /\ At(j) + L <= At(n + 1)
        <5>1. j \in Nat \ {0} /\ n + 1 \in Nat \ {0} /\ j < n + 1
          BY <2>1, <3>1
        <5> QED
          BY <1>5, <5>1
      <4>2. At(j) + d \in 1..At(n + 1)
        <5>1. d >= 1 /\ d <= L /\ L \in Nat
          BY <1>5
        <5> QED
          BY <4>1, <5>1
      <4> QED
        BY <2>2, <2>5, <3>1, <4>2
    <3>2. CASE j = n + 1
      BY <2>5, <3>2
    <3> QED
      BY <2>1, <3>1, <3>2
  <2>7. Len(f[n + 1]) = At((n + 1) + 1)
    BY <1>5, <2>1, <2>5
  <2>8. Good(n + 1)
    BY <2>5, <2>6, <2>7
  <2> HIDE DEF Good
  <2> QED
    BY <1>1, <2>1, <2>8
<1>8. Good(K)
  <2>1. \A n \in 0..K : n \in Goods
    <3> HIDE DEF Goods
    <3> QED
      BY <1>1, <1>6, <1>7, Induction
  <2> HIDE DEF Good
  <2> QED
    BY <1>1, <2>1
<1> QED
  BY <1>4, <1>8 DEF At, L

(* The header, byte by byte. *)
HeaderIs(r, h) ==
    /\ h \in Seq(Bytes)
    /\ Len(h) = Off(r, Len(r.headers) + 1) + (IF r.bad THEN 1 ELSE 0) + Off(r, 1) - 1
    /\ h[1].kind = "start"
    /\ r.eol = "LF" => h[2].kind = "LF"
    /\ r.eol = "CRLF" => h[2].kind = "CR" /\ h[3].kind = "LF"
    /\ \A j \in 1..Len(r.headers), d \in 1..LineLen(r) :
           h[Off(r, j) + d] = Line(r, r.headers[j])[d]
    /\ r.bad => h[Off(r, Len(r.headers) + 1) + 1].kind = "bad"
    /\ ~r.bad /\ r.eol = "CRLF" => h[Off(r, Len(r.headers) + 1) + 1].kind = "CR"
    /\ h[Len(h)].kind = "LF"

LEMMA HeaderBytes == ASSUME NEW r \in Request PROVE HeaderIs(r, Header(r))
<1> DEFINE K == Len(r.headers)
           s1 == <<Byte("start", r.method, 0)>>
           s2 == Eol(r)
           s3 == FlattenSeq(Lines(r))
           s4 == IF r.bad THEN <<Plain("bad")>> ELSE <<>>
           h  == Header(r)
           e  == Off(r, 1) - 1
           o  == Off(r, K + 1)
           b  == IF r.bad THEN 1 ELSE 0
<1>1. Header(r) = s1 \o s2 \o s3 \o s4 \o s2
  BY DEF Header, Lines
<1>2. /\ r.headers \in Seq(Names) /\ K \in Nat /\ r.eol \in {"CRLF", "LF"}
      /\ r.bad \in BOOLEAN /\ r.method \in Methods
  BY DEF Request
<1>3. s1 \in Seq(Bytes) /\ Len(s1) = 1 /\ s1[1].kind = "start"
  <2>1. Byte("start", r.method, 0) \in Bytes /\ Byte("start", r.method, 0).kind = "start"
    BY <1>2, ByteIs DEF Kinds
  <2> QED
    BY <2>1
<1>4. /\ s2 \in Seq(Bytes) /\ Len(s2) = e /\ e \in 1..2 /\ s2[e].kind = "LF"
      /\ (r.eol = "CRLF" => e = 2 /\ s2[1].kind = "CR") /\ (r.eol = "LF" => e = 1)
  <2>1. /\ Plain("CR") \in Bytes /\ Plain("CR").kind = "CR"
        /\ Plain("LF") \in Bytes /\ Plain("LF").kind = "LF"
    BY PlainIs DEF Kinds
  <2>2. r.eol = "CRLF" => s2 = <<Plain("CR"), Plain("LF")>> /\ e = 2
    BY DEF Eol, Off
  <2>3. r.eol = "LF" => s2 = <<Plain("LF")>> /\ e = 1
    BY DEF Eol, Off
  <2> HIDE DEF s2, e
  <2>4. CASE r.eol = "CRLF"
    <3>1. s2 \in Seq(Bytes) /\ Len(s2) = 2 /\ s2[1].kind = "CR" /\ s2[2].kind = "LF"
      BY <2>1, <2>2, <2>4
    <3> QED
      BY <2>2, <2>4, <3>1
  <2>5. CASE r.eol = "LF"
    <3>1. s2 = <<Plain("LF")>>
      BY <2>3, <2>5
    <3>2. s2 \in Seq(Bytes) /\ Len(s2) = 1 /\ s2[1] = Plain("LF")
      BY <2>1, <3>1
    <3> QED
      BY <2>1, <2>3, <2>5, <3>2
  <2> QED
    BY <1>2, <2>4, <2>5
<1>5. s3 \in Seq(Bytes) /\ Len(s3) = o - e - 1 /\ o - e - 1 \in Nat
  <2>1. o - e - 1 = o - Off(r, 1) /\ o - Off(r, 1) \in Nat
    BY <1>2 DEF Off
  <2> QED
    BY <2>1, FieldBytes
<1>6. s4 \in Seq(Bytes) /\ Len(s4) = b /\ (r.bad => s4[1].kind = "bad") /\ b \in 0..1
  <2>1. Plain("bad") \in Bytes /\ Plain("bad").kind = "bad"
    BY PlainIs DEF Kinds
  <2> QED
    BY <1>2, <2>1
<1>7. o \in Nat /\ e < o
  BY <1>2 DEF Off
<1> DEFINE t2 == s1 \o s2
           t3 == t2 \o s3
           t4 == t3 \o s4
<1>9. h = t4 \o s2
  BY <1>1
<1> HIDE DEF s1, s2, s3, s4, e, o, b, h
<1>10. /\ t2 \in Seq(Bytes) /\ Len(t2) = 1 + e /\ t2[1] = s1[1]
       /\ \A i \in 1..e : t2[1 + i] = s2[i]
  <2>1. Joins(Bytes, s1, s2, t2)
    BY <1>3, <1>4, Joined
  <2> HIDE DEF t2
  <2> QED
    BY <1>3, <1>4, <2>1 DEF Joins
<1> HIDE DEF t2
<1>11. /\ t3 \in Seq(Bytes) /\ Len(t3) = o
       /\ \A i \in 1..1 + e : t3[i] = t2[i]
       /\ \A i \in 1..o - e - 1 : t3[1 + e + i] = s3[i]
  <2>1. (1 + e) + (o - e - 1) = o
    BY <1>4, <1>7
  <2> QED
    BY <1>5, <1>10, <2>1
<1> HIDE DEF t3
<1>12. /\ t4 \in Seq(Bytes) /\ Len(t4) = o + b
       /\ \A i \in 1..o : t4[i] = t3[i]
       /\ \A i \in 1..b : t4[o + i] = s4[i]
  BY <1>6, <1>11
<1> HIDE DEF t4
<1>13. /\ h \in Seq(Bytes) /\ Len(h) = (o + b) + e
       /\ \A i \in 1..o + b : h[i] = t4[i]
       /\ \A i \in 1..e : h[o + b + i] = s2[i]
  BY <1>4, <1>9, <1>12
<1>14. \A i \in 1..o : h[i] = t3[i]
  BY <1>6, <1>7, <1>12, <1>13
<1>15. \A i \in 1..1 + e : h[i] = t2[i]
  BY <1>4, <1>7, <1>11, <1>14
<1>16. h[1].kind = "start"
  BY <1>3, <1>4, <1>10, <1>15
<1>17. (r.eol = "LF" => h[2].kind = "LF")
           /\ (r.eol = "CRLF" => h[2].kind = "CR" /\ h[3].kind = "LF")
  <2>1. \A i \in 1..e : h[1 + i] = s2[i]
    BY <1>4, <1>10, <1>15
  <2>2. r.eol = "LF" => h[1 + 1] = s2[1]
    BY <1>4, <2>1
  <2>3. r.eol = "CRLF" => h[1 + 1] = s2[1] /\ h[1 + 2] = s2[2]
    BY <1>4, <2>1
  <2> QED
    BY <1>4, <2>2, <2>3
<1>18. ASSUME NEW j \in 1..K, NEW d \in 1..LineLen(r)
       PROVE  h[Off(r, j) + d] = Line(r, r.headers[j])[d]
  <2> DEFINE i == Off(r, j) - Off(r, 1) + d
  <2>1. i \in 1..o - e - 1 /\ Off(r, j) + d \in 1..o /\ 1 + e + i = Off(r, j) + d
    BY <1>2 DEF Off, LineLen, o, e
  <2>2. t3[1 + e + i] = s3[i]
    BY <1>11, <2>1
  <2>3. s3[i] = Line(r, r.headers[j])[d]
    BY FieldBytes DEF s3
  <2> QED
    BY <1>14, <2>1, <2>2, <2>3
<1>19. r.bad => h[o + 1].kind = "bad"
  <2>1. r.bad => b = 1
    BY DEF b
  <2>2. r.bad => h[o + 1] = t4[o + 1] /\ t4[o + 1] = s4[1]
    BY <1>7, <1>12, <1>13, <2>1
  <2> QED
    BY <1>6, <2>2
<1>20. ~r.bad /\ r.eol = "CRLF" => h[o + 1].kind = "CR"
  <2>1. ~r.bad => b = 0 /\ o + b + 1 = o + 1
    BY <1>7 DEF b
  <2>2. ~r.bad => h[o + 1] = s2[1]
    BY <1>4, <1>13, <2>1
  <2> QED
    BY <1>4, <2>2
<1>21. h[Len(h)].kind = "LF"
  <2>1. e \in 1..e
    BY <1>4
  <2>2. h[(o + b) + e] = s2[e]
    BY <1>13, <2>1
  <2> QED
    BY <1>4, <1>13, <2>2
<1>22. Len(h) = Off(r, K + 1) + (IF r.bad THEN 1 ELSE 0) + Off(r, 1) - 1
  <2>1. o + b + e = o + b + Off(r, 1) - 1
    BY <1>2, <1>6, <1>7 DEF e, Off
  <2> QED
    BY <1>13, <2>1 DEF o, b
<1> QED
  BY <1>13, <1>16, <1>17, <1>18, <1>19, <1>20, <1>21, <1>22 DEF HeaderIs, h, o

-----------------------------------------------------------------------------
(* Where the machine is after the first q bytes. *)

K == Len(request.headers)

HeaderLen == Len(Header(request))

Start(j) == Off(request, j)

(* The first m fields. *)
Read(m) == [j \in 1..m |->
               [name |-> Name(request.headers[j]), value |-> Value(request.headers[j])]]

(* Between the fields, which is where a call may begin. *)
Between(q, s, fs) ==
    \/ q = 0 /\ s = "start" /\ fs = Read(0)
    \/ q = 2 /\ request.eol = "CRLF" /\ s = "cr" /\ fs = Read(0)
    \/ \E j \in 1..K + 1 : q = Start(j) /\ s = "line" /\ fs = Read(j - 1)
    \/ request.eol = "CRLF" /\ s = "cr" /\ \E j \in 1..K : q = Start(j) + 7 /\ fs = Read(j)
    \/ /\ request.eol = "CRLF" /\ ~request.bad /\ q = Start(K + 1) + 1
       /\ s = "blank" /\ fs = Read(K)

(* In the j-th field, after d of its bytes, in a call that began at byte c. *)
Within(j, d, q, c, e) ==
    /\ q = Start(j) + d /\ c <= Start(j) /\ e.fields = Read(j - 1)
    /\ e.cs = IF d <= 2 THEN "name" ELSE IF d <= 4 THEN "colon" ELSE "value"
    /\ e.marks.field_start = Start(j) - c
    /\ d >= 3 => e.marks.field_len = 2
    /\ d >= 5 => e.marks.mark = Start(j) - c + 4

AfterHeader(q, c, e) ==
    \/ /\ ~request.bad /\ q >= HeaderLen
       /\ e.cs = "done" /\ e.fields = Read(K) /\ e.nread = HeaderLen - c
    \/ request.bad /\ q > Start(K + 1) /\ e.cs = "error"

(* What p bytes of a call that began at byte c have made of the machine. *)
Follows(e, c, p) ==
    /\ e.cs \notin {"done", "error"} => e.nread = p
    /\ \/ Between(c + p, e.cs, e.fields)
       \/ c + p = 1 /\ e.cs = "version" /\ e.fields = Read(0)
       \/ \E j \in 1..K, d \in 1..6 : Within(j, d, c + p, c, e)
       \/ AfterHeader(c + p, c, e)

(* The bytes that follow the first c. *)
Piece(data, c) ==
    /\ data \in Seq(Bytes) /\ c + Len(data) <= Len(Stream)
    /\ \A p \in 1..Len(data) : data[p] = Stream[c + p]

LEMMA StreamBytes ==
    ASSUME request \in Request
    PROVE  /\ Stream \in Seq(Bytes) /\ Len(Stream) = HeaderLen + request.sent
           /\ HeaderLen \in Nat /\ request.sent \in Nat
           /\ \A i \in 1..HeaderLen : Stream[i] = Header(request)[i]
           /\ \A i \in 1..request.sent : Stream[HeaderLen + i] = Body(request)[i]
<1>1. request.sent \in Nat
  BY DEF Request
<1>2. Header(request) \in Seq(Bytes)
  BY HeaderBytes DEF HeaderIs
<1>3. Body(request) \in Seq(Bytes) /\ Len(Body(request)) = request.sent
  <2>1. \A i \in 1..request.sent : Byte("body", "none", i) \in Bytes
    BY ByteIs DEF Kinds
  <2> QED
    BY <1>1, <2>1 DEF Body
<1>4. Joins(Bytes, Header(request), Body(request), Stream)
  BY <1>2, <1>3, Joined DEF Stream
<1> QED
  BY <1>1, <1>2, <1>3, <1>4 DEF Joins, HeaderLen

LEMMA Sizes ==
    ASSUME request \in Request
    PROVE  /\ K \in Nat /\ \A j \in Nat : Start(j) \in Int
           /\ \A j \in Nat \ {0} : Start(j) \in Nat /\ Start(j) >= 2
           /\ request.eol \in {"LF", "CRLF"} /\ request.bad \in BOOLEAN
           /\ request.eol = "LF" =>
                /\ Start(1) = 2 /\ \A j \in Nat : Start(j + 1) = Start(j) + 7
                /\ HeaderLen = Start(K + 1) + 1 + (IF request.bad THEN 1 ELSE 0)
           /\ request.eol = "CRLF" =>
                /\ Start(1) = 3 /\ \A j \in Nat : Start(j + 1) = Start(j) + 8
                /\ HeaderLen = Start(K + 1) + 2 + (IF request.bad THEN 1 ELSE 0)
           /\ \A i, j \in Nat : i < j => Start(i) + 7 <= Start(j)
<1>1. /\ K \in Nat /\ request.eol \in {"LF", "CRLF"} /\ request.bad \in BOOLEAN
  BY DEF Request, K
<1>2. HeaderLen = Start(K + 1) + (IF request.bad THEN 1 ELSE 0) + Start(1) - 1
  BY HeaderBytes DEF HeaderIs, HeaderLen, Start, K
<1>3. /\ \A j \in Nat : Start(j) \in Int
      /\ \A j \in Nat \ {0} : Start(j) \in Nat /\ Start(j) >= 2
      /\ \A i, j \in Nat : i < j => Start(i) + 7 <= Start(j)
  BY <1>1 DEF Start, Off
<1>4. CASE request.eol = "LF"
  <2>1. Start(1) = 2 /\ \A j \in Nat : Start(j + 1) = Start(j) + 7
    BY <1>4 DEF Start, Off
  <2>2. Start(K + 1) \in Nat
    BY <1>1, <1>3
  <2>3. HeaderLen = Start(K + 1) + 1 + (IF request.bad THEN 1 ELSE 0)
    <3>1. (IF request.bad THEN 1 ELSE 0) \in Nat
      OBVIOUS
    <3> QED
      BY <1>2, <2>1, <2>2, <3>1
  <2> QED
    BY <1>1, <1>3, <1>4, <2>1, <2>3
<1>5. CASE request.eol = "CRLF"
  <2>1. Start(1) = 3 /\ \A j \in Nat : Start(j + 1) = Start(j) + 8
    BY <1>5 DEF Start, Off
  <2>2. Start(K + 1) \in Nat
    BY <1>1, <1>3
  <2>3. HeaderLen = Start(K + 1) + 2 + (IF request.bad THEN 1 ELSE 0)
    <3>1. (IF request.bad THEN 1 ELSE 0) \in Nat
      OBVIOUS
    <3> QED
      BY <1>2, <2>1, <2>2, <3>1
  <2> QED
    BY <1>1, <1>3, <1>5, <2>1, <2>3
<1> QED
  BY <1>1, <1>4, <1>5

(* The kinds of the bytes, by where they are. *)
LEMMA KindsOfBytes ==
    ASSUME request \in Request
    PROVE  /\ Stream[1].kind = "start"
           /\ request.eol = "LF" => Stream[2].kind = "LF"
           /\ request.eol = "CRLF" => Stream[2].kind = "CR" /\ Stream[3].kind = "LF"
           /\ request.bad => Stream[Start(K + 1) + 1].kind = "bad"
           /\ ~request.bad /\ request.eol = "CRLF" => Stream[Start(K + 1) + 1].kind = "CR"
           /\ Stream[HeaderLen].kind = "LF" /\ HeaderLen \in Nat \ {0}
           /\ Start(K + 1) + 1 <= HeaderLen
<1>1. /\ HeaderLen \in Nat /\ K + 1 \in Nat \ {0} /\ Start(K + 1) + 1 <= HeaderLen
      /\ Start(K + 1) \in Nat /\ 2 <= Start(K + 1)
      /\ request.eol = "CRLF" => 3 <= HeaderLen
  <2>1. HeaderLen \in Nat /\ K + 1 \in Nat \ {0}
    <3>1. K \in Nat
      BY Sizes
    <3> QED
      BY <3>1, StreamBytes
  <2>2. Start(K + 1) \in Nat /\ 2 <= Start(K + 1)
    BY <2>1, Sizes
  <2>3. /\ request.eol = "LF" =>
               HeaderLen = Start(K + 1) + 1 + (IF request.bad THEN 1 ELSE 0)
        /\ request.eol = "CRLF" =>
               HeaderLen = Start(K + 1) + 2 + (IF request.bad THEN 1 ELSE 0)
        /\ request.eol \in {"LF", "CRLF"}
    BY Sizes
  <2> QED
    BY <2>1, <2>2, <2>3
<1>2. /\ 1 \in 1..HeaderLen /\ 2 \in 1..HeaderLen /\ HeaderLen \in 1..HeaderLen
      /\ Start(K + 1) + 1 \in 1..HeaderLen /\ (request.eol = "CRLF" => 3 \in 1..HeaderLen)
  BY <1>1
<1>3. \A i \in 1..HeaderLen : Stream[i] = Header(request)[i]
  BY StreamBytes
<1>4. HeaderIs(request, Header(request))
  BY HeaderBytes
<1> QED
  BY <1>1, <1>2, <1>3, <1>4 DEF HeaderIs, HeaderLen, Start, K

LEMMA KindsOfFields ==
    ASSUME request \in Request, NEW j \in 1..K
    PROVE  /\ request.headers[j] \in Names
           /\ Stream[Start(j) + 1] = Byte("name", request.headers[j], 1)
           /\ Stream[Start(j) + 2] = Byte("name", request.headers[j], 2)
           /\ Stream[Start(j) + 3].kind = "sep" /\ Stream[Start(j) + 4].kind = "space"
           /\ Stream[Start(j) + 5] = Byte("value", request.headers[j], 1)
           /\ Stream[Start(j) + 6] = Byte("value", request.headers[j], 2)
           /\ request.eol = "LF" => Stream[Start(j) + 7].kind = "LF"
           /\ request.eol = "CRLF" => /\ Stream[Start(j) + 7].kind = "CR"
                                      /\ Stream[Start(j) + 8].kind = "LF"
<1>1. request.headers[j] \in Names
  BY DEF Request, K
<1>2. /\ j \in Nat \ {0} /\ j < K + 1 /\ K + 1 \in Nat /\ HeaderLen \in Nat
      /\ Start(j) \in Nat /\ Start(j) + LineLen(request) <= HeaderLen
      /\ LineLen(request) = IF request.eol = "LF" THEN 7 ELSE 8
  <2>1. j \in Nat \ {0} /\ j < K + 1 /\ K + 1 \in Nat
    <3>1. K \in Nat
      BY Sizes
    <3> QED
      BY <3>1
  <2>2. Start(j) + LineLen(request) <= Start(K + 1) /\ Start(j) \in Nat
    BY <2>1 DEF Start, Off, LineLen
  <2>3. Start(K + 1) + 1 <= HeaderLen /\ HeaderLen \in Nat /\ Start(K + 1) \in Nat
    BY <2>1, Sizes, KindsOfBytes
  <2> QED
    BY <2>1, <2>2, <2>3 DEF LineLen
<1>3. ASSUME NEW d \in 1..LineLen(request)
      PROVE  Stream[Start(j) + d] = Line(request, request.headers[j])[d]
  <2>1. Start(j) + d \in 1..HeaderLen
    BY <1>2
  <2>2. Header(request)[Start(j) + d] = Line(request, request.headers[j])[d]
    BY HeaderBytes DEF HeaderIs, Start, K
  <2> QED
    BY <2>1, <2>2, StreamBytes
<1>4. \A d \in {1, 2, 3, 4, 5, 6, 7} :
          Stream[Start(j) + d] = Line(request, request.headers[j])[d]
  BY <1>2, <1>3
<1>5. request.eol = "CRLF" => Stream[Start(j) + 8] = Line(request, request.headers[j])[8]
  BY <1>2, <1>3
<1> QED
  BY <1>1, <1>4, <1>5, LineBytes

LEMMA HeaderEnds ==
    ASSUME request \in Request, ~request.bad
    PROVE  /\ Start(K + 1) \in Nat
           /\ request.eol = "LF" => HeaderLen = Start(K + 1) + 1
           /\ request.eol = "CRLF" => HeaderLen = Start(K + 1) + 2
<1>1. K \in Nat
  BY Sizes
<1>2. K + 1 \in Nat \ {0}
  BY <1>1
<1>3. Start(K + 1) \in Nat
  BY <1>2, Sizes
<1>4. /\ request.eol = "LF" => HeaderLen = Start(K + 1) + 1 + 0
      /\ request.eol = "CRLF" => HeaderLen = Start(K + 1) + 2 + 0
  BY Sizes
<1> QED
  BY <1>3, <1>4

-----------------------------------------------------------------------------
(* One byte. *)

Ended(s) == s \in {"done", "error"}

LEMMA StepIs ==
    ASSUME NEW data, NEW e, NEW p, ~Ended(e.cs)
    PROVE  /\ Step(data, e, p).cs = Goes(e.cs, data[p].kind)
           /\ Step(data, e, p).nread = p
           /\ Step(data, e, p).marks = Marked(e.marks, e.cs, data[p].kind, p)
           /\ Step(data, e, p).fields =
                  IF e.cs \in {"colon", "value"} /\ data[p].kind \in {"CR", "LF"}
                  THEN Append(e.fields, http_field(data, Step(data, e, p).marks, p))
                  ELSE e.fields
BY DEF Step, Ended

LEMMA StepEnds ==
    ASSUME NEW data, NEW e, NEW p, Ended(e.cs) PROVE Step(data, e, p) = e
BY DEF Step, Ended

LEMMA GoesOn ==
    /\ Goes("start", "start") = "version"
    /\ Goes("version", "CR") = "cr" /\ Goes("version", "LF") = "line"
    /\ Goes("cr", "LF") = "line"
    /\ Goes("line", "name") = "name" /\ Goes("name", "name") = "name"
    /\ Goes("name", "sep") = "colon" /\ Goes("colon", "space") = "colon"
    /\ Goes("colon", "value") = "value" /\ Goes("value", "value") = "value"
    /\ Goes("value", "CR") = "cr" /\ Goes("value", "LF") = "line"
    /\ Goes("line", "CR") = "blank" /\ Goes("line", "LF") = "done"
    /\ Goes("blank", "LF") = "done" /\ Goes("line", "bad") = "error"
BY DEF Goes

LEMMA TwoBytes ==
    ASSUME NEW data \in Seq(Bytes), NEW a \in Nat, NEW b \in Nat, 1 <= a, b = a + 1,
           b <= Len(data)
    PROVE  SubSeq(data, a, b) = <<data[a], data[b]>>
<1> DEFINE s == SubSeq(data, a, b)
           t == <<data[a], data[b]>>
<1>1. data[a] \in Bytes /\ data[b] \in Bytes
  OBVIOUS
<1>2. s \in Seq(Bytes) /\ Len(s) = 2 /\ s[1] = data[a] /\ s[2] = data[b]
  OBVIOUS
<1>3. t \in Seq(Bytes) /\ Len(t) = 2 /\ t[1] = data[a] /\ t[2] = data[b]
  BY <1>1
<1> HIDE DEF s, t
<1>4. \A k \in 1..Len(s) : s[k] = t[k]
  BY <1>2, <1>3
<1>5. Len(s) = Len(t)
  BY <1>2, <1>3
<1>6. s = t
  BY <1>2, <1>3, <1>4, <1>5, SeqEqual
<1> QED
  BY <1>6 DEF s, t

LEMMA ReadOneMore ==
    ASSUME request \in Request, NEW j \in 1..K
    PROVE  Append(Read(j - 1), [name |-> Name(request.headers[j]),
                                value |-> Value(request.headers[j])]) = Read(j)
<1> DEFINE f(i) == [name |-> Name(request.headers[i]), value |-> Value(request.headers[i])]
<1>1. j - 1 \in Nat /\ j \in Nat /\ (j - 1) + 1 = j
  BY Sizes
<1>2. Read(j - 1) = [i \in 1..j-1 |-> f(i)] /\ Read(j) = [i \in 1..j |-> f(i)]
  BY DEF Read
<1> HIDE DEF f
<1>3. Append([i \in 1..j-1 |-> f(i)], f(j)) = [i \in 1..j |-> f(i)]
  BY <1>1
<1> QED
  BY <1>2, <1>3 DEF f

(* The field that is stored at the end of its line, in a call that began
   before it. *)
LEMMA FieldStored ==
    ASSUME request \in Request, NEW j \in 1..K, NEW c \in Nat, NEW data, Piece(data, c),
           NEW m, c <= Start(j), Start(j) + 7 <= c + Len(data),
           m.field_start = Start(j) - c, m.field_len = 2, m.mark = Start(j) - c + 4
    PROVE  http_field(data, m, Start(j) - c + 7) =
               [name |-> Name(request.headers[j]), value |-> Value(request.headers[j])]
<1> DEFINE o == Start(j) - c
           n == request.headers[j]
<1>1. j \in Nat \ {0}
  BY Sizes
<1>2. Start(j) \in Nat
  BY <1>1, Sizes
<1>3. data \in Seq(Bytes) /\ Len(data) \in Nat
          /\ \A p \in 1..Len(data) : data[p] = Stream[c + p]
  BY DEF Piece
<1>4. o \in Nat /\ o + 7 <= Len(data) /\ c + o = Start(j)
  BY <1>2, <1>3
<1>5. \A d \in {1, 2, 5, 6} : data[o + d] = Stream[Start(j) + d]
  <2> TAKE d \in {1, 2, 5, 6}
  <2> HIDE DEF o
  <2>0. d \in 1..7
    OBVIOUS
  <2>1. o + d \in 1..Len(data) /\ c + (o + d) = Start(j) + d
    <3>1. Len(data) \in Nat /\ o \in Nat /\ o + 7 <= Len(data)
      BY <1>3, <1>4
    <3>2. o + d \in 1..Len(data)
      BY <2>0, <3>1
    <3>3. c + (o + d) = (c + o) + d
      BY <2>0, <3>1
    <3> QED
      BY <1>4, <3>2, <3>3
  <2> QED
    BY <1>3, <2>1
<1> HIDE DEF o
<1>6. SubSeq(data, o + 1, o + 2) = <<data[o + 1], data[o + 2]>>
  <2>1. o + 1 \in Nat /\ o + 2 \in Nat /\ 1 <= o + 1 /\ o + 2 = (o + 1) + 1
            /\ o + 2 <= Len(data)
    BY <1>3, <1>4
  <2> QED
    BY <1>3, <2>1, TwoBytes
<1>7. SubSeq(data, o + 5, o + 6) = <<data[o + 5], data[o + 6]>>
  <2>1. o + 5 \in Nat /\ o + 6 \in Nat /\ 1 <= o + 5 /\ o + 6 = (o + 5) + 1
            /\ o + 6 <= Len(data)
    BY <1>3, <1>4
  <2> QED
    BY <1>3, <2>1, TwoBytes
<1>8. /\ data[o + 1] = Byte("name", n, 1) /\ data[o + 2] = Byte("name", n, 2)
      /\ data[o + 5] = Byte("value", n, 1) /\ data[o + 6] = Byte("value", n, 2)
  BY <1>5, KindsOfFields
<1>9. /\ m.field_start + 1 = o + 1 /\ m.field_start + m.field_len = o + 2
      /\ m.mark + 1 = o + 5 /\ (o + 7) - 1 = o + 6
  BY <1>4 DEF o
<1>10. http_field(data, m, o + 7) = [name |-> SubSeq(data, o + 1, o + 2),
                                     value |-> SubSeq(data, o + 5, o + 6)]
  BY <1>9 DEF http_field
<1>11. http_field(data, m, o + 7) = [name |-> Name(n), value |-> Value(n)]
  BY <1>6, <1>7, <1>8, <1>10 DEF Name, Value
<1> QED
  BY <1>11 DEF o

(* One byte more: the machine follows the stream, whatever the call. *)
LEMMA FromBetween ==
    ASSUME request \in Request, NEW c \in Nat, NEW data, Piece(data, c), NEW e,
           NEW p \in 1..Len(data), Between(c + (p - 1), e.cs, e.fields)
    PROVE  Follows(Step(data, e, p), c, p)
<1> DEFINE q == c + (p - 1)
           s == Step(data, e, p)
<1>1. q \in Nat /\ c + p = q + 1 /\ c <= q /\ data[p] = Stream[q + 1]
  <2>1. q \in Nat /\ c + p = q + 1 /\ c <= q
    OBVIOUS
  <2> QED
    BY <2>1 DEF Piece
<1>2. ~Ended(e.cs)
  BY DEF Between, Ended
<1>3. e.cs \notin {"colon", "value"}
  BY DEF Between
<1>4. /\ s.cs = Goes(e.cs, Stream[q + 1].kind) /\ s.nread = p /\ s.fields = e.fields
      /\ s.marks = Marked(e.marks, e.cs, Stream[q + 1].kind, p)
  BY <1>1, <1>2, <1>3, StepIs
<1> HIDE DEF s, q
<1>5. SUFFICES \/ Between(q + 1, s.cs, s.fields)
               \/ q + 1 = 1 /\ s.cs = "version" /\ s.fields = Read(0)
               \/ \E j \in 1..K, d \in 1..6 : Within(j, d, q + 1, c, s)
               \/ AfterHeader(q + 1, c, s)
  BY <1>1, <1>4 DEF Follows, s
<1>6. CASE q = 0 /\ e.cs = "start" /\ e.fields = Read(0)
  <2>1. Stream[q + 1].kind = "start"
    BY <1>6, KindsOfBytes
  <2> QED
    BY <1>4, <1>6, <2>1, GoesOn
<1>7. CASE q = 2 /\ request.eol = "CRLF" /\ e.cs = "cr" /\ e.fields = Read(0)
  <2>1. Stream[q + 1].kind = "LF"
    BY <1>7, KindsOfBytes
  <2>2. s.cs = "line" /\ s.fields = Read(1 - 1)
    BY <1>4, <1>7, <2>1, GoesOn
  <2>3. q + 1 = Start(1) /\ 1 \in 1..K + 1
    BY <1>7, Sizes
  <2> QED
    BY <2>2, <2>3 DEF Between
<1>8. CASE \E j \in 1..K + 1 : q = Start(j) /\ e.cs = "line" /\ e.fields = Read(j - 1)
  <2>1. PICK j \in 1..K + 1 : q = Start(j) /\ e.cs = "line" /\ e.fields = Read(j - 1)
    BY <1>8
  <2>2. CASE j \in 1..K
    <3>1. Stream[q + 1].kind = "name"
      <4>1. Stream[Start(j) + 1] = Byte("name", request.headers[j], 1)
        BY <2>2, KindsOfFields
      <4> QED
        BY <2>1, <4>1 DEF Byte
    <3>2. s.cs = "name" /\ s.fields = Read(j - 1)
      BY <1>4, <2>1, <3>1, GoesOn
    <3>3. s.marks.field_start = Start(j) - c
      <4>1. s.marks.field_start = p - 1
        BY <1>4, <2>1 DEF Marked
      <4>2. p - 1 = q - c
        BY DEF q
      <4> QED
        BY <2>1, <4>1, <4>2
    <3>4. Within(j, 1, q + 1, c, s)
      BY <1>1, <2>1, <3>2, <3>3 DEF Within
    <3> QED
      BY <2>2, <3>4
  <2>3. CASE j = K + 1
    <3>1. CASE request.bad
      <4>1. Stream[q + 1].kind = "bad"
        BY <2>1, <2>3, <3>1, KindsOfBytes
      <4>2. s.cs = "error"
        BY <1>4, <2>1, <4>1, GoesOn
      <4> QED
        BY <1>1, <2>1, <2>3, <3>1, <4>2 DEF AfterHeader
    <3>2. CASE ~request.bad /\ request.eol = "CRLF"
      <4>1. Stream[q + 1].kind = "CR"
        BY <2>1, <2>3, <3>2, KindsOfBytes
      <4>2. s.cs = "blank" /\ s.fields = Read(K)
        <5>1. (K + 1) - 1 = K
          BY Sizes
        <5> QED
          BY <1>4, <2>1, <2>3, <4>1, <5>1, GoesOn
      <4> QED
        BY <2>1, <2>3, <3>2, <4>2 DEF Between
    <3>3. CASE ~request.bad /\ request.eol = "LF"
      <4>1. q + 1 = HeaderLen
        BY <2>1, <2>3, <3>3, HeaderEnds
      <4>2. Stream[q + 1].kind = "LF"
        BY <4>1, KindsOfBytes
      <4>3. s.cs = "done" /\ s.fields = Read(K)
        <5>1. (K + 1) - 1 = K
          BY Sizes
        <5> QED
          BY <1>4, <2>1, <2>3, <4>2, <5>1, GoesOn
      <4>4. s.nread = HeaderLen - c
        BY <1>1, <1>4, <4>1
      <4>5. q + 1 >= HeaderLen
        BY <1>1, <4>1
      <4> QED
        BY <3>3, <4>3, <4>4, <4>5 DEF AfterHeader
    <3> QED
      BY <3>1, <3>2, <3>3, Sizes
  <2> QED
    <3>1. K \in Nat
      BY Sizes
    <3>2. j \in 1..K \/ j = K + 1
      BY <3>1
    <3> QED
      BY <2>2, <2>3, <3>2
<1>9. CASE request.eol = "CRLF" /\ e.cs = "cr"
           /\ \E j \in 1..K : q = Start(j) + 7 /\ e.fields = Read(j)
  <2>1. PICK j \in 1..K : q = Start(j) + 7 /\ e.fields = Read(j)
    BY <1>9
  <2>2. /\ j \in Nat /\ j + 1 \in 1..K + 1 /\ (j + 1) - 1 = j /\ Start(j) \in Int
        /\ Start(j + 1) = Start(j) + 8
    <3>1. j \in Nat /\ j + 1 \in 1..K + 1 /\ (j + 1) - 1 = j
      BY Sizes
    <3> QED
      BY <1>9, <3>1, Sizes
  <2>3. q + 1 = Start(j) + 8
    BY <2>1, <2>2
  <2>4. Stream[q + 1].kind = "LF"
    BY <1>9, <2>3, KindsOfFields
  <2>5. s.cs = "line" /\ s.fields = Read(j)
    BY <1>4, <1>9, <2>1, <2>4, GoesOn
  <2> QED
    BY <2>2, <2>3, <2>5 DEF Between
<1>10. CASE /\ request.eol = "CRLF" /\ ~request.bad /\ q = Start(K + 1) + 1
            /\ e.cs = "blank" /\ e.fields = Read(K)
  <2>1. q + 1 = HeaderLen
    BY <1>10, HeaderEnds
  <2>2. Stream[q + 1].kind = "LF"
    BY <2>1, KindsOfBytes
  <2>3. s.cs = "done" /\ s.fields = Read(K)
    BY <1>4, <1>10, <2>2, GoesOn
  <2>4. s.nread = HeaderLen - c /\ q + 1 >= HeaderLen
    BY <1>1, <1>4, <2>1
  <2> QED
    BY <1>10, <2>3, <2>4 DEF AfterHeader
<1> QED
  BY <1>6, <1>7, <1>8, <1>9, <1>10 DEF Between, q

LEMMA FromWithin ==
    ASSUME request \in Request, NEW c \in Nat, NEW data, Piece(data, c), NEW e,
           NEW p \in 1..Len(data), NEW j \in 1..K, NEW d \in 1..6,
           Within(j, d, c + (p - 1), c, e)
    PROVE  Follows(Step(data, e, p), c, p)
<1> DEFINE q == c + (p - 1)
           s == Step(data, e, p)
           n == request.headers[j]
<1>1. /\ q \in Nat /\ c + p = q + 1 /\ c <= q /\ data[p] = Stream[q + 1]
      /\ p - 1 = q - c
  <2>1. q \in Nat /\ c + p = q + 1 /\ c <= q /\ p - 1 = q - c
    OBVIOUS
  <2> QED
    BY <2>1 DEF Piece
<1>2. /\ j \in Nat \ {0} /\ Start(j) \in Nat /\ q = Start(j) + d /\ c <= Start(j)
      /\ e.fields = Read(j - 1) /\ e.marks.field_start = Start(j) - c
  <2>1. j \in Nat \ {0}
    BY Sizes
  <2> QED
    BY <2>1, Sizes DEF Within
<1>3. /\ e.cs = IF d <= 2 THEN "name" ELSE IF d <= 4 THEN "colon" ELSE "value"
      /\ (d >= 3 => e.marks.field_len = 2)
      /\ (d >= 5 => e.marks.mark = Start(j) - c + 4)
  BY DEF Within
<1>4. ~Ended(e.cs) /\ e.cs # "line"
  BY <1>3 DEF Ended
<1>5. /\ s.cs = Goes(e.cs, Stream[q + 1].kind) /\ s.nread = p
      /\ s.marks = Marked(e.marks, e.cs, Stream[q + 1].kind, p)
      /\ s.fields = IF e.cs \in {"colon", "value"} /\ Stream[q + 1].kind \in {"CR", "LF"}
                    THEN Append(e.fields, http_field(data, s.marks, p)) ELSE e.fields
  BY <1>1, <1>4, StepIs
<1> HIDE DEF s, q
<1>6. SUFFICES \/ Between(q + 1, s.cs, s.fields)
               \/ \E i \in 1..K, b \in 1..6 : Within(i, b, q + 1, c, s)
  BY <1>1, <1>5 DEF Follows, s
<1>7. s.marks.field_start = Start(j) - c
  BY <1>2, <1>4, <1>5 DEF Marked
<1>8. CASE d < 6
  <2>1. d + 1 \in 1..6 /\ q + 1 = Start(j) + (d + 1)
    BY <1>2, <1>8
  <2>2. /\ d = 1 => Stream[q + 1].kind = "name"
        /\ d = 2 => Stream[q + 1].kind = "sep"
        /\ d = 3 => Stream[q + 1].kind = "space"
        /\ d \in {4, 5} => Stream[q + 1].kind = "value"
    <3>1. d = 1 => q + 1 = Start(j) + 2
      BY <2>1
    <3>2. d = 2 => q + 1 = Start(j) + 3
      BY <2>1
    <3>3. d = 3 => q + 1 = Start(j) + 4
      BY <2>1
    <3>4. d = 4 => q + 1 = Start(j) + 5
      BY <2>1
    <3>5. d = 5 => q + 1 = Start(j) + 6
      BY <2>1
    <3> QED
      <4>1. /\ Stream[Start(j) + 2] = Byte("name", n, 2)
            /\ Stream[Start(j) + 3].kind = "sep" /\ Stream[Start(j) + 4].kind = "space"
            /\ Stream[Start(j) + 5] = Byte("value", n, 1)
            /\ Stream[Start(j) + 6] = Byte("value", n, 2)
        BY KindsOfFields
      <4> QED
        BY <3>1, <3>2, <3>3, <3>4, <3>5, <4>1 DEF Byte
  <2>3. d \in {1, 2, 3, 4, 5}
    BY <1>8
  <2>4. s.fields = Read(j - 1)
    BY <1>2, <1>5, <2>2, <2>3
  <2>5. s.cs = IF d + 1 <= 2 THEN "name" ELSE IF d + 1 <= 4 THEN "colon" ELSE "value"
    BY <1>3, <1>5, <2>2, <2>3, GoesOn
  <2>6. d + 1 >= 3 => s.marks.field_len = 2
    <3>1. CASE d = 2
      <4>1. s.marks.field_len = p - 1 - e.marks.field_start
        BY <1>3, <1>5, <2>2, <3>1 DEF Marked
      <4>2. p - 1 = (Start(j) - c) + 2
        BY <1>1, <1>2, <3>1
      <4> QED
        BY <1>2, <4>1, <4>2
    <3>2. CASE d >= 3
      BY <1>3, <1>5, <3>2 DEF Marked
    <3> QED
      BY <3>1, <3>2
  <2>7. d + 1 >= 5 => s.marks.mark = Start(j) - c + 4
    <3>1. CASE d = 4
      <4>1. s.marks.mark = p - 1
        BY <1>3, <1>5, <3>1 DEF Marked
      <4> QED
        BY <1>1, <1>2, <3>1, <4>1
    <3>2. CASE d = 5
      BY <1>3, <1>5, <3>2 DEF Marked
    <3> QED
      BY <2>3, <3>1, <3>2
  <2>8. Within(j, d + 1, q + 1, c, s)
    BY <1>2, <1>7, <2>1, <2>4, <2>5, <2>6, <2>7 DEF Within
  <2> QED
    BY <2>1, <2>8
<1>9. CASE d = 6
  <2>1. q + 1 = Start(j) + 7 /\ e.cs = "value"
    BY <1>2, <1>3, <1>9
  <2>2. Stream[q + 1].kind \in {"CR", "LF"} /\ request.eol \in {"LF", "CRLF"}
    BY <2>1, KindsOfFields, Sizes
  <2>3. s.marks.field_len = 2 /\ s.marks.mark = Start(j) - c + 4
    BY <1>3, <1>5, <1>9, <2>1 DEF Marked
  <2>4. p = Start(j) - c + 7 /\ Start(j) + 7 <= c + Len(data)
    <3>1. Len(data) \in Nat
      BY DEF Piece
    <3>2. p \in Int /\ Start(j) \in Int
      BY <1>2, <3>1
    <3>3. p = Start(j) - c + 7
      BY <1>1, <2>1, <3>2
    <3> QED
      BY <1>1, <2>1, <3>1, <3>2, <3>3
  <2>5. http_field(data, s.marks, p) = [name |-> Name(n), value |-> Value(n)]
    BY <1>2, <1>7, <2>3, <2>4, FieldStored
  <2>6. s.fields = Read(j)
    BY <1>2, <1>5, <2>1, <2>2, <2>5, ReadOneMore
  <2>7. CASE request.eol = "CRLF"
    <3>1. s.cs = "cr"
      BY <1>5, <2>1, <2>7, KindsOfFields, GoesOn
    <3> QED
      BY <2>1, <2>6, <2>7, <3>1 DEF Between
  <2>8. CASE request.eol = "LF"
    <3>1. s.cs = "line"
      BY <1>5, <2>1, <2>8, KindsOfFields, GoesOn
    <3>2. j \in Nat /\ j + 1 \in 1..K + 1 /\ (j + 1) - 1 = j
      BY Sizes
    <3>3. q + 1 = Start(j + 1)
      BY <2>1, <2>8, <3>2, Sizes
    <3> QED
      BY <2>6, <3>1, <3>2, <3>3 DEF Between
  <2> QED
    BY <2>2, <2>7, <2>8
<1> QED
  BY <1>8, <1>9

LEMMA StepFollows ==
    ASSUME request \in Request, NEW c \in Nat, NEW data, Piece(data, c), NEW e,
           NEW p \in 1..Len(data), Follows(e, c, p - 1)
    PROVE  Follows(Step(data, e, p), c, p)
<1>1. CASE Between(c + (p - 1), e.cs, e.fields)
  BY <1>1, FromBetween
<1>2. CASE c + (p - 1) = 1 /\ e.cs = "version" /\ e.fields = Read(0)
  <2> DEFINE s == Step(data, e, p)
  <2>1. c + p = 2 /\ data[p] = Stream[2]
    BY <1>2 DEF Piece
  <2>2. /\ s.cs = Goes("version", Stream[2].kind) /\ s.nread = p /\ s.fields = Read(0)
    <3>1. ~Ended(e.cs)
      BY <1>2 DEF Ended
    <3> QED
      BY <1>2, <2>1, <3>1, StepIs
  <2> HIDE DEF s
  <2>3. CASE request.eol = "CRLF"
    <3>1. s.cs = "cr"
      BY <2>2, <2>3, KindsOfBytes, GoesOn
    <3> QED
      BY <2>1, <2>2, <2>3, <3>1 DEF Follows, Between, s
  <2>4. CASE request.eol = "LF"
    <3>1. s.cs = "line" /\ s.fields = Read(1 - 1)
      BY <2>2, <2>4, KindsOfBytes, GoesOn
    <3>2. Start(1) = 2 /\ 1 \in 1..K + 1
      BY <2>4, Sizes
    <3>3. Between(c + p, s.cs, s.fields)
      BY <2>1, <3>1, <3>2 DEF Between
    <3> QED
      BY <2>2, <3>3 DEF Follows, s
  <2> QED
    BY <2>3, <2>4, Sizes
<1>3. CASE \E j \in 1..K, d \in 1..6 : Within(j, d, c + (p - 1), c, e)
  BY <1>3, FromWithin
<1>4. CASE AfterHeader(c + (p - 1), c, e)
  <2>1. Ended(e.cs)
    BY <1>4 DEF AfterHeader, Ended
  <2>2. Step(data, e, p) = e
    BY <2>1, StepEnds
  <2>3. HeaderLen \in Nat /\ Start(K + 1) \in Int /\ c + (p - 1) \in Nat
            /\ c + p = c + (p - 1) + 1
    <3>1. K \in Nat
      BY Sizes
    <3>2. K + 1 \in Nat
      BY <3>1
    <3> QED
      BY <3>2, Sizes, StreamBytes
  <2>4. AfterHeader(c + p, c, e)
    BY <1>4, <2>3 DEF AfterHeader
  <2> QED
    BY <2>1, <2>2, <2>4 DEF Follows, Ended
<1> QED
  BY <1>1, <1>2, <1>3, <1>4 DEF Follows

(* execute, on a piece that follows the first c bytes. *)
LEMMA ExecuteFollows ==
    ASSUME request \in Request, NEW c \in Nat, NEW data, Piece(data, c),
           Between(c, cs, fields)
    PROVE  Follows(execute(data), c, Len(data))
<1> DEFINE e0 == [cs |-> cs, fields |-> fields, nread |-> 0,
                  marks |-> [mark |-> 0, field_start |-> 0, field_len |-> 0]]
           Def(g, n) == [p \in 0..n |-> IF p = 0 THEN e0 ELSE Step(data, g[p - 1], p)]
           Made == {n \in Nat : \E g : g = Def(g, n)}
           run == CHOOSE g : g = Def(g, Len(data))
<1>0. Len(data) \in Nat
  BY DEF Piece
<1>1. 0 \in Made
  <2>1. [p \in 0..0 |-> e0] = Def([p \in 0..0 |-> e0], 0)
    OBVIOUS
  <2> QED
    BY <2>1
<1>2. ASSUME NEW n \in 0..Len(data)-1, n \in Made PROVE n + 1 \in Made
  <2>1. PICK g : g = Def(g, n)
    BY <1>2
  <2> DEFINE h == [p \in 0..n+1 |-> IF p <= n THEN g[p] ELSE Step(data, g[n], p)]
  <2>2. ASSUME NEW p \in 0..n+1
        PROVE  h[p] = IF p = 0 THEN e0 ELSE Step(data, h[p - 1], p)
    <3>1. CASE p \in 0..n
      <4>1. p <= n /\ (p # 0 => p - 1 \in 0..n /\ p - 1 <= n /\ p - 1 \in 0..n+1)
        BY <3>1
      <4>2. g[p] = IF p = 0 THEN e0 ELSE Step(data, g[p - 1], p)
        BY <2>1, <3>1
      <4> HIDE DEF e0
      <4> QED
        BY <4>1, <4>2
    <3>2. CASE p = n + 1
      <4>1. p # 0 /\ ~(p <= n) /\ p - 1 = n /\ n \in 0..n+1 /\ n <= n
        BY <3>2
      <4> HIDE DEF e0
      <4> QED
        BY <4>1
    <3> QED
      BY <3>1, <3>2
  <2>3. h = Def(h, n + 1)
    <3> HIDE DEF e0
    <3> QED
      BY <2>2
  <2>4. n + 1 \in Nat
    OBVIOUS
  <2> HIDE DEF h, Def
  <2> QED
    BY <2>3, <2>4
<1>3. run = Def(run, Len(data))
  <2>1. \A n \in 0..Len(data) : n \in Made
    <3> HIDE DEF Made
    <3> QED
      BY <1>0, <1>1, <1>2, Induction
  <2>2. Len(data) \in Made
    <3> HIDE DEF Made
    <3> QED
      BY <1>0, <2>1
  <2> QED
    BY <2>2
<1>4. execute(data) = run[Len(data)]
  BY DEF execute
<1>5. run[0] = e0 /\ \A p \in 1..Len(data) : run[p] = Step(data, run[p - 1], p)
  <2>1. /\ Def(run, Len(data))[0] = e0
        /\ \A p \in 1..Len(data) : Def(run, Len(data))[p] = Step(data, run[p - 1], p)
    <3> HIDE DEF e0, run
    <3> QED
      BY <1>0
  <2> HIDE DEF Def, run, e0
  <2> QED
    BY <1>3, <2>1
<1> HIDE DEF run
<1> DEFINE Good == {p \in 0..Len(data) : Follows(run[p], c, p)}
<1>6. 0 \in Good
  <2>1. e0.nread = 0 /\ e0.cs = cs /\ e0.fields = fields /\ c + 0 = c
    OBVIOUS
  <2> HIDE DEF e0
  <2>2. Follows(run[0], c, 0)
    BY <1>5, <2>1 DEF Follows
  <2> QED
    BY <1>0, <2>2
<1>7. ASSUME NEW n \in 0..Len(data)-1, n \in Good PROVE n + 1 \in Good
  <2>1. n + 1 \in 1..Len(data) /\ (n + 1) - 1 = n /\ n + 1 \in 0..Len(data)
    BY <1>0
  <2>2. Follows(run[n], c, n)
    BY <1>7
  <2>3. run[n + 1] = Step(data, run[n], n + 1)
    BY <1>5, <2>1
  <2>4. Follows(Step(data, run[n], n + 1), c, n + 1)
    <3>1. Follows(run[n], c, (n + 1) - 1)
      BY <2>1, <2>2
    <3> QED
      BY <2>1, <3>1, StepFollows
  <2> QED
    BY <2>1, <2>3, <2>4
<1>8. \A n \in 0..Len(data) : n \in Good
  <2> HIDE DEF Good
  <2> QED
    BY <1>0, <1>6, <1>7, Induction
<1> QED
  BY <1>0, <1>4, <1>8

-----------------------------------------------------------------------------
(* The header fields read back. *)

LEMMA NamesDiffer ==
    ASSUME NEW a, NEW b, Name(a) = Name(b) PROVE a = b
<1>1. Name(a)[1] = Byte("name", a, 1) /\ Name(b)[1] = Byte("name", b, 1)
  BY DEF Name
<1> QED
  BY <1>1 DEF Byte

LEMMA HeaderOf ==
    ASSUME request \in Request, NEW n
    PROVE  header(Read(K), n) = {j \in 1..K : request.headers[j] = n}
<1>1. K \in Nat
  BY Sizes
<1>2. /\ Len(Read(K)) = K
      /\ \A j \in 1..K : /\ Read(K)[j].name = Name(request.headers[j])
                         /\ Read(K)[j].value = Value(request.headers[j])
  BY <1>1 DEF Read
<1>3. Named(Read(K), n) = {j \in 1..K : request.headers[j] = n}
  BY <1>2, NamesDiffer DEF Named
<1>4. \A j \in 1..K : Read(K)[j].value # <<>>
  <2>1. \A m : Len(Value(m)) = 2 /\ Len(<<>>) = 0
    BY DEF Value
  <2> QED
    BY <1>2, <2>1
<1>5. \A j \in 1..K : j <= j
  OBVIOUS
<1> QED
  BY <1>3, <1>4, <1>5 DEF header

LEMMA AsksIf == ASSUME request \in Request PROVE requested_continue(Read(K)) <=> Asks
<1> DEFINE E == {j \in 1..K : request.headers[j] = "expect"}
<1>1. K \in Nat /\ Len(Read(K)) = K
  <2>1. K \in Nat
    BY Sizes
  <2> QED
    BY <2>1 DEF Read
<1>2. header(Read(K), "expect") = E
  BY HeaderOf
<1>3. \A j \in E : j \in 1..K /\ Read(K)[j].value = Value("expect")
  BY DEF Read
<1>4. Asks <=> Cardinality(E) = 1
  BY DEF Asks, K
<1>5. IsFiniteSet(E)
  <2>1. IsFiniteSet(1..K)
    BY <1>1, FS_Interval
  <2>2. E \subseteq 1..K
    OBVIOUS
  <2> QED
    BY <2>1, <2>2, FS_Subset
<1> HIDE DEF E
<1>6. Cardinality(E) = 1 <=> \E j : E = {j}
  BY <1>5, FS_Singleton
<1>7. \A j : E = {j} => j \in 1..K /\ Read(K)[j].value = Value("expect")
  BY <1>3
<1> QED
  BY <1>1, <1>2, <1>4, <1>6, <1>7 DEF requested_continue

LEMMA AnnouncedIs ==
    ASSUME request \in Request
    PROVE  expecting_body(Read(K)) = BodyAnnounced /\ BodyAnnounced \in Nat
<1> DEFINE T == {j \in 1..K : request.headers[j] = "type"}
           L == {j \in 1..K : request.headers[j] = "length"}
           n == request.length
<1>1. /\ n \in Int /\ MaxInt \in Nat /\ SizeT \in Nat /\ SizeT > 2 * MaxInt + 1
  BY WidthAssumption DEF Request
<1>2. header(Read(K), "type") = T /\ header(Read(K), "length") = L
  BY HeaderOf
<1>3. (T # {} <=> Has("type")) /\ (L # {} <=> Has("length"))
  BY DEF Has, K
<1>4. FirstIsLength(Read(K)) <=> L # {}
  <2>1. \A j \in L : Read(K)[j].value = Value("length")
    BY DEF Read
  <2>2. L \in SUBSET Nat
    OBVIOUS
  <2> HIDE DEF L
  <2>3. L # {} => \E j \in L : \A i \in L : j <= i
    BY <2>2, Least
  <2> QED
    BY <1>2, <2>1, <2>3 DEF FirstIsLength
<1>5. n >= 0 /\ n <= MaxInt => n % SizeT = n
  BY <1>1
<1>6. n < 0 /\ n >= -(MaxInt + 1) => n % SizeT = SizeT + n /\ SizeT + n \in Nat
  BY <1>1
<1>7. n \in -MaxInt - 1..MaxInt <=> ~(n > MaxInt \/ n < -(MaxInt + 1))
  BY <1>1
<1> DEFINE all == /\ request.method = "POST" /\ Has("type") /\ Has("length")
                  /\ ~(n > MaxInt \/ n < -(MaxInt + 1))
<1>8. expecting_body(Read(K)) = IF all THEN n % SizeT ELSE 0
  BY <1>2, <1>3, <1>4, <1>7 DEF expecting_body
<1>9. BodyAnnounced = IF all THEN IF n < 0 THEN SizeT + n ELSE n ELSE 0
  BY DEF BodyAnnounced
<1>10. all => n >= -(MaxInt + 1) /\ n <= MaxInt
  BY <1>1
<1> HIDE DEF all, n
<1> QED
  BY <1>1, <1>5, <1>6, <1>8, <1>9, <1>10

-----------------------------------------------------------------------------
(* The invariant.  What holds however the stream is cut comes first. *)

Counted ==
    /\ request \in Requests /\ request \in Request
    /\ delivered \in 0..Len(Stream) /\ bytes_parsed = delivered
    /\ status \in Statuses
    /\ status = "READ_HEADER" => body_stream = <<>>
    /\ SizeKept

Consumed == delivered - Len(truncated)

(* While the header is read: what the machine has consumed ends between two
   fields, and what is held back has no line break. *)
InHeader ==
    /\ Len(truncated) \in 0..delivered
    /\ truncated = SubSeq(Stream, Consumed + 1, delivered)
    /\ ~Breaks(truncated)
    /\ Between(Consumed, cs, fields)
    /\ body_expected = 0 /\ body_stream = <<>> /\ body = <<>>

Complete == ~request.bad /\ cs = "done" /\ fields = Read(K)

(* A client that was asked to wait has sent nothing of the body. *)
Asking ==
    /\ Complete /\ delivered = HeaderLen
    /\ body_expected = BodyAnnounced /\ BodyAnnounced > 0
    /\ body_stream = <<>> /\ body = <<>>

InBody ==
    /\ Complete /\ HeaderLen <= delivered
    /\ body_expected = BodyAnnounced - (delivered - HeaderLen) /\ body_expected > 0
    /\ body_stream = SubSeq(Body(request), 1, delivered - HeaderLen) /\ body = <<>>

AllRead ==
    /\ Complete /\ BodyAnnounced <= request.sent
    /\ body_expected = 0
    /\ body_stream = <<>> /\ body = SubSeq(Body(request), 1, BodyAnnounced)

Refused ==
    /\ request.bad \/ (Asks /\ BodyAnnounced = 0)
    /\ body_expected = 0 /\ body_stream = <<>> /\ body = <<>>

States == {"start", "version", "line", "name", "colon", "value", "cr", "blank",
           "done", "error"}

Fits == /\ cs \in States
        /\ body_expected \in 0..BodyAnnounced
        /\ Len(body) + Len(body_stream) <= BodyAnnounced

IInv ==
    /\ Counted
    /\ Fits
    /\ status = "READ_HEADER" => InHeader
    /\ status = "EXPECT_CONTINUE" => Asking
    /\ status = "READ_BODY" => InBody
    /\ status = "FINISHED" => AllRead
    /\ status = "ERROR" => Refused

LEMMA SameRequest ==
    ASSUME request' = request
    PROVE  /\ Stream' = Stream /\ HeaderLen' = HeaderLen /\ Body(request)' = Body(request)
           /\ BodyAnnounced' = BodyAnnounced /\ Asks' = Asks /\ Read(K)' = Read(K)
<1>1. Stream' = Stream /\ HeaderLen' = HeaderLen /\ Body(request)' = Body(request)
  BY DEF Stream, HeaderLen
<1>2. BodyAnnounced' = BodyAnnounced
  BY DEF BodyAnnounced, Has
<1>3. Asks' = Asks
  BY DEF Asks
<1>4. Read(K)' = Read(K)
  BY DEF Read, K
<1> QED
  BY <1>1, <1>2, <1>3, <1>4

LEMMA Reaches ==
    ASSUME Counted
    PROVE  Available \in Nat /\ Available <= Len(Stream) /\ Len(Stream) \in Nat
               /\ delivered \in Nat
<1>1. HeaderLen \in Nat /\ Len(Stream) \in Nat /\ HeaderLen <= Len(Stream)
  BY StreamBytes DEF Counted
<1> QED
  BY <1>1 DEF Available, HeaderLen, Counted

(* What a step of parse does, whatever the chunk. *)
LEMMA CountedStep == Counted /\ [Next]_pvars => Counted'
<1> SUFFICES ASSUME Counted, [Next]_pvars PROVE Counted'
  OBVIOUS
<1>1. CASE UNCHANGED pvars
  BY <1>1, SameRequest DEF Counted, SizeKept, pvars
<1>2. CASE Next
  <2>1. PICK n \in 1..Available - delivered : ~Over /\ parse(n)
    BY <1>2 DEF Next
  <2>2. n \in Nat \ {0} /\ delivered + n \in 0..Len(Stream) /\ delivered \in Nat
    BY <2>1, Reaches
  <2>3. Deliver(n)
    BY <2>1 DEF parse, RejectSize, Hold, Execute, ReadBody
  <2>4. /\ request' = request /\ delivered' = delivered + n /\ bytes_parsed' = delivered'
        /\ Stream' = Stream
    BY <2>3, SameRequest DEF Deliver, Counted
  <2>5. request' \in Requests /\ request' \in Request /\ delivered' \in 0..Len(Stream)
    BY <2>2, <2>4 DEF Counted
  <2>6. status # "REJECTED_REQUEST_SIZE" /\ status \in Statuses
    BY <2>1 DEF Over, Counted
  <2>7. /\ status' \in Statuses
        /\ status' = "READ_HEADER" => body_stream' = <<>>
        /\ status' = "REJECTED_REQUEST_SIZE" <=> TooLong
    <3>1. CASE RejectSize(n)
      BY <3>1 DEF RejectSize, Statuses
    <3>2. CASE Hold(n)
      BY <2>6, <3>2 DEF Hold, Statuses, Counted
    <3>3. CASE Execute(n)
      <4>1. ~TooLong /\ status = "READ_HEADER" /\ body_stream = <<>>
        BY <3>3 DEF Execute, Counted
      <4>2. PICK e : \/ HeaderGoesOn(e) \/ HeaderFails(e) \/ HeaderExpects(e)
                     \/ HeaderThenBody(e, Whole(n)) \/ HeaderIsAll(e)
        BY <3>3 DEF Execute
      <4>3. CASE HeaderGoesOn(e)
        BY <4>1, <4>3 DEF HeaderGoesOn, Statuses
      <4>4. CASE HeaderFails(e)
        BY <4>1, <4>4 DEF HeaderFails, Statuses
      <4>5. CASE HeaderExpects(e)
        BY <4>1, <4>5 DEF HeaderExpects, Statuses
      <4>6. CASE HeaderThenBody(e, Whole(n))
        <5>1. status' \in {"FINISHED", "READ_BODY"}
          BY <4>6 DEF HeaderThenBody, parse_body
        <5> QED
          BY <4>1, <5>1 DEF Statuses
      <4>7. CASE HeaderIsAll(e)
        BY <4>1, <4>7 DEF HeaderIsAll, Statuses
      <4> QED
        BY <4>2, <4>3, <4>4, <4>5, <4>6, <4>7
    <3>4. CASE ReadBody(n)
      <4>1. ~TooLong /\ status' \in {"FINISHED", "READ_BODY"}
        BY <3>4 DEF ReadBody, parse_body
      <4> QED
        BY <4>1 DEF Statuses
    <3> QED
      BY <2>1, <3>1, <3>2, <3>3, <3>4 DEF parse
  <2>8. SizeKept'
    BY <2>4, <2>7 DEF SizeKept, TooLong
  <2> QED
    BY <2>4, <2>5, <2>7, <2>8 DEF Counted
<1> QED
  BY <1>1, <1>2

LEMMA CountedInit == Init => Counted
<1> SUFFICES ASSUME Init PROVE Counted
  OBVIOUS
<1>1. request \in Requests /\ request \in Request
  BY RequestsAssumption DEF Init
<1>2. Len(Stream) \in Nat
  BY <1>1, StreamBytes
<1>3. SizeKept
  BY LimitAssumption DEF Init, SizeKept
<1> QED
  BY <1>1, <1>2, <1>3 DEF Init, Counted, Statuses

(* The verdict of parse on the size of a request is about the bytes of all
   its chunks, wherever they are cut. *)
THEOREM SizeKeptAlways == Spec => []SizeKept
<1>1. Counted => SizeKept
  BY DEF Counted
<1> QED
  BY <1>1, CountedInit, CountedStep, PTL DEF Spec

(* parse asks for a 100 Continue once, and before the body, wherever the
   chunks are cut. *)
THEOREM AskedOnceAlways == Spec => AskedOnce
<1> DEFINE A == /\ status = "EXPECT_CONTINUE" => status' # "EXPECT_CONTINUE"
                /\ status' = "EXPECT_CONTINUE" => body_stream' = <<>>
<1>1. Counted /\ [Next]_pvars => [A]_pvars
  <2> SUFFICES ASSUME Counted, Next PROVE A
    OBVIOUS
  <2>1. PICK n : parse(n)
    BY DEF Next
  <2>2. CASE RejectSize(n)
    BY <2>2 DEF RejectSize
  <2>3. CASE Hold(n)
    BY <2>3 DEF Hold
  <2>4. CASE Execute(n)
    <3>1. status = "READ_HEADER" /\ body_stream = <<>>
      BY <2>4 DEF Execute, Counted
    <3>2. PICK e : \/ HeaderGoesOn(e) \/ HeaderFails(e) \/ HeaderExpects(e)
                   \/ HeaderThenBody(e, Whole(n)) \/ HeaderIsAll(e)
      BY <2>4 DEF Execute
    <3>3. status' = "EXPECT_CONTINUE" => body_stream' = body_stream
      <4>1. CASE HeaderThenBody(e, Whole(n))
        <5>1. status' \in {"FINISHED", "READ_BODY"}
          BY <4>1 DEF HeaderThenBody, parse_body
        <5> QED
          BY <5>1
      <4> QED
        BY <3>2, <4>1 DEF HeaderGoesOn, HeaderFails, HeaderExpects, HeaderIsAll
    <3> QED
      BY <3>1, <3>3
  <2>5. CASE ReadBody(n)
    <3>1. status' \in {"FINISHED", "READ_BODY"}
      BY <2>5 DEF ReadBody, parse_body
    <3> QED
      BY <3>1
  <2> QED
    BY <2>1, <2>2, <2>3, <2>4, <2>5 DEF parse
<1> QED
  BY <1>1, CountedInit, CountedStep, PTL DEF Spec, AskedOnce

-----------------------------------------------------------------------------
(* The step of the header, under the hypotheses that a chunk ends no header
   field in two, and that a client which asks to wait does. *)

LEMMA ReadsOn ==
    ASSUME Counted, InHeader, NEW n \in 1..Available - delivered
    PROVE  /\ Consumed \in 0..delivered /\ delivered + n \in 1..Len(Stream)
           /\ Whole(n) = SubSeq(Stream, Consumed + 1, delivered + n)
           /\ Piece(Whole(n), Consumed) /\ Consumed + Len(Whole(n)) = delivered + n
<1>1. /\ Stream \in Seq(Bytes) /\ Len(Stream) \in Nat /\ delivered \in 0..Len(Stream)
      /\ n \in Nat /\ delivered + n \in 1..Len(Stream)
  <2>1. Stream \in Seq(Bytes)
    BY StreamBytes DEF Counted
  <2> QED
    BY <2>1, Reaches DEF Counted
<1>2. Consumed \in 0..delivered
  BY <1>1 DEF Consumed, InHeader
<1>3. Whole(n) = SubSeq(Stream, Consumed + 1, delivered + n)
  <2>1. Consumed + 1 \in 1..Len(Stream) + 1
    BY <1>1, <1>2
  <2>2. delivered \in (Consumed + 1) - 1..Len(Stream)
            /\ delivered + n \in delivered..Len(Stream)
    BY <1>1, <1>2
  <2>3. SubSeq(Stream, Consumed + 1, delivered) \o SubSeq(Stream, delivered + 1, delivered + n)
            = SubSeq(Stream, Consumed + 1, delivered + n)
    BY <1>1, <2>1, <2>2, ConcatAdjacentSubSeq
  <2> QED
    BY <2>3 DEF Whole, Chunk, InHeader
<1> DEFINE w == SubSeq(Stream, Consumed + 1, delivered + n)
<1> HIDE DEF Consumed
<1>4. /\ w \in Seq(Bytes) /\ Len(w) = delivered + n - Consumed
      /\ \A p \in 1..Len(w) : w[p] = Stream[Consumed + p]
  <2>1. w \in Seq(Bytes)
    BY <1>1, <1>2
  <2>2. Len(w) = delivered + n - Consumed
    BY <1>1, <1>2
  <2>3. ASSUME NEW p \in 1..delivered + n - Consumed PROVE w[p] = Stream[Consumed + p]
    BY <1>1, <1>2
  <2> HIDE DEF w
  <2> QED
    BY <2>1, <2>2, <2>3
<1> HIDE DEF w
<1>5. Consumed + Len(w) = delivered + n /\ Consumed + Len(w) <= Len(Stream)
  BY <1>1, <1>2, <1>4
<1>6. Piece(w, Consumed)
  BY <1>4, <1>5 DEF Piece
<1> QED
  BY <1>1, <1>2, <1>3, <1>5, <1>6 DEF w

LEMMA EndsBetween ==
    ASSUME request \in Request, NEW c \in Nat, NEW p \in Nat, NEW e, Follows(e, c, p),
           ~Ended(e.cs),
           c + p >= 1, \/ Stream[c + p].kind \in {"CR", "LF"}
                       \/ c + p > HeaderLen
    PROVE  Between(c + p, e.cs, e.fields)
<1>1. HeaderLen \in Nat /\ 2 <= HeaderLen
  <2>1. K \in Nat
    BY Sizes
  <2>2. K + 1 \in Nat \ {0}
    BY <2>1
  <2>3. Start(K + 1) \in Nat /\ Start(K + 1) >= 2
    BY <2>2, Sizes
  <2> QED
    BY <2>3, KindsOfBytes
<1>2. CASE c + p = 1
  BY <1>1, <1>2, KindsOfBytes
<1>3. ASSUME NEW j \in 1..K, NEW d \in 1..6, Within(j, d, c + p, c, e)
      PROVE  FALSE
  <2>1. c + p = Start(j) + d
    BY <1>3 DEF Within
  <2>2. Start(j) + d <= HeaderLen
    <3>1. K \in Nat
      BY Sizes
    <3>2. j \in Nat \ {0} /\ K + 1 \in Nat /\ j < K + 1
      BY <3>1
    <3>3. Start(j) + 7 <= Start(K + 1) /\ Start(j) \in Nat /\ Start(K + 1) \in Int
      BY <3>2, Sizes
    <3>4. Start(K + 1) + 1 <= HeaderLen
      BY KindsOfBytes
    <3> QED
      BY <1>1, <3>3, <3>4
  <2>3. Stream[Start(j) + d].kind \in {"CR", "LF"}
    <3>1. ~(c + p > HeaderLen)
      BY <1>1, <2>1, <2>2
    <3> QED
      BY <2>1, <3>1
  <2>4. d \in {1, 2, 3, 4, 5, 6}
    OBVIOUS
  <2>5. Stream[Start(j) + d].kind \in {"name", "sep", "space", "value"}
    <3>1. /\ Stream[Start(j) + 1] = Byte("name", request.headers[j], 1)
          /\ Stream[Start(j) + 2] = Byte("name", request.headers[j], 2)
          /\ Stream[Start(j) + 3].kind = "sep" /\ Stream[Start(j) + 4].kind = "space"
          /\ Stream[Start(j) + 5] = Byte("value", request.headers[j], 1)
          /\ Stream[Start(j) + 6] = Byte("value", request.headers[j], 2)
      BY KindsOfFields
    <3> QED
      BY <2>4, <3>1 DEF Byte
  <2> QED
    BY <2>3, <2>5
<1>4. ~AfterHeader(c + p, c, e)
  BY DEF AfterHeader, Ended
<1> QED
  BY <1>2, <1>3, <1>4 DEF Follows

(* A chunk that has a line break ends between two fields, or behind the header. *)
LEMMA CleanEnd ==
    ASSUME Counted, InHeader, NEW n \in 1..Available - delivered, Clean(n), Breaks(Whole(n))
    PROVE  Stream[delivered + n].kind \in {"CR", "LF"} \/ delivered + n > HeaderLen
<1>1. Breaks(Chunk(n))
  <2>1. truncated \in Seq(Bytes) /\ Chunk(n) \in Seq(Bytes)
    <3>1. Stream \in Seq(Bytes) /\ delivered \in 0..Len(Stream) /\ Consumed \in 0..delivered
          /\ delivered + n \in 1..Len(Stream) /\ Len(Stream) \in Nat /\ n \in Nat
      BY ReadsOn, StreamBytes, Reaches DEF Counted
    <3>2. SubSeq(Stream, Consumed + 1, delivered) \in Seq(Bytes)
      BY <3>1
    <3>3. SubSeq(Stream, delivered + 1, delivered + n) \in Seq(Bytes)
      BY <3>1
    <3> QED
      BY <3>2, <3>3 DEF InHeader, Chunk
  <2>2. PICK p \in 1..Len(Whole(n)) : Whole(n)[p].kind \in {"CR", "LF"}
    BY DEF Breaks
  <2>3. Joins(Bytes, truncated, Chunk(n), Whole(n))
    BY <2>1, Joined DEF Whole
  <2>4. Len(truncated) \in Nat /\ Len(Chunk(n)) \in Nat
    BY <2>1
  <2>5. p \notin 1..Len(truncated)
    BY <2>2, <2>3 DEF Joins, InHeader, Breaks
  <2>6. p - Len(truncated) \in 1..Len(Chunk(n)) /\ Len(truncated) + (p - Len(truncated)) = p
    BY <2>3, <2>4, <2>5 DEF Joins
  <2>7. Chunk(n)[p - Len(truncated)].kind \in {"CR", "LF"}
    BY <2>2, <2>3, <2>6 DEF Joins
  <2> QED
    BY <2>6, <2>7 DEF Breaks
<1> QED
  BY <1>1 DEF Clean, HeaderLen

LEMMA BetweenPrimed ==
    ASSUME request' = request, Between(Consumed', cs', fields')
    PROVE  Between(Consumed, cs, fields)'
<1>1. K' = K /\ \A j \in 1..K + 1 : Start(j)' = Start(j)
  BY DEF K, Start
<1>2. \A m \in 0..K : Read(m)' = Read(m)
  BY DEF Read
<1> QED
  BY DEF Between, K, Start, Read

LEMMA HoldKeeps ==
    ASSUME Counted, InHeader, Fits, NEW n \in 1..Available - delivered, Hold(n)
    PROVE  InHeader' /\ Fits'
<1>1. /\ request' = request /\ delivered' = delivered + n /\ truncated' = Whole(n)
      /\ ~Breaks(Whole(n)) /\ cs' = cs /\ fields' = fields /\ body_expected' = body_expected
      /\ body_stream' = body_stream /\ body' = body
  BY DEF Hold, Deliver
<1>2. /\ Consumed \in 0..delivered /\ Whole(n) = SubSeq(Stream, Consumed + 1, delivered + n)
      /\ Consumed + Len(Whole(n)) = delivered + n /\ delivered \in Nat /\ n \in Nat
      /\ Len(Whole(n)) \in Nat
  <2>1. Piece(Whole(n), Consumed)
    BY ReadsOn
  <2>2. Len(Whole(n)) \in Nat
    BY <2>1 DEF Piece
  <2> QED
    BY <2>2, ReadsOn, Reaches
<1>3. Consumed' = Consumed
  <2>1. Consumed' = delivered' - Len(truncated')
    BY DEF Consumed
  <2> QED
    BY <1>1, <1>2, <2>1
<1>4. Len(truncated') \in 0..delivered'
  BY <1>1, <1>2
<1>5. truncated' = SubSeq(Stream', Consumed' + 1, delivered')
  BY <1>1, <1>2, <1>3, SameRequest
<1>6. Between(Consumed, cs, fields)'
  BY <1>1, <1>3, BetweenPrimed DEF InHeader
<1>7. ~Breaks(truncated)'
  BY <1>1 DEF Breaks
<1>8. body_expected' = 0 /\ body_stream' = <<>> /\ body' = <<>>
  BY <1>1 DEF InHeader
<1>9. InHeader'
  BY <1>4, <1>5, <1>6, <1>7, <1>8 DEF InHeader
<1>10. Fits'
  BY <1>1, SameRequest DEF Fits
<1> QED
  BY <1>9, <1>10

-----------------------------------------------------------------------------
(* The body. *)

LEMMA BodyBytes ==
    ASSUME request \in Request
    PROVE  Body(request) \in Seq(Bytes) /\ Len(Body(request)) = request.sent
               /\ request.sent \in Nat
<1>1. request.sent \in Nat
  BY DEF Request
<1>2. ASSUME NEW i \in 1..request.sent PROVE Byte("body", "none", i) \in Bytes
  <2>1. i \in Nat
    BY <1>1
  <2> QED
    BY <2>1, ByteIs DEF Kinds
<1> QED
  BY <1>1, <1>2 DEF Body

LEMMA RestOfStream ==
    ASSUME request \in Request, NEW a \in Nat, NEW b \in Nat, HeaderLen <= a, a <= b,
           b <= Len(Stream)
    PROVE  SubSeq(Stream, a + 1, b)
               = SubSeq(Body(request), a - HeaderLen + 1, b - HeaderLen)
<1> DEFINE h == Header(request)
           t == Body(request)
<1>1. h \in Seq(Bytes) /\ t \in Seq(Bytes) /\ Len(h) = HeaderLen /\ HeaderLen \in Nat
  BY BodyBytes, HeaderBytes, StreamBytes DEF HeaderIs, HeaderLen
<1>2. Len(Stream) = Len(h) + Len(t) /\ Len(t) \in Nat
  <2>1. Joins(Bytes, h, t, Stream)
    BY <1>1, Joined DEF Stream
  <2> HIDE DEF h, t
  <2> QED
    BY <1>1, <2>1 DEF Joins
<1> HIDE DEF h, t
<1>3. CASE a < b
  <2>1. /\ a + 1 \in Len(h) + 1..Len(h) + Len(t) /\ b \in Len(h) + 1..Len(h) + Len(t)
        /\ a + 1 - Len(h) = a - HeaderLen + 1
    BY <1>1, <1>2, <1>3
  <2>2. SubSeq(h \o t, a + 1, b) = SubSeq(t, a + 1 - Len(h), b - Len(h))
    BY <1>1, <2>1, SubSeqOfConcat2
  <2> QED
    BY <1>1, <2>1, <2>2 DEF Stream, h, t
<1>4. CASE a = b
  <2>1. b < a + 1 /\ b - HeaderLen < a - HeaderLen + 1
    BY <1>1, <1>4
  <2> QED
    BY <1>1, <2>1, SubSeqEmpty
<1>5. a < b \/ a = b
  OBVIOUS
<1> QED
  BY <1>3, <1>4, <1>5

LEMMA FirstBytes ==
    ASSUME request \in Request, NEW a \in Nat, NEW b \in Nat, a <= b, b <= request.sent
    PROVE  /\ SubSeq(Body(request), 1, a) \o SubSeq(Body(request), a + 1, b)
                  = SubSeq(Body(request), 1, b)
           /\ Len(SubSeq(Body(request), a + 1, b)) = b - a
           /\ Len(SubSeq(Body(request), 1, b)) = b
           /\ \A i \in a..b : SubSeq(SubSeq(Body(request), a + 1, b), 1, i - a)
                                  = SubSeq(Body(request), a + 1, i)
<1> DEFINE t == Body(request)
<1>1. t \in Seq(Bytes) /\ Len(t) = request.sent /\ request.sent \in Nat
  BY BodyBytes
<1> HIDE DEF t
<1>2. SubSeq(t, 1, a) \o SubSeq(t, a + 1, b) = SubSeq(t, 1, b)
  <2>1. 1 \in 1..Len(t) + 1 /\ a \in 1 - 1..Len(t) /\ b \in a..Len(t)
    BY <1>1
  <2> QED
    BY <1>1, <2>1, ConcatAdjacentSubSeq
<1>3. Len(SubSeq(t, a + 1, b)) = b - a
  BY <1>1
<1>4. Len(SubSeq(t, 1, b)) = b
  BY <1>1
<1>5. ASSUME NEW i \in a..b
      PROVE  SubSeq(SubSeq(t, a + 1, b), 1, i - a) = SubSeq(t, a + 1, i)
  <2> DEFINE u == SubSeq(t, a + 1, b)
             v == SubSeq(u, 1, i - a)
             w == SubSeq(t, a + 1, i)
  <2>1. u \in Seq(Bytes) /\ Len(u) = b - a /\ \A k \in 1..b - a : u[k] = t[a + k]
    BY <1>1
  <2>2. w \in Seq(Bytes) /\ Len(w) = i - a /\ \A k \in 1..i - a : w[k] = t[a + k]
    BY <1>1
  <2> HIDE DEF u, w
  <2>3. v \in Seq(Bytes) /\ Len(v) = i - a /\ \A k \in 1..i - a : v[k] = u[k]
    BY <2>1
  <2> HIDE DEF v
  <2>4. \A k \in 1..Len(v) : v[k] = w[k]
    BY <2>1, <2>2, <2>3
  <2>5. Len(v) = Len(w)
    BY <2>2, <2>3
  <2>6. v = w
    BY <2>2, <2>3, <2>4, <2>5, SeqEqual
  <2> QED
    BY <2>6 DEF v, u, w
<1> QED
  BY <1>2, <1>3, <1>4, <1>5 DEF t

LEMMA BodyKeeps ==
    ASSUME request \in Request, request' = request, Complete', delivered' \in Nat,
           HeaderLen <= delivered', delivered' <= Len(Stream),
           NEW a \in Nat, a <= delivered' - HeaderLen, a < BodyAnnounced,
           body_stream = SubSeq(Body(request), 1, a), body = <<>>,
           parse_body(SubSeq(Body(request), a + 1, delivered' - HeaderLen), BodyAnnounced - a)
    PROVE  /\ Fits' /\ status' \in {"READ_BODY", "FINISHED"}
           /\ status' = "READ_BODY" => InBody'
           /\ status' = "FINISHED" => AllRead'
<1> DEFINE B == BodyAnnounced
           b == delivered' - HeaderLen
           t == Body(request)
           cut == IF b > B THEN B ELSE b
           data == SubSeq(t, a + 1, b)
           x == B - a
           taken == IF Len(data) > x THEN SubSeq(data, 1, x) ELSE data
<1>1. /\ B \in Nat /\ HeaderLen \in Nat /\ b \in Nat /\ a <= b /\ b <= request.sent
      /\ request.sent \in Nat
  BY AnnouncedIs, StreamBytes
<1>0. a < B
  OBVIOUS
<1> HIDE DEF B, b
<1>2. cut \in Nat /\ cut <= B /\ cut <= b /\ a <= cut /\ cut <= request.sent
  BY <1>0, <1>1
<1>3. Len(data) = b - a
  BY <1>1, FirstBytes
<1>4. taken = SubSeq(t, a + 1, cut)
  <2>1. CASE b > B
    <3>1. Len(data) > x /\ cut = B
      BY <1>1, <1>3, <2>1
    <3>2. B \in a..b
      BY <1>0, <1>1, <2>1
    <3>3. SubSeq(data, 1, B - a) = SubSeq(t, a + 1, B)
      BY <1>1, <3>2, FirstBytes
    <3> QED
      BY <3>1, <3>3
  <2>2. CASE ~(b > B)
    <3>1. ~(Len(data) > x) /\ cut = b
      BY <1>1, <1>3, <2>2
    <3> QED
      BY <3>1
  <2> QED
    BY <2>1, <2>2
<1>5. Len(taken) = cut - a
  BY <1>2, <1>4, FirstBytes
<1>6. body_stream \o taken = SubSeq(t, 1, cut) /\ Len(SubSeq(t, 1, cut)) = cut
  <2>1. /\ SubSeq(t, 1, a) \o SubSeq(t, a + 1, cut) = SubSeq(t, 1, cut)
        /\ Len(SubSeq(t, 1, cut)) = cut
    <3> HIDE DEF cut
    <3> QED
      BY <1>2, FirstBytes
  <2> HIDE DEF taken, cut
  <2> QED
    BY <1>4, <2>1
<1>7. /\ body_expected' = x - Len(taken)
      /\ \/ body_expected' = 0 /\ status' = "FINISHED"
            /\ body' = body_stream \o taken /\ body_stream' = <<>>
         \/ body_expected' > 0 /\ status' = "READ_BODY"
            /\ body_stream' = body_stream \o taken /\ UNCHANGED body
  BY DEF parse_body, B, b
<1> HIDE DEF taken, data
<1>8. body_expected' = B - cut
  BY <1>1, <1>2, <1>5, <1>7
<1>9. B' = B /\ HeaderLen' = HeaderLen /\ Body(request)' = t
  BY SameRequest DEF B
<1>10. "done" \in States
  BY DEF States
<1> HIDE DEF t, cut
<1>11. CASE /\ body_expected' = 0 /\ status' = "FINISHED"
            /\ body' = body_stream \o taken /\ body_stream' = <<>>
  <2>1. cut = B
    BY <1>1, <1>2, <1>8, <1>11
  <2>2. body' = SubSeq(t, 1, B) /\ Len(body') = B
    BY <1>6, <1>11, <2>1
  <2>3. B <= request.sent
    BY <1>2, <2>1
  <2>4. AllRead'
    BY <1>9, <1>11, <2>2, <2>3 DEF AllRead, B
  <2>5. Len(body_stream') = 0
    BY <1>11
  <2>6. Fits'
    BY <1>1, <1>9, <1>10, <1>11, <2>2, <2>5 DEF Fits, Complete, B
  <2> QED
    BY <1>11, <2>4, <2>6
<1>12. CASE /\ body_expected' > 0 /\ status' = "READ_BODY"
            /\ body_stream' = body_stream \o taken /\ UNCHANGED body
  <2>1. cut = b
    <3>1. cut # B
      BY <1>1, <1>8, <1>12
    <3> QED
      BY <3>1 DEF cut
  <2>2. body_stream' = SubSeq(t, 1, b) /\ Len(body_stream') = b /\ Len(body') = 0
            /\ body' = <<>>
    BY <1>6, <1>12, <2>1
  <2>3. body_expected' = B - b /\ b <= B
    BY <1>2, <1>8, <2>1
  <2>4. InBody'
    BY <1>9, <1>12, <2>2, <2>3 DEF InBody, B, b
  <2>5. Fits'
    BY <1>1, <1>9, <1>10, <2>2, <2>3 DEF Fits, Complete, B
  <2> QED
    BY <1>12, <2>4, <2>5
<1> QED
  BY <1>7, <1>11, <1>12

(* Between two fields there are bytes of the header left to read. *)
LEMMA BetweenInHeader ==
    ASSUME request \in Request, NEW q, NEW s, NEW fs, Between(q, s, fs)
    PROVE  q \in Nat /\ q < HeaderLen
<1>1. /\ K \in Nat /\ K + 1 \in Nat \ {0} /\ HeaderLen \in Nat
      /\ Start(K + 1) \in Nat /\ Start(K + 1) < HeaderLen
  <2>1. K \in Nat
    BY Sizes
  <2>2. K + 1 \in Nat \ {0}
    BY <2>1
  <2>3. Start(K + 1) \in Nat
    BY <2>2, Sizes
  <2>4. Start(K + 1) + 1 <= HeaderLen /\ HeaderLen \in Nat
    BY KindsOfBytes
  <2> QED
    BY <2>1, <2>2, <2>3, <2>4
<1>2. ASSUME NEW j \in 1..K PROVE Start(j) \in Nat /\ Start(j) + 7 <= Start(K + 1)
  <2>1. j \in Nat \ {0} /\ j < K + 1
    BY <1>1
  <2> QED
    BY <1>1, <2>1, Sizes
<1>3. CASE q = 0
  BY <1>1, <1>3
<1>4. CASE q = 2
  <2>1. Start(K + 1) >= 2
    BY <1>1, Sizes
  <2> QED
    BY <1>1, <1>4, <2>1
<1>5. CASE \E j \in 1..K + 1 : q = Start(j)
  <2>1. PICK j \in 1..K + 1 : q = Start(j)
    BY <1>5
  <2>2. j \in 1..K \/ j = K + 1
    BY <1>1
  <2>3. CASE j \in 1..K
    BY <1>1, <1>2, <2>1, <2>3
  <2>4. CASE j = K + 1
    BY <1>1, <2>1, <2>4
  <2> QED
    BY <2>2, <2>3, <2>4
<1>6. CASE \E j \in 1..K : q = Start(j) + 7
  <2>1. PICK j \in 1..K : q = Start(j) + 7
    BY <1>6
  <2> QED
    BY <1>1, <1>2, <2>1
<1>7. CASE request.eol = "CRLF" /\ ~request.bad /\ q = Start(K + 1) + 1
  <2>1. HeaderLen = Start(K + 1) + 2
    BY <1>7, HeaderEnds
  <2> QED
    BY <1>1, <1>7, <2>1
<1> QED
  BY <1>3, <1>4, <1>5, <1>6, <1>7 DEF Between

LEMMA EndOfPiece ==
    ASSUME NEW s \in Seq(Bytes), NEW a \in Nat, NEW b \in Nat, NEW m \in Nat, NEW k \in Nat,
           NEW h \in Nat, a + m = h, a + k = b, h <= b, b <= Len(s)
    PROVE  SubSeq(SubSeq(s, a + 1, b), m + 1, k) = SubSeq(s, h + 1, b)
<1> DEFINE u == SubSeq(s, a + 1, b)
           v == SubSeq(u, m + 1, k)
           w == SubSeq(s, h + 1, b)
<1>1. u \in Seq(Bytes) /\ Len(u) = k /\ \A i \in 1..k : u[i] = s[a + i]
  OBVIOUS
<1>2. w \in Seq(Bytes) /\ Len(w) = b - h /\ \A i \in 1..b - h : w[i] = s[h + i]
  OBVIOUS
<1> HIDE DEF u, w
<1>3. v \in Seq(Bytes) /\ Len(v) = k - m /\ \A i \in 1..k - m : v[i] = u[m + i]
  BY <1>1
<1> HIDE DEF v
<1>4. Len(v) = Len(w) /\ k - m = b - h
  BY <1>2, <1>3
<1>5. ASSUME NEW i \in 1..Len(v) PROVE v[i] = w[i]
  <2>1. i \in 1..k - m
    BY <1>3
  <2>2. m + i \in 1..k /\ a + (m + i) = h + i
    BY <2>1
  <2>3. v[i] = u[m + i] /\ u[m + i] = s[a + (m + i)] /\ w[i] = s[h + i]
    BY <1>1, <1>2, <1>3, <1>4, <2>1, <2>2
  <2> QED
    BY <2>2, <2>3
<1>6. v = w
  BY <1>2, <1>3, <1>4, <1>5, SeqEqual
<1> QED
  BY <1>6 DEF u, v, w

(* execute has run on the bytes held back and a chunk. *)
LEMMA ExecuteKeeps ==
    ASSUME Counted, InHeader, Fits, ClientWaits = TRUE, NEW n \in 1..Available - delivered,
           Clean(n), Execute(n)
    PROVE  /\ Fits' /\ status' \in {"READ_HEADER", "ERROR", "EXPECT_CONTINUE", "READ_BODY", "FINISHED"}
           /\ status' = "READ_HEADER" => InHeader'
           /\ status' = "EXPECT_CONTINUE" => Asking'
           /\ status' = "READ_BODY" => InBody'
           /\ status' = "FINISHED" => AllRead'
           /\ status' = "ERROR" => Refused'
<1> DEFINE c == Consumed
           w == Whole(n)
           e == execute(w)
           D == delivered + n
<1>1. /\ request' = request /\ delivered' = D /\ truncated' = <<>> /\ status = "READ_HEADER"
      /\ Breaks(w) /\ cs' = e.cs /\ fields' = e.fields
      /\ \/ HeaderGoesOn(e) \/ HeaderFails(e) \/ HeaderExpects(e)
         \/ HeaderThenBody(e, w) \/ HeaderIsAll(e)
  BY DEF Execute, Deliver
<1>2. /\ c \in 0..delivered /\ D \in 1..Len(Stream) /\ w = SubSeq(Stream, c + 1, D)
      /\ Piece(w, c) /\ c + Len(w) = D
  BY ReadsOn
<1>3. request \in Request /\ body_stream = <<>> /\ body = <<>> /\ body_expected = 0
  BY DEF Counted, InHeader
<1>4. Len(w) \in Nat /\ c \in Nat /\ D \in Nat /\ 1 <= D /\ D <= Len(Stream)
          /\ Len(Stream) \in Nat
  <2>1. Len(w) \in Nat
    <3> HIDE DEF w, c
    <3> QED
      BY <1>2 DEF Piece
  <2>2. delivered \in Nat /\ Len(Stream) \in Nat
    BY Reaches
  <2> HIDE DEF w, c, D
  <2> QED
    BY <1>2, <2>1, <2>2
<1>5. Follows(e, c, Len(w))
  BY <1>2, <1>3, <1>4, ExecuteFollows DEF InHeader
<1>6. Stream[D].kind \in {"CR", "LF"} \/ D > HeaderLen
  BY <1>1, CleanEnd
<1>7. HeaderLen \in Nat /\ BodyAnnounced \in Nat
  BY <1>3, StreamBytes, AnnouncedIs
<1>8. ~Ended(e.cs) => Between(D, e.cs, e.fields)
  <2> HIDE DEF c, w, e, D
  <2> QED
    BY <1>2, <1>3, <1>4, <1>5, <1>6, EndsBetween
<1>9. Ended(e.cs) => AfterHeader(D, c, e)
  <2>1. Ended(e.cs) => ~Between(c + Len(w), e.cs, e.fields)
    BY DEF Between, Ended
  <2>2. Ended(e.cs) => \A j \in 1..K, d \in 1..6 : ~Within(j, d, c + Len(w), c, e)
    BY DEF Within, Ended
  <2>3. Ended(e.cs) => e.cs # "version"
    BY DEF Ended
  <2> QED
    BY <1>2, <1>5, <2>1, <2>2, <2>3 DEF Follows
<1> HIDE DEF c, w, e, D
<1>10. e.cs = "done" => ~request.bad /\ e.fields = Read(K) /\ D >= HeaderLen
           /\ e.nread = HeaderLen - c
  BY <1>9 DEF AfterHeader, Ended
<1>11. e.cs = "done" => Complete'
  BY <1>1, <1>10, SameRequest DEF Complete
<1>12. CASE HeaderGoesOn(e)
  <2>1. /\ ~Ended(e.cs) /\ status' = "READ_HEADER"
        /\ body_expected' = 0 /\ body_stream' = <<>> /\ body' = <<>>
    BY <1>1, <1>3, <1>12 DEF HeaderGoesOn, Ended
  <2>2. Len(truncated') = 0 /\ Consumed' = D
    <3>1. Len(truncated') = 0
      BY <1>1
    <3>2. Consumed' = delivered' - Len(truncated')
      BY DEF Consumed
    <3> QED
      BY <1>1, <1>4, <3>1, <3>2
  <2>3. truncated' = SubSeq(Stream', Consumed' + 1, delivered')
    BY <1>1, <1>4, <2>2, SubSeqEmpty
  <2>4. Between(Consumed, cs, fields)'
    BY <1>1, <1>8, <2>1, <2>2, BetweenPrimed
  <2>5. ~Breaks(truncated)'
    BY <2>2 DEF Breaks
  <2>6. Len(truncated') \in 0..delivered'
    BY <1>1, <1>4, <2>2
  <2>7. InHeader'
    BY <2>1, <2>3, <2>4, <2>5, <2>6 DEF InHeader
  <2>8. cs' \in States
    BY <1>1, <1>8, <2>1 DEF Between, States
  <2>9. Fits'
    BY <1>1, <1>7, <2>1, <2>8, SameRequest DEF Fits
  <2> QED
    BY <2>1, <2>7, <2>9
<1>13. CASE HeaderFails(e)
  <2>1. e.cs = "error" /\ status' = "ERROR"
    BY <1>13 DEF HeaderFails
  <2>2. request.bad
    BY <1>9, <2>1 DEF AfterHeader, Ended
  <2>3. body_expected' = 0 /\ body_stream' = <<>> /\ body' = <<>>
    BY <1>3, <1>13 DEF HeaderFails
  <2>4. Refused'
    BY <1>1, <2>2, <2>3 DEF Refused
  <2>5. Fits'
    <3>1. cs' \in States
      BY <1>1, <2>1 DEF States
    <3> QED
      BY <1>1, <1>7, <2>3, <3>1, SameRequest DEF Fits
  <2> QED
    BY <2>1, <2>4, <2>5
<1>14. CASE HeaderExpects(e)
  <2>1. /\ e.cs = "done" /\ requested_continue(Read(K))
        /\ body_expected' = expecting_body(Read(K))
        /\ status' = (IF body_expected' = 0 THEN "ERROR" ELSE "EXPECT_CONTINUE")
        /\ body_stream' = <<>> /\ body' = <<>>
    BY <1>3, <1>10, <1>14 DEF HeaderExpects
  <2>2. Asks /\ body_expected' = BodyAnnounced
    BY <1>3, <2>1, AsksIf, AnnouncedIs
  <2>3. \E j \in 1..Len(request.headers) : request.headers[j] = "expect"
    <3>1. {j \in 1..Len(request.headers) : request.headers[j] = "expect"} # {}
      BY <2>2, FS_EmptySet DEF Asks
    <3> QED
      BY <3>1
  <2>4. Available = HeaderLen
    BY <1>1, <2>3 DEF Available, HeaderLen
  <2>5. D = HeaderLen
    <3>1. D <= HeaderLen
      BY <1>7, <2>4, Reaches DEF D
    <3> QED
      BY <1>4, <1>7, <1>10, <2>1, <3>1
  <2>6. Fits'
    <3>1. cs' \in States
      BY <1>1, <2>1 DEF States
    <3> QED
      BY <1>1, <1>7, <2>1, <2>2, <3>1, SameRequest DEF Fits
  <2>7. CASE BodyAnnounced = 0
    <3>1. status' = "ERROR"
      BY <2>1, <2>2, <2>7
    <3>2. Refused'
      BY <1>1, <2>1, <2>2, <2>7, SameRequest DEF Refused
    <3> QED
      BY <2>6, <3>1, <3>2
  <2>8. CASE BodyAnnounced # 0
    <3>1. status' = "EXPECT_CONTINUE"
      BY <2>1, <2>2, <2>8
    <3>2. Asking'
      BY <1>1, <1>7, <1>11, <2>1, <2>2, <2>5, <2>8, SameRequest DEF Asking
    <3> QED
      BY <2>6, <3>1, <3>2
  <2> QED
    BY <2>7, <2>8
<1>15. CASE HeaderThenBody(e, w)
  <2>1. /\ e.cs = "done" /\ BodyAnnounced # 0
        /\ parse_body(SubSeq(w, e.nread + 1, Len(w)), BodyAnnounced)
    BY <1>3, <1>10, <1>15, AnnouncedIs DEF HeaderThenBody
  <2>2. e.nread = HeaderLen - c /\ D >= HeaderLen
    BY <1>10, <2>1
  <2>3. SubSeq(w, e.nread + 1, Len(w)) = SubSeq(Body(request), 0 + 1, D - HeaderLen)
    <3>1. SubSeq(w, e.nread + 1, Len(w)) = SubSeq(Stream, HeaderLen + 1, D)
      <4>1. Stream \in Seq(Bytes) /\ c <= HeaderLen
        <5>1. Stream \in Seq(Bytes)
          BY <1>3, StreamBytes
        <5>2. c < HeaderLen
          BY <1>3, BetweenInHeader DEF InHeader, c
        <5> QED
          BY <1>4, <1>7, <5>1, <5>2
      <4>2. e.nread \in Nat /\ c + e.nread = HeaderLen
        BY <1>4, <1>7, <2>2, <4>1
      <4>3. SubSeq(SubSeq(Stream, c + 1, D), e.nread + 1, Len(w))
                = SubSeq(Stream, HeaderLen + 1, D)
        BY <1>2, <1>4, <1>7, <2>2, <4>1, <4>2, EndOfPiece
      <4> QED
        BY <1>2, <4>3
    <3>2. SubSeq(Stream, HeaderLen + 1, D)
              = SubSeq(Body(request), HeaderLen - HeaderLen + 1, D - HeaderLen)
      BY <1>3, <1>4, <1>7, <2>2, RestOfStream
    <3>3. HeaderLen - HeaderLen = 0
      BY <1>7
    <3> QED
      BY <3>1, <3>2, <3>3
  <2>4. body_stream = SubSeq(Body(request), 1, 0) /\ body = <<>>
    BY <1>3, SubSeqEmpty
  <2>5. BodyAnnounced - 0 = BodyAnnounced /\ 0 < BodyAnnounced /\ 0 \in Nat
            /\ 0 <= D - HeaderLen
    BY <1>4, <1>7, <2>1, <2>2
  <2>6. parse_body(SubSeq(Body(request), 0 + 1, delivered' - HeaderLen), BodyAnnounced - 0)
    BY <1>1, <2>1, <2>3, <2>5
  <2> QED
    BY <1>1, <1>3, <1>4, <1>11, <2>1, <2>2, <2>4, <2>5, <2>6, BodyKeeps
<1>16. CASE HeaderIsAll(e)
  <2>1. /\ e.cs = "done" /\ BodyAnnounced = 0 /\ body_expected' = 0 /\ status' = "FINISHED"
        /\ body_stream' = <<>> /\ body' = <<>>
    BY <1>3, <1>10, <1>16, AnnouncedIs DEF HeaderIsAll
  <2>2. body' = SubSeq(Body(request), 1, BodyAnnounced) /\ BodyAnnounced <= request.sent
    BY <1>3, <2>1, SubSeqEmpty, BodyBytes
  <2>3. AllRead'
    BY <1>1, <1>11, <2>1, <2>2, SameRequest DEF AllRead
  <2>4. Fits'
    <3>1. cs' \in States
      BY <1>1, <2>1 DEF States
    <3> QED
      BY <1>1, <2>1, <3>1, SameRequest DEF Fits
  <2> QED
    BY <2>1, <2>3, <2>4
<1> QED
  BY <1>1, <1>12, <1>13, <1>14, <1>15, <1>16

(* A chunk of the body, after the header or after other chunks of it. *)
LEMMA ReadBodyKeeps ==
    ASSUME Counted, Fits, status = "EXPECT_CONTINUE" => Asking,
           status = "READ_BODY" => InBody,
           NEW n \in 1..Available - delivered, ReadBody(n)
    PROVE  /\ Fits' /\ status' \in {"READ_BODY", "FINISHED"}
           /\ status' = "READ_BODY" => InBody'
           /\ status' = "FINISHED" => AllRead'
<1> DEFINE a == delivered - HeaderLen
<1>1. /\ request' = request /\ delivered' = delivered + n
      /\ cs' = cs /\ fields' = fields
      /\ status \in {"EXPECT_CONTINUE", "READ_BODY"}
      /\ parse_body(Chunk(n), body_expected)
  BY DEF ReadBody, Deliver
<1>2. /\ request \in Request /\ HeaderLen \in Nat /\ BodyAnnounced \in Nat
      /\ Len(Stream) \in Nat /\ delivered \in Nat /\ n \in Nat
      /\ delivered + n \in Nat /\ delivered + n <= Len(Stream)
  <2>1. request \in Request
    BY DEF Counted
  <2>2. Available \in Nat /\ Available <= Len(Stream) /\ Len(Stream) \in Nat
            /\ delivered \in Nat
    BY Reaches
  <2> QED
    BY <2>1, <2>2, StreamBytes, AnnouncedIs
<1>3. /\ Complete /\ HeaderLen <= delivered /\ body = <<>>
      /\ body_stream = SubSeq(Body(request), 1, a)
      /\ body_expected = BodyAnnounced - a /\ body_expected > 0
  <2>1. CASE status = "EXPECT_CONTINUE"
    <3>1. Asking
      BY <2>1
    <3>2. a = 0
      BY <1>2, <3>1 DEF Asking
    <3>3. body_expected = BodyAnnounced - 0 /\ body_expected > 0
      BY <1>2, <3>1 DEF Asking
    <3>4. body_stream = SubSeq(Body(request), 1, 0)
      BY <3>1, SubSeqEmpty DEF Asking
    <3>5. HeaderLen <= delivered
      BY <1>2, <3>1 DEF Asking
    <3> HIDE DEF a
    <3> QED
      BY <3>1, <3>2, <3>3, <3>4, <3>5 DEF Asking
  <2>2. CASE status = "READ_BODY"
    BY <2>2 DEF InBody
  <2> QED
    BY <1>1, <2>1, <2>2
<1>4. a \in Nat /\ a <= delivered' - HeaderLen /\ a < BodyAnnounced
  BY <1>1, <1>2, <1>3
<1>5. Chunk(n) = SubSeq(Body(request), a + 1, delivered' - HeaderLen)
  BY <1>1, <1>2, <1>3, RestOfStream DEF Chunk
<1>6. Complete'
  BY <1>1, <1>3, SameRequest DEF Complete
<1>7. /\ delivered' \in Nat /\ HeaderLen <= delivered' /\ delivered' <= Len(Stream)
      /\ parse_body(SubSeq(Body(request), a + 1, delivered' - HeaderLen), BodyAnnounced - a)
  <2> HIDE DEF a
  <2>1. parse_body(SubSeq(Body(request), a + 1, delivered' - HeaderLen), BodyAnnounced - a)
    BY <1>1, <1>3, <1>5
  <2> QED
    BY <1>1, <1>2, <1>3, <2>1
<1> HIDE DEF a
<1> QED
  BY <1>1, <1>2, <1>3, <1>4, <1>6, <1>7, BodyKeeps

(* The invariant, when a chunk splits no header field and a client that asks
   to wait does wait. *)
LEMMA IInvInit == Init => IInv
<1> SUFFICES ASSUME Init PROVE IInv
  OBVIOUS
<1>1. Counted
  BY CountedInit
<1>2. request \in Request /\ BodyAnnounced \in Nat /\ Stream \in Seq(Bytes)
  <2>1. request \in Request
    BY <1>1 DEF Counted
  <2> QED
    BY <2>1, AnnouncedIs, StreamBytes
<1>3. Fits
  <2>1. Len(body) = 0 /\ Len(body_stream) = 0 /\ body_expected = 0 /\ cs \in States
    BY DEF Init, States
  <2> QED
    BY <1>2, <2>1 DEF Fits
<1>4. InHeader
  <2>1. Len(truncated) = 0 /\ delivered = 0
    BY DEF Init
  <2>2. Consumed = 0
    BY <2>1 DEF Consumed
  <2>3. truncated = SubSeq(Stream, Consumed + 1, delivered)
    BY <2>1, <2>2, SubSeqEmpty DEF Init
  <2>4. Between(Consumed, cs, fields)
    <3>1. Read(0) = <<>>
      BY DEF Read
    <3> QED
      BY <2>2, <3>1 DEF Between, Init
  <2>5. ~Breaks(truncated)
    BY <2>1 DEF Breaks
  <2> QED
    BY <2>1, <2>3, <2>4, <2>5 DEF InHeader, Init
<1>5. status = "READ_HEADER"
  BY DEF Init
<1> QED
  BY <1>1, <1>3, <1>4, <1>5 DEF IInv

LEMMA IInvStep ==
    ASSUME CleanCuts = TRUE, ClientWaits = TRUE
    PROVE  IInv /\ [Next]_pvars => IInv'
<1> SUFFICES ASSUME IInv, [Next]_pvars PROVE IInv'
  OBVIOUS
<1>1. Counted /\ Fits /\ Counted'
  BY CountedStep DEF IInv
<1>2. CASE UNCHANGED pvars
  <2>1. /\ request' = request /\ delivered' = delivered /\ status' = status /\ cs' = cs
        /\ fields' = fields /\ truncated' = truncated /\ body_expected' = body_expected
        /\ body_stream' = body_stream /\ body' = body
    BY <1>2 DEF pvars
  <2>2. Consumed' = Consumed
    BY <2>1 DEF Consumed
  <2>3. Between(Consumed, cs, fields) => Between(Consumed, cs, fields)'
    BY <2>1, <2>2, BetweenPrimed
  <2>4. InHeader => InHeader'
    <3>1. ~Breaks(truncated) => ~Breaks(truncated)'
      BY <2>1 DEF Breaks
    <3> QED
      BY <2>1, <2>2, <2>3, <3>1, SameRequest DEF InHeader
  <2>5. Complete => Complete'
    BY <2>1, SameRequest DEF Complete
  <2>6. /\ Asking => Asking'
        /\ InBody => InBody'
        /\ AllRead => AllRead'
    BY <2>1, <2>5, SameRequest DEF Asking, InBody, AllRead
  <2>7. Refused => Refused'
    BY <2>1, SameRequest DEF Refused
  <2>8. Fits'
    BY <1>1, <2>1, SameRequest DEF Fits
  <2> QED
    BY <1>1, <2>1, <2>4, <2>6, <2>7, <2>8 DEF IInv
<1>3. CASE Next
  <2>1. PICK n \in 1..Available - delivered : ~Over /\ Clean(n) /\ parse(n)
    BY <1>3 DEF Next
  <2>2. CASE RejectSize(n)
    <3>1. /\ status' = "REJECTED_REQUEST_SIZE" /\ request' = request /\ cs' = cs
          /\ body_expected' = body_expected /\ body_stream' = body_stream /\ body' = body
      BY <2>2 DEF RejectSize, Deliver
    <3>2. Fits'
      BY <1>1, <3>1, SameRequest DEF Fits
    <3> QED
      BY <1>1, <3>1, <3>2 DEF IInv
  <2>3. CASE Hold(n)
    <3>1. status = "READ_HEADER" /\ status' = status
      BY <2>3 DEF Hold
    <3>2. InHeader' /\ Fits'
      BY <1>1, <2>3, <3>1, HoldKeeps DEF IInv
    <3> QED
      BY <1>1, <3>1, <3>2 DEF IInv
  <2>4. CASE Execute(n)
    <3>1. status = "READ_HEADER"
      BY <2>4 DEF Execute
    <3>2. InHeader
      BY <3>1 DEF IInv
    <3> QED
      BY <1>1, <2>1, <2>4, <3>2, ExecuteKeeps DEF IInv
  <2>5. CASE ReadBody(n)
    <3>1. (status = "EXPECT_CONTINUE" => Asking) /\ (status = "READ_BODY" => InBody)
      BY DEF IInv
    <3> QED
      BY <1>1, <2>5, <3>1, ReadBodyKeeps DEF IInv
  <2> QED
    BY <2>1, <2>2, <2>3, <2>4, <2>5 DEF parse
<1> QED
  BY <1>2, <1>3

LEMMA IInvAlways ==
    ASSUME CleanCuts = TRUE, ClientWaits = TRUE
    PROVE  Spec => []IInv
BY IInvInit, IInvStep, PTL DEF Spec

-----------------------------------------------------------------------------
(* Under those two hypotheses, whatever the clients send and however TCP cuts
   it between the fields: the members of the parser keep their types and
   their bounds, and what is left of the body never exceeds what was
   announced, the huge size_t of a negative length included. *)
THEOREM ParserTyped ==
    ASSUME CleanCuts = TRUE, ClientWaits = TRUE
    PROVE  Spec => []TypeOK
<1>1. IInv => TypeOK
  <2> SUFFICES ASSUME IInv PROVE TypeOK
    OBVIOUS
  <2>1. Counted /\ Fits
    BY DEF IInv
  <2>2. Len(Stream) \in Nat
    BY <2>1, Reaches
  <2> QED
    BY <2>1, <2>2 DEF Counted, Fits, States, TypeOK
<1> QED
  BY <1>1, IInvAlways, PTL

(* A request that parse finished is the one the client sent, field by field
   and with the body its length announced, and only a malformed one, or one
   that asks to wait with nothing to send, is refused. *)
THEOREM AnyCutAlways ==
    ASSUME CleanCuts = TRUE, ClientWaits = TRUE
    PROVE  Spec => []AnyCut
<1>1. IInv => AnyCut
  <2>1. Read(K) = [j \in 1..Len(request.headers) |->
              [name |-> Name(request.headers[j]), value |-> Value(request.headers[j])]]
    BY DEF Read, K
  <2> QED
    BY <2>1 DEF IInv, AnyCut, AllRead, Refused, Complete
<1> QED
  BY <1>1, IInvAlways, PTL

(* When every byte was delivered parse has come to a verdict, unless the body
   is shorter than announced: no connection waits for a byte that the client
   owes it nothing of. *)
THEOREM AllDecidedAlways ==
    ASSUME CleanCuts = TRUE, ClientWaits = TRUE
    PROVE  Spec => []AllDecided
<1>1. IInv => AllDecided
  <2> SUFFICES ASSUME IInv, delivered = Len(Stream), ~Over
               PROVE  /\ BodyAnnounced > request.sent
                      /\ status \in {"READ_BODY", "EXPECT_CONTINUE"}
    BY DEF AllDecided
  <2>1. Counted /\ request \in Request
    BY DEF IInv, Counted
  <2>2. /\ Stream \in Seq(Bytes) /\ delivered = HeaderLen + request.sent
        /\ HeaderLen \in Nat
        /\ request.sent \in Nat /\ delivered \in Nat /\ BodyAnnounced \in Nat
    BY <2>1, StreamBytes, AnnouncedIs
  <2>3. status \in {"READ_HEADER", "READ_BODY", "EXPECT_CONTINUE"}
    BY <2>1 DEF Over, Counted, Statuses
  <2>4. CASE status = "READ_HEADER"
    <3>1. InHeader
      BY <2>4 DEF IInv
    <3>2. Consumed \in Nat /\ Consumed < HeaderLen /\ Len(truncated) = delivered - Consumed
      <4>1. Consumed \in Nat /\ Consumed < HeaderLen
        BY <2>1, <3>1, BetweenInHeader DEF InHeader
      <4>2. Len(truncated) \in 0..delivered
        BY <3>1 DEF InHeader
      <4>3. Consumed = delivered - Len(truncated)
        BY DEF Consumed
      <4>4. delivered \in Nat
        BY <2>2
      <4> QED
        BY <4>1, <4>2, <4>3, <4>4
    <3>3. HeaderLen - Consumed \in 1..Len(truncated)
      BY <2>2, <3>2
    <3>4. truncated[HeaderLen - Consumed] = Stream[HeaderLen]
      <4> DEFINE c == Consumed
                 i == HeaderLen - Consumed
      <4>1. truncated = SubSeq(Stream, c + 1, delivered)
        BY <3>1 DEF InHeader
      <4>2. c \in Nat /\ c <= delivered /\ i \in 1..delivered - c /\ c + i = HeaderLen
        BY <2>2, <3>2, <3>3
      <4>3. delivered \in Nat /\ delivered <= Len(Stream) /\ Len(Stream) \in Nat
        BY <2>2
      <4>4. Stream \in Seq(Bytes)
        BY <2>2
      <4> HIDE DEF c, i
      <4>5. SubSeq(Stream, c + 1, delivered)[i] = Stream[c + i]
        BY <4>2, <4>3, <4>4
      <4> QED
        BY <4>1, <4>2, <4>5 DEF i
    <3>5. Stream[HeaderLen].kind = "LF"
      BY <2>1, KindsOfBytes
    <3> QED
      BY <3>1, <3>3, <3>4, <3>5 DEF InHeader, Breaks
  <2>5. CASE status = "READ_BODY"
    <3>1. body_expected = BodyAnnounced - (delivered - HeaderLen) /\ body_expected > 0
      BY <2>5 DEF IInv, InBody
    <3> QED
      BY <2>2, <2>5, <3>1
  <2>6. CASE status = "EXPECT_CONTINUE"
    <3>1. delivered = HeaderLen /\ BodyAnnounced > 0
      BY <2>6 DEF IInv, Asking
    <3> QED
      BY <2>2, <2>6, <3>1
  <2> QED
    BY <2>3, <2>4, <2>5, <2>6
<1> QED
  BY <1>1, IInvAlways, PTL
=============================================================================
