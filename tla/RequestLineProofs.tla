-------------------------- MODULE RequestLineProofs --------------------------
(***************************************************************************)
(* Proofs about RequestLine, for any request lines.  The parts of the URI  *)
(* are cut out at marks set many bytes apart; the invariant Cut says, of   *)
(* each state of the machine, what the bytes between the marks are, and    *)
(* so what they will be a part of once the target has ended.  TargetRead   *)
(* says of each state which of the grammar's rules the bytes taken so far  *)
(* follow, so that an accepted line is found legal without an induction    *)
(* over its bytes: the steps of the machine are that induction.  The last  *)
(* part is about query_string, which reads a whole query in one step: the  *)
(* places at which a client has joined it are the places it is cut at.     *)
(***************************************************************************)
EXTENDS RequestLine, WellFoundedInduction, TLAPS

t == sent.target

(* Where the target begins, and how much of it has been taken and marked. *)
Start  == Len(sent.method) + 1
Taking == p - Start
Marked == mark - Start
Asked  == query_start - Start

(* The first n bytes of s end neither a path nor a scheme. *)
InPath(s, n) == \A i \in 1..n : s[i] # "#" /\ s[i] # "?"
NoColon(s, n) == \A i \in 1..n : s[i] # ":" /\ s[i] # "/"

(* Of the first n bytes of s, k are a scheme with its colon.  Settled, it
   stays so whatever follows. *)
SchemeIs(s, k, n) == k \in 1..n /\ s[k] = ":" /\ NoColon(s, k - 1)
Settled(s, k, n) == \/ SchemeIs(s, k, n)
                    \/ k = 0 /\ \E j \in 1..n : s[j] = "/" /\ NoColon(s, j - 1)
Skips(s, k, n) == \/ Settled(s, k, n)
                  \/ k = 0 /\ NoColon(s, n)

(* The path of s is what is between k and q, and a query follows. *)
PathCut(s, k, q) == /\ q \in 1..Len(s) /\ s[q] = "?" /\ InPath(s, q - 1)
                    /\ k \in 0..q - 1 /\ Skips(s, k, q - 1)

NoHash(s, n) == \A i \in 1..n : s[i] # "#"

(* The fragment of s begins after h. *)
HashAt(s, h) == h \in 1..Len(s) /\ s[h] = "#" /\ NoHash(s, h - 1)

OfPath == {"slash", "path", "authority", "name", "port?", "user", "host", "regname", "port",
           "literal"}
OfTarget == {"target", "scheme", "noscheme", "hier", "query?", "query", "fragment?", "fragment"}
            \cup OfPath
OfVersion == {"version", "http", "cr", "line"}
OfEscape == {"noscheme", "path", "name", "user", "regname", "query", "fragment", "error"}

Cut ==
    /\ cs = "method" => p <= Len(sent.method) /\ mark = 0
    /\ cs \in OfTarget => Taking \in 0..Len(t)
    /\ cs \in {"method", "target", "scheme", "noscheme", "hier"} \cup OfPath => url = NoUrl
    /\ cs = "target" => Taking = 0
    /\ cs \in {"scheme", "noscheme"} => Marked = 0 /\ InPath(t, Taking) /\ NoColon(t, Taking)
    /\ cs = "hier" => InPath(t, Taking) /\ SchemeIs(t, Taking, Taking)
    /\ cs \in OfPath => /\ InPath(t, Taking) /\ Marked \in 0..Taking
                        /\ Settled(t, Marked, Taking)
    /\ cs = "query?" => /\ PathCut(t, Marked, Taking)
                        /\ url = [NoUrl EXCEPT !.path = SubSeq(t, Marked + 1, Taking - 1)]
    /\ cs = "query" => /\ PathCut(t, Marked, Asked) /\ Asked <= Taking /\ NoHash(t, Taking)
                       /\ url = [NoUrl EXCEPT !.path = SubSeq(t, Marked + 1, Asked - 1)]
    /\ cs = "fragment?" => HashAt(t, Taking)
    /\ cs = "fragment" => HashAt(t, Marked)
    /\ cs \in {"fragment?", "fragment"} => url = [Uri!Parts(t) EXCEPT !.fragment = <<>>]
    /\ cs \in OfVersion => url = Uri!Parts(t)
    /\ hex > 0 => cs \in OfEscape

LInv == sent \in RequestLineType /\ LineTypeOK /\ Cut

-----------------------------------------------------------------------------
(* The reference: where the first of some bytes is, and what the parts are. *)

LEMMA Least ==
    ASSUME NEW A \in SUBSET Nat, A # {}
    PROVE  \E i \in A : \A j \in A : i <= j
<1>1. PICK i \in A : \A j \in A : ~(<<j, i>> \in OpToRel(<, Nat))
  BY WFMin, NatLessThanWellFounded
<1>2. \A j \in Nat : <<j, i>> \in OpToRel(<, Nat) <=> j < i
  BY DEF OpToRel
<1>3. \A j \in A : i <= j
  <2> TAKE j \in A
  <2>1. ~(j < i)
    BY <1>1, <1>2
  <2> QED
    BY <2>1
<1> QED
  BY <1>3

LEMMA FirstIs ==
    ASSUME NEW s, Len(s) \in Nat, NEW bytes, NEW i \in 1..Len(s) + 1,
           i <= Len(s) => s[i] \in bytes, \A j \in 1..i - 1 : s[j] \notin bytes
    PROVE  Uri!First(s, bytes) = i
<1> DEFINE Is(x) == /\ x <= Len(s) => s[x] \in bytes
                    /\ \A j \in 1..x - 1 : s[j] \notin bytes
           first == CHOOSE x \in 1..Len(s) + 1 : Is(x)
<1>1. first \in 1..Len(s) + 1 /\ Is(first)
  <2>1. Is(i)
    OBVIOUS
  <2> HIDE DEF Is
  <2> QED
    BY <2>1
<1>2. first = i
  <2>1. first \in Int /\ i \in Int
    BY <1>1
  <2> HIDE DEF first
  <2>2. ~(first < i)
    BY <1>1, <2>1
  <2>3. ~(i < first)
    BY <1>1, <2>1
  <2> QED
    BY <2>1, <2>2, <2>3
<1> QED
  BY <1>2 DEF Uri!First

LEMMA FirstExists ==
    ASSUME NEW s, Len(s) \in Nat, NEW bytes
    PROVE  /\ Uri!First(s, bytes) \in 1..Len(s) + 1
           /\ Uri!First(s, bytes) <= Len(s) => s[Uri!First(s, bytes)] \in bytes
           /\ \A j \in 1..Uri!First(s, bytes) - 1 : s[j] \notin bytes
<1> DEFINE A == {i \in 1..Len(s) + 1 : i <= Len(s) => s[i] \in bytes}
<1>1. A \subseteq Nat /\ Len(s) + 1 \in A
  OBVIOUS
<1>2. PICK i \in A : \A j \in A : i <= j
  BY <1>1, Least
<1>3. /\ i \in 1..Len(s) + 1 /\ (i <= Len(s) => s[i] \in bytes)
      /\ \A j \in 1..i - 1 : s[j] \notin bytes
  <2>1. ASSUME NEW j \in 1..i - 1, s[j] \in bytes PROVE FALSE
    <3>1. j \in A /\ j < i /\ i \in Int
      BY <1>2, <2>1
    <3> QED
      BY <1>2, <3>1
  <2> QED
    BY <1>2, <2>1
<1>4. Uri!First(s, bytes) = i
  BY <1>3, FirstIs
<1> QED
  BY <1>3, <1>4

LEMMA Cutting ==
    ASSUME NEW S, NEW s \in Seq(S), NEW n \in 0..Len(s)
    PROVE  /\ SubSeq(s, 1, n) \in Seq(S) /\ Len(SubSeq(s, 1, n)) = n
           /\ \A i \in 1..n : SubSeq(s, 1, n)[i] = s[i]
           /\ \A a, b \in Nat : a >= 1 /\ b <= n =>
                 SubSeq(SubSeq(s, 1, n), a, b) = SubSeq(s, a, b)
<1>1. /\ SubSeq(s, 1, n) \in Seq(S) /\ Len(SubSeq(s, 1, n)) = n
      /\ \A i \in 1..n : SubSeq(s, 1, n)[i] = s[i]
  OBVIOUS
<1>2. ASSUME NEW a \in Nat, NEW b \in Nat, a >= 1, b <= n
      PROVE  SubSeq(SubSeq(s, 1, n), a, b) = SubSeq(s, a, b)
  BY <1>2, <1>1
<1> QED
  BY <1>1, <1>2

(* No colon stands before a slash exactly if nothing is skipped. *)
LEMMA SchemeOrNot ==
    ASSUME NEW s \in Seq(Byte), NEW k \in 0..Len(s), Skips(s, k, Len(s))
    PROVE  /\ Uri!Has(Uri!Before(s, {"/"}), ":") <=> k > 0
           /\ k > 0 => Uri!First(s, {":"}) = k
<1> DEFINE f == Uri!First(s, {"/"})
           b == Uri!Before(s, {"/"})
<1>1. /\ f \in 1..Len(s) + 1 /\ (f <= Len(s) => s[f] = "/")
      /\ \A j \in 1..f - 1 : s[j] # "/"
  BY FirstExists
<1>2. Len(b) = f - 1 /\ \A i \in 1..f - 1 : b[i] = s[i]
  <2>1. f - 1 \in 0..Len(s)
    BY <1>1
  <2> QED
    BY <2>1, Cutting DEF Uri!Before
<1>3. Uri!Has(b, ":") <=> \E i \in 1..f - 1 : s[i] = ":"
  BY <1>2 DEF Uri!Has
<1> HIDE DEF f, b
<1>4. CASE SchemeIs(s, k, Len(s))
  <2>1. k \in 1..Len(s) /\ s[k] = ":" /\ \A i \in 1..k - 1 : s[i] # ":" /\ s[i] # "/"
    BY <1>4 DEF SchemeIs, NoColon
  <2>2. ~(f <= k)
    <3>1. f # k
      BY <1>1, <2>1
    <3>2. ~(f < k)
      BY <1>1, <2>1
    <3> QED
      BY <1>1, <2>1, <3>1, <3>2
  <2>3. k \in 1..f - 1
    BY <1>1, <2>1, <2>2
  <2>4. Uri!First(s, {":"}) = k
    <3>1. s[k] \in {":"} /\ k \in 1..Len(s) + 1 /\ \A j \in 1..k - 1 : s[j] \notin {":"}
      BY <2>1
    <3> QED
      BY <3>1, FirstIs
  <2> QED
    BY <1>3, <2>1, <2>3, <2>4 DEF b
<1>5. CASE k = 0 /\ \E j \in 1..Len(s) : s[j] = "/" /\ NoColon(s, j - 1)
  <2>1. PICK j \in 1..Len(s) : s[j] = "/" /\ NoColon(s, j - 1)
    BY <1>5
  <2>2. f = j
    <3>1. /\ s[j] \in {"/"} /\ j \in 1..Len(s) + 1 /\ Len(s) \in Nat
          /\ \A i \in 1..j - 1 : s[i] \notin {"/"}
      BY <2>1 DEF NoColon
    <3> QED
      BY <3>1, FirstIs DEF f
  <2>3. \A i \in 1..f - 1 : s[i] # ":"
    BY <2>1, <2>2 DEF NoColon
  <2> QED
    BY <1>3, <1>5, <2>3 DEF b
<1>6. CASE k = 0 /\ NoColon(s, Len(s))
  <2>1. \A i \in 1..f - 1 : s[i] # ":"
    BY <1>1, <1>6 DEF NoColon
  <2> QED
    BY <1>3, <1>6, <2>1 DEF b
<1> QED
  BY <1>4, <1>5, <1>6 DEF Skips, Settled

(* What no more than the first n bytes of s decide is decided of them alone. *)
LEMMA SkipsOfPrefix ==
    ASSUME NEW s \in Seq(Byte), NEW x \in Seq(Byte), NEW n \in 0..Len(s), Len(x) = n,
           \A i \in 1..n : x[i] = s[i], NEW k \in 0..n, Skips(s, k, n)
    PROVE  Skips(x, k, n)
BY DEF Skips, Settled, SchemeIs, NoColon

LEMMA PartsAre ==
    ASSUME NEW s \in Seq(Byte), NEW h \in 1..Len(s) + 1, NEW q \in 1..h, NEW k \in 0..q - 1,
           h <= Len(s) => s[h] = "#", NoHash(s, h - 1),
           q < h => s[q] = "?", InPath(s, q - 1), Skips(s, k, q - 1)
    PROVE  /\ Uri!Parts(s) = [uri |-> SubSeq(s, k + 1, h - 1), path |-> SubSeq(s, k + 1, q - 1),
                              query |-> SubSeq(s, q + 1, h - 1),
                              fragment |-> SubSeq(s, h + 1, Len(s))]
           /\ Uri!HasScheme(s) <=> k > 0
           /\ k > 0 => Uri!Scheme(s) = SubSeq(s, 1, k - 1)
<1> DEFINE x == SubSeq(s, 1, h - 1)
           y == SubSeq(s, 1, q - 1)
<1>0. h - 1 \in 0..Len(s) /\ q - 1 \in 0..Len(s) /\ h - 1 \in Nat /\ q - 1 \in Nat /\ k + 1 \in Nat
  OBVIOUS
<1>1. /\ x \in Seq(Byte) /\ Len(x) = h - 1 /\ \A i \in 1..h - 1 : x[i] = s[i]
      /\ y \in Seq(Byte) /\ Len(y) = q - 1 /\ \A i \in 1..q - 1 : y[i] = s[i]
  BY <1>0, Cutting
<1>2. /\ \A a, b \in Nat : a >= 1 /\ b <= h - 1 => SubSeq(x, a, b) = SubSeq(s, a, b)
      /\ \A a, b \in Nat : a >= 1 /\ b <= q - 1 => SubSeq(y, a, b) = SubSeq(s, a, b)
  BY <1>0, Cutting
<1>3. Uri!First(s, {"#"}) = h
  BY FirstIs DEF NoHash
<1>4. Uri!NoFragment(s) = x
  BY <1>3 DEF Uri!NoFragment, Uri!Before
<1> HIDE DEF x, y
<1>5. Uri!First(x, {"?"}) = q
  <2>1. q \in 1..Len(x) + 1 /\ Len(x) \in Nat /\ (q <= Len(x) => x[q] \in {"?"})
    BY <1>1
  <2>2. \A j \in 1..q - 1 : x[j] \notin {"?"}
    BY <1>1 DEF InPath
  <2> QED
    BY <2>1, <2>2, FirstIs
<1>6. Uri!Hier(s) = y
  <2>1. SubSeq(x, 1, q - 1) = SubSeq(s, 1, q - 1)
    <3>1. q - 1 <= h - 1 /\ q - 1 \in Nat
      OBVIOUS
    <3>2. 1 \in Nat /\ 1 >= 1
      OBVIOUS
    <3>3. \A a \in Nat : a >= 1 => SubSeq(x, a, q - 1) = SubSeq(s, a, q - 1)
      BY <1>2, <3>1
    <3> QED
      BY <3>2, <3>3
  <2> QED
    BY <1>4, <1>5, <2>1 DEF Uri!Hier, Uri!Before, y
<1>7. Uri!HasScheme(s) <=> k > 0
  <2>1. Skips(y, k, q - 1)
    BY <1>0, <1>1, SkipsOfPrefix
  <2> QED
    BY <1>1, <1>6, <2>1, SchemeOrNot DEF Uri!HasScheme
<1>8. Uri!NoScheme(y, s) = SubSeq(s, k + 1, q - 1)
  <2>1. CASE k > 0
    <3>1. Skips(y, k, q - 1)
      BY <1>0, <1>1, SkipsOfPrefix
    <3>2. Uri!First(y, {":"}) = k
      BY <1>1, <2>1, <3>1, SchemeOrNot
    <3> QED
      BY <1>0, <1>1, <1>2, <1>7, <2>1, <3>2 DEF Uri!NoScheme, Uri!After
  <2>2. CASE k = 0
    BY <1>7, <2>2 DEF Uri!NoScheme, y
  <2> QED
    BY <2>1, <2>2
<1>9. Uri!NoScheme(x, s) = SubSeq(s, k + 1, h - 1)
  <2>1. CASE k > 0
    <3>1. s[k] = ":" /\ NoColon(s, k - 1) /\ k \in 1..h - 1
      BY <2>1 DEF Skips, Settled, SchemeIs
    <3>2. Uri!First(x, {":"}) = k
      <4>1. k \in 1..Len(x) + 1 /\ Len(x) \in Nat /\ x[k] \in {":"}
        BY <1>1, <3>1
      <4>2. \A j \in 1..k - 1 : x[j] \notin {":"}
        BY <1>1, <3>1 DEF NoColon
      <4> QED
        BY <4>1, <4>2, FirstIs
    <3> QED
      BY <1>0, <1>1, <1>2, <1>7, <2>1, <3>2 DEF Uri!NoScheme, Uri!After
  <2>2. CASE k = 0
    BY <1>7, <2>2 DEF Uri!NoScheme, x
  <2> QED
    BY <2>1, <2>2
<1>10. Uri!After(x, {"?"}) = SubSeq(s, q + 1, h - 1)
  BY <1>0, <1>1, <1>2, <1>5 DEF Uri!After
<1>11. Uri!After(s, {"#"}) = SubSeq(s, h + 1, Len(s))
  BY <1>3 DEF Uri!After
<1>12. ASSUME k > 0 PROVE Uri!Scheme(s) = SubSeq(s, 1, k - 1)
  <2>1. Skips(y, k, q - 1)
    BY <1>0, <1>1, SkipsOfPrefix
  <2>2. Uri!First(y, {":"}) = k
    BY <1>1, <1>12, <2>1, SchemeOrNot
  <2>3. k - 1 \in Nat /\ k - 1 <= q - 1 /\ 1 \in Nat /\ 1 >= 1
    BY <1>12
  <2> QED
    BY <1>2, <1>6, <2>2, <2>3 DEF Uri!Scheme, Uri!Before
<1> QED
  BY <1>4, <1>6, <1>7, <1>8, <1>9, <1>10, <1>11, <1>12 DEF Uri!Parts

-----------------------------------------------------------------------------
(* The bytes: which of them can end a scheme, a path, a query or a target. *)

Delims == {"#", "?", ":", "/", SP}

LEMMA Classes ==
    /\ \A b \in alpha : b \notin Delims
    /\ \A b \in digit : b \notin Delims
    /\ \A b \in xdigit : b \notin Delims
    /\ \A b \in unreserved : b \notin Delims
    /\ \A b \in sub_delims : b \notin Delims
    /\ \A b \in pchar : b \notin Delims \/ b = ":"
<1>1. ASSUME NEW b \in digit PROVE b \notin Delims
  BY Zenon DEF digit, Delims, SP
<1>2. ASSUME NEW b \in upper PROVE b \notin Delims
  BY Zenon DEF upper, Delims, SP
<1>3. ASSUME NEW b \in lower PROVE b \notin Delims
  BY Zenon DEF lower, Delims, SP
<1>4. ASSUME NEW b \in sub_delims PROVE b \notin Delims
  BY Zenon DEF sub_delims, Delims, SP
<1>5. ASSUME NEW b \in {"-", ".", "_", "~", "@"} PROVE b \notin Delims
  BY Zenon DEF Delims, SP
<1>6. ASSUME NEW b \in {"A", "B", "C", "D", "E", "F", "a", "b", "c", "d", "e", "f"}
      PROVE  b \notin Delims
  BY Zenon DEF Delims, SP
<1>7. \A b \in alpha : b \notin Delims
  BY <1>2, <1>3 DEF alpha
<1>8. \A b \in unreserved : b \notin Delims
  BY <1>1, <1>5, <1>7 DEF unreserved
<1>9. \A b \in pchar : b \notin Delims \/ b = ":"
  BY <1>4, <1>5, <1>8 DEF pchar
<1> QED
  BY <1>1, <1>4, <1>6, <1>7, <1>8, <1>9 DEF xdigit

LEMMA Spaces == SP \notin {"#", "?", ":", "/", "%", "@", "[", "]", "+", "-", ".", "_", "~"}
BY Zenon DEF SP

-----------------------------------------------------------------------------
(* The line: where its parts are. *)

LEMMA Cat ==
    ASSUME NEW S, NEW a \in Seq(S), NEW b \in Seq(S)
    PROVE  /\ a \o b \in Seq(S) /\ Len(a \o b) = Len(a) + Len(b)
           /\ Len(a) \in Nat /\ Len(b) \in Nat
           /\ \A i \in 1..Len(a) : (a \o b)[i] = a[i]
           /\ \A i \in 1..Len(b) : (a \o b)[Len(a) + i] = b[i]
OBVIOUS

LEMMA One ==
    ASSUME NEW S, NEW a \in Seq(S), NEW x \in S
    PROVE  /\ a \o <<x>> \in Seq(S) /\ Len(a \o <<x>>) = Len(a) + 1 /\ Len(a) \in Nat
           /\ \A i \in 1..Len(a) : (a \o <<x>>)[i] = a[i]
           /\ (a \o <<x>>)[Len(a) + 1] = x
<1>1. <<x>> \in Seq(S) /\ Len(<<x>>) = 1 /\ <<x>>[1] = x
  OBVIOUS
<1> QED
  BY <1>1, Cat

Joining(a, x, b, y, e, z) == a \o <<x>> \o b \o <<y>> \o e \o <<z>>

LEMMA Joined ==
    ASSUME NEW a \in Seq(Byte), NEW b \in Seq(Byte), NEW e \in Seq(Byte),
           NEW x \in Byte, NEW y \in Byte, NEW z \in Byte
    PROVE  /\ Joining(a, x, b, y, e, z) \in Seq(Byte)
           /\ Len(Joining(a, x, b, y, e, z)) = Len(a) + Len(b) + Len(e) + 3
           /\ \A i \in 1..Len(a) : Joining(a, x, b, y, e, z)[i] = a[i]
           /\ Joining(a, x, b, y, e, z)[Len(a) + 1] = x
           /\ \A i \in 1..Len(b) : Joining(a, x, b, y, e, z)[Len(a) + 1 + i] = b[i]
           /\ Joining(a, x, b, y, e, z)[Len(a) + 1 + Len(b) + 1] = y
<1> DEFINE l == Joining(a, x, b, y, e, z)
           l1 == a \o <<x>>
           l2 == l1 \o b
           l3 == l2 \o <<y>>
           l4 == l3 \o e
           m  == Len(a)
           n  == Len(b)
<1>1. /\ l1 \in Seq(Byte) /\ Len(l1) = m + 1 /\ m \in Nat /\ \A i \in 1..m : l1[i] = a[i]
      /\ l1[m + 1] = x
  BY One
<1> HIDE DEF l1
<1>2. /\ l2 \in Seq(Byte) /\ Len(l2) = Len(l1) + n /\ n \in Nat
      /\ \A i \in 1..Len(l1) : l2[i] = l1[i]
      /\ \A i \in 1..n : l2[Len(l1) + i] = b[i]
  <2>1. l1 \in Seq(Byte)
    BY <1>1
  <2> QED
    BY <2>1, Cat
<1> HIDE DEF l2
<1>3. /\ l3 \in Seq(Byte) /\ Len(l3) = Len(l2) + 1
      /\ \A i \in 1..Len(l2) : l3[i] = l2[i]
      /\ l3[Len(l2) + 1] = y
  <2>1. l2 \in Seq(Byte)
    BY <1>2
  <2> QED
    BY <2>1, One
<1> HIDE DEF l3
<1>4. /\ l4 \in Seq(Byte) /\ Len(l4) = Len(l3) + Len(e) /\ Len(e) \in Nat
      /\ \A i \in 1..Len(l3) : l4[i] = l3[i]
  BY <1>3, Cat
<1>5. l = l4 \o <<z>>
  BY DEF Joining, l1, l2, l3
<1> HIDE DEF l, l4, m, n
<1>6. /\ l \in Seq(Byte) /\ Len(l) = Len(l4) + 1
      /\ \A i \in 1..Len(l4) : l[i] = l4[i]
  <2>1. l4 \in Seq(Byte)
    BY <1>4
  <2>2. /\ l4 \o <<z>> \in Seq(Byte) /\ Len(l4 \o <<z>>) = Len(l4) + 1
        /\ \A i \in 1..Len(l4) : (l4 \o <<z>>)[i] = l4[i]
    BY <2>1, One
  <2> QED
    BY <2>2, <1>5
<1>7. /\ Len(l1) = m + 1 /\ Len(l2) = m + 1 + n /\ Len(l3) = m + 1 + n + 1
      /\ Len(l4) = m + 1 + n + 1 + Len(e) /\ Len(l) = m + n + Len(e) + 3
      /\ m \in Nat /\ n \in Nat /\ Len(e) \in Nat
  BY <1>1, <1>2, <1>3, <1>4, <1>6
<1>8. ASSUME NEW i \in 1..m + 1 + n + 1
      PROVE  /\ l[i] = l3[i]
             /\ i <= m + 1 + n => l3[i] = l2[i]
             /\ i <= m + 1 => l2[i] = l1[i]
  <2>1. i \in Nat /\ i \in 1..Len(l3) /\ i \in 1..Len(l4)
    BY <1>7
  <2>2. l[i] = l3[i]
    BY <1>4, <1>6, <2>1
  <2>3. i <= m + 1 + n => l3[i] = l2[i]
    BY <1>3, <1>7, <2>1
  <2>4. i <= m + 1 => l2[i] = l1[i]
    BY <1>2, <1>7, <2>1
  <2> QED
    BY <2>2, <2>3, <2>4
<1>9. \A i \in 1..m : l[i] = a[i]
  <2> TAKE i \in 1..m
  <2>1. i <= m + 1 /\ i <= m + 1 + n /\ i \in 1..m + 1 + n + 1
    BY <1>7
  <2> QED
    BY <1>1, <1>8, <2>1
<1>10. l[m + 1] = x
  <2>1. m + 1 \in 1..m + 1 + n + 1 /\ m + 1 <= m + 1 + n /\ m + 1 <= m + 1
    BY <1>7
  <2> QED
    BY <1>1, <1>8, <2>1
<1>11. \A i \in 1..n : l[m + 1 + i] = b[i]
  <2> TAKE i \in 1..n
  <2>1. m + 1 + i <= m + 1 + n /\ m + 1 + i \in 1..m + 1 + n + 1
    BY <1>7
  <2> QED
    BY <1>2, <1>7, <1>8, <2>1
<1>12. l[m + 1 + n + 1] = y
  <2>1. m + 1 + n + 1 \in 1..m + 1 + n + 1
    BY <1>7
  <2> QED
    BY <1>3, <1>8, <2>1, <1>7, SMT
<1> QED
  BY <1>6, <1>7, <1>9, <1>10, <1>11, <1>12 DEF l, m, n

LEMMA Shape ==
    ASSUME sent \in RequestLineType
    PROVE  /\ Line \in Seq(Byte) /\ Len(Line) \in Nat /\ Start + Len(t) < Len(Line)
           /\ t \in Seq(Byte) /\ Len(t) \in Nat /\ Start \in Nat /\ Start = Len(sent.method) + 1
           /\ Len(sent.method) \in Nat
           /\ \A i \in 1..Len(sent.method) : Line[i] # SP
           /\ Line[Start] = SP
           /\ \A i \in 1..Len(t) : Line[Start + i] = t[i] /\ t[i] # SP
           /\ Line[Start + Len(t) + 1] = SP
<1> DEFINE a == sent.method
           b == sent.target
           e == sent.version
           z == sent.eol
<1>1. /\ a \in Seq(Byte \ {SP}) /\ b \in Seq(Byte \ {SP}) /\ e \in Seq(Byte) /\ z \in {"CR", "LF"}
  BY DEF RequestLineType
<1>2. SP \in Byte /\ "CR" \in Byte /\ "LF" \in Byte
  BY DEF Byte
<1>3. /\ a \in Seq(Byte) /\ \A i \in 1..Len(a) : a[i] # SP
      /\ b \in Seq(Byte) /\ \A i \in 1..Len(b) : b[i] # SP
      /\ Len(a) \in Nat /\ Len(b) \in Nat /\ Len(e) \in Nat /\ e \in Seq(Byte)
  BY <1>1
<1>4. Line = Joining(a, SP, b, SP, e, z)
  BY DEF Line, Joining
<1>5. z \in Byte
  BY <1>1, <1>2
<1>6. /\ Line \in Seq(Byte) /\ Len(Line) = Len(a) + Len(b) + Len(e) + 3
      /\ \A i \in 1..Len(a) : Line[i] = a[i]
      /\ Line[Len(a) + 1] = SP
      /\ \A i \in 1..Len(b) : Line[Len(a) + 1 + i] = b[i]
      /\ Line[Len(a) + 1 + Len(b) + 1] = SP
  <2> HIDE DEF a, b, e, z
  <2> QED
    <3>1. a \in Seq(Byte) /\ b \in Seq(Byte) /\ e \in Seq(Byte) /\ SP \in Byte /\ z \in Byte
      BY <1>2, <1>3, <1>5
    <3> DEFINE l == Joining(a, SP, b, SP, e, z)
    <3>2. l \in Seq(Byte) /\ Len(l) = Len(a) + Len(b) + Len(e) + 3
      BY <3>1, Joined
    <3>3. l[Len(a) + 1] = SP /\ l[Len(a) + 1 + Len(b) + 1] = SP
      BY <3>1, Joined
    <3>4. \A i \in 1..Len(a) : l[i] = a[i]
      BY <3>1, Joined, SMTT(60)
    <3>5. \A i \in 1..Len(b) : l[Len(a) + 1 + i] = b[i]
      BY <3>1, Joined, SMTT(60)
    <3> QED
      BY <3>2, <3>3, <3>4, <3>5, <1>4
<1>7. Start = Len(a) + 1 /\ t = b /\ sent.method = a
  BY DEF Start, t
<1> HIDE DEF a, b, e, z
<1>8. Start \in Nat /\ Start + Len(b) < Len(Line) /\ Len(Line) \in Nat
  BY <1>3, <1>6, <1>7
<1> QED
  BY <1>3, <1>6, <1>7, <1>8

LEMMA Sub ==
    ASSUME NEW S, NEW s \in Seq(S), NEW a \in 1..Len(s) + 1, NEW b \in a - 1..Len(s)
    PROVE  /\ SubSeq(s, a, b) \in Seq(S) /\ Len(SubSeq(s, a, b)) = b - a + 1
           /\ \A i \in 1..b - a + 1 : SubSeq(s, a, b)[i] = s[a + i - 1]
OBVIOUS

LEMMA SamePiece ==
    ASSUME NEW S, NEW l \in Seq(S), NEW s \in Seq(S), NEW d \in Nat, d + Len(s) <= Len(l),
           \A i \in 1..Len(s) : l[d + i] = s[i], NEW b \in 0..Len(s), NEW a \in 0..b
    PROVE  SubSeq(l, d + a + 1, d + b) = SubSeq(s, a + 1, b)
<1> DEFINE x == SubSeq(l, d + a + 1, d + b)
           y == SubSeq(s, a + 1, b)
<1>1. x \in Seq(S) /\ Len(x) = b - a /\ \A i \in 1..b - a : x[i] = l[d + a + i]
  <2>1. /\ d + a + 1 \in 1..Len(l) + 1 /\ d + b \in (d + a + 1) - 1..Len(l)
        /\ (d + b) - (d + a + 1) + 1 = b - a
    OBVIOUS
  <2>2. /\ x \in Seq(S) /\ Len(x) = b - a
        /\ \A i \in 1..b - a : x[i] = l[(d + a + 1) + i - 1]
    BY <2>1, Sub
  <2>3. \A i \in 1..b - a : (d + a + 1) + i - 1 = d + a + i
    OBVIOUS
  <2> QED
    BY <2>2, <2>3
<1>2. y \in Seq(S) /\ Len(y) = b - a /\ \A i \in 1..b - a : y[i] = s[a + i]
  <2>1. a + 1 \in 1..Len(s) + 1 /\ b \in (a + 1) - 1..Len(s) /\ b - (a + 1) + 1 = b - a
    OBVIOUS
  <2>2. /\ y \in Seq(S) /\ Len(y) = b - a
        /\ \A i \in 1..b - a : y[i] = s[(a + 1) + i - 1]
    BY <2>1, Sub
  <2>3. \A i \in 1..b - a : (a + 1) + i - 1 = a + i
    OBVIOUS
  <2> QED
    BY <2>2, <2>3
<1> HIDE DEF x, y
<1>3. ASSUME NEW i \in 1..b - a PROVE x[i] = y[i]
  <2>1. a + i \in 1..Len(s) /\ d + a + i = d + (a + i)
    OBVIOUS
  <2> QED
    BY <1>1, <1>2, <2>1
<1>4. x = y
  BY <1>1, <1>2, <1>3
<1> QED
  BY <1>4 DEF x, y

LEMMA Types ==
    ASSUME LineTypeOK
    PROVE  /\ p \in 0..Len(Line) /\ cs \in States
           /\ hex \in 0..2 /\ mark \in 0..p /\ query_start \in 0..p
           /\ url \in [{"uri", "path", "query", "fragment"} -> Seq(Byte)]
BY Zenon DEF LineTypeOK

LEMMA Numbers ==
    ASSUME LInv
    PROVE  /\ p \in Nat /\ mark \in Nat /\ query_start \in Nat /\ Start \in Nat /\ Len(t) \in Nat
           /\ Taking \in Int /\ Marked \in Int /\ Asked \in Int /\ Len(Line) \in Nat
           /\ p = Start + Taking /\ mark = Start + Marked /\ query_start = Start + Asked
<1>1. Start \in Nat /\ Len(t) \in Nat /\ Len(Line) \in Nat
  BY Shape DEF LInv
<1>2. p \in Nat /\ mark \in Nat /\ query_start \in Nat
  BY <1>1, Types DEF LInv
<1> QED
  BY <1>1, <1>2 DEF Taking, Marked, Asked

(* The byte being taken, seen from the target. *)
LEMMA Here ==
    ASSUME LInv, cs \in OfTarget
    PROVE  /\ Taking \in 0..Len(t) /\ p < Len(Line)
           /\ c = SP <=> Taking = Len(t)
           /\ Taking < Len(t) => t[Taking + 1] = c
<1>1. Taking \in 0..Len(t)
  BY DEF LInv, Cut
<1>2. p = Start + Taking /\ p \in Nat /\ Start \in Nat /\ Len(t) \in Nat /\ Taking \in Nat
  BY <1>1, Numbers
<1>3. /\ Start + Len(t) < Len(Line) /\ Len(Line) \in Nat
      /\ \A i \in 1..Len(t) : Line[Start + i] = t[i] /\ t[i] # SP
      /\ Line[Start + Len(t) + 1] = SP
  BY Shape DEF LInv
<1>4. c = Line[Start + (Taking + 1)]
  <2>1. p + 1 = Start + (Taking + 1)
    BY <1>2
  <2> QED
    BY <2>1 DEF c
<1>5. CASE Taking = Len(t)
  BY <1>2, <1>3, <1>4, <1>5
<1>6. CASE Taking < Len(t)
  <2>1. Taking + 1 \in 1..Len(t)
    BY <1>2, <1>6
  <2> QED
    BY <1>1, <1>2, <1>3, <1>4, <1>6, <2>1
<1> QED
  BY <1>1, <1>2, <1>5, <1>6

LEMMA Piece ==
    ASSUME LInv, Taking \in 0..Len(t), NEW k \in 0..Taking
    PROVE  From(Start + k) = SubSeq(t, k + 1, Taking)
<1>1. p = Start + Taking /\ Start \in Nat /\ Len(t) \in Nat
  BY Numbers
<1>2. /\ Line \in Seq(Byte) /\ t \in Seq(Byte) /\ Start + Len(t) <= Len(Line)
      /\ \A i \in 1..Len(t) : Line[Start + i] = t[i]
  BY Shape DEF LInv
<1>3. SubSeq(Line, Start + k + 1, Start + Taking) = SubSeq(t, k + 1, Taking)
  BY <1>1, <1>2, SamePiece
<1> QED
  BY <1>1, <1>3 DEF From

(* A byte of the target is taken. *)
LEMMA OneMore ==
    ASSUME LInv, cs \in OfTarget, c # SP, sent' = sent, p' = p + 1
    PROVE  /\ Taking' = Taking + 1 /\ Taking' \in 1..Len(t) /\ Taking \in 0..Len(t)
           /\ t[Taking'] = c /\ t' = t /\ Start' = Start
           /\ mark' = mark => Marked' = Marked
           /\ query_start' = query_start => Asked' = Asked
           /\ mark' = p => Marked' = Taking
           /\ query_start' = p => Asked' = Taking
<1>1. Taking \in 0..Len(t) /\ Taking # Len(t) /\ (Taking < Len(t) => t[Taking + 1] = c)
  BY Here
<1>2. t' = t /\ Start' = Start
  BY DEF t, Start
<1>3. p \in Nat /\ Start \in Nat /\ Len(t) \in Nat
  BY Numbers
<1>4. Taking' = Taking + 1
  BY <1>2, <1>3 DEF Taking
<1>5. Taking + 1 \in 1..Len(t) /\ t[Taking + 1] = c
  BY <1>1, <1>3
<1>6. /\ mark' = mark => Marked' = Marked
      /\ query_start' = query_start => Asked' = Asked
      /\ mark' = p => Marked' = Taking
      /\ query_start' = p => Asked' = Taking
  BY <1>2 DEF Marked, Asked, Taking
<1> QED
  BY <1>1, <1>2, <1>4, <1>5, <1>6

-----------------------------------------------------------------------------
(* What has to hold where a step goes to. *)

LEMMA ToPathStart ==
    ASSUME sent' = sent, cs' \in {"scheme", "noscheme"}, Taking' \in 0..Len(t), url' = NoUrl,
           Marked' = 0, InPath(t, Taking'), NoColon(t, Taking'),
           hex' > 0 => cs' = "noscheme"
    PROVE  Cut'
<1>1. t' = t
  BY DEF t
<1> QED
  BY <1>1 DEF Cut, InPath, NoColon, OfTarget, OfPath, OfVersion, OfEscape

LEMMA ToHier ==
    ASSUME sent' = sent, cs' = "hier", Taking' \in 0..Len(t), url' = NoUrl, hex' = 0,
           InPath(t, Taking'), SchemeIs(t, Taking', Taking')
    PROVE  Cut'
<1>1. t' = t
  BY DEF t
<1> QED
  BY <1>1 DEF Cut, InPath, SchemeIs, NoColon, OfTarget, OfPath, OfVersion

LEMMA ToPath ==
    ASSUME sent' = sent, cs' \in OfPath, Taking' \in 0..Len(t), url' = NoUrl,
           InPath(t, Taking'), Marked' \in 0..Taking', Settled(t, Marked', Taking'),
           hex' > 0 => cs' \in OfEscape
    PROVE  Cut'
<1>1. t' = t
  BY DEF t
<1> QED
  BY <1>1 DEF Cut, InPath, Settled, SchemeIs, NoColon, OfTarget, OfPath, OfVersion

LEMMA ToQueryStart ==
    ASSUME sent' = sent, cs' = "query?", Taking' \in 0..Len(t), hex' = 0,
           PathCut(t, Marked', Taking'),
           url' = [NoUrl EXCEPT !.path = SubSeq(t, Marked' + 1, Taking' - 1)]
    PROVE  Cut'
<1>1. t' = t
  BY DEF t
<1> QED
  BY <1>1 DEF Cut, PathCut, InPath, Skips, Settled, SchemeIs, NoColon, OfTarget, OfPath, OfVersion,
     NoUrl

LEMMA ToQuery ==
    ASSUME sent' = sent, cs' = "query", Taking' \in 0..Len(t),
           PathCut(t, Marked', Asked'), Asked' <= Taking', NoHash(t, Taking'),
           url' = [NoUrl EXCEPT !.path = SubSeq(t, Marked' + 1, Asked' - 1)]
    PROVE  Cut'
<1>1. t' = t
  BY DEF t
<1> QED
  BY <1>1 DEF Cut, PathCut, InPath, Skips, Settled, SchemeIs, NoColon, NoHash, OfTarget, OfPath,
     OfVersion, OfEscape, NoUrl

LEMMA SameParts ==
    ASSUME sent' = sent
    PROVE  t' = t /\ Uri!Parts(t)' = Uri!Parts(t)
BY DEF t, Uri!Parts, Uri!NoScheme, Uri!NoFragment, Uri!Hier, Uri!HasScheme, Uri!Has,
   Uri!Before, Uri!After, Uri!First

LEMMA ToHash ==
    ASSUME sent' = sent, cs' = "fragment?", Taking' \in 0..Len(t), hex' = 0, HashAt(t, Taking'),
           url' = [Uri!Parts(t) EXCEPT !.fragment = <<>>]
    PROVE  Cut'
BY SameParts DEF Cut, HashAt, NoHash, OfTarget, OfPath, OfVersion

LEMMA ToFragment ==
    ASSUME sent' = sent, cs' = "fragment", Taking' \in 0..Len(t), HashAt(t, Marked'),
           url' = [Uri!Parts(t) EXCEPT !.fragment = <<>>]
    PROVE  Cut'
BY SameParts DEF Cut, HashAt, NoHash, OfTarget, OfPath, OfVersion, OfEscape

LEMMA ToVersion ==
    ASSUME sent' = sent, cs' \in OfVersion, hex' = 0, url' = Uri!Parts(t)
    PROVE  Cut'
BY SameParts DEF Cut, OfTarget, OfPath, OfVersion

LEMMA ToError ==
    ASSUME cs' = "error"
    PROVE  Cut'
BY DEF Cut, OfTarget, OfPath, OfVersion, OfEscape

-----------------------------------------------------------------------------
(* The steps, from the end of the path on. *)

BeforeEnd == {"target", "scheme", "noscheme", "hier"} \cup OfPath

LEMMA OnlyPath ==
    ASSUME NEW x
    PROVE  [NoUrl EXCEPT !.path = x, !.uri = x]
              = [uri |-> x, path |-> x, query |-> <<>>, fragment |-> <<>>]
<1>1. [NoUrl EXCEPT !.path = x, !.uri = x] = [[NoUrl EXCEPT !.path = x] EXCEPT !.uri = x]
  BY SMT
<1>2. [NoUrl EXCEPT !.path = x] = [uri |-> <<>>, path |-> x, query |-> <<>>, fragment |-> <<>>]
  BY Z3 DEF NoUrl
<1>3. [[uri |-> <<>>, path |-> x, query |-> <<>>, fragment |-> <<>>] EXCEPT !.uri = x]
         = [uri |-> x, path |-> x, query |-> <<>>, fragment |-> <<>>]
  BY Z3
<1> QED
  BY <1>1, <1>2, <1>3, Zenon

(* The parts of s, when it ends where its path or its query does, and just
   before its fragment. *)
LEMMA EndOfPath ==
    ASSUME NEW s \in Seq(Byte), NEW k \in 0..Len(s), InPath(s, Len(s)), Skips(s, k, Len(s))
    PROVE  Uri!Parts(s) = [NoUrl EXCEPT !.path = SubSeq(s, k + 1, Len(s)),
                                        !.uri  = SubSeq(s, k + 1, Len(s))]
<1> DEFINE h == Len(s) + 1
<1>1. h \in 1..Len(s) + 1 /\ h \in 1..h /\ k \in 0..h - 1 /\ h - 1 = Len(s) /\ ~(h <= Len(s))
  OBVIOUS
<1>2. NoHash(s, h - 1) /\ InPath(s, h - 1) /\ Skips(s, k, h - 1)
  BY <1>1 DEF NoHash, InPath
<1>3. Uri!Parts(s) = [uri |-> SubSeq(s, k + 1, h - 1), path |-> SubSeq(s, k + 1, h - 1),
                      query |-> SubSeq(s, h + 1, h - 1), fragment |-> SubSeq(s, h + 1, Len(s))]
  <2>1. (h <= Len(s) => s[h] = "#") /\ (h < h => s[h] = "?")
    BY <1>1
  <2> HIDE DEF h
  <2> QED
    BY <1>1, <1>2, <2>1, PartsAre
<1>4. SubSeq(s, h + 1, h - 1) = <<>> /\ SubSeq(s, h + 1, Len(s)) = <<>>
  OBVIOUS
<1>5. h - 1 = Len(s)
  OBVIOUS
<1> HIDE DEF h
<1> QED
  BY <1>3, <1>4, <1>5, OnlyPath

LEMMA EndAtHash ==
    ASSUME NEW s \in Seq(Byte), NEW h \in 1..Len(s), s[h] = "#", InPath(s, h - 1),
           NEW k \in 0..h - 1, Skips(s, k, h - 1)
    PROVE  [Uri!Parts(s) EXCEPT !.fragment = <<>>]
              = [NoUrl EXCEPT !.path = SubSeq(s, k + 1, h - 1), !.uri = SubSeq(s, k + 1, h - 1)]
<1>1. h \in 1..Len(s) + 1 /\ h \in 1..h /\ NoHash(s, h - 1) /\ ~(h < h)
  BY DEF NoHash, InPath
<1>2. Uri!Parts(s) = [uri |-> SubSeq(s, k + 1, h - 1), path |-> SubSeq(s, k + 1, h - 1),
                      query |-> SubSeq(s, h + 1, h - 1), fragment |-> SubSeq(s, h + 1, Len(s))]
  BY <1>1, PartsAre
<1>3. SubSeq(s, h + 1, h - 1) = <<>>
  OBVIOUS
<1> DEFINE u == SubSeq(s, k + 1, h - 1)
           y == SubSeq(s, h + 1, Len(s))
<1>4. [[uri |-> u, path |-> u, query |-> <<>>, fragment |-> y] EXCEPT !.fragment = <<>>]
        = [uri |-> u, path |-> u, query |-> <<>>, fragment |-> <<>>]
  <2> HIDE DEF u, y
  <2> QED
    BY Z3
<1> QED
  BY <1>2, <1>3, <1>4, OnlyPath

LEMMA PathEndsCut ==
    ASSUME LInv, Reading, cs \in BeforeEnd, hex = 0, InPath(t, Taking),
           NEW k \in 0..Taking, Skips(t, k, Taking), PathEnds(Start + k)
    PROVE  Cut'
<1>1. /\ Taking \in 0..Len(t) /\ (c = SP <=> Taking = Len(t))
      /\ Taking < Len(t) => t[Taking + 1] = c
      /\ cs \in OfTarget
  <2>1. cs \in OfTarget
    BY DEF BeforeEnd, OfTarget
  <2> QED
    BY <2>1, Here
<1>2. From(Start + k) = SubSeq(t, k + 1, Taking)
  BY <1>1, Piece
<1>3. url = NoUrl
  BY DEF LInv, Cut, BeforeEnd
<1>4. sent' = sent /\ hex' = 0 /\ p' = p + 1 /\ mark' = Start + k
  BY DEF PathEnds, Reading, Taken
<1>5. t \in Seq(Byte) /\ Len(t) \in Nat /\ Start \in Nat
  BY Shape DEF LInv
<1>6. CASE c = SP
  <2>1. /\ cs' = "version"
        /\ url' = [NoUrl EXCEPT !.path = SubSeq(t, k + 1, Taking), !.uri = SubSeq(t, k + 1, Taking)]
    BY <1>2, <1>3, <1>6, Spaces DEF PathEnds, Taken
  <2>2. url' = Uri!Parts(t)
    BY <1>1, <1>5, <1>6, <2>1, EndOfPath
  <2> QED
    BY <1>4, <2>1, <2>2, ToVersion DEF OfVersion
<1>7. CASE c # SP
  <2>1. /\ Taking' = Taking + 1 /\ Taking' \in 1..Len(t) /\ t[Taking'] = c
        /\ Start' = Start /\ Taking \in Nat
    BY <1>1, <1>4, <1>7, OneMore
  <2>2. Marked' = k
    BY <1>4, <1>5, <2>1 DEF Marked
  <2> DEFINE n == Taking'
  <2>3. n - 1 = Taking /\ n \in 1..Len(t) /\ n \in 0..Len(t)
    BY <2>1
  <2>4. InPath(t, n - 1) /\ Skips(t, k, n - 1) /\ k \in 0..n - 1
    BY <2>3
  <2>5. CASE c = "#"
    <3>1. /\ cs' = "fragment?"
          /\ url' = [NoUrl EXCEPT !.path = SubSeq(t, k + 1, n - 1), !.uri = SubSeq(t, k + 1, n - 1)]
      BY <1>2, <1>3, <2>3, <2>5, Spaces DEF PathEnds, Taken
    <3>2. HashAt(t, n)
      BY <2>1, <2>3, <2>4, <2>5 DEF HashAt, NoHash, InPath
    <3>3. url' = [Uri!Parts(t) EXCEPT !.fragment = <<>>]
      <4>1. t[n] = "#"
        BY <2>1, <2>5
      <4> HIDE DEF n
      <4> QED
        BY <1>5, <2>3, <2>4, <3>1, <4>1, EndAtHash
    <3> QED
      BY <1>4, <2>3, <3>1, <3>2, <3>3, ToHash
  <2>6. CASE c = "?"
    <3>1. cs' = "query?" /\ url' = [NoUrl EXCEPT !.path = SubSeq(t, k + 1, n - 1)]
      BY <1>2, <1>3, <2>3, <2>6, Spaces DEF PathEnds, Taken
    <3>2. PathCut(t, k, n)
      BY <2>1, <2>3, <2>4, <2>6 DEF PathCut
    <3> QED
      BY <1>4, <2>2, <2>3, <3>1, <3>2, ToQueryStart
  <2> QED
    BY <1>7, <2>5, <2>6 DEF PathEnds
<1> QED
  BY <1>6, <1>7

LEMMA PathAndQuery ==
    ASSUME NEW u, NEW x, NEW v
    PROVE  [[NoUrl EXCEPT !.path = x] EXCEPT !.query = v, !.uri = u]
              = [uri |-> u, path |-> x, query |-> v, fragment |-> <<>>]
<1> DEFINE r == [NoUrl EXCEPT !.path = x]
<1>1. r = [uri |-> <<>>, path |-> x, query |-> <<>>, fragment |-> <<>>]
  BY Z3 DEF NoUrl
<1>2. [[uri |-> <<>>, path |-> x, query |-> <<>>, fragment |-> <<>>] EXCEPT !.query = v]
         = [uri |-> <<>>, path |-> x, query |-> v, fragment |-> <<>>]
  BY Z3
<1>3. [[uri |-> <<>>, path |-> x, query |-> v, fragment |-> <<>>] EXCEPT !.uri = u]
         = [uri |-> u, path |-> x, query |-> v, fragment |-> <<>>]
  BY Z3
<1> HIDE DEF r
<1>4. [r EXCEPT !.query = v, !.uri = u] = [[r EXCEPT !.query = v] EXCEPT !.uri = u]
  BY SMT
<1> QED
  BY <1>1, <1>2, <1>3, <1>4, Zenon DEF r

LEMMA FragmentOf ==
    ASSUME NEW s \in Seq(Byte), NEW h, HashAt(s, h)
    PROVE  [[Uri!Parts(s) EXCEPT !.fragment = <<>>] EXCEPT !.fragment = SubSeq(s, h + 1, Len(s))]
              = Uri!Parts(s)
<1>1. Uri!First(s, {"#"}) = h
  <2>1. h \in 1..Len(s) + 1 /\ Len(s) \in Nat /\ s[h] \in {"#"}
    BY DEF HashAt
  <2>2. \A j \in 1..h - 1 : s[j] \notin {"#"}
    BY DEF HashAt, NoHash
  <2> QED
    BY <2>1, <2>2, FirstIs
<1>2. Uri!After(s, {"#"}) = SubSeq(s, h + 1, Len(s))
  BY <1>1 DEF Uri!After
<1> DEFINE u == Uri!NoScheme(Uri!NoFragment(s), s)
           x == Uri!NoScheme(Uri!Hier(s), s)
           v == Uri!After(Uri!NoFragment(s), {"?"})
           y == SubSeq(s, h + 1, Len(s))
<1>3. Uri!Parts(s) = [uri |-> u, path |-> x, query |-> v, fragment |-> y]
  BY <1>2, Zenon DEF Uri!Parts
<1> HIDE DEF u, x, v, y
<1>4. /\ [[uri |-> u, path |-> x, query |-> v, fragment |-> y] EXCEPT !.fragment = <<>>]
            = [uri |-> u, path |-> x, query |-> v, fragment |-> <<>>]
      /\ [[uri |-> u, path |-> x, query |-> v, fragment |-> <<>>] EXCEPT !.fragment = y]
            = [uri |-> u, path |-> x, query |-> v, fragment |-> y]
  BY Z3
<1> QED
  BY <1>3, <1>4, Zenon DEF y

(* The parts of s, when its query ends at h, the end of s or a "#". *)
LEMMA EndOfQuery ==
    ASSUME NEW s \in Seq(Byte), NEW k, NEW a, PathCut(s, k, a), NEW h \in a + 1..Len(s) + 1,
           h <= Len(s) => s[h] = "#", NoHash(s, h - 1)
    PROVE  Uri!Parts(s) = [uri |-> SubSeq(s, k + 1, h - 1), path |-> SubSeq(s, k + 1, a - 1),
                           query |-> SubSeq(s, a + 1, h - 1), fragment |-> SubSeq(s, h + 1, Len(s))]
<1>1. /\ a \in 1..Len(s) /\ s[a] = "?" /\ InPath(s, a - 1) /\ k \in 0..a - 1 /\ Skips(s, k, a - 1)
  BY DEF PathCut
<1>2. h \in 1..Len(s) + 1 /\ a \in 1..h /\ a < h
  BY <1>1
<1> QED
  BY <1>1, <1>2, PartsAre

LEMMA QueryEndsCut ==
    ASSUME LInv, Reading, cs \in {"query?", "query"}, hex = 0, NEW a \in 1..Taking,
           PathCut(t, Marked, a), NoHash(t, Taking),
           url = [NoUrl EXCEPT !.path = SubSeq(t, Marked + 1, a - 1)],
           QueryEnds(Start + a)
    PROVE  Cut'
<1>1. /\ Taking \in 0..Len(t) /\ (c = SP <=> Taking = Len(t))
      /\ Taking < Len(t) => t[Taking + 1] = c
      /\ cs \in OfTarget
  <2>1. cs \in OfTarget
    BY DEF OfTarget
  <2> QED
    BY <2>1, Here
<1>2. Marked \in 0..a - 1 /\ Marked \in 0..Taking /\ a \in 0..Taking /\ mark = Start + Marked
  BY <1>1, Numbers DEF PathCut
<1>3. From(Start + a) = SubSeq(t, a + 1, Taking) /\ From(mark) = SubSeq(t, Marked + 1, Taking)
  BY <1>1, <1>2, Piece
<1>4. sent' = sent /\ hex' = 0 /\ p' = p + 1 /\ mark' = mark
  BY DEF QueryEnds, Reading, Taken
<1>5. t \in Seq(Byte) /\ Len(t) \in Nat /\ Start \in Nat
  BY Shape DEF LInv
<1>6. url' = [uri |-> SubSeq(t, Marked + 1, Taking), path |-> SubSeq(t, Marked + 1, a - 1),
              query |-> SubSeq(t, a + 1, Taking), fragment |-> <<>>]
  <2>1. url' = [url EXCEPT !.query = SubSeq(t, a + 1, Taking),
                           !.uri = SubSeq(t, Marked + 1, Taking)]
    BY <1>3, Zenon DEF QueryEnds
  <2> QED
    BY <2>1, PathAndQuery, Zenon
<1> DEFINE h == Taking + 1
<1>7. /\ h \in a + 1..Len(t) + 1 /\ h - 1 = Taking /\ NoHash(t, h - 1)
  BY <1>1, <1>5
<1>8. CASE c = SP
  <2>1. cs' = "version"
    BY <1>8, Spaces DEF QueryEnds, Taken
  <2>2. ~(h <= Len(t)) /\ SubSeq(t, h + 1, Len(t)) = <<>>
    BY <1>1, <1>5, <1>8
  <2> HIDE DEF h
  <2>3. Uri!Parts(t) = [uri |-> SubSeq(t, Marked + 1, h - 1), path |-> SubSeq(t, Marked + 1, a - 1),
                        query |-> SubSeq(t, a + 1, h - 1), fragment |-> SubSeq(t, h + 1, Len(t))]
    BY <1>5, <1>7, <2>2, EndOfQuery
  <2>4. url' = Uri!Parts(t)
    BY <1>6, <1>7, <2>2, <2>3, Zenon
  <2> QED
    BY <1>4, <2>1, <2>4, ToVersion DEF OfVersion
<1>9. CASE c # SP
  <2>1. /\ Taking' = h /\ Taking' \in 1..Len(t) /\ t[Taking'] = c
    BY <1>1, <1>4, <1>9, OneMore
  <2>2. c = "#" /\ cs' = "fragment?"
    BY <1>9 DEF QueryEnds, Taken
  <2>3. HashAt(t, h)
    BY <1>7, <2>1, <2>2 DEF HashAt
  <2> HIDE DEF h
  <2>4. h <= Len(t) => t[h] = "#"
    BY <2>1, <2>2
  <2>5. Uri!Parts(t) = [uri |-> SubSeq(t, Marked + 1, h - 1), path |-> SubSeq(t, Marked + 1, a - 1),
                        query |-> SubSeq(t, a + 1, h - 1), fragment |-> SubSeq(t, h + 1, Len(t))]
    BY <1>5, <1>7, <2>4, EndOfQuery
  <2>6. url' = [Uri!Parts(t) EXCEPT !.fragment = <<>>]
    <3> DEFINE u == SubSeq(t, Marked + 1, h - 1)
               x == SubSeq(t, Marked + 1, a - 1)
               v == SubSeq(t, a + 1, h - 1)
               y == SubSeq(t, h + 1, Len(t))
    <3>1. Uri!Parts(t) = [uri |-> u, path |-> x, query |-> v, fragment |-> y]
      BY <2>5
    <3>2. url' = [uri |-> u, path |-> x, query |-> v, fragment |-> <<>>]
      BY <1>6, <1>7
    <3> HIDE DEF u, x, v, y
    <3>3. [[uri |-> u, path |-> x, query |-> v, fragment |-> y] EXCEPT !.fragment = <<>>]
             = [uri |-> u, path |-> x, query |-> v, fragment |-> <<>>]
      BY Z3
    <3> QED
      BY <3>1, <3>2, <3>3, Zenon
  <2>7. Taking' \in 0..Len(t) /\ HashAt(t, Taking')
    BY <2>1, <2>3
  <2> QED
    BY <1>4, <2>2, <2>6, <2>7, ToHash
<1> QED
  BY <1>8, <1>9

-----------------------------------------------------------------------------
(* The steps, state by state. *)

Inside == unreserved \cup sub_delims \cup pchar \cup digit \cup alpha \cup xdigit
          \cup {"%", "/", ":", "@", "+", "-", ".", "_", "~"}

LEMMA InsideIs ==
    /\ \A b \in Inside : b # "#" /\ b # "?" /\ b # SP
    /\ \A b \in Inside \ (pchar \cup {":", "/"}) : b # ":" /\ b # "/"
    /\ \A b \in pchar : b # "/"
    /\ \A b \in unreserved \cup sub_delims \cup digit \cup alpha \cup xdigit : b # ":" /\ b # "/"
<1>1. \A b \in Inside : b # "#" /\ b # "?" /\ b # SP
  BY Classes, Spaces DEF Inside, Delims
<1>2. \A b \in Inside \ (pchar \cup {":", "/"}) : b # ":" /\ b # "/"
  OBVIOUS
<1>3. \A b \in pchar : b # "/"
  BY Classes DEF Delims
<1>4. \A b \in unreserved \cup sub_delims \cup digit \cup alpha \cup xdigit : b # ":" /\ b # "/"
  BY Classes DEF Delims
<1> QED
  BY <1>1, <1>2, <1>3, <1>4

LEMMA Steps ==
    ASSUME NEW q, Plain(q) \/ Percent(q)
    PROVE  /\ cs' = q /\ p' = p + 1 /\ mark' = mark /\ query_start' = query_start
           /\ url' = url /\ method' = method
           /\ (hex' = 0 \/ (hex' = 2 /\ Percent(q)))
           /\ (Percent(q) => c = "%")
BY DEF Plain, Percent, Taken, KeepsParts, marks, parts

LEMMA MethodByteCut ==
    ASSUME LInv, Reading, MethodByte
    PROVE  Cut'
<1>1. /\ cs' = "method" /\ p' = p + 1 /\ mark' = mark /\ hex' = hex /\ url' = url /\ sent' = sent
      /\ cs = "method" /\ c \in upper \cup digit
  BY DEF MethodByte, Reading, Taken, KeepsParts, marks, parts
<1>2. c # SP
  <2>1. c \in alpha \cup digit
    BY <1>1 DEF alpha
  <2> QED
    BY <2>1, Classes DEF Delims
<1>3. p <= Len(sent.method) /\ mark = 0 /\ url = NoUrl /\ ~(hex > 0)
  BY <1>1 DEF LInv, Cut, OfEscape
<1>4. Start = Len(sent.method) + 1 /\ Line[Start] = SP /\ Len(sent.method) \in Nat
  BY Shape DEF LInv
<1>5. p # Len(sent.method)
  BY <1>2, <1>4 DEF c
<1>6. p' <= Len(sent.method)
  <2>1. p \in Nat
    BY Numbers
  <2>2. p + 1 <= Len(sent.method)
    BY <1>3, <1>4, <1>5, <2>1
  <2> QED
    BY <1>1, <2>2
<1> QED
  BY <1>1, <1>3, <1>6 DEF Cut, OfTarget, OfPath, OfVersion, NoUrl

LEMMA MethodEndsCut ==
    ASSUME LInv, Reading, MethodEnds
    PROVE  Cut'
<1>1. CASE cs' = "error"
  BY <1>1, ToError
<1>2. CASE cs' # "error"
  <2>1. /\ cs' = "target" /\ p' = p + 1 /\ mark' = mark /\ hex' = hex /\ url' = url
        /\ sent' = sent /\ cs = "method" /\ c = SP
    BY <1>2 DEF MethodEnds, Reading, Taken, marks
  <2>2. p <= Len(sent.method) /\ mark = 0 /\ url = NoUrl /\ ~(hex > 0)
    BY <2>1 DEF LInv, Cut, OfEscape
  <2>3. /\ Start = Len(sent.method) + 1 /\ Len(sent.method) \in Nat /\ Len(t) \in Nat
        /\ \A i \in 1..Len(sent.method) : Line[i] # SP
    BY Shape DEF LInv
  <2>4. p \in Nat
    BY Numbers
  <2>5. ~(p + 1 \in 1..Len(sent.method))
    BY <2>1, <2>3 DEF c
  <2>6. p + 1 = Start
    BY <2>2, <2>3, <2>4, <2>5
  <2>7. Taking' = 0 /\ t' = t
    <3>1. Start' = Start /\ t' = t
      BY <2>1 DEF Start, t
    <3> QED
      BY <2>1, <2>3, <2>6, <3>1 DEF Taking
  <2> QED
    BY <2>1, <2>2, <2>3, <2>7 DEF Cut, OfTarget, OfPath, OfVersion, NoUrl
<1> QED
  BY <1>1, <1>2

LEMMA TargetStartCut ==
    ASSUME LInv, Reading, TargetStart
    PROVE  Cut'
<1>1. cs = "target" /\ Taking = 0 /\ url = NoUrl /\ hex = 0 /\ cs \in OfTarget /\ p = Start
  <2>1. cs = "target"
    BY DEF TargetStart
  <2>2. Taking = 0 /\ url = NoUrl /\ ~(hex > 0)
    BY <2>1 DEF LInv, Cut, OfEscape
  <2>3. hex \in 0..2
    BY Types DEF LInv
  <2> QED
    BY <2>1, <2>2, <2>3, Numbers DEF OfTarget
<1>2. InPath(t, Taking) /\ NoColon(t, Taking)
  BY <1>1 DEF InPath, NoColon
<1>3. CASE PathEnds(p)
  <2>1. Start + 0 = p /\ 0 \in 0..Taking /\ Skips(t, 0, Taking)
    BY <1>1, <1>2, Numbers DEF Skips
  <2> QED
    BY <1>1, <1>2, <1>3, <2>1, PathEndsCut DEF BeforeEnd
<1>4. CASE ~PathEnds(p)
  <2>1. /\ mark' = p /\ url' = url /\ sent' = sent /\ p' = p + 1
        /\ \/ c \in alpha /\ cs' = "scheme" /\ hex' = 0
           \/ c = "/" /\ cs' = "slash" /\ hex' = 0
           \/ c \in (unreserved \cup sub_delims \cup {"@"}) \ alpha /\ cs' = "noscheme" /\ hex' = 0
           \/ c = "%" /\ cs' = "noscheme" /\ hex' = 2
    BY <1>4 DEF TargetStart, Taken, KeepsParts, parts, Reading
  <2>2. c \in Inside
    BY <2>1 DEF Inside
  <2>3. c # "#" /\ c # "?" /\ c # SP
    BY <2>2, InsideIs
  <2>4. /\ Taking' = 1 /\ 1 \in 1..Len(t) /\ Taking' \in 0..Len(t) /\ t[1] = c /\ Marked' = 0
    BY <1>1, <2>1, <2>3, OneMore
  <2>5. InPath(t, 1)
    BY <2>3, <2>4 DEF InPath
  <2>6. CASE c = "/"
    <3>1. cs' = "slash" /\ hex' = 0
      BY <2>1, <2>6, Classes DEF Delims
    <3>2. Settled(t, 0, 1)
      BY <2>4, <2>6 DEF Settled, NoColon
    <3> QED
      BY <1>1, <2>1, <2>4, <2>5, <3>1, <3>2, ToPath DEF OfPath
  <2>7. CASE c # "/"
    <3>1. cs' \in {"scheme", "noscheme"} /\ (hex' > 0 => cs' = "noscheme")
      BY <2>1, <2>7
    <3>2. c # ":"
      BY <2>1, <2>7, InsideIs
    <3>3. NoColon(t, 1)
      BY <2>4, <2>7, <3>2 DEF NoColon
    <3> QED
      BY <1>1, <2>1, <2>4, <2>5, <3>1, <3>3, ToPathStart
  <2> QED
    BY <2>6, <2>7
<1> QED
  BY <1>3, <1>4

(* A byte of a scheme, or of a first segment that may be one. *)
LEMMA FirstBytes ==
    ASSUME LInv, Reading, cs \in {"scheme", "noscheme"}, hex = 0 \/ HexDigit,
           NEW q, q \in {"scheme", "noscheme"}, cs' = q, p' = p + 1, mark' = mark, url' = url,
           hex' > 0 => q = "noscheme", c \in Inside, c # ":", c # "/"
    PROVE  Cut'
<1>1. /\ Taking \in 0..Len(t) /\ url = NoUrl /\ Marked = 0 /\ InPath(t, Taking)
      /\ NoColon(t, Taking) /\ cs \in OfTarget
  BY DEF LInv, Cut, OfTarget
<1>2. c # "#" /\ c # "?" /\ c # SP
  BY InsideIs
<1>3. sent' = sent
  BY DEF Reading
<1>4. /\ Taking' = Taking + 1 /\ Taking' \in 1..Len(t) /\ t[Taking'] = c /\ Marked' = Marked
      /\ Taking \in Nat
  BY <1>1, <1>2, <1>3, OneMore
<1>5. InPath(t, Taking + 1) /\ NoColon(t, Taking + 1)
  BY <1>1, <1>2, <1>4 DEF InPath, NoColon
<1>6. Taking' \in 0..Len(t)
  BY <1>4
<1> QED
  BY <1>1, <1>3, <1>4, <1>5, <1>6, ToPathStart

LEMMA FirstSlash ==
    ASSUME LInv, Reading, cs \in {"scheme", "noscheme"}, c = "/", Plain("path")
    PROVE  Cut'
<1>1. /\ Taking \in 0..Len(t) /\ url = NoUrl /\ Marked = 0 /\ InPath(t, Taking)
      /\ NoColon(t, Taking) /\ cs \in OfTarget
  BY DEF LInv, Cut, OfTarget
<1>2. c # "#" /\ c # "?" /\ c # SP
  BY Spaces
<1>3. /\ sent' = sent /\ cs' = "path" /\ p' = p + 1 /\ mark' = mark /\ url' = url /\ hex' = 0
  BY DEF Reading, Plain, Taken, KeepsParts, marks, parts
<1>4. /\ Taking' = Taking + 1 /\ Taking' \in 1..Len(t) /\ t[Taking'] = c /\ Marked' = Marked
      /\ Taking \in Nat
  BY <1>1, <1>2, <1>3, OneMore
<1>5. InPath(t, Taking')
  BY <1>1, <1>2, <1>4 DEF InPath
<1>6. Settled(t, 0, Taking')
  <2>1. Taking' - 1 = Taking
    BY <1>4
  <2>2. NoColon(t, Taking' - 1)
    BY <1>1, <2>1
  <2> QED
    BY <1>4, <2>2 DEF Settled
<1>7. Taking' \in 0..Len(t) /\ Marked' = 0 /\ Marked' \in 0..Taking'
  BY <1>1, <1>4
<1> QED
  BY <1>1, <1>3, <1>5, <1>6, <1>7, ToPath DEF OfPath

LEMMA SchemeEnds ==
    ASSUME LInv, Reading, cs \in {"scheme", "noscheme"}, hex = 0, PathEnds(mark)
    PROVE  Cut'
<1>1. /\ Taking \in 0..Len(t) /\ Marked = 0 /\ InPath(t, Taking) /\ NoColon(t, Taking)
  BY DEF LInv, Cut, OfTarget
<1>2. mark = Start + 0 /\ 0 \in 0..Taking /\ Skips(t, 0, Taking)
  BY <1>1, Numbers DEF Skips
<1> QED
  BY <1>1, <1>2, PathEndsCut DEF BeforeEnd

LEMMA SchemeCut ==
    ASSUME LInv, Reading, Scheme
    PROVE  Cut'
<1>1. cs = "scheme" /\ hex = 0
  <2>1. cs = "scheme"
    BY DEF Scheme
  <2>2. ~(hex > 0) /\ hex \in 0..2
    BY <2>1, Types DEF LInv, Cut, OfEscape
  <2> QED
    BY <2>1, <2>2
<1>2. CASE PathEnds(mark)
  BY <1>1, <1>2, SchemeEnds
<1>3. CASE c = "/" /\ Plain("path")
  BY <1>1, <1>3, FirstSlash
<1>4. CASE c = ":" /\ Plain("hier")
  <2>1. /\ Taking \in 0..Len(t) /\ url = NoUrl /\ InPath(t, Taking)
        /\ NoColon(t, Taking) /\ cs \in OfTarget
    BY <1>1 DEF LInv, Cut, OfTarget
  <2>2. c # "#" /\ c # "?" /\ c # SP
    BY <1>4, Spaces
  <2>3. /\ sent' = sent /\ cs' = "hier" /\ p' = p + 1 /\ url' = url /\ hex' = 0
    BY <1>4 DEF Reading, Plain, Taken, KeepsParts, parts
  <2>4. /\ Taking' = Taking + 1 /\ Taking' \in 1..Len(t) /\ t[Taking'] = c /\ Taking \in Nat
    BY <2>1, <2>2, <2>3, OneMore
  <2>5. InPath(t, Taking')
    BY <2>1, <2>2, <2>4 DEF InPath
  <2>6. SchemeIs(t, Taking', Taking')
    <3>1. Taking' - 1 = Taking
      BY <2>4
    <3>2. NoColon(t, Taking' - 1)
      BY <2>1, <3>1
    <3> QED
      BY <1>4, <2>4, <3>2 DEF SchemeIs
  <2>7. Taking' \in 0..Len(t)
    BY <2>4
  <2> QED
    BY <2>1, <2>3, <2>5, <2>6, <2>7, ToHier
<1>5. CASE \/ c \in alpha \cup digit \cup {"+", "-", "."} /\ Plain("scheme")
           \/ c \in ({"_", "~", "@"} \cup sub_delims) \ {"+"} /\ Plain("noscheme")
           \/ Percent("noscheme")
  <2>1. c \in alpha \cup digit \cup sub_delims \cup {"+", "-", ".", "_", "~", "@", "%"}
    BY <1>5 DEF Percent
  <2>2. c \in Inside /\ c # ":" /\ c # "/"
    BY <2>1, InsideIs DEF Inside
  <2>3. \E q \in {"scheme", "noscheme"} : /\ Plain(q) \/ Percent(q)
                                          /\ Percent(q) => q = "noscheme"
    <3>1. CASE c = "%"
      <4>1. c \notin alpha \cup digit \cup {"+", "-", "."}
        BY <3>1, Zenon DEF alpha, upper, lower, digit
      <4> QED
        BY <1>5, <4>1
    <3>2. CASE c # "%"
      BY <1>5, <3>2 DEF Percent
    <3> QED
      BY <3>1, <3>2
  <2>4. PICK q \in {"scheme", "noscheme"} : /\ Plain(q) \/ Percent(q)
                                            /\ Percent(q) => q = "noscheme"
    BY <2>3
  <2>5. /\ cs' = q /\ p' = p + 1 /\ mark' = mark /\ url' = url
        /\ hex' > 0 => q = "noscheme"
    BY <2>4, Steps
  <2> QED
    BY <1>1, <2>2, <2>5, FirstBytes
<1> QED
  BY <1>2, <1>3, <1>4, <1>5 DEF Scheme

LEMMA FirstSegmentCut ==
    ASSUME LInv, Reading, FirstSegment
    PROVE  Cut'
<1>1. cs = "noscheme" /\ hex = 0
  BY DEF FirstSegment
<1>2. CASE PathEnds(mark)
  BY <1>1, <1>2, SchemeEnds
<1>3. CASE c = "/" /\ Plain("path")
  BY <1>1, <1>3, FirstSlash
<1>4. CASE (c \in pchar \ {":"} /\ Plain("noscheme")) \/ Percent("noscheme")
  <2>1. c \in Inside /\ c # ":" /\ c # "/"
    BY <1>4, InsideIs DEF Inside, Percent
  <2>2. /\ cs' = "noscheme" /\ p' = p + 1 /\ mark' = mark /\ url' = url
    BY <1>4, Steps
  <2> QED
    BY <1>1, <2>1, <2>2, FirstBytes
<1> QED
  BY <1>2, <1>3, <1>4 DEF FirstSegment

LEMMA HierCut ==
    ASSUME LInv, Reading, Hier
    PROVE  Cut'
<1>1. cs = "hier" /\ hex = 0 /\ cs \in OfTarget
  <2>1. cs = "hier"
    BY DEF Hier
  <2>2. ~(hex > 0) /\ hex \in 0..2
    BY <2>1, Types DEF LInv, Cut, OfEscape
  <2> QED
    BY <2>1, <2>2 DEF OfTarget
<1>2. /\ Taking \in 0..Len(t) /\ url = NoUrl /\ InPath(t, Taking) /\ SchemeIs(t, Taking, Taking)
  BY <1>1 DEF LInv, Cut, OfTarget
<1>3. CASE PathEnds(p)
  <2>1. p = Start + Taking /\ Taking \in 0..Taking
    BY <1>2, Numbers
  <2>2. Skips(t, Taking, Taking)
    BY <1>2 DEF Skips, Settled
  <2> QED
    BY <1>1, <1>2, <1>3, <2>1, <2>2, PathEndsCut DEF BeforeEnd
<1>4. CASE ~PathEnds(p)
  <2>1. /\ mark' = p /\ url' = url /\ sent' = sent /\ p' = p + 1
        /\ \/ c = "/" /\ cs' = "slash" /\ hex' = 0
           \/ c \in pchar /\ cs' = "path" /\ hex' = 0
           \/ c = "%" /\ cs' = "path" /\ hex' = 2
    BY <1>4 DEF Hier, Taken, KeepsParts, parts, Reading
  <2>2. c \in Inside
    BY <2>1 DEF Inside
  <2>3. c # "#" /\ c # "?" /\ c # SP
    BY <2>2, InsideIs
  <2>4. /\ Taking' = Taking + 1 /\ Taking' \in 1..Len(t) /\ t[Taking'] = c /\ Marked' = Taking
        /\ Taking \in Nat
    BY <1>1, <1>2, <2>1, <2>3, OneMore
  <2>5. InPath(t, Taking')
    BY <1>2, <2>3, <2>4 DEF InPath
  <2>6. Settled(t, Marked', Taking')
    BY <1>2, <2>4 DEF Settled, SchemeIs
  <2>7. Taking' \in 0..Len(t) /\ Marked' \in 0..Taking' /\ cs' \in OfPath
        /\ (hex' > 0 => cs' \in OfEscape)
    BY <2>1, <2>4 DEF OfPath, OfEscape
  <2> QED
    BY <1>2, <2>1, <2>5, <2>6, <2>7, ToPath
<1> QED
  BY <1>3, <1>4

-----------------------------------------------------------------------------
(* The path, with the authority that stays in it. *)

LEMMA SettledOn ==
    ASSUME NEW s, NEW k \in Nat, NEW n \in Nat, NEW m \in Nat, n <= m, Settled(s, k, n)
    PROVE  Settled(s, k, m)
BY DEF Settled, SchemeIs

LEMMA StepInPath ==
    ASSUME LInv, Reading, cs \in OfPath, cs' \in OfPath, p' = p + 1, mark' = mark, url' = url,
           hex' > 0 => cs' \in OfEscape, c \in Inside
    PROVE  Cut'
<1>1. /\ Taking \in 0..Len(t) /\ url = NoUrl /\ InPath(t, Taking) /\ Marked \in 0..Taking
      /\ Settled(t, Marked, Taking) /\ cs \in OfTarget
  BY DEF LInv, Cut, OfTarget
<1>2. c # "#" /\ c # "?" /\ c # SP
  BY InsideIs
<1>3. sent' = sent
  BY DEF Reading
<1>4. /\ Taking' = Taking + 1 /\ Taking' \in 1..Len(t) /\ t[Taking'] = c /\ Marked' = Marked
      /\ Taking \in Nat
  BY <1>1, <1>2, <1>3, OneMore
<1>5. InPath(t, Taking')
  BY <1>1, <1>2, <1>4 DEF InPath
<1>6. Settled(t, Marked', Taking')
  <2>1. Marked \in Nat /\ Taking + 1 \in Nat /\ Taking <= Taking + 1
    BY <1>1, <1>4
  <2>2. Settled(t, Marked, Taking + 1)
    BY <1>1, <1>4, <2>1, SettledOn
  <2> QED
    BY <1>4, <2>2
<1>7. Taking' \in 0..Len(t) /\ Marked' \in 0..Taking'
  BY <1>1, <1>4
<1> QED
  BY <1>1, <1>3, <1>5, <1>6, <1>7, ToPath

LEMMA StepPlain ==
    ASSUME LInv, Reading, cs \in OfPath, NEW q \in OfPath, c \in Inside, Plain(q)
    PROVE  Cut'
<1>1. cs' = q /\ p' = p + 1 /\ mark' = mark /\ url' = url /\ hex' = 0
  BY DEF Plain, Taken, KeepsParts, marks, parts
<1>2. ~(hex' > 0)
  BY <1>1
<1> QED
  BY <1>1, <1>2, StepInPath

LEMMA StepPercent ==
    ASSUME LInv, Reading, cs \in OfPath, NEW q \in OfPath \cap OfEscape, Percent(q)
    PROVE  Cut'
<1>1. cs' = q /\ p' = p + 1 /\ mark' = mark /\ url' = url /\ c = "%"
  BY DEF Percent, Taken, KeepsParts, marks, parts
<1>2. c \in Inside
  BY <1>1 DEF Inside
<1> QED
  BY <1>1, <1>2, StepInPath

LEMMA InPathEnds ==
    ASSUME LInv, Reading, cs \in OfPath, hex = 0, PathEnds(mark)
    PROVE  Cut'
<1>1. /\ Taking \in 0..Len(t) /\ InPath(t, Taking) /\ Marked \in 0..Taking
      /\ Settled(t, Marked, Taking)
  BY DEF LInv, Cut, OfTarget
<1>2. mark = Start + Marked /\ Skips(t, Marked, Taking)
  BY <1>1, Numbers DEF Skips
<1> QED
  BY <1>1, <1>2, PathEndsCut DEF BeforeEnd

LEMMA NoEscape ==
    ASSUME LInv, cs \notin OfEscape
    PROVE  hex = 0
<1>1. hex \in 0..2 /\ ~(hex > 0)
  BY Types DEF LInv, Cut
<1> QED
  BY <1>1

LEMMA LeavesAuthorityCut ==
    ASSUME LInv, Reading, cs \in OfPath, hex = 0, LeavesAuthority
    PROVE  Cut'
<1>1. CASE c = "/" /\ Plain("path")
  <2>1. c \in Inside /\ "path" \in OfPath
    BY <1>1 DEF Inside, OfPath
  <2> QED
    BY <1>1, <2>1, StepPlain
<1>2. CASE PathEnds(mark)
  BY <1>2, InPathEnds
<1> QED
  BY <1>1, <1>2 DEF LeavesAuthority

LEMMA SlashCut ==
    ASSUME LInv, Reading, Slash
    PROVE  Cut'
<1>1. cs = "slash" /\ cs \in OfPath /\ hex = 0
  <2>1. cs = "slash"
    BY DEF Slash
  <2> QED
    BY <2>1, NoEscape DEF OfPath, OfEscape
<1>2. {"authority", "path"} \subseteq OfPath /\ "path" \in OfEscape
  BY DEF OfPath, OfEscape
<1>3. CASE PathEnds(mark)
  BY <1>1, <1>3, InPathEnds
<1>4. CASE Percent("path")
  BY <1>1, <1>2, <1>4, StepPercent
<1>5. CASE c = "/" /\ Plain("authority")
  BY <1>1, <1>2, <1>5, StepPlain DEF Inside
<1>6. CASE c \in pchar /\ Plain("path")
  BY <1>1, <1>2, <1>6, StepPlain DEF Inside
<1> QED
  BY <1>3, <1>4, <1>5, <1>6 DEF Slash

LEMMA PathIsCut ==
    ASSUME LInv, Reading, Path
    PROVE  Cut'
<1>1. cs = "path" /\ cs \in OfPath /\ hex = 0
  BY DEF Path, OfPath
<1>2. "path" \in OfPath \cap OfEscape
  BY DEF OfPath, OfEscape
<1>3. CASE PathEnds(mark)
  BY <1>1, <1>3, InPathEnds
<1>4. CASE Percent("path")
  BY <1>1, <1>2, <1>4, StepPercent
<1>5. CASE c \in pchar \cup {"/"} /\ Plain("path")
  BY <1>1, <1>2, <1>5, StepPlain DEF Inside
<1> QED
  BY <1>3, <1>4, <1>5 DEF Path

LEMMA PortOrUserCut ==
    ASSUME LInv, Reading, PortOrUser
    PROVE  Cut'
<1>1. cs = "port?" /\ cs \in OfPath /\ hex = 0
  <2>1. cs = "port?"
    BY DEF PortOrUser
  <2> QED
    BY <2>1, NoEscape DEF OfPath, OfEscape
<1>2. {"port?", "user", "host"} \subseteq OfPath /\ "user" \in OfEscape
  BY DEF OfPath, OfEscape
<1>3. CASE LeavesAuthority
  BY <1>1, <1>3, LeavesAuthorityCut
<1>4. CASE Percent("user")
  BY <1>1, <1>2, <1>4, StepPercent
<1>5. CASE c \in digit /\ Plain("port?")
  BY <1>1, <1>2, <1>5, StepPlain DEF Inside
<1>6. CASE c \in ((unreserved \ digit) \cup sub_delims \cup {":"}) /\ Plain("user")
  <2>1. c \in Inside
    BY <1>6 DEF Inside
  <2> QED
    BY <1>1, <1>2, <1>6, <2>1, StepPlain
<1>7. CASE c = "@" /\ Plain("host")
  BY <1>1, <1>2, <1>7, StepPlain DEF Inside
<1> QED
  BY <1>3, <1>4, <1>5, <1>6, <1>7 DEF PortOrUser

LEMMA UserCut ==
    ASSUME LInv, Reading, User
    PROVE  Cut'
<1>1. cs = "user" /\ cs \in OfPath /\ hex = 0
  BY DEF User, OfPath
<1>2. {"user", "host"} \subseteq OfPath /\ "user" \in OfEscape
  BY DEF OfPath, OfEscape
<1>3. CASE Percent("user")
  BY <1>1, <1>2, <1>3, StepPercent
<1>4. CASE c \in unreserved \cup sub_delims \cup {":"} /\ Plain("user")
  <2>1. c \in Inside
    BY <1>4 DEF Inside
  <2> QED
    BY <1>1, <1>2, <1>4, <2>1, StepPlain
<1>5. CASE c = "@" /\ Plain("host")
  BY <1>1, <1>2, <1>5, StepPlain DEF Inside
<1> QED
  BY <1>3, <1>4, <1>5 DEF User

LEMMA PortCut ==
    ASSUME LInv, Reading, Port
    PROVE  Cut'
<1>1. cs = "port" /\ cs \in OfPath /\ hex = 0
  <2>1. cs = "port"
    BY DEF Port
  <2> QED
    BY <2>1, NoEscape DEF OfPath, OfEscape
<1>2. CASE c \in digit /\ Plain("port")
  BY <1>1, <1>2, StepPlain DEF Inside
<1>3. CASE LeavesAuthority
  BY <1>1, <1>3, LeavesAuthorityCut
<1> QED
  BY <1>2, <1>3 DEF Port

LEMMA LiteralEndsCut ==
    ASSUME LInv, Reading, LiteralEnds
    PROVE  Cut'
<1>1. cs = "literal" /\ cs \in OfPath /\ hex = 0
  <2>1. cs = "literal"
    BY DEF LiteralEnds
  <2> QED
    BY <2>1, NoEscape DEF OfPath, OfEscape
<1>2. CASE c = ":" /\ Plain("port")
  BY <1>1, <1>2, StepPlain DEF Inside, OfPath
<1>3. CASE LeavesAuthority
  BY <1>1, <1>3, LeavesAuthorityCut
<1> QED
  BY <1>2, <1>3 DEF LiteralEnds

-----------------------------------------------------------------------------
(* The bytes of an IP literal: none of them ends a path. *)

OfLiteral == unreserved \cup sub_delims \cup {":"} \cup digit \cup xdigit \cup Control

LEMMA LiteralBytes ==
    /\ \A b \in OfLiteral : b # "#" /\ b # "?" /\ b # SP
    /\ digit \subseteq OfLiteral /\ xdigit \subseteq OfLiteral
    /\ unreserved \cup sub_delims \cup {":"} \subseteq OfLiteral
    /\ ":" \in OfLiteral /\ "." \in OfLiteral /\ "v" \in OfLiteral
    /\ {"ctl2", "ctl3", "ctl4", "ctl5", "ctl6"} \subseteq OfLiteral
<1>1. ASSUME NEW b \in Control PROVE b # "#" /\ b # "?" /\ b # SP
  BY Zenon DEF Control, SP
<1>2. \A b \in OfLiteral : b # "#" /\ b # "?" /\ b # SP
  BY <1>1, InsideIs DEF OfLiteral, Inside
<1>3. "v" \in OfLiteral
  BY Zenon DEF OfLiteral, unreserved, alpha, lower
<1>4. {"ctl2", "ctl3", "ctl4", "ctl5", "ctl6"} \subseteq OfLiteral
  BY DEF OfLiteral, Control
<1>5. /\ digit \subseteq OfLiteral /\ xdigit \subseteq OfLiteral
      /\ unreserved \cup sub_delims \cup {":"} \subseteq OfLiteral
      /\ ":" \in OfLiteral
  BY DEF OfLiteral
<1>6. "." \in OfLiteral
  BY Zenon DEF OfLiteral, unreserved
<1> QED
  BY <1>2, <1>3, <1>4, <1>5, <1>6

LEMMA AllOf ==
    ASSUME NEW S, NEW s \in Seq(S), NEW a \in 1..Len(s) + 1, NEW b \in a - 1..Len(s), NEW B,
           All(SubSeq(s, a, b), B)
    PROVE  \A j \in a..b : s[j] \in B
<1> TAKE j \in a..b
<1>1. /\ Len(SubSeq(s, a, b)) = b - a + 1
      /\ \A i \in 1..b - a + 1 : SubSeq(s, a, b)[i] = s[a + i - 1]
  BY Sub
<1>2. j - a + 1 \in 1..b - a + 1 /\ a + (j - a + 1) - 1 = j
  OBVIOUS
<1>3. SubSeq(s, a, b)[j - a + 1] = s[j]
  BY <1>1, <1>2
<1> QED
  BY <1>1, <1>2, <1>3 DEF All

(* A byte that is no separator is in one of the pieces. *)
LEMMA InPieces ==
    ASSUME NEW S, NEW s \in Seq(S), NEW sep, NEW B, sep \in B,
           \A x \in Pieces(s, sep) : All(x, B)
    PROVE  All(s, B)
<1> DEFINE at == {0, Len(s) + 1} \cup {i \in 1..Len(s) : s[i] = sep}
<1>1. ASSUME NEW i \in 1..Len(s), s[i] # sep PROVE s[i] \in B
  <2>1. /\ at \subseteq Nat /\ 0 \in at /\ Len(s) + 1 \in at /\ i \notin at
        /\ i \in Nat /\ Len(s) \in Nat
    BY <1>1
  <2>2. \A k \in at : k <= Len(s) + 1
    OBVIOUS
  <2> HIDE DEF at
  <2> DEFINE up   == {k \in at : k > i}
             down == {d \in Nat : d > 0 /\ i - d \in at}
  <2>3. PICK hi \in up : \A k \in up : hi <= k
    <3>1. Len(s) + 1 > i
      BY <2>1
    <3>2. up \in SUBSET Nat
      BY <2>1
    <3>3. Len(s) + 1 \in up
      BY <2>1, <3>1
    <3> HIDE DEF up
    <3> QED
      BY <3>2, <3>3, Least
  <2>4. PICK d \in down : \A k \in down : d <= k
    <3>1. i - i = 0 /\ i > 0
      BY <2>1
    <3>2. down \in SUBSET Nat /\ i \in down
      BY <2>1, <3>1
    <3> HIDE DEF down
    <3> QED
      BY <3>2, Least
  <2> DEFINE lo == i - d
  <2>5. /\ lo \in at /\ hi \in at /\ lo \in Nat /\ hi \in Nat /\ lo < i /\ i < hi
        /\ hi <= Len(s) + 1 /\ lo < hi
    BY <2>1, <2>2, <2>3, <2>4
  <2>6. \A k \in at : k <= lo \/ k >= hi
    <3> TAKE k \in at
    <3>1. k \in Nat /\ k # i
      BY <2>1
    <3>2. CASE k > i
      BY <2>3, <3>2
    <3>3. CASE k < i
      <4>1. i - k \in Nat /\ i - k > 0 /\ i - (i - k) = k
        BY <2>1, <3>1, <3>3
      <4>2. i - k \in down
        BY <4>1
      <4>3. d <= i - k /\ d \in Nat
        BY <2>4, <4>2
      <4> QED
        BY <2>1, <3>1, <4>3
    <3> QED
      BY <2>1, <3>1, <3>2, <3>3
  <2> DEFINE y == <<lo, hi>>
  <2>7. /\ y \in {z \in at \X at : z[1] < z[2] /\ \A k \in at : k <= z[1] \/ k >= z[2]}
        /\ y[1] = lo /\ y[2] = hi
    <3> HIDE DEF lo
    <3> QED
      BY <2>5, <2>6
  <2>8. SubSeq(s, lo + 1, hi - 1) \in Pieces(s, sep)
    <3> HIDE DEF y, lo
    <3>1. SubSeq(s, y[1] + 1, y[2] - 1) \in Pieces(s, sep)
      BY <2>7 DEF Pieces, at
    <3> QED
      BY <2>7, <3>1
  <2>9. /\ lo + 1 \in 1..Len(s) + 1 /\ hi - 1 \in (lo + 1) - 1..Len(s) /\ i \in lo + 1..hi - 1
    BY <2>1, <2>5
  <2>10. All(SubSeq(s, lo + 1, hi - 1), B)
    BY <2>8
  <2> HIDE DEF lo
  <2>11. \A j \in lo + 1..hi - 1 : s[j] \in B
    BY <2>9, <2>10, AllOf
  <2> QED
    BY <2>9, <2>11
<1> QED
  BY <1>1 DEF All

LEMMA AllMore ==
    ASSUME NEW s, NEW A, NEW B, A \subseteq B, All(s, A)
    PROVE  All(s, B)
BY DEF All

LEMMA AllTail ==
    ASSUME NEW S, NEW s \in Seq(S), NEW b \in OfLiteral, Starts(s, b), All(Tail(s), OfLiteral)
    PROVE  All(s, OfLiteral)
<1>1. Len(s) \in Nat /\ s # <<>> /\ s[1] = b /\ Len(Tail(s)) = Len(s) - 1
      /\ \A i \in 1..Len(s) - 1 : Tail(s)[i] = s[i + 1]
  BY DEF Starts
<1>2. ASSUME NEW j \in 1..Len(s) PROVE s[j] \in OfLiteral
  <2>1. CASE j = 1
    BY <1>1, <2>1
  <2>2. CASE j # 1
    <3>1. j - 1 \in 1..Len(s) - 1 /\ (j - 1) + 1 = j
      BY <1>1, <2>2
    <3>2. Tail(s)[j - 1] = s[j] /\ Tail(s)[j - 1] \in OfLiteral
      BY <1>1, <3>1 DEF All
    <3> QED
      BY <3>2
  <2> QED
    BY <2>1, <2>2
<1> QED
  BY <1>2 DEF All

LEMMA AddressBytes ==
    ASSUME NEW s \in Seq(Byte)
    PROVE  /\ h16(s) => All(s, OfLiteral)
           /\ ls32(s) => All(s, OfLiteral)
           /\ \A n \in Nat : Groups(s, n) => All(s, OfLiteral)
<1>1. ASSUME NEW x, h16(x) PROVE All(x, OfLiteral)
  BY <1>1, LiteralBytes, AllMore DEF h16
<1>2. ASSUME NEW x, dec_octet(x) PROVE All(x, OfLiteral)
  BY <1>2, LiteralBytes, AllMore DEF dec_octet
<1>3. ASSUME NEW n \in Nat, Groups(s, n) PROVE All(s, OfLiteral)
  <2>1. \A x \in Pieces(s, ":") : All(x, OfLiteral)
    BY <1>1, <1>3 DEF Groups
  <2> QED
    BY <2>1, InPieces, LiteralBytes
<1>4. ASSUME IPv4address(s) PROVE All(s, OfLiteral)
  <2>1. \A x \in Pieces(s, ".") : All(x, OfLiteral)
    BY <1>2, <1>4 DEF IPv4address
  <2> QED
    BY <2>1, InPieces, LiteralBytes
<1>5. ASSUME ls32(s) PROVE All(s, OfLiteral)
  BY <1>3, <1>4, <1>5 DEF ls32
<1> QED
  BY <1>1, <1>3, <1>5

LEMMA h16_ls32Bytes ==
    ASSUME NEW s \in Seq(Byte), h16_ls32(s)
    PROVE  All(s, OfLiteral)
<1>1. PICK i \in 1..Len(s) : /\ s[i] = ":" /\ h16(SubSeq(s, 1, i - 1))
                             /\ ls32(SubSeq(s, i + 1, Len(s)))
  BY DEF h16_ls32
<1>2. /\ 1 \in 1..Len(s) + 1 /\ i - 1 \in 1 - 1..Len(s)
      /\ i + 1 \in 1..Len(s) + 1 /\ Len(s) \in (i + 1) - 1..Len(s)
  OBVIOUS
<1>3. SubSeq(s, 1, i - 1) \in Seq(Byte) /\ SubSeq(s, i + 1, Len(s)) \in Seq(Byte)
  BY <1>2, Sub
<1>4. All(SubSeq(s, 1, i - 1), OfLiteral) /\ All(SubSeq(s, i + 1, Len(s)), OfLiteral)
  BY <1>1, <1>3, AddressBytes
<1>5. \A j \in 1..i - 1 : s[j] \in OfLiteral
  BY <1>2, <1>4, AllOf
<1>6. \A j \in i + 1..Len(s) : s[j] \in OfLiteral
  BY <1>2, <1>4, AllOf
<1> QED
  BY <1>1, <1>5, <1>6, LiteralBytes DEF All

LEMMA RepeatedBytes ==
    ASSUME NEW s \in Seq(Byte), NEW b \in {"ctl2", "ctl3", "ctl4", "ctl5", "ctl6"}, Repeated(s, b)
    PROVE  All(s, OfLiteral)
<1>1. Starts(s, b) /\ h16_ls32(Tail(s)) /\ b \in OfLiteral
  BY LiteralBytes DEF Repeated
<1>2. Tail(s) \in Seq(Byte)
  BY <1>1 DEF Starts
<1> QED
  BY <1>1, <1>2, h16_ls32Bytes, AllTail

LEMMA AfterCompressionBytes ==
    ASSUME NEW s \in Seq(Byte), NEW n \in Nat, AfterCompression(n, s)
    PROVE  All(s, OfLiteral)
<1>1. \/ \E b \in {"ctl2", "ctl3", "ctl4", "ctl5"} : Repeated(s, b)
      \/ h16_ls32(s) \/ ls32(s) \/ h16(s) \/ s = <<>>
  BY DEF AfterCompression
<1>2. CASE s = <<>>
  BY <1>2 DEF All
<1> QED
  BY <1>1, <1>2, RepeatedBytes, h16_ls32Bytes, AddressBytes

LEMMA CompressedBytes ==
    ASSUME NEW s \in Seq(Byte), Compressed(s)
    PROVE  All(s, OfLiteral)
<1>1. PICK i \in 1..Len(s) - 1 : \E n \in 0..i :
        /\ s[i] = ":" /\ s[i + 1] = ":"
        /\ IF n = 0 THEN i = 1 ELSE Groups(SubSeq(s, 1, i - 1), n)
        /\ AfterCompression(n, SubSeq(s, i + 2, Len(s)))
  BY DEF Compressed
<1>2. PICK n \in 0..i :
        /\ s[i] = ":" /\ s[i + 1] = ":"
        /\ IF n = 0 THEN i = 1 ELSE Groups(SubSeq(s, 1, i - 1), n)
        /\ AfterCompression(n, SubSeq(s, i + 2, Len(s)))
  BY <1>1
<1>3. /\ 1 \in 1..Len(s) + 1 /\ i - 1 \in 1 - 1..Len(s) /\ n \in Nat
      /\ i + 2 \in 1..Len(s) + 1 /\ Len(s) \in (i + 2) - 1..Len(s)
  OBVIOUS
<1>4. SubSeq(s, 1, i - 1) \in Seq(Byte) /\ SubSeq(s, i + 2, Len(s)) \in Seq(Byte)
  BY <1>3, Sub
<1>5. \A j \in 1..i - 1 : s[j] \in OfLiteral
  <2>1. CASE n = 0
    BY <1>2, <2>1
  <2>2. CASE n # 0
    <3>1. All(SubSeq(s, 1, i - 1), OfLiteral)
      BY <1>2, <1>3, <1>4, <2>2, AddressBytes
    <3> QED
      BY <1>3, <3>1, AllOf
  <2> QED
    BY <2>1, <2>2
<1>6. \A j \in i + 2..Len(s) : s[j] \in OfLiteral
  <2>1. All(SubSeq(s, i + 2, Len(s)), OfLiteral)
    BY <1>2, <1>3, <1>4, AfterCompressionBytes
  <2> QED
    BY <1>3, <2>1, AllOf
<1> QED
  BY <1>2, <1>5, <1>6, LiteralBytes DEF All

LEMMA IPvFutureBytes ==
    ASSUME NEW s \in Seq(Byte), IPvFuture(s)
    PROVE  All(s, OfLiteral)
<1>1. s # <<>> /\ s[1] = "v"
  BY DEF IPvFuture, Starts
<1>2. PICK i \in 3..Len(s) - 1 :
          /\ s[i] = "."
          /\ All(SubSeq(s, 2, i - 1), xdigit)
          /\ All(SubSeq(s, i + 1, Len(s)), unreserved \cup sub_delims \cup {":"})
  BY DEF IPvFuture
<1>3. /\ 2 \in 1..Len(s) + 1 /\ i - 1 \in 2 - 1..Len(s)
      /\ i + 1 \in 1..Len(s) + 1 /\ Len(s) \in (i + 1) - 1..Len(s)
  OBVIOUS
<1>4. \A j \in 2..i - 1 : s[j] \in xdigit
  BY <1>2, <1>3, AllOf
<1>5. \A j \in i + 1..Len(s) : s[j] \in unreserved \cup sub_delims \cup {":"}
  BY <1>2, <1>3, AllOf
<1>6. ASSUME NEW j \in 1..Len(s) PROVE s[j] \in OfLiteral
  <2>1. j = 1 \/ j \in 2..i - 1 \/ j = i \/ j \in i + 1..Len(s)
    OBVIOUS
  <2> QED
    BY <1>1, <1>2, <1>4, <1>5, <2>1, LiteralBytes
<1> QED
  BY <1>6 DEF All

LEMMA IP_literalBytes ==
    ASSUME NEW s \in Seq(Byte), IP_literal(s)
    PROVE  All(s, OfLiteral)
BY CompressedBytes, IPvFutureBytes, RepeatedBytes DEF IP_literal, IPv6address

LEMMA FindIs ==
    ASSUME NEW s, Len(s) \in Nat, NEW b, NEW i \in Nat, i >= 1, Find(s, b, i) <= Len(s)
    PROVE  Find(s, b, i) \in i..Len(s) /\ s[Find(s, b, i)] = b
<1> DEFINE at == {j \in i..Len(s) : s[j] = b}
           f  == CHOOSE j \in at : \A k \in at : j <= k
<1>1. CASE at = {}
  BY <1>1 DEF Find
<1>2. CASE at # {}
  <2>1. at \in SUBSET Nat
    OBVIOUS
  <2>2. \E j \in at : \A k \in at : j <= k
    <3> HIDE DEF at
    <3> QED
      BY <1>2, <2>1, Least
  <2>3. f \in at
    <3> HIDE DEF at
    <3> QED
      BY <2>2
  <2>4. Find(s, b, i) = f
    BY <1>2 DEF Find
  <2> HIDE DEF f
  <2> QED
    BY <2>3, <2>4
<1> QED
  BY <1>1, <1>2

(* What a literal is in the target. *)
LEMMA LiteralIs ==
    ASSUME LInv, Reading, cs \in OfPath, Literal
    PROVE  /\ cs' = "literal" /\ hex' = 0 /\ url' = url /\ sent' = sent
           /\ Taking \in Nat /\ Taking' \in Taking + 2..Len(t) /\ Marked' = Marked
           /\ \A i \in Taking + 1..Taking' : t[i] # "#" /\ t[i] # "?"
           /\ t[Taking + 1] = "[" /\ t[Taking'] = "]"
           /\ IP_literal(SubSeq(t, Taking + 2, Taking' - 1))
<1> DEFINE close == Find(Line, "]", p + 1)
<1>1. /\ c = "[" /\ close <= Len(Line) /\ IP_literal(SubSeq(Line, p + 2, close - 1))
      /\ cs' = "literal" /\ p' = close /\ hex' = 0 /\ mark' = mark /\ url' = url /\ sent' = sent
  BY DEF Literal, KeepsParts, marks, parts, Reading
<1>2. Taking \in 0..Len(t)
  BY DEF LInv, Cut, OfTarget
<1>3. /\ Line \in Seq(Byte) /\ Len(Line) \in Nat /\ Start + Len(t) < Len(Line)
      /\ Len(t) \in Nat /\ Start \in Nat
      /\ \A i \in 1..Len(t) : Line[Start + i] = t[i]
      /\ Line[Start + Len(t) + 1] = SP
  BY Shape DEF LInv
<1>4. p = Start + Taking /\ p \in Nat /\ Taking \in Nat
  BY <1>2, Numbers
<1>5. close \in p + 1..Len(Line) /\ Line[close] = "]" /\ close # p + 1
  <2>1. close \in p + 1..Len(Line) /\ Line[close] = "]"
    <3>1. p + 1 \in Nat /\ p + 1 >= 1
      BY <1>4
    <3> QED
      BY <1>1, <1>3, <3>1, FindIs
  <2> QED
    BY <1>1, <2>1 DEF c
<1> HIDE DEF close
<1>6. \A j \in p + 1..close : Line[j] # "#" /\ Line[j] # "?" /\ Line[j] # SP
  <2>1. p + 2 \in 1..Len(Line) + 1 /\ close - 1 \in (p + 2) - 1..Len(Line)
    BY <1>3, <1>4, <1>5
  <2>2. All(SubSeq(Line, p + 2, close - 1), OfLiteral)
    BY <1>1, <1>3, <2>1, Sub, IP_literalBytes
  <2>3. \A j \in p + 2..close - 1 : Line[j] \in OfLiteral
    BY <1>3, <2>1, <2>2, AllOf
  <2>4. Line[p + 1] = "["
    BY <1>1 DEF c
  <2> TAKE j \in p + 1..close
  <2>5. j = p + 1 \/ j \in p + 2..close - 1 \/ j = close
    BY <1>3, <1>4, <1>5
  <2> QED
    BY <1>5, <2>3, <2>4, <2>5, Spaces, LiteralBytes
<1> DEFINE n == close - Start
<1>7. n \in Taking + 2..Len(t)
  <2>1. Start + Len(t) + 1 \notin p + 1..close
    BY <1>3, <1>6
  <2>2. p + 1 <= Start + Len(t) + 1
    BY <1>2, <1>3, <1>4
  <2> QED
    BY <1>3, <1>4, <1>5, <2>1, <2>2
<1>8. Taking' = n /\ Marked' = Marked
  <2>1. Start' = Start
    BY <1>1 DEF Start
  <2> QED
    BY <1>1, <2>1 DEF Taking, Marked
<1>9. ASSUME NEW i \in Taking + 1..n
      PROVE  Line[Start + i] = t[i] /\ t[i] # "#" /\ t[i] # "?"
  <2>1. Start + i \in p + 1..close /\ i \in 1..Len(t)
    BY <1>3, <1>4, <1>5, <1>7
  <2> QED
    BY <1>3, <1>6, <2>1
<1>10. t[Taking + 1] = "[" /\ t[n] = "]"
  <2>1. Taking + 1 \in Taking + 1..n /\ Start + (Taking + 1) = p + 1
    BY <1>3, <1>4, <1>7
  <2>2. n \in Taking + 1..n /\ Start + n = close
    BY <1>3, <1>4, <1>5, <1>7
  <2> HIDE DEF n
  <2>3. t[Taking + 1] = Line[p + 1]
    BY <1>9, <2>1
  <2>4. t[n] = Line[close]
    BY <1>9, <2>2
  <2> QED
    BY <1>1, <1>5, <2>3, <2>4 DEF c
<1>11. SubSeq(Line, p + 2, close - 1) = SubSeq(t, Taking + 2, n - 1)
  <2> DEFINE a == Taking + 1
             b == n - 1
  <2>1. /\ b \in 0..Len(t) /\ a \in 0..b /\ Start + Len(t) <= Len(Line)
        /\ Start + a + 1 = p + 2 /\ Start + b = close - 1 /\ a + 1 = Taking + 2
    BY <1>3, <1>4, <1>5, <1>7
  <2> HIDE DEF a, b
  <2>2. t \in Seq(Byte)
    BY Shape DEF LInv
  <2>3. SubSeq(Line, Start + a + 1, Start + b) = SubSeq(t, a + 1, b)
    BY <1>3, <2>1, <2>2, SamePiece
  <2> QED
    BY <2>1, <2>3 DEF b
<1> HIDE DEF n
<1> QED
  BY <1>1, <1>4, <1>7, <1>8, <1>9, <1>10, <1>11

LEMMA LiteralCut ==
    ASSUME LInv, Reading, cs \in {"authority", "host"}, Literal
    PROVE  Cut'
<1>1. /\ Taking \in 0..Len(t) /\ url = NoUrl /\ InPath(t, Taking) /\ Marked \in 0..Taking
      /\ Settled(t, Marked, Taking) /\ cs \in OfPath
  BY DEF LInv, Cut, OfTarget, OfPath
<1>2. /\ cs' = "literal" /\ hex' = 0 /\ url' = url /\ sent' = sent
      /\ Taking \in Nat /\ Taking' \in Taking + 2..Len(t) /\ Marked' = Marked
      /\ \A i \in Taking + 1..Taking' : t[i] # "#" /\ t[i] # "?"
  BY <1>1, LiteralIs
<1> DEFINE n == Taking'
<1>3. InPath(t, n)
  <2> SUFFICES ASSUME NEW i \in 1..n PROVE t[i] # "#" /\ t[i] # "?"
    BY DEF InPath
  <2>1. i \in 1..Taking \/ i \in Taking + 1..n
    BY <1>2
  <2> QED
    BY <1>1, <1>2, <2>1 DEF InPath
<1>4. Settled(t, Marked, n)
  <2>1. Marked \in Nat /\ n \in Nat /\ Taking <= n
    BY <1>1, <1>2
  <2> QED
    BY <1>1, <1>2, <2>1, SettledOn
<1>5. n \in 0..Len(t) /\ Marked \in 0..n
  BY <1>1, <1>2
<1>6. ~(hex' > 0) /\ cs' \in OfPath
  BY <1>2 DEF OfPath
<1> QED
  BY <1>1, <1>2, <1>3, <1>4, <1>5, <1>6, ToPath

LEMMA AuthorityCut ==
    ASSUME LInv, Reading, Authority
    PROVE  Cut'
<1>1. cs \in {"authority", "name"} /\ cs \in OfPath /\ hex = 0
  BY DEF Authority, OfPath
<1>2. {"name", "port?", "host"} \subseteq OfPath /\ "name" \in OfEscape
  BY DEF OfPath, OfEscape
<1>3. CASE LeavesAuthority
  BY <1>1, <1>3, LeavesAuthorityCut
<1>4. CASE Percent("name")
  BY <1>1, <1>2, <1>4, StepPercent
<1>5. CASE c \in unreserved \cup sub_delims /\ Plain("name")
  <2>1. c \in Inside
    BY <1>5 DEF Inside
  <2> QED
    BY <1>1, <1>2, <1>5, <2>1, StepPlain
<1>6. CASE c = ":" /\ Plain("port?")
  BY <1>1, <1>2, <1>6, StepPlain DEF Inside
<1>7. CASE c = "@" /\ Plain("host")
  BY <1>1, <1>2, <1>7, StepPlain DEF Inside
<1>8. CASE cs = "authority" /\ Literal
  BY <1>8, LiteralCut
<1> QED
  BY <1>3, <1>4, <1>5, <1>6, <1>7, <1>8 DEF Authority

LEMMA HostCut ==
    ASSUME LInv, Reading, Host
    PROVE  Cut'
<1>1. cs \in {"host", "regname"} /\ cs \in OfPath /\ hex = 0
  BY DEF Host, OfPath
<1>2. {"regname", "port"} \subseteq OfPath /\ "regname" \in OfEscape
  BY DEF OfPath, OfEscape
<1>3. CASE LeavesAuthority
  BY <1>1, <1>3, LeavesAuthorityCut
<1>4. CASE Percent("regname")
  BY <1>1, <1>2, <1>4, StepPercent
<1>5. CASE c \in unreserved \cup sub_delims /\ Plain("regname")
  <2>1. c \in Inside
    BY <1>5 DEF Inside
  <2> QED
    BY <1>1, <1>2, <1>5, <2>1, StepPlain
<1>6. CASE c = ":" /\ Plain("port")
  BY <1>1, <1>2, <1>6, StepPlain DEF Inside
<1>7. CASE cs = "host" /\ Literal
  BY <1>7, LiteralCut
<1> QED
  BY <1>3, <1>4, <1>5, <1>6, <1>7 DEF Host

-----------------------------------------------------------------------------
(* The query, the fragment and the version. *)

LEMMA QueryBytesAre == \A b \in QueryBytes \cup {"%"} : b # "#" /\ b # SP
BY Classes, Spaces DEF QueryBytes, Delims

LEMMA QueryStartCut ==
    ASSUME LInv, Reading, QueryStart
    PROVE  Cut'
<1>1. cs = "query?" /\ hex = 0 /\ cs \in OfTarget
  <2>1. cs = "query?"
    BY DEF QueryStart
  <2> QED
    BY <2>1, NoEscape DEF OfTarget, OfEscape
<1>2. /\ Taking \in 0..Len(t) /\ PathCut(t, Marked, Taking)
      /\ url = [NoUrl EXCEPT !.path = SubSeq(t, Marked + 1, Taking - 1)]
  BY <1>1 DEF LInv, Cut, OfTarget
<1>3. NoHash(t, Taking) /\ Taking \in 1..Len(t) /\ Taking \in Nat
  <2>1. Taking \in 1..Len(t) /\ t[Taking] = "?" /\ \A i \in 1..Taking - 1 : t[i] # "#"
    BY <1>2 DEF PathCut, InPath
  <2>2. ASSUME NEW i \in 1..Taking PROVE t[i] # "#"
    <3>1. i = Taking \/ i \in 1..Taking - 1
      BY <2>1
    <3> QED
      BY <2>1, <3>1
  <2> QED
    BY <2>1, <2>2 DEF NoHash
<1>4. CASE QueryEnds(p)
  <2>1. p = Start + Taking /\ Taking \in 1..Taking
    BY <1>3, Numbers
  <2> QED
    BY <1>1, <1>2, <1>3, <1>4, <2>1, QueryEndsCut
<1>5. CASE ~QueryEnds(p)
  <2>1. /\ c \in QueryBytes \cup {"%"} /\ cs' = "query" /\ p' = p + 1 /\ query_start' = p
        /\ mark' = mark /\ url' = url /\ sent' = sent
    BY <1>5 DEF QueryStart, Taken, KeepsParts, parts, Reading
  <2>2. c # "#" /\ c # SP
    BY <2>1, QueryBytesAre
  <2>3. /\ Taking' = Taking + 1 /\ Taking' \in 1..Len(t) /\ t[Taking'] = c /\ Marked' = Marked
        /\ Asked' = Taking
    BY <1>1, <2>1, <2>2, OneMore
  <2>4. NoHash(t, Taking')
    BY <1>3, <2>2, <2>3 DEF NoHash
  <2>5. Taking' \in 0..Len(t) /\ Asked' <= Taking'
    BY <1>3, <2>3
  <2> QED
    BY <1>2, <2>1, <2>3, <2>4, <2>5, ToQuery
<1> QED
  BY <1>4, <1>5

(* A byte of a query. *)
LEMMA QueryByteCut ==
    ASSUME LInv, Reading, cs = "query", cs' = "query", p' = p + 1, mark' = mark,
           query_start' = query_start, url' = url, c # "#", c # SP
    PROVE  Cut'
<1>1. /\ Taking \in 0..Len(t) /\ PathCut(t, Marked, Asked) /\ Asked <= Taking
      /\ NoHash(t, Taking) /\ cs \in OfTarget
      /\ url = [NoUrl EXCEPT !.path = SubSeq(t, Marked + 1, Asked - 1)]
  BY DEF LInv, Cut, OfTarget
<1>2. sent' = sent
  BY DEF Reading
<1>3. /\ Taking' = Taking + 1 /\ Taking' \in 1..Len(t) /\ t[Taking'] = c /\ Marked' = Marked
      /\ Asked' = Asked
  BY <1>1, <1>2, OneMore
<1>4. NoHash(t, Taking') /\ Taking' \in 0..Len(t)
  BY <1>1, <1>3 DEF NoHash
<1>5. Asked' <= Taking'
  BY <1>1, <1>3, Numbers
<1> QED
  BY <1>1, <1>2, <1>3, <1>4, <1>5, ToQuery

LEMMA QueryIsCut ==
    ASSUME LInv, Reading, Query
    PROVE  Cut'
<1>1. cs = "query" /\ hex = 0
  BY DEF Query
<1>2. CASE QueryEnds(query_start)
  <2>1. /\ Taking \in 0..Len(t) /\ PathCut(t, Marked, Asked) /\ Asked <= Taking
        /\ NoHash(t, Taking)
        /\ url = [NoUrl EXCEPT !.path = SubSeq(t, Marked + 1, Asked - 1)]
    BY <1>1 DEF LInv, Cut, OfTarget
  <2>2. Asked \in 1..Taking /\ query_start = Start + Asked
    BY <2>1, Numbers DEF PathCut
  <2> QED
    BY <1>1, <1>2, <2>1, <2>2, QueryEndsCut
<1>3. CASE (c \in QueryBytes /\ Plain("query")) \/ Percent("query")
  <2>1. c \in QueryBytes \cup {"%"}
    BY <1>3 DEF Percent
  <2> QED
    BY <1>1, <1>3, <2>1, Steps, QueryBytesAre, QueryByteCut
<1> QED
  BY <1>2, <1>3 DEF Query

LEMMA FragmentStartCut ==
    ASSUME LInv, Reading, FragmentStart
    PROVE  Cut'
<1>1. cs = "fragment?" /\ hex = 0 /\ cs \in OfTarget
  <2>1. cs = "fragment?"
    BY DEF FragmentStart
  <2> QED
    BY <2>1, NoEscape DEF OfTarget, OfEscape
<1>2. /\ Taking \in 0..Len(t) /\ HashAt(t, Taking)
      /\ url = [Uri!Parts(t) EXCEPT !.fragment = <<>>]
  BY <1>1 DEF LInv, Cut, OfTarget
<1>3. t \in Seq(Byte) /\ Len(t) \in Nat
  BY Shape DEF LInv
<1>4. sent' = sent /\ mark' = p /\ p' = p + 1
  BY DEF FragmentStart, Reading, Taken
<1>5. CASE c = SP
  <2>1. cs' = "version" /\ url' = [url EXCEPT !.fragment = <<>>] /\ hex' = hex
    BY <1>5, QueryBytesAre DEF FragmentStart, Taken
  <2>2. Taking = Len(t)
    BY <1>1, <1>5, Here
  <2>3. SubSeq(t, Taking + 1, Len(t)) = <<>>
    BY <1>3, <2>2
  <2>4. url' = Uri!Parts(t)
    BY <1>2, <1>3, <2>1, <2>3, FragmentOf
  <2> QED
    BY <1>1, <1>4, <2>1, <2>4, ToVersion DEF OfVersion
<1>6. CASE c # SP
  <2>1. cs' = "fragment" /\ url' = url
    BY <1>6 DEF FragmentStart, Taken, KeepsParts, parts
  <2>2. /\ Taking' = Taking + 1 /\ Taking' \in 1..Len(t) /\ Marked' = Taking
    BY <1>1, <1>4, <1>6, OneMore
  <2>3. Taking' \in 0..Len(t) /\ HashAt(t, Marked')
    BY <1>2, <2>2
  <2> QED
    BY <1>2, <1>4, <2>1, <2>3, ToFragment
<1> QED
  BY <1>5, <1>6

(* A byte of a fragment. *)
LEMMA FragmentByteCut ==
    ASSUME LInv, Reading, cs = "fragment", cs' = "fragment", p' = p + 1, mark' = mark,
           url' = url, c # SP
    PROVE  Cut'
<1>1. /\ Taking \in 0..Len(t) /\ HashAt(t, Marked) /\ cs \in OfTarget
      /\ url = [Uri!Parts(t) EXCEPT !.fragment = <<>>]
  BY DEF LInv, Cut, OfTarget
<1>2. sent' = sent
  BY DEF Reading
<1>3. Taking' \in 1..Len(t) /\ Marked' = Marked
  BY <1>1, <1>2, OneMore
<1>4. Taking' \in 0..Len(t) /\ HashAt(t, Marked')
  BY <1>1, <1>3
<1> QED
  BY <1>1, <1>2, <1>4, ToFragment

LEMMA FragmentIsCut ==
    ASSUME LInv, Reading, Fragment
    PROVE  Cut'
<1>1. cs = "fragment" /\ hex = 0 /\ cs \in OfTarget
  BY DEF Fragment, OfTarget
<1>2. CASE (c \in QueryBytes /\ Plain("fragment")) \/ Percent("fragment")
  <2>1. c \in QueryBytes \cup {"%"}
    BY <1>2 DEF Percent
  <2> QED
    BY <1>1, <1>2, <2>1, Steps, QueryBytesAre, FragmentByteCut
<1>3. CASE /\ c = SP /\ Taken("version")
           /\ url' = [url EXCEPT !.fragment = From(mark)]
           /\ UNCHANGED <<hex, marks, method, version>>
  <2>1. /\ Taking \in 0..Len(t) /\ HashAt(t, Marked)
        /\ url = [Uri!Parts(t) EXCEPT !.fragment = <<>>]
    BY <1>1 DEF LInv, Cut, OfTarget
  <2>2. t \in Seq(Byte) /\ Len(t) \in Nat
    BY Shape DEF LInv
  <2>3. Taking = Len(t)
    BY <1>1, <1>3, Here
  <2>4. mark = Start + Marked /\ Marked \in 0..Taking
    BY <2>1, <2>2, <2>3, Numbers DEF HashAt
  <2>5. From(mark) = SubSeq(t, Marked + 1, Len(t))
    BY <2>1, <2>3, <2>4, Piece
  <2>6. url' = Uri!Parts(t)
    BY <1>3, <2>1, <2>2, <2>5, FragmentOf
  <2> QED
    BY <1>1, <1>3, <2>6, ToVersion DEF OfVersion, Reading, Taken
<1> QED
  BY <1>2, <1>3 DEF Fragment

LEMMA VersionCut ==
    ASSUME LInv, Reading, Version
    PROVE  Cut'
<1>1. cs \in OfVersion /\ cs' \in OfVersion /\ url' = url /\ (hex' = 0 \/ hex' = hex)
      /\ sent' = sent
  BY DEF Version, OfVersion, Reading, Taken, Plain, KeepsParts, parts
<1>2. hex = 0 /\ url = Uri!Parts(t)
  <2>1. cs \notin OfEscape
    BY <1>1 DEF OfVersion, OfEscape
  <2> QED
    BY <1>1, <2>1, NoEscape DEF LInv, Cut
<1> QED
  BY <1>1, <1>2, ToVersion

LEMMA HexDigitCut ==
    ASSUME LInv, Reading, HexDigit
    PROVE  Cut'
<1>1. /\ cs' = cs /\ p' = p + 1 /\ mark' = mark /\ query_start' = query_start /\ url' = url
      /\ c \in xdigit /\ hex > 0
  BY DEF HexDigit, Taken, KeepsParts, marks, parts
<1>2. c \in Inside /\ c # "#" /\ c # "?" /\ c # SP /\ c # ":" /\ c # "/"
  <2>1. c \in Inside
    BY <1>1 DEF Inside
  <2> QED
    BY <1>1, <2>1, InsideIs
<1>3. cs \in OfEscape
  BY <1>1 DEF LInv, Cut
<1>4. CASE cs = "noscheme"
  BY <1>1, <1>2, <1>4, FirstBytes
<1>5. CASE cs \in {"path", "name", "user", "regname"}
  <2>1. cs \in OfPath
    BY <1>5 DEF OfPath
  <2> QED
    BY <1>1, <1>2, <1>3, <2>1, StepInPath
<1>6. CASE cs = "query"
  BY <1>1, <1>2, <1>6, QueryByteCut
<1>7. CASE cs = "fragment"
  BY <1>1, <1>2, <1>7, FragmentByteCut
<1> QED
  BY <1>3, <1>4, <1>5, <1>6, <1>7 DEF OfEscape, Reading

-----------------------------------------------------------------------------
(* The types. *)

Urls == [{"uri", "path", "query", "fragment"} -> Seq(Byte)]

(* What every step does to the variables. *)
Goes == /\ p' \in p + 1..Len(Line) /\ cs' \in States /\ hex' \in 0..2
        /\ mark' \in {mark, p} /\ query_start' \in {query_start, p}
        /\ method' \in Known \cup {method}
        /\ url' \in Urls

LEMMA Now ==
    ASSUME LInv, Reading
    PROVE  /\ p \in Nat /\ Len(Line) \in Nat /\ p + 1 \in p + 1..Len(Line) /\ hex \in 0..2
           /\ mark \in 0..p /\ query_start \in 0..p /\ url \in Urls
           /\ \A m \in {mark, query_start, p} : From(m) \in Seq(Byte)
<1>1. /\ p \in 0..Len(Line) /\ hex \in 0..2 /\ mark \in 0..p /\ query_start \in 0..p /\ url \in Urls
  BY Types DEF LInv, Urls
<1>2. Line \in Seq(Byte) /\ Len(Line) \in Nat
  BY Shape DEF LInv
<1>3. p \in Nat /\ p + 1 \in p + 1..Len(Line)
  BY <1>1, <1>2 DEF Reading
<1>4. ASSUME NEW m \in 0..p PROVE From(m) \in Seq(Byte)
  <2>1. m + 1 \in 1..Len(Line) + 1 /\ p \in (m + 1) - 1..Len(Line)
    BY <1>1, <1>2, <1>3
  <2> QED
    BY <1>2, <2>1, Sub DEF From
<1>5. p \in 0..p
  BY <1>3
<1> QED
  BY <1>1, <1>2, <1>3, <1>4, <1>5

LEMMA UrlWith ==
    ASSUME NEW u \in Urls, NEW x \in Seq(Byte), NEW y \in Seq(Byte)
    PROVE  /\ [u EXCEPT !.path = x] \in Urls /\ [u EXCEPT !.fragment = x] \in Urls
           /\ [u EXCEPT !.path = x, !.uri = x] \in Urls
           /\ [u EXCEPT !.query = x, !.uri = y] \in Urls
BY DEF Urls

LEMMA PathEndsGoes ==
    ASSUME LInv, Reading, NEW m \in {mark, p}, PathEnds(m)
    PROVE  Goes
<1>1. From(m) \in Seq(Byte) /\ url \in Urls /\ hex \in 0..2 /\ p + 1 \in p + 1..Len(Line)
  BY Now
<1>2. url' \in Urls
  BY <1>1, UrlWith DEF PathEnds
<1>3. /\ p' = p + 1 /\ cs' \in States /\ hex' = hex /\ mark' = m /\ query_start' = query_start
      /\ method' = method
  BY DEF PathEnds, Taken, States
<1> QED
  BY <1>1, <1>2, <1>3 DEF Goes

LEMMA QueryEndsGoes ==
    ASSUME LInv, Reading, NEW m \in {query_start, p}, QueryEnds(m)
    PROVE  Goes
<1>1. /\ From(m) \in Seq(Byte) /\ From(mark) \in Seq(Byte) /\ url \in Urls /\ hex \in 0..2
      /\ p + 1 \in p + 1..Len(Line)
  BY Now
<1>2. url' \in Urls
  BY <1>1, UrlWith DEF QueryEnds
<1>3. /\ p' = p + 1 /\ cs' \in States /\ hex' = hex /\ mark' = mark /\ query_start' = m
      /\ method' = method
  BY DEF QueryEnds, Taken, States
<1> QED
  BY <1>1, <1>2, <1>3 DEF Goes

(* A byte is taken and nothing but a mark may change. *)
LEMMA ByteGoes ==
    ASSUME LInv, Reading, p' = p + 1, cs' \in States, hex' \in {0, 2, hex},
           mark' \in {mark, p}, query_start' \in {query_start, p}, parts' = parts
    PROVE  Goes
<1>1. url \in Urls /\ hex \in 0..2 /\ p + 1 \in p + 1..Len(Line)
  BY Now
<1>2. url' = url /\ method' = method
  BY DEF parts
<1> QED
  BY <1>1, <1>2 DEF Goes

LEMMA PlainGoes ==
    ASSUME LInv, Reading, NEW q \in States, Plain(q) \/ Percent(q)
    PROVE  Goes
<1>1. /\ p' = p + 1 /\ cs' = q /\ hex' \in {0, 2} /\ mark' = mark /\ query_start' = query_start
      /\ parts' = parts
  BY DEF Plain, Percent, Taken, marks, KeepsParts
<1> QED
  BY <1>1, ByteGoes

LEMMA LiteralGoes ==
    ASSUME LInv, Reading, Literal
    PROVE  Goes
<1> DEFINE close == Find(Line, "]", p + 1)
<1>1. /\ close <= Len(Line) /\ cs' = "literal" /\ p' = close /\ hex' = 0 /\ mark' = mark
      /\ query_start' = query_start /\ url' = url /\ method' = method
  BY DEF Literal, KeepsParts, marks, parts
<1>2. p \in Nat /\ Len(Line) \in Nat /\ url \in Urls
  BY Now
<1>3. close \in p + 1..Len(Line)
  <2>1. p + 1 \in Nat /\ p + 1 >= 1
    BY <1>2
  <2> QED
    BY <1>1, <1>2, <2>1, FindIs
<1> HIDE DEF close
<1> QED
  BY <1>1, <1>2, <1>3 DEF Goes, States

LEMMA LeavesAuthorityGoes ==
    ASSUME LInv, Reading, LeavesAuthority
    PROVE  Goes
BY PlainGoes, PathEndsGoes DEF LeavesAuthority, States

LEMMA MethodGoes ==
    ASSUME LInv, Reading, MethodByte \/ MethodEnds
    PROVE  Goes
<1>1. CASE MethodByte
  <2>1. /\ p' = p + 1 /\ cs' = "method" /\ hex' = hex /\ mark' = mark /\ parts' = parts
        /\ query_start' = query_start
    BY <1>1 DEF MethodByte, Taken, marks, KeepsParts
  <2> QED
    BY <2>1, ByteGoes DEF States
<1>2. CASE MethodEnds
  <2>1. /\ p' = p + 1 /\ cs' \in {"target", "error"} /\ hex' = hex /\ mark' = mark /\ url' = url
        /\ query_start' = query_start /\ method' \in Known \cup {method}
    BY <1>2 DEF MethodEnds, Taken, marks
  <2>2. url \in Urls /\ hex \in 0..2 /\ p + 1 \in p + 1..Len(Line)
    BY Now
  <2> QED
    BY <2>1, <2>2 DEF Goes, States
<1> QED
  BY <1>1, <1>2

LEMMA FirstGoes ==
    ASSUME LInv, Reading, TargetStart \/ Scheme \/ Hier \/ FirstSegment
    PROVE  Goes
<1>1. {"scheme", "noscheme", "path", "hier"} \subseteq States
  BY DEF States
<1>2. CASE PathEnds(p) \/ PathEnds(mark)
  BY <1>2, PathEndsGoes
<1>3. CASE TargetStart /\ ~PathEnds(p)
  <2>1. /\ p' = p + 1 /\ cs' \in States /\ hex' \in {0, 2} /\ mark' = p
        /\ query_start' = query_start /\ parts' = parts
    BY <1>3 DEF TargetStart, Taken, KeepsParts, States
  <2> QED
    BY <2>1, ByteGoes
<1>4. CASE Hier /\ ~PathEnds(p)
  <2>1. /\ p' = p + 1 /\ cs' \in States /\ hex' \in {0, 2} /\ mark' = p
        /\ query_start' = query_start /\ parts' = parts
    BY <1>4 DEF Hier, Taken, KeepsParts, States
  <2> QED
    BY <2>1, ByteGoes
<1>5. CASE (Scheme \/ FirstSegment) /\ ~PathEnds(mark)
  <2>1. \E q \in {"scheme", "noscheme", "path", "hier"} : Plain(q) \/ Percent(q)
    BY <1>5 DEF Scheme, FirstSegment
  <2> QED
    BY <1>1, <2>1, PlainGoes
<1> QED
  BY <1>2, <1>3, <1>4, <1>5

LEMMA PathGoes ==
    ASSUME LInv, Reading,
           Slash \/ Path \/ Authority \/ PortOrUser \/ User \/ Host \/ Port \/ LiteralEnds
    PROVE  Goes
<1> DEFINE Q == {"authority", "path", "name", "port?", "host", "user", "regname", "port"}
<1>1. Q \subseteq States
  BY DEF States
<1>2. CASE PathEnds(mark) \/ LeavesAuthority \/ Literal
  BY <1>2, PathEndsGoes, LeavesAuthorityGoes, LiteralGoes
<1>3. CASE ~(PathEnds(mark) \/ LeavesAuthority \/ Literal)
  <2>1. \E q \in Q : Plain(q) \/ Percent(q)
    BY <1>3 DEF Slash, Path, Authority, PortOrUser, User, Host, Port, LiteralEnds
  <2> HIDE DEF Q
  <2> QED
    BY <1>1, <2>1, PlainGoes
<1> QED
  BY <1>2, <1>3

LEMMA QueryGoes ==
    ASSUME LInv, Reading, QueryStart \/ Query
    PROVE  Goes
<1>1. CASE QueryEnds(p) \/ QueryEnds(query_start)
  BY <1>1, QueryEndsGoes
<1>2. CASE QueryStart /\ ~QueryEnds(p)
  <2>1. /\ p' = p + 1 /\ cs' = "query" /\ hex' \in {0, 2} /\ mark' = mark
        /\ query_start' = p /\ parts' = parts
    BY <1>2 DEF QueryStart, Taken, KeepsParts
  <2> QED
    BY <2>1, ByteGoes DEF States
<1>3. CASE Query /\ ~QueryEnds(query_start)
  BY <1>3, PlainGoes DEF Query, States
<1> QED
  BY <1>1, <1>2, <1>3

LEMMA FragmentGoes ==
    ASSUME LInv, Reading, FragmentStart \/ Fragment
    PROVE  Goes
<1>1. /\ url \in Urls /\ hex \in 0..2 /\ p + 1 \in p + 1..Len(Line) /\ <<>> \in Seq(Byte)
      /\ From(mark) \in Seq(Byte)
  BY Now
<1>2. CASE FragmentStart /\ url' = [url EXCEPT !.fragment = <<>>]
  <2>1. url' \in Urls
    BY <1>1, <1>2, UrlWith
  <2>2. /\ p' = p + 1 /\ cs' \in {"version", "fragment"} /\ hex' \in {0, 2, hex} /\ mark' = p
        /\ query_start' = query_start /\ method' = method
    BY <1>2 DEF FragmentStart, Taken, KeepsParts, parts
  <2> QED
    BY <1>1, <2>1, <2>2 DEF Goes, States
<1>3. CASE FragmentStart /\ url' # [url EXCEPT !.fragment = <<>>]
  <2>1. /\ p' = p + 1 /\ cs' = "fragment" /\ hex' \in {0, 2} /\ mark' = p
        /\ query_start' = query_start /\ parts' = parts
    BY <1>3 DEF FragmentStart, Taken, KeepsParts
  <2> QED
    BY <2>1, ByteGoes DEF States
<1>4. CASE Fragment /\ (Plain("fragment") \/ Percent("fragment"))
  BY <1>4, PlainGoes DEF States
<1>5. CASE Fragment /\ ~(Plain("fragment") \/ Percent("fragment"))
  <2>1. /\ p' = p + 1 /\ cs' = "version" /\ hex' = hex /\ mark' = mark
        /\ url' = [url EXCEPT !.fragment = From(mark)]
        /\ query_start' = query_start /\ method' = method
    BY <1>5 DEF Fragment, Taken, marks
  <2>2. url' \in Urls
    BY <1>1, <2>1, UrlWith
  <2> QED
    BY <1>1, <2>1, <2>2 DEF Goes, States
<1> QED
  BY <1>2, <1>3, <1>4, <1>5

LEMMA VersionGoes ==
    ASSUME LInv, Reading, Version
    PROVE  Goes
<1>1. /\ p' = p + 1 /\ cs' \in {"http", "cr", "line"} /\ hex' \in {0, hex} /\ mark' \in {mark, p}
      /\ query_start' = query_start /\ method' = method /\ url' = url
  BY DEF Version, Taken, Plain, KeepsParts, marks, parts
<1>2. url \in Urls /\ hex \in 0..2 /\ p + 1 \in p + 1..Len(Line)
  BY Now
<1> QED
  BY <1>1, <1>2 DEF Goes, States

LEMMA HexDigitGoes ==
    ASSUME LInv, Reading, HexDigit
    PROVE  Goes
<1>1. /\ p' = p + 1 /\ cs' = cs /\ hex' = hex - 1 /\ hex > 0 /\ mark' = mark
      /\ query_start' = query_start /\ method' = method /\ url' = url
  BY DEF HexDigit, Taken, KeepsParts, marks, parts
<1>2. url \in Urls /\ hex \in 0..2 /\ p + 1 \in p + 1..Len(Line) /\ cs \in States
  BY Now, Types DEF LInv
<1> QED
  BY <1>1, <1>2 DEF Goes

LEMMA GoesTyped ==
    ASSUME LInv, Reading, Goes
    PROVE  LineTypeOK' /\ sent' \in RequestLineType
<1>1. sent' = sent /\ Line' = Line
  BY DEF Reading, Line
<1>2. p \in Nat /\ Len(Line) \in Nat /\ mark \in 0..p /\ query_start \in 0..p
  BY Now
<1>3. p' \in 0..Len(Line)' /\ mark' \in 0..p' /\ query_start' \in 0..p'
  BY <1>1, <1>2 DEF Goes
<1>4. method' \in Known \cup {""}
  <2>1. method \in Known \cup {""}
    BY Zenon DEF LInv, LineTypeOK
  <2>2. method' \in Known \cup {method}
    BY DEF Goes
  <2> QED
    BY <2>1, <2>2, Zenon
<1>5. LineTypeOK'
  <2>1. cs' \in States /\ hex' \in 0..2 /\ url' \in Urls
    BY DEF Goes
  <2> QED
    BY <1>3, <1>4, <2>1, Zenon DEF LineTypeOK, Urls
<1> QED
  BY <1>1, <1>5 DEF LInv

-----------------------------------------------------------------------------
(* The request line by itself: what a connection does with it in Exchange. *)

LSpec == LineInit /\ [][execute]_lvars

LEMMA LineStarts == LineInit => LInv
<1> SUFFICES ASSUME LineInit PROVE LInv
  OBVIOUS
<1>1. /\ sent \in RequestLineType /\ p = 0 /\ cs = "method" /\ hex = 0 /\ mark = 0
      /\ query_start = 0 /\ url = NoUrl
  BY RequestLinesAssumption DEF LineInit
<1>2. Len(Line) \in Nat /\ Len(sent.method) \in Nat
  BY <1>1, Shape
<1>3. method \in Known \cup {""}
  BY Zenon DEF LineInit
<1>4. NoUrl \in [{"uri", "path", "query", "fragment"} -> Seq(Byte)]
  <2>1. <<>> \in Seq(Byte)
    OBVIOUS
  <2>2. NoUrl = [f \in {"uri", "path", "query", "fragment"} |-> <<>>]
    BY DEF NoUrl
  <2> QED
    BY <2>1, <2>2
<1>5. p \in 0..Len(Line) /\ cs \in States /\ hex \in 0..2 /\ mark \in 0..p /\ query_start \in 0..p
  BY <1>1, <1>2 DEF States
<1>6. LineTypeOK
  BY <1>1, <1>3, <1>4, <1>5, Zenon DEF LineTypeOK
<1>7. p <= Len(sent.method) /\ ~(hex > 0)
  BY <1>1, <1>2
<1>8. Cut
  BY <1>1, <1>7 DEF Cut, OfTarget, OfPath, OfVersion
<1> QED
  BY <1>1, <1>6, <1>8 DEF LInv

LEMMA LineMoves == LInv /\ Reading /\ Moves => LInv'
<1> SUFFICES ASSUME LInv, Reading, Moves PROVE LInv'
  OBVIOUS
<1>1. CASE MethodByte \/ MethodEnds
  BY <1>1, MethodByteCut, MethodEndsCut, MethodGoes, GoesTyped DEF LInv
<1>2. CASE TargetStart \/ Scheme \/ Hier \/ FirstSegment
  BY <1>2, TargetStartCut, SchemeCut, HierCut, FirstSegmentCut, FirstGoes, GoesTyped DEF LInv
<1>3. CASE Slash \/ Path \/ Authority \/ PortOrUser \/ User \/ Host \/ Port \/ LiteralEnds
  BY <1>3, SlashCut, PathIsCut, AuthorityCut, PortOrUserCut, UserCut, HostCut, PortCut,
     LiteralEndsCut, PathGoes, GoesTyped DEF LInv
<1>4. CASE QueryStart \/ Query
  BY <1>4, QueryStartCut, QueryIsCut, QueryGoes, GoesTyped DEF LInv
<1>5. CASE FragmentStart \/ Fragment
  BY <1>5, FragmentStartCut, FragmentIsCut, FragmentGoes, GoesTyped DEF LInv
<1>6. CASE Version
  BY <1>6, VersionCut, VersionGoes, GoesTyped DEF LInv
<1>7. CASE HexDigit
  BY <1>7, HexDigitCut, HexDigitGoes, GoesTyped DEF LInv
<1> QED
  BY <1>1, <1>2, <1>3, <1>4, <1>5, <1>6, <1>7 DEF Moves

LEMMA LineRejects == LInv /\ Reject => LInv'
<1> SUFFICES ASSUME LInv, Reject PROVE LInv'
  OBVIOUS
<1>1. Reading /\ Taken("error") /\ UNCHANGED <<hex, marks, parts>>
  BY DEF Reject
<1>2. Goes
  <2>1. p' = p + 1 /\ cs' = "error" /\ hex' = hex /\ mark' = mark /\ query_start' = query_start
        /\ parts' = parts
    BY <1>1 DEF Taken, marks
  <2> QED
    BY <1>1, <2>1, ByteGoes DEF States
<1>3. Cut'
  BY <1>1, ToError DEF Taken
<1> QED
  BY <1>1, <1>2, <1>3, GoesTyped DEF LInv

LEMMA LineStutters == LInv /\ UNCHANGED lvars => LInv'
<1> SUFFICES ASSUME LInv, UNCHANGED lvars PROVE LInv'
  OBVIOUS
<1>1. /\ sent' = sent /\ p' = p /\ cs' = cs /\ hex' = hex /\ mark' = mark
      /\ query_start' = query_start /\ method' = method /\ url' = url
  BY DEF lvars, marks, parts
<1>2. LineTypeOK'
  <2>1. Line' = Line
    BY <1>1 DEF Line
  <2> QED
    BY <1>1, <2>1, Zenon DEF LInv, LineTypeOK
<1>3. /\ t' = t /\ Uri!Parts(t)' = Uri!Parts(t) /\ Taking' = Taking /\ Marked' = Marked
      /\ Asked' = Asked
  BY <1>1, SameParts DEF Taking, Marked, Asked, Start
<1>4. /\ InPath(t, Taking)' <=> InPath(t, Taking)
      /\ NoColon(t, Taking)' <=> NoColon(t, Taking)
      /\ SchemeIs(t, Taking, Taking)' <=> SchemeIs(t, Taking, Taking)
      /\ Settled(t, Marked, Taking)' <=> Settled(t, Marked, Taking)
  BY <1>3 DEF InPath, NoColon, SchemeIs, Settled
<1>5. /\ PathCut(t, Marked, Taking)' <=> PathCut(t, Marked, Taking)
      /\ PathCut(t, Marked, Asked)' <=> PathCut(t, Marked, Asked)
  BY <1>3 DEF PathCut, InPath, NoColon, SchemeIs, Skips, Settled
<1>6. /\ HashAt(t, Taking)' <=> HashAt(t, Taking)
      /\ HashAt(t, Marked)' <=> HashAt(t, Marked)
      /\ NoHash(t, Taking)' <=> NoHash(t, Taking)
  BY <1>3 DEF HashAt, NoHash
<1>7. Cut'
  <2>1. NoUrl' = NoUrl /\ OfPath' = OfPath /\ OfTarget' = OfTarget /\ OfVersion' = OfVersion
        /\ OfEscape' = OfEscape
    BY DEF NoUrl, OfPath, OfTarget, OfVersion, OfEscape
  <2> QED
    BY <1>1, <1>3, <1>4, <1>5, <1>6, <2>1 DEF LInv, Cut
<1> QED
  BY <1>1, <1>2, <1>7 DEF LInv

LEMMA LineInvariant == LSpec => []LInv
<1>1. LInv /\ [execute]_lvars => LInv'
  BY LineMoves, LineRejects, LineStutters DEF execute
<1> QED
  BY LineStarts, <1>1, PTL DEF LSpec

(* The machine stays within its line, its marks within what it has taken, and
   what it hands to the request is made of the bytes of the line. *)
THEOREM LineTyped == LSpec => []LineTypeOK
<1>1. LInv => LineTypeOK
  BY DEF LInv
<1> QED
  BY LineInvariant, <1>1, PTL

(* Whatever a client sends as its request line: when execute accepts it, the
   parts that request_path, request_uri, query_string and fragment cut out of
   it between two marks are the components of its target. *)
THEOREM ComponentsAlways == LSpec => []ComponentsAsWritten
<1>1. LInv => ComponentsAsWritten
  BY DEF LInv, Cut, ComponentsAsWritten, Accepted, OfVersion, t
<1> QED
  BY LineInvariant, <1>1, PTL

-----------------------------------------------------------------------------
(* What of the grammar has been read so far. *)

(* After the first a bytes of s, up to the n-th, are bytes of B and escapes, of
   which the last still asks for h digits. *)
Fine(s, a, n, B, h) ==
    \A i \in a + 1..n : /\ s[i] \in B \cup {"%"}
                        /\ s[i] = "%" => /\ \A j \in {i + 1, i + 2} : j <= n => s[j] \in xdigit
                                         /\ i + 2 <= n \/ h = i + 2 - n

SchemeBytes == alpha \cup digit \cup {"+", "-", "."}
NameBytes   == unreserved \cup sub_delims
UserBytes   == NameBytes \cup {":"}
PathBytes   == pchar \cup {"/"}

(* The first k bytes of s are a legal scheme with its colon, or none. *)
SchemeTo(s, k) == k > 0 => /\ k >= 2 /\ s[1] \in alpha
                           /\ \A i \in 1..k - 1 : s[i] \in SchemeBytes

(* A path that begins after k begins with two slashes; then the authority
   begins after d = k + 2, its host after a and ends at e, and its port at n. *)
Slashes(s, k, n) == k + 2 <= n /\ s[k + 1] = "/" /\ s[k + 2] = "/"
UserAt(s, d, a)  == \/ a = d
                    \/ a > d /\ s[a] = "@" /\ Fine(s, d, a - 1, UserBytes, 0)
HostTo(s, a, e)  == \/ Fine(s, a, e, NameBytes, 0)
                    \/ /\ a + 2 <= e /\ s[a + 1] = "[" /\ s[e] = "]"
                       /\ IP_literal(SubSeq(s, a + 2, e - 1))
PortTo(s, e, n)  == e < n /\ s[e + 1] = ":" /\ \A i \in e + 2..n : s[i] \in digit

AuthorityTo(s, d, n) == \E a \in d..n : \E e \in a..n :
                            UserAt(s, d, a) /\ HostTo(s, a, e) /\ (e = n \/ PortTo(s, e, n))

(* Two slashes will not begin the path any more. *)
NoSlashes(s, k, n) == k < n /\ (s[k + 1] # "/" \/ (k + 2 <= n /\ s[k + 2] # "/"))

PathTo(s, k, n, h) == \/ NoSlashes(s, k, n) /\ Fine(s, k, n, PathBytes, h)
                      \/ /\ Slashes(s, k, n)
                         /\ \E e \in k + 2..n - 1 : /\ AuthorityTo(s, k + 2, e) /\ s[e + 1] = "/"
                                                    /\ Fine(s, e + 1, n, PathBytes, h)

LegalFront(s) == /\ Uri!HasScheme(s) => Uri!LegalScheme(Uri!Scheme(s))
                 /\ Uri!LegalPath(Uri!Parts(s).path)
                 /\ Uri!Wellformed(Uri!Parts(s).query, QueryBytes)

End == Start + Len(t) + 1
Versions == {Name \o <<"0">>, Name \o <<"1">>}

InAuthority == OfPath \ {"slash", "path"}

(* An authority that begins after d, as state q has read it up to n. *)
AuthorityRead(q, s, d, n, h) ==
    /\ q = "authority" => n = d
    /\ q = "name" => Fine(s, d, n, NameBytes, h)
    /\ q = "port?" => \E e \in d..n : Fine(s, d, e, NameBytes, 0) /\ PortTo(s, e, n)
    /\ q = "user" => Fine(s, d, n, UserBytes, h)
    /\ q = "host" => UserAt(s, d, n)
    /\ q = "regname" => \E a \in d..n : UserAt(s, d, a) /\ Fine(s, a, n, NameBytes, h)
    /\ q = "literal" => \E a \in d..n : UserAt(s, d, a) /\ HostTo(s, a, n)
    /\ q = "port" => \E a \in d..n : \E e \in a..n :
                        UserAt(s, d, a) /\ HostTo(s, a, e) /\ PortTo(s, e, n)

(* What has been read of the method, of the target and of the version. *)
MethodRead == cs \notin {"method", "error"} => method \in Known /\ Spelling[method] = sent.method

TargetRead ==
    /\ cs = "scheme" => \A i \in 1..Taking : t[i] \in SchemeBytes
    /\ cs = "scheme" => t[1] \in alpha
    /\ cs \in {"scheme", "noscheme"} => Taking >= 1 /\ Fine(t, 0, Taking, PathBytes, hex)
    /\ cs = "hier" => SchemeTo(t, Taking)
    /\ cs \in {"query?", "query"} \cup OfPath => SchemeTo(t, Marked)
    /\ cs = "slash" => Taking = Marked + 1 /\ t[Taking] = "/"
    /\ cs = "path" => PathTo(t, Marked, Taking, hex)
    /\ cs \in InAuthority => /\ Slashes(t, Marked, Taking)
                             /\ AuthorityRead(cs, t, Marked + 2, Taking, hex)
    /\ cs = "query?" => Uri!LegalPath(SubSeq(t, Marked + 1, Taking - 1))
    /\ cs = "query" => /\ Uri!LegalPath(SubSeq(t, Marked + 1, Asked - 1))
                       /\ Fine(t, Asked, Taking, QueryBytes, hex)
    /\ cs \in {"fragment?", "fragment"} => LegalFront(t)
    /\ cs = "fragment" => Fine(t, Marked, Taking, QueryBytes, hex)
    /\ cs \in OfVersion => Uri!LegalTarget(t)

VersionRead ==
    /\ cs = "version" => p = End
    /\ cs = "http" => /\ mark = End /\ p - End \in 1..8
                      /\ \A i \in 1..p - End : i <= 7 => Line[End + i] = Name[i]
                      /\ p - End = 8 => Line[End + 8] \in {"0", "1"}
    /\ Accepted => sent.version \in Versions

GInv == LInv /\ MethodRead /\ TargetRead /\ VersionRead

(* UriReference has the grammar of UriGrammar. *)
LEMMA SameGrammar ==
    /\ Uri!alpha = alpha /\ Uri!digit = digit /\ Uri!xdigit = xdigit
    /\ Uri!unreserved = unreserved /\ Uri!sub_delims = sub_delims /\ Uri!pchar = pchar
    /\ \A s, B : Uri!All(s, B) <=> All(s, B)
    /\ \A s, b : Uri!Starts(s, b) <=> Starts(s, b)
<1>1. /\ Uri!alpha = alpha /\ Uri!digit = digit /\ Uri!xdigit = xdigit
      /\ Uri!unreserved = unreserved /\ Uri!sub_delims = sub_delims /\ Uri!pchar = pchar
  BY Zenon DEF Uri!alpha, Uri!upper, Uri!lower, Uri!digit, Uri!xdigit, Uri!unreserved,
     Uri!sub_delims, Uri!pchar, alpha, upper, lower, digit, xdigit, unreserved, sub_delims, pchar
<1>2. /\ \A s, B : Uri!All(s, B) <=> All(s, B)
      /\ \A s, b : Uri!Starts(s, b) <=> Starts(s, b)
  BY Zenon DEF Uri!All, All, Uri!Starts, Starts
<1> QED
  BY <1>1, <1>2, Zenon

-----------------------------------------------------------------------------
(* Bytes and escapes. *)

LEMMA Letters ==
    /\ \A b \in NameBytes \cup UserBytes \cup digit \cup xdigit \cup alpha \cup Control
                   \cup {".", "+", "-"} :
          b \notin {"@", "[", "]", "/", "%", "#", "?", SP}
    /\ \A b \in pchar : b \notin {"[", "]", "/", "%", "#", "?", SP}
    /\ \A b \in NameBytes \cup digit \cup xdigit \cup alpha \cup {".", "+", "-"} : b # ":"
    /\ xdigit \subseteq NameBytes /\ xdigit \subseteq UserBytes /\ xdigit \subseteq PathBytes
    /\ xdigit \subseteq QueryBytes /\ digit \subseteq UserBytes
    /\ NameBytes \subseteq UserBytes
    /\ SchemeBytes \subseteq PathBytes
<1> DEFINE No == {"@", "[", "]", "/", "%", "#", "?", SP}
<1>1. ASSUME NEW b \in digit PROVE b \notin No /\ b # ":"
  BY Zenon DEF digit, SP
<1>2. ASSUME NEW b \in upper PROVE b \notin No /\ b # ":"
  BY Zenon DEF upper, SP
<1>3. ASSUME NEW b \in lower PROVE b \notin No /\ b # ":"
  BY Zenon DEF lower, SP
<1>4. ASSUME NEW b \in sub_delims PROVE b \notin No /\ b # ":"
  BY Zenon DEF sub_delims, SP
<1>5. ASSUME NEW b \in {"-", ".", "_", "~", "+"} PROVE b \notin No /\ b # ":"
  BY Zenon DEF SP
<1>6. ASSUME NEW b \in {"A", "B", "C", "D", "E", "F", "a", "b", "c", "d", "e", "f"}
      PROVE  b \notin No /\ b # ":" /\ b \in alpha
  <2>1. b \notin No /\ b # ":"
    BY <1>6, Zenon DEF SP
  <2>2. b \in alpha
    BY <1>6, Zenon DEF alpha, upper, lower
  <2> QED
    BY <2>1, <2>2
<1>7. ASSUME NEW b \in Control PROVE b \notin No
  BY Zenon DEF Control, SP
<1>8. ASSUME NEW b \in {":", "@"} PROVE b \notin {"[", "]", "/", "%", "#", "?", SP}
  BY Zenon DEF SP
<1>9. ":" \notin No
  BY Zenon DEF SP
<1> HIDE DEF No
<1>10. \A b \in alpha : b \notin No /\ b # ":"
  BY <1>2, <1>3 DEF alpha
<1>11. \A b \in unreserved : b \notin No /\ b # ":"
  BY <1>1, <1>5, <1>10 DEF unreserved
<1>12. \A b \in xdigit : b \notin No /\ b # ":"
  BY <1>1, <1>6 DEF xdigit
<1>13. /\ xdigit \subseteq unreserved /\ digit \subseteq unreserved /\ alpha \subseteq unreserved
  BY <1>6 DEF xdigit, unreserved
<1>14. \A b \in NameBytes : b \notin No /\ b # ":"
  BY <1>4, <1>11 DEF NameBytes
<1>15. \A b \in UserBytes : b \notin No
  BY <1>9, <1>14 DEF UserBytes
<1>16. \A b \in pchar : b \notin {"[", "]", "/", "%", "#", "?", SP}
  <2>1. {"[", "]", "/", "%", "#", "?", SP} \subseteq No
    BY DEF No
  <2> QED
    BY <1>4, <1>8, <1>11, <2>1 DEF pchar
<1>17. "+" \in sub_delims
  BY Zenon DEF sub_delims
<1>18. SchemeBytes \subseteq PathBytes
  BY <1>13, <1>17 DEF SchemeBytes, PathBytes, pchar, unreserved
<1> QED
  BY <1>1, <1>5, <1>7, <1>10, <1>12, <1>13, <1>14, <1>15, <1>16, <1>18
     DEF NameBytes, UserBytes, PathBytes, QueryBytes, pchar, No

LEMMA FineNone ==
    ASSUME NEW s, NEW a \in Nat, NEW B, NEW h
    PROVE  Fine(s, a, a, B, h)
BY DEF Fine

LEMMA FinePlain ==
    ASSUME NEW s, NEW a \in Nat, NEW n \in Nat, a <= n, NEW B, Fine(s, a, n, B, 0),
           s[n + 1] \in B, s[n + 1] # "%"
    PROVE  Fine(s, a, n + 1, B, 0)
<1> SUFFICES ASSUME NEW i \in a + 1..n + 1
             PROVE  /\ s[i] \in B \cup {"%"}
                    /\ s[i] = "%" => /\ \A j \in {i + 1, i + 2} : j <= n + 1 => s[j] \in xdigit
                                     /\ i + 2 <= n + 1 \/ 0 = i + 2 - (n + 1)
  BY DEF Fine
<1>1. CASE i = n + 1
  BY <1>1
<1>2. CASE i # n + 1
  <2>1. i \in a + 1..n
    BY <1>2
  <2>2. /\ s[i] \in B \cup {"%"}
        /\ s[i] = "%" => /\ \A j \in {i + 1, i + 2} : j <= n => s[j] \in xdigit
                         /\ i + 2 <= n \/ 0 = i + 2 - n
    BY <2>1 DEF Fine
  <2>3. s[i] = "%" => i + 2 <= n /\ i + 1 <= n
    BY <2>1, <2>2
  <2> QED
    BY <2>1, <2>2, <2>3
<1> QED
  BY <1>1, <1>2

LEMMA FinePercent ==
    ASSUME NEW s, NEW a \in Nat, NEW n \in Nat, a <= n, NEW B, Fine(s, a, n, B, 0), s[n + 1] = "%"
    PROVE  Fine(s, a, n + 1, B, 2)
<1> SUFFICES ASSUME NEW i \in a + 1..n + 1
             PROVE  /\ s[i] \in B \cup {"%"}
                    /\ s[i] = "%" => /\ \A j \in {i + 1, i + 2} : j <= n + 1 => s[j] \in xdigit
                                     /\ i + 2 <= n + 1 \/ 2 = i + 2 - (n + 1)
  BY DEF Fine
<1>1. CASE i = n + 1
  BY <1>1
<1>2. CASE i # n + 1
  <2>1. i \in a + 1..n
    BY <1>2
  <2>2. /\ s[i] \in B \cup {"%"}
        /\ s[i] = "%" => /\ \A j \in {i + 1, i + 2} : j <= n => s[j] \in xdigit
                         /\ i + 2 <= n \/ 0 = i + 2 - n
    BY <2>1 DEF Fine
  <2>3. s[i] = "%" => i + 2 <= n /\ i + 1 <= n
    BY <2>1, <2>2
  <2> QED
    BY <2>1, <2>2, <2>3
<1> QED
  BY <1>1, <1>2

LEMMA FineDigit ==
    ASSUME NEW s, NEW a \in Nat, NEW n \in Nat, a <= n, NEW B, NEW h \in 1..2, Fine(s, a, n, B, h),
           s[n + 1] \in xdigit, xdigit \subseteq B
    PROVE  Fine(s, a, n + 1, B, h - 1)
<1>0. s[n + 1] # "%"
  BY Letters
<1> SUFFICES ASSUME NEW i \in a + 1..n + 1
             PROVE  /\ s[i] \in B \cup {"%"}
                    /\ s[i] = "%" => /\ \A j \in {i + 1, i + 2} : j <= n + 1 => s[j] \in xdigit
                                     /\ i + 2 <= n + 1 \/ h - 1 = i + 2 - (n + 1)
  BY DEF Fine
<1>1. CASE i = n + 1
  BY <1>0, <1>1
<1>2. CASE i # n + 1
  <2>1. i \in a + 1..n
    BY <1>2
  <2>2. /\ s[i] \in B \cup {"%"}
        /\ s[i] = "%" => /\ \A j \in {i + 1, i + 2} : j <= n => s[j] \in xdigit
                         /\ i + 2 <= n \/ h = i + 2 - n
    BY <2>1 DEF Fine
  <2>3. ASSUME s[i] = "%", NEW j \in {i + 1, i + 2}, j <= n + 1 PROVE s[j] \in xdigit
    <3>1. j \in Nat /\ (j <= n \/ j = n + 1)
      BY <2>1, <2>3
    <3> QED
      BY <2>2, <2>3, <3>1
  <2>4. s[i] = "%" => i + 2 <= n + 1 \/ h - 1 = i + 2 - (n + 1)
    BY <2>1, <2>2
  <2> QED
    BY <2>2, <2>3, <2>4
<1> QED
  BY <1>1, <1>2

LEMMA FineMore ==
    ASSUME NEW s, NEW a, NEW n, NEW A, NEW B, NEW h, A \subseteq B, Fine(s, a, n, A, h)
    PROVE  Fine(s, a, n, B, h)
BY DEF Fine

LEMMA FineWellformed ==
    ASSUME NEW s \in Seq(Byte), NEW a \in Nat, NEW n \in Nat, a <= n, n <= Len(s), NEW B,
           Fine(s, a, n, B, 0)
    PROVE  Uri!Wellformed(SubSeq(s, a + 1, n), B)
<1> DEFINE x == SubSeq(s, a + 1, n)
<1>1. x \in Seq(Byte) /\ Len(x) = n - a /\ \A i \in 1..n - a : x[i] = s[a + i]
  <2>1. /\ a + 1 \in 1..Len(s) + 1 /\ n \in (a + 1) - 1..Len(s) /\ n - (a + 1) + 1 = n - a
    OBVIOUS
  <2>2. /\ x \in Seq(Byte) /\ Len(x) = n - a
        /\ \A i \in 1..n - a : x[i] = s[(a + 1) + i - 1]
    BY <2>1, Sub
  <2>3. \A i \in 1..n - a : (a + 1) + i - 1 = a + i
    OBVIOUS
  <2> QED
    BY <2>2, <2>3
<1> HIDE DEF x
<1>2. ASSUME NEW i \in 1..n - a
      PROVE  /\ x[i] \in B \cup {"%"}
             /\ x[i] = "%" => i + 2 <= n - a /\ x[i + 1] \in xdigit /\ x[i + 2] \in xdigit
  <2>1. a + i \in a + 1..n /\ x[i] = s[a + i]
    BY <1>1
  <2>2. /\ s[a + i] \in B \cup {"%"}
        /\ s[a + i] = "%" => /\ \A j \in {a + i + 1, a + i + 2} : j <= n => s[j] \in xdigit
                             /\ a + i + 2 <= n \/ 0 = a + i + 2 - n
    BY <2>1 DEF Fine
  <2>3. ASSUME x[i] = "%" PROVE i + 2 <= n - a /\ x[i + 1] \in xdigit /\ x[i + 2] \in xdigit
    <3>1. /\ i + 2 <= n - a /\ i + 1 \in 1..n - a /\ i + 2 \in 1..n - a
          /\ a + i + 1 <= n /\ a + i + 2 <= n /\ a + (i + 1) = a + i + 1 /\ a + (i + 2) = a + i + 2
      BY <2>1, <2>2, <2>3
    <3>2. s[a + i + 1] \in xdigit /\ s[a + i + 2] \in xdigit
      BY <2>1, <2>2, <2>3, <3>1
    <3>3. x[i + 1] = s[a + i + 1] /\ x[i + 2] = s[a + i + 2]
      BY <1>1, <3>1
    <3> QED
      BY <3>1, <3>2, <3>3
  <2> QED
    BY <2>1, <2>2, <2>3
<1> QED
  BY <1>1, <1>2, SameGrammar DEF Uri!Wellformed, All, x

-----------------------------------------------------------------------------
(* The authority and the path: what has been read piece by piece is what the
   reference takes apart. *)

LEMMA LiteralLetters == \A b \in OfLiteral : b \notin {"@", "[", "]", "/"}
BY Letters DEF OfLiteral, UserBytes, NameBytes

LEMMA SubSub ==
    ASSUME NEW s \in Seq(Byte), NEW a \in Nat, NEW n \in Nat, a <= n, n <= Len(s),
           NEW i \in 1..(n - a) + 1, NEW j \in i - 1..n - a
    PROVE  SubSeq(SubSeq(s, a + 1, n), i, j) = SubSeq(s, a + i, a + j)
<1> DEFINE x == SubSeq(s, a + 1, n)
           y == SubSeq(x, i, j)
           z == SubSeq(s, a + i, a + j)
<1>1. x \in Seq(Byte) /\ Len(x) = n - a /\ \A m \in 1..n - a : x[m] = s[a + m]
  <2>1. /\ a + 1 \in 1..Len(s) + 1 /\ n \in (a + 1) - 1..Len(s) /\ n - (a + 1) + 1 = n - a
    OBVIOUS
  <2>2. /\ x \in Seq(Byte) /\ Len(x) = n - a
        /\ \A m \in 1..n - a : x[m] = s[(a + 1) + m - 1]
    BY <2>1, Sub
  <2>3. \A m \in 1..n - a : (a + 1) + m - 1 = a + m
    OBVIOUS
  <2> QED
    BY <2>2, <2>3
<1> HIDE DEF x
<1>2. y \in Seq(Byte) /\ Len(y) = j - i + 1 /\ \A m \in 1..j - i + 1 : y[m] = x[i + m - 1]
  <2>1. i \in 1..Len(x) + 1 /\ j \in i - 1..Len(x)
    BY <1>1
  <2> QED
    BY <1>1, <2>1, Sub
<1>3. z \in Seq(Byte) /\ Len(z) = j - i + 1 /\ \A m \in 1..j - i + 1 : z[m] = s[a + i + m - 1]
  <2>1. /\ a + i \in 1..Len(s) + 1 /\ a + j \in (a + i) - 1..Len(s)
        /\ (a + j) - (a + i) + 1 = j - i + 1
    OBVIOUS
  <2>2. /\ z \in Seq(Byte) /\ Len(z) = j - i + 1
        /\ \A m \in 1..j - i + 1 : z[m] = s[(a + i) + m - 1]
    BY <2>1, Sub
  <2> QED
    BY <2>2
<1> HIDE DEF y, z
<1>4. ASSUME NEW m \in 1..j - i + 1 PROVE y[m] = z[m]
  <2>1. i + m - 1 \in 1..n - a /\ a + (i + m - 1) = a + i + m - 1
    OBVIOUS
  <2> QED
    BY <1>1, <1>2, <1>3, <2>1
<1>5. y = z
  BY <1>2, <1>3, <1>4
<1> QED
  BY <1>5 DEF y, z, x

(* A piece, from the byte after a on. *)
LEMMA PieceIs ==
    ASSUME NEW s \in Seq(Byte), NEW a \in Nat, NEW n \in Nat, a <= n, n <= Len(s)
    PROVE  /\ SubSeq(s, a + 1, n) \in Seq(Byte) /\ Len(SubSeq(s, a + 1, n)) = n - a
           /\ \A i \in 1..n - a : SubSeq(s, a + 1, n)[i] = s[a + i]
<1>1. a + 1 \in 1..Len(s) + 1 /\ n \in (a + 1) - 1..Len(s) /\ n - (a + 1) + 1 = n - a
  OBVIOUS
<1>2. /\ SubSeq(s, a + 1, n) \in Seq(Byte) /\ Len(SubSeq(s, a + 1, n)) = n - a
      /\ \A i \in 1..n - a : SubSeq(s, a + 1, n)[i] = s[(a + 1) + i - 1]
  BY <1>1, Sub
<1>3. \A i \in 1..n - a : (a + 1) + i - 1 = a + i
  OBVIOUS
<1> QED
  BY <1>2, <1>3

(* What is cut out of a piece at the first of some bytes, the one at e + 1. *)
CutsAt(s, a, e, n, B) == /\ a <= e /\ e <= n /\ n <= Len(s)
                         /\ \A i \in a + 1..e : s[i] \notin B
                         /\ e < n => s[e + 1] \in B

IsCut(s, a, e, n, B) ==
    /\ Uri!First(SubSeq(s, a + 1, n), B) = e - a + 1
    /\ Uri!Before(SubSeq(s, a + 1, n), B) = SubSeq(s, a + 1, e)
    /\ e < n => Uri!After(SubSeq(s, a + 1, n), B) = SubSeq(s, e + 2, n)
    /\ e = n => Uri!After(SubSeq(s, a + 1, n), B) = <<>>

LEMMA CutAt ==
    ASSUME NEW s \in Seq(Byte), NEW a \in Nat, NEW e \in Nat, NEW n \in Nat, NEW B,
           CutsAt(s, a, e, n, B)
    PROVE  IsCut(s, a, e, n, B)
<1> DEFINE x == SubSeq(s, a + 1, n)
<1> USE DEF CutsAt
<1>1. x \in Seq(Byte) /\ Len(x) = n - a /\ \A i \in 1..n - a : x[i] = s[a + i]
  BY PieceIs
<1>2. Uri!First(x, B) = e - a + 1
  <2>1. e - a + 1 \in 1..Len(x) + 1 /\ Len(x) \in Nat
    BY <1>1
  <2>2. e - a + 1 <= Len(x) => x[e - a + 1] \in B
    <3> SUFFICES ASSUME e - a + 1 <= Len(x) PROVE x[e - a + 1] \in B
      OBVIOUS
    <3>1. e < n /\ e - a + 1 \in 1..n - a /\ a + (e - a + 1) = e + 1
      BY <1>1
    <3> HIDE DEF x
    <3>2. x[e - a + 1] = s[a + (e - a + 1)]
      BY <1>1, <3>1
    <3> QED
      BY <3>1, <3>2
  <2>3. \A j \in 1..(e - a + 1) - 1 : x[j] \notin B
    <3> TAKE j \in 1..(e - a + 1) - 1
    <3>1. j \in 1..n - a /\ a + j \in a + 1..e
      OBVIOUS
    <3> HIDE DEF x
    <3> QED
      BY <1>1, <3>1
  <2> HIDE DEF x
  <2> QED
    BY <2>1, <2>2, <2>3, FirstIs
<1>3. Uri!Before(x, B) = SubSeq(s, a + 1, e)
  <2>1. 1 \in 1..(n - a) + 1 /\ e - a \in 1 - 1..n - a /\ a + (e - a) = e /\ (e - a + 1) - 1 = e - a
    OBVIOUS
  <2>2. SubSeq(x, 1, e - a) = SubSeq(s, a + 1, a + (e - a))
    BY <2>1, SubSub
  <2> HIDE DEF x
  <2> QED
    BY <1>2, <2>1, <2>2 DEF Uri!Before
<1>4. ASSUME e < n PROVE Uri!After(x, B) = SubSeq(s, e + 2, n)
  <2>1. /\ e - a + 2 \in 1..(n - a) + 1 /\ n - a \in (e - a + 2) - 1..n - a
        /\ a + (e - a + 2) = e + 2 /\ a + (n - a) = n /\ (e - a + 1) + 1 = e - a + 2
    BY <1>4
  <2>2. SubSeq(x, e - a + 2, n - a) = SubSeq(s, a + (e - a + 2), a + (n - a))
    BY <2>1, SubSub
  <2> HIDE DEF x
  <2> QED
    BY <1>1, <1>2, <2>1, <2>2 DEF Uri!After
<1>5. ASSUME e = n PROVE Uri!After(x, B) = <<>>
  <2>1. Uri!After(x, B) = SubSeq(x, (n - a + 1) + 1, n - a)
    BY <1>1, <1>2, <1>5 DEF Uri!After
  <2>2. n - a \in Nat
    OBVIOUS
  <2> HIDE DEF x
  <2> QED
    BY <1>1, <2>1, <2>2
<1> QED
  BY <1>2, <1>3, <1>4, <1>5 DEF IsCut

LEMMA HostPortBytes ==
    ASSUME NEW s \in Seq(Byte), NEW a \in Nat, NEW e \in Nat, NEW n \in Nat, a <= e, e <= n,
           n <= Len(s), HostTo(s, a, e), e = n \/ PortTo(s, e, n)
    PROVE  \A i \in a + 1..n : s[i] # "@" /\ s[i] # "/"
<1>1. \A i \in a + 1..e : s[i] # "@" /\ s[i] # "/"
  <2>1. CASE Fine(s, a, e, NameBytes, 0)
    BY <2>1, Letters DEF Fine
  <2>2. CASE ~Fine(s, a, e, NameBytes, 0)
    <3>1. /\ a + 2 <= e /\ s[a + 1] = "[" /\ s[e] = "]" /\ IP_literal(SubSeq(s, a + 2, e - 1))
      BY <2>2 DEF HostTo
    <3>2. a + 2 \in 1..Len(s) + 1 /\ e - 1 \in (a + 2) - 1..Len(s)
      BY <3>1
    <3>3. All(SubSeq(s, a + 2, e - 1), OfLiteral)
      BY <3>1, <3>2, Sub, IP_literalBytes
    <3>4. \A i \in a + 2..e - 1 : s[i] \in OfLiteral
      BY <3>2, <3>3, AllOf
    <3>5. \A i \in a + 1..e : i = a + 1 \/ i = e \/ i \in a + 2..e - 1
      OBVIOUS
    <3> QED
      BY <3>1, <3>4, <3>5, LiteralLetters
  <2> QED
    BY <2>1, <2>2
<1>2. CASE e = n
  BY <1>1, <1>2
<1>3. CASE PortTo(s, e, n)
  <2>1. \A i \in a + 1..n : i \in a + 1..e \/ i = e + 1 \/ i \in e + 2..n
    OBVIOUS
  <2> QED
    BY <1>1, <1>3, <2>1, Letters DEF PortTo
<1> QED
  BY <1>2, <1>3

LEMMA AllPiece ==
    ASSUME NEW s \in Seq(Byte), NEW a \in Nat, NEW n \in Nat, a <= n, n <= Len(s), NEW B,
           \A i \in a + 1..n : s[i] \in B
    PROVE  Uri!All(SubSeq(s, a + 1, n), B)
<1>1. /\ Len(SubSeq(s, a + 1, n)) = n - a
      /\ \A i \in 1..n - a : SubSeq(s, a + 1, n)[i] = s[a + i]
  BY PieceIs
<1>2. ASSUME NEW i \in 1..n - a PROVE SubSeq(s, a + 1, n)[i] \in B
  <2>1. a + i \in a + 1..n
    OBVIOUS
  <2> QED
    BY <1>1, <2>1
<1> QED
  BY <1>1, <1>2 DEF Uri!All

LEMMA NamePortLegal ==
    ASSUME NEW s \in Seq(Byte), NEW a \in Nat, NEW e \in Nat, NEW n \in Nat, a <= e, e <= n,
           n <= Len(s), Fine(s, a, e, NameBytes, 0), e = n \/ PortTo(s, e, n)
    PROVE  Uri!LegalHostPort(SubSeq(s, a + 1, n))
<1> DEFINE x == SubSeq(s, a + 1, n)
<1>1. x \in Seq(Byte) /\ Len(x) = n - a /\ \A i \in 1..n - a : x[i] = s[a + i]
  BY PieceIs
<1>2. \A i \in a + 1..e : s[i] # ":" /\ s[i] # "["
  BY Letters DEF Fine
<1>3. e < n => s[e + 1] = ":"
  BY DEF PortTo
<1>4. /\ Uri!Before(x, {":"}) = SubSeq(s, a + 1, e)
      /\ e < n => Uri!After(x, {":"}) = SubSeq(s, e + 2, n)
      /\ e = n => Uri!After(x, {":"}) = <<>>
  <2>1. CutsAt(s, a, e, n, {":"})
    BY <1>2, <1>3 DEF CutsAt
  <2>2. IsCut(s, a, e, n, {":"})
    BY <2>1, CutAt
  <2> QED
    BY <2>2, Zenon DEF IsCut
<1> HIDE DEF x
<1>5. ~Uri!Starts(x, "[")
  <2> SUFFICES ASSUME x # <<>>, x[1] = "[" PROVE FALSE
    BY DEF Uri!Starts
  <2>1. 1 \in 1..n - a /\ a + 1 \in a + 1..n /\ (a + 1 \in a + 1..e \/ (a = e /\ e < n))
    BY <1>1
  <2>2. s[a + 1] = "["
    BY <1>1, <2>1
  <2> QED
    BY <1>2, <1>3, <2>1, <2>2
<1>6. Uri!LegalHost(Uri!Before(x, {":"}))
  <2>1. e <= Len(s)
    OBVIOUS
  <2>2. Uri!Wellformed(SubSeq(s, a + 1, e), NameBytes)
    BY <2>1, FineWellformed
  <2> QED
    BY <1>4, <2>2, SameGrammar DEF Uri!LegalHost, NameBytes
<1>7. Uri!All(Uri!After(x, {":"}), digit)
  <2>1. CASE e = n
    BY <1>4, <2>1 DEF Uri!All
  <2>2. CASE e < n
    <3>1. \A i \in (e + 1) + 1..n : s[i] \in digit
      BY <2>2 DEF PortTo
    <3>2. e + 1 \in Nat /\ e + 1 <= n /\ (e + 1) + 1 = e + 2
      BY <2>2
    <3>3. Uri!All(SubSeq(s, (e + 1) + 1, n), digit)
      BY <3>1, <3>2, AllPiece
    <3> QED
      BY <1>4, <2>2, <3>2, <3>3
  <2> QED
    BY <2>1, <2>2
<1> QED
  BY <1>5, <1>6, <1>7, SameGrammar DEF Uri!LegalHostPort, x

LEMMA LiteralPortLegal ==
    ASSUME NEW s \in Seq(Byte), NEW a \in Nat, NEW e \in Nat, NEW n \in Nat, e <= n,
           n <= Len(s), a + 2 <= e, s[a + 1] = "[", s[e] = "]",
           IP_literal(SubSeq(s, a + 2, e - 1)), e = n \/ PortTo(s, e, n)
    PROVE  Uri!LegalHostPort(SubSeq(s, a + 1, n))
<1> DEFINE x == SubSeq(s, a + 1, n)
           y == SubSeq(s, a + 1, e)
<1>1. x \in Seq(Byte) /\ Len(x) = n - a /\ \A i \in 1..n - a : x[i] = s[a + i]
  <2>1. a <= n
    OBVIOUS
  <2> QED
    BY <2>1, PieceIs
<1>2. y \in Seq(Byte) /\ Len(y) = e - a /\ \A i \in 1..e - a : y[i] = s[a + i]
  <2>1. a <= e /\ e <= Len(s)
    OBVIOUS
  <2> QED
    BY <2>1, PieceIs
<1> DEFINE B == {"]"}
<1>3. (\A i \in a + 1..e - 1 : s[i] \notin B) /\ s[e] \in B
  <2>1. a + 2 \in 1..Len(s) + 1 /\ e - 1 \in (a + 2) - 1..Len(s)
    OBVIOUS
  <2>2. All(SubSeq(s, a + 2, e - 1), OfLiteral)
    BY <2>1, Sub, IP_literalBytes
  <2>3. \A i \in a + 2..e - 1 : s[i] \in OfLiteral
    BY <2>1, <2>2, AllOf
  <2>4. \A i \in a + 1..e - 1 : i = a + 1 \/ i \in a + 2..e - 1
    OBVIOUS
  <2> QED
    BY <2>3, <2>4, LiteralLetters
<1>4. /\ Uri!First(x, {"]"}) = e - a
      /\ Uri!Before(x, {"]"}) = SubSeq(s, a + 1, e - 1)
      /\ Uri!After(x, {"]"}) = SubSeq(s, e + 1, n)
  <2> DEFINE m == e - 1
  <2>1. /\ m \in Nat /\ a <= m /\ m <= n /\ m < n /\ m + 1 = e /\ m # n
        /\ m - a + 1 = e - a /\ m + 2 = e + 1
    OBVIOUS
  <2>2. CutsAt(s, a, m, n, B)
    BY <1>3, <2>1 DEF CutsAt
  <2> HIDE DEF B, m
  <2>3. IsCut(s, a, m, n, B)
    BY <2>1, <2>2, CutAt
  <2>4. /\ Uri!First(x, B) = e - a /\ Uri!Before(x, B) = SubSeq(s, a + 1, m)
        /\ Uri!After(x, B) = SubSeq(s, e + 1, n)
    BY <2>1, <2>3, Zenon DEF IsCut
  <2> QED
    BY <2>4 DEF B, m
<1>5. Uri!First(y, {"]"}) = e - a
  <2> DEFINE m == e - 1
  <2>1. /\ m \in Nat /\ a <= m /\ m <= e /\ m < e /\ m + 1 = e /\ m # e /\ e <= Len(s)
        /\ m - a + 1 = e - a
    OBVIOUS
  <2>2. CutsAt(s, a, m, e, B)
    BY <1>3, <2>1 DEF CutsAt
  <2> HIDE DEF B, m
  <2>3. IsCut(s, a, m, e, B)
    BY <2>1, <2>2, CutAt
  <2> QED
    BY <2>1, <2>3, Zenon DEF IsCut, B
<1>6. Uri!Before(x, {"]"}) \o <<"]">> = y
  <2>1. a \in Nat /\ e - 1 \in Nat /\ a <= e - 1 /\ e - 1 <= Len(s)
    OBVIOUS
  <2>2. /\ SubSeq(s, a + 1, e - 1) \in Seq(Byte) /\ Len(SubSeq(s, a + 1, e - 1)) = (e - 1) - a
        /\ \A i \in 1..(e - 1) - a : SubSeq(s, a + 1, e - 1)[i] = s[a + i]
    BY <2>1, PieceIs
  <2> DEFINE z == SubSeq(s, a + 1, e - 1)
             w == z \o <<"]">>
  <2>3. "]" \in Byte
    BY DEF Byte
  <2>4. /\ w \in Seq(Byte) /\ Len(w) = Len(z) + 1 /\ Len(z) \in Nat
        /\ \A i \in 1..Len(z) : w[i] = z[i]
        /\ w[Len(z) + 1] = "]"
    <3>1. z \in Seq(Byte)
      BY <2>2
    <3> HIDE DEF z
    <3> QED
      BY <2>3, <3>1, One
  <2>5. z \in Seq(Byte) /\ Len(z) = (e - 1) - a /\ \A i \in 1..(e - 1) - a : z[i] = s[a + i]
    BY <2>2
  <2> HIDE DEF y, z, w
  <2>6. Len(w) = e - a /\ Len(y) = e - a
    BY <1>2, <2>4, <2>5
  <2>7. ASSUME NEW i \in 1..e - a PROVE w[i] = y[i]
    <3>1. CASE i = e - a
      <4>1. i = Len(z) + 1 /\ a + i = e
        BY <2>5, <3>1
      <4> QED
        BY <1>2, <2>4, <4>1
    <3>2. CASE i # e - a
      <4>1. i \in 1..Len(z) /\ i \in 1..(e - 1) - a
        BY <2>5, <3>2
      <4> QED
        BY <1>2, <2>4, <2>5, <4>1
    <3> QED
      BY <3>1, <3>2
  <2>8. w = y
    BY <1>2, <2>4, <2>6, <2>7
  <2> QED
    BY <1>4, <2>8 DEF w, z
<1> HIDE DEF x, y
<1>8. Uri!Starts(x, "[") /\ Uri!Starts(y, "[") /\ Uri!Has(x, "]")
  <2>1. 1 \in 1..n - a /\ 1 \in 1..e - a /\ e - a \in 1..n - a /\ a + (e - a) = e
    OBVIOUS
  <2>2. x[1] = "[" /\ y[1] = "[" /\ x[e - a] = "]" /\ x # <<>> /\ y # <<>>
    BY <1>1, <1>2, <2>1
  <2> QED
    BY <1>1, <2>1, <2>2 DEF Uri!Starts, Uri!Has
<1>9. Uri!LegalHost(y)
  BY <1>2, <1>5, <1>8 DEF Uri!LegalHost, Uri!Literal
<1>10. Uri!After(x, {"]"}) # <<>> => /\ Uri!After(x, {"]"})[1] = ":"
                                    /\ Uri!All(Tail(Uri!After(x, {"]"})), digit)
  <2> DEFINE z == SubSeq(s, e + 1, n)
  <2>1. z \in Seq(Byte) /\ Len(z) = n - e /\ \A i \in 1..n - e : z[i] = s[e + i]
    BY PieceIs
  <2> SUFFICES ASSUME z # <<>> PROVE z[1] = ":" /\ Uri!All(Tail(z), digit)
    BY <1>4
  <2>2. e < n /\ PortTo(s, e, n)
    BY <2>1
  <2> HIDE DEF z
  <2>3. z[1] = ":"
    <3>1. 1 \in 1..n - e
      BY <2>2
    <3> QED
      BY <2>1, <2>2, <3>1 DEF PortTo
  <2>4. Len(Tail(z)) = n - e - 1 /\ \A i \in 1..n - e - 1 : Tail(z)[i] = z[i + 1]
    BY <2>1, <2>2
  <2>5. ASSUME NEW i \in 1..n - e - 1 PROVE Tail(z)[i] \in digit
    <3>1. i + 1 \in 1..n - e /\ e + (i + 1) \in e + 2..n
      OBVIOUS
    <3> QED
      BY <2>1, <2>2, <2>4, <3>1 DEF PortTo
  <2> QED
    BY <2>3, <2>4, <2>5 DEF Uri!All
<1> QED
  BY <1>6, <1>8, <1>9, <1>10, SameGrammar DEF Uri!LegalHostPort, x

LEMMA HostPortLegal ==
    ASSUME NEW s \in Seq(Byte), NEW a \in Nat, NEW e \in Nat, NEW n \in Nat, a <= e, e <= n,
           n <= Len(s), HostTo(s, a, e), e = n \/ PortTo(s, e, n)
    PROVE  Uri!LegalHostPort(SubSeq(s, a + 1, n))
BY NamePortLegal, LiteralPortLegal DEF HostTo

LEMMA AuthorityLegal ==
    ASSUME NEW s \in Seq(Byte), NEW d \in Nat, NEW n \in Nat, d <= n, n <= Len(s),
           AuthorityTo(s, d, n)
    PROVE  /\ Uri!LegalAuthority(SubSeq(s, d + 1, n))
           /\ \A i \in d + 1..n : s[i] # "/"
<1>1. PICK a \in d..n : \E e \in a..n :
         UserAt(s, d, a) /\ HostTo(s, a, e) /\ (e = n \/ PortTo(s, e, n))
  BY DEF AuthorityTo
<1>2. PICK e \in a..n : UserAt(s, d, a) /\ HostTo(s, a, e) /\ (e = n \/ PortTo(s, e, n))
  BY <1>1
<1>3. a \in Nat /\ e \in Nat /\ a <= e /\ e <= n /\ a <= n /\ d <= a
  OBVIOUS
<1>4. Uri!LegalHostPort(SubSeq(s, a + 1, n))
  BY <1>2, <1>3, HostPortLegal
<1>5. \A i \in a + 1..n : s[i] # "@" /\ s[i] # "/"
  BY <1>2, <1>3, HostPortBytes
<1> DEFINE x == SubSeq(s, d + 1, n)
<1>6. x \in Seq(Byte) /\ Len(x) = n - d /\ \A i \in 1..n - d : x[i] = s[d + i]
  BY PieceIs
<1>7. CASE a = d
  <2>1. ~Uri!Has(x, "@")
    <3> HIDE DEF x
    <3> SUFFICES ASSUME NEW i \in 1..Len(x) PROVE x[i] # "@"
      BY DEF Uri!Has
    <3>1. i \in 1..n - d /\ d + i \in a + 1..n
      BY <1>6, <1>7
    <3> QED
      BY <1>5, <1>6, <3>1
  <2> QED
    BY <1>4, <1>5, <1>7, <2>1 DEF Uri!LegalAuthority
<1>8. CASE a # d
  <2>1. a > d /\ s[a] = "@" /\ Fine(s, d, a - 1, UserBytes, 0)
    BY <1>2, <1>8 DEF UserAt
  <2>2. \A i \in d + 1..a - 1 : s[i] # "@" /\ s[i] # "/"
    BY <2>1, Letters DEF Fine
  <2>3. /\ Uri!Before(x, {"@"}) = SubSeq(s, d + 1, a - 1)
        /\ Uri!After(x, {"@"}) = SubSeq(s, a + 1, n)
    <3> DEFINE B == {"@"}
               m == a - 1
    <3>1. /\ m \in Nat /\ d <= m /\ m <= n /\ m < n /\ m + 1 = a /\ m + 2 = a + 1 /\ m # n
      BY <1>3, <2>1
    <3>2. CutsAt(s, d, m, n, B)
      BY <2>1, <2>2, <3>1 DEF CutsAt
    <3> HIDE DEF B, m
    <3>3. IsCut(s, d, m, n, B)
      BY <1>3, <3>1, <3>2, CutAt
    <3>4. Uri!Before(x, B) = SubSeq(s, d + 1, m) /\ Uri!After(x, B) = SubSeq(s, a + 1, n)
      BY <3>1, <3>3, Zenon DEF IsCut
    <3> QED
      BY <3>4 DEF B, m
  <2>4. Uri!Wellformed(SubSeq(s, d + 1, a - 1), UserBytes)
    <3>1. a - 1 \in Nat /\ d <= a - 1 /\ a - 1 <= Len(s)
      BY <1>3, <2>1
    <3> QED
      BY <2>1, <3>1, FineWellformed
  <2>5. Uri!Has(x, "@")
    <3>1. a - d \in 1..n - d /\ d + (a - d) = a
      BY <1>3, <2>1
    <3> HIDE DEF x
    <3> QED
      BY <1>6, <2>1, <3>1 DEF Uri!Has
  <2>6. Uri!LegalAuthority(x)
    <3> HIDE DEF x
    <3> QED
      BY <1>4, <2>3, <2>4, <2>5, SameGrammar DEF Uri!LegalAuthority, UserBytes, NameBytes
  <2>7. \A i \in d + 1..n : i \in d + 1..a - 1 \/ i = a \/ i \in a + 1..n
    BY <1>3
  <2> QED
    BY <1>5, <2>1, <2>2, <2>6, <2>7
<1> QED
  BY <1>7, <1>8

(* A path that has ended at n. *)
PathDone(s, k, n) ==
    \/ ~Slashes(s, k, n) /\ Fine(s, k, n, PathBytes, 0)
    \/ /\ Slashes(s, k, n)
       /\ \E e \in k + 2..n : /\ AuthorityTo(s, k + 2, e)
                              /\ e < n => s[e + 1] = "/" /\ Fine(s, e + 1, n, PathBytes, 0)

LEMMA PathToDone ==
    ASSUME NEW s, NEW k \in Nat, NEW n \in Nat, PathTo(s, k, n, 0)
    PROVE  PathDone(s, k, n)
<1>1. CASE ~Slashes(s, k, n)
  BY <1>1 DEF PathTo, PathDone
<1>2. CASE Slashes(s, k, n)
  <2>0. ~NoSlashes(s, k, n)
    BY <1>2 DEF Slashes, NoSlashes
  <2>1. PICK e \in k + 2..n - 1 : /\ AuthorityTo(s, k + 2, e) /\ s[e + 1] = "/"
                                  /\ Fine(s, e + 1, n, PathBytes, 0)
    BY <2>0 DEF PathTo
  <2>2. e \in k + 2..n
    OBVIOUS
  <2> QED
    BY <1>2, <2>1, <2>2 DEF PathDone
<1> QED
  BY <1>1, <1>2

LEMMA PathLegal ==
    ASSUME NEW s \in Seq(Byte), NEW k \in Nat, NEW n \in Nat, k <= n, n <= Len(s), PathDone(s, k, n)
    PROVE  Uri!LegalPath(SubSeq(s, k + 1, n))
<1> DEFINE x == SubSeq(s, k + 1, n)
<1>1. x \in Seq(Byte) /\ Len(x) = n - k /\ \A i \in 1..n - k : x[i] = s[k + i]
  BY PieceIs
<1>2. (Len(x) >= 2 /\ x[1] = "/" /\ x[2] = "/") <=> Slashes(s, k, n)
  <2> HIDE DEF x
  <2>1. CASE k + 2 <= n
    <3>1. 1 \in 1..n - k /\ 2 \in 1..n - k
      BY <2>1
    <3> QED
      BY <1>1, <2>1, <3>1 DEF Slashes
  <2>2. CASE ~(k + 2 <= n)
    BY <1>1, <2>2 DEF Slashes
  <2> QED
    BY <2>1, <2>2
<1>3. CASE ~Slashes(s, k, n)
  <2>1. Uri!Wellformed(x, PathBytes)
    BY <1>3, FineWellformed DEF PathDone
  <2> HIDE DEF x
  <2>2. Uri!LegalPath(x)
    BY <1>2, <1>3, <2>1, SameGrammar, Zenon DEF Uri!LegalPath, PathBytes
  <2> QED
    BY <2>2 DEF x
<1>4. CASE Slashes(s, k, n)
  <2>1. PICK e \in k + 2..n : /\ AuthorityTo(s, k + 2, e)
                              /\ e < n => s[e + 1] = "/" /\ Fine(s, e + 1, n, PathBytes, 0)
    BY <1>4 DEF PathDone
  <2> DEFINE d == k + 2
             rest == SubSeq(x, 3, Len(x))
  <2>2. d \in Nat /\ e \in Nat /\ d <= e /\ e <= n /\ e <= Len(s) /\ d <= n
    OBVIOUS
  <2>3. rest = SubSeq(s, d + 1, n)
    <3>1. /\ 3 \in 1..(n - k) + 1 /\ n - k \in 3 - 1..n - k /\ k + 3 = d + 1 /\ k + (n - k) = n
      BY <2>2
    <3>2. SubSeq(x, 3, n - k) = SubSeq(s, k + 3, k + (n - k))
      BY <3>1, SubSub
    <3> HIDE DEF x, d
    <3> QED
      BY <1>1, <3>1, <3>2
  <2>4. Uri!LegalAuthority(SubSeq(s, d + 1, e)) /\ \A i \in d + 1..e : s[i] # "/"
    <3> HIDE DEF d
    <3>1. AuthorityTo(s, d, e)
      BY <2>1 DEF d
    <3> QED
      BY <2>2, <3>1, AuthorityLegal
  <2>5. IsCut(s, d, e, n, {"/"})
    <3>1. CutsAt(s, d, e, n, {"/"})
      BY <2>1, <2>2, <2>4 DEF CutsAt
    <3> HIDE DEF d
    <3> QED
      BY <2>2, <3>1, CutAt
  <2> HIDE DEF rest, d
  <2>6. /\ Uri!Before(rest, {"/"}) = SubSeq(s, d + 1, e)
        /\ e < n => Uri!After(rest, {"/"}) = SubSeq(s, e + 2, n)
        /\ e = n => Uri!After(rest, {"/"}) = <<>>
    BY <2>3, <2>5, Zenon DEF IsCut
  <2>7. Uri!Wellformed(Uri!After(rest, {"/"}), PathBytes)
    <3>1. CASE e < n
      <4>1. e + 1 \in Nat /\ e + 1 <= n /\ (e + 1) + 1 = e + 2
        BY <2>2, <3>1
      <4>2. Uri!Wellformed(SubSeq(s, (e + 1) + 1, n), PathBytes)
        BY <2>1, <3>1, <4>1, FineWellformed
      <4> QED
        BY <2>6, <3>1, <4>1, <4>2
    <3>2. CASE e = n
      BY <2>6, <3>2 DEF Uri!Wellformed, Uri!All
    <3> QED
      BY <2>2, <3>1, <3>2
  <2>8. Uri!LegalPath(x)
    <3>1. Uri!LegalAuthority(Uri!Before(rest, {"/"}))
      BY <2>4, <2>6
    <3> HIDE DEF x
    <3> QED
      BY <1>2, <1>4, <2>7, <3>1, SameGrammar, Zenon DEF Uri!LegalPath, PathBytes, rest
  <2> QED
    BY <2>8
<1> QED
  BY <1>3, <1>4

-----------------------------------------------------------------------------
(* The target: what makes it legal once it has ended. *)

LEMMA SchemeLegal ==
    ASSUME NEW s \in Seq(Byte), NEW k \in 1..Len(s), SchemeTo(s, k)
    PROVE  Uri!LegalScheme(SubSeq(s, 1, k - 1))
<1> DEFINE x == SubSeq(s, 1, k - 1)
<1>1. k >= 2 /\ s[1] \in alpha /\ \A i \in 1..k - 1 : s[i] \in SchemeBytes
  BY DEF SchemeTo
<1>2. /\ 0 \in Nat /\ k - 1 \in Nat /\ 0 <= k - 1 /\ k - 1 <= Len(s) /\ 0 + 1 = 1
      /\ (k - 1) - 0 = k - 1 /\ 1 \in 1..k - 1 /\ 0 + 1 = 1
  BY <1>1
<1>3. /\ SubSeq(s, 0 + 1, k - 1) \in Seq(Byte) /\ Len(SubSeq(s, 0 + 1, k - 1)) = (k - 1) - 0
      /\ \A i \in 1..(k - 1) - 0 : SubSeq(s, 0 + 1, k - 1)[i] = s[0 + i]
  BY <1>2, PieceIs
<1>4. Uri!All(SubSeq(s, 0 + 1, k - 1), SchemeBytes)
  <2>1. \A i \in 0 + 1..k - 1 : s[i] \in SchemeBytes
    BY <1>1
  <2> QED
    BY <1>2, <2>1, AllPiece
<1>5. x \in Seq(Byte) /\ Len(x) = k - 1 /\ x[1] = s[1] /\ Uri!All(x, SchemeBytes)
  BY <1>2, <1>3, <1>4
<1> HIDE DEF x
<1>6. x # <<>> /\ x[1] \in alpha
  BY <1>1, <1>5
<1>7. Uri!LegalScheme(x)
  BY <1>5, <1>6, SameGrammar, Zenon DEF Uri!LegalScheme, SchemeBytes
<1> QED
  BY <1>7 DEF x

(* Everything before the fragment of s, if its path ends at q and its query,
   if it has one, at h. *)
LEMMA FrontLegal ==
    ASSUME NEW s \in Seq(Byte), NEW h \in 1..Len(s) + 1, NEW q \in 1..h, NEW k \in 0..q - 1,
           h <= Len(s) => s[h] = "#", NoHash(s, h - 1),
           q < h => s[q] = "?", InPath(s, q - 1), Skips(s, k, q - 1), SchemeTo(s, k),
           Uri!LegalPath(SubSeq(s, k + 1, q - 1)),
           q < h => Fine(s, q, h - 1, QueryBytes, 0)
    PROVE  /\ LegalFront(s)
           /\ Uri!Parts(s).fragment = SubSeq(s, h + 1, Len(s))
<1>1. /\ Uri!Parts(s) = [uri |-> SubSeq(s, k + 1, h - 1), path |-> SubSeq(s, k + 1, q - 1),
                         query |-> SubSeq(s, q + 1, h - 1),
                         fragment |-> SubSeq(s, h + 1, Len(s))]
      /\ Uri!HasScheme(s) <=> k > 0
      /\ k > 0 => Uri!Scheme(s) = SubSeq(s, 1, k - 1)
  BY PartsAre
<1>2. Uri!HasScheme(s) => Uri!LegalScheme(Uri!Scheme(s))
  <2> SUFFICES ASSUME k > 0 PROVE Uri!LegalScheme(SubSeq(s, 1, k - 1))
    BY <1>1
  <2>1. k \in 1..Len(s)
    OBVIOUS
  <2> QED
    BY <2>1, SchemeLegal
<1>3. Uri!Wellformed(SubSeq(s, q + 1, h - 1), QueryBytes)
  <2>1. CASE q < h
    <3>1. q \in Nat /\ h - 1 \in Nat /\ q <= h - 1 /\ h - 1 <= Len(s)
      BY <2>1
    <3> QED
      BY <2>1, <3>1, FineWellformed
  <2>2. CASE q = h
    <3>1. SubSeq(s, q + 1, h - 1) = <<>>
      BY <2>2
    <3> QED
      BY <3>1 DEF Uri!Wellformed, Uri!All
  <2> QED
    BY <2>1, <2>2
<1> DEFINE a == SubSeq(s, k + 1, h - 1)
           b == SubSeq(s, k + 1, q - 1)
           d == SubSeq(s, q + 1, h - 1)
           e == SubSeq(s, h + 1, Len(s))
<1>4. Uri!LegalPath(b) /\ Uri!Wellformed(d, QueryBytes)
      /\ Uri!Parts(s) = [uri |-> a, path |-> b, query |-> d, fragment |-> e]
  BY <1>1, <1>3
<1> HIDE DEF a, b, d, e
<1>5. Uri!Parts(s).path = b /\ Uri!Parts(s).query = d /\ Uri!Parts(s).fragment = e
  BY <1>4
<1> QED
  BY <1>2, <1>4, <1>5 DEF LegalFront, e

(* With a legal fragment after h, or none, the whole of it. *)
LEMMA WholeLegal ==
    ASSUME NEW s, LegalFront(s), Uri!Wellformed(Uri!Parts(s).fragment, QueryBytes)
    PROVE  Uri!LegalTarget(s)
BY SameGrammar, Zenon DEF Uri!LegalTarget, LegalFront, QueryBytes

LEMMA NothingWellformed == \A B : Uri!Wellformed(<<>>, B)
BY DEF Uri!Wellformed, Uri!All

LEMMA FragmentLegal ==
    ASSUME NEW s \in Seq(Byte), NEW h, HashAt(s, h), LegalFront(s),
           Fine(s, h, Len(s), QueryBytes, 0)
    PROVE  Uri!LegalTarget(s)
<1>1. h \in 1..Len(s) /\ s[h] = "#" /\ \A j \in 1..h - 1 : s[j] # "#"
  BY DEF HashAt, NoHash
<1>2. Uri!First(s, {"#"}) = h
  <2>1. /\ h \in 1..Len(s) + 1 /\ Len(s) \in Nat /\ s[h] \in {"#"}
        /\ \A j \in 1..h - 1 : s[j] \notin {"#"}
    BY <1>1
  <2> QED
    BY <2>1, FirstIs
<1>3. Uri!Parts(s).fragment = SubSeq(s, h + 1, Len(s))
  BY <1>2 DEF Uri!Parts, Uri!After
<1>4. Uri!Wellformed(SubSeq(s, h + 1, Len(s)), QueryBytes)
  <2>1. h \in Nat /\ Len(s) \in Nat /\ h <= Len(s) /\ Len(s) <= Len(s)
    BY <1>1
  <2> QED
    BY <2>1, FineWellformed
<1> QED
  BY <1>3, <1>4, WholeLegal

-----------------------------------------------------------------------------
(* One byte more. *)

LEMMA FineOn ==
    ASSUME NEW s, NEW a \in Nat, NEW n \in Nat, a <= n, NEW B, Fine(s, a, n, B, 0), NEW h,
           \/ s[n + 1] \in B /\ s[n + 1] # "%" /\ h = 0
           \/ s[n + 1] = "%" /\ h = 2
    PROVE  Fine(s, a, n + 1, B, h)
BY FinePlain, FinePercent

LEMMA NoSlashesOn ==
    ASSUME NEW s, NEW k \in Nat, NEW n \in Nat, NoSlashes(s, k, n)
    PROVE  NoSlashes(s, k, n + 1)
BY DEF NoSlashes

LEMMA PathOn ==
    ASSUME NEW s, NEW k \in Nat, NEW n \in Nat, k <= n, PathTo(s, k, n, 0), NEW h,
           \/ s[n + 1] \in PathBytes /\ s[n + 1] # "%" /\ h = 0
           \/ s[n + 1] = "%" /\ h = 2
    PROVE  PathTo(s, k, n + 1, h)
<1>1. CASE NoSlashes(s, k, n) /\ Fine(s, k, n, PathBytes, 0)
  BY <1>1, FineOn, NoSlashesOn DEF PathTo
<1>2. CASE ~(NoSlashes(s, k, n) /\ Fine(s, k, n, PathBytes, 0))
  <2>1. Slashes(s, k, n)
    BY <1>2 DEF PathTo
  <2>2. PICK e \in k + 2..n - 1 : /\ AuthorityTo(s, k + 2, e) /\ s[e + 1] = "/"
                                  /\ Fine(s, e + 1, n, PathBytes, 0)
    BY <1>2 DEF PathTo
  <2>3. e + 1 \in Nat /\ e + 1 <= n /\ e \in k + 2..(n + 1) - 1
    OBVIOUS
  <2>4. Fine(s, e + 1, n + 1, PathBytes, h)
    BY <2>2, <2>3, FineOn
  <2>5. Slashes(s, k, n + 1)
    BY <2>1 DEF Slashes
  <2> QED
    BY <2>2, <2>3, <2>4, <2>5 DEF PathTo
<1> QED
  BY <1>1, <1>2

LEMMA PathDigit ==
    ASSUME NEW s, NEW k \in Nat, NEW n \in Nat, k <= n, NEW h \in 1..2, PathTo(s, k, n, h),
           s[n + 1] \in xdigit
    PROVE  PathTo(s, k, n + 1, h - 1)
<1>0. xdigit \subseteq PathBytes
  BY Letters
<1>1. CASE NoSlashes(s, k, n) /\ Fine(s, k, n, PathBytes, h)
  BY <1>0, <1>1, FineDigit, NoSlashesOn DEF PathTo
<1>2. CASE ~(NoSlashes(s, k, n) /\ Fine(s, k, n, PathBytes, h))
  <2>1. Slashes(s, k, n)
    BY <1>2 DEF PathTo
  <2>2. PICK e \in k + 2..n - 1 : /\ AuthorityTo(s, k + 2, e) /\ s[e + 1] = "/"
                                  /\ Fine(s, e + 1, n, PathBytes, h)
    BY <1>2 DEF PathTo
  <2>3. e + 1 \in Nat /\ e + 1 <= n /\ e \in k + 2..(n + 1) - 1
    OBVIOUS
  <2>4. Fine(s, e + 1, n + 1, PathBytes, h - 1)
    BY <1>0, <2>2, <2>3, FineDigit
  <2>5. Slashes(s, k, n + 1)
    BY <2>1 DEF Slashes
  <2> QED
    BY <2>2, <2>3, <2>4, <2>5 DEF PathTo
<1> QED
  BY <1>1, <1>2

(* An authority that a slash ends. *)
LEMMA PathAfterAuthority ==
    ASSUME NEW s, NEW k \in Nat, NEW n \in Nat, Slashes(s, k, n), AuthorityTo(s, k + 2, n),
           s[n + 1] = "/"
    PROVE  PathTo(s, k, n + 1, 0)
<1>1. Slashes(s, k, n + 1) /\ n \in k + 2..(n + 1) - 1
  BY DEF Slashes
<1>2. Fine(s, n + 1, n + 1, PathBytes, 0)
  BY FineNone
<1> QED
  BY <1>1, <1>2 DEF PathTo

LEMMA Onward ==
    ASSUME LInv, Reading, cs \in OfTarget, c # SP, NEW q, Plain(q) \/ Percent(q)
    PROVE  /\ cs' = q /\ t' = t /\ Taking \in Nat /\ Taking' = Taking + 1 /\ Taking + 1 <= Len(t)
           /\ t[Taking + 1] = c /\ Marked' = Marked /\ Asked' = Asked
           /\ Plain(q) => hex' = 0
           /\ Percent(q) => c = "%" /\ hex' = 2
<1>1. /\ cs' = q /\ p' = p + 1 /\ mark' = mark /\ query_start' = query_start /\ sent' = sent
      /\ Plain(q) => hex' = 0
      /\ Percent(q) => c = "%" /\ hex' = 2
  BY DEF Plain, Percent, Taken, marks, Reading
<1>2. /\ Taking' = Taking + 1 /\ Taking' \in 1..Len(t) /\ Taking \in 0..Len(t)
      /\ t[Taking'] = c /\ t' = t /\ Marked' = Marked /\ Asked' = Asked
  BY <1>1, OneMore
<1> QED
  BY <1>1, <1>2

LEMMA NotSpace ==
    /\ \A b \in PathBytes \cup NameBytes \cup UserBytes \cup QueryBytes \cup SchemeBytes \cup digit
                   \cup alpha \cup xdigit \cup unreserved \cup sub_delims \cup pchar :
          b # SP /\ b # "%"
    /\ SP \notin {"%", "/", ":", "@", "[", "]", "?", "#"}
<1>1. SP \notin {"%", "/", ":", "@", "[", "]", "?", "#"}
  BY Spaces
<1>2. \A b \in NameBytes \cup UserBytes \cup digit \cup xdigit \cup alpha \cup pchar :
         b # SP /\ b # "%"
  BY Letters
<1>3. \A b \in {"/", "?", "+", "-", "."} : b # SP /\ b # "%"
  BY Zenon DEF SP
<1> QED
  BY <1>1, <1>2, <1>3 DEF PathBytes, QueryBytes, SchemeBytes, NameBytes

-----------------------------------------------------------------------------
(* The target has been read so far: where a step leads to. *)

LEMMA ReadOther ==
    ASSUME cs' \in {"method", "target", "error"}
    PROVE  TargetRead'
BY DEF TargetRead, OfPath, InAuthority, OfVersion

LEMMA ReadVersion ==
    ASSUME sent' = sent, cs' \in OfVersion, Uri!LegalTarget(t)
    PROVE  TargetRead'
<1>1. t' = t
  BY DEF t
<1> QED
  BY <1>1 DEF TargetRead, OfPath, InAuthority, OfVersion

LEMMA ReadHash ==
    ASSUME sent' = sent, cs' = "fragment?", LegalFront(t)
    PROVE  TargetRead'
<1>1. t' = t
  BY DEF t
<1> QED
  BY <1>1 DEF TargetRead, OfPath, InAuthority, OfVersion

LEMMA ReadFragment ==
    ASSUME sent' = sent, cs' = "fragment", LegalFront(t),
           Fine(t, Marked', Taking', QueryBytes, hex')
    PROVE  TargetRead'
<1>1. t' = t
  BY DEF t
<1> QED
  BY <1>1 DEF TargetRead, OfPath, InAuthority, OfVersion

LEMMA ReadQueryStart ==
    ASSUME sent' = sent, cs' = "query?", SchemeTo(t, Marked'),
           Uri!LegalPath(SubSeq(t, Marked' + 1, Taking' - 1))
    PROVE  TargetRead'
<1>1. t' = t
  BY DEF t
<1> QED
  BY <1>1 DEF TargetRead, OfPath, InAuthority, OfVersion

LEMMA ReadQuery ==
    ASSUME sent' = sent, cs' = "query", SchemeTo(t, Marked'),
           Uri!LegalPath(SubSeq(t, Marked' + 1, Asked' - 1)),
           Fine(t, Asked', Taking', QueryBytes, hex')
    PROVE  TargetRead'
<1>1. t' = t
  BY DEF t
<1> QED
  BY <1>1 DEF TargetRead, OfPath, InAuthority, OfVersion

LEMMA ReadPath ==
    ASSUME sent' = sent, cs' = "path", SchemeTo(t, Marked'), PathTo(t, Marked', Taking', hex')
    PROVE  TargetRead'
<1>1. t' = t
  BY DEF t
<1> QED
  BY <1>1 DEF TargetRead, OfPath, InAuthority, OfVersion

(* At the end of a path. *)
LEMMA PathEndsRead ==
    ASSUME LInv, Reading, cs \in BeforeEnd, InPath(t, Taking),
           NEW k \in 0..Taking, Skips(t, k, Taking), PathEnds(Start + k),
           SchemeTo(t, k), PathDone(t, k, Taking)
    PROVE  TargetRead'
<1>1. /\ Taking \in 0..Len(t) /\ (c = SP <=> Taking = Len(t))
      /\ Taking < Len(t) => t[Taking + 1] = c
      /\ cs \in OfTarget
  <2>1. cs \in OfTarget
    BY DEF BeforeEnd, OfTarget
  <2> QED
    BY <2>1, Here
<1>2. sent' = sent /\ p' = p + 1 /\ mark' = Start + k
  BY DEF PathEnds, Reading, Taken
<1>3. t \in Seq(Byte) /\ Len(t) \in Nat /\ Start \in Nat
  BY Shape DEF LInv
<1> DEFINE h == Taking + 1
<1>4. /\ h \in 1..Len(t) + 1 /\ h \in 1..h /\ k \in 0..h - 1 /\ h - 1 = Taking /\ ~(h < h)
      /\ k \in Nat /\ Taking \in Nat /\ k <= Taking /\ Taking <= Len(t) /\ h \in Nat
  BY <1>1, <1>3
<1>5. InPath(t, h - 1) /\ Skips(t, k, h - 1) /\ NoHash(t, h - 1)
  BY <1>4 DEF InPath, NoHash
<1>6. Uri!LegalPath(SubSeq(t, k + 1, h - 1))
  BY <1>3, <1>4, PathLegal
<1> HIDE DEF h
<1>7. ASSUME h <= Len(t) => t[h] = "#"
      PROVE  LegalFront(t) /\ Uri!Parts(t).fragment = SubSeq(t, h + 1, Len(t))
  BY <1>3, <1>4, <1>5, <1>6, <1>7, FrontLegal
<1>8. CASE c = SP
  <2>1. cs' \in OfVersion
    BY <1>8, Spaces DEF PathEnds, Taken, OfVersion
  <2>2. h = Len(t) + 1 /\ ~(h <= Len(t)) /\ SubSeq(t, h + 1, Len(t)) = <<>>
    BY <1>1, <1>3, <1>8 DEF h
  <2>3. LegalFront(t) /\ Uri!Parts(t).fragment = <<>>
    BY <1>7, <2>2
  <2>4. Uri!LegalTarget(t)
    BY <2>3, WholeLegal, NothingWellformed
  <2> QED
    BY <1>2, <2>1, <2>4, ReadVersion
<1>9. CASE c # SP
  <2>1. Taking' = h /\ t[h] = c /\ Start' = Start
    BY <1>1, <1>2, <1>9, OneMore DEF h
  <2>2. CASE c = "#"
    <3>1. cs' = "fragment?"
      BY <2>2, Spaces DEF PathEnds, Taken
    <3>2. LegalFront(t)
      BY <1>7, <2>1, <2>2
    <3> QED
      BY <1>2, <3>1, <3>2, ReadHash
  <2>3. CASE c = "?"
    <3>1. cs' = "query?"
      BY <2>3, Spaces DEF PathEnds, Taken
    <3>2. Marked' = k
      BY <1>2, <1>3, <1>4, <2>1 DEF Marked
    <3> QED
      BY <1>2, <1>6, <2>1, <3>1, <3>2, ReadQueryStart
  <2> QED
    BY <1>9, <2>2, <2>3 DEF PathEnds
<1> QED
  BY <1>8, <1>9

(* At the end of a query that began after a. *)
LEMMA QueryEndsRead ==
    ASSUME LInv, Reading, cs \in {"query?", "query"}, NEW a \in 1..Taking,
           PathCut(t, Marked, a), NoHash(t, Taking), QueryEnds(Start + a),
           SchemeTo(t, Marked), Uri!LegalPath(SubSeq(t, Marked + 1, a - 1)),
           Fine(t, a, Taking, QueryBytes, 0)
    PROVE  TargetRead'
<1>1. /\ Taking \in 0..Len(t) /\ (c = SP <=> Taking = Len(t))
      /\ Taking < Len(t) => t[Taking + 1] = c
      /\ cs \in OfTarget
  <2>1. cs \in OfTarget
    BY DEF OfTarget
  <2> QED
    BY <2>1, Here
<1>2. sent' = sent /\ p' = p + 1 /\ mark' = mark
  BY DEF QueryEnds, Reading, Taken
<1>3. t \in Seq(Byte) /\ Len(t) \in Nat
  BY Shape DEF LInv
<1>4. /\ a \in 1..Len(t) /\ t[a] = "?" /\ InPath(t, a - 1) /\ Marked \in 0..a - 1
      /\ Skips(t, Marked, a - 1)
  BY DEF PathCut
<1> DEFINE h == Taking + 1
           k == Marked
<1>5. /\ h \in 1..Len(t) + 1 /\ a \in 1..h /\ a < h /\ k \in 0..a - 1 /\ h - 1 = Taking
      /\ NoHash(t, h - 1)
  BY <1>1, <1>3, <1>4
<1>6. /\ SchemeTo(t, k) /\ Uri!LegalPath(SubSeq(t, k + 1, a - 1)) /\ Skips(t, k, a - 1)
      /\ Fine(t, a, h - 1, QueryBytes, 0)
  BY <1>4, <1>5
<1> HIDE DEF h, k
<1>7. ASSUME h <= Len(t) => t[h] = "#"
      PROVE  LegalFront(t) /\ Uri!Parts(t).fragment = SubSeq(t, h + 1, Len(t))
  BY <1>3, <1>4, <1>5, <1>6, <1>7, FrontLegal
<1>8. CASE c = SP
  <2>1. cs' \in OfVersion
    BY <1>8, Spaces DEF QueryEnds, Taken, OfVersion
  <2>2. ~(h <= Len(t)) /\ SubSeq(t, h + 1, Len(t)) = <<>>
    BY <1>1, <1>3, <1>8 DEF h
  <2>3. LegalFront(t) /\ Uri!Parts(t).fragment = <<>>
    BY <1>7, <2>2
  <2>4. Uri!LegalTarget(t)
    BY <2>3, WholeLegal, NothingWellformed
  <2> QED
    BY <1>2, <2>1, <2>4, ReadVersion
<1>9. CASE c # SP
  <2>1. Taking' = h /\ t[h] = c
    BY <1>1, <1>2, <1>9, OneMore DEF h
  <2>2. c = "#" /\ cs' = "fragment?"
    BY <1>9 DEF QueryEnds, Taken
  <2>3. LegalFront(t)
    BY <1>7, <2>1, <2>2
  <2> QED
    BY <1>2, <2>2, <2>3, ReadHash
<1> QED
  BY <1>8, <1>9

-----------------------------------------------------------------------------
(* The target has been read so far: the steps before an authority. *)

LEMMA ReadFirst ==
    ASSUME sent' = sent, cs' \in {"scheme", "noscheme"}, Taking' >= 1,
           Fine(t, 0, Taking', PathBytes, hex'),
           cs' = "scheme" => t[1] \in alpha /\ \A i \in 1..Taking' : t[i] \in SchemeBytes
    PROVE  TargetRead'
<1>1. t' = t
  BY DEF t
<1> QED
  BY <1>1 DEF TargetRead, OfPath, InAuthority, OfVersion

LEMMA ReadSlash ==
    ASSUME sent' = sent, cs' = "slash", SchemeTo(t, Marked'), Taking' = Marked' + 1,
           t[Taking'] = "/"
    PROVE  TargetRead'
<1>1. t' = t
  BY DEF t
<1> QED
  BY <1>1 DEF TargetRead, OfPath, InAuthority, OfVersion

LEMMA ReadAuthority ==
    ASSUME sent' = sent, cs' \in InAuthority, SchemeTo(t, Marked'), Slashes(t, Marked', Taking'),
           AuthorityRead(cs', t, Marked' + 2, Taking', hex')
    PROVE  TargetRead'
<1>1. t' = t
  BY DEF t
<1> QED
  BY <1>1 DEF TargetRead, OfPath, InAuthority, OfVersion

LEMMA NothingRead ==
    ASSUME NEW s, NEW k \in Nat
    PROVE  PathDone(s, k, k)
BY FineNone DEF PathDone, Slashes

LEMMA TargetStartRead ==
    ASSUME LInv, Reading, TargetStart
    PROVE  TargetRead'
<1>1. cs = "target" /\ Taking = 0 /\ cs \in OfTarget /\ p = Start
  <2>1. cs = "target"
    BY DEF TargetStart
  <2>2. Taking = 0
    BY <2>1 DEF LInv, Cut
  <2> QED
    BY <2>1, <2>2, Numbers DEF OfTarget
<1>2. CASE PathEnds(p)
  <2>1. /\ Start + 0 = p /\ 0 \in 0..Taking /\ Skips(t, 0, Taking) /\ InPath(t, Taking)
    BY <1>1, Numbers DEF Skips, NoColon, InPath
  <2>2. SchemeTo(t, 0) /\ PathDone(t, 0, Taking)
    BY <1>1, NothingRead DEF SchemeTo
  <2> QED
    BY <1>1, <1>2, <2>1, <2>2, PathEndsRead DEF BeforeEnd
<1>3. CASE ~PathEnds(p)
  <2>1. /\ mark' = p /\ sent' = sent /\ p' = p + 1
        /\ \/ c \in alpha /\ cs' = "scheme" /\ hex' = 0
           \/ c = "/" /\ cs' = "slash" /\ hex' = 0
           \/ c \in (unreserved \cup sub_delims \cup {"@"}) \ alpha /\ cs' = "noscheme" /\ hex' = 0
           \/ c = "%" /\ cs' = "noscheme" /\ hex' = 2
    BY <1>3 DEF TargetStart, Taken, KeepsParts, parts, Reading
  <2>2. c \in PathBytes \cup {"%"}
    <3>1. alpha \subseteq PathBytes /\ unreserved \cup sub_delims \cup {"@"} \subseteq PathBytes
          /\ "/" \in PathBytes
      BY DEF PathBytes, pchar, unreserved
    <3> QED
      BY <2>1, <3>1
  <2>3. c # SP
    BY <2>2, NotSpace
  <2>4. Taking' = 1 /\ t[1] = c /\ Marked' = 0
    BY <1>1, <2>1, <2>3, OneMore
  <2>5. CASE cs' = "slash"
    <3>1. c = "/" /\ SchemeTo(t, 0)
      BY <2>1, <2>5 DEF SchemeTo
    <3> QED
      BY <2>1, <2>4, <2>5, <3>1, ReadSlash
  <2>6. CASE cs' # "slash"
    <3>1. \/ c \in PathBytes /\ c # "%" /\ hex' = 0
          \/ c = "%" /\ hex' = 2
      <4>1. c \in PathBytes => c # "%"
        BY NotSpace
      <4>2. c \in alpha \cup unreserved \cup sub_delims \cup {"@"} => c # "%"
        BY NotSpace
      <4> QED
        BY <2>1, <2>2, <2>6, <4>1, <4>2
    <3>2. Fine(t, 0, 0 + 1, PathBytes, hex')
      <4>1. Fine(t, 0, 0, PathBytes, 0) /\ t[0 + 1] = c
        BY <2>4, FineNone
      <4> QED
        BY <3>1, <4>1, FineOn
    <3>3. cs' = "scheme" => c \in alpha /\ c \in SchemeBytes
      BY <2>1 DEF SchemeBytes
    <3>4. cs' \in {"scheme", "noscheme"} /\ Taking' >= 1 /\ Fine(t, 0, Taking', PathBytes, hex')
      BY <2>1, <2>4, <2>6, <3>2
    <3> QED
      BY <2>1, <2>4, <3>3, <3>4, ReadFirst
  <2> QED
    BY <2>5, <2>6
<1> QED
  BY <1>2, <1>3

(* What is known of a first segment, whether or not it may be a scheme. *)
LEMMA FirstIsRead ==
    ASSUME LInv, TargetRead, cs \in {"scheme", "noscheme"}
    PROVE  /\ cs \in OfTarget /\ Taking \in 0..Len(t) /\ Marked = 0 /\ InPath(t, Taking)
           /\ NoColon(t, Taking) /\ Taking >= 1 /\ Taking \in Nat
           /\ Fine(t, 0, Taking, PathBytes, hex)
           /\ cs = "scheme" => t[1] \in alpha /\ \A i \in 1..Taking : t[i] \in SchemeBytes
<1>1. /\ cs \in OfTarget /\ Taking \in 0..Len(t) /\ Marked = 0 /\ InPath(t, Taking)
      /\ NoColon(t, Taking)
  BY DEF LInv, Cut, OfTarget
<1>2. /\ Taking >= 1 /\ Fine(t, 0, Taking, PathBytes, hex)
      /\ cs = "scheme" => t[1] \in alpha /\ \A i \in 1..Taking : t[i] \in SchemeBytes
  BY DEF TargetRead
<1> QED
  BY <1>1, <1>2

LEMMA FirstEndsRead ==
    ASSUME LInv, Reading, TargetRead, cs \in {"scheme", "noscheme"}, hex = 0,
           \/ PathEnds(mark)
           \/ c = "/" /\ Plain("path")
    PROVE  TargetRead'
<1>1. /\ cs \in OfTarget /\ Taking \in 0..Len(t) /\ Marked = 0 /\ InPath(t, Taking)
      /\ NoColon(t, Taking) /\ Taking >= 1 /\ Taking \in Nat
      /\ Fine(t, 0, Taking, PathBytes, 0)
  BY FirstIsRead
<1>2. t[0 + 1] # "/" /\ SchemeTo(t, 0) /\ 0 + 1 = 1
  BY <1>1 DEF NoColon, SchemeTo
<1>3. CASE PathEnds(mark)
  <2>1. mark = Start + 0 /\ 0 \in 0..Taking /\ Skips(t, 0, Taking)
    BY <1>1, Numbers DEF Skips
  <2>2. PathDone(t, 0, Taking)
    BY <1>1, <1>2 DEF PathDone, Slashes
  <2> QED
    BY <1>1, <1>2, <1>3, <2>1, <2>2, PathEndsRead DEF BeforeEnd
<1>4. CASE c = "/" /\ Plain("path")
  <2>1. c # SP /\ c \in PathBytes /\ c # "%"
    BY <1>4, NotSpace DEF PathBytes
  <2>2. /\ cs' = "path" /\ Taking' = Taking + 1 /\ t[Taking + 1] = c /\ Marked' = Marked /\ hex' = 0
    BY <1>1, <1>4, <2>1, Onward
  <2>3. Fine(t, 0, Taking + 1, PathBytes, 0)
    BY <1>1, <2>1, <2>2, FineOn
  <2>4. PathTo(t, 0, Taking + 1, 0)
    BY <1>1, <1>2, <2>3 DEF PathTo, NoSlashes
  <2>5. sent' = sent
    BY DEF Reading
  <2> QED
    BY <1>1, <1>2, <2>2, <2>4, <2>5, ReadPath
<1> QED
  BY <1>3, <1>4

LEMMA FirstByteRead ==
    ASSUME LInv, Reading, TargetRead, cs \in {"scheme", "noscheme"}, hex = 0,
           NEW q \in {"scheme", "noscheme"},
           \/ c \in PathBytes /\ Plain(q)
           \/ Percent(q),
           q = "scheme" => cs = "scheme" /\ c \in SchemeBytes
    PROVE  TargetRead'
<1>1. /\ cs \in OfTarget /\ Taking >= 1 /\ Taking \in Nat
      /\ Fine(t, 0, Taking, PathBytes, 0)
      /\ cs = "scheme" => t[1] \in alpha /\ \A i \in 1..Taking : t[i] \in SchemeBytes
  BY FirstIsRead
<1>2. c # SP /\ (c \in PathBytes => c # "%")
  BY NotSpace DEF Percent
<1>3. /\ cs' = q /\ Taking' = Taking + 1 /\ t[Taking + 1] = c
      /\ Plain(q) => hex' = 0
      /\ Percent(q) => c = "%" /\ hex' = 2
  BY <1>1, <1>2, Onward
<1>4. Fine(t, 0, Taking + 1, PathBytes, hex')
  BY <1>1, <1>2, <1>3, FineOn
<1>5. ASSUME q = "scheme" PROVE t[1] \in alpha /\ \A i \in 1..Taking + 1 : t[i] \in SchemeBytes
  <2> SUFFICES ASSUME NEW i \in 1..Taking + 1 PROVE t[i] \in SchemeBytes
    BY <1>1, <1>5
  <2>1. i \in 1..Taking \/ i = Taking + 1
    BY <1>1
  <2> QED
    BY <1>1, <1>3, <1>5, <2>1
<1>6. sent' = sent /\ Taking' >= 1
  BY <1>1, <1>3 DEF Reading
<1> QED
  BY <1>3, <1>4, <1>5, <1>6, ReadFirst

LEMMA SchemeRead ==
    ASSUME LInv, Reading, TargetRead, Scheme
    PROVE  TargetRead'
<1>1. cs = "scheme" /\ hex = 0
  <2>1. cs = "scheme"
    BY DEF Scheme
  <2> QED
    BY <2>1, NoEscape DEF OfEscape
<1>2. CASE PathEnds(mark) \/ (c = "/" /\ Plain("path"))
  BY <1>1, <1>2, FirstEndsRead
<1>3. CASE c \in alpha \cup digit \cup {"+", "-", "."} /\ Plain("scheme")
  <2>1. c \in SchemeBytes /\ c \in PathBytes
    BY <1>3, Letters DEF SchemeBytes
  <2> QED
    BY <1>1, <1>3, <2>1, FirstByteRead
<1>4. CASE c \in ({"_", "~", "@"} \cup sub_delims) \ {"+"} /\ Plain("noscheme")
  <2>1. c \in PathBytes
    BY <1>4 DEF PathBytes, pchar, unreserved
  <2> QED
    BY <1>1, <1>4, <2>1, FirstByteRead
<1>5. CASE Percent("noscheme")
  BY <1>1, <1>5, FirstByteRead
<1>6. CASE c = ":" /\ Plain("hier")
  <2>1. /\ cs \in OfTarget /\ Taking >= 1 /\ Taking \in Nat
        /\ t[1] \in alpha /\ \A i \in 1..Taking : t[i] \in SchemeBytes
    BY <1>1, FirstIsRead
  <2>2. c # SP
    BY <1>6, NotSpace
  <2>3. cs' = "hier" /\ Taking' = Taking + 1
    BY <1>6, <2>1, <2>2, Onward
  <2>4. SchemeTo(t, Taking + 1)
    BY <2>1 DEF SchemeTo
  <2>5. t' = t
    BY DEF t, Reading
  <2> QED
    BY <2>3, <2>4, <2>5 DEF TargetRead, OfPath, InAuthority, OfVersion
<1> QED
  BY <1>2, <1>3, <1>4, <1>5, <1>6 DEF Scheme

LEMMA FirstSegmentRead ==
    ASSUME LInv, Reading, TargetRead, FirstSegment
    PROVE  TargetRead'
<1>1. cs = "noscheme" /\ hex = 0
  BY DEF FirstSegment
<1>2. CASE PathEnds(mark) \/ (c = "/" /\ Plain("path"))
  BY <1>1, <1>2, FirstEndsRead
<1>3. CASE (c \in pchar \ {":"} /\ Plain("noscheme")) \/ Percent("noscheme")
  BY <1>1, <1>3, FirstByteRead DEF PathBytes
<1> QED
  BY <1>2, <1>3 DEF FirstSegment

LEMMA HierRead ==
    ASSUME LInv, Reading, TargetRead, Hier
    PROVE  TargetRead'
<1>1. cs = "hier" /\ cs \in OfTarget
  BY DEF Hier, OfTarget
<1>2. /\ Taking \in 0..Len(t) /\ InPath(t, Taking) /\ SchemeIs(t, Taking, Taking)
      /\ SchemeTo(t, Taking) /\ Taking \in Nat
  <2>1. Taking \in 0..Len(t) /\ InPath(t, Taking) /\ SchemeIs(t, Taking, Taking)
    BY <1>1 DEF LInv, Cut
  <2> QED
    BY <1>1, <2>1 DEF TargetRead
<1>3. CASE PathEnds(p)
  <2>1. p = Start + Taking /\ Taking \in 0..Taking
    BY <1>2, Numbers
  <2>2. Skips(t, Taking, Taking) /\ PathDone(t, Taking, Taking)
    BY <1>2, NothingRead DEF Skips, Settled
  <2> QED
    BY <1>1, <1>2, <1>3, <2>1, <2>2, PathEndsRead DEF BeforeEnd
<1>4. CASE ~PathEnds(p)
  <2>1. /\ mark' = p /\ sent' = sent /\ p' = p + 1
        /\ \/ c = "/" /\ cs' = "slash" /\ hex' = 0
           \/ c \in pchar /\ cs' = "path" /\ hex' = 0
           \/ c = "%" /\ cs' = "path" /\ hex' = 2
    BY <1>4 DEF Hier, Taken, KeepsParts, parts, Reading
  <2>2. c # SP /\ (c \in pchar => c # "%" /\ c # "/" /\ c \in PathBytes)
    BY <2>1, NotSpace, Letters DEF PathBytes
  <2>3. Taking' = Taking + 1 /\ t[Taking + 1] = c /\ Marked' = Taking
    BY <1>1, <2>1, <2>2, OneMore
  <2>4. CASE c = "/" /\ cs' = "slash"
    BY <1>2, <2>1, <2>3, <2>4, ReadSlash
  <2>5. CASE c \in pchar \cup {"%"} /\ cs' = "path" /\ c # "/"
    <3>1. \/ c \in PathBytes /\ c # "%" /\ hex' = 0
          \/ c = "%" /\ hex' = 2
      BY <2>1, <2>2, <2>5
    <3>2. Fine(t, Taking, Taking + 1, PathBytes, hex')
      <4>1. Fine(t, Taking, Taking, PathBytes, 0)
        BY <1>2, FineNone
      <4> QED
        BY <1>2, <2>3, <3>1, <4>1, FineOn
    <3>3. PathTo(t, Taking, Taking + 1, hex')
      BY <1>2, <2>3, <2>5, <3>2 DEF PathTo, NoSlashes
    <3> QED
      BY <1>2, <2>1, <2>3, <2>5, <3>3, ReadPath
  <2> QED
    BY <2>1, <2>2, <2>4, <2>5
<1> QED
  BY <1>3, <1>4

(* What is known of a path that has begun. *)
LEMMA InPathIsRead ==
    ASSUME LInv, TargetRead, cs \in OfPath
    PROVE  /\ cs \in OfTarget /\ Taking \in 0..Len(t) /\ Taking \in Nat /\ Marked \in 0..Taking
           /\ Marked \in Nat /\ InPath(t, Taking) /\ Skips(t, Marked, Taking)
           /\ mark = Start + Marked /\ cs \in BeforeEnd /\ SchemeTo(t, Marked)
<1>1. /\ cs \in OfTarget /\ Taking \in 0..Len(t) /\ Marked \in 0..Taking /\ InPath(t, Taking)
      /\ Settled(t, Marked, Taking)
  BY DEF LInv, Cut, OfTarget
<1>2. SchemeTo(t, Marked)
  BY DEF TargetRead
<1> QED
  BY <1>1, <1>2, Numbers DEF Skips, BeforeEnd

LEMMA SlashRead ==
    ASSUME LInv, Reading, TargetRead, Slash
    PROVE  TargetRead'
<1>1. cs = "slash" /\ cs \in OfPath
  BY DEF Slash, OfPath
<1>2. /\ cs \in OfTarget /\ Taking \in 0..Len(t) /\ Taking \in Nat /\ Marked \in 0..Taking
      /\ Marked \in Nat /\ InPath(t, Taking) /\ Skips(t, Marked, Taking)
      /\ mark = Start + Marked /\ cs \in BeforeEnd /\ SchemeTo(t, Marked)
  BY <1>1, InPathIsRead
<1>3. Taking = Marked + 1 /\ t[Marked + 1] = "/"
  <2>1. Taking = Marked + 1 /\ t[Taking] = "/"
    BY <1>1 DEF TargetRead
  <2> QED
    BY <2>1
<1>4. Fine(t, Marked, Marked + 1, PathBytes, 0)
  <2>1. Fine(t, Marked, Marked, PathBytes, 0) /\ "/" \in PathBytes /\ "/" # "%"
    BY <1>2, FineNone DEF PathBytes
  <2> QED
    BY <1>2, <1>3, <2>1, FineOn
<1>5. sent' = sent /\ t' = t
  BY DEF Reading, t
<1>6. CASE PathEnds(mark)
  <2>1. PathDone(t, Marked, Taking)
    BY <1>2, <1>3, <1>4 DEF PathDone, Slashes
  <2> QED
    BY <1>2, <1>6, <2>1, PathEndsRead
<1>7. CASE c = "/" /\ Plain("authority")
  <2>1. c # SP
    BY <1>7, NotSpace
  <2>2. cs' = "authority" /\ Taking' = Taking + 1 /\ t[Taking + 1] = c /\ Marked' = Marked
    BY <1>2, <1>7, <2>1, Onward
  <2>3. Slashes(t, Marked', Taking') /\ SchemeTo(t, Marked')
    BY <1>2, <1>3, <1>7, <2>2 DEF Slashes
  <2>4. AuthorityRead(cs', t, Marked' + 2, Taking', hex')
    BY <1>2, <1>3, <2>2 DEF AuthorityRead
  <2> QED
    BY <1>5, <2>2, <2>3, <2>4, ReadAuthority DEF InAuthority, OfPath
<1>8. CASE (c \in pchar /\ Plain("path")) \/ Percent("path")
  <2>1. c # SP /\ c # "/" /\ (c \in pchar => c # "%" /\ c \in PathBytes)
    BY <1>8, NotSpace, Letters DEF PathBytes, Percent
  <2>2. /\ cs' = "path" /\ Taking' = Taking + 1 /\ t[Taking + 1] = c /\ Marked' = Marked
        /\ Plain("path") => hex' = 0
        /\ Percent("path") => c = "%" /\ hex' = 2
    BY <1>2, <1>8, <2>1, Onward
  <2>3. Fine(t, Marked, (Marked + 1) + 1, PathBytes, hex')
    <3>1. Marked + 1 \in Nat /\ Marked <= Marked + 1 /\ t[(Marked + 1) + 1] = c
      BY <1>2, <1>3, <2>2
    <3> QED
      BY <1>2, <1>4, <1>8, <2>1, <2>2, <3>1, FineOn
  <2>4. NoSlashes(t, Marked, (Marked + 1) + 1)
    BY <1>2, <1>3, <2>1, <2>2 DEF NoSlashes
  <2>5. PathTo(t, Marked', Taking', hex')
    BY <1>3, <2>2, <2>3, <2>4 DEF PathTo
  <2> QED
    BY <1>2, <1>5, <2>2, <2>5, ReadPath
<1> QED
  BY <1>6, <1>7, <1>8 DEF Slash

LEMMA PathIsRead ==
    ASSUME LInv, Reading, TargetRead, Path
    PROVE  TargetRead'
<1>1. cs = "path" /\ cs \in OfPath /\ hex = 0
  BY DEF Path, OfPath
<1>2. /\ cs \in OfTarget /\ Taking \in 0..Len(t) /\ Taking \in Nat /\ Marked \in 0..Taking
      /\ Marked \in Nat /\ InPath(t, Taking) /\ Skips(t, Marked, Taking)
      /\ mark = Start + Marked /\ cs \in BeforeEnd /\ SchemeTo(t, Marked)
  BY <1>1, InPathIsRead
<1>3. PathTo(t, Marked, Taking, 0)
  BY <1>1 DEF TargetRead
<1>4. CASE PathEnds(mark)
  <2>1. PathDone(t, Marked, Taking)
    BY <1>2, <1>3, PathToDone
  <2> QED
    BY <1>2, <1>4, <2>1, PathEndsRead
<1>5. CASE (c \in pchar \cup {"/"} /\ Plain("path")) \/ Percent("path")
  <2>1. c # SP /\ (c \in pchar \cup {"/"} => c # "%" /\ c \in PathBytes)
    BY <1>5, NotSpace DEF PathBytes, Percent
  <2>2. /\ cs' = "path" /\ Taking' = Taking + 1 /\ t[Taking + 1] = c /\ Marked' = Marked
        /\ Plain("path") => hex' = 0
        /\ Percent("path") => c = "%" /\ hex' = 2
    BY <1>2, <1>5, <2>1, Onward
  <2>3. PathTo(t, Marked, Taking + 1, hex')
    BY <1>2, <1>3, <1>5, <2>1, <2>2, PathOn
  <2>4. sent' = sent
    BY DEF Reading
  <2> QED
    BY <1>2, <2>2, <2>3, <2>4, ReadPath
<1> QED
  BY <1>4, <1>5 DEF Path

-----------------------------------------------------------------------------
(* The target has been read so far: the steps of an authority. *)

LEMMA EmptyHost ==
    ASSUME NEW s, NEW d \in Nat
    PROVE  UserAt(s, d, d) /\ HostTo(s, d, d)
BY FineNone DEF UserAt, HostTo

(* Where it may end, it is an authority. *)
LEMMA AuthorityDone ==
    ASSUME NEW s, NEW d \in Nat, NEW n \in Nat, d <= n, NEW q \in InAuthority \ {"user"},
           AuthorityRead(q, s, d, n, 0)
    PROVE  AuthorityTo(s, d, n)
<1>0. d \in d..n /\ n \in d..n /\ n \in n..n /\ d \in d..d
  OBVIOUS
<1>1. CASE q = "authority"
  <2>1. n = d
    BY <1>1 DEF AuthorityRead
  <2> QED
    BY <1>0, <2>1, EmptyHost DEF AuthorityTo
<1>2. CASE q = "name"
  <2>1. UserAt(s, d, d) /\ HostTo(s, d, n)
    BY <1>2 DEF AuthorityRead, UserAt, HostTo
  <2> QED
    BY <1>0, <2>1 DEF AuthorityTo
<1>3. CASE q = "port?"
  <2>1. PICK e \in d..n : Fine(s, d, e, NameBytes, 0) /\ PortTo(s, e, n)
    BY <1>3 DEF AuthorityRead
  <2>2. UserAt(s, d, d) /\ HostTo(s, d, e)
    BY <2>1 DEF UserAt, HostTo
  <2> QED
    BY <1>0, <2>1, <2>2 DEF AuthorityTo
<1>4. CASE q = "host"
  <2>1. UserAt(s, d, n) /\ HostTo(s, n, n)
    BY <1>4, EmptyHost DEF AuthorityRead
  <2> QED
    BY <1>0, <2>1 DEF AuthorityTo
<1>5. CASE q \in {"regname", "literal"}
  <2>1. PICK a \in d..n : UserAt(s, d, a) /\ HostTo(s, a, n)
    BY <1>5 DEF AuthorityRead, HostTo
  <2>2. n \in a..n
    OBVIOUS
  <2> QED
    BY <2>1, <2>2 DEF AuthorityTo
<1>6. CASE q = "port"
  <2>1. PICK a \in d..n : \E e \in a..n : UserAt(s, d, a) /\ HostTo(s, a, e) /\ PortTo(s, e, n)
    BY <1>6 DEF AuthorityRead
  <2> QED
    BY <2>1 DEF AuthorityTo
<1> QED
  BY <1>1, <1>2, <1>3, <1>4, <1>5, <1>6 DEF InAuthority, OfPath

(* A port that turns out to be user information. *)
LEMMA PortIsUser ==
    ASSUME NEW s, NEW d \in Nat, NEW n \in Nat, NEW e \in d..n, Fine(s, d, e, NameBytes, 0),
           PortTo(s, e, n)
    PROVE  Fine(s, d, n, UserBytes, 0)
<1>1. /\ e < n /\ s[e + 1] = ":" /\ \A i \in e + 2..n : s[i] \in digit
  BY DEF PortTo
<1>2. /\ \A b \in digit : b \in UserBytes /\ b # "%"
      /\ NameBytes \subseteq UserBytes /\ ":" \in UserBytes
  BY Letters DEF UserBytes
<1> SUFFICES ASSUME NEW i \in d + 1..n
             PROVE  /\ s[i] \in UserBytes \cup {"%"}
                    /\ s[i] = "%" => /\ \A j \in {i + 1, i + 2} : j <= n => s[j] \in xdigit
                                     /\ i + 2 <= n \/ 0 = i + 2 - n
  BY DEF Fine
<1>3. CASE i \in d + 1..e
  <2>1. /\ s[i] \in NameBytes \cup {"%"}
        /\ s[i] = "%" => /\ \A j \in {i + 1, i + 2} : j <= e => s[j] \in xdigit
                         /\ i + 2 <= e \/ 0 = i + 2 - e
    BY <1>3 DEF Fine
  <2>2. ASSUME s[i] = "%"
        PROVE  /\ \A j \in {i + 1, i + 2} : s[j] \in xdigit
               /\ i + 2 <= n
    <3>1. i + 2 <= e /\ i + 1 <= e
      BY <2>1, <2>2
    <3> QED
      BY <1>1, <2>1, <2>2, <3>1
  <2> QED
    BY <1>2, <2>1, <2>2
<1>4. CASE i = e + 1
  BY <1>1, <1>2, <1>4
<1>5. CASE i \in e + 2..n
  BY <1>1, <1>2, <1>5
<1> QED
  BY <1>1, <1>3, <1>4, <1>5

LEMMA PortOn ==
    ASSUME NEW s, NEW e \in Nat, NEW n \in Nat, PortTo(s, e, n), s[n + 1] \in digit
    PROVE  PortTo(s, e, n + 1)
<1> SUFFICES ASSUME NEW i \in e + 2..n + 1 PROVE s[i] \in digit
  BY DEF PortTo
<1>1. i \in e + 2..n \/ i = n + 1
  OBVIOUS
<1> QED
  BY <1>1 DEF PortTo

LEMMA PortBegins ==
    ASSUME NEW s, NEW e \in Nat, s[e + 1] = ":"
    PROVE  PortTo(s, e, e + 1)
BY DEF PortTo

(* What is known of an authority that has begun. *)
LEMMA AuthorityIsRead ==
    ASSUME LInv, TargetRead, cs \in InAuthority
    PROVE  /\ cs \in OfPath /\ cs \in OfTarget
           /\ Taking \in Nat /\ Taking <= Len(t) /\ Marked \in Nat
           /\ Marked + 2 <= Taking /\ Marked + 2 \in Nat
           /\ SchemeTo(t, Marked) /\ Slashes(t, Marked, Taking)
           /\ AuthorityRead(cs, t, Marked + 2, Taking, hex)
<1>1. cs \in OfPath
  BY DEF InAuthority, OfPath
<1>2. /\ cs \in OfTarget /\ Taking \in 0..Len(t) /\ Taking \in Nat /\ Marked \in 0..Taking
      /\ Marked \in Nat /\ SchemeTo(t, Marked)
  BY <1>1, InPathIsRead
<1>3. Slashes(t, Marked, Taking) /\ AuthorityRead(cs, t, Marked + 2, Taking, hex)
  BY DEF TargetRead
<1> QED
  BY <1>1, <1>2, <1>3 DEF Slashes

(* A byte of an authority is taken. *)
LEMMA AuthorityOn ==
    ASSUME LInv, Reading, TargetRead, cs \in InAuthority, NEW q \in InAuthority,
           Plain(q) \/ Percent(q), c # SP,
           AuthorityRead(q, t, Marked + 2, Taking + 1, hex')
    PROVE  TargetRead'
<1>1. /\ cs \in OfTarget /\ Taking \in Nat /\ Marked \in Nat
      /\ SchemeTo(t, Marked) /\ Slashes(t, Marked, Taking)
  BY AuthorityIsRead
<1>2. cs' = q /\ Taking' = Taking + 1 /\ Marked' = Marked
  BY <1>1, Onward
<1>3. Slashes(t, Marked, Taking + 1)
  BY <1>1 DEF Slashes
<1>4. sent' = sent
  BY DEF Reading
<1> QED
  BY <1>1, <1>2, <1>3, <1>4, ReadAuthority

(* The byte after what has been read. *)
LEMMA AuthorityNext ==
    ASSUME LInv, Reading, TargetRead, cs \in InAuthority, NEW q, Plain(q) \/ Percent(q), c # SP
    PROVE  /\ t[Taking + 1] = c
           /\ Plain(q) => hex' = 0
           /\ Percent(q) => c = "%" /\ hex' = 2
<1>1. cs \in OfTarget
  BY AuthorityIsRead
<1> QED
  BY <1>1, Onward

LEMMA LeavesAuthorityRead ==
    ASSUME LInv, Reading, TargetRead, cs \in InAuthority \ {"user"}, hex = 0, LeavesAuthority
    PROVE  TargetRead'
<1>1. /\ cs \in OfPath /\ cs \in OfTarget /\ Taking \in Nat /\ Marked \in Nat
      /\ Marked + 2 <= Taking /\ Marked + 2 \in Nat
      /\ SchemeTo(t, Marked) /\ Slashes(t, Marked, Taking)
      /\ AuthorityRead(cs, t, Marked + 2, Taking, 0)
  BY AuthorityIsRead
<1>2. AuthorityTo(t, Marked + 2, Taking)
  BY <1>1, AuthorityDone
<1>3. CASE PathEnds(mark)
  <2>1. PathDone(t, Marked, Taking)
    <3>1. Taking \in Marked + 2..Taking /\ ~(Taking < Taking)
      BY <1>1
    <3> QED
      BY <1>1, <1>2, <3>1 DEF PathDone
  <2>2. /\ Marked \in 0..Taking /\ InPath(t, Taking) /\ Skips(t, Marked, Taking)
        /\ mark = Start + Marked /\ cs \in BeforeEnd
    BY <1>1, InPathIsRead
  <2> QED
    BY <1>1, <1>3, <2>1, <2>2, PathEndsRead
<1>4. CASE c = "/" /\ Plain("path")
  <2>1. c # SP
    BY <1>4, NotSpace
  <2>2. /\ cs' = "path" /\ Taking' = Taking + 1 /\ t[Taking + 1] = c /\ Marked' = Marked /\ hex' = 0
    BY <1>1, <1>4, <2>1, Onward
  <2>3. PathTo(t, Marked, Taking + 1, 0)
    BY <1>1, <1>2, <1>4, <2>2, PathAfterAuthority
  <2>4. sent' = sent
    BY DEF Reading
  <2> QED
    BY <1>1, <2>2, <2>3, <2>4, ReadPath
<1> QED
  BY <1>3, <1>4 DEF LeavesAuthority

(* A literal is taken where a host begins. *)
LEMMA LiteralRead ==
    ASSUME LInv, Reading, TargetRead, cs \in {"authority", "host"}, Literal
    PROVE  TargetRead'
<1>0. cs \in InAuthority /\ "literal" \in InAuthority
  BY DEF InAuthority, OfPath
<1>1. /\ cs \in OfPath /\ Taking \in Nat /\ Marked \in Nat
      /\ Marked + 2 <= Taking /\ Marked + 2 \in Nat
      /\ SchemeTo(t, Marked) /\ Slashes(t, Marked, Taking)
      /\ AuthorityRead(cs, t, Marked + 2, Taking, hex)
  BY <1>0, AuthorityIsRead
<1>2. /\ cs' = "literal" /\ sent' = sent
      /\ Taking' \in Taking + 2..Len(t) /\ Marked' = Marked
      /\ t[Taking + 1] = "[" /\ t[Taking'] = "]"
      /\ IP_literal(SubSeq(t, Taking + 2, Taking' - 1))
  BY <1>1, LiteralIs
<1>3. Taking' \in Nat /\ Taking + 2 <= Taking'
  BY <1>1, <1>2
<1>4. HostTo(t, Taking, Taking')
  BY <1>2, <1>3 DEF HostTo
<1>5. UserAt(t, Marked + 2, Taking)
  <2>1. CASE cs = "authority"
    BY <1>1, <2>1 DEF AuthorityRead, UserAt
  <2>2. CASE cs = "host"
    BY <1>1, <2>2 DEF AuthorityRead
  <2> QED
    BY <2>1, <2>2
<1>6. AuthorityRead("literal", t, Marked + 2, Taking', hex')
  <2>1. Taking \in Marked + 2..Taking'
    BY <1>1, <1>3
  <2> QED
    BY <1>4, <1>5, <2>1 DEF AuthorityRead
<1>7. Slashes(t, Marked, Taking')
  BY <1>1, <1>3 DEF Slashes
<1> QED
  BY <1>0, <1>1, <1>2, <1>6, <1>7, ReadAuthority

LEMMA AuthorityStepRead ==
    ASSUME LInv, Reading, TargetRead, Authority
    PROVE  TargetRead'
<1>1. cs \in {"authority", "name"} /\ hex = 0 /\ cs \in InAuthority \ {"user"}
      /\ cs \in InAuthority
  BY DEF Authority, InAuthority, OfPath
<1>2. /\ Taking \in Nat /\ Marked \in Nat /\ Marked + 2 <= Taking /\ Marked + 2 \in Nat
      /\ AuthorityRead(cs, t, Marked + 2, Taking, 0)
  BY <1>1, AuthorityIsRead
<1> DEFINE d == Marked + 2
           n == Taking
<1>3. d \in Nat /\ n \in Nat /\ d <= n /\ Fine(t, d, n, NameBytes, 0)
  <2>1. CASE cs = "authority"
    <3>1. n = d
      BY <1>2, <2>1 DEF AuthorityRead
    <3> QED
      BY <1>2, <3>1, FineNone
  <2>2. CASE cs = "name"
    BY <1>2, <2>2 DEF AuthorityRead
  <2> QED
    BY <1>1, <1>2, <2>1, <2>2
<1> HIDE DEF d, n
<1>4. CASE LeavesAuthority
  BY <1>1, <1>4, LeavesAuthorityRead
<1>5. CASE cs = "authority" /\ Literal
  BY <1>1, <1>5, LiteralRead
<1>6. CASE (c \in unreserved \cup sub_delims /\ Plain("name")) \/ Percent("name")
  <2>1. /\ c # SP /\ (c \in NameBytes => c # "%")
        /\ c \in unreserved \cup sub_delims => c \in NameBytes
    BY <1>6, NotSpace DEF Percent, NameBytes
  <2>2. /\ t[n + 1] = c
        /\ Plain("name") => hex' = 0
        /\ Percent("name") => c = "%" /\ hex' = 2
    BY <1>1, <1>6, <2>1, AuthorityNext DEF n
  <2>3. Fine(t, d, n + 1, NameBytes, hex')
    BY <1>3, <1>6, <2>1, <2>2, FineOn
  <2>4. AuthorityRead("name", t, d, n + 1, hex')
    BY <2>3 DEF AuthorityRead
  <2>5. "name" \in InAuthority
    BY DEF InAuthority, OfPath
  <2> QED
    BY <1>1, <1>6, <2>1, <2>4, <2>5, AuthorityOn DEF d, n
<1>7. CASE c = ":" /\ Plain("port?")
  <2>1. c # SP
    BY <1>7, NotSpace
  <2>2. t[n + 1] = ":"
    BY <1>1, <1>7, <2>1, AuthorityNext DEF n
  <2>3. PortTo(t, n, n + 1) /\ n \in d..n + 1
    BY <1>3, <2>2, PortBegins
  <2>4. AuthorityRead("port?", t, d, n + 1, hex')
    BY <1>3, <2>3 DEF AuthorityRead
  <2>5. "port?" \in InAuthority
    BY DEF InAuthority, OfPath
  <2> QED
    BY <1>1, <1>7, <2>1, <2>4, <2>5, AuthorityOn DEF d, n
<1>8. CASE c = "@" /\ Plain("host")
  <2>1. c # SP
    BY <1>8, NotSpace
  <2>2. t[n + 1] = "@"
    BY <1>1, <1>8, <2>1, AuthorityNext DEF n
  <2>3. Fine(t, d, n, UserBytes, 0)
    BY <1>3, Letters, FineMore
  <2>4. UserAt(t, d, n + 1)
    <3>1. (n + 1) - 1 = n /\ n + 1 > d
      BY <1>3
    <3> QED
      BY <2>2, <2>3, <3>1 DEF UserAt
  <2>5. AuthorityRead("host", t, d, n + 1, hex')
    BY <2>4 DEF AuthorityRead
  <2>6. "host" \in InAuthority
    BY DEF InAuthority, OfPath
  <2> QED
    BY <1>1, <1>8, <2>1, <2>5, <2>6, AuthorityOn DEF d, n
<1> QED
  BY <1>4, <1>5, <1>6, <1>7, <1>8 DEF Authority

(* An "@" ends user information. *)
LEMMA UserEndsRead ==
    ASSUME LInv, Reading, TargetRead, cs \in InAuthority, Fine(t, Marked + 2, Taking, UserBytes, 0),
           c = "@", Plain("host")
    PROVE  TargetRead'
<1>1. c # SP /\ "host" \in InAuthority
  BY NotSpace DEF InAuthority, OfPath
<1>2. Taking \in Nat /\ Marked \in Nat /\ Marked + 2 <= Taking
  BY AuthorityIsRead
<1>3. t[Taking + 1] = "@"
  BY <1>1, AuthorityNext
<1>4. UserAt(t, Marked + 2, Taking + 1)
  <2>1. (Taking + 1) - 1 = Taking /\ Taking + 1 > Marked + 2
    BY <1>2
  <2> QED
    BY <1>3, <2>1 DEF UserAt
<1>5. AuthorityRead("host", t, Marked + 2, Taking + 1, hex')
  BY <1>4 DEF AuthorityRead
<1> QED
  BY <1>1, <1>5, AuthorityOn

LEMMA UserByteRead ==
    ASSUME LInv, Reading, TargetRead, cs \in InAuthority, Fine(t, Marked + 2, Taking, UserBytes, 0),
           \/ c \in unreserved \cup sub_delims \cup {":"} /\ Plain("user")
           \/ Percent("user")
    PROVE  TargetRead'
<1> DEFINE d == Marked + 2
           n == Taking
<1>1. "user" \in InAuthority
  BY DEF InAuthority, OfPath
<1>2. d \in Nat /\ n \in Nat /\ d <= n
  BY AuthorityIsRead
<1>3. /\ c # SP
      /\ c \in unreserved \cup sub_delims \cup {":"} => c \in UserBytes /\ c # "%"
  BY NotSpace DEF Percent, UserBytes, NameBytes
<1>4. /\ t[n + 1] = c
      /\ Plain("user") => hex' = 0
      /\ Percent("user") => c = "%" /\ hex' = 2
  BY <1>3, AuthorityNext
<1>5. Fine(t, d, n, UserBytes, 0)
  OBVIOUS
<1> HIDE DEF d, n
<1>6. Fine(t, d, n + 1, UserBytes, hex')
  BY <1>2, <1>3, <1>4, <1>5, FineOn
<1>7. AuthorityRead("user", t, d, n + 1, hex')
  BY <1>6 DEF AuthorityRead
<1> QED
  BY <1>1, <1>3, <1>7, AuthorityOn DEF d, n

LEMMA PortOrUserRead ==
    ASSUME LInv, Reading, TargetRead, PortOrUser
    PROVE  TargetRead'
<1>1. cs = "port?" /\ cs \in InAuthority /\ cs \in InAuthority \ {"user"}
  BY DEF PortOrUser, InAuthority, OfPath
<1>2. hex = 0
  BY <1>1, NoEscape DEF OfEscape
<1>3. /\ Taking \in Nat /\ Marked \in Nat /\ Marked + 2 <= Taking /\ Marked + 2 \in Nat
      /\ AuthorityRead("port?", t, Marked + 2, Taking, hex)
  BY <1>1, AuthorityIsRead
<1>4. PICK e \in Marked + 2..Taking : Fine(t, Marked + 2, e, NameBytes, 0) /\ PortTo(t, e, Taking)
  BY <1>3 DEF AuthorityRead
<1>5. Fine(t, Marked + 2, Taking, UserBytes, 0)
  <2> DEFINE d == Marked + 2
  <2>1. d \in Nat /\ e \in d..Taking /\ Fine(t, d, e, NameBytes, 0)
    BY <1>3, <1>4
  <2> HIDE DEF d
  <2>2. Fine(t, d, Taking, UserBytes, 0)
    BY <1>3, <1>4, <2>1, PortIsUser
  <2> QED
    BY <2>2 DEF d
<1>6. CASE c \in digit /\ Plain("port?")
  <2>1. c # SP /\ "port?" \in InAuthority
    BY <1>1, <1>6, NotSpace
  <2>2. t[Taking + 1] = c
    BY <1>1, <1>6, <2>1, AuthorityNext
  <2>3. e \in Nat /\ e \in Marked + 2..Taking + 1
    BY <1>3
  <2>4. PortTo(t, e, Taking + 1)
    BY <1>3, <1>4, <1>6, <2>2, <2>3, PortOn
  <2>5. AuthorityRead("port?", t, Marked + 2, Taking + 1, hex')
    BY <1>4, <2>3, <2>4 DEF AuthorityRead
  <2> QED
    BY <1>1, <1>6, <2>1, <2>5, AuthorityOn
<1>7. CASE \/ c \in ((unreserved \ digit) \cup sub_delims \cup {":"}) /\ Plain("user")
           \/ Percent("user")
  BY <1>1, <1>5, <1>7, UserByteRead
<1>8. CASE c = "@" /\ Plain("host")
  BY <1>1, <1>5, <1>8, UserEndsRead
<1>9. CASE LeavesAuthority
  BY <1>1, <1>2, <1>9, LeavesAuthorityRead
<1> QED
  BY <1>6, <1>7, <1>8, <1>9 DEF PortOrUser

LEMMA UserRead ==
    ASSUME LInv, Reading, TargetRead, User
    PROVE  TargetRead'
<1>1. cs = "user" /\ cs \in InAuthority /\ hex = 0
  BY DEF User, InAuthority, OfPath
<1>2. Fine(t, Marked + 2, Taking, UserBytes, 0)
  BY <1>1, AuthorityIsRead DEF AuthorityRead
<1> QED
  BY <1>1, <1>2, UserByteRead, UserEndsRead DEF User

LEMMA HostRead ==
    ASSUME LInv, Reading, TargetRead, Host
    PROVE  TargetRead'
<1>1. cs \in {"host", "regname"} /\ hex = 0 /\ cs \in InAuthority \ {"user"}
      /\ cs \in InAuthority
  BY DEF Host, InAuthority, OfPath
<1>2. /\ Taking \in Nat /\ Marked \in Nat /\ Marked + 2 <= Taking /\ Marked + 2 \in Nat
      /\ AuthorityRead(cs, t, Marked + 2, Taking, 0)
  BY <1>1, AuthorityIsRead
<1> DEFINE d == Marked + 2
           n == Taking
<1>3. \E a \in d..n : UserAt(t, d, a) /\ Fine(t, a, n, NameBytes, 0)
  <2>1. CASE cs = "host"
    <3>1. UserAt(t, d, n) /\ Fine(t, n, n, NameBytes, 0) /\ n \in d..n
      BY <1>2, <2>1, FineNone DEF AuthorityRead
    <3> QED
      BY <3>1
  <2>2. CASE cs = "regname"
    BY <1>2, <2>2 DEF AuthorityRead
  <2> QED
    BY <1>1, <2>1, <2>2
<1>4. d \in Nat /\ n \in Nat
  BY <1>2
<1> HIDE DEF d, n
<1>5. PICK a \in d..n : UserAt(t, d, a) /\ Fine(t, a, n, NameBytes, 0)
  BY <1>3
<1>6. a \in Nat /\ a <= n /\ a \in d..n + 1
  BY <1>4
<1>7. CASE LeavesAuthority
  BY <1>1, <1>7, LeavesAuthorityRead
<1>8. CASE cs = "host" /\ Literal
  BY <1>8, LiteralRead
<1>9. CASE (c \in unreserved \cup sub_delims /\ Plain("regname")) \/ Percent("regname")
  <2>1. /\ c # SP /\ (c \in NameBytes => c # "%")
        /\ c \in unreserved \cup sub_delims => c \in NameBytes
    BY <1>9, NotSpace DEF Percent, NameBytes
  <2>2. /\ t[n + 1] = c
        /\ Plain("regname") => hex' = 0
        /\ Percent("regname") => c = "%" /\ hex' = 2
    BY <1>1, <1>9, <2>1, AuthorityNext DEF n
  <2>3. Fine(t, a, n + 1, NameBytes, hex')
    BY <1>4, <1>5, <1>6, <1>9, <2>1, <2>2, FineOn
  <2>4. AuthorityRead("regname", t, d, n + 1, hex')
    BY <1>5, <1>6, <2>3 DEF AuthorityRead
  <2>5. "regname" \in InAuthority
    BY DEF InAuthority, OfPath
  <2> QED
    BY <1>1, <1>9, <2>1, <2>4, <2>5, AuthorityOn DEF d, n
<1>10. CASE c = ":" /\ Plain("port")
  <2>1. c # SP /\ "port" \in InAuthority
    BY <1>10, NotSpace DEF InAuthority, OfPath
  <2>2. t[n + 1] = ":"
    BY <1>1, <1>10, <2>1, AuthorityNext DEF n
  <2>3. HostTo(t, a, n) /\ PortTo(t, n, n + 1) /\ n \in a..n + 1
    BY <1>4, <1>5, <1>6, <2>2, PortBegins DEF HostTo
  <2>4. AuthorityRead("port", t, d, n + 1, hex')
    BY <1>5, <1>6, <2>3 DEF AuthorityRead
  <2> QED
    BY <1>1, <1>10, <2>1, <2>4, AuthorityOn DEF d, n
<1> QED
  BY <1>7, <1>8, <1>9, <1>10 DEF Host

LEMMA PortRead ==
    ASSUME LInv, Reading, TargetRead, Port
    PROVE  TargetRead'
<1>1. cs = "port" /\ cs \in InAuthority /\ cs \in InAuthority \ {"user"}
  BY DEF Port, InAuthority, OfPath
<1>2. hex = 0
  BY <1>1, NoEscape DEF OfEscape
<1>3. /\ Taking \in Nat /\ Marked \in Nat /\ Marked + 2 \in Nat
      /\ AuthorityRead("port", t, Marked + 2, Taking, hex)
  BY <1>1, AuthorityIsRead
<1>4. CASE LeavesAuthority
  BY <1>1, <1>2, <1>4, LeavesAuthorityRead
<1>5. CASE c \in digit /\ Plain("port")
  <2>1. c # SP /\ "port" \in InAuthority
    BY <1>1, <1>5, NotSpace
  <2>2. t[Taking + 1] = c
    BY <1>1, <1>5, <2>1, AuthorityNext
  <2>3. PICK a \in Marked + 2..Taking : \E e \in a..Taking :
           UserAt(t, Marked + 2, a) /\ HostTo(t, a, e) /\ PortTo(t, e, Taking)
    BY <1>3 DEF AuthorityRead
  <2>4. PICK e \in a..Taking : UserAt(t, Marked + 2, a) /\ HostTo(t, a, e) /\ PortTo(t, e, Taking)
    BY <2>3
  <2>5. e \in Nat /\ e \in a..Taking + 1 /\ a \in Marked + 2..Taking + 1
    BY <1>3
  <2>6. PortTo(t, e, Taking + 1)
    BY <1>3, <1>5, <2>2, <2>4, <2>5, PortOn
  <2>7. AuthorityRead("port", t, Marked + 2, Taking + 1, hex')
    BY <2>4, <2>5, <2>6 DEF AuthorityRead
  <2> QED
    BY <1>1, <1>5, <2>1, <2>7, AuthorityOn
<1> QED
  BY <1>4, <1>5 DEF Port

LEMMA LiteralEndsRead ==
    ASSUME LInv, Reading, TargetRead, LiteralEnds
    PROVE  TargetRead'
<1>1. cs = "literal" /\ cs \in InAuthority /\ cs \in InAuthority \ {"user"}
  BY DEF LiteralEnds, InAuthority, OfPath
<1>2. hex = 0
  BY <1>1, NoEscape DEF OfEscape
<1>3. /\ Taking \in Nat /\ Marked \in Nat /\ Marked + 2 \in Nat
      /\ AuthorityRead("literal", t, Marked + 2, Taking, hex)
  BY <1>1, AuthorityIsRead
<1>4. CASE LeavesAuthority
  BY <1>1, <1>2, <1>4, LeavesAuthorityRead
<1>5. CASE c = ":" /\ Plain("port")
  <2>1. c # SP /\ "port" \in InAuthority
    BY <1>5, NotSpace DEF InAuthority, OfPath
  <2>2. t[Taking + 1] = ":"
    BY <1>1, <1>5, <2>1, AuthorityNext
  <2>3. PICK a \in Marked + 2..Taking : UserAt(t, Marked + 2, a) /\ HostTo(t, a, Taking)
    BY <1>3 DEF AuthorityRead
  <2>4. PortTo(t, Taking, Taking + 1)
    BY <1>3, <2>2, PortBegins
  <2>5. Taking \in a..Taking + 1 /\ a \in Marked + 2..Taking + 1
    BY <1>3
  <2>6. AuthorityRead("port", t, Marked + 2, Taking + 1, hex')
    BY <2>3, <2>4, <2>5 DEF AuthorityRead
  <2> QED
    BY <1>1, <1>5, <2>1, <2>6, AuthorityOn
<1> QED
  BY <1>4, <1>5 DEF LiteralEnds

-----------------------------------------------------------------------------
(* The target has been read so far: query, fragment and escapes. *)

LEMMA QueryStartRead ==
    ASSUME LInv, Reading, TargetRead, QueryStart
    PROVE  TargetRead'
<1>1. cs = "query?" /\ cs \in OfTarget
  BY DEF QueryStart, OfTarget
<1>2. PathCut(t, Marked, Taking) /\ Taking \in 0..Len(t)
  BY <1>1 DEF LInv, Cut, OfTarget
<1>3. SchemeTo(t, Marked) /\ Uri!LegalPath(SubSeq(t, Marked + 1, Taking - 1))
  BY <1>1 DEF TargetRead
<1>4. NoHash(t, Taking) /\ Taking \in 1..Len(t) /\ Taking \in Nat
  <2>1. Taking \in 1..Len(t) /\ t[Taking] = "?" /\ \A i \in 1..Taking - 1 : t[i] # "#"
    BY <1>2 DEF PathCut, InPath
  <2>2. ASSUME NEW i \in 1..Taking PROVE t[i] # "#"
    <3>1. i = Taking \/ i \in 1..Taking - 1
      BY <2>1
    <3> QED
      BY <2>1, <3>1
  <2> QED
    BY <2>1, <2>2 DEF NoHash
<1>5. CASE QueryEnds(p)
  <2>1. p = Start + Taking /\ Taking \in 1..Taking
    BY <1>4, Numbers
  <2>2. Fine(t, Taking, Taking, QueryBytes, 0)
    BY <1>4, FineNone
  <2> QED
    BY <1>1, <1>2, <1>3, <1>4, <1>5, <2>1, <2>2, QueryEndsRead
<1>6. CASE ~QueryEnds(p)
  <2>1. /\ \/ c \in QueryBytes /\ hex' = 0
           \/ c = "%" /\ hex' = 2
        /\ cs' = "query" /\ p' = p + 1 /\ query_start' = p
        /\ mark' = mark /\ sent' = sent
    BY <1>6 DEF QueryStart, Taken, KeepsParts, parts, Reading
  <2>2. c # SP /\ (c \in QueryBytes => c # "%")
    BY <2>1, NotSpace
  <2>3. Taking' = Taking + 1 /\ t[Taking + 1] = c /\ Marked' = Marked /\ Asked' = Taking
    BY <1>1, <2>1, <2>2, OneMore
  <2>4. Fine(t, Taking, Taking + 1, QueryBytes, hex')
    <3>1. Fine(t, Taking, Taking, QueryBytes, 0)
      BY <1>4, FineNone
    <3> QED
      BY <1>4, <2>1, <2>2, <2>3, <3>1, FineOn
  <2> QED
    BY <1>3, <2>1, <2>3, <2>4, ReadQuery
<1> QED
  BY <1>5, <1>6

LEMMA QueryIsRead ==
    ASSUME LInv, Reading, TargetRead, Query
    PROVE  TargetRead'
<1>1. cs = "query" /\ cs \in OfTarget /\ hex = 0
  BY DEF Query, OfTarget
<1>2. /\ Taking \in 0..Len(t) /\ PathCut(t, Marked, Asked) /\ Asked <= Taking /\ NoHash(t, Taking)
  BY <1>1 DEF LInv, Cut, OfTarget
<1>3. /\ SchemeTo(t, Marked) /\ Uri!LegalPath(SubSeq(t, Marked + 1, Asked - 1))
      /\ Fine(t, Asked, Taking, QueryBytes, 0)
  BY <1>1 DEF TargetRead
<1>4. Asked \in 1..Taking /\ query_start = Start + Asked /\ Asked \in Nat /\ Taking \in Nat
  BY <1>2, Numbers DEF PathCut
<1>5. CASE QueryEnds(query_start)
  BY <1>1, <1>2, <1>3, <1>4, <1>5, QueryEndsRead
<1>6. CASE (c \in QueryBytes /\ Plain("query")) \/ Percent("query")
  <2>1. c # SP /\ (c \in QueryBytes => c # "%")
    BY <1>6, NotSpace DEF Percent
  <2>2. /\ cs' = "query" /\ Taking' = Taking + 1 /\ t[Taking + 1] = c /\ Marked' = Marked
        /\ Asked' = Asked
        /\ Plain("query") => hex' = 0
        /\ Percent("query") => c = "%" /\ hex' = 2
    BY <1>1, <1>6, <2>1, Onward
  <2>3. Fine(t, Asked, Taking + 1, QueryBytes, hex')
    BY <1>2, <1>3, <1>4, <1>6, <2>1, <2>2, FineOn
  <2>4. sent' = sent
    BY DEF Reading
  <2> QED
    BY <1>3, <2>2, <2>3, <2>4, ReadQuery
<1> QED
  BY <1>5, <1>6 DEF Query

LEMMA FragmentStartRead ==
    ASSUME LInv, Reading, TargetRead, FragmentStart
    PROVE  TargetRead'
<1>1. cs = "fragment?" /\ cs \in OfTarget
  BY DEF FragmentStart, OfTarget
<1>2. Taking \in 0..Len(t) /\ HashAt(t, Taking) /\ LegalFront(t)
  BY <1>1 DEF LInv, Cut, OfTarget, TargetRead
<1>3. t \in Seq(Byte) /\ Len(t) \in Nat /\ Taking \in Nat
  BY <1>2, Shape DEF LInv
<1>4. sent' = sent /\ mark' = p /\ p' = p + 1
  BY DEF FragmentStart, Reading, Taken
<1>5. CASE c = SP
  <2>1. cs' \in OfVersion
    BY <1>5, NotSpace DEF FragmentStart, Taken, OfVersion
  <2>2. Taking = Len(t)
    BY <1>1, <1>5, Here
  <2>3. Fine(t, Len(t), Len(t), QueryBytes, 0)
    BY <1>3, FineNone
  <2>4. Uri!LegalTarget(t)
    BY <1>2, <1>3, <2>2, <2>3, FragmentLegal
  <2> QED
    BY <1>4, <2>1, <2>4, ReadVersion
<1>6. CASE c # SP
  <2>1. /\ \/ c \in QueryBytes /\ hex' = 0
           \/ c = "%" /\ hex' = 2
        /\ cs' = "fragment"
    BY <1>6 DEF FragmentStart, Taken, KeepsParts
  <2>2. c \in QueryBytes => c # "%"
    BY NotSpace
  <2>3. Taking' = Taking + 1 /\ t[Taking + 1] = c /\ Marked' = Taking
    BY <1>1, <1>4, <1>6, OneMore
  <2>4. Fine(t, Taking, Taking + 1, QueryBytes, hex')
    <3>1. Fine(t, Taking, Taking, QueryBytes, 0)
      BY <1>3, FineNone
    <3> QED
      BY <1>3, <2>1, <2>2, <2>3, <3>1, FineOn
  <2> QED
    BY <1>2, <1>4, <2>1, <2>3, <2>4, ReadFragment
<1> QED
  BY <1>5, <1>6

LEMMA FragmentIsRead ==
    ASSUME LInv, Reading, TargetRead, Fragment
    PROVE  TargetRead'
<1>1. cs = "fragment" /\ cs \in OfTarget /\ hex = 0
  BY DEF Fragment, OfTarget
<1>2. /\ Taking \in 0..Len(t) /\ HashAt(t, Marked) /\ LegalFront(t)
      /\ Fine(t, Marked, Taking, QueryBytes, 0)
  BY <1>1 DEF LInv, Cut, OfTarget, TargetRead
<1>3. t \in Seq(Byte) /\ Len(t) \in Nat /\ Taking \in Nat
  BY <1>2, Shape DEF LInv
<1>4. sent' = sent
  BY DEF Reading
<1>5. CASE c = SP /\ Taken("version")
  <2>1. cs' \in OfVersion
    BY <1>5 DEF Taken, OfVersion
  <2>2. Taking = Len(t)
    BY <1>1, <1>5, Here
  <2>3. Uri!LegalTarget(t)
    BY <1>2, <1>3, <2>2, FragmentLegal
  <2> QED
    BY <1>4, <2>1, <2>3, ReadVersion
<1>6. CASE (c \in QueryBytes /\ Plain("fragment")) \/ Percent("fragment")
  <2>1. c # SP /\ (c \in QueryBytes => c # "%")
    BY <1>6, NotSpace DEF Percent
  <2>2. /\ cs' = "fragment" /\ Taking' = Taking + 1 /\ t[Taking + 1] = c /\ Marked' = Marked
        /\ Plain("fragment") => hex' = 0
        /\ Percent("fragment") => c = "%" /\ hex' = 2
    BY <1>1, <1>6, <2>1, Onward
  <2>3. Marked \in Nat /\ Marked <= Taking
    <3>1. mark <= p /\ Marked \in 1..Len(t) /\ p = Start + Taking /\ mark = Start + Marked
          /\ Start \in Nat /\ p \in Nat /\ mark \in Nat
      <4>1. mark \in 0..p
        BY Types DEF LInv
      <4> QED
        BY <1>2, <4>1, Numbers DEF HashAt
    <3> QED
      BY <1>3, <3>1
  <2>4. Fine(t, Marked, Taking + 1, QueryBytes, hex')
    BY <1>2, <1>3, <1>6, <2>1, <2>2, <2>3, FineOn
  <2> QED
    BY <1>2, <1>4, <2>2, <2>4, ReadFragment
<1> QED
  BY <1>5, <1>6 DEF Fragment

(* A digit of an escape: the state stays, and everything read up to it. *)
LEMMA HexDigitRead ==
    ASSUME LInv, Reading, TargetRead, HexDigit
    PROVE  TargetRead'
<1>1. /\ cs' = cs /\ p' = p + 1 /\ hex' = hex - 1 /\ hex \in 1..2 /\ c \in xdigit
      /\ mark' = mark /\ query_start' = query_start /\ sent' = sent
  <2>1. hex \in 0..2
    BY Types DEF LInv
  <2> QED
    BY <2>1 DEF HexDigit, Taken, KeepsParts, marks, parts, Reading
<1>2. cs \in OfEscape /\ cs # "error"
  BY <1>1 DEF LInv, Cut, Reading
<1>3. cs \in OfTarget
  BY <1>2 DEF OfEscape, OfTarget, OfPath
<1>4. c # SP
  BY <1>1, NotSpace
<1>5. /\ Taking' = Taking + 1 /\ t[Taking + 1] = c /\ Marked' = Marked /\ Asked' = Asked
      /\ Taking \in Nat /\ Taking \in 0..Len(t)
  BY <1>1, <1>3, <1>4, OneMore
<1> DEFINE n == Taking
           h == hex
<1>6. ASSUME NEW a \in Nat, a <= n, NEW B, xdigit \subseteq B, Fine(t, a, n, B, h)
      PROVE  Fine(t, a, n + 1, B, h - 1)
  <2>1. n \in Nat /\ h \in 1..2 /\ t[n + 1] \in xdigit
    BY <1>1, <1>5
  <2> HIDE DEF n, h
  <2> QED
    BY <1>6, <2>1, FineDigit
<1>7. CASE cs = "noscheme"
  <2>1. Taking >= 1 /\ Fine(t, 0, n, PathBytes, h)
    BY <1>7, FirstIsRead
  <2>2. Fine(t, 0, n + 1, PathBytes, h - 1)
    BY <1>5, <1>6, <2>1, Letters
  <2> QED
    BY <1>1, <1>5, <1>7, <2>1, <2>2, ReadFirst
<1>8. CASE cs = "path"
  <2>1. Marked \in Nat /\ Marked <= n /\ SchemeTo(t, Marked)
    BY <1>8, InPathIsRead DEF OfPath
  <2>2. PathTo(t, Marked, n, h)
    BY <1>8 DEF TargetRead
  <2>3. PathTo(t, Marked, n + 1, h - 1)
    BY <1>1, <1>5, <2>1, <2>2, PathDigit
  <2> QED
    BY <1>1, <1>5, <1>8, <2>1, <2>3, ReadPath
<1>9. CASE cs \in {"name", "user", "regname"}
  <2>1. cs \in InAuthority
    BY <1>9 DEF InAuthority, OfPath
  <2>2. /\ Marked \in Nat /\ Marked + 2 <= n /\ Marked + 2 \in Nat
        /\ SchemeTo(t, Marked) /\ Slashes(t, Marked, n)
        /\ AuthorityRead(cs, t, Marked + 2, n, h)
    BY <2>1, AuthorityIsRead
  <2>3. xdigit \subseteq NameBytes /\ xdigit \subseteq UserBytes
    BY Letters
  <2>4. AuthorityRead(cs, t, Marked + 2, n + 1, h - 1)
    <3> DEFINE d == Marked + 2
    <3>1. CASE cs = "name"
      <4>1. Fine(t, d, n, NameBytes, h)
        BY <2>2, <3>1 DEF AuthorityRead
      <4>2. Fine(t, d, n + 1, NameBytes, h - 1)
        BY <1>6, <2>2, <2>3, <4>1
      <4> QED
        BY <3>1, <4>2 DEF AuthorityRead
    <3>2. CASE cs = "user"
      <4>1. Fine(t, d, n, UserBytes, h)
        BY <2>2, <3>2 DEF AuthorityRead
      <4>2. Fine(t, d, n + 1, UserBytes, h - 1)
        BY <1>6, <2>2, <2>3, <4>1
      <4> QED
        BY <3>2, <4>2 DEF AuthorityRead
    <3>3. CASE cs = "regname"
      <4>1. PICK a \in d..n : UserAt(t, d, a) /\ Fine(t, a, n, NameBytes, h)
        BY <2>2, <3>3 DEF AuthorityRead
      <4>2. a \in Nat /\ a <= n /\ a \in d..n + 1
        BY <1>5, <2>2
      <4>3. Fine(t, a, n + 1, NameBytes, h - 1)
        BY <1>6, <2>3, <4>1, <4>2
      <4> QED
        BY <3>3, <4>1, <4>2, <4>3 DEF AuthorityRead
    <3> QED
      BY <1>9, <3>1, <3>2, <3>3
  <2>5. Slashes(t, Marked, n + 1)
    BY <1>5, <2>2 DEF Slashes
  <2> QED
    BY <1>1, <1>5, <2>1, <2>2, <2>4, <2>5, ReadAuthority
<1>10. CASE cs = "query"
  <2>1. PathCut(t, Marked, Asked) /\ Asked <= n
    BY <1>10 DEF LInv, Cut
  <2>2. /\ SchemeTo(t, Marked) /\ Uri!LegalPath(SubSeq(t, Marked + 1, Asked - 1))
        /\ Fine(t, Asked, n, QueryBytes, h)
    BY <1>10 DEF TargetRead
  <2>3. Asked \in Nat
    BY <2>1 DEF PathCut
  <2>4. Fine(t, Asked, n + 1, QueryBytes, h - 1)
    BY <1>6, <2>1, <2>2, <2>3, Letters
  <2> QED
    BY <1>1, <1>5, <1>10, <2>2, <2>4, ReadQuery
<1>11. CASE cs = "fragment"
  <2>1. HashAt(t, Marked) /\ mark <= p /\ LegalFront(t) /\ Fine(t, Marked, n, QueryBytes, h)
    <3>1. HashAt(t, Marked) /\ LegalFront(t) /\ Fine(t, Marked, n, QueryBytes, h)
      BY <1>11 DEF LInv, Cut, TargetRead
    <3>2. mark \in 0..p
      BY Types DEF LInv
    <3> QED
      BY <3>1, <3>2, Numbers
  <2>2. Marked \in Nat /\ Marked <= n
    <3>1. Marked \in 1..Len(t) /\ p = Start + n /\ mark = Start + Marked
          /\ Start \in Nat /\ p \in Nat /\ mark \in Nat
      BY <2>1, Numbers DEF HashAt
    <3> QED
      BY <1>5, <2>1, <3>1
  <2>3. Fine(t, Marked, n + 1, QueryBytes, h - 1)
    BY <1>6, <2>1, <2>2, Letters
  <2> QED
    BY <1>1, <1>5, <1>11, <2>1, <2>3, ReadFragment
<1> QED
  BY <1>2, <1>7, <1>8, <1>9, <1>10, <1>11 DEF OfEscape

-----------------------------------------------------------------------------
(* The method and the version, and all steps together. *)

LEMMA RestOfLine ==
    ASSUME sent \in RequestLineType
    PROVE  /\ sent.version \in Seq(Byte) /\ Len(sent.version) \in Nat
           /\ \A i \in 1..Len(sent.version) : /\ Line[End + i] = sent.version[i]
                                              /\ sent.version[i] \notin {"CR", "LF"}
           /\ Line[End + (Len(sent.version) + 1)] \in {"CR", "LF"}
           /\ End \in Nat
<1> DEFINE a == sent.method
           b == sent.target
           e == sent.version
           z == sent.eol
           l1 == a \o <<SP>>
           l2 == l1 \o b
           l3 == l2 \o <<SP>>
           l4 == l3 \o e
<1>1. /\ a \in Seq(Byte) /\ b \in Seq(Byte) /\ e \in Seq(Byte) /\ z \in {"CR", "LF"}
      /\ e \in Seq(Byte \ {"CR", "LF"})
  BY DEF RequestLineType
<1>2. SP \in Byte /\ z \in Byte
  BY <1>1 DEF Byte
<1>3. /\ Line = l4 \o <<z>> /\ End = Len(a) + 1 + Len(b) + 1
  BY DEF Line, End, Start, t
<1>4. \A i \in 1..Len(e) : e[i] \notin {"CR", "LF"}
  BY <1>1
<1> HIDE DEF a, b, e, z
<1>5. l1 \in Seq(Byte) /\ Len(l1) = Len(a) + 1 /\ Len(a) \in Nat
  BY <1>1, <1>2, One
<1> HIDE DEF l1
<1>6. l2 \in Seq(Byte) /\ Len(l2) = Len(l1) + Len(b) /\ Len(b) \in Nat
  BY <1>1, <1>5, Cat
<1> HIDE DEF l2
<1>7. l3 \in Seq(Byte) /\ Len(l3) = Len(l2) + 1
  BY <1>2, <1>6, One
<1> HIDE DEF l3
<1>8. /\ l4 \in Seq(Byte) /\ Len(l4) = Len(l3) + Len(e) /\ Len(e) \in Nat
      /\ \A i \in 1..Len(e) : l4[Len(l3) + i] = e[i]
  <2>1. l3 \in Seq(Byte) /\ e \in Seq(Byte)
    BY <1>1, <1>7
  <2> QED
    BY <2>1, Cat
<1> HIDE DEF l4
<1>9. Len(l3) = End /\ End \in Nat
  BY <1>3, <1>5, <1>6, <1>7
<1>10. /\ \A i \in 1..Len(l4) : Line[i] = l4[i]
       /\ Line[Len(l4) + 1] = z
  BY <1>2, <1>3, <1>8, One
<1>11. ASSUME NEW i \in 1..Len(e) PROVE Line[End + i] = e[i]
  <2>1. End + i \in 1..Len(l4) /\ l4[End + i] = e[i]
    BY <1>8, <1>9
  <2> QED
    BY <1>10, <2>1
<1>12. Line[End + (Len(e) + 1)] = z
  <2>1. Len(l4) + 1 = End + (Len(e) + 1)
    BY <1>8, <1>9
  <2> QED
    BY <1>10, <2>1
<1>13. /\ e \in Seq(Byte) /\ Len(e) \in Nat /\ End \in Nat
       /\ \A i \in 1..Len(e) : Line[End + i] = e[i] /\ e[i] \notin {"CR", "LF"}
       /\ Line[End + (Len(e) + 1)] \in {"CR", "LF"}
  BY <1>1, <1>4, <1>8, <1>9, <1>11, <1>12
<1> QED
  BY <1>13 DEF e

LEMMA MethodFirst ==
    ASSUME sent \in RequestLineType
    PROVE  \A i \in 1..Len(sent.method) : Line[i] = sent.method[i]
<1> DEFINE a == sent.method
           b == sent.target
           e == sent.version
           z == sent.eol
<1>1. a \in Seq(Byte) /\ b \in Seq(Byte) /\ e \in Seq(Byte) /\ SP \in Byte /\ z \in Byte
  BY DEF RequestLineType, Byte
<1>2. Line = Joining(a, SP, b, SP, e, z)
  BY DEF Line, Joining
<1> HIDE DEF a, b, e, z
<1>3. \A i \in 1..Len(a) : Joining(a, SP, b, SP, e, z)[i] = a[i]
  BY <1>1, Joined, SMTT(60)
<1> QED
  BY <1>2, <1>3 DEF a

LEMMA MethodIsRead ==
    ASSUME LInv, Reading, MethodEnds, cs' # "error"
    PROVE  cs' = "target" /\ method' \in Known /\ Spelling[method'] = sent.method
<1>1. /\ cs = "method" /\ c = SP /\ p > 0
      /\ cs' = "target" /\ \E m \in Known : Spelling[m] = From(mark) /\ method' = m
  BY DEF MethodEnds, Taken
<1>2. p <= Len(sent.method) /\ mark = 0
  BY <1>1 DEF LInv, Cut
<1>3. /\ Line \in Seq(Byte) /\ Len(sent.method) \in Nat /\ Len(sent.method) < Len(Line)
      /\ Len(Line) \in Nat
      /\ \A i \in 1..Len(sent.method) : Line[i] # SP
  BY Shape DEF LInv
<1>4. p \in Nat
  BY Numbers
<1>5. p = Len(sent.method)
  <2>1. ~(p + 1 \in 1..Len(sent.method))
    BY <1>1, <1>3 DEF c
  <2> QED
    BY <1>2, <1>3, <1>4, <2>1
<1>6. sent.method \in Seq(Byte)
  BY DEF LInv, RequestLineType
<1>7. \A i \in 1..Len(sent.method) : Line[i] = sent.method[i]
  BY MethodFirst DEF LInv
<1>8. From(0) = sent.method
  <2> DEFINE n == Len(sent.method)
             x == SubSeq(Line, 1, n)
  <2>1. /\ x \in Seq(Byte) /\ Len(x) = n - 1 + 1
        /\ \A i \in 1..n - 1 + 1 : x[i] = Line[1 + i - 1]
    <3>1. 1 \in 1..Len(Line) + 1 /\ n \in 1 - 1..Len(Line)
      BY <1>3
    <3> QED
      BY <1>3, <3>1, Sub
  <2> HIDE DEF x
  <2>2. \A i \in 1..n : x[i] = sent.method[i]
    <3> TAKE i \in 1..n
    <3>1. i \in 1..n - 1 + 1 /\ 1 + i - 1 = i
      BY <1>3
    <3> QED
      BY <1>7, <2>1, <3>1
  <2>3. Len(x) = n
    BY <1>3, <2>1
  <2>4. x = sent.method
    BY <1>3, <1>6, <2>1, <2>2, <2>3
  <2> QED
    BY <1>5, <2>4 DEF From, x
<1> QED
  BY <1>1, <1>2, <1>8

(* The version is reached where it begins, and from nowhere else. *)
LEMMA LeavesTarget ==
    ASSUME LInv, Reading, Moves, cs \in OfTarget
    PROVE  cs' \in OfTarget \/ (cs' = "version" /\ c = SP /\ p' = p + 1)
<1>1. CASE TargetStart \/ Scheme \/ Hier \/ FirstSegment
  BY <1>1 DEF TargetStart, Scheme, Hier, FirstSegment, PathEnds, Plain, Percent, Taken, OfTarget,
     OfPath
<1>2. CASE Slash \/ Path \/ Authority \/ PortOrUser \/ User \/ Host \/ Port \/ LiteralEnds
  BY <1>2 DEF Slash, Path, Authority, PortOrUser, User, Host, Port, LiteralEnds, LeavesAuthority,
     Literal, PathEnds, Plain, Percent, Taken, OfTarget, OfPath
<1>3. CASE QueryStart \/ Query
  BY <1>3 DEF QueryStart, Query, QueryEnds, Plain, Percent, Taken, OfTarget
<1>4. CASE FragmentStart \/ Fragment
  BY <1>4 DEF FragmentStart, Fragment, Plain, Percent, Taken, OfTarget
<1>5. CASE HexDigit
  BY <1>5 DEF HexDigit, Taken
<1>6. ~MethodByte /\ ~MethodEnds /\ ~Version
  BY DEF MethodByte, MethodEnds, Version, OfTarget, OfPath
<1> QED
  BY <1>1, <1>2, <1>3, <1>4, <1>5, <1>6 DEF Moves

LEMMA SameMethod ==
    ASSUME Reading, Moves, cs # "method"
    PROVE  method' = method
<1>1. CASE TargetStart \/ Scheme \/ Hier \/ FirstSegment
  BY <1>1 DEF TargetStart, Scheme, Hier, FirstSegment, PathEnds, Plain, Percent, KeepsParts, parts
<1>2. CASE Slash \/ Path \/ Authority \/ PortOrUser \/ User \/ Host \/ Port \/ LiteralEnds
  BY <1>2 DEF Slash, Path, Authority, PortOrUser, User, Host, Port, LiteralEnds, LeavesAuthority,
     Literal, PathEnds, Plain, Percent, KeepsParts, parts
<1>3. CASE QueryStart \/ Query
  BY <1>3 DEF QueryStart, Query, QueryEnds, Plain, Percent, KeepsParts, parts
<1>4. CASE FragmentStart \/ Fragment
  BY <1>4 DEF FragmentStart, Fragment, Plain, Percent, KeepsParts, parts
<1>5. CASE Version \/ HexDigit
  BY <1>5 DEF Version, HexDigit, Plain, KeepsParts, parts
<1>6. ~MethodByte /\ ~MethodEnds
  BY DEF MethodByte, MethodEnds
<1> QED
  BY <1>1, <1>2, <1>3, <1>4, <1>5, <1>6 DEF Moves

LEMMA MethodKept ==
    ASSUME LInv, Reading, MethodRead, Moves
    PROVE  MethodRead'
<1>1. CASE cs # "method"
  <2>1. method' = method /\ sent' = sent /\ cs # "error"
    BY <1>1, SameMethod DEF Reading
  <2> QED
    BY <1>1, <2>1 DEF MethodRead
<1>2. CASE cs = "method"
  <2>1. MethodByte \/ MethodEnds \/ HexDigit
    BY <1>2 DEF Moves, TargetStart, Scheme, Hier, FirstSegment, Slash, Path, Authority, PortOrUser,
       User, Host, Port, LiteralEnds, QueryStart, Query, FragmentStart, Fragment, Version
  <2>2. ~HexDigit
    <3>1. ~(hex > 0)
      BY <1>2 DEF LInv, Cut, OfEscape
    <3> QED
      BY <3>1 DEF HexDigit
  <2>3. CASE MethodByte
    BY <2>3 DEF MethodByte, Taken, MethodRead
  <2>4. CASE MethodEnds
    <3>1. sent' = sent
      BY DEF Reading
    <3> QED
      BY <2>4, <3>1, MethodIsRead DEF MethodRead
  <2> QED
    BY <2>1, <2>2, <2>3, <2>4
<1> QED
  BY <1>1, <1>2

LEMMA TargetKept ==
    ASSUME LInv, Reading, TargetRead, Moves
    PROVE  TargetRead'
<1>1. CASE MethodByte \/ MethodEnds
  BY <1>1, ReadOther DEF MethodByte, MethodEnds, Taken
<1>2. CASE Version
  <2>1. cs \in OfVersion /\ cs' \in OfVersion /\ sent' = sent
    BY <1>2 DEF Version, OfVersion, Reading, Taken, Plain
  <2>2. Uri!LegalTarget(t)
    BY <2>1 DEF TargetRead
  <2> QED
    BY <2>1, <2>2, ReadVersion
<1> QED
  BY <1>1, <1>2, TargetStartRead, SchemeRead, FirstSegmentRead, HierRead, SlashRead, PathIsRead,
     AuthorityStepRead, PortOrUserRead, UserRead, HostRead, PortRead, LiteralEndsRead,
     QueryStartRead, QueryIsRead, FragmentStartRead, FragmentIsRead, HexDigitRead DEF Moves

NameByte == {"H", "T", "P", "/", "1", ".", "0"}

LEMMA NameIs ==
    /\ Name \in Seq(NameByte) /\ Len(Name) = 7
    /\ \A b \in NameByte : b \notin {"CR", "LF"}
    /\ \A i \in 1..7 : Name[i] \in NameByte
    /\ {"0", "1"} \subseteq NameByte
    /\ Name[1] = "H"
<1>1. Name \in Seq(NameByte) /\ Len(Name) = 7
  BY DEF Name, NameByte
<1>2. \A b \in NameByte : b \notin {"CR", "LF"}
  BY Zenon DEF NameByte
<1>3. {"0", "1"} \subseteq NameByte
  BY DEF NameByte
<1>4. Name[1] = "H"
  BY DEF Name
<1>5. ASSUME NEW i \in 1..7 PROVE Name[i] \in NameByte
  <2>1. i \in 1..Len(Name) /\ Name \in Seq(NameByte)
    BY <1>1
  <2> QED
    BY <2>1
<1> QED
  BY <1>1, <1>2, <1>3, <1>4, <1>5

(* Where the line ends, eight bytes are the version, no more and no fewer. *)
LEMMA VersionEnds ==
    ASSUME LInv, VersionRead, cs = "http", p - mark = 8, c \in {"CR", "LF"}
    PROVE  sent.version \in Versions
<1> DEFINE v == sent.version
           n == Len(v)
<1>1. /\ \A i \in 1..7 : Line[End + i] = Name[i]
      /\ Line[End + 8] \in {"0", "1"}
      /\ Line[End + 9] \in {"CR", "LF"}
  <2>1. mark = End /\ End \in Nat /\ p \in Nat
    BY Numbers, RestOfLine DEF VersionRead, LInv
  <2>2. p - End = 8 /\ p + 1 = End + 9
    BY <2>1
  <2>3. c = Line[End + 9]
    BY <2>2 DEF c
  <2>4. \A i \in 1..7 : i \in 1..p - End /\ i <= 7
    BY <2>2
  <2> QED
    BY <2>2, <2>3, <2>4 DEF VersionRead
<1>2. /\ v \in Seq(Byte) /\ n \in Nat
      /\ \A i \in 1..n : Line[End + i] = v[i] /\ v[i] \notin {"CR", "LF"}
      /\ Line[End + (n + 1)] \in {"CR", "LF"}
  BY RestOfLine DEF LInv
<1> HIDE DEF v, n
<1>3. n >= 8
  <2> SUFFICES ASSUME n < 8 PROVE FALSE
    BY <1>2
  <2>1. n + 1 \in 1..7 \/ n + 1 = 8
    BY <1>2
  <2>2. Line[End + (n + 1)] \in NameByte
    <3>1. CASE n + 1 \in 1..7
      BY <1>1, <3>1, NameIs
    <3>2. CASE n + 1 = 8
      BY <1>1, <3>2, NameIs
    <3> QED
      BY <2>1, <3>1, <3>2
  <2> QED
    BY <1>2, <2>2, NameIs
<1>4. n <= 8
  <2> SUFFICES ASSUME n > 8 PROVE FALSE
    BY <1>2
  <2>1. 9 \in 1..n
    BY <1>2
  <2> QED
    BY <1>1, <1>2, <2>1
<1>5. n = 8 /\ v[8] \in {"0", "1"} /\ \A i \in 1..7 : v[i] = Name[i]
  <2>1. n = 8 /\ 8 \in 1..n /\ \A i \in 1..7 : i \in 1..n
    BY <1>2, <1>3, <1>4
  <2>2. Line[End + 8] = v[8] /\ \A i \in 1..7 : Line[End + i] = v[i]
    BY <1>2, <2>1
  <2> QED
    BY <1>1, <2>1, <2>2
<1>6. ASSUME NEW x \in {"0", "1"}, v[8] = x PROVE v = Name \o <<x>>
  <2> DEFINE w == Name \o <<x>>
  <2>1. /\ w \in Seq(NameByte) /\ Len(w) = 8 /\ w[8] = x
        /\ \A i \in 1..7 : w[i] = Name[i]
    <3>1. x \in NameByte /\ Name \in Seq(NameByte)
      BY <1>6, NameIs
    <3>2. /\ w \in Seq(NameByte) /\ Len(w) = Len(Name) + 1 /\ w[Len(Name) + 1] = x
          /\ \A i \in 1..Len(Name) : w[i] = Name[i]
      BY <3>1, One
    <3> HIDE DEF w
    <3> QED
      BY <3>2, NameIs
  <2> HIDE DEF w
  <2>2. ASSUME NEW i \in 1..8 PROVE v[i] = w[i]
    <3>1. i \in 1..7 \/ i = 8
      OBVIOUS
    <3> QED
      BY <1>5, <1>6, <2>1, <3>1
  <2>3. Len(v) = Len(w)
    BY <1>5, <2>1 DEF n
  <2>4. v = w
    BY <1>2, <1>5, <2>1, <2>2, <2>3 DEF n
  <2> QED
    BY <2>4 DEF w
<1>7. v = Name \o <<"0">> \/ v = Name \o <<"1">>
  BY <1>5, <1>6
<1> QED
  BY <1>7 DEF Versions, v

LEMMA VersionKept ==
    ASSUME LInv, Reading, VersionRead, Moves
    PROVE  VersionRead'
<1>1. sent' = sent /\ End' = End /\ Line' = Line
  BY DEF Reading, End, Start, t, Line
<1>2. CASE cs = "method"
  <2>1. cs' \in {"method", "target", "error"}
    <3>1. MethodByte \/ MethodEnds \/ HexDigit
      BY <1>2 DEF Moves, TargetStart, Scheme, Hier, FirstSegment, Slash, Path, Authority,
         PortOrUser, User, Host, Port, LiteralEnds, QueryStart, Query, FragmentStart, Fragment,
         Version
    <3> QED
      BY <1>2, <3>1 DEF MethodByte, MethodEnds, HexDigit, Taken
  <2> QED
    BY <2>1 DEF VersionRead, Accepted
<1>3. CASE cs \in OfTarget
  <2>1. CASE cs' \in OfTarget
    BY <2>1 DEF VersionRead, Accepted, OfTarget, OfPath
  <2>2. CASE cs' = "version" /\ c = SP /\ p' = p + 1
    <3>1. Taking = Len(t) /\ p = Start + Taking /\ Start \in Nat /\ Len(t) \in Nat
      BY <1>3, <2>2, Here, Numbers
    <3>2. p' = End
      BY <2>2, <3>1 DEF End
    <3> QED
      BY <1>1, <2>2, <3>2 DEF VersionRead, Accepted
  <2> QED
    BY <1>3, <2>1, <2>2, LeavesTarget
<1>4. CASE cs \in OfVersion
  <2>1. Version
    <3>1. ~HexDigit
      <4>1. ~(hex > 0)
        BY <1>4 DEF LInv, Cut, OfEscape, OfVersion
      <4> QED
        BY <4>1 DEF HexDigit
    <3> QED
      BY <1>4, <3>1 DEF Moves, OfVersion, MethodByte, MethodEnds, TargetStart, Scheme, Hier,
         FirstSegment, Slash, Path, Authority, PortOrUser, User, Host, Port, LiteralEnds,
         QueryStart, Query, FragmentStart, Fragment
  <2>2. End \in Nat /\ p \in Nat
    BY RestOfLine, Numbers DEF LInv
  <2>3. CASE cs = "version" /\ c = "H" /\ Taken("http") /\ mark' = p
    <3>1. /\ p = End /\ p' = p + 1 /\ cs' = "http" /\ mark' = End /\ Line[End + 1] = Name[1]
          /\ p' - End = 1
      BY <2>2, <2>3, NameIs DEF VersionRead, Taken, c
    <3>2. \A i \in 1..p' - End : i = 1
      BY <3>1
    <3> QED
      BY <1>1, <3>1, <3>2 DEF VersionRead, Accepted
  <2>4. CASE cs = "http" /\ Plain("http")
    <3> DEFINE k == p - mark
    <3>1. mark = End /\ k = p - End /\ k \in 1..8
      BY <2>4 DEF VersionRead
    <3>2. /\ \A i \in 1..k : i <= 7 => Line[End + i] = Name[i]
      BY <2>4, <3>1 DEF VersionRead
    <3>3. /\ cs' = "http" /\ p' = p + 1 /\ mark' = End
      BY <2>4, <3>1 DEF Plain, Taken, marks
    <3>4. \/ k < 7 /\ c = Name[k + 1]
          \/ k = 7 /\ c \in {"0", "1"}
      BY <2>1, <2>4, <3>3 DEF Version, Taken
    <3>5. c = Line[End + (k + 1)] /\ p' - End = k + 1 /\ k + 1 \in 1..8
      <4>1. p + 1 = End + (k + 1) /\ p' - End = k + 1 /\ k + 1 \in 1..8
        BY <2>2, <3>1, <3>3, <3>4
      <4> QED
        BY <4>1 DEF c
    <3> HIDE DEF k
    <3>6. ASSUME NEW i \in 1..k + 1, i <= 7 PROVE Line[End + i] = Name[i]
      <4>1. i \in 1..k \/ (i = k + 1 /\ k < 7)
        BY <3>1, <3>6
      <4> QED
        BY <3>2, <3>4, <3>5, <3>6, <4>1
    <3>7. k + 1 = 8 => Line[End + 8] \in {"0", "1"}
      BY <3>1, <3>4, <3>5
    <3> QED
      BY <1>1, <3>3, <3>5, <3>6, <3>7 DEF VersionRead, Accepted
  <2>5. CASE cs = "http" /\ p - mark = 8 /\ c \in {"CR", "LF"} /\ cs' \in {"cr", "line"}
    <3>1. sent'.version \in Versions'
      BY <1>1, <2>5, VersionEnds DEF Versions
    <3> QED
      BY <2>5, <3>1 DEF VersionRead, Accepted
  <2> QED
    BY <2>1, <2>3, <2>4, <2>5 DEF Version, Taken
<1> QED
  <2>1. cs \in States /\ cs # "error"
    BY Types DEF LInv, Reading
  <2> QED
    BY <1>2, <1>3, <1>4, <2>1 DEF States, OfTarget, OfPath, OfVersion

-----------------------------------------------------------------------------
(* What is accepted is legal. *)

LEMMA ReadStarts == LineInit => GInv
<1> SUFFICES ASSUME LineInit PROVE GInv
  OBVIOUS
<1>1. LInv /\ cs = "method"
  BY LineStarts DEF LineInit
<1> QED
  BY <1>1 DEF GInv, MethodRead, TargetRead, VersionRead, Accepted, OfPath, InAuthority, OfVersion

LEMMA ReadMoves == GInv /\ Reading /\ Moves => GInv'
BY LineMoves, MethodKept, TargetKept, VersionKept DEF GInv

LEMMA ReadRejects == GInv /\ Reject => GInv'
<1> SUFFICES ASSUME GInv, Reject PROVE GInv'
  OBVIOUS
<1>1. LInv' /\ cs' = "error"
  BY LineRejects DEF GInv, Reject, Taken
<1>2. TargetRead'
  BY <1>1, ReadOther
<1> QED
  BY <1>1, <1>2 DEF GInv, MethodRead, VersionRead, Accepted

LEMMA ReadStutters == GInv /\ UNCHANGED lvars => GInv'
<1> SUFFICES ASSUME GInv, UNCHANGED lvars PROVE GInv'
  OBVIOUS
<1>1. /\ sent' = sent /\ p' = p /\ cs' = cs /\ hex' = hex /\ mark' = mark
      /\ query_start' = query_start /\ method' = method
  BY DEF lvars, marks, parts
<1>2. /\ t' = t /\ Taking' = Taking /\ Marked' = Marked /\ Asked' = Asked /\ End' = End
      /\ Line' = Line
  BY <1>1 DEF t, Taking, Marked, Asked, End, Start, Line
<1>3. LInv'
  BY LineStutters DEF GInv
<1>4. MethodRead' /\ VersionRead'
  BY <1>1, <1>2 DEF GInv, MethodRead, VersionRead, Accepted, Versions
<1>5. TargetRead'
  BY <1>1, <1>2 DEF GInv, TargetRead, InAuthority, OfPath, OfVersion
<1> QED
  BY <1>3, <1>4, <1>5 DEF GInv

(* Whatever a client sends as its request line: when execute accepts it, its
   method is one it knows, its target is made up of the components of RFC 3986,
   each of the bytes that it may hold and with its escapes whole, and its
   version is 1.0 or 1.1. *)
THEOREM AcceptedLegalAlways == LSpec => []AcceptedIsLegal
<1>1. GInv /\ [execute]_lvars => GInv'
  BY ReadMoves, ReadRejects, ReadStutters DEF execute
<1>2. GInv => AcceptedIsLegal
  <2> SUFFICES ASSUME GInv, Accepted PROVE Legal
    BY DEF AcceptedIsLegal
  <2>1. cs \in OfVersion /\ cs \notin {"method", "error"}
    BY DEF Accepted, OfVersion
  <2> QED
    BY <2>1 DEF GInv, MethodRead, TargetRead, VersionRead, Versions, Legal, t
<1> QED
  BY ReadStarts, <1>1, <1>2, PTL DEF LSpec

-----------------------------------------------------------------------------
(* Recursions over sequences.  Induction is the absence of a least
   counterexample, and a recursive function exists because each value needs
   only those that are there already. *)

LEMMA Induction ==
    ASSUME NEW n \in Nat, NEW S, 0 \in S, \A i \in 0..n - 1 : i \in S => i + 1 \in S
    PROVE  n \in S
<1> DEFINE T == {i \in 0..n : i \notin S}
<1> SUFFICES ASSUME T # {} PROVE FALSE
  OBVIOUS
<1>1. T \in SUBSET Nat
  OBVIOUS
<1> HIDE DEF T
<1>2. PICK x \in T : \A y \in T : x <= y
  BY <1>1, Least
<1>3. x \in 0..n /\ x \notin S
  BY <1>2 DEF T
<1>4. x - 1 \in 0..n - 1 /\ x - 1 < x
  BY <1>3
<1>5. x - 1 \in S
  BY <1>2, <1>4 DEF T
<1> QED
  BY <1>3, <1>4, <1>5

(* A function that is head followed by its own value further on. *)
RunsOn(f, n, m, head, next) ==
    f = [i \in 1..m |-> IF i > n THEN <<>> ELSE head[i] \o f[next[i]]]

Further(n, m, next) == \A i \in 1..n : next[i] \in i + 1..m

LEMMA Forward ==
    ASSUME NEW n \in Nat, NEW m \in Nat, n <= m, NEW head, NEW next,
           Further(n, m, next)
    PROVE  \E f : RunsOn(f, n, m, head, next)
<1> DEFINE Def(g, k) == [i \in n - k + 1..m |-> IF i > n THEN <<>> ELSE head[i] \o g[next[i]]]
           Has == {k \in Nat : \E g : g = Def(g, k)}
<1>1. 0 \in Has
  <2> DEFINE g == [i \in n + 1..m |-> <<>>]
  <2>1. \A i \in n - 0 + 1..m : i > n
    OBVIOUS
  <2>2. n - 0 + 1 = n + 1
    OBVIOUS
  <2>3. \A i \in n + 1..m : g[i] = IF i > n THEN <<>> ELSE head[i] \o g[next[i]]
    BY <2>1, <2>2
  <2>4. g = [i \in n + 1..m |-> g[i]]
    OBVIOUS
  <2> HIDE DEF g
  <2>5. g = Def(g, 0)
    BY <2>2, <2>3, <2>4
  <2> QED
    BY <2>5
<1>2. ASSUME NEW k \in 0..n - 1, k \in Has PROVE k + 1 \in Has
  <2>1. PICK g : g = Def(g, k)
    BY <1>2
  <2> DEFINE a == n - k
             h == [i \in a..m |-> IF i > a THEN g[i] ELSE head[a] \o g[next[a]]]
  <2>2. a \in 1..n /\ n - k + 1 = a + 1 /\ n - (k + 1) + 1 = a
    OBVIOUS
  <2> HIDE DEF a
  <2>3. ASSUME NEW i \in a..m
        PROVE  h[i] = IF i > n THEN <<>> ELSE head[i] \o h[next[i]]
    <3>1. CASE i = a
      <4>1. next[a] \in a + 1..m /\ next[a] \in a..m /\ next[a] > a /\ ~(a > a) /\ ~(a > n)
        BY <2>2 DEF Further
      <4> QED
        BY <3>1, <4>1
    <3>2. CASE i # a
      <4>1. i > a /\ i \in a + 1..m
        BY <2>2, <3>2
      <4>2. g[i] = IF i > n THEN <<>> ELSE head[i] \o g[next[i]]
        BY <2>1, <2>2, <4>1
      <4>3. ~(i > n) => next[i] \in a..m /\ next[i] > a
        <5> SUFFICES ASSUME ~(i > n) PROVE next[i] \in a..m /\ next[i] > a
          OBVIOUS
        <5>1. i \in 1..n
          BY <2>2, <4>1
        <5>2. next[i] \in i + 1..m
          BY <5>1 DEF Further
        <5> QED
          BY <2>2, <4>1, <5>2
      <4> QED
        BY <4>1, <4>2, <4>3
    <3> QED
      BY <3>1, <3>2
  <2>4. h = Def(h, k + 1)
    BY <2>2, <2>3
  <2>5. k + 1 \in Nat
    OBVIOUS
  <2> HIDE DEF h, Def
  <2> QED
    BY <2>4, <2>5
<1>3. n \in Has
  <2> HIDE DEF Has
  <2> QED
    BY <1>1, <1>2, Induction
<1>4. PICK f : f = Def(f, n)
  BY <1>3
<1>5. n - n + 1 = 1
  OBVIOUS
<1>6. f = [i \in 1..m |-> IF i > n THEN <<>> ELSE head[i] \o f[next[i]]]
  BY <1>4, <1>5
<1> QED
  BY <1>6 DEF RunsOn

-----------------------------------------------------------------------------
(* What query_escape writes, query_unescape reads. *)

IsEscape(s, i) == i + 2 <= Len(s) /\ s[i] = "%" /\ s[i + 1] \in xdigit /\ s[i + 2] \in xdigit

(* f[i] is what query_unescape makes of s from i on. *)
Unescapes(f, s) ==
    \A i \in 1..Len(s) + 1 :
        f[i] = IF i > Len(s) THEN <<>>
               ELSE IF IsEscape(s, i) THEN <<Decoded(s[i + 1], s[i + 2])>> \o f[i + 3]
               ELSE <<s[i]>> \o f[i + 1]

LEMMA UnescapeUnfolds ==
    ASSUME NEW s, Len(s) \in Nat
    PROVE  \E f : Unescapes(f, s) /\ query_unescape(s) = f[1]
<1> DEFINE n == Len(s)
           Def(g) == [i \in 1..n + 1 |->
                        IF i > n THEN <<>>
                        ELSE IF i + 2 <= n /\ s[i] = "%" /\ s[i + 1] \in xdigit /\ s[i + 2] \in xdigit
                             THEN <<Decoded(s[i + 1], s[i + 2])>> \o g[i + 3]
                        ELSE <<s[i]>> \o g[i + 1]]
           head == [i \in 1..n |-> IF IsEscape(s, i) THEN <<Decoded(s[i + 1], s[i + 2])>>
                                   ELSE <<s[i]>>]
           next == [i \in 1..n |-> IF IsEscape(s, i) THEN i + 3 ELSE i + 1]
           read == CHOOSE g : g = Def(g)
<1>1. PICK f : f = [i \in 1..n + 1 |-> IF i > n THEN <<>> ELSE head[i] \o f[next[i]]]
  <2>1. \A i \in 1..n : next[i] \in i + 1..n + 1
    BY DEF IsEscape
  <2> DEFINE m == n + 1
  <2>2. n \in Nat /\ m \in Nat /\ n <= m
    OBVIOUS
  <2>3. Further(n, m, next)
    BY <2>1 DEF Further
  <2> HIDE DEF n, m, head, next
  <2>4. \E f : RunsOn(f, n, m, head, next)
    BY <2>2, <2>3, Forward
  <2> QED
    BY <2>4 DEF RunsOn, m
<1>2. f = Def(f)
  <2>1. ASSUME NEW i \in 1..n + 1 PROVE f[i] = Def(f)[i]
    <3>1. f[i] = IF i > n THEN <<>> ELSE head[i] \o f[next[i]]
      BY <1>1
    <3>2. CASE i > n
      BY <3>1, <3>2
    <3>3. CASE ~(i > n)
      <4>1. i \in 1..n
        BY <3>3
      <4>2. CASE IsEscape(s, i)
        <5>1. head[i] = <<Decoded(s[i + 1], s[i + 2])>> /\ next[i] = i + 3
          BY <4>1, <4>2
        <5> QED
          BY <3>1, <3>3, <4>2, <5>1 DEF IsEscape
      <4>3. CASE ~IsEscape(s, i)
        <5>1. head[i] = <<s[i]>> /\ next[i] = i + 1
          BY <4>1, <4>3
        <5> QED
          BY <3>1, <3>3, <4>3, <5>1 DEF IsEscape
      <4> QED
        BY <4>2, <4>3
    <3> QED
      BY <3>2, <3>3
  <2> HIDE DEF head, next
  <2>2. f = [i \in 1..n + 1 |-> f[i]]
    BY <1>1
  <2>3. Def(f) = [i \in 1..n + 1 |-> Def(f)[i]]
    OBVIOUS
  <2> HIDE DEF Def
  <2> QED
    BY <2>1, <2>2, <2>3
<1>3. read = Def(read)
  <2> HIDE DEF Def
  <2> QED
    BY <1>2
<1>4. query_unescape(s) = read[1]
  BY DEF query_unescape
<1>5. Unescapes(read, s)
  <2>1. ASSUME NEW g, NEW i \in 1..n + 1
        PROVE  Def(g)[i] = IF i > n THEN <<>>
                           ELSE IF IsEscape(s, i) THEN <<Decoded(s[i + 1], s[i + 2])>> \o g[i + 3]
                           ELSE <<s[i]>> \o g[i + 1]
    BY DEF IsEscape
  <2> HIDE DEF Def, read
  <2>2. ASSUME NEW i \in 1..n + 1
        PROVE  read[i] = IF i > n THEN <<>>
                         ELSE IF IsEscape(s, i) THEN <<Decoded(s[i + 1], s[i + 2])>> \o read[i + 3]
                         ELSE <<s[i]>> \o read[i + 1]
    BY <1>3, <2>1
  <2> QED
    BY <2>2 DEF Unescapes
<1> QED
  BY <1>4, <1>5

-----------------------------------------------------------------------------
(* FlattenSeq: where the pieces stand in what it makes of them. *)

(* G[i] is what the first i of n sequences make. *)
Flattens(G, seqs, n) == /\ G[0] = <<>>
                        /\ \A i \in 1..n : G[i] = G[i - 1] \o seqs[i]

LEMMA FlattenUnfolds ==
    ASSUME NEW S, NEW n \in Nat, n >= 1, NEW seqs, Len(seqs) = n, \A i \in 1..n : seqs[i] \in Seq(S)
    PROVE  \E G : Flattens(G, seqs, n) /\ SX!FlattenSeq(seqs) = G[n]
<1> DEFINE Def(g, m) == [i \in 1..m |-> IF i = 1 THEN seqs[i] ELSE g[i - 1] \o seqs[i]]
           Has == {m \in Nat : m >= 1 => \E g : g = Def(g, m)}
<1>1. 0 \in Has
  OBVIOUS
<1>2. ASSUME NEW m \in 0..n - 1, m \in Has PROVE m + 1 \in Has
  <2>1. CASE m = 0
    <3>1. [i \in 1..1 |-> seqs[i]] = Def([i \in 1..1 |-> seqs[i]], 1)
      OBVIOUS
    <3> HIDE DEF Def
    <3> QED
      BY <2>1, <3>1
  <2>2. CASE m # 0
    <3>1. PICK g : g = Def(g, m)
      <4> HIDE DEF Def
      <4>1. m \in Nat /\ m >= 1
        BY <2>2
      <4> QED
        BY <1>2, <4>1
    <3> DEFINE h == [i \in 1..m + 1 |-> IF i <= m THEN g[i] ELSE g[m] \o seqs[i]]
    <3>2. ASSUME NEW i \in 1..m + 1
          PROVE  h[i] = IF i = 1 THEN seqs[i] ELSE h[i - 1] \o seqs[i]
      <4>1. CASE i = 1
        <5>1. i \in 1..m /\ i <= m
          BY <2>2, <4>1
        <5>2. g[i] = seqs[i]
          BY <3>1, <4>1, <5>1
        <5> QED
          BY <4>1, <5>1, <5>2
      <4>2. CASE i # 1 /\ i <= m
        <5>1. i \in 1..m /\ i - 1 \in 1..m + 1 /\ i - 1 <= m
          BY <4>2
        <5>2. g[i] = g[i - 1] \o seqs[i]
          BY <3>1, <4>2, <5>1
        <5> QED
          BY <4>2, <5>1, <5>2
      <4>3. CASE i # 1 /\ i = m + 1
        <5>1. i - 1 = m /\ m \in 1..m + 1 /\ m <= m /\ ~(i <= m)
          BY <2>2, <4>3
        <5> QED
          BY <4>3, <5>1
      <4> QED
        BY <4>1, <4>2, <4>3
    <3>3. h = Def(h, m + 1)
      BY <3>2
    <3> HIDE DEF h, Def
    <3> QED
      BY <3>3
  <2> QED
    BY <2>1, <2>2
<1>3. n \in Has
  <2> HIDE DEF Has
  <2> QED
    BY <1>1, <1>2, Induction
<1> DEFINE flatten == CHOOSE g : g = Def(g, n)
<1>4. flatten = Def(flatten, n)
  <2> HIDE DEF Def
  <2> QED
    BY <1>3
<1>5. SX!FlattenSeq(seqs) = flatten[n]
  BY DEF SX!FlattenSeq
<1>6. \A i \in 1..n : flatten[i] = IF i = 1 THEN seqs[i] ELSE flatten[i - 1] \o seqs[i]
  <2>1. \A g : \A i \in 1..n : Def(g, n)[i] = IF i = 1 THEN seqs[i] ELSE g[i - 1] \o seqs[i]
    OBVIOUS
  <2> HIDE DEF Def, flatten
  <2> QED
    BY <1>4, <2>1
<1> HIDE DEF flatten, Def
<1> DEFINE G == [i \in 0..n |-> IF i = 0 THEN <<>> ELSE flatten[i]]
<1>7. ASSUME NEW i \in 1..n PROVE G[i] = G[i - 1] \o seqs[i]
  <2>1. i \in 0..n /\ i # 0 /\ i - 1 \in 0..n /\ seqs[i] \in Seq(S)
    OBVIOUS
  <2>2. CASE i = 1
    <3>1. G[0] = <<>> /\ G[i] = seqs[i]
      BY <1>6, <2>1, <2>2
    <3>2. <<>> \o seqs[i] = seqs[i]
      BY <2>1
    <3> QED
      BY <2>2, <3>1, <3>2
  <2>3. CASE i # 1
    <3>1. i - 1 # 0
      BY <2>3
    <3>2. G[i] = flatten[i] /\ G[i - 1] = flatten[i - 1]
      BY <2>1, <3>1
    <3> QED
      BY <1>6, <2>3, <3>2
  <2> QED
    BY <2>2, <2>3
<1>8. G[0] = <<>> /\ G[n] = flatten[n]
  OBVIOUS
<1> HIDE DEF G
<1>9. Flattens(G, seqs, n)
  BY <1>7, <1>8 DEF Flattens
<1> QED
  BY <1>5, <1>8, <1>9

(* The pieces of q, one behind the other: the i-th ends at L[i]. *)
PieceAt(q, seqs, L, i) == /\ L[i - 1] \in 0..L[i] /\ L[i] = L[i - 1] + Len(seqs[i])
                          /\ L[i] <= Len(q)
                          /\ \A j \in 1..Len(seqs[i]) : q[L[i - 1] + j] = seqs[i][j]

MadeOf(q, seqs, n, L) == /\ L[0] = 0 /\ L[n] = Len(q)
                         /\ \A i \in 0..n : L[i] \in 0..Len(q)
                         /\ \A i \in 1..n : PieceAt(q, seqs, L, i)

LEMMA Flattened ==
    ASSUME NEW S, NEW n \in Nat, n >= 1, NEW seqs, Len(seqs) = n, \A i \in 1..n : seqs[i] \in Seq(S)
    PROVE  /\ SX!FlattenSeq(seqs) \in Seq(S)
           /\ \E L : MadeOf(SX!FlattenSeq(seqs), seqs, n, L)
<1>1. PICK G : Flattens(G, seqs, n) /\ SX!FlattenSeq(seqs) = G[n]
  BY FlattenUnfolds
<1> DEFINE L == [i \in 0..n |-> Len(G[i])]
           To(m) == /\ G[m] \in Seq(S)
                    /\ \A i \in 0..m : L[i] \in 0..Len(G[m])
                    /\ \A i \in 1..m : PieceAt(G[m], seqs, L, i)
           Good == {m \in 0..n : To(m)}
<1>2. 0 \in Good
  <2>1. G[0] = <<>> /\ <<>> \in Seq(S) /\ Len(<<>>) = 0
    BY <1>1 DEF Flattens
  <2>2. L[0] = 0
    BY <2>1
  <2>3. \A i \in 0..0 : L[i] \in 0..Len(G[0])
    BY <2>1, <2>2
  <2>4. \A i \in 1..0 : PieceAt(G[0], seqs, L, i)
    OBVIOUS
  <2>5. To(0) /\ 0 \in 0..n
    BY <2>1, <2>3, <2>4
  <2> HIDE DEF To
  <2> QED
    BY <2>5
<1>3. ASSUME NEW m \in 0..n - 1, m \in Good PROVE m + 1 \in Good
  <2> DEFINE k == m + 1
             a == G[m]
             b == seqs[k]
             z == G[k]
  <2>1. k \in 1..n /\ k \in 0..n /\ m \in 0..n /\ k - 1 = m
    OBVIOUS
  <2>2. z = a \o b /\ a \in Seq(S) /\ b \in Seq(S)
    BY <1>1, <1>3, <2>1 DEF Flattens
  <2>3. L[k] = Len(z) /\ L[m] = Len(a)
    BY <2>1
  <2>4. /\ \A i \in 0..m : L[i] \in 0..Len(a)
        /\ \A i \in 1..m : PieceAt(a, seqs, L, i)
    BY <1>3
  <2>5. \A i \in 0..k : i \in 0..m \/ i = k
    OBVIOUS
  <2>6. \A i \in 1..k : i \in 1..m \/ i = k
    OBVIOUS
  <2> HIDE DEF k, a, b, z, L
  <2>7. /\ z \in Seq(S) /\ Len(z) = Len(a) + Len(b) /\ Len(a) \in Nat /\ Len(b) \in Nat
        /\ \A i \in 1..Len(a) : z[i] = a[i]
        /\ \A i \in 1..Len(b) : z[Len(a) + i] = b[i]
    BY <2>2, Cat
  <2>8. \A i \in 0..k : L[i] \in 0..Len(z)
    BY <2>3, <2>4, <2>5, <2>7
  <2>9. ASSUME NEW i \in 1..m PROVE PieceAt(z, seqs, L, i)
    <3>1. PieceAt(a, seqs, L, i) /\ i - 1 \in 0..m /\ i \in 0..m
      BY <2>4
    <3>2. L[i - 1] \in 0..Len(a) /\ L[i] \in 0..Len(a)
      BY <2>4, <3>1
    <3>3. L[i - 1] \in 0..L[i] /\ L[i] = L[i - 1] + Len(seqs[i]) /\ L[i] <= Len(z)
      BY <2>7, <3>1, <3>2 DEF PieceAt
    <3>4. ASSUME NEW j \in 1..Len(seqs[i]) PROVE z[L[i - 1] + j] = seqs[i][j]
      <4>1. a[L[i - 1] + j] = seqs[i][j]
        BY <3>1 DEF PieceAt
      <4>2. L[i - 1] + j \in 1..Len(a)
        <5> DEFINE x == L[i - 1]
                   y == L[i]
                   d == Len(seqs[i])
        <5>1. x \in Nat /\ y \in Nat /\ y = x + d /\ y <= Len(a) /\ j \in 1..d
          BY <3>2, <3>3
        <5>2. d \in Int
          <6>1. i \in 1..n
            BY <2>1
          <6> QED
            BY <6>1
        <5> HIDE DEF x, y, d
        <5>3. x + j \in 1..Len(a)
          BY <2>7, <5>1, <5>2
        <5> QED
          BY <5>3 DEF x
      <4> QED
        BY <2>7, <4>1, <4>2
    <3> QED
      BY <3>3, <3>4 DEF PieceAt
  <2>10. PieceAt(z, seqs, L, k)
    <3>1. L[k - 1] = Len(a) /\ L[k] = Len(z) /\ seqs[k] = b
      BY <2>1, <2>3 DEF b
    <3> QED
      BY <2>7, <3>1 DEF PieceAt
  <2>11. \A i \in 1..k : PieceAt(z, seqs, L, i)
    BY <2>6, <2>9, <2>10
  <2>12. To(k)
    BY <2>7, <2>8, <2>11 DEF z
  <2> HIDE DEF To
  <2>13. k \in Good
    BY <2>1, <2>12
  <2> QED
    BY <2>13 DEF k
<1>4. n \in Good
  <2> HIDE DEF Good
  <2> QED
    BY <1>2, <1>3, Induction
<1>5. G[n] \in Seq(S) /\ L[0] = 0 /\ L[n] = Len(G[n])
  BY <1>1, <1>4 DEF Flattens
<1>6. MadeOf(G[n], seqs, n, L)
  <2>1. /\ \A i \in 0..n : L[i] \in 0..Len(G[n])
        /\ \A i \in 1..n : PieceAt(G[n], seqs, L, i)
    BY <1>4
  <2> HIDE DEF L
  <2> QED
    BY <1>5, <2>1 DEF MadeOf
<1> HIDE DEF L
<1> QED
  BY <1>1, <1>5, <1>6

-----------------------------------------------------------------------------
(* Octets, there and back. *)

Named == {SP, "%", "&", "=", "+", "/", "a"}

LEMMA OctetIs ==
    /\ DOMAIN Octet = Named
    /\ Octet[SP] = <<"2", "0">> /\ Octet["%"] = <<"2", "5">> /\ Octet["&"] = <<"2", "6">>
    /\ Octet["="] = <<"3", "D">> /\ Octet["+"] = <<"2", "B">> /\ Octet["/"] = <<"2", "F">>
    /\ Octet["a"] = <<"6", "1">>
<1>1. SP \notin {"%", "&", "=", "+", "/", "a"}
  BY Zenon DEF SP
<1> QED
  BY <1>1 DEF Octet, Named

Hexes == {"0", "1", "2", "3", "5", "6", "B", "D", "F"}

LEMMA HexesAre ==
    /\ Hexes \subseteq xdigit
    /\ \A d \in Hexes : dec_to_hex(d) = d /\ d # "&" /\ d # "=" /\ d # "%"
<1>1. Hexes \subseteq xdigit
  BY Zenon DEF Hexes, xdigit, digit
<1>2. ASSUME NEW d \in Hexes PROVE dec_to_hex(d) = d
  BY DEF Hexes, dec_to_hex
<1>3. ASSUME NEW d \in Hexes PROVE d # "&" /\ d # "=" /\ d # "%"
  BY Zenon DEF Hexes
<1> QED
  BY <1>1, <1>2, <1>3

LEMMA Decodes ==
    ASSUME NEW b \in Named
    PROVE  /\ Octet[b] \in Seq(Hexes) /\ Len(Octet[b]) = 2
           /\ Octet[b][1] \in Hexes /\ Octet[b][2] \in Hexes
           /\ Decoded(Octet[b][1], Octet[b][2]) = b
<1>1. \E h, l \in Hexes : Octet[b] = <<h, l>>
  BY OctetIs DEF Named, Hexes
<1>2. PICK h \in Hexes, l \in Hexes : Octet[b] = <<h, l>>
  BY <1>1
<1>3. \A x \in Named : Octet[x] = Octet[b] => x = b
  BY OctetIs DEF Named
<1>4. dec_to_hex(h) = h /\ dec_to_hex(l) = l
  BY HexesAre
<1> DEFINE those == {x \in DOMAIN Octet : Octet[x] = <<dec_to_hex(h), dec_to_hex(l)>>}
<1>5. those = {b}
  <2>1. \A x \in Named : Octet[x] = <<dec_to_hex(h), dec_to_hex(l)>> <=> x = b
    BY <1>2, <1>3, <1>4
  <2> QED
    BY <2>1, OctetIs
<1>6. Decoded(h, l) = IF those = {} THEN "other" ELSE CHOOSE x \in those : TRUE
  BY DEF Decoded
<1> HIDE DEF those
<1>7. Decoded(h, l) = b
  BY <1>5, <1>6
<1> QED
  BY <1>2, <1>7

LEMMA NotSeparators == \A b \in unreserved : b \notin {"&", "=", "%"}
<1>1. ASSUME NEW b \in digit PROVE b \notin {"&", "=", "%"}
  BY Zenon DEF digit
<1>2. ASSUME NEW b \in upper PROVE b \notin {"&", "=", "%"}
  BY Zenon DEF upper
<1>3. ASSUME NEW b \in lower PROVE b \notin {"&", "=", "%"}
  BY Zenon DEF lower
<1>4. ASSUME NEW b \in {"-", ".", "_", "~"} PROVE b \notin {"&", "=", "%"}
  BY Zenon
<1> QED
  BY <1>1, <1>2, <1>3, <1>4 DEF unreserved, alpha

-----------------------------------------------------------------------------
(* What query_escape writes, byte by byte. *)

Written == unreserved \cup {"%"} \cup Hexes

EscapeOf(b) == IF b \in unreserved THEN <<b>> ELSE <<"%">> \o Octet[b]

LEMMA EscapeIs ==
    ASSUME NEW b \in Escapable
    PROVE  /\ EscapeOf(b) \in Seq(Written)
           /\ b \in unreserved => Len(EscapeOf(b)) = 1 /\ EscapeOf(b)[1] = b
           /\ b \notin unreserved => /\ b \in Named /\ Len(EscapeOf(b)) = 3
                                     /\ EscapeOf(b)[1] = "%" /\ EscapeOf(b)[2] = Octet[b][1]
                                     /\ EscapeOf(b)[3] = Octet[b][2]
<1>1. CASE b \in unreserved
  <2>1. EscapeOf(b) = <<b>> /\ b \in Written
    BY <1>1 DEF EscapeOf, Written
  <2> HIDE DEF EscapeOf
  <2> QED
    BY <1>1, <2>1
<1>2. CASE b \notin unreserved
  <2>1. b \in Named
    BY <1>2, OctetIs DEF Escapable
  <2> DEFINE o == Octet[b]
             e == EscapeOf(b)
  <2>2. e = <<"%">> \o o
    BY <1>2 DEF EscapeOf
  <2>3. o \in Seq(Written) /\ Len(o) = 2
    BY <2>1, Decodes DEF Written
  <2>4. <<"%">> \in Seq(Written) /\ Len(<<"%">>) = 1 /\ <<"%">>[1] = "%"
    BY DEF Written
  <2> HIDE DEF o, e
  <2>5. /\ e \in Seq(Written) /\ Len(e) = 1 + 2
        /\ \A i \in 1..1 : e[i] = <<"%">>[i]
        /\ \A i \in 1..2 : e[1 + i] = o[i]
    BY <2>2, <2>3, <2>4, Cat
  <2>6. e[1] = "%" /\ e[1 + 1] = o[1] /\ e[1 + 2] = o[2]
    BY <2>4, <2>5
  <2> QED
    BY <1>2, <2>1, <2>5, <2>6 DEF o, e
<1> QED
  BY <1>1, <1>2

(* The escapes of s, one behind the other. *)
LEMMA EscapeWrites ==
    ASSUME NEW s \in Seq(Escapable)
    PROVE  /\ query_escape(s) \in Seq(Written)
           /\ \E L : MadeOf(query_escape(s), [i \in 1..Len(s) |-> EscapeOf(s[i])], Len(s), L)
<1> DEFINE n == Len(s)
           seqs == [i \in 1..n |-> EscapeOf(s[i])]
<1>1. query_escape(s) = SX!FlattenSeq(seqs)
  BY DEF query_escape, EscapeOf
<1>2. n \in Nat /\ \A i \in 1..n : s[i] \in Escapable
  OBVIOUS
<1>3. \A i \in 1..n : seqs[i] \in Seq(Written)
  BY <1>2, EscapeIs
<1>4. seqs \in Seq(Seq(Written)) /\ Len(seqs) = n
  <2> HIDE DEF n
  <2>1. seqs = [i \in 1..n |-> seqs[i]]
    OBVIOUS
  <2> HIDE DEF seqs
  <2> QED
    BY <1>2, <1>3, <2>1
<1> HIDE DEF n, seqs
<1>5. CASE n = 0
  <2>1. SX!FlattenSeq(seqs) = seqs /\ seqs = <<>>
    BY <1>4, <1>5 DEF SX!FlattenSeq
  <2> DEFINE L == [i \in 0..0 |-> 0]
  <2>2. MadeOf(<<>>, seqs, 0, L)
    BY DEF MadeOf
  <2> HIDE DEF L
  <2>3. query_escape(s) = <<>> /\ query_escape(s) \in Seq(Written)
    BY <1>1, <2>1
  <2>4. MadeOf(query_escape(s), seqs, n, L)
    BY <1>5, <2>2, <2>3
  <2>5. \E M : MadeOf(query_escape(s), seqs, n, M)
    BY <2>4
  <2> QED
    BY <2>3, <2>5 DEF n, seqs
<1>6. CASE n # 0
  <2>1. n >= 1
    BY <1>2, <1>6
  <2>2. /\ SX!FlattenSeq(seqs) \in Seq(Written)
        /\ \E L : MadeOf(SX!FlattenSeq(seqs), seqs, n, L)
    BY <1>2, <1>3, <1>4, <2>1, Flattened
  <2> QED
    BY <1>1, <2>2 DEF n, seqs
<1> QED
  BY <1>5, <1>6

LEMMA HeadOfRest ==
    ASSUME NEW S, NEW s \in Seq(S), NEW i \in 1..Len(s)
    PROVE  <<s[i]>> \o SubSeq(s, i + 1, Len(s)) = SubSeq(s, i, Len(s))
<1> DEFINE n == Len(s)
           a == <<s[i]>>
           b == SubSeq(s, i + 1, n)
           x == a \o b
           y == SubSeq(s, i, n)
<1>1. n \in Nat /\ i \in 1..n /\ s[i] \in S
  OBVIOUS
<1>2. /\ i + 1 \in 1..Len(s) + 1 /\ n \in (i + 1) - 1..Len(s) /\ n - (i + 1) + 1 = n - i
      /\ i \in 1..Len(s) + 1 /\ n \in i - 1..Len(s) /\ n - i + 1 = 1 + (n - i)
      /\ n - i \in Nat /\ n = Len(s)
  BY <1>1
<1>3. a \in Seq(S) /\ Len(a) = 1 /\ a[1] = s[i]
  BY <1>1
<1> HIDE DEF n, a
<1>4. /\ b \in Seq(S) /\ Len(b) = n - i
      /\ \A j \in 1..n - i : b[j] = s[i + 1 + j - 1]
  <2> DEFINE k == i + 1
  <2>1. k \in 1..Len(s) + 1 /\ n \in k - 1..Len(s) /\ n - k + 1 = n - i
    BY <1>2
  <2> HIDE DEF k
  <2>2. /\ SubSeq(s, k, n) \in Seq(S) /\ Len(SubSeq(s, k, n)) = n - k + 1
        /\ \A j \in 1..n - k + 1 : SubSeq(s, k, n)[j] = s[k + j - 1]
    BY <2>1, Sub
  <2>3. /\ SubSeq(s, k, n) \in Seq(S) /\ Len(SubSeq(s, k, n)) = n - i
        /\ \A j \in 1..n - i : SubSeq(s, k, n)[j] = s[k + j - 1]
    BY <2>1, <2>2
  <2> QED
    BY <2>3 DEF k
<1>5. /\ y \in Seq(S) /\ Len(y) = 1 + (n - i)
      /\ \A j \in 1..1 + (n - i) : y[j] = s[i + j - 1]
  <2>1. /\ y \in Seq(S) /\ Len(y) = n - i + 1
        /\ \A j \in 1..n - i + 1 : y[j] = s[i + j - 1]
    BY <1>2, Sub
  <2> QED
    BY <1>2, <2>1
<1> HIDE DEF b, y
<1>6. /\ x \in Seq(S) /\ Len(x) = 1 + (n - i)
      /\ \A j \in 1..1 : x[j] = a[j]
      /\ \A j \in 1..n - i : x[1 + j] = b[j]
  <2>0. a \in Seq(S) /\ b \in Seq(S)
    BY <1>3, <1>4
  <2>1. /\ x \in Seq(S) /\ Len(x) = Len(a) + Len(b)
        /\ \A j \in 1..Len(a) : x[j] = a[j]
        /\ \A j \in 1..Len(b) : x[Len(a) + j] = b[j]
    BY ONLY <2>0, Cat
  <2> QED
    BY <1>3, <1>4, <2>1
<1> HIDE DEF x
<1>7. ASSUME NEW j \in 1..1 + (n - i) PROVE x[j] = y[j]
  <2>1. CASE j = 1
    <3>1. i + 1 - 1 = i
      BY <1>1
    <3> QED
      BY <1>3, <1>5, <1>6, <2>1, <3>1
  <2>2. CASE j # 1
    <3>1. j - 1 \in 1..n - i /\ 1 + (j - 1) = j /\ i + 1 + (j - 1) - 1 = i + j - 1
      BY <1>1, <1>2, <2>2
    <3>2. x[1 + (j - 1)] = b[j - 1] /\ b[j - 1] = s[i + 1 + (j - 1) - 1]
      BY <1>4, <1>6, <3>1
    <3>3. y[j] = s[i + j - 1]
      BY <1>5
    <3> QED
      BY <3>1, <3>2, <3>3
  <2> QED
    BY <2>1, <2>2
<1>8. x = y
  BY <1>5, <1>6, <1>7
<1> QED
  BY <1>8 DEF x, y, a, b, n

(* query_unescape reads back what query_escape has written. *)
LEMMA UnescapeEscape ==
    ASSUME NEW s \in Seq(Escapable)
    PROVE  query_unescape(query_escape(s)) = s
<1> DEFINE q == query_escape(s)
           n == Len(s)
           seqs == [i \in 1..n |-> EscapeOf(s[i])]
<1>1. q \in Seq(Written) /\ Len(q) \in Nat /\ n \in Nat
  BY EscapeWrites
<1>2. PICK L : MadeOf(q, seqs, n, L)
  BY EscapeWrites
<1>3. \A i \in 1..n : s[i] \in Escapable /\ seqs[i] = EscapeOf(s[i])
  OBVIOUS
<1>4. s \in Seq(Escapable) /\ n = Len(s)
  OBVIOUS
<1> HIDE DEF q, seqs
<1>5. PICK f : Unescapes(f, q) /\ query_unescape(q) = f[1]
  BY <1>1, UnescapeUnfolds
<1> HIDE DEF n
<1> DEFINE Read == {j \in 0..n : f[L[n - j] + 1] = SubSeq(s, n - j + 1, n)}
<1>6. 0 \in Read
  <2>1. f[Len(q) + 1] = <<>>
    <3>1. Len(q) + 1 \in 1..Len(q) + 1 /\ Len(q) + 1 > Len(q)
      BY <1>1
    <3> QED
      BY <1>5, <3>1 DEF Unescapes
  <2>2. L[n] = Len(q) /\ n - 0 = n
    BY <1>1, <1>2 DEF MadeOf
  <2>3. SubSeq(s, n + 1, n) = <<>>
    BY <1>1, <1>4
  <2>4. f[L[n - 0] + 1] = SubSeq(s, n - 0 + 1, n)
    BY <2>1, <2>2, <2>3
  <2> QED
    BY <1>1, <2>4
<1>7. ASSUME NEW j \in 0..n - 1, j \in Read PROVE j + 1 \in Read
  <2> DEFINE i == n - j
             k == L[i - 1] + 1
             b == s[i]
             e == EscapeOf(b)
  <2>1. i \in 1..n /\ n - (j + 1) = i - 1 /\ (i - 1) + 1 = i /\ j + 1 \in 0..n
    BY <1>1
  <2>2. f[L[i] + 1] = SubSeq(s, i + 1, n)
    BY <1>7
  <2>3. b \in Escapable /\ seqs[i] = e
    BY <1>3, <2>1
  <2>4. PieceAt(q, seqs, L, i)
    BY <1>2, <2>1 DEF MadeOf
  <2> HIDE DEF i, b, e
  <2>5. /\ L[i - 1] \in 0..L[i] /\ L[i] = L[i - 1] + Len(e) /\ L[i] <= Len(q)
        /\ \A x \in 1..Len(e) : q[L[i - 1] + x] = e[x]
    BY <2>3, <2>4 DEF PieceAt
  <2>6. L[i - 1] \in Nat /\ L[i] \in Nat
    <3>1. i - 1 \in 0..n /\ i \in 0..n
      BY <1>1, <2>1
    <3> QED
      BY <1>2, <3>1 DEF MadeOf
  <2>7. f[k] = <<b>> \o f[L[i] + 1]
    <3>1. CASE b \in unreserved
      <4>1. Len(e) = 1 /\ e[1] = b
        BY <2>3, <3>1, EscapeIs DEF e
      <4>2. L[i] = k /\ q[k] = b /\ k \in 1..Len(q) + 1 /\ ~(k > Len(q))
        BY <1>1, <2>5, <2>6, <4>1
      <4>3. ~IsEscape(q, k)
        BY <3>1, <4>2, NotSeparators DEF IsEscape
      <4>4. f[k] = <<q[k]>> \o f[k + 1]
        BY <1>5, <4>2, <4>3 DEF Unescapes
      <4> QED
        BY <4>2, <4>4
    <3>2. CASE b \notin unreserved
      <4>1. b \in Named /\ Len(e) = 3 /\ e[1] = "%" /\ e[2] = Octet[b][1] /\ e[3] = Octet[b][2]
        BY <2>3, <3>2, EscapeIs DEF e
      <4>2. /\ L[i] = k + 2 /\ k + 2 <= Len(q) /\ k \in 1..Len(q) + 1 /\ ~(k > Len(q))
            /\ k = L[i - 1] + 1 /\ k + 1 = L[i - 1] + 2 /\ k + 2 = L[i - 1] + 3
        BY <1>1, <2>5, <2>6, <4>1
      <4>3. q[k] = "%" /\ q[k + 1] = Octet[b][1] /\ q[k + 2] = Octet[b][2]
        BY <2>5, <4>1, <4>2
      <4>4. Octet[b][1] \in xdigit /\ Octet[b][2] \in xdigit
        BY <4>1, Decodes, HexesAre
      <4>5. Decoded(q[k + 1], q[k + 2]) = b
        BY <4>1, <4>3, Decodes
      <4>6. IsEscape(q, k)
        BY <4>2, <4>3, <4>4 DEF IsEscape
      <4>7. f[k] = <<Decoded(q[k + 1], q[k + 2])>> \o f[k + 3]
        BY <1>5, <4>2, <4>6 DEF Unescapes
      <4>8. k + 3 = L[i] + 1
        BY <2>6, <4>2
      <4> QED
        BY <4>5, <4>7, <4>8
    <3> QED
      BY <3>1, <3>2
  <2>8. <<b>> \o SubSeq(s, i + 1, n) = SubSeq(s, i, n)
    <3>1. n = Len(s) /\ i \in 1..Len(s) /\ b = s[i]
      BY <1>4, <2>1 DEF b
    <3> QED
      BY <1>4, <3>1, HeadOfRest
  <2>9. f[L[n - (j + 1)] + 1] = SubSeq(s, n - (j + 1) + 1, n)
    BY <2>1, <2>2, <2>7, <2>8
  <2> QED
    BY <2>1, <2>9
<1>8. n \in Read
  <2> HIDE DEF Read
  <2> QED
    BY <1>1, <1>6, <1>7, Induction
<1>9. f[1] = SubSeq(s, 1, n)
  <2>1. n - n = 0 /\ L[0] = 0 /\ 0 + 1 = 1
    BY <1>1, <1>2 DEF MadeOf
  <2> QED
    BY <1>8, <2>1
<1>10. SubSeq(s, 1, n) = s
  BY <1>4
<1> QED
  BY <1>5, <1>9, <1>10 DEF q

-----------------------------------------------------------------------------
(* What query_string reads. *)

LEMMA FoundAt ==
    ASSUME NEW s, Len(s) \in Nat, NEW b, NEW i \in Nat, NEW k \in i..Len(s), s[k] = b,
           \A j \in i..k - 1 : s[j] # b
    PROVE  Find(s, b, i) = k
<1> DEFINE at == {j \in i..Len(s) : s[j] = b}
           first == CHOOSE j \in at : (\A x \in at : j <= x)
<1>1. k \in at /\ at \subseteq Int
  OBVIOUS
<1>2. \A x \in at : k <= x
  <2> SUFFICES ASSUME NEW x \in at, ~(k <= x) PROVE FALSE
    OBVIOUS
  <2>1. x \in i..k - 1 /\ s[x] = b
    OBVIOUS
  <2> QED
    BY <2>1
<1> HIDE DEF at
<1>3. first \in at /\ \A x \in at : first <= x
  <2>1. \E j \in at : \A x \in at : j <= x
    BY <1>1, <1>2
  <2> QED
    BY <2>1, Zenon
<1>4. first = k /\ at # {}
  <2> HIDE DEF first
  <2>1. first \in Int /\ k \in Int /\ first <= k /\ k <= first
    BY <1>1, <1>2, <1>3
  <2> QED
    BY <1>1, <2>1
<1>5. Find(s, b, i) = IF at = {} THEN Len(s) + 1 ELSE first
  BY DEF Find, at
<1> HIDE DEF first
<1> QED
  BY <1>4, <1>5

LEMMA FindNone ==
    ASSUME NEW s, Len(s) \in Nat, NEW b, NEW i \in Nat, \A j \in i..Len(s) : s[j] # b
    PROVE  Find(s, b, i) = Len(s) + 1
BY DEF Find

LEMMA FindIn ==
    ASSUME NEW s, Len(s) \in Nat, NEW b, NEW i \in 1..Len(s)
    PROVE  Find(s, b, i) \in i..Len(s) + 1
<1> DEFINE at == {j \in i..Len(s) : s[j] = b}
<1>1. CASE at = {}
  <2>1. \A j \in i..Len(s) : s[j] # b
    BY <1>1
  <2> QED
    BY <2>1, FindNone
<1>2. CASE at # {}
  <2>1. at \subseteq Nat
    OBVIOUS
  <2> HIDE DEF at
  <2>2. PICK k \in at : \A x \in at : k <= x
    BY <1>2, <2>1, Least
  <2>3. k \in i..Len(s) /\ s[k] = b /\ i \in Nat
    BY <2>2 DEF at
  <2>4. \A j \in i..k - 1 : s[j] # b
    <3> SUFFICES ASSUME NEW j \in i..k - 1, s[j] = b PROVE FALSE
      OBVIOUS
    <3>1. j \in at /\ j < k /\ k \in Int
      BY <2>3 DEF at
    <3> QED
      BY <2>2, <3>1
  <2>5. Find(s, b, i) = k
    BY ONLY <2>3, <2>4, Len(s) \in Nat, FoundAt
  <2> QED
    BY <2>3, <2>5
<1> QED
  BY <1>1, <1>2

(* The pair that starts at i, and what it adds to those behind it. *)
PairFrom(q, i) == SubSeq(q, i, Find(q, "&", i) - 1)
Adds(pair) == IF Find(pair, "=", 1) > Len(pair) THEN <<>>
              ELSE << <<query_unescape(SubSeq(pair, 1, Find(pair, "=", 1) - 1)),
                        query_unescape(SubSeq(pair, Find(pair, "=", 1) + 1, Len(pair)))>> >>

(* f[i] is what query_string makes of q from i on. *)
ReadsPairs(f, q) ==
    \A i \in 1..Len(q) + 2 :
        f[i] = IF i > Len(q) THEN <<>>
               ELSE Adds(PairFrom(q, i)) \o f[i + Len(PairFrom(q, i)) + 1]

LEMMA QueryUnfolds ==
    ASSUME NEW S, NEW q \in Seq(S)
    PROVE  \E f : ReadsPairs(f, q) /\ query_string(q) = LastGiven(f[1])
<1> DEFINE n == Len(q)
           m == n + 2
           Def(g) == [i \in 1..m |->
                        IF i > n THEN <<>>
                        ELSE LET pair == SubSeq(q, i, Find(q, "&", i) - 1)
                                 div  == Find(pair, "=", 1)
                             IN  (IF div > Len(pair) THEN <<>>
                                  ELSE << <<query_unescape(SubSeq(pair, 1, div - 1)),
                                            query_unescape(SubSeq(pair, div + 1, Len(pair)))>> >>)
                                 \o g[i + Len(pair) + 1]]
           head == [i \in 1..n |-> Adds(PairFrom(q, i))]
           next == [i \in 1..n |-> i + Len(PairFrom(q, i)) + 1]
           read == CHOOSE g : g = Def(g)
<1>0. n \in Nat /\ m \in Nat /\ n <= m /\ n = Len(q)
  OBVIOUS
<1>1. ASSUME NEW i \in 1..n PROVE next[i] \in i + 1..m
  <2> DEFINE k == Find(q, "&", i)
             b == k - 1
             l == Len(PairFrom(q, i))
  <2>1. k \in i..Len(q) + 1 /\ i \in 1..Len(q) + 1
    BY <1>0, FindIn
  <2>2. next[i] = i + l + 1
    OBVIOUS
  <2> HIDE DEF k, n, m, next
  <2>3. b \in i - 1..Len(q)
    BY <1>0, <2>1
  <2>4. PairFrom(q, i) = SubSeq(q, i, b)
    BY DEF PairFrom, k
  <2> HIDE DEF b
  <2>5. Len(SubSeq(q, i, b)) = b - i + 1
    BY <2>1, <2>3, Sub
  <2>6. l = b - i + 1
    BY <2>4, <2>5
  <2> HIDE DEF l
  <2>7. i + l + 1 \in i + 1..n + 2
    BY <1>0, <2>1, <2>3, <2>6
  <2> QED
    BY <2>2, <2>7 DEF m
<1>2. PICK f : f = [i \in 1..m |-> IF i > n THEN <<>> ELSE head[i] \o f[next[i]]]
  <2>1. Further(n, m, next)
    BY <1>1 DEF Further
  <2> HIDE DEF n, m, head, next
  <2>2. \E f : RunsOn(f, n, m, head, next)
    BY <1>0, <2>1, Forward
  <2> QED
    BY <2>2 DEF RunsOn
<1>3. ASSUME NEW g, NEW i \in 1..m
      PROVE  Def(g)[i] = IF i > n THEN <<>>
                         ELSE Adds(PairFrom(q, i)) \o g[i + Len(PairFrom(q, i)) + 1]
  BY Zenon DEF Adds, PairFrom
<1>4. \A g : Def(g) = [i \in 1..m |-> Def(g)[i]]
  OBVIOUS
<1>5. f = Def(f)
  <2>1. ASSUME NEW i \in 1..m PROVE f[i] = Def(f)[i]
    <3>1. f[i] = IF i > n THEN <<>> ELSE head[i] \o f[next[i]]
      BY <1>2
    <3>2. ~(i > n) => /\ head[i] = Adds(PairFrom(q, i))
                      /\ next[i] = i + Len(PairFrom(q, i)) + 1
      <4> SUFFICES ASSUME ~(i > n)
                   PROVE  /\ head[i] = Adds(PairFrom(q, i))
                          /\ next[i] = i + Len(PairFrom(q, i)) + 1
        OBVIOUS
      <4>1. i \in 1..n
        BY <1>0
      <4> QED
        BY <4>1
    <3> HIDE DEF head, next, Def, n, m
    <3>3. Def(f)[i] = IF i > n THEN <<>>
                      ELSE Adds(PairFrom(q, i)) \o f[i + Len(PairFrom(q, i)) + 1]
      BY <1>3
    <3> QED
      BY <3>1, <3>2, <3>3
  <2> HIDE DEF head, next
  <2>2. f = [i \in 1..m |-> f[i]]
    BY <1>2
  <2> HIDE DEF Def, m
  <2> QED
    BY <2>1, <2>2, <1>4
<1>6. read = Def(read)
  <2> HIDE DEF Def
  <2> QED
    BY <1>5
<1>7. query_string(q) = LastGiven(read[1])
  BY Zenon DEF query_string
<1>8. ReadsPairs(read, q)
  <2> HIDE DEF Def, read, head, next
  <2>1. ASSUME NEW i \in 1..m
        PROVE  read[i] = IF i > n THEN <<>>
                         ELSE Adds(PairFrom(q, i)) \o read[i + Len(PairFrom(q, i)) + 1]
    BY <1>3, <1>6
  <2> QED
    BY <2>1 DEF ReadsPairs
<1> QED
  BY <1>7, <1>8

LEMMA WrittenBytes == \A b \in Written : b # "&" /\ b # "="
BY NotSeparators, HexesAre DEF Written

(* The pair that a key and a value make: it has one "=", and no "&". *)
LEMMA PairIs ==
    ASSUME NEW x \in Seq(Escapable) \X Seq(Escapable)
    PROVE  /\ Pair(x) \in Seq(Written \cup {"="}) /\ Len(Pair(x)) \in Nat \ {0}
           /\ \A j \in 1..Len(Pair(x)) : Pair(x)[j] # "&"
           /\ Adds(Pair(x)) = <<x>>
<1> DEFINE S == Written \cup {"="}
           a == query_escape(x[1])
           b == query_escape(x[2])
           h == a \o <<"=">>
           pair == h \o b
           d == Len(a) + 1
<1>1. x[1] \in Seq(Escapable) /\ x[2] \in Seq(Escapable) /\ x = <<x[1], x[2]>>
  OBVIOUS
<1>2. a \in Seq(Written) /\ b \in Seq(Written)
  BY <1>1, EscapeWrites
<1>3. query_unescape(a) = x[1] /\ query_unescape(b) = x[2]
  BY <1>1, UnescapeEscape
<1>4. Pair(x) = pair
  BY DEF Pair
<1> HIDE DEF a, b
<1>5. a \in Seq(S) /\ b \in Seq(S) /\ "=" \in S
  BY <1>2
<1>6. \A j \in 1..Len(a) : a[j] \in Written /\ a[j] # "="
  BY <1>2, WrittenBytes
<1> HIDE DEF S
<1>7. /\ h \in Seq(S) /\ Len(h) = d /\ Len(a) \in Nat
      /\ \A j \in 1..Len(a) : h[j] = a[j]
      /\ h[d] = "="
  BY <1>5, One
<1> HIDE DEF h
<1>8. /\ pair \in Seq(S) /\ Len(pair) = Len(h) + Len(b) /\ Len(b) \in Nat
      /\ \A j \in 1..Len(h) : pair[j] = h[j]
      /\ \A j \in 1..Len(b) : pair[Len(h) + j] = b[j]
  <2>1. h \in Seq(S) /\ b \in Seq(S)
    BY <1>5, <1>7
  <2> QED
    BY ONLY <2>1, Cat
<1> HIDE DEF pair
<1>9. Len(pair) = d + Len(b) /\ d \in 1..Len(pair) /\ d - 1 = Len(a) /\ Len(pair) \in Nat
  BY <1>7, <1>8
<1>10. pair[d] = "=" /\ \A j \in 1..d - 1 : pair[j] = a[j]
  BY <1>7, <1>8, <1>9
<1>11. Find(pair, "=", 1) = d
  <2>1. \A j \in 1..d - 1 : pair[j] # "="
    BY <1>6, <1>9, <1>10
  <2> HIDE DEF d
  <2> QED
    BY <1>9, <1>10, <2>1, FoundAt
<1>12. SubSeq(pair, 1, d - 1) = a
  <2> DEFINE y == SubSeq(pair, 1, d - 1)
  <2>1. d - 1 \in 0..Len(pair)
    BY <1>7, <1>9
  <2>2. y \in Seq(S) /\ Len(y) = d - 1 /\ \A j \in 1..d - 1 : y[j] = pair[j]
    BY <1>8, <2>1, Cutting
  <2> HIDE DEF y
  <2>3. ASSUME NEW j \in 1..Len(a) PROVE y[j] = a[j]
    BY <1>9, <1>10, <2>2
  <2>5. y \in Seq(S) /\ a \in Seq(S) /\ Len(y) = Len(a)
    BY <1>5, <1>9, <2>2
  <2>4. y = a
    BY ONLY <2>5, <2>3
  <2> QED
    BY <2>4 DEF y
<1>13. SubSeq(pair, d + 1, Len(pair)) = b
  <2> DEFINE k == d + 1
             n == Len(pair)
             y == SubSeq(pair, k, n)
  <2>1. k \in 1..Len(pair) + 1 /\ n \in k - 1..Len(pair) /\ n - k + 1 = Len(b)
    BY <1>7, <1>8, <1>9
  <2> HIDE DEF k, n
  <2>2. y \in Seq(S) /\ Len(y) = n - k + 1 /\ \A j \in 1..n - k + 1 : y[j] = pair[k + j - 1]
    BY <1>8, <2>1, Sub
  <2> HIDE DEF y
  <2>3. ASSUME NEW j \in 1..Len(b) PROVE y[j] = b[j]
    <3>1. k + j - 1 = Len(h) + j
      BY <1>7 DEF k
    <3> QED
      BY <1>8, <2>1, <2>2, <3>1
  <2>5. y \in Seq(S) /\ b \in Seq(S) /\ Len(y) = Len(b)
    BY <1>5, <2>1, <2>2
  <2>4. y = b
    BY ONLY <2>5, <2>3
  <2> QED
    BY <2>4 DEF y, k, n
<1>14. Adds(pair) = << <<x[1], x[2]>> >>
  <2>1. ~(d > Len(pair))
    BY <1>9
  <2> HIDE DEF d
  <2> QED
    BY <1>3, <1>11, <1>12, <1>13, <2>1 DEF Adds
<1>15. \A j \in 1..Len(pair) : pair[j] # "&"
  <2>1. \A y \in S : y # "&"
    BY WrittenBytes DEF S
  <2> QED
    BY <1>8, <2>1
<1>16. Len(pair) \in Nat \ {0}
  BY <1>9
<1> QED
  BY <1>1, <1>4, <1>8, <1>14, <1>15, <1>16 DEF S

(* query_string reads back what a client has made of some parameters. *)
LEMMA QueryRead ==
    ASSUME NEW pairs \in Seq(Seq(Escapable) \X Seq(Escapable)), pairs # <<>>
    PROVE  /\ query_string(QueryOf(pairs)) = LastGiven(pairs)
           /\ QueryOf(pairs) # <<>>
<1> DEFINE S == Written \cup {"=", "&"}
           q == QueryOf(pairs)
           n == Len(pairs)
           And(i) == IF i = 1 THEN <<>> ELSE <<"&">>
           seqs == [i \in 1..n |-> And(i) \o Pair(pairs[i])]
<1>1. n \in Nat /\ n >= 1 /\ \A i \in 1..n : pairs[i] \in Seq(Escapable) \X Seq(Escapable)
  OBVIOUS
<1>2. q = SX!FlattenSeq(seqs)
  BY DEF QueryOf
<1>3. ASSUME NEW i \in 1..n
      PROVE  /\ seqs[i] = And(i) \o Pair(pairs[i])
             /\ Pair(pairs[i]) \in Seq(S) /\ Len(Pair(pairs[i])) \in Nat \ {0}
             /\ \A j \in 1..Len(Pair(pairs[i])) : Pair(pairs[i])[j] # "&"
             /\ Adds(Pair(pairs[i])) = <<pairs[i]>>
             /\ seqs[i] \in Seq(S)
             /\ i = 1 => /\ Len(seqs[i]) = Len(Pair(pairs[i]))
                         /\ \A j \in 1..Len(Pair(pairs[i])) : seqs[i][j] = Pair(pairs[i])[j]
             /\ i # 1 => /\ Len(seqs[i]) = 1 + Len(Pair(pairs[i])) /\ seqs[i][1] = "&"
                         /\ \A j \in 1..Len(Pair(pairs[i])) : seqs[i][1 + j] = Pair(pairs[i])[j]
  <2> DEFINE x == pairs[i]
             w == Pair(x)
             z == seqs[i]
  <2>1. x \in Seq(Escapable) \X Seq(Escapable)
    BY <1>1
  <2>2. z = And(i) \o w
    OBVIOUS
  <2> HIDE DEF x, z
  <2>3. /\ w \in Seq(Written \cup {"="}) /\ Len(w) \in Nat \ {0}
        /\ \A j \in 1..Len(w) : w[j] # "&"
        /\ Adds(w) = <<x>>
    BY <2>1, PairIs
  <2> HIDE DEF w
  <2>4. w \in Seq(S)
    BY <2>3
  <2>5. <<"&">> \in Seq(S) /\ Len(<<"&">>) = 1 /\ <<"&">>[1] = "&"
    OBVIOUS
  <2>6. CASE i = 1
    <3>1. z = <<>> \o w
      BY <2>2, <2>6
    <3>2. z = w
      BY <2>4, <3>1
    <3> QED
      BY <2>2, <2>3, <2>4, <2>6, <3>2 DEF x, w, z
  <2>7. CASE i # 1
    <3> DEFINE a == <<"&">>
    <3>1. z = a \o w
      BY <2>2, <2>7
    <3>2. a \in Seq(S) /\ Len(a) = 1 /\ a[1] = "&"
      BY <2>5
    <3> HIDE DEF a, S
    <3>3. /\ z \in Seq(S) /\ Len(z) = Len(a) + Len(w)
          /\ \A j \in 1..Len(a) : z[j] = a[j]
          /\ \A j \in 1..Len(w) : z[Len(a) + j] = w[j]
      <4>1. a \in Seq(S) /\ w \in Seq(S)
        BY <2>4, <3>2
      <4> HIDE DEF w
      <4>2. /\ a \o w \in Seq(S) /\ Len(a \o w) = Len(a) + Len(w)
            /\ \A j \in 1..Len(a) : (a \o w)[j] = a[j]
            /\ \A j \in 1..Len(w) : (a \o w)[Len(a) + j] = w[j]
        BY ONLY <4>1, Cat
      <4> QED
        BY <3>1, <4>2
    <3>4. /\ Len(z) = 1 + Len(w) /\ z[1] = "&" /\ \A j \in 1..Len(w) : z[1 + j] = w[j]
      BY <3>2, <3>3
    <3>5. z \in Seq(S)
      BY <3>3
    <3> QED
      BY <2>2, <2>3, <2>4, <2>7, <3>4, <3>5 DEF x, w, z
  <2> QED
    BY <2>6, <2>7
<1>4. Len(seqs) = n /\ \A i \in 1..n : seqs[i] \in Seq(S)
  BY <1>1, <1>3
<1> HIDE DEF q, seqs, And
<1>5. q \in Seq(S) /\ \E L : MadeOf(q, seqs, n, L)
  <2> HIDE DEF n, S
  <2> QED
    BY <1>1, <1>2, <1>4, Flattened
<1>6. PICK L : MadeOf(q, seqs, n, L)
  BY <1>5
<1>7. PICK f : ReadsPairs(f, q) /\ query_string(q) = LastGiven(f[1])
  <2> HIDE DEF S
  <2> QED
    BY <1>5, QueryUnfolds
<1> HIDE DEF n, S
<1>8. Len(q) \in Nat
  BY <1>5
<1> DEFINE P(i) == IF i = 1 THEN 1 ELSE L[i - 1] + 2
(* The i-th pair stands between P(i) and L[i]. *)
<1>9. ASSUME NEW i \in 1..n
      PROVE  /\ P(i) \in 1..L[i] /\ L[i] \in 1..Len(q)
             /\ L[i] = P(i) + Len(Pair(pairs[i])) - 1
             /\ \A j \in 1..Len(Pair(pairs[i])) : q[P(i) + j - 1] = Pair(pairs[i])[j]
             /\ i # 1 => q[L[i - 1] + 1] = "&"
  <2> DEFINE w == Pair(pairs[i])
             a == L[i - 1]
             l == Len(w)
  <2>1. PieceAt(q, seqs, L, i)
    BY <1>6 DEF MadeOf
  <2>2. a \in Nat /\ L[i] \in Nat /\ (i = 1 => a = 0)
    <3>1. i - 1 \in 0..n /\ i \in 0..n /\ (i = 1 => i - 1 = 0)
      BY <1>1
    <3>2. L[i - 1] \in 0..Len(q) /\ L[i] \in 0..Len(q) /\ L[0] = 0
      BY <1>6, <3>1 DEF MadeOf
    <3> QED
      BY <1>8, <3>1, <3>2
  <2>3. l \in Nat \ {0}
    BY <1>3
  <2>4. CASE i = 1
    <3>1. Len(seqs[i]) = l /\ \A j \in 1..l : seqs[i][j] = w[j]
      BY <1>3, <2>4
    <3>2. /\ L[i] = a + l /\ L[i] <= Len(q) /\ \A j \in 1..l : q[a + j] = w[j]
      BY <2>1, <3>1 DEF PieceAt
    <3> HIDE DEF w, l
    <3>3. L[i] = l /\ L[i] \in 1..Len(q) /\ \A j \in 1..l : q[j] = w[j]
      BY <1>8, <2>2, <2>3, <2>4, <3>2
    <3>4. P(i) = 1 /\ L[i] = P(i) + l - 1 /\ P(i) \in 1..L[i]
      BY <1>8, <2>3, <2>4, <3>3
    <3>5. \A j \in 1..l : P(i) + j - 1 = j
      BY <3>4
    <3> QED
      BY <2>4, <3>3, <3>4, <3>5 DEF w, l
  <2>5. CASE i # 1
    <3>1. /\ Len(seqs[i]) = 1 + l /\ seqs[i][1] = "&"
          /\ \A j \in 1..l : seqs[i][1 + j] = w[j]
      BY <1>3, <2>5
    <3>2. /\ L[i] = a + Len(seqs[i]) /\ L[i] <= Len(q)
          /\ \A j \in 1..Len(seqs[i]) : q[a + j] = seqs[i][j]
      BY <2>1 DEF PieceAt
    <3> HIDE DEF w, l, a
    <3>3. L[i] = a + 1 + l /\ L[i] \in 1..Len(q)
      BY <1>8, <2>2, <2>3, <3>1, <3>2
    <3>4. q[a + 1] = "&"
      BY <2>3, <3>1, <3>2
    <3>5. ASSUME NEW j \in 1..l PROVE q[a + 1 + j] = w[j]
      <4>1. 1 + j \in 1..Len(seqs[i]) /\ a + (1 + j) = a + 1 + j
        <5> DEFINE d == Len(seqs[i])
        <5>1. d = 1 + l
          BY <3>1
        <5> HIDE DEF d
        <5>2. 1 + j \in 1..d /\ a + (1 + j) = a + 1 + j
          BY <2>2, <2>3, <5>1
        <5> QED
          BY <5>2 DEF d
      <4> QED
        BY <3>1, <3>2, <4>1
    <3>6. P(i) = a + 2 /\ L[i] = P(i) + l - 1 /\ P(i) \in 1..L[i]
      <4>1. P(i) = a + 2
        BY <2>5 DEF a
      <4> HIDE DEF P
      <4> QED
        BY <2>2, <2>3, <3>3, <4>1
    <3>7. \A j \in 1..l : P(i) + j - 1 = a + 1 + j
      BY <2>2, <3>6
    <3> QED
      BY <3>3, <3>4, <3>5, <3>6, <3>7 DEF w, l, a
  <2> QED
    BY <2>4, <2>5
<1>10. ASSUME NEW i \in 1..n
       PROVE  PairFrom(q, P(i)) = Pair(pairs[i]) /\ P(i + 1) = L[i] + 2
  <2> DEFINE w == Pair(pairs[i])
             a == P(i)
             l == Len(w)
             e == L[i]
             y == SubSeq(q, a, e)
  <2>1. /\ a \in 1..e /\ e \in 1..Len(q) /\ e = a + l - 1
        /\ \A j \in 1..l : q[a + j - 1] = w[j]
    BY <1>9
  <2>2. P(i + 1) = e + 2
    <3>1. i + 1 # 1 /\ (i + 1) - 1 = i
      BY <1>1
    <3> QED
      BY <3>1
  <2>3. w \in Seq(S) /\ l \in Nat \ {0} /\ \A j \in 1..l : w[j] # "&"
    BY <1>3
  <2>9. i < n => i + 1 \in 1..n /\ i + 1 # 1 /\ (i + 1) - 1 = i
    BY <1>1
  <2>4. i < n => q[e + 1] = "&" /\ e + 1 \in 1..Len(q)
    <3> SUFFICES ASSUME i < n PROVE q[e + 1] = "&" /\ e + 1 \in 1..Len(q)
      OBVIOUS
    <3>1. q[e + 1] = "&"
      BY <1>9, <2>9
    <3>2. P(i + 1) <= L[i + 1] /\ L[i + 1] \in 1..Len(q) /\ P(i + 1) \in Int
      BY <1>9, <2>9
    <3> HIDE DEF e
    <3>3. e + 1 \in 1..Len(q)
      <4> DEFINE b == P(i + 1)
                 h == L[i + 1]
      <4>1. b <= h /\ h \in 1..Len(q) /\ b \in Int /\ b = e + 2
        BY <2>2, <3>2
      <4>2. e \in Nat
        BY <1>8, <2>1
      <4> HIDE DEF b, h
      <4> QED
        BY <1>8, <4>1, <4>2
    <3> QED
      BY <3>1, <3>3
  <2>5. i = n => e = Len(q)
    BY <1>6 DEF MadeOf
  <2> HIDE DEF w, a, l, e
  <2>6. e + 1 - 1 = e /\ e + 1 \in Nat /\ a \in Nat
    BY <1>8, <2>1
  <2>7. \A j \in a..e : q[j] # "&"
    <3> SUFFICES ASSUME NEW j \in a..e PROVE q[j] # "&"
      OBVIOUS
    <3>1. j - a + 1 \in 1..l /\ a + (j - a + 1) - 1 = j
      BY <2>1, <2>3, <2>6
    <3> QED
      BY <2>1, <2>3, <3>1
  <2>8. Find(q, "&", a) = e + 1
    <3>1. CASE i < n
      <4> DEFINE k == e + 1
      <4>1. k \in a..Len(q) /\ q[k] = "&" /\ \A j \in a..k - 1 : q[j] # "&"
        BY <1>8, <2>1, <2>4, <2>6, <2>7, <3>1
      <4> HIDE DEF k
      <4>2. Find(q, "&", a) = k
        BY <1>8, <2>6, <4>1, FoundAt
      <4> QED
        BY <4>2 DEF k
    <3>2. CASE ~(i < n)
      <4>1. i = n
        BY <1>1, <3>2
      <4>2. \A j \in a..Len(q) : q[j] # "&"
        BY <2>5, <2>7, <4>1
      <4> QED
        BY <1>8, <2>5, <2>6, <4>1, <4>2, FindNone
    <3> QED
      BY <3>1, <3>2
  <2>10. PairFrom(q, a) = y
    <3>1. PairFrom(q, a) = SubSeq(q, a, Find(q, "&", a) - 1)
      BY DEF PairFrom
    <3>2. Find(q, "&", a) - 1 = e
      <4> DEFINE k == Find(q, "&", a)
      <4>1. k = e + 1
        BY <2>8
      <4> HIDE DEF k
      <4>2. e \in Int
        BY <1>8, <2>1
      <4>3. k - 1 = e
        BY ONLY <4>1, <4>2
      <4> QED
        BY <4>3 DEF k
    <3> QED
      BY <3>1, <3>2
  <2>11. y = w
    <3>1. a \in 1..Len(q) + 1 /\ e \in a - 1..Len(q) /\ e - a + 1 = l
      BY <1>8, <2>1, <2>3, <2>6
    <3>2. /\ y \in Seq(S) /\ Len(y) = e - a + 1
          /\ \A j \in 1..e - a + 1 : y[j] = q[a + j - 1]
      BY <1>5, <3>1, Sub
    <3> HIDE DEF y
    <3>3. ASSUME NEW j \in 1..l PROVE y[j] = w[j]
      BY <2>1, <3>1, <3>2
    <3>4. y \in Seq(S) /\ w \in Seq(S) /\ Len(y) = l /\ l = Len(w)
      BY <2>3, <3>1, <3>2 DEF l
    <3> QED
      BY ONLY <3>3, <3>4
  <2> QED
    BY <2>2, <2>10, <2>11 DEF a, e, w
<1> DEFINE Read == {j \in 0..n : f[P(n - j + 1)] = SubSeq(pairs, n - j + 1, n)}
<1>11. 0 \in Read
  <2>1. L[n] = Len(q) /\ n \in 1..n
    BY <1>1, <1>6 DEF MadeOf
  <2>2. P(n + 1) = Len(q) + 2
    BY <1>10, <2>1
  <2>3. f[Len(q) + 2] = <<>>
    <3>1. Len(q) + 2 \in 1..Len(q) + 2 /\ Len(q) + 2 > Len(q)
      BY <1>8
    <3> QED
      BY <1>7, <3>1 DEF ReadsPairs
  <2>4. SubSeq(pairs, n + 1, n) = <<>>
    BY DEF n
  <2>5. n - 0 + 1 = n + 1
    BY <1>1
  <2> HIDE DEF P
  <2>6. f[P(n - 0 + 1)] = SubSeq(pairs, n - 0 + 1, n)
    BY <2>2, <2>3, <2>4, <2>5
  <2> QED
    BY <1>1, <2>6
<1>12. ASSUME NEW j \in 0..n - 1, j \in Read PROVE j + 1 \in Read
  <2> DEFINE i == n - j
             w == Pair(pairs[i])
             a == P(i)
  <2>1. i \in 1..n /\ n - (j + 1) + 1 = i /\ n - j + 1 = i + 1 /\ j + 1 \in 0..n
    BY <1>1
  <2> HIDE DEF P, i
  <2>2. f[P(i + 1)] = SubSeq(pairs, i + 1, n)
    BY <1>12, <2>1
  <2>3. PairFrom(q, a) = w /\ P(i + 1) = L[i] + 2
    BY <1>10, <2>1
  <2>4. a \in 1..L[i] /\ L[i] \in 1..Len(q) /\ L[i] = a + Len(w) - 1
    BY <1>9, <2>1
  <2>5. Adds(w) = <<pairs[i]>> /\ Len(w) \in Nat
    BY <1>3, <2>1
  <2> HIDE DEF w, a
  <2>6. a \in 1..Len(q) + 2 /\ ~(a > Len(q)) /\ a + Len(w) + 1 = P(i + 1)
    <3> DEFINE e == L[i]
               l == Len(w)
    <3>1. a \in 1..e /\ e \in 1..Len(q) /\ e = a + l - 1 /\ l \in Nat /\ P(i + 1) = e + 2
      BY <2>3, <2>4, <2>5
    <3> HIDE DEF e, l
    <3>2. a \in 1..Len(q) + 2 /\ ~(a > Len(q)) /\ a + l + 1 = P(i + 1)
      BY <1>8, <3>1
    <3> QED
      BY <3>2 DEF l
  <2>7. f[a] = <<pairs[i]>> \o f[P(i + 1)]
    BY <1>7, <2>3, <2>5, <2>6 DEF ReadsPairs
  <2>8. <<pairs[i]>> \o SubSeq(pairs, i + 1, n) = SubSeq(pairs, i, n)
    <3>1. n = Len(pairs) /\ i \in 1..Len(pairs)
      BY <2>1 DEF n
    <3> QED
      BY <3>1, HeadOfRest
  <2>9. f[P(n - (j + 1) + 1)] = SubSeq(pairs, n - (j + 1) + 1, n)
    BY <2>1, <2>2, <2>7, <2>8 DEF a
  <2> QED
    BY <2>1, <2>9
<1>13. n \in Read
  <2> HIDE DEF Read
  <2> QED
    BY <1>1, <1>11, <1>12, Induction
<1>14. f[1] = SubSeq(pairs, 1, n)
  <2>1. n - n + 1 = 1
    BY <1>1
  <2> QED
    BY <1>13, <2>1
<1>15. SubSeq(pairs, 1, n) = pairs
  BY DEF n
<1>16. q # <<>>
  <2>1. 1 \in 1..n
    BY <1>1
  <2>2. L[1] \in 1..Len(q)
    BY <1>9, <2>1
  <2> QED
    BY <1>8, <2>2
<1> QED
  BY <1>7, <1>14, <1>15, <1>16 DEF q

-----------------------------------------------------------------------------
(* The parameters are those of the query, from where it ends. *)

PastQuery == {"fragment?", "fragment"} \cup OfVersion

QueryTaken == cs \in PastQuery /\ url.query # <<>> => query = query_string(url.query)

QInv == LInv /\ QueryTaken

LEMMA NoQueryYet ==
    ASSUME LInv, cs \in BeforeEnd, NEW m, PathEnds(m)
    PROVE  cs' \in PastQuery => url'.query = <<>>
<1> SUFFICES ASSUME cs' \in PastQuery PROVE url'.query = <<>>
  OBVIOUS
<1>1. url = NoUrl
  BY DEF LInv, Cut, BeforeEnd
<1>2. url' = [url EXCEPT !.path = From(m), !.uri = From(m)]
  BY DEF PathEnds, Taken, PastQuery, OfVersion
<1>3. url' = [uri |-> From(m), path |-> From(m), query |-> <<>>, fragment |-> <<>>]
  BY <1>1, <1>2, OnlyPath
<1> QED
  BY <1>3

LEMMA QueryMoves ==
    ASSUME LInv, QueryTaken, Reading, Moves, Parameters
    PROVE  QueryTaken'
<1>1. CASE MethodByte \/ MethodEnds
  <2>1. cs' \in {"method", "target", "error"}
    BY <1>1 DEF MethodByte, MethodEnds, Taken
  <2> QED
    BY <2>1 DEF QueryTaken, PastQuery, OfVersion
<1>2. CASE TargetStart \/ Scheme \/ Hier \/ FirstSegment
  <2>1. cs \in BeforeEnd
    BY <1>2 DEF TargetStart, Scheme, Hier, FirstSegment, BeforeEnd
  <2>2. PathEnds(p) \/ PathEnds(mark) \/ cs' \notin PastQuery
    BY <1>2 DEF TargetStart, Scheme, Hier, FirstSegment, Plain, Percent, Taken, PastQuery, OfVersion
  <2> QED
    BY <2>1, <2>2, NoQueryYet DEF QueryTaken
<1>3. CASE Slash \/ Path \/ Authority \/ PortOrUser \/ User \/ Host \/ Port \/ LiteralEnds
  <2>1. cs \in BeforeEnd
    BY <1>3 DEF Slash, Path, Authority, PortOrUser, User, Host, Port, LiteralEnds, BeforeEnd, OfPath
  <2>2. PathEnds(mark) \/ cs' \notin PastQuery
    BY <1>3 DEF Slash, Path, Authority, PortOrUser, User, Host, Port, LiteralEnds, LeavesAuthority,
       Literal, Plain, Percent, Taken, PastQuery, OfVersion
  <2> QED
    BY <2>1, <2>2, NoQueryYet DEF QueryTaken
<1>4. CASE QueryStart \/ Query
  <2>1. cs \in {"query?", "query"} /\ cs' \in {"version", "fragment?", "query"}
    BY <1>4 DEF QueryStart, Query, QueryEnds, Plain, Percent, Taken
  <2>2. cs' \in {"version", "fragment?"} => query' = query_string(url'.query)
    BY <2>1 DEF Parameters
  <2> QED
    BY <2>1, <2>2 DEF QueryTaken, PastQuery, OfVersion
<1>5. CASE FragmentStart \/ Fragment \/ Version
  <2>1. cs \in PastQuery /\ cs \notin {"query?", "query"}
    BY <1>5 DEF FragmentStart, Fragment, Version, PastQuery, OfVersion
  <2>2. url' = url \/ \E x : url' = [url EXCEPT !.fragment = x]
    BY <1>5 DEF FragmentStart, Fragment, Version, Plain, Percent, KeepsParts, parts
  <2>3. url \in Urls
    BY Types DEF LInv, Urls
  <2>4. url'.query = url.query
    BY <2>2, <2>3 DEF Urls
  <2>5. query' = query
    BY <2>1 DEF Parameters
  <2> QED
    BY <2>1, <2>4, <2>5 DEF QueryTaken
<1>6. CASE HexDigit
  <2>1. cs' = cs /\ url' = url
    BY <1>6 DEF HexDigit, Taken, KeepsParts, parts
  <2>2. cs \in PastQuery => query' = query
    BY DEF Parameters, PastQuery, OfVersion
  <2> QED
    BY <2>1, <2>2 DEF QueryTaken
<1> QED
  BY <1>1, <1>2, <1>3, <1>4, <1>5, <1>6 DEF Moves

(* Whatever parameters a client puts into the query of its request line, as
   many as it likes, with whatever bytes it has to escape: when execute accepts
   the line, request.query holds them, and of a key given twice the last value.
   So query_string cuts where the client has joined, and query_unescape undoes
   query_escape. *)
THEOREM QueryReadsBackAlways == LSpec => []QueryReadsBack
<1>1. LineInit => QInv
  <2> SUFFICES ASSUME LineInit PROVE QInv
    OBVIOUS
  <2>1. LInv /\ cs = "method"
    BY LineStarts DEF LineInit
  <2> QED
    BY <2>1 DEF QInv, QueryTaken, PastQuery, OfVersion
<1>2. QInv /\ [execute]_lvars => QInv'
  <2> SUFFICES ASSUME QInv, [execute]_lvars PROVE QInv'
    OBVIOUS
  <2>1. LInv'
    BY LineMoves, LineRejects, LineStutters DEF execute, QInv
  <2>2. CASE Reading /\ Moves /\ Parameters
    BY <2>1, <2>2, QueryMoves DEF QInv
  <2>3. CASE Reject
    <3>1. cs' = "error"
      BY <2>3 DEF Reject, Taken
    <3> QED
      BY <2>1, <3>1 DEF QInv, QueryTaken, PastQuery, OfVersion
  <2>4. CASE UNCHANGED lvars
    <3>1. cs' = cs /\ url' = url /\ query' = query
      BY <2>4 DEF lvars, parts
    <3> QED
      BY <2>1, <3>1 DEF QInv, QueryTaken
  <2> QED
    BY <2>2, <2>3, <2>4 DEF execute
<1>3. LineInit => sent \in RequestLines
  BY DEF LineInit
<1>4. sent \in RequestLines /\ [execute]_lvars => (sent \in RequestLines)'
  <2> SUFFICES ASSUME [execute]_lvars PROVE sent' = sent
    OBVIOUS
  <2> QED
    BY DEF execute, Reject, Reading, lvars
<1>5. sent \in RequestLines /\ QInv => QueryReadsBack
  <2> SUFFICES ASSUME sent \in RequestLines, QInv, Accepted, sent.pairs # <<>>
               PROVE  query = LastGiven(sent.pairs)
    BY DEF QueryReadsBack
  <2>1. url = Uri!Parts(t) /\ cs \in OfVersion
    BY DEF QInv, LInv, Cut, Accepted, OfVersion
  <2>2. /\ sent.pairs \in Seq(Seq(Escapable) \X Seq(Escapable))
        /\ url.query = QueryOf(sent.pairs)
    BY <2>1, PairsAssumption DEF t
  <2>3. query_string(url.query) = LastGiven(sent.pairs) /\ url.query # <<>>
    BY <2>2, QueryRead
  <2> QED
    BY <2>1, <2>3 DEF QInv, QueryTaken, PastQuery
<1> QED
  BY <1>1, <1>2, <1>3, <1>4, <1>5, PTL DEF LSpec
==============================================================================
