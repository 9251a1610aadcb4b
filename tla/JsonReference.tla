---------------------------- MODULE JsonReference ----------------------------
(***************************************************************************)
(* JSON as a client writes it, and what the library is to make of it: the  *)
(* reference for JsonText.                                                 *)
(***************************************************************************)
EXTENDS JsonText

(* A tree is a value in which a number is m / 10^d times ten to its
   exponent, and says how that is spelled: no letters, or a sign and digits. *)
Number(m, d, e) == [t |-> "number", m |-> m, d |-> d, e |-> e]

RECURSIVE Written(_, _), WrittenList(_, _, _), WrittenMap(_, _, _), Denotes(_), Nodes(_)

(* A style has what is put wherever JSON allows white space, and whether a
   letter that has to be escaped is written as a \u. *)
Code == [ch \in DOMAIN Escaped |->
    CASE ch = "\"" -> <<"2", "2">> [] ch = "\\" -> <<"5", "c">> [] ch = "BS" -> <<"0", "8">>
      [] ch = "\f" -> <<"0", "C">> [] ch = "\n" -> <<"0", "a">> [] ch = "\r" -> <<"0", "D">>
      [] ch = "\t" -> <<"0", "9">>]

(* The inside of a string literal; "\/" is one way to write a slash. *)
Spelled(s, style) ==
    LET out[i \in 0..Len(s)] ==
          IF i = 0 THEN <<>>
          ELSE out[i - 1] \o (IF s[i] = "/" THEN <<"\\", "/">>
                              ELSE IF s[i] \notin DOMAIN Escaped THEN <<s[i]>>
                              ELSE IF style.unicode THEN <<"\\", "u", "0", "0">> \o Code[s[i]]
                              ELSE <<"\\", Escaped[s[i]]>>)
    IN  out[Len(s)]

(* A tree as text. *)
WrittenList(l, i, style) ==
    IF i > Len(l) THEN <<>>
    ELSE style.gap \o Written(l[i], style) \o style.gap
         \o (IF i = Len(l) THEN <<>> ELSE <<",">>) \o WrittenList(l, i + 1, style)

WrittenMap(m, keys, style) ==
    IF keys = {} THEN <<>>
    ELSE LET k == CHOOSE k \in keys : TRUE
         IN  style.gap \o Quoted(Spelled(k, style)) \o style.gap \o <<":">>
             \o style.gap \o Written(m[k], style) \o style.gap
             \o (IF keys = {k} THEN <<>> ELSE <<",">>) \o WrittenMap(m, keys \ {k}, style)

Written(v, style) ==
    CASE v.t = "null" -> <<"null">>
      [] v.t = "bool" -> IF v.b THEN <<"true">> ELSE <<"false">>
      [] v.t = "number" -> Fixed(v.m < 0, Magnitude(v.m), v.d)
                           \o (IF v.e = <<>> THEN <<>> ELSE <<"e">> \o v.e)
      [] v.t = "string" -> Quoted(Spelled(v.s, style))
      [] v.t = "array" -> <<"[">> \o WrittenList(v.l, 1, style) \o style.gap \o <<"]">>
      [] v.t = "object" -> <<"{">> \o WrittenMap(v.m, DOMAIN v.m, style) \o style.gap \o <<"}">>

Document(v, style) == style.gap \o Written(v, style) \o style.gap

(* What a tree means: a key is kept as ToString would escape it. *)
KeptKey(k) ==
    LET out[i \in 0..Len(k)] ==
          IF i = 0 THEN <<>>
          ELSE out[i - 1] \o (IF k[i] \in DOMAIN Escaped THEN <<"\\", Escaped[k[i]]>> ELSE <<k[i]>>)
    IN  out[Len(k)]

Denotes(v) ==
    CASE v.t = "number" -> IF v.d = 0 /\ v.e = <<>> THEN Long(v.m)
                           ELSE Float(v.m, Signed(v.e) - v.d)
      [] v.t = "array" -> List([i \in 1..Len(v.l) |-> Denotes(v.l[i])])
      [] v.t = "object" ->
            Object([key \in {KeptKey(k) : k \in DOMAIN v.m} |->
                      Denotes(v.m[CHOOSE k \in DOMAIN v.m : KeptKey(k) = key])])
      [] OTHER -> v

-----------------------------------------------------------------------------
(* Where the library departs from JSON.  A number at the very end of a text
   is no number to it; it drops the first letter of an exponent and a second
   one after a minus sign; and it keeps a \u as it is spelled. *)
Nodes(v) ==
    {v} \cup (CASE v.t = "array" -> UNION {Nodes(v.l[i]) : i \in 1..Len(v.l)}
                [] v.t = "object" -> {Str(k) : k \in DOMAIN v.m}
                                     \cup UNION {Nodes(v.m[k]) : k \in DOMAIN v.m}
                [] OTHER -> {})

EndsInItsNumber(v, style) == v.t = "number" /\ style.gap = <<>>

ExponentDigits(e) == SelectSeq(e, LAMBDA x : x \in Digits)
LosesDigit(e) == e # <<>> /\ e[1] # "+"
LosesAll(v) == v.t = "number" /\ LosesDigit(v.e) /\ Len(ExponentDigits(v.e)) = 1

Throwing(v, style) == ~EndsInItsNumber(v, style) /\ \E x \in Nodes(v) : LosesAll(x)

Departs(v, style) ==
    \/ EndsInItsNumber(v, style)
    \/ \E x \in Nodes(v) :
          \/ LosesAll(x)
          \/ x.t = "number" /\ LosesDigit(x.e) /\ ExponentDigits(x.e)[1] # "0"
          \/ x.t = "string" /\ style.unicode /\ \E i \in 1..Len(x.s) : x.s[i] \in DOMAIN Code

(* What dump leaves of a value: doubles have six decimals. *)
RECURSIVE Rounded(_)
Rounded(v) ==
    CASE v.t = "float" -> Float(IF v.m < 0 THEN -Millionths(v) ELSE Millionths(v), -6)
      [] v.t = "array" -> List([i \in 1..Len(v.l) |-> Rounded(v.l[i])])
      [] v.t = "object" -> Object([k \in DOMAIN v.m |-> Rounded(v.m[k])])
      [] OTHER -> v

-----------------------------------------------------------------------------
(* Whether a text ends inside a string. *)
InString(s) ==
    LET open[i \in 0..Len(s)] ==
          IF i = 0 THEN "no"
          ELSE CASE open[i - 1] = "no"  -> IF s[i] = "\"" THEN "yes" ELSE "no"
                 [] open[i - 1] = "yes" -> IF s[i] = "\"" THEN "no"
                                           ELSE IF s[i] = "\\" THEN "escape" ELSE "yes"
                 [] open[i - 1] = "escape" -> "yes"
    IN  open[Len(s)] # "no"

(* Whether a text ends in a number as the library reads one, or in its
   exponent: what comes next belongs to it, be it the end of the text. *)
InNumber(s) ==
    \E i \in 1..Len(s) :
        LET behind == Skip(s, i, Digits \cup {"-", "."})
            letter == IF At(s, behind + 1) = "-" THEN behind + 2 ELSE behind + 1
        IN  /\ s[i] \in Digits \cup {"-"}
            /\ ~InString(SubSeq(s, 1, i - 1))
            /\ \/ behind > Len(s)
               \/ /\ s[behind] \in {"e", "E"}
                  /\ letter >= Len(s) \/ Skip(s, letter + 1, Digits) > Len(s)

(* Whether a quote that begins a string is taken for the end of a number. *)
TakesQuote(s) == \E i \in 1..Len(s) : s[i] = "\"" /\ InNumber(SubSeq(s, 1, i - 1))
=============================================================================
