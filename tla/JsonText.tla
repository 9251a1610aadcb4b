------------------------------- MODULE JsonText -------------------------------
(***************************************************************************)
(* The reader and writer of lib/SimpleJSON/json.hpp.                       *)
(*                                                                         *)
(* A text is a sequence of one-letter strings; "true", "false" and "null"  *)
(* are one letter each, as parse_bool and parse_null compare them whole.   *)
(* A value is a record tagged with its JSON::Class.  A long is the integer *)
(* it holds; a double is m * 10^k, the decimal that it is nearest to, with *)
(* no zero at the end of m: one value for each number.  The runs have only *)
(* short numbers, so that their doubles are told apart; the sign of a zero *)
(* is left out, and so are doubles too large for one.                      *)
(*                                                                         *)
(* Every parse_... takes the text and an offset, from 1, to the value read *)
(* and the offset after it.  The text may be read one place beyond its     *)
(* end, where c_str has a NUL, and no further: f says "past" if it was,    *)
(* and "throw" if std::stol or std::stod found no number they can hold.    *)
(*                                                                         *)
(* In the runs no word stands right behind a number or a backslash, and no *)
(* double lies halfway between two of six decimals.                        *)
(***************************************************************************)
EXTENDS Integers, Sequences

CONSTANT MaxLong          (* the greatest long                               *)

ASSUME MaxLongAssumption == MaxLong \in Nat

Space == {" ", "\t", "\n", "VT", "\f", "\r"}                    (* isspace *)
DigitOf == <<"0", "1", "2", "3", "4", "5", "6", "7", "8", "9">>
Digits == {DigitOf[i] : i \in 1..10}
Hex == Digits \cup {"a", "b", "c", "d", "e", "f", "A", "B", "C", "D", "E", "F"}
EndsNumber == Space \cup {",", "]", "}"}

Null     == [t |-> "null"]
Long(n)  == [t |-> "int", n |-> n]
Float(m, k) == LET zeros == CHOOSE z \in 0..9 : /\ m % (10^z) = 0
                                                /\ z = 9 \/ m % (10^(z + 1)) # 0
               IN  IF m = 0 THEN [t |-> "float", m |-> 0, k |-> 0]
                   ELSE [t |-> "float", m |-> m \div (10^zeros), k |-> k + zeros]
Bool(b)  == [t |-> "bool", b |-> b]
Str(s)   == [t |-> "string", s |-> s]
List(l)  == [t |-> "array", l |-> l]
Object(m) == [t |-> "object", m |-> m]
NoMembers == [k \in {} |-> Null]

Read(v, at) == [v |-> v, at |-> at, f |-> ""]
Fails(f)    == [v |-> Null, at |-> 0, f |-> f]

-----------------------------------------------------------------------------
(* Escaping, and ToString, which escapes what parse_string has decoded. *)

Escaped == [ch \in {"\"", "\\", "BS", "\f", "\n", "\r", "\t"} |->
    CASE ch = "BS" -> "b" [] ch = "\f" -> "f" [] ch = "\n" -> "n"
      [] ch = "\r" -> "r" [] ch = "\t" -> "t" [] OTHER -> ch]

(* Mutant of json_escape: a backslash is taken to be escaped already. *)
json_escape_OnlyQuotes(s) ==
    LET out[i \in 0..Len(s)] ==
          IF i = 0 THEN <<>>
          ELSE out[i - 1] \o (IF s[i] \in DOMAIN Escaped \ {"\\"}
                              THEN <<"\\", Escaped[s[i]]>> ELSE <<s[i]>>)
    IN  out[Len(s)]

json_escape(s) ==
    LET out[i \in 0..Len(s)] ==
          IF i = 0 THEN <<>>
          ELSE out[i - 1] \o (IF s[i] \in DOMAIN Escaped
                              THEN <<"\\", Escaped[s[i]]>> ELSE <<s[i]>>)
    IN  out[Len(s)]

(* Mutant of ToString: the text as it was read. *)
ToString_Raw(v) == IF v.t = "string" THEN v.s ELSE <<>>

ToString(v) == IF v.t = "string" THEN json_escape(v.s) ELSE <<>>

(* operator[]: anything but an object becomes an empty one first. *)
Index(v, key) ==
    IF v.t = "object" /\ key \in DOMAIN v.m THEN v.m[key] ELSE Null

-----------------------------------------------------------------------------
At(s, i) == IF i <= Len(s) THEN s[i] ELSE "NUL"
Past(s, i) == i > Len(s) + 1

(* The first place from i on that the set does not hold. *)
Skip(s, i, set) == CHOOSE j \in i..Len(s) + 1 :
                      /\ At(s, j) \notin set
                      /\ \A k \in i..j - 1 : At(s, k) \in set

consume_ws(s, i) == Skip(s, i, Space)

(* Mutant of Char: after a backslash, everything stands for itself. *)
Char_Verbatim(ch) == <<ch>>

(* What a letter after a backslash stands for; an escape nobody knows is
   dropped behind its backslash. *)
Char(ch) == CASE ch = "/" -> <<ch>>
              [] ch = "b" -> <<"BS">>
              [] ch = "f" -> <<"\f">>
              [] ch = "n" -> <<"\n">>
              [] ch = "r" -> <<"\r">>
              [] ch = "t" -> <<"\t">>
              [] ch \in {"\"", "\\"} -> <<ch>>
              [] OTHER -> <<"\\">>

(* A \u is kept as it is; a broken one ends the string, empty, there. *)
parse_string(s, i) ==
    LET Goes(text, r) == IF r.f = "" /\ r.v.t = "string"
                         THEN [r EXCEPT !.v.s = text \o @] ELSE r
        read[j \in i + 1..Len(s) + 2] ==
          IF j > Len(s) THEN Fails("past")
          ELSE IF s[j] = "\"" THEN Read(Str(<<>>), j + 1)
          ELSE IF s[j] # "\\" THEN Goes(<<s[j]>>, read[j + 1])
          ELSE IF At(s, j + 1) # "u" THEN Goes(Char(At(s, j + 1)), read[j + 2])
          ELSE IF \A k \in 2..5 : At(s, j + k) \in Hex
               THEN Goes(SubSeq(s, j, j + 5), read[j + 6])
               ELSE Read([t |-> "broken"], j + 1)
        r == read[i + 1]
    IN  IF r.v.t = "broken" THEN [r EXCEPT !.v = Str(<<>>)] ELSE r

-----------------------------------------------------------------------------
(* What stol and stod take of a text: a sign and digits, and where a point
   is taken, one point and more digits. *)
Prefix(val, point) ==
    LET from == IF val # <<>> /\ val[1] = "-" THEN 2 ELSE 1
        mid  == Skip(val, from, Digits)
    IN  SubSeq(val, 1, (IF At(val, mid) \in point THEN Skip(val, mid + 1, Digits) ELSE mid) - 1)

HasDigit(n) == \E i \in 1..Len(n) : n[i] \in Digits

(* The number that some digits are, without and with the sign before it. *)
Natural(n) ==
    LET d == SelectSeq(n, LAMBDA x : x \in Digits)
        to[i \in 0..Len(d)] ==
          IF i = 0 THEN 0
          ELSE 10 * to[i - 1] + (CHOOSE x \in 0..9 : DigitOf[x + 1] = d[i])
    IN  to[Len(d)]
Signed(n) == IF n # <<>> /\ n[1] = "-" THEN -Natural(n) ELSE Natural(n)
Decimals(n) == LET point == Skip(n, 1, Digits \cup {"-"})
               IN  IF point > Len(n) THEN 0 ELSE Len(n) - point

stol(val) == Signed(Prefix(val, {}))
HoldsLong(val) == HasDigit(Prefix(val, {})) /\ stol(val) \in -MaxLong - 1..MaxLong

IsDouble(val) == \E i \in 1..Len(val) : val[i] = "."

(* What stol and stod do not throw at. *)
Holds(val) == IF IsDouble(val) THEN HasDigit(Prefix(val, {"."})) ELSE HoldsLong(val)

(* stod(val), or stol(val), times pow(10, exp). *)
Product(val, exp) ==
    LET n == Prefix(val, {"."}) IN Float(Signed(n), exp - Decimals(n))

(* The letter behind an "e" is read and not looked at, whatever it is, and
   behind a "-" one more. *)
Exponent(s, val, j) ==
    LET neg  == At(s, j + 1) = "-"
        from == IF neg THEN j + 3 ELSE j + 2
        end  == Skip(s, from, Digits)
        exp  == (IF neg THEN <<"-">> ELSE <<>>) \o SubSeq(s, from, end - 1)
    IN  IF Past(s, from) THEN Fails("past")
        ELSE IF At(s, end) \notin EndsNumber THEN Read(Null, end + 1)
        ELSE IF ~HoldsLong(exp) \/ ~Holds(val) THEN Fails("throw")
        ELSE Read(Product(val, stol(exp)), end)

(* A number has to be followed by what may follow one: at the end of the
   text it is an error, and so is anything else, which is taken with it. *)
parse_number(s, i) ==
    LET j   == Skip(s, i, Digits \cup {"-", "."})
        val == SubSeq(s, i, j - 1)
    IN  IF At(s, j) \in {"e", "E"} THEN Exponent(s, val, j)
        ELSE IF At(s, j) \notin EndsNumber THEN Read(Null, j + 1)
        ELSE IF ~Holds(val) THEN Fails("throw")
        ELSE IF IsDouble(val) THEN Read(Product(val, 0), j)
        ELSE Read(Long(stol(val)), j)

(* "t", "f" and "n" alone begin a word that is none: an error, in place. *)
parse_bool(s, i) == CASE s[i] = "true" -> Read(Bool(TRUE), i + 1)
                      [] s[i] = "false" -> Read(Bool(FALSE), i + 1)
                      [] OTHER -> Read(Null, i)

parse_null(s, i) == IF s[i] = "null" THEN Read(Null, i + 1) ELSE Read(Null, i)

-----------------------------------------------------------------------------
RECURSIVE parse_next(_, _), members(_, _, _), elements(_, _, _)

(* The members of an object from i on, after those in m.  What is no member
   ends the object with the members before it, and the text is read on from
   there; a key that is no string is the empty key. *)
members(s, i, m) ==
    LET key   == parse_next(s, i)
        colon == consume_ws(s, key.at)
        value == parse_next(s, colon + 1)
        all   == [k \in DOMAIN m \cup {ToString(key.v)} |->
                     IF k = ToString(key.v) THEN value.v ELSE m[k]]
        next  == consume_ws(s, value.at)
    IN  IF key.f # "" THEN key
        ELSE IF Past(s, key.at) THEN Fails("past")
        ELSE IF At(s, colon) # ":" THEN Read(Object(m), colon)
        ELSE IF value.f # "" THEN value
        ELSE IF Past(s, value.at) THEN Fails("past")
        ELSE CASE At(s, next) = "," -> members(s, next + 1, all)
               [] At(s, next) = "}" -> Read(Object(all), next + 1)
               [] OTHER -> Read(Object(all), next)

parse_object(s, i) ==
    LET first == consume_ws(s, i + 1)
    IN  IF At(s, first) = "}" THEN Read(Object(NoMembers), first + 1)
        ELSE members(s, first, NoMembers)

(* Mutant of elements: what ends it in error is stepped over. *)
elements_OverError(s, i, l) ==
    LET value == parse_next(s, i)
        next  == consume_ws(s, value.at)
    IN  IF value.f # "" THEN value
        ELSE IF Past(s, value.at) THEN Fails("past")
        ELSE CASE At(s, next) = "," -> elements(s, next + 1, Append(l, value.v))
               [] At(s, next) = "]" -> Read(List(Append(l, value.v)), next + 1)
               [] OTHER -> Read(List(<<>>), next + 1)

(* The elements of an array from i on, after those in l; what is no element
   empties the array. *)
elements(s, i, l) ==
    LET value == parse_next(s, i)
        next  == consume_ws(s, value.at)
    IN  IF value.f # "" THEN value
        ELSE IF Past(s, value.at) THEN Fails("past")
        ELSE CASE At(s, next) = "," -> elements(s, next + 1, Append(l, value.v))
               [] At(s, next) = "]" -> Read(List(Append(l, value.v)), next + 1)
               [] OTHER -> Read(List(<<>>), next)

parse_array(s, i) ==
    LET first == consume_ws(s, i + 1)
    IN  IF At(s, first) = "]" THEN Read(List(<<>>), first + 1)
        ELSE elements(s, first, <<>>)

(* What begins no value is null, and stays to be read again. *)
parse_next(s, i) ==
    LET j == consume_ws(s, i)
        value == At(s, j)
    IN  CASE value = "[" -> parse_array(s, j)
          [] value = "{" -> parse_object(s, j)
          [] value = "\"" -> parse_string(s, j)
          [] value \in {"true", "false", "t", "f"} -> parse_bool(s, j)
          [] value \in {"null", "n"} -> parse_null(s, j)
          [] value \in Digits \cup {"-"} -> parse_number(s, j)
          [] OTHER -> Read(Null, j)

Load(s) == parse_next(s, 1)

-----------------------------------------------------------------------------
(* dump, with its indentation left out: keys are written as they are kept. *)
RECURSIVE Numeral(_), dump(_), dump_list(_, _), dump_map(_, _)

Numeral(n) == IF n < 10 THEN <<DigitOf[n + 1]>>
              ELSE Append(Numeral(n \div 10), DigitOf[(n % 10) + 1])

(* A number of which the last d digits are decimals. *)
Fixed(negative, n, d) ==
    (IF negative THEN <<"-">> ELSE <<>>) \o Numeral(n \div (10^d))
    \o (IF d = 0 THEN <<>> ELSE <<".">>)
    \o [i \in 1..d |-> DigitOf[((n \div (10^(d - i))) % 10) + 1]]

Magnitude(n) == IF n < 0 THEN -n ELSE n

(* A double, without its sign, in millionths: the nearest number of them. *)
Millionths(v) ==
    IF v.k >= -6 THEN Magnitude(v.m) * 10^(v.k + 6)
    ELSE LET unit == 10^(-6 - v.k) IN (2 * Magnitude(v.m) + unit) \div (2 * unit)

to_string(v) == IF v.t = "int" THEN Fixed(v.n < 0, Magnitude(v.n), 0)
                ELSE Fixed(v.m < 0, Millionths(v), 6)

Quoted(s) == <<"\"">> \o s \o <<"\"">>

dump_list(l, i) ==
    IF i > Len(l) THEN <<>>
    ELSE (IF i = 1 THEN <<>> ELSE <<",", " ">>) \o dump(l[i]) \o dump_list(l, i + 1)

dump_map(m, keys) ==
    IF keys = {} THEN <<>>
    ELSE LET k == CHOOSE k \in keys : TRUE
         IN  <<"\n">> \o Quoted(k) \o <<" ", ":", " ">> \o dump(m[k])
             \o (IF keys = {k} THEN <<>> ELSE <<",">>) \o dump_map(m, keys \ {k})

dump(v) ==
    CASE v.t = "null" -> <<"null">>
      [] v.t = "bool" -> IF v.b THEN <<"true">> ELSE <<"false">>
      [] v.t \in {"int", "float"} -> to_string(v)
      [] v.t = "string" -> Quoted(json_escape(v.s))
      [] v.t = "array" -> <<"[">> \o dump_list(v.l, 1) \o <<"]">>
      [] v.t = "object" -> <<"{">> \o dump_map(v.m, DOMAIN v.m) \o <<"\n", "}">>
=============================================================================
