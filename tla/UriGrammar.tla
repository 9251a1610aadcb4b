------------------------------ MODULE UriGrammar ------------------------------
(***************************************************************************)
(* The bytes of a URI as lib/served/request_parser.rl classes them, and    *)
(* the IP literals of a host, which the machine generated from it reads    *)
(* without a call in between (states 47 to 172).                           *)
(*                                                                         *)
(* The grammar writes 6( h16 ":" ) and "0"-"4" where six repetitions and a *)
(* range are meant.  To Ragel these are the byte with code 6 and then one  *)
(* h16 ":", and the "0" that is left of "0" without "4": the code does     *)
(* that, and so does this module.                                          *)
(***************************************************************************)
EXTENDS Integers, Sequences

digit == {"0", "1", "2", "3", "4", "5", "6", "7", "8", "9"}
upper == {"A", "B", "C", "D", "E", "F", "G", "H", "I", "J", "K", "L", "M", "N", "O",
          "P", "Q", "R", "S", "T", "U", "V", "W", "X", "Y", "Z"}
lower == {"a", "b", "c", "d", "e", "f", "g", "h", "i", "j", "k", "l", "m", "n", "o",
          "p", "q", "r", "s", "t", "u", "v", "w", "x", "y", "z"}
alpha == upper \cup lower
xdigit == digit \cup {"A", "B", "C", "D", "E", "F", "a", "b", "c", "d", "e", "f"}

sub_delims == {"!", "$", "&", "'", "(", ")", "*", "+", ",", ";", "="}
unreserved == alpha \cup digit \cup {"-", ".", "_", "~"}
pchar      == unreserved \cup sub_delims \cup {":", "@"}

SP == " "

(* The bytes with codes 2 to 6, and any byte without a name here. *)
Control == {"ctl2", "ctl3", "ctl4", "ctl5", "ctl6"}
Byte == pchar \cup Control \cup {"%", "/", "?", "#", "[", "]", SP, "CR", "LF", "other"}

-----------------------------------------------------------------------------
(* What stands between the separators of s. *)
Pieces(s, sep) ==
    LET at == {0, Len(s) + 1} \cup {i \in 1..Len(s) : s[i] = sep}
    IN  {SubSeq(s, x[1] + 1, x[2] - 1) :
            x \in {y \in at \X at : y[1] < y[2] /\ \A k \in at : k <= y[1] \/ k >= y[2]}}

Count(s, b) == Len(SelectSeq(s, LAMBDA x : x = b))

All(s, bytes) == \A i \in 1..Len(s) : s[i] \in bytes

Starts(s, b) == s # <<>> /\ s[1] = b

dec_octet(s) ==
    /\ All(s, digit)
    /\ \/ Len(s) = 1
       \/ Len(s) \in {2, 3} /\ s[1] = "1"
       \/ Len(s) = 3 /\ s[1] = "2" /\ s[2] = "0"
       \/ s = <<"2", "5", "0">>

IPv4address(s) == Count(s, ".") = 3 /\ \A x \in Pieces(s, ".") : dec_octet(x)

h16(s) == Len(s) \in 1..4 /\ All(s, xdigit)

(* n groups with a colon between any two. *)
Groups(s, n) == Count(s, ":") = n - 1 /\ \A x \in Pieces(s, ":") : h16(x)

ls32(s) == Groups(s, 2) \/ IPv4address(s)

(* h16 ":" ls32 *)
h16_ls32(s) == \E i \in 1..Len(s) : /\ s[i] = ":" /\ h16(SubSeq(s, 1, i - 1))
                                    /\ ls32(SubSeq(s, i + 1, Len(s)))

(* The byte that stands where a number of repetitions was meant. *)
Repeated(s, ctl) == Starts(s, ctl) /\ h16_ls32(Tail(s))

(* What may follow a "::" that has n groups before it. *)
AfterCompression(n, s) ==
    \/ n = 0              /\ Repeated(s, "ctl5")
    \/ n \in {0, 1}       /\ Repeated(s, "ctl4")
    \/ (n = 0 \/ n >= 2)  /\ Repeated(s, "ctl3")
    \/ (n = 0 \/ n >= 3)  /\ Repeated(s, "ctl2")
    \/ (n = 0 \/ n >= 4)  /\ h16_ls32(s)
    \/ (n = 0 \/ n >= 5)  /\ ls32(s)
    \/ (n = 0 \/ n >= 6)  /\ h16(s)
    \/ (n = 0 \/ n >= 7)  /\ s = <<>>

Compressed(s) ==
    \E i \in 1..Len(s) - 1 : \E n \in 0..i :
        /\ s[i] = ":" /\ s[i + 1] = ":"
        /\ IF n = 0 THEN i = 1 ELSE Groups(SubSeq(s, 1, i - 1), n)
        /\ AfterCompression(n, SubSeq(s, i + 2, Len(s)))

IPv6address(s) == Repeated(s, "ctl6") \/ Compressed(s)

IPvFuture(s) ==
    /\ Starts(s, "v")
    /\ \E i \in 3..Len(s) - 1 :
          /\ s[i] = "."
          /\ All(SubSeq(s, 2, i - 1), xdigit)
          /\ All(SubSeq(s, i + 1, Len(s)), unreserved \cup sub_delims \cup {":"})

IP_literal(s) == IPv6address(s) \/ IPvFuture(s)
=============================================================================
