----------------------------- MODULE RequestLine -----------------------------
(***************************************************************************)
(* The request line of an HTTP request, as the state machine generated     *)
(* from lib/served/request_parser.rl reads it: states 1 to 12, 19 to 46,   *)
(* 61 and 173 to 193 of request_parser::execute, with the callbacks that   *)
(* take the method, the parts of the URI and the query parameters out of   *)
(* it.  The header fields that follow are module RequestParser.            *)
(*                                                                         *)
(* One step takes one byte; a byte is a string of one letter, and every    *)
(* byte that the grammar has no name for behaves like "other".  Only an IP *)
(* literal is taken in one step: the machine calls nothing inside it.      *)
(***************************************************************************)
EXTENDS UriGrammar
SX == INSTANCE SequencesExt

CONSTANT RequestLines      (* what clients may send, see RequestLineType    *)

Known == {"GET", "POST", "HEAD", "PUT", "DELETE", "OPTIONS", "TRACE", "CONNECT",
          "BREW", "PATCH"}

(* A method is written as its name, one letter to a byte. *)
Spelling == [GET |-> <<"G", "E", "T">>, POST |-> <<"P", "O", "S", "T">>,
             HEAD |-> <<"H", "E", "A", "D">>, PUT |-> <<"P", "U", "T">>,
             DELETE |-> <<"D", "E", "L", "E", "T", "E">>,
             OPTIONS |-> <<"O", "P", "T", "I", "O", "N", "S">>,
             TRACE |-> <<"T", "R", "A", "C", "E">>,
             CONNECT |-> <<"C", "O", "N", "N", "E", "C", "T">>,
             BREW |-> <<"B", "R", "E", "W">>, PATCH |-> <<"P", "A", "T", "C", "H">>]

(* The method goes up to the first space, the target up to the next, and the
   version up to the end of the line. *)
RequestLineType == [method : Seq(Byte \ {SP}), target : Seq(Byte \ {SP}),
                    version : Seq(Byte \ {"CR", "LF"}), eol : {"CR", "LF"},
                    pairs : Seq(Seq(Byte) \X Seq(Byte))]   (* see QueryReadsBack *)

ASSUME RequestLinesAssumption == RequestLines \subseteq RequestLineType

VARIABLES
  sent,          (* the request line on its way                            *)
  p,             (* the bytes of it already taken                          *)
  cs,            (* the state of the machine                               *)
  hex,           (* hexadecimal digits that a "%" still asks for           *)
  mark,          (* the local mark of execute                              *)
  query_start,   (* its local query_start                                  *)
  method,        (* request::_method, "" until it is set                   *)
  url,           (* request::_destination                                  *)
  query,         (* request::query                                         *)
  version        (* request::_HTTP_version                                 *)

marks == <<mark, query_start>>
parts == <<method, url, version>>
lvars == <<sent, p, cs, hex, marks, parts, query>>

Line == sent.method \o <<SP>> \o sent.target \o <<SP>> \o sent.version \o <<sent.eol>>

c == Line[p + 1]

(* The bytes from a mark to the one being taken. *)
From(m) == SubSeq(Line, m + 1, p)

NoUrl == [uri |-> <<>>, path |-> <<>>, query |-> <<>>, fragment |-> <<>>]
NoParameters == [k \in {} |-> <<>>]

-----------------------------------------------------------------------------
(* Query strings: query_unescape and query_string. *)

(* The octets of the bytes that the models escape. *)
Octet == [b \in {SP, "%", "&", "=", "+", "/", "a"} |->
    CASE b = SP -> <<"2", "0">> [] b = "%" -> <<"2", "5">> [] b = "&" -> <<"2", "6">>
      [] b = "=" -> <<"3", "D">> [] b = "+" -> <<"2", "B">> [] b = "/" -> <<"2", "F">>
      [] b = "a" -> <<"6", "1">>]

query_escape(s) ==
    SX!FlattenSeq([i \in 1..Len(s) |-> IF s[i] \in unreserved THEN <<s[i]>>
                                       ELSE <<"%">> \o Octet[s[i]]])

(* Hexadecimal digits have the same value in either case. *)
dec_to_hex(d) == CASE d = "a" -> "A" [] d = "b" -> "B" [] d = "c" -> "C"
                   [] d = "d" -> "D" [] d = "e" -> "E" [] d = "f" -> "F" [] OTHER -> d

Decoded(h, l) ==
    LET those == {b \in DOMAIN Octet : Octet[b] = <<dec_to_hex(h), dec_to_hex(l)>>}
    IN  IF those = {} THEN "other" ELSE CHOOSE b \in those : TRUE

(* Mutant of query_unescape: the last three bytes are never decoded. *)
query_unescape_OneShort(s) ==
    LET read[i \in 1..Len(s) + 1] ==
          IF i > Len(s) THEN <<>>
          ELSE IF i + 3 <= Len(s) /\ s[i] = "%" /\ s[i + 1] \in xdigit /\ s[i + 2] \in xdigit
               THEN <<Decoded(s[i + 1], s[i + 2])>> \o read[i + 3]
          ELSE <<s[i]>> \o read[i + 1]
    IN  read[1]

query_unescape(s) ==
    LET read[i \in 1..Len(s) + 1] ==
          IF i > Len(s) THEN <<>>
          ELSE IF i + 2 <= Len(s) /\ s[i] = "%" /\ s[i + 1] \in xdigit /\ s[i + 2] \in xdigit
               THEN <<Decoded(s[i + 1], s[i + 2])>> \o read[i + 3]
          ELSE <<s[i]>> \o read[i + 1]
    IN  read[1]

(* What a client makes of its parameters, for QueryReadsBack.  A byte of them
   needs no escape, or has its octets above. *)
Escapable == unreserved \cup DOMAIN Octet
Pair(x) == query_escape(x[1]) \o <<"=">> \o query_escape(x[2])
QueryOf(pairs) ==
    SX!FlattenSeq([i \in 1..Len(pairs) |-> (IF i = 1 THEN <<>> ELSE <<"&">>) \o Pair(pairs[i])])

(* The first b of s from i on, or the place after its end. *)
Find(s, b, i) == LET at == {j \in i..Len(s) : s[j] = b}
                 IN  IF at = {} THEN Len(s) + 1 ELSE CHOOSE j \in at : \A k \in at : j <= k

(* The last value given to each key. *)
LastGiven(pairs) ==
    [k \in {pairs[i][1] : i \in 1..Len(pairs)} |->
        LET of == {i \in 1..Len(pairs) : pairs[i][1] = k}
        IN  pairs[CHOOSE i \in of : \A j \in of : j <= i][2]]

(* What stands between two "&" is a pair if it has a "=", and else nothing. *)
query_string(q) ==
    LET read[i \in 1..Len(q) + 2] ==
          IF i > Len(q) THEN <<>>
          ELSE LET pair == SubSeq(q, i, Find(q, "&", i) - 1)
                   div  == Find(pair, "=", 1)
               IN  (IF div > Len(pair) THEN <<>>
                    ELSE << <<query_unescape(SubSeq(pair, 1, div - 1)),
                              query_unescape(SubSeq(pair, div + 1, Len(pair)))>> >>)
                   \o read[i + Len(pair) + 1]
    IN  LastGiven(read[1])

-----------------------------------------------------------------------------
(* The machine.  Taken goes to a state with the byte taken. *)

Reading == /\ cs \notin {"cr", "line", "error"} /\ p < Len(Line)
           /\ sent' = sent

Taken(s) == cs' = s /\ p' = p + 1

KeepsParts == UNCHANGED parts

(* The method: up to twenty upper-case letters and digits. *)
MethodByte ==
    /\ cs = "method" /\ c \in upper \cup digit /\ p < 20
    /\ Taken("method")
    /\ UNCHANGED <<hex, marks>> /\ KeepsParts

(* method_from_string throws at a method it does not know, and parse takes
   that for a malformed request. *)
MethodEnds ==
    /\ cs = "method" /\ c = SP /\ p > 0
    /\ \/ \E m \in Known : /\ Spelling[m] = From(mark)
                           /\ method' = m /\ Taken("target")
       \/ /\ \A m \in Known : Spelling[m] # From(mark)
          /\ method' = method /\ Taken("error")
    /\ UNCHANGED <<hex, marks, url, version>>

(* request_path, and request_uri if no query follows; m is the mark. *)
PathEnds(m) ==
    /\ \/ c = SP /\ url' = [url EXCEPT !.path = From(m), !.uri = From(m)] /\ Taken("version")
       \/ c = "#" /\ url' = [url EXCEPT !.path = From(m), !.uri = From(m)] /\ Taken("fragment?")
       \/ c = "?" /\ url' = [url EXCEPT !.path = From(m)] /\ Taken("query?")
    /\ mark' = m
    /\ UNCHANGED <<hex, query_start, method, version>>

(* A byte of state s that the machine only steps over, or a "%" of it. *)
Plain(s) == Taken(s) /\ hex' = 0 /\ UNCHANGED marks /\ KeepsParts

Percent(s) == c = "%" /\ Taken(s) /\ hex' = 2 /\ UNCHANGED marks /\ KeepsParts

HexDigit == /\ hex > 0 /\ c \in xdigit
            /\ Taken(cs) /\ hex' = hex - 1
            /\ UNCHANGED marks /\ KeepsParts

TargetStart ==
    /\ cs = "target"
    /\ \/ PathEnds(p)
       \/ /\ \/ c \in alpha /\ Taken("scheme") /\ hex' = 0
             \/ c = "/" /\ Taken("slash") /\ hex' = 0
             \/ /\ c \in (unreserved \cup sub_delims \cup {"@"}) \ alpha
                /\ Taken("noscheme") /\ hex' = 0
             \/ c = "%" /\ Taken("noscheme") /\ hex' = 2
          /\ mark' = p /\ UNCHANGED query_start /\ KeepsParts

(* A segment that may turn out to be a scheme; after the colon the mark is
   set again, so that path and URI begin there. *)
Scheme ==
    /\ cs = "scheme"
    /\ \/ c \in alpha \cup digit \cup {"+", "-", "."} /\ Plain("scheme")
       \/ c \in ({"_", "~", "@"} \cup sub_delims) \ {"+"} /\ Plain("noscheme")
       \/ Percent("noscheme")
       \/ c = "/" /\ Plain("path")
       \/ c = ":" /\ Plain("hier")
       \/ PathEnds(mark)

(* Mutant of Hier: the scheme stays in the path. *)
Hier_SchemeStays ==
    /\ cs = "hier"
    /\ \/ PathEnds(mark)
       \/ /\ \/ c = "/" /\ Taken("slash") /\ hex' = 0
             \/ c \in pchar /\ Taken("path") /\ hex' = 0
             \/ c = "%" /\ Taken("path") /\ hex' = 2
          /\ UNCHANGED marks /\ KeepsParts

Hier ==
    /\ cs = "hier"
    /\ \/ PathEnds(p)
       \/ /\ \/ c = "/" /\ Taken("slash") /\ hex' = 0
             \/ c \in pchar /\ Taken("path") /\ hex' = 0
             \/ c = "%" /\ Taken("path") /\ hex' = 2
          /\ mark' = p /\ UNCHANGED query_start /\ KeepsParts

FirstSegment ==
    /\ cs = "noscheme" /\ hex = 0
    /\ \/ c \in pchar \ {":"} /\ Plain("noscheme")
       \/ Percent("noscheme")
       \/ c = "/" /\ Plain("path")
       \/ PathEnds(mark)

(* After the first "/": a second one begins an authority. *)
Slash ==
    /\ cs = "slash"
    /\ \/ c = "/" /\ Plain("authority")
       \/ c \in pchar /\ Plain("path")
       \/ Percent("path")
       \/ PathEnds(mark)

Path ==
    /\ cs = "path" /\ hex = 0
    /\ \/ c \in pchar \cup {"/"} /\ Plain("path")
       \/ Percent("path")
       \/ PathEnds(mark)

-----------------------------------------------------------------------------
(* The authority, which stays in the path. *)

LeavesAuthority == \/ c = "/" /\ Plain("path")
                   \/ PathEnds(mark)

(* An IP literal, from its "[" to its "]". *)
Literal ==
    LET close == Find(Line, "]", p + 1)
    IN  /\ c = "[" /\ close <= Len(Line)
        /\ IP_literal(SubSeq(Line, p + 2, close - 1))
        /\ cs' = "literal" /\ p' = close
        /\ hex' = 0 /\ UNCHANGED marks /\ KeepsParts

(* User information or the name of a host: an "@" or a ":" will tell. *)
Authority ==
    /\ cs \in {"authority", "name"} /\ hex = 0
    /\ \/ c \in unreserved \cup sub_delims /\ Plain("name")
       \/ Percent("name")
       \/ c = ":" /\ Plain("port?")
       \/ c = "@" /\ Plain("host")
       \/ cs = "authority" /\ Literal
       \/ LeavesAuthority

(* Mutant of PortOrUser: whatever follows a colon may be a port. *)
PortOrUser_AnyPort ==
    /\ cs = "port?"
    /\ \/ c \in unreserved \cup sub_delims /\ Plain("port?")
       \/ c = ":" /\ Plain("user")
       \/ Percent("user")
       \/ c = "@" /\ Plain("host")
       \/ LeavesAuthority

(* After a colon: the digits of a port, or else user information. *)
PortOrUser ==
    /\ cs = "port?"
    /\ \/ c \in digit /\ Plain("port?")
       \/ c \in ((unreserved \ digit) \cup sub_delims \cup {":"}) /\ Plain("user")
       \/ Percent("user")
       \/ c = "@" /\ Plain("host")
       \/ LeavesAuthority

User ==
    /\ cs = "user" /\ hex = 0
    /\ \/ c \in unreserved \cup sub_delims \cup {":"} /\ Plain("user")
       \/ Percent("user")
       \/ c = "@" /\ Plain("host")

Host ==
    /\ cs \in {"host", "regname"} /\ hex = 0
    /\ \/ c \in unreserved \cup sub_delims /\ Plain("regname")
       \/ Percent("regname")
       \/ c = ":" /\ Plain("port")
       \/ cs = "host" /\ Literal
       \/ LeavesAuthority

Port == /\ cs = "port"
        /\ \/ c \in digit /\ Plain("port")
           \/ LeavesAuthority

LiteralEnds == /\ cs = "literal"
               /\ \/ c = ":" /\ Plain("port")
                  \/ LeavesAuthority

-----------------------------------------------------------------------------
(* Query, fragment, version. *)

(* Mutant of QueryBytes: a second "?" is no part of a query. *)
QueryBytes_OneMark == pchar \cup {"/"}

QueryBytes == pchar \cup {"/", "?"}

(* query_string and request_uri; q is where the query began.  Parameters has
   the other half of query_string. *)
QueryEnds(q) ==
    /\ \/ c = SP /\ Taken("version")
       \/ c = "#" /\ Taken("fragment?")
    /\ url' = [url EXCEPT !.query = From(q), !.uri = From(mark)]
    /\ query_start' = q
    /\ UNCHANGED <<hex, mark, method, version>>

QueryStart ==
    /\ cs = "query?"
    /\ \/ QueryEnds(p)
       \/ /\ \/ c \in QueryBytes /\ hex' = 0
             \/ c = "%" /\ hex' = 2
          /\ Taken("query") /\ query_start' = p
          /\ UNCHANGED mark /\ KeepsParts

Query ==
    /\ cs = "query" /\ hex = 0
    /\ \/ c \in QueryBytes /\ Plain("query")
       \/ Percent("query")
       \/ QueryEnds(query_start)

FragmentStart ==
    /\ cs = "fragment?"
    /\ \/ /\ \/ c \in QueryBytes /\ hex' = 0
             \/ c = "%" /\ hex' = 2
          /\ Taken("fragment") /\ KeepsParts
       \/ /\ c = SP /\ Taken("version")
          /\ url' = [url EXCEPT !.fragment = <<>>]
          /\ UNCHANGED <<hex, method, version>>
    /\ mark' = p /\ UNCHANGED query_start

Fragment ==
    /\ cs = "fragment" /\ hex = 0
    /\ \/ c \in QueryBytes /\ Plain("fragment")
       \/ Percent("fragment")
       \/ /\ c = SP /\ Taken("version")
          /\ url' = [url EXCEPT !.fragment = From(mark)]
          /\ UNCHANGED <<hex, marks, method, version>>

Name == <<"H", "T", "T", "P", "/", "1", ".">>

Version ==
    \/ /\ cs = "version" /\ c = "H" /\ Taken("http") /\ mark' = p
       /\ UNCHANGED <<hex, query_start>> /\ KeepsParts
    \/ /\ cs = "http" /\ p - mark < 7 /\ c = Name[p - mark + 1] /\ Plain("http")
    \/ /\ cs = "http" /\ p - mark = 7 /\ c \in {"0", "1"} /\ Plain("http")
    \/ /\ cs = "http" /\ p - mark = 8
       /\ \/ c = "CR" /\ Taken("cr")
          \/ c = "LF" /\ Taken("line")
       /\ version' = From(mark)
       /\ UNCHANGED <<hex, marks, method, url>>

-----------------------------------------------------------------------------
Moves == \/ MethodByte \/ MethodEnds \/ TargetStart \/ Scheme \/ Hier \/ FirstSegment
         \/ Slash \/ Path \/ Authority \/ PortOrUser \/ User \/ Host \/ Port
         \/ LiteralEnds \/ QueryStart \/ Query \/ FragmentStart \/ Fragment \/ Version
         \/ HexDigit

Parameters ==
    query' = IF cs \in {"query?", "query"} /\ cs' \in {"version", "fragment?"}
             THEN query_string(url'.query) ELSE query

(* A byte that the state has no transition for. *)
Reject == Reading /\ ~ENABLED Moves /\ Taken("error") /\ UNCHANGED <<hex, marks, parts, query>>

execute == (Reading /\ Moves /\ Parameters) \/ Reject

LineInit == /\ sent \in RequestLines
            /\ p = 0 /\ cs = "method" /\ hex = 0 /\ mark = 0 /\ query_start = 0
            /\ method = "" /\ url = NoUrl /\ query = NoParameters /\ version = <<>>

-----------------------------------------------------------------------------
(* Properties. *)

States == {"method", "target", "scheme", "hier", "noscheme", "slash", "path", "authority",
           "name", "port?", "user", "host", "regname", "port", "literal", "query?",
           "query", "fragment?", "fragment", "version", "http", "cr", "line", "error"}

LineTypeOK ==
    /\ p \in 0..Len(Line) /\ cs \in States
    /\ hex \in 0..2 /\ mark \in 0..p /\ query_start \in 0..p
    /\ method \in Known \cup {""}
    /\ url \in [{"uri", "path", "query", "fragment"} -> Seq(Byte)]

Uri == INSTANCE UriReference

(* A request line with parameters has them in its query. *)
ASSUME PairsAssumption ==
    \A l \in RequestLines : l.pairs # <<>> =>
        /\ l.pairs \in Seq(Seq(Escapable) \X Seq(Escapable))
        /\ Uri!Parts(l.target).query = QueryOf(l.pairs)

Accepted == cs \in {"cr", "line"}
Rejected == cs = "error"

(* What the grammar allows: a method it knows, a target that the components
   of RFC 3986 make up, each of bytes it may hold, and version 1.0 or 1.1.
   A host in brackets counts as one whatever is between them: there the
   grammar of the code is not that of RFC 3986. *)
Legal == /\ \E m \in Known : Spelling[m] = sent.method
         /\ Uri!LegalTarget(sent.target)
         /\ sent.version \in {Name \o <<"0">>, Name \o <<"1">>}

(* The hundred and eighty states take no path through the bytes that leaves
   the grammar: a request line they accept is legal, down to the escapes and
   the port, the inside of an IP literal aside; execute, states 1 to 12, 19 to
   46, 61 and 173 to 193. *)
AcceptedIsLegal == Accepted => Legal

(* And they miss no path that stays in it: what they refuse is not legal, or
   has an IP literal; execute, the same states. *)
LegalIsAccepted == Rejected => ~Legal \/ Uri!Has(sent.target, "[")

(* The parts of the URI that the callbacks cut out between two marks are the
   components of the target, whichever of them are there and however long it
   took to tell a scheme from a first segment, or a port from a password; the
   actions request_path, request_uri, query_string and fragment. *)
ComponentsAsWritten == Accepted => url = Uri!Parts(sent.target)

(* What a client puts into the query with query_escape, key by key, is what
   request.query holds, and of a key given twice the last value; the loop of
   query_string with query_unescape. *)
QueryReadsBack == Accepted /\ sent.pairs # <<>> => query = LastGiven(sent.pairs)
=============================================================================
