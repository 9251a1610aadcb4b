------------------------------- MODULE Exchange -------------------------------
(***************************************************************************)
(* One request and its answer, through everything between: the request     *)
(* line (RequestLine), a 100 Continue if it was asked for, the endpoints   *)
(* of include/http_server.h and the JSON they read (JsonText), and the     *)
(* response they fill (Reply).                                             *)
(*                                                                         *)
(* How the bytes arrive is RequestParser's, how a route is found in any    *)
(* table Multiplexer's, and what a line does to the interpreter            *)
(* LineReader's.  Routes of its own stand for what another program that    *)
(* uses the framework does with its response.                              *)
(***************************************************************************)
EXTENDS RequestLine, JsonReference, Reply

CONSTANTS
  Requests(_),      (* what may follow a request line                      *)
  OwnRoutes,        (* first segments of the routes of other handlers      *)
  Stacks            (* stacks of variables the interpreter may have        *)

(* A body is the whole of a document that the client means by tree and
   writes in some style, the beginning of one that was cut short, or any
   text. *)
ASSUME RequestsAssumption ==
    \A l \in RequestLines : \A r \in Requests(l) :
        /\ r.expects \in BOOLEAN /\ r.text \in Texts /\ r.kind \in {"whole", "cut", "any"}
        /\ r.kind = "whole" => r.text = Document(r.tree, r.style)
        /\ r.kind = "cut" => LET text == Document(r.tree, r.style)
                             IN  r.text \in {SubSeq(text, 1, n) : n \in 0..Len(text) - 1}

VARIABLES
  request,          (* what the client says after its request line         *)
  handler,          (* the handler called, "" before that                  *)
  doc,              (* what Load has returned to it                        *)
  listed            (* the stack that memory has listed, if it was called  *)

evars == <<request, handler, doc, listed>>
vars == <<lvars, rvars, evars>>

Compact == [gap |-> <<>>, unicode |-> FALSE]
NoRequest == [expects |-> FALSE, text |-> <<>>, kind |-> "none", tree |-> Null, style |-> Compact]
NoDoc == [v |-> Null, at |-> 0, f |-> "unread"]

-----------------------------------------------------------------------------
(* request_parser_impl::parse, its verdicts on the whole request. *)

(* The header fields, and the body as far as it is sent. *)
Follows == /\ phase = "reading" /\ Accepted /\ request = NoRequest
           /\ request' \in Requests(sent)
           /\ UNCHANGED <<lvars, rvars, handler, doc, listed>>

Sent == Accepted /\ request # NoRequest

(* Only these methods have a body. *)
Body == IF method \in {"PUT", "POST", "PATCH"} THEN request.text ELSE <<>>

ReadsLine == phase = "reading" /\ execute /\ UNCHANGED <<rvars, evars>>

Malformed == phase = "reading" /\ Rejected /\ Refuse(400)

(* The client waits for a 100 Continue before it sends its body. *)
Asked == Sent /\ request.expects /\ Body # <<>> /\ Continue

AskedForNothing == Sent /\ request.expects /\ Body = <<>> /\ Refuse(400)

(* The limit counts bytes of the whole request; RequestParser has it. *)
TooLarge == Sent /\ Refuse(413)

Finished == Sent /\ (request.expects => asked) /\ Begin

Verdict == /\ Malformed \/ Asked \/ AskedForNothing \/ TooLarge \/ Finished
           /\ UNCHANGED <<lvars, evars>>

-----------------------------------------------------------------------------
(* multiplexer::handler, with the routes of InitializeEndpoints: all of them
   are one segment long. *)

Word(m, s) == [method |-> m, segment |-> s]

Endpoints == [NewLine     |-> Word("POST", <<"n", "e", "w", "l", "i", "n", "e">>),
              ClearLines  |-> Word("GET", <<"c", "l", "e", "a", "r">>),
              MemorySaved |-> Word("GET", <<"m", "e", "m", "o", "r", "y">>)]

(* The first segment: what stands between the first slashes and the next.
   Of an empty path split_path may also see an empty segment (Multiplexer
   has both), which no route here has either. *)
split_path(path) ==
    LET from == {i \in 1..Len(path) : path[i] # "/" /\ \A j \in 1..i - 1 : path[j] = "/"}
    IN  IF from = {} THEN <<>>
        ELSE LET i == CHOOSE i \in from : TRUE
             IN  SubSeq(path, i, Find(path, "/", i) - 1)

Segment == split_path(url.path)

Matches(h) == Endpoints[h].segment = Segment

Dispatch ==
    /\ phase = "handling" /\ handler = ""
    /\ \/ \E h \in DOMAIN Endpoints :
             /\ Matches(h) /\ Endpoints[h].method = method
             /\ handler' = h /\ UNCHANGED rvars
       \/ /\ Segment \in OwnRoutes
          /\ handler' = "own" /\ UNCHANGED rvars
       \/ \E h \in DOMAIN Endpoints :
             /\ Matches(h) /\ Endpoints[h].method # method
             /\ RequestError(405, <<"Method not allowed">>) /\ UNCHANGED handler
       \/ /\ \A h \in DOMAIN Endpoints : ~Matches(h)
          /\ Segment \notin OwnRoutes
          /\ RequestError(404, <<"Path not found">>) /\ UNCHANGED handler
    /\ UNCHANGED <<lvars, request, doc, listed>>

-----------------------------------------------------------------------------
(* The handlers.  A handler that has returned is "returned". *)

(* Of the replies to a line, only the text that a cout of a text prints is
   told apart: it is a piece of the line, and it is not escaped. *)
Cout(text) == <<"{", "\"", "mensaje", "\"", ":", "\"">> \o text \o <<"\"", "}">>

leerLinea(linea) ==
    IF Len(linea) >= 2 /\ linea[1] = "cout << (" /\ linea[Len(linea)] = ");"
    THEN Cout(SubSeq(linea, 2, Len(linea) - 1))
    ELSE <<"{", "\"", "mensaje", "\"", ":", "\"", "...", "\"", "}">>

(* A variable of the stack, which LineReader says more of: its name is a
   piece of a line, and a char may be any byte, read from a number too. *)
Line_(v) == <<"{", "\"", "memoryLine", "\"", " ", ":", " ", "\"", v.tipo, " ">> \o v.nombre
            \o <<" ", "=", " ", v.valor, " ", "(0x)", "\"", "}", ",">>

(* Mutant of memory: the last comma stays. *)
memory_WithComma(stack) ==
    <<"{", "\"", "memoria", "\"", " ", ":", " ", "[">>
    \o SX!FlattenSeq([i \in 1..Len(stack) |-> Line_(stack[i])]) \o <<"]", "}">>

(* The last character goes, which is the last comma if there is one. *)
memory(stack) ==
    SX!Front(<<"{", "\"", "memoria", "\"", " ", ":", " ", "[">>
             \o SX!FlattenSeq([i \in 1..Len(stack) |-> Line_(stack[i])])) \o <<"]", "}">>

Loads == /\ handler = "NewLine" /\ phase = "handling" /\ doc = NoDoc
         /\ doc' = Load(Body)
         /\ UNCHANGED <<lvars, rvars, request, handler, listed>>

Linea == ToString(Index(doc.v, <<"line">>))

(* Mutant of NewLine: the line is not asked for, an empty one is read. *)
NewLine_AnyLine ==
    /\ handler = "NewLine" /\ phase = "handling" /\ doc.f = ""
    /\ Append_(leerLinea(Linea))
    /\ handler' = "returned" /\ UNCHANGED <<listed, phase, wire, asked, calls>>

NewLine ==
    /\ handler = "NewLine" /\ phase = "handling" /\ doc.f = ""
    /\ IF Linea # <<>> THEN Append_(leerLinea(Linea)) ELSE Stock(400)
    /\ handler' = "returned" /\ UNCHANGED <<listed, phase, wire, asked, calls>>

(* Load throws; where it reads outside of the text, nothing is known of what
   follows. *)
NewLineThrows == /\ handler = "NewLine" /\ doc.f = "throw"
                 /\ Throws /\ UNCHANGED <<listed, handler>>

ClearLines == /\ handler = "ClearLines" /\ phase = "handling"
              /\ Append_(leerLinea(<<>>))
              /\ handler' = "returned" /\ UNCHANGED <<listed, phase, wire, asked, calls>>

MemorySaved == /\ handler = "MemorySaved" /\ phase = "handling"
               /\ \E stack \in Stacks : listed' = {stack} /\ Append_(memory(stack))
               /\ handler' = "returned" /\ UNCHANGED <<phase, wire, asked, calls>>

OwnHandler == /\ handler = "own"
              /\ \/ OwnCall
                 \/ Returns
                 \/ \E text \in OwnTexts : RequestError(418, text)
                 \/ Throws
              /\ UNCHANGED <<listed, handler>>

Handles == /\ \/ NewLine \/ NewLineThrows \/ ClearLines \/ MemorySaved \/ OwnHandler
              \/ handler = "returned" /\ Returns /\ UNCHANGED <<listed, handler>>
           /\ UNCHANGED <<lvars, request, doc>>

-----------------------------------------------------------------------------
Init == /\ LineInit /\ ReplyInit
        /\ request = NoRequest
        /\ handler = "" /\ doc = NoDoc /\ listed = {}

Next == ReadsLine \/ Follows \/ Verdict \/ Dispatch \/ Loads \/ Handles

Spec == Init /\ [][Next]_vars

-----------------------------------------------------------------------------
(* Properties. *)

(* Types of the line, the response and the handler; the two parts do not
   tell the parser apart from the response: execute and do_read. *)
TypeOK == /\ LineTypeOK /\ ReplyTypeOK
          /\ handler \in DOMAIN Endpoints \cup {"", "own", "returned"}
          /\ doc.f \in {"", "past", "throw", "unread"}
          /\ listed = {} \/ \E stack \in Stacks : listed = {stack}

Whole == request.kind = "whole" /\ Body # <<>>

(* Load reads a whole document to its end and to the value the client means,
   however it is nested, escaped and spaced and whatever the numbers in it,
   except exactly where Departs says: a document that is a number with
   nothing behind it is null, a number whose exponent loses a digit that
   counts is another number, or std::stol throws if no digit is left, and a
   \u stays as it is; parse_next and what it calls. *)
DocumentsReadBack ==
    doc # NoDoc /\ Whole =>
        /\ doc.f = "throw" <=> Throwing(request.tree, request.style)
        /\ (/\ doc.f = "" /\ doc.v = Denotes(request.tree)
            /\ consume_ws(request.text, doc.at) = Len(request.text) + 1)
           <=> ~Departs(request.tree, request.style)

(* What dump writes of a value that was read is read as the same value with
   its doubles rounded to six decimals, and as null if it is just a number:
   it is the same only because keys are kept escaped; dump, parse_object. *)
DumpReadsBack ==
    doc.f = "" /\ Whole =>
        Load(dump(doc.v)).v = IF doc.v.t \in {"int", "float"} THEN Null ELSE Rounded(doc.v)

(* The parser reads outside the text only if that ends inside a string or in
   a number or its exponent, or if it is no JSON at all and a quote was taken
   for the end of a number; never in a document that is whole: consume_ws,
   parse_string, parse_number. *)
StaysInside ==
    doc.f = "past" =>
        /\ request.kind # "whole"
        /\ \/ InString(request.text) \/ InNumber(request.text)
           \/ request.kind = "any" /\ TakesQuote(request.text)

(* What a client prints with cout is what it reads in the reply exactly if it
   has spelled no letter of it as a \u: the text is decoded by Load, escaped
   again by ToString, cut out of the line by the interpreter and pasted into
   the reply unescaped; NewLine and imprimir. *)
EchoReadsBack ==
    phase = "done" /\ Whole /\ handler = "returned" =>
        LET line == Index(request.tree, <<"line">>)
        IN  line.t = "string" /\ Len(line.s) >= 2 /\ line.s[1] = "cout << ("
              /\ line.s[Len(line.s)] = ");" =>
            (Load(Final.body) = Read(Object([k \in {<<"mensaje">>} |->
                                              Str(SubSeq(line.s, 2, Len(line.s) - 1))]),
                                     Len(Final.body) + 1)
             <=> ~Departs(line, request.style))

(* What memory lists reads back as the variables, the youngest first and
   with their names as the client wrote them, if there is one to list and no
   char is a quote or a backslash, and in no other case; lineReader::memory,
   whose reply no one escapes. *)
MemoryReadsBack ==
    phase = "done" => \A stack \in listed :
        LET Unescaped(text) == parse_string(<<"\"">> \o text \o <<"\"">>, 1).v.s
            Shown(v) == Object([k \in {<<"memoryLine">>} |->
                          Str(<<v.tipo, " ">> \o Unescaped(v.nombre)
                              \o <<" ", "=", " ", v.valor, " ", "(0x)">>)])
            meant == Object([k \in {<<"memoria">>} |->
                          List([i \in 1..Len(stack) |-> Shown(stack[i])])])
        IN  Load(Final.body) = Read(meant, Len(Final.body) + 1)
            <=> /\ stack # <<>>
                /\ \A i \in 1..Len(stack) : stack[i].valor \notin {"\"", "\\"}

(* The status says what became of the request, from the line and the tree it
   was sent with: the parser's verdicts, the routes, and in NewLine a 200
   exactly if the document is an object with a line that is not empty, unless
   it has an exponent that std::stol throws at, which is a 500.  Of a document
   that was cut off, only a line that came whole is obeyed. *)
StatusOfRequest ==
    LET path == Uri!Parts(sent.target).path
        to   == {h \in DOMAIN Endpoints :
                      \E n \in 0..Len(path) :
                          /\ All(SubSeq(path, 1, n), {"/"})
                          /\ Uri!Before(SubSeq(path, n + 1, Len(path)), {"/"}) = Endpoints[h].segment}
        line == Index(request.tree, <<"line">>)
    IN  phase = "done" /\ handler # "own" /\ Final.status # 413 =>
        CASE Rejected \/ (request.expects /\ Body = <<>>) -> Final.status = 400
          [] ~Rejected /\ ~(request.expects /\ Body = <<>>) ->
               IF to = {} THEN Final.status = 404
               ELSE IF \A h \in to : Spelling[Endpoints[h].method] # sent.method
                    THEN Final.status = 405
               ELSE IF "NewLine" \notin to THEN Final.status = 200
               ELSE /\ Whole => Final.status =
                                  IF Throwing(request.tree, request.style) THEN 500
                                  ELSE IF line.t = "string" /\ line.s # <<>> THEN 200 ELSE 400
                    /\ request.kind = "cut" /\ Final.status = 200 =>
                           line.t = "string" /\ Linea = json_escape(line.s)
=============================================================================
