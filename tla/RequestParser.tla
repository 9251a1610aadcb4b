---------------------------- MODULE RequestParser ----------------------------
(***************************************************************************)
(* How lib/served/request_parser_impl.cpp and the state machine generated  *)
(* from request_parser.rl put a request together from the chunks that TCP  *)
(* delivers.  connection::do_read calls parse once per chunk and acts on   *)
(* the status it returns.                                                  *)
(*                                                                         *)
(* A request is a stream of bytes that keep what the parser looks at: the  *)
(* request line is one byte, since parse never executes it in two parts;   *)
(* header names and values are short runs of bytes that know what they     *)
(* belong to; a "bad" byte is one that no state accepts.                   *)
(***************************************************************************)
EXTENDS Integers, Sequences, FiniteSets, SequencesExt

CONSTANTS
  Requests,          (* what clients may send, see Request                 *)
  MaxRequestBytes,   (* _max_req_size_bytes, 0 for no limit                *)
  MaxInt, SizeT,     (* the largest int, and how many values a size_t has  *)
  CleanCuts,         (* a chunk that ends a line also ends with a line     *)
  ClientWaits        (* a client that asks to, waits for 100 Continue      *)

Methods == {"GET", "POST"}     (* POST also stands for PUT and PATCH       *)
Names   == {"type", "length", "expect", "other"}

Request == [method : Methods, headers : Seq(Names), length : Int, sent : Nat,
            eol : {"CRLF", "LF"}, bad : BOOLEAN]

ASSUME RequestsAssumption == Requests \subseteq Request
ASSUME LimitAssumption ==
    MaxRequestBytes \in Nat /\ CleanCuts \in BOOLEAN /\ ClientWaits \in BOOLEAN
ASSUME WidthAssumption == MaxInt \in Nat /\ SizeT \in Nat /\ SizeT > 2 * MaxInt + 1

VARIABLES
  request,           (* what the client is sending                         *)
  delivered,         (* how many of its bytes were passed to parse         *)
  status,            (* request_parser_impl::_status                       *)
  cs,                (* the state of the machine                           *)
  fields,            (* the header fields stored, in order                 *)
  truncated,         (* _truncated_header_bytes                            *)
  body_expected,     (* _body_expected                                     *)
  body_stream,       (* _body_stream                                       *)
  body,              (* the body given to the request                      *)
  bytes_parsed       (* _bytes_parsed                                      *)

pvars == <<request, delivered, status, cs, fields, truncated, body_expected,
           body_stream, body, bytes_parsed>>

Statuses == {"ERROR", "READ_HEADER", "EXPECT_CONTINUE", "READ_BODY", "FINISHED",
             "REJECTED_REQUEST_SIZE"}

-----------------------------------------------------------------------------
(* The bytes of a request. *)

Byte(k, of, i) == [kind |-> k, of |-> of, i |-> i]

(* A byte of the syntax itself: "sep" is the colon. *)
Plain(k) == Byte(k, "none", 0)

Eol(r) == IF r.eol = "LF" THEN <<Plain("LF")>>
                          ELSE <<Plain("CR"), Plain("LF")>>

Name(n)  == <<Byte("name", n, 1), Byte("name", n, 2)>>
Value(n) == <<Byte("value", n, 1), Byte("value", n, 2)>>

Line(r, n) == Name(n) \o <<Plain("sep"), Plain("space")>> \o Value(n) \o Eol(r)

Header(r) == <<Byte("start", r.method, 0)>> \o Eol(r)
             \o FlattenSeq([j \in 1..Len(r.headers) |-> Line(r, r.headers[j])])
             \o (IF r.bad THEN <<Plain("bad")>> ELSE <<>>) \o Eol(r)

Body(r) == [i \in 1..r.sent |-> Byte("body", "none", i)]

Stream == Header(request) \o Body(request)

Breaks(data) == \E p \in 1..Len(data) : data[p].kind \in {"CR", "LF"}

-----------------------------------------------------------------------------
(* execute: the machine, from the request line on.  Its marks are local to
   one call, and offsets into that call's data. *)

Goes(s, k) ==
    CASE s = "start" /\ k = "start"                              -> "version"
      [] s \in {"version", "colon", "value"} /\ k = "CR"         -> "cr"
      [] s \in {"version", "colon", "value"} /\ k = "LF"         -> "line"
      [] s = "cr" /\ k = "LF"                                    -> "line"
      [] s \in {"line", "blank"} /\ k = "LF"                     -> "done"
      [] s = "line" /\ k = "CR"                                  -> "blank"
      [] s = "line" /\ k = "name"                                -> "name"
      [] s = "name" /\ k \in {"name", "CR", "LF"}                -> "name"
      [] s = "blank" /\ k \in {"name", "CR"}                     -> "name"
      [] s \in {"name", "blank"} /\ k = "sep"                    -> "colon"
      [] s = "colon" /\ k = "space"                              -> "colon"
      [] s = "colon" /\ k \notin {"space", "CR", "LF", "bad"}    -> "value"
      [] s = "value" /\ k \notin {"CR", "LF", "bad"}             -> "value"
      [] OTHER                                                   -> "error"

(* Mutant of Marked: the start of the value is taken for that of the field. *)
Marked_MarkForField(m, s, k, p) ==
    [field_start |-> IF s \in {"line", "colon"} THEN p - 1 ELSE m.field_start,
     field_len   |-> IF s \in {"name", "blank"} /\ k = "sep" THEN p - 1 - m.field_start
                                                             ELSE m.field_len,
     mark        |-> IF s = "colon" THEN p - 1 ELSE m.mark]

(* The marks after the p-th byte, of kind k, is taken in state s. *)
Marked(m, s, k, p) ==
    [field_start |-> IF s = "line" THEN p - 1 ELSE m.field_start,
     field_len   |-> IF s \in {"name", "blank"} /\ k = "sep" THEN p - 1 - m.field_start
                                                             ELSE m.field_len,
     mark        |-> IF s = "colon" THEN p - 1 ELSE m.mark]

(* The field that ends at the p-th byte: the bytes between the marks. *)
http_field(data, m, p) ==
    [name  |-> SubSeq(data, m.field_start + 1, m.field_start + m.field_len),
     value |-> SubSeq(data, m.mark + 1, p - 1)]

Step(data, e, p) ==
    LET k == data[p].kind
        m == Marked(e.marks, e.cs, k, p)
    IN  IF e.cs \in {"done", "error"} THEN e
        ELSE [cs |-> Goes(e.cs, k), marks |-> m, nread |-> p,
              fields |-> IF e.cs \in {"colon", "value"} /\ k \in {"CR", "LF"}
                         THEN Append(e.fields, http_field(data, m, p)) ELSE e.fields]

execute(data) ==
    LET run[p \in 0..Len(data)] ==
          IF p = 0
          THEN [cs |-> cs, fields |-> fields, nread |-> 0,
                marks |-> [mark |-> 0, field_start |-> 0, field_len |-> 0]]
          ELSE Step(data, run[p - 1], p)
    IN  run[Len(data)]

-----------------------------------------------------------------------------
(* Reading the header fields back.  The fields of one name are joined by
   commas, from the first that is not empty on: header has the places of those
   that make up the text of name n. *)

Named(fs, n) == {j \in 1..Len(fs) : fs[j].name = Name(n)}

header(fs, n) == {j \in Named(fs, n) : \E i \in Named(fs, n) : i <= j /\ fs[i].value # <<>>}

requested_continue(fs) ==
    \E j \in 1..Len(fs) : header(fs, "expect") = {j} /\ fs[j].value = Value("expect")

(* The first of several lengths is the one that counts. *)
FirstIsLength(fs) ==
    \E j \in header(fs, "length") : /\ fs[j].value = Value("length")
                                    /\ \A i \in header(fs, "length") : j <= i

(* Mutant of expecting_body: a length of any size is taken as it is. *)
expecting_body_AnyInt(fs) ==
    IF /\ request.method = "POST"
       /\ header(fs, "type") # {} /\ FirstIsLength(fs)
    THEN request.length % SizeT ELSE 0

(* stoi reads the first of several lengths; what is no number, or no int,
   counts as 0, and a size_t takes a negative one for a huge one. *)
expecting_body(fs) ==
    IF /\ request.method = "POST"
       /\ header(fs, "type") # {} /\ FirstIsLength(fs)
       /\ request.length \in -MaxInt - 1..MaxInt
    THEN request.length % SizeT ELSE 0

-----------------------------------------------------------------------------
(* parse, on the next n bytes of the stream. *)

Chunk(n) == SubSeq(Stream, delivered + 1, delivered + n)

Whole(n) == truncated \o Chunk(n)

(* Mutant of Deliver: the count starts again with every chunk. *)
Deliver_LastOnly(n) ==
    /\ delivered' = delivered + n
    /\ bytes_parsed' = n
    /\ UNCHANGED request

Deliver(n) == /\ delivered' = delivered + n
              /\ bytes_parsed' = bytes_parsed + n
              /\ UNCHANGED request

TooLong == MaxRequestBytes > 0 /\ bytes_parsed' > MaxRequestBytes

RejectSize(n) ==
    /\ Deliver(n)
    /\ TooLong
    /\ status' = "REJECTED_REQUEST_SIZE"
    /\ UNCHANGED <<cs, fields, truncated, body_expected, body_stream, body>>

(* Mutant of parse_body: what comes after the body is taken with it. *)
parse_body_Unbounded(data, expected) ==
    /\ body_expected' = IF Len(data) > expected THEN 0 ELSE expected - Len(data)
    /\ \/ body_expected' = 0 /\ status' = "FINISHED"
          /\ body' = body_stream \o data /\ body_stream' = <<>>
       \/ body_expected' > 0 /\ status' = "READ_BODY"
          /\ body_stream' = body_stream \o data /\ UNCHANGED body

(* Mutant of parse_body: the status is left alone until the body is whole. *)
parse_body_StillExpecting(data, expected) ==
    LET taken == IF Len(data) > expected THEN SubSeq(data, 1, expected) ELSE data IN
    /\ body_expected' = expected - Len(taken)
    /\ \/ body_expected' = 0 /\ status' = "FINISHED"
          /\ body' = body_stream \o taken /\ body_stream' = <<>>
       \/ body_expected' > 0 /\ status' = (IF status = "READ_HEADER" THEN "READ_BODY" ELSE status)
          /\ body_stream' = body_stream \o taken /\ UNCHANGED body

parse_body(data, expected) ==
    LET taken == IF Len(data) > expected THEN SubSeq(data, 1, expected) ELSE data IN
    /\ body_expected' = expected - Len(taken)
    /\ \/ body_expected' = 0 /\ status' = "FINISHED"
          /\ body' = body_stream \o taken /\ body_stream' = <<>>
       \/ body_expected' > 0 /\ status' = "READ_BODY"
          /\ body_stream' = body_stream \o taken /\ UNCHANGED body

(* No line break in sight: the bytes wait for the next chunk. *)
Hold(n) ==
    /\ Deliver(n)
    /\ ~TooLong /\ status = "READ_HEADER" /\ ~Breaks(Whole(n))
    /\ truncated' = Whole(n)
    /\ UNCHANGED <<status, cs, fields, body_expected, body_stream, body>>

(* After execute, by where the machine has come to. *)
HeaderGoesOn(e) == /\ e.cs \notin {"done", "error"}
                   /\ UNCHANGED <<status, body_expected, body_stream, body>>

HeaderFails(e) == /\ e.cs = "error"
                  /\ status' = "ERROR"
                  /\ UNCHANGED <<body_expected, body_stream, body>>

(* A 100 Continue is asked for: what came after the header is not looked at. *)
HeaderExpects(e) ==
    /\ e.cs = "done" /\ requested_continue(e.fields)
    /\ body_expected' = expecting_body(e.fields)
    /\ status' = IF body_expected' = 0 THEN "ERROR" ELSE "EXPECT_CONTINUE"
    /\ UNCHANGED <<body_stream, body>>

HeaderThenBody(e, data) ==
    /\ e.cs = "done" /\ ~requested_continue(e.fields) /\ expecting_body(e.fields) # 0
    /\ parse_body(SubSeq(data, e.nread + 1, Len(data)), expecting_body(e.fields))

HeaderIsAll(e) ==
    /\ e.cs = "done" /\ ~requested_continue(e.fields) /\ expecting_body(e.fields) = 0
    /\ body_expected' = 0
    /\ status' = "FINISHED"
    /\ UNCHANGED <<body_stream, body>>

Execute(n) ==
    /\ Deliver(n)
    /\ ~TooLong /\ status = "READ_HEADER" /\ Breaks(Whole(n))
    /\ truncated' = <<>>
    /\ LET data == Whole(n)
           e    == execute(data)
       IN  /\ cs' = e.cs /\ fields' = e.fields
           /\ \/ HeaderGoesOn(e) \/ HeaderFails(e) \/ HeaderExpects(e)
              \/ HeaderThenBody(e, data) \/ HeaderIsAll(e)

ReadBody(n) ==
    /\ Deliver(n)
    /\ ~TooLong /\ status \in {"EXPECT_CONTINUE", "READ_BODY"}
    /\ parse_body(Chunk(n), body_expected)
    /\ UNCHANGED <<cs, fields, truncated>>

parse(n) == RejectSize(n) \/ Hold(n) \/ Execute(n) \/ ReadBody(n)

-----------------------------------------------------------------------------
(* The client, and connection::do_read, which goes on reading until parse
   says the request is over. *)

Over == status \in {"FINISHED", "ERROR", "REJECTED_REQUEST_SIZE"}

(* The cuts that leave no header field in two calls of execute: a chunk
   with a line break in it ends with one, or after the header. *)
Clean(n) == Breaks(Chunk(n)) => \/ Stream[delivered + n].kind \in {"CR", "LF"}
                                \/ delivered + n > Len(Header(request))

(* What the client has sent once it may wait for a 100 Continue. *)
Available == IF ClientWaits /\ status = "READ_HEADER"
                /\ \E j \in 1..Len(request.headers) : request.headers[j] = "expect"
             THEN Len(Header(request)) ELSE Len(Stream)

Init == /\ request \in Requests
        /\ delivered = 0 /\ bytes_parsed = 0
        /\ status = "READ_HEADER" /\ cs = "start"
        /\ fields = <<>> /\ truncated = <<>>
        /\ body_expected = 0 /\ body_stream = <<>> /\ body = <<>>

Next == \E n \in 1..Available - delivered :
            ~Over /\ (CleanCuts => Clean(n)) /\ parse(n)

Spec == Init /\ [][Next]_pvars

-----------------------------------------------------------------------------
(* Properties. *)

(* What the request says, read off its structure: only an int is a length,
   and a body of a negative one never ends. *)
Has(n) == \E j \in 1..Len(request.headers) : request.headers[j] = n

BodyAnnounced ==
    CASE \/ request.method # "POST" \/ ~Has("type") \/ ~Has("length")
         \/ request.length > MaxInt \/ request.length < -(MaxInt + 1) -> 0
      [] OTHER -> IF request.length < 0 THEN SizeT + request.length ELSE request.length

TypeOK ==
    /\ request \in Requests /\ delivered \in 0..Len(Stream) /\ bytes_parsed \in Nat
    /\ status \in Statuses
    /\ cs \in {"start", "version", "line", "name", "colon", "value", "cr", "blank",
               "done", "error"}
    /\ body_expected \in 0..BodyAnnounced
    /\ Len(body) + Len(body_stream) <= BodyAnnounced

Asks == Cardinality({j \in 1..Len(request.headers) : request.headers[j] = "expect"}) = 1

(* The outcome does not depend on how TCP cut the stream: a request that was
   read is the one that was sent, with every header field in its order and
   the body its length announces, and only a malformed request, or one that
   asks to wait with no body to send, is refused. *)
AnyCut ==
    /\ status = "FINISHED" =>
          /\ ~request.bad
          /\ fields = [j \in 1..Len(request.headers) |->
                [name |-> Name(request.headers[j]), value |-> Value(request.headers[j])]]
          /\ BodyAnnounced <= request.sent
          /\ body = SubSeq(Body(request), 1, BodyAnnounced)
    /\ status = "ERROR" => request.bad \/ (Asks /\ BodyAnnounced = 0)

(* Nobody waits for ever: once every byte was delivered, the parser has come
   to a verdict, unless the body is shorter than its length says, or that is
   negative; and it never asks for bytes that are not to come. *)
AllDecided ==
    delivered = Len(Stream) =>
        \/ Over
        \/ BodyAnnounced > request.sent /\ status \in {"READ_BODY", "EXPECT_CONTINUE"}

(* A request is refused for its size exactly when the bytes of its chunks,
   held back or not, add up to more than the limit. *)
SizeKept == (status = "REJECTED_REQUEST_SIZE") <=>
                (MaxRequestBytes > 0 /\ delivered > MaxRequestBytes)

(* The parser asks for a 100 Continue once, before the first byte of the
   body: connection::do_read would answer with another at every chunk. *)
AskedOnce == [][/\ status = "EXPECT_CONTINUE" => status' # "EXPECT_CONTINUE"
                /\ status' = "EXPECT_CONTINUE" => body_stream' = <<>>]_pvars
=============================================================================
