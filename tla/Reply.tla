-------------------------------- MODULE Reply --------------------------------
(***************************************************************************)
(* The response of one connection, from the moment a request is being read *)
(* to the message that is written: what connection::do_read does with the  *)
(* one response object it has, the handler in between, and the exceptions  *)
(* that leave the handler.                                                 *)
(*                                                                         *)
(* The ghosts follow the comments of response.hpp: said is the response    *)
(* that they promise, and orderly is false from the first call on whose    *)
(* effect they do not describe.                                            *)
(***************************************************************************)
EXTENDS Response

CONSTANTS
  OwnTexts,         (* what a handler writes                               *)
  OwnTypes,         (* the content types it sets                           *)
  MaxCalls          (* bound on the calls a handler makes                  *)

Statuses == {100, 200, 400, 404, 405, 413, 418, 500}

ASSUME OwnAssumption == OwnTexts \subseteq Texts /\ OwnTypes \subseteq Atoms
ASSUME StockAssumption ==
    /\ \A s \in DOMAIN StockText : StockText[s] \in Texts
    /\ {"text/plain", "served"} \subseteq Atoms
ASSUME MaxCallsAssumption == MaxCalls \in Nat

VARIABLES
  phase,            (* how far the exchange has come                       *)
  response,         (* connection::_response                               *)
  wire,             (* the messages written so far                         *)
  asked,            (* a 100 Continue was among them                       *)
  calls,            (* how many calls the handler has made                 *)
  said,             (* ghost: the response the documentation promises      *)
  fresh,            (* ghost: the body was set and not yet written to      *)
  orderly,          (* ghost: the documentation covers every call so far   *)
  typed             (* ghost: this handling has set or removed the type    *)

ghosts == <<said, fresh, orderly, typed>>
rvars == <<phase, response, wire, asked, calls, ghosts>>

-----------------------------------------------------------------------------
(* The calls, each with what its comment says of it. *)

SetBody(text) ==
    /\ response' = set_body(response, text)
    /\ said' = [said EXCEPT !.body = text] /\ fresh' = TRUE
    /\ UNCHANGED <<orderly, typed>>

Append_(text) ==
    /\ response' = Write(response, text)
    /\ said' = [said EXCEPT !.body = @ \o text] /\ fresh' = FALSE
    /\ orderly' = (orderly /\ (fresh => said.body = <<>>))
    /\ UNCHANGED typed

SetType(k, v) ==
    /\ response' = set_header(response, k, v)
    /\ said' = [said EXCEPT !.type = v]
    /\ typed' = TRUE
    /\ UNCHANGED <<fresh, orderly>>

SetOther(k, v) ==
    /\ response' = set_header(response, k, v)
    /\ UNCHANGED ghosts

SetStatus(n) ==
    /\ response' = set_status(response, n)
    /\ said' = [said EXCEPT !.status = n]
    /\ UNCHANGED <<fresh, orderly, typed>>

(* The whole response is replaced; what is set after it goes nowhere. *)
SetResponse(text) ==
    /\ response' = set_response(response, text)
    /\ said' = [said EXCEPT !.cached = text]
    /\ UNCHANGED <<fresh, orderly, typed>>

Size ==
    /\ response' = body_size(response)
    /\ fresh' = FALSE
    /\ UNCHANGED <<said, orderly, typed>>

(* "Back to their default values": it is not so for a body or a cached
   response that there already is. *)
Clear ==
    /\ response' = clear(response)
    /\ said' = [status |-> 200, type |-> "", body |-> <<>>, cached |-> NoText]
    /\ orderly' = (orderly /\ said.body = <<>> /\ said.cached = NoText)
    /\ typed' = TRUE
    /\ UNCHANGED fresh

Stock(n) ==
    LET text == IF n \in DOMAIN StockText THEN StockText[n] ELSE <<>>
    IN  /\ response' = stock_reply(n, response)
        /\ said' = [said EXCEPT !.status = n, !.type = "text/plain", !.body = @ \o text]
        /\ fresh' = (fresh /\ text = <<>>)
        /\ orderly' = (orderly /\ (fresh /\ text # <<>> => said.body = <<>>))
        /\ typed' = TRUE

(* One status and one stock reply stand for the others; a handler that sets
   status 100 itself is left out. *)
OwnCall ==
    /\ phase = "handling" /\ calls < MaxCalls
    /\ \/ \E text \in OwnTexts : SetBody(text) \/ Append_(text) \/ SetResponse(text)
       \/ \E v \in OwnTypes : \E k \in {"Content-Type", "CONTENT-TYPE"} : SetType(k, v)
       \/ \E v \in OwnTypes : \E k \in {"Content-Length", "Server"} : SetOther(k, v)
       \/ SetStatus(418)
       \/ Size
       \/ Clear
       \/ Stock(404)
    /\ calls' = calls + 1
    /\ UNCHANGED <<phase, wire, asked>>

-----------------------------------------------------------------------------
(* connection::do_read and do_write. *)

(* The message that do_write sends, and what to_buffer leaves behind. *)
Sends(r) == /\ wire' = Append(wire, to_buffer(r))
            /\ response' = Buffered(r)

(* Mutant of Continue: the response is cleared once the message is sent. *)
Continue_Clears ==
    /\ phase = "reading" /\ ~asked
    /\ wire' = Append(wire, to_buffer(stock_reply(100, response)))
    /\ response' = clear(Buffered(stock_reply(100, response)))
    /\ asked' = TRUE
    /\ said' = [said EXCEPT !.status = 100, !.type = "text/plain"] /\ fresh' = FALSE
    /\ UNCHANGED <<phase, calls, orderly, typed>>

(* EXPECT_CONTINUE, which the parser says at most once. *)
Continue ==
    /\ phase = "reading" /\ ~asked
    /\ Sends(stock_reply(100, response))
    /\ asked' = TRUE
    /\ said' = [said EXCEPT !.status = 100, !.type = "text/plain"] /\ fresh' = FALSE
    /\ UNCHANGED <<phase, calls, orderly, typed>>

(* ERROR or REJECTED_REQUEST_SIZE. *)
Refuse(n) ==
    /\ phase = "reading"
    /\ Sends(stock_reply(n, response))
    /\ said' = [said EXCEPT !.status = n, !.type = "text/plain",
                            !.body = IF n \in DOMAIN StockText THEN StockText[n] ELSE <<>>]
    /\ typed' = TRUE /\ phase' = "done"
    /\ UNCHANGED <<asked, calls, fresh, orderly>>

(* FINISHED: multiplexer::handler starts from an empty 200.  Wrappers that
   touch the response before it, or never call it, are left out. *)
Begin ==
    /\ phase = "reading"
    /\ response' = set_body(set_status(response, 200), <<>>)
    /\ said' = [said EXCEPT !.status = 200, !.body = <<>>] /\ fresh' = TRUE
    /\ phase' = "handling"
    /\ UNCHANGED <<wire, asked, calls, orderly, typed>>

Returns ==
    /\ phase = "handling"
    /\ Sends(response)
    /\ phase' = "done"
    /\ UNCHANGED <<asked, calls, ghosts>>

(* A handler, a plugin or the multiplexer throws a request_error. *)
RequestError(n, what) ==
    /\ phase = "handling"
    /\ Sends(set_body(set_header(set_status(response, n), "Content-Type", "text/plain"), what))
    /\ said' = [said EXCEPT !.status = n, !.type = "text/plain", !.body = what]
    /\ typed' = TRUE /\ phase' = "done"
    /\ UNCHANGED <<asked, calls, fresh, orderly>>

(* Anything else that is thrown: the reply is added to what was written. *)
Throws ==
    /\ phase = "handling"
    /\ Sends(stock_reply(500, response))
    /\ said' = [said EXCEPT !.status = 500, !.type = "text/plain", !.body = @ \o StockText[500]]
    /\ orderly' = (orderly /\ (fresh => said.body = <<>>))
    /\ typed' = TRUE /\ phase' = "done"
    /\ UNCHANGED <<asked, calls, fresh>>

-----------------------------------------------------------------------------
Unset == [status |-> 200, type |-> "", body |-> <<>>, cached |-> NoText]

ReplyInit ==
        /\ phase = "reading"
        /\ response = Fresh /\ wire = <<>> /\ asked = FALSE /\ calls = 0
        /\ said = Unset /\ fresh = FALSE /\ orderly = TRUE /\ typed = FALSE

ReplyNext ==
        \/ Continue
        \/ \E n \in {400, 413} : Refuse(n)
        \/ Begin
        \/ OwnCall
        \/ Returns
        \/ \E n \in {404, 405, 418} : \E text \in OwnTexts : RequestError(n, text)
        \/ Throws

ReplySpec == ReplyInit /\ [][ReplyNext]_rvars

-----------------------------------------------------------------------------
(* Properties. *)

ResponseType ==
    [status : Statuses, headers : [Folded -> Header \cup {NoHeader}],
     body : Texts, put : Nat, cache : Texts \cup {NoText}]

Message ==
    [cached : Texts \cup {NoText}, status : Statuses \cup {0},
     headers : [Folded -> Header \cup {NoHeader}], length : Int, body : Texts]

(* The next write goes into the body or to its end. *)
ResponseOK(r) == r \in ResponseType /\ r.put <= Len(r.body)

ReplyTypeOK ==
    /\ phase \in {"reading", "handling", "done"}
    /\ ResponseOK(response) /\ wire \in Seq(Message)
    /\ asked \in BOOLEAN /\ calls \in 0..MaxCalls
    /\ said \in [status : Statuses, type : Atoms \cup {""}, body : Texts,
                 cached : Texts \cup {NoText}]
    /\ fresh \in BOOLEAN /\ orderly \in BOOLEAN /\ typed \in BOOLEAN

Final == wire[Len(wire)]

(* What is written is what the comments of response.hpp say of the calls
   that were made, in the order they were made: the last status, the last
   Content-Type under any spelling of the key, the body last set with all
   that was appended to it, or the cached response; set_body, operator<<,
   set_header and to_buffer.  It holds as long as nothing is appended to a
   body that was set to something, and nothing cleared that was written:
   there the code departs from its comments. *)
AsDocumented ==
    phase = "done" /\ orderly =>
        IF said.cached # NoText THEN Final.cached = said.cached ELSE
        /\ Final.cached = NoText
        /\ Final.status = said.status /\ Final.body = said.body
        /\ Final.headers["content-type"].value = said.type

(* One response object serves the 100 Continue and the final response: the
   Content-Type of the first is in the second exactly when the handling has
   not set one of its own; stock_reply at do_read's EXPECT_CONTINUE. *)
TypeOfContinue ==
    phase = "done" /\ ~typed /\ Final.cached = NoText =>
        (Final.headers["content-type"] # NoHeader <=> asked)

(* The client gets one final response, after at most one 100 Continue, and
   nothing after it; the length it is told is that of the body it gets. *)
OneFinal ==
    /\ Len(wire) = (IF asked THEN 1 ELSE 0) + (IF phase = "done" THEN 1 ELSE 0)
    /\ asked => wire[1].status = 100 /\ wire[1].length = 0 /\ wire[1].body = <<>>
    /\ phase = "done" => Final.status # 100
    /\ \A i \in 1..Len(wire) : wire[i].length \in {-1, Len(wire[i].body)}
=============================================================================
