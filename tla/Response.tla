------------------------------ MODULE Response ------------------------------
(***************************************************************************)
(* served::response, lib/served/response.cpp, as operators from a response *)
(* to the response after the call.  The body is a string stream: put is    *)
(* where the next write to it goes.  Texts are sequences of atoms, enough  *)
(* of them to tell what is kept, overwritten and appended.                 *)
(***************************************************************************)
EXTENDS Integers, Sequences

CONSTANTS
  Atoms,            (* what texts are made of                              *)
  NoText            (* no cached response                                  *)

Texts == Seq(Atoms)

ASSUME NoTextAssumption == NoText \notin Texts

(* Header fields by the spelling of their key; tolower makes them one. *)
Keys == {"Content-Type", "CONTENT-TYPE", "Content-Length", "Server"}
tolower == [k \in Keys |-> CASE k \in {"Content-Type", "CONTENT-TYPE"} -> "content-type"
                             [] k = "Content-Length" -> "content-length"
                             [] k = "Server" -> "server"]
Folded == {"content-type", "content-length", "server"}

Header == [key : Keys, value : Atoms]
NoHeader == [key |-> "", value |-> ""]

Fresh == [status  |-> 200,
          headers |-> [f \in Folded |-> NoHeader],
          body    |-> <<>>,
          put     |-> 0,
          cache   |-> NoText]

-----------------------------------------------------------------------------
(* The body stream keeps its text: clear() of a stream resets its flags. *)
clear(r) == [r EXCEPT !.status = 200, !.headers = Fresh.headers]

(* Mutant of set_header: the spelling of the key is kept apart. *)
set_header_FirstStays(r, k, v) ==
    IF r.headers[tolower[k]] # NoHeader THEN r
    ELSE [r EXCEPT !.headers[tolower[k]] = [key |-> k, value |-> v]]

set_header(r, k, v) == [r EXCEPT !.headers[tolower[k]] = [key |-> k, value |-> v]]

set_status(r, n) == [r EXCEPT !.status = n]

(* Mutant of set_body: the place of the next write is left where it was. *)
set_body_KeepsPut(r, text) == [r EXCEPT !.body = text]

set_body(r, text) == [r EXCEPT !.body = text, !.put = 0]

set_response(r, text) == [r EXCEPT !.cache = text]

(* operator<<: over what is there, from put on, and then beyond its end. *)
Write(r, text) ==
    [r EXCEPT !.body = SubSeq(@, 1, r.put) \o text
                       \o SubSeq(@, r.put + Len(text) + 1, Len(@)),
              !.put = @ + Len(text)]

(* body_size moves the place of the next write to the end to ask for it. *)
body_size(r) == [r EXCEPT !.put = Len(r.body)]

-----------------------------------------------------------------------------
(* to_buffer: the message it returns, and the response it leaves. *)

Nothing == [cached |-> NoText, status |-> 0, headers |-> Fresh.headers, length |-> 0,
            body |-> <<>>]

GivesLength(r) == r.headers["content-length"] # NoHeader

(* Mutant of to_buffer: the length is asked for without a seek to the end. *)
to_buffer_LengthWritten(r) ==
    IF r.cache # NoText THEN [Nothing EXCEPT !.cached = r.cache]
    ELSE [cached  |-> NoText,
          status  |-> r.status,
          headers |-> [r.headers EXCEPT !["server"] =
                         IF @ = NoHeader THEN [key |-> "Server", value |-> "served"] ELSE @],
          length  |-> IF GivesLength(r) THEN -1 ELSE r.put,
          body    |-> r.body]

to_buffer(r) ==
    IF r.cache # NoText THEN [Nothing EXCEPT !.cached = r.cache]
    ELSE [cached  |-> NoText,
          status  |-> r.status,
          headers |-> [r.headers EXCEPT !["server"] =
                         IF @ = NoHeader THEN [key |-> "Server", value |-> "served"] ELSE @],
          length  |-> IF GivesLength(r) THEN -1 ELSE Len(r.body),
          body    |-> r.body]

Buffered(r) == IF r.cache = NoText /\ ~GivesLength(r) THEN body_size(r) ELSE r

-----------------------------------------------------------------------------
StockText ==
    [s \in {200, 400, 401, 403, 404, 405, 408, 418, 429, 500} |->
        CASE s = 200 -> <<"Successful">>
          [] s = 400 -> <<"Detected a bad request">>
          [] s = 401 -> <<"Client is unauthorized to access this resource">>
          [] s = 403 -> <<"Access to this resource is forbidden">>
          [] s = 404 -> <<"Resource not found">>
          [] s = 405 -> <<"Method is not supported for this resource">>
          [] s = 408 -> <<"The request timed out">>
          [] s = 418 -> <<"I'm a teapot">>
          [] s = 429 -> <<"Too many requests have been detected from this client">>
          [] s = 500 -> <<"Encountered an internal server error">>]

(* Statuses without a text of their own, 100 and 413 among them, add none. *)
stock_reply(n, r) ==
    LET typed == set_header(set_status(r, n), "Content-Type", "text/plain")
    IN  IF n \in DOMAIN StockText THEN Write(typed, StockText[n]) ELSE typed
=============================================================================
