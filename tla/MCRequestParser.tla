--------------------------- MODULE MCRequestParser ---------------------------
(* Requests of up to three header fields, whole and malformed, with a body
   as long as they announce, longer, shorter, or none. *)
EXTENDS RequestParser

CONSTANT MaxBody

HeaderLists == {<<>>, <<"other">>, <<"expect">>, <<"type", "length">>,
                <<"length", "other">>, <<"type", "length", "expect">>,
                <<"expect", "length", "type">>, <<"length", "type", "length">>}

(* Also one length below zero and the first that is no int. *)
MCRequests ==
    {r \in [method : Methods, headers : HeaderLists, length : {-1, MaxInt + 1} \cup 0..MaxBody,
            sent : 0..MaxBody, eol : {"CRLF", "LF"}, bad : BOOLEAN] :
       r.method = "GET" => r.length = 0}
=============================================================================
