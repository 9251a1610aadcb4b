------------------------------ MODULE ReplyProofs ------------------------------
(***************************************************************************)
(* Proofs about Reply, for whatever texts and content types a handler uses *)
(* and however many calls it makes.  The invariant says how the response   *)
(* and the promise of its documentation agree while the calls are made:    *)
(* Agreed holds as long as the calls are in an order that is documented.   *)
(***************************************************************************)
EXTENDS Reply, SequenceTheorems, TLAPS

Type(r) == r.headers["content-type"]

Agreed == /\ response.status = said.status /\ Type(response).value = said.type
          /\ response.body = said.body /\ response.cache = said.cached
          /\ ~fresh => response.put = Len(response.body)

InReading == phase = "reading" =>
    /\ orderly /\ said.body = <<>> /\ response.cache = NoText
    /\ response.headers["content-length"] = NoHeader

InProgress == phase # "done" =>
    /\ orderly => Agreed
    /\ ~typed => (Type(response) # NoHeader <=> asked)

NotContinue == phase = "handling" => response.status # 100

IInv == /\ ReplyTypeOK /\ InReading /\ InProgress /\ NotContinue
        /\ AsDocumented /\ TypeOfContinue /\ OneFinal

-----------------------------------------------------------------------------
(* The operators of Response. *)

Rewritten(r, b, n) == [r EXCEPT !.body = b, !.put = n]

LEMMA WithBody ==
    ASSUME NEW r \in ResponseType, NEW b \in Texts, NEW n \in Nat
    PROVE  /\ Rewritten(r, b, n) \in ResponseType
           /\ Rewritten(r, b, n).body = b /\ Rewritten(r, b, n).put = n
           /\ Rewritten(r, b, n).status = r.status
           /\ Rewritten(r, b, n).headers = r.headers
           /\ Rewritten(r, b, n).cache = r.cache
BY DEF Rewritten, ResponseType

LEMMA WriteProperties ==
    ASSUME NEW r, ResponseOK(r), NEW text \in Texts
    PROVE  /\ ResponseOK(Write(r, text))
           /\ Write(r, text).status = r.status /\ Write(r, text).headers = r.headers
           /\ Write(r, text).cache = r.cache
           /\ r.put = Len(r.body) => /\ Write(r, text).body = r.body \o text
                                     /\ Write(r, text).put = Len(r.body \o text)
<1> DEFINE low  == SubSeq(r.body, 1, r.put)
           high == SubSeq(r.body, r.put + Len(text) + 1, Len(r.body))
           b    == (low \o text) \o high
           n    == r.put + Len(text)
<1>1. /\ r.body \in Seq(Atoms) /\ text \in Seq(Atoms) /\ r.put \in Nat
      /\ Len(r.body) \in Nat /\ Len(text) \in Nat /\ r.put <= Len(r.body)
  BY DEF ResponseOK, ResponseType, Texts
<1>2. low \in Seq(Atoms) /\ Len(low) = r.put
  <2>1. 1 \in Int /\ r.put \in Int /\ \A i \in 1..r.put : r.body[i] \in Atoms
    BY <1>1
  <2> QED
    BY <1>1, <2>1, SubSeqProperties
<1>3. high \in Seq(Atoms) /\ Len(high) \in Nat
  <2> DEFINE from == r.put + Len(text) + 1
             to   == Len(r.body)
  <2>1. from \in Int /\ to \in Int /\ \A i \in from..to : r.body[i] \in Atoms
    BY <1>1
  <2>2. high = SubSeq(r.body, from, to)
    OBVIOUS
  <2> HIDE DEF from, to, high
  <2>3. SubSeq(r.body, from, to) \in Seq(Atoms)
    BY <2>1, SubSeqProperties
  <2> QED
    BY <2>2, <2>3
<1>4. low \o text \in Seq(Atoms) /\ Len(low \o text) = r.put + Len(text)
  BY <1>1, <1>2, ConcatProperties
<1>5. b \in Texts /\ Len(b) = r.put + Len(text) + Len(high)
  BY <1>3, <1>4, ConcatProperties DEF Texts
<1>6. ASSUME r.put = Len(r.body)
      PROVE  b = r.body \o text
  <2>1. low = r.body
    BY <1>1, <1>6, SubSeqFull
  <2>2. high = <<>>
    BY <1>1, <1>6, SubSeqEmpty
  <2> QED
    BY <1>4, <2>1, <2>2, ConcatEmptySeq
<1>7. r.put = Len(r.body) => n = Len(r.body \o text)
  BY <1>1, ConcatProperties
<1>8. Write(r, text) = Rewritten(r, b, n)
  BY DEF Write, Rewritten
<1>9. n \in Nat /\ n <= Len(b) /\ r \in ResponseType
  BY <1>1, <1>3, <1>5 DEF ResponseOK
<1> HIDE DEF b, n
<1>10. /\ Write(r, text) \in ResponseType
       /\ Write(r, text).body = b /\ Write(r, text).put = n
       /\ Write(r, text).status = r.status /\ Write(r, text).headers = r.headers
       /\ Write(r, text).cache = r.cache
  <2>1. r \in ResponseType /\ b \in Texts /\ n \in Nat
    BY <1>5, <1>9
  <2>2. /\ Rewritten(r, b, n) \in ResponseType
        /\ Rewritten(r, b, n).body = b /\ Rewritten(r, b, n).put = n
        /\ Rewritten(r, b, n).status = r.status
        /\ Rewritten(r, b, n).headers = r.headers
        /\ Rewritten(r, b, n).cache = r.cache
    BY <2>1, WithBody
  <2> QED
    BY <1>8, <2>2
<1>11. ResponseOK(Write(r, text))
  BY <1>9, <1>10 DEF ResponseOK
<1> QED
  BY <1>6, <1>7, <1>10, <1>11

LEMMA HeaderProperties ==
    ASSUME NEW r, ResponseOK(r), NEW k \in Keys, NEW v \in Atoms
    PROVE  /\ ResponseOK(set_header(r, k, v))
           /\ set_header(r, k, v).status = r.status /\ set_header(r, k, v).body = r.body
           /\ set_header(r, k, v).put = r.put /\ set_header(r, k, v).cache = r.cache
           /\ set_header(r, k, v).headers[tolower[k]] = [key |-> k, value |-> v]
<1>1. tolower[k] \in Folded
  BY DEF Keys, tolower, Folded
<1>2. r \in ResponseType /\ r.headers \in [Folded -> Header \cup {NoHeader}]
  BY DEF ResponseOK, ResponseType
<1>3. [key |-> k, value |-> v] \in Header
  BY DEF Header
<1>4. set_header(r, k, v) =
        [r EXCEPT !.headers = [r.headers EXCEPT ![tolower[k]] = [key |-> k, value |-> v]]]
  BY DEF set_header
<1> QED
  BY <1>1, <1>2, <1>3, <1>4 DEF ResponseOK, ResponseType

LEMMA OtherHeader ==
    ASSUME NEW r, ResponseOK(r), NEW k \in Keys, NEW v \in Atoms,
           NEW f \in Folded, f # tolower[k]
    PROVE  set_header(r, k, v).headers[f] = r.headers[f]
<1>1. r.headers \in [Folded -> Header \cup {NoHeader}] /\ r \in ResponseType
  BY DEF ResponseOK, ResponseType
<1>2. set_header(r, k, v).headers =
        [r.headers EXCEPT ![tolower[k]] = [key |-> k, value |-> v]]
  BY <1>1 DEF set_header, ResponseType
<1> QED
  BY <1>1, <1>2

LEMMA TypeKeys ==
    /\ "Content-Type" \in Keys /\ tolower["Content-Type"] = "content-type"
    /\ "CONTENT-TYPE" \in Keys /\ tolower["CONTENT-TYPE"] = "content-type"
    /\ "Content-Length" \in Keys /\ tolower["Content-Length"] = "content-length"
    /\ "Server" \in Keys /\ tolower["Server"] = "server"
    /\ "content-type" \in Folded /\ "content-length" \in Folded /\ "server" \in Folded
BY DEF Keys, tolower, Folded

(* A header that is set is not the absence of one. *)
LEMMA SetIsSet == \A k \in Keys, v \in Atoms : [key |-> k, value |-> v] # NoHeader
<1> SUFFICES ASSUME NEW k \in Keys, NEW v \in Atoms PROVE [key |-> k, value |-> v] # NoHeader
  OBVIOUS
<1>1. [key |-> k, value |-> v].key # NoHeader.key
  BY DEF Keys, NoHeader
<1> QED
  BY <1>1

LEMMA StatusProperties ==
    ASSUME NEW r, ResponseOK(r), NEW n \in Statuses
    PROVE  /\ ResponseOK(set_status(r, n)) /\ set_status(r, n).status = n
           /\ set_status(r, n).headers = r.headers /\ set_status(r, n).body = r.body
           /\ set_status(r, n).put = r.put /\ set_status(r, n).cache = r.cache
BY DEF set_status, ResponseOK, ResponseType

LEMMA BodyProperties ==
    ASSUME NEW r, ResponseOK(r), NEW text \in Texts
    PROVE  /\ ResponseOK(set_body(r, text)) /\ set_body(r, text).body = text
           /\ set_body(r, text).headers = r.headers /\ set_body(r, text).status = r.status
           /\ set_body(r, text).cache = r.cache
<1>1. r \in ResponseType /\ 0 \in Nat /\ 0 <= Len(text)
  BY DEF ResponseOK, Texts
<1>2. set_body(r, text) = Rewritten(r, text, 0)
  BY DEF set_body, Rewritten
<1>3. /\ set_body(r, text) \in ResponseType
      /\ set_body(r, text).body = text /\ set_body(r, text).put = 0
      /\ set_body(r, text).headers = r.headers /\ set_body(r, text).status = r.status
      /\ set_body(r, text).cache = r.cache
  BY <1>1, <1>2, WithBody
<1> QED
  BY <1>1, <1>3 DEF ResponseOK

LEMMA SizeProperties ==
    ASSUME NEW r, ResponseOK(r)
    PROVE  /\ ResponseOK(body_size(r)) /\ body_size(r).put = Len(r.body)
           /\ body_size(r).body = r.body /\ body_size(r).headers = r.headers
           /\ body_size(r).status = r.status /\ body_size(r).cache = r.cache
<1>1. r \in ResponseType /\ r.body \in Texts /\ Len(r.body) \in Nat
  BY DEF ResponseOK, ResponseType, Texts
<1>2. body_size(r) = Rewritten(r, r.body, Len(r.body))
  BY <1>1 DEF body_size, Rewritten, ResponseType
<1>3. /\ body_size(r) \in ResponseType
      /\ body_size(r).body = r.body /\ body_size(r).put = Len(r.body)
      /\ body_size(r).headers = r.headers /\ body_size(r).status = r.status
      /\ body_size(r).cache = r.cache
  BY <1>1, <1>2, WithBody
<1> QED
  BY <1>1, <1>3 DEF ResponseOK

LEMMA CacheProperties ==
    ASSUME NEW r, ResponseOK(r), NEW text \in Texts
    PROVE  /\ ResponseOK(set_response(r, text)) /\ set_response(r, text).cache = text
           /\ set_response(r, text).put = r.put /\ set_response(r, text).body = r.body
           /\ set_response(r, text).headers = r.headers
           /\ set_response(r, text).status = r.status
BY DEF set_response, ResponseOK, ResponseType

LEMMA ClearProperties ==
    ASSUME NEW r, ResponseOK(r)
    PROVE  /\ ResponseOK(clear(r)) /\ clear(r).status = 200
           /\ Type(clear(r)).value = "" /\ clear(r).body = r.body
           /\ clear(r).put = r.put /\ clear(r).cache = r.cache
<1> DEFINE h == Fresh.headers
           n == 200
<1>1. h \in [Folded -> Header \cup {NoHeader}] /\ h["content-type"] = NoHeader
  BY TypeKeys DEF Fresh
<1>2. NoHeader.value = ""
  BY DEF NoHeader
<1>3. clear(r) = [r EXCEPT !.status = n, !.headers = h]
  BY DEF clear
<1>4. n \in Statuses
  BY DEF Statuses
<1>5. r \in ResponseType /\ r.put <= Len(r.body)
  BY DEF ResponseOK
<1> HIDE DEF h, n
<1>6. /\ clear(r) \in ResponseType /\ clear(r).status = n /\ clear(r).headers = h
      /\ clear(r).body = r.body /\ clear(r).put = r.put /\ clear(r).cache = r.cache
  BY <1>1, <1>3, <1>4, <1>5 DEF ResponseType
<1>7. ResponseOK(clear(r))
  BY <1>5, <1>6 DEF ResponseOK
<1>8. Type(clear(r)).value = ""
  BY <1>1, <1>2, <1>6 DEF Type
<1> QED
  BY <1>6, <1>7, <1>8 DEF n

-----------------------------------------------------------------------------
(* What a stock reply says, and the messages that are sent. *)

Text(n) == IF n \in DOMAIN StockText THEN StockText[n] ELSE <<>>

LEMMA TextType == \A n \in Statuses : Text(n) \in Texts
BY StockAssumption, EmptySeq DEF Text, Texts

LEMMA TextValues == Text(100) = <<>> /\ Text(404) # <<>> /\ Text(500) = StockText[500]
<1>1. DOMAIN StockText = {200, 400, 401, 403, 404, 405, 408, 418, 429, 500}
  BY DEF StockText
<1>2. StockText[404] # <<>>
  BY DEF StockText
<1> QED
  BY <1>1, <1>2 DEF Text

LEMMA StockProperties ==
    ASSUME NEW r, ResponseOK(r), NEW n \in Statuses
    PROVE  /\ ResponseOK(stock_reply(n, r)) /\ stock_reply(n, r).status = n
           /\ stock_reply(n, r).cache = r.cache
           /\ Type(stock_reply(n, r)) # NoHeader
           /\ Type(stock_reply(n, r)).value = "text/plain"
           /\ stock_reply(n, r).headers["content-length"] = r.headers["content-length"]
           /\ r.put = Len(r.body) =>
                /\ stock_reply(n, r).body = r.body \o Text(n)
                /\ stock_reply(n, r).put = Len(stock_reply(n, r).body)
<1> DEFINE s == set_status(r, n)
           w == set_header(s, "Content-Type", "text/plain")
<1>1. "text/plain" \in Atoms
  BY StockAssumption
<1>2. /\ ResponseOK(s) /\ s.status = n /\ s.headers = r.headers /\ s.body = r.body
      /\ s.put = r.put /\ s.cache = r.cache
  BY StatusProperties
<1>3. "content-length" # "content-type"
  OBVIOUS
<1> HIDE DEF s
<1>4. /\ ResponseOK(w) /\ w.status = n /\ w.body = r.body /\ w.put = r.put
      /\ w.cache = r.cache
      /\ w.headers["content-type"] = [key |-> "Content-Type", value |-> "text/plain"]
      /\ w.headers["content-length"] = r.headers["content-length"]
  <2>1. /\ ResponseOK(w) /\ w.status = n /\ w.body = r.body /\ w.put = r.put
        /\ w.cache = r.cache
        /\ w.headers["content-type"] = [key |-> "Content-Type", value |-> "text/plain"]
    BY <1>1, <1>2, TypeKeys, HeaderProperties
  <2>2. w.headers["content-length"] = r.headers["content-length"]
    BY <1>1, <1>2, <1>3, TypeKeys, OtherHeader
  <2> QED
    BY <2>1, <2>2
<1>5. Type(w) # NoHeader /\ Type(w).value = "text/plain"
  BY <1>1, <1>4, TypeKeys, SetIsSet DEF Type
<1>6. stock_reply(n, r) = IF n \in DOMAIN StockText THEN Write(w, StockText[n]) ELSE w
  BY DEF stock_reply, s
<1> HIDE DEF w
<1>7. CASE n \in DOMAIN StockText
  <2>1. Text(n) \in Texts /\ stock_reply(n, r) = Write(w, Text(n))
    BY <1>6, <1>7, TextType DEF Text
  <2>2. /\ ResponseOK(Write(w, Text(n)))
        /\ Write(w, Text(n)).status = n /\ Write(w, Text(n)).headers = w.headers
        /\ Write(w, Text(n)).cache = r.cache
        /\ r.put = Len(r.body) => /\ Write(w, Text(n)).body = r.body \o Text(n)
                                  /\ Write(w, Text(n)).put = Len(r.body \o Text(n))
    <3>1. ResponseOK(w) /\ Text(n) \in Texts
      BY <1>4, <2>1
    <3>2. /\ ResponseOK(Write(w, Text(n)))
          /\ Write(w, Text(n)).status = w.status /\ Write(w, Text(n)).headers = w.headers
          /\ Write(w, Text(n)).cache = w.cache
          /\ w.put = Len(w.body) => /\ Write(w, Text(n)).body = w.body \o Text(n)
                                    /\ Write(w, Text(n)).put = Len(w.body \o Text(n))
      BY <3>1, WriteProperties
    <3> QED
      BY <1>4, <3>2
  <2> QED
    BY <1>4, <1>5, <2>1, <2>2 DEF Type
<1>8. CASE n \notin DOMAIN StockText
  <2>1. Text(n) = <<>> /\ stock_reply(n, r) = w
    BY <1>6, <1>8 DEF Text
  <2>2. r.body \o <<>> = r.body
    BY ConcatEmptySeq DEF ResponseOK, ResponseType, Texts
  <2> QED
    BY <1>4, <1>5, <2>1, <2>2
<1> QED
  BY <1>7, <1>8

(* The message of a response: its Content-Type and its length are those of
   the response, and what is left behind is a response again. *)
LEMMA MessageProperties ==
    ASSUME NEW r, ResponseOK(r)
    PROVE  /\ to_buffer(r) \in Message /\ to_buffer(r).cached = r.cache
           /\ to_buffer(r).length \in {-1, Len(to_buffer(r).body)}
           /\ to_buffer(r).status \in {0, r.status}
           /\ r.cache = NoText =>
                /\ to_buffer(r).status = r.status /\ to_buffer(r).body = r.body
                /\ Type(to_buffer(r)) = Type(r)
                /\ r.headers["content-length"] = NoHeader =>
                     to_buffer(r).length = Len(r.body)
<1>1. /\ r.cache \in Texts \cup {NoText} /\ r.body \in Texts /\ r.status \in Statuses
      /\ r.headers \in [Folded -> Header \cup {NoHeader}]
  BY DEF ResponseOK, ResponseType
<1>2. Len(r.body) \in Nat
  BY <1>1 DEF Texts
<1>3. CASE r.cache # NoText
  <2>1. to_buffer(r) = [cached |-> r.cache, status |-> 0, headers |-> Fresh.headers,
                        length |-> 0, body |-> <<>>]
    BY <1>3 DEF to_buffer, Nothing
  <2>2. <<>> \in Texts /\ Len(<<>>) = 0
    BY EmptySeq DEF Texts
  <2>3. Fresh.headers \in [Folded -> Header \cup {NoHeader}]
    BY DEF Fresh
  <2>4. to_buffer(r) \in Message
    BY <1>1, <2>1, <2>2, <2>3 DEF Message
  <2> QED
    BY <1>3, <2>1, <2>2, <2>4
<1>4. CASE r.cache = NoText
  <2> DEFINE h == [r.headers EXCEPT !["server"] =
                     IF @ = NoHeader THEN [key |-> "Server", value |-> "served"] ELSE @]
             n == IF GivesLength(r) THEN -1 ELSE Len(r.body)
  <2>1. to_buffer(r) = [cached |-> NoText, status |-> r.status, headers |-> h,
                        length |-> n, body |-> r.body]
    BY <1>4 DEF to_buffer
  <2>2. [key |-> "Server", value |-> "served"] \in Header
    BY TypeKeys, StockAssumption DEF Header
  <2>3. h \in [Folded -> Header \cup {NoHeader}] /\ h["content-type"] = r.headers["content-type"]
    BY <1>1, <2>2, TypeKeys
  <2>4. n \in Int /\ n \in {-1, Len(r.body)}
    BY <1>2
  <2>5. r.headers["content-length"] = NoHeader => n = Len(r.body)
    BY DEF GivesLength
  <2> HIDE DEF h, n
  <2>6. to_buffer(r) \in Message
    BY <1>1, <2>1, <2>3, <2>4 DEF Message
  <2> QED
    BY <1>4, <2>1, <2>3, <2>4, <2>5, <2>6 DEF Type
<1> QED
  BY <1>3, <1>4

LEMMA BufferedProperties ==
    ASSUME NEW r, ResponseOK(r)
    PROVE  /\ ResponseOK(Buffered(r)) /\ Buffered(r).body = r.body
           /\ Buffered(r).headers = r.headers /\ Buffered(r).status = r.status
           /\ Buffered(r).cache = r.cache
           /\ r.put = Len(r.body) => Buffered(r).put = Len(r.body)
BY SizeProperties DEF Buffered

-----------------------------------------------------------------------------
(* The calls of a handler keep the response and the promise together. *)

Said == [status : Statuses, type : Atoms \cup {""}, body : Texts,
         cached : Texts \cup {NoText}]

GhostsOK == said \in Said /\ fresh \in BOOLEAN /\ orderly \in BOOLEAN /\ typed \in BOOLEAN

Handling == /\ ResponseOK(response) /\ GhostsOK
            /\ orderly => Agreed
            /\ ~typed => (Type(response) # NoHeader <=> asked)
            /\ response.status # 100

SaidAs(s, n, v, text) == [s EXCEPT !.status = n, !.type = v, !.body = text]

LEMMA SaidProperties ==
    ASSUME NEW s \in Said, NEW n \in Statuses, NEW v \in Atoms, NEW text \in Texts
    PROVE  /\ SaidAs(s, n, v, text) \in Said
           /\ SaidAs(s, n, v, text).status = n /\ SaidAs(s, n, v, text).type = v
           /\ SaidAs(s, n, v, text).body = text
           /\ SaidAs(s, n, v, text).cached = s.cached
BY DEF Said, SaidAs

LEMMA SetBodyStep ==
    ASSUME Handling, NEW text \in Texts, SetBody(text), UNCHANGED asked PROVE Handling'
<1> DEFINE r == set_body(response, text)
<1>1. /\ ResponseOK(r) /\ r.body = text /\ r.headers = response.headers
      /\ r.status = response.status /\ r.cache = response.cache
  BY BodyProperties DEF Handling
<1>2. response' = r
  BY DEF SetBody
<1> HIDE DEF r
<1>3. GhostsOK'
  BY DEF Handling, GhostsOK, Said, SetBody
<1>4. /\ said'.status = said.status /\ said'.type = said.type /\ said'.body = text
      /\ said'.cached = said.cached /\ fresh' = TRUE
      /\ orderly' = orderly /\ typed' = typed
  BY DEF Handling, GhostsOK, Said, SetBody
<1> QED
  BY <1>1, <1>2, <1>3, <1>4 DEF Handling, Agreed, Type

LEMMA AppendStep ==
    ASSUME Handling, NEW text \in Texts, Append_(text), UNCHANGED asked PROVE Handling'
<1> DEFINE r == Write(response, text)
<1>1. /\ ResponseOK(r) /\ r.status = response.status /\ r.headers = response.headers
      /\ r.cache = response.cache
      /\ response.put = Len(response.body) =>
           r.body = response.body \o text /\ r.put = Len(response.body \o text)
  BY WriteProperties DEF Handling
<1>2. response' = r
  BY DEF Append_
<1> HIDE DEF r
<1>3. said.body \o text \in Texts
  BY ConcatProperties DEF Handling, GhostsOK, Said, Texts
<1>4. GhostsOK'
  BY <1>3 DEF Handling, GhostsOK, Said, Append_
<1>5. /\ said'.status = said.status /\ said'.type = said.type
      /\ said'.body = said.body \o text
      /\ said'.cached = said.cached /\ fresh' = FALSE /\ typed' = typed
      /\ orderly' => orderly /\ (fresh => said.body = <<>>)
  BY DEF Handling, GhostsOK, Said, Append_
<1>6. orderly' => response.put = Len(response.body) /\ response.body = said.body
  <2>1. ResponseOK(response) /\ response.put \in Nat
    BY DEF Handling, ResponseOK, ResponseType
  <2>2. Len(<<>>) = 0
    OBVIOUS
  <2> QED
    BY <1>5, <2>1, <2>2 DEF Handling, Agreed, ResponseOK
<1>7. orderly' => Agreed'
  <2> SUFFICES ASSUME orderly' PROVE Agreed'
    OBVIOUS
  <2>1. Agreed
    BY <1>5 DEF Handling
  <2>2. r.body = said'.body /\ r.put = Len(r.body)
    BY <1>1, <1>5, <1>6
  <2>3. /\ r.status = said'.status /\ Type(r).value = said'.type
        /\ r.cache = said'.cached
    BY <1>1, <1>5, <2>1 DEF Agreed, Type
  <2> QED
    BY <1>2, <2>2, <2>3 DEF Agreed
<1>8. Type(r) = Type(response)
  BY <1>1 DEF Type
<1> QED
  BY <1>1, <1>2, <1>4, <1>5, <1>7, <1>8 DEF Handling

LEMMA SetTypeStep ==
    ASSUME Handling, NEW v \in OwnTypes, NEW k \in {"Content-Type", "CONTENT-TYPE"},
           SetType(k, v), UNCHANGED asked
    PROVE  Handling'
<1> DEFINE r == set_header(response, k, v)
<1>1. k \in Keys /\ tolower[k] = "content-type" /\ v \in Atoms
  BY TypeKeys, OwnAssumption
<1>2. /\ ResponseOK(r) /\ r.status = response.status /\ r.body = response.body
      /\ r.put = response.put /\ r.cache = response.cache
      /\ r.headers["content-type"] = [key |-> k, value |-> v]
  BY <1>1, HeaderProperties DEF Handling
<1>3. response' = r
  BY DEF SetType
<1> HIDE DEF r
<1>4. GhostsOK'
  BY <1>1 DEF Handling, GhostsOK, Said, SetType
<1>5. /\ said'.status = said.status /\ said'.type = v /\ said'.body = said.body
      /\ said'.cached = said.cached /\ fresh' = fresh /\ typed' = TRUE
      /\ orderly' = orderly
  BY DEF Handling, GhostsOK, Said, SetType
<1>6. Type(r).value = v
  BY <1>2 DEF Type
<1> QED
  BY <1>2, <1>3, <1>4, <1>5, <1>6 DEF Handling, Agreed

LEMMA SetOtherStep ==
    ASSUME Handling, NEW v \in OwnTypes, NEW k \in Keys, tolower[k] # "content-type",
           SetOther(k, v), UNCHANGED asked
    PROVE  Handling'
<1> DEFINE r == set_header(response, k, v)
<1>1. ResponseOK(response) /\ v \in Atoms /\ k \in Keys
  BY OwnAssumption DEF Handling
<1>2. /\ ResponseOK(r) /\ r.status = response.status /\ r.body = response.body
      /\ r.put = response.put /\ r.cache = response.cache
      /\ r.headers["content-type"] = response.headers["content-type"]
  <2>1. /\ ResponseOK(r) /\ r.status = response.status /\ r.body = response.body
        /\ r.put = response.put /\ r.cache = response.cache
    BY <1>1, HeaderProperties, ZenonT(40)
  <2>2. r.headers["content-type"] = response.headers["content-type"]
    BY <1>1, TypeKeys, OtherHeader
  <2> HIDE DEF r
  <2> QED
    BY <2>1, <2>2
<1>3. response' = r /\ UNCHANGED <<said, fresh, orderly, typed>>
  BY DEF SetOther, ghosts
<1> HIDE DEF r
<1> QED
  BY <1>2, <1>3 DEF Handling, GhostsOK, Agreed, Type

LEMMA SetStatusStep ==
    ASSUME Handling, NEW n \in Statuses \ {100}, SetStatus(n), UNCHANGED asked
    PROVE  Handling'
<1> DEFINE r == set_status(response, n)
<1>1. n \in Statuses /\ n # 100
  OBVIOUS
<1>2. /\ ResponseOK(r) /\ r.status = n /\ r.headers = response.headers
      /\ r.body = response.body /\ r.put = response.put /\ r.cache = response.cache
  BY <1>1, StatusProperties DEF Handling
<1>3. response' = r
  BY DEF SetStatus
<1> HIDE DEF r
<1>4. GhostsOK'
  <2>1. said' = [said EXCEPT !.status = n] /\ said \in Said
    BY DEF Handling, GhostsOK, SetStatus
  <2>2. said' \in Said
    BY <1>1, <2>1 DEF Said
  <2>3. fresh' = fresh /\ orderly' = orderly /\ typed' = typed
    BY DEF SetStatus
  <2> QED
    BY <2>2, <2>3 DEF Handling, GhostsOK
<1>5. /\ said'.status = n /\ said'.type = said.type /\ said'.body = said.body
      /\ said'.cached = said.cached /\ fresh' = fresh /\ typed' = typed
      /\ orderly' = orderly
  BY DEF Handling, GhostsOK, Said, SetStatus
<1> QED
  BY <1>1, <1>2, <1>3, <1>4, <1>5 DEF Handling, Agreed, Type

LEMMA SetResponseStep ==
    ASSUME Handling, NEW text \in Texts, SetResponse(text), UNCHANGED asked PROVE Handling'
<1> DEFINE r == set_response(response, text)
<1>1. /\ ResponseOK(r) /\ r.cache = text /\ r.put = response.put
      /\ r.body = response.body /\ r.headers = response.headers
      /\ r.status = response.status
  BY CacheProperties DEF Handling
<1>2. response' = r
  BY DEF SetResponse
<1> HIDE DEF r
<1>3. GhostsOK'
  BY DEF Handling, GhostsOK, Said, SetResponse
<1>4. /\ said'.status = said.status /\ said'.type = said.type /\ said'.body = said.body
      /\ said'.cached = text /\ fresh' = fresh /\ typed' = typed /\ orderly' = orderly
  BY DEF Handling, GhostsOK, Said, SetResponse
<1> QED
  BY <1>1, <1>2, <1>3, <1>4 DEF Handling, Agreed, Type

LEMMA SizeStep ==
    ASSUME Handling, Size, UNCHANGED asked PROVE Handling'
<1> DEFINE r == body_size(response)
<1>1. /\ ResponseOK(r) /\ r.put = Len(response.body) /\ r.body = response.body
      /\ r.headers = response.headers /\ r.status = response.status
      /\ r.cache = response.cache
  BY SizeProperties DEF Handling
<1>2. /\ response' = r
      /\ said' = said /\ fresh' = FALSE /\ orderly' = orderly /\ typed' = typed
  BY DEF Size
<1> HIDE DEF r
<1> QED
  BY <1>1, <1>2 DEF Handling, GhostsOK, Agreed, Type

LEMMA ClearStep ==
    ASSUME Handling, Clear, UNCHANGED asked PROVE Handling'
<1> DEFINE r == clear(response)
<1>1. /\ ResponseOK(r) /\ r.status = 200 /\ Type(r).value = "" /\ r.body = response.body
      /\ r.put = response.put /\ r.cache = response.cache
  <2>1. ResponseOK(response)
    BY DEF Handling
  <2> QED
    BY <2>1, ClearProperties
<1>2. /\ response' = r /\ fresh' = fresh /\ typed' = TRUE
      /\ said' = [status |-> 200, type |-> "", body |-> <<>>, cached |-> NoText]
      /\ orderly' = (orderly /\ said.body = <<>> /\ said.cached = NoText)
  BY DEF Clear
<1> HIDE DEF r
<1>3. 200 \in Statuses /\ <<>> \in Texts
  BY EmptySeq DEF Statuses, Texts
<1>4. said' \in Said
  BY <1>2, <1>3 DEF Said
<1>5. GhostsOK'
  BY <1>2, <1>4 DEF Handling, GhostsOK
<1>6. /\ said'.status = 200 /\ said'.type = "" /\ said'.body = <<>>
      /\ said'.cached = NoText
  BY <1>2
<1>7. orderly' => Agreed'
  <2> SUFFICES ASSUME orderly' PROVE Agreed'
    OBVIOUS
  <2>1. Agreed /\ said.body = <<>> /\ said.cached = NoText
    BY <1>2 DEF Handling
  <2>2. r.body = <<>> /\ r.cache = NoText /\ (~fresh => r.put = Len(r.body))
    BY <1>1, <2>1 DEF Agreed
  <2> QED
    <3>1. /\ r.status = said'.status /\ Type(r).value = said'.type
          /\ r.body = said'.body /\ r.cache = said'.cached
      BY <1>1, <1>6, <2>2
    <3>2. ~fresh' => r.put = Len(r.body)
      BY <1>2, <2>2
    <3>3. response' = r
      BY <1>2
    <3> QED
      BY <3>1, <3>2, <3>3 DEF Agreed
<1>8. response' = r /\ ResponseOK(r) /\ r.status = 200 /\ typed' = TRUE
  BY <1>1, <1>2
<1>9. r.status # 100
  BY <1>8
<1> QED
  BY <1>5, <1>7, <1>8, <1>9 DEF Handling

LEMMA StockStep ==
    ASSUME Handling, NEW n \in Statuses \ {100}, Text(n) # <<>>, Stock(n),
           UNCHANGED asked
    PROVE  Handling'
<1> DEFINE r == stock_reply(n, response)
<1>1. n \in Statuses /\ n # 100
  OBVIOUS
<1>2. /\ ResponseOK(r) /\ r.status = n /\ r.cache = response.cache
      /\ Type(r).value = "text/plain"
      /\ response.put = Len(response.body) =>
           r.body = response.body \o Text(n) /\ r.put = Len(r.body)
  BY <1>1, StockProperties DEF Handling
<1>3. /\ response' = r /\ typed' = TRUE /\ fresh' = (fresh /\ Text(n) = <<>>)
      /\ said' = [said EXCEPT !.status = n, !.type = "text/plain", !.body = @ \o Text(n)]
      /\ orderly' = (orderly /\ (fresh /\ Text(n) # <<>> => said.body = <<>>))
  BY DEF Stock, Text
<1> HIDE DEF r
<1>4. Text(n) \in Texts /\ Text(n) # <<>> /\ "text/plain" \in Atoms
  BY <1>1, TextType, StockAssumption
<1>5. said.body \o Text(n) \in Texts
  BY <1>4, ConcatProperties DEF Handling, GhostsOK, Said, Texts
<1>6. GhostsOK'
  <2>1. said' \in Said
    <3>1. said \in Said
      BY DEF Handling, GhostsOK
    <3>2. said' = SaidAs(said, n, "text/plain", said.body \o Text(n))
      BY <1>3 DEF SaidAs
    <3> QED
      BY <1>1, <1>4, <1>5, <3>1, <3>2, SaidProperties
  <2>2. fresh' = FALSE /\ orderly' \in BOOLEAN /\ typed' = TRUE
    BY <1>3, <1>4
  <2> QED
    BY <2>1, <2>2 DEF GhostsOK
<1>7. /\ said'.status = n /\ said'.type = "text/plain"
      /\ said'.body = said.body \o Text(n) /\ said'.cached = said.cached
  BY <1>3 DEF Handling, GhostsOK, Said
<1>8. orderly' => /\ response.put = Len(response.body)
                  /\ response.body = said.body /\ response.cache = said.cached
  <2>1. ResponseOK(response) /\ response.put \in Nat
    BY DEF Handling, ResponseOK, ResponseType
  <2>2. Len(<<>>) = 0
    OBVIOUS
  <2> SUFFICES ASSUME orderly'
               PROVE  /\ response.put = Len(response.body)
                      /\ response.body = said.body /\ response.cache = said.cached
    OBVIOUS
  <2>3. Agreed /\ (fresh => said.body = <<>>)
    BY <1>3, <1>4 DEF Handling
  <2> QED
    BY <2>1, <2>2, <2>3 DEF Agreed, ResponseOK
<1>9. orderly' => Agreed'
  <2> SUFFICES ASSUME orderly' PROVE Agreed'
    OBVIOUS
  <2>1. /\ r.status = said'.status /\ Type(r).value = said'.type
        /\ r.body = said'.body /\ r.cache = said'.cached /\ r.put = Len(r.body)
    BY <1>2, <1>7, <1>8
  <2> QED
    BY <1>3, <2>1 DEF Agreed
<1> QED
  BY <1>1, <1>2, <1>3, <1>6, <1>9 DEF Handling

-----------------------------------------------------------------------------
(* The messages. *)

Lengths(w) == \A i \in 1..Len(w) : w[i].length \in {-1, Len(w[i].body)}

LEMMA SendsProperties ==
    ASSUME wire \in Seq(Message), Lengths(wire), NEW r, ResponseOK(r), Sends(r)
    PROVE  /\ wire' \in Seq(Message) /\ Len(wire') = Len(wire) + 1 /\ Lengths(wire')
           /\ Final' = to_buffer(r) /\ response' = Buffered(r)
           /\ \A i \in 1..Len(wire) : wire'[i] = wire[i]
<1> DEFINE b == to_buffer(r)
<1>1. b \in Message /\ b.length \in {-1, Len(b.body)}
  BY MessageProperties
<1>2. wire' = Append(wire, b) /\ response' = Buffered(r)
  BY DEF Sends
<1> HIDE DEF b
<1>3. /\ wire' \in Seq(Message) /\ Len(wire') = Len(wire) + 1
      /\ wire'[Len(wire) + 1] = b /\ \A i \in 1..Len(wire) : wire'[i] = wire[i]
  BY <1>1, <1>2, AppendProperties
<1>4. Len(wire) \in Nat
  OBVIOUS
<1>5. Lengths(wire')
  <2> SUFFICES ASSUME NEW i \in 1..Len(wire') PROVE wire'[i].length \in {-1, Len(wire'[i].body)}
    BY DEF Lengths
  <2>1. CASE i \in 1..Len(wire)
    BY <1>3, <2>1 DEF Lengths
  <2>2. CASE i = Len(wire) + 1
    BY <1>1, <1>3, <2>2
  <2> QED
    BY <1>3, <1>4, <2>1, <2>2
<1>6. Final' = b
  BY <1>3 DEF Final
<1> QED
  BY <1>2, <1>3, <1>5, <1>6 DEF b

(* The end of an exchange, whatever ends it: a response that is the one
   promised, and not a 100, is the final one. *)
Promised(r) == /\ r.status = said'.status /\ Type(r).value = said'.type
               /\ r.body = said'.body /\ r.cache = said'.cached

LEMMA Ends ==
    ASSUME IInv, phase # "done", NEW r, ResponseOK(r), r.status # 100, Sends(r),
           phase' = "done", UNCHANGED <<asked, calls>>, GhostsOK',
           orderly' => Promised(r),
           ~typed' => (Type(r) # NoHeader <=> asked)
    PROVE  IInv'
<1>1. wire \in Seq(Message) /\ Lengths(wire) /\ Len(wire) = (IF asked THEN 1 ELSE 0)
  <2>1. /\ wire \in Seq(Message) /\ Lengths(wire)
        /\ Len(wire) = (IF asked THEN 1 ELSE 0) + (IF phase = "done" THEN 1 ELSE 0)
    BY DEF IInv, ReplyTypeOK, OneFinal, Lengths
  <2>2. (IF phase = "done" THEN 1 ELSE 0) = 0
    OBVIOUS
  <2> QED
    BY <2>1, <2>2
<1>2. /\ wire' \in Seq(Message) /\ Len(wire') = Len(wire) + 1 /\ Lengths(wire')
      /\ Final' = to_buffer(r) /\ response' = Buffered(r)
      /\ \A i \in 1..Len(wire) : wire'[i] = wire[i]
  BY <1>1, SendsProperties
<1> DEFINE b == to_buffer(r)
<1>3. /\ b.cached = r.cache /\ b.status \in {0, r.status}
      /\ r.cache = NoText =>
           b.status = r.status /\ b.body = r.body /\ Type(b) = Type(r)
  BY MessageProperties
<1>4. Final' = b
  BY <1>2
<1> HIDE DEF b
<1>5. ReplyTypeOK'
  <2>1. ResponseOK(Buffered(r)) /\ response' = Buffered(r)
    BY <1>2, BufferedProperties
  <2>2. ResponseOK(response)'
    BY <2>1
  <2> QED
    BY <1>2, <2>2 DEF IInv, ReplyTypeOK, GhostsOK, Said
<1>6. AsDocumented'
  <2> SUFFICES ASSUME orderly'
               PROVE  (IF said'.cached # NoText THEN Final'.cached = said'.cached
                       ELSE /\ Final'.cached = NoText
                            /\ Final'.status = said'.status /\ Final'.body = said'.body
                            /\ Type(Final').value = said'.type)
    BY DEF AsDocumented, Type
  <2>1. /\ r.status = said'.status /\ Type(r).value = said'.type
        /\ r.body = said'.body /\ r.cache = said'.cached
    BY DEF Promised
  <2> QED
    BY <1>3, <1>4, <2>1
<1>7. TypeOfContinue'
  <2> SUFFICES ASSUME ~typed', Final'.cached = NoText
               PROVE  Type(Final') # NoHeader <=> asked'
    BY DEF TypeOfContinue, Type
  <2>1. Type(Final') = Type(r)
    BY <1>3, <1>4
  <2> QED
    BY <2>1
<1>8. OneFinal'
  <2>1. Len(wire') = (IF asked' THEN 1 ELSE 0) + (IF phase' = "done" THEN 1 ELSE 0)
    BY <1>1, <1>2
  <2>2. asked' => wire'[1].status = 100 /\ wire'[1].length = 0 /\ wire'[1].body = <<>>
    <3> SUFFICES ASSUME asked PROVE wire'[1] = wire[1]
      BY DEF IInv, OneFinal
    <3>1. 1 \in 1..Len(wire)
      BY <1>1
    <3> QED
      BY <1>2, <3>1
  <2>3. Final'.status # 100
    BY <1>3, <1>4
  <2> QED
    BY <1>2, <2>1, <2>2, <2>3 DEF OneFinal, Lengths
<1>9. InReading' /\ InProgress' /\ NotContinue'
  BY DEF InReading, InProgress, NotContinue
<1> QED
  BY <1>5, <1>6, <1>7, <1>8, <1>9 DEF IInv

-----------------------------------------------------------------------------
(* The actions. *)

(* What holds of the response while it is being read is what the calls keep,
   but for its status. *)
LEMMA InHandling ==
    ASSUME IInv, phase = "handling" PROVE Handling
BY DEF IInv, ReplyTypeOK, InProgress, NotContinue, Handling, GhostsOK, Said

LEMMA Reading ==
    ASSUME IInv, phase = "reading"
    PROVE  /\ ResponseOK(response) /\ GhostsOK /\ orderly /\ Agreed
           /\ response.body = <<>> /\ response.put = 0 /\ response.cache = NoText
           /\ response.headers["content-length"] = NoHeader
           /\ said.body = <<>> /\ said.cached = NoText
           /\ ~typed => (Type(response) # NoHeader <=> asked)
<1>1. /\ ResponseOK(response) /\ GhostsOK /\ orderly /\ Agreed /\ said.body = <<>>
      /\ response.cache = NoText
      /\ response.headers["content-length"] = NoHeader
      /\ ~typed => (Type(response) # NoHeader <=> asked)
  BY DEF IInv, ReplyTypeOK, InReading, InProgress, GhostsOK, Said
<1>2. response.body = <<>> /\ said.cached = NoText
  BY <1>1 DEF Agreed
<1>3. response.put \in Nat /\ response.put <= Len(response.body)
  BY <1>1 DEF ResponseOK, ResponseType
<1>4. Len(<<>>) = 0
  OBVIOUS
<1>5. response.put = 0
  BY <1>2, <1>3, <1>4
<1> QED
  BY <1>1, <1>2, <1>5

LEMMA OwnCallStep == ASSUME IInv, OwnCall PROVE IInv'
<1>1. /\ phase = "handling" /\ calls < MaxCalls /\ calls' = calls + 1
      /\ UNCHANGED <<phase, wire, asked>>
  BY DEF OwnCall
<1>2. Handling
  BY <1>1, InHandling
<1>3. Handling'
  <2>1. ASSUME NEW text \in OwnTexts, SetBody(text) \/ Append_(text) \/ SetResponse(text)
        PROVE  Handling'
    <3>1. text \in Texts
      BY OwnAssumption
    <3> QED
      BY <1>1, <1>2, <2>1, <3>1, SetBodyStep, AppendStep, SetResponseStep
  <2>2. ASSUME NEW v \in OwnTypes, NEW k \in {"Content-Type", "CONTENT-TYPE"}, SetType(k, v)
        PROVE  Handling'
    BY <1>1, <1>2, <2>2, SetTypeStep
  <2>3. ASSUME NEW v \in OwnTypes, NEW k \in {"Content-Length", "Server"}, SetOther(k, v)
        PROVE  Handling'
    <3>1. k \in Keys /\ tolower[k] # "content-type"
      BY TypeKeys
    <3> QED
      BY <1>1, <1>2, <2>3, <3>1, SetOtherStep
  <2>4. 418 \in Statuses \ {100} /\ 404 \in Statuses \ {100} /\ Text(404) # <<>>
    BY TextValues DEF Statuses
  <2>5. CASE SetStatus(418)
    BY <1>1, <1>2, <2>4, <2>5, SetStatusStep
  <2>6. CASE Size
    BY <1>1, <1>2, <2>6, SizeStep
  <2>7. CASE Clear
    BY <1>1, <1>2, <2>7, ClearStep
  <2>8. CASE Stock(404)
    BY <1>1, <1>2, <2>4, <2>8, StockStep
  <2> QED
    BY <2>1, <2>2, <2>3, <2>5, <2>6, <2>7, <2>8 DEF OwnCall
<1>4. calls' \in 0..MaxCalls
  <2>1. calls \in 0..MaxCalls
    BY DEF IInv, ReplyTypeOK
  <2>2. calls < MaxCalls /\ calls' = calls + 1
    BY <1>1
  <2> QED
    BY <2>1, <2>2, MaxCallsAssumption
<1>5. ReplyTypeOK'
  BY <1>1, <1>3, <1>4 DEF IInv, ReplyTypeOK, Handling, GhostsOK, Said
<1>6. phase' = "handling" /\ wire' = wire /\ asked' = asked
  BY <1>1
<1>7. InProgress' /\ NotContinue'
  BY <1>3, <1>6 DEF InProgress, NotContinue, Handling
<1>8. InReading' /\ AsDocumented' /\ TypeOfContinue'
  BY <1>6 DEF InReading, AsDocumented, TypeOfContinue
<1>9. OneFinal'
  BY <1>1, <1>6 DEF IInv, OneFinal, Final
<1> QED
  BY <1>5, <1>7, <1>8, <1>9 DEF IInv

LEMMA BeginStep == ASSUME IInv, Begin PROVE IInv'
<1>1. /\ phase = "reading" /\ phase' = "handling" /\ fresh' = TRUE
      /\ UNCHANGED <<wire, asked, calls, orderly, typed>>
      /\ said' = [said EXCEPT !.status = 200, !.body = <<>>]
  BY DEF Begin
<1>2. /\ ResponseOK(response) /\ GhostsOK /\ orderly /\ Agreed
      /\ ~typed => (Type(response) # NoHeader <=> asked)
  BY <1>1, Reading
<1> DEFINE s == set_status(response, 200)
           r == set_body(s, <<>>)
<1>3. 200 \in Statuses /\ <<>> \in Texts
  BY EmptySeq DEF Statuses, Texts
<1>4. /\ ResponseOK(s) /\ s.status = 200 /\ s.headers = response.headers
      /\ s.cache = response.cache
  BY <1>2, <1>3, StatusProperties
<1> HIDE DEF s
<1>5. /\ ResponseOK(r) /\ r.status = 200 /\ r.headers = response.headers
      /\ r.cache = response.cache /\ r.body = <<>>
  BY <1>3, <1>4, BodyProperties
<1>6. response' = r
  BY DEF Begin, s
<1> HIDE DEF r
<1>7. said' \in Said
  BY <1>1, <1>2, <1>3 DEF GhostsOK, Said
<1>8. /\ said'.status = 200 /\ said'.body = <<>> /\ said'.type = said.type
      /\ said'.cached = said.cached
  BY <1>1, <1>2 DEF GhostsOK, Said
<1>9. Agreed'
  <2>1. /\ r.status = said'.status /\ Type(r).value = said'.type /\ r.body = said'.body
        /\ r.cache = said'.cached
    BY <1>2, <1>5, <1>8 DEF Agreed, Type
  <2> QED
    BY <1>1, <1>6, <2>1 DEF Agreed
<1>10. ReplyTypeOK'
  <2>1. ResponseOK(response)'
    BY <1>5, <1>6
  <2> QED
    BY <1>1, <1>2, <1>7, <2>1 DEF IInv, ReplyTypeOK, GhostsOK, Said
<1>11. InProgress' /\ InReading'
  <2>1. Type(r) = Type(response)
    BY <1>5 DEF Type
  <2>2. phase' = "handling" /\ typed' = typed /\ asked' = asked
    BY <1>1
  <2>3. ~typed' => (Type(response)' # NoHeader <=> asked')
    BY <1>2, <1>6, <2>1, <2>2
  <2> QED
    BY <1>9, <2>2, <2>3 DEF InProgress, InReading
<1>12. NotContinue'
  <2>1. r.status = 200
    BY <1>5
  <2>2. r.status # 100
    BY <2>1
  <2> QED
    BY <1>6, <2>2 DEF NotContinue
<1>13. phase' = "handling" /\ wire' = wire /\ asked' = asked
  BY <1>1
<1>14. AsDocumented' /\ TypeOfContinue'
  BY <1>13 DEF AsDocumented, TypeOfContinue
<1>15. OneFinal'
  BY <1>1, <1>13 DEF IInv, OneFinal, Final
<1> QED
  BY <1>10, <1>11, <1>12, <1>14, <1>15 DEF IInv

LEMMA ContinueStep == ASSUME IInv, Continue PROVE IInv'
<1> DEFINE r == stock_reply(100, response)
<1>1. /\ phase = "reading" /\ ~asked /\ asked' = TRUE /\ fresh' = FALSE
      /\ UNCHANGED <<phase, calls, orderly, typed>>
      /\ said' = [said EXCEPT !.status = 100, !.type = "text/plain"]
      /\ Sends(r)
  BY DEF Continue
<1>2. /\ ResponseOK(response) /\ GhostsOK /\ orderly /\ Agreed
      /\ response.body = <<>> /\ response.put = 0 /\ response.cache = NoText
      /\ response.headers["content-length"] = NoHeader
      /\ said.body = <<>> /\ said.cached = NoText
  BY <1>1, Reading
<1>3. 100 \in Statuses /\ "text/plain" \in Atoms /\ Len(<<>>) = 0
  BY StockAssumption DEF Statuses
<1>4. /\ ResponseOK(r) /\ r.status = 100 /\ r.cache = NoText
      /\ Type(r) # NoHeader /\ Type(r).value = "text/plain"
      /\ r.headers["content-length"] = NoHeader
      /\ r.body = <<>> \o Text(100) /\ r.put = Len(r.body)
  <2>1. ResponseOK(response) /\ 100 \in Statuses
    BY <1>2, <1>3
  <2>2. /\ ResponseOK(r) /\ r.status = 100 /\ r.cache = response.cache
        /\ Type(r) # NoHeader /\ Type(r).value = "text/plain"
        /\ r.headers["content-length"] = response.headers["content-length"]
        /\ response.put = Len(response.body) =>
             r.body = response.body \o Text(100) /\ r.put = Len(r.body)
    BY <2>1, StockProperties
  <2> HIDE DEF r
  <2>3. response.put = Len(response.body)
    BY <1>2, <1>3
  <2> QED
    BY <1>2, <2>2, <2>3
<1> HIDE DEF r
<1>5. r.body = <<>> /\ r.put = 0
  <2>1. <<>> \o <<>> = <<>>
    OBVIOUS
  <2> QED
    BY <1>3, <1>4, <2>1, TextValues
<1>6. wire \in Seq(Message) /\ Lengths(wire) /\ Len(wire) = 0
  <2>1. /\ wire \in Seq(Message) /\ Lengths(wire)
        /\ Len(wire) = (IF asked THEN 1 ELSE 0) + (IF phase = "done" THEN 1 ELSE 0)
    BY DEF IInv, ReplyTypeOK, OneFinal, Lengths
  <2>2. (IF asked THEN 1 ELSE 0) = 0 /\ (IF phase = "done" THEN 1 ELSE 0) = 0
    BY <1>1
  <2> QED
    BY <2>1, <2>2
<1>7. /\ wire' \in Seq(Message) /\ Len(wire') = Len(wire) + 1 /\ Lengths(wire')
      /\ Final' = to_buffer(r) /\ response' = Buffered(r)
  BY <1>1, <1>4, <1>6, SendsProperties
<1>8. /\ to_buffer(r).status = 100 /\ to_buffer(r).body = <<>>
      /\ to_buffer(r).length = 0
  <2>1. /\ to_buffer(r).status = r.status /\ to_buffer(r).body = r.body
        /\ to_buffer(r).length = Len(r.body)
    BY <1>4, MessageProperties
  <2> QED
    BY <1>3, <1>4, <1>5, <2>1
<1>9. /\ ResponseOK(Buffered(r)) /\ Buffered(r).body = r.body
      /\ Buffered(r).headers = r.headers /\ Buffered(r).status = r.status
      /\ Buffered(r).cache = r.cache /\ Buffered(r).put = Len(r.body)
  BY <1>4, BufferedProperties
<1>10. said' \in Said
  BY <1>1, <1>2, <1>3 DEF GhostsOK, Said
<1>11. /\ said'.status = 100 /\ said'.body = <<>> /\ said'.type = "text/plain"
       /\ said'.cached = NoText
  BY <1>1, <1>2 DEF GhostsOK, Said
<1>12. ReplyTypeOK'
  <2>1. ResponseOK(response)'
    BY <1>7, <1>9
  <2> QED
    BY <1>1, <1>2, <1>7, <1>10, <2>1 DEF IInv, ReplyTypeOK, GhostsOK, Said
<1>13. Type(Buffered(r)) = Type(r)
  BY <1>9 DEF Type
<1>14. Agreed'
  <2> DEFINE w == Buffered(r)
  <2>1. /\ w.status = said'.status /\ Type(w).value = said'.type /\ w.body = said'.body
        /\ w.cache = said'.cached /\ w.put = Len(w.body)
    BY <1>4, <1>5, <1>9, <1>11, <1>13
  <2>2. response' = w
    BY <1>7
  <2> HIDE DEF w
  <2> QED
    BY <2>1, <2>2 DEF Agreed
<1>15. InProgress'
  <2>1. Type(response)' # NoHeader /\ asked'
    BY <1>1, <1>4, <1>7, <1>13
  <2> QED
    BY <1>14, <2>1 DEF InProgress
<1>16. InReading'
  <2>1. /\ response'.cache = NoText /\ response'.headers["content-length"] = NoHeader
    BY <1>4, <1>7, <1>9
  <2> QED
    BY <1>1, <1>2, <1>11, <2>1 DEF InReading
<1>17. NotContinue' /\ AsDocumented' /\ TypeOfContinue'
  BY <1>1 DEF NotContinue, AsDocumented, TypeOfContinue
<1>18. OneFinal'
  <2>1. Len(wire') = (IF asked' THEN 1 ELSE 0) + (IF phase' = "done" THEN 1 ELSE 0)
    BY <1>1, <1>6, <1>7
  <2>2. wire'[1] = to_buffer(r)
    BY <1>6, <1>7 DEF Final
  <2> QED
    BY <1>1, <1>7, <1>8, <2>1, <2>2 DEF OneFinal, Lengths
<1> QED
  BY <1>12, <1>15, <1>16, <1>17, <1>18 DEF IInv

LEMMA RefuseStep == ASSUME IInv, NEW n \in {400, 413}, Refuse(n) PROVE IInv'
<1> DEFINE r == stock_reply(n, response)
<1>1. /\ phase = "reading" /\ phase' = "done" /\ typed' = TRUE
      /\ UNCHANGED <<asked, calls, fresh, orderly>>
      /\ said' = [said EXCEPT !.status = n, !.type = "text/plain", !.body = Text(n)]
      /\ Sends(r)
  BY DEF Refuse, Text
<1>2. /\ ResponseOK(response) /\ GhostsOK /\ orderly /\ Agreed
      /\ response.body = <<>> /\ response.put = 0 /\ response.cache = NoText
      /\ said.cached = NoText
  BY <1>1, Reading
<1>3. n \in Statuses /\ n # 100
  BY DEF Statuses
<1>4. "text/plain" \in Atoms /\ Text(n) \in Texts /\ Len(<<>>) = 0
  BY <1>3, StockAssumption, TextType
<1>5. /\ ResponseOK(r) /\ r.status = n /\ r.cache = NoText
      /\ Type(r).value = "text/plain" /\ r.body = <<>> \o Text(n)
  <2>1. ResponseOK(response) /\ n \in Statuses
    BY <1>2, <1>3
  <2>2. /\ ResponseOK(r) /\ r.status = n /\ r.cache = response.cache
        /\ Type(r).value = "text/plain"
        /\ response.put = Len(response.body) => r.body = response.body \o Text(n)
    BY <2>1, StockProperties
  <2> HIDE DEF r
  <2>3. response.put = Len(response.body)
    BY <1>2, <1>4
  <2> QED
    BY <1>2, <2>2, <2>3
<1> HIDE DEF r
<1>6. r.body = Text(n)
  <2>1. Text(n) \in Seq(Atoms)
    BY <1>4 DEF Texts
  <2>2. <<>> \o Text(n) = Text(n)
    BY <2>1, ConcatEmptySeq
  <2> QED
    BY <1>5, <2>2
<1>7. /\ said' \in Said /\ said'.status = n /\ said'.body = Text(n)
      /\ said'.type = "text/plain" /\ said'.cached = NoText
  <2>1. said \in Said
    BY <1>2 DEF GhostsOK
  <2>2. said' = SaidAs(said, n, "text/plain", Text(n))
    BY <1>1 DEF SaidAs
  <2> QED
    BY <1>2, <1>3, <1>4, <2>1, <2>2, SaidProperties
<1>8. orderly' = orderly /\ typed' = TRUE /\ fresh' = fresh
  BY <1>1
<1>9. GhostsOK'
  BY <1>2, <1>7, <1>8 DEF GhostsOK
<1>10. Promised(r)
  BY <1>5, <1>6, <1>7 DEF Promised
<1> QED
  BY <1>1, <1>3, <1>5, <1>9, <1>10, Ends

LEMMA ReturnsStep == ASSUME IInv, Returns PROVE IInv'
<1>1. /\ phase = "handling" /\ phase' = "done" /\ Sends(response)
      /\ UNCHANGED <<asked, calls, said, fresh, orderly, typed>>
  BY DEF Returns, ghosts
<1>2. Handling
  BY <1>1, InHandling
<1>3. GhostsOK'
  BY <1>1, <1>2 DEF Handling, GhostsOK
<1>4. orderly' => Promised(response)
  BY <1>1, <1>2 DEF Handling, Agreed, Promised
<1>5. /\ ResponseOK(response) /\ response.status # 100
      /\ ~typed' => (Type(response) # NoHeader <=> asked)
  BY <1>1, <1>2 DEF Handling
<1> QED
  BY <1>1, <1>3, <1>4, <1>5, Ends

LEMMA RequestErrorStep ==
    ASSUME IInv, NEW n \in {404, 405, 418}, NEW what \in OwnTexts, RequestError(n, what)
    PROVE  IInv'
<1> DEFINE s == set_status(response, n)
           h == set_header(s, "Content-Type", "text/plain")
           r == set_body(h, what)
<1>1. /\ phase = "handling" /\ phase' = "done" /\ typed' = TRUE
      /\ UNCHANGED <<asked, calls, fresh, orderly>>
      /\ said' = [said EXCEPT !.status = n, !.type = "text/plain", !.body = what]
      /\ Sends(r)
  BY DEF RequestError
<1>2. Handling
  BY <1>1, InHandling
<1>3. n \in Statuses /\ n # 100
  BY DEF Statuses
<1>4. "text/plain" \in Atoms /\ what \in Texts
  BY StockAssumption, OwnAssumption
<1>5. ResponseOK(s) /\ s.status = n /\ s.cache = response.cache
  BY <1>2, <1>3, StatusProperties DEF Handling
<1> HIDE DEF s
<1>6. /\ ResponseOK(h) /\ h.status = n /\ h.cache = response.cache
      /\ h.headers["content-type"] = [key |-> "Content-Type", value |-> "text/plain"]
  BY <1>4, <1>5, TypeKeys, HeaderProperties
<1>7. Type(h).value = "text/plain"
  BY <1>6 DEF Type
<1> HIDE DEF h
<1>8. /\ ResponseOK(r) /\ r.status = n /\ r.cache = response.cache
      /\ r.headers = h.headers /\ r.body = what
  BY <1>4, <1>6, BodyProperties
<1> HIDE DEF r
<1>9. Type(r).value = "text/plain"
  BY <1>7, <1>8 DEF Type
<1>10. /\ said' \in Said /\ said'.status = n /\ said'.body = what
       /\ said'.type = "text/plain" /\ said'.cached = said.cached
  <2>1. said \in Said
    BY <1>2 DEF Handling, GhostsOK
  <2>2. said' = SaidAs(said, n, "text/plain", what)
    BY <1>1 DEF SaidAs
  <2> QED
    BY <1>3, <1>4, <2>1, <2>2, SaidProperties
<1>11. orderly' = orderly /\ typed' = TRUE /\ fresh' = fresh
  BY <1>1
<1>12. GhostsOK'
  BY <1>2, <1>10, <1>11 DEF Handling, GhostsOK
<1>13. orderly' => Promised(r)
  <2> SUFFICES ASSUME orderly' PROVE Promised(r)
    OBVIOUS
  <2>1. response.cache = said.cached
    BY <1>1, <1>2 DEF Handling, Agreed
  <2> QED
    BY <1>8, <1>9, <1>10, <2>1 DEF Promised
<1> QED
  BY <1>1, <1>3, <1>8, <1>12, <1>13, Ends

LEMMA ThrowsStep == ASSUME IInv, Throws PROVE IInv'
<1> DEFINE n == 500
           text == StockText[500]
           r == stock_reply(n, response)
<1>1. /\ phase = "handling" /\ phase' = "done" /\ typed' = TRUE
      /\ UNCHANGED <<asked, calls, fresh>>
      /\ said' = [said EXCEPT !.status = n, !.type = "text/plain", !.body = @ \o text]
      /\ orderly' = (orderly /\ (fresh => said.body = <<>>))
      /\ Sends(r)
  BY DEF Throws
<1>2. Handling
  BY <1>1, InHandling
<1>3. n \in Statuses /\ n # 100 /\ text = Text(n)
  BY TextValues DEF Statuses
<1> HIDE DEF n, text
<1>4. "text/plain" \in Atoms /\ text \in Texts
  BY <1>3, StockAssumption, TextType
<1>5. /\ ResponseOK(r) /\ r.status = n /\ r.cache = response.cache
      /\ Type(r).value = "text/plain"
      /\ response.put = Len(response.body) => r.body = response.body \o text
  <2>1. ResponseOK(response) /\ n \in Statuses
    BY <1>2, <1>3 DEF Handling
  <2>2. /\ ResponseOK(r) /\ r.status = n /\ r.cache = response.cache
        /\ Type(r).value = "text/plain"
        /\ response.put = Len(response.body) => r.body = response.body \o Text(n)
    BY <2>1, StockProperties, SMTT(40)
  <2> HIDE DEF r
  <2> QED
    BY <1>3, <2>2
<1> DEFINE b == said.body \o text
<1> HIDE DEF r
<1>6. b \in Texts
  <2>1. said.body \in Texts
    BY <1>2 DEF Handling, GhostsOK, Said
  <2> QED
    BY <1>4, <2>1, ConcatProperties DEF Texts
<1>7. said \in Said /\ said' = SaidAs(said, n, "text/plain", b)
  <2>1. said \in Said
    BY <1>2 DEF Handling, GhostsOK
  <2> QED
    BY <1>1, <2>1 DEF SaidAs
<1> HIDE DEF b
<1>8. /\ said' \in Said /\ said'.status = n /\ said'.body = b
      /\ said'.type = "text/plain" /\ said'.cached = said.cached
  BY <1>3, <1>4, <1>6, <1>7, SaidProperties
<1>9. orderly' \in BOOLEAN /\ typed' = TRUE /\ fresh' = fresh
  BY <1>1
<1>10. GhostsOK'
  BY <1>2, <1>8, <1>9 DEF Handling, GhostsOK
<1>11. orderly' => Promised(r)
  <2> SUFFICES ASSUME orderly' PROVE Promised(r)
    OBVIOUS
  <2>1. Agreed /\ (fresh => said.body = <<>>)
    BY <1>1, <1>2 DEF Handling
  <2>2. response.put \in Nat /\ response.put <= Len(response.body) /\ Len(<<>>) = 0
    BY <1>2 DEF Handling, ResponseOK, ResponseType
  <2>3. response.put = Len(response.body)
    BY <2>1, <2>2 DEF Agreed
  <2> QED
    BY <1>5, <1>8, <2>1, <2>3 DEF Agreed, Promised, b
<1>12. r.status # 100
  BY <1>3, <1>5
<1> QED
  BY <1>1, <1>5, <1>10, <1>11, <1>12, Ends

-----------------------------------------------------------------------------
LEMMA ReplyStarts == ReplyInit => IInv
<1> SUFFICES ASSUME ReplyInit PROVE IInv
  OBVIOUS
<1>1. /\ phase = "reading" /\ wire = <<>> /\ asked = FALSE /\ calls = 0
      /\ said = Unset /\ fresh = FALSE /\ orderly = TRUE /\ typed = FALSE
  BY DEF ReplyInit
<1>2. /\ 200 \in Statuses /\ <<>> \in Texts /\ <<>> \in Seq(Message) /\ Len(<<>>) = 0
  BY EmptySeq DEF Statuses, Texts
<1>3. /\ response.status = 200 /\ response.body = <<>> /\ response.put = 0
      /\ response.cache = NoText /\ \A f \in Folded : response.headers[f] = NoHeader
      /\ ResponseOK(response)
  BY <1>2 DEF ReplyInit, Fresh, ResponseOK, ResponseType
<1>4. ReplyTypeOK
  <2>1. Unset \in Said
    BY <1>2 DEF Unset, Said
  <2>2. said \in Said /\ calls \in 0..MaxCalls
    BY <1>1, <2>1, MaxCallsAssumption
  <2> QED
    BY <1>1, <1>2, <1>3, <2>2 DEF ReplyTypeOK, Said
<1>5. Type(response) = NoHeader /\ NoHeader.value = ""
  <2>1. Type(response) = NoHeader
    BY <1>3, TypeKeys DEF Type
  <2> QED
    BY <2>1 DEF NoHeader
<1>6. Agreed
  BY <1>1, <1>2, <1>3, <1>5 DEF Agreed, Unset
<1>7. InReading /\ InProgress /\ NotContinue
  BY <1>1, <1>3, <1>5, <1>6, TypeKeys DEF InReading, InProgress, NotContinue, Unset
<1>8. AsDocumented /\ TypeOfContinue /\ OneFinal
  BY <1>1, <1>2 DEF AsDocumented, TypeOfContinue, OneFinal
<1> QED
  BY <1>4, <1>7, <1>8 DEF IInv

LEMMA ReplySteps == IInv /\ [ReplyNext]_rvars => IInv'
<1> SUFFICES ASSUME IInv, [ReplyNext]_rvars PROVE IInv'
  OBVIOUS
<1>1. CASE UNCHANGED rvars
  <2>1. /\ phase' = phase /\ response' = response /\ wire' = wire /\ asked' = asked
        /\ calls' = calls /\ said' = said /\ fresh' = fresh /\ orderly' = orderly
        /\ typed' = typed
    BY <1>1 DEF rvars, ghosts
  <2>2. ReplyTypeOK'
    BY <2>1 DEF IInv, ReplyTypeOK
  <2>3. InReading' /\ NotContinue'
    BY <2>1 DEF IInv, InReading, NotContinue
  <2>4. InProgress'
    BY <2>1 DEF IInv, InProgress, Agreed, Type
  <2>5. AsDocumented' /\ TypeOfContinue'
    BY <2>1 DEF IInv, AsDocumented, TypeOfContinue, Final
  <2>6. OneFinal'
    BY <2>1 DEF IInv, OneFinal, Final
  <2> QED
    BY <2>2, <2>3, <2>4, <2>5, <2>6 DEF IInv
<1>2. CASE Continue
  BY <1>2, ContinueStep
<1>3. ASSUME NEW n \in {400, 413}, Refuse(n) PROVE IInv'
  BY <1>3, RefuseStep
<1>4. CASE Begin
  BY <1>4, BeginStep
<1>5. CASE OwnCall
  BY <1>5, OwnCallStep
<1>6. CASE Returns
  BY <1>6, ReturnsStep
<1>7. ASSUME NEW n \in {404, 405, 418}, NEW text \in OwnTexts, RequestError(n, text)
      PROVE  IInv'
  BY <1>7, RequestErrorStep
<1>8. CASE Throws
  BY <1>8, ThrowsStep
<1> QED
  BY <1>1, <1>2, <1>3, <1>4, <1>5, <1>6, <1>7, <1>8 DEF ReplyNext

(* The types of a response and of what is written of it, for any texts and
   any number of calls; the next write of operator<< or stock_reply falls
   within the body or at its end. *)
THEOREM ReplyTyped == ReplySpec => []ReplyTypeOK
<1>1. IInv => ReplyTypeOK
  BY DEF IInv
<1> QED
  BY <1>1, ReplyStarts, ReplySteps, PTL DEF ReplySpec

(* For any texts, content types and number of calls, what is written is what
   the comments of response.hpp say of the calls, as long as nothing is
   written behind a body that was set to something. *)
THEOREM AsDocumentedAlways == ReplySpec => []AsDocumented
<1>1. IInv => AsDocumented
  BY DEF IInv
<1> QED
  BY <1>1, ReplyStarts, ReplySteps, PTL DEF ReplySpec

(* The Content-Type of a 100 Continue is in the final response exactly when
   the handling sets none, whatever else it calls; connection::do_read. *)
THEOREM TypeOfContinueAlways == ReplySpec => []TypeOfContinue
<1>1. IInv => TypeOfContinue
  BY DEF IInv
<1> QED
  BY <1>1, ReplyStarts, ReplySteps, PTL DEF ReplySpec

(* One final response after at most one 100 Continue, with the length of its
   body, whatever the handler calls or throws; to_buffer and do_read. *)
THEOREM OneFinalAlways == ReplySpec => []OneFinal
<1>1. IInv => OneFinal
  BY DEF IInv
<1> QED
  BY <1>1, ReplyStarts, ReplySteps, PTL DEF ReplySpec
=============================================================================
