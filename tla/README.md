# A TLA+ model of the C! interpreter server

The repository is the back end of a small programming tool: an HTTP server that receives
one line of a C-like language per request, runs it on an interpreter that keeps its
variables in `malloc`ed memory, and answers with JSON. It is made of two programs in one:
the interpreter (`src/mserver/src`, `src/mserver/include`) and a vendored, modified copy of the
`served` web framework (`src/mserver/lib/served`), with `SimpleJSON` for the bodies.

This directory holds TLA+ modules that model them, TLC configurations that check the
modules on small instances, and theorems proved with TLAPS for every instance.
`PROJECT.json` records which definition models which lines, what each run checks, and a
mutated definition for each property that the property must reject.

    tlc -config LineReaderMemoria.cfg MCLineReaderScopes     # check a model
    tlapm LineReaderProofs.tla                               # check proofs

## 1. The system

| part | state | operations |
|---|---|---|
| line interpreter, `src/lineReader.cpp` | stack of variables, 15 block pointers, slot counter, brace counter, block flag; scratch members | `leerLinea` (braces, `cout`, declaration, assignment), `clear`, `memory` |
| endpoints, `include/http_server.h`, `src/main.cpp` | one global `lineReader` | `NewLine`, `ClearLines`, `MemorySaved`, start with ten threads |
| server, `net/server.cpp` | acceptor, the socket to accept into, signal set | `run`, `do_accept`, `do_await_stop`, `stop` |
| connections, `net/connection*.cpp` | socket, two timers, `_status`, the set of live connections under a mutex | `start`, `do_read`, `do_write`, `stop`, `stop_all`, timer handlers |
| request parser, `request_parser*.{rl,cpp}` | state of the Ragel machine, held-back bytes, body expected and read, bytes counted | `parse`, `execute`, `http_field`, `parse_body`, `query_string` |
| multiplexer and matchers, `multiplexer.cpp`, `mux/` | routes in order of registration, base path, plugins | `handle`, `handler`, `forward_to_handler`, `on_request_handled` |
| requests, responses, URIs, parameters | header and parameter maps, status, body stream | setters, `to_buffer`, `query_escape`, `query_unescape` |
| JSON, `lib/SimpleJSON` | a value tree | `Load`, `dump`, escaping |

How they interact: `server` accepts a socket, makes a `connection` with a parser of its
own, and gives it to `connection_manager`. The connection calls `parse` once per chunk
that TCP delivers; on `FINISHED` it calls the multiplexer, which calls an endpoint, which
calls the one interpreter all threads share; the response goes back through `do_write`.
Everything runs as completion handlers of one `io_service` on a pool of threads.

What is hard in it:

* *Concurrency.* Handlers of one connection run on any thread of the pool. The manager's
  mutex covers its set and not the sockets; the interpreter has no lock at all.
* *Timers* are armed when a connection is constructed and waited on later; a handler
  already queued cannot be cancelled, so it races the completion it was meant to bound.
* *Shutdown* races with an accept handler that has passed its test.
* *Chunks.* TCP cuts a request anywhere, and the state machine keeps part of its state in
  local variables.
* *One object for several answers.* The response that carries a 100 Continue is the one
  the handler fills later, and its body is a stream with a write position.
* *Reading past the end.* The JSON parser never asks whether the text has ended; it relies
  on the zero byte behind a `std::string`.
* *Long histories.* A refused declaration advances the slot counter, so the counter, the
  stack and the memory map drift apart, request after request, until `clear`.

What makes each part correct: the interpreter's heap holds one block of the right type
for each live variable, and it behaves as an ordered environment of typed variables; a
connection has one operation at a time, handles its request once, is never lost and
always ends; a parsed request does not depend on how it was cut; a request goes to the
first route that matches; a request line is accepted exactly if the grammar has it (the inside of an IP literal aside), and
its parts are cut where the grammar says; an escaped query or JSON string reads back as
itself; the message that leaves is what the calls on the response were documented to make.

## 2. Modules

| module | models | kind |
|---|---|---|
| `VarStack` | nothing: what the interpreter promises | abstract specification: an ordered environment of typed variables |
| `LineReader` | `lineReader.cpp`, a request as one step | component |
| `LineReaderScopes`, `LineReaderWrites` | `LineReader` with a history variable | one question each, about braces and about assignments |
| `LineReaderProofs`, `LineReaderScopesProofs` | | theorems |
| `LineReaderThreads` | the same code cut at its shared members, under a pool of threads | refines `LineReader` with one thread |
| `LineReaderThreadsProofs` | | that refinement |
| `Connection` | `connection.cpp`, `connection_manager.cpp` | component |
| `Server` | `server.cpp`, composed with `Connection` | composition |
| `ServerProofs` | | theorems |
| `RequestParser` | `request_parser_impl.cpp` and the header part of the state machine | component |
| `RequestParserProofs` | | theorems |
| `Multiplexer` | `multiplexer.cpp` from `forward_to_handler` on, and `mux/` | component |
| `Registration` | `multiplexer::handle`, `use_wrapper`, `methods_handler`, then `Multiplexer` | composition |
| `MultiplexerProofs` | both of them | theorems |
| `UriGrammar` | the byte classes and IP literals of the state machine (states 46 to 172) | operators |
| `RequestLine` | the request line in `request_parser.cpp` (states 1 to 12, 19 to 193), the callbacks, `query_string`, `uri.cpp` | component |
| `UriReference` | nothing: RFC 3986 read off the whole target | reference for `RequestLine` |
| `RequestLineProofs` | | theorems |
| `Response` | `response.cpp` | operators |
| `Reply` | the response of one connection from `do_read` to `do_write`, with any handler in between | component |
| `ReplyProofs` | | theorems |
| `JsonText` | `Load`, `dump`, `ToString`, `operator[]` of `SimpleJSON/json.hpp` | operators |
| `JsonReference` | nothing: what a JSON text means | reference for `JsonText` |
| `Exchange` | `include/http_server.h`, over `RequestLine`, `JsonText` and `Reply` | composition |
| `MC...` | | values and symmetry for TLC |

**`LineReader`.** `stackVar`, `memoria`, `numVariables`, `llavesDisponibles` and
`isllaveAbierta` are the members of the class; `fallo` records how the process died and
`respuesta` what was answered. `memoria` maps a slot to the value of its block, to `Nulo`, or
to `Indeterminado`, a pointer that `malloc` never initialised. One action stands for each
request: a declaration, for instance, is `Declaracion`, and its three ends are
`declararRepetida` (the name exists; the counter has moved), `declararNueva`, and
`declararDesbordada` (the sixteenth slot). Values are abstract: `Aritmetica` and `Conversion`
are arbitrary functions, and where the code reads a block of one type as another the
result is any value of the type read. A null dereference (`fallo = "nulo"`) and undefined
behaviour (`"indefinido"`) end the behaviour: nothing is claimed after either.
The scratch members (`linea`, `tipoVar`, `nombreVar` ...) are written before they are read in
every request; `LineReaderThreads` has them, and checks that leaving them out is right.

**`LineReaderThreads`.** A request is cut wherever it goes through a member another thread
can change: reading the line, taking name and value from it, counting, allocating,
pushing, each pop of a loop. `conf` is a ghost: the interpreter as the last completed
request left it, and refinement is stated over it. Memory is sequentially consistent;
torn strings and pointers are left out, so this module shows what certainly goes wrong.

**`Connection` and `Server`.** An asynchronous operation is `pending` until the client, the
network or a `close` ends it, and then queued with its outcome. A handler is split where
another thread may come in: between `parse`, the endpoint, the wait on the write timer
and the write; between erasing a connection under the lock and closing it after; between
the accept handler's test, the insertion, the first read and the wait on the read timer;
between closing the acceptor and `stop_all`. A handler starts when a thread is free, and
one in several steps holds it. The result of `parse` is any that its status allows
(`RequestParser` says which follow one another), except that `EXPECT_CONTINUE` comes once,
which `AskedOnce` checks of the parser. `io_service::stop` stops handlers from starting.

**`RequestParser`.** A request is a sequence of bytes that keep what the parser looks at:
the request line is one byte (`parse` never executes it in two parts, as it holds
everything back until a line break), a name or a value is two, and a `bad` byte is one no
state accepts. `Goes` is the header part of the Ragel automaton (states 12 to 18 and 194),
`Marked` its marks, offsets that restart at zero with each call of `execute`. Each disjunct
of `parse` is one way through it: `RejectSize`, `Hold`, `Execute` (with the five ways its header
may end), `ReadBody`.

**`Multiplexer` and `Registration`.** A request goes through `forward_to_handler` and `handler` a
segment at a time: `frames` is the stack of wrappers that have not returned, `cand` and `seg`
the two loops over the routes, `Throw` the exception that `connection` turns into a response.
The routes do not change while the server runs, so they are any table in `Multiplexer` and what
the calls of the set-up made of them in `Registration`. A path is its words and whether it
ends with a slash, so `handle` compares paths without repeated slashes where the code compares
their text; a matcher is its kind, the words it accepts, and the name it collects.
An empty path leaves `split_path` to look at the byte before its first: both outcomes are
there (`Exchange` has one, as no route of its own has an empty segment). What a handler or a plugin
throws is status 500, whatever it is, and wrappers do not throw. The ghosts `ran` and `path_segments` record what each handler was called with.
`FirstMatch` and `OwnParams` compare that with the whole path of a route, base and all, which
the code never puts together.

**`RequestLine` and `UriGrammar`.** One action per kind of state of the Ragel machine, one byte a
step: `mark` and `query_start` are the locals of `execute`, `hex` counts the digits a `%` still
asks for (the machine has two states of its own for each place where one may stand), and an
action that ends a part makes the callback's assignments to `method`, `url`, `query` or
`version`. A byte for which no action is enabled is `Reject`. States that the machine needs only
because it reads an IP literal left to right (47 to 172) are the operators of `UriGrammar`, which
say of a whole literal whether those states let it through. Bytes are single letters;
the ones no state tells apart are one, `"other"`. Escaped octets are those of the bytes the
clients escape (`Octet`). A request line is given as its method, which goes up to the first space,
its target, up to the next, and its version, up to the end of the line (`RequestLineType`): a
line with fewer than two spaces is not among them, and neither is one that never ends. The field
`pairs` is no part of it: it says which parameters the client has escaped and joined into the query
(`QueryOf`), if any.

**`UriReference`** has the same language declaratively: where the scheme, path, query and
fragment of a target begin and end, and which bytes each may hold. It shares with the
machine only the byte classes. What is between the brackets of an IP literal it leaves open: there
the code's grammar is not that of RFC 3986 (section 4), and `IP_literal` is compared with nothing.

**`Response` and `Reply`.** `Response` has each member function as an operator; `put` is the write
position of the body stream. `Reply` is the one response object of a connection: a
`Continue`, a `Refuse`, or the handler's calls between `Begin` and one of `Returns`,
`RequestError` and `Throws`. The ghost `said` is the response the comments of
`response.hpp` promise; `orderly` turns false at a call they do not describe rightly. There
are two such: `<<` after `set_body` writes over the beginning of the body, though
line 115 says it appends, and `clear` leaves the body and a cached response, though
line 72 says it sets all fields back.

**`JsonText` and `JsonReference`.** The recursive descent with the place it has come to. `Read`
is a value and the place behind it; `Fails("throw")` is an exception of `stol` or `stod`;
`Fails("past")` a read beyond the zero byte that ends a `std::string`, after which nothing is
known. Words (`true`, `null`, the pieces of a `cout`) are one letter of a text. A `long` is an
integer up to `MaxLong`; a double is the decimal it is nearest to (`Float`, m times ten to the k), and
`to_string` rounds it to the six decimals of `std::to_string`. Doubles beyond the greatest one, halfway cases
of that rounding, which depend on their last bits, and the sign of a zero are left out.
`JsonReference` writes a tree the way a client would (`Document`), with spaces, decimals, exponents and either
kind of escapes, says what it means (`Denotes`), and which documents the library reads otherwise (`Departs`,
`Throwing`).

**`Exchange`.** A request line, what follows it (`Follows`), the verdict of `parse`, the three routes
and their handlers. `NewLine` is cut in two, `Loads` and what the handler makes of it.
Routes of its own (`OwnRoutes`) stand for the handlers of another program on the same
framework; they make calls of `Reply` and throw. One status and one stock reply stand for all of
theirs, so a handler that sets status 100 itself is left out, and so is a wrapper that touches the
response before `multiplexer::handler` does or never calls it.

## 3. Runs

| run | properties | what it shows |
|---|---|---|
| `interpreter_memory` | `TypeOK`, `MemoriaCoherente`, `MarcasAcotadas`, `ImplementaVarStack`, `MuerteConCausa`, `HuecosHastaLimpiar`, `AmbitoRestaurado` | on every history of requests the heap is sound, the interpreter implements `VarStack`, lost slots stay lost until `clear`, the process dies only for the causes named, and a closing brace restores the stack of its opening brace, provided each block declares something |
| `interpreter_assignment` | `SoloCambiaLaNombrada`, violated | a `char` assignment writes to the wrong variable |
| `interpreter_one_thread` | `ImplementaLineReader` | the many steps of a request are the one step of `LineReader` |
| `interpreter_two_threads` | `CoherenteEnReposo`, violated | with two threads they are not: the heap is unsound afterwards |
| `server_safety` | `TypeOK`, `OneOperation`, `HandledOnce`, `NoSocketLost`, `NoneStuck`, `OneOutlives` | a connection's operations never overlap, a request is handled once, no socket is lost, none held is stuck, and of all connections one at most outlives a shutdown by signal |
| `server_liveness` | `EveryConnectionEnds`, `ShutdownEnds` | with both timeouts, connections and the shutdown end |
| `server_shutdown` | `ShutdownClosesAll`, violated | a connection inserted after `stop_all` outlives the shutdown |
| `parser_chunks` | `TypeOK`, `AnyCut`, `AllDecided`, `SizeKept`, `AskedOnce` | a request comes out as it was sent whatever the cuts, outside header fields |
| `parser_any_cut` | `AnyCut`, violated | a cut inside a header field loses it |
| `multiplexer_routes` | `TypeOK`, `FirstMatch`, `OwnParams`, `InsideWrappers`, `TableAsRegistered` | the table is what was registered last; the first route that matches decides; a handler sees its own parameters, inside every wrapper |
| `multiplexer_wrapper_retry` | `InsideWrappers`, violated | a wrapper that calls `next` twice gets past the wrappers nested in it |
| `exchange` | `TypeOK`, `AcceptedIsLegal`, `LegalIsAccepted`, `ComponentsAsWritten`, `QueryReadsBack`, `DocumentsReadBack`, `DumpReadsBack`, `StaysInside`, `EchoReadsBack`, `MemoryReadsBack`, `StatusOfRequest`, `AsDocumented`, `TypeOfContinue`, `OneFinal` | see below |

What `exchange` shows, from the first byte of a request to the message for it:

* the machine accepts a line without an IP literal exactly if its method is known, its target is
  made of legal components and its version is 1.0 or 1.1; one with a literal it accepts only if all
  outside the brackets is legal (`AcceptedIsLegal`, `LegalIsAccepted`); and the URI, path, query and
  fragment it cuts out are those components (`ComponentsAsWritten`);
* parameters escaped with `query_escape` are what `request.query` holds, the last of a key
  given twice (`QueryReadsBack`);
* a whole document is read to its end and as meant exactly if it is not a number with nothing
  behind it, no exponent in it loses a digit that counts, and nothing in it is spelled with a `\u`;
  `stol` throws exactly if an exponent loses its only digit (`DocumentsReadBack`);
* what `dump` writes of a value that was read is read as the same, with doubles rounded to six
  decimals, unless it is just a number, which is read as null (`DumpReadsBack`);
* the parser reads outside the text only if that ends inside a string, in a number or in an
  exponent, or if it is no JSON and a quote was taken with a malformed number; `[1e-]`, for
  instance, ends in an exponent, as the letter behind a minus sign belongs to it whatever it is
  (`StaysInside`);
* a text printed with `cout` reads back as itself from the reply exactly if nothing in it was spelled
  with a `\u`, though it is decoded, escaped, cut out of a line and pasted on the way
  (`EchoReadsBack`);
* what `memory` lists reads back as the variables exactly if there is one, and none is a char
  that holds a quote or a backslash (`MemoryReadsBack`);
* the status fits the line, the route and the document, and of a document that was cut off only a
  line that came whole is obeyed (`StatusOfRequest`);
* the message is what the calls on the response are documented to make (`AsDocumented`), there is
  one, of the length it announces (`OneFinal`), and its content type is the one left by a
  100 Continue exactly if the handling set none (`TypeOfContinue`).

### Bounds, and why they are enough

* *Interpreter.* Three slots instead of fifteen (`Capacidad`), three names, a numeric type and
  `char`: enough for a refused declaration below, between and above live variables, for a full
  `memoria`, for a block nested in another and for the sixteenth-slot case. Values are two
  numbers and one character, and `interpreter_memory` has no operators: its properties do
  not ask what a number is worth, and truncation and sums are in `interpreter_one_thread`
  and `interpreter_assignment`. `MaxNumVariables` and `MaxLlaves` cap the two counters, which
  the code leaves unbounded; the slot counter may reach one past the end of `memoria`, and
  braces go two deep. The theorems hold without these numbers: they assume of the two caps
  only that they are naturals.
* *Threads.* One thread for the refinement, two for the violation; two slots and two names.
* *Server.* Two connections and two threads: a connection can race itself, the accept
  loop, the signal or the other connection, and the threads can all be busy. Handlers of
  different connections share only the manager's set and the threads.
* *Liveness.* One connection, two threads: a connection contends with the accept loop and
  the signal.
* *Parser.* Up to three header fields out of eight lists, one of them with a repeated
  field, bodies of up to two bytes, shorter and longer than announced, a negative length and
  one that is no `int` (`MaxInt` is 2, `SizeT` 8: more than any body here), both line endings,
  a malformed byte, and a limit of 30 bytes that some of the requests exceed and others do not.
  Chunks are any length.
* *Multiplexer.* Up to four calls of the set-up, in any order, over four paths: a static
  word, a variable, a static word and a regular expression, and `/`, which matches any path.
  Any two of them overlap or shadow one another; a path can be handled twice, a method
  given twice or not at all. The base path collects a parameter under the name the routes
  use too. Requests have up to three words, with and without the last slash, and the empty
  path. Wrappers call `next` at most once, as the documentation of `use_wrapper` supposes.
* *Request lines* (`MCExchange`). Every state of the machine is reached and followed by any two
  bytes out of twelve that stand for the classes it tells apart; besides, every scheme with
  every authority (user information, host or IP literal, port), and every scheme with every
  path, query and fragment; all ten methods and some that are none, all versions and some that
  are none. Queries have one or two parameters whose bytes need escaping.
* *Documents.* Trees two levels deep over every kind of value, with and without spaces, and with
  `\u` for every letter that needs an escape; strings of up to two characters, in a `cout` of three,
  out of a letter, a quote, a backslash, a line break, a slash and a backspace. Numbers
  (`Numbers`) by themselves, in an array and beside a line: longs up to both limits (`MaxLong` is 1023), up to
  seven decimals that `dump` rounds up, down and to zero, and every sign of exponent, of one digit
  and two, with and without a zero before. Five documents cut off after each of their
  letters; arrays and strings of any three letters out of those that numbers and escapes are
  made of (`AnyTexts`), and longs one beyond the limits.
* *Memory.* Stacks of up to two variables, an `int` and a `char` of six letters, with a plain
  name and an escaped one: an empty list, a last comma and a comma between.
* *Handlers.* Up to three calls (`MaxCalls`) out of all that the response has, with one status and
  one stock reply, after a
  100 Continue or without one: enough to set, write, measure and write again.

`CHECK_DEADLOCK FALSE` is in every configuration because every one of these systems may
rightly stop: a dead process, a server stopped and drained, a request that is over.

### Fairness

`FairSpec` of `Server` assumes that a queued handler is eventually started (strong fairness:
free threads come and go, and the queue of an `io_service` is first in, first out), that
a running handler goes on (endpoints and plugins return), and that deadlines pass.
Nothing is assumed of clients, of the signal or of who calls `stop`. Both properties make
an exception of a stopped `io_service`, which abandons what it had, and need both timeouts:
`HttpServer::StartServer` sets neither, so in the program as deployed a silent client keeps
its connection, and a shutdown waits for it.

## 4. Findings

1. `lineReader.cpp:488` stores a `char` through `memoria[numVariables]`, the newest slot, and
   not through the variable of the line (`interpreter_assignment`). After a refused
   declaration that slot holds no block.
2. One interpreter is shared by the ten threads without a lock (`interpreter_two_threads`);
   `http_server.h:21` says ten requests are supported at the same time.
3. `server.cpp:147`: a connection whose accept handler has passed its `is_open` test when the
   signal is handled is inserted after `stop_all`, stays open and is served
   (`server_shutdown`).
4. `request_parser.rl:244`: the marks of a header field are locals of `execute`
   (`parser_any_cut`). `parse` has a branch to hold partial lines back,
   `request_parser_impl.cpp:84`, which can never be taken.
5. `multiplexer.cpp:254`: the wrappers of a request share one counter, so a second call of
   `next` skips the nested wrappers (`multiplexer_wrapper_retry`).

One more disagreement needs no run: `server.cpp:136`, `stop`, tells the `io_service` to stop and
returns, while `server.hpp:87` promises that it blocks until the connections are closed.

More facts the modules state as they are, and that their properties are worded around.
In the interpreter and the parser of chunks:
a `{ }` with nothing declared in it closes the enclosing block (`AmbitoRestaurado` asks for a
declaration in each), or follows a null pointer when there is none (`MuerteConCausa`); and
a client that sends `Expect: 100-continue` without waiting has its first body bytes dropped
(`ClientWaits` in `RequestParser`). A negative `Content-Length` is a body without end
(`request_parser_impl.cpp:256`), and one that is no `int` a request without body (`AllDecided`).
The reply of `memory` is malformed when there is no variable, `lineReader.cpp:549` cutting the
opening bracket, and when a char holds a quote or a backslash, as it may when its value comes from
a variable of another type (`lineReader.cpp:314`; `MemoryReadsBack`).

In the request line:

* The grammar at `request_parser.rl:153` follows the notation of RFC 3986, which line 106 cites,
  with its repetition counts in front: Ragel takes `6( h16 ":" )` for the byte 6 followed by one
  group. Addresses like `1:1:1:1:1:1:1:1` and `1::a` are refused, and one with a control byte is
  accepted (all three are lines of `exchange`, and `UriReference` does not judge them).
  `{1,}` in the other alternatives lets a `::` follow more groups than an address has.
* `dec_octet` (line 142) has `"0"-"4"` for what should be a range: in Ragel it is a difference,
  so that two-digit octets begin with 1, and of those from 200 on only 200 to 209 and 250 pass.
* The path keeps the authority: a request for `http://host/newline` is answered 404.

In the JSON parser:

* `ToString` escapes again what was decoded. Because the keys of an object go through it as well,
  they are kept escaped; `dump` relies on it, and the reply of a `cout` is well-formed because
  of it.
* `\u` escapes are not decoded. An unknown escape becomes a backslash.
* The first letter of an exponent is read and dropped, a second one after a minus sign;
  where no digit is left, `stol` throws and the client gets a 500.
* A number that ends the text reads as null.
* A double is written with six decimals: `[0.0000001]` comes out of `dump` as `[0.000000]`.
* An error in a nested value ends its container and not the document.

In the response, besides the two departures of section 2: the `Content-Type` of a 100 Continue
stays in the final response of a handler that sets none.

## 5. Proofs

Everything is proved for arbitrary constants: names, types, values, arithmetic, conversions
and capacity (interpreter), connections, threads and timeouts (server), requests of any
number of fields and any body, limits and integer widths (parser), paths, chunks, base path
and wrappers (multiplexer), texts, types and calls of a handler (reply), request lines of any
length (request line). The assumptions on
them are named in the modules and evaluated by TLC in the runs: `TiposAssumption`,
`ValoresAssumption`, `AritmeticaAssumption`, `CotasAssumption` of `LineReader`;
`TimeoutsAssumption` and `ServerAssumption` (a thread at least); `RequestsAssumption`,
`LimitAssumption`, `WidthAssumption` (a `size_t` is wider than an `int`); the types of the constants of
`Multiplexer`; `ChunksAssumption`, `HandlersAssumption` of `Registration`; `NoTextAssumption` of
`Response`; `OwnAssumption`, `StockAssumption`, `MaxCallsAssumption` of `Reply`;
`RequestLinesAssumption` and `PairsAssumption` of `RequestLine`. The caps on counters
are any naturals.

`PairsAssumption` says what `pairs` means and leaves out no request line, since `pairs` may be empty:
where it is not, its keys and values are of bytes that need no escape or that `Octet` has the octets of,
and the query of the target is what `QueryOf` makes of them.

| theorem | states |
|---|---|
| `TipoCorrecto` (`LineReaderProofs`) | `[]TypeOK` |
| `MemoriaSiempreCoherente` | `[]MemoriaCoherente` |
| `HuecosNoSeRecuperan` | `HuecosHastaLimpiar`: a lost slot is recovered by `clear` alone |
| `MuerteSoloConCausa` | `MuerteConCausa`; lemma `SinHuecos`: with no slot lost, variable i is in slot i - 1 and the counter at the top |
| `MarcasSiempreAcotadas` | `[]MarcasAcotadas`, by induction on top of `IInv`, with cardinalities of `Marcas` |
| `Refina` | `Spec => ImplementaVarStack`, under the mapping that reads each variable of the stack through its slot |
| `AmbitoSiempreRestaurado` (`LineReaderScopesProofs`) | `ASpec => AmbitoRestaurado`: a closing brace removes all its block declared and nothing else |
| `UnHiloImplementa` (`LineReaderThreadsProofs`) | `HSpec => ImplementaLineReader` when there is one thread |
| `ServerTyped`, `OneOperationAlways`, `HandledOnceAlways`, `NoSocketLostAlways`, `NoneStuckAlways`, `OneOutlivesAlways` (`ServerProofs`) | every invariant of `server_safety` |
| `SizeKeptAlways`, `AskedOnceAlways` (`RequestParserProofs`) | `[]SizeKept`, `AskedOnce`, whatever the cuts |
| `ParserTyped`, `AnyCutAlways`, `AllDecidedAlways` | `[]TypeOK`, `[]AnyCut`, `[]AllDecided`, when no chunk splits a field and the client waits for its 100 Continue |
| `DispatchTyped`, `FirstMatchAlways` (`MultiplexerProofs`) | `[]TypeOK` and `[]FirstMatch` of `MSpec`, any table of routes |
| `OwnParamsAlways`, `InsideWrappersAlways` | `[]OwnParams`, `[]InsideWrappers` of `MSpec`, when wrappers call `next` once at most |
| `RegistrationTyped`, `TableAlways`, `FirstRegisteredMatch` | `[]TypeOK`, `[]TableAsRegistered`, `[]FirstMatch`, from the first call of the set-up on |
| `OwnParamsRegistered`, `InsideRegisteredWrappers` | `[]OwnParams`, `[]InsideWrappers` from the first call of the set-up on, when `MaxNext <= 1` |
| `ReplyTyped`, `AsDocumentedAlways`, `TypeOfContinueAlways`, `OneFinalAlways` (`ReplyProofs`) | `[]ReplyTypeOK`, `[]AsDocumented`, `[]TypeOfContinue`, `[]OneFinal` of `ReplySpec` |
| `LineTyped` (`RequestLineProofs`) | `[]LineTypeOK` of `LSpec`, the request line by itself |
| `ComponentsAlways` | `[]ComponentsAsWritten`: the parts cut out of an accepted line are the components of its target |
| `AcceptedLegalAlways` | `[]AcceptedIsLegal`: what the machine accepts the grammar has, the inside of an IP literal aside |
| `QueryReadsBackAlways` | `[]QueryReadsBack`: `request.query` holds the parameters that were joined into the query |

The hypotheses of those that have one are the circumstances of the run that checks the same
property, and the runs that expect a violation show that they are needed: `parser_any_cut`
for a chunk that splits a field, `multiplexer_wrapper_retry` for a wrapper that calls `next`
twice. The other one, `ClientWaits`, is the protocol of RFC 7231: without it the first body
bytes are dropped (section 4).

**The inductive invariant of the interpreter** is `IInv == TypeOK /\ MemoriaCoherente`. Type
correctness is not inductive by itself: the slot a declaration takes is `numVariables + 1`, and
a closing brace lowers the counter once for each variable it pops, so that it stays at least
-1 only because of `PilaOrdenada`: above each variable's slot the counter has counted every
younger variable. That conjunct also gives that the next slot is free, hence
`UnBloquePorVariable` (one block per variable, none leaked or freed twice), and with
`NombresUnicos` that the variable `encontrarVar` finds owns the slot written. `LineReaderProofs` has
one lemma for each way the state changes (`PopConserva`, `DeclararConserva`, `RepetirConserva`,
`EscribirConserva`, `ClearConserva`); `Casos` reduces a step to one of them and `Paso` puts them
together.

For the refinement, each kind of step maps to one action of `VarStack` or to a stutter: a
declaration appends to the environment, an assignment changes one value (any one: finding
1 is why `VarStack` does not say which), a closing brace and `clear` drop a suffix, a death
ends it, and replies and refused lines are stutters.

`AmbitoRestaurado` compares the one bit the code keeps of a "{" with the heights a reader
remembers. Its invariant `AInv` says, of a disciplined program, that the heights of the open
blocks increase strictly and stay below the height of the stack, which the newest equals until
its block declares something (`Escalones`), and that the marked variables are the first of each
block and others below all blocks, like the very first declaration of a program (`Marcados`). So
the newest mark is that of the newest block, and the stack has it. A program that leaves a block empty is not disciplined, until everything is
cleared.

**The many steps of a request** are proved to be one over the ghost `conf`: `P` is an instance of
`LineReaderProofs` with the fields of `conf` for the members of the class, so that what the last
request left is known to satisfy `IInv`. `Donde` says, for each place where the thread may be, how
far the members have moved away from `conf` and what the scratch members hold (`LineaDe`):
after the line is read nothing has moved; inside a declaration the counter is one ahead, then the
memory; inside a loop that pops (`Sacando`), the stack is a prefix of the one in `conf`, and memory and
counter are what `Liberada` makes of it. The last step of each request then finds exactly what
the one step of `LineReader` computes, and all earlier ones are stutters. That `Hilos` is one
thread is the hypothesis of `interpreter_one_thread`; `interpreter_two_threads` shows what happens
without it.

**The inductive invariant of the server** has three parts besides the types. `LoopInv` ties the accept
loop to the connection it is making. For each connection, `Begins`, `Placed`, `Moving`, `Aborts`,
`Alone` and `Answering` relate where it stands (accepted, in the set, taken out, closed) to its two
operations, its task, its timers and its status: at most one operation or handler at a time
carries the request on, an aborted operation means a closed socket, and an open socket in the
set has something that moves it on. `Late` counts what outlives a shutdown: once the signal is
handled, the set and the connection just made are one connection at most. `SameStep` and
`ElsewhereStep` show that a handler of one connection leaves the invariant of the others alone;
with them there is one lemma for each handler, and none depends on how many connections or
threads there are.

**The inductive invariant of the parser** speaks of positions. `Off` and its lemmas say which byte
stands where in a request of any number of fields (`LineBytes`, `HeaderBytes`); `Between(q, s, fs)`, at
which byte a call of `execute` may begin, in which state, with which fields stored; and
`Follows(e, c, p)`, what p bytes of a call have made of the machine, its marks and the fields,
whichever piece of the request was passed. `StepFollows` takes one byte, and `ExecuteFollows`
concludes for the whole call, by induction over its length. `IInv` then has the counters
(`Counted`), the bounds (`Fits`), and one conjunct for each thing a parser may be doing: `InHeader`,
`Asking`, `InBody`, `AllRead`, `Refused`. `SizeKept` and `AskedOnce` follow from `Counted` alone, which needs
nothing of what `execute` computes and hence neither hypothesis.

**The inductive invariant of the multiplexer** adds to `FirstMatch` what the search has found out so
far: `InBase`, that the segments compared match and nothing was cut off yet; `InScan`, that
the base path matches the path, the rest is what follows it (`BaseCutOff`), no earlier route
takes the path (`NoneBefore`), and the candidate matches up to `seg` (`MatchesSoFar`). The lemmas
`WholeSegments` and `Rest` carry that over from the rest of the path to the whole of it, where
`FirstMatch` speaks; `CandidateTakes`, `CandidateDoesNot` and `BaseRejects` are the three verdicts.
For the wrappers, `NInv` adds that each calls `next` once at most (`Once`), that until a request
comes back out the frames are the wrappers called, in order, each with its one call made but
the innermost (`Nested`), and that the parameters collected are those of the base path and of
the candidate as far as `seg` (`OwnSoFar`).

Once the routes are registered, a step of `Registration` is one of `Multiplexer`, so that `RInv` is `IInv`
with the types of the set-up and `Table`: one route for each path that was handled (`Every`), in
the order of the last calls that did (`Ordered`), with the handler given last since (`Given`).
`handle` removes the old route with `Without`, a recursive function on sequences of any length:
`WithoutUnfolds` proves its equation by induction, as the absence of a least counterexample
(`Least`), and `KeptPlaces` says which places the routes it keeps had before.

**The inductive invariant of the reply** is `IInv`: the types, the three properties, and what has to be
known before the exchange is over. `Agreed` is the heart of it: while every call was one
the comments describe, the response and `said` have the same status, type, body and cached
text, and the write position is at the end of the body unless the body was just set.
`InReading` and `InProgress` say when `Agreed` is in force and what a 100 Continue has left behind;
`NotContinue`, that a response being handled never has status 100. There is one lemma for
each call (`SetBodyStep` to `StockStep`), one for whatever ends an exchange (`Ends`), and one
for each action of `connection`. The theorems are about `ReplySpec`, the response with any
handler. The handlers of `Exchange` make only calls that `ReplySpec` has too (a write, a stock
reply of 400), at times and under conditions of their own; `Exchange` itself reaches
recursive operators through `JsonText`, and is checked by TLC.

**The inductive invariants of the request line** are two, one on top of the other. `LInv` is the types
and `Cut`, which says of each state what the bytes between the marks are: in `"scheme"` that no byte
so far ends a scheme, a path or the target; in the states of a path, that whether there is a
scheme is settled (`Settled`) and that `mark` is behind it; in `"query"`, that the path in `url` is what
is between `mark` and the question mark (`PathCut`). `PartsAre` turns that into the components which
`UriReference` takes apart once the target has ended. Two things it needs are not obvious.
An escape may be open only in a state that has one (`OfEscape`), or `HexDigit` could take bytes
elsewhere; and a literal is skipped in one step, so that `IP_literalBytes` has to show that nothing
the eight alternatives of the grammar let through is a space, a `?`, a `#` or a bracket.

`GInv` adds what has been read of the grammar. That a line is legal is a statement about all its
bytes, and proving it after the fact would be an induction over them. `MethodRead`, `TargetRead` and
`VersionRead` make the machine's steps that induction: they say of each state which rule the bytes
taken so far follow, in the terms of `Fine` (bytes of a class and escapes, of which the last still asks
for `hex` digits). In `"port?"`, for instance, a name and a colon with digits have been read, which
is a host and its port or else, should an `"@"` follow, a user and a password (`PortIsUser`); in
`"regname"`, user information up to some `"@"` and then a name. `AuthorityLegal`, `PathLegal`, `FrontLegal`
and `FragmentLegal` conclude, wherever a part ends, that the reference takes the bytes apart at the
same places and finds them legal; the cuts are `CutAt`. There is one lemma for each action and
invariant (`HostCut` and `HostRead`, for instance).

**What a query reads back as** is a statement about `query_escape`, `query_unescape` and `query_string`, three
recursions over data of any length; the induction is once more the absence of a least
counterexample (`Induction`). `FlattenUnfolds`, `UnescapeUnfolds` and `QueryUnfolds` show that the recursive
functions exist and satisfy their equations; the last two go forward by more than one place and
share `Forward`. `Flattened` says where each piece stands in what `FlattenSeq` has made of them
(`MadeOf`), once for the escapes of a text and once for the pairs of a query. From the end backwards,
`UnescapeEscape` finds at the start of each escape the rest of the text, and `QueryRead` at the start
of each pair the rest of the pairs: no escaped byte is an `&` or a `=` (`WrittenBytes`), so that `Find`
stops where the client has joined (`PairIs`). `QInv` adds to `LInv` that from where the query ends on, `query` is
what `query_string` makes of it (`QueryTaken`), and `NoQueryYet` that a target without one ends with
an empty query.

These theorems are about `LSpec`, a request line by itself. Every action of `Exchange` either is
`execute` with the variables of the response unchanged, or leaves those of the line alone, so
they hold of its lines as well.

**Only model-checked:**

* Liveness and fairness, which are out of the prover's reach.
* `LegalIsAccepted`: a byte is refused when no action is enabled, and `ENABLED` is out of reach too.
* The properties of `Exchange` about documents, handlers and statuses. `JsonText` and `JsonReference`
  are written with recursive operators, for which the prover has no arithmetic, and that takes
  everything that extends them with it. The three about the response are proved of `Reply`.

## 6. Not modelled

* The text of replies other than those of a `cout` of a text and of `memory`; parsing a line into
  words.
* Undefined points of the conversions between numbers (`lineReader.cpp:367`), and what memory
  looks like after undefined behaviour.
* Torn accesses: two threads inside one socket, timer or string.
* The response once `do_write` has it: a plugin that runs after the write can still change it
  (`connection.cpp:136`). What plugins do to a response before is any handler's calls.
* The endpoint list of the multiplexer, which the program never asks for.
* The rest of the `JSON` class (building documents in C++, iterators, conversions): no part of
  the program uses it. Doubles out of range, and the last bits of one.
* The reason phrases of `status.hpp`, the accessors of `request` and `parameters`: no state.
* Build files, `version.hpp`, and `access_log`, of which only the declaration is here.

## 7. Plan

1. `OneFinal` and its companions for `Exchange`, which needs `JsonText` with recursive functions in
   place of its recursive operators.
2. `Connection` with the verdicts of `RequestParser` in place of any that its status allows.
