----------------------------- MODULE Registration -----------------------------
(***************************************************************************)
(* The routes and wrappers of a multiplexer as a program registers them,   *)
(* before the server runs: multiplexer::handle and use_wrapper, and the    *)
(* methods_handler that handle returns, used for daisy chaining; then the  *)
(* requests of module Multiplexer.                                         *)
(*                                                                         *)
(* A chunk of a path is its text, by what compile_to_matcher looks at: the *)
(* brace it begins with, the one it ends with, the colon, and what is      *)
(* before and after the colon.                                             *)
(***************************************************************************)
EXTENDS Multiplexer

CONSTANTS
  Chunks,           (* the words of the paths a program registers          *)
  RoutePaths,       (* those paths                                         *)
  MaxCalls,         (* bound on the calls of the set-up                    *)
  MaxNext           (* how often a wrapper may call next                   *)

Chunk == [word : Words, open : BOOLEAN, close : BOOLEAN, colon : BOOLEAN,
          name : Names \cup {NoName}, regex : SUBSET Segments]

ASSUME ChunksAssumption == Chunks \subseteq Chunk /\ RoutePaths \subseteq Path(Chunks)
ASSUME HandlersAssumption == MaxCalls \in Nat /\ Handlers = 1..MaxCalls /\ MaxNext \in Nat

VARIABLES
  paths,            (* the path of each route, third of its tuple          *)
  calls,            (* ghost: the calls made so far                        *)
  setup             (* the program has not started its server              *)

rvars == <<mvars, paths, calls, setup>>

compile_to_matcher(c) ==
    IF c = Empty THEN [kind |-> "empty", words |-> {}, name |-> NoName]
    ELSE IF ~(c.open /\ c.close)
         THEN [kind |-> "static", words |-> {c.word}, name |-> NoName]
    ELSE IF c.colon THEN [kind |-> "regex", words |-> c.regex, name |-> c.name]
    ELSE [kind |-> "variable", words |-> {}, name |-> c.name]

get_segments(chunks) == [i \in 1..Len(chunks) |-> compile_to_matcher(chunks[i])]

NoHandlers == [m \in Methods |-> NoHandler]

Call(op, path, method) == calls' = Append(calls, [op |-> op, path |-> path, method |-> method])

-----------------------------------------------------------------------------
Others(p) == {i \in 1..Len(paths) : paths[i] # p}

(* Mutant of Without: nothing is removed. *)
Without_Kept(s, p) == s

(* The entries of s, one for each route, without those of the path p. *)
Without(s, p) ==
    LET kept[i \in 0..Len(s)] ==
          IF i = 0 THEN <<>>
          ELSE IF i \in Others(p) THEN Append(kept[i - 1], s[i]) ELSE kept[i - 1]
    IN  kept[Len(s)]

Registers == setup /\ Len(calls) < MaxCalls

(* The code tells paths apart by their text; RoutePaths has no two that
   differ in repeated slashes only, which would be two routes. *)
handle(p) == \E chunks \in split_path(p) :
    /\ Registers
    /\ routes' = Append(Without(routes, p),
                        [segments |-> get_segments(chunks), handlers |-> NoHandlers])
    /\ paths' = Append(Without(paths, p), p)
    /\ Call("handle", p, "")
    /\ UNCHANGED <<wrappers, setup>>

(* get, post and the others, on what the last handle returned. *)
method(m) ==
    /\ Registers /\ routes # <<>>
    /\ routes' = [routes EXCEPT ![Len(routes)].handlers[m] = Len(calls) + 1]
    /\ Call("method", paths[Len(paths)], m)
    /\ UNCHANGED <<wrappers, paths, setup>>

use_wrapper(n) ==
    /\ Registers
    /\ wrappers' = Append(wrappers, n)
    /\ Call("use_wrapper", [words |-> <<>>, slash |-> FALSE], "")
    /\ UNCHANGED <<routes, paths, setup>>

Run == /\ setup
       /\ setup' = FALSE
       /\ UNCHANGED <<table, paths, calls>>

-----------------------------------------------------------------------------
Init == /\ Idle
        /\ routes = <<>> /\ wrappers = <<>>
        /\ paths = <<>> /\ calls = <<>> /\ setup = TRUE

Next == \/ /\ \/ \E p \in RoutePaths : handle(p)
              \/ \E m \in Methods : method(m)
              \/ \E n \in 0..MaxNext : use_wrapper(n)
              \/ Run
           /\ UNCHANGED <<pc, req, wrapper_index, frames, path_segments,
                          request_segments, cand, seg, params, status, ran>>
        \/ ~setup /\ MNext /\ UNCHANGED <<paths, calls, setup>>

Spec == Init /\ [][Next]_rvars

-----------------------------------------------------------------------------
(* Properties. *)

Made(op, p) == {i \in 1..Len(calls) : calls[i].op = op /\ calls[i].path = p}

(* Since the path was last handled. *)
Since(p) == {i \in Made("method", p) : \A j \in Made("handle", p) : j < i}

(* The table says what the program said last: one route for each path, in
   the order of their latest registrations, with the handlers given since
   and none given before. *)
TableAsRegistered ==
    /\ \A i, j \in 1..Len(paths) : i < j =>
           \E b \in Made("handle", paths[j]) : \A a \in Made("handle", paths[i]) : a < b
    /\ \A i \in 1..Len(calls) : calls[i].op = "handle" =>
           \E j \in 1..Len(paths) : paths[j] = calls[i].path
    /\ Len(routes) = Len(paths)
    /\ \A i \in 1..Len(routes) : \A m \in Methods :
           LET given == {k \in Since(paths[i]) : calls[k].method = m}
           IN  IF given = {} THEN routes[i].handlers[m] = NoHandler
               ELSE /\ routes[i].handlers[m] \in given
                    /\ \A k \in given : k <= routes[i].handlers[m]
=============================================================================
