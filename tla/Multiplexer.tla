----------------------------- MODULE Multiplexer -----------------------------
(***************************************************************************)
(* How lib/served/multiplexer.cpp takes a request to its handler: through  *)
(* the wrappers, the base path, and the routes in their order, with the    *)
(* matchers of lib/served/mux.  The routes do not change meanwhile (module *)
(* Registration makes them), so the threads of the server share them and   *)
(* one request tells all.                                                  *)
(*                                                                         *)
(* A path is its words and whether it ends with a slash; slashes that      *)
(* follow one another count as one in split_path, and do so here.          *)
(* Wrappers, plugins and handlers are the program's: a wrapper calls next  *)
(* some number of times, a plugin or a handler returns or throws.          *)
(***************************************************************************)
EXTENDS Integers, Sequences

CONSTANTS
  Words,          (* the segments of paths                                 *)
  Empty,          (* the empty segment                                     *)
  Names,          (* parameter names                                       *)
  NoName,         (* no name between the braces; no value yet              *)
  Methods,
  Handlers,       (* the handlers registered                               *)
  NoHandler,
  Base,           (* _base_path_segments, <<>> by default                  *)
  Tables,         (* the routes a program may have registered              *)
  WrapperLists,   (* the wrappers: how often each calls next               *)
  Requests

Segments == Words \cup {Empty}

Matcher == [kind : {"empty", "static", "variable", "regex"},
            words : SUBSET Segments, name : Names \cup {NoName}]

Path(W) == [words : Seq(W), slash : BOOLEAN]

Request == [path : Path(Words), method : Methods]

Route == [segments : Seq(Matcher), handlers : [Methods -> Handlers \cup {NoHandler}]]

ASSUME NamesAssumption ==
    NoName \notin Segments /\ NoHandler \notin Handlers /\ Empty \notin Words
ASSUME BaseAssumption == Base \in Seq(Matcher)
ASSUME TablesAssumption == Tables \subseteq Seq(Route)
ASSUME WrapperAssumption == WrapperLists \subseteq Seq(Nat)
ASSUME RequestAssumption == Requests \subseteq Request /\ Requests # {}

VARIABLES
  routes,             (* _handler_candidates                               *)
  wrappers,           (* _plugin_wrappers                                  *)
  pc,                 (* where the request is                              *)
  req,                (* its path and method                               *)
  wrapper_index,      (* how many wrappers were called                     *)
  frames,             (* those that have not returned: calls of next left  *)
  path_segments,      (* ghost: the segments of its path                   *)
  request_segments,   (* those that are left after the base path           *)
  cand, seg,          (* the candidate and the segment looked at           *)
  params,             (* req.params                                        *)
  status,             (* the response's status                             *)
  ran                 (* ghost: the handlers called, and how               *)

table == <<routes, wrappers>>
mvars == <<table, pc, req, wrapper_index, frames, path_segments, request_segments,
           cand, seg, params, status, ran>>

NoParams == [n \in Names |-> NoName]

-----------------------------------------------------------------------------
(* Matchers. *)

check_match(m, s) == CASE m.kind = "empty"    -> TRUE
                       [] m.kind = "static"   -> s \in m.words
                       [] m.kind = "variable" -> s # Empty
                       [] m.kind = "regex"    -> s \in m.words

Collects(m, n) == m.kind \in {"variable", "regex"} /\ m.name = n

LastOf(ms, n) == {i \in 1..Len(ms) : Collects(ms[i], n) /\ \A j \in i+1..Len(ms) : ~Collects(ms[j], n)}

(* get_param of each matcher in turn: a later one of the same name wins. *)
Collected(ps, ms, ss) == [n \in Names |->
    IF LastOf(ms, n) = {} THEN ps[n] ELSE ss[CHOOSE i \in LastOf(ms, n) : TRUE]]

(* The last slash gives an empty segment.  Of an empty path the code looks
   at the byte before its first: that may be a slash or not. *)
split_path(p) == IF p.slash THEN {Append(p.words, Empty)}
                 ELSE IF p.words = <<>> THEN {<<>>, <<Empty>>}
                 ELSE {p.words}

-----------------------------------------------------------------------------
(* forward_to_handler: the wrappers.  They share one counter, so a second
   call of next goes on from where the first one left it. *)

Unchanged == UNCHANGED <<table, req>>

Receive(r) ==
    /\ pc = "idle"
    /\ pc' = "next" /\ req' = r
    /\ wrapper_index' = 0 /\ frames' = <<>>
    /\ params' = NoParams /\ status' = 200 /\ ran' = <<>>
    /\ path_segments' = <<>> /\ request_segments' = <<>> /\ cand' = 1 /\ seg' = 0
    /\ UNCHANGED table

(* Mutant of CallWrapper: the counter is left where it was. *)
CallWrapper_NotCounted ==
    /\ pc = "next" /\ wrapper_index < Len(wrappers)
    /\ frames' = Append(frames, wrappers[wrapper_index + 1])
    /\ pc' = "wrapper"
    /\ Unchanged
    /\ UNCHANGED <<wrapper_index, path_segments, request_segments, cand, seg, params,
                   status, ran>>

CallWrapper ==
    /\ pc = "next" /\ wrapper_index < Len(wrappers)
    /\ wrapper_index' = wrapper_index + 1
    /\ frames' = Append(frames, wrappers[wrapper_index + 1])
    /\ pc' = "wrapper"
    /\ Unchanged
    /\ UNCHANGED <<path_segments, request_segments, cand, seg, params, status, ran>>

(* Mutant of CallHandler: the last wrapper may be passed over. *)
CallHandler_OneShort ==
    /\ pc = "next" /\ wrapper_index + 1 >= Len(wrappers)
    /\ pc' = "handler" /\ status' = 200
    /\ Unchanged
    /\ UNCHANGED <<wrapper_index, frames, path_segments, request_segments, cand, seg,
                   params, ran>>

CallHandler ==
    /\ pc = "next" /\ wrapper_index = Len(wrappers)
    /\ pc' = "handler" /\ status' = 200
    /\ Unchanged
    /\ UNCHANGED <<wrapper_index, frames, path_segments, request_segments, cand, seg,
                   params, ran>>

WrapperCallsNext ==
    /\ pc = "wrapper" /\ frames # <<>> /\ frames[Len(frames)] > 0
    /\ frames' = [frames EXCEPT ![Len(frames)] = @ - 1]
    /\ pc' = "next"
    /\ Unchanged
    /\ UNCHANGED <<wrapper_index, path_segments, request_segments, cand, seg, params,
                   status, ran>>

WrapperReturns ==
    /\ pc = "wrapper" /\ frames # <<>> /\ frames[Len(frames)] = 0
    /\ frames' = SubSeq(frames, 1, Len(frames) - 1)
    /\ Unchanged
    /\ UNCHANGED <<pc, wrapper_index, path_segments, request_segments, cand, seg, params,
                   status, ran>>

forward_to_handler == CallWrapper \/ CallHandler \/ WrapperCallsNext \/ WrapperReturns

-----------------------------------------------------------------------------
(* handler.  An exception goes up through the wrappers to the connection,
   which makes the response of it.  500 stands for whatever a plugin or a
   handler throws, a request_error of any status or anything else; a wrapper
   here neither throws nor catches. *)

Throw(code) ==
    /\ pc' = "answered" /\ status' = code /\ frames' = <<>>
    /\ Unchanged
    /\ UNCHANGED <<wrapper_index, cand, seg>>

PluginThrows == /\ pc = "handler"
                /\ Throw(500)
                /\ UNCHANGED <<path_segments, request_segments, params, ran>>

(* The plugins that run before have run; the path is split. *)
Split == \E s \in split_path(req.path) :
    /\ pc = "handler"
    /\ path_segments' = s /\ request_segments' = s
    /\ pc' = IF Base = <<>> THEN "scan" ELSE "base"
    /\ cand' = 1 /\ seg' = 0
    /\ Unchanged
    /\ UNCHANGED <<wrapper_index, frames, params, status, ran>>

BaseMatches ==
    /\ pc = "base" /\ Len(Base) <= Len(request_segments) /\ seg < Len(Base)
    /\ check_match(Base[seg + 1], request_segments[seg + 1])
    /\ seg' = seg + 1
    /\ Unchanged
    /\ UNCHANGED <<pc, wrapper_index, frames, path_segments, request_segments, cand,
                   params, status, ran>>

BaseFails ==
    /\ pc = "base"
    /\ \/ Len(Base) > Len(request_segments)
       \/ /\ Len(Base) <= Len(request_segments) /\ seg < Len(Base)
          /\ ~check_match(Base[seg + 1], request_segments[seg + 1])
    /\ Throw(404)
    /\ UNCHANGED <<path_segments, request_segments, params, ran>>

(* Mutant of BaseTaken: a segment too many is cut off. *)
BaseTaken_OneMore ==
    /\ pc = "base" /\ Len(Base) <= Len(request_segments) /\ seg = Len(Base)
    /\ params' = Collected(params, Base, request_segments)
    /\ request_segments' = SubSeq(request_segments, seg + 2, Len(request_segments))
    /\ pc' = "scan" /\ seg' = 0
    /\ Unchanged
    /\ UNCHANGED <<wrapper_index, frames, path_segments, cand, status, ran>>

BaseTaken ==
    /\ pc = "base" /\ Len(Base) <= Len(request_segments) /\ seg = Len(Base)
    /\ params' = Collected(params, Base, request_segments)
    /\ request_segments' = SubSeq(request_segments, seg + 1, Len(request_segments))
    /\ pc' = "scan" /\ seg' = 0
    /\ Unchanged
    /\ UNCHANGED <<wrapper_index, frames, path_segments, cand, status, ran>>

(* The routes, one by one.  A route may be shorter than the path, not longer. *)
Candidate == routes[cand]
Fits == cand <= Len(routes) /\ Len(Candidate.segments) <= Len(request_segments)

SegmentMatches ==
    /\ pc = "scan" /\ Fits /\ seg < Len(Candidate.segments)
    /\ check_match(Candidate.segments[seg + 1], request_segments[seg + 1])
    /\ seg' = seg + 1
    /\ Unchanged
    /\ UNCHANGED <<pc, wrapper_index, frames, path_segments, request_segments, cand,
                   params, status, ran>>

CandidateFails ==
    /\ pc = "scan" /\ cand <= Len(routes)
    /\ \/ ~Fits
       \/ /\ Fits /\ seg < Len(Candidate.segments)
          /\ ~check_match(Candidate.segments[seg + 1], request_segments[seg + 1])
    /\ cand' = cand + 1 /\ seg' = 0
    /\ Unchanged
    /\ UNCHANGED <<pc, wrapper_index, frames, path_segments, request_segments, params,
                   status, ran>>

method_supported == Candidate.handlers[req.method] # NoHandler

(* Mutant of NotAllowed: the search goes on with the next route. *)
NotAllowed_GoesOn ==
    /\ pc = "scan" /\ Fits /\ seg = Len(Candidate.segments) /\ ~method_supported
    /\ cand' = cand + 1 /\ seg' = 0
    /\ Unchanged
    /\ UNCHANGED <<pc, wrapper_index, frames, path_segments, request_segments, params,
                   status, ran>>

NotAllowed ==
    /\ pc = "scan" /\ Fits /\ seg = Len(Candidate.segments) /\ ~method_supported
    /\ Throw(405)
    /\ UNCHANGED <<path_segments, request_segments, params, ran>>

Dispatch ==
    /\ pc = "scan" /\ Fits /\ seg = Len(Candidate.segments) /\ method_supported
    /\ params' = Collected(params, Candidate.segments, request_segments)
    /\ ran' = Append(ran, [route |-> cand, handler |-> Candidate.handlers[req.method],
                           segments |-> path_segments, params |-> params',
                           inside |-> Len(frames)])
    /\ \/ /\ pc' = "wrapper"
          /\ Unchanged
          /\ UNCHANGED <<wrapper_index, frames, cand, seg, status>>
       \/ Throw(500)
    /\ UNCHANGED <<path_segments, request_segments>>

NotFound == /\ pc = "scan" /\ cand > Len(routes)
            /\ Throw(404)
            /\ UNCHANGED <<path_segments, request_segments, params, ran>>

handler == \/ PluginThrows \/ Split \/ BaseMatches \/ BaseFails \/ BaseTaken
           \/ SegmentMatches \/ CandidateFails \/ NotAllowed \/ Dispatch \/ NotFound

(* The last wrapper, or the handler when there is none, has returned. *)
Forwarded ==
    /\ pc = "wrapper" /\ frames = <<>>
    /\ pc' = "answered"
    /\ Unchanged
    /\ UNCHANGED <<wrapper_index, frames, path_segments, request_segments, cand, seg,
                   params, status, ran>>

-----------------------------------------------------------------------------
Idle == /\ pc = "idle" /\ req = CHOOSE r \in Requests : TRUE
        /\ wrapper_index = 0 /\ frames = <<>>
        /\ path_segments = <<>> /\ request_segments = <<>> /\ cand = 1 /\ seg = 0
        /\ params = NoParams /\ status = 200 /\ ran = <<>>

MInit == Idle /\ routes \in Tables /\ wrappers \in WrapperLists

MNext == \/ \E r \in Requests : Receive(r)
         \/ forward_to_handler \/ handler \/ Forwarded

MSpec == MInit /\ [][MNext]_mvars

-----------------------------------------------------------------------------
(* Properties. *)

TypeOK ==
    /\ routes \in Seq(Route) /\ wrappers \in Seq(Nat)
    /\ pc \in {"idle", "next", "wrapper", "handler", "base", "scan", "answered"}
    /\ req \in Request
    /\ wrapper_index \in 0..Len(wrappers)
    /\ frames \in Seq(Nat) /\ Len(frames) <= wrapper_index
    /\ path_segments \in Seq(Segments) /\ request_segments \in Seq(Segments)
    /\ cand \in 1..Len(routes) + 1 /\ seg \in Nat
    /\ params \in [Names -> Segments \cup {NoName}]
    /\ status \in {200, 404, 405, 500}
    /\ ran \in Seq([route : 1..Len(routes), handler : Handlers, segments : Seq(Segments),
                    params : [Names -> Segments \cup {NoName}], inside : Nat])

(* What a reader of the table expects: the whole path of a route, base and
   all, matches the beginning of the request's. *)
Whole(i) == Base \o routes[i].segments

Takes(i, ss) == /\ Len(Whole(i)) <= Len(ss)
                /\ \A k \in 1..Len(Whole(i)) : check_match(Whole(i)[k], ss[k])

First(i, ss) == Takes(i, ss) /\ \A j \in 1..i-1 : ~Takes(j, ss)

(* "Always chooses the first registered match": a handler that is called is
   that of the first route whose whole path matches and for the request's
   method; a request is not found when no route matches, and its method not
   allowed when the first that matches lacks it, even if a later one has it. *)
FirstMatch ==
    /\ \A k \in 1..Len(ran) : /\ First(ran[k].route, ran[k].segments)
                              /\ ran[k].handler = routes[ran[k].route].handlers[req.method]
                              /\ ran[k].handler # NoHandler
    /\ pc = "answered" /\ status = 404 => \A i \in 1..Len(routes) : ~Takes(i, path_segments)
    /\ pc = "answered" /\ status = 405 =>
           \E i \in 1..Len(routes) : /\ First(i, path_segments)
                                    /\ routes[i].handlers[req.method] = NoHandler

(* A handler sees the parameters of its own route, and of the base path,
   each from the segment its matcher stands at in the whole path: none of a
   route that was tried before it, and none shifted by the base. *)
OwnParams == \A k \in 1..Len(ran) :
    ran[k].params = Collected(NoParams, Whole(ran[k].route), ran[k].segments)

(* "Multiple wrappers can be defined, and they will be nested with the first
   defined being the first called": a handler runs inside all of them. *)
InsideWrappers == \A k \in 1..Len(ran) : ran[k].inside = Len(wrappers)
=============================================================================
