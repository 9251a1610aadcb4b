-------------------------- MODULE MultiplexerProofs --------------------------
(***************************************************************************)
(* Proofs about Multiplexer, for every table of routes, list of wrappers,  *)
(* base path and set of requests, and about Registration, for any calls    *)
(* that make the table and the list.  What a handler is called for is      *)
(* decided in many steps; the invariant says what the steps so far have    *)
(* found out about the path: InBase while the base path is compared,       *)
(* InScan while the routes are.                                            *)
(***************************************************************************)
EXTENDS Registration, WellFoundedInduction, TLAPS

Quiet == pc # "answered" => status = 200

InBase == pc = "base" =>
    /\ request_segments = path_segments /\ cand = 1
    /\ seg <= Len(Base)
    /\ seg > 0 => Len(Base) <= Len(path_segments)
    /\ \A k \in 1..seg : check_match(Base[k], path_segments[k])

BaseAccepts == /\ Len(Base) <= Len(path_segments)
               /\ \A k \in 1..Len(Base) : check_match(Base[k], path_segments[k])

BaseCutOff == request_segments = SubSeq(path_segments, Len(Base) + 1, Len(path_segments))

NoneBefore == \A j \in 1..cand-1 : ~Takes(j, path_segments)

MatchesSoFar == cand <= Len(routes) =>
    /\ seg <= Len(Candidate.segments)
    /\ seg > 0 => Fits
    /\ \A k \in 1..seg : check_match(Candidate.segments[k], request_segments[k])

InScan == pc = "scan" => BaseAccepts /\ BaseCutOff /\ NoneBefore /\ MatchesSoFar

IInv == TypeOK /\ Quiet /\ InBase /\ InScan /\ FirstMatch

-----------------------------------------------------------------------------
(* The whole path of a route: its base first, then its own segments. *)
LEMMA WholeSegments ==
    ASSUME TypeOK, NEW i \in 1..Len(routes)
    PROVE  /\ routes[i] \in Route
           /\ routes[i].segments \in Seq(Matcher) /\ Len(routes[i].segments) \in Nat
           /\ Len(Base) \in Nat
           /\ Len(Whole(i)) = Len(Base) + Len(routes[i].segments)
           /\ \A k \in 1..Len(Base) : Whole(i)[k] = Base[k]
           /\ \A k \in 1..Len(routes[i].segments) :
                  Whole(i)[Len(Base) + k] = routes[i].segments[k]
<1>1. routes[i] \in Route
  BY DEF TypeOK
<1>2. routes[i].segments \in Seq(Matcher) /\ Base \in Seq(Matcher)
  BY <1>1, BaseAssumption DEF Route
<1>3. Len(Base) \in Nat /\ Len(routes[i].segments) \in Nat
  BY <1>2
<1>4. Len(Whole(i)) = Len(Base) + Len(routes[i].segments)
  BY <1>2 DEF Whole
<1>5. \A k \in 1..Len(Whole(i)) :
          Whole(i)[k] = IF k <= Len(Base) THEN Base[k] ELSE routes[i].segments[k - Len(Base)]
  BY <1>2 DEF Whole
<1>6. ASSUME NEW k \in 1..Len(Base) PROVE Whole(i)[k] = Base[k]
  <2>1. k \in 1..Len(Whole(i)) /\ k <= Len(Base)
    BY <1>3, <1>4
  <2> QED
    BY <1>5, <2>1
<1>7. ASSUME NEW k \in 1..Len(routes[i].segments)
      PROVE  Whole(i)[Len(Base) + k] = routes[i].segments[k]
  <2>1. Len(Base) + k \in 1..Len(Whole(i)) /\ ~(Len(Base) + k <= Len(Base))
    BY <1>3, <1>4
  <2>2. (Len(Base) + k) - Len(Base) = k
    BY <1>3
  <2> QED
    BY <1>5, <2>1, <2>2
<1> QED
  BY <1>1, <1>2, <1>3, <1>4, <1>6, <1>7

(* What is left of the path once the base is taken from it. *)
LEMMA Rest ==
    ASSUME TypeOK, Len(Base) <= Len(path_segments),
           request_segments = SubSeq(path_segments, Len(Base) + 1, Len(path_segments))
    PROVE  /\ Len(path_segments) \in Nat
           /\ Len(request_segments) = Len(path_segments) - Len(Base)
           /\ \A k \in 1..Len(request_segments) :
                  request_segments[k] = path_segments[Len(Base) + k]
<1>1. path_segments \in Seq(Segments) /\ Len(path_segments) \in Nat /\ Len(Base) \in Nat
  BY BaseAssumption DEF TypeOK
<1>2. Len(request_segments) = Len(path_segments) - Len(Base)
  BY <1>1
<1>3. ASSUME NEW k \in 1..Len(request_segments)
      PROVE  request_segments[k] = path_segments[Len(Base) + k]
  BY <1>1, <1>2
<1> QED
  BY <1>1, <1>2, <1>3

LEMMA CandidateInTable ==
    ASSUME TypeOK, cand <= Len(routes)
    PROVE  /\ cand \in 1..Len(routes)
           /\ Candidate.segments \in Seq(Matcher)
           /\ Candidate.handlers[req.method] \in Handlers \cup {NoHandler}
<1>1. cand \in 1..Len(routes)
  <2>1. cand \in Nat \ {0}
    BY DEF TypeOK
  <2>2. Len(routes) \in Nat
    BY DEF TypeOK
  <2> QED
    BY <2>1, <2>2
<1>2. Candidate \in Route
  BY <1>1 DEF Candidate, TypeOK
<1>3. req.method \in Methods
  BY DEF TypeOK, Request
<1> QED
  BY <1>1, <1>2, <1>3 DEF Route

(* A candidate all of whose segments match takes the request; one that is
   too long, or has a segment that does not match, does not. *)
LEMMA CandidateTakes ==
    ASSUME TypeOK, InScan, pc = "scan", Fits, seg = Len(Candidate.segments)
    PROVE  First(cand, path_segments)
<1>1. cand \in 1..Len(routes)
  BY DEF Fits, TypeOK
<1>2. Len(Whole(cand)) <= Len(path_segments)
  BY <1>1, WholeSegments, Rest DEF InScan, BaseAccepts, BaseCutOff, Fits, Candidate
<1>3. ASSUME NEW k \in 1..Len(Whole(cand))
      PROVE  check_match(Whole(cand)[k], path_segments[k])
  <2>1. CASE k <= Len(Base)
    <3>1. BaseAccepts
      BY DEF InScan
    <3>2. k \in 1..Len(Base) /\ Whole(cand)[k] = Base[k]
      BY <1>1, <2>1, WholeSegments
    <3> QED
      BY <3>1, <3>2 DEF BaseAccepts
  <2>2. CASE ~(k <= Len(Base))
    <3>1. PICK j \in 1..Len(Candidate.segments) : k = Len(Base) + j
      <4>1. k \in Int /\ Len(Base) \in Nat /\ k - Len(Base) \in 1..Len(Candidate.segments)
        BY <1>1, <2>2, WholeSegments DEF Candidate
      <4>2. k = Len(Base) + (k - Len(Base))
        BY <4>1
      <4> QED
        BY <4>1, <4>2
    <3>2. j \in 1..Len(request_segments)
      BY <1>1, WholeSegments, Rest DEF InScan, BaseAccepts, BaseCutOff, Fits, Candidate
    <3>3. request_segments[j] = path_segments[k]
      BY <3>1, <3>2, Rest DEF InScan, BaseAccepts, BaseCutOff
    <3>4. Whole(cand)[k] = Candidate.segments[j]
      BY <1>1, <3>1, WholeSegments DEF Candidate
    <3>5. check_match(Candidate.segments[j], request_segments[j])
      BY <1>1, <3>1 DEF InScan, MatchesSoFar
    <3> QED
      BY <3>3, <3>4, <3>5
  <2> QED
    BY <2>1, <2>2
<1>4. \A j \in 1..cand-1 : ~Takes(j, path_segments)
  BY DEF InScan, NoneBefore
<1> QED
  BY <1>2, <1>3, <1>4 DEF First, Takes

LEMMA CandidateDoesNot ==
    ASSUME TypeOK, InScan, pc = "scan", cand <= Len(routes), seg \in Nat,
           \/ ~Fits
           \/ /\ Fits /\ seg < Len(Candidate.segments)
              /\ ~check_match(Candidate.segments[seg + 1], request_segments[seg + 1])
    PROVE  ~Takes(cand, path_segments)
<1>1. cand \in 1..Len(routes)
  BY DEF TypeOK
<1>2. CASE ~Fits
  BY <1>1, <1>2, WholeSegments, Rest DEF InScan, BaseAccepts, BaseCutOff, Fits,
     Candidate, Takes
<1>3. CASE /\ Fits /\ seg < Len(Candidate.segments)
           /\ ~check_match(Candidate.segments[seg + 1], request_segments[seg + 1])
  <2>1. seg + 1 \in 1..Len(Candidate.segments)
    BY <1>1, <1>3, WholeSegments DEF Candidate
  <2>2. seg + 1 \in 1..Len(request_segments)
    BY <1>1, <1>3, <2>1, WholeSegments, Rest DEF InScan, BaseAccepts, BaseCutOff, Fits,
       Candidate
  <2>3. request_segments[seg + 1] = path_segments[Len(Base) + (seg + 1)]
    BY <2>2, Rest DEF InScan, BaseAccepts, BaseCutOff
  <2>4. Whole(cand)[Len(Base) + (seg + 1)] = Candidate.segments[seg + 1]
    BY <1>1, <2>1, WholeSegments DEF Candidate
  <2>5. Len(Base) + (seg + 1) \in 1..Len(Whole(cand))
    BY <1>1, <2>1, WholeSegments DEF Candidate
  <2> QED
    BY <1>3, <2>3, <2>4, <2>5 DEF Takes
<1> QED
  BY <1>2, <1>3

-----------------------------------------------------------------------------
(* Types. *)

LEMMA CollectedType ==
    ASSUME NEW ps \in [Names -> Segments \cup {NoName}], NEW ms \in Seq(Matcher),
           NEW ss \in Seq(Segments), Len(ms) <= Len(ss)
    PROVE  Collected(ps, ms, ss) \in [Names -> Segments \cup {NoName}]
<1>1. Len(ms) \in Nat /\ Len(ss) \in Nat
  OBVIOUS
<1>2. ASSUME NEW n \in Names, LastOf(ms, n) # {}
      PROVE  ss[CHOOSE i \in LastOf(ms, n) : TRUE] \in Segments
  <2>1. (CHOOSE i \in LastOf(ms, n) : TRUE) \in LastOf(ms, n)
    BY <1>2
  <2>2. (CHOOSE i \in LastOf(ms, n) : TRUE) \in 1..Len(ss)
    BY <1>1, <2>1 DEF LastOf
  <2> QED
    BY <2>2
<1> QED
  BY <1>2 DEF Collected

LEMMA SplitType ==
    ASSUME NEW r \in Request, NEW s \in split_path(r.path)
    PROVE  s \in Seq(Segments)
<1>1. r.path.words \in Seq(Words)
  BY DEF Request, Path
<1>2. r.path.words \in Seq(Segments) /\ Empty \in Segments
  BY <1>1 DEF Segments
<1>3. CASE s = Append(r.path.words, Empty)
  BY <1>2, <1>3
<1>4. CASE s = <<>> \/ s = <<Empty>>
  <2>1. <<>> \in Seq(Segments) /\ <<Empty>> \in Seq(Segments)
    BY <1>2
  <2> QED
    BY <1>4, <2>1
<1>5. CASE s = r.path.words
  BY <1>2, <1>5
<1> QED
  BY <1>3, <1>4, <1>5 DEF split_path

LEMMA TypeInit == MInit => TypeOK
<1> SUFFICES ASSUME MInit PROVE TypeOK
  OBVIOUS
<1>1. req \in Request
  BY RequestAssumption DEF MInit, Idle
<1>2. routes \in Seq(Route) /\ wrappers \in Seq(Nat)
  BY TablesAssumption, WrapperAssumption DEF MInit
<1> QED
  BY <1>1, <1>2 DEF MInit, Idle, TypeOK, NoParams

LEMMA TypeStep == TypeOK /\ [MNext]_mvars => TypeOK'
<1> SUFFICES ASSUME TypeOK, [MNext]_mvars PROVE TypeOK'
  OBVIOUS
<1> USE DEF Unchanged, table
<1>1. ASSUME NEW r \in Requests, Receive(r) PROVE TypeOK'
  BY <1>1, RequestAssumption DEF Receive, TypeOK, NoParams
<1>2. CASE CallWrapper
  <2>1. /\ wrapper_index + 1 \in 1..Len(wrappers) /\ wrapper_index' = wrapper_index + 1
        /\ frames' = Append(frames, wrappers[wrapper_index + 1])
    BY <1>2 DEF CallWrapper, TypeOK
  <2>2. wrappers[wrapper_index + 1] \in Nat
    <3>1. wrappers \in Seq(Nat)
      BY DEF TypeOK
    <3> QED
      BY <2>1, <3>1
  <2>3. frames' \in Seq(Nat) /\ Len(frames') <= wrapper_index'
    BY <2>1, <2>2 DEF TypeOK
  <2>4. /\ UNCHANGED <<routes, wrappers, req, path_segments, request_segments, cand, seg,
                       params, status, ran>>
        /\ pc' = "wrapper"
    BY <1>2 DEF CallWrapper
  <2> QED
    BY <2>1, <2>3, <2>4 DEF TypeOK
<1>3. CASE CallHandler
  BY <1>3 DEF CallHandler, TypeOK
<1>4. CASE WrapperCallsNext
  <2>1. frames \in Seq(Nat) /\ Len(frames) \in 1..Len(frames)
    BY <1>4 DEF WrapperCallsNext, TypeOK
  <2>2. frames[Len(frames)] \in Nat /\ frames[Len(frames)] - 1 \in Nat
    BY <1>4, <2>1 DEF WrapperCallsNext
  <2>3. frames' \in Seq(Nat) /\ Len(frames') = Len(frames)
    BY <1>4, <2>1, <2>2 DEF WrapperCallsNext
  <2> QED
    BY <1>4, <2>3 DEF WrapperCallsNext, TypeOK
<1>5. CASE WrapperReturns
  <2>1. frames \in Seq(Nat) /\ Len(frames) \in Nat \ {0}
    BY <1>5 DEF WrapperReturns, TypeOK
  <2>2. frames' \in Seq(Nat) /\ Len(frames') = Len(frames) - 1
    <3>1. frames' = SubSeq(frames, 1, Len(frames) - 1)
      BY <1>5 DEF WrapperReturns
    <3>2. Len(SubSeq(frames, 1, Len(frames) - 1)) = Len(frames) - 1
      <4>1. \A m \in 0..Len(frames) : Len(SubSeq(frames, 1, m)) = m
        BY <2>1
      <4>2. Len(frames) - 1 \in 0..Len(frames)
        BY <2>1
      <4> QED
        BY <4>1, <4>2
    <3>3. SubSeq(frames, 1, Len(frames) - 1) \in Seq(Nat)
      BY <2>1
    <3> QED
      BY <3>1, <3>2, <3>3
  <2>3. wrapper_index' = wrapper_index /\ wrapper_index \in Nat
    BY <1>5 DEF WrapperReturns, TypeOK
  <2>4. Len(frames') <= wrapper_index'
    BY <2>1, <2>2, <2>3 DEF TypeOK
  <2>5. UNCHANGED <<routes, wrappers, req, pc, wrapper_index, path_segments, request_segments,
                    cand, seg, params, status, ran>>
    BY <1>5 DEF WrapperReturns
  <2> QED
    BY <2>2, <2>4, <2>5 DEF TypeOK
<1>6. CASE PluginThrows
  BY <1>6 DEF PluginThrows, Throw, TypeOK
<1>7. CASE Split
  BY <1>7, SplitType DEF Split, TypeOK
<1>8. CASE BaseMatches
  BY <1>8 DEF BaseMatches, TypeOK
<1>9. CASE BaseFails
  BY <1>9 DEF BaseFails, Throw, TypeOK
<1>10. CASE BaseTaken
  <2>1. params' \in [Names -> Segments \cup {NoName}]
    <3>1. /\ params' = Collected(params, Base, request_segments)
          /\ Len(Base) <= Len(request_segments)
      BY <1>10 DEF BaseTaken
    <3>2. /\ params \in [Names -> Segments \cup {NoName}]
          /\ request_segments \in Seq(Segments)
      BY DEF TypeOK
    <3> QED
      BY <3>1, <3>2, BaseAssumption, CollectedType
  <2>2. request_segments' \in Seq(Segments)
    <3>1. /\ request_segments \in Seq(Segments) /\ seg \in Nat
          /\ request_segments' = SubSeq(request_segments, seg + 1, Len(request_segments))
      BY <1>10 DEF BaseTaken, TypeOK
    <3> QED
      BY <3>1
  <2>3. /\ UNCHANGED <<routes, wrappers, req, wrapper_index, frames, path_segments, cand,
                       status, ran>>
        /\ pc' = "scan" /\ seg' = 0
    BY <1>10 DEF BaseTaken
  <2> QED
    BY <2>1, <2>2, <2>3 DEF TypeOK
<1>11. CASE SegmentMatches
  BY <1>11 DEF SegmentMatches, TypeOK
<1>12. CASE CandidateFails
  BY <1>12 DEF CandidateFails, TypeOK
<1>13. CASE NotAllowed
  BY <1>13 DEF NotAllowed, Throw, TypeOK
<1>14. CASE Dispatch
  <2>1. cand \in 1..Len(routes)
    BY <1>14, CandidateInTable DEF Dispatch, Fits
  <2>2. Candidate.segments \in Seq(Matcher) /\ Candidate.handlers[req.method] \in Handlers
    BY <1>14, <2>1, CandidateInTable DEF Dispatch, method_supported
  <2>3. params' \in [Names -> Segments \cup {NoName}]
    <3>1. params' = Collected(params, Candidate.segments, request_segments)
      BY <1>14 DEF Dispatch
    <3>2. /\ params \in [Names -> Segments \cup {NoName}]
          /\ request_segments \in Seq(Segments)
      BY DEF TypeOK
    <3>3. Len(Candidate.segments) <= Len(request_segments)
      BY <1>14 DEF Dispatch, Fits
    <3> QED
      BY <2>2, <3>1, <3>2, <3>3, CollectedType
  <2> DEFINE Ran == [route : 1..Len(routes), handler : Handlers, segments : Seq(Segments),
                     params : [Names -> Segments \cup {NoName}], inside : Nat]
             made == [route |-> cand, handler |-> Candidate.handlers[req.method],
                      segments |-> path_segments, params |-> params', inside |-> Len(frames)]
  <2>4. made \in Ran
    BY <2>1, <2>2, <2>3 DEF TypeOK
  <2>5. ran \in Seq(Ran) /\ ran' = Append(ran, made)
    BY <1>14 DEF Dispatch, TypeOK
  <2>6. ran' \in Seq(Ran)
    <3> HIDE DEF Ran, made
    <3> QED
      BY <2>4, <2>5
  <2>7. routes' = routes
    BY <1>14 DEF Dispatch, Throw
  <2>8. /\ UNCHANGED <<table, req, wrapper_index, path_segments, request_segments, cand, seg>>
        /\ frames' = frames \/ frames' = <<>>
        /\ pc' \in {"wrapper", "answered"} /\ status' \in {status, 500}
    BY <1>14 DEF Dispatch, Throw
  <2>9. /\ routes' \in Seq(Route) /\ wrappers' \in Seq(Nat) /\ req' \in Request
        /\ path_segments' \in Seq(Segments) /\ request_segments' \in Seq(Segments)
    BY <2>8 DEF TypeOK
  <2>10. /\ pc' \in {"idle", "next", "wrapper", "handler", "base", "scan", "answered"}
         /\ status' \in {200, 404, 405, 500} /\ seg' \in Nat
    BY <2>8 DEF TypeOK
  <2>11. /\ wrapper_index' \in 0..Len(wrappers') /\ cand' \in 1..Len(routes') + 1
         /\ frames' \in Seq(Nat) /\ Len(frames') <= wrapper_index'
    <3>1. wrapper_index \in 0..Len(wrappers) /\ cand \in 1..Len(routes) + 1
      BY DEF TypeOK
    <3>2. frames' \in Seq(Nat) /\ Len(frames') <= wrapper_index
      <4>1. frames \in Seq(Nat) /\ Len(frames) <= wrapper_index
        BY DEF TypeOK
      <4>2. <<>> \in Seq(Nat) /\ Len(<<>>) <= wrapper_index
        BY <3>1
      <4> QED
        BY <2>8, <4>1, <4>2
    <3> QED
      BY <2>8, <3>1, <3>2
  <2>12. ran' \in Seq(Ran)'
    BY <2>6, <2>7
  <2> QED
    BY <2>3, <2>9, <2>10, <2>11, <2>12 DEF TypeOK
<1>15. CASE NotFound
  BY <1>15 DEF NotFound, Throw, TypeOK
<1>16. CASE Forwarded
  BY <1>16 DEF Forwarded, TypeOK
<1>17. CASE UNCHANGED mvars
  BY <1>17 DEF mvars, TypeOK
<1> QED
  BY <1>1, <1>2, <1>3, <1>4, <1>5, <1>6, <1>7, <1>8, <1>9, <1>10, <1>11, <1>12, <1>13,
     <1>14, <1>15, <1>16, <1>17 DEF MNext, forward_to_handler, handler

-----------------------------------------------------------------------------
(* The search.  A step that calls no handler keeps FirstMatch if the verdict
   it gives, when it gives one, is the right one. *)

LEMMA Verdict ==
    ASSUME FirstMatch, UNCHANGED <<table, req, ran>>,
           pc' = "answered" /\ status' = 404 =>
               /\ path_segments' = path_segments
               /\ \A i \in 1..Len(routes) : ~Takes(i, path_segments),
           pc' = "answered" /\ status' = 405 =>
               /\ path_segments' = path_segments
               /\ \E i \in 1..Len(routes) : /\ First(i, path_segments)
                                           /\ routes[i].handlers[req.method] = NoHandler
    PROVE  FirstMatch'
<1>1. routes' = routes /\ req' = req /\ ran' = ran
  BY DEF table
<1>2. \A k \in 1..Len(ran') :
          /\ First(ran[k].route, ran[k].segments)'
          /\ ran'[k].handler = routes'[ran'[k].route].handlers[req'.method]
          /\ ran'[k].handler # NoHandler
  BY <1>1 DEF FirstMatch, First, Takes, Whole
<1>3. pc' = "answered" /\ status' = 404 =>
          \A i \in 1..Len(routes') : ~Takes(i, path_segments)'
  BY <1>1 DEF Takes, Whole
<1>4. pc' = "answered" /\ status' = 405 =>
          \E i \in 1..Len(routes') : /\ First(i, path_segments)'
                                    /\ routes'[i].handlers[req'.method] = NoHandler
  <2> SUFFICES ASSUME pc' = "answered", status' = 405
               PROVE  \E i \in 1..Len(routes') :
                          /\ First(i, path_segments)'
                          /\ routes'[i].handlers[req'.method] = NoHandler
    OBVIOUS
  <2>1. PICK i \in 1..Len(routes) : /\ First(i, path_segments)
                                    /\ routes[i].handlers[req.method] = NoHandler
    OBVIOUS
  <2>2. First(i, path_segments)'
    BY <1>1, <2>1 DEF First, Takes, Whole
  <2> QED
    BY <1>1, <2>1, <2>2
<1> QED
  BY <1>2, <1>3, <1>4 DEF FirstMatch

(* Steps outside the search leave what it found alone. *)
LEMMA OutsideSearch ==
    ASSUME IInv, UNCHANGED <<table, req, ran>>,
           pc' \notin {"base", "scan"}, pc' # "answered" => status' = 200,
           pc' = "answered" => status' \in {200, 500}
    PROVE  (Quiet /\ InBase /\ InScan /\ FirstMatch)'
<1>1. FirstMatch'
  BY Verdict DEF IInv
<1> QED
  BY <1>1 DEF Quiet, InBase, InScan

(* The base path does not match: no route can. *)
LEMMA BaseRejects ==
    ASSUME TypeOK, InBase, BaseFails
    PROVE  \A i \in 1..Len(routes) : ~Takes(i, path_segments)
<1> SUFFICES ASSUME NEW i \in 1..Len(routes), Takes(i, path_segments) PROVE FALSE
  OBVIOUS
<1>1. request_segments = path_segments /\ seg \in Nat
  BY DEF BaseFails, InBase, TypeOK
<1>2. Len(path_segments) \in Nat
  BY DEF TypeOK
<1>3. /\ Len(Base) \in Nat /\ Len(Whole(i)) \in Nat /\ Len(Base) <= Len(Whole(i))
      /\ \A k \in 1..Len(Base) : Whole(i)[k] = Base[k]
  BY WholeSegments
<1>4. Len(Base) <= Len(path_segments)
  BY <1>2, <1>3 DEF Takes
<1>5. seg < Len(Base) /\ ~check_match(Base[seg + 1], path_segments[seg + 1])
  BY <1>1, <1>2, <1>3, <1>4 DEF BaseFails
<1>6. seg + 1 \in 1..Len(Base) /\ seg + 1 \in 1..Len(Whole(i))
  BY <1>1, <1>3, <1>5
<1> QED
  BY <1>3, <1>5, <1>6 DEF Takes

LEMMA Initially == MInit => IInv
<1> SUFFICES ASSUME MInit PROVE IInv
  OBVIOUS
<1>1. TypeOK
  BY TypeInit
<1>2. pc = "idle" /\ status = 200 /\ ran = <<>>
  BY DEF MInit, Idle
<1> QED
  BY <1>1, <1>2 DEF IInv, Quiet, InBase, InScan, FirstMatch

(* A candidate none of whose segments was looked at yet. *)
LEMMA CandidateBegins ==
    ASSUME TypeOK, routes' = routes, cand' \in Nat \ {0}, seg' = 0, (BaseAccepts /\ BaseCutOff /\ NoneBefore)'
    PROVE  InScan'
<1>1. cand' <= Len(routes') => 0 <= Len(Candidate'.segments)
  <2> SUFFICES ASSUME cand' <= Len(routes') PROVE 0 <= Len(Candidate'.segments)
    OBVIOUS
  <2>1. routes \in Seq(Route) /\ Len(routes) \in Nat
    BY DEF TypeOK
  <2>2. cand' \in 1..Len(routes)
    BY <2>1
  <2>3. routes[cand'] \in Route
    BY <2>1, <2>2
  <2>4. routes[cand'].segments \in Seq(Matcher)
    BY <2>3 DEF Route
  <2>5. Len(routes[cand'].segments) \in Nat
    BY <2>4
  <2> QED
    BY <2>5 DEF Candidate
<1>2. MatchesSoFar'
  BY <1>1 DEF MatchesSoFar
<1> QED
  BY <1>2 DEF InScan

(* The search begins with what is known of the path. *)
LEMMA SplitKeeps == IInv /\ Split => (Quiet /\ InBase /\ InScan /\ FirstMatch)'
<1> SUFFICES ASSUME IInv, Split PROVE (Quiet /\ InBase /\ InScan /\ FirstMatch)'
  OBVIOUS
<1>1. /\ UNCHANGED <<table, req, ran, status>> /\ pc' \in {"base", "scan"} /\ status = 200
      /\ pc' = IF Base = <<>> THEN "scan" ELSE "base"
      /\ request_segments' = path_segments' /\ cand' = 1 /\ seg' = 0
  BY DEF Split, Unchanged, IInv, Quiet
<1>2. path_segments' \in Seq(Segments) /\ Len(path_segments') \in Nat
  BY SplitType DEF IInv, TypeOK, Split
<1>3. FirstMatch'
  BY <1>1, Verdict DEF IInv
<1>4. Quiet'
  BY <1>1 DEF Quiet
<1>5. InBase'
  BY <1>1, BaseAssumption DEF InBase
<1>6. InScan'
  <2> SUFFICES ASSUME Base = <<>> PROVE InScan'
    BY <1>1 DEF InScan
  <2>1. BaseAccepts'
    BY <1>2 DEF BaseAccepts
  <2>2. BaseCutOff'
    BY <1>1, <1>2 DEF BaseCutOff
  <2>3. NoneBefore'
    BY <1>1 DEF NoneBefore
  <2> QED
    BY <1>1, <2>1, <2>2, <2>3, CandidateBegins DEF IInv, table
<1> QED
  BY <1>3, <1>4, <1>5, <1>6

LEMMA BaseMatchesKeeps == IInv /\ BaseMatches => (Quiet /\ InBase /\ InScan /\ FirstMatch)'
<1> SUFFICES ASSUME IInv, BaseMatches PROVE (Quiet /\ InBase /\ InScan /\ FirstMatch)'
  OBVIOUS
<1>1. /\ UNCHANGED <<table, req, ran, status, pc, path_segments, request_segments, cand>>
      /\ pc = "base" /\ status = 200 /\ seg' = seg + 1 /\ seg \in Nat
  BY DEF BaseMatches, Unchanged, IInv, Quiet, TypeOK
<1>2. FirstMatch'
  BY <1>1, Verdict DEF IInv
<1>3. Quiet' /\ InScan'
  BY <1>1 DEF Quiet, InScan
<1>4. /\ request_segments = path_segments /\ cand = 1
      /\ \A k \in 1..seg : check_match(Base[k], path_segments[k])
  BY <1>1 DEF IInv, InBase
<1>5. /\ Len(Base) <= Len(path_segments) /\ seg < Len(Base) /\ Len(Base) \in Nat
      /\ check_match(Base[seg + 1], path_segments[seg + 1])
  BY <1>4, BaseAssumption DEF BaseMatches
<1>6. \A k \in 1..seg + 1 : check_match(Base[k], path_segments[k])
  <2> SUFFICES ASSUME NEW k \in 1..seg + 1 PROVE check_match(Base[k], path_segments[k])
    OBVIOUS
  <2>1. k \in 1..seg \/ k = seg + 1
    BY <1>1
  <2> QED
    BY <1>4, <1>5, <2>1
<1>7. InBase'
  BY <1>1, <1>4, <1>5, <1>6 DEF InBase
<1> QED
  BY <1>2, <1>3, <1>7

LEMMA BaseTakenKeeps == IInv /\ BaseTaken => (Quiet /\ InBase /\ InScan /\ FirstMatch)'
<1> SUFFICES ASSUME IInv, BaseTaken PROVE (Quiet /\ InBase /\ InScan /\ FirstMatch)'
  OBVIOUS
<1>1. /\ UNCHANGED <<table, req, ran, status, path_segments, cand>>
      /\ pc = "base" /\ status = 200 /\ pc' = "scan" /\ seg' = 0 /\ seg = Len(Base)
      /\ Len(Base) <= Len(request_segments)
      /\ request_segments' = SubSeq(request_segments, seg + 1, Len(request_segments))
  BY DEF BaseTaken, Unchanged, IInv, Quiet
<1>2. FirstMatch'
  BY <1>1, Verdict DEF IInv
<1>3. Quiet' /\ InBase'
  BY <1>1 DEF Quiet, InBase
<1>4. /\ request_segments = path_segments /\ cand = 1
      /\ \A k \in 1..seg : check_match(Base[k], path_segments[k])
  BY <1>1 DEF IInv, InBase
<1>5. BaseAccepts'
  BY <1>1, <1>4 DEF BaseAccepts
<1>6. BaseCutOff' /\ NoneBefore'
  BY <1>1, <1>4 DEF BaseCutOff, NoneBefore
<1>7. InScan'
  BY <1>1, <1>4, <1>5, <1>6, CandidateBegins DEF IInv, table
<1> QED
  BY <1>2, <1>3, <1>7

LEMMA SegmentMatchesKeeps ==
    IInv /\ SegmentMatches => (Quiet /\ InBase /\ InScan /\ FirstMatch)'
<1> SUFFICES ASSUME IInv, SegmentMatches PROVE (Quiet /\ InBase /\ InScan /\ FirstMatch)'
  OBVIOUS
<1>1. /\ UNCHANGED <<table, req, ran, status, pc, path_segments, request_segments, cand>>
      /\ routes' = routes /\ pc = "scan" /\ status = 200 /\ seg' = seg + 1 /\ Fits
      /\ seg < Len(Candidate.segments)
      /\ check_match(Candidate.segments[seg + 1], request_segments[seg + 1])
  BY DEF SegmentMatches, Unchanged, table, IInv, Quiet
<1>2. FirstMatch'
  BY <1>1, Verdict DEF IInv
<1>3. Quiet' /\ InBase'
  BY <1>1 DEF Quiet, InBase
<1>4. Candidate.segments \in Seq(Matcher) /\ Len(Candidate.segments) \in Nat /\ seg \in Nat
  BY <1>1, CandidateInTable DEF IInv, Fits, TypeOK
<1>5. /\ BaseAccepts /\ BaseCutOff /\ NoneBefore
      /\ \A k \in 1..seg : check_match(Candidate.segments[k], request_segments[k])
  BY <1>1 DEF IInv, InScan, MatchesSoFar, Fits
<1>6. \A k \in 1..seg + 1 : check_match(Candidate.segments[k], request_segments[k])
  <2> SUFFICES ASSUME NEW k \in 1..seg + 1
               PROVE  check_match(Candidate.segments[k], request_segments[k])
    OBVIOUS
  <2>1. k \in 1..seg \/ k = seg + 1
    BY <1>4
  <2> QED
    BY <1>1, <1>5, <2>1
<1>7. (BaseAccepts /\ BaseCutOff)' /\ Candidate' = Candidate /\ Fits'
  BY <1>1, <1>5 DEF BaseAccepts, BaseCutOff, Candidate, Fits
<1>8. NoneBefore'
  BY <1>1, <1>5 DEF NoneBefore, Takes, Whole
<1>9. MatchesSoFar'
  BY <1>1, <1>4, <1>6, <1>7 DEF MatchesSoFar
<1>10. InScan'
  BY <1>7, <1>8, <1>9 DEF InScan
<1> QED
  BY <1>2, <1>3, <1>10

LEMMA CandidateFailsKeeps ==
    IInv /\ CandidateFails => (Quiet /\ InBase /\ InScan /\ FirstMatch)'
<1> SUFFICES ASSUME IInv, CandidateFails PROVE (Quiet /\ InBase /\ InScan /\ FirstMatch)'
  OBVIOUS
<1>1. /\ UNCHANGED <<table, req, ran, status, pc, path_segments, request_segments>>
      /\ routes' = routes /\ pc = "scan" /\ status = 200 /\ seg' = 0 /\ cand' = cand + 1
      /\ cand <= Len(routes)
  BY DEF CandidateFails, Unchanged, table, IInv, Quiet
<1>2. FirstMatch'
  BY <1>1, Verdict DEF IInv
<1>3. Quiet' /\ InBase'
  BY <1>1 DEF Quiet, InBase
<1>4. ~Takes(cand, path_segments)
  BY <1>1, CandidateDoesNot DEF IInv, CandidateFails, TypeOK
<1>5. BaseAccepts /\ BaseCutOff /\ NoneBefore
  BY <1>1 DEF IInv, InScan
<1>6. cand \in Nat \ {0}
  BY DEF IInv, TypeOK
<1>7. \A j \in 1..cand'-1 : ~Takes(j, path_segments)
  <2> SUFFICES ASSUME NEW j \in 1..cand'-1 PROVE ~Takes(j, path_segments)
    OBVIOUS
  <2>1. j \in 1..cand-1 \/ j = cand
    BY <1>1, <1>6
  <2> QED
    BY <1>4, <1>5, <2>1 DEF NoneBefore
<1>8. NoneBefore'
  BY <1>1, <1>7 DEF NoneBefore, Takes, Whole
<1>9. (BaseAccepts /\ BaseCutOff)'
  BY <1>1, <1>5 DEF BaseAccepts, BaseCutOff
<1>10. InScan'
  BY <1>1, <1>5, <1>6, <1>8, <1>9, CandidateBegins DEF IInv
<1> QED
  BY <1>2, <1>3, <1>10

(* The three ways a request gets no handler. *)
LEMMA RefusalsKeep ==
    IInv /\ (BaseFails \/ NotAllowed \/ NotFound) => (Quiet /\ InBase /\ InScan /\ FirstMatch)'
<1> SUFFICES ASSUME IInv, BaseFails \/ NotAllowed \/ NotFound
             PROVE  (Quiet /\ InBase /\ InScan /\ FirstMatch)'
  OBVIOUS
<1>1. UNCHANGED <<table, req, ran, path_segments>> /\ pc' = "answered"
  BY DEF BaseFails, NotAllowed, NotFound, Throw, Unchanged
<1>2. (Quiet /\ InBase /\ InScan)'
  BY <1>1 DEF Quiet, InBase, InScan
<1>3. CASE BaseFails
  <2>1. status' = 404
    BY <1>3 DEF BaseFails, Throw
  <2> QED
    BY <1>1, <1>2, <1>3, <2>1, BaseRejects, Verdict DEF IInv
<1>4. CASE NotAllowed
  <2>1. status' = 405 /\ pc = "scan" /\ Fits /\ seg = Len(Candidate.segments)
    BY <1>4 DEF NotAllowed, Throw
  <2>2. cand \in 1..Len(routes) /\ First(cand, path_segments)
    BY <2>1, CandidateTakes, CandidateInTable DEF IInv, Fits
  <2>3. routes[cand].handlers[req.method] = NoHandler
    BY <1>4 DEF NotAllowed, method_supported, Candidate
  <2> QED
    BY <1>1, <1>2, <2>1, <2>2, <2>3, Verdict DEF IInv
<1>5. CASE NotFound
  <2>1. status' = 404 /\ pc = "scan" /\ cand > Len(routes)
    BY <1>5 DEF NotFound, Throw
  <2>2. NoneBefore /\ cand \in Nat /\ Len(routes) \in Nat
    BY <2>1 DEF IInv, InScan, TypeOK
  <2>3. ASSUME NEW j \in 1..Len(routes) PROVE ~Takes(j, path_segments)
    <3>1. j \in 1..cand-1
      BY <2>1, <2>2
    <3> QED
      BY <2>2, <3>1 DEF NoneBefore
  <2> QED
    BY <1>1, <1>2, <2>1, <2>3, Verdict DEF IInv
<1> QED
  BY <1>3, <1>4, <1>5

LEMMA DispatchKeeps == IInv /\ Dispatch => (Quiet /\ InBase /\ InScan /\ FirstMatch)'
<1> SUFFICES ASSUME IInv, Dispatch PROVE (Quiet /\ InBase /\ InScan /\ FirstMatch)'
  OBVIOUS
<1> DEFINE made == [route |-> cand, handler |-> Candidate.handlers[req.method],
                    segments |-> path_segments, params |-> params', inside |-> Len(frames)]
<1>1. /\ routes' = routes /\ req' = req /\ ran' = Append(ran, made)
      /\ pc' \in {"wrapper", "answered"} /\ status' \in {200, 500}
      /\ pc' # "answered" => status' = 200
  BY DEF Dispatch, Throw, Unchanged, table, IInv, Quiet
<1>2. First(cand, path_segments) /\ cand <= Len(routes)
  BY CandidateTakes DEF IInv, Dispatch, Fits
<1>3. /\ made.route = cand /\ made.segments = path_segments
      /\ made.handler = routes[cand].handlers[req.method] /\ made.handler # NoHandler
  BY DEF Dispatch, method_supported, Candidate
<1>4. ran \in Seq([route : 1..Len(routes), handler : Handlers, segments : Seq(Segments),
                   params : [Names -> Segments \cup {NoName}], inside : Nat])
  BY DEF IInv, TypeOK
<1>5. /\ Len(ran) \in Nat /\ Len(ran') = Len(ran) + 1 /\ ran'[Len(ran) + 1] = made
      /\ \A k \in 1..Len(ran) : ran'[k] = ran[k]
  <2> HIDE DEF made
  <2> QED
    BY <1>1, <1>4
<1>6. ASSUME NEW k \in 1..Len(ran')
      PROVE  /\ First(ran'[k].route, ran'[k].segments)
             /\ ran'[k].handler = routes[ran'[k].route].handlers[req.method]
             /\ ran'[k].handler # NoHandler
  <2>1. CASE k \in 1..Len(ran)
    BY <1>5, <2>1 DEF IInv, FirstMatch
  <2>2. CASE k = Len(ran) + 1
    <3> HIDE DEF made
    <3> QED
      BY <1>2, <1>3, <1>5, <2>2
  <2> QED
    BY <1>5, <2>1, <2>2
<1>7. ASSUME NEW k \in 1..Len(ran') PROVE First(ran[k].route, ran[k].segments)'
  <2>1. routes' = routes /\ First(ran'[k].route, ran'[k].segments)
    BY <1>1, <1>6
  <2> QED
    BY <2>1 DEF First, Takes, Whole
<1>8. FirstMatch'
  BY <1>1, <1>6, <1>7 DEF FirstMatch
<1> QED
  BY <1>1, <1>8 DEF Quiet, InBase, InScan

LEMMA Step == IInv /\ [MNext]_mvars => IInv'
<1> SUFFICES ASSUME IInv, [MNext]_mvars PROVE IInv'
  OBVIOUS
<1>1. TypeOK'
  BY TypeStep DEF IInv
<1>2. CASE \E r \in Requests : Receive(r)
  <2>1. ran' = <<>> /\ pc' = "next" /\ status' = 200
    BY <1>2 DEF Receive
  <2> QED
    BY <1>1, <2>1 DEF IInv, Quiet, InBase, InScan, FirstMatch
<1>3. CASE forward_to_handler \/ PluginThrows \/ Forwarded
  <2>1. /\ UNCHANGED <<table, req, ran>>
        /\ pc' \in {"next", "wrapper", "handler", "answered"}
        /\ pc' # "answered" => status' = 200
        /\ pc' = "answered" => status' \in {200, 500}
    BY <1>3 DEF forward_to_handler, CallWrapper, CallHandler, WrapperCallsNext,
                WrapperReturns, PluginThrows, Throw, Forwarded, Unchanged, IInv, Quiet
  <2> QED
    BY <1>1, <2>1, OutsideSearch DEF IInv
<1>4. CASE Split
  BY <1>1, <1>4, SplitKeeps DEF IInv
<1>5. CASE BaseMatches
  BY <1>1, <1>5, BaseMatchesKeeps DEF IInv
<1>6. CASE BaseFails \/ NotAllowed \/ NotFound
  BY <1>1, <1>6, RefusalsKeep DEF IInv
<1>7. CASE BaseTaken
  BY <1>1, <1>7, BaseTakenKeeps DEF IInv
<1>8. CASE SegmentMatches
  BY <1>1, <1>8, SegmentMatchesKeeps DEF IInv
<1>9. CASE CandidateFails
  BY <1>1, <1>9, CandidateFailsKeeps DEF IInv
<1>10. CASE Dispatch
  BY <1>1, <1>10, DispatchKeeps DEF IInv
<1>11. CASE UNCHANGED mvars
  <2>1. (Quiet /\ InBase)'
    BY <1>11 DEF mvars, IInv, Quiet, InBase
  <2>2. InScan'
    <3>1. NoneBefore => NoneBefore'
      BY <1>11 DEF mvars, table, NoneBefore, Takes, Whole
    <3>2. MatchesSoFar => MatchesSoFar'
      BY <1>11 DEF mvars, table, MatchesSoFar, Fits, Candidate
    <3>3. BaseAccepts /\ BaseCutOff => (BaseAccepts /\ BaseCutOff)'
      BY <1>11 DEF mvars, BaseAccepts, BaseCutOff
    <3> QED
      BY <1>11, <3>1, <3>2, <3>3 DEF mvars, IInv, InScan
  <2>3. FirstMatch'
    <3>1. UNCHANGED <<table, req, ran, pc, status, path_segments>>
      BY <1>11 DEF mvars
    <3>2. /\ pc' = "answered" /\ status' = 404 =>
                 \A i \in 1..Len(routes) : ~Takes(i, path_segments)
          /\ pc' = "answered" /\ status' = 405 =>
                 \E i \in 1..Len(routes) : /\ First(i, path_segments)
                                           /\ routes[i].handlers[req.method] = NoHandler
      BY <3>1 DEF IInv, FirstMatch
    <3> QED
      BY <3>1, <3>2, Verdict DEF IInv
  <2> QED
    BY <1>1, <2>1, <2>2, <2>3 DEF IInv
<1> QED
  BY <1>2, <1>3, <1>4, <1>5, <1>6, <1>7, <1>8, <1>9, <1>10, <1>11 DEF MNext, handler

-----------------------------------------------------------------------------
(* Naturals: least elements and induction.  The library states both for a
   predicate, which no prover here can instantiate; a set serves as well. *)

(* Every set of naturals that has an element has a least one. *)
LEMMA Least ==
    ASSUME NEW T \in SUBSET Nat, T # {}
    PROVE  \E x \in T : \A y \in T : x <= y
<1>1. PICK x \in T : \A y \in T : ~(<<y, x>> \in OpToRel(<, Nat))
  BY WFMin, NatLessThanWellFounded
<1>2. \A y \in Nat : <<y, x>> \in OpToRel(<, Nat) <=> y < x
  BY DEF OpToRel
<1>3. \A y \in T : x <= y
  <2> TAKE y \in T
  <2>1. ~(y < x)
    BY <1>1, <1>2
  <2> QED
    BY <2>1
<1> QED
  BY <1>3

(* Induction over the naturals below a bound, for a set instead of a predicate. *)
LEMMA Induction ==
    ASSUME NEW n \in Nat, NEW S, 0 \in S, \A i \in 0..n-1 : i \in S => i + 1 \in S
    PROVE  \A i \in 0..n : i \in S
<1> DEFINE T == {i \in 0..n : i \notin S}
<1> SUFFICES ASSUME T # {} PROVE FALSE
  OBVIOUS
<1>1. T \in SUBSET Nat
  OBVIOUS
<1> HIDE DEF T
<1>2. PICK x \in T : \A y \in T : x <= y
  BY <1>1, Least
<1>3. x \in 0..n /\ x \notin S
  BY <1>2 DEF T
<1>4. x - 1 \in 0..n-1 /\ x - 1 < x
  BY <1>3
<1>5. x - 1 \in S
  BY <1>2, <1>4 DEF T
<1> QED
  BY <1>3, <1>4, <1>5

-----------------------------------------------------------------------------
(* Parameters.  What the base path collects and then the segments of a route
   is what the whole path of the route collects. *)

LEMMA LastExists ==
    ASSUME NEW ms \in Seq(Matcher), NEW n \in Names, NEW j \in 1..Len(ms), Collects(ms[j], n)
    PROVE  LastOf(ms, n) # {}
<1> DEFINE Behind == {m \in Nat : m < Len(ms) /\ Collects(ms[Len(ms) - m], n)}
<1>1. Len(ms) - j \in Behind
  <2>1. Len(ms) - j \in Nat /\ Len(ms) - j < Len(ms) /\ Len(ms) - (Len(ms) - j) = j
    OBVIOUS
  <2> QED
    BY <2>1
<1>2. PICK x \in Behind : \A y \in Behind : x <= y
  <2>1. Behind \in SUBSET Nat
    OBVIOUS
  <2> HIDE DEF Behind
  <2> QED
    BY <1>1, <2>1, Least
<1>3. Len(ms) - x \in 1..Len(ms) /\ Collects(ms[Len(ms) - x], n)
  BY <1>2
<1>4. ASSUME NEW k \in Len(ms)-x+1..Len(ms), Collects(ms[k], n) PROVE FALSE
  <2>1. Len(ms) - k \in Nat /\ Len(ms) - k < Len(ms) /\ Len(ms) - (Len(ms) - k) = k
    BY <1>3
  <2>2. Len(ms) - k \in Behind
    BY <1>4, <2>1
  <2>3. Len(ms) - k < x
    BY <1>3
  <2> QED
    BY <1>2, <2>1, <2>2, <2>3
<1>5. Len(ms) - x \in LastOf(ms, n)
  BY <1>3, <1>4 DEF LastOf
<1> QED
  BY <1>5

LEMMA LastUnique ==
    ASSUME NEW ms \in Seq(Matcher), NEW n \in Names, NEW i \in LastOf(ms, n)
    PROVE  (CHOOSE k \in LastOf(ms, n) : TRUE) = i
<1>1. ASSUME NEW j \in LastOf(ms, n), NEW k \in LastOf(ms, n), j < k PROVE FALSE
  <2>1. k \in j+1..Len(ms)
    BY <1>1 DEF LastOf
  <2> QED
    BY <2>1 DEF LastOf
<1>2. ASSUME NEW j \in LastOf(ms, n), NEW k \in LastOf(ms, n) PROVE j = k
  <2>1. j \in Int /\ k \in Int
    BY DEF LastOf
  <2> QED
    BY <1>1, <2>1
<1>3. (CHOOSE k \in LastOf(ms, n) : TRUE) \in LastOf(ms, n)
  OBVIOUS
<1> QED
  BY <1>2, <1>3

LEMMA CollectedInTurn ==
    ASSUME NEW a \in Seq(Matcher), NEW b \in Seq(Matcher), NEW ss \in Seq(Segments),
           NEW ps \in [Names -> Segments \cup {NoName}],
           Len(a) + Len(b) <= Len(ss)
    PROVE  Collected(Collected(ps, a, ss), b, SubSeq(ss, Len(a) + 1, Len(ss)))
               = Collected(ps, a \o b, ss)
<1> DEFINE w == a \o b
           rest == SubSeq(ss, Len(a) + 1, Len(ss))
<1>1. /\ w \in Seq(Matcher) /\ Len(a) \in Nat /\ Len(b) \in Nat /\ Len(w) = Len(a) + Len(b)
      /\ \A k \in 1..Len(w) : w[k] = IF k <= Len(a) THEN a[k] ELSE b[k - Len(a)]
  OBVIOUS
<1>2. \A k \in 1..Len(b) : rest[k] = ss[Len(a) + k]
  BY <1>1
<1> HIDE DEF w, rest
<1>3. ASSUME NEW n \in Names, NEW i \in LastOf(b, n) PROVE Len(a) + i \in LastOf(w, n)
  <2>1. i \in 1..Len(b) /\ Collects(b[i], n) /\ \A j \in i+1..Len(b) : ~Collects(b[j], n)
    BY DEF LastOf
  <2>2. Len(a) + i \in 1..Len(w) /\ w[Len(a) + i] = b[i]
    <3>1. Len(a) + i \in 1..Len(w) /\ ~(Len(a) + i <= Len(a)) /\ (Len(a) + i) - Len(a) = i
      BY <1>1, <2>1
    <3> QED
      BY <1>1, <3>1
  <2>3. ASSUME NEW j \in Len(a)+i+1..Len(w) PROVE ~Collects(w[j], n)
    <3>1. j \in 1..Len(w) /\ ~(j <= Len(a)) /\ j - Len(a) \in i+1..Len(b)
      BY <1>1, <2>1
    <3>2. w[j] = b[j - Len(a)]
      BY <1>1, <3>1
    <3> QED
      BY <2>1, <3>1, <3>2
  <2> QED
    BY <2>1, <2>2, <2>3 DEF LastOf
<1>4. ASSUME NEW n \in Names, LastOf(b, n) = {} PROVE LastOf(w, n) = LastOf(a, n)
  <2>1. \A j \in 1..Len(b) : ~Collects(b[j], n)
    BY <1>4, LastExists
  <2>2. ASSUME NEW j \in 1..Len(w), Len(a) < j PROVE ~Collects(w[j], n)
    <3>1. ~(j <= Len(a)) /\ j - Len(a) \in 1..Len(b)
      BY <1>1, <2>2
    <3> QED
      BY <1>1, <2>1, <3>1
  <2>3. \A j \in 1..Len(a) : j \in 1..Len(w) /\ w[j] = a[j]
    BY <1>1
  <2>4. ASSUME NEW i \in LastOf(a, n) PROVE i \in LastOf(w, n)
    <3>1. i \in 1..Len(a) /\ Collects(a[i], n) /\ \A j \in i+1..Len(a) : ~Collects(a[j], n)
      BY DEF LastOf
    <3>2. ASSUME NEW j \in i+1..Len(w) PROVE ~Collects(w[j], n)
      <4>1. j \in 1..Len(w) /\ (Len(a) < j \/ j \in i+1..Len(a))
        BY <1>1, <3>1
      <4>2. CASE Len(a) < j
        BY <2>2, <4>1, <4>2
      <4>3. CASE j \in i+1..Len(a)
        <5>1. j \in 1..Len(a)
          BY <3>1, <4>3
        <5> QED
          BY <2>3, <3>1, <4>3, <5>1
      <4> QED
        BY <4>1, <4>2, <4>3
    <3> QED
      BY <2>3, <3>1, <3>2 DEF LastOf
  <2>5. ASSUME NEW i \in LastOf(w, n) PROVE i \in LastOf(a, n)
    <3>1. i \in 1..Len(w) /\ Collects(w[i], n) /\ \A j \in i+1..Len(w) : ~Collects(w[j], n)
      BY DEF LastOf
    <3>2. i \in 1..Len(a)
      BY <1>1, <2>2, <3>1
    <3>3. ASSUME NEW j \in i+1..Len(a) PROVE ~Collects(a[j], n)
      <4>1. j \in 1..Len(a) /\ j \in i+1..Len(w)
        BY <1>1, <3>2
      <4> QED
        BY <2>3, <3>1, <4>1
    <3> QED
      BY <2>3, <3>1, <3>2, <3>3 DEF LastOf
  <2> QED
    BY <2>4, <2>5
<1>5. ASSUME NEW n \in Names
      PROVE  Collected(Collected(ps, a, ss), b, rest)[n] = Collected(ps, w, ss)[n]
  <2>1. CASE LastOf(b, n) = {}
    <3>1. Collected(Collected(ps, a, ss), b, rest)[n] = Collected(ps, a, ss)[n]
      BY <2>1 DEF Collected
    <3>2. LastOf(w, n) = LastOf(a, n)
      BY <1>4, <2>1
    <3>3. Collected(ps, w, ss)[n] = Collected(ps, a, ss)[n]
      BY <3>2 DEF Collected
    <3> QED
      BY <3>1, <3>3
  <2>2. CASE LastOf(b, n) # {}
    <3>1. PICK i : i \in LastOf(b, n)
      BY <2>2
    <3>2. Collected(Collected(ps, a, ss), b, rest)[n] = rest[i]
      <4>1. (CHOOSE k \in LastOf(b, n) : TRUE) = i
        BY <3>1, LastUnique
      <4> QED
        BY <2>2, <4>1 DEF Collected
    <3>3. Collected(ps, w, ss)[n] = ss[Len(a) + i]
      <4>1. Len(a) + i \in LastOf(w, n)
        BY <1>3, <3>1
      <4>2. (CHOOSE k \in LastOf(w, n) : TRUE) = Len(a) + i
        BY <1>1, <4>1, LastUnique
      <4> QED
        BY <4>1, <4>2 DEF Collected
    <3>4. i \in 1..Len(b)
      BY <3>1 DEF LastOf
    <3> QED
      BY <1>2, <3>2, <3>3, <3>4
  <2> QED
    BY <2>1, <2>2
<1>6. Collected(Collected(ps, a, ss), b, rest) = Collected(ps, w, ss)
  BY <1>5 DEF Collected
<1> QED
  BY <1>6 DEF w, rest

-----------------------------------------------------------------------------
(* Wrappers that call next once at most, as the documentation of use_wrapper
   has them.  Then the counter and the stack of wrappers move together up to
   the handler, and no second search finds the parameters of a first. *)

Once == \A i \in 1..Len(wrappers) : wrappers[i] <= 1

Spent(k) == \A i \in 1..k : frames[i] = 0

MayCall == pc = "wrapper" /\ frames # <<>> /\ frames[Len(frames)] > 0

Nested ==
    /\ pc \in {"next", "handler", "base", "scan"} =>
           Len(frames) = wrapper_index /\ Spent(Len(frames))
    /\ pc \in {"handler", "base", "scan"} => wrapper_index = Len(wrappers)
    /\ pc = "wrapper" => Spent(Len(frames) - 1)
    /\ MayCall => frames[Len(frames)] = 1 /\ Len(frames) = wrapper_index

OwnSoFar ==
    /\ pc \in {"next", "handler", "base"} \/ MayCall => params = NoParams
    /\ pc = "scan" => params = Collected(NoParams, Base, path_segments)

NInv == Once /\ Nested /\ OwnSoFar /\ OwnParams /\ InsideWrappers

LEMMA NestedInit == ASSUME MInit, Once PROVE NInv
BY DEF MInit, Idle, NInv, Nested, OwnSoFar, OwnParams, InsideWrappers, MayCall

(* What the handlers called so far have seen does not change. *)
LEMMA SeenStays ==
    ASSUME NInv, UNCHANGED <<table, ran>>
    PROVE  (Once /\ OwnParams /\ InsideWrappers)'
BY DEF NInv, Once, OwnParams, InsideWrappers, table, Whole

(* Steps that leave the frames alone and are no search. *)
LEMMA WrappersKeep ==
    ASSUME IInv, NInv, CallWrapper \/ CallHandler \/ WrapperCallsNext \/ WrapperReturns
    PROVE  NInv'
<1>1. UNCHANGED <<table, ran, params>>
  BY DEF CallWrapper, CallHandler, WrapperCallsNext, WrapperReturns, Unchanged
<1>2. (Once /\ OwnParams /\ InsideWrappers)'
  BY <1>1, SeenStays
<1>3. frames \in Seq(Nat) /\ Len(frames) \in Nat /\ wrapper_index \in 0..Len(wrappers)
      /\ wrappers \in Seq(Nat) /\ Len(wrappers) \in Nat
  BY DEF IInv, TypeOK
<1>4. CASE CallWrapper
  <2> DEFINE n == wrappers[wrapper_index + 1]
  <2>1. /\ pc = "next" /\ pc' = "wrapper" /\ wrapper_index' = wrapper_index + 1
        /\ wrapper_index + 1 \in 1..Len(wrappers) /\ frames' = Append(frames, n)
    BY <1>3, <1>4 DEF CallWrapper
  <2>2. n \in Nat /\ n <= 1
    BY <1>3, <2>1 DEF NInv, Once
  <2>3. Len(frames) = wrapper_index /\ Spent(Len(frames)) /\ params = NoParams
    BY <2>1 DEF NInv, Nested, OwnSoFar
  <2>4. /\ Len(frames') = Len(frames) + 1 /\ frames'[Len(frames')] = n
        /\ \A i \in 1..Len(frames) : frames'[i] = frames[i]
    <3> HIDE DEF n
    <3> QED
      BY <1>3, <2>1, <2>2
  <2>5. Nested'
    <3>1. Len(frames') - 1 = Len(frames)
      BY <1>3, <2>4
    <3>2. Spent(Len(frames) - 1)'
      BY <2>3, <2>4, <3>1 DEF Spent
    <3> QED
      BY <2>1, <2>2, <2>3, <2>4, <3>2 DEF Nested, MayCall
  <2>6. OwnSoFar'
    BY <1>1, <2>1, <2>3 DEF OwnSoFar
  <2> QED
    BY <1>2, <2>5, <2>6 DEF NInv
<1>5. CASE CallHandler
  <2>1. pc = "next" /\ pc' = "handler" /\ wrapper_index = Len(wrappers)
        /\ UNCHANGED <<frames, wrapper_index, wrappers>>
    BY <1>5 DEF CallHandler, Unchanged, table
  <2>2. Len(frames) = wrapper_index /\ Spent(Len(frames)) /\ params = NoParams
    BY <2>1 DEF NInv, Nested, OwnSoFar
  <2> QED
    BY <1>1, <1>2, <2>1, <2>2 DEF NInv, Nested, OwnSoFar, MayCall, Spent
<1>6. CASE WrapperCallsNext
  <2>1. /\ MayCall /\ pc' = "next" /\ wrapper_index' = wrapper_index
        /\ frames' = [frames EXCEPT ![Len(frames)] = @ - 1] /\ Len(frames) \in 1..Len(frames)
    BY <1>3, <1>6 DEF WrapperCallsNext, MayCall
  <2>2. /\ frames[Len(frames)] = 1 /\ Len(frames) = wrapper_index /\ params = NoParams
        /\ Spent(Len(frames) - 1)
    BY <2>1 DEF NInv, Nested, OwnSoFar, MayCall
  <2>3. Len(frames') = Len(frames) /\ \A i \in 1..Len(frames) : frames'[i] = 0
    <3>1. Len(frames') = Len(frames)
      BY <1>3, <2>1
    <3>2. \A i \in 1..Len(frames) :
              frames'[i] = IF i = Len(frames) THEN frames[Len(frames)] - 1 ELSE frames[i]
      BY <1>3, <2>1
    <3>3. ASSUME NEW i \in 1..Len(frames), i # Len(frames) PROVE frames[i] = 0
      <4>1. i \in 1..Len(frames) - 1
        BY <1>3, <3>3
      <4> QED
        BY <2>2, <4>1 DEF Spent
    <3> QED
      BY <2>2, <3>1, <3>2, <3>3
  <2>4. Nested'
    BY <2>1, <2>2, <2>3 DEF Nested, MayCall, Spent
  <2> QED
    BY <1>1, <1>2, <2>1, <2>2, <2>4 DEF NInv, OwnSoFar, MayCall
<1>7. CASE WrapperReturns
  <2>1. /\ pc = "wrapper" /\ pc' = "wrapper" /\ frames # <<>>
        /\ frames' = SubSeq(frames, 1, Len(frames) - 1) /\ Spent(Len(frames) - 1)
    BY <1>7 DEF WrapperReturns, NInv, Nested
  <2>2. Len(frames) - 1 \in 0..Len(frames)
    BY <1>3, <2>1
  <2>3. /\ Len(frames') = Len(frames) - 1
        /\ \A i \in 1..Len(frames) - 1 : frames'[i] = frames[i]
    <3>1. \A m \in 0..Len(frames) : /\ Len(SubSeq(frames, 1, m)) = m
                                    /\ \A i \in 1..m : SubSeq(frames, 1, m)[i] = frames[i]
      BY <1>3
    <3> QED
      BY <2>1, <2>2, <3>1
  <2>4. \A i \in 1..Len(frames') : frames'[i] = 0
    BY <2>1, <2>3 DEF Spent
  <2>5. Spent(Len(frames) - 1)'
    BY <2>2, <2>3, <2>4 DEF Spent
  <2>6. ~MayCall'
    <3> SUFFICES ASSUME frames' # <<>> PROVE ~(frames'[Len(frames')] > 0)
      BY DEF MayCall
    <3>1. frames' \in Seq(Nat)
      BY <1>3, <2>1, <2>2
    <3>2. Len(frames') \in 1..Len(frames')
      BY <3>1
    <3>3. frames'[Len(frames')] = 0
      BY <2>4, <3>2
    <3> QED
      BY <3>3
  <2> QED
    BY <1>2, <2>1, <2>5, <2>6 DEF NInv, Nested, OwnSoFar
<1> QED
  BY <1>4, <1>5, <1>6, <1>7

LEMMA SearchKeeps ==
    ASSUME IInv, NInv, Split \/ BaseMatches \/ BaseTaken \/ SegmentMatches \/ CandidateFails
    PROVE  NInv'
<1>1. /\ UNCHANGED <<table, ran, frames, wrapper_index>>
      /\ pc \in {"handler", "base", "scan"} /\ pc' \in {"base", "scan"}
  BY DEF Split, BaseMatches, BaseTaken, SegmentMatches, CandidateFails, Unchanged
<1>2. (Once /\ OwnParams /\ InsideWrappers)'
  BY <1>1, SeenStays
<1>3. Nested'
  BY <1>1 DEF NInv, Nested, MayCall, Spent, table
<1>4. OwnSoFar'
  <2>1. CASE Split
    <3>1. params = NoParams /\ params' = params /\ pc' = IF Base = <<>> THEN "scan" ELSE "base"
      BY <2>1 DEF Split, NInv, OwnSoFar
    <3>2. ASSUME Base = <<>> PROVE Collected(NoParams, Base, path_segments') = NoParams
      <4>1. \A n \in Names : LastOf(Base, n) = {}
        BY <3>2 DEF LastOf
      <4> QED
        BY <4>1 DEF Collected, NoParams
    <3> QED
      BY <1>1, <3>1, <3>2 DEF OwnSoFar, MayCall
  <2>2. CASE BaseMatches
    BY <1>1, <2>2 DEF BaseMatches, NInv, OwnSoFar, MayCall
  <2>3. CASE BaseTaken
    <3>1. /\ pc = "base" /\ pc' = "scan" /\ path_segments' = path_segments
          /\ params' = Collected(params, Base, request_segments)
      BY <2>3 DEF BaseTaken
    <3>2. params = NoParams /\ request_segments = path_segments
      BY <3>1 DEF NInv, OwnSoFar, IInv, InBase
    <3> QED
      BY <3>1, <3>2 DEF OwnSoFar, MayCall
  <2>4. CASE SegmentMatches \/ CandidateFails
    <3>1. pc = "scan" /\ pc' = "scan" /\ UNCHANGED <<params, path_segments>>
      BY <2>4 DEF SegmentMatches, CandidateFails
    <3> QED
      BY <3>1 DEF NInv, OwnSoFar, MayCall
  <2> QED
    BY <2>1, <2>2, <2>3, <2>4
<1> QED
  BY <1>2, <1>3, <1>4 DEF NInv

(* The handler sees what its whole path has collected, inside all wrappers. *)
LEMMA DispatchSees == ASSUME IInv, NInv, Dispatch PROVE NInv'
<1> DEFINE made == [route |-> cand, handler |-> Candidate.handlers[req.method],
                    segments |-> path_segments, params |-> params', inside |-> Len(frames)]
<1>1. /\ pc = "scan" /\ Fits /\ routes' = routes /\ wrappers' = wrappers
      /\ ran' = Append(ran, made)
      /\ params' = Collected(params, Candidate.segments, request_segments)
      /\ \/ pc' = "wrapper" /\ UNCHANGED <<frames, wrapper_index>>
         \/ pc' = "answered"
  BY DEF Dispatch, Throw, Unchanged, table
<1>2. /\ Len(frames) = wrapper_index /\ wrapper_index = Len(wrappers) /\ Spent(Len(frames))
      /\ params = Collected(NoParams, Base, path_segments)
  BY <1>1 DEF NInv, Nested, OwnSoFar
<1>3. params' = Collected(NoParams, Whole(cand), path_segments)
  <2>1. /\ cand \in 1..Len(routes) /\ Candidate.segments \in Seq(Matcher)
        /\ Base \in Seq(Matcher) /\ path_segments \in Seq(Segments)
    BY <1>1, CandidateInTable, BaseAssumption DEF IInv, Fits, TypeOK
  <2>2. /\ request_segments = SubSeq(path_segments, Len(Base) + 1, Len(path_segments))
        /\ Len(Base) <= Len(path_segments)
    BY <1>1 DEF IInv, InScan, BaseCutOff, BaseAccepts
  <2>3. Len(Base) + Len(Candidate.segments) <= Len(path_segments)
    <3>1. Len(request_segments) = Len(path_segments) - Len(Base)
      BY <2>2, Rest DEF IInv
    <3>2. Len(Candidate.segments) <= Len(request_segments)
      BY <1>1 DEF Fits
    <3> QED
      BY <2>1, <3>1, <3>2
  <2>4. NoParams \in [Names -> Segments \cup {NoName}]
    BY DEF NoParams
  <2>5. Collected(Collected(NoParams, Base, path_segments), Candidate.segments,
                  SubSeq(path_segments, Len(Base) + 1, Len(path_segments)))
            = Collected(NoParams, Base \o Candidate.segments, path_segments)
    BY <2>1, <2>3, <2>4, CollectedInTurn
  <2> QED
    BY <1>1, <1>2, <2>2, <2>5 DEF Whole, Candidate
<1>4. /\ Len(ran) \in Nat /\ Len(ran') = Len(ran) + 1 /\ ran'[Len(ran) + 1] = made
      /\ \A k \in 1..Len(ran) : ran'[k] = ran[k]
  <2>1. ran \in Seq([route : 1..Len(routes), handler : Handlers, segments : Seq(Segments),
                     params : [Names -> Segments \cup {NoName}], inside : Nat])
    BY DEF IInv, TypeOK
  <2> HIDE DEF made
  <2> QED
    BY <1>1, <2>1
<1>5. made.route = cand /\ made.segments = path_segments /\ made.params = params'
      /\ made.inside = Len(frames)
  OBVIOUS
<1> HIDE DEF made
<1>6. ASSUME NEW k \in 1..Len(ran')
      PROVE  /\ ran'[k].params = Collected(NoParams, Whole(ran'[k].route), ran'[k].segments)
             /\ ran'[k].inside = Len(wrappers)
  <2>1. CASE k \in 1..Len(ran)
    BY <1>4, <2>1 DEF NInv, OwnParams, InsideWrappers
  <2>2. CASE k = Len(ran) + 1
    BY <1>2, <1>3, <1>4, <1>5, <2>2
  <2> QED
    BY <1>4, <2>1, <2>2
<1>7. (Once /\ OwnParams /\ InsideWrappers)'
  BY <1>1, <1>6 DEF NInv, Once, OwnParams, InsideWrappers, Whole
<1>8. Nested' /\ OwnSoFar'
  <2>1. CASE pc' = "answered"
    BY <2>1 DEF Nested, OwnSoFar, MayCall
  <2>2. CASE pc' = "wrapper" /\ UNCHANGED <<frames, wrapper_index>>
    <3>1. frames \in Seq(Nat) /\ Len(frames) \in Nat
      BY DEF IInv, TypeOK
    <3>2. Spent(Len(frames) - 1)
      BY <1>2, <3>1 DEF Spent
    <3>3. frames # <<>> => frames[Len(frames)] = 0
      <4>1. frames # <<>> => Len(frames) \in 1..Len(frames)
        BY <3>1
      <4> QED
        BY <1>2, <4>1 DEF Spent
    <3> QED
      BY <2>2, <3>2, <3>3 DEF Nested, OwnSoFar, MayCall, Spent
  <2> QED
    BY <1>1, <2>1, <2>2
<1> QED
  BY <1>7, <1>8 DEF NInv

LEMMA NestedStep == ASSUME IInv, NInv, [MNext]_mvars PROVE NInv'
<1>1. CASE \E r \in Requests : Receive(r)
  <2>1. /\ ran' = <<>> /\ pc' = "next" /\ frames' = <<>> /\ wrapper_index' = 0
        /\ params' = NoParams /\ wrappers' = wrappers
    BY <1>1 DEF Receive, table
  <2> QED
    BY <2>1 DEF NInv, Once, Nested, OwnSoFar, OwnParams, InsideWrappers, MayCall, Spent
<1>2. CASE forward_to_handler
  BY <1>2, WrappersKeep DEF forward_to_handler
<1>3. CASE Split \/ BaseMatches \/ BaseTaken \/ SegmentMatches \/ CandidateFails
  BY <1>3, SearchKeeps
<1>4. CASE PluginThrows \/ BaseFails \/ NotAllowed \/ NotFound \/ Forwarded
  <2>1. UNCHANGED <<table, ran>> /\ pc' = "answered"
    BY <1>4 DEF PluginThrows, BaseFails, NotAllowed, NotFound, Forwarded, Throw, Unchanged
  <2> QED
    BY <2>1, SeenStays DEF NInv, Nested, OwnSoFar, MayCall
<1>5. CASE Dispatch
  BY <1>5, DispatchSees
<1>6. CASE UNCHANGED mvars
  <2>1. UNCHANGED <<table, ran>>
    BY <1>6 DEF mvars
  <2>2. (Nested /\ OwnSoFar)'
    BY <1>6 DEF NInv, Nested, OwnSoFar, MayCall, Spent, mvars, table
  <2> QED
    BY <2>1, <2>2, SeenStays DEF NInv
<1> QED
  BY <1>1, <1>2, <1>3, <1>4, <1>5, <1>6 DEF MNext, handler

-----------------------------------------------------------------------------
(* The table, the request and what the search keeps of it have their types. *)
THEOREM DispatchTyped == MSpec => []TypeOK
<1>1. MInit => TypeOK
  BY TypeInit
<1>2. TypeOK /\ [MNext]_mvars => TypeOK'
  BY TypeStep
<1> QED
  BY <1>1, <1>2, PTL DEF MSpec

(* Whatever the table, the base path, the wrappers and the request: the first
   route whose whole path matches decides what becomes of the request. *)
THEOREM FirstMatchAlways == MSpec => []FirstMatch
<1>1. MInit => IInv
  BY Initially
<1>2. IInv /\ [MNext]_mvars => IInv'
  BY Step
<1>3. IInv => FirstMatch
  BY DEF IInv
<1> QED
  BY <1>1, <1>2, <1>3, PTL DEF MSpec

(* With wrappers that call next once at most, a handler sees the parameters
   of its own route and of the base path, each from its own segment. *)
THEOREM OwnParamsAlways ==
    ASSUME \A w \in WrapperLists : \A i \in 1..Len(w) : w[i] <= 1
    PROVE  MSpec => []OwnParams
<1>1. MInit => IInv /\ NInv
  BY Initially, NestedInit DEF MInit, Once
<1>2. IInv /\ NInv /\ [MNext]_mvars => (IInv /\ NInv)'
  BY Step, NestedStep
<1>3. NInv => OwnParams
  BY DEF NInv
<1> QED
  BY <1>1, <1>2, <1>3, PTL DEF MSpec

(* With such wrappers, a handler runs inside all of them. *)
THEOREM InsideWrappersAlways ==
    ASSUME \A w \in WrapperLists : \A i \in 1..Len(w) : w[i] <= 1
    PROVE  MSpec => []InsideWrappers
<1>1. MInit => IInv /\ NInv
  BY Initially, NestedInit DEF MInit, Once
<1>2. IInv /\ NInv /\ [MNext]_mvars => (IInv /\ NInv)'
  BY Step, NestedStep
<1>3. NInv => InsideWrappers
  BY DEF NInv
<1> QED
  BY <1>1, <1>2, <1>3, PTL DEF MSpec

-----------------------------------------------------------------------------
(* Registration, for any paths, chunks and number of calls: the table that the
   calls of the set-up make is the one a reader of the program expects, and
   every request is taken through it as proved above of any table. *)

Paths == Path(Chunks)

Entry == [op : {"handle", "method", "use_wrapper"}, path : Paths, method : Methods \cup {""}]

RTypes ==
    /\ paths \in Seq(Paths) /\ Len(paths) = Len(routes)
    /\ calls \in Seq(Entry)
    /\ setup \in BOOLEAN /\ (setup => Idle)

(* The parts of TableAsRegistered, for calls cs. *)
MadeIn(cs, op, p) == {i \in 1..Len(cs) : cs[i].op = op /\ cs[i].path = p}

Before(cs, p, q) == \E b \in MadeIn(cs, "handle", q) : \A a \in MadeIn(cs, "handle", p) : a < b

GivenIn(cs, p, m) ==
    {i \in MadeIn(cs, "method", p) : /\ \A j \in MadeIn(cs, "handle", p) : j < i
                                     /\ cs[i].method = m}

IsGiven(cs, p, m, h) ==
    IF GivenIn(cs, p, m) = {} THEN h = NoHandler
    ELSE h \in GivenIn(cs, p, m) /\ \A k \in GivenIn(cs, p, m) : k <= h

Ordered == \A j \in 1..Len(paths) : \A i \in 1..j-1 : Before(calls, paths[i], paths[j])

Every == \A i \in 1..Len(calls) : calls[i].op = "handle" =>
    \E j \in 1..Len(paths) : paths[j] = calls[i].path

Given == \A i \in 1..Len(routes) : \A m \in Methods :
    IsGiven(calls, paths[i], m, routes[i].handlers[m])

Table == Ordered /\ Every /\ Given

RInv == IInv /\ RTypes /\ Table

LEMMA TableSaysSo == RTypes /\ Table => TableAsRegistered
<1> SUFFICES ASSUME RTypes, Table PROVE TableAsRegistered
  OBVIOUS
<1>1. \A op, p : Made(op, p) = MadeIn(calls, op, p)
  BY DEF Made, MadeIn
<1>2. ASSUME NEW i \in 1..Len(paths), NEW j \in 1..Len(paths), i < j
      PROVE  \E b \in Made("handle", paths[j]) : \A a \in Made("handle", paths[i]) : a < b
  <2>1. i \in 1..j-1
    BY <1>2
  <2>2. Before(calls, paths[i], paths[j])
    BY <2>1 DEF Table, Ordered
  <2> QED
    BY <1>1, <2>2 DEF Before
<1>3. \A i \in 1..Len(routes), m \in Methods :
          {k \in Since(paths[i]) : calls[k].method = m} = GivenIn(calls, paths[i], m)
  BY <1>1 DEF Since, GivenIn
<1>4. ASSUME NEW i \in 1..Len(routes), NEW m \in Methods
      PROVE  LET given == {k \in Since(paths[i]) : calls[k].method = m}
             IN  IF given = {} THEN routes[i].handlers[m] = NoHandler
                 ELSE /\ routes[i].handlers[m] \in given
                      /\ \A k \in given : k <= routes[i].handlers[m]
  <2>1. IsGiven(calls, paths[i], m, routes[i].handlers[m])
    BY DEF Table, Given
  <2> QED
    BY <1>3, <2>1 DEF IsGiven
<1> QED
  BY <1>2, <1>4 DEF RTypes, Table, Every, TableAsRegistered

-----------------------------------------------------------------------------
(* What one more call changes of that. *)

LEMMA Grows ==
    ASSUME NEW cs \in Seq(Entry), NEW e \in Entry, NEW op, NEW p
    PROVE  /\ Len(cs) \in Nat
           /\ \A i \in 1..Len(cs) : Append(cs, e)[i] = cs[i]
           /\ Append(cs, e)[Len(cs) + 1] = e
           /\ MadeIn(cs, op, p) \subseteq 1..Len(cs)
           /\ MadeIn(Append(cs, e), op, p) =
                  IF e.op = op /\ e.path = p THEN MadeIn(cs, op, p) \cup {Len(cs) + 1}
                  ELSE MadeIn(cs, op, p)
<1> DEFINE ds == Append(cs, e)
<1>1. /\ Len(cs) \in Nat /\ Len(ds) = Len(cs) + 1 /\ ds[Len(cs) + 1] = e
      /\ \A i \in 1..Len(cs) : ds[i] = cs[i]
  OBVIOUS
<1> HIDE DEF ds
<1>2. MadeIn(ds, op, p) = IF e.op = op /\ e.path = p
                            THEN MadeIn(cs, op, p) \cup {Len(cs) + 1}
                          ELSE MadeIn(cs, op, p)
  <2>1. \A i : i \in 1..Len(ds) <=> i \in 1..Len(cs) \/ i = Len(cs) + 1
    BY <1>1
  <2> QED
    BY <1>1, <2>1 DEF MadeIn
<1> QED
  BY <1>1, <1>2 DEF ds, MadeIn

LEMMA BeforeStays ==
    ASSUME NEW cs \in Seq(Entry), NEW e \in Entry, NEW p, NEW q, Before(cs, p, q),
           ~(e.op = "handle" /\ e.path = p)
    PROVE  Before(Append(cs, e), p, q)
<1>1. MadeIn(Append(cs, e), "handle", p) = MadeIn(cs, "handle", p)
  BY Grows
<1>2. MadeIn(cs, "handle", q) \subseteq MadeIn(Append(cs, e), "handle", q)
  BY Grows
<1> QED
  BY <1>1, <1>2 DEF Before

LEMMA BeforeLast ==
    ASSUME NEW cs \in Seq(Entry), NEW e \in Entry, NEW p, e.op = "handle", e.path # p
    PROVE  Before(Append(cs, e), p, e.path)
<1>1. MadeIn(Append(cs, e), "handle", p) \subseteq 1..Len(cs) /\ Len(cs) \in Nat
  BY Grows
<1>2. Len(cs) + 1 \in MadeIn(Append(cs, e), "handle", e.path)
  BY Grows
<1>3. \A a \in MadeIn(Append(cs, e), "handle", p) : a < Len(cs) + 1
  BY <1>1
<1> QED
  BY <1>2, <1>3 DEF Before

LEMMA NotBeforeItself == ASSUME NEW cs \in Seq(Entry), NEW p PROVE ~Before(cs, p, p)
<1> SUFFICES ASSUME NEW b \in MadeIn(cs, "handle", p), b < b PROVE FALSE
  BY DEF Before
<1> QED
  BY DEF MadeIn

LEMMA GivenStays ==
    ASSUME NEW cs \in Seq(Entry), NEW e \in Entry, NEW p, NEW m, NEW h,
           IsGiven(cs, p, m, h),
           ~(e.op = "handle" /\ e.path = p),
           ~(e.op = "method" /\ e.path = p /\ e.method = m)
    PROVE  IsGiven(Append(cs, e), p, m, h)
<1>1. MadeIn(Append(cs, e), "handle", p) = MadeIn(cs, "handle", p)
  BY Grows
<1>2. ASSUME NEW i \in GivenIn(cs, p, m) PROVE i \in GivenIn(Append(cs, e), p, m)
  BY <1>1, Grows DEF GivenIn
<1>3. ASSUME NEW i \in GivenIn(Append(cs, e), p, m) PROVE i \in GivenIn(cs, p, m)
  <2>1. i \in MadeIn(Append(cs, e), "method", p) /\ Append(cs, e)[i].method = m
    BY DEF GivenIn
  <2>2. i \in MadeIn(cs, "method", p)
    BY <2>1, Grows
  <2> QED
    BY <1>1, <2>1, <2>2, Grows DEF GivenIn
<1>4. GivenIn(Append(cs, e), p, m) = GivenIn(cs, p, m)
  BY <1>2, <1>3
<1> QED
  BY <1>4 DEF IsGiven

LEMMA NoneGiven ==
    ASSUME NEW cs \in Seq(Entry), NEW e \in Entry, NEW m, e.op = "handle"
    PROVE  IsGiven(Append(cs, e), e.path, m, NoHandler)
<1>1. ASSUME NEW i \in GivenIn(Append(cs, e), e.path, m) PROVE FALSE
  <2>1. Len(cs) + 1 \in MadeIn(Append(cs, e), "handle", e.path) /\ Len(cs) \in Nat
    BY Grows
  <2>2. i \in MadeIn(Append(cs, e), "method", e.path) /\ Len(cs) + 1 < i
    BY <2>1 DEF GivenIn
  <2>3. i \in 1..Len(cs)
    BY <2>2, Grows
  <2> QED
    BY <2>1, <2>2, <2>3
<1> QED
  BY <1>1 DEF IsGiven

LEMMA NewGiven ==
    ASSUME NEW cs \in Seq(Entry), NEW e \in Entry, e.op = "method"
    PROVE  IsGiven(Append(cs, e), e.path, e.method, Len(cs) + 1)
<1>1. /\ MadeIn(Append(cs, e), "handle", e.path) \subseteq 1..Len(cs) /\ Len(cs) \in Nat
      /\ Append(cs, e)[Len(cs) + 1] = e
  BY Grows
<1>2. Len(cs) + 1 \in MadeIn(Append(cs, e), "method", e.path)
  BY Grows
<1>3. Len(cs) + 1 \in GivenIn(Append(cs, e), e.path, e.method)
  <2>1. \A j \in MadeIn(Append(cs, e), "handle", e.path) : j < Len(cs) + 1
    BY <1>1
  <2> QED
    BY <1>1, <1>2, <2>1 DEF GivenIn
<1>4. ASSUME NEW k \in GivenIn(Append(cs, e), e.path, e.method) PROVE k <= Len(cs) + 1
  <2>1. k \in MadeIn(Append(cs, e), "method", e.path)
    BY DEF GivenIn
  <2>2. k \in 1..Len(cs) \/ k = Len(cs) + 1
    BY <2>1, Grows
  <2> QED
    BY <1>1, <2>2
<1> QED
  BY <1>3, <1>4 DEF IsGiven

-----------------------------------------------------------------------------
(* Without, which is recursive.  The entries it keeps are those at the
   places Kept(p), whatever the sequence. *)

Places == [i \in 1..Len(paths) |-> i]

Kept(p) == Without(Places, p)

Among(i, q) == \E k \in 1..Len(q) : q[k] = i

Picks(f, s, O) ==
    /\ f[0] = <<>>
    /\ \A i \in 1..Len(s) : f[i] = IF i \in O THEN Append(f[i - 1], s[i]) ELSE f[i - 1]

(* The recursive function exists: there is one up to each place. *)
LEMMA WithoutUnfolds ==
    ASSUME NEW s, Len(s) \in Nat, NEW p
    PROVE  \E f : Picks(f, s, Others(p)) /\ Without(s, p) = f[Len(s)]
<1> DEFINE Def(g, n) == [i \in 0..n |->
               IF i = 0 THEN <<>>
               ELSE IF i \in Others(p) THEN Append(g[i - 1], s[i]) ELSE g[i - 1]]
           Has == {n \in Nat : \E g : g = Def(g, n)}
<1>1. 0 \in Has
  <2>1. [i \in 0..0 |-> <<>>] = Def([i \in 0..0 |-> <<>>], 0)
    OBVIOUS
  <2> QED
    BY <2>1
<1>2. ASSUME NEW n \in 0..Len(s)-1, n \in Has PROVE n + 1 \in Has
  <2>1. PICK g : g = Def(g, n)
    BY <1>2
  <2> DEFINE h == [i \in 0..n+1 |->
                 IF i <= n THEN g[i]
                 ELSE IF i \in Others(p) THEN Append(g[n], s[i]) ELSE g[n]]
  <2>2. ASSUME NEW i \in 0..n+1
        PROVE  h[i] = IF i = 0 THEN <<>>
                      ELSE IF i \in Others(p) THEN Append(h[i - 1], s[i]) ELSE h[i - 1]
    <3>1. CASE i = 0
      <4>1. 0 \in 0..n /\ g[0] = <<>>
        BY <2>1
      <4> QED
        BY <3>1, <4>1
    <3>2. CASE i \in 1..n
      <4>1. /\ i \in 0..n /\ i # 0 /\ i - 1 \in 0..n /\ i <= n /\ i - 1 <= n
        BY <3>2
      <4>2. g[i] = IF i \in Others(p) THEN Append(g[i - 1], s[i]) ELSE g[i - 1]
        BY <2>1, <4>1
      <4> QED
        BY <4>1, <4>2
    <3>3. CASE i = n + 1
      <4>1. i # 0 /\ ~(i <= n) /\ i - 1 = n /\ n \in 0..n+1 /\ n <= n
        BY <3>3
      <4> QED
        BY <4>1
    <3> QED
      BY <3>1, <3>2, <3>3
  <2>3. h = Def(h, n + 1)
    BY <2>2
  <2>4. n + 1 \in Nat
    OBVIOUS
  <2> HIDE DEF h, Def
  <2> QED
    BY <2>3, <2>4
<1>3. Len(s) \in Has
  <2>1. \A i \in 0..Len(s) : i \in Has
    <3> HIDE DEF Has
    <3> QED
      BY <1>1, <1>2, Induction
  <2> HIDE DEF Has
  <2> QED
    BY <2>1
<1> DEFINE kept == CHOOSE g : g = Def(g, Len(s))
<1>4. kept = Def(kept, Len(s))
  BY <1>3
<1>5. Without(s, p) = kept[Len(s)]
  BY DEF Without
<1>6. Picks(kept, s, Others(p))
  <2> HIDE DEF kept
  <2>1. kept[0] = <<>>
    BY <1>4
  <2>3. \A i \in 1..Len(s) :
            Def(kept, Len(s))[i] = IF i \in Others(p) THEN Append(kept[i - 1], s[i])
                                   ELSE kept[i - 1]
    OBVIOUS
  <2> HIDE DEF Def
  <2>2. ASSUME NEW i \in 1..Len(s)
        PROVE  kept[i] = IF i \in Others(p) THEN Append(kept[i - 1], s[i]) ELSE kept[i - 1]
    BY <1>4, <2>3
  <2> QED
    BY <2>1, <2>2 DEF Picks
<1> QED
  BY <1>5, <1>6

LEMMA PickedPlaces ==
    ASSUME NEW N \in Nat, NEW h, NEW O, NEW ids, Len(ids) = N, \A i \in 1..N : ids[i] = i,
           Picks(h, ids, O)
    PROVE  \A n \in 0..N :
               /\ h[n] \in Seq(1..n) /\ \A k \in 1..Len(h[n]) : h[n][k] \in O
               /\ \A k \in 1..Len(h[n]) : \A j \in 1..k-1 : h[n][j] < h[n][k]
               /\ \A i \in 1..n : i \in O => Among(i, h[n])
<1> DEFINE Good(n) ==
               /\ h[n] \in Seq(1..n) /\ \A k \in 1..Len(h[n]) : h[n][k] \in O
               /\ \A k \in 1..Len(h[n]) : \A j \in 1..k-1 : h[n][j] < h[n][k]
               /\ \A i \in 1..n : i \in O => Among(i, h[n])
           Goods == {n \in 0..N : Good(n)}
<1>1. 0 \in Goods
  <2>1. h[0] = <<>>
    BY DEF Picks
  <2>2. <<>> \in Seq(1..0) /\ Len(<<>>) = 0 /\ 0 \in 0..N
    OBVIOUS
  <2>3. Good(0)
    BY <2>1, <2>2
  <2> QED
    BY <2>2, <2>3
<1>2. ASSUME NEW n \in 0..N-1, n \in Goods PROVE n + 1 \in Goods
  <2>1. n + 1 \in 1..N /\ (n + 1) - 1 = n /\ n + 1 \in 1..n+1
    OBVIOUS
  <2>2. h[n + 1] = IF n + 1 \in O THEN Append(h[n], n + 1) ELSE h[n]
    BY <2>1 DEF Picks
  <2>3. Good(n)
    BY <1>2
  <2>4. Len(h[n]) \in Nat /\ h[n] \in Seq(1..n+1)
            /\ \A k \in 1..Len(h[n]) : h[n][k] \in 1..n
    BY <2>3
  <2>5. CASE n + 1 \in O
    <3>1. /\ h[n + 1] \in Seq(1..n+1) /\ Len(h[n + 1]) = Len(h[n]) + 1
          /\ h[n + 1][Len(h[n]) + 1] = n + 1
          /\ \A k \in 1..Len(h[n]) : h[n + 1][k] = h[n][k]
      <4>1. h[n + 1] = Append(h[n], n + 1)
        BY <2>2, <2>5
      <4> QED
        BY <2>1, <2>4, <4>1
    <3>2. Len(h[n]) \in Nat /\ Len(h[n + 1]) = Len(h[n]) + 1
      BY <2>4, <3>1
    <3>3. ASSUME NEW k \in 1..Len(h[n + 1]) PROVE h[n + 1][k] \in O
      <4>1. k \in 1..Len(h[n]) \/ k = Len(h[n]) + 1
        BY <3>2
      <4> QED
        BY <2>3, <2>5, <3>1, <4>1
    <3>4. ASSUME NEW k \in 1..Len(h[n + 1]), NEW j \in 1..k-1
          PROVE  h[n + 1][j] < h[n + 1][k]
      <4>1. j \in 1..Len(h[n]) /\ (k \in 1..Len(h[n]) \/ k = Len(h[n]) + 1)
        BY <3>2
      <4>2. CASE k \in 1..Len(h[n])
        <5>1. h[n][j] < h[n][k]
          BY <2>3, <4>2
        <5> QED
          BY <3>1, <4>1, <4>2, <5>1
      <4>3. CASE k = Len(h[n]) + 1
        <5>1. h[n + 1][j] = h[n][j] /\ h[n][j] \in 1..n /\ h[n + 1][k] = n + 1
          BY <2>4, <3>1, <4>1, <4>3
        <5> QED
          BY <5>1
      <4> QED
        BY <4>1, <4>2, <4>3
    <3>5. ASSUME NEW i \in 1..n+1, i \in O
          PROVE  Among(i, h[n + 1])
      <4>1. CASE i = n + 1
        <5>1. Len(h[n]) + 1 \in 1..Len(h[n + 1])
          BY <3>2
        <5> QED
          BY <3>1, <4>1, <5>1 DEF Among
      <4>2. CASE i \in 1..n
        <5>1. PICK k \in 1..Len(h[n]) : h[n][k] = i
          BY <2>3, <3>5, <4>2 DEF Among
        <5>2. k \in 1..Len(h[n + 1])
          BY <3>2
        <5> QED
          BY <3>1, <5>1, <5>2 DEF Among
      <4> QED
        BY <4>1, <4>2
    <3>6. Good(n + 1)
      BY <3>1, <3>3, <3>4, <3>5
    <3> HIDE DEF Good
    <3> QED
      BY <2>1, <3>6
  <2>6. CASE n + 1 \notin O
    <3>1. h[n + 1] = h[n]
      BY <2>2, <2>6
    <3>2. ASSUME NEW i \in 1..n+1, i \in O
          PROVE  Among(i, h[n])
      <4>1. i \in 1..n
        BY <2>6, <3>2
      <4> QED
        BY <2>3, <3>2, <4>1
    <3>3. Good(n + 1)
      BY <2>3, <2>4, <3>1, <3>2
    <3> HIDE DEF Good
    <3> QED
      BY <2>1, <3>3
  <2> QED
    BY <2>5, <2>6
<1>3. \A n \in 0..N : n \in Goods
  <2> HIDE DEF Goods
  <2> QED
    BY <1>1, <1>2, Induction
<1> QED
  BY <1>3

LEMMA PickedEntries ==
    ASSUME NEW X, NEW s \in Seq(X), NEW f, NEW h, NEW O, NEW ids, Len(ids) = Len(s),
           \A i \in 1..Len(s) : ids[i] = i, Picks(f, s, O), Picks(h, ids, O)
    PROVE  \A n \in 0..Len(s) :
               /\ f[n] \in Seq(X) /\ Len(f[n]) = Len(h[n])
               /\ \A k \in 1..Len(h[n]) : f[n][k] = s[h[n][k]]
<1> DEFINE Good(n) ==
               /\ f[n] \in Seq(X) /\ Len(f[n]) = Len(h[n])
               /\ \A k \in 1..Len(h[n]) : f[n][k] = s[h[n][k]]
           Goods == {n \in 0..Len(s) : Good(n)}
<1>0. Len(s) \in Nat
  OBVIOUS
<1>1. 0 \in Goods
  <2>1. f[0] = <<>> /\ h[0] = <<>>
    BY DEF Picks
  <2>2. <<>> \in Seq(X) /\ Len(<<>>) = 0 /\ 0 \in 0..Len(s)
    OBVIOUS
  <2>3. Good(0)
    BY <2>1, <2>2
  <2> QED
    BY <2>2, <2>3
<1>2. ASSUME NEW n \in 0..Len(s)-1, n \in Goods PROVE n + 1 \in Goods
  <2>1. n + 1 \in 1..Len(s) /\ (n + 1) - 1 = n /\ s[n + 1] \in X
    OBVIOUS
  <2>2. /\ f[n + 1] = IF n + 1 \in O THEN Append(f[n], s[n + 1]) ELSE f[n]
        /\ h[n + 1] = IF n + 1 \in O THEN Append(h[n], n + 1) ELSE h[n]
    BY <2>1 DEF Picks
  <2>3. Good(n)
    BY <1>2
  <2>4. n \in 0..Len(s) /\ h[n] \in Seq(1..n)
    BY <1>0, PickedPlaces
  <2>5. CASE n + 1 \in O
    <3>1. /\ f[n + 1] \in Seq(X) /\ Len(f[n + 1]) = Len(f[n]) + 1
          /\ f[n + 1][Len(f[n]) + 1] = s[n + 1]
          /\ \A k \in 1..Len(f[n]) : f[n + 1][k] = f[n][k]
      BY <2>1, <2>2, <2>3, <2>5
    <3>2. /\ Len(h[n + 1]) = Len(h[n]) + 1 /\ h[n + 1][Len(h[n]) + 1] = n + 1
          /\ \A k \in 1..Len(h[n]) : h[n + 1][k] = h[n][k]
      <4>1. h[n + 1] = Append(h[n], n + 1) /\ h[n] \in Seq(Nat)
        BY <2>2, <2>4, <2>5
      <4> QED
        BY <4>1
    <3>3. Len(h[n]) \in Nat /\ Len(f[n]) = Len(h[n])
      BY <2>3
    <3>4. ASSUME NEW k \in 1..Len(h[n + 1]) PROVE f[n + 1][k] = s[h[n + 1][k]]
      <4>1. k \in 1..Len(h[n]) \/ k = Len(h[n]) + 1
        BY <3>2, <3>3
      <4> QED
        BY <2>3, <3>1, <3>2, <3>3, <4>1
    <3>5. Good(n + 1)
      BY <3>1, <3>2, <3>3, <3>4
    <3> QED
      BY <2>1, <3>5
  <2>6. CASE n + 1 \notin O
    <3>1. Good(n + 1)
      BY <2>2, <2>3, <2>6
    <3> QED
      BY <2>1, <3>1
  <2> QED
    BY <2>5, <2>6
<1>3. \A n \in 0..Len(s) : n \in Goods
  <2> HIDE DEF Goods
  <2> QED
    BY <1>0, <1>1, <1>2, Induction
<1> QED
  BY <1>3

(* The places kept: those of the other paths, in their order. *)
LEMMA KeptPlaces ==
    ASSUME Len(paths) \in Nat, NEW p
    PROVE  /\ Kept(p) \in Seq(1..Len(paths))
           /\ \A k \in 1..Len(Kept(p)) : paths[Kept(p)[k]] # p
           /\ \A k \in 1..Len(Kept(p)) : \A j \in 1..k-1 : Kept(p)[j] < Kept(p)[k]
           /\ \A i \in 1..Len(paths) : paths[i] # p => Among(i, Kept(p))
<1>1. Len(Places) = Len(paths) /\ \A i \in 1..Len(paths) : Places[i] = i
  BY DEF Places
<1>2. PICK h : Picks(h, Places, Others(p)) /\ Kept(p) = h[Len(paths)]
  BY <1>1, WithoutUnfolds DEF Kept
<1>3. Len(paths) \in 0..Len(paths)
  OBVIOUS
<1>4. /\ Kept(p) \in Seq(1..Len(paths))
      /\ \A k \in 1..Len(Kept(p)) : Kept(p)[k] \in Others(p)
      /\ \A k \in 1..Len(Kept(p)) : \A j \in 1..k-1 : Kept(p)[j] < Kept(p)[k]
      /\ \A i \in 1..Len(paths) : i \in Others(p) => Among(i, Kept(p))
  <2>1. /\ Kept(p) \in Seq(1..Len(paths))
        /\ \A k \in 1..Len(Kept(p)) : Kept(p)[k] \in Others(p)
    BY <1>1, <1>2, <1>3, PickedPlaces
  <2>2. \A k \in 1..Len(Kept(p)) : \A j \in 1..k-1 : Kept(p)[j] < Kept(p)[k]
    BY <1>1, <1>2, <1>3, PickedPlaces
  <2>3. \A i \in 1..Len(paths) : i \in Others(p) => Among(i, Kept(p))
    BY <1>1, <1>2, <1>3, PickedPlaces
  <2> QED
    BY <2>1, <2>2, <2>3
<1> QED
  BY <1>4 DEF Others

LEMMA WithoutKeeps ==
    ASSUME NEW X, NEW s \in Seq(X), Len(s) = Len(paths), NEW p
    PROVE  /\ Without(s, p) \in Seq(X) /\ Len(Without(s, p)) = Len(Kept(p))
           /\ \A k \in 1..Len(Kept(p)) : Without(s, p)[k] = s[Kept(p)[k]]
<1>1. Len(s) \in Nat /\ Len(Places) = Len(s) /\ \A i \in 1..Len(s) : Places[i] = i
  BY DEF Places
<1>2. PICK f : Picks(f, s, Others(p)) /\ Without(s, p) = f[Len(s)]
  BY <1>1, WithoutUnfolds
<1>3. PICK h : Picks(h, Places, Others(p)) /\ Kept(p) = h[Len(s)]
  BY <1>1, WithoutUnfolds DEF Kept
<1>4. Len(s) \in 0..Len(s)
  BY <1>1
<1> QED
  BY <1>1, <1>2, <1>3, <1>4, PickedEntries

-----------------------------------------------------------------------------
(* Types of what the set-up makes. *)

LEMMA ChunkMatcher == ASSUME NEW c \in Chunks \cup {Empty}
    PROVE compile_to_matcher(c) \in Matcher
<1>1. NoName \in Names \cup {NoName} /\ {} \in SUBSET Segments
  OBVIOUS
<1>2. CASE c = Empty
  BY <1>1, <1>2 DEF compile_to_matcher, Matcher
<1>3. CASE c # Empty
  <2>1. c \in Chunk
    BY <1>3, ChunksAssumption
  <2>2. c.word \in Words /\ c.name \in Names \cup {NoName} /\ c.regex \in SUBSET Segments
    BY <2>1 DEF Chunk
  <2>3. {c.word} \in SUBSET Segments
    BY <2>2 DEF Segments
  <2> QED
    BY <1>1, <1>3, <2>2, <2>3 DEF compile_to_matcher, Matcher
<1> QED
  BY <1>2, <1>3

LEMMA RegisteredSegments ==
    ASSUME NEW p \in RoutePaths, NEW chunks \in split_path(p)
    PROVE  get_segments(chunks) \in Seq(Matcher)
<1> DEFINE C == Chunks \cup {Empty}
<1>1. p.words \in Seq(C)
  <2>1. p.words \in Seq(Chunks)
    BY ChunksAssumption DEF Path
  <2> QED
    BY <2>1
<1>2. <<>> \in Seq(C) /\ <<Empty>> \in Seq(C) /\ Append(p.words, Empty) \in Seq(C)
  BY <1>1
<1>3. chunks \in Seq(C)
  BY <1>1, <1>2 DEF split_path
<1>4. Len(chunks) \in Nat /\ \A i \in 1..Len(chunks) : chunks[i] \in C
  BY <1>3
<1>5. \A i \in 1..Len(chunks) : compile_to_matcher(chunks[i]) \in Matcher
  BY <1>4, ChunkMatcher
<1> QED
  BY <1>4, <1>5 DEF get_segments

(* Before the server runs there is no request: its part is as it began. *)
LEMMA IdleKeeps ==
    ASSUME Idle, UNCHANGED <<pc, req, wrapper_index, frames, path_segments,
           request_segments,
                             cand, seg, params, status, ran>>,
           routes' \in Seq(Route), wrappers' \in Seq(Nat)
    PROVE  IInv' /\ Idle'
<1>1. Idle'
  BY DEF Idle
<1>2. req \in Request
  BY RequestAssumption DEF Idle
<1>3. TypeOK'
  <2>1. Len(routes') \in Nat /\ Len(wrappers') \in Nat /\ 1 \in 1..Len(routes') + 1
    OBVIOUS
  <2>2. <<>> \in Seq(Nat) /\ <<>> \in Seq(Segments) /\ Len(<<>>) = 0
    OBVIOUS
  <2>3. NoParams \in [Names -> Segments \cup {NoName}]
    BY DEF NoParams
  <2>4. ran' = <<>> /\ req' \in Request
    BY <1>2 DEF Idle
  <2>5. ran' \in Seq([route : 1..Len(routes), handler : Handlers, segments : Seq(Segments),
                      params : [Names -> Segments \cup {NoName}], inside : Nat])'
    BY <2>4
  <2> QED
    BY <1>1, <2>1, <2>2, <2>3, <2>4, <2>5 DEF Idle, TypeOK
<1>4. pc' = "idle" /\ status' = 200 /\ ran' = <<>>
  BY <1>1 DEF Idle
<1>5. (Quiet /\ InBase /\ InScan /\ FirstMatch)'
  BY <1>4 DEF Quiet, InBase, InScan, FirstMatch
<1> QED
  BY <1>1, <1>3, <1>5 DEF IInv

Still == UNCHANGED <<pc, req, wrapper_index, frames, path_segments, request_segments,
                     cand, seg, params, status, ran>>

(* A path of the table is not registered elsewhere in it. *)
LEMMA Distinct ==
    ASSUME RTypes, Ordered, NEW i \in 1..Len(paths), NEW j \in 1..Len(paths), i < j
    PROVE  paths[i] # paths[j]
<1>1. i \in 1..j-1
  OBVIOUS
<1>2. Before(calls, paths[i], paths[j])
  BY <1>1 DEF Ordered
<1> QED
  BY <1>2, NotBeforeItself DEF RTypes

LEMMA HandleKeeps ==
    ASSUME RInv, NEW p \in RoutePaths, handle(p), Still
    PROVE  RInv'
<1> DEFINE e == [op |-> "handle", path |-> p, method |-> ""]
           K == Kept(p)
           L == Len(Kept(p))
<1>1. PICK chunks \in split_path(p) :
          /\ routes' = Append(Without(routes, p),
                              [segments |-> get_segments(chunks), handlers |-> NoHandlers])
          /\ paths' = Append(Without(paths, p), p)
          /\ calls' = Append(calls, e) /\ setup /\ UNCHANGED <<wrappers, setup>>
  BY DEF handle, Registers, Call
<1> DEFINE new == [segments |-> get_segments(chunks), handlers |-> NoHandlers]
<1>2. /\ p \in Paths /\ e \in Entry /\ e.op = "handle" /\ e.path = p
      /\ calls \in Seq(Entry) /\ calls' \in Seq(Entry)
  <2>1. p \in Paths
    BY ChunksAssumption DEF Paths
  <2>2. e \in Entry /\ e.op = "handle" /\ e.path = p
    BY <2>1 DEF Entry
  <2>3. calls \in Seq(Entry) /\ calls' = Append(calls, e)
    BY <1>1 DEF RInv, RTypes
  <2> HIDE DEF e
  <2> QED
    BY <2>1, <2>2, <2>3
<1>3. new \in Route /\ new.handlers = NoHandlers
  <2>1. get_segments(chunks) \in Seq(Matcher)
    BY <1>1, RegisteredSegments
  <2>2. NoHandlers \in [Methods -> Handlers \cup {NoHandler}]
    BY DEF NoHandlers
  <2> QED
    BY <2>1, <2>2 DEF Route
<1>4. /\ paths \in Seq(Paths) /\ routes \in Seq(Route) /\ Len(routes) = Len(paths)
      /\ Len(paths) \in Nat
  BY DEF RInv, RTypes, IInv, TypeOK
<1>5. /\ L \in Nat
      /\ \A k \in 1..L : K[k] \in 1..Len(paths) /\ paths[K[k]] # p
      /\ \A k \in 1..L : \A j \in 1..k-1 : K[j] < K[k]
      /\ \A i \in 1..Len(paths) : paths[i] # p => Among(i, K)
  BY <1>4, KeptPlaces
<1>6. /\ Without(routes, p) \in Seq(Route) /\ Len(Without(routes, p)) = L
      /\ \A k \in 1..L : Without(routes, p)[k] = routes[K[k]]
  BY <1>4, WithoutKeeps
<1>7. /\ Without(paths, p) \in Seq(Paths) /\ Len(Without(paths, p)) = L
      /\ \A k \in 1..L : Without(paths, p)[k] = paths[K[k]]
  BY <1>4, WithoutKeeps
<1> HIDE DEF new, e, K, L
<1>8. /\ routes' \in Seq(Route) /\ Len(routes') = L + 1 /\ routes'[L + 1] = new
      /\ \A k \in 1..L : routes'[k] = routes[K[k]]
  <2>1. routes' = Append(Without(routes, p), new)
    BY <1>1 DEF new
  <2> QED
    BY <1>3, <1>5, <1>6, <2>1
<1>9. /\ paths' \in Seq(Paths) /\ Len(paths') = L + 1 /\ paths'[L + 1] = p
      /\ \A k \in 1..L : paths'[k] = paths[K[k]]
  <2>1. paths' = Append(Without(paths, p), p)
    BY <1>1
  <2> QED
    BY <1>2, <1>5, <1>7, <2>1
<1>10. \A k : k \in 1..L + 1 <=> k \in 1..L \/ k = L + 1
  BY <1>5
<1>11. (IInv /\ RTypes)'
  <2>1. Idle /\ wrappers' \in Seq(Nat)
    BY <1>1 DEF RInv, RTypes, IInv, TypeOK
  <2>2. IInv' /\ Idle'
    BY <1>8, <2>1, IdleKeeps DEF Still
  <2> QED
    BY <1>1, <1>2, <1>8, <1>9, <2>2 DEF RInv, RTypes
<1>12. Ordered'
  <2> SUFFICES ASSUME NEW j \in 1..L + 1, NEW i \in 1..j-1
               PROVE  Before(calls', paths'[i], paths'[j])
    BY <1>9 DEF Ordered
  <2>1. i \in 1..L /\ paths'[i] = paths[K[i]] /\ paths[K[i]] # p /\ K[i] \in 1..Len(paths)
    BY <1>5, <1>9
  <2>2. CASE j \in 1..L
    <3>1. paths'[j] = paths[K[j]] /\ K[j] \in 1..Len(paths) /\ K[i] \in 1..K[j]-1
      BY <1>5, <1>9, <2>1, <2>2
    <3>2. Before(calls, paths[K[i]], paths[K[j]])
      BY <3>1 DEF RInv, Table, Ordered
    <3>3. Before(Append(calls, e), paths[K[i]], paths[K[j]])
      BY <1>2, <2>1, <3>2, BeforeStays
    <3> QED
      BY <1>1, <2>1, <3>1, <3>3 DEF e
  <2>3. CASE j = L + 1
    <3>1. Before(Append(calls, e), paths[K[i]], e.path)
      BY <1>2, <2>1, BeforeLast
    <3> QED
      BY <1>1, <1>2, <1>9, <2>1, <2>3, <3>1 DEF e
  <2> QED
    BY <1>10, <2>2, <2>3
<1>13. Every'
  <2> SUFFICES ASSUME NEW i \in 1..Len(calls'), calls'[i].op = "handle"
               PROVE  \E j \in 1..L + 1 : paths'[j] = calls'[i].path
    BY <1>9 DEF Every
  <2>1. i \in 1..Len(calls) \/ i = Len(calls) + 1
    BY <1>1, <1>2
  <2>2. CASE calls'[i].path = p
    <3>1. L + 1 \in 1..L + 1
      BY <1>5
    <3> QED
      BY <1>9, <2>2, <3>1
  <2>3. CASE calls'[i].path # p
    <3>1. i \in 1..Len(calls) /\ calls'[i] = calls[i]
      <4>1. calls' = Append(calls, e)
        BY <1>1 DEF e
      <4>2. i = Len(calls) + 1 => calls'[i] = e
        BY <1>2, <4>1, Grows
      <4> QED
        BY <1>2, <2>1, <2>3, <4>1, <4>2, Grows
    <3>2. PICK j \in 1..Len(paths) : paths[j] = calls[i].path
      BY <2>3, <3>1 DEF RInv, Table, Every
    <3>3. PICK k \in 1..L : K[k] = j
      BY <1>5, <2>3, <3>1, <3>2 DEF Among, K, L
    <3> QED
      BY <1>9, <1>10, <3>1, <3>2, <3>3
  <2> QED
    BY <2>2, <2>3
<1>14. Given'
  <2> SUFFICES ASSUME NEW i \in 1..L + 1, NEW m \in Methods
               PROVE  IsGiven(calls', paths'[i], m, routes'[i].handlers[m])
    BY <1>8 DEF Given
  <2>1. CASE i \in 1..L
    <3>1. /\ paths'[i] = paths[K[i]] /\ routes'[i] = routes[K[i]] /\ paths[K[i]] # p
          /\ K[i] \in 1..Len(routes)
      BY <1>4, <1>5, <1>8, <1>9, <2>1
    <3>2. IsGiven(calls, paths[K[i]], m, routes[K[i]].handlers[m])
      BY <3>1 DEF RInv, Table, Given
    <3>3. IsGiven(Append(calls, e), paths[K[i]], m, routes[K[i]].handlers[m])
      BY <1>2, <3>1, <3>2, GivenStays
    <3> QED
      BY <1>1, <3>1, <3>3 DEF e
  <2>2. CASE i = L + 1
    <3>1. paths'[i] = e.path /\ routes'[i].handlers[m] = NoHandler
      BY <1>2, <1>3, <1>8, <1>9, <2>2 DEF NoHandlers
    <3>2. IsGiven(Append(calls, e), e.path, m, NoHandler)
      BY <1>2, NoneGiven
    <3> QED
      BY <1>1, <3>1, <3>2 DEF e
  <2> QED
    BY <1>10, <2>1, <2>2
<1> QED
  BY <1>11, <1>12, <1>13, <1>14 DEF RInv, Table

LEMMA MethodKeeps ==
    ASSUME RInv, NEW m \in Methods, method(m), Still
    PROVE  RInv'
<1> DEFINE L == Len(routes)
           e == [op |-> "method", path |-> paths[Len(paths)], method |-> m]
           n == Len(calls) + 1
<1>1. /\ setup /\ Len(calls) < MaxCalls /\ routes # <<>>
      /\ routes' = [routes EXCEPT ![L].handlers[m] = n]
      /\ calls' = Append(calls, e) /\ UNCHANGED <<wrappers, paths, setup>>
  BY DEF method, Registers, Call
<1>2. /\ paths \in Seq(Paths) /\ routes \in Seq(Route) /\ Len(paths) = L
      /\ calls \in Seq(Entry) /\ Len(calls) \in Nat /\ L \in 1..L
  BY <1>1 DEF RInv, RTypes, IInv, TypeOK
<1>3. /\ paths[L] \in Paths /\ routes[L] \in Route
      /\ routes[L].handlers \in [Methods -> Handlers \cup {NoHandler}]
  <2>1. paths[L] \in Paths /\ routes[L] \in Route
    BY <1>2
  <2> QED
    BY <2>1 DEF Route
<1>4. e \in Entry /\ e.op = "method" /\ e.path = paths[L] /\ e.method = m
  BY <1>2, <1>3 DEF Entry
<1>5. n \in Handlers
  BY <1>1, <1>2, HandlersAssumption
<1> HIDE DEF e, n
<1>6. /\ routes' \in Seq(Route) /\ Len(routes') = L
      /\ \A i \in 1..L : i # L => routes'[i] = routes[i]
      /\ \A x \in Methods : routes'[L].handlers[x]
                                = IF x = m THEN n ELSE routes[L].handlers[x]
  <2> DEFINE changed == [routes[L] EXCEPT !.handlers[m] = n]
  <2>1. changed \in Route
    BY <1>3, <1>5 DEF Route
  <2>2. routes' = [routes EXCEPT ![L] = changed]
    BY <1>1, <1>2
  <2>3. \A x \in Methods : changed.handlers[x] = IF x = m THEN n ELSE routes[L].handlers[x]
    BY <1>3 DEF Route
  <2> HIDE DEF changed
  <2>4. /\ routes' \in Seq(Route) /\ Len(routes') = L /\ routes'[L] = changed
        /\ \A i \in 1..L : i # L => routes'[i] = routes[i]
    BY <1>2, <2>1, <2>2
  <2> QED
    BY <2>3, <2>4
<1>7. calls' \in Seq(Entry)
  BY <1>1, <1>2, <1>4
<1>8. (IInv /\ RTypes)'
  <2>1. Idle /\ wrappers' \in Seq(Nat)
    BY <1>1 DEF RInv, RTypes, IInv, TypeOK
  <2>2. IInv' /\ Idle'
    BY <1>6, <2>1, IdleKeeps DEF Still
  <2> QED
    BY <1>1, <1>2, <1>6, <1>7, <2>2 DEF RInv, RTypes
<1>9. Ordered'
  <2> SUFFICES ASSUME NEW j \in 1..Len(paths), NEW i \in 1..j-1
               PROVE  Before(calls', paths[i], paths[j])
    BY <1>1 DEF Ordered
  <2>1. Before(calls, paths[i], paths[j])
    BY DEF RInv, Table, Ordered
  <2>2. Before(Append(calls, e), paths[i], paths[j])
    BY <1>2, <1>4, <2>1, BeforeStays
  <2> QED
    BY <1>1, <2>2 DEF e
<1>10. Every'
  <2> SUFFICES ASSUME NEW i \in 1..Len(calls'), calls'[i].op = "handle"
               PROVE  \E j \in 1..Len(paths) : paths[j] = calls'[i].path
    BY <1>1 DEF Every
  <2>1. i \in 1..Len(calls) \/ i = Len(calls) + 1
    BY <1>1, <1>2
  <2>2. calls' = Append(calls, e)
    BY <1>1 DEF e
  <2>3. i \in 1..Len(calls) /\ calls'[i] = calls[i]
    BY <1>2, <1>4, <2>1, <2>2, Grows
  <2> QED
    BY <2>3 DEF RInv, Table, Every
<1>11. Given'
  <2> SUFFICES ASSUME NEW i \in 1..L, NEW x \in Methods
               PROVE  IsGiven(calls', paths[i], x, routes'[i].handlers[x])
    BY <1>1, <1>6 DEF Given
  <2>1. calls' = Append(calls, e)
    BY <1>1 DEF e
  <2>2. IsGiven(calls, paths[i], x, routes[i].handlers[x])
    BY DEF RInv, Table, Given
  <2>3. CASE i = L /\ x = m
    <3>1. IsGiven(Append(calls, e), e.path, e.method, n)
      BY <1>2, <1>4, NewGiven DEF n
    <3> QED
      BY <1>2, <1>4, <1>6, <2>1, <2>3, <3>1
  <2>4. CASE ~(i = L /\ x = m)
    <3>1. ~(e.path = paths[i] /\ e.method = x)
      <4>1. CASE i = L
        BY <1>4, <2>4, <4>1
      <4>2. CASE i # L
        <5>1. i \in 1..Len(paths) /\ L \in 1..Len(paths) /\ i < L
          BY <1>2, <4>2
        <5>2. paths[i] # paths[L]
          BY <5>1, Distinct DEF RInv, Table
        <5> QED
          BY <1>4, <5>2
      <4> QED
        BY <4>1, <4>2
    <3>2. IsGiven(Append(calls, e), paths[i], x, routes[i].handlers[x])
      BY <1>2, <1>4, <2>2, <3>1, GivenStays
    <3>3. routes'[i].handlers[x] = routes[i].handlers[x]
      BY <1>2, <1>6, <2>4
    <3> QED
      BY <2>1, <3>2, <3>3
  <2> QED
    BY <2>3, <2>4
<1> QED
  BY <1>8, <1>9, <1>10, <1>11 DEF RInv, Table

LEMMA UseWrapperKeeps ==
    ASSUME RInv, NEW n \in 0..MaxNext, use_wrapper(n), Still
    PROVE  RInv'
<1> DEFINE e == [op |-> "use_wrapper", path |-> [words |-> <<>>, slash |-> FALSE], method |-> ""]
<1>1. /\ setup /\ wrappers' = Append(wrappers, n) /\ UNCHANGED <<routes, paths, setup>>
      /\ calls' = Append(calls, e)
  BY DEF use_wrapper, Registers, Call
<1>2. /\ calls \in Seq(Entry) /\ Len(calls) \in Nat /\ Len(paths) = Len(routes)
      /\ wrappers \in Seq(Nat) /\ routes \in Seq(Route) /\ Idle
  <2>1. RTypes /\ wrappers \in Seq(Nat) /\ routes \in Seq(Route)
    BY DEF RInv, IInv, TypeOK
  <2>2. calls \in Seq(Entry) /\ Len(paths) = Len(routes) /\ Idle
    BY <1>1, <2>1 DEF RTypes
  <2> QED
    BY <2>1, <2>2
<1>3. e \in Entry /\ e.op = "use_wrapper"
  <2>1. [words |-> <<>>, slash |-> FALSE] \in Paths
    BY DEF Paths, Path
  <2> QED
    BY <2>1 DEF Entry
<1> HIDE DEF e
<1>4. calls' \in Seq(Entry)
  BY <1>1, <1>2, <1>3
<1>5. (IInv /\ RTypes)'
  <2>1. n \in Nat
    BY HandlersAssumption
  <2>2. wrappers' \in Seq(Nat) /\ routes' \in Seq(Route)
    BY <1>1, <1>2, <2>1
  <2>3. IInv' /\ Idle'
    BY <1>2, <2>2, IdleKeeps DEF Still
  <2> QED
    BY <1>1, <1>4, <2>3 DEF RInv, RTypes
<1>6. Ordered'
  <2> SUFFICES ASSUME NEW j \in 1..Len(paths), NEW i \in 1..j-1
               PROVE  Before(calls', paths[i], paths[j])
    BY <1>1 DEF Ordered
  <2>1. Before(calls, paths[i], paths[j])
    BY DEF RInv, Table, Ordered
  <2> QED
    BY <1>1, <1>2, <1>3, <2>1, BeforeStays
<1>7. Every'
  <2> SUFFICES ASSUME NEW i \in 1..Len(calls'), calls'[i].op = "handle"
               PROVE  \E j \in 1..Len(paths) : paths[j] = calls'[i].path
    BY <1>1 DEF Every
  <2>1. i \in 1..Len(calls) \/ i = Len(calls) + 1
    BY <1>1, <1>2
  <2>2. i \in 1..Len(calls) /\ calls'[i] = calls[i]
    BY <1>1, <1>2, <1>3, <2>1, Grows
  <2> QED
    BY <2>2 DEF RInv, Table, Every
<1>8. Given'
  <2> SUFFICES ASSUME NEW i \in 1..Len(routes), NEW m \in Methods
               PROVE  IsGiven(calls', paths[i], m, routes[i].handlers[m])
    BY <1>1 DEF Given
  <2>1. IsGiven(calls, paths[i], m, routes[i].handlers[m])
    BY DEF RInv, Table, Given
  <2> QED
    BY <1>1, <1>2, <1>3, <2>1, GivenStays
<1> QED
  BY <1>5, <1>6, <1>7, <1>8 DEF RInv, Table

-----------------------------------------------------------------------------
(* The whole life of the program: the set-up, then requests. *)

(* A request changes neither the table nor what it was made of. *)
LEMMA RequestsKeep ==
    ASSUME RInv, ~setup, MNext, UNCHANGED <<paths, calls, setup>>
    PROVE  RInv'
<1>1. UNCHANGED table
  BY DEF MNext, Receive, forward_to_handler, CallWrapper, CallHandler, WrapperCallsNext,
         WrapperReturns, handler, PluginThrows, Split, BaseMatches, BaseFails, BaseTaken,
         SegmentMatches, CandidateFails, NotAllowed, Dispatch, NotFound, Throw, Forwarded,
         Unchanged
<1>2. IInv'
  BY Step DEF RInv
<1>3. RTypes'
  BY <1>1 DEF RInv, RTypes, table
<1>4. Table'
  BY <1>1 DEF RInv, Table, Ordered, Every, Given, table
<1> QED
  BY <1>2, <1>3, <1>4 DEF RInv

LEMMA RInit == Init => RInv
<1> SUFFICES ASSUME Init PROVE RInv
  OBVIOUS
<1>1. Idle /\ routes = <<>> /\ wrappers = <<>> /\ paths = <<>> /\ calls = <<>>
          /\ setup = TRUE
  BY DEF Init
<1>2. TypeOK
  <2>1. req \in Request /\ pc = "idle" /\ ran = <<>>
            /\ NoParams \in [Names -> Segments \cup {NoName}]
    BY <1>1, RequestAssumption DEF Idle, NoParams
  <2> QED
    BY <1>1, <2>1 DEF Idle, TypeOK
<1>3. Quiet /\ InBase /\ InScan /\ FirstMatch
  BY <1>1 DEF Idle, Quiet, InBase, InScan, FirstMatch
<1>4. RTypes
  BY <1>1 DEF RTypes
<1>5. Table
  BY <1>1 DEF Table, Ordered, Every, Given
<1> QED
  BY <1>2, <1>3, <1>4, <1>5 DEF IInv, RInv

LEMMA RNext == RInv /\ [Next]_rvars => RInv'
<1> SUFFICES ASSUME RInv, [Next]_rvars PROVE RInv'
  OBVIOUS
<1>1. CASE (\E p \in RoutePaths : handle(p)) /\ Still
  BY <1>1, HandleKeeps
<1>2. CASE (\E m \in Methods : method(m)) /\ Still
  BY <1>2, MethodKeeps
<1>3. CASE (\E n \in 0..MaxNext : use_wrapper(n)) /\ Still
  BY <1>3, UseWrapperKeeps
<1>4. CASE Run /\ Still
  <2>1. UNCHANGED mvars /\ UNCHANGED <<table, paths, calls>> /\ setup' = FALSE
    BY <1>4 DEF Run, Still, mvars
  <2>2. IInv'
    BY <2>1, Step DEF RInv
  <2>3. RTypes'
    BY <2>1 DEF RInv, RTypes, table
  <2>4. Table'
    BY <2>1 DEF RInv, Table, Ordered, Every, Given, table
  <2> QED
    BY <2>2, <2>3, <2>4 DEF RInv
<1>5. CASE ~setup /\ MNext /\ UNCHANGED <<paths, calls, setup>>
  BY <1>5, RequestsKeep
<1>6. CASE UNCHANGED rvars
  <2>1. UNCHANGED mvars /\ UNCHANGED <<table, paths, calls, setup, Idle>>
    BY <1>6 DEF rvars, mvars, Idle
  <2>2. IInv'
    BY <2>1, Step DEF RInv
  <2>3. RTypes'
    BY <2>1 DEF RInv, RTypes, table
  <2>4. Table'
    BY <2>1 DEF RInv, Table, Ordered, Every, Given, table
  <2> QED
    BY <2>2, <2>3, <2>4 DEF RInv
<1> QED
  BY <1>1, <1>2, <1>3, <1>4, <1>5, <1>6 DEF Next, Still

(* Types, from the first call of the set-up to the last request. *)
THEOREM RegistrationTyped == Spec => []TypeOK
<1>1. RInv => TypeOK
  BY DEF RInv, IInv
<1> QED
  BY <1>1, RInit, RNext, PTL DEF Spec

(* After any calls of handle, of the methods and of use_wrapper, with any
   paths, the table has one route for each path, in the order of their last
   registrations, with the handlers given since; multiplexer::handle. *)
THEOREM TableAlways == Spec => []TableAsRegistered
<1>1. RInv => TableAsRegistered
  BY TableSaysSo DEF RInv
<1> QED
  BY <1>1, RInit, RNext, PTL DEF Spec

(* The first registered match decides, in the program that registers. *)
THEOREM FirstRegisteredMatch == Spec => []FirstMatch
<1>1. RInv => FirstMatch
  BY DEF RInv, IInv
<1> QED
  BY <1>1, RInit, RNext, PTL DEF Spec

-----------------------------------------------------------------------------
(* Programs whose wrappers call next once at most. *)

LEMMA NestedFromSetup ==
    ASSUME MaxNext <= 1, RInv, NInv, [Next]_rvars
    PROVE  NInv'
<1>1. CASE setup /\ Still /\ (\/ UNCHANGED wrappers
                              \/ \E n \in 0..MaxNext : wrappers' = Append(wrappers, n))
  <2>1. Idle /\ Idle'
    BY <1>1 DEF RInv, RTypes, Still, Idle
  <2>2. Once'
    <3>1. wrappers \in Seq(Nat) /\ Once
      BY DEF RInv, IInv, TypeOK, NInv
    <3>2. CASE UNCHANGED wrappers
      BY <3>1, <3>2 DEF Once
    <3>3. ASSUME NEW n \in 0..MaxNext, wrappers' = Append(wrappers, n) PROVE Once'
      <4>1. n \in Nat /\ n <= 1
        BY HandlersAssumption
      <4> QED
        BY <3>1, <3>3, <4>1 DEF Once
    <3> QED
      BY <1>1, <3>2, <3>3
  <2>3. pc' = "idle" /\ ran' = <<>>
    BY <2>1 DEF Idle
  <2> QED
    BY <2>2, <2>3 DEF NInv, Nested, OwnSoFar, OwnParams, InsideWrappers, MayCall
<1>2. CASE ~setup /\ MNext
  BY <1>2, NestedStep DEF RInv
<1>3. CASE UNCHANGED rvars
  BY <1>3, NestedStep DEF RInv, rvars
<1>4. ASSUME Next, setup
      PROVE  Still /\ (\/ UNCHANGED wrappers
                       \/ \E n \in 0..MaxNext : wrappers' = Append(wrappers, n))
  BY <1>4 DEF Next, Still, handle, method, use_wrapper, Run, table
<1>5. ASSUME Next, ~setup PROVE MNext
  BY <1>5 DEF Next, handle, method, use_wrapper, Run, Registers
<1> QED
  BY <1>1, <1>2, <1>3, <1>4, <1>5 DEF RInv, RTypes

LEMMA NestedAtFirst == Init => NInv
BY DEF Init, Idle, NInv, Once, Nested, OwnSoFar, OwnParams, InsideWrappers, MayCall

(* With wrappers that call next once at most, whatever routes, base path and
   wrappers a program registers: a handler sees the parameters of its own
   route, each from its own segment. *)
THEOREM OwnParamsRegistered == ASSUME MaxNext <= 1 PROVE Spec => []OwnParams
<1>1. Init => RInv /\ NInv
  BY RInit, NestedAtFirst
<1>2. RInv /\ NInv /\ [Next]_rvars => (RInv /\ NInv)'
  BY RNext, NestedFromSetup
<1>3. NInv => OwnParams
  BY DEF NInv
<1> QED
  BY <1>1, <1>2, <1>3, PTL DEF Spec

(* With such wrappers, a handler runs inside all that were registered. *)
THEOREM InsideRegisteredWrappers == ASSUME MaxNext <= 1 PROVE Spec => []InsideWrappers
<1>1. Init => RInv /\ NInv
  BY RInit, NestedAtFirst
<1>2. RInv /\ NInv /\ [Next]_rvars => (RInv /\ NInv)'
  BY RNext, NestedFromSetup
<1>3. NInv => InsideWrappers
  BY DEF NInv
<1> QED
  BY <1>1, <1>2, <1>3, PTL DEF Spec
=============================================================================
