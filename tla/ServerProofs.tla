---------------------------- MODULE ServerProofs ----------------------------
(***************************************************************************)
(* Proofs about Server, for any set of connections, any number of threads  *)
(* and with or without timeouts.  The invariant follows a connection       *)
(* through its life: as long as the accept loop has it nothing has touched *)
(* it; after that it is in the manager's set and open, or some thread is   *)
(* about to close it, or it is closed.                                     *)
(***************************************************************************)
EXTENDS Server, FiniteSetTheorems, TLAPS

(* The accept loop has a connection while it handles one, and none while it
   waits for one; a closed acceptor is waited on no more. *)
LoopInv ==
    /\ accept \in {"ready", "made", "inserted", "reading", "refused"} => accepted \in Conns
    /\ accept \in {"pending", "error"} => accepted = NoConn
    /\ signal # "none" => acceptor = "closed"
    /\ acceptor = "closed" => accept # "pending"

(* The loop has c, and connection::start has not issued a read. *)
Opening(c)  == accepted = c /\ accept \in {"ready", "over", "made", "inserted"}
Accepted(c) == accepted = c /\ accept \in {"ready", "over", "made"}

Untouched(c) ==
    /\ reading[c] = "none" /\ writing[c] = "none" /\ task[c] = "none"
    /\ status[c] = "READING" /\ handled[c] = 0 /\ response[c] = "none"
    /\ stopping[c] = {}
    /\ readTimer[c] \in {"idle", "expired"} /\ writeTimer[c] \in {"idle", "expired"}

Begins(c) == socket[c] = "none" \/ Opening(c) => Untouched(c)

(* Where a connection is. *)
Placed(c) ==
    /\ c \in connections => socket[c] = "open" /\ stopping[c] = {} /\ ~Accepted(c)
    /\ socket[c] = "open" => c \in connections \/ stopping[c] # {} \/ Accepted(c)
    /\ accepted = c => socket[c] # "none"
    /\ Accepted(c) => socket[c] = "open"

(* What moves it on. *)
Handling(c) == task[c] \in {"parsed", "handled", "timed"}

Moving(c) ==
    c \in connections => \/ reading[c] # "none" \/ writing[c] # "none" \/ Handling(c)
                         \/ accepted = c /\ accept = "inserted"

(* Only a close aborts an operation. *)
Aborts(c) == reading[c] = "aborted" \/ writing[c] = "aborted" => socket[c] = "closed"

Alone(c) ==
    /\ ~(reading[c] # "none" /\ writing[c] # "none")
    /\ ~(reading[c] # "none" /\ Handling(c))
    /\ ~(writing[c] # "none" /\ Handling(c))
    /\ status[c] = "DONE" => reading[c] = "none"

(* How far the request and its answer have come. *)
Answering(c) ==
    /\ handled[c] <= 1 /\ (handled[c] = 1 => status[c] = "DONE")
    /\ task[c] # "none" => status[c] = "DONE"
    /\ task[c] = "parsed" => handled[c] = 0 /\ response[c] # "final"
    /\ task[c] \in {"handled", "timed", "written"} => handled[c] = 1
    /\ response[c] = "final" => status[c] = "DONE" /\ (handled[c] = 0 => task[c] = "none")

ConnInv(c) == Begins(c) /\ Placed(c) /\ Moving(c) /\ Aborts(c) /\ Alone(c) /\ Answering(c)

(* What is in the set after the signal, and what may still get there. *)
Coming == IF accept = "made" THEN {accepted} ELSE {}
Late == signal = "done" => \A c, d \in connections \cup Coming : c = d

IInv == TypeOK /\ LoopInv /\ Late /\ \A c \in Conns : ConnInv(c)

-----------------------------------------------------------------------------
LEMMA InitInv == Init => IInv
<1> SUFFICES ASSUME Init PROVE IInv
  OBVIOUS
<1>1. TypeOK
  BY ServerAssumption DEF Init, ConnInit, TypeOK, ConnTypeOK
<1>2. LoopInv /\ Late
  BY DEF Init, ConnInit, LoopInv, Late, Coming
<1>3. ASSUME NEW c \in Conns PROVE ConnInv(c)
  BY ServerAssumption DEF Init, ConnInit, ConnInv, Begins, Opening, Accepted,
     Untouched, Placed, Moving, Handling, Aborts, Alone, Answering
<1> QED
  BY <1>1, <1>2, <1>3 DEF IInv

(***************************************************************************)
(* The helpers keep the types.                                             *)
(***************************************************************************)
LEMMA EraseTyped ==
    ASSUME TypeOK, NEW c \in Conns, NEW who \in Stoppers, Erase(c, who)
    PROVE  connections' \subseteq Conns /\ stopping' \in [Conns -> SUBSET Stoppers]
BY DEF TypeOK, ConnTypeOK, Erase

LEMMA CloseTyped ==
    ASSUME TypeOK, NEW S, close(S)
    PROVE  /\ socket' \in [Conns -> {"none", "open", "closed"}]
           /\ reading' \in [Conns -> {"none", "pending", "data", "error", "aborted"}]
           /\ writing' \in [Conns -> {"none", "pending", "sent", "error", "aborted"}]
BY DEF TypeOK, ConnTypeOK, close, Aborted

LEMMA StopCloseTyped ==
    ASSUME TypeOK, NEW c \in Conns, NEW who \in Stoppers, StopClose(c, who), UNCHANGED svars
    PROVE  TypeOK'
<1>1. close({c}) /\ stopping' = [stopping EXCEPT ![c] = @ \ {who}]
      /\ UNCHANGED <<connections, status, task, readTimer, writeTimer, handled, response>>
  BY DEF StopClose
<1>2. stopping' \in [Conns -> SUBSET Stoppers]
  BY <1>1 DEF TypeOK, ConnTypeOK
<1> QED
  BY <1>1, <1>2, CloseTyped DEF TypeOK, ConnTypeOK, svars

(* Nothing that the invariant of d looks at has changed. *)
Same(d) ==
    /\ d \in connections' <=> d \in connections
    /\ socket'[d] = socket[d] /\ reading'[d] = reading[d] /\ writing'[d] = writing[d]
    /\ status'[d] = status[d] /\ task'[d] = task[d] /\ stopping'[d] = stopping[d]
    /\ readTimer'[d] = readTimer[d] /\ writeTimer'[d] = writeTimer[d]
    /\ handled'[d] = handled[d] /\ response'[d] = response[d]

LEMMA SameStep ==
    ASSUME NEW d \in Conns, ConnInv(d), Same(d), UNCHANGED <<accept, accepted>>
    PROVE  ConnInv(d)'
BY DEF ConnInv, Begins, Opening, Accepted, Untouched, Placed, Moving, Handling, Aborts,
   Alone, Answering, Same

(* The accept loop goes on, with another connection or with none. *)
LEMMA ElsewhereStep ==
    ASSUME NEW d \in Conns, ConnInv(d), Same(d), accepted # d, accepted' # d
    PROVE  ConnInv(d)'
BY DEF ConnInv, Begins, Opening, Accepted, Untouched, Placed, Moving, Handling, Aborts,
   Alone, Answering, Same

-----------------------------------------------------------------------------
(***************************************************************************)
(* The handlers of a connection, each of its own.                          *)
(***************************************************************************)
LEMMA ReadTyped ==
    ASSUME TypeOK, NEW c \in Conns, ReadHandler(c), UNCHANGED svars
    PROVE  TypeOK'
<1>1. CASE ReadFinished(c)
  BY <1>1 DEF ReadFinished, Cancelled, TypeOK, ConnTypeOK, svars
<1>2. CASE ReadExpectContinue(c)
  BY <1>2 DEF ReadExpectContinue, Issued, TypeOK, ConnTypeOK, svars
<1>3. CASE ReadMore(c)
  BY <1>3 DEF ReadMore, Issued, TypeOK, ConnTypeOK, svars
<1>4. CASE ReadRejected(c)
  BY <1>4 DEF ReadRejected, Issued, TypeOK, ConnTypeOK, svars
<1>5. CASE ReadFailed(c)
  <2>1. connections' \subseteq Conns /\ stopping' \in [Conns -> SUBSET Stoppers]
    BY <1>5, EraseTyped DEF ReadFailed, Stoppers
  <2> QED
    BY <1>5, <2>1 DEF ReadFailed, TypeOK, ConnTypeOK, svars
<1>6. CASE ReadAborted(c)
  BY <1>6 DEF ReadAborted, TypeOK, ConnTypeOK, svars
<1> QED
  BY <1>1, <1>2, <1>3, <1>4, <1>5, <1>6 DEF ReadHandler

LEMMA ReadStep ==
    ASSUME IInv, NEW c \in Conns, ReadHandler(c), UNCHANGED svars
    PROVE  IInv'
<1>1. TypeOK'
  BY ReadTyped DEF IInv
<1>2. LoopInv' /\ Late'
  BY DEF IInv, LoopInv, Late, Coming, ReadHandler, ReadFinished, ReadExpectContinue,
     ReadMore, ReadRejected, ReadFailed, ReadAborted, Erase, svars
<1>3. ASSUME NEW d \in Conns PROVE ConnInv(d)'
  <2>1. CASE d # c
    <3>1. ConnInv(d) /\ Same(d) /\ UNCHANGED <<accept, accepted>>
      BY <2>1 DEF IInv, TypeOK, ConnTypeOK, Same, svars, ReadHandler, Cancelled, Erase,
         Issued, ReadAborted, ReadExpectContinue, ReadFailed, ReadFinished, ReadMore,
         ReadRejected
    <3> QED
      BY <3>1, SameStep
  <2>2. CASE d = c
    <3>1. CASE ReadFinished(c)
      <4>1. /\ reading[c] = "data" /\ status[c] = "READING" /\ handled[c] = 0
            /\ writing[c] = "none" /\ response[c] # "final"
        BY <3>1 DEF ReadFinished, IInv, TypeOK, ConnTypeOK, ConnInv, Alone, Answering
      <4> QED
        BY <2>2, <3>1, <4>1 DEF IInv, TypeOK, ConnTypeOK, ConnInv, Begins, Opening,
           Accepted, Untouched, Placed, Moving, Handling, Aborts, Alone, Answering,
           svars, ReadFinished, Cancelled
    <3>2. CASE ReadExpectContinue(c)
      BY <2>2, <3>2 DEF IInv, TypeOK, ConnTypeOK, ConnInv, Begins, Opening, Accepted,
         Untouched, Placed, Moving, Handling, Aborts, Alone, Answering, svars,
         ReadExpectContinue, Issued
    <3>3. CASE ReadMore(c)
      BY <2>2, <3>3 DEF IInv, TypeOK, ConnTypeOK, ConnInv, Begins, Opening, Accepted,
         Untouched, Placed, Moving, Handling, Aborts, Alone, Answering, svars,
         ReadMore, Issued
    <3>4. CASE ReadRejected(c)
      BY <2>2, <3>4 DEF IInv, TypeOK, ConnTypeOK, ConnInv, Begins, Opening, Accepted,
         Untouched, Placed, Moving, Handling, Aborts, Alone, Answering, svars,
         ReadRejected, Issued
    <3>5. CASE ReadFailed(c)
      BY <2>2, <3>5 DEF IInv, TypeOK, ConnTypeOK, ConnInv, Begins, Opening, Accepted,
         Untouched, Placed, Moving, Handling, Aborts, Alone, Answering, svars,
         ReadFailed, Erase
    <3>6. CASE ReadAborted(c)
      BY <2>2, <3>6 DEF IInv, TypeOK, ConnTypeOK, ConnInv, Begins, Opening, Accepted,
         Untouched, Placed, Moving, Handling, Aborts, Alone, Answering, svars, ReadAborted
    <3> QED
      BY <3>1, <3>2, <3>3, <3>4, <3>5, <3>6 DEF ReadHandler
  <2> QED
    BY <2>1, <2>2
<1> QED
  BY <1>1, <1>2, <1>3 DEF IInv

LEMMA WriteStep ==
    ASSUME IInv, NEW c \in Conns, WriteHandler(c), UNCHANGED svars
    PROVE  IInv'
<1>1. TypeOK'
  <2>1. CASE WriteContinue(c)
    BY <2>1 DEF WriteContinue, Issued, IInv, TypeOK, ConnTypeOK, svars
  <2>2. CASE WriteOver(c)
    <3>1. connections' \subseteq Conns /\ stopping' \in [Conns -> SUBSET Stoppers]
      BY <2>2, EraseTyped DEF WriteOver, Stoppers, IInv
    <3> QED
      BY <2>2, <3>1 DEF WriteOver, IInv, TypeOK, ConnTypeOK, svars
  <2>3. CASE WriteAborted(c)
    BY <2>3 DEF WriteAborted, IInv, TypeOK, ConnTypeOK, svars
  <2> QED
    BY <2>1, <2>2, <2>3 DEF WriteHandler
<1>2. LoopInv' /\ Late'
  BY DEF IInv, LoopInv, Late, Coming, WriteHandler, WriteContinue, WriteOver, WriteAborted,
     Erase, svars
<1>3. ASSUME NEW d \in Conns PROVE ConnInv(d)'
  <2>1. CASE d # c
    <3>1. ConnInv(d) /\ Same(d) /\ UNCHANGED <<accept, accepted>>
      BY <2>1 DEF IInv, TypeOK, ConnTypeOK, Same, svars, WriteHandler, Erase, Issued,
         WriteAborted, WriteContinue, WriteOver
    <3> QED
      BY <3>1, SameStep
  <2>2. CASE d = c
    <3>1. CASE WriteContinue(c)
      BY <2>2, <3>1 DEF IInv, TypeOK, ConnTypeOK, ConnInv, Begins, Opening, Accepted,
         Untouched, Placed, Moving, Handling, Aborts, Alone, Answering, svars,
         WriteContinue, Issued
    <3>2. CASE WriteOver(c)
      BY <2>2, <3>2 DEF IInv, TypeOK, ConnTypeOK, ConnInv, Begins, Opening, Accepted,
         Untouched, Placed, Moving, Handling, Aborts, Alone, Answering, svars,
         WriteOver, Erase
    <3>3. CASE WriteAborted(c)
      BY <2>2, <3>3 DEF IInv, TypeOK, ConnTypeOK, ConnInv, Begins, Opening, Accepted,
         Untouched, Placed, Moving, Handling, Aborts, Alone, Answering, svars, WriteAborted
    <3> QED
      BY <3>1, <3>2, <3>3 DEF WriteHandler
  <2> QED
    BY <2>1, <2>2
<1> QED
  BY <1>1, <1>2, <1>3 DEF IInv

LEMMA TimerStep ==
    ASSUME IInv, NEW c \in Conns, ReadTimerHandler(c) \/ WriteTimerHandler(c), UNCHANGED svars
    PROVE  IInv'
<1>1. TypeOK'
  <2>1. connections' \subseteq Conns /\ stopping' \in [Conns -> SUBSET Stoppers]
    BY EraseTyped DEF ReadTimerHandler, WriteTimerHandler, Stoppers, IInv
  <2>2. /\ readTimer' \in [Conns -> {"idle", "armed", "expired", "queued"}]
        /\ writeTimer' \in [Conns -> {"idle", "armed", "expired", "queued"}]
    BY DEF ReadTimerHandler, WriteTimerHandler, IInv, TypeOK, ConnTypeOK
  <2> QED
    BY <2>1, <2>2 DEF ReadTimerHandler, WriteTimerHandler, IInv, TypeOK, ConnTypeOK, svars
<1>2. LoopInv' /\ Late'
  BY DEF IInv, LoopInv, Late, Coming, ReadTimerHandler, WriteTimerHandler, Erase, svars
<1>3. ASSUME NEW d \in Conns PROVE ConnInv(d)'
  <2>1. CASE d # c
    <3>1. ConnInv(d) /\ Same(d) /\ UNCHANGED <<accept, accepted>>
      BY <2>1 DEF IInv, TypeOK, ConnTypeOK, Same, svars, Erase, ReadTimerHandler,
         WriteTimerHandler
    <3> QED
      BY <3>1, SameStep
  <2>2. CASE d = c
    <3>1. CASE ReadTimerHandler(c)
      BY <2>2, <3>1 DEF IInv, TypeOK, ConnTypeOK, ConnInv, Begins, Opening, Accepted,
         Untouched, Placed, Moving, Handling, Aborts, Alone, Answering, svars,
         ReadTimerHandler, Erase
    <3>2. CASE WriteTimerHandler(c)
      BY <2>2, <3>2 DEF IInv, TypeOK, ConnTypeOK, ConnInv, Begins, Opening, Accepted,
         Untouched, Placed, Moving, Handling, Aborts, Alone, Answering, svars,
         WriteTimerHandler, Erase
    <3> QED
      BY <3>1, <3>2 
  <2> QED
    BY <2>1, <2>2
<1> QED
  BY <1>1, <1>2, <1>3 DEF IInv

LEMMA TaskStep ==
    ASSUME IInv, NEW c \in Conns, UNCHANGED svars,
           Handle(c) \/ WaitWrite(c) \/ WriteResponse(c) \/ RequestHandled(c)
    PROVE  IInv'
<1>1. TypeOK'
  <2>1. CASE Handle(c)
    BY <2>1 DEF Handle, IInv, TypeOK, ConnTypeOK, svars
  <2>2. CASE WaitWrite(c)
    BY <2>2 DEF WaitWrite, Waited, IInv, TypeOK, ConnTypeOK, svars
  <2>3. CASE WriteResponse(c)
    BY <2>3 DEF WriteResponse, Issued, IInv, TypeOK, ConnTypeOK, svars
  <2>4. CASE RequestHandled(c)
    BY <2>4 DEF RequestHandled, IInv, TypeOK, ConnTypeOK, svars
  <2> QED
    BY <2>1, <2>2, <2>3, <2>4
<1>2. LoopInv' /\ Late'
  BY DEF IInv, LoopInv, Late, Coming, Handle, WaitWrite, WriteResponse, RequestHandled,
     svars
<1>3. ASSUME NEW d \in Conns PROVE ConnInv(d)'
  BY DEF IInv, TypeOK, ConnTypeOK, ConnInv, Begins, Opening, Accepted, Untouched, Placed,
     Moving, Handling, Aborts, Alone, Answering, Handle, WaitWrite, WriteResponse,
     RequestHandled, Waited, Issued, svars
<1> QED
  BY <1>1, <1>2, <1>3 DEF IInv

LEMMA StopCloseStep ==
    ASSUME IInv, NEW c \in Conns, NEW who \in Stoppers \ {"start"}, StopClose(c, who),
           UNCHANGED svars
    PROVE  IInv'
<1>1. TypeOK'
  BY StopCloseTyped DEF IInv
<1>2. LoopInv' /\ Late'
  BY DEF IInv, LoopInv, Late, Coming, StopClose, svars
<1>3. ASSUME NEW d \in Conns PROVE ConnInv(d)'
  BY DEF IInv, TypeOK, ConnTypeOK, ConnInv, Begins, Opening, Accepted, Untouched, Placed,
     Moving, Handling, Aborts, Alone, Answering, StopClose, close, Aborted, svars
<1> QED
  BY <1>1, <1>2, <1>3 DEF IInv

-----------------------------------------------------------------------------
(***************************************************************************)
(* The client, the network and the clock.                                  *)
(***************************************************************************)
LEMMA ClientStep ==
    ASSUME IInv, NEW c \in Conns, Client(c), UNCHANGED svars
    PROVE  IInv'
<1>1. TypeOK'
  BY DEF Client, ReadEnds, WriteEnds, IInv, TypeOK, ConnTypeOK, svars
<1>2. LoopInv' /\ Late'
  BY DEF IInv, LoopInv, Late, Coming, Client, ReadEnds, WriteEnds, svars
<1>3. ASSUME NEW d \in Conns PROVE ConnInv(d)'
  BY DEF IInv, TypeOK, ConnTypeOK, ConnInv, Begins, Opening, Accepted, Untouched, Placed,
     Moving, Handling, Aborts, Alone, Answering, Client, ReadEnds, WriteEnds, svars
<1> QED
  BY <1>1, <1>2, <1>3 DEF IInv

LEMMA DeadlineStep ==
    ASSUME IInv, NEW c \in Conns, Deadlines(c)
    PROVE  IInv'
<1>1. TypeOK'
  BY DEF Deadlines, ReadDeadline, WriteDeadline, Expired, IInv, TypeOK, ConnTypeOK, svars
<1>2. LoopInv' /\ Late'
  BY DEF IInv, LoopInv, Late, Coming, Deadlines, ReadDeadline, WriteDeadline, svars
<1>3. ASSUME NEW d \in Conns PROVE ConnInv(d)'
  BY DEF IInv, TypeOK, ConnTypeOK, ConnInv, Begins, Opening, Accepted, Untouched, Placed,
     Moving, Handling, Aborts, Alone, Answering, Deadlines, Made, ReadDeadline,
     WriteDeadline, Expired, svars
<1> QED
  BY <1>1, <1>2, <1>3 DEF IInv

-----------------------------------------------------------------------------
(***************************************************************************)
(* The accept loop.                                                        *)
(***************************************************************************)
LEMMA ConnectStep ==
    ASSUME IInv, NEW c \in Conns, Connect(c)
    PROVE  IInv'
<1>1. TypeOK'
  BY DEF IInv, TypeOK, ConnTypeOK, Connect
<1>2. LoopInv' /\ Late'
  BY ServerAssumption DEF IInv, TypeOK, LoopInv, Late, Coming, Connect
<1>3. ASSUME NEW d \in Conns PROVE ConnInv(d)'
  <2>1. CASE d # c
    <3>1. ConnInv(d) /\ Same(d) /\ accepted # d /\ accepted' # d
      BY <2>1, ServerAssumption DEF IInv, TypeOK, ConnTypeOK, LoopInv, Same, Connect
    <3> QED
      BY <3>1, ElsewhereStep
  <2>2. CASE d = c
    BY <2>2 DEF IInv, TypeOK, ConnTypeOK, ConnInv, Begins, Opening, Accepted, Untouched,
       Placed, Moving, Handling, Aborts, Alone, Answering, Connect
  <2> QED
    BY <2>1, <2>2
<1> QED
  BY <1>1, <1>2, <1>3 DEF IInv

LEMMA AcceptFailsStep ==
    ASSUME IInv, AcceptFails \/ AcceptError
    PROVE  IInv'
<1>1. TypeOK'
  BY ServerAssumption DEF IInv, TypeOK, ConnTypeOK, LoopInv, cvars, AcceptFails, AcceptError
<1>2. LoopInv' /\ Late'
  BY ServerAssumption DEF IInv, TypeOK, LoopInv, Late, Coming, cvars, AcceptFails,
     AcceptError
<1>3. ASSUME NEW d \in Conns PROVE ConnInv(d)'
  <2>1. ConnInv(d) /\ Same(d) /\ accepted # d /\ accepted' # d
    BY ServerAssumption DEF IInv, TypeOK, ConnTypeOK, LoopInv, Same, cvars,
       AcceptFails, AcceptError
  <2> QED
    BY <2>1, ElsewhereStep
<1> QED
  BY <1>1, <1>2, <1>3 DEF IInv

LEMMA AcceptClosedStep ==
    ASSUME IInv, AcceptClosed
    PROVE  IInv'
<1>1. TypeOK'
  BY ServerAssumption DEF IInv, TypeOK, ConnTypeOK, LoopInv, cvars, AcceptClosed
<1>2. LoopInv' /\ Late'
  BY ServerAssumption DEF IInv, TypeOK, LoopInv, Late, Coming, cvars, AcceptClosed
<1>3. ASSUME NEW d \in Conns PROVE ConnInv(d)'
  <2>1. CASE accepted # d
    <3>1. ConnInv(d) /\ Same(d) /\ accepted' # d
      BY <2>1, ServerAssumption DEF IInv, TypeOK, ConnTypeOK, LoopInv, Same, cvars,
         AcceptClosed
    <3> QED
      BY <2>1, <3>1, ElsewhereStep
  <2>2. CASE accepted = d
    BY <2>2, ServerAssumption DEF IInv, TypeOK, ConnTypeOK, LoopInv, ConnInv, Begins,
       Opening, Accepted, Untouched, Placed, Moving, Handling, Aborts, Alone,
       Answering, cvars, AcceptClosed
  <2> QED
    BY <2>1, <2>2
<1> QED
  BY <1>1, <1>2, <1>3 DEF IInv

LEMMA AcceptMakeStep ==
    ASSUME IInv, AcceptMake
    PROVE  IInv'
<1>1. TypeOK'
  BY ServerAssumption DEF IInv, TypeOK, ConnTypeOK, LoopInv, cvars, AcceptMake
<1>2. LoopInv' /\ Late'
  BY ServerAssumption DEF IInv, TypeOK, LoopInv, Late, Coming, cvars, AcceptMake
<1>3. ASSUME NEW d \in Conns PROVE ConnInv(d)'
  <2>1. CASE accepted # d
    <3>1. ConnInv(d) /\ Same(d) /\ accepted' # d
      BY <2>1, ServerAssumption DEF IInv, TypeOK, ConnTypeOK, LoopInv, Same, cvars,
         AcceptMake
    <3> QED
      BY <2>1, <3>1, ElsewhereStep
  <2>2. CASE accepted = d
    BY <2>2, ServerAssumption DEF IInv, TypeOK, ConnTypeOK, LoopInv, ConnInv, Begins,
       Opening, Accepted, Untouched, Placed, Moving, Handling, Aborts, Alone,
       Answering, cvars, AcceptMake
  <2> QED
    BY <2>1, <2>2
<1> QED
  BY <1>1, <1>2, <1>3 DEF IInv

LEMMA ManagerInsertStep ==
    ASSUME IInv, ManagerInsert
    PROVE  IInv'
<1>1. TypeOK'
  BY ServerAssumption DEF IInv, TypeOK, ConnTypeOK, LoopInv, ManagerInsert
<1>2. LoopInv' /\ Late'
  BY ServerAssumption DEF IInv, TypeOK, LoopInv, Late, Coming, ManagerInsert
<1>3. ASSUME NEW d \in Conns PROVE ConnInv(d)'
  <2>1. CASE accepted # d
    <3>1. ConnInv(d) /\ Same(d) /\ accepted' # d
      BY <2>1, ServerAssumption DEF IInv, TypeOK, ConnTypeOK, LoopInv, Same, cvars,
         ManagerInsert
    <3> QED
      BY <2>1, <3>1, ElsewhereStep
  <2>2. CASE accepted = d
    BY <2>2, ServerAssumption DEF IInv, TypeOK, ConnTypeOK, LoopInv, ConnInv, Begins,
       Opening, Accepted, Untouched, Placed, Moving, Handling, Aborts, Alone,
       Answering, cvars, ManagerInsert
  <2> QED
    BY <2>1, <2>2
<1> QED
  BY <1>1, <1>2, <1>3 DEF IInv

LEMMA ConnectionStartStep ==
    ASSUME IInv, ConnectionStart
    PROVE  IInv'
<1>1. TypeOK'
  BY ServerAssumption DEF IInv, TypeOK, ConnTypeOK, LoopInv, ConnectionStart, Issued
<1>2. LoopInv' /\ Late'
  BY ServerAssumption DEF IInv, TypeOK, LoopInv, Late, Coming, ConnectionStart, Issued
<1>3. ASSUME NEW d \in Conns PROVE ConnInv(d)'
  <2>1. CASE accepted # d
    <3>1. ConnInv(d) /\ Same(d) /\ accepted' # d
      BY <2>1, ServerAssumption DEF IInv, TypeOK, ConnTypeOK, LoopInv, Same, cvars,
         ConnectionStart, Issued
    <3> QED
      BY <2>1, <3>1, ElsewhereStep
  <2>2. CASE accepted = d
    BY <2>2, ServerAssumption DEF IInv, TypeOK, ConnTypeOK, LoopInv, ConnInv, Begins,
       Opening, Accepted, Untouched, Placed, Moving, Handling, Aborts, Alone,
       Answering, cvars, ConnectionStart, Issued
  <2> QED
    BY <2>1, <2>2
<1> QED
  BY <1>1, <1>2, <1>3 DEF IInv

LEMMA ConnectionRefuseStep ==
    ASSUME IInv, ConnectionRefuse
    PROVE  IInv'
<1>1. TypeOK'
  <2>1. accepted \in Conns
    BY DEF IInv, LoopInv, ConnectionRefuse
  <2>2. connections' \subseteq Conns /\ stopping' \in [Conns -> SUBSET Stoppers]
    BY <2>1, EraseTyped DEF ConnectionRefuse, Stoppers, IInv
  <2> QED
    BY <2>2 DEF IInv, TypeOK, ConnTypeOK, ConnectionRefuse
<1>2. LoopInv' /\ Late'
  BY ServerAssumption DEF IInv, TypeOK, LoopInv, Late, Coming, ConnectionRefuse, Erase,
     Stoppers
<1>3. ASSUME NEW d \in Conns PROVE ConnInv(d)'
  <2>1. CASE accepted # d
    <3>1. ConnInv(d) /\ Same(d) /\ accepted' # d
      BY <2>1, ServerAssumption DEF IInv, TypeOK, ConnTypeOK, LoopInv, Same, cvars,
         ConnectionRefuse, Erase, Stoppers
    <3> QED
      BY <2>1, <3>1, ElsewhereStep
  <2>2. CASE accepted = d
    BY <2>2, ServerAssumption DEF IInv, TypeOK, ConnTypeOK, LoopInv, ConnInv, Begins,
       Opening, Accepted, Untouched, Placed, Moving, Handling, Aborts, Alone,
       Answering, cvars, ConnectionRefuse, Erase, Stoppers
  <2> QED
    BY <2>1, <2>2
<1> QED
  BY <1>1, <1>2, <1>3 DEF IInv

LEMMA ConnectionRefusedStep ==
    ASSUME IInv, ConnectionRefused
    PROVE  IInv'
<1>1. TypeOK'
  <2>1. accepted \in Conns /\ "start" \in Stoppers
    BY DEF IInv, LoopInv, ConnectionRefused, Stoppers
  <2>2. close({accepted})
        /\ stopping' = [stopping EXCEPT ![accepted] = @ \ {"start"}]
        /\ UNCHANGED <<connections, status, task, readTimer, writeTimer, handled, response>>
    BY DEF ConnectionRefused, StopClose
  <2>3. stopping' \in [Conns -> SUBSET Stoppers]
    BY <2>1, <2>2 DEF IInv, TypeOK, ConnTypeOK
  <2> QED
    BY <2>2, <2>3, CloseTyped DEF IInv, TypeOK, ConnTypeOK, ConnectionRefused, svars
<1>2. LoopInv' /\ Late'
  BY ServerAssumption DEF IInv, TypeOK, LoopInv, Late, Coming, ConnectionRefused,
     StopClose, close, Aborted
<1>3. ASSUME NEW d \in Conns PROVE ConnInv(d)'
  <2>1. CASE accepted # d
    <3>1. ConnInv(d) /\ Same(d) /\ accepted' # d
      BY <2>1, ServerAssumption DEF IInv, TypeOK, ConnTypeOK, LoopInv, Same, cvars,
         ConnectionRefused, StopClose, close, Aborted
    <3> QED
      BY <2>1, <3>1, ElsewhereStep
  <2>2. CASE accepted = d
    BY <2>2, ServerAssumption DEF IInv, TypeOK, ConnTypeOK, LoopInv, ConnInv, Begins,
       Opening, Accepted, Untouched, Placed, Moving, Handling, Aborts, Alone,
       Answering, cvars, ConnectionRefused, StopClose, close, Aborted
  <2> QED
    BY <2>1, <2>2
<1> QED
  BY <1>1, <1>2, <1>3 DEF IInv

LEMMA ConnectionWaitStep ==
    ASSUME IInv, ConnectionWait
    PROVE  IInv'
<1>1. TypeOK'
  BY ServerAssumption DEF IInv, TypeOK, ConnTypeOK, LoopInv, ConnectionWait, Waited
<1>2. LoopInv' /\ Late'
  BY ServerAssumption DEF IInv, TypeOK, LoopInv, Late, Coming, ConnectionWait, Waited
<1>3. ASSUME NEW d \in Conns PROVE ConnInv(d)'
  <2>1. CASE accepted # d
    <3>1. ConnInv(d) /\ Same(d) /\ accepted' # d
      BY <2>1, ServerAssumption DEF IInv, TypeOK, ConnTypeOK, LoopInv, Same, cvars,
         ConnectionWait, Waited
    <3> QED
      BY <2>1, <3>1, ElsewhereStep
  <2>2. CASE accepted = d
    BY <2>2, ServerAssumption DEF IInv, TypeOK, ConnTypeOK, LoopInv, ConnInv, Begins,
       Opening, Accepted, Untouched, Placed, Moving, Handling, Aborts, Alone,
       Answering, cvars, ConnectionWait, Waited
  <2> QED
    BY <2>1, <2>2
<1> QED
  BY <1>1, <1>2, <1>3 DEF IInv

LEMMA DoAcceptStep ==
    ASSUME IInv, DoAccept
    PROVE  IInv'
<1>1. TypeOK'
  BY ServerAssumption DEF IInv, TypeOK, ConnTypeOK, LoopInv, cvars, DoAccept
<1>2. LoopInv' /\ Late'
  BY ServerAssumption DEF IInv, TypeOK, LoopInv, Late, Coming, cvars, DoAccept
<1>3. ASSUME NEW d \in Conns PROVE ConnInv(d)'
  <2>1. CASE accepted # d
    <3>1. ConnInv(d) /\ Same(d) /\ accepted' # d
      BY <2>1, ServerAssumption DEF IInv, TypeOK, ConnTypeOK, LoopInv, Same, cvars, DoAccept
    <3> QED
      BY <2>1, <3>1, ElsewhereStep
  <2>2. CASE accepted = d
    BY <2>2, ServerAssumption DEF IInv, TypeOK, ConnTypeOK, LoopInv, ConnInv, Begins,
       Opening, Accepted, Untouched, Placed, Moving, Handling, Aborts, Alone,
       Answering, cvars, DoAccept
  <2> QED
    BY <2>1, <2>2
<1> QED
  BY <1>1, <1>2, <1>3 DEF IInv

-----------------------------------------------------------------------------
(***************************************************************************)
(* Shutting down.                                                          *)
(***************************************************************************)
LEMMA SignalCloseStep ==
    ASSUME IInv, SignalClose
    PROVE  IInv'
<1>1. TypeOK'
  BY DEF IInv, TypeOK, ConnTypeOK, SignalClose, cvars
<1>2. LoopInv' /\ Late'
  BY DEF IInv, TypeOK, LoopInv, Late, Coming, SignalClose, cvars
<1>3. ASSUME NEW d \in Conns PROVE ConnInv(d)'
  <2>1. ConnInv(d) /\ Same(d) /\ accepted' = accepted
    BY DEF IInv, Same, SignalClose, cvars
  <2>2. CASE accept = "pending"
    BY <2>1, <2>2, ServerAssumption, ElsewhereStep DEF IInv, LoopInv
  <2>3. CASE accept # "pending"
    BY <2>1, <2>3, SameStep DEF SignalClose
  <2> QED
    BY <2>2, <2>3
<1> QED
  BY <1>1, <1>2, <1>3 DEF IInv

LEMMA StopAllStep ==
    ASSUME IInv, StopAll
    PROVE  IInv'
<1>1. TypeOK'
  BY CloseTyped DEF IInv, TypeOK, ConnTypeOK, StopAll
<1>2. LoopInv' /\ Late'
  BY DEF IInv, TypeOK, LoopInv, Late, Coming, StopAll
<1>3. ASSUME NEW d \in Conns PROVE ConnInv(d)'
  BY DEF IInv, TypeOK, ConnTypeOK, ConnInv, Begins, Opening, Accepted, Untouched, Placed,
     Moving, Handling, Aborts, Alone, Answering, StopAll, close, Aborted
<1> QED
  BY <1>1, <1>2, <1>3 DEF IInv

LEMMA NextInv == IInv /\ [Next]_vars => IInv'
<1> SUFFICES ASSUME IInv, [Next]_vars PROVE IInv'
  OBVIOUS
<1>1. CASE Stop \/ UNCHANGED vars
  <2>1. TypeOK'
    <3>1. UNCHANGED <<cvars, acceptor, accept, accepted, signal>>
      BY <1>1 DEF Stop, vars, svars
    <3>2. stopped' \in BOOLEAN
      BY <1>1 DEF Stop, IInv, TypeOK, vars, svars
    <3> QED
      BY <3>1, <3>2 DEF IInv, TypeOK, ConnTypeOK, cvars
  <2>2. ASSUME NEW d \in Conns PROVE ConnInv(d)'
    <3>1. ConnInv(d) /\ Same(d) /\ UNCHANGED <<accept, accepted>>
      BY <1>1 DEF IInv, Same, Stop, vars, cvars, svars
    <3> QED
      BY <3>1, SameStep
  <2>3. LoopInv' /\ Late'
    BY <1>1 DEF IInv, LoopInv, Late, Coming, Stop, vars, cvars, svars
  <2> QED
    BY <2>1, <2>2, <2>3 DEF IInv
<1>2. CASE AcceptLoop \/ AcceptFails
  BY <1>2, AcceptFailsStep, AcceptClosedStep, AcceptMakeStep, ManagerInsertStep,
     ConnectionStartStep, ConnectionRefuseStep, ConnectionRefusedStep, ConnectionWaitStep,
     DoAcceptStep DEF AcceptLoop
<1>3. CASE SignalClose \/ StopAll
  BY <1>3, SignalCloseStep, StopAllStep
<1>4. ASSUME NEW c \in Conns, Connect(c) PROVE IInv'
  BY <1>4, ConnectStep
<1>5. ASSUME NEW c \in Conns, Starts(c) PROVE IInv'
  BY <1>5, ReadStep, WriteStep, TimerStep DEF Starts
<1>6. ASSUME NEW c \in Conns, Continues(c) PROVE IInv'
  <2>1. CASE Handle(c) \/ WaitWrite(c) \/ WriteResponse(c) \/ RequestHandled(c)
    BY <1>6, <2>1, TaskStep DEF Continues
  <2>2. ASSUME NEW who \in Stoppers \ {"start"}, StopClose(c, who) PROVE IInv'
    BY <1>6, <2>2, StopCloseStep DEF Continues
  <2> QED
    BY <1>6, <2>1, <2>2 DEF Continues
<1>7. ASSUME NEW c \in Conns, Deadlines(c) PROVE IInv'
  BY <1>7, DeadlineStep
<1>8. ASSUME NEW c \in Conns, Client(c), UNCHANGED svars PROVE IInv'
  BY <1>8, ClientStep
<1> QED
  BY <1>1, <1>2, <1>3, <1>4, <1>5, <1>6, <1>7, <1>8 DEF Next

-----------------------------------------------------------------------------
(***************************************************************************)
(* The properties.                                                         *)
(***************************************************************************)
LEMMA AtMostOne ==
    ASSUME NEW S \in SUBSET {"r", "w", "h"},
           ~("r" \in S /\ "w" \in S), ~("r" \in S /\ "h" \in S), ~("w" \in S /\ "h" \in S)
    PROVE  Cardinality(S) <= 1
<1>1. S = {} \/ \E op : S = {op}
  OBVIOUS
<1>2. CASE S = {}
  BY <1>2, FS_EmptySet
<1>3. CASE \E op : S = {op}
  <2>1. PICK op : S = {op}
    BY <1>3
  <2>2. Cardinality({op}) = 1
    BY FS_Singleton
  <2> QED
    BY <2>1, <2>2
<1> QED
  BY <1>1, <1>2, <1>3

LEMMA InvOneOperation == IInv => OneOperation
<1> SUFFICES ASSUME IInv, NEW c \in Conns
             PROVE  /\ Cardinality({op \in {"r", "w", "h"} :
                          \/ op = "r" /\ reading[c] # "none"
                          \/ op = "w" /\ writing[c] # "none"
                          \/ op = "h" /\ task[c] \in {"parsed", "handled", "timed"}}) <= 1
                    /\ status[c] = "DONE" => reading[c] = "none"
  BY DEF OneOperation
<1> DEFINE S == {op \in {"r", "w", "h"} :
                   \/ op = "r" /\ reading[c] # "none"
                   \/ op = "w" /\ writing[c] # "none"
                   \/ op = "h" /\ task[c] \in {"parsed", "handled", "timed"}}
<1>1. Alone(c)
  BY DEF IInv, ConnInv
<1>2. ~("r" \in S /\ "w" \in S) /\ ~("r" \in S /\ "h" \in S) /\ ~("w" \in S /\ "h" \in S)
  BY <1>1 DEF Alone, Handling
<1>3. Cardinality(S) <= 1
  <2> HIDE DEF S
  <2>1. S \in SUBSET {"r", "w", "h"}
    BY DEF S
  <2> QED
    BY <1>2, <2>1, AtMostOne
<1> QED
  BY <1>1, <1>3 DEF Alone

(* Types of the connections, the accept loop and the shutdown, for any set
   of connections and any number of threads. *)
THEOREM ServerTyped == Spec => []TypeOK
<1>1. IInv => TypeOK
  BY DEF IInv
<1> QED
  BY <1>1, InitInv, NextInv, PTL DEF Spec

(* Never two users of a request and its response at a time, however many
   threads run the handlers, and no read after the answer has begun;
   do_read and do_write. *)
THEOREM OneOperationAlways == Spec => []OneOperation
BY InvOneOperation, InitInv, NextInv, PTL DEF Spec

(* A request reaches its handler once at most, and is handled or refused,
   whatever timeouts, closes and retries fall in between; do_read. *)
THEOREM HandledOnceAlways == Spec => []HandledOnce
<1>1. IInv => HandledOnce
  BY DEF IInv, TypeOK, ConnTypeOK, ConnInv, Answering, HandledOnce
<1> QED
  BY <1>1, InitInv, NextInv, PTL DEF Spec

(* An open socket is always in somebody's hands: the manager's, the accept
   loop's, or those of a thread about to close it. *)
THEOREM NoSocketLostAlways == Spec => []NoSocketLost
<1>1. IInv => NoSocketLost
  BY DEF IInv, ConnInv, Placed, Accepted, NoSocketLost
<1> QED
  BY <1>1, InitInv, NextInv, PTL DEF Spec

(* A connection in the manager's set is open and something moves it on, so
   that stop_all and the timeouts are the only ways it can be left behind. *)
THEOREM NoneStuckAlways == Spec => []NoneStuck
<1>1. IInv => NoneStuck
  BY DEF IInv, TypeOK, ConnTypeOK, ConnInv, Placed, Moving, Handling, NoneStuck
<1> QED
  BY <1>1, InitInv, NextInv, PTL DEF Spec

(* However many connections there are, at most the one that was being
   accepted outlives a shutdown by signal; do_await_stop and do_accept. *)
THEOREM OneOutlivesAlways == Spec => []OneOutlives
<1>1. IInv => OneOutlives
  BY DEF IInv, Late, OneOutlives
<1> QED
  BY <1>1, InitInv, NextInv, PTL DEF Spec
=============================================================================
