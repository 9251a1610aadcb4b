----------------------------- MODULE Connection -----------------------------
(***************************************************************************)
(* The life of HTTP connections in lib/served/net: connection.cpp and the  *)
(* set of live connections kept by connection_manager.cpp.  A connection   *)
(* is a chain of completion handlers, which a pool of threads takes from   *)
(* the queue of an io_service; two handlers of one connection may run at   *)
(* the same time, so a handler is split where another thread can come in   *)
(* between.  Steps of one handler see a consistent memory: torn accesses   *)
(* to the socket or to a timer are not modelled.                           *)
(*                                                                         *)
(* An asynchronous operation is "pending" until the client, the network or *)
(* a close() ends it; from then on its completion handler is queued with   *)
(* that outcome.  Both timers are given their deadline when the connection *)
(* is made and are waited on later, so a deadline can pass unobserved.     *)
(***************************************************************************)
EXTENDS Naturals, FiniteSets

CONSTANTS
  Conns,          (* the connections clients may open                      *)
  ReadTimeout,    (* a read timeout is set (> 0)                           *)
  WriteTimeout    (* a write timeout is set (> 0)                          *)

ASSUME TimeoutsAssumption == ReadTimeout \in BOOLEAN /\ WriteTimeout \in BOOLEAN

VARIABLES
  connections,    (* connection_manager::_connections                      *)
  socket,         (* "none" before accept, "open", "closed"                *)
  reading,        (* the outstanding async_read_some                       *)
  writing,        (* the outstanding async_write                           *)
  status,         (* connection::_status                                   *)
  task,           (* how far the handler that got a whole request has come *)
  readTimer,      (* the two timers: "idle", "armed", "expired" (nobody    *)
  writeTimer,     (*   waiting), "queued" (its handler is to run)          *)
  stopping,       (* who has taken the connection out of the set and is    *)
                  (*   about to close its socket                           *)
  handled,        (* how many times the request reached its handler        *)
  response        (* what was last sent: "none", "100", "final"            *)

cvars == <<connections, socket, reading, writing, status, task, readTimer,
           writeTimer, stopping, handled, response>>

Stoppers == {"start", "read", "write", "readTimer", "writeTimer"}

ConnTypeOK ==
    /\ connections \subseteq Conns
    /\ socket \in [Conns -> {"none", "open", "closed"}]
    /\ reading \in [Conns -> {"none", "pending", "data", "error", "aborted"}]
    /\ writing \in [Conns -> {"none", "pending", "sent", "error", "aborted"}]
    /\ status \in [Conns -> {"READING", "DONE"}]
    /\ task \in [Conns -> {"none", "parsed", "handled", "timed", "written"}]
    /\ readTimer \in [Conns -> {"idle", "armed", "expired", "queued"}]
    /\ writeTimer \in [Conns -> {"idle", "armed", "expired", "queued"}]
    /\ stopping \in [Conns -> SUBSET Stoppers]
    /\ handled \in [Conns -> Nat]
    /\ response \in [Conns -> {"none", "100", "final"}]

ConnInit ==
    /\ connections = {}
    /\ socket = [c \in Conns |-> "none"]
    /\ reading = [c \in Conns |-> "none"]
    /\ writing = [c \in Conns |-> "none"]
    /\ status = [c \in Conns |-> "READING"]
    /\ task = [c \in Conns |-> "none"]
    /\ readTimer = [c \in Conns |-> "idle"]
    /\ writeTimer = [c \in Conns |-> "idle"]
    /\ stopping = [c \in Conns |-> {}]
    /\ handled = [c \in Conns |-> 0]
    /\ response = [c \in Conns |-> "none"]

-----------------------------------------------------------------------------
(* Operations on the socket and the timers. *)

(* Reading or writing on a closed socket completes at once with an error
   that is not operation_aborted. *)
Issued(c) == IF socket[c] = "open" THEN "pending" ELSE "error"

(* close() ends the operations in flight; completed ones keep their outcome. *)
Aborted(op) == IF op = "pending" THEN "aborted" ELSE op

close(S) ==
    /\ socket' = [c \in Conns |-> IF c \in S THEN "closed" ELSE socket[c]]
    /\ reading' = [c \in Conns |-> IF c \in S THEN Aborted(reading[c]) ELSE reading[c]]
    /\ writing' = [c \in Conns |-> IF c \in S THEN Aborted(writing[c]) ELSE writing[c]]

(* async_wait on a timer whose deadline has passed completes at once. *)
Waited(timer) == IF timer = "idle" THEN "armed" ELSE "queued"

(* cancel() reaches a wait in progress, not a handler already queued, nor a
   wait that has yet to start. *)
Cancelled(timer) == IF timer = "armed" THEN "idle" ELSE timer

(* connection_manager::stop takes the connection out of the set under the
   lock; the close comes after the lock is released. *)
Erase(c, who) == /\ connections' = connections \ {c}
                 /\ stopping' = [stopping EXCEPT ![c] = @ \cup {who}]

StopClose(c, who) ==
    /\ who \in stopping[c]
    /\ stopping' = [stopping EXCEPT ![c] = @ \ {who}]
    /\ close({c})
    /\ UNCHANGED <<connections, status, task, readTimer, writeTimer, handled, response>>

-----------------------------------------------------------------------------
(* The completion handler of do_read.  parse() is external to this module:
   it answers with one of its results. *)

(* Mutant of ReadFinished: it goes on to read the next bytes. *)
ReadFinished_SigueLeyendo(c) ==
    /\ reading[c] = "data"
    /\ reading' = [reading EXCEPT ![c] = Issued(c)]
    /\ readTimer' = [readTimer EXCEPT ![c] = Cancelled(@)]
    /\ status' = [status EXCEPT ![c] = "DONE"]
    /\ task' = [task EXCEPT ![c] = "parsed"]
    /\ UNCHANGED <<connections, socket, writing, writeTimer, stopping, handled, response>>

(* FINISHED: the read timer is cancelled, then the request is handled. *)
ReadFinished(c) ==
    /\ reading[c] = "data"
    /\ reading' = [reading EXCEPT ![c] = "none"]
    /\ readTimer' = [readTimer EXCEPT ![c] = Cancelled(@)]
    /\ status' = [status EXCEPT ![c] = "DONE"]
    /\ task' = [task EXCEPT ![c] = "parsed"]
    /\ UNCHANGED <<connections, socket, writing, writeTimer, stopping, handled, response>>

(* forward_to_handler returns or throws; either way there is a response. *)
Handle(c) ==
    /\ task[c] = "parsed"
    /\ task' = [task EXCEPT ![c] = "handled"]
    /\ handled' = [handled EXCEPT ![c] = @ + 1]
    /\ UNCHANGED <<connections, socket, reading, writing, status, readTimer,
                   writeTimer, stopping, response>>

(* Mutant of WaitWrite: nobody waits on the write timer. *)
WaitWrite_SinTemporizador(c) ==
    /\ task[c] = "handled"
    /\ task' = [task EXCEPT ![c] = "timed"]
    /\ UNCHANGED <<connections, socket, reading, writing, status, readTimer, writeTimer,
                   stopping, handled, response>>

WaitWrite(c) ==
    /\ task[c] = "handled"
    /\ task' = [task EXCEPT ![c] = "timed"]
    /\ writeTimer' = IF WriteTimeout THEN [writeTimer EXCEPT ![c] = Waited(@)] ELSE writeTimer
    /\ UNCHANGED <<connections, socket, reading, writing, status, readTimer,
                   stopping, handled, response>>

WriteResponse(c) ==
    /\ task[c] = "timed"
    /\ task' = [task EXCEPT ![c] = "written"]
    /\ writing' = [writing EXCEPT ![c] = Issued(c)]
    /\ response' = [response EXCEPT ![c] = "final"]
    /\ UNCHANGED <<connections, socket, reading, status, readTimer, writeTimer,
                   stopping, handled>>

(* on_request_handled: the plugins that run after the response was issued. *)
RequestHandled(c) ==
    /\ task[c] = "written"
    /\ task' = [task EXCEPT ![c] = "none"]
    /\ UNCHANGED <<connections, socket, reading, writing, status, readTimer,
                   writeTimer, stopping, handled, response>>

(* EXPECT_CONTINUE, which the parser says once, at the end of the header. *)
ReadExpectContinue(c) ==
    /\ reading[c] = "data"
    /\ response[c] = "none"
    /\ reading' = [reading EXCEPT ![c] = "none"]
    /\ writing' = [writing EXCEPT ![c] = Issued(c)]
    /\ response' = [response EXCEPT ![c] = "100"]
    /\ UNCHANGED <<connections, socket, status, task, readTimer, writeTimer, stopping, handled>>

(* READ_HEADER or READ_BODY: more is to come. *)
ReadMore(c) ==
    /\ reading[c] = "data"
    /\ reading' = [reading EXCEPT ![c] = Issued(c)]
    /\ UNCHANGED <<connections, socket, writing, status, task, readTimer,
                   writeTimer, stopping, handled, response>>

(* REJECTED_REQUEST_SIZE or ERROR: 413 or 400, and no timer is touched. *)
ReadRejected(c) ==
    /\ reading[c] = "data"
    /\ reading' = [reading EXCEPT ![c] = "none"]
    /\ status' = [status EXCEPT ![c] = "DONE"]
    /\ writing' = [writing EXCEPT ![c] = Issued(c)]
    /\ response' = [response EXCEPT ![c] = "final"]
    /\ UNCHANGED <<connections, socket, task, readTimer, writeTimer, stopping, handled>>

(* Mutant of ReadFailed: the manager is not told. *)
ReadFailed_SinParar(c) ==
    /\ reading[c] = "error"
    /\ reading' = [reading EXCEPT ![c] = "none"]
    /\ UNCHANGED <<connections, socket, writing, status, task, readTimer,
                   writeTimer, stopping, handled, response>>

ReadFailed(c) ==
    /\ reading[c] = "error"
    /\ reading' = [reading EXCEPT ![c] = "none"]
    /\ Erase(c, "read")
    /\ UNCHANGED <<socket, writing, status, task, readTimer, writeTimer, handled, response>>

ReadAborted(c) ==
    /\ reading[c] = "aborted"
    /\ reading' = [reading EXCEPT ![c] = "none"]
    /\ UNCHANGED <<connections, socket, writing, status, task, readTimer,
                   writeTimer, stopping, handled, response>>

ReadHandler(c) ==
    \/ ReadFinished(c) \/ ReadExpectContinue(c) \/ ReadMore(c) \/ ReadRejected(c)
    \/ ReadFailed(c) \/ ReadAborted(c)

-----------------------------------------------------------------------------
(* The completion handler of do_write. *)

(* Mutant of WriteContinue: it reads on after any response. *)
WriteContinue_SinEstado(c) ==
    /\ writing[c] = "sent"
    /\ writing' = [writing EXCEPT ![c] = "none"]
    /\ reading' = [reading EXCEPT ![c] = Issued(c)]
    /\ UNCHANGED <<connections, socket, status, task, readTimer, writeTimer,
                   stopping, handled, response>>

(* The 100 Continue is out: read on. *)
WriteContinue(c) ==
    /\ writing[c] = "sent" /\ status[c] = "READING"
    /\ writing' = [writing EXCEPT ![c] = "none"]
    /\ reading' = [reading EXCEPT ![c] = Issued(c)]
    /\ UNCHANGED <<connections, socket, status, task, readTimer, writeTimer,
                   stopping, handled, response>>

(* The response is out, after which the socket is shut down; or the write failed. *)
WriteOver(c) ==
    /\ \/ writing[c] = "sent" /\ status[c] = "DONE"
       \/ writing[c] = "error"
    /\ writing' = [writing EXCEPT ![c] = "none"]
    /\ Erase(c, "write")
    /\ UNCHANGED <<socket, reading, status, task, readTimer, writeTimer, handled, response>>

WriteAborted(c) ==
    /\ writing[c] = "aborted"
    /\ writing' = [writing EXCEPT ![c] = "none"]
    /\ UNCHANGED <<connections, socket, reading, status, task, readTimer,
                   writeTimer, stopping, handled, response>>

WriteHandler(c) == WriteContinue(c) \/ WriteOver(c) \/ WriteAborted(c)

-----------------------------------------------------------------------------
(* The handlers of the two timers. *)

ReadTimerHandler(c) ==
    /\ readTimer[c] = "queued"
    /\ readTimer' = [readTimer EXCEPT ![c] = "expired"]
    /\ Erase(c, "readTimer")
    /\ UNCHANGED <<socket, reading, writing, status, task, writeTimer, handled, response>>

WriteTimerHandler(c) ==
    /\ writeTimer[c] = "queued"
    /\ writeTimer' = [writeTimer EXCEPT ![c] = "expired"]
    /\ Erase(c, "writeTimer")
    /\ UNCHANGED <<socket, reading, writing, status, task, readTimer, handled, response>>

-----------------------------------------------------------------------------
(* What the client and the passing of time do. *)

ReadEnds(c, how) ==
    /\ reading[c] = "pending"
    /\ reading' = [reading EXCEPT ![c] = how]
    /\ UNCHANGED <<connections, socket, writing, status, task, readTimer,
                   writeTimer, stopping, handled, response>>

WriteEnds(c, how) ==
    /\ writing[c] = "pending"
    /\ writing' = [writing EXCEPT ![c] = how]
    /\ UNCHANGED <<connections, socket, reading, status, task, readTimer,
                   writeTimer, stopping, handled, response>>

Client(c) == \/ \E how \in {"data", "error"} : ReadEnds(c, how)
             \/ \E how \in {"sent", "error"} : WriteEnds(c, how)

Expired(timer) == IF timer = "armed" THEN "queued" ELSE "expired"

ReadDeadline(c) ==
    /\ socket[c] # "none" /\ readTimer[c] \in {"idle", "armed"}
    /\ readTimer' = [readTimer EXCEPT ![c] = Expired(@)]
    /\ UNCHANGED <<connections, socket, reading, writing, status, task,
                   writeTimer, stopping, handled, response>>

WriteDeadline(c) ==
    /\ socket[c] # "none" /\ writeTimer[c] \in {"idle", "armed"}
    /\ writeTimer' = [writeTimer EXCEPT ![c] = Expired(@)]
    /\ UNCHANGED <<connections, socket, reading, writing, status, task,
                   readTimer, stopping, handled, response>>
=============================================================================
