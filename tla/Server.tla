------------------------------- MODULE Server -------------------------------
(***************************************************************************)
(* The HTTP server of lib/served/net/server.cpp: the accept loop, the      *)
(* signal that shuts it down, server::stop, and the pool of threads that   *)
(* run(n) puts on the io_service, together with the connections of module  *)
(* Connection.  HttpServer::StartServer runs it with ten threads and no    *)
(* timeouts.                                                               *)
(***************************************************************************)
EXTENDS Connection

CONSTANTS
  NThreads,       (* threads that run the io_service                       *)
  NoConn          (* the server's _socket holds no accepted connection     *)

ASSUME ServerAssumption == NThreads \in Nat \ {0} /\ NoConn \notin Conns

VARIABLES
  acceptor,       (* "open", "closed"                                      *)
  accept,         (* the accept loop: the operation or its handler's place *)
  accepted,       (* the connection accepted last, or NoConn               *)
  signal,         (* the handler of do_await_stop: "none", "running", "done" *)
  stopped         (* io_service::stop has been called                      *)

svars == <<acceptor, accept, accepted, signal, stopped>>
vars == <<cvars, svars>>

TypeOK ==
    /\ ConnTypeOK
    /\ acceptor \in {"open", "closed"}
    /\ accept \in {"pending", "ready", "error", "made", "inserted", "reading",
                   "refused", "again", "over"}
    /\ accepted \in Conns \cup {NoConn}
    /\ signal \in {"none", "running", "done"}
    /\ stopped \in BOOLEAN

Init ==
    /\ ConnInit
    /\ acceptor = "open" /\ accept = "pending" /\ accepted = NoConn
    /\ signal = "none" /\ stopped = FALSE

-----------------------------------------------------------------------------
(* Threads.  A handler starts when a thread is free; the one-step handlers
   give it back at once, the others hold it until their last step. *)

AcceptRuns == accept \in {"made", "inserted", "reading", "refused", "again"}

Busy == Cardinality({c \in Conns : task[c] # "none"})
      + Cardinality({held \in Conns \X Stoppers : held[2] \in stopping[held[1]]})
      + (IF AcceptRuns THEN 1 ELSE 0)
      + (IF signal = "running" THEN 1 ELSE 0)

FreeThread == ~stopped /\ Busy < NThreads

-----------------------------------------------------------------------------
(* The accept loop: the handler of do_accept, and connection_manager::start. *)

Connect(c) ==
    /\ accept = "pending" /\ acceptor = "open" /\ socket[c] = "none"
    /\ accept' = "ready" /\ accepted' = c
    /\ socket' = [socket EXCEPT ![c] = "open"]
    /\ UNCHANGED <<connections, reading, writing, status, task, readTimer, writeTimer,
                   stopping, handled, response, acceptor, signal, stopped>>

AcceptFails ==
    /\ accept = "pending" /\ acceptor = "open"
    /\ accept' = "error"
    /\ UNCHANGED <<cvars, acceptor, accepted, signal, stopped>>

(* A connection accepted before the acceptor closed, whose handler runs
   after, stays in the server's own socket. *)
AcceptClosed ==
    /\ accept \in {"ready", "error"} /\ acceptor = "closed" /\ FreeThread
    /\ accept' = "over"
    /\ UNCHANGED <<cvars, acceptor, accepted, signal, stopped>>

(* Mutant of AcceptError: the error code is not looked at. *)
AcceptError_SinMirar ==
    /\ accept = "error" /\ acceptor = "open" /\ FreeThread
    /\ accept' = "made"
    /\ UNCHANGED <<cvars, acceptor, accepted, signal, stopped>>

AcceptError ==
    /\ accept = "error" /\ acceptor = "open" /\ FreeThread
    /\ accept' = "again"
    /\ UNCHANGED <<cvars, acceptor, accepted, signal, stopped>>

AcceptMake ==
    /\ accept = "ready" /\ acceptor = "open" /\ FreeThread
    /\ accept' = "made"
    /\ UNCHANGED <<cvars, acceptor, accepted, signal, stopped>>

ManagerInsert ==
    /\ accept = "made"
    /\ accept' = "inserted"
    /\ connections' = connections \cup {accepted}
    /\ UNCHANGED <<socket, reading, writing, status, task, readTimer, writeTimer, stopping,
                   handled, response, acceptor, accepted, signal, stopped>>

(* connection::start.  The first read is issued before the read timer is
   waited on, so its handler may run on another thread in between. *)
ConnectionStart ==
    /\ accept = "inserted" /\ socket[accepted] = "open"
    /\ accept' = "reading"
    /\ reading' = [reading EXCEPT ![accepted] = Issued(accepted)]
    /\ UNCHANGED <<connections, socket, writing, status, task, readTimer, writeTimer, stopping,
                   handled, response, acceptor, accepted, signal, stopped>>

(* remote_endpoint fails: closed by stop_all, or the client has gone. *)
ConnectionRefuse ==
    /\ accept = "inserted"
    /\ accept' = "refused"
    /\ Erase(accepted, "start")
    /\ UNCHANGED <<socket, reading, writing, status, task, readTimer, writeTimer,
                   handled, response, acceptor, accepted, signal, stopped>>

ConnectionRefused ==
    /\ accept = "refused"
    /\ accept' = "again"
    /\ StopClose(accepted, "start")
    /\ UNCHANGED <<acceptor, accepted, signal, stopped>>

ConnectionWait ==
    /\ accept = "reading"
    /\ accept' = "again"
    /\ readTimer' = IF ReadTimeout THEN [readTimer EXCEPT ![accepted] = Waited(@)] ELSE readTimer
    /\ UNCHANGED <<connections, socket, reading, writing, status, task, writeTimer, stopping,
                   handled, response, acceptor, accepted, signal, stopped>>

DoAccept ==
    /\ accept = "again"
    /\ accept' = IF acceptor = "open" THEN "pending" ELSE "error"
    /\ accepted' = NoConn
    /\ UNCHANGED <<cvars, acceptor, signal, stopped>>

AcceptLoop == \/ AcceptClosed \/ AcceptError \/ AcceptMake \/ ManagerInsert
              \/ ConnectionStart \/ ConnectionRefuse \/ ConnectionRefused
              \/ ConnectionWait \/ DoAccept

-----------------------------------------------------------------------------
(* Shutting down. *)

(* Mutant of SignalClose: the acceptor is left open. *)
SignalClose_SinCerrar ==
    /\ signal = "none" /\ FreeThread
    /\ signal' = "running"
    /\ UNCHANGED <<cvars, acceptor, accept, accepted, stopped>>

(* The handler of do_await_stop, first half: the acceptor is closed, and
   with it the accept in flight. *)
SignalClose ==
    /\ signal = "none" /\ FreeThread
    /\ signal' = "running"
    /\ acceptor' = "closed"
    /\ accept' = IF accept = "pending" THEN "error" ELSE accept
    /\ UNCHANGED <<cvars, accepted, stopped>>

(* Mutant of StopAll: the connections are forgotten and left open. *)
StopAll_SinCerrar ==
    /\ signal = "running"
    /\ signal' = "done"
    /\ connections' = {}
    /\ UNCHANGED <<socket, reading, writing, status, task, readTimer, writeTimer, stopping,
                   handled, response, acceptor, accept, accepted, stopped>>

(* Second half, connection_manager::stop_all, under the manager's lock. *)
StopAll ==
    /\ signal = "running"
    /\ signal' = "done"
    /\ close(connections)
    /\ connections' = {}
    /\ UNCHANGED <<status, task, readTimer, writeTimer, stopping, handled, response,
                   acceptor, accept, accepted, stopped>>

(* server::stop, from any thread of the program: the io_service is told to
   run no more handlers. *)
Stop == /\ ~stopped
        /\ stopped' = TRUE
        /\ UNCHANGED <<cvars, acceptor, accept, accepted, signal>>

-----------------------------------------------------------------------------
(* The handlers of a connection, on the threads of the pool. *)

Starts(c) == /\ FreeThread
             /\ \/ ReadHandler(c) \/ WriteHandler(c)
                \/ ReadTimerHandler(c) \/ WriteTimerHandler(c)
             /\ UNCHANGED svars

Continues(c) == /\ \/ Handle(c) \/ WaitWrite(c) \/ WriteResponse(c) \/ RequestHandled(c)
                   \/ \E who \in Stoppers \ {"start"} : StopClose(c, who)
                /\ UNCHANGED svars

Made(c) == socket[c] # "none" /\ ~(accepted = c /\ accept \in {"ready", "over"})

Deadlines(c) == Made(c) /\ (ReadDeadline(c) \/ WriteDeadline(c)) /\ UNCHANGED svars

Next ==
    \/ AcceptLoop \/ AcceptFails \/ SignalClose \/ StopAll \/ Stop
    \/ \E c \in Conns : Connect(c) \/ Starts(c) \/ Continues(c) \/ Deadlines(c)
                        \/ (Client(c) /\ UNCHANGED svars)

Spec == Init /\ [][Next]_vars

(* The queue of an io_service is first in, first out, and no handler holds
   its thread for ever: a queued handler starts, however often the threads
   are all busy meanwhile (strong fairness, as FreeThread comes and goes).
   A running one goes on, and time passes.  Nothing is assumed of the
   clients, of the signal or of who calls stop. *)
Fairness ==
    /\ SF_vars(AcceptClosed \/ AcceptError \/ AcceptMake)
    /\ WF_vars(AcceptLoop) /\ WF_vars(StopAll)
    /\ \A c \in Conns :
          /\ SF_vars(FreeThread /\ ReadHandler(c) /\ UNCHANGED svars)
          /\ SF_vars(FreeThread /\ WriteHandler(c) /\ UNCHANGED svars)
          /\ SF_vars(FreeThread /\ ReadTimerHandler(c) /\ UNCHANGED svars)
          /\ SF_vars(FreeThread /\ WriteTimerHandler(c) /\ UNCHANGED svars)
          /\ WF_vars(Continues(c))
          /\ WF_vars(Made(c) /\ ReadDeadline(c) /\ UNCHANGED svars)
          /\ WF_vars(Made(c) /\ WriteDeadline(c) /\ UNCHANGED svars)

FairSpec == Spec /\ Fairness

-----------------------------------------------------------------------------
(* Properties. *)

(* The request and the response of a connection have one user at a time:
   no two of a read, a write and the request's handler are under way
   together, and a connection that has begun its response reads no more. *)
OneOperation == \A c \in Conns :
    /\ Cardinality({op \in {"r", "w", "h"} :
           \/ op = "r" /\ reading[c] # "none"
           \/ op = "w" /\ writing[c] # "none"
           \/ op = "h" /\ task[c] \in {"parsed", "handled", "timed"}}) <= 1
    /\ status[c] = "DONE" => reading[c] = "none"

(* A request reaches its handler at most once, and is answered by it or
   refused, never both; so a retried read or a late timer cannot run a line
   of the interpreter twice. *)
HandledOnce == \A c \in Conns :
    /\ handled[c] <= 1
    /\ response[c] = "final" /\ handled[c] = 0 => task[c] = "none"
    /\ handled[c] = 1 => status[c] = "DONE"

(* No socket is lost: an open one is in the manager's set, where stop_all
   finds it, or with the accept loop, or about to be closed by the thread
   that took it out of the set. *)
NoSocketLost == \A c \in Conns :
    socket[c] = "open" => c \in connections \/ accepted = c \/ stopping[c] # {}

(* Nothing in the set is dead or stuck: a connection the manager holds is
   open, and some operation, handler or the accept loop will move it on. *)
NoneStuck == \A c \in connections :
    /\ socket[c] = "open"
    /\ \/ reading[c] # "none" \/ writing[c] # "none" \/ task[c] \in {"parsed", "handled", "timed"}
       \/ accepted = c /\ accept = "inserted"

(* Whenever the signal falls, at most one connection outlives the shutdown:
   the one that was being accepted; do_await_stop and do_accept. *)
OneOutlives == signal = "done" => \A c, d \in connections : c = d

(* With both timeouts set, no client can keep a connection for ever: it
   leaves the set, unless the io_service itself is stopped. *)
EveryConnectionEnds == \A c \in Conns : c \in connections ~> (c \notin connections \/ stopped)

(* With both timeouts set, run() returns after a signal: the io_service runs
   out of work, whatever the clients do and wherever the signal fell. *)
OutOfWork ==
    /\ signal = "done" /\ accept = "over"
    /\ \A c \in Conns :
          /\ reading[c] = "none" /\ writing[c] = "none" /\ task[c] = "none"
          /\ stopping[c] = {}
          /\ readTimer[c] \notin {"armed", "queued"} /\ writeTimer[c] \notin {"armed", "queued"}

ShutdownEnds == signal = "done" ~> (OutOfWork \/ stopped)

(* "Stops the server from listening for new connections and closes all open
   connections": once the signal's handler and the accept loop are both
   over, the manager holds no connection. *)
ShutdownClosesAll == signal = "done" /\ accept = "over" => connections = {}
=============================================================================
