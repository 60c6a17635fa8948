------------------------------ MODULE WebServer ------------------------------
(***************************************************************************)
(* The firmware's side of the web interface: http_ws.c with the close hook *)
(* of http.c, the log task of logging.c and the statistics of main.c.      *)
(*                                                                         *)
(* One task, esp_http_server's, accepts connections, runs the handlers and *)
(* the work queued for it; the statistics and the log task only put        *)
(* messages into the broadcast buffer.  A message put into the buffer is   *)
(* sent by _async_send_worker, which the same call queues, or not: the     *)
(* flag is_empty is true when the buffer was NOT empty (http_ws.c:606).    *)
(* Between the critical section and the queueing of the work the other     *)
(* tasks go on, and a worker queued before may run.  In a handler the two  *)
(* are one step: the worker is run by the same task, so none can come      *)
(* between, and a message that does is as one just after.  So is one that  *)
(* arrives during a run of the worker, which is one step.                  *)
(***************************************************************************)
EXTENDS WebLink

CONSTANTS
  MaxClients,     \* MAX_WS_CLIENTS
  BufferLen,      \* messages the broadcast buffer holds
  WorkLen,        \* work items esp_http_server's control socket holds
  Streams         \* the tasks that only broadcast: statistics and log

ASSUME WebServerAssumption ==
  MaxClients \in Nat \ {0} /\ BufferLen \in Nat \ {0} /\ WorkLen \in Nat \ {0}

VARIABLES
  s_ws_fds,       \* the descriptors broadcasts go to, by slot
  buffer,         \* _broadcast_messages
  works,          \* calls of _async_send_worker queued
  queueing,       \* the tasks about to queue one, outside the critical section
  timer           \* whether the timer of an announced restart runs

serverVars == <<s_ws_fds, buffer, works, queueing, timer>>

Slots == 1..MaxClients
Least(S) == CHOOSE x \in S : \A y \in S : x <= y

-----------------------------------------------------------------------------
(* The table of clients. *)

SlotsOf(f, table) == {i \in Slots : table[i] = f}

(* ws_client_add: the first free slot; with none free the client stays out. *)
Added(table, f) ==
  IF SlotsOf(NoFd, table) = {} THEN table
  ELSE [table EXCEPT ![Least(SlotsOf(NoFd, table))] = f]

(* ws_client_remove: the first slot holding the descriptor. *)
Removed(table, f) ==
  IF SlotsOf(f, table) = {} THEN table
  ELSE [table EXCEPT ![Least(SlotsOf(f, table))] = NoFd]

RemovedAll(table, S) == [i \in Slots |-> IF table[i] \in S THEN NoFd ELSE table[i]]

-----------------------------------------------------------------------------
(* http_ws_broadcast_json *)

(* The critical section: the message is put into the buffer if it fits. *)
Put(m) == buffer' = IF Len(buffer) < BufferLen THEN Append(buffer, m) ELSE buffer

\* The code's is_empty, and the message was put.
WorkNeeded == buffer # <<>> /\ Len(buffer) < BufferLen

QueueWork == works' = IF works < WorkLen THEN works + 1 ELSE works

(* A handler broadcasts. *)
Broadcast(m) ==
  /\ Put(m)
  /\ IF WorkNeeded THEN QueueWork ELSE UNCHANGED works

-----------------------------------------------------------------------------
(* The task of esp_http_server. *)

(* A session ends: esp_http_server calls http_ws_close_handler, which takes *)
(* the client out of the table before it closes the socket.                 *)
EndSessionKeepsSlot(c) ==
  /\ fd' = [fd EXCEPT ![c] = NoFd]
  /\ up' = [up EXCEPT ![c] = <<>>]
  /\ broken' = [broken EXCEPT ![c] = @ /\ ready[c] # "none"]
  /\ UNCHANGED s_ws_fds

EndSession(c) ==
  /\ s_ws_fds' = Removed(s_ws_fds, fd[c])
  /\ fd' = [fd EXCEPT ![c] = NoFd]
  /\ up' = [up EXCEPT ![c] = <<>>]
  /\ broken' = [broken EXCEPT ![c] = @ /\ ready[c] # "none"]

(* The upgrade request: http_ws_handler with HTTP_GET. *)
Accept(c) ==
  /\ fd[c] = NoFd /\ up[c] # <<>> /\ Head(up[c]).type = "upgrade"
  /\ LET f == Least((0..Cardinality(Conns)) \ {fd[d] : d \in Conns})
     IN  /\ fd' = [fd EXCEPT ![c] = f]
         /\ s_ws_fds' = Added(s_ws_fds, f)
  /\ up' = [up EXCEPT ![c] = Tail(@)]
  /\ down' = [down EXCEPT ![c] = SentDown(c, <<Plain("open")>>)]
  /\ UNCHANGED <<ready, broken, buffer, works, queueing, timer>>

(* The answer _ws_dispatch's handlers give: a pong or a response. *)
Answer(m) == IF m.type = "ping" THEN Plain("pong") ELSE Msg("response", m.id, m.of)

(* A request: the handlers of ws_routes.  A restart is announced to every   *)
(* page and its timer started once the response is sent.  A response that   *)
(* cannot be sent, to a broken connection or a page that does not read for   *)
(* a while, fails the handler, which ends the session.                      *)
Serve(c) ==
  /\ fd[c] # NoFd /\ up[c] # <<>> /\ Head(up[c]).type \notin {"upgrade", "close"}
  /\ LET m == Head(up[c]) IN
     \/ /\ ~broken[c]
        /\ down' = [down EXCEPT ![c] = SentDown(c, <<Answer(m)>>)]
        /\ IF m.type = "restart"
           THEN /\ Broadcast(Plain("restarting"))
                /\ timer' = TRUE
           ELSE UNCHANGED <<buffer, works, timer>>
        /\ up' = [up EXCEPT ![c] = Tail(@)]
        /\ UNCHANGED <<s_ws_fds, fd, broken>>
     \/ /\ EndSession(c)
        /\ UNCHANGED <<down, buffer, works, timer>>
  /\ UNCHANGED <<ready, queueing>>

(* A close frame, or the end of the TCP stream. *)
CloseFrame(c) ==
  /\ fd[c] # NoFd /\ up[c] # <<>> /\ Head(up[c]).type = "close"
  /\ EndSession(c)
  /\ UNCHANGED <<ready, down, buffer, works, queueing, timer>>

(* Receiving fails: TCP has given the broken connection up. *)
RecvError(c) ==
  /\ fd[c] # NoFd /\ broken[c]
  /\ EndSession(c)
  /\ UNCHANGED <<ready, down, buffer, works, queueing, timer>>

(* _async_send_worker: every message in the buffer to every client in the  *)
(* table.  A client that cannot be sent to is dropped from the table, its   *)
(* session goes on; a broken connection may or may not be noticed here.  Of *)
(* the messages the page only acts on "restarting".                         *)
Restarts == Cardinality({i \in DOMAIN buffer : buffer[i].type = "restarting"})

WorkerUnlessAlone ==
  /\ works > 0
  /\ works' = works - 1
  /\ buffer' = IF \A i \in Slots : s_ws_fds[i] = NoFd THEN buffer ELSE <<>>
  /\ UNCHANGED <<linkVars, s_ws_fds, queueing, timer>>

Worker ==
  /\ works > 0
  /\ works' = works - 1
  /\ buffer' = <<>>
  /\ LET clients == {c \in Conns : fd[c] # NoFd /\ SlotsOf(fd[c], s_ws_fds) # {}}
         news    == [n \in 1..Restarts |-> Plain("restarting")]
     IN  \E failed \in SUBSET {c \in clients : broken[c] /\ buffer # <<>>} :
           /\ down' = [c \in Conns |-> IF c \in clients \ failed
                                       THEN SentDown(c, news) ELSE down[c]]
           /\ s_ws_fds' = RemovedAll(s_ws_fds, {fd[c] : c \in failed})
  /\ UNCHANGED <<ready, up, fd, broken, queueing, timer>>

-----------------------------------------------------------------------------
(* The other tasks. *)

(* app_main's statistics, every second, and _log_to_ws's lines of the log. *)
Stream(t) ==
  /\ t \notin queueing
  /\ Put(Plain("stream"))
  /\ queueing' = IF WorkNeeded THEN queueing \cup {t} ELSE queueing
  /\ UNCHANGED <<linkVars, s_ws_fds, works, timer>>

StreamQueues(t) ==
  /\ t \in queueing
  /\ QueueWork
  /\ queueing' = queueing \ {t}
  /\ UNCHANGED <<linkVars, s_ws_fds, buffer, timer>>

(* reconfig_wifi: the network loses connections (those of a page on the     *)
(* access point may live on), the server stays as it is.                    *)
ReconfigWifi ==
  /\ timer
  /\ timer' = FALSE
  /\ \E lost \in SUBSET InService : Broken(lost)
  /\ UNCHANGED <<ready, fd, s_ws_fds, buffer, works, queueing>>

ServerStart ==
  /\ s_ws_fds = [i \in Slots |-> NoFd]
  /\ buffer = <<>> /\ works = 0 /\ queueing = {} /\ timer = FALSE

(* _reboot_callback, factory_reset_cb: everything starts afresh. *)
Reboot ==
  /\ timer
  /\ s_ws_fds' = [i \in Slots |-> NoFd]
  /\ buffer' = <<>> /\ works' = 0 /\ queueing' = {} /\ timer' = FALSE
  /\ fd' = [c \in Conns |-> NoFd]
  /\ Broken(InService)
  /\ UNCHANGED ready

HttpTask == \/ \E c \in Conns : Accept(c) \/ Serve(c) \/ CloseFrame(c)
            \/ Worker

ServerNext == HttpTask \/ ReconfigWifi \/ Reboot
              \/ \E t \in Streams : Stream(t) \/ StreamQueues(t)
              \/ \E c \in Conns : RecvError(c)

ServerTypeOK ==
  /\ s_ws_fds \in [Slots -> {NoFd} \cup Nat]
  /\ Len(buffer) <= BufferLen
  /\ works \in 0..WorkLen
  /\ queueing \subseteq Streams
  /\ timer \in BOOLEAN
==============================================================================
