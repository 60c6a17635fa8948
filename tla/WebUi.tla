-------------------------------- MODULE WebUi --------------------------------
(***************************************************************************)
(* A page and the firmware it talks to, over connections that may break.   *)
(***************************************************************************)
EXTENDS WebServer, WebClient

CONSTANT Types    \* the requests the page makes

vars == <<linkVars, serverVars, clientVars>>

Init == LinkInit /\ ServerStart /\ ClientInit

ServerStep == ServerNext /\ UNCHANGED clientVars

ClientStep ==
  /\ \/ \E c \in Conns : OnOpen(c) \/ Message(c) \/ OnClose(c)
     \/ PingTick \/ Reconnect
     \/ \E r \in Requests, type \in Types : SendWsRequest(r, type)
     \/ SendWithoutSocket
  /\ UNCHANGED serverVars

Next == ServerStep \/ ClientStep

Spec == Init /\ [][Next]_vars

(* The tasks of the firmware run, the browser handles its events and       *)
(* timers, and TCP gives up a broken connection that the server sends      *)
(* broadcasts to, or has failed to send one to.                             *)
OfServer(A) == A /\ UNCHANGED clientVars
OfClient(A) == A /\ UNCHANGED serverVars

Fairness ==
  /\ WF_vars(OfServer(Worker))
  /\ \A t \in Streams : WF_vars(OfServer(Stream(t) \/ StreamQueues(t)))
  /\ WF_vars(OfServer(ReconfigWifi \/ Reboot))
  /\ WF_vars(OfClient(PingTick)) /\ WF_vars(OfClient(Reconnect))
  /\ \A c \in Conns :
       /\ WF_vars(OfServer(Accept(c) \/ Serve(c) \/ CloseFrame(c) \/ RecvError(c)))
       /\ WF_vars(OfClient(OnOpen(c) \/ Message(c)))
       /\ WF_vars(OfClient((ready[c] # "open" \/ ~broken[c]) /\ OnClose(c)))

FairSpec == Spec /\ Fairness

-----------------------------------------------------------------------------
TypeOK == LinkTypeOK /\ ServerTypeOK /\ ClientTypeOK

(* Types; and the table of clients never names a descriptor that is not a session's,  *)
(* nor one session twice, although descriptors are used again: a broadcast *)
(* goes to each client once, and to nobody else (http_ws.c:44-68, 615).    *)
LiveSlots ==
  TypeOK /\ \A i \in Slots : s_ws_fds[i] # NoFd =>
    /\ \E c \in Conns : fd[c] = s_ws_fds[i]
    /\ \A j \in Slots \ {i} : s_ws_fds[j] # s_ws_fds[i]

(* Every promise sendWsRequest returned is settled, although it has no     *)
(* time-out of its own: by its response, or because a connection closed,    *)
(* if need be by the ping loop (ws.ts:47-64, 73-82).                        *)
Settles == \A r \in Requests : outcome[r] = Waiting ~> outcome[r] # Waiting

(* Whatever breaks or restarts, the page gets (back) to a socket that is    *)
(* open and connected: one the network lost is given up by the ping loop,    *)
(* and every event that ends a socket leaves a timer for the next           *)
(* (ws.ts:31-37, 47-64, 73-104).                                            *)
Reconnects ==
  []<>(socket # NoConn /\ ready[socket] = "open" /\ ~broken[socket])

(* A message that queued no worker is sent with the one after it: two never *)
(* wait in the broadcast buffer without a worker, queued or about to be,     *)
(* though a worker may empty the buffer before the next is queued           *)
(* (http_ws.c:605-616).                                                      *)
SentWithTheNext == Len(buffer) > 1 => works > 0 \/ queueing # {}
==============================================================================
