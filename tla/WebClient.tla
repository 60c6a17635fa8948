------------------------------ MODULE WebClient ------------------------------
(***************************************************************************)
(* The page's side of the web interface: ws.ts.  JavaScript runs one event *)
(* at a time: each action is a browser event (open, message, close), a     *)
(* timer, or a call of the page.  "socket" is the module's one variable    *)
(* for the connection in use; an older connection that is still closing    *)
(* has its handlers, which act on the same module variables.  Messages for *)
(* the page's stores are left out; once a connection is closing the browser *)
(* drops what still arrives.                                                *)
(***************************************************************************)
EXTENDS WebLink

CONSTANTS
  PongTicks       \* ticks of the ping loop without a pong it forgives

ASSUME WebClientAssumption == PongTicks \in Nat

VARIABLES
  socket,           \* the connection in use, or NoConn
  pending,          \* request ids waiting, with the request each stands for
  nextRequestId,
  reconnectTimer,   \* whether it runs
  pingTimer,        \* whether it runs
  quiet,            \* ticks since lastPongAt
  outcome           \* what became of each request's promise

clientVars == <<socket, pending, nextRequestId,
                reconnectTimer, pingTimer, quiet, outcome>>

NoConn == 0

(* The promise of a request: not made, waiting, rejected, or resolved with *)
(* the response to request k.                                              *)
Unmade == -2
Waiting == -1
Rejected == 0

InUse == socket # NoConn /\ ready[socket] \in {"open", "connecting"}

-----------------------------------------------------------------------------
(* getWebSocket: the socket in use, or a new one. *)
GetWebSocket ==
  IF InUse THEN UNCHANGED <<linkVars, socket>>
  ELSE \E c \in Conns :
         /\ Unused(c)
         /\ socket' = c
         /\ ready' = [ready EXCEPT ![c] = "connecting"]
         /\ up' = [up EXCEPT ![c] = <<Plain("upgrade")>>]
         /\ broken' = [broken EXCEPT ![c] = FALSE]
         /\ UNCHANGED <<down, fd>>

(* socket.close(): the browser starts to close, its event comes later; it  *)
(* drops what is left of the messages.                                      *)
Closing(c, rest) ==
  /\ ready' = [ready EXCEPT ![c] = "closing"]
  /\ down' = [rest EXCEPT ![c] = <<>>]
  /\ up' = SentUp(c, Plain("close"))

-----------------------------------------------------------------------------
(* Events of a connection. *)

Next_(c) == Head(down[c])
Arrives(c, type) == down[c] # <<>> /\ Next_(c).type = type
Taken(c) == down' = [down EXCEPT ![c] = Tail(@)]

(* "open": startPingLoop begins a new interval. *)
OnOpen(c) ==
  /\ ready[c] = "connecting" /\ Arrives(c, "open") /\ Taken(c)
  /\ ready' = [ready EXCEPT ![c] = "open"]
  /\ quiet' = 0
  /\ pingTimer' = TRUE
  /\ UNCHANGED <<up, fd, broken, socket, pending, nextRequestId,
                 reconnectTimer, outcome>>

(* handleMessage: a pong *)
OnPong(c) ==
  /\ ready[c] = "open" /\ Arrives(c, "pong") /\ Taken(c)
  /\ quiet' = 0
  /\ UNCHANGED <<up, fd, broken, socket, ready, pending, nextRequestId,
                 reconnectTimer, pingTimer,
                 outcome>>

(* handleMessage: a response settles the promise pending under its id. *)
OnResponse(c) ==
  /\ ready[c] = "open" /\ Arrives(c, "response") /\ Taken(c)
  /\ LET id == Next_(c).id IN
     IF id \in DOMAIN pending
     THEN /\ outcome' = [outcome EXCEPT ![pending[id]] = Next_(c).of]
          /\ pending' = [i \in DOMAIN pending \ {id} |-> pending[i]]
     ELSE UNCHANGED <<outcome, pending>>
  /\ UNCHANGED <<up, fd, broken, socket, ready, nextRequestId,
                 reconnectTimer, pingTimer, quiet>>

(* handleRestartingMessage: close the socket in use, whichever connection  *)
(* brought the message, or else make sure of another attempt.              *)
OnRestarting(c) ==
  /\ ready[c] = "open" /\ Arrives(c, "restarting")
  /\ IF InUse
     THEN Closing(socket, [down EXCEPT ![c] = Tail(@)]) /\ UNCHANGED reconnectTimer
     ELSE Taken(c) /\ reconnectTimer' = TRUE /\ UNCHANGED <<ready, up>>
  /\ UNCHANGED <<fd, broken, socket, pending, nextRequestId,
                 pingTimer, quiet, outcome>>

RejectNone(ps) == pending' = <<>> /\ UNCHANGED outcome

RejectAll(ps) ==
  /\ outcome' = [r \in Requests |->
                   IF \E i \in DOMAIN ps : ps[i] = r THEN Rejected ELSE outcome[r]]
  /\ pending' = <<>>

(* "close": the connection is over for the browser, because the page or    *)
(* the server closed it, or the network lost it.  handleSocketClosed acts   *)
(* on the socket in use, which need not be the one that closed.             *)
Over(c) == \/ ready[c] = "closing"
           \/ broken[c]
           \/ ready[c] = "open" /\ fd[c] = NoFd /\ down[c] = <<>>

OnClose(c) ==
  /\ ready[c] # "none" /\ Over(c)
  /\ ready' = [ready EXCEPT ![c] = "none"]
  /\ down' = [down EXCEPT ![c] = <<>>]
  /\ broken' = [broken EXCEPT ![c] = @ /\ fd[c] # NoFd]
  /\ pingTimer' = FALSE
  /\ quiet' = 0
  /\ socket' = NoConn
  /\ RejectAll(pending)
  /\ reconnectTimer' = TRUE
  /\ UNCHANGED <<up, fd, nextRequestId>>

-----------------------------------------------------------------------------
(* Timers. *)

(* The ping loop: a tick finds the socket open and asks, or gives it up    *)
(* once no pong has come for PONG_TIMEOUT_MS; the pong may have come well   *)
(* after its tick, so one tick more is possible.                            *)
PingTickAsksOnly ==
  /\ pingTimer
  /\ socket # NoConn /\ ready[socket] = "open"
  /\ up' = SentUp(socket, Plain("ping"))
  /\ UNCHANGED <<ready, down, fd, broken, clientVars>>

PingTick ==
  /\ pingTimer
  /\ socket # NoConn /\ ready[socket] = "open"
  /\ \/ /\ quiet >= PongTicks
        /\ Closing(socket, down)
        /\ UNCHANGED quiet
     \/ /\ quiet <= PongTicks
        /\ quiet' = quiet + 1
        /\ up' = SentUp(socket, Plain("ping"))
        /\ UNCHANGED <<ready, down>>
  /\ UNCHANGED <<fd, broken, socket, pending, nextRequestId,
                 reconnectTimer, pingTimer, outcome>>

(* The timer of scheduleReconnect. *)
Reconnect ==
  /\ reconnectTimer
  /\ reconnectTimer' = FALSE
  /\ GetWebSocket
  /\ UNCHANGED <<pending, nextRequestId, pingTimer, quiet,
                 outcome>>

-----------------------------------------------------------------------------
(* The page. *)

(* sendWsRequest with an open socket. *)
RequestId == nextRequestId
SendWsRequest(r, type) ==
  /\ outcome[r] = Unmade /\ \A q \in 1..(r - 1) : outcome[q] # Unmade
  /\ InUse /\ ready[socket] = "open"
  /\ outcome' = [outcome EXCEPT ![r] = Waiting]
  /\ pending' = [i \in DOMAIN pending \cup {RequestId} |->
                   IF i = RequestId THEN r ELSE pending[i]]
  /\ nextRequestId' = nextRequestId + 1
  /\ up' = SentUp(socket, Msg(type, RequestId, r))
  /\ UNCHANGED <<ready, down, fd, broken, socket, reconnectTimer, pingTimer, quiet>>

(* sendWsRequest without one: it rejects at once, having made a new socket *)
(* if there was none in use.                                                *)
SendWithoutSocket ==
  /\ ~InUse
  /\ GetWebSocket
  /\ UNCHANGED <<pending, nextRequestId, reconnectTimer, pingTimer, quiet, outcome>>

-----------------------------------------------------------------------------
Message(c) == OnPong(c) \/ OnResponse(c) \/ OnRestarting(c)

ClientInit ==
  /\ socket = NoConn
  /\ pending = <<>>
  /\ nextRequestId = 1
  /\ reconnectTimer = TRUE        \* App's own getWebSocket
  /\ pingTimer = FALSE
  /\ quiet = 0
  /\ outcome = [r \in Requests |-> Unmade]

ClientTypeOK ==
  /\ socket \in Conns \cup {NoConn}
  /\ nextRequestId \in 1..(MaxRequests + 1)
  /\ DOMAIN pending \subseteq 1..(nextRequestId - 1)
  /\ reconnectTimer \in BOOLEAN /\ pingTimer \in BOOLEAN
  /\ quiet \in 0..(PongTicks + 1)
  /\ outcome \in [Requests -> {Unmade, Waiting, Rejected} \cup Requests]
==============================================================================
