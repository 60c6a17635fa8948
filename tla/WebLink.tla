------------------------------- MODULE WebLink -------------------------------
(***************************************************************************)
(* The WebSocket connections between the page (src/web/src/lib/ws.ts) and  *)
(* the firmware (src/main/http_ws.c), and the services both sides rest on: *)
(* the browser's sockets, TCP, and the sessions of esp_http_server.  A     *)
(* connection keeps its messages in order until it breaks; a break loses   *)
(* what is under way and neither side is told.                             *)
(***************************************************************************)
EXTENDS Integers, Sequences, FiniteSets

CONSTANTS
  Conns,          \* connections there can be at a time
  MaxRequests     \* requests the page makes in a run (a bound)

ASSUME WebLinkAssumption ==
  /\ Conns \subseteq Nat \ {0} /\ IsFiniteSet(Conns)
  /\ MaxRequests \in Nat

VARIABLES
  ready,          \* readyState of the page's sockets; "none" before and after
  up,             \* what the page has sent and the server not yet read
  down,           \* what the server has sent and the page not yet seen
  fd,             \* the server's descriptor of the session, -1 if it has none
  broken          \* whether the network has lost the connection

linkVars == <<ready, up, down, fd, broken>>

Requests == 1..MaxRequests
NoFd == -1

(* A message: requests and responses carry the page's id; "of" tells which *)
(* request it is (or answers) and is there for the properties only.        *)
Msg(type, id, of) == [type |-> type, id |-> id, of |-> of]
Plain(type) == Msg(type, 0, 0)

(* The page sends: the server gets it unless the connection or the session *)
(* is gone.                                                                 *)
SentUp(c, m) ==
  IF broken[c] \/ (fd[c] = NoFd /\ up[c] = <<>>) THEN up
  ELSE [up EXCEPT ![c] = Append(@, m)]

(* The server sends: the browser drops what comes for a socket it closes. *)
SentDown(c, ms) ==
  IF broken[c] \/ ready[c] \in {"none", "closing"} THEN down[c] ELSE down[c] \o ms

(* The network loses the connections lost: what was under way is gone. *)
Broken(lost) ==
  /\ broken' = [c \in Conns |-> broken[c] \/ c \in lost]
  /\ up' = [c \in Conns |-> IF c \in lost THEN <<>> ELSE up[c]]
  /\ down' = [c \in Conns |-> IF c \in lost THEN <<>> ELSE down[c]]

(* A connection of which neither side holds anything. *)
Unused(c) == ready[c] = "none" /\ fd[c] = NoFd /\ up[c] = <<>>
InService == {c \in Conns : ~Unused(c)}

LinkInit ==
  /\ ready = [c \in Conns |-> "none"]
  /\ up = [c \in Conns |-> <<>>]
  /\ down = [c \in Conns |-> <<>>]
  /\ fd = [c \in Conns |-> NoFd]
  /\ broken = [c \in Conns |-> FALSE]

LinkTypeOK ==
  /\ ready \in [Conns -> {"none", "connecting", "open", "closing"}]
  /\ fd \in [Conns -> {NoFd} \cup Nat]
  /\ broken \in [Conns -> BOOLEAN]
  /\ \A c, d \in Conns : c # d /\ fd[c] # NoFd => fd[c] # fd[d]
==============================================================================
