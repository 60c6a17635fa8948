---------------------------- MODULE WebUiProofs ----------------------------
(***************************************************************************)
(* Theorems about module WebUi, for every number of connections, clients,  *)
(* messages and requests.                                                  *)
(***************************************************************************)
EXTENDS WebUi, FiniteSetTheorems, Integers, SequenceTheorems, WellFoundedInduction, TLAPS

(* Queues: their types, their elements, and where those are. *)
LEMMA TailType ==
    ASSUME NEW T, NEW q \in Seq(T), q # <<>>
    PROVE  /\ Head(q) \in T
           /\ Tail(q) \in Seq(T)
           /\ Len(Tail(q)) = Len(q) - 1
BY HeadTailProperties

(* A set of natural numbers that has an element has a least one. *)
Below == {p \in Nat \X Nat : p[1] < p[2]}

LEMMA BelowWellFounded == IsWellFoundedOn(Below, Nat)
BY NatLessThanWellFounded, Zenon DEF OpToRel, Below

LEMMA LeastExists ==
    ASSUME NEW S, S \subseteq Nat, S # {}
    PROVE  \E x \in S : \A y \in S : x <= y
<1>1. PICK x \in S : \A y \in S : ~ (<<y, x>> \in Below)
  BY WFMin, BelowWellFounded, Zenon
<1>2. \A a, b \in Nat : a < b => <<a, b>> \in Below
  BY DEF Below
<1>3. \A y \in S : ~ (y < x)
  BY <1>1, <1>2
<1> QED
  BY <1>3

(* The messages of each direction, and of the broadcast buffer. *)

Known == {"upgrade", "close", "ping"}
UpMsg ==
  {m \in [type : Known \cup Types, id : Nat, of : Requests \cup {0}] :
     m.type \in Known \/ m.of \in Requests}
DownMsg ==
  {m \in [type : {"open", "pong", "restarting", "response"}, id : Nat,
          of : Requests \cup {0}] :
     m.type = "response" => m.of \in Requests}
NewsMsg == [type : {"restarting", "stream"}, id : Nat, of : Requests \cup {0}]

MessagesOK ==
  /\ up \in [Conns -> Seq(UpMsg)]
  /\ down \in [Conns -> Seq(DownMsg)]
  /\ buffer \in Seq(NewsMsg)

(* Requests are made in their order, one id each. *)
RequestsOK ==
  /\ \A i \in DOMAIN pending : pending[i] \in 1..(nextRequestId - 1)
  /\ \A r \in Requests : outcome[r] = Unmade <=> r >= nextRequestId

LEMMA MessageTypes ==
  /\ \A t \in Known : Plain(t) \in UpMsg
  /\ \A t \in Types, i \in Nat, r \in Requests : Msg(t, i, r) \in UpMsg
  /\ \A t \in {"open", "pong", "restarting"} : Plain(t) \in DownMsg
  /\ \A t \in {"restarting", "stream"} : Plain(t) \in NewsMsg
  /\ \A m \in UpMsg : m.type \notin {"upgrade", "close"} => Answer(m) \in DownMsg
  /\ \A m \in DownMsg : m.type = "response" => m.of \in Requests
BY DEF Known, UpMsg, DownMsg, NewsMsg, Msg, Plain, Answer

(* What is sent arrives at the end of the queue, or not at all. *)
LEMMA SentTypes ==
  ASSUME MessagesOK, NEW c \in Conns
  PROVE  /\ \A m \in UpMsg : SentUp(c, m) \in [Conns -> Seq(UpMsg)]
         /\ \A ms \in Seq(DownMsg) : SentDown(c, ms) \in Seq(DownMsg)
         /\ \A m \in DownMsg : SentDown(c, <<m>>) \in Seq(DownMsg)
<1>1. \A m \in UpMsg : Append(up[c], m) \in Seq(UpMsg)
  BY AppendProperties DEF MessagesOK
<1>2. \A ms \in Seq(DownMsg) : down[c] \o ms \in Seq(DownMsg)
  BY ConcatProperties DEF MessagesOK
<1>3. \A m \in DownMsg : <<m>> \in Seq(DownMsg)
  OBVIOUS
<1> QED
  BY <1>1, <1>2, <1>3 DEF MessagesOK, SentUp, SentDown

LEMMA RestOfQueue ==
  ASSUME MessagesOK, NEW c \in Conns
  PROVE  /\ up[c] # <<>> => Head(up[c]) \in UpMsg /\ Tail(up[c]) \in Seq(UpMsg)
         /\ down[c] # <<>> => Head(down[c]) \in DownMsg /\ Tail(down[c]) \in Seq(DownMsg)
BY TailType DEF MessagesOK

-----------------------------------------------------------------------------
(* The table of clients. *)

Distinct(table) ==
  \A i, j \in Slots : table[i] # NoFd /\ i # j => table[i] # table[j]

LEMMA LeastOf ==
  ASSUME NEW S, S \subseteq Nat, S # {} PROVE Least(S) \in S
BY LeastExists, Zenon DEF Least

LEMMA FirstSlot ==
  ASSUME NEW f, NEW table, SlotsOf(f, table) # {}
  PROVE  LET i == Least(SlotsOf(f, table)) IN i \in Slots /\ table[i] = f
<1>1. SlotsOf(f, table) \subseteq Nat
  BY WebServerAssumption DEF SlotsOf, Slots
<1>2. Least(SlotsOf(f, table)) \in SlotsOf(f, table)
  BY <1>1, LeastOf
<1> QED
  BY <1>2 DEF SlotsOf

(* With more descriptors than connections, one is free. *)
LEMMA FreshDescriptor ==
  ASSUME fd \in [Conns -> {NoFd} \cup Nat]
  PROVE  LET f == Least((0..Cardinality(Conns)) \ {fd[d] : d \in Conns})
         IN f \in Nat /\ \A d \in Conns : fd[d] # f
<1> DEFINE Used == {fd[d] : d \in Conns}
           All == 0..Cardinality(Conns)
<1>1. IsFiniteSet(Conns) /\ Cardinality(Conns) \in Nat
  BY WebLinkAssumption, FS_CardinalityType
<1>2. IsFiniteSet(Used) /\ Cardinality(Used) <= Cardinality(Conns)
  <2>1. fd \in Surjection(Conns, Used)
    BY DEF Surjection
  <2> QED
    BY <1>1, <2>1, FS_Surjection
<1>3. IsFiniteSet(All) /\ Cardinality(All) = Cardinality(Conns) + 1
  BY <1>1, FS_Interval
<1>4. All \ Used # {}
  <2>1. SUFFICES ASSUME All \subseteq Used PROVE FALSE
    OBVIOUS
  <2>2. Cardinality(All) <= Cardinality(Used)
    BY <2>1, <1>2, FS_Subset
  <2>3. Cardinality(Used) \in Nat
    BY <1>2, FS_CardinalityType
  <2> QED
    BY <1>1, <1>2, <1>3, <2>2, <2>3
<1>5. Least(All \ Used) \in All \ Used
  BY <1>1, <1>4, LeastOf
<1> QED
  BY <1>1, <1>5

(* The table after a change still names only sessions, and none twice. *)
LEMMA AddedTable ==
  ASSUME s_ws_fds \in [Slots -> {NoFd} \cup Nat], Distinct(s_ws_fds),
         NEW f \in Nat, \A i \in Slots : s_ws_fds[i] # f
  PROVE  LET table == Added(s_ws_fds, f)
         IN /\ table \in [Slots -> {NoFd} \cup Nat] /\ Distinct(table)
            /\ \A i \in Slots : table[i] # NoFd => table[i] = f \/ table[i] = s_ws_fds[i]
<1>1. CASE SlotsOf(NoFd, s_ws_fds) = {}
  BY <1>1 DEF Added
<1>2. CASE SlotsOf(NoFd, s_ws_fds) # {}
  <2>1. Least(SlotsOf(NoFd, s_ws_fds)) \in Slots
    BY <1>2, FirstSlot
  <2> QED
    BY <1>2, <2>1 DEF Added, Distinct, NoFd
<1> QED
  BY <1>1, <1>2

LEMMA RemovedTable ==
  ASSUME s_ws_fds \in [Slots -> {NoFd} \cup Nat], Distinct(s_ws_fds), NEW f \in Nat
  PROVE  LET table == Removed(s_ws_fds, f)
         IN /\ table \in [Slots -> {NoFd} \cup Nat] /\ Distinct(table)
            /\ \A i \in Slots : table[i] # NoFd => table[i] # f /\ table[i] = s_ws_fds[i]
<1>1. CASE SlotsOf(f, s_ws_fds) = {}
  BY <1>1 DEF Removed, SlotsOf
<1>2. CASE SlotsOf(f, s_ws_fds) # {}
  <2>1. LET i == Least(SlotsOf(f, s_ws_fds)) IN i \in Slots /\ s_ws_fds[i] = f
    BY <1>2, FirstSlot
  <2> QED
    BY <1>2, <2>1 DEF Removed, Distinct, NoFd
<1> QED
  BY <1>1, <1>2

-----------------------------------------------------------------------------
(* The steps, grouped by what they do to the table and the descriptors. *)

Table ==
  /\ s_ws_fds \in [Slots -> {NoFd} \cup Nat]
  /\ fd \in [Conns -> {NoFd} \cup Nat]
  /\ \A c, d \in Conns : c # d /\ fd[c] # NoFd => fd[c] # fd[d]
  /\ \A i \in Slots : s_ws_fds[i] # NoFd => \E c \in Conns : fd[c] = s_ws_fds[i]
  /\ Distinct(s_ws_fds)

LEMMA TableIs == LiveSlots <=> TypeOK /\ Table
BY DEF LiveSlots, TypeOK, LinkTypeOK, ServerTypeOK, Table, Distinct, Slots

LEMMA TableEndSession ==
  ASSUME Table, NEW c \in Conns, fd[c] # NoFd, EndSession(c) PROVE Table'
<1>1. fd[c] \in Nat
  BY DEF Table
<1>2. fd' = [fd EXCEPT ![c] = NoFd] /\ s_ws_fds' = Removed(s_ws_fds, fd[c])
  BY DEF EndSession
<1>3. /\ s_ws_fds' \in [Slots -> {NoFd} \cup Nat] /\ Distinct(s_ws_fds')
      /\ \A i \in Slots : s_ws_fds'[i] # NoFd =>
             s_ws_fds'[i] # fd[c] /\ s_ws_fds'[i] = s_ws_fds[i]
  BY <1>1, <1>2, RemovedTable DEF Table
<1>4. Distinct(s_ws_fds)'
  BY <1>3 DEF Distinct, Slots
<1> QED
  BY <1>2, <1>3, <1>4 DEF Table, Slots

LEMMA TableAccept ==
  ASSUME Table, NEW c \in Conns, Accept(c) PROVE Table'
<1> DEFINE f == Least((0..Cardinality(Conns)) \ {fd[d] : d \in Conns})
<1>1. f \in Nat /\ \A d \in Conns : fd[d] # f
  BY FreshDescriptor DEF Table
<1>2. fd' = [fd EXCEPT ![c] = f] /\ s_ws_fds' = Added(s_ws_fds, f) /\ fd[c] = NoFd
  BY DEF Accept
<1> HIDE DEF f
<1>3. \A i \in Slots : s_ws_fds[i] # f
  BY <1>1 DEF Table, NoFd
<1>4. /\ s_ws_fds' \in [Slots -> {NoFd} \cup Nat] /\ Distinct(s_ws_fds')
      /\ \A i \in Slots : s_ws_fds'[i] # NoFd =>
             s_ws_fds'[i] = f \/ s_ws_fds'[i] = s_ws_fds[i]
  BY <1>1, <1>2, <1>3, AddedTable DEF Table
<1>5. Distinct(s_ws_fds)'
  BY <1>4 DEF Distinct, Slots
<1> QED
  BY <1>1, <1>2, <1>4, <1>5 DEF Table, Slots, NoFd

LEMMA TableStep == Table /\ [Next]_vars => Table'
<1> SUFFICES ASSUME Table, [Next]_vars PROVE Table'
  OBVIOUS
<1>1. ASSUME NEW c \in Conns, Accept(c) PROVE Table'
  BY <1>1, TableAccept
<1>2. ASSUME NEW c \in Conns, fd[c] # NoFd, EndSession(c) PROVE Table'
  BY <1>2, TableEndSession
<1>3. CASE UNCHANGED <<fd, s_ws_fds>>
  BY <1>3 DEF Table, Distinct, Slots
<1>4. ASSUME NEW c \in Conns, Serve(c) PROVE Table'
  BY <1>2, <1>3, <1>4 DEF Serve
<1>5. ASSUME NEW c \in Conns, CloseFrame(c) \/ RecvError(c) PROVE Table'
  BY <1>2, <1>5 DEF CloseFrame, RecvError
<1>6. CASE Worker
  <2>1. PICK S : s_ws_fds' = RemovedAll(s_ws_fds, S)
    BY <1>6 DEF Worker
  <2> QED
    BY <1>6, <2>1 DEF Worker, RemovedAll, Table, Distinct, Slots
<1>7. CASE Reboot
  BY <1>7 DEF Reboot, Table, Distinct, Slots
<1>8. CASE ReconfigWifi \/ \E t \in Streams : Stream(t) \/ StreamQueues(t)
  BY <1>3, <1>8 DEF Stream, StreamQueues, ReconfigWifi, linkVars
<1>9. CASE ServerStep
  BY <1>1, <1>4, <1>5, <1>6, <1>7, <1>8, <1>9 DEF ServerStep, ServerNext, HttpTask
<1>10. CASE ClientStep
  <2>1. UNCHANGED s_ws_fds
    BY <1>10 DEF ClientStep, serverVars
  <2>2. UNCHANGED fd
    BY <1>10 DEF ClientStep, OnOpen, Message, OnPong, OnResponse, OnRestarting, OnClose,
                 PingTick, Reconnect, SendWsRequest, SendWithoutSocket, GetWebSocket, linkVars
  <2> QED
    BY <1>3, <2>1, <2>2
<1>11. CASE UNCHANGED vars
  BY <1>3, <1>11 DEF vars, linkVars, serverVars
<1> QED
  BY <1>9, <1>10, <1>11 DEF Next

-----------------------------------------------------------------------------
(* Types, and what the messages hold. *)

WebTypes == TypeOK /\ MessagesOK /\ RequestsOK

Queues ==
  /\ buffer \in Seq(NewsMsg) /\ Len(buffer) <= BufferLen
  /\ works \in 0..WorkLen
  /\ queueing \subseteq Streams
  /\ timer \in BOOLEAN

LEMMA BroadcastTypes ==
  ASSUME WebTypes, NEW m \in NewsMsg
  PROVE  /\ Put(m) => buffer' \in Seq(NewsMsg) /\ Len(buffer') <= BufferLen
         /\ QueueWork \/ UNCHANGED works => works' \in 0..WorkLen
<1>1. Append(buffer, m) \in Seq(NewsMsg) /\ Len(Append(buffer, m)) = Len(buffer) + 1
  BY AppendProperties DEF WebTypes, MessagesOK
<1>2. Len(buffer) \in Nat
  BY LenProperties DEF WebTypes, MessagesOK
<1>3. works \in 0..WorkLen /\ Len(buffer) <= BufferLen /\ buffer \in Seq(NewsMsg)
  BY DEF WebTypes, TypeOK, ServerTypeOK, MessagesOK
<1> QED
  BY <1>1, <1>2, <1>3, WebServerAssumption DEF Put, QueueWork

LEMMA TypesInit == Init => WebTypes
<1> SUFFICES ASSUME Init PROVE WebTypes
  OBVIOUS
<1> USE DEF Init, LinkInit, ServerStart, ClientInit, NoFd
<1>1. /\ <<>> \in Seq(UpMsg) /\ <<>> \in Seq(DownMsg)
      /\ <<>> \in Seq(NewsMsg) /\ Len(<<>>) = 0
  BY EmptySeq
<1>2. LinkTypeOK
  BY DEF LinkTypeOK
<1>3. ServerTypeOK
  <2>1. s_ws_fds \in [Slots -> {NoFd} \cup Nat] /\ timer \in BOOLEAN
    OBVIOUS
  <2>2. Len(buffer) <= BufferLen /\ works \in 0..WorkLen /\ queueing \subseteq Streams
    BY <1>1, WebServerAssumption
  <2> QED
    BY <2>1, <2>2 DEF ServerTypeOK
<1>4. ClientTypeOK
  <2>1. /\ socket \in Conns \cup {NoConn}
        /\ reconnectTimer \in BOOLEAN /\ pingTimer \in BOOLEAN
        /\ outcome \in [Requests -> {Unmade, Waiting, Rejected} \cup Requests]
    OBVIOUS
  <2>2. nextRequestId \in 1..(MaxRequests + 1) /\ quiet \in 0..(PongTicks + 1)
    BY WebLinkAssumption, WebClientAssumption
  <2>3. DOMAIN pending \subseteq 1..(nextRequestId - 1)
    OBVIOUS
  <2> QED
    BY <2>1, <2>2, <2>3 DEF ClientTypeOK
<1>5. MessagesOK
  BY <1>1 DEF MessagesOK
<1>6. RequestsOK
  BY WebLinkAssumption DEF RequestsOK, Requests, Unmade
<1> QED
  BY <1>2, <1>3, <1>4, <1>5, <1>6 DEF WebTypes, TypeOK

(* The firmware's steps leave the page alone, and its messages are of the  *)
(* types they should be.                                                    *)
LEMMA TypesServer == WebTypes /\ Table /\ ServerStep => WebTypes'
<1> SUFFICES ASSUME WebTypes, Table, ServerStep, Table' PROVE WebTypes'
  BY TableStep DEF Next
<1>1. ClientTypeOK' /\ RequestsOK'
  BY DEF ServerStep, clientVars, ClientTypeOK, RequestsOK, WebTypes, TypeOK
<1>2. UNCHANGED ready
  BY DEF ServerStep, ServerNext, HttpTask, Accept, Serve, CloseFrame, Worker, Stream, StreamQueues,
         linkVars, ReconfigWifi, Reboot, RecvError
<1>3. broken' \in [Conns -> BOOLEAN]
  BY DEF ServerStep, ServerNext, HttpTask, Accept, Serve, CloseFrame, Worker, Stream, StreamQueues,
         linkVars, ReconfigWifi, Reboot, RecvError, Broken, EndSession, WebTypes, TypeOK, LinkTypeOK
<1>4. LinkTypeOK'
  BY <1>2, <1>3 DEF LinkTypeOK, WebTypes, TypeOK, Table
<1>5. Queues'
  <2> USE DEF Queues
  <2>1. Queues
    BY DEF WebTypes, TypeOK, ServerTypeOK, MessagesOK
  <2>2. CASE UNCHANGED <<buffer, works, queueing>> /\ timer' \in {timer, FALSE}
    BY <2>1, <2>2
  <2>3. ASSUME NEW m \in NewsMsg, Broadcast(m), UNCHANGED queueing, timer' \in {timer, TRUE}
        PROVE  Queues'
    BY <2>1, <2>3, BroadcastTypes DEF Broadcast
  <2>4. ASSUME NEW c \in Conns, Serve(c) PROVE Queues'
    BY <2>2, <2>3, <2>4, MessageTypes DEF Serve
  <2>5. ASSUME NEW c \in Conns, Accept(c) \/ CloseFrame(c) \/ RecvError(c) PROVE Queues'
    BY <2>2, <2>5 DEF Accept, CloseFrame, RecvError
  <2>6. CASE Worker \/ Reboot
    <3>1. /\ buffer' = <<>> /\ works' \in {works - 1, 0} /\ timer' \in {timer, FALSE}
          /\ queueing' \in {queueing, {}}
      BY <2>6 DEF Worker, Reboot
    <3>2. works' \in 0..WorkLen
      BY <2>1, <2>6, WebServerAssumption DEF Worker, Reboot
    <3>3. buffer' \in Seq(NewsMsg) /\ Len(buffer') <= BufferLen
      BY <3>1, EmptySeq, WebServerAssumption
    <3>4. timer' \in BOOLEAN
      BY <2>1, <3>1
    <3>5. queueing' \subseteq Streams
      BY <2>1, <3>1
    <3> QED
      BY <3>2, <3>3, <3>4, <3>5
  <2>7. ASSUME NEW t \in Streams, Stream(t) \/ StreamQueues(t) PROVE Queues'
    BY <2>1, <2>7, BroadcastTypes, MessageTypes DEF Stream, StreamQueues
  <2>8. CASE ReconfigWifi
    BY <2>2, <2>8 DEF ReconfigWifi
  <2> QED
    BY <2>4, <2>5, <2>6, <2>7, <2>8 DEF ServerStep, ServerNext, HttpTask
<1>6. ServerTypeOK'
  BY <1>5 DEF ServerTypeOK, Table, Queues
<1>7. up' \in [Conns -> Seq(UpMsg)]
  <2>1. up \in [Conns -> Seq(UpMsg)] /\ <<>> \in Seq(UpMsg)
    BY EmptySeq DEF WebTypes, MessagesOK
  <2>2. \A c \in Conns : up[c] # <<>> => Tail(up[c]) \in Seq(UpMsg)
    BY RestOfQueue DEF WebTypes
  <2> QED
    BY <2>1, <2>2 DEF ServerStep, ServerNext, HttpTask, Accept, Serve, CloseFrame, Worker, Stream,
         StreamQueues, linkVars, ReconfigWifi, Reboot, RecvError, Broken, EndSession
<1>8. down' \in [Conns -> Seq(DownMsg)]
  <2>1. down \in [Conns -> Seq(DownMsg)] /\ <<>> \in Seq(DownMsg)
    BY EmptySeq DEF WebTypes, MessagesOK
  <2>2. \A c \in Conns, m \in DownMsg : SentDown(c, <<m>>) \in Seq(DownMsg)
    BY SentTypes DEF WebTypes
  <2>3. ASSUME NEW c \in Conns, Accept(c) PROVE down' \in [Conns -> Seq(DownMsg)]
    BY <2>1, <2>2, <2>3, MessageTypes DEF Accept
  <2>4. ASSUME NEW c \in Conns, Serve(c) PROVE down' \in [Conns -> Seq(DownMsg)]
    <3>1. up[c] # <<>> /\ Head(up[c]) \in UpMsg /\ Head(up[c]).type \notin {"upgrade", "close"}
      BY <2>4, RestOfQueue DEF Serve, WebTypes
    <3>2. Answer(Head(up[c])) \in DownMsg
      BY <3>1, MessageTypes
    <3> QED
      BY <2>1, <2>2, <2>4, <3>2 DEF Serve
  <2>5. CASE Worker
    <3>1. Restarts \in Nat
      <4>1. DOMAIN buffer = 1..Len(buffer) /\ Len(buffer) \in Nat
        BY LenProperties DEF WebTypes, MessagesOK
      <4>2. IsFiniteSet(DOMAIN buffer)
        BY <4>1, FS_Interval
      <4> QED
        BY <4>2, FS_Subset, FS_CardinalityType DEF Restarts
    <3> DEFINE news == [n \in 1..Restarts |-> Plain("restarting")]
    <3>2. news \in Seq(DownMsg)
      BY <3>1, MessageTypes
    <3>3. \A c \in Conns : SentDown(c, news) \in Seq(DownMsg)
      BY <3>2, SentTypes DEF WebTypes
    <3> HIDE DEF news
    <3> QED
      BY <2>1, <2>5, <3>3 DEF Worker, news
  <2>6. CASE ServerStep /\ ~Worker /\ ~\E c \in Conns : Accept(c) \/ Serve(c)
    BY <2>1, <2>6 DEF ServerStep, ServerNext, HttpTask, CloseFrame, Stream, StreamQueues, linkVars,
         ReconfigWifi, Reboot, RecvError, Broken
  <2> QED
    BY <2>3, <2>4, <2>5, <2>6
<1> QED
  BY <1>1, <1>4, <1>5, <1>6, <1>7, <1>8 DEF WebTypes, TypeOK, MessagesOK, Queues

(* The page's steps leave the firmware alone, but for what they send. *)
LEMMA TypesClient == WebTypes /\ ClientStep => WebTypes'
<1> SUFFICES ASSUME WebTypes, ClientStep PROVE WebTypes'
  OBVIOUS
<1>1. ServerTypeOK' /\ UNCHANGED <<fd, buffer>>
  BY DEF ClientStep, serverVars, ServerTypeOK, WebTypes, TypeOK, OnOpen, Message, OnPong,
         OnResponse, OnRestarting, OnClose, PingTick, Reconnect, SendWsRequest, SendWithoutSocket,
         GetWebSocket, linkVars
<1>2. /\ ready' \in [Conns -> {"none", "connecting", "open", "closing"}]
      /\ broken' \in [Conns -> BOOLEAN]
  BY DEF ClientStep, WebTypes, TypeOK, LinkTypeOK, OnOpen, Message, OnPong, OnResponse,
         OnRestarting, OnClose, PingTick, Reconnect, SendWsRequest, SendWithoutSocket,
         GetWebSocket, linkVars, Closing
<1>3. LinkTypeOK'
  BY <1>1, <1>2 DEF LinkTypeOK, WebTypes, TypeOK
<1>4. up' \in [Conns -> Seq(UpMsg)]
  <2>1. up \in [Conns -> Seq(UpMsg)]
    BY DEF WebTypes, MessagesOK
  <2>2. \A c \in Conns, m \in UpMsg : SentUp(c, m) \in [Conns -> Seq(UpMsg)]
    BY SentTypes DEF WebTypes
  <2>3. /\ \A c \in Conns : SentUp(c, Plain("ping")) \in [Conns -> Seq(UpMsg)]
        /\ \A c \in Conns : SentUp(c, Plain("close")) \in [Conns -> Seq(UpMsg)]
        /\ <<Plain("upgrade")>> \in Seq(UpMsg)
    BY <2>2, MessageTypes DEF Known
  <2>4. socket \in Conns \cup {NoConn} /\ nextRequestId \in Nat
    BY WebLinkAssumption DEF WebTypes, TypeOK, ClientTypeOK
  <2>5. ASSUME NEW r \in Requests, NEW type \in Types, SendWsRequest(r, type)
        PROVE  up' \in [Conns -> Seq(UpMsg)]
    BY <2>2, <2>4, <2>5, MessageTypes DEF SendWsRequest, InUse, RequestId
  <2> QED
    BY <2>1, <2>3, <2>4, <2>5 DEF ClientStep, OnOpen, Message, OnPong, OnResponse, OnRestarting,
       OnClose, PingTick, Reconnect, SendWithoutSocket, GetWebSocket, linkVars, Closing, InUse
<1>5. down' \in [Conns -> Seq(DownMsg)]
  <2>1. down \in [Conns -> Seq(DownMsg)] /\ <<>> \in Seq(DownMsg)
    BY EmptySeq DEF WebTypes, MessagesOK
  <2>2. \A c \in Conns : down[c] # <<>> => Tail(down[c]) \in Seq(DownMsg)
    BY RestOfQueue DEF WebTypes
  <2> QED
    BY <2>1, <2>2 DEF ClientStep, OnOpen, Message, OnPong, OnResponse, OnRestarting, OnClose,
       PingTick, Reconnect, SendWsRequest, SendWithoutSocket, GetWebSocket, linkVars, Closing,
       InUse, Arrives, Taken
<1>6. ClientTypeOK' /\ RequestsOK'
  <2>1. ClientTypeOK /\ RequestsOK /\ socket \in Conns \cup {NoConn}
    BY DEF WebTypes, TypeOK, ClientTypeOK
  <2>2. ASSUME NEW c \in Conns, OnOpen(c) PROVE ClientTypeOK' /\ RequestsOK'
    BY <2>1, <2>2, WebClientAssumption DEF OnOpen, ClientTypeOK, RequestsOK
  <2>3. ASSUME NEW c \in Conns, OnPong(c) PROVE ClientTypeOK' /\ RequestsOK'
    BY <2>1, <2>3, WebClientAssumption DEF OnPong, ClientTypeOK, RequestsOK
  <2>4. ASSUME NEW c \in Conns, OnResponse(c) PROVE ClientTypeOK' /\ RequestsOK'
    <3>1. Head(down[c]).of \in Requests
      BY <2>4, RestOfQueue, MessageTypes DEF OnResponse, Arrives, Next_, WebTypes
    <3>2. /\ UNCHANGED <<socket, nextRequestId, reconnectTimer, pingTimer, quiet>>
          /\ DOMAIN pending' \subseteq DOMAIN pending
          /\ \A i \in DOMAIN pending' : pending'[i] = pending[i]
      BY <2>4 DEF OnResponse
    <3>3. /\ outcome' \in [Requests -> {Unmade, Waiting, Rejected} \cup Requests]
          /\ \A r \in Requests : outcome'[r] = Unmade <=> outcome[r] = Unmade
      <4>1. CASE UNCHANGED outcome
        BY <2>1, <4>1 DEF ClientTypeOK
      <4>2. CASE \E i \in DOMAIN pending : outcome' = [outcome EXCEPT ![pending[i]] = Head(down[c]).of]
        BY <2>1, <3>1, <4>2, WebLinkAssumption DEF ClientTypeOK, RequestsOK, Requests, Unmade
      <4> QED
        BY <2>4, <4>1, <4>2 DEF OnResponse, Next_
    <3> QED
      BY <2>1, <3>2, <3>3 DEF ClientTypeOK, RequestsOK
  <2>5. ASSUME NEW c \in Conns, OnRestarting(c) PROVE ClientTypeOK' /\ RequestsOK'
    BY <2>1, <2>5 DEF OnRestarting, ClientTypeOK, RequestsOK
  <2>6. ASSUME NEW c \in Conns, OnClose(c) PROVE ClientTypeOK' /\ RequestsOK'
    <3>1. /\ UNCHANGED nextRequestId /\ pending' = <<>> /\ socket' = NoConn /\ quiet' = 0
          /\ reconnectTimer' = TRUE /\ pingTimer' = FALSE
      BY <2>6 DEF OnClose, RejectAll
    <3>2. \A i \in DOMAIN pending, r \in Requests : pending[i] = r => outcome[r] # Unmade
      BY <2>1, WebLinkAssumption DEF RequestsOK, Requests, ClientTypeOK
    <3>3. /\ outcome' \in [Requests -> {Unmade, Waiting, Rejected} \cup Requests]
          /\ \A r \in Requests : outcome'[r] = Unmade <=> outcome[r] = Unmade
      BY <2>1, <2>6, <3>2 DEF OnClose, RejectAll, ClientTypeOK, Unmade, Rejected
    <3>4. quiet' \in 0..(PongTicks + 1) /\ DOMAIN pending' = {}
      BY <3>1, WebClientAssumption
    <3>5. ClientTypeOK'
      BY <2>1, <3>1, <3>3, <3>4 DEF ClientTypeOK
    <3> QED
      BY <2>1, <3>1, <3>3, <3>4, <3>5 DEF RequestsOK
  <2>7. CASE PingTick
    BY <2>1, <2>7, WebClientAssumption DEF PingTick, ClientTypeOK, RequestsOK
  <2>8. CASE Reconnect \/ SendWithoutSocket
    BY <2>1, <2>8 DEF Reconnect, SendWithoutSocket, GetWebSocket, ClientTypeOK, RequestsOK
  <2>9. ASSUME NEW r \in Requests, NEW type \in Types, SendWsRequest(r, type)
        PROVE  ClientTypeOK' /\ RequestsOK'
    <3>1. r = nextRequestId
      BY <2>1, <2>9, WebLinkAssumption DEF SendWsRequest, ClientTypeOK, RequestsOK, Requests
    <3> QED
      BY <2>1, <2>9, <3>1, WebLinkAssumption
         DEF SendWsRequest, ClientTypeOK, RequestsOK, Requests, RequestId, Unmade, Waiting
  <2> QED
    BY <2>2, <2>3, <2>4, <2>5, <2>6, <2>7, <2>8, <2>9 DEF ClientStep, Message
<1> QED
  BY <1>1, <1>3, <1>4, <1>5, <1>6 DEF WebTypes, TypeOK, MessagesOK

-----------------------------------------------------------------------------
(* The theorems. *)

LEMMA WebInvariant == Spec => [](WebTypes /\ Table)
<1>1. Init => WebTypes /\ Table
  BY TypesInit DEF Init, LinkInit, ServerStart, Table, Distinct, NoFd
<1>2. WebTypes /\ Table /\ [Next]_vars => (WebTypes /\ Table)'
  <2>1. WebTypes /\ UNCHANGED vars => WebTypes'
    BY DEF vars, linkVars, serverVars, clientVars, WebTypes, TypeOK, LinkTypeOK, ServerTypeOK,
           ClientTypeOK, MessagesOK, RequestsOK
  <2> QED
    BY <2>1, TableStep, TypesServer, TypesClient DEF Next
<1> QED
  BY <1>1, <1>2, PTL DEF Spec

\* The table of clients names each session at most once and nothing that is no
\* session, whichever sessions end, however, and although a new one gets the
\* least descriptor free (http_ws.c:44-68, 606-636): for any number of slots,
\* connections, messages and requests.
THEOREM SlotsAreLive == Spec => []LiveSlots
<1>1. WebTypes /\ Table => LiveSlots
  BY TableIs DEF WebTypes
<1> QED
  BY <1>1, WebInvariant, PTL

\* Two messages never wait in the broadcast buffer without a worker, queued or
\* about to be, although the first of them queues none and a worker may come
\* before the next is queued (http_ws.c:605-616): for any size of buffer and
\* work queue, and any number of tasks that broadcast.
THEOREM NoTwoMessagesWait == Spec => []SentWithTheNext
<1>1. Init => SentWithTheNext
  BY EmptySeq DEF Init, ServerStart, SentWithTheNext
<1>2. WebTypes /\ SentWithTheNext /\ [Next]_vars => SentWithTheNext'
  <2> SUFFICES ASSUME WebTypes, SentWithTheNext, [Next]_vars PROVE SentWithTheNext'
    OBVIOUS
  <2>1. works \in 0..WorkLen /\ Len(buffer) \in Nat /\ buffer \in Seq(NewsMsg)
    BY LenProperties DEF WebTypes, TypeOK, ServerTypeOK, MessagesOK
  <2>2. CASE UNCHANGED <<buffer, works, queueing>>
    BY <2>2 DEF SentWithTheNext
  <2>3. ASSUME NEW m \in NewsMsg, Put(m), WorkNeeded => works' > 0 \/ queueing' # {},
               ~WorkNeeded => UNCHANGED <<works, queueing>>
        PROVE  SentWithTheNext'
    <3>1. CASE buffer = <<>>
      <4>1. Len(Append(<<>>, m)) = 1
        BY AppendProperties, EmptySeq
      <4>2. CASE UNCHANGED buffer
        BY <3>1, <4>2, EmptySeq DEF SentWithTheNext
      <4>3. CASE buffer' = Append(<<>>, m)
        <5>1. Len(buffer') = 1
          BY <4>1, <4>3
        <5> QED
          BY <5>1 DEF SentWithTheNext
      <4> QED
        BY <2>3, <3>1, <4>2, <4>3 DEF Put
    <3>2. CASE buffer # <<>>
      BY <2>1, <2>3, <3>2, WebServerAssumption DEF Put, WorkNeeded, SentWithTheNext
    <3> QED
      BY <3>1, <3>2
  <2>4. CASE Worker \/ Reboot
    BY <2>4, EmptySeq DEF Worker, Reboot, SentWithTheNext
  <2>5. ASSUME NEW c \in Conns, Serve(c) PROVE SentWithTheNext'
    <3>1. ASSUME Broadcast(Plain("restarting")), UNCHANGED queueing PROVE SentWithTheNext'
      BY <2>1, <2>3, <3>1, MessageTypes, WebServerAssumption DEF Broadcast, QueueWork
    <3> QED
      BY <2>2, <2>5, <3>1 DEF Serve
  <2>6. ASSUME NEW t \in Streams, Stream(t) PROVE SentWithTheNext'
    BY <2>3, <2>6, MessageTypes DEF Stream
  <2>9. ASSUME NEW t \in Streams, StreamQueues(t) PROVE SentWithTheNext'
    BY <2>1, <2>9, WebServerAssumption DEF StreamQueues, QueueWork, SentWithTheNext
  <2>7. ASSUME NEW c \in Conns, Accept(c) \/ CloseFrame(c) \/ RecvError(c) PROVE SentWithTheNext'
    BY <2>2, <2>7 DEF Accept, CloseFrame, RecvError
  <2>8. CASE ReconfigWifi \/ ClientStep \/ UNCHANGED vars
    BY <2>2, <2>8 DEF ReconfigWifi, ClientStep, vars, serverVars
  <2> QED
    BY <2>4, <2>5, <2>6, <2>7, <2>8, <2>9 DEF Next, ServerStep, ServerNext, HttpTask
<1> QED
  BY <1>1, <1>2, WebInvariant, PTL DEF Spec
=============================================================================
