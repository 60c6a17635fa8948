---------------------------- MODULE UdpTaskProofs ----------------------------
(***************************************************************************)
(* Theorems about module UdpTask: for any number of stations, trunks and   *)
(* packets, any configurations and any clocks.                             *)
(***************************************************************************)
EXTENDS UdpTask, FiniteSetTheorems, SequenceTheorems, TLAPS

(* Queues: their types, their elements, and where those are. *)
LEMMA ElementType ==
    ASSUME NEW T, NEW q \in Seq(T), NEW i \in DOMAIN q PROVE q[i] \in T
BY LenProperties, ElementOfSeq

LEMMA AppendedPlaces ==
    ASSUME NEW T, NEW q \in Seq(T), NEW x \in T
    PROVE  /\ Append(q, x) \in Seq(T) /\ Append(q, x) # <<>>
           /\ Len(q) \in Nat /\ DOMAIN q = 1..Len(q)
           /\ Len(Append(q, x)) = Len(q) + 1
           /\ DOMAIN Append(q, x) = 1..(Len(q) + 1)
           /\ \A i \in DOMAIN q : Append(q, x)[i] = q[i]
           /\ Append(q, x)[Len(q) + 1] = x
BY AppendProperties, LenProperties, EmptySeq

LEMMA TakenPlaces ==
    ASSUME NEW T, NEW q \in Seq(T), q # <<>>
    PROVE  /\ Tail(q) \in Seq(T) /\ Head(q) = q[1] /\ q[1] \in T
           /\ Len(q) \in Nat /\ Len(q) >= 1 /\ DOMAIN q = 1..Len(q)
           /\ Len(Tail(q)) = Len(q) - 1
           /\ DOMAIN Tail(q) = 1..(Len(q) - 1)
           /\ \A i \in 1..(Len(q) - 1) : Tail(q)[i] = q[i + 1]
BY HeadTailProperties, LenProperties, EmptySeq

(* No packet of a hub has the number 1, which a trunk that was just opened *)
(* takes for one it acknowledged.                                           *)
FreshNumbers == \A p \in 1..MaxPackets : Number(p) # 1

-----------------------------------------------------------------------------
(* Types, for any configurations. *)

Answered == [pkt : 0..MaxPackets, ack : BOOLEAN]
Sending == <<"trunk", pos - 1 - Stations>>

Shape ==
    /\ dup \in [TrunkSlots -> [last_acked_seq : Int, last_tx_result : Results]]
    /\ buffer \in [Slots -> Seq(Datagram)]
    /\ answered \in [TrunkSlots -> SUBSET Answered]
    /\ hub \in [TrunkSlots -> [issued : 0..MaxPackets, waits : BOOLEAN]]
    /\ log \in [TrunkSlots -> Seq(Nat)]
    /\ acked \in [TrunkSlots -> SUBSET Nat]
    /\ heard \in [TrunkSlots -> BOOLEAN]
    /\ reconfigs \in Nat
    /\ pc = "send" => Sending \in TrunkSlots

TypeInv == TypeOK /\ Shape

(* The sockets: the tables are rebuilt while the task is gone, the numbers *)
(* are those of the open slots, and unless the task looks at a closed slot  *)
(* whose number another socket got, what select found to be readable stays  *)
(* so until its slot's turn.                                                *)
Peace == ctl \in {"rebuild", "trunks"} <=> pc = "gone"
Announced ==
    pc \in {"serve", "send"} /\ ~Haunted =>
        \A d \in rfds : \E s \in Slots : /\ open[s] /\ fd[s] = d
                                         /\ Position(s) >= pos => buffer[s] # <<>>

SocketInv == Peace /\ OwnSockets /\ Announced

(* The packets of a trunk until the first reconfiguration: in order in the *)
(* socket, behind those the Econet accepted, and one that was accepted is   *)
(* the one the trunk remembers, so that it is not sent again.               *)
Data(q) == {i \in DOMAIN q : q[i].kind = "DATA"}
Settles(slot, accepted, p) ==
    \A i \in DOMAIN accepted :
        /\ accepted[i] <= p
        /\ accepted[i] = p => /\ slot.last_acked_seq = Number(p)
                              /\ slot.last_tx_result \notin {"NACK", "IMM_REPLY"}

QueueOk(q, h, slot, accepted) ==
    /\ \A i \in Data(q) : q[i].pkt \in 1..h.issued /\ Settles(slot, accepted, q[i].pkt)
    /\ \A i, j \in Data(q) : i < j => q[i].pkt <= q[j].pkt
HubOk(h, slot, accepted) ==
    /\ \A i \in DOMAIN accepted : accepted[i] \in 1..h.issued
    /\ h.waits => h.issued >= 1 /\ Settles(slot, accepted, h.issued)
AckOk(opened, slot, accepted, answers) ==
    /\ opened => \A p \in 1..MaxPackets :
           slot.last_tx_result = "ACK" /\ slot.last_acked_seq = Number(p)
               => \E i \in DOMAIN accepted : accepted[i] = p
    /\ \A a \in answers : a.ack => \E i \in DOMAIN accepted : accepted[i] = a.pkt
SendOk(q, h, accepted, p) ==
    /\ p \in 1..h.issued
    /\ \A i \in DOMAIN accepted : accepted[i] < p
    /\ \A i \in Data(q) : p <= q[i].pkt

PacketInv ==
    reconfigs = 0 =>
        /\ ctl = "running"
        /\ \A s \in TrunkSlots :
              /\ QueueOk(buffer[s], hub[s], dup[s], log[s])
              /\ HubOk(hub[s], dup[s], log[s])
              /\ AckOk(open[s], dup[s], log[s], answered[s])
        /\ pc = "send" => SendOk(buffer[Sending], hub[Sending], log[Sending], current.pkt)

-----------------------------------------------------------------------------
(* The slots and their numbers. *)

LEMMA SlotKinds ==
    /\ \A s \in Slots : /\ s = <<s[1], s[2]>>
                        /\ \/ s[1] = "station" /\ s[2] \in 1..Stations
                           \/ s[1] = "trunk" /\ s[2] \in 1..Trunks
    /\ \A n \in 1..Stations : <<"station", n>> \in Slots
    /\ \A n \in 1..Trunks : <<"trunk", n>> \in TrunkSlots
    /\ TrunkSlots \subseteq Slots
BY DEF Slots, TrunkSlots

LEMMA Sizes ==
    /\ Stations \in Nat /\ Trunks \in Nat /\ MaxPackets \in Nat /\ FirstNumber \in Nat
    /\ UpdateInterval \in 1..TimerModulus - 1 /\ TimerModulus \in Nat /\ SocketLen \in Nat
    /\ MaxReconfigs \in Nat
    /\ \A c \in Configs : c.stations \in 0..Stations /\ c.trunks \in 0..Trunks
BY UdpTaskConstants

LEMMA Positions ==
    /\ \A s \in Slots : Position(s) \in 1..LastPosition
    /\ \A s, u \in Slots : Position(s) = Position(u) => s = u
    /\ \A s \in TrunkSlots : Position(s) = Stations + s[2]
<1>1. \A s \in Slots : Position(s) \in 1..LastPosition
  BY SlotKinds, Sizes DEF Position, LastPosition
<1>2. ASSUME NEW s \in Slots, NEW u \in Slots, Position(s) = Position(u) PROVE s = u
  <2>1. s[1] = u[1] /\ s[2] = u[2]
    BY <1>2, SlotKinds, Sizes DEF Position
  <2> QED
    BY <2>1, SlotKinds
<1>3. \A s \in TrunkSlots : Position(s) = Stations + s[2]
  BY DEF TrunkSlots, Position
<1> QED
  BY <1>1, <1>2, <1>3

-----------------------------------------------------------------------------
(* Types. *)

LEMMA ClockRange ==
    ASSUME timer \in [TrunkSlots -> 0..TimerModulus - 1], NEW s \in TrunkSlots
    PROVE  NextUpdate(s) \in 0..TimerModulus - 1
<1>1. timer[s] \in Int /\ TimerModulus \in Nat /\ TimerModulus > 0
  BY Sizes
<1>2. Countdown(timer[s]) \in 0..TimerModulus - 1
  BY <1>1 DEF Countdown
<1>3. UpdateInterval \in 0..TimerModulus - 1
  BY Sizes
<1> QED
  BY <1>2, <1>3 DEF NextUpdate

LEMMA Numbers == \A p \in 0..MaxPackets : p \in Nat /\ Number(p) \in Int
BY Sizes DEF Number

LEMMA FirstTrunk ==
    /\ EmptyTrunk \in [last_acked_seq : Int, last_tx_result : Results]
    /\ ClearedTrunk \in [last_acked_seq : Int, last_tx_result : Results]
    /\ EmptyTrunk.last_acked_seq = 1
    /\ 1 \in 0..TimerModulus - 1 /\ 0 \in 0..TimerModulus - 1
    /\ 1 \in 1..LastPosition + 1
    /\ Idle \in Datagram
BY Sizes DEF EmptyTrunk, ClearedTrunk, Results, LastPosition, Idle, Datagram, Kinds

LEMMA Firsts ==
    /\ \A kind, n : First(kind, n) \subseteq Slots /\ \A s \in First(kind, n) : s[1] = kind
    /\ \A s \in Slots : s \in First(s[1], LastPosition)
<1>1. \A s \in Slots : s[2] <= LastPosition
  BY SlotKinds, Sizes DEF LastPosition
<1> QED
  BY <1>1 DEF First

(* The numbers given to some slots. *)
LEMMA Numbering ==
    ASSUME NEW S, NEW T, NEW number \in Injection(S, T)
    PROVE  /\ DOMAIN number = S
           /\ \A s \in S : number[s] \in T /\ number[s] \in Range(number)
           /\ \A d \in Range(number) : d \in T /\ \E s \in S : number[s] = d
           /\ \A s, u \in S : number[s] = number[u] => s = u
BY DEF Injection, IsInjective, Range

(* The tables after the first configuration. *)
LEMMA InitIs ==
    ASSUME Init
    PROVE  \E S \in SUBSET Slots : \E number \in Injection(S, Descriptors) :
             /\ open = [s \in Slots |-> s \in S]
             /\ fd = [s \in Slots |-> IF s \in S THEN number[s] ELSE NoSocket]
             /\ sockets = Range(number)
             /\ timer = [s \in TrunkSlots |-> IF s \in S THEN 1 ELSE 0]
             /\ dup = [s \in TrunkSlots |-> IF s \in S THEN EmptyTrunk ELSE ClearedTrunk]
<1>1. PICK n \in 0..config.stations, m \in 0..config.trunks :
       \E number \in Injection(First("station", n) \cup First("trunk", m), Descriptors) :
          /\ open = [s \in Slots |-> s \in DOMAIN number]
          /\ fd = [s \in Slots |-> IF s \in DOMAIN number THEN number[s] ELSE NoSocket]
          /\ sockets = Range(number)
          /\ timer = [s \in TrunkSlots |-> IF s \in DOMAIN number THEN 1 ELSE 0]
          /\ dup = [s \in TrunkSlots |-> IF s \in DOMAIN number THEN EmptyTrunk ELSE ClearedTrunk]
  BY DEF Init
<1> DEFINE S == First("station", n) \cup First("trunk", m)
<1>2. PICK number \in Injection(S, Descriptors) :
          /\ open = [s \in Slots |-> s \in DOMAIN number]
          /\ fd = [s \in Slots |-> IF s \in DOMAIN number THEN number[s] ELSE NoSocket]
          /\ sockets = Range(number)
          /\ timer = [s \in TrunkSlots |-> IF s \in DOMAIN number THEN 1 ELSE 0]
          /\ dup = [s \in TrunkSlots |-> IF s \in DOMAIN number THEN EmptyTrunk ELSE ClearedTrunk]
  BY <1>1
<1>3. S \in SUBSET Slots
  BY Firsts
<1>4. DOMAIN number = S
  BY Numbering
<1> HIDE DEF S
<1> QED
  BY <1>2, <1>3, <1>4

LEMMA InitTypes == Init => TypeInv
<1> SUFFICES ASSUME Init PROVE TypeInv
  OBVIOUS
<1>0. PICK S \in SUBSET Slots : \E number \in Injection(S, Descriptors) :
             /\ open = [s \in Slots |-> s \in S]
             /\ fd = [s \in Slots |-> IF s \in S THEN number[s] ELSE NoSocket]
             /\ sockets = Range(number)
             /\ timer = [s \in TrunkSlots |-> IF s \in S THEN 1 ELSE 0]
             /\ dup = [s \in TrunkSlots |-> IF s \in S THEN EmptyTrunk ELSE ClearedTrunk]
  BY InitIs
<1>1. open \in [Slots -> BOOLEAN] /\ config \in Configs
  BY <1>0 DEF Init
<1>2. fd \in [Slots -> {NoSocket} \cup Descriptors] /\ sockets \subseteq Descriptors
  BY <1>0, Numbering
<1>3. timer \in [TrunkSlots -> 0..TimerModulus - 1]
  BY <1>0, FirstTrunk
<1>4. \A s \in Slots : buffer[s] = <<>>
  BY DEF Init
<1>5. \A s \in Slots : Len(buffer[s]) <= SocketLen /\ DOMAIN buffer[s] = {}
  <2>1. Len(<<>>) <= SocketLen /\ DOMAIN <<>> = {}
    BY Sizes
  <2> QED
    BY <1>4, <2>1
<1>6. \A s \in TrunkSlots : hub[s].issued \in 0..MaxPackets
  BY Sizes DEF Init
<1>7. TypeOK
  BY <1>1, <1>2, <1>3, <1>5, <1>6, FirstTrunk DEF Init, TypeOK
<1>8. buffer \in [Slots -> Seq(Datagram)] /\ log \in [TrunkSlots -> Seq(Nat)]
  <2>1. <<>> \in Seq(Datagram) /\ <<>> \in Seq(Nat)
    OBVIOUS
  <2> QED
    BY <2>1 DEF Init
<1>9. hub \in [TrunkSlots -> [issued : 0..MaxPackets, waits : BOOLEAN]]
  BY Sizes DEF Init
<1>10. dup \in [TrunkSlots -> [last_acked_seq : Int, last_tx_result : Results]]
  BY <1>0, FirstTrunk
<1>11. /\ answered \in [TrunkSlots -> SUBSET Answered] /\ acked \in [TrunkSlots -> SUBSET Nat]
       /\ heard \in [TrunkSlots -> BOOLEAN] /\ reconfigs \in Nat /\ pc # "send"
  BY DEF Init
<1> QED
  BY <1>7, <1>8, <1>9, <1>10, <1>11 DEF TypeInv, Shape

(* A datagram more in a socket, or one less. *)
LEMMA BufferPut ==
    ASSUME TypeInv, NEW s \in Slots, NEW d \in Datagram, Arrives(s, d)
    PROVE  /\ buffer' = [buffer EXCEPT ![s] = Append(@, d)]
           /\ buffer' \in [Slots -> Seq(Datagram)]
           /\ \A u \in Slots : Len(buffer'[u]) <= SocketLen
           /\ \A u \in Slots : \A i \in DOMAIN buffer'[u] : buffer'[u][i] \in Datagram
<1>1. /\ buffer \in [Slots -> Seq(Datagram)] /\ \A u \in Slots : Len(buffer[u]) <= SocketLen
      /\ buffer' = [buffer EXCEPT ![s] = Append(@, d)] /\ Len(buffer[s]) < SocketLen
  BY DEF TypeInv, TypeOK, Shape, Arrives
<1>2. /\ Append(buffer[s], d) \in Seq(Datagram) /\ Len(Append(buffer[s], d)) <= SocketLen
  BY <1>1, AppendProperties, Sizes
<1>3. /\ buffer' \in [Slots -> Seq(Datagram)] /\ \A u \in Slots : Len(buffer'[u]) <= SocketLen
  BY <1>1, <1>2
<1>4. \A u \in Slots : \A i \in DOMAIN buffer'[u] : buffer'[u][i] \in Datagram
  BY <1>3, ElementType
<1> QED
  BY <1>1, <1>3, <1>4

LEMMA BufferTake ==
    ASSUME TypeInv, NEW s \in Slots, buffer[s] # <<>>, buffer' = [buffer EXCEPT ![s] = Tail(@)]
    PROVE  /\ Head(buffer[s]) \in Datagram
           /\ buffer' \in [Slots -> Seq(Datagram)]
           /\ \A u \in Slots : Len(buffer'[u]) <= SocketLen
           /\ \A u \in Slots : \A i \in DOMAIN buffer'[u] : buffer'[u][i] \in Datagram
<1>1. buffer \in [Slots -> Seq(Datagram)] /\ \A u \in Slots : Len(buffer[u]) <= SocketLen
  BY DEF TypeInv, TypeOK, Shape
<1>2. /\ Head(buffer[s]) \in Datagram /\ Tail(buffer[s]) \in Seq(Datagram)
      /\ Len(Tail(buffer[s])) <= SocketLen
  BY <1>1, TakenPlaces, Sizes
<1>3. /\ buffer' \in [Slots -> Seq(Datagram)] /\ \A u \in Slots : Len(buffer'[u]) <= SocketLen
  BY <1>1, <1>2
<1>4. \A u \in Slots : \A i \in DOMAIN buffer'[u] : buffer'[u][i] \in Datagram
  BY <1>3, ElementType
<1> QED
  BY <1>2, <1>3, <1>4

LEMMA ReplyType ==
    ASSUME TypeInv, NEW s \in TrunkSlots, NEW pkt, NEW result, Reply(s, pkt, result)
    PROVE  /\ answered' \in [TrunkSlots -> SUBSET Answered]
           /\ \A u \in TrunkSlots : u # s => answered'[u] = answered[u]
           /\ \A a \in answered'[s] :
                 \/ a \in answered[s]
                 \/ pkt = hub[s].issued /\ hub[s].waits /\ a.pkt = pkt /\ (a.ack => result = "ACK")
<1>1. /\ answered \in [TrunkSlots -> SUBSET Answered] /\ hub[s].issued \in 0..MaxPackets
  BY DEF TypeInv, TypeOK, Shape
<1>2. CASE UNCHANGED answered
  BY <1>1, <1>2
<1>3. CASE ~UNCHANGED answered
  <2> DEFINE new == [pkt |-> pkt, ack |-> result = "ACK"]
  <2>1. /\ hub[s].waits /\ pkt = hub[s].issued
        /\ answered' = [answered EXCEPT ![s] = @ \cup {new}]
    BY <1>3 DEF Reply
  <2>2. new \in Answered
    BY <1>1, <2>1 DEF Answered
  <2>3. new.pkt = pkt /\ (new.ack => result = "ACK")
    OBVIOUS
  <2> HIDE DEF new
  <2>4. answered'[s] = answered[s] \cup {new}
    BY <1>1, <2>1
  <2>5. answered' \in [TrunkSlots -> SUBSET Answered]
    BY <1>1, <2>1, <2>2
  <2>6. \A u \in TrunkSlots : u # s => answered'[u] = answered[u]
    BY <1>1, <2>1
  <2> QED
    BY <2>1, <2>3, <2>4, <2>5, <2>6
<1> QED
  BY <1>2, <1>3

(* What a turn of the loop does. *)
LEMMA ReceiveIs ==
    ASSUME TypeInv, Receive
    PROVE  \E s \in Turn, from \in Slots :
             LET d == Head(buffer[from])
                 mine == s = from /\ s \in TrunkSlots /\ d.kind = "DATA"
             IN /\ s \in Slots /\ open[from] /\ fd[from] = fd[s]
                /\ buffer[from] # <<>> /\ buffer' = [buffer EXCEPT ![from] = Tail(@)]
                /\ d \in Datagram
                /\ pos' = Position(s) + 1
                /\ \/ /\ mine /\ SendAgain(dup[s], Number(d.pkt))
                      /\ pc' = "send" /\ current' = d /\ Sending' = s
                      /\ UNCHANGED answered
                   \/ /\ mine /\ ~SendAgain(dup[s], Number(d.pkt))
                      /\ Reply(s, d.pkt, dup[s].last_tx_result)
                      /\ UNCHANGED <<pc, current>>
                   \/ /\ ~mine
                      /\ UNCHANGED <<pc, current, answered>>
<1>0. PICK s \in Turn : \E from \in Behind(fd[s]) :
             LET d == Head(buffer[from])
                 mine == s = from /\ s \in TrunkSlots /\ d.kind = "DATA"
             IN /\ buffer[from] # <<>>
                /\ buffer' = [buffer EXCEPT ![from] = Tail(@)]
                /\ \/ /\ mine /\ SendAgain(dup[s], Number(d.pkt))
                      /\ pc' = "send" /\ current' = d
                      /\ UNCHANGED answered
                   \/ /\ mine /\ ~SendAgain(dup[s], Number(d.pkt))
                      /\ Reply(s, d.pkt, dup[s].last_tx_result)
                      /\ UNCHANGED <<pc, current>>
                   \/ /\ ~mine
                      /\ UNCHANGED <<pc, current, answered>>
                /\ pos' = Position(s) + 1
  BY DEF Receive
<1>1. PICK from \in Behind(fd[s]) :
             LET d == Head(buffer[from])
                 mine == s = from /\ s \in TrunkSlots /\ d.kind = "DATA"
             IN /\ buffer[from] # <<>>
                /\ buffer' = [buffer EXCEPT ![from] = Tail(@)]
                /\ \/ /\ mine /\ SendAgain(dup[s], Number(d.pkt))
                      /\ pc' = "send" /\ current' = d
                      /\ UNCHANGED answered
                   \/ /\ mine /\ ~SendAgain(dup[s], Number(d.pkt))
                      /\ Reply(s, d.pkt, dup[s].last_tx_result)
                      /\ UNCHANGED <<pc, current>>
                   \/ /\ ~mine
                      /\ UNCHANGED <<pc, current, answered>>
                /\ pos' = Position(s) + 1
  BY <1>0
<1>2. s \in Slots /\ from \in Slots /\ open[from] /\ fd[from] = fd[s]
  BY DEF Turn, Behind
<1>3. Head(buffer[from]) \in Datagram
  BY <1>1, <1>2, BufferTake
<1>4. s \in TrunkSlots => Sending' = s
  <2>1. SUFFICES ASSUME s \in TrunkSlots PROVE Sending' = s
    OBVIOUS
  <2>2. pos' = Stations + s[2] + 1 /\ s[2] \in Int /\ s = <<"trunk", s[2]>>
    BY <1>1, <2>1, Positions, SlotKinds DEF TrunkSlots
  <2>3. pos' - 1 - Stations = s[2]
    BY <2>2, Sizes
  <2> QED
    BY <2>2, <2>3 DEF Sending
<1> QED
  BY <1>1, <1>2, <1>3, <1>4

LEMMA SendReturnsIs ==
    ASSUME TypeInv, SendReturns
    PROVE  /\ Sending \in TrunkSlots
           /\ \E result \in Results \ {"IMM_REPLY"}, took \in BOOLEAN :
                /\ result = "ACK" => took
                /\ result = "NACK" => ~took
                /\ log' = IF took THEN [log EXCEPT ![Sending] = Append(@, current.pkt)] ELSE log
                /\ dup' = [dup EXCEPT ![Sending] = Remember(@, Number(current.pkt), result)]
                /\ Reply(Sending, current.pkt, result)
BY DEF SendReturns, TypeInv, Shape, Sending

(* The sockets of a kind, when they are opened anew. *)
LEMMA ReopenTypes ==
    ASSUME TypeInv, NEW kind, NEW n, NEW number \in Numberings(kind, n), NEW cleared,
           Reopen(kind, number, cleared)
    PROVE  /\ open' \in [Slots -> BOOLEAN]
           /\ fd' \in [Slots -> {NoSocket} \cup Descriptors]
           /\ sockets' \subseteq Descriptors
           /\ buffer' \in [Slots -> Seq(Datagram)]
           /\ \A s \in Slots : Len(buffer'[s]) <= SocketLen
           /\ \A s \in Slots : \A i \in DOMAIN buffer'[s] : buffer'[s][i] \in Datagram
<1>1. /\ open \in [Slots -> BOOLEAN] /\ fd \in [Slots -> {NoSocket} \cup Descriptors]
      /\ sockets \subseteq Descriptors /\ buffer \in [Slots -> Seq(Datagram)]
      /\ \A s \in Slots : Len(buffer[s]) <= SocketLen
  BY DEF TypeInv, TypeOK, Shape
<1>2. /\ \A s \in DOMAIN number : number[s] \in Descriptors
      /\ Range(number) \subseteq Descriptors
  BY Numbering DEF Numberings
<1>3. open' \in [Slots -> BOOLEAN]
  <2>1. open' = [s \in Slots |-> IF s[1] = kind THEN s \in DOMAIN number ELSE open[s]]
    BY DEF Reopen
  <2>2. ASSUME NEW s \in Slots
        PROVE  (IF s[1] = kind THEN s \in DOMAIN number ELSE open[s]) \in BOOLEAN
    <3>1. open[s] \in BOOLEAN /\ (s \in DOMAIN number) \in BOOLEAN
      BY <1>1
    <3>2. CASE s[1] = kind
      BY <3>1, <3>2, Zenon
    <3>3. CASE s[1] # kind
      BY <3>1, <3>3, Zenon
    <3> QED
      BY <3>2, <3>3
  <2> QED
    BY <2>1, <2>2, Zenon
<1>4. fd' \in [Slots -> {NoSocket} \cup Descriptors] /\ sockets' \subseteq Descriptors
  BY <1>1, <1>2 DEF Reopen
<1>5. <<>> \in Seq(Datagram) /\ Len(<<>>) <= SocketLen
  BY Sizes
<1>6. buffer' \in [Slots -> Seq(Datagram)] /\ \A s \in Slots : Len(buffer'[s]) <= SocketLen
  BY <1>1, <1>5 DEF Reopen
<1>7. \A s \in Slots : \A i \in DOMAIN buffer'[s] : buffer'[s][i] \in Datagram
  BY <1>6, ElementType
<1> QED
  BY <1>3, <1>4, <1>6, <1>7

LEMMA StepTypes == TypeInv /\ [Next]_vars => TypeInv'
<1> SUFFICES ASSUME TypeInv, [Next]_vars PROVE TypeInv'
  OBVIOUS
<1>0. /\ TypeOK /\ Shape
      /\ open \in [Slots -> BOOLEAN] /\ fd \in [Slots -> {NoSocket} \cup Descriptors]
      /\ timer \in [TrunkSlots -> 0..TimerModulus - 1] /\ pos \in 1..LastPosition + 1
      /\ current \in Datagram /\ config \in Configs
      /\ buffer \in [Slots -> Seq(Datagram)]
      /\ \A s \in Slots : Len(buffer[s]) <= SocketLen
      /\ \A s \in Slots : \A i \in DOMAIN buffer[s] : buffer[s][i] \in Datagram
      /\ dup \in [TrunkSlots -> [last_acked_seq : Int, last_tx_result : Results]]
      /\ answered \in [TrunkSlots -> SUBSET Answered]
      /\ hub \in [TrunkSlots -> [issued : 0..MaxPackets, waits : BOOLEAN]]
      /\ \A s \in TrunkSlots : hub[s].issued \in 0..MaxPackets
      /\ log \in [TrunkSlots -> Seq(Nat)] /\ acked \in [TrunkSlots -> SUBSET Nat]
      /\ heard \in [TrunkSlots -> BOOLEAN] /\ reconfigs \in Nat
      /\ TrunkSlots \subseteq Slots
  BY SlotKinds DEF TypeInv, TypeOK, Shape
<1>1. CASE Select
  <2>1. rfds' \subseteq Descriptors /\ second' \in BOOLEAN /\ pc' = "serve" /\ pos' = 1
    BY <1>1 DEF Select, Readable
  <2> QED
    BY <1>0, <1>1, <2>1, FirstTrunk DEF Select, TypeInv, TypeOK, Shape, Sending, tables, hubVars
<1>2. CASE Stop \/ Shutdown
  <2>1. pc' = "send" => pc = "send"
    BY <1>2 DEF Stop, Shutdown, taskVars
  <2>2. reconfigs' \in Nat
    BY <1>0, <1>2 DEF Stop, Shutdown
  <2> QED
    BY <1>0, <1>2, <2>1, <2>2 DEF Stop, Shutdown, TypeInv, TypeOK, Shape, Sending, tables, hubVars, taskVars
<1>3. CASE Receive
  <2>1. PICK s \in Turn, from \in Slots :
             LET d == Head(buffer[from])
                 mine == s = from /\ s \in TrunkSlots /\ d.kind = "DATA"
             IN /\ s \in Slots /\ open[from] /\ fd[from] = fd[s]
                /\ buffer[from] # <<>> /\ buffer' = [buffer EXCEPT ![from] = Tail(@)]
                /\ d \in Datagram
                /\ pos' = Position(s) + 1
                /\ \/ /\ mine /\ SendAgain(dup[s], Number(d.pkt))
                      /\ pc' = "send" /\ current' = d /\ Sending' = s
                      /\ UNCHANGED answered
                   \/ /\ mine /\ ~SendAgain(dup[s], Number(d.pkt))
                      /\ Reply(s, d.pkt, dup[s].last_tx_result)
                      /\ UNCHANGED <<pc, current>>
                   \/ /\ ~mine
                      /\ UNCHANGED <<pc, current, answered>>
    BY <1>3, ReceiveIs
  <2>2. /\ buffer' \in [Slots -> Seq(Datagram)]
        /\ \A u \in Slots : Len(buffer'[u]) <= SocketLen
        /\ \A u \in Slots : \A i \in DOMAIN buffer'[u] : buffer'[u][i] \in Datagram
    BY <2>1, BufferTake
  <2>3. pos' \in 1..LastPosition + 1
    <3>1. Position(s) \in 1..LastPosition
      BY <2>1, Positions
    <3>2. LastPosition \in Int /\ pos' = Position(s) + 1
      BY <2>1, Sizes DEF LastPosition
    <3> QED
      BY <3>1, <3>2
  <2>4. answered' \in [TrunkSlots -> SUBSET Answered]
    BY <1>0, <2>1, ReplyType
  <2>5. /\ current' \in Datagram /\ pc' \in {"serve", "send"} /\ (pc' = "send" => Sending' \in TrunkSlots)
    BY <1>0, <1>3, <2>1 DEF Receive
  <2> QED
    BY <1>0, <1>3, <2>2, <2>3, <2>4, <2>5 DEF Receive, TypeInv, TypeOK, Shape, tables, hubVars
<1>4. CASE SendReturns
  <2>1. PICK result \in Results \ {"IMM_REPLY"}, took \in BOOLEAN :
                /\ result = "ACK" => took
                /\ result = "NACK" => ~took
                /\ log' = IF took THEN [log EXCEPT ![Sending] = Append(@, current.pkt)] ELSE log
                /\ dup' = [dup EXCEPT ![Sending] = Remember(@, Number(current.pkt), result)]
                /\ Reply(Sending, current.pkt, result)
    BY <1>4, SendReturnsIs
  <2>2. Sending \in TrunkSlots /\ current.pkt \in 0..MaxPackets
    BY <1>0, <1>4, SendReturnsIs DEF Datagram
  <2>3. dup' \in [TrunkSlots -> [last_acked_seq : Int, last_tx_result : Results]]
    BY <1>0, <2>1, <2>2, Numbers DEF Remember
  <2>4. log' \in [TrunkSlots -> Seq(Nat)]
    <3>1. Append(log[Sending], current.pkt) \in Seq(Nat)
      BY <1>0, <2>2, AppendProperties, Numbers
    <3> QED
      BY <1>0, <2>1, <3>1
  <2>5. answered' \in [TrunkSlots -> SUBSET Answered]
    BY <2>1, <2>2, ReplyType
  <2>6. pc' = "serve" /\ current' = Idle
    BY <1>4 DEF SendReturns
  <2> QED
    BY <1>0, <1>4, <2>3, <2>4, <2>5, <2>6, FirstTrunk DEF SendReturns, TypeInv, TypeOK, Shape, hubVars
<1>5. CASE EndOfRound
  <2>1. timer' \in [TrunkSlots -> 0..TimerModulus - 1]
    BY <1>0, <1>5, ClockRange DEF EndOfRound
  <2>2. heard' \in [TrunkSlots -> BOOLEAN]
    BY <1>0, <1>5, Zenon DEF EndOfRound
  <2>3. pc' = "select" /\ pos' = 1 /\ rfds' = {} /\ second' = FALSE
    BY <1>5 DEF EndOfRound
  <2> QED
    BY <1>0, <1>5, <2>1, <2>2, <2>3, FirstTrunk DEF EndOfRound, TypeInv, TypeOK, Shape, hubVars
<1>6. CASE SetupStations
  <2>1. PICK n \in 0..config'.stations : \E number \in Numberings("station", n) :
           Reopen("station", number, {})
    BY <1>6 DEF SetupStations
  <2>2. config' \in Configs /\ ctl' = "trunks" /\ UNCHANGED <<pc, pos>>
    BY <1>6 DEF SetupStations, taskVars
  <2> QED
    BY <1>0, <1>6, <2>1, <2>2, ReopenTypes
       DEF SetupStations, TypeInv, TypeOK, Shape, Sending, hubVars, taskVars
<1>12. CASE SetupTrunks
  <2>1. PICK n \in 0..config.trunks : \E number \in Numberings("trunk", n) :
        \E cleared \in {{}} \cup (IF n < config.trunks THEN {{<<"trunk", n + 1>>}} ELSE {}) :
          /\ Reopen("trunk", number, cleared)
          /\ timer' = [s \in TrunkSlots |-> IF s \in DOMAIN number THEN 1
                                            ELSE IF s \in cleared THEN 0 ELSE timer[s]]
          /\ dup' = [s \in TrunkSlots |-> IF s \in DOMAIN number THEN EmptyTrunk
                                          ELSE IF s \in cleared THEN ClearedTrunk ELSE dup[s]]
    BY <1>12 DEF SetupTrunks
  <2>2. /\ timer' \in [TrunkSlots -> 0..TimerModulus - 1]
        /\ dup' \in [TrunkSlots -> [last_acked_seq : Int, last_tx_result : Results]]
    BY <1>0, <2>1, FirstTrunk
  <2>3. /\ heard' = [s \in TrunkSlots |-> FALSE] /\ log' = [s \in TrunkSlots |-> <<>>]
        /\ acked' = [s \in TrunkSlots |-> {}]
        /\ pc' = "select" /\ pos' = 1 /\ ctl' = "running"
    BY <1>12 DEF SetupTrunks
  <2>4. /\ heard' \in [TrunkSlots -> BOOLEAN] /\ log' \in [TrunkSlots -> Seq(Nat)]
        /\ acked' \in [TrunkSlots -> SUBSET Nat]
    BY <2>3
  <2> QED
    BY <1>0, <1>12, <2>1, <2>2, <2>3, <2>4, ReopenTypes, FirstTrunk
       DEF SetupTrunks, TypeInv, TypeOK, Shape
<1>7. ASSUME NEW s \in Slots, NEW d \in Datagram, Arrives(s, d),
             UNCHANGED <<tables, taskVars, ctl, config, answered, hubVars, log, heard, reconfigs>>
      PROVE  TypeInv'
  BY <1>0, <1>7, BufferPut DEF TypeInv, TypeOK, Shape, Sending, tables, hubVars, taskVars
<1>8. ASSUME NEW s \in Slots, OtherArrives(s) PROVE TypeInv'
  <2>1. [kind |-> "OTHER", pkt |-> 0] \in Datagram
    BY FirstTrunk DEF Idle
  <2> QED
    BY <1>7, <1>8, <2>1 DEF OtherArrives
<1>9. ASSUME NEW s \in TrunkSlots, HubRepeats(s) PROVE TypeInv'
  <2>1. [kind |-> "DATA", pkt |-> hub[s].issued] \in Datagram
    BY <1>0 DEF Datagram, Kinds
  <2> QED
    BY <1>0, <1>7, <1>9, <2>1 DEF HubRepeats
<1>10. ASSUME NEW s \in TrunkSlots, HubSends(s) \/ HubGivesUp(s) \/ HubAnswered(s) PROVE TypeInv'
  <2>1. hub' \in [TrunkSlots -> [issued : 0..MaxPackets, waits : BOOLEAN]]
    <3>1. hub[s] \in [issued : 0..MaxPackets, waits : BOOLEAN]
      BY <1>0
    <3>2. CASE HubSends(s)
      <4>1. hub[s].issued + 1 \in 0..MaxPackets
        BY <3>1, <3>2, Sizes DEF HubSends
      <4> QED
        BY <1>0, <3>2, <4>1 DEF HubSends
    <3>3. CASE HubGivesUp(s) \/ HubAnswered(s)
      <4>1. hub' = [hub EXCEPT ![s].waits = FALSE]
        BY <3>3 DEF HubGivesUp, HubAnswered
      <4> QED
        BY <1>0, <4>1
    <3> QED
      BY <1>10, <3>2, <3>3
  <2>2. answered' \in [TrunkSlots -> SUBSET Answered]
    BY <1>0, <1>10 DEF HubSends, HubGivesUp, HubAnswered
  <2>3. acked' \in [TrunkSlots -> SUBSET Nat]
    <3>1. CASE HubSends(s) \/ HubGivesUp(s)
      BY <1>0, <3>1 DEF HubSends, HubGivesUp
    <3>2. CASE HubAnswered(s)
      <4>1. PICK a \in answered[s] :
              /\ a.pkt = hub[s].issued
              /\ acked' = IF a.ack THEN [acked EXCEPT ![s] = @ \cup {a.pkt}] ELSE acked
        BY <3>2 DEF HubAnswered
      <4>2. a.pkt \in Nat
        BY <1>0, <4>1, Numbers
      <4> QED
        BY <1>0, <4>1, <4>2
    <3> QED
      BY <1>10, <3>1, <3>2
  <2>4. UNCHANGED <<tables, taskVars, ctl, config, buffer, log, heard, reconfigs>>
    BY <1>10 DEF HubSends, HubGivesUp, HubAnswered
  <2> QED
    BY <1>0, <2>1, <2>2, <2>3, <2>4 DEF TypeInv, TypeOK, Shape, Sending, tables, taskVars
<1>11. CASE UNCHANGED vars
  BY <1>0, <1>11 DEF vars, TypeInv, TypeOK, Shape, Sending, tables, hubVars, taskVars
<1> QED
  BY <1>1, <1>2, <1>3, <1>4, <1>5, <1>6, <1>8, <1>9, <1>10, <1>11, <1>12
     DEF Next, Task, Network, Rebuild

-----------------------------------------------------------------------------
(* The sockets. *)

(* What is looked at without a haunted slot is open and its own.           *)
LEMMA OwnNumber ==
    ASSUME TypeInv, OwnSockets, ~Haunted, NEW s \in Slots, NEW u \in Slots,
           open[u], fd[s] = fd[u], s[1] = "trunk" => open[<<"trunk", 1>>]
    PROVE  s = u /\ open[s]
<1>1. fd[s] \in sockets
  BY DEF OwnSockets
<1>2. open[s]
  BY <1>1 DEF Haunted
<1> QED
  BY <1>2 DEF OwnSockets

LEMMA InitSockets == Init => SocketInv
<1> SUFFICES ASSUME Init PROVE SocketInv
  OBVIOUS
<1>1. PICK S \in SUBSET Slots : \E number \in Injection(S, Descriptors) :
             /\ open = [s \in Slots |-> s \in S]
             /\ fd = [s \in Slots |-> IF s \in S THEN number[s] ELSE NoSocket]
             /\ sockets = Range(number)
  BY InitIs
<1>2. PICK number \in Injection(S, Descriptors) :
             /\ open = [s \in Slots |-> s \in S]
             /\ fd = [s \in Slots |-> IF s \in S THEN number[s] ELSE NoSocket]
             /\ sockets = Range(number)
  BY <1>1
<1>3. \A s \in Slots : (open[s] <=> s \in S) /\ (open[s] => fd[s] = number[s])
  BY <1>2
<1>4. OwnSockets
  BY <1>2, <1>3, Numbering DEF OwnSockets
<1> QED
  BY <1>4 DEF Init, SocketInv, Peace, Announced

(* The sockets of a kind are closed, each by the slot that has it, and new *)
(* ones get numbers that are free: no socket of the other kind is touched.  *)
LEMMA StepOwn ==
    ASSUME TypeInv, OwnSockets, NEW kind, NEW n, NEW number \in Numberings(kind, n),
           NEW cleared, \A s \in cleared : s[1] = kind,
           Reopen(kind, number, cleared)
    PROVE  OwnSockets'
<1> DEFINE S == First(kind, n)
<1>1. /\ DOMAIN number = S
      /\ \A s \in S : number[s] \in Descriptors \ (sockets \ Held(kind)) /\ number[s] \in Range(number)
      /\ \A d \in Range(number) : \E s \in S : number[s] = d
      /\ \A s, u \in S : number[s] = number[u] => s = u
  BY Numbering DEF Numberings
<1>2. S \subseteq Slots /\ \A s \in S : s[1] = kind
  BY Firsts
<1> HIDE DEF S
<1>3. /\ \A s \in Slots : open'[s] <=> IF s[1] = kind THEN s \in S ELSE open[s]
      /\ \A s \in S : fd'[s] = number[s]
      /\ \A s \in Slots : s[1] # kind => fd'[s] = fd[s]
      /\ sockets' = (sockets \ Held(kind)) \cup Range(number)
  BY <1>1, <1>2 DEF Reopen
<1>4. \A u \in Slots : u[1] = kind /\ open[u] => fd[u] \in Held(kind)
  BY Firsts DEF Held
<1>5. \A d \in Held(kind) : \E u \in Slots : u[1] = kind /\ open[u] /\ fd[u] = d
  BY Firsts DEF Held
<1>6. ASSUME NEW s \in Slots, open[s], s[1] # kind PROVE fd[s] \in sockets \ Held(kind)
  BY <1>5, <1>6 DEF OwnSockets
<1>7. sockets' = {fd'[s] : s \in {u \in Slots : open'[u]}}
  <2>1. ASSUME NEW s \in Slots, open'[s] PROVE fd'[s] \in sockets'
    <3>1. CASE s[1] = kind
      BY <1>1, <1>3, <2>1, <3>1
    <3>2. CASE s[1] # kind
      BY <1>3, <1>6, <2>1, <3>2
    <3> QED
      BY <3>1, <3>2
  <2>2. ASSUME NEW d \in sockets' PROVE \E s \in Slots : open'[s] /\ fd'[s] = d
    <3>1. CASE d \in Range(number)
      <4>1. PICK s \in S : number[s] = d
        BY <1>1, <3>1
      <4> QED
        BY <1>2, <1>3, <4>1
    <3>2. CASE d \in sockets \ Held(kind)
      <4>1. PICK u \in Slots : open[u] /\ fd[u] = d
        BY <3>2 DEF OwnSockets
      <4>2. u[1] # kind
        BY <1>4, <3>2, <4>1
      <4> QED
        BY <1>3, <4>1, <4>2
    <3> QED
      BY <1>3, <2>2, <3>1, <3>2
  <2> QED
    BY <2>1, <2>2
<1>8. ASSUME NEW s \in Slots, NEW u \in Slots, open'[s], open'[u], fd'[s] = fd'[u] PROVE s = u
  <2>1. CASE s[1] = kind /\ u[1] = kind
    BY <1>1, <1>3, <1>8, <2>1
  <2>2. CASE s[1] # kind /\ u[1] # kind
    BY <1>3, <1>8, <2>2 DEF OwnSockets
  <2>3. ASSUME NEW x \in Slots, NEW y \in Slots, open'[x], open'[y], x[1] = kind, y[1] # kind
        PROVE  fd'[x] # fd'[y]
    BY <1>1, <1>3, <1>6, <2>3
  <2> QED
    BY <1>8, <2>1, <2>2, <2>3
<1> QED
  BY <1>7, <1>8 DEF OwnSockets

LEMMA RebuildSockets ==
    ASSUME TypeInv, OwnSockets, Rebuild
    PROVE  OwnSockets'
<1>1. CASE SetupStations
  <2>1. PICK n \in 0..config'.stations : \E number \in Numberings("station", n) :
           Reopen("station", number, {})
    BY <1>1 DEF SetupStations
  <2> QED
    BY <2>1, StepOwn
<1>2. CASE SetupTrunks
  <2>1. PICK n \in 0..config.trunks : \E number \in Numberings("trunk", n) :
        \E cleared \in {{}} \cup (IF n < config.trunks THEN {{<<"trunk", n + 1>>}} ELSE {}) :
          Reopen("trunk", number, cleared)
    BY <1>2 DEF SetupTrunks
  <2>2. PICK number \in Numberings("trunk", n), 
             cleared \in {{}} \cup (IF n < config.trunks THEN {{<<"trunk", n + 1>>}} ELSE {}) :
          Reopen("trunk", number, cleared)
    BY <2>1
  <2>3. \A s \in cleared : s[1] = "trunk"
    BY <2>2
  <2> QED
    BY <2>2, <2>3, StepOwn
<1> QED
  BY <1>1, <1>2 DEF Rebuild

LEMMA StepSockets == TypeInv /\ SocketInv /\ [Next]_vars => SocketInv'
<1> SUFFICES ASSUME TypeInv, SocketInv, [Next]_vars PROVE SocketInv'
  OBVIOUS
<1>0. Peace /\ OwnSockets /\ Announced /\ TrunkSlots \subseteq Slots
  BY SlotKinds DEF SocketInv
<1>1. CASE Select
  <2>1. /\ pos' = 1 /\ pc' = "serve" /\ pc = "select" /\ rfds' = Readable
        /\ UNCHANGED <<open, fd, sockets, ctl, config, buffer>>
    BY <1>1 DEF Select, tables
  <2>2. \A d \in rfds' : \E s \in Slots : open'[s] /\ fd'[s] = d /\ buffer'[s] # <<>>
    BY <2>1 DEF Readable, Behind
  <2> QED
    BY <1>0, <2>1, <2>2 DEF SocketInv, Peace, OwnSockets, Announced, Haunted
<1>2. CASE Stop \/ Shutdown
  <2>1. UNCHANGED <<open, fd, sockets, config, buffer, rfds, pos>> /\ (pc' = pc \/ pc' = "gone")
    BY <1>2 DEF Stop, Shutdown, tables, taskVars
  <2>2. Peace'
    BY <1>0, <1>2 DEF Stop, Shutdown, Peace, taskVars
  <2> QED
    BY <1>0, <2>1, <2>2 DEF SocketInv, OwnSockets, Announced, Haunted
<1>3. CASE Receive
  <2>1. PICK s \in Turn, from \in Slots :
             /\ s \in Slots /\ open[from] /\ fd[from] = fd[s]
             /\ buffer' = [buffer EXCEPT ![from] = Tail(@)]
             /\ pos' = Position(s) + 1
    BY <1>3, ReceiveIs DEF TypeInv
  <2>2. /\ UNCHANGED <<open, fd, sockets, ctl, config, rfds>> /\ pc = "serve"
        /\ pc' \in {"serve", "send"} /\ (Haunted' <=> Haunted)
    BY <1>3 DEF Receive, tables, Haunted
  <2>3. ASSUME ~Haunted PROVE s = from
    BY <1>0, <2>1, <2>3, OwnNumber DEF Turn, Served
  <2>4. /\ pos <= Position(s) /\ pos \in Int /\ Position(s) \in Int
        /\ \A u \in Slots : Position(u) \in Int
        /\ buffer \in [Slots -> Seq(Datagram)]
    BY <2>1, Positions DEF Turn, TypeInv, TypeOK, Shape
  <2>5. ASSUME ~Haunted
        PROVE  \A u \in Slots : Position(u) >= pos' => Position(u) >= pos /\ buffer'[u] = buffer[u]
    BY <2>1, <2>3, <2>4, <2>5
  <2>6. Announced'
    BY <1>0, <2>2, <2>5 DEF Announced
  <2> QED
    BY <1>0, <2>2, <2>6 DEF SocketInv, Peace, OwnSockets
<1>4. CASE SendReturns
  <2>1. /\ UNCHANGED <<open, fd, sockets, ctl, config, rfds, pos, buffer>> /\ pc = "send" /\ pc' = "serve"
    BY <1>4 DEF SendReturns
  <2> QED
    BY <1>0, <2>1 DEF SocketInv, Peace, OwnSockets, Announced, Haunted
<1>5. CASE EndOfRound
  <2>1. /\ UNCHANGED <<open, fd, sockets, ctl, config>> /\ pc = "serve" /\ pc' = "select"
    BY <1>5 DEF EndOfRound
  <2> QED
    BY <1>0, <2>1 DEF SocketInv, Peace, OwnSockets, Announced, Haunted
<1>6. CASE Rebuild
  <2>1. Peace' /\ pc' \notin {"serve", "send"}
    BY <1>0, <1>6 DEF Rebuild, SetupStations, SetupTrunks, Peace, taskVars
  <2> QED
    BY <1>0, <1>6, <2>1, RebuildSockets DEF SocketInv, Announced
<1>7. ASSUME NEW s \in Slots, NEW d \in Datagram, Arrives(s, d), UNCHANGED <<tables, taskVars, ctl, config>>
      PROVE  SocketInv'
  <2>1. /\ buffer' = [buffer EXCEPT ![s] = Append(@, d)]
        /\ UNCHANGED <<open, fd, sockets, pc, pos, rfds, ctl, config>>
    BY <1>7, BufferPut DEF tables, taskVars
  <2>2. buffer \in [Slots -> Seq(Datagram)]
    BY DEF TypeInv, Shape
  <2>3. Append(buffer[s], d) # <<>>
    BY <2>2, AppendedPlaces
  <2>4. \A u \in Slots : buffer[u] # <<>> => buffer'[u] # <<>>
    BY <2>1, <2>2, <2>3
  <2> QED
    BY <1>0, <2>1, <2>4 DEF SocketInv, Peace, OwnSockets, Announced, Haunted
<1>8. ASSUME NEW s \in Slots, OtherArrives(s) PROVE SocketInv'
  <2>1. [kind |-> "OTHER", pkt |-> 0] \in Datagram
    BY FirstTrunk DEF Idle
  <2> QED
    BY <1>7, <1>8, <2>1 DEF OtherArrives
<1>9. ASSUME NEW s \in TrunkSlots, HubRepeats(s) PROVE SocketInv'
  <2>1. [kind |-> "DATA", pkt |-> hub[s].issued] \in Datagram
    BY DEF TypeInv, TypeOK, Datagram, Kinds
  <2> QED
    BY <1>0, <1>7, <1>9, <2>1 DEF HubRepeats
<1>10. CASE \/ \E s \in TrunkSlots : HubSends(s) \/ HubGivesUp(s) \/ HubAnswered(s)
            \/ UNCHANGED vars
  <2>1. UNCHANGED <<open, fd, sockets, pc, pos, rfds, ctl, config, buffer>>
    BY <1>10 DEF HubSends, HubGivesUp, HubAnswered, vars, tables, taskVars
  <2> QED
    BY <1>0, <2>1 DEF SocketInv, Peace, OwnSockets, Announced, Haunted
<1> QED
  BY <1>1, <1>2, <1>3, <1>4, <1>5, <1>6, <1>8, <1>9, <1>10 DEF Next, Task, Network

LEMMA SocketsStay == Spec => [](TypeInv /\ SocketInv)
<1>1. Init => TypeInv /\ SocketInv
  BY InitTypes, InitSockets
<1>2. TypeInv /\ SocketInv /\ [Next]_vars => (TypeInv /\ SocketInv)'
  BY StepTypes, StepSockets
<1> QED
  BY <1>1, <1>2, PTL DEF Spec

(* Whatever numbers sockets are given, however many are opened or closed   *)
(* and whichever fail: each open slot has a socket of its own and none is   *)
(* left over, and unless a closed slot has a number that another socket     *)
(* got, the slot the task turns to is open and its socket holds something,  *)
(* so that the task neither waits there nor takes another slot's.           *)
THEOREM TaskReceivesOwn == Spec => []ReceivesOwn
<1>1. TypeInv /\ SocketInv => ReceivesOwn
  <2> SUFFICES ASSUME TypeInv, SocketInv, pc = "serve", ~Haunted, NEW s \in Turn
               PROVE  open[s] /\ buffer[s] # <<>>
    BY DEF ReceivesOwn, TypeInv, SocketInv
  <2>1. /\ s \in Slots /\ fd[s] \in rfds /\ pos <= Position(s)
        /\ s[1] = "trunk" => open[<<"trunk", 1>>]
    BY DEF Turn, Served
  <2>2. PICK u \in Slots : /\ open[u] /\ fd[u] = fd[s]
                           /\ Position(u) >= pos => buffer[u] # <<>>
    BY <2>1 DEF SocketInv, Announced
  <2>3. s = u
    BY <2>1, <2>2, OwnNumber DEF SocketInv
  <2>4. Position(s) >= pos
    BY <2>1, Positions DEF TypeInv, TypeOK
  <2> QED
    BY <2>2, <2>3, <2>4
<1> QED
  BY <1>1, SocketsStay, PTL

-----------------------------------------------------------------------------
(* The packets of one trunk. *)

LEMMA QueueTaken ==
    ASSUME NEW q \in Seq(Datagram), q # <<>>, NEW h, NEW slot, NEW accepted,
           QueueOk(q, h, slot, accepted)
    PROVE  /\ QueueOk(Tail(q), h, slot, accepted)
           /\ \A p : SendOk(q, h, accepted, p) => SendOk(Tail(q), h, accepted, p)
           /\ Head(q).kind = "DATA" =>
                 /\ Head(q).pkt \in 1..h.issued /\ Settles(slot, accepted, Head(q).pkt)
                 /\ \A i \in Data(Tail(q)) : Head(q).pkt <= Tail(q)[i].pkt
<1>1. /\ Head(q) = q[1] /\ Len(q) \in Nat /\ Len(q) >= 1 /\ DOMAIN q = 1..Len(q)
      /\ DOMAIN Tail(q) = 1..(Len(q) - 1) /\ \A i \in 1..(Len(q) - 1) : Tail(q)[i] = q[i + 1]
  BY TakenPlaces
<1>2. \A i \in Data(Tail(q)) : i + 1 \in Data(q) /\ Tail(q)[i] = q[i + 1] /\ i \in Nat /\ i >= 1
  BY <1>1 DEF Data
<1>3. Head(q).kind = "DATA" => 1 \in Data(q)
  BY <1>1 DEF Data
<1>4. /\ \A i \in Data(q) : q[i].pkt \in 1..h.issued /\ Settles(slot, accepted, q[i].pkt)
      /\ \A i, j \in Data(q) : i < j => q[i].pkt <= q[j].pkt
  BY DEF QueueOk
<1>5. /\ \A i \in Data(Tail(q)) : Tail(q)[i].pkt \in 1..h.issued
                                  /\ Settles(slot, accepted, Tail(q)[i].pkt)
      /\ \A i, j \in Data(Tail(q)) : i < j => Tail(q)[i].pkt <= Tail(q)[j].pkt
  <2>1. ASSUME NEW i \in Data(Tail(q))
        PROVE  Tail(q)[i].pkt \in 1..h.issued /\ Settles(slot, accepted, Tail(q)[i].pkt)
    <3>1. i + 1 \in Data(q) /\ Tail(q)[i] = q[i + 1]
      BY <1>2
    <3> QED
      BY <1>4, <3>1
  <2>2. ASSUME NEW i \in Data(Tail(q)), NEW j \in Data(Tail(q)), i < j
        PROVE  Tail(q)[i].pkt <= Tail(q)[j].pkt
    <3>1. /\ i + 1 \in Data(q) /\ Tail(q)[i] = q[i + 1]
          /\ j + 1 \in Data(q) /\ Tail(q)[j] = q[j + 1]
      BY <1>2
    <3>2. i + 1 < j + 1
      BY <1>2, <2>2
    <3> QED
      BY <1>4, <3>1, <3>2
  <2> QED
    BY <2>1, <2>2
<1>6. Head(q).kind = "DATA" =>
                 /\ Head(q).pkt \in 1..h.issued /\ Settles(slot, accepted, Head(q).pkt)
                 /\ \A i \in Data(Tail(q)) : Head(q).pkt <= Tail(q)[i].pkt
  <2>1. SUFFICES ASSUME Head(q).kind = "DATA"
                 PROVE  /\ Head(q).pkt \in 1..h.issued /\ Settles(slot, accepted, Head(q).pkt)
                        /\ \A i \in Data(Tail(q)) : Head(q).pkt <= Tail(q)[i].pkt
    OBVIOUS
  <2>2. 1 \in Data(q) /\ Head(q) = q[1]
    BY <1>1, <1>3, <2>1
  <2>3. \A i \in Data(Tail(q)) : 1 < i + 1
    BY <1>2
  <2> QED
    BY <1>2, <1>4, <2>2, <2>3
<1>7. \A p : SendOk(q, h, accepted, p) => SendOk(Tail(q), h, accepted, p)
  BY <1>2 DEF SendOk
<1> QED
  BY <1>5, <1>6, <1>7 DEF QueueOk

LEMMA QueueAdded ==
    ASSUME NEW q \in Seq(Datagram), NEW d \in Datagram, NEW h, NEW slot, NEW accepted,
           QueueOk(q, h, slot, accepted), h.issued \in Nat,
           d.kind = "DATA" => d.pkt = h.issued /\ h.issued >= 1 /\ Settles(slot, accepted, h.issued)
    PROVE  /\ QueueOk(Append(q, d), h, slot, accepted)
           /\ \A p : SendOk(q, h, accepted, p) => SendOk(Append(q, d), h, accepted, p)
<1> DEFINE r == Append(q, d)
<1>1. /\ Len(q) \in Nat /\ DOMAIN q = 1..Len(q) /\ DOMAIN r = 1..(Len(q) + 1)
      /\ \A i \in DOMAIN q : r[i] = q[i]
      /\ r[Len(q) + 1] = d
  BY AppendedPlaces
<1> HIDE DEF r
<1>2. \A i \in Data(r) : \/ i \in Data(q) /\ r[i] = q[i] /\ i \in 1..Len(q)
                         \/ i = Len(q) + 1 /\ r[i] = d /\ d.kind = "DATA"
  BY <1>1 DEF Data
<1>3. /\ \A i \in Data(q) : q[i].pkt \in 1..h.issued /\ Settles(slot, accepted, q[i].pkt)
      /\ \A i, j \in Data(q) : i < j => q[i].pkt <= q[j].pkt
  BY DEF QueueOk
<1>4. \A i \in Data(r) : r[i].pkt \in 1..h.issued /\ Settles(slot, accepted, r[i].pkt)
  BY <1>2, <1>3
<1>5. ASSUME NEW i \in Data(r), NEW j \in Data(r), i < j PROVE r[i].pkt <= r[j].pkt
  <2>1. i \in Data(q) /\ r[i] = q[i]
    BY <1>1, <1>2, <1>5
  <2>2. CASE j \in Data(q) /\ r[j] = q[j]
    BY <1>3, <1>5, <2>1, <2>2
  <2>3. CASE r[j] = d /\ d.kind = "DATA"
    BY <1>3, <2>1, <2>3
  <2> QED
    BY <1>2, <2>2, <2>3
<1>6. \A p : SendOk(q, h, accepted, p) => SendOk(r, h, accepted, p)
  BY <1>2 DEF SendOk
<1> QED
  BY <1>4, <1>5, <1>6 DEF QueueOk, r

(* The hub sends its next packet. *)
LEMMA HubAdvances ==
    ASSUME NEW q \in Seq(Datagram), NEW accepted, NEW slot, NEW h, NEW more,
           h.issued \in Nat, more.issued = h.issued + 1,
           QueueOk(q, h, slot, accepted), HubOk(h, slot, accepted)
    PROVE  /\ QueueOk(q, more, slot, accepted) /\ HubOk(more, slot, accepted)
           /\ \A p : SendOk(q, h, accepted, p) => SendOk(q, more, accepted, p)
<1>1. \A p \in 1..h.issued : p \in 1..more.issued /\ p < more.issued
  OBVIOUS
<1>2. QueueOk(q, more, slot, accepted)
  BY <1>1 DEF QueueOk
<1>3. \A i \in DOMAIN accepted : accepted[i] \in 1..more.issued /\ accepted[i] < more.issued
  BY <1>1 DEF HubOk
<1>4. Settles(slot, accepted, more.issued) /\ more.issued >= 1
  BY <1>3 DEF Settles
<1>5. \A p : SendOk(q, h, accepted, p) => SendOk(q, more, accepted, p)
  BY <1>1 DEF SendOk
<1> QED
  BY <1>2, <1>3, <1>4, <1>5 DEF HubOk

LEMMA HubWaitsNoMore ==
    ASSUME NEW q, NEW accepted, NEW slot, NEW h, NEW less, less.issued = h.issued, ~less.waits,
           QueueOk(q, h, slot, accepted), HubOk(h, slot, accepted)
    PROVE  /\ QueueOk(q, less, slot, accepted) /\ HubOk(less, slot, accepted)
           /\ \A p : SendOk(q, h, accepted, p) => SendOk(q, less, accepted, p)
BY DEF QueueOk, HubOk, SendOk

(* The Econet has taken the packet the trunk is handing over, or has not.  *)
AnsweredToo(answers, more, p, result) ==
    \A a \in more : a \in answers \/ (a.pkt = p /\ (a.ack => result = "ACK"))

HandedOver(opened, q, h, slot, accepted, answers, more, p, result, now, then) ==
    /\ accepted \in Seq(Nat) /\ h.issued \in 0..MaxPackets
    /\ QueueOk(q, h, slot, accepted) /\ HubOk(h, slot, accepted)
    /\ AckOk(opened, slot, accepted, answers) /\ SendOk(q, h, accepted, p)
    /\ AnsweredToo(answers, more, p, result)
    /\ now.last_acked_seq = Number(p) /\ now.last_tx_result = result
    /\ result # "IMM_REPLY"
    /\ \/ then = accepted /\ result # "ACK"
       \/ then = Append(accepted, p) /\ result # "NACK"

LEMMA PacketSent ==
    ASSUME NEW opened, NEW q, NEW h, NEW slot, NEW accepted, NEW answers, NEW more, NEW p, NEW result,
           NEW now, NEW then,
           HandedOver(opened, q, h, slot, accepted, answers, more, p, result, now, then)
    PROVE  QueueOk(q, h, now, then) /\ HubOk(h, now, then)
           /\ AckOk(opened, now, then, more)
<1> USE DEF HandedOver
<1>1. p \in 1..h.issued /\ p \in 1..MaxPackets /\ p \in Nat /\ h.issued \in Nat
  BY Sizes DEF SendOk
<1>2. now.last_acked_seq = Number(p) /\ now.last_tx_result = result
  OBVIOUS
<1>3. /\ \A i \in DOMAIN then :
            \/ i \in DOMAIN accepted /\ then[i] = accepted[i] /\ then[i] < p
            \/ then[i] = p /\ result # "NACK"
      /\ \A i \in DOMAIN accepted : i \in DOMAIN then /\ then[i] = accepted[i]
      /\ result = "ACK" => \E i \in DOMAIN then : then[i] = p
  <2>1. \A i \in DOMAIN accepted : accepted[i] < p
    BY DEF SendOk
  <2>2. CASE then = Append(accepted, p) /\ result # "NACK"
    <3>1. /\ Len(accepted) \in Nat /\ DOMAIN accepted = 1..Len(accepted)
          /\ DOMAIN then = 1..(Len(accepted) + 1)
          /\ \A i \in DOMAIN accepted : then[i] = accepted[i]
          /\ then[Len(accepted) + 1] = p
      BY <1>1, <2>2, AppendedPlaces
    <3>2. \A i \in DOMAIN then : i \in DOMAIN accepted \/ i = Len(accepted) + 1
      BY <3>1
    <3>3. Len(accepted) + 1 \in DOMAIN then /\ \A i \in DOMAIN accepted : i \in DOMAIN then
      BY <3>1
    <3> QED
      BY <2>1, <2>2, <3>1, <3>2, <3>3
  <2>3. CASE then = accepted /\ result # "ACK"
    BY <2>1, <2>3
  <2> QED
    BY <2>2, <2>3
<1>5. \A x \in Nat : x >= p => Settles(now, then, x)
  <2> SUFFICES ASSUME NEW x \in Nat, x >= p, NEW i \in DOMAIN then
               PROVE  then[i] <= x /\ (then[i] = x => then[i] = p /\ result # "NACK")
    BY <1>2 DEF Settles
  <2>1. CASE then[i] = p /\ result # "NACK"
    BY <1>1, <2>1
  <2>2. CASE i \in DOMAIN accepted /\ then[i] = accepted[i] /\ then[i] < p
    <3>1. then[i] \in Nat
      BY <2>2, ElementType
    <3> HIDE DEF HandedOver
    <3> QED
      BY <1>1, <2>2, <3>1
  <2> QED
    BY <1>3, <2>1, <2>2
<1>6. QueueOk(q, h, now, then)
  <2>1. \A i \in Data(q) : q[i].pkt \in 1..h.issued /\ p <= q[i].pkt
    BY DEF QueueOk, SendOk
  <2>2. \A i \in Data(q) : Settles(now, then, q[i].pkt)
    BY <1>1, <1>5, <2>1
  <2> QED
    BY <2>1, <2>2 DEF QueueOk
<1>7. HubOk(h, now, then)
  <2>1. \A i \in DOMAIN then : then[i] \in 1..h.issued
    BY <1>1, <1>3 DEF HubOk
  <2>2. h.issued >= 1 /\ Settles(now, then, h.issued)
    BY <1>1, <1>5
  <2> QED
    BY <2>1, <2>2 DEF HubOk
<1>8. AckOk(opened, now, then, more)
  <2>1. ASSUME NEW x \in 1..MaxPackets, now.last_tx_result = "ACK", now.last_acked_seq = Number(x)
        PROVE  \E i \in DOMAIN then : then[i] = x
    <3>1. x = p
      BY <1>1, <1>2, <2>1, Sizes DEF Number
    <3> QED
      BY <1>2, <1>3, <2>1, <3>1
  <2>2. ASSUME NEW a \in more, a.ack PROVE \E i \in DOMAIN then : then[i] = a.pkt
    <3>1. CASE a \in answers
      <4>1. PICK i \in DOMAIN accepted : accepted[i] = a.pkt
        BY <2>2, <3>1 DEF AckOk
      <4> QED
        BY <1>3, <4>1
    <3>2. CASE a.pkt = p /\ result = "ACK"
      BY <1>3, <3>2
    <3> QED
      BY <2>2, <3>1, <3>2 DEF AnsweredToo
  <2> QED
    BY <2>1, <2>2 DEF AckOk
<1> QED
  BY <1>6, <1>7, <1>8

-----------------------------------------------------------------------------
(* The packets of all of them. *)

TrunkOk(opened, q, h, slot, accepted, answers) ==
    /\ QueueOk(q, h, slot, accepted) /\ HubOk(h, slot, accepted)
    /\ AckOk(opened, slot, accepted, answers)

LEMMA InitPackets == FreshNumbers /\ Init => PacketInv
<1> SUFFICES ASSUME FreshNumbers, Init PROVE PacketInv
  OBVIOUS
<1>1. ctl = "running" /\ pc # "send"
  BY DEF Init
<1>2. ASSUME NEW s \in TrunkSlots
      PROVE  QueueOk(buffer[s], hub[s], dup[s], log[s]) /\ HubOk(hub[s], dup[s], log[s])
             /\ AckOk(open[s], dup[s], log[s], answered[s])
  <2>0. PICK S \in SUBSET Slots : /\ open = [u \in Slots |-> u \in S]
                                  /\ dup = [u \in TrunkSlots |-> IF u \in S THEN EmptyTrunk ELSE ClearedTrunk]
    BY InitIs
  <2>1. /\ buffer[s] = <<>> /\ log[s] = <<>> /\ answered[s] = {} /\ ~hub[s].waits
    BY SlotKinds DEF Init
  <2>2. DOMAIN <<>> = {}
    OBVIOUS
  <2>3. DOMAIN buffer[s] = {} /\ DOMAIN log[s] = {}
    BY <2>1, <2>2
  <2>4. open[s] => dup[s].last_acked_seq = 1
    BY <2>0, SlotKinds, FirstTrunk
  <2> QED
    BY <2>1, <2>3, <2>4 DEF QueueOk, HubOk, AckOk, Data, FreshNumbers
<1> QED
  BY <1>1, <1>2 DEF PacketInv

(* It is enough to look at the trunk a step is about. *)
LEMMA OneTrunk ==
    ASSUME TypeInv, NEW s \in TrunkSlots,
           PacketInv, reconfigs = 0, ctl' = "running", open' = open,
           \A u \in TrunkSlots : u # s =>
               /\ buffer'[u] = buffer[u] /\ hub'[u] = hub[u] /\ dup'[u] = dup[u]
               /\ log'[u] = log[u] /\ answered'[u] = answered[u],
           TrunkOk(open[s], buffer'[s], hub'[s], dup'[s], log'[s], answered'[s]),
           pc' = "send" => \/ Sending' = s /\ SendOk(buffer'[s], hub'[s], log'[s], current'.pkt)
                           \/ /\ Sending # s /\ pc = "send"
                              /\ UNCHANGED <<pos, current>>
    PROVE  PacketInv'
<1>1. \A u \in TrunkSlots : TrunkOk(open[u], buffer[u], hub[u], dup[u], log[u], answered[u])
  BY DEF PacketInv, TrunkOk
<1>2. \A u \in TrunkSlots : TrunkOk(open[u], buffer'[u], hub'[u], dup'[u], log'[u], answered'[u])
  BY <1>1
<1>3. ASSUME pc' = "send"
      PROVE  SendOk(buffer'[Sending'], hub'[Sending'], log'[Sending'], current'.pkt)
  <2>1. CASE Sending' = s /\ SendOk(buffer'[s], hub'[s], log'[s], current'.pkt)
    BY <2>1
  <2>2. CASE Sending # s /\ pc = "send" /\ UNCHANGED <<pos, current>>
    <3>1. Sending' = Sending /\ Sending \in TrunkSlots
      BY <2>2 DEF Sending, TypeInv, Shape
    <3>2. SendOk(buffer[Sending], hub[Sending], log[Sending], current.pkt)
      BY <2>2 DEF PacketInv
    <3> QED
      BY <2>2, <3>1, <3>2
  <2> QED
    BY <1>3, <2>1, <2>2
<1> QED
  BY <1>2, <1>3 DEF PacketInv, TrunkOk

LEMMA PacketsKept ==
    ASSUME PacketInv, TypeInv, UNCHANGED <<open, hub, dup, log, answered>>,
           \A s \in TrunkSlots : buffer'[s] = buffer[s],
           reconfigs' = 0 => reconfigs = 0 /\ ctl' = ctl,
           pc' = "send" => pc = "send" /\ UNCHANGED <<pos, current>>
    PROVE  PacketInv'
<1>1. \A u \in TrunkSlots : u \in Slots
  BY SlotKinds
<1>2. pc = "send" => Sending \in TrunkSlots
  BY DEF TypeInv, Shape
<1>3. pc' = "send" => Sending' = Sending
  BY DEF Sending
<1> QED
  BY <1>1, <1>2, <1>3 DEF PacketInv

LEMMA ReceivePackets ==
    ASSUME TypeInv, PacketInv, reconfigs = 0, Receive
    PROVE  PacketInv'
<1>0. /\ ctl = "running" /\ ctl' = "running" /\ pc = "serve"
      /\ UNCHANGED <<open, hub, dup, log, reconfigs>>
      /\ TrunkSlots \subseteq Slots
  BY SlotKinds DEF PacketInv, Receive, tables, hubVars
<1>1. PICK s \in Turn, from \in Slots :
             LET d == Head(buffer[from])
                 mine == s = from /\ s \in TrunkSlots /\ d.kind = "DATA"
             IN /\ s \in Slots /\ open[from] /\ fd[from] = fd[s]
                /\ buffer[from] # <<>> /\ buffer' = [buffer EXCEPT ![from] = Tail(@)]
                /\ d \in Datagram
                /\ pos' = Position(s) + 1
                /\ \/ /\ mine /\ SendAgain(dup[s], Number(d.pkt))
                      /\ pc' = "send" /\ current' = d /\ Sending' = s
                      /\ UNCHANGED answered
                   \/ /\ mine /\ ~SendAgain(dup[s], Number(d.pkt))
                      /\ Reply(s, d.pkt, dup[s].last_tx_result)
                      /\ UNCHANGED <<pc, current>>
                   \/ /\ ~mine
                      /\ UNCHANGED <<pc, current, answered>>
  BY ReceiveIs
<1> DEFINE d == Head(buffer[from])
           mine == s = from /\ s \in TrunkSlots /\ d.kind = "DATA"
<1>2. /\ buffer \in [Slots -> Seq(Datagram)] /\ log \in [TrunkSlots -> Seq(Nat)]
      /\ answered \in [TrunkSlots -> SUBSET Answered]
      /\ hub \in [TrunkSlots -> [issued : 0..MaxPackets, waits : BOOLEAN]]
  BY DEF TypeInv, Shape
<1>3. buffer'[from] = Tail(buffer[from]) /\ \A u \in Slots : u # from => buffer'[u] = buffer[u]
  BY <1>1, <1>2
<1>4. CASE from \notin TrunkSlots
  <2>1. UNCHANGED <<pc, current, answered>>
    BY <1>1, <1>4
  <2>2. \A u \in TrunkSlots : buffer'[u] = buffer[u]
    BY <1>0, <1>3, <1>4
  <2> QED
    BY <1>0, <2>1, <2>2, PacketsKept
<1>5. CASE from \in TrunkSlots
  <2>1. TrunkOk(open[from], buffer[from], hub[from], dup[from], log[from], answered[from])
    BY <1>5 DEF PacketInv, TrunkOk
  <2>2. /\ QueueOk(buffer'[from], hub[from], dup[from], log[from])
        /\ d.kind = "DATA" =>
              /\ d.pkt \in 1..hub[from].issued /\ Settles(dup[from], log[from], d.pkt)
              /\ \A i \in Data(buffer'[from]) : d.pkt <= buffer'[from][i].pkt
    <3>1. buffer[from] \in Seq(Datagram) /\ buffer[from] # <<>>
      BY <1>1, <1>2
    <3> QED
      BY <1>3, <2>1, <3>1, QueueTaken DEF TrunkOk
  <2>3. CASE mine /\ SendAgain(dup[s], Number(d.pkt))
    <3>1. /\ pc' = "send" /\ current' = d /\ Sending' = s /\ UNCHANGED answered
      BY <1>1, <2>3
    <3>2. \A i \in DOMAIN log[s] : log[s][i] <= d.pkt /\ log[s][i] # d.pkt
      BY <2>2, <2>3 DEF Settles, SendAgain
    <3>3. \A i \in DOMAIN log[s] : log[s][i] \in Nat
      BY <1>2, <2>3, ElementType
    <3>4. d.pkt \in Nat
      BY <2>2, <2>3
    <3>5. \A i \in DOMAIN log[s] : log[s][i] < d.pkt
      BY <3>2, <3>3, <3>4
    <3>6. SendOk(buffer'[s], hub[s], log[s], d.pkt)
      BY <2>2, <2>3, <3>5 DEF SendOk
    <3>7. TrunkOk(open[s], buffer'[s], hub[s], dup[s], log[s], answered[s])
      BY <2>1, <2>2, <2>3 DEF TrunkOk
    <3>8. \A u \in TrunkSlots : u # s => buffer'[u] = buffer[u]
      BY <1>0, <1>3, <2>3
    <3> HIDE DEF d, mine
    <3> QED
      BY <1>0, <1>5, <2>3, <3>1, <3>6, <3>7, <3>8, OneTrunk DEF mine
  <2>4. CASE mine /\ ~SendAgain(dup[s], Number(d.pkt))
    <3>1. Reply(s, d.pkt, dup[s].last_tx_result) /\ UNCHANGED <<pc, current>>
      BY <1>1, <2>4
    <3>2. /\ \A u \in TrunkSlots : u # s => answered'[u] = answered[u]
          /\ \A a \in answered'[s] :
                 \/ a \in answered[s]
                 \/ a.pkt = d.pkt /\ (a.ack => dup[s].last_tx_result = "ACK")
      BY <2>4, <3>1, ReplyType
    <3>3. dup[s].last_acked_seq = Number(d.pkt)
      BY <2>4 DEF SendAgain
    <3>4. d.pkt \in 1..MaxPackets
      BY <1>2, <1>5, <2>2, <2>4, Sizes
    <3>5. AckOk(open[s], dup[s], log[s], answered'[s])
      BY <1>1, <2>1, <2>4, <3>2, <3>3, <3>4 DEF AckOk, TrunkOk
    <3>6. TrunkOk(open[s], buffer'[s], hub[s], dup[s], log[s], answered'[s])
      BY <2>1, <2>2, <2>4, <3>5 DEF TrunkOk
    <3>7. \A u \in TrunkSlots : u # s => buffer'[u] = buffer[u]
      BY <1>0, <1>3, <2>4
    <3>8. pc' # "send" /\ s \in TrunkSlots
      BY <1>0, <2>4, <3>1
    <3> QED
      BY <1>0, <3>2, <3>6, <3>7, <3>8, OneTrunk
  <2>5. CASE ~mine
    <3>1. UNCHANGED <<pc, current, answered>>
      BY <1>1, <2>5
    <3>2. TrunkOk(open[from], buffer'[from], hub[from], dup[from], log[from], answered[from])
      BY <2>1, <2>2 DEF TrunkOk
    <3>3. \A u \in TrunkSlots : u # from => buffer'[u] = buffer[u]
      BY <1>0, <1>3
    <3>4. pc' # "send"
      BY <1>0, <3>1
    <3> QED
      BY <1>0, <1>5, <3>1, <3>2, <3>3, <3>4, OneTrunk
  <2> QED
    BY <2>3, <2>4, <2>5
<1> QED
  BY <1>4, <1>5

LEMMA SendPackets ==
    ASSUME TypeInv, PacketInv, reconfigs = 0, SendReturns
    PROVE  PacketInv'
<1> DEFINE s == Sending
<1>0. /\ ctl = "running" /\ ctl' = "running" /\ pc = "send" /\ pc' = "serve"
      /\ UNCHANGED <<open, hub, buffer, reconfigs>>
  BY DEF PacketInv, SendReturns, hubVars
<1>1. PICK result \in Results \ {"IMM_REPLY"}, took \in BOOLEAN :
                /\ result = "ACK" => took
                /\ result = "NACK" => ~took
                /\ log' = IF took THEN [log EXCEPT ![s] = Append(@, current.pkt)] ELSE log
                /\ dup' = [dup EXCEPT ![s] = Remember(@, Number(current.pkt), result)]
                /\ Reply(s, current.pkt, result)
  BY SendReturnsIs
<1>2. s \in TrunkSlots
  BY SendReturnsIs
<1> HIDE DEF s
<1>3. /\ buffer[s] \in Seq(Datagram) /\ log[s] \in Seq(Nat)
      /\ hub[s] \in [issued : 0..MaxPackets, waits : BOOLEAN]
      /\ dup[s] \in [last_acked_seq : Int, last_tx_result : Results]
      /\ log \in [TrunkSlots -> Seq(Nat)] /\ DOMAIN dup = TrunkSlots
  BY <1>2, SlotKinds DEF TypeInv, Shape
<1>4. /\ QueueOk(buffer[s], hub[s], dup[s], log[s]) /\ HubOk(hub[s], dup[s], log[s])
      /\ AckOk(open[s], dup[s], log[s], answered[s])
      /\ SendOk(buffer[s], hub[s], log[s], current.pkt)
  BY <1>0, <1>2 DEF PacketInv, s
<1>5. /\ \A u \in TrunkSlots : u # s => answered'[u] = answered[u]
      /\ \A a \in answered'[s] :
             a \in answered[s] \/ (a.pkt = current.pkt /\ (a.ack => result = "ACK"))
  BY <1>1, <1>2, ReplyType
<1>6. /\ dup'[s] = Remember(dup[s], Number(current.pkt), result)
      /\ log'[s] = IF took THEN Append(log[s], current.pkt) ELSE log[s]
      /\ \A u \in TrunkSlots : u # s => dup'[u] = dup[u] /\ log'[u] = log[u]
  BY <1>1, <1>2, <1>3
<1>7. TrunkOk(open[s], buffer[s], hub[s], dup'[s], log'[s], answered'[s])
  <2>1. /\ AnsweredToo(answered[s], answered'[s], current.pkt, result)
        /\ result # "IMM_REPLY"
    BY <1>1, <1>5 DEF AnsweredToo
  <2>2. /\ dup'[s].last_acked_seq = Number(current.pkt) /\ dup'[s].last_tx_result = result
    BY <1>6 DEF Remember
  <2>3. \/ log'[s] = log[s] /\ result # "ACK"
        \/ log'[s] = Append(log[s], current.pkt) /\ result # "NACK"
    BY <1>1, <1>6
  <2>4. hub[s].issued \in 0..MaxPackets /\ log[s] \in Seq(Nat)
    BY <1>3
  <2>5. /\ QueueOk(buffer[s], hub[s], dup'[s], log'[s]) /\ HubOk(hub[s], dup'[s], log'[s])
        /\ AckOk(open[s], dup'[s], log'[s], answered'[s])
    <3>1. HandedOver(open[s], buffer[s], hub[s], dup[s], log[s], answered[s], answered'[s], current.pkt,
                     result, dup'[s], log'[s])
      BY <1>4, <2>1, <2>2, <2>3, <2>4 DEF HandedOver
    <3> QED
      BY <3>1, PacketSent
  <2> QED
    BY <2>5 DEF TrunkOk
<1> QED
  BY <1>0, <1>2, <1>5, <1>6, <1>7, OneTrunk

LEMMA ArrivePackets ==
    ASSUME TypeInv, PacketInv, reconfigs = 0, NEW s \in Slots, NEW e \in Datagram, Arrives(s, e),
           UNCHANGED <<tables, taskVars, ctl, answered, hubVars, log, reconfigs>>,
           e.kind = "DATA" => s \in TrunkSlots /\ hub[s].waits /\ e.pkt = hub[s].issued
    PROVE  PacketInv'
<1>0. /\ ctl = "running" /\ ctl' = "running" /\ UNCHANGED <<open, hub, dup, log, answered, pc, pos, current>>
      /\ buffer' = [buffer EXCEPT ![s] = Append(@, e)] /\ buffer \in [Slots -> Seq(Datagram)]
      /\ TrunkSlots \subseteq Slots
  BY BufferPut, SlotKinds DEF PacketInv, tables, taskVars, hubVars, TypeInv, Shape
<1>1. CASE s \notin TrunkSlots
  <2>1. \A u \in TrunkSlots : buffer'[u] = buffer[u]
    BY <1>0, <1>1
  <2> QED
    BY <1>0, <2>1, PacketsKept
<1>2. CASE s \in TrunkSlots
  <2>1. /\ QueueOk(buffer[s], hub[s], dup[s], log[s]) /\ HubOk(hub[s], dup[s], log[s])
        /\ AckOk(open[s], dup[s], log[s], answered[s])
    BY <1>2 DEF PacketInv
  <2>2. hub[s].issued \in Nat /\ buffer[s] \in Seq(Datagram)
    BY <1>0, <1>2, Numbers DEF TypeInv, TypeOK
  <2>3. e.kind = "DATA" => e.pkt = hub[s].issued /\ hub[s].issued >= 1
                           /\ Settles(dup[s], log[s], hub[s].issued)
    BY <2>1 DEF HubOk
  <2>4. /\ QueueOk(Append(buffer[s], e), hub[s], dup[s], log[s])
        /\ \A p : SendOk(buffer[s], hub[s], log[s], p) => SendOk(Append(buffer[s], e), hub[s], log[s], p)
    BY <2>1, <2>2, <2>3, QueueAdded
  <2>5. buffer'[s] = Append(buffer[s], e) /\ \A u \in TrunkSlots : u # s => buffer'[u] = buffer[u]
    BY <1>0, <1>2
  <2>6. TrunkOk(open[s], buffer'[s], hub[s], dup[s], log[s], answered[s])
    BY <2>1, <2>4, <2>5 DEF TrunkOk
  <2>7. pc = "send" /\ Sending = s => SendOk(buffer'[s], hub[s], log[s], current.pkt)
    BY <2>4, <2>5 DEF PacketInv
  <2>8. Sending' = Sending
    BY <1>0 DEF Sending
  <2> QED
    BY <1>0, <1>2, <2>5, <2>6, <2>7, <2>8, OneTrunk
<1> QED
  BY <1>1, <1>2

LEMMA HubPackets ==
    ASSUME TypeInv, PacketInv, reconfigs = 0, NEW s \in TrunkSlots,
           HubSends(s) \/ HubGivesUp(s) \/ HubAnswered(s)
    PROVE  PacketInv'
<1>0. /\ ctl = "running" /\ ctl' = "running" /\ UNCHANGED <<open, buffer, dup, log, pc, pos, current>>
      /\ answered' = [answered EXCEPT ![s] = {}]
      /\ hub \in [TrunkSlots -> [issued : 0..MaxPackets, waits : BOOLEAN]]
      /\ answered \in [TrunkSlots -> SUBSET Answered]
      /\ buffer[s] \in Seq(Datagram) /\ hub[s].issued \in Nat
  BY SlotKinds, Numbers
     DEF PacketInv, HubSends, HubGivesUp, HubAnswered, tables, taskVars, TypeInv, TypeOK, Shape
<1>1. /\ QueueOk(buffer[s], hub[s], dup[s], log[s]) /\ HubOk(hub[s], dup[s], log[s])
      /\ AckOk(open[s], dup[s], log[s], answered[s])
  BY DEF PacketInv
<1>2. /\ QueueOk(buffer[s], hub'[s], dup[s], log[s]) /\ HubOk(hub'[s], dup[s], log[s])
      /\ \A p : SendOk(buffer[s], hub[s], log[s], p) => SendOk(buffer[s], hub'[s], log[s], p)
      /\ \A u \in TrunkSlots : u # s => hub'[u] = hub[u]
  <2>1. CASE HubSends(s)
    <3>1. hub' = [hub EXCEPT ![s] = [issued |-> @.issued + 1, waits |-> TRUE]]
      BY <2>1 DEF HubSends
    <3>2. hub'[s].issued = hub[s].issued + 1 /\ \A u \in TrunkSlots : u # s => hub'[u] = hub[u]
      BY <1>0, <3>1
    <3> QED
      BY <1>0, <1>1, <3>2, HubAdvances
  <2>2. CASE HubGivesUp(s) \/ HubAnswered(s)
    <3>1. hub' = [hub EXCEPT ![s].waits = FALSE]
      BY <2>2 DEF HubGivesUp, HubAnswered
    <3>2. /\ hub'[s].issued = hub[s].issued /\ ~hub'[s].waits
          /\ \A u \in TrunkSlots : u # s => hub'[u] = hub[u]
      BY <1>0, <3>1
    <3> QED
      BY <1>1, <3>2, HubWaitsNoMore
  <2> QED
    BY <2>1, <2>2
<1>3. /\ answered'[s] = {} /\ \A u \in TrunkSlots : u # s => answered'[u] = answered[u]
  BY <1>0
<1>4. TrunkOk(open[s], buffer'[s], hub'[s], dup'[s], log'[s], answered'[s])
  BY <1>0, <1>1, <1>2, <1>3 DEF TrunkOk, AckOk
<1>5. pc = "send" /\ Sending = s => SendOk(buffer'[s], hub'[s], log'[s], current.pkt)
  BY <1>0, <1>2 DEF PacketInv
<1>6. Sending' = Sending
  BY <1>0 DEF Sending
<1> QED
  BY <1>0, <1>2, <1>3, <1>4, <1>5, <1>6, OneTrunk

LEMMA StepPackets == TypeInv /\ PacketInv /\ [Next]_vars => PacketInv'
<1> SUFFICES ASSUME TypeInv, PacketInv, [Next]_vars, reconfigs' = 0 PROVE PacketInv'
  BY DEF PacketInv
<1>0. reconfigs = 0 /\ ctl = "running"
  <2>1. reconfigs \in Nat /\ (reconfigs' = reconfigs \/ reconfigs' = reconfigs + 1)
    BY DEF TypeInv, Shape, Next, Task, Network, Select, Stop, Receive, SendReturns, EndOfRound,
           Shutdown, Rebuild, SetupStations, SetupTrunks, OtherArrives, HubSends, HubRepeats,
           HubGivesUp, HubAnswered, vars
  <2> QED
    BY <2>1 DEF PacketInv
<1>1. CASE Select \/ EndOfRound
  <2>1. UNCHANGED <<open, hub, dup, log, answered, buffer, ctl>> /\ pc' # "send"
    BY <1>1 DEF Select, EndOfRound, tables, hubVars
  <2> QED
    BY <1>0, <2>1, PacketsKept
<1>2. CASE Stop \/ Shutdown \/ Rebuild
  <2>1. CASE Shutdown
    BY <1>0, <2>1 DEF Shutdown
  <2> QED
    BY <1>0, <1>2, <2>1 DEF Stop, Rebuild, SetupStations, SetupTrunks
<1>3. ASSUME NEW s \in Slots, OtherArrives(s) PROVE PacketInv'
  <2> DEFINE e == [kind |-> "OTHER", pkt |-> 0]
  <2>1. e \in Datagram /\ e.kind = "OTHER"
    BY FirstTrunk DEF Idle
  <2>2. Arrives(s, e) /\ UNCHANGED <<tables, taskVars, ctl, answered, hubVars, log, reconfigs>>
    BY <1>3 DEF OtherArrives
  <2> HIDE DEF e
  <2> QED
    BY <1>0, <2>1, <2>2, ArrivePackets
<1>4. ASSUME NEW s \in TrunkSlots, HubRepeats(s) PROVE PacketInv'
  <2> DEFINE e == [kind |-> "DATA", pkt |-> hub[s].issued]
  <2>1. e \in Datagram /\ e.kind = "DATA" /\ e.pkt = hub[s].issued
    BY DEF TypeInv, TypeOK, Datagram, Kinds
  <2>2. /\ Arrives(s, e) /\ UNCHANGED <<tables, taskVars, ctl, answered, hubVars, log, reconfigs>>
        /\ hub[s].waits
    BY <1>4 DEF HubRepeats
  <2> HIDE DEF e
  <2> QED
    BY <1>0, <2>1, <2>2, SlotKinds, ArrivePackets
<1>5. CASE UNCHANGED vars
  <2>1. UNCHANGED <<open, hub, dup, log, answered, buffer, ctl, reconfigs, pc, pos, current>>
    BY <1>5 DEF vars, tables, taskVars, hubVars
  <2> QED
    BY <2>1, PacketsKept
<1> QED
  BY <1>0, <1>1, <1>2, <1>3, <1>4, <1>5, ReceivePackets, SendPackets, HubPackets DEF Next, Task, Network

PacketState == FreshNumbers /\ TypeInv /\ PacketInv

LEMMA PacketsStay == FreshNumbers /\ Spec => []PacketState
<1>1. FreshNumbers /\ Init => PacketState
  BY InitTypes, InitPackets DEF PacketState
<1>2. PacketState /\ [Next]_vars => PacketState'
  BY StepTypes, StepPackets DEF PacketState, FreshNumbers
<1> QED
  BY <1>1, <1>2, PTL DEF Spec

LEMMA KeepsPromise ==
    PacketState /\ [Next]_vars /\ reconfigs' = 0
        => \A s \in TrunkSlots : [Promise(s)!Next]_(Promise(s)!vars)
<1> SUFFICES ASSUME PacketState, [Next]_vars, reconfigs' = 0, NEW s \in TrunkSlots
             PROVE  [Promise(s)!Next]_(Promise(s)!vars)
  OBVIOUS
<1>1. /\ TypeInv /\ PacketInv
      /\ hub \in [TrunkSlots -> [issued : 0..MaxPackets, waits : BOOLEAN]]
      /\ log \in [TrunkSlots -> Seq(Nat)] /\ acked \in [TrunkSlots -> SUBSET Nat]
  BY DEF PacketState, TypeInv, Shape
<1>2. CASE hub'[s].issued = hub[s].issued /\ UNCHANGED <<log[s], acked[s]>>
  BY <1>2 DEF Promise!vars
<1>3. ASSUME NEW u \in TrunkSlots, HubSends(u) PROVE [Promise(s)!Next]_(Promise(s)!vars)
  <2>1. /\ hub' = [hub EXCEPT ![u] = [issued |-> @.issued + 1, waits |-> TRUE]]
        /\ UNCHANGED <<log, acked>>
    BY <1>3 DEF HubSends
  <2>2. CASE s = u
    <3>1. hub'[s].issued = hub[s].issued + 1
      BY <1>1, <2>1, <2>2
    <3> QED
      BY <2>1, <3>1 DEF Promise!Next, Promise!Submit
  <2>3. CASE s # u
    BY <1>1, <1>2, <2>1, <2>3
  <2> QED
    BY <2>2, <2>3
<1>4. CASE SendReturns
  <2> DEFINE p == current.pkt
  <2>1. /\ Sending \in TrunkSlots /\ pc = "send" /\ UNCHANGED <<hub, acked>>
        /\ log' = log \/ log' = [log EXCEPT ![Sending] = Append(@, p)]
    <3>1. PICK took \in BOOLEAN :
               log' = IF took THEN [log EXCEPT ![Sending] = Append(@, p)] ELSE log
      BY <1>1, <1>4, SendReturnsIs
    <3> QED
      BY <1>1, <1>4, <3>1, SendReturnsIs DEF SendReturns, hubVars
  <2>2. CASE s = Sending /\ log' = [log EXCEPT ![Sending] = Append(@, p)]
    <3>1. log'[s] = Append(log[s], p)
      BY <1>1, <2>2
    <3>2. reconfigs = 0
      BY <1>4 DEF SendReturns
    <3>3. p \in 1..hub[s].issued /\ \A i \in DOMAIN log[s] : log[s][i] < p
      BY <1>1, <2>1, <2>2, <3>2 DEF PacketInv, SendOk
    <3> HIDE DEF p
    <3> QED
      BY <2>1, <3>1, <3>3 DEF Promise!Next, Promise!Deliver
  <2>3. CASE s # Sending \/ log' = log
    <3>1. log'[s] = log[s]
      BY <1>1, <2>1, <2>3
    <3> QED
      BY <1>2, <2>1, <3>1
  <2> QED
    BY <2>1, <2>2, <2>3
<1>5. ASSUME NEW u \in TrunkSlots, HubAnswered(u) PROVE [Promise(s)!Next]_(Promise(s)!vars)
  <2>1. PICK a \in answered[u] :
             /\ a.pkt = hub[u].issued
             /\ acked' = IF a.ack THEN [acked EXCEPT ![u] = @ \cup {a.pkt}] ELSE acked
    BY <1>5 DEF HubAnswered
  <2>2. UNCHANGED log /\ reconfigs = 0 /\ hub' = [hub EXCEPT ![u].waits = FALSE]
    BY <1>5 DEF HubAnswered
  <2>3. hub'[s].issued = hub[s].issued
    BY <1>1, <2>2
  <2>4. CASE s = u /\ a.ack
    <3>1. acked'[s] = acked[s] \cup {a.pkt}
      BY <1>1, <2>1, <2>4
    <3>2. \E i \in DOMAIN log[s] : log[s][i] = a.pkt
      BY <1>1, <2>1, <2>2, <2>4 DEF PacketInv, AckOk
    <3>3. \A i \in DOMAIN log[s] : log[s][i] \in 1..hub[s].issued
      BY <1>1, <2>2 DEF PacketInv, HubOk
    <3>4. a.pkt \in 1..hub[s].issued
      BY <3>2, <3>3
    <3> QED
      BY <2>2, <2>3, <3>1, <3>2, <3>4 DEF Promise!Next, Promise!Acknowledge
  <2>5. CASE s # u \/ ~a.ack
    <3>1. acked'[s] = acked[s]
      BY <1>1, <2>1, <2>5
    <3> QED
      BY <1>2, <2>2, <2>3, <3>1
  <2> QED
    BY <2>4, <2>5
<1>6. ASSUME NEW u \in TrunkSlots, HubGivesUp(u) PROVE [Promise(s)!Next]_(Promise(s)!vars)
  <2>1. UNCHANGED <<log, acked>> /\ hub' = [hub EXCEPT ![u].waits = FALSE]
    BY <1>6 DEF HubGivesUp
  <2>2. hub'[s].issued = hub[s].issued
    BY <1>1, <2>1
  <2> QED
    BY <1>2, <2>1, <2>2
<1>7. \/ UNCHANGED <<hub, log, acked>> \/ SendReturns \/ SetupTrunks
      \/ \E u \in TrunkSlots : HubSends(u) \/ HubAnswered(u) \/ HubGivesUp(u)
  BY DEF Next, Task, Network, Select, Stop, Receive, EndOfRound, Shutdown, Rebuild, SetupStations,
         OtherArrives, HubRepeats, vars, hubVars
<1>8. ~SetupTrunks
  BY <1>1 DEF PacketInv, SetupTrunks
<1> QED
  BY <1>2, <1>3, <1>4, <1>5, <1>6, <1>7, <1>8

(* Every trunk implements Delivery towards its hub until the first         *)
(* reconfiguration: the hub's packets are accepted in order, at most once,  *)
(* and an ACK stands for one that was accepted.                             *)
THEOREM TrunksDeliver == FreshNumbers /\ Spec => TrunkPromise
<1>1. PacketState /\ [Next]_vars
         => [reconfigs' = 0 => \A s \in TrunkSlots : [Promise(s)!Next]_(Promise(s)!vars)]_vars
  BY KeepsPromise
<1> QED
  BY <1>1, PacketsStay, PTL DEF Spec, TrunkPromise
=============================================================================
