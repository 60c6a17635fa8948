-------------------------- MODULE AunInboundProofs --------------------------
(***************************************************************************)
(* Theorems about module AunInbound, for every number of hosts, stations,  *)
(* packets, restarts and reconfigurations.                                 *)
(***************************************************************************)
EXTENDS AunInbound, Integers, SequenceTheorems, TLAPS

(* Queues: their types, their elements, and where those are. *)
LEMMA TailType ==
    ASSUME NEW T, NEW q \in Seq(T), q # <<>>
    PROVE  /\ Head(q) \in T
           /\ Tail(q) \in Seq(T)
           /\ Len(Tail(q)) = Len(q) - 1
BY HeadTailProperties

LEMMA ElementType ==
    ASSUME NEW T, NEW q \in Seq(T), NEW i \in DOMAIN q PROVE q[i] \in T
BY LenProperties, ElementOfSeq

LEMMA WiderType ==
    ASSUME NEW S, NEW T, S \subseteq T, NEW q \in Seq(S) PROVE q \in Seq(T)
BY SeqDef

LEMMA AppendedElements ==
    ASSUME NEW T, NEW q \in Seq(T), NEW x \in T
    PROVE  \A i \in DOMAIN Append(q, x) :
               Append(q, x)[i] = x \/ \E j \in DOMAIN q : Append(q, x)[i] = q[j]
BY AppendProperties, LenProperties

LEMMA TakenElements ==
    ASSUME NEW T, NEW q \in Seq(T), q # <<>>
    PROVE  /\ \E j \in DOMAIN q : Head(q) = q[j]
           /\ \A i \in DOMAIN Tail(q) : \E j \in DOMAIN q : Tail(q)[i] = q[j]
BY HeadTailProperties, LenProperties, EmptySeq

(* The bridge tells hosts apart by the port they send from alone. *)
PortsDistinct == \A g, h \in Hosts : Port[g] = Port[h] => g = h

(* It remembers one number per host, whichever station a packet is for. *)
OneStation == \A l, m \in Links : l[1] = m[1] => l = m

(* The datagrams there are: in the sockets, to be repeated, and in the     *)
(* bridge's hands.                                                          *)
Queued(b) == {sockets[b][i] : i \in DOMAIN sockets[b]}
Asked(l) == [host |-> l[1], beeb |-> l[2], type |-> waiting[l].type,
             pkt |-> waiting[l].pkt, seq |-> waiting[l].seq]
Asking == {l \in Links : waiting[l] # NoWait}
Coming == (UNION {Queued(b) : b \in Beebs}) \cup {Asked(l) : l \in Asking}
Held == {c.d : c \in {current} \ {Idle}}
Known == Coming \cup Held

-----------------------------------------------------------------------------
(* Types, where a datagram belongs, and whom the bridge takes a host for. *)

Wait == [pkt : Nat, seq : Nat, type : {"DATA", "IMM"}]

Shape ==
    /\ answers \in [Hosts -> SUBSET Answer]
    /\ issued \in [Hosts -> Nat] /\ number \in [Hosts -> Nat]
    /\ acked \in [Hosts -> SUBSET Nat]
    /\ log \in [Links -> Seq(Nat)]
    /\ waiting \in [Links -> Wait \cup {NoWait}]
    /\ restarts \in Nat /\ reconfigs \in Nat

Belongs(d) ==
    /\ d \in Datagram
    /\ <<d.host, d.beeb>> \in Links
    /\ d.pkt \in 1..issued[d.host]

TypeInv ==
    /\ TypeOK /\ Shape
    /\ \A d \in Known : Belongs(d)
    /\ \A b \in Beebs : \A d \in Queued(b) : d.beeb = b
    /\ \A h \in Hosts : \A a \in answers[h] : a.from = h /\ a.pkt \in 1..issued[h]
    /\ current # Idle => current.station = current.d.host

(* A packet has one number and one type. *)
OnePacket ==
    \A d, e \in Known : d.host = e.host /\ d.pkt = e.pkt =>
        d.seq = e.seq /\ d.type = e.type /\ d.beeb = e.beeb

(* Up to the first restart, a number stands for one packet, and an ACK for *)
(* one the station accepted.                                               *)
Accepted(h, p) == \E l \in Links : l[1] = h /\ \E i \in DOMAIN log[l] : log[l][i] = p

Vouched(d) ==
    /\ slots[d.host].last_tx_result = "ACK" /\ slots[d.host].last_acked_seq = d.seq
           => Accepted(d.host, d.pkt)
    /\ \A a \in answers[d.host] : a.type = "ACK" /\ a.pkt = d.pkt => Accepted(d.host, d.pkt)

AckInv ==
    restarts = 0 =>
        /\ \A h \in Hosts : number[h] = issued[h]
        /\ \A d \in Known : d.seq + 1 = d.pkt
        /\ \A h \in Hosts : \A a \in answers[h] : a.seq + 1 = a.pkt
        /\ \A h \in Hosts : slots[h].last_tx_result = "ACK" => slots[h].last_acked_seq < number[h]
        /\ \A d \in Coming : d.type = "DATA" => Vouched(d)
        /\ \A h \in Hosts : \A p \in acked[h] : Accepted(h, p)

(* Up to the first reconfiguration: the packets of a host are queued in    *)
(* order, and behind those the station accepted; a repetition of one it     *)
(* accepted finds it in the slot, so that it is not sent again.             *)
Logged(d) == log[<<d.host, d.beeb>>]

Settled(d) ==
    /\ slots[d.host].last_acked_seq = d.seq
    /\ slots[d.host].last_tx_result \notin {"NACK", "IMM_REPLY"}

InOrder(q) == \A i, j \in DOMAIN q : i < j /\ q[i].host = q[j].host => q[i].pkt <= q[j].pkt

OrderInv ==
    reconfigs = 0 =>
        /\ \A b \in Beebs : InOrder(sockets[b])
        /\ \A l \in Asking : waiting[l].pkt = issued[l[1]]
        /\ \A d \in Coming : \A i \in DOMAIN Logged(d) :
               Logged(d)[i] <= d.pkt /\ (Logged(d)[i] = d.pkt => Settled(d))
        /\ \A e \in Held :
               /\ \A i \in DOMAIN Logged(e) : Logged(e)[i] < e.pkt
               /\ \A d \in Coming : d.host = e.host => e.pkt <= d.pkt
        /\ DeliveredOnce

-----------------------------------------------------------------------------
(* Facts about the data. *)

LEMMA PacketNumbers ==
    ASSUME NEW h \in Hosts
    PROVE  MaxPackets[h] \in Nat /\ 1..MaxPackets[h] \subseteq Packets
BY AunInboundConstants DEF Packets

LEMMA PacketsAreNat == Packets \subseteq Nat
BY AunInboundConstants DEF Packets

LEMMA DatagramFields ==
    ASSUME NEW d \in Datagram
    PROVE  /\ d.host \in Hosts /\ d.beeb \in Beebs /\ d.type \in AllTypes
           /\ d.pkt \in Nat /\ d.seq \in Nat
BY PacketsAreNat DEF Datagram

LEMMA SlotOfHost ==
    ASSUME PortsDistinct, NEW h \in Hosts
    PROVE  StationByPort(Port[h]) = Configured \cap {h}
<1>1. Configured \subseteq Hosts /\ h \in Nat
  BY AunInboundConstants DEF Hosts
<1>2. \A i \in Configured : Port[i] = Port[h] => i = h
  BY <1>1 DEF PortsDistinct
<1> QED
  <2>1. \A i, j \in Configured : Port[i] = Port[h] /\ Port[j] = Port[h] => i <= j
    BY <1>1, <1>2
  <2> QED
    BY <1>2, <2>1 DEF StationByPort

LEMMA LinkEnds == \A l \in Links : l = <<l[1], l[2]>> /\ l[1] \in Hosts /\ l[2] \in Beebs
BY AunInboundConstants

LEMMA AskedFields ==
    ASSUME NEW l \in Links
    PROVE  /\ Asked(l).host = l[1] /\ Asked(l).beeb = l[2] /\ Asked(l).type = waiting[l].type
           /\ Asked(l).pkt = waiting[l].pkt /\ Asked(l).seq = waiting[l].seq
           /\ <<Asked(l).host, Asked(l).beeb>> = l
BY LinkEnds DEF Asked

(* A host is on the air with the packet it awaits an answer for. *)
LEMMA WaitingFields ==
    ASSUME Shape, NEW l \in Asking
    PROVE  waiting[l] \in Wait /\ waiting[l].type \in {"DATA", "IMM"}
BY DEF Shape, Asking, Wait

LEMMA HeldIs ==
    ASSUME TypeOK
    PROVE  /\ current = Idle => Held = {}
           /\ current # Idle => Held = {current.d} /\ current.d \in Datagram
                                /\ current.station \in Configured
BY DEF TypeOK, Held, Idle

(* The sets above, by their elements. *)
Somewhere(d) ==
    \/ \E b \in Beebs : \E i \in DOMAIN sockets[b] : d = sockets[b][i]
    \/ \E l \in Links : waiting[l] # NoWait /\ d = Asked(l)

LEMMA ComingIs ==
    /\ \A d : d \in Coming <=> Somewhere(d)
    /\ \A d : d \in Coming' <=> Somewhere(d)'
<1>1. /\ \A b \in Beebs : \A d : d \in Queued(b) <=> \E i \in DOMAIN sockets[b] : d = sockets[b][i]
      /\ \A b \in Beebs : \A d : d \in Queued(b)' <=> \E i \in DOMAIN sockets'[b] : d = sockets'[b][i]
  BY DEF Queued
<1>2. \A d : d \in Coming <=>
          (\E b \in Beebs : d \in Queued(b)) \/ (\E l \in Asking : d = Asked(l))
  BY DEF Coming
<1>3. \A d : d \in Coming' <=>
          (\E b \in Beebs : d \in Queued(b)') \/ (\E l \in Asking' : d = Asked(l)')
  BY DEF Coming
<1> QED
  BY <1>1, <1>2, <1>3 DEF Asking, Somewhere

(* What a step adds to the datagrams there are. *)
Fresh(d) ==
    \E l \in Links :
        /\ <<d.host, d.beeb>> = l
        /\ d \in Datagram
        /\ issued' = [issued EXCEPT ![l[1]] = @ + 1]
        /\ d.pkt = issued[l[1]] + 1
        /\ d.seq = number[l[1]]
        /\ waiting[l] = NoWait
        /\ UNCHANGED <<slots, current, answers, log>>

LEMMA ArrivesAdds ==
    ASSUME TypeOK, NEW l \in Links, NEW pkt \in Packets, NEW seq \in Nat, NEW type \in AllTypes,
           Arrives(l, pkt, seq, type)
    PROVE  LET d == [host |-> l[1], beeb |-> l[2], type |-> type, pkt |-> pkt, seq |-> seq]
           IN /\ d \in Datagram
              /\ sockets' = [sockets EXCEPT ![l[2]] = Append(@, d)]
              /\ sockets' \in [Beebs -> Seq(Datagram)]
              /\ \A b \in Beebs : Len(sockets'[b]) <= SocketLen
              /\ \A b \in Beebs : Queued(b)' \subseteq Queued(b) \cup {d}
              /\ \A b \in Beebs \ {l[2]} : Queued(b)' = Queued(b)
              /\ \A b \in Beebs : sockets[b] # <<>> => sockets'[b] # <<>>
<1> DEFINE d == [host |-> l[1], beeb |-> l[2], type |-> type, pkt |-> pkt, seq |-> seq]
<1>1. d \in Datagram /\ l[2] \in Beebs
  BY LinkEnds DEF Datagram
<1>2. sockets' = [sockets EXCEPT ![l[2]] = Append(@, d)] /\ Len(sockets[l[2]]) < SocketLen
  BY DEF Arrives
<1>3. sockets \in [Beebs -> Seq(Datagram)] /\ \A b \in Beebs : Len(sockets[b]) <= SocketLen
  BY DEF TypeOK
<1>4. /\ Append(sockets[l[2]], d) \in Seq(Datagram)
      /\ Append(sockets[l[2]], d) # <<>>
      /\ Len(Append(sockets[l[2]], d)) = Len(sockets[l[2]]) + 1
      /\ Len(sockets[l[2]]) \in Nat
  BY <1>1, <1>3, AppendProperties, LenProperties
<1>5. \A i \in DOMAIN Append(sockets[l[2]], d) :
          \/ Append(sockets[l[2]], d)[i] = d
          \/ \E j \in DOMAIN sockets[l[2]] : Append(sockets[l[2]], d)[i] = sockets[l[2]][j]
  BY <1>1, <1>3, AppendedElements
<1> HIDE DEF d
<1>6. \A b \in Beebs : Queued(b)' \subseteq Queued(b) \cup {d}
  BY <1>1, <1>2, <1>3, <1>5 DEF Queued
<1>7. /\ sockets' \in [Beebs -> Seq(Datagram)]
      /\ \A b \in Beebs : Len(sockets'[b]) <= SocketLen
  BY <1>1, <1>2, <1>3, <1>4, AunInboundConstants
<1>8. /\ \A b \in Beebs \ {l[2]} : Queued(b)' = Queued(b)
      /\ \A b \in Beebs : sockets[b] # <<>> => sockets'[b] # <<>>
  BY <1>1, <1>2, <1>3, <1>4 DEF Queued
<1> QED
  BY <1>1, <1>2, <1>6, <1>7, <1>8 DEF d

(* What a reconfiguration leaves of a queue. *)
LEMMA RestOfSocket ==
    ASSUME NEW T, NEW q \in Seq(T), NEW lost \in Nat
    PROVE  LET rest == SubSeq(q, lost + 1, Len(q))
           IN /\ rest \in Seq(T) /\ Len(rest) <= Len(q)
              /\ \A i \in DOMAIN rest : lost + i \in DOMAIN q /\ rest[i] = q[lost + i]
<1> DEFINE rest == SubSeq(q, lost + 1, Len(q))
<1>1. PICK n \in Nat : n = Len(q) /\ DOMAIN q = 1..n /\ \A i \in 1..n : q[i] \in T
  BY LenProperties
<1>2. \A i \in (lost + 1)..n : q[i] \in T
  BY <1>1
<1>3. /\ rest \in Seq(T)
      /\ Len(rest) = IF lost + 1 <= n THEN n - (lost + 1) + 1 ELSE 0
      /\ \A i \in 1..(n - (lost + 1) + 1) : rest[i] = q[(lost + 1) + i - 1]
  BY <1>1, <1>2, SubSeqProperties
<1> HIDE DEF rest
<1>4. PICK k \in Nat : k = Len(rest) /\ DOMAIN rest = 1..k
  BY <1>3, LenProperties
<1>5. k = IF lost + 1 <= n THEN n - (lost + 1) + 1 ELSE 0
  BY <1>3, <1>4
<1>6. k <= n
  BY <1>5
<1>7. ASSUME NEW i \in 1..k
      PROVE  lost + i \in 1..n /\ i \in 1..(n - (lost + 1) + 1) /\ (lost + 1) + i - 1 = lost + i
  BY <1>5
<1>8. \A i \in 1..k : rest[i] = q[lost + i]
  BY <1>3, <1>7
<1> QED
  BY <1>1, <1>3, <1>4, <1>6, <1>7, <1>8 DEF rest

LEMMA ReconfiguredSockets ==
    ASSUME TypeOK, Reconfigure, NEW b \in Beebs
    PROVE  /\ sockets'[b] \in Seq(Datagram) /\ Len(sockets'[b]) <= SocketLen
           /\ Queued(b)' \subseteq Queued(b)
<1>1. PICK lost \in [Beebs -> 0..SocketLen] :
          sockets' = [c \in Beebs |-> SubSeq(sockets[c], lost[c] + 1, Len(sockets[c]))]
  BY DEF Reconfigure
<1> DEFINE q == sockets[b]
           n == lost[b]
<1>2. /\ q \in Seq(Datagram) /\ n \in 0..SocketLen /\ SocketLen \in Nat
      /\ sockets'[b] = SubSeq(q, n + 1, Len(q))
      /\ Len(q) <= SocketLen
  BY <1>1, AunInboundConstants DEF TypeOK
<1> HIDE DEF q, n
<1>3. n \in Nat /\ Len(q) \in Nat
  BY <1>2, LenProperties
<1>4. LET rest == SubSeq(q, n + 1, Len(q))
      IN /\ rest \in Seq(Datagram) /\ Len(rest) <= Len(q)
         /\ \A i \in DOMAIN rest : n + i \in DOMAIN q /\ rest[i] = q[n + i]
  BY <1>2, <1>3, RestOfSocket
<1>5. /\ sockets'[b] \in Seq(Datagram) /\ Len(sockets'[b]) <= Len(q)
      /\ \A i \in DOMAIN sockets'[b] : n + i \in DOMAIN q /\ sockets'[b][i] = q[n + i]
  BY <1>2, <1>4
<1>6. Len(sockets'[b]) \in Nat
  BY <1>5, LenProperties
<1>7. Queued(b)' \subseteq Queued(b)
  BY <1>5 DEF Queued, q
<1> QED
  BY <1>2, <1>3, <1>5, <1>6, <1>7

(* What a host's sending does to the sockets. *)
LEMMA SendArrives ==
    ASSUME TypeOK, Shape, NEW l \in Links, HostSends(l)
    PROVE  \E type \in AllTypes :
             LET d == [host |-> l[1], beeb |-> l[2], type |-> type,
                       pkt |-> issued[l[1]] + 1, seq |-> number[l[1]]]
             IN /\ d \in Datagram /\ d.beeb = l[2]
                /\ waiting' = IF type \in {"DATA", "IMM"}
                              THEN [waiting EXCEPT ![l] =
                                      [pkt |-> issued[l[1]] + 1, seq |-> number[l[1]], type |-> type]]
                              ELSE waiting
                /\ \/ UNCHANGED sockets
                   \/ /\ sockets' = [sockets EXCEPT ![l[2]] = Append(@, d)]
                      /\ sockets' \in [Beebs -> Seq(Datagram)]
                      /\ \A b \in Beebs : Len(sockets'[b]) <= SocketLen
                      /\ \A b \in Beebs \ {l[2]} : Queued(b)' = Queued(b)
                      /\ \A b \in Beebs : Queued(b)' \subseteq Queued(b) \cup {d}
                      /\ \A b \in Beebs : sockets[b] # <<>> => sockets'[b] # <<>>
<1> DEFINE p == issued[l[1]] + 1
           n == number[l[1]]
<1>1. PICK type \in Types[l[1]] :
          /\ Arrives(l, p, n, type) \/ UNCHANGED sockets
          /\ waiting' = IF type \in {"DATA", "IMM"}
                        THEN [waiting EXCEPT ![l] = [pkt |-> p, seq |-> n, type |-> type]]
                        ELSE waiting
  BY DEF HostSends
<1>2. l[1] \in Hosts /\ l[2] \in Beebs
  BY LinkEnds
<1>3. issued[l[1]] \in Nat /\ n \in Nat /\ issued[l[1]] < MaxPackets[l[1]]
  BY <1>2 DEF HostSends, Shape
<1>4. p \in Packets /\ n \in Nat /\ type \in AllTypes
  BY <1>1, <1>2, <1>3, PacketNumbers, AunInboundConstants
<1> DEFINE d == [host |-> l[1], beeb |-> l[2], type |-> type, pkt |-> p, seq |-> n]
<1>5. d \in Datagram /\ d.beeb = l[2]
  BY <1>2, <1>4 DEF Datagram
<1>6. CASE UNCHANGED sockets
  BY <1>1, <1>4, <1>5, <1>6
<1>7. CASE Arrives(l, p, n, type)
  BY <1>1, <1>4, <1>5, <1>7, ArrivesAdds
<1> QED
  BY <1>1, <1>6, <1>7

LEMMA RepeatArrives ==
    ASSUME TypeOK, Shape, NEW l \in Links, HostRepeats(l), Belongs(Asked(l))
    PROVE  /\ Asked(l) \in Datagram /\ Asked(l).beeb = l[2]
           /\ sockets' = [sockets EXCEPT ![l[2]] = Append(@, Asked(l))]
           /\ sockets' \in [Beebs -> Seq(Datagram)]
           /\ \A b \in Beebs : Len(sockets'[b]) <= SocketLen
           /\ \A b \in Beebs \ {l[2]} : Queued(b)' = Queued(b)
           /\ \A b \in Beebs : Queued(b)' \subseteq Queued(b) \cup {Asked(l)}
           /\ \A b \in Beebs : sockets[b] # <<>> => sockets'[b] # <<>>
<1>1. waiting[l] \in Wait
  BY DEF HostRepeats, Shape
<1>2. waiting[l].pkt \in Packets /\ waiting[l].seq \in Nat /\ waiting[l].type \in AllTypes
  BY <1>1, AskedFields DEF Belongs, Datagram, Wait, AllTypes
<1> QED
  BY <1>2, ArrivesAdds, AskedFields DEF HostRepeats, Asked

LEMMA ComingGrows == TypeInv /\ [Next]_vars =>
    \E f : /\ \A d \in Coming' : d \in Coming \/ (d = f /\ Fresh(f))
          /\ \A d \in Known' : d \in Known \/ (d = f /\ Fresh(f))
<1> SUFFICES ASSUME TypeInv, [Next]_vars
             PROVE  \E f : /\ \A d \in Coming' : d \in Coming \/ (d = f /\ Fresh(f))
                           /\ \A d \in Held' : d \in Known
  BY DEF Known
<1>1. TypeOK /\ Shape
  BY DEF TypeInv
<1>2. ASSUME UNCHANGED waiting, \A b \in Beebs : Queued(b)' \subseteq Queued(b)
      PROVE  Coming' \subseteq Coming
  BY <1>2 DEF Coming, Asked, Asking
<1>3. ASSUME UNCHANGED current PROVE Held' \subseteq Known
  BY <1>3 DEF Known, Held
<1>4. ASSUME NEW b \in Beebs, Receive(b)
      PROVE  Coming' \subseteq Coming /\ Held' \subseteq Known
  <2>1. sockets[b] \in Seq(Datagram) /\ sockets[b] # <<>>
    BY <1>1, <1>4 DEF Receive, TypeOK
  <2>2. \A c \in Beebs : Queued(c)' \subseteq Queued(c)
    BY <1>1, <1>4, <2>1, TakenElements DEF Receive, Queued, TypeOK
  <2>3. Head(sockets[b]) \in Known
    BY <2>1, TakenElements, ComingIs DEF Known, Somewhere
  <2>4. Held' \subseteq Held \cup {Head(sockets[b])}
    BY <1>4 DEF Receive, Held, Idle
  <2> QED
    BY <1>2, <1>4, <2>2, <2>3, <2>4 DEF Receive, hostVars, Known
<1>5. ASSUME SendReturns PROVE Coming' \subseteq Coming /\ Held' = {}
  BY <1>2, <1>5 DEF SendReturns, hostVars, Held, Queued
<1>6. ASSUME Reconfigure PROVE Coming' \subseteq Coming /\ Held' \subseteq Known
  <2>1. UNCHANGED <<waiting, current>>
    BY <1>6 DEF Reconfigure, hostVars
  <2> QED
    BY <1>1, <1>2, <1>3, <1>6, <2>1, ReconfiguredSockets
<1>7. ASSUME NEW l \in Links, HostSends(l)
      PROVE  \E f : /\ \A d \in Coming' : d \in Coming \/ (d = f /\ Fresh(f))
                    /\ Held' \subseteq Known
  <2> DEFINE p == issued[l[1]] + 1
             n == number[l[1]]
  <2>1. PICK type \in AllTypes :
          LET d == [host |-> l[1], beeb |-> l[2], type |-> type, pkt |-> p, seq |-> n]
          IN /\ d \in Datagram
             /\ waiting' = IF type \in {"DATA", "IMM"}
                           THEN [waiting EXCEPT ![l] = [pkt |-> p, seq |-> n, type |-> type]]
                           ELSE waiting
             /\ UNCHANGED sockets \/ \A b \in Beebs : Queued(b)' \subseteq Queued(b) \cup {d}
    BY <1>1, <1>7, SendArrives
  <2> DEFINE d == [host |-> l[1], beeb |-> l[2], type |-> type, pkt |-> p, seq |-> n]
  <2>2. /\ d \in Datagram
        /\ waiting' = IF type \in {"DATA", "IMM"}
                      THEN [waiting EXCEPT ![l] = [pkt |-> p, seq |-> n, type |-> type]]
                      ELSE waiting
    BY <2>1
  <2>3. Fresh(d)
    <3>1. <<d.host, d.beeb>> = l /\ d.pkt = issued[l[1]] + 1 /\ d.seq = number[l[1]]
      BY LinkEnds
    <3>2. /\ issued' = [issued EXCEPT ![l[1]] = @ + 1] /\ waiting[l] = NoWait
          /\ UNCHANGED <<slots, current, answers, log>>
      BY <1>7 DEF HostSends, bridgeVars
    <3> QED
      BY <2>2, <3>1, <3>2 DEF Fresh
  <2>4. \A b \in Beebs : Queued(b)' \subseteq Queued(b) \cup {d}
    BY <2>1 DEF Queued
  <2>5. ASSUME NEW m \in Links, waiting'[m] # NoWait PROVE Asked(m)' \in Coming \cup {d}
    <3>2. CASE UNCHANGED waiting
      BY <2>5, <3>2, ComingIs DEF Asked, Somewhere
    <3>3. CASE waiting' = [waiting EXCEPT ![l] = [pkt |-> p, seq |-> n, type |-> type]]
      <4>1. CASE m = l
        BY <1>1, <3>3, <4>1 DEF Asked, Shape
      <4>2. CASE m # l
        <5>1. waiting'[m] = waiting[m]
          BY <1>1, <3>3, <4>2 DEF Shape
        <5> QED
          BY <2>5, <5>1, ComingIs DEF Asked, Somewhere
      <4> QED
        BY <4>1, <4>2
    <3> QED
      BY <2>2, <3>2, <3>3
  <2> HIDE DEF d
  <2> QED
    <3>1. \A b \in Beebs : \A i \in DOMAIN sockets'[b] : sockets'[b][i] \in Coming \cup {d}
      <4>1. ASSUME NEW b \in Beebs, NEW i \in DOMAIN sockets'[b]
            PROVE  sockets'[b][i] \in Queued(b) \cup {d}
        BY <2>4 DEF Queued
      <4>2. \A b \in Beebs : \A e : e \in Queued(b) => e \in Coming
        BY DEF Coming
      <4> QED
        BY <4>1, <4>2
    <3>2. \A e \in Coming' : e \in Coming \cup {d}
      BY <2>5, <3>1, ComingIs DEF Somewhere
    <3> QED
      BY <1>3, <1>7, <2>3, <3>2 DEF HostSends, bridgeVars
<1>8. ASSUME NEW l \in Links, HostRepeats(l) PROVE Coming' \subseteq Coming
  <2>1. Asked(l) \in Coming
    BY <1>8, ComingIs DEF Somewhere, HostRepeats
  <2>2. Belongs(Asked(l))
    BY <2>1 DEF TypeInv, Known
  <2>3. \A b \in Beebs : Queued(b)' \subseteq Queued(b) \cup {Asked(l)}
    BY <1>1, <1>8, <2>2, RepeatArrives
  <2>4. UNCHANGED waiting
    BY <1>8 DEF HostRepeats, hostVars
  <2>5. Asking' = Asking /\ \A m \in Asking : Asked(m)' = Asked(m)
    BY <2>4 DEF Asking, Asked
  <2> QED
    BY <2>1, <2>3, <2>5 DEF Coming
<1>9. ASSUME NEW l \in Links, HostGivesUp(l) \/ HostAnswered(l) PROVE Coming' \subseteq Coming
  <2>1. UNCHANGED sockets /\ waiting' = [waiting EXCEPT ![l] = NoWait]
    BY <1>9 DEF HostGivesUp, HostAnswered
  <2> QED
    BY <1>1, <2>1 DEF Coming, Asking, Asked, Queued, Shape
<1>10. ASSUME NEW h \in Hosts, HostRestarts(h) PROVE Coming' \subseteq Coming
  <2>1. UNCHANGED sockets /\ waiting' = [l \in Links |-> IF l[1] = h THEN NoWait ELSE waiting[l]]
    BY <1>10 DEF HostRestarts
  <2> QED
    <3>1. \A l \in Links : waiting'[l] # NoWait => waiting'[l] = waiting[l]
      BY <2>1
    <3> QED
      BY <2>1, <3>1, ComingIs DEF Somewhere, Asked
<1>11. CASE Select \/ UNCHANGED vars \/ \E h \in Hosts : AnswerLost(h)
  <2>1. UNCHANGED <<current, sockets, waiting>>
    BY <1>11 DEF Select, AnswerLost, vars, bridgeVars, hostVars
  <2> QED
    BY <1>2, <1>3, <2>1 DEF Queued
<1>12. CASE Network
  <2>1. UNCHANGED current
    BY <1>12 DEF Network, HostSends, HostRepeats, HostGivesUp, HostAnswered, AnswerLost, HostRestarts,
                 bridgeVars
  <2> QED
    BY <1>3, <1>7, <1>8, <1>9, <1>10, <1>11, <1>12, <2>1 DEF Network
<1> QED
  BY <1>4, <1>5, <1>6, <1>11, <1>12 DEF Next, Task

-----------------------------------------------------------------------------
(* Types. *)

LEMMA TypesInit == Init => TypeInv
<1> SUFFICES ASSUME Init PROVE TypeInv
  OBVIOUS
<1> USE DEF Init
<1>1. /\ <<>> \in Seq(Datagram) /\ Len(<<>>) = 0
      /\ \A n \in Nat : <<>> \in Seq(1..n)
      /\ <<>> \in Seq(Nat)
  BY EmptySeq
<1>2. TypeOK
  <2>1. slots \in [Hosts -> Slot]
    BY DEF EmptySlot, Slot, Results
  <2>2. sockets \in [Beebs -> Seq(Datagram)] /\ \A b \in Beebs : Len(sockets[b]) <= SocketLen
    BY <1>1, AunInboundConstants
  <2>3. /\ \A h \in Hosts : issued[h] \in 0..MaxPackets[h]
        /\ \A h \in Hosts : number[h] \in 0..issued[h]
    BY PacketNumbers
  <2>4. \A l \in Links : /\ waiting[l].pkt \in 0..issued[l[1]] /\ waiting[l].seq \in Nat
                        /\ log[l] \in Seq(1..issued[l[1]])
    BY <1>1, LinkEnds DEF NoWait
  <2> QED
    BY <2>1, <2>2, <2>3, <2>4 DEF TypeOK
<1>3. Shape
  BY <1>1 DEF Shape
<1>4. Known = {}
  <2>1. \A d : ~ Somewhere(d)
    BY DEF Somewhere
  <2> QED
    BY <2>1, ComingIs DEF Known, Held
<1>5. \A b \in Beebs : Queued(b) = {}
  BY DEF Queued
<1> QED
  BY <1>2, <1>3, <1>4, <1>5 DEF TypeInv

LEMMA GoodReply ==
    ASSUME TypeInv, NEW d \in Known, NEW result \in Results, Reply(d.host, d, result)
    PROVE  /\ answers' \in [Hosts -> SUBSET Answer]
           /\ \A h \in Hosts : \A a \in answers'[h] :
                  \/ a \in answers[h]
                  \/ /\ h = d.host /\ a.from = d.host /\ a.pkt = d.pkt /\ a.seq = d.seq
                     /\ a.type = AnswerType(result)
<1> DEFINE a == [type |-> AnswerType(result), beeb |-> d.beeb, seq |-> d.seq,
                 from |-> d.host, pkt |-> d.pkt]
<1>1. d \in Datagram
  BY DEF TypeInv, Belongs
<1>2. a \in Answer
  BY <1>1 DEF Datagram, Answer, Answers, AnswerType, Results
<1>3. answers \in [Hosts -> SUBSET Answer] /\ d.host \in Hosts
  BY <1>1 DEF TypeInv, Shape, Datagram
<1>4. answers' = [answers EXCEPT ![d.host] = @ \cup {a}]
  BY DEF Reply
<1>5. a.from = d.host /\ a.pkt = d.pkt /\ a.seq = d.seq /\ a.type = AnswerType(result)
  OBVIOUS
<1> HIDE DEF a
<1> QED
  BY <1>2, <1>3, <1>4, <1>5

(* The history of a host grows. *)
LEMMA IssuedGrows == TypeInv /\ [Next]_vars =>
    /\ issued' \in [Hosts -> Nat]
    /\ \A h \in Hosts : /\ issued'[h] \in {issued[h], issued[h] + 1} /\ issued[h] <= issued'[h]
                       /\ issued'[h] \in 0..MaxPackets[h]
<1> SUFFICES ASSUME TypeInv, [Next]_vars
             PROVE  /\ issued' \in [Hosts -> Nat]
                    /\ \A h \in Hosts : /\ issued'[h] \in {issued[h], issued[h] + 1}
                                       /\ issued[h] <= issued'[h]
                                       /\ issued'[h] \in 0..MaxPackets[h]
  OBVIOUS
<1>1. issued \in [Hosts -> Nat] /\ \A h \in Hosts : issued[h] <= MaxPackets[h]
  BY PacketNumbers DEF TypeInv, TypeOK, Shape
<1>2. CASE UNCHANGED issued
  BY <1>1, <1>2
<1>3. ASSUME NEW l \in Links, HostSends(l)
      PROVE  issued' = [issued EXCEPT ![l[1]] = @ + 1] /\ issued[l[1]] < MaxPackets[l[1]]
  BY <1>3 DEF HostSends
<1>4. CASE ~ \E l \in Links : HostSends(l)
  BY <1>2, <1>4 DEF Next, Task, Network, Select, Receive, SendReturns, Reconfigure, HostRepeats,
     HostGivesUp, HostAnswered, AnswerLost, HostRestarts, vars, hostVars
<1> QED
  BY <1>1, <1>3, <1>4, LinkEnds, PacketNumbers

(* What the bridge does with a datagram, hosts being told apart. *)
LEMMA ReceiveCases ==
    ASSUME PortsDistinct, TypeInv, NEW b \in Beebs, Receive(b)
    PROVE  LET d == Head(sockets[b]) IN
           /\ current = Idle
           /\ sockets[b] \in Seq(Datagram) /\ sockets[b] # <<>>
           /\ d \in Queued(b) /\ d \in Coming /\ Belongs(d)
           /\ \/ UNCHANGED <<current, answers>>
              \/ /\ d.host \in Configured
                 /\ SendAgain(slots[d.host], d.seq)
                 /\ current' = [busy |-> TRUE, station |-> d.host, d |-> d]
                 /\ UNCHANGED answers
              \/ /\ ~ SendAgain(slots[d.host], d.seq)
                 /\ Reply(d.host, d, slots[d.host].last_tx_result)
                 /\ UNCHANGED current
<1> DEFINE d == Head(sockets[b])
<1>1. sockets[b] \in Seq(Datagram) /\ sockets[b] # <<>> /\ current = Idle
  BY DEF Receive, TypeInv, TypeOK
<1>2. d \in Queued(b)
  BY <1>1, TakenElements DEF Queued
<1>3. d \in Coming
  BY <1>2, ComingIs DEF Somewhere, Queued
<1>4. Belongs(d) /\ d.host \in Hosts
  BY <1>3, DatagramFields DEF TypeInv, Known, Belongs
<1>5. StationByPort(Port[d.host]) = Configured \cap {d.host}
  BY <1>4, SlotOfHost
<1>6. \/ UNCHANGED <<current, answers>>
      \/ \E s \in StationByPort(Port[d.host]) :
            \/ /\ SendAgain(slots[s], d.seq)
               /\ current' = [busy |-> TRUE, station |-> s, d |-> d]
               /\ UNCHANGED answers
            \/ /\ ~ SendAgain(slots[s], d.seq)
               /\ Reply(s, d, slots[s].last_tx_result)
               /\ UNCHANGED current
  BY DEF Receive, ReplyToRepetition
<1> HIDE DEF d
<1>7. \/ UNCHANGED <<current, answers>>
      \/ /\ d.host \in Configured
         /\ SendAgain(slots[d.host], d.seq)
         /\ current' = [busy |-> TRUE, station |-> d.host, d |-> d]
         /\ UNCHANGED answers
      \/ /\ ~ SendAgain(slots[d.host], d.seq)
         /\ Reply(d.host, d, slots[d.host].last_tx_result)
         /\ UNCHANGED current
  BY <1>5, <1>6
<1> QED
  BY <1>1, <1>2, <1>3, <1>4, <1>7 DEF d

(* And with what becomes of it. *)
LEMMA ReturnCases ==
    ASSUME TypeInv, SendReturns
    PROVE  LET d == current.d IN
           /\ Held = {d} /\ Belongs(d) /\ current.station = d.host
           /\ \E result \in Results, took \in BOOLEAN :
                 /\ Possible(d.type, result, took)
                 /\ log' = IF took /\ d.type = "DATA"
                           THEN [log EXCEPT ![<<d.host, d.beeb>>] = Append(@, d.pkt)]
                           ELSE log
                 /\ slots' = [slots EXCEPT ![d.host] =
                                 [last_acked_seq |-> d.seq, last_tx_result |-> result]]
                 /\ Reply(d.host, d, result)
<1>1. current # Idle /\ TypeOK
  BY DEF SendReturns, TypeInv
<1>2. Held = {current.d} /\ Belongs(current.d) /\ current.station = current.d.host
  BY <1>1, HeldIs DEF TypeInv, Known
<1> QED
  BY <1>2 DEF SendReturns, Remember

LEMMA SocketsStep == TypeInv /\ [Next]_vars =>
    /\ sockets' \in [Beebs -> Seq(Datagram)]
    /\ \A b \in Beebs : Len(sockets'[b]) <= SocketLen
    /\ ready' \subseteq Beebs /\ \A b \in ready' : sockets'[b] # <<>>
    /\ \A b \in Beebs : \A d \in Queued(b)' : d.beeb = b
<1> DEFINE Good ==
        /\ sockets' \in [Beebs -> Seq(Datagram)]
        /\ \A b \in Beebs : Len(sockets'[b]) <= SocketLen
        /\ ready' \subseteq Beebs /\ \A b \in ready' : sockets'[b] # <<>>
        /\ \A b \in Beebs : \A d \in Queued(b)' : d.beeb = b
<1> SUFFICES ASSUME TypeInv, [Next]_vars PROVE Good
  OBVIOUS
<1>1. /\ sockets \in [Beebs -> Seq(Datagram)]
      /\ \A b \in Beebs : Len(sockets[b]) <= SocketLen
      /\ ready \subseteq Beebs /\ \A b \in ready : sockets[b] # <<>>
      /\ \A b \in Beebs : \A d \in Queued(b) : d.beeb = b
      /\ TypeOK /\ Shape
  BY DEF TypeInv, TypeOK
<1>2. ASSUME UNCHANGED sockets, ready' \subseteq ready PROVE Good
  BY <1>1, <1>2 DEF Queued
<1>3. ASSUME NEW b \in Beebs, Receive(b) PROVE Good
  <2>1. sockets[b] \in Seq(Datagram) /\ sockets[b] # <<>>
    BY <1>1, <1>3 DEF Receive
  <2>2. /\ Tail(sockets[b]) \in Seq(Datagram) /\ Len(Tail(sockets[b])) = Len(sockets[b]) - 1
        /\ \A i \in DOMAIN Tail(sockets[b]) : \E j \in DOMAIN sockets[b] :
               Tail(sockets[b])[i] = sockets[b][j]
    BY <2>1, TailType, TakenElements
  <2>3. sockets' = [sockets EXCEPT ![b] = Tail(@)] /\ ready' = ready \ {b}
    BY <1>3 DEF Receive
  <2>4. \A c \in Beebs : Queued(c)' \subseteq Queued(c)
    BY <1>1, <2>2, <2>3 DEF Queued
  <2>5. Len(sockets[b]) \in Nat
    BY <2>1, LenProperties
  <2>6. \A c \in Beebs : Len(sockets'[c]) <= SocketLen
    BY <1>1, <2>2, <2>3, <2>5, AunInboundConstants
  <2> QED
    BY <1>1, <2>2, <2>3, <2>4, <2>6
<1>4. CASE Select
  BY <1>1, <1>4 DEF Select, Queued
<1>5. CASE Reconfigure
  <2>1. ready' = {} /\ sockets' = [b \in Beebs |-> sockets'[b]]
    BY <1>5 DEF Reconfigure
  <2> QED
    BY <1>1, <1>5, <2>1, ReconfiguredSockets
<1>6. ASSUME NEW l \in Links, HostSends(l) \/ HostRepeats(l) PROVE Good
  <2>1. PICK d : /\ d.beeb = l[2]
                 /\ \/ UNCHANGED sockets
                    \/ /\ sockets' \in [Beebs -> Seq(Datagram)]
                       /\ \A b \in Beebs : Len(sockets'[b]) <= SocketLen
                       /\ \A b \in Beebs \ {l[2]} : Queued(b)' = Queued(b)
                       /\ \A b \in Beebs : Queued(b)' \subseteq Queued(b) \cup {d}
                       /\ \A b \in Beebs : sockets[b] # <<>> => sockets'[b] # <<>>
    <3>1. HostRepeats(l) => Belongs(Asked(l))
      BY ComingIs DEF Somewhere, HostRepeats, TypeInv, Known
    <3>2. CASE HostRepeats(l)
      BY <1>1, <3>1, <3>2, RepeatArrives
    <3>3. CASE HostSends(l)
      <4>1. PICK type \in AllTypes :
              LET d == [host |-> l[1], beeb |-> l[2], type |-> type,
                        pkt |-> issued[l[1]] + 1, seq |-> number[l[1]]]
              IN /\ d.beeb = l[2]
                 /\ \/ UNCHANGED sockets
                    \/ /\ sockets' \in [Beebs -> Seq(Datagram)]
                       /\ \A b \in Beebs : Len(sockets'[b]) <= SocketLen
                       /\ \A b \in Beebs \ {l[2]} : Queued(b)' = Queued(b)
                       /\ \A b \in Beebs : Queued(b)' \subseteq Queued(b) \cup {d}
                       /\ \A b \in Beebs : sockets[b] # <<>> => sockets'[b] # <<>>
        BY <1>1, <3>3, SendArrives
      <4> QED
        BY <4>1
    <3> QED
      BY <1>6, <3>2, <3>3
  <2>2. UNCHANGED ready
    BY <1>6 DEF HostSends, HostRepeats, bridgeVars
  <2> QED
    BY <1>1, <1>2, <2>1, <2>2
<1>7. CASE SendReturns \/ UNCHANGED vars \/ (\E h \in Hosts : AnswerLost(h) \/ HostRestarts(h))
           \/ (\E l \in Links : HostGivesUp(l) \/ HostAnswered(l))
  BY <1>2, <1>7 DEF SendReturns, vars, AnswerLost, HostRestarts, HostGivesUp, HostAnswered, bridgeVars
<1> QED
  BY <1>3, <1>4, <1>5, <1>6, <1>7 DEF Next, Task, Network

LEMMA SlotsStep == PortsDistinct /\ TypeInv /\ [Next]_vars =>
    /\ slots' \in [Hosts -> Slot]
    /\ current' = Idle \/ current' \in [busy : {TRUE}, station : Configured, d : Datagram]
    /\ current' # Idle => current'.station = current'.d.host
<1> DEFINE Busy == [busy : {TRUE}, station : Configured, d : Datagram]
           Good == /\ slots' \in [Hosts -> Slot]
                   /\ current' = Idle \/ current' \in Busy
                   /\ current' # Idle => current'.station = current'.d.host
<1> SUFFICES ASSUME PortsDistinct, TypeInv, [Next]_vars PROVE Good
  OBVIOUS
<1>1. /\ slots \in [Hosts -> Slot]
      /\ current = Idle \/ current \in Busy
      /\ current # Idle => current.station = current.d.host
  BY DEF TypeInv, TypeOK
<1>2. ASSUME NEW b \in Beebs, Receive(b) PROVE Good
  <2>1. UNCHANGED slots
    BY <1>2 DEF Receive
  <2>2. UNCHANGED current
        \/ \E d \in Datagram :
              d.host \in Configured /\ current' = [busy |-> TRUE, station |-> d.host, d |-> d]
    BY <1>2, ReceiveCases DEF Belongs
  <2>3. ASSUME NEW d \in Datagram, d.host \in Configured,
               current' = [busy |-> TRUE, station |-> d.host, d |-> d]
        PROVE  current' \in Busy /\ current'.station = current'.d.host
    BY <2>3
  <2> QED
    BY <1>1, <2>1, <2>2, <2>3
<1>3. CASE SendReturns
  <2>1. current' = Idle /\ current.d \in Datagram
    BY <1>3, ReturnCases DEF SendReturns, Belongs
  <2>2. PICK result \in Results : slots' = [slots EXCEPT ![current.d.host] =
                [last_acked_seq |-> current.d.seq, last_tx_result |-> result]]
    BY <1>3, ReturnCases
  <2>3. [last_acked_seq |-> current.d.seq, last_tx_result |-> result] \in Slot
    BY <2>1, DatagramFields DEF Slot
  <2> QED
    BY <1>1, <2>1, <2>2, <2>3
<1>4. CASE Reconfigure
  BY <1>1, <1>4 DEF Reconfigure, EmptySlot, Slot, Results
<1>5. CASE UNCHANGED <<slots, current>>
  BY <1>1, <1>5
<1>6. Select \/ Network \/ UNCHANGED vars => UNCHANGED <<slots, current>>
  BY DEF Select, Network, HostSends, HostRepeats, HostGivesUp, HostAnswered, AnswerLost, HostRestarts,
         vars, bridgeVars
<1> QED
  BY <1>2, <1>3, <1>4, <1>5, <1>6 DEF Next, Task

LEMMA AnswersStep == PortsDistinct /\ TypeInv /\ [Next]_vars =>
    /\ answers' \in [Hosts -> SUBSET Answer]
    /\ \A h \in Hosts : \A a \in answers'[h] :
           \/ a \in answers[h]
           \/ \E d \in Known : d.host = h /\ a.from = h /\ a.pkt = d.pkt /\ a.seq = d.seq
<1> DEFINE Good ==
        /\ answers' \in [Hosts -> SUBSET Answer]
        /\ \A h \in Hosts : \A a \in answers'[h] :
               \/ a \in answers[h]
               \/ \E d \in Known : d.host = h /\ a.from = h /\ a.pkt = d.pkt /\ a.seq = d.seq
<1> SUFFICES ASSUME PortsDistinct, TypeInv, [Next]_vars PROVE Good
  OBVIOUS
<1>1. answers \in [Hosts -> SUBSET Answer] /\ slots \in [Hosts -> Slot]
  BY DEF TypeInv, TypeOK, Shape
<1>2. ASSUME NEW d \in Known, NEW result \in Results, Reply(d.host, d, result) PROVE Good
  BY <1>2, GoodReply
<1>3. CASE UNCHANGED answers
  BY <1>1, <1>3
<1>4. ASSUME NEW b \in Beebs, Receive(b) PROVE Good
  <2>1. \/ UNCHANGED answers
        \/ \E d \in Known : d.host \in Hosts /\ Reply(d.host, d, slots[d.host].last_tx_result)
    BY <1>4, ReceiveCases, DatagramFields DEF Known, Belongs
  <2> QED
    BY <1>1, <1>2, <1>3, <2>1 DEF Slot
<1>5. CASE SendReturns
  <2>1. current.d \in Known /\ \E result \in Results : Reply(current.d.host, current.d, result)
    BY <1>5, ReturnCases DEF Known
  <2> QED
    BY <1>2, <2>1
<1>6. ASSUME NEW h \in Hosts, NEW a, answers' = [answers EXCEPT ![h] = @ \ {a}] PROVE Good
  BY <1>1, <1>6
<1>7. Select \/ Reconfigure \/ UNCHANGED vars
        \/ (\E l \in Links : HostSends(l) \/ HostRepeats(l) \/ HostGivesUp(l))
        \/ (\E h \in Hosts : HostRestarts(h)) => UNCHANGED answers
  BY DEF Select, Reconfigure, HostSends, HostRepeats, HostGivesUp, HostRestarts, vars
<1>8. ASSUME (\E l \in Links : HostAnswered(l)) \/ (\E h \in Hosts : AnswerLost(h))
      PROVE  \E h \in Hosts : \E a : answers' = [answers EXCEPT ![h] = @ \ {a}]
  BY <1>8, LinkEnds DEF HostAnswered, AnswerLost
<1> QED
  BY <1>3, <1>4, <1>5, <1>6, <1>7, <1>8 DEF Next, Task, Network

LEMMA NumbersStep == TypeInv /\ [Next]_vars =>
    /\ number' \in [Hosts -> Nat] /\ \A h \in Hosts : number'[h] <= issued'[h]
    /\ waiting' \in [Links -> Wait \cup {NoWait}]
    /\ \A l \in Links : waiting'[l].pkt <= issued'[l[1]]
    /\ restarts' \in Nat /\ reconfigs' \in Nat
<1> DEFINE Good ==
        /\ number' \in [Hosts -> Nat] /\ \A h \in Hosts : number'[h] <= issued'[h]
        /\ waiting' \in [Links -> Wait \cup {NoWait}]
        /\ \A l \in Links : waiting'[l].pkt <= issued'[l[1]]
        /\ restarts' \in Nat /\ reconfigs' \in Nat
<1> SUFFICES ASSUME TypeInv, [Next]_vars PROVE Good
  OBVIOUS
<1>1. /\ number \in [Hosts -> Nat] /\ issued \in [Hosts -> Nat]
      /\ \A h \in Hosts : number[h] <= issued[h]
      /\ waiting \in [Links -> Wait \cup {NoWait}]
      /\ \A l \in Links : waiting[l].pkt <= issued[l[1]]
      /\ restarts \in Nat /\ reconfigs \in Nat
  BY LinkEnds DEF TypeInv, TypeOK, Shape
<1>2. NoWait.pkt = 0
  BY DEF NoWait
<1>3. CASE UNCHANGED <<number, issued, waiting>> /\ restarts' \in Nat /\ reconfigs' \in Nat
  BY <1>1, <1>3
<1>4. ASSUME NEW l \in Links, HostSends(l) PROVE Good
  <2>1. /\ number' = [number EXCEPT ![l[1]] = @ + 1] /\ issued' = [issued EXCEPT ![l[1]] = @ + 1]
        /\ UNCHANGED bounds
    BY <1>4 DEF HostSends
  <2>2. \/ UNCHANGED waiting
        \/ \E type \in {"DATA", "IMM"} : waiting' = [waiting EXCEPT ![l] =
                [pkt |-> issued[l[1]] + 1, seq |-> number[l[1]], type |-> type]]
    BY <1>4, SendArrives DEF TypeInv
  <2>3. l[1] \in Hosts /\ \A m \in Links : m[1] \in Hosts
    BY LinkEnds
  <2>4. CASE UNCHANGED waiting
    <3>1. \A h \in Hosts : issued'[h] \in Nat /\ issued[h] <= issued'[h]
      BY <1>1, <2>1, <2>3
    <3>2. \A m \in Links : waiting[m].pkt \in Nat
      BY <1>1, <1>2 DEF Wait
    <3> QED
      BY <1>1, <2>1, <2>3, <2>4, <3>1, <3>2 DEF bounds
  <2>5. ASSUME NEW type \in {"DATA", "IMM"}, waiting' = [waiting EXCEPT ![l] =
                [pkt |-> issued[l[1]] + 1, seq |-> number[l[1]], type |-> type]]
        PROVE  Good
    <3>1. \A h \in Hosts : issued'[h] \in Nat /\ issued[h] <= issued'[h]
      BY <1>1, <2>1, <2>3
    <3>2. \A m \in Links : waiting[m].pkt \in Nat
      BY <1>1, <1>2 DEF Wait
    <3>3. [pkt |-> issued[l[1]] + 1, seq |-> number[l[1]], type |-> type] \in Wait
      BY <1>1, <2>3 DEF Wait
    <3>4. issued'[l[1]] = issued[l[1]] + 1 /\ waiting'[l].pkt = issued[l[1]] + 1
      BY <1>1, <2>1, <2>3, <2>5
    <3>5. \A m \in Links \ {l} : waiting'[m] = waiting[m]
      BY <1>1, <2>5
    <3>6. \A m \in Links : waiting'[m].pkt <= issued'[m[1]]
      BY <1>1, <2>3, <3>1, <3>2, <3>4, <3>5
    <3> QED
      BY <1>1, <2>1, <2>3, <2>5, <3>3, <3>6 DEF bounds
  <2> QED
    BY <2>2, <2>4, <2>5
<1>5. ASSUME NEW l \in Links, HostGivesUp(l) \/ HostAnswered(l) PROVE Good
  <2>1. /\ waiting' = [waiting EXCEPT ![l] = NoWait]
        /\ UNCHANGED <<number, issued, bounds>>
    BY <1>5 DEF HostGivesUp, HostAnswered
  <2> QED
    BY <1>1, <1>2, <2>1, LinkEnds DEF bounds
<1>6. ASSUME NEW h \in Hosts, HostRestarts(h) PROVE Good
  <2>1. /\ waiting' = [l \in Links |-> IF l[1] = h THEN NoWait ELSE waiting[l]]
        /\ number' = [number EXCEPT ![h] = 0]
        /\ restarts' = restarts + 1
        /\ UNCHANGED <<issued, reconfigs>>
    BY <1>6 DEF HostRestarts
  <2> QED
    BY <1>1, <1>2, <2>1, LinkEnds
<1>7. Select \/ (\E b \in Beebs : Receive(b)) \/ SendReturns \/ UNCHANGED vars
        \/ (\E l \in Links : HostRepeats(l)) \/ (\E h \in Hosts : AnswerLost(h))
      => UNCHANGED <<number, issued, waiting, restarts, reconfigs>>
  BY DEF Select, Receive, SendReturns, HostRepeats, AnswerLost, vars, hostVars, bounds
<1>8. Reconfigure => /\ UNCHANGED <<number, issued, waiting, restarts>>
                     /\ reconfigs' = reconfigs + 1
  BY DEF Reconfigure, hostVars
<1> QED
  BY <1>1, <1>3, <1>4, <1>5, <1>6, <1>7, <1>8 DEF Next, Task, Network

LEMMA HistoryStep == TypeInv /\ [Next]_vars =>
    /\ log' \in [Links -> Seq(Nat)] /\ \A l \in Links : log'[l] \in Seq(1..issued'[l[1]])
    /\ acked' \in [Hosts -> SUBSET Nat] /\ \A h \in Hosts : acked'[h] \subseteq 1..issued'[h]
<1> DEFINE GoodLog == /\ log' \in [Links -> Seq(Nat)]
                      /\ \A l \in Links : log'[l] \in Seq(1..issued'[l[1]])
           GoodAcks == /\ acked' \in [Hosts -> SUBSET Nat]
                       /\ \A h \in Hosts : acked'[h] \subseteq 1..issued'[h]
<1> SUFFICES ASSUME TypeInv, [Next]_vars PROVE GoodLog /\ GoodAcks
  OBVIOUS
<1>1. /\ log \in [Links -> Seq(Nat)] /\ \A l \in Links : log[l] \in Seq(1..issued[l[1]])
      /\ acked \in [Hosts -> SUBSET Nat] /\ \A h \in Hosts : acked[h] \subseteq 1..issued[h]
      /\ issued \in [Hosts -> Nat]
  BY DEF TypeInv, TypeOK, Shape
<1>2. /\ issued' \in [Hosts -> Nat] /\ \A h \in Hosts : issued[h] <= issued'[h]
  BY <1>1, IssuedGrows
<1>3. \A h \in Hosts : 1..issued[h] \subseteq 1..issued'[h]
  BY <1>1, <1>2
<1>4. ASSUME NEW l \in Links PROVE log[l] \in Seq(1..issued'[l[1]])
  <2>1. l[1] \in Hosts
    BY LinkEnds
  <2> DEFINE S == 1..issued[l[1]]
             T == 1..issued'[l[1]]
             q == log[l]
  <2>2. q \in Seq(S) /\ S \subseteq T
    BY <1>1, <1>3, <2>1
  <2> HIDE DEF S, T, q
  <2>3. q \in Seq(T)
    BY <2>2, WiderType
  <2> QED
    BY <2>3 DEF T, q
<1>5. ASSUME UNCHANGED log PROVE GoodLog
  BY <1>1, <1>4, <1>5
<1>6. ASSUME UNCHANGED acked PROVE GoodAcks
  BY <1>1, <1>3, <1>6
<1>7. CASE SendReturns
  <2> DEFINE d == current.d
             m == <<d.host, d.beeb>>
  <2>1. Belongs(d)
    BY <1>7, ReturnCases
  <2>2. UNCHANGED log \/ log' = [log EXCEPT ![m] = Append(@, d.pkt)]
    BY <1>7, ReturnCases
  <2>3. m \in Links /\ m[1] = d.host /\ d.host \in Hosts
        /\ d.pkt \in 1..issued[d.host] /\ d.pkt \in Nat
    BY <1>1, <2>1, DatagramFields DEF Belongs
  <2>4. UNCHANGED acked
    BY <1>7 DEF SendReturns, hostVars
  <2> HIDE DEF d, m
  <2>5. /\ Append(log[m], d.pkt) \in Seq(1..issued'[m[1]])
        /\ Append(log[m], d.pkt) \in Seq(Nat)
    BY <1>1, <1>3, <1>4, <2>3, AppendProperties
  <2>6. ASSUME log' = [log EXCEPT ![m] = Append(@, d.pkt)] PROVE GoodLog
    <3>1. \A l \in Links : log'[l] = IF l = m THEN Append(log[m], d.pkt) ELSE log[l]
      BY <1>1, <2>6
    <3>2. log' \in [Links -> Seq(Nat)]
      BY <1>1, <2>3, <2>5, <2>6
    <3> QED
      BY <1>4, <2>5, <3>1, <3>2
  <2> QED
    BY <1>5, <1>6, <2>2, <2>4, <2>6
<1>8. ASSUME NEW l \in Links, HostAnswered(l) PROVE GoodLog /\ GoodAcks
  <2>1. l[1] \in Hosts
    BY LinkEnds
  <2>2. UNCHANGED <<log, issued>>
    BY <1>8 DEF HostAnswered
  <2>3. UNCHANGED acked \/ acked' = [acked EXCEPT ![l[1]] = @ \cup {waiting[l].pkt}]
    BY <1>8 DEF HostAnswered
  <2>4. waiting[l].pkt \in 1..issued[l[1]]
    <3>1. Asked(l) \in Known
      BY <1>8, ComingIs DEF HostAnswered, Somewhere, Known
    <3> QED
      BY <3>1, AskedFields DEF TypeInv, Belongs
  <2>5. waiting[l].pkt \in Nat
    BY <1>1, <2>1, <2>4
  <2>6. ASSUME acked' = [acked EXCEPT ![l[1]] = @ \cup {waiting[l].pkt}] PROVE GoodAcks
    <3>1. acked' \in [Hosts -> SUBSET Nat]
      BY <1>1, <2>1, <2>5, <2>6
    <3> QED
      BY <1>1, <2>1, <2>2, <2>4, <2>6, <3>1
  <2>7. GoodAcks
    BY <1>6, <2>3, <2>6
  <2> QED
    BY <1>5, <2>2, <2>7
<1>9. Select \/ Reconfigure \/ (\E b \in Beebs : Receive(b)) \/ UNCHANGED vars
        \/ (\E l \in Links : HostSends(l) \/ HostRepeats(l) \/ HostGivesUp(l))
        \/ (\E h \in Hosts : AnswerLost(h) \/ HostRestarts(h)) => UNCHANGED <<log, acked>>
  BY DEF Select, Reconfigure, Receive, HostSends, HostRepeats, HostGivesUp, AnswerLost, HostRestarts,
         vars, hostVars
<1> QED
  BY <1>5, <1>6, <1>7, <1>8, <1>9 DEF Next, Task, Network

LEMMA TypesStep == PortsDistinct /\ TypeInv /\ [Next]_vars => TypeInv'
<1> SUFFICES ASSUME PortsDistinct, TypeInv, [Next]_vars PROVE TypeInv'
  OBVIOUS
<1>1. /\ issued \in [Hosts -> Nat] /\ issued' \in [Hosts -> Nat]
      /\ \A h \in Hosts : issued[h] <= issued'[h] /\ issued'[h] \in 0..MaxPackets[h]
      /\ number \in [Hosts -> Nat]
  BY IssuedGrows DEF TypeInv, Shape
<1>2. TypeOK'
  <2>1. \A h \in Hosts : answers'[h] \subseteq Answer
    BY AnswersStep
  <2>2. \A h \in Hosts : number'[h] \in 0..issued'[h]
    BY <1>1, NumbersStep
  <2>3. \A l \in Links : waiting'[l].pkt \in 0..issued'[l[1]] /\ waiting'[l].seq \in Nat
    <3>1. \A w \in Wait \cup {NoWait} : w.pkt \in Nat /\ w.seq \in Nat
      BY DEF Wait, NoWait
    <3> QED
      BY <1>1, <3>1, NumbersStep, LinkEnds
  <2> QED
    BY <1>1, <2>1, <2>2, <2>3, SlotsStep, SocketsStep, HistoryStep DEF TypeOK
<1>3. Shape'
  BY IssuedGrows, AnswersStep, NumbersStep, HistoryStep DEF Shape
<1>4. ASSUME NEW d, Belongs(d) PROVE Belongs(d)'
  BY <1>1, <1>4, DatagramFields DEF Belongs
<1>5. ASSUME NEW d, Fresh(d) PROVE Belongs(d)'
  <2>1. PICK l \in Links : /\ <<d.host, d.beeb>> = l /\ d \in Datagram
                           /\ issued' = [issued EXCEPT ![l[1]] = @ + 1]
                           /\ d.pkt = issued[l[1]] + 1
    BY <1>5 DEF Fresh
  <2>2. d.host = l[1] /\ l[1] \in Hosts
    BY <2>1, LinkEnds
  <2>3. issued'[d.host] = d.pkt /\ issued[l[1]] \in Nat
    BY <1>1, <2>1, <2>2
  <2> QED
    BY <2>1, <2>3 DEF Belongs
<1>6. \A d \in Known' : Belongs(d)'
  BY <1>4, <1>5, ComingGrows DEF TypeInv
<1>7. ASSUME NEW h \in Hosts, NEW a \in answers'[h]
      PROVE  a.from = h /\ a.pkt \in 1..issued'[h]
  <2>1. CASE a \in answers[h]
    BY <1>1, <2>1 DEF TypeInv
  <2>2. CASE \E d \in Known : d.host = h /\ a.from = h /\ a.pkt = d.pkt
    <3>1. PICK d \in Known : d.host = h /\ a.from = h /\ a.pkt = d.pkt
      BY <2>2
    <3>2. d.pkt \in 1..issued[h]
      BY <3>1 DEF TypeInv, Belongs
    <3> QED
      BY <1>1, <3>1, <3>2
  <2> QED
    BY <2>1, <2>2, AnswersStep
<1> QED
  BY <1>2, <1>3, <1>6, <1>7, SlotsStep, SocketsStep DEF TypeInv

-----------------------------------------------------------------------------
(* A packet has one number, and up to the first restart an ACK means it    *)
(* was accepted.                                                           *)

LEMMA FreshIsNew ==
    ASSUME TypeInv, NEW f, Fresh(f)
    PROVE  /\ f.host \in Hosts /\ f.pkt = issued[f.host] + 1 /\ f.seq = number[f.host]
           /\ \A d \in Known : d.host = f.host => d.pkt < f.pkt
           /\ \A a \in answers[f.host] : a.pkt < f.pkt
           /\ issued' # issued
<1>1. PICK l \in Links : /\ <<f.host, f.beeb>> = l /\ f.pkt = issued[l[1]] + 1
                         /\ f.seq = number[l[1]]
                         /\ issued' = [issued EXCEPT ![l[1]] = @ + 1]
  BY DEF Fresh
<1>2. l[1] = f.host /\ f.host \in Hosts
  BY <1>1, LinkEnds
<1>3. issued[f.host] \in Nat
  BY <1>2 DEF TypeInv, Shape
<1>4. \A d \in Known : d.pkt \in 1..issued[d.host]
  BY DEF TypeInv, Belongs
<1>5. \A d \in Known : d.host = f.host => d.pkt < f.pkt
  BY <1>1, <1>2, <1>3, <1>4
<1>6. \A a \in answers[f.host] : a.pkt \in 1..issued[f.host]
  BY <1>2 DEF TypeInv
<1>7. issued'[f.host] # issued[f.host]
  BY <1>1, <1>2, <1>3 DEF TypeInv, Shape
<1> QED
  BY <1>1, <1>2, <1>3, <1>5, <1>6, <1>7

LEMMA OnePacketStep == TypeInv /\ OnePacket /\ [Next]_vars => OnePacket'
<1> SUFFICES ASSUME TypeInv, OnePacket, [Next]_vars,
                    NEW d \in Known', NEW e \in Known', d.host = e.host, d.pkt = e.pkt
             PROVE  d.seq = e.seq /\ d.type = e.type /\ d.beeb = e.beeb
  BY DEF OnePacket
<1>1. PICK f : \A x \in Known' : x \in Known \/ (x = f /\ Fresh(f))
  BY ComingGrows
<1>2. \A x \in Known : x.pkt \in Nat
  BY DatagramFields DEF TypeInv, Belongs
<1>3. CASE d \in Known /\ e \in Known
  BY <1>3 DEF OnePacket
<1>4. CASE d = f /\ e = f
  BY <1>4
<1>5. Fresh(f) => \A x \in Known : x.host = f.host => x.pkt < f.pkt
  BY FreshIsNew
<1>6. CASE d \in Known /\ e = f /\ Fresh(f)
  BY <1>2, <1>5, <1>6
<1>7. CASE e \in Known /\ d = f /\ Fresh(f)
  BY <1>2, <1>5, <1>7
<1> QED
  BY <1>1, <1>3, <1>4, <1>6, <1>7

LEMMA LogGrows == TypeInv /\ [Next]_vars =>
    \A l \in Links : \A i \in DOMAIN log[l] : i \in DOMAIN log'[l] /\ log'[l][i] = log[l][i]
<1> SUFFICES ASSUME TypeInv, [Next]_vars, NEW l \in Links, NEW i \in DOMAIN log[l]
             PROVE  i \in DOMAIN log'[l] /\ log'[l][i] = log[l][i]
  OBVIOUS
<1>1. log \in [Links -> Seq(Nat)] /\ log[l] \in Seq(Nat)
  BY DEF TypeInv, Shape
<1>2. CASE SendReturns
  <2> DEFINE m == <<current.d.host, current.d.beeb>>
             p == current.d.pkt
  <2>1. UNCHANGED log \/ log' = [log EXCEPT ![m] = Append(@, p)]
    BY <1>2, ReturnCases
  <2>2. p \in Nat
    BY <1>2, ReturnCases, DatagramFields DEF Belongs
  <2> HIDE DEF m, p
  <2>3. log'[l] = log[l] \/ log'[l] = Append(log[l], p)
    BY <1>1, <2>1
  <2>4. i \in 1..Len(log[l]) /\ Len(log[l]) \in Nat
    BY <1>1, LenProperties
  <2>5. /\ Append(log[l], p) \in Seq(Nat) /\ Len(Append(log[l], p)) = Len(log[l]) + 1
        /\ Append(log[l], p)[i] = log[l][i]
    BY <1>1, <2>2, <2>4, AppendProperties
  <2>6. i \in DOMAIN Append(log[l], p)
    BY <2>4, <2>5, LenProperties
  <2> QED
    BY <2>3, <2>5, <2>6
<1>3. ~ SendReturns => UNCHANGED log
  BY DEF Next, Task, Network, Select, Reconfigure, Receive, HostSends, HostRepeats, HostGivesUp,
         HostAnswered, AnswerLost, HostRestarts, vars
<1> QED
  BY <1>2, <1>3

LEMMA AcceptedStays ==
    ASSUME TypeInv, [Next]_vars, NEW h, NEW p, Accepted(h, p)
    PROVE  Accepted(h, p)'
BY LogGrows DEF Accepted

LEMMA AckStep == PortsDistinct /\ TypeInv /\ OnePacket /\ AckInv /\ [Next]_vars => AckInv'
<1> SUFFICES ASSUME PortsDistinct, TypeInv, OnePacket, AckInv, [Next]_vars, restarts' = 0
             PROVE  /\ \A h \in Hosts : number'[h] = issued'[h]
                    /\ \A d \in Known' : d.seq + 1 = d.pkt
                    /\ \A h \in Hosts : \A a \in answers'[h] : a.seq + 1 = a.pkt
                    /\ \A h \in Hosts : slots'[h].last_tx_result = "ACK"
                                          => slots'[h].last_acked_seq < number'[h]
                    /\ \A d \in Coming' : d.type = "DATA" => Vouched(d)'
                    /\ \A h \in Hosts : \A p \in acked'[h] : Accepted(h, p)'
  BY DEF AckInv
<1>1. restarts = 0 /\ ~ \E h \in Hosts : HostRestarts(h)
  <2>1. restarts \in Nat
    BY DEF TypeInv, Shape
  <2>2. restarts' = restarts \/ restarts' = restarts + 1
    BY DEF Next, Task, Network, Select, Reconfigure, Receive, SendReturns, HostSends, HostRepeats,
           HostGivesUp, HostAnswered, AnswerLost, HostRestarts, vars, bounds
  <2> QED
    BY <2>1, <2>2 DEF HostRestarts
<1>2. /\ \A h \in Hosts : number[h] = issued[h]
      /\ \A d \in Known : d.seq + 1 = d.pkt
      /\ \A h \in Hosts : \A a \in answers[h] : a.seq + 1 = a.pkt
      /\ \A h \in Hosts : slots[h].last_tx_result = "ACK" => slots[h].last_acked_seq < number[h]
      /\ \A d \in Coming : d.type = "DATA" => Vouched(d)
      /\ \A h \in Hosts : \A p \in acked[h] : Accepted(h, p)
  BY <1>1 DEF AckInv
<1>3. TypeOK /\ Shape /\ slots \in [Hosts -> Slot] /\ number \in [Hosts -> Nat]
      /\ issued \in [Hosts -> Nat] /\ answers \in [Hosts -> SUBSET Answer]
  BY DEF TypeInv, TypeOK, Shape
<1>4. PICK f : /\ \A d \in Coming' : d \in Coming \/ (d = f /\ Fresh(f))
               /\ \A d \in Known' : d \in Known \/ (d = f /\ Fresh(f))
  BY ComingGrows
<1>5. /\ \A h \in Hosts : number'[h] = issued'[h]
      /\ \A h \in Hosts : number[h] <= number'[h]
  <2>1. CASE UNCHANGED <<number, issued>>
    BY <1>2, <1>3, <2>1
  <2>2. ASSUME NEW l \in Links, HostSends(l)
        PROVE  number' = [number EXCEPT ![l[1]] = @ + 1] /\ issued' = [issued EXCEPT ![l[1]] = @ + 1]
    BY <2>2 DEF HostSends
  <2>3. (\E l \in Links : HostSends(l)) \/ UNCHANGED <<number, issued>>
    BY <1>1 DEF Next, Task, Network, Select, Reconfigure, Receive, SendReturns, HostRepeats,
           HostGivesUp, HostAnswered, AnswerLost, vars, hostVars
  <2> QED
    BY <1>2, <1>3, <2>1, <2>2, <2>3, LinkEnds
<1>6. \A d \in Known' : d.seq + 1 = d.pkt
  BY <1>2, <1>4, FreshIsNew
<1>7. \A h \in Hosts : \A a \in answers'[h] : a.seq + 1 = a.pkt
  BY <1>2, AnswersStep
<1>8. ASSUME NEW h \in Hosts, slots'[h].last_tx_result = "ACK"
      PROVE  slots'[h].last_acked_seq < number'[h]
  <2>1. number[h] \in Nat /\ number'[h] \in Nat /\ slots[h] \in Slot
    BY <1>3, NumbersStep
  <2>2. CASE slots'[h] = slots[h]
    BY <1>2, <1>5, <1>8, <2>1, <2>2 DEF Slot
  <2>3. CASE SendReturns /\ h = current.d.host
    <3>1. /\ current.d \in Known /\ Belongs(current.d)
          /\ slots'[h].last_acked_seq = current.d.seq
      <4>1. current.d \in Known /\ Belongs(current.d)
        BY <2>3, ReturnCases DEF Known
      <4>2. PICK result \in Results : slots' = [slots EXCEPT ![h] =
                [last_acked_seq |-> current.d.seq, last_tx_result |-> result]]
        BY <2>3, ReturnCases
      <4> QED
        BY <1>3, <4>1, <4>2
    <3>2. current.d.seq + 1 = current.d.pkt /\ current.d.pkt \in 1..number[h]
          /\ current.d.seq \in Nat
      BY <1>2, <2>3, <3>1, DatagramFields DEF Belongs
    <3> QED
      BY <1>5, <2>1, <3>1, <3>2
  <2>4. CASE Reconfigure
    BY <1>8, <2>4 DEF Reconfigure, EmptySlot
  <2>5. CASE SendReturns /\ h # current.d.host
    BY <1>3, <2>2, <2>5, ReturnCases
  <2>6. SendReturns \/ Reconfigure \/ UNCHANGED slots
    BY DEF Next, Task, Network, Select, Receive, HostSends, HostRepeats,
           HostGivesUp, HostAnswered, AnswerLost, HostRestarts, vars, bridgeVars
  <2> QED
    BY <2>2, <2>3, <2>4, <2>5, <2>6
<1>9. ASSUME NEW d \in Coming', d.type = "DATA" PROVE Vouched(d)'
  <2>1. CASE d = f /\ Fresh(f)
    <3>1. /\ d.host \in Hosts /\ d.seq = number[d.host]
          /\ \A a \in answers[d.host] : a.pkt < d.pkt /\ a.pkt \in Nat
          /\ d.pkt \in Nat
      BY <1>3, <2>1, FreshIsNew DEF TypeInv
    <3>2. UNCHANGED <<slots, answers>>
      BY <2>1 DEF Fresh
    <3>3. slots[d.host].last_tx_result = "ACK" => slots[d.host].last_acked_seq # d.seq
      BY <1>2, <1>3, <3>1 DEF Slot
    <3> QED
      BY <3>1, <3>2, <3>3 DEF Vouched
  <2>2. CASE d \in Coming
    <3>1. Vouched(d) /\ Belongs(d) /\ d.host \in Hosts /\ d \in Known /\ d.seq + 1 = d.pkt
      BY <1>2, <1>9, <2>2, DatagramFields DEF TypeInv, Known, Belongs
    <3>2. Accepted(d.host, d.pkt) => Accepted(d.host, d.pkt)'
      BY AcceptedStays
    <3>3. ASSUME UNCHANGED slots \/ slots'[d.host].last_tx_result # "ACK",
                 \A a \in answers'[d.host] : a \in answers[d.host] \/ a.type # "ACK"
          PROVE  Vouched(d)'
      BY <3>1, <3>2, <3>3 DEF Vouched
    <3>4. ASSUME NEW b \in Beebs, Receive(b) PROVE Vouched(d)'
      <4> DEFINE e == Head(sockets[b])
      <4>1. UNCHANGED slots /\ e \in Known /\ Belongs(e)
        BY <3>4, ReceiveCases DEF Receive, Known
      <4>2. CASE UNCHANGED answers
        BY <3>3, <4>1, <4>2
      <4>3. CASE /\ ~ SendAgain(slots[e.host], e.seq)
                 /\ Reply(e.host, e, slots[e.host].last_tx_result)
        <5>1. /\ e.seq = slots[e.host].last_acked_seq /\ e.host \in Hosts
              /\ slots[e.host].last_tx_result \in Results
          BY <1>3, <4>1, <4>3, DatagramFields DEF SendAgain, Slot, Belongs
        <5>2. \A a \in answers'[d.host] : a \in answers[d.host]
                 \/ (/\ d.host = e.host /\ a.pkt = e.pkt
                     /\ a.type = AnswerType(slots[e.host].last_tx_result))
          BY <3>1, <4>1, <4>3, <5>1, GoodReply
        <5>3. CASE d.host # e.host \/ slots[e.host].last_tx_result # "ACK"
          <6>1. slots[e.host].last_tx_result # "ACK"
                => AnswerType(slots[e.host].last_tx_result) # "ACK"
            BY DEF AnswerType
          <6> QED
            BY <3>3, <4>1, <5>2, <5>3, <6>1
        <5>4. CASE d.host = e.host /\ slots[e.host].last_tx_result = "ACK" /\ d.pkt = e.pkt
          <6>1. d.seq = e.seq
            BY <3>1, <4>1, <5>4 DEF OnePacket
          <6>2. Accepted(d.host, d.pkt)
            BY <3>1, <5>1, <5>4, <6>1 DEF Vouched
          <6> QED
            BY <3>2, <6>2 DEF Vouched
        <5>5. CASE d.host = e.host /\ d.pkt # e.pkt
          BY <3>1, <3>2, <4>1, <5>2, <5>5 DEF Vouched
        <5> QED
          BY <5>3, <5>4, <5>5
      <4> QED
        BY <3>4, <4>2, <4>3, ReceiveCases
    <3>5. CASE SendReturns
      <4> DEFINE e == current.d
      <4>1. PICK result \in Results, took \in BOOLEAN :
                 /\ Possible(e.type, result, took)
                 /\ log' = IF took /\ e.type = "DATA"
                           THEN [log EXCEPT ![<<e.host, e.beeb>>] = Append(@, e.pkt)]
                           ELSE log
                 /\ slots' = [slots EXCEPT ![e.host] =
                                 [last_acked_seq |-> e.seq, last_tx_result |-> result]]
                 /\ Reply(e.host, e, result)
        BY <3>5, ReturnCases
      <4>2. e \in Known /\ Belongs(e) /\ e.host \in Hosts /\ e.seq + 1 = e.pkt
        BY <1>2, <3>5, ReturnCases, DatagramFields DEF Known, Belongs
      <4>3. \A a \in answers'[d.host] : a \in answers[d.host]
               \/ (d.host = e.host /\ a.pkt = e.pkt /\ a.type = AnswerType(result))
        BY <3>1, <4>1, <4>2, GoodReply
      <4>4. /\ d.host # e.host => slots'[d.host] = slots[d.host]
            /\ d.host = e.host => slots'[d.host].last_tx_result = result
                                  /\ slots'[d.host].last_acked_seq = e.seq
        BY <1>3, <3>1, <4>1, <4>2
      <4>5. AnswerType(result) = "ACK" => result = "ACK"
        BY DEF AnswerType
      <4> HIDE DEF e
      <4>6. CASE d.host # e.host
        BY <3>1, <3>2, <4>3, <4>4, <4>6 DEF Vouched
      <4>7. CASE d.host = e.host /\ result # "ACK"
        BY <3>3, <4>3, <4>4, <4>5, <4>7
      <4>8. CASE d.host = e.host /\ d.pkt # e.pkt
        <5>1. d.seq # e.seq
          BY <3>1, <4>2, <4>8
        <5> QED
          BY <3>1, <3>2, <4>3, <4>4, <4>8, <5>1 DEF Vouched
      <4>9. CASE d.host = e.host /\ d.pkt = e.pkt /\ result = "ACK"
        <5>1. e.type = "DATA" /\ e.beeb = d.beeb
          BY <1>9, <3>1, <4>2, <4>9 DEF OnePacket
        <5>2. took
          BY <4>1, <4>9, <5>1 DEF Possible
        <5>3. <<e.host, e.beeb>> \in Links /\ e.pkt \in Nat
          BY <4>2, DatagramFields DEF Belongs
        <5> DEFINE m == <<e.host, e.beeb>>
        <5>4. log \in [Links -> Seq(Nat)] /\ log' = [log EXCEPT ![m] = Append(@, e.pkt)]
          BY <1>3, <4>1, <5>1, <5>2 DEF Shape
        <5>5. m \in Links /\ m[1] = e.host
          BY <5>3
        <5> HIDE DEF m
        <5>6. log'[m] = Append(log[m], e.pkt) /\ log[m] \in Seq(Nat)
          BY <5>4, <5>5
        <5>7. \E i \in DOMAIN log'[m] : log'[m][i] = e.pkt
          <6>1. /\ Append(log[m], e.pkt) \in Seq(Nat)
                /\ Len(Append(log[m], e.pkt)) = Len(log[m]) + 1
                /\ Append(log[m], e.pkt)[Len(log[m]) + 1] = e.pkt
            BY <5>3, <5>6, AppendProperties
          <6>2. Len(log[m]) + 1 \in DOMAIN Append(log[m], e.pkt)
            BY <5>6, <6>1, LenProperties
          <6> QED
            BY <5>6, <6>1, <6>2
        <5>8. Accepted(d.host, d.pkt)'
          BY <4>9, <5>5, <5>7 DEF Accepted
        <5> QED
          BY <5>8 DEF Vouched
      <4> QED
        BY <4>6, <4>7, <4>8, <4>9
    <3>6. CASE Reconfigure
      <4>1. UNCHANGED answers /\ slots'[d.host].last_tx_result = "NACK"
        BY <3>1, <3>6 DEF Reconfigure, EmptySlot
      <4> QED
        BY <3>3, <4>1
    <3>7. CASE Select \/ Network \/ UNCHANGED vars
      <4>1. UNCHANGED slots
        BY <3>7 DEF Network, Select, HostSends, HostRepeats, HostGivesUp, HostAnswered, AnswerLost,
                    HostRestarts, vars, bridgeVars
      <4>2. \/ UNCHANGED answers
            \/ \E h \in Hosts : \E a : answers' = [answers EXCEPT ![h] = @ \ {a}]
        BY <3>7, LinkEnds DEF Network, Select, HostSends, HostRepeats, HostGivesUp, HostAnswered,
                    AnswerLost, HostRestarts, vars
      <4>3. \A a \in answers'[d.host] : a \in answers[d.host]
        BY <1>3, <3>1, <4>2
      <4> QED
        BY <3>3, <4>1, <4>3
    <3> QED
      BY <3>4, <3>5, <3>6, <3>7 DEF Next, Task
  <2> QED
    BY <1>4, <2>1, <2>2
<1>10. ASSUME NEW h \in Hosts, NEW p \in acked'[h] PROVE Accepted(h, p)'
  <2>1. CASE p \in acked[h]
    BY <1>2, <2>1, AcceptedStays
  <2>2. ASSUME NEW l \in Links, HostAnswered(l), p \notin acked[h] PROVE Accepted(h, p)
    <3>1. PICK a \in answers[l[1]] :
              /\ a.seq = waiting[l].seq
              /\ acked' = IF a.type = "ACK" /\ waiting[l].type = "DATA"
                          THEN [acked EXCEPT ![l[1]] = @ \cup {waiting[l].pkt}]
                          ELSE acked
      BY <2>2 DEF HostAnswered
    <3>2. l[1] \in Hosts /\ acked \in [Hosts -> SUBSET Nat]
      BY <1>3, LinkEnds DEF Shape
    <3>3. h = l[1] /\ p = waiting[l].pkt /\ a.type = "ACK" /\ waiting[l].type = "DATA"
      BY <2>2, <3>1, <3>2
    <3>4. Asked(l) \in Coming
      BY <2>2, ComingIs DEF HostAnswered, Somewhere
    <3>5. a.pkt = waiting[l].pkt
      BY <1>2, <3>1, <3>2, <3>4, AskedFields DEF Known
    <3> QED
      BY <1>2, <3>3, <3>4, <3>5, AskedFields DEF Vouched
  <2>3. p \in acked[h] \/ \E l \in Links : HostAnswered(l)
    BY DEF Next, Task, Network, Select, Reconfigure, Receive, SendReturns, HostSends, HostRepeats,
           HostGivesUp, AnswerLost, HostRestarts, vars, hostVars
  <2> QED
    BY <2>1, <2>2, <2>3, AcceptedStays
<1> QED
  BY <1>5, <1>6, <1>7, <1>8, <1>9, <1>10

-----------------------------------------------------------------------------
(* Up to the first reconfiguration, a station accepts packets in order.    *)

LEMMA OldIsOlder ==
    ASSUME TypeInv, NEW h \in Hosts
    PROVE  /\ \A d \in Known : d.host = h => d.pkt \in Nat /\ d.pkt <= issued[h]
           /\ \A l \in Links : l[1] = h => \A i \in DOMAIN log[l] :
                  log[l][i] \in Nat /\ log[l][i] <= issued[h]
<1>1. \A d \in Known : d.pkt \in 1..issued[d.host]
  BY DEF TypeInv, Belongs
<1>2. issued[h] \in Nat
  BY DEF TypeInv, Shape
<1>3. \A l \in Links : l[1] = h => \A i \in DOMAIN log[l] : log[l][i] \in 1..issued[h]
  BY ElementType DEF TypeInv, TypeOK
<1> QED
  BY <1>1, <1>2, <1>3

LEMMA AppendInOrder ==
    ASSUME NEW q \in Seq(Datagram), InOrder(q), NEW x \in Datagram,
           \A i \in DOMAIN q : q[i].host = x.host => q[i].pkt <= x.pkt
    PROVE  InOrder(Append(q, x))
<1> DEFINE r == Append(q, x)
<1>1. PICK n \in Nat : n = Len(q) /\ DOMAIN q = 1..n
  BY LenProperties
<1>2. r \in Seq(Datagram) /\ Len(r) = n + 1 /\ (\A i \in 1..n : r[i] = q[i]) /\ r[n + 1] = x
  BY <1>1, AppendProperties
<1>3. DOMAIN r = 1..(n + 1)
  BY <1>2, LenProperties
<1> HIDE DEF r
<1>4. ASSUME NEW i \in DOMAIN r, NEW j \in DOMAIN r, i < j, r[i].host = r[j].host
      PROVE  r[i].pkt <= r[j].pkt
  <2>1. i \in 1..n /\ (j \in 1..n \/ j = n + 1)
    BY <1>3, <1>4
  <2> QED
    BY <1>1, <1>2, <1>4, <2>1 DEF InOrder
<1> QED
  BY <1>4 DEF InOrder, r

LEMMA TailInOrder ==
    ASSUME NEW q \in Seq(Datagram), q # <<>>, InOrder(q)
    PROVE  /\ InOrder(Tail(q))
           /\ \A i \in DOMAIN q : q[i].host = Head(q).host => Head(q).pkt <= q[i].pkt
<1> DEFINE r == Tail(q)
<1>1. PICK n \in Nat : n = Len(q) /\ DOMAIN q = 1..n
  BY LenProperties
<1>2. /\ r \in Seq(Datagram) /\ Len(r) = n - 1 /\ (\A i \in 1..(n - 1) : r[i] = q[i + 1])
      /\ Head(q) = q[1] /\ n >= 1
  BY <1>1, HeadTailProperties, EmptySeq
<1>3. DOMAIN r = 1..(n - 1)
  BY <1>2, LenProperties
<1> HIDE DEF r
<1>4. InOrder(r)
  <2>1. \A i \in DOMAIN r : i \in 1..(n - 1) /\ i + 1 \in DOMAIN q /\ r[i] = q[i + 1]
    BY <1>1, <1>2, <1>3
  <2>2. \A i, j \in DOMAIN r : i < j => i + 1 < j + 1
    BY <1>3
  <2> QED
    BY <2>1, <2>2 DEF InOrder
<1>5. ASSUME NEW i \in DOMAIN q, q[i].host = q[1].host PROVE q[1].pkt <= q[i].pkt
  <2>1. CASE i = 1
    BY <1>5, <2>1, ElementType, DatagramFields
  <2>2. CASE 1 < i
    BY <1>1, <1>2, <1>5, <2>2 DEF InOrder
  <2> QED
    BY <1>1, <2>1, <2>2
<1> QED
  BY <1>2, <1>4, <1>5 DEF r

LEMMA OrderStep ==
    PortsDistinct /\ OneStation /\ TypeInv /\ OnePacket /\ OrderInv /\ [Next]_vars => OrderInv'
<1> SUFFICES ASSUME PortsDistinct, OneStation, TypeInv, OnePacket, OrderInv, [Next]_vars,
                    reconfigs' = 0
             PROVE  /\ \A b \in Beebs : InOrder(sockets'[b])
                    /\ \A l \in Links : waiting'[l] # NoWait => waiting'[l].pkt = issued'[l[1]]
                    /\ \A d \in Coming' : \A i \in DOMAIN Logged(d)' :
                           Logged(d)'[i] <= d.pkt /\ (Logged(d)'[i] = d.pkt => Settled(d)')
                    /\ \A e \in Held' :
                           /\ \A i \in DOMAIN Logged(e)' : Logged(e)'[i] < e.pkt
                           /\ \A d \in Coming' : d.host = e.host => e.pkt <= d.pkt
                    /\ \A l \in Links : \A i, j \in DOMAIN log'[l] :
                           i < j => log'[l][i] < log'[l][j]
  BY DEF OrderInv, DeliveredOnce, Asking
<1>1. reconfigs = 0 /\ ~ Reconfigure
  <2>1. reconfigs \in Nat
    BY DEF TypeInv, Shape
  <2>2. reconfigs' = reconfigs \/ (Reconfigure /\ reconfigs' = reconfigs + 1)
    BY DEF Next, Task, Network, Select, Reconfigure, Receive, SendReturns, HostSends, HostRepeats,
           HostGivesUp, HostAnswered, AnswerLost, HostRestarts, vars, bounds
  <2> QED
    BY <2>1, <2>2 DEF Reconfigure
<1>2. /\ \A b \in Beebs : InOrder(sockets[b])
      /\ \A l \in Asking : waiting[l].pkt = issued[l[1]]
      /\ \A d \in Coming : \A i \in DOMAIN Logged(d) :
             Logged(d)[i] <= d.pkt /\ (Logged(d)[i] = d.pkt => Settled(d))
      /\ \A e \in Held :
             /\ \A i \in DOMAIN Logged(e) : Logged(e)[i] < e.pkt
             /\ \A d \in Coming : d.host = e.host => e.pkt <= d.pkt
      /\ \A l \in Links : \A i, j \in DOMAIN log[l] : i < j => log[l][i] < log[l][j]
  BY <1>1 DEF OrderInv, DeliveredOnce
<1>3. /\ TypeOK /\ Shape /\ slots \in [Hosts -> Slot] /\ issued \in [Hosts -> Nat]
      /\ log \in [Links -> Seq(Nat)] /\ waiting \in [Links -> Wait \cup {NoWait}]
      /\ sockets \in [Beebs -> Seq(Datagram)]
  BY DEF TypeInv, TypeOK, Shape
<1>4. PICK f : /\ \A d \in Coming' : d \in Coming \/ (d = f /\ Fresh(f))
               /\ \A d \in Known' : d \in Known \/ (d = f /\ Fresh(f))
  BY ComingGrows
<1>5. \A d \in Known : Belongs(d) /\ d \in Datagram /\ <<d.host, d.beeb>> \in Links
                      /\ d.host \in Hosts /\ d.beeb \in Beebs /\ d.pkt \in Nat
  BY DatagramFields DEF TypeInv, Belongs
<1>6. \A d, e \in Known : d.host = e.host => d.beeb = e.beeb
  BY <1>5 DEF OneStation
<1>7. \A b \in Beebs : \A i : i \in DOMAIN sockets[b] =>
          /\ sockets[b][i] \in Coming /\ sockets[b][i] \in Known /\ sockets[b][i].beeb = b
  BY ComingIs DEF Somewhere, Known, TypeInv, Queued
<1>8. \A l \in Links : waiting[l] # NoWait =>
          /\ Asked(l) \in Coming /\ Asked(l) \in Known /\ Asked(l).host = l[1]
          /\ waiting[l].pkt = issued[l[1]] /\ Asked(l).pkt = issued[l[1]]
  BY <1>2, ComingIs, AskedFields DEF Somewhere, Known, Asking
<1>9. ASSUME NEW b \in Beebs PROVE InOrder(sockets'[b])
  <2>1. CASE UNCHANGED sockets
    BY <1>2, <2>1
  <2>2. ASSUME NEW c \in Beebs, Receive(c) PROVE InOrder(sockets'[b])
    <3>1. sockets[c] # <<>> /\ sockets' = [sockets EXCEPT ![c] = Tail(@)]
      BY <2>2, ReceiveCases DEF Receive
    <3>2. CASE b = c
      BY <1>2, <1>3, <3>1, <3>2, TailInOrder
    <3>3. CASE b # c
      BY <1>2, <1>3, <3>1, <3>3
    <3> QED
      BY <3>2, <3>3
  <2>3. ASSUME NEW l \in Links, NEW d \in Datagram, d.host = l[1],
               \A e \in Known : e.host = l[1] => e.pkt <= d.pkt,
               sockets' = [sockets EXCEPT ![l[2]] = Append(@, d)]
        PROVE  InOrder(sockets'[b])
    <3>1. CASE b = l[2]
      <4>1. \A i \in DOMAIN sockets[b] : sockets[b][i].host = d.host => sockets[b][i].pkt <= d.pkt
        BY <1>7, <2>3
      <4>2. InOrder(Append(sockets[b], d))
        BY <1>2, <1>3, <4>1, AppendInOrder
      <4> QED
        BY <1>3, <2>3, <3>1, <4>2
    <3>2. CASE b # l[2]
      BY <1>2, <1>3, <2>3, <3>2
    <3> QED
      BY <3>1, <3>2
  <2>4. ASSUME NEW l \in Links, HostRepeats(l) PROVE InOrder(sockets'[b])
    <3>1. waiting[l] # NoWait /\ Belongs(Asked(l)) /\ l[1] \in Hosts
      BY <1>5, <1>8, <2>4, LinkEnds DEF HostRepeats
    <3>2. Asked(l) \in Datagram /\ sockets' = [sockets EXCEPT ![l[2]] = Append(@, Asked(l))]
      BY <1>3, <2>4, <3>1, RepeatArrives
    <3>3. \A e \in Known : e.host = l[1] => e.pkt <= Asked(l).pkt
      BY <1>8, <3>1, OldIsOlder
    <3> QED
      BY <1>8, <2>3, <3>1, <3>2, <3>3
  <2>5. ASSUME NEW l \in Links, HostSends(l) PROVE InOrder(sockets'[b])
    <3>1. PICK type \in AllTypes :
            LET d == [host |-> l[1], beeb |-> l[2], type |-> type,
                      pkt |-> issued[l[1]] + 1, seq |-> number[l[1]]]
            IN /\ d \in Datagram
               /\ UNCHANGED sockets \/ sockets' = [sockets EXCEPT ![l[2]] = Append(@, d)]
      BY <1>3, <2>5, SendArrives
    <3> DEFINE d == [host |-> l[1], beeb |-> l[2], type |-> type,
                     pkt |-> issued[l[1]] + 1, seq |-> number[l[1]]]
    <3>2. d \in Datagram /\ d.host = l[1] /\ d.pkt = issued[l[1]] + 1
          /\ (UNCHANGED sockets \/ sockets' = [sockets EXCEPT ![l[2]] = Append(@, d)])
      BY <3>1
    <3> HIDE DEF d
    <3>3. l[1] \in Hosts /\ issued[l[1]] \in Nat
      BY <1>3, LinkEnds
    <3>4. \A e \in Known : e.host = l[1] => e.pkt <= d.pkt
      BY <3>2, <3>3, OldIsOlder
    <3> QED
      BY <2>1, <2>3, <3>2, <3>4
  <2>6. UNCHANGED sockets \/ (\E c \in Beebs : Receive(c))
        \/ (\E l \in Links : HostSends(l) \/ HostRepeats(l))
    BY <1>1 DEF Next, Task, Network, Select, SendReturns, HostGivesUp, HostAnswered, AnswerLost,
           HostRestarts, vars
  <2> QED
    BY <2>1, <2>2, <2>4, <2>5, <2>6
<1>10. ASSUME NEW l \in Links, waiting'[l] # NoWait PROVE waiting'[l].pkt = issued'[l[1]]
  <2>1. l[1] \in Hosts /\ issued[l[1]] \in Nat
    BY <1>3, LinkEnds
  <2>2. CASE waiting'[l] = waiting[l] /\ UNCHANGED issued
    BY <1>8, <1>10, <2>2
  <2>3. ASSUME NEW m \in Links, HostSends(m) PROVE waiting'[l].pkt = issued'[l[1]]
    <3>1. issued' = [issued EXCEPT ![m[1]] = @ + 1] /\ waiting[m] = NoWait
      BY <2>3 DEF HostSends
    <3>2. UNCHANGED waiting \/ \E type \in {"DATA", "IMM"} : waiting' = [waiting EXCEPT ![m] =
                 [pkt |-> issued[m[1]] + 1, seq |-> number[m[1]], type |-> type]]
      BY <1>3, <2>3, SendArrives
    <3>3. CASE l = m
      BY <1>3, <1>10, <2>1, <3>1, <3>2, <3>3
    <3>4. CASE l # m
      <4>1. l[1] # m[1]
        BY <3>4 DEF OneStation
      <4>2. waiting'[l] = waiting[l] /\ issued'[l[1]] = issued[l[1]]
        BY <1>3, <2>1, <3>1, <3>2, <3>4, <4>1
      <4> QED
        BY <1>8, <1>10, <4>2
    <3> QED
      BY <3>3, <3>4
  <2>4. ASSUME NEW m \in Links, HostGivesUp(m) \/ HostAnswered(m)
        PROVE  waiting'[l] = waiting[l] /\ UNCHANGED issued
    <3>1. waiting' = [waiting EXCEPT ![m] = NoWait] /\ UNCHANGED issued
      BY <2>4 DEF HostGivesUp, HostAnswered
    <3> QED
      BY <1>3, <1>10, <3>1
  <2>5. ASSUME NEW h \in Hosts, HostRestarts(h)
        PROVE  waiting'[l] = waiting[l] /\ UNCHANGED issued
    BY <1>10, <2>5 DEF HostRestarts
  <2>6. \/ UNCHANGED <<waiting, issued>>
        \/ (\E h \in Hosts : HostRestarts(h))
        \/ (\E m \in Links : HostSends(m) \/ HostGivesUp(m) \/ HostAnswered(m))
    BY <1>1 DEF Next, Task, Network, Select, Receive, SendReturns, HostRepeats, AnswerLost, vars, hostVars
  <2> QED
    BY <2>2, <2>3, <2>4, <2>5, <2>6
<1>11. ~ SendReturns => UNCHANGED <<slots, log>>
  BY <1>1 DEF Next, Task, Network, Select, Receive, HostSends, HostRepeats, HostGivesUp, HostAnswered,
         AnswerLost, HostRestarts, vars, bridgeVars
<1>12. ASSUME SendReturns
       PROVE  LET e == current.d
                  m == <<e.host, e.beeb>>
              IN /\ e \in Held /\ m \in Links
                 /\ \E result \in Results :
                      /\ \/ UNCHANGED log
                         \/ /\ log' = [log EXCEPT ![m] = Append(@, e.pkt)]
                            /\ result \notin {"NACK", "IMM_REPLY"}
                      /\ slots' = [slots EXCEPT ![e.host] =
                                      [last_acked_seq |-> e.seq, last_tx_result |-> result]]
  BY <1>12, ReturnCases DEF Possible, Belongs
<1>13. ASSUME SendReturns, NEW l \in Links, NEW i \in DOMAIN log'[l]
       PROVE  \/ i \in DOMAIN log[l] /\ log'[l][i] = log[l][i]
              \/ /\ l = <<current.d.host, current.d.beeb>> /\ log'[l][i] = current.d.pkt
                 /\ log'[l] = Append(log[l], current.d.pkt) /\ i = Len(log[l]) + 1
  <2> DEFINE e == current.d
             m == <<e.host, e.beeb>>
  <2>1. UNCHANGED log \/ log' = [log EXCEPT ![m] = Append(@, e.pkt)]
    BY <1>12, <1>13
  <2>2. e.pkt \in Nat
    BY <1>5, <1>12, <1>13 DEF Known
  <2> HIDE DEF e, m
  <2>3. CASE log'[l] = log[l]
    BY <1>13, <2>3
  <2>4. CASE l = m /\ log'[l] = Append(log[l], e.pkt)
    <3>1. PICK n \in Nat : n = Len(log[l]) /\ DOMAIN log[l] = 1..n
      BY <1>3, LenProperties
    <3>2. /\ log'[l] \in Seq(Nat) /\ Len(log'[l]) = n + 1
          /\ (\A j \in 1..n : log'[l][j] = log[l][j]) /\ log'[l][n + 1] = e.pkt
      BY <1>3, <2>2, <2>4, <3>1, AppendProperties
    <3>3. i \in 1..(n + 1)
      BY <1>13, <3>2, LenProperties
    <3> QED
      BY <2>4, <3>1, <3>2, <3>3 DEF e, m
  <2>5. log'[l] = log[l] \/ (l = m /\ log'[l] = Append(log[l], e.pkt))
    BY <1>3, <2>1
  <2> QED
    BY <2>3, <2>4, <2>5
<1>14. ASSUME NEW d \in Coming', NEW i \in DOMAIN Logged(d)'
       PROVE  Logged(d)'[i] <= d.pkt /\ (Logged(d)'[i] = d.pkt => Settled(d)')
  <2>1. CASE d \in Coming /\ ~ SendReturns
    BY <1>2, <1>11, <1>14, <2>1 DEF Logged, Settled
  <2>2. CASE d = f /\ Fresh(f)
    <3>1. UNCHANGED <<slots, log>> /\ <<d.host, d.beeb>> \in Links /\ d.host \in Hosts
          /\ d.pkt = issued[d.host] + 1
      BY <2>2, FreshIsNew DEF Fresh
    <3>2. issued[d.host] \in Nat /\ <<d.host, d.beeb>>[1] = d.host
      BY <1>3, <3>1
    <3>3. Logged(d)'[i] \in Nat /\ Logged(d)'[i] <= issued[d.host]
      BY <1>14, <3>1, <3>2, OldIsOlder DEF Logged
    <3> QED
      BY <3>1, <3>2, <3>3
  <2>3. CASE d \in Coming /\ SendReturns
    <3> DEFINE e == current.d
    <3>1. /\ d \in Known /\ e \in Known /\ e \in Held
          /\ <<d.host, d.beeb>> \in Links /\ d.host \in Hosts /\ d.pkt \in Nat /\ e.pkt \in Nat
      BY <1>5, <1>12, <2>3 DEF Known
    <3>2. PICK result \in Results :
             /\ UNCHANGED log \/ result \notin {"NACK", "IMM_REPLY"}
             /\ slots' = [slots EXCEPT ![e.host] =
                             [last_acked_seq |-> e.seq, last_tx_result |-> result]]
      BY <1>12, <2>3
    <3>3. /\ d.host # e.host => slots'[d.host] = slots[d.host]
          /\ d.host = e.host => slots'[d.host].last_tx_result = result
                                /\ slots'[d.host].last_acked_seq = e.seq
      BY <1>3, <3>1, <3>2
    <3> HIDE DEF e
    <3>4. CASE i \in DOMAIN Logged(d) /\ Logged(d)'[i] = Logged(d)[i]
      <4>1. Logged(d)[i] <= d.pkt /\ (Logged(d)[i] = d.pkt => Settled(d))
        BY <1>2, <2>3, <3>4
      <4>2. CASE d.host # e.host
        BY <3>3, <3>4, <4>1, <4>2 DEF Settled
      <4>3. CASE d.host = e.host
        <5>1. d.beeb = e.beeb /\ e.pkt <= d.pkt
          BY <1>2, <1>6, <2>3, <3>1, <4>3
        <5>2. Logged(d) = Logged(e)
          BY <4>3, <5>1 DEF Logged
        <5>3. Logged(d)[i] < e.pkt /\ Logged(d)[i] \in Nat
          <6>1. log[<<d.host, d.beeb>>] \in Seq(Nat)
            BY <1>3, <3>1
          <6> QED
            BY <1>2, <3>1, <3>4, <5>2, <6>1, ElementType DEF Logged
        <5> QED
          BY <3>1, <3>4, <4>1, <5>1, <5>3
      <4> QED
        BY <4>2, <4>3
    <3>5. CASE /\ <<d.host, d.beeb>> = <<e.host, e.beeb>> /\ Logged(d)'[i] = e.pkt
               /\ ~ UNCHANGED log
      <4>1. d.host = e.host /\ e.pkt <= d.pkt
        BY <1>2, <2>3, <3>1, <3>5
      <4>2. d.pkt = e.pkt => d.seq = e.seq
        BY <3>1, <4>1 DEF OnePacket
      <4> QED
        BY <3>2, <3>3, <3>5, <4>1, <4>2 DEF Settled
    <3>6. i \in DOMAIN log'[<<d.host, d.beeb>>]
      BY <1>14 DEF Logged
    <3>7. ~ UNCHANGED log
          \/ (i \in DOMAIN Logged(d) /\ Logged(d)'[i] = Logged(d)[i])
      BY <1>14 DEF Logged
    <3>8. \/ i \in DOMAIN Logged(d) /\ Logged(d)'[i] = Logged(d)[i]
          \/ <<d.host, d.beeb>> = <<e.host, e.beeb>> /\ Logged(d)'[i] = e.pkt
      BY <1>13, <2>3, <3>1, <3>6 DEF Logged, e
    <3> QED
      BY <3>4, <3>5, <3>7, <3>8
  <2> QED
    BY <1>4, <2>1, <2>2, <2>3
<1>15. ASSUME NEW e \in Held'
       PROVE  /\ \A i \in DOMAIN Logged(e)' : Logged(e)'[i] < e.pkt
              /\ \A d \in Coming' : d.host = e.host => e.pkt <= d.pkt
  <2>1. ~ SendReturns
    BY <1>15 DEF SendReturns, Held
  <2>2. UNCHANGED log
    BY <1>11, <2>1
  <2>3. CASE e \in Held
    <3>1. \A d \in Coming : d.host = e.host => e.pkt <= d.pkt
      BY <1>2, <2>3
    <3>2. ASSUME Fresh(f), f.host = e.host PROVE e.pkt <= f.pkt
      <4>1. e \in Known /\ e.pkt \in Nat /\ e.host \in Hosts /\ issued[e.host] \in Nat
        BY <1>3, <1>5, <2>3 DEF Known
      <4> QED
        BY <3>2, <4>1, FreshIsNew
    <3> QED
      BY <1>2, <1>4, <2>2, <2>3, <3>1, <3>2 DEF Logged
  <2>4. ASSUME NEW b \in Beebs, Receive(b), e \notin Held
        PROVE  /\ \A i \in DOMAIN Logged(e) : Logged(e)[i] < e.pkt
               /\ \A d \in Coming' : d.host = e.host => e.pkt <= d.pkt
    <3>1. /\ e = Head(sockets[b]) /\ SendAgain(slots[e.host], e.seq)
          /\ e \in Coming /\ sockets[b] \in Seq(Datagram) /\ sockets[b] # <<>>
      BY <1>15, <2>4, ReceiveCases DEF Held
    <3>2. e \in Known /\ e.pkt \in Nat /\ e.beeb = b /\ e.host \in Hosts
          /\ <<e.host, e.beeb>> \in Links
      BY <1>5, <2>4, <3>1, ReceiveCases DEF Known, TypeInv
    <3>3. ~ Settled(e)
      BY <3>1 DEF SendAgain, Settled
    <3>4. ASSUME NEW i \in DOMAIN Logged(e) PROVE Logged(e)[i] < e.pkt
      <4>1. Logged(e)[i] <= e.pkt /\ Logged(e)[i] # e.pkt
        BY <1>2, <3>1, <3>3, <3>4
      <4>2. Logged(e)[i] \in Nat
        BY <1>3, <3>2, <3>4, ElementType DEF Logged
      <4> QED
        BY <3>2, <4>1, <4>2
    <3>5. ASSUME NEW d \in Coming', d.host = e.host PROVE e.pkt <= d.pkt
      <4>1. d \in Coming
        BY <1>4, <2>4, FreshIsNew DEF Receive, hostVars
      <4>2. ASSUME NEW c \in Beebs, NEW i \in DOMAIN sockets[c], d = sockets[c][i]
            PROVE  e.pkt <= d.pkt
        <5>1. c = b
          BY <1>6, <1>7, <3>2, <3>5, <4>2
        <5> QED
          BY <1>2, <3>1, <3>5, <4>2, <5>1, TailInOrder
      <4>3. ASSUME NEW l \in Links, waiting[l] # NoWait, d = Asked(l) PROVE e.pkt <= d.pkt
        BY <1>8, <3>2, <3>5, <4>3, OldIsOlder
      <4> QED
        BY <4>1, <4>2, <4>3, ComingIs DEF Somewhere
    <3> QED
      BY <3>4, <3>5
  <2>5. e \in Held \/ \E b \in Beebs : Receive(b)
    <3>1. UNCHANGED current \/ \E b \in Beebs : Receive(b)
      BY <1>1, <2>1 DEF Next, Task, Network, Select, HostSends, HostRepeats, HostGivesUp, HostAnswered,
             AnswerLost, HostRestarts, vars, bridgeVars
    <3> QED
      BY <1>15, <3>1 DEF Held
  <2> QED
    BY <2>2, <2>3, <2>4, <2>5 DEF Logged
<1>16. ASSUME NEW l \in Links, NEW i \in DOMAIN log'[l], NEW j \in DOMAIN log'[l], i < j
       PROVE  log'[l][i] < log'[l][j]
  <2>1. CASE ~ SendReturns
    BY <1>2, <1>11, <1>16, <2>1
  <2>2. CASE SendReturns
    <3> DEFINE e == current.d
    <3>1. e \in Held /\ e \in Known
      BY <1>12, <2>2 DEF Known
    <3>2. /\ DOMAIN log[l] = 1..Len(log[l]) /\ Len(log[l]) \in Nat
      BY <1>3, LenProperties
    <3>3. CASE j \in DOMAIN log[l] /\ log'[l][j] = log[l][j]
      <4>1. i \in DOMAIN log[l] /\ log'[l][i] = log[l][i]
        BY <1>13, <1>16, <2>2, <3>2, <3>3
      <4> QED
        BY <1>2, <1>16, <3>3, <4>1
    <3>4. CASE l = <<e.host, e.beeb>> /\ log'[l][j] = e.pkt /\ j = Len(log[l]) + 1
      <4>1. i \in DOMAIN log[l] /\ log'[l][i] = log[l][i]
        BY <1>13, <1>16, <2>2, <3>2, <3>4
      <4> QED
        BY <1>2, <3>1, <3>4, <4>1 DEF Logged
    <3> QED
      BY <1>13, <2>2, <3>3, <3>4
  <2> QED
    BY <2>1, <2>2
<1> QED
  BY <1>9, <1>10, <1>14, <1>15, <1>16

-----------------------------------------------------------------------------
(* The theorems.  Hypotheses on the configuration never change.            *)

Distinguished == PortsDistinct /\ TypeInv /\ OnePacket /\ AckInv

LEMMA InitFacts == Init => OnePacket /\ AckInv /\ OrderInv
<1> SUFFICES ASSUME Init PROVE OnePacket /\ AckInv /\ OrderInv
  OBVIOUS
<1>1. Coming = {} /\ Known = {}
  <2>1. \A d : ~ Somewhere(d)
    BY DEF Somewhere, Init
  <2> QED
    BY <2>1, ComingIs DEF Known, Held, Init
<1>2. Held = {}
  BY <1>1 DEF Known
<1>3. OnePacket
  BY <1>1 DEF OnePacket
<1>4. AckInv
  BY <1>1 DEF AckInv, Init, EmptySlot
<1>5. DOMAIN <<>> = {}
  OBVIOUS
<1>6. OrderInv
  BY <1>1, <1>2, <1>5 DEF OrderInv, DeliveredOnce, InOrder, Asking, Init
<1> QED
  BY <1>3, <1>4, <1>6

LEMMA Distinguishes == PortsDistinct /\ Spec => []Distinguished
<1>1. PortsDistinct /\ Init => Distinguished
  BY TypesInit, InitFacts DEF Distinguished
<1>2. Distinguished /\ [Next]_vars => Distinguished'
  BY TypesStep, OnePacketStep, AckStep DEF Distinguished, PortsDistinct
<1> QED
  BY <1>1, <1>2, PTL DEF Spec

(* No host ever gets an answer to another's packet, however datagrams are  *)
(* lost, repeated and buffered across restarts and reconfigurations, when  *)
(* the hosts have different ports (aun_bridge.c:313, :332).                *)
THEOREM CallersAnswered == PortsDistinct /\ Spec => []AnswerGoesToCaller
<1>1. Distinguished => AnswerGoesToCaller
  BY DEF Distinguished, AnswerGoesToCaller, TypeInv
<1> QED
  BY <1>1, Distinguishes, PTL

(* Until a host restarts, a host is told ACK only for packets the station  *)
(* accepted (aun_bridge.c:332-398), the result remembered for a repetition  *)
(* included, and whatever reconfigurations forget.                          *)
THEOREM AcksAreTrue == PortsDistinct /\ Spec => []AckedDelivered
<1>1. Distinguished => AckedDelivered
  BY DEF Distinguished, AckedDelivered, AckInv, Accepted
<1> QED
  BY <1>1, Distinguishes, PTL

InOrderState == OneStation /\ Distinguished /\ OrderInv

LEMMA StaysInOrder == PortsDistinct /\ OneStation /\ Spec => []InOrderState
<1>1. PortsDistinct /\ OneStation /\ Init => InOrderState
  BY TypesInit, InitFacts DEF Distinguished, InOrderState
<1>2. InOrderState /\ [Next]_vars => InOrderState'
  BY TypesStep, OnePacketStep, AckStep, OrderStep DEF InOrderState, Distinguished, PortsDistinct, OneStation
<1> QED
  BY <1>1, <1>2, PTL DEF Spec

(* Until the bridge is reconfigured, a station accepts each packet once and *)
(* in the order sent, restarts of hosts notwithstanding.  The bridge keeps  *)
(* one number per host: the host must talk to one station.                  *)
THEOREM OnceAndInOrder == PortsDistinct /\ OneStation /\ Spec => []DeliveredOnce
<1>1. InOrderState => DeliveredOnce
  BY DEF InOrderState, OrderInv, DeliveredOnce
<1> QED
  BY <1>1, StaysInOrder, PTL

LEMMA KeepsPromise ==
    InOrderState /\ [Next]_vars /\ Untouched'
        => \A l \in Links : [Promise(l)!Next]_(Promise(l)!vars)
<1> SUFFICES ASSUME InOrderState, [Next]_vars, Untouched', NEW l \in Links
             PROVE  [Promise(l)!Next]_(Promise(l)!vars)
  OBVIOUS
<1>1. /\ OneStation /\ TypeInv /\ OrderInv /\ PortsDistinct /\ OnePacket /\ AckInv
      /\ issued \in [Hosts -> Nat] /\ log \in [Links -> Seq(Nat)] /\ acked \in [Hosts -> SUBSET Nat]
      /\ l[1] \in Hosts
  BY LinkEnds DEF InOrderState, Distinguished, TypeInv, Shape
<1>2. CASE UNCHANGED <<issued[l[1]], log[l], acked[l[1]]>>
  BY <1>2 DEF Promise!vars
<1>3. ASSUME NEW m \in Links, HostSends(m) PROVE [Promise(l)!Next]_(Promise(l)!vars)
  <2>1. issued' = [issued EXCEPT ![m[1]] = @ + 1] /\ UNCHANGED <<log, acked>>
    BY <1>3 DEF HostSends
  <2>2. CASE l[1] = m[1]
    BY <1>1, <2>1, <2>2 DEF Promise!Next, Promise!Submit
  <2>3. CASE l[1] # m[1]
    BY <1>1, <1>2, <2>1, <2>3
  <2> QED
    BY <2>2, <2>3
<1>4. CASE SendReturns
  <2> DEFINE e == current.d
             m == <<e.host, e.beeb>>
  <2>1. /\ e \in Held /\ Belongs(e) /\ m \in Links /\ UNCHANGED <<issued, acked>>
        /\ UNCHANGED log \/ log' = [log EXCEPT ![m] = Append(@, e.pkt)]
    BY <1>1, <1>4, ReturnCases DEF Belongs, SendReturns, hostVars
  <2>2. CASE l = m /\ log' = [log EXCEPT ![m] = Append(@, e.pkt)]
    <3>1. log'[l] = Append(log[l], e.pkt)
      BY <1>1, <2>2
    <3>2. \A i \in DOMAIN log[l] : log[l][i] < e.pkt
      <4>1. reconfigs = 0
        BY <1>4 DEF Untouched, SendReturns, bounds
      <4> QED
        BY <1>1, <2>1, <2>2, <4>1 DEF OrderInv, Logged
    <3>3. e.pkt \in 1..issued[l[1]]
      BY <2>1, <2>2 DEF Belongs
    <3> QED
      BY <2>1, <3>1, <3>2, <3>3 DEF Promise!Next, Promise!Deliver
  <2>3. CASE l # m \/ UNCHANGED log
    <3>1. log'[l] = log[l]
      BY <1>1, <2>1, <2>3
    <3> QED
      BY <1>2, <2>1, <3>1
  <2> QED
    BY <2>1, <2>2, <2>3
<1>5. ASSUME NEW m \in Links, HostAnswered(m) PROVE [Promise(l)!Next]_(Promise(l)!vars)
  <2>1. /\ UNCHANGED <<issued, log>> /\ restarts = 0
        /\ UNCHANGED acked \/ acked' = [acked EXCEPT ![m[1]] = @ \cup {waiting[m].pkt}]
    BY <1>5 DEF HostAnswered, Untouched, bounds
  <2>2. CASE acked'[l[1]] = acked[l[1]]
    BY <1>2, <2>1, <2>2
  <2>3. CASE acked'[l[1]] # acked[l[1]]
    <3> DEFINE p == waiting[m].pkt
    <3>1. l[1] = m[1] /\ acked'[l[1]] = acked[l[1]] \cup {p}
      BY <1>1, <2>1, <2>3
    <3>2. AckInv' /\ restarts' = 0
      BY <1>1, AckStep DEF Untouched
    <3>3. p \in acked'[l[1]]
      BY <3>1
    <3> HIDE DEF p
    <3>4. \A h \in Hosts : \A q \in acked'[h] :
              \E k \in Links : k[1] = h /\ \E i \in DOMAIN log'[k] : log'[k][i] = q
      BY <3>2 DEF AckInv, Accepted
    <3>5. PICK k \in Links : k[1] = l[1] /\ \E i \in DOMAIN log[k] : log[k][i] = p
      <4>1. PICK k \in Links : k[1] = l[1] /\ \E i \in DOMAIN log'[k] : log'[k][i] = p
        BY <1>1, <3>3, <3>4
      <4>2. log'[k] = log[k]
        BY <2>1
      <4> QED
        BY <4>1, <4>2
    <3>6. k = l
      BY <1>1, <3>5 DEF OneStation
    <3>7. p \in 1..issued[l[1]]
      BY <1>1, <2>1, <3>3, HistoryStep
    <3> QED
      BY <2>1, <3>1, <3>5, <3>6, <3>7 DEF Promise!Next, Promise!Acknowledge
  <2> QED
    BY <2>2, <2>3
<1>6. \/ UNCHANGED <<issued, log, acked>> \/ SendReturns
      \/ \E m \in Links : HostSends(m) \/ HostAnswered(m)
  BY DEF Next, Task, Network, Select, Reconfigure, Receive, HostRepeats, HostGivesUp, AnswerLost,
         HostRestarts, vars, hostVars
<1> QED
  BY <1>2, <1>3, <1>4, <1>5, <1>6

(* The bridge implements Delivery towards every link: the packets of a host *)
(* arrive in order, at most once, and an ACK stands for one that arrived,   *)
(* up to the first restart or reconfiguration.                              *)
THEOREM LinksDeliver == PortsDistinct /\ OneStation /\ Spec => PromisesKept
<1>1. Init => \A l \in Links : Promise(l)!Init
  BY LinkEnds DEF Init, Promise!Init
<1>2. InOrderState /\ [Next]_vars
         => [Untouched' => \A l \in Links : [Promise(l)!Next]_(Promise(l)!vars)]_vars
  BY KeepsPromise
<1> QED
  BY <1>1, <1>2, StaysInOrder, PTL DEF Spec, PromisesKept
=============================================================================
