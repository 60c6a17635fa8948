----------------------------- MODULE AunInbound -----------------------------
(***************************************************************************)
(* From IP to Econet: the task "aun_udp_rx" of aun_bridge.c.  It waits for *)
(* datagrams on one socket per Econet station, recognises the AUN host by  *)
(* the port it sends from, passes the packet to econet_send unless it is a *)
(* repetition, and answers with the result.  trunk_rx_process does the     *)
(* same with one slot per trunk.                                           *)
(*                                                                         *)
(* The hosts are external.  Like the bridge's own sender, a host numbers   *)
(* its packets, repeats one under its number until it is answered, and     *)
(* goes on to the next.  Datagrams may be lost, answers also overtake each *)
(* other; what arrives at a socket arrives in order.                       *)
(*                                                                         *)
(* econet_send is what module Econet shows of it: ACK and IMM_REPLY mean   *)
(* that the station took the packet, NACK that it did not.                 *)
(***************************************************************************)
EXTENDS Naturals, Sequences

CONSTANTS
    HostCount,      \* AUN hosts, in the order of the configuration
    BeebCount,      \* Econet stations, in the order of the configuration
    Port,           \* the UDP port of every host
    Configured,     \* the hosts in aun_stations
    Links,          \* which host talks to which station
    Types,          \* types of the datagrams each host sends
    MaxPackets,     \* bound: packets of each host
    SocketLen,      \* bound: datagrams on the way to a socket
    MaxRestarts,    \* bound: restarts of a host
    MaxReconfigs    \* bound: reconfigurations of the bridge

Hosts == 1..HostCount
Beebs == 1..BeebCount

\* "OTHER" is any type the switch does not know.  ACK and NACK datagrams,
\* which only go to the ack queue, belong to the other direction.
AllTypes == {"DATA", "IMM", "BROADCAST", "OTHER"}

ASSUME AunInboundConstants ==
    /\ HostCount \in Nat /\ BeebCount \in Nat
    /\ Port \in [Hosts -> Nat]
    /\ Configured \subseteq Hosts
    /\ Links \subseteq Hosts \X Beebs
    /\ Types \in [Hosts -> SUBSET AllTypes]
    /\ MaxPackets \in [Hosts -> Nat] /\ SocketLen \in Nat
    /\ MaxRestarts \in Nat /\ MaxReconfigs \in Nat

VARIABLES
    \* the bridge
    slots,      \* aun_stations: last_acked_seq, last_tx_result
    ready,      \* rfds: stations whose sockets select found readable
    current,    \* the packet inside econet_send
    \* the network
    sockets,    \* per Econet station: datagrams on the way or in the buffer
    answers,    \* per host: answers on the way
    \* the hosts
    issued,     \* packets the host has sent, over all restarts
    number,     \* the number of its next packet
    waiting,    \* per link: the packet an answer is awaited for, or NoWait
    \* what has happened
    log,        \* per link: DATA packets the station accepted, in order
    acked,      \* per host: DATA packets it got an ACK for
    restarts, reconfigs

bridgeVars == <<slots, ready, current>>
hostVars == <<issued, number, waiting, acked>>
bounds == <<restarts, reconfigs>>
vars == <<bridgeVars, sockets, answers, hostVars, log, bounds>>

Results == {"ACK", "NACK", "NACK_CORRUPT", "SEND_ERROR", "IMM_REPLY"}
Answers == {"ACK", "NACK", "IMM_REPLY"}

Packets == UNION {1..MaxPackets[h] : h \in Hosts}
Datagram == [host : Hosts, beeb : Beebs, type : AllTypes, pkt : Packets, seq : Nat]
Answer == [type : Answers, beeb : Beebs, seq : Nat, from : Hosts, pkt : Packets]
Slot == [last_acked_seq : Nat, last_tx_result : Results]

Idle == [busy |-> FALSE]
NoWait == [pkt |-> 0, seq |-> 0, type |-> "OTHER"]

\* NACK makes the first packet go out whatever the number, so the code's
\* UINT32_MAX, beyond TLC's integers, may as well be 0.
EmptySlotZeroed == [last_acked_seq |-> 0, last_tx_result |-> "ACK"]
EmptySlot == [last_acked_seq |-> 0, last_tx_result |-> "NACK"]

Init ==
    /\ slots = [h \in Hosts |-> EmptySlot]
    /\ ready = {}
    /\ current = Idle
    /\ sockets = [b \in Beebs |-> <<>>]
    /\ answers = [h \in Hosts |-> {}]
    /\ issued = [h \in Hosts |-> 0]
    /\ number = [h \in Hosts |-> 0]
    /\ waiting = [l \in Links |-> NoWait]
    /\ log = [l \in Links |-> <<>>]
    /\ acked = [h \in Hosts |-> {}]
    /\ restarts = 0
    /\ reconfigs = 0

-----------------------------------------------------------------------------
(* The task. *)

\* select returns: the sockets found readable are served in table order.
Select ==
    /\ current = Idle
    /\ ready = {}
    /\ ready' = {b \in Beebs : sockets[b] # <<>>}
    /\ ready' # {}
    /\ UNCHANGED <<slots, current, sockets, answers, hostVars, log, bounds>>

\* _get_aun_station_by_port: the first configured host with this port.
StationAtAnyPort(port) ==
    {i \in Configured : \A j \in Configured : i <= j}
StationByPort(port) ==
    {i \in Configured : /\ Port[i] = port
                        /\ \A j \in Configured : Port[j] = port => i <= j}

\* Is the packet to be sent to the station, rather than answered again?
SendUnlessAcked(slot, seq) ==
    seq # slot.last_acked_seq \/ slot.last_tx_result # "ACK"
SendAgain(slot, seq) ==
    \/ seq # slot.last_acked_seq
    \/ slot.last_tx_result \in {"NACK", "IMM_REPLY"}

AnswerType(result) == IF result \in {"ACK", "IMM_REPLY"} THEN result ELSE "NACK"

\* The (N)ACK goes to the address on file for the station the host is taken for.
Reply(station, d, result) ==
    answers' = [answers EXCEPT ![station] = @ \cup
        {[type |-> AnswerType(result), beeb |-> d.beeb, seq |-> d.seq,
          from |-> d.host, pkt |-> d.pkt]}]

ReplyToRepetitionDropped(station, d) == UNCHANGED answers
ReplyToRepetition(station, d) == Reply(station, d, slots[station].last_tx_result)

\* _aun_udp_rx_process up to econet_send, for the next socket that is ready.
Receive(b) ==
    /\ current = Idle
    /\ b \in ready
    /\ \A c \in ready : b <= c
    /\ ready' = ready \ {b}
    /\ sockets' = [sockets EXCEPT ![b] = Tail(@)]
    /\ LET d == Head(sockets[b])
           station == StationByPort(Port[d.host])
       IN \/ /\ d.type = "OTHER" \/ station = {}
             /\ UNCHANGED <<current, answers>>
          \/ /\ d.type # "OTHER"
             /\ \E s \in station :
                \/ /\ SendAgain(slots[s], d.seq)
                   /\ current' = [busy |-> TRUE, station |-> s, d |-> d]
                   /\ UNCHANGED answers
                \/ /\ ~SendAgain(slots[s], d.seq)
                   /\ ReplyToRepetition(s, d)
                   /\ UNCHANGED current
    /\ UNCHANGED <<slots, hostVars, log, bounds>>

\* The results econet_send may return, and whether the station took the packet.
Possible(type, result, took) ==
    /\ type = "BROADCAST" => result \in {"ACK", "SEND_ERROR"}
    /\ type = "DATA" => result # "IMM_REPLY"
    /\ type \in {"DATA", "IMM"} /\ result \in {"ACK", "IMM_REPLY"} => took
    /\ result = "NACK" => ~took

\* econet_send returns; the slot is updated and the answer sent.
RememberResultOnly(station, seq, result) ==
    slots' = [slots EXCEPT ![station].last_tx_result = result]
Remember(station, seq, result) ==
    slots' = [slots EXCEPT ![station] =
                 [last_acked_seq |-> seq, last_tx_result |-> result]]

SendReturns ==
    /\ current # Idle
    /\ LET d == current.d IN
       \E result \in Results, took \in BOOLEAN :
          /\ Possible(d.type, result, took)
          /\ log' = IF took /\ d.type = "DATA"
                    THEN [log EXCEPT ![<<d.host, d.beeb>>] = Append(@, d.pkt)]
                    ELSE log
          /\ Remember(current.station, d.seq, result)
          /\ Reply(current.station, d, result)
    /\ current' = Idle
    /\ UNCHANGED <<ready, sockets, hostVars, bounds>>

\* aunbridge_reconfigure stops the task at its next select, closes the sockets
\* with what they have buffered, and sets up the stations anew.
Reconfigure ==
    /\ current = Idle
    /\ ready = {}
    /\ reconfigs < MaxReconfigs
    /\ reconfigs' = reconfigs + 1
    /\ slots' = [h \in Hosts |-> EmptySlot]
    /\ \E lost \in [Beebs -> 0..SocketLen] :
          sockets' = [b \in Beebs |-> SubSeq(sockets[b], lost[b] + 1, Len(sockets[b]))]
    /\ UNCHANGED <<ready, current, answers, hostVars, log, restarts>>

Task == Select \/ (\E b \in Beebs : Receive(b)) \/ SendReturns \/ Reconfigure

-----------------------------------------------------------------------------
(* The hosts and the network. *)

Arrives(l, pkt, seq, type) ==
    /\ Len(sockets[l[2]]) < SocketLen
    /\ sockets' = [sockets EXCEPT ![l[2]] = Append(@,
           [host |-> l[1], beeb |-> l[2], type |-> type, pkt |-> pkt, seq |-> seq])]

\* A new packet.  Nobody waits for an answer to a broadcast.
HostSends(l) ==
    /\ waiting[l] = NoWait
    /\ issued[l[1]] < MaxPackets[l[1]]
    /\ \E type \in Types[l[1]] :
          LET p == issued[l[1]] + 1
              n == number[l[1]]
          IN /\ \/ Arrives(l, p, n, type)
                \/ UNCHANGED sockets
             /\ waiting' = IF type \in {"DATA", "IMM"}
                           THEN [waiting EXCEPT ![l] = [pkt |-> p, seq |-> n, type |-> type]]
                           ELSE waiting
    /\ issued' = [issued EXCEPT ![l[1]] = @ + 1]
    /\ number' = [number EXCEPT ![l[1]] = @ + 1]
    /\ UNCHANGED <<bridgeVars, answers, acked, log, bounds>>

\* A repetition that arrives.
HostRepeats(l) ==
    /\ waiting[l] # NoWait
    /\ Arrives(l, waiting[l].pkt, waiting[l].seq, waiting[l].type)
    /\ UNCHANGED <<bridgeVars, answers, hostVars, log, bounds>>

HostGivesUp(l) ==
    /\ waiting[l] # NoWait
    /\ waiting' = [waiting EXCEPT ![l] = NoWait]
    /\ UNCHANGED <<bridgeVars, sockets, answers, issued, number, acked, log, bounds>>

HostAnswered(l) ==
    /\ waiting[l] # NoWait
    /\ \E a \in answers[l[1]] :
          /\ a.seq = waiting[l].seq
          /\ a.beeb = l[2]
          /\ answers' = [answers EXCEPT ![l[1]] = @ \ {a}]
          /\ acked' = IF a.type = "ACK" /\ waiting[l].type = "DATA"
                      THEN [acked EXCEPT ![l[1]] = @ \cup {waiting[l].pkt}]
                      ELSE acked
    /\ waiting' = [waiting EXCEPT ![l] = NoWait]
    /\ UNCHANGED <<bridgeVars, sockets, issued, number, log, bounds>>

\* An answer is lost, or ignored by a host that awaits another.
AnswerLost(h) ==
    /\ \E a \in answers[h] : answers' = [answers EXCEPT ![h] = @ \ {a}]
    /\ UNCHANGED <<bridgeVars, sockets, hostVars, log, bounds>>

\* A host restarts and counts from the start.
HostRestarts(h) ==
    /\ restarts < MaxRestarts
    /\ restarts' = restarts + 1
    /\ number' = [number EXCEPT ![h] = 0]
    /\ waiting' = [l \in Links |-> IF l[1] = h THEN NoWait ELSE waiting[l]]
    /\ UNCHANGED <<bridgeVars, sockets, answers, issued, acked, log, reconfigs>>

Network ==
    \/ \E l \in Links : HostSends(l) \/ HostRepeats(l) \/ HostGivesUp(l) \/ HostAnswered(l)
    \/ \E h \in Hosts : AnswerLost(h) \/ HostRestarts(h)

Next == Task \/ Network

Spec == Init /\ [][Next]_vars

-----------------------------------------------------------------------------
(* Fairness.  The task is scheduled, econet_send returns (module Econet);  *)
(* the network does not lose every repetition and every answer.  A host    *)
(* may give up, but what holds of every behaviour holds of those in which  *)
(* it never does.                                                          *)

FairSpec ==
    /\ Spec
    /\ WF_vars(Select) /\ WF_vars(SendReturns)
    /\ \A b \in Beebs : WF_vars(Receive(b))
    /\ \A l \in Links : SF_vars(HostRepeats(l)) /\ SF_vars(HostAnswered(l))

-----------------------------------------------------------------------------
(* Properties. *)

TypeOK ==
    /\ slots \in [Hosts -> Slot]
    /\ ready \subseteq Beebs
    /\ current = Idle \/ current \in [busy : {TRUE}, station : Configured, d : Datagram]
    /\ sockets \in [Beebs -> Seq(Datagram)]
    /\ \A b \in Beebs : Len(sockets[b]) <= SocketLen
    /\ \A b \in ready : sockets[b] # <<>>
    /\ \A h \in Hosts : answers[h] \subseteq Answer
    /\ \A h \in Hosts : issued[h] \in 0..MaxPackets[h]
    /\ \A h \in Hosts : number[h] \in 0..issued[h]
    /\ \A l \in Links : waiting[l].pkt \in 0..issued[l[1]] /\ waiting[l].seq \in Nat
    /\ \A l \in Links : log[l] \in Seq(1..issued[l[1]])
    /\ \A h \in Hosts : acked[h] \subseteq 1..issued[h]

\* Every link is a Delivery: packets arrive in order, at most once, and only
\* what arrived is acknowledged, however datagrams and answers are lost and
\* repeated; up to the first restart or reconfiguration, which forget numbers.
Promise(l) == INSTANCE Delivery WITH
    sent <- issued[l[1]],
    delivered <- log[l],
    acked <- acked[l[1]]

Untouched == restarts = 0 /\ reconfigs = 0

PromisesKept ==
    /\ \A l \in Links : Promise(l)!Init
    /\ [][Untouched' => \A l \in Links : [Promise(l)!Next]_(Promise(l)!vars)]_vars

\* aun_bridge.c: "Send to Beeb (but only if we didn't get acknowledgement
\* before for this packet.)"  A restart of the host, its old datagrams still on
\* the way, does not make an old packet arrive twice or late.
DeliveredOnce ==
    reconfigs = 0 => \A l \in Links : \A i, j \in DOMAIN log[l] : i < j => log[l][i] < log[l][j]

\* A host is told ACK only for a packet the station accepted, reconfigurations
\* of the bridge notwithstanding.
AckedDelivered ==
    restarts = 0 => \A h \in Hosts : \A p \in acked[h] :
        \E l \in Links : l[1] = h /\ \E i \in DOMAIN log[l] : log[l][i] = p

\* Types, and aun_bridge.c: "Send (N)ACK to calling station at port we have on
\* file": no host ever gets another's answer.
AnswerGoesToCaller == TypeOK /\ \A h \in Hosts : \A a \in answers[h] : a.from = h

\* A configured host that keeps asking gets an answer.
HostIsAnswered ==
    \A l \in Links : l[1] \in Configured =>
        (waiting[l] # NoWait ~> waiting[l] = NoWait)
=============================================================================
