------------------------------- MODULE Outbound -------------------------------
(***************************************************************************)
(* From the Econet to IP, and the life of the bridge's two tasks.          *)
(*                                                                         *)
(* "aun_econet_rx" takes what the receiver queued, pairs a scout with its  *)
(* data frame, routes the packet to a trunk or to an AUN host, and repeats *)
(* it until its number comes back through ack_queue.  "aun_udp_rx" feeds   *)
(* ack_queue and keeps the networks behind each trunk.  The web server's   *)
(* task shuts both down and starts them anew with the new configuration.   *)
(*                                                                         *)
(* External: the Econet stations, whose frames reach the queue as          *)
(* _complete_frame posts them, and the far ends (AUN hosts and bridges),   *)
(* which take a number once and answer whatever they get.                  *)
(***************************************************************************)
EXTENDS FreeRTOS, FiniteSets

CONSTANTS
    Beebs,          \* Econet stations
    AunHosts,       \* AUN hosts, each presented as the station of its name
    Trunks,         \* indices of trunks[]
    Nets,           \* networks behind trunks, and numbers of our own
    Local,          \* how network 0 is written
    Dests,          \* <<network, station>> pairs the stations send to
    Lengths,        \* of data frames: "short" (5 bytes), "six", "long"
    Configs,        \* configurations: sets of beebs, hosts and open trunks, our network
    RxQueueLen,     \* capacity of econet_rx_packet_queue (4)
    AckQueueLen,    \* capacity of ack_queue (10)
    Tries,          \* transmissions of a packet (4)
    Receipts,       \* numbers taken from ack_queue per transmission (5)
    MaxExchanges,   \* bound: exchanges the stations begin
    MaxFlight,      \* bound: datagrams, and answers, on the way per far end
    MaxUpdates,     \* bound: bridge updates received
    MaxReconfigs    \* bound: reconfigurations

FarEnds == AunHosts \cup Trunks

ASSUME OutboundConstants ==
    /\ Trunks \subseteq Nat \ {0}
    /\ AunHosts \cap Trunks = {}
    /\ Local \notin Nets
    /\ Dests \subseteq (Nets \cup {Local}) \X AunHosts
    /\ Lengths \subseteq {"short", "six", "long"}
    /\ Configs \subseteq [beebs : SUBSET Beebs, hosts : SUBSET AunHosts, trunks : SUBSET Trunks,
                          net : Nets]
    /\ Configs # {}
    /\ RxQueueLen \in Nat \ {0} /\ AckQueueLen \in Nat \ {0}
    /\ Tries \in Nat \ {0} /\ Receipts \in Nat \ {0}
    /\ MaxExchanges \in Nat /\ MaxFlight \in Nat
    /\ MaxUpdates \in Nat /\ MaxReconfigs \in Nat

VARIABLES
    \* the receiver and the line
    line,           \* "idle", "scout" (a data frame may follow), "busy"
    exchange,       \* per exchange begun: source, destination, data length
    stationBits, netBits,   \* rx_station_bitmap, rx_network_bitmap
    rxQueue,        \* econet_rx_packet_queue
    \* aun_econet_rx
    task,           \* where it is, and its local variables
    number,         \* rx_seq (under 0) and the seq of each trunk
    \* aun_udp_rx
    udp,            \* where it is
    ackQueue,
    nets,           \* trunks[].nets
    \* the controller
    ctl, config,
    \* the far ends
    flight,         \* datagrams on the way, in order
    answers,        \* answers on the way, in order
    taken,          \* what each far end delivered, in order
    lastNumber,     \* the number it took last
    \* what has happened
    overflowed,     \* a frame or an idle report did not fit the queue
    complete,       \* exchanges whose scout and data frames were queued
    handled,        \* exchanges sent, or given up for want of data or destination
    updates, reconfigs

lineVars == <<line, exchange>>
udpVars == <<udp, nets>>
farVars == <<answers, taken, lastNumber>>
ctlVars == <<ctl, config>>
history == <<overflowed, complete, handled>>
bounds == <<updates, reconfigs>>
vars == <<lineVars, stationBits, netBits, rxQueue, task, number, udpVars, ackQueue,
          ctlVars, flight, farVars, history, bounds>>

Exchange == [src : Beebs, dst : Dests, len : Lengths]
Frame(ex, part) == [type |-> "P", ex |-> ex, part |-> part]
IdleReport == [type |-> "I"]
Shutdown == [type |-> "S"]
Packets == [type : {"P"}, ex : 1..MaxExchanges, part : {"scout", "data"}]
               \cup {IdleReport, Shutdown}

\* A scout has 6 bytes, and so has a data frame with a payload of two.
Length(p) == IF p.part = "scout" THEN "six" ELSE exchange[p.ex].len
SameHeader(p, q) == /\ exchange[p.ex].src = exchange[q.ex].src
                    /\ exchange[p.ex].dst = exchange[q.ex].dst

None == [type |-> "none"]
At(pc) == [pc |-> pc, scout |-> None, data |-> None, far |-> 0, seq |-> 0,
           tries |-> 0, receipts |-> 0, layers |-> 0]
Begin == At("scout")

Init ==
    /\ line = "idle"
    /\ exchange = <<>>
    /\ config \in Configs
    /\ stationBits = config.hosts
    /\ netBits = {}
    /\ rxQueue = <<>>
    /\ task = Begin
    /\ number = [f \in {0} \cup Trunks |-> 0]
    /\ udp = [pc |-> "select"]
    /\ ackQueue = <<>>
    /\ nets = [t \in Trunks |-> {}]
    /\ ctl = "running"
    /\ flight = [f \in FarEnds |-> <<>>]
    /\ answers = [f \in FarEnds |-> <<>>]
    /\ taken = [f \in FarEnds |-> <<>>]
    /\ lastNumber = [f \in FarEnds |-> 0]
    /\ overflowed = FALSE
    /\ complete = {}
    /\ handled = {}
    /\ updates = 0
    /\ reconfigs = 0

-----------------------------------------------------------------------------
(* The line and the receiver. *)

Accepts(dst) == (dst[1] = Local /\ dst[2] \in stationBits) \/ dst[1] \in netBits

Post(p) ==
    /\ rxQueue' = QueueSend(rxQueue, RxQueueLen, p)
    /\ overflowed' = (overflowed \/ Len(rxQueue) = RxQueueLen)

\* A station begins an exchange; it only does so on an idle line.
ScoutArrives ==
    /\ line = "idle"
    /\ Len(exchange) < MaxExchanges
    /\ \E e \in Exchange :
          /\ exchange' = Append(exchange, e)
          /\ IF Accepts(e.dst)
             THEN line' = "scout" /\ Post(Frame(Len(exchange) + 1, "scout"))
             ELSE line' = "busy" /\ UNCHANGED <<rxQueue, overflowed>>
    /\ UNCHANGED <<stationBits, netBits, task, number, udpVars, ackQueue, ctlVars,
                   flight, farVars, complete, handled, bounds>>

\* The scout was acknowledged; its data frame follows.
DataArrives ==
    /\ line = "scout"
    /\ line' = "busy"
    /\ LET ex == Len(exchange)
           wanted == Accepts(exchange[ex].dst)
       IN /\ IF wanted THEN Post(Frame(ex, "data")) ELSE UNCHANGED <<rxQueue, overflowed>>
          /\ complete' = IF wanted /\ Len(rxQueue) < RxQueueLen
                         THEN complete \cup {ex} ELSE complete
    /\ UNCHANGED <<exchange, stationBits, netBits, task, number, udpVars, ackQueue,
                   ctlVars, flight, farVars, handled, bounds>>

\* The exchange is over, or the data frame never came: the line falls idle.
LineFallsIdle ==
    /\ line # "idle"
    /\ line' = "idle"
    /\ Post(IdleReport)
    /\ UNCHANGED <<exchange, stationBits, netBits, task, number, udpVars, ackQueue,
                   ctlVars, flight, farVars, complete, handled, bounds>>

Line == ScoutArrives \/ DataArrives \/ LineFallsIdle

-----------------------------------------------------------------------------
(* aun_econet_rx. *)

taskOnly == <<lineVars, udpVars, ctl, config, farVars, overflowed, complete, bounds>>

\* _econet_rx finds the shutdown request: the task tells the controller and ends.
StillAtWork == Begin
Ended == At("gone")

StopEconetRx ==
    /\ task.pc \in {"scout", "data"}
    /\ rxQueue # <<>>
    /\ Head(rxQueue).type = "S"
    /\ ctl = "awaitEconet"
    /\ rxQueue' = Tail(rxQueue)
    /\ stationBits' = {}
    /\ netBits' = {}
    /\ task' = Ended
    /\ ctl' = "stopUdp"
    /\ handled' = IF task.pc = "data" THEN handled \cup {task.scout.ex} ELSE handled
    /\ UNCHANGED <<lineVars, number, udpVars, ackQueue, config, flight, farVars,
                   overflowed, complete, bounds>>

\* A scout is taken; idle reports, short frames and long ones are thrown away.
TakeScout ==
    /\ task.pc = "scout"
    /\ rxQueue # <<>>
    /\ Head(rxQueue).type # "S"
    /\ rxQueue' = Tail(rxQueue)
    /\ LET p == Head(rxQueue) IN
       task' = IF p.type = "P" /\ Length(p) = "six"
               THEN [task EXCEPT !.pc = "data", !.scout = p] ELSE task
    /\ UNCHANGED <<taskOnly, stationBits, netBits, number, ackQueue, flight, handled>>

\* Does this packet complete the scout?
Pairs(scout, p) ==
    /\ p.type = "P"
    /\ Length(p) # "short"
    /\ SameHeader(scout, p)

\* It does not: the scout is given up.
WaitOn(p) == IF p.type = "I" THEN task ELSE Begin
Unpaired(p) == Begin

TakeData ==
    /\ task.pc = "data"
    /\ rxQueue # <<>>
    /\ Head(rxQueue).type # "S"
    /\ rxQueue' = Tail(rxQueue)
    /\ LET p == Head(rxQueue) IN
       /\ task' = IF Pairs(task.scout, p) THEN [task EXCEPT !.pc = "route", !.data = p]
                                          ELSE Unpaired(p)
       /\ handled' = IF Pairs(task.scout, p) THEN handled ELSE handled \cup {task.scout.ex}
    /\ UNCHANGED <<taskOnly, stationBits, netBits, number, ackQueue, flight>>

\* Ten seconds without a data frame.
DataTimesOut ==
    /\ task.pc = "data"
    /\ rxQueue = <<>>
    /\ task' = Begin
    /\ handled' = handled \cup {task.scout.ex}
    /\ UNCHANGED <<taskOnly, rxQueue, stationBits, netBits, number, ackQueue, flight>>

Packet == exchange[task.scout.ex]

\* The first trunk that knows the network.
TrunkFor(net) == {t \in Trunks : /\ net \in nets[t]
                                 /\ \A u \in Trunks : net \in nets[u] => t <= u}
ForTrunk == Packet.dst[1] \notin {Local, config.net} /\ TrunkFor(Packet.dst[1]) # {}

NumberNext(f) == [number EXCEPT ![f] = @ + 1]

StartSending(far, counter) ==
    /\ number' = NumberNext(counter)
    /\ task' = [task EXCEPT !.pc = "send", !.far = far, !.seq = number'[counter],
                            !.tries = Tries]

RouteToTrunk ==
    /\ task.pc = "route"
    /\ ForTrunk
    /\ \E t \in TrunkFor(Packet.dst[1]) : StartSending(t, t)
    /\ UNCHANGED <<taskOnly, rxQueue, stationBits, netBits, ackQueue, flight, handled>>

\* Nothing but the station number decides which host the packet is for.
RouteToHost ==
    /\ task.pc = "route"
    /\ ~ForTrunk
    /\ IF Packet.src \in config.beebs /\ Packet.dst[2] \in config.hosts
       THEN StartSending(Packet.dst[2], 0) /\ UNCHANGED handled
       ELSE /\ task' = Begin
            /\ handled' = handled \cup {task.scout.ex}
            /\ UNCHANGED number
    /\ UNCHANGED <<taskOnly, rxQueue, stationBits, netBits, ackQueue, flight>>

\* What happens to the payload: a trunk's is encrypted where it lies, so each
\* transmission adds a layer; an AUN host's is sent as it is.
Layers(t) == IF t.far \in Trunks THEN t.layers + 1 ELSE 1

\* Every transmission carries the number of the packet.
NumberSentEachTime(t) == t.seq + Tries - t.tries
NumberSent(t) == t.seq

Datagram == [ex : 1..MaxExchanges, data : Packets, seq : Nat, layers : 1..Tries]

\* sendto; the datagram may be lost, at once or further on.
SendPacket ==
    /\ task.pc = "send"
    /\ task' = [task EXCEPT !.pc = "wait", !.tries = @ - 1, !.receipts = Receipts,
                            !.layers = Layers(task)]
    /\ handled' = handled \cup {task.scout.ex}
    /\ \/ UNCHANGED flight
       \/ /\ Len(flight[task.far]) < MaxFlight
          /\ flight' = [flight EXCEPT ![task.far] = Append(@,
                 [ex |-> task.scout.ex, data |-> task.data, seq |-> NumberSent(task),
                  layers |-> Layers(task)])]
    /\ UNCHANGED <<taskOnly, rxQueue, stationBits, netBits, number, ackQueue>>

\* Unanswered: once more, or give up.
RetryForEver(t) == [t EXCEPT !.pc = "send", !.tries = Tries]
Retry(t) == IF t.tries > 0 THEN [t EXCEPT !.pc = "send"] ELSE Begin

\* aunbridge_wait_ack takes a number; one that is not awaited is thrown away.
TakeAck ==
    /\ task.pc = "wait"
    /\ ackQueue # <<>>
    /\ ackQueue' = Tail(ackQueue)
    /\ task' = CASE Head(ackQueue) = task.seq -> Begin
                 [] Head(ackQueue) # task.seq /\ task.receipts > 1 ->
                        [task EXCEPT !.receipts = @ - 1]
                 [] OTHER -> Retry(task)
    /\ UNCHANGED <<taskOnly, rxQueue, stationBits, netBits, number, flight, handled>>

AckTimesOut ==
    /\ task.pc = "wait"
    /\ ackQueue = <<>>
    /\ task' = Retry(task)
    /\ UNCHANGED <<taskOnly, rxQueue, stationBits, netBits, number, ackQueue, flight, handled>>

EconetRxTask ==
    \/ StopEconetRx \/ TakeScout \/ TakeData \/ DataTimesOut
    \/ RouteToTrunk \/ RouteToHost \/ SendPacket \/ TakeAck \/ AckTimesOut

-----------------------------------------------------------------------------
(* aun_udp_rx, as far as it concerns this direction. *)

\* An ACK or a NACK: aunbridge_signal_ack.
SignalAck(f) ==
    /\ udp.pc = "select"
    /\ answers[f] # <<>>
    /\ f \in config.trunks \cup AunHosts
    /\ answers' = [answers EXCEPT ![f] = Tail(@)]
    /\ ackQueue' = QueueSend(ackQueue, AckQueueLen, Head(answers[f]))
    /\ UNCHANGED <<lineVars, stationBits, netBits, rxQueue, task, number, udpVars,
                   ctlVars, flight, taken, lastNumber, history, bounds>>

\* BRIDGE_UPDATE or BRIDGE_RESET: the trunk's networks are reset ...
ForgetNetworks(t) ==
    /\ udp.pc = "select"
    /\ t \in config.trunks
    /\ updates < MaxUpdates
    /\ updates' = updates + 1
    /\ \E announced \in SUBSET (Nets \ {config.net}) :
          udp' = [pc |-> "update", trunk |-> t, announced |-> announced]
    /\ nets' = [nets EXCEPT ![t] = {}]
    /\ UNCHANGED <<lineVars, stationBits, netBits, rxQueue, task, number, ackQueue,
                   ctlVars, flight, farVars, history, reconfigs>>

\* ... and set anew, and the receiver told of the networks of all trunks, of
\* those that are closed too.
Aggregate(ns) == UNION {ns[t] : t \in Trunks}

LearnNetworks ==
    /\ udp.pc = "update"
    /\ udp' = [pc |-> "select"]
    /\ nets' = [nets EXCEPT ![udp.trunk] = udp.announced]
    /\ netBits' = Aggregate(nets')
    /\ UNCHANGED <<lineVars, stationBits, rxQueue, task, number, ackQueue, ctlVars,
                   flight, farVars, history, bounds>>

\* select finds the byte in the control pipe.
StopUdpRx ==
    /\ udp.pc = "select"
    /\ ctl = "awaitUdp"
    /\ udp' = [pc |-> "gone"]
    /\ ctl' = "rebuild"
    /\ UNCHANGED <<lineVars, stationBits, netBits, rxQueue, task, number, ackQueue, nets,
                   config, flight, farVars, history, bounds>>

UdpTask == (\E f \in FarEnds : SignalAck(f)) \/ (\E t \in Trunks : ForgetNetworks(t))
           \/ LearnNetworks \/ StopUdpRx

-----------------------------------------------------------------------------
(* aunbridge_reconfigure, in the web server's task. *)

\* econet_rx_shutdown: nothing more is accepted ...
StopReceiving ==
    /\ ctl = "running"
    /\ reconfigs < MaxReconfigs
    /\ reconfigs' = reconfigs + 1
    /\ ctl' = "post"
    /\ stationBits' = {}
    /\ netBits' = {}
    /\ UNCHANGED <<lineVars, rxQueue, task, number, udpVars, ackQueue, config, flight,
                   farVars, history, updates>>

\* ... and the request is queued behind what was, for as long as it takes.
TryToQueue(p) == rxQueue' = QueueSend(rxQueue, RxQueueLen, p)
Queue(p) == HasRoom(rxQueue, RxQueueLen) /\ rxQueue' = Append(rxQueue, p)

PostShutdown ==
    /\ ctl = "post"
    /\ Queue(Shutdown)
    /\ ctl' = "awaitEconet"
    /\ UNCHANGED <<lineVars, stationBits, netBits, task, number, udpVars, ackQueue, config,
                   flight, farVars, history, bounds>>

\* The first notification came: write to the control pipe.
StopUdp ==
    /\ ctl = "stopUdp"
    /\ ctl' = "awaitUdp"
    /\ UNCHANGED <<lineVars, stationBits, netBits, rxQueue, task, number, udpVars, ackQueue,
                   config, flight, farVars, history, bounds>>

\* _setup_trunk clears the slots it fills, and no other.
NetsAfter(c) == [t \in Trunks |-> IF t \in c.trunks THEN {} ELSE nets[t]]

\* The networks learnt while the tasks were being stopped are not listened to.
NetBitsKept == netBits
NetBitsAfter == {}

\* Both tasks are gone: new tables, new sockets, new tasks.
Rebuild ==
    /\ ctl = "rebuild"
    /\ ctl' = "running"
    /\ \E c \in Configs :
          /\ config' = c
          /\ stationBits' = c.hosts
          /\ nets' = NetsAfter(c)
          /\ number' = [f \in DOMAIN number |-> IF f \in c.trunks THEN 0 ELSE number[f]]
    /\ netBits' = NetBitsAfter
    /\ answers' = [f \in FarEnds |-> <<>>]
    /\ task' = Begin
    /\ udp' = [pc |-> "select"]
    /\ UNCHANGED <<lineVars, rxQueue, ackQueue, flight, taken, lastNumber, history, bounds>>

Controller == StopReceiving \/ PostShutdown \/ StopUdp \/ Rebuild

-----------------------------------------------------------------------------
(* The far ends. *)

\* A datagram arrives.  A number not seen last is delivered, or refused with a
\* NACK; the answer may be lost.
FarEndReceives(f) ==
    /\ flight[f] # <<>>
    /\ flight' = [flight EXCEPT ![f] = Tail(@)]
    /\ LET d == Head(flight[f]) IN
       /\ \/ /\ d.seq # lastNumber[f]
             /\ taken' = [taken EXCEPT ![f] = Append(@, d)]
             /\ lastNumber' = [lastNumber EXCEPT ![f] = d.seq]
          \/ UNCHANGED <<taken, lastNumber>>
       /\ \/ UNCHANGED answers
          \/ /\ Len(answers[f]) < MaxFlight
             /\ answers' = [answers EXCEPT ![f] = Append(@, d.seq)]
    /\ UNCHANGED <<lineVars, stationBits, netBits, rxQueue, task, number, udpVars, ackQueue,
                   ctlVars, history, bounds>>

Next == Line \/ EconetRxTask \/ UdpTask \/ Controller \/ \E f \in FarEnds : FarEndReceives(f)

Spec == Init /\ [][Next]_vars

-----------------------------------------------------------------------------
(* Fairness.  The tasks are scheduled and their timeouts expire.  The       *)
(* controller waits inside xQueueSend and has the higher priority: it gets  *)
(* a slot if slots become free again and again.  Stations, far ends and the *)
(* network promise nothing.                                                 *)

FairSpec ==
    /\ Spec
    /\ WF_vars(EconetRxTask)
    /\ WF_vars(LearnNetworks) /\ WF_vars(StopUdpRx)
    /\ WF_vars(StopUdp) /\ WF_vars(Rebuild) /\ SF_vars(PostShutdown)

-----------------------------------------------------------------------------
(* Properties. *)

TypeOK ==
    /\ line \in {"idle", "scout", "busy"}
    /\ exchange \in Seq(Exchange) /\ Len(exchange) <= MaxExchanges
    /\ stationBits \subseteq AunHosts /\ netBits \subseteq Nets
    /\ \A i \in DOMAIN rxQueue : rxQueue[i] \in Packets
    /\ Len(rxQueue) <= RxQueueLen
    /\ task.pc \in {"scout", "data", "route", "send", "wait", "gone"}
    /\ task.scout \in Packets \cup {None} /\ task.data \in Packets \cup {None}
    /\ task.far \in FarEnds \cup {0}
    /\ task.tries \in 0..Tries /\ task.receipts \in 0..Receipts /\ task.layers \in 0..Tries
    /\ number \in [{0} \cup Trunks -> 0..MaxExchanges]
    /\ udp.pc \in {"select", "update", "gone"}
    /\ Len(ackQueue) <= AckQueueLen
    /\ nets \in [Trunks -> SUBSET Nets]
    /\ config \in Configs
    /\ ctl \in {"running", "post", "awaitEconet", "stopUdp", "awaitUdp", "rebuild"}
    /\ \A f \in FarEnds : \A i \in DOMAIN taken[f] : taken[f][i] \in Datagram
    /\ complete \subseteq 1..MaxExchanges /\ handled \subseteq 1..MaxExchanges

\* A packet goes out under the port and control byte of its own scout, as long
\* as the queue between receiver and task has not overflowed: whatever frames
\* go missing, a scout is never paired with the frame of another exchange.
OwnScout ==
    overflowed \/ (task.pc \in {"route", "send", "wait"} =>
                      task.data = Frame(task.scout.ex, "data"))

\* Each far end takes the packets in the order the stations sent them and none
\* twice, however often the bridge repeats them.
InOrderOnce ==
    \A f \in FarEnds : \A i, j \in DOMAIN taken[f] :
        i < j => taken[f][i].ex < taken[f][j].ex

\* Types, and the receiver accepts packets for a network only while some open
\* trunk leads there, whatever update was on the way when the bridge was stopped;
\* the instant between reset and update of a trunk's networks aside.  A trunk that
\* is removed while another stays keeps its networks, and the next update has the
\* receiver listen for them: the property is of configurations that do not.
SameTrunks == \A c, d \in Configs : c.trunks = {} \/ d.trunks = {} \/ c.trunks = d.trunks

ListensWhereRouted ==
    TypeOK /\ (udp.pc # "update" => netBits \subseteq UNION {nets[t] : t \in config.trunks})

\* No packet is sent, or awaited an answer for, once the bridge is being
\* rebuilt, and at no time are old and new tasks at work together.
QuietWhileRebuilt ==
    /\ ctl \in {"stopUdp", "awaitUdp", "rebuild"} => task.pc = "gone"
    /\ ctl = "rebuild" => udp.pc = "gone"
    /\ \A i \in DOMAIN rxQueue : rxQueue[i] = Shutdown => ctl = "awaitEconet"

\* An exchange whose frames were both queued is sent, found undeliverable, or
\* given up with its scout in hand (ten seconds without data, or a shutdown);
\* silent far ends, stale numbers and a reconfiguration only delay it.
ExchangeHandled ==
    \A ex \in 1..MaxExchanges : (ex \in complete /\ ~overflowed)
                                    ~> (ex \in handled \/ overflowed)

\* A reconfiguration comes to an end.
ReconfigureEnds == (ctl = "post") ~> (ctl = "running")

-----------------------------------------------------------------------------
(* What comments in the code promise and the code does not keep.            *)

\* aun_bridge.c: "AUN station %d is not configured but we accepted a packet for
\* it!" is an error: a packet for another network is not looked up among the
\* AUN stations of this one.
RemoteStaysRemote == task.far \in AunHosts => Packet.dst[1] \in {Local, config.net}

\* trunk.c: "Encrypt in place", "Retry!": what a far end takes is the packet.
TakenIntact == \A f \in FarEnds : \A i \in DOMAIN taken[f] : taken[f][i].layers = 1
=============================================================================
