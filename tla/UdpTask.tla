------------------------------- MODULE UdpTask -------------------------------
(***************************************************************************)
(* The task aun_udp_rx as a whole: one loop that waits for the sockets of  *)
(* all Econet stations and trunks, serves those that have something, keeps *)
(* the trunks' clocks and can be told to end; and the tables it works      *)
(* from, which a reconfiguration rebuilds.  What a trunk delivers is       *)
(* modelled here; for an AUN host see module AunInbound.                   *)
(*                                                                         *)
(* A socket is a descriptor number.  Closing frees it, and another socket  *)
(* gets any number that is free: lwip's, external, which the web server    *)
(* takes from too.  Each trunk's hub, external, numbers its packets,       *)
(* repeats one until it is answered, and listens to the updates.           *)
(* Datagrams and answers may be lost.                                       *)
(***************************************************************************)
EXTENDS Integers, Sequences, FiniteSets, Functions

CONSTANTS
    Stations,       \* slots of econet_stations[]
    Trunks,         \* slots of trunks[]
    Configs,        \* configurations: numbers of stations and of trunks
    Descriptors,    \* numbers of sockets
    UpdateInterval, \* loop rounds of a second between updates (10)
    TimerModulus,   \* time_to_next_update is counted modulo this (2^16)
    FirstNumber,    \* the hub's first sequence number
    MaxPackets,     \* bound: packets the hub of a trunk sends
    SocketLen,      \* bound: datagrams buffered in a socket
    MaxReconfigs    \* bound: reconfigurations

ASSUME UdpTaskConstants ==
    /\ Stations \in Nat /\ Trunks \in Nat
    /\ Configs # {}
    /\ Configs \subseteq [stations : 0..Stations, trunks : 0..Trunks]
    /\ Descriptors \subseteq Nat \ {0}
    /\ UpdateInterval \in Nat \ {0} /\ TimerModulus \in Nat
    /\ UpdateInterval < TimerModulus
    /\ FirstNumber \in Nat /\ MaxPackets \in Nat
    /\ SocketLen \in Nat /\ MaxReconfigs \in Nat

\* The loop looks at the slots of the stations first.
Slots == ({"station"} \X (1..Stations)) \cup ({"trunk"} \X (1..Trunks))
Position(s) == IF s[1] = "station" THEN s[2] ELSE Stations + s[2]
LastPosition == Stations + Trunks
TrunkSlots == {s \in Slots : s[1] = "trunk"}

\* No socket's number: what a slot holds that was never opened, or not for want
\* of a socket.
NoSocket == 0

VARIABLES
    \* the tables
    open,           \* per slot: is_open
    fd,             \* per slot: socket, kept when the slot is closed
    sockets,        \* the numbers under which the bridge has a socket open
    timer,          \* per trunk slot: time_to_next_update
    dup,            \* per trunk slot: last_acked_seq, last_tx_result
    \* the task
    pc, pos,        \* where it is, and at which slot
    rfds,           \* the descriptors select found readable
    second,         \* a second has passed since the last tick
    current,        \* the packet inside econet_send
    \* the controller
    ctl, config,
    \* the network and the hubs
    buffer,         \* per slot whose socket is open: what has arrived
    answered,       \* per trunk: numbers answered on the way to the hub
    hub,            \* per trunk: packets issued, the one it waits for
    \* what has happened since the tables were built
    log,            \* per trunk: packets the Econet accepted, in order
    acked,          \* per trunk: packets the hub knows to be accepted
    heard,          \* per trunk: the hub got an update
    reconfigs

tables == <<open, fd, sockets, timer, dup>>
taskVars == <<pc, pos, rfds, second, current>>
hubVars == <<hub, acked>>
vars == <<tables, taskVars, ctl, config, buffer, answered, hubVars, log, heard, reconfigs>>

Results == {"ACK", "NACK", "NACK_CORRUPT", "SEND_ERROR", "IMM_REPLY"}

\* "OTHER" on a trunk: a packet that is too short, of another encryption type,
\* not of this trunk's key or not for our network, all of which are dropped, or
\* one of those of module Outbound.
Kinds == {"DATA", "OTHER"}
Datagram == [kind : Kinds, pkt : 0..MaxPackets]

Idle == [kind |-> "OTHER", pkt |-> 0]
Number(pkt) == FirstNumber + 4 * (pkt - 1)

\* _setup_trunk: memset makes the last result an ACK.
ClearedTrunk == [last_acked_seq |-> 0, last_tx_result |-> "ACK"]
EmptyTrunk == [ClearedTrunk EXCEPT !.last_acked_seq = 1]

\* The slots in use are the first ones of each kind.
First(kind, n) == {s \in Slots : s[1] = kind /\ s[2] <= n}

\* After the first configuration.
Init ==
    /\ config \in Configs
    /\ \E n \in 0..config.stations, m \in 0..config.trunks :
       \E number \in Injection(First("station", n) \cup First("trunk", m), Descriptors) :
          /\ open = [s \in Slots |-> s \in DOMAIN number]
          /\ fd = [s \in Slots |-> IF s \in DOMAIN number THEN number[s] ELSE NoSocket]
          /\ sockets = Range(number)
          /\ timer = [s \in TrunkSlots |-> IF s \in DOMAIN number THEN 1 ELSE 0]
          /\ dup = [s \in TrunkSlots |-> IF s \in DOMAIN number THEN EmptyTrunk ELSE ClearedTrunk]
    /\ pc = "select" /\ pos = 1 /\ rfds = {} /\ second = FALSE
    /\ current = Idle
    /\ ctl = "running"
    /\ buffer = [s \in Slots |-> <<>>]
    /\ answered = [s \in TrunkSlots |-> {}]
    /\ hub = [s \in TrunkSlots |-> [issued |-> 0, waits |-> FALSE]]
    /\ log = [s \in TrunkSlots |-> <<>>]
    /\ acked = [s \in TrunkSlots |-> {}]
    /\ heard = [s \in TrunkSlots |-> FALSE]
    /\ reconfigs = 0

-----------------------------------------------------------------------------
(* The loop. *)

\* The open slot behind a descriptor, if there is one.
Behind(d) == {s \in Slots : open[s] /\ fd[s] = d}
Readable == {d \in Descriptors : \E s \in Behind(d) : buffer[s] # <<>>}

\* select returns, at the latest after a second.
Select ==
    /\ pc = "select"
    /\ ctl # "stopping"
    /\ rfds' = Readable
    /\ second' \in BOOLEAN
    /\ second' \/ rfds' # {}
    /\ pc' = "serve" /\ pos' = 1
    /\ UNCHANGED <<tables, current, ctl, config, buffer, answered, hubVars, log, heard, reconfigs>>

\* The control pipe is readable: the task notifies the controller and ends.
Stop ==
    /\ pc = "select"
    /\ ctl = "stopping"
    /\ pc' = "gone"
    /\ ctl' = "rebuild"
    /\ UNCHANGED <<tables, pos, rfds, second, current, config, buffer, answered, hubVars,
                   log, heard, reconfigs>>

\* Is the slot served?  A station's is whenever its descriptor is in the set;
\* a trunk's too, provided the first trunk is open.
ServedUnasked(s) == open[s]
Served(s) ==
    /\ fd[s] \in rfds
    /\ s[1] = "trunk" => open[<<"trunk", 1>>]

\* The next slot to be served, if there is one left.
Turn == {s \in Slots : /\ Served(s) /\ pos <= Position(s)
                       /\ \A u \in Slots : Served(u) /\ pos <= Position(u)
                                             => Position(s) <= Position(u)}

\* Is this a packet to be sent, rather than answered again?
SendUnlessAcked(slot, seq) ==
    seq # slot.last_acked_seq \/ slot.last_tx_result # "ACK"
SendAgain(slot, seq) ==
    \/ seq # slot.last_acked_seq
    \/ slot.last_tx_result \in {"NACK", "IMM_REPLY"}

\* The (N)ACK goes back to the trunk, and may be lost.
Reply(s, pkt, result) ==
    \/ UNCHANGED answered
    \/ /\ hub[s].waits /\ pkt = hub[s].issued
       /\ answered' = [answered EXCEPT ![s] =
           @ \cup {[pkt |-> pkt, ack |-> result = "ACK"]}]

\* recvfrom on the slot's descriptor, whatever is behind it now; if nothing is
\* to be had, it waits.  Then _aun_udp_rx_process or trunk_rx_process, which
\* drops what was meant for another slot.
Receive ==
    /\ pc = "serve"
    /\ \E s \in Turn : \E from \in Behind(fd[s]) :
             LET d == Head(buffer[from])
                 mine == s = from /\ s \in TrunkSlots /\ d.kind = "DATA"
             IN /\ buffer[from] # <<>>
                /\ buffer' = [buffer EXCEPT ![from] = Tail(@)]
                /\ \/ /\ mine /\ SendAgain(dup[s], Number(d.pkt))
                      /\ pc' = "send" /\ current' = d
                      /\ UNCHANGED answered
                   \/ /\ mine /\ ~SendAgain(dup[s], Number(d.pkt))
                      /\ Reply(s, d.pkt, dup[s].last_tx_result)
                      /\ UNCHANGED <<pc, current>>
                   \/ /\ ~mine
                      /\ UNCHANGED <<pc, current, answered>>
                /\ pos' = Position(s) + 1
    /\ UNCHANGED <<tables, rfds, second, ctl, config, hubVars, log, heard, reconfigs>>

\* econet_send returns: ACK means the station took the packet, NACK that it did
\* not (module Econet).
Remember(slot, seq, result) == [last_acked_seq |-> seq, last_tx_result |-> result]

SendReturns ==
    /\ pc = "send"
    /\ LET s == <<"trunk", pos - 1 - Stations>> IN
       \E result \in Results \ {"IMM_REPLY"}, took \in BOOLEAN :
          /\ result = "ACK" => took
          /\ result = "NACK" => ~took
          /\ log' = IF took THEN [log EXCEPT ![s] = Append(@, current.pkt)] ELSE log
          /\ dup' = [dup EXCEPT ![s] = Remember(@, Number(current.pkt), result)]
          /\ Reply(s, current.pkt, result)
    /\ current' = Idle
    /\ pc' = "serve"
    /\ UNCHANGED <<open, fd, sockets, timer, pos, rfds, second, ctl, config, buffer, hubVars, heard,
                   reconfigs>>

\* trunk_tick: the slots count down whether they are open or not.
Countdown(t) == (t - 1) % TimerModulus

Due(s) == Countdown(timer[s]) = 0
Stuck(s) == IF Due(s) THEN UpdateInterval ELSE timer[s]
NextUpdate(s) == IF Due(s) THEN UpdateInterval ELSE Countdown(timer[s])

\* Every slot was looked at.  An update that is sent may be lost.
EndOfRound ==
    /\ pc = "serve"
    /\ Turn = {}
    /\ IF second
       THEN /\ timer' = [s \in TrunkSlots |-> NextUpdate(s)]
            /\ \E lost \in SUBSET TrunkSlots :
                  heard' = [s \in TrunkSlots |->
                                heard[s] \/ (open[s] /\ Due(s) /\ s \notin lost)]
       ELSE UNCHANGED <<timer, heard>>
    /\ second' = FALSE
    /\ pc' = "select" /\ pos' = 1 /\ rfds' = {}
    /\ UNCHANGED <<open, fd, sockets, dup, current, ctl, config, buffer, answered, hubVars,
                   log, reconfigs>>

Task == Select \/ Stop \/ Receive \/ SendReturns \/ EndOfRound

-----------------------------------------------------------------------------
(* aunbridge_reconfigure. *)

Shutdown ==
    /\ ctl = "running"
    /\ reconfigs < MaxReconfigs
    /\ reconfigs' = reconfigs + 1
    /\ ctl' = "stopping"
    /\ UNCHANGED <<tables, taskVars, config, buffer, answered, hubVars, log, heard>>

\* The sockets of a kind that are closed before others are opened.
HeldOnce(kind) == {fd[s] : s \in First(kind, LastPosition)}
Held(kind) == {fd[s] : s \in {u \in First(kind, LastPosition) : open[u]}}

\* What a number given to a new socket may be.
Numberings(kind, n) == Injection(First(kind, n), Descriptors \ (sockets \ Held(kind)))

\* The sockets of a kind are closed with what they hold, and those of a new
\* configuration opened.  A slot that is not used again keeps its number, one
\* for which there was no socket loses it.
Reopen(kind, number, cleared) ==
    /\ open' = [s \in Slots |-> IF s[1] = kind THEN s \in DOMAIN number ELSE open[s]]
    /\ fd' = [s \in Slots |-> IF s \in DOMAIN number THEN number[s]
                              ELSE IF s \in cleared THEN NoSocket ELSE fd[s]]
    /\ sockets' = (sockets \ Held(kind)) \cup Range(number)
    /\ buffer' = [s \in Slots |-> IF s[1] = kind THEN <<>> ELSE buffer[s]]

\* _setup_econet_station, while the old trunks' sockets are still open.  One
\* that gets no socket, or cannot bind it, leaves its slot to the next.
SetupStations ==
    /\ ctl = "rebuild"
    /\ config' \in Configs
    /\ \E n \in 0..config'.stations : \E number \in Numberings("station", n) :
          Reopen("station", number, {})
    /\ ctl' = "trunks"
    /\ UNCHANGED <<timer, dup, taskVars, answered, hubVars, log, heard, reconfigs>>

\* _setup_trunk.  One that gets no socket leaves its slot, cleared, to the next.
SetupTrunks ==
    /\ ctl = "trunks"
    /\ \E n \in 0..config.trunks : \E number \in Numberings("trunk", n) :
       \E cleared \in {{}} \cup (IF n < config.trunks THEN {{<<"trunk", n + 1>>}} ELSE {}) :
          /\ Reopen("trunk", number, cleared)
          /\ timer' = [s \in TrunkSlots |-> IF s \in DOMAIN number THEN 1
                                            ELSE IF s \in cleared THEN 0 ELSE timer[s]]
          /\ dup' = [s \in TrunkSlots |-> IF s \in DOMAIN number THEN EmptyTrunk
                                          ELSE IF s \in cleared THEN ClearedTrunk ELSE dup[s]]
    /\ heard' = [s \in TrunkSlots |-> FALSE]
    /\ ctl' = "running"
    /\ pc' = "select" /\ pos' = 1
    /\ log' = [s \in TrunkSlots |-> <<>>]
    /\ acked' = [s \in TrunkSlots |-> {}]
    /\ UNCHANGED <<rfds, second, current, config, answered, hub, reconfigs>>

Rebuild == SetupStations \/ SetupTrunks

-----------------------------------------------------------------------------
(* The network and the hubs. *)

Arrives(s, d) ==
    /\ open[s]
    /\ Len(buffer[s]) < SocketLen
    /\ buffer' = [buffer EXCEPT ![s] = Append(@, d)]

\* An AUN packet for a station, or something on a trunk that is not for us.
OtherArrives(s) ==
    /\ Arrives(s, [kind |-> "OTHER", pkt |-> 0])
    /\ UNCHANGED <<tables, taskVars, ctl, config, answered, hubVars, log, heard, reconfigs>>

\* The hub ignores what answers another packet than the one it waits for.
HubSends(s) ==
    /\ ~hub[s].waits
    /\ hub[s].issued < MaxPackets
    /\ hub' = [hub EXCEPT ![s] = [issued |-> @.issued + 1, waits |-> TRUE]]
    /\ answered' = [answered EXCEPT ![s] = {}]
    /\ UNCHANGED <<tables, taskVars, ctl, config, buffer, acked, log, heard, reconfigs>>

\* A transmission that arrives.
HubRepeats(s) ==
    /\ hub[s].waits
    /\ Arrives(s, [kind |-> "DATA", pkt |-> hub[s].issued])
    /\ UNCHANGED <<tables, taskVars, ctl, config, answered, hubVars, log, heard, reconfigs>>

HubGivesUp(s) ==
    /\ hub[s].waits
    /\ hub' = [hub EXCEPT ![s].waits = FALSE]
    /\ answered' = [answered EXCEPT ![s] = {}]
    /\ UNCHANGED <<tables, taskVars, ctl, config, buffer, acked, log, heard, reconfigs>>

HubAnswered(s) ==
    /\ hub[s].waits
    /\ \E a \in answered[s] :
          /\ a.pkt = hub[s].issued
          /\ acked' = IF a.ack THEN [acked EXCEPT ![s] = @ \cup {a.pkt}] ELSE acked
    /\ answered' = [answered EXCEPT ![s] = {}]
    /\ hub' = [hub EXCEPT ![s].waits = FALSE]
    /\ UNCHANGED <<tables, taskVars, ctl, config, buffer, log, heard, reconfigs>>

Network ==
    \/ \E s \in Slots : OtherArrives(s)
    \/ \E s \in TrunkSlots : HubSends(s) \/ HubRepeats(s) \/ HubGivesUp(s) \/ HubAnswered(s)

Next == Task \/ Shutdown \/ Rebuild \/ Network

Spec == Init /\ [][Next]_vars

\* The tasks are scheduled, econet_send returns (module Econet), and time goes
\* on: now and then a second has passed.  The network loses an update now and
\* then, not every one.
SecondPasses == Select /\ second'
UpdateHeard(s) == EndOfRound /\ heard'[s]

FairSpec ==
    /\ Spec
    /\ WF_vars(Task) /\ WF_vars(Rebuild) /\ SF_vars(SecondPasses)
    /\ \A s \in TrunkSlots : SF_vars(UpdateHeard(s))

-----------------------------------------------------------------------------
(* Properties. *)

TypeOK ==
    /\ open \in [Slots -> BOOLEAN]
    /\ fd \in [Slots -> {NoSocket} \cup Descriptors]
    /\ sockets \subseteq Descriptors
    /\ timer \in [TrunkSlots -> 0..TimerModulus - 1]
    /\ pc \in {"select", "serve", "send", "gone"}
    /\ pos \in 1..LastPosition + 1
    /\ rfds \subseteq Descriptors
    /\ second \in BOOLEAN
    /\ current \in Datagram
    /\ ctl \in {"running", "stopping", "rebuild", "trunks"}
    /\ config \in Configs
    /\ \A s \in Slots : Len(buffer[s]) <= SocketLen
    /\ \A s \in Slots : \A i \in DOMAIN buffer[s] : buffer[s][i] \in Datagram
    /\ \A s \in TrunkSlots : hub[s].issued \in 0..MaxPackets

\* A closed slot that is looked at has the number another socket has got: the
\* task takes what arrives there twice, and the second time waits for more.
Haunted == \E s \in Slots : /\ ~open[s] /\ fd[s] \in sockets
                            /\ s[1] = "trunk" => open[<<"trunk", 1>>]

\* Types; whatever numbers the sockets are given and take over from each other,
\* each open slot has one of its own and no other is open; and the task takes
\* from a socket only what select announced: the slot it serves is open and its
\* socket has something to be received, unless it is haunted.
OwnSockets ==
    /\ sockets = {fd[s] : s \in {u \in Slots : open[u]}}
    /\ \A s, u \in Slots : open[s] /\ open[u] /\ fd[s] = fd[u] => s = u
ReceivesOwn ==
    /\ TypeOK /\ OwnSockets
    /\ pc = "serve" /\ ~Haunted => \A s \in Turn : open[s] /\ buffer[s] # <<>>

\* What a hub is promised of the Econet behind the trunk: in order, at most
\* once, and only what was accepted is acknowledged.  A reconfiguration forgets
\* what was answered, so this is said of the time up to the first one.
Promise(s) == INSTANCE Delivery WITH
    sent <- hub[s].issued,
    delivered <- log[s],
    acked <- acked[s]

TrunkPromise ==
    [][reconfigs' = 0 => \A s \in TrunkSlots : [Promise(s)!Next]_(Promise(s)!vars)]_vars

\* aun_bridge.c: "Shut down receivers so we can safely modify state": the task
\* always gets round to ending, so a reconfiguration comes to its end.
ShutdownEnds == (ctl = "stopping" /\ ~Haunted) ~> (ctl = "running")

\* A hub hears from every open trunk, after each reconfiguration anew: the
\* clock of a trunk comes round whatever it was when the slot was closed.
HubHears ==
    \A s \in TrunkSlots : (open[s] /\ ctl = "running" /\ ~Haunted)
                               ~> (heard[s] \/ ctl # "running")
=============================================================================
