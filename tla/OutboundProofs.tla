---------------------------- MODULE OutboundProofs ----------------------------
(***************************************************************************)
(* Theorems about module Outbound: for any stations, hosts, trunks,        *)
(* networks, configurations, queue lengths, tries and traffic.             *)
(***************************************************************************)
EXTENDS Outbound, Integers, SequenceTheorems, TLAPS

(* Queues: their types, their elements, and where those are. *)
LEMMA QueueSendType ==
    ASSUME NEW T, NEW q \in Seq(T), NEW x \in T, NEW cap \in Nat, Len(q) <= cap
    PROVE  /\ QueueSend(q, cap, x) \in Seq(T)
           /\ Len(QueueSend(q, cap, x)) <= cap
BY AppendProperties DEF QueueSend

LEMMA TailType ==
    ASSUME NEW T, NEW q \in Seq(T), q # <<>>
    PROVE  /\ Head(q) \in T
           /\ Tail(q) \in Seq(T)
           /\ Len(Tail(q)) = Len(q) - 1
BY HeadTailProperties

LEMMA ElementType ==
    ASSUME NEW T, NEW q \in Seq(T), NEW i \in DOMAIN q PROVE q[i] \in T
BY LenProperties, ElementOfSeq

LEMMA AppendedElements ==
    ASSUME NEW T, NEW q \in Seq(T), NEW x \in T
    PROVE  \A i \in DOMAIN Append(q, x) :
               Append(q, x)[i] = x \/ \E j \in DOMAIN q : Append(q, x)[i] = q[j]
BY AppendProperties, LenProperties

LEMMA TakenElements ==
    ASSUME NEW T, NEW q \in Seq(T), q # <<>>
    PROVE  /\ \E j \in DOMAIN q : Head(q) = q[j]
           /\ \A i \in DOMAIN Tail(q) : \E j \in DOMAIN q : Tail(q)[i] = q[j]
BY HeadTailProperties, LenProperties, EmptySeq

LEMMA SentOrKept ==
    ASSUME NEW q, NEW x, NEW cap
    PROVE  /\ QueueSend(q, cap, x) = q \/ QueueSend(q, cap, x) = Append(q, x)
           /\ Len(q) < cap => QueueSend(q, cap, x) = Append(q, x)
BY DEF QueueSend

LEMMA AppendedPlaces ==
    ASSUME NEW T, NEW q \in Seq(T), NEW x \in T
    PROVE  /\ Append(q, x) \in Seq(T) /\ Append(q, x) # <<>>
           /\ Len(q) \in Nat /\ DOMAIN q = 1..Len(q)
           /\ Len(Append(q, x)) = Len(q) + 1
           /\ DOMAIN Append(q, x) = 1..(Len(q) + 1)
           /\ \A i \in DOMAIN q : Append(q, x)[i] = q[i]
           /\ Append(q, x)[Len(q) + 1] = x
BY AppendProperties, LenProperties, EmptySeq

LEMMA TakenPlaces ==
    ASSUME NEW T, NEW q \in Seq(T), q # <<>>
    PROVE  /\ Tail(q) \in Seq(T) /\ Head(q) = q[1] /\ q[1] \in T
           /\ Len(q) \in Nat /\ Len(q) >= 1 /\ DOMAIN q = 1..Len(q)
           /\ Len(Tail(q)) = Len(q) - 1
           /\ DOMAIN Tail(q) = 1..(Len(q) - 1)
           /\ \A i \in 1..(Len(q) - 1) : Tail(q)[i] = q[i + 1]
BY HeadTailProperties, LenProperties, EmptySeq

(* Types, where TypeOK does not say enough. *)
HasScout(t) == t.pc \in {"data", "route", "send", "wait"}
Routed(t) == t.pc \in {"route", "send", "wait"}
Sending(t) == t.pc \in {"send", "wait"}

IsFrame(p) == p.type = "P"
Tasks == [pc : {"scout", "data", "route", "send", "wait", "gone"},
          scout : Packets \cup {None}, data : Packets \cup {None},
          far : FarEnds \cup {0}, seq : Nat, tries : 0..Tries, receipts : 0..Receipts,
          layers : 0..Tries]
WellFormed(t) ==
    /\ HasScout(t) => t.scout \in Packets /\ IsFrame(t.scout)
    /\ Routed(t) => t.data \in Packets
    /\ IF Sending(t) THEN t.far \in FarEnds /\ t.layers + t.tries <= Tries ELSE t.layers = 0
    /\ t.pc = "send" => t.tries >= 1

ReceiverTyped ==
    /\ line \in {"idle", "scout", "busy"}
    /\ exchange \in Seq(Exchange) /\ Len(exchange) <= MaxExchanges
    /\ line = "scout" => Len(exchange) >= 1
    /\ stationBits \subseteq AunHosts /\ netBits \subseteq Nets
    /\ rxQueue \in Seq(Packets) /\ Len(rxQueue) <= RxQueueLen
    /\ overflowed \in BOOLEAN
TaskTyped ==
    /\ task \in Tasks /\ WellFormed(task)
    /\ number \in [{0} \cup Trunks -> 0..MaxExchanges]
    /\ complete \subseteq 1..MaxExchanges /\ handled \subseteq 1..MaxExchanges
UdpTyped ==
    /\ udp.pc \in {"select", "update", "gone"}
    /\ udp.pc = "update" => udp.trunk \in Trunks /\ udp.announced \subseteq Nets
    /\ ackQueue \in Seq(Nat) /\ Len(ackQueue) <= AckQueueLen
    /\ nets \in [Trunks -> SUBSET Nets]
    /\ config \in Configs
    /\ ctl \in {"running", "post", "awaitEconet", "stopUdp", "awaitUdp", "rebuild"}
FarTyped ==
    /\ answers \in [FarEnds -> Seq(Nat)]
    /\ flight \in [FarEnds -> Seq(Datagram)] /\ taken \in [FarEnds -> Seq(Datagram)]
    /\ lastNumber \in [FarEnds -> Nat]

(* Frames in the order they are put on the line: what the task holds, what *)
(* is queued, what is still to come.                                       *)
Key(p) == IF p.part = "data" THEN 2 * p.ex + 1 ELSE 2 * p.ex
Rising(q, low, high) ==
    /\ \A i \in DOMAIN q : IsFrame(q[i]) => low < Key(q[i]) /\ Key(q[i]) < high
    /\ \A i, j \in DOMAIN q :
          i < j /\ IsFrame(q[i]) /\ IsFrame(q[j]) => Key(q[i]) < Key(q[j])
Reach(t) == IF t.pc = "data" THEN Key(t.scout)
            ELSE IF Routed(t) THEN 2 * t.scout.ex + 1 ELSE 0
Limit(l, n) == IF l = "scout" THEN 2 * n + 1 ELSE 2 * n + 2
QueueOrder ==
    /\ Reach(task) < Limit(line, Len(exchange))
    /\ Rising(rxQueue, Reach(task), Limit(line, Len(exchange)))

(* The numbers given and the exchanges sent are below those still to come. *)
Under(num, fl, tk, n) ==
    /\ \A c \in {0} \cup Trunks : num[c] < n
    /\ \A f \in FarEnds : /\ \A i \in DOMAIN fl[f] : fl[f][i].ex < n
                          /\ \A i \in DOMAIN tk[f] : tk[f][i].ex < n
FrontOf(t) == IF Sending(t) THEN t.scout.ex + 1 ELSE t.scout.ex
PastOrder ==
    /\ \A i \in DOMAIN rxQueue : IsFrame(rxQueue[i]) => Under(number, flight, taken, rxQueue[i].ex)
    /\ HasScout(task) => Under(number, flight, taken, FrontOf(task))
    /\ Under(number, flight, taken, Len(exchange) + 1)
    /\ line = "scout" => Under(number, flight, taken, Len(exchange))

(* Towards a far end, no packet overtakes another, and a repetition has    *)
(* the number of the packet.                                                *)
Alike(d, e) == d.ex <= e.ex /\ (d.ex = e.ex => d.seq = e.seq)
Orderly(tk, fl, last) ==
    /\ \A i, j \in DOMAIN tk : i < j => tk[i].ex < tk[j].ex
    /\ \A i \in DOMAIN tk, j \in DOMAIN fl : Alike(tk[i], fl[j])
    /\ \A i, j \in DOMAIN fl : i < j => Alike(fl[i], fl[j])
    /\ tk # <<>> => last = tk[Len(tk)].seq
SameNumber(tk, fl, t) ==
    /\ \A i \in DOMAIN tk : tk[i].ex = t.scout.ex => tk[i].seq = t.seq
    /\ \A i \in DOMAIN fl : fl[i].ex = t.scout.ex => fl[i].seq = t.seq
SendOrder ==
    /\ \A f \in FarEnds : Orderly(taken[f], flight[f], lastNumber[f])
    /\ Sending(task) => SameNumber(taken[task.far], flight[task.far], task)

(* What stands before what in the queue, while it has not overflowed. *)
Follows(p, q) == IsFrame(p) /\ IsFrame(q) => p.part = "scout" /\ q = Frame(p.ex, "data")
Ends(p, l, n) ==
    IsFrame(p) => /\ l # "idle"
                  /\ l = "scout" => p.part = "scout" /\ p.ex = n
Chain(q, l, n) ==
    /\ \A i \in DOMAIN q : i + 1 \in DOMAIN q => Follows(q[i], q[i + 1])
    /\ q # <<>> => Ends(q[Len(q)], l, n)
LeadsInto(p, q, l, n) == IF q = <<>> THEN Ends(p, l, n) ELSE Follows(p, q[1])
Paired ==
    /\ Chain(rxQueue, line, Len(exchange))
    /\ task.pc = "data" => LeadsInto(task.scout, rxQueue, line, Len(exchange))
    /\ Routed(task) => task.data = Frame(task.scout.ex, "data")

(* The tasks, and the one request that stops the first. *)
Controlled ==
    /\ ctl \in {"stopUdp", "awaitUdp", "rebuild"} <=> task.pc = "gone"
    /\ ctl = "rebuild" <=> udp.pc = "gone"
    /\ \A i \in DOMAIN rxQueue : rxQueue[i].type = "S" => ctl = "awaitEconet"
    /\ \A i, j \in DOMAIN rxQueue : rxQueue[i].type = "S" /\ rxQueue[j].type = "S" => i = j

(* Where trunks are opened and closed all together, the networks kept are   *)
(* of trunks that are open whenever any is.                                 *)
OfSuchAsOpen(t) == \A c \in Configs : c.trunks = {} \/ t \in c.trunks
Listening ==
    /\ udp.pc = "update" => udp.trunk \in config.trunks
    /\ SameTrunks => /\ \A t \in Trunks : nets[t] # {} => OfSuchAsOpen(t)
                     /\ udp.pc # "update" => netBits \subseteq UNION {nets[t] : t \in config.trunks}

OutboundInv ==
    /\ ReceiverTyped /\ TaskTyped /\ UdpTyped /\ FarTyped
    /\ QueueOrder /\ PastOrder /\ SendOrder
    /\ ~overflowed => Paired
    /\ Controlled /\ Listening

-----------------------------------------------------------------------------
(* Packets, and the operators the invariant is made of. *)

LEMMA PacketParts ==
    ASSUME NEW p \in Packets
    PROVE  /\ p.type = "P" => /\ p.ex \in 1..MaxExchanges /\ p.part \in {"scout", "data"}
                              /\ p = Frame(p.ex, p.part)
                              /\ Key(p) \in Nat /\ Key(p) >= 2
                              /\ 2 * p.ex <= Key(p) /\ Key(p) <= 2 * p.ex + 1
           /\ p.type \in {"P", "I", "S"}
           /\ p.type = "S" <=> p = Shutdown
           /\ p.type = "I" <=> p = IdleReport
<1>1. CASE p \in [type : {"P"}, ex : 1..MaxExchanges, part : {"scout", "data"}]
  <2>1. p.type = "P" /\ p.ex \in 1..MaxExchanges /\ p.part \in {"scout", "data"}
    BY <1>1
  <2>2. p = Frame(p.ex, p.part)
    BY <1>1 DEF Frame
  <2>3. p # Shutdown /\ p # IdleReport
    BY <2>1 DEF Shutdown, IdleReport
  <2>4. Key(p) \in Nat /\ Key(p) >= 2 /\ 2 * p.ex <= Key(p) /\ Key(p) <= 2 * p.ex + 1
    BY <2>1, OutboundConstants DEF Key
  <2> QED
    BY <2>1, <2>2, <2>3, <2>4
<1>2. CASE p = IdleReport
  BY <1>2 DEF IdleReport, Shutdown
<1>3. CASE p = Shutdown
  BY <1>3 DEF IdleReport, Shutdown
<1> QED
  BY <1>1, <1>2, <1>3 DEF Packets

LEMMA FramesArePackets ==
    /\ \A ex \in 1..MaxExchanges, part \in {"scout", "data"} :
          /\ Frame(ex, part) \in Packets /\ IsFrame(Frame(ex, part))
          /\ Frame(ex, part).ex = ex /\ Frame(ex, part).part = part
          /\ Frame(ex, part).type # "S"
    /\ IdleReport \in Packets /\ ~IsFrame(IdleReport) /\ IdleReport.type # "S"
    /\ Shutdown \in Packets /\ ~IsFrame(Shutdown) /\ Shutdown.type = "S"
BY DEF Frame, Packets, IsFrame, IdleReport, Shutdown

(* Rising queues. *)
LEMMA RisingWider ==
    ASSUME NEW q \in Seq(Packets), NEW low \in Nat, NEW high \in Nat, Rising(q, low, high),
           NEW low2 \in Nat, NEW high2 \in Nat, low2 <= low, high <= high2
    PROVE  Rising(q, low2, high2)
<1>1. \A i \in DOMAIN q : IsFrame(q[i]) => Key(q[i]) \in Nat
  BY ElementType, PacketParts DEF IsFrame
<1> QED
  BY <1>1 DEF Rising

LEMMA RisingAppend ==
    ASSUME NEW q \in Seq(Packets), NEW low \in Nat, NEW high \in Nat, Rising(q, low, high),
           low < high,
           NEW x \in Packets, NEW high2 \in Nat, high <= high2,
           IsFrame(x) => high <= Key(x) /\ Key(x) < high2
    PROVE  Rising(Append(q, x), low, high2)
<1> DEFINE r == Append(q, x)
<1>1. /\ DOMAIN q = 1..Len(q) /\ Len(q) \in Nat
      /\ DOMAIN r = 1..(Len(q) + 1)
      /\ \A i \in DOMAIN q : r[i] = q[i]
      /\ r[Len(q) + 1] = x
  BY AppendedPlaces
<1>2. \A i \in DOMAIN q : IsFrame(q[i]) => Key(q[i]) \in Nat
  BY ElementType, PacketParts DEF IsFrame
<1>3. IsFrame(x) => Key(x) \in Nat
  BY PacketParts DEF IsFrame
<1> HIDE DEF r
<1>4. \A i \in DOMAIN r : IsFrame(r[i]) => low < Key(r[i]) /\ Key(r[i]) < high2
  BY <1>1, <1>2, <1>3 DEF Rising
<1>5. ASSUME NEW i \in DOMAIN r, NEW j \in DOMAIN r, i < j, IsFrame(r[i]), IsFrame(r[j])
      PROVE  Key(r[i]) < Key(r[j])
  <2>1. i \in DOMAIN q
    BY <1>1, <1>5
  <2>2. CASE j \in DOMAIN q
    BY <1>1, <1>5, <2>1, <2>2 DEF Rising
  <2>3. CASE j = Len(q) + 1
    BY <1>1, <1>2, <1>3, <1>5, <2>1, <2>3 DEF Rising
  <2> QED
    BY <1>1, <2>2, <2>3
<1>6. Rising(r, low, high2)
  BY <1>4, <1>5 DEF Rising
<1> QED
  BY <1>6 DEF r

LEMMA RisingTail ==
    ASSUME NEW q \in Seq(Packets), NEW low \in Nat, NEW high \in Nat, Rising(q, low, high),
           q # <<>>
    PROVE  /\ Rising(Tail(q), low, high)
           /\ IsFrame(q[1]) => /\ Rising(Tail(q), Key(q[1]), high)
                               /\ low < Key(q[1]) /\ Key(q[1]) < high
<1>1. /\ Len(q) \in Nat /\ Len(q) >= 1 /\ DOMAIN q = 1..Len(q)
      /\ DOMAIN Tail(q) = 1..(Len(q) - 1)
      /\ \A i \in 1..(Len(q) - 1) : Tail(q)[i] = q[i + 1]
  BY TakenPlaces
<1>2. \A i \in DOMAIN q : IsFrame(q[i]) => Key(q[i]) \in Nat
  BY ElementType, PacketParts DEF IsFrame
<1>3. \A i \in DOMAIN Tail(q) : i + 1 \in DOMAIN q /\ Tail(q)[i] = q[i + 1] /\ 1 < i + 1
  BY <1>1
<1>4. 1 \in DOMAIN q
  BY <1>1
<1>5. \A i, j \in DOMAIN Tail(q) : i < j => i + 1 < j + 1
  BY <1>1
<1> QED
  BY <1>2, <1>3, <1>4, <1>5 DEF Rising

(* Bounds on what was sent. *)
LEMMA UnderMore ==
    ASSUME NEW num \in [{0} \cup Trunks -> 0..MaxExchanges], NEW fl \in [FarEnds -> Seq(Datagram)],
           NEW tk \in [FarEnds -> Seq(Datagram)], NEW n \in Int, NEW m \in Int, n <= m,
           Under(num, fl, tk, n)
    PROVE  Under(num, fl, tk, m)
<1>1. \A c \in {0} \cup Trunks : num[c] \in Nat
  BY OutboundConstants
<1>2. ASSUME NEW f \in FarEnds
      PROVE  /\ \A i \in DOMAIN fl[f] : fl[f][i].ex \in Nat
             /\ \A i \in DOMAIN tk[f] : tk[f][i].ex \in Nat
  <2>1. fl[f] \in Seq(Datagram) /\ tk[f] \in Seq(Datagram)
    OBVIOUS
  <2>2. \A d \in Datagram : d.ex \in Nat
    BY OutboundConstants DEF Datagram
  <2> QED
    BY <2>1, <2>2, ElementType
<1> QED
  BY <1>1, <1>2 DEF Under

LEMMA UnderSent ==
    ASSUME NEW num, NEW fl \in [FarEnds -> Seq(Datagram)],
           NEW tk, NEW n \in Int, Under(num, fl, tk, n),
           NEW f \in FarEnds, NEW d \in Datagram, d.ex < n
    PROVE  Under(num, [fl EXCEPT ![f] = Append(@, d)], tk, n)
<1>1. ASSUME NEW g \in FarEnds, NEW i \in DOMAIN [fl EXCEPT ![f] = Append(@, d)][g]
      PROVE  [fl EXCEPT ![f] = Append(@, d)][g][i].ex < n
  <2>1. CASE g = f
    <3>1. [fl EXCEPT ![f] = Append(@, d)][g] = Append(fl[f], d) /\ fl[f] \in Seq(Datagram)
      BY <2>1
    <3> QED
      BY <3>1, <1>1, AppendedElements DEF Under
  <2>2. CASE g # f
    BY <1>1, <2>2 DEF Under
  <2> QED
    BY <2>1, <2>2
<1> QED
  BY <1>1 DEF Under

LEMMA UnderReceived ==
    ASSUME NEW num, NEW fl \in [FarEnds -> Seq(Datagram)],
           NEW tk \in [FarEnds -> Seq(Datagram)], NEW n \in Int, Under(num, fl, tk, n),
           NEW f \in FarEnds, fl[f] # <<>>, NEW tk2,
           tk2 = tk \/ tk2 = [tk EXCEPT ![f] = Append(@, Head(fl[f]))]
    PROVE  Under(num, [fl EXCEPT ![f] = Tail(@)], tk2, n)
<1>1. fl[f] \in Seq(Datagram) /\ tk[f] \in Seq(Datagram)
  OBVIOUS
<1>2. PICK k \in DOMAIN fl[f] : Head(fl[f]) = fl[f][k]
  BY <1>1, TakenElements
<1>3. Head(fl[f]) \in Datagram /\ Head(fl[f]).ex < n
  BY <1>1, <1>2, TakenPlaces DEF Under
<1>4. ASSUME NEW g \in FarEnds, NEW i \in DOMAIN [fl EXCEPT ![f] = Tail(@)][g]
      PROVE  [fl EXCEPT ![f] = Tail(@)][g][i].ex < n
  <2>1. CASE g = f
    <3>1. [fl EXCEPT ![f] = Tail(@)][g] = Tail(fl[f])
      BY <2>1
    <3> QED
      BY <3>1, <1>1, <1>4, TakenElements DEF Under
  <2>2. CASE g # f
    BY <1>4, <2>2 DEF Under
  <2> QED
    BY <2>1, <2>2
<1>5. ASSUME NEW g \in FarEnds, NEW i \in DOMAIN tk2[g]
      PROVE  tk2[g][i].ex < n
  <2>1. CASE tk2[g] = tk[g]
    BY <1>5, <2>1 DEF Under
  <2>2. CASE tk2[g] = Append(tk[f], Head(fl[f])) /\ g = f
    BY <1>1, <1>3, <1>5, <2>2, AppendedElements DEF Under
  <2> QED
    BY <2>1, <2>2
<1> QED
  BY <1>4, <1>5 DEF Under

(* The order of what was sent to a far end. *)
LEMMA OrderlySent ==
    ASSUME NEW tk \in Seq(Datagram), NEW fl \in Seq(Datagram), NEW last, Orderly(tk, fl, last),
           NEW d \in Datagram,
           \A i \in DOMAIN tk : Alike(tk[i], d),
           \A i \in DOMAIN fl : Alike(fl[i], d)
    PROVE  Orderly(tk, Append(fl, d), last)
<1> DEFINE r == Append(fl, d)
<1>1. /\ DOMAIN fl = 1..Len(fl) /\ Len(fl) \in Nat
      /\ DOMAIN r = 1..(Len(fl) + 1)
      /\ \A i \in DOMAIN fl : r[i] = fl[i]
      /\ r[Len(fl) + 1] = d
  BY AppendedPlaces
<1> HIDE DEF r
<1>2. ASSUME NEW i \in DOMAIN tk, NEW j \in DOMAIN r PROVE Alike(tk[i], r[j])
  <2>1. CASE j \in DOMAIN fl
    BY <1>1, <2>1 DEF Orderly
  <2>2. CASE j = Len(fl) + 1
    BY <1>1, <2>2
  <2> QED
    BY <1>1, <2>1, <2>2
<1>3. ASSUME NEW i \in DOMAIN r, NEW j \in DOMAIN r, i < j PROVE Alike(r[i], r[j])
  <2>1. i \in DOMAIN fl
    BY <1>1, <1>3
  <2>2. CASE j \in DOMAIN fl
    BY <1>1, <1>3, <2>1, <2>2 DEF Orderly
  <2>3. CASE j = Len(fl) + 1
    BY <1>1, <2>1, <2>3
  <2> QED
    BY <1>1, <2>2, <2>3
<1>4. Orderly(tk, r, last)
  BY <1>2, <1>3 DEF Orderly
<1> QED
  BY <1>4 DEF r

LEMMA OrderlyDropped ==
    ASSUME NEW tk \in Seq(Datagram), NEW fl \in Seq(Datagram), NEW last, Orderly(tk, fl, last),
           fl # <<>>
    PROVE  Orderly(tk, Tail(fl), last)
<1>1. /\ Len(fl) \in Nat /\ Len(fl) >= 1 /\ DOMAIN fl = 1..Len(fl)
      /\ DOMAIN Tail(fl) = 1..(Len(fl) - 1)
      /\ \A i \in 1..(Len(fl) - 1) : Tail(fl)[i] = fl[i + 1]
  BY TakenPlaces
<1>2. \A i \in DOMAIN Tail(fl) : i + 1 \in DOMAIN fl /\ Tail(fl)[i] = fl[i + 1]
  BY <1>1
<1>3. \A i, j \in DOMAIN Tail(fl) : i < j => i + 1 < j + 1
  BY <1>1
<1> QED
  BY <1>2, <1>3 DEF Orderly

LEMMA OrderlyTaken ==
    ASSUME NEW tk \in Seq(Datagram), NEW fl \in Seq(Datagram), NEW last, Orderly(tk, fl, last),
           fl # <<>>, Head(fl).seq # last
    PROVE  Orderly(Append(tk, Head(fl)), Tail(fl), Head(fl).seq)
<1> DEFINE d == Head(fl)
           r == Append(tk, d)
           s == Tail(fl)
<1>1. /\ Len(fl) \in Nat /\ Len(fl) >= 1 /\ DOMAIN fl = 1..Len(fl)
      /\ DOMAIN s = 1..(Len(fl) - 1)
      /\ \A i \in 1..(Len(fl) - 1) : s[i] = fl[i + 1]
      /\ d = fl[1] /\ d \in Datagram
  BY TakenPlaces
<1>2. /\ DOMAIN tk = 1..Len(tk) /\ Len(tk) \in Nat
      /\ DOMAIN r = 1..(Len(tk) + 1) /\ Len(r) = Len(tk) + 1
      /\ \A i \in DOMAIN tk : r[i] = tk[i]
      /\ r[Len(tk) + 1] = d
  BY <1>1, AppendedPlaces
<1>3. \A e \in Datagram : e.ex \in Nat
  BY OutboundConstants DEF Datagram
<1>4. (\A i \in DOMAIN tk : tk[i].ex \in Nat) /\ d.ex \in Nat
      /\ \A i \in DOMAIN fl : fl[i].ex \in Nat
  BY <1>1, <1>3, ElementType
<1>5. ASSUME NEW i \in DOMAIN tk PROVE tk[i].ex < d.ex
  <2>1. Len(tk) \in DOMAIN tk /\ tk # <<>>
    BY <1>2, EmptySeq
  <2>2. tk[Len(tk)].ex <= d.ex /\ (tk[Len(tk)].ex = d.ex => tk[Len(tk)].seq = d.seq)
    BY <1>1, <2>1 DEF Orderly, Alike
  <2>3. tk[Len(tk)].seq = last
    BY <2>1 DEF Orderly
  <2>4. tk[Len(tk)].ex < d.ex
    BY <1>4, <2>1, <2>2, <2>3
  <2>5. i = Len(tk) \/ i < Len(tk)
    BY <1>2
  <2>6. tk[i].ex <= tk[Len(tk)].ex
    BY <1>4, <2>1, <2>5 DEF Orderly
  <2> QED
    BY <1>4, <2>1, <2>4, <2>6
<1>6. \A i \in DOMAIN s : i + 1 \in DOMAIN fl /\ s[i] = fl[i + 1] /\ 1 < i + 1
  BY <1>1
<1>7. \A i, j \in DOMAIN s : i < j => i + 1 < j + 1
  BY <1>1
<1> HIDE DEF d, r, s
<1>8. ASSUME NEW i \in DOMAIN r, NEW j \in DOMAIN r, i < j PROVE r[i].ex < r[j].ex
  <2>1. i \in DOMAIN tk
    BY <1>2, <1>8
  <2>2. CASE j \in DOMAIN tk
    BY <1>2, <1>8, <2>1, <2>2 DEF Orderly
  <2>3. CASE j = Len(tk) + 1
    BY <1>2, <1>5, <2>1, <2>3
  <2> QED
    BY <1>2, <2>2, <2>3
<1>9. ASSUME NEW i \in DOMAIN r, NEW j \in DOMAIN s PROVE Alike(r[i], s[j])
  <2>1. CASE i \in DOMAIN tk
    BY <1>2, <1>6, <2>1 DEF Orderly
  <2>2. CASE i = Len(tk) + 1
    <3>1. Alike(fl[1], fl[j + 1])
      BY <1>1, <1>6 DEF Orderly
    <3> QED
      BY <1>1, <1>2, <1>6, <2>2, <3>1
  <2> QED
    BY <1>2, <2>1, <2>2
<1>10. \A i, j \in DOMAIN s : i < j => Alike(s[i], s[j])
  BY <1>6, <1>7 DEF Orderly
<1>11. Orderly(r, s, d.seq)
  BY <1>2, <1>8, <1>9, <1>10 DEF Orderly
<1> QED
  BY <1>11 DEF d, r, s

LEMMA NumberKept ==
    ASSUME NEW tk \in Seq(Datagram), NEW fl \in Seq(Datagram), NEW t, SameNumber(tk, fl, t)
    PROVE  /\ \A d \in Datagram : d.seq = t.seq => SameNumber(tk, Append(fl, d), t)
           /\ fl # <<>> => /\ SameNumber(tk, Tail(fl), t)
                           /\ SameNumber(Append(tk, Head(fl)), Tail(fl), t)
<1>1. ASSUME NEW d \in Datagram, d.seq = t.seq PROVE SameNumber(tk, Append(fl, d), t)
  BY <1>1, AppendedElements DEF SameNumber
<1>2. ASSUME fl # <<>> PROVE SameNumber(tk, Tail(fl), t)
  BY <1>2, TakenElements DEF SameNumber
<1>3. ASSUME fl # <<>> PROVE SameNumber(Append(tk, Head(fl)), Tail(fl), t)
  <2>1. Head(fl) \in Datagram /\ \E k \in DOMAIN fl : Head(fl) = fl[k]
    BY <1>3, TakenPlaces, TakenElements
  <2>2. Head(fl).ex = t.scout.ex => Head(fl).seq = t.seq
    BY <2>1 DEF SameNumber
  <2>3. \A i \in DOMAIN Append(tk, Head(fl)) :
           \/ Append(tk, Head(fl))[i] = Head(fl)
           \/ \E j \in DOMAIN tk : Append(tk, Head(fl))[i] = tk[j]
    BY <2>1, AppendedElements
  <2>4. \A i \in DOMAIN Append(tk, Head(fl)) :
           Append(tk, Head(fl))[i].ex = t.scout.ex => Append(tk, Head(fl))[i].seq = t.seq
    BY <2>2, <2>3 DEF SameNumber
  <2> QED
    BY <1>2, <1>3, <2>4 DEF SameNumber
<1> QED
  BY <1>1, <1>2, <1>3

(* Chains of frames. *)
LEMMA ChainAppend ==
    ASSUME NEW q \in Seq(Packets), NEW l, NEW n, NEW l2, NEW n2, Chain(q, l, n),
           NEW x \in Packets,
           Ends(x, l2, n2),
           \A p \in Packets : Ends(p, l, n) => Follows(p, x)
    PROVE  /\ Chain(Append(q, x), l2, n2)
           /\ \A p \in Packets : LeadsInto(p, q, l, n) => LeadsInto(p, Append(q, x), l2, n2)
<1> DEFINE r == Append(q, x)
<1>1. /\ DOMAIN q = 1..Len(q) /\ Len(q) \in Nat
      /\ DOMAIN r = 1..(Len(q) + 1) /\ Len(r) = Len(q) + 1 /\ r # <<>>
      /\ \A i \in DOMAIN q : r[i] = q[i]
      /\ r[Len(q) + 1] = x
  BY AppendedPlaces
<1> HIDE DEF r
<1>2. ASSUME NEW i \in DOMAIN r, i + 1 \in DOMAIN r PROVE Follows(r[i], r[i + 1])
  <2>1. i \in DOMAIN q
    BY <1>1, <1>2
  <2>2. CASE i + 1 \in DOMAIN q
    BY <1>1, <2>1, <2>2 DEF Chain
  <2>3. CASE i = Len(q)
    <3>1. q # <<>> /\ q[i] \in Packets
      BY <2>1, <2>3, ElementType, EmptySeq
    <3> QED
      BY <1>1, <2>1, <2>3, <3>1 DEF Chain
  <2> QED
    BY <1>1, <2>1, <2>2, <2>3
<1>3. Chain(r, l2, n2)
  BY <1>1, <1>2 DEF Chain
<1>4. ASSUME NEW p \in Packets, LeadsInto(p, q, l, n) PROVE LeadsInto(p, r, l2, n2)
  <2>1. CASE q = <<>>
    BY <1>1, <1>4, <2>1, EmptySeq DEF LeadsInto
  <2>2. CASE q # <<>>
    <3>1. 1 \in DOMAIN q
      BY <1>1, <2>2, EmptySeq
    <3> QED
      BY <1>1, <1>4, <2>2, <3>1 DEF LeadsInto
  <2> QED
    BY <2>1, <2>2
<1> QED
  BY <1>3, <1>4 DEF r

LEMMA ChainOn ==
    ASSUME NEW q \in Seq(Packets), NEW l, NEW n, NEW l2, NEW n2, Chain(q, l, n),
           \A p \in Packets : Ends(p, l, n) => Ends(p, l2, n2)
    PROVE  /\ Chain(q, l2, n2)
           /\ \A p \in Packets : LeadsInto(p, q, l, n) => LeadsInto(p, q, l2, n2)
<1>1. q # <<>> => q[Len(q)] \in Packets
  BY LenProperties, EmptySeq, ElementOfSeq
<1> QED
  BY <1>1 DEF Chain, LeadsInto

LEMMA ChainTail ==
    ASSUME NEW q \in Seq(Packets), NEW l, NEW n, Chain(q, l, n), q # <<>>
    PROVE  Chain(Tail(q), l, n) /\ LeadsInto(q[1], Tail(q), l, n)
<1>1. /\ Len(q) \in Nat /\ Len(q) >= 1 /\ DOMAIN q = 1..Len(q) /\ Tail(q) \in Seq(Packets)
      /\ Len(Tail(q)) = Len(q) - 1
      /\ DOMAIN Tail(q) = 1..(Len(q) - 1)
      /\ \A i \in 1..(Len(q) - 1) : Tail(q)[i] = q[i + 1]
  BY TakenPlaces
<1>2. \A i \in DOMAIN Tail(q) : i + 1 \in DOMAIN Tail(q) =>
          i + 1 \in DOMAIN q /\ (i + 1) + 1 \in DOMAIN q
          /\ Tail(q)[i] = q[i + 1] /\ Tail(q)[i + 1] = q[(i + 1) + 1]
  BY <1>1
<1>3. Tail(q) # <<>> => Len(Tail(q)) >= 1
  BY <1>1, EmptySeq, LenProperties
<1>4. Tail(q) # <<>> => /\ Tail(q)[Len(Tail(q))] = q[Len(q)]
                        /\ Tail(q)[1] = q[2] /\ 1 \in DOMAIN q /\ 1 + 1 \in DOMAIN q
  BY <1>1, <1>3
<1>5. Len(<<>>) = 0
  OBVIOUS
<1>6. Tail(q) = <<>> => Len(q) = 1 /\ 1 = Len(q)
  <2>1. Tail(q) = <<>> => Len(Tail(q)) = 0
    BY <1>5, Zenon
  <2> QED
    BY <1>1, <2>1
<1>7. ASSUME NEW i \in DOMAIN Tail(q), i + 1 \in DOMAIN Tail(q)
      PROVE  Follows(Tail(q)[i], Tail(q)[i + 1])
  BY <1>2, <1>7 DEF Chain
<1>8. Chain(Tail(q), l, n)
  BY <1>4, <1>7 DEF Chain
<1>9. ASSUME Tail(q) = <<>> PROVE Ends(q[1], l, n)
  BY <1>6, <1>9 DEF Chain
<1>10. ASSUME Tail(q) # <<>> PROVE Follows(q[1], Tail(q)[1])
  <2>1. Follows(q[1], q[1 + 1])
    BY <1>4, <1>10 DEF Chain
  <2> QED
    BY <1>4, <1>10, <2>1
<1> QED
  BY <1>8, <1>9, <1>10 DEF LeadsInto

-----------------------------------------------------------------------------
(* Types. *)

LEMMA ConfigParts ==
    ASSUME NEW c \in Configs PROVE c.beebs \subseteq Beebs /\ c.hosts \subseteq AunHosts
                                   /\ c.trunks \subseteq Trunks
BY OutboundConstants

LEMMA PostType ==
    ASSUME ReceiverTyped, NEW p \in Packets, Post(p)
    PROVE  /\ rxQueue' \in Seq(Packets) /\ Len(rxQueue') <= RxQueueLen
           /\ overflowed' \in BOOLEAN
<1>1. rxQueue' \in Seq(Packets) /\ Len(rxQueue') <= RxQueueLen
  BY QueueSendType, OutboundConstants DEF ReceiverTyped, Post
<1>2. overflowed' \in BOOLEAN
  BY DEF ReceiverTyped, Post
<1> QED
  BY <1>1, <1>2

LEMMA TakeType ==
    ASSUME ReceiverTyped, rxQueue # <<>>, rxQueue' = Tail(rxQueue)
    PROVE  rxQueue' \in Seq(Packets) /\ Len(rxQueue') <= RxQueueLen
BY TailType, OutboundConstants, LenProperties DEF ReceiverTyped

LEMMA ReceiverTypedKept ==
    ASSUME OutboundInv, [Next]_vars PROVE ReceiverTyped'
<1> USE DEF OutboundInv
<1>1. CASE ScoutArrives
  <2>1. PICK e \in Exchange :
           /\ exchange' = Append(exchange, e)
           /\ IF Accepts(e.dst)
              THEN line' = "scout" /\ Post(Frame(Len(exchange) + 1, "scout"))
              ELSE line' = "busy" /\ UNCHANGED <<rxQueue, overflowed>>
    BY <1>1 DEF ScoutArrives
  <2>2. /\ exchange' \in Seq(Exchange) /\ Len(exchange') = Len(exchange) + 1
        /\ Len(exchange) \in Nat /\ Len(exchange) + 1 \in 1..MaxExchanges
    BY <1>1, <2>1, AppendedPlaces, OutboundConstants DEF ScoutArrives, ReceiverTyped
  <2>3. rxQueue' \in Seq(Packets) /\ Len(rxQueue') <= RxQueueLen /\ overflowed' \in BOOLEAN
    BY <2>1, <2>2, PostType, FramesArePackets DEF ReceiverTyped
  <2>4. line' \in {"scout", "busy"}
    BY <2>1
  <2> QED
    BY <1>1, <2>2, <2>3, <2>4, OutboundConstants DEF ScoutArrives, ReceiverTyped
<1>2. CASE DataArrives
  <2>1. Len(exchange) \in 1..MaxExchanges
    BY <1>2, LenProperties DEF DataArrives, ReceiverTyped
  <2>2. \/ Post(Frame(Len(exchange), "data"))
        \/ UNCHANGED <<rxQueue, overflowed>>
    BY <1>2 DEF DataArrives
  <2>3. rxQueue' \in Seq(Packets) /\ Len(rxQueue') <= RxQueueLen /\ overflowed' \in BOOLEAN
    BY <2>1, <2>2, PostType, FramesArePackets DEF ReceiverTyped
  <2> QED
    BY <1>2, <2>3 DEF DataArrives, ReceiverTyped
<1>3. CASE LineFallsIdle
  <2>1. rxQueue' \in Seq(Packets) /\ Len(rxQueue') <= RxQueueLen /\ overflowed' \in BOOLEAN
    BY <1>3, PostType, FramesArePackets DEF LineFallsIdle
  <2> QED
    BY <1>3, <2>1 DEF LineFallsIdle, ReceiverTyped
<1>4. CASE StopEconetRx
  BY <1>4, TakeType DEF StopEconetRx, ReceiverTyped, lineVars
<1>5. CASE TakeScout
  BY <1>5, TakeType DEF TakeScout, ReceiverTyped, lineVars, taskOnly
<1>6. CASE TakeData
  BY <1>6, TakeType DEF TakeData, ReceiverTyped, lineVars, taskOnly
<1>7. CASE LearnNetworks
  <2>1. nets' \in [Trunks -> SUBSET Nets]
    BY <1>7 DEF LearnNetworks, UdpTyped
  <2>2. netBits' \subseteq Nets
    BY <1>7, <2>1 DEF LearnNetworks, Aggregate
  <2> QED
    BY <1>7, <2>2 DEF LearnNetworks, ReceiverTyped, lineVars, history
<1>8. CASE StopReceiving
  BY <1>8 DEF StopReceiving, ReceiverTyped, lineVars, history
<1>9. CASE PostShutdown
  <2>1. rxQueue' = Append(rxQueue, Shutdown) /\ Len(rxQueue) < RxQueueLen
    BY <1>9 DEF PostShutdown, Queue, HasRoom
  <2>2. rxQueue' \in Seq(Packets) /\ Len(rxQueue') <= RxQueueLen
    BY <2>1, AppendedPlaces, FramesArePackets, OutboundConstants DEF ReceiverTyped
  <2> QED
    BY <1>9, <2>2 DEF PostShutdown, ReceiverTyped, lineVars, history
<1>10. CASE Rebuild
  BY <1>10, ConfigParts DEF Rebuild, ReceiverTyped, lineVars, history, NetBitsAfter
<1>11. ASSUME UNCHANGED <<line, exchange, stationBits, netBits, rxQueue, overflowed>>
       PROVE  ReceiverTyped'
  BY <1>11 DEF ReceiverTyped
<1>12. CASE DataTimesOut \/ RouteToTrunk \/ RouteToHost \/ SendPacket \/ TakeAck \/ AckTimesOut
  BY <1>11, <1>12 DEF DataTimesOut, RouteToTrunk, RouteToHost, SendPacket, TakeAck, AckTimesOut,
                      taskOnly, lineVars
<1>13. CASE (\E f \in FarEnds : SignalAck(f)) \/ (\E t \in Trunks : ForgetNetworks(t))
            \/ StopUdpRx \/ StopUdp \/ (\E f \in FarEnds : FarEndReceives(f))
  BY <1>11, <1>13 DEF SignalAck, ForgetNetworks, StopUdpRx, StopUdp, FarEndReceives,
                      lineVars, history
<1>14. CASE UNCHANGED vars
  BY <1>11, <1>14 DEF vars, lineVars, history
<1> HIDE DEF OutboundInv
<1> QED
  BY <1>1, <1>2, <1>3, <1>4, <1>5, <1>6, <1>7, <1>8, <1>9, <1>10, <1>12, <1>13, <1>14
     DEF Next, Line, EconetRxTask, UdpTask, Controller

LEMMA TasksAtRest ==
    /\ Begin \in Tasks /\ WellFormed(Begin) /\ ~HasScout(Begin) /\ Reach(Begin) = 0
    /\ Ended \in Tasks /\ WellFormed(Ended) /\ ~HasScout(Ended) /\ Reach(Ended) = 0
    /\ Begin.pc = "scout" /\ Ended.pc = "gone"
BY OutboundConstants
   DEF Begin, Ended, At, Tasks, WellFormed, HasScout, Routed, Sending, Reach, None

LEMMA ScoutInHand ==
    ASSUME TaskTyped, HasScout(task)
    PROVE  /\ task.scout \in Packets /\ IsFrame(task.scout) /\ task.scout.ex \in 1..MaxExchanges
           /\ task.scout.ex \in Nat
           /\ handled \cup {task.scout.ex} \subseteq 1..MaxExchanges
<1>1. task.scout \in Packets /\ IsFrame(task.scout) /\ handled \subseteq 1..MaxExchanges
  BY DEF TaskTyped, WellFormed
<1>2. task.scout.ex \in 1..MaxExchanges
  BY <1>1, PacketParts DEF IsFrame
<1>3. task.scout.ex \in Nat
  BY <1>2, OutboundConstants
<1>4. handled \cup {task.scout.ex} \subseteq 1..MaxExchanges
  BY <1>1, <1>2
<1> QED
  BY <1>1, <1>2, <1>3, <1>4

(* What becomes of the task in each of its steps, and its number. *)
LEMMA StartSendingType ==
    ASSUME TaskTyped, PastOrder, task.pc = "route", NEW far \in FarEnds,
           NEW c \in {0} \cup Trunks, StartSending(far, c)
    PROVE  /\ number' \in [{0} \cup Trunks -> 0..MaxExchanges]
           /\ number'[c] <= task.scout.ex /\ number' = [number EXCEPT ![c] = @ + 1]
           /\ task' \in Tasks /\ WellFormed(task') /\ task'.pc = "send"
           /\ task'.scout = task.scout /\ task'.data = task.data /\ task'.far = far
<1>1. task.scout.ex \in 1..MaxExchanges /\ task.scout \in Packets /\ IsFrame(task.scout)
  BY ScoutInHand DEF HasScout
<1>2. number[c] \in 0..MaxExchanges /\ number[c] < task.scout.ex
  BY DEF TaskTyped, PastOrder, Under, FrontOf, Sending, HasScout
<1>3. number' = [number EXCEPT ![c] = @ + 1]
  BY DEF StartSending, NumberNext
<1>4. number' \in [{0} \cup Trunks -> 0..MaxExchanges] /\ number'[c] = number[c] + 1
  BY <1>1, <1>2, <1>3, OutboundConstants DEF TaskTyped
<1>5. task' = [task EXCEPT !.pc = "send", !.far = far, !.seq = number'[c], !.tries = Tries]
  BY DEF StartSending
<1>6. number'[c] \in Nat /\ Tries \in 0..Tries /\ Tries >= 1
  BY <1>2, <1>4, OutboundConstants
<1>7. task' \in Tasks
  BY <1>5, <1>6 DEF TaskTyped, Tasks
<1>8. /\ task'.pc = "send" /\ task'.scout = task.scout /\ task'.data = task.data
      /\ task'.far = far /\ task'.tries = Tries /\ task'.layers = task.layers
  BY <1>5 DEF TaskTyped, Tasks
<1>9. task.layers = 0 /\ task.data \in Packets
  BY DEF TaskTyped, WellFormed, Routed, Sending
<1>10. WellFormed(task')
  BY <1>1, <1>6, <1>8, <1>9 DEF WellFormed, HasScout, Routed, Sending
<1> QED
  BY <1>1, <1>2, <1>3, <1>4, <1>7, <1>8, <1>10

LEMMA SendPacketType ==
    ASSUME TaskTyped, SendPacket
    PROVE  /\ task' \in Tasks /\ WellFormed(task') /\ task'.pc = "wait"
           /\ task'.scout = task.scout /\ task'.data = task.data /\ task'.far = task.far
           /\ task'.seq = task.seq
           /\ Layers(task) \in 1..Tries
<1>1. /\ task.pc = "send"
      /\ task' = [task EXCEPT !.pc = "wait", !.tries = @ - 1, !.receipts = Receipts,
                              !.layers = Layers(task)]
  BY DEF SendPacket
<1>2. /\ task \in Tasks /\ task.tries \in 0..Tries /\ task.layers \in 0..Tries
      /\ task.tries >= 1 /\ task.layers + task.tries <= Tries /\ task.far \in FarEnds
      /\ task.scout \in Packets /\ IsFrame(task.scout) /\ task.data \in Packets
  BY <1>1 DEF TaskTyped, WellFormed, Tasks, HasScout, Routed, Sending
<1>3. Layers(task) \in 1..Tries /\ Layers(task) + (task.tries - 1) <= Tries
  BY <1>2, OutboundConstants DEF Layers
<1>4. task.tries - 1 \in 0..Tries /\ Layers(task) \in 0..Tries /\ Receipts \in 0..Receipts
  BY <1>2, <1>3, OutboundConstants
<1>5. task' \in Tasks
  BY <1>1, <1>2, <1>4 DEF Tasks
<1>6. /\ task'.pc = "wait" /\ task'.scout = task.scout /\ task'.data = task.data
      /\ task'.far = task.far /\ task'.tries = task.tries - 1 /\ task'.layers = Layers(task)
      /\ task'.seq = task.seq
  BY <1>1, <1>2 DEF Tasks
<1>7. WellFormed(task')
  BY <1>2, <1>3, <1>6 DEF WellFormed, HasScout, Routed, Sending
<1> QED
  BY <1>3, <1>5, <1>6, <1>7

LEMMA AwaitType ==
    ASSUME TaskTyped, TakeAck \/ AckTimesOut
    PROVE  \/ task' = Begin
           \/ /\ task' \in Tasks /\ WellFormed(task') /\ task'.pc \in {"send", "wait"}
              /\ task.pc = "wait"
              /\ task'.scout = task.scout /\ task'.data = task.data /\ task'.far = task.far
              /\ task'.seq = task.seq
<1>1. /\ task.pc = "wait"
      /\ \/ task' = Begin
         \/ task.receipts > 1 /\ task' = [task EXCEPT !.receipts = @ - 1]
         \/ task' = Retry(task)
  BY DEF TakeAck, AckTimesOut
<1>2. /\ task \in Tasks /\ task.receipts \in 0..Receipts /\ task.tries \in 0..Tries
      /\ task.layers + task.tries <= Tries /\ task.far \in FarEnds
      /\ task.scout \in Packets /\ IsFrame(task.scout) /\ task.data \in Packets
  BY <1>1 DEF TaskTyped, WellFormed, Tasks, HasScout, Routed, Sending
<1>3. CASE task.receipts > 1 /\ task' = [task EXCEPT !.receipts = @ - 1]
  <2>1. task.receipts - 1 \in 0..Receipts
    BY <1>2, <1>3, OutboundConstants
  <2>2. task' \in Tasks
    BY <1>2, <1>3, <2>1 DEF Tasks
  <2>3. /\ task'.pc = "wait" /\ task'.scout = task.scout /\ task'.data = task.data
        /\ task'.far = task.far /\ task'.tries = task.tries /\ task'.layers = task.layers
        /\ task'.seq = task.seq
    BY <1>1, <1>2, <1>3 DEF Tasks
  <2>4. WellFormed(task')
    BY <1>2, <2>3 DEF WellFormed, HasScout, Routed, Sending
  <2> QED
    BY <1>1, <2>2, <2>3, <2>4
<1>4. CASE task.tries > 0 /\ task' = [task EXCEPT !.pc = "send"]
  <2>1. task' \in Tasks
    BY <1>2, <1>4 DEF Tasks
  <2>2. /\ task'.pc = "send" /\ task'.scout = task.scout /\ task'.data = task.data
        /\ task'.far = task.far /\ task'.tries = task.tries /\ task'.layers = task.layers
        /\ task'.seq = task.seq
    BY <1>1, <1>2, <1>4 DEF Tasks
  <2>3. task.tries >= 1
    BY <1>2, <1>4
  <2>4. WellFormed(task')
    BY <1>2, <2>2, <2>3 DEF WellFormed, HasScout, Routed, Sending
  <2> QED
    BY <1>1, <2>1, <2>2, <2>4
<1> QED
  BY <1>1, <1>3, <1>4 DEF Retry

LEMMA TakeScoutType ==
    ASSUME ReceiverTyped, TaskTyped, TakeScout
    PROVE  /\ rxQueue # <<>> /\ rxQueue' = Tail(rxQueue) /\ task.pc = "scout"
           /\ \/ task' = task
              \/ /\ task' \in Tasks /\ WellFormed(task') /\ task'.pc = "data"
                 /\ task'.scout = rxQueue[1] /\ IsFrame(rxQueue[1])
<1>1. /\ task.pc = "scout" /\ rxQueue # <<>> /\ rxQueue' = Tail(rxQueue)
      /\ \/ task' = task
         \/ /\ Head(rxQueue).type = "P"
            /\ task' = [task EXCEPT !.pc = "data", !.scout = Head(rxQueue)]
  BY DEF TakeScout
<1>2. Head(rxQueue) = rxQueue[1] /\ rxQueue[1] \in Packets
  BY <1>1, TakenPlaces DEF ReceiverTyped
<1>3. task \in Tasks /\ task.layers = 0
  BY <1>1 DEF TaskTyped, WellFormed, Sending
<1>4. ASSUME rxQueue[1].type = "P", task' = [task EXCEPT !.pc = "data", !.scout = rxQueue[1]]
      PROVE  task' \in Tasks /\ WellFormed(task') /\ task'.pc = "data"
             /\ task'.scout = rxQueue[1] /\ IsFrame(rxQueue[1])
  <2>1. task' \in Tasks
    BY <1>2, <1>3, <1>4 DEF Tasks
  <2>2. task'.pc = "data" /\ task'.scout = rxQueue[1] /\ task'.layers = 0
    BY <1>3, <1>4 DEF Tasks
  <2> QED
    BY <1>2, <1>4, <2>1, <2>2 DEF WellFormed, HasScout, Routed, Sending, IsFrame
<1> QED
  BY <1>1, <1>2, <1>4

LEMMA TakeDataType ==
    ASSUME ReceiverTyped, TaskTyped, TakeData
    PROVE  /\ rxQueue # <<>> /\ rxQueue' = Tail(rxQueue) /\ task.pc = "data"
           /\ \/ task' = Begin
              \/ /\ task' \in Tasks /\ WellFormed(task') /\ task'.pc = "route"
                 /\ task'.scout = task.scout /\ task'.data = rxQueue[1] /\ IsFrame(rxQueue[1])
<1>1. /\ task.pc = "data" /\ rxQueue # <<>> /\ rxQueue' = Tail(rxQueue)
      /\ \/ task' = Begin
         \/ /\ Head(rxQueue).type = "P"
            /\ task' = [task EXCEPT !.pc = "route", !.data = Head(rxQueue)]
  BY DEF TakeData, Pairs, Unpaired
<1>2. Head(rxQueue) = rxQueue[1] /\ rxQueue[1] \in Packets
  BY <1>1, TakenPlaces DEF ReceiverTyped
<1>3. task \in Tasks /\ task.layers = 0 /\ task.scout \in Packets /\ IsFrame(task.scout)
  BY <1>1 DEF TaskTyped, WellFormed, Sending, HasScout
<1>4. ASSUME rxQueue[1].type = "P", task' = [task EXCEPT !.pc = "route", !.data = rxQueue[1]]
      PROVE  task' \in Tasks /\ WellFormed(task') /\ task'.pc = "route"
             /\ task'.scout = task.scout /\ task'.data = rxQueue[1] /\ IsFrame(rxQueue[1])
  <2>1. task' \in Tasks
    BY <1>2, <1>3, <1>4 DEF Tasks
  <2>2. /\ task'.pc = "route" /\ task'.scout = task.scout /\ task'.layers = 0
        /\ task'.data = rxQueue[1]
    BY <1>3, <1>4 DEF Tasks
  <2> QED
    BY <1>2, <1>3, <1>4, <2>1, <2>2 DEF WellFormed, HasScout, Routed, Sending, IsFrame
<1> QED
  BY <1>1, <1>2, <1>4

LEMMA TaskTypedKept ==
    ASSUME OutboundInv, [Next]_vars PROVE TaskTyped'
<1>1. ReceiverTyped /\ TaskTyped /\ PastOrder /\ config \in Configs
  BY DEF OutboundInv, UdpTyped
<1>2. ASSUME UNCHANGED number, UNCHANGED complete, task' \in Tasks, WellFormed(task'),
             \/ handled' = handled
             \/ HasScout(task) /\ handled' = handled \cup {task.scout.ex}
      PROVE  TaskTyped'
  BY <1>1, <1>2, ScoutInHand DEF TaskTyped
<1>3. CASE DataArrives
  <2>1. Len(exchange) \in 1..MaxExchanges
    BY <1>1, <1>3, LenProperties DEF DataArrives, ReceiverTyped
  <2> QED
    BY <1>1, <1>3, <2>1 DEF DataArrives, TaskTyped
<1>4. CASE StopEconetRx
  BY <1>1, <1>2, <1>4, TasksAtRest DEF StopEconetRx, HasScout
<1>5. CASE TakeScout
  <2>1. UNCHANGED <<number, complete, handled>>
    BY <1>5 DEF TakeScout, taskOnly
  <2>2. task' \in Tasks /\ WellFormed(task')
    BY <1>1, <1>5, TakeScoutType DEF TaskTyped
  <2> QED
    BY <1>2, <2>1, <2>2
<1>6. CASE TakeData
  <2>1. /\ UNCHANGED <<number, complete>> /\ HasScout(task)
        /\ handled' = handled \/ handled' = handled \cup {task.scout.ex}
    BY <1>6 DEF TakeData, taskOnly, HasScout
  <2>2. task' \in Tasks /\ WellFormed(task')
    BY <1>1, <1>6, TakeDataType, TasksAtRest
  <2> QED
    BY <1>2, <2>1, <2>2
<1>7. CASE DataTimesOut
  BY <1>2, <1>7, TasksAtRest DEF DataTimesOut, taskOnly, HasScout
<1>8. CASE RouteToTrunk
  <2>1. PICK t \in TrunkFor(Packet.dst[1]) : StartSending(t, t)
    BY <1>8 DEF RouteToTrunk
  <2>2. t \in FarEnds /\ t \in {0} \cup Trunks
    BY DEF TrunkFor, FarEnds
  <2>3. task.pc = "route" /\ UNCHANGED <<complete, handled>>
    BY <1>8 DEF RouteToTrunk, taskOnly
  <2>4. number' \in [{0} \cup Trunks -> 0..MaxExchanges] /\ task' \in Tasks /\ WellFormed(task')
    BY <1>1, <2>1, <2>2, <2>3, StartSendingType
  <2> QED
    BY <1>1, <2>3, <2>4 DEF TaskTyped
<1>9. CASE RouteToHost
  <2>1. task.pc = "route" /\ UNCHANGED complete
    BY <1>9 DEF RouteToHost, taskOnly
  <2>2. CASE StartSending(Packet.dst[2], 0) /\ UNCHANGED handled
             /\ Packet.dst[2] \in config.hosts
    <3>1. Packet.dst[2] \in FarEnds /\ 0 \in {0} \cup Trunks
      BY <1>1, <2>2, ConfigParts DEF FarEnds
    <3>2. number' \in [{0} \cup Trunks -> 0..MaxExchanges] /\ task' \in Tasks /\ WellFormed(task')
      BY <1>1, <2>1, <2>2, <3>1, StartSendingType
    <3> QED
      BY <1>1, <2>1, <2>2, <3>2 DEF TaskTyped
  <2>3. CASE task' = Begin /\ handled' = handled \cup {task.scout.ex} /\ UNCHANGED number
    BY <1>2, <2>1, <2>3, TasksAtRest DEF HasScout
  <2> QED
    BY <1>9, <2>2, <2>3 DEF RouteToHost
<1>10. CASE SendPacket
  <2>1. /\ UNCHANGED <<number, complete>> /\ HasScout(task)
        /\ handled' = handled \cup {task.scout.ex}
    BY <1>10 DEF SendPacket, taskOnly, HasScout
  <2> QED
    BY <1>1, <1>2, <1>10, <2>1, SendPacketType
<1>11. CASE TakeAck \/ AckTimesOut
  <2>1. UNCHANGED <<number, complete, handled>>
    BY <1>11 DEF TakeAck, AckTimesOut, taskOnly
  <2>2. task' \in Tasks /\ WellFormed(task')
    BY <1>1, <1>11, AwaitType, TasksAtRest
  <2> QED
    BY <1>2, <2>1, <2>2
<1>12. CASE Rebuild
  <2>1. PICK c \in Configs :
           number' = [f \in DOMAIN number |-> IF f \in c.trunks THEN 0 ELSE number[f]]
    BY <1>12 DEF Rebuild
  <2>2. number' \in [{0} \cup Trunks -> 0..MaxExchanges]
    BY <1>1, <2>1, OutboundConstants DEF TaskTyped
  <2>3. task' = Begin /\ UNCHANGED <<complete, handled>>
    BY <1>12 DEF Rebuild, history
  <2> QED
    BY <1>1, <2>2, <2>3, TasksAtRest DEF TaskTyped
<1>13. ASSUME UNCHANGED <<task, number, complete, handled>> PROVE TaskTyped'
  BY <1>1, <1>13 DEF TaskTyped
<1>14. CASE ScoutArrives \/ LineFallsIdle \/ LearnNetworks \/ StopUdpRx
            \/ StopReceiving \/ PostShutdown \/ StopUdp
  BY <1>13, <1>14 DEF ScoutArrives, LineFallsIdle, LearnNetworks, StopUdpRx, StopReceiving,
                      PostShutdown, StopUdp, history
<1>15. CASE (\E f \in FarEnds : SignalAck(f)) \/ (\E t \in Trunks : ForgetNetworks(t))
            \/ (\E f \in FarEnds : FarEndReceives(f))
  BY <1>13, <1>15 DEF SignalAck, ForgetNetworks, FarEndReceives, history
<1>16. CASE UNCHANGED vars
  BY <1>13, <1>16 DEF vars, history
<1> QED
  BY <1>3, <1>4, <1>5, <1>6, <1>7, <1>8, <1>9, <1>10, <1>11, <1>12, <1>14, <1>15, <1>16
     DEF Next, Line, EconetRxTask, UdpTask, Controller

LEMMA UdpTypedKept ==
    ASSUME OutboundInv, [Next]_vars PROVE UdpTyped'
<1>1. UdpTyped /\ FarTyped
  BY DEF OutboundInv
<1>2. ASSUME NEW f \in FarEnds, SignalAck(f) PROVE UdpTyped'
  <2>1. answers[f] \in Seq(Nat) /\ answers[f] # <<>>
    BY <1>1, <1>2 DEF FarTyped, SignalAck
  <2>2. Head(answers[f]) \in Nat
    BY <2>1, TailType
  <2>3. ackQueue' \in Seq(Nat) /\ Len(ackQueue') <= AckQueueLen
    BY <1>1, <1>2, <2>2, QueueSendType, OutboundConstants DEF SignalAck, UdpTyped
  <2> QED
    BY <1>1, <1>2, <2>3 DEF SignalAck, UdpTyped, udpVars, ctlVars
<1>3. ASSUME NEW t \in Trunks, ForgetNetworks(t) PROVE UdpTyped'
  BY <1>1, <1>3 DEF ForgetNetworks, UdpTyped, ctlVars
<1>4. CASE LearnNetworks
  BY <1>1, <1>4 DEF LearnNetworks, UdpTyped, ctlVars
<1>5. CASE StopUdpRx
  BY <1>1, <1>5 DEF StopUdpRx, UdpTyped
<1>6. CASE Rebuild
  BY <1>1, <1>6 DEF Rebuild, UdpTyped, NetsAfter
<1>7. CASE TakeAck
  <2>1. ackQueue' \in Seq(Nat) /\ Len(ackQueue') <= AckQueueLen
    BY <1>1, <1>7, TailType, LenProperties, OutboundConstants DEF TakeAck, UdpTyped
  <2> QED
    BY <1>1, <1>7, <2>1 DEF TakeAck, UdpTyped, taskOnly, udpVars
<1>8. CASE StopEconetRx
  BY <1>1, <1>8 DEF StopEconetRx, UdpTyped, udpVars
<1>9. CASE StopReceiving \/ PostShutdown \/ StopUdp
  BY <1>1, <1>9 DEF StopReceiving, PostShutdown, StopUdp, UdpTyped, udpVars
<1>10. ASSUME UNCHANGED <<udp, nets, ackQueue, ctl, config>> PROVE UdpTyped'
  BY <1>1, <1>10 DEF UdpTyped
<1>11. CASE ScoutArrives \/ DataArrives \/ LineFallsIdle \/ (\E f \in FarEnds : FarEndReceives(f))
  BY <1>10, <1>11 DEF ScoutArrives, DataArrives, LineFallsIdle, FarEndReceives, udpVars, ctlVars
<1>12. CASE TakeScout \/ TakeData \/ DataTimesOut \/ RouteToTrunk \/ RouteToHost \/ SendPacket
            \/ AckTimesOut
  BY <1>10, <1>12 DEF TakeScout, TakeData, DataTimesOut, RouteToTrunk, RouteToHost, SendPacket,
                      AckTimesOut, taskOnly, udpVars
<1>13. CASE UNCHANGED vars
  BY <1>10, <1>13 DEF vars, udpVars, ctlVars
<1> QED
  BY <1>2, <1>3, <1>4, <1>5, <1>6, <1>7, <1>8, <1>9, <1>11, <1>12, <1>13
     DEF Next, Line, EconetRxTask, UdpTask, Controller

(* A packet that is sent, and what a far end makes of it. *)
LEMMA DatagramSent ==
    ASSUME TaskTyped, SendPacket
    PROVE  /\ task.far \in FarEnds
           /\ [ex |-> task.scout.ex, data |-> task.data, seq |-> NumberSent(task),
               layers |-> Layers(task)] \in Datagram
<1>1. task.pc = "send"
  BY DEF SendPacket
<1>2. task.scout.ex \in 1..MaxExchanges
  BY <1>1, ScoutInHand DEF HasScout
<1>3. task.data \in Packets /\ task.seq \in Nat /\ task.far \in FarEnds
  BY <1>1 DEF TaskTyped, WellFormed, Tasks, Routed, Sending
<1>4. Layers(task) \in 1..Tries
  BY SendPacketType
<1> QED
  BY <1>2, <1>3, <1>4 DEF Datagram, NumberSent

LEMMA FarTypedKept ==
    ASSUME OutboundInv, [Next]_vars PROVE FarTyped'
<1>1. FarTyped /\ TaskTyped
  BY DEF OutboundInv
<1>2. ASSUME NEW f \in FarEnds, SignalAck(f) PROVE FarTyped'
  <2>1. answers[f] \in Seq(Nat) /\ answers[f] # <<>>
    BY <1>1, <1>2 DEF FarTyped, SignalAck
  <2>2. Tail(answers[f]) \in Seq(Nat)
    BY <2>1, TailType
  <2> QED
    BY <1>1, <1>2, <2>2 DEF FarTyped, SignalAck
<1>3. CASE SendPacket
  <2> DEFINE d == [ex |-> task.scout.ex, data |-> task.data, seq |-> NumberSent(task),
                   layers |-> Layers(task)]
  <2>1. d \in Datagram /\ task.far \in FarEnds
    BY <1>1, <1>3, DatagramSent
  <2>2. flight' = flight \/ flight' = [flight EXCEPT ![task.far] = Append(@, d)]
    BY <1>3 DEF SendPacket
  <2> HIDE DEF d
  <2>3. Append(flight[task.far], d) \in Seq(Datagram)
    BY <1>1, <2>1, AppendedPlaces DEF FarTyped
  <2>4. flight' \in [FarEnds -> Seq(Datagram)]
    BY <1>1, <2>2, <2>3 DEF FarTyped
  <2> QED
    BY <1>1, <1>3, <2>4 DEF SendPacket, FarTyped, taskOnly, farVars
<1>4. ASSUME NEW f \in FarEnds, FarEndReceives(f) PROVE FarTyped'
  <2> DEFINE d == Head(flight[f])
  <2>1. flight[f] \in Seq(Datagram) /\ flight[f] # <<>> /\ taken[f] \in Seq(Datagram)
        /\ answers[f] \in Seq(Nat)
    BY <1>1, <1>4 DEF FarTyped, FarEndReceives
  <2>2. Tail(flight[f]) \in Seq(Datagram) /\ d \in Datagram
    BY <2>1, TailType
  <2>3. d.seq \in Nat
    BY <2>2 DEF Datagram
  <2>4. /\ flight' = [flight EXCEPT ![f] = Tail(@)]
        /\ taken' = taken \/ taken' = [taken EXCEPT ![f] = Append(@, d)]
        /\ lastNumber' = lastNumber \/ lastNumber' = [lastNumber EXCEPT ![f] = d.seq]
        /\ answers' = answers \/ answers' = [answers EXCEPT ![f] = Append(@, d.seq)]
    BY <1>4 DEF FarEndReceives
  <2> HIDE DEF d
  <2>5. Append(taken[f], d) \in Seq(Datagram) /\ Append(answers[f], d.seq) \in Seq(Nat)
    BY <2>1, <2>2, <2>3, AppendedPlaces
  <2>6. flight' \in [FarEnds -> Seq(Datagram)]
    BY <1>1, <2>2, <2>4 DEF FarTyped
  <2>7. taken' \in [FarEnds -> Seq(Datagram)]
    BY <1>1, <2>4, <2>5 DEF FarTyped
  <2>8. answers' \in [FarEnds -> Seq(Nat)]
    BY <1>1, <2>4, <2>5 DEF FarTyped
  <2>9. lastNumber' \in [FarEnds -> Nat]
    BY <1>1, <2>3, <2>4 DEF FarTyped
  <2> QED
    BY <2>6, <2>7, <2>8, <2>9 DEF FarTyped
<1>5. CASE Rebuild
  <2>1. answers' \in [FarEnds -> Seq(Nat)]
    BY <1>5, EmptySeq DEF Rebuild
  <2> QED
    BY <1>1, <1>5, <2>1 DEF Rebuild, FarTyped
<1>6. ASSUME UNCHANGED <<answers, flight, taken, lastNumber>> PROVE FarTyped'
  BY <1>1, <1>6 DEF FarTyped
<1>7. CASE ScoutArrives \/ DataArrives \/ LineFallsIdle \/ LearnNetworks \/ StopUdpRx
           \/ StopReceiving \/ PostShutdown \/ StopUdp \/ (\E t \in Trunks : ForgetNetworks(t))
  BY <1>6, <1>7 DEF ScoutArrives, DataArrives, LineFallsIdle, LearnNetworks, StopUdpRx,
                    StopReceiving, PostShutdown, StopUdp, ForgetNetworks, farVars
<1>8. CASE StopEconetRx \/ TakeScout \/ TakeData \/ DataTimesOut \/ RouteToTrunk \/ RouteToHost
           \/ TakeAck \/ AckTimesOut
  BY <1>6, <1>8 DEF StopEconetRx, TakeScout, TakeData, DataTimesOut, RouteToTrunk, RouteToHost,
                    TakeAck, AckTimesOut, taskOnly, farVars
<1>9. CASE UNCHANGED vars
  BY <1>6, <1>9 DEF vars, farVars
<1> QED
  BY <1>2, <1>3, <1>4, <1>5, <1>7, <1>8, <1>9 DEF Next, Line, EconetRxTask, UdpTask, Controller

-----------------------------------------------------------------------------
(* The queue keeps the order of the line. *)

LEMMA Measures ==
    ASSUME ReceiverTyped, TaskTyped
    PROVE  /\ Len(exchange) \in Nat /\ Limit(line, Len(exchange)) \in Nat /\ Reach(task) \in Nat
           /\ \A l, n : n \in Nat => Limit(l, n) \in Nat
<1>1. Len(exchange) \in Nat
  BY LenProperties DEF ReceiverTyped
<1>2. \A l, n : n \in Nat => Limit(l, n) \in Nat
  BY DEF Limit
<1>3. HasScout(task) => Key(task.scout) \in Nat /\ task.scout.ex \in Nat
  BY ScoutInHand, PacketParts DEF IsFrame
<1>4. Reach(task) \in Nat
  BY <1>3 DEF Reach, HasScout, Routed
<1> QED
  BY <1>1, <1>2, <1>4

LEMMA QueueOrderPosted ==
    ASSUME ReceiverTyped, TaskTyped, QueueOrder, NEW x \in Packets, NEW high \in Nat,
           Limit(line, Len(exchange)) <= high,
           IsFrame(x) => Limit(line, Len(exchange)) <= Key(x) /\ Key(x) < high,
           NEW q, q = rxQueue \/ q = Append(rxQueue, x)
    PROVE  Reach(task) < high /\ Rising(q, Reach(task), high)
<1>1. rxQueue \in Seq(Packets)
  BY DEF ReceiverTyped
<1>2. Reach(task) \in Nat /\ Limit(line, Len(exchange)) \in Nat
  BY Measures
<1>3. /\ Reach(task) < Limit(line, Len(exchange))
      /\ Rising(rxQueue, Reach(task), Limit(line, Len(exchange)))
  BY DEF QueueOrder
<1>4. Rising(rxQueue, Reach(task), high)
  BY <1>1, <1>2, <1>3, RisingWider
<1>5. Rising(Append(rxQueue, x), Reach(task), high)
  BY <1>1, <1>2, <1>3, RisingAppend
<1>6. Rising(q, Reach(task), high)
  BY <1>4, <1>5, Zenon
<1>7. Reach(task) < high
  BY <1>2, <1>3
<1> QED
  BY <1>6, <1>7

LEMMA QueueOrderKept ==
    ASSUME OutboundInv, [Next]_vars PROVE QueueOrder'
<1> DEFINE n == Len(exchange)
           high == Limit(line, n)
<1>1. ReceiverTyped /\ TaskTyped /\ QueueOrder
  BY DEF OutboundInv
<1>2. /\ n \in Nat /\ high \in Nat /\ Reach(task) \in Nat /\ rxQueue \in Seq(Packets)
      /\ n <= MaxExchanges
  BY <1>1, Measures DEF ReceiverTyped
<1>3. Reach(task) < high /\ Rising(rxQueue, Reach(task), high)
  BY <1>1 DEF QueueOrder
<1>4. CASE ScoutArrives
  <2>1. PICK e \in Exchange :
           /\ exchange' = Append(exchange, e)
           /\ IF Accepts(e.dst)
              THEN line' = "scout" /\ Post(Frame(n + 1, "scout"))
              ELSE line' = "busy" /\ UNCHANGED <<rxQueue, overflowed>>
    BY <1>4 DEF ScoutArrives
  <2>2. Len(exchange') = n + 1 /\ n + 1 \in 1..MaxExchanges
    BY <1>1, <1>2, <1>4, <2>1, AppendedPlaces, OutboundConstants DEF ReceiverTyped, ScoutArrives
  <2> DEFINE x == Frame(n + 1, "scout")
  <2>3. x \in Packets /\ IsFrame(x) /\ Key(x) = 2 * (n + 1)
    BY <2>2, FramesArePackets DEF Key
  <2>4. high = 2 * n + 2 /\ task' = task
    BY <1>4 DEF ScoutArrives, Limit
  <2>5. CASE line' = "scout" /\ Post(x)
    <3>1. rxQueue' = rxQueue \/ rxQueue' = Append(rxQueue, x)
      BY <2>5, SentOrKept DEF Post
    <3>2. Limit(line', Len(exchange')) = 2 * (n + 1) + 1
      BY <2>2, <2>5 DEF Limit
    <3> HIDE DEF x
    <3>3. Limit(line', Len(exchange')) \in Nat /\ high <= Limit(line', Len(exchange'))
          /\ high <= Key(x) /\ Key(x) < Limit(line', Len(exchange'))
      BY <1>2, <2>3, <2>4, <3>2
    <3> HIDE DEF high
    <3> QED
      BY <1>1, <2>3, <2>4, <3>1, <3>3, QueueOrderPosted DEF QueueOrder, high
  <2>6. CASE line' = "busy" /\ UNCHANGED rxQueue
    <3>1. Limit(line', Len(exchange')) = 2 * (n + 1) + 2
      BY <2>2, <2>6 DEF Limit
    <3>2. Limit(line', Len(exchange')) \in Nat /\ high <= Limit(line', Len(exchange'))
      BY <1>2, <2>4, <3>1
    <3> QED
      BY <1>1, <2>4, <2>6, <3>2, FramesArePackets, QueueOrderPosted DEF QueueOrder
  <2> QED
    BY <2>1, <2>5, <2>6
<1>5. CASE DataArrives
  <2> DEFINE x == Frame(n, "data")
  <2>1. /\ line = "scout" /\ line' = "busy" /\ exchange' = exchange /\ task' = task
        /\ Post(x) \/ UNCHANGED rxQueue
    BY <1>5 DEF DataArrives
  <2>2. n \in 1..MaxExchanges
    BY <1>1, <1>2, <2>1 DEF ReceiverTyped
  <2>3. x \in Packets /\ IsFrame(x) /\ Key(x) = 2 * n + 1
    BY <2>2, FramesArePackets DEF Key
  <2>4. high = 2 * n + 1 /\ Limit(line', Len(exchange')) = 2 * n + 2
    BY <2>1 DEF Limit
  <2>5. rxQueue' = rxQueue \/ rxQueue' = Append(rxQueue, x)
    BY <2>1, SentOrKept DEF Post
  <2> HIDE DEF x
  <2>6. Limit(line', Len(exchange')) \in Nat /\ high <= Limit(line', Len(exchange'))
        /\ high <= Key(x) /\ Key(x) < Limit(line', Len(exchange'))
    BY <1>2, <2>3, <2>4
  <2> QED
    BY <1>1, <2>1, <2>3, <2>5, <2>6, QueueOrderPosted DEF QueueOrder
<1>6. CASE LineFallsIdle
  <2>1. /\ line' = "idle" /\ exchange' = exchange /\ task' = task /\ Post(IdleReport)
    BY <1>6 DEF LineFallsIdle
  <2>2. rxQueue' = rxQueue \/ rxQueue' = Append(rxQueue, IdleReport)
    BY <2>1, SentOrKept DEF Post
  <2>3. Limit(line', Len(exchange')) \in Nat /\ high <= Limit(line', Len(exchange'))
    BY <1>2, <2>1 DEF Limit
  <2> QED
    BY <1>1, <2>1, <2>2, <2>3, FramesArePackets, QueueOrderPosted DEF QueueOrder
<1>7. CASE PostShutdown
  <2>1. UNCHANGED <<line, exchange, task>> /\ rxQueue' = Append(rxQueue, Shutdown)
    BY <1>7 DEF PostShutdown, Queue, lineVars
  <2>2. high <= high
    BY <1>2
  <2> QED
    BY <1>1, <1>2, <2>1, <2>2, FramesArePackets, QueueOrderPosted DEF QueueOrder
<1>8. ASSUME UNCHANGED <<line, exchange>>,
             UNCHANGED rxQueue \/ (rxQueue # <<>> /\ rxQueue' = Tail(rxQueue)),
             Reach(task') = Reach(task) \/ Reach(task') = 0
      PROVE  QueueOrder'
  <2>1. Rising(rxQueue', Reach(task), high)
    BY <1>2, <1>3, <1>8, RisingTail
  <2>2. rxQueue' \in Seq(Packets)
    BY <1>2, <1>8, TailType
  <2>3. Reach(task') \in Nat /\ Reach(task') <= Reach(task)
    BY <1>2, <1>8
  <2>4. Rising(rxQueue', Reach(task'), high) /\ Reach(task') < high
    BY <1>2, <1>3, <2>1, <2>2, <2>3, RisingWider
  <2> QED
    BY <1>8, <2>4 DEF QueueOrder
<1>9. CASE StopEconetRx
  BY <1>8, <1>9, TasksAtRest DEF StopEconetRx, lineVars
<1>10. CASE TakeScout
  <2>1. UNCHANGED <<line, exchange>> /\ rxQueue # <<>> /\ rxQueue' = Tail(rxQueue)
    BY <1>10 DEF TakeScout, taskOnly, lineVars
  <2>2. CASE task' = task
    BY <1>8, <2>1, <2>2
  <2>3. CASE task'.pc = "data" /\ task'.scout = rxQueue[1] /\ IsFrame(rxQueue[1])
    <3>1. Reach(task') = Key(rxQueue[1])
      BY <2>3 DEF Reach
    <3>2. Rising(rxQueue', Reach(task'), high) /\ Reach(task') < high
      BY <1>2, <1>3, <2>1, <2>3, <3>1, RisingTail
    <3> QED
      BY <2>1, <3>2 DEF QueueOrder
  <2> QED
    BY <1>1, <1>10, <2>2, <2>3, TakeScoutType
<1>11. CASE TakeData
  <2>1. UNCHANGED <<line, exchange>> /\ rxQueue # <<>> /\ rxQueue' = Tail(rxQueue)
        /\ task.pc = "data"
    BY <1>11 DEF TakeData, taskOnly, lineVars
  <2>2. CASE task' = Begin
    BY <1>8, <2>1, <2>2, TasksAtRest
  <2>3. CASE task'.pc = "route" /\ task'.scout = task.scout /\ IsFrame(rxQueue[1])
    <3>1. /\ Reach(task') = 2 * task.scout.ex + 1 /\ Reach(task) = Key(task.scout)
      BY <2>1, <2>3 DEF Reach, Routed
    <3>2. /\ Rising(rxQueue', Key(rxQueue[1]), high)
          /\ Key(task.scout) < Key(rxQueue[1]) /\ Key(rxQueue[1]) < high
      BY <1>2, <1>3, <2>1, <2>3, <3>1, RisingTail
    <3>3. rxQueue[1] \in Packets /\ rxQueue' \in Seq(Packets)
      BY <1>2, <2>1, TakenPlaces
    <3>4. Key(rxQueue[1]) \in Nat
      BY <2>3, <3>3, PacketParts DEF IsFrame
    <3>5. task.scout.ex \in Nat /\ Key(task.scout) \in Nat /\ 2 * task.scout.ex <= Key(task.scout)
      BY <1>1, <2>1, ScoutInHand, PacketParts DEF HasScout, IsFrame
    <3>6. Reach(task') \in Nat /\ Reach(task') <= Key(rxQueue[1])
      BY <3>1, <3>2, <3>4, <3>5
    <3>7. Rising(rxQueue', Reach(task'), high)
      BY <1>2, <3>2, <3>3, <3>4, <3>6, RisingWider
    <3>8. Reach(task') < high
      BY <1>2, <3>2, <3>4, <3>6
    <3> QED
      BY <2>1, <3>7, <3>8 DEF QueueOrder
  <2> QED
    BY <1>1, <1>11, <2>2, <2>3, TakeDataType
<1>12. CASE DataTimesOut
  BY <1>8, <1>12, TasksAtRest DEF DataTimesOut, taskOnly, lineVars
<1>13. CASE RouteToTrunk
  <2>1. PICK t \in TrunkFor(Packet.dst[1]) : StartSending(t, t)
    BY <1>13 DEF RouteToTrunk
  <2>2. t \in FarEnds /\ t \in {0} \cup Trunks
    BY DEF TrunkFor, FarEnds
  <2>3. task.pc = "route" /\ UNCHANGED <<line, exchange, rxQueue>>
    BY <1>13 DEF RouteToTrunk, taskOnly, lineVars
  <2>4. Reach(task') = Reach(task)
    BY <1>1, <2>1, <2>2, <2>3, StartSendingType DEF Reach, Routed, OutboundInv
  <2> QED
    BY <1>8, <2>3, <2>4
<1>14. CASE RouteToHost
  <2>1. task.pc = "route" /\ UNCHANGED <<line, exchange, rxQueue>>
    BY <1>14 DEF RouteToHost, taskOnly, lineVars
  <2>2. CASE StartSending(Packet.dst[2], 0) /\ Packet.dst[2] \in config.hosts
    <3>1. Packet.dst[2] \in FarEnds /\ 0 \in {0} \cup Trunks
      BY <2>2, ConfigParts DEF FarEnds, OutboundInv, UdpTyped
    <3>2. Reach(task') = Reach(task)
      BY <1>1, <2>1, <2>2, <3>1, StartSendingType DEF Reach, Routed, OutboundInv
    <3> QED
      BY <1>8, <2>1, <3>2
  <2>3. CASE task' = Begin
    BY <1>8, <2>1, <2>3, TasksAtRest
  <2> QED
    BY <1>14, <2>2, <2>3 DEF RouteToHost
<1>15. CASE SendPacket
  <2>1. task.pc = "send" /\ UNCHANGED <<line, exchange, rxQueue>>
    BY <1>15 DEF SendPacket, taskOnly, lineVars
  <2>2. Reach(task') = Reach(task)
    BY <1>1, <1>15, <2>1, SendPacketType DEF Reach, Routed
  <2> QED
    BY <1>8, <2>1, <2>2
<1>16. CASE TakeAck \/ AckTimesOut
  <2>1. UNCHANGED <<line, exchange, rxQueue>>
    BY <1>16 DEF TakeAck, AckTimesOut, taskOnly, lineVars
  <2>2. Reach(task') = Reach(task) \/ Reach(task') = 0
    BY <1>1, <1>16, AwaitType, TasksAtRest DEF Reach, Routed
  <2> QED
    BY <1>8, <2>1, <2>2
<1>17. CASE Rebuild
  BY <1>8, <1>17, TasksAtRest DEF Rebuild, lineVars
<1>18. CASE LearnNetworks \/ StopUdpRx \/ StopReceiving \/ StopUdp
            \/ (\E f \in FarEnds : SignalAck(f)) \/ (\E t \in Trunks : ForgetNetworks(t))
            \/ (\E f \in FarEnds : FarEndReceives(f))
  BY <1>8, <1>18 DEF LearnNetworks, StopUdpRx, StopReceiving, StopUdp, SignalAck,
                     ForgetNetworks, FarEndReceives, lineVars
<1>19. CASE UNCHANGED vars
  BY <1>8, <1>19 DEF vars, lineVars
<1> QED
  BY <1>4, <1>5, <1>6, <1>7, <1>9, <1>10, <1>11, <1>12, <1>13, <1>14, <1>15, <1>16, <1>17,
     <1>18, <1>19 DEF Next, Line, EconetRxTask, UdpTask, Controller

-----------------------------------------------------------------------------
(* What was numbered and sent lies behind what is still to come. *)

LEMMA StillUnder ==
    ASSUME TaskTyped, FarTyped, NEW n \in Nat, Under(number, flight, taken, n)
    PROVE  Under(number, flight, taken, n + 1)
<1>1. n \in Int /\ n + 1 \in Int /\ n <= n + 1
  OBVIOUS
<1> QED
  BY <1>1, UnderMore DEF TaskTyped, FarTyped

LEMMA PastKept ==
    ASSUME ReceiverTyped, TaskTyped, FarTyped, PastOrder,
           NEW q \in Seq(Packets), NEW t, NEW l, NEW n \in Nat,
           \A i \in DOMAIN q : IsFrame(q[i]) =>
              \/ \E j \in DOMAIN rxQueue : q[i] = rxQueue[j]
              \/ q[i].ex = Len(exchange) + 1
              \/ line = "scout" /\ q[i].ex = Len(exchange),
           HasScout(t) =>
              \/ HasScout(task) /\ FrontOf(t) = FrontOf(task)
              \/ \E j \in DOMAIN rxQueue : IsFrame(rxQueue[j]) /\ FrontOf(t) = rxQueue[j].ex,
           n = Len(exchange) \/ n = Len(exchange) + 1,
           l = "scout" => n = Len(exchange) + 1 \/ line = "scout"
    PROVE  /\ \A i \in DOMAIN q : IsFrame(q[i]) => Under(number, flight, taken, q[i].ex)
           /\ HasScout(t) => Under(number, flight, taken, FrontOf(t))
           /\ Under(number, flight, taken, n + 1)
           /\ l = "scout" => Under(number, flight, taken, n)
<1>1. ASSUME NEW i \in DOMAIN q, IsFrame(q[i]) PROVE Under(number, flight, taken, q[i].ex)
  <2>1. CASE \E j \in DOMAIN rxQueue : q[i] = rxQueue[j]
    BY <1>1, <2>1 DEF PastOrder
  <2>2. CASE q[i].ex = Len(exchange) + 1
    BY <2>2 DEF PastOrder
  <2>3. CASE line = "scout" /\ q[i].ex = Len(exchange)
    BY <2>3 DEF PastOrder
  <2> QED
    BY <1>1, <2>1, <2>2, <2>3
<1>2. ASSUME HasScout(t) PROVE Under(number, flight, taken, FrontOf(t))
  <2>1. CASE HasScout(task) /\ FrontOf(t) = FrontOf(task)
    BY <2>1 DEF PastOrder
  <2>2. CASE \E j \in DOMAIN rxQueue : IsFrame(rxQueue[j]) /\ FrontOf(t) = rxQueue[j].ex
    BY <2>2 DEF PastOrder
  <2> QED
    BY <1>2, <2>1, <2>2
<1>3. Under(number, flight, taken, Len(exchange) + 1)
  BY DEF PastOrder
<1>4. l = "scout" => Under(number, flight, taken, n)
  BY <1>3 DEF PastOrder
<1>5. Under(number, flight, taken, n + 1)
  <2>1. CASE n = Len(exchange)
    BY <1>3, <2>1
  <2>2. CASE n = Len(exchange) + 1
    BY <1>3, <2>2, StillUnder
  <2> QED
    BY <2>1, <2>2
<1> QED
  BY <1>1, <1>2, <1>4, <1>5

(* What the task has taken lies behind what is queued and to come. *)
LEMMA Ahead ==
    ASSUME ReceiverTyped, TaskTyped, QueueOrder, Routed(task)
    PROVE  /\ task.scout.ex \in Nat
           /\ \A i \in DOMAIN rxQueue : IsFrame(rxQueue[i]) =>
                 rxQueue[i].ex \in Nat /\ task.scout.ex < rxQueue[i].ex
           /\ Len(exchange) \in Nat /\ task.scout.ex < Len(exchange) + 1
           /\ line = "scout" => task.scout.ex < Len(exchange)
<1>1. task.scout.ex \in Nat /\ Len(exchange) \in Nat /\ Reach(task) = 2 * task.scout.ex + 1
  BY ScoutInHand, Measures DEF HasScout, Routed, Reach
<1>2. ASSUME NEW i \in DOMAIN rxQueue, IsFrame(rxQueue[i])
      PROVE  rxQueue[i].ex \in Nat /\ task.scout.ex < rxQueue[i].ex
  <2>1. rxQueue[i] \in Packets
    BY ElementType DEF ReceiverTyped
  <2>2. rxQueue[i].ex \in Nat /\ Key(rxQueue[i]) \in Nat /\ Key(rxQueue[i]) <= 2 * rxQueue[i].ex + 1
    BY <1>2, <2>1, PacketParts, OutboundConstants DEF IsFrame
  <2>3. Reach(task) < Key(rxQueue[i])
    BY <1>2 DEF QueueOrder, Rising
  <2> QED
    BY <1>1, <2>2, <2>3
<1>3. 2 * task.scout.ex + 1 < Limit(line, Len(exchange))
  BY <1>1 DEF QueueOrder
<1>4. task.scout.ex < Len(exchange) + 1
  BY <1>1, <1>3 DEF Limit
<1>5. line = "scout" => task.scout.ex < Len(exchange)
  BY <1>1, <1>3 DEF Limit
<1> QED
  BY <1>1, <1>2, <1>4, <1>5

LEMMA PastGrows ==
    ASSUME ReceiverTyped, TaskTyped, FarTyped, QueueOrder, PastOrder, Routed(task),
           UNCHANGED <<line, exchange, rxQueue>>,
           Sending(task'), task'.scout = task.scout,
           \A m \in Int : task.scout.ex < m /\ Under(number, flight, taken, m)
                             => Under(number', flight', taken', m)
    PROVE  PastOrder'
<1>1. /\ task.scout.ex \in Nat
      /\ \A i \in DOMAIN rxQueue : IsFrame(rxQueue[i]) =>
            rxQueue[i].ex \in Nat /\ task.scout.ex < rxQueue[i].ex
      /\ Len(exchange) \in Nat /\ task.scout.ex < Len(exchange) + 1
      /\ line = "scout" => task.scout.ex < Len(exchange)
  BY Ahead
<1>2. \A i \in DOMAIN rxQueue' :
         IsFrame(rxQueue'[i]) => Under(number', flight', taken', rxQueue'[i].ex)
  BY <1>1 DEF PastOrder
<1>3. Under(number, flight, taken, task.scout.ex + 1)
  <2>1. CASE Sending(task)
    BY <2>1 DEF PastOrder, FrontOf, HasScout, Sending
  <2>2. CASE ~Sending(task)
    <3>1. Under(number, flight, taken, task.scout.ex)
      BY <2>2 DEF PastOrder, FrontOf, HasScout, Routed
    <3> QED
      BY <1>1, <3>1, StillUnder
  <2> QED
    BY <2>1, <2>2
<1>4. Under(number', flight', taken', task.scout.ex + 1)
  BY <1>1, <1>3
<1>5. FrontOf(task') = task.scout.ex + 1
  BY DEF FrontOf
<1>6. Under(number', flight', taken', Len(exchange') + 1)
  BY <1>1 DEF PastOrder
<1>7. line' = "scout" => Under(number', flight', taken', Len(exchange'))
  BY <1>1 DEF PastOrder
<1> QED
  BY <1>2, <1>4, <1>5, <1>6, <1>7 DEF PastOrder

LEMMA PastShrinks ==
    ASSUME ReceiverTyped, TaskTyped, PastOrder,
           UNCHANGED <<line, exchange, rxQueue>>,
           task' = task \/ ~HasScout(task'),
           \A m \in Int : Under(number, flight, taken, m) => Under(number', flight', taken', m)
    PROVE  PastOrder'
<1>1. \A i \in DOMAIN rxQueue : IsFrame(rxQueue[i]) => rxQueue[i].ex \in Int
  BY ElementType, PacketParts, OutboundConstants DEF ReceiverTyped, IsFrame
<1>2. HasScout(task) => FrontOf(task) \in Int
  BY ScoutInHand DEF FrontOf
<1>3. Len(exchange) \in Int /\ Len(exchange) + 1 \in Int
  BY Measures
<1>4. \A i \in DOMAIN rxQueue' :
         IsFrame(rxQueue'[i]) => Under(number', flight', taken', rxQueue'[i].ex)
  BY <1>1 DEF PastOrder
<1>5. HasScout(task') => Under(number', flight', taken', FrontOf(task'))
  BY <1>2 DEF PastOrder
<1>6. Under(number', flight', taken', Len(exchange') + 1)
  BY <1>3 DEF PastOrder
<1>7. line' = "scout" => Under(number', flight', taken', Len(exchange'))
  BY <1>3 DEF PastOrder
<1> QED
  BY <1>4, <1>5, <1>6, <1>7 DEF PastOrder

LEMMA PastOrderKept ==
    ASSUME OutboundInv, [Next]_vars PROVE PastOrder'
<1> DEFINE n == Len(exchange)
<1>1. ReceiverTyped /\ TaskTyped /\ FarTyped /\ QueueOrder /\ PastOrder
  BY DEF OutboundInv
<1>2. n \in Nat /\ rxQueue \in Seq(Packets) /\ n <= MaxExchanges
  BY <1>1, Measures DEF ReceiverTyped
<1>3. rxQueue' \in Seq(Packets) /\ Len(exchange') \in Nat
  BY ReceiverTypedKept, LenProperties DEF ReceiverTyped
<1>4. ASSUME UNCHANGED <<number, flight, taken>>,
             \A i \in DOMAIN rxQueue' : IsFrame(rxQueue'[i]) =>
                \/ \E j \in DOMAIN rxQueue : rxQueue'[i] = rxQueue[j]
                \/ rxQueue'[i].ex = n + 1
                \/ line = "scout" /\ rxQueue'[i].ex = n,
             HasScout(task') =>
                \/ HasScout(task) /\ FrontOf(task') = FrontOf(task)
                \/ \E j \in DOMAIN rxQueue : /\ IsFrame(rxQueue[j])
                                             /\ FrontOf(task') = rxQueue[j].ex,
             Len(exchange') = n \/ Len(exchange') = n + 1,
             line' = "scout" => Len(exchange') = n + 1 \/ line = "scout"
      PROVE  PastOrder'
  <2> HIDE DEF n
  <2>1. /\ \A i \in DOMAIN rxQueue' :
              IsFrame(rxQueue'[i]) => Under(number, flight, taken, rxQueue'[i].ex)
        /\ HasScout(task') => Under(number, flight, taken, FrontOf(task'))
        /\ Under(number, flight, taken, Len(exchange') + 1)
        /\ line' = "scout" => Under(number, flight, taken, Len(exchange'))
    BY <1>1, <1>3, <1>4, PastKept DEF n
  <2> QED
    BY <1>4, <2>1 DEF PastOrder
<1>5. ASSUME UNCHANGED <<number, flight, taken, line, exchange>>,
             UNCHANGED rxQueue \/ (rxQueue # <<>> /\ rxQueue' = Tail(rxQueue)),
             HasScout(task') =>
                \/ HasScout(task) /\ FrontOf(task') = FrontOf(task)
                \/ \E j \in DOMAIN rxQueue : /\ IsFrame(rxQueue[j])
                                             /\ FrontOf(task') = rxQueue[j].ex
      PROVE  PastOrder'
  <2>1. \A i \in DOMAIN rxQueue' : \E j \in DOMAIN rxQueue : rxQueue'[i] = rxQueue[j]
    BY <1>2, <1>5, TakenElements
  <2> QED
    BY <1>4, <1>5, <2>1
<1>6. CASE ScoutArrives
  <2>1. PICK e \in Exchange :
           /\ exchange' = Append(exchange, e)
           /\ IF Accepts(e.dst)
              THEN line' = "scout" /\ Post(Frame(n + 1, "scout"))
              ELSE line' = "busy" /\ UNCHANGED <<rxQueue, overflowed>>
    BY <1>6 DEF ScoutArrives
  <2>2. Len(exchange') = n + 1 /\ n + 1 \in 1..MaxExchanges
    BY <1>1, <1>2, <1>6, <2>1, AppendedPlaces, OutboundConstants DEF ReceiverTyped, ScoutArrives
  <2> DEFINE x == Frame(n + 1, "scout")
  <2>3. x \in Packets /\ x.ex = n + 1
    BY <2>2, FramesArePackets
  <2>4. rxQueue' = rxQueue \/ rxQueue' = Append(rxQueue, x)
    BY <2>1, SentOrKept DEF Post
  <2> HIDE DEF x
  <2>5. \A i \in DOMAIN rxQueue' :
           rxQueue'[i] = x \/ \E j \in DOMAIN rxQueue : rxQueue'[i] = rxQueue[j]
    BY <1>2, <2>3, <2>4, AppendedElements
  <2>6. UNCHANGED <<number, flight, taken, task>>
    BY <1>6 DEF ScoutArrives, farVars
  <2> QED
    BY <1>4, <2>2, <2>3, <2>5, <2>6
<1>7. CASE DataArrives
  <2> DEFINE x == Frame(n, "data")
  <2>1. /\ line = "scout" /\ line' = "busy" /\ exchange' = exchange
        /\ UNCHANGED <<number, flight, taken, task>>
        /\ Post(x) \/ UNCHANGED rxQueue
    BY <1>7 DEF DataArrives, farVars
  <2>2. n \in 1..MaxExchanges
    BY <1>1, <1>2, <2>1 DEF ReceiverTyped
  <2>3. x \in Packets /\ x.ex = n
    BY <2>2, FramesArePackets
  <2>4. rxQueue' = rxQueue \/ rxQueue' = Append(rxQueue, x)
    BY <2>1, SentOrKept DEF Post
  <2> HIDE DEF x
  <2>5. \A i \in DOMAIN rxQueue' :
           rxQueue'[i] = x \/ \E j \in DOMAIN rxQueue : rxQueue'[i] = rxQueue[j]
    BY <1>2, <2>3, <2>4, AppendedElements
  <2> QED
    BY <1>4, <2>1, <2>3, <2>5
<1>8. ASSUME UNCHANGED <<number, flight, taken, task, exchange>>, line' # "scout" \/ line' = line,
             NEW x \in Packets, ~IsFrame(x), rxQueue' = rxQueue \/ rxQueue' = Append(rxQueue, x)
      PROVE  PastOrder'
  <2>1. \A i \in DOMAIN rxQueue' :
           rxQueue'[i] = x \/ \E j \in DOMAIN rxQueue : rxQueue'[i] = rxQueue[j]
    BY <1>2, <1>8, AppendedElements
  <2> QED
    BY <1>4, <1>8, <2>1
<1>9. CASE LineFallsIdle
  <2>1. /\ line' = "idle" /\ exchange' = exchange /\ UNCHANGED <<number, flight, taken, task>>
        /\ rxQueue' = rxQueue \/ rxQueue' = Append(rxQueue, IdleReport)
    BY <1>9, SentOrKept DEF LineFallsIdle, Post, farVars
  <2> QED
    BY <1>8, <2>1, FramesArePackets
<1>10. CASE PostShutdown
  <2>1. /\ UNCHANGED <<number, flight, taken, task, line, exchange>>
        /\ rxQueue' = Append(rxQueue, Shutdown)
    BY <1>10 DEF PostShutdown, Queue, farVars, lineVars
  <2> QED
    BY <1>8, <2>1, FramesArePackets
<1>11. CASE StopEconetRx
  BY <1>5, <1>11, TasksAtRest DEF StopEconetRx, lineVars, farVars
<1>12. CASE TakeScout
  <2>1. /\ UNCHANGED <<number, flight, taken, line, exchange>>
        /\ rxQueue # <<>> /\ rxQueue' = Tail(rxQueue) /\ task.pc = "scout"
    BY <1>12 DEF TakeScout, taskOnly, lineVars, farVars
  <2>2. CASE task' = task
    BY <1>5, <2>1, <2>2 DEF HasScout
  <2>3. CASE task'.pc = "data" /\ task'.scout = rxQueue[1] /\ IsFrame(rxQueue[1])
    <3>1. FrontOf(task') = rxQueue[1].ex
      BY <2>3 DEF FrontOf, Sending
    <3>2. 1 \in DOMAIN rxQueue
      BY <1>2, <2>1, TakenPlaces
    <3> QED
      BY <1>5, <2>1, <2>3, <3>1, <3>2
  <2> QED
    BY <1>1, <1>12, <2>2, <2>3, TakeScoutType
<1>13. CASE TakeData
  <2>1. /\ UNCHANGED <<number, flight, taken, line, exchange>>
        /\ rxQueue # <<>> /\ rxQueue' = Tail(rxQueue) /\ task.pc = "data"
    BY <1>13 DEF TakeData, taskOnly, lineVars, farVars
  <2>2. CASE task' = Begin
    BY <1>5, <2>1, <2>2, TasksAtRest
  <2>3. CASE task'.pc = "route" /\ task'.scout = task.scout
    <3>1. FrontOf(task') = FrontOf(task) /\ HasScout(task)
      BY <2>1, <2>3 DEF FrontOf, Sending, HasScout
    <3> QED
      BY <1>5, <2>1, <3>1
  <2> QED
    BY <1>1, <1>13, <2>2, <2>3, TakeDataType
<1>14. CASE DataTimesOut
  BY <1>5, <1>14, TasksAtRest DEF DataTimesOut, taskOnly, lineVars, farVars
<1>15. ASSUME task.pc = "route", UNCHANGED <<line, exchange, rxQueue, flight, taken>>,
              NEW far \in FarEnds, NEW c \in {0} \cup Trunks, StartSending(far, c)
       PROVE  PastOrder'
  <2>1. /\ Routed(task) /\ Sending(task') /\ task'.scout = task.scout
        /\ number'[c] <= task.scout.ex /\ number' = [number EXCEPT ![c] = @ + 1]
        /\ number' \in [{0} \cup Trunks -> 0..MaxExchanges]
    BY <1>1, <1>15, StartSendingType DEF Routed, Sending
  <2>2. task.scout.ex \in Nat
    BY <1>1, <2>1, Ahead
  <2>3. number'[c] \in Int /\ number \in [{0} \cup Trunks -> 0..MaxExchanges]
    BY <1>1, <2>1, OutboundConstants DEF TaskTyped
  <2>4. ASSUME NEW m \in Int, task.scout.ex < m, Under(number, flight, taken, m)
        PROVE  Under(number', flight', taken', m)
    <3>1. ASSUME NEW g \in {0} \cup Trunks PROVE number'[g] < m
      <4>1. CASE g = c
        BY <2>1, <2>2, <2>3, <2>4, <4>1
      <4>2. CASE g # c
        BY <2>1, <2>3, <2>4, <4>2 DEF Under
      <4> QED
        BY <4>1, <4>2
    <3> QED
      BY <1>15, <2>4, <3>1 DEF Under
  <2> QED
    BY <1>1, <1>15, <2>1, <2>4, PastGrows
<1>16. CASE RouteToTrunk
  <2>1. PICK t \in TrunkFor(Packet.dst[1]) : StartSending(t, t)
    BY <1>16 DEF RouteToTrunk
  <2>2. t \in FarEnds /\ t \in {0} \cup Trunks
    BY DEF TrunkFor, FarEnds
  <2>3. task.pc = "route" /\ UNCHANGED <<line, exchange, rxQueue, flight, taken>>
    BY <1>16 DEF RouteToTrunk, taskOnly, lineVars, farVars
  <2> QED
    BY <1>15, <2>1, <2>2, <2>3
<1>17. CASE RouteToHost
  <2>1. task.pc = "route" /\ UNCHANGED <<line, exchange, rxQueue, flight, taken>>
    BY <1>17 DEF RouteToHost, taskOnly, lineVars, farVars
  <2>2. CASE StartSending(Packet.dst[2], 0) /\ Packet.dst[2] \in config.hosts
    <3>1. Packet.dst[2] \in FarEnds /\ 0 \in {0} \cup Trunks
      BY <2>2, ConfigParts DEF FarEnds, OutboundInv, UdpTyped
    <3> QED
      BY <1>15, <2>1, <2>2, <3>1
  <2>3. CASE task' = Begin /\ UNCHANGED number
    BY <1>5, <2>1, <2>3, TasksAtRest
  <2> QED
    BY <1>17, <2>2, <2>3 DEF RouteToHost
<1>18. CASE SendPacket
  <2> DEFINE d == [ex |-> task.scout.ex, data |-> task.data, seq |-> NumberSent(task),
                   layers |-> Layers(task)]
  <2>1. d \in Datagram /\ task.far \in FarEnds /\ d.ex = task.scout.ex
    BY <1>1, <1>18, DatagramSent
  <2>2. /\ flight' = flight \/ flight' = [flight EXCEPT ![task.far] = Append(@, d)]
        /\ task.pc = "send" /\ UNCHANGED <<line, exchange, rxQueue, number, taken>>
    BY <1>18 DEF SendPacket, taskOnly, lineVars, farVars
  <2> HIDE DEF d
  <2>3. Routed(task) /\ Sending(task') /\ task'.scout = task.scout
    BY <1>1, <1>18, <2>2, SendPacketType DEF Routed, Sending
  <2>4. ASSUME NEW m \in Int, task.scout.ex < m, Under(number, flight, taken, m)
        PROVE  Under(number', flight', taken', m)
    <3>1. Under(number, [flight EXCEPT ![task.far] = Append(@, d)], taken, m)
      BY <1>1, <2>1, <2>4, UnderSent DEF FarTyped
    <3> QED
      BY <2>2, <2>4, <3>1
  <2> QED
    BY <1>1, <2>2, <2>3, <2>4, PastGrows
<1>19. CASE TakeAck \/ AckTimesOut
  <2>1. UNCHANGED <<number, flight, taken, line, exchange, rxQueue>>
    BY <1>19 DEF TakeAck, AckTimesOut, taskOnly, lineVars, farVars
  <2>2. CASE task' = Begin
    BY <1>5, <2>1, <2>2, TasksAtRest
  <2>3. CASE task'.pc \in {"send", "wait"} /\ task.pc = "wait" /\ task'.scout = task.scout
    <3>1. FrontOf(task') = FrontOf(task) /\ HasScout(task)
      BY <2>3 DEF FrontOf, Sending, HasScout
    <3> QED
      BY <1>5, <2>1, <3>1
  <2> QED
    BY <1>1, <1>19, <2>2, <2>3, AwaitType
<1>20. ASSUME NEW f \in FarEnds, FarEndReceives(f) PROVE PastOrder'
  <2>1. /\ UNCHANGED <<line, exchange, rxQueue, task, number>> /\ flight[f] # <<>>
        /\ flight' = [flight EXCEPT ![f] = Tail(@)]
        /\ taken' = taken \/ taken' = [taken EXCEPT ![f] = Append(@, Head(flight[f]))]
    BY <1>20 DEF FarEndReceives, lineVars
  <2>2. ASSUME NEW m \in Int, Under(number, flight, taken, m)
        PROVE  Under(number', flight', taken', m)
    <3>1. /\ flight \in [FarEnds -> Seq(Datagram)] /\ taken \in [FarEnds -> Seq(Datagram)]
      BY <1>1 DEF FarTyped
    <3>2. Under(number, [flight EXCEPT ![f] = Tail(@)], taken', m)
      <4>1. taken' = taken \/ taken' = [taken EXCEPT ![f] = Append(@, Head(flight[f]))]
        BY <2>1
      <4>2. flight[f] # <<>>
        BY <2>1
      <4> QED
        BY <2>2, <3>1, <4>1, <4>2, UnderReceived
    <3> QED
      BY <2>1, <3>2
  <2> QED
    BY <1>1, <2>1, <2>2, PastShrinks
<1>21. CASE Rebuild
  <2>1. PICK c \in Configs :
           number' = [f \in DOMAIN number |-> IF f \in c.trunks THEN 0 ELSE number[f]]
    BY <1>21 DEF Rebuild
  <2>2. UNCHANGED <<line, exchange, rxQueue, flight, taken>> /\ task' = Begin
    BY <1>21 DEF Rebuild, lineVars
  <2>3. number \in [{0} \cup Trunks -> 0..MaxExchanges]
    BY <1>1 DEF TaskTyped
  <2>4. ASSUME NEW m \in Int, Under(number, flight, taken, m)
        PROVE  Under(number', flight', taken', m)
    <3>1. ASSUME NEW g \in {0} \cup Trunks PROVE number'[g] < m
      <4>1. number[g] \in Nat /\ number[g] < m
        BY <2>3, <2>4, OutboundConstants DEF Under
      <4>2. number'[g] = 0 \/ number'[g] = number[g]
        BY <2>1, <2>3
      <4> QED
        BY <4>1, <4>2
    <3> QED
      BY <2>2, <2>4, <3>1 DEF Under
  <2> QED
    BY <1>1, <2>2, <2>4, TasksAtRest, PastShrinks
<1>22. ASSUME UNCHANGED <<line, exchange, rxQueue, task, number, flight, taken>> PROVE PastOrder'
  BY <1>5, <1>22
<1>23. CASE LearnNetworks \/ StopUdpRx \/ StopReceiving \/ StopUdp
            \/ (\E f \in FarEnds : SignalAck(f)) \/ (\E t \in Trunks : ForgetNetworks(t))
  BY <1>22, <1>23 DEF LearnNetworks, StopUdpRx, StopReceiving, StopUdp, SignalAck,
                      ForgetNetworks, lineVars, farVars
<1>24. CASE UNCHANGED vars
  BY <1>22, <1>24 DEF vars, lineVars, farVars
<1> QED
  BY <1>6, <1>7, <1>9, <1>10, <1>11, <1>12, <1>13, <1>14, <1>16, <1>17, <1>18, <1>19, <1>20,
     <1>21, <1>23, <1>24 DEF Next, Line, EconetRxTask, UdpTask, Controller

-----------------------------------------------------------------------------
(* Far ends get packets in order. *)

LEMMA SendOrderKept ==
    ASSUME OutboundInv, [Next]_vars PROVE SendOrder'
<1>1. ReceiverTyped /\ TaskTyped /\ FarTyped /\ PastOrder /\ SendOrder
  BY DEF OutboundInv
<1>2. /\ flight \in [FarEnds -> Seq(Datagram)] /\ taken \in [FarEnds -> Seq(Datagram)]
  BY <1>1 DEF FarTyped
<1>3. Sending(task) => task.far \in FarEnds
  BY <1>1 DEF TaskTyped, WellFormed
<1>4. \A e \in Datagram : e.ex \in Nat
  BY OutboundConstants DEF Datagram
<1>5. \A f \in FarEnds : /\ \A i \in DOMAIN taken[f] : taken[f][i].ex \in Nat
                         /\ \A i \in DOMAIN flight[f] : flight[f][i].ex \in Nat
  BY <1>2, <1>4, ElementType
<1>6. ASSUME UNCHANGED <<flight, taken, lastNumber>>,
             Sending(task') => /\ Sending(task) /\ task'.far = task.far
                               /\ task'.scout = task.scout /\ task'.seq = task.seq
      PROVE  SendOrder'
  BY <1>1, <1>6 DEF SendOrder, SameNumber
<1>7. ASSUME task.pc = "route", UNCHANGED <<flight, taken, lastNumber>>,
             NEW far \in FarEnds, NEW c \in {0} \cup Trunks, StartSending(far, c)
      PROVE  SendOrder'
  <2>1. task'.far = far /\ task'.scout = task.scout
    BY <1>1, <1>7, StartSendingType
  <2>2. task.scout.ex \in Nat
    BY <1>1, <1>7, ScoutInHand DEF HasScout
  <2>3. Under(number, flight, taken, task.scout.ex)
    BY <1>1, <1>7 DEF PastOrder, HasScout, FrontOf, Sending
  <2>4. SameNumber(taken'[task'.far], flight'[task'.far], task')
    BY <1>5, <1>7, <2>1, <2>2, <2>3 DEF Under, SameNumber
  <2> QED
    BY <1>1, <1>7, <2>4 DEF SendOrder
<1>8. CASE RouteToTrunk
  <2>1. PICK t \in TrunkFor(Packet.dst[1]) : StartSending(t, t)
    BY <1>8 DEF RouteToTrunk
  <2>2. t \in FarEnds /\ t \in {0} \cup Trunks
    BY DEF TrunkFor, FarEnds
  <2>3. task.pc = "route" /\ UNCHANGED <<flight, taken, lastNumber>>
    BY <1>8 DEF RouteToTrunk, taskOnly, farVars
  <2> QED
    BY <1>7, <2>1, <2>2, <2>3
<1>9. CASE RouteToHost
  <2>1. task.pc = "route" /\ UNCHANGED <<flight, taken, lastNumber>>
    BY <1>9 DEF RouteToHost, taskOnly, farVars
  <2>2. CASE StartSending(Packet.dst[2], 0) /\ Packet.dst[2] \in config.hosts
    <3>1. Packet.dst[2] \in FarEnds /\ 0 \in {0} \cup Trunks
      BY <2>2, ConfigParts DEF FarEnds, OutboundInv, UdpTyped
    <3> QED
      BY <1>7, <2>1, <2>2, <3>1
  <2>3. CASE task' = Begin
    BY <1>6, <2>1, <2>3, TasksAtRest DEF Sending, HasScout
  <2> QED
    BY <1>9, <2>2, <2>3 DEF RouteToHost
<1>10. CASE SendPacket
  <2> DEFINE d == [ex |-> task.scout.ex, data |-> task.data, seq |-> NumberSent(task),
                   layers |-> Layers(task)]
  <2>1. d \in Datagram /\ d.ex = task.scout.ex /\ d.seq = task.seq /\ task.far \in FarEnds
    BY <1>1, <1>10, DatagramSent DEF NumberSent
  <2>2. /\ task.pc = "send" /\ UNCHANGED <<taken, lastNumber>>
        /\ flight' = flight \/ flight' = [flight EXCEPT ![task.far] = Append(@, d)]
    BY <1>10 DEF SendPacket, taskOnly, farVars
  <2> HIDE DEF d
  <2>3. /\ task'.scout = task.scout /\ task'.far = task.far /\ task'.seq = task.seq
    BY <1>1, <1>10, SendPacketType
  <2>4. CASE flight' = flight
    BY <1>6, <2>2, <2>3, <2>4 DEF Sending
  <2>5. CASE flight' = [flight EXCEPT ![task.far] = Append(@, d)]
    <3> DEFINE far == task.far
    <3>1. SameNumber(taken[far], flight[far], task) /\ Orderly(taken[far], flight[far], lastNumber[far])
      BY <1>1, <2>1, <2>2 DEF SendOrder, Sending
    <3>2. Under(number, flight, taken, task.scout.ex + 1) /\ task.scout.ex \in Nat
      BY <1>1, <2>2, ScoutInHand DEF PastOrder, HasScout, FrontOf, Sending
    <3>3. /\ \A i \in DOMAIN taken[far] : Alike(taken[far][i], d)
          /\ \A i \in DOMAIN flight[far] : Alike(flight[far][i], d)
      BY <1>5, <2>1, <3>1, <3>2 DEF Under, SameNumber, Alike
    <3>4. taken[far] \in Seq(Datagram) /\ flight[far] \in Seq(Datagram)
      BY <1>2, <2>1
    <3>5. Orderly(taken[far], Append(flight[far], d), lastNumber[far])
      BY <2>1, <3>1, <3>3, <3>4, OrderlySent
    <3>6. SameNumber(taken[far], Append(flight[far], d), task)
      BY <2>1, <3>1, <3>4, NumberKept
    <3>7. flight'[far] = Append(flight[far], d)
          /\ \A f \in FarEnds : f # far => flight'[f] = flight[f]
      BY <1>2, <2>1, <2>5
    <3>8. ASSUME NEW f \in FarEnds PROVE Orderly(taken'[f], flight'[f], lastNumber'[f])
      BY <1>1, <2>2, <3>5, <3>7 DEF SendOrder
    <3>9. SameNumber(taken'[task'.far], flight'[task'.far], task')
      BY <2>2, <2>3, <3>6, <3>7 DEF SameNumber
    <3> QED
      BY <3>8, <3>9 DEF SendOrder
  <2> QED
    BY <2>2, <2>4, <2>5
<1>11. CASE TakeAck \/ AckTimesOut
  <2>1. UNCHANGED <<flight, taken, lastNumber>>
    BY <1>11 DEF TakeAck, AckTimesOut, taskOnly, farVars
  <2>2. CASE task' = Begin
    BY <1>6, <2>1, <2>2, TasksAtRest DEF Sending, HasScout
  <2>3. CASE task.pc = "wait" /\ task'.scout = task.scout /\ task'.far = task.far
             /\ task'.seq = task.seq
    BY <1>6, <2>1, <2>3 DEF Sending
  <2> QED
    BY <1>1, <1>11, <2>2, <2>3, AwaitType
<1>12. ASSUME NEW g \in FarEnds, FarEndReceives(g) PROVE SendOrder'
  <2> DEFINE d == Head(flight[g])
  <2>1. /\ flight[g] # <<>> /\ flight' = [flight EXCEPT ![g] = Tail(@)] /\ task' = task
        /\ \/ /\ d.seq # lastNumber[g]
              /\ taken' = [taken EXCEPT ![g] = Append(@, d)]
              /\ lastNumber' = [lastNumber EXCEPT ![g] = d.seq]
           \/ taken' = taken /\ lastNumber' = lastNumber
    BY <1>12 DEF FarEndReceives
  <2>2. taken[g] \in Seq(Datagram) /\ flight[g] \in Seq(Datagram)
        /\ Orderly(taken[g], flight[g], lastNumber[g])
        /\ lastNumber \in [FarEnds -> Nat]
    BY <1>1, <1>2 DEF SendOrder, FarTyped
  <2>3. /\ flight'[g] = Tail(flight[g]) /\ \A f \in FarEnds : f # g => flight'[f] = flight[f]
    BY <1>2, <2>1
  <2>4. /\ \/ /\ d.seq # lastNumber[g]
              /\ taken'[g] = Append(taken[g], d)
              /\ lastNumber'[g] = d.seq
           \/ taken'[g] = taken[g] /\ lastNumber'[g] = lastNumber[g]
        /\ \A f \in FarEnds : f # g => taken'[f] = taken[f] /\ lastNumber'[f] = lastNumber[f]
    BY <1>2, <2>1, <2>2
  <2>5. Orderly(taken'[g], flight'[g], lastNumber'[g])
    BY <2>1, <2>2, <2>3, <2>4, OrderlyTaken, OrderlyDropped
  <2>6. ASSUME NEW f \in FarEnds PROVE Orderly(taken'[f], flight'[f], lastNumber'[f])
    BY <1>1, <2>3, <2>4, <2>5 DEF SendOrder
  <2>7. ASSUME Sending(task') PROVE SameNumber(taken'[task'.far], flight'[task'.far], task')
    <3>1. SameNumber(taken[task.far], flight[task.far], task) /\ task.far \in FarEnds
      BY <1>1, <1>3, <2>1, <2>7 DEF SendOrder
    <3>2. CASE task.far = g
      <4>1. /\ SameNumber(taken[g], Tail(flight[g]), task)
            /\ SameNumber(Append(taken[g], d), Tail(flight[g]), task)
        BY <2>1, <2>2, <3>1, <3>2, NumberKept
      <4> QED
        BY <2>1, <2>3, <2>4, <3>2, <4>1
    <3>3. CASE task.far # g
      BY <2>1, <2>3, <2>4, <3>1, <3>3
    <3> QED
      BY <3>2, <3>3
  <2> QED
    BY <2>6, <2>7 DEF SendOrder
<1>13. CASE StopEconetRx \/ DataTimesOut \/ Rebuild
  BY <1>6, <1>13, TasksAtRest DEF StopEconetRx, DataTimesOut, Rebuild, taskOnly, farVars,
                                  Sending, HasScout
<1>14. CASE TakeScout \/ TakeData
  <2>1. UNCHANGED <<flight, taken, lastNumber>>
    BY <1>14 DEF TakeScout, TakeData, taskOnly, farVars
  <2>2. task' = task \/ ~Sending(task')
    BY <1>1, <1>14, TakeScoutType, TakeDataType, TasksAtRest DEF Sending, HasScout
  <2> QED
    BY <1>6, <2>1, <2>2
<1>15. ASSUME UNCHANGED <<flight, taken, lastNumber, task>> PROVE SendOrder'
  BY <1>6, <1>15
<1>16. CASE ScoutArrives \/ DataArrives \/ LineFallsIdle \/ LearnNetworks \/ StopUdpRx
            \/ StopReceiving \/ PostShutdown \/ StopUdp
  BY <1>15, <1>16 DEF ScoutArrives, DataArrives, LineFallsIdle, LearnNetworks, StopUdpRx,
                      StopReceiving, PostShutdown, StopUdp, farVars
<1>17. CASE (\E f \in FarEnds : SignalAck(f)) \/ (\E t \in Trunks : ForgetNetworks(t))
  BY <1>15, <1>17 DEF SignalAck, ForgetNetworks, farVars
<1>18. CASE UNCHANGED vars
  BY <1>15, <1>18 DEF vars, farVars
<1> QED
  BY <1>8, <1>9, <1>10, <1>11, <1>12, <1>13, <1>14, <1>16, <1>17, <1>18
     DEF Next, Line, EconetRxTask, UdpTask, Controller

-----------------------------------------------------------------------------
(* A scout is followed by its own data frame. *)

LEMMA PostedWhole ==
    ASSUME ReceiverTyped, NEW p \in Packets, Post(p), ~overflowed'
    PROVE  ~overflowed /\ rxQueue' = Append(rxQueue, p)
<1>1. Len(rxQueue) # RxQueueLen /\ ~overflowed
  BY DEF Post
<1>2. Len(rxQueue) < RxQueueLen
  BY <1>1, OutboundConstants, LenProperties DEF ReceiverTyped
<1> QED
  BY <1>1, <1>2 DEF Post, QueueSend

LEMMA PairedKept ==
    ASSUME OutboundInv, [Next]_vars, ~overflowed' PROVE Paired'
<1> DEFINE n == Len(exchange)
<1>1. ReceiverTyped /\ TaskTyped /\ (~overflowed => Paired)
  BY DEF OutboundInv
<1>2. n \in Nat /\ rxQueue \in Seq(Packets) /\ n <= MaxExchanges
  BY <1>1, Measures DEF ReceiverTyped
<1>3. HasScout(task) => task.scout \in Packets
  BY <1>1, ScoutInHand
<1>4. ASSUME NEW x \in Packets, Post(x), task' = task,
             Ends(x, line', Len(exchange')),
             \A p \in Packets : Ends(p, line, n) => Follows(p, x)
      PROVE  Paired'
  <2>1. Paired /\ rxQueue' = Append(rxQueue, x)
    BY <1>1, <1>4, PostedWhole
  <2>2. /\ Chain(rxQueue', line', Len(exchange'))
        /\ \A p \in Packets : LeadsInto(p, rxQueue, line, n)
                                 => LeadsInto(p, rxQueue', line', Len(exchange'))
    BY <1>2, <1>4, <2>1, ChainAppend DEF Paired
  <2> QED
    BY <1>3, <1>4, <2>1, <2>2 DEF Paired, HasScout
<1>5. ASSUME UNCHANGED <<rxQueue, task, overflowed>>,
             \A p \in Packets : Ends(p, line, n) => Ends(p, line', Len(exchange'))
      PROVE  Paired'
  <2>1. Paired
    BY <1>1, <1>5
  <2>2. /\ Chain(rxQueue', line', Len(exchange'))
        /\ \A p \in Packets : LeadsInto(p, rxQueue, line, n)
                                 => LeadsInto(p, rxQueue', line', Len(exchange'))
    BY <1>2, <1>5, <2>1, ChainOn DEF Paired
  <2> QED
    BY <1>3, <1>5, <2>1, <2>2 DEF Paired, HasScout
<1>6. ASSUME UNCHANGED <<line, exchange, overflowed>>,
             UNCHANGED rxQueue \/ (rxQueue # <<>> /\ rxQueue' = Tail(rxQueue)),
             task'.pc = "data" => LeadsInto(task'.scout, rxQueue', line, n),
             Routed(task') => task'.data = Frame(task'.scout.ex, "data")
      PROVE  Paired'
  <2>1. Paired
    BY <1>1, <1>6
  <2>2. Chain(rxQueue', line, n)
    BY <1>2, <1>6, <2>1, ChainTail DEF Paired
  <2> QED
    BY <1>6, <2>2 DEF Paired
<1>7. CASE ScoutArrives
  <2>1. PICK e \in Exchange :
           /\ exchange' = Append(exchange, e)
           /\ IF Accepts(e.dst)
              THEN line' = "scout" /\ Post(Frame(n + 1, "scout"))
              ELSE line' = "busy" /\ UNCHANGED <<rxQueue, overflowed>>
    BY <1>7 DEF ScoutArrives
  <2>2. Len(exchange') = n + 1 /\ n + 1 \in 1..MaxExchanges
    BY <1>1, <1>2, <1>7, <2>1, AppendedPlaces, OutboundConstants DEF ReceiverTyped, ScoutArrives
  <2>3. line = "idle" /\ task' = task
    BY <1>7 DEF ScoutArrives
  <2>4. \A p \in Packets : Ends(p, line, n) => ~IsFrame(p)
    BY <2>3 DEF Ends
  <2>5. CASE line' = "scout" /\ Post(Frame(n + 1, "scout"))
    <3> DEFINE x == Frame(n + 1, "scout")
    <3>1. x \in Packets /\ x.part = "scout" /\ x.ex = n + 1
      BY <2>2, FramesArePackets
    <3> HIDE DEF x
    <3>2. Ends(x, line', Len(exchange'))
      BY <2>2, <2>5, <3>1 DEF Ends
    <3>3. \A p \in Packets : Ends(p, line, n) => Follows(p, x)
      BY <2>4 DEF Follows
    <3>4. Post(x)
      BY <2>5 DEF x
    <3> QED
      BY <1>4, <2>3, <3>1, <3>2, <3>3, <3>4
  <2>6. CASE line' = "busy" /\ UNCHANGED <<rxQueue, overflowed>>
    <3>1. \A p \in Packets : Ends(p, line, n) => Ends(p, line', Len(exchange'))
      BY <2>4 DEF Ends
    <3> QED
      BY <1>5, <2>3, <2>6, <3>1
  <2> QED
    BY <2>1, <2>5, <2>6
<1>8. CASE DataArrives
  <2>1. /\ line = "scout" /\ line' = "busy" /\ exchange' = exchange /\ task' = task
        /\ Post(Frame(n, "data")) \/ UNCHANGED <<rxQueue, overflowed>>
    BY <1>8 DEF DataArrives
  <2>2. n \in 1..MaxExchanges
    BY <1>1, <1>2, <2>1 DEF ReceiverTyped
  <2>3. \A p \in Packets : Ends(p, line, n) => Ends(p, line', Len(exchange'))
    BY <2>1 DEF Ends
  <2>4. CASE Post(Frame(n, "data"))
    <3>1. Frame(n, "data") \in Packets
      BY <2>2, FramesArePackets
    <3>2. Ends(Frame(n, "data"), line', Len(exchange'))
      BY <2>1 DEF Ends
    <3>3. \A p \in Packets : Ends(p, line, n) => Follows(p, Frame(n, "data"))
      BY <2>1 DEF Ends, Follows
    <3> QED
      BY <1>4, <2>1, <2>4, <3>1, <3>2, <3>3
  <2> QED
    BY <1>5, <2>1, <2>3, <2>4
<1>9. CASE LineFallsIdle
  <2>1. IdleReport \in Packets /\ ~IsFrame(IdleReport)
    BY FramesArePackets
  <2>2. /\ Ends(IdleReport, line', Len(exchange'))
        /\ \A p \in Packets : Ends(p, line, n) => Follows(p, IdleReport)
    BY <2>1 DEF Ends, Follows
  <2> QED
    BY <1>4, <1>9, <2>1, <2>2 DEF LineFallsIdle
<1>10. CASE PostShutdown
  <2>1. /\ UNCHANGED <<line, exchange, task, overflowed>> /\ rxQueue' = Append(rxQueue, Shutdown)
    BY <1>10 DEF PostShutdown, Queue, lineVars, history
  <2>2. Shutdown \in Packets /\ ~IsFrame(Shutdown)
    BY FramesArePackets
  <2>3. /\ Ends(Shutdown, line, n)
        /\ \A p \in Packets : Ends(p, line, n) => Follows(p, Shutdown)
    BY <2>2 DEF Ends, Follows
  <2>4. Paired
    BY <1>1, <2>1
  <2>5. /\ Chain(rxQueue', line, n)
        /\ \A p \in Packets : LeadsInto(p, rxQueue, line, n) => LeadsInto(p, rxQueue', line, n)
    BY <1>2, <2>1, <2>2, <2>3, <2>4, ChainAppend DEF Paired
  <2> QED
    BY <1>3, <2>1, <2>4, <2>5 DEF Paired, HasScout
<1>11. ASSUME UNCHANGED <<line, exchange, overflowed>>,
              UNCHANGED rxQueue \/ (rxQueue # <<>> /\ rxQueue' = Tail(rxQueue)), ~HasScout(task')
       PROVE  Paired'
  BY <1>6, <1>11 DEF HasScout, Routed
<1>12. CASE StopEconetRx
  BY <1>11, <1>12, TasksAtRest DEF StopEconetRx, lineVars
<1>13. CASE TakeScout
  <2>1. UNCHANGED <<line, exchange, overflowed>> /\ task.pc = "scout"
    BY <1>13 DEF TakeScout, taskOnly, lineVars
  <2>2. rxQueue # <<>> /\ rxQueue' = Tail(rxQueue)
    BY <1>13 DEF TakeScout
  <2>3. CASE task' = task
    BY <1>11, <2>1, <2>2, <2>3 DEF HasScout
  <2>4. CASE task'.pc = "data" /\ task'.scout = rxQueue[1]
    <3>1. LeadsInto(rxQueue[1], rxQueue', line, n)
      BY <1>1, <1>2, <2>1, <2>2, ChainTail DEF Paired
    <3> QED
      BY <1>6, <2>1, <2>2, <2>4, <3>1 DEF Routed
  <2> QED
    BY <1>1, <1>13, <2>3, <2>4, TakeScoutType
<1>14. CASE TakeData
  <2>1. UNCHANGED <<line, exchange, overflowed>> /\ task.pc = "data"
    BY <1>14 DEF TakeData, taskOnly, lineVars
  <2>2. rxQueue # <<>> /\ rxQueue' = Tail(rxQueue)
    BY <1>14 DEF TakeData
  <2>3. CASE task' = Begin
    BY <1>11, <2>1, <2>2, <2>3, TasksAtRest
  <2>4. CASE task'.pc = "route" /\ task'.scout = task.scout /\ task'.data = rxQueue[1]
             /\ IsFrame(rxQueue[1])
    <3>1. Follows(task.scout, rxQueue[1])
      BY <1>1, <2>1, <2>2 DEF Paired, LeadsInto
    <3>2. IsFrame(task.scout)
      BY <1>1, <2>1, ScoutInHand DEF HasScout
    <3>3. task'.data = Frame(task'.scout.ex, "data")
      BY <2>4, <3>1, <3>2 DEF Follows
    <3> QED
      BY <1>6, <2>1, <2>2, <2>4, <3>3
  <2> QED
    BY <1>1, <1>14, <2>3, <2>4, TakeDataType
<1>15. CASE DataTimesOut
  BY <1>11, <1>15, TasksAtRest DEF DataTimesOut, taskOnly, lineVars
<1>16. ASSUME UNCHANGED <<line, exchange, rxQueue, overflowed>>, Routed(task), Routed(task'),
              task'.scout = task.scout, task'.data = task.data
       PROVE  Paired'
  BY <1>1, <1>6, <1>16 DEF Paired, Routed
<1>17. CASE RouteToTrunk
  <2>1. PICK t \in TrunkFor(Packet.dst[1]) : StartSending(t, t)
    BY <1>17 DEF RouteToTrunk
  <2>2. t \in FarEnds /\ t \in {0} \cup Trunks
    BY DEF TrunkFor, FarEnds
  <2>3. task.pc = "route" /\ UNCHANGED <<line, exchange, rxQueue, overflowed>>
    BY <1>17 DEF RouteToTrunk, taskOnly, lineVars
  <2> QED
    BY <1>1, <1>16, <2>1, <2>2, <2>3, StartSendingType DEF Routed, OutboundInv
<1>18. CASE RouteToHost
  <2>1. task.pc = "route" /\ UNCHANGED <<line, exchange, rxQueue, overflowed>>
    BY <1>18 DEF RouteToHost, taskOnly, lineVars
  <2>2. CASE StartSending(Packet.dst[2], 0) /\ Packet.dst[2] \in config.hosts
    <3>1. Packet.dst[2] \in FarEnds /\ 0 \in {0} \cup Trunks
      BY <2>2, ConfigParts DEF FarEnds, OutboundInv, UdpTyped
    <3> QED
      BY <1>1, <1>16, <2>1, <2>2, <3>1, StartSendingType DEF Routed, OutboundInv
  <2>3. CASE task' = Begin
    BY <1>11, <2>1, <2>3, TasksAtRest
  <2> QED
    BY <1>18, <2>2, <2>3 DEF RouteToHost
<1>19. CASE SendPacket
  <2>1. task.pc = "send" /\ UNCHANGED <<line, exchange, rxQueue, overflowed>>
    BY <1>19 DEF SendPacket, taskOnly, lineVars
  <2> QED
    BY <1>1, <1>16, <1>19, <2>1, SendPacketType DEF Routed
<1>20. CASE TakeAck \/ AckTimesOut
  <2>1. UNCHANGED <<line, exchange, rxQueue, overflowed>>
    BY <1>20 DEF TakeAck, AckTimesOut, taskOnly, lineVars
  <2>2. CASE task' = Begin
    BY <1>11, <2>1, <2>2, TasksAtRest
  <2>3. CASE task.pc = "wait" /\ task'.pc \in {"send", "wait"} /\ task'.scout = task.scout
             /\ task'.data = task.data
    BY <1>16, <2>1, <2>3 DEF Routed
  <2> QED
    BY <1>1, <1>20, <2>2, <2>3, AwaitType
<1>21. CASE Rebuild
  BY <1>11, <1>21, TasksAtRest DEF Rebuild, lineVars, history
<1>22. ASSUME UNCHANGED <<line, exchange, rxQueue, task, overflowed>> PROVE Paired'
  BY <1>5, <1>22
<1>23. CASE LearnNetworks \/ StopUdpRx \/ StopReceiving \/ StopUdp
            \/ (\E f \in FarEnds : SignalAck(f)) \/ (\E t \in Trunks : ForgetNetworks(t))
            \/ (\E f \in FarEnds : FarEndReceives(f))
  BY <1>22, <1>23 DEF LearnNetworks, StopUdpRx, StopReceiving, StopUdp, SignalAck,
                      ForgetNetworks, FarEndReceives, lineVars, history
<1>24. CASE UNCHANGED vars
  BY <1>22, <1>24 DEF vars, lineVars, history
<1> QED
  BY <1>7, <1>8, <1>9, <1>10, <1>12, <1>13, <1>14, <1>15, <1>17, <1>18, <1>19, <1>20, <1>21,
     <1>23, <1>24 DEF Next, Line, EconetRxTask, UdpTask, Controller

-----------------------------------------------------------------------------
(* The tasks and the controller take turns. *)

LEMMA ControlledKept ==
    ASSUME OutboundInv, [Next]_vars PROVE Controlled'
<1>1. ReceiverTyped /\ TaskTyped /\ Controlled
  BY DEF OutboundInv
<1>2. rxQueue \in Seq(Packets)
  BY <1>1 DEF ReceiverTyped
<1>3. ASSUME UNCHANGED <<ctl, udp>>,
             task'.pc = "gone" <=> task.pc = "gone",
             \/ UNCHANGED rxQueue
             \/ rxQueue # <<>> /\ rxQueue' = Tail(rxQueue)
             \/ \E x \in Packets : x.type # "S" /\ rxQueue' = Append(rxQueue, x)
      PROVE  Controlled'
  <2>1. /\ \A i \in DOMAIN rxQueue' : rxQueue'[i].type = "S" => ctl = "awaitEconet"
        /\ \A i, j \in DOMAIN rxQueue' :
              rxQueue'[i].type = "S" /\ rxQueue'[j].type = "S" => i = j
    <3>1. CASE UNCHANGED rxQueue
      BY <1>1, <3>1 DEF Controlled
    <3>2. CASE rxQueue # <<>> /\ rxQueue' = Tail(rxQueue)
      <4>1. \A i \in DOMAIN rxQueue' : i \in Int /\ i + 1 \in DOMAIN rxQueue
                                       /\ rxQueue'[i] = rxQueue[i + 1]
        BY <1>2, <3>2, TakenPlaces
      <4>2. \A i, j \in DOMAIN rxQueue' : i + 1 = j + 1 => i = j
        BY <4>1
      <4> QED
        BY <1>1, <4>1, <4>2 DEF Controlled
    <3>3. CASE \E x \in Packets : x.type # "S" /\ rxQueue' = Append(rxQueue, x)
      <4>1. PICK x \in Packets : x.type # "S" /\ rxQueue' = Append(rxQueue, x)
        BY <3>3
      <4>2. \A i \in DOMAIN rxQueue' : rxQueue'[i].type = "S" =>
               i \in DOMAIN rxQueue /\ rxQueue'[i] = rxQueue[i]
        BY <1>2, <4>1, AppendedPlaces
      <4> QED
        BY <1>1, <4>2 DEF Controlled
    <3> QED
      BY <1>3, <3>1, <3>2, <3>3
  <2> QED
    BY <1>1, <1>3, <2>1 DEF Controlled
<1>4. ASSUME NEW p \in Packets, p.type # "S", Post(p), UNCHANGED <<ctl, udp, task>>
      PROVE  Controlled'
  BY <1>3, <1>4, SentOrKept DEF Post
<1>5. CASE ScoutArrives
  <2>1. PICK e \in Exchange :
           /\ exchange' = Append(exchange, e)
           /\ \/ Post(Frame(Len(exchange) + 1, "scout"))
              \/ UNCHANGED <<rxQueue, overflowed>>
    BY <1>5 DEF ScoutArrives
  <2>2. Len(exchange) + 1 \in 1..MaxExchanges
    BY <1>1, <1>5, Measures, OutboundConstants DEF ScoutArrives, ReceiverTyped
  <2>3. UNCHANGED <<ctl, udp, task>>
    BY <1>5 DEF ScoutArrives, ctlVars, udpVars
  <2> QED
    BY <1>3, <1>4, <2>1, <2>2, <2>3, FramesArePackets
<1>6. CASE DataArrives
  <2>1. /\ line = "scout" /\ UNCHANGED <<ctl, udp, task>>
        /\ Post(Frame(Len(exchange), "data")) \/ UNCHANGED <<rxQueue, overflowed>>
    BY <1>6 DEF DataArrives, ctlVars, udpVars
  <2>2. Len(exchange) \in 1..MaxExchanges
    BY <1>1, <2>1, Measures DEF ReceiverTyped
  <2> QED
    BY <1>3, <1>4, <2>1, <2>2, FramesArePackets
<1>7. CASE LineFallsIdle
  <2>1. UNCHANGED <<ctl, udp, task>> /\ Post(IdleReport)
    BY <1>7 DEF LineFallsIdle, ctlVars, udpVars
  <2> QED
    BY <1>4, <2>1, FramesArePackets
<1>8. CASE StopEconetRx
  <2>1. /\ rxQueue # <<>> /\ rxQueue[1].type = "S" /\ rxQueue' = Tail(rxQueue)
        /\ ctl = "awaitEconet" /\ ctl' = "stopUdp" /\ udp' = udp /\ task' = Ended
    BY <1>2, <1>8, TakenPlaces DEF StopEconetRx, udpVars
  <2>2. /\ 1 \in DOMAIN rxQueue
        /\ \A i \in DOMAIN rxQueue' : i + 1 \in DOMAIN rxQueue /\ i + 1 # 1
                                      /\ rxQueue'[i] = rxQueue[i + 1]
    BY <1>2, <2>1, TakenPlaces
  <2>3. \A i \in DOMAIN rxQueue' : rxQueue'[i].type # "S"
    BY <1>1, <2>1, <2>2 DEF Controlled
  <2> QED
    BY <1>1, <2>1, <2>3, TasksAtRest DEF Controlled
<1>9. CASE TakeScout
  <2>1. /\ UNCHANGED <<ctl, udp>> /\ rxQueue # <<>> /\ rxQueue' = Tail(rxQueue)
        /\ task.pc = "scout"
    BY <1>9 DEF TakeScout, taskOnly, udpVars
  <2>2. task' = task \/ task'.pc = "data"
    BY <1>1, <1>9, TakeScoutType
  <2> QED
    BY <1>3, <2>1, <2>2
<1>10. CASE TakeData
  <2>1. /\ UNCHANGED <<ctl, udp>> /\ rxQueue # <<>> /\ rxQueue' = Tail(rxQueue)
        /\ task.pc = "data"
    BY <1>10 DEF TakeData, taskOnly, udpVars
  <2>2. task' = Begin \/ task'.pc = "route"
    BY <1>1, <1>10, TakeDataType
  <2> QED
    BY <1>3, <2>1, <2>2, TasksAtRest
<1>11. CASE DataTimesOut
  BY <1>3, <1>11, TasksAtRest DEF DataTimesOut, taskOnly, udpVars
<1>12. CASE RouteToTrunk
  <2>1. PICK t \in TrunkFor(Packet.dst[1]) : StartSending(t, t)
    BY <1>12 DEF RouteToTrunk
  <2>2. t \in FarEnds /\ t \in {0} \cup Trunks
    BY DEF TrunkFor, FarEnds
  <2>3. task.pc = "route" /\ UNCHANGED <<ctl, udp, rxQueue>>
    BY <1>12 DEF RouteToTrunk, taskOnly, udpVars
  <2>4. task'.pc = "send"
    BY <1>1, <2>1, <2>2, <2>3, StartSendingType DEF OutboundInv
  <2> QED
    BY <1>3, <2>3, <2>4
<1>13. CASE RouteToHost
  <2>1. task.pc = "route" /\ UNCHANGED <<ctl, udp, rxQueue>>
    BY <1>13 DEF RouteToHost, taskOnly, udpVars
  <2>2. CASE StartSending(Packet.dst[2], 0) /\ Packet.dst[2] \in config.hosts
    <3>1. Packet.dst[2] \in FarEnds /\ 0 \in {0} \cup Trunks
      BY <2>2, ConfigParts DEF FarEnds, OutboundInv, UdpTyped
    <3>2. task'.pc = "send"
      BY <1>1, <2>1, <2>2, <3>1, StartSendingType DEF OutboundInv
    <3> QED
      BY <1>3, <2>1, <3>2
  <2>3. CASE task' = Begin
    BY <1>3, <2>1, <2>3, TasksAtRest
  <2> QED
    BY <1>13, <2>2, <2>3 DEF RouteToHost
<1>14. CASE SendPacket
  <2>1. task.pc = "send" /\ UNCHANGED <<ctl, udp, rxQueue>>
    BY <1>14 DEF SendPacket, taskOnly, udpVars
  <2>2. task'.pc = "wait"
    BY <1>1, <1>14, SendPacketType
  <2> QED
    BY <1>3, <2>1, <2>2
<1>15. CASE TakeAck \/ AckTimesOut
  <2>1. task.pc = "wait" /\ UNCHANGED <<ctl, udp, rxQueue>>
    BY <1>15 DEF TakeAck, AckTimesOut, taskOnly, udpVars
  <2>2. task' = Begin \/ task'.pc \in {"send", "wait"}
    BY <1>1, <1>15, AwaitType
  <2> QED
    BY <1>3, <2>1, <2>2, TasksAtRest
<1>16. CASE PostShutdown
  <2>1. /\ ctl = "post" /\ ctl' = "awaitEconet" /\ UNCHANGED <<udp, task>>
        /\ rxQueue' = Append(rxQueue, Shutdown)
    BY <1>16 DEF PostShutdown, Queue, udpVars
  <2>2. Shutdown \in Packets
    BY FramesArePackets
  <2>3. \A i \in DOMAIN rxQueue' : i = Len(rxQueue) + 1
                                   \/ (i \in DOMAIN rxQueue /\ rxQueue'[i] = rxQueue[i])
    BY <1>2, <2>1, <2>2, AppendedPlaces
  <2>4. \A i \in DOMAIN rxQueue' : rxQueue'[i].type = "S" => i = Len(rxQueue) + 1
    BY <1>1, <2>1, <2>3 DEF Controlled
  <2> QED
    BY <1>1, <2>1, <2>4 DEF Controlled
<1>17. CASE Rebuild
  <2>1. /\ ctl = "rebuild" /\ ctl' = "running" /\ rxQueue' = rxQueue /\ task' = Begin
        /\ udp'.pc = "select"
    BY <1>17 DEF Rebuild
  <2> QED
    BY <1>1, <2>1, TasksAtRest DEF Controlled
<1>18. CASE StopUdpRx
  <2>1. /\ ctl = "awaitUdp" /\ ctl' = "rebuild" /\ udp'.pc = "gone" /\ UNCHANGED <<task, rxQueue>>
    BY <1>18 DEF StopUdpRx
  <2> QED
    BY <1>1, <2>1 DEF Controlled
<1>19. CASE StopUdp
  <2>1. /\ ctl = "stopUdp" /\ ctl' = "awaitUdp" /\ UNCHANGED <<udp, task, rxQueue>>
    BY <1>19 DEF StopUdp, udpVars
  <2> QED
    BY <1>1, <2>1 DEF Controlled
<1>20. CASE StopReceiving
  <2>1. /\ ctl = "running" /\ ctl' = "post" /\ UNCHANGED <<udp, task, rxQueue>>
    BY <1>20 DEF StopReceiving, udpVars
  <2> QED
    BY <1>1, <2>1 DEF Controlled
<1>21. CASE LearnNetworks
  <2>1. /\ udp.pc = "update" /\ udp'.pc = "select" /\ UNCHANGED <<ctl, task, rxQueue>>
    BY <1>21 DEF LearnNetworks, ctlVars
  <2> QED
    BY <1>1, <2>1 DEF Controlled
<1>22. ASSUME NEW t \in Trunks, ForgetNetworks(t) PROVE Controlled'
  <2>1. /\ udp.pc = "select" /\ udp'.pc = "update" /\ UNCHANGED <<ctl, task, rxQueue>>
    BY <1>22 DEF ForgetNetworks, ctlVars
  <2> QED
    BY <1>1, <2>1 DEF Controlled
<1>23. CASE (\E f \in FarEnds : SignalAck(f)) \/ (\E f \in FarEnds : FarEndReceives(f))
  BY <1>3, <1>23 DEF SignalAck, FarEndReceives, udpVars, ctlVars
<1>24. CASE UNCHANGED vars
  BY <1>3, <1>24 DEF vars, udpVars, ctlVars
<1> QED
  BY <1>5, <1>6, <1>7, <1>8, <1>9, <1>10, <1>11, <1>12, <1>13, <1>14, <1>15, <1>16, <1>17,
     <1>18, <1>19, <1>20, <1>21, <1>22, <1>23, <1>24
     DEF Next, Line, EconetRxTask, UdpTask, Controller

LEMMA ListeningKept ==
    ASSUME OutboundInv, [Next]_vars PROVE Listening'
<1>1. /\ Listening /\ nets \in [Trunks -> SUBSET Nets] /\ config \in Configs
      /\ config.trunks \subseteq Trunks
      /\ (udp.pc = "update" => udp.trunk \in Trunks)
  BY OutboundConstants DEF OutboundInv, UdpTyped
<1>2. ASSUME netBits' = {}, UNCHANGED <<udp, nets, config>> PROVE Listening'
  BY <1>1, <1>2 DEF Listening
<1>3. CASE StopEconetRx \/ StopReceiving
  BY <1>2, <1>3 DEF StopEconetRx, StopReceiving, udpVars
<1>4. CASE LearnNetworks
  <2>1. /\ udp.trunk \in config.trunks /\ udp.trunk \in Trunks
        /\ config' = config /\ udp'.pc = "select"
        /\ nets' = [nets EXCEPT ![udp.trunk] = udp.announced]
        /\ netBits' = UNION {nets'[t] : t \in Trunks}
    BY <1>1, <1>4 DEF LearnNetworks, Aggregate, Listening, ctlVars
  <2>2. ASSUME SameTrunks, NEW t \in Trunks, nets'[t] # {}
        PROVE  OfSuchAsOpen(t) /\ t \in config.trunks
    <3>1. CASE t = udp.trunk
      <4>1. \A c \in Configs : c.trunks = {} \/ c.trunks = config.trunks
        BY <1>1, <2>1, <2>2 DEF SameTrunks
      <4> QED
        BY <2>1, <3>1, <4>1 DEF OfSuchAsOpen
    <3>2. CASE t # udp.trunk
      <4>1. nets[t] # {}
        BY <1>1, <2>1, <2>2, <3>2
      <4> QED
        BY <1>1, <2>1, <2>2, <4>1 DEF Listening, OfSuchAsOpen
    <3> QED
      BY <3>1, <3>2
  <2>3. ASSUME SameTrunks PROVE netBits' \subseteq UNION {nets'[t] : t \in config'.trunks}
    BY <2>1, <2>2, <2>3
  <2>4. SameTrunks => \A t \in Trunks : nets'[t] # {} => OfSuchAsOpen(t)
    BY <2>2
  <2> QED
    BY <2>1, <2>3, <2>4 DEF Listening, OfSuchAsOpen
<1>5. CASE StopUdpRx
  BY <1>1, <1>5 DEF StopUdpRx, Listening
<1>6. ASSUME NEW t \in Trunks, ForgetNetworks(t) PROVE Listening'
  <2>1. /\ nets' = [nets EXCEPT ![t] = {}] /\ config' = config
        /\ udp'.pc = "update" /\ udp'.trunk \in config'.trunks
    BY <1>6 DEF ForgetNetworks, ctlVars
  <2>2. \A u \in Trunks : nets'[u] # {} => nets[u] # {}
    BY <1>1, <2>1
  <2> QED
    BY <1>1, <2>1, <2>2 DEF Listening
<1>7. CASE Rebuild
  <2>1. /\ udp' = [pc |-> "select"] /\ netBits' = {}
        /\ \A u \in Trunks : nets'[u] # {} => nets[u] # {}
    BY <1>1, <1>7 DEF Rebuild, NetsAfter, NetBitsAfter
  <2> QED
    BY <1>1, <2>1 DEF Listening
<1>8. ASSUME UNCHANGED <<udp, nets, netBits, config>> PROVE Listening'
  BY <1>1, <1>8 DEF Listening
<1>9. CASE ScoutArrives \/ DataArrives \/ LineFallsIdle \/ PostShutdown \/ StopUdp
           \/ (\E f \in FarEnds : SignalAck(f)) \/ (\E f \in FarEnds : FarEndReceives(f))
  BY <1>8, <1>9 DEF ScoutArrives, DataArrives, LineFallsIdle, PostShutdown, StopUdp, SignalAck,
                    FarEndReceives, udpVars, ctlVars
<1>10. CASE TakeScout \/ TakeData \/ DataTimesOut \/ RouteToTrunk \/ RouteToHost \/ SendPacket
           \/ TakeAck \/ AckTimesOut
  BY <1>8, <1>10 DEF TakeScout, TakeData, DataTimesOut, RouteToTrunk, RouteToHost, SendPacket,
                    TakeAck, AckTimesOut, taskOnly, udpVars
<1>11. CASE UNCHANGED vars
  BY <1>8, <1>11 DEF vars, udpVars, ctlVars
<1> QED
  BY <1>3, <1>4, <1>5, <1>6, <1>7, <1>9, <1>10, <1>11
     DEF Next, Line, EconetRxTask, UdpTask, Controller

-----------------------------------------------------------------------------
(* The invariant, and what follows. *)

LEMMA OutboundInitially == Init => OutboundInv
<1> SUFFICES ASSUME Init PROVE OutboundInv
  OBVIOUS
<1> USE DEF Init
<1>1. rxQueue = <<>> /\ DOMAIN rxQueue = {} /\ exchange \in Seq(Exchange) /\ Len(exchange) = 0
      /\ rxQueue \in Seq(Packets) /\ ackQueue \in Seq(Nat) /\ Len(rxQueue) = 0 /\ Len(ackQueue) = 0
  BY EmptySeq
<1>2. ReceiverTyped
  <2>1. stationBits \subseteq AunHosts /\ netBits \subseteq Nets
    BY ConfigParts
  <2>2. line = "idle" /\ overflowed = FALSE /\ 0 <= MaxExchanges /\ 0 <= RxQueueLen
    BY OutboundConstants
  <2> QED
    BY <1>1, <2>1, <2>2 DEF ReceiverTyped
<1>3. task = Begin /\ task.pc = "scout"
  BY TasksAtRest
<1>4. TaskTyped
  BY <1>3, TasksAtRest, OutboundConstants DEF TaskTyped
<1>5. UdpTyped
  BY <1>1, OutboundConstants DEF UdpTyped
<1>6. FarTyped
  BY EmptySeq DEF FarTyped
<1>7. QueueOrder
  BY <1>1, <1>3, TasksAtRest DEF QueueOrder, Limit, Rising
<1>8. \A f \in FarEnds : DOMAIN flight[f] = {} /\ DOMAIN taken[f] = {} /\ taken[f] = <<>>
  BY EmptySeq
<1>9. PastOrder
  <2>1. Under(number, flight, taken, Len(exchange) + 1)
    BY <1>1, <1>8 DEF Under
  <2> QED
    BY <1>1, <1>3, <2>1, TasksAtRest DEF PastOrder
<1>10. SendOrder
  BY <1>3, <1>8 DEF SendOrder, Orderly, Sending
<1>11. Paired
  BY <1>1, <1>3 DEF Paired, Chain, Routed
<1>12. Controlled
  BY <1>1, <1>3 DEF Controlled
<1>13. Listening
  BY DEF Listening
<1> HIDE DEF Init
<1> QED
  BY <1>2, <1>4, <1>5, <1>6, <1>7, <1>9, <1>10, <1>11, <1>12, <1>13 DEF OutboundInv

LEMMA OutboundKept ==
    ASSUME OutboundInv, [Next]_vars PROVE OutboundInv'
BY ReceiverTypedKept, TaskTypedKept, UdpTypedKept, FarTypedKept, QueueOrderKept, PastOrderKept,
   SendOrderKept, PairedKept, ControlledKept, ListeningKept, Zenon
   DEF OutboundInv

LEMMA OutboundAlways == Spec => []OutboundInv
<1>1. OutboundInv /\ [Next]_vars => OutboundInv'
  BY OutboundKept
<1> QED
  BY <1>1, OutboundInitially, PTL DEF Spec

(* Whatever frames are dropped, repeated headers are sent and data frames  *)
(* stay away, the task of aun_bridge.c that pairs scouts with data frames  *)
(* sends no packet made of two exchanges, unless the queue overflowed.     *)
THEOREM PairsOwnFrames == Spec => []OwnScout
<1>1. OutboundInv => OwnScout
  BY DEF OutboundInv, Paired, Routed, OwnScout
<1> QED
  BY <1>1, OutboundAlways, PTL

(* However often _send_aun_packet repeats a packet, each far end takes     *)
(* what it takes in the stations' order, and nothing twice.                *)
THEOREM TakenInOrderOnce == Spec => []InOrderOnce
<1>1. OutboundInv => InOrderOnce
  BY DEF OutboundInv, SendOrder, Orderly, InOrderOnce
<1> QED
  BY <1>1, OutboundAlways, PTL

LEMMA TypesHold == ASSUME OutboundInv PROVE TypeOK
<1> USE DEF OutboundInv
<1>1. /\ line \in {"idle", "scout", "busy"} /\ exchange \in Seq(Exchange)
      /\ Len(exchange) <= MaxExchanges /\ stationBits \subseteq AunHosts
      /\ netBits \subseteq Nets /\ Len(rxQueue) <= RxQueueLen
      /\ \A i \in DOMAIN rxQueue : rxQueue[i] \in Packets
  BY ElementType DEF ReceiverTyped
<1>2. /\ task \in Tasks /\ number \in [{0} \cup Trunks -> 0..MaxExchanges]
      /\ complete \subseteq 1..MaxExchanges /\ handled \subseteq 1..MaxExchanges
  BY DEF TaskTyped
<1>3. /\ task.pc \in {"scout", "data", "route", "send", "wait", "gone"}
      /\ task.scout \in Packets \cup {None} /\ task.data \in Packets \cup {None}
      /\ task.far \in FarEnds \cup {0} /\ task.tries \in 0..Tries
      /\ task.receipts \in 0..Receipts /\ task.layers \in 0..Tries
  BY <1>2 DEF Tasks
<1>4. /\ udp.pc \in {"select", "update", "gone"} /\ Len(ackQueue) <= AckQueueLen
      /\ nets \in [Trunks -> SUBSET Nets] /\ config \in Configs
      /\ ctl \in {"running", "post", "awaitEconet", "stopUdp", "awaitUdp", "rebuild"}
  BY DEF UdpTyped
<1>5. \A f \in FarEnds : taken[f] \in Seq(Datagram)
  BY DEF FarTyped
<1>6. \A f \in FarEnds : \A i \in DOMAIN taken[f] : taken[f][i] \in Datagram
  BY <1>5, ElementType
<1> HIDE DEF OutboundInv
<1> QED
  BY <1>1, <1>2, <1>3, <1>4, <1>6 DEF TypeOK

(* The receiver's network bits, written by _aunbridge_udp_rx and cleared   *)
(* by econet_rx_shutdown and aunbridge_reconfigure in any order, never     *)
(* name a network that no open trunk leads to, where the configurations    *)
(* have the same trunks or none.                                           *)
THEOREM AcceptsOnlyRouted ==
    ASSUME SameTrunks PROVE Spec => []ListensWhereRouted
<1>1. OutboundInv => ListensWhereRouted
  BY SameTrunks, TypesHold DEF OutboundInv, Listening, ListensWhereRouted
<1> QED
  BY <1>1, OutboundAlways, PTL

(* aunbridge_reconfigure replaces sockets and tables only when both tasks  *)
(* have ended, and a request to stop never outlives the reconfiguration.   *)
THEOREM RebuildsInPeace == Spec => []QuietWhileRebuilt
<1>1. ASSUME OutboundInv, NEW i \in DOMAIN rxQueue, rxQueue[i] = Shutdown
      PROVE  ctl = "awaitEconet"
  BY <1>1, FramesArePackets DEF OutboundInv, Controlled
<1>2. OutboundInv => QuietWhileRebuilt
  BY <1>1 DEF OutboundInv, Controlled, QuietWhileRebuilt
<1> QED
  BY <1>2, OutboundAlways, PTL
===============================================================================
