---------------------------- MODULE EconetProofs ----------------------------
(***************************************************************************)
(* Theorems about module Econet, for every value of its constants.         *)
(***************************************************************************)
EXTENDS Econet, Integers, SequenceTheorems, TLAPS

(* Queues: their types, their elements, and where those are. *)
LEMMA QueueSendType ==
    ASSUME NEW T, NEW q \in Seq(T), NEW x \in T, NEW cap \in Nat, Len(q) <= cap
    PROVE  /\ QueueSend(q, cap, x) \in Seq(T)
           /\ Len(QueueSend(q, cap, x)) <= cap
BY AppendProperties DEF QueueSend

LEMMA TailType ==
    ASSUME NEW T, NEW q \in Seq(T), q # <<>>
    PROVE  /\ Head(q) \in T
           /\ Tail(q) \in Seq(T)
           /\ Len(Tail(q)) = Len(q) - 1
BY HeadTailProperties

LEMMA ElementType ==
    ASSUME NEW T, NEW q \in Seq(T), NEW i \in DOMAIN q PROVE q[i] \in T
BY LenProperties, ElementOfSeq

LEMMA SentElements ==
    ASSUME NEW T, NEW q \in Seq(T), NEW x \in T, NEW cap \in Nat
    PROVE  \A i \in DOMAIN QueueSend(q, cap, x) :
               \/ QueueSend(q, cap, x)[i] = x
               \/ \E j \in DOMAIN q : QueueSend(q, cap, x)[i] = q[j]
BY AppendProperties, LenProperties DEF QueueSend

LEMMA AppendedElements ==
    ASSUME NEW T, NEW q \in Seq(T), NEW x \in T
    PROVE  \A i \in DOMAIN Append(q, x) :
               Append(q, x)[i] = x \/ \E j \in DOMAIN q : Append(q, x)[i] = q[j]
BY AppendProperties, LenProperties

LEMMA TakenElements ==
    ASSUME NEW T, NEW q \in Seq(T), q # <<>>
    PROVE  /\ \E j \in DOMAIN q : Head(q) = q[j]
           /\ \A i \in DOMAIN Tail(q) : \E j \in DOMAIN q : Tail(q)[i] = q[j]
BY HeadTailProperties, LenProperties, EmptySeq

LEMMA AppendedPlaces ==
    ASSUME NEW T, NEW q \in Seq(T), NEW x \in T
    PROVE  /\ Append(q, x) \in Seq(T) /\ Append(q, x) # <<>>
           /\ Len(q) \in Nat /\ DOMAIN q = 1..Len(q)
           /\ Len(Append(q, x)) = Len(q) + 1
           /\ DOMAIN Append(q, x) = 1..(Len(q) + 1)
           /\ \A i \in DOMAIN q : Append(q, x)[i] = q[i]
           /\ Append(q, x)[Len(q) + 1] = x
BY AppendProperties, LenProperties, EmptySeq

LEMMA TakenPlaces ==
    ASSUME NEW T, NEW q \in Seq(T), q # <<>>
    PROVE  /\ Tail(q) \in Seq(T) /\ Head(q) = q[1] /\ q[1] \in T
           /\ Len(q) \in Nat /\ Len(q) >= 1 /\ DOMAIN q = 1..Len(q)
           /\ Len(Tail(q)) = Len(q) - 1
           /\ DOMAIN Tail(q) = 1..(Len(q) - 1)
           /\ \A i \in 1..(Len(q) - 1) : Tail(q)[i] = q[i + 1]
BY HeadTailProperties, LenProperties, EmptySeq

LEMMA RecordTypes ==
    /\ NoFrame \in Frame
    /\ NoPacket \in Packet
    /\ \A c \in {"S", "A", "a", "I", "R"}, f \in Frame : IsrCommand(c, f) \in Command
    /\ \A k \in AllKinds : SendCommand(k) \in Command
    /\ \A t \in {"P", "I"}, f \in Frame : [type |-> t, frame |-> f] \in Packet
    /\ \A r \in AckType, f \in Frame : [ret |-> r, imm |-> f] \in Result
BY EconetConstants
   DEF NoFrame, Frame, NoPacket, Packet, IsrCommand, SendCommand, Command, Result, AllKinds

-----------------------------------------------------------------------------
(* Type correctness.  A call under way has been recorded in calls. *)

TypeInv ==
    /\ TypeOK
    /\ snd_pc # "idle" => calls # <<>>

LEMMA TypeInit == Init => TypeInv
<1> SUFFICES ASSUME Init PROVE TypeInv
  OBVIOUS
<1>1. /\ <<>> \in Seq(Packet) /\ <<>> \in Seq(Command)
      /\ <<>> \in Seq(AllKinds) /\ <<>> \in Seq(Result)
  BY EmptySeq
<1>2. RxTypeOK
  BY <1>1, EconetConstants, RecordTypes DEF Init, RxTypeOK
<1>3. TxTypeOK
  BY <1>1, EconetConstants, RecordTypes DEF Init, TxTypeOK, AckType, AllKinds, TxPC
<1>4. SenderTypeOK
  BY <1>1, EconetConstants DEF Init, SenderTypeOK
<1>5. WireTypeOK
  BY DEF Init, WireTypeOK
<1> QED
  BY <1>2, <1>3, <1>4, <1>5 DEF Init, TypeInv, TypeOK

(* A group of variables that does not change keeps its types. *)
LEMMA RxTypeStable == RxTypeOK /\ UNCHANGED rxSide => RxTypeOK'
BY DEF RxTypeOK, rxSide, rxVars, pktVars

LEMMA TxTypeStable == TxTypeOK /\ UNCHANGED txSide => TxTypeOK'
BY DEF TxTypeOK, txSide, txVars, cmdVars, immVars, goVars, ackVars

LEMMA SenderTypeStable ==
    /\ SenderTypeOK /\ UNCHANGED sndSide => SenderTypeOK'
    /\ UNCHANGED sndSide => UNCHANGED <<snd_pc, calls>>
BY DEF SenderTypeOK, sndSide, bitsVars, bounds

LEMMA WireTypeStable == WireTypeOK /\ UNCHANGED wireVars => WireTypeOK'
BY DEF WireTypeOK, wireVars

LEMMA TypeInterrupt == TypeInv /\ Interrupt => TypeInv'
<1> SUFFICES ASSUME TypeInv, Interrupt PROVE TypeInv'
  OBVIOUS
<1>1. SenderTypeOK' /\ UNCHANGED <<snd_pc, calls>>
  BY SenderTypeStable
     DEF TypeInv, TypeOK, Interrupt, BusActive, IdleBits, StoreByte, AckReceived, FrameReceived
<1>2. ReceivedFrame \in Frame
  BY DEF TypeInv, TypeOK, RxTypeOK, WireTypeOK, ReceivedFrame, Frame
<1>3. TxTypeOK'
  <2>1. \A c \in {"A", "a", "I", "R"}, f \in Frame :
           PostCommand(IsrCommand(c, f)) =>
               tx_command_queue' \in Seq(Command) /\ Len(tx_command_queue') <= CmdQueueLen
    BY EconetConstants, RecordTypes, QueueSendType DEF TypeInv, TypeOK, TxTypeOK, PostCommand
  <2>2. CASE BusActive \/ StoreByte
    BY <2>2, TxTypeStable DEF TypeInv, TypeOK, BusActive, StoreByte
  <2>3. CASE IdleBits
    BY <2>1, <2>3, RecordTypes
       DEF TypeInv, TypeOK, TxTypeOK, IdleBits, WireEvent, txVars, cmdVars, immVars, goVars, ackVars
  <2>4. CASE AckReceived
    BY <2>1, <2>4, RecordTypes
       DEF TypeInv, TypeOK, TxTypeOK, AckReceived, WireEvent, txVars, cmdVars, immVars, goVars, ackVars
  <2>5. CASE FrameReceived
    BY <1>2, <2>1, <2>5, RecordTypes
       DEF TypeInv, TypeOK, TxTypeOK, FrameReceived, PreGo, WireEvent, txVars, cmdVars, immVars, goVars, ackVars
  <2> QED
    BY <2>2, <2>3, <2>4, <2>5 DEF Interrupt
<1>4. RxTypeOK'
  <2>1. \A t \in {"P", "I"}, f \in Frame :
           PostPacket([type |-> t, frame |-> f]) =>
               /\ econet_rx_packet_queue' \in Seq(Packet)
               /\ Len(econet_rx_packet_queue') <= PktQueueLen
    BY EconetConstants, RecordTypes, QueueSendType DEF TypeInv, TypeOK, RxTypeOK, PostPacket
  <2>2. CASE BusActive
    BY <2>2 DEF TypeInv, TypeOK, RxTypeOK, BusActive, rxVars, pktVars
  <2>3. CASE IdleBits
    BY <2>1, <2>3, RecordTypes DEF TypeInv, TypeOK, RxTypeOK, IdleBits, rxVars
  <2>4. CASE StoreByte
    BY <2>4 DEF TypeInv, TypeOK, RxTypeOK, StoreByte, pktVars
  <2>5. CASE AckReceived
    BY <2>5, RxTypeStable DEF TypeInv, TypeOK, AckReceived
  <2>6. CASE FrameReceived
    BY <1>2, <2>1, <2>6, EconetConstants
       DEF TypeInv, TypeOK, RxTypeOK, FrameReceived, NextBuffer
  <2> QED
    BY <2>2, <2>3, <2>4, <2>5, <2>6 DEF Interrupt
<1>5. WireTypeOK'
  BY DEF TypeInv, TypeOK, WireTypeOK, Interrupt, BusActive, IdleBits, StoreByte, AckReceived,
         FrameReceived, wireVars
<1> QED
  BY <1>1, <1>3, <1>4, <1>5 DEF TypeInv, TypeOK
LEMMA TypeTxTask == TypeInv /\ TxTask => TypeInv'
<1> SUFFICES ASSUME TypeInv, TxTask PROVE TypeInv'
  OBVIOUS
<1> USE DEF TopOfLoop, ReceiveCommand, Defer, StartSend, WaitScout, WaitData, ScoutExpired,
            DataExpired, WaitExpired
<1>1. RxTypeOK'
  BY RxTypeStable DEF TypeInv, TypeOK, TxTask
<1>2. SenderTypeOK' /\ UNCHANGED <<snd_pc, calls>>
  BY SenderTypeStable DEF TypeInv, TypeOK, TxTask
<1>3. WireTypeOK'
  BY DEF TypeInv, TypeOK, WireTypeOK, TxTask, StartTransmit, PreGo, ScoutAnswer, SendData, wireVars
<1>4. TxTypeOK'
  <2> USE DEF TypeInv, TypeOK, TxTypeOK, TxRuns, txVars, cmdVars, immVars, goVars, ackVars,
              TxPC, Receiving, Transmitting, AckType, CompleteTxCommand, StartTransmit, PreGo
  <2>1. tx_command_queue # <<>> =>
           /\ Head(tx_command_queue) \in Command
           /\ Tail(tx_command_queue) \in Seq(Command)
           /\ Len(Tail(tx_command_queue)) <= CmdQueueLen
    BY EconetConstants, TailType
  <2>2. CASE TopOfLoop
    BY <2>2 DEF QueueFlagstream
  <2>3. CASE ReceiveCommand
    BY <2>1, <2>3 DEF Command
  <2>4. CASE Defer
    BY <2>4 DEF KeepData
  <2>5. CASE StartSend
    BY <2>5 DEF TakeData, AwaitReply
  <2>6. CASE WaitScout
    <3> DEFINE c == Head(tx_command_queue)
    <3>1. c.frame \in Frame
      BY <2>1, <2>6 DEF Command
    <3>2. /\ tx_command_queue' \in Seq(Command)
          /\ Len(tx_command_queue') <= CmdQueueLen
          /\ UNCHANGED <<flags, is_data_ready, tx_is_awaiting_imm_reply>>
          /\ tx_run' \in {"late", "runs", "overtaken"}
      BY <2>1, <2>6
    <3>3. ScoutAnswer(c)
      BY <2>6
    <3> HIDE DEF c
    <3>4. /\ tx_pc' \in TxPC
          /\ imm_reply' \in Frame
      BY <3>1, <3>3 DEF ScoutAnswer, TakeReply, SendData
    <3>5. /\ tx_is_in_progress' \in BOOLEAN
          /\ is_flagstream_queued' \in BOOLEAN
      BY <3>3 DEF ScoutAnswer, SendData
    <3>6. tx_sent_ack' \in AckType /\ notified' \in Nat
      BY <3>3 DEF ScoutAnswer, SendData
    <3> QED
      BY <3>2, <3>4, <3>5, <3>6
  <2>7. CASE WaitData
    BY <2>1, <2>7 DEF DataAnswer
  <2>8. CASE ScoutExpired \/ DataExpired
    BY <2>8
  <2> QED
    BY <2>2, <2>3, <2>4, <2>5, <2>6, <2>7, <2>8 DEF TxTask
<1> QED
  BY <1>1, <1>2, <1>3, <1>4 DEF TypeInv, TypeOK

LEMMA TypeTxDone == TypeInv /\ TxDone => TypeInv'
<1> SUFFICES ASSUME TypeInv, TxDone PROVE TypeInv'
  OBVIOUS
<1> USE DEF TxDone, AckSent, BroadcastSent, ScoutSent, DataSent
<1>1. RxTypeOK'
  BY RxTypeStable DEF TypeInv, TypeOK
<1>2. SenderTypeOK' /\ UNCHANGED <<snd_pc, calls>>
  BY SenderTypeStable DEF TypeInv, TypeOK
<1>3. WireTypeOK'
  BY DEF TypeInv, TypeOK, WireTypeOK, SenderTypeOK, Unanswered
<1>4. TxTypeOK'
  <2> USE DEF TypeInv, TypeOK, TxTypeOK, EndTransmit, CompleteTxCommand, QueueFlagstream, cmdVars,
              immVars, ackVars, TxPC, Receiving, AckType
  <2>1. CASE AckSent
    BY <2>1
  <2>2. CASE BroadcastSent
    <3>1. tx_sent_ack' = "ACK" /\ notified' = notified + 1
      BY <2>2
    <3>2. UNCHANGED <<tx_command_queue, cmdVars, immVars, is_flagstream_queued>>
      BY <2>2
    <3>3. tx_is_in_progress' = FALSE /\ tx_pc' = "top" /\ tx_run' = "runs"
      BY <2>2
    <3>4. tx_sent_ack' \in AckType /\ notified' \in Nat
      BY <3>1
    <3> QED
      BY <3>2, <3>3, <3>4
  <2>3. CASE ScoutSent
    BY <2>3
  <2>4. CASE DataSent
    BY <2>4
  <2> QED
    BY <2>1, <2>2, <2>3, <2>4
<1> QED
  BY <1>1, <1>2, <1>3, <1>4 DEF TypeInv, TypeOK

LEMMA TypeSender == TypeInv /\ Sender => TypeInv'
<1> SUFFICES ASSUME TypeInv, Sender PROVE TypeInv'
  OBVIOUS
<1> USE DEF Sender, Send, PostSend, PostExpired, SendReturns, SendExpired
<1>1. RxTypeOK'
  BY RxTypeStable DEF TypeInv, TypeOK
<1>2. WireTypeOK'
  BY WireTypeStable DEF TypeInv, TypeOK
<1>3. TxTypeOK'
  <2>1. CASE PostSend
    <3>1. calls[Len(calls)] \in AllKinds
      BY <2>1, ElementOfSeq, EmptySeq DEF TypeInv, TypeOK, SenderTypeOK
    <3>2. /\ tx_command_queue' \in Seq(Command)
          /\ Len(tx_command_queue') <= CmdQueueLen
      BY <2>1, <3>1, EconetConstants, RecordTypes, QueueSendType
         DEF TypeInv, TypeOK, TxTypeOK, HasRoom, QueueSend
    <3> QED
      BY <2>1, <3>2 DEF TypeInv, TypeOK, TxTypeOK, txVars, cmdVars, immVars, goVars, ackVars
  <2>2. CASE SendReturns
    BY <2>2 DEF TypeInv, TypeOK, TxTypeOK, txVars, cmdVars, immVars, goVars
  <2>3. CASE ~PostSend /\ ~SendReturns
    BY <2>3, TxTypeStable DEF TypeInv, TypeOK
  <2> QED
    BY <2>1, <2>2, <2>3
<1>4. SenderTypeOK' /\ (snd_pc' # "idle" => calls' # <<>>)
  <2> USE DEF TypeInv, TypeOK, SenderTypeOK, bounds, bitsVars
  <2>1. \A r \in AckType, f \in Frame :
           ReturnResult(r, f) => results' \in Seq(Result) /\ snd_pc' = "idle"
    BY RecordTypes, AppendProperties DEF ReturnResult
  <2>2. ASSUME NEW kind \in Kinds, Send(kind) PROVE SenderTypeOK' /\ calls' # <<>>
    <3>1. calls' \in Seq(AllKinds) /\ Len(calls') = Len(calls) + 1 /\ calls' # <<>>
      BY <2>2, EconetConstants, AppendProperties
    <3> QED
      BY <2>1, <2>2, <3>1, RecordTypes, EconetConstants DEF AckType
  <2>3. CASE PostSend
    BY <2>3
  <2>4. CASE PostExpired \/ SendExpired
    BY <2>1, <2>4, EconetConstants, RecordTypes DEF AckType
  <2>5. CASE SendReturns
    BY <2>1, <2>5, RecordTypes DEF AckType, TxTypeOK
  <2> QED
    BY <2>2, <2>3, <2>4, <2>5
<1> QED
  BY <1>1, <1>2, <1>3, <1>4 DEF TypeInv, TypeOK

LEMMA TypeRest == TypeInv /\ (Consumer \/ Wire \/ UNCHANGED vars) => TypeInv'
<1> SUFFICES ASSUME TypeInv, Consumer \/ Wire \/ UNCHANGED vars PROVE TypeInv'
  OBVIOUS
<1> USE DEF Consumer, TakePacket, ReleasePacket, Wire, OtherStarts, FrameLost, FlagsEnd, vars
<1>1. TxTypeOK'
  BY TxTypeStable DEF TypeInv, TypeOK, txSide
<1>2. RxTypeOK'
  <2>1. CASE TakePacket
    <3>1. /\ Head(econet_rx_packet_queue) \in Packet
          /\ Tail(econet_rx_packet_queue) \in Seq(Packet)
          /\ Len(Tail(econet_rx_packet_queue)) <= PktQueueLen
      BY <2>1, EconetConstants, TailType DEF TypeInv, TypeOK, RxTypeOK
    <3> QED
      BY <2>1, <3>1, RecordTypes DEF TypeInv, TypeOK, RxTypeOK, rxVars
  <2>2. CASE ReleasePacket
    BY <2>2, RecordTypes DEF TypeInv, TypeOK, RxTypeOK, rxVars
  <2>3. CASE Wire \/ UNCHANGED vars
    BY <2>3, RxTypeStable DEF TypeInv, TypeOK
  <2> QED
    BY <2>1, <2>2, <2>3
<1>3. WireTypeOK'
  BY WireTypeStable DEF TypeInv, TypeOK, WireTypeOK
<1>4. SenderTypeOK' /\ UNCHANGED <<snd_pc, calls>>
  BY SenderTypeStable, EconetConstants DEF TypeInv, TypeOK, SenderTypeOK, bitsVars
<1> QED
  BY <1>1, <1>2, <1>3, <1>4 DEF TypeInv, TypeOK

LEMMA TypeStep == TypeInv /\ [Next]_vars => TypeInv'
BY TypeInterrupt, TypeTxTask, TypeTxDone, TypeSender, TypeRest DEF Next, Finished

\* The queues stay within their capacity and every variable keeps its type, for
\* any queue lengths, buffer count, traffic and timing.
THEOREM TypeCorrect == Spec => []TypeOK
<1>1. TypeInv /\ [Next]_vars => TypeInv'
  BY TypeStep
<1>2. TypeInv => TypeOK
  BY DEF TypeInv
<1> QED
  BY <1>1, <1>2, TypeInit, PTL DEF Spec

-----------------------------------------------------------------------------
(* The ring of receive buffers.  FramesIntact is not inductive: that a     *)
(* frame survives the next byte stored needs to be known from where it     *)
(* lies.  A live frame lies as many slots behind the index as frames were  *)
(* accepted since, so fewer than BufferCount slots away and not under it.  *)

Behind(f) ==
    \/ rx_packet_buffer_index + f.stamp = f.buf + 1 + frames
    \/ rx_packet_buffer_index + f.stamp + BufferCount = f.buf + 1 + frames

Kept(f) ==
    /\ f.stamp <= frames
    /\ Live(f) => Behind(f) /\ rx_packet_buffers[f.buf] = f.stamp

Refs ==
    {p.frame : p \in Packets \cup {held}} \cup {c.frame : c \in Commands}
    \cup {imm_reply} \cup {results[i].imm : i \in DOMAIN results}

RingInv == \A f \in Refs : Kept(f)

LEMMA RefsTyped == TypeInv => Refs \subseteq Frame
<1> SUFFICES ASSUME TypeInv PROVE Refs \subseteq Frame
  OBVIOUS
<1> USE DEF TypeInv, TypeOK
<1>1. \A p \in Packets \cup {held} : p.frame \in Frame
  <2>1. econet_rx_packet_queue \in Seq(Packet) /\ held \in Packet
    BY DEF RxTypeOK
  <2>2. \A i \in DOMAIN econet_rx_packet_queue : econet_rx_packet_queue[i] \in Packet
    BY <2>1, ElementType
  <2> QED
    BY <2>1, <2>2 DEF Packets, Packet
<1>2. (\A c \in Commands : c.frame \in Frame) /\ imm_reply \in Frame
  <2>1. tx_command_queue \in Seq(Command) /\ imm_reply \in Frame
    BY DEF TxTypeOK
  <2>2. \A i \in DOMAIN tx_command_queue : tx_command_queue[i] \in Command
    BY <2>1, ElementType
  <2> QED
    BY <2>1, <2>2 DEF Commands, Command
<1>3. \A i \in DOMAIN results : results[i].imm \in Frame
  <2>1. results \in Seq(Result)
    BY DEF SenderTypeOK
  <2>2. \A i \in DOMAIN results : results[i] \in Result
    BY <2>1, ElementType
  <2> QED
    BY <2>2 DEF Result
<1> QED
  BY <1>1, <1>2, <1>3 DEF Refs

LEMMA RingGivesIntact == TypeInv /\ RingInv => FramesIntact
BY DEF TypeInv, RingInv, Refs, Kept, Intact, FramesIntact

LEMMA RingInit == Init => RingInv
<1> SUFFICES ASSUME Init PROVE RingInv
  OBVIOUS
<1>1. Refs = {NoFrame}
  BY DEF Init, Refs, Packets, Commands, NoPacket
<1> QED
  BY <1>1 DEF Init, RingInv, Kept, Live, NoFrame

(* As long as the buffers do not change, references may be copied or dropped. *)
LEMMA RingKept ==
    ASSUME TypeInv, RingInv, UNCHANGED rxVars, Refs' \subseteq Refs \cup {NoFrame}
    PROVE  RingInv'
<1> SUFFICES ASSUME NEW f \in Refs' PROVE Kept(f)'
  BY DEF RingInv
<1>1. CASE f = NoFrame
  BY <1>1 DEF NoFrame, Kept, Live, rxVars, TypeInv, TypeOK, RxTypeOK
<1>2. CASE f \in Refs
  BY <1>2 DEF RingInv, Kept, Live, Behind, rxVars
<1> QED
  BY <1>1, <1>2

(* A byte of the frame on the wire overwrites no live frame. *)
LEMMA RingStoreByte == TypeInv /\ RingInv /\ StoreByte => RingInv'
<1> SUFFICES ASSUME TypeInv, RingInv, StoreByte, NEW f \in Refs' PROVE Kept(f)'
  BY DEF RingInv
<1>1. f \in Refs
  BY DEF StoreByte, Refs, Packets, Commands, pktVars, txSide, txVars, immVars, sndSide
<1>2. f \in Frame /\ Kept(f)
  BY <1>1, RefsTyped DEF RingInv
<1>3. ASSUME Live(f) PROVE rx_packet_buffer_index # f.buf
  BY <1>2, <1>3, EconetConstants
     DEF Kept, Live, Behind, Frame, TypeInv, TypeOK, RxTypeOK
<1> QED
  BY <1>2, <1>3 DEF StoreByte, Kept, Live, Behind, Frame, TypeInv, TypeOK, RxTypeOK

(* One more frame accepted, one slot further from it, around the ring. *)
LEMMA NextKeepsDistance ==
    ASSUME NEW i \in 0..BufferCount-1, NEW b \in 0..BufferCount-1,
           NEW d \in Nat, d < BufferCount - 1,
           i = b + 1 + d \/ i = b + 1 + d - BufferCount
    PROVE  \/ NextBuffer(i) = b + 1 + d + 1
           \/ NextBuffer(i) = b + 1 + d + 1 - BufferCount
BY EconetConstants DEF NextBuffer

LEMMA BehindNext ==
    ASSUME NEW f \in Frame, f.stamp <= frames, Live(f), Behind(f),
           frames \in Nat, frames' = frames + 1,
           rx_packet_buffer_index \in 0..BufferCount-1,
           rx_packet_buffer_index' = NextBuffer(rx_packet_buffer_index)
    PROVE  Behind(f)'
<1>1. f.buf \in 0..BufferCount-1 /\ f.stamp \in Nat
  BY DEF Frame
<1>2. PICK d \in Nat : d = frames - f.stamp
  BY <1>1
<1>3. d < BufferCount - 1
  BY <1>2 DEF Live
<1>4. \/ rx_packet_buffer_index = f.buf + 1 + d
      \/ rx_packet_buffer_index = f.buf + 1 + d - BufferCount
  BY <1>1, <1>2, EconetConstants DEF Behind
<1>5. \/ rx_packet_buffer_index' = f.buf + 1 + d + 1
      \/ rx_packet_buffer_index' = f.buf + 1 + d + 1 - BufferCount
  BY <1>1, <1>3, <1>4, NextKeepsDistance
<1> QED
  BY <1>1, <1>2, <1>5, EconetConstants DEF Behind

(* An accepted frame moves every live one a slot further behind the index. *)
LEMMA RingFrameReceived == TypeInv /\ RingInv /\ FrameReceived => RingInv'
<1> SUFFICES ASSUME TypeInv, RingInv, FrameReceived, NEW f \in Refs' PROVE Kept(f)'
  BY DEF RingInv
<1>1. f \in Refs \cup {ReceivedFrame, NoFrame}
  <2>1. ReceivedFrame \in Frame
    BY DEF TypeInv, TypeOK, RxTypeOK, WireTypeOK, ReceivedFrame, Frame
  <2>2. \A c \in Commands' : c \in Commands \/ c.frame \in {ReceivedFrame, NoFrame}
    <3>1. PICK x \in {IsrCommand("R", ReceivedFrame), IsrCommand("A", NoFrame)} : PostCommand(x)
      BY DEF FrameReceived
    <3>2. x \in Command /\ x.frame \in {ReceivedFrame, NoFrame}
      BY <2>1, <3>1, RecordTypes DEF IsrCommand
    <3> QED
      BY <3>1, <3>2, SentElements, EconetConstants
         DEF TypeInv, TypeOK, TxTypeOK, PostCommand, Commands
  <2>3. \A p \in Packets' : p \in Packets \/ p.frame = ReceivedFrame
    <3> DEFINE x == [type |-> "P", frame |-> ReceivedFrame]
    <3>1. x \in Packet /\ x.frame = ReceivedFrame
      BY <2>1, RecordTypes
    <3>2. CASE PostPacket(x)
      BY <3>1, <3>2, SentElements, EconetConstants
         DEF TypeInv, TypeOK, RxTypeOK, PostPacket, Packets
    <3>3. CASE UNCHANGED econet_rx_packet_queue
      BY <3>3 DEF Packets
    <3> QED
      BY <3>2, <3>3 DEF FrameReceived
  <2>4. UNCHANGED <<held, imm_reply, results>>
    BY DEF FrameReceived, txVars, immVars, sndSide
  <2> QED
    BY <2>2, <2>3, <2>4 DEF Refs
<1> USE DEF TypeInv, TypeOK, RxTypeOK
<1>2. CASE f = ReceivedFrame
  BY <1>2, EconetConstants DEF Kept, Live, Behind, ReceivedFrame, FrameReceived, NextBuffer
<1>3. CASE f = NoFrame
  BY <1>3 DEF Kept, Live, NoFrame, FrameReceived
<1>4. CASE f \in Refs
  <2>1. f \in Frame /\ Kept(f)
    BY <1>4, RefsTyped DEF RingInv
  <2>2. CASE ~Live(f)
    BY <2>1, <2>2, EconetConstants DEF Kept, Live, Frame, FrameReceived
  <2>3. CASE Live(f)
    <3>1. rx_packet_buffer_index # f.buf
      BY <2>1, <2>3, EconetConstants DEF Kept, Live, Behind, Frame
    <3>2. /\ f.stamp <= frames /\ Behind(f)
          /\ frames \in Nat /\ frames' = frames + 1
          /\ rx_packet_buffer_index \in 0..BufferCount-1
          /\ rx_packet_buffer_index' = NextBuffer(rx_packet_buffer_index)
      BY <2>1, <2>3 DEF Kept, FrameReceived
    <3>3. Behind(f)'
      BY <2>1, <2>3, <3>2, BehindNext
    <3>4. rx_packet_buffers'[f.buf] = f.stamp /\ f.stamp <= frames'
      BY <2>1, <2>3, <3>1, <3>2 DEF Kept, FrameReceived, Frame
    <3> QED
      BY <3>3, <3>4 DEF Kept
  <2> QED
    BY <2>2, <2>3
<1> QED
  BY <1>1, <1>2, <1>3, <1>4

(* The other steps only copy and drop references. *)
LEMMA RingOtherInterrupts ==
    TypeInv /\ RingInv /\ (BusActive \/ IdleBits \/ AckReceived) => RingInv'
<1> SUFFICES ASSUME TypeInv, RingInv, BusActive \/ IdleBits \/ AckReceived
             PROVE  Refs' \subseteq Refs \cup {NoFrame}
  BY RingKept DEF BusActive, IdleBits, AckReceived, rxSide
<1>1. UNCHANGED <<held, imm_reply, results>>
  BY DEF BusActive, IdleBits, AckReceived, rxSide, pktVars, txSide, txVars, immVars, sndSide
<1>2. \A c \in Commands' : c \in Commands \/ c.frame = NoFrame
  <2>1. CASE UNCHANGED tx_command_queue
    BY <2>1 DEF Commands
  <2>2. ASSUME NEW k \in {"I", "a"}, PostCommand(IsrCommand(k, NoFrame))
        PROVE  \A c \in Commands' : c \in Commands \/ c.frame = NoFrame
    <3> DEFINE x == IsrCommand(k, NoFrame)
    <3>1. x \in Command /\ x.frame = NoFrame
      BY RecordTypes DEF IsrCommand
    <3>2. tx_command_queue' = QueueSend(tx_command_queue, CmdQueueLen, x)
      BY <2>2 DEF PostCommand
    <3> HIDE DEF x
    <3> QED
      BY <3>1, <3>2, SentElements, EconetConstants DEF TypeInv, TypeOK, TxTypeOK, Commands
  <2> QED
    BY <2>1, <2>2 DEF BusActive, IdleBits, AckReceived, txSide
<1>3. \A p \in Packets' : p \in Packets \/ p.frame = NoFrame
  <2>1. CASE UNCHANGED econet_rx_packet_queue
    BY <2>1 DEF Packets
  <2>2. CASE IdleBits
    <3> DEFINE x == [type |-> "I", frame |-> NoFrame]
    <3>1. x \in Packet /\ x.frame = NoFrame
      BY RecordTypes
    <3>2. econet_rx_packet_queue' = QueueSend(econet_rx_packet_queue, PktQueueLen, x)
      BY <2>2 DEF IdleBits, PostPacket
    <3> HIDE DEF x
    <3> QED
      BY <3>1, <3>2, SentElements, EconetConstants DEF TypeInv, TypeOK, RxTypeOK, Packets
  <2> QED
    BY <2>1, <2>2 DEF BusActive, AckReceived, rxSide, pktVars
<1> QED
  BY <1>1, <1>2, <1>3 DEF Refs

LEMMA RingTxTask == TypeInv /\ RingInv /\ TxTask => RingInv'
<1> SUFFICES ASSUME TypeInv, RingInv, TxTask PROVE RingInv'
  OBVIOUS
<1>1. UNCHANGED <<rxVars, Packets, held, results>>
  BY DEF TxTask, TopOfLoop, ReceiveCommand, Defer, StartSend, WaitScout, WaitData,
         ScoutExpired, DataExpired, WaitExpired, rxSide, pktVars, sndSide, Packets
<1>2. \A c \in Commands' : c \in Commands
  <2>1. CASE UNCHANGED tx_command_queue
    BY <2>1 DEF Commands
  <2>2. CASE tx_command_queue # <<>> /\ tx_command_queue' = Tail(tx_command_queue)
    BY <2>2, TakenElements DEF TypeInv, TypeOK, TxTypeOK, Commands
  <2> QED
    BY <2>1, <2>2 DEF TxTask, TopOfLoop, ReceiveCommand, Defer, StartSend, WaitScout,
                      WaitData, ScoutExpired, DataExpired, WaitExpired
<1>3. imm_reply' = imm_reply \/ \E c \in Commands : imm_reply' = c.frame
  <2>1. CASE WaitScout
    <3> DEFINE c == Head(tx_command_queue)
    <3>1. c \in Commands
      BY <2>1, TakenElements DEF WaitScout, TypeInv, TypeOK, TxTypeOK, Commands
    <3>2. ScoutAnswer(c)
      BY <2>1 DEF WaitScout
    <3> HIDE DEF c
    <3> QED
      BY <3>1, <3>2 DEF ScoutAnswer, TakeReply, SendData
  <2> QED
    BY <2>1 DEF TxTask, TopOfLoop, ReceiveCommand, Defer, StartSend, WaitData,
                ScoutExpired, DataExpired, WaitExpired, immVars
<1>4. Refs' \subseteq Refs
  BY <1>1, <1>2, <1>3 DEF Refs
<1> QED
  BY <1>1, <1>4, RingKept

LEMMA RingSender == TypeInv /\ RingInv /\ Sender => RingInv'
<1> SUFFICES ASSUME TypeInv, RingInv, Sender PROVE RingInv'
  OBVIOUS
<1>1. UNCHANGED <<rxVars, Packets, held, imm_reply>>
  BY DEF Sender, Send, PostSend, PostExpired, SendReturns, SendExpired, rxSide, pktVars,
         txSide, txVars, immVars, Packets
<1>2. \A c \in Commands' : c \in Commands \/ c.frame = NoFrame
  <2>1. CASE UNCHANGED tx_command_queue
    BY <2>1 DEF Commands
  <2>2. CASE PostSend
    <3> DEFINE x == SendCommand(calls[Len(calls)])
    <3>1. x.frame = NoFrame
      BY DEF SendCommand
    <3>2. x \in Command
      BY <2>2, RecordTypes, ElementType, EmptySeq, LenProperties
         DEF SendCommand, PostSend, TypeInv, TypeOK, SenderTypeOK
    <3>3. tx_command_queue' = Append(tx_command_queue, x)
      BY <2>2 DEF PostSend
    <3> HIDE DEF x
    <3> QED
      BY <3>1, <3>2, <3>3, AppendedElements DEF TypeInv, TypeOK, TxTypeOK, Commands
  <2> QED
    BY <2>1, <2>2 DEF Sender, Send, PostExpired, SendReturns, SendExpired, txSide
<1> DEFINE Known(r) == \/ r.imm \in {imm_reply, NoFrame}
                       \/ \E j \in DOMAIN results : r = results[j]
<1>3. \A i \in DOMAIN results' : Known(results'[i])
  <2>1. CASE UNCHANGED results
    BY <2>1
  <2>2. ASSUME NEW r \in AckType, NEW f \in {imm_reply, NoFrame}, ReturnResult(r, f)
        PROVE  \A i \in DOMAIN results' : Known(results'[i])
    <3> DEFINE x == [ret |-> r, imm |-> f]
    <3>1. x \in Result /\ x.imm = f
      BY RecordTypes DEF TypeInv, TypeOK, TxTypeOK, Result
    <3>2. results' = Append(results, x)
      BY <2>2 DEF ReturnResult
    <3> HIDE DEF x
    <3> QED
      BY <3>1, <3>2, AppendedElements DEF TypeInv, TypeOK, SenderTypeOK
  <2>3. ASSUME ReturnResult("SEND_ERROR", NoFrame)
        PROVE  \A i \in DOMAIN results' : Known(results'[i])
    BY <2>2, <2>3 DEF AckType
  <2>4. CASE SendReturns
    <3>1. \E f \in {imm_reply, NoFrame} :
              ReturnResult(tx_sent_ack, f) \/ ReturnResult("SEND_ERROR", NoFrame)
      BY <2>4 DEF SendReturns
    <3>2. tx_sent_ack \in AckType
      BY DEF TypeInv, TypeOK, TxTypeOK
    <3> QED
      BY <2>2, <2>3, <3>1, <3>2
  <2> QED
    BY <2>1, <2>3, <2>4 DEF Sender, Send, PostSend, PostExpired, SendExpired
<1>4. Refs' \subseteq Refs \cup {NoFrame}
  BY <1>1, <1>2, <1>3 DEF Refs
<1> QED
  BY <1>1, <1>4, RingKept

LEMMA RingConsumer == TypeInv /\ RingInv /\ Consumer => RingInv'
<1> SUFFICES ASSUME TypeInv, RingInv, Consumer PROVE RingInv'
  OBVIOUS
<1>1. UNCHANGED <<rxVars, Commands, imm_reply, results>>
  BY DEF Consumer, TakePacket, ReleasePacket, txSide, txVars, immVars, sndSide, Commands
<1>2. CASE TakePacket
  <2>1. \A p \in Packets' : p \in Packets
    BY <1>2, TakenElements DEF TakePacket, TypeInv, TypeOK, RxTypeOK, Packets
  <2>2. held' \in Packets \cup {NoPacket}
    BY <1>2, TakenElements DEF TakePacket, TypeInv, TypeOK, RxTypeOK, Packets
  <2>3. Refs' \subseteq Refs \cup {NoFrame}
    BY <1>1, <2>1, <2>2 DEF Refs, NoPacket
  <2> QED
    BY <1>1, <2>3, RingKept
<1>3. CASE ReleasePacket
  <2>1. UNCHANGED Packets /\ held' = NoPacket
    BY <1>3 DEF ReleasePacket, Packets
  <2>2. Refs' \subseteq Refs \cup {NoFrame}
    BY <1>1, <2>1 DEF Refs, NoPacket
  <2> QED
    BY <1>1, <2>2, RingKept
<1> QED
  BY <1>2, <1>3 DEF Consumer

LEMMA RingRest ==
    TypeInv /\ RingInv /\ (TxDone \/ Wire \/ UNCHANGED vars) => RingInv'
<1> SUFFICES ASSUME TypeInv, RingInv, TxDone \/ Wire \/ UNCHANGED vars PROVE RingInv'
  OBVIOUS
<1>1. UNCHANGED <<rxVars, Packets, held, Commands, imm_reply, results>>
  BY DEF TxDone, AckSent, BroadcastSent, ScoutSent, DataSent, Wire, OtherStarts, FrameLost,
         FlagsEnd, vars, rxSide, pktVars, txSide, txVars, immVars, sndSide, Packets, Commands
<1>2. UNCHANGED Refs
  BY <1>1 DEF Refs
<1> QED
  BY <1>1, <1>2, RingKept

\* Whatever the traffic, the buffer count and the pace of the consumer, a
\* packet handed over keeps its bytes until BufferCount-1 further frames have
\* been accepted: NextBuffer never comes back to a slot sooner.
THEOREM FramesStayIntact == Spec => []FramesIntact
<1>1. TypeInv /\ RingInv /\ [Next]_vars => RingInv'
  BY RingStoreByte, RingFrameReceived, RingOtherInterrupts, RingTxTask, RingSender,
     RingConsumer, RingRest DEF Next, Finished, Interrupt
<1>2. TypeInv /\ [Next]_vars => TypeInv'
  BY TypeStep
<1> QED
  BY <1>1, <1>2, TypeInit, RingInit, RingGivesIntact, PTL DEF Spec
-----------------------------------------------------------------------------
(* What calls return.  The results are true only if the command the        *)
(* transmitter takes for an answer is one, so the invariant says which     *)
(* commands can be queued at every stage of a call, and what the line and  *)
(* the timing must have been for them to be there.                         *)

(* Nothing gives up early: no wait of the caller runs out, no station      *)
(* starts before this one has counted its idle bits, nothing is broadcast. *)
Orderly ==
    /\ MaxTimeouts = 0
    /\ ~EarlyIdle
    /\ "BROADCAST" \notin Kinds

-----------------------------------------------------------------------------
(* The commands in a queue. *)

Has(q, c) == \E i \in DOMAIN q : q[i].cmd = c
Only(q, C) == \A i \in DOMAIN q : q[i].cmd \in C
Opens(q, C) == q # <<>> /\ Head(q).cmd \in C
OrderLast(q) == \A i, j \in DOMAIN q : i < j /\ q[i].cmd = "A" => q[j].cmd = "I"
AckFirst(q) == \A i \in DOMAIN q : q[i].cmd = "a" => i = 1
SendBehind(q, n) ==
    \A k \in DOMAIN q : q[k].cmd = "S" =>
        k + n = Len(q) /\ \A i \in DOMAIN q : i < k => q[i].cmd = "I"
FlagsOk(q, kind) ==
    \A i \in DOMAIN q : q[i].flags = IF q[i].cmd = "S" THEN kind ELSE "NORMAL"

Executing == {"txScout", "waitScout", "txData", "waitData"}
Call == Len(calls)
WithReply == flags = "IMM_WITH_REPLY"

(* The line is ours exactly while the task transmits, and the interrupt's  *)
(* idle counter has been reset when an answer is under way.                *)
WirePart ==
    /\ line \in {"ours", "clash"} <=> tx_pc \in Transmitting
    /\ line \in {"ack", "reply", "data", "flags"} => ~rx_idle

(* Every call but the one under way has its result, and the frame buffers  *)
(* and the flags are those of the call under way.                          *)
CallPart ==
    /\ Len(results) = IF snd_pc = "idle" THEN Call ELSE Call - 1
    /\ snd_pc # "idle" => tx_bits = Call /\ scout_bits = Call
    /\ \A i \in 1..Call : calls[i] # "BROADCAST"
    /\ flags # "BROADCAST" /\ tx_pc \notin {"abort", "txBroadcast"}
    /\ tx_pc \in Executing \/ (tx_pc = "check" /\ is_data_ready)
           => flags \in {"NORMAL", calls[Call]}
    /\ FlagsOk(tx_command_queue, calls[Call])

(* A call is in one place: its command queued, its data ready, a frame of  *)
(* it under way, or its result notified; and its sender waits for it.      *)
StagePart ==
    /\ notified \in {0, 1}
    /\ Has(tx_command_queue, "S") \/ is_data_ready \/ tx_pc \in Executing \/ notified = 1
           => snd_pc = "wait"
    /\ Has(tx_command_queue, "S") => ~is_data_ready /\ tx_pc \notin Executing /\ notified = 0
    /\ is_data_ready => tx_pc \notin Executing /\ notified = 0
    /\ tx_pc \in Executing => notified = 0

(* A reply is awaited only while the scout that asks for it is under way.   *)
AwaitPart ==
    /\ tx_is_awaiting_imm_reply =>
           \/ tx_pc \in {"txScout", "waitScout"} /\ WithReply
           \/ tx_pc = "top" /\ notified = 1
    /\ WithReply /\ tx_pc \in {"txScout", "waitScout"} => tx_is_awaiting_imm_reply
    /\ WithReply => tx_pc \notin {"txData", "waitData"}

(* An order to acknowledge is fresh while the flags it is to replace hold   *)
(* the line, and stale when it came after the answer to a call's data.     *)
Fresh == line \in {"flags", "quiet"} /\ ~rx_idle /\ tx_is_in_progress
Stale ==
    \/ tx_pc = "txData"
    \/ /\ (tx_pc = "waitData" \/ notified = 1) /\ tx_pc \notin Transmitting
       /\ \/ tx_run = "overtaken"
          \/ tx_run = "runs" /\ line \in {"quiet", "other"} /\ ~rx_idle

(* Which commands can be queued beside the call's own.                     *)
QueuePart ==
    /\ OrderLast(tx_command_queue)
    /\ Has(tx_command_queue, "R") =>
           \/ tx_pc = "waitScout" /\ WithReply
           \/ notified = 1 /\ tx_pc # "txAck"
    /\ tx_pc = "txAck" => Only(tx_command_queue, {"I", "S"})
    /\ tx_pc = "txScout" => Only(tx_command_queue, {"I"})
    /\ Has(tx_command_queue, "A") => line # "ack" /\ (Fresh \/ Stale)
    /\ tx_pc = "check" => tx_run # "late"

(* Before its frames are sent a call finds no answer queued that could be  *)
(* taken for its own: what came before it is taken before it, and what     *)
(* comes after it keeps the bus busy, so the call is deferred.             *)
PendingPart ==
    /\ Has(tx_command_queue, "S") =>
           /\ tx_run # "late"
           /\ line = "ack" => Len(tx_command_queue) = 1
           /\ \/ SendBehind(tx_command_queue, 0)
              \/ /\ SendBehind(tx_command_queue, 1)
                 /\ tx_run = "overtaken" /\ tx_pc \notin Transmitting
                 /\ tx_command_queue[Len(tx_command_queue)].cmd = "I" \/ ~rx_idle
    /\ is_data_ready =>
           /\ AckFirst(tx_command_queue)
           /\ tx_pc = "check" /\ Has(tx_command_queue, "a") => ~rx_idle /\ tx_run = "overtaken"
           /\ line = "ack" => tx_command_queue = <<>>

(* Waiting for the answer to a scout. *)
ReplyPart ==
    tx_pc = "waitScout" /\ WithReply =>
        /\ line # "ack" /\ Only(tx_command_queue, {"I", "R"})
        /\ line = "reply" => peer = Call /\ accepted[Call] > 0
        /\ \/ tx_command_queue = <<>> /\ ~rx_idle /\ line \in {"quiet", "reply", "other"}
           \/ Opens(tx_command_queue, {"I"})
           \/ /\ Opens(tx_command_queue, {"R"})
              /\ Head(tx_command_queue).frame.answers = Call /\ accepted[Call] > 0

(* The addressed station has promised to take the data, or has acted.       *)
Answered == calls[Call] = "NORMAL" \/ accepted[Call] > 0

ScoutPart ==
    tx_pc = "waitScout" /\ ~WithReply =>
        /\ line \in {"ack", "reply"} => Answered
        /\ line = "reply" => calls[Call] = "IMM_WITH_REPLY"
        /\ \/ tx_command_queue = <<>> /\ ~rx_idle /\ line \in {"quiet", "ack", "reply", "other"}
           \/ Opens(tx_command_queue, {"I"})
           \/ /\ Opens(tx_command_queue, {"a", "A"}) /\ Answered
              /\ Opens(tx_command_queue, {"A"}) => calls[Call] = "IMM_WITH_REPLY"
              /\ \/ /\ Len(tx_command_queue) = 1
                    /\ HasRoom(tx_command_queue, CmdQueueLen) => ~rx_idle /\ line \in {"quiet", "flags"}
                 \/ /\ Len(tx_command_queue) > 1
                    /\ tx_command_queue[2].cmd = "I" /\ peer = 0

(* Waiting for the answer to the data. *)
DataPart ==
    /\ tx_pc = "txData" =>
           /\ calls[Call] = "NORMAL" \/ accepted[Call] > 0
           /\ tx_command_queue = <<>> \/ (Opens(tx_command_queue, {"I"}) /\ peer = 0)
    /\ tx_pc = "waitData" =>
           /\ calls[Call] = "NORMAL" \/ accepted[Call] > 0
           /\ line = "ack" \/ Opens(tx_command_queue, {"a"}) => accepted[Call] > 0
           /\ \/ tx_command_queue = <<>> /\ ~rx_idle /\ line \in {"quiet", "ack", "other"}
              \/ Opens(tx_command_queue, {"I", "a"})

(* A packet is accepted at most once, and a four-way handshake not before   *)
(* its data frame has been sent.                                           *)
AcceptPart ==
    /\ \A i \in 1..MaxSends : accepted[i] <= 1 /\ (i > Call => accepted[i] = 0)
    /\ snd_pc # "idle" /\ notified = 0 =>
           /\ tx_pc \notin Executing \/ tx_pc = "txScout" => accepted[Call] = 0
           /\ tx_pc \in {"waitScout", "txData"} /\ calls[Call] = "NORMAL" => accepted[Call] = 0

(* What is true of the result of call i.                                    *)
True(r, i) ==
    /\ r.ret \in {"ACK", "IMM_REPLY"} => accepted[i] > 0
    /\ r.ret = "NACK" /\ calls[i] = "NORMAL" => accepted[i] = 0
    /\ r.ret = "IMM_REPLY" => r.imm.answers = i

ResultPart ==
    /\ \A i \in DOMAIN results : True(results[i], i)
    /\ notified = 1 => True([ret |-> tx_sent_ack, imm |-> imm_reply], Call)

(* The transmitter is released, as long as no order to acknowledge is lost. *)
ReleasePart ==
    /\ tx_is_in_progress => tx_pc \in Transmitting \/ Has(tx_command_queue, "A")
    /\ tx_pc = "recv" /\ ~is_flagstream_queued => Has(tx_command_queue, "A")

TruthInv ==
    /\ WirePart /\ CallPart /\ StagePart /\ AwaitPart /\ QueuePart /\ PendingPart
    /\ ReplyPart /\ ScoutPart /\ DataPart /\ AcceptPart /\ ResultPart

-----------------------------------------------------------------------------
(* What becomes of these when a command is added or taken. *)

Added(q, r, x) ==
    /\ \A c : Has(r, c) <=> Has(q, c) \/ x.cmd = c
    /\ \A C : Only(r, C) <=> Only(q, C) /\ x.cmd \in C
    /\ OrderLast(q) /\ (x.cmd = "I" \/ ~Has(q, "A")) => OrderLast(r)
    /\ AckFirst(q) /\ (x.cmd # "a" \/ q = <<>>) => AckFirst(r)
    /\ SendBehind(q, 0) /\ x.cmd # "S" => SendBehind(r, 1)
    /\ Only(q, {"I"}) => SendBehind(r, 0)
    /\ \A k : FlagsOk(q, k) /\ x.flags = (IF x.cmd = "S" THEN k ELSE "NORMAL") => FlagsOk(r, k)
    /\ r # <<>> /\ Len(r) = Len(q) + 1 /\ r[Len(r)] = x
    /\ q = <<>> => Head(r) = x /\ Len(r) = 1
    /\ q # <<>> => Head(r) = Head(q) /\ Len(q) >= 1
    /\ Len(q) = 1 => r[2] = x
    /\ Len(q) > 1 => r[2] = q[2]

Taken(q, r) ==
    /\ \A c : Has(q, c) <=> Head(q).cmd = c \/ Has(r, c)
    /\ \A C : Only(q, C) <=> Head(q).cmd \in C /\ Only(r, C)
    /\ OrderLast(q) => OrderLast(r) /\ (Head(q).cmd = "A" => Only(r, {"I"}))
    /\ AckFirst(q) => ~Has(r, "a")
    /\ \A n \in {0, 1} : SendBehind(q, n) =>
           /\ Head(q).cmd # "S" => SendBehind(r, n)
           /\ Head(q).cmd = "S" => ~Has(r, "S") /\ Len(r) = n
    /\ \A k : FlagsOk(q, k) =>
           FlagsOk(r, k) /\ Head(q).flags = (IF Head(q).cmd = "S" THEN k ELSE "NORMAL")
    /\ Len(q) >= 1 /\ Len(r) = Len(q) - 1
    /\ r # <<>> <=> Len(q) > 1
    /\ Len(q) > 1 => Head(r) = q[2] /\ r[Len(r)] = q[Len(q)]
    /\ Len(r) <= 1 => AckFirst(r)

(* An empty queue holds no command. *)
LEMMA NothingQueued ==
    /\ \A c : ~Has(<<>>, c)
    /\ \A C : Only(<<>>, C)
    /\ \A C : ~Opens(<<>>, C)
BY DEF Has, Only, Opens

(* What a queue holds is among the commands it is limited to. *)
LEMMA Contents ==
    /\ \A q, c, C : Only(q, C) /\ Has(q, c) => c \in C
    /\ \A q, c : q \in Seq(Command) /\ Opens(q, {c}) => Has(q, c)
    /\ \A q, C : q \in Seq(Command) /\ Only(q, C) /\ q # <<>> => Opens(q, C)
<1>1. \A q \in Seq(Command) : q # <<>> => 1 \in DOMAIN q /\ Head(q) = q[1]
  <2> SUFFICES ASSUME NEW q \in Seq(Command), q # <<>> PROVE 1 \in DOMAIN q /\ Head(q) = q[1]
    OBVIOUS
  <2> QED
    BY TakenPlaces
<1> QED
  BY <1>1 DEF Only, Has, Opens

(* A command sent to the queue. *)
LEMMA AddedFacts ==
    ASSUME NEW q \in Seq(Command), NEW x \in Command
    PROVE  Added(q, Append(q, x), x)
<1> DEFINE r == Append(q, x)
<1>1. /\ r # <<>> /\ Len(q) \in Nat /\ DOMAIN q = 1..Len(q) /\ Len(r) = Len(q) + 1
      /\ DOMAIN r = 1..(Len(q) + 1)
      /\ \A i \in DOMAIN q : r[i] = q[i]
      /\ r[Len(q) + 1] = x /\ r \in Seq(Command)
  BY AppendedPlaces
<1>2. Head(r) = r[1] /\ (q # <<>> => Head(q) = q[1] /\ Len(q) >= 1) /\ (q = <<>> => Len(q) = 0)
  BY <1>1, TakenPlaces, EmptySeq
<1> HIDE DEF r
<1>3. \A i \in DOMAIN r : (i \in DOMAIN q /\ r[i] = q[i]) \/ (i = Len(q) + 1 /\ r[i] = x)
  BY <1>1
<1>4. \A i \in DOMAIN q : i \in DOMAIN r /\ i < Len(q) + 1 /\ r[i] = q[i]
  BY <1>1
<1>5. Len(q) + 1 \in DOMAIN r
  BY <1>1
<1>6. \A c : Has(r, c) <=> Has(q, c) \/ x.cmd = c
  BY <1>1, <1>3, <1>4, <1>5 DEF Has
<1>7. \A C : Only(r, C) <=> Only(q, C) /\ x.cmd \in C
  BY <1>1, <1>3, <1>4, <1>5 DEF Only
<1>8. OrderLast(q) /\ (x.cmd = "I" \/ ~Has(q, "A")) => OrderLast(r)
  <2> SUFFICES ASSUME OrderLast(q), x.cmd = "I" \/ ~Has(q, "A"),
                      NEW i \in DOMAIN r, NEW j \in DOMAIN r, i < j, r[i].cmd = "A"
               PROVE  r[j].cmd = "I"
    BY DEF OrderLast
  <2>1. i \in DOMAIN q /\ r[i] = q[i]
    BY <1>1, <1>3
  <2>2. Has(q, "A")
    BY <2>1 DEF Has
  <2> QED
    BY <1>3, <2>1, <2>2 DEF OrderLast
<1>9. AckFirst(q) /\ (x.cmd # "a" \/ q = <<>>) => AckFirst(r)
  BY <1>1, <1>2, <1>3 DEF AckFirst
<1>10. SendBehind(q, 0) /\ x.cmd # "S" => SendBehind(r, 1)
  <2> SUFFICES ASSUME SendBehind(q, 0), x.cmd # "S", NEW k \in DOMAIN r, r[k].cmd = "S"
               PROVE  k + 1 = Len(r) /\ \A i \in DOMAIN r : i < k => r[i].cmd = "I"
    BY DEF SendBehind
  <2>1. k \in DOMAIN q /\ r[k] = q[k]
    BY <1>3
  <2>2. k = Len(q) /\ \A i \in DOMAIN q : i < k => q[i].cmd = "I"
    BY <1>1, <2>1 DEF SendBehind
  <2> QED
    BY <1>1, <1>3, <2>1, <2>2
<1>11. Only(q, {"I"}) => SendBehind(r, 0)
  <2> SUFFICES ASSUME Only(q, {"I"}), NEW k \in DOMAIN r, r[k].cmd = "S"
               PROVE  k + 0 = Len(r) /\ \A i \in DOMAIN r : i < k => r[i].cmd = "I"
    BY DEF SendBehind
  <2>1. k = Len(q) + 1
    BY <1>3 DEF Only
  <2> QED
    BY <1>1, <1>3, <2>1 DEF Only
<1>12. \A k : FlagsOk(q, k) /\ x.flags = (IF x.cmd = "S" THEN k ELSE "NORMAL") => FlagsOk(r, k)
  BY <1>3 DEF FlagsOk
<1>13. Len(q) = 1 => r[2] = x
  BY <1>1
<1>14. Len(q) > 1 => r[2] = q[2]
  BY <1>1
<1>15. q = <<>> => Head(r) = x /\ Len(r) = 1
  BY <1>1, <1>2
<1>16. q # <<>> => Head(r) = Head(q) /\ Len(q) >= 1
  BY <1>1, <1>2
<1>17. r # <<>> /\ Len(r) = Len(q) + 1 /\ r[Len(r)] = x
  BY <1>1
<1> QED
  BY <1>6, <1>7, <1>8, <1>9, <1>10, <1>11, <1>12, <1>13, <1>14, <1>15, <1>16, <1>17 DEF Added, r

(* A command received from the queue. *)
LEMMA TakenFacts ==
    ASSUME NEW q \in Seq(Command), q # <<>>
    PROVE  Taken(q, Tail(q))
<1> DEFINE r == Tail(q)
<1>1. /\ Head(q) = q[1] /\ Len(q) \in Nat /\ Len(q) >= 1 /\ DOMAIN q = 1..Len(q)
      /\ Len(r) = Len(q) - 1 /\ DOMAIN r = 1..(Len(q) - 1)
      /\ \A i \in 1..(Len(q) - 1) : r[i] = q[i + 1]
      /\ r \in Seq(Command)
  BY TakenPlaces
<1>2. /\ r # <<>> => Len(r) >= 1 /\ Head(r) = r[1]
      /\ r = <<>> => Len(r) = 0
  BY <1>1, TakenPlaces, EmptySeq
<1> HIDE DEF r
<1>3. \A i \in DOMAIN r : i + 1 \in DOMAIN q /\ r[i] = q[i + 1] /\ i >= 1 /\ i \in Int
  BY <1>1
<1>4. \A i \in DOMAIN q : (i = 1 /\ q[i] = Head(q)) \/ (i - 1 \in DOMAIN r /\ q[i] = r[i - 1])
  BY <1>1
<1>5. 1 \in DOMAIN q /\ Head(q) = q[1]
  BY <1>1
<1>6. \A c : Has(q, c) <=> Head(q).cmd = c \/ Has(r, c)
  BY <1>3, <1>4, <1>5 DEF Has
<1>7. \A C : Only(q, C) <=> Head(q).cmd \in C /\ Only(r, C)
  BY <1>3, <1>4, <1>5 DEF Only
<1>8. OrderLast(q) => OrderLast(r) /\ (Head(q).cmd = "A" => Only(r, {"I"}))
  <2> SUFFICES ASSUME OrderLast(q) PROVE OrderLast(r) /\ (Head(q).cmd = "A" => Only(r, {"I"}))
    OBVIOUS
  <2>1. ASSUME NEW i \in DOMAIN r, NEW j \in DOMAIN r, i < j, r[i].cmd = "A" PROVE r[j].cmd = "I"
    <3>1. i + 1 < j + 1
      BY <1>3, <2>1
    <3> QED
      BY <1>3, <2>1, <3>1 DEF OrderLast
  <2>2. ASSUME Head(q).cmd = "A", NEW i \in DOMAIN r PROVE r[i].cmd = "I"
    <3>1. 1 < i + 1
      BY <1>3, <2>2
    <3> QED
      BY <1>3, <1>5, <2>2, <3>1 DEF OrderLast
  <2> QED
    BY <2>1, <2>2 DEF OrderLast, Only
<1>9. AckFirst(q) => ~Has(r, "a")
  BY <1>3 DEF AckFirst, Has
<1>10. ASSUME NEW n \in {0, 1}, SendBehind(q, n)
       PROVE  /\ Head(q).cmd # "S" => SendBehind(r, n)
              /\ Head(q).cmd = "S" => ~Has(r, "S") /\ Len(r) = n
  <2>1. ASSUME NEW k \in DOMAIN r, r[k].cmd = "S"
        PROVE  k + n = Len(r) /\ \A i \in DOMAIN r : i < k => r[i].cmd = "I"
    <3>1. k + 1 \in DOMAIN q /\ q[k + 1].cmd = "S"
      BY <1>3, <2>1
    <3>2. k + 1 + n = Len(q) /\ \A i \in DOMAIN q : i < k + 1 => q[i].cmd = "I"
      BY <1>10, <3>1 DEF SendBehind
    <3> QED
      BY <1>1, <1>3, <1>10, <3>2
  <2>2. ASSUME Head(q).cmd = "S", Has(r, "S") PROVE FALSE
    <3>1. PICK k \in DOMAIN r : r[k].cmd = "S"
      BY <2>2 DEF Has
    <3>2. k + 1 \in DOMAIN q /\ q[k + 1].cmd = "S" /\ 1 < k + 1
      BY <1>3, <3>1
    <3>3. q[1].cmd = "I"
      BY <1>5, <1>10, <3>2 DEF SendBehind
    <3> QED
      BY <1>5, <2>2, <3>3
  <2>3. Head(q).cmd = "S" => 1 + n = Len(q)
    BY <1>5, <1>10 DEF SendBehind
  <2>4. SendBehind(r, n)
    BY <2>1 DEF SendBehind
  <2>5. Head(q).cmd = "S" => Len(r) = n
    <3>1. n \in Int /\ Len(r) = Len(q) - 1 /\ Len(q) \in Int
      BY <1>1, <1>10
    <3> QED
      BY <2>3, <3>1
  <2> QED
    BY <2>2, <2>4, <2>5
<1>11. \A k : FlagsOk(q, k) =>
           FlagsOk(r, k) /\ Head(q).flags = (IF Head(q).cmd = "S" THEN k ELSE "NORMAL")
  BY <1>3, <1>5 DEF FlagsOk
<1>12. r # <<>> <=> Len(q) > 1
  BY <1>1, <1>2
<1>13. Len(q) > 1 => Head(r) = q[2] /\ r[Len(r)] = q[Len(q)]
  BY <1>1, <1>2
<1>14. Len(r) <= 1 => AckFirst(r)
  BY <1>1 DEF AckFirst
<1> QED
  BY <1>1, <1>6, <1>7, <1>8, <1>9, <1>10, <1>11, <1>12, <1>13, <1>14 DEF Taken, r

-----------------------------------------------------------------------------
(* The steps, as far as the invariant sees them. *)

seen == <<rx_idle, tx_command_queue, txVars, goVars, ackVars, tx_run,
          snd_pc, calls, results, bitsVars, line, peer, accepted>>

TruthState == Orderly /\ TypeInv /\ TruthInv

(* Bytes stored and packets consumed are not seen. *)
LEMMA Elsewhere == StoreByte \/ Consumer \/ Finished \/ UNCHANGED vars => UNCHANGED seen
BY DEF StoreByte, Consumer, TakePacket, ReleasePacket, Finished, vars, seen, rxSide, rxVars, txSide,
       sndSide, wireVars, bounds

(* The type of the command queue; an empty one has room. *)
LEMMA CommandQueue ==
    ASSUME TypeInv
    PROVE  /\ tx_command_queue \in Seq(Command) /\ CmdQueueLen \in Nat /\ CmdQueueLen >= 1
           /\ tx_command_queue = <<>> => HasRoom(tx_command_queue, CmdQueueLen)
<1>1. tx_command_queue \in Seq(Command) /\ CmdQueueLen \in Nat /\ CmdQueueLen >= 1
  BY EconetConstants DEF TypeInv, TypeOK, TxTypeOK
<1>2. Len(<<>>) = 0
  BY EmptySeq
<1> QED
  BY <1>1, <1>2 DEF HasRoom

Pushed(x) ==
    IF HasRoom(tx_command_queue, CmdQueueLen)
    THEN Added(tx_command_queue, tx_command_queue', x)
    ELSE UNCHANGED tx_command_queue

(* What the interrupt posts. *)
LEMMA PushedFacts ==
    ASSUME TypeInv, NEW c \in {"A", "a", "I", "R"}, NEW f \in Frame, PostCommand(IsrCommand(c, f))
    PROVE  /\ Pushed(IsrCommand(c, f))
           /\ IsrCommand(c, f).cmd = c /\ IsrCommand(c, f).flags = "NORMAL"
           /\ IsrCommand(c, f).frame = f
<1>1. IsrCommand(c, f) \in Command
  BY RecordTypes
<1>2. IsrCommand(c, f).cmd = c /\ IsrCommand(c, f).flags = "NORMAL" /\ IsrCommand(c, f).frame = f
  BY DEF IsrCommand
<1> QED
  BY <1>1, <1>2, CommandQueue, AddedFacts DEF PostCommand, QueueSend, HasRoom, Pushed

(* The three events the interrupt reports. *)
LEMMA IdleBitsIs ==
    ASSUME TypeInv, IdleBits
    PROVE  \E x \in Command : x.cmd = "I" /\ x.flags = "NORMAL" /\ Pushed(x)
<1>1. PostCommand(IsrCommand("I", NoFrame)) /\ NoFrame \in Frame
  BY RecordTypes DEF IdleBits
<1>2. IsrCommand("I", NoFrame) \in Command
  BY <1>1, RecordTypes
<1> QED
  BY <1>1, <1>2, PushedFacts

LEMMA AckReceivedIs ==
    ASSUME TypeInv, AckReceived
    PROVE  \E x \in Command : x.cmd = "a" /\ x.flags = "NORMAL" /\ Pushed(x)
<1>1. PostCommand(IsrCommand("a", NoFrame)) /\ NoFrame \in Frame
  BY RecordTypes DEF AckReceived
<1>2. IsrCommand("a", NoFrame) \in Command
  BY <1>1, RecordTypes
<1> QED
  BY <1>1, <1>2, PushedFacts

LEMMA FrameReceivedIs ==
    ASSUME TypeInv, FrameReceived
    PROVE  \E x \in Command :
              /\ x.flags = "NORMAL" /\ Pushed(x)
              /\ \/ /\ tx_is_awaiting_imm_reply /\ x.cmd = "R" /\ x.frame = ReceivedFrame
                    /\ line' = "quiet" /\ UNCHANGED goVars
                 \/ /\ ~tx_is_awaiting_imm_reply /\ x.cmd = "A" /\ PreGo
                    /\ line' = IF is_flagstream_queued THEN "flags" ELSE "quiet"
<1>1. ReceivedFrame \in Frame /\ NoFrame \in Frame
  BY RecordTypes DEF ReceivedFrame, Frame, TypeInv, TypeOK, RxTypeOK, WireTypeOK
<1>2. CASE tx_is_awaiting_imm_reply
  <2>1. PostCommand(IsrCommand("R", ReceivedFrame)) /\ line' = "quiet" /\ UNCHANGED goVars
    BY <1>2 DEF FrameReceived
  <2>2. IsrCommand("R", ReceivedFrame) \in Command
    BY <1>1, RecordTypes
  <2> QED
    BY <1>1, <1>2, <2>1, <2>2, PushedFacts
<1>3. CASE ~tx_is_awaiting_imm_reply
  <2>1. /\ PostCommand(IsrCommand("A", NoFrame)) /\ PreGo
        /\ line' = IF is_flagstream_queued THEN "flags" ELSE "quiet"
    BY <1>3 DEF FrameReceived
  <2>2. IsrCommand("A", NoFrame) \in Command
    BY <1>1, RecordTypes
  <2> QED
    BY <1>1, <1>3, <2>1, <2>2, PushedFacts
<1> QED
  BY <1>2, <1>3

(* The next command. *)
LEMMA HeadTaken ==
    ASSUME TypeInv, tx_command_queue # <<>>, tx_command_queue' = Tail(tx_command_queue)
    PROVE  Taken(tx_command_queue, tx_command_queue') /\ Head(tx_command_queue) \in Command
BY CommandQueue, TakenFacts, TakenPlaces

(* No call gives up, none is a broadcast. *)
LEMMA NoneGivesUp == TruthState => ~PostExpired /\ ~SendExpired /\ ~BroadcastSent
BY DEF TruthState, Orderly, TypeInv, TypeOK, SenderTypeOK, PostExpired, SendExpired, BroadcastSent,
       EndTransmit, TruthInv, CallPart

(* What econet_send posts. *)
LEMMA PostSendIs ==
    ASSUME TypeInv, PostSend
    PROVE  /\ SendCommand(calls[Call]) \in Command
           /\ Added(tx_command_queue, tx_command_queue', SendCommand(calls[Call]))
           /\ SendCommand(calls[Call]).cmd = "S" /\ SendCommand(calls[Call]).flags = calls[Call]
<1>1. calls[Call] \in AllKinds
  <2>1. calls \in Seq(AllKinds) /\ calls # <<>>
    BY DEF PostSend, TypeInv, TypeOK, SenderTypeOK
  <2>2. Len(calls) \in DOMAIN calls
    BY <2>1, LenProperties, EmptySeq
  <2> QED
    BY <2>1, <2>2, ElementType DEF Call
<1>2. SendCommand(calls[Call]) \in Command
  BY <1>1, RecordTypes
<1>3. SendCommand(calls[Call]).cmd = "S" /\ SendCommand(calls[Call]).flags = calls[Call]
  BY DEF SendCommand
<1> QED
  BY <1>2, <1>3, CommandQueue, AddedFacts DEF PostSend, Call

(* The transmitter sends when the bus is idle and nothing but idle reports  *)
(* is queued.                                                               *)
LEMMA StartSendIs ==
    ASSUME TruthState, StartSend
    PROVE  /\ tx_pc = "check" /\ is_data_ready /\ rx_idle /\ ~is_data_ready'
           /\ flags # "BROADCAST" /\ flags \in {"NORMAL", calls[Call]}
           /\ snd_pc = "wait" /\ notified = 0
           /\ AwaitReply /\ StartTransmit("txScout")
           /\ Only(tx_command_queue, {"I"})
<1>1. /\ tx_pc = "check" /\ is_data_ready /\ rx_idle /\ ~is_data_ready'
      /\ flags # "BROADCAST" /\ flags \in {"NORMAL", calls[Call]}
      /\ snd_pc = "wait" /\ notified = 0 /\ scout_bits = Call
  <2>1. tx_pc = "check" /\ is_data_ready /\ rx_idle /\ ~is_data_ready'
    BY DEF StartSend, TakeData
  <2>2. snd_pc = "wait" /\ notified = 0
    <3>1. StagePart
      BY DEF TruthState, TruthInv
    <3> QED
      BY <2>1, <3>1 DEF StagePart
  <2>3. flags # "BROADCAST" /\ flags \in {"NORMAL", calls[Call]} /\ scout_bits = Call
    BY <2>1, <2>2 DEF TruthState, TruthInv, CallPart
  <2> QED
    BY <2>1, <2>2, <2>3
<1>2. Call # 0
  BY <1>1, EmptySeq DEF Call, TruthState, TypeInv, TypeOK, SenderTypeOK
<1>3. AwaitReply /\ StartTransmit("txScout")
  BY <1>1, <1>2 DEF StartSend
<1>4. ~Has(tx_command_queue, "a")
  BY <1>1 DEF TruthState, TruthInv, PendingPart
<1>5. ~Has(tx_command_queue, "A")
  BY <1>1 DEF TruthState, TruthInv, QueuePart, Fresh, Stale
<1>6. ~Has(tx_command_queue, "R") /\ ~Has(tx_command_queue, "S")
  BY <1>1 DEF TruthState, TruthInv, QueuePart, StagePart
<1>7. \A i \in DOMAIN tx_command_queue : tx_command_queue[i].cmd \in {"S", "A", "a", "I", "R"}
  <2>1. tx_command_queue \in Seq(Command)
    BY CommandQueue DEF TruthState
  <2>2. \A i \in DOMAIN tx_command_queue : tx_command_queue[i] \in Command
    BY <2>1, ElementType
  <2> QED
    BY <2>2 DEF Command
<1>8. Only(tx_command_queue, {"I"})
  BY <1>4, <1>5, <1>6, <1>7 DEF Has, Only
<1> QED
  BY <1>1, <1>3, <1>8

Report == IdleBits \/ AckReceived \/ FrameReceived
Answer == WaitScout \/ WaitData \/ ScoutExpired \/ DataExpired
Sent == AckSent \/ ScoutSent \/ DataSent
NewCall == \E kind \in Kinds : Send(kind)

(* The cases of a step. *)
LEMMA Steps ==
    TruthState /\ [Next]_vars =>
        \/ UNCHANGED seen
        \/ BusActive \/ Report
        \/ TopOfLoop \/ ReceiveCommand \/ Defer \/ StartSend \/ Answer \/ Sent
        \/ NewCall \/ PostSend \/ SendReturns
        \/ Wire
BY Elsewhere, NoneGivesUp
   DEF Next, Interrupt, TxTask, TxDone, Sender, Report, Answer, Sent, NewCall

(* Every part is kept by every step. *)
LEMMA StepWire == TruthState /\ [Next]_vars => WirePart'
<1> SUFFICES ASSUME TruthState, [Next]_vars PROVE WirePart'
  OBVIOUS
<1>0. WirePart /\ Orderly
  BY DEF TruthState, TruthInv
<1> USE DEF WirePart, Transmitting
<1>1. CASE UNCHANGED seen
  BY <1>0, <1>1 DEF seen, txVars
<1>2. CASE BusActive
  BY <1>0, <1>2 DEF BusActive, txSide, txVars, wireVars
<1>3. CASE Report
  <2>1. CASE IdleBits
    BY <1>0, <2>1 DEF IdleBits, txVars
  <2>2. CASE AckReceived
    BY <1>0, <2>2 DEF AckReceived, txVars, rxSide
  <2>3. CASE FrameReceived
    BY <1>0, <2>3 DEF FrameReceived, txVars
  <2> QED
    BY <1>3, <2>1, <2>2, <2>3 DEF Report
<1>4. CASE TopOfLoop \/ Defer
  BY <1>0, <1>4 DEF TopOfLoop, Defer, rxSide, wireVars
<1>5. CASE ReceiveCommand
  BY <1>0, <1>5 DEF ReceiveCommand, StartTransmit, rxSide
<1>6. CASE StartSend
  <2>1. rx_idle' = rx_idle
    BY <1>6 DEF StartSend, rxSide
  <2> QED
    BY <1>0, <1>6, <2>1, StartSendIs DEF StartTransmit
<1>7. CASE Answer
  <2>1. CASE WaitScout
    BY <1>0, <2>1 DEF WaitScout, ScoutAnswer, SendData, StartTransmit, rxSide
  <2>2. CASE WaitData \/ ScoutExpired \/ DataExpired
    BY <1>0, <2>2 DEF WaitData, ScoutExpired, DataExpired, WaitExpired, wireVars, rxSide
  <2> QED
    BY <1>7, <2>1, <2>2 DEF Answer
<1>8. CASE Sent
  <2>1. CASE AckSent
    BY <1>0, <2>1 DEF AckSent, EndTransmit, Unanswered, rxSide
  <2>2. CASE ScoutSent
    BY <1>0, <2>2 DEF ScoutSent, EndTransmit, Unanswered, rxSide
  <2>3. CASE DataSent
    BY <1>0, <2>3 DEF DataSent, EndTransmit, Unanswered, rxSide
  <2> QED
    BY <1>8, <2>1, <2>2, <2>3 DEF Sent
<1>9. CASE NewCall \/ PostSend \/ SendReturns
  BY <1>0, <1>9 DEF NewCall, Send, PostSend, SendReturns, rxSide, txSide, txVars, wireVars
<1>10. CASE Wire
  BY <1>0, <1>10 DEF Wire, OtherStarts, FrameLost, FlagsEnd, rxSide, txSide, txVars
<1> QED
  BY <1>1, <1>2, <1>3, <1>4, <1>5, <1>6, <1>7, <1>8, <1>9, <1>10, Steps

LEMMA StepCalls == TruthState /\ [Next]_vars => CallPart'
<1> SUFFICES ASSUME TruthState, [Next]_vars PROVE CallPart'
  OBVIOUS
<1>0. /\ CallPart /\ StagePart /\ Orderly /\ TypeInv
      /\ Call \in Nat /\ calls \in Seq(AllKinds) /\ results \in Seq(Result)
      /\ snd_pc # "idle" => Call >= 1
      /\ tx_command_queue \in Seq(Command)
  BY LenProperties, EmptySeq
     DEF TruthState, TruthInv, Call, TypeInv, TypeOK, SenderTypeOK, TxTypeOK
<1>a. ASSUME UNCHANGED <<snd_pc, calls, results, bitsVars>>,
             flags' # "BROADCAST" /\ tx_pc' \notin {"abort", "txBroadcast"},
             tx_pc' \in Executing \/ (tx_pc' = "check" /\ is_data_ready')
                 => flags' \in {"NORMAL", calls[Call]},
             FlagsOk(tx_command_queue', calls[Call])
      PROVE  CallPart'
  BY <1>0, <1>a DEF CallPart, Call, bitsVars
<1>b. CallPart /\ FlagsOk(tx_command_queue, calls[Call])
      /\ flags # "BROADCAST" /\ tx_pc \notin {"abort", "txBroadcast"}
  BY <1>0 DEF CallPart
<1>1. CASE UNCHANGED seen
  BY <1>0, <1>1, <1>a, <1>b DEF seen, txVars, cmdVars, bitsVars, CallPart
<1>2. CASE BusActive
  BY <1>0, <1>2, <1>a, <1>b DEF BusActive, txSide, txVars, cmdVars, sndSide, CallPart
<1>3. CASE Report
  <2>1. UNCHANGED <<snd_pc, calls, results, bitsVars, tx_pc, flags, is_data_ready>>
    BY <1>3 DEF Report, IdleBits, AckReceived, FrameReceived, txVars, cmdVars, sndSide
  <2>2. \E x \in Command : x.flags = "NORMAL" /\ x.cmd # "S" /\ Pushed(x)
    BY <1>0, <1>3, IdleBitsIs, AckReceivedIs, FrameReceivedIs DEF Report
  <2>3. FlagsOk(tx_command_queue', calls[Call])
    BY <1>b, <2>2 DEF Pushed, Added
  <2> QED
    BY <1>a, <1>b, <2>1, <2>3 DEF CallPart
<1>4. CASE TopOfLoop \/ Defer
  BY <1>0, <1>4, <1>a, <1>b DEF TopOfLoop, Defer, sndSide, CallPart, cmdVars, Executing
<1>5. CASE ReceiveCommand
  <2>1. /\ UNCHANGED <<snd_pc, calls, results, bitsVars>> /\ tx_command_queue # <<>>
        /\ tx_command_queue' = Tail(tx_command_queue) /\ tx_pc = "recv"
        /\ tx_pc' \in {"txAck", "top", "check"}
        /\ \/ UNCHANGED <<flags, is_data_ready>> /\ tx_pc' # "check"
           \/ /\ flags' = Head(tx_command_queue).flags
              /\ is_data_ready' = (is_data_ready \/ Head(tx_command_queue).cmd = "S")
    BY <1>5 DEF ReceiveCommand, StartTransmit, cmdVars, sndSide
  <2>2. /\ FlagsOk(tx_command_queue', calls[Call])
        /\ Head(tx_command_queue).flags = "NORMAL"
           \/ (Head(tx_command_queue).flags = calls[Call] /\ Has(tx_command_queue, "S"))
    BY <1>0, <1>b, <2>1, HeadTaken DEF Taken
  <2>3. Has(tx_command_queue, "S") => calls[Call] # "BROADCAST"
    BY <1>0 DEF StagePart, CallPart
  <2> QED
    BY <1>a, <1>b, <2>1, <2>2, <2>3 DEF Executing
<1>6. CASE StartSend
  <2>1. UNCHANGED <<snd_pc, calls, results, bitsVars, flags, tx_command_queue>>
    BY <1>6 DEF StartSend, sndSide
  <2>2. tx_pc' = "txScout" /\ flags \in {"NORMAL", calls[Call]}
    BY <1>6, StartSendIs DEF StartTransmit
  <2> QED
    BY <1>a, <1>b, <2>1, <2>2 DEF Executing
<1>7. CASE Answer
  <2>1. /\ UNCHANGED <<snd_pc, calls, results, bitsVars, flags, is_data_ready>>
        /\ tx_pc' \in {"top", "txData"} /\ tx_pc \in Executing
    BY <1>7 DEF Answer, WaitScout, ScoutAnswer, SendData, StartTransmit, WaitData, ScoutExpired,
                DataExpired, WaitExpired, cmdVars, sndSide, Executing
  <2>2. \/ UNCHANGED tx_command_queue
        \/ tx_command_queue # <<>> /\ tx_command_queue' = Tail(tx_command_queue)
    BY <1>7 DEF Answer, WaitScout, WaitData, ScoutExpired, DataExpired, WaitExpired
  <2>3. FlagsOk(tx_command_queue', calls[Call])
    BY <1>0, <1>b, <2>2, HeadTaken DEF Taken
  <2> QED
    BY <1>a, <1>b, <2>1, <2>3 DEF CallPart, Executing
<1>8. CASE Sent
  <2>1. /\ UNCHANGED <<snd_pc, calls, results, bitsVars, flags, is_data_ready, tx_command_queue>>
        /\ tx_pc' = "top" \/ (tx_pc' \in {"waitScout", "waitData"} /\ tx_pc \in Executing)
    BY <1>8 DEF Sent, AckSent, ScoutSent, DataSent, EndTransmit, cmdVars, sndSide, Executing
  <2> QED
    BY <1>a, <1>b, <2>1 DEF CallPart, Executing
<1>9. CASE NewCall
  <2>1. PICK kind \in Kinds : Send(kind)
    BY <1>9 DEF NewCall
  <2>2. /\ snd_pc = "idle" /\ calls' = Append(calls, kind) /\ kind # "BROADCAST" /\ kind \in AllKinds
        /\ UNCHANGED <<tx_pc, flags, is_data_ready, tx_command_queue>>
        /\ \/ /\ results' = Append(results, [ret |-> "SEND_ERROR", imm |-> NoFrame])
              /\ snd_pc' = "idle"
           \/ /\ tx_bits' = Len(calls') /\ scout_bits' = Len(calls')
              /\ snd_pc' = "post" /\ UNCHANGED results
    BY <1>0, <2>1, EconetConstants DEF Send, ReturnResult, txSide, txVars, cmdVars, Orderly
  <2>3. Call' = Call + 1 /\ \A i \in 1..Call' : calls'[i] # "BROADCAST"
    <3>1. /\ Len(calls') = Len(calls) + 1 /\ DOMAIN calls = 1..Len(calls)
          /\ \A i \in DOMAIN calls : calls'[i] = calls[i]
          /\ calls'[Len(calls) + 1] = kind
      BY <1>0, <2>2, AppendedPlaces
    <3>2. \A i \in 1..(Len(calls) + 1) : i \in DOMAIN calls \/ i = Len(calls) + 1
      BY <1>0, <3>1 DEF Call
    <3> QED
      BY <1>0, <2>2, <3>1, <3>2 DEF CallPart, Call
  <2>4. results' = Append(results, [ret |-> "SEND_ERROR", imm |-> NoFrame])
            => Len(results') = Len(results) + 1
    BY <1>0, RecordTypes, AppendedPlaces DEF AckType
  <2>5. Len(results) = Call
    BY <1>0, <2>2 DEF CallPart
  <2>6. ~Has(tx_command_queue, "S") /\ ~is_data_ready /\ tx_pc \notin Executing
    BY <1>0, <2>2 DEF StagePart
  <2>7. FlagsOk(tx_command_queue', calls'[Call'])
    BY <1>b, <2>2, <2>6 DEF FlagsOk, Has
  <2>8. Len(results') = IF snd_pc' = "idle" THEN Call' ELSE Call' - 1
    BY <1>0, <2>2, <2>3, <2>4, <2>5
  <2>9. snd_pc' # "idle" => tx_bits' = Call' /\ scout_bits' = Call'
    BY <2>2 DEF Call
  <2> QED
    BY <1>b, <2>2, <2>3, <2>6, <2>7, <2>8, <2>9 DEF CallPart
<1>10. CASE PostSend
  <2>1. UNCHANGED <<calls, results, bitsVars, tx_pc, flags, is_data_ready>>
        /\ snd_pc = "post" /\ snd_pc' = "wait"
    BY <1>10 DEF PostSend, txVars, cmdVars
  <2>2. FlagsOk(tx_command_queue', calls[Call])
    BY <1>0, <1>10, <1>b, PostSendIs DEF Added
  <2> QED
    BY <1>0, <2>1, <2>2 DEF CallPart, Call, bitsVars
<1>11. CASE SendReturns
  <2>1. /\ UNCHANGED <<calls, bitsVars, tx_pc, flags, is_data_ready, tx_command_queue>>
        /\ snd_pc = "wait" /\ snd_pc' = "idle"
        /\ \E r \in Result : results' = Append(results, r)
    <3>1. tx_sent_ack \in AckType /\ imm_reply \in Frame /\ "SEND_ERROR" \in AckType
      BY <1>0 DEF TypeInv, TypeOK, TxTypeOK, AckType
    <3> QED
      BY <1>11, <3>1, RecordTypes DEF SendReturns, ReturnResult, txVars, cmdVars
  <2>2. Len(results') = Len(results) + 1
    BY <1>0, <2>1, AppendedPlaces
  <2>3. Len(results') = Call
    BY <1>0, <2>1, <2>2 DEF CallPart
  <2> QED
    BY <1>0, <2>1, <2>3 DEF CallPart, Call, bitsVars
<1>12. CASE Wire
  BY <1>0, <1>12, <1>a, <1>b
     DEF Wire, OtherStarts, FrameLost, FlagsEnd, txSide, txVars, cmdVars, sndSide, CallPart
<1> QED
  BY <1>1, <1>2, <1>3, <1>4, <1>5, <1>6, <1>7, <1>8, <1>9, <1>10, <1>11, <1>12, Steps

LEMMA StepStage == TruthState /\ [Next]_vars => StagePart'
<1> SUFFICES ASSUME TruthState, [Next]_vars PROVE StagePart'
  OBVIOUS
<1>0. StagePart /\ PendingPart /\ TypeInv
  BY DEF TruthState, TruthInv
<1>a. notified \in Nat /\ is_data_ready \in BOOLEAN
  BY <1>0 DEF TypeInv, TypeOK, TxTypeOK
<1>1. CASE UNCHANGED seen
  BY <1>0, <1>1 DEF seen, txVars, cmdVars, ackVars, StagePart
<1>2. CASE BusActive
  BY <1>0, <1>2 DEF BusActive, txSide, txVars, cmdVars, sndSide, ackVars, StagePart
<1>3. CASE Report
  <2>1. UNCHANGED <<snd_pc, tx_pc, is_data_ready, notified>>
    BY <1>3 DEF Report, IdleBits, AckReceived, FrameReceived, txVars, cmdVars, sndSide, ackVars
  <2>2. \E x \in Command : x.cmd # "S" /\ Pushed(x)
    BY <1>0, <1>3, IdleBitsIs, AckReceivedIs, FrameReceivedIs DEF Report
  <2>3. Has(tx_command_queue', "S") <=> Has(tx_command_queue, "S")
    BY <2>2 DEF Pushed, Added
  <2> QED
    BY <1>0, <2>1, <2>3 DEF StagePart
<1>4. CASE TopOfLoop \/ Defer
  BY <1>0, <1>4 DEF TopOfLoop, Defer, sndSide, cmdVars, KeepData, ackVars, StagePart, Executing
<1>5. CASE ReceiveCommand
  <2>1. /\ UNCHANGED <<snd_pc, notified>> /\ tx_command_queue # <<>>
        /\ tx_command_queue' = Tail(tx_command_queue) /\ tx_pc = "recv"
        /\ tx_pc' \in {"txAck", "top", "check"}
        /\ \/ is_data_ready' = is_data_ready /\ Head(tx_command_queue).cmd # "S"
           \/ is_data_ready' = (is_data_ready \/ Head(tx_command_queue).cmd = "S")
    BY <1>5 DEF ReceiveCommand, StartTransmit, cmdVars, sndSide, ackVars
  <2>2. Taken(tx_command_queue, tx_command_queue')
    BY <1>0, <2>1, HeadTaken
  <2>3. Has(tx_command_queue', "S") =>
            Has(tx_command_queue, "S") /\ Head(tx_command_queue).cmd # "S"
    BY <1>0, <2>2 DEF Taken, PendingPart
  <2>4. Head(tx_command_queue).cmd = "S" => Has(tx_command_queue, "S")
    BY <2>2 DEF Taken
  <2> QED
    BY <1>0, <1>a, <2>1, <2>3, <2>4 DEF StagePart, Executing
<1>6. CASE StartSend
  <2>1. UNCHANGED <<snd_pc, notified, tx_command_queue>>
    BY <1>6 DEF StartSend, sndSide, ackVars
  <2> QED
    BY <1>0, <1>6, <2>1, StartSendIs DEF StagePart, StartTransmit
<1>7. CASE Answer
  <2>1. /\ UNCHANGED <<snd_pc, is_data_ready>> /\ tx_pc \in Executing
        /\ \/ tx_pc' = "top" /\ notified' \in {notified, notified + 1}
           \/ tx_pc' = "txData" /\ notified' = notified
    BY <1>7 DEF Answer, WaitScout, ScoutAnswer, SendData, StartTransmit, WaitData, ScoutExpired,
                DataExpired, WaitExpired, cmdVars, sndSide, Executing, CompleteTxCommand, ackVars
  <2>2. \/ UNCHANGED tx_command_queue
        \/ tx_command_queue # <<>> /\ tx_command_queue' = Tail(tx_command_queue)
    BY <1>7 DEF Answer, WaitScout, WaitData, ScoutExpired, DataExpired, WaitExpired
  <2>3. Has(tx_command_queue', "S") => Has(tx_command_queue, "S")
    BY <1>0, <2>2, HeadTaken DEF Taken
  <2> QED
    BY <1>0, <1>a, <2>1, <2>3 DEF StagePart, Executing
<1>8. CASE Sent
  <2>1. /\ UNCHANGED <<snd_pc, notified, is_data_ready, tx_command_queue>>
        /\ tx_pc' = "top" \/ (tx_pc' \in {"waitScout", "waitData"} /\ tx_pc \in Executing)
    BY <1>8 DEF Sent, AckSent, ScoutSent, DataSent, EndTransmit, cmdVars, sndSide, ackVars, Executing
  <2> QED
    BY <1>0, <2>1 DEF StagePart, Executing
<1>9. CASE NewCall
  <2>1. PICK kind \in Kinds : Send(kind)
    BY <1>9 DEF NewCall
  <2>2. snd_pc = "idle" /\ UNCHANGED <<tx_pc, is_data_ready, tx_command_queue, notified>>
    BY <2>1 DEF Send, txSide, txVars, cmdVars, ackVars
  <2> QED
    BY <1>0, <2>2 DEF StagePart
<1>10. CASE PostSend
  <2>1. UNCHANGED <<tx_pc, is_data_ready, notified>> /\ snd_pc = "post" /\ snd_pc' = "wait"
    BY <1>10 DEF PostSend, txVars, cmdVars, ackVars
  <2> QED
    BY <1>0, <2>1 DEF StagePart
<1>11. CASE SendReturns
  <2>1. UNCHANGED <<tx_pc, is_data_ready, tx_command_queue>> /\ notified > 0 /\ notified' = 0
    BY <1>11 DEF SendReturns, txVars, cmdVars
  <2> QED
    BY <1>0, <2>1 DEF StagePart
<1>12. CASE Wire
  BY <1>0, <1>12
     DEF Wire, OtherStarts, FrameLost, FlagsEnd, txSide, txVars, cmdVars, sndSide, ackVars, StagePart
<1> QED
  BY <1>1, <1>2, <1>3, <1>4, <1>5, <1>6, <1>7, <1>8, <1>9, <1>10, <1>11, <1>12, Steps

LEMMA StepAwait == TruthState /\ [Next]_vars => AwaitPart'
<1> SUFFICES ASSUME TruthState, [Next]_vars PROVE AwaitPart'
  OBVIOUS
<1>0. AwaitPart /\ StagePart /\ TypeInv /\ tx_pc # "txBroadcast"
  BY DEF TruthState, TruthInv, CallPart
<1>a. notified \in Nat /\ tx_is_awaiting_imm_reply \in BOOLEAN
  BY <1>0 DEF TypeInv, TypeOK, TxTypeOK
<1> USE DEF AwaitPart, WithReply
<1>1. CASE UNCHANGED seen
  BY <1>0, <1>1 DEF seen, txVars, cmdVars, ackVars, immVars
<1>2. CASE BusActive
  BY <1>0, <1>2 DEF BusActive, txSide, txVars, cmdVars, ackVars, immVars
<1>3. CASE Report
  <2>1. UNCHANGED <<tx_pc, flags, tx_is_awaiting_imm_reply, notified>>
    BY <1>3 DEF Report, IdleBits, AckReceived, FrameReceived, txVars, cmdVars, immVars, ackVars
  <2> QED
    BY <1>0, <2>1
<1>4. CASE TopOfLoop \/ Defer
  BY <1>0, <1>4 DEF TopOfLoop, Defer, cmdVars, immVars, ackVars
<1>5. CASE ReceiveCommand
  <2>1. tx_pc = "recv" /\ tx_pc' \in {"txAck", "top", "check"} /\ UNCHANGED immVars
    BY <1>5 DEF ReceiveCommand, StartTransmit
  <2> QED
    BY <1>0, <2>1 DEF immVars
<1>6. CASE StartSend
  <2>1. flags' = flags /\ tx_pc' = "txScout" /\ tx_pc = "check"
        /\ tx_is_awaiting_imm_reply' = (tx_is_awaiting_imm_reply \/ flags = "IMM_WITH_REPLY")
    BY <1>6, StartSendIs DEF StartSend, StartTransmit, AwaitReply
  <2> QED
    BY <1>0, <1>a, <2>1
<1>7. CASE Answer
  <2>1. UNCHANGED <<flags, tx_is_awaiting_imm_reply>> /\ notified = 0
    BY <1>0, <1>7 DEF Answer, WaitScout, WaitData, ScoutExpired, DataExpired, WaitExpired, cmdVars, immVars,
                StagePart, Executing
  <2>2. CASE tx_pc = "waitScout"
    <3>1. \/ tx_pc' = "top" /\ notified' = 1
          \/ tx_pc' = "top" /\ flags # "IMM_WITH_REPLY"
          \/ tx_pc' = "txData" /\ Head(tx_command_queue).cmd \notin {"I", "R"}
      BY <1>7, <2>1, <2>2 DEF Answer, WaitScout, ScoutAnswer, SendData, StartTransmit, WaitData,
                ScoutExpired, DataExpired, WaitExpired, CompleteTxCommand, ackVars
    <3>2. tx_pc' = "txData" => tx_command_queue # <<>>
      BY <1>7, <2>2 DEF Answer, WaitScout, WaitData, ScoutExpired, DataExpired, WaitExpired
    <3>3. tx_pc' = "txData" => flags # "IMM_WITH_REPLY"
      BY <2>2, <3>1, <3>2 DEF TruthState, TruthInv, ReplyPart, Opens
    <3> QED
      BY <1>0, <2>1, <2>2, <3>1, <3>3
  <2>3. CASE tx_pc = "waitData"
    <3>1. tx_pc' = "top"
      BY <1>7, <2>3 DEF Answer, WaitScout, WaitData, ScoutExpired, DataExpired, WaitExpired
    <3> QED
      BY <1>0, <2>1, <2>3, <3>1
  <2> QED
    BY <1>7, <2>2, <2>3 DEF Answer, WaitScout, WaitData, ScoutExpired, DataExpired, WaitExpired
<1>8. CASE Sent
  <2>1. /\ UNCHANGED <<flags, tx_is_awaiting_imm_reply>>
        /\ \/ tx_pc = "txAck" /\ tx_pc' = "top"
           \/ tx_pc = "txScout" /\ tx_pc' = "waitScout"
           \/ tx_pc = "txData" /\ tx_pc' = "waitData"
    BY <1>8 DEF Sent, AckSent, ScoutSent, DataSent, EndTransmit, cmdVars, immVars
  <2> QED
    BY <1>0, <2>1
<1>9. CASE NewCall
  <2>1. UNCHANGED <<tx_pc, flags, tx_is_awaiting_imm_reply, notified>>
    BY <1>9 DEF NewCall, Send, txSide, txVars, cmdVars, immVars, ackVars
  <2> QED
    BY <1>0, <2>1
<1>10. CASE PostSend
  BY <1>0, <1>10 DEF PostSend, txVars, cmdVars, immVars, ackVars
<1>11. CASE SendReturns
  <2>1. UNCHANGED <<tx_pc, flags, tx_is_awaiting_imm_reply>> /\ TxBlocked
    BY <1>11 DEF SendReturns, txVars, cmdVars, immVars
  <2>2. tx_pc # "top"
    BY <2>1 DEF TxBlocked, Transmitting, Receiving
  <2> QED
    BY <1>0, <2>1, <2>2
<1>12. CASE Wire
  BY <1>0, <1>12
     DEF Wire, OtherStarts, FrameLost, FlagsEnd, txSide, txVars, cmdVars, immVars, ackVars
<1> QED
  BY <1>1, <1>2, <1>3, <1>4, <1>5, <1>6, <1>7, <1>8, <1>9, <1>10, <1>11, <1>12, Steps

(* Between two events of the wire the transmitter has got to where it waits. *)
LEMMA NothingOvertaken ==
    ASSUME WireEvent, tx_pc \notin Transmitting, tx_command_queue # <<>>
    PROVE  tx_run # "overtaken" /\ tx_run' = IF tx_run = "late" THEN "late" ELSE "overtaken"
BY DEF WireEvent, TxBlocked

(* An order to acknowledge is queued only when none was: the frame it is for *)
(* held the line, or came after a call was done.                             *)
LEMMA NoOrderBefore ==
    ASSUME TruthState, FrameReceived
    PROVE  ~Has(tx_command_queue, "A") /\ tx_pc \notin Transmitting /\ ~rx_idle
<1>0. QueuePart /\ WirePart
  BY DEF TruthState, TruthInv
<1>1. WireEvent /\ line \in {"scout", "data", "reply"} /\ ~rx_idle
  BY DEF FrameReceived
<1>2. tx_pc \notin Transmitting
  BY <1>0, <1>1 DEF WirePart
<1>3. ASSUME Has(tx_command_queue, "A") PROVE FALSE
  <2>1. tx_run = "overtaken"
    BY <1>0, <1>1, <1>2, <1>3 DEF QueuePart, Fresh, Stale, Transmitting
  <2>2. tx_command_queue # <<>>
    BY <1>3, NothingQueued
  <2> QED
    BY <1>1, <1>2, <2>1, <2>2, NothingOvertaken
<1> QED
  BY <1>1, <1>2, <1>3

(* The sender runs while the transmitter waits or acknowledges. *)
LEMMA SenderRuns ==
    ASSUME TruthState, TxBlocked, tx_pc \notin Executing
    PROVE  \/ tx_pc = "recv" /\ tx_command_queue = <<>>
           \/ tx_pc = "txAck" /\ Only(tx_command_queue, {"I", "S"})
BY DEF TxBlocked, Transmitting, Receiving, Executing, TruthState, TruthInv, QueuePart, CallPart

LEMMA StepQueue == TruthState /\ [Next]_vars => QueuePart'
<1> SUFFICES ASSUME TruthState, [Next]_vars PROVE QueuePart'
  OBVIOUS
<1>0. QueuePart /\ WirePart /\ StagePart /\ AwaitPart /\ TypeInv /\ tx_pc # "txBroadcast"
  BY DEF TruthState, TruthInv, CallPart
<1>a. /\ notified \in Nat /\ tx_run \in {"late", "runs", "overtaken"}
      /\ rx_idle \in BOOLEAN /\ tx_is_in_progress \in BOOLEAN
  BY <1>0 DEF TypeInv, TypeOK, TxTypeOK, RxTypeOK
<1> USE DEF QueuePart, WithReply, Fresh, Stale, Transmitting
<1>1. CASE UNCHANGED seen
  BY <1>0, <1>1 DEF seen, txVars, cmdVars, ackVars, goVars
<1>2. CASE BusActive
  BY <1>0, <1>2 DEF BusActive, txSide, txVars, cmdVars, ackVars, goVars, wireVars
<1>3. CASE Report
  <2>0. UNCHANGED <<tx_pc, flags, notified>> /\ WireEvent
    BY <1>3 DEF Report, IdleBits, AckReceived, FrameReceived, txVars, cmdVars, ackVars
  <2>1. (tx_pc = "check")' => tx_run' # "late"
    BY <1>0, <1>a, <2>0 DEF WireEvent, TxBlocked, Receiving
  <2>2. CASE IdleBits
    <3>1. /\ line = "quiet" /\ ~tx_is_in_progress /\ line' = line
          /\ UNCHANGED <<tx_is_in_progress>>
      BY <2>2 DEF IdleBits, goVars
    <3>2. PICK x \in Command : x.cmd = "I" /\ Pushed(x)
      BY <1>0, <2>2, IdleBitsIs
    <3>3. /\ OrderLast(tx_command_queue')
          /\ Has(tx_command_queue', "R") => Has(tx_command_queue, "R")
          /\ Has(tx_command_queue', "A") => Has(tx_command_queue, "A")
          /\ tx_pc = "txAck" => Only(tx_command_queue', {"I", "S"})
          /\ tx_pc = "txScout" => Only(tx_command_queue', {"I"})
      BY <1>0, <3>2 DEF Pushed, Added
    <3>4. ASSUME Has(tx_command_queue, "A"), tx_pc # "txData"
          PROVE  /\ tx_pc = "waitData" \/ notified = 1
                 /\ tx_pc \notin Transmitting
                 /\ tx_run' = "overtaken"
      <4>1. tx_command_queue # <<>>
        BY <3>4, NothingQueued
      <4> QED
        BY <1>0, <2>0, <3>1, <3>4, <4>1, NothingOvertaken
    <3> QED
      BY <1>0, <2>0, <2>1, <3>1, <3>3, <3>4
  <2>3. CASE AckReceived
    <3>1. line = "ack" /\ tx_pc \notin Transmitting /\ ~Has(tx_command_queue, "A")
      BY <1>0, <2>3 DEF AckReceived, WirePart
    <3>2. PICK x \in Command : x.cmd = "a" /\ Pushed(x)
      BY <1>0, <2>3, AckReceivedIs
    <3>3. /\ OrderLast(tx_command_queue')
          /\ Has(tx_command_queue', "R") => Has(tx_command_queue, "R")
          /\ ~Has(tx_command_queue', "A")
      BY <1>0, <3>1, <3>2 DEF Pushed, Added
    <3> QED
      BY <1>0, <2>0, <2>1, <3>1, <3>3
  <2>4. CASE FrameReceived
    <3>1. ~Has(tx_command_queue, "A") /\ tx_pc \notin Transmitting /\ ~rx_idle
      BY <2>4, NoOrderBefore
    <3>2. PICK x \in Command :
              /\ Pushed(x)
              /\ \/ tx_is_awaiting_imm_reply /\ x.cmd = "R"
                 \/ x.cmd = "A" /\ PreGo /\ line' \in {"flags", "quiet"}
      BY <1>0, <2>4, FrameReceivedIs
    <3>3. OrderLast(tx_command_queue')
          /\ \A c : Has(tx_command_queue', c) => Has(tx_command_queue, c) \/ x.cmd = c
      BY <1>0, <3>1, <3>2 DEF Pushed, Added
    <3>4. rx_idle' = rx_idle
      BY <2>4 DEF FrameReceived
    <3>5. Has(tx_command_queue', "A") => x.cmd = "A"
      BY <3>1, <3>3
    <3>6. Has(tx_command_queue', "R") =>
              (tx_pc = "waitScout" /\ WithReply) \/ (notified = 1 /\ tx_pc # "txAck")
      BY <1>0, <3>1, <3>2, <3>3 DEF AwaitPart
    <3> QED
      BY <2>0, <2>1, <3>1, <3>2, <3>3, <3>4, <3>5, <3>6 DEF PreGo
  <2> QED
    BY <1>3, <2>2, <2>3, <2>4 DEF Report
<1>4. CASE TopOfLoop \/ Defer
  <2>1. /\ UNCHANGED <<tx_command_queue, rx_idle, line, notified, tx_is_in_progress, flags>>
        /\ TxRuns /\ tx_pc \in {"top", "check"} /\ tx_pc' \in {"recv", "top"}
    BY <1>4 DEF TopOfLoop, Defer, rxSide, ackVars, wireVars, goVars, cmdVars
  <2> QED
    BY <1>0, <1>a, <2>1 DEF TxRuns
<1>5. CASE ReceiveCommand
  <2>1. /\ UNCHANGED <<rx_idle, notified>> /\ tx_command_queue # <<>> /\ TxRuns
        /\ tx_command_queue' = Tail(tx_command_queue) /\ tx_pc = "recv"
        /\ \/ Head(tx_command_queue).cmd = "A" /\ tx_pc' = "txAck"
           \/ tx_pc' \in {"top", "check"} /\ UNCHANGED <<line, tx_is_in_progress>>
    BY <1>5 DEF ReceiveCommand, StartTransmit, rxSide, ackVars, goVars
  <2>2. /\ OrderLast(tx_command_queue')
        /\ Head(tx_command_queue).cmd = "A" => Only(tx_command_queue', {"I"})
        /\ Has(tx_command_queue', "R") => Has(tx_command_queue, "R")
        /\ Has(tx_command_queue', "A") => Has(tx_command_queue, "A")
    BY <1>0, <2>1, HeadTaken DEF Taken
  <2>3. ASSUME Only(tx_command_queue', {"I"})
        PROVE  /\ Only(tx_command_queue', {"I", "S"})
               /\ ~Has(tx_command_queue', "A") /\ ~Has(tx_command_queue', "R")
    BY <2>3 DEF Only, Has
  <2>4. CASE Head(tx_command_queue).cmd = "A" /\ tx_pc' = "txAck"
    BY <2>2, <2>3, <2>4
  <2>5. CASE tx_pc' \in {"top", "check"} /\ UNCHANGED <<line, tx_is_in_progress>>
    BY <1>0, <1>a, <2>1, <2>2, <2>5 DEF TxRuns
  <2> QED
    BY <2>1, <2>4, <2>5
<1>6. CASE StartSend
  <2>1. UNCHANGED tx_command_queue /\ tx_pc' = "txScout" /\ Only(tx_command_queue, {"I"})
    BY <1>6, StartSendIs DEF StartSend, StartTransmit
  <2>2. ~Has(tx_command_queue, "A") /\ ~Has(tx_command_queue, "R")
    BY <2>1 DEF Only, Has
  <2> QED
    BY <1>0, <2>1, <2>2
<1>7. CASE Answer
  <2>0. tx_pc \in Executing /\ notified = 0
    BY <1>0, <1>7 DEF Answer, WaitScout, WaitData, ScoutExpired, DataExpired, WaitExpired, Executing,
                      StagePart
  <2>1. CASE WaitScout
    <3>1. /\ UNCHANGED <<rx_idle, flags>> /\ tx_command_queue # <<>> /\ tx_pc = "waitScout"
          /\ tx_command_queue' = Tail(tx_command_queue)
          /\ \/ /\ tx_pc' = "top" /\ UNCHANGED <<line, tx_is_in_progress>>
                /\ flags = "IMM_WITH_REPLY" /\ Head(tx_command_queue).cmd \in {"I", "R"}
                   => notified' = 1
             \/ tx_pc' = "txData" /\ line' \in {"ours", "clash"}
                /\ Head(tx_command_queue).cmd \notin {"I", "R"}
      BY <1>a, <2>0, <2>1 DEF WaitScout, ScoutAnswer, SendData, StartTransmit, CompleteTxCommand, rxSide,
                 ackVars, goVars, cmdVars
    <3>2. /\ OrderLast(tx_command_queue')
          /\ Has(tx_command_queue', "R") => Has(tx_command_queue, "R")
          /\ Has(tx_command_queue', "A") => Has(tx_command_queue, "A")
      BY <1>0, <3>1, HeadTaken DEF Taken
    <3>3. Has(tx_command_queue', "R") => tx_pc' = "top" /\ notified' = 1
      <4>1. Has(tx_command_queue, "R") => WithReply
        BY <1>0, <2>0
      <4>2. WithReply => Head(tx_command_queue).cmd \in {"I", "R"}
        BY <3>1 DEF TruthState, TruthInv, ReplyPart, Opens
      <4> QED
        BY <3>1, <3>2, <4>1, <4>2
    <3>4. Has(tx_command_queue', "A") => line # "ack" /\ Fresh
      BY <1>0, <2>0, <3>1, <3>2
    <3> QED
      BY <3>1, <3>2, <3>3, <3>4
  <2>2. CASE WaitData
    <3>1. /\ UNCHANGED <<rx_idle, line, tx_is_in_progress>> /\ tx_command_queue # <<>>
          /\ tx_command_queue' = Tail(tx_command_queue) /\ tx_pc = "waitData"
          /\ notified' = notified + 1 /\ tx_pc' = "top" /\ TxRuns
      BY <2>2 DEF WaitData, CompleteTxCommand, rxSide, goVars, wireVars
    <3>2. /\ OrderLast(tx_command_queue')
          /\ Has(tx_command_queue', "A") => Has(tx_command_queue, "A")
      BY <1>0, <3>1, HeadTaken DEF Taken
    <3> QED
      BY <1>0, <1>a, <2>0, <3>1, <3>2 DEF TxRuns
  <2>3. CASE ScoutExpired \/ DataExpired
    <3>1. tx_command_queue = <<>> /\ tx_pc' = "top" /\ UNCHANGED tx_command_queue
      BY <2>3 DEF ScoutExpired, DataExpired, WaitExpired
    <3> QED
      BY <1>0, <3>1, NothingQueued
  <2> QED
    BY <1>7, <2>1, <2>2, <2>3 DEF Answer
<1>8. CASE Sent
  <2>1. CASE AckSent \/ ScoutSent
    <3>1. /\ UNCHANGED tx_command_queue /\ tx_pc' \in {"top", "waitScout"}
          /\ Only(tx_command_queue, {"I", "S"}) \/ Only(tx_command_queue, {"I"})
      BY <1>0, <2>1 DEF AckSent, ScoutSent, EndTransmit
    <3>2. ~Has(tx_command_queue, "A") /\ ~Has(tx_command_queue, "R")
      BY <3>1 DEF Only, Has
    <3> QED
      BY <1>0, <3>1, <3>2
  <2>2. CASE DataSent
    <3>1. /\ UNCHANGED <<tx_command_queue, rx_idle, notified>> /\ ~rx_idle /\ tx_run' = "runs"
          /\ tx_pc = "txData" /\ tx_pc' = "waitData"
          /\ peer = 0 => line' \in {"other", "quiet"}
      BY <2>2 DEF DataSent, EndTransmit, rxSide, ackVars, Unanswered
    <3>2. ~Has(tx_command_queue, "R")
      BY <1>0, <3>1 DEF StagePart, Executing
    <3>3. Has(tx_command_queue, "A") => peer = 0
      BY <3>1, NothingQueued DEF TruthState, TruthInv, DataPart
    <3> QED
      BY <1>0, <3>1, <3>2, <3>3
  <2> QED
    BY <1>8, <2>1, <2>2 DEF Sent
<1>9. CASE NewCall
  <2>1. UNCHANGED <<tx_command_queue, rx_idle, tx_pc, flags, notified, line, tx_is_in_progress, tx_run>>
    BY <1>9 DEF NewCall, Send, rxSide, txSide, txVars, cmdVars, ackVars, goVars, wireVars
  <2> QED
    BY <1>0, <2>1
<1>10. CASE PostSend
  <2>1. /\ UNCHANGED tx_pc /\ TxBlocked /\ snd_pc = "post"
    BY <1>10 DEF PostSend, txVars
  <2>2. tx_pc \notin Executing
    BY <1>0, <2>1 DEF StagePart
  <2>3. \/ tx_pc = "recv" /\ tx_command_queue = <<>>
        \/ tx_pc = "txAck" /\ Only(tx_command_queue, {"I", "S"})
    BY <2>1, <2>2, SenderRuns
  <2>4. ~Has(tx_command_queue, "A") /\ ~Has(tx_command_queue, "R")
    BY <2>3, NothingQueued DEF Only, Has
  <2>5. /\ OrderLast(tx_command_queue')
        /\ ~Has(tx_command_queue', "A") /\ ~Has(tx_command_queue', "R")
        /\ Only(tx_command_queue, {"I", "S"}) => Only(tx_command_queue', {"I", "S"})
    BY <1>0, <1>10, <2>4, PostSendIs DEF Added
  <2> QED
    BY <2>1, <2>3, <2>5
<1>11. CASE SendReturns
  <2>1. UNCHANGED <<tx_command_queue, rx_idle, tx_pc, flags, line, tx_is_in_progress, tx_run>>
        /\ TxBlocked /\ notified > 0
    BY <1>11 DEF SendReturns, rxSide, txVars, cmdVars, goVars, wireVars
  <2>2. tx_pc \notin Executing
    BY <1>0, <2>1 DEF StagePart
  <2>3. \/ tx_pc = "recv" /\ tx_command_queue = <<>>
        \/ tx_pc = "txAck" /\ Only(tx_command_queue, {"I", "S"})
    BY <2>1, <2>2, SenderRuns
  <2>4. ~Has(tx_command_queue, "A") /\ ~Has(tx_command_queue, "R")
    BY <2>3, NothingQueued DEF Only, Has
  <2> QED
    BY <1>0, <2>1, <2>3, <2>4
<1>12. CASE Wire
  <2>1. UNCHANGED <<tx_command_queue, rx_idle, tx_pc, flags, notified, tx_is_in_progress, tx_run>>
    BY <1>12 DEF Wire, OtherStarts, FrameLost, FlagsEnd, rxSide, txSide, txVars, cmdVars, ackVars, goVars
  <2>2. \/ line = "quiet" /\ rx_idle /\ line' \in {"scout", "other"}
        \/ line \in {"ack", "reply", "scout", "data", "other"} /\ line' = "quiet"
        \/ line = "flags" /\ line' = "quiet"
    BY <1>12 DEF Wire, OtherStarts, FrameLost, FlagsEnd, TruthState, Orderly
  <2> QED
    BY <1>0, <2>1, <2>2 DEF WirePart
<1> QED
  BY <1>1, <1>2, <1>3, <1>4, <1>5, <1>6, <1>7, <1>8, <1>9, <1>10, <1>11, <1>12, Steps

LEMMA StepPending == TruthState /\ [Next]_vars => PendingPart'
<1> SUFFICES ASSUME TruthState, [Next]_vars PROVE PendingPart'
  OBVIOUS
<1>0. PendingPart /\ QueuePart /\ WirePart /\ StagePart /\ TypeInv
  BY DEF TruthState, TruthInv
<1>a. /\ tx_run \in {"late", "runs", "overtaken"} /\ rx_idle \in BOOLEAN /\ is_data_ready \in BOOLEAN
      /\ tx_command_queue \in Seq(Command) /\ Len(tx_command_queue) \in Nat
  BY <1>0, LenProperties DEF TypeInv, TypeOK, TxTypeOK, RxTypeOK
<1>b. ASSUME ~Has(tx_command_queue', "S"), ~is_data_ready' PROVE PendingPart'
  BY <1>b DEF PendingPart
<1>1. CASE UNCHANGED seen
  BY <1>0, <1>1 DEF PendingPart, seen, txVars, cmdVars
<1>2. CASE BusActive
  BY <1>0, <1>2 DEF PendingPart, BusActive, txSide, txVars, cmdVars, wireVars
<1>3. CASE Report
  <2>0. UNCHANGED <<tx_pc, is_data_ready>> /\ WireEvent
    BY <1>3 DEF Report, IdleBits, AckReceived, FrameReceived, txVars, cmdVars
  <2>1. tx_pc \notin Transmitting /\ line' # "ack"
    <3>1. CASE IdleBits
      BY <1>0, <3>1 DEF IdleBits, WirePart
    <3>2. CASE AckReceived
      BY <1>0, <3>2 DEF AckReceived, WirePart
    <3>3. CASE FrameReceived
      BY <1>0, <3>3, NoOrderBefore, FrameReceivedIs
    <3> QED
      BY <1>3, <3>1, <3>2, <3>3 DEF Report
  <2>2. PICK x \in Command :
            /\ x.cmd # "S" /\ Pushed(x)
            /\ x.cmd = "I" \/ (~rx_idle /\ rx_idle' = rx_idle)
            /\ x.cmd = "a" => line = "ack"
    <3>1. CASE IdleBits
      BY <1>0, <3>1, IdleBitsIs
    <3>2. CASE AckReceived
      <4>1. line = "ack" /\ ~rx_idle /\ rx_idle' = rx_idle
        BY <3>2 DEF AckReceived, rxSide
      <4> QED
        BY <1>0, <3>2, <4>1, AckReceivedIs
    <3>3. CASE FrameReceived
      <4>1. ~rx_idle /\ rx_idle' = rx_idle
        BY <3>3 DEF FrameReceived
      <4> QED
        BY <1>0, <3>3, <4>1, FrameReceivedIs
    <3> QED
      BY <1>3, <3>1, <3>2, <3>3 DEF Report
  <2>3. Has(tx_command_queue', "S") => Has(tx_command_queue, "S")
    BY <2>2 DEF Pushed, Added
  <2>4. ASSUME Has(tx_command_queue, "S")
        PROVE  /\ tx_run' = "overtaken" /\ SendBehind(tx_command_queue, 0)
    <3>1. tx_command_queue # <<>>
      BY <2>4, NothingQueued
    <3>2. tx_run # "overtaken" /\ tx_run' = IF tx_run = "late" THEN "late" ELSE "overtaken"
      BY <2>0, <2>1, <3>1, NothingOvertaken
    <3> QED
      BY <1>0, <2>4, <3>2 DEF PendingPart
  <2>5. ASSUME Has(tx_command_queue, "S")
        PROVE  \/ SendBehind(tx_command_queue', 0)
               \/ /\ SendBehind(tx_command_queue', 1)
                  /\ tx_command_queue'[Len(tx_command_queue')].cmd = "I" \/ ~rx_idle'
    BY <2>2, <2>4, <2>5 DEF Pushed, Added
  <2>6. ASSUME is_data_ready
        PROVE  AckFirst(tx_command_queue')
    BY <1>0, <2>2, <2>6 DEF PendingPart, Pushed, Added
  <2>7. ASSUME is_data_ready, tx_pc = "check"
        PROVE  tx_run' = "overtaken" /\ ~Has(tx_command_queue, "a")
    <3>1. ~TxBlocked
      BY <2>7 DEF TxBlocked, Transmitting, Receiving
    <3> QED
      BY <1>0, <1>a, <2>0, <2>7, <3>1 DEF WireEvent, PendingPart, QueuePart
  <2>8. ASSUME is_data_ready, tx_pc = "check", Has(tx_command_queue', "a")
        PROVE  ~rx_idle'
    <3>1. x.cmd = "a"
      BY <2>2, <2>7, <2>8 DEF Pushed, Added
    <3> QED
      BY <2>2, <3>1
  <2> QED
    BY <2>0, <2>1, <2>3, <2>4, <2>5, <2>6, <2>7, <2>8 DEF PendingPart
<1>4. CASE TopOfLoop \/ Defer
  <2>1. /\ UNCHANGED <<tx_command_queue, rx_idle, line, is_data_ready>>
        /\ TxRuns /\ tx_pc' \in {"recv", "top"}
    BY <1>4 DEF TopOfLoop, Defer, rxSide, wireVars, cmdVars, KeepData
  <2> QED
    BY <1>0, <1>a, <2>1 DEF TxRuns, PendingPart, Transmitting
<1>5. CASE ReceiveCommand
  <2>0. /\ UNCHANGED rx_idle /\ tx_command_queue # <<>> /\ TxRuns
        /\ tx_command_queue' = Tail(tx_command_queue) /\ tx_pc = "recv"
        /\ \/ /\ Head(tx_command_queue).cmd = "A" /\ tx_pc' = "txAck"
              /\ line' \in {"ours", "clash"} /\ UNCHANGED is_data_ready
           \/ /\ Head(tx_command_queue).cmd \in {"R", "S", "I", "a"}
              /\ tx_pc' \in {"top", "check"} /\ UNCHANGED line
              /\ Head(tx_command_queue).cmd # "S" => UNCHANGED is_data_ready
    BY <1>a, <1>5 DEF ReceiveCommand, StartTransmit, rxSide, cmdVars
  <2> DEFINE q == tx_command_queue
             r == tx_command_queue'
  <2>1. Taken(q, r)
    BY <1>0, <2>0, HeadTaken
  <2>2. tx_run' # "late" /\ (tx_run = "overtaken" => tx_run' = "overtaken")
    BY <1>a, <2>0 DEF TxRuns
  <2>3. ASSUME Has(r, "S")
        PROVE  /\ Head(q).cmd # "S" /\ Head(q).cmd # "A" /\ Has(q, "S")
               /\ Len(q) > 1 /\ r[Len(r)] = q[Len(q)]
    <3>1. Has(q, "S")
      BY <2>1, <2>3 DEF Taken
    <3>2. Head(q).cmd # "S"
      BY <1>0, <2>1, <2>3, <3>1 DEF Taken, PendingPart
    <3>3. Head(q).cmd # "A"
      <4>1. Head(q).cmd = "A" => Only(r, {"I"})
        BY <1>0, <2>1 DEF Taken, QueuePart
      <4> QED
        BY <2>3, <4>1 DEF Only, Has
    <3>4. r # <<>>
      BY <2>3, NothingQueued
    <3> QED
      BY <2>1, <3>1, <3>2, <3>3, <3>4 DEF Taken
  <2>4. ASSUME Has(r, "S")
        PROVE  /\ line' # "ack"
               /\ \/ SendBehind(r, 0)
                  \/ /\ SendBehind(r, 1)
                     /\ tx_run' = "overtaken" /\ tx_pc' \notin Transmitting
                     /\ r[Len(r)].cmd = "I" \/ ~rx_idle'
    <3>1. SendBehind(q, 0) => SendBehind(r, 0)
      BY <2>1, <2>3, <2>4 DEF Taken
    <3>2. SendBehind(q, 1) => SendBehind(r, 1)
      BY <2>1, <2>3, <2>4 DEF Taken
    <3> QED
      BY <1>0, <2>0, <2>2, <2>3, <2>4, <3>1, <3>2 DEF PendingPart, Transmitting
  <2>5. ASSUME is_data_ready
        PROVE  ~Has(r, "a") /\ AckFirst(r) /\ line' # "ack"
    <3>1. ~Has(r, "a")
      BY <1>0, <2>1, <2>5 DEF PendingPart, Taken
    <3> QED
      BY <1>0, <2>0, <2>5, <3>1 DEF PendingPart, AckFirst, Has
  <2>6. ASSUME Head(q).cmd = "S"
        PROVE  /\ AckFirst(r)
               /\ Has(r, "a") => ~rx_idle' /\ tx_run' = "overtaken"
               /\ line' = "ack" => r = <<>>
    <3>1. Has(q, "S")
      BY <2>1, <2>6 DEF Taken
    <3>2. SendBehind(q, 0) => Len(r) = 0
      BY <2>1, <2>6 DEF Taken
    <3>3. SendBehind(q, 1) => Len(r) = 1
      BY <2>1, <2>6 DEF Taken
    <3>4. AckFirst(r)
      BY <1>0, <2>1, <3>1, <3>2, <3>3 DEF Taken, PendingPart
    <3>5. Len(q) = 1 => r = <<>>
      BY <2>1 DEF Taken
    <3>6. ASSUME Has(r, "a") PROVE ~rx_idle' /\ tx_run' = "overtaken"
      <4>1. r # <<>>
        BY <3>6, NothingQueued
      <4>2. r \in Seq(Command)
        BY <1>a, <2>0, TakenPlaces
      <4>3. Len(r) = 1 /\ SendBehind(q, 1) /\ ~SendBehind(q, 0)
        BY <1>0, <3>1, <3>2, <3>3, <4>1, <4>2, EmptySeq DEF PendingPart
      <4>4. r[Len(r)].cmd = "a"
        <5>1. DOMAIN r = 1..1
          BY <4>2, <4>3, LenProperties
        <5>2. PICK i \in DOMAIN r : r[i].cmd = "a"
          BY <3>6 DEF Has
        <5> QED
          BY <4>3, <5>1, <5>2
      <4>5. r[Len(r)] = q[Len(q)]
        BY <2>1, <4>1 DEF Taken
      <4> QED
        BY <1>0, <2>0, <2>2, <3>1, <4>3, <4>4, <4>5 DEF PendingPart
    <3>7. line' = "ack" => line = "ack"
      BY <2>0
    <3> QED
      BY <1>0, <3>1, <3>4, <3>5, <3>6, <3>7 DEF PendingPart
  <2> HIDE DEF q, r
  <2>7. is_data_ready' => is_data_ready \/ Head(q).cmd = "S"
    BY <2>0 DEF q
  <2> QED
    BY <2>2, <2>4, <2>5, <2>6, <2>7 DEF PendingPart, r
<1>6. CASE StartSend
  <2>1. UNCHANGED tx_command_queue /\ ~is_data_ready' /\ is_data_ready
    BY <1>6, StartSendIs DEF StartSend
  <2> QED
    BY <1>0, <1>b, <2>1 DEF StagePart
<1>7. CASE Answer
  <2>1. UNCHANGED is_data_ready /\ tx_pc \in Executing
    BY <1>7 DEF Answer, WaitScout, WaitData, ScoutExpired, DataExpired, WaitExpired, cmdVars, Executing
  <2>2. \/ UNCHANGED tx_command_queue
        \/ tx_command_queue # <<>> /\ tx_command_queue' = Tail(tx_command_queue)
    BY <1>7 DEF Answer, WaitScout, WaitData, ScoutExpired, DataExpired, WaitExpired
  <2>3. Has(tx_command_queue', "S") => Has(tx_command_queue, "S")
    BY <1>0, <2>2, HeadTaken DEF Taken
  <2> QED
    BY <1>0, <1>b, <2>1, <2>3 DEF StagePart
<1>8. CASE Sent
  <2>1. UNCHANGED <<is_data_ready, tx_command_queue, rx_idle>>
    BY <1>8 DEF Sent, AckSent, ScoutSent, DataSent, cmdVars, rxSide
  <2>2. CASE AckSent
    <3>1. tx_run' = "runs" /\ tx_pc = "txAck" /\ tx_pc' = "top" /\ line' # "ack"
      BY <2>2 DEF AckSent, EndTransmit, Unanswered
    <3> QED
      BY <1>0, <2>1, <3>1 DEF PendingPart, Transmitting
  <2>3. CASE ScoutSent \/ DataSent
    <3>1. tx_pc \in Executing
      BY <2>3 DEF ScoutSent, DataSent, EndTransmit, Executing
    <3> QED
      BY <1>0, <1>b, <2>1, <3>1 DEF StagePart
  <2> QED
    BY <1>8, <2>2, <2>3 DEF Sent
<1>9. CASE NewCall
  <2>1. UNCHANGED <<tx_command_queue, is_data_ready>> /\ snd_pc = "idle"
    BY <1>9 DEF NewCall, Send, txSide, txVars, cmdVars
  <2> QED
    BY <1>0, <1>b, <2>1 DEF StagePart
<1>10. CASE PostSend
  <2>1. /\ UNCHANGED <<tx_pc, is_data_ready, line>> /\ TxBlocked /\ snd_pc = "post"
        /\ tx_run' = "runs"
    BY <1>10 DEF PostSend, txVars, cmdVars, wireVars
  <2>2. tx_pc \notin Executing /\ ~is_data_ready /\ ~Has(tx_command_queue, "S")
    BY <1>0, <2>1 DEF StagePart
  <2>3. \/ tx_pc = "recv" /\ tx_command_queue = <<>>
        \/ tx_pc = "txAck" /\ Only(tx_command_queue, {"I", "S"})
    BY <2>1, <2>2, SenderRuns
  <2>4. Only(tx_command_queue, {"I"})
    BY <2>2, <2>3, NothingQueued DEF Only, Has
  <2>5. SendBehind(tx_command_queue', 0) /\ (tx_command_queue = <<>> => Len(tx_command_queue') = 1)
    BY <1>0, <1>10, <2>4, PostSendIs DEF Added
  <2>6. line = "ack" => tx_command_queue = <<>>
    BY <1>0, <2>3 DEF WirePart, Transmitting
  <2> QED
    BY <2>1, <2>2, <2>5, <2>6 DEF PendingPart
<1>11. CASE SendReturns
  <2>1. UNCHANGED <<tx_command_queue, is_data_ready>> /\ notified > 0
    BY <1>11 DEF SendReturns, txVars, cmdVars
  <2> QED
    BY <1>0, <1>b, <2>1 DEF StagePart
<1>12. CASE Wire
  <2>1. UNCHANGED <<tx_command_queue, rx_idle, tx_pc, is_data_ready, tx_run>> /\ line' # "ack"
    BY <1>12 DEF Wire, OtherStarts, FrameLost, FlagsEnd, rxSide, txSide, txVars, cmdVars
  <2> QED
    BY <1>0, <2>1 DEF PendingPart
<1> QED
  BY <1>1, <1>2, <1>3, <1>4, <1>5, <1>6, <1>7, <1>8, <1>9, <1>10, <1>11, <1>12, Steps

(* While a frame of the call is under way its sender waits, and its number  *)
(* is that of the frames being sent.                                        *)
LEMMA WhileExecuting ==
    ASSUME TruthState, tx_pc \in Executing
    PROVE  /\ snd_pc = "wait" /\ notified = 0 /\ ~is_data_ready /\ ~Has(tx_command_queue, "S")
           /\ tx_bits = Call /\ scout_bits = Call /\ Call \in 1..MaxSends
           /\ flags \in {"NORMAL", calls[Call]} /\ calls[Call] # "BROADCAST"
<1>1. StagePart /\ CallPart
  BY DEF TruthState, TruthInv
<1>2. snd_pc = "wait" /\ notified = 0 /\ ~is_data_ready /\ ~Has(tx_command_queue, "S")
  BY <1>1 DEF StagePart
<1>3. Call \in 1..MaxSends
  <2>1. calls # <<>> /\ calls \in Seq(AllKinds) /\ Len(calls) <= MaxSends
    BY <1>2 DEF TruthState, TypeInv, TypeOK, SenderTypeOK
  <2>2. Len(calls) \in Nat /\ Len(calls) # 0
    BY <2>1, LenProperties, EmptySeq
  <2> QED
    BY <2>1, <2>2, EconetConstants DEF Call
<1> QED
  BY <1>1, <1>2, <1>3 DEF CallPart

(* What an answer to the scout of the call under way is. *)
LEMMA ScoutSentIs ==
    ASSUME TruthState, ScoutSent
    PROVE  /\ tx_pc = "txScout" /\ ~rx_idle /\ tx_pc' = "waitScout"
           /\ UNCHANGED <<rx_idle, tx_command_queue, flags, calls, is_data_ready>>
           /\ tx_command_queue = <<>> \/ Opens(tx_command_queue, {"I"})
           /\ Only(tx_command_queue, {"I"})
           /\ \/ line' \in {"quiet", "other"} /\ UNCHANGED accepted
              \/ line' = "ack" /\ calls[Call] = "NORMAL" /\ UNCHANGED accepted
              \/ /\ line' = "ack" /\ calls[Call] = "IMM_NO_DATA"
                 /\ accepted' = [accepted EXCEPT ![Call] = @ + 1]
              \/ /\ line' = "reply" /\ calls[Call] = "IMM_WITH_REPLY" /\ peer' = Call
                 /\ accepted' = [accepted EXCEPT ![Call] = @ + 1]
<1>1. /\ tx_pc = "txScout" /\ ~rx_idle /\ tx_pc' = "waitScout"
      /\ UNCHANGED <<rx_idle, tx_command_queue, flags, calls, is_data_ready>>
  BY DEF ScoutSent, EndTransmit, rxSide, cmdVars, sndSide
<1>2. Only(tx_command_queue, {"I"}) /\ tx_command_queue \in Seq(Command)
  BY <1>1, CommandQueue DEF TruthState, TruthInv, QueuePart
<1>3. scout_bits = Call
  BY <1>1, WhileExecuting DEF Executing
<1>4. tx_command_queue = <<>> \/ Opens(tx_command_queue, {"I"})
  BY <1>2, Contents
<1> QED
  BY <1>1, <1>2, <1>3, <1>4 DEF ScoutSent, Unanswered

(* Counting one acceptance more. *)
LEMMA AcceptedCounts ==
    ASSUME TypeInv, NEW i \in 1..MaxSends
    PROVE  /\ accepted[i] \in Nat
           /\ accepted' = [accepted EXCEPT ![i] = @ + 1] =>
                  /\ accepted'[i] = accepted[i] + 1
                  /\ \A j \in 1..MaxSends : j # i => accepted'[j] = accepted[j]
BY DEF TypeInv, TypeOK, WireTypeOK

LEMMA StepReply == TruthState /\ [Next]_vars => ReplyPart'
<1> SUFFICES ASSUME TruthState, [Next]_vars, (tx_pc = "waitScout" /\ WithReply)' PROVE ReplyPart'
  BY DEF ReplyPart
<1>0. ReplyPart /\ WirePart /\ AwaitPart /\ TypeInv
  BY DEF TruthState, TruthInv
<1> USE DEF WithReply
<1>1. CASE UNCHANGED seen
  BY <1>0, <1>1 DEF ReplyPart, seen, txVars, cmdVars, Call
<1>2. CASE BusActive
  BY <1>0, <1>2 DEF ReplyPart, BusActive, txSide, txVars, cmdVars, wireVars, sndSide, Call
<1>3. CASE Report
  <2>0. UNCHANGED <<tx_pc, flags, calls, accepted>>
    BY <1>3 DEF Report, IdleBits, AckReceived, FrameReceived, txVars, cmdVars, sndSide
  <2>1. tx_pc = "waitScout" /\ WithReply /\ line # "ack" /\ Call' = Call
    BY <1>0, <2>0 DEF ReplyPart, Call
  <2>2. tx_command_queue = <<>> => HasRoom(tx_command_queue, CmdQueueLen)
    BY <1>0, CommandQueue
  <2>3. CASE IdleBits
    <3>1. line' = "quiet"
      BY <2>3 DEF IdleBits
    <3>2. PICK x \in Command : x.cmd = "I" /\ Pushed(x)
      BY <1>0, <2>3, IdleBitsIs
    <3>3. Only(tx_command_queue', {"I", "R"})
      BY <1>0, <2>1, <3>2 DEF ReplyPart, Pushed, Added
    <3>4. \/ Opens(tx_command_queue', {"I"})
          \/ tx_command_queue # <<>> /\ tx_command_queue' # <<>> /\ Head(tx_command_queue') = Head(tx_command_queue)
      BY <2>2, <3>2 DEF Pushed, Added, Opens
    <3> QED
      BY <1>0, <2>0, <2>1, <3>1, <3>3, <3>4 DEF ReplyPart, Opens
  <2>4. CASE AckReceived
    BY <2>1, <2>4 DEF AckReceived
  <2>5. CASE FrameReceived
    <3>1. tx_is_awaiting_imm_reply
      BY <1>0, <2>1 DEF AwaitPart
    <3>2. line' = "quiet" /\ line \in {"scout", "data", "reply"}
      BY <2>5, <3>1 DEF FrameReceived
    <3>3. PICK x \in Command : x.cmd = "R" /\ x.frame = ReceivedFrame /\ Pushed(x)
      BY <1>0, <2>5, <3>1, FrameReceivedIs
    <3>4. Only(tx_command_queue', {"I", "R"})
      BY <1>0, <2>1, <3>3 DEF ReplyPart, Pushed, Added
    <3>5. CASE tx_command_queue = <<>>
      <4>1. line = "reply" /\ peer = Call /\ accepted[Call] > 0
        BY <1>0, <2>1, <3>2, <3>5, NothingQueued DEF ReplyPart
      <4>2. x.frame.answers = Call
        BY <3>3, <4>1 DEF ReceivedFrame
      <4>3. Opens(tx_command_queue', {"R"}) /\ Head(tx_command_queue') = x
        BY <2>2, <3>3, <3>5 DEF Pushed, Added, Opens
      <4> QED
        BY <2>0, <2>1, <3>2, <3>4, <4>1, <4>2, <4>3 DEF ReplyPart
    <3>6. CASE tx_command_queue # <<>>
      <4>1. tx_command_queue' # <<>> /\ Head(tx_command_queue') = Head(tx_command_queue)
        BY <3>3, <3>6 DEF Pushed, Added
      <4> QED
        BY <1>0, <2>0, <2>1, <3>2, <3>4, <3>6, <4>1 DEF ReplyPart, Opens
    <3> QED
      BY <3>5, <3>6
  <2> QED
    BY <1>3, <2>3, <2>4, <2>5 DEF Report
<1>4. CASE TopOfLoop \/ Defer \/ ReceiveCommand \/ StartSend \/ Answer
  <2>1. tx_pc' # "waitScout"
    BY <1>4, StartSendIs DEF TopOfLoop, Defer, ReceiveCommand, StartTransmit, Answer, WaitScout,
           ScoutAnswer, SendData, WaitData, ScoutExpired, DataExpired, WaitExpired
  <2> QED
    BY <2>1
<1>5. CASE Sent
  <2>1. ScoutSent
    BY <1>5 DEF Sent, AckSent, DataSent
  <2>2. calls[Call] = "IMM_WITH_REPLY" /\ Call \in 1..MaxSends
    BY <2>1, ScoutSentIs, WhileExecuting DEF Executing
  <2>3. \/ line' \in {"quiet", "other"}
        \/ line' = "reply" /\ peer' = Call /\ accepted'[Call] > 0
    BY <1>0, <2>1, <2>2, ScoutSentIs, AcceptedCounts
  <2>4. Only(tx_command_queue', {"I", "R"}) /\ Call' = Call
    BY <2>1, ScoutSentIs DEF Only, Call
  <2> QED
    BY <2>1, <2>3, <2>4, ScoutSentIs DEF ReplyPart
<1>6. CASE NewCall \/ PostSend \/ SendReturns
  <2>1. tx_pc' = tx_pc /\ (snd_pc # "wait" \/ notified > 0)
    BY <1>6 DEF NewCall, Send, PostSend, SendReturns, txSide, txVars
  <2>2. snd_pc = "wait" /\ notified = 0
    BY <2>1, WhileExecuting DEF Executing
  <2> QED
    BY <2>1, <2>2
<1>7. CASE Wire
  <2>1. UNCHANGED <<tx_command_queue, rx_idle, tx_pc, flags, calls, accepted>>
    BY <1>7 DEF Wire, OtherStarts, FrameLost, FlagsEnd, rxSide, txSide, txVars, cmdVars, sndSide
  <2>2. \/ line = "quiet" /\ rx_idle /\ line' \in {"scout", "other"}
        \/ line' = "quiet"
    BY <1>7 DEF Wire, OtherStarts, FrameLost, FlagsEnd, TruthState, Orderly
  <2> QED
    BY <1>0, <2>1, <2>2 DEF ReplyPart, Call
<1> QED
  BY <1>1, <1>2, <1>3, <1>4, <1>5, <1>6, <1>7, Steps

LEMMA StepScout == TruthState /\ [Next]_vars => ScoutPart'
<1> SUFFICES ASSUME TruthState, [Next]_vars, (tx_pc = "waitScout" /\ ~WithReply)' PROVE ScoutPart'
  BY DEF ScoutPart
<1>0. ScoutPart /\ WirePart /\ AwaitPart /\ TypeInv
  BY DEF TruthState, TruthInv
<1> USE DEF WithReply
<1>1. CASE UNCHANGED seen
  BY <1>0, <1>1 DEF ScoutPart, seen, txVars, cmdVars, Call, Answered
<1>2. CASE BusActive
  BY <1>0, <1>2 DEF ScoutPart, BusActive, txSide, txVars, cmdVars, wireVars, sndSide, Call, Answered
<1>3. CASE Report
  <2>0. UNCHANGED <<tx_pc, flags, calls, accepted>>
    BY <1>3 DEF Report, IdleBits, AckReceived, FrameReceived, txVars, cmdVars, sndSide
  <2>1. tx_pc = "waitScout" /\ ~WithReply /\ Call' = Call /\ Answered' = Answered
    BY <1>0, <2>0 DEF Call, Answered
  <2>2. tx_command_queue = <<>> => HasRoom(tx_command_queue, CmdQueueLen)
    BY <1>0, CommandQueue
  <2>3. ~rx_idle /\ ~tx_is_awaiting_imm_reply
    BY <1>0, <1>3, <2>1 DEF Report, IdleBits, AckReceived, FrameReceived, AwaitPart
  <2>4. PICK x \in Command :
            /\ Pushed(x)
            /\ \/ /\ x.cmd = "I" /\ line = "quiet" /\ line' = "quiet" /\ peer' = 0
               \/ /\ x.cmd = "a" /\ line = "ack" /\ line' = "quiet" /\ peer' = peer
                  /\ rx_idle' = rx_idle
               \/ /\ x.cmd = "A" /\ line \in {"scout", "data", "reply"} /\ line' \in {"quiet", "flags"}
                  /\ peer' = peer /\ rx_idle' = rx_idle
    <3>1. CASE IdleBits
      <4>1. line = "quiet" /\ line' = "quiet" /\ peer' = 0
        BY <3>1 DEF IdleBits
      <4> QED
        BY <1>0, <3>1, <4>1, IdleBitsIs
    <3>2. CASE AckReceived
      <4>1. line = "ack" /\ line' = "quiet" /\ peer' = peer /\ rx_idle' = rx_idle
        BY <3>2 DEF AckReceived, rxSide
      <4> QED
        BY <1>0, <3>2, <4>1, AckReceivedIs
    <3>3. CASE FrameReceived
      <4>1. line \in {"scout", "data", "reply"} /\ peer' = peer /\ rx_idle' = rx_idle
        BY <3>3 DEF FrameReceived
      <4> QED
        BY <1>0, <2>3, <3>3, <4>1, FrameReceivedIs
    <3> QED
      BY <1>3, <3>1, <3>2, <3>3 DEF Report
  <2>5. CASE tx_command_queue = <<>>
    <3>1. /\ line \in {"quiet", "ack", "reply", "other"}
          /\ line \in {"ack", "reply"} => Answered
          /\ line = "reply" => calls[Call] = "IMM_WITH_REPLY"
      BY <1>0, <2>1, <2>5, NothingQueued DEF ScoutPart
    <3>2. tx_command_queue' # <<>> /\ Head(tx_command_queue') = x /\ Len(tx_command_queue') = 1
      BY <2>2, <2>4, <2>5 DEF Pushed, Added
    <3> QED
      BY <2>0, <2>1, <2>3, <2>4, <3>1, <3>2 DEF ScoutPart, Opens
  <2>6. CASE Opens(tx_command_queue, {"I"})
    <3>1. Opens(tx_command_queue', {"I"})
      BY <2>4, <2>6 DEF Pushed, Added, Opens
    <3>2. line' \notin {"ack", "reply"}
      BY <2>4
    <3> QED
      BY <3>1, <3>2 DEF ScoutPart
  <2>7. CASE tx_command_queue # <<>> /\ ~Opens(tx_command_queue, {"I"})
    <3>1. /\ Opens(tx_command_queue, {"a", "A"}) /\ Answered
          /\ Opens(tx_command_queue, {"A"}) => calls[Call] = "IMM_WITH_REPLY"
          /\ \/ /\ Len(tx_command_queue) = 1
                /\ HasRoom(tx_command_queue, CmdQueueLen) => ~rx_idle /\ line \in {"quiet", "flags"}
             \/ /\ Len(tx_command_queue) > 1
                /\ tx_command_queue[2].cmd = "I" /\ peer = 0
      BY <1>0, <2>1, <2>7 DEF ScoutPart
    <3>2. CASE ~HasRoom(tx_command_queue, CmdQueueLen)
      <4>1. tx_command_queue' = tx_command_queue
        BY <2>4, <3>2 DEF Pushed
      <4> QED
        BY <2>0, <2>1, <2>4, <3>1, <3>2, <4>1 DEF ScoutPart
    <3>3. CASE HasRoom(tx_command_queue, CmdQueueLen)
      <4>1. /\ tx_command_queue' # <<>> /\ Head(tx_command_queue') = Head(tx_command_queue)
            /\ Len(tx_command_queue) \in Nat /\ Len(tx_command_queue') = Len(tx_command_queue) + 1
            /\ Len(tx_command_queue) = 1 => tx_command_queue'[2] = x
            /\ Len(tx_command_queue) > 1 => tx_command_queue'[2] = tx_command_queue[2]
        BY <1>0, <2>4, <2>7, <3>3, CommandQueue, LenProperties DEF Pushed, Added
      <4>2. Len(tx_command_queue') > 1 /\ tx_command_queue'[2].cmd = "I" /\ peer' = 0
        BY <2>4, <3>1, <3>3, <4>1
      <4> QED
        BY <2>0, <2>1, <2>4, <3>1, <4>1, <4>2 DEF ScoutPart, Opens
    <3> QED
      BY <3>2, <3>3
  <2> QED
    BY <2>5, <2>6, <2>7
<1>4. CASE TopOfLoop \/ Defer \/ ReceiveCommand \/ StartSend \/ Answer
  <2>1. tx_pc' # "waitScout"
    BY <1>4, StartSendIs DEF TopOfLoop, Defer, ReceiveCommand, StartTransmit, Answer, WaitScout,
           ScoutAnswer, SendData, WaitData, ScoutExpired, DataExpired, WaitExpired
  <2> QED
    BY <2>1
<1>5. CASE Sent
  <2>1. ScoutSent
    BY <1>5 DEF Sent, AckSent, DataSent
  <2>2. Call \in 1..MaxSends /\ Call' = Call
    BY <2>1, ScoutSentIs, WhileExecuting DEF Executing, Call
  <2>3. /\ line' \in {"quiet", "other", "ack", "reply"}
        /\ line' \in {"ack", "reply"} => Answered'
        /\ line' = "reply" => calls[Call] = "IMM_WITH_REPLY"
    BY <1>0, <2>1, <2>2, ScoutSentIs, AcceptedCounts DEF Answered
  <2> QED
    BY <2>1, <2>2, <2>3, ScoutSentIs DEF ScoutPart
<1>6. CASE NewCall \/ PostSend \/ SendReturns
  <2>1. tx_pc' = tx_pc /\ (snd_pc # "wait" \/ notified > 0)
    BY <1>6 DEF NewCall, Send, PostSend, SendReturns, txSide, txVars
  <2>2. snd_pc = "wait" /\ notified = 0
    BY <2>1, WhileExecuting DEF Executing
  <2> QED
    BY <2>1, <2>2
<1>7. CASE Wire
  <2>1. UNCHANGED <<tx_command_queue, rx_idle, tx_pc, flags, calls, accepted>>
    BY <1>7 DEF Wire, OtherStarts, FrameLost, FlagsEnd, rxSide, txSide, txVars, cmdVars, sndSide
  <2>2. \/ line = "quiet" /\ rx_idle /\ line' \in {"scout", "other"} /\ peer' = 0
        \/ line' = "quiet" /\ peer' = peer
    BY <1>7 DEF Wire, OtherStarts, FrameLost, FlagsEnd, TruthState, Orderly
  <2> QED
    BY <1>0, <2>1, <2>2 DEF ScoutPart, Call, Answered
<1> QED
  BY <1>1, <1>2, <1>3, <1>4, <1>5, <1>6, <1>7, Steps

(* What a command taken while a scout waits for its answer can be. *)
LEMMA AnswerTaken ==
    ASSUME TruthState, WaitScout
    PROVE  /\ tx_pc = "waitScout" /\ tx_command_queue # <<>>
           /\ tx_command_queue' = Tail(tx_command_queue)
           /\ \/ Head(tx_command_queue).cmd = "I"
              \/ /\ flags = "IMM_WITH_REPLY" /\ Head(tx_command_queue).cmd = "R"
                 /\ Head(tx_command_queue).frame.answers = Call /\ accepted[Call] > 0
              \/ /\ flags # "IMM_WITH_REPLY" /\ Head(tx_command_queue).cmd \in {"a", "A"} /\ Answered
                 /\ Head(tx_command_queue).cmd = "A" => calls[Call] = "IMM_WITH_REPLY"
                 /\ Tail(tx_command_queue) = <<>> \/ (Opens(Tail(tx_command_queue), {"I"}) /\ peer = 0)
<1>1. tx_pc = "waitScout" /\ tx_command_queue # <<>> /\ tx_command_queue' = Tail(tx_command_queue)
  BY DEF WaitScout
<1>2. CASE flags = "IMM_WITH_REPLY"
  BY <1>1, <1>2 DEF TruthState, TruthInv, ReplyPart, WithReply, Opens
<1>3. CASE flags # "IMM_WITH_REPLY" /\ Head(tx_command_queue).cmd # "I"
  <2>1. /\ Head(tx_command_queue).cmd \in {"a", "A"} /\ Answered
        /\ Head(tx_command_queue).cmd = "A" => calls[Call] = "IMM_WITH_REPLY"
        /\ Len(tx_command_queue) = 1 \/ (Len(tx_command_queue) > 1 /\ tx_command_queue[2].cmd = "I" /\ peer = 0)
    BY <1>1, <1>3 DEF TruthState, TruthInv, ScoutPart, WithReply, Opens
  <2>2. Taken(tx_command_queue, Tail(tx_command_queue))
    BY <1>1, HeadTaken DEF TruthState
  <2>3. Len(tx_command_queue) \in Nat
    BY CommandQueue, LenProperties DEF TruthState
  <2>4. Tail(tx_command_queue) = <<>> \/ (Opens(Tail(tx_command_queue), {"I"}) /\ peer = 0)
    BY <2>1, <2>2, <2>3 DEF Taken, Opens
  <2> QED
    BY <1>1, <1>3, <2>1, <2>4
<1> QED
  BY <1>1, <1>2, <1>3

(* What follows the data of the call under way. *)
LEMMA DataSentIs ==
    ASSUME TruthState, DataSent
    PROVE  /\ tx_pc = "txData" /\ ~rx_idle /\ tx_pc' = "waitData"
           /\ UNCHANGED <<rx_idle, tx_command_queue, flags, calls, is_data_ready>>
           /\ \/ line' \in {"quiet", "other"} /\ UNCHANGED accepted
              \/ /\ line' = "ack" /\ calls[Call] = "NORMAL"
                 /\ accepted' = [accepted EXCEPT ![Call] = @ + 1]
<1>1. /\ tx_pc = "txData" /\ ~rx_idle /\ tx_pc' = "waitData"
      /\ UNCHANGED <<rx_idle, tx_command_queue, flags, calls, is_data_ready>>
  BY DEF DataSent, EndTransmit, rxSide, cmdVars, sndSide
<1>2. tx_bits = Call
  BY <1>1, WhileExecuting DEF Executing
<1> QED
  BY <1>1, <1>2 DEF DataSent, Unanswered

LEMMA StepData == TruthState /\ [Next]_vars => DataPart'
<1> SUFFICES ASSUME TruthState, [Next]_vars, tx_pc' \in {"txData", "waitData"} PROVE DataPart'
  BY DEF DataPart
<1>0. DataPart /\ WirePart /\ TypeInv
  BY DEF TruthState, TruthInv
<1>1. CASE UNCHANGED seen
  BY <1>0, <1>1 DEF DataPart, seen, txVars, cmdVars, Call
<1>2. CASE BusActive
  BY <1>0, <1>2 DEF DataPart, BusActive, txSide, txVars, cmdVars, wireVars, sndSide, Call
<1>3. CASE Report
  <2>0. UNCHANGED <<tx_pc, calls, accepted>> /\ line' # "ack"
    <3>1. FrameReceived => line' # "ack"
      BY FrameReceivedIs, <1>0
    <3> QED
      BY <1>3, <3>1 DEF Report, IdleBits, AckReceived, FrameReceived, txVars, cmdVars, sndSide
  <2>1. tx_pc = "waitData" /\ Call' = Call
    <3>1. line \notin {"ours", "clash"}
      BY <1>3 DEF Report, IdleBits, AckReceived, FrameReceived
    <3> QED
      BY <1>0, <2>0, <3>1 DEF WirePart, Transmitting, Call
  <2>2. calls[Call] = "NORMAL" \/ accepted[Call] > 0
    BY <1>0, <2>1 DEF DataPart
  <2>3. PICK x \in Command : Pushed(x) /\ (x.cmd = "I" \/ (x.cmd = "a" /\ line = "ack")
                                           \/ line \in {"scout", "data", "reply"})
    <3>1. AckReceived => line = "ack"
      BY DEF AckReceived
    <3>2. FrameReceived => line \in {"scout", "data", "reply"}
      BY DEF FrameReceived
    <3> QED
      BY <1>0, <1>3, <3>1, <3>2, IdleBitsIs, AckReceivedIs, FrameReceivedIs DEF Report
  <2>4. CASE tx_command_queue = <<>>
    <3>1. line \in {"quiet", "ack", "other"} /\ (line = "ack" => accepted[Call] > 0)
      BY <1>0, <2>1, <2>4, NothingQueued DEF DataPart
    <3>2. Head(tx_command_queue') = x /\ tx_command_queue' # <<>>
      BY <1>0, <2>3, <2>4, CommandQueue DEF Pushed, Added
    <3> QED
      BY <2>0, <2>1, <2>2, <2>3, <3>1, <3>2 DEF DataPart, Opens
  <2>5. CASE tx_command_queue # <<>>
    <3>1. Head(tx_command_queue') = Head(tx_command_queue) /\ tx_command_queue' # <<>>
      BY <2>3, <2>5 DEF Pushed, Added
    <3> QED
      BY <1>0, <2>0, <2>1, <2>2, <2>5, <3>1 DEF DataPart, Opens
  <2> QED
    BY <2>4, <2>5
<1>4. CASE TopOfLoop \/ Defer \/ ReceiveCommand \/ StartSend \/ WaitData \/ ScoutExpired \/ DataExpired
  <2>1. tx_pc' \notin {"txData", "waitData"}
    BY <1>4, StartSendIs DEF TopOfLoop, Defer, ReceiveCommand, StartTransmit,
           WaitData, ScoutExpired, DataExpired, WaitExpired
  <2> QED
    BY <2>1
<1>5. CASE WaitScout
  <2>1. /\ tx_pc' = "txData" /\ Head(tx_command_queue).cmd \notin {"I", "R"}
        /\ flags # "IMM_NO_DATA" /\ UNCHANGED <<calls, accepted, peer>>
    BY <1>5 DEF WaitScout, ScoutAnswer, SendData, StartTransmit, sndSide
  <2>2. /\ Answered
        /\ tx_command_queue' = <<>> \/ (Opens(tx_command_queue', {"I"}) /\ peer = 0)
    BY <1>5, <2>1, AnswerTaken
  <2> QED
    BY <2>1, <2>2 DEF DataPart, Answered, Call
<1>6. CASE Sent
  <2>1. DataSent
    BY <1>6 DEF Sent, AckSent, ScoutSent
  <2>2. Call \in 1..MaxSends /\ Call' = Call
    BY <2>1, DataSentIs, WhileExecuting DEF Executing, Call
  <2>3. /\ line' \in {"quiet", "other", "ack"}
        /\ line' = "ack" => accepted'[Call] > 0
        /\ accepted[Call] > 0 => accepted'[Call] > 0
    BY <1>0, <2>1, <2>2, DataSentIs, AcceptedCounts
  <2>4. /\ calls[Call] = "NORMAL" \/ accepted[Call] > 0
        /\ tx_command_queue = <<>> \/ Opens(tx_command_queue, {"I"})
    BY <1>0, <2>1, DataSentIs DEF DataPart
  <2> QED
    BY <2>1, <2>2, <2>3, <2>4, DataSentIs DEF DataPart, Opens
<1>7. CASE NewCall \/ PostSend \/ SendReturns
  <2>1. tx_pc' = tx_pc /\ (snd_pc # "wait" \/ notified > 0)
    BY <1>7 DEF NewCall, Send, PostSend, SendReturns, txSide, txVars
  <2>2. snd_pc = "wait" /\ notified = 0
    BY <2>1, WhileExecuting DEF Executing
  <2> QED
    BY <2>1, <2>2
<1>8. CASE Wire
  <2>1. UNCHANGED <<tx_command_queue, rx_idle, tx_pc, calls, accepted>>
    BY <1>8 DEF Wire, OtherStarts, FrameLost, FlagsEnd, rxSide, txSide, txVars, sndSide
  <2>2. /\ line \notin {"ours", "clash"}
        /\ \/ line = "quiet" /\ rx_idle /\ line' \in {"scout", "other"}
           \/ line' = "quiet"
    BY <1>8 DEF Wire, OtherStarts, FrameLost, FlagsEnd, TruthState, Orderly
  <2>3. tx_pc = "waitData"
    BY <1>0, <2>1, <2>2 DEF WirePart, Transmitting
  <2> QED
    BY <1>0, <2>1, <2>2, <2>3 DEF DataPart, Call
<1> QED
  BY <1>1, <1>2, <1>3, <1>4, <1>5, <1>6, <1>7, <1>8, Steps DEF Answer

(* An answer, or its absence, notifies the caller of a true result, or lets *)
(* the data follow.                                                        *)
LEMMA AnswerNotifies ==
    ASSUME TruthState, Answer
    PROVE  /\ tx_pc \in Executing /\ UNCHANGED <<calls, results, snd_pc, accepted>>
           /\ \/ /\ tx_pc' = "top" /\ notified' = 1
                 /\ True([ret |-> tx_sent_ack', imm |-> imm_reply'], Call)
              \/ tx_pc = "waitScout" /\ tx_pc' = "txData" /\ notified' = 0
<1>1. /\ tx_pc \in {"waitScout", "waitData"} /\ UNCHANGED <<calls, results, snd_pc, accepted>>
  BY DEF Answer, WaitScout, WaitData, ScoutExpired, DataExpired, WaitExpired, sndSide, wireVars
<1>2. /\ snd_pc = "wait" /\ notified = 0 /\ flags \in {"NORMAL", calls[Call]} /\ tx_pc \in Executing
  BY <1>1, WhileExecuting DEF Executing
<1>3. tx_pc = "waitScout" /\ calls[Call] = "NORMAL" => accepted[Call] = 0
  BY <1>2 DEF TruthState, TruthInv, AcceptPart
<1>4. CASE WaitScout
  <2>1. CASE Head(tx_command_queue).cmd = "I"
    <3>1. tx_pc' = "top" /\ notified' = 1 /\ tx_sent_ack' = "NACK"
      BY <1>2, <1>4, <2>1 DEF WaitScout, ScoutAnswer, CompleteTxCommand
    <3> QED
      BY <1>1, <1>2, <1>3, <1>4, <3>1 DEF True, WaitScout
  <2>2. CASE Head(tx_command_queue).cmd = "R"
    <3>1. /\ flags = "IMM_WITH_REPLY"
          /\ Head(tx_command_queue).frame.answers = Call /\ accepted[Call] > 0
      BY <1>4, <2>2, AnswerTaken
    <3>2. tx_pc' = "top" /\ notified' = 1 /\ tx_sent_ack' = "IMM_REPLY"
          /\ imm_reply' = Head(tx_command_queue).frame
      BY <1>2, <1>4, <2>2, <3>1 DEF WaitScout, ScoutAnswer, CompleteTxCommand, TakeReply
    <3> QED
      BY <1>1, <1>2, <3>1, <3>2 DEF True
  <2>3. CASE Head(tx_command_queue).cmd \notin {"I", "R"} /\ flags = "IMM_NO_DATA"
    <3>1. tx_pc' = "top" /\ notified' = 1 /\ tx_sent_ack' = "ACK"
      BY <1>2, <1>4, <2>3 DEF WaitScout, ScoutAnswer, CompleteTxCommand
    <3>2. Answered
      BY <1>4, <2>3, AnswerTaken
    <3> QED
      BY <1>1, <1>2, <2>3, <3>1, <3>2 DEF True, Answered
  <2>4. CASE Head(tx_command_queue).cmd \notin {"I", "R"} /\ flags # "IMM_NO_DATA"
    BY <1>1, <1>2, <1>4, <2>4 DEF WaitScout, ScoutAnswer, SendData, StartTransmit, ackVars
  <2> QED
    BY <2>1, <2>2, <2>3, <2>4
<1>5. CASE WaitData
  <2>1. /\ tx_pc' = "top" /\ notified' = 1 /\ tx_pc = "waitData" /\ tx_command_queue # <<>>
        /\ tx_sent_ack' = DataAnswer(Head(tx_command_queue))
    BY <1>2, <1>5 DEF WaitData, CompleteTxCommand
  <2>2. Head(tx_command_queue).cmd = "I" \/ accepted[Call] > 0
    BY <2>1 DEF TruthState, TruthInv, DataPart, Opens
  <2> QED
    BY <1>1, <1>2, <2>1, <2>2 DEF True, DataAnswer
<1>6. CASE ScoutExpired
  BY <1>1, <1>2, <1>3, <1>6 DEF ScoutExpired, WaitExpired, CompleteTxCommand, True
<1>7. CASE DataExpired
  BY <1>1, <1>2, <1>7 DEF DataExpired, WaitExpired, CompleteTxCommand, True
<1> QED
  BY <1>4, <1>5, <1>6, <1>7 DEF Answer

(* What a new call adds. *)
LEMMA NewCallIs ==
    ASSUME TruthState, NewCall
    PROVE  /\ snd_pc = "idle" /\ Call' = Call + 1 /\ Call' \in 1..MaxSends /\ Call \in Nat
           /\ \A i \in 1..Call : calls'[i] = calls[i]
           /\ UNCHANGED <<tx_pc, notified, accepted>>
           /\ \/ UNCHANGED results
              \/ results' = Append(results, [ret |-> "SEND_ERROR", imm |-> NoFrame])
<1>1. PICK kind \in Kinds : Send(kind)
  BY DEF NewCall
<1>2. /\ snd_pc = "idle" /\ calls' = Append(calls, kind) /\ kind \in AllKinds
      /\ Len(calls) < MaxSends /\ UNCHANGED <<tx_pc, notified, accepted>>
      /\ \/ UNCHANGED results
         \/ results' = Append(results, [ret |-> "SEND_ERROR", imm |-> NoFrame])
  BY <1>1, EconetConstants DEF Send, ReturnResult, txSide, txVars, ackVars, wireVars
<1>3. calls \in Seq(AllKinds)
  BY DEF TruthState, TypeInv, TypeOK, SenderTypeOK
<1>4. /\ Len(calls) \in Nat /\ Len(calls') = Len(calls) + 1 /\ DOMAIN calls = 1..Len(calls)
      /\ \A i \in DOMAIN calls : calls'[i] = calls[i]
  BY <1>2, <1>3, AppendedPlaces, LenProperties
<1> QED
  BY <1>2, <1>4, EconetConstants DEF Call

LEMMA StepAccept == TruthState /\ [Next]_vars => AcceptPart'
<1> SUFFICES ASSUME TruthState, [Next]_vars PROVE AcceptPart'
  OBVIOUS
<1>0. AcceptPart /\ StagePart /\ TypeInv
  BY DEF TruthState, TruthInv
<1>a. notified \in Nat /\ Call \in Nat
  BY <1>0, LenProperties DEF TypeInv, TypeOK, TxTypeOK, SenderTypeOK, Call
<1>b. ASSUME UNCHANGED <<calls, accepted>>,
             (snd_pc # "idle" /\ notified = 0)' =>
                 /\ snd_pc # "idle" /\ notified = 0
                 /\ \/ tx_pc' \notin Executing \cup {"txScout"} /\ tx_pc \notin Executing
                    \/ tx_pc' = "txScout" /\ tx_pc \notin Executing
                    \/ tx_pc' = "txData" /\ tx_pc = "waitScout"
                    \/ tx_pc' = tx_pc
      PROVE  AcceptPart'
  BY <1>0, <1>b DEF AcceptPart, Call, Executing
<1>1. CASE UNCHANGED seen
  BY <1>1, <1>b DEF seen, txVars, ackVars
<1>2. CASE BusActive
  BY <1>2, <1>b DEF BusActive, txSide, txVars, ackVars, sndSide, wireVars
<1>3. CASE Report
  BY <1>3, <1>b DEF Report, IdleBits, AckReceived, FrameReceived, txVars, ackVars, sndSide
<1>4. CASE TopOfLoop \/ Defer
  BY <1>4, <1>b DEF TopOfLoop, Defer, Executing, ackVars, sndSide, wireVars
<1>5. CASE ReceiveCommand
  BY <1>5, <1>b DEF ReceiveCommand, StartTransmit, Executing, ackVars, sndSide
<1>6. CASE StartSend
  <2>1. tx_pc = "check" /\ tx_pc' = "txScout" /\ UNCHANGED <<calls, accepted, snd_pc, notified>>
    BY <1>6, StartSendIs DEF StartSend, StartTransmit, sndSide, ackVars
  <2> QED
    BY <1>b, <2>1 DEF Executing
<1>7. CASE Answer
  <2>1. snd_pc = "wait" /\ notified = 0
    BY <1>7, AnswerNotifies, WhileExecuting
  <2> QED
    BY <1>7, <1>b, <2>1, AnswerNotifies
<1>8. CASE Sent
  <2>1. CASE AckSent
    BY <1>b, <2>1 DEF AckSent, EndTransmit, Executing, ackVars, sndSide
  <2>2. CASE ScoutSent
    <3>1. /\ tx_pc \in Executing /\ tx_pc' = "waitScout" /\ Call' = Call /\ Call \in 1..MaxSends
          /\ snd_pc = "wait" /\ notified = 0
      BY <2>2, ScoutSentIs, WhileExecuting DEF Executing, Call
    <3>2. accepted[Call] = 0
      BY <1>0, <2>2, <3>1, ScoutSentIs DEF AcceptPart
    <3>3. \/ UNCHANGED accepted
          \/ calls[Call] # "NORMAL" /\ accepted' = [accepted EXCEPT ![Call] = @ + 1]
      BY <2>2, ScoutSentIs
    <3>4. /\ calls[Call] = "NORMAL" => accepted'[Call] = 0
          /\ accepted'[Call] <= 1
          /\ \A i \in 1..MaxSends : i # Call => accepted'[i] = accepted[i]
      BY <1>0, <3>1, <3>2, <3>3, AcceptedCounts
    <3>5. calls' = calls
      BY <2>2, ScoutSentIs
    <3>6. \A i \in 1..MaxSends : accepted'[i] <= 1 /\ (i > Call => accepted'[i] = 0)
      BY <1>0, <3>1, <3>4 DEF AcceptPart
    <3> QED
      BY <3>1, <3>4, <3>5, <3>6 DEF AcceptPart, Executing
  <2>3. CASE DataSent
    <3>1. /\ tx_pc = "txData" /\ tx_pc' = "waitData" /\ Call' = Call /\ Call \in 1..MaxSends
          /\ snd_pc = "wait" /\ notified = 0
      BY <2>3, DataSentIs, WhileExecuting DEF Executing, Call
    <3>2. \/ UNCHANGED accepted
          \/ calls[Call] = "NORMAL" /\ accepted' = [accepted EXCEPT ![Call] = @ + 1]
      BY <2>3, DataSentIs
    <3>3. calls[Call] = "NORMAL" => accepted[Call] = 0
      BY <1>0, <3>1 DEF AcceptPart
    <3>4. \A i \in 1..MaxSends : accepted'[i] <= 1 /\ (i > Call => accepted'[i] = 0)
      BY <1>0, <3>1, <3>2, <3>3, AcceptedCounts DEF AcceptPart
    <3> QED
      BY <3>1, <3>4 DEF AcceptPart, Executing
  <2> QED
    BY <1>8, <2>1, <2>2, <2>3 DEF Sent
<1>9. CASE NewCall
  <2>1. tx_pc \notin Executing
    BY <1>0, <1>9, NewCallIs DEF StagePart
  <2>2. accepted[Call'] = 0
    BY <1>0, <1>9, NewCallIs DEF AcceptPart
  <2>3. \A i \in 1..MaxSends : accepted'[i] <= 1 /\ (i > Call' => accepted'[i] = 0)
    BY <1>0, <1>9, NewCallIs DEF AcceptPart
  <2>4. accepted'[Call'] = 0 /\ tx_pc' \notin Executing
    BY <1>9, <2>1, <2>2, NewCallIs
  <2> QED
    BY <2>3, <2>4 DEF AcceptPart, Executing
<1>10. CASE PostSend
  BY <1>10, <1>b DEF PostSend, txVars, ackVars, wireVars
<1>11. CASE SendReturns
  BY <1>11, <1>b DEF SendReturns, ReturnResult, txVars, wireVars
<1>12. CASE Wire
  BY <1>12, <1>b DEF Wire, OtherStarts, FrameLost, FlagsEnd, txSide, txVars, ackVars, sndSide
<1> QED
  BY <1>1, <1>2, <1>3, <1>4, <1>5, <1>6, <1>7, <1>8, <1>9, <1>10, <1>11, <1>12, Steps

LEMMA StepResult == TruthState /\ [Next]_vars => ResultPart'
<1> SUFFICES ASSUME TruthState, [Next]_vars PROVE ResultPart'
  OBVIOUS
<1>0. ResultPart /\ StagePart /\ CallPart /\ TypeInv
  BY DEF TruthState, TruthInv
<1>a. /\ notified \in Nat /\ Call \in Nat /\ results \in Seq(Result)
      /\ Len(results) \in Nat /\ DOMAIN results = 1..Len(results)
  BY <1>0, LenProperties DEF TypeInv, TypeOK, TxTypeOK, SenderTypeOK, Call
<1>b. ASSUME UNCHANGED <<calls, results, accepted, notified, tx_sent_ack, imm_reply>>
      PROVE  ResultPart'
  BY <1>0, <1>b DEF ResultPart, True, Call
<1>1. CASE UNCHANGED seen
  BY <1>1, <1>b DEF seen, txVars, ackVars, immVars
<1>2. CASE BusActive
  BY <1>2, <1>b DEF BusActive, txSide, txVars, ackVars, immVars, sndSide, wireVars
<1>3. CASE Report
  BY <1>3, <1>b DEF Report, IdleBits, AckReceived, FrameReceived, txVars, ackVars, immVars, sndSide
<1>4. CASE TopOfLoop \/ Defer
  BY <1>4, <1>b DEF TopOfLoop, Defer, ackVars, immVars, sndSide, wireVars
<1>5. CASE ReceiveCommand \/ StartSend
  BY <1>5, <1>b DEF ReceiveCommand, StartSend, ackVars, immVars, sndSide
<1>6. CASE Answer
  <2>1. /\ UNCHANGED <<calls, results, accepted>>
        /\ notified' = 1 => True([ret |-> tx_sent_ack', imm |-> imm_reply'], Call)
    BY <1>6, AnswerNotifies
  <2> QED
    BY <1>0, <2>1 DEF ResultPart, True, Call
<1>7. CASE Sent
  <2>1. CASE AckSent
    BY <2>1, <1>b DEF AckSent, ackVars, immVars, sndSide
  <2>2. CASE ScoutSent \/ DataSent
    <3>1. /\ snd_pc = "wait" /\ notified = 0 /\ Call \in 1..MaxSends
      BY <2>2, ScoutSentIs, DataSentIs, WhileExecuting DEF Executing
    <3>2. \/ UNCHANGED accepted
          \/ accepted' = [accepted EXCEPT ![Call] = @ + 1]
      BY <2>2, ScoutSentIs, DataSentIs
    <3>3. UNCHANGED <<calls, results, notified>>
      BY <2>2 DEF ScoutSent, DataSent, ackVars, sndSide
    <3>4. Len(results) = Call - 1 /\ Call <= MaxSends /\ MaxSends \in Nat
      BY <1>0, <3>1, EconetConstants DEF CallPart
    <3>5. \A i \in DOMAIN results : accepted'[i] = accepted[i]
      <4>1. \A i \in DOMAIN results : i \in 1..MaxSends /\ i # Call
        BY <1>a, <3>4
      <4> QED
        BY <1>0, <3>1, <3>2, <4>1, AcceptedCounts
    <3> QED
      BY <1>0, <3>1, <3>3, <3>5 DEF ResultPart, True
  <2> QED
    BY <1>7, <2>1, <2>2 DEF Sent
<1>8. CASE NewCall
  <2>1. notified' # 1
    BY <1>0, <1>8, NewCallIs DEF StagePart
  <2>2. Len(results) = Call
    BY <1>0, <1>8, NewCallIs DEF CallPart
  <2>3. \A i \in DOMAIN results : calls'[i] = calls[i] /\ accepted' = accepted
    BY <1>8, <1>a, <2>2, NewCallIs
  <2>4. \A i \in DOMAIN results' :
            \/ i \in DOMAIN results /\ results'[i] = results[i]
            \/ results'[i].ret = "SEND_ERROR"
    <3>1. CASE UNCHANGED results
      BY <3>1
    <3>2. CASE results' = Append(results, [ret |-> "SEND_ERROR", imm |-> NoFrame])
      <4>1. [ret |-> "SEND_ERROR", imm |-> NoFrame] \in Result
        BY RecordTypes DEF AckType
      <4> QED
        BY <1>a, <3>2, <4>1, AppendedPlaces
    <3> QED
      BY <1>8, <3>1, <3>2, NewCallIs
  <2> QED
    BY <1>0, <2>1, <2>3, <2>4 DEF ResultPart, True
<1>9. CASE PostSend
  BY <1>9, <1>b DEF PostSend, txVars, ackVars, immVars, wireVars
<1>10. CASE SendReturns
  <2>1. /\ UNCHANGED <<calls, accepted>> /\ notified' = 0 /\ notified = 1
        /\ snd_pc = "wait"
    BY <1>0, <1>10 DEF SendReturns, wireVars, StagePart
  <2>2. Len(results) + 1 = Call /\ Call \in 1..Call
    BY <1>0, <1>a, <2>1 DEF CallPart
  <2>3. calls[Call] # "BROADCAST"
    BY <1>0, <2>2 DEF CallPart
  <2> DEFINE r == [ret |-> tx_sent_ack, imm |-> imm_reply]
  <2>4. results' = Append(results, r) /\ r \in Result
    <3>1. tx_sent_ack \in AckType /\ imm_reply \in Frame
      BY <1>0 DEF TypeInv, TypeOK, TxTypeOK
    <3> QED
      BY <1>10, <2>1, <2>3, <3>1, RecordTypes DEF SendReturns, ReturnResult, Call
  <2>5. True(r, Call)
    BY <1>0, <2>1 DEF ResultPart
  <2> HIDE DEF r
  <2>6. \A i \in DOMAIN results' :
            \/ i \in DOMAIN results /\ results'[i] = results[i]
            \/ i = Call /\ results'[i] = r
    BY <1>a, <2>2, <2>4, AppendedPlaces
  <2> QED
    BY <1>0, <2>1, <2>5, <2>6 DEF ResultPart, True
<1>11. CASE Wire
  BY <1>11, <1>b DEF Wire, OtherStarts, FrameLost, FlagsEnd, txSide, txVars, ackVars, immVars, sndSide
<1> QED
  BY <1>1, <1>2, <1>3, <1>4, <1>5, <1>6, <1>7, <1>8, <1>9, <1>10, <1>11, Steps

(* While the queue has room every order to acknowledge is queued. *)
LEMMA StepRelease ==
    TruthState /\ HasRoom(tx_command_queue, CmdQueueLen) /\ ReleasePart /\ [Next]_vars => ReleasePart'
<1> SUFFICES ASSUME TruthState, HasRoom(tx_command_queue, CmdQueueLen), ReleasePart, [Next]_vars
             PROVE  ReleasePart'
  OBVIOUS
<1>0. TypeInv /\ ReleasePart
  BY DEF TruthState
<1> USE DEF ReleasePart, Transmitting
<1>1. CASE UNCHANGED seen
  BY <1>0, <1>1 DEF seen, txVars, goVars
<1>2. CASE BusActive
  BY <1>0, <1>2 DEF BusActive, txSide, txVars, goVars
<1>3. CASE Report
  <2>1. PICK x \in Command :
            /\ Pushed(x)
            /\ UNCHANGED goVars \/ x.cmd = "A"
    <3>1. IdleBits \/ AckReceived => UNCHANGED goVars
      BY DEF IdleBits, AckReceived
    <3> QED
      BY <1>0, <1>3, <3>1, IdleBitsIs, AckReceivedIs, FrameReceivedIs DEF Report
  <2>2. Has(tx_command_queue', "A") <=> Has(tx_command_queue, "A") \/ x.cmd = "A"
    BY <2>1 DEF Pushed, Added
  <2>3. tx_pc' = tx_pc
    BY <1>3 DEF Report, IdleBits, AckReceived, FrameReceived, txVars
  <2> QED
    BY <1>0, <2>1, <2>2, <2>3 DEF goVars
<1>4. CASE TopOfLoop \/ Defer
  BY <1>0, <1>4 DEF TopOfLoop, Defer, goVars, QueueFlagstream
<1>5. CASE ReceiveCommand
  <2>1. /\ tx_command_queue # <<>> /\ tx_command_queue' = Tail(tx_command_queue)
        /\ tx_pc = "recv"
        /\ \/ tx_pc' = "txAck"
           \/ /\ Head(tx_command_queue).cmd # "A" /\ tx_pc' \in {"top", "check"}
              /\ UNCHANGED tx_is_in_progress
    BY <1>5 DEF ReceiveCommand, StartTransmit, goVars
  <2>2. Has(tx_command_queue, "A") => Head(tx_command_queue).cmd = "A" \/ Has(tx_command_queue', "A")
    BY <1>0, <2>1, HeadTaken DEF Taken
  <2> QED
    BY <1>0, <2>1, <2>2
<1>6. CASE StartSend
  BY <1>6, StartSendIs DEF StartTransmit
<1>7. CASE Answer
  <2>1. CASE WaitScout
    <3>1. /\ tx_command_queue # <<>> /\ tx_command_queue' = Tail(tx_command_queue)
          /\ tx_pc = "waitScout"
          /\ \/ tx_pc' = "txData"
             \/ /\ tx_pc' = "top" /\ UNCHANGED tx_is_in_progress
                /\ Head(tx_command_queue).cmd \in {"I", "R"} \/ flags = "IMM_NO_DATA"
      BY <2>1 DEF WaitScout, ScoutAnswer, SendData, StartTransmit, goVars
    <3>2. flags \in {"NORMAL", calls[Call]}
      BY <3>1, WhileExecuting DEF Executing
    <3>3. tx_pc' = "top" => Head(tx_command_queue).cmd # "A"
      BY <2>1, <3>1, <3>2, AnswerTaken
    <3>4. Has(tx_command_queue, "A") => Head(tx_command_queue).cmd = "A" \/ Has(tx_command_queue', "A")
      BY <1>0, <3>1, HeadTaken DEF Taken
    <3> QED
      BY <1>0, <3>1, <3>3, <3>4
  <2>2. CASE WaitData
    <3>1. /\ tx_command_queue # <<>> /\ tx_command_queue' = Tail(tx_command_queue)
          /\ tx_pc = "waitData" /\ tx_pc' = "top" /\ UNCHANGED tx_is_in_progress
      BY <2>2 DEF WaitData, goVars
    <3>2. Head(tx_command_queue).cmd # "A"
      BY <3>1 DEF TruthState, TruthInv, DataPart, Opens
    <3>3. Has(tx_command_queue, "A") => Head(tx_command_queue).cmd = "A" \/ Has(tx_command_queue', "A")
      BY <1>0, <3>1, HeadTaken DEF Taken
    <3> QED
      BY <1>0, <3>1, <3>2, <3>3
  <2>3. CASE ScoutExpired \/ DataExpired
    <3>1. tx_command_queue = <<>> /\ tx_pc' = "top" /\ tx_pc \notin Transmitting
          /\ UNCHANGED tx_is_in_progress
      BY <2>3 DEF ScoutExpired, DataExpired, WaitExpired, goVars
    <3> QED
      BY <1>0, <3>1, NothingQueued
  <2> QED
    BY <1>7, <2>1, <2>2, <2>3 DEF Answer
<1>8. CASE Sent
  BY <1>8 DEF Sent, AckSent, ScoutSent, DataSent, EndTransmit
<1>9. CASE NewCall
  BY <1>0, <1>9 DEF NewCall, Send, txSide, txVars, goVars
<1>10. CASE PostSend
  <2>1. UNCHANGED <<tx_pc, goVars>>
    BY <1>10 DEF PostSend, txVars
  <2>2. Has(tx_command_queue, "A") => Has(tx_command_queue', "A")
    BY <1>0, <1>10, PostSendIs DEF Added
  <2> QED
    BY <1>0, <2>1, <2>2 DEF goVars
<1>11. CASE SendReturns
  BY <1>0, <1>11 DEF SendReturns, txVars, goVars
<1>12. CASE Wire
  BY <1>0, <1>12 DEF Wire, OtherStarts, FrameLost, FlagsEnd, txSide, txVars, goVars
<1> QED
  BY <1>1, <1>2, <1>3, <1>4, <1>5, <1>6, <1>7, <1>8, <1>9, <1>10, <1>11, <1>12, Steps

-----------------------------------------------------------------------------
(* The initial states. *)
LEMMA TruthInit == Orderly /\ Init => TruthInv /\ ReleasePart
<1> SUFFICES ASSUME Orderly, Init PROVE TruthInv /\ ReleasePart
  OBVIOUS
<1>1. /\ calls = <<>> /\ results = <<>> /\ tx_command_queue = <<>> /\ Len(<<>>) = 0 /\ Call = 0
      /\ DOMAIN results = 1..0
  BY EmptySeq, LenProperties DEF Init, Call
<1>2. /\ WirePart /\ StagePart /\ AwaitPart
  BY <1>1, NothingQueued
     DEF Init, WirePart, StagePart, AwaitPart, Transmitting, Executing, WithReply
<1>3. /\ OrderLast(<<>>) /\ AckFirst(<<>>) /\ \A k : FlagsOk(<<>>, k)
  <2>1. DOMAIN <<>> = {}
    BY EmptySeq
  <2> QED
    BY <2>1 DEF OrderLast, AckFirst, FlagsOk
<1>4. CallPart
  BY <1>1, <1>3 DEF Init, CallPart, Executing
<1>5. QueuePart /\ PendingPart /\ ReplyPart /\ ScoutPart /\ DataPart
  BY <1>1, <1>3, NothingQueued
     DEF Init, QueuePart, PendingPart, ReplyPart, ScoutPart, DataPart
<1>6. AcceptPart /\ ResultPart /\ ReleasePart
  BY <1>1, EconetConstants DEF Init, AcceptPart, ResultPart, ReleasePart
<1> QED
  BY <1>2, <1>4, <1>5, <1>6 DEF TruthInv

(* The invariant is inductive. *)
LEMMA TruthStep == TruthState /\ [Next]_vars => TruthState'
<1> SUFFICES ASSUME TruthState, [Next]_vars PROVE TruthState'
  OBVIOUS
<1>1. TypeInv' /\ Orderly'
  BY TypeStep DEF TruthState, Orderly
<1> QED
  BY <1>1, StepWire, StepCalls, StepStage, StepAwait, StepQueue, StepPending, StepReply, StepScout,
     StepData, StepAccept, StepResult DEF TruthState, TruthInv

LEMMA TruthAlways == Orderly /\ Spec => []TruthState
<1>1. Orderly /\ Init => TruthState
  BY TypeInit, TruthInit DEF TruthState
<1> QED
  BY <1>1, TruthStep, PTL DEF Spec

\* What econet_send returns is true of the addressed station, whatever the
\* capacity of the command queue and however the interrupt, the tasks and the
\* frames of others interleave, as long as nothing gives up early and nothing is
\* broadcast.
THEOREM ResultsAreTruthful == Orderly /\ Spec => []TruthfulResults
<1>1. TruthState => TruthfulResults
  BY DEF TruthState, TruthInv, ResultPart, True, TruthfulResults, AckMeansAccepted, NackSafeToRetry,
         ImmReplyGenuine
<1> QED
  BY <1>1, TruthAlways, PTL

\* In the same circumstances no packet is accepted twice for one call of
\* econet_send.
THEOREM SentOnce == Orderly /\ Spec => []AcceptedAtMostOnce
<1>1. TruthState => AcceptedAtMostOnce
  BY DEF TruthState, TruthInv, AcceptPart, AcceptedAtMostOnce
<1> QED
  BY <1>1, TruthAlways, PTL

\* No immediate reply is queued after a plain scout, so _tx_task never drops one
\* there and leaves its caller without a result.
THEOREM RepliesAwaited == Orderly /\ Spec => []NoStrayReply
<1>1. TruthState => NoStrayReply
  <2> SUFFICES ASSUME TruthState, tx_pc = "waitScout", flags # "IMM_WITH_REPLY", NEW c \in Commands,
                      c.cmd = "R"
               PROVE  FALSE
    BY DEF NoStrayReply
  <2>1. Has(tx_command_queue, "R")
    BY DEF Commands, Has
  <2>2. notified = 0
    BY WhileExecuting DEF Executing
  <2> QED
    BY <2>1, <2>2 DEF TruthState, TruthInv, QueuePart, WithReply
<1> QED
  BY <1>1, TruthAlways, PTL

\* The frame being clocked out is not rebuilt by the next call of econet_send.
THEOREM FramesUndisturbed == Orderly /\ Spec => FrameStable
<1>1. TruthState /\ [Next]_vars =>
          [/\ tx_pc \in {"txScout"} => scout_bits' = scout_bits
           /\ tx_pc \in {"txData", "txBroadcast"} => tx_bits' = tx_bits]_vars
  <2> SUFFICES ASSUME TruthState, [Next]_vars, tx_pc \in {"txScout", "txData", "txBroadcast"}
               PROVE  UNCHANGED bitsVars
    BY DEF bitsVars
  <2>1. tx_pc \in Executing
    BY DEF TruthState, TruthInv, CallPart, Executing
  <2>2. snd_pc # "idle"
    BY <2>1, WhileExecuting
  <2> QED
    BY <2>2, NoneGivesUp
       DEF Next, vars, Finished, Interrupt, BusActive, IdleBits, StoreByte, AckReceived, FrameReceived,
           TxTask, TopOfLoop, ReceiveCommand, Defer, StartSend, WaitScout, WaitData, ScoutExpired,
           DataExpired, WaitExpired, TxDone, AckSent, ScoutSent, DataSent, Sender, Send, PostSend,
           SendReturns, Consumer, TakePacket, ReleasePacket, Wire, OtherStarts, FrameLost, FlagsEnd,
           sndSide, bitsVars
<1> QED
  BY <1>1, TruthAlways, PTL DEF Spec, FrameStable

\* Back at its queue the transmitter can send and receive again, as long as the
\* queue always has room for an order to acknowledge: a lost one would leave
\* tx_is_in_progress set.
THEOREM TransmitterReturns ==
    Orderly /\ Spec /\ []HasRoom(tx_command_queue, CmdQueueLen) => []TransmitterUsable
<1>1. Orderly /\ Init => ReleasePart
  BY TruthInit
<1>2. ReleasePart => TransmitterUsable
  <2>1. Has(tx_command_queue, "A") => \E c \in Commands : c.cmd = "A"
    BY DEF Has, Commands
  <2> QED
    BY <2>1 DEF ReleasePart, TransmitterUsable, TransmitterReleased, FlagStreamReady, Transmitting
<1> QED
  BY <1>1, <1>2, StepRelease, TruthAlways, PTL DEF Spec
=============================================================================
