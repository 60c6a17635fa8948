------------------------------- MODULE Econet -------------------------------
(***************************************************************************)
(* The Econet interface of the bridge: the receive interrupt (econet_rx.c),*)
(* the transmitter task "adlc_tx" (econet_tx.c), the task that calls       *)
(* econet_send, the task that consumes received packets, and the wire they *)
(* share with other stations.                                              *)
(*                                                                         *)
(* The firmware runs on one core with preemptive priorities.  The          *)
(* interrupt may run between any two steps; the transmitter task has the   *)
(* highest priority of the tasks, so a step of the sender or the consumer  *)
(* needs the transmitter to be blocked (TxBlocked).  A frame lasts tens of *)
(* bits, and the interrupt sees every eighth: when a frame ends the idle   *)
(* counter has long been reset, which is what the ~rx_idle guards say.     *)
(*                                                                         *)
(* A call of econet_send is known by its number.  The frame buffers hold   *)
(* the number of the call they were built for, 0 before the first one.  A  *)
(* frame received from the wire is known by its stamp, the count of frames *)
(* accepted so far.                                                        *)
(***************************************************************************)
EXTENDS FreeRTOS

CONSTANTS
    CmdQueueLen,    \* capacity of tx_command_queue
    PktQueueLen,    \* capacity of econet_rx_packet_queue
    BufferCount,    \* ECONET_PACKET_BUFFER_COUNT
    Kinds,          \* kinds of packet the sender submits
    MaxSends,       \* bound: calls of econet_send
    MaxTraffic,     \* bound: transmissions other stations start unasked
    MaxTimeouts,    \* bound: expiries of econet_send's own waits
    EarlyIdle       \* may a station start before this one has counted 15 idle bits?

\* econet_tx_command_flags_t, and the packets econet_send refuses outright.
AllKinds == {"NORMAL", "IMM_WITH_REPLY", "IMM_NO_DATA", "BROADCAST", "REFUSED"}

ASSUME EconetConstants ==
    /\ CmdQueueLen \in Nat \ {0}
    /\ PktQueueLen \in Nat \ {0}
    /\ BufferCount \in Nat \ {0}
    /\ Kinds \subseteq AllKinds
    /\ MaxSends \in Nat
    /\ MaxTraffic \in Nat
    /\ MaxTimeouts \in Nat
    /\ EarlyIdle \in BOOLEAN

VARIABLES
    \* receive interrupt
    rx_idle,                    \* rx_idle_one_counter = ECONET_IDLE_BITS
    rx_packet_buffer_index,
    rx_packet_buffers,          \* stamp of the frame in each buffer, 0 for other bytes
    frames,                     \* frames accepted so far
    econet_rx_packet_queue,
    held,                       \* the packet the consumer works on
    \* transmitter task
    tx_command_queue,
    tx_pc,
    flags,                      \* cmd.flags of the command being executed
    is_data_ready,
    tx_is_in_progress,
    tx_is_awaiting_imm_reply,
    is_flagstream_queued,
    imm_reply,                  \* _imm_reply: the frame it points to
    tx_sent_ack,
    notified,                   \* the sender task's notification count
    \* sender task
    snd_pc,
    calls,                      \* kind of every call made so far
    results,                    \* what the calls returned
    tx_bits, scout_bits,        \* the call each frame buffer was built for
    \* the wire and the stations on it
    line,
    inbound,                    \* handshake a remote station has open with this one
    peer,                       \* the call whose station waits for its data frame
    accepted,                   \* how often each call's packet was accepted
    \* timing and bounds
    tx_run,                     \* "late": woken, not yet running; "overtaken": an event since
    traffic, timeouts

rxVars   == <<rx_packet_buffer_index, rx_packet_buffers, frames>>
pktVars  == <<econet_rx_packet_queue, held>>
rxSide   == <<rx_idle, rxVars, pktVars>>
cmdVars  == <<flags, is_data_ready>>
immVars  == <<tx_is_awaiting_imm_reply, imm_reply>>
txVars   == <<tx_pc, cmdVars, immVars>>
goVars   == <<tx_is_in_progress, is_flagstream_queued>>
ackVars  == <<tx_sent_ack, notified>>
txSide   == <<tx_command_queue, txVars, goVars, ackVars, tx_run>>
bitsVars == <<tx_bits, scout_bits>>
bounds   == <<traffic, timeouts>>
sndSide  == <<snd_pc, calls, results, bitsVars, bounds>>
wireVars == <<line, inbound, peer, accepted>>
vars == <<rxSide, txSide, sndSide, wireVars>>

-----------------------------------------------------------------------------
Frame == [stamp : Nat, buf : 0..BufferCount-1, answers : Nat]
NoFrame == [stamp |-> 0, buf |-> 0, answers |-> 0]

Command == [cmd : {"S", "A", "a", "I", "R"}, flags : AllKinds, frame : Frame]
Packet == [type : {"P", "I", "none"}, frame : Frame]
NoPacket == [type |-> "none", frame |-> NoFrame]

\* Commands posted by the interrupt: .flags is left 0, which is ECONET_TX_NORMAL.
IsrCommand(c, f) == [cmd |-> c, flags |-> "NORMAL", frame |-> f]
SendCommand(kind) == [cmd |-> "S", flags |-> kind, frame |-> NoFrame]

AckType == {"ACK", "NACK", "NACK_CORRUPT", "SEND_ERROR", "IMM_REPLY"}
Result == [ret : AckType, imm : Frame]

Transmitting == {"txAck", "txBroadcast", "txScout", "txData"}
Receiving == {"recv", "waitScout", "waitData"}
TxPC == {"top", "check", "abort"} \cup Transmitting \cup Receiving

Commands == {tx_command_queue[i] : i \in DOMAIN tx_command_queue}

TxBlocked ==
    \/ tx_pc \in Transmitting
    \/ tx_pc \in Receiving /\ tx_command_queue = <<>>

Init ==
    /\ rx_idle = FALSE
    /\ rx_packet_buffer_index = 0
    /\ rx_packet_buffers = [b \in 0..BufferCount-1 |-> 0]
    /\ frames = 0
    /\ econet_rx_packet_queue = <<>>
    /\ held = NoPacket
    /\ tx_command_queue = <<>>
    /\ tx_pc = "top"
    /\ flags = "NORMAL"
    /\ is_data_ready = FALSE
    /\ tx_is_in_progress = FALSE
    /\ tx_is_awaiting_imm_reply = FALSE
    /\ is_flagstream_queued = FALSE
    /\ imm_reply = NoFrame
    /\ tx_sent_ack = "ACK"
    /\ notified = 0
    /\ snd_pc = "idle"
    /\ calls = <<>>
    /\ results = <<>>
    /\ tx_bits = 0
    /\ scout_bits = 0
    /\ line = "quiet"
    /\ inbound = "none"
    /\ peer = 0
    /\ accepted = [i \in 1..MaxSends |-> 0]
    /\ tx_run = "runs"
    /\ traffic = 0
    /\ timeouts = 0

-----------------------------------------------------------------------------
(* The receive interrupt. *)

PostCommand(c) == tx_command_queue' = QueueSend(tx_command_queue, CmdQueueLen, c)
PostPacket(p) ==
    econet_rx_packet_queue' = QueueSend(econet_rx_packet_queue, PktQueueLen, p)

\* The end of a frame and the fifteenth idle bit are many bit times apart.
\* Between two of them the transmitter, once it runs, gets to where it blocks.
\* When such an event wakes it, it may start to run late: a flash operation
\* suspends the tasks but not this interrupt.  When the sender wakes it, it
\* runs on the spot.
WireEvent ==
    /\ TxBlocked \/ tx_run # "overtaken"
    /\ tx_run' = IF TxBlocked \/ tx_run = "late" THEN "late" ELSE "overtaken"

\* A zero, or a transmission of our own, resets the idle counter.
BusActive ==
    /\ rx_idle
    /\ line # "quiet" \/ tx_is_in_progress
    /\ rx_idle' = FALSE
    /\ UNCHANGED <<rxVars, pktVars, txSide, sndSide, wireVars>>

\* The fifteenth consecutive one: both queues are told that the bus is idle.
\* The other stations drop the handshakes they had open as well.
IdleBits ==
    /\ WireEvent
    /\ ~rx_idle
    /\ line = "quiet"
    /\ ~tx_is_in_progress
    /\ rx_idle' = TRUE
    /\ PostPacket([type |-> "I", frame |-> NoFrame])
    /\ PostCommand(IsrCommand("I", NoFrame))
    /\ inbound' = "none"
    /\ peer' = 0
    /\ UNCHANGED <<rxVars, held, txVars, goVars, ackVars, sndSide, line, accepted>>

\* The bytes of any frame on the wire, for this station or not, go into the
\* buffer the index designates.
StoreByte ==
    /\ line # "quiet"
    /\ ~rx_idle
    /\ rx_packet_buffers[rx_packet_buffer_index] # 0
    /\ rx_packet_buffers' = [rx_packet_buffers EXCEPT ![rx_packet_buffer_index] = 0]
    /\ UNCHANGED <<rx_idle, rx_packet_buffer_index, frames, pktVars, txSide, sndSide,
                   wireVars>>

\* A frame of four bytes for this station: an acknowledgement.
AckReceived ==
    /\ WireEvent
    /\ line = "ack"
    /\ ~rx_idle
    /\ line' = "quiet"
    /\ PostCommand(IsrCommand("a", NoFrame))
    /\ UNCHANGED <<rxSide, txVars, goVars, ackVars, sndSide, inbound, peer, accepted>>

\* A longer frame for this station.  It is an immediate reply if one is
\* awaited; otherwise the line is held with flags, an acknowledgement is asked
\* for, and the packet is delivered.  The buffer is then given away.
ReceivedFrame ==
    [stamp |-> frames + 1, buf |-> rx_packet_buffer_index,
     answers |-> IF line = "reply" THEN peer ELSE 0]

\* econet_tx_pre_go: the flag stream made ready is let go, and holds the line.
PreGo ==
    /\ tx_is_in_progress' = TRUE
    /\ is_flagstream_queued' = FALSE

NextBufferWrapsEarly(i) == IF i + 2 >= BufferCount THEN 0 ELSE i + 1
NextBuffer(i) == IF i + 1 >= BufferCount THEN 0 ELSE i + 1

\* A frame for us is acknowledged and delivered, or taken for the reply awaited.
\* The other stations send no broadcast that passes the bitmaps, one to station
\* 255 of a network listened for: it would be delivered and not acknowledged.
FrameReceived ==
    /\ WireEvent
    /\ line \in {"scout", "data", "reply"}
    /\ ~rx_idle
    /\ frames' = frames + 1
    /\ rx_packet_buffers' =
         [rx_packet_buffers EXCEPT ![rx_packet_buffer_index] = frames + 1]
    /\ rx_packet_buffer_index' = NextBuffer(rx_packet_buffer_index)
    /\ \/ /\ tx_is_awaiting_imm_reply
          /\ PostCommand(IsrCommand("R", ReceivedFrame))
          /\ line' = "quiet"
          /\ UNCHANGED <<econet_rx_packet_queue, goVars>>
       \/ /\ ~tx_is_awaiting_imm_reply
          /\ PostCommand(IsrCommand("A", NoFrame))
          /\ PreGo
          /\ line' = IF is_flagstream_queued THEN "flags" ELSE "quiet"
          /\ PostPacket([type |-> "P", frame |-> ReceivedFrame])
    /\ UNCHANGED <<rx_idle, held, txVars, ackVars, sndSide, inbound, peer, accepted>>

Interrupt == BusActive \/ IdleBits \/ StoreByte \/ AckReceived \/ FrameReceived

-----------------------------------------------------------------------------
(* The transmitter task, _tx_task. *)

\* parlio_tx_unit_transmit, behind the flags.  A transmission that begins on top
\* of another spoils both.
StartTransmit(pc) ==
    /\ tx_pc' = pc
    /\ PreGo
    /\ line' = IF line \in {"quiet", "flags"} THEN "ours" ELSE "clash"

\* parlio_tx_unit_wait_all_done returns; the task goes on at once, since it
\* has the highest priority.
EndTransmitLeavesFlag(pc) ==
    /\ tx_run' = "runs"
    /\ tx_pc = pc
    /\ ~rx_idle
    /\ UNCHANGED tx_is_in_progress
EndTransmit(pc) ==
    /\ tx_run' = "runs"
    /\ tx_pc = pc
    /\ ~rx_idle
    /\ tx_is_in_progress' = FALSE

\* What is on the wire after our frame when nobody answers it.
Unanswered == line' = IF line = "clash" THEN "other" ELSE "quiet"

CompleteTxCommand(result) ==
    /\ tx_sent_ack' = result
    /\ notified' = notified + 1

TxRuns == tx_run' = IF tx_run = "late" THEN "runs" ELSE tx_run

QueueFlagstream == is_flagstream_queued' = TRUE

TopOfLoop ==
    /\ TxRuns
    /\ tx_pc = "top"
    /\ tx_is_awaiting_imm_reply' = FALSE
    /\ QueueFlagstream
    /\ tx_pc' = "recv"
    /\ UNCHANGED <<rxSide, tx_command_queue, cmdVars, imm_reply, tx_is_in_progress,
                   ackVars, sndSide, wireVars>>

\* The queue item at the head of the loop.
ReceiveCommand ==
    /\ TxRuns
    /\ tx_pc = "recv"
    /\ tx_command_queue # <<>>
    /\ tx_command_queue' = Tail(tx_command_queue)
    /\ LET c == Head(tx_command_queue) IN
       \/ /\ c.cmd = "A"
          /\ StartTransmit("txAck")
          /\ UNCHANGED cmdVars
       \/ /\ c.cmd = "R"
          /\ tx_pc' = "top"
          /\ UNCHANGED <<cmdVars, goVars, line>>
       \/ /\ c.cmd \in {"S", "I", "a"}
          /\ is_data_ready' = (is_data_ready \/ c.cmd = "S")
          /\ flags' = c.flags
          /\ tx_pc' = "check"
          /\ UNCHANGED <<goVars, line>>
    /\ UNCHANGED <<rxSide, immVars, ackVars, sndSide, inbound, peer, accepted>>

\* Nothing to send, or the bus is busy: try again at the next command.
KeepDataForgets == is_data_ready' = FALSE
KeepData == UNCHANGED is_data_ready

Defer ==
    /\ TxRuns
    /\ tx_pc = "check"
    /\ ~is_data_ready \/ ~rx_idle
    /\ tx_pc' = "top"
    /\ KeepData
    /\ UNCHANGED <<rxSide, tx_command_queue, flags, immVars, goVars, ackVars, sndSide,
                   wireVars>>

\* The flags used are those of the command just received, which need not be
\* the 'S' that made the data ready.  A frame buffer never built has length 0,
\* which the driver refuses and ESP_ERROR_CHECK turns into an abort.
TakeDataKeepsFlag == UNCHANGED is_data_ready
TakeData == is_data_ready' = FALSE

AwaitReplyAlways == tx_is_awaiting_imm_reply' = TRUE
AwaitReply ==
    tx_is_awaiting_imm_reply' = (tx_is_awaiting_imm_reply \/ flags = "IMM_WITH_REPLY")

StartSend ==
    /\ TxRuns
    /\ tx_pc = "check"
    /\ is_data_ready
    /\ rx_idle
    /\ TakeData
    /\ \/ /\ flags = "BROADCAST"
          /\ StartTransmit("txBroadcast")
          /\ UNCHANGED tx_is_awaiting_imm_reply
       \/ /\ flags # "BROADCAST"
          /\ AwaitReply
          /\ IF scout_bits = 0
             THEN tx_pc' = "abort" /\ UNCHANGED <<goVars, line>>
             ELSE StartTransmit("txScout")
    /\ UNCHANGED <<rxSide, tx_command_queue, flags, imm_reply, ackVars, sndSide,
                   inbound, peer, accepted>>

\* End of an acknowledgement.  The remote station follows a scout with data.
AckSent ==
    /\ EndTransmit("txAck")
    /\ tx_pc' = "top"
    /\ \/ Unanswered /\ inbound' = "none"
       \/ /\ line = "ours"
          /\ inbound = "scout"
          /\ line' = "data"
          /\ inbound' = "data"
    /\ UNCHANGED <<rxSide, tx_command_queue, cmdVars, immVars, is_flagstream_queued,
                   ackVars, sndSide, peer, accepted>>

BroadcastSent ==
    /\ EndTransmit("txBroadcast")
    /\ tx_pc' = "top"
    /\ CompleteTxCommand("ACK")
    /\ Unanswered
    /\ \/ UNCHANGED accepted
       \/ line = "ours" /\ accepted' = [accepted EXCEPT ![tx_bits] = @ + 1]
    /\ UNCHANGED <<rxSide, tx_command_queue, cmdVars, immVars, is_flagstream_queued,
                   sndSide, inbound, peer>>

\* End of a scout, or of an immediate operation.  The addressed station may
\* answer: to a scout it promises to take the data, an immediate operation it
\* performs, with an acknowledgement or a reply.
ScoutSent ==
    /\ EndTransmit("txScout")
    /\ tx_pc' = "waitScout"
    /\ QueueFlagstream
    /\ \/ Unanswered /\ UNCHANGED <<peer, accepted>>
       \/ /\ line = "ours"
          /\ calls[scout_bits] = "NORMAL"
          /\ line' = "ack"
          /\ peer' = scout_bits
          /\ UNCHANGED accepted
       \/ /\ line = "ours"
          /\ calls[scout_bits] = "IMM_NO_DATA"
          /\ line' = "ack"
          /\ accepted' = [accepted EXCEPT ![scout_bits] = @ + 1]
          /\ UNCHANGED peer
       \/ /\ line = "ours"
          /\ calls[scout_bits] = "IMM_WITH_REPLY"
          /\ line' = "reply"
          /\ peer' = scout_bits
          /\ accepted' = [accepted EXCEPT ![scout_bits] = @ + 1]
    /\ UNCHANGED <<rxSide, tx_command_queue, cmdVars, immVars, ackVars, sndSide,
                   inbound>>

\* End of a data frame; the station that promised to take it acknowledges it.
DataSent ==
    /\ EndTransmit("txData")
    /\ tx_pc' = "waitData"
    /\ \/ Unanswered /\ UNCHANGED <<peer, accepted>>
       \/ /\ line = "ours"
          /\ peer # 0
          /\ peer = tx_bits
          /\ calls[peer] = "NORMAL"
          /\ line' = "ack"
          /\ peer' = 0
          /\ accepted' = [accepted EXCEPT ![tx_bits] = @ + 1]
    /\ UNCHANGED <<rxSide, tx_command_queue, cmdVars, immVars, is_flagstream_queued,
                   ackVars, sndSide, inbound>>

\* The first command after a scout decides; anything but 'I' and 'R' counts as
\* the acknowledgement.
TakeReply(f) == imm_reply' = f

SendDataNotifiesFirst ==
    StartTransmit("txData") /\ CompleteTxCommand("ACK") /\ UNCHANGED imm_reply
SendData == StartTransmit("txData") /\ UNCHANGED <<imm_reply, ackVars>>

ScoutAnswer(c) ==
    \/ /\ c.cmd = "I"
       /\ CompleteTxCommand("NACK")
       /\ tx_pc' = "top"
       /\ UNCHANGED <<imm_reply, goVars, line>>
    \/ /\ c.cmd = "R"
       /\ IF flags = "IMM_WITH_REPLY"
          THEN TakeReply(c.frame) /\ CompleteTxCommand("IMM_REPLY")
          ELSE UNCHANGED <<imm_reply, ackVars>>
       /\ tx_pc' = "top"
       /\ UNCHANGED <<goVars, line>>
    \/ /\ c.cmd \notin {"I", "R"}
       /\ flags = "IMM_NO_DATA"
       /\ CompleteTxCommand("ACK")
       /\ tx_pc' = "top"
       /\ UNCHANGED <<imm_reply, goVars, line>>
    \/ /\ c.cmd \notin {"I", "R"}
       /\ flags # "IMM_NO_DATA"
       /\ SendData

WaitScout ==
    /\ TxRuns
    /\ tx_pc = "waitScout"
    /\ tx_command_queue # <<>>
    /\ tx_command_queue' = Tail(tx_command_queue)
    /\ ScoutAnswer(Head(tx_command_queue))
    /\ UNCHANGED <<rxSide, cmdVars, tx_is_awaiting_imm_reply, sndSide, inbound, peer,
                   accepted>>

DataAnswerIgnoresIdle(c) == "ACK"
DataAnswer(c) == IF c.cmd = "I" THEN "NACK_CORRUPT" ELSE "ACK"

WaitData ==
    /\ TxRuns
    /\ tx_pc = "waitData"
    /\ tx_command_queue # <<>>
    /\ tx_command_queue' = Tail(tx_command_queue)
    /\ CompleteTxCommand(DataAnswer(Head(tx_command_queue)))
    /\ tx_pc' = "top"
    /\ UNCHANGED <<rxSide, cmdVars, immVars, goVars, sndSide, wireVars>>

\* xQueueReceive(tx_command_queue, &response_cmd, 200) returns pdFALSE.
WaitExpired(pc, result) ==
    /\ tx_run' = "runs"
    /\ tx_pc = pc
    /\ tx_command_queue = <<>>
    /\ CompleteTxCommand(result)
    /\ tx_pc' = "top"
    /\ UNCHANGED <<rxSide, tx_command_queue, cmdVars, immVars, goVars, sndSide,
                   wireVars>>

ScoutExpired == WaitExpired("waitScout", "NACK")
DataExpired == WaitExpired("waitData", "NACK_CORRUPT")

TxTask ==
    \/ TopOfLoop \/ ReceiveCommand \/ Defer \/ StartSend \/ WaitScout \/ WaitData
    \/ ScoutExpired \/ DataExpired

TxDone == AckSent \/ BroadcastSent \/ ScoutSent \/ DataSent

-----------------------------------------------------------------------------
(* The task that calls econet_send.  Only aun_udp_rx does. *)

ReturnResult(r, imm) ==
    /\ results' = Append(results, [ret |-> r, imm |-> imm])
    /\ snd_pc' = "idle"

\* econet_send up to _start_send_and_wait: a packet too short, or an immediate
\* operation with too much data, is refused; else the frames are built.
Send(kind) ==
    /\ TxBlocked
    /\ snd_pc = "idle"
    /\ Len(calls) < MaxSends
    /\ calls' = Append(calls, kind)
    /\ \/ /\ kind = "REFUSED"
          /\ ReturnResult("SEND_ERROR", NoFrame)
          /\ UNCHANGED bitsVars
       \/ /\ kind # "REFUSED"
          /\ tx_bits' = Len(calls')
          /\ scout_bits' = IF kind = "BROADCAST" THEN scout_bits ELSE Len(calls')
          /\ snd_pc' = "post"
          /\ UNCHANGED results
    /\ UNCHANGED <<rxSide, txSide, wireVars, bounds>>

PostSend ==
    /\ tx_run' = "runs"
    /\ TxBlocked
    /\ snd_pc = "post"
    /\ HasRoom(tx_command_queue, CmdQueueLen)
    /\ tx_command_queue' = Append(tx_command_queue, SendCommand(calls[Len(calls)]))
    /\ snd_pc' = "wait"
    /\ UNCHANGED <<rxSide, txVars, goVars, ackVars, calls, results, bitsVars,
                   wireVars, bounds>>

\* The queue stayed full for 1000 ticks.
PostExpired ==
    /\ TxBlocked
    /\ snd_pc = "post"
    /\ ~HasRoom(tx_command_queue, CmdQueueLen)
    /\ timeouts < MaxTimeouts
    /\ timeouts' = timeouts + 1
    /\ ReturnResult("SEND_ERROR", NoFrame)
    /\ UNCHANGED <<rxSide, txSide, calls, bitsVars, wireVars, traffic>>

\* ulTaskNotifyTake(pdTRUE, ...) clears the count and returns what it was;
\* only a count of exactly pdTRUE is taken for success.
SendReturns ==
    /\ TxBlocked
    /\ snd_pc = "wait"
    /\ notified > 0
    /\ notified' = 0
    /\ IF notified = 1
       THEN ReturnResult(tx_sent_ack,
                         IF calls[Len(calls)] = "BROADCAST" THEN NoFrame ELSE imm_reply)
       ELSE ReturnResult("SEND_ERROR", NoFrame)
    /\ UNCHANGED <<rxSide, tx_command_queue, txVars, goVars, tx_sent_ack, calls,
                   bitsVars, wireVars, bounds, tx_run>>

\* ulTaskNotifyTake waited 10000 ticks.
SendExpired ==
    /\ TxBlocked
    /\ snd_pc = "wait"
    /\ notified = 0
    /\ timeouts < MaxTimeouts
    /\ timeouts' = timeouts + 1
    /\ ReturnResult("SEND_ERROR", NoFrame)
    /\ UNCHANGED <<rxSide, txSide, calls, bitsVars, wireVars, traffic>>

Sender ==
    \/ \E kind \in Kinds : Send(kind)
    \/ PostSend \/ PostExpired \/ SendReturns \/ SendExpired

-----------------------------------------------------------------------------
(* The task that consumes received packets: it takes one, works on it in   *)
(* place for as long as it likes, and comes back for the next.             *)

TakePacket ==
    /\ TxBlocked
    /\ held = NoPacket
    /\ econet_rx_packet_queue # <<>>
    /\ econet_rx_packet_queue' = Tail(econet_rx_packet_queue)
    /\ held' = IF Head(econet_rx_packet_queue).type = "P"
               THEN Head(econet_rx_packet_queue) ELSE NoPacket
    /\ UNCHANGED <<rx_idle, rxVars, txSide, sndSide, wireVars>>

ReleasePacket ==
    /\ TxBlocked
    /\ held # NoPacket
    /\ held' = NoPacket
    /\ UNCHANGED <<rx_idle, rxVars, econet_rx_packet_queue, txSide, sndSide,
                   wireVars>>

Consumer == TakePacket \/ ReleasePacket

-----------------------------------------------------------------------------
(* The other stations.  They wait for an idle bus; EarlyIdle lets one count *)
(* its idle bits from the true end of a frame, whereas this station counts  *)
(* only once tx_is_in_progress is cleared.                                  *)

OtherStarts ==
    /\ line = "quiet"
    /\ rx_idle \/ EarlyIdle
    /\ traffic < MaxTraffic
    /\ traffic' = traffic + 1
    /\ line' \in {"scout", "other"}
    /\ inbound' = IF line' = "scout" THEN "scout" ELSE "none"
    /\ peer' = 0
    /\ UNCHANGED <<rxSide, txSide, snd_pc, calls, results, bitsVars, accepted,
                   timeouts>>

\* A frame ends that this station does not accept: it was for another one, or
\* arrived damaged.
FrameLost ==
    /\ line \in {"ack", "reply", "scout", "data", "other"}
    /\ ~rx_idle
    /\ line' = "quiet"
    /\ inbound' = IF line \in {"scout", "data"} THEN "none" ELSE inbound
    /\ UNCHANGED <<rxSide, txSide, sndSide, peer, accepted>>

\* The flag stream that holds the line runs out before a frame follows it.
FlagsEnd ==
    /\ line = "flags"
    /\ line' = "quiet"
    /\ UNCHANGED <<rxSide, txSide, sndSide, inbound, peer, accepted>>

Wire == OtherStarts \/ FrameLost \/ FlagsEnd

-----------------------------------------------------------------------------
\* All calls have returned and nothing moves, or the firmware aborted.
Finished ==
    /\ \/ tx_pc = "abort"
       \/ /\ Len(results) = MaxSends
          /\ TxBlocked /\ tx_pc = "recv"
          /\ line = "quiet" /\ rx_idle
    /\ UNCHANGED vars

\* (After an abort, which restarts the device, only the wire goes on.)
Next == Finished \/ Interrupt \/ TxTask \/ TxDone \/ Sender \/ Consumer \/ Wire

Spec == Init /\ [][Next]_vars

\* The clock runs, so bits and frames come to an end; the tasks are scheduled
\* when nothing of a higher priority runs.
Fairness ==
    /\ WF_vars(BusActive) /\ WF_vars(IdleBits)
    /\ WF_vars(AckReceived \/ FrameReceived \/ FrameLost)
    /\ WF_vars(FlagsEnd)
    /\ WF_vars(TxTask) /\ WF_vars(TxDone)
    /\ WF_vars(PostSend) /\ WF_vars(SendReturns)

FairSpec == Spec /\ Fairness

-----------------------------------------------------------------------------
(* Properties. *)

Packets == {econet_rx_packet_queue[i] : i \in DOMAIN econet_rx_packet_queue}

RxTypeOK ==
    /\ rx_idle \in BOOLEAN
    /\ rx_packet_buffer_index \in 0..BufferCount-1
    /\ rx_packet_buffers \in [0..BufferCount-1 -> Nat]
    /\ frames \in Nat
    /\ econet_rx_packet_queue \in Seq(Packet)
    /\ Len(econet_rx_packet_queue) <= PktQueueLen
    /\ held \in Packet

TxTypeOK ==
    /\ tx_command_queue \in Seq(Command)
    /\ Len(tx_command_queue) <= CmdQueueLen
    /\ tx_pc \in TxPC
    /\ flags \in AllKinds
    /\ is_data_ready \in BOOLEAN
    /\ tx_is_in_progress \in BOOLEAN
    /\ tx_is_awaiting_imm_reply \in BOOLEAN
    /\ is_flagstream_queued \in BOOLEAN
    /\ imm_reply \in Frame
    /\ tx_sent_ack \in AckType
    /\ notified \in Nat
    /\ tx_run \in {"late", "runs", "overtaken"}

SenderTypeOK ==
    /\ snd_pc \in {"idle", "post", "wait"}
    /\ calls \in Seq(AllKinds)
    /\ Len(calls) <= MaxSends
    /\ results \in Seq(Result)
    /\ tx_bits \in 0..Len(calls)
    /\ scout_bits \in 0..Len(calls)
    /\ traffic \in 0..MaxTraffic
    /\ timeouts \in 0..MaxTimeouts

WireTypeOK ==
    /\ line \in {"quiet", "flags", "ours", "clash"} \cup {"ack", "reply", "scout", "data", "other"}
    /\ inbound \in {"none", "scout", "data"}
    /\ peer \in Nat
    /\ accepted \in [1..MaxSends -> Nat]

\* Every variable has its type; the queues stay within their capacity.
TypeOK == RxTypeOK /\ TxTypeOK /\ SenderTypeOK /\ WireTypeOK

\* A call that returns an acknowledgement was accepted by the addressed
\* station (econet.h: "Packet was acknowledged"): no queued notification, idle
\* report or acknowledgement of somebody else's is taken for it.
AckMeansAccepted ==
    \A i \in DOMAIN results :
        results[i].ret \in {"ACK", "IMM_REPLY"} /\ calls[i] # "BROADCAST" => accepted[i] > 0

\* A four-way handshake that ends in a NACK may be repeated: the station has
\* not accepted its data (econet.h: "safe to retry").
NackSafeToRetry ==
    \A i \in DOMAIN results :
        results[i].ret = "NACK" /\ calls[i] = "NORMAL" => accepted[i] = 0

\* No packet is put on the wire a second time for one call of econet_send.
AcceptedAtMostOnce == \A i \in 1..MaxSends : accepted[i] <= 1

\* An immediate reply handed to the caller is the addressed station's answer
\* to that very call, not some other frame that arrived meanwhile.
ImmReplyGenuine ==
    \A i \in DOMAIN results : results[i].ret = "IMM_REPLY" => results[i].imm.answers = i

\* The transmitter never waits for its next command with tx_is_in_progress
\* set, unless the command that clears it is queued: the flag suppresses idle
\* detection, and a transmitter that leaves it set never sends again.
TransmitterReleased ==
    tx_pc = "recv" /\ tx_is_in_progress => \E c \in Commands : c.cmd = "A"

\* While the transmitter waits for commands a flag stream is ready to hold the
\* line with, unless it was just used for an acknowledgement still queued.
FlagStreamReady ==
    tx_pc = "recv" /\ ~is_flagstream_queued => \E c \in Commands : c.cmd = "A"

\* What a call of econet_send returns is true of the addressed station,
\* however interrupts, tasks and frames of others interleave.
TruthfulResults == AckMeansAccepted /\ NackSafeToRetry /\ ImmReplyGenuine

\* Back at its queue the transmitter can send and receive again.
TransmitterUsable == TransmitterReleased /\ FlagStreamReady

\* After a plain scout no immediate reply can be queued: the branch of
\* _tx_task that drops one there leaves the caller without a result.
NoStrayReply ==
    tx_pc = "waitScout" /\ flags # "IMM_WITH_REPLY" => \A c \in Commands : c.cmd # "R"

\* Types and queues within their capacity; and a received frame keeps its
\* bytes until BufferCount-1 further frames have been accepted: a packet
\* queued or held, and the immediate reply, can be read until then.
Live(f) == f.stamp > 0 /\ frames - f.stamp < BufferCount - 1
Intact(f) == Live(f) => rx_packet_buffers[f.buf] = f.stamp
FramesIntact ==
    /\ TypeOK
    /\ \A p \in Packets \cup {held} : Intact(p.frame)
    /\ \A c \in Commands : Intact(c.frame)
    /\ Intact(imm_reply)
    /\ \A i \in DOMAIN results : Intact(results[i].imm)

\* The frame being clocked out is not rebuilt under the transmitter.
FrameStable ==
    [][/\ tx_pc \in {"txScout"} => scout_bits' = scout_bits
       /\ tx_pc \in {"txData", "txBroadcast"} => tx_bits' = tx_bits]_vars

\* Every call of econet_send gets its result from the transmitter.
EverySendReturns == snd_pc = "wait" ~> snd_pc = "idle"

-----------------------------------------------------------------------------
(* What comments in the code promise and the code does not keep. *)

\* econet.h: "Send broadcast (no ACK expected)": no acknowledgement is waited
\* for on behalf of a broadcast.
BroadcastNeedsNoAck ==
    snd_pc = "wait" /\ calls[Len(calls)] = "BROADCAST" => tx_pc # "waitScout"

\* econet.h: "Packet was acknowledged with immediate reply": a caller is
\* given reply data only with that result.
ReplyOnlyWithReply ==
    \A i \in DOMAIN results : results[i].ret # "IMM_REPLY" => results[i].imm = NoFrame
=============================================================================
