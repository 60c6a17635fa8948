-------------------------------- MODULE Hdlc --------------------------------
(***************************************************************************)
(* Frames on the wire: _generate_frame_bits of econet_tx.c and _clk_bit of *)
(* econet_rx.c, bit for bit, over a line on which other bits come between  *)
(* frames, a frame may break off anywhere and a bit may be misread.        *)
(*                                                                         *)
(* This device and another station, taken to send in the same way, send in *)
(* turn, as in a handshake.  What becomes of a frame whose check sum holds *)
(* is module Econet's; here it is only put down in "got".                   *)
(***************************************************************************)
EXTENDS Integers, Sequences, SequencesExt

CONSTANTS
  Payloads,       \* frames without their check sum: sequences of bytes
  ECONET_MTU, 
  BitsSize,       \* bytes in the buffer a frame's bits are generated in
  MaxFrames, MaxNoise, MaxFaults    \* bounds

Bit == {0, 1}
Byte == [0..7 -> Bit]             \* the least significant bit, which is sent first, is 0

ASSUME HdlcAssumption ==
  /\ Payloads \subseteq Seq(Byte)
  /\ {ECONET_MTU, BitsSize, MaxFrames, MaxNoise, MaxFaults} \subseteq Nat
  /\ ECONET_MTU > 0

VARIABLES
  place,          \* bits sent of the frame in flight, or 0 between frames
  own,            \* whether it is this device's (tx_is_in_progress)
  shift,          \* _raw_shift_in
  data, bit,      \* _recv_data_shift_in and _recv_data_bit
  active, buf,    \* is_frame_active and the bytes received
  crc,            \* rx_crc
  ones,           \* rx_idle_one_counter
  payload, whole, \* the last frame, and (a ghost) if all of it was sent and read
  got,            \* ghost: frames accepted since it began
  sent,           \* ghost: all payloads sent so far
  frames, noise, faults

receiver == <<shift, data, bit, active, buf, crc, ones, got>>
counts == <<frames, noise, faults>>
vars == <<place, own, receiver, payload, whole, sent, counts>>

IdleBits == 15                    \* ECONET_IDLE_BITS

-----------------------------------------------------------------------------
(* crc16_x25, over the bits of the register; _clk_bit has the loop again. *)
Register == [0..15 -> Bit]
NoBits == [i \in 0..15 |-> 0]
ZeroByte == [i \in 0..7 |-> 0]
AllOnes == [i \in 0..15 |-> 1]
Xor(a, b) == IF a = b THEN 0 ELSE 1

CrcStep(c) ==
  LET down == [i \in 0..15 |-> IF i = 15 THEN 0 ELSE c[i + 1]]
  IN [i \in 0..15 |-> IF i \in {3, 10, 15} THEN Xor(down[i], c[0]) ELSE down[i]]   \* 0x8408
CrcNibble(c) == CrcStep(CrcStep(CrcStep(CrcStep(c))))
CrcByte(c, byte) ==
  CrcNibble(CrcNibble([i \in 0..15 |-> IF i <= 7 THEN Xor(c[i], byte[i]) ELSE c[i]]))

(* The register after each of these bytes. *)
CrcAfter(bytes) ==
  LET after[n \in Nat] == IF n = 0 THEN AllOnes ELSE CrcByte(after[n - 1], bytes[n])
  IN after

WithFcs(p) ==
  LET fcs == [i \in 0..15 |-> Xor(CrcAfter(p)[Len(p)][i], 1)]
  IN p \o <<[i \in 0..7 |-> fcs[i]], [i \in 0..7 |-> fcs[i + 8]]>>

Flag == <<0, 1, 1, 1, 1, 1, 1, 0>>

AddBitKeepsCount(so_far, b) ==
  CASE b = 1 /\ so_far.ones = 4 -> [bits |-> so_far.bits \o <<1, 0>>, ones |-> 5]
    [] b = 1 /\ so_far.ones # 4 -> [bits |-> Append(so_far.bits, 1), ones |-> so_far.ones + 1]
    [] OTHER -> [bits |-> Append(so_far.bits, 0), ones |-> 0]

(* _add_byte_stuffed: a zero after five ones in a row. *)
AddBit(so_far, b) ==
  CASE b = 1 /\ so_far.ones = 4 -> [bits |-> so_far.bits \o <<1, 0>>, ones |-> 0]
    [] b = 1 /\ so_far.ones # 4 -> [bits |-> Append(so_far.bits, 1), ones |-> so_far.ones + 1]
    [] OTHER -> [bits |-> Append(so_far.bits, 0), ones |-> 0]

(* The bits of these bytes up to each of them, stuffed. *)
BitAt(bytes, n) == bytes[1 + (n - 1) \div 8][(n - 1) % 8]
Stuffed(bytes) ==
  LET after[n \in Nat] == IF n = 0 THEN [bits |-> <<>>, ones |-> 0]
                          ELSE AddBit(after[n - 1], BitAt(bytes, n))
  IN after

(* _generate_frame_bits without the padding, during which the driver is off. *)
FrameBits(bytes) == Flag \o Flag \o Stuffed(bytes)[8 * Len(bytes)].bits \o Flag

Line == [p \in Payloads |-> FrameBits(WithFcs(p))]

(* Two bits of the peripheral for one of the line, padded to 32.  The code *)
(* returns 0 when that is too long; no caller looks, and the driver's      *)
(* refusal of an empty transmission restarts the device.                    *)
Bytes(bits) == 4 * ((2 * Len(bits) + 31) \div 32)
Fits(p) == Bytes(Line[p]) <= BitsSize

-----------------------------------------------------------------------------
Shifted(c) == (2 * shift + c) % 256

(* The idle counter: reported to both tasks when it gets to IdleBits. *)
CountOnes(c) ==
  ones' = IF c = 1 /\ ~own THEN (IF ones < IdleBits THEN ones + 1 ELSE ones) ELSE 0

BeginFrame ==
  /\ bit' = 0 /\ buf' = <<>> /\ crc' = AllOnes /\ active' = TRUE
  /\ UNCHANGED <<data, got>>

Residual == [i \in 0..15 |-> IF i \in {3, 4, 5, 7, 12, 13, 14, 15} THEN 1 ELSE 0]   \* 0xF0B8

AcceptedAnyCrc == Len(buf) >= 6
Accepted == Len(buf) >= 6 /\ crc = Residual

(* After the end of a frame nobody reads the registers: BeginFrame sets    *)
(* them, and eight bits fill the shift register of the data.                *)
EndFrame ==
  active' = FALSE /\ data' = ZeroByte /\ bit' = 0 /\ buf' = <<>> /\ crc' = NoBits

(* The closing flag is not the opening flag of the next frame. *)
CompleteFrame ==
  /\ got' = IF Accepted THEN Append(got, SubSeq(buf, 1, Len(buf) - 2)) ELSE got
  /\ EndFrame

FlagSeen ==
  /\ shift' = 126
  /\ IF active /\ Len(buf) > 1 THEN CompleteFrame ELSE BeginFrame

NotInFrame ==
  /\ shift' # 126 /\ ~active
  /\ UNCHANGED <<data, bit, active, buf, crc, got>>

AbortOfLongFrames ==
  /\ shift' = 127 /\ active
  /\ IF Len(buf) > 1 THEN EndFrame ELSE UNCHANGED <<data, bit, active, buf, crc>>
  /\ UNCHANGED got

AbortSeen ==
  /\ shift' = 127 /\ active
  /\ EndFrame
  /\ UNCHANGED got

StuffedBit ==
  /\ shift' # 126 /\ active /\ shift' % 64 = 62
  /\ UNCHANGED <<data, bit, active, buf, crc, got>>

Oversize(length) == length = ECONET_MTU

DataBit(c) ==
  /\ shift' \notin {126, 127} /\ active /\ shift' % 64 # 62
  /\ LET byte == [i \in 0..7 |-> IF i = 7 THEN c ELSE data[i + 1]]
     IN \/ /\ bit < 7
           /\ data' = byte /\ bit' = bit + 1
           /\ UNCHANGED <<active, buf, crc>>
        \/ /\ bit = 7 /\ Oversize(Len(buf) + 1)
           /\ EndFrame
        \/ /\ bit = 7 /\ ~Oversize(Len(buf) + 1)
           /\ data' = byte /\ bit' = 0
           /\ buf' = Append(buf, byte) /\ crc' = CrcByte(crc, byte)
           /\ UNCHANGED active
  /\ UNCHANGED got

ClkBit(c) ==
  /\ CountOnes(c)
  /\ shift' = Shifted(c)
  /\ FlagSeen \/ NotInFrame \/ AbortSeen \/ StuffedBit \/ DataBit(c)

-----------------------------------------------------------------------------
(* The line. *)

InFlight == place > 0
Coming == Line[payload][place]
Onward == place' = IF place < Len(Line[payload]) THEN place + 1 ELSE 0

(* Another frame starts, after a pause or without one. *)
Send(p) ==
  /\ ~InFlight /\ frames < MaxFrames
  /\ Fits(p)
  /\ place' = 1 /\ own' = (frames % 2 = 0)
  /\ payload' = p /\ whole' = TRUE /\ got' = <<>> /\ sent' = sent \cup {p}
  /\ frames' = frames + 1
  /\ UNCHANGED <<shift, data, bit, active, buf, crc, ones, noise, faults>>

Receive ==
  /\ InFlight
  /\ ClkBit(Coming) /\ Onward
  /\ UNCHANGED <<own, payload, whole, sent, counts>>

Misread ==
  /\ InFlight /\ faults < MaxFaults
  /\ ClkBit(1 - Coming) /\ Onward
  /\ whole' = FALSE /\ faults' = faults + 1
  /\ UNCHANGED <<own, payload, sent, frames, noise>>

(* The sender breaks off. *)
BreakOff ==
  /\ InFlight /\ faults < MaxFaults
  /\ place' = 0 /\ whole' = FALSE /\ faults' = faults + 1
  /\ UNCHANGED <<own, receiver, payload, sent, frames, noise>>

(* Between frames nobody drives the line, which then reads as ones; zeros  *)
(* are noise.                                                               *)
Between(c) ==
  /\ ~InFlight
  /\ own' = FALSE
  /\ c = 1 \/ noise < MaxNoise
  /\ noise' = IF c = 1 THEN noise ELSE noise + 1
  /\ ClkBit(c)
  /\ UNCHANGED <<place, payload, whole, sent, frames, faults>>

Init ==
  /\ place = 0 /\ own = FALSE
  /\ shift = 0 /\ data = ZeroByte /\ bit = 0 /\ active = FALSE /\ buf = <<>> /\ crc = NoBits
  /\ ones = 0 /\ payload = <<>> /\ whole = FALSE /\ got = <<>> /\ sent = {}
  /\ frames = 0 /\ noise = 0 /\ faults = 0

Next ==
  \/ \E p \in Payloads : Send(p)
  \/ Receive \/ Misread \/ BreakOff
  \/ \E c \in Bit : Between(c)

Spec == Init /\ [][Next]_vars

-----------------------------------------------------------------------------
(* A frame being received never fills the buffer: one of ECONET_MTU bytes  *)
(* is given up at its last byte (econet_rx.c:238-246).                      *)
TypeOK ==
  /\ place \in Nat /\ own \in BOOLEAN
  /\ shift \in 0..255 /\ data \in Byte /\ crc \in Register
  /\ active \in BOOLEAN /\ ones \in 0..IdleBits
  /\ bit \in 0..7 /\ buf \in Seq(Byte)
  /\ Len(buf) < ECONET_MTU
  /\ sent \subseteq Payloads

(* Whatever was on the line before, and whatever its payload, a frame that *)
(* gets through whole is accepted at its last bit, once and as it was sent, *)
(* if its length is acceptable; and no other bits of it are taken for the   *)
(* end of a frame (econet_rx.c:56-219, econet_tx.c:130-208).                *)
Acceptable(p) == Len(p) \in 4..(ECONET_MTU - 3)
FrameArrives ==
  place > Len(Flag) /\ whole' =>
    got' = IF place' = 0 /\ Acceptable(payload) THEN Append(got, payload) ELSE got
FramesGetThrough == [][FrameArrives]_vars

(* Nothing is accepted that was not sent: neither the rest of a frame that *)
(* broke off, alone or with the next, nor one of which a bit was misread    *)
(* (econet_rx.c:59-78).                                                      *)
NothingMadeUp == ToSet(got) \subseteq sent

(* Types, and the line is idle only when no frame is being received: the   *)
(* transmitter, which starts on idle, does not talk over a frame            *)
(* (econet_rx.c:150-171).                                                    *)
IdleMeansNoFrame == TypeOK /\ (ones = IdleBits => ~active)
=============================================================================
