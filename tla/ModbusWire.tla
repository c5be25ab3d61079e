------------------------------ MODULE ModbusWire ------------------------------
(***************************************************************************)
(* One frame on its way: the sender makes it of a message, the line may    *)
(* lose its end, disturb it or let another frame follow without a silence, *)
(* and the receiver parses what it has collected.                          *)
(***************************************************************************)
EXTENDS ModbusCodec

CONSTANTS
    Messages,    \* what is sent: [type, fc, words, data, bits]; bits: what a
                 \*   slave read for data, or <<>>
    Frames,      \* "RTU", "TCP": the framings in use
    Saddrs,      \* addresses in the frames
    Tids,        \* transaction identifiers
    FlipMax,     \* bound: the line damages a frame within its first bytes
    Marks        \* bits that a longer disturbance inverts in a byte

\* hinst->datas after a loop over bits: cleared, then set bit by bit.
Packed(bits) ==
    LET datas[i \in 0 .. Len(bits)] ==
          IF i = 0 THEN [k \in 1 .. (Len(bits) + 7) \div 8 |-> 0]
          ELSE BitmapSet(datas[i - 1], i - 1, bits[i])
    IN datas[Len(bits)]

ASSUME MessageAssumption == \A m \in Messages :
    /\ m.type \in {"req", "rsp"} /\ m.fc \in Byte
    /\ LayoutOf(m.fc, m.type) # NoLayout
    /\ m.bits \in Seq({0, 1})
    /\ m.bits # <<>> => m.data = Packed(m.bits)
    /\ m.words \in Seq(Word) /\ m.data \in Seq(Byte) /\ Len(m.data) <= 255
    /\ IF LayoutOf(m.fc, m.type) = Except THEN m.words = <<>> /\ Len(m.data) = 1
       ELSE /\ Len(m.words) = LayoutOf(m.fc, m.type).words
            /\ (m.data # <<>>) <=> LayoutOf(m.fc, m.type).data
ASSUME WireAssumption ==
    /\ Frames \subseteq {"RTU", "TCP"} /\ Saddrs \subseteq Byte /\ Tids \subseteq Word
    /\ Marks \subseteq Byte

VARIABLES
    msg,     \* the message sent, with its framing, address and tid
    wire,    \* bytes that the receiver collects
    fate,    \* what the line did: nothing yet, "cut", ...
    got      \* what the parser returned and the fields it read

vars == <<msg, wire, fate, got>>

Nothing == [n |-> -2]

MakeFrame(f, sa, tid, m) ==
    IF f = "RTU" THEN RtuMake(sa, m, m.type) ELSE TcpMake(tid, 0, sa, m, m.type)

Sent == MakeFrame(msg.frame, msg.sa, msg.tid, msg.m)

Head1(f) == IF f = "RTU" THEN 1 ELSE 7

Parse(f, b, type) == IF f = "RTU" THEN RtuParse(b, type) ELSE TcpParse(b, type)

Init ==
    /\ \E f \in Frames, sa \in Saddrs, tid \in Tids, m \in Messages :
         /\ msg = [frame |-> f, sa |-> sa, tid |-> tid, m |-> m]
         /\ wire = MakeFrame(f, sa, tid, m)
    /\ fate = "whole" /\ got = Nothing

\* Only the first n bytes come before the line is silent.
Cut(n) ==
    /\ fate = "whole" /\ n < Len(wire)
    /\ wire' = SubSeq(wire, 1, n)
    /\ fate' = "cut" /\ UNCHANGED <<msg, got>>

\* Bit i of byte k is inverted on the line.
Flip(k, i) ==
    /\ fate = "whole" /\ msg.frame = "RTU" /\ k <= Len(wire)
    /\ wire' = [wire EXCEPT ![k] = IF BitOf(@, i) = 1 THEN @ - 2 ^ i ELSE @ + 2 ^ i]
    /\ fate' = "flipped" /\ UNCHANGED <<msg, got>>

\* A disturbance of up to 16 bits: it inverts u in byte k and v in the next.
Smear(k, u, v) ==
    /\ fate = "whole" /\ msg.frame = "RTU" /\ k < Len(wire)
    /\ u # 0 \/ v # 0
    /\ wire' = [wire EXCEPT ![k] = Xor[@][u], ![k + 1] = Xor[@][v]]
    /\ fate' = "flipped" /\ UNCHANGED <<msg, got>>

\* The next frame, or its beginning, follows at once.
Join(m, n) ==
    LET next == MakeFrame(msg.frame, msg.sa, msg.tid, m) IN
    /\ fate = "whole" /\ n <= Len(next)
    /\ wire' = wire \o SubSeq(next, 1, n)
    /\ fate' = "joined" /\ UNCHANGED <<msg, got>>

\* The sender gave up after n bytes, and its next frame follows.
Splice(m, n) ==
    /\ fate = "whole" /\ msg.frame = "RTU" /\ n < Len(wire)
    /\ wire' = SubSeq(wire, 1, n) \o MakeFrame(msg.frame, msg.sa, msg.tid, m)
    /\ fate' = "spliced" /\ UNCHANGED <<msg, got>>

\* Fields are read where the parser found a pdu; of one that is longer than
\* what has come the model reads none.
Receive ==
    /\ got = Nothing
    /\ LET n  == Parse(msg.frame, wire, msg.m.type)
           at == Head1(msg.frame)
       IN got' = IF n <= 0 \/ at + n > Len(wire) THEN [n |-> n]
                 ELSE [n |-> n, sa |-> wire[at],
                       tid |-> IF msg.frame = "TCP" THEN TcpFields(wire).tid ELSE msg.tid,
                       pdu |-> PduFields(wire, at, n, msg.m.type)]
    /\ fate' = IF fate = "whole" THEN "untouched" ELSE fate
    /\ UNCHANGED <<msg, wire>>

Next ==
    \/ \E n \in 0 .. Len(wire) - 1 : Cut(n)
    \/ \E k \in 1 .. FlipMax, i \in 0 .. 7 : Flip(k, i)
    \/ \E k \in 1 .. FlipMax, u, v \in Marks : Smear(k, u, v)
    \/ \E m \in Messages, n \in {1, 8} : Join(m, n)
    \/ \E m \in Messages, n \in 1 .. FlipMax : Splice(m, n)
    \/ Receive

Spec == Init /\ [][Next]_vars

-----------------------------------------------------------------------------
(* Properties.                                                             *)

Received(f) == got # Nothing /\ fate = f

PduOf(m) == [fc |-> m.fc, words |-> m.words, data |-> m.data]

\* A frame comes out as it went in, also with more bytes behind it: the parser
\* returns the length of the pdu and reads every field that was put there.
FrameArrives ==
    Received("untouched") \/ Received("joined") =>
        /\ got.n = Len(PduMake(msg.m, msg.m.type))
        /\ got.sa = msg.sa /\ got.tid = msg.tid
        /\ got.pdu = PduOf(msg.m)

\* A frame that is not complete is taken neither for a frame nor for one of an
\* unknown function, wherever it breaks off (modbus_rtu.h: 0 for a bad frame).
CutFrameRejected == Received("cut") => got.n = 0

\* A receiver tells a disturbed RTU frame: not a bit is lost on the CRC, and
\* the beginning of a frame does not make one with the frame behind it.  Bits
\* of the function code and of a length byte change how long the frame is held
\* to be; of those the run covers what its messages contain.
DamageIsCaught == Received("flipped") \/ Received("spliced") => got.n <= 0

\* What tells how long an RTU frame is has come as it was sent: its function
\* code, and the length byte where there is one.
LengthKept ==
    LET lay == LayoutOf(msg.m.fc, msg.m.type) IN
    /\ wire[2] = Sent[2]
    /\ lay.data => wire[Fixed(lay) + 2] = Sent[Fixed(lay) + 2]

\* Of a frame whose length is still told nothing is accepted, whatever it
\* carries, and whatever happened to one of its bytes or to two neighbours,
\* those of the CRC included: modbus_rtu.h calls it a bad frame, and the slave
\* answers nothing.
DamagedFrameIsBad == Received("flipped") /\ LengthKept => got.n = 0

\* The CRC of the specification: a register shifted bit by bit, with the
\* polynomial 0xA001 (modbus_crc.c computes it by a table).
XorWord(x, y) == 256 * Xor[x \div 256][y \div 256] + Xor[x % 256][y % 256]
CrcShift(c)   == IF c % 2 = 1 THEN XorWord(c \div 2, \hA001) ELSE c \div 2
CrcByBits(c, byte) ==
    LET r[i \in 0 .. 8] == IF i = 0 THEN XorWord(c, byte) ELSE CrcShift(r[i - 1]) IN r[8]
CrcAsSpecified ==
    fate = "whole" => \A i \in DOMAIN wire :
        LET c == Crc(wire, i - 1) IN Crc(wire, i) = CrcByBits(c, wire[i])

\* The bits a slave read are the bits the master finds, at their places.
BitsArrive ==
    Received("untouched") /\ msg.m.bits # <<>> =>
        \A i \in DOMAIN msg.m.bits : BitmapGet(got.pdu.data, i - 1) = msg.m.bits[i]
===============================================================================
