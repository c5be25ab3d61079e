---------------------------- MODULE ModbusCodec ----------------------------
(***************************************************************************)
(* Frames as bytes: how modbus_pdu.c lays a pdu out, how modbus_rtu.c and  *)
(* modbus_tcp.c frame it, and what their parsers make of any sequence of   *)
(* bytes, with the conversions of modbus_cvt.c and the CRC of modbus_crc.c.*)
(*                                                                         *)
(* A pdu is [fc, words, data]: its function code, its 16-bit fields in the *)
(* order of the frame, and the bytes that its length byte counts.  The     *)
(* nine pairs of make and parse functions differ in this layout only.      *)
(***************************************************************************)
EXTENDS Integers, Sequences

Byte == 0 .. 255
Word == 0 .. 65535

-----------------------------------------------------------------------------
(* modbus_cvt.c.                                                           *)

\* The high byte goes first.
U16Put(v)    == <<v \div 256, v % 256>>
U16Get(b, i) == 256 * b[i] + b[i + 1]

BitmapGet(bits, idx) == (bits[idx \div 8 + 1] \div 2 ^ (idx % 8)) % 2

\* MUTANT of BitmapSet: the other bits of the byte are lost.
BitmapAssign(bits, idx, bit) == [bits EXCEPT ![idx \div 8 + 1] = bit * 2 ^ (idx % 8)]

BitmapSet(bits, idx, bit) ==
    [bits EXCEPT ![idx \div 8 + 1] = @ + (bit - BitmapGet(bits, idx)) * 2 ^ (idx % 8)]

-----------------------------------------------------------------------------
(* modbus_crc.c.                                                           *)

BitOf(v, i) == (v \div 2 ^ i) % 2

\* Exclusive or of two bytes.
Xor == [x \in Byte |-> [y \in Byte |->
          LET d(i) == IF BitOf(x, i) # BitOf(y, i) THEN 2 ^ i ELSE 0
          IN d(0) + d(1) + d(2) + d(3) + d(4) + d(5) + d(6) + d(7)]]

mb_crc_table == <<
    \h0000, \hC0C1, \hC181, \h0140, \hC301, \h03C0, \h0280, \hC241,
    \hC601, \h06C0, \h0780, \hC741, \h0500, \hC5C1, \hC481, \h0440,
    \hCC01, \h0CC0, \h0D80, \hCD41, \h0F00, \hCFC1, \hCE81, \h0E40,
    \h0A00, \hCAC1, \hCB81, \h0B40, \hC901, \h09C0, \h0880, \hC841,
    \hD801, \h18C0, \h1980, \hD941, \h1B00, \hDBC1, \hDA81, \h1A40,
    \h1E00, \hDEC1, \hDF81, \h1F40, \hDD01, \h1DC0, \h1C80, \hDC41,
    \h1400, \hD4C1, \hD581, \h1540, \hD701, \h17C0, \h1680, \hD641,
    \hD201, \h12C0, \h1380, \hD341, \h1100, \hD1C1, \hD081, \h1040,
    \hF001, \h30C0, \h3180, \hF141, \h3300, \hF3C1, \hF281, \h3240,
    \h3600, \hF6C1, \hF781, \h3740, \hF501, \h35C0, \h3480, \hF441,
    \h3C00, \hFCC1, \hFD81, \h3D40, \hFF01, \h3FC0, \h3E80, \hFE41,
    \hFA01, \h3AC0, \h3B80, \hFB41, \h3900, \hF9C1, \hF881, \h3840,
    \h2800, \hE8C1, \hE981, \h2940, \hEB01, \h2BC0, \h2A80, \hEA41,
    \hEE01, \h2EC0, \h2F80, \hEF41, \h2D00, \hEDC1, \hEC81, \h2C40,
    \hE401, \h24C0, \h2580, \hE541, \h2700, \hE7C1, \hE681, \h2640,
    \h2200, \hE2C1, \hE381, \h2340, \hE101, \h21C0, \h2080, \hE041,
    \hA001, \h60C0, \h6180, \hA141, \h6300, \hA3C1, \hA281, \h6240,
    \h6600, \hA6C1, \hA781, \h6740, \hA501, \h65C0, \h6480, \hA441,
    \h6C00, \hACC1, \hAD81, \h6D40, \hAF01, \h6FC0, \h6E80, \hAE41,
    \hAA01, \h6AC0, \h6B80, \hAB41, \h6900, \hA9C1, \hA881, \h6840,
    \h7800, \hB8C1, \hB981, \h7940, \hBB01, \h7BC0, \h7A80, \hBA41,
    \hBE01, \h7EC0, \h7F80, \hBF41, \h7D00, \hBDC1, \hBC81, \h7C40,
    \hB401, \h74C0, \h7580, \hB541, \h7700, \hB7C1, \hB681, \h7640,
    \h7200, \hB2C1, \hB381, \h7340, \hB101, \h71C0, \h7080, \hB041,
    \h5000, \h90C1, \h9181, \h5140, \h9301, \h53C0, \h5280, \h9241,
    \h9601, \h56C0, \h5780, \h9741, \h5500, \h95C1, \h9481, \h5440,
    \h9C01, \h5CC0, \h5D80, \h9D41, \h5F00, \h9FC1, \h9E81, \h5E40,
    \h5A00, \h9AC1, \h9B81, \h5B40, \h9901, \h59C0, \h5880, \h9841,
    \h8801, \h48C0, \h4980, \h8941, \h4B00, \h8BC1, \h8A81, \h4A40,
    \h4E00, \h8EC1, \h8F81, \h4F40, \h8D01, \h4DC0, \h4C80, \h8C41,
    \h4400, \h84C1, \h8581, \h4540, \h8701, \h47C0, \h4680, \h8641,
    \h8201, \h42C0, \h4380, \h8341, \h4100, \h81C1, \h8081, \h4040 >>

\* MUTANT of CrcStep: the byte meets the high half of the register.
CrcStepHigh(crc, byte) ==
    LET t == mb_crc_table[Xor[crc \div 256][byte] + 1]
    IN 256 * (t \div 256) + Xor[crc % 256][t % 256]

\* crc = (crc >> 8) ^ mb_crc_table[(u8)crc ^ byte]
CrcStep(crc, byte) ==
    LET t == mb_crc_table[Xor[crc % 256][byte] + 1]
    IN 256 * (t \div 256) + Xor[crc \div 256][t % 256]

\* Byte by byte, n of them from b[i + 1] on; in halves, so that the recursion
\* stays shallow.
CrcCycCal(init, b, len) ==
    LET crc[n \in 0 .. len] == [i \in 0 .. len - n |-> [c \in Word |->
          IF n = 0 THEN c
          ELSE IF n = 1 THEN CrcStep(c, b[i + 1])
          ELSE LET h == n \div 2 IN crc[n - h][i + h][crc[h][i][c]]]]
    IN crc[len][0][init]

Crc(b, len) == CrcCycCal(\hFFFF, b, len)

-----------------------------------------------------------------------------
(* modbus_pdu.c.                                                           *)

\* Number of 16-bit fields, and whether a length byte and data follow.
Layout(words, data) == [words |-> words, data |-> data]

RdReq    == Layout(2, FALSE)
RdRsp    == Layout(0, TRUE)
WrSingle == Layout(2, FALSE)
WrReq    == Layout(2, TRUE)
WrRsp    == Layout(2, FALSE)
MaskWr   == Layout(3, FALSE)
WrRdReq  == Layout(4, TRUE)

\* fc and the exception code; NoLayout: a function that is not supported.
Except   == [words |-> -1, data |-> FALSE]
NoLayout == [words |-> -2, data |-> FALSE]

ReadCodes  == {1, 2, 3, 4}
WriteOne   == {5, 6}
WriteMany  == {15, 16}

ReqLayout(fc) ==
    CASE fc \in ReadCodes -> RdReq
      [] fc \in WriteOne  -> WrSingle
      [] fc \in WriteMany -> WrReq
      [] fc = 22          -> MaskWr
      [] fc = 23          -> WrRdReq
      [] OTHER            -> NoLayout

\* MODBUS_FC_EXCEPT_CHK comes first.
RspLayout(fc) ==
    CASE fc >= 128                 -> Except
      [] fc \in ReadCodes \cup {23} -> RdRsp
      [] fc \in WriteOne           -> WrSingle
      [] fc \in WriteMany          -> WrRsp
      [] fc = 22                   -> MaskWr
      [] OTHER                     -> NoLayout

LayoutOf(fc, type) == IF type = "req" THEN ReqLayout(fc) ELSE RspLayout(fc)

\* Bytes before the length byte, or all of them where there is none.
Fixed(L) == IF L = Except THEN 2 ELSE 1 + 2 * L.words

\* Bytes a parser asks for before it looks at any: one of the data is among
\* them, so that a pdu whose length byte is 0 may be refused.
MinLen(L) == IF L.data THEN Fixed(L) + 2 ELSE Fixed(L)

\* The exception code is the data of an exception, without a length.
PduMake(pdu, type) ==
    <<pdu.fc>>
    \o [i \in 1 .. 2 * Len(pdu.words) |-> U16Put(pdu.words[(i + 1) \div 2])[2 - (i % 2)]]
    \o (IF LayoutOf(pdu.fc, type).data THEN <<Len(pdu.data)>> ELSE <<>>) \o pdu.data

\* What mb_pdu_parse returns for len bytes of b from position at + 1: how long
\* the pdu says it is, which may be more than there is.
PduParse(b, at, len, type) ==
    LET L == LayoutOf(b[at + 1], type)
    IN IF L = NoLayout THEN -1
       ELSE IF len < MinLen(L) THEN 0
       ELSE IF L.data THEN Fixed(L) + 1 + b[at + Fixed(L) + 1] ELSE Fixed(L)

\* The fields it assigns.
PduFields(b, at, n, type) ==
    LET L == LayoutOf(b[at + 1], type)
        words == IF L = Except THEN 0 ELSE L.words
    IN [fc    |-> b[at + 1],
        words |-> [i \in 1 .. words |-> U16Get(b, at + 2 * i)],
        data  |-> SubSeq(b, at + 2 * words + (IF L.data THEN 3 ELSE 2), at + n)]

-----------------------------------------------------------------------------
(* modbus_rtu.c: address, pdu, CRC with its low byte first.                *)

RtuSize(n) == n + 3

RtuMake(saddr, pdu, type) ==
    LET b == <<saddr>> \o PduMake(pdu, type)
        crc == Crc(b, Len(b))
    IN b \o <<crc % 256, crc \div 256>>

\* MUTANTS of RtuParse: the frame's length is not compared with what was
\* received; the CRC is not tested; it is taken over all that was received; it
\* is kept in a byte.
RtuParseAnyLength(b, type) ==
    IF Len(b) < 5 THEN 0 ELSE PduParse(b, 1, Len(b) - 3, type)
RtuParseNoCrc(b, type) ==
    IF Len(b) < 5 THEN 0
    ELSE LET n == PduParse(b, 1, Len(b) - 3, type) IN IF n > Len(b) - 3 THEN 0 ELSE n
RtuParseWholeCrc(b, type) ==
    IF Len(b) < 5 THEN 0
    ELSE LET n == PduParse(b, 1, Len(b) - 3, type)
         IN IF n <= 0 THEN n
            ELSE IF Len(b) - 3 < n \/ Crc(b, Len(b)) # 0 THEN 0 ELSE n
RtuParseByteCrc(b, type) ==
    IF Len(b) < 5 THEN 0
    ELSE LET n == PduParse(b, 1, Len(b) - 3, type)
         IN IF n <= 0 THEN n
            ELSE IF Len(b) - 3 < n \/ Crc(b, RtuSize(n)) % 256 # 0 THEN 0 ELSE n

\* mb_rtu_frm_parse: the length of the pdu, 0 or -1.
RtuParse(b, type) ==
    IF Len(b) < 5 THEN 0
    ELSE LET n == PduParse(b, 1, Len(b) - 3, type)
         IN IF n <= 0 THEN n
            ELSE IF Len(b) - 3 < n \/ Crc(b, RtuSize(n)) # 0 THEN 0 ELSE n

-----------------------------------------------------------------------------
(* modbus_tcp.c: tid, pid, the length of what follows, did, pdu.           *)

TcpMake(tid, pid, did, pdu, type) ==
    LET p == PduMake(pdu, type)
    IN U16Put(tid) \o U16Put(pid) \o U16Put(Len(p) + 1) \o <<did>> \o p

\* mb_tcp_frm_parse; the length in the header is not compared with anything.
TcpParse(b, type) ==
    IF Len(b) < 9 THEN 0
    ELSE LET n == PduParse(b, 7, Len(b) - 7, type)
         IN IF n <= 0 THEN n ELSE IF Len(b) - 7 < n THEN 0 ELSE n

TcpFields(b) == [tid |-> U16Get(b, 1), pid |-> U16Get(b, 3), dlen |-> U16Get(b, 5), did |-> b[7]]

=============================================================================
