---------------------------- MODULE ModbusWireProofs ----------------------------
(***************************************************************************)
(* Proofs about the frames of ModbusCodec.  A frame that breaks off is     *)
(* never accepted, whatever it carries and wherever it breaks off: for     *)
(* this nothing is needed of the CRC.  A frame that is not damaged is      *)
(* accepted and comes out as it went in: for this the recursion of the CRC *)
(* is unfolded into the loop over the bytes that the code runs, and the    *)
(* register is shown to be 0 behind a frame's own CRC.  The bits that a    *)
(* slave packs into such a frame are found at their places.                *)
(* Then the CRC itself: the table of modbus_crc.c holds what eight shifts  *)
(* of the specification's register make of each byte, so that every CRC    *)
(* is the specified one; and since no two registers are shifted to the     *)
(* same one, and no two entries of the table have the same high byte, a    *)
(* frame in which a byte or two neighbours are damaged has another CRC.    *)
(***************************************************************************)
EXTENDS ModbusWire, SequenceTheorems, WellFoundedInduction, TLAPS

\* What an interval of numbers holds, ...
LEMMA Interval ==
    \A a, b \in Int : \A k : k \in a .. b <=> k \in Int /\ a <= k /\ k <= b
OBVIOUS

\* ... and so what the bytes ...
LEMMA InByte == \A k : k \in Byte <=> k \in Int /\ 0 <= k /\ k <= 255
<1> DEFINE a == 0
           b == 255
<1>1. Byte = a .. b
  BY DEF Byte
<1>2. a \in Int /\ b \in Int
  OBVIOUS
<1> HIDE DEF a, b
<1>3. \A k : k \in Byte <=> k \in Int /\ a <= k /\ k <= b
  BY <1>1, <1>2, Interval
<1>4. QED
  BY <1>3 DEF a, b

\* ... and the words are.  (Both are cited in place of the definitions: an
\* interval written out in a goal is slow to reason about.)
LEMMA InWord == \A k : k \in Word <=> k \in Int /\ 0 <= k /\ k <= 65535
<1> DEFINE a == 0
           b == 65535
<1>1. Word = a .. b
  BY DEF Word
<1>2. a \in Int /\ b \in Int
  OBVIOUS
<1> HIDE DEF a, b
<1>3. \A k : k \in Word <=> k \in Int /\ a <= k /\ k <= b
  BY <1>1, <1>2, Interval
<1>4. QED
  BY <1>3 DEF a, b

\* Bytes and words are numbers.
LEMMA Numbers == Byte \subseteq Nat /\ Word \subseteq Nat
BY InByte, InWord

\* Concatenation.
LEMMA Concat ==
    \A S : \A s, t \in Seq(S) :
        /\ s \o t \in Seq(S) /\ Len(s \o t) = Len(s) + Len(t)
        /\ \A i \in 1 .. Len(s) : (s \o t)[i] = s[i]
        /\ \A i \in 1 .. Len(t) : (s \o t)[Len(s) + i] = t[i]
OBVIOUS

\* The first n elements.
LEMMA Beginning ==
    ASSUME NEW S, NEW s \in Seq(S), NEW n \in 0 .. Len(s)
    PROVE  /\ Len(SubSeq(s, 1, n)) = n
           /\ \A i \in 1 .. n : SubSeq(s, 1, n)[i] = s[i]
BY SubSeqProperties

-----------------------------------------------------------------------------
(* How long a pdu is, and where its length byte stands.                    *)

Lay(m) == LayoutOf(m.fc, m.type)

\* The layouts there are.
LEMMA LayoutCases ==
    ASSUME NEW m \in Messages
    PROVE  /\ Lay(m) # NoLayout /\ Lay(m).data \in BOOLEAN
           /\ Fixed(Lay(m)) \in Nat \ {0}
           /\ Lay(m) = Except => ~Lay(m).data /\ Fixed(Lay(m)) = 2
           /\ Lay(m) # Except => /\ Lay(m).words \in {0, 2, 3, 4}
                                 /\ Fixed(Lay(m)) = 1 + 2 * Lay(m).words
<1>1. Lay(m) # NoLayout
  BY MessageAssumption DEF Lay
<1>2. Lay(m) \in {Layout(2, FALSE), Layout(0, TRUE), Layout(2, TRUE), Layout(3, FALSE),
                  Layout(4, TRUE), Except, NoLayout}
  BY DEF Lay, LayoutOf, ReqLayout, RspLayout, RdReq, RdRsp, WrSingle, WrReq, WrRsp,
         MaskWr, WrRdReq
<1>3. \A n \in {0, 2, 3, 4}, d \in BOOLEAN :
        LET L == Layout(n, d) IN
        /\ L.words = n /\ L.data = d /\ L # Except /\ Fixed(L) = 1 + 2 * n
        /\ 1 + 2 * n \in Nat \ {0}
  <2> TAKE n \in {0, 2, 3, 4}, d \in BOOLEAN
  <2>1. Layout(n, d).words = n /\ Layout(n, d).data = d
    BY DEF Layout
  <2>2. n # -1
    OBVIOUS
  <2>3. Layout(n, d) # Except
    BY <2>1, <2>2 DEF Except
  <2>4. QED
    BY <2>1, <2>3 DEF Fixed
<1>4. CASE Lay(m) = Except
  BY <1>1, <1>4 DEF Except, Fixed
<1>5. CASE Lay(m) # Except
  <2>1. PICK n \in {0, 2, 3, 4}, d \in BOOLEAN : Lay(m) = Layout(n, d)
    BY <1>1, <1>2, <1>5
  <2>2. QED
    BY <1>1, <1>3, <1>5, <2>1
<1>6. QED
  BY <1>4, <1>5

\* A pdu begins with its function code; its length is the one its fields tell.
LEMMA PduShape ==
    ASSUME NEW m \in Messages
    PROVE  LET p == PduMake(m, m.type) IN
           /\ p \in Seq(Nat) /\ p[1] = m.fc
           /\ Len(p) = Fixed(Lay(m)) + (IF Lay(m).data THEN 1 + Len(m.data) ELSE 0)
           /\ Len(p) >= Fixed(Lay(m)) /\ Len(p) \in Nat
           /\ Lay(m).data => p[Fixed(Lay(m)) + 1] = Len(m.data)
<1> DEFINE n == 2 * Len(m.words)
           W == [i \in 1 .. n |-> U16Put(m.words[(i + 1) \div 2])[2 - (i % 2)]]
           D == IF Lay(m).data THEN <<Len(m.data)>> ELSE <<>>
           head == <<m.fc>> \o W
           front == head \o D
           p == front \o m.data
<1>1. /\ m.words \in Seq(Word) /\ m.data \in Seq(Byte) /\ m.fc \in Nat
      /\ Len(m.words) \in Nat /\ Len(m.data) \in Nat
  <2>1. m.words \in Seq(Word) /\ m.data \in Seq(Byte) /\ m.fc \in Byte
    BY MessageAssumption
  <2>2. /\ \A s \in Seq(Word) : Len(s) \in Nat
        /\ \A s \in Seq(Byte) : Len(s) \in Nat
    OBVIOUS
  <2>3. m.fc \in Nat
    BY <2>1, Numbers
  <2>4. QED
    BY <2>1, <2>2, <2>3
<1>2. IF Lay(m) = Except THEN n = 0 /\ Len(m.data) = 1
      ELSE n = 2 * Lay(m).words /\ (Lay(m).data \/ Len(m.data) = 0)
  BY <1>1, MessageAssumption, LayoutCases, EmptySeq DEF Lay
<1>3. n \in Nat
  BY <1>1
<1>4. W \in Seq(Nat) /\ Len(W) = n
  <2>1. ASSUME NEW i \in 1 .. n
        PROVE  U16Put(m.words[(i + 1) \div 2])[2 - (i % 2)] \in Nat
    <3>1. \A k, l \in Nat : k \in 1 .. 2 * l => (k + 1) \div 2 \in 1 .. l /\ 2 - (k % 2) \in {1, 2}
      OBVIOUS
    <3>2. (i + 1) \div 2 \in 1 .. Len(m.words) /\ 2 - (i % 2) \in {1, 2}
      BY <1>1, <3>1
    <3>3. m.words[(i + 1) \div 2] \in Nat
      <4>1. \A w \in Seq(Word) : \A k \in 1 .. Len(w) : w[k] \in Word
        OBVIOUS
      <4> DEFINE k == (i + 1) \div 2
      <4>2. k \in 1 .. Len(m.words)
        BY <3>2
      <4> HIDE DEF k
      <4>3. m.words[k] \in Nat
        <5>1. m.words[k] \in Word
          BY <1>1, <4>1, <4>2
        <5>2. QED
          BY <5>1, Numbers
      <4>4. QED
        BY <4>3 DEF k
    <3>4. \A v \in Nat, k \in {1, 2} : U16Put(v)[k] \in Nat
      BY DEF U16Put
    <3>5. QED
      BY <3>2, <3>3, <3>4
  <2> DEFINE g(i) == U16Put(m.words[(i + 1) \div 2])[2 - (i % 2)]
  <2>2. \A i \in 1 .. n : g(i) \in Nat
    BY <2>1
  <2>3. W = [i \in 1 .. n |-> g(i)]
    OBVIOUS
  <2> HIDE DEF g, n, W
  <2>4. W \in [1 .. n -> Nat]
    BY <2>2, <2>3
  <2>5. QED
    BY <1>3, <2>4
<1>5. PduMake(m, m.type) = p
  BY DEF PduMake, Lay
<1>6. /\ D \in Seq(Nat) /\ Len(D) = (IF Lay(m).data THEN 1 ELSE 0)
      /\ Lay(m).data \in BOOLEAN /\ (Lay(m).data => D[1] = Len(m.data))
  BY <1>1, LayoutCases
<1>7. <<m.fc>> \in Seq(Nat) /\ Len(<<m.fc>>) = 1 /\ <<m.fc>>[1] = m.fc
  BY <1>1
<1>8. m.data \in Seq(Nat)
  <2>1. Byte \subseteq Nat
    BY DEF Byte
  <2>2. QED
    BY <1>1, <2>1, SeqMonotonic
<1> HIDE DEF W, n, D
<1>9. head \in Seq(Nat) /\ Len(head) = 1 + n /\ head[1] = m.fc
  BY <1>3, <1>4, <1>7
<1> HIDE DEF head
<1>10. /\ front \in Seq(Nat) /\ Len(front) = Len(head) + Len(D)
       /\ \A i \in 1 .. Len(head) : front[i] = head[i]
       /\ \A i \in 1 .. Len(D) : front[Len(head) + i] = D[i]
  <2>1. head \in Seq(Nat) /\ D \in Seq(Nat)
    BY <1>6, <1>9
  <2>2. QED
    BY <2>1
<1>11. front[1] = m.fc /\ (Lay(m).data => front[2 + n] = Len(m.data))
  <2>1. 1 \in 1 .. Len(head) /\ Len(head) = 1 + n
    BY <1>3, <1>9
  <2>2. Lay(m).data => 1 \in 1 .. Len(D) /\ Len(head) + 1 = 2 + n
    BY <1>3, <1>6, <1>9
  <2>3. QED
    BY <1>6, <1>9, <1>10, <2>1, <2>2
<1> HIDE DEF front
<1>12. /\ p \in Seq(Nat) /\ Len(p) = Len(front) + Len(m.data)
       /\ \A i \in 1 .. Len(front) : p[i] = front[i]
  <2>1. front \in Seq(Nat)
    BY <1>10
  <2>2. QED
    BY <1>8, <2>1
<1>13. Len(front) = 1 + n + (IF Lay(m).data THEN 1 ELSE 0)
  BY <1>3, <1>6, <1>9, <1>10
<1>14. p[1] = m.fc /\ (Lay(m).data => p[2 + n] = Len(m.data))
  <2>1. 1 \in 1 .. Len(front) /\ (Lay(m).data => 2 + n \in 1 .. Len(front))
    BY <1>3, <1>6, <1>13
  <2>2. QED
    BY <1>11, <1>12, <2>1
<1> HIDE DEF p
<1>15. /\ Len(p) = Fixed(Lay(m)) + (IF Lay(m).data THEN 1 + Len(m.data) ELSE 0)
       /\ Lay(m).data => Fixed(Lay(m)) = 1 + n
       /\ Fixed(Lay(m)) \in Nat
  <2>1. CASE Lay(m) = Except
    <3>1. ~Lay(m).data /\ Fixed(Lay(m)) = 2 /\ n = 0 /\ Len(m.data) = 1
      BY <1>2, <2>1, LayoutCases
    <3>2. QED
      BY <1>12, <1>13, <3>1
  <2>2. CASE Lay(m) # Except
    <3>1. /\ Lay(m).words \in Nat /\ Fixed(Lay(m)) = 1 + 2 * Lay(m).words
          /\ n = 2 * Lay(m).words /\ (Lay(m).data \/ Len(m.data) = 0)
      BY <1>2, <2>2, LayoutCases
    <3>2. Fixed(Lay(m)) = 1 + n /\ Fixed(Lay(m)) \in Nat
      BY <1>3, <3>1
    <3>3. CASE Lay(m).data
      <4>1. Len(front) = 2 + n
        BY <1>3, <1>13, <3>3
      <4>2. Len(p) = 2 + n + Len(m.data)
        BY <1>1, <1>3, <1>12, <4>1
      <4>3. \A j, k \in Nat : 2 + j + k = (1 + j) + (1 + k)
        OBVIOUS
      <4>4. Len(p) = Fixed(Lay(m)) + (1 + Len(m.data))
        <5> DEFINE len == Len(m.data)
        <5>1. len \in Nat /\ n \in Nat
          BY <1>1, <1>3
        <5> HIDE DEF len
        <5>2. 2 + n + len = Fixed(Lay(m)) + (1 + len)
          BY <3>2, <4>3, <5>1
        <5>3. QED
          BY <4>2, <5>2 DEF len
      <4>5. QED
        BY <3>2, <3>3, <4>4
    <3>4. CASE ~Lay(m).data
      <4>1. Len(front) = 1 + n /\ Len(m.data) = 0
        BY <1>3, <1>13, <3>1, <3>4
      <4>2. Len(p) = 1 + n
        BY <1>3, <1>12, <4>1
      <4>3. QED
        BY <1>3, <3>2, <3>4, <4>2
    <3>5. QED
      BY <3>3, <3>4
  <2>3. QED
    BY <2>1, <2>2
<1>16. Lay(m).data => p[Fixed(Lay(m)) + 1] = Len(m.data)
  <2>1. Lay(m).data => Fixed(Lay(m)) + 1 = 2 + n
    BY <1>3, <1>15
  <2>2. QED
    BY <1>14, <2>1
<1>17. Len(p) \in Nat /\ Len(p) >= Fixed(Lay(m))
  BY <1>1, <1>6, <1>15
<1>18. QED
  BY <1>5, <1>12, <1>14, <1>15, <1>16, <1>17

\* Of a beginning of a pdu the parser asks for more or tells its full length.
LEMMA ParseBeginning ==
    ASSUME NEW m \in Messages, NEW b, NEW at \in Nat, NEW len \in Nat \ {0},
           \A i \in 1 .. len : i <= Len(PduMake(m, m.type))
                                 => b[at + i] = PduMake(m, m.type)[i]
    PROVE  PduParse(b, at, len, m.type) \in {0, Len(PduMake(m, m.type))}
<1> DEFINE p == PduMake(m, m.type)
           F == Fixed(Lay(m))
<1>1. /\ p[1] = m.fc /\ Len(p) \in Nat /\ Len(p) >= F
      /\ Len(p) = F + (IF Lay(m).data THEN 1 + Len(m.data) ELSE 0)
      /\ Lay(m).data => p[F + 1] = Len(m.data)
  BY PduShape
<1>2. F \in Nat \ {0} /\ Lay(m) # NoLayout /\ Lay(m).data \in BOOLEAN
  BY LayoutCases
<1>3. Len(m.data) \in Nat
  BY MessageAssumption
<1>4. b[at + 1] = m.fc
  BY <1>1, <1>2
<1>5. LayoutOf(b[at + 1], m.type) = Lay(m)
  BY <1>4 DEF Lay
<1> HIDE DEF p, F
<1>6. CASE len < MinLen(Lay(m))
  BY <1>2, <1>5, <1>6 DEF PduParse
<1>7. CASE ~(len < MinLen(Lay(m))) /\ Lay(m).data
  <2>1. MinLen(Lay(m)) = F + 2
    BY <1>7 DEF MinLen, F
  <2>2. F + 1 \in 1 .. len /\ F + 1 <= Len(p)
    <3>1. Len(p) = F + (1 + Len(m.data))
      BY <1>1, <1>7
    <3>2. ~(len < F + 2)
      BY <1>7, <2>1
    <3>3. QED
      BY <1>2, <1>3, <3>1, <3>2
  <2>3. b[at + (F + 1)] = Len(m.data)
    BY <1>1, <1>7, <2>2 DEF p
  <2>4. b[at + F + 1] = Len(m.data)
    <3>1. at + (F + 1) = at + F + 1
      BY <1>2
    <3>2. QED
      BY <2>3, <3>1
  <2>5. PduParse(b, at, len, m.type) = F + 1 + Len(m.data)
    <3>1. PduParse(b, at, len, m.type) = Fixed(Lay(m)) + 1 + b[at + Fixed(Lay(m)) + 1]
      <4>1. PduParse(b, at, len, m.type) =
              IF Lay(m) = NoLayout THEN -1
              ELSE IF len < MinLen(Lay(m)) THEN 0
              ELSE IF Lay(m).data THEN Fixed(Lay(m)) + 1 + b[at + Fixed(Lay(m)) + 1]
              ELSE Fixed(Lay(m))
        BY <1>5 DEF PduParse
      <4>2. QED
        BY <1>2, <1>7, <4>1
    <3>2. PduParse(b, at, len, m.type) = F + 1 + b[at + F + 1]
      BY <3>1 DEF F
    <3>3. QED
      BY <2>4, <3>2
  <2>6. F + 1 + Len(m.data) = Len(p)
    <3>1. \A x, y \in Nat : x + 1 + y = x + (1 + y)
      OBVIOUS
    <3>2. QED
      BY <1>1, <1>2, <1>3, <1>7, <3>1
  <2>7. QED
    BY <2>5, <2>6 DEF p
<1>8. CASE ~(len < MinLen(Lay(m))) /\ ~Lay(m).data
  <2>1. PduParse(b, at, len, m.type) = F
    BY <1>2, <1>5, <1>8 DEF PduParse, F
  <2>2. Len(p) = F
    BY <1>1, <1>2, <1>8
  <2>3. QED
    BY <2>1, <2>2 DEF p
<1>9. QED
  BY <1>6, <1>7, <1>8

-----------------------------------------------------------------------------
(* Frames that break off.                                                  *)

\* An RTU frame of which a beginning was received is a bad frame.
LEMMA RtuCut ==
    ASSUME NEW m \in Messages, NEW sa \in Byte, NEW n \in Nat,
           n < Len(RtuMake(sa, m, m.type))
    PROVE  RtuParse(SubSeq(RtuMake(sa, m, m.type), 1, n), m.type) = 0
<1> DEFINE p == PduMake(m, m.type)
           body == <<sa>> \o p
           crc == Crc(body, Len(body))
           tail == <<crc % 256, crc \div 256>>
           f == body \o tail
           b == SubSeq(f, 1, n)
           T == Nat \cup {crc % 256, crc \div 256}
<1>1. p \in Seq(Nat)
  BY PduShape
<1>2. Len(p) \in Nat
  BY PduShape
<1>3. <<sa>> \in Seq(Nat) /\ Len(<<sa>>) = 1
  BY DEF Byte
<1>4. tail \in Seq(T) /\ Len(tail) = 2
  OBVIOUS
<1>5. RtuMake(sa, m, m.type) = f
  BY DEF RtuMake
<1> HIDE DEF p, crc, tail
<1>6. /\ body \in Seq(Nat) /\ Len(body) = 1 + Len(p)
      /\ \A i \in 1 .. Len(p) : body[1 + i] = p[i]
  BY <1>1, <1>3
<1> HIDE DEF body
<1>7. /\ f \in Seq(T) /\ Len(f) = 3 + Len(p)
      /\ \A i \in 1 .. Len(body) : f[i] = body[i]
  <2>1. body \in Seq(T)
    BY <1>6, SeqMonotonic
  <2>2. \A S : \A s, t \in Seq(S) :
          /\ s \o t \in Seq(S) /\ Len(s \o t) = Len(s) + Len(t)
          /\ \A i \in 1 .. Len(s) : (s \o t)[i] = s[i]
    OBVIOUS
  <2> HIDE DEF T
  <2>3. /\ f \in Seq(T) /\ Len(f) = Len(body) + Len(tail)
        /\ \A i \in 1 .. Len(body) : f[i] = body[i]
    BY <1>4, <2>1, <2>2
  <2>4. QED
    BY <1>2, <1>4, <1>6, <2>3
<1> HIDE DEF T
<1> HIDE DEF f
<1>8. n \in 0 .. Len(f) /\ n < 3 + Len(p)
  BY <1>2, <1>5, <1>7
<1>9. Len(b) = n /\ \A i \in 1 .. n : b[i] = f[i]
  BY <1>7, <1>8, Beginning
<1> HIDE DEF b
<1>10. ASSUME n >= 5
       PROVE  PduParse(b, 1, n - 3, m.type) \in {0, Len(p)}
  <2>1. \A i \in 1 .. (n - 3) : i <= Len(p) => b[1 + i] = p[i]
    BY <1>2, <1>6, <1>7, <1>8, <1>9
  <2>2. n - 3 \in Nat \ {0} /\ 1 \in Nat
    BY <1>10
  <2> DEFINE len == n - 3
  <2> HIDE DEF len
  <2>3. /\ len \in Nat \ {0}
        /\ \A i \in 1 .. len : i <= Len(PduMake(m, m.type)) => b[1 + i] = PduMake(m, m.type)[i]
    BY <2>1, <2>2 DEF len, p
  <2>4. PduParse(b, 1, len, m.type) \in {0, Len(PduMake(m, m.type))}
    BY <2>2, <2>3, ParseBeginning
  <2>5. QED
    BY <2>4 DEF len, p
<1>11. RtuParse(b, m.type) = 0
  BY <1>2, <1>8, <1>9, <1>10 DEF RtuParse
<1>12. QED
  BY <1>5, <1>11 DEF b

\* So is a TCP frame.
LEMMA TcpCut ==
    ASSUME NEW m \in Messages, NEW sa \in Byte, NEW tid \in Word, NEW n \in Nat,
           n < Len(TcpMake(tid, 0, sa, m, m.type))
    PROVE  TcpParse(SubSeq(TcpMake(tid, 0, sa, m, m.type), 1, n), m.type) = 0
<1> DEFINE p == PduMake(m, m.type)
           mbap == U16Put(tid) \o U16Put(0) \o U16Put(Len(p) + 1) \o <<sa>>
           f == mbap \o p
           b == SubSeq(f, 1, n)
<1>1. p \in Seq(Nat)
  BY PduShape
<1>2. Len(p) \in Nat
  BY PduShape
<1>3. \A v \in Nat : U16Put(v) \in Seq(Nat) /\ Len(U16Put(v)) = 2
  BY DEF U16Put
<1>4. TcpMake(tid, 0, sa, m, m.type) = f
  BY DEF TcpMake
<1> HIDE DEF p
<1>5. mbap \in Seq(Nat) /\ Len(mbap) = 7
  <2>1. tid \in Nat /\ Len(p) + 1 \in Nat /\ <<sa>> \in Seq(Nat) /\ Len(<<sa>>) = 1
    BY <1>2, Numbers
  <2> DEFINE s1 == U16Put(tid)  s2 == U16Put(0)  s3 == U16Put(Len(p) + 1)
  <2>2. /\ s1 \in Seq(Nat) /\ s2 \in Seq(Nat) /\ s3 \in Seq(Nat)
        /\ Len(s1) = 2 /\ Len(s2) = 2 /\ Len(s3) = 2
    BY <1>3, <2>1
  <2> HIDE DEF s1, s2, s3
  <2>3. s1 \o s2 \in Seq(Nat) /\ Len(s1 \o s2) = 4
    <3>1. s1 \o s2 \in Seq(Nat) /\ Len(s1 \o s2) = Len(s1) + Len(s2)
      BY <2>2, Concat
    <3>2. QED
      BY <2>2, <3>1
  <2>4. s1 \o s2 \o s3 \in Seq(Nat) /\ Len(s1 \o s2 \o s3) = 6
    <3>1. s1 \o s2 \o s3 \in Seq(Nat) /\ Len(s1 \o s2 \o s3) = Len(s1 \o s2) + Len(s3)
      BY <2>2, <2>3, Concat
    <3>2. QED
      BY <2>2, <2>3, <3>1
  <2>5. s1 \o s2 \o s3 \o <<sa>> \in Seq(Nat) /\ Len(s1 \o s2 \o s3 \o <<sa>>) = 7
    <3>1. /\ s1 \o s2 \o s3 \o <<sa>> \in Seq(Nat)
          /\ Len(s1 \o s2 \o s3 \o <<sa>>) = Len(s1 \o s2 \o s3) + Len(<<sa>>)
      BY <2>1, <2>4, Concat
    <3>2. QED
      BY <2>1, <2>4, <3>1
  <2>6. QED
    BY <2>5 DEF s1, s2, s3
<1> HIDE DEF mbap
<1>6. /\ f \in Seq(Nat) /\ Len(f) = 7 + Len(p)
      /\ \A i \in 1 .. Len(p) : f[7 + i] = p[i]
  <2>1. mbap \in Seq(Nat) /\ p \in Seq(Nat)
    BY <1>1, <1>5
  <2>2. /\ mbap \o p \in Seq(Nat) /\ Len(mbap \o p) = Len(mbap) + Len(p)
        /\ \A i \in 1 .. Len(p) : (mbap \o p)[Len(mbap) + i] = p[i]
    BY <2>1, Concat
  <2>3. QED
    BY <1>5, <2>2
<1> HIDE DEF f
<1>7. n \in 0 .. Len(f) /\ n < 7 + Len(p)
  BY <1>2, <1>4, <1>6
<1>8. Len(b) = n /\ \A i \in 1 .. n : b[i] = f[i]
  BY <1>6, <1>7, Beginning
<1> HIDE DEF b
<1>9. ASSUME n >= 9
      PROVE  PduParse(b, 7, n - 7, m.type) \in {0, Len(p)}
  <2>1. \A i \in 1 .. (n - 7) : i <= Len(p) => b[7 + i] = p[i]
    BY <1>2, <1>6, <1>7, <1>8
  <2>2. n - 7 \in Nat \ {0} /\ 7 \in Nat
    BY <1>9
  <2> DEFINE len == n - 7
  <2> HIDE DEF len
  <2>3. /\ len \in Nat \ {0}
        /\ \A i \in 1 .. len : i <= Len(PduMake(m, m.type)) => b[7 + i] = PduMake(m, m.type)[i]
    BY <2>1, <2>2 DEF len, p
  <2>4. PduParse(b, 7, len, m.type) \in {0, Len(PduMake(m, m.type))}
    BY <2>2, <2>3, ParseBeginning
  <2>5. QED
    BY <2>4 DEF len, p
<1>10. TcpParse(b, m.type) = 0
  BY <1>2, <1>7, <1>8, <1>9 DEF TcpParse
<1>11. QED
  BY <1>4, <1>10 DEF b

-----------------------------------------------------------------------------
(* The state machine.                                                      *)

\* What the receiver has of a frame that breaks off is a beginning of it.
CutInv ==
    /\ msg.frame \in {"RTU", "TCP"} /\ msg.sa \in Byte /\ msg.tid \in Word
    /\ msg.m \in Messages
    /\ fate = "whole" => wire = Sent /\ got = Nothing
    /\ fate = "cut" => \E n \in Nat : n < Len(Sent) /\ wire = SubSeq(Sent, 1, n)
    /\ fate = "cut" /\ got # Nothing => got.n = 0

\* A frame that broke off is a bad frame, whatever its framing.
LEMMA BrokenIsBad ==
    ASSUME CutInv, fate = "cut"
    PROVE  Parse(msg.frame, wire, msg.m.type) = 0
<1>1. PICK n \in Nat : n < Len(Sent) /\ wire = SubSeq(Sent, 1, n)
  BY DEF CutInv
<1>2. CASE msg.frame = "RTU"
  BY <1>1, <1>2, RtuCut DEF Sent, MakeFrame, Parse, CutInv
<1>3. CASE msg.frame # "RTU"
  BY <1>1, <1>3, TcpCut DEF Sent, MakeFrame, Parse, CutInv
<1>4. QED
  BY <1>2, <1>3

\* CutInv is inductive.
LEMMA CutStep == CutInv /\ [Next]_vars => CutInv'
<1> SUFFICES ASSUME CutInv, [Next]_vars PROVE CutInv'
  OBVIOUS
<1>1. ASSUME NEW n \in 0 .. Len(wire) - 1, Cut(n) PROVE CutInv'
  <2>1. n \in Nat /\ wire = Sent /\ got = Nothing
    BY <1>1 DEF Cut, CutInv
  <2>2. msg' = msg /\ got' = got /\ fate' = "cut" /\ n < Len(wire) /\ wire' = SubSeq(wire, 1, n)
    BY <1>1 DEF Cut
  <2>3. Sent' = Sent
    BY <2>2 DEF Sent
  <2>4. QED
    BY <2>1, <2>2, <2>3 DEF CutInv
<1>2. ASSUME NEW k \in 1 .. FlipMax, NEW i \in 0 .. 7, Flip(k, i) PROVE CutInv'
  BY <1>2 DEF Flip, CutInv
<1>3. ASSUME NEW m \in Messages, NEW n \in {1, 8}, Join(m, n) PROVE CutInv'
  BY <1>3 DEF Join, CutInv
<1>4. ASSUME NEW m \in Messages, NEW n \in 1 .. FlipMax, Splice(m, n) PROVE CutInv'
  BY <1>4 DEF Splice, CutInv
<1>5. ASSUME NEW k \in 1 .. FlipMax, NEW u \in Marks, NEW v \in Marks, Smear(k, u, v)
      PROVE  CutInv'
  BY <1>5 DEF Smear, CutInv
<1>6. CASE Receive
  <2>1. msg' = msg /\ wire' = wire /\ fate' = IF fate = "whole" THEN "untouched" ELSE fate
    BY <1>6 DEF Receive
  <2>2. Sent' = Sent
    BY <2>1 DEF Sent
  <2>3. fate = "cut" => got'.n = 0
    <3>1. SUFFICES ASSUME fate = "cut" PROVE got'.n = 0
      OBVIOUS
    <3>2. Parse(msg.frame, wire, msg.m.type) = 0
      BY <3>1, BrokenIsBad
    <3>3. got' = [n |-> 0]
      BY <1>6, <3>2 DEF Receive
    <3>4. QED
      BY <3>3
  <2>4. QED
    BY <2>1, <2>2, <2>3 DEF CutInv
<1>7. CASE UNCHANGED vars
  BY <1>7 DEF vars, CutInv, Sent
<1>8. QED
  BY <1>1, <1>2, <1>3, <1>4, <1>5, <1>6, <1>7 DEF Next

\* Whatever is sent, under either framing: of a frame that breaks off nothing
\* is accepted, and it is not taken for a request of an unknown function.
THEOREM CutFramesAreRejected == Spec => []CutFrameRejected
<1>1. Init => CutInv
  BY WireAssumption DEF Init, CutInv, Sent
<1>2. CutInv => CutFrameRejected
  BY DEF CutInv, CutFrameRejected, Received
<1>3. QED
  BY <1>1, <1>2, CutStep, PTL DEF Spec

-----------------------------------------------------------------------------
(* The arithmetic of the CRC.                                              *)

\* The entries of the table are words (row by row).
LEMMA TableType == \A i \in 1 .. 256 : mb_crc_table[i] \in Word
<1> DEFINE T(i) == mb_crc_table[i] \in Word
<1>1. /\ T(1) /\ T(2) /\ T(3) /\ T(4) /\ T(5) /\ T(6) /\ T(7) /\ T(8)
      /\ T(9) /\ T(10) /\ T(11) /\ T(12) /\ T(13) /\ T(14) /\ T(15) /\ T(16)
  BY InWord DEF mb_crc_table
<1>2. /\ T(17) /\ T(18) /\ T(19) /\ T(20) /\ T(21) /\ T(22) /\ T(23) /\ T(24)
      /\ T(25) /\ T(26) /\ T(27) /\ T(28) /\ T(29) /\ T(30) /\ T(31) /\ T(32)
  BY InWord DEF mb_crc_table
<1>3. /\ T(33) /\ T(34) /\ T(35) /\ T(36) /\ T(37) /\ T(38) /\ T(39) /\ T(40)
      /\ T(41) /\ T(42) /\ T(43) /\ T(44) /\ T(45) /\ T(46) /\ T(47) /\ T(48)
  BY InWord DEF mb_crc_table
<1>4. /\ T(49) /\ T(50) /\ T(51) /\ T(52) /\ T(53) /\ T(54) /\ T(55) /\ T(56)
      /\ T(57) /\ T(58) /\ T(59) /\ T(60) /\ T(61) /\ T(62) /\ T(63) /\ T(64)
  BY InWord DEF mb_crc_table
<1>5. /\ T(65) /\ T(66) /\ T(67) /\ T(68) /\ T(69) /\ T(70) /\ T(71) /\ T(72)
      /\ T(73) /\ T(74) /\ T(75) /\ T(76) /\ T(77) /\ T(78) /\ T(79) /\ T(80)
  BY InWord DEF mb_crc_table
<1>6. /\ T(81) /\ T(82) /\ T(83) /\ T(84) /\ T(85) /\ T(86) /\ T(87) /\ T(88)
      /\ T(89) /\ T(90) /\ T(91) /\ T(92) /\ T(93) /\ T(94) /\ T(95) /\ T(96)
  BY InWord DEF mb_crc_table
<1>7. /\ T(97) /\ T(98) /\ T(99) /\ T(100) /\ T(101) /\ T(102) /\ T(103) /\ T(104)
      /\ T(105) /\ T(106) /\ T(107) /\ T(108) /\ T(109) /\ T(110) /\ T(111) /\ T(112)
  BY InWord DEF mb_crc_table
<1>8. /\ T(113) /\ T(114) /\ T(115) /\ T(116) /\ T(117) /\ T(118) /\ T(119) /\ T(120)
      /\ T(121) /\ T(122) /\ T(123) /\ T(124) /\ T(125) /\ T(126) /\ T(127) /\ T(128)
  BY InWord DEF mb_crc_table
<1>9. /\ T(129) /\ T(130) /\ T(131) /\ T(132) /\ T(133) /\ T(134) /\ T(135) /\ T(136)
      /\ T(137) /\ T(138) /\ T(139) /\ T(140) /\ T(141) /\ T(142) /\ T(143) /\ T(144)
  BY InWord DEF mb_crc_table
<1>10. /\ T(145) /\ T(146) /\ T(147) /\ T(148) /\ T(149) /\ T(150) /\ T(151) /\ T(152)
       /\ T(153) /\ T(154) /\ T(155) /\ T(156) /\ T(157) /\ T(158) /\ T(159) /\ T(160)
  BY InWord DEF mb_crc_table
<1>11. /\ T(161) /\ T(162) /\ T(163) /\ T(164) /\ T(165) /\ T(166) /\ T(167) /\ T(168)
       /\ T(169) /\ T(170) /\ T(171) /\ T(172) /\ T(173) /\ T(174) /\ T(175) /\ T(176)
  BY InWord DEF mb_crc_table
<1>12. /\ T(177) /\ T(178) /\ T(179) /\ T(180) /\ T(181) /\ T(182) /\ T(183) /\ T(184)
       /\ T(185) /\ T(186) /\ T(187) /\ T(188) /\ T(189) /\ T(190) /\ T(191) /\ T(192)
  BY InWord DEF mb_crc_table
<1>13. /\ T(193) /\ T(194) /\ T(195) /\ T(196) /\ T(197) /\ T(198) /\ T(199) /\ T(200)
       /\ T(201) /\ T(202) /\ T(203) /\ T(204) /\ T(205) /\ T(206) /\ T(207) /\ T(208)
  BY InWord DEF mb_crc_table
<1>14. /\ T(209) /\ T(210) /\ T(211) /\ T(212) /\ T(213) /\ T(214) /\ T(215) /\ T(216)
       /\ T(217) /\ T(218) /\ T(219) /\ T(220) /\ T(221) /\ T(222) /\ T(223) /\ T(224)
  BY InWord DEF mb_crc_table
<1>15. /\ T(225) /\ T(226) /\ T(227) /\ T(228) /\ T(229) /\ T(230) /\ T(231) /\ T(232)
       /\ T(233) /\ T(234) /\ T(235) /\ T(236) /\ T(237) /\ T(238) /\ T(239) /\ T(240)
  BY InWord DEF mb_crc_table
<1>16. /\ T(241) /\ T(242) /\ T(243) /\ T(244) /\ T(245) /\ T(246) /\ T(247) /\ T(248)
       /\ T(249) /\ T(250) /\ T(251) /\ T(252) /\ T(253) /\ T(254) /\ T(255) /\ T(256)
  BY InWord DEF mb_crc_table
<1> SUFFICES ASSUME NEW i \in 1 .. 256 PROVE T(i)
  OBVIOUS
<1> HIDE DEF T
<1> QED
  BY <1>1, <1>2, <1>3, <1>4, <1>5, <1>6, <1>7, <1>8, <1>9, <1>10,
     <1>11, <1>12, <1>13, <1>14, <1>15, <1>16

\* The entry for a byte that leaves nothing over.
LEMMA TableStart == mb_crc_table[1] = 0
BY DEF mb_crc_table
\* What the bits of a byte are worth.
LEMMA Powers == /\ 2^0 = 1 /\ 2^1 = 2 /\ 2^2 = 4 /\ 2^3 = 8
                /\ 2^4 = 16 /\ 2^5 = 32 /\ 2^6 = 64 /\ 2^7 = 128
OBVIOUS

\* The two bytes of a word.
LEMMA Halves == \A c \in Word : c % 256 \in Byte /\ c \div 256 \in Byte
<1> TAKE c \in Word
<1>1. c \in Int /\ 0 <= c /\ c <= 65535
  BY InWord
<1>2. /\ c % 256 \in Int /\ 0 <= c % 256 /\ c % 256 <= 255
      /\ c \div 256 \in Int /\ 0 <= c \div 256 /\ c \div 256 <= 255
  BY <1>1
<1>3. QED
  BY <1>2, InByte

\* A word is made of its two bytes, ...
LEMMA Parts == \A c \in Word : c = 256 * (c \div 256) + (c % 256)
<1>1. \A n \in Nat : n = 256 * (n \div 256) + (n % 256)
  OBVIOUS
<1>2. QED
  BY <1>1, Numbers

\* ... and any two make one.
LEMMA WordBytes ==
    \A x, y \in Byte : /\ 256 * y + x \in Word
                       /\ (256 * y + x) % 256 = x /\ (256 * y + x) \div 256 = y
<1> TAKE x, y \in Byte
<1>1. x \in Int /\ 0 <= x /\ x <= 255 /\ y \in Int /\ 0 <= y /\ y <= 255
  BY InByte
<1>2. /\ 256 * y + x \in Int /\ 0 <= 256 * y + x /\ 256 * y + x <= 65535
      /\ (256 * y + x) % 256 = x /\ (256 * y + x) \div 256 = y
  BY <1>1
<1>3. QED
  BY <1>2, InWord

\* The exclusive or of two bytes is a byte, of a byte and itself 0, of a byte
\* and 0 the byte.
LEMMA XorFacts ==
    \A x \in Byte : /\ \A y \in Byte : Xor[x][y] \in Byte
                    /\ Xor[x][x] = 0 /\ Xor[x][0] = x
<1> TAKE x \in Byte
<1> DEFINE d(y, i) == IF BitOf(x, i) # BitOf(y, i) THEN 2 ^ i ELSE 0
<1>1. \A y \in Byte :
        Xor[x][y] = d(y, 0) + d(y, 1) + d(y, 2) + d(y, 3) + d(y, 4) + d(y, 5) + d(y, 6) + d(y, 7)
  BY DEF Xor
<1>2. \A y : /\ d(y, 0) \in {0, 1}  /\ d(y, 1) \in {0, 2}  /\ d(y, 2) \in {0, 4}
             /\ d(y, 3) \in {0, 8}  /\ d(y, 4) \in {0, 16} /\ d(y, 5) \in {0, 32}
             /\ d(y, 6) \in {0, 64} /\ d(y, 7) \in {0, 128}
  BY Powers
<1>3. \A i : d(x, i) = 0
  OBVIOUS
<1>4. x = d(0, 0) + d(0, 1) + d(0, 2) + d(0, 3) + d(0, 4) + d(0, 5) + d(0, 6) + d(0, 7)
  BY Powers DEF BitOf, Byte
<1>5. x \in Byte /\ 0 \in Byte
  BY DEF Byte
<1> HIDE DEF d
<1>6. ASSUME NEW y \in Byte PROVE Xor[x][y] \in Byte
  <2>1. \A a \in {0, 1}, b \in {0, 2}, c \in {0, 4}, e \in {0, 8},
            f \in {0, 16}, g \in {0, 32}, h \in {0, 64}, k \in {0, 128} :
          a + b + c + e + f + g + h + k \in Byte
    BY DEF Byte
  <2>2. QED
    BY <1>1, <1>2, <2>1
<1>7. Xor[x][x] = 0
  BY <1>1, <1>3, <1>5
<1>8. Xor[x][0] = x
  BY <1>1, <1>4, <1>5
<1>9. QED
  BY <1>6, <1>7, <1>8

\* The register of the CRC has 16 bits.
LEMMA StepType == \A c \in Word, byte \in Byte : CrcStep(c, byte) \in Word
<1> TAKE c \in Word, byte \in Byte
<1>1. c % 256 \in Byte /\ c \div 256 \in Byte
  BY Halves
<1>2. Xor[c % 256][byte] \in Byte
  BY <1>1, XorFacts
<1>3. PICK t : t = mb_crc_table[Xor[c % 256][byte] + 1]
  OBVIOUS
<1>4. t \in Word
  <2>1. Xor[c % 256][byte] + 1 \in 1 .. 256
    BY <1>2, InByte
  <2>2. QED
    BY <1>3, <2>1, TableType
<1>5. t % 256 \in Byte /\ t \div 256 \in Byte
  BY <1>4, Halves
<1>6. Xor[c \div 256][t % 256] \in Byte
  BY <1>1, <1>5, XorFacts
<1>7. CrcStep(c, byte) = 256 * (t \div 256) + Xor[c \div 256][t % 256]
  BY <1>3 DEF CrcStep
<1>8. QED
  BY <1>5, <1>6, <1>7, WordBytes

\* After its own two bytes, the low one first, the register is 0.
LEMMA Residue == \A c \in Word : CrcStep(CrcStep(c, c % 256), c \div 256) = 0
<1> TAKE c \in Word
<1>1. c % 256 \in Byte /\ c \div 256 \in Byte
  BY Halves
<1>2. 0 % 256 = 0 /\ 0 \div 256 = 0 /\ 0 \in Byte
  BY DEF Byte
<1>3. Xor[c % 256][c % 256] = 0 /\ Xor[c \div 256][0] = c \div 256
  BY <1>1, XorFacts
<1>4. CrcStep(c, c % 256) = c \div 256
  <2>1. mb_crc_table[Xor[c % 256][c % 256] + 1] = 0
    BY <1>3, TableStart
  <2>2. c \div 256 \in Nat
    BY <1>1, Numbers
  <2>3. QED
    BY <1>2, <1>3, <2>1, <2>2 DEF CrcStep
<1>5. \A d \in Byte : d % 256 = d /\ d \div 256 = 0
  BY DEF Byte
<1>6. \A d \in Byte : CrcStep(d, d) = 0
  <2> TAKE d \in Byte
  <2>1. Xor[d % 256][d] = 0 /\ Xor[d \div 256][0] = 0
    BY <1>2, <1>5, XorFacts
  <2>2. QED
    BY <1>2, <2>1, TableStart DEF CrcStep
<1>7. QED
  BY <1>1, <1>4, <1>6

-----------------------------------------------------------------------------
(* Induction.                                                              *)

\* It is used in two forms, both from the least element of a set: a set of
\* numbers that holds 0 and with each number the next one holds all; so does
\* one that holds a number whenever it holds all the smaller ones.
LEMMA Smallest ==
    ASSUME NEW T \in SUBSET Nat, T # {}
    PROVE  \E m \in T : \A k \in T : m <= k
<1> DEFINE R == OpToRel(<, Nat)
<1>1. IsWellFoundedOn(R, Nat)
  BY NatLessThanWellFounded
<1>2. \A x, y \in Nat : y < x => <<y, x>> \in R
  BY DEF OpToRel
<1> HIDE DEF R
<1>3. PICK m \in T : \A k \in T : ~(<<k, m>> \in R)
  BY <1>1, WFMin
<1>4. \A k \in T : ~(k < m)
  BY <1>2, <1>3, Zenon
<1>5. QED
  BY <1>4

LEMMA ByInduction ==
    ASSUME NEW S, 0 \in S, \A n \in Nat : n \in S => n + 1 \in S
    PROVE  Nat \subseteq S
<1> DEFINE T == Nat \ S
<1>1. SUFFICES ASSUME T # {} PROVE FALSE
  OBVIOUS
<1>2. PICK m \in T : \A k \in T : m <= k
  BY <1>1, Smallest
<1>3. m # 0 /\ m - 1 \in Nat /\ m - 1 \notin T
  BY <1>2
<1>4. QED
  BY <1>2, <1>3

LEMMA ByCompleteInduction ==
    ASSUME NEW S, \A n \in Nat : (\A k \in Nat : k < n => k \in S) => n \in S
    PROVE  Nat \subseteq S
<1> DEFINE T == Nat \ S
<1>1. SUFFICES ASSUME T # {} PROVE FALSE
  OBVIOUS
<1>2. PICK m \in T : \A k \in T : m <= k
  BY <1>1, Smallest
<1>3. \A k \in Nat : k < m => k \in S
  BY <1>2
<1>4. QED
  BY <1>2, <1>3

-----------------------------------------------------------------------------
(* The CRC of a sequence of bytes, byte by byte.                           *)

Bytes(b, len) == len \in Nat /\ \A k \in 1 .. len : b[k] \in Byte

\* The register from c on, over n bytes behind b[i].
IsChain(h, b, i, c, n) ==
    /\ h \in [0 .. n -> Word] /\ h[0] = c
    /\ \A k \in 0 .. n - 1 : h[k + 1] = CrcStep(h[k], b[i + k + 1])

After(b, i, c, n) == (CHOOSE h : IsChain(h, b, i, c, n))[n]

\* From every register there is a run of the loop over what is left, ...
LEMMA ChainExists ==
    ASSUME NEW len, NEW b, Bytes(b, len), NEW i \in 0 .. len, NEW c \in Word
    PROVE  \A n \in Nat : i + n <= len => \E h : IsChain(h, b, i, c, n)
<1> DEFINE S == {n \in Nat : i + n <= len => \E h : IsChain(h, b, i, c, n)}
<1>1. 0 \in S
  <2> DEFINE h == [k \in 0 .. 0 |-> c]
  <2>1. IsChain(h, b, i, c, 0)
    BY DEF IsChain
  <2>2. QED
    BY <2>1
<1>2. ASSUME NEW n \in Nat, n \in S PROVE n + 1 \in S
  <2> SUFFICES ASSUME i + (n + 1) <= len PROVE \E h : IsChain(h, b, i, c, n + 1)
    OBVIOUS
  <2>1. i \in Nat /\ len \in Nat
    BY DEF Bytes
  <2>2. PICK h : IsChain(h, b, i, c, n)
    BY <1>2, <2>1
  <2> DEFINE g == [k \in 0 .. n + 1 |-> IF k = n + 1 THEN CrcStep(h[n], b[i + n + 1]) ELSE h[k]]
  <2>3. h[n] \in Word /\ b[i + n + 1] \in Byte
    <3>1. n \in 0 .. n /\ i + n + 1 \in 1 .. len
      BY <2>1
    <3>2. QED
      BY <2>2, <3>1 DEF IsChain, Bytes
  <2>4. CrcStep(h[n], b[i + n + 1]) \in Word
    BY <2>3, StepType
  <2>5. g \in [0 .. n + 1 -> Word] /\ g[0] = c
    BY <2>2, <2>4 DEF IsChain
  <2>6. ASSUME NEW k \in 0 .. (n + 1) - 1 PROVE g[k + 1] = CrcStep(g[k], b[i + k + 1])
    <3>1. CASE k = n
      BY <3>1
    <3>2. CASE k # n
      <4>1. /\ k \in 0 .. n - 1 /\ k + 1 \in 0 .. n + 1 /\ k \in 0 .. n + 1
            /\ k + 1 # n + 1 /\ k # n + 1
        BY <3>2
      <4>2. g[k + 1] = h[k + 1] /\ g[k] = h[k]
        BY <4>1
      <4>3. QED
        BY <2>2, <4>1, <4>2 DEF IsChain
    <3>3. QED
      BY <3>1, <3>2
  <2> HIDE DEF g
  <2>7. QED
    BY <2>5, <2>6 DEF IsChain
<1> HIDE DEF S
<1>3. Nat \subseteq S
  BY <1>1, <1>2, ByInduction
<1>4. QED
  BY <1>3 DEF S

\* ... and runs of it agree as far as both go.
LEMMA ChainUnique ==
    ASSUME NEW b, NEW i, NEW c, NEW n \in Nat, NEW m \in Nat, NEW g, NEW h,
           IsChain(g, b, i, c, n), IsChain(h, b, i, c, m)
    PROVE  \A k \in Nat : k <= n /\ k <= m => g[k] = h[k]
<1> DEFINE S == {k \in Nat : k <= n /\ k <= m => g[k] = h[k]}
<1>1. 0 \in S
  BY DEF IsChain
<1>2. ASSUME NEW k \in Nat, k \in S PROVE k + 1 \in S
  <2> SUFFICES ASSUME k + 1 <= n, k + 1 <= m PROVE g[k + 1] = h[k + 1]
    OBVIOUS
  <2>1. g[k] = h[k]
    BY <1>2
  <2>2. k \in 0 .. n - 1 /\ k \in 0 .. m - 1
    OBVIOUS
  <2>3. QED
    BY <2>1, <2>2 DEF IsChain
<1> HIDE DEF S
<1>3. Nat \subseteq S
  BY <1>1, <1>2, ByInduction
<1>4. QED
  BY <1>3 DEF S

\* What the loop over the bytes does: nothing, or one byte more.
LEMMA Loop ==
    ASSUME NEW len, NEW b, Bytes(b, len), NEW i \in 0 .. len, NEW c \in Word,
           NEW n \in Nat, i + n <= len
    PROVE  /\ After(b, i, c, n) \in Word
           /\ After(b, i, c, 0) = c
           /\ i + n < len => After(b, i, c, n + 1) = CrcStep(After(b, i, c, n), b[i + n + 1])
<1>1. i \in Nat /\ len \in Nat
  BY DEF Bytes
<1> DEFINE C(k) == CHOOSE h : IsChain(h, b, i, c, k)
<1>2. \A k \in Nat : i + k <= len => IsChain(C(k), b, i, c, k)
  <2> TAKE k \in Nat
  <2> SUFFICES ASSUME i + k <= len PROVE IsChain(C(k), b, i, c, k)
    OBVIOUS
  <2>1. \E h : IsChain(h, b, i, c, k)
    BY ChainExists
  <2>2. QED
    BY <2>1, Zenon
<1>3. \A k : After(b, i, c, k) = C(k)[k]
  BY DEF After
<1> HIDE DEF C
<1>4. After(b, i, c, n) \in Word
  <2>1. n \in 0 .. n
    OBVIOUS
  <2>2. QED
    BY <1>2, <1>3, <2>1 DEF IsChain
<1>5. After(b, i, c, 0) = c
  <2>1. 0 \in Nat /\ i + 0 <= len
    BY <1>1
  <2>2. QED
    BY <1>2, <1>3, <2>1 DEF IsChain
<1>6. ASSUME i + n < len
      PROVE  After(b, i, c, n + 1) = CrcStep(After(b, i, c, n), b[i + n + 1])
  <2>1. n + 1 \in Nat /\ i + (n + 1) <= len /\ n \in 0 .. (n + 1) - 1
    BY <1>1, <1>6
  <2>2. IsChain(C(n), b, i, c, n) /\ IsChain(C(n + 1), b, i, c, n + 1)
    BY <1>2, <2>1
  <2>3. C(n)[n] = C(n + 1)[n]
    BY <2>1, <2>2, ChainUnique
  <2>4. QED
    BY <1>3, <2>1, <2>2, <2>3 DEF IsChain
<1>7. QED
  BY <1>4, <1>5, <1>6

\* The loop in two parts.
LEMMA LoopInParts ==
    ASSUME NEW len, NEW b, Bytes(b, len), NEW i \in 0 .. len, NEW c \in Word,
           NEW k \in Nat
    PROVE  \A n \in Nat : i + k + n <= len =>
             After(b, i + k, After(b, i, c, k), n) = After(b, i, c, k + n)
<1> DEFINE S == {n \in Nat : i + k + n <= len =>
                   After(b, i + k, After(b, i, c, k), n) = After(b, i, c, k + n)}
<1>0. i \in Nat /\ len \in Nat
  BY DEF Bytes
<1>1. 0 \in S
  <2> SUFFICES ASSUME i + k <= len
               PROVE  After(b, i + k, After(b, i, c, k), 0) = After(b, i, c, k)
    BY <1>0
  <2>1. After(b, i, c, k) \in Word
    BY Loop
  <2>2. i + k \in 0 .. len /\ (i + k) + 0 <= len
    BY <1>0
  <2>3. QED
    BY <2>1, <2>2, Loop
<1>2. ASSUME NEW n \in Nat, n \in S PROVE n + 1 \in S
  <2> SUFFICES ASSUME i + k + (n + 1) <= len
               PROVE  After(b, i + k, After(b, i, c, k), n + 1) = After(b, i, c, k + (n + 1))
    OBVIOUS
  <2> DEFINE d == After(b, i, c, k)
  <2>1. /\ i + k <= len /\ i + k \in 0 .. len /\ (i + k) + n <= len /\ (i + k) + n < len
        /\ k + n \in Nat /\ i + (k + n) <= len /\ i + (k + n) < len
        /\ k + (n + 1) = (k + n) + 1 /\ (i + k) + n + 1 = i + (k + n) + 1
    BY <1>0
  <2>2. d \in Word
    BY <2>1, Loop
  <2>3. After(b, i + k, d, n + 1) = CrcStep(After(b, i + k, d, n), b[(i + k) + n + 1])
    <3> HIDE DEF d
    <3>1. QED
      BY <2>1, <2>2, Loop
  <2>4. After(b, i + k, d, n) = After(b, i, c, k + n)
    BY <1>2, <2>1
  <2>5. After(b, i, c, (k + n) + 1) = CrcStep(After(b, i, c, k + n), b[i + (k + n) + 1])
    BY <2>1, Loop
  <2>6. QED
    BY <2>1, <2>3, <2>4, <2>5
<1> HIDE DEF S
<1>3. Nat \subseteq S
  BY <1>1, <1>2, ByInduction
<1>4. QED
  BY <1>3 DEF S

-----------------------------------------------------------------------------
(* The CRC in halves.                                                      *)

\* The recursion of CrcCycCal, which halves what is left, is this loop.
Piece(f, b, n, i, c) ==
    IF n = 0 THEN c
    ELSE IF n = 1 THEN CrcStep(c, b[i + 1])
    ELSE LET h == n \div 2 IN f[n - h][i + h][f[h][i][c]]

Unrolled(f, b, len) ==
    [n \in 0 .. len |-> [i \in 0 .. len - n |-> [c \in Word |-> Piece(f, b, n, i, c)]]]

\* f is right for blocks of less than n bytes.
Right(f, b, len, n) == \A k \in 1 .. n - 1 : \A i \in 0 .. len - k, c \in Word :
                           f[k][i][c] = After(b, i, c, k)

CrcBlock(b, len) == CHOOSE f : f = Unrolled(f, b, len)

\* Where f is right for shorter blocks, halving is right for this one.
LEMMA PieceOfLoop ==
    ASSUME NEW len, NEW b, Bytes(b, len), NEW f, NEW n \in 0 .. len,
           Right(f, b, len, n), NEW i \in 0 .. len - n, NEW c \in Word
    PROVE  Piece(f, b, n, i, c) = After(b, i, c, n)
<1>1. /\ len \in Nat /\ n \in Nat /\ i \in Nat /\ i \in 0 .. len /\ i + n <= len
      /\ (0 + 1 = 1) /\ i + 0 <= len /\ 0 \in Nat
  BY DEF Bytes
<1>2. CASE n = 0
  <2>1. After(b, i, c, 0) = c
    BY <1>1, Loop
  <2>2. QED
    BY <1>2, <2>1 DEF Piece
<1>3. CASE n = 1
  <2>1. i + 0 < len /\ i + 0 + 1 = i + 1
    BY <1>1, <1>3
  <2>2. After(b, i, c, 0) = c /\ After(b, i, c, 0 + 1) = CrcStep(After(b, i, c, 0), b[i + 0 + 1])
    BY <1>1, <2>1, Loop
  <2>3. QED
    BY <1>1, <1>3, <2>1, <2>2 DEF Piece
<1>4. CASE n # 0 /\ n # 1
  <2>1. PICK h : h = n \div 2
    OBVIOUS
  <2>2. h \in 1 .. n - 1
    BY <1>1, <1>4, <2>1
  <2>3. /\ n - h \in 1 .. n - 1 /\ i \in 0 .. len - h /\ i + h \in 0 .. len - (n - h)
        /\ h \in Nat /\ n - h \in Nat /\ i + h + (n - h) <= len /\ h + (n - h) = n /\ i + h <= len
    BY <1>1, <2>2
  <2>4. f[h][i][c] = After(b, i, c, h) /\ After(b, i, c, h) \in Word
    BY <1>1, <2>2, <2>3, Loop DEF Right
  <2>5. f[n - h][i + h][After(b, i, c, h)] = After(b, i + h, After(b, i, c, h), n - h)
    BY <2>3, <2>4 DEF Right
  <2>6. After(b, i + h, After(b, i, c, h), n - h) = After(b, i, c, h + (n - h))
    <3> DEFINE r == n - h
    <3>1. h \in Nat /\ r \in Nat /\ i + h + r <= len
      BY <2>3
    <3> HIDE DEF r
    <3>2. After(b, i + h, After(b, i, c, h), r) = After(b, i, c, h + r)
      BY <1>1, <3>1, LoopInParts
    <3>3. QED
      BY <3>2 DEF r
  <2>7. Piece(f, b, n, i, c) = f[n - h][i + h][f[h][i][c]]
    BY <1>4, <2>1 DEF Piece
  <2>8. QED
    BY <2>3, <2>4, <2>5, <2>6, <2>7
<1>5. QED
  BY <1>2, <1>3, <1>4

\* There is a function that the recursion describes.
LEMMA BlockUnrolls ==
    ASSUME NEW len, NEW b, Bytes(b, len)
    PROVE  CrcBlock(b, len) = Unrolled(CrcBlock(b, len), b, len)
<1> DEFINE F == [n \in 0 .. len |-> [i \in 0 .. len - n |-> [c \in Word |-> After(b, i, c, n)]]]
<1>1. len \in Nat
  BY DEF Bytes
<1>2. \A n \in 0 .. len : \A i \in 0 .. len - n, c \in Word : F[n][i][c] = After(b, i, c, n)
  OBVIOUS
<1>3. \A n \in 0 .. len : \A k \in 1 .. n - 1 : k \in 0 .. len
  BY <1>1
<1> DEFINE G == F
<1> HIDE DEF G
<1>4. ASSUME NEW n \in 0 .. len, NEW i \in 0 .. len - n, NEW c \in Word
      PROVE  Piece(G, b, n, i, c) = After(b, i, c, n)
  <2>1. Right(G, b, len, n)
    BY <1>2, <1>3 DEF G, Right
  <2>2. QED
    BY <2>1, PieceOfLoop
<1>5. Unrolled(G, b, len) = F
  BY <1>4 DEF Unrolled
<1>6. G = Unrolled(G, b, len)
  BY <1>5 DEF G
<1>7. \E f : f = Unrolled(f, b, len)
  BY <1>6
<1>8. QED
  BY <1>7, Zenon DEF CrcBlock

\* It is the loop, for blocks of every length.
LEMMA BlockIsLoop ==
    ASSUME NEW len, NEW b, Bytes(b, len)
    PROVE  \A n \in 0 .. len : \A i \in 0 .. len - n, c \in Word :
             CrcBlock(b, len)[n][i][c] = After(b, i, c, n)
<1>1. PICK f : f = CrcBlock(b, len)
  OBVIOUS
<1>2. f = Unrolled(f, b, len)
  BY <1>1, BlockUnrolls
<1>3. len \in Nat
  BY DEF Bytes
<1> DEFINE S == {n \in Nat : n <= len => \A i \in 0 .. len - n, c \in Word :
                               f[n][i][c] = After(b, i, c, n)}
<1>4. ASSUME NEW n \in Nat, \A k \in Nat : k < n => k \in S
      PROVE  n \in S
  <2> SUFFICES ASSUME n <= len, NEW i \in 0 .. len - n, NEW c \in Word
               PROVE  f[n][i][c] = After(b, i, c, n)
    OBVIOUS
  <2>1. n \in 0 .. len
    BY <1>3
  <2>2. Right(f, b, len, n)
    <3>1. SUFFICES ASSUME NEW k \in 1 .. n - 1
                   PROVE  \A j \in 0 .. len - k, d \in Word : f[k][j][d] = After(b, j, d, k)
      BY DEF Right
    <3>2. k \in Nat /\ k < n /\ k <= len
      BY <1>3
    <3>3. QED
      BY <1>4, <3>2
  <2>3. Piece(f, b, n, i, c) = After(b, i, c, n)
    BY <2>1, <2>2, PieceOfLoop
  <2>4. f[n][i][c] = Piece(f, b, n, i, c)
    <3>1. f[n] = [j \in 0 .. len - n |-> [d \in Word |-> Piece(f, b, n, j, d)]]
      BY <1>2, <2>1 DEF Unrolled
    <3>2. f[n][i] = [d \in Word |-> Piece(f, b, n, i, d)]
      BY <3>1
    <3>3. QED
      BY <3>2
  <2>5. QED
    BY <2>3, <2>4
<1> HIDE DEF S
<1>5. Nat \subseteq S
  BY <1>4, ByCompleteInduction
<1>6. QED
  BY <1>1, <1>3, <1>5 DEF S

\* So the CRC is what the loop leaves of the register that starts with 0xFFFF.
LEMMA CrcIsLoop ==
    ASSUME NEW len, NEW b, Bytes(b, len)
    PROVE  Crc(b, len) = After(b, 0, \hFFFF, len)
<1>1. Crc(b, len) = CrcBlock(b, len)[len][0][\hFFFF]
  <2>1. \A init : CrcCycCal(init, b, len) = CrcBlock(b, len)[len][0][init]
    BY Zenon DEF CrcCycCal, CrcBlock, Unrolled, Piece
  <2>2. QED
    BY <2>1 DEF Crc
<1>2. len \in 0 .. len /\ 0 \in 0 .. len - len /\ \hFFFF \in Word
  BY InWord DEF Bytes
<1>3. QED
  BY <1>1, <1>2, BlockIsLoop

\* The CRC of nothing, and of one byte more.
LEMMA CrcGrows ==
    ASSUME NEW len, NEW b, Bytes(b, len)
    PROVE  /\ Crc(b, 0) = \hFFFF
           /\ \A n \in 0 .. len : Crc(b, n) \in Word
           /\ \A n \in 0 .. len - 1 : Crc(b, n + 1) = CrcStep(Crc(b, n), b[n + 1])
<1>1. len \in Nat /\ 0 \in 0 .. len /\ \hFFFF \in Word
  BY InWord DEF Bytes
<1>2. \A n \in 0 .. len : Bytes(b, n)
  BY <1>1 DEF Bytes
<1>3. \A n \in 0 .. len : Crc(b, n) = After(b, 0, \hFFFF, n)
  BY <1>2, CrcIsLoop
<1>4. Crc(b, 0) = \hFFFF
  BY <1>1, <1>3, Loop
<1>5. ASSUME NEW n \in 0 .. len PROVE Crc(b, n) \in Word
  BY <1>1, <1>3, Loop
<1>6. ASSUME NEW n \in 0 .. len - 1 PROVE Crc(b, n + 1) = CrcStep(Crc(b, n), b[n + 1])
  <2>1. /\ n \in 0 .. len /\ n + 1 \in 0 .. len /\ n \in Nat
        /\ 0 + n < len /\ 0 + n <= len /\ 0 + n + 1 = n + 1
    BY <1>1
  <2>2. After(b, 0, \hFFFF, n + 1) = CrcStep(After(b, 0, \hFFFF, n), b[0 + n + 1])
    BY <1>1, <2>1, Loop
  <2>3. QED
    BY <1>3, <2>1, <2>2
<1>7. QED
  BY <1>4, <1>5, <1>6

\* The same bytes have the same CRC.
LEMMA CrcSame ==
    ASSUME NEW len, NEW b, NEW a, Bytes(b, len), \A k \in 1 .. len : a[k] = b[k]
    PROVE  Crc(a, len) = Crc(b, len)
<1>1. Bytes(a, len) /\ len \in Nat
  BY DEF Bytes
<1> DEFINE S == {n \in Nat : n <= len => Crc(a, n) = Crc(b, n)}
<1>2. 0 \in S
  BY <1>1, CrcGrows
<1>3. ASSUME NEW n \in Nat, n \in S PROVE n + 1 \in S
  <2> SUFFICES ASSUME n + 1 <= len PROVE Crc(a, n + 1) = Crc(b, n + 1)
    OBVIOUS
  <2>1. n \in 0 .. len - 1 /\ n + 1 \in 1 .. len
    BY <1>1
  <2>2. Crc(a, n) = Crc(b, n)
    BY <1>1, <1>3
  <2>3. QED
    BY <1>1, <2>1, <2>2, CrcGrows
<1> HIDE DEF S
<1>4. Nat \subseteq S
  BY <1>2, <1>3, ByInduction
<1>5. QED
  BY <1>1, <1>4 DEF S

-----------------------------------------------------------------------------
(* What a frame carries, byte by byte.                                     *)

\* p is the pdu that carries m's words and bytes, each at its place.
Carries(p, m) ==
    /\ p \in Seq(Byte)
    /\ \A i \in 1 .. Len(m.words) : /\ p[2 * i] = m.words[i] \div 256
                                    /\ p[2 * i + 1] = m.words[i] % 256
    /\ \A k \in 1 .. Len(m.data) : p[Len(p) - Len(m.data) + k] = m.data[k]
    /\ Len(p) = 1 + 2 * Len(m.words) + (IF Lay(m).data THEN 1 ELSE 0) + Len(m.data)

\* The pdu is made of bytes: its fields, high byte first, and its data at the end.
LEMMA PduContent ==
    ASSUME NEW m \in Messages
    PROVE  Carries(PduMake(m, m.type), m)
<1> DEFINE n == 2 * Len(m.words)
           g(j) == U16Put(m.words[(j + 1) \div 2])[2 - (j % 2)]
           W == [j \in 1 .. n |-> g(j)]
           D == IF Lay(m).data THEN <<Len(m.data)>> ELSE <<>>
           head == <<m.fc>> \o W
           front == head \o D
           p == front \o m.data
<1>1. /\ m.words \in Seq(Word) /\ m.data \in Seq(Byte) /\ m.fc \in Byte
      /\ Len(m.words) \in Nat /\ Len(m.data) \in Nat /\ Len(m.data) <= 255
      /\ \A i \in 1 .. Len(m.words) : m.words[i] \in Word
  <2>1. m.words \in Seq(Word) /\ m.data \in Seq(Byte) /\ m.fc \in Byte /\ Len(m.data) <= 255
    BY MessageAssumption
  <2>2. /\ \A s \in Seq(Word) : Len(s) \in Nat /\ \A i \in 1 .. Len(s) : s[i] \in Word
        /\ \A s \in Seq(Byte) : Len(s) \in Nat
    OBVIOUS
  <2>3. QED
    BY <2>1, <2>2
<1>2. \A i \in 1 .. Len(m.words) : /\ g(2 * i - 1) = m.words[i] \div 256
                                   /\ g(2 * i) = m.words[i] % 256
  <2> TAKE i \in 1 .. Len(m.words)
  <2>1. /\ (2 * i - 1 + 1) \div 2 = i /\ 2 - ((2 * i - 1) % 2) = 1
        /\ (2 * i + 1) \div 2 = i /\ 2 - ((2 * i) % 2) = 2
    BY <1>1
  <2>2. \A v : U16Put(v)[1] = v \div 256 /\ U16Put(v)[2] = v % 256
    BY DEF U16Put
  <2>3. QED
    BY <2>1, <2>2
<1>3. \A j \in 1 .. n : \E i \in 1 .. Len(m.words) : j = 2 * i - 1 \/ j = 2 * i
  <2> TAKE j \in 1 .. n
  <2>1. j \in Nat /\ j >= 1 /\ j <= 2 * Len(m.words)
    BY <1>1
  <2>2. /\ (j + 1) \div 2 \in 1 .. Len(m.words)
        /\ j = 2 * ((j + 1) \div 2) - 1 \/ j = 2 * ((j + 1) \div 2)
    BY <1>1, <2>1
  <2>3. QED
    BY <2>2
<1>4. n \in Nat /\ n = 2 * Len(m.words)
  BY <1>1
<1> HIDE DEF g, n
<1>5. \A j \in 1 .. n : g(j) \in Byte
  <2> TAKE j \in 1 .. n
  <2>1. PICK i \in 1 .. Len(m.words) : j = 2 * i - 1 \/ j = 2 * i
    BY <1>3
  <2>2. m.words[i] \in Word
    BY <1>1
  <2>3. m.words[i] \div 256 \in Byte /\ m.words[i] % 256 \in Byte
    BY <2>2, Halves
  <2>4. g(2 * i - 1) \in Byte /\ g(2 * i) \in Byte
    BY <1>2, <2>3
  <2>5. QED
    BY <2>1, <2>4
<1>6. W \in Seq(Byte) /\ Len(W) = n /\ \A j \in 1 .. n : W[j] = g(j)
  <2>1. W \in [1 .. n -> Byte] /\ \A j \in 1 .. n : W[j] = g(j)
    BY <1>5
  <2> HIDE DEF W
  <2>2. QED
    BY <1>4, <2>1
<1>7. PduMake(m, m.type) = p
  BY DEF PduMake, Lay, g, n
<1>8. /\ D \in Seq(Byte) /\ Len(D) = (IF Lay(m).data THEN 1 ELSE 0)
  <2>1. Len(m.data) \in Byte
    <3>1. \A k \in Nat : k <= 255 => k \in Byte
      BY DEF Byte
    <3>2. QED
      BY <1>1, <3>1
  <2>2. QED
    BY <2>1
<1>9. <<m.fc>> \in Seq(Byte) /\ Len(<<m.fc>>) = 1
  BY <1>1
<1> HIDE DEF W, D
<1>10. head \in Seq(Byte) /\ Len(head) = 1 + n /\ \A j \in 1 .. n : head[1 + j] = g(j)
  BY <1>6, <1>9, Concat
<1> HIDE DEF head
<1>11. /\ front \in Seq(Byte) /\ Len(front) = 1 + n + Len(D)
       /\ \A j \in 1 .. n : front[1 + j] = g(j)
  <2>1. /\ front \in Seq(Byte) /\ Len(front) = Len(head) + Len(D)
        /\ \A j \in 1 .. Len(head) : front[j] = head[j]
    BY <1>8, <1>10, Concat
  <2>2. \A j \in 1 .. n : 1 + j \in 1 .. Len(head)
    BY <1>4, <1>10
  <2>3. QED
    BY <1>10, <2>1, <2>2
<1> HIDE DEF front
<1>12. /\ p \in Seq(Byte) /\ Len(p) = 1 + n + Len(D) + Len(m.data)
       /\ \A j \in 1 .. n : p[1 + j] = g(j)
       /\ \A k \in 1 .. Len(m.data) : p[1 + n + Len(D) + k] = m.data[k]
  <2>1. /\ p \in Seq(Byte) /\ Len(p) = Len(front) + Len(m.data)
        /\ \A j \in 1 .. Len(front) : p[j] = front[j]
        /\ \A k \in 1 .. Len(m.data) : p[Len(front) + k] = m.data[k]
    <3>1. front \in Seq(Byte) /\ m.data \in Seq(Byte)
      BY <1>1, <1>11
    <3>2. QED
      BY <3>1, Concat
  <2>2. \A j \in 1 .. n : 1 + j \in 1 .. Len(front)
    <3>1. Len(D) \in Nat /\ Len(front) = 1 + n + Len(D)
      BY <1>8, <1>11
    <3>2. QED
      BY <1>4, <3>1
  <2>3. QED
    BY <1>11, <2>1, <2>2
<1> HIDE DEF p
<1>13. Len(D) \in Nat /\ n \in Nat /\ Len(m.data) \in Nat
  BY <1>1, <1>4, <1>8
<1>14. \A k \in 1 .. Len(m.data) : p[Len(p) - Len(m.data) + k] = m.data[k]
  <2> TAKE k \in 1 .. Len(m.data)
  <2>1. Len(p) - Len(m.data) + k = 1 + n + Len(D) + k
    BY <1>12, <1>13
  <2>2. QED
    BY <1>12, <2>1
<1>15. \A i \in 1 .. Len(m.words) : /\ p[2 * i] = m.words[i] \div 256
                                    /\ p[2 * i + 1] = m.words[i] % 256
  <2> TAKE i \in 1 .. Len(m.words)
  <2>1. 2 * i - 1 \in 1 .. n /\ 2 * i \in 1 .. n /\ 1 + (2 * i - 1) = 2 * i /\ 1 + 2 * i = 2 * i + 1
    BY <1>1, <1>4
  <2>2. p[1 + (2 * i - 1)] = g(2 * i - 1) /\ p[1 + 2 * i] = g(2 * i)
    BY <1>12, <2>1
  <2>3. QED
    BY <1>2, <2>1, <2>2
<1>16. Len(p) = 1 + 2 * Len(m.words) + (IF Lay(m).data THEN 1 ELSE 0) + Len(m.data)
  BY <1>4, <1>8, <1>12
<1>17. Carries(p, m)
  BY <1>12, <1>14, <1>15, <1>16 DEF Carries
<1>18. QED
  BY <1>7, <1>17

\* b holds the pdu p behind its first at bytes.
Holds(b, at, p) == \A i \in 1 .. Len(p) : b[at + i] = p[i]

\* A pdu that is there as a whole is parsed to its full length, ...
LEMMA PduParsed ==
    ASSUME NEW m \in Messages, NEW b, NEW at \in Nat, NEW len \in Nat,
           len >= Len(PduMake(m, m.type)),
           Holds(b, at, PduMake(m, m.type))
    PROVE  /\ PduParse(b, at, len, m.type) = Len(PduMake(m, m.type))
           /\ Len(PduMake(m, m.type)) >= 2
<1> DEFINE p == PduMake(m, m.type)
           F == Fixed(Lay(m))
           L == Lay(m)
<1>1. /\ p[1] = m.fc /\ Len(p) \in Nat /\ Len(p) >= F
      /\ Len(p) = F + (IF L.data THEN 1 + Len(m.data) ELSE 0)
      /\ L.data => p[F + 1] = Len(m.data)
  BY PduShape
<1>2. F \in Nat \ {0} /\ L # NoLayout /\ L.data \in BOOLEAN
  BY LayoutCases
<1>3. Len(m.data) \in Nat /\ (L.data => Len(m.data) >= 1)
  <2>1. m.data \in Seq(Byte)
    BY MessageAssumption
  <2>2. Len(m.data) \in Nat /\ (Len(m.data) = 0 => m.data = <<>>)
    BY <2>1, EmptySeq
  <2>3. L.data => m.data # <<>>
    BY MessageAssumption, LayoutCases DEF Lay
  <2>4. QED
    BY <2>2, <2>3
<1>4. b[at + 1] = m.fc
  <2>1. 1 \in 1 .. Len(p)
    BY <1>1, <1>2
  <2>2. QED
    BY <1>1, <2>1 DEF Holds
<1>5. LayoutOf(b[at + 1], m.type) = L
  BY <1>4 DEF Lay
<1>6. ~L.data => F >= 2
  <2>1. CASE L = Except
    BY <2>1, LayoutCases
  <2>2. CASE L # Except /\ ~L.data
    <3>1. L \in {Layout(2, FALSE), Layout(0, TRUE), Layout(2, TRUE), Layout(3, FALSE),
                 Layout(4, TRUE), Except, NoLayout}
      BY DEF Lay, LayoutOf, ReqLayout, RspLayout, RdReq, RdRsp, WrSingle, WrReq, WrRsp,
             MaskWr, WrRdReq
    <3>2. L.words \in {2, 3}
      BY <1>2, <2>2, <3>1 DEF Layout
    <3>3. QED
      BY <2>2, <3>2, LayoutCases
  <2>3. QED
    BY <2>1, <2>2
<1> HIDE DEF p, F, L
<1>7. Len(p) >= 2 /\ ~(len < (IF L.data THEN F + 2 ELSE F))
  BY <1>1, <1>2, <1>3, <1>6 DEF p
<1>8. ~(len < MinLen(L))
  BY <1>7 DEF MinLen, F, L
<1>9. PduParse(b, at, len, m.type) # 0
  <2>1. PduParse(b, at, len, m.type) = IF L.data THEN F + 1 + b[at + F + 1] ELSE F
    BY <1>2, <1>5, <1>8 DEF PduParse, F, L
  <2>2. L.data => b[at + F + 1] \in Nat
    <3>1. F + 1 \in 1 .. Len(p) \/ ~L.data
      BY <1>1, <1>2, <1>3
    <3>2. L.data => b[at + (F + 1)] = p[F + 1]
      BY <3>1 DEF p, Holds
    <3>3. at + (F + 1) = at + F + 1
      BY <1>2
    <3>4. QED
      BY <1>1, <1>3, <3>2, <3>3
  <2>3. QED
    BY <1>2, <2>1, <2>2
<1>10. PduParse(b, at, len, m.type) \in {0, Len(p)}
  <2>1. len \in Nat \ {0}
    BY <1>7, <1>1 DEF p
  <2>2. \A i \in 1 .. len : i <= Len(PduMake(m, m.type)) => b[at + i] = PduMake(m, m.type)[i]
    BY <1>1 DEF p, Holds
  <2>3. QED
    BY <2>1, <2>2, ParseBeginning DEF p
<1>11. QED
  BY <1>7, <1>9, <1>10 DEF p

\* ... and its fields are those it was made of.
LEMMA PduRead ==
    ASSUME NEW m \in Messages, NEW b \in Seq(Nat), NEW at \in Nat,
           at + Len(PduMake(m, m.type)) <= Len(b),
           Holds(b, at, PduMake(m, m.type))
    PROVE  PduFields(b, at, Len(PduMake(m, m.type)), m.type) = PduOf(m)
<1> DEFINE p == PduMake(m, m.type)
           L == Lay(m)
           w == Len(m.words)
           d == Len(m.data)
           one == IF L.data THEN 1 ELSE 0
           s == at + 2 * w + (IF L.data THEN 3 ELSE 2)
<1>1. /\ m.words \in Seq(Word) /\ m.data \in Seq(Byte) /\ w \in Nat /\ d \in Nat
      /\ DOMAIN m.words = 1 .. w /\ DOMAIN m.data = 1 .. d
      /\ m.words = [i \in 1 .. w |-> m.words[i]] /\ m.data = [i \in 1 .. d |-> m.data[i]]
      /\ \A i \in 1 .. w : m.words[i] \in Word
  <2>1. m.words \in Seq(Word) /\ m.data \in Seq(Byte)
    BY MessageAssumption
  <2>2. \A S : \A q \in Seq(S) : /\ Len(q) \in Nat /\ DOMAIN q = 1 .. Len(q)
                                 /\ q = [i \in 1 .. Len(q) |-> q[i]]
                                 /\ \A i \in 1 .. Len(q) : q[i] \in S
    OBVIOUS
  <2>3. QED
    BY <2>1, <2>2
<1>2. /\ \A i \in 1 .. w : p[2 * i] = m.words[i] \div 256 /\ p[2 * i + 1] = m.words[i] % 256
      /\ \A k \in 1 .. d : p[Len(p) - d + k] = m.data[k]
      /\ Len(p) = 1 + 2 * w + (IF L.data THEN 1 ELSE 0) + d
  <2>1. Carries(p, m)
    BY PduContent
  <2> HIDE DEF p
  <2>2. QED
    BY <2>1 DEF Carries
<1>3. p[1] = m.fc /\ Len(p) \in Nat
  BY PduShape
<1>4. L.data \in BOOLEAN /\ w = (IF L = Except THEN 0 ELSE L.words)
  BY MessageAssumption, LayoutCases, EmptySeq DEF Lay
<1> HIDE DEF p, w, d, L
<1>5. /\ w \in Nat /\ d \in Nat /\ one \in Nat /\ Len(p) \in Nat
      /\ Len(p) = 1 + 2 * w + one + d /\ s = at + 2 * w + 2 + one
  <2>1. w \in Nat /\ d \in Nat
    BY <1>1
  <2>2. one \in Nat /\ s = at + 2 * w + 2 + one
    BY <1>4, <2>1
  <2>3. QED
    BY <1>2, <1>3, <2>1, <2>2
<1> HIDE DEF one, s
<1>6. b[at + 1] = m.fc
  BY <1>3, <1>5 DEF p, Holds
<1>7. LayoutOf(b[at + 1], m.type) = L
  BY <1>6 DEF Lay, L
<1>8. \A i \in 1 .. w : U16Get(b, at + 2 * i) = m.words[i]
  <2> TAKE i \in 1 .. w
  <2>1. /\ 2 * i \in 1 .. Len(p) /\ 2 * i + 1 \in 1 .. Len(p)
        /\ at + (2 * i + 1) = at + 2 * i + 1
    BY <1>5
  <2>2. b[at + 2 * i] = p[2 * i] /\ b[at + (2 * i + 1)] = p[2 * i + 1]
    BY <2>1 DEF p, Holds
  <2>3. U16Get(b, at + 2 * i) = 256 * (m.words[i] \div 256) + (m.words[i] % 256)
    BY <1>2, <2>1, <2>2 DEF U16Get
  <2>4. \A v \in Nat : 256 * (v \div 256) + (v % 256) = v
    OBVIOUS
  <2>5. m.words[i] \in Nat
    BY <1>1, Numbers
  <2>6. QED
    BY <2>3, <2>4, <2>5
<1>9. SubSeq(b, s, at + Len(p)) = m.data
  <2> DEFINE e == at + Len(p)
  <2>1. s \in Nat /\ s >= 1 /\ e \in Nat /\ e <= Len(b) /\ e = (s - 1) + d
    BY <1>5 DEF p
  <2> HIDE DEF e
  <2>2. SubSeq(b, s, e) = [k \in 1 .. (e - s + 1) |-> b[s + k - 1]]
    BY <2>1
  <2>3. e - s + 1 = d
    BY <1>5, <2>1
  <2>4. ASSUME NEW k \in 1 .. d PROVE b[s + k - 1] = m.data[k]
    <3>1. Len(p) - d + k \in 1 .. Len(p) /\ s + k - 1 = at + (Len(p) - d + k)
      BY <1>5
    <3>2. QED
      <4>1. p[Len(p) - d + k] = m.data[k]
        BY <1>2
      <4>2. b[at + (Len(p) - d + k)] = p[Len(p) - d + k]
        BY <3>1 DEF p, Holds
      <4>3. QED
        BY <3>1, <4>1, <4>2
  <2>5. QED
    BY <1>1, <2>2, <2>3, <2>4 DEF e
<1>10. PduFields(b, at, Len(p), m.type) =
        [fc |-> m.fc, words |-> [i \in 1 .. w |-> U16Get(b, at + 2 * i)],
         data |-> SubSeq(b, s, at + Len(p))]
  BY <1>4, <1>6, <1>7 DEF PduFields, s
<1>11. [i \in 1 .. w |-> U16Get(b, at + 2 * i)] = m.words
  BY <1>1, <1>8
<1>12. QED
  BY <1>9, <1>10, <1>11 DEF PduOf, p

\* An RTU frame: the address, the pdu, and a CRC that brings the register to 0.
LEMMA RtuFrame ==
    ASSUME NEW m \in Messages, NEW sa \in Byte
    PROVE  LET p == PduMake(m, m.type)
               f == RtuMake(sa, m, m.type)
           IN /\ f \in Seq(Nat) /\ Len(f) = Len(p) + 3 /\ f[1] = sa
              /\ \A i \in 1 .. Len(p) : f[1 + i] = p[i]
              /\ Bytes(f, Len(p) + 3) /\ Crc(f, Len(p) + 3) = 0
<1> DEFINE p == PduMake(m, m.type)
           n == Len(p)
           body == <<sa>> \o p
           crc == Crc(body, Len(body))
           tail == <<crc % 256, crc \div 256>>
           f == body \o tail
<1>1. p \in Seq(Byte) /\ n \in Nat
  <2>1. p \in Seq(Byte)
    BY PduContent DEF Carries
  <2> HIDE DEF p
  <2>2. QED
    BY <2>1
<1>2. RtuMake(sa, m, m.type) = f
  BY DEF RtuMake
<1> HIDE DEF p
<1>3. <<sa>> \in Seq(Byte) /\ Len(<<sa>>) = 1 /\ <<sa>>[1] = sa
  OBVIOUS
<1>4. /\ body \in Seq(Byte) /\ Len(body) = 1 + n /\ body[1] = sa
      /\ \A i \in 1 .. n : body[1 + i] = p[i]
  BY <1>1, <1>3, Concat
<1> HIDE DEF body
<1>5. Bytes(body, 1 + n)
  <2>1. \A i \in 1 .. Len(body) : body[i] \in Byte
    BY <1>4
  <2>2. QED
    BY <1>1, <1>4, <2>1 DEF Bytes
<1>6. crc \in Word /\ crc = Crc(body, 1 + n)
  <2>1. 1 + n \in 0 .. 1 + n
    BY <1>1
  <2>2. QED
    BY <1>4, <1>5, <2>1, CrcGrows
<1> HIDE DEF crc
<1>7. crc % 256 \in Byte /\ crc \div 256 \in Byte
  BY <1>6, Halves
<1>8. /\ tail \in Seq(Byte) /\ Len(tail) = 2
      /\ tail[1] = crc % 256 /\ tail[2] = crc \div 256
  BY <1>7
<1> HIDE DEF tail
<1>9. /\ f \in Seq(Byte) /\ Len(f) = n + 3
      /\ \A i \in 1 .. 1 + n : f[i] = body[i]
      /\ f[n + 2] = crc % 256 /\ f[n + 3] = crc \div 256
  <2>1. /\ f \in Seq(Byte) /\ Len(f) = Len(body) + Len(tail)
        /\ \A i \in 1 .. Len(body) : f[i] = body[i]
        /\ \A i \in 1 .. Len(tail) : f[Len(body) + i] = tail[i]
    <3>1. body \in Seq(Byte) /\ tail \in Seq(Byte)
      BY <1>4, <1>8
    <3>2. QED
      BY <3>1, Concat
  <2>2. /\ 1 \in 1 .. Len(tail) /\ 2 \in 1 .. Len(tail)
        /\ Len(body) + 1 = n + 2 /\ Len(body) + 2 = n + 3
    BY <1>1, <1>4, <1>8
  <2>3. QED
    BY <1>4, <1>8, <2>1, <2>2
<1> HIDE DEF f
<1>10. Bytes(f, n + 3)
  <2>1. \A i \in 1 .. Len(f) : f[i] \in Byte
    BY <1>9
  <2>2. QED
    BY <1>1, <1>9, <2>1 DEF Bytes
<1>11. Crc(f, n + 3) = 0
  <2>1. Crc(f, n + 1) = crc
    <3>1. Crc(f, 1 + n) = Crc(body, 1 + n)
      BY <1>5, <1>9, CrcSame
    <3>2. 1 + n = n + 1
      BY <1>1
    <3>3. QED
      BY <1>6, <3>1, <3>2
  <2>2. /\ n + 1 \in 0 .. (n + 3) - 1 /\ n + 2 \in 0 .. (n + 3) - 1
        /\ (n + 1) + 1 = n + 2 /\ (n + 2) + 1 = n + 3
    BY <1>1
  <2>3. Crc(f, n + 2) = CrcStep(crc, crc % 256)
    BY <1>9, <1>10, <2>1, <2>2, CrcGrows
  <2>4. Crc(f, n + 3) = CrcStep(Crc(f, n + 2), crc \div 256)
    BY <1>9, <1>10, <2>2, CrcGrows
  <2>5. QED
    BY <1>6, <2>3, <2>4, Residue
<1>12. f \in Seq(Nat)
  BY <1>9, Numbers, SeqMonotonic
<1>13. f[1] = sa /\ \A i \in 1 .. n : f[1 + i] = p[i]
  <2>1. 1 \in 1 .. 1 + n /\ \A i \in 1 .. n : 1 + i \in 1 .. 1 + n
    BY <1>1
  <2>2. QED
    BY <1>4, <1>9, <2>1
<1>14. QED
  BY <1>2, <1>9, <1>10, <1>11, <1>12, <1>13 DEF p

\* A TCP frame: the tid, the pid, a length, the address, and the pdu.
LEMMA TcpFrame ==
    ASSUME NEW m \in Messages, NEW sa \in Byte, NEW tid \in Word
    PROVE  LET p == PduMake(m, m.type)
               f == TcpMake(tid, 0, sa, m, m.type)
           IN /\ f \in Seq(Nat) /\ Len(f) = 7 + Len(p) /\ f[7] = sa /\ U16Get(f, 1) = tid
              /\ \A i \in 1 .. Len(p) : f[7 + i] = p[i]
<1> DEFINE p == PduMake(m, m.type)
           n == Len(p)
           s1 == U16Put(tid)
           low == U16Put(0)
           size == U16Put(n + 1)
           s2 == s1 \o low
           s3 == s2 \o size
           s4 == s3 \o <<sa>>
           f == s4 \o p
<1>1. p \in Seq(Nat) /\ n \in Nat
  BY PduShape
<1>2. TcpMake(tid, 0, sa, m, m.type) = f
  BY DEF TcpMake
<1> HIDE DEF p
<1>3. \A v \in Nat : /\ U16Put(v) \in Seq(Nat) /\ Len(U16Put(v)) = 2
                     /\ U16Put(v)[1] = v \div 256 /\ U16Put(v)[2] = v % 256
  BY DEF U16Put
<1>4. tid \in Nat /\ n + 1 \in Nat /\ <<sa>> \in Seq(Nat) /\ Len(<<sa>>) = 1 /\ <<sa>>[1] = sa
  BY <1>1, Numbers
<1>5. s1 \in Seq(Nat) /\ Len(s1) = 2 /\ s1[1] = tid \div 256 /\ s1[2] = tid % 256
  BY <1>3, <1>4
<1>6. low \in Seq(Nat) /\ size \in Seq(Nat) /\ Len(low) = 2 /\ Len(size) = 2
  BY <1>3, <1>4
<1> HIDE DEF s1, low, size
<1>7. s2 \in Seq(Nat) /\ Len(s2) = 4 /\ s2[1] = s1[1] /\ s2[2] = s1[2]
  <2>1. s1 \in Seq(Nat) /\ low \in Seq(Nat)
    BY <1>5, <1>6
  <2>2. /\ s2 \in Seq(Nat) /\ Len(s2) = Len(s1) + Len(low)
        /\ \A i \in 1 .. Len(s1) : s2[i] = s1[i]
        /\ \A i \in 1 .. Len(low) : s2[Len(s1) + i] = low[i]
    BY <2>1, Concat
  <2>3. Len(low) = 2 /\ 1 \in 1 .. Len(s1) /\ 2 \in 1 .. Len(s1)
    BY <1>5, <1>6
  <2> HIDE DEF s2
  <2>4. s2[1] = s1[1] /\ s2[2] = s1[2]
    BY <2>2, <2>3
  <2>5. QED
    BY <1>5, <2>2, <2>3, <2>4
<1> HIDE DEF s2
<1>8. s3 \in Seq(Nat) /\ Len(s3) = 6 /\ s3[1] = s1[1] /\ s3[2] = s1[2]
  <2>1. s2 \in Seq(Nat) /\ size \in Seq(Nat)
    BY <1>7, <1>6
  <2>2. /\ s3 \in Seq(Nat) /\ Len(s3) = Len(s2) + Len(size)
        /\ \A i \in 1 .. Len(s2) : s3[i] = s2[i]
        /\ \A i \in 1 .. Len(size) : s3[Len(s2) + i] = size[i]
    BY <2>1, Concat
  <2>3. Len(size) = 2 /\ 1 \in 1 .. Len(s2) /\ 2 \in 1 .. Len(s2)
    BY <1>7, <1>6
  <2> HIDE DEF s3
  <2>4. s3[1] = s2[1] /\ s3[2] = s2[2]
    BY <2>2, <2>3
  <2>5. QED
    BY <1>7, <2>2, <2>3, <2>4
<1> HIDE DEF s3
<1>9. s4 \in Seq(Nat) /\ Len(s4) = 7 /\ s4[1] = s1[1] /\ s4[2] = s1[2] /\ s4[7] = sa
  <2>1. s3 \in Seq(Nat) /\ <<sa>> \in Seq(Nat)
    BY <1>4, <1>8
  <2>2. /\ s4 \in Seq(Nat) /\ Len(s4) = Len(s3) + Len(<<sa>>)
        /\ \A i \in 1 .. Len(s3) : s4[i] = s3[i]
        /\ \A i \in 1 .. Len(<<sa>>) : s4[Len(s3) + i] = <<sa>>[i]
    BY <2>1, Concat
  <2> HIDE DEF s4
  <2>3. 1 \in 1 .. Len(<<sa>>) /\ Len(s3) + 1 = 7
    BY <1>4, <1>8
  <2>4. s4[7] = sa
    BY <1>4, <2>2, <2>3
  <2>5. QED
    BY <1>4, <1>8, <2>2, <2>4
<1> HIDE DEF s4
<1>10. /\ f \in Seq(Nat) /\ Len(f) = 7 + n
      /\ f[1] = s1[1] /\ f[2] = s1[2] /\ f[7] = sa
      /\ \A i \in 1 .. n : f[7 + i] = p[i]
  <2>1. s4 \in Seq(Nat) /\ p \in Seq(Nat)
    BY <1>1, <1>9
  <2>2. /\ f \in Seq(Nat) /\ Len(f) = Len(s4) + Len(p)
        /\ \A i \in 1 .. Len(s4) : f[i] = s4[i]
        /\ \A i \in 1 .. Len(p) : f[Len(s4) + i] = p[i]
    BY <2>1, Concat
  <2> HIDE DEF f
  <2>3. Len(s4) = 7 /\ 1 \in 1 .. 7 /\ 2 \in 1 .. 7 /\ 7 \in 1 .. 7
    BY <1>9
  <2>4. QED
    BY <1>1, <1>9, <2>2, <2>3
<1> HIDE DEF f
<1>11. U16Get(f, 1) = tid
  <2>1. \A v \in Nat : 256 * (v \div 256) + (v % 256) = v
    OBVIOUS
  <2>2. 1 + 1 = 2
    OBVIOUS
  <2>3. QED
    BY <1>4, <1>5, <1>10, <2>1, <2>2 DEF U16Get
<1>12. QED
  BY <1>2, <1>10, <1>11 DEF p

-----------------------------------------------------------------------------
(* What the receiver reads.                                                *)

\* What the receiver has begins with the frame f.
BeginsWith(b, f) == b \in Seq(Nat) /\ Len(b) >= Len(f) /\ \A i \in 1 .. Len(f) : b[i] = f[i]

\* What an RTU receiver makes of what begins with a frame, ...
LEMMA RtuRead ==
    ASSUME NEW m \in Messages, NEW sa \in Byte, NEW b, BeginsWith(b, RtuMake(sa, m, m.type))
    PROVE  LET n == Len(PduMake(m, m.type)) IN
           /\ RtuParse(b, m.type) = n /\ n \in Nat \ {0} /\ 1 + n <= Len(b)
           /\ b[1] = sa /\ PduFields(b, 1, n, m.type) = PduOf(m)
<1> DEFINE p == PduMake(m, m.type)
           n == Len(p)
           f == RtuMake(sa, m, m.type)
<1>1. /\ f \in Seq(Nat) /\ Len(f) = n + 3 /\ f[1] = sa
      /\ \A i \in 1 .. n : f[1 + i] = p[i]
      /\ Bytes(f, n + 3) /\ Crc(f, n + 3) = 0
  BY RtuFrame
<1>2. n \in Nat
  BY PduShape
<1>3. b \in Seq(Nat) /\ Len(b) >= Len(f) /\ \A i \in 1 .. Len(f) : b[i] = f[i]
  BY DEF BeginsWith
<1> HIDE DEF f, p
<1>4. Len(b) \in Nat /\ Len(b) >= n + 3
  BY <1>1, <1>3
<1>5. \A i \in 1 .. n : b[1 + i] = p[i]
  <2>1. \A i \in 1 .. n : 1 + i \in 1 .. n + 3
    BY <1>2
  <2>2. QED
    BY <1>1, <1>3, <2>1
<1>6. b[1] = sa
  <2>1. 1 \in 1 .. n + 3
    BY <1>2
  <2>2. QED
    BY <1>1, <1>3, <2>1
<1>7. Crc(b, n + 3) = 0
  BY <1>1, <1>3, CrcSame
<1>8. PduParse(b, 1, Len(b) - 3, m.type) = n /\ n >= 2
  <2> DEFINE len == Len(b) - 3
  <2>1. len \in Nat /\ len >= n
    BY <1>2, <1>4
  <2> HIDE DEF len
  <2> DEFINE at == 1
  <2>2. at \in Nat /\ Holds(b, at, p)
    BY <1>5 DEF Holds
  <2> HIDE DEF at
  <2>3. PduParse(b, at, len, m.type) = n /\ n >= 2
    BY <2>1, <2>2, PduParsed DEF p
  <2>4. QED
    BY <2>3 DEF at, len
<1>9. RtuParse(b, m.type) = n
  <2>1. ~(Len(b) < 5) /\ ~(n <= 0) /\ ~(Len(b) - 3 < n)
    BY <1>2, <1>4, <1>8
  <2>2. QED
    BY <1>7, <1>8, <2>1 DEF RtuParse, RtuSize
<1>10. PduFields(b, 1, n, m.type) = PduOf(m)
  <2>1. 1 + n <= Len(b) /\ 1 \in Nat
    BY <1>2, <1>4
  <2>2. QED
    BY <1>3, <1>5, <2>1, PduRead DEF p, Holds
<1>11. 1 + n <= Len(b) /\ n \in Nat \ {0}
  BY <1>2, <1>4, <1>8
<1>12. QED
  BY <1>6, <1>9, <1>10, <1>11 DEF p

\* ... and a TCP receiver.
LEMMA TcpRead ==
    ASSUME NEW m \in Messages, NEW sa \in Byte, NEW tid \in Word, NEW b,
           BeginsWith(b, TcpMake(tid, 0, sa, m, m.type))
    PROVE  LET n == Len(PduMake(m, m.type)) IN
           /\ TcpParse(b, m.type) = n /\ n \in Nat \ {0} /\ 7 + n <= Len(b)
           /\ b[7] = sa /\ U16Get(b, 1) = tid /\ PduFields(b, 7, n, m.type) = PduOf(m)
<1> DEFINE p == PduMake(m, m.type)
           n == Len(p)
           f == TcpMake(tid, 0, sa, m, m.type)
<1>1. /\ f \in Seq(Nat) /\ Len(f) = 7 + n /\ f[7] = sa /\ U16Get(f, 1) = tid
      /\ \A i \in 1 .. n : f[7 + i] = p[i]
  BY TcpFrame
<1>2. n \in Nat
  BY PduShape
<1>3. b \in Seq(Nat) /\ Len(b) >= Len(f) /\ \A i \in 1 .. Len(f) : b[i] = f[i]
  BY DEF BeginsWith
<1> HIDE DEF f, p
<1>4. Len(b) \in Nat /\ Len(b) >= 7 + n
  BY <1>1, <1>3
<1>5. \A i \in 1 .. n : b[7 + i] = p[i]
  <2>1. \A i \in 1 .. n : 7 + i \in 1 .. 7 + n
    BY <1>2
  <2>2. QED
    BY <1>1, <1>3, <2>1
<1>6. b[7] = sa /\ U16Get(b, 1) = tid
  <2>1. 1 \in 1 .. 7 + n /\ 1 + 1 \in 1 .. 7 + n /\ 7 \in 1 .. 7 + n
    BY <1>2
  <2>2. b[1] = f[1] /\ b[1 + 1] = f[1 + 1] /\ b[7] = f[7]
    BY <1>1, <1>3, <2>1
  <2>3. QED
    BY <1>1, <2>2 DEF U16Get
<1>7. PduParse(b, 7, Len(b) - 7, m.type) = n /\ n >= 2
  <2> DEFINE len == Len(b) - 7
  <2>1. len \in Nat /\ len >= n
    BY <1>2, <1>4
  <2> HIDE DEF len
  <2>2. PduParse(b, 7, len, m.type) = n /\ n >= 2
    BY <1>5, <2>1, PduParsed DEF p, Holds
  <2>3. QED
    BY <2>2 DEF len
<1>8. TcpParse(b, m.type) = n
  <2>1. ~(Len(b) < 9) /\ ~(n <= 0) /\ ~(Len(b) - 7 < n)
    BY <1>2, <1>4, <1>7
  <2>2. QED
    BY <1>7, <2>1 DEF TcpParse
<1>9. PduFields(b, 7, n, m.type) = PduOf(m)
  <2>1. 7 + n <= Len(b) /\ 7 \in Nat
    BY <1>2, <1>4
  <2>2. QED
    BY <1>3, <1>5, <2>1, PduRead DEF p, Holds
<1>10. 7 + n <= Len(b) /\ n \in Nat \ {0}
  BY <1>2, <1>4, <1>7
<1>11. QED
  BY <1>6, <1>8, <1>9, <1>10 DEF p

-----------------------------------------------------------------------------
(* Frames that arrive.                                                     *)

\* As long as it is not damaged, the frame is what the receiver has, or the
\* beginning of it; CutInv says so until the line has done something.
ArriveInv ==
    /\ CutInv /\ FrameArrives
    /\ fate \in {"untouched", "joined"} => BeginsWith(wire, Sent)

\* A frame is a sequence of numbers.
LEMMA FrameType ==
    ASSUME NEW f \in {"RTU", "TCP"}, NEW sa \in Byte, NEW tid \in Word, NEW m \in Messages
    PROVE  MakeFrame(f, sa, tid, m) \in Seq(Nat)
BY RtuFrame, TcpFrame DEF MakeFrame

\* The receiver of a frame reads what was sent.
LEMMA ReceivesIt ==
    ASSUME CutInv, BeginsWith(wire, Sent), Receive
    PROVE  /\ got'.n = Len(PduMake(msg.m, msg.m.type))
           /\ got'.sa = msg.sa /\ got'.tid = msg.tid
           /\ got'.pdu = PduOf(msg.m)
<1> DEFINE n == Len(PduMake(msg.m, msg.m.type))
           at == Head1(msg.frame)
<1>1. /\ msg.frame \in {"RTU", "TCP"} /\ msg.sa \in Byte /\ msg.tid \in Word
      /\ msg.m \in Messages
  BY DEF CutInv
<1>2. /\ Parse(msg.frame, wire, msg.m.type) = n /\ n \in Nat \ {0} /\ at + n <= Len(wire)
      /\ wire[at] = msg.sa /\ PduFields(wire, at, n, msg.m.type) = PduOf(msg.m)
      /\ msg.frame = "TCP" => TcpFields(wire).tid = msg.tid
  <2>1. CASE msg.frame = "RTU"
    <3>1. BeginsWith(wire, RtuMake(msg.sa, msg.m, msg.m.type))
      BY <2>1 DEF Sent, MakeFrame
    <3>2. Parse(msg.frame, wire, msg.m.type) = RtuParse(wire, msg.m.type) /\ at = 1
      BY <2>1 DEF Parse, Head1
    <3>3. QED
      BY <1>1, <2>1, <3>1, <3>2, RtuRead
  <2>2. CASE msg.frame = "TCP"
    <3>1. BeginsWith(wire, TcpMake(msg.tid, 0, msg.sa, msg.m, msg.m.type))
      BY <2>2 DEF Sent, MakeFrame
    <3>2. Parse(msg.frame, wire, msg.m.type) = TcpParse(wire, msg.m.type) /\ at = 7
      BY <2>2 DEF Parse, Head1
    <3>3. TcpFields(wire).tid = U16Get(wire, 1)
      BY DEF TcpFields
    <3>4. QED
      BY <1>1, <2>2, <3>1, <3>2, <3>3, TcpRead
  <2>3. QED
    BY <1>1, <2>1, <2>2
<1> HIDE DEF n, at
<1>3. ~(n <= 0) /\ ~(at + n > Len(wire))
  <2>1. at \in Nat
    BY DEF at, Head1
  <2>2. Len(wire) \in Nat
    BY DEF BeginsWith
  <2>3. QED
    BY <1>2, <2>1, <2>2
<1>4. got' = [n |-> n, sa |-> wire[at],
              tid |-> IF msg.frame = "TCP" THEN TcpFields(wire).tid ELSE msg.tid,
              pdu |-> PduFields(wire, at, n, msg.m.type)]
  BY <1>2, <1>3 DEF Receive, at
<1>5. QED
  BY <1>2, <1>4 DEF n

\* ArriveInv is inductive.
LEMMA ArriveStep == ArriveInv /\ [Next]_vars => ArriveInv'
<1> SUFFICES ASSUME ArriveInv, [Next]_vars PROVE ArriveInv'
  OBVIOUS
<1>1. CutInv /\ CutInv'
  BY CutStep DEF ArriveInv
<1>2. ASSUME NEW n \in 0 .. Len(wire) - 1, Cut(n) PROVE ArriveInv'
  BY <1>1, <1>2 DEF Cut, ArriveInv, FrameArrives, Received
<1>3. ASSUME NEW k \in 1 .. FlipMax, NEW i \in 0 .. 7, Flip(k, i) PROVE ArriveInv'
  BY <1>1, <1>3 DEF Flip, ArriveInv, FrameArrives, Received
<1>4. ASSUME NEW m \in Messages, NEW n \in {1, 8}, Join(m, n) PROVE ArriveInv'
  <2> DEFINE next == MakeFrame(msg.frame, msg.sa, msg.tid, m)
             more == SubSeq(next, 1, n)
  <2>1. /\ wire = Sent /\ got = Nothing /\ n <= Len(next)
        /\ wire' = wire \o more /\ msg' = msg /\ got' = got
    BY <1>1, <1>4 DEF Join, CutInv
  <2>2. wire \in Seq(Nat) /\ next \in Seq(Nat)
    BY <1>1, <2>1, FrameType DEF CutInv, Sent
  <2> HIDE DEF next
  <2>3. more \in Seq(Nat) /\ Len(more) \in Nat
    BY <2>1, <2>2, SubSeqProperties, LenProperties
  <2> HIDE DEF more
  <2>4. BeginsWith(wire', wire)
    <3>1. /\ wire \o more \in Seq(Nat) /\ Len(wire \o more) = Len(wire) + Len(more)
          /\ \A i \in 1 .. Len(wire) : (wire \o more)[i] = wire[i]
      BY <2>2, <2>3, Concat
    <3>2. Len(wire) \in Nat /\ Len(wire) + Len(more) >= Len(wire)
      BY <2>2, <2>3
    <3>3. QED
      BY <2>1, <3>1, <3>2 DEF BeginsWith
  <2>5. Sent' = Sent
    BY <2>1 DEF Sent
  <2>6. QED
    BY <1>1, <2>1, <2>4, <2>5 DEF ArriveInv, FrameArrives, Received
<1>5. ASSUME NEW m \in Messages, NEW n \in 1 .. FlipMax, Splice(m, n) PROVE ArriveInv'
  BY <1>1, <1>5 DEF Splice, ArriveInv, FrameArrives, Received
<1>6. ASSUME NEW k \in 1 .. FlipMax, NEW u \in Marks, NEW v \in Marks, Smear(k, u, v)
      PROVE  ArriveInv'
  BY <1>1, <1>6 DEF Smear, ArriveInv, FrameArrives, Received
<1>7. CASE Receive
  <2>1. msg' = msg /\ wire' = wire /\ fate' = IF fate = "whole" THEN "untouched" ELSE fate
    BY <1>7 DEF Receive
  <2>2. Sent' = Sent
    BY <2>1 DEF Sent
  <2>3. fate = "whole" => BeginsWith(wire, Sent)
    <3>1. Sent \in Seq(Nat)
      BY <1>1, FrameType DEF CutInv, Sent
    <3>2. Len(Sent) >= Len(Sent)
      BY <3>1
    <3>3. QED
      BY <1>1, <3>1, <3>2 DEF CutInv, BeginsWith
  <2>4. fate' \in {"untouched", "joined"} => BeginsWith(wire, Sent)
    BY <2>1, <2>3 DEF ArriveInv
  <2>5. FrameArrives'
    BY <1>1, <1>7, <2>1, <2>4, ReceivesIt DEF FrameArrives, Received
  <2>6. QED
    BY <1>1, <2>1, <2>2, <2>4, <2>5 DEF ArriveInv
<1>8. CASE UNCHANGED vars
  BY <1>1, <1>8 DEF vars, ArriveInv, FrameArrives, Received, Sent
<1>9. QED
  BY <1>2, <1>3, <1>4, <1>5, <1>6, <1>7, <1>8 DEF Next

\* Whatever is sent, under either framing: a frame that is not damaged is
\* accepted, also with more bytes behind it, and comes out as it went in.  For
\* RTU framing this rests on the CRC that mb_rtu_frm_make appends.
THEOREM FramesArrive == Spec => []FrameArrives
<1>1. Init => ArriveInv
  BY WireAssumption DEF Init, ArriveInv, CutInv, Sent, FrameArrives, Received
<1>2. ArriveInv => FrameArrives
  BY DEF ArriveInv
<1>3. QED
  BY <1>1, <1>2, ArriveStep, PTL DEF Spec

-----------------------------------------------------------------------------
(* Bits.                                                                   *)

\* The byte of eight bits, the lowest first.
Value(a0, a1, a2, a3, a4, a5, a6, a7) ==
    a0 + 2 * a1 + 4 * a2 + 8 * a3 + 16 * a4 + 32 * a5 + 64 * a6 + 128 * a7

\* Its bits are found again, ...
LEMMA Digits ==
    ASSUME NEW a0 \in {0, 1}, NEW a1 \in {0, 1}, NEW a2 \in {0, 1}, NEW a3 \in {0, 1},
           NEW a4 \in {0, 1}, NEW a5 \in {0, 1}, NEW a6 \in {0, 1}, NEW a7 \in {0, 1}
    PROVE  LET x == Value(a0, a1, a2, a3, a4, a5, a6, a7) IN
           /\ x \in Byte
           /\ BitOf(x, 0) = a0 /\ BitOf(x, 1) = a1 /\ BitOf(x, 2) = a2 /\ BitOf(x, 3) = a3
           /\ BitOf(x, 4) = a4 /\ BitOf(x, 5) = a5 /\ BitOf(x, 6) = a6 /\ BitOf(x, 7) = a7
<1> DEFINE x == Value(a0, a1, a2, a3, a4, a5, a6, a7)
<1>1. x \in Byte
  BY DEF Value, Byte
<1>2. BitOf(x, 0) = a0 /\ BitOf(x, 1) = a1
  BY Powers DEF Value, BitOf
<1>3. BitOf(x, 2) = a2 /\ BitOf(x, 3) = a3
  BY Powers DEF Value, BitOf
<1>4. BitOf(x, 4) = a4 /\ BitOf(x, 5) = a5
  BY Powers DEF Value, BitOf
<1>5. BitOf(x, 6) = a6 /\ BitOf(x, 7) = a7
  BY Powers DEF Value, BitOf
<1>6. QED
  BY <1>1, <1>2, <1>3, <1>4, <1>5

\* ... and every byte is made of its bits.
LEMMA Binary ==
    ASSUME NEW x \in Byte
    PROVE  /\ BitOf(x, 0) \in {0, 1} /\ BitOf(x, 1) \in {0, 1}
           /\ BitOf(x, 2) \in {0, 1} /\ BitOf(x, 3) \in {0, 1}
           /\ BitOf(x, 4) \in {0, 1} /\ BitOf(x, 5) \in {0, 1}
           /\ BitOf(x, 6) \in {0, 1} /\ BitOf(x, 7) \in {0, 1}
           /\ x = Value(BitOf(x, 0), BitOf(x, 1), BitOf(x, 2), BitOf(x, 3),
                        BitOf(x, 4), BitOf(x, 5), BitOf(x, 6), BitOf(x, 7))
BY Powers DEF BitOf, Byte, Value

\* One bit of a byte is given a value, and no other is changed.
LEMMA OneBit ==
    ASSUME NEW x \in Byte, NEW r \in 0 .. 7, NEW bit \in {0, 1}
    PROVE  LET y == x + (bit - BitOf(x, r)) * 2 ^ r IN
           /\ y \in Byte /\ BitOf(y, r) = bit
           /\ \A q \in 0 .. 7 : q # r => BitOf(y, q) = BitOf(x, q)
<1> DEFINE y == x + (bit - BitOf(x, r)) * 2 ^ r
           a0 == BitOf(x, 0)
           a1 == BitOf(x, 1)
           a2 == BitOf(x, 2)
           a3 == BitOf(x, 3)
           a4 == BitOf(x, 4)
           a5 == BitOf(x, 5)
           a6 == BitOf(x, 6)
           a7 == BitOf(x, 7)
<1>1. /\ a0 \in {0, 1} /\ a1 \in {0, 1} /\ a2 \in {0, 1} /\ a3 \in {0, 1}
      /\ a4 \in {0, 1} /\ a5 \in {0, 1} /\ a6 \in {0, 1} /\ a7 \in {0, 1}
      /\ x = Value(a0, a1, a2, a3, a4, a5, a6, a7)
  BY Binary
<1>2. r \in {0, 1, 2, 3, 4, 5, 6, 7}
  OBVIOUS
<1> DEFINE Only(z, k) == /\ z \in Byte /\ BitOf(z, k) = bit
                         /\ \A q \in 0 .. 7 : q # k => BitOf(z, q) = BitOf(x, q)
<1>3. CASE r = 0
  <2> DEFINE z == Value(bit, a1, a2, a3, a4, a5, a6, a7)
  <2>1. y = x + (bit - a0) * 1
    BY <1>3, Powers
  <2>2. y = z
    <3> HIDE DEF a0, a1, a2, a3, a4, a5, a6, a7, y
    <3>1. QED
      BY <1>1, <2>1 DEF Value
  <2>3. Only(z, 0)
    <3>1. /\ z \in Byte /\ BitOf(z, 0) = bit
          /\ BitOf(z, 1) = a1 /\ BitOf(z, 2) = a2
          /\ BitOf(z, 3) = a3 /\ BitOf(z, 4) = a4
          /\ BitOf(z, 5) = a5 /\ BitOf(z, 6) = a6
          /\ BitOf(z, 7) = a7
      <4> HIDE DEF a0, a1, a2, a3, a4, a5, a6, a7
      <4>1. QED
        BY <1>1, Digits
    <3>2. QED
      BY <3>1
  <2>4. QED
    BY <1>3, <2>2, <2>3
<1>4. CASE r = 1
  <2> DEFINE z == Value(a0, bit, a2, a3, a4, a5, a6, a7)
  <2>1. y = x + (bit - a1) * 2
    BY <1>4, Powers
  <2>2. y = z
    <3> HIDE DEF a0, a1, a2, a3, a4, a5, a6, a7, y
    <3>1. QED
      BY <1>1, <2>1 DEF Value
  <2>3. Only(z, 1)
    <3>1. /\ z \in Byte /\ BitOf(z, 1) = bit
          /\ BitOf(z, 0) = a0 /\ BitOf(z, 2) = a2
          /\ BitOf(z, 3) = a3 /\ BitOf(z, 4) = a4
          /\ BitOf(z, 5) = a5 /\ BitOf(z, 6) = a6
          /\ BitOf(z, 7) = a7
      <4> HIDE DEF a0, a1, a2, a3, a4, a5, a6, a7
      <4>1. QED
        BY <1>1, Digits
    <3>2. QED
      BY <3>1
  <2>4. QED
    BY <1>4, <2>2, <2>3
<1>5. CASE r = 2
  <2> DEFINE z == Value(a0, a1, bit, a3, a4, a5, a6, a7)
  <2>1. y = x + (bit - a2) * 4
    BY <1>5, Powers
  <2>2. y = z
    <3> HIDE DEF a0, a1, a2, a3, a4, a5, a6, a7, y
    <3>1. QED
      BY <1>1, <2>1 DEF Value
  <2>3. Only(z, 2)
    <3>1. /\ z \in Byte /\ BitOf(z, 2) = bit
          /\ BitOf(z, 0) = a0 /\ BitOf(z, 1) = a1
          /\ BitOf(z, 3) = a3 /\ BitOf(z, 4) = a4
          /\ BitOf(z, 5) = a5 /\ BitOf(z, 6) = a6
          /\ BitOf(z, 7) = a7
      <4> HIDE DEF a0, a1, a2, a3, a4, a5, a6, a7
      <4>1. QED
        BY <1>1, Digits
    <3>2. QED
      BY <3>1
  <2>4. QED
    BY <1>5, <2>2, <2>3
<1>6. CASE r = 3
  <2> DEFINE z == Value(a0, a1, a2, bit, a4, a5, a6, a7)
  <2>1. y = x + (bit - a3) * 8
    BY <1>6, Powers
  <2>2. y = z
    <3> HIDE DEF a0, a1, a2, a3, a4, a5, a6, a7, y
    <3>1. QED
      BY <1>1, <2>1 DEF Value
  <2>3. Only(z, 3)
    <3>1. /\ z \in Byte /\ BitOf(z, 3) = bit
          /\ BitOf(z, 0) = a0 /\ BitOf(z, 1) = a1
          /\ BitOf(z, 2) = a2 /\ BitOf(z, 4) = a4
          /\ BitOf(z, 5) = a5 /\ BitOf(z, 6) = a6
          /\ BitOf(z, 7) = a7
      <4> HIDE DEF a0, a1, a2, a3, a4, a5, a6, a7
      <4>1. QED
        BY <1>1, Digits
    <3>2. QED
      BY <3>1
  <2>4. QED
    BY <1>6, <2>2, <2>3
<1>7. CASE r = 4
  <2> DEFINE z == Value(a0, a1, a2, a3, bit, a5, a6, a7)
  <2>1. y = x + (bit - a4) * 16
    BY <1>7, Powers
  <2>2. y = z
    <3> HIDE DEF a0, a1, a2, a3, a4, a5, a6, a7, y
    <3>1. QED
      BY <1>1, <2>1 DEF Value
  <2>3. Only(z, 4)
    <3>1. /\ z \in Byte /\ BitOf(z, 4) = bit
          /\ BitOf(z, 0) = a0 /\ BitOf(z, 1) = a1
          /\ BitOf(z, 2) = a2 /\ BitOf(z, 3) = a3
          /\ BitOf(z, 5) = a5 /\ BitOf(z, 6) = a6
          /\ BitOf(z, 7) = a7
      <4> HIDE DEF a0, a1, a2, a3, a4, a5, a6, a7
      <4>1. QED
        BY <1>1, Digits
    <3>2. QED
      BY <3>1
  <2>4. QED
    BY <1>7, <2>2, <2>3
<1>8. CASE r = 5
  <2> DEFINE z == Value(a0, a1, a2, a3, a4, bit, a6, a7)
  <2>1. y = x + (bit - a5) * 32
    BY <1>8, Powers
  <2>2. y = z
    <3> HIDE DEF a0, a1, a2, a3, a4, a5, a6, a7, y
    <3>1. QED
      BY <1>1, <2>1 DEF Value
  <2>3. Only(z, 5)
    <3>1. /\ z \in Byte /\ BitOf(z, 5) = bit
          /\ BitOf(z, 0) = a0 /\ BitOf(z, 1) = a1
          /\ BitOf(z, 2) = a2 /\ BitOf(z, 3) = a3
          /\ BitOf(z, 4) = a4 /\ BitOf(z, 6) = a6
          /\ BitOf(z, 7) = a7
      <4> HIDE DEF a0, a1, a2, a3, a4, a5, a6, a7
      <4>1. QED
        BY <1>1, Digits
    <3>2. QED
      BY <3>1
  <2>4. QED
    BY <1>8, <2>2, <2>3
<1>9. CASE r = 6
  <2> DEFINE z == Value(a0, a1, a2, a3, a4, a5, bit, a7)
  <2>1. y = x + (bit - a6) * 64
    BY <1>9, Powers
  <2>2. y = z
    <3> HIDE DEF a0, a1, a2, a3, a4, a5, a6, a7, y
    <3>1. QED
      BY <1>1, <2>1 DEF Value
  <2>3. Only(z, 6)
    <3>1. /\ z \in Byte /\ BitOf(z, 6) = bit
          /\ BitOf(z, 0) = a0 /\ BitOf(z, 1) = a1
          /\ BitOf(z, 2) = a2 /\ BitOf(z, 3) = a3
          /\ BitOf(z, 4) = a4 /\ BitOf(z, 5) = a5
          /\ BitOf(z, 7) = a7
      <4> HIDE DEF a0, a1, a2, a3, a4, a5, a6, a7
      <4>1. QED
        BY <1>1, Digits
    <3>2. QED
      BY <3>1
  <2>4. QED
    BY <1>9, <2>2, <2>3
<1>10. CASE r = 7
  <2> DEFINE z == Value(a0, a1, a2, a3, a4, a5, a6, bit)
  <2>1. y = x + (bit - a7) * 128
    BY <1>10, Powers
  <2>2. y = z
    <3> HIDE DEF a0, a1, a2, a3, a4, a5, a6, a7, y
    <3>1. QED
      BY <1>1, <2>1 DEF Value
  <2>3. Only(z, 7)
    <3>1. /\ z \in Byte /\ BitOf(z, 7) = bit
          /\ BitOf(z, 0) = a0 /\ BitOf(z, 1) = a1
          /\ BitOf(z, 2) = a2 /\ BitOf(z, 3) = a3
          /\ BitOf(z, 4) = a4 /\ BitOf(z, 5) = a5
          /\ BitOf(z, 6) = a6
      <4> HIDE DEF a0, a1, a2, a3, a4, a5, a6, a7
      <4>1. QED
        BY <1>1, Digits
    <3>2. QED
      BY <3>1
  <2>4. QED
    BY <1>10, <2>2, <2>3
<1>11. QED
  BY <1>2, <1>3, <1>4, <1>5, <1>6, <1>7, <1>8, <1>9, <1>10

\* A bitmap of k bytes: a bit that is set is found, the others are as before.
LEMMA BitmapFacts ==
    ASSUME NEW k \in Nat, NEW b \in [1 .. k -> Byte], NEW idx \in Nat,
           NEW bit \in {0, 1}, idx < 8 * k
    PROVE  LET c == BitmapSet(b, idx, bit) IN
           /\ c \in [1 .. k -> Byte] /\ BitmapGet(c, idx) = bit
           /\ \A j \in Nat : j # idx /\ j < 8 * k => BitmapGet(c, j) = BitmapGet(b, j)
<1> DEFINE at == idx \div 8 + 1
           r == idx % 8
           y == b[at] + (bit - BitOf(b[at], r)) * 2 ^ r
           c == [b EXCEPT ![at] = y]
<1>1. at \in 1 .. k /\ r \in 0 .. 7
  OBVIOUS
<1>2. \A j, d : BitmapGet(d, j) = BitOf(d[j \div 8 + 1], j % 8)
  BY DEF BitmapGet, BitOf
<1>3. BitmapSet(b, idx, bit) = c
  BY <1>2 DEF BitmapSet
<1>4. b[at] \in Byte
  BY <1>1
<1> HIDE DEF at, r
<1>5. y \in Byte /\ BitOf(y, r) = bit /\ \A q \in 0 .. 7 : q # r => BitOf(y, q) = BitOf(b[at], q)
  BY <1>1, <1>4, OneBit
<1> HIDE DEF y
<1>6. c \in [1 .. k -> Byte] /\ c[at] = y /\ \A l \in 1 .. k : l # at => c[l] = b[l]
  BY <1>1, <1>5
<1> HIDE DEF c
<1>7. BitmapGet(c, idx) = bit
  BY <1>2, <1>5, <1>6 DEF at, r
<1>8. ASSUME NEW j \in Nat, j # idx, j < 8 * k PROVE BitmapGet(c, j) = BitmapGet(b, j)
  <2>1. j \div 8 + 1 \in 1 .. k /\ j % 8 \in 0 .. 7
    BY <1>8
  <2>2. CASE j \div 8 + 1 # at
    BY <1>2, <1>6, <2>1, <2>2
  <2>3. CASE j \div 8 + 1 = at
    <3>1. j % 8 # r
      BY <1>8, <2>3 DEF at, r
    <3>2. QED
      BY <1>2, <1>5, <1>6, <2>1, <2>3, <3>1
  <2>4. QED
    BY <2>2, <2>3
<1>9. QED
  BY <1>3, <1>6, <1>7, <1>8

\* The loop of Packed over the first n bits.
IsPacking(h, bits, n) ==
    h = [i \in 0 .. n |-> IF i = 0 THEN [k \in 1 .. (Len(bits) + 7) \div 8 |-> 0]
                          ELSE BitmapSet(h[i - 1], i - 1, bits[i])]

\* The loop has a result for every number of bits.
LEMMA PackingExists ==
    ASSUME NEW bits
    PROVE  \A n \in Nat : \E h : IsPacking(h, bits, n)
<1> DEFINE S == {n \in Nat : \E h : IsPacking(h, bits, n)}
           zero == [k \in 1 .. (Len(bits) + 7) \div 8 |-> 0]
<1>1. 0 \in S
  <2> HIDE DEF zero
  <2>1. PICK h : h = [i \in 0 .. 0 |-> zero]
    OBVIOUS
  <2>2. [i \in 0 .. 0 |-> zero] =
          [i \in 0 .. 0 |-> IF i = 0 THEN zero ELSE BitmapSet(h[i - 1], i - 1, bits[i])]
    OBVIOUS
  <2>3. IsPacking(h, bits, 0)
    BY <2>1, <2>2 DEF IsPacking, zero
  <2>4. QED
    BY <2>3
<1>2. ASSUME NEW n \in Nat, n \in S PROVE n + 1 \in S
  <2>1. PICK h : IsPacking(h, bits, n)
    BY <1>2
  <2>2. PICK last : last = BitmapSet(h[n], n, bits[n + 1])
    OBVIOUS
  <2>3. PICK g : g = [i \in 0 .. n + 1 |-> IF i = n + 1 THEN last ELSE h[i]]
    OBVIOUS
  <2>4. /\ \A i \in 0 .. n : g[i] = h[i]
        /\ g[n + 1] = last
    BY <2>3
  <2>5. ASSUME NEW i \in 0 .. n + 1
        PROVE  g[i] = IF i = 0 THEN zero ELSE BitmapSet(g[i - 1], i - 1, bits[i])
    <3>1. CASE i = n + 1
      <4>1. i # 0 /\ i - 1 = n /\ g[n] = h[n]
        BY <2>4, <3>1
      <4>2. QED
        BY <2>2, <2>4, <3>1, <4>1
    <3>2. CASE i # n + 1
      <4>1. i \in 0 .. n /\ (i # 0 => i - 1 \in 0 .. n)
        BY <3>2
      <4>2. h[i] = IF i = 0 THEN zero ELSE BitmapSet(h[i - 1], i - 1, bits[i])
        BY <2>1, <4>1 DEF IsPacking, zero
      <4>3. QED
        BY <2>4, <4>1, <4>2
    <3>3. QED
      BY <3>1, <3>2
  <2>6. g = [i \in 0 .. n + 1 |-> IF i = 0 THEN zero ELSE BitmapSet(g[i - 1], i - 1, bits[i])]
    <3> HIDE DEF zero
    <3>1. g = [i \in 0 .. n + 1 |-> g[i]]
      BY <2>3
    <3>2. QED
      BY <2>5, <3>1
  <2>7. QED
    BY <2>6 DEF IsPacking, zero
<1> HIDE DEF S
<1>3. Nat \subseteq S
  BY <1>1, <1>2, ByInduction
<1>4. QED
  BY <1>3 DEF S

\* Of the bits that were packed each is found at its place.
LEMMA PackedBits ==
    ASSUME NEW bits \in Seq({0, 1})
    PROVE  \A i \in 1 .. Len(bits) : BitmapGet(Packed(bits), i - 1) = bits[i]
<1> DEFINE len == Len(bits)
           size == (len + 7) \div 8
           zero == [j \in 1 .. size |-> 0]
<1>1. len \in Nat /\ \A i \in 1 .. len : bits[i] \in {0, 1}
  OBVIOUS
<1>2. size \in Nat /\ \A i \in Nat : i < len => i < 8 * size
  BY <1>1
<1>3. PICK h : h = CHOOSE f : IsPacking(f, bits, len)
  OBVIOUS
<1>4. IsPacking(h, bits, len)
  <2>1. \E f : IsPacking(f, bits, len)
    BY <1>1, PackingExists
  <2>2. QED
    BY <1>3, <2>1, Zenon
<1>5. Packed(bits) = h[len]
  BY <1>3, Zenon DEF Packed, IsPacking
<1>6. /\ h[0] = zero
      /\ \A n \in Nat : n < len => h[n + 1] = BitmapSet(h[n], n, bits[n + 1])
  <2> DEFINE F(n) == IF n = 0 THEN zero ELSE BitmapSet(h[n - 1], n - 1, bits[n])
  <2>1. h = [n \in 0 .. len |-> F(n)]
    BY <1>4 DEF IsPacking
  <2> HIDE DEF F
  <2>2. \A n \in 0 .. len : h[n] = F(n)
    BY <2>1
  <2>3. /\ 0 \in 0 .. len
        /\ \A n \in Nat : n < len => n + 1 \in 0 .. len /\ n + 1 # 0 /\ (n + 1) - 1 = n
    BY <1>1
  <2>4. QED
    BY <2>2, <2>3 DEF F
<1>7. zero \in [1 .. size -> Byte]
  BY DEF Byte
<1> HIDE DEF len, size, zero
<1> DEFINE Good(n) == /\ h[n] \in [1 .. size -> Byte]
                      /\ \A i \in 1 .. n : BitmapGet(h[n], i - 1) = bits[i]
           S == {n \in Nat : n <= len => Good(n)}
<1>8. 0 \in S
  BY <1>6, <1>7
<1>9. ASSUME NEW n \in Nat, n \in S PROVE n + 1 \in S
  <2> SUFFICES ASSUME n + 1 <= len PROVE Good(n + 1)
    OBVIOUS
  <2>1. n < len /\ n + 1 \in 1 .. len /\ n <= len
    BY <1>1
  <2>2. Good(n) /\ n < 8 * size /\ bits[n + 1] \in {0, 1}
    BY <1>1, <1>2, <1>9, <2>1
  <2>3. h[n + 1] = BitmapSet(h[n], n, bits[n + 1])
    BY <1>6, <2>1
  <2>4. /\ h[n + 1] \in [1 .. size -> Byte] /\ BitmapGet(h[n + 1], n) = bits[n + 1]
        /\ \A j \in Nat : j # n /\ j < 8 * size => BitmapGet(h[n + 1], j) = BitmapGet(h[n], j)
    <3>1. PICK b \in [1 .. size -> Byte], bit \in {0, 1} : b = h[n] /\ bit = bits[n + 1]
      BY <2>2
    <3>2. size \in Nat /\ n < 8 * size
      BY <1>2, <2>2
    <3> HIDE DEF Good, S
    <3>3. BitmapSet(b, n, bit) \in [1 .. size -> Byte]
      BY <3>2, BitmapFacts
    <3>4. BitmapGet(BitmapSet(b, n, bit), n) = bit
      BY <3>2, BitmapFacts
    <3>5. ASSUME NEW j \in Nat, j # n, j < 8 * size
          PROVE  BitmapGet(BitmapSet(b, n, bit), j) = BitmapGet(b, j)
      BY <3>2, <3>5, BitmapFacts
    <3>6. QED
      BY <2>3, <3>1, <3>3, <3>4, <3>5
  <2>5. ASSUME NEW i \in 1 .. n + 1 PROVE BitmapGet(h[n + 1], i - 1) = bits[i]
    <3>1. CASE i = n + 1
      <4>1. i - 1 = n
        BY <3>1
      <4>2. QED
        BY <2>4, <3>1, <4>1
    <3>2. CASE i # n + 1
      <4>1. i \in 1 .. n /\ i - 1 \in Nat /\ i - 1 # n /\ i - 1 < len
        BY <1>1, <2>1, <3>2
      <4>2. i - 1 < 8 * size
        BY <1>2, <4>1
      <4>3. QED
        BY <2>2, <2>4, <4>1, <4>2
    <3>3. QED
      BY <3>1, <3>2
  <2>6. QED
    BY <2>4, <2>5
<1> HIDE DEF S
<1>10. Nat \subseteq S
  BY <1>8, <1>9, ByInduction
<1>11. Good(len)
  BY <1>1, <1>10 DEF S
<1>12. QED
  BY <1>5, <1>11 DEF len

\* The bits that a slave packs for any number of coils or inputs are the bits
\* the master finds at their places, under either framing.
THEOREM BitsCross == Spec => []BitsArrive
<1>1. Init => ArriveInv
  BY WireAssumption DEF Init, ArriveInv, CutInv, Sent, FrameArrives, Received
<1>2. ASSUME ArriveInv PROVE BitsArrive
  <2> SUFFICES ASSUME Received("untouched"), msg.m.bits # <<>>
               PROVE  \A i \in DOMAIN msg.m.bits : BitmapGet(got.pdu.data, i - 1) = msg.m.bits[i]
    BY DEF BitsArrive
  <2>1. got.pdu = PduOf(msg.m) /\ msg.m \in Messages
    BY <1>2 DEF ArriveInv, FrameArrives, CutInv
  <2>2. got.pdu.data = Packed(msg.m.bits) /\ msg.m.bits \in Seq({0, 1})
    BY <2>1, MessageAssumption DEF PduOf
  <2>3. DOMAIN msg.m.bits = 1 .. Len(msg.m.bits)
    BY <2>2
  <2>4. QED
    BY <2>2, <2>3, PackedBits
<1>3. QED
  BY <1>1, <1>2, ArriveStep, PTL DEF Spec

-----------------------------------------------------------------------------
(* The table and the shift register.                                       *)

\* Exclusive or of two bits, and a word of its 16 bits, the lowest first.
Odd(x, y) == IF x # y THEN 1 ELSE 0

Word16(a0, a1, a2, a3, a4, a5, a6, a7, b0, b1, b2, b3, b4, b5, b6, b7) ==
    256 * Value(b0, b1, b2, b3, b4, b5, b6, b7) + Value(a0, a1, a2, a3, a4, a5, a6, a7)

\* The exclusive or of two bytes, bit by bit.
LEMMA XorBits ==
    \A x, y \in Byte :
        Xor[x][y] =
          Value(Odd(BitOf(x, 0), BitOf(y, 0)), Odd(BitOf(x, 1), BitOf(y, 1)),
                Odd(BitOf(x, 2), BitOf(y, 2)), Odd(BitOf(x, 3), BitOf(y, 3)),
                Odd(BitOf(x, 4), BitOf(y, 4)), Odd(BitOf(x, 5), BitOf(y, 5)),
                Odd(BitOf(x, 6), BitOf(y, 6)), Odd(BitOf(x, 7), BitOf(y, 7)))
<1> TAKE x, y \in Byte
<1> DEFINE d(i) == IF BitOf(x, i) # BitOf(y, i) THEN 2 ^ i ELSE 0
           o(i) == Odd(BitOf(x, i), BitOf(y, i))
<1>1. Xor[x][y] = d(0) + d(1) + d(2) + d(3) + d(4) + d(5) + d(6) + d(7)
  BY DEF Xor
<1>2. /\ d(0) = o(0)      /\ d(1) = 2 * o(1)  /\ d(2) = 4 * o(2)  /\ d(3) = 8 * o(3)
      /\ d(4) = 16 * o(4) /\ d(5) = 32 * o(5) /\ d(6) = 64 * o(6) /\ d(7) = 128 * o(7)
  BY Powers DEF Odd
<1> HIDE DEF d
<1>3. QED
  BY <1>1, <1>2 DEF Value

\* A register of 16 bits.
Bits16(a0, a1, a2, a3, a4, a5, a6, a7, b0, b1, b2, b3, b4, b5, b6, b7) ==
    /\ a0 \in {0, 1} /\ a1 \in {0, 1} /\ a2 \in {0, 1} /\ a3 \in {0, 1}
    /\ a4 \in {0, 1} /\ a5 \in {0, 1} /\ a6 \in {0, 1} /\ a7 \in {0, 1}
    /\ b0 \in {0, 1} /\ b1 \in {0, 1} /\ b2 \in {0, 1} /\ b3 \in {0, 1}
    /\ b4 \in {0, 1} /\ b5 \in {0, 1} /\ b6 \in {0, 1} /\ b7 \in {0, 1}

\* One shift: for a bit that falls out the polynomial is added.
LEMMA ShiftBits ==
    \A a0, a1, a2, a3, a4, a5, a6, a7, b0, b1, b2, b3, b4, b5, b6, b7 :
        Bits16(a0, a1, a2, a3, a4, a5, a6, a7, b0, b1, b2, b3, b4, b5, b6, b7) =>
        CrcShift(Word16(a0, a1, a2, a3, a4, a5, a6, a7, b0, b1, b2, b3, b4, b5, b6, b7)) =
          Word16(Odd(a1, a0), a2, a3, a4, a5, a6, a7, b0,
                 b1, b2, b3, b4, b5, Odd(b6, a0), b7, a0)
<1> SUFFICES ASSUME NEW a0, NEW a1, NEW a2, NEW a3, NEW a4, NEW a5, NEW a6, NEW a7,
                    NEW b0, NEW b1, NEW b2, NEW b3, NEW b4, NEW b5, NEW b6, NEW b7,
                    Bits16(a0, a1, a2, a3, a4, a5, a6, a7, b0, b1, b2, b3, b4, b5, b6, b7)
             PROVE  CrcShift(Word16(a0, a1, a2, a3, a4, a5, a6, a7,
                                    b0, b1, b2, b3, b4, b5, b6, b7)) =
                      Word16(Odd(a1, a0), a2, a3, a4, a5, a6, a7, b0,
                             b1, b2, b3, b4, b5, Odd(b6, a0), b7, a0)
  OBVIOUS
<1>0. /\ a0 \in {0, 1} /\ a1 \in {0, 1} /\ a2 \in {0, 1} /\ a3 \in {0, 1}
      /\ a4 \in {0, 1} /\ a5 \in {0, 1} /\ a6 \in {0, 1} /\ a7 \in {0, 1}
      /\ b0 \in {0, 1} /\ b1 \in {0, 1} /\ b2 \in {0, 1} /\ b3 \in {0, 1}
      /\ b4 \in {0, 1} /\ b5 \in {0, 1} /\ b6 \in {0, 1} /\ b7 \in {0, 1}
  BY Zenon DEF Bits16
<1> DEFINE w == Word16(a0, a1, a2, a3, a4, a5, a6, a7,
                       b0, b1, b2, b3, b4, b5, b6, b7)
           low == Value(a1, a2, a3, a4, a5, a6, a7, b0)
           high == Value(b1, b2, b3, b4, b5, b6, b7, 0)
           v == 256 * high + low
<1>1. w % 2 = a0 /\ w \div 2 = v
  <2>1. w = 2 * v + a0 /\ v \in Nat
    BY <1>0 DEF Word16, Value
  <2> HIDE DEF w, v
  <2>2. QED
    BY <1>0, <2>1
<1>2. /\ low \in Byte
      /\ BitOf(low, 0) = a1 /\ BitOf(low, 1) = a2 /\ BitOf(low, 2) = a3 /\ BitOf(low, 3) = a4
      /\ BitOf(low, 4) = a5 /\ BitOf(low, 5) = a6 /\ BitOf(low, 6) = a7 /\ BitOf(low, 7) = b0
  BY <1>0, Digits
<1>3. /\ high \in Byte
      /\ BitOf(high, 0) = b1 /\ BitOf(high, 1) = b2 /\ BitOf(high, 2) = b3 /\ BitOf(high, 3) = b4
      /\ BitOf(high, 4) = b5 /\ BitOf(high, 5) = b6 /\ BitOf(high, 6) = b7 /\ BitOf(high, 7) = 0
  <2>1. 0 \in {0, 1}
    OBVIOUS
  <2>2. QED
    BY <1>0, <2>1, Digits
<1>4. /\ \hA001 % 256 = 1 /\ \hA001 \div 256 = 160 /\ 1 \in Byte /\ 160 \in Byte
      /\ BitOf(1, 0) = 1 /\ BitOf(1, 1) = 0 /\ BitOf(1, 2) = 0 /\ BitOf(1, 3) = 0
      /\ BitOf(1, 4) = 0 /\ BitOf(1, 5) = 0 /\ BitOf(1, 6) = 0 /\ BitOf(1, 7) = 0
      /\ BitOf(160, 0) = 0 /\ BitOf(160, 1) = 0 /\ BitOf(160, 2) = 0 /\ BitOf(160, 3) = 0
      /\ BitOf(160, 4) = 0 /\ BitOf(160, 5) = 1 /\ BitOf(160, 6) = 0 /\ BitOf(160, 7) = 1
  BY Powers DEF BitOf, Byte
<1> HIDE DEF w, low, high
<1>5. CASE a0 = 0
  <2>1. CrcShift(w) = v
    BY <1>1, <1>5 DEF CrcShift
  <2>2. QED
    BY <1>5, <1>0, <2>1 DEF low, high, w, Odd, Word16, Value
<1>6. CASE a0 = 1
  <2>1. CrcShift(w) = 256 * Xor[high][160] + Xor[low][1]
    <3>1. v % 256 = low /\ v \div 256 = high
      BY <1>2, <1>3, WordBytes
    <3>2. CrcShift(w) = XorWord(v, \hA001)
      BY <1>1, <1>6 DEF CrcShift
    <3> HIDE DEF v
    <3>3. QED
      BY <1>4, <3>1, <3>2 DEF XorWord
  <2>2. Xor[low][1] = Value(Odd(a1, 1), a2, a3, a4, a5, a6, a7, b0)
    <3>1. Xor[low][1] = Value(Odd(a1, 1), Odd(a2, 0), Odd(a3, 0), Odd(a4, 0),
                              Odd(a5, 0), Odd(a6, 0), Odd(a7, 0), Odd(b0, 0))
      BY <1>2, <1>4, XorBits
    <3>2. QED
      BY <1>0, <3>1 DEF Odd
  <2>3. Xor[high][160] = Value(b1, b2, b3, b4, b5, Odd(b6, 1), b7, 1)
    <3>1. Xor[high][160] = Value(Odd(b1, 0), Odd(b2, 0), Odd(b3, 0), Odd(b4, 0),
                                 Odd(b5, 0), Odd(b6, 1), Odd(b7, 0), Odd(0, 1))
      BY <1>3, <1>4, XorBits
    <3>2. QED
      BY <1>0, <3>1 DEF Odd
  <2>4. QED
    BY <1>6, <2>1, <2>2, <2>3 DEF w, Word16
<1>7. QED
  BY <1>0, <1>5, <1>6

\* What eight shifts make of a byte: f0 to f7 are the bits that fall out.
TableEntry(l0, l1, l2, l3, l4, l5, l6, l7) ==
    LET f0 == l0
        f1 == Odd(l1, f0)
        f2 == Odd(l2, f1)
        f3 == Odd(l3, f2)
        f4 == Odd(l4, f3)
        f5 == Odd(l5, f4)
        f6 == Odd(l6, f5)
        f7 == Odd(l7, f6)
    IN Word16(f7, 0, 0, 0, 0, 0, f0, f1, Odd(f0, f2), Odd(f1, f3), Odd(f2, f4), Odd(f3, f5),
              Odd(f4, f6), Odd(f5, f7), f6, f7)

\* The table holds this for every byte, row by row.
LEMMA TableBits ==
    \A l0, l1, l2, l3, l4, l5, l6, l7 \in {0, 1} :
        mb_crc_table[Value(l0, l1, l2, l3, l4, l5, l6, l7) + 1] =
          TableEntry(l0, l1, l2, l3, l4, l5, l6, l7)
<1> DEFINE T(l0, l1, l2, l3, l4, l5, l6, l7) ==
             mb_crc_table[Value(l0, l1, l2, l3, l4, l5, l6, l7) + 1] =
               TableEntry(l0, l1, l2, l3, l4, l5, l6, l7)
           Row(l4, l5, l6, l7) ==
             /\ T(0, 0, 0, 0, l4, l5, l6, l7) /\ T(1, 0, 0, 0, l4, l5, l6, l7)
             /\ T(0, 1, 0, 0, l4, l5, l6, l7) /\ T(1, 1, 0, 0, l4, l5, l6, l7)
             /\ T(0, 0, 1, 0, l4, l5, l6, l7) /\ T(1, 0, 1, 0, l4, l5, l6, l7)
             /\ T(0, 1, 1, 0, l4, l5, l6, l7) /\ T(1, 1, 1, 0, l4, l5, l6, l7)
             /\ T(0, 0, 0, 1, l4, l5, l6, l7) /\ T(1, 0, 0, 1, l4, l5, l6, l7)
             /\ T(0, 1, 0, 1, l4, l5, l6, l7) /\ T(1, 1, 0, 1, l4, l5, l6, l7)
             /\ T(0, 0, 1, 1, l4, l5, l6, l7) /\ T(1, 0, 1, 1, l4, l5, l6, l7)
             /\ T(0, 1, 1, 1, l4, l5, l6, l7) /\ T(1, 1, 1, 1, l4, l5, l6, l7)
<1>1. Row(0, 0, 0, 0)
  BY DEF mb_crc_table, TableEntry, Word16, Value, Odd
<1>2. Row(1, 0, 0, 0)
  BY DEF mb_crc_table, TableEntry, Word16, Value, Odd
<1>3. Row(0, 1, 0, 0)
  BY DEF mb_crc_table, TableEntry, Word16, Value, Odd
<1>4. Row(1, 1, 0, 0)
  BY DEF mb_crc_table, TableEntry, Word16, Value, Odd
<1>5. Row(0, 0, 1, 0)
  BY DEF mb_crc_table, TableEntry, Word16, Value, Odd
<1>6. Row(1, 0, 1, 0)
  BY DEF mb_crc_table, TableEntry, Word16, Value, Odd
<1>7. Row(0, 1, 1, 0)
  BY DEF mb_crc_table, TableEntry, Word16, Value, Odd
<1>8. Row(1, 1, 1, 0)
  BY DEF mb_crc_table, TableEntry, Word16, Value, Odd
<1>9. Row(0, 0, 0, 1)
  BY DEF mb_crc_table, TableEntry, Word16, Value, Odd
<1>10. Row(1, 0, 0, 1)
  BY DEF mb_crc_table, TableEntry, Word16, Value, Odd
<1>11. Row(0, 1, 0, 1)
  BY DEF mb_crc_table, TableEntry, Word16, Value, Odd
<1>12. Row(1, 1, 0, 1)
  BY DEF mb_crc_table, TableEntry, Word16, Value, Odd
<1>13. Row(0, 0, 1, 1)
  BY DEF mb_crc_table, TableEntry, Word16, Value, Odd
<1>14. Row(1, 0, 1, 1)
  BY DEF mb_crc_table, TableEntry, Word16, Value, Odd
<1>15. Row(0, 1, 1, 1)
  BY DEF mb_crc_table, TableEntry, Word16, Value, Odd
<1>16. Row(1, 1, 1, 1)
  BY DEF mb_crc_table, TableEntry, Word16, Value, Odd
<1> HIDE DEF T
<1>17. \A l4, l5, l6, l7 \in {0, 1} : Row(l4, l5, l6, l7)
  <2> HIDE DEF Row
  <2> QED
    BY <1>1, <1>2, <1>3, <1>4, <1>5, <1>6, <1>7, <1>8, <1>9, <1>10, <1>11, <1>12, <1>13,
       <1>14, <1>15, <1>16
<1>18. ASSUME NEW l4 \in {0, 1}, NEW l5 \in {0, 1}, NEW l6 \in {0, 1}, NEW l7 \in {0, 1}
       PROVE  \A l0, l1, l2, l3 \in {0, 1} : T(l0, l1, l2, l3, l4, l5, l6, l7)
  BY <1>17
<1>19. QED
  BY <1>18 DEF T

LEMMA OddBit == \A x, y \in {0, 1} : Odd(x, y) \in {0, 1}
BY DEF Odd

\* Eight shifts, of a low byte m and a high byte h: f0 to f7 fall out.
LEMMA EightShifts ==
    \A m0, m1, m2, m3, m4, m5, m6, m7, h0, h1, h2, h3, h4, h5, h6, h7 :
        Bits16(m0, m1, m2, m3, m4, m5, m6, m7, h0, h1, h2, h3, h4, h5, h6, h7) =>
        LET f0 == m0
            f1 == Odd(m1, f0)
            f2 == Odd(m2, f1)
            f3 == Odd(m3, f2)
            f4 == Odd(m4, f3)
            f5 == Odd(m5, f4)
            f6 == Odd(m6, f5)
            f7 == Odd(m7, f6)
        IN CrcShift(CrcShift(CrcShift(CrcShift(CrcShift(CrcShift(CrcShift(CrcShift(
             Word16(m0, m1, m2, m3, m4, m5, m6, m7, h0, h1, h2, h3, h4, h5, h6, h7))))))))) =
             Word16(Odd(h0, f7), h1, h2, h3, h4, h5, Odd(h6, f0), Odd(h7, f1),
                    Odd(f0, f2), Odd(f1, f3), Odd(f2, f4), Odd(f3, f5), Odd(f4, f6),
                    Odd(f5, f7), f6, f7)
<1> TAKE m0, m1, m2, m3, m4, m5, m6, m7, h0, h1, h2, h3, h4, h5, h6, h7
<1> HAVE Bits16(m0, m1, m2, m3, m4, m5, m6, m7, h0, h1, h2, h3, h4, h5, h6, h7)
<1>0. /\ m0 \in {0, 1} /\ m1 \in {0, 1} /\ m2 \in {0, 1} /\ m3 \in {0, 1}
      /\ m4 \in {0, 1} /\ m5 \in {0, 1} /\ m6 \in {0, 1} /\ m7 \in {0, 1}
      /\ h0 \in {0, 1} /\ h1 \in {0, 1} /\ h2 \in {0, 1} /\ h3 \in {0, 1}
      /\ h4 \in {0, 1} /\ h5 \in {0, 1} /\ h6 \in {0, 1} /\ h7 \in {0, 1}
  BY Zenon DEF Bits16
<1> DEFINE f0 == m0
           f1 == Odd(m1, f0)
           f2 == Odd(m2, f1)
           f3 == Odd(m3, f2)
           f4 == Odd(m4, f3)
           f5 == Odd(m5, f4)
           f6 == Odd(m6, f5)
           f7 == Odd(m7, f6)
<1>1. /\ f0 \in {0, 1} /\ f1 \in {0, 1} /\ f2 \in {0, 1} /\ f3 \in {0, 1}
      /\ f4 \in {0, 1} /\ f5 \in {0, 1} /\ f6 \in {0, 1} /\ f7 \in {0, 1}
  BY <1>0, OddBit
<1> HIDE DEF f0, f1, f2, f3, f4, f5, f6, f7
<1> DEFINE o6 == Odd(h6, f0)
           o7 == Odd(h7, f1)
           p0 == Odd(f0, f2)
           p1 == Odd(f1, f3)
           p2 == Odd(f2, f4)
           p3 == Odd(f3, f5)
           p4 == Odd(f4, f6)
           p5 == Odd(f5, f7)
<1>2. /\ o6 \in {0, 1} /\ o7 \in {0, 1} /\ p0 \in {0, 1} /\ p1 \in {0, 1}
      /\ p2 \in {0, 1} /\ p3 \in {0, 1} /\ p4 \in {0, 1} /\ p5 \in {0, 1}
  BY <1>0, <1>1, OddBit
<1> DEFINE w0 == Word16(m0, m1, m2, m3, m4, m5, m6, m7, h0, h1, h2, h3, h4, h5, h6, h7)
           w1 == Word16(f1, m2, m3, m4, m5, m6, m7, h0, h1, h2, h3, h4, h5, o6, h7, f0)
           w2 == Word16(f2, m3, m4, m5, m6, m7, h0, h1, h2, h3, h4, h5, o6, o7, f0, f1)
           w3 == Word16(f3, m4, m5, m6, m7, h0, h1, h2, h3, h4, h5, o6, o7, p0, f1, f2)
           w4 == Word16(f4, m5, m6, m7, h0, h1, h2, h3, h4, h5, o6, o7, p0, p1, f2, f3)
           w5 == Word16(f5, m6, m7, h0, h1, h2, h3, h4, h5, o6, o7, p0, p1, p2, f3, f4)
           w6 == Word16(f6, m7, h0, h1, h2, h3, h4, h5, o6, o7, p0, p1, p2, p3, f4, f5)
           w7 == Word16(f7, h0, h1, h2, h3, h4, h5, o6, o7, p0, p1, p2, p3, p4, f5, f6)
           w8 == Word16(Odd(h0, f7), h1, h2, h3, h4, h5, o6, o7, p0, p1, p2, p3, p4, p5, f6, f7)
<1> HIDE DEF f0, f1, f2, f3, f4, f5, f6, f7, o6, o7, p0, p1, p2, p3, p4, p5
<1>3. CrcShift(w0) = w1
  <2>1. Bits16(m0, m1, m2, m3, m4, m5, m6, m7, h0, h1, h2, h3, h4, h5, h6, h7)
    BY <1>0, <1>1, <1>2, Zenon DEF Bits16, f0
  <2>2. QED
    BY <2>1, ShiftBits DEF f0, f1, f2, f3, f4, f5, f6, f7, o6, o7, p0, p1, p2, p3, p4, p5
<1>4. CrcShift(w1) = w2
  <2>1. Bits16(f1, m2, m3, m4, m5, m6, m7, h0, h1, h2, h3, h4, h5, o6, h7, f0)
    BY <1>0, <1>1, <1>2, Zenon DEF Bits16, f0
  <2>2. QED
    BY <2>1, ShiftBits DEF f0, f1, f2, f3, f4, f5, f6, f7, o6, o7, p0, p1, p2, p3, p4, p5
<1>5. CrcShift(w2) = w3
  <2>1. Bits16(f2, m3, m4, m5, m6, m7, h0, h1, h2, h3, h4, h5, o6, o7, f0, f1)
    BY <1>0, <1>1, <1>2, Zenon DEF Bits16, f0
  <2>2. QED
    BY <2>1, ShiftBits DEF f0, f1, f2, f3, f4, f5, f6, f7, o6, o7, p0, p1, p2, p3, p4, p5
<1>6. CrcShift(w3) = w4
  <2>1. Bits16(f3, m4, m5, m6, m7, h0, h1, h2, h3, h4, h5, o6, o7, p0, f1, f2)
    BY <1>0, <1>1, <1>2, Zenon DEF Bits16, f0
  <2>2. QED
    BY <2>1, ShiftBits DEF f0, f1, f2, f3, f4, f5, f6, f7, o6, o7, p0, p1, p2, p3, p4, p5
<1>7. CrcShift(w4) = w5
  <2>1. Bits16(f4, m5, m6, m7, h0, h1, h2, h3, h4, h5, o6, o7, p0, p1, f2, f3)
    BY <1>0, <1>1, <1>2, Zenon DEF Bits16, f0
  <2>2. QED
    BY <2>1, ShiftBits DEF f0, f1, f2, f3, f4, f5, f6, f7, o6, o7, p0, p1, p2, p3, p4, p5
<1>8. CrcShift(w5) = w6
  <2>1. Bits16(f5, m6, m7, h0, h1, h2, h3, h4, h5, o6, o7, p0, p1, p2, f3, f4)
    BY <1>0, <1>1, <1>2, Zenon DEF Bits16, f0
  <2>2. QED
    BY <2>1, ShiftBits DEF f0, f1, f2, f3, f4, f5, f6, f7, o6, o7, p0, p1, p2, p3, p4, p5
<1>9. CrcShift(w6) = w7
  <2>1. Bits16(f6, m7, h0, h1, h2, h3, h4, h5, o6, o7, p0, p1, p2, p3, f4, f5)
    BY <1>0, <1>1, <1>2, Zenon DEF Bits16, f0
  <2>2. QED
    BY <2>1, ShiftBits DEF f0, f1, f2, f3, f4, f5, f6, f7, o6, o7, p0, p1, p2, p3, p4, p5
<1>10. CrcShift(w7) = w8
  <2>1. Bits16(f7, h0, h1, h2, h3, h4, h5, o6, o7, p0, p1, p2, p3, p4, f5, f6)
    BY <1>0, <1>1, <1>2, Zenon DEF Bits16, f0
  <2>2. QED
    BY <2>1, ShiftBits DEF f0, f1, f2, f3, f4, f5, f6, f7, o6, o7, p0, p1, p2, p3, p4, p5
<1> HIDE DEF w0, w1, w2, w3, w4, w5, w6, w7, w8
<1>11. QED
  BY <1>3, <1>4, <1>5, <1>6, <1>7, <1>8, <1>9, <1>10 DEF w0, w8,
     f0, f1, f2, f3, f4, f5, f6, f7, o6, o7, p0, p1, p2, p3, p4, p5

\* The register of the specification after a byte: eight shifts.
LEMMA ByBits ==
    \A c, byte : CrcByBits(c, byte) =
        CrcShift(CrcShift(CrcShift(CrcShift(CrcShift(CrcShift(CrcShift(CrcShift(
            XorWord(c, byte)))))))))
<1> TAKE c, byte
<1> DEFINE s0 == XorWord(c, byte)
           s1 == CrcShift(s0)
           s2 == CrcShift(s1)
           s3 == CrcShift(s2)
           s4 == CrcShift(s3)
           s5 == CrcShift(s4)
           s6 == CrcShift(s5)
           s7 == CrcShift(s6)
           s8 == CrcShift(s7)
           F(r) == [i \in 0 .. 8 |-> IF i = 0 THEN XorWord(c, byte) ELSE CrcShift(r[i - 1])]
           g == [i \in 0 .. 8 |->
                   IF i = 0 THEN s0 ELSE IF i = 1 THEN s1 ELSE IF i = 2 THEN s2
                   ELSE IF i = 3 THEN s3 ELSE IF i = 4 THEN s4 ELSE IF i = 5 THEN s5
                   ELSE IF i = 6 THEN s6 ELSE IF i = 7 THEN s7 ELSE s8]
           r == CHOOSE f : f = F(f)
<1>1. CrcByBits(c, byte) = r[8]
  BY Zenon DEF CrcByBits
<1>2. \E f : f = F(f)
  <2> HIDE DEF s0, s1, s2, s3, s4, s5, s6, s7, s8
  <2>1. /\ g[0] = s0 /\ g[1] = s1 /\ g[2] = s2 /\ g[3] = s3 /\ g[4] = s4
        /\ g[5] = s5 /\ g[6] = s6 /\ g[7] = s7 /\ g[8] = s8 /\ g = [i \in 0 .. 8 |-> g[i]]
    OBVIOUS
  <2> HIDE DEF g
  <2>2. ASSUME NEW i \in 0 .. 8 PROVE g[i] = IF i = 0 THEN XorWord(c, byte) ELSE CrcShift(g[i - 1])
    <3>1. \/ i = 0 \/ (i = 1 /\ i - 1 = 0) \/ (i = 2 /\ i - 1 = 1) \/ (i = 3 /\ i - 1 = 2)
          \/ (i = 4 /\ i - 1 = 3) \/ (i = 5 /\ i - 1 = 4) \/ (i = 6 /\ i - 1 = 5)
          \/ (i = 7 /\ i - 1 = 6) \/ (i = 8 /\ i - 1 = 7)
      OBVIOUS
    <3>2. QED
      BY <2>1, <3>1 DEF s0, s1, s2, s3, s4, s5, s6, s7, s8
  <2>3. g = F(g)
    BY <2>1, <2>2, Zenon
  <2>4. QED
    BY <2>3
<1>3. r = F(r)
  BY <1>2, Zenon
<1> HIDE DEF r
<1>4. /\ r[0] = XorWord(c, byte) /\ r[1] = CrcShift(r[0]) /\ r[2] = CrcShift(r[1])
      /\ r[3] = CrcShift(r[2]) /\ r[4] = CrcShift(r[3]) /\ r[5] = CrcShift(r[4])
      /\ r[6] = CrcShift(r[5]) /\ r[7] = CrcShift(r[6]) /\ r[8] = CrcShift(r[7])
  <2>1. \A i \in 0 .. 8 : r[i] = IF i = 0 THEN XorWord(c, byte) ELSE CrcShift(r[i - 1])
    BY <1>3, Zenon
  <2>2. QED
    BY <2>1
<1>5. QED
  BY <1>1, <1>4

\* One byte by the table is one byte by the register.
LEMMA ByTable == \A c \in Word, byte \in Byte : CrcStep(c, byte) = CrcByBits(c, byte)
<1> TAKE c \in Word, byte \in Byte
<1> DEFINE low == c % 256
           high == c \div 256
           x == Xor[low][byte]
<1>1. low \in Byte /\ high \in Byte /\ x \in Byte
  BY Halves, XorFacts
<1>2. XorWord(c, byte) = 256 * high + x
  <2>1. byte \div 256 = 0 /\ byte % 256 = byte
    BY DEF Byte
  <2>2. QED
    BY <1>1, <2>1, XorFacts DEF XorWord
<1> HIDE DEF low, high, x
<1> DEFINE m0 == BitOf(x, 0)
           m1 == BitOf(x, 1)
           m2 == BitOf(x, 2)
           m3 == BitOf(x, 3)
           m4 == BitOf(x, 4)
           m5 == BitOf(x, 5)
           m6 == BitOf(x, 6)
           m7 == BitOf(x, 7)
           h0 == BitOf(high, 0)
           h1 == BitOf(high, 1)
           h2 == BitOf(high, 2)
           h3 == BitOf(high, 3)
           h4 == BitOf(high, 4)
           h5 == BitOf(high, 5)
           h6 == BitOf(high, 6)
           h7 == BitOf(high, 7)
           f0 == m0
           f1 == Odd(m1, f0)
           f2 == Odd(m2, f1)
           f3 == Odd(m3, f2)
           f4 == Odd(m4, f3)
           f5 == Odd(m5, f4)
           f6 == Odd(m6, f5)
           f7 == Odd(m7, f6)
           t0 == Value(f7, 0, 0, 0, 0, 0, f0, f1)
           t1 == Value(Odd(f0, f2), Odd(f1, f3), Odd(f2, f4), Odd(f3, f5),
                       Odd(f4, f6), Odd(f5, f7), f6, f7)
<1>3. /\ m0 \in {0, 1} /\ m1 \in {0, 1} /\ m2 \in {0, 1} /\ m3 \in {0, 1}
      /\ m4 \in {0, 1} /\ m5 \in {0, 1} /\ m6 \in {0, 1} /\ m7 \in {0, 1}
      /\ x = Value(m0, m1, m2, m3, m4, m5, m6, m7)
  BY <1>1, Binary
<1>4. /\ h0 \in {0, 1} /\ h1 \in {0, 1} /\ h2 \in {0, 1} /\ h3 \in {0, 1}
      /\ h4 \in {0, 1} /\ h5 \in {0, 1} /\ h6 \in {0, 1} /\ h7 \in {0, 1}
      /\ high = Value(h0, h1, h2, h3, h4, h5, h6, h7)
  BY <1>1, Binary
<1> HIDE DEF m0, m1, m2, m3, m4, m5, m6, m7, h0, h1, h2, h3, h4, h5, h6, h7
<1>5. XorWord(c, byte) =
        Word16(m0, m1, m2, m3, m4, m5, m6, m7, h0, h1, h2, h3, h4, h5, h6, h7)
  BY <1>2, <1>3, <1>4 DEF Word16
<1>6. mb_crc_table[x + 1] = 256 * t1 + t0
  <2>1. mb_crc_table[x + 1] = TableEntry(m0, m1, m2, m3, m4, m5, m6, m7)
    BY <1>3, TableBits
  <2>2. QED
    BY <2>1 DEF TableEntry, Word16
<1>7. /\ f0 \in {0, 1} /\ f1 \in {0, 1} /\ f2 \in {0, 1} /\ f3 \in {0, 1}
      /\ f4 \in {0, 1} /\ f5 \in {0, 1} /\ f6 \in {0, 1} /\ f7 \in {0, 1}
  BY <1>3, OddBit
<1>8. CrcByBits(c, byte) =
        Word16(Odd(h0, f7), h1, h2, h3, h4, h5, Odd(h6, f0), Odd(h7, f1),
               Odd(f0, f2), Odd(f1, f3), Odd(f2, f4), Odd(f3, f5), Odd(f4, f6),
               Odd(f5, f7), f6, f7)
  <2>1. Bits16(m0, m1, m2, m3, m4, m5, m6, m7, h0, h1, h2, h3, h4, h5, h6, h7)
    BY <1>3, <1>4, Zenon DEF Bits16
  <2>2. QED
    BY <2>1, <1>5, ByBits, EightShifts
<1> HIDE DEF f0, f1, f2, f3, f4, f5, f6, f7
<1>9. /\ t0 \in Byte
      /\ BitOf(t0, 0) = f7 /\ BitOf(t0, 1) = 0 /\ BitOf(t0, 2) = 0 /\ BitOf(t0, 3) = 0
      /\ BitOf(t0, 4) = 0 /\ BitOf(t0, 5) = 0 /\ BitOf(t0, 6) = f0 /\ BitOf(t0, 7) = f1
  <2>1. 0 \in {0, 1}
    OBVIOUS
  <2>2. QED
    BY <1>7, <2>1, Digits
<1>10. t1 \in Byte
  BY <1>7, OddBit, Digits
<1> HIDE DEF t0, t1
<1>11. Xor[high][t0] = Value(Odd(h0, f7), h1, h2, h3, h4, h5, Odd(h6, f0), Odd(h7, f1))
  <2>1. Xor[high][t0] = Value(Odd(h0, f7), Odd(h1, 0), Odd(h2, 0), Odd(h3, 0), Odd(h4, 0),
                              Odd(h5, 0), Odd(h6, f0), Odd(h7, f1))
    BY <1>1, <1>9, XorBits DEF h0, h1, h2, h3, h4, h5, h6, h7
  <2>2. QED
    BY <1>4, <2>1 DEF Odd
<1>12. CrcStep(c, byte) = 256 * t1 + Xor[high][t0]
  <2>1. (256 * t1 + t0) % 256 = t0 /\ (256 * t1 + t0) \div 256 = t1
    BY <1>9, <1>10, WordBytes
  <2>2. PICK t : t = 256 * t1 + t0
    OBVIOUS
  <2>3. t % 256 = t0 /\ t \div 256 = t1
    BY <2>1, <2>2
  <2>4. t = mb_crc_table[Xor[c % 256][byte] + 1]
    BY <1>6, <2>2 DEF x, low
  <2>5. CrcStep(c, byte) = 256 * (t \div 256) + Xor[c \div 256][t % 256]
    BY <2>4 DEF CrcStep
  <2>6. QED
    BY <2>3, <2>5 DEF high
<1>13. QED
  BY <1>8, <1>11, <1>12 DEF Word16, t1

\* The length that a TCP frame announces fits its field.
LEMMA PduSize ==
    ASSUME NEW m \in Messages
    PROVE  Len(PduMake(m, m.type)) + 1 \in Word
<1>1. PICK n, w, d, x : /\ n = Len(PduMake(m, m.type)) /\ w = Len(m.words) /\ d = Len(m.data)
                        /\ x = IF Lay(m).data THEN 1 ELSE 0
  OBVIOUS
<1>2. n = 1 + 2 * w + x + d
  <2>1. Carries(PduMake(m, m.type), m)
    BY PduContent
  <2>2. QED
    BY <1>1, <2>1, Zenon DEF Carries
<1>3. x \in {0, 1}
  BY <1>1
<1>4. d \in Nat /\ d <= 255
  <2>1. m.data \in Seq(Byte) /\ Len(m.data) <= 255
    BY MessageAssumption
  <2>2. Len(m.data) \in Nat
    BY <2>1, LenProperties
  <2>3. QED
    BY <1>1, <2>1, <2>2, Zenon
<1>5. w \in {0, 2, 3, 4}
  <2>1. IF Lay(m) = Except THEN m.words = <<>> ELSE Len(m.words) = Lay(m).words
    BY MessageAssumption DEF Lay
  <2>2. CASE Lay(m) = Except
    BY <1>1, <2>1, <2>2
  <2>3. CASE Lay(m) # Except
    BY <1>1, <2>1, <2>3, LayoutCases
  <2>4. QED
    BY <2>2, <2>3
<1>6. n + 1 \in Word
  <2>1. w \in Nat /\ w <= 4 /\ x \in Nat /\ x <= 1
    BY <1>3, <1>5
  <2>2. n + 1 \in Nat /\ n + 1 <= 266
    BY <1>2, <1>4, <2>1
  <2>3. QED
    BY <2>2, InWord
<1>7. QED
  BY <1>1, <1>6

\* A frame is a sequence of bytes.
LEMMA FrameBytes ==
    ASSUME NEW f \in {"RTU", "TCP"}, NEW sa \in Byte, NEW tid \in Word, NEW m \in Messages
    PROVE  Bytes(MakeFrame(f, sa, tid, m), Len(MakeFrame(f, sa, tid, m)))
<1>1. CASE f = "RTU"
  <2>1. MakeFrame(f, sa, tid, m) = RtuMake(sa, m, m.type)
    BY <1>1 DEF MakeFrame
  <2>2. QED
    BY <2>1, RtuFrame
<1>2. CASE f = "TCP"
  <2> DEFINE p == PduMake(m, m.type)
             frame == U16Put(tid) \o U16Put(0) \o U16Put(Len(p) + 1) \o <<sa>> \o p
  <2>1. MakeFrame(f, sa, tid, m) = frame
    BY <1>2 DEF MakeFrame, TcpMake
  <2>2. p \in Seq(Byte) /\ Len(p) + 1 \in Word
    BY PduContent, PduSize DEF Carries
  <2> HIDE DEF p
  <2>3. \A v \in Word : U16Put(v) \in Seq(Byte)
    <3> TAKE v \in Word
    <3>1. v \div 256 \in Byte /\ v % 256 \in Byte
      BY Halves
    <3> DEFINE high == v \div 256
               low == v % 256
    <3> HIDE DEF high, low
    <3>2. <<high, low>> \in Seq(Byte)
      BY <3>1 DEF high, low
    <3>3. QED
      BY <3>2 DEF U16Put, high, low
  <2>4. 0 \in Word /\ <<sa>> \in Seq(Byte)
    BY InWord
  <2>5. frame \in Seq(Byte)
    BY <2>2, <2>3, <2>4, Concat
  <2> HIDE DEF frame
  <2>6. QED
    BY <2>1, <2>5 DEF Bytes
<1>3. QED
  BY <1>1, <1>2

\* Whatever frame is on the line: with every byte of it the table of
\* modbus_crc.c and its loop, in any number of parts, take the CRC where the
\* shift register of the specification takes it.
THEOREM CrcIsTheSpecified == Spec => []CrcAsSpecified
<1>1. Init => CutInv
  BY WireAssumption DEF Init, CutInv, Sent
<1>2. CutInv => CrcAsSpecified
  <2> SUFFICES ASSUME CutInv, fate = "whole", NEW i \in DOMAIN wire
               PROVE  Crc(wire, i) = CrcByBits(Crc(wire, i - 1), wire[i])
    BY DEF CrcAsSpecified
  <2>1. wire = Sent
    BY DEF CutInv
  <2> DEFINE whole == MakeFrame(msg.frame, msg.sa, msg.tid, msg.m)
  <2>2. Bytes(wire, Len(wire)) /\ wire \in Seq(Nat)
    <3>1. wire = whole
      BY <2>1 DEF Sent
    <3>2. /\ msg.frame \in {"RTU", "TCP"} /\ msg.sa \in Byte
          /\ msg.tid \in Word /\ msg.m \in Messages
      BY DEF CutInv
    <3>3. Bytes(whole, Len(whole)) /\ whole \in Seq(Nat)
      BY <3>2, FrameBytes, FrameType
    <3> HIDE DEF whole
    <3>4. QED
      BY <3>1, <3>3
  <2>3. i \in 1 .. Len(wire) /\ Len(wire) \in Nat
    BY <2>2
  <2>4. i - 1 \in 0 .. Len(wire) - 1 /\ i - 1 \in 0 .. Len(wire) /\ (i - 1) + 1 = i
    BY <2>3
  <2>5. wire[i] \in Byte
    BY <2>2, <2>3 DEF Bytes
  <2>6. Crc(wire, i - 1) \in Word /\ Crc(wire, i) = CrcStep(Crc(wire, i - 1), wire[i])
    BY <2>2, <2>4, CrcGrows
  <2>7. QED
    BY <2>5, <2>6, ByTable
<1>3. QED
  BY <1>1, <1>2, CutStep, PTL DEF Spec

-----------------------------------------------------------------------------
(* Damaged bytes.                                                          *)

\* A word has 16 bits, ...
IsWord16(c, a0, a1, a2, a3, a4, a5, a6, a7, b0, b1, b2, b3, b4, b5, b6, b7) ==
    /\ Bits16(a0, a1, a2, a3, a4, a5, a6, a7, b0, b1, b2, b3, b4, b5, b6, b7)
    /\ c = Word16(a0, a1, a2, a3, a4, a5, a6, a7, b0, b1, b2, b3, b4, b5, b6, b7)

LEMMA WordBits ==
    \A c \in Word :
      \E a0, a1, a2, a3, a4, a5, a6, a7, b0, b1, b2, b3, b4, b5, b6, b7 :
        IsWord16(c, a0, a1, a2, a3, a4, a5, a6, a7, b0, b1, b2, b3, b4, b5, b6, b7)
<1> TAKE c \in Word
<1> DEFINE x == c % 256
           y == c \div 256
           B(i) == BitOf(x, i)
           C(i) == BitOf(y, i)
<1>1. x \in Byte /\ y \in Byte
  BY Halves
<1>2. c = 256 * y + x
  BY Parts
<1> HIDE DEF x, y
<1>3. /\ B(0) \in {0, 1} /\ B(1) \in {0, 1} /\ B(2) \in {0, 1} /\ B(3) \in {0, 1}
      /\ B(4) \in {0, 1} /\ B(5) \in {0, 1} /\ B(6) \in {0, 1} /\ B(7) \in {0, 1}
      /\ x = Value(B(0), B(1), B(2), B(3), B(4), B(5), B(6), B(7))
  BY <1>1, Binary
<1>4. /\ C(0) \in {0, 1} /\ C(1) \in {0, 1} /\ C(2) \in {0, 1} /\ C(3) \in {0, 1}
      /\ C(4) \in {0, 1} /\ C(5) \in {0, 1} /\ C(6) \in {0, 1} /\ C(7) \in {0, 1}
      /\ y = Value(C(0), C(1), C(2), C(3), C(4), C(5), C(6), C(7))
  BY <1>1, Binary
<1> HIDE DEF B, C
<1>5. Bits16(B(0), B(1), B(2), B(3), B(4), B(5), B(6), B(7),
             C(0), C(1), C(2), C(3), C(4), C(5), C(6), C(7))
  BY <1>3, <1>4, Zenon DEF Bits16
<1>6. c = Word16(B(0), B(1), B(2), B(3), B(4), B(5), B(6), B(7),
                 C(0), C(1), C(2), C(3), C(4), C(5), C(6), C(7))
  BY <1>2, <1>3, <1>4, Zenon DEF Word16
<1>7. QED
  BY <1>5, <1>6, Zenon DEF IsWord16

\* ... which determine it and are determined by it.
LEMMA SameWord ==
    \A a0, a1, a2, a3, a4, a5, a6, a7, b0, b1, b2, b3, b4, b5, b6, b7,
       c0, c1, c2, c3, c4, c5, c6, c7, d0, d1, d2, d3, d4, d5, d6, d7 :
        /\ Bits16(a0, a1, a2, a3, a4, a5, a6, a7, b0, b1, b2, b3, b4, b5, b6, b7)
        /\ Bits16(c0, c1, c2, c3, c4, c5, c6, c7, d0, d1, d2, d3, d4, d5, d6, d7)
        /\ Word16(a0, a1, a2, a3, a4, a5, a6, a7, b0, b1, b2, b3, b4, b5, b6, b7) =
             Word16(c0, c1, c2, c3, c4, c5, c6, c7, d0, d1, d2, d3, d4, d5, d6, d7)
        => /\ a0 = c0 /\ a1 = c1 /\ a2 = c2 /\ a3 = c3 /\ a4 = c4 /\ a5 = c5 /\ a6 = c6 /\ a7 = c7
           /\ b0 = d0 /\ b1 = d1 /\ b2 = d2 /\ b3 = d3 /\ b4 = d4 /\ b5 = d5 /\ b6 = d6 /\ b7 = d7
<1> TAKE a0, a1, a2, a3, a4, a5, a6, a7, b0, b1, b2, b3, b4, b5, b6, b7,
         c0, c1, c2, c3, c4, c5, c6, c7, d0, d1, d2, d3, d4, d5, d6, d7
<1> DEFINE A == Value(a0, a1, a2, a3, a4, a5, a6, a7)
           B == Value(b0, b1, b2, b3, b4, b5, b6, b7)
           C == Value(c0, c1, c2, c3, c4, c5, c6, c7)
           D == Value(d0, d1, d2, d3, d4, d5, d6, d7)
<1> HAVE /\ Bits16(a0, a1, a2, a3, a4, a5, a6, a7, b0, b1, b2, b3, b4, b5, b6, b7)
         /\ Bits16(c0, c1, c2, c3, c4, c5, c6, c7, d0, d1, d2, d3, d4, d5, d6, d7)
         /\ Word16(a0, a1, a2, a3, a4, a5, a6, a7, b0, b1, b2, b3, b4, b5, b6, b7) =
              Word16(c0, c1, c2, c3, c4, c5, c6, c7, d0, d1, d2, d3, d4, d5, d6, d7)
<1>1. /\ a0 \in {0, 1} /\ a1 \in {0, 1} /\ a2 \in {0, 1} /\ a3 \in {0, 1}
      /\ a4 \in {0, 1} /\ a5 \in {0, 1} /\ a6 \in {0, 1} /\ a7 \in {0, 1}
  BY Zenon DEF Bits16
<1>2. /\ b0 \in {0, 1} /\ b1 \in {0, 1} /\ b2 \in {0, 1} /\ b3 \in {0, 1}
      /\ b4 \in {0, 1} /\ b5 \in {0, 1} /\ b6 \in {0, 1} /\ b7 \in {0, 1}
  BY Zenon DEF Bits16
<1>3. /\ c0 \in {0, 1} /\ c1 \in {0, 1} /\ c2 \in {0, 1} /\ c3 \in {0, 1}
      /\ c4 \in {0, 1} /\ c5 \in {0, 1} /\ c6 \in {0, 1} /\ c7 \in {0, 1}
  BY Zenon DEF Bits16
<1>4. /\ d0 \in {0, 1} /\ d1 \in {0, 1} /\ d2 \in {0, 1} /\ d3 \in {0, 1}
      /\ d4 \in {0, 1} /\ d5 \in {0, 1} /\ d6 \in {0, 1} /\ d7 \in {0, 1}
  BY Zenon DEF Bits16
<1>5. /\ A \in Byte
      /\ BitOf(A, 0) = a0 /\ BitOf(A, 1) = a1 /\ BitOf(A, 2) = a2 /\ BitOf(A, 3) = a3
      /\ BitOf(A, 4) = a4 /\ BitOf(A, 5) = a5 /\ BitOf(A, 6) = a6 /\ BitOf(A, 7) = a7
  BY <1>1, Digits
<1>6. /\ B \in Byte
      /\ BitOf(B, 0) = b0 /\ BitOf(B, 1) = b1 /\ BitOf(B, 2) = b2 /\ BitOf(B, 3) = b3
      /\ BitOf(B, 4) = b4 /\ BitOf(B, 5) = b5 /\ BitOf(B, 6) = b6 /\ BitOf(B, 7) = b7
  BY <1>2, Digits
<1>7. /\ C \in Byte
      /\ BitOf(C, 0) = c0 /\ BitOf(C, 1) = c1 /\ BitOf(C, 2) = c2 /\ BitOf(C, 3) = c3
      /\ BitOf(C, 4) = c4 /\ BitOf(C, 5) = c5 /\ BitOf(C, 6) = c6 /\ BitOf(C, 7) = c7
  BY <1>3, Digits
<1>8. /\ D \in Byte
      /\ BitOf(D, 0) = d0 /\ BitOf(D, 1) = d1 /\ BitOf(D, 2) = d2 /\ BitOf(D, 3) = d3
      /\ BitOf(D, 4) = d4 /\ BitOf(D, 5) = d5 /\ BitOf(D, 6) = d6 /\ BitOf(D, 7) = d7
  BY <1>4, Digits
<1>9. 256 * B + A = 256 * D + C
  BY DEF Word16
<1> HIDE DEF A, B, C, D
<1>10. A = C /\ B = D
  BY <1>5, <1>6, <1>7, <1>8, <1>9, WordBytes
<1>11. QED
  BY <1>5, <1>6, <1>7, <1>8, <1>10, Zenon

\* No two registers are shifted to the same one.
LEMMA ShiftOneToOne ==
    ASSUME NEW c \in Word, NEW d \in Word
    PROVE  /\ CrcShift(c) \in Word
           /\ CrcShift(c) = CrcShift(d) => c = d
<1>1. PICK a0, a1, a2, a3, a4, a5, a6, a7, b0, b1, b2, b3, b4, b5, b6, b7 :
        IsWord16(c, a0, a1, a2, a3, a4, a5, a6, a7, b0, b1, b2, b3, b4, b5, b6, b7)
  BY WordBits
<1>2. PICK c0, c1, c2, c3, c4, c5, c6, c7, d0, d1, d2, d3, d4, d5, d6, d7 :
        IsWord16(d, c0, c1, c2, c3, c4, c5, c6, c7, d0, d1, d2, d3, d4, d5, d6, d7)
  BY WordBits
<1> DEFINE o1 == Odd(a1, a0)
           o6 == Odd(b6, a0)
           p1 == Odd(c1, c0)
           p6 == Odd(d6, c0)
<1>3. /\ a0 \in {0, 1} /\ a1 \in {0, 1} /\ b6 \in {0, 1}
      /\ c0 \in {0, 1} /\ c1 \in {0, 1} /\ d6 \in {0, 1}
      /\ o1 \in {0, 1} /\ o6 \in {0, 1} /\ p1 \in {0, 1} /\ p6 \in {0, 1}
  <2>1. /\ a0 \in {0, 1} /\ a1 \in {0, 1} /\ b6 \in {0, 1}
        /\ c0 \in {0, 1} /\ c1 \in {0, 1} /\ d6 \in {0, 1}
    BY <1>1, <1>2, Zenon DEF Bits16, IsWord16
  <2>2. QED
    BY <2>1, OddBit
<1>4. CrcShift(c) = Word16(o1, a2, a3, a4, a5, a6, a7, b0, b1, b2, b3, b4, b5, o6, b7, a0)
  BY <1>1, ShiftBits DEF IsWord16
<1>5. CrcShift(d) = Word16(p1, c2, c3, c4, c5, c6, c7, d0, d1, d2, d3, d4, d5, p6, d7, c0)
  BY <1>2, ShiftBits DEF IsWord16
<1> HIDE DEF o1, o6, p1, p6
<1>6. Bits16(o1, a2, a3, a4, a5, a6, a7, b0, b1, b2, b3, b4, b5, o6, b7, a0)
  BY <1>1, <1>3, Zenon DEF Bits16, IsWord16
<1>7. Bits16(p1, c2, c3, c4, c5, c6, c7, d0, d1, d2, d3, d4, d5, p6, d7, c0)
  BY <1>2, <1>3, Zenon DEF Bits16, IsWord16
<1>8. CrcShift(c) \in Word
  <2> DEFINE low == Value(o1, a2, a3, a4, a5, a6, a7, b0)
             high == Value(b1, b2, b3, b4, b5, o6, b7, a0)
  <2>1. /\ o1 \in {0, 1} /\ a2 \in {0, 1} /\ a3 \in {0, 1} /\ a4 \in {0, 1}
        /\ a5 \in {0, 1} /\ a6 \in {0, 1} /\ a7 \in {0, 1} /\ b0 \in {0, 1}
    BY <1>6, Zenon DEF Bits16, IsWord16
  <2>2. /\ b1 \in {0, 1} /\ b2 \in {0, 1} /\ b3 \in {0, 1} /\ b4 \in {0, 1}
        /\ b5 \in {0, 1} /\ o6 \in {0, 1} /\ b7 \in {0, 1} /\ a0 \in {0, 1}
    BY <1>6, Zenon DEF Bits16, IsWord16
  <2>3. low \in Byte
    BY <2>1, Digits
  <2>4. high \in Byte
    BY <2>2, Digits
  <2>5. CrcShift(c) = 256 * high + low
    BY <1>4 DEF Word16
  <2> HIDE DEF low, high
  <2>6. QED
    BY <2>3, <2>4, <2>5, WordBytes
<1>9. ASSUME CrcShift(c) = CrcShift(d) PROVE c = d
  <2>1. /\ o1 = p1 /\ a2 = c2 /\ a3 = c3 /\ a4 = c4 /\ a5 = c5 /\ a6 = c6 /\ a7 = c7 /\ b0 = d0
        /\ b1 = d1 /\ b2 = d2 /\ b3 = d3 /\ b4 = d4 /\ b5 = d5 /\ o6 = p6 /\ b7 = d7 /\ a0 = c0
    BY <1>4, <1>5, <1>6, <1>7, <1>9, SameWord
  <2>2. a1 = c1 /\ b6 = d6
    BY <1>3, <2>1 DEF o1, o6, p1, p6, Odd
  <2>3. QED
    BY <1>1, <1>2, <2>1, <2>2, Zenon DEF IsWord16
<1>10. QED
  BY <1>8, <1>9

\* Nor are two bytes added to a third with the same result.
LEMMA XorOneToOne ==
    \A x, y, u, v \in Byte :
        Xor[x][y] = Xor[u][v] /\ (x = u \/ y = v) => x = u /\ y = v
<1> TAKE x, y, u, v \in Byte
<1> HAVE Xor[x][y] = Xor[u][v] /\ (x = u \/ y = v)
<1> DEFINE a(i) == BitOf(x, i)
           b(i) == BitOf(y, i)
           c(i) == BitOf(u, i)
           d(i) == BitOf(v, i)
           o(i) == Odd(a(i), b(i))
           p(i) == Odd(c(i), d(i))
<1>1. /\ a(0) \in {0, 1} /\ a(1) \in {0, 1} /\ a(2) \in {0, 1} /\ a(3) \in {0, 1}
      /\ a(4) \in {0, 1} /\ a(5) \in {0, 1} /\ a(6) \in {0, 1} /\ a(7) \in {0, 1}
      /\ x = Value(a(0), a(1), a(2), a(3), a(4), a(5), a(6), a(7))
  BY Binary
<1>2. /\ b(0) \in {0, 1} /\ b(1) \in {0, 1} /\ b(2) \in {0, 1} /\ b(3) \in {0, 1}
      /\ b(4) \in {0, 1} /\ b(5) \in {0, 1} /\ b(6) \in {0, 1} /\ b(7) \in {0, 1}
      /\ y = Value(b(0), b(1), b(2), b(3), b(4), b(5), b(6), b(7))
  BY Binary
<1>3. /\ c(0) \in {0, 1} /\ c(1) \in {0, 1} /\ c(2) \in {0, 1} /\ c(3) \in {0, 1}
      /\ c(4) \in {0, 1} /\ c(5) \in {0, 1} /\ c(6) \in {0, 1} /\ c(7) \in {0, 1}
      /\ u = Value(c(0), c(1), c(2), c(3), c(4), c(5), c(6), c(7))
  BY Binary
<1>4. /\ d(0) \in {0, 1} /\ d(1) \in {0, 1} /\ d(2) \in {0, 1} /\ d(3) \in {0, 1}
      /\ d(4) \in {0, 1} /\ d(5) \in {0, 1} /\ d(6) \in {0, 1} /\ d(7) \in {0, 1}
      /\ v = Value(d(0), d(1), d(2), d(3), d(4), d(5), d(6), d(7))
  BY Binary
<1>5. Xor[x][y] = Value(o(0), o(1), o(2), o(3), o(4), o(5), o(6), o(7))
  BY XorBits
<1>6. Xor[u][v] = Value(p(0), p(1), p(2), p(3), p(4), p(5), p(6), p(7))
  BY XorBits
<1> HIDE DEF a, b, c, d
<1>7. /\ o(0) \in {0, 1} /\ o(1) \in {0, 1} /\ o(2) \in {0, 1} /\ o(3) \in {0, 1}
      /\ o(4) \in {0, 1} /\ o(5) \in {0, 1} /\ o(6) \in {0, 1} /\ o(7) \in {0, 1}
  BY <1>1, <1>2, OddBit
<1>8. /\ p(0) \in {0, 1} /\ p(1) \in {0, 1} /\ p(2) \in {0, 1} /\ p(3) \in {0, 1}
      /\ p(4) \in {0, 1} /\ p(5) \in {0, 1} /\ p(6) \in {0, 1} /\ p(7) \in {0, 1}
  BY <1>3, <1>4, OddBit
<1> HIDE DEF o, p
<1>9. /\ o(0) = p(0) /\ o(1) = p(1) /\ o(2) = p(2) /\ o(3) = p(3)
      /\ o(4) = p(4) /\ o(5) = p(5) /\ o(6) = p(6) /\ o(7) = p(7)
  <2> DEFINE s == Xor[x][y]
  <2>1. /\ BitOf(s, 0) = o(0) /\ BitOf(s, 1) = o(1) /\ BitOf(s, 2) = o(2) /\ BitOf(s, 3) = o(3)
        /\ BitOf(s, 4) = o(4) /\ BitOf(s, 5) = o(5) /\ BitOf(s, 6) = o(6) /\ BitOf(s, 7) = o(7)
    BY <1>5, <1>7, Digits
  <2>2. /\ BitOf(s, 0) = p(0) /\ BitOf(s, 1) = p(1) /\ BitOf(s, 2) = p(2) /\ BitOf(s, 3) = p(3)
        /\ BitOf(s, 4) = p(4) /\ BitOf(s, 5) = p(5) /\ BitOf(s, 6) = p(6) /\ BitOf(s, 7) = p(7)
    BY <1>6, <1>8, Digits
  <2>3. QED
    BY <2>1, <2>2, Zenon
<1>10. \A r, s, t \in {0, 1} : /\ Odd(r, s) = Odd(r, t) => s = t
                               /\ Odd(s, r) = Odd(t, r) => s = t
  BY DEF Odd
<1>11. CASE x = u
  <2>1. \A i : a(i) = c(i)
    BY <1>11 DEF a, c
  <2>2. /\ b(0) = d(0) /\ b(1) = d(1) /\ b(2) = d(2) /\ b(3) = d(3)
        /\ b(4) = d(4) /\ b(5) = d(5) /\ b(6) = d(6) /\ b(7) = d(7)
    BY <1>1, <1>2, <1>4, <1>9, <1>10, <2>1 DEF o, p
  <2>3. QED
    BY <1>2, <1>4, <1>11, <2>2, Zenon
<1>12. CASE y = v
  <2>1. \A i : b(i) = d(i)
    BY <1>12 DEF b, d
  <2>2. /\ a(0) = c(0) /\ a(1) = c(1) /\ a(2) = c(2) /\ a(3) = c(3)
        /\ a(4) = c(4) /\ a(5) = c(5) /\ a(6) = c(6) /\ a(7) = c(7)
    BY <1>1, <1>2, <1>3, <1>9, <1>10, <2>1 DEF o, p
  <2>3. QED
    BY <1>1, <1>3, <1>12, <2>2, Zenon
<1>13. QED
  BY <1>11, <1>12

\* Of two bytes that one byte each was added to, the registers tell the sums.
LEMMA StepTells ==
    ASSUME NEW c \in Word, NEW d \in Word, NEW x \in Byte, NEW y \in Byte,
           CrcStep(c, x) = CrcStep(d, y)
    PROVE  c \div 256 = d \div 256 /\ Xor[c % 256][x] = Xor[d % 256][y]
<1> DEFINE S(w) == CrcShift(w)
           v == XorWord(c, x)
           w == XorWord(d, y)
<1>1. \A b \in Byte : b \div 256 = 0 /\ b % 256 = b
  BY DEF Byte
<1>2. /\ c % 256 \in Byte /\ c \div 256 \in Byte /\ d % 256 \in Byte /\ d \div 256 \in Byte
      /\ Xor[c % 256][x] \in Byte /\ Xor[d % 256][y] \in Byte
  BY Halves, XorFacts
<1>3. /\ v = 256 * (c \div 256) + Xor[c % 256][x]
      /\ w = 256 * (d \div 256) + Xor[d % 256][y]
  BY <1>1, <1>2, XorFacts DEF XorWord
<1>4. v \in Word /\ w \in Word
  BY <1>2, <1>3, WordBytes
<1>5. S(S(S(S(S(S(S(S(v)))))))) = S(S(S(S(S(S(S(S(w))))))))
  BY ByTable, ByBits
<1> HIDE DEF v, w
<1>6. v = w
  <2>1. \A r \in Word : CrcShift(r) \in Word
    BY ShiftOneToOne
  <2>2. \A r, s \in Word : CrcShift(r) = CrcShift(s) => r = s
    BY ShiftOneToOne
  <2>3. QED
    BY <1>4, <1>5, <2>1, <2>2
<1>7. QED
  BY <1>2, <1>3, <1>6, WordBytes

\* So the registers differ after two bytes that differ, and they stay
\* different over bytes that do not.
LEMMA StepOneToOne ==
    \A c, d \in Word, x, y \in Byte :
        CrcStep(c, x) = CrcStep(d, y) /\ (c = d \/ x = y) => c = d /\ x = y
<1> TAKE c, d \in Word, x, y \in Byte
<1> HAVE CrcStep(c, x) = CrcStep(d, y) /\ (c = d \/ x = y)
<1>1. c % 256 \in Byte /\ d % 256 \in Byte
  BY Halves
<1>2. c \div 256 = d \div 256 /\ Xor[c % 256][x] = Xor[d % 256][y]
  BY StepTells
<1>3. c % 256 = d % 256 /\ x = y
  BY <1>1, <1>2, XorOneToOne
<1>4. c = 256 * (c \div 256) + (c % 256) /\ d = 256 * (d \div 256) + (d % 256)
  BY Parts
<1>5. QED
  BY <1>2, <1>3, <1>4

\* No two entries of the table have the same high byte.
LEMMA HighBytes ==
    \A x, y \in Byte :
        mb_crc_table[x + 1] \div 256 = mb_crc_table[y + 1] \div 256 => x = y
<1> DEFINE f0(z) == BitOf(z, 0)
           f1(z) == Odd(BitOf(z, 1), f0(z))
           f2(z) == Odd(BitOf(z, 2), f1(z))
           f3(z) == Odd(BitOf(z, 3), f2(z))
           f4(z) == Odd(BitOf(z, 4), f3(z))
           f5(z) == Odd(BitOf(z, 5), f4(z))
           f6(z) == Odd(BitOf(z, 6), f5(z))
           f7(z) == Odd(BitOf(z, 7), f6(z))
           low(z) == Value(f7(z), 0, 0, 0, 0, 0, f0(z), f1(z))
           high(z) == Value(Odd(f0(z), f2(z)), Odd(f1(z), f3(z)), Odd(f2(z), f4(z)),
                            Odd(f3(z), f5(z)), Odd(f4(z), f6(z)), Odd(f5(z), f7(z)),
                            f6(z), f7(z))
<1>1. ASSUME NEW z \in Byte
      PROVE  /\ BitOf(z, 0) \in {0, 1} /\ BitOf(z, 1) \in {0, 1}
             /\ BitOf(z, 2) \in {0, 1} /\ BitOf(z, 3) \in {0, 1}
             /\ BitOf(z, 4) \in {0, 1} /\ BitOf(z, 5) \in {0, 1}
             /\ BitOf(z, 6) \in {0, 1} /\ BitOf(z, 7) \in {0, 1}
             /\ z = Value(BitOf(z, 0), BitOf(z, 1), BitOf(z, 2), BitOf(z, 3),
                          BitOf(z, 4), BitOf(z, 5), BitOf(z, 6), BitOf(z, 7))
  BY Binary
<1>2. ASSUME NEW z \in Byte
      PROVE  /\ f0(z) \in {0, 1} /\ f1(z) \in {0, 1} /\ f2(z) \in {0, 1} /\ f3(z) \in {0, 1}
             /\ f4(z) \in {0, 1} /\ f5(z) \in {0, 1} /\ f6(z) \in {0, 1} /\ f7(z) \in {0, 1}
  BY <1>1, OddBit
<1>3. ASSUME NEW z \in Byte PROVE mb_crc_table[z + 1] = 256 * high(z) + low(z)
  <2>1. mb_crc_table[z + 1] =
          TableEntry(BitOf(z, 0), BitOf(z, 1), BitOf(z, 2), BitOf(z, 3),
                     BitOf(z, 4), BitOf(z, 5), BitOf(z, 6), BitOf(z, 7))
    BY <1>1, TableBits
  <2>2. QED
    BY <2>1 DEF TableEntry, Word16
<1> HIDE DEF f0, f1, f2, f3, f4, f5, f6, f7
<1>4. ASSUME NEW z \in Byte
      PROVE  /\ high(z) \in Byte
             /\ BitOf(high(z), 0) = Odd(f0(z), f2(z)) /\ BitOf(high(z), 1) = Odd(f1(z), f3(z))
             /\ BitOf(high(z), 2) = Odd(f2(z), f4(z)) /\ BitOf(high(z), 3) = Odd(f3(z), f5(z))
             /\ BitOf(high(z), 4) = Odd(f4(z), f6(z)) /\ BitOf(high(z), 5) = Odd(f5(z), f7(z))
             /\ BitOf(high(z), 6) = f6(z) /\ BitOf(high(z), 7) = f7(z)
  BY <1>2, OddBit, Digits
<1>5. ASSUME NEW z \in Byte PROVE low(z) \in Byte
  <2>1. 0 \in {0, 1}
    OBVIOUS
  <2>2. QED
    BY <1>2, <2>1, Digits
<1> HIDE DEF low, high
<1>6. ASSUME NEW z \in Byte PROVE mb_crc_table[z + 1] \div 256 = high(z)
  BY <1>3, <1>4, <1>5, WordBytes
<1> TAKE x, y \in Byte
<1> HAVE mb_crc_table[x + 1] \div 256 = mb_crc_table[y + 1] \div 256
<1>7. high(x) = high(y)
  BY <1>6
<1>8. \A r, s, t \in {0, 1} : Odd(s, r) = Odd(t, r) => s = t
  BY DEF Odd
<1>9. f7(x) = f7(y) /\ f6(x) = f6(y)
  BY <1>4, <1>7
<1>10. f5(x) = f5(y) /\ f4(x) = f4(y)
  <2>1. Odd(f5(x), f7(x)) = Odd(f5(y), f7(y)) /\ Odd(f4(x), f6(x)) = Odd(f4(y), f6(y))
    BY <1>4, <1>7
  <2>2. QED
    BY <1>2, <1>8, <1>9, <2>1
<1>11. f3(x) = f3(y) /\ f2(x) = f2(y)
  <2>1. Odd(f3(x), f5(x)) = Odd(f3(y), f5(y)) /\ Odd(f2(x), f4(x)) = Odd(f2(y), f4(y))
    BY <1>4, <1>7
  <2>2. QED
    BY <1>2, <1>8, <1>10, <2>1
<1>12. f1(x) = f1(y) /\ f0(x) = f0(y)
  <2>1. Odd(f1(x), f3(x)) = Odd(f1(y), f3(y)) /\ Odd(f0(x), f2(x)) = Odd(f0(y), f2(y))
    BY <1>4, <1>7
  <2>2. QED
    BY <1>2, <1>8, <1>11, <2>1
<1>13. /\ BitOf(x, 0) = BitOf(y, 0) /\ BitOf(x, 1) = BitOf(y, 1)
       /\ BitOf(x, 2) = BitOf(y, 2) /\ BitOf(x, 3) = BitOf(y, 3)
       /\ BitOf(x, 4) = BitOf(y, 4) /\ BitOf(x, 5) = BitOf(y, 5)
       /\ BitOf(x, 6) = BitOf(y, 6) /\ BitOf(x, 7) = BitOf(y, 7)
  <2>1. ASSUME NEW z \in Byte
        PROVE  /\ f0(z) = BitOf(z, 0)             /\ f1(z) = Odd(BitOf(z, 1), f0(z))
               /\ f2(z) = Odd(BitOf(z, 2), f1(z)) /\ f3(z) = Odd(BitOf(z, 3), f2(z))
               /\ f4(z) = Odd(BitOf(z, 4), f3(z)) /\ f5(z) = Odd(BitOf(z, 5), f4(z))
               /\ f6(z) = Odd(BitOf(z, 6), f5(z)) /\ f7(z) = Odd(BitOf(z, 7), f6(z))
    BY Zenon DEF f0, f1, f2, f3, f4, f5, f6, f7
  <2>2. QED
    BY <1>1, <1>2, <1>8, <1>9, <1>10, <1>11, <1>12, <2>1
<1>14. QED
  BY <1>1, <1>13, Zenon

\* So of two bytes in turn the register tells the first, whatever the second.
LEMMA TwoSteps ==
    \A c \in Word, x, y, u, v \in Byte :
        CrcStep(CrcStep(c, x), y) = CrcStep(CrcStep(c, u), v) => x = u
<1> TAKE c \in Word
<1> DEFINE entry(z) == mb_crc_table[Xor[c % 256][z] + 1]
<1>1. c % 256 \in Byte /\ c \div 256 \in Byte
  BY Halves
<1>2. ASSUME NEW z \in Byte
      PROVE  Xor[c % 256][z] \in Byte /\ CrcStep(c, z) \div 256 = entry(z) \div 256
  <2>1. Xor[c % 256][z] \in Byte
    BY <1>1, XorFacts
  <2>2. PICK t : t = mb_crc_table[Xor[c % 256][z] + 1]
    OBVIOUS
  <2>3. t \in Word
    <3>1. Xor[c % 256][z] + 1 \in 1 .. 256
      BY <2>1, InByte
    <3>2. QED
      BY <2>2, <3>1, TableType
  <2>4. t \div 256 \in Byte /\ t % 256 \in Byte
    BY <2>3, Halves
  <2>5. Xor[c \div 256][t % 256] \in Byte
    BY <1>1, <2>4, XorFacts
  <2>6. CrcStep(c, z) = 256 * (t \div 256) + Xor[c \div 256][t % 256]
    BY <2>2 DEF CrcStep
  <2>7. CrcStep(c, z) \div 256 = t \div 256
    BY <2>4, <2>5, <2>6, WordBytes
  <2>8. QED
    BY <2>1, <2>2, <2>7
<1> TAKE x, y, u, v \in Byte
<1> HAVE CrcStep(CrcStep(c, x), y) = CrcStep(CrcStep(c, u), v)
<1>3. CrcStep(c, x) \div 256 = CrcStep(c, u) \div 256
  <2>1. CrcStep(c, x) \in Word /\ CrcStep(c, u) \in Word
    BY StepType
  <2>2. QED
    BY <2>1, StepTells
<1>4. Xor[c % 256][x] = Xor[c % 256][u]
  BY <1>2, <1>3, HighBytes
<1>5. QED
  BY <1>1, <1>4, XorOneToOne

\* Of a byte onto the next the CRC takes one step.
LEMMA CrcNext ==
    ASSUME NEW len, NEW a, Bytes(a, len), NEW n \in 1 .. len
    PROVE  /\ n - 1 \in 0 .. len /\ Crc(a, n - 1) \in Word /\ a[n] \in Byte
           /\ Crc(a, n) = CrcStep(Crc(a, n - 1), a[n])
<1>1. len \in Nat
  BY DEF Bytes
<1>2. n - 1 \in 0 .. len - 1 /\ n - 1 \in 0 .. len /\ (n - 1) + 1 = n
  BY <1>1
<1>3. a[n] \in Byte
  BY DEF Bytes
<1>4. QED
  BY <1>2, <1>3, CrcGrows

\* Over the same bytes two registers that differ stay different.
LEMMA StayDifferent ==
    ASSUME NEW len, NEW a, NEW b, Bytes(a, len), Bytes(b, len), NEW k \in 1 .. len,
           Crc(a, k) # Crc(b, k), \A i \in 1 .. len : i > k => a[i] = b[i]
    PROVE  Crc(a, len) # Crc(b, len)
<1>1. len \in Nat
  BY DEF Bytes
<1> DEFINE S == {n \in Nat : k + n <= len => Crc(a, k + n) # Crc(b, k + n)}
<1>2. 0 \in S
  <2>1. k + 0 = k
    BY <1>1
  <2>2. QED
    BY <2>1
<1>3. ASSUME NEW n \in Nat, n \in S PROVE n + 1 \in S
  <2> SUFFICES ASSUME k + (n + 1) <= len PROVE Crc(a, k + (n + 1)) # Crc(b, k + (n + 1))
    OBVIOUS
  <2>1. /\ k + (n + 1) \in 1 .. len /\ k + (n + 1) > k /\ k + n <= len
        /\ (k + (n + 1)) - 1 = k + n
    BY <1>1
  <2>2. Crc(a, k + n) # Crc(b, k + n)
    BY <1>3, <2>1
  <2> DEFINE j == k + (n + 1)
  <2>3. j \in 1 .. len /\ a[j] = b[j] /\ Crc(a, j - 1) # Crc(b, j - 1)
    BY <2>1, <2>2
  <2> HIDE DEF j
  <2>4. Crc(a, j) # Crc(b, j)
    BY <2>3, CrcNext, StepOneToOne
  <2>5. QED
    BY <2>4 DEF j
<1> HIDE DEF S
<1>4. Nat \subseteq S
  BY <1>2, <1>3, ByInduction
<1>5. len - k \in Nat /\ k + (len - k) = len
  BY <1>1
<1>6. QED
  BY <1>1, <1>4, <1>5 DEF S

\* Two sequences that differ in byte k, and but for the byte behind it in no
\* other.
Damaged(a, b, len, k) ==
    /\ Bytes(a, len) /\ Bytes(b, len) /\ k \in 1 .. len /\ a[k] # b[k]
    /\ \A i \in 1 .. len : i \notin {k, k + 1} => a[i] = b[i]

\* They differ in their CRC.
LEMMA DifferentCrc ==
    ASSUME NEW len, NEW a, NEW b, NEW k, Damaged(a, b, len, k)
    PROVE  Crc(a, len) # Crc(b, len)
<1>1. len \in Nat /\ k \in 1 .. len /\ Bytes(a, len) /\ Bytes(b, len)
  BY DEF Damaged, Bytes
<1>2. Crc(a, k - 1) = Crc(b, k - 1)
  <2>1. k - 1 \in Nat /\ \A i \in 1 .. k - 1 : i \in 1 .. len /\ i \notin {k, k + 1}
    BY <1>1
  <2>2. Bytes(b, k - 1) /\ \A i \in 1 .. k - 1 : a[i] = b[i]
    BY <1>1, <2>1 DEF Damaged, Bytes
  <2>3. QED
    BY <2>2, CrcSame
<1>3. /\ Crc(a, k - 1) \in Word /\ a[k] \in Byte /\ b[k] \in Byte /\ a[k] # b[k]
      /\ Crc(a, k) = CrcStep(Crc(a, k - 1), a[k])
      /\ Crc(b, k) = CrcStep(Crc(b, k - 1), b[k])
  BY <1>1, CrcNext DEF Damaged
<1>4. Crc(a, k) # Crc(b, k)
  BY <1>2, <1>3, StepOneToOne
<1>5. CASE k = len
  BY <1>4, <1>5
<1>6. CASE k # len
  <2> DEFINE j == k + 1
  <2>1. j \in 1 .. len /\ j - 1 = k
    BY <1>1, <1>6
  <2> HIDE DEF j
  <2>2. /\ a[j] \in Byte /\ b[j] \in Byte
        /\ Crc(a, j) = CrcStep(Crc(a, k), a[j]) /\ Crc(b, j) = CrcStep(Crc(b, k), b[j])
    BY <1>1, <2>1, CrcNext
  <2>3. Crc(a, j) # Crc(b, j)
    BY <1>2, <1>3, <2>2, TwoSteps
  <2>4. \A i \in 1 .. len : i > j => a[i] = b[i]
    <3>1. \A i \in 1 .. len : i > j => i \notin {k, k + 1}
      BY <1>1 DEF j
    <3>2. QED
      BY <3>1 DEF Damaged
  <2>5. QED
    BY <1>1, <2>1, <2>3, <2>4, StayDifferent
<1>7. QED
  BY <1>5, <1>6

\* A byte of the frame, or two neighbours, have become others, but what tells
\* its length has not.
LEMMA DamagedIsBad ==
    ASSUME NEW m \in Messages, NEW sa \in Byte, NEW b, NEW k,
           Len(b) = Len(RtuMake(sa, m, m.type)),
           Damaged(b, RtuMake(sa, m, m.type), Len(b), k),
           b[2] = RtuMake(sa, m, m.type)[2],
           Lay(m).data => b[Fixed(Lay(m)) + 2] = RtuMake(sa, m, m.type)[Fixed(Lay(m)) + 2]
    PROVE  RtuParse(b, m.type) = 0
<1> DEFINE p == PduMake(m, m.type)
           n == Len(p)
           f == RtuMake(sa, m, m.type)
<1>1. /\ f \in Seq(Nat) /\ Len(f) = n + 3
      /\ \A i \in 1 .. n : f[1 + i] = p[i]
      /\ Bytes(f, n + 3) /\ Crc(f, n + 3) = 0
  BY RtuFrame
<1>2. n \in Nat /\ n >= 2 /\ PduParse(f, 1, n, m.type) = n
  <2>1. n \in Nat
    BY PduShape
  <2>2. Holds(f, 1, p)
    BY <1>1 DEF Holds
  <2>3. n >= Len(p)
    BY <2>1
  <2> HIDE DEF f
  <2>4. QED
    BY <2>1, <2>2, <2>3, PduParsed
<1> HIDE DEF p, n, f
<1>3. Len(b) = n + 3 /\ Damaged(b, f, n + 3, k)
  BY <1>1 DEF f
<1>4. Crc(b, n + 3) # 0
  <2>1. Crc(b, n + 3) # Crc(f, n + 3)
    <3> DEFINE len == n + 3
    <3>1. Damaged(b, f, len, k)
      BY <1>3
    <3> HIDE DEF len
    <3>2. Crc(b, len) # Crc(f, len)
      BY <3>1, DifferentCrc
    <3>3. QED
      BY <3>2 DEF len
  <2>2. QED
    BY <1>1, <2>1
<1>5. PduParse(b, 1, n, m.type) = n
  <2>1. f[1 + 1] = m.fc
    <3>1. p[1] = m.fc /\ 1 \in 1 .. n
      BY <1>2, PduShape DEF p
    <3>2. QED
      BY <1>1, <3>1
  <2>2. b[1 + 1] = f[1 + 1]
    BY DEF f
  <2>3. LayoutOf(b[1 + 1], m.type) = Lay(m) /\ LayoutOf(f[1 + 1], m.type) = Lay(m)
    BY <2>1, <2>2 DEF Lay
  <2>4. Fixed(Lay(m)) \in Nat
    BY LayoutCases
  <2>5. 1 + Fixed(Lay(m)) + 1 = Fixed(Lay(m)) + 2
    BY <2>4
  <2>6. Lay(m).data => b[1 + Fixed(Lay(m)) + 1] = f[1 + Fixed(Lay(m)) + 1]
    BY <2>5 DEF f
  <2>7. PduParse(b, 1, n, m.type) = PduParse(f, 1, n, m.type)
    <3> DEFINE L == Lay(m)
               len(s) == IF L = NoLayout THEN -1
                         ELSE IF n < MinLen(L) THEN 0
                         ELSE IF L.data THEN Fixed(L) + 1 + s[1 + Fixed(L) + 1] ELSE Fixed(L)
    <3>1. PduParse(b, 1, n, m.type) = len(b) /\ PduParse(f, 1, n, m.type) = len(f)
      BY <2>3 DEF PduParse
    <3>2. len(b) = len(f)
      BY <2>6
    <3>3. QED
      BY <3>1, <3>2
  <2>8. QED
    BY <1>2, <2>7
<1>6. RtuParse(b, m.type) =
        IF Len(b) < 5 THEN 0
        ELSE IF n <= 0 THEN n
        ELSE IF Len(b) - 3 < n \/ Crc(b, RtuSize(n)) # 0 THEN 0 ELSE n
  <2>1. Len(b) - 3 = n
    BY <1>2, <1>3
  <2>2. QED
    BY <1>5, <2>1, Zenon DEF RtuParse
<1>7. QED
  BY <1>2, <1>3, <1>4, <1>6 DEF RtuSize

\* What the line leaves of a frame it disturbs, and what the receiver makes of
\* it.
FlipInv ==
    /\ CutInv
    /\ fate = "flipped" =>
         /\ msg.frame = "RTU" /\ Len(wire) = Len(Sent)
         /\ \E k \in 1 .. Len(Sent) : Damaged(wire, Sent, Len(wire), k)
    /\ DamagedFrameIsBad

\* One element of a sequence is replaced.
LEMMA OneReplaced ==
    \A s \in Seq(Nat) : \A k \in 1 .. Len(s), y \in Nat :
        /\ [s EXCEPT ![k] = y] \in Seq(Nat) /\ Len([s EXCEPT ![k] = y]) = Len(s)
        /\ \A i \in 1 .. Len(s) : [s EXCEPT ![k] = y][i] = IF i = k THEN y ELSE s[i]
<1> TAKE s \in Seq(Nat)
<1> TAKE k \in 1 .. Len(s), y \in Nat
<1> QED
  BY ExceptSeq

\* So are two.
LEMMA TwoReplaced ==
    \A s \in Seq(Nat) : \A k, j \in 1 .. Len(s), y, z \in Nat :
        /\ Len([s EXCEPT ![k] = y, ![j] = z]) = Len(s)
        /\ \A i \in 1 .. Len(s) :
             [s EXCEPT ![k] = y, ![j] = z][i] = IF i = j THEN z ELSE IF i = k THEN y ELSE s[i]
<1> TAKE s \in Seq(Nat)
<1> TAKE k, j \in 1 .. Len(s), y, z \in Nat
<1> DEFINE g == [s EXCEPT ![k] = y]
<1>1. /\ g \in Seq(Nat) /\ Len(g) = Len(s)
      /\ \A i \in 1 .. Len(s) : g[i] = IF i = k THEN y ELSE s[i]
  BY OneReplaced
<1> HIDE DEF g
<1>2. /\ Len([g EXCEPT ![j] = z]) = Len(g)
      /\ \A i \in 1 .. Len(g) : [g EXCEPT ![j] = z][i] = IF i = j THEN z ELSE g[i]
  <2>1. j \in 1 .. Len(g) /\ g \in Seq(Nat)
    BY <1>1
  <2>2. QED
    BY <2>1, OneReplaced
<1>3. QED
  BY <1>1, <1>2 DEF g

\* A byte of a frame becomes another one, ...
LEMMA ByteDamaged ==
    \A f \in Seq(Nat) : Bytes(f, Len(f)) =>
      \A k \in 1 .. Len(f), y \in Byte : y # f[k] =>
        Len([f EXCEPT ![k] = y]) = Len(f) /\ Damaged([f EXCEPT ![k] = y], f, Len(f), k)
<1> TAKE f \in Seq(Nat)
<1> HAVE Bytes(f, Len(f))
<1> TAKE k \in 1 .. Len(f), y \in Byte
<1> HAVE y # f[k]
<1> DEFINE b == [f EXCEPT ![k] = y]
<1>1. Len(b) = Len(f) /\ \A i \in 1 .. Len(f) : b[i] = IF i = k THEN y ELSE f[i]
  BY Numbers, ExceptSeq
<1> HIDE DEF b
<1>2. Damaged(b, f, Len(f), k)
  BY <1>1 DEF Damaged, Bytes
<1>3. QED
  BY <1>1, <1>2 DEF b

\* ... or one of two neighbours does.
LEMMA PairDamaged ==
    \A f \in Seq(Nat) : Bytes(f, Len(f)) =>
      \A k, j \in 1 .. Len(f), y, z \in Byte : j = k + 1 /\ (y # f[k] \/ z # f[j]) =>
        /\ Len([f EXCEPT ![k] = y, ![j] = z]) = Len(f)
        /\ \E i \in 1 .. Len(f) : Damaged([f EXCEPT ![k] = y, ![j] = z], f, Len(f), i)
<1> TAKE f \in Seq(Nat)
<1> HAVE Bytes(f, Len(f))
<1> TAKE k, j \in 1 .. Len(f), y, z \in Byte
<1> DEFINE b == [f EXCEPT ![k] = y, ![j] = z]
<1>1. /\ Len(b) = Len(f)
      /\ \A i \in 1 .. Len(f) : b[i] = IF i = j THEN z ELSE IF i = k THEN y ELSE f[i]
  <2>1. y \in Nat /\ z \in Nat
    BY Numbers
  <2>2. QED
    BY <2>1, TwoReplaced
<1> HAVE j = k + 1 /\ (y # f[k] \/ z # f[j])
<1> HIDE DEF b
<1>2. Bytes(b, Len(f))
  BY <1>1 DEF Bytes
<1>3. j # k
  OBVIOUS
<1>4. y # f[k] => Damaged(b, f, Len(f), k)
  BY <1>1, <1>2, <1>3 DEF Damaged
<1>5. y = f[k] => Damaged(b, f, Len(f), j)
  BY <1>1, <1>2, <1>3 DEF Damaged
<1>6. QED
  BY <1>1, <1>4, <1>5 DEF b

\* FlipInv is inductive.
LEMMA FlipStep == FlipInv /\ [Next]_vars => FlipInv'
<1> SUFFICES ASSUME FlipInv, [Next]_vars PROVE FlipInv'
  OBVIOUS
<1>1. CutInv /\ CutInv'
  BY CutStep DEF FlipInv
<1>2. ASSUME NEW n \in 0 .. Len(wire) - 1, Cut(n) PROVE FlipInv'
  BY <1>1, <1>2 DEF Cut, FlipInv, DamagedFrameIsBad, Received
<1>3. ASSUME fate = "whole", msg.frame = "RTU"
      PROVE  /\ wire = Sent /\ got = Nothing /\ wire \in Seq(Nat) /\ Len(wire) \in Nat
             /\ Bytes(wire, Len(wire))
  <2>1. wire = Sent /\ got = Nothing
    BY <1>1, <1>3 DEF CutInv
  <2>2. Sent \in Seq(Nat) /\ Bytes(Sent, Len(Sent))
    BY <1>1, FrameBytes, FrameType DEF CutInv, Sent
  <2>3. QED
    BY <2>1, <2>2, LenProperties
<1>4. ASSUME wire = Sent, got = Nothing, got' = got, msg' = msg, msg.frame = "RTU",
             Len(wire') = Len(wire), \E k \in 1 .. Len(wire) : Damaged(wire', wire, Len(wire), k)
      PROVE  FlipInv'
  <2>1. Sent' = Sent
    BY <1>4 DEF Sent
  <2>2. QED
    BY <1>1, <1>4, <2>1 DEF FlipInv, DamagedFrameIsBad, Received
<1>5. ASSUME NEW k \in 1 .. FlipMax, NEW i \in 0 .. 7, Flip(k, i) PROVE FlipInv'
  <2> DEFINE x == wire[k]
             y == IF BitOf(x, i) = 1 THEN x - 2 ^ i ELSE x + 2 ^ i
  <2>1. /\ fate = "whole" /\ msg.frame = "RTU" /\ k <= Len(wire) /\ wire' = [wire EXCEPT ![k] = y]
        /\ got' = got /\ msg' = msg
    BY <1>5 DEF Flip
  <2>2. k \in 1 .. Len(wire) /\ x \in Byte
    BY <1>3, <2>1 DEF Bytes
  <2> HIDE DEF x
  <2>3. y \in Byte /\ y # x
    <3>1. BitOf(x, i) \in {0, 1}
      <4>1. \A j \in 0 .. 7 : j = 0 \/ j = 1 \/ j = 2 \/ j = 3 \/ j = 4 \/ j = 5 \/ j = 6 \/ j = 7
        OBVIOUS
      <4>2. QED
        BY <2>2, <4>1, Binary
    <3> DEFINE bit == 1 - BitOf(x, i)
               z == x + (bit - BitOf(x, i)) * 2 ^ i
    <3>2. bit \in {0, 1} /\ bit # BitOf(x, i)
      BY <3>1
    <3>3. z \in Byte /\ BitOf(z, i) = bit
      BY <2>2, <3>2, OneBit
    <3>4. y = z
      <4>1. x \in Int /\ 2 ^ i \in Int
        BY <2>2, Numbers
      <4>2. QED
        BY <3>1, <4>1
    <3>5. QED
      BY <3>2, <3>3, <3>4
  <2> HIDE DEF y
  <2>4. Len(wire') = Len(wire) /\ Damaged(wire', wire, Len(wire), k)
    <3>1. y # wire[k]
      BY <2>3 DEF x
    <3>2. wire \in Seq(Nat) /\ Bytes(wire, Len(wire))
      BY <1>3, <2>1
    <3>3. /\ Len([wire EXCEPT ![k] = y]) = Len(wire)
          /\ Damaged([wire EXCEPT ![k] = y], wire, Len(wire), k)
      BY <2>2, <2>3, <3>1, <3>2, ByteDamaged, Zenon
    <3>4. QED
      BY <2>1, <3>3, Zenon
  <2>5. QED
    BY <1>3, <1>4, <2>1, <2>2, <2>4
<1>6. ASSUME NEW k \in 1 .. FlipMax, NEW u \in Marks, NEW v \in Marks, Smear(k, u, v)
      PROVE  FlipInv'
  <2> DEFINE y == Xor[wire[k]][u]
             z == Xor[wire[k + 1]][v]
  <2>1. /\ fate = "whole" /\ msg.frame = "RTU" /\ k < Len(wire) /\ (u # 0 \/ v # 0)
        /\ wire' = [wire EXCEPT ![k] = y, ![k + 1] = z] /\ got' = got /\ msg' = msg
    BY <1>6 DEF Smear
  <2>2. /\ k \in 1 .. Len(wire) /\ k + 1 \in 1 .. Len(wire)
        /\ wire[k] \in Byte /\ wire[k + 1] \in Byte
    BY <1>3, <2>1 DEF Bytes
  <2>3. u \in Byte /\ v \in Byte /\ 0 \in Byte
    BY WireAssumption, InByte
  <2>4. y \in Byte /\ z \in Byte
    BY <2>2, <2>3, XorFacts
  <2>5. \A x, w \in Byte : w # 0 => Xor[x][w] # x
    BY <2>3, XorFacts, XorOneToOne
  <2>6. y # wire[k] \/ z # wire[k + 1]
    BY <2>1, <2>2, <2>3, <2>5
  <2> DEFINE j == k + 1
             b == [wire EXCEPT ![k] = y, ![j] = z]
  <2>7. Len(wire') = Len(wire) /\ \E n \in 1 .. Len(wire) : Damaged(wire', wire, Len(wire), n)
    <3>1. j \in 1 .. Len(wire) /\ wire' = b /\ (y # wire[k] \/ z # wire[j])
      BY <2>1, <2>2, <2>6
    <3>2. wire \in Seq(Nat) /\ Bytes(wire, Len(wire))
      BY <1>3, <2>1
    <3>3. j = k + 1
      OBVIOUS
    <3> HIDE DEF y, z, j
    <3>4. Len(b) = Len(wire) /\ \E n \in 1 .. Len(wire) : Damaged(b, wire, Len(wire), n)
      <4>1. \A l, n \in 1 .. Len(wire), a, c \in Byte :
              n = l + 1 /\ (a # wire[l] \/ c # wire[n]) =>
                /\ Len([wire EXCEPT ![l] = a, ![n] = c]) = Len(wire)
                /\ \E i \in 1 .. Len(wire) :
                     Damaged([wire EXCEPT ![l] = a, ![n] = c], wire, Len(wire), i)
        BY <3>2, PairDamaged, Zenon
      <4>2. k \in 1 .. Len(wire) /\ j \in 1 .. Len(wire) /\ y \in Byte /\ z \in Byte
        BY <2>2, <2>4, <3>1
      <4>3. y # wire[k] \/ z # wire[j]
        BY <3>1
      <4>4. QED
        BY <3>3, <4>1, <4>2, <4>3, Zenon
    <3>5. QED
      BY <3>1, <3>4, Zenon
  <2>8. QED
    BY <1>3, <1>4, <2>1, <2>7
<1>7. ASSUME NEW m \in Messages, NEW n \in {1, 8}, Join(m, n) PROVE FlipInv'
  BY <1>1, <1>7 DEF Join, FlipInv, DamagedFrameIsBad, Received
<1>8. ASSUME NEW m \in Messages, NEW n \in 1 .. FlipMax, Splice(m, n) PROVE FlipInv'
  BY <1>1, <1>8 DEF Splice, FlipInv, DamagedFrameIsBad, Received
<1>9. CASE Receive
  <2>1. msg' = msg /\ wire' = wire /\ fate' = IF fate = "whole" THEN "untouched" ELSE fate
    BY <1>9 DEF Receive
  <2>2. Sent' = Sent
    BY <2>1 DEF Sent
  <2>3. ASSUME fate = "flipped", LengthKept PROVE got'.n = 0
    <3>1. PICK k : /\ msg.frame = "RTU" /\ Len(wire) = Len(Sent)
                   /\ Damaged(wire, Sent, Len(wire), k)
      BY <2>3 DEF FlipInv
    <3>2. Sent = RtuMake(msg.sa, msg.m, msg.m.type) /\ msg.m \in Messages /\ msg.sa \in Byte
      BY <1>1, <3>1 DEF Sent, MakeFrame, CutInv
    <3>3. RtuParse(wire, msg.m.type) = 0
      BY <2>3, <3>1, <3>2, DamagedIsBad DEF LengthKept, Lay
    <3>4. got' = [n |-> 0]
      BY <1>9, <3>1, <3>3 DEF Receive, Parse
    <3>5. QED
      BY <3>4
  <2>4. LengthKept' => LengthKept
    BY <2>1, <2>2 DEF LengthKept
  <2>5. QED
    BY <1>1, <2>1, <2>2, <2>3, <2>4 DEF FlipInv, DamagedFrameIsBad, Received
<1>10. CASE UNCHANGED vars
  BY <1>1, <1>10 DEF vars, FlipInv, DamagedFrameIsBad, LengthKept, Received, Sent
<1>11. QED
  BY <1>2, <1>5, <1>6, <1>7, <1>8, <1>9, <1>10 DEF Next

\* Whatever is sent, and wherever in a byte or in two neighbours the line
\* inverts whichever bits: the CRC that mb_rtu_frm_parse tests tells it, as
\* long as the length of the frame is told.
THEOREM DamagedBytesAreCaught == Spec => []DamagedFrameIsBad
<1>1. Init => FlipInv
  BY WireAssumption DEF Init, FlipInv, CutInv, Sent, DamagedFrameIsBad, Received
<1>2. FlipInv => DamagedFrameIsBad
  BY DEF FlipInv
<1>3. QED
  BY <1>1, <1>2, FlipStep, PTL DEF Spec

=============================================================================
