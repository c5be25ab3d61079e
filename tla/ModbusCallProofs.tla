-------------------------- MODULE ModbusCallProofs --------------------------
(***************************************************************************)
(* Further proofs about ModbusMaster, for all values of the constants:     *)
(* what a call makes of a line that was quiet when it began, the order in  *)
(* which replies are taken, and that the master keeps what RemoteCall      *)
(* promises its caller.                                                    *)
(***************************************************************************)
EXTENDS ModbusMasterProofs

-----------------------------------------------------------------------------
(* A call that began on a quiet line.                                      *)

\* While such a call lasts, the line carries its own request and the reply to
\* it, and nothing else.
QuietLine == clean /\ pc # "idle" => LineOver({cur})

LEMMA QuietStep ==
    ASSUME Typed, QuietLine, [Next]_vars
    PROVE  QuietLine'
<1>1. CASE StartStep
  <2>1. PICK op \in Ops, nb \in Sizes : StartCall(op, nb)
    BY <1>1 DEF StartStep
  <2>2. SUFFICES ASSUME clean' PROVE LineOver({cur})'
    BY DEF QuietLine
  <2>3. toPeer' = <<>> /\ net' = <<>> /\ buf' = <<>>
    BY <2>1, <2>2 DEF StartCall, line, Typed, CallsAccounted
  <2>4. QED
    BY <2>3, EmptySeq DEF LineOver
<1>2. CASE ~StartStep
  <2>1. UNCHANGED <<cur, clean>> /\ (pc' # "idle" => pc # "idle")
    BY <1>2 DEF Next, StartStep, Connect, Disconnect, Flush, SetSlave, SendOk, SendPart,
          SendErr, RecvPiece, RecvPart, Collect, RecvTimeout, RecvErr, RecvDone, Fail,
          Return, PeerServe, ServeOrphan, PeerClose, Disturb, inst, vars
  <2>2. SUFFICES ASSUME clean, pc # "idle" PROVE LineOver({cur})'
    BY <2>1 DEF QuietLine
  <2>3. PICK R : R = {cur}
    OBVIOUS
  <2>4. LineOver(R)'
    BY <1>2, <2>2, <2>3, LineStep DEF QuietLine
  <2>5. QED
    BY <2>1, <2>3, <2>4 DEF LineOver
<1>3. QED
  BY <1>1, <1>2

LEMMA QuietInit == Init => QuietLine
BY DEF Init, QuietLine

\* What a request function returns, given a whole reply to its own request.
LEMMA OwnResult ==
    ASSUME cur \in Request, NEW kind \in {"ok", "exc"},
           NEW f, f = FrmOf([req |-> cur, kind |-> kind]), NEW v \in Result(f)
    PROVE  v = IF kind = "exc" THEN -ExcCode
               ELSE IF cur.op \in {"single", "mask"} THEN 1 ELSE cur.nb
<1>1. /\ f.got = kind /\ f.req = cur
      /\ cur.op \in AllOps /\ cur.nb \in Nat \ {0}
  BY ConfigAssumption DEF FrmOf, Frm, Request
<1>2. -ExcCode \in Int /\ -ExcCode < 0
  BY DEF ExcCode
<1>3. Bytes(cur.op, cur.nb) \in Nat \ {0}
  BY <1>1 DEF Bytes
<1>4. CASE kind = "exc"
  <2>1. \A values : OrExc(f, values) = {-ExcCode}
    BY <1>1, <1>4 DEF OrExc
  <2>2. Bytes("read_bits", cur.nb) >= 0
    BY <1>1 DEF Bytes
  <2>3. MbReadBits(f) = {-ExcCode} /\ MbReadRegs(f) = {-ExcCode}
    BY <1>2, <2>1, <2>2 DEF MbReadBits, MbReadRegs, MbReadReq
  <2>4. Result(f) = {-ExcCode}
    BY <1>1, <2>1, <2>3
       DEF Result, AllOps, MbWriteReq, MbWriteSingle, MbMaskWriteReg, MbWriteAndReadRegs
  <2>5. QED
    BY <1>4, <2>4
<1>5. CASE kind = "ok"
  <2>1. \A values : OrExc(f, values) = values
    BY <1>1, <1>5 DEF OrExc
  <2>2. CASE cur.op = "read_bits"
    <3>1. MbReadReq(f) = {Bytes("read_bits", cur.nb)}
      BY <1>1, <1>5, <2>1, <2>2 DEF MbReadReq, RdRspDlen, ReadOps
    <3>2. QED
      BY <1>5, <2>2, <3>1 DEF Result, MbReadBits
  <2>3. CASE cur.op = "read_regs"
    <3>1. MbReadReq(f) = {2 * cur.nb}
      BY <1>1, <1>5, <2>1, <2>3 DEF MbReadReq, RdRspDlen, ReadOps, Bytes
    <3>2. QED
      BY <1>1, <1>5, <2>3, <3>1 DEF Result, MbReadRegs
  <2>4. CASE cur.op = "write"
    BY <1>1, <1>5, <2>1, <2>4 DEF Result, MbWriteReq, WrRspNb
  <2>5. CASE cur.op \in {"single", "mask"}
    BY <1>5, <2>1, <2>5 DEF Result, MbWriteSingle, MbMaskWriteReg
  <2>6. CASE cur.op = "wr_rd"
    <3>1. RdRspDlen(f) = {2 * cur.nb}
      BY <1>1, <1>5, <2>6 DEF RdRspDlen, ReadOps, Bytes
    <3>2. QED
      BY <1>1, <1>5, <2>1, <2>6, <3>1 DEF Result, MbWriteAndReadRegs
  <2>7. QED
    BY <1>1, <2>2, <2>3, <2>4, <2>5, <2>6 DEF AllOps
<1>6. QED
  BY <1>4, <1>5

\* How a call ends: with 0, or with a value taken from an accepted frame.
LEMMA HowACallEnds ==
    ASSUME [Next]_vars
    PROVE  \/ UNCHANGED <<last, newest>> /\ (pc' = "idle" => pc = "idle")
           \/ last' = [n |-> cur.n, ret |-> 0, src |-> 0, clean |-> clean]
              /\ UNCHANGED <<cur, newest>> /\ pc # "idle" /\ pc' = "idle"
           \/ /\ pc = "recv" /\ buf # <<>>
              /\ \E f \in Parsed(buf) : /\ Accepted(f)
                                        /\ \E v \in Result(f) : v # 0 /\ Return(v, f.src)
              /\ UNCHANGED <<inst, line, peer>>
<1>1. CASE SendPart \/ SendErr \/ RecvTimeout \/ RecvErr
  BY <1>1 DEF SendPart, SendErr, RecvTimeout, RecvErr, Fail, Return, inst
<1>2. CASE RecvDone
  <2>1. CASE Fail
    BY <1>2, <2>1 DEF RecvDone, Fail, Return, inst
  <2>2. CASE ~Fail
    BY <1>2, <2>2 DEF RecvDone
  <2>3. QED
    BY <2>1, <2>2
<1>3. CASE ~(SendPart \/ SendErr \/ RecvTimeout \/ RecvErr \/ RecvDone)
  BY <1>3 DEF Next, Connect, Disconnect, Flush, SetSlave, StartCall, SendOk, RecvPiece,
       RecvPart, Collect, PeerServe, ServeOrphan, PeerClose, Disturb, ghost, vars
<1>4. QED
  BY <1>1, <1>2, <1>3

\* On a quiet line an accepted frame is the reply to the call's own request.
LEMMA QuietReply ==
    ASSUME WholeFramesOnly, Typed, QuietLine, clean, pc = "recv", buf # <<>>,
           NEW f \in Parsed(buf), Accepted(f)
    PROVE  \E kind \in {"ok", "exc"} : f = FrmOf([req |-> cur, kind |-> kind])
<1>1. buf[1] \in PieceOf({cur})
  BY LenProperties, EmptySeq, ElementOfSeq DEF QuietLine, LineOver
<1>2. PICK kind \in {"ok", "exc"} : buf[1].rep = [req |-> cur, kind |-> kind]
  BY <1>1 DEF PieceOf, ReplyOf
<1>3. QED
  BY <1>2, AcceptedIsWhole

\* A call that began on a quiet line and returned a value other than 0 has
\* taken the reply to its own request: also over a serial line, where nothing
\* in the frame says which call it answers.
THEOREM QuietLineOwnReply == ASSUME WholeFramesOnly PROVE Spec => []CleanLineOwnReply
<1>1. Init => CleanLineOwnReply
  BY DEF Init, CleanLineOwnReply
<1>2. Typed /\ QuietLine /\ CleanLineOwnReply /\ [Next]_vars => CleanLineOwnReply'
  <2> SUFFICES ASSUME Typed, QuietLine, CleanLineOwnReply, [Next]_vars, last'.clean,
                      last'.ret # 0, last' # last
               PROVE  last'.src = last'.n
    BY DEF CleanLineOwnReply
  <2>1. PICK f \in Parsed(buf) : pc = "recv" /\ buf # <<>> /\ Accepted(f)
                                 /\ \E v \in Result(f) : Return(v, f.src)
    BY HowACallEnds
  <2>2. clean
    BY <2>1 DEF Return
  <2>3. f.src = cur.n
    BY <2>1, <2>2, QuietReply DEF FrmOf, Frm
  <2>4. QED
    BY <2>1, <2>3 DEF Return
<1>3. QED
  BY <1>1, <1>2, QuietInit, QuietStep, TypedInit, TypedStep, PTL DEF Spec

\* A positive result of such a call is the number of bits or registers the
\* caller asked for, so that what is copied fits the caller's buffer.
THEOREM QuietLineWholeResult ==
    ASSUME WholeFramesOnly PROVE Spec => []CleanLineWholeResult
<1>1. Init => CleanLineWholeResult
  BY DEF Init, CleanLineWholeResult
<1>2. Typed /\ QuietLine /\ CleanLineWholeResult /\ [Next]_vars => CleanLineWholeResult'
  <2> SUFFICES ASSUME Typed, QuietLine, CleanLineWholeResult, [Next]_vars, pc' = "idle",
                      last'.n = cur'.n, last'.clean, last'.ret > 0
               PROVE  last'.ret = IF cur'.op \in {"single", "mask"} THEN 1 ELSE cur'.nb
    BY DEF CleanLineWholeResult
  <2>1. CASE UNCHANGED last /\ pc = "idle"
    <3>1. UNCHANGED cur
      BY <2>1 DEF Next, Connect, Disconnect, Flush, SetSlave, StartCall, SendOk, SendPart,
          SendErr, RecvPiece, RecvPart, Collect, RecvTimeout, RecvErr, RecvDone,
          PeerServe, ServeOrphan, PeerClose, Disturb, inst, vars
    <3>2. QED
      BY <2>1, <3>1 DEF CleanLineWholeResult
  <2>2. CASE last' = [n |-> cur.n, ret |-> 0, src |-> 0, clean |-> clean]
    BY <2>2
  <2>3. CASE /\ pc = "recv" /\ buf # <<>> /\ UNCHANGED inst
             /\ \E f \in Parsed(buf) : /\ Accepted(f)
                                       /\ \E v \in Result(f) : Return(v, f.src)
    <3>0. PICK f \in Parsed(buf) : /\ Accepted(f)
                                   /\ \E v \in Result(f) : Return(v, f.src)
      BY <2>3
    <3>1. PICK v \in Result(f) : Accepted(f) /\ Return(v, f.src)
      BY <3>0
    <3>2. clean /\ v > 0 /\ last'.ret = v
      BY <3>1 DEF Return
    <3>3. PICK kind \in {"ok", "exc"} : f = FrmOf([req |-> cur, kind |-> kind])
      BY <2>3, <3>1, <3>2, QuietReply
    <3>4. cur \in Request /\ UNCHANGED cur
      BY <2>3 DEF Typed, TypeOK, inst
    <3>5. v = IF kind = "exc" THEN -ExcCode
              ELSE IF cur.op \in {"single", "mask"} THEN 1 ELSE cur.nb
      BY <3>1, <3>3, <3>4, OwnResult
    <3>6. QED
      BY <3>2, <3>4, <3>5 DEF ExcCode
  <2>4. QED
    BY <2>1, <2>2, <2>3, HowACallEnds
<1>3. QED
  BY <1>1, <1>2, QuietInit, QuietStep, TypedInit, TypedStep, PTL DEF Spec

-----------------------------------------------------------------------------
(* The order of what is on the line.                                       *)

\* q2 is q with elements left out.
Within(q2, q) ==
    \E f \in [DOMAIN q2 -> DOMAIN q] :
        /\ \A i, j \in DOMAIN q2 : i < j => f[i] < f[j]
        /\ \A i \in DOMAIN q2 : q2[i] = q[f[i]]

\* q2 is q with replies left out, and others disturbed.
Thinned(q2, q) ==
    \E f \in [DOMAIN q2 -> DOMAIN q] :
        /\ \A i, j \in DOMAIN q2 : i < j => f[i] < f[j]
        /\ \A i \in DOMAIN q2 : /\ q2[i].rep = q[f[i]].rep
                                /\ q2[i].part \in {q[f[i]].part, "noise"}

LEMMA WithinItself == ASSUME NEW q PROVE Within(q, q)
<1>1. [i \in DOMAIN q |-> i] \in [DOMAIN q -> DOMAIN q]
  OBVIOUS
<1>2. QED
  BY <1>1 DEF Within

LEMMA WithinEmpty == ASSUME NEW q PROVE Within(<<>>, q)
<1>1. DOMAIN <<>> = {}
  OBVIOUS
<1>2. PICK f : f = [i \in {} |-> i]
  OBVIOUS
<1>3. f \in [{} -> DOMAIN q]
  BY <1>2
<1>4. QED
  BY <1>1, <1>3 DEF Within

LEMMA WithinSuffix ==
    ASSUME NEW S, NEW q \in Seq(S), NEW k \in 0 .. Len(q)
    PROVE  Within(SubSeq(q, k + 1, Len(q)), q)
<1> DEFINE q2 == SubSeq(q, k + 1, Len(q))
           f == [i \in DOMAIN q2 |-> i + k]
<1>1. /\ Len(q) \in Nat /\ DOMAIN q = 1 .. Len(q)
      /\ DOMAIN q2 = 1 .. (Len(q) - k)
      /\ \A i \in 1 .. (Len(q) - k) : q2[i] = q[i + k]
  <2>1. Len(q) \in Nat /\ DOMAIN q = 1 .. Len(q)
    BY LenProperties
  <2>2. \A i \in (k + 1) .. Len(q) : q[i] \in S
    BY <2>1, ElementOfSeq
  <2>3. /\ q2 \in Seq(S)
        /\ Len(q2) = IF k + 1 <= Len(q) THEN Len(q) - (k + 1) + 1 ELSE 0
        /\ \A i \in 1 .. Len(q) - (k + 1) + 1 : q2[i] = q[k + 1 + i - 1]
    <3>1. k + 1 \in Int /\ Len(q) \in Int
      BY <2>1
    <3>2. QED
      BY <2>2, <3>1, SubSeqProperties
  <2> HIDE DEF q2
  <2>4. Len(q2) = Len(q) - k /\ DOMAIN q2 = 1 .. Len(q2)
    BY <2>1, <2>3, LenProperties
  <2>5. ASSUME NEW i \in 1 .. (Len(q) - k) PROVE q2[i] = q[i + k]
    <3>1. i \in 1 .. Len(q) - (k + 1) + 1 /\ k + 1 + i - 1 = i + k
      BY <2>1
    <3>2. QED
      BY <2>3, <3>1
  <2>6. QED
    BY <2>1, <2>4, <2>5
<1> HIDE DEF q2
<1>2. f \in [DOMAIN q2 -> DOMAIN q]
  BY <1>1
<1>3. \A i, j \in DOMAIN q2 : i < j => f[i] < f[j]
  BY <1>1
<1>4. \A i \in DOMAIN q2 : q2[i] = q[f[i]]
  BY <1>1
<1> HIDE DEF f
<1>5. Within(q2, q)
  BY <1>2, <1>3, <1>4 DEF Within
<1>6. QED
  BY <1>5 DEF q2

LEMMA WithinDrop ==
    ASSUME NEW S, NEW q \in Seq(S), NEW d \in DOMAIN q
    PROVE  Within(Drop(q, d), q)
<1> DEFINE a == SubSeq(q, 1, d - 1)
           b == SubSeq(q, d + 1, Len(q))
           q2 == a \o b
           f == [i \in DOMAIN q2 |-> IF i < d THEN i ELSE i + 1]
<1>1. Len(q) \in Nat /\ DOMAIN q = 1 .. Len(q) /\ d \in 1 .. Len(q)
  BY LenProperties
<1>2. a \in Seq(S) /\ Len(a) = d - 1 /\ \A i \in 1 .. (d - 1) : a[i] = q[i]
  BY <1>1, SubSeqProperties, ElementOfSeq
<1>3. b \in Seq(S) /\ Len(b) = Len(q) - d /\ \A i \in 1 .. (Len(q) - d) : b[i] = q[d + i]
  <2>1. \A i \in (d + 1) .. Len(q) : q[i] \in S
    BY <1>1, ElementOfSeq
  <2>2. QED
    BY <1>1, <2>1, SubSeqProperties
<1> HIDE DEF a, b
<1>4. /\ q2 \in Seq(S) /\ Len(q2) = Len(q) - 1
      /\ \A i \in 1 .. (Len(q) - 1) : q2[i] = IF i < d THEN q[i] ELSE q[i + 1]
  <2>1. /\ q2 \in Seq(S) /\ Len(q2) = Len(a) + Len(b)
        /\ \A i \in 1 .. Len(a) + Len(b) : q2[i] = IF i <= Len(a) THEN a[i] ELSE b[i - Len(a)]
    BY <1>2, <1>3, ConcatProperties
  <2> HIDE DEF q2
  <2>2. Len(a) + Len(b) = Len(q) - 1
    BY <1>1, <1>2, <1>3
  <2>3. ASSUME NEW i \in 1 .. (Len(q) - 1)
        PROVE  q2[i] = IF i < d THEN q[i] ELSE q[i + 1]
    <3>1. CASE i < d
      BY <1>1, <1>2, <2>1, <2>2, <3>1
    <3>2. CASE ~(i < d)
      <4>1. i - Len(a) \in 1 .. (Len(q) - d) /\ d + (i - Len(a)) = i + 1
            /\ ~(i <= Len(a))
        BY <1>1, <1>2, <3>2
      <4>2. QED
        BY <1>3, <2>1, <2>2, <3>2, <4>1
    <3>3. QED
      BY <3>1, <3>2
  <2>4. QED
    BY <2>1, <2>2, <2>3
<1> HIDE DEF q2
<1>5. DOMAIN q2 = 1 .. (Len(q) - 1)
  BY <1>4, LenProperties
<1>6. f \in [DOMAIN q2 -> DOMAIN q]
  BY <1>1, <1>5
<1>7. \A i, j \in DOMAIN q2 : i < j => f[i] < f[j]
  BY <1>1, <1>5
<1>8. \A i \in DOMAIN q2 : q2[i] = q[f[i]]
  BY <1>1, <1>4, <1>5
<1> HIDE DEF f
<1>9. Within(q2, q)
  BY <1>6, <1>7, <1>8 DEF Within
<1>10. QED
  BY <1>9 DEF Drop, q2, a, b

LEMMA WithinThinned == ASSUME NEW q, NEW q2, Within(q2, q) PROVE Thinned(q2, q)
BY DEF Within, Thinned

LEMMA NoiseThinned ==
    ASSUME NEW R, NEW q \in Seq(PieceOf(R)), NEW d \in DOMAIN q
    PROVE  Thinned([q EXCEPT ![d].part = "noise"], q)
<1> DEFINE q2 == [q EXCEPT ![d].part = "noise"]
           f == [i \in DOMAIN q2 |-> i]
<1>1. /\ DOMAIN q = 1 .. Len(q) /\ Len(q) \in Nat
      /\ \A i \in DOMAIN q : q[i] \in PieceOf(R)
  BY LenProperties, ElementOfSeq
<1>2. /\ DOMAIN q2 = DOMAIN q
      /\ \A i \in DOMAIN q : q2[i] = IF i = d THEN [q[d] EXCEPT !.part = "noise"] ELSE q[i]
  BY <1>1
<1> HIDE DEF q2
<1>3. \A i \in DOMAIN q : q2[i].rep = q[i].rep /\ q2[i].part \in {q[i].part, "noise"}
  BY <1>1, <1>2 DEF PieceOf
<1>4. f \in [DOMAIN q2 -> DOMAIN q]
  BY <1>2
<1>5. Thinned(q2, q)
  <2>1. \A i, j \in DOMAIN q2 : i < j => f[i] < f[j]
    OBVIOUS
  <2>2. \A i \in DOMAIN q2 : q2[i].rep = q[f[i]].rep /\ q2[i].part \in {q[f[i]].part, "noise"}
    BY <1>2, <1>3
  <2> HIDE DEF f
  <2>3. QED
    BY <1>4, <2>1, <2>2 DEF Thinned
<1>6. QED
  BY <1>5 DEF q2

LEMMA HangupThins ==
    ASSUME LineOver(Request), Hangup
    PROVE  Within(toPeer', toPeer) /\ Thinned(net', net)
<1>1. CASE toPeer' = <<>> /\ net' = <<>>
  BY <1>1, WithinEmpty, WithinThinned
<1>2. ASSUME NEW k \in 0 .. Len(net), net' = SubSeq(net, k + 1, Len(net)),
             UNCHANGED toPeer
      PROVE  Within(toPeer', toPeer) /\ Thinned(net', net)
  <2>1. Within(net', net)
    BY <1>2, WithinSuffix DEF LineOver
  <2>2. QED
    BY <1>2, <2>1, WithinItself, WithinThinned
<1>3. QED
  BY <1>1, <1>2 DEF Hangup

\* Steps that put something on the line, or collect it.
BusyStep == \/ StartStep \/ SendOk \/ SendPart
            \/ RecvPiece \/ (\E cut \in Cuts : RecvPart(cut))
            \/ \E k \in 1 .. Len(toPeer) : PeerServe(k)

\* All other steps leave the line as it is or take something from it.
LEMMA OthersThin ==
    ASSUME Typed, [Next]_vars, ~BusyStep
    PROVE  /\ Within(toPeer', toPeer) /\ Thinned(net', net) /\ buf' \in {buf, <<>>}
           /\ UNCHANGED calls /\ pc' \in {pc, "idle"}
<1>1. LineOver(Request)
  BY DEF Typed, TypeOK
<1>2. Within(toPeer, toPeer) /\ Thinned(net, net)
  BY WithinItself, WithinThinned
<1>3. CASE Connect \/ SetSlave \/ (\E r \in orphans : ServeOrphan(r)) \/ UNCHANGED vars
  BY <1>2, <1>3 DEF Connect, SetSlave, ServeOrphan, vars, line, inst
<1>4. CASE Disconnect \/ RecvErr
  BY <1>1, <1>4, HangupThins DEF Disconnect, RecvErr, Fail, Return, inst
<1>5. CASE SendErr
  BY <1>1, <1>2, <1>5, HangupThins DEF SendErr, Return, line, inst
<1>6. CASE RecvTimeout \/ RecvDone
  BY <1>2, <1>6 DEF RecvTimeout, RecvDone, Fail, Return, line, inst
<1>7. CASE Flush
  <2>1. PICK k \in 1 .. Len(net) : net' = SubSeq(net, k + 1, Len(net))
    BY <1>7 DEF Flush
  <2>2. k \in 0 .. Len(net) /\ net \in Seq(PieceOf(Request))
    BY <1>1, <2>1 DEF LineOver
  <2>3. Within(net', net)
    BY <2>1, <2>2, WithinSuffix
  <2>4. QED
    BY <1>2, <1>7, <2>3, WithinThinned DEF Flush, inst
<1>8. CASE PeerClose
  BY <1>2, <1>8, WithinEmpty DEF PeerClose, inst
<1>9. CASE Disturb
  <2>1. UNCHANGED <<buf, pc, calls>>
    BY <1>9 DEF Disturb, inst
  <2>2. CASE UNCHANGED net /\ \E i \in DOMAIN toPeer : toPeer' = Drop(toPeer, i)
    BY <1>1, <1>2, <2>1, <2>2, WithinDrop DEF LineOver
  <2>3. CASE UNCHANGED toPeer /\ \E i \in DOMAIN net : net' = Drop(net, i)
    BY <1>1, <1>2, <2>1, <2>3, WithinDrop, WithinThinned DEF LineOver
  <2>4. ASSUME UNCHANGED toPeer,
               NEW i \in DOMAIN net, net' = [net EXCEPT ![i].part = "noise"]
        PROVE  Thinned(net', net)
    BY <1>1, <2>4, NoiseThinned DEF LineOver
  <2>5. QED
    BY <1>2, <1>9, <2>1, <2>2, <2>3, <2>4 DEF Disturb
<1>10. QED
  BY <1>3, <1>4, <1>5, <1>6, <1>7, <1>8, <1>9 DEF Next, BusyStep, StartStep

Num(p) == p.rep.req.n

\* The beginning of a reply, all of it or a part; what a call can accept.
IsHead(p) == p.part \notin {"rest", "noise"}

\* Of two pieces, p came first: at most the end of a reply, or what a
\* disturbance left of it, follows another piece of the same reply.
Before(p, q) == Num(p) <= Num(q) /\ (IsHead(q) => Num(p) < Num(q))

\* The newest request that may be on the line.
Top == IF pc = "send" THEN calls - 1 ELSE calls

\* Requests are on the line in the order of the calls, each once; replies come
\* in that order, and before them what is collected already.
LineOrder ==
    /\ \A i, j \in DOMAIN toPeer : i < j => toPeer[i].req.n < toPeer[j].req.n
    /\ \A i, j \in DOMAIN net : i < j => Before(net[i], net[j])
    /\ \A i, j \in DOMAIN buf : i < j => Before(buf[i], buf[j])
    /\ \A i \in DOMAIN buf, j \in DOMAIN net : Before(buf[i], net[j])
    /\ \A j \in DOMAIN toPeer : /\ toPeer[j].req.n <= Top
                                /\ \A i \in DOMAIN net : Num(net[i]) < toPeer[j].req.n
                                /\ \A i \in DOMAIN buf : Num(buf[i]) < toPeer[j].req.n
    /\ \A i \in DOMAIN net : Num(net[i]) <= Top
    /\ \A i \in DOMAIN buf : Num(buf[i]) <= Top

\* The reply taken last is older than every request that is still unanswered
\* and every reply that can still be taken.
NewestIsPast ==
    /\ newest <= Top
    /\ \A j \in DOMAIN toPeer : newest < toPeer[j].req.n
    /\ \A i \in DOMAIN net : IsHead(net[i]) => newest < Num(net[i])
    /\ \A i \in DOMAIN buf : IsHead(buf[i]) => newest < Num(buf[i])


\* The elements of the line have the fields the order speaks of.
LEMMA LineFields ==
    ASSUME LineOver(Request)
    PROVE  /\ \A j \in DOMAIN toPeer : toPeer[j].req.n \in Int
           /\ \A i \in DOMAIN net : Num(net[i]) \in Int
           /\ \A i \in DOMAIN buf : Num(buf[i]) \in Int
           /\ DOMAIN toPeer = 1 .. Len(toPeer) /\ Len(toPeer) \in Nat
           /\ DOMAIN net = 1 .. Len(net) /\ Len(net) \in Nat
           /\ DOMAIN buf = 1 .. Len(buf) /\ Len(buf) \in Nat
<1>1. /\ DOMAIN toPeer = 1 .. Len(toPeer) /\ Len(toPeer) \in Nat
      /\ DOMAIN net = 1 .. Len(net) /\ Len(net) \in Nat
      /\ DOMAIN buf = 1 .. Len(buf) /\ Len(buf) \in Nat
  BY LenProperties DEF LineOver
<1>2. \A j \in DOMAIN toPeer : toPeer[j] \in SentOf(Request)
  BY <1>1, ElementOfSeq DEF LineOver
<1>3. /\ \A i \in DOMAIN net : net[i] \in PieceOf(Request)
      /\ \A i \in DOMAIN buf : buf[i] \in PieceOf(Request)
  BY <1>1, ElementOfSeq DEF LineOver
<1>4. \A r \in Request : r.n \in Int
  BY DEF Request
<1>5. QED
  BY <1>1, <1>2, <1>3, <1>4 DEF SentOf, PieceOf, ReplyOf, Num

\* Leaving things out and disturbing them does not change the order.
LEMMA ThinOrder ==
    ASSUME Typed, Typed', LineOrder, Within(toPeer', toPeer), Thinned(net', net),
           buf' \in {buf, <<>>}, UNCHANGED calls, pc' \in {pc, "idle"}
    PROVE  LineOrder'
<1>1. PICK f \in [DOMAIN toPeer' -> DOMAIN toPeer] :
          /\ \A i, j \in DOMAIN toPeer' : i < j => f[i] < f[j]
          /\ \A i \in DOMAIN toPeer' : toPeer'[i] = toPeer[f[i]]
  BY DEF Within
<1>2. PICK g \in [DOMAIN net' -> DOMAIN net] :
          /\ \A i, j \in DOMAIN net' : i < j => g[i] < g[j]
          /\ \A i \in DOMAIN net' : /\ net'[i].rep = net[g[i]].rep
                                    /\ net'[i].part \in {net[g[i]].part, "noise"}
  BY DEF Thinned
<1>3. \A i \in DOMAIN net' : /\ Num(net'[i]) = Num(net[g[i]])
                             /\ IsHead(net'[i]) => IsHead(net[g[i]])
  BY <1>2 DEF Num, IsHead
<1>4. \A i \in DOMAIN buf' : i \in DOMAIN buf /\ buf'[i] = buf[i]
  OBVIOUS
<1>5. Top \in Int /\ Top' \in Int /\ Top <= Top'
  BY BoundAssumption DEF Top, Typed, TypeOK
<1>6. /\ \A j \in DOMAIN toPeer : toPeer[j].req.n \in Int
      /\ \A i \in DOMAIN net : Num(net[i]) \in Int
      /\ \A i \in DOMAIN buf : Num(buf[i]) \in Int
  BY LineFields DEF Typed, TypeOK
<1>7. \A i, j \in DOMAIN toPeer' : i < j => toPeer'[i].req.n < toPeer'[j].req.n
  BY <1>1 DEF LineOrder
<1>8. \A i, j \in DOMAIN net' : i < j => Before(net'[i], net'[j])
  BY <1>2, <1>3 DEF LineOrder, Before
<1>9. \A i, j \in DOMAIN buf' : i < j => Before(buf'[i], buf'[j])
  BY <1>4 DEF LineOrder
<1>10. \A i \in DOMAIN buf', j \in DOMAIN net' : Before(buf'[i], net'[j])
  BY <1>2, <1>3, <1>4 DEF LineOrder, Before
<1>11. \A j \in DOMAIN toPeer' : /\ toPeer'[j].req.n <= Top'
                                 /\ \A i \in DOMAIN net' : Num(net'[i]) < toPeer'[j].req.n
                                 /\ \A i \in DOMAIN buf' : Num(buf'[i]) < toPeer'[j].req.n
  <2> TAKE j \in DOMAIN toPeer'
  <2>1. toPeer'[j] = toPeer[f[j]] /\ f[j] \in DOMAIN toPeer
    BY <1>1
  <2>2. toPeer'[j].req.n <= Top'
    BY <1>5, <1>6, <2>1 DEF LineOrder
  <2>3. \A i \in DOMAIN net' : Num(net'[i]) < toPeer'[j].req.n
    BY <1>2, <1>3, <2>1 DEF LineOrder
  <2>4. \A i \in DOMAIN buf' : Num(buf'[i]) < toPeer'[j].req.n
    BY <1>4, <2>1 DEF LineOrder
  <2>5. QED
    BY <2>2, <2>3, <2>4
<1>12. \A i \in DOMAIN net' : Num(net'[i]) <= Top'
  BY <1>2, <1>3, <1>5, <1>6 DEF LineOrder
<1>13. \A i \in DOMAIN buf' : Num(buf'[i]) <= Top'
  BY <1>4, <1>5, <1>6 DEF LineOrder
<1>14. QED
  BY <1>7, <1>8, <1>9, <1>10, <1>11, <1>12, <1>13 DEF LineOrder

\* A call takes the first piece off the line; if it is cut, its end stays.
LEMMA CollectParts ==
    ASSUME Typed, RecvPiece \/ \E cut \in Cuts : RecvPart(cut)
    PROVE  /\ net # <<>> /\ pc = "recv" /\ UNCHANGED <<pc, inst, toPeer, orphans, peer, ghost>>
           /\ \E part : buf' = Append(buf, [Head(net) EXCEPT !.part = part])
           /\ Len(buf') = Len(buf) + 1
           /\ \A i \in 1 .. Len(buf) : buf'[i] = buf[i]
           /\ buf'[Len(buf) + 1].rep = net[1].rep
           /\ IsHead(buf'[Len(buf) + 1]) => IsHead(net[1])
           /\ \/ /\ Len(net') = Len(net) - 1
                 /\ \A i \in 1 .. Len(net') : net'[i] = net[i + 1]
              \/ /\ Len(net') = Len(net) /\ IsHead(net[1])
                 /\ \A i \in 2 .. Len(net) : net'[i] = net[i]
                 /\ net'[1].rep = net[1].rep /\ net'[1].part = "rest"
<1>1. net # <<>> /\ pc = "recv" /\ UNCHANGED <<pc, inst, toPeer, orphans, peer, ghost>>
  BY DEF RecvPiece, RecvPart, Collect
<1>2. /\ Head(net) \in PieceOf(Request) /\ Tail(net) \in Seq(PieceOf(Request))
      /\ Len(Tail(net)) = Len(net) - 1 /\ Len(net) \in Nat \ {0}
      /\ \A i \in 1 .. Len(Tail(net)) : Tail(net)[i] = net[i + 1]
      /\ Head(net) = net[1] /\ net \in Seq(PieceOf(Request)) /\ buf \in Seq(PieceOf(Request))
  BY <1>1, HeadTailProperties, EmptySeq DEF Typed, TypeOK, LineOver
<1>3. ASSUME NEW e \in PieceOf(Request), buf' = Append(buf, e), e.rep = net[1].rep,
             IsHead(e) => IsHead(net[1])
      PROVE  /\ Len(buf') = Len(buf) + 1
             /\ \A i \in 1 .. Len(buf) : buf'[i] = buf[i]
             /\ buf'[Len(buf) + 1].rep = net[1].rep
             /\ IsHead(buf'[Len(buf) + 1]) => IsHead(net[1])
  <2>1. /\ Len(buf') = Len(buf) + 1 /\ buf'[Len(buf) + 1] = e
        /\ \A i \in 1 .. Len(buf) : buf'[i] = buf[i]
    BY <1>2, <1>3, AppendProperties
  <2>2. QED
    BY <1>3, <2>1
<1>4. CASE RecvPiece
  <2>1. buf' = Append(buf, Head(net)) /\ Head(net) = [Head(net) EXCEPT !.part = Head(net).part]
    BY <1>2, <1>4 DEF RecvPiece, Collect, PieceOf
  <2>2. net' = Tail(net)
    BY <1>2, <1>4, ConcatEmptySeq DEF RecvPiece, Collect
  <2>3. QED
    BY <1>1, <1>2, <1>3, <2>1, <2>2
<1>5. ASSUME NEW cut \in Cuts, RecvPart(cut)
      PROVE  /\ \E part : buf' = Append(buf, [Head(net) EXCEPT !.part = part])
             /\ Len(buf') = Len(buf) + 1
             /\ \A i \in 1 .. Len(buf) : buf'[i] = buf[i]
             /\ buf'[Len(buf) + 1].rep = net[1].rep
             /\ IsHead(buf'[Len(buf) + 1]) => IsHead(net[1])
             /\ Len(net') = Len(net) /\ IsHead(net[1])
             /\ \A i \in 2 .. Len(net) : net'[i] = net[i]
             /\ net'[1].rep = net[1].rep /\ net'[1].part = "rest"
  <2> DEFINE h == [Head(net) EXCEPT !.part = cut]
             t == [Head(net) EXCEPT !.part = "rest"]
  <2>1. /\ h \in PieceOf(Request) /\ h.rep = net[1].rep
        /\ t \in PieceOf(Request) /\ t.rep = net[1].rep /\ t.part = "rest"
    BY <1>2, ConfigAssumption DEF PieceOf
  <2>2. buf' = Append(buf, h) /\ net' = <<t>> \o Tail(net) /\ Head(net).part = "all"
    BY <1>5 DEF RecvPart, Collect
  <2>3. \E part : buf' = Append(buf, [Head(net) EXCEPT !.part = part])
    BY <2>2
  <2> HIDE DEF h, t
  <2>4. IsHead(net[1])
    BY <1>2, <2>2 DEF IsHead
  <2>5. <<t>> \in Seq(PieceOf(Request)) /\ Len(<<t>>) = 1 /\ <<t>>[1] = t
    BY <2>1
  <2>6. /\ Len(net') = 1 + Len(Tail(net))
        /\ \A i \in 1 .. 1 + Len(Tail(net)) :
              net'[i] = IF i <= 1 THEN <<t>>[i] ELSE Tail(net)[i - 1]
    BY <1>2, <2>2, <2>5, ConcatProperties
  <2>7. Len(net') = Len(net) /\ net'[1] = t
    BY <1>2, <2>5, <2>6
  <2>8. ASSUME NEW i \in 2 .. Len(net) PROVE net'[i] = net[i]
    <3>1. i \in 1 .. 1 + Len(Tail(net)) /\ ~(i <= 1) /\ i - 1 \in 1 .. Len(Tail(net))
          /\ (i - 1) + 1 = i
      BY <1>2
    <3>2. QED
      BY <1>2, <2>6, <3>1
  <2>9. QED
    BY <1>3, <2>1, <2>2, <2>3, <2>4, <2>7, <2>8
<1>6. QED
  BY <1>1, <1>4, <1>5

\* Collecting keeps the order: what stays on the line comes after what was
\* taken, and only the end of a cut reply has the number of its beginning.
LEMMA CollectOrder ==
    ASSUME Typed, Typed', LineOrder, RecvPiece \/ \E cut \in Cuts : RecvPart(cut)
    PROVE  /\ LineOrder'
           /\ NewestIsPast => NewestIsPast'
<1> DEFINE new == Len(buf) + 1
<1>1. /\ \A i \in DOMAIN toPeer : toPeer[i].req.n \in Int
      /\ \A i \in DOMAIN net : Num(net[i]) \in Int
      /\ \A i \in DOMAIN buf : Num(buf[i]) \in Int
      /\ DOMAIN net = 1 .. Len(net) /\ Len(net) \in Nat
      /\ DOMAIN buf = 1 .. Len(buf) /\ Len(buf) \in Nat
      /\ DOMAIN net' = 1 .. Len(net') /\ Len(net') \in Nat
      /\ DOMAIN buf' = 1 .. Len(buf')
  BY LineFields, LenProperties DEF Typed, TypeOK, LineOver
<1>2. /\ UNCHANGED <<toPeer, newest>> /\ Top' = Top /\ 1 \in DOMAIN net
      /\ Top \in Int /\ newest \in Int
  <2>1. net # <<>> /\ UNCHANGED <<pc, calls, toPeer, newest>>
    BY CollectParts DEF inst, ghost
  <2>2. Len(net) # 0
    BY <2>1, EmptySeq DEF Typed, TypeOK, LineOver
  <2>3. QED
    BY <1>1, <2>1, <2>2, BoundAssumption DEF Top, Typed, TypeOK
<1>3. /\ DOMAIN buf' = 1 .. new
      /\ \A i \in DOMAIN buf : buf'[i] = buf[i]
      /\ Num(buf'[new]) = Num(net[1])
      /\ IsHead(buf'[new]) => IsHead(net[1])
  BY <1>1, CollectParts DEF Num
<1>4. \E g \in [DOMAIN net' -> DOMAIN net] :
          /\ \A i, j \in DOMAIN net' : i < j => g[i] < g[j]
          /\ \A i \in DOMAIN net' : /\ Num(net'[i]) = Num(net[g[i]])
                                    /\ IsHead(net'[i]) => IsHead(net[g[i]]) /\ 1 < g[i]
  <2>1. CASE /\ Len(net') = Len(net) - 1
             /\ \A i \in 1 .. Len(net') : net'[i] = net[i + 1]
    <3> DEFINE g == [i \in DOMAIN net' |-> i + 1]
    <3>1. g \in [DOMAIN net' -> DOMAIN net]
      BY <1>1, <2>1
    <3>2. \A i, j \in DOMAIN net' : i < j => g[i] < g[j]
      BY <1>1
    <3>3. \A i \in DOMAIN net' : net'[i] = net[g[i]] /\ 1 < g[i]
      BY <1>1, <2>1
    <3> HIDE DEF g
    <3>4. QED
      BY <3>1, <3>2, <3>3
  <2>2. CASE /\ Len(net') = Len(net)
             /\ \A i \in 2 .. Len(net) : net'[i] = net[i]
             /\ net'[1].rep = net[1].rep /\ net'[1].part = "rest"
    <3> DEFINE g == [i \in DOMAIN net' |-> i]
    <3>1. g \in [DOMAIN net' -> DOMAIN net]
      BY <1>1, <2>2
    <3>2. \A i, j \in DOMAIN net' : i < j => g[i] < g[j]
      OBVIOUS
    <3>3. Num(net'[1]) = Num(net[1]) /\ ~IsHead(net'[1])
      BY <2>2 DEF Num, IsHead
    <3>4. \A i \in DOMAIN net' : i = 1 \/ i \in 2 .. Len(net)
      BY <1>1, <2>2
    <3>5. \A i \in DOMAIN net' : /\ Num(net'[i]) = Num(net[g[i]])
                                 /\ IsHead(net'[i]) => IsHead(net[g[i]]) /\ 1 < g[i]
      BY <2>2, <3>3, <3>4
    <3> HIDE DEF g
    <3>6. QED
      BY <3>1, <3>2, <3>5
  <2>3. QED
    BY <2>1, <2>2, CollectParts
<1>5. PICK g \in [DOMAIN net' -> DOMAIN net] :
          /\ \A i, j \in DOMAIN net' : i < j => g[i] < g[j]
          /\ \A i \in DOMAIN net' : /\ Num(net'[i]) = Num(net[g[i]])
                                    /\ IsHead(net'[i]) => IsHead(net[g[i]]) /\ 1 < g[i]
  BY <1>4
<1>6. \A i, j \in DOMAIN net' : i < j => Before(net'[i], net'[j])
  BY <1>5 DEF LineOrder, Before
<1>7. \A i \in DOMAIN buf' : i \in DOMAIN buf \/ i = new
  BY <1>1, <1>3
<1>8. \A i, j \in DOMAIN buf' : i < j => Before(buf'[i], buf'[j])
  <2> TAKE i, j \in DOMAIN buf'
  <2> HAVE i < j
  <2>1. i \in DOMAIN buf /\ buf'[i] = buf[i]
    BY <1>1, <1>3
  <2>2. CASE j \in DOMAIN buf
    BY <1>3, <2>1, <2>2 DEF LineOrder
  <2>3. CASE j = new
    <3>1. Before(buf[i], net[1])
      BY <1>2, <2>1 DEF LineOrder
    <3>2. QED
      BY <1>3, <2>1, <2>3, <3>1 DEF Before
  <2>4. QED
    BY <1>7, <2>2, <2>3
<1>9. \A i \in DOMAIN buf', j \in DOMAIN net' : Before(buf'[i], net'[j])
  <2> TAKE i \in DOMAIN buf', j \in DOMAIN net'
  <2>1. CASE i \in DOMAIN buf
    <3>1. Before(buf[i], net[g[j]]) /\ buf'[i] = buf[i]
      BY <1>3, <1>5, <2>1 DEF LineOrder
    <3>2. QED
      BY <1>5, <3>1 DEF Before
  <2>2. CASE i = new /\ g[j] = 1
    BY <1>1, <1>2, <1>3, <1>5, <2>2 DEF Before
  <2>3. CASE i = new /\ 1 < g[j]
    <3>1. Before(net[1], net[g[j]])
      BY <1>2, <1>5, <2>3 DEF LineOrder
    <3>2. QED
      BY <1>3, <1>5, <2>3, <3>1 DEF Before
  <2>4. QED
    BY <1>1, <1>5, <1>7, <2>1, <2>2, <2>3
<1>10. \A i \in DOMAIN buf' : \/ i \in DOMAIN buf /\ buf'[i] = buf[i]
                              \/ /\ Num(buf'[i]) = Num(net[1])
                                 /\ IsHead(buf'[i]) => IsHead(net[1])
  BY <1>3, <1>7
<1>11. \A j \in DOMAIN toPeer' : /\ toPeer'[j].req.n <= Top'
                                 /\ \A i \in DOMAIN net' : Num(net'[i]) < toPeer'[j].req.n
                                 /\ \A i \in DOMAIN buf' : Num(buf'[i]) < toPeer'[j].req.n
  BY <1>2, <1>5, <1>10 DEF LineOrder
<1>12. /\ \A i \in DOMAIN net' : Num(net'[i]) <= Top'
       /\ \A i \in DOMAIN buf' : Num(buf'[i]) <= Top'
  BY <1>2, <1>5, <1>10 DEF LineOrder
<1>13. LineOrder'
  BY <1>2, <1>6, <1>8, <1>9, <1>11, <1>12 DEF LineOrder
<1>14. NewestIsPast => NewestIsPast'
  BY <1>2, <1>5, <1>10 DEF NewestIsPast
<1>15. QED
  BY <1>13, <1>14

\* What one pass of the peer does to the line.
LEMMA PeerServeParts ==
    ASSUME Typed, Typed', NEW k \in 1 .. Len(toPeer), PeerServe(k)
    PROVE  /\ UNCHANGED <<pc, inst, buf, orphans, newest, last>>
           /\ 1 \in DOMAIN toPeer
           /\ \A i \in DOMAIN toPeer' : /\ i + k \in DOMAIN toPeer /\ 1 < i + k
                                        /\ toPeer'[i] = toPeer[i + k]
           /\ \A i \in DOMAIN net : i \in DOMAIN net' /\ net'[i] = net[i]
           /\ \A i \in DOMAIN net' :
                 \/ i \in DOMAIN net
                 \/ /\ i = Len(net) + 1
                    /\ net'[i].rep.req = toPeer[1].req /\ net'[i].part = "all"
                    /\ \/ ~toPeer[1].whole
                       \/ toPeer[1].req.n \in
                            IF net'[i].rep.kind = "ok" THEN executed' ELSE refused'
           /\ \/ UNCHANGED <<executed, refused>>
              \/ /\ toPeer[1].whole
                 /\ \/ executed' = executed \cup {toPeer[1].req.n} /\ UNCHANGED refused
                    \/ refused' = refused \cup {toPeer[1].req.n} /\ UNCHANGED executed
<1>1. /\ DOMAIN toPeer = 1 .. Len(toPeer) /\ Len(toPeer) \in Nat
      /\ DOMAIN toPeer' = 1 .. Len(toPeer') /\ Len(toPeer') \in Nat
      /\ DOMAIN net = 1 .. Len(net) /\ Len(net) \in Nat
      /\ DOMAIN net' = 1 .. Len(net') /\ Len(net') \in Nat
      /\ net \in Seq(PieceOf(Request)) /\ toPeer \in Seq(SentOf(Request))
  BY LenProperties DEF Typed, TypeOK, LineOver
<1>2. UNCHANGED <<pc, inst, buf, orphans, newest, last>> /\ 1 \in DOMAIN toPeer
  <2>1. UNCHANGED <<pc, inst, buf, orphans, newest, last>>
    BY DEF PeerServe, ghost
  <2>2. 1 \in DOMAIN toPeer
    BY <1>1
  <2>3. QED
    BY <2>1, <2>2
<1>3. \A i \in DOMAIN toPeer' : /\ i + k \in DOMAIN toPeer /\ 1 < i + k
                                /\ toPeer'[i] = toPeer[i + k]
  <2>1. \A i \in (k + 1) .. Len(toPeer) : toPeer[i] \in SentOf(Request)
    BY <1>1, ElementOfSeq
  <2>2. k + 1 \in Int /\ Len(toPeer) \in Int
    BY <1>1
  <2>3. /\ Len(toPeer') = IF k + 1 <= Len(toPeer) THEN Len(toPeer) - (k + 1) + 1 ELSE 0
        /\ \A i \in 1 .. Len(toPeer) - (k + 1) + 1 : toPeer'[i] = toPeer[k + 1 + i - 1]
    <3>1. toPeer' = SubSeq(toPeer, k + 1, Len(toPeer))
      BY DEF PeerServe
    <3>2. QED
      BY <2>1, <2>2, <3>1, SubSeqProperties
  <2>4. TAKE i \in DOMAIN toPeer'
  <2>5. /\ i \in 1 .. Len(toPeer) - (k + 1) + 1 /\ k + 1 + i - 1 = i + k
        /\ i + k \in DOMAIN toPeer /\ 1 < i + k
    BY <1>1, <2>3
  <2>6. QED
    BY <2>3, <2>5
<1>4. ASSUME NEW kind \in {"ok", "exc"},
             net' = Append(net, [rep |-> [req |-> toPeer[1].req, kind |-> kind],
                                 part |-> "all"])
      PROVE  /\ \A i \in DOMAIN net : i \in DOMAIN net' /\ net'[i] = net[i]
             /\ \A i \in DOMAIN net' :
                   \/ i \in DOMAIN net
                   \/ /\ i = Len(net) + 1 /\ net'[i].rep.kind = kind
                      /\ net'[i].rep.req = toPeer[1].req /\ net'[i].part = "all"
  <2> DEFINE e == [rep |-> [req |-> toPeer[1].req, kind |-> kind], part |-> "all"]
  <2>1. toPeer[1] \in SentOf(Request)
    BY <1>1, <1>2, ElementOfSeq
  <2>2. e \in PieceOf(Request) /\ net' = Append(net, e)
    BY <1>4, <2>1 DEF SentOf, PieceOf, ReplyOf
  <2>3. e.rep.kind = kind /\ e.rep.req = toPeer[1].req /\ e.part = "all"
    OBVIOUS
  <2> HIDE DEF e
  <2>4. /\ Len(net') = Len(net) + 1 /\ net'[Len(net) + 1] = e
        /\ \A i \in 1 .. Len(net) : net'[i] = net[i]
    BY <1>1, <2>2, AppendProperties
  <2>5. QED
    BY <1>1, <2>3, <2>4
<1>5. CASE UNCHANGED <<net, executed, refused>>
  BY <1>2, <1>3, <1>5
<1>6. CASE /\ toPeer[1].whole
           /\ net' = Append(net, [rep |-> [req |-> toPeer[1].req, kind |-> "ok"],
                                  part |-> "all"])
           /\ executed' = executed \cup {toPeer[1].req.n} /\ UNCHANGED refused
  BY <1>2, <1>3, <1>4, <1>6
<1>7. CASE /\ toPeer[1].whole
           /\ net' = Append(net, [rep |-> [req |-> toPeer[1].req, kind |-> "exc"],
                                  part |-> "all"])
           /\ refused' = refused \cup {toPeer[1].req.n} /\ UNCHANGED executed
  BY <1>2, <1>3, <1>4, <1>7
<1>8. ASSUME ~toPeer[1].whole, UNCHANGED <<executed, refused>>, NEW kind \in {"ok", "exc"},
             net' = Append(net, [rep |-> [req |-> toPeer[1].req, kind |-> kind],
                                 part |-> "all"])
      PROVE  /\ \A i \in DOMAIN net : i \in DOMAIN net' /\ net'[i] = net[i]
             /\ \A i \in DOMAIN net' :
                   \/ i \in DOMAIN net
                   \/ /\ i = Len(net) + 1 /\ net'[i].rep.req = toPeer[1].req
                      /\ net'[i].part = "all"
  BY <1>4, <1>8
<1>9. QED
  BY <1>2, <1>3, <1>5, <1>6, <1>7, <1>8 DEF PeerServe, peer

\* The reply to the oldest request goes behind all others.
LEMMA ServeOrder ==
    ASSUME Typed, Typed', LineOrder, NEW k \in 1 .. Len(toPeer), PeerServe(k)
    PROVE  /\ LineOrder'
           /\ NewestIsPast => NewestIsPast'
<1>1. /\ \A i \in DOMAIN toPeer : toPeer[i].req.n \in Int
      /\ \A i \in DOMAIN net : Num(net[i]) \in Int
      /\ DOMAIN toPeer = 1 .. Len(toPeer) /\ Len(toPeer) \in Nat
      /\ DOMAIN net = 1 .. Len(net) /\ Len(net) \in Nat
      /\ DOMAIN net' = 1 .. Len(net') /\ DOMAIN toPeer' = 1 .. Len(toPeer')
  BY LineFields, LenProperties DEF Typed, TypeOK, LineOver
<1>2. UNCHANGED <<buf, newest>> /\ Top' = Top
  BY PeerServeParts DEF Top, inst
<1>3. \A i \in DOMAIN toPeer' : /\ i + k \in DOMAIN toPeer /\ 1 < i + k
                                /\ toPeer'[i] = toPeer[i + k]
  BY PeerServeParts
<1>4. 1 \in DOMAIN toPeer
  BY PeerServeParts
<1>5. \A i \in DOMAIN net' : \/ i \in DOMAIN net /\ net'[i] = net[i]
                             \/ i = Len(net) + 1 /\ Num(net'[i]) = toPeer[1].req.n
  BY PeerServeParts DEF Num
<1>6. \A i, j \in DOMAIN toPeer' : i < j => toPeer'[i].req.n < toPeer'[j].req.n
  BY <1>1, <1>3 DEF LineOrder
<1>7. \A i, j \in DOMAIN net' : i < j => Before(net'[i], net'[j])
  <2> TAKE i, j \in DOMAIN net'
  <2> HAVE i < j
  <2>1. i \in DOMAIN net /\ net'[i] = net[i]
    BY <1>1, <1>5
  <2>2. CASE j \in DOMAIN net /\ net'[j] = net[j]
    BY <2>1, <2>2 DEF LineOrder
  <2>3. CASE Num(net'[j]) = toPeer[1].req.n
    <3>1. Num(net[i]) < toPeer[1].req.n
      BY <1>4, <2>1 DEF LineOrder
    <3>2. QED
      BY <1>1, <1>4, <2>1, <2>3, <3>1 DEF Before
  <2>4. QED
    BY <1>5, <2>2, <2>3
<1>8. \A i \in DOMAIN buf', j \in DOMAIN net' : Before(buf'[i], net'[j])
  <2> TAKE i \in DOMAIN buf', j \in DOMAIN net'
  <2>1. CASE j \in DOMAIN net /\ net'[j] = net[j]
    BY <1>2, <2>1 DEF LineOrder
  <2>2. CASE Num(net'[j]) = toPeer[1].req.n
    <3>1. Num(buf[i]) < toPeer[1].req.n /\ Num(buf[i]) \in Int
      BY <1>2, <1>4, LineFields DEF LineOrder, Typed, TypeOK
    <3>2. QED
      BY <1>1, <1>2, <1>4, <2>2, <3>1 DEF Before
  <2>3. QED
    BY <1>5, <2>1, <2>2
<1>9. \A j \in DOMAIN toPeer' : /\ toPeer'[j].req.n <= Top'
                                /\ \A i \in DOMAIN net' : Num(net'[i]) < toPeer'[j].req.n
                                /\ \A i \in DOMAIN buf' : Num(buf'[i]) < toPeer'[j].req.n
  BY <1>2, <1>3, <1>4, <1>5 DEF LineOrder
<1>10. \A i \in DOMAIN net' : Num(net'[i]) <= Top'
  BY <1>2, <1>4, <1>5 DEF LineOrder
<1>11. LineOrder'
  BY <1>2, <1>6, <1>7, <1>8, <1>9, <1>10 DEF LineOrder
<1>12. NewestIsPast => NewestIsPast'
  BY <1>2, <1>3, <1>4, <1>5 DEF NewestIsPast
<1>13. QED
  BY <1>11, <1>12

\* A request is sent, in whole or in part, behind all others.
LEMMA SendParts ==
    ASSUME Typed, Typed', SendOk \/ SendPart
    PROVE  /\ pc = "send" /\ Top' = Top + 1 /\ Top + 1 = cur.n /\ cur.n = calls
           /\ UNCHANGED <<inst, orphans, net, peer>> /\ newest' = newest
           /\ buf = <<>> /\ buf' = <<>>
           /\ \A i \in DOMAIN toPeer' :
                 \/ i \in DOMAIN toPeer /\ toPeer'[i] = toPeer[i]
                 \/ /\ i = Len(toPeer) + 1 /\ toPeer'[i].req = cur
                    /\ toPeer'[i].whole = (pc' = "recv")
<1>1. /\ pc = "send" /\ pc' \in {"recv", "idle"} /\ UNCHANGED <<inst, orphans, net, peer>>
      /\ newest' = newest /\ cur \in Request /\ cur.n = calls /\ buf = <<>> /\ buf' = <<>>
  BY DEF SendOk, SendPart, Fail, Return, ghost, Typed, TypeOK, CallsAccounted
<1>2. calls' = calls /\ calls \in Int /\ Top' = Top + 1 /\ Top + 1 = cur.n
  BY <1>1, BoundAssumption DEF inst, Top, Typed, TypeOK
<1>3. /\ DOMAIN toPeer = 1 .. Len(toPeer) /\ Len(toPeer) \in Nat
      /\ toPeer \in Seq(SentOf(Request)) /\ DOMAIN toPeer' = 1 .. Len(toPeer')
  BY LenProperties DEF Typed, TypeOK, LineOver
<1>4. \/ toPeer' = toPeer
      \/ toPeer' = Append(toPeer, [req |-> cur, whole |-> (pc' = "recv")])
  BY DEF SendOk, SendPart, Fail, Return
<1> DEFINE s == [req |-> cur, whole |-> (pc' = "recv")]
<1>5. s \in SentOf(Request) /\ s.req = cur /\ s.whole = (pc' = "recv")
  BY <1>1 DEF SentOf
<1>6. toPeer' = toPeer \/ toPeer' = Append(toPeer, s)
  BY <1>4
<1> HIDE DEF s
<1>7. CASE toPeer' = Append(toPeer, s)
  <2>1. /\ Len(toPeer') = Len(toPeer) + 1 /\ toPeer'[Len(toPeer) + 1] = s
        /\ \A i \in 1 .. Len(toPeer) : toPeer'[i] = toPeer[i]
    BY <1>3, <1>5, <1>7, AppendProperties
  <2>2. \A i \in DOMAIN toPeer' : \/ i \in DOMAIN toPeer /\ toPeer'[i] = toPeer[i]
                                  \/ i = Len(toPeer) + 1 /\ toPeer'[i] = s
    BY <1>3, <2>1
  <2>3. QED
    BY <1>1, <1>2, <1>5, <2>2
<1>8. QED
  BY <1>1, <1>2, <1>6, <1>7

LEMMA SendOrder ==
    ASSUME Typed, Typed', LineOrder, SendOk \/ SendPart
    PROVE  /\ LineOrder'
           /\ NewestIsPast => NewestIsPast'
<1>1. /\ \A i \in DOMAIN toPeer : toPeer[i].req.n \in Int
      /\ \A i \in DOMAIN net : Num(net[i]) \in Int
      /\ DOMAIN toPeer = 1 .. Len(toPeer) /\ Len(toPeer) \in Nat
      /\ DOMAIN toPeer' = 1 .. Len(toPeer')
  BY LineFields, LenProperties DEF Typed, TypeOK, LineOver
<1>2. /\ UNCHANGED <<net, newest>> /\ buf' = <<>> /\ Top' = Top + 1 /\ cur.n = Top + 1
      /\ Top \in Int /\ newest \in Int
  <2>1. Top \in Int /\ newest \in Int
    BY BoundAssumption DEF Top, Typed, TypeOK
  <2>2. QED
    BY <2>1, SendParts
<1>3. \A i \in DOMAIN toPeer' :
         \/ i \in DOMAIN toPeer /\ toPeer'[i] = toPeer[i]
         \/ i = Len(toPeer) + 1 /\ toPeer'[i].req.n = Top + 1
  BY <1>2, SendParts
<1>4. \A i, j \in DOMAIN toPeer' : i < j => toPeer'[i].req.n < toPeer'[j].req.n
  <2> TAKE i, j \in DOMAIN toPeer'
  <2> HAVE i < j
  <2>1. i \in DOMAIN toPeer /\ toPeer'[i] = toPeer[i]
    BY <1>1, <1>3
  <2>2. toPeer[i].req.n <= Top
    BY <2>1 DEF LineOrder
  <2>3. QED
    BY <1>1, <1>2, <1>3, <2>1, <2>2 DEF LineOrder
<1>5. \A i, j \in DOMAIN net' : i < j => Before(net'[i], net'[j])
  BY <1>2 DEF LineOrder
<1>6. \A j \in DOMAIN toPeer' : /\ toPeer'[j].req.n <= Top'
                                /\ \A i \in DOMAIN net' : Num(net'[i]) < toPeer'[j].req.n
  BY <1>1, <1>2, <1>3 DEF LineOrder
<1>7. \A i \in DOMAIN net' : Num(net'[i]) <= Top'
  BY <1>1, <1>2 DEF LineOrder
<1>8. DOMAIN buf' = {}
  BY <1>2
<1>9. LineOrder'
  BY <1>4, <1>5, <1>6, <1>7, <1>8 DEF LineOrder
<1>10. NewestIsPast => NewestIsPast'
  BY <1>1, <1>2, <1>3, <1>8 DEF NewestIsPast
<1>11. QED
  BY <1>9, <1>10

LEMMA StartParts ==
    ASSUME Typed, StartStep
    PROVE  /\ pc = "idle" /\ pc' = "send" /\ calls' = calls + 1 /\ calls < MaxCalls
           /\ calls \in Int /\ Top = calls /\ Top' = calls
           /\ UNCHANGED <<line, buf, peer, ghost>>
<1>1. /\ pc = "idle" /\ pc' = "send" /\ calls' = calls + 1 /\ calls < MaxCalls
      /\ UNCHANGED <<line, buf, peer, ghost>>
  BY DEF StartStep, StartCall
<1>2. calls \in Int
  BY BoundAssumption DEF Typed, TypeOK
<1>3. QED
  BY <1>1, <1>2 DEF Top

\* Nothing overtakes on the line, whatever is lost, cut or given up.
LEMMA LineOrderStep ==
    ASSUME Typed, LineOrder, [Next]_vars
    PROVE  LineOrder'
<1>1. Typed'
  BY TypedStep
<1>2. CASE StartStep
  <2>1. UNCHANGED <<toPeer, net, buf>> /\ Top' = Top
    BY <1>2, StartParts DEF line
  <2>2. QED
    BY <2>1 DEF LineOrder
<1>3. CASE ~BusyStep
  BY <1>1, <1>3, OthersThin, ThinOrder
<1>4. QED
  BY <1>1, <1>2, <1>3, SendOrder, CollectOrder, ServeOrder DEF BusyStep

LEMMA LineOrderInit == Init => LineOrder
<1>1. ASSUME Init PROVE DOMAIN toPeer = {} /\ DOMAIN net = {} /\ DOMAIN buf = {}
  BY <1>1 DEF Init
<1>2. QED
  BY <1>1 DEF LineOrder

\* A reply is taken if all of it was collected, and is then newer than the one
\* taken before, and older than what is still on the line.
LEMMA TakeInOrder ==
    ASSUME WholeFramesOnly, Typed, Typed', LineOrder, NewestIsPast, pc = "recv", buf # <<>>,
           NEW f \in Parsed(buf), Accepted(f), NEW v, Return(v, f.src),
           UNCHANGED <<inst, line>>
    PROVE  NewestIsPast' /\ last'.src > newest
<1>1. IsWhole(buf) /\ f = FrmOf(buf[1].rep)
  BY AcceptedIsWhole
<1>2. f.src = Num(buf[1]) /\ IsHead(buf[1])
  BY <1>1 DEF FrmOf, Frm, IsWhole, Num, IsHead
<1>3. 1 \in DOMAIN buf /\ Num(buf[1]) \in Int
  <2>1. LineOver(Request)
    BY DEF Typed, TypeOK
  <2>2. /\ DOMAIN buf = 1 .. Len(buf) /\ Len(buf) \in Nat
        /\ \A i \in DOMAIN buf : Num(buf[i]) \in Int
    BY <2>1, LineFields
  <2>3. Len(buf) # 0
    BY <2>1, EmptySeq DEF LineOver
  <2>4. QED
    BY <2>2, <2>3
<1>4. newest < f.src /\ f.src <= Top
  BY <1>2, <1>3 DEF NewestIsPast, LineOrder
<1>5. newest \in Nat /\ f.src \in Int
  <2>1. newest \in Nat
    BY BoundAssumption DEF Typed, TypeOK
  <2>2. QED
    BY <1>2, <1>3, <2>1
<1>6. newest' = f.src /\ last'.src = f.src /\ buf' = <<>> /\ pc' = "idle"
  BY <1>4, <1>5 DEF Return
<1>7. UNCHANGED <<toPeer, net>> /\ Top' = Top
  BY <1>6 DEF inst, line, Top
<1>8. \A j \in DOMAIN toPeer : f.src < toPeer[j].req.n
  BY <1>2, <1>3 DEF LineOrder
<1>9. \A i \in DOMAIN net : IsHead(net[i]) => f.src < Num(net[i])
  BY <1>2, <1>3 DEF LineOrder, Before
<1>10. DOMAIN buf' = {}
  BY <1>6
<1>11. NewestIsPast'
  BY <1>4, <1>6, <1>7, <1>8, <1>9, <1>10 DEF NewestIsPast
<1>12. QED
  BY <1>4, <1>5, <1>6, <1>11

LEMMA ThinNewest ==
    ASSUME Typed, Typed', NewestIsPast, UNCHANGED newest,
           Within(toPeer', toPeer), Thinned(net', net),
           buf' \in {buf, <<>>}, UNCHANGED calls, pc' \in {pc, "idle"}
    PROVE  NewestIsPast'
<1>1. Top \in Int /\ Top' \in Int /\ newest \in Int /\ Top <= Top'
  BY BoundAssumption DEF Top, Typed, TypeOK
<1>2. \A i \in DOMAIN buf' : i \in DOMAIN buf /\ buf'[i] = buf[i]
  OBVIOUS
<1>3. \A j \in DOMAIN toPeer' : newest' < toPeer'[j].req.n
  BY DEF NewestIsPast, Within
<1>4. \A i \in DOMAIN net' : IsHead(net'[i]) => newest' < Num(net'[i])
  BY DEF NewestIsPast, Thinned, IsHead, Num
<1>5. \A i \in DOMAIN buf' : IsHead(buf'[i]) => newest' < Num(buf'[i])
  BY <1>2 DEF NewestIsPast
<1>6. newest' <= Top'
  BY <1>1 DEF NewestIsPast
<1>7. QED
  BY <1>3, <1>4, <1>5, <1>6 DEF NewestIsPast

LEMMA NewestStep ==
    ASSUME WholeFramesOnly, Typed, LineOrder, NewestIsPast, [Next]_vars
    PROVE  /\ NewestIsPast'
           /\ pc = "recv" /\ pc' = "idle" /\ last'.src # 0 => last'.src > newest
<1>1. Typed'
  BY TypedStep
<1>2. CASE /\ pc = "recv" /\ buf # <<>>
           /\ \E f \in Parsed(buf) : Accepted(f) /\ \E v \in Result(f) : Return(v, f.src)
           /\ UNCHANGED <<inst, line>>
  BY <1>1, <1>2, TakeInOrder
<1>3. CASE /\ UNCHANGED newest
           /\ pc = "recv" /\ pc' = "idle" => last'.src = 0
  <2>1. CASE StartStep
    <3>1. UNCHANGED <<toPeer, net, buf, newest>> /\ Top' = Top
      BY <2>1, StartParts DEF line, ghost
    <3>2. QED
      BY <1>3, <3>1 DEF NewestIsPast
  <2>2. CASE ~BusyStep
    BY <1>1, <1>3, <2>2, OthersThin, ThinNewest
  <2>3. QED
    BY <1>1, <1>3, <2>1, <2>2, SendOrder, CollectOrder, ServeOrder DEF BusyStep
<1>4. QED
  <2>1. CASE UNCHANGED <<last, newest>> /\ (pc' = "idle" => pc = "idle")
    BY <1>3, <2>1
  <2>2. CASE last' = [n |-> cur.n, ret |-> 0, src |-> 0, clean |-> clean]
             /\ UNCHANGED newest
    BY <1>3, <2>2
  <2>3. QED
    BY <1>2, <2>1, <2>2, HowACallEnds

LEMMA NewestInit == Init => NewestIsPast
<1>1. ASSUME Init
      PROVE  DOMAIN toPeer = {} /\ DOMAIN net = {} /\ DOMAIN buf = {} /\ newest <= Top
  BY <1>1 DEF Init, Top
<1>2. QED
  BY <1>1 DEF NewestIsPast

\* Each reply is taken once at most, and never after the reply to a later
\* call, however many replies were late, lost or cut.
THEOREM RepliesTakenInOrder == ASSUME WholeFramesOnly PROVE Spec => RepliesInOrder
<1> DEFINE InTurn == pc = "recv" /\ pc' = "idle" /\ last'.src # 0 => last'.src > newest
<1>1. Typed /\ LineOrder /\ NewestIsPast /\ [Next]_vars => InTurn
  BY NewestStep
<1>2. Typed /\ LineOrder /\ NewestIsPast /\ [Next]_vars => NewestIsPast'
  BY NewestStep
<1>3. [](Typed /\ LineOrder /\ NewestIsPast) /\ [][Next]_vars => [][InTurn]_vars
  BY <1>1, PTL
<1>4. QED
  BY <1>2, <1>3, TypedInit, TypedStep, LineOrderInit, LineOrderStep, NewestInit, PTL
     DEF Spec, RepliesInOrder

-----------------------------------------------------------------------------
(* What the replies say of the peer.                                       *)

\* A whole request the peer can still read has been decided by nobody, and is
\* the only one of its call.
Undecided ==
    /\ executed \cup refused \subseteq 1 .. Top
    /\ \A r \in orphans : r.n <= Top /\ r.n \notin executed \cup refused
    /\ \A r, s \in orphans : r.n = s.n => r = s
    /\ \A j \in DOMAIN toPeer :
          toPeer[j].whole => /\ toPeer[j].req.n \notin executed \cup refused
                             /\ \A r \in orphans : r.n # toPeer[j].req.n

\* The call in progress has not left a fragment on the line, and a reply to it
\* tells the truth.
Tells(p) == pc # "idle" /\ Num(p) = calls =>
                calls \in IF p.rep.kind = "ok" THEN executed ELSE refused

Truthful ==
    /\ \A j \in DOMAIN toPeer :
          pc # "idle" /\ toPeer[j].req.n = calls => toPeer[j].whole
    /\ \A i \in DOMAIN net : Tells(net[i])
    /\ \A i \in DOMAIN buf : Tells(buf[i])


\* Steps that leave the requests on their way to the peer and its decisions
\* alone, but for requests that are lost.
Uninvolved == /\ UNCHANGED <<orphans, executed, refused, calls>>
              /\ pc' \in {pc, "idle"}
              /\ Within(toPeer', toPeer)

LEMMA UninvolvedStep ==
    ASSUME Typed, Typed', Undecided, Uninvolved
    PROVE  Undecided'
<1>1. Top \in Int /\ Top' \in Int /\ Top <= Top'
  BY BoundAssumption DEF Uninvolved, Top, Typed, TypeOK
<1>2. executed \cup refused \subseteq 1 .. Top'
  BY <1>1 DEF Undecided
<1>3. \A r \in orphans : r.n <= Top'
  BY <1>1 DEF Undecided, Typed, TypeOK, Request
<1>4. \A j \in DOMAIN toPeer' :
         toPeer'[j].whole => /\ toPeer'[j].req.n \notin executed \cup refused
                             /\ \A r \in orphans : r.n # toPeer'[j].req.n
  BY DEF Undecided, Uninvolved, Within
<1>5. QED
  BY <1>2, <1>3, <1>4 DEF Undecided, Uninvolved

LEMMA HangupUndecided ==
    ASSUME Typed, Typed', LineOrder, Undecided, Hangup,
           UNCHANGED <<executed, refused, calls>>, pc' \in {pc, "idle"}
    PROVE  Undecided'
<1>1. CASE Backend = "RTU"
  <2>1. UNCHANGED <<toPeer, orphans>>
    BY <1>1 DEF Hangup
  <2>2. QED
    BY <2>1, UninvolvedStep, WithinItself DEF Uninvolved
<1>2. CASE Backend = "TCP"
  <2>1. /\ toPeer' = <<>>
        /\ \A r \in orphans' : \/ r \in orphans
                               \/ \E j \in DOMAIN toPeer : toPeer[j].whole /\ r = toPeer[j].req
    BY <1>2 DEF Hangup
  <2>2. Top \in Int /\ Top' \in Int /\ Top <= Top'
    BY BoundAssumption DEF Top, Typed, TypeOK
  <2>3. executed' \cup refused' \subseteq 1 .. Top'
    BY <2>2 DEF Undecided
  <2>4. \A r \in orphans' : r.n <= Top' /\ r.n \notin executed \cup refused
    <3>1. \A r \in orphans' : r.n <= Top /\ r.n \notin executed \cup refused
      BY <2>1 DEF Undecided, LineOrder
    <3>2. \A r \in orphans' : r.n \in Int
      BY DEF Typed, TypeOK, Request
    <3>3. QED
      BY <2>2, <3>1, <3>2
  <2>5. \A r, s \in orphans' : r.n = s.n => r = s
    <3>1. \A i, j \in DOMAIN toPeer : toPeer[i].req.n = toPeer[j].req.n => i = j
      <4>1. \A i, j \in DOMAIN toPeer : i \in Int /\ j \in Int
        BY LineFields DEF Typed, TypeOK
      <4>2. \A i, j \in DOMAIN toPeer : i < j => toPeer[i].req.n # toPeer[j].req.n
        <5>1. \A j \in DOMAIN toPeer : toPeer[j].req.n \in Int
          BY LineFields DEF Typed, TypeOK
        <5>2. \A i, j \in DOMAIN toPeer : i < j => toPeer[i].req.n < toPeer[j].req.n
          BY DEF LineOrder
        <5>3. QED
          BY <5>1, <5>2
      <4>3. QED
        BY <4>1, <4>2
    <3>2. QED
      BY <2>1, <3>1 DEF Undecided
  <2>6. QED
    BY <2>1, <2>3, <2>4, <2>5 DEF Undecided
<1>3. QED
  BY <1>1, <1>2, ConfigAssumption

LEMMA UndecidedStep ==
    ASSUME Typed, LineOrder, Undecided, [Next]_vars
    PROVE  Undecided'
<1>1. Typed'
  BY TypedStep
<1>2. /\ \A j \in DOMAIN toPeer : toPeer[j].req.n \in Int /\ toPeer[j].req.n >= 1
      /\ \A r \in orphans : r.n \in Int /\ r.n >= 1
      /\ Top \in Int /\ Top' \in Int
  <2>1. toPeer \in Seq(SentOf(Request))
    BY DEF Typed, TypeOK, LineOver
  <2>2. \A j \in DOMAIN toPeer : toPeer[j] \in SentOf(Request)
    BY <2>1, LenProperties, ElementOfSeq
  <2>3. \A j \in DOMAIN toPeer : toPeer[j].req \in Request
    BY <2>2 DEF SentOf
  <2>4. \A r \in Request : r.n \in Int /\ r.n >= 1
    BY BoundAssumption DEF Request
  <2>5. Top \in Int /\ Top' \in Int
    BY <1>1, BoundAssumption DEF Top, Typed, TypeOK
  <2>6. QED
    BY <2>3, <2>4, <2>5 DEF Typed, TypeOK
<1>3. CASE StartStep
  <2>1. UNCHANGED <<orphans, executed, refused, toPeer>> /\ Top' = Top
    BY <1>3, StartParts DEF line, peer
  <2>2. QED
    BY <2>1 DEF Undecided
<1>4. CASE SendOk \/ SendPart
  <2>1. /\ UNCHANGED <<orphans, executed, refused>> /\ Top' = Top + 1
        /\ \A i \in DOMAIN toPeer' : \/ i \in DOMAIN toPeer /\ toPeer'[i] = toPeer[i]
                                     \/ toPeer'[i].req.n = Top + 1
    <3>1. UNCHANGED <<orphans, executed, refused>> /\ Top' = Top + 1
      BY <1>1, <1>4, SendParts DEF peer
    <3>2. cur.n = Top + 1
      BY <1>1, <1>4, SendParts
    <3>3. \A i \in DOMAIN toPeer' : \/ i \in DOMAIN toPeer /\ toPeer'[i] = toPeer[i]
                                    \/ toPeer'[i].req = cur
      BY <1>1, <1>4, SendParts
    <3>4. QED
      BY <3>1, <3>2, <3>3
  <2>2. executed \cup refused \subseteq 1 .. Top + 1 /\ Top + 1 \notin executed \cup refused
    BY <1>2 DEF Undecided
  <2>3. \A r \in orphans : r.n <= Top + 1 /\ r.n # Top + 1
    BY <1>2 DEF Undecided
  <2>4. QED
    BY <2>1, <2>2, <2>3 DEF Undecided
<1>5. CASE RecvPiece \/ \E cut \in Cuts : RecvPart(cut)
  <2>1. UNCHANGED <<orphans, executed, refused, toPeer, pc, calls>>
    BY <1>5, CollectParts DEF inst, peer
  <2>2. QED
    BY <1>1, <2>1, UninvolvedStep, WithinItself DEF Uninvolved
<1>6. ASSUME NEW k \in 1 .. Len(toPeer), PeerServe(k) PROVE Undecided'
  <2>1. /\ UNCHANGED orphans /\ Top' = Top /\ 1 \in DOMAIN toPeer
        /\ \A i \in DOMAIN toPeer' : /\ i + k \in DOMAIN toPeer /\ 1 < i + k
                                     /\ toPeer'[i] = toPeer[i + k]
    BY <1>1, <1>6, PeerServeParts DEF Top, inst
  <2>2. \/ UNCHANGED <<executed, refused>>
        \/ /\ toPeer[1].whole
           /\ executed' \cup refused' = executed \cup refused \cup {toPeer[1].req.n}
    BY <1>1, <1>6, PeerServeParts
  <2>3. \A i \in DOMAIN toPeer' :
           toPeer'[i].whole => /\ toPeer'[i].req.n \notin executed \cup refused
                               /\ toPeer'[i].req.n # toPeer[1].req.n
                               /\ \A r \in orphans : r.n # toPeer'[i].req.n
    BY <1>2, <2>1 DEF Undecided, LineOrder
  <2>4. toPeer[1].req.n \in 1 .. Top
    BY <1>2, <2>1 DEF LineOrder
  <2>5. toPeer[1].whole => \A r \in orphans : r.n # toPeer[1].req.n
    BY <2>1 DEF Undecided
  <2>6. executed' \cup refused' \subseteq 1 .. Top
    BY <2>2, <2>4 DEF Undecided
  <2>7. \A r \in orphans : r.n <= Top /\ r.n \notin executed' \cup refused'
    BY <2>2, <2>5 DEF Undecided
  <2>8. \A i \in DOMAIN toPeer' :
           toPeer'[i].whole => /\ toPeer'[i].req.n \notin executed' \cup refused'
                               /\ \A r \in orphans : r.n # toPeer'[i].req.n
    BY <2>2, <2>3
  <2>9. QED
    BY <2>1, <2>6, <2>7, <2>8 DEF Undecided
<1>7. ASSUME NEW r \in orphans, ServeOrphan(r) PROVE Undecided'
  <2>1. /\ orphans' = orphans \ {r} /\ UNCHANGED toPeer /\ Top' = Top
        /\ executed' \cup refused' = executed \cup refused \cup {r.n}
    BY <1>7 DEF ServeOrphan, Top, inst
  <2>2. r.n \in 1 .. Top
    BY <1>2 DEF Undecided
  <2>3. QED
    BY <2>1, <2>2 DEF Undecided
<1>8. CASE Disconnect \/ RecvErr \/ (SendErr /\ open)
  BY <1>1, <1>8, HangupUndecided DEF Disconnect, RecvErr, SendErr, Fail, Return, inst, peer
<1>9. CASE /\ ~BusyStep /\ ~Disconnect /\ ~RecvErr /\ ~(SendErr /\ open)
           /\ ~\E r \in orphans : ServeOrphan(r)
  <2>1. Within(toPeer', toPeer) /\ UNCHANGED calls /\ pc' \in {pc, "idle"}
    BY <1>9, OthersThin
  <2>2. UNCHANGED <<orphans, executed, refused>>
    BY <1>9 DEF BusyStep, StartStep, Next, Connect, Flush, SetSlave, SendErr, RecvTimeout,
       RecvDone, PeerClose, Disturb, peer, line, vars
  <2>3. QED
    BY <1>1, <2>1, <2>2, UninvolvedStep DEF Uninvolved
<1>10. QED
  BY <1>3, <1>4, <1>5, <1>6, <1>7, <1>8, <1>9 DEF BusyStep

LEMMA UndecidedInit == Init => Undecided
<1>1. ASSUME Init
      PROVE  DOMAIN toPeer = {} /\ orphans = {} /\ executed = {} /\ refused = {}
  BY <1>1 DEF Init
<1>2. QED
  BY <1>1 DEF Undecided

\* A reply that tells the truth goes on telling it.
LEMMA TellsOn ==
    ASSUME NEW p, NEW q, Tells(p), q.rep = p.rep, UNCHANGED calls, pc' \in {pc, "idle"},
           executed \subseteq executed', refused \subseteq refused'
    PROVE  Tells(q)'
BY DEF Tells, Num

LEMMA TruthfulStep ==
    ASSUME Typed, LineOrder, Truthful, [Next]_vars
    PROVE  Truthful'
<1>1. Typed'
  BY TypedStep
<1>2. /\ \A j \in DOMAIN toPeer : toPeer[j].req.n \in Int
      /\ \A i \in DOMAIN net : Num(net[i]) \in Int
      /\ \A i \in DOMAIN buf : Num(buf[i]) \in Int
  BY LineFields DEF Typed, TypeOK
<1>3. CASE StartStep
  <2>1. /\ UNCHANGED <<toPeer, net, buf>> /\ calls' = Top + 1 /\ Top \in Int
    BY <1>3, StartParts DEF line
  <2>2. /\ \A j \in DOMAIN toPeer : toPeer[j].req.n # calls'
        /\ \A i \in DOMAIN net : Num(net[i]) # calls'
        /\ \A i \in DOMAIN buf : Num(buf[i]) # calls'
    BY <1>2, <2>1 DEF LineOrder
  <2>3. QED
    BY <2>1, <2>2 DEF Truthful, Tells, Num
<1>4. CASE SendOk \/ SendPart
  <2>1. /\ UNCHANGED net /\ buf' = <<>> /\ calls' = Top + 1 /\ Top \in Int
        /\ \A i \in DOMAIN toPeer' :
              \/ i \in DOMAIN toPeer /\ toPeer'[i] = toPeer[i]
              \/ toPeer'[i].whole = (pc' = "recv")
    <3>1. Top \in Int
      BY BoundAssumption DEF Top, Typed, TypeOK
    <3>2. UNCHANGED net /\ buf' = <<>> /\ calls' = Top + 1
      BY <1>1, <1>4, SendParts DEF inst
    <3>3. QED
      BY <1>1, <1>4, <3>1, <3>2, SendParts
  <2>2. pc' # "idle" => pc' = "recv"
    BY <1>4 DEF SendOk, SendPart, Fail, Return
  <2>3. /\ \A j \in DOMAIN toPeer : toPeer[j].req.n # calls'
        /\ \A i \in DOMAIN net : Num(net[i]) # calls'
    BY <1>2, <2>1 DEF LineOrder
  <2>4. \A j \in DOMAIN toPeer' :
           pc' # "idle" /\ toPeer'[j].req.n = calls' => toPeer'[j].whole
    BY <2>1, <2>2, <2>3
  <2>5. \A i \in DOMAIN net' : Tells(net[i])'
    BY <2>1, <2>3 DEF Tells, Num
  <2>6. DOMAIN buf' = {}
    BY <2>1
  <2>7. QED
    BY <2>1, <2>4, <2>5, <2>6 DEF Truthful
<1>5. CASE RecvPiece \/ \E cut \in Cuts : RecvPart(cut)
  <2>1. /\ net # <<>> /\ UNCHANGED <<toPeer, pc, calls, executed, refused>>
    BY <1>5, CollectParts DEF inst, peer
  <2>2. /\ DOMAIN net = 1 .. Len(net) /\ Len(net) \in Nat /\ 1 \in DOMAIN net
        /\ DOMAIN buf = 1 .. Len(buf) /\ Len(buf) \in Nat
        /\ DOMAIN net' = 1 .. Len(net') /\ DOMAIN buf' = 1 .. Len(buf')
    <3>1. LineOver(Request) /\ LineOver(Request)'
      BY <1>1 DEF Typed, TypeOK
    <3>2. /\ DOMAIN net = 1 .. Len(net) /\ Len(net) \in Nat
          /\ DOMAIN buf = 1 .. Len(buf) /\ Len(buf) \in Nat
          /\ DOMAIN net' = 1 .. Len(net') /\ DOMAIN buf' = 1 .. Len(buf')
      BY <3>1, LenProperties DEF LineOver
    <3>3. Len(net) # 0
      BY <2>1, <3>1, EmptySeq DEF LineOver
    <3>4. QED
      BY <3>2, <3>3
  <2>3. \A i \in DOMAIN buf' : \/ \E j \in DOMAIN buf : buf'[i].rep = buf[j].rep
                               \/ \E j \in DOMAIN net : buf'[i].rep = net[j].rep
    <3>1. TAKE i \in DOMAIN buf'
    <3>2. /\ Len(buf') = Len(buf) + 1 /\ buf'[Len(buf) + 1].rep = net[1].rep
          /\ \A j \in 1 .. Len(buf) : buf'[j] = buf[j]
      BY <1>5, CollectParts
    <3>3. i = Len(buf) + 1 \/ (i \in DOMAIN buf /\ buf'[i] = buf[i])
      BY <2>2, <3>2
    <3>4. QED
      BY <2>2, <3>2, <3>3
  <2>4. \A i \in DOMAIN net' : \E j \in DOMAIN net : net'[i].rep = net[j].rep
    <3>1. TAKE i \in DOMAIN net'
    <3>2. CASE /\ Len(net') = Len(net) - 1
               /\ \A j \in 1 .. Len(net') : net'[j] = net[j + 1]
      <4>1. i + 1 \in DOMAIN net /\ net'[i] = net[i + 1]
        BY <2>2, <3>2
      <4>2. QED
        BY <4>1
    <3>3. CASE /\ Len(net') = Len(net) /\ net'[1].rep = net[1].rep
               /\ \A j \in 2 .. Len(net) : net'[j] = net[j]
      <4>1. i \in DOMAIN net /\ (i = 1 \/ i \in 2 .. Len(net))
        BY <2>2, <3>3
      <4>2. net'[i].rep = net[i].rep
        BY <3>3, <4>1
      <4>3. QED
        BY <4>1, <4>2
    <3>4. QED
      BY <1>5, <3>2, <3>3, CollectParts
  <2>5. \A i \in DOMAIN buf' : Tells(buf'[i])
    BY <2>3 DEF Truthful, Tells, Num
  <2>6. \A i \in DOMAIN net' : Tells(net'[i])
    BY <2>4 DEF Truthful, Tells, Num
  <2>7. QED
    BY <2>1, <2>5, <2>6 DEF Truthful, Tells, Num
<1>6. ASSUME NEW k \in 1 .. Len(toPeer), PeerServe(k) PROVE Truthful'
  <2>1. /\ UNCHANGED <<pc, buf, calls>> /\ 1 \in DOMAIN toPeer
        /\ executed \subseteq executed' /\ refused \subseteq refused'
        /\ \A i \in DOMAIN toPeer' : i + k \in DOMAIN toPeer /\ toPeer'[i] = toPeer[i + k]
    BY <1>1, <1>6, PeerServeParts DEF inst
  <2>2. \A i \in DOMAIN net' :
           \/ i \in DOMAIN net /\ net'[i] = net[i]
           \/ /\ net'[i].rep.req = toPeer[1].req
              /\ \/ ~toPeer[1].whole
                 \/ toPeer[1].req.n \in IF net'[i].rep.kind = "ok" THEN executed' ELSE refused'
    BY <1>1, <1>6, PeerServeParts
  <2>3. \A i \in DOMAIN toPeer' :
           pc' # "idle" /\ toPeer'[i].req.n = calls' => toPeer'[i].whole
    BY <2>1 DEF Truthful
  <2>4. \A i \in DOMAIN net' : Tells(net[i])'
    <3>1. TAKE i \in DOMAIN net'
    <3>2. CASE i \in DOMAIN net /\ net'[i] = net[i]
      BY <2>1, <3>2 DEF Truthful, Tells, Num
    <3>3. CASE /\ net'[i].rep.req = toPeer[1].req
               /\ \/ ~toPeer[1].whole
                  \/ toPeer[1].req.n \in IF net'[i].rep.kind = "ok" THEN executed' ELSE refused'
      BY <2>1, <3>3 DEF Truthful, Tells, Num
    <3>4. QED
      BY <2>2, <3>2, <3>3
  <2>5. \A i \in DOMAIN buf' : Tells(buf[i])'
    BY <2>1 DEF Truthful, Tells, Num
  <2>6. QED
    BY <2>3, <2>4, <2>5 DEF Truthful
<1>7. CASE ~BusyStep
  <2>1. /\ Within(toPeer', toPeer) /\ Thinned(net', net) /\ buf' \in {buf, <<>>}
        /\ UNCHANGED calls /\ pc' \in {pc, "idle"}
    BY <1>7, OthersThin
  <2>2. executed \subseteq executed' /\ refused \subseteq refused'
    BY <1>7 DEF BusyStep, StartStep, Next, Connect, Disconnect, Flush, SetSlave, SendErr,
       RecvTimeout, RecvErr, RecvDone, ServeOrphan, PeerClose, Disturb, peer, vars
  <2>3. \A j \in DOMAIN toPeer' :
           pc' # "idle" /\ toPeer'[j].req.n = calls' => toPeer'[j].whole
    BY <2>1 DEF Truthful, Within
  <2>4. \A i \in DOMAIN net' : Tells(net[i])'
    <3>1. PICK g \in [DOMAIN net' -> DOMAIN net] :
              \A i \in DOMAIN net' : net'[i].rep = net[g[i]].rep
      BY <2>1 DEF Thinned
    <3>2. QED
      BY <2>1, <2>2, <3>1 DEF Truthful, Tells, Num
  <2>5. \A i \in DOMAIN buf' : Tells(buf[i])'
    <3>1. \A i \in DOMAIN buf' : i \in DOMAIN buf /\ buf'[i] = buf[i]
      BY <2>1
    <3>2. QED
      BY <2>1, <2>2, <3>1 DEF Truthful, Tells, Num
  <2>6. QED
    BY <2>3, <2>4, <2>5 DEF Truthful
<1>8. QED
  BY <1>3, <1>4, <1>5, <1>6, <1>7 DEF BusyStep

LEMMA TruthfulInit == Init => Truthful
<1>1. ASSUME Init PROVE DOMAIN toPeer = {} /\ DOMAIN net = {} /\ DOMAIN buf = {}
  BY <1>1 DEF Init
<1>2. QED
  BY <1>1 DEF Truthful

-----------------------------------------------------------------------------
(* The master keeps the contract of RemoteCall.                            *)

\* The sign of what is returned tells a reply from an exception reply.
LEMMA ResultSign ==
    ASSUME cur \in Request, NEW f \in FrmOver(Request), NEW v \in Result(f)
    PROVE  /\ f.got = "ok" => v >= 0
           /\ f.got = "exc" => v < 0
<1>1. /\ cur.nb \in Nat \ {0} /\ cur.op \in AllOps /\ f.req.nb \in Nat
      /\ AnyValue \subseteq Nat
  BY ConfigAssumption DEF Request, FrmOver
<1>2. /\ -ExcCode \in Int /\ -ExcCode < 0
      /\ Bytes("read_bits", cur.nb) \in Nat /\ Bytes(f.req.op, f.req.nb) \in Nat
  BY <1>1 DEF ExcCode, Bytes
<1>3. CASE f.got = "exc"
  <2>1. \A values : OrExc(f, values) = {-ExcCode}
    BY <1>3 DEF OrExc
  <2>2. MbReadBits(f) = {-ExcCode} /\ MbReadRegs(f) = {-ExcCode}
    BY <1>2, <2>1 DEF MbReadBits, MbReadRegs, MbReadReq
  <2>3. Result(f) = {-ExcCode}
    BY <1>1, <2>1, <2>2
       DEF Result, AllOps, MbWriteReq, MbWriteSingle, MbMaskWriteReg, MbWriteAndReadRegs
  <2>4. QED
    BY <1>2, <1>3, <2>3
<1>4. CASE f.got = "ok"
  <2>1. \A values : OrExc(f, values) = values
    BY <1>4 DEF OrExc
  <2>2. RdRspDlen(f) \subseteq Nat
    BY <1>1, <1>2 DEF RdRspDlen
  <2>3. WrRspNb(f) \subseteq Nat
    <3>1. {cur.nb} \subseteq Nat /\ {f.req.nb} \subseteq Nat
      BY <1>1
    <3>2. WrRspNb(f) \subseteq {cur.nb} \cup {f.req.nb} \cup AnyValue
      BY DEF WrRspNb
    <3>3. QED
      BY <1>1, <3>1, <3>2
  <2>4. MbReadBits(f) \subseteq Nat /\ MbReadRegs(f) \subseteq Nat
    BY <1>1, <2>1, <2>2 DEF MbReadBits, MbReadRegs, MbReadReq
  <2>5. MbWriteAndReadRegs(f) \subseteq Nat
    BY <1>1, <2>1, <2>2 DEF MbWriteAndReadRegs
  <2>6. /\ MbWriteReq(f) \subseteq Nat
        /\ MbWriteSingle(f) \subseteq Nat /\ MbMaskWriteReg(f) \subseteq Nat
    BY <2>1, <2>3 DEF MbWriteReq, MbWriteSingle, MbMaskWriteReg
  <2>7. Result(f) \subseteq Nat
    BY <1>1, <2>4, <2>5, <2>6 DEF Result, AllOps
  <2>8. QED
    BY <1>4, <2>7
<1>5. QED
  BY <1>3, <1>4

CallInv == Typed /\ TidTellsAge /\ LineOrder /\ Undecided /\ Truthful

\* A call that returns a value has the peer's word for what it returns.
LEMMA ReturnKeepsContract ==
    ASSUME Prot = "TCP", MbapChk, UninitDlen = {FALSE}, CallInv, pc = "recv", buf # <<>>,
           NEW f \in Parsed(buf), Accepted(f), NEW v \in Result(f), Return(v, f.src),
           UNCHANGED <<inst, line, peer>>
    PROVE  Contract!End
<1>1. IsWhole(buf) /\ f = FrmOf(buf[1].rep) /\ f.src = cur.n
  BY AcceptedIsOwn DEF CallInv
<1>2. cur \in Request /\ cur.n = calls /\ buf \in Seq(PieceOf(Request))
  BY DEF CallInv, Typed, TypeOK, LineOver
<1>3. 1 \in DOMAIN buf /\ buf[1] \in PieceOf(Request)
  BY <1>2, LenProperties, EmptySeq, ElementOfSeq
<1>4. f.got = buf[1].rep.kind /\ f.got \in {"ok", "exc"} /\ Num(buf[1]) = calls
  BY <1>1, <1>2, <1>3 DEF FrmOf, Frm, PieceOf, ReplyOf, Num
<1>5. calls \in IF f.got = "ok" THEN executed ELSE refused
  BY <1>3, <1>4 DEF CallInv, Truthful, Tells
<1>6. f \in FrmOver(Request)
  BY <1>2, ParsedType DEF CallInv, Typed, TypeOK
<1>7. v \in Int
  BY <1>2, <1>6, ResultType
<1>8. /\ f.got = "ok" => v >= 0
      /\ f.got = "exc" => v < 0
  BY <1>2, <1>6, ResultSign
<1>9. last'.ret = v /\ pc' = "idle" /\ UNCHANGED <<calls, executed, refused>>
  BY DEF Return, inst, peer
<1>10. QED
  BY <1>4, <1>5, <1>7, <1>8, <1>9 DEF Contract!End

LEMMA ContractStep ==
    ASSUME Prot = "TCP", MbapChk, UninitDlen = {FALSE}, CallInv, [Next]_vars
    PROVE  [Contract!Next]_(Contract!avars)
<1>1. Typed /\ Typed'
  BY TypedStep DEF CallInv
<1>2. CASE StartStep
  <2>1. /\ pc = "idle" /\ pc' = "send" /\ calls' = calls + 1 /\ calls < MaxCalls
        /\ UNCHANGED <<executed, refused, last>>
    BY <1>1, <1>2, StartParts DEF peer, ghost
  <2>2. Contract!Begin
    BY <2>1 DEF Contract!Begin
  <2>3. QED
    BY <2>2 DEF Contract!Next
<1>3. ASSUME UNCHANGED <<pc, calls, last>>,
             NEW n \in 1 .. calls, n \notin executed \cup refused,
             \/ executed' = executed \cup {n} /\ UNCHANGED refused
             \/ refused' = refused \cup {n} /\ UNCHANGED executed
      PROVE  Contract!Next
  BY <1>3 DEF Contract!Next, Contract!Decide
<1>4. ASSUME UNCHANGED <<pc, calls, last, executed, refused>>
      PROVE  UNCHANGED Contract!avars
  BY <1>4 DEF Contract!avars
<1>5. Top \in Int /\ calls \in Int /\ Top <= calls
  BY <1>1, BoundAssumption DEF Top, Typed, TypeOK
<1>6. ASSUME NEW k \in 1 .. Len(toPeer), PeerServe(k)
      PROVE  [Contract!Next]_(Contract!avars)
  <2>1. /\ UNCHANGED <<pc, calls, last>> /\ 1 \in DOMAIN toPeer
        /\ \/ UNCHANGED <<executed, refused>>
           \/ /\ toPeer[1].whole
              /\ \/ executed' = executed \cup {toPeer[1].req.n} /\ UNCHANGED refused
                 \/ refused' = refused \cup {toPeer[1].req.n} /\ UNCHANGED executed
    BY <1>1, <1>6, PeerServeParts DEF inst
  <2>2. toPeer[1].req.n \in 1 .. calls
    <3>1. toPeer \in Seq(SentOf(Request)) /\ 1 \in 1 .. Len(toPeer)
      BY <1>1, <2>1, LenProperties DEF Typed, TypeOK, LineOver
    <3>2. toPeer[1] \in SentOf(Request)
      BY <3>1, ElementOfSeq
    <3>3. toPeer[1].req.n \in Int /\ 1 <= toPeer[1].req.n
      BY <3>2, BoundAssumption DEF SentOf, Request
    <3>4. QED
      BY <1>5, <2>1, <3>3 DEF CallInv, LineOrder
  <2>3. toPeer[1].whole => toPeer[1].req.n \notin executed \cup refused
    BY <2>1 DEF CallInv, Undecided
  <2>4. QED
    BY <1>3, <1>4, <2>1, <2>2, <2>3
<1>7. ASSUME NEW r \in orphans, ServeOrphan(r) PROVE Contract!Next
  <2>1. r.n \in 1 .. calls /\ r.n \notin executed \cup refused
    <3>1. r.n \in Int /\ 1 <= r.n
      BY <1>1, BoundAssumption DEF Typed, TypeOK, Request
    <3>2. QED
      BY <1>5, <3>1 DEF CallInv, Undecided
  <2>2. UNCHANGED <<pc, calls, last>>
    BY <1>7 DEF ServeOrphan, inst, ghost
  <2>3. \/ executed' = executed \cup {r.n} /\ UNCHANGED refused
        \/ refused' = refused \cup {r.n} /\ UNCHANGED executed
    BY <1>7 DEF ServeOrphan
  <2>4. QED
    BY <1>3, <2>1, <2>2, <2>3
<1>8. ASSUME pc # "idle", pc' = "idle", last'.ret = 0, UNCHANGED <<calls, executed, refused>>
      PROVE  Contract!Next
  BY <1>8 DEF Contract!Next, Contract!End
<1>9. CASE SendPart \/ SendErr \/ RecvTimeout \/ RecvErr
  BY <1>8, <1>9 DEF SendPart, SendErr, RecvTimeout, RecvErr, Fail, Return, inst, peer
<1>10. CASE RecvDone
  <2>1. pc = "recv" /\ buf # <<>> /\ UNCHANGED <<inst, line, peer>>
    BY <1>10 DEF RecvDone
  <2>2. PICK f \in Parsed(buf) :
            \/ Fail
            \/ Accepted(f) /\ \E v \in Result(f) : Return(v, f.src)
    BY <1>10 DEF RecvDone
  <2>3. CASE Fail
    BY <1>8, <2>1, <2>3 DEF Fail, Return, inst, peer
  <2>4. CASE Accepted(f) /\ \E v \in Result(f) : Return(v, f.src)
    BY <2>1, <2>4, ReturnKeepsContract DEF Contract!Next
  <2>5. QED
    BY <2>2, <2>3, <2>4
<1>11. CASE SendOk
  <2>1. pc # "idle" /\ pc' # "idle" /\ UNCHANGED <<calls, last, executed, refused>>
    BY <1>11 DEF SendOk, inst, peer, ghost
  <2>2. QED
    BY <2>1 DEF Contract!avars
<1>12. CASE RecvPiece \/ \E cut \in Cuts : RecvPart(cut)
  BY <1>4, <1>12 DEF RecvPiece, RecvPart, Collect, inst, peer, ghost
<1>13. CASE Connect \/ Disconnect \/ Flush \/ SetSlave \/ PeerClose \/ Disturb
            \/ UNCHANGED vars
  BY <1>4, <1>13 DEF Connect, Disconnect, Flush, SetSlave, PeerClose, Disturb,
       inst, peer, ghost, vars
<1>14. QED
  BY <1>2, <1>6, <1>7, <1>9, <1>10, <1>11, <1>12, <1>13 DEF Next, StartStep

\* With MB_USING_MBAP_CHK and a frame that counts as rejected when too short,
\* the master over TCP gives its caller what modbus.h promises: a positive
\* value means the peer carried this very call out, a negative one that it
\* refused it, and no call is carried out twice, through closed connections,
\* late and cut replies, fragments and calls given up.
THEOREM MasterKeepsContract ==
    ASSUME Prot = "TCP", MbapChk, UninitDlen = {FALSE}
    PROVE  Spec => ContractSpec
<1>1. Init => Contract!Init
  BY DEF Init, Contract!Init
<1>2. CallInv /\ [Next]_vars => [Contract!Next]_(Contract!avars)
  BY ContractStep
<1>3. Spec => []CallInv
  BY TypedInit, TypedStep, TidsTellAge, LineOrderInit, LineOrderStep, UndecidedInit,
     UndecidedStep, TruthfulInit, TruthfulStep, PTL DEF Spec, CallInv
<1>4. QED
  BY <1>1, <1>2, <1>3, PTL DEF Spec, ContractSpec, Contract!Spec

=============================================================================
