------------------------- MODULE ModbusMasterProofs -------------------------
(***************************************************************************)
(* Proofs about ModbusMaster, for all values of the constants.             *)
(***************************************************************************)
EXTENDS ModbusMaster, SequenceTheorems, TLAPS

-----------------------------------------------------------------------------
(* What the operations on the queues leave in them.                        *)

\* A suffix of a queue (bytes lost at a close, requests a peer has read) holds
\* elements of the queue only and is no longer than it.
LEMMA SuffixType ==
    ASSUME NEW S, NEW q \in Seq(S), NEW k \in 0 .. Len(q)
    PROVE  /\ SubSeq(q, k + 1, Len(q)) \in Seq(S)
           /\ Len(SubSeq(q, k + 1, Len(q))) = Len(q) - k
BY SubSeqProperties, LenProperties, ElementOfSeq

\* Dropping one element (the line loses it) shortens the queue by one.
LEMMA DropType ==
    ASSUME NEW S, NEW q \in Seq(S), NEW i \in DOMAIN q
    PROVE  Drop(q, i) \in Seq(S) /\ Len(Drop(q, i)) = Len(q) - 1
<1> DEFINE a == SubSeq(q, 1, i - 1)
           b == SubSeq(q, i + 1, Len(q))
<1>1. i \in 1 .. Len(q) /\ Len(q) \in Nat
  BY LenProperties
<1>2. a \in Seq(S) /\ Len(a) = i - 1
  BY <1>1, SubSeqProperties, LenProperties, ElementOfSeq
<1>3. b \in Seq(S) /\ Len(b) = Len(q) - i
  BY <1>1, SuffixType, LenProperties
<1>4. Drop(q, i) = a \o b
  BY DEF Drop
<1> HIDE DEF a, b
<1>5. Drop(q, i) \in Seq(S) /\ Len(Drop(q, i)) = Len(a) + Len(b)
  BY <1>2, <1>3, <1>4, ConcatProperties
<1>6. Len(a) + Len(b) = Len(q) - 1
  BY <1>1, <1>2, <1>3
<1>7. QED
  BY <1>5, <1>6

\* A queue whose elements all satisfy more is a queue over the smaller set.
LEMMA SeqRestrict ==
    ASSUME NEW S, NEW T, NEW q \in Seq(S), \A i \in 1 .. Len(q) : q[i] \in T
    PROVE  q \in Seq(T)
<1>1. q = [i \in 1 .. Len(q) |-> q[i]] /\ Len(q) \in Nat
  BY LenProperties
<1>2. QED
  BY <1>1

-----------------------------------------------------------------------------
(* Every step that does not begin a call keeps the line over a set R of    *)
(* requests, if the request it may send is in R.                           *)

LEMMA HangupLine ==
    ASSUME NEW R, LineOver(R), Hangup
    PROVE  /\ toPeer' \in Seq(SentOf(R)) /\ net' \in Seq(PieceOf(R))
           /\ Len(toPeer') + Len(net') <= Len(toPeer) + Len(net)
<1>1. Len(toPeer) \in Nat /\ Len(net) \in Nat
  BY LenProperties DEF LineOver
<1>2. CASE Backend = "TCP" /\ toPeer' = <<>> /\ net' = <<>>
  BY <1>1, <1>2, EmptySeq
<1>3. CASE (\E k \in 0 .. Len(net) : net' = SubSeq(net, k + 1, Len(net)))
           /\ UNCHANGED toPeer
  <2>1. PICK k \in 0 .. Len(net) : net' = SubSeq(net, k + 1, Len(net))
    BY <1>3
  <2>2. net' \in Seq(PieceOf(R)) /\ Len(net') = Len(net) - k
    BY <2>1, SuffixType DEF LineOver
  <2>3. QED
    BY <1>1, <1>3, <2>2 DEF LineOver
<1>4. QED
  BY <1>2, <1>3 DEF Hangup

LEMMA CollectLine ==
    ASSUME NEW R, LineOver(R), net # <<>>,
           RecvPiece \/ \E cut \in Cuts : RecvPart(cut)
    PROVE  LineOver(R)' /\ Len(toPeer') + Len(net') <= Len(toPeer) + Len(net)
<1>1. /\ Head(net) \in PieceOf(R) /\ Tail(net) \in Seq(PieceOf(R))
      /\ Len(Tail(net)) = Len(net) - 1
      /\ Len(toPeer) \in Nat /\ Len(net) \in Nat
  BY HeadTailProperties, LenProperties DEF LineOver
<1>2. CASE RecvPiece
  <2>1. buf' = Append(buf, Head(net))
    BY <1>1, <1>2 DEF RecvPiece, Collect, PieceOf
  <2>2. net' = Tail(net)
    BY <1>1, <1>2, ConcatEmptySeq DEF RecvPiece, Collect
  <2>3. UNCHANGED toPeer
    BY <1>2 DEF RecvPiece, Collect
  <2>4. QED
    BY <1>1, <2>1, <2>2, <2>3, AppendProperties DEF LineOver
<1>3. ASSUME NEW cut \in Cuts, RecvPart(cut)
      PROVE  LineOver(R)' /\ Len(toPeer') + Len(net') <= Len(toPeer) + Len(net)
  <2> DEFINE h == [Head(net) EXCEPT !.part = cut]
             t == [Head(net) EXCEPT !.part = "rest"]
  <2>1. h \in PieceOf(R) /\ t \in PieceOf(R)
    BY <1>1, ConfigAssumption DEF PieceOf
  <2>2. buf' = Append(buf, h) /\ net' = <<t>> \o Tail(net) /\ UNCHANGED toPeer
    BY <1>3 DEF RecvPart, Collect
  <2> HIDE DEF h, t
  <2>3. <<t>> \in Seq(PieceOf(R)) /\ Len(<<t>>) = 1
    BY <2>1
  <2>4. net' \in Seq(PieceOf(R)) /\ Len(net') = 1 + Len(Tail(net))
    BY <1>1, <2>2, <2>3, ConcatProperties
  <2>5. buf' \in Seq(PieceOf(R))
    BY <2>1, <2>2, AppendProperties DEF LineOver
  <2>6. QED
    BY <1>1, <2>2, <2>4, <2>5 DEF LineOver
<1>4. QED
  BY <1>2, <1>3

\* Steps of the peer and of the line.
LEMMA PeerLine ==
    ASSUME NEW R, LineOver(R),
           \/ \E k \in 1 .. Len(toPeer) : PeerServe(k)
           \/ \E r \in orphans : ServeOrphan(r)
           \/ PeerClose
           \/ Disturb
    PROVE  LineOver(R)' /\ Len(toPeer') + Len(net') <= Len(toPeer) + Len(net)
<1>1. /\ Len(toPeer) \in Nat /\ Len(net) \in Nat
      /\ DOMAIN toPeer = 1 .. Len(toPeer) /\ DOMAIN net = 1 .. Len(net)
  BY LenProperties DEF LineOver
<1>2. ASSUME NEW k \in 1 .. Len(toPeer), PeerServe(k)
      PROVE  LineOver(R)' /\ Len(toPeer') + Len(net') <= Len(toPeer) + Len(net)
  <2>1. /\ toPeer' \in Seq(SentOf(R)) /\ Len(toPeer') = Len(toPeer) - k
        /\ toPeer[1] \in SentOf(R)
    <3>1. toPeer' = SubSeq(toPeer, k + 1, Len(toPeer))
      BY <1>2 DEF PeerServe
    <3>2. toPeer \in Seq(SentOf(R)) /\ 1 \in 1 .. Len(toPeer) /\ k \in 0 .. Len(toPeer)
      BY <1>1, <1>2 DEF LineOver
    <3>3. QED
      BY <3>1, <3>2, SuffixType, ElementOfSeq
  <2>2. \/ UNCHANGED net
        \/ \E kind \in {"ok", "exc"} :
             net' = Append(net, [rep |-> [req |-> toPeer[1].req, kind |-> kind],
                                 part |-> "all"])
    BY <1>2 DEF PeerServe, peer
  <2>3. \A kind \in {"ok", "exc"} :
          [rep |-> [req |-> toPeer[1].req, kind |-> kind], part |-> "all"] \in PieceOf(R)
    BY <2>1 DEF SentOf, PieceOf, ReplyOf
  <2>4. net' \in Seq(PieceOf(R)) /\ Len(net') <= Len(net) + 1
    <3>1. CASE UNCHANGED net
      BY <1>1, <3>1 DEF LineOver
    <3>2. ASSUME NEW kind \in {"ok", "exc"},
                 net' = Append(net, [rep |-> [req |-> toPeer[1].req, kind |-> kind],
                                     part |-> "all"])
          PROVE  net' \in Seq(PieceOf(R)) /\ Len(net') <= Len(net) + 1
      <4> DEFINE e == [rep |-> [req |-> toPeer[1].req, kind |-> kind], part |-> "all"]
      <4>1. e \in PieceOf(R) /\ net' = Append(net, e)
        BY <2>3, <3>2
      <4> HIDE DEF e
      <4>2. QED
        BY <1>1, <4>1, AppendProperties DEF LineOver
    <3>3. QED
      BY <2>2, <3>1, <3>2
  <2>5. Len(net') \in Nat /\ Len(toPeer') \in Nat
    BY <2>1, <2>4, LenProperties
  <2>6. UNCHANGED buf
    BY <1>2 DEF PeerServe
  <2>7. QED
    BY <1>1, <2>1, <2>4, <2>5, <2>6 DEF LineOver
<1>3. CASE \E r \in orphans : ServeOrphan(r)
  BY <1>1, <1>3 DEF ServeOrphan, LineOver
<1>4. CASE PeerClose
  <2>1. toPeer' = <<>> /\ UNCHANGED <<net, buf>>
    BY <1>4 DEF PeerClose
  <2>2. QED
    BY <1>1, <2>1, EmptySeq DEF LineOver
<1>5. CASE Disturb
  <2>1. UNCHANGED buf
    BY <1>5 DEF Disturb
  <2>2. CASE \E i \in DOMAIN toPeer : toPeer' = Drop(toPeer, i) /\ UNCHANGED net
    <3>1. toPeer' \in Seq(SentOf(R)) /\ Len(toPeer') = Len(toPeer) - 1 /\ UNCHANGED net
      BY <2>2, DropType DEF LineOver
    <3>2. QED
      BY <1>1, <2>1, <3>1 DEF LineOver
  <2>3. CASE \E i \in DOMAIN net : net' = Drop(net, i) /\ UNCHANGED toPeer
    <3>1. net' \in Seq(PieceOf(R)) /\ Len(net') = Len(net) - 1 /\ UNCHANGED toPeer
      BY <2>3, DropType DEF LineOver
    <3>2. QED
      BY <1>1, <2>1, <3>1 DEF LineOver
  <2>4. ASSUME NEW i \in DOMAIN net, net' = [net EXCEPT ![i].part = "noise"],
               UNCHANGED toPeer
        PROVE  LineOver(R)' /\ Len(toPeer') + Len(net') <= Len(toPeer) + Len(net)
    <3> DEFINE e == [net[i] EXCEPT !.part = "noise"]
    <3>1. net[i] \in PieceOf(R)
      BY <1>1, <2>4, ElementOfSeq DEF LineOver
    <3>2. e \in PieceOf(R) /\ net' = [net EXCEPT ![i] = e]
      BY <2>4, <3>1 DEF PieceOf
    <3> HIDE DEF e
    <3>3. net' \in Seq(PieceOf(R)) /\ Len(net') = Len(net)
      BY <1>1, <2>4, <3>2, ExceptSeq DEF LineOver
    <3>4. QED
      BY <1>1, <2>1, <2>4, <3>3 DEF LineOver
  <2>5. QED
    BY <1>5, <2>2, <2>3, <2>4 DEF Disturb
<1>6. QED
  BY <1>2, <1>3, <1>4, <1>5

LEMMA SendLine ==
    ASSUME NEW R, LineOver(R), cur \in R, SendOk \/ SendPart
    PROVE  /\ toPeer' \in Seq(SentOf(R))
           /\ Len(toPeer') + Len(net') <= Len(toPeer) + Len(net) + 1
<1>1. Len(toPeer) \in Nat /\ Len(net) \in Nat
  BY LenProperties DEF LineOver
<1>2. PICK w \in BOOLEAN : \/ toPeer' = toPeer
                           \/ toPeer' = Append(toPeer, [req |-> cur, whole |-> w])
  BY DEF SendOk, SendPart
<1>3. UNCHANGED net
  BY DEF SendOk, SendPart
<1> DEFINE s == [req |-> cur, whole |-> w]
<1>4. s \in SentOf(R)
  BY DEF SentOf
<1> HIDE DEF s
<1>5. toPeer' = toPeer \/ toPeer' = Append(toPeer, s)
  BY <1>2 DEF s
<1>6. QED
  BY <1>1, <1>3, <1>4, <1>5, AppendProperties DEF LineOver

-----------------------------------------------------------------------------
(* What a parse can leave behind.                                          *)

FrmOver(R) == [sa : Slaves, tid : Tids, dlenOk : BOOLEAN,
               got : {"ok", "exc", "own", "junk", "none"},
               req : R, src : 0 .. MaxCalls]

\* Whatever was collected, the frame structure holds values of its fields'
\* types, taken from a request that was on the line or from the call's own.
LEMMA ParsedType ==
    ASSUME NEW R, R \subseteq Request, LineOver(R), cur \in R, buf # <<>>,
           NEW f \in Parsed(buf)
    PROVE  f \in FrmOver(R)
<1> DEFINE p == buf[1]
<1>1. p \in PieceOf(R)
  BY LenProperties, EmptySeq, ElementOfSeq DEF LineOver
<1>2. /\ p.rep.kind \in {"ok", "exc"} /\ p.rep.req \in R
      /\ p.rep.req.sa \in Slaves /\ p.rep.req.tid \in Tids
      /\ p.rep.req.n \in 0 .. MaxCalls
  BY <1>1 DEF PieceOf, ReplyOf, Request
<1>3. cur.sa \in Slaves /\ cur.tid \in Tids /\ 0 \in 0 .. MaxCalls
  BY BoundAssumption DEF Request
<1>4. ASSUME NEW sa \in Slaves, NEW t \in Tids, NEW ok \in BOOLEAN, NEW req \in R,
             NEW got \in {"ok", "exc", "own", "junk", "none"}, NEW src \in 0 .. MaxCalls
      PROVE  Frm(sa, t, ok, got, req, src) \in FrmOver(R)
  BY DEF Frm, FrmOver
<1>5. FrmOf(p.rep) \in FrmOver(R)
  BY <1>2, <1>4 DEF FrmOf
<1>6. Untouched \subseteq FrmOver(R)
  <2>1. \A ok \in BOOLEAN : OwnFrm(ok) \in FrmOver(R)
    BY <1>3, <1>4 DEF OwnFrm
  <2>2. QED
    BY <2>1, ConfigAssumption DEF Untouched
<1>7. NoFrm \in FrmOver(R)
  BY <1>3, <1>4 DEF NoFrm
<1>8. HeaderOnly(p.rep) \subseteq FrmOver(R)
  <2>1. /\ Frm(p.rep.req.sa, p.rep.req.tid, FALSE, "own", cur, 0) \in FrmOver(R)
        /\ Frm(p.rep.req.sa, p.rep.req.tid, FALSE, "ok", p.rep.req, p.rep.req.n)
             \in FrmOver(R)
    BY <1>2, <1>3, <1>4
  <2>2. QED
    BY <2>1 DEF HeaderOnly
<1>9. Middle(p.rep) \subseteq FrmOver(R)
  <2>1. \A sa \in Slaves, got \in {"junk", "exc"} :
          Frm(sa, p.rep.req.tid, FALSE, got, p.rep.req, p.rep.req.n) \in FrmOver(R)
    BY <1>2, <1>4
  <2>2. QED
    BY <1>6, <1>7, <2>1 DEF Middle
<1> HIDE DEF p
<1>10. f \in {FrmOf(p.rep), NoFrm} \cup Untouched \cup HeaderOnly(p.rep) \cup Middle(p.rep)
  BY DEF Parsed, RtuParse, TcpParse, p
<1>11. QED
  BY <1>5, <1>6, <1>7, <1>8, <1>9, <1>10

\* Every request function returns an integer.
LEMMA ResultType ==
    ASSUME cur \in Request, NEW f \in FrmOver(Request)
    PROVE  Result(f) \subseteq Int
<1>1. cur.nb \in Nat /\ cur.op \in AllOps
  BY ConfigAssumption DEF Request
<1>2. f.req.nb \in Nat
  BY ConfigAssumption DEF Request, FrmOver
<1>3. Bytes(f.req.op, f.req.nb) \in Int
  BY <1>2 DEF Bytes
<1>4. AnyValue \subseteq Int
  BY ConfigAssumption
<1>5. RdRspDlen(f) \subseteq Int
  BY <1>3, <1>4 DEF RdRspDlen
<1>6. WrRspNb(f) \subseteq Int
  <2>1. {cur.nb} \subseteq Int /\ {f.req.nb} \subseteq Int
    BY <1>1, <1>2
  <2>2. WrRspNb(f) \subseteq {cur.nb} \cup {f.req.nb} \cup AnyValue
    BY DEF WrRspNb
  <2>3. QED
    BY <1>4, <2>1, <2>2
<1>7. -ExcCode \in Int
  BY DEF ExcCode
<1>8. MbReadReq(f) \subseteq Int /\ MbWriteReq(f) \subseteq Int
  BY <1>5, <1>6, <1>7 DEF MbReadReq, MbWriteReq, OrExc
<1>9. MbReadBits(f) \subseteq Int /\ MbReadRegs(f) \subseteq Int
  BY <1>1, <1>8 DEF MbReadBits, MbReadRegs
<1>10. /\ MbWriteSingle(f) \subseteq Int /\ MbMaskWriteReg(f) \subseteq Int
       /\ MbWriteAndReadRegs(f) \subseteq Int
  BY <1>1, <1>7 DEF MbWriteSingle, MbMaskWriteReg, MbWriteAndReadRegs, OrExc
<1>11. QED
  BY <1>1, <1>8, <1>9, <1>10 DEF Result, AllOps

-----------------------------------------------------------------------------
(* Type correctness.                                                       *)

\* A call gives up at most once, and holds bytes only while it receives.
CallsAccounted ==
    /\ failed <= calls - (IF pc = "idle" THEN 0 ELSE 1)
    /\ pc # "recv" => buf = <<>>

Typed == TypeOK /\ CallsAccounted

\* Steps outside a call; StartCall apart.
IdleStep == Connect \/ Disconnect \/ Flush \/ SetSlave

PeerStep == \/ \E k \in 1 .. Len(toPeer) : PeerServe(k)
            \/ \E r \in orphans : ServeOrphan(r)
            \/ PeerClose
            \/ Disturb

LEMMA HangupType ==
    ASSUME TypeOK, Hangup
    PROVE  /\ open' \in BOOLEAN /\ peerUp' \in BOOLEAN
           /\ orphans' \subseteq Request
           /\ toPeer' \in Seq(SentOf(Request)) /\ net' \in Seq(PieceOf(Request))
<1>1. /\ open' \in BOOLEAN /\ peerUp' \in BOOLEAN
  BY DEF Hangup
<1>2. \A j \in DOMAIN toPeer : toPeer[j].req \in Request
  <2>1. toPeer \in Seq(SentOf(Request))
    BY DEF TypeOK, LineOver
  <2>2. \A j \in DOMAIN toPeer : toPeer[j] \in SentOf(Request)
    BY <2>1, LenProperties, ElementOfSeq
  <2>3. QED
    BY <2>2 DEF SentOf
<1>3. orphans' \subseteq Request
  BY <1>2 DEF Hangup, TypeOK
<1>4. QED
  BY <1>1, <1>3, HangupLine DEF TypeOK

LEMMA ReturnType ==
    ASSUME Typed, pc # "idle", NEW v \in Int, NEW src \in 0 .. MaxCalls, Return(v, src),
           UNCHANGED <<saddr, tid, calls, cur, clean, executed, refused>>
    PROVE  /\ pc' = "idle" /\ buf' = <<>> /\ buf' \in Seq(PieceOf(Request))
           /\ last' \in [n : 0 .. MaxCalls, ret : Int, src : 0 .. MaxCalls, clean : BOOLEAN]
           /\ newest' \in 0 .. MaxCalls
<1>1. cur.n \in 0 .. MaxCalls
  BY DEF Typed, TypeOK
<1>2. QED
  BY <1>1, EmptySeq DEF Return, Typed, TypeOK

LEMMA FailType ==
    ASSUME Typed, pc # "idle", Fail,
           UNCHANGED <<saddr, tid, calls, cur, clean, executed, refused>>
    PROVE  /\ pc' = "idle" /\ buf' = <<>> /\ buf' \in Seq(PieceOf(Request))
           /\ last' \in [n : 0 .. MaxCalls, ret : Int, src : 0 .. MaxCalls, clean : BOOLEAN]
           /\ newest' \in 0 .. MaxCalls
           /\ failed' \in 0 .. MaxCalls /\ failed' <= calls'
<1>1. 0 \in Int /\ 0 \in 0 .. MaxCalls /\ Return(0, 0)
  BY BoundAssumption DEF Fail
<1>2. /\ failed' = failed + 1 /\ failed + 1 <= calls /\ calls \in 0 .. MaxCalls
      /\ failed \in 0 .. MaxCalls /\ calls' = calls
  BY BoundAssumption DEF Fail, Typed, TypeOK, CallsAccounted
<1>3. failed' \in 0 .. MaxCalls /\ failed' <= calls'
  BY <1>2, BoundAssumption
<1>4. QED
  BY <1>1, <1>3, ReturnType

\* Between calls the bound on failures is the number of calls itself.
LEMMA IdleAccounted ==
    ASSUME pc' = "idle", buf' = <<>>, failed' \in 0 .. MaxCalls, calls' \in 0 .. MaxCalls,
           failed' <= calls'
    PROVE  CallsAccounted'
<1>1. calls' \in Int /\ failed' \in Int
  BY BoundAssumption
<1>2. (IF pc' = "idle" THEN 0 ELSE 1) = 0
  OBVIOUS
<1>3. failed' <= calls' - 0
  <2>1. \A x, y \in Int : x <= y => x <= y - 0
    OBVIOUS
  <2>2. QED
    BY <1>1, <2>1
<1>4. QED
  BY <1>2, <1>3 DEF CallsAccounted

\* A call that fails while it waits for its reply.
LEMMA FailTyped ==
    ASSUME Typed, pc = "recv", Fail, UNCHANGED <<open, peerUp, inst, line, peer>>
    PROVE  Typed'
<1>1. UNCHANGED <<open, peerUp, saddr, tid, calls, cur, clean, toPeer, orphans, net,
                  executed, refused>>
  BY DEF inst, line, peer
<1>2. /\ pc' = "idle" /\ buf' = <<>> /\ buf' \in Seq(PieceOf(Request))
      /\ last' \in [n : 0 .. MaxCalls, ret : Int, src : 0 .. MaxCalls, clean : BOOLEAN]
      /\ newest' \in 0 .. MaxCalls
      /\ failed' \in 0 .. MaxCalls /\ failed' <= calls'
  BY <1>1, FailType
<1>3. TypeOK'
  BY <1>1, <1>2 DEF Typed, TypeOK, LineOver
<1>4. CallsAccounted'
  <2>1. calls' \in 0 .. MaxCalls
    BY <1>3 DEF TypeOK
  <2>2. QED
    BY <1>2, <2>1, IdleAccounted
<1>5. QED
  BY <1>3, <1>4 DEF Typed

LEMMA TypedInit == Init => Typed
<1> SUFFICES ASSUME Init PROVE Typed
  OBVIOUS
<1>1. LineOver(Request)
  BY EmptySeq DEF Init, LineOver
<1>2. /\ 0 \in Tids /\ 0 \in 0 .. MaxCalls /\ 0 \in Int /\ NoRequest.n = 0
      /\ last \in [n : 0 .. MaxCalls, ret : Int, src : 0 .. MaxCalls, clean : BOOLEAN]
  BY BoundAssumption DEF Tids, NoRequest, Init
<1>3. TypeOK
  BY <1>1, <1>2 DEF Init, TypeOK
<1>4. CallsAccounted
  BY DEF Init, CallsAccounted
<1>5. QED
  BY <1>3, <1>4 DEF Typed

LEMMA TypedStep == Typed /\ [Next]_vars => Typed'
<1> SUFFICES ASSUME Typed, [Next]_vars PROVE Typed'
  OBVIOUS
<1> USE DEF Typed
<1>1. ASSUME IdleStep PROVE Typed'
  <2>1. CASE Connect
    BY <2>1 DEF Connect, TypeOK, CallsAccounted, LineOver, inst, line, peer, ghost
  <2>2. CASE Disconnect
    BY <2>2, HangupType
       DEF Disconnect, TypeOK, CallsAccounted, LineOver, inst, peer, ghost
  <2>3. CASE Flush
    <3>1. PICK k \in 1 .. Len(net) : net' = SubSeq(net, k + 1, Len(net))
      BY <2>3 DEF Flush
    <3>2. net' \in Seq(PieceOf(Request))
      <4>1. net \in Seq(PieceOf(Request)) /\ k \in 0 .. Len(net)
        BY <3>1 DEF TypeOK, LineOver
      <4>2. QED
        BY <3>1, <4>1, SuffixType
    <3>3. QED
      BY <2>3, <3>2 DEF Flush, TypeOK, CallsAccounted, LineOver, inst, peer, ghost
  <2>4. CASE SetSlave
    BY <2>4 DEF SetSlave, TypeOK, CallsAccounted, LineOver, line, peer, ghost
  <2>5. QED
    BY <1>1, <2>1, <2>2, <2>3, <2>4 DEF IdleStep
<1>2. ASSUME NEW op \in Ops, NEW nb \in Sizes, StartCall(op, nb) PROVE Typed'
  <2>1. calls + 1 \in 1 .. MaxCalls /\ calls' = calls + 1
    BY <1>2, BoundAssumption DEF StartCall, TypeOK
  <2>2. NextTid \in Tids /\ tid' = NextTid
    BY <1>2, BoundAssumption DEF StartCall, TypeOK, NextTid, Tids
  <2>3. cur' \in Request /\ cur'.n = calls'
    BY <1>2, <2>1, <2>2 DEF StartCall, TypeOK, Request
  <2>4. LineOver(Request)' /\ clean' \in BOOLEAN
    BY <1>2 DEF StartCall, TypeOK, LineOver, line
  <2>5. failed' <= calls' - 1
    BY <1>2, <2>1 DEF StartCall, CallsAccounted, TypeOK, ghost
  <2>6. QED
    BY <1>2, <2>1, <2>2, <2>3, <2>4, <2>5
       DEF StartCall, TypeOK, CallsAccounted, line, peer, ghost
<1>3. CASE SendOk
  <2>1. toPeer' \in Seq(SentOf(Request))
    BY <1>3, SendLine DEF SendOk, TypeOK
  <2>2. QED
    BY <1>3, <2>1 DEF SendOk, TypeOK, CallsAccounted, LineOver, inst, peer, ghost
<1>4. CASE SendPart
  <2>1. toPeer' \in Seq(SentOf(Request))
    BY <1>4, SendLine DEF SendPart, TypeOK
  <2>2. QED
    BY <1>4, <2>1, FailType DEF SendPart, TypeOK, CallsAccounted, LineOver, inst, peer
<1>5. CASE SendErr
  <2>1. 0 \in Int /\ 0 \in 0 .. MaxCalls
    BY BoundAssumption
  <2>2. /\ open' \in BOOLEAN /\ peerUp' \in BOOLEAN /\ orphans' \subseteq Request
        /\ toPeer' \in Seq(SentOf(Request)) /\ net' \in Seq(PieceOf(Request))
    BY <1>5, HangupType DEF SendErr, TypeOK, LineOver, line
  <2>3. failed' <= calls'
    BY <1>5 DEF SendErr, TypeOK, CallsAccounted, inst
  <2>4. /\ pc = "send" /\ Return(0, 0)
        /\ UNCHANGED <<saddr, tid, calls, cur, clean, executed, refused, failed>>
    BY <1>5 DEF SendErr, inst, peer
  <2>5. /\ pc' = "idle" /\ buf' = <<>> /\ buf' \in Seq(PieceOf(Request))
        /\ last' \in [n : 0 .. MaxCalls, ret : Int, src : 0 .. MaxCalls, clean : BOOLEAN]
        /\ newest' \in 0 .. MaxCalls
    BY <2>1, <2>4, ReturnType
  <2>6. TypeOK'
    BY <2>2, <2>4, <2>5 DEF TypeOK, LineOver
  <2>7. CallsAccounted'
    BY <2>3, <2>4, <2>5, BoundAssumption DEF TypeOK, CallsAccounted
  <2>8. QED
    BY <2>6, <2>7
<1>6. CASE RecvPiece \/ \E cut \in Cuts : RecvPart(cut)
  <2>1. LineOver(Request)'
    BY <1>6, CollectLine DEF TypeOK, RecvPiece, RecvPart
  <2>2. QED
    BY <1>6, <2>1
       DEF RecvPiece, RecvPart, Collect, TypeOK, CallsAccounted, inst, peer, ghost
<1>7. CASE RecvTimeout
  BY <1>7, FailTyped DEF RecvTimeout
<1>8. CASE RecvErr
  <2>1. pc = "recv" /\ Fail /\ Hangup /\ UNCHANGED <<inst, peer>>
    BY <1>8 DEF RecvErr
  <2>2. /\ open' \in BOOLEAN /\ peerUp' \in BOOLEAN /\ orphans' \subseteq Request
        /\ toPeer' \in Seq(SentOf(Request)) /\ net' \in Seq(PieceOf(Request))
    BY <2>1, HangupType
  <2>3. UNCHANGED <<saddr, tid, calls, cur, clean, executed, refused>>
    BY <2>1 DEF inst, peer
  <2>4. /\ pc' = "idle" /\ buf' = <<>> /\ buf' \in Seq(PieceOf(Request))
        /\ last' \in [n : 0 .. MaxCalls, ret : Int, src : 0 .. MaxCalls, clean : BOOLEAN]
        /\ newest' \in 0 .. MaxCalls
        /\ failed' \in 0 .. MaxCalls /\ failed' <= calls'
    BY <2>1, <2>3, FailType
  <2>5. TypeOK'
    BY <2>2, <2>3, <2>4 DEF TypeOK, LineOver
  <2>6. QED
    BY <2>4, <2>5, IdleAccounted DEF TypeOK
<1>9. CASE RecvDone
  <2>1. pc = "recv" /\ buf # <<>> /\ cur \in Request
        /\ UNCHANGED <<open, peerUp, inst, line, peer>>
    BY <1>9 DEF RecvDone, TypeOK
  <2>2. PICK f \in Parsed(buf) :
            \/ Fail
            \/ \E v \in Result(f) : Return(v, f.src) /\ UNCHANGED failed
    BY <1>9 DEF RecvDone
  <2>3. f \in FrmOver(Request)
    BY <2>1, ParsedType DEF TypeOK
  <2>4. CASE Fail
    BY <2>1, <2>4, FailTyped
  <2>5. ASSUME NEW v \in Result(f), Return(v, f.src), UNCHANGED failed PROVE Typed'
    <3>1. v \in Int /\ f.src \in 0 .. MaxCalls
      BY <2>1, <2>3, <2>5, ResultType DEF FrmOver
    <3>2. failed' <= calls'
      BY <2>1, <2>5 DEF TypeOK, CallsAccounted, inst
    <3>3. UNCHANGED <<open, peerUp, saddr, tid, calls, cur, clean, toPeer, orphans, net,
                      executed, refused, failed>>
      BY <2>1, <2>5 DEF inst, line, peer
    <3>4. /\ pc' = "idle" /\ buf' = <<>> /\ buf' \in Seq(PieceOf(Request))
          /\ last' \in [n : 0 .. MaxCalls, ret : Int, src : 0 .. MaxCalls, clean : BOOLEAN]
          /\ newest' \in 0 .. MaxCalls
      BY <2>1, <2>5, <3>1, <3>3, ReturnType
    <3>5. TypeOK'
      BY <3>3, <3>4 DEF TypeOK, LineOver
    <3>6. QED
      BY <3>2, <3>4, <3>5, IdleAccounted DEF TypeOK
  <2>6. QED
    BY <2>2, <2>4, <2>5
<1>10. CASE PeerStep
  <2>1. LineOver(Request)'
    BY <1>10, PeerLine DEF PeerStep, TypeOK
  <2>2. executed' \subseteq 1 .. MaxCalls /\ refused' \subseteq 1 .. MaxCalls
    <3>1. ASSUME NEW k \in 1 .. Len(toPeer), PeerServe(k)
          PROVE executed' \subseteq 1 .. MaxCalls /\ refused' \subseteq 1 .. MaxCalls
      <4>1. toPeer \in Seq(SentOf(Request)) /\ 1 \in 1 .. Len(toPeer)
        BY <3>1, LenProperties DEF TypeOK, LineOver
      <4>2. toPeer[1] \in SentOf(Request)
        BY <4>1, ElementOfSeq
      <4>3. toPeer[1].req.n \in 1 .. MaxCalls
        BY <4>2 DEF SentOf, Request
      <4>4. QED
        BY <3>1, <4>3 DEF PeerServe, TypeOK, peer
    <3>2. ASSUME NEW r \in orphans, ServeOrphan(r)
          PROVE executed' \subseteq 1 .. MaxCalls /\ refused' \subseteq 1 .. MaxCalls
      BY <3>2 DEF ServeOrphan, TypeOK, Request
    <3>3. QED
      BY <1>10, <3>1, <3>2 DEF PeerStep, PeerClose, Disturb, TypeOK, peer
  <2>3. QED
    BY <1>10, <2>1, <2>2
       DEF PeerStep, PeerServe, ServeOrphan, PeerClose, Disturb, TypeOK,
           CallsAccounted, inst, peer, ghost
<1>11. CASE UNCHANGED vars
  BY <1>11 DEF vars, inst, line, peer, ghost, TypeOK, CallsAccounted, LineOver
<1>12. QED
  BY <1>1, <1>2, <1>3, <1>4, <1>5, <1>6, <1>7, <1>8, <1>9, <1>10, <1>11
     DEF Next, IdleStep, PeerStep

\* The model keeps the types of its variables, and failed calls never
\* outnumber calls, however many calls, slaves and requests there are.
THEOREM TypeCorrect == Spec => []TypeOK
<1>1. Spec => []Typed
  BY TypedInit, TypedStep, PTL DEF Spec
<1>2. QED
  BY <1>1, PTL DEF Typed

-----------------------------------------------------------------------------
(* Replies and calls.                                                      *)

StartStep == \E op \in Ops, nb \in Sizes : StartCall(op, nb)

\* Only the beginning of a call adds to the requests that are about: every
\* other step keeps the line over any set R that has the call in progress.
LEMMA LineStep ==
    ASSUME NEW R, LineOver(R), pc # "idle" => cur \in R, [Next]_vars, ~StartStep
    PROVE  LineOver(R)'
<1>1. CASE Connect \/ SetSlave \/ UNCHANGED vars
  BY <1>1 DEF Connect, SetSlave, vars, line, LineOver
<1>2. CASE Disconnect
  BY <1>2, HangupLine DEF Disconnect, LineOver
<1>3. CASE Flush
  <2>1. PICK k \in 1 .. Len(net) : net' = SubSeq(net, k + 1, Len(net))
    BY <1>3 DEF Flush
  <2>2. net \in Seq(PieceOf(R)) /\ k \in 0 .. Len(net)
    BY <2>1 DEF LineOver
  <2>3. net' \in Seq(PieceOf(R))
    BY <2>1, <2>2, SuffixType
  <2>4. QED
    BY <1>3, <2>3 DEF Flush, LineOver
<1>4. CASE SendOk \/ SendPart
  <2>1. cur \in R /\ toPeer' \in Seq(SentOf(R))
    BY <1>4, SendLine DEF SendOk, SendPart
  <2>2. QED
    BY <1>4, <2>1, EmptySeq DEF SendOk, SendPart, Fail, Return, LineOver
<1>5. CASE SendErr
  BY <1>5, HangupLine, EmptySeq DEF SendErr, Return, LineOver, line
<1>6. CASE RecvPiece \/ \E cut \in Cuts : RecvPart(cut)
  BY <1>6, CollectLine DEF RecvPiece, RecvPart
<1>7. CASE RecvTimeout
  BY <1>7, EmptySeq DEF RecvTimeout, Fail, Return, LineOver, line
<1>8. CASE RecvErr
  BY <1>8, HangupLine, EmptySeq DEF RecvErr, Fail, Return, LineOver
<1>9. CASE RecvDone
  BY <1>9, EmptySeq DEF RecvDone, Fail, Return, LineOver, line
<1>10. CASE PeerStep
  BY <1>10, PeerLine DEF PeerStep
<1>11. QED
  BY <1>1, <1>2, <1>3, <1>4, <1>5, <1>6, <1>7, <1>8, <1>9, <1>10
     DEF Next, PeerStep, StartStep

\* The arithmetic of the wrapping counter: one more call adds one to the age
\* of a request, and to the distance between its tid and the counter.
LEMMA TidAges ==
    ASSUME Prot = "TCP", Typed, StartStep, NEW r \in Fresh,
           calls + 1 - r.n < TidMod
    PROVE  r \in Fresh'
<1>1. /\ calls' = calls + 1 /\ tid' = NextTid
      /\ tid \in 0 .. (TidMod - 1) /\ calls \in Nat
  BY BoundAssumption DEF StartStep, StartCall, Typed, TypeOK, Tids
<1>2. r \in Request /\ r.n \in Nat
  BY DEF Fresh, Request
<1>3. /\ 0 <= calls - r.n
      /\ r.tid = IF calls - r.n <= tid THEN tid - (calls - r.n)
                                       ELSE tid - (calls - r.n) + TidMod
  BY DEF Fresh, Age
<1>4. tid' = IF tid = TidMod - 1 THEN 0 ELSE tid + 1
  BY <1>1 DEF NextTid
<1>5. r.tid = IF calls' - r.n <= tid' THEN tid' - (calls' - r.n)
                                      ELSE tid' - (calls' - r.n) + TidMod
  BY <1>1, <1>2, <1>3, <1>4, BoundAssumption
<1>6. 0 <= calls' - r.n /\ calls' - r.n < TidMod
  BY <1>1, <1>2, <1>3
<1>7. QED
  BY <1>2, <1>5, <1>6 DEF Fresh, Age

\* Beginning a call ages everything on the line, which stays young enough to
\* be told from the new request (NoneTooOld).
LEMMA TidStart ==
    ASSUME Prot = "TCP", Typed, TidTellsAge, StartStep
    PROVE  TidTellsAge'
<1>1. PICK op \in Ops, nb \in Sizes : StartCall(op, nb)
  BY DEF StartStep
<1>2. /\ NoneTooOld /\ pc = "idle" /\ buf = <<>>
      /\ UNCHANGED <<toPeer, net, buf>>
  BY <1>1 DEF StartCall, line, Typed, CallsAccounted
<1>3. /\ toPeer \in Seq(SentOf(Fresh)) /\ net \in Seq(PieceOf(Fresh))
      /\ DOMAIN toPeer = 1 .. Len(toPeer) /\ DOMAIN net = 1 .. Len(net)
  BY LenProperties DEF TidTellsAge, LineOver
<1>4. toPeer \in Seq(SentOf(Fresh'))
  <2>1. ASSUME NEW i \in 1 .. Len(toPeer) PROVE toPeer[i] \in SentOf(Fresh')
    <3>1. toPeer[i] \in SentOf(Fresh)
      BY <1>3, ElementOfSeq
    <3>2. toPeer[i].req \in Fresh /\ calls + 1 - toPeer[i].req.n < TidMod
      BY <1>2, <1>3, <3>1 DEF SentOf, NoneTooOld
    <3>3. toPeer[i].req \in Fresh'
      BY <3>2, TidAges
    <3>4. QED
      BY <3>1, <3>3 DEF SentOf
  <2>2. QED
    BY <1>3, <2>1, SeqRestrict
<1>5. net \in Seq(PieceOf(Fresh'))
  <2>1. ASSUME NEW i \in 1 .. Len(net) PROVE net[i] \in PieceOf(Fresh')
    <3>1. net[i] \in PieceOf(Fresh)
      BY <1>3, ElementOfSeq
    <3>2. net[i].rep.req \in Fresh /\ calls + 1 - net[i].rep.req.n < TidMod
      BY <1>2, <1>3, <3>1 DEF PieceOf, ReplyOf, NoneTooOld
    <3>3. net[i].rep.req \in Fresh'
      BY <3>2, TidAges
    <3>4. QED
      BY <3>1, <3>3 DEF PieceOf, ReplyOf
  <2>2. QED
    BY <1>3, <2>1, SeqRestrict
<1>6. cur' \in Fresh'
  <2>1. Typed'
    BY TypedStep, <1>1 DEF Next
  <2>2. cur' \in Request /\ cur'.n = calls' /\ cur'.tid = tid' /\ tid' \in Tids
        /\ calls' \in Nat
    BY <1>1, <2>1, BoundAssumption DEF StartCall, Typed, TypeOK
  <2>3. QED
    BY <2>2, BoundAssumption DEF Fresh, Age, Tids
<1>7. QED
  BY <1>2, <1>4, <1>5, <1>6, EmptySeq DEF TidTellsAge, LineOver

LEMMA TidStep ==
    ASSUME Prot = "TCP", Typed, TidTellsAge, [Next]_vars
    PROVE  TidTellsAge'
<1>1. CASE StartStep
  BY <1>1, TidStart
<1>2. CASE ~StartStep
  <2>1. UNCHANGED <<calls, tid, cur>>
    BY <1>2 DEF Next, StartStep, Connect, Disconnect, Flush, SetSlave, SendOk, SendPart,
          SendErr, RecvPiece, RecvPart, Collect, RecvTimeout, RecvErr, RecvDone,
          PeerServe, ServeOrphan, PeerClose, Disturb, inst, vars
  <2>2. PICK R : R = Fresh
    OBVIOUS
  <2>3. Fresh' = Fresh
    BY <2>1 DEF Fresh, Age
  <2>4. LineOver(R)'
    BY <1>2, <2>2, LineStep DEF TidTellsAge
  <2>5. LineOver(Fresh)'
    BY <2>2, <2>3, <2>4 DEF LineOver
  <2>6. pc' # "idle" => pc # "idle"
    BY <1>2 DEF Next, StartStep, Connect, Disconnect, Flush, SetSlave, SendOk, SendPart,
          SendErr, RecvPiece, RecvPart, Collect, RecvTimeout, RecvErr, RecvDone, Fail,
          Return, PeerServe, ServeOrphan, PeerClose, Disturb, inst, vars
  <2>7. QED
    BY <2>1, <2>3, <2>5, <2>6 DEF TidTellsAge
<1>3. QED
  BY <1>1, <1>2

\* Until 2^16 calls pass a request by, its transaction identifier is shared by
\* no other request that can still be answered, across the wrap of the u16.
THEOREM TidsTellAge == ASSUME Prot = "TCP" PROVE Spec => []TidTellsAge
<1>1. Init => TidTellsAge
  BY EmptySeq DEF Init, TidTellsAge, LineOver
<1>2. Typed /\ TidTellsAge /\ [Next]_vars => TidTellsAge'
  BY TidStep
<1>3. QED
  BY <1>1, <1>2, TypedInit, TypedStep, PTL DEF Spec

\* With MB_USING_MBAP_CHK a frame is accepted for a call only if it is, whole,
\* the reply to that call.
LEMMA AcceptedIsOwn ==
    ASSUME Prot = "TCP", MbapChk, UninitDlen = {FALSE}, Typed, TidTellsAge,
           pc = "recv", buf # <<>>, NEW f \in Parsed(buf), Accepted(f)
    PROVE  /\ IsWhole(buf) /\ f = FrmOf(buf[1].rep)
           /\ f.src = cur.n
<1> DEFINE rep == buf[1].rep
<1>1. f.tid = tid /\ f.dlenOk
  BY DEF Accepted
<1>2. f \in TcpParse(buf)
  BY <1>1 DEF Parsed
<1>3. \A g \in Untouched \cup HeaderOnly(rep) \cup Middle(rep) : ~g.dlenOk
  BY DEF Untouched, HeaderOnly, Middle, OwnFrm, NoFrm, Frm
<1>4. IsWhole(buf) /\ f = FrmOf(rep)
  BY <1>1, <1>2, <1>3 DEF TcpParse
<1>5. buf[1] \in PieceOf(Fresh)
  BY LenProperties, EmptySeq, ElementOfSeq DEF TidTellsAge, LineOver
<1>6. rep.req \in Fresh /\ rep.req.tid = tid
  BY <1>1, <1>4, <1>5 DEF PieceOf, ReplyOf, FrmOf, Frm
<1>7. calls = rep.req.n
  <2> DEFINE n == rep.req.n
  <2>1. /\ tid \in 0 .. (TidMod - 1) /\ TidMod \in Nat /\ calls \in Nat
    BY BoundAssumption DEF Typed, TypeOK, Tids
  <2>2. n \in Nat
    BY <1>6, BoundAssumption DEF Fresh, Request
  <2>3. /\ 0 <= calls - n /\ calls - n < TidMod
        /\ tid = IF calls - n <= tid THEN tid - (calls - n) ELSE tid - (calls - n) + TidMod
    BY <1>6 DEF Fresh, Age
  <2> HIDE DEF n
  <2>4. calls = n
    BY <2>1, <2>2, <2>3
  <2>5. QED
    BY <2>4 DEF n
<1>8. QED
  BY <1>4, <1>7 DEF FrmOf, Frm, Typed, TypeOK

\* A call that returns a value other than 0 has read it from the reply to its
\* own request.
THEOREM RepliesMatchCalls ==
    ASSUME Prot = "TCP", MbapChk, UninitDlen = {FALSE}
    PROVE  Spec => []ReplyMatchesCall
<1>1. Init => ReplyMatchesCall
  BY DEF Init, ReplyMatchesCall
<1>2. Typed /\ TidTellsAge /\ ReplyMatchesCall /\ [Next]_vars => ReplyMatchesCall'
  <2> SUFFICES ASSUME Typed, TidTellsAge, ReplyMatchesCall, [Next]_vars
               PROVE  ReplyMatchesCall'
    OBVIOUS
  <2>1. CASE UNCHANGED last
    BY <2>1 DEF ReplyMatchesCall
  <2>2. CASE last' = [n |-> cur.n, ret |-> 0, src |-> 0, clean |-> clean]
    BY <2>2 DEF ReplyMatchesCall
  <2>3. CASE RecvDone
    <3>1. PICK f \in Parsed(buf) :
              \/ Fail
              \/ Accepted(f) /\ \E v \in Result(f) : Return(v, f.src)
      BY <2>3 DEF RecvDone
    <3>2. CASE Fail
      BY <2>2, <3>2 DEF Fail, Return
    <3>3. CASE Accepted(f) /\ \E v \in Result(f) : Return(v, f.src)
      <4>1. f.src = cur.n
        BY <2>3, <3>3, AcceptedIsOwn DEF RecvDone
      <4>2. QED
        BY <3>3, <4>1 DEF Return, ReplyMatchesCall
    <3>4. QED
      BY <3>1, <3>2, <3>3
  <2>4. QED
    BY <2>1, <2>2, <2>3 DEF Next, Connect, Disconnect, Flush, SetSlave, StartCall, SendOk,
          SendPart, SendErr, RecvPiece, RecvPart, Collect, RecvTimeout, RecvErr, Fail,
          Return, PeerServe, ServeOrphan, PeerClose, Disturb, ghost, vars
<1>3. QED
  BY <1>1, <1>2, TypedInit, TypedStep, TidsTellAge, PTL DEF Spec

-----------------------------------------------------------------------------
(* How far the master can fall behind the line.                            *)

\* Builds in which an accepted frame is a whole one.
WholeFramesOnly == Prot = "RTU" \/ (MbapChk /\ UninitDlen = {FALSE})

\* buf holds the end of a reply: receiving it has taken a reply off the line.
\* Without this conjunct LagBoundedByFailures is not inductive: nothing would
\* relate the success of a call to a reply less on the line.
HoldsReply == \E i \in DOMAIN buf : buf[i].part \notin {"short", "fields"}

LagInv == Len(toPeer) + Len(net) + (IF HoldsReply THEN 1 ELSE 0)
            <= failed + (IF pc = "recv" THEN 1 ELSE 0)

\* Where only whole frames are accepted, an accepted frame is what the first
\* reply collected says.
LEMMA AcceptedIsWhole ==
    ASSUME WholeFramesOnly, NEW f \in Parsed(buf), Accepted(f)
    PROVE  IsWhole(buf) /\ f = FrmOf(buf[1].rep)
<1>1. CASE Prot = "RTU"
  BY <1>1 DEF Parsed, RtuParse, Accepted, NoFrm, Frm
<1>2. CASE Prot = "TCP" /\ MbapChk /\ UninitDlen = {FALSE}
  <2>1. f.dlenOk /\ f \in TcpParse(buf)
    BY <1>2 DEF Accepted, Parsed
  <2>2. \A g \in Untouched \cup HeaderOnly(buf[1].rep) \cup Middle(buf[1].rep) : ~g.dlenOk
    BY <1>2 DEF Untouched, HeaderOnly, Middle, OwnFrm, NoFrm, Frm
  <2>3. QED
    BY <2>1, <2>2 DEF TcpParse
<1>3. QED
  BY <1>1, <1>2, ConfigAssumption DEF WholeFramesOnly

LEMMA AcceptedHoldsReply ==
    ASSUME WholeFramesOnly, Typed, buf # <<>>, NEW f \in Parsed(buf), Accepted(f)
    PROVE  HoldsReply
<1>1. IsWhole(buf)
  BY AcceptedIsWhole
<1>2. Len(buf) \in Nat /\ Len(buf) # 0 /\ DOMAIN buf = 1 .. Len(buf)
  BY LenProperties, EmptySeq DEF Typed, TypeOK, LineOver
<1>3. CASE buf[1].part = "all"
  BY <1>2, <1>3 DEF HoldsReply
<1>4. CASE Len(buf) > 1 /\ buf[2].part = "rest"
  BY <1>2, <1>4 DEF HoldsReply
<1>5. QED
  BY <1>1, <1>3, <1>4 DEF IsWhole

LEMMA LagStep ==
    ASSUME WholeFramesOnly, Typed, LagInv, [Next]_vars
    PROVE  LagInv'
<1> DEFINE L == Len(toPeer) + Len(net)
<1>1. /\ LineOver(Request) /\ Len(toPeer) \in Nat /\ Len(net) \in Nat /\ failed \in Nat
      /\ Len(toPeer)' \in Nat /\ Len(net)' \in Nat /\ failed' \in Nat
  <2>1. Typed'
    BY TypedStep
  <2>2. QED
    BY <2>1, LenProperties, BoundAssumption DEF Typed, TypeOK, LineOver
<1>2. ASSUME buf' = <<>> PROVE ~HoldsReply'
  BY <1>2 DEF HoldsReply
<1>3. ASSUME UNCHANGED <<buf, failed>>, pc' = pc \/ (pc = "idle" /\ pc' = "send"),
             Len(toPeer') + Len(net') <= L
      PROVE  LagInv'
  <2>1. HoldsReply' = HoldsReply
    BY <1>3 DEF HoldsReply
  <2>2. QED
    BY <1>1, <1>3, <2>1 DEF LagInv
<1>4. ASSUME Fail, pc # "idle", Len(toPeer') + Len(net') <= L + (IF pc = "recv" THEN 0 ELSE 1)
      PROVE  LagInv'
  <2>1. pc' = "idle" /\ buf' = <<>> /\ failed' = failed + 1
    BY <1>4 DEF Fail, Return
  <2>2. L <= failed + (IF pc = "recv" THEN 1 ELSE 0)
    BY <1>1 DEF LagInv
  <2>3. QED
    BY <1>1, <1>2, <1>4, <2>1, <2>2 DEF LagInv
<1>5. CASE Connect \/ SetSlave \/ StartStep \/ UNCHANGED vars
  BY <1>1, <1>3, <1>5 DEF Connect, SetSlave, StartStep, StartCall, vars, line, ghost
<1>6. CASE Disconnect
  BY <1>1, <1>3, <1>6, HangupLine DEF Disconnect, ghost
<1>7. CASE Flush
  <2>1. PICK k \in 1 .. Len(net) : net' = SubSeq(net, k + 1, Len(net))
    BY <1>7 DEF Flush
  <2>2. net \in Seq(PieceOf(Request)) /\ k \in 0 .. Len(net)
    BY <1>1, <2>1 DEF LineOver
  <2>3. Len(net') = Len(net) - k
    BY <2>1, <2>2, SuffixType
  <2>4. QED
    BY <1>1, <1>3, <1>7, <2>2, <2>3 DEF Flush, ghost
<1>8. CASE PeerStep
  <2>1. Len(toPeer') + Len(net') <= L
    BY <1>1, <1>8, PeerLine DEF PeerStep
  <2>2. QED
    BY <1>3, <1>8, <2>1 DEF PeerStep, PeerServe, ServeOrphan, PeerClose, Disturb, ghost
<1>9. CASE SendOk
  <2>1. Len(toPeer') + Len(net') <= L + 1
    BY <1>1, <1>9, SendLine DEF SendOk, Typed, TypeOK
  <2>2. pc = "send" /\ pc' = "recv" /\ buf' = <<>> /\ UNCHANGED failed
    BY <1>9 DEF SendOk, ghost, Typed, CallsAccounted
  <2>3. L <= failed
    BY <1>1, <2>2 DEF LagInv
  <2>4. QED
    BY <1>1, <1>2, <2>1, <2>2, <2>3 DEF LagInv
<1>10. CASE SendPart
  <2>1. Len(toPeer') + Len(net') <= L + 1
    BY <1>1, <1>10, SendLine DEF SendPart, Typed, TypeOK
  <2>2. QED
    BY <1>4, <1>10, <2>1 DEF SendPart
<1>11. CASE SendErr
  <2>1. Len(toPeer') + Len(net') <= L
    BY <1>1, <1>11, HangupLine DEF SendErr, line
  <2>2. pc = "send" /\ pc' = "idle" /\ buf' = <<>> /\ UNCHANGED failed
    BY <1>11 DEF SendErr, Return
  <2>3. L <= failed
    BY <1>1, <2>2 DEF LagInv
  <2>4. QED
    BY <1>1, <1>2, <2>1, <2>2, <2>3 DEF LagInv
<1>12. CASE RecvPiece
  <2>1. net # <<>> /\ pc = "recv" /\ UNCHANGED <<pc, toPeer, failed>>
        /\ net' = <<>> \o Tail(net)
    BY <1>12 DEF RecvPiece, Collect, ghost
  <2>2. net' = Tail(net) /\ Len(Tail(net)) = Len(net) - 1
    BY <1>1, <2>1, HeadTailProperties, ConcatEmptySeq DEF LineOver
  <2>3. QED
    BY <1>1, <2>1, <2>2 DEF LagInv
<1>13. ASSUME NEW cut \in Cuts, RecvPart(cut) PROVE LagInv'
  <2> DEFINE h == [Head(net) EXCEPT !.part = cut]
  <2>1. net # <<>> /\ pc = "recv" /\ UNCHANGED <<pc, toPeer, failed>>
        /\ buf' = Append(buf, h)
    BY <1>13 DEF RecvPart, Collect, ghost
  <2>2. Len(toPeer') + Len(net') <= L
    BY <1>1, <1>13, <2>1, CollectLine
  <2>3. h \in PieceOf(Request) /\ h.part \in {"short", "fields"}
    <3>1. Head(net) \in PieceOf(Request)
      BY <1>1, <2>1, HeadTailProperties DEF LineOver
    <3>2. QED
      BY <3>1, ConfigAssumption DEF PieceOf
  <2> HIDE DEF h
  <2>4. HoldsReply' => HoldsReply
    <3>1. /\ buf \in Seq(PieceOf(Request)) /\ Len(buf) \in Nat /\ DOMAIN buf = 1 .. Len(buf)
          /\ DOMAIN buf' = 1 .. (Len(buf) + 1)
      BY <1>1, <2>1, <2>3, LenProperties, AppendProperties DEF LineOver
    <3>2. /\ \A i \in 1 .. Len(buf) : buf'[i] = buf[i]
          /\ buf'[Len(buf) + 1] = h
      BY <2>1, <2>3, <3>1, AppendProperties
    <3>3. QED
      BY <2>3, <3>1, <3>2 DEF HoldsReply
  <2>5. QED
    BY <1>1, <2>1, <2>2, <2>4 DEF LagInv
<1>14. CASE RecvTimeout
  BY <1>1, <1>4, <1>14 DEF RecvTimeout, line
<1>15. CASE RecvErr
  BY <1>1, <1>4, <1>15, HangupLine DEF RecvErr
<1>16. CASE RecvDone
  <2>1. pc = "recv" /\ buf # <<>> /\ UNCHANGED <<toPeer, net>>
    BY <1>16 DEF RecvDone, line
  <2>2. PICK f \in Parsed(buf) :
            \/ Fail
            \/ /\ Accepted(f)
               /\ \E v \in Result(f) : Return(v, f.src) /\ UNCHANGED failed
    BY <1>16 DEF RecvDone
  <2>3. CASE Fail
    BY <1>1, <1>4, <2>1, <2>3
  <2>4. CASE /\ Accepted(f)
             /\ \E v \in Result(f) : Return(v, f.src) /\ UNCHANGED failed
    <3>1. HoldsReply
      BY <2>1, <2>4, AcceptedHoldsReply
    <3>2. L + 1 <= failed + 1
      BY <1>1, <2>1, <3>1 DEF LagInv
    <3>3. pc' = "idle" /\ buf' = <<>> /\ UNCHANGED failed
      BY <2>4 DEF Return
    <3>4. QED
      BY <1>1, <1>2, <2>1, <3>2, <3>3 DEF LagInv
  <2>5. QED
    BY <2>2, <2>3, <2>4
<1>17. QED
  BY <1>5, <1>6, <1>7, <1>8, <1>9, <1>10, <1>11, <1>12, <1>13, <1>14, <1>15, <1>16
     DEF Next, StartStep, PeerStep

\* A master that takes whole frames only is never more replies behind than
\* calls have failed: each success takes a reply off the line.
THEOREM LagIsBounded == ASSUME WholeFramesOnly PROVE Spec => []LagBoundedByFailures
<1>1. Init => LagInv
  BY EmptySeq DEF Init, LagInv, HoldsReply
<1>2. Typed /\ LagInv /\ [Next]_vars => LagInv'
  BY LagStep
<1>3. Typed /\ LagInv => LagBoundedByFailures
  <2>1. Typed => Len(toPeer) \in Nat /\ Len(net) \in Nat /\ failed \in Nat
    BY LenProperties, BoundAssumption DEF Typed, TypeOK, LineOver
  <2>2. QED
    BY <2>1 DEF LagInv, LagBoundedByFailures
<1>4. QED
  BY <1>1, <1>2, <1>3, TypedInit, TypedStep, PTL DEF Spec

=============================================================================
