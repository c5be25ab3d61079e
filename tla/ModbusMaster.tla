---------------------------- MODULE ModbusMaster ----------------------------
(***************************************************************************)
(* The master half of qmodbus: one mb_inst_t whose owner thread calls the  *)
(* request functions of modbus_master.c one after another, framed by Prot, *)
(* over a serial line (Backend = "RTU") or a TCP connection.               *)
(*                                                                         *)
(* A call is: send the request (mb_send), collect bytes until the line     *)
(* falls silent (mb_recv), parse the FIRST frame of what was collected,    *)
(* optionally check its header, return.  Nothing is flushed before a       *)
(* request, so bytes of an earlier reply that come late are still there.   *)
(*                                                                         *)
(* Data is abstracted to what tells the replies apart.  A reply carries    *)
(* the whole request it answers; req.n (the number of the call) is a ghost *)
(* the code does not have, req.tid is the MBAP transaction identifier it   *)
(* does have.  The line delivers a reply whole or in two pieces.           *)
(***************************************************************************)
EXTENDS Integers, Sequences, FiniteSets

CONSTANTS
    Prot,         \* hinst->prot: "RTU" or "TCP" framing
    Backend,      \* hinst->backend->type: "RTU" serial line, "TCP" connection
    AddrChk,      \* MB_USING_ADDR_CHK is defined
    MbapChk,      \* MB_USING_MBAP_CHK is defined
    Slaves,       \* slave addresses the application selects
    Ops,          \* request functions the application calls
    Sizes,        \* numbers of bits or registers it asks for
    AnyValue,     \* what a field no parser assigned may hold
    UninitDlen,   \* outcomes of comparing an unassigned mbap.dlen with 1
    Cuts,         \* where the line may break a reply in two (see PieceOf)
    TidMod,       \* 2^16 in the code: the values of the u16 tid
    MaxCalls      \* bound: calls in a behaviour

AllOps == {"read_bits", "read_regs", "write", "single", "mask", "wr_rd"}
ReadOps == {"read_bits", "read_regs", "wr_rd"}   \* answered by an rd_rsp pdu

ASSUME ConfigAssumption ==
    /\ Prot \in {"RTU", "TCP"} /\ Backend \in {"RTU", "TCP"}
    /\ Prot = "TCP" => Backend = "TCP"
    /\ AddrChk \in BOOLEAN /\ MbapChk \in BOOLEAN
    /\ Ops \subseteq AllOps
    /\ Sizes \subseteq Nat \ {0}
    /\ AnyValue \subseteq Nat
    /\ UninitDlen \subseteq BOOLEAN /\ UninitDlen # {}
    /\ Cuts \subseteq {"short", "fields"}
ASSUME BoundAssumption == TidMod \in Nat \ {0} /\ MaxCalls \in Nat

-----------------------------------------------------------------------------
Tids == 0 .. (TidMod - 1)

Request == [n : 1 .. MaxCalls, op : Ops, sa : Slaves, nb : Sizes, tid : Tids]

\* Requests on their way: whole, or the fragment a short write left behind.
SentOf(R) == [req : R, whole : BOOLEAN]

ReplyOf(R) == [req : R, kind : {"ok", "exc"}]

(***************************************************************************)
(* What the line delivers: "all" of a reply; its first bytes, "short" of   *)
(* the 9 that mb_tcp_frm_parse asks for, or long enough that the header    *)
(* "fields" are complete but the pdu is not; the "rest" of a cut reply;    *)
(* "noise", a reply whose CRC a disturbed serial line spoiled.             *)
(***************************************************************************)
PieceOf(R) == [rep : ReplyOf(R),
               part : {"all", "short", "fields", "rest", "noise"}]

NoRequest == [n |-> 0]

VARIABLES
    open,      \* hinst->backend->hinst # NULL
    peerUp,    \* the other end holds the connection open
    saddr,     \* hinst->saddr
    tid,       \* hinst->tid
    pc,        \* the owner thread: outside a call, about to send, receiving
    calls,     \* number of calls so far
    cur,       \* the request of the call in progress (frm before the parse)
    buf,       \* pieces collected by the mb_recv in progress
    toPeer,    \* requests the peer has not read
    orphans,   \* requests left on connections since closed
    net,       \* reply bytes the master has not read
    executed,  \* ghost: calls whose request the peer carried out
    refused,   \* ghost: calls whose request the peer answered by an exception
    last,      \* ghost: the call that returned last: its number, the value it
               \*   returned, the call whose reply it took (0: none), and
               \*   whether the line was quiet when it began
    clean,     \* ghost: the line was quiet when the current call began
    newest,    \* ghost: the call whose reply was taken last
    failed     \* ghost: calls that put bytes on the line and returned 0

line  == <<toPeer, orphans, net>>
peer  == <<executed, refused>>
ghost == <<last, newest, failed>>
inst  == <<saddr, tid, calls, cur, clean>>
vars  == <<open, peerUp, pc, buf, inst, line, peer, ghost>>

Init ==
    /\ open = FALSE /\ peerUp = FALSE
    /\ saddr \in Slaves /\ tid = 0
    /\ pc = "idle" /\ calls = 0 /\ cur = NoRequest /\ buf = <<>>
    /\ toPeer = <<>> /\ orphans = {} /\ net = <<>>
    /\ executed = {} /\ refused = {}
    /\ last = [n |-> 0, ret |-> 0, src |-> 0, clean |-> TRUE]
    /\ clean = TRUE /\ newest = 0 /\ failed = 0

-----------------------------------------------------------------------------
(* The connection.                                                         *)

\* What is left of a line when this end closes it.  A TCP stream is gone with
\* the requests the peer may still read from it; a serial line stays, and
\* only the bytes that already arrived are lost.
Hangup ==
    /\ open' = FALSE /\ peerUp' = FALSE
    /\ \/ /\ Backend = "TCP"
          /\ orphans' = orphans \cup {s.req : s \in {toPeer[i] : i \in
                                  {j \in DOMAIN toPeer : toPeer[j].whole}}}
          /\ toPeer' = <<>> /\ net' = <<>>
       \/ /\ Backend = "RTU"
          /\ \E k \in 0 .. Len(net) : net' = SubSeq(net, k + 1, Len(net))
          /\ UNCHANGED <<toPeer, orphans>>

\* mb_connect; on failure, and when already open, nothing changes.
Connect ==
    /\ pc = "idle" /\ ~open
    /\ open' = TRUE /\ peerUp' = TRUE
    /\ UNCHANGED <<pc, buf, inst, line, peer, ghost>>

Disconnect ==
    /\ pc = "idle" /\ open
    /\ Hangup
    /\ UNCHANGED <<pc, buf, inst, peer, ghost>>

\* mb_flush drops what has arrived; the master itself never calls it.
Flush ==
    /\ pc = "idle" /\ open
    /\ \E k \in 1 .. Len(net) : net' = SubSeq(net, k + 1, Len(net))
    /\ UNCHANGED <<open, peerUp, pc, buf, inst, toPeer, orphans, peer, ghost>>

SetSlave ==
    /\ pc = "idle"
    /\ saddr' \in Slaves \ {saddr}
    /\ UNCHANGED <<open, peerUp, pc, buf, tid, calls, cur, clean, line, peer, ghost>>

-----------------------------------------------------------------------------
(* The peer and the line.                                                  *)

Drop(q, i) == SubSeq(q, 1, i - 1) \o SubSeq(q, i + 1, Len(q))

\* One pass of the peer over what it has read, k requests at once: it handles
\* the first frame and forgets the others.  A fragment makes it handle
\* nothing, unless the bytes of the next request complete the frame, which
\* only a CRC would notice: it then answers under the fragment's header.
PeerServe(k) ==
    /\ k \in 1 .. Len(toPeer)
    /\ toPeer' = SubSeq(toPeer, k + 1, Len(toPeer))
    /\ LET s == toPeer[1]
           Answer(kind) == net' = Append(net, [rep |-> [req |-> s.req, kind |-> kind],
                                               part |-> "all"])
       IN \/ /\ s.whole /\ Answer("ok")
             /\ executed' = executed \cup {s.req.n} /\ UNCHANGED refused
          \/ /\ s.whole /\ Answer("exc")
             /\ refused' = refused \cup {s.req.n} /\ UNCHANGED executed
          \/ /\ ~s.whole /\ k > 1 /\ Prot = "TCP"
             /\ \E kind \in {"ok", "exc"} : Answer(kind)
             /\ UNCHANGED peer
          \/ UNCHANGED <<net, peer>>
    /\ UNCHANGED <<open, peerUp, pc, buf, inst, orphans, ghost>>

\* The peer reads a request of a connection this end has closed.
ServeOrphan(r) ==
    /\ r \in orphans
    /\ orphans' = orphans \ {r}
    /\ \/ executed' = executed \cup {r.n} /\ UNCHANGED refused
       \/ refused' = refused \cup {r.n} /\ UNCHANGED executed
    /\ UNCHANGED <<open, peerUp, pc, buf, inst, toPeer, net, ghost>>

\* The peer closes; what it sent before can still be read.
PeerClose ==
    /\ Backend = "TCP" /\ peerUp
    /\ peerUp' = FALSE /\ toPeer' = <<>>
    /\ UNCHANGED <<open, pc, buf, inst, orphans, net, peer, ghost>>

\* A serial line loses a request or a reply, or disturbs a reply.
Disturb ==
    /\ Backend = "RTU"
    /\ \/ /\ \E i \in DOMAIN toPeer : toPeer' = Drop(toPeer, i)
          /\ UNCHANGED net
       \/ /\ \E i \in DOMAIN net :
                \/ net' = Drop(net, i)
                \/ net[i].part # "noise" /\ net' = [net EXCEPT ![i].part = "noise"]
          /\ UNCHANGED toPeer
    /\ UNCHANGED <<open, peerUp, pc, buf, inst, orphans, peer, ghost>>

-----------------------------------------------------------------------------
(* A call, up to mb_send.                                                  *)

\* MUTANTS of NextTid: a tid that does not wrap; one that is not advanced.
NextTidNoWrap == IF Prot # "TCP" THEN tid ELSE tid + 1
NextTidStuck  == tid

NextTid == IF Prot # "TCP" THEN tid ELSE IF tid = TidMod - 1 THEN 0 ELSE tid + 1

\* ENVIRONMENT: no request or reply stays under way while tid runs through all
\* its values (2^16 calls), as a maximum segment lifetime would have it.
NoneTooOld ==
    /\ \A i \in DOMAIN toPeer : calls + 1 - toPeer[i].req.n < TidMod
    /\ \A i \in DOMAIN net : calls + 1 - net[i].rep.req.n < TidMod

StartCall(op, nb) ==
    /\ pc = "idle" /\ calls < MaxCalls
    /\ NoneTooOld
    /\ pc' = "send" /\ calls' = calls + 1 /\ tid' = NextTid
    /\ cur' = [n |-> calls + 1, op |-> op, sa |-> saddr, nb |-> nb, tid |-> NextTid]
    /\ clean' = (toPeer = <<>> /\ net = <<>>)
    /\ UNCHANGED <<open, peerUp, saddr, buf, line, peer, ghost>>

\* MUTANT of Return: what this call collected stays for the next one.
ReturnKeepingBuf(v, src) ==
    /\ pc' = "idle"
    /\ last' = [n |-> cur.n, ret |-> v, src |-> src, clean |-> clean]
    /\ newest' = IF src = 0 THEN newest ELSE src
    /\ UNCHANGED buf

\* The call returns value v; src is the call whose reply it took for its own.
Return(v, src) ==
    /\ pc' = "idle"
    /\ last' = [n |-> cur.n, ret |-> v, src |-> src, clean |-> clean]
    /\ newest' = IF src = 0 THEN newest ELSE src
    /\ buf' = <<>>

Fail == Return(0, 0) /\ failed' = failed + 1

SendOk ==
    /\ pc = "send" /\ open
    /\ toPeer' = IF peerUp THEN Append(toPeer, [req |-> cur, whole |-> TRUE]) ELSE toPeer
    /\ pc' = "recv"
    /\ UNCHANGED <<open, peerUp, buf, inst, orphans, net, peer, ghost>>

\* slen # flen: part of the frame was written; the call returns 0.
SendPart ==
    /\ pc = "send" /\ open
    /\ toPeer' = IF peerUp THEN Append(toPeer, [req |-> cur, whole |-> FALSE]) ELSE toPeer
    /\ Fail
    /\ UNCHANGED <<open, peerUp, inst, orphans, net, peer>>

\* mb_send closes the backend on an error, and a closed one is an error.
SendErr ==
    /\ pc = "send"
    /\ Return(0, 0)
    /\ IF open THEN Hangup ELSE UNCHANGED <<open, peerUp, line>>
    /\ UNCHANGED <<inst, peer, failed>>

-----------------------------------------------------------------------------
(* mb_recv: collect pieces until the line is silent.                       *)

Collect(part, rest) ==
    /\ pc = "recv" /\ open /\ net # <<>>
    /\ buf' = Append(buf, [Head(net) EXCEPT !.part = part])
    /\ net' = rest \o Tail(net)
    /\ UNCHANGED <<open, peerUp, pc, inst, toPeer, orphans, peer, ghost>>

\* MUTANT of RecvPiece: the bytes are looked at but not taken off the line.
RecvPiecePeeking ==
    /\ pc = "recv" /\ open /\ net # <<>> /\ buf = <<>>
    /\ buf' = <<Head(net)>>
    /\ UNCHANGED <<open, peerUp, pc, inst, line, peer, ghost>>

RecvPiece == net # <<>> /\ Collect(Head(net).part, <<>>)

\* The line pauses inside a reply, or the reply overruns what is left of buf.
\* The 9 bytes of an exception reply have no "fields" prefix.
RecvPart(cut) ==
    /\ net # <<>> /\ Head(net).part = "all"
    /\ cut = "fields" => Head(net).rep.kind = "ok"
    /\ Collect(cut, <<[Head(net) EXCEPT !.part = "rest"]>>)

\* Nothing came within ack_tmo_ms.
RecvTimeout ==
    /\ pc = "recv" /\ open /\ buf = <<>>
    /\ Fail
    /\ UNCHANGED <<open, peerUp, inst, line, peer>>

\* The read failed, or the peer has closed and nothing is left to read: -1,
\* the bytes collected so far are given up and the backend is closed.
RecvErr ==
    /\ pc = "recv" /\ open
    /\ Backend = "TCP" => ~peerUp /\ net = <<>>
    /\ Fail
    /\ Hangup
    /\ UNCHANGED <<inst, peer>>

-----------------------------------------------------------------------------
(* Parsing.  A frm is what the frame structure holds afterwards:           *)
(*   sa, tid   the address and transaction fields                          *)
(*   dlenOk    whether mbap.dlen equals the parser's result + 1            *)
(*   got       "ok"/"exc": the pdu of req's reply; "own": the request's    *)
(*             own pdu, left in the union by a parse that gave up; "junk": *)
(*             bytes taken from the middle of a frame; "none": rejected    *)
(*   src       the call whose reply supplied the bytes (0: none)           *)

IsWhole(b) == \/ b[1].part = "all"
              \/ /\ b[1].part \in {"short", "fields"} /\ Len(b) > 1
                 /\ b[2].part = "rest" /\ b[2].rep = b[1].rep

Frm(sa, t, ok, got, req, src) ==
    [sa |-> sa, tid |-> t, dlenOk |-> ok, got |-> got, req |-> req, src |-> src]

FrmOf(rep) == Frm(rep.req.sa, rep.req.tid, TRUE, rep.kind, rep.req, rep.req.n)
OwnFrm(ok) == Frm(cur.sa, cur.tid, ok, "own", cur, 0)
NoFrm      == Frm(cur.sa, cur.tid, FALSE, "none", cur, 0)

\* MUTANT of RtuParse: neither the length nor the CRC is tested.
RtuParseUnchecked(b) == {FrmOf(b[1].rep)}

\* A failed length test or CRC ends the call.
RtuParse(b) == IF IsWhole(b) THEN {FrmOf(b[1].rep)} ELSE {NoFrm}

\* Below 9 bytes mb_tcp_frm_parse assigns nothing.
Untouched == {OwnFrm(ok) : ok \in UninitDlen}

\* Complete header fields, with the request's own pdu left in place or, in a
\* reply to a read, a pdu without its data.
HeaderOnly(rep) ==
    {Frm(rep.req.sa, rep.req.tid, FALSE, "own", cur, 0)} \cup
    (IF rep.req.op \in ReadOps
     THEN {Frm(rep.req.sa, rep.req.tid, FALSE, "ok", rep.req, rep.req.n)} ELSE {})

\* The middle of a frame; it does not happen to look like the expected header.
Middle(rep) ==
    {NoFrm} \cup Untouched \cup
    {Frm(sa, rep.req.tid, FALSE, "junk", rep.req, rep.req.n) : sa \in Slaves} \cup
    {Frm(sa, rep.req.tid, FALSE, "exc", rep.req, rep.req.n) : sa \in Slaves}

\* mb_tcp_frm_parse returns 0 for a frame cut short, and the master lets 0
\* pass: what is in frm then is taken for the reply.
TcpParse(b) ==
    IF IsWhole(b) THEN {FrmOf(b[1].rep)}
    ELSE IF b[1].part = "short" THEN Untouched
    ELSE IF b[1].part = "fields" THEN HeaderOnly(b[1].rep)
    ELSE Middle(b[1].rep)

\* MUTANTS of Accepted: a header check that forgets the tid, or the length.
AcceptedAnyTid(f)  == f.got # "none" /\ f.dlenOk
AcceptedAnyDlen(f) == f.got # "none" /\ (AddrChk => f.sa = saddr) /\ f.tid = tid

\* The header checks the build has compiled in.
Accepted(f) ==
    /\ f.got # "none"
    /\ AddrChk => f.sa = saddr
    /\ MbapChk /\ Prot = "TCP" => f.tid = tid /\ f.dlenOk

Parsed(b) == IF Prot = "RTU" THEN RtuParse(b) ELSE TcpParse(b)

-----------------------------------------------------------------------------
(* What each request function makes of an accepted frm: the set of values  *)
(* it can return.  The pdu is a union, so a field the reply did not assign *)
(* keeps what the request wrote at that place, or is not defined.          *)

ExcCode == 2   \* any code of an exception reply

\* Bytes a reply to a read of nb items carries.
Bytes(op, nb) == IF op = "read_bits" THEN (nb + 7) \div 8 ELSE 2 * nb

\* pdu.rd_rsp.dlen
RdRspDlen(f) == IF f.got = "ok" /\ f.req.op \in ReadOps
                THEN {Bytes(f.req.op, f.req.nb)} ELSE AnyValue

\* pdu.wr_rsp.nb, at the place of pdu.wr_req.nb
WrRspNb(f) == IF f.got = "ok" /\ f.req.op = "write" THEN {f.req.nb}
              ELSE IF f.got = "own" THEN {cur.nb} ELSE AnyValue \cup {cur.nb}

OrExc(f, values) == IF f.got = "exc" THEN {-ExcCode} ELSE values

MbReadReq(f) == OrExc(f, RdRspDlen(f))

\* MUTANT of MbReadBits: the bytes of the reply are counted, not its bits.
MbReadBitsInBytes(f) == MbReadReq(f)

MbReadBits(f) == {IF d # Bytes("read_bits", cur.nb) THEN d ELSE cur.nb : d \in MbReadReq(f)}

MbReadRegs(f) == {IF d <= 0 THEN d ELSE IF d # 2 * cur.nb THEN 0 ELSE cur.nb :
                     d \in MbReadReq(f)}

MbWriteReq(f) == OrExc(f, WrRspNb(f))

MbWriteSingle(f) == OrExc(f, {1})

MbMaskWriteReg(f) == OrExc(f, {1})

MbWriteAndReadRegs(f) ==
    OrExc(f, {IF d # 2 * cur.nb THEN 0 ELSE cur.nb : d \in RdRspDlen(f)})

Result(f) == CASE cur.op = "read_bits" -> MbReadBits(f)
               [] cur.op = "read_regs" -> MbReadRegs(f)
               [] cur.op = "write"     -> MbWriteReq(f)
               [] cur.op = "single"    -> MbWriteSingle(f)
               [] cur.op = "mask"      -> MbMaskWriteReg(f)
               [] cur.op = "wr_rd"     -> MbWriteAndReadRegs(f)

\* Silence for byte_tmo_ms, or buf is full: the call parses and returns.  A
\* value of 0 takes no reply.
RecvDone ==
    /\ pc = "recv" /\ open /\ buf # <<>>
    /\ \E f \in Parsed(buf) :
         \/ ~Accepted(f) /\ Fail
         \/ /\ Accepted(f)
            /\ \E v \in Result(f) :
                 \/ v = 0 /\ Fail
                 \/ v # 0 /\ Return(v, f.src) /\ UNCHANGED failed
    /\ UNCHANGED <<open, peerUp, inst, line, peer>>

-----------------------------------------------------------------------------
Next ==
    \/ Connect \/ Disconnect \/ Flush \/ SetSlave
    \/ \E op \in Ops, nb \in Sizes : StartCall(op, nb)
    \/ SendOk \/ SendPart \/ SendErr
    \/ RecvPiece \/ (\E cut \in Cuts : RecvPart(cut))
    \/ RecvTimeout \/ RecvErr \/ RecvDone
    \/ \E k \in 1 .. Len(toPeer) : PeerServe(k)
    \/ \E r \in orphans : ServeOrphan(r)
    \/ PeerClose \/ Disturb

Spec == Init /\ [][Next]_vars

-----------------------------------------------------------------------------
(* Properties.                                                             *)

\* The line carries requests of R, and replies to them, only.
LineOver(R) ==
    /\ toPeer \in Seq(SentOf(R))
    /\ net \in Seq(PieceOf(R)) /\ buf \in Seq(PieceOf(R))

TypeOK ==
    /\ open \in BOOLEAN /\ peerUp \in BOOLEAN
    /\ saddr \in Slaves /\ tid \in Tids
    /\ pc \in {"idle", "send", "recv"}
    /\ calls \in 0 .. MaxCalls
    /\ cur \in Request \cup {NoRequest}
    /\ pc # "idle" => cur \in Request
    /\ cur.n = calls
    /\ LineOver(Request)
    /\ orphans \subseteq Request
    /\ executed \subseteq 1 .. MaxCalls /\ refused \subseteq 1 .. MaxCalls
    /\ last \in [n : 0 .. MaxCalls, ret : Int, src : 0 .. MaxCalls, clean : BOOLEAN]
    /\ clean \in BOOLEAN
    /\ newest \in 0 .. MaxCalls /\ failed \in 0 .. MaxCalls

\* The tid of a request under way tells how many calls ago it was made: no two
\* requests that can still be answered share one, across the wrap of the u16.
Age(r) == calls - r.n
Fresh == {r \in Request :
            /\ 0 <= Age(r) /\ Age(r) < TidMod
            /\ r.tid = IF Age(r) <= tid THEN tid - Age(r) ELSE tid - Age(r) + TidMod}
TidTellsAge == LineOver(Fresh) /\ (pc # "idle" => cur \in Fresh)

\* A value other than 0 was read from the reply to this very call, however
\* many replies of calls given up earlier were still on the line.  What the
\* transaction identifier is for (modbus_tcp.h: a response has the tid of its
\* request); holds for TCP framing with MB_USING_MBAP_CHK.
ReplyMatchesCall == last.ret # 0 => last.src = last.n

\* A call that began on a quiet line and returned a value other than 0 took
\* its own reply, even where nothing in the frame identifies the request.
CleanLineOwnReply == last.clean /\ last.ret # 0 => last.src = last.n

\* On a line that was quiet a positive result is the number of bits or of
\* registers asked for.  mb_read_req copies into the caller's buffer what the
\* reply counts, so that this is what keeps a read within it.
CleanLineWholeResult ==
    pc = "idle" /\ last.n = cur.n /\ last.clean /\ last.ret > 0 =>
        last.ret = IF cur.op \in {"single", "mask"} THEN 1 ELSE cur.nb

\* Replies are taken at most once, and in the order of the calls.
RepliesInOrder == [][pc = "recv" /\ pc' = "idle" /\ last'.src # 0
                        => last'.src > newest]_vars

\* The master cannot fall further behind the line than the calls it gave up
\* on: every call that succeeds takes one answer off the line.
LagBoundedByFailures ==
    Len(toPeer) + Len(net) <= failed + (IF pc = "recv" THEN 1 ELSE 0)

\* modbus.h promises 0 for every failure but an exception reply: a positive
\* value means that the peer carried the request out.
SuccessMeansExecuted == last.ret > 0 => last.n \in executed

\* What the caller is promised, with the line left out (RemoteCall).
Contract == INSTANCE RemoteCall WITH
    busy <- pc # "idle",
    sign <- IF last.ret > 0 THEN 1 ELSE IF last.ret < 0 THEN -1 ELSE 0
ContractSpec == Contract!Spec

=============================================================================
