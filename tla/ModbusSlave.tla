----------------------------- MODULE ModbusSlave -----------------------------
(***************************************************************************)
(* The slave half of qmodbus: threads that call mb_slave_fsm in a loop, one*)
(* per connection of a TCP server (mb_sample_tcp_srv_slave.c) or a single  *)
(* one on a serial line.  Each has an mb_inst_t of its own; the callbacks  *)
(* of all of them work on the same registers of the application.           *)
(*                                                                         *)
(* A callback is one step: between two of them, of one request, another    *)
(* thread may run.                                                         *)
(***************************************************************************)
EXTENDS ModbusRequest

CONSTANTS
    Conns,         \* connections, each with its thread
    Prot,          \* "RTU" or "TCP" framing
    AddrChk,       \* MB_USING_ADDR_CHK is defined
    MbapChk,       \* MB_USING_MBAP_CHK is defined
    Saddr,         \* hinst->saddr of every instance
    Reopens,       \* the loop goes on after the backend was closed
    Callbacks,     \* entries of mb_cb_table_t that are not NULL
    Illegal,       \* values the application's write_hold refuses (-3)
    Faulty,        \* a write callback may report a device failure (-4)
    DlenMod,       \* 2^8 in the code: the values of the u8 rd_rsp.dlen
    AnyFc,         \* what the fc of a pdu no parser assigned may hold
    Requests,      \* frames that clients send
    Window,        \* bound: requests a client has under way at once
    MaxReqs,       \* bound: requests on a connection
    AppVals        \* values the application gives its inputs on its own

ASSUME SlaveAssumption ==
    /\ Prot \in {"RTU", "TCP"} /\ AddrChk \in BOOLEAN /\ MbapChk \in BOOLEAN
    /\ Reopens \in BOOLEAN /\ Faulty \in BOOLEAN /\ Illegal \subseteq Vals /\ AppVals \subseteq Vals
    /\ Requests \subseteq RequestType /\ \A r \in Requests : WellFormed(r)
    /\ Saddr \in Nat /\ DlenMod \in Nat \ {0} /\ AnyFc # {}
    /\ Window \in Nat /\ MaxReqs \in Nat

VARIABLES
    pc,       \* [Conns -> "closed", "recv", "work", "reply"]
    up,       \* the client holds the connection open
    sent,     \* number of requests sent on a connection
    inbox,    \* frames the thread has not read: [id, r]
    job,      \* the request in hinst->buf that is being dealt with
    done,     \* callbacks made for it
    datas,    \* hinst->datas: what the read callbacks returned
    rsp,      \* the reply made last
    acked,    \* the reply sent last
    mem,      \* the application's registers
    before    \* ghost: mem when the request was taken

conn == <<up, sent>>
work == <<job, done, datas>>
vars == <<pc, conn, inbox, work, rsp, acked, mem, before>>

NoJob   == [id |-> 0]
NoReply == [id |-> 0, fc |-> "none", kind |-> "none", ec |-> 0, data |-> <<>>]

Init ==
    /\ pc = [c \in Conns |-> "closed"]
    /\ up = [c \in Conns |-> FALSE] /\ sent = [c \in Conns |-> 0]
    /\ inbox = [c \in Conns |-> <<>>]
    /\ job = [c \in Conns |-> NoJob] /\ done = [c \in Conns |-> 0]
    /\ datas = [c \in Conns |-> <<>>]
    /\ rsp = [c \in Conns |-> NoReply] /\ acked = [c \in Conns |-> NoReply]
    /\ mem = [s \in Spaces |-> [a \in Bank[s] |-> {}]]
    /\ before = [c \in Conns |-> mem]

-----------------------------------------------------------------------------
(* Clients and connections.                                                *)

\* A client connects and the listener starts a thread for it, or mb_connect
\* reopens the device.
Open(c) ==
    /\ pc[c] = "closed"
    /\ pc' = [pc EXCEPT ![c] = "recv"] /\ up' = [up EXCEPT ![c] = TRUE]
    /\ inbox' = [inbox EXCEPT ![c] = <<>>]
    /\ UNCHANGED <<sent, work, rsp, acked, mem, before>>

\* A client has at most Window requests unanswered.
Send(c, r) ==
    /\ up[c] /\ sent[c] < MaxReqs
    /\ Len(inbox[c]) + (IF pc[c] = "recv" THEN 0 ELSE 1) < Window
    /\ sent' = [sent EXCEPT ![c] = @ + 1]
    /\ inbox' = [inbox EXCEPT ![c] = Append(@, [id |-> sent[c] + 1, r |-> r])]
    /\ UNCHANGED <<pc, up, work, rsp, acked, mem, before>>

Leave(c) ==
    /\ up[c] /\ up' = [up EXCEPT ![c] = FALSE]
    /\ UNCHANGED <<pc, sent, inbox, work, rsp, acked, mem, before>>

\* The application changes an input.
Plant(s, a, v) ==
    /\ s \in {"disc", "input"} /\ mem[s][a] # v
    /\ mem' = [mem EXCEPT ![s][a] = v]
    /\ UNCHANGED <<pc, conn, inbox, work, rsp, acked, before>>

-----------------------------------------------------------------------------
(* What a request asks of the application.                                 *)

Needs(fc) ==
    CASE fc = "read_coils"  -> {"read_coil"}
      [] fc = "read_discs"  -> {"read_disc"}
      [] fc = "read_inputs" -> {"read_input"}
      [] fc = "read_holds"  -> {"read_hold"}
      [] fc \in {"write_coil", "write_coils"} -> {"write_coil"}
      [] fc \in {"write_reg", "write_regs"}   -> {"write_hold"}
      [] OTHER              -> {"read_hold", "write_hold"}

Calls(kind, addr, n) == [i \in 1 .. n |-> [kind |-> kind, addr |-> At(addr, i - 1), i |-> i]]

\* MUTANT of Plan: write_and_read reads before it writes.
PlanReadFirst(r) ==
    IF r.fc = "mask_write" THEN Calls("read", r.wa, 1) \o Calls("mask", r.wa, 1)
    ELSE Calls("read", r.ra, r.rn) \o Calls("write", r.wa, r.wn)

\* The callbacks of a request, in the order of the code.
Plan(r) ==
    IF r.fc = "mask_write" THEN Calls("read", r.wa, 1) \o Calls("mask", r.wa, 1)
    ELSE Calls("write", r.wa, r.wn) \o Calls("read", r.ra, r.rn)

IsRead(r)  == r.fc \in ReadFcs \cup {"write_and_read"}
\* MUTANT of ItemBytes: the last, incomplete byte of bits is forgotten.
ItemBytesFloor(r) == IF Space(r.fc) \in {"coil", "disc"} THEN r.rn \div 8 ELSE 2 * r.rn

ItemBytes(r) == IF Space(r.fc) \in {"coil", "disc"} THEN (r.rn + 7) \div 8 ELSE 2 * r.rn

\* rd_rsp.dlen is a u8: the reply carries what its value counts.
Carried(r, d) ==
    LET dlen == ItemBytes(r) % DlenMod
        n == IF Space(r.fc) \in {"coil", "disc"} THEN 8 * dlen ELSE dlen \div 2
    IN IF IsRead(r) THEN SubSeq(d, 1, IF n < Len(d) THEN n ELSE Len(d)) ELSE <<>>

Ok(f, d) == [id |-> f.id, fc |-> f.r.fc, kind |-> "ok", ec |-> 0, data |-> Carried(f.r, d)]
Exc(id, fc, ec) == [id |-> id, fc |-> fc, kind |-> "exc", ec |-> ec, data |-> <<>>]

-----------------------------------------------------------------------------
(* mb_slave_fsm.                                                           *)

\* MUTANTS of ParseResult: the CRC is not looked at; of ForMe: nor the address.
ParseResultAnyCrc(r) == IF r.fc = "unknown" THEN -1 ELSE 1
ForMeAlways(r) == TRUE

\* What mb_rtu_frm_parse and mb_tcp_frm_parse return for a frame: -1 for a
\* function they do not know, before a CRC was looked at.
ParseResult(r) == IF r.fc = "unknown" THEN -1
                  ELSE IF Prot = "RTU" /\ ~r.intact THEN 0 ELSE 1

\* The checks of the address (did 0xFF, 255, is everybody's in a TCP frame)
\* and of the protocol identifier.
ForMe(r) ==
    /\ AddrChk => r.sa = Saddr \/ (Prot = "TCP" /\ r.sa = 255)
    /\ MbapChk /\ Prot = "TCP" => r.intact

Turn(c, label) == pc' = [pc EXCEPT ![c] = label]
Respond(c, reply) == rsp' = [rsp EXCEPT ![c] = reply] /\ Turn(c, "reply")

\* The frame in the buffer is dealt with up to its first callback.
Deal(c, f) ==
    IF ParseResult(f.r) = 0 \/ ~ForMe(f.r) THEN UNCHANGED <<pc, rsp>>
    ELSE IF ParseResult(f.r) < 0
         THEN \E fc \in AnyFc : Respond(c, Exc(f.id, fc, 1))
    ELSE IF ~(Needs(f.r.fc) \subseteq Callbacks)
         THEN Respond(c, Exc(f.id, f.r.fc, 4))
    ELSE IF f.r.fc = "write_coil" /\ f.r.wv[1] \notin {{}, Bits}
         THEN Respond(c, Exc(f.id, f.r.fc, 3))
    ELSE IF Plan(f.r) = <<>> THEN Respond(c, Ok(f, <<>>))
    ELSE Turn(c, "work") /\ UNCHANGED rsp

\* MUTANT of Recv: the frame stays in the buffer and is dealt with again.
RecvAgain(c, k) ==
    /\ pc[c] = "recv" /\ k \in 1 .. Len(inbox[c])
    /\ job' = [job EXCEPT ![c] = inbox[c][1]]
    /\ done' = [done EXCEPT ![c] = 0] /\ datas' = [datas EXCEPT ![c] = <<>>]
    /\ before' = [before EXCEPT ![c] = mem]
    /\ Deal(c, inbox[c][1])
    /\ UNCHANGED <<conn, inbox, acked, mem>>

\* mb_recv returns k frames that came without a silence between them: the
\* first is dealt with, the others are forgotten.
Recv(c, k) ==
    /\ pc[c] = "recv" /\ k \in 1 .. Len(inbox[c])
    /\ inbox' = [inbox EXCEPT ![c] = SubSeq(@, k + 1, Len(@))]
    /\ job' = [job EXCEPT ![c] = inbox[c][1]]
    /\ done' = [done EXCEPT ![c] = 0] /\ datas' = [datas EXCEPT ![c] = <<>>]
    /\ before' = [before EXCEPT ![c] = mem]
    /\ Deal(c, inbox[c][1])
    /\ UNCHANGED <<conn, acked, mem>>

\* The client has closed, or the device fails: -1, even if bytes were read
\* just before, and mb_recv closes the backend.
RecvErr(c) ==
    /\ pc[c] = "recv" /\ (Reopens \/ ~up[c])
    /\ Turn(c, "closed")
    /\ up' = [up EXCEPT ![c] = FALSE] /\ inbox' = [inbox EXCEPT ![c] = <<>>]
    /\ UNCHANGED <<sent, work, rsp, acked, mem, before>>

Step(c) == Plan(job[c].r)[done[c] + 1]
TableOf(c) == Space(job[c].r.fc)

\* A callback returned 0; after the last one the reply is made.
Advance(c, d) ==
    /\ done' = [done EXCEPT ![c] = @ + 1]
    /\ datas' = [datas EXCEPT ![c] = d]
    /\ IF done[c] + 1 < Len(Plan(job[c].r)) THEN UNCHANGED <<pc, rsp>>
       ELSE Respond(c, Ok(job[c], d))

\* MUTANTS of Abort: the loop is left without a reply; the reply is made but
\* the loop goes on.
AbortSilently(c, ec) == Turn(c, "recv") /\ UNCHANGED <<rsp, done, datas>>
AbortAndGoOn(c, ec) ==
    /\ rsp' = [rsp EXCEPT ![c] = Exc(job[c].id, job[c].r.fc, ec)]
    /\ done' = [done EXCEPT ![c] = @ + 1]
    /\ UNCHANGED <<pc, datas>>

\* A callback returned -ec: nothing is undone.
Abort(c, ec) ==
    /\ Respond(c, Exc(job[c].id, job[c].r.fc, ec))
    /\ UNCHANGED <<done, datas>>

ReadCb(c) ==
    /\ pc[c] = "work" /\ Step(c).kind = "read"
    /\ IF Step(c).addr \in Bank[TableOf(c)]
       THEN Advance(c, Append(datas[c], mem[TableOf(c)][Step(c).addr]))
       ELSE Abort(c, 2)
    /\ UNCHANGED <<conn, inbox, job, acked, mem, before>>

\* The value of a write: past the data of the frame, whatever follows in buf.
ValuesToWrite(c) ==
    LET r == job[c].r IN
    IF Step(c).kind = "mask" THEN {Masked(datas[c][1], r)}
    ELSE IF Step(c).i <= Len(r.wv) THEN {r.wv[Step(c).i]}
    ELSE IF TableOf(c) = "coil" THEN {{}, Bits} ELSE Vals

WriteCb(c) ==
    /\ pc[c] = "work" /\ Step(c).kind \in {"write", "mask"}
    /\ \E v \in ValuesToWrite(c) :
         IF Step(c).addr \notin Bank[TableOf(c)] THEN Abort(c, 2) /\ UNCHANGED mem
         ELSE \/ /\ TableOf(c) = "coil" \/ v \notin Illegal
                 /\ mem' = [mem EXCEPT ![TableOf(c)][Step(c).addr] = v]
                 /\ Advance(c, datas[c])
              \/ /\ TableOf(c) = "hold" /\ v \in Illegal
                 /\ Abort(c, 3) /\ UNCHANGED mem
              \/ Faulty /\ Abort(c, 4) /\ UNCHANGED mem
    /\ UNCHANGED <<conn, inbox, job, acked, before>>

ReplyOk(c) ==
    /\ pc[c] = "reply"
    /\ acked' = [acked EXCEPT ![c] = rsp[c]] /\ Turn(c, "recv")
    /\ UNCHANGED <<conn, inbox, work, rsp, mem, before>>

\* mb_send fails and closes the backend; what the client sent is lost.
ReplyErr(c) ==
    /\ pc[c] = "reply" /\ (Reopens \/ ~up[c])
    /\ Turn(c, "closed")
    /\ up' = [up EXCEPT ![c] = FALSE] /\ inbox' = [inbox EXCEPT ![c] = <<>>]
    /\ UNCHANGED <<sent, work, rsp, acked, mem, before>>

Thread(c) == \/ \E k \in 1 .. Len(inbox[c]) : Recv(c, k)
             \/ RecvErr(c) \/ ReadCb(c) \/ WriteCb(c) \/ ReplyOk(c) \/ ReplyErr(c)

Client(c) == Open(c) \/ Leave(c) \/ \E r \in Requests : Send(c, r)

Next ==
    \/ \E c \in Conns : Thread(c) \/ Client(c)
    \/ \E s \in Spaces, v \in AppVals : \E a \in Bank[s] : Plant(s, a, v)

\* Every thread is scheduled, and no callback blocks.
Spec == Init /\ [][Next]_vars /\ \A c \in Conns : WF_vars(Thread(c))

-----------------------------------------------------------------------------
(* Properties.                                                             *)

IsMemory(m) ==
    DOMAIN m = Spaces /\ \A s \in Spaces : m[s] \in [Bank[s] -> Vals]

Pending == [id : 1 .. MaxReqs, r : Requests]
Replies == [id : 0 .. MaxReqs, fc : Fcs \cup AnyFc \cup {"none"},
            kind : {"none", "ok", "exc"}, ec : 0 .. 4, data : Seq(Vals)]

TypeOK ==
    /\ pc \in [Conns -> {"closed", "recv", "work", "reply"}]
    /\ up \in [Conns -> BOOLEAN] /\ sent \in [Conns -> 0 .. MaxReqs]
    /\ inbox \in [Conns -> Seq(Pending)]
    /\ job \in [Conns -> Pending \cup {NoJob}]
    /\ done \in [Conns -> Nat] /\ datas \in [Conns -> Seq(Vals)]
    /\ rsp \in [Conns -> Replies] /\ acked \in [Conns -> Replies]
    /\ IsMemory(mem) /\ \A c \in Conns : IsMemory(before[c])
    /\ \A c \in Conns : pc[c] = "work" =>
         job[c] \in Pending /\ done[c] < Len(Plan(job[c].r))

\* For a client that is alone, a request takes effect in one step although the
\* callbacks are made one by one: all of it, or a prefix and an exception.
Sole == CHOOSE c \in Conns : TRUE
Server == INSTANCE RegisterServer WITH
    mem    <- IF pc[Sole] = "work" THEN before[Sole] ELSE mem,
    answer <- [id |-> rsp[Sole].id, kind |-> rsp[Sole].kind, data |-> rsp[Sole].data]
ServerSpec == Server!Spec

\* Whoever waits for each reply before the next request gets one, unless the
\* connection is lost or the request carries another protocol's identifier.
Waiting(c) ==
    /\ up[c]
    /\ \/ inbox[c] # <<>> /\ \A i \in DOMAIN inbox[c] : inbox[c][i].r.intact
       \/ pc[c] \in {"work", "reply"}
EveryRequestAnswered ==
    \A c \in Conns, n \in 1 .. MaxReqs :
        Waiting(c) /\ sent[c] = n ~> acked[c].id = n \/ ~up[c]

\* The registers a master can write change only at addresses that an intact
\* request to this slave, with a function that writes, names (with
\* MB_USING_ADDR_CHK; modbus_slave.c: other addresses are not dealt with).
OnlyOwnFramesAct ==
    [][\A s \in {"coil", "hold"} : \A a \in Bank[s] : mem'[s][a] # mem[s][a] =>
         \E c \in Conns :
            /\ pc[c] = "work"
            /\ LET r == job[c].r IN
               /\ r.intact /\ r.sa \in {Saddr, 255} /\ r.fc \notin ReadFcs
               /\ s = Space(r.fc) /\ \E i \in 1 .. r.wn : a = At(r.wa, i - 1)]_vars

\* Replies leave in the order of the requests, each for a request that was
\* sent, at most one for each, also if frames ran together and were dropped.
RepliesInTurn ==
    [][\A c \in Conns : pc[c] = "reply" /\ pc'[c] = "recv" =>
         acked'[c].id > acked[c].id /\ acked'[c].id <= sent[c]]_vars

\* A read that succeeds is answered with as many values as it asked for.
RepliesAreComplete ==
    \A c \in Conns : pc[c] = "reply" /\ rsp[c].kind = "ok" /\ IsRead(job[c].r)
                       => Len(rsp[c].data) = job[c].r.rn

\* A mask write leaves the bits that its and-mask selects as they are, other
\* connections notwithstanding (modbus.h: mask-write of a register).
MaskTouchesItsBitsOnly ==
    [][\A c \in Conns : pc[c] = "work" /\ Step(c).kind = "mask" /\ done'[c] > done[c] =>
         LET a == Step(c).addr  m == job[c].r.mand
         IN mem'["hold"][a] \cap m = mem["hold"][a] \cap m]_vars

\* modbus_slave.c: a damaged frame is not dealt with.
DamagedFramesIgnored ==
    \A c \in Conns : pc[c] \in {"work", "reply"} => job[c].r.intact

=============================================================================
