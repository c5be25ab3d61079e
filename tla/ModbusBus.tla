------------------------------- MODULE ModbusBus -------------------------------
(***************************************************************************)
(* A serial line of two wires: one master that calls its slaves in turn,   *)
(* as mb_sample_rtu_master.c does, and slaves that run mb_slave_fsm in a   *)
(* loop, as mb_sample_rtu_slave.c does.  Everybody hears every frame, the  *)
(* replies of the others included, and nothing but the timeouts of         *)
(* mb_backend_read tells where a frame ends and whose turn it is.          *)
(*                                                                         *)
(* Time is discrete.  A frame is one item that takes up to FrameTime; the  *)
(* loop of mb_backend_read, in full in ModbusBackend, is reduced to its    *)
(* two timers, which are noticed up to Late after they expired.  A slave   *)
(* carries out every request it understands; noise spoils frames, it makes *)
(* none where nobody talks.                                                *)
(***************************************************************************)
EXTENDS Integers, Sequences, FiniteSets

CONSTANTS
    Slaves,           \* slaves, by their addresses
    AckTmo, ByteTmo,  \* backend->ack_tmo_ms, backend->byte_tmo_ms
    AddrChk,          \* MB_USING_ADDR_CHK is defined
    Queues,           \* stations whose write returns when the frame is queued
                      \*   (Linux), not when it is out (RT-Thread)
    FrameTime,        \* ENVIRONMENT: longest frame
    Late,             \* ENVIRONMENT: a polling round and a preemption
    Turn,             \* ENVIRONMENT: longest time a slave works on a request
    Forges,           \* ENVIRONMENT: noise can make of a frame for another one
                      \*   with the address of the slave that hears it and an
                      \*   unsupported function code
    Delay,            \* shortest pause of the master's owner between two calls
    MaxCalls,         \* bound: calls
    MaxHits           \* bound: calls with a disturbed frame

Master   == 0
Stations == Slaves \cup {Master}

ASSUME BusAssumption ==
    /\ Slaves \subseteq Nat \ {0} /\ Queues \subseteq Stations /\ {AddrChk, Forges} \subseteq BOOLEAN
    /\ AckTmo \in Nat /\ ByteTmo \in Nat /\ Late \in Nat /\ Turn \in Nat /\ Delay \in Nat
    /\ FrameTime \in Nat \ {0} /\ MaxCalls \in Nat /\ MaxHits \in Nat

\* What makes the line work: a reply that is as late as it can be still begins
\* before the master gives up, whose clock runs from the moment the request is
\* queued; and every slave has seen the end of a reply before the next request.
ASSUME TimingAssumption ==
    /\ AckTmo >= FrameTime + ByteTmo + Late + Turn + 1
    /\ Delay > Late

\* op "write" stands for the requests whose reply parses as a request again:
\* it repeats them byte for byte, or has the length of a read (3 data bytes);
\* "other" for a function code mb_pdu_req_parse does not know, that of an
\* exception or one that noise made.  good: the CRC is right.
FrameType == [n : 1 .. MaxCalls, sa : Stations, op : {"read", "write", "other"},
              rsp : BOOLEAN, good : BOOLEAN]

VARIABLES
    pc,        \* a station is idle (master), working (slave), sending, receiving
    since,     \* time at pc; when receiving, since bytes came last
    heard,     \* frames a station has not read, and those of its mb_recv
    tx,        \* EXTERNAL: time until a station's frame is out, 0: none
    job,       \* the frame a slave works on
    calls, to, \* number of the latest call, and its slave
    acted,     \* ghost: what slaves carried out: [call, by], in order
    hurt,      \* ghost: calls with a disturbed frame
    okays      \* ghost: calls that succeeded

owner == <<calls, to, okays>>
vars  == <<pc, since, heard, tx, job, owner, acted, hurt>>

NoJob == [n |-> 0]

Init ==
    /\ pc = [s \in Stations |-> IF s = Master THEN "idle" ELSE "recv"]
    /\ since = [s \in Stations |-> 0] /\ heard = [s \in Stations |-> <<>>]
    /\ tx = [s \in Stations |-> 0] /\ job = [s \in Slaves |-> NoJob]
    /\ calls = 0 /\ to \in Slaves
    /\ acted = <<>> /\ hurt = {} /\ okays = {}

Goto(s, label) == pc' = [pc EXCEPT ![s] = label]
OnLine(s)  == \E t \in Stations \ {s} : tx[t] > 0

-----------------------------------------------------------------------------
(* The line.                                                               *)

\* What may be heard of a frame: itself, one whose CRC is wrong, or one whose
\* function code noise made unsupported, with any address.
Noisy(f) ==
    {f, [f EXCEPT !.good = FALSE]}
    \cup [n : {f.n}, sa : Stations, op : {"other"}, rsp : {f.rsp}, good : {FALSE}]

\* g passes for a frame for t, which answers it although f is for another.
Forged(f, g, t) == g.op = "other" /\ g.sa = t /\ f.sa # t

\* A frame goes to everybody else, and noise may spoil it for any of them.  Two
\* frames at a time would spoil each other: OneTalker excludes them.
Transmit(s, f) ==
    /\ \E k \in 1 .. FrameTime : tx' = [tx EXCEPT ![s] = k]
    /\ \E got \in [Stations \ {s} -> Noisy(f)] :
         /\ \A t \in Stations \ {s} : Forges \/ ~Forged(f, got[t], t)
         /\ hurt' = IF \E t \in Stations \ {s} : ~got[t].good THEN hurt \cup {f.n} ELSE hurt
         /\ Cardinality(hurt') <= MaxHits
         /\ heard' = [t \in Stations |-> IF t = s THEN heard[t] ELSE Append(heard[t], got[t])]
    /\ since' = [since EXCEPT ![s] = 0]
    /\ Goto(s, IF s \in Queues THEN "recv" ELSE "send")

\* write returns where it waits for the last byte.
Sent(s) ==
    /\ pc[s] = "send" /\ tx[s] = 0
    /\ Goto(s, "recv") /\ since' = [since EXCEPT ![s] = 0]
    /\ UNCHANGED <<heard, tx, job, owner, acted, hurt>>

\* MUTANT of TimedOut: without a byte there is no timeout.
TimedOutOnBytes(s) ==
    pc[s] = "recv" /\ ~OnLine(s) /\ heard[s] # <<>> /\ since[s] > ByteTmo

\* mb_backend_read ends.
TimedOut(s) ==
    /\ pc[s] = "recv" /\ ~OnLine(s)
    /\ since[s] > (IF heard[s] # <<>> THEN ByteTmo ELSE AckTmo)

-----------------------------------------------------------------------------
(* The master.                                                             *)

Call ==
    /\ pc[Master] = "idle" /\ since[Master] >= Delay /\ calls < MaxCalls
    /\ calls' = calls + 1
    /\ \E s \in Slaves, op \in {"read", "write"} :
         /\ to' = s
         /\ Transmit(Master, [n |-> calls + 1, sa |-> s, op |-> op, rsp |-> FALSE, good |-> TRUE])
    /\ UNCHANGED <<job, okays, acted>>

\* The first frame of those collected is the reply, or there is none; an
\* exception is no success.
Return ==
    /\ TimedOut(Master)
    /\ LET ok == /\ heard[Master] # <<>> /\ Head(heard[Master]).good
                 /\ Head(heard[Master]).op # "other"
                 /\ AddrChk => Head(heard[Master]).sa = to
       IN okays' = IF ok THEN okays \cup {calls} ELSE okays
    /\ heard' = [heard EXCEPT ![Master] = <<>>]
    /\ Goto(Master, "idle") /\ since' = [since EXCEPT ![Master] = 0]
    /\ UNCHANGED <<tx, job, calls, to, acted, hurt>>

-----------------------------------------------------------------------------
(* The slaves.                                                             *)

\* mb_rtu_frm_parse returns -1 before it looks at the CRC.
IsUnknown(f) == f.op = "other"

\* A reply may be taken for a request; in the others the CRC is not where the
\* length of a request puts it.
IsRequest(f) == ~IsUnknown(f) /\ f.good /\ (f.rsp => f.op = "write")

\* MUTANT of ForMe: the address is not looked at.
ForMeAlways(s, f) == TRUE

ForMe(s, f) == AddrChk => f.sa = s

\* MUTANT of Take: the request stays in the buffer after it was carried out.
TakeAgain(s) ==
    /\ s \in Slaves /\ TimedOut(s)
    /\ LET f == Head(heard[s]) IN
       IF heard[s] # <<>> /\ (IsUnknown(f) \/ IsRequest(f)) /\ ForMe(s, f)
       THEN /\ job' = [job EXCEPT ![s] = f] /\ Goto(s, "work") /\ UNCHANGED heard
            /\ acted' = IF IsUnknown(f) THEN acted ELSE Append(acted, [call |-> f.n, by |-> s])
       ELSE UNCHANGED <<job, acted, pc>> /\ heard' = [heard EXCEPT ![s] = <<>>]
    /\ since' = [since EXCEPT ![s] = 0]
    /\ UNCHANGED <<tx, owner, hurt>>

\* mb_slave_fsm: the first frame of those collected is dealt with.  A function
\* code that is not supported is answered with an exception, whatever the CRC;
\* a request is carried out; any other frame is dropped.
Take(s) ==
    /\ s \in Slaves /\ TimedOut(s)
    /\ LET f == Head(heard[s]) IN
       IF heard[s] # <<>> /\ (IsUnknown(f) \/ IsRequest(f)) /\ ForMe(s, f)
       THEN /\ job' = [job EXCEPT ![s] = f] /\ Goto(s, "work")
            /\ acted' = IF IsUnknown(f) THEN acted ELSE Append(acted, [call |-> f.n, by |-> s])
       ELSE UNCHANGED <<job, acted, pc>>
    /\ heard' = [heard EXCEPT ![s] = <<>>] /\ since' = [since EXCEPT ![s] = 0]
    /\ UNCHANGED <<tx, owner, hurt>>

\* The reply carries the address received, and a CRC of its own.
Answer(s) ==
    /\ s \in Slaves /\ pc[s] = "work"
    /\ Transmit(s, [job[s] EXCEPT !.rsp = TRUE, !.good = TRUE])
    /\ job' = [job EXCEPT ![s] = NoJob]
    /\ UNCHANGED <<owner, acted>>

-----------------------------------------------------------------------------
(* Time.                                                                   *)

\* How long a station may stay at pc.
Patience(s) ==
    CASE pc[s] = "idle" -> Delay + 1
      [] pc[s] = "work" -> Turn
      [] pc[s] = "send" -> FrameTime
      [] pc[s] = "recv" -> Late + 1 + (IF heard[s] # <<>> THEN ByteTmo ELSE AckTmo)

\* The owner of the master may stop calling.
Elapse(s) ==
    IF pc[s] = "recv" /\ OnLine(s) THEN 0
    ELSE IF since[s] < Patience(s) THEN since[s] + 1 ELSE since[s]

Tick ==
    /\ \A s \in Stations : /\ since[s] < Patience(s) \/ pc[s] = "idle" \/ OnLine(s)
                           /\ pc[s] = "send" => tx[s] > 0
    /\ tx' = [s \in Stations |-> IF tx[s] > 0 THEN tx[s] - 1 ELSE 0]
    /\ since' = [s \in Stations |-> Elapse(s)]
    /\ UNCHANGED <<pc, heard, job, owner, acted, hurt>>

Next ==
    \/ Call \/ Return
    \/ \E s \in Stations : Sent(s) \/ Take(s) \/ Answer(s)
    \/ Tick

\* Time passes, and nobody stays at a step for longer than Patience says.
Spec == Init /\ [][Next]_vars /\ WF_vars(Tick) /\ WF_vars(Return)
             /\ \A s \in Stations : WF_vars(Sent(s)) /\ WF_vars(Take(s)) /\ WF_vars(Answer(s))

-----------------------------------------------------------------------------
(* Properties.                                                             *)

TypeOK ==
    /\ pc \in [Stations -> {"idle", "work", "send", "recv"}]
    /\ since \in [Stations -> Nat] /\ tx \in [Stations -> 0 .. FrameTime]
    /\ heard \in [Stations -> Seq(FrameType)] /\ job \in [Slaves -> FrameType \cup {NoJob}]
    /\ calls \in 0 .. MaxCalls /\ to \in Slaves
    /\ acted \in Seq([call : 1 .. MaxCalls, by : Slaves])
    /\ hurt \subseteq 1 .. MaxCalls /\ okays \subseteq 0 .. MaxCalls
    /\ \A s \in Slaves : pc[s] = "work" => job[s] # NoJob

\* The drivers of two stations are never on at the same time, although no
\* station listens before it talks, and a slave answers its request although
\* noise made the function code unsupported.  With Forges a slave answers what
\* is not for it, together with the one that was called: the run and the
\* theorem exclude that.
OneTalker == \A s, t \in Stations : tx[s] > 0 /\ tx[t] > 0 => s = t

\* The calls of the master are calls of AddressedCall: also a reply that looks
\* like a request moves no other slave, nothing is carried out twice or after
\* its call ended, and, without Forges, a disturbed frame costs no call but its
\* own.
Line == INSTANCE AddressedCall WITH n <- calls, busy <- pc[Master] # "idle"
AddressedCallSpec == Line!Spec

\* Every call returns, and its slave is ready for the next one.
CallsEnd == pc[Master] # "idle" ~> pc[Master] = "idle" /\ \A s \in Slaves : pc[s] = "recv"

===============================================================================
