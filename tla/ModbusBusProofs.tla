---------------------------- MODULE ModbusBusProofs ----------------------------
(***************************************************************************)
(* One talker at a time, for any slaves, frames and timeouts that satisfy  *)
(* TimingAssumption, with MB_USING_ADDR_CHK and with noise that spoils any *)
(* frame for any stations but forges none (~Forges).  The invariant says   *)
(* whose turn it is: the line rests, the master asks, one slave is about   *)
(* to answer, answers, or has answered; and how far the clock of the       *)
(* master can be ahead of that of the slave it waits for.  The second half *)
(* shows that the composition implements AddressedCall.                    *)
(***************************************************************************)
EXTENDS ModbusBus, TLAPS

\* What a slave would answer: a request for it, or a function code that is not
\* supported.
Mine(s)   == /\ heard[s] # <<>> /\ Head(heard[s]).sa = s
             /\ Head(heard[s]).good \/ IsUnknown(Head(heard[s]))
Asleep(s) == pc[s] = "recv" /\ ~Mine(s)
Others    == \A s \in Slaves \ {to} : tx[s] = 0 /\ Asleep(s)

Rest ==
    /\ pc[Master] = "idle" /\ heard[Master] = <<>> /\ tx[Master] = 0
    /\ Others /\ tx[to] = 0 /\ Asleep(to)

Asking ==
    /\ pc[Master] \in {"recv", "send"} /\ heard[Master] = <<>>
    /\ tx[Master] > 0 /\ since[Master] + tx[Master] <= FrameTime
    /\ Others /\ tx[to] = 0 /\ pc[to] = "recv"

\* The slave has not noticed the end of the request, or works on it.
Noticing ==
    /\ pc[to] = "recv" /\ Mine(to) /\ since[to] <= ByteTmo + Late + 1
    /\ since[Master] <= FrameTime + since[to]
Working ==
    /\ pc[to] = "work" /\ heard[to] = <<>> /\ job[to].sa = to /\ since[to] <= Turn
    /\ since[Master] <= FrameTime + ByteTmo + Late + 1 + since[to]

Waiting ==
    /\ pc[Master] \in {"recv", "send"} /\ heard[Master] = <<>> /\ tx[Master] = 0
    /\ Others /\ tx[to] = 0
    /\ Asleep(to) \/ Noticing \/ Working

Answering ==
    /\ pc[Master] \in {"recv", "send"} /\ heard[Master] # <<>> /\ tx[Master] = 0
    /\ Others /\ tx[to] > 0 /\ pc[to] \in {"recv", "send"} /\ heard[to] = <<>>

Answered ==
    /\ pc[Master] \in {"recv", "send"} /\ heard[Master] # <<>> /\ tx[Master] = 0
    /\ Others /\ tx[to] = 0 /\ heard[to] = <<>>
    /\ pc[to] = "recv" \/ (pc[to] = "send" /\ since[Master] = 0)

Turns == Rest \/ Asking \/ Waiting \/ Answering \/ Answered
BInv  == TypeOK /\ Turns

-----------------------------------------------------------------------------
(* The stations, the line and the types.                                   *)

\* One tick of a clock.
LEMMA OneMore ==
    \A n, k \in Nat : n + 1 \in Nat /\ 0 <= n + 1 /\ n <= n + 1 /\ (n < k => n + 1 <= k)
OBVIOUS

LEMMA Places ==
    /\ Master \in Stations /\ Slaves \subseteq Stations /\ Master \notin Slaves
    /\ \A s \in Stations : s = Master \/ s \in Slaves
<1>1. 0 \notin Nat \ {0}
  OBVIOUS
<1>2. QED
  BY <1>1, BusAssumption DEF Master, Stations

LEMMA Bounds ==
    /\ AckTmo \in Nat /\ ByteTmo \in Nat /\ Late \in Nat /\ Turn \in Nat
    /\ FrameTime \in Nat /\ MaxCalls \in Nat /\ Delay \in Nat
    /\ FrameTime + ByteTmo + Late + 1 + Turn <= AckTmo
BY BusAssumption, TimingAssumption

LEMMA Types ==
    ASSUME TypeOK, NEW s \in Stations
    PROVE  /\ since[s] \in Nat /\ tx[s] \in Nat /\ tx[s] <= FrameTime
           /\ heard[s] \in Seq(FrameType) /\ pc[s] \in {"idle", "work", "send", "recv"}
BY Bounds DEF TypeOK

\* What noise makes of a frame.
LEMMA Spoilt ==
    ASSUME NEW f \in FrameType, f.good, NEW g \in Noisy(f)
    PROVE  /\ g \in FrameType /\ g.n = f.n /\ g.rsp = f.rsp
           /\ g.good => g = f
           /\ g.op = f.op \/ g.op = "other"
           /\ g.sa = f.sa \/ g.op = "other"
<1>1. CASE g \in {f, [f EXCEPT !.good = FALSE]}
  BY <1>1 DEF FrameType
<1>2. CASE g \in [n : {f.n}, sa : Stations, op : {"other"}, rsp : {f.rsp}, good : {FALSE}]
  BY <1>2 DEF FrameType
<1>3. QED
  BY <1>1, <1>2 DEF Noisy

\* A frame is heard by everybody else; it changes what a slave would carry out
\* next only if the slave had heard nothing, and the frame is for it.
LEMMA Transmits ==
    ASSUME TypeOK, ~Forges, NEW s \in Stations, NEW f \in FrameType, f.good, Transmit(s, f)
    PROVE  /\ tx' \in [Stations -> 0 .. FrameTime] /\ tx'[s] > 0 /\ tx'[s] <= FrameTime
           /\ \A t \in Stations \ {s} : tx'[t] = tx[t]
           /\ since' \in [Stations -> Nat] /\ since'[s] = 0
           /\ heard' \in [Stations -> Seq(FrameType)] /\ heard'[s] = heard[s]
           /\ \A t \in Stations \ {s} :
                heard'[t] # <<>> /\ (f.sa # t => (Mine(t)' => Mine(t)))
           /\ pc' \in [Stations -> {"idle", "work", "send", "recv"}]
           /\ pc'[s] \in {"recv", "send"} /\ \A t \in Stations \ {s} : pc'[t] = pc[t]
           /\ hurt' \subseteq 1 .. MaxCalls
<1>1. PICK k \in 1 .. FrameTime : tx' = [tx EXCEPT ![s] = k]
  BY DEF Transmit
<1>2. PICK got \in [Stations \ {s} -> Noisy(f)] :
        /\ \A t \in Stations \ {s} : ~Forged(f, got[t], t)
        /\ hurt' = IF \E t \in Stations \ {s} : ~got[t].good THEN hurt \cup {f.n} ELSE hurt
        /\ heard' = [t \in Stations |-> IF t = s THEN heard[t] ELSE Append(heard[t], got[t])]
  BY DEF Transmit
<1>3. /\ tx' \in [Stations -> 0 .. FrameTime] /\ tx'[s] > 0 /\ tx'[s] <= FrameTime
      /\ \A t \in Stations \ {s} : tx'[t] = tx[t]
  <2>1. \A n \in 1 .. FrameTime : n \in 0 .. FrameTime /\ n > 0 /\ n <= FrameTime
    BY Bounds
  <2>2. k \in 0 .. FrameTime /\ k > 0 /\ k <= FrameTime
    BY <2>1
  <2>3. tx \in [Stations -> 0 .. FrameTime]
    BY DEF TypeOK
  <2>4. QED
    BY <1>1, <2>2, <2>3
<1>4. /\ since' \in [Stations -> Nat] /\ since'[s] = 0
      /\ pc' \in [Stations -> {"idle", "work", "send", "recv"}]
      /\ pc'[s] \in {"recv", "send"} /\ \A t \in Stations \ {s} : pc'[t] = pc[t]
  BY DEF TypeOK, Transmit, Goto
<1>5. ASSUME NEW t \in Stations \ {s}
      PROVE  /\ heard'[t] \in Seq(FrameType) /\ heard'[t] # <<>>
             /\ f.sa # t => (Mine(t)' => Mine(t))
  <2> DEFINE g == got[t]
  <2>1. g \in FrameType /\ (f.sa # t /\ g.sa = t => ~g.good /\ ~IsUnknown(g))
    <3>1. g \in Noisy(f) /\ ~Forged(f, g, t)
      BY <1>2
    <3>2. QED
      BY <3>1, Spoilt DEF Forged, IsUnknown
  <2>2. heard[t] \in Seq(FrameType) /\ heard'[t] = Append(heard[t], g)
    BY <1>2 DEF TypeOK
  <2> HIDE DEF g
  <2>3. heard'[t] \in Seq(FrameType) /\ heard'[t] # <<>>
    BY <2>1, <2>2
  <2>4. heard[t] = <<>> => Head(heard'[t]) = g
    BY <2>1, <2>2
  <2>5. heard[t] # <<>> => Head(heard'[t]) = Head(heard[t])
    BY <2>1, <2>2
  <2>6. QED
    BY <2>1, <2>3, <2>4, <2>5 DEF Mine
<1>6. heard' \in [Stations -> Seq(FrameType)] /\ heard'[s] = heard[s]
  <2>1. heard'[s] = heard[s] /\ heard[s] \in Seq(FrameType)
    BY <1>2 DEF TypeOK
  <2>2. \A t \in Stations : heard'[t] \in Seq(FrameType)
    BY <1>5, <2>1
  <2>3. QED
    BY <1>2, <2>1, <2>2
<1>7. hurt' \subseteq 1 .. MaxCalls
  BY <1>2 DEF FrameType, TypeOK
<1>8. QED
  BY <1>3, <1>4, <1>5, <1>6, <1>7

LEMMA BInit == Init => BInv
<1> SUFFICES ASSUME Init PROVE BInv
  OBVIOUS
<1>1. /\ \A s \in Stations : pc[s] = IF s = Master THEN "idle" ELSE "recv"
      /\ pc \in [Stations -> {"idle", "work", "send", "recv"}]
      /\ heard = [s \in Stations |-> <<>>] /\ tx = [s \in Stations |-> 0]
      /\ since = [s \in Stations |-> 0] /\ job = [s \in Slaves |-> NoJob]
      /\ calls = 0 /\ to \in Slaves /\ acted = <<>> /\ hurt = {} /\ okays = {}
  BY DEF Init
<1>2. TypeOK
  <2>1. <<>> \in Seq(FrameType) /\ <<>> \in Seq([call : 1 .. MaxCalls, by : Slaves])
    OBVIOUS
  <2>2. 0 \in 0 .. FrameTime /\ 0 \in 0 .. MaxCalls /\ 0 \in Nat
    BY Bounds
  <2>3. \A s \in Slaves : pc[s] # "work"
    BY <1>1, Places
  <2>4. QED
    BY <1>1, <2>1, <2>2, <2>3 DEF TypeOK
<1>3. Rest
  BY <1>1, Places DEF Rest, Others, Asleep, Mine
<1>4. QED
  BY <1>2, <1>3 DEF BInv, Turns

-----------------------------------------------------------------------------
(* The steps of the stations.                                              *)

LEMMA CallStep ==
    ASSUME BInv, ~Forges, Call PROVE BInv'
<1>1. TypeOK /\ pc[Master] = "idle" /\ calls < MaxCalls /\ calls' = calls + 1
      /\ UNCHANGED <<job, okays, acted>>
  BY DEF BInv, Call
<1>2. Rest
  BY <1>1 DEF BInv, Turns, Rest, Asking, Waiting, Answering, Answered
<1>3. calls + 1 \in 1 .. MaxCalls /\ calls + 1 \in 0 .. MaxCalls
  BY <1>1, Bounds DEF TypeOK
<1>4. PICK s \in Slaves, op \in {"read", "write"} :
        /\ to' = s
        /\ Transmit(Master, [n |-> calls + 1, sa |-> s, op |-> op, rsp |-> FALSE, good |-> TRUE])
  BY DEF Call
<1> DEFINE f == [n |-> calls + 1, sa |-> s, op |-> op, rsp |-> FALSE, good |-> TRUE]
<1>5. f \in FrameType /\ f.sa = to' /\ f.good
  BY <1>3, <1>4, Places DEF FrameType
<1>6. Transmit(Master, f)
  BY <1>4
<1> HIDE DEF f
<1>7. /\ tx' \in [Stations -> 0 .. FrameTime] /\ tx'[Master] > 0 /\ tx'[Master] <= FrameTime
      /\ \A t \in Stations \ {Master} : tx'[t] = tx[t]
      /\ since' \in [Stations -> Nat] /\ since'[Master] = 0
      /\ heard' \in [Stations -> Seq(FrameType)] /\ heard'[Master] = heard[Master]
      /\ \A t \in Stations \ {Master} :
           heard'[t] # <<>> /\ (f.sa # t => (Mine(t)' => Mine(t)))
      /\ pc' \in [Stations -> {"idle", "work", "send", "recv"}]
      /\ pc'[Master] \in {"recv", "send"} /\ \A t \in Stations \ {Master} : pc'[t] = pc[t]
      /\ hurt' \subseteq 1 .. MaxCalls
  BY <1>1, <1>5, <1>6, Places, Transmits
<1>8. ASSUME NEW t \in Slaves
      PROVE  tx'[t] = 0 /\ pc'[t] = "recv" /\ (t # to' => Asleep(t)')
  <2>1. t \in Stations \ {Master}
    BY Places
  <2>2. tx[t] = 0 /\ pc[t] = "recv" /\ ~Mine(t)
    BY <1>2 DEF Rest, Others, Asleep
  <2>3. QED
    BY <1>5, <1>7, <2>1, <2>2 DEF Asleep
<1>9. TypeOK'
  BY <1>1, <1>3, <1>4, <1>7, <1>8 DEF TypeOK
<1>10. Asking'
  <2>1. \A k \in 0 .. FrameTime : 0 + k <= FrameTime
    BY Bounds
  <2>2. tx'[Master] \in 0 .. FrameTime
    BY <1>7, Places
  <2>3. since'[Master] + tx'[Master] <= FrameTime
    BY <1>7, <2>1, <2>2
  <2>4. QED
    BY <1>2, <1>4, <1>7, <1>8, <2>3 DEF Asking, Rest, Others
<1>11. QED
  BY <1>9, <1>10 DEF BInv, Turns

LEMMA ReturnStep ==
    ASSUME BInv, Return PROVE BInv'
<1>1. /\ TypeOK /\ Turns /\ pc[Master] = "recv" /\ ~OnLine(Master)
      /\ since[Master] > (IF heard[Master] # <<>> THEN ByteTmo ELSE AckTmo)
      /\ heard' = [heard EXCEPT ![Master] = <<>>] /\ Goto(Master, "idle")
      /\ since' = [since EXCEPT ![Master] = 0]
      /\ okays' \in {okays, okays \cup {calls}}
      /\ UNCHANGED <<tx, job, calls, to, acted, hurt>>
  BY DEF BInv, Return, TimedOut
<1>2. /\ pc'[Master] = "idle" /\ \A s \in Slaves : pc'[s] = pc[s]
      /\ heard'[Master] = <<>> /\ \A s \in Slaves : heard'[s] = heard[s]
      /\ pc' \in [Stations -> {"idle", "work", "send", "recv"}]
      /\ heard' \in [Stations -> Seq(FrameType)] /\ since' \in [Stations -> Nat]
  BY <1>1, Places DEF TypeOK, Goto
<1>3. TypeOK'
  BY <1>1, <1>2 DEF TypeOK
<1>4. to \in Slaves /\ to \in Stations /\ to # Master
  BY <1>1, Places DEF TypeOK
<1>5. since[Master] \in Nat /\ since[to] \in Nat /\ tx[Master] \in Nat
  BY <1>1, <1>4, Places, Types
<1>6. ~Rest
  BY <1>1 DEF Rest
<1>7. ~Asking
  <2>1. \A n, k \in Nat : k > 0 /\ n + k <= FrameTime => ~(n > AckTmo)
    BY Bounds
  <2>2. QED
    BY <1>1, <1>5, <2>1 DEF Asking
<1>8. ~Answering
  BY <1>1, <1>4 DEF Answering, OnLine
<1>9. Waiting => Asleep(to)
  <2> SUFFICES ASSUME Waiting PROVE ~Noticing /\ ~Working
    BY DEF Waiting
  <2>1. since[Master] > AckTmo
    BY <1>1 DEF Waiting
  <2>2. \A n, k \in Nat : k <= ByteTmo + Late + 1 /\ n <= FrameTime + k => ~(n > AckTmo)
    BY Bounds
  <2>3. \A n, k \in Nat : k <= Turn /\ n <= FrameTime + ByteTmo + Late + 1 + k => ~(n > AckTmo)
    BY Bounds
  <2>4. QED
    BY <1>5, <2>1, <2>2, <2>3 DEF Noticing, Working
<1>10. Answered => Asleep(to)
  <2>1. \A n \in Nat : n > ByteTmo => n # 0
    BY Bounds
  <2>2. QED
    BY <1>1, <1>5, <2>1 DEF Answered, Asleep, Mine
<1>11. Others /\ tx[Master] = 0 /\ tx[to] = 0 /\ Asleep(to)
  BY <1>1, <1>6, <1>7, <1>8, <1>9, <1>10 DEF Turns, Waiting, Answered
<1>12. Rest'
  BY <1>1, <1>2, <1>4, <1>11 DEF Rest, Others, Asleep, Mine
<1>13. QED
  BY <1>3, <1>12 DEF BInv, Turns

LEMMA SentStep ==
    ASSUME BInv, NEW s \in Stations, Sent(s) PROVE BInv'
<1>1. /\ TypeOK /\ Turns /\ pc[s] = "send" /\ tx[s] = 0 /\ Goto(s, "recv")
      /\ since' = [since EXCEPT ![s] = 0]
      /\ UNCHANGED <<heard, tx, job, calls, to, okays, acted, hurt>>
  BY DEF BInv, Sent, owner
<1>2. /\ pc'[s] = "recv" /\ \A t \in Stations \ {s} : pc'[t] = pc[t]
      /\ since'[s] = 0 /\ \A t \in Stations \ {s} : since'[t] = since[t]
      /\ pc' \in [Stations -> {"idle", "work", "send", "recv"}]
      /\ since' \in [Stations -> Nat]
  BY <1>1 DEF TypeOK, Goto
<1>3. TypeOK'
  BY <1>1, <1>2, Places DEF TypeOK
<1>4. to \in Slaves /\ to \in Stations /\ to # Master /\ Master \in Stations
      /\ since[to] \in Nat
  BY <1>1, Places, Types DEF TypeOK
<1>5. CASE s = Master
  <2>1. \A t \in Slaves : pc'[t] = pc[t] /\ since'[t] = since[t]
    BY <1>2, <1>5, Places
  <2>2. Others => Others' /\ (Asleep(to) => Asleep(to)')
    BY <1>1, <1>4, <2>1 DEF Others, Asleep, Mine
  <2>3. Waiting => Waiting'
    <3> SUFFICES ASSUME Waiting PROVE Waiting'
      OBVIOUS
    <3>1. \A k \in Nat : 0 <= FrameTime + k /\ 0 <= FrameTime + ByteTmo + Late + 1 + k
      BY Bounds
    <3>2. Noticing => Noticing'
      BY <1>1, <1>2, <1>4, <1>5, <2>1, <3>1 DEF Noticing, Mine
    <3>3. Working => Working'
      BY <1>1, <1>2, <1>4, <1>5, <2>1, <3>1 DEF Working
    <3>4. QED
      BY <1>1, <1>2, <1>5, <2>2, <3>2, <3>3 DEF Waiting
  <2>4. Answering => Answering'
    BY <1>1, <1>2, <1>4, <1>5, <2>1, <2>2 DEF Answering
  <2>5. Answered => Answered'
    BY <1>1, <1>2, <1>4, <1>5, <2>1, <2>2 DEF Answered
  <2>6. ~Rest /\ ~Asking
    <3>1. ~(0 > 0)
      OBVIOUS
    <3>2. QED
      BY <1>1, <1>5, <3>1 DEF Rest, Asking
  <2>7. QED
    BY <1>1, <1>3, <2>3, <2>4, <2>5, <2>6 DEF BInv, Turns
<1>6. CASE s \in Slaves
  <2>1. ~(0 > 0)
    OBVIOUS
  <2>2. s = to /\ Answered
    BY <1>1, <1>6, <2>1 DEF Turns, Rest, Asking, Waiting, Answering, Answered, Others,
       Asleep, Noticing, Working
  <2>3. Others' /\ pc'[Master] = pc[Master]
    BY <1>1, <1>2, <1>4, <2>2, Places DEF Answered, Others, Asleep, Mine
  <2>4. Answered'
    BY <1>1, <1>2, <1>4, <2>2, <2>3 DEF Answered
  <2>5. QED
    BY <1>3, <2>4 DEF BInv, Turns
<1>7. QED
  BY <1>5, <1>6, Places

\* What mb_slave_fsm does with what it collected.
LEMMA Taken ==
    ASSUME BInv, AddrChk, NEW s \in Slaves, Take(s)
    PROVE  /\ TypeOK' /\ pc[s] = "recv" /\ ~OnLine(s)
           /\ UNCHANGED <<tx, calls, to, okays, hurt>>
           /\ since'[s] = 0 /\ heard'[s] = <<>> /\ ~Mine(s)'
           /\ \A t \in Stations \ {s} :
                pc'[t] = pc[t] /\ since'[t] = since[t] /\ heard'[t] = heard[t]
           /\ \/ pc'[s] = "recv"
              \/ pc'[s] = "work" /\ Mine(s) /\ job'[s].sa = s
<1>1. /\ TypeOK /\ pc[s] = "recv" /\ ~OnLine(s)
      /\ UNCHANGED <<tx, calls, to, okays, hurt>>
      /\ since' = [since EXCEPT ![s] = 0] /\ heard' = [heard EXCEPT ![s] = <<>>]
  BY DEF BInv, Take, TimedOut, owner
<1>2. s \in Stations /\ <<>> \in Seq(FrameType) /\ heard[s] \in Seq(FrameType)
  BY <1>1, Places DEF TypeOK
<1>3. /\ since' \in [Stations -> Nat] /\ since'[s] = 0
      /\ heard' \in [Stations -> Seq(FrameType)] /\ heard'[s] = <<>> /\ ~Mine(s)'
      /\ \A t \in Stations \ {s} : since'[t] = since[t] /\ heard'[t] = heard[t]
  BY <1>1, <1>2 DEF TypeOK, Mine
<1> DEFINE f == Head(heard[s])
           Deals == heard[s] # <<>> /\ (IsUnknown(f) \/ IsRequest(f)) /\ ForMe(s, f)
<1>4. CASE Deals
  <2>1. /\ job' = [job EXCEPT ![s] = f] /\ Goto(s, "work")
        /\ acted' = IF IsUnknown(f) THEN acted ELSE Append(acted, [call |-> f.n, by |-> s])
    BY <1>4 DEF Take
  <2>2. f \in FrameType /\ f.sa = s
    BY <1>2, <1>4 DEF ForMe
  <2>3. Mine(s)
    BY <1>4, <2>2 DEF Mine, IsRequest
  <2> HIDE DEF f
  <2>4. f # NoJob
    BY <2>2 DEF FrameType, NoJob
  <2>5. /\ job' \in [Slaves -> FrameType \cup {NoJob}] /\ job'[s] = f
        /\ \A t \in Slaves \ {s} : job'[t] = job[t]
    BY <1>1, <2>1, <2>2 DEF TypeOK
  <2>6. /\ pc' \in [Stations -> {"idle", "work", "send", "recv"}] /\ pc'[s] = "work"
        /\ \A t \in Stations \ {s} : pc'[t] = pc[t]
    BY <1>1, <1>2, <2>1 DEF TypeOK, Goto
  <2>7. acted' \in Seq([call : 1 .. MaxCalls, by : Slaves])
    <3>1. [call |-> f.n, by |-> s] \in [call : 1 .. MaxCalls, by : Slaves]
      BY <2>2 DEF FrameType
    <3>2. acted \in Seq([call : 1 .. MaxCalls, by : Slaves])
      BY <1>1 DEF TypeOK
    <3>3. Append(acted, [call |-> f.n, by |-> s]) \in Seq([call : 1 .. MaxCalls, by : Slaves])
      BY <3>1, <3>2
    <3>4. QED
      BY <2>1, <3>2, <3>3
  <2>8. \A t \in Slaves : pc'[t] = "work" => job'[t] # NoJob
    BY <1>1, <2>4, <2>5, <2>6, Places DEF TypeOK
  <2>9. TypeOK'
    BY <1>1, <1>3, <2>5, <2>6, <2>7, <2>8 DEF TypeOK
  <2>10. QED
    BY <1>1, <1>3, <2>2, <2>3, <2>5, <2>6, <2>9
<1>5. CASE ~Deals
  <2>1. UNCHANGED <<job, acted, pc>>
    BY <1>5 DEF Take
  <2>2. TypeOK'
    BY <1>1, <1>3, <2>1 DEF TypeOK
  <2>3. QED
    BY <1>1, <1>3, <2>1, <2>2
<1>6. QED
  BY <1>4, <1>5

LEMMA TakeStep ==
    ASSUME BInv, AddrChk, NEW s \in Stations, Take(s) PROVE BInv'
<1>1. s \in Slaves
  BY DEF Take
<1>2. /\ TypeOK' /\ pc[s] = "recv" /\ ~OnLine(s)
      /\ tx' = tx /\ to' = to
      /\ since'[s] = 0 /\ heard'[s] = <<>> /\ ~Mine(s)'
      /\ \A t \in Stations \ {s} :
           pc'[t] = pc[t] /\ since'[t] = since[t] /\ heard'[t] = heard[t]
      /\ \/ pc'[s] = "recv"
         \/ pc'[s] = "work" /\ Mine(s) /\ job'[s].sa = s
  BY <1>1, Taken
<1>3. TypeOK /\ Turns /\ to \in Slaves /\ to \in Stations /\ to # Master /\ s # Master
      /\ Master \in Stations /\ since[Master] \in Nat /\ since[s] \in Nat
  BY <1>1, Places, Types DEF BInv, TypeOK
<1>4. pc'[Master] = pc[Master] /\ since'[Master] = since[Master] /\ heard'[Master] = heard[Master]
  BY <1>2, <1>3
<1>5. Asleep(s) => Asleep(s)'
  BY <1>2 DEF Asleep
<1>6. \A t \in Slaves \ {s} :
        (Asleep(t) <=> Asleep(t)') /\ pc'[t] = pc[t] /\ since'[t] = since[t]
        /\ heard'[t] = heard[t] /\ (Mine(t) <=> Mine(t)')
  BY <1>2, Places DEF Asleep, Mine
<1>7. Others => Others'
  BY <1>2, <1>5, <1>6 DEF Others
<1>8. Rest => Rest'
  BY <1>2, <1>3, <1>4, <1>5, <1>6, <1>7 DEF Rest
<1>9. ~Asking
  BY <1>2, <1>3 DEF Asking, OnLine
<1>10. Waiting => Waiting'
  <2> SUFFICES ASSUME Waiting PROVE Waiting'
    OBVIOUS
  <2>1. CASE s = to
    <3>1. CASE pc'[s] = "recv"
      BY <1>2, <1>3, <1>4, <1>7, <2>1, <3>1 DEF Waiting, Asleep
    <3>2. CASE pc'[s] = "work" /\ Mine(s) /\ job'[s].sa = s
      <4>1. Noticing
        BY <1>2, <2>1, <3>2 DEF Waiting, Asleep, Working
      <4>2. \A n, k \in Nat : k <= ByteTmo + Late + 1 /\ n <= FrameTime + k =>
              n <= FrameTime + ByteTmo + Late + 1 + 0 /\ 0 <= Turn
        BY Bounds
      <4>3. Working'
        BY <1>2, <1>3, <1>4, <2>1, <3>2, <4>1, <4>2 DEF Noticing, Working
      <4>4. QED
        BY <1>2, <1>3, <1>4, <1>7, <2>1, <4>3 DEF Waiting
    <3>3. QED
      BY <1>2, <3>1, <3>2
  <2>2. CASE s # to
    <3>1. pc'[to] = pc[to] /\ since'[to] = since[to] /\ heard'[to] = heard[to]
          /\ (Mine(to) <=> Mine(to)') /\ (Asleep(to) <=> Asleep(to)')
      BY <1>2, <1>3, <2>2 DEF Mine, Asleep
    <3>2. Asleep(s)
      BY <1>1, <2>2 DEF Waiting, Others
    <3>3. job'[to] = job[to]
      <4>1. job \in [Slaves -> FrameType \cup {NoJob}]
        BY <1>3 DEF TypeOK
      <4>2. job' = job \/ \E f : job' = [job EXCEPT ![s] = f]
        BY DEF Take
      <4>3. QED
        BY <1>3, <2>2, <4>1, <4>2
    <3>4. Noticing => Noticing'
      BY <1>2, <1>4, <3>1 DEF Noticing
    <3>5. Working => Working'
      BY <1>2, <1>4, <3>1, <3>3 DEF Working
    <3>6. QED
      BY <1>2, <1>4, <1>7, <3>1, <3>4, <3>5 DEF Waiting
  <2>3. QED
    BY <2>1, <2>2
<1>11. Answering => Answering'
  <2> SUFFICES ASSUME Answering PROVE Answering'
    OBVIOUS
  <2>1. s = to
    BY <1>2, <1>3 DEF Answering, OnLine
  <2>2. pc'[s] = "recv"
    BY <1>2, <2>1 DEF Answering, Mine
  <2>3. QED
    BY <1>2, <1>4, <1>7, <2>1, <2>2 DEF Answering
<1>12. Answered => Answered'
  <2> SUFFICES ASSUME Answered PROVE Answered'
    OBVIOUS
  <2>1. CASE s = to
    <3>1. pc'[s] = "recv"
      BY <1>2, <2>1 DEF Answered, Mine
    <3>2. QED
      BY <1>2, <1>4, <1>7, <2>1, <3>1 DEF Answered
  <2>2. CASE s # to
    BY <1>2, <1>3, <1>4, <1>6, <1>7, <2>2 DEF Answered
  <2>3. QED
    BY <2>1, <2>2
<1>13. QED
  BY <1>2, <1>3, <1>8, <1>9, <1>10, <1>11, <1>12 DEF BInv, Turns

LEMMA AnswerStep ==
    ASSUME BInv, ~Forges, NEW s \in Stations, Answer(s) PROVE BInv'
<1>1. /\ TypeOK /\ Turns /\ s \in Slaves /\ pc[s] = "work"
      /\ Transmit(s, [job[s] EXCEPT !.rsp = TRUE, !.good = TRUE])
      /\ job' = [job EXCEPT ![s] = NoJob] /\ UNCHANGED <<calls, to, okays, acted>>
  BY DEF BInv, Answer, owner
<1>2. to \in Slaves /\ to # Master /\ s # Master /\ Master \in Stations /\ s \in Stations
  BY <1>1, Places DEF TypeOK
<1>3. s = to /\ Waiting /\ Working
  BY <1>1, <1>2 DEF Turns, Rest, Asking, Waiting, Answering, Answered, Others, Asleep, Noticing
<1> DEFINE f == [job[s] EXCEPT !.rsp = TRUE, !.good = TRUE]
<1>4. f \in FrameType /\ f.sa = to /\ f.good
  <2>1. job[s] \in FrameType
    BY <1>1 DEF TypeOK
  <2>2. QED
    BY <1>3, <2>1 DEF FrameType, Working
<1>5. Transmit(s, f)
  BY <1>1
<1> HIDE DEF f
<1>6. /\ tx' \in [Stations -> 0 .. FrameTime] /\ tx'[s] > 0
      /\ \A t \in Stations \ {s} : tx'[t] = tx[t]
      /\ since' \in [Stations -> Nat] /\ since'[s] = 0
      /\ heard' \in [Stations -> Seq(FrameType)] /\ heard'[s] = heard[s]
      /\ \A t \in Stations \ {s} :
           heard'[t] # <<>> /\ (f.sa # t => (Mine(t)' => Mine(t)))
      /\ pc' \in [Stations -> {"idle", "work", "send", "recv"}]
      /\ pc'[s] \in {"recv", "send"} /\ \A t \in Stations \ {s} : pc'[t] = pc[t]
      /\ hurt' \subseteq 1 .. MaxCalls
  BY <1>1, <1>4, <1>5, Transmits
<1>7. /\ job' \in [Slaves -> FrameType \cup {NoJob}]
      /\ \A t \in Slaves : pc'[t] = "work" => job'[t] # NoJob
  <2>1. \A t \in Slaves \ {s} : job'[t] = job[t]
    BY <1>1 DEF TypeOK
  <2>2. \A t \in Slaves : pc'[t] = "work" => pc[t] = "work" /\ t # s
    BY <1>6, Places
  <2>3. QED
    BY <1>1, <2>1, <2>2 DEF TypeOK
<1>8. TypeOK'
  BY <1>1, <1>6, <1>7 DEF TypeOK
<1>9. Others'
  <2>1. ASSUME NEW t \in Slaves \ {to} PROVE tx'[t] = 0 /\ pc'[t] = "recv" /\ ~Mine(t)'
    <3>1. t \in Stations \ {s} /\ f.sa # t
      BY <1>3, <1>4, Places
    <3>2. tx[t] = 0 /\ pc[t] = "recv" /\ ~Mine(t)
      BY <1>3 DEF Waiting, Others, Asleep
    <3>3. QED
      BY <1>6, <3>1, <3>2
  <2>2. QED
    BY <1>1, <2>1 DEF Others, Asleep
<1>10. Answering'
  BY <1>1, <1>2, <1>3, <1>6, <1>9 DEF Waiting, Working, Answering
<1>11. QED
  BY <1>8, <1>10 DEF BInv, Turns

-----------------------------------------------------------------------------
(* Time, and the theorems.                                                 *)

\* What a tick does to the clocks.
LEMMA Ticks ==
    ASSUME TypeOK, Tick
    PROVE  /\ tx' \in [Stations -> 0 .. FrameTime] /\ since' \in [Stations -> Nat]
           /\ \A s \in Stations :
                /\ tx[s] = 0 => tx'[s] = 0
                /\ tx[s] > 0 => tx'[s] = tx[s] - 1
                /\ since'[s] <= since[s] + 1
                /\ pc[s] = "recv" /\ OnLine(s) => since'[s] = 0
                /\ pc[s] # "idle" /\ ~OnLine(s) =>
                     since'[s] = since[s] + 1 /\ since'[s] <= Patience(s)
                /\ pc[s] = "send" => tx[s] > 0
           /\ UNCHANGED <<pc, heard, job, calls, to, okays, acted, hurt>>
<1>1. /\ tx' = [s \in Stations |-> IF tx[s] > 0 THEN tx[s] - 1 ELSE 0]
      /\ since' = [s \in Stations |-> Elapse(s)]
      /\ UNCHANGED <<pc, heard, job, calls, to, okays, acted, hurt>>
      /\ \A s \in Stations : /\ since[s] < Patience(s) \/ pc[s] = "idle" \/ OnLine(s)
                             /\ pc[s] = "send" => tx[s] > 0
  BY DEF Tick, owner
<1>2. ASSUME NEW s \in Stations
      PROVE  /\ tx'[s] \in 0 .. FrameTime /\ (tx[s] = 0 => tx'[s] = 0)
             /\ tx[s] > 0 => tx'[s] = tx[s] - 1
  <2>1. tx[s] \in Nat /\ tx[s] <= FrameTime /\ tx'[s] = IF tx[s] > 0 THEN tx[s] - 1 ELSE 0
    BY <1>1, Types
  <2>2. \A n \in Nat : n <= FrameTime =>
          (IF n > 0 THEN n - 1 ELSE 0) \in 0 .. FrameTime /\ (n = 0 => ~(n > 0))
    BY Bounds
  <2>3. QED
    BY <2>1, <2>2
<1>3. ASSUME NEW s \in Stations
      PROVE  /\ since'[s] \in Nat /\ since'[s] <= since[s] + 1
             /\ pc[s] = "recv" /\ OnLine(s) => since'[s] = 0
             /\ pc[s] # "idle" /\ ~OnLine(s) =>
                  since'[s] = since[s] + 1 /\ since'[s] <= Patience(s)
  <2>1. since[s] \in Nat /\ since'[s] = Elapse(s)
    BY <1>1, Types
  <2>2. Patience(s) \in Nat
    <3>1. pc[s] \in {"idle", "work", "send", "recv"}
      BY Types
    <3>2. /\ Delay + 1 \in Nat /\ Turn \in Nat /\ FrameTime \in Nat
          /\ Late + 1 + ByteTmo \in Nat /\ Late + 1 + AckTmo \in Nat
      BY Bounds
    <3>3. CASE pc[s] = "recv"
      BY <3>2, <3>3 DEF Patience
    <3>4. CASE pc[s] # "recv"
      BY <3>1, <3>2, <3>4 DEF Patience
    <3>5. QED
      BY <3>3, <3>4
  <2>3. \A n, k \in Nat : n + 1 \in Nat /\ 0 <= n + 1 /\ n <= n + 1 /\ (n < k => n + 1 <= k)
    BY OneMore
  <2>4. since'[s] \in {0, since[s], since[s] + 1}
    BY <2>1 DEF Elapse
  <2>5. since'[s] \in Nat /\ since'[s] <= since[s] + 1
    BY <2>1, <2>3, <2>4
  <2>6. pc[s] = "recv" /\ OnLine(s) => since'[s] = 0
    BY <2>1 DEF Elapse
  <2>7. pc[s] # "idle" /\ ~OnLine(s) => since'[s] = since[s] + 1 /\ since'[s] <= Patience(s)
    <3> SUFFICES ASSUME pc[s] # "idle", ~OnLine(s)
                 PROVE  since'[s] = since[s] + 1 /\ since'[s] <= Patience(s)
      OBVIOUS
    <3>1. since[s] < Patience(s)
      BY <1>1
    <3>2. since'[s] = since[s] + 1
      BY <2>1, <3>1 DEF Elapse
    <3>3. QED
      BY <2>1, <2>2, <2>3, <3>1, <3>2
  <2>8. QED
    BY <2>5, <2>6, <2>7
<1>4. tx' \in [Stations -> 0 .. FrameTime] /\ since' \in [Stations -> Nat]
  BY <1>1, <1>2, <1>3
<1>5. QED
  BY <1>1, <1>2, <1>3, <1>4

LEMMA TickStep ==
    ASSUME BInv, Tick PROVE BInv'
<1>1. TypeOK /\ Turns
  BY DEF BInv
<1>2. /\ tx' \in [Stations -> 0 .. FrameTime] /\ since' \in [Stations -> Nat]
      /\ \A s \in Stations :
           /\ tx[s] = 0 => tx'[s] = 0
           /\ tx[s] > 0 => tx'[s] = tx[s] - 1
           /\ since'[s] <= since[s] + 1
           /\ pc[s] = "recv" /\ OnLine(s) => since'[s] = 0
           /\ pc[s] # "idle" /\ ~OnLine(s) =>
                since'[s] = since[s] + 1 /\ since'[s] <= Patience(s)
           /\ pc[s] = "send" => tx[s] > 0
      /\ UNCHANGED <<pc, heard, job, calls, to, okays, acted, hurt>>
  BY <1>1, Ticks
<1>3. TypeOK'
  BY <1>1, <1>2 DEF TypeOK
<1>4. /\ to \in Slaves /\ to \in Stations /\ to # Master /\ Master \in Stations
      /\ since[Master] \in Nat /\ since'[Master] \in Nat /\ since[to] \in Nat /\ since'[to] \in Nat
      /\ tx[Master] \in Nat /\ tx[to] \in Nat
  BY <1>1, <1>3, Places, Types DEF TypeOK
<1>5. Others => Others'
  BY <1>2, Places DEF Others, Asleep, Mine
<1>6. Rest => Rest'
  BY <1>2, <1>4, <1>5 DEF Rest, Asleep, Mine
<1>7. Asking => Asking' \/ Waiting'
  <2> SUFFICES ASSUME Asking PROVE Asking' \/ Waiting'
    OBVIOUS
  <2>1. tx'[Master] = tx[Master] - 1 /\ tx'[to] = 0 /\ since'[Master] <= since[Master] + 1
    BY <1>2, <1>4 DEF Asking
  <2>2. since'[to] = 0
    BY <1>2, <1>4 DEF Asking, OnLine
  <2>3. \A n, m, k \in Nat : k > 0 /\ n + k <= FrameTime /\ m <= n + 1 =>
          /\ m + (k - 1) <= FrameTime /\ m <= FrameTime + 0 /\ 0 <= ByteTmo + Late + 1
          /\ (k - 1 > 0 \/ k - 1 = 0)
    BY Bounds
  <2>4. /\ since'[Master] + tx'[Master] <= FrameTime
        /\ since'[Master] <= FrameTime + since'[to] /\ since'[to] <= ByteTmo + Late + 1
        /\ tx'[Master] > 0 \/ tx'[Master] = 0
    BY <1>4, <2>1, <2>2, <2>3 DEF Asking
  <2>5. CASE tx'[Master] > 0
    BY <1>2, <1>5, <2>1, <2>4, <2>5 DEF Asking
  <2>6. CASE tx'[Master] = 0
    <3>1. Asleep(to)' \/ Noticing'
      BY <1>2, <2>4 DEF Asking, Asleep, Noticing
    <3>2. QED
      BY <1>2, <1>5, <2>1, <2>6, <3>1 DEF Asking, Waiting
  <2>7. QED
    BY <2>4, <2>5, <2>6
<1>8. Waiting => Waiting'
  <2> SUFFICES ASSUME Waiting PROVE Waiting'
    OBVIOUS
  <2>1. \A s \in Stations : tx[s] = 0
    BY Places DEF Waiting, Others
  <2>2. ~OnLine(to)
    <3>1. ~(0 > 0)
      OBVIOUS
    <3>2. QED
      BY <2>1, <3>1 DEF OnLine
  <2>3. tx'[Master] = 0 /\ tx'[to] = 0 /\ since'[Master] <= since[Master] + 1
    BY <1>2, <1>4, <2>1
  <2>4. \A n, m, k \in Nat, b \in Nat : n <= b + k /\ m <= n + 1 => m <= b + (k + 1)
    OBVIOUS
  <2>5. FrameTime \in Nat /\ FrameTime + ByteTmo + Late + 1 \in Nat
    BY Bounds
  <2>6. Asleep(to) => Asleep(to)'
    BY <1>2 DEF Asleep, Mine
  <2>7. Noticing => Noticing'
    <3> SUFFICES ASSUME Noticing PROVE Noticing'
      OBVIOUS
    <3>1. since'[to] = since[to] + 1 /\ since'[to] <= Patience(to)
      BY <1>2, <1>4, <2>2 DEF Noticing
    <3>2. Patience(to) = Late + 1 + ByteTmo
      BY DEF Noticing, Mine, Patience
    <3>3. since'[to] <= ByteTmo + Late + 1
      BY <3>1, <3>2, Bounds
    <3>4. since'[Master] <= FrameTime + since'[to]
      BY <1>4, <2>3, <2>4, <2>5, <3>1 DEF Noticing
    <3>5. QED
      BY <1>2, <3>3, <3>4 DEF Noticing, Mine
  <2>8. Working => Working'
    <3> SUFFICES ASSUME Working PROVE Working'
      OBVIOUS
    <3>1. since'[to] = since[to] + 1 /\ since'[to] <= Patience(to)
      BY <1>2, <1>4, <2>2 DEF Working
    <3>2. Patience(to) = Turn
      BY DEF Working, Patience
    <3>3. since'[Master] <= FrameTime + ByteTmo + Late + 1 + since'[to]
      BY <1>4, <2>3, <2>4, <2>5, <3>1 DEF Working
    <3>4. QED
      BY <1>2, <3>1, <3>2, <3>3 DEF Working
  <2>9. QED
    BY <1>2, <1>5, <2>3, <2>6, <2>7, <2>8 DEF Waiting
<1>9. Answering => Answering' \/ Answered'
  <2> SUFFICES ASSUME Answering PROVE Answering' \/ Answered'
    OBVIOUS
  <2>1. tx'[Master] = 0 /\ tx'[to] = tx[to] - 1
    BY <1>2, <1>4 DEF Answering
  <2>2. \A k \in Nat : k > 0 => k - 1 > 0 \/ k - 1 = 0
    OBVIOUS
  <2>3. tx'[to] > 0 \/ tx'[to] = 0
    BY <1>4, <2>1, <2>2 DEF Answering
  <2>4. pc[Master] = "recv" /\ since'[Master] = 0
    <3>1. ~(0 > 0)
      OBVIOUS
    <3>2. QED
      BY <1>2, <1>4, <3>1 DEF Answering, OnLine
  <2>5. QED
    BY <1>2, <1>5, <2>1, <2>3, <2>4 DEF Answering, Answered
<1>10. Answered => Answered'
  <2> SUFFICES ASSUME Answered PROVE Answered'
    OBVIOUS
  <2>1. ~(0 > 0)
    OBVIOUS
  <2>2. pc[to] = "recv"
    BY <1>2, <1>4, <2>1 DEF Answered
  <2>3. QED
    BY <1>2, <1>4, <1>5, <2>2 DEF Answered
<1>11. QED
  BY <1>1, <1>3, <1>6, <1>7, <1>8, <1>9, <1>10 DEF BInv, Turns

LEMMA BNext == BInv /\ AddrChk /\ ~Forges /\ [Next]_vars => BInv'
<1> SUFFICES ASSUME BInv, AddrChk, ~Forges, [Next]_vars PROVE BInv'
  OBVIOUS
<1>1. CASE UNCHANGED vars
  BY <1>1 DEF vars, owner, BInv, TypeOK, Turns, Rest, Asking, Waiting, Answering, Answered,
     Others, Noticing, Working, Asleep, Mine
<1>2. CASE Next
  BY <1>2, CallStep, ReturnStep, SentStep, TakeStep, AnswerStep, TickStep DEF Next
<1>3. QED
  BY <1>1, <1>2

LEMMA BusInvariant == ASSUME AddrChk, ~Forges PROVE Spec => []BInv
<1>1. BInv /\ [Next]_vars => BInv'
  BY BNext
<1>2. QED
  BY BInit, <1>1, PTL DEF Spec

\* Every variable of the stations and of the line has its type.
THEOREM BusTypeOK == ASSUME AddrChk, ~Forges PROVE Spec => []TypeOK
<1>1. BInv => TypeOK
  BY DEF BInv
<1>2. QED
  BY <1>1, BusInvariant, PTL

\* mb_slave_fsm and the request functions never drive the line together: no
\* station listens before it talks, the timeouts alone keep them apart.  Frames
\* may be spoilt for any stations, but not so that a slave takes the function
\* code for unsupported and the address, which was another's, for its own: it
\* would answer.
THEOREM OneTalksAtATime == ASSUME AddrChk, ~Forges PROVE Spec => []OneTalker
<1>1. BInv => OneTalker
  <2> SUFFICES ASSUME BInv, NEW s \in Stations, NEW t \in Stations, tx[s] > 0, tx[t] > 0
               PROVE  s = t
    BY DEF OneTalker
  <2>1. ~(0 > 0)
    OBVIOUS
  <2>2. Others
    BY DEF BInv, Turns, Rest, Asking, Waiting, Answering, Answered
  <2>3. s \in {Master, to} /\ t \in {Master, to}
    BY <2>1, <2>2, Places DEF Others
  <2>4. tx[Master] = 0 \/ tx[to] = 0
    BY DEF BInv, Turns, Rest, Asking, Waiting, Answering, Answered
  <2>5. QED
    BY <2>1, <2>3, <2>4
<1>2. QED
  BY <1>1, BusInvariant, PTL


-----------------------------------------------------------------------------
(* The line keeps the promise of AddressedCall.  Added to whose turn it is:*)
(* which call the frames and the job belong to, that the slave has acted on*)
(* it when it works on it or has answered it, that a call without a reply, *)
(* or answered with an exception, is one with a disturbed frame, and that no slave still holds a frame of the*)
(* last call when the next one begins.                                     *)

\* A slave that has heard something began to time it when the master did.
Timed(lead, lag) ==
    \A t \in Slaves : heard[t] # <<>> =>
        lead + since[Master] <= lag + since[t] /\ since[t] <= ByteTmo + Late + 1

\* A frame of the slave that is called, as it was sent.
Intact(f) == f.good /\ ~IsUnknown(f) /\ f.sa = to

Replied == /\ Intact(Head(heard[Master])) => Line!Done
           /\ Intact(Head(heard[Master])) \/ calls \in hurt

RestStory      == Rest /\ Timed(ByteTmo + 1, 0)
AskingStory    == /\ Asking /\ ~Line!Done
                  /\ heard[to] # <<>> /\ Head(heard[to]).n = calls /\ ~Head(heard[to]).rsp
                  /\ Intact(Head(heard[to])) \/ calls \in hurt
WaitingStory   == /\ Waiting /\ Timed(0, FrameTime)
                  /\ \/ Asleep(to) /\ calls \in hurt
                     \/ /\ Noticing /\ ~Line!Done
                        /\ Head(heard[to]).n = calls /\ ~Head(heard[to]).rsp
                        /\ Intact(Head(heard[to])) \/ calls \in hurt
                     \/ /\ Working /\ job[to].n = calls
                        /\ IF IsUnknown(job[to]) THEN calls \in hurt ELSE Line!Done
AnsweringStory == Answering /\ Replied
AnsweredStory  == Answered /\ Replied /\ Timed(0, 0)

Past     == \A i \in DOMAIN acted : acted[i].call <= calls
Story    == RestStory \/ AskingStory \/ WaitingStory \/ AnsweringStory \/ AnsweredStory
StoryInv == BInv /\ Past /\ Story


LEMMA Elements == ASSUME NEW S, NEW q \in Seq(S), NEW i \in DOMAIN q PROVE q[i] \in S
OBVIOUS

\* What Transmit says of the frame: who it belongs to, and if it was disturbed.
LEMMA Heard ==
    ASSUME TypeOK, NEW s \in Stations, NEW f \in FrameType, f.good, Transmit(s, f)
    PROVE  /\ hurt' \in {hurt, hurt \cup {f.n}}
           /\ \A t \in Stations \ {s} : heard[t] = <<>> =>
                /\ heard'[t] # <<>> /\ Head(heard'[t]).n = f.n
                /\ Head(heard'[t]).rsp = f.rsp
                /\ Head(heard'[t]) = f \/ (~Head(heard'[t]).good /\ f.n \in hurt')
<1>1. PICK got \in [Stations \ {s} -> Noisy(f)] :
        /\ hurt' = IF \E t \in Stations \ {s} : ~got[t].good THEN hurt \cup {f.n} ELSE hurt
        /\ heard' = [t \in Stations |-> IF t = s THEN heard[t] ELSE Append(heard[t], got[t])]
  BY DEF Transmit
<1>2. ASSUME NEW t \in Stations \ {s}, heard[t] = <<>>
      PROVE  /\ heard'[t] # <<>> /\ Head(heard'[t]).n = f.n
             /\ Head(heard'[t]).rsp = f.rsp
             /\ Head(heard'[t]) = f \/ (~Head(heard'[t]).good /\ f.n \in hurt')
  <2> DEFINE g == got[t]
  <2>1. g \in FrameType /\ g.n = f.n /\ g.rsp = f.rsp /\ (g.good => g = f)
    <3>1. g \in Noisy(f)
      BY <1>1
    <3>2. QED
      BY <3>1, Spoilt
  <2>2. g.good \/ f.n \in hurt'
    BY <1>1
  <2>3. heard'[t] = Append(<<>>, g)
    BY <1>1, <1>2
  <2> HIDE DEF g
  <2>4. heard'[t] # <<>> /\ Head(heard'[t]) = g
    BY <2>1, <2>3
  <2>5. QED
    BY <2>1, <2>2, <2>4
<1>3. QED
  BY <1>1, <1>2

LEMMA StoryInit == Init => StoryInv
<1> SUFFICES ASSUME Init PROVE StoryInv
  OBVIOUS
<1>1. BInv
  BY BInit
<1>2. Past /\ pc[Master] = "idle" /\ \A t \in Slaves : heard[t] = <<>>
  BY Places DEF Init, Past
<1>3. Rest
  BY <1>1, <1>2 DEF BInv, Turns, Rest, Asking, Waiting, Answering, Answered
<1>4. QED
  BY <1>1, <1>2, <1>3 DEF StoryInv, Story, RestStory, Timed

\* The next call begins when every slave has dropped what it heard of the last.
LEMMA CallStory ==
    ASSUME StoryInv, ~Forges, Call PROVE StoryInv' /\ Line!Begin
<1>1. /\ BInv /\ BInv' /\ TypeOK /\ Past /\ pc[Master] = "idle" /\ since[Master] >= Delay
      /\ calls < MaxCalls /\ calls' = calls + 1 /\ UNCHANGED <<job, okays, acted>>
  BY CallStep DEF StoryInv, BInv, Call
<1>2. Rest /\ Timed(ByteTmo + 1, 0)
  BY <1>1 DEF StoryInv, Story, RestStory, AskingStory, WaitingStory, AnsweringStory,
     AnsweredStory, Asking, Waiting, Answering, Answered
<1>3. \A t \in Slaves : heard[t] = <<>>
  <2> SUFFICES ASSUME NEW t \in Slaves, heard[t] # <<>> PROVE FALSE
    OBVIOUS
  <2>1. ByteTmo + 1 + since[Master] <= 0 + since[t] /\ since[t] <= ByteTmo + Late + 1
    BY <1>2 DEF Timed
  <2>2. since[Master] \in Nat /\ since[t] \in Nat
    BY <1>1, Places, Types
  <2>3. Delay > Late /\ Delay \in Nat
    BY Bounds, TimingAssumption
  <2>4. QED
    BY <1>1, <2>1, <2>2, <2>3, Bounds
<1>4. PICK s \in Slaves, op \in {"read", "write"} :
        /\ to' = s
        /\ Transmit(Master, [n |-> calls + 1, sa |-> s, op |-> op, rsp |-> FALSE, good |-> TRUE])
  BY DEF Call
<1> DEFINE f == [n |-> calls + 1, sa |-> s, op |-> op, rsp |-> FALSE, good |-> TRUE]
<1>5. calls \in Nat /\ calls + 1 \in 1 .. MaxCalls
  BY <1>1, Bounds DEF TypeOK
<1>6. /\ f \in FrameType /\ f.sa = to' /\ f.n = calls' /\ f.rsp = FALSE
      /\ f.good /\ ~IsUnknown(f)
  BY <1>1, <1>4, <1>5, Places DEF FrameType, IsUnknown
<1>7. Transmit(Master, f)
  BY <1>4
<1> HIDE DEF f
<1>8. /\ hurt' \in {hurt, hurt \cup {calls + 1}}
      /\ \A t \in Stations \ {Master} : heard[t] = <<>> =>
           /\ heard'[t] # <<>> /\ Head(heard'[t]).n = f.n
           /\ Head(heard'[t]).rsp = f.rsp
           /\ Head(heard'[t]) = f \/ (~Head(heard'[t]).good /\ f.n \in hurt')
  BY <1>1, <1>6, <1>7, Places, Heard
<1>9. to' \in Stations \ {Master} /\ to' \in Slaves /\ heard[to'] = <<>>
  BY <1>3, <1>4, Places
<1>10. /\ heard'[to'] # <<>> /\ Head(heard'[to']).n = calls' /\ ~Head(heard'[to']).rsp
       /\ Head(heard'[to']) = f \/ calls' \in hurt'
  BY <1>6, <1>8, <1>9
<1>11. tx'[Master] > 0 /\ pc'[Master] \in {"recv", "send"}
  BY <1>1, <1>6, <1>7, Places, Transmits
<1>12. Asking'
  <2>1. ~(0 > 0)
    OBVIOUS
  <2>2. QED
    BY <1>1, <1>11, <2>1 DEF BInv, Turns, Rest, Waiting, Answering, Answered
<1>13. Past' /\ ~Line!Done'
  <2>1. ASSUME NEW i \in DOMAIN acted PROVE acted[i].call \in Nat /\ acted[i].call <= calls
    <3>1. acted \in Seq([call : 1 .. MaxCalls, by : Slaves])
      BY <1>1 DEF TypeOK
    <3>2. acted[i] \in [call : 1 .. MaxCalls, by : Slaves]
      BY <3>1, Elements
    <3>3. acted[i].call \in 1 .. MaxCalls
      BY <3>2
    <3>4. QED
      BY <1>1, <3>3, Bounds DEF Past
  <2>2. \A i \in DOMAIN acted : acted[i].call <= calls + 1 /\ acted[i].call # calls + 1
    BY <1>5, <2>1
  <2>3. QED
    BY <1>1, <2>2 DEF Past, Line!Done
<1>14. Intact(Head(heard[to]))' \/ calls' \in hurt'
  BY <1>6, <1>10 DEF Intact, IsUnknown
<1>15. StoryInv'
  BY <1>1, <1>10, <1>12, <1>13, <1>14 DEF StoryInv, Story, AskingStory
<1>16. Line!Begin
  BY <1>1, <1>8, <1>9, <1>11 DEF Line!Begin
<1>17. QED
  BY <1>15, <1>16


LEMMA StoryTypes ==
    ASSUME StoryInv
    PROVE  /\ BInv /\ TypeOK /\ Turns /\ Past /\ Story
           /\ to \in Slaves /\ to \in Stations /\ to # Master /\ Master \in Stations
           /\ since[Master] \in Nat /\ since[to] \in Nat /\ tx[Master] \in Nat /\ tx[to] \in Nat
           /\ \A t \in Slaves : since[t] \in Nat /\ heard[t] \in Seq(FrameType)
<1>1. BInv /\ TypeOK /\ Turns /\ Past /\ Story
  BY DEF StoryInv, BInv
<1>2. to \in Slaves
  BY <1>1 DEF TypeOK
<1>3. QED
  BY <1>1, <1>2, Places, Types

\* A call that took the reply, or another frame, or nothing.
LEMMA ReturnStory ==
    ASSUME StoryInv, AddrChk, Return
    PROVE  StoryInv' /\ (Line!Succeed \/ Line!Fail)
<1> DEFINE ok == /\ heard[Master] # <<>> /\ Head(heard[Master]).good
                 /\ Head(heard[Master]).op # "other"
                 /\ AddrChk => Head(heard[Master]).sa = to
<1>1. /\ BInv' /\ pc[Master] = "recv" /\ ~OnLine(Master)
      /\ since[Master] > (IF heard[Master] # <<>> THEN ByteTmo ELSE AckTmo)
      /\ heard' = [heard EXCEPT ![Master] = <<>>] /\ Goto(Master, "idle")
      /\ since' = [since EXCEPT ![Master] = 0]
      /\ okays' = IF ok THEN okays \cup {calls} ELSE okays
      /\ UNCHANGED <<tx, job, calls, to, acted, hurt>>
  BY StoryTypes, ReturnStep DEF Return, TimedOut
<1>2. /\ pc'[Master] = "idle" /\ since'[Master] = 0
      /\ \A t \in Slaves : heard'[t] = heard[t] /\ since'[t] = since[t]
  BY <1>1, StoryTypes, Places DEF TypeOK, Goto
<1>3. Rest' /\ Past'
  BY <1>1, <1>2, StoryTypes DEF BInv, Turns, Rest, Asking, Waiting, Answering, Answered, Past
<1>4. ~RestStory /\ ~AskingStory /\ ~AnsweringStory
  <2>1. \A n, k \in Nat : k > 0 /\ n + k <= FrameTime => ~(n > AckTmo)
    BY Bounds
  <2>2. ~Asking
    BY <1>1, <2>1, StoryTypes DEF Asking
  <2>3. ~Rest /\ ~Answering
    BY <1>1, StoryTypes DEF Rest, Answering, OnLine
  <2>4. QED
    BY <2>2, <2>3 DEF RestStory, AskingStory, AnsweringStory
<1>5. CASE WaitingStory
  <2>1. heard[Master] = <<>> /\ since[Master] > AckTmo /\ Timed(0, FrameTime)
    BY <1>1, <1>5 DEF WaitingStory, Waiting
  <2>2. \A n, k \in Nat : k <= ByteTmo + Late + 1 /\ n <= FrameTime + k => ~(n > AckTmo)
    BY Bounds
  <2>3. \A n, k \in Nat : k <= Turn /\ n <= FrameTime + ByteTmo + Late + 1 + k => ~(n > AckTmo)
    BY Bounds
  <2>4. ~Noticing /\ ~Working
    BY <2>1, <2>2, <2>3, StoryTypes DEF Noticing, Working
  <2>5. \A t \in Slaves : heard[t] = <<>>
    <3> SUFFICES ASSUME NEW t \in Slaves, heard[t] # <<>> PROVE FALSE
      OBVIOUS
    <3>1. 0 + since[Master] <= FrameTime + since[t] /\ since[t] <= ByteTmo + Late + 1
      BY <2>1 DEF Timed
    <3>2. QED
      BY <2>1, <2>2, <3>1, StoryTypes
  <2>6. RestStory'
    BY <1>2, <1>3, <2>5 DEF RestStory, Timed
  <2>7. Line!Fail
    BY <1>1, <1>2, <1>5, <2>1, <2>4 DEF WaitingStory, Line!Fail
  <2>8. QED
    BY <1>1, <1>3, <2>6, <2>7 DEF StoryInv, Story
<1>6. CASE AnsweredStory
  <2>1. /\ heard[Master] # <<>> /\ since[Master] > ByteTmo /\ Timed(0, 0) /\ Replied
    BY <1>1, <1>6 DEF AnsweredStory, Answered
  <2>2. Timed(ByteTmo + 1, 0)'
    <3> SUFFICES ASSUME NEW t \in Slaves, heard[t] # <<>>
                 PROVE  ByteTmo + 1 + 0 <= 0 + since[t] /\ since[t] <= ByteTmo + Late + 1
      BY <1>2 DEF Timed
    <3>1. 0 + since[Master] <= 0 + since[t] /\ since[t] <= ByteTmo + Late + 1
      BY <2>1 DEF Timed
    <3>2. \A n, k \in Nat : n > ByteTmo /\ 0 + n <= 0 + k => ByteTmo + 1 + 0 <= 0 + k
      BY Bounds
    <3>3. QED
      BY <2>1, <3>1, <3>2, StoryTypes
  <2>3. RestStory'
    BY <1>3, <2>2 DEF RestStory
  <2>4. (ok => Line!Done) /\ (ok \/ calls \in hurt)
    BY <2>1 DEF Replied, Intact, IsUnknown
  <2>5. Line!Succeed \/ Line!Fail
    BY <1>1, <1>2, <2>4 DEF Line!Succeed, Line!Fail
  <2>6. QED
    BY <1>1, <1>3, <2>3, <2>5 DEF StoryInv, Story
<1>7. QED
  BY <1>4, <1>5, <1>6, StoryTypes DEF Story

LEMMA SentStory ==
    ASSUME StoryInv, NEW s \in Stations, Sent(s)
    PROVE  StoryInv' /\ UNCHANGED Line!avars
<1>1. /\ BInv' /\ pc[s] = "send" /\ tx[s] = 0 /\ Goto(s, "recv")
      /\ since' = [since EXCEPT ![s] = 0]
      /\ UNCHANGED <<heard, tx, job, calls, to, okays, acted, hurt>>
  BY StoryTypes, SentStep DEF Sent, owner
<1>2. /\ pc'[s] = "recv" /\ \A t \in Stations \ {s} : pc'[t] = pc[t]
      /\ since'[s] = 0 /\ \A t \in Stations \ {s} : since'[t] = since[t]
  BY <1>1, StoryTypes DEF TypeOK, Goto
<1>3. UNCHANGED Line!avars
  <2>1. pc'[Master] = "idle" <=> pc[Master] = "idle"
    BY <1>1, <1>2, Places
  <2>2. QED
    BY <1>1, <2>1 DEF Line!avars
<1>4. Past' /\ (Line!Done <=> Line!Done') /\ (Replied => Replied')
  BY <1>1, StoryTypes DEF Past, Line!Done, Replied, Intact
<1>5. ~RestStory /\ ~AskingStory
  <2>1. ~(0 > 0)
    OBVIOUS
  <2>2. s \in Slaves => ~(Rest \/ Asking)
    BY <1>1, StoryTypes DEF Rest, Asking, Others, Asleep
  <2>3. s = Master => ~(Rest \/ Asking)
    BY <1>1, <2>1 DEF Rest, Asking
  <2>4. QED
    BY <2>2, <2>3, Places DEF RestStory, AskingStory
<1>6. CASE WaitingStory
  <2>1. s = Master
    BY <1>1, <1>6, Places DEF WaitingStory, Waiting, Others, Asleep, Noticing, Working
  <2>2. \A t \in Slaves : pc'[t] = pc[t] /\ since'[t] = since[t] /\ heard'[t] = heard[t]
    BY <1>1, <1>2, <2>1, Places
  <2>3. Waiting'
    BY <1>1, <1>2, <1>6, <2>1 DEF BInv, Turns, WaitingStory, Waiting, Rest, Asking, Answering,
       Answered
  <2>4. Timed(0, FrameTime)'
    <3> SUFFICES ASSUME NEW t \in Slaves, heard[t] # <<>>
                 PROVE  0 + 0 <= FrameTime + since[t] /\ since[t] <= ByteTmo + Late + 1
      BY <1>2, <2>1, <2>2 DEF Timed
    <3>1. since[t] <= ByteTmo + Late + 1
      BY <1>6 DEF WaitingStory, Timed
    <3>2. \A k \in Nat : 0 + 0 <= FrameTime + k
      BY Bounds
    <3>3. QED
      BY <3>1, <3>2, StoryTypes
  <2>5. Noticing \/ Working \/ Asleep(to) <=> (Noticing \/ Working \/ Asleep(to))'
    BY <1>6, <2>3 DEF WaitingStory, Waiting
  <2>6. (Asleep(to) => Asleep(to)') /\ (Noticing => ~Asleep(to)' /\ ~Working')
        /\ (Working => ~Asleep(to)' /\ ~Noticing')
    BY <1>1, <2>2, StoryTypes DEF Asleep, Mine, Noticing, Working
  <2>7. WaitingStory'
    BY <1>1, <1>4, <1>6, <2>3, <2>4, <2>5, <2>6 DEF WaitingStory, Intact
  <2>8. QED
    BY <1>1, <1>3, <1>4, <2>7 DEF StoryInv, Story
<1>7. CASE AnsweringStory
  <2>1. Answering'
    BY <1>1, <1>7, StoryTypes DEF BInv, Turns, AnsweringStory, Answering, Rest, Asking, Waiting,
       Answered
  <2>2. QED
    BY <1>1, <1>3, <1>4, <1>7, <2>1 DEF StoryInv, Story, AnsweringStory
<1>8. CASE AnsweredStory
  <2>1. Answered'
    <3>1. ~(0 > 0)
      OBVIOUS
    <3>2. pc'[Master] # "idle"
      BY <1>2, <1>8, Places DEF AnsweredStory, Answered
    <3>3. QED
      BY <1>1, <1>8, <3>1, <3>2, StoryTypes DEF BInv, Turns, AnsweredStory, Answered, Rest, Asking,
         Waiting, Answering
  <2>2. Timed(0, 0)'
    <3> SUFFICES ASSUME NEW t \in Slaves, heard[t] # <<>>
                 PROVE  0 + since'[Master] <= 0 + since'[t] /\ since'[t] <= ByteTmo + Late + 1
      BY <1>1 DEF Timed
    <3>1. 0 + since[Master] <= 0 + since[t] /\ since[t] <= ByteTmo + Late + 1
      BY <1>8 DEF AnsweredStory, Timed
    <3>2. since'[t] = since[t]
      <4>1. t # s
        BY <1>1, <1>8, Places DEF AnsweredStory, Answered, Others, Asleep
      <4>2. QED
        BY <1>2, <4>1, Places
    <3>3. since'[Master] = since[Master] \/ since'[Master] = 0
      BY <1>2, Places
    <3>4. \A k \in Nat : 0 + 0 <= 0 + k
      OBVIOUS
    <3>5. QED
      BY <3>1, <3>2, <3>3, <3>4, StoryTypes
  <2>3. QED
    BY <1>1, <1>3, <1>4, <1>8, <2>1, <2>2 DEF StoryInv, Story, AnsweredStory
<1>9. QED
  BY <1>5, <1>6, <1>7, <1>8, StoryTypes DEF Story


\* The slave that was addressed takes the request; nobody else takes anything.
LEMMA TakeStory ==
    ASSUME StoryInv, AddrChk, NEW s \in Stations, Take(s)
    PROVE  StoryInv' /\ (Line!Act \/ UNCHANGED Line!avars)
<1>1. s \in Slaves
  BY DEF Take
<1>2. /\ BInv' /\ pc[s] = "recv" /\ ~OnLine(s) /\ UNCHANGED <<tx, calls, to, okays, hurt>>
      /\ since'[s] = 0 /\ heard'[s] = <<>>
      /\ \A t \in Stations \ {s} :
           pc'[t] = pc[t] /\ since'[t] = since[t] /\ heard'[t] = heard[t]
      /\ \/ pc'[s] = "recv"
         \/ pc'[s] = "work" /\ Mine(s) /\ job'[s].sa = s
  BY <1>1, StoryTypes, TakeStep, Taken
<1>3. s # Master /\ pc'[Master] = pc[Master] /\ since'[Master] = since[Master]
      /\ heard'[Master] = heard[Master]
  BY <1>1, <1>2, Places
<1>4. ASSUME NEW lead, NEW lag, Timed(lead, lag) PROVE Timed(lead, lag)'
  <2>1. ASSUME NEW t \in Slaves, heard'[t] # <<>>
        PROVE heard[t] # <<>> /\ since'[t] = since[t]
    BY <1>2, <2>1, Places
  <2>2. QED
    BY <1>3, <1>4, <2>1 DEF Timed
<1>5. CASE WaitingStory /\ s = to /\ Noticing
  <2>1. /\ ~Line!Done /\ Head(heard[to]).n = calls /\ ~Head(heard[to]).rsp /\ Mine(to)
        /\ Intact(Head(heard[to])) \/ calls \in hurt
        /\ Waiting /\ Timed(0, FrameTime)
    BY <1>5 DEF WaitingStory, Asleep, Noticing, Working
  <2>2. /\ heard[s] # <<>> /\ ForMe(s, Head(heard[s]))
        /\ IsUnknown(Head(heard[s])) \/ IsRequest(Head(heard[s]))
    BY <1>5, <2>1 DEF Mine, IsRequest, ForMe
  <2>3. /\ job' = [job EXCEPT ![s] = Head(heard[s])] /\ Goto(s, "work")
        /\ acted' = IF IsUnknown(Head(heard[s])) THEN acted
                    ELSE Append(acted, [call |-> calls, by |-> to])
    BY <1>5, <2>1, <2>2 DEF Take
  <2>4. pc'[to] = "work" /\ job'[to] = Head(heard[to])
    BY <1>5, <2>3, StoryTypes DEF TypeOK, Goto
  <2>5. Waiting' /\ Working'
    BY <1>2, <1>3, <1>5, <2>1, <2>4, StoryTypes DEF BInv, Turns, Waiting, Rest, Asking, Answering,
       Answered, Asleep, Noticing
  <2>6. CASE IsUnknown(Head(heard[s]))
    <3>1. calls \in hurt /\ acted' = acted
      BY <1>5, <2>1, <2>3, <2>6 DEF Intact
    <3>2. WaitingStory'
      BY <1>2, <1>4, <1>5, <2>1, <2>4, <2>5, <2>6, <3>1 DEF WaitingStory, IsUnknown
    <3>3. UNCHANGED Line!avars /\ Past'
      BY <1>2, <1>3, <3>1, StoryTypes DEF Line!avars, Past
    <3>4. QED
      BY <1>2, <3>2, <3>3 DEF StoryInv, Story
  <2>7. CASE ~IsUnknown(Head(heard[s]))
    <3>1. acted' = Append(acted, [call |-> calls, by |-> to])
      BY <2>3, <2>7
    <3>2. acted \in Seq([call : 1 .. MaxCalls, by : Slaves])
      BY StoryTypes DEF TypeOK
    <3>3. /\ DOMAIN acted' = 1 .. (Len(acted) + 1) /\ acted'[Len(acted) + 1].call = calls
          /\ \A i \in 1 .. Len(acted) : acted'[i] = acted[i]
      BY <3>1, <3>2
    <3>4. Len(acted) \in Nat /\ DOMAIN acted = 1 .. Len(acted)
      BY <3>2
    <3>5. Line!Done'
      BY <1>2, <3>3, <3>4 DEF Line!Done
    <3>6. Past'
      <4> SUFFICES ASSUME NEW i \in DOMAIN acted' PROVE acted'[i].call <= calls
        BY <1>2 DEF Past
      <4>1. i \in 1 .. Len(acted) \/ i = Len(acted) + 1
        BY <3>3, <3>4
      <4>2. calls <= calls
        BY StoryTypes, Bounds DEF TypeOK
      <4>3. QED
        BY <3>3, <3>4, <4>1, <4>2, StoryTypes DEF Past
    <3>7. WaitingStory'
      BY <1>2, <1>4, <1>5, <2>1, <2>4, <2>5, <2>7, <3>5 DEF WaitingStory, IsUnknown
    <3>8. Line!Act
      <4>1. pc[Master] # "idle" /\ pc'[Master] # "idle"
        BY <1>3, <2>1 DEF Waiting
      <4>2. QED
        BY <1>2, <2>1, <3>1, <4>1 DEF Line!Act
    <3>9. QED
      BY <1>2, <3>6, <3>7, <3>8 DEF StoryInv, Story
  <2>8. QED
    BY <2>6, <2>7
<1>6. CASE ~(WaitingStory /\ s = to /\ Noticing)
  <2>1. ~Mine(s)
    <3>1. s # to => ~Mine(s)
      BY <1>1, StoryTypes DEF Turns, Rest, Asking, Waiting, Answering, Answered, Others, Asleep
    <3>2. s = to => ~Mine(s)
      <4>1. ~AskingStory
        BY <1>2, <1>3, StoryTypes DEF AskingStory, Asking, OnLine
      <4>2. QED
        BY <1>2, <1>6, <4>1, StoryTypes DEF Story, RestStory, WaitingStory, AnsweringStory,
           AnsweredStory, Rest, Waiting, Answering, Answered, Asleep, Mine, Noticing, Working
    <3>3. QED
      BY <3>1, <3>2
  <2>2. pc'[s] = "recv" /\ UNCHANGED <<job, acted>>
    <3>1. ~(/\ heard[s] # <<>> /\ ForMe(s, Head(heard[s]))
            /\ IsUnknown(Head(heard[s])) \/ IsRequest(Head(heard[s])))
      BY <2>1 DEF Mine, IsRequest, ForMe
    <3>2. UNCHANGED <<job, acted, pc>>
      BY <3>1 DEF Take
    <3>3. QED
      BY <1>2, <3>2
  <2>3. UNCHANGED Line!avars
    BY <1>2, <1>3, <2>2 DEF Line!avars
  <2>4. Past' /\ (Line!Done <=> Line!Done') /\ (Replied => Replied')
    BY <1>2, <1>3, <2>2, StoryTypes DEF Past, Line!Done, Replied, Intact
  <2>5. (Asleep(s) => Asleep(s)') /\ (s # to => (Asleep(to) => Asleep(to)'))
    BY <1>2, <2>2, StoryTypes DEF Asleep, Mine
  <2>6. RestStory => RestStory'
    BY <1>2, <1>3, <1>4 DEF BInv, Turns, RestStory, Rest, Asking, Waiting, Answering, Answered
  <2>7. ~AskingStory
    BY <1>2, <1>3, StoryTypes DEF AskingStory, Asking, OnLine
  <2>8. WaitingStory => WaitingStory'
    <3> SUFFICES ASSUME WaitingStory PROVE WaitingStory'
      OBVIOUS
    <3>1. Waiting'
      BY <1>2, <1>3 DEF BInv, Turns, WaitingStory, Waiting, Rest, Asking, Answering, Answered
    <3>2. Timed(0, FrameTime)'
      BY <1>4 DEF WaitingStory
    <3>3. CASE Asleep(to) /\ calls \in hurt
      BY <1>2, <2>5, <3>1, <3>2, <3>3 DEF WaitingStory
    <3>4. CASE /\ Noticing /\ ~Line!Done /\ Head(heard[to]).n = calls /\ ~Head(heard[to]).rsp
               /\ Intact(Head(heard[to])) \/ calls \in hurt
      <4>1. s # to
        BY <1>6, <3>4
      <4>2. heard'[to] = heard[to] /\ pc'[to] = pc[to] /\ since'[to] = since[to]
        BY <1>2, <4>1, StoryTypes
      <4>3. Noticing'
        BY <1>2, <1>3, <3>4, <4>2 DEF Noticing, Mine
      <4>4. QED
        BY <1>2, <2>4, <3>1, <3>2, <3>4, <4>2, <4>3 DEF WaitingStory, Intact
    <3>5. CASE /\ Working /\ job[to].n = calls
               /\ IF IsUnknown(job[to]) THEN calls \in hurt ELSE Line!Done
      <4>1. s # to
        BY <1>2, <3>5 DEF Working
      <4>2. heard'[to] = heard[to] /\ pc'[to] = pc[to] /\ since'[to] = since[to]
        BY <1>2, <4>1, StoryTypes
      <4>3. Working'
        BY <1>2, <1>3, <2>2, <3>5, <4>2 DEF Working
      <4>4. QED
        BY <1>2, <2>2, <2>4, <3>1, <3>2, <3>5, <4>3 DEF WaitingStory
    <3>6. QED
      BY <3>3, <3>4, <3>5 DEF WaitingStory
  <2>9. AnsweringStory => AnsweringStory'
    BY <1>2, <1>3, <2>4, StoryTypes DEF BInv, Turns, AnsweringStory, Answering, Rest, Asking,
       Waiting, Answered
  <2>10. AnsweredStory => AnsweredStory'
    <3> SUFFICES ASSUME AnsweredStory PROVE AnsweredStory'
      OBVIOUS
    <3>1. ~(0 > 0)
      OBVIOUS
    <3>2. Answered'
      BY <1>2, <1>3, <3>1 DEF BInv, Turns, AnsweredStory, Answered, Rest, Asking, Waiting,
         Answering
    <3>3. QED
      BY <1>4, <2>4, <3>2 DEF AnsweredStory
  <2>11. QED
    BY <1>2, <2>3, <2>4, <2>6, <2>7, <2>8, <2>9, <2>10, StoryTypes DEF StoryInv, Story
<1>7. QED
  BY <1>5, <1>6


LEMMA AnswerStory ==
    ASSUME StoryInv, ~Forges, NEW s \in Stations, Answer(s)
    PROVE  StoryInv' /\ (Line!Hurt \/ UNCHANGED Line!avars)
<1>1. /\ BInv' /\ s \in Slaves /\ pc[s] = "work"
      /\ Transmit(s, [job[s] EXCEPT !.rsp = TRUE, !.good = TRUE])
      /\ UNCHANGED <<calls, to, okays, acted>>
  <2>1. BInv'
    BY StoryTypes, AnswerStep
  <2>2. QED
    BY <2>1 DEF Answer, owner
<1>2. /\ s = to /\ Waiting /\ Working /\ job[to].n = calls
      /\ IF IsUnknown(job[to]) THEN calls \in hurt ELSE Line!Done
  BY <1>1, StoryTypes DEF Story, RestStory, AskingStory, WaitingStory, AnsweringStory,
     AnsweredStory, Rest, Asking, Waiting, Answering, Answered, Others, Asleep, Noticing
<1> DEFINE f == [job[s] EXCEPT !.rsp = TRUE, !.good = TRUE]
<1>3. /\ f \in FrameType /\ f.sa = to /\ f.n = calls /\ f.good
      /\ IsUnknown(f) <=> IsUnknown(job[to])
  <2>1. job[s] \in FrameType
    BY <1>1, StoryTypes DEF TypeOK
  <2>2. QED
    BY <1>2, <2>1 DEF FrameType, Working, IsUnknown
<1>4. Transmit(s, f)
  BY <1>1
<1> HIDE DEF f
<1>5. /\ tx'[s] > 0 /\ \A t \in Stations \ {s} : tx'[t] = tx[t] /\ pc'[t] = pc[t]
  BY <1>1, <1>3, <1>4, StoryTypes, Transmits
<1>6. /\ hurt' \in {hurt, hurt \cup {calls}}
      /\ Head(heard'[Master]) = f \/ (~Head(heard'[Master]).good /\ calls \in hurt')
  BY <1>1, <1>2, <1>3, <1>4, StoryTypes, Heard DEF Waiting
<1>7. pc'[Master] = pc[Master] /\ pc[Master] # "idle"
  BY <1>1, <1>2, <1>5, StoryTypes DEF Waiting
<1>8. Answering'
  <2>1. ~(0 > 0)
    OBVIOUS
  <2>2. QED
    BY <1>1, <1>2, <1>5, <2>1 DEF BInv, Turns, Rest, Asking, Waiting, Answering, Answered
<1>9. Past' /\ (Line!Done <=> Line!Done')
  BY <1>1, StoryTypes DEF Past, Line!Done
<1>10. Replied'
  <2>1. CASE IsUnknown(f)
    BY <1>1, <1>2, <1>3, <1>6, <2>1 DEF Replied, Intact, IsUnknown
  <2>2. CASE ~IsUnknown(f)
    BY <1>1, <1>2, <1>3, <1>6, <1>9, <2>2 DEF Replied, Intact, IsUnknown
  <2>3. QED
    BY <2>1, <2>2
<1>11. StoryInv'
  BY <1>1, <1>8, <1>9, <1>10 DEF StoryInv, Story, AnsweringStory
<1>12. CASE hurt' = hurt
  BY <1>1, <1>7, <1>11, <1>12 DEF Line!avars
<1>13. CASE hurt' # hurt
  BY <1>1, <1>2, <1>6, <1>7, <1>11, <1>13 DEF Line!Hurt
<1>14. QED
  BY <1>12, <1>13

\* While nobody talks the clocks of those that have heard something go on together.
LEMMA TimedTick ==
    ASSUME StoryInv, Tick, \A s \in Stations : tx[s] = 0,
           NEW lead \in Nat, NEW lag \in Nat, Timed(lead, lag),
           \A t \in Slaves : heard[t] # <<>> => pc[t] = "recv"
    PROVE  Timed(lead, lag)'
<1>1. /\ \A s \in Stations :
           /\ since'[s] <= since[s] + 1
           /\ pc[s] # "idle" /\ ~OnLine(s) =>
                since'[s] = since[s] + 1 /\ since'[s] <= Patience(s)
      /\ heard' = heard /\ since' \in [Stations -> Nat]
  BY StoryTypes, Ticks
<1>2. ASSUME NEW t \in Slaves, heard[t] # <<>>
      PROVE  lead + since'[Master] <= lag + since'[t] /\ since'[t] <= ByteTmo + Late + 1
  <2>1. lead + since[Master] <= lag + since[t]
    BY <1>2 DEF Timed
  <2>2. ~OnLine(t)
    <3>1. ~(0 > 0)
      OBVIOUS
    <3>2. QED
      BY <3>1 DEF OnLine
  <2>3. Patience(t) = Late + 1 + ByteTmo
    BY <1>2 DEF Patience
  <2>4. since'[t] = since[t] + 1 /\ since'[t] <= Late + 1 + ByteTmo
        /\ since'[Master] <= since[Master] + 1
    BY <1>1, <1>2, <2>2, <2>3, Places
  <2>5. since'[Master] \in Nat /\ since'[t] \in Nat
    BY <1>1, Places
  <2>6. \A n, m, k \in Nat : lead + n <= lag + k /\ m <= n + 1 => lead + m <= lag + (k + 1)
    OBVIOUS
  <2>7. \A k \in Nat : k <= Late + 1 + ByteTmo => k <= ByteTmo + Late + 1
    BY Bounds
  <2>8. QED
    BY <2>1, <2>4, <2>5, <2>6, <2>7, StoryTypes
<1>3. QED
  BY <1>1, <1>2 DEF Timed


LEMMA TickStory ==
    ASSUME StoryInv, Tick
    PROVE  StoryInv' /\ UNCHANGED Line!avars
<1>1. /\ BInv'
      /\ \A s \in Stations :
           /\ tx[s] = 0 => tx'[s] = 0
           /\ tx[s] > 0 => tx'[s] = tx[s] - 1
           /\ since'[s] <= since[s] + 1
           /\ pc[s] = "recv" /\ OnLine(s) => since'[s] = 0
           /\ pc[s] = "send" => tx[s] > 0
      /\ UNCHANGED <<pc, heard, job, calls, to, okays, acted, hurt>>
  BY StoryTypes, TickStep, Ticks
<1>2. UNCHANGED Line!avars
  BY <1>1 DEF Line!avars
<1>3. /\ Past' /\ (Line!Done <=> Line!Done') /\ (Replied => Replied')
      /\ (Mine(to) <=> Mine(to)') /\ (Asleep(to) <=> Asleep(to)')
      /\ (Intact(Head(heard[to])) <=> Intact(Head(heard[to]))')
  <2>1. Past' /\ (Line!Done <=> Line!Done')
    BY <1>1, StoryTypes DEF Past, Line!Done
  <2>2. (Mine(to) <=> Mine(to)') /\ (Asleep(to) <=> Asleep(to)')
    BY <1>1 DEF Mine, Asleep
  <2>3. Intact(Head(heard[to])) <=> Intact(Head(heard[to]))'
    BY <1>1 DEF Intact
  <2>4. Replied => Replied'
    BY <1>1, <2>1 DEF Replied, Intact
  <2>5. QED
    BY <2>1, <2>2, <2>3, <2>4
<1>4. ~(0 > 0) /\ 0 \in Nat /\ ByteTmo + 1 \in Nat /\ FrameTime \in Nat
  BY Bounds
<1>5. CASE RestStory
  <2>1. \A s \in Stations : tx[s] = 0
    BY <1>5, Places DEF RestStory, Rest, Others
  <2>2. \A t \in Slaves : pc[t] = "recv"
    BY <1>5 DEF RestStory, Rest, Others, Asleep
  <2>3. Timed(ByteTmo + 1, 0)'
    BY <1>4, <1>5, <2>1, <2>2, TimedTick DEF RestStory
  <2>4. Rest'
    BY <1>1, <1>5 DEF BInv, Turns, RestStory, Rest, Asking, Waiting, Answering, Answered
  <2>5. QED
    BY <1>1, <1>2, <1>3, <2>3, <2>4 DEF StoryInv, Story, RestStory
<1>6. CASE AskingStory
  <2>1. tx'[Master] = tx[Master] - 1 /\ tx'[to] = 0 /\ since'[Master] <= since[Master] + 1
        /\ since[Master] + tx[Master] <= FrameTime /\ tx[Master] > 0
    BY <1>1, <1>6, StoryTypes DEF AskingStory, Asking
  <2>2. \A t \in Slaves : pc[t] = "recv" /\ since'[t] = 0
    <3> SUFFICES ASSUME NEW t \in Slaves PROVE pc[t] = "recv" /\ since'[t] = 0
      OBVIOUS
    <3>1. pc[t] = "recv" /\ t # Master /\ t \in Stations
      BY <1>6, Places DEF AskingStory, Asking, Others, Asleep
    <3>2. OnLine(t)
      BY <2>1, <3>1, StoryTypes DEF OnLine
    <3>3. QED
      BY <1>1, <3>1, <3>2
  <2>3. pc'[Master] # "idle" /\ heard'[Master] = <<>>
    BY <1>1, <1>6 DEF AskingStory, Asking
  <2>4. Asking' \/ Waiting'
    BY <1>1, <1>4, <2>1, <2>3 DEF BInv, Turns, Rest, Answering, Answered
  <2>5. CASE Asking'
    BY <1>1, <1>2, <1>3, <1>6, <2>5 DEF StoryInv, Story, AskingStory
  <2>6. CASE Waiting'
    <3>1. since'[Master] \in Nat
      BY <1>1, Places, Types DEF BInv, TypeOK
    <3>2. \A n, m, k \in Nat : k > 0 /\ n + k <= FrameTime /\ m <= n + 1 => 0 + m <= FrameTime + 0
      BY Bounds
    <3>3. 0 + since'[Master] <= FrameTime + 0 /\ 0 <= ByteTmo + Late + 1
      BY <2>1, <3>1, <3>2, StoryTypes, Bounds
    <3>4. Timed(0, FrameTime)'
      BY <2>2, <3>3 DEF Timed
    <3>5. CASE Mine(to)
      <4>1. Noticing'
        BY <1>1, <1>3, <2>2, <2>6, <3>5, StoryTypes DEF Waiting, Asleep, Working
      <4>2. QED
        BY <1>1, <1>2, <1>3, <1>6, <2>6, <3>4, <4>1 DEF StoryInv, Story, AskingStory, WaitingStory
    <3>6. CASE ~Mine(to)
      <4>1. Asleep(to)'
        BY <1>3, <2>2, <3>6, StoryTypes DEF Asleep
      <4>2. calls \in hurt
        BY <1>6, <3>6 DEF AskingStory, Intact, Mine
      <4>3. QED
        BY <1>1, <1>2, <1>3, <2>6, <3>4, <4>1, <4>2 DEF StoryInv, Story, AskingStory,
           WaitingStory
    <3>7. QED
      BY <3>5, <3>6
  <2>7. QED
    BY <2>4, <2>5, <2>6
<1>7. CASE WaitingStory
  <2>1. \A s \in Stations : tx[s] = 0
    BY <1>7, Places DEF WaitingStory, Waiting, Others
  <2>2. \A t \in Slaves : heard[t] # <<>> => pc[t] = "recv"
    BY <1>7 DEF WaitingStory, Waiting, Others, Asleep, Noticing, Working
  <2>3. Timed(0, FrameTime)'
    BY <1>4, <1>7, <2>1, <2>2, TimedTick DEF WaitingStory
  <2>4. pc'[Master] # "idle" /\ heard'[Master] = <<>> /\ tx'[Master] = 0 /\ tx'[to] = 0
    BY <1>1, <1>7, <2>1, StoryTypes DEF WaitingStory, Waiting
  <2>5. Waiting'
    BY <1>1, <1>4, <2>4 DEF BInv, Turns, Rest, Asking, Answering, Answered
  <2>6. (Noticing => Noticing') /\ (Working => Working')
    BY <1>1, <1>3, <2>5 DEF Waiting, Noticing, Working, Asleep
  <2>7. QED
    BY <1>1, <1>2, <1>3, <1>7, <2>3, <2>5, <2>6 DEF StoryInv, Story, WaitingStory
<1>8. CASE AnsweringStory
  <2>1. /\ pc'[Master] # "idle" /\ heard'[Master] # <<>> /\ tx'[Master] = 0
        /\ tx[to] > 0 /\ heard[to] = <<>> /\ Others /\ pc[Master] = "recv"
    BY <1>1, <1>4, <1>8, StoryTypes DEF AnsweringStory, Answering
  <2>2. Answering' \/ Answered'
    BY <1>1, <2>1 DEF BInv, Turns, Rest, Asking, Waiting
  <2>3. Timed(0, 0)'
    <3>1. OnLine(Master) /\ since'[Master] = 0
      BY <1>1, <2>1, StoryTypes DEF OnLine
    <3>2. ASSUME NEW t \in Slaves, heard'[t] # <<>> PROVE since'[t] = 0
      <4>1. t # to /\ t \in Stations /\ pc[t] = "recv"
        BY <1>1, <2>1, <3>2, Places DEF Others, Asleep
      <4>2. OnLine(t)
        BY <2>1, <4>1, StoryTypes DEF OnLine
      <4>3. QED
        BY <1>1, <4>1, <4>2
    <3>3. 0 + 0 <= 0 + 0 /\ 0 <= ByteTmo + Late + 1
      BY Bounds
    <3>4. QED
      BY <3>1, <3>2, <3>3 DEF Timed
  <2>4. QED
    BY <1>1, <1>2, <1>3, <1>8, <2>2, <2>3 DEF StoryInv, Story, AnsweringStory, AnsweredStory
<1>9. CASE AnsweredStory
  <2>1. \A s \in Stations : tx[s] = 0
    BY <1>9, Places DEF AnsweredStory, Answered, Others
  <2>2. \A t \in Slaves : heard[t] # <<>> => pc[t] = "recv"
    BY <1>9 DEF AnsweredStory, Answered, Others, Asleep
  <2>3. Timed(0, 0)'
    BY <1>4, <1>9, <2>1, <2>2, TimedTick DEF AnsweredStory
  <2>4. pc'[Master] # "idle" /\ heard'[Master] # <<>> /\ tx'[Master] = 0 /\ tx'[to] = 0
    BY <1>1, <1>9, <2>1, StoryTypes DEF AnsweredStory, Answered
  <2>5. Answered'
    BY <1>1, <1>4, <2>4 DEF BInv, Turns, Rest, Asking, Waiting, Answering
  <2>6. QED
    BY <1>1, <1>2, <1>3, <1>9, <2>3, <2>5 DEF StoryInv, Story, AnsweredStory
<1>10. QED
  BY <1>5, <1>6, <1>7, <1>8, <1>9, StoryTypes DEF Story

LEMMA StoryNext ==
    ASSUME StoryInv, AddrChk, ~Forges, [Next]_vars
    PROVE  StoryInv' /\ [Line!Next]_(Line!avars)
<1>1. CASE UNCHANGED vars
  <2>1. BInv'
    BY <1>1, StoryTypes, BNext
  <2>2. UNCHANGED <<pc, since, heard, tx, job, calls, to, okays, acted, hurt>>
    BY <1>1 DEF vars, owner
  <2>3. Past' /\ Story'
    BY <2>2, StoryTypes DEF Past, Story, RestStory, AskingStory, WaitingStory, AnsweringStory,
       AnsweredStory, Timed, Replied, Intact, Line!Done, Rest, Asking, Waiting, Answering, Answered,
       Others, Noticing, Working, Asleep, Mine
  <2>4. UNCHANGED Line!avars
    BY <2>2 DEF Line!avars
  <2>5. QED
    BY <2>1, <2>3, <2>4 DEF StoryInv
<1>2. CASE Next
  BY <1>2, CallStory, ReturnStory, SentStory, TakeStory, AnswerStory, TickStory
     DEF Next, Line!Next
<1>3. QED
  BY <1>1, <1>2

\* The line keeps the promise of AddressedCall: every step of the loops, of the
\* line and of time is a step of the abstract call, or none of it.  A slave that
\* answers a spoilt request for it with an exception costs the call, no other;
\* a forged frame, which is answered by a slave that nobody called, is excluded.
THEOREM BusImplementsCalls == ASSUME AddrChk, ~Forges PROVE Spec => AddressedCallSpec
<1>1. Init => Line!Init
  BY Places DEF Init, Line!Init
<1>2. StoryInv /\ [Next]_vars => StoryInv' /\ [Line!Next]_(Line!avars)
  BY StoryNext
<1>3. QED
  BY <1>1, <1>2, StoryInit, PTL DEF Spec, AddressedCallSpec, Line!Spec

===============================================================================
