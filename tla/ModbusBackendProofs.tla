------------------------- MODULE ModbusBackendProofs -------------------------
(***************************************************************************)
(* Proofs about ModbusBackend: its types, and that the byte timeout never  *)
(* cuts a frame.                                                           *)
(***************************************************************************)
EXTENDS ModbusBackend, SequenceTheorems, TLAPS

USE TimeAssumption, SizeAssumption

\* Taking the first n unread bytes.
LEMMA TakeType ==
    ASSUME NEW S, NEW q \in Seq(S), NEW n \in 0 .. Len(q)
    PROVE  /\ SubSeq(q, 1, n) \in Seq(S) /\ Len(SubSeq(q, 1, n)) = n
           /\ SubSeq(q, n + 1, Len(q)) \in Seq(S)
BY SubSeqProperties, LenProperties, ElementOfSeq

LEMMA PollDataType ==
    ASSUME TypeOK, PollData
    PROVE  buf' \in Seq(0 .. fid) /\ Len(buf') <= Size /\ unread' \in Seq(0 .. fid)
<1> DEFINE room == Size - Len(buf)
           n == IF Len(unread) < room THEN Len(unread) ELSE room
           taken == SubSeq(unread, 1, n)
<1>1. /\ buf \in Seq(0 .. fid) /\ unread \in Seq(0 .. fid)
      /\ Len(buf) \in Nat /\ Len(unread) \in Nat /\ Len(buf) <= Size
  BY LenProperties DEF TypeOK
<1>2. n \in 0 .. Len(unread) /\ Len(buf) + n <= Size
  BY <1>1
<1>3. buf' = buf \o taken /\ unread' = SubSeq(unread, n + 1, Len(unread))
  BY DEF PollData
<1> HIDE DEF n
<1>4. /\ taken \in Seq(0 .. fid) /\ Len(taken) = n
      /\ unread' \in Seq(0 .. fid)
  BY <1>1, <1>2, <1>3, TakeType
<1> HIDE DEF taken
<1>5. buf' \in Seq(0 .. fid) /\ Len(buf') = Len(buf) + n
  BY <1>1, <1>3, <1>4, ConcatProperties
<1>6. QED
  BY <1>2, <1>4, <1>5

\* A reader that reaches a label has all of its patience left.
LEMMA GotoType ==
    ASSUME NEW label \in Labels, Goto(label)
    PROVE  pc' \in Labels /\ lag' \in Nat /\ lag' <= Patience'
<1>1. Patience' \in Nat
  BY DEF Patience
<1>2. QED
  BY <1>1 DEF Goto

LEMMA TypeInit == Init => TypeOK
<1> SUFFICES ASSUME Init PROVE TypeOK
  OBVIOUS
<1>1. buf \in Seq(0 .. fid) /\ unread \in Seq(0 .. fid) /\ Len(buf) = 0
  BY EmptySeq DEF Init
<1>2. QED
  BY <1>1 DEF Init, TypeOK, Labels, Patience

LEMMA TypeStep == TypeOK /\ [Next]_vars => TypeOK'
<1> SUFFICES ASSUME TypeOK, [Next]_vars PROVE TypeOK'
  OBVIOUS
<1> USE DEF Labels
<1>1. CASE Begin
  <2>1. buf' \in Seq(0 .. fid) /\ Len(buf') = 0
    BY <1>1, EmptySeq DEF Begin
  <2>2. QED
    BY <1>1, <2>1, GotoType DEF Begin, TypeOK, sender
<1>2. CASE PollData
  BY <1>2, PollDataType, GotoType DEF PollData, TypeOK, sender
<1>3. CASE Stamp
  <2>1. PICK label \in {"read", "idle"} : Goto(label)
    BY <1>3 DEF Stamp
  <2>2. QED
    BY <1>3, <2>1, GotoType DEF Stamp, TypeOK, sender
<1>4. CASE PollNothing \/ Wake
  BY <1>4, GotoType DEF PollNothing, Wake, TypeOK, sender
<1>5. CASE PollError
  <2>1. buf' \in Seq(0 .. fid) /\ Len(buf') = 0
    BY <1>5, EmptySeq DEF PollError
  <2>2. QED
    BY <1>5, <2>1, GotoType DEF PollError, TypeOK, sender
<1>6. CASE Check
  <2>1. PICK label \in {"sleep", "idle"} : Goto(label)
    BY <1>6 DEF Check
  <2>2. QED
    BY <1>6, <2>1, GotoType DEF Check, TypeOK, sender
<1>7. CASE StartFrame
  <2>1. fid \in Nat /\ fid' = fid + 1 /\ left' \in Nat /\ quiet' = 0
    BY <1>7 DEF StartFrame, Arrive, TypeOK
  <2>2. buf \in Seq(0 .. fid') /\ unread \in Seq(0 .. fid') /\ fid' \in 0 .. fid'
    BY <2>1, SeqMonotonic DEF TypeOK
  <2>3. unread' \in Seq(0 .. fid')
    BY <1>7, <2>1, <2>2, AppendProperties DEF StartFrame, Arrive
  <2>4. QED
    BY <1>7, <2>1, <2>2, <2>3 DEF StartFrame, TypeOK, Labels, Patience, reader
<1>8. CASE NextByte
  <2>1. unread' \in Seq(0 .. fid)
    BY <1>8, AppendProperties DEF NextByte, Arrive, TypeOK
  <2>2. QED
    BY <1>8, <2>1 DEF NextByte, Arrive, TypeOK, Labels, Patience, reader
<1>9. CASE Tick
  BY <1>9 DEF Tick, TypeOK, Labels, Patience
<1>10. CASE Jump
  BY <1>10, ClockAssumption DEF Jump, TypeOK, Labels, Patience, sender
<1>11. CASE UNCHANGED vars
  BY <1>11 DEF vars, reader, sender, TypeOK, Patience
<1>12. QED
  BY <1>1, <1>2, <1>3, <1>4, <1>5, <1>6, <1>7, <1>8, <1>9, <1>10, <1>11 DEF Next, Reader

\* The variables keep their types; the reader never overfills the buffer.
THEOREM TypeCorrect == Spec => []TypeOK
BY TypeInit, TypeStep, PTL DEF Spec

-----------------------------------------------------------------------------
(* While a frame is unfinished the silence the reader measures is bounded: *)
(* by the pause of the sender up to the poll that found nothing, and by    *)
(* the preemption of the reader after it.                                  *)

SilenceBounded ==
    /\ left > 0 => quiet <= Gap
    /\ left > 0 /\ unread = <<>> /\ buf # <<>> /\ pc \in {"read", "check", "sleep"}
         => since <= quiet
    /\ pc = "check" /\ Unfinished => since <= Gap + lag

LEMMA SilenceStep ==
    ASSUME Gap <= Quiet, \A d \in ClockSteps : d <= 0,
           TypeOK, SilenceBounded, [Next]_vars
    PROVE  SilenceBounded'
<1>1. CASE Begin
  BY <1>1 DEF Begin, Goto, SilenceBounded, Unfinished, sender
<1>2. CASE PollData
  BY <1>2 DEF PollData, Goto, SilenceBounded, sender
<1>3. CASE Stamp
  BY <1>3 DEF Stamp, Goto, SilenceBounded, TypeOK, sender
<1>4. CASE PollNothing
  BY <1>4 DEF PollNothing, Goto, SilenceBounded, Unfinished, TypeOK, sender
<1>5. CASE PollError
  BY <1>5 DEF PollError, Goto, SilenceBounded, Unfinished, sender
<1>6. CASE Check \/ Wake
  BY <1>6 DEF Check, Wake, Goto, SilenceBounded, Unfinished, sender
<1>7. CASE StartFrame
  <2>1. unread' # <<>> /\ unread' = Append(unread, fid + 1) /\ quiet' = 0 /\ fid' = fid + 1
    BY <1>7, AppendProperties DEF StartFrame, Arrive, TypeOK
  <2>2. Unfinished' => Unfinished
    <3>1. SUFFICES ASSUME Unfinished' PROVE unread # <<>> /\ unread[1] = buf[Len(buf)] /\ buf # <<>>
      BY DEF Unfinished
    <3>2. buf' = buf /\ buf # <<>> /\ Len(buf) \in 1 .. Len(buf) /\ buf[Len(buf)] <= fid
      BY <1>7, <3>1, EmptySeq, LenProperties, ElementOfSeq
         DEF StartFrame, Unfinished, TypeOK, reader
    <3>3. unread'[1] = buf[Len(buf)]
      BY <2>1, <3>1, <3>2 DEF Unfinished, TypeOK
    <3>4. CASE unread = <<>>
      BY <2>1, <3>2, <3>3, <3>4 DEF TypeOK
    <3>5. CASE unread # <<>>
      <4>1. unread'[1] = unread[1]
        BY <2>1, <3>5, AppendProperties, EmptySeq, LenProperties DEF TypeOK
      <4>2. QED
        BY <3>2, <3>3, <3>5, <4>1
    <3>6. QED
      BY <3>4, <3>5
  <2>3. QED
    BY <1>7, <2>1, <2>2 DEF StartFrame, SilenceBounded, reader
<1>8. CASE NextByte
  <2>1. unread' # <<>> /\ unread' = Append(unread, fid) /\ quiet' = 0 /\ left > 0
        /\ UNCHANGED <<fid, reader>>
    BY <1>8, AppendProperties DEF NextByte, Arrive, TypeOK
  <2>2. Unfinished' => Unfinished
    <3>1. CASE unread = <<>>
      BY <2>1, <3>1 DEF Unfinished, TypeOK, reader
    <3>2. CASE unread # <<>>
      <4>1. unread'[1] = unread[1]
        BY <2>1, <3>2, AppendProperties, EmptySeq, LenProperties DEF TypeOK
      <4>2. QED
        BY <2>1, <3>2, <4>1 DEF Unfinished, reader
    <3>3. QED
      BY <3>1, <3>2
  <2>3. QED
    BY <2>1, <2>2 DEF SilenceBounded, reader
<1>9. CASE Tick
  <2>1. Unfinished' <=> Unfinished
    BY <1>9 DEF Tick, Unfinished
  <2>2. QED
    BY <1>9, <2>1 DEF Tick, SilenceBounded, TypeOK
<1>10. CASE Jump
  <2>1. since' <= since /\ since' \in Int /\ UNCHANGED <<pc, buf, lag, unread, sender>>
    BY <1>10, ClockAssumption DEF Jump, TypeOK
  <2>2. Unfinished' <=> Unfinished
    BY <2>1 DEF Unfinished, sender
  <2>3. QED
    BY <2>1, <2>2 DEF SilenceBounded, TypeOK, sender
<1>11. CASE UNCHANGED vars
  BY <1>11 DEF vars, reader, sender, SilenceBounded, Unfinished
<1>12. QED
  BY <1>1, <1>2, <1>3, <1>4, <1>5, <1>6, <1>7, <1>8, <1>9, <1>10, <1>11 DEF Next, Reader

\* However the reader is preempted, a frame whose pauses are at most Gap is
\* not cut by the byte timeout if Gap and one preemption fit into it.
THEOREM FramesAreNotCut ==
    ASSUME Gap + Stall <= ByteTmo, Gap <= Quiet, \A d \in ClockSteps : d <= 0
    PROVE  Spec => NoFrameCut
<1>1. Init => SilenceBounded
  BY DEF Init, SilenceBounded
<1>2. TypeOK /\ SilenceBounded /\ [Next]_vars => SilenceBounded'
  BY SilenceStep
<1>3. TypeOK /\ SilenceBounded /\ [Next]_vars
        => (pc = "check" /\ pc' = "idle" => ~Unfinished)
  <2> SUFFICES ASSUME TypeOK, SilenceBounded, [Next]_vars, pc = "check", pc' = "idle",
                      Unfinished
               PROVE  FALSE
    OBVIOUS
  <2>1. since <= Gap + lag /\ lag <= Stall /\ lag \in Nat /\ since \in Int
    BY DEF SilenceBounded, TypeOK, Patience
  <2>2. Check
    BY DEF Next, Reader, Begin, PollData, Stamp, PollNothing, PollError, Wake, StartFrame,
          NextByte, Tick, Jump, vars, reader, Goto
  <2>3. since > ByteTmo
    BY <2>2 DEF Check, Goto, TimedOut, Unfinished
  <2>4. QED
    BY <2>1, <2>3
<1>4. QED
  BY <1>1, <1>2, <1>3, TypeInit, TypeStep, PTL DEF Spec, NoFrameCut

-----------------------------------------------------------------------------
(* The time a call takes once the line is silent.                          *)

Tmo == IF buf = <<>> THEN AckTmo ELSE ByteTmo

\* What the reader has measured when it is at a label, and how far the time
\* that really passed is ahead of it: told_ms is taken after the bytes.
Measured ==
    /\ pc = "stamp" => real <= lag
    /\ pc \in {"read", "check", "sleep"} => real <= since + Stall
    /\ pc = "read"  => since <= Tmo + Poll + Stall + lag
    /\ pc = "check" => since <= Tmo + Poll + 2 * Stall + lag
    /\ pc = "sleep" => since <= Tmo + lag

LEMMA MeasuredStep ==
    ASSUME TypeOK, Measured, [Next]_vars, ~Jump
    PROVE  Measured'
<1>1. Tmo \in Nat /\ Tmo' \in Nat
  BY DEF Tmo
<1>2. CASE Begin \/ PollError
  BY <1>1, <1>2 DEF Begin, PollError, Goto, Measured, TypeOK
<1>3. CASE PollData
  BY <1>3 DEF PollData, Goto, Measured
<1>4. CASE Stamp
  <2>1. real' <= Stall /\ since' = 0 /\ lag' = 0 /\ pc' \in {"read", "idle"}
    BY <1>4 DEF Stamp, Goto, Measured, Patience, TypeOK
  <2>2. real' \in Nat
    BY <1>4 DEF Stamp, TypeOK
  <2>3. real' <= since' + Stall
    BY <2>1, <2>2
  <2>4. since' <= Tmo' + Poll + Stall + lag'
    <3>1. \A t \in Nat : 0 <= t + Poll + Stall + 0
      OBVIOUS
    <3>2. QED
      BY <1>1, <2>1, <3>1
  <2>5. QED
    BY <2>1, <2>3, <2>4 DEF Measured
<1>5. CASE PollNothing \/ Check \/ Wake
  <2>1. Tmo' = Tmo
    BY <1>5 DEF PollNothing, Check, Wake, Tmo
  <2>2. CASE PollNothing
    BY <1>1, <2>1, <2>2 DEF PollNothing, Goto, Measured, Patience, TypeOK
  <2>3. CASE Check
    <3>1. ~TimedOut => since <= Tmo
      BY DEF TimedOut, Tmo, TypeOK
    <3>2. QED
      BY <1>1, <2>1, <2>3, <3>1 DEF Check, Goto, Measured, TypeOK
  <2>4. CASE Wake
    BY <1>1, <2>1, <2>4 DEF Wake, Goto, Measured, Patience, TypeOK
  <2>5. QED
    BY <1>5, <2>2, <2>3, <2>4
<1>6. CASE StartFrame \/ NextByte \/ UNCHANGED vars
  BY <1>6 DEF StartFrame, NextByte, vars, reader, Measured, Tmo
<1>7. CASE Tick
  <2>1. Tmo' = Tmo
    BY <1>7 DEF Tick, Tmo
  <2>2. QED
    BY <1>1, <1>7, <2>1 DEF Tick, Measured, TypeOK
<1>8. QED
  BY <1>2, <1>3, <1>4, <1>5, <1>6, <1>7 DEF Next, Reader

\* An adjustment is counted for good.
LEMMA JumpsCount ==
    ASSUME TypeOK, [Next]_vars, jumps' = 0
    PROVE  jumps = 0 /\ ~Jump
<1>1. ~Jump
  BY DEF Jump, TypeOK
<1>2. QED
  BY <1>1 DEF Next, Reader, Begin, PollData, Stamp, PollNothing, PollError, Check, Wake,
        StartFrame, NextByte, Tick, vars, reader, sender

\* Until the clock is adjusted, a call outlasts the timeout that ends it by one
\* polling round and the preemptions of that round at most.
THEOREM CallsGiveUpInTime == Spec => []GivesUpInTime
<1> DEFINE Steady == jumps = 0 => Measured
<1>1. Init => Steady
  BY DEF Init, Measured
<1>2. TypeOK /\ Steady /\ [Next]_vars => Steady'
  BY MeasuredStep, JumpsCount
<1>3. TypeOK /\ Steady => GivesUpInTime
  BY DEF TypeOK, Measured, GivesUpInTime, Patience, Tmo, Labels
<1> HIDE DEF Steady
<1>4. QED
  BY <1>1, <1>2, <1>3, TypeInit, TypeStep, PTL DEF Spec

-----------------------------------------------------------------------------
(* The bytes of one call are of one frame: whatever has arrived is taken   *)
(* before the sender, silent for Quiet, begins its next frame.             *)

\* The longest time from the arrival of a byte to the read that takes it,
\* less the preemption at that read.
MaxWait == IF Idle > Stall + Poll THEN Stall + Idle ELSE 2 * Stall + Poll

\* The call may still take bytes.
Collecting == pc \in {"read", "stamp", "sleep"} \/ (pc = "check" /\ ~TimedOut)

OneFrame ==
    /\ \A i \in 1 .. Len(unread) : unread[i] = fid
    /\ \A i, j \in 1 .. Len(buf) : buf[i] = buf[j]
    /\ Collecting => \A i \in 1 .. Len(buf) : buf[i] = fid
    /\ Len(unread) + left <= FrameMax
    /\ Collecting => Len(buf) + Len(unread) + left <= FrameMax

TakenSoon ==
    /\ unread # <<>> =>
         /\ pc \in {"stamp", "check"} => quiet <= lag
         /\ pc \in {"idle", "sleep"} => quiet <= Stall + lag
         /\ pc = "read" => quiet <= MaxWait + lag
    /\ pc = "stamp" => quiet <= MaxWait + Stall + lag
    /\ pc \in {"read", "check", "sleep"} /\ buf # <<>>
         => quiet <= since + MaxWait + 2 * Stall

QuietAssumption == /\ FrameMax <= Size
                   /\ Quiet > ByteTmo + Poll + 4 * Stall + MaxWait

LEMMA MaxWaitBounds ==
    /\ MaxWait \in Nat
    /\ MaxWait >= Stall + Idle /\ MaxWait >= 2 * Stall + Poll
BY DEF MaxWait

\* So the line is not silent for Quiet while a byte waits or a call collects.
LEMMA NothingLeftWhenQuiet ==
    ASSUME QuietAssumption, TypeOK, Measured, TakenSoon, quiet = Quiet
    PROVE  unread = <<>> /\ (Collecting => buf = <<>>)
<1> USE MaxWaitBounds
<1>1. unread = <<>>
  BY DEF QuietAssumption, TypeOK, TakenSoon, Patience, Labels
<1>2. ASSUME Collecting, buf # <<>> PROVE FALSE
  <2>1. pc # "stamp"
    BY DEF QuietAssumption, TypeOK, TakenSoon, Patience
  <2>2. quiet <= since + MaxWait + 2 * Stall
    BY <1>2, <2>1 DEF Collecting, TakenSoon
  <2>3. since <= ByteTmo + Poll + 2 * Stall
    BY <1>2, <2>1 DEF Collecting, Measured, Tmo, TimedOut, TypeOK, Patience
  <2>4. QED
    BY <2>2, <2>3 DEF QuietAssumption, TypeOK
<1>3. QED
  BY <1>1, <1>2

\* If all that has arrived fits the buffer, a read takes it all.
LEMMA AllTaken ==
    ASSUME TypeOK, PollData, Len(buf) + Len(unread) <= Size
    PROVE  buf' = buf \o unread /\ unread' = <<>>
<1> DEFINE n == IF Len(unread) < Size - Len(buf) THEN Len(unread) ELSE Size - Len(buf)
<1>1. /\ Len(buf) \in Nat /\ Len(unread) \in Nat /\ unread \in Seq(0 .. fid)
  BY LenProperties DEF TypeOK
<1>2. buf' = buf \o SubSeq(unread, 1, n) /\ unread' = SubSeq(unread, n + 1, Len(unread))
  BY DEF PollData
<1>3. n = Len(unread)
  BY <1>1
<1> HIDE DEF n
<1>4. /\ buf' = buf \o SubSeq(unread, 1, Len(unread))
      /\ unread' = SubSeq(unread, Len(unread) + 1, Len(unread))
  BY <1>2, <1>3
<1>5. SubSeq(unread, 1, Len(unread)) = unread
  BY <1>1
<1>6. Len(unread') = 0 /\ unread' \in Seq(0 .. fid)
  BY <1>1, <1>4, TakeType
<1>7. QED
  BY <1>4, <1>5, <1>6, EmptySeq

LEMMA TakenSoonStep ==
    ASSUME QuietAssumption, TypeOK, Measured, OneFrame, TakenSoon, [Next]_vars, ~Jump
    PROVE  TakenSoon'
<1> USE MaxWaitBounds
<1>1. CASE Begin
  BY <1>1 DEF Begin, Goto, TakenSoon, TypeOK, Patience, sender
<1>2. CASE PollData
  <2>1. lag <= Stall /\ quiet <= MaxWait + lag
    BY <1>2 DEF PollData, TakenSoon, TypeOK, Patience
  <2>2. unread' = <<>>
    <3>1. Len(buf) + Len(unread) <= Size
      BY <1>2, LenProperties DEF PollData, OneFrame, Collecting, QuietAssumption, TypeOK
    <3>2. QED
      BY <1>2, <3>1, AllTaken
  <2>3. pc' = "stamp" /\ lag' = 0 /\ quiet' = quiet
    BY <1>2 DEF PollData, Goto, sender
  <2>4. quiet <= MaxWait + Stall + 0
    BY <2>1 DEF TypeOK
  <2>5. QED
    BY <2>2, <2>3, <2>4 DEF TakenSoon
<1>3. CASE Stamp
  <2>1. lag <= Stall /\ quiet <= MaxWait + Stall + lag /\ lag \in Nat
    BY <1>3 DEF Stamp, TakenSoon, TypeOK, Patience
  <2>2. pc' \in {"read", "idle"} /\ lag' = 0 /\ since' = 0 /\ UNCHANGED <<quiet, unread>>
    BY <1>3 DEF Stamp, Goto, sender
  <2>3. unread # <<>> => quiet <= Stall
    BY <1>3, <2>1 DEF Stamp, TakenSoon, TypeOK
  <2>4. QED
    BY <2>1, <2>2, <2>3 DEF TakenSoon, TypeOK
<1>4. CASE PollNothing
  BY <1>4 DEF PollNothing, Goto, TakenSoon, sender
<1>5. CASE PollError
  BY <1>5 DEF PollError, Goto, TakenSoon, sender
<1>6. CASE Check
  BY <1>6 DEF Check, Goto, TakenSoon, TypeOK, Patience, sender
<1>7. CASE Wake
  BY <1>7 DEF Wake, Goto, TakenSoon, TypeOK, Patience, sender
<1>8. CASE StartFrame \/ NextByte
  <2>1. quiet' = 0 /\ UNCHANGED reader
    BY <1>8 DEF StartFrame, NextByte, Arrive
  <2>2. pc \in {"read", "check", "sleep"} /\ buf # <<>> => since >= -Stall
    BY DEF Measured, TypeOK
  <2>3. QED
    BY <2>1, <2>2 DEF TakenSoon, TypeOK, reader
<1>9. CASE Tick
  BY <1>9 DEF Tick, TakenSoon, TypeOK
<1>10. CASE UNCHANGED vars
  BY <1>10 DEF vars, reader, sender, TakenSoon
<1>11. QED
  BY <1>1, <1>2, <1>3, <1>4, <1>5, <1>6, <1>7, <1>8, <1>9, <1>10 DEF Next, Reader

LEMMA OneFrameStep ==
    ASSUME QuietAssumption, TypeOK, Measured, OneFrame, TakenSoon, [Next]_vars, ~Jump
    PROVE  OneFrame'
<1>0. /\ Len(buf) \in Nat /\ Len(unread) \in Nat
      /\ buf \in Seq(0 .. fid) /\ unread \in Seq(0 .. fid)
      /\ left \in Nat /\ fid \in Nat
  BY LenProperties DEF TypeOK
<1>1. CASE Begin
  <2>1. buf' = <<>> /\ Len(buf') = 0
    BY <1>1, EmptySeq DEF Begin
  <2>2. QED
    BY <1>0, <1>1, <2>1 DEF Begin, OneFrame, sender
<1>2. CASE PollData
  <2>1. Len(buf) + Len(unread) + left <= FrameMax /\ FrameMax <= Size
    BY <1>2 DEF PollData, OneFrame, Collecting, QuietAssumption
  <2>2. buf' = buf \o unread /\ unread' = <<>>
    BY <1>0, <1>2, <2>1, AllTaken
  <2>4. Len(unread') = 0
    BY <2>2, EmptySeq
  <2>5. /\ Len(buf') = Len(buf) + Len(unread)
        /\ \A i \in 1 .. Len(buf') :
              buf'[i] = IF i <= Len(buf) THEN buf[i] ELSE unread[i - Len(buf)]
    BY <1>0, <2>2
  <2>6. \A i \in 1 .. Len(buf') : buf'[i] = fid
    BY <1>0, <1>2, <2>5 DEF PollData, OneFrame, Collecting
  <2>7. fid' = fid /\ left' = left
    BY <1>2 DEF PollData, sender
  <2>8. QED
    BY <1>0, <2>1, <2>4, <2>5, <2>6, <2>7 DEF OneFrame
<1>3. CASE Stamp \/ PollNothing \/ Check \/ Wake
  <2>1. Collecting' => Collecting
    BY <1>3 DEF Stamp, PollNothing, Check, Wake, Goto, Collecting, TimedOut
  <2>2. QED
    BY <1>3, <2>1 DEF Stamp, PollNothing, Check, Wake, OneFrame, sender
<1>4. CASE PollError
  <2>1. /\ buf' = <<>> /\ Len(buf') = 0 /\ Len(unread') = 0 /\ pc' = "idle"
        /\ left' = left /\ fid' = fid
    BY <1>4, EmptySeq DEF PollError, Goto, sender
  <2>2. QED
    BY <1>0, <2>1 DEF OneFrame, Collecting
<1>5. CASE StartFrame
  <2>1. unread = <<>> /\ (Collecting => buf = <<>>)
    BY <1>5, NothingLeftWhenQuiet DEF StartFrame
  <2>2. /\ unread' = <<fid'>> /\ left' \in 0 .. (FrameMax - 1) /\ UNCHANGED reader
    BY <1>5, <2>1 DEF StartFrame, Arrive
  <2>3. Len(unread') = 1 /\ unread'[1] = fid'
    BY <2>2
  <2>4. Collecting' => Collecting /\ Len(buf') = 0
    BY <2>1, <2>2, EmptySeq DEF Collecting, TimedOut, reader
  <2>5. Len(unread') + left' <= FrameMax /\ left' \in Int
    <3>1. \A l \in 0 .. (FrameMax - 1) : 1 + l <= FrameMax /\ l \in Int
      OBVIOUS
    <3>2. QED
      BY <2>2, <2>3, <3>1
  <2>6. \A i \in 1 .. Len(unread') : unread'[i] = fid'
    BY <2>3
  <2>7. \A i, j \in 1 .. Len(buf') : buf'[i] = buf'[j]
    BY <2>2 DEF OneFrame, reader
  <2>8. Collecting' => Len(buf') + Len(unread') + left' <= FrameMax
    <3>1. \A l \in 0 .. (FrameMax - 1) : 0 + 1 + l <= FrameMax
      OBVIOUS
    <3>2. QED
      BY <2>2, <2>3, <2>4, <3>1
  <2>9. Collecting' => \A i \in 1 .. Len(buf') : buf'[i] = fid'
    BY <2>4
  <2>10. QED
    BY <2>5, <2>6, <2>7, <2>8, <2>9 DEF OneFrame
<1>6. CASE NextByte
  <2>1. /\ unread' = Append(unread, fid) /\ left' = left - 1 /\ left > 0
        /\ fid' = fid /\ UNCHANGED reader
    BY <1>6 DEF NextByte, Arrive
  <2>2. /\ Len(unread') = Len(unread) + 1
        /\ \A i \in 1 .. Len(unread) : unread'[i] = unread[i]
        /\ unread'[Len(unread) + 1] = fid
    BY <1>0, <2>1
  <2>3. \A i \in 1 .. Len(unread') : unread'[i] = fid'
    BY <1>0, <2>1, <2>2 DEF OneFrame
  <2>4. Collecting' = Collecting
    BY <2>1 DEF Collecting, TimedOut, reader
  <2>5. QED
    BY <1>0, <2>1, <2>2, <2>3, <2>4 DEF OneFrame, reader
<1>7. CASE Tick
  <2>1. Collecting' => Collecting
    BY <1>7 DEF Tick, Collecting, TimedOut, TypeOK
  <2>2. QED
    BY <1>7, <2>1 DEF Tick, OneFrame
<1>8. CASE UNCHANGED vars
  <2>1. Collecting' = Collecting
    BY <1>8 DEF vars, reader, Collecting, TimedOut
  <2>2. QED
    BY <1>8, <2>1 DEF vars, reader, sender, OneFrame
<1>9. QED
  BY <1>1, <1>2, <1>3, <1>4, <1>5, <1>6, <1>7, <1>8 DEF Next, Reader

\* Until the clock is adjusted, a silence between frames that outlasts the byte
\* timeout, a polling period, four preemptions and the longest wait keeps them
\* apart, provided a frame fits the buffer.
THEOREM FramesAreNotMerged ==
    ASSUME QuietAssumption
    PROVE  Spec => []NoFramesMerged
<1> DEFINE Steady == jumps = 0 => Measured /\ OneFrame /\ TakenSoon
<1>1. Init => Steady
  <2> SUFFICES ASSUME Init PROVE Measured /\ OneFrame /\ TakenSoon
    OBVIOUS
  <2>1. Len(buf) = 0 /\ Len(unread) = 0
    BY EmptySeq DEF Init
  <2>2. OneFrame
    BY <2>1 DEF Init, OneFrame, Collecting
  <2>3. QED
    BY <2>2 DEF Init, Measured, TakenSoon
<1>2. TypeOK /\ Steady /\ [Next]_vars => Steady'
  BY MeasuredStep, OneFrameStep, TakenSoonStep, JumpsCount
<1>3. TypeOK /\ Steady => NoFramesMerged
  <2>1. TypeOK => DOMAIN buf = 1 .. Len(buf)
    BY LenProperties DEF TypeOK
  <2>2. QED
    BY <2>1 DEF NoFramesMerged, OneFrame
<1> HIDE DEF Steady
<1>4. QED
  BY <1>1, <1>2, <1>3, TypeInit, TypeStep, PTL DEF Spec

=============================================================================
