----------------------------- MODULE ModbusBackend -----------------------------
(***************************************************************************)
(* mb_backend_read: how the bytes of a line that knows no message borders  *)
(* become the frames that the parsers see.  The reader polls the device;   *)
(* a frame ends where the line was silent for more than byte_tmo_ms, and   *)
(* the call ends where nothing came for more than ack_tmo_ms.              *)
(*                                                                         *)
(* Time is discrete (milliseconds) and relative: counters hold how long    *)
(* ago something happened, so that no clock value needs a bound.  The      *)
(* reader can be preempted between any two of its steps, for at most Stall.*)
(* A byte is the number of the frame it belongs to.                        *)
(***************************************************************************)
EXTENDS Integers, Sequences

CONSTANTS
    AckTmo, ByteTmo,   \* backend->ack_tmo_ms, backend->byte_tmo_ms
    Poll,              \* mb_port_delay_ms(2) in the loop
    Size,              \* bufsize
    Stall,             \* ENVIRONMENT: longest preemption of the reader
    Gap,               \* ENVIRONMENT: longest pause inside a frame
    Quiet,             \* ENVIRONMENT: shortest silence between frames
    Idle,              \* ENVIRONMENT: longest time the owner is not reading
    FrameMax,          \* bound: bytes of a frame
    MaxFrames,         \* bound: frames of a behaviour
    ClockSteps,        \* adjustments that gettimeofday may be subjected to
    MaxJumps           \* bound: such adjustments in a behaviour

ASSUME TimeAssumption ==
    /\ AckTmo \in Nat /\ ByteTmo \in Nat /\ Poll \in Nat
    /\ Stall \in Nat /\ Gap \in Nat /\ Quiet \in Nat /\ Idle \in Nat
ASSUME SizeAssumption == Size \in Nat \ {0} /\ FrameMax \in Nat \ {0}
                           /\ MaxFrames \in Nat /\ MaxJumps \in Nat
ASSUME ClockAssumption == ClockSteps \subseteq Int

VARIABLES
    pc,       \* outside mb_backend_read, or its next step
    buf,      \* bytes read so far; pos is its length
    since,    \* mb_port_get_ms() - told_ms
    lag,      \* time the reader has spent at pc
    unread,   \* bytes in the device's buffer
    fid,      \* number of the latest frame on the line
    left,     \* bytes of it still to come
    quiet,    \* time since the latest byte arrived, up to Quiet
    real,     \* ghost: time since the call began or last took bytes
    jumps     \* adjustments of the clock so far

reader == <<pc, buf, since, lag, real>>
sender == <<fid, left, quiet>>
vars   == <<reader, unread, sender, jumps>>

Init ==
    /\ pc = "idle" /\ buf = <<>> /\ since = 0 /\ lag = 0 /\ real = 0
    /\ unread = <<>> /\ fid = 0 /\ left = 0 /\ quiet = Quiet
    /\ jumps = 0

Goto(label) == pc' = label /\ lag' = 0

-----------------------------------------------------------------------------
(* The reader.                                                             *)

Begin ==
    /\ pc = "idle"
    /\ buf' = <<>> /\ since' = 0 /\ real' = 0
    /\ Goto("read")
    /\ UNCHANGED <<unread, sender, jumps>>

\* MUTANT of PollData: the device is offered bufsize bytes, not bufsize - pos.
PollDataUnbounded ==
    /\ pc = "read" /\ unread # <<>>
    /\ LET n == IF Len(unread) < Size THEN Len(unread) ELSE Size
       IN /\ buf' = buf \o SubSeq(unread, 1, n)
          /\ unread' = SubSeq(unread, n + 1, Len(unread))
    /\ Goto("stamp") /\ real' = 0
    /\ UNCHANGED <<since, sender, jumps>>

\* ops->read returned len > 0; told_ms is taken in a step of its own.
PollData ==
    /\ pc = "read" /\ unread # <<>>
    /\ LET room == Size - Len(buf)
           n == IF Len(unread) < room THEN Len(unread) ELSE room
       IN /\ buf' = buf \o SubSeq(unread, 1, n)
          /\ unread' = SubSeq(unread, n + 1, Len(unread))
    /\ Goto("stamp") /\ real' = 0
    /\ UNCHANGED <<since, sender, jumps>>

\* MUTANTS of Stamp: told_ms is not taken again when bytes arrive; the loop
\* does not end when the buffer is full.
StampUnbounded ==
    /\ pc = "stamp"
    /\ since' = 0
    /\ Goto("read")
    /\ UNCHANGED <<buf, real, unread, sender, jumps>>
StampForgotten ==
    /\ pc = "stamp"
    /\ Goto(IF Len(buf) < Size THEN "read" ELSE "idle")
    /\ UNCHANGED <<buf, since, real, unread, sender, jumps>>

Stamp ==
    /\ pc = "stamp"
    /\ since' = 0
    /\ Goto(IF Len(buf) < Size THEN "read" ELSE "idle")
    /\ UNCHANGED <<buf, real, unread, sender, jumps>>

\* ops->read returned 0: the timeouts are looked at later, when bytes may
\* have arrived.
PollNothing ==
    /\ pc = "read" /\ unread = <<>>
    /\ Goto("check")
    /\ UNCHANGED <<buf, since, real, unread, sender, jumps>>

\* ops->read failed: -1, and what was collected is given up.  mb_recv then
\* closes the backend, and the bytes that arrived go with it.
PollError ==
    /\ pc = "read"
    /\ Goto("idle") /\ buf' = <<>> /\ unread' = <<>>
    /\ UNCHANGED <<since, real, sender, jumps>>

\* MUTANT of TimedOut: one timeout for both cases.
TimedOutByAckOnly == since > AckTmo

TimedOut == since > (IF buf # <<>> THEN ByteTmo ELSE AckTmo)

Check ==
    /\ pc = "check"
    /\ Goto(IF TimedOut THEN "idle" ELSE "sleep")
    /\ UNCHANGED <<buf, since, real, unread, sender, jumps>>

Wake ==
    /\ pc = "sleep" /\ lag >= Poll
    /\ Goto("read")
    /\ UNCHANGED <<buf, since, real, unread, sender, jumps>>

Reader == PollData \/ Stamp \/ PollNothing \/ Check \/ Wake

-----------------------------------------------------------------------------
(* The sender, time, and the clock.                                        *)

Arrive(f) == unread' = Append(unread, f) /\ quiet' = 0

StartFrame ==
    /\ left = 0 /\ quiet = Quiet /\ fid < MaxFrames
    /\ fid' = fid + 1
    /\ left' \in 0 .. (FrameMax - 1)
    /\ Arrive(fid + 1)
    /\ UNCHANGED <<reader, jumps>>

NextByte ==
    /\ left > 0
    /\ left' = left - 1
    /\ Arrive(fid)
    /\ UNCHANGED <<reader, fid, jumps>>

\* How long the reader may stay at a label.
Patience == IF pc = "idle" THEN Idle ELSE IF pc = "sleep" THEN Poll + Stall ELSE Stall

Tick ==
    /\ lag < Patience
    /\ left > 0 => quiet < Gap
    /\ lag' = lag + 1 /\ since' = since + 1 /\ real' = real + 1
    /\ quiet' = IF quiet < Quiet THEN quiet + 1 ELSE quiet
    /\ UNCHANGED <<pc, buf, unread, fid, left, jumps>>

\* gettimeofday follows the adjustable clock of the system.
Jump ==
    /\ jumps < MaxJumps /\ jumps' = jumps + 1
    /\ \E d \in ClockSteps : since' = since + d
    /\ UNCHANGED <<pc, buf, lag, real, unread, sender>>

Next == Begin \/ Reader \/ PollError \/ StartFrame \/ NextByte \/ Tick \/ Jump

\* The scheduler runs the reader, time passes, and a frame once begun is sent.
Fairness == WF_vars(Reader) /\ WF_vars(Tick) /\ WF_vars(NextByte)

Spec == Init /\ [][Next]_vars /\ Fairness

-----------------------------------------------------------------------------
(* Properties.                                                             *)

Labels == {"idle", "read", "stamp", "check", "sleep"}

TypeOK ==
    /\ pc \in Labels
    /\ buf \in Seq(0 .. fid) /\ Len(buf) <= Size
    /\ unread \in Seq(0 .. fid)
    /\ since \in Int
    /\ lag \in Nat /\ lag <= Patience
    /\ fid \in Nat /\ left \in Nat /\ quiet \in 0 .. Quiet
    /\ real \in Nat /\ jumps \in Nat

\* The frame whose bytes were taken last is not complete in buf.
Unfinished ==
    /\ buf # <<>>
    /\ \/ left > 0 /\ fid = buf[Len(buf)]
       \/ unread # <<>> /\ unread[1] = buf[Len(buf)]

\* A frame whose pauses stay within byte_tmo_ms is never cut in two by the
\* byte timeout, although the timeout is looked at some time after the read
\* that found nothing.  Holds where Gap + Stall <= ByteTmo.
NoFrameCut == [][pc = "check" /\ pc' = "idle" => ~Unfinished]_vars

\* Two frames separated by a long enough silence are never taken as one,
\* provided the owner is not away from the line for longer than that and
\* nobody adjusts the clock.
NoFramesMerged == jumps = 0 => \A i, j \in DOMAIN buf : buf[i] = buf[j]

\* The call does not outlast the timeout by more than a polling round, as long
\* as nobody has adjusted the clock (readme.md: ack_tmo_ms is the reply timeout).
GivesUpInTime ==
    pc # "idle" /\ jumps = 0 => real <= Poll + 4 * Stall + (IF buf = <<>> THEN AckTmo ELSE ByteTmo)

\* Every call returns, even where the bytes keep coming.
CallReturns == pc # "idle" ~> pc = "idle"
=============================================================================
