--------------------------- MODULE ModbusPortRtt ---------------------------
(***************************************************************************)
(* The RTU functions of modbus_port_rtt.c: a serial device of RT-Thread    *)
(* and the pin that switches the RS-485 driver behind it.  The port keeps  *)
(* nothing of its own between calls: mb_port_rtu_open packs pin and level  *)
(* into the user_data of the device, and mb_port_rtu_write unpacks them.   *)
(* The functions run in the threads of their instances.                    *)
(***************************************************************************)
EXTENDS Integers, FiniteSets

CONSTANTS
    Insts,     \* RTU instances
    Devs,      \* serial devices, found by their names
    Pins,      \* numbers of pins
    Conf,      \* Conf[i] = [dev, pin, lvl]: param->rtu
    Shared,    \* devices that several instances have open at a time
    FrameMax,  \* bound: bytes of a frame
    RxMax      \* bound: bytes that arrive during a flush

Lows == {n \in Nat : n < 65536}    \* the lower half of a user_data with 0xABCD above

NoPin      == -1
PinNumbers == 0 .. 32767

\* A pin goes with one device, with one level, and fits into 15 bits.
ASSUME ConfAssumption ==
    /\ Pins \subseteq PinNumbers /\ Shared \subseteq Devs
    /\ \A i \in Insts :
         Conf[i].dev \in Devs /\ Conf[i].pin \in Pins \cup {NoPin} /\ Conf[i].lvl \in {0, 1}
    /\ \A i, j \in Insts :
         /\ Conf[i].dev = Conf[j].dev =>
              Conf[i].pin = Conf[j].pin /\ Conf[i].lvl = Conf[j].lvl
         /\ Conf[i].pin = Conf[j].pin /\ Conf[i].pin # NoPin => Conf[i].dev = Conf[j].dev
    /\ FrameMax \in Nat \ {0} /\ RxMax \in Nat

VARIABLES
    pc,          \* where the thread of an instance is
    left,        \* bytes of its frame that rt_device_write has not put out
    wpin, wlvl,  \* locals of mb_port_rtu_write
    user_data,   \* of the devices: a number of Lows, or Unset
    level,       \* EXTERNAL: levels of the pins
    rx           \* EXTERNAL: bytes received by the devices, and still to come

locals == <<left, wpin, wlvl>>
vars == <<pc, locals, user_data, level, rx>>

Unset == -1
Not(l) == 1 - l
Dev(i) == Conf[i].dev

\* MUTANT of Low: the pin is not shifted.
LowUnshifted(p, l) == (p % 65536) + l

\* u32 ud = 0xABCD0000 + ((pin << 1) & 0xFFFF) + (lvl ? 1 : 0)
Low(p, l) == ((2 * p) % 65536) + l

PinOf(ud) == IF ud = Unset THEN NoPin ELSE ud \div 2
LvlOf(ud) == IF ud = Unset THEN 0 ELSE ud % 2

Init ==
    /\ pc = [i \in Insts |-> "closed"] /\ left = [i \in Insts |-> 0]
    /\ wpin = [i \in Insts |-> NoPin] /\ wlvl = [i \in Insts |-> 0]
    /\ user_data = [d \in Devs |-> Unset]
    /\ \E l \in {0, 1} : level = [p \in Pins |-> l]
    /\ rx = [d \in Devs |-> [has |-> 0, due |-> 0]]

Goto(i, to) == pc' = [pc EXCEPT ![i] = to]
WritePin(p, l) == level' = IF p >= 0 THEN [level EXCEPT ![p] = l] ELSE level

-----------------------------------------------------------------------------
\* mb_port_rtu_open: the device is found, configured and opened; any of these
\* may fail, and nothing is left of it.  rt_device_open lets in whoever comes,
\* it counts the users of the device: its instances that are not closed.
OpenDevice(i) ==
    /\ pc[i] = "closed"
    /\ Goto(i, IF Conf[i].pin >= 0 THEN "opened" ELSE "open")
    /\ UNCHANGED <<locals, user_data, level, rx>>

SetUserData(i) ==
    /\ pc[i] = "opened"
    /\ user_data' = [user_data EXCEPT ![Dev(i)] = Low(Conf[i].pin, Conf[i].lvl)]
    /\ Goto(i, "labelled") /\ UNCHANGED <<locals, level, rx>>

InitPin(i) ==
    /\ pc[i] = "labelled"
    /\ WritePin(Conf[i].pin, Not(Conf[i].lvl))
    /\ Goto(i, "open") /\ UNCHANGED <<locals, user_data, rx>>

\* mb_port_rtu_close; user_data and the pin stay.
CloseDevice(i) ==
    /\ pc[i] = "open"
    /\ Goto(i, "closed") /\ UNCHANGED <<locals, user_data, level, rx>>

\* mb_port_rtu_write, up to rt_device_write.
DriverOn(i) ==
    LET ud == user_data[Dev(i)] IN
    /\ pc[i] = "open"
    /\ wpin' = [wpin EXCEPT ![i] = PinOf(ud)] /\ wlvl' = [wlvl EXCEPT ![i] = LvlOf(ud)]
    /\ WritePin(PinOf(ud), LvlOf(ud))
    /\ \E n \in 1 .. FrameMax : left' = [left EXCEPT ![i] = n]
    /\ Goto(i, "sending") /\ UNCHANGED <<user_data, rx>>

\* The device has no buffer for sending (it is opened with INT_RX only): each
\* byte is out before the next.
PutByte(i) ==
    /\ pc[i] = "sending" /\ left[i] > 0
    /\ left' = [left EXCEPT ![i] = @ - 1]
    /\ UNCHANGED <<pc, wpin, wlvl, user_data, level, rx>>

\* MUTANT of WriteFails: the error is returned at once.
WriteFailsAtOnce(i) ==
    /\ pc[i] = "sending" /\ left[i] > 0
    /\ left' = [left EXCEPT ![i] = 0] /\ Goto(i, "open")
    /\ UNCHANGED <<wpin, wlvl, user_data, level, rx>>

\* rt_device_write gives up and reports an error.
WriteFails(i) ==
    /\ pc[i] = "sending" /\ left[i] > 0
    /\ left' = [left EXCEPT ![i] = 0]
    /\ UNCHANGED <<pc, wpin, wlvl, user_data, level, rx>>

\* MUTANT of DriverOff: the driver is released when the device has the frame.
DriverOffEarly(i) ==
    /\ pc[i] = "sending"
    /\ WritePin(wpin[i], Not(wlvl[i]))
    /\ IF left[i] = 0 THEN Goto(i, "open") ELSE UNCHANGED pc
    /\ UNCHANGED <<locals, user_data, rx>>

DriverOff(i) ==
    /\ pc[i] = "sending" /\ left[i] = 0
    /\ WritePin(wpin[i], Not(wlvl[i]))
    /\ Goto(i, "open") /\ UNCHANGED <<locals, user_data, rx>>

-----------------------------------------------------------------------------
\* mb_port_rtu_flush: up to RxMax bytes arrive while it reads byte by byte.
FlushBegins(i) ==
    /\ pc[i] = "open" /\ Goto(i, "flushing")
    /\ \E n \in 0 .. RxMax : rx' = [rx EXCEPT ![Dev(i)].due = n]
    /\ UNCHANGED <<locals, user_data, level>>

Arrives(d) ==
    /\ rx[d].due > 0
    /\ rx' = [rx EXCEPT ![d] = [has |-> @.has + 1, due |-> @.due - 1]]
    /\ UNCHANGED <<pc, locals, user_data, level>>

\* MUTANT of FlushReads: the loop does not end on an empty buffer.
FlushReadsOn(i) ==
    /\ pc[i] = "flushing" /\ rx[Dev(i)].has > 0
    /\ rx' = [rx EXCEPT ![Dev(i)].has = @ - 1]
    /\ UNCHANGED <<pc, locals, user_data, level>>

FlushReads(i) ==
    /\ pc[i] = "flushing"
    /\ IF rx[Dev(i)].has > 0
         THEN rx' = [rx EXCEPT ![Dev(i)].has = @ - 1] /\ UNCHANGED pc
         ELSE Goto(i, "open") /\ UNCHANGED rx
    /\ UNCHANGED <<locals, user_data, level>>

\* mb_port_rtu_read takes what is there.
Read(i) ==
    /\ pc[i] = "open" /\ rx[Dev(i)].has > 0
    /\ rx' = [rx EXCEPT ![Dev(i)].has = 0]
    /\ UNCHANGED <<pc, locals, user_data, level>>

\* USAGE, not code: an instance of a device that is not Shared is opened only
\* when no other instance has the device.
MayOpen(i) == Dev(i) \in Shared \/ \A j \in Insts : Dev(j) = Dev(i) => pc[j] = "closed"

Port(i) ==
    \/ MayOpen(i) /\ OpenDevice(i)
    \/ SetUserData(i) \/ InitPin(i) \/ CloseDevice(i)
    \/ DriverOn(i) \/ PutByte(i) \/ WriteFails(i) \/ DriverOff(i)
    \/ FlushBegins(i) \/ FlushReads(i) \/ Read(i)

Next == (\E i \in Insts : Port(i)) \/ (\E d \in Devs : Arrives(d))

Spec == Init /\ [][Next]_vars

\* A thread that is in a function of the port goes on.
Fairness == \A i \in Insts : WF_vars(FlushReads(i))

FairSpec == Spec /\ Fairness

-----------------------------------------------------------------------------
(* Properties.                                                             *)

TypeOK ==
    /\ pc \in [Insts -> {"closed", "opened", "labelled", "open", "sending", "flushing"}]
    /\ left \in [Insts -> 0 .. FrameMax]
    /\ wpin \in [Insts -> Pins \cup {NoPin}] /\ wlvl \in [Insts -> {0, 1}]
    /\ user_data \in [Devs -> Lows \cup {Unset}]
    /\ level \in [Pins -> {0, 1}]
    /\ rx \in [Devs -> [has : Nat, due : Nat]]

Drivers == {i \in Insts : Conf[i].pin # NoPin}

\* Every byte of a frame goes out with the driver switched on, as long as the
\* device is opened by one instance at a time, and whatever the threads of other
\* devices do, the instances that share one included.  (A second open of the
\* same device switches the driver off in the middle of a frame.)
DriverOnWhileSending ==
    \A i \in Drivers :
        pc[i] = "sending" /\ left[i] > 0 /\ Dev(i) \notin Shared
        => level[Conf[i].pin] = Conf[i].lvl

\* A line on which nobody sends is left to the other stations: once a device was
\* opened its driver is off between two calls, after a write that failed, and
\* after it was closed, however many instances open, use and close it at once.
ReleasedAtRest ==
    \A i \in Drivers :
        /\ user_data[Dev(i)] # Unset
        /\ \A j \in Insts : Dev(j) = Dev(i) => pc[j] \notin {"labelled", "sending"}
        => level[Conf[i].pin] = Not(Conf[i].lvl)

\* An instance moves no pin but its own, although a write takes the pin from
\* what the last open of the device left in user_data.
OnlyOwnPin ==
    [][\A p \in Pins : level'[p] # level[p] =>
          \E i \in Insts : Conf[i].pin = p /\ pc'[i] # pc[i]]_vars

\* A flush ends once no more bytes arrive.  (On a Shared device the flush of one
\* instance renews the bytes that arrive during that of the other.)
FlushEnds ==
    \A i \in Insts : Dev(i) \notin Shared => (pc[i] = "flushing" ~> pc[i] = "open")

===============================================================================
