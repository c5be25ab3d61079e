# qmodbus: a TLA+ verification development

qmodbus is a small C library for modbus masters and slaves over serial lines (RTU) and TCP. This
directory holds TLA+ models of it, the TLC configurations that check them, and proofs that TLAPS
checks. Paths such as `modbus_master.c:89` are files of the repository's `src/` directory, others are
given in full from its root.

* [1 The system](#1-the-system)
* [2 The modules and the code](#2-the-modules-and-the-code)
* [3 What the runs check](#3-what-the-runs-check)
* [4 What is proved](#4-what-is-proved)
* [5 Where code and documentation disagree](#5-where-code-and-documentation-disagree)
* [6 What is not modelled](#6-what-is-not-modelled)
* [7 Plan](#7-plan)

To repeat a run: `tlc -config MC_backend.cfg MCBackend`, with the module PROJECT.json lists for it.
To repeat the proofs: `tlapm ModbusMasterProofs.tla`, and likewise the other seven `*Proofs` modules.

## 1 The system

| part | state it keeps | operations | correct if |
|---|---|---|---|
| master (`modbus_master.c`) | `saddr`, `tid`, `buf`, `datas` of its `mb_inst_t` | `mb_read_bits` ... `mb_write_and_read_regs`, `mb_read_req`, `mb_write_req` | a call returns what the slave did about that very call, or 0 |
| slave (`modbus_slave.c`, `modbus_port_slave.c`) | `saddr`, `cb`, `buf`, `datas`; the registers belong to the application | `mb_slave_fsm`, one handler per function code | an answer means the request was carried out, each request is answered once, in order, and nothing but a request for this slave has an effect |
| instance (`modbus.c`) | `backend`, `prot`, `saddr`, `tid` | `mb_create`, `mb_destory`, `mb_connect`, `mb_disconn`, `mb_recv`, `mb_send`, `mb_flush`, `mb_set_*` | a handle denotes the file opened for it; errors close |
| backend (`modbus_backend.c`) | `hinst`, `ack_tmo_ms`, `byte_tmo_ms` | open, close, read, write, flush | a read returns one whole frame, in bounded time |
| codec (`modbus_pdu.c`, `modbus_rtu.c`, `modbus_tcp.c`, `modbus_cvt.c`, `modbus_crc.c`) | none | make and parse of pdus and frames | parse inverts make and rejects what was cut or damaged |
| ports (`modbus_port_linux.c`, `modbus_port_rtt.c`) | the device or socket; pin and level of the RS-485 driver in the device's `user_data` | open, close, read, write, flush, clock, delay | an open that fails leaves nothing open; the driver is on exactly while a frame goes out |
| server sample (`sample/mb_sample_tcp_srv_slave.c`) | listener, one thread and one SOCK instance per connection, one register array | accept loop, connection threads | connections do not disturb each other |
| serial samples (`sample/mb_sample_rtu_master.c`, `mb_sample_rtu_slave.c`) | one thread and one RTU instance each, on one line | a call each second; `mb_slave_fsm` in a loop | one station talks at a time, and it is the one that was addressed |

**How they interact.** An application thread owns an instance and calls the master functions, or
`mb_slave_fsm` in a loop. Both make a frame in `buf`, hand it to the backend's `write`, and call the
backend's `read`, which polls the port until the line has been silent for `byte_tmo_ms` (or nothing
came for `ack_tmo_ms`). What was read is parsed as one frame; bytes after the first frame are
forgotten. The slave calls the application's callbacks, one register at a time. There is no lock
anywhere: the callbacks of several connection threads run on the same registers.

**What is hard.** Replies and calls are paired by nothing but time, unless MB_USING_MBAP_CHK is
defined: a late reply, a lost one or a cut one shifts the pairing. Frames are cut out of a byte stream
by timeouts that a preempted thread measures with an adjustable clock. A request is a sequence of
callbacks between which other threads run and each of which may fail. Parsers leave fields unassigned
and report failure as 0 or -1, which callers test differently. Frames say themselves how long they are,
also after noise. Descriptors are pointers, 0 included,
and the system reuses their numbers. On a serial line nobody listens before it talks, everybody
hears the replies of the others, and some of them look like requests. PROJECT.json lists these hazards with their lines and the
properties that cover them.

## 2 The modules and the code

```
RemoteCall     <-- implements --  ModbusMaster    <- EXTENDS -  ModbusMasterProofs  <- EXTENDS -  ModbusCallProofs
AddressedCall  <-- implements --  ModbusBus       <- EXTENDS -  ModbusBusProofs
RegisterServer <-- implements --  ModbusSlave     <- EXTENDS -  ModbusSlaveProofs
      both EXTEND ModbusRequest   ModbusSlave, ModbusSamples  <- EXTENDS -  MCSlave
                                  ModbusBackend   <- EXTENDS -  ModbusBackendProofs, MCBackend
                 ModbusCodec  <-  ModbusWire      <- EXTENDS -  ModbusWireProofs, MCWire
                                  ModbusInstance  <- EXTENDS -  ModbusInstanceProofs
                                  ModbusPortRtt   <- EXTENDS -  ModbusPortRttProofs, MCRtt
```

**RemoteCall** is the promise of the comments in `inc/modbus.h:75-99` with the line left out: a call
ends positive only if the slave carried it out, negative only if it refused it, otherwise with 0. The
slave may act on a call at any moment after it began, also when the caller has given up on it.

**ModbusMaster** is one instance and its line. A call is `StartCall` (the request is assembled, the tid
advanced), one of `SendOk`, `SendPart` (a short write: the call returns 0) and `SendErr` (the backend
is closed), any number of `RecvPiece` and `RecvPart` (`mb_backend_read` collecting), and one of
`RecvTimeout`, `RecvErr` and `RecvDone` (parse, header checks, result). `Connect`, `Disconnect`,
`Flush` and `SetSlave` are the application's other calls. The twelve request functions, each in an
RTU and a TCP version, differ only in how they make their result from the parsed frame: the operators
`MbReadBits` ... `MbWriteAndReadRegs`. The compile-time choices are the constants `AddrChk` and
`MbapChk`, the framing `Prot`.

* A reply is abstracted to the request it answers and whether it is an exception. `req.n`, the number
  of the call, is a ghost; `req.tid` is what the code has.
* A parse yields a `frm`: the header fields the checks look at, and where the pdu came from. A parse
  that gave up leaves the pdu of the request in the union (`got = "own"`), and
  `mbap.dlen` undefined (`UninitDlen`); a frame cut after its header leaves part of it
  (`HeaderOnly`); a frame parsed from its middle gives anything that is not, by chance, the expected
  header (`Middle`).
* The peer (`PeerServe`) is a slave as ModbusSlave describes it: it answers the first of the requests
  it has read at once and forgets the others; after a fragment it may answer under the fragment's
  header. `Disturb` is the serial line.
* `NoneTooOld` is an assumption about the environment: no frame stays under way for 2^16 calls.

**ModbusBackend** is `mb_backend_read`, one action for each place where the thread can be preempted:
the read (`PollData`, `PollNothing`, `PollError`), the time stamp after it (`Stamp`), the look at the
timeouts (`Check`), the delay (`Wake`). Time is in steps of 1 ms; the variables hold how long ago something
happened, so that no clock value needs a bound: `since` is `mb_port_get_ms() - told_ms`, `real` is the
same by a clock that nobody adjusts. `Tick` may not pass while the reader has been at a label for
longer than `Stall`, nor while a frame has paused for longer than `Gap`. `Jump` adjusts the clock of
`gettimeofday`. ModbusMaster abstracts this module by RecvPiece, RecvPart and RecvDone.

**ModbusRequest**, **RegisterServer**, **ModbusSlave**. ModbusRequest is the vocabulary of requests: a register
value is the set of its 1 bits, so that masks are sets as well; `WellFormed` says which fields a kind of pdu has. RegisterServer is a server that takes each request in
one step: all of it, or a prefix of its writes and an exception. ModbusSlave is the code: `Recv` is
`mb_slave_fsm` up to the first callback (parse, address check, callback table, value check of a
single coil: `Deal`), `ReadCb` and `WriteCb` are one callback each, in the order `Plan` gives (a mask write reads, then
writes; a write-and-read writes, then reads), `Abort` is the early return on a negative result,
`ReplyOk` and `ReplyErr` the send. A write of which the frame holds too few values takes what else
is in the buffer (`ValuesToWrite`). Each connection has a thread; `mem` is shared by all. **ModbusSamples**
has the register tables of the samples and of the weak default callbacks, from which `Bank` and `Callbacks`
are made; MCSlave has the requests of the runs. For TCP framing `intact` says that the protocol identifier is right.

**ModbusInstance** is the life of instances and descriptors: `hinst` with NULL = 0, the numbers the system
hands out (always the lowest free one), the opening of a device in steps, each of which may fail
(`PortOpen`, `PortFails`, `PortOpened`: the descriptor is in a local variable, `opening`, meanwhile), and the
listener of the server sample, from its own socket to the hand-over of connections. It is where
the result of `close()` matters.

**ModbusCodec** and **ModbusWire**. ModbusCodec is the pure part of the library as operators on sequences of bytes:
the conversions, the table-driven CRC, make and parse. The eight kinds of pdu differ in a number of 16-bit fields and
in whether a length byte and data follow: that is their `Layout`, and `ReqLayout` and `RspLayout` are the four
switches over the function code. `PduParse` returns what `mb_pdu_parse` returns: the length the pdu
claims, which may be more than there is, 0, or -1. ModbusWire sends one message through it: made, cut, disturbed, joined
with the next frame or spliced with it, and parsed. What a C parser assigns before it fails is in ModbusMaster.

**ModbusPortRtt** is the RTU half of `modbus_port_rtt.c` with the threads of several instances: open, close, read,
write and flush, and the driver pin whose number and level `open` packs into the device's `user_data` and `write` unpacks.
`PutByte` is the inside of `rt_device_write`, which sends byte by byte. `rt_device_open` lets in whoever comes, and so does `OpenDevice`; which devices
several instances have open at a time is the constant `Shared`, and `MayOpen`, a rule for the users of the port and no code of it, keeps the others to one instance at a time.

**AddressedCall** and **ModbusBus**. AddressedCall is a line of which a caller need know nothing: the slave that was
addressed, and no other, acts on a call, once, while the call lasts. ModbusBus composes the loop of the master sample
with the loops of several slaves over one line. A frame is one item, taken from the line by everybody else when its first byte
comes and whole when `tx` is 0; `since` is the clock of `mb_backend_read`, which does not run while bytes come, and is noticed
up to `Late` after it expired. It uses what ModbusBackend shows in detail (a frame is neither cut nor merged when the times allow) and what
ModbusWire shows of a disturbed frame: the parser returns 0, and nobody acts on it, or -1, when noise made the function code an unsupported one
(`DamageIsCaught` counts both as caught). A slave does answer the latter, with an exception, without a look at the CRC: `Take` puts every frame with an unknown function code to work, be it
noise or an exception of another slave, when its address is the slave's. Noise may spoil a frame for any set of its hearers, differently for each (`Noisy`). One kind is a constant:
`Forges` says whether noise can make of a frame for one slave an unsupported request to the very slave that hears it (`Forged`). A station writes as the Linux port does (`Queues`: `write` returns at once)
or as the RT-Thread port does (`Sent`).

The line ranges of every definition are in the `map` of PROJECT.json.

## 3 What the runs check

| run | states | shows |
|---|---|---|
| `master_tcp` | 2.1 M | with MB_USING_MBAP_CHK: `TidTellsAge` (the tid identifies a request across its wrap), `ReplyMatchesCall`, `LagBoundedByFailures`, and `ContractSpec`: ModbusMaster implements RemoteCall |
| `master_rtu` | 3.3 M | serial line with losses, delays, noise and two slave addresses: `CleanLineOwnReply`, `CleanLineWholeResult`, `LagBoundedByFailures`, `RepliesInOrder` |
| `backend` | 49 k | `NoFrameCut`, `NoFramesMerged`, `GivesUpInTime`, `CallReturns` |
| `slave_alone` | 11 k | `ServerSpec`: ModbusSlave implements RegisterServer for one client; `EveryRequestAnswered`, `RepliesAreComplete` |
| `slave_bus` | 157 k | `OnlyOwnFramesAct`, `RepliesInTurn` |
| `instance` | 238 k | `HandlesAreOwn`, `NoHandleLost` |
| `codec` | 32 k | `FrameArrives`, `CutFrameRejected`, `DamageIsCaught`, `DamagedFrameIsBad`, `CrcAsSpecified`, `BitsArrive` |
| `rtt` | 969 k | `DriverOnWhileSending`, `ReleasedAtRest`, `OnlyOwnPin`, `FlushEnds` |
| `bus` | 209 k | `OneTalker`, `CallsEnd`, and `AddressedCallSpec`: ModbusBus implements AddressedCall |

`TypeOK` is checked in the runs of ModbusMaster, ModbusBackend, ModbusSlave and ModbusInstance, and proved for ModbusPortRtt and ModbusBus. Three more runs are expected to find a violation; section 5
lists them.

**Bounds, and why they are enough.**

* *Master.* The two runs share the six kinds of request functions out between them (`Ops`). At most `MaxCalls` = 3 or 4 calls and `TidMod` = 3 tids, so that the tid wraps, `NoneTooOld`
  bites, and a reply may be two calls late. Two calls suffice for every shift of the pairing seen so far. The line itself is
  unbounded: its length follows from the calls. Sizes 1 and 9 (bits) differ in their byte counts.
  `AnyValue` = {0, 2} stands for what an unassigned field holds: "nothing" and "something that is not
  what was asked for". In `master_tcp`, `UninitDlen` = {FALSE} leaves out the chance that the stack
  holds a 1 where `mbap.dlen` is: with {TRUE, FALSE} `ReplyMatchesCall` does not hold.
* *Backend.* `AckTmo` 4, `ByteTmo` 2, `Poll` 2, `Stall` 1, `Gap` 1: all comparisons (`>` against `>=`,
  with and without a preemption) fall on both sides. The buffer of 3 bytes is filled by the longest frame, and
  by shorter ones in pieces. The clock is set back once, by 3 ms. `Gap + Stall <= ByteTmo` is the assumption under which frames are not cut.
  The silence between frames, `Quiet`, is 13: the least for which frames are not merged
  (`QuietAssumption` in ModbusBackendProofs); with 12 `NoFramesMerged` fails, so the bound is exact for these values. It is much more than `byte_tmo_ms`:
  the stamp after a read, the poll and the check each add a preemption.
* *Slave.* Registers of two bits. In `slave_alone` nine registers and addresses modulo 16: requests
  cross the end of the bank and wrap around the address space, reads of bits take more than a byte, and the u8 length byte is
  scaled down to 8 values, with reads up to the most registers it can count. `AllRequests` has every function code.
  In `slave_bus` the tables of `mb_sample_tcp_slave.c` shrunk to one input and two holding registers, with the callbacks for bits missing; damaged frames, frames for
  another slave, a request with less data than it announces, inputs that change, and up to two requests under way.
  A client sends two (`slave_alone`) or three requests; on the bus the device is used again after it was closed.
* *Instance.* Two devices, two sockets and a listener over five descriptor numbers: every number is reused, and the
  system may run out of them.
* *Codec.* Bytes, 16-bit words, the CRC and the lengths have their real sizes. Each kind of pdu comes with the least, an odd and the most data `inc/modbus_pdu.h` allows.
  A frame is cut at every byte. Bits are inverted, and frames spliced, for RTU framing (TCP frames have no check) in the first twelve bytes: that covers every header, every field, every length byte, and the whole frame where it is short.
  Of two neighbouring bytes none, the lowest, the outermost two or all bits are inverted (`Marks`); the theorem is about any.
* *RT-Thread port.* Four instances on three devices: one that two of them have open at a time, one with a driver of the other level, one without a driver; pin 6 shifted once too often is pin 3, another
  instance's. A byte is left to send or none, which is all that a write and its failure depend on. One byte arrives during a flush.
* *Bus.* Two slaves are enough for a wrong one to act or talk; one of them writes as Linux does, one as RT-Thread does, and the master as Linux does, for which the timeouts are tighter.
  Three calls: one disturbed, one after it, one to the other slave. The times are the least that satisfy `TimingAssumption`: `AckTmo` = `FrameTime + ByteTmo + Late + Turn + 1`,
  and `Delay` = `Late + 1`. `Forges` is FALSE: with TRUE TLC finds `OneTalker` and `AddressedCallSpec` violated (section 5). With one less of either the run fails, so both are exact. `FrameTime` 2 lets a frame take the time of another or half of it.

CHECK_DEADLOCK is FALSE everywhere: calls, frames and requests are bounded, after the last of them
the system rests; and a slave whose client is gone waits for good.

**Fairness.** ModbusMaster, ModbusInstance and ModbusWire have safety properties only. ModbusBackend has weak
fairness of the reader's step (the scheduler runs a thread that is ready), of `Tick` (time passes), and of
`NextByte` (a frame once begun is sent to its end). It has none for `StartFrame`, `PollError` or
`Jump`: nothing depends on bytes or errors coming. `CallReturns` therefore also holds for a line that
stays dead, by the timeout, and for one that is never silent, by the full buffer. ModbusSlave has weak
fairness of each connection's thread: the loop in `mb_slave_sock_srv` never waits for another thread,
and callbacks are assumed to return. There is none for clients: `EveryRequestAnswered` excuses a lost connection.
ModbusPortRtt has weak fairness of `FlushReads`: a thread in a function of the port goes on; that bytes stop arriving is the bound `RxMax`, an assumption about the line. ModbusBus has weak fairness of `Tick`, and of the
steps `Return`, `Sent`, `Take` and `Answer` of its threads, which `Patience` makes urgent; there is none for `Call`.

Every property has a mutant: a plausible bug in one definition, listed in PROJECT.json and written beside that
definition (`NextTidStuck`, `PortFailsOpen`, ...), under which TLC finds the property violated.

## 4 What is proved

Proofs hold for every value of the constants that satisfies the named ASSUMEs and the assumption in
the theorem: any number of calls, slaves, tids, bytes, instances.

| theorem | states | assuming |
|---|---|---|
| `ModbusMasterProofs!TypeCorrect` | `Spec => []TypeOK` | - |
| `ModbusMasterProofs!TidsTellAge` | `Spec => []TidTellsAge` | TCP framing |
| `ModbusMasterProofs!RepliesMatchCalls` | `Spec => []ReplyMatchesCall` | TCP framing, MB_USING_MBAP_CHK, unassigned `dlen` is not 1 |
| `ModbusMasterProofs!LagIsBounded` | `Spec => []LagBoundedByFailures` | only whole frames are accepted |
| `ModbusCallProofs!QuietLineOwnReply` | `Spec => []CleanLineOwnReply` | only whole frames are accepted |
| `ModbusCallProofs!QuietLineWholeResult` | `Spec => []CleanLineWholeResult` | the same |
| `ModbusCallProofs!RepliesTakenInOrder` | `Spec => RepliesInOrder` | the same |
| `ModbusCallProofs!MasterKeepsContract` | `Spec => ContractSpec` | TCP framing, MB_USING_MBAP_CHK, unassigned `dlen` is not 1 |
| `ModbusSlaveProofs!SlaveTypeOK` | `Spec => []TypeOK` | - |
| `ModbusSlaveProofs!SlaveRepliesInTurn` | `Spec => RepliesInTurn` | - |
| `ModbusSlaveProofs!SlaveRepliesComplete` | `Spec => []RepliesAreComplete` | no read needs more bytes than the u8 length byte counts |
| `ModbusSlaveProofs!OnlyOwnFramesChange` | `Spec => OnlyOwnFramesAct` | MB_USING_ADDR_CHK; over TCP also MB_USING_MBAP_CHK |
| `ModbusSlaveProofs!ServerImplements` | `Spec => ServerSpec` | one client, inputs that stand still, requests that carry what they announce (`WholeRequests`) |
| `ModbusBackendProofs!TypeCorrect` | `Spec => []TypeOK` | - |
| `ModbusBackendProofs!FramesAreNotCut` | `Spec => NoFrameCut` | `Gap + Stall <= ByteTmo`, `Gap <= Quiet`, the clock is not set forward |
| `ModbusBackendProofs!CallsGiveUpInTime` | `Spec => []GivesUpInTime` | - (the property ends with the first adjustment of the clock) |
| `ModbusBackendProofs!FramesAreNotMerged` | `Spec => []NoFramesMerged` | a frame fits the buffer, and `Quiet` exceeds `ByteTmo + Poll + 4 Stall + MaxWait` (the property ends with the first adjustment of the clock) |
| `ModbusWireProofs!CutFramesAreRejected` | `Spec => []CutFrameRejected` | - |
| `ModbusWireProofs!FramesArrive` | `Spec => []FrameArrives` | - |
| `ModbusWireProofs!BitsCross` | `Spec => []BitsArrive` | - |
| `ModbusWireProofs!CrcIsTheSpecified` | `Spec => []CrcAsSpecified` | - |
| `ModbusWireProofs!DamagedBytesAreCaught` | `Spec => []DamagedFrameIsBad` | - (the property is about frames whose function code and length byte came as they were sent) |
| `ModbusPortRttProofs!RttTypeOK` | `Spec => []TypeOK` | - |
| `ModbusPortRttProofs!FramesGoOutDriven` | `Spec => []DriverOnWhileSending` | - (the property is about devices with one instance at a time, whatever the others do) |
| `ModbusPortRttProofs!DriversAreReleased` | `Spec => []ReleasedAtRest` | - |
| `ModbusPortRttProofs!PinsStayOwn` | `Spec => OnlyOwnPin` | - |
| `ModbusBusProofs!BusTypeOK` | `Spec => []TypeOK` | MB_USING_ADDR_CHK, `~Forges` |
| `ModbusBusProofs!OneTalksAtATime` | `Spec => []OneTalker` | MB_USING_ADDR_CHK, `~Forges` |
| `ModbusBusProofs!BusImplementsCalls` | `Spec => AddressedCallSpec` | MB_USING_ADDR_CHK, `~Forges` |
| `ModbusInstanceProofs!InstanceTypeOK` | `Spec => []TypeOK` | `close()` does not fail, descriptor 0 is not used |
| `ModbusInstanceProofs!HandlesStayOwn` | `Spec => []HandlesAreOwn` | the same |
| `ModbusInstanceProofs!NoHandleIsLost` | `Spec => []NoHandleLost` | the same |

**Master.** `Typed` adds to `TypeOK` that failed calls are no more than calls. Queues are handled once,
by lemmas about suffixes, dropping and appending, and by `LineStep`: for any set R of requests, a step
other than `StartCall` keeps the line over R. `TypeCorrect` takes for R all requests; `TidsTellAge`
takes `Fresh`, the requests whose tid tells their age, and shows in `TidStart` that a new call ages every
request by one and its tid with it, the wrap included; this is where `NoneTooOld` is needed.
`ReplyMatchesCall` is not inductive: with `TidTellsAge`, a frame that passes the header check has the
tid of the current call, hence its age, hence is its reply (`AcceptedIsOwn`). `LagInv` counts the
replies about, less one while the buffer holds one (`HoldsReply`); a success consumes one because what is accepted
holds a whole reply (`AcceptedHoldsReply`). `WholeFramesOnly` is defined beside it: RTU framing, or TCP framing with the header check and an unassigned `dlen` that is not 1.

**Calls** (ModbusCallProofs). A call that begins on a quiet line has the line to itself: `QuietLine` says that until it returns there is nothing but its request and the reply
to that, which is `LineStep` with R = {`cur`}; so what a whole frame says (`AcceptedIsWhole`) it says of this call.
`LineOrder` says that requests are on the line in the order of the calls, each once, and replies in that order before them, but for what is left of a
cut or disturbed one, which follows a piece of its own reply (`Before`) and cannot be accepted. Losses only thin a queue out (`Thinned`). `NewestIsPast` then is inductive, and `RepliesInOrder` its consequence.
For the contract `Undecided` adds that a request the peer can still read has been decided by nobody and is the only one of its call, which is why nothing
is carried out twice; and `Truthful` that a reply on the line to the current call, and no other reply is accepted, says what the peer decided.
A `dlen` that happens to be 1 where nobody assigned it, or a build without the check, breaks this, as `master_cut` shows: the hypotheses are needed.

**Backend.** `SilenceBounded` is what `NoFrameCut` needs: while a frame is unfinished, the time since
the stamp is bounded by the pause of the sender when the poll found nothing, and by that plus the reader's own delay
when the timeout is looked at. `Measured` relates `real`, `since` and the reader's delay at each label, and bounds both by the timeout in force; it holds until the clock is adjusted (`JumpsCount`).

`FramesAreNotMerged` needs more: `OneFrame` (what waits in the device and what the call has taken belong to the frame on the line) and
`TakenSoon` (how long the line can have been silent while a byte waits). From them the buffer is empty once the line has been silent for `Quiet` (`NothingLeftWhenQuiet`).
`MaxWait` is the longer of the two times for which nobody reads: the polling delay, and the owner's time between calls (`Idle`).

**Wire.** The lengths of the layouts bound what `PduParse` returns from below for every prefix: a prefix that is long enough to hold the length byte
claims the length of the whole pdu (`CutInv` says what the wire holds). For `CutFramesAreRejected` only lengths and positions of bytes are used; the recursion of the CRC does not occur in it.
`FramesArrive` needs what the CRC computes. Facts about all lengths are proved of the set of numbers they hold for: the least number outside it would be a contradiction (`Smallest`, from
the well-foundedness of `<`; `ByInduction`, `ByCompleteInduction`). That the recursive functions exist is shown so too. `CrcIsLoop` says that the recursion of `CrcCycCal` in halves is the loop
over the bytes (`After`), so that a CRC grows byte by byte (`CrcGrows`) and depends on the bytes only (`CrcSame`); `Residue`, that the register is 0 after its own two bytes. `PduRead`
inverts `PduMake` field by field, and `ArriveInv` adds to `CutInv` that the wire begins with the frame until it is damaged. `BitsCross` puts upon that what `Packed` leaves after
each bit (`PackedBits`); one bit of a byte is set without touching the others (`OneBit`), for each of the eight. The messages are those `MessageAssumption` allows: all layouts, any data up to 255 bytes.

`CrcIsTheSpecified` writes a register as its 16 bits (`Word16`): one shift moves them and adds the bit that falls out at three places (`ShiftBits`), so eight shifts are
a formula in the 24 bits of register and byte (`EightShifts`); `TableBits` checks, row by row, that the table holds that formula for a register of 0, and the exclusive
or adds the rest (`ByTable`). `FrameBytes` says that all that is sent are bytes, the length in a TCP header included. `DamagedBytesAreCaught` is about damage
to one byte or to two neighbours, whichever bits of them are inverted (all bursts of up to 9 bits are such, and those of 16 that begin with a byte), anywhere in an RTU frame of any message.
A shift never takes two registers to one (`ShiftOneToOne`), so one damaged byte makes the register differ behind it. Of two neighbours the second
could cancel the first: it cannot, since the high byte of the register behind the first byte is that of a table entry, no two entries have
the same (`HighBytes`), and the second byte is added to the low byte only (`StepTells`, `TwoSteps`). From there on the register stays different to the end of the frame
(`StayDifferent`, `DifferentCrc`), where that of the frame sent is 0. The function code and the length byte must tell the length of what was sent
(`LengthKept`); otherwise the parser looks for the CRC elsewhere, or, for an unknown function, does not look (the run `slave_noise`).

**Instances.** `IInv` is `TypeOK`, both properties, `OpeningOwn` and `ListenerOwn` (the same for descriptors in local variables), and `AcceptedFree`: a socket the listener still holds belongs to
no instance. Each of the two properties needs the other: closing a handle may free only its own file.

**RT-Thread port.** `RInv` says that a device that is not `Shared` has one user (`OneUser`), that the `user_data` of a device is unset or the configuration's (`Labelled`),
that the locals of a write are the configuration's while it sends, with the driver on if the device is not shared (`Sending`, `NoDriver`), and that the driver is off when nobody sends
or is about to switch it off (`Rest`). `OneUser` is needed for the second of these only: for the driver at rest and for the pins of others it does not matter how many
have a device open, since every open and every write ends by switching it off. The arithmetic of packing and unpacking a pin is in two lemmas about `Low`.
All of it rests on `ConfAssumption`: one pin of 15 bits to a device.

**Bus.** `BInv` is `TypeOK` and one of five `Turns`: the line rests, the master asks, its slave notices the request or works on it, answers, has answered. Each says
who may be on the line, that all other slaves have nothing to act upon or to answer (here `~Forges` is used, in the lemma `Spoilt`: what noise makes of a frame is never a frame for somebody else), and by how much the clock of the master can be ahead of that of its slave;
`TimingAssumption` is used where the master's timeout would expire before the slave's answer, and where a slave would still hold the frame of the last call.

`StoryInv`, for the refinement, adds to each of the `Turns` which call the frames heard and the job belong to, that the slave has acted on the call exactly when it works or has answered,
and that a call whose request or reply is not `good` is in `hurt`; a slave whose request became an unsupported one answers without having acted. The hard part is that a request is heard by every slave, and that a slave which has heard something takes what
comes next for the same frame: `Timed` says that each slave that heard the last call's frames has been timing them as long as the master has, and drops them at most
`ByteTmo + Late + 1` after; the master sleeps for `Delay`, which is more than `Late`, so that every slave has dropped them before the next call.

**Slave.** `SlaveInv` says of each connection that what is worked on passed the checks of its frame (`Served`), that the values read are as many as the callbacks made (`Counted`),
and that ids rise from the last reply over the job to the inbox (`Ordered`). It needs no hypothesis, and gives `TypeOK`, `RepliesInTurn`, and, with a bound on reads, `RepliesAreComplete`:
the loops of `modbus_slave.c` make as many callbacks as `Plan` lists, and each read appends a value. `OnlyOwnFramesAct` follows from `Served`, for any number of connections.
For the refinement the abstract registers are those the request found (`AMem`: `before` while a thread works), and the abstract server moves at the last callback or the failing one.
`Progress` says that half way through the registers are `before` with the first writes of the request made (`After`), and what was read is what is still there:
this is where `SoleClient` is needed, since another thread or the application could change a register between two callbacks. The addresses of one request are distinct because
they are no more than `AddrMod` (`AtOnce`). `WholeRequests` excludes what section 5 describes: the damaged frame that is answered, and the write that takes
values from what else is in the buffer. The constants of `slave_alone` satisfy all hypotheses.

**Model-checked only.** Liveness (`CallReturns`, `EveryRequestAnswered`, `FlushEnds`, `CallsEnd`) is out of the prover's
reach. Of ModbusWire, `DamageIsCaught` is a statement about the messages of the run: it does not hold of all messages, since 16 bits of CRC cannot tell every splice of two frames
from a frame, and a disturbed length byte can name a shorter frame. `DamagedBytesAreCaught` is the part of it that holds for all.

## 5 Where code and documentation disagree

Each of these runs finds the stated property violated; PROJECT.json quotes the lines on both sides.

| run | property | what happens |
|---|---|---|
| `master_cut` | `SuccessMeansExecuted` | the TCP request functions take a parse result of 0, a cut frame, for success; a write that the slave refused returns its count |
| `slave_noise` | `DamagedFramesIgnored` | a damaged frame with an unknown function code is answered, since the CRC is tested after the function code |
| `slave_mask` | `MaskTouchesItsBitsOnly` | mask writes of two connections to one register: one is lost |

The models also contain, without a run of their own:

* the exception for an unsupported function is made of a function code that nobody assigned (`modbus_slave.c:367,406`; `modbus_pdu.c:315` returns
  before it stores anything): in ModbusSlave it is any member of `AnyFc`, where `modbus_slave.c:403` says that the function is answered by its exception frame;
* descriptor 0, which a process without standard input is given first, is NULL (`modbus_backend.c:184`, where `inc/modbus_backend.h:47` has NULL for an error):
  the open counts as failed and the file stays open. With 0 in `Fds`, `NoHandleLost` does not hold;
* `inc/modbus_backend.h:28` says that a pin below 0 is not used; but `mb_port_rtu_open` leaves `user_data` alone then, and a device that was opened with a pin before keeps driving
  it. `ConfAssumption` excludes it, by one pin to a device; it also bounds pins by 15 bits (`modbus_port_rtt.c:64`),
  so the theorems say nothing of an open that changes `user_data`;
* `rt_device_open` counts the users of a device and lets a second instance in, whose `rt_pin_write` (`modbus_port_rtt.c:67`) releases the driver in the middle of a frame of the first.
  `OpenDevice` does so too, for the devices in `Shared`. There the driver is off at rest and no other pin moves, but `DriverOnWhileSending` does not hold and is not stated;
* `inc/modbus_rtu.h:22` names the broadcast address 0, which nothing uses: with MB_USING_ADDR_CHK a slave ignores it, without, every slave answers it (`ForMe`);
* MB_USING_ADDR_CHK is off by default (`inc/modbus_cfg.h:20`): with `AddrChk = FALSE` both slaves of ModbusBus answer every request, and `OneTalker` does not hold;
* with MB_USING_ADDR_CHK what `slave_noise` shows still reaches a bus: noise on the address and the function code, two neighbouring bytes, or on the address of an exception
  reply, makes a bystander find its own address and an unsupported function code, and it answers, together with the slave that was called or into the next call. ModbusBus
  has such noise under `Forges = TRUE`, and then neither `OneTalker` nor `AddressedCallSpec` holds: two slaves talk at once, and the one that was called, held up by the answer of the other, acts after the call has ended. What the run and the theorems
  show is for noise that does not do this, though it may do anything else to any frame for any of its hearers;
* on Linux `ack_tmo_ms` runs while the request is still on its way (`Queues`). At 9600 baud 256 bytes take 267 ms, the byte timeout of the slave 32 ms: with the default of 300 ms
  `TimingAssumption` fails before the slave has done anything, and a reply in time is taken for a late one;
* on a serial line the late reply to one write is the success of the next (`SuccessMeansExecuted` fails under RTU
  framing; `CleanLineOwnReply` and `LagBoundedByFailures` say how far this can go), and `mb_read_bits` then returns a
  number of bytes when the reply has another size than asked for (`MbReadBits`, `modbus_master.c:279`);
* MB_USING_MBAP_CHK does not make `master_cut` impossible: the fields it compares are the request's own, or never assigned (`Untouched`);
* `GivesUpInTime` is stated until the clock is adjusted, because the timeouts are measured with `gettimeofday`
  (`Jump`): set back during a call, it prolongs the call;
* when `close()` fails the backend stays marked open (`Close` with `CloseMayFail`), where `inc/modbus.h:68` says
  that an error closes it; `HandlesAreOwn` does not hold then.

## 6 What is not modelled

* Quantities that exceed `hinst->datas`, the buffer or the frame: the messages of the runs are those `inc/modbus_pdu.h` allows.
* The u32 and f32 conversions of `modbus_cvt.c`: nothing in the library calls them.
* Register values end to end: ModbusSlave has them (as sets of bits), ModbusWire has them (as bytes), ModbusMaster and ModbusBus abstract them to the call they belong to.
* TCP frames cut on their way to the slave: the slave drops them (`modbus_slave.c:384`), and the master's side
  of it is in ModbusMaster.
* The TCP half of `modbus_port_rtt.c`, which does what that of the Linux port does through another socket layer.
* Termios settings beyond that setting them may fail (`PortFails`), name resolution, logging, printing of frames.
* Allocation failures in `mb_create` and `strdup`: MB_ASSERT is empty, and the samples would go on with a NULL instance.
* The TCP master sample is a ModbusMaster that connects before each call; a failing `mb_connect`, which changes nothing, is left out of ModbusMaster and ModbusBus.
* Two stations that talk at once on ModbusBus: `OneTalker` excludes it under the assumptions of the module, so that collisions need no semantics. Noise where nobody talks, which may look like a frame to a slave, is not modelled there either.
* Requests that a slave of ModbusBus refuses (an address out of range, a callback that fails): it carries out all it understands. ModbusSlave has the refusals.

## 7 Plan

Done, in this order because the pairing of calls and replies is what the library is for: RemoteCall and
ModbusMaster; ModbusBackend; ModbusRequest, RegisterServer and ModbusSlave; ModbusInstance; then the bytes
(ModbusCodec, ModbusWire), the driver pin (ModbusPortRtt), the tables of the samples (ModbusSamples), and the line that joins masters and slaves (AddressedCall,
ModbusBus); proofs of each; the three refinements proved, and every safety property of the master, the backend, the slave, the instances, the port and the bus.

Next, to prove more: that two damaged bits of a frame are caught wherever they are (the register returns to a state only after 32767 shifts, more than a frame has bits), and the
splices of `DamageIsCaught` for messages whose beginnings announce different lengths.
