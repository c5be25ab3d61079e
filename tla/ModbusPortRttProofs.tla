------------------------- MODULE ModbusPortRttProofs -------------------------
(***************************************************************************)
(* The driver of a serial line, for any instances, devices and pins: what  *)
(* the port unpacks from user_data is what it packed, and the driver is on *)
(* while a frame goes out and off at rest.                                 *)
(***************************************************************************)
EXTENDS ModbusPortRtt, TLAPS

\* Of 15 bits of a pin and one of a level nothing is lost in 16 bits.
LEMMA Packing ==
    ASSUME NEW p \in PinNumbers, NEW l \in {0, 1}
    PROVE  /\ Low(p, l) \in Lows /\ Low(p, l) # Unset
           /\ PinOf(Low(p, l)) = p /\ LvlOf(Low(p, l)) = l
<1>1. \A n, k \in Int :
        0 <= n /\ n <= 32767 /\ (k = 0 \/ k = 1) =>
            /\ Low(n, k) \in Int /\ 0 <= Low(n, k) /\ Low(n, k) <= 65535
            /\ Low(n, k) \div 2 = n /\ Low(n, k) % 2 = k
  BY DEF Low
<1>2. p \in Int /\ 0 <= p /\ p <= 32767 /\ l \in Int /\ (l = 0 \/ l = 1)
  BY DEF PinNumbers
<1>3. \A v \in Int : 0 <= v /\ v <= 65535 => v \in Lows /\ v # Unset
  BY DEF Lows, Unset
<1>4. /\ Low(p, l) \in Int /\ 0 <= Low(p, l) /\ Low(p, l) <= 65535
      /\ Low(p, l) \div 2 = p /\ Low(p, l) % 2 = l
  BY <1>1, <1>2
<1>5. Low(p, l) \in Lows /\ Low(p, l) # Unset
  BY <1>3, <1>4
<1>6. QED
  BY <1>4, <1>5 DEF PinOf, LvlOf

\* The code asks for a sign where the model asks for a pin.
LEMMA Signs == (\A p \in Pins : p >= 0) /\ ~(NoPin >= 0)
<1>1. \A p \in PinNumbers : p >= 0
  BY DEF PinNumbers
<1>2. QED
  BY <1>1, ConfAssumption DEF NoPin

\* The configuration, with operators for what the proofs use of it.
Pin(i) == Conf[i].pin
Lvl(i) == Conf[i].lvl
Label(i) == IF i \in Drivers THEN Low(Pin(i), Lvl(i)) ELSE Unset

LEMMA Configured ==
    /\ \A i \in Insts : /\ Dev(i) \in Devs /\ Pin(i) \in Pins \cup {NoPin} /\ Lvl(i) \in {0, 1}
                        /\ Label(i) \in Lows \cup {Unset}
                        /\ PinOf(Label(i)) = Pin(i)
    /\ \A i \in Drivers : /\ i \in Insts /\ Pin(i) \in Pins
                          /\ Label(i) # Unset /\ LvlOf(Label(i)) = Lvl(i)
                          /\ Label(i) = Low(Pin(i), Lvl(i))
    /\ \A i \in Insts \ Drivers : Pin(i) = NoPin /\ Label(i) = Unset
    /\ \A i, j \in Insts : Dev(i) = Dev(j) => Pin(i) = Pin(j) /\ Lvl(i) = Lvl(j) /\ Label(i) = Label(j)
    /\ \A i, j \in Drivers : Pin(i) = Pin(j) => Dev(i) = Dev(j)
<1>1. \A i \in Insts : Dev(i) \in Devs /\ Pin(i) \in Pins \cup {NoPin} /\ Lvl(i) \in {0, 1}
  BY ConfAssumption DEF Dev, Pin, Lvl
<1>2. Pins \subseteq PinNumbers
  BY ConfAssumption
<1>3. ASSUME NEW i \in Drivers
      PROVE  /\ i \in Insts /\ Pin(i) \in Pins
             /\ Label(i) \in Lows /\ Label(i) # Unset /\ LvlOf(Label(i)) = Lvl(i)
             /\ PinOf(Label(i)) = Pin(i) /\ Label(i) = Low(Pin(i), Lvl(i))
  <2>1. i \in Insts /\ Pin(i) # NoPin
    BY DEF Drivers, Pin
  <2>2. Pin(i) \in Pins /\ Pin(i) \in PinNumbers /\ Lvl(i) \in {0, 1}
    BY <1>1, <1>2, <2>1
  <2>3. Label(i) = Low(Pin(i), Lvl(i))
    BY DEF Label
  <2>4. /\ Low(Pin(i), Lvl(i)) \in Lows /\ Low(Pin(i), Lvl(i)) # Unset
        /\ PinOf(Low(Pin(i), Lvl(i))) = Pin(i) /\ LvlOf(Low(Pin(i), Lvl(i))) = Lvl(i)
    BY <2>2, Packing
  <2>5. QED
    BY <2>1, <2>2, <2>3, <2>4
<1>4. ASSUME NEW i \in Insts \ Drivers
      PROVE  Pin(i) = NoPin /\ Label(i) = Unset /\ PinOf(Label(i)) = Pin(i)
  <2>1. Pin(i) = NoPin
    BY DEF Drivers, Pin
  <2>2. QED
    BY <2>1 DEF Label, PinOf
<1>5. ASSUME NEW i \in Insts, NEW j \in Insts, Dev(i) = Dev(j)
      PROVE  Pin(i) = Pin(j) /\ Lvl(i) = Lvl(j) /\ Label(i) = Label(j)
  BY <1>5, ConfAssumption DEF Dev, Pin, Lvl, Label, Drivers
<1>6. ASSUME NEW i \in Drivers, NEW j \in Drivers, Pin(i) = Pin(j) PROVE Dev(i) = Dev(j)
  <2>1. i \in Insts /\ j \in Insts /\ Pin(i) # NoPin
    BY DEF Drivers, Pin
  <2>2. QED
    BY <1>6, <2>1, ConfAssumption DEF Dev, Pin
<1>7. QED
  BY <1>1, <1>3, <1>4, <1>5, <1>6

-----------------------------------------------------------------------------
(* The inductive invariant.                                                *)

\* A device that is not shared has one user.
OneUser ==
    \A i, j \in Insts :
        /\ Dev(i) \notin Shared /\ Dev(i) = Dev(j)
        /\ pc[i] # "closed" /\ pc[j] # "closed"
        => i = j

\* user_data says what the configuration says, or nothing yet.
Labelled ==
    \A i \in Insts :
        /\ user_data[Dev(i)] \in {Unset, Label(i)}
        /\ pc[i] \in {"labelled", "open", "sending", "flushing"} => user_data[Dev(i)] = Label(i)
        /\ pc[i] \in {"opened", "labelled"} => i \in Drivers

Sending ==
    \A i \in Drivers : pc[i] = "sending" =>
        /\ wpin[i] = Pin(i) /\ wlvl[i] = Lvl(i)
        /\ Dev(i) \notin Shared => level[Pin(i)] = Lvl(i)

NoDriver == \A i \in Insts \ Drivers : pc[i] = "sending" => wpin[i] = NoPin

\* Nobody holds the driver of the device, or is about to release it.
AtRest(d) == \A j \in Insts : Dev(j) = d => pc[j] \notin {"labelled", "sending"}

Rest ==
    \A i \in Drivers :
        user_data[Dev(i)] # Unset /\ AtRest(Dev(i)) => level[Pin(i)] = Not(Lvl(i))

RInv == TypeOK /\ OneUser /\ Labelled /\ Sending /\ NoDriver /\ Rest

LEMMA RInit == Init => RInv
<1> SUFFICES ASSUME Init PROVE RInv
  OBVIOUS
<1>1. 0 \in 0 .. FrameMax /\ \A l \in {0, 1} : [p \in Pins |-> l] \in [Pins -> {0, 1}]
  BY ConfAssumption
<1>2. PICK l \in {0, 1} : level = [p \in Pins |-> l]
  BY DEF Init
<1>3. TypeOK
  BY <1>1, <1>2 DEF Init, TypeOK, Unset
<1>4. OneUser /\ Labelled /\ Sending /\ NoDriver /\ Rest
  BY Configured DEF Init, OneUser, Labelled, Sending, NoDriver, Rest
<1>5. QED
  BY <1>3, <1>4 DEF RInv

\* What a thread does to pc.
LEMMA Moves ==
    ASSUME TypeOK, NEW i \in Insts, NEW to, Goto(i, to)
    PROVE  pc'[i] = to /\ \A j \in Insts \ {i} : pc'[j] = pc[j]
BY DEF TypeOK, Goto

LEMMA OpenStep ==
    ASSUME RInv, NEW i \in Insts, MayOpen(i), OpenDevice(i) PROVE RInv'
<1> DEFINE to == IF Conf[i].pin >= 0 THEN "opened" ELSE "open"
<1>1. /\ pc[i] = "closed"
      /\ UNCHANGED <<left, wpin, wlvl, user_data, level, rx>> /\ Goto(i, to)
  BY DEF OpenDevice, locals
<1>2. pc'[i] = to /\ \A j \in Insts \ {i} : pc'[j] = pc[j]
  BY <1>1, Moves DEF RInv
<1>3. (i \in Drivers => to = "opened") /\ (i \notin Drivers => to = "open")
  BY Configured, Signs DEF Pin
<1>4. to \in {"opened", "open"}
  OBVIOUS
<1> HIDE DEF to
<1>5. pc' \in [Insts -> {"closed", "opened", "labelled", "open", "sending", "flushing"}]
  BY <1>1, <1>4 DEF RInv, TypeOK, Goto
<1>6. TypeOK'
  BY <1>1, <1>5, Configured DEF RInv, TypeOK
<1>7. OneUser'
  BY <1>1, <1>2 DEF RInv, OneUser, MayOpen
<1>8. Labelled'
  <2> SUFFICES ASSUME NEW j \in Insts
               PROVE  /\ user_data[Dev(j)] \in {Unset, Label(j)}
                      /\ pc'[j] \in {"labelled", "open", "sending", "flushing"}
                           => user_data[Dev(j)] = Label(j)
                      /\ pc'[j] \in {"opened", "labelled"} => j \in Drivers
    BY <1>1 DEF Labelled
  <2>1. CASE j = i /\ i \in Drivers
    BY <1>2, <1>3, <2>1 DEF RInv, Labelled
  <2>2. CASE j = i /\ i \notin Drivers
    <3>1. Label(i) = Unset /\ user_data[Dev(i)] \in {Unset, Label(i)}
      BY <2>2, Configured DEF RInv, Labelled
    <3>2. pc'[i] = "open"
      BY <1>2, <1>3, <2>2
    <3>3. QED
      BY <2>2, <3>1, <3>2
  <2>3. CASE j # i
    BY <1>2, <2>3 DEF RInv, Labelled
  <2>4. QED
    BY <2>1, <2>2, <2>3
<1>9. Sending' /\ NoDriver'
  BY <1>1, <1>2, <1>4, Configured DEF RInv, Sending, NoDriver
<1>10. Rest'
  <2> SUFFICES ASSUME NEW j \in Drivers, user_data[Dev(j)] # Unset, AtRest(Dev(j))'
               PROVE  level[Pin(j)] = Not(Lvl(j))
    BY <1>1 DEF Rest
  <2>1. AtRest(Dev(j))
    BY <1>1, <1>2 DEF AtRest, Dev
  <2>2. QED
    BY <2>1 DEF RInv, Rest
<1>11. QED
  BY <1>6, <1>7, <1>8, <1>9, <1>10 DEF RInv

\* Where a thread that stays inside an open device may be next.
LEMMA Inside ==
    ASSUME RInv, NEW i \in Insts, pc[i] # "closed",
           NEW to \in {"labelled", "open", "sending", "flushing"}, Goto(i, to)
    PROVE  /\ pc' \in [Insts -> {"closed", "opened", "labelled", "open", "sending", "flushing"}]
           /\ pc'[i] = to /\ \A j \in Insts \ {i} : pc'[j] = pc[j]
           /\ OneUser'
           /\ Dev(i) \notin Shared =>
                \A j \in Insts \ {i} : Dev(j) = Dev(i) => pc[j] = "closed" /\ pc'[j] = "closed"
<1>1. pc'[i] = to /\ \A j \in Insts \ {i} : pc'[j] = pc[j]
  BY Moves DEF RInv
<1>2. pc' \in [Insts -> {"closed", "opened", "labelled", "open", "sending", "flushing"}]
  BY DEF RInv, TypeOK, Goto
<1>3. OneUser'
  BY <1>1 DEF RInv, OneUser
<1>4. Dev(i) \notin Shared => \A j \in Insts \ {i} : Dev(j) = Dev(i) => pc[j] = "closed"
  BY DEF RInv, OneUser
<1>5. QED
  BY <1>1, <1>2, <1>3, <1>4

\* What the port does to the pin of an instance with a driver.
LEMMA Switches ==
    ASSUME RInv, NEW i \in Drivers, NEW l \in {0, 1}, WritePin(Pin(i), l)
    PROVE  /\ level' \in [Pins -> {0, 1}]
           /\ \A j \in Drivers :
                level'[Pin(j)] = IF Dev(j) = Dev(i) THEN l ELSE level[Pin(j)]
           /\ \A j \in Insts : Dev(j) = Dev(i) => Lvl(j) = Lvl(i)
<1>1. i \in Insts /\ Pin(i) \in Pins /\ level' = [level EXCEPT ![Pin(i)] = l]
  BY Configured, Signs DEF WritePin
<1>2. level \in [Pins -> {0, 1}]
  BY DEF RInv, TypeOK
<1>3. level' \in [Pins -> {0, 1}] /\ level'[Pin(i)] = l
      /\ \A p \in Pins \ {Pin(i)} : level'[p] = level[p]
  BY <1>1, <1>2
<1>4. \A j \in Drivers : j \in Insts /\ Pin(j) \in Pins /\ (Pin(j) = Pin(i) <=> Dev(j) = Dev(i))
  BY <1>1, Configured
<1>5. \A j \in Insts : Dev(j) = Dev(i) => Lvl(j) = Lvl(i)
  BY <1>1, Configured
<1>6. QED
  BY <1>3, <1>4, <1>5

LEMMA LabelStep ==
    ASSUME RInv, NEW i \in Insts, SetUserData(i) PROVE RInv'
<1>1. /\ pc[i] = "opened" /\ Goto(i, "labelled") /\ pc[i] # "closed"
      /\ user_data' = [user_data EXCEPT ![Dev(i)] = Low(Pin(i), Lvl(i))]
      /\ UNCHANGED <<left, wpin, wlvl, level, rx>>
  BY DEF SetUserData, locals, Pin, Lvl
<1>2. /\ pc' \in [Insts -> {"closed", "opened", "labelled", "open", "sending", "flushing"}]
      /\ pc'[i] = "labelled" /\ \A j \in Insts \ {i} : pc'[j] = pc[j]
      /\ OneUser'
      /\ Dev(i) \notin Shared =>
           \A j \in Insts \ {i} : Dev(j) = Dev(i) => pc[j] = "closed" /\ pc'[j] = "closed"
  BY <1>1, Inside
<1>3. i \in Drivers
  BY <1>1 DEF RInv, Labelled
<1>4. Label(i) = Low(Pin(i), Lvl(i)) /\ Label(i) \in Lows \cup {Unset} /\ Dev(i) \in Devs
  BY <1>3, Configured
<1>5. /\ user_data' \in [Devs -> Lows \cup {Unset}]
      /\ \A d \in Devs : user_data'[d] = IF d = Dev(i) THEN Label(i) ELSE user_data[d]
  BY <1>1, <1>4 DEF RInv, TypeOK
<1>6. \A j \in Insts : /\ Dev(j) \in Devs
                       /\ Dev(j) = Dev(i) => Label(j) = Label(i)
  BY Configured
<1>7. TypeOK'
  BY <1>1, <1>2, <1>5 DEF RInv, TypeOK
<1>8. Labelled'
  BY <1>2, <1>3, <1>5, <1>6 DEF RInv, Labelled
<1>9. Sending' /\ NoDriver'
  BY <1>1, <1>2, Configured DEF RInv, Sending, NoDriver
<1>10. Rest'
  <2> SUFFICES ASSUME NEW j \in Drivers, user_data'[Dev(j)] # Unset, AtRest(Dev(j))'
               PROVE  level[Pin(j)] = Not(Lvl(j))
    BY <1>1 DEF Rest
  <2>1. j \in Insts /\ Dev(j) # Dev(i)
    BY <1>2, Configured DEF AtRest, Dev
  <2>2. user_data[Dev(j)] # Unset
    BY <1>5, <1>6, <2>1
  <2>3. AtRest(Dev(j))
    BY <1>2, <2>1 DEF AtRest, Dev
  <2>4. QED
    BY <2>2, <2>3 DEF RInv, Rest
<1>11. QED
  BY <1>2, <1>7, <1>8, <1>9, <1>10 DEF RInv

\* The pin is switched off, at the end of an open or of a write.
LEMMA OffStep ==
    ASSUME RInv, NEW i \in Insts, pc[i] \in {"labelled", "sending"}, Goto(i, "open"),
           UNCHANGED <<locals, user_data, rx>>,
           i \in Drivers => WritePin(Pin(i), Not(Lvl(i))),
           i \notin Drivers => level' = level
    PROVE  RInv'
<1>1. /\ pc[i] # "closed" /\ user_data' = user_data
      /\ UNCHANGED <<left, wpin, wlvl, rx>>
  BY DEF locals
<1>2. /\ pc' \in [Insts -> {"closed", "opened", "labelled", "open", "sending", "flushing"}]
      /\ pc'[i] = "open" /\ \A j \in Insts \ {i} : pc'[j] = pc[j]
      /\ OneUser'
      /\ Dev(i) \notin Shared =>
           \A j \in Insts \ {i} : Dev(j) = Dev(i) => pc[j] = "closed" /\ pc'[j] = "closed"
  BY <1>1, Inside
<1>3. Not(Lvl(i)) \in {0, 1}
  BY Configured DEF Not
<1>4. /\ level' \in [Pins -> {0, 1}]
      /\ \A j \in Drivers :
           level'[Pin(j)] = IF Dev(j) = Dev(i) THEN Not(Lvl(i)) ELSE level[Pin(j)]
      /\ \A j \in Insts : Dev(j) = Dev(i) => Lvl(j) = Lvl(i)
  <2>1. CASE i \in Drivers
    BY <1>3, <2>1, Switches
  <2>2. CASE i \notin Drivers
    <3>1. \A j \in Drivers : j \in Insts /\ Pin(j) # NoPin /\ Dev(j) # Dev(i)
      BY <2>2, Configured DEF Drivers, Pin
    <3>2. QED
      BY <2>2, <3>1, Configured DEF RInv, TypeOK
  <2>3. QED
    BY <2>1, <2>2
<1>5. TypeOK'
  BY <1>1, <1>2, <1>4 DEF RInv, TypeOK
<1>6. Labelled'
  BY <1>1, <1>2 DEF RInv, Labelled
<1>7. Sending'
  <2> SUFFICES ASSUME NEW j \in Drivers, pc'[j] = "sending"
               PROVE  /\ wpin[j] = Pin(j) /\ wlvl[j] = Lvl(j)
                      /\ Dev(j) \notin Shared => level'[Pin(j)] = Lvl(j)
    BY <1>1 DEF Sending
  <2>1. /\ j \in Insts /\ j # i /\ pc[j] = "sending"
        /\ Dev(j) \notin Shared => Dev(j) # Dev(i)
    BY <1>2, Configured
  <2>2. QED
    BY <1>4, <2>1 DEF RInv, Sending
<1>8. NoDriver'
  BY <1>1, <1>2 DEF RInv, NoDriver
<1>9. Rest'
  <2> SUFFICES ASSUME NEW j \in Drivers, user_data[Dev(j)] # Unset, AtRest(Dev(j))'
               PROVE  level'[Pin(j)] = Not(Lvl(j))
    BY <1>1 DEF Rest
  <2>1. j \in Insts
    BY Configured
  <2>2. CASE Dev(j) = Dev(i)
    BY <1>4, <2>1, <2>2
  <2>3. CASE Dev(j) # Dev(i)
    <3>1. AtRest(Dev(j))
      BY <1>2, <2>3 DEF AtRest, Dev
    <3>2. QED
      BY <1>4, <2>3, <3>1 DEF RInv, Rest
  <2>4. QED
    BY <2>2, <2>3
<1>10. QED
  BY <1>2, <1>5, <1>6, <1>7, <1>8, <1>9 DEF RInv

LEMMA InitPinStep ==
    ASSUME RInv, NEW i \in Insts, InitPin(i) PROVE RInv'
<1>1. i \in Drivers /\ WritePin(Pin(i), Not(Lvl(i)))
  BY DEF InitPin, RInv, Labelled, Pin, Lvl
<1>2. QED
  BY <1>1, OffStep DEF InitPin

LEMMA DriverOffStep ==
    ASSUME RInv, NEW i \in Insts, DriverOff(i) PROVE RInv'
<1>1. pc[i] = "sending" /\ WritePin(wpin[i], Not(wlvl[i]))
  BY DEF DriverOff
<1>2. i \in Drivers => WritePin(Pin(i), Not(Lvl(i)))
  BY <1>1 DEF RInv, Sending
<1>3. i \notin Drivers => level' = level
  <2> SUFFICES ASSUME i \notin Drivers PROVE level' = level
    OBVIOUS
  <2>1. wpin[i] = NoPin
    BY <1>1 DEF RInv, NoDriver
  <2>2. ~(wpin[i] >= 0)
    BY <2>1, Signs
  <2>3. QED
    BY <1>1, <2>2 DEF WritePin
<1>4. QED
  BY <1>1, <1>2, <1>3, OffStep DEF DriverOff

LEMMA DriverOnStep ==
    ASSUME RInv, NEW i \in Insts, DriverOn(i) PROVE RInv'
<1>1. /\ pc[i] = "open" /\ pc[i] # "closed" /\ Goto(i, "sending")
      /\ user_data' = user_data /\ rx' = rx
      /\ \E n \in 1 .. FrameMax : left' = [left EXCEPT ![i] = n]
  BY DEF DriverOn
<1>2. /\ pc' \in [Insts -> {"closed", "opened", "labelled", "open", "sending", "flushing"}]
      /\ pc'[i] = "sending" /\ \A j \in Insts \ {i} : pc'[j] = pc[j]
      /\ OneUser'
      /\ Dev(i) \notin Shared =>
           \A j \in Insts \ {i} : Dev(j) = Dev(i) => pc[j] = "closed" /\ pc'[j] = "closed"
  BY <1>1, Inside
<1>3. user_data[Dev(i)] = Label(i)
  BY <1>1 DEF RInv, Labelled
<1>4. /\ PinOf(Label(i)) = Pin(i) /\ Pin(i) \in Pins \cup {NoPin}
      /\ i \in Drivers => LvlOf(Label(i)) = Lvl(i) /\ Lvl(i) \in {0, 1}
      /\ i \notin Drivers => Label(i) = Unset
  BY Configured
<1>5. LvlOf(Label(i)) \in {0, 1}
  BY <1>4 DEF LvlOf
<1>6. /\ wpin' = [wpin EXCEPT ![i] = Pin(i)] /\ wlvl' = [wlvl EXCEPT ![i] = LvlOf(Label(i))]
      /\ WritePin(Pin(i), LvlOf(Label(i)))
  BY <1>3, <1>4 DEF DriverOn
<1>7. /\ level' \in [Pins -> {0, 1}]
      /\ \A j \in Drivers :
           level'[Pin(j)] = IF Dev(j) = Dev(i) THEN Lvl(i) ELSE level[Pin(j)]
  <2>1. CASE i \in Drivers
    BY <1>4, <1>6, <2>1, Switches
  <2>2. CASE i \notin Drivers
    <3>1. \A j \in Drivers : Dev(j) # Dev(i)
      BY <2>2, Configured DEF Drivers, Pin
    <3>2. Pin(i) = NoPin
      BY <2>2, Configured
    <3>3. level' = level
      BY <1>6, <3>2, Signs DEF WritePin
    <3>4. QED
      BY <3>1, <3>3 DEF RInv, TypeOK
  <2>3. QED
    BY <2>1, <2>2
<1>8. left' \in [Insts -> 0 .. FrameMax]
  <2>1. \A n \in 1 .. FrameMax : n \in 0 .. FrameMax
    BY ConfAssumption
  <2>2. QED
    BY <1>1, <2>1 DEF RInv, TypeOK
<1>9. /\ wpin' \in [Insts -> Pins \cup {NoPin}] /\ wlvl' \in [Insts -> {0, 1}]
      /\ wpin'[i] = Pin(i) /\ wlvl'[i] = LvlOf(Label(i))
      /\ \A j \in Insts \ {i} : wpin'[j] = wpin[j] /\ wlvl'[j] = wlvl[j]
  BY <1>4, <1>5, <1>6 DEF RInv, TypeOK
<1>10. TypeOK'
  BY <1>1, <1>2, <1>7, <1>8, <1>9 DEF RInv, TypeOK
<1>11. Labelled'
  BY <1>1, <1>2 DEF RInv, Labelled
<1>12. Sending'
  <2> SUFFICES ASSUME NEW j \in Drivers, pc'[j] = "sending"
               PROVE  /\ wpin'[j] = Pin(j) /\ wlvl'[j] = Lvl(j)
                      /\ Dev(j) \notin Shared => level'[Pin(j)] = Lvl(j)
    BY DEF Sending, Dev
  <2>1. j \in Insts
    BY Configured
  <2>2. CASE j = i
    BY <1>4, <1>7, <1>9, <2>2
  <2>3. CASE j # i
    <3>1. pc[j] = "sending" /\ (Dev(j) \notin Shared => Dev(j) # Dev(i))
      BY <1>2, <2>1, <2>3
    <3>2. QED
      BY <1>7, <1>9, <2>1, <2>3, <3>1 DEF RInv, Sending
  <2>4. QED
    BY <2>2, <2>3
<1>13. NoDriver'
  BY <1>2, <1>9, Configured DEF RInv, NoDriver
<1>14. Rest'
  <2> SUFFICES ASSUME NEW j \in Drivers, user_data[Dev(j)] # Unset, AtRest(Dev(j))'
               PROVE  level'[Pin(j)] = Not(Lvl(j))
    BY <1>1 DEF Rest
  <2>1. Dev(j) # Dev(i)
    BY <1>2 DEF AtRest, Dev
  <2>2. AtRest(Dev(j))
    BY <1>2, <2>1 DEF AtRest, Dev
  <2>3. QED
    BY <1>7, <2>1, <2>2 DEF RInv, Rest
<1>15. QED
  BY <1>2, <1>10, <1>11, <1>12, <1>13, <1>14 DEF RInv

LEMMA CloseStep ==
    ASSUME RInv, NEW i \in Insts, CloseDevice(i) PROVE RInv'
<1>1. /\ pc[i] = "open" /\ Goto(i, "closed")
      /\ UNCHANGED <<left, wpin, wlvl, user_data, level, rx>>
  BY DEF CloseDevice, locals
<1>2. pc'[i] = "closed" /\ \A j \in Insts \ {i} : pc'[j] = pc[j]
  BY <1>1, Moves DEF RInv
<1>3. pc' \in [Insts -> {"closed", "opened", "labelled", "open", "sending", "flushing"}]
  BY <1>1 DEF RInv, TypeOK, Goto
<1>4. TypeOK'
  BY <1>1, <1>3 DEF RInv, TypeOK
<1>5. OneUser'
  BY <1>1, <1>2 DEF RInv, OneUser
<1>6. Labelled' /\ Sending' /\ NoDriver'
  BY <1>1, <1>2, Configured DEF RInv, Labelled, Sending, NoDriver
<1>7. Rest'
  <2> SUFFICES ASSUME NEW j \in Drivers, user_data[Dev(j)] # Unset, AtRest(Dev(j))'
               PROVE  level[Pin(j)] = Not(Lvl(j))
    BY <1>1 DEF Rest
  <2>1. AtRest(Dev(j))
    BY <1>1, <1>2 DEF AtRest, Dev
  <2>2. QED
    BY <2>1 DEF RInv, Rest
<1>8. QED
  BY <1>4, <1>5, <1>6, <1>7 DEF RInv

\* Reading, flushing and the bytes of a frame touch neither pins nor user_data.
LEMMA QuietStep ==
    ASSUME RInv, TypeOK', UNCHANGED <<wpin, wlvl, user_data, level>>,
           \A i \in Insts : \/ pc'[i] = pc[i]
                            \/ pc[i] \in {"open", "flushing"} /\ pc'[i] \in {"open", "flushing"}
    PROVE  RInv'
<1>1. OneUser' /\ Labelled'
  BY DEF RInv, OneUser, Labelled
<1>2. Sending' /\ NoDriver' /\ Rest'
  BY Configured DEF RInv, Sending, NoDriver, Rest, AtRest
<1>3. QED
  BY <1>1, <1>2 DEF RInv

LEMMA BytesStep ==
    ASSUME RInv, NEW i \in Insts, PutByte(i) \/ WriteFails(i) PROVE RInv'
<1>1. pc' = pc /\ UNCHANGED <<wpin, wlvl, user_data, level, rx>>
      /\ (left' = [left EXCEPT ![i] = left[i] - 1] \/ left' = [left EXCEPT ![i] = 0]) /\ left[i] > 0
  BY DEF PutByte, WriteFails
<1>2. \A n \in 0 .. FrameMax : n > 0 => n - 1 \in 0 .. FrameMax /\ 0 \in 0 .. FrameMax
  BY ConfAssumption
<1>3. left \in [Insts -> 0 .. FrameMax]
  BY DEF RInv, TypeOK
<1>4. left[i] - 1 \in 0 .. FrameMax /\ 0 \in 0 .. FrameMax
  BY <1>1, <1>2, <1>3
<1>5. left' \in [Insts -> 0 .. FrameMax]
  BY <1>1, <1>3, <1>4
<1>6. TypeOK'
  BY <1>1, <1>5 DEF RInv, TypeOK
<1>7. QED
  BY <1>1, <1>6, QuietStep

LEMMA RxType ==
    ASSUME TypeOK, NEW d \in Devs PROVE rx[d].has \in Nat /\ rx[d].due \in Nat
BY DEF TypeOK

LEMMA FlushStep ==
    ASSUME RInv, NEW i \in Insts, FlushBegins(i) \/ FlushReads(i) \/ Read(i) PROVE RInv'
<1>1. /\ UNCHANGED <<left, wpin, wlvl, user_data, level>>
      /\ pc[i] \in {"open", "flushing"}
      /\ pc' = pc \/ Goto(i, "open") \/ Goto(i, "flushing")
  BY DEF FlushBegins, FlushReads, Read, locals
<1>2. /\ pc' \in [Insts -> {"closed", "opened", "labelled", "open", "sending", "flushing"}]
      /\ \A j \in Insts : \/ pc'[j] = pc[j]
                          \/ pc[j] \in {"open", "flushing"} /\ pc'[j] \in {"open", "flushing"}
  BY <1>1 DEF RInv, TypeOK, Goto
<1>3. rx' \in [Devs -> [has : Nat, due : Nat]]
  <2>1. Dev(i) \in Devs
    BY Configured
  <2>2. rx \in [Devs -> [has : Nat, due : Nat]] /\ rx[Dev(i)].has \in Nat /\ 0 \in Nat
    BY <2>1, RxType DEF RInv, TypeOK
  <2>3. CASE FlushBegins(i)
    <3>1. PICK n \in 0 .. RxMax : rx' = [rx EXCEPT ![Dev(i)].due = n]
      BY <2>3 DEF FlushBegins
    <3>2. \A k \in 0 .. RxMax : k \in Nat
      BY ConfAssumption
    <3>3. n \in Nat
      BY <3>2
    <3>4. QED
      BY <2>1, <2>2, <3>1, <3>3
  <2>4. CASE FlushReads(i)
    <3>1. \A n \in Nat : n > 0 => n - 1 \in Nat
      OBVIOUS
    <3>2. \/ rx' = rx
          \/ /\ rx' = [rx EXCEPT ![Dev(i)].has = rx[Dev(i)].has - 1]
             /\ rx[Dev(i)].has > 0
      BY <2>4 DEF FlushReads
    <3>3. rx' = rx \/ \E n \in Nat : rx' = [rx EXCEPT ![Dev(i)].has = n]
      BY <2>2, <3>1, <3>2
    <3>4. QED
      BY <2>1, <2>2, <3>3
  <2>5. CASE Read(i)
    <3>1. rx' = [rx EXCEPT ![Dev(i)].has = 0]
      BY <2>5 DEF Read
    <3>2. QED
      BY <2>1, <2>2, <3>1
  <2>6. QED
    BY <2>3, <2>4, <2>5
<1>4. TypeOK'
  BY <1>1, <1>2, <1>3 DEF RInv, TypeOK
<1>5. QED
  BY <1>1, <1>2, <1>4, QuietStep

LEMMA ArrivesStep ==
    ASSUME RInv, NEW d \in Devs, Arrives(d) PROVE RInv'
<1>1. /\ UNCHANGED <<pc, left, wpin, wlvl, user_data, level>>
      /\ rx' = [rx EXCEPT ![d] = [has |-> rx[d].has + 1, due |-> rx[d].due - 1]]
      /\ rx[d].due > 0
  BY DEF Arrives, locals
<1>2. \A n \in Nat : n + 1 \in Nat /\ (n > 0 => n - 1 \in Nat)
  OBVIOUS
<1>3. rx[d].has + 1 \in Nat /\ rx[d].due - 1 \in Nat
  BY <1>1, <1>2, RxType DEF RInv
<1>4. rx' \in [Devs -> [has : Nat, due : Nat]]
  BY <1>1, <1>3 DEF RInv, TypeOK
<1>5. TypeOK'
  BY <1>1, <1>4 DEF RInv, TypeOK
<1>6. QED
  BY <1>1, <1>5, QuietStep

LEMMA RNext == RInv /\ [Next]_vars => RInv'
<1> SUFFICES ASSUME RInv, [Next]_vars PROVE RInv'
  OBVIOUS
<1>1. CASE UNCHANGED vars
  BY <1>1 DEF vars, locals, RInv, TypeOK, OneUser, Labelled, Sending, NoDriver, Rest, AtRest
<1>2. ASSUME NEW i \in Insts, Port(i) PROVE RInv'
  BY <1>2, OpenStep, LabelStep, InitPinStep, CloseStep, DriverOnStep, BytesStep,
     DriverOffStep, FlushStep DEF Port
<1>3. ASSUME NEW d \in Devs, Arrives(d) PROVE RInv'
  BY <1>3, ArrivesStep
<1>4. QED
  BY <1>1, <1>2, <1>3 DEF Next

LEMMA RttInvariant == Spec => []RInv
BY RInit, RNext, PTL DEF Spec

-----------------------------------------------------------------------------
(* Theorems.                                                               *)

\* Every variable of the port has its type: what is read back from user_data
\* is a pin.
THEOREM RttTypeOK == Spec => []TypeOK
<1>1. RInv => TypeOK
  BY DEF RInv
<1>2. QED
  BY <1>1, RttInvariant, PTL

\* mb_port_rtu_write: every byte of a frame goes out with the driver switched
\* on, for any devices, pins of 15 bits and levels, on each device that is
\* opened for one instance at a time.  Other devices do not disturb it, the
\* Shared ones included; a second instance of the same device would: its
\* mb_port_rtu_open switches the driver off.
THEOREM FramesGoOutDriven == Spec => []DriverOnWhileSending
<1>1. RInv => DriverOnWhileSending
  BY DEF RInv, Sending, DriverOnWhileSending, Pin, Lvl
<1>2. QED
  BY <1>1, RttInvariant, PTL

\* Once a device was opened its driver is off whenever nobody sends on it, also
\* after a write that failed and after mb_port_rtu_close, and however many
\* instances open, use and close the device at once.
THEOREM DriversAreReleased == Spec => []ReleasedAtRest
<1>1. RInv => ReleasedAtRest
  BY DEF RInv, Rest, AtRest, ReleasedAtRest, Pin, Lvl
<1>2. QED
  BY <1>1, RttInvariant, PTL

\* Nobody switches the driver of another line, though a write takes the pin
\* from a word of the device and not from its instance.
THEOREM PinsStayOwn == Spec => OnlyOwnPin
<1> DEFINE Own == \A p \in Pins : level'[p] # level[p] =>
                    \E i \in Insts : Conf[i].pin = p /\ pc'[i] # pc[i]
<1>1. ASSUME RInv, [Next]_vars PROVE [Own]_vars
  <2>1. CASE UNCHANGED vars
    BY <2>1
  <2>2. ASSUME NEW i \in Insts, NEW from, NEW to, NEW l,
               pc[i] = from, Goto(i, to), from # to, WritePin(Pin(i), l)
        PROVE  Own
    <3>1. pc'[i] # pc[i]
      BY <1>1, <2>2, Moves DEF RInv
    <3>2. \A p \in Pins : level'[p] # level[p] => p = Pin(i)
      BY <1>1, <2>2, Configured DEF WritePin, RInv, TypeOK
    <3>3. QED
      BY <3>1, <3>2 DEF Pin
  <2>3. ASSUME NEW i \in Insts, InitPin(i) PROVE Own
    BY <2>2, <2>3 DEF InitPin, Pin
  <2>4. ASSUME NEW i \in Insts, DriverOn(i) PROVE Own
    <3>1. PinOf(user_data[Dev(i)]) = Pin(i)
      BY <1>1, <2>4, Configured DEF DriverOn, RInv, Labelled
    <3>2. QED
      BY <2>2, <2>4, <3>1 DEF DriverOn
  <2>5. ASSUME NEW i \in Insts, DriverOff(i) PROVE Own
    <3>1. CASE i \in Drivers
      <4>1. wpin[i] = Pin(i)
        BY <1>1, <2>5, <3>1 DEF DriverOff, RInv, Sending
      <4>2. QED
        BY <2>2, <2>5, <4>1 DEF DriverOff
    <3>2. CASE i \notin Drivers
      <4>1. wpin[i] = NoPin
        BY <1>1, <2>5, <3>2 DEF DriverOff, RInv, NoDriver
      <4>2. level' = level
        BY <2>5, <4>1, Signs DEF DriverOff, WritePin
      <4>3. QED
        BY <4>2
    <3>3. QED
      BY <3>1, <3>2
  <2>6. ASSUME NEW i \in Insts, ~InitPin(i), ~DriverOn(i), ~DriverOff(i), Port(i) PROVE Own
    <3>1. level' = level
      BY <2>6 DEF Port, OpenDevice, SetUserData, CloseDevice, PutByte, WriteFails,
         FlushBegins, FlushReads, Read
    <3>2. QED
      BY <3>1
  <2>7. ASSUME NEW d \in Devs, Arrives(d) PROVE Own
    <3>1. level' = level
      BY <2>7 DEF Arrives
    <3>2. QED
      BY <3>1
  <2> HIDE DEF Own
  <2>8. QED
    BY <1>1, <2>1, <2>3, <2>4, <2>5, <2>6, <2>7 DEF Next
<1>2. QED
  BY <1>1, RttInvariant, PTL DEF Spec, OnlyOwnPin

===============================================================================
