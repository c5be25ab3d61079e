------------------------- MODULE ModbusInstanceProofs -------------------------
(***************************************************************************)
(* Descriptors and handles, for any number of instances and descriptors:   *)
(* as long as close() never fails and no descriptor is 0, a handle denotes *)
(* the file opened for it and no file is lost.                             *)
(***************************************************************************)
EXTENDS ModbusInstance, TLAPS

USE InstanceAssumption

\* What somebody is opening is his, and not yet his handle; what the listener
\* has not handed over is nobody's.
OpeningOwn ==
    \A i \in Insts : opening[i] # NULL =>
        i \in live /\ hinst[i] = NULL /\ opening[i] \in inUse /\ owner[opening[i]] = i
ListenerOwn ==
    /\ lsock # NULL => lsock \in inUse /\ owner[lsock] = Listener
    /\ listens = "unborn" => lsock = NULL
    /\ listens = "binding" => lsock # NULL
AcceptedFree == \A f \in accepted : owner[f] = Nobody

IInv == TypeOK /\ HandlesAreOwn /\ NoHandleLost /\ OpeningOwn /\ ListenerOwn /\ AcceptedFree

LEMMA InvInit == Init => IInv
BY DEF Init, IInv, TypeOK, HandlesAreOwn, NoHandleLost, OpeningOwn, ListenerOwn, AcceptedFree

LEMMA ClosedHandle ==
    ASSUME IInv, ~CloseMayFail, NULL \notin Fds, NEW i \in live, Close(i)
    PROVE  /\ hinst[i] \in inUse /\ owner[hinst[i]] = i
           /\ inUse' = inUse \ {hinst[i]}
           /\ hinst' = [hinst EXCEPT ![i] = NULL]
BY DEF IInv, HandlesAreOwn, Close

\* Closing a handle keeps the invariant, also if the instance goes with it.
LEMMA CloseStep ==
    ASSUME IInv, ~CloseMayFail, NULL \notin Fds, NEW i \in live, Close(i),
           live' \in {live, live \ {i}}, UNCHANGED <<opening, listener, owner, accepted>>
    PROVE  IInv'
<1> DEFINE h == hinst[i]
<1>1. h \in inUse /\ owner[h] = i /\ inUse' = inUse \ {h} /\ h # NULL
  BY ClosedHandle DEF Close
<1>2. hinst' = [hinst EXCEPT ![i] = NULL]
  BY ClosedHandle
<1>3. h \notin accepted
  BY <1>1 DEF IInv, AcceptedFree, TypeOK
<1>4. hinst \in [Insts -> Fds \cup {NULL}] /\ live \subseteq Insts /\ i \in Insts
  BY DEF IInv, TypeOK
<1>5. hinst' \in [Insts -> Fds \cup {NULL}]
  BY <1>2, <1>4
<1>6. hinst'[i] = NULL /\ \A j \in Insts \ {i} : hinst'[j] = hinst[j]
  BY <1>2, <1>4
<1>7. opening[i] = NULL
  BY <1>1, <1>4 DEF IInv, OpeningOwn, h
<1> HIDE DEF h
<1>8. TypeOK' /\ AcceptedFree'
  BY <1>1, <1>3, <1>5 DEF IInv, TypeOK, AcceptedFree, listener
<1>9. HandlesAreOwn'
  <2> SUFFICES ASSUME NEW j \in live', hinst'[j] # NULL
               PROVE  hinst'[j] \in inUse' /\ owner[hinst'[j]] = j
    BY DEF HandlesAreOwn
  <2>1. j \in live /\ j # i /\ hinst'[j] = hinst[j]
    BY <1>4, <1>6
  <2>2. hinst[j] \in inUse /\ owner[hinst[j]] = j
    BY <2>1 DEF IInv, HandlesAreOwn
  <2>3. QED
    BY <1>1, <2>1, <2>2
<1>10. NoHandleLost'
  <2>1. ASSUME NEW f \in inUse', owner[f] \in Insts
        PROVE  owner[f] \in live' /\ f \in {hinst'[owner[f]], opening[owner[f]]}
    <3>1. f \in inUse /\ f # h
      BY <1>1, <2>1
    <3>2. owner[f] \in live /\ f \in {hinst[owner[f]], opening[owner[f]]}
      BY <2>1, <3>1 DEF IInv, NoHandleLost
    <3>3. f # NULL
      BY <3>1 DEF IInv, TypeOK
    <3>4. owner[f] # i
      BY <1>7, <3>1, <3>2, <3>3 DEF h
    <3>5. QED
      BY <1>4, <1>6, <3>2, <3>4
  <2>2. ASSUME NEW f \in inUse', owner[f] = Listener PROVE lsock = f
    BY <1>1, <2>2 DEF IInv, NoHandleLost
  <2>3. QED
    BY <2>1, <2>2 DEF NoHandleLost, listener
<1>11. OpeningOwn'
  <2> SUFFICES ASSUME NEW j \in Insts, opening[j] # NULL
               PROVE  j \in live' /\ hinst'[j] = NULL /\ opening[j] \in inUse'
                        /\ owner[opening[j]] = j
    BY DEF OpeningOwn
  <2>1. j # i
    BY <1>7
  <2>2. QED
    BY <1>1, <1>6, <2>1 DEF IInv, OpeningOwn
<1>12. ListenerOwn'
  <2>1. lsock # h
    BY <1>1, <1>4 DEF IInv, ListenerOwn
  <2>2. QED
    BY <1>1, <2>1 DEF IInv, ListenerOwn, listener
<1>13. QED
  BY <1>8, <1>9, <1>10, <1>11, <1>12 DEF IInv

\* The operating system hands out a number that no one has.
LEMMA OpenedStep ==
    ASSUME IInv, NULL \notin Fds, NEW f, NEW i \in Insts \cup {Listener, Nobody},
           OpenedFor(f, i)
    PROVE  /\ f \in Fds /\ f \notin inUse /\ f # NULL
           /\ inUse' = inUse \cup {f} /\ inUse' \subseteq Fds
           /\ owner' \in [Fds -> Insts \cup {Listener, Nobody}] /\ owner'[f] = i
           /\ \A g \in Fds \ {f} : owner'[g] = owner[g]
BY DEF IInv, TypeOK, OpenedFor, Lowest

LEMMA ListenerStep ==
    ASSUME IInv, NULL \notin Fds, ListenSocket \/ Listen \/ ListenFails
    PROVE  IInv'
<1> USE DEF IInv, TypeOK, HandlesAreOwn, NoHandleLost, OpeningOwn, ListenerOwn, AcceptedFree
<1>1. CASE ListenSocket
  <2>1. PICK f \in Fds : OpenedFor(f, Listener) /\ lsock' = f
    BY <1>1 DEF ListenSocket
  <2>2. /\ f \notin inUse /\ f # NULL /\ inUse' = inUse \cup {f} /\ inUse' \subseteq Fds
        /\ owner' \in [Fds -> Insts \cup {Listener, Nobody}] /\ owner'[f] = Listener
        /\ \A g \in Fds \ {f} : owner'[g] = owner[g]
    BY <2>1, OpenedStep
  <2>3. /\ lsock = NULL /\ listens' = "binding" /\ UNCHANGED <<live, hinst, opening, accepted>>
    BY <1>1 DEF ListenSocket
  <2>4. TypeOK' /\ AcceptedFree' /\ ListenerOwn'
    BY <2>1, <2>2, <2>3
  <2>5. HandlesAreOwn' /\ OpeningOwn'
    <3>1. \A g \in inUse : g \in inUse' /\ owner'[g] = owner[g]
      BY <2>2
    <3>2. HandlesAreOwn'
      BY <2>3, <3>1
    <3>3. OpeningOwn'
      BY <2>3, <3>1
    <3>4. QED
      BY <3>2, <3>3
  <2>6. NoHandleLost'
    BY <2>1, <2>2, <2>3
  <2>7. QED
    BY <2>4, <2>5, <2>6
<1>2. CASE Listen
  BY <1>2 DEF Listen
<1>3. CASE ListenFails
  <2>1. /\ lsock \in inUse /\ owner[lsock] = Listener /\ inUse' = inUse \ {lsock}
        /\ lsock' = NULL /\ listens' = "ended"
        /\ UNCHANGED <<live, hinst, opening, owner, accepted>>
    BY <1>3 DEF ListenFails
  <2>2. lsock \notin accepted
    BY <2>1
  <2>3. TypeOK' /\ AcceptedFree' /\ ListenerOwn'
    BY <2>1, <2>2
  <2>4. HandlesAreOwn' /\ OpeningOwn'
    BY <2>1
  <2>5. NoHandleLost'
    BY <2>1
  <2>6. QED
    BY <2>3, <2>4, <2>5
<1>4. QED
  BY <1>1, <1>2, <1>3

\* A port's open(): the device, and then an error or the handle.
LEMMA PortStep ==
    ASSUME IInv, NULL \notin Fds, NEW i \in Insts,
           PortOpen(i) \/ PortFails(i) \/ PortOpened(i)
    PROVE  IInv'
<1> USE DEF IInv, TypeOK, HandlesAreOwn, NoHandleLost, OpeningOwn, ListenerOwn, AcceptedFree
<1>1. CASE PortOpen(i)
  <2>1. PICK f \in Fds : OpenedFor(f, i) /\ opening' = [opening EXCEPT ![i] = f]
    BY <1>1 DEF PortOpen
  <2>2. /\ f \notin inUse /\ f # NULL /\ inUse' = inUse \cup {f} /\ inUse' \subseteq Fds
        /\ owner' \in [Fds -> Insts \cup {Listener, Nobody}] /\ owner'[f] = i
        /\ \A g \in Fds \ {f} : owner'[g] = owner[g]
    BY <2>1, OpenedStep
  <2>3. /\ i \in live /\ hinst[i] = NULL /\ opening[i] = NULL
        /\ UNCHANGED <<live, hinst, lsock, listens, accepted>>
    BY <1>1 DEF PortOpen, listener
  <2>4. opening'[i] = f /\ \A j \in Insts \ {i} : opening'[j] = opening[j]
    BY <2>1
  <2>5. TypeOK' /\ AcceptedFree' /\ ListenerOwn'
    BY <2>1, <2>2, <2>3
  <2>6. HandlesAreOwn' /\ OpeningOwn'
    <3>1. \A g \in inUse : g \in inUse' /\ owner'[g] = owner[g]
      BY <2>2
    <3>2. HandlesAreOwn'
      BY <2>3, <3>1
    <3>3. OpeningOwn'
      BY <2>2, <2>3, <2>4, <3>1
    <3>4. QED
      BY <3>2, <3>3
  <2>7. NoHandleLost'
    <3>1. ASSUME NEW g \in inUse', owner'[g] \in Insts
          PROVE  owner'[g] \in live /\ g \in {hinst[owner'[g]], opening'[owner'[g]]}
      <4>1. CASE g = f
        BY <2>2, <2>3, <2>4, <4>1
      <4>2. CASE g # f
        <5>1. g \in inUse /\ owner'[g] = owner[g] /\ g # NULL
          BY <2>2, <3>1, <4>2
        <5>2. owner[g] \in live /\ g \in {hinst[owner[g]], opening[owner[g]]}
          BY <3>1, <5>1
        <5>3. owner[g] # i
          BY <2>3, <5>1, <5>2
        <5>4. QED
          BY <2>4, <5>1, <5>2, <5>3
      <4>3. QED
        BY <4>1, <4>2
    <3>2. ASSUME NEW g \in inUse', owner'[g] = Listener PROVE lsock = g
      BY <2>2, <3>2
    <3>3. QED
      BY <2>3, <3>1, <3>2
  <2>8. QED
    BY <2>5, <2>6, <2>7
<1>2. ASSUME opening[i] # NULL, opening' = [opening EXCEPT ![i] = NULL]
      PROVE  /\ i \in live /\ hinst[i] = NULL /\ opening[i] \in inUse
             /\ owner[opening[i]] = i /\ opening[i] \in Fds
             /\ opening' \in [Insts -> Fds \cup {NULL}] /\ opening'[i] = NULL
             /\ \A j \in Insts \ {i} : opening'[j] = opening[j]
  BY <1>2
<1>3. CASE PortFails(i)
  <2>1. /\ i \in live /\ hinst[i] = NULL /\ opening[i] \in inUse /\ owner[opening[i]] = i
        /\ opening' \in [Insts -> Fds \cup {NULL}] /\ opening'[i] = NULL
        /\ \A j \in Insts \ {i} : opening'[j] = opening[j]
    BY <1>2, <1>3 DEF PortFails
  <2>2. /\ inUse' = inUse \ {opening[i]}
        /\ UNCHANGED <<live, hinst, lsock, listens, owner, accepted>>
    BY <1>3 DEF PortFails, listener
  <2>3. TypeOK' /\ AcceptedFree' /\ ListenerOwn'
    <3>1. opening[i] \notin accepted /\ (lsock # NULL => opening[i] # lsock)
      BY <2>1
    <3>2. TypeOK'
      BY <2>1, <2>2, <3>1
    <3>3. AcceptedFree' /\ ListenerOwn'
      BY <2>1, <2>2, <3>1
    <3>4. QED
      BY <3>2, <3>3
  <2>4. HandlesAreOwn' /\ OpeningOwn'
    BY <2>1, <2>2
  <2>5. NoHandleLost'
    <3>1. ASSUME NEW g \in inUse', owner[g] \in Insts
          PROVE  owner[g] \in live /\ g \in {hinst[owner[g]], opening'[owner[g]]}
      <4>1. g \in inUse /\ g # opening[i] /\ g # NULL
        BY <2>2
      <4>2. owner[g] \in live /\ g \in {hinst[owner[g]], opening[owner[g]]}
        BY <3>1, <4>1
      <4>3. owner[g] # i
        BY <2>1, <4>1, <4>2
      <4>4. QED
        BY <2>1, <4>2, <4>3
    <3>2. ASSUME NEW g \in inUse', owner[g] = Listener PROVE lsock = g
      BY <2>2, <3>2
    <3>3. QED
      BY <2>2, <3>1, <3>2
  <2>6. QED
    BY <2>3, <2>4, <2>5
<1>4. CASE PortOpened(i)
  <2>1. /\ i \in live /\ hinst[i] = NULL /\ opening[i] \in inUse /\ owner[opening[i]] = i
        /\ opening[i] \in Fds
        /\ opening' \in [Insts -> Fds \cup {NULL}] /\ opening'[i] = NULL
        /\ \A j \in Insts \ {i} : opening'[j] = opening[j]
    BY <1>2, <1>4 DEF PortOpened
  <2>2. /\ hinst' = [hinst EXCEPT ![i] = opening[i]]
        /\ UNCHANGED <<live, lsock, listens, owner, inUse, accepted>>
    BY <1>4 DEF PortOpened, listener
  <2>3. /\ hinst' \in [Insts -> Fds \cup {NULL}] /\ hinst'[i] = opening[i]
        /\ \A j \in Insts \ {i} : hinst'[j] = hinst[j]
    BY <2>1, <2>2
  <2>4. TypeOK' /\ AcceptedFree' /\ ListenerOwn'
    BY <2>1, <2>2, <2>3
  <2>5. HandlesAreOwn'
    BY <2>1, <2>2, <2>3
  <2>6. OpeningOwn'
    BY <2>1, <2>2, <2>3
  <2>7. NoHandleLost'
    <3>1. ASSUME NEW g \in inUse, owner[g] \in Insts
          PROVE  owner[g] \in live /\ g \in {hinst'[owner[g]], opening'[owner[g]]}
      <4>1. owner[g] \in live /\ g \in {hinst[owner[g]], opening[owner[g]]} /\ g # NULL
        BY <3>1
      <4>2. CASE owner[g] = i
        BY <2>1, <2>3, <4>1, <4>2
      <4>3. CASE owner[g] # i
        BY <2>1, <2>3, <3>1, <4>1, <4>3
      <4>4. QED
        BY <4>2, <4>3
    <3>2. QED
      BY <2>2, <3>1
  <2>8. QED
    BY <2>4, <2>5, <2>6, <2>7
<1>5. QED
  BY <1>1, <1>3, <1>4

\* What creates instances and takes connections.
LEMMA CreateStep ==
    ASSUME IInv, NULL \notin Fds,
           Accept \/ SpawnFails \/ \E i \in Insts : Create(i) \/ Spawn(i)
    PROVE  IInv'
<1> USE DEF IInv, TypeOK, HandlesAreOwn, NoHandleLost, OpeningOwn, ListenerOwn, AcceptedFree
<1>1. ASSUME NEW i \in Insts, Create(i) PROVE IInv'
  <2>1. /\ i \notin live /\ i \in Insts /\ live' = live \cup {i}
        /\ hinst' = [hinst EXCEPT ![i] = NULL]
        /\ UNCHANGED <<opening, lsock, listens, owner, inUse, accepted>>
    BY <1>1 DEF Create, listener
  <2>2. /\ hinst' \in [Insts -> Fds \cup {NULL}] /\ hinst'[i] = NULL
        /\ \A j \in Insts \ {i} : hinst'[j] = hinst[j]
    BY <2>1
  <2>3. TypeOK' /\ AcceptedFree' /\ ListenerOwn'
    BY <2>1, <2>2
  <2>4. HandlesAreOwn' /\ OpeningOwn'
    BY <2>1, <2>2
  <2>5. NoHandleLost'
    BY <2>1, <2>2
  <2>6. QED
    BY <2>3, <2>4, <2>5
<1>2. CASE Accept
  <2>1. PICK f \in Fds : OpenedFor(f, Nobody) /\ accepted' = {f}
    BY <1>2 DEF Accept
  <2>2. /\ f \notin inUse /\ f # NULL /\ inUse' = inUse \cup {f} /\ inUse' \subseteq Fds
        /\ owner' \in [Fds -> Insts \cup {Listener, Nobody}] /\ owner'[f] = Nobody
        /\ \A g \in Fds \ {f} : owner'[g] = owner[g]
    BY <2>1, OpenedStep
  <2>3. UNCHANGED <<live, hinst, opening, lsock, listens>>
    BY <1>2 DEF Accept, listener
  <2>4. TypeOK' /\ AcceptedFree' /\ ListenerOwn'
    BY <2>1, <2>2, <2>3
  <2>5. HandlesAreOwn' /\ OpeningOwn'
    <3>1. \A g \in inUse : g \in inUse' /\ owner'[g] = owner[g]
      BY <2>2
    <3>2. HandlesAreOwn'
      BY <2>3, <3>1
    <3>3. OpeningOwn'
      BY <2>3, <3>1
    <3>4. QED
      BY <3>2, <3>3
  <2>6. NoHandleLost'
    BY <2>2, <2>3
  <2>7. QED
    BY <2>4, <2>5, <2>6
<1>3. ASSUME NEW i \in Insts, Spawn(i) PROVE IInv'
  <2>1. PICK f \in accepted :
          /\ live' = live \cup {i} /\ hinst' = [hinst EXCEPT ![i] = f]
          /\ owner' = [owner EXCEPT ![f] = i]
    BY <1>3 DEF Spawn
  <2>2. /\ accepted' = {} /\ i \notin live
        /\ UNCHANGED <<opening, lsock, listens, inUse>>
    BY <1>3 DEF Spawn, listener
  <2>3. f \in inUse /\ owner[f] = Nobody /\ opening[i] = NULL /\ f \in Fds /\ f # NULL
    BY <2>1, <2>2
  <2>4. /\ hinst' \in [Insts -> Fds \cup {NULL}] /\ hinst'[i] = f
        /\ \A j \in Insts \ {i} : hinst'[j] = hinst[j]
        /\ owner' \in [Fds -> Insts \cup {Listener, Nobody}] /\ owner'[f] = i
        /\ \A g \in Fds \ {f} : owner'[g] = owner[g]
    BY <2>1, <2>3
  <2>5. TypeOK' /\ AcceptedFree' /\ ListenerOwn'
    BY <2>1, <2>2, <2>3, <2>4
  <2>6. HandlesAreOwn'
    BY <2>1, <2>2, <2>3, <2>4
  <2>7. OpeningOwn'
    BY <2>1, <2>2, <2>3, <2>4
  <2>8. NoHandleLost'
    <3>1. ASSUME NEW g \in inUse, owner'[g] \in Insts
          PROVE  owner'[g] \in live' /\ g \in {hinst'[owner'[g]], opening[owner'[g]]}
      <4>1. CASE g = f
        BY <2>1, <2>4, <4>1
      <4>2. CASE g # f
        BY <2>1, <2>2, <2>4, <3>1, <4>2
      <4>3. QED
        BY <4>1, <4>2
    <3>2. ASSUME NEW g \in inUse, owner'[g] = Listener PROVE lsock = g
      BY <2>4, <3>2
    <3>3. QED
      BY <2>2, <3>1, <3>2
  <2>9. QED
    BY <2>5, <2>6, <2>7, <2>8
<1>4. CASE SpawnFails
  BY <1>4 DEF SpawnFails, listener
<1>5. QED
  BY <1>1, <1>2, <1>3, <1>4

LEMMA InvStep ==
    ASSUME IInv, ~CloseMayFail, NULL \notin Fds, [Next]_vars
    PROVE  IInv'
<1>1. ASSUME NEW i \in Insts, Disconnect(i) PROVE IInv'
  <2>1. i \in live /\ Close(i) /\ UNCHANGED <<live, opening, listener, owner, accepted>>
    BY <1>1 DEF Disconnect
  <2>2. QED
    BY <2>1, CloseStep
<1>2. ASSUME NEW i \in Insts, Destroy(i) PROVE IInv'
  <2>1. /\ i \in live /\ live' = live \ {i} /\ opening[i] = NULL
        /\ UNCHANGED <<opening, listener, owner, accepted>>
    BY <1>2 DEF Destroy
  <2>2. CASE hinst[i] = NULL
    <3> USE DEF IInv, TypeOK, HandlesAreOwn, NoHandleLost, OpeningOwn, ListenerOwn, AcceptedFree
    <3>1. UNCHANGED <<hinst, inUse, lsock, listens>>
      BY <1>2, <2>1, <2>2 DEF Destroy, listener
    <3>2. \A f \in inUse : owner[f] # i
      BY <2>1, <2>2
    <3>3. TypeOK' /\ HandlesAreOwn' /\ AcceptedFree' /\ ListenerOwn' /\ OpeningOwn'
      BY <2>1, <3>1
    <3>4. NoHandleLost'
      BY <2>1, <3>1, <3>2
    <3>5. QED
      BY <3>3, <3>4
  <2>3. CASE hinst[i] # NULL
    BY <1>2, <2>1, <2>3, CloseStep DEF Destroy
  <2>4. QED
    BY <2>2, <2>3
<1>3. CASE UNCHANGED vars
  BY <1>3 DEF vars, listener, IInv, TypeOK, HandlesAreOwn, NoHandleLost, OpeningOwn, ListenerOwn,
              AcceptedFree
<1>4. QED
  BY <1>1, <1>2, <1>3, ListenerStep, PortStep, CreateStep DEF Next

\* The variables keep their types (mb_inst_t, the ports and the listener).
THEOREM InstanceTypeOK ==
    ASSUME ~CloseMayFail, NULL \notin Fds PROVE Spec => []TypeOK
<1>1. IInv => TypeOK
  BY DEF IInv
<1>2. QED
  BY InvInit, InvStep, <1>1, PTL DEF Spec

\* No thread ever works on the file of another, however the numbers of closed
\* descriptors are reused (mb_backend_open, mb_backend_close).
THEOREM HandlesStayOwn ==
    ASSUME ~CloseMayFail, NULL \notin Fds PROVE Spec => []HandlesAreOwn
<1>1. IInv => HandlesAreOwn
  BY DEF IInv
<1>2. QED
  BY InvInit, InvStep, <1>1, PTL DEF Spec

\* Nor is a file that was opened for somebody ever lost, on no error path.
THEOREM NoHandleIsLost ==
    ASSUME ~CloseMayFail, NULL \notin Fds PROVE Spec => []NoHandleLost
<1>1. IInv => NoHandleLost
  BY DEF IInv
<1>2. QED
  BY InvInit, InvStep, <1>1, PTL DEF Spec

===============================================================================
