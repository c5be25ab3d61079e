---------------------------- MODULE ModbusInstance ----------------------------
(***************************************************************************)
(* The life of mb_inst_t objects and of the descriptors behind them, in a  *)
(* process of several threads that each own an instance.  backend->hinst   *)
(* holds the descriptor as a pointer, and NULL means closed; the operating *)
(* system hands a released number to whoever opens something next.         *)
(***************************************************************************)
EXTENDS Integers, FiniteSets

CONSTANTS
    Devices,       \* instances of the RTU and the TCP backend
    Socks,         \* instances of the SOCK backend, made from accepted sockets
    Fds,           \* descriptors that the process may get
    CloseMayFail,  \* close() may report an error
    Listener,      \* mb_tcp_listen_srv, the thread that accepts connections
    Nobody         \* no instance

Insts == Devices \cup Socks

ASSUME InstanceAssumption ==
    /\ Devices \cap Socks = {}
    /\ Nobody \notin Insts /\ Listener \notin Insts /\ Nobody # Listener
    /\ Fds \subseteq Nat /\ CloseMayFail \in BOOLEAN

NULL == 0

VARIABLES
    live,      \* instances that exist
    hinst,     \* backend->hinst
    opening,   \* the local fd or sock of a port's open(), NULL outside it
    lsock,     \* the local sock of the listener, NULL if it has none
    listens,   \* the listener: "unborn", "binding", "yes", "ended"
    owner,     \* ENVIRONMENT: for whom a descriptor was opened
    inUse,     \* ENVIRONMENT: descriptors that are open
    accepted   \* connections the listener has not handed to a thread

listener == <<lsock, listens>>
vars == <<live, hinst, opening, listener, owner, inUse, accepted>>

Init ==
    /\ live = {} /\ inUse = {} /\ accepted = {}
    /\ hinst = [i \in Insts |-> NULL] /\ opening = [i \in Insts |-> NULL]
    /\ lsock = NULL /\ listens = "unborn"
    /\ owner = [f \in Fds |-> Nobody]

\* open, socket and accept return the lowest number that is free.
Lowest(f) == f \in Fds \ inUse /\ \A g \in Fds \ inUse : f <= g

\* The operating system opens f for i.
OpenedFor(f, i) ==
    Lowest(f) /\ inUse' = inUse \cup {f} /\ owner' = [owner EXCEPT ![f] = i]

-----------------------------------------------------------------------------
(* mb_tcp_listen_srv of mb_sample_tcp_srv_slave.c.                         *)

ListenSocket ==
    /\ listens = "unborn" /\ listens' = "binding"
    /\ \E f \in Fds : OpenedFor(f, Listener) /\ lsock' = f
    /\ UNCHANGED <<live, hinst, opening, accepted>>

Listen ==
    /\ listens = "binding" /\ listens' = "yes"
    /\ UNCHANGED <<live, hinst, opening, lsock, owner, inUse, accepted>>

\* bind or listen reports an error.
ListenFails ==
    /\ listens = "binding" /\ listens' = "ended"
    /\ inUse' = inUse \ {lsock} /\ lsock' = NULL
    /\ UNCHANGED <<live, hinst, opening, owner, accepted>>

\* It accepts one connection at a time.
Accept ==
    /\ listens = "yes" /\ accepted = {}
    /\ \E f \in Fds : OpenedFor(f, Nobody) /\ accepted' = {f}
    /\ UNCHANGED <<live, hinst, opening, listener>>

\* It starts a thread, whose mb_create takes the socket over; if there is no
\* thread to be had, the socket stays open with nobody to close it.
Spawn(i) ==
    /\ i \in Socks \ live
    /\ \E f \in accepted :
         /\ live' = live \cup {i} /\ hinst' = [hinst EXCEPT ![i] = f]
         /\ owner' = [owner EXCEPT ![f] = i]
    /\ accepted' = {} /\ UNCHANGED <<opening, listener, inUse>>

\* MUTANT of SpawnFails: the socket is closed, and handed over nevertheless.
SpawnFailsTwice ==
    /\ accepted # {} /\ inUse' = inUse \ accepted
    /\ UNCHANGED <<live, hinst, opening, listener, owner, accepted>>

SpawnFails ==
    /\ accepted # {} /\ accepted' = {}
    /\ UNCHANGED <<live, hinst, opening, listener, owner, inUse>>

-----------------------------------------------------------------------------
(* mb_create, mb_backend_open and the ports.                               *)

\* mb_create of a backend that opens its device itself: closed at first.
Create(i) ==
    /\ i \in Devices \ live
    /\ live' = live \cup {i} /\ hinst' = [hinst EXCEPT ![i] = NULL]
    /\ UNCHANGED <<opening, listener, owner, inUse, accepted>>

\* mb_backend_open of a closed backend, and the port's open() or socket().
PortOpen(i) ==
    /\ i \in Devices \cap live /\ hinst[i] = NULL /\ opening[i] = NULL
    /\ \E f \in Fds : OpenedFor(f, i) /\ opening' = [opening EXCEPT ![i] = f]
    /\ UNCHANGED <<live, hinst, listener, accepted>>

\* MUTANT of PortFails: an error path that leaves the device open.
PortFailsOpen(i) ==
    /\ opening[i] # NULL /\ opening' = [opening EXCEPT ![i] = NULL]
    /\ UNCHANGED <<live, hinst, listener, owner, inUse, accepted>>

\* The device cannot be configured, the host not be found or not be reached.
PortFails(i) ==
    /\ opening[i] # NULL /\ opening' = [opening EXCEPT ![i] = NULL]
    /\ inUse' = inUse \ {opening[i]}
    /\ UNCHANGED <<live, hinst, listener, owner, accepted>>

\* What the port returned is kept, as a pointer.
PortOpened(i) ==
    /\ opening[i] # NULL /\ opening' = [opening EXCEPT ![i] = NULL]
    /\ hinst' = [hinst EXCEPT ![i] = opening[i]]
    /\ UNCHANGED <<live, listener, owner, inUse, accepted>>

\* MUTANT of Close: the handle outlives a close that succeeded.
CloseKeeping(i) == hinst[i] # NULL /\ inUse' = inUse \ {hinst[i]} /\ UNCHANGED hinst

\* mb_backend_close: close() gives the number back also when it reports an
\* error, and reports one for a number that is not open.
Close(i) ==
    /\ hinst[i] # NULL
    /\ inUse' = inUse \ {hinst[i]}
    /\ \/ hinst[i] \in inUse /\ hinst' = [hinst EXCEPT ![i] = NULL]
       \/ (hinst[i] \notin inUse \/ CloseMayFail) /\ UNCHANGED hinst

\* mb_disconn; mb_recv and mb_send close the backend when they meet an error.
Disconnect(i) ==
    i \in live /\ Close(i) /\ UNCHANGED <<live, opening, listener, owner, accepted>>

\* mb_destory frees the instance whatever its close has returned.
Destroy(i) ==
    /\ i \in live /\ opening[i] = NULL /\ live' = live \ {i}
    /\ IF hinst[i] = NULL THEN UNCHANGED <<hinst, inUse>> ELSE Close(i)
    /\ UNCHANGED <<opening, listener, owner, accepted>>

Next ==
    \/ ListenSocket \/ Listen \/ ListenFails \/ Accept \/ SpawnFails
    \/ \E i \in Insts :
         \/ Create(i) \/ Spawn(i) \/ PortOpen(i) \/ PortFails(i) \/ PortOpened(i)
         \/ Disconnect(i) \/ Destroy(i)

Spec == Init /\ [][Next]_vars

-----------------------------------------------------------------------------
(* Properties.                                                             *)

TypeOK ==
    /\ live \subseteq Insts
    /\ hinst \in [Insts -> Fds \cup {NULL}] /\ opening \in [Insts -> Fds \cup {NULL}]
    /\ lsock \in Fds \cup {NULL} /\ listens \in {"unborn", "binding", "yes", "ended"}
    /\ owner \in [Fds -> Insts \cup {Listener, Nobody}]
    /\ inUse \subseteq Fds /\ accepted \subseteq inUse

\* The handle of an instance denotes the file opened for it: no thread reads,
\* writes or closes the connection of another, however numbers are reused.
HandlesAreOwn ==
    \A i \in live : hinst[i] # NULL => hinst[i] \in inUse /\ owner[hinst[i]] = i

\* A file opened for somebody is reachable from him until it is closed, also
\* while it is being opened and when that fails half way: no sequence of
\* failures and reconnections uses the descriptors up.
NoHandleLost ==
    \A f \in inUse :
        /\ owner[f] \in Insts => owner[f] \in live /\ f \in {hinst[owner[f]], opening[owner[f]]}
        /\ owner[f] = Listener => lsock = f

===============================================================================
