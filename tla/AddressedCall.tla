----------------------------- MODULE AddressedCall -----------------------------
(***************************************************************************)
(* What a line of one master and several slaves promises a caller: the     *)
(* slave it addressed carries the call out, once, while the call lasts,    *)
(* and no other slave does anything.  A call whose frames were disturbed   *)
(* may fail, carried out or not; any other succeeds.                       *)
(***************************************************************************)
EXTENDS Integers, Sequences

CONSTANTS Slaves, MaxCalls

VARIABLES
    n,         \* number of calls begun
    to,        \* the slave the latest call is for
    busy,      \* the latest call has not returned
    acted,     \* what the slaves carried out: [call, by], in order
    hurt,      \* calls with a disturbed frame
    okays      \* calls that returned success

avars == <<n, to, busy, acted, hurt, okays>>

Init ==
    /\ n = 0 /\ to \in Slaves /\ busy = FALSE
    /\ acted = <<>> /\ hurt = {} /\ okays = {}

Done == \E i \in DOMAIN acted : acted[i].call = n

\* The request is on the line; it may be disturbed.
Begin ==
    /\ ~busy /\ n < MaxCalls
    /\ n' = n + 1 /\ to' \in Slaves /\ busy' = TRUE
    /\ hurt' \in {hurt, hurt \cup {n + 1}}
    /\ UNCHANGED <<acted, okays>>

Act ==
    /\ busy /\ ~Done
    /\ acted' = Append(acted, [call |-> n, by |-> to])
    /\ UNCHANGED <<n, to, busy, hurt, okays>>

\* The reply is disturbed.
Hurt ==
    /\ busy /\ Done
    /\ hurt' = hurt \cup {n}
    /\ UNCHANGED <<n, to, busy, acted, okays>>

Succeed ==
    /\ busy /\ Done
    /\ busy' = FALSE /\ okays' = okays \cup {n}
    /\ UNCHANGED <<n, to, acted, hurt>>

Fail ==
    /\ busy /\ n \in hurt
    /\ busy' = FALSE
    /\ UNCHANGED <<n, to, acted, hurt, okays>>

Next == Begin \/ Act \/ Hurt \/ Succeed \/ Fail

Spec == Init /\ [][Next]_avars
===============================================================================
