------------------------------ MODULE RemoteCall ------------------------------
(***************************************************************************)
(* What a caller of the request functions may rely on (the comments above  *)
(* the prototypes in modbus.h): a call ends with a positive value only if  *)
(* the slave carried it out, with a negative one only if the slave refused *)
(* it, and otherwise with 0, which says nothing.  There is no line here:   *)
(* the slave may carry a call out at any moment after it began, even after *)
(* the caller gave up on it, but at most once and never both ways.         *)
(***************************************************************************)
EXTENDS Integers

CONSTANT MaxCalls

VARIABLES
    busy,       \* a call is in progress
    calls,      \* number of calls so far, and the number of the latest
    executed,   \* calls the slave carried out
    refused,    \* calls the slave answered by an exception
    sign        \* how the latest finished call ended: 1, -1 or 0

avars == <<busy, calls, executed, refused, sign>>

Init ==
    /\ busy = FALSE /\ calls = 0 /\ sign = 0
    /\ executed = {} /\ refused = {}

Begin ==
    /\ ~busy /\ calls < MaxCalls
    /\ busy' = TRUE /\ calls' = calls + 1
    /\ UNCHANGED <<executed, refused, sign>>

Decide(n) ==
    /\ n \notin executed \cup refused
    /\ \/ executed' = executed \cup {n} /\ UNCHANGED refused
       \/ refused' = refused \cup {n} /\ UNCHANGED executed
    /\ UNCHANGED <<busy, calls, sign>>

End ==
    /\ busy /\ busy' = FALSE
    /\ sign' \in {0} \cup (IF calls \in executed THEN {1} ELSE {})
                     \cup (IF calls \in refused THEN {-1} ELSE {})
    /\ UNCHANGED <<calls, executed, refused>>

Next == Begin \/ End \/ \E n \in 1 .. calls : Decide(n)

Spec == Init /\ [][Next]_avars
===============================================================================
