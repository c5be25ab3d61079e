---------------------------- MODULE RegisterServer ----------------------------
(***************************************************************************)
(* What a client that has the server for itself may rely on: a request     *)
(* takes effect in one step.  An answer means that all of it was done; an  *)
(* exception means that a prefix of its writes was, possibly all of them.  *)
(* A request is well-formed: it carries a value for each of its writes.    *)
(***************************************************************************)
EXTENDS ModbusRequest

CONSTANTS Requests, MaxReqs

VARIABLES
    mem,     \* the registers
    answer   \* outcome of the latest request

avars == <<mem, answer>>

Init ==
    /\ mem = [s \in Spaces |-> [a \in Bank[s] |-> {}]]
    /\ answer = [id |-> 0, kind |-> "none", data |-> <<>>]

\* The registers after the first k of r's writes.
Written(r, k) ==
    [s \in Spaces |-> [a \in Bank[s] |->
        IF s = Space(r.fc) /\ \E i \in 1 .. k : At(r.wa, i - 1) = a
        THEN r.wv[CHOOSE i \in 1 .. k : At(r.wa, i - 1) = a]
        ELSE mem[s][a]]]

ReadAll(m, r) == [i \in 1 .. r.rn |-> m[Space(r.fc)][At(r.ra, i - 1)]]

WritesInBank(r, k) == \A i \in 1 .. k : At(r.wa, i - 1) \in Bank[Space(r.fc)]
ReadsInBank(r)     == \A i \in 1 .. r.rn : At(r.ra, i - 1) \in Bank[Space(r.fc)]

Answer(id, kind, data) == answer' = [id |-> id, kind |-> kind, data |-> data]

\* A request other than a mask write is carried out.
Done(r, id) ==
    /\ r.fc \notin {"unknown", "mask_write"}
    /\ WritesInBank(r, Len(r.wv)) /\ ReadsInBank(r)
    /\ mem' = Written(r, Len(r.wv))
    /\ Answer(id, "ok", ReadAll(mem', r))

\* So is a mask write: the bits that val_and selects stay.
MaskDone(r, id) ==
    /\ r.fc = "mask_write" /\ r.wa \in Bank["hold"]
    /\ mem' = [mem EXCEPT !["hold"][r.wa] = Masked(@, r)]
    /\ Answer(id, "ok", <<>>)

\* Or it is refused, with a prefix of its writes done.
Refused(r, id) ==
    /\ \E k \in 0 .. Len(r.wv) : WritesInBank(r, k) /\ mem' = Written(r, k)
    /\ Answer(id, "exc", <<>>)

Next ==
    \E id \in (answer.id + 1) .. MaxReqs, r \in Requests :
        r.intact /\ (Done(r, id) \/ MaskDone(r, id) \/ Refused(r, id))

Spec == Init /\ [][Next]_avars
===============================================================================
