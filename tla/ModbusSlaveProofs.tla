--------------------------- MODULE ModbusSlaveProofs ---------------------------
(***************************************************************************)
(* Proofs about ModbusSlave, for any connections, requests and registers.  *)
(***************************************************************************)
EXTENDS ModbusSlave, SequenceTheorems, TLAPS

-----------------------------------------------------------------------------
(* Requests and the callbacks they are made of.                            *)

Kinds    == {"read", "write", "mask"}
StepType == [kind : Kinds, addr : Addrs, i : Nat \ {0}]

LEMMA Constants ==
    /\ AddrMod \in Nat \ {0} /\ Bank \in [Spaces -> SUBSET Addrs]
    /\ AddrChk \in BOOLEAN /\ MbapChk \in BOOLEAN /\ Prot \in {"RTU", "TCP"}
    /\ Illegal \subseteq Vals /\ AppVals \subseteq Vals
    /\ DlenMod \in Nat \ {0} /\ MaxReqs \in Nat /\ Window \in Nat
    /\ \A r \in Requests : r \in RequestType /\ WellFormed(r)
BY SlaveAssumption, BankAssumption

\* u16 arithmetic stays in the address space.
LEMMA AtType == ASSUME NEW a \in Addrs, NEW i \in Nat PROVE At(a, i) \in Addrs
<1>1. a \in Nat /\ AddrMod \in Nat /\ AddrMod > 0
  BY Constants DEF Addrs
<1>2. \A n, m \in Nat : m > 0 => n % m \in 0 .. (m - 1)
  OBVIOUS
<1>3. QED
  BY <1>1, <1>2 DEF At, Addrs

LEMMA Joined ==
    ASSUME NEW S, NEW a \in Seq(S), NEW b \in Seq(S), NEW q, q = a \o b
    PROVE  /\ q \in Seq(S) /\ Len(q) = Len(a) + Len(b)
           /\ \A k \in 1 .. Len(a) : q[k] = a[k]
           /\ \A k \in 1 .. Len(b) : q[Len(a) + k] = b[k]
<1>1. Len(a) \in Nat /\ Len(b) \in Nat
  BY LenProperties
<1>2. /\ q \in Seq(S) /\ Len(q) = Len(a) + Len(b)
      /\ \A k \in 1 .. (Len(a) + Len(b)) :
           q[k] = IF k <= Len(a) THEN a[k] ELSE b[k - Len(a)]
  BY ConcatProperties
<1>3. \A k \in 1 .. Len(a) : k \in 1 .. (Len(a) + Len(b)) /\ k <= Len(a)
  BY <1>1
<1>4. \A k \in 1 .. Len(b) : /\ Len(a) + k \in 1 .. (Len(a) + Len(b))
                             /\ ~(Len(a) + k <= Len(a)) /\ (Len(a) + k) - Len(a) = k
  BY <1>1
<1>5. QED
  BY <1>2, <1>3, <1>4

LEMMA PlanParts ==
    ASSUME NEW r, NEW a \in Seq(StepType), NEW b \in Seq(StepType), Plan(r) = a \o b
    PROVE  /\ Plan(r) \in Seq(StepType) /\ Len(Plan(r)) = Len(a) + Len(b)
           /\ \A k \in 1 .. Len(a) : Plan(r)[k] = a[k]
           /\ \A k \in 1 .. Len(b) : Plan(r)[Len(a) + k] = b[k]
<1>1. ASSUME NEW q, q = a \o b
      PROVE  /\ q \in Seq(StepType) /\ Len(q) = Len(a) + Len(b)
             /\ \A k \in 1 .. Len(a) : q[k] = a[k]
             /\ \A k \in 1 .. Len(b) : q[Len(a) + k] = b[k]
  BY <1>1, Joined
<1>2. QED
  BY <1>1

\* s calls the callback for n items of one kind, from address a on.
CallsOf(s, kind, a, n) ==
    /\ s \in Seq(StepType) /\ Len(s) = n
    /\ \A k \in 1 .. n : s[k] = [kind |-> kind, addr |-> At(a, k - 1), i |-> k]

\* So do the steps that a plan is made of.
LEMMA CallsType ==
    ASSUME NEW kind \in Kinds, NEW a \in Addrs, NEW n \in Nat
    PROVE  CallsOf(Calls(kind, a, n), kind, a, n)
<1>1. ASSUME NEW k \in 1 .. n
      PROVE  [kind |-> kind, addr |-> At(a, k - 1), i |-> k] \in StepType
  <2>1. k \in Nat \ {0} /\ k - 1 \in Nat
    OBVIOUS
  <2>2. At(a, k - 1) \in Addrs
    BY <2>1, AtType
  <2>3. QED
    BY <2>1, <2>2 DEF StepType
<1>2. QED
  BY <1>1 DEF Calls, CallsOf

\* Writes come before reads, but for a mask write, which reads first.
LEMMA PlanSteps ==
    ASSUME NEW r \in RequestType
    PROVE  /\ Plan(r) \in Seq(StepType)
           /\ r.fc = "mask_write" =>
                /\ Len(Plan(r)) = 2
                /\ Plan(r)[1] = [kind |-> "read", addr |-> At(r.wa, 0), i |-> 1]
                /\ Plan(r)[2] = [kind |-> "mask", addr |-> At(r.wa, 0), i |-> 1]
           /\ r.fc # "mask_write" =>
                /\ Len(Plan(r)) = r.wn + r.rn
                /\ \A k \in 1 .. r.wn :
                     Plan(r)[k] = [kind |-> "write", addr |-> At(r.wa, k - 1), i |-> k]
                /\ \A k \in 1 .. r.rn :
                     Plan(r)[r.wn + k] = [kind |-> "read", addr |-> At(r.ra, k - 1), i |-> k]
<1>1. r.wa \in Addrs /\ r.ra \in Addrs /\ r.wn \in Nat /\ r.rn \in Nat /\ 1 \in Nat
  BY DEF RequestType
<1>2. "read" \in Kinds /\ "write" \in Kinds /\ "mask" \in Kinds
  BY DEF Kinds
<1>3. CASE r.fc = "mask_write"
  <2> DEFINE a == Calls("read", r.wa, 1)
             b == Calls("mask", r.wa, 1)
  <2>1. /\ a \in Seq(StepType) /\ Len(a) = 1
        /\ a[1] = [kind |-> "read", addr |-> At(r.wa, 0), i |-> 1]
        /\ b \in Seq(StepType) /\ Len(b) = 1
        /\ b[1] = [kind |-> "mask", addr |-> At(r.wa, 0), i |-> 1]
    <3>1. 1 \in 1 .. 1 /\ 1 - 1 = 0
      OBVIOUS
    <3>2. CallsOf(a, "read", r.wa, 1) /\ CallsOf(b, "mask", r.wa, 1)
      BY <1>1, <1>2, CallsType
    <3> HIDE DEF a, b
    <3>3. QED
      BY <3>1, <3>2 DEF CallsOf
  <2>2. Plan(r) = a \o b
    BY <1>3 DEF Plan
  <2> HIDE DEF a, b
  <2>3. /\ Plan(r) \in Seq(StepType) /\ Len(Plan(r)) = 2
        /\ Plan(r)[1] = a[1] /\ Plan(r)[2] = b[1]
    <3>1. a \in Seq(StepType) /\ b \in Seq(StepType) /\ Len(a) = 1 /\ Len(b) = 1
      BY <2>1
    <3>2. /\ Plan(r) \in Seq(StepType) /\ Len(Plan(r)) = Len(a) + Len(b)
          /\ \A k \in 1 .. Len(a) : Plan(r)[k] = a[k]
          /\ \A k \in 1 .. Len(b) : Plan(r)[Len(a) + k] = b[k]
      BY <2>2, <3>1, PlanParts
    <3>3. 1 \in 1 .. 1 /\ 1 + 1 = 2
      OBVIOUS
    <3>4. QED
      BY <3>1, <3>2, <3>3
  <2>4. QED
    BY <1>3, <2>1, <2>3
<1>4. CASE r.fc # "mask_write"
  <2> DEFINE a == Calls("write", r.wa, r.wn)
             b == Calls("read", r.ra, r.rn)
  <2>1. /\ a \in Seq(StepType) /\ Len(a) = r.wn
        /\ \A k \in 1 .. r.wn : a[k] = [kind |-> "write", addr |-> At(r.wa, k - 1), i |-> k]
        /\ b \in Seq(StepType) /\ Len(b) = r.rn
        /\ \A k \in 1 .. r.rn : b[k] = [kind |-> "read", addr |-> At(r.ra, k - 1), i |-> k]
    <3>1. CallsOf(a, "write", r.wa, r.wn) /\ CallsOf(b, "read", r.ra, r.rn)
      BY <1>1, <1>2, CallsType
    <3> HIDE DEF a, b
    <3>2. QED
      BY <3>1 DEF CallsOf
  <2>2. Plan(r) = a \o b
    BY <1>4 DEF Plan
  <2> HIDE DEF a, b
  <2>3. /\ Plan(r) \in Seq(StepType) /\ Len(Plan(r)) = r.wn + r.rn
        /\ \A k \in 1 .. r.wn : Plan(r)[k] = a[k]
        /\ \A k \in 1 .. r.rn : Plan(r)[r.wn + k] = b[k]
    <3>1. a \in Seq(StepType) /\ b \in Seq(StepType) /\ Len(a) = r.wn /\ Len(b) = r.rn
      BY <2>1
    <3>2. Plan(r) \in Seq(StepType) /\ Len(Plan(r)) = Len(a) + Len(b)
      BY <2>2, <3>1, PlanParts
    <3>4. \A k \in 1 .. Len(a) : Plan(r)[k] = a[k]
      BY <2>2, <3>1, PlanParts
    <3>5. \A k \in 1 .. Len(b) : Plan(r)[Len(a) + k] = b[k]
      BY <2>2, <3>1, PlanParts
    <3>3. QED
      BY <3>1, <3>2, <3>4, <3>5
  <2>4. QED
    BY <1>4, <2>1, <2>3
<1>5. QED
  BY <1>3, <1>4

\* The reply of a request has register values, as many as the u8 counts.
LEMMA CarriedType ==
    ASSUME NEW r \in RequestType, NEW d \in Seq(Vals)
    PROVE  Carried(r, d) \in Seq(Vals)
<1> DEFINE dlen == ItemBytes(r) % DlenMod
           n == IF Space(r.fc) \in {"coil", "disc"} THEN 8 * dlen ELSE dlen \div 2
           m == IF n < Len(d) THEN n ELSE Len(d)
<1>1. r.rn \in Nat
  BY DEF RequestType
<1>2. ItemBytes(r) \in Nat
  BY <1>1 DEF ItemBytes
<1>3. dlen \in Nat
  <2>1. \A k, j \in Nat : j > 0 => k % j \in Nat
    OBVIOUS
  <2>2. QED
    BY <1>2, <2>1, Constants
<1> HIDE DEF dlen
<1>4. n \in Nat
  BY <1>3
<1> HIDE DEF n
<1>5. Len(d) \in Nat /\ m \in Nat /\ m <= Len(d)
  BY <1>4, LenProperties
<1>6. Carried(r, d) = IF IsRead(r) THEN SubSeq(d, 1, m) ELSE <<>>
  BY DEF Carried, dlen, n
<1> HIDE DEF m
<1>7. SubSeq(d, 1, m) \in Seq(Vals)
  BY <1>5, SubSeqProperties, ElementOfSeq
<1>8. QED
  BY <1>6, <1>7

-----------------------------------------------------------------------------
(* The inductive invariant, in the parts the theorems rest on.             *)

\* Memory is an array for the model; EXCEPT wants the array of ghosts too.
Typed == TypeOK /\ DOMAIN before = Conns

\* What is being worked on passed every check of its frame.
Served(c) == pc[c] = "work" => ParseResult(job[c].r) = 1 /\ ForMe(job[c].r)

\* Of the k first callbacks of r, those that read.
ReadsMade(r, k) == IF r.fc = "mask_write" THEN k
                   ELSE IF k <= r.wn THEN 0 ELSE k - r.wn

Counted(c) == pc[c] = "work" => Len(datas[c]) = ReadsMade(job[c].r, done[c])

\* The newest request that left the inbox for an answer.
Taken(c) == IF pc[c] = "work" THEN job[c].id ELSE rsp[c].id

\* Between the reply made last and the request sent last, requests wait in
\* the order they came in.
Ordered(c) ==
    /\ acked[c].id <= rsp[c].id /\ rsp[c].id <= Taken(c) /\ Taken(c) <= sent[c]
    /\ pc[c] = "work"  => rsp[c].id < job[c].id
    /\ pc[c] = "reply" => acked[c].id < rsp[c].id
    /\ \A i \in 1 .. Len(inbox[c]) :
         /\ Taken(c) < inbox[c][i].id /\ inbox[c][i].id <= sent[c]
         /\ \A j \in 1 .. Len(inbox[c]) : i < j => inbox[c][i].id < inbox[c][j].id

SlaveInv == Typed /\ \A c \in Conns : Served(c) /\ Counted(c) /\ Ordered(c)

-----------------------------------------------------------------------------
(* What the operators of a step return.                                    *)

LEMMA Dropped ==
    ASSUME NEW S, NEW q \in Seq(S), NEW k \in 1 .. Len(q)
    PROVE  /\ SubSeq(q, k + 1, Len(q)) \in Seq(S)
           /\ Len(SubSeq(q, k + 1, Len(q))) = Len(q) - k
           /\ \A i \in 1 .. (Len(q) - k) :
                /\ SubSeq(q, k + 1, Len(q))[i] = q[k + i]
                /\ k + i \in 1 .. Len(q)
<1> DEFINE n == Len(q)
<1>1. n \in Nat /\ k \in 1 .. n
  BY LenProperties
<1>2. \A i \in (k + 1) .. n : q[i] \in S
  BY <1>1, ElementOfSeq
<1> HIDE DEF n
<1>3. k + 1 \in Int /\ n \in Int /\ n - (k + 1) + 1 = n - k
  BY <1>1
<1>4. /\ SubSeq(q, k + 1, n) \in Seq(S)
      /\ Len(SubSeq(q, k + 1, n)) = IF k + 1 <= n THEN n - (k + 1) + 1 ELSE 0
      /\ \A i \in 1 .. n - (k + 1) + 1 : SubSeq(q, k + 1, n)[i] = q[(k + 1) + i - 1]
  BY <1>2, <1>3, SubSeqProperties
<1>5. Len(SubSeq(q, k + 1, n)) = n - k
  BY <1>1, <1>4
<1>6. ASSUME NEW i \in 1 .. (n - k)
      PROVE  SubSeq(q, k + 1, n)[i] = q[k + i] /\ k + i \in 1 .. n
  <2>1. i \in 1 .. n - (k + 1) + 1 /\ (k + 1) + i - 1 = k + i /\ k + i \in 1 .. n
    BY <1>1, <1>3
  <2>2. QED
    BY <1>4, <2>1
<1>7. QED
  BY <1>4, <1>5, <1>6 DEF n

LEMMA RequestKnown ==
    ASSUME NEW f \in Pending
    PROVE  /\ f.id \in 1 .. MaxReqs /\ f.r \in RequestType /\ WellFormed(f.r)
           /\ f.r \in Requests /\ f.r.fc \in Fcs /\ Plan(f.r) \in Seq(StepType)
           /\ Len(Plan(f.r)) \in Nat
<1>1. f.id \in 1 .. MaxReqs /\ f.r \in Requests
  BY DEF Pending
<1>2. f.r \in RequestType /\ WellFormed(f.r)
  BY <1>1, Constants
<1>3. f.r.fc \in Fcs
  BY <1>2 DEF RequestType
<1>4. Plan(f.r) \in Seq(StepType)
  BY <1>2, PlanSteps
<1>5. Len(Plan(f.r)) \in Nat
  BY <1>4, LenProperties
<1>6. QED
  BY <1>1, <1>2, <1>3, <1>4, <1>5

LEMMA OkType ==
    ASSUME NEW f \in Pending, NEW d \in Seq(Vals)
    PROVE  Ok(f, d) \in Replies
<1>1. Carried(f.r, d) \in Seq(Vals)
  BY RequestKnown, CarriedType
<1>2. f.id \in 0 .. MaxReqs /\ f.r.fc \in Fcs
  BY RequestKnown, Constants
<1>3. QED
  BY <1>1, <1>2 DEF Ok, Replies

LEMMA ExcType ==
    ASSUME NEW id \in 0 .. MaxReqs, NEW fc \in Fcs \cup AnyFc, NEW ec \in 0 .. 4
    PROVE  Exc(id, fc, ec) \in Replies
<1>1. <<>> \in Seq(Vals)
  BY EmptySeq
<1>2. QED
  BY <1>1 DEF Exc, Replies

\* A step concerns one connection.
Only(c, f, g) == g = [f EXCEPT ![c] = g[c]]
Same(d) ==
    /\ pc'[d] = pc[d] /\ sent'[d] = sent[d] /\ inbox'[d] = inbox[d]
    /\ job'[d] = job[d] /\ done'[d] = done[d] /\ datas'[d] = datas[d]
    /\ rsp'[d] = rsp[d] /\ acked'[d] = acked[d]

LEMMA SameKeeps ==
    ASSUME NEW d \in Conns, Same(d), Served(d), Counted(d), Ordered(d)
    PROVE  Served(d)' /\ Counted(d)' /\ Ordered(d)'
<1>1. Served(d)'
  BY DEF Same, Served
<1>2. Counted(d)'
  BY DEF Same, Counted
<1>3. Taken(d)' = Taken(d)
  BY DEF Same, Taken
<1>4. Ordered(d)'
  BY <1>3 DEF Same, Ordered
<1>5. QED
  BY <1>1, <1>2, <1>4

Dealt(c, f) ==
    /\ Only(c, pc, pc') /\ Only(c, rsp, rsp')
    /\ rsp'[c] \in Replies /\ pc'[c] \in {"recv", "work", "reply"}
    /\ pc'[c] # "reply" => rsp' = rsp
    /\ pc'[c] = "work" => /\ ParseResult(f.r) = 1 /\ ForMe(f.r)
                          /\ 0 < Len(Plan(f.r))
    /\ pc'[c] = "reply" => rsp'[c].id = f.id
    /\ pc'[c] # "recv" => ParseResult(f.r) # 0 /\ ForMe(f.r)
    /\ pc'[c] = "reply" => \/ /\ rsp'[c] = Ok(f, <<>>) /\ rsp'[c].kind = "ok"
                              /\ Plan(f.r) = <<>> /\ ParseResult(f.r) = 1
                           \/ rsp'[c].kind = "exc" /\ rsp'[c].data = <<>>

LEMMA DealDoes ==
    ASSUME TypeOK, NEW c \in Conns, NEW f \in Pending, pc[c] = "recv", Deal(c, f)
    PROVE  Dealt(c, f)
<1>1. /\ f.id \in 0 .. MaxReqs /\ f.r.fc \in Fcs /\ Plan(f.r) \in Seq(StepType)
      /\ 1 \in 0 .. 4 /\ 3 \in 0 .. 4 /\ 4 \in 0 .. 4
  BY RequestKnown, Constants
<1>2. /\ pc \in [Conns -> {"closed", "recv", "work", "reply"}] /\ rsp \in [Conns -> Replies]
  BY DEF TypeOK
<1>3. ParseResult(f.r) \in {-1, 0, 1}
  BY DEF ParseResult
<1>4. CASE UNCHANGED <<pc, rsp>>
  BY <1>2, <1>4 DEF Only, Dealt
<1>5. ASSUME NEW reply \in Replies, Respond(c, reply), reply.id = f.id,
             ParseResult(f.r) # 0, ForMe(f.r),
             \/ /\ reply = Ok(f, <<>>) /\ reply.kind = "ok"
                /\ Plan(f.r) = <<>> /\ ParseResult(f.r) = 1
             \/ reply.kind = "exc" /\ reply.data = <<>>
      PROVE  Dealt(c, f)
  BY <1>2, <1>5 DEF Respond, Turn, Only, Dealt
<1>6. ASSUME NEW fc \in Fcs \cup AnyFc, NEW ec \in 0 .. 4, Respond(c, Exc(f.id, fc, ec)),
             ParseResult(f.r) # 0, ForMe(f.r)
      PROVE  Dealt(c, f)
  <2>1. Exc(f.id, fc, ec) \in Replies
    BY <1>1, ExcType
  <2>2. /\ Exc(f.id, fc, ec).id = f.id /\ Exc(f.id, fc, ec).kind = "exc"
        /\ Exc(f.id, fc, ec).data = <<>>
    BY DEF Exc
  <2>3. QED
    BY <1>5, <1>6, <2>1, <2>2
<1>7. CASE Plan(f.r) = <<>> /\ Respond(c, Ok(f, <<>>)) /\ ParseResult(f.r) = 1 /\ ForMe(f.r)
  <2>1. <<>> \in Seq(Vals)
    BY EmptySeq
  <2>2. Ok(f, <<>>) \in Replies
    BY <2>1, OkType
  <2>3. Ok(f, <<>>).id = f.id /\ Ok(f, <<>>).kind = "ok"
    BY DEF Ok
  <2>4. QED
    BY <1>5, <1>7, <2>2, <2>3
<1>8. CASE /\ ParseResult(f.r) = 1 /\ ForMe(f.r) /\ Plan(f.r) # <<>>
           /\ Turn(c, "work") /\ UNCHANGED rsp
  <2>1. Len(Plan(f.r)) \in Nat \ {0}
    BY <1>1, <1>8, EmptySeq
  <2>2. QED
    BY <1>2, <1>8, <2>1 DEF Turn, Only, Dealt
<1>9. \/ UNCHANGED <<pc, rsp>>
      \/ /\ ParseResult(f.r) # 0 /\ ForMe(f.r)
         /\ \/ \E fc \in AnyFc : Respond(c, Exc(f.id, fc, 1))
            \/ Respond(c, Exc(f.id, f.r.fc, 4)) \/ Respond(c, Exc(f.id, f.r.fc, 3))
      \/ Plan(f.r) = <<>> /\ Respond(c, Ok(f, <<>>)) /\ ParseResult(f.r) = 1 /\ ForMe(f.r)
      \/ /\ ParseResult(f.r) = 1 /\ ForMe(f.r) /\ Plan(f.r) # <<>>
         /\ Turn(c, "work") /\ UNCHANGED rsp
  BY <1>3 DEF Deal
<1>10. QED
  BY <1>1, <1>4, <1>6, <1>7, <1>8, <1>9

\* The callback that is due.
LEMMA StepKnown ==
    ASSUME TypeOK, NEW c \in Conns, pc[c] = "work"
    PROVE  LET r == job[c].r IN
           /\ job[c] \in Pending /\ done[c] \in Nat /\ done[c] < Len(Plan(r))
           /\ r.wn \in Nat /\ r.rn \in Nat /\ Step(c) \in StepType
           /\ r.fc = "mask_write" => Len(Plan(r)) = 2
           /\ r.fc = "mask_write" /\ done[c] = 0 =>
                Step(c) = [kind |-> "read", addr |-> At(r.wa, 0), i |-> 1]
           /\ r.fc = "mask_write" /\ done[c] = 1 =>
                Step(c) = [kind |-> "mask", addr |-> At(r.wa, 0), i |-> 1]
           /\ r.fc # "mask_write" => Len(Plan(r)) = r.wn + r.rn
           /\ r.fc # "mask_write" /\ done[c] < r.wn =>
                Step(c) = [kind |-> "write", addr |-> At(r.wa, done[c]), i |-> done[c] + 1]
           /\ r.fc # "mask_write" /\ ~(done[c] < r.wn) =>
                Step(c) = [kind |-> "read", addr |-> At(r.ra, done[c] - r.wn),
                           i |-> done[c] - r.wn + 1]
<1> DEFINE r == job[c].r
           n == done[c]
<1>1. job[c] \in Pending /\ n \in Nat /\ n < Len(Plan(r))
  BY DEF TypeOK
<1>2. /\ r \in RequestType /\ Plan(r) \in Seq(StepType) /\ Len(Plan(r)) \in Nat
      /\ r.wn \in Nat /\ r.rn \in Nat
  BY <1>1, RequestKnown DEF RequestType
<1>3. Step(c) = Plan(r)[n + 1]
  BY DEF Step
<1>4. /\ r.fc = "mask_write" =>
           /\ Len(Plan(r)) = 2
           /\ Plan(r)[1] = [kind |-> "read", addr |-> At(r.wa, 0), i |-> 1]
           /\ Plan(r)[2] = [kind |-> "mask", addr |-> At(r.wa, 0), i |-> 1]
      /\ r.fc # "mask_write" =>
           /\ Len(Plan(r)) = r.wn + r.rn
           /\ \A k \in 1 .. r.wn :
                Plan(r)[k] = [kind |-> "write", addr |-> At(r.wa, k - 1), i |-> k]
           /\ \A k \in 1 .. r.rn :
                Plan(r)[r.wn + k] = [kind |-> "read", addr |-> At(r.ra, k - 1), i |-> k]
  BY <1>2, PlanSteps
<1> HIDE DEF r, n
<1>5. Step(c) \in StepType
  <2>1. n + 1 \in 1 .. Len(Plan(r))
    BY <1>1, <1>2
  <2>2. QED
    BY <1>2, <1>3, <2>1, ElementOfSeq
<1>6. ASSUME r.fc = "mask_write"
      PROVE  /\ n = 0 => Step(c) = [kind |-> "read", addr |-> At(r.wa, 0), i |-> 1]
             /\ n = 1 => Step(c) = [kind |-> "mask", addr |-> At(r.wa, 0), i |-> 1]
  BY <1>3, <1>4, <1>6
<1>7. ASSUME r.fc # "mask_write", n < r.wn
      PROVE  Step(c) = [kind |-> "write", addr |-> At(r.wa, n), i |-> n + 1]
  <2>1. n + 1 \in 1 .. r.wn /\ (n + 1) - 1 = n
    BY <1>1, <1>2, <1>7
  <2>2. QED
    BY <1>3, <1>4, <1>7, <2>1
<1>8. ASSUME r.fc # "mask_write", ~(n < r.wn)
      PROVE  Step(c) = [kind |-> "read", addr |-> At(r.ra, n - r.wn), i |-> n - r.wn + 1]
  <2> DEFINE k == n - r.wn + 1
  <2>1. k \in 1 .. r.rn /\ k - 1 = n - r.wn /\ r.wn + k = n + 1
    BY <1>1, <1>2, <1>4, <1>8
  <2>2. Plan(r)[r.wn + k] = [kind |-> "read", addr |-> At(r.ra, k - 1), i |-> k]
    BY <1>4, <1>8, <2>1
  <2>3. QED
    BY <1>3, <2>1, <2>2
<1>9. QED
  BY <1>1, <1>2, <1>4, <1>5, <1>6, <1>7, <1>8 DEF r, n

\* What a callback does to its connection: it succeeds, and is the last one or
\* not, or it fails.
Called(c) ==
    /\ UNCHANGED <<conn, inbox, job, acked, before>>
    /\ Only(c, pc, pc') /\ Only(c, rsp, rsp') /\ Only(c, done, done') /\ Only(c, datas, datas')
    /\ rsp'[c] \in Replies /\ datas'[c] \in Seq(Vals)
    /\ \/ /\ done'[c] = done[c] + 1
          /\ Len(datas'[c]) = IF Step(c).kind = "read" THEN Len(datas[c]) + 1
                              ELSE Len(datas[c])
          /\ \/ pc'[c] = "work" /\ done'[c] < Len(Plan(job[c].r)) /\ rsp'[c] = rsp[c]
             \/ /\ pc'[c] = "reply" /\ done'[c] = Len(Plan(job[c].r))
                /\ rsp'[c] = Ok(job[c], datas'[c])
       \/ /\ pc'[c] = "reply" /\ done'[c] = done[c] /\ datas'[c] = datas[c]
          /\ rsp'[c].kind = "exc" /\ rsp'[c].id = job[c].id /\ rsp'[c].data = <<>>

LEMMA AdvanceDoes ==
    ASSUME TypeOK, NEW c \in Conns, pc[c] = "work", NEW d \in Seq(Vals), Advance(c, d),
           Len(d) = IF Step(c).kind = "read" THEN Len(datas[c]) + 1 ELSE Len(datas[c]),
           UNCHANGED <<conn, inbox, job, acked, before>>
    PROVE  Called(c)
<1>1. /\ job[c] \in Pending /\ done[c] \in Nat /\ done[c] < Len(Plan(job[c].r))
      /\ Len(Plan(job[c].r)) \in Nat
  BY StepKnown, RequestKnown
<1>2. Ok(job[c], d) \in Replies
  BY <1>1, OkType
<1>3. /\ pc \in [Conns -> {"closed", "recv", "work", "reply"}] /\ rsp \in [Conns -> Replies]
      /\ done \in [Conns -> Nat] /\ datas \in [Conns -> Seq(Vals)]
  BY DEF TypeOK
<1>4. /\ done' = [done EXCEPT ![c] = done[c] + 1] /\ datas' = [datas EXCEPT ![c] = d]
      /\ done'[c] = done[c] + 1 /\ datas'[c] = d
  BY <1>3 DEF Advance
<1>5. CASE done[c] + 1 < Len(Plan(job[c].r)) /\ UNCHANGED <<pc, rsp>>
  BY <1>3, <1>4, <1>5 DEF Called, Only
<1>6. CASE ~(done[c] + 1 < Len(Plan(job[c].r))) /\ Respond(c, Ok(job[c], d))
  <2>1. done[c] + 1 = Len(Plan(job[c].r))
    BY <1>1, <1>6
  <2>2. QED
    BY <1>2, <1>3, <1>4, <1>6, <2>1 DEF Called, Only, Respond, Turn
<1>7. QED
  BY <1>5, <1>6 DEF Advance

LEMMA AbortDoes ==
    ASSUME TypeOK, NEW c \in Conns, pc[c] = "work", NEW ec \in 0 .. 4, Abort(c, ec),
           UNCHANGED <<conn, inbox, job, acked, before>>
    PROVE  Called(c)
<1>1. job[c] \in Pending
  BY StepKnown
<1>2. Exc(job[c].id, job[c].r.fc, ec) \in Replies
  <2>1. job[c].id \in 0 .. MaxReqs /\ job[c].r.fc \in Fcs \cup AnyFc
    BY <1>1, RequestKnown, Constants
  <2>2. QED
    BY <2>1, ExcType
<1>3. /\ pc \in [Conns -> {"closed", "recv", "work", "reply"}] /\ rsp \in [Conns -> Replies]
      /\ done \in [Conns -> Nat] /\ datas \in [Conns -> Seq(Vals)]
  BY DEF TypeOK
<1>4. /\ Exc(job[c].id, job[c].r.fc, ec).kind = "exc"
      /\ Exc(job[c].id, job[c].r.fc, ec).id = job[c].id
      /\ Exc(job[c].id, job[c].r.fc, ec).data = <<>>
  BY DEF Exc
<1>5. QED
  BY <1>2, <1>3, <1>4 DEF Called, Only, Abort, Respond, Turn

LEMMA SpaceType == \A fc : Space(fc) \in Spaces
BY DEF Space, Spaces

LEMMA ReadCbDoes ==
    ASSUME TypeOK, NEW c \in Conns, ReadCb(c)
    PROVE  Called(c) /\ pc[c] = "work" /\ UNCHANGED mem
<1>1. pc[c] = "work" /\ Step(c).kind = "read" /\ UNCHANGED <<conn, inbox, job, acked, mem, before>>
  BY DEF ReadCb
<1>2. CASE Abort(c, 2)
  BY <1>1, <1>2, AbortDoes
<1>3. CASE /\ Step(c).addr \in Bank[TableOf(c)]
           /\ Advance(c, Append(datas[c], mem[TableOf(c)][Step(c).addr]))
  <2> DEFINE v == mem[TableOf(c)][Step(c).addr]
  <2>1. v \in Vals
    BY <1>3, SpaceType DEF TypeOK, IsMemory, TableOf
  <2>2. datas[c] \in Seq(Vals)
    BY DEF TypeOK
  <2> HIDE DEF v
  <2>3. Append(datas[c], v) \in Seq(Vals) /\ Len(Append(datas[c], v)) = Len(datas[c]) + 1
    BY <2>1, <2>2, AppendProperties
  <2>4. Advance(c, Append(datas[c], v))
    BY <1>3 DEF v
  <2>5. QED
    BY <1>1, <2>3, <2>4, AdvanceDoes
<1>4. QED
  BY <1>2, <1>3 DEF ReadCb

LEMMA ValuesType ==
    ASSUME TypeOK, NEW c \in Conns, pc[c] = "work"
    PROVE  ValuesToWrite(c) \subseteq Vals
<1>1. job[c].r \in RequestType /\ Step(c) \in StepType
  BY StepKnown, RequestKnown
<1>2. job[c].r.mand \subseteq Bits /\ job[c].r.mor \subseteq Bits /\ job[c].r.wv \in Seq(Vals)
  BY <1>1 DEF RequestType, Vals
<1>3. Masked(datas[c][1], job[c].r) \in Vals
  BY <1>2 DEF Masked, Vals
<1>4. ASSUME Step(c).i <= Len(job[c].r.wv)
      PROVE  job[c].r.wv[Step(c).i] \in Vals
  <2>1. Step(c).i \in Nat \ {0} /\ Len(job[c].r.wv) \in Nat
    BY <1>1, <1>2, LenProperties DEF StepType
  <2>2. Step(c).i \in 1 .. Len(job[c].r.wv)
    BY <1>4, <2>1
  <2>3. QED
    BY <1>2, <2>2, ElementOfSeq
<1>5. {} \in Vals /\ Bits \in Vals
  BY DEF Vals
<1>6. QED
  BY <1>3, <1>4, <1>5 DEF ValuesToWrite

\* A value is written where the callback said.
Written(c) == \E v \in ValuesToWrite(c) :
    mem' = [mem EXCEPT ![TableOf(c)][Step(c).addr] = v]

LEMMA WriteCbDoes ==
    ASSUME TypeOK, NEW c \in Conns, WriteCb(c)
    PROVE  /\ Called(c) /\ pc[c] = "work" /\ Step(c).kind \in {"write", "mask"}
           /\ \/ UNCHANGED <<mem, done>>
              \/ /\ Step(c).addr \in Bank[TableOf(c)] /\ Written(c)
                 /\ done'[c] = done[c] + 1 /\ datas'[c] = datas[c]
<1>1. /\ pc[c] = "work" /\ Step(c).kind \in {"write", "mask"}
      /\ UNCHANGED <<conn, inbox, job, acked, before>>
  BY DEF WriteCb
<1>2. PICK v \in ValuesToWrite(c) :
         IF Step(c).addr \notin Bank[TableOf(c)] THEN Abort(c, 2) /\ UNCHANGED mem
         ELSE \/ /\ TableOf(c) = "coil" \/ v \notin Illegal
                 /\ mem' = [mem EXCEPT ![TableOf(c)][Step(c).addr] = v]
                 /\ Advance(c, datas[c])
              \/ /\ TableOf(c) = "hold" /\ v \in Illegal
                 /\ Abort(c, 3) /\ UNCHANGED mem
              \/ Faulty /\ Abort(c, 4) /\ UNCHANGED mem
  BY DEF WriteCb
<1>3. ASSUME NEW ec \in 0 .. 4, Abort(c, ec), UNCHANGED mem
      PROVE  Called(c) /\ UNCHANGED <<mem, done>>
  BY <1>1, <1>3, AbortDoes DEF Abort
<1>4. CASE /\ Step(c).addr \in Bank[TableOf(c)] /\ Advance(c, datas[c])
           /\ mem' = [mem EXCEPT ![TableOf(c)][Step(c).addr] = v]
  <2>1. datas[c] \in Seq(Vals) /\ done \in [Conns -> Nat] /\ datas \in [Conns -> Seq(Vals)]
    BY DEF TypeOK
  <2>2. Called(c)
    BY <1>1, <1>4, <2>1, AdvanceDoes
  <2>3. done'[c] = done[c] + 1 /\ datas'[c] = datas[c]
    BY <1>4, <2>1 DEF Advance
  <2>4. QED
    BY <1>1, <1>2, <1>4, <2>2, <2>3 DEF Written
<1>5. 2 \in 0 .. 4 /\ 3 \in 0 .. 4 /\ 4 \in 0 .. 4
  OBVIOUS
<1>6. QED
  BY <1>1, <1>2, <1>3, <1>4, <1>5

LEMMA MemoryType ==
    ASSUME IsMemory(mem), NEW s \in Spaces, NEW a \in Bank[s], NEW v \in Vals,
           mem' = [mem EXCEPT ![s][a] = v]
    PROVE  IsMemory(mem')
<1>1. DOMAIN mem = Spaces /\ mem[s] \in [Bank[s] -> Vals]
  BY DEF IsMemory
<1>2. DOMAIN mem' = Spaces /\ mem'[s] = [mem[s] EXCEPT ![a] = v]
      /\ \A t \in Spaces \ {s} : mem'[t] = mem[t]
  BY <1>1
<1>3. mem'[s] \in [Bank[s] -> Vals]
  BY <1>1, <1>2
<1>4. QED
  BY <1>2, <1>3 DEF IsMemory

-----------------------------------------------------------------------------
(* Type correctness.                                                       *)

\* What a step leaves of its connection is well-typed.
LEMMA LocalType ==
    ASSUME TypeOK, NEW c \in Conns, Only(c, pc, pc'), Only(c, up, up'), Only(c, sent, sent'),
           Only(c, inbox, inbox'), Only(c, job, job'), Only(c, done, done'),
           Only(c, datas, datas'), Only(c, rsp, rsp'), Only(c, acked, acked'),
           IsMemory(mem'), \A d \in Conns : IsMemory(before'[d]),
           pc'[c] \in {"closed", "recv", "work", "reply"}, up'[c] \in BOOLEAN,
           sent'[c] \in 0 .. MaxReqs, inbox'[c] \in Seq(Pending),
           job'[c] \in Pending \cup {NoJob}, done'[c] \in Nat, datas'[c] \in Seq(Vals),
           rsp'[c] \in Replies, acked'[c] \in Replies,
           pc'[c] = "work" => job'[c] \in Pending /\ done'[c] < Len(Plan(job'[c].r))
    PROVE  TypeOK'
<1>1. /\ pc' \in [Conns -> {"closed", "recv", "work", "reply"}]
      /\ up' \in [Conns -> BOOLEAN] /\ sent' \in [Conns -> 0 .. MaxReqs]
      /\ inbox' \in [Conns -> Seq(Pending)]
  BY DEF TypeOK, Only
<1>2. /\ job' \in [Conns -> Pending \cup {NoJob}]
      /\ done' \in [Conns -> Nat] /\ datas' \in [Conns -> Seq(Vals)]
      /\ rsp' \in [Conns -> Replies] /\ acked' \in [Conns -> Replies]
  BY DEF TypeOK, Only
<1>3. ASSUME NEW d \in Conns, pc'[d] = "work"
      PROVE  job'[d] \in Pending /\ done'[d] < Len(Plan(job'[d].r))
  <2>1. CASE d = c
    BY <1>3, <2>1
  <2>2. CASE d # c
    <3>1. pc[d] = "work" /\ job'[d] = job[d] /\ done'[d] = done[d]
      BY <1>3, <2>2 DEF TypeOK, Only
    <3>2. QED
      BY <3>1 DEF TypeOK
  <2>3. QED
    BY <2>1, <2>2
<1>4. QED
  BY <1>1, <1>2, <1>3 DEF TypeOK

LEMMA Unmoved ==
    ASSUME TypeOK, NEW c \in Conns
    PROVE  /\ Only(c, pc, pc) /\ Only(c, up, up) /\ Only(c, sent, sent) /\ Only(c, inbox, inbox)
           /\ Only(c, job, job) /\ Only(c, done, done) /\ Only(c, datas, datas)
           /\ Only(c, rsp, rsp) /\ Only(c, acked, acked)
BY DEF TypeOK, Only

LEMMA RecvDoes ==
    ASSUME TypeOK, NEW c \in Conns, NEW k, Recv(c, k)
    PROVE  /\ pc[c] = "recv" /\ k \in 1 .. Len(inbox[c]) /\ inbox[c] \in Seq(Pending)
           /\ Len(inbox[c]) \in Nat /\ 1 \in 1 .. Len(inbox[c]) /\ inbox[c][1] \in Pending
           /\ Dealt(c, inbox[c][1])
           /\ Only(c, inbox, inbox') /\ inbox'[c] = SubSeq(inbox[c], k + 1, Len(inbox[c]))
           /\ Only(c, job, job') /\ job'[c] = inbox[c][1]
           /\ Only(c, done, done') /\ done'[c] = 0
           /\ Only(c, datas, datas') /\ datas'[c] = <<>>
           /\ UNCHANGED <<conn, acked, mem>> /\ before' = [before EXCEPT ![c] = mem]
<1>1. inbox[c] \in Seq(Pending) /\ pc[c] = "recv" /\ k \in 1 .. Len(inbox[c])
  BY DEF TypeOK, Recv
<1>2. Len(inbox[c]) \in Nat
  BY <1>1, LenProperties
<1>3. 1 \in 1 .. Len(inbox[c])
  BY <1>1, <1>2
<1>4. inbox[c][1] \in Pending
  BY <1>1, <1>3, ElementOfSeq
<1>5. Dealt(c, inbox[c][1])
  BY <1>1, <1>4, DealDoes DEF Recv
<1>6. /\ Only(c, inbox, inbox') /\ inbox'[c] = SubSeq(inbox[c], k + 1, Len(inbox[c]))
      /\ Only(c, job, job') /\ job'[c] = inbox[c][1]
  BY DEF TypeOK, Recv, Only
<1>7. /\ Only(c, done, done') /\ done'[c] = 0
      /\ Only(c, datas, datas') /\ datas'[c] = <<>>
  BY DEF TypeOK, Recv, Only
<1>8. QED
  BY <1>1, <1>2, <1>3, <1>4, <1>5, <1>6, <1>7 DEF Recv

LEMMA RecvType ==
    ASSUME Typed, NEW c \in Conns, NEW k, Recv(c, k)
    PROVE  Typed'
<1>1. TypeOK
  BY DEF Typed
<1>2. /\ k \in 1 .. Len(inbox[c]) /\ inbox[c] \in Seq(Pending) /\ inbox[c][1] \in Pending
      /\ Dealt(c, inbox[c][1])
      /\ Only(c, inbox, inbox') /\ inbox'[c] = SubSeq(inbox[c], k + 1, Len(inbox[c]))
      /\ Only(c, job, job') /\ job'[c] = inbox[c][1]
      /\ Only(c, done, done') /\ done'[c] = 0
      /\ Only(c, datas, datas') /\ datas'[c] = <<>>
      /\ UNCHANGED <<up, sent, acked, mem>> /\ before' = [before EXCEPT ![c] = mem]
  BY <1>1, RecvDoes DEF conn
<1>3. inbox'[c] \in Seq(Pending)
  BY <1>2, Dropped
<1>4. <<>> \in Seq(Vals)
  BY EmptySeq
<1>5. /\ Only(c, up, up') /\ Only(c, sent, sent') /\ Only(c, acked, acked')
      /\ up'[c] \in BOOLEAN /\ sent'[c] \in 0 .. MaxReqs /\ acked'[c] \in Replies
      /\ IsMemory(mem')
  BY <1>1, <1>2, Unmoved DEF TypeOK
<1>6. DOMAIN before' = Conns /\ \A d \in Conns : IsMemory(before'[d])
  BY <1>2 DEF Typed, TypeOK
<1>7. /\ Only(c, pc, pc') /\ Only(c, rsp, rsp') /\ rsp'[c] \in Replies
      /\ pc'[c] \in {"closed", "recv", "work", "reply"}
      /\ pc'[c] = "work" => done'[c] < Len(Plan(job'[c].r))
  BY <1>2 DEF Dealt
<1>8. done'[c] \in Nat /\ datas'[c] \in Seq(Vals) /\ job'[c] \in Pending
  BY <1>2, <1>4
<1>9. TypeOK'
  BY <1>1, <1>2, <1>3, <1>5, <1>6, <1>7, <1>8, LocalType
<1>10. QED
  BY <1>6, <1>9 DEF Typed

LEMMA CalledType ==
    ASSUME Typed, NEW c \in Conns, pc[c] = "work", Called(c), IsMemory(mem')
    PROVE  Typed'
<1>1. TypeOK
  BY DEF Typed
<1>2. job[c] \in Pending /\ done[c] \in Nat
  BY <1>1, StepKnown
<1>3. /\ Only(c, pc, pc') /\ Only(c, rsp, rsp') /\ Only(c, done, done') /\ Only(c, datas, datas')
      /\ rsp'[c] \in Replies /\ datas'[c] \in Seq(Vals)
      /\ UNCHANGED <<up, sent, inbox, job, acked, before>>
      /\ done'[c] = done[c] + 1 \/ done'[c] = done[c]
      /\ pc'[c] \in {"work", "reply"}
      /\ pc'[c] = "work" => done'[c] < Len(Plan(job[c].r))
  BY DEF Called, conn
<1>4. done'[c] \in Nat
  BY <1>2, <1>3
<1>5. /\ Only(c, up, up') /\ Only(c, sent, sent') /\ Only(c, acked, acked')
      /\ Only(c, inbox, inbox') /\ Only(c, job, job')
      /\ up'[c] \in BOOLEAN /\ sent'[c] \in 0 .. MaxReqs /\ acked'[c] \in Replies
      /\ inbox'[c] \in Seq(Pending)
  BY <1>1, <1>3, Unmoved DEF TypeOK
<1>6. DOMAIN before' = Conns /\ \A d \in Conns : IsMemory(before'[d])
  BY <1>3 DEF Typed, TypeOK
<1>7. TypeOK'
  BY <1>1, <1>2, <1>3, <1>4, <1>5, <1>6, LocalType
<1>8. QED
  BY <1>6, <1>7 DEF Typed

LEMMA ReadType ==
    ASSUME Typed, NEW c \in Conns, ReadCb(c)
    PROVE  Typed'
<1>1. Called(c) /\ pc[c] = "work" /\ UNCHANGED mem
  BY ReadCbDoes DEF Typed
<1>2. IsMemory(mem')
  BY <1>1 DEF Typed, TypeOK
<1>3. QED
  BY <1>1, <1>2, CalledType

LEMMA WriteType ==
    ASSUME Typed, NEW c \in Conns, WriteCb(c)
    PROVE  Typed'
<1>1. TypeOK
  BY DEF Typed
<1>2. /\ Called(c) /\ pc[c] = "work"
      /\ \/ UNCHANGED mem
         \/ Step(c).addr \in Bank[TableOf(c)] /\ Written(c)
  BY <1>1, WriteCbDoes
<1>3. IsMemory(mem')
  <2>1. CASE UNCHANGED mem
    BY <1>1, <2>1 DEF TypeOK
  <2>2. CASE Step(c).addr \in Bank[TableOf(c)] /\ Written(c)
    <3>1. PICK v \in ValuesToWrite(c) : mem' = [mem EXCEPT ![TableOf(c)][Step(c).addr] = v]
      BY <2>2 DEF Written
    <3>2. v \in Vals /\ TableOf(c) \in Spaces /\ IsMemory(mem)
      BY <1>1, <1>2, ValuesType, SpaceType DEF TableOf, TypeOK
    <3>3. QED
      BY <2>2, <3>1, <3>2, MemoryType
  <2>3. QED
    BY <1>2, <2>1, <2>2
<1>4. QED
  BY <1>2, <1>3, CalledType

\* Steps that deal with no request.
LEMMA QuietType ==
    ASSUME Typed, NEW c \in Conns, RecvErr(c) \/ ReplyOk(c) \/ ReplyErr(c) \/ Open(c) \/ Leave(c)
    PROVE  Typed'
<1>1. TypeOK
  BY DEF Typed
<1>2. <<>> \in Seq(Pending)
  BY EmptySeq
<1>3. UNCHANGED <<sent, job, done, datas, rsp, mem, before>>
  BY DEF RecvErr, ReplyOk, ReplyErr, Open, Leave, work, conn
<1>4. /\ Only(c, pc, pc') /\ pc'[c] \in {"closed", "recv", "work", "reply"}
      /\ pc'[c] = "work" => pc[c] = "work"
  BY <1>1 DEF TypeOK, RecvErr, ReplyOk, ReplyErr, Open, Leave, Turn, Only
<1>5. Only(c, up, up') /\ up'[c] \in BOOLEAN
  BY <1>1 DEF TypeOK, RecvErr, ReplyOk, ReplyErr, Open, Leave, Only, conn
<1>6. Only(c, inbox, inbox') /\ inbox'[c] \in Seq(Pending)
  BY <1>1, <1>2 DEF TypeOK, RecvErr, ReplyOk, ReplyErr, Open, Leave, Only
<1>7. Only(c, acked, acked') /\ acked'[c] \in Replies
  BY <1>1 DEF TypeOK, RecvErr, ReplyOk, ReplyErr, Open, Leave, Only
<1>8. /\ Only(c, sent, sent') /\ Only(c, job, job') /\ Only(c, done, done')
      /\ Only(c, datas, datas') /\ Only(c, rsp, rsp')
      /\ sent'[c] \in 0 .. MaxReqs /\ job'[c] \in Pending \cup {NoJob} /\ done'[c] \in Nat
      /\ datas'[c] \in Seq(Vals) /\ rsp'[c] \in Replies
      /\ pc[c] = "work" => job'[c] \in Pending /\ done'[c] < Len(Plan(job'[c].r))
  BY <1>1, <1>3, Unmoved DEF TypeOK
<1>9. IsMemory(mem') /\ DOMAIN before' = Conns /\ \A d \in Conns : IsMemory(before'[d])
  BY <1>3 DEF Typed, TypeOK
<1>10. TypeOK'
  BY <1>1, <1>4, <1>5, <1>6, <1>7, <1>8, <1>9, LocalType
<1>11. QED
  BY <1>9, <1>10 DEF Typed

LEMMA SendType ==
    ASSUME Typed, NEW c \in Conns, NEW r \in Requests, Send(c, r)
    PROVE  Typed'
<1>1. TypeOK /\ MaxReqs \in Nat /\ sent \in [Conns -> 0 .. MaxReqs]
  BY Constants DEF Typed, TypeOK
<1>2. sent[c] + 1 \in 1 .. MaxReqs
  BY <1>1 DEF Send
<1>3. [id |-> sent[c] + 1, r |-> r] \in Pending
  BY <1>2 DEF Pending
<1>4. inbox \in [Conns -> Seq(Pending)]
  BY <1>1 DEF TypeOK
<1>5. Append(inbox[c], [id |-> sent[c] + 1, r |-> r]) \in Seq(Pending)
  BY <1>3, <1>4, AppendProperties
<1>6. inbox' \in [Conns -> Seq(Pending)]
  BY <1>4, <1>5 DEF Send
<1>7. sent' \in [Conns -> 0 .. MaxReqs]
  BY <1>1, <1>2 DEF Send
<1>8. UNCHANGED <<pc, up, job, done, datas, rsp, acked, mem, before>>
  BY DEF Send, work
<1>9. QED
  BY <1>1, <1>6, <1>7, <1>8 DEF Typed, TypeOK

LEMMA PlantType ==
    ASSUME Typed, NEW s \in Spaces, NEW v \in AppVals, NEW a \in Bank[s], Plant(s, a, v)
    PROVE  Typed'
<1>1. v \in Vals /\ IsMemory(mem)
  BY Constants DEF Typed, TypeOK
<1>2. IsMemory(mem')
  BY <1>1, MemoryType DEF Plant
<1>3. UNCHANGED <<pc, up, sent, inbox, job, done, datas, rsp, acked, before>>
  BY DEF Plant, conn, work
<1>4. QED
  BY <1>2, <1>3 DEF Typed, TypeOK

LEMMA TypedInit == Init => Typed
<1> SUFFICES ASSUME Init
             PROVE  Typed
  OBVIOUS
<1>1. /\ <<>> \in Seq(Pending) /\ <<>> \in Seq(Vals) /\ {} \in Vals /\ MaxReqs \in Nat
      /\ 0 \in 0 .. MaxReqs
  BY EmptySeq, Constants DEF Vals
<1>2. NoReply \in Replies
  BY <1>1 DEF NoReply, Replies
<1>3. IsMemory(mem)
  BY <1>1 DEF Init, IsMemory
<1>4. /\ pc \in [Conns -> {"closed", "recv", "work", "reply"}]
      /\ \A c \in Conns : pc[c] # "work"
      /\ up \in [Conns -> BOOLEAN] /\ sent \in [Conns -> 0 .. MaxReqs]
      /\ inbox \in [Conns -> Seq(Pending)] /\ job \in [Conns -> Pending \cup {NoJob}]
  BY <1>1 DEF Init
<1>5. /\ done \in [Conns -> Nat] /\ datas \in [Conns -> Seq(Vals)]
      /\ rsp \in [Conns -> Replies] /\ acked \in [Conns -> Replies]
      /\ before = [c \in Conns |-> mem]
  BY <1>1, <1>2 DEF Init
<1>6. QED
  BY <1>3, <1>4, <1>5 DEF Typed, TypeOK

LEMMA TypedNext == Typed /\ [Next]_vars => Typed'
<1> SUFFICES ASSUME Typed, [Next]_vars
             PROVE  Typed'
  OBVIOUS
<1>1. CASE UNCHANGED vars
  BY <1>1 DEF vars, conn, work, Typed, TypeOK
<1>2. ASSUME NEW c \in Conns, Thread(c)
      PROVE  Typed'
  BY <1>2, RecvType, ReadType, WriteType, QuietType DEF Thread
<1>3. ASSUME NEW c \in Conns, Client(c)
      PROVE  Typed'
  BY <1>3, QuietType, SendType DEF Client
<1>4. ASSUME NEW s \in Spaces, NEW v \in AppVals, NEW a \in Bank[s], Plant(s, a, v)
      PROVE  Typed'
  BY <1>4, PlantType
<1>5. QED
  BY <1>1, <1>2, <1>3, <1>4 DEF Next

\* The variables of ModbusSlave keep their types: what is being dealt with is a
\* request that was sent, and a thread at work has a callback left to make.
THEOREM SlaveTypeOK == Spec => []TypeOK
<1>1. Typed => TypeOK
  BY DEF Typed
<1>2. QED
  BY <1>1, TypedInit, TypedNext, PTL DEF Spec

-----------------------------------------------------------------------------
(* The other parts of the invariant, one kind of step after another.       *)

Good(c) == Served(c) /\ Counted(c) /\ Ordered(c)

LEMMA OthersKeep ==
    ASSUME \A d \in Conns : Good(d), NEW c \in Conns, TypeOK,
           Only(c, pc, pc'), Only(c, sent, sent'), Only(c, inbox, inbox'), Only(c, job, job'),
           Only(c, done, done'), Only(c, datas, datas'), Only(c, rsp, rsp'),
           Only(c, acked, acked'), Good(c)'
    PROVE  \A d \in Conns : Good(d)'
<1>1. ASSUME NEW d \in Conns \ {c}
      PROVE  Good(d)'
  <2>1. Same(d)
    BY DEF Same, Only, TypeOK
  <2>2. QED
    BY <2>1, SameKeeps DEF Good
<1>2. QED
  BY <1>1

\* The numbers that Ordered compares.
LEMMA Numbers ==
    ASSUME TypeOK, NEW c \in Conns
    PROVE  /\ sent[c] \in Nat /\ acked[c].id \in Nat /\ rsp[c].id \in Nat
           /\ pc[c] = "work" => job[c].id \in Nat
           /\ Taken(c) \in Nat /\ Len(inbox[c]) \in Nat
           /\ \A i \in 1 .. Len(inbox[c]) : inbox[c][i] \in Pending /\ inbox[c][i].id \in Nat
<1>1. sent[c] \in 0 .. MaxReqs /\ acked[c] \in Replies /\ rsp[c] \in Replies
  BY DEF TypeOK
<1>2. MaxReqs \in Nat
  BY Constants
<1>3. pc[c] = "work" => job[c].id \in 1 .. MaxReqs
  BY StepKnown, RequestKnown
<1>4. inbox[c] \in Seq(Pending)
  BY DEF TypeOK
<1>5. \A i \in 1 .. Len(inbox[c]) : inbox[c][i] \in Pending
  BY <1>4, ElementOfSeq
<1>6. \A i \in 1 .. Len(inbox[c]) : inbox[c][i].id \in Nat
  BY <1>2, <1>5 DEF Pending
<1>7. sent[c] \in Nat /\ acked[c].id \in Nat /\ rsp[c].id \in Nat
  BY <1>1, <1>2 DEF Replies
<1>8. pc[c] = "work" => job[c].id \in Nat
  BY <1>2, <1>3
<1>9. Taken(c) \in Nat
  BY <1>7, <1>8 DEF Taken
<1>10. QED
  BY <1>4, <1>5, <1>6, <1>7, <1>8, <1>9, LenProperties

LEMMA RecvKeeps ==
    ASSUME Typed, Typed', \A d \in Conns : Good(d), NEW c \in Conns, NEW k, Recv(c, k)
    PROVE  \A d \in Conns : Good(d)'
<1> DEFINE f == inbox[c][1]
<1>1. TypeOK /\ TypeOK'
  BY DEF Typed
<1>2. /\ pc[c] = "recv" /\ k \in 1 .. Len(inbox[c]) /\ inbox[c] \in Seq(Pending)
      /\ Len(inbox[c]) \in Nat /\ 1 \in 1 .. Len(inbox[c]) /\ f \in Pending /\ Dealt(c, f)
      /\ Only(c, inbox, inbox') /\ inbox'[c] = SubSeq(inbox[c], k + 1, Len(inbox[c]))
      /\ Only(c, job, job') /\ job'[c] = f /\ Only(c, done, done') /\ done'[c] = 0
      /\ Only(c, datas, datas') /\ datas'[c] = <<>> /\ UNCHANGED <<sent, acked>>
  BY <1>1, RecvDoes DEF conn
<1> HIDE DEF f
<1>3. /\ Only(c, pc, pc') /\ Only(c, rsp, rsp')
      /\ Only(c, sent, sent') /\ Only(c, acked, acked')
  BY <1>1, <1>2, Unmoved DEF Dealt
<1>4. Served(c)'
  BY <1>2 DEF Dealt, Served
<1>5. Counted(c)'
  <2>1. f.r \in RequestType
    BY <1>2, RequestKnown
  <2>2. f.r.wn \in Nat
    BY <2>1 DEF RequestType
  <2>3. ReadsMade(f.r, 0) = 0
    BY <2>2 DEF ReadsMade
  <2>4. QED
    BY <1>2, <2>3, EmptySeq DEF Counted
<1>6. Ordered(c)'
  <2>1. /\ acked[c].id \in Nat /\ f.id \in Nat /\ rsp[c].id \in Nat /\ sent[c] \in Nat
        /\ acked[c].id <= rsp[c].id /\ rsp[c].id < f.id /\ f.id <= sent[c]
    BY <1>1, <1>2, Numbers DEF Good, Ordered, Taken, f
  <2>2. \/ pc'[c] = "recv" /\ Taken(c)' = rsp[c].id /\ rsp'[c].id = rsp[c].id
        \/ pc'[c] = "work" /\ Taken(c)' = f.id /\ rsp'[c].id = rsp[c].id
        \/ pc'[c] = "reply" /\ Taken(c)' = f.id /\ rsp'[c].id = f.id
    BY <1>2 DEF Taken, Dealt
  <2>3. ASSUME NEW i \in 1 .. Len(inbox'[c])
        PROVE  /\ i \in 1 .. (Len(inbox[c]) - k) /\ k + i \in 1 .. Len(inbox[c])
               /\ 1 < k + i /\ inbox'[c][i] = inbox[c][k + i]
    <3>1. /\ Len(inbox'[c]) = Len(inbox[c]) - k
          /\ \A j \in 1 .. (Len(inbox[c]) - k) :
               inbox'[c][j] = inbox[c][k + j] /\ k + j \in 1 .. Len(inbox[c])
      BY <1>2, Dropped
    <3>2. QED
      BY <1>2, <3>1
  <2>4. ASSUME NEW i \in 1 .. Len(inbox'[c])
        PROVE  /\ f.id < inbox'[c][i].id /\ inbox'[c][i].id <= sent[c]
               /\ inbox'[c][i].id \in Nat
    BY <1>1, <1>2, <2>3, Numbers DEF Good, Ordered, f
  <2>5. ASSUME NEW i \in 1 .. Len(inbox'[c]), NEW j \in 1 .. Len(inbox'[c]), i < j
        PROVE  inbox'[c][i].id < inbox'[c][j].id
    <3>1. k + i < k + j
      BY <1>2, <2>5
    <3>2. k + i \in 1 .. Len(inbox[c]) /\ k + j \in 1 .. Len(inbox[c])
      BY <2>3
    <3>3. inbox[c][k + i].id < inbox[c][k + j].id
      BY <3>1, <3>2 DEF Good, Ordered
    <3>4. QED
      BY <2>3, <3>3
  <2>6. ASSUME NEW i \in 1 .. Len(inbox'[c])
        PROVE  Taken(c)' < inbox'[c][i].id
    BY <2>1, <2>2, <2>4
  <2>7. /\ acked'[c].id <= rsp'[c].id /\ rsp'[c].id <= Taken(c)' /\ Taken(c)' <= sent'[c]
        /\ pc'[c] = "work"  => rsp'[c].id < job'[c].id
        /\ pc'[c] = "reply" => acked'[c].id < rsp'[c].id
    BY <1>2, <2>1, <2>2
  <2>8. QED
    BY <1>2, <2>4, <2>5, <2>6, <2>7 DEF Ordered
<1>7. QED
  BY <1>1, <1>2, <1>3, <1>4, <1>5, <1>6, OthersKeep DEF Good

LEMMA CalledKeeps ==
    ASSUME Typed, Typed', \A d \in Conns : Good(d), NEW c \in Conns, pc[c] = "work", Called(c)
    PROVE  \A d \in Conns : Good(d)'
<1>1. TypeOK /\ TypeOK'
  BY DEF Typed
<1>2. /\ Only(c, pc, pc') /\ Only(c, rsp, rsp') /\ Only(c, done, done') /\ Only(c, datas, datas')
      /\ UNCHANGED <<sent, inbox, job, acked>>
  BY DEF Called, conn
<1>3. /\ Only(c, sent, sent') /\ Only(c, acked, acked')
      /\ Only(c, inbox, inbox') /\ Only(c, job, job')
  BY <1>1, <1>2, Unmoved
<1>4. Served(c)'
  BY <1>2 DEF Good, Served
<1>5. ASSUME pc'[c] = "work"
      PROVE  Len(datas'[c]) = ReadsMade(job[c].r, done'[c])
  <2> DEFINE r == job[c].r
             p == Len(Plan(r))
             m == Len(datas[c])
             n == Len(datas'[c])
  <2>1. /\ done[c] \in Nat /\ r.wn \in Nat /\ p \in Nat
        /\ r.fc = "mask_write" => p = 2
        /\ r.fc = "mask_write" /\ done[c] = 0 => Step(c).kind = "read"
        /\ r.fc # "mask_write" /\ done[c] < r.wn => Step(c).kind = "write"
        /\ r.fc # "mask_write" /\ ~(done[c] < r.wn) => Step(c).kind = "read"
    BY <1>1, StepKnown, RequestKnown
  <2>2. /\ done'[c] = done[c] + 1 /\ done'[c] < p
        /\ n = IF Step(c).kind = "read" THEN m + 1 ELSE m
    BY <1>5 DEF Called
  <2>3. m = ReadsMade(r, done[c])
    BY DEF Good, Counted
  <2> HIDE DEF r, p, m, n
  <2>4. CASE r.fc = "mask_write"
    <3>1. done[c] = 0
      BY <2>1, <2>2, <2>4
    <3>2. QED
      BY <2>1, <2>2, <2>3, <2>4, <3>1 DEF ReadsMade, r, n
  <2>5. CASE r.fc # "mask_write" /\ done[c] < r.wn
    <3>1. n = 0
      BY <2>1, <2>2, <2>3, <2>5 DEF ReadsMade
    <3>2. ReadsMade(r, done'[c]) = 0
      BY <2>1, <2>2, <2>5 DEF ReadsMade
    <3>3. QED
      BY <3>1, <3>2 DEF r, n
  <2>6. CASE r.fc # "mask_write" /\ ~(done[c] < r.wn)
    <3>1. n = ReadsMade(r, done[c]) + 1
      BY <2>1, <2>2, <2>3, <2>6
    <3>2. ReadsMade(r, done'[c]) = ReadsMade(r, done[c]) + 1
      BY <2>1, <2>2, <2>6 DEF ReadsMade
    <3>3. QED
      BY <3>1, <3>2 DEF r, n
  <2>7. QED
    BY <2>4, <2>5, <2>6
<1>6. Counted(c)'
  BY <1>2, <1>5 DEF Counted
<1>7. /\ Taken(c)' = job[c].id /\ Taken(c) = job[c].id
      /\ \/ pc'[c] = "work" /\ rsp'[c].id = rsp[c].id
         \/ pc'[c] = "reply" /\ rsp'[c].id = job[c].id
  BY <1>2 DEF Taken, Called, Ok
<1>8. Ordered(c)'
  <2>1. acked[c].id \in Nat /\ rsp[c].id \in Nat /\ job[c].id \in Nat
    BY <1>1, Numbers
  <2>2. acked[c].id <= rsp[c].id /\ rsp[c].id < job[c].id /\ job[c].id <= sent[c]
    BY <1>7 DEF Good, Ordered
  <2>3. /\ acked'[c].id <= rsp'[c].id /\ rsp'[c].id <= Taken(c)' /\ Taken(c)' <= sent'[c]
        /\ pc'[c] = "work"  => rsp'[c].id < job'[c].id
        /\ pc'[c] = "reply" => acked'[c].id < rsp'[c].id
    BY <1>2, <1>7, <2>1, <2>2
  <2>4. QED
    BY <1>2, <1>7, <2>3 DEF Good, Ordered
<1>9. QED
  BY <1>1, <1>2, <1>3, <1>4, <1>6, <1>8, OthersKeep DEF Good

LEMMA QuietKeeps ==
    ASSUME Typed, Typed', \A d \in Conns : Good(d), NEW c \in Conns,
           RecvErr(c) \/ ReplyOk(c) \/ ReplyErr(c) \/ Open(c) \/ Leave(c)
    PROVE  \A d \in Conns : Good(d)'
<1>1. TypeOK /\ TypeOK'
  BY DEF Typed
<1>2. UNCHANGED <<sent, job, done, datas, rsp>>
  BY DEF RecvErr, ReplyOk, ReplyErr, Open, Leave, work, conn
<1>3. /\ Only(c, pc, pc') /\ Only(c, inbox, inbox') /\ Only(c, acked, acked')
  BY <1>1 DEF TypeOK, RecvErr, ReplyOk, ReplyErr, Open, Leave, Turn, Only
<1>4. /\ Only(c, sent, sent') /\ Only(c, job, job') /\ Only(c, done, done')
      /\ Only(c, datas, datas') /\ Only(c, rsp, rsp')
  BY <1>1, <1>2, Unmoved
<1>5. \/ pc'[c] = pc[c] /\ inbox'[c] = inbox[c] /\ acked'[c] = acked[c]
      \/ pc[c] = "reply" /\ pc'[c] = "recv" /\ inbox'[c] = inbox[c] /\ acked'[c] = rsp[c]
      \/ pc'[c] \in {"closed", "recv"} /\ inbox'[c] = <<>> /\ acked'[c] = acked[c]
  BY <1>1 DEF TypeOK, RecvErr, ReplyOk, ReplyErr, Open, Leave, Turn
<1>6. Served(c)' /\ Counted(c)'
  BY <1>2, <1>5 DEF Good, Served, Counted
<1>7. Ordered(c)'
  <2>1. CASE pc'[c] = pc[c] /\ inbox'[c] = inbox[c] /\ acked'[c] = acked[c]
    <3>1. Taken(c)' = Taken(c)
      BY <1>2, <2>1 DEF Taken
    <3>2. QED
      BY <1>2, <2>1, <3>1 DEF Good, Ordered
  <2>2. CASE /\ pc[c] = "reply" /\ pc'[c] = "recv" /\ inbox'[c] = inbox[c]
             /\ acked'[c] = rsp[c]
    <3>1. Taken(c)' = rsp[c].id /\ Taken(c) = rsp[c].id /\ acked'[c].id = rsp[c].id
      BY <1>2, <2>2 DEF Taken
    <3>2. rsp[c].id \in Nat
      BY <1>1, Numbers
    <3>3. QED
      BY <1>2, <2>2, <3>1, <3>2 DEF Good, Ordered
  <2>3. CASE pc'[c] \in {"closed", "recv"} /\ inbox'[c] = <<>> /\ acked'[c] = acked[c]
    <3>1. Taken(c)' = rsp[c].id
      BY <1>2, <2>3 DEF Taken
    <3>2. acked[c].id \in Nat /\ rsp[c].id \in Nat /\ Taken(c) \in Nat /\ sent[c] \in Nat
      BY <1>1, Numbers
    <3>3. acked[c].id <= rsp[c].id /\ rsp[c].id <= sent[c]
      BY <3>2 DEF Good, Ordered
    <3>4. Len(inbox'[c]) = 0
      BY <2>3, EmptySeq
    <3>5. QED
      BY <1>2, <2>3, <3>1, <3>2, <3>3, <3>4 DEF Ordered
  <2>4. QED
    BY <1>5, <2>1, <2>2, <2>3
<1>8. QED
  BY <1>1, <1>3, <1>4, <1>6, <1>7, OthersKeep DEF Good

LEMMA SendKeeps ==
    ASSUME Typed, Typed', \A d \in Conns : Good(d), NEW c \in Conns, NEW r \in Requests, Send(c, r)
    PROVE  \A d \in Conns : Good(d)'
<1> DEFINE e == [id |-> sent[c] + 1, r |-> r]
           n == Len(inbox[c])
<1>1. TypeOK /\ TypeOK' /\ MaxReqs \in Nat
  BY Constants DEF Typed
<1>2. UNCHANGED <<pc, job, done, datas, rsp, acked>>
  BY DEF Send, work
<1>3. /\ sent \in [Conns -> 0 .. MaxReqs] /\ inbox \in [Conns -> Seq(Pending)]
      /\ sent[c] < MaxReqs
      /\ sent' = [sent EXCEPT ![c] = @ + 1] /\ inbox' = [inbox EXCEPT ![c] = Append(@, e)]
  BY <1>1 DEF TypeOK, Send
<1>4. Only(c, sent, sent') /\ Only(c, inbox, inbox')
  BY <1>3 DEF Only
<1>5. /\ Only(c, pc, pc') /\ Only(c, job, job') /\ Only(c, done, done')
      /\ Only(c, datas, datas') /\ Only(c, rsp, rsp') /\ Only(c, acked, acked')
  BY <1>1, <1>2, Unmoved
<1>6. Served(c)' /\ Counted(c)'
  BY <1>2 DEF Good, Served, Counted
<1>7. Ordered(c)'
  <2>1. /\ sent[c] \in Nat /\ acked[c].id \in Nat /\ rsp[c].id \in Nat /\ Taken(c) \in Nat
        /\ n \in Nat
        /\ \A i \in 1 .. n : inbox[c][i].id \in Nat
    BY <1>1, Numbers
  <2>2. e \in Pending
    <3>1. sent[c] + 1 \in 1 .. MaxReqs
      BY <1>1, <1>3, <2>1
    <3>2. QED
      BY <3>1 DEF Pending
  <2>3. /\ Len(inbox'[c]) = n + 1 /\ \A i \in 1 .. n : inbox'[c][i] = inbox[c][i]
        /\ inbox'[c][n + 1] = e
    <3> HIDE DEF e
    <3>1. inbox'[c] = Append(inbox[c], e) /\ inbox[c] \in Seq(Pending)
      BY <1>3
    <3>2. QED
      BY <2>2, <3>1, AppendProperties
  <2>4. Taken(c)' = Taken(c) /\ sent'[c] = sent[c] + 1 /\ e.id = sent[c] + 1
    BY <1>2, <1>3 DEF Taken
  <2> HIDE DEF e, n
  <2>5. ASSUME NEW i \in 1 .. n + 1
        PROVE  /\ i \in 1 .. n \/ i = n + 1
               /\ Taken(c) < inbox'[c][i].id /\ inbox'[c][i].id <= sent[c] + 1
    <3>1. CASE i \in 1 .. n
      <4>1. inbox'[c][i] = inbox[c][i] /\ inbox[c][i].id \in Nat
        BY <2>1, <2>3, <3>1
      <4>2. Taken(c) < inbox[c][i].id /\ inbox[c][i].id <= sent[c]
        BY <3>1 DEF Good, Ordered, n
      <4>3. QED
        BY <2>1, <3>1, <4>1, <4>2
    <3>2. CASE i = n + 1
      <4>1. Taken(c) <= sent[c]
        BY DEF Good, Ordered
      <4>2. QED
        BY <2>1, <2>3, <2>4, <3>2, <4>1
    <3>3. i \in 1 .. n \/ i = n + 1
      BY <2>1
    <3>4. QED
      BY <3>1, <3>2, <3>3
  <2>6. ASSUME NEW i \in 1 .. n + 1, NEW j \in 1 .. n + 1, i < j
        PROVE  inbox'[c][i].id < inbox'[c][j].id
    <3>1. i \in 1 .. n
      BY <2>1, <2>6
    <3>2. inbox'[c][i] = inbox[c][i] /\ inbox[c][i].id \in Nat /\ inbox[c][i].id <= sent[c]
      BY <2>1, <2>3, <3>1 DEF Good, Ordered, n
    <3>3. CASE j \in 1 .. n
      <4>1. inbox'[c][j] = inbox[c][j] /\ inbox[c][i].id < inbox[c][j].id
        BY <2>3, <2>6, <3>1, <3>3 DEF Good, Ordered, n
      <4>2. QED
        BY <3>2, <4>1
    <3>4. CASE j = n + 1
      <4>1. inbox'[c][j].id = sent[c] + 1
        BY <2>3, <2>4, <3>4
      <4>2. QED
        BY <2>1, <3>2, <4>1
    <3>5. QED
      BY <2>5, <3>3, <3>4
  <2>7. /\ acked'[c].id <= rsp'[c].id /\ rsp'[c].id <= Taken(c)' /\ Taken(c)' <= sent'[c]
        /\ pc'[c] = "work"  => rsp'[c].id < job'[c].id
        /\ pc'[c] = "reply" => acked'[c].id < rsp'[c].id
    BY <1>2, <2>1, <2>4 DEF Good, Ordered
  <2>8. QED
    BY <2>3, <2>4, <2>5, <2>6, <2>7 DEF Ordered
<1>8. QED
  BY <1>1, <1>4, <1>5, <1>6, <1>7, OthersKeep DEF Good

LEMMA SlaveInit == Init => SlaveInv
<1> SUFFICES ASSUME Init
             PROVE  \A c \in Conns : Good(c)
  BY TypedInit DEF SlaveInv, Good
<1>1. ASSUME NEW c \in Conns
      PROVE  Good(c)
  <2>1. /\ pc[c] = "closed" /\ sent[c] = 0 /\ inbox[c] = <<>>
        /\ acked[c].id = 0 /\ rsp[c].id = 0
    BY DEF Init, NoReply
  <2>2. Len(inbox[c]) = 0
    BY <2>1, EmptySeq
  <2>3. QED
    BY <2>1, <2>2 DEF Good, Served, Counted, Ordered, Taken
<1>2. QED
  BY <1>1

LEMMA SlaveNext == SlaveInv /\ [Next]_vars => SlaveInv'
<1> SUFFICES ASSUME SlaveInv, [Next]_vars
             PROVE  SlaveInv'
  OBVIOUS
<1>1. Typed /\ Typed' /\ \A d \in Conns : Good(d)
  BY TypedNext DEF SlaveInv, Good
<1>2. TypeOK
  BY <1>1 DEF Typed
<1>3. CASE UNCHANGED <<pc, sent, inbox, job, done, datas, rsp, acked>>
  <2>1. ASSUME NEW d \in Conns
        PROVE  Same(d)
    BY <1>3 DEF Same
  <2>2. QED
    BY <1>1, <2>1, SameKeeps DEF SlaveInv, Good
<1>4. ASSUME NEW c \in Conns, Thread(c)
      PROVE  SlaveInv'
  <2>1. ASSUME ReadCb(c) \/ WriteCb(c)
        PROVE  \A d \in Conns : Good(d)'
    <3>1. Called(c) /\ pc[c] = "work"
      BY <1>2, <2>1, ReadCbDoes, WriteCbDoes
    <3>2. QED
      BY <1>1, <3>1, CalledKeeps
  <2>2. \A d \in Conns : Good(d)'
    BY <1>1, <1>4, <2>1, RecvKeeps, QuietKeeps DEF Thread
  <2>3. QED
    BY <1>1, <2>2 DEF SlaveInv, Good
<1>5. ASSUME NEW c \in Conns, Client(c)
      PROVE  SlaveInv'
  <2>1. \A d \in Conns : Good(d)'
    BY <1>1, <1>5, QuietKeeps, SendKeeps DEF Client
  <2>2. QED
    BY <1>1, <2>1 DEF SlaveInv, Good
<1>6. ASSUME NEW s \in Spaces, NEW v \in AppVals, NEW a \in Bank[s], Plant(s, a, v)
      PROVE  SlaveInv'
  BY <1>3, <1>6 DEF Plant, conn, work
<1>7. QED
  BY <1>3, <1>4, <1>5, <1>6 DEF Next, vars, conn, work

LEMMA SlaveInvariant == Spec => []SlaveInv
BY SlaveInit, SlaveNext, PTL DEF Spec

-----------------------------------------------------------------------------
(* Replies.                                                                *)

\* Replies leave in the order of the requests, each for a request that was
\* sent and at most one for each, whatever ran together in the line and however
\* often the connection was lost.
THEOREM SlaveRepliesInTurn == Spec => RepliesInTurn
<1>1. SlaveInv /\ [Next]_vars =>
        [\A c \in Conns : pc[c] = "reply" /\ pc'[c] = "recv" =>
           acked'[c].id > acked[c].id /\ acked'[c].id <= sent[c]]_vars
  <2> SUFFICES ASSUME SlaveInv, Next, NEW c \in Conns, pc[c] = "reply", pc'[c] = "recv"
               PROVE  acked'[c].id > acked[c].id /\ acked'[c].id <= sent[c]
    OBVIOUS
  <2>1. TypeOK /\ Ordered(c)
    BY DEF SlaveInv, Typed
  <2>2. pc \in [Conns -> {"closed", "recv", "work", "reply"}] /\ acked \in [Conns -> Replies]
    BY <2>1 DEF TypeOK
  <2>3. ASSUME NEW d \in Conns, Thread(d) \/ Client(d)
        PROVE  ReplyOk(c)
    <3>1. ReadCb(d) \/ WriteCb(d) => Called(d) /\ pc[d] = "work"
      BY <2>1, ReadCbDoes, WriteCbDoes
    <3>2. ASSUME NEW k, Recv(d, k)
          PROVE  pc[d] = "recv" /\ Only(d, pc, pc')
      BY <2>1, <3>2, RecvDoes DEF Dealt
    <3>3. \/ pc[d] # "reply" /\ Only(d, pc, pc')
          \/ ReplyOk(d)
          \/ Only(d, pc, pc') /\ pc'[d] # "recv"
          \/ UNCHANGED pc
      BY <2>2, <2>3, <3>1, <3>2
      DEF Thread, Client, Called, RecvErr, ReplyErr, Open, Leave, Send, Turn, Only
    <3>4. CASE ReplyOk(d)
      BY <2>2, <3>4 DEF ReplyOk, Turn
    <3>5. QED
      BY <2>2, <3>3, <3>4 DEF Only
  <2>4. ASSUME NEW s \in Spaces, NEW v \in AppVals, NEW a \in Bank[s], Plant(s, a, v)
        PROVE  FALSE
    BY <2>4 DEF Plant
  <2>5. ReplyOk(c)
    BY <2>3, <2>4 DEF Next
  <2>6. acked'[c] = rsp[c]
    BY <2>2, <2>5 DEF ReplyOk
  <2>7. acked[c].id < rsp[c].id /\ rsp[c].id <= sent[c]
    BY <2>1 DEF Ordered, Taken
  <2>8. acked[c].id \in Nat /\ rsp[c].id \in Nat
    BY <2>1, Numbers
  <2>9. QED
    BY <2>6, <2>7, <2>8
<1>2. QED
  BY <1>1, SlaveInvariant, PTL DEF Spec, RepliesInTurn

\* The u8 in front of the data counts all of it.
LEMMA CarriedWhole ==
    ASSUME NEW r \in RequestType, IsRead(r), ItemBytes(r) < DlenMod,
           NEW d \in Seq(Vals), Len(d) = r.rn
    PROVE  Carried(r, d) = d
<1> DEFINE bits == Space(r.fc) \in {"coil", "disc"}
           dlen == ItemBytes(r) % DlenMod
           n == IF bits THEN 8 * dlen ELSE dlen \div 2
<1>1. r.rn \in Nat /\ DlenMod \in Nat
  BY Constants DEF RequestType
<1>2. ItemBytes(r) = (IF bits THEN (r.rn + 7) \div 8 ELSE 2 * r.rn)
  BY DEF ItemBytes
<1> HIDE DEF bits
<1>3. ItemBytes(r) \in Nat
  BY <1>1, <1>2
<1>4. dlen = ItemBytes(r)
  <2>1. \A k, m \in Nat : k < m => k % m = k
    OBVIOUS
  <2>2. QED
    BY <1>1, <1>3, <2>1
<1> HIDE DEF dlen
<1>5. n >= r.rn /\ n \in Nat
  <2>1. \A k \in Nat : /\ 8 * ((k + 7) \div 8) >= k /\ 8 * ((k + 7) \div 8) \in Nat
                       /\ (2 * k) \div 2 = k
    OBVIOUS
  <2>2. n = IF bits THEN 8 * ((r.rn + 7) \div 8) ELSE (2 * r.rn) \div 2
    BY <1>2, <1>4
  <2>3. QED
    BY <1>1, <2>1, <2>2
<1> HIDE DEF n
<1>6. Carried(r, d) = SubSeq(d, 1, IF n < Len(d) THEN n ELSE Len(d))
  BY DEF Carried, bits, dlen, n
<1>7. Carried(r, d) = SubSeq(d, 1, Len(d))
  BY <1>1, <1>5, <1>6
<1>8. QED
  BY <1>7, SubSeqFull

\* The callbacks of a read that succeeded returned a value for each register.
LEMMA AllRead ==
    ASSUME SlaveInv, NEW c \in Conns, pc[c] = "work", IsRead(job[c].r), Called(c),
           done'[c] = done[c] + 1, done'[c] = Len(Plan(job[c].r)),
           Len(datas'[c]) = IF Step(c).kind = "read" THEN Len(datas[c]) + 1
                            ELSE Len(datas[c])
    PROVE  Len(datas'[c]) = job[c].r.rn
<1> DEFINE r == job[c].r
           p == Len(Plan(r))
           m == Len(datas[c])
           n == Len(datas'[c])
<1>1. TypeOK
  BY DEF SlaveInv, Typed
<1>2. r.fc # "mask_write"
  BY DEF IsRead, ReadFcs
<1>3. /\ done[c] \in Nat /\ r.wn \in Nat /\ r.rn \in Nat /\ p = r.wn + r.rn
      /\ done[c] < r.wn => Step(c).kind = "write"
      /\ ~(done[c] < r.wn) => Step(c).kind = "read"
  BY <1>1, <1>2, StepKnown
<1>4. m = IF done[c] <= r.wn THEN 0 ELSE done[c] - r.wn
  BY <1>2 DEF SlaveInv, Counted, ReadsMade
<1>5. done[c] + 1 = p /\ n = IF Step(c).kind = "read" THEN m + 1 ELSE m
  OBVIOUS
<1> HIDE DEF r, p, m, n
<1>6. n = r.rn
  <2>1. CASE done[c] < r.wn
    BY <1>3, <1>4, <1>5, <2>1
  <2>2. CASE ~(done[c] < r.wn)
    BY <1>3, <1>4, <1>5, <2>2
  <2>3. QED
    BY <2>1, <2>2
<1>7. QED
  BY <1>6 DEF n, r

Complete(c) == pc[c] = "reply" /\ rsp[c].kind = "ok" /\ IsRead(job[c].r)
                 => Len(rsp[c].data) = job[c].r.rn

LEMMA CompleteStep ==
    ASSUME \A r \in Requests : IsRead(r) => ItemBytes(r) < DlenMod,
           SlaveInv, \A d \in Conns : Complete(d), [Next]_vars
    PROVE  \A d \in Conns : Complete(d)'
<1>1. TypeOK /\ MaxReqs \in Nat
  BY Constants DEF SlaveInv, Typed
<1>2. ASSUME NEW c \in Conns, Only(c, pc, pc'), Only(c, rsp, rsp'), Only(c, job, job'),
             Complete(c)'
      PROVE  \A d \in Conns : Complete(d)'
  <2>1. ASSUME NEW d \in Conns \ {c}
        PROVE  pc'[d] = pc[d] /\ rsp'[d] = rsp[d] /\ job'[d] = job[d]
    BY <1>1, <1>2 DEF TypeOK, Only
  <2>2. QED
    BY <1>2, <2>1 DEF Complete
<1>3. ASSUME NEW f \in Pending, NEW d \in Seq(Vals), IsRead(f.r), Len(d) = f.r.rn
      PROVE  Len(Ok(f, d).data) = f.r.rn
  <2>1. f.r \in Requests /\ f.r \in RequestType
    BY RequestKnown
  <2>2. Carried(f.r, d) = d
    BY <1>3, <2>1, CarriedWhole
  <2>3. QED
    BY <1>3, <2>2 DEF Ok
<1>4. ASSUME NEW c \in Conns, NEW k, Recv(c, k)
      PROVE  \A d \in Conns : Complete(d)'
  <2> DEFINE f == inbox[c][1]
  <2>1. /\ f \in Pending /\ Dealt(c, f) /\ Only(c, job, job') /\ job'[c] = f
        /\ Only(c, pc, pc') /\ Only(c, rsp, rsp')
    BY <1>1, <1>4, RecvDoes DEF Dealt
  <2> HIDE DEF f
  <2>2. ASSUME pc'[c] = "reply", rsp'[c].kind = "ok", IsRead(f.r)
        PROVE  Len(rsp'[c].data) = f.r.rn
    <3>1. rsp'[c] = Ok(f, <<>>) /\ Plan(f.r) = <<>> /\ <<>> \in Seq(Vals)
      BY <2>1, <2>2, EmptySeq DEF Dealt
    <3>2. f.r \in RequestType /\ f.r.fc # "mask_write"
      BY <2>1, <2>2, RequestKnown DEF IsRead, ReadFcs
    <3>3. Len(Plan(f.r)) = f.r.wn + f.r.rn /\ f.r.wn \in Nat /\ f.r.rn \in Nat
      BY <3>2, PlanSteps DEF RequestType
    <3>4. Len(Plan(f.r)) = 0
      BY <3>1, EmptySeq
    <3>5. f.r.rn = 0
      BY <3>3, <3>4
    <3>6. QED
      BY <1>3, <2>1, <2>2, <3>1, <3>5, EmptySeq
  <2>3. QED
    BY <1>2, <2>1, <2>2 DEF Complete
<1>5. ASSUME NEW c \in Conns, ReadCb(c) \/ WriteCb(c)
      PROVE  \A d \in Conns : Complete(d)'
  <2>1. Called(c) /\ pc[c] = "work" /\ job[c] \in Pending
    BY <1>1, <1>5, ReadCbDoes, WriteCbDoes, StepKnown
  <2>2. /\ Only(c, pc, pc') /\ Only(c, rsp, rsp') /\ job' = job /\ Only(c, job, job')
        /\ datas'[c] \in Seq(Vals)
    BY <1>1, <2>1, Unmoved DEF Called
  <2>3. ASSUME pc'[c] = "reply", rsp'[c].kind = "ok", IsRead(job[c].r)
        PROVE  Len(rsp'[c].data) = job[c].r.rn
    <3>1. /\ rsp'[c] = Ok(job[c], datas'[c])
          /\ done'[c] = done[c] + 1 /\ done'[c] = Len(Plan(job[c].r))
          /\ Len(datas'[c]) = IF Step(c).kind = "read" THEN Len(datas[c]) + 1
                              ELSE Len(datas[c])
      BY <2>1, <2>3 DEF Called
    <3>2. Len(datas'[c]) = job[c].r.rn
      BY <2>1, <2>3, <3>1, AllRead
    <3>3. QED
      BY <1>3, <2>1, <2>2, <2>3, <3>1, <3>2
  <2>4. QED
    BY <1>2, <2>2, <2>3 DEF Complete
<1>6. ASSUME NEW c \in Conns, RecvErr(c) \/ ReplyOk(c) \/ ReplyErr(c) \/ Open(c) \/ Leave(c)
      PROVE  \A d \in Conns : Complete(d)'
  <2>1. /\ Only(c, pc, pc') /\ rsp' = rsp /\ job' = job
        /\ pc'[c] = "reply" => pc[c] = "reply"
    BY <1>1, <1>6
    DEF TypeOK, RecvErr, ReplyOk, ReplyErr, Open, Leave, Turn, Only, work
  <2>2. QED
    BY <1>1, <1>2, <2>1, Unmoved DEF Complete
<1>7. ASSUME UNCHANGED <<pc, rsp, job>>
      PROVE  \A d \in Conns : Complete(d)'
  BY <1>7 DEF Complete
<1>8. QED
  BY <1>4, <1>5, <1>6, <1>7
  DEF Next, Thread, Client, Send, Plant, vars, work

\* A read that succeeds is answered with a value for each register it asked
\* for, as long as the u8 dlen can count their bytes (125 registers or 2000
\* coils at most; 2040 coils, 127 registers would still fit).
THEOREM SlaveRepliesComplete ==
    ASSUME \A r \in Requests : IsRead(r) => ItemBytes(r) < DlenMod
    PROVE  Spec => []RepliesAreComplete
<1>1. Init => \A c \in Conns : Complete(c)
  BY DEF Init, Complete
<1>2. SlaveInv /\ (\A c \in Conns : Complete(c)) /\ [Next]_vars => (\A c \in Conns : Complete(c))'
  BY CompleteStep
<1>3. (\A c \in Conns : Complete(c)) => RepliesAreComplete
  BY DEF Complete, RepliesAreComplete
<1>4. QED
  BY <1>1, <1>2, <1>3, SlaveInvariant, PTL DEF Spec

-----------------------------------------------------------------------------
(* Registers change for requests to this slave only.                       *)

LEMMA InvParts == SlaveInv => TypeOK /\ \A c \in Conns : Served(c)
BY DEF SlaveInv, Typed

\* A callback that writes belongs to a request that names the address.
LEMMA WritesNamed ==
    ASSUME TypeOK, NEW c \in Conns, pc[c] = "work", Served(c),
           Step(c).kind \in {"write", "mask"}
    PROVE  LET r == job[c].r IN
           /\ r.fc \notin ReadFcs
           /\ \E i \in 1 .. r.wn : Step(c).addr = At(r.wa, i - 1)
<1> DEFINE r == job[c].r
           p == Len(Plan(r))
<1>1. /\ r \in RequestType /\ WellFormed(r) /\ done[c] \in Nat /\ r.wn \in Nat
      /\ done[c] < p
      /\ r.fc = "mask_write" => p = 2
  BY StepKnown, RequestKnown
<1> HIDE DEF p
<1>2. CASE r.fc = "mask_write"
  <2>1. done[c] = 0 \/ done[c] = 1
    BY <1>1, <1>2
  <2>2. Step(c).addr = At(r.wa, 0)
    BY <1>2, <2>1, StepKnown
  <2>3. r.wn = 1 /\ 1 \in 1 .. 1 /\ 1 - 1 = 0
    BY <1>1, <1>2 DEF WellFormed
  <2>4. QED
    BY <1>2, <2>2, <2>3 DEF ReadFcs
<1>3. CASE r.fc # "mask_write"
  <2>1. done[c] < r.wn
    BY <1>3, StepKnown
  <2>2. Step(c).addr = At(r.wa, done[c])
    BY <1>3, <2>1, StepKnown
  <2>3. done[c] + 1 \in 1 .. r.wn /\ (done[c] + 1) - 1 = done[c]
    BY <1>1, <2>1
  <2>4. r.fc \notin ReadFcs
    BY <1>1, <2>1 DEF WellFormed
  <2>5. QED
    BY <2>2, <2>3, <2>4
<1>4. QED
  BY <1>2, <1>3

\* Coils and holding registers change only at addresses that an intact request
\* to this slave, with a function that writes, names: when addresses are
\* checked, and the pid of TCP frames (a damaged RTU frame fails its CRC).
THEOREM OnlyOwnFramesChange ==
    ASSUME AddrChk, Prot = "RTU" \/ MbapChk
    PROVE  Spec => OnlyOwnFramesAct
<1>1. ASSUME SlaveInv, NEW c \in Conns, WriteCb(c), NEW s \in {"coil", "hold"}, NEW a \in Bank[s],
             mem'[s][a] # mem[s][a]
      PROVE  /\ pc[c] = "work"
             /\ LET r == job[c].r IN
                /\ r.intact /\ r.sa \in {Saddr, 255} /\ r.fc \notin ReadFcs
                /\ s = Space(r.fc) /\ \E i \in 1 .. r.wn : a = At(r.wa, i - 1)
  <2>1. TypeOK /\ Served(c)
    BY <1>1, InvParts
  <2>2. /\ pc[c] = "work" /\ Step(c).kind \in {"write", "mask"}
        /\ Step(c).addr \in Bank[TableOf(c)] /\ Written(c)
    BY <1>1, <2>1, WriteCbDoes
  <2>3. PICK v \in ValuesToWrite(c) : mem' = [mem EXCEPT ![TableOf(c)][Step(c).addr] = v]
    BY <2>2 DEF Written
  <2>4. TableOf(c) \in Spaces /\ DOMAIN mem = Spaces /\ s \in Spaces
        /\ DOMAIN mem[TableOf(c)] = Bank[TableOf(c)]
    BY <2>1, SpaceType DEF TypeOK, IsMemory, TableOf, Spaces
  <2>5. s = TableOf(c) /\ a = Step(c).addr
    BY <1>1, <2>2, <2>3, <2>4
  <2>6. ParseResult(job[c].r) = 1 /\ ForMe(job[c].r)
    BY <2>1, <2>2 DEF Served
  <2>7. job[c].r \in RequestType
    BY <2>1, <2>2, StepKnown, RequestKnown
  <2>8. job[c].r.intact
    BY <2>6, <2>7, Constants DEF ParseResult, ForMe, RequestType
  <2>9. job[c].r.sa \in {Saddr, 255}
    BY <2>6 DEF ForMe
  <2>10. QED
    BY <2>1, <2>2, <2>5, <2>8, <2>9, WritesNamed DEF TableOf
<1>2. ASSUME SlaveInv, NEW c \in Conns, Thread(c) \/ Client(c)
      PROVE  UNCHANGED mem \/ WriteCb(c)
  <2>1. ReadCb(c) => UNCHANGED mem
    BY DEF ReadCb
  <2>2. \A k : Recv(c, k) => UNCHANGED mem
    BY DEF Recv
  <2>3. QED
    BY <1>2, <2>1, <2>2
    DEF Thread, Client, RecvErr, ReplyOk, ReplyErr, Open, Leave, Send
<1>3. ASSUME SlaveInv, NEW t \in Spaces, NEW v \in AppVals, NEW b \in Bank[t], Plant(t, b, v)
      PROVE  \A s \in {"coil", "hold"} : mem'[s] = mem[s]
  <2>1. DOMAIN mem = Spaces
    BY <1>3, InvParts DEF TypeOK, IsMemory
  <2>2. QED
    BY <1>3, <2>1 DEF Plant, Spaces
<1>4. SlaveInv /\ [Next]_vars =>
        [\A s \in {"coil", "hold"} : \A a \in Bank[s] : mem'[s][a] # mem[s][a] =>
           \E c \in Conns :
              /\ pc[c] = "work"
              /\ LET r == job[c].r IN
                 /\ r.intact /\ r.sa \in {Saddr, 255} /\ r.fc \notin ReadFcs
                 /\ s = Space(r.fc) /\ \E i \in 1 .. r.wn : a = At(r.wa, i - 1)]_vars
  <2> SUFFICES ASSUME SlaveInv, Next, NEW s \in {"coil", "hold"}, NEW a \in Bank[s],
                      mem'[s][a] # mem[s][a]
               PROVE  \E c \in Conns :
                        /\ pc[c] = "work"
                        /\ LET r == job[c].r IN
                           /\ r.intact /\ r.sa \in {Saddr, 255} /\ r.fc \notin ReadFcs
                           /\ s = Space(r.fc) /\ \E i \in 1 .. r.wn : a = At(r.wa, i - 1)
    OBVIOUS
  <2>1. PICK c \in Conns : WriteCb(c)
    BY <1>2, <1>3 DEF Next
  <2>2. QED
    BY <1>1, <2>1
<1>5. QED
  BY <1>4, SlaveInvariant, PTL DEF Spec, OnlyOwnFramesAct

-----------------------------------------------------------------------------
(* For a client that is alone the server implements RegisterServer: its    *)
(* callbacks, made one by one, amount to one step on the registers.        *)

\* One connection, and inputs that stand still.
SoleClient == (\E c \in Conns : Conns = {c}) /\ AppVals = {}

\* Frames that were not cut short or mangled unnoticed (the code answers a
\* frame with an unknown function before it looks at the CRC), no more writes
\* than there are addresses, and reads that the u8 dlen can count.
WholeRequests ==
    /\ Prot = "RTU" \/ MbapChk
    /\ \A r \in Requests :
         /\ r.fc # "mask_write" => Len(r.wv) = r.wn
         /\ r.wn <= AddrMod
         /\ IsRead(r) => ItemBytes(r) < DlenMod
         /\ r.fc = "unknown" /\ Prot = "RTU" => r.intact

\* The registers m after the first k writes of r.
After(m, r, k) ==
    [s \in Spaces |-> [a \in Bank[s] |->
        IF s = Space(r.fc) /\ \E i \in 1 .. k : At(r.wa, i - 1) = a
        THEN r.wv[CHOOSE i \in 1 .. k : At(r.wa, i - 1) = a]
        ELSE m[s][a]]]

Array(m) == m = [s \in Spaces |-> [a \in Bank[s] |-> m[s][a]]]

\* Of the k first callbacks of r, those that write; a mask write's is its last.
WritesMade(r, k) == IF r.fc = "mask_write" THEN 0 ELSE IF k < r.wn THEN k ELSE r.wn

\* Where the i-th value that r reads is found.
ReadFrom(r, i) == IF r.fc = "mask_write" THEN At(r.wa, 0) ELSE At(r.ra, i - 1)

\* Half way through a request the registers are those it was taken with, but
\* for the writes made so far, and what was read is still what is there.
Halfway(old, new, r, n, d) ==
    /\ Array(old) /\ new = After(old, r, WritesMade(r, n))
    /\ \A i \in 1 .. WritesMade(r, n) : At(r.wa, i - 1) \in Bank[Space(r.fc)]
    /\ \A i \in 1 .. ReadsMade(r, n) :
         /\ ReadFrom(r, i) \in Bank[Space(r.fc)]
         /\ d[i] = new[Space(r.fc)][ReadFrom(r, i)]

Progress(c) ==
    pc[c] = "work" => Halfway(before[c], mem, job[c].r, done[c], datas[c])

SoleInv == SlaveInv /\ Array(mem) /\ Progress(Sole)

\* No two registers of a request are the same one.
LEMMA AtOnce ==
    ASSUME NEW a \in Addrs, NEW i \in 0 .. (AddrMod - 1), NEW j \in 0 .. (AddrMod - 1),
           At(a, i) = At(a, j)
    PROVE  i = j
<1>1. AddrMod \in Nat /\ AddrMod > 0 /\ a \in 0 .. (AddrMod - 1)
  BY Constants DEF Addrs
<1>2. \A m, x \in Nat : m > 0 /\ x < m => x % m = x
  OBVIOUS
<1>3. \A m, x \in Nat : m > 0 /\ m <= x /\ x < 2 * m => x % m = x - m
  OBVIOUS
<1>4. ASSUME NEW k \in 0 .. (AddrMod - 1)
      PROVE  At(a, k) = IF a + k < AddrMod THEN a + k ELSE a + k - AddrMod
  <2>1. a + k \in Nat /\ a + k < 2 * AddrMod
    BY <1>1
  <2>2. CASE a + k < AddrMod
    BY <1>1, <1>2, <2>1, <2>2 DEF At
  <2>3. CASE ~(a + k < AddrMod)
    BY <1>1, <1>3, <2>1, <2>3 DEF At
  <2>4. QED
    BY <2>2, <2>3
<1>5. QED
  BY <1>1, <1>4

LEMMA AfterNone ==
    ASSUME NEW m, NEW r, Array(m)
    PROVE  After(m, r, 0) = m
<1>1. \A a : ~ \E i \in 1 .. 0 : At(r.wa, i - 1) = a
  OBVIOUS
<1>2. After(m, r, 0) = [s \in Spaces |-> [a \in Bank[s] |-> m[s][a]]]
  BY <1>1 DEF After
<1>3. QED
  BY <1>2 DEF Array

LEMMA AfterArray ==
    ASSUME NEW m, NEW r, NEW k
    PROVE  Array(After(m, r, k))
BY DEF Array, After

LEMMA AfterOneMore ==
    ASSUME NEW m, NEW r \in RequestType, r.wn <= AddrMod, NEW k \in Nat, k < r.wn,
           At(r.wa, k) \in Bank[Space(r.fc)]
    PROVE  [After(m, r, k) EXCEPT ![Space(r.fc)][At(r.wa, k)] = r.wv[k + 1]]
             = After(m, r, k + 1)
<1> DEFINE s0 == Space(r.fc)
           a0 == At(r.wa, k)
           Val(n, s, a) == IF s = s0 /\ \E i \in 1 .. n : At(r.wa, i - 1) = a
                           THEN r.wv[CHOOSE i \in 1 .. n : At(r.wa, i - 1) = a]
                           ELSE m[s][a]
<1>1. /\ r.wa \in Addrs /\ r.wn \in Nat /\ AddrMod \in Nat /\ s0 \in Spaces /\ a0 \in Bank[s0]
  BY SpaceType, Constants DEF RequestType
<1>2. \A n : After(m, r, n) = [s \in Spaces |-> [a \in Bank[s] |-> Val(n, s, a)]]
  BY DEF After
<1>3. ASSUME NEW i \in 1 .. k + 1, NEW j \in 1 .. k + 1, At(r.wa, i - 1) = At(r.wa, j - 1)
      PROVE  i = j
  <2>1. i - 1 \in 0 .. (AddrMod - 1) /\ j - 1 \in 0 .. (AddrMod - 1)
    BY <1>1
  <2>2. i - 1 = j - 1
    BY <1>1, <1>3, <2>1, AtOnce
  <2>3. QED
    BY <2>2
<1>4. ASSUME NEW a, a # a0
      PROVE  Val(k + 1, s0, a) = Val(k, s0, a)
  <2>1. \A i \in 1 .. k + 1 : At(r.wa, i - 1) = a => i \in 1 .. k
    <3>1. ASSUME NEW i \in 1 .. k + 1, At(r.wa, i - 1) = a, i \notin 1 .. k
          PROVE  FALSE
      <4>1. i = k + 1 /\ (k + 1) - 1 = k
        BY <3>1
      <4>2. QED
        BY <1>4, <3>1, <4>1
    <3>2. QED
      BY <3>1
  <2>2. \A i \in 1 .. k : i \in 1 .. k + 1
    OBVIOUS
  <2>3. CASE \E i \in 1 .. k : At(r.wa, i - 1) = a
    <3>1. PICK i \in 1 .. k : At(r.wa, i - 1) = a
      BY <2>3
    <3>2. (CHOOSE j \in 1 .. k : At(r.wa, j - 1) = a) = i
      BY <1>3, <2>2, <3>1
    <3>3. (CHOOSE j \in 1 .. k + 1 : At(r.wa, j - 1) = a) = i
      BY <1>3, <2>2, <3>1
    <3>4. QED
      BY <2>2, <3>1, <3>2, <3>3
  <2>4. CASE ~ \E i \in 1 .. k : At(r.wa, i - 1) = a
    BY <2>1, <2>4
  <2>5. QED
    BY <2>3, <2>4
<1>5. Val(k + 1, s0, a0) = r.wv[k + 1]
  <2>1. k + 1 \in 1 .. k + 1 /\ At(r.wa, (k + 1) - 1) = a0
    OBVIOUS
  <2>2. (CHOOSE j \in 1 .. k + 1 : At(r.wa, j - 1) = a0) = k + 1
    BY <1>3, <2>1
  <2>3. QED
    BY <2>1, <2>2
<1>6. \A s, a : s # s0 => Val(k + 1, s, a) = m[s][a] /\ Val(k, s, a) = m[s][a]
  OBVIOUS
<1> HIDE DEF Val, s0, a0
<1> DEFINE M == After(m, r, k)
           N == [M EXCEPT ![s0] = [M[s0] EXCEPT ![a0] = r.wv[k + 1]]]
<1>7. N = [s \in Spaces |-> [a \in Bank[s] |-> Val(k + 1, s, a)]]
  <2>1. M = [s \in Spaces |-> [a \in Bank[s] |-> Val(k, s, a)]]
    BY <1>2
  <2>2. N = [s \in Spaces |-> IF s = s0 THEN [M[s0] EXCEPT ![a0] = r.wv[k + 1]] ELSE M[s]]
    BY <2>1
  <2>3. [M[s0] EXCEPT ![a0] = r.wv[k + 1]] = [a \in Bank[s0] |-> Val(k + 1, s0, a)]
    <3>1. M[s0] = [a \in Bank[s0] |-> Val(k, s0, a)]
      BY <1>1, <2>1
    <3> HIDE DEF M
    <3>2. [M[s0] EXCEPT ![a0] = r.wv[k + 1]]
            = [a \in Bank[s0] |-> IF a = a0 THEN r.wv[k + 1] ELSE Val(k, s0, a)]
      BY <1>1, <3>1
    <3>3. QED
      BY <1>4, <1>5, <3>2
  <2>4. ASSUME NEW s \in Spaces, s # s0
        PROVE  M[s] = [a \in Bank[s] |-> Val(k + 1, s, a)]
    BY <1>6, <2>1, <2>4
  <2> HIDE DEF M, N
  <2>5. QED
    BY <2>2, <2>3, <2>4
<1>8. QED
  BY <1>2, <1>7 DEF s0, a0

LEMMA Alone == ASSUME SoleClient PROVE Sole \in Conns /\ \A c \in Conns : c = Sole
BY DEF SoleClient, Sole

\* After a callback that read a value.
LEMMA ReadGoesOn ==
    ASSUME SoleInv, Sole \in Conns, ReadCb(Sole), done'[Sole] = done[Sole] + 1
    PROVE  Halfway(before[Sole], mem, job[Sole].r, done[Sole] + 1, datas'[Sole])
<1> DEFINE c == Sole
           r == job[c].r
           n == done[c]
           v == mem[TableOf(c)][Step(c).addr]
<1>1. TypeOK /\ Counted(c) /\ Progress(c) /\ c \in Conns
  BY DEF SoleInv, SlaveInv, Typed
<1>2. pc[c] = "work" /\ Step(c).kind = "read"
  BY DEF ReadCb
<1>3. /\ n \in Nat /\ r.wn \in Nat /\ r.rn \in Nat /\ r \in RequestType
      /\ n < Len(Plan(r)) /\ r.fc = "mask_write" => Len(Plan(r)) = 2
  BY <1>1, <1>2, StepKnown, RequestKnown
<1>4. /\ datas \in [Conns -> Seq(Vals)] /\ done \in [Conns -> Nat]
      /\ Space(r.fc) \in Spaces /\ IsMemory(mem)
  BY <1>1, SpaceType DEF TypeOK
<1>5. Step(c).addr \in Bank[TableOf(c)] /\ datas'[c] = Append(datas[c], v)
  <2>1. done'[c] # done[c]
    BY <1>3
  <2>2. /\ Step(c).addr \in Bank[TableOf(c)]
        /\ Advance(c, Append(datas[c], v))
    BY <2>1 DEF ReadCb, Abort
  <2>3. QED
    BY <1>1, <1>4, <2>2 DEF Advance
<1>6. v \in Vals /\ TableOf(c) = Space(r.fc)
  BY <1>4, <1>5 DEF IsMemory, TableOf
<1>7. Len(datas[c]) = ReadsMade(r, n)
  BY <1>1, <1>2 DEF Counted
<1>8. Halfway(before[c], mem, r, n, datas[c])
  BY <1>1, <1>2 DEF Progress
<1> HIDE DEF v
<1>9. /\ \A i \in 1 .. Len(datas[c]) : datas'[c][i] = datas[c][i]
      /\ datas'[c][Len(datas[c]) + 1] = v
  <2>1. datas[c] \in Seq(Vals)
    BY <1>1, <1>4
  <2>2. QED
    BY <1>5, <1>6, <2>1, AppendProperties
\* One read more, and no write.
<1>10. /\ WritesMade(r, n + 1) = WritesMade(r, n)
       /\ ReadsMade(r, n) \in Nat /\ ReadsMade(r, n + 1) = ReadsMade(r, n) + 1
       /\ ReadFrom(r, ReadsMade(r, n) + 1) = Step(c).addr
  <2>1. CASE r.fc = "mask_write"
    <3>1. Step(c).addr = At(r.wa, 0)
      <4>1. n = 0 \/ n = 1
        <5> DEFINE p == Len(Plan(r))
        <5>1. p = 2 /\ n < p /\ n \in Nat
          BY <1>1, <1>2, <2>1, StepKnown
        <5> HIDE DEF p
        <5>2. QED
          BY <5>1
      <4>2. QED
        BY <1>1, <1>2, <2>1, <4>1, StepKnown
    <3>2. QED
      BY <1>3, <2>1, <3>1 DEF WritesMade, ReadsMade, ReadFrom
  <2>2. CASE r.fc # "mask_write"
    <3>1. ~(n < r.wn) /\ Step(c).addr = At(r.ra, n - r.wn)
      BY <1>1, <1>2, <2>2, StepKnown
    <3>2. ReadsMade(r, n) = n - r.wn /\ ReadsMade(r, n + 1) = n - r.wn + 1
      BY <1>3, <2>2, <3>1 DEF ReadsMade
    <3>3. WritesMade(r, n) = r.wn /\ WritesMade(r, n + 1) = r.wn
      BY <1>3, <2>2, <3>1 DEF WritesMade
    <3>4. n - r.wn \in Nat /\ (n - r.wn + 1) - 1 = n - r.wn
      BY <1>3, <3>1
    <3>5. QED
      BY <2>2, <3>1, <3>2, <3>3, <3>4 DEF ReadFrom
  <2>3. QED
    BY <2>1, <2>2
<1> HIDE DEF r, n
<1>11. ASSUME NEW i \in 1 .. ReadsMade(r, n + 1)
       PROVE  /\ ReadFrom(r, i) \in Bank[Space(r.fc)]
              /\ datas'[c][i] = mem[Space(r.fc)][ReadFrom(r, i)]
  <2>1. CASE i \in 1 .. ReadsMade(r, n)
    <3>1. ReadFrom(r, i) \in Bank[Space(r.fc)] /\ datas[c][i] = mem[Space(r.fc)][ReadFrom(r, i)]
      BY <1>8, <2>1 DEF Halfway
    <3>2. datas'[c][i] = datas[c][i]
      BY <1>7, <1>9, <2>1
    <3>3. QED
      BY <3>1, <3>2
  <2>2. CASE i = ReadsMade(r, n) + 1
    BY <1>5, <1>6, <1>7, <1>9, <1>10, <2>2 DEF v
  <2>3. i \in 1 .. ReadsMade(r, n) \/ i = ReadsMade(r, n) + 1
    BY <1>10
  <2>4. QED
    BY <2>1, <2>2, <2>3
<1>12. Halfway(before[c], mem, r, n + 1, datas'[c])
  BY <1>8, <1>10, <1>11 DEF Halfway
<1>13. QED
  BY <1>12 DEF r, n

\* After a callback that wrote a value.
LEMMA WriteGoesOn ==
    ASSUME SoleInv, WholeRequests, Sole \in Conns, WriteCb(Sole), done'[Sole] = done[Sole] + 1,
           job[Sole].r.fc # "mask_write"
    PROVE  /\ Halfway(before[Sole], mem', job[Sole].r, done[Sole] + 1, datas[Sole])
           /\ datas'[Sole] = datas[Sole]
<1> DEFINE c == Sole
           r == job[c].r
           n == done[c]
<1>1. TypeOK /\ Progress(c) /\ c \in Conns
  BY DEF SoleInv, SlaveInv, Typed
<1>2. /\ pc[c] = "work" /\ Step(c).kind \in {"write", "mask"}
      /\ n \in Nat /\ r.wn \in Nat /\ r \in RequestType /\ r \in Requests
  BY <1>1, WriteCbDoes, StepKnown, RequestKnown
<1>3. /\ Step(c).addr \in Bank[TableOf(c)] /\ Written(c) /\ datas'[c] = datas[c]
  <2>1. done'[c] # done[c]
    BY <1>2
  <2>2. QED
    BY <1>1, <2>1, WriteCbDoes
<1>4. n < r.wn /\ Step(c) = [kind |-> "write", addr |-> At(r.wa, n), i |-> n + 1]
  BY <1>1, <1>2, StepKnown
<1>5. r.wn <= AddrMod /\ Len(r.wv) = r.wn
  BY <1>2 DEF WholeRequests
<1>6. ValuesToWrite(c) = {r.wv[n + 1]}
  BY <1>2, <1>4, <1>5 DEF ValuesToWrite
<1>7. mem' = [mem EXCEPT ![Space(r.fc)][At(r.wa, n)] = r.wv[n + 1]]
      /\ At(r.wa, n) \in Bank[Space(r.fc)]
  <2>1. PICK v \in ValuesToWrite(c) : mem' = [mem EXCEPT ![TableOf(c)][Step(c).addr] = v]
    BY <1>3 DEF Written
  <2>2. v = r.wv[n + 1] /\ Step(c).addr = At(r.wa, n) /\ TableOf(c) = Space(r.fc)
    BY <1>4, <1>6 DEF TableOf
  <2>3. QED
    BY <1>3, <2>1, <2>2
<1>8. Halfway(before[c], mem, r, n, datas[c])
  BY <1>1, <1>2 DEF Progress
<1>9. /\ WritesMade(r, n) = n /\ WritesMade(r, n + 1) = n + 1
      /\ ReadsMade(r, n) = 0 /\ ReadsMade(r, n + 1) = 0
  BY <1>2, <1>4 DEF WritesMade, ReadsMade
<1> HIDE DEF r, n
<1>10. r.fc # "mask_write"
  BY DEF r
<1>11. mem' = After(before[c], r, n + 1)
  <2>1. mem = After(before[c], r, n)
    BY <1>8, <1>9 DEF Halfway
  <2>2. QED
    BY <1>2, <1>4, <1>5, <1>7, <2>1, AfterOneMore
<1>12. ASSUME NEW i \in 1 .. n + 1
       PROVE  At(r.wa, i - 1) \in Bank[Space(r.fc)]
  <2>1. CASE i \in 1 .. n
    BY <1>8, <1>9, <2>1 DEF Halfway
  <2>2. CASE i = n + 1
    <3>1. (n + 1) - 1 = n
      BY <1>2
    <3>2. QED
      BY <1>7, <2>2, <3>1
  <2>3. QED
    BY <1>2, <2>1, <2>2
<1>13. Array(before[c])
  BY <1>8 DEF Halfway
<1>14. Halfway(before[c], mem', r, n + 1, datas[c])
  BY <1>9, <1>11, <1>12, <1>13 DEF Halfway
<1>15. QED
  BY <1>3, <1>14 DEF r, n

\* A mask write changes the register it read in the callback before.
LEMMA MaskMade ==
    ASSUME SoleInv, Sole \in Conns, WriteCb(Sole), done'[Sole] = done[Sole] + 1,
           job[Sole].r.fc = "mask_write"
    PROVE  LET r == job[Sole].r IN
           /\ done[Sole] = 1 /\ r.wa \in Bank["hold"]
           /\ mem' = [before[Sole] EXCEPT !["hold"][r.wa] = Masked(@, r)]
<1> DEFINE c == Sole
           r == job[c].r
           n == done[c]
           p == Len(Plan(r))
<1>1. TypeOK /\ Progress(c) /\ c \in Conns
  BY DEF SoleInv, SlaveInv, Typed
<1>2. /\ pc[c] = "work" /\ Step(c).kind \in {"write", "mask"}
      /\ n \in Nat /\ r \in RequestType /\ n < p /\ p = 2
  BY <1>1, WriteCbDoes, StepKnown, RequestKnown
<1>3. /\ Step(c).addr \in Bank[TableOf(c)] /\ Written(c)
  <2>1. done'[c] # done[c]
    BY <1>2
  <2>2. QED
    BY <1>1, <2>1, WriteCbDoes
<1>4. n = 1
  <2>1. n # 0
    BY <1>1, <1>2, StepKnown
  <2> HIDE DEF p, n
  <2>2. QED
    BY <1>2, <2>1
<1>5. Step(c) = [kind |-> "mask", addr |-> At(r.wa, 0), i |-> 1]
  BY <1>1, <1>2, <1>4, StepKnown
<1>6. Space(r.fc) = "hold" /\ TableOf(c) = "hold"
  BY DEF Space, TableOf
<1>7. At(r.wa, 0) = r.wa
  <2>1. \A m, x \in Nat : m > 0 /\ x < m => x % m = x
    OBVIOUS
  <2>2. r.wa \in 0 .. (AddrMod - 1) /\ AddrMod \in Nat
    BY <1>2, Constants DEF RequestType, Addrs
  <2>3. QED
    BY <2>1, <2>2 DEF At
<1>8. Halfway(before[c], mem, r, n, datas[c])
  BY <1>1, <1>2 DEF Progress
<1>9. WritesMade(r, n) = 0 /\ ReadsMade(r, n) = 1 /\ ReadFrom(r, 1) = r.wa /\ 1 \in 1 .. 1
  BY <1>4, <1>7 DEF WritesMade, ReadsMade, ReadFrom
<1> HIDE DEF r, n, p
<1>10. mem = before[c] /\ datas[c][1] = mem["hold"][r.wa]
  BY <1>6, <1>8, <1>9, AfterNone DEF Halfway
<1>11. ValuesToWrite(c) = {Masked(before[c]["hold"][r.wa], r)}
  BY <1>5, <1>10 DEF ValuesToWrite, r
<1>12. mem' = [mem EXCEPT !["hold"][r.wa] = Masked(before[c]["hold"][r.wa], r)]
       /\ r.wa \in Bank["hold"]
  <2>1. PICK v \in ValuesToWrite(c) : mem' = [mem EXCEPT ![TableOf(c)][Step(c).addr] = v]
    BY <1>3 DEF Written
  <2>2. v = Masked(before[c]["hold"][r.wa], r) /\ Step(c).addr = r.wa
    BY <1>5, <1>7, <1>11
  <2>3. QED
    BY <1>3, <1>6, <2>1, <2>2
<1>13. QED
  BY <1>4, <1>10, <1>12 DEF r, n

-----------------------------------------------------------------------------
(* What the abstract server sees, and its steps.                           *)

AMem == IF pc[Sole] = "work" THEN before[Sole] ELSE mem
AAnswer == [id |-> rsp[Sole].id, kind |-> rsp[Sole].kind, data |-> rsp[Sole].data]

\* The request is one the abstract server could deal with now.
Due(f) == f \in Pending /\ f.r.intact /\ f.id \in (rsp[Sole].id + 1) .. MaxReqs

\* The operators of ModbusRequest are those the abstract server is made of.
LEMMA SameOperators ==
    /\ Server!Spaces = Spaces /\ \A fc : Server!Space(fc) = Space(fc)
    /\ \A a, i : Server!At(a, i) = At(a, i)
    /\ \A v, r : Server!Masked(v, r) = Masked(v, r)
BY DEF Server!Spaces, Spaces, Server!Space, Space, Server!At, At, Server!Masked, Masked

LEMMA ServerOperators ==
    ASSUME NEW r, NEW k
    PROVE  /\ Server!Written(r, k) = After(AMem, r, k)
           /\ (\A i \in 1 .. k : At(r.wa, i - 1) \in Bank[Space(r.fc)])
                => Server!WritesInBank(r, k)
           /\ (\A i \in 1 .. r.rn : At(r.ra, i - 1) \in Bank[Space(r.fc)])
                => Server!ReadsInBank(r)
<1>1. Server!Written(r, k) = After(AMem, r, k)
  BY SameOperators DEF Server!Written, After, AMem
<1>2. QED
  BY <1>1, SameOperators DEF Server!WritesInBank, Server!ReadsInBank

LEMMA Refuses ==
    ASSUME NEW f, Due(f), NEW k \in 0 .. Len(f.r.wv),
           rsp'[Sole].id = f.id, rsp'[Sole].kind = "exc", rsp'[Sole].data = <<>>,
           \A i \in 1 .. k : At(f.r.wa, i - 1) \in Bank[Space(f.r.fc)],
           AMem' = After(AMem, f.r, k)
    PROVE  Server!Next
<1>1. AAnswer' = [id |-> f.id, kind |-> "exc", data |-> <<>>]
  BY DEF AAnswer
<1>2. Server!Refused(f.r, f.id)
  <2>1. Server!WritesInBank(f.r, k) /\ AMem' = Server!Written(f.r, k)
    BY ServerOperators
  <2>2. Server!Answer(f.id, "exc", <<>>)
    BY <1>1 DEF Server!Answer, AAnswer
  <2>3. QED
    BY <2>1, <2>2 DEF Server!Refused, AMem
<1>3. f.r \in Requests
  BY RequestKnown DEF Due
<1>4. QED
  BY <1>2, <1>3 DEF Server!Next, Due

LEMMA Answers ==
    ASSUME NEW f, Due(f), NEW d, f.r.fc \notin {"unknown", "mask_write"},
           rsp'[Sole].id = f.id, rsp'[Sole].kind = "ok", rsp'[Sole].data = d,
           \A i \in 1 .. Len(f.r.wv) : At(f.r.wa, i - 1) \in Bank[Space(f.r.fc)],
           \A i \in 1 .. f.r.rn : At(f.r.ra, i - 1) \in Bank[Space(f.r.fc)],
           AMem' = After(AMem, f.r, Len(f.r.wv)),
           d = [i \in 1 .. f.r.rn |-> AMem'[Space(f.r.fc)][At(f.r.ra, i - 1)]]
    PROVE  Server!Next
<1>1. AAnswer' = [id |-> f.id, kind |-> "ok", data |-> d]
  BY DEF AAnswer
<1>2. Server!Done(f.r, f.id)
  <2>1. /\ Server!WritesInBank(f.r, Len(f.r.wv)) /\ Server!ReadsInBank(f.r)
        /\ AMem' = Server!Written(f.r, Len(f.r.wv))
    <3> DEFINE k == Len(f.r.wv)
    <3>1. \A i \in 1 .. k : At(f.r.wa, i - 1) \in Bank[Space(f.r.fc)]
      OBVIOUS
    <3>2. AMem' = After(AMem, f.r, k)
      OBVIOUS
    <3> HIDE DEF k
    <3>3. /\ Server!WritesInBank(f.r, k) /\ Server!ReadsInBank(f.r)
          /\ AMem' = Server!Written(f.r, k)
      BY <3>1, <3>2, ServerOperators
    <3>4. QED
      BY <3>3 DEF k
  <2>2. d = Server!ReadAll(AMem', f.r)
    BY SameOperators DEF Server!ReadAll
  <2>3. Server!Answer(f.id, "ok", Server!ReadAll(AMem', f.r))
    BY <1>1, <2>2 DEF Server!Answer, AAnswer
  <2>4. QED
    BY <2>1, <2>3 DEF Server!Done, AMem
<1>3. f.r \in Requests
  BY RequestKnown DEF Due
<1>4. QED
  BY <1>2, <1>3 DEF Server!Next, Due

LEMMA Masks ==
    ASSUME NEW f, Due(f), f.r.fc = "mask_write", f.r.wa \in Bank["hold"],
           rsp'[Sole].id = f.id, rsp'[Sole].kind = "ok", rsp'[Sole].data = <<>>,
           AMem' = [AMem EXCEPT !["hold"][f.r.wa] = Masked(@, f.r)]
    PROVE  Server!Next
<1>1. AAnswer' = [id |-> f.id, kind |-> "ok", data |-> <<>>]
  BY DEF AAnswer
<1>2. Server!MaskDone(f.r, f.id)
  BY <1>1
  DEF Server!MaskDone, Server!Answer, AAnswer, AMem, Server!Masked, Masked
<1>3. f.r \in Requests
  BY RequestKnown DEF Due
<1>4. QED
  BY <1>2, <1>3 DEF Server!Next, Due

LEMMA DataAnswered ==
    ASSUME WholeRequests, NEW f \in Pending, f.r.fc \notin {"unknown", "mask_write"},
           NEW d \in Seq(Vals), Len(d) = f.r.rn, NEW m,
           \A i \in 1 .. f.r.rn : d[i] = m[Space(f.r.fc)][At(f.r.ra, i - 1)]
    PROVE  Carried(f.r, d) = [i \in 1 .. f.r.rn |-> m[Space(f.r.fc)][At(f.r.ra, i - 1)]]
<1> DEFINE r == f.r
<1>1. r \in Requests /\ r \in RequestType /\ WellFormed(r) /\ r.fc \in Fcs /\ r.rn \in Nat
  BY RequestKnown DEF RequestType
<1>2. d = [i \in 1 .. r.rn |-> m[Space(r.fc)][At(r.ra, i - 1)]]
  <2>1. d \in [1 .. r.rn -> Vals]
    BY LenProperties
  <2>2. d = [i \in 1 .. r.rn |-> d[i]]
    BY <2>1
  <2>3. QED
    BY <2>2
<1>3. CASE IsRead(r)
  <2>1. ItemBytes(r) < DlenMod
    BY <1>1, <1>3 DEF WholeRequests
  <2>2. Carried(r, d) = d
    BY <1>1, <1>3, <2>1, CarriedWhole
  <2>3. QED
    BY <1>2, <2>2
<1>4. CASE ~IsRead(r)
  <2>1. r.rn = 0
    BY <1>1, <1>4 DEF WellFormed, IsRead, Fcs, BothFcs
  <2>2. <<>> \in Seq(Vals) /\ Len(<<>>) = 0
    BY EmptySeq
  <2>3. d = <<>>
    BY <2>1, <2>2, EmptySeq
  <2>4. Carried(r, d) = <<>>
    BY <1>4 DEF Carried
  <2>5. QED
    BY <1>2, <2>3, <2>4
<1>5. QED
  BY <1>3, <1>4

\* What gets past the checks of mb_slave_fsm is intact.
LEMMA IntactIfServed ==
    ASSUME WholeRequests, NEW f \in Pending, ParseResult(f.r) # 0, ForMe(f.r)
    PROVE  f.r.intact
<1>1. f.r \in Requests /\ f.r \in RequestType
  BY RequestKnown
<1>2. f.r.intact \in BOOLEAN /\ Prot \in {"RTU", "TCP"}
  BY <1>1, Constants DEF RequestType
<1>3. CASE Prot = "RTU"
  BY <1>1, <1>2, <1>3 DEF WholeRequests, ParseResult
<1>4. CASE Prot = "TCP"
  BY <1>2, <1>4 DEF WholeRequests, ForMe
<1>5. QED
  BY <1>2, <1>3, <1>4

LEMMA PlanLen ==
    ASSUME NEW f \in Pending
    PROVE  /\ f.r.wn \in Nat /\ f.r.rn \in Nat
           /\ f.r.fc = "mask_write" => Len(Plan(f.r)) = 2
           /\ f.r.fc # "mask_write" => Len(Plan(f.r)) = f.r.wn + f.r.rn
<1>1. f.r \in RequestType
  BY RequestKnown
<1>2. QED
  BY <1>1, PlanSteps DEF RequestType

\* A request that is refused, answered at once, or begun.
LEMMA RecvServes ==
    ASSUME SoleInv, SlaveInv', WholeRequests, Sole \in Conns, NEW k, Recv(Sole, k)
    PROVE  /\ Array(mem') /\ Progress(Sole)'
           /\ Server!Next \/ UNCHANGED <<AMem, AAnswer>>
<1> DEFINE c == Sole
           f == inbox[c][1]
<1>1. TypeOK /\ TypeOK' /\ Ordered(c) /\ Array(mem) /\ c \in Conns /\ DOMAIN before = Conns
  BY DEF SoleInv, SlaveInv, Typed
<1>2. /\ pc[c] = "recv" /\ 1 \in 1 .. Len(inbox[c]) /\ f \in Pending /\ Dealt(c, f)
      /\ job'[c] = f /\ done'[c] = 0 /\ datas'[c] = <<>> /\ UNCHANGED <<sent, acked, mem>>
      /\ before' = [before EXCEPT ![c] = mem]
  BY <1>1, RecvDoes DEF conn
<1>3. rsp[c].id < f.id /\ rsp[c].id \in Nat /\ f.id \in 1 .. MaxReqs
  BY <1>1, <1>2, Numbers, RequestKnown DEF Ordered, Taken
<1>4. AMem = mem /\ before'[c] = mem /\ mem' = mem
  BY <1>1, <1>2 DEF AMem
<1> HIDE DEF f
<1>5. Progress(c)'
  <2>1. WritesMade(f.r, 0) = 0 /\ ReadsMade(f.r, 0) = 0
    BY <1>2, PlanLen DEF WritesMade, ReadsMade
  <2>2. mem = After(mem, f.r, 0)
    BY <1>1, AfterNone
  <2>3. Halfway(mem, mem, f.r, 0, <<>>)
    BY <1>1, <2>1, <2>2 DEF Halfway
  <2>4. QED
    BY <1>2, <1>4, <2>3 DEF Progress
<1>6. CASE pc'[c] # "reply"
  <2>1. rsp' = rsp
    BY <1>2, <1>6 DEF Dealt
  <2>2. AMem' = AMem /\ AAnswer' = AAnswer
    BY <1>4, <2>1 DEF AMem, AAnswer
  <2>3. QED
    BY <1>1, <1>4, <1>5, <2>2
<1>7. CASE pc'[c] = "reply"
  <2>1. ParseResult(f.r) # 0 /\ ForMe(f.r) /\ rsp'[c].id = f.id
    BY <1>2, <1>7 DEF Dealt
  <2>2. Due(f)
    BY <1>2, <1>3, <2>1, IntactIfServed DEF Due
  <2>3. AMem' = mem
    BY <1>4, <1>7 DEF AMem
  <2>4. After(AMem, f.r, 0) = mem
    BY <1>1, <1>4, AfterNone
  <2>5. CASE rsp'[c].kind = "exc" /\ rsp'[c].data = <<>>
    <3>1. f.r.wv \in Seq(Vals)
      BY <1>2, RequestKnown DEF RequestType
    <3>2. 0 \in 0 .. Len(f.r.wv)
      BY <3>1, LenProperties
    <3>3. Server!Next
      BY <2>1, <2>2, <2>3, <2>4, <2>5, <3>2, Refuses
    <3>4. QED
      BY <1>1, <1>4, <1>5, <3>3
  <2>6. CASE /\ rsp'[c] = Ok(f, <<>>) /\ rsp'[c].kind = "ok"
             /\ Plan(f.r) = <<>> /\ ParseResult(f.r) = 1
    <3>1. f.r.fc \notin {"unknown", "mask_write"} /\ f.r.wn = 0 /\ f.r.rn = 0
      <4>1. Len(Plan(f.r)) = 0
        BY <2>6, EmptySeq
      <4>2. f.r.fc # "mask_write"
        <5>1. f.r.fc = "mask_write" => Len(Plan(f.r)) = 2
          BY <1>2, PlanLen
        <5>2. QED
          BY <4>1, <5>1
      <4>3. f.r.fc # "unknown"
        BY <2>6 DEF ParseResult
      <4>4. f.r.wn + f.r.rn = 0 /\ f.r.wn \in Nat /\ f.r.rn \in Nat
        BY <1>2, <4>1, <4>2, PlanLen
      <4>5. QED
        BY <4>2, <4>3, <4>4
    <3>2. Len(f.r.wv) = 0
      BY <1>2, <3>1, RequestKnown DEF WholeRequests
    <3>3. <<>> \in Seq(Vals) /\ Len(<<>>) = 0
      BY EmptySeq
    <3>4. rsp'[c].data
            = [i \in 1 .. f.r.rn |-> AMem'[Space(f.r.fc)][At(f.r.ra, i - 1)]]
      <4> DEFINE M == AMem'
      <4>1. rsp'[c].data = Carried(f.r, <<>>)
        BY <2>6 DEF Ok
      <4> HIDE DEF M
      <4>2. Carried(f.r, <<>>)
              = [i \in 1 .. f.r.rn |-> M[Space(f.r.fc)][At(f.r.ra, i - 1)]]
        <5>1. \A i \in 1 .. f.r.rn : <<>>[i] = M[Space(f.r.fc)][At(f.r.ra, i - 1)]
          BY <3>1
        <5>2. f \in Pending /\ Len(<<>>) = f.r.rn
          BY <1>2, <3>1, <3>3
        <5>3. QED
          BY <3>1, <3>3, <5>1, <5>2, DataAnswered
      <4>3. QED
        BY <4>1, <4>2 DEF M
    <3>5. Server!Next
      <4>1. \A i \in 1 .. Len(f.r.wv) : At(f.r.wa, i - 1) \in Bank[Space(f.r.fc)]
        BY <3>2
      <4>2. \A i \in 1 .. f.r.rn : At(f.r.ra, i - 1) \in Bank[Space(f.r.fc)]
        BY <3>1
      <4>3. AMem' = After(AMem, f.r, Len(f.r.wv))
        BY <2>3, <2>4, <3>2
      <4>4. QED
        BY <2>1, <2>2, <2>6, <3>1, <3>4, <4>1, <4>2, <4>3, Answers
    <3>6. QED
      BY <1>1, <1>4, <1>5, <3>5
  <2>7. QED
    BY <1>2, <1>7, <2>5, <2>6 DEF Dealt
<1>8. QED
  BY <1>6, <1>7

LEMMA ArrayKept ==
    ASSUME NEW m, Array(m), NEW s, NEW a, NEW v
    PROVE  Array([m EXCEPT ![s][a] = v])
<1> DEFINE n == [m EXCEPT ![s] = [m[s] EXCEPT ![a] = v]]
<1>1. DOMAIN m = Spaces /\ m = [t \in Spaces |-> m[t]]
      /\ \A t \in Spaces : DOMAIN m[t] = Bank[t] /\ m[t] = [b \in Bank[t] |-> m[t][b]]
  BY DEF Array
<1>2. n = [t \in Spaces |-> IF t = s THEN [m[s] EXCEPT ![a] = v] ELSE m[t]]
  BY <1>1
<1>3. ASSUME NEW t \in Spaces
      PROVE  n[t] = [b \in Bank[t] |-> n[t][b]]
  <2>1. CASE t = s
    <3>1. n[t] = [m[s] EXCEPT ![a] = v] /\ DOMAIN m[s] = Bank[t]
      BY <1>1, <1>2, <2>1
    <3>2. QED
      BY <3>1
  <2>2. CASE t # s
    <3>1. n[t] = m[t]
      BY <1>2, <2>2
    <3>2. QED
      BY <1>1, <3>1
  <2>3. QED
    BY <2>1, <2>2
<1>4. n = [t \in Spaces |-> n[t]]
  BY <1>2
<1> HIDE DEF n
<1>5. Array(n)
  BY <1>3, <1>4 DEF Array
<1>6. QED
  BY <1>5 DEF n

\* A callback that fails ends the request with a prefix of its writes made; one
\* that succeeds does not show, unless it is the last.
LEMMA CallbackServes ==
    ASSUME SoleInv, SlaveInv', WholeRequests, Sole \in Conns, ReadCb(Sole) \/ WriteCb(Sole)
    PROVE  /\ Array(mem') /\ Progress(Sole)'
           /\ Server!Next \/ UNCHANGED <<AMem, AAnswer>>
<1> DEFINE c == Sole
           f == job[c]
           r == f.r
           n == done[c]
<1>1. TypeOK /\ TypeOK' /\ Ordered(c) /\ Served(c) /\ Progress(c) /\ Array(mem) /\ c \in Conns
  BY DEF SoleInv, SlaveInv, Typed
<1>2. Called(c) /\ pc[c] = "work"
  BY <1>1, ReadCbDoes, WriteCbDoes
<1>3. /\ f \in Pending /\ n \in Nat /\ n < Len(Plan(r)) /\ r \in Requests /\ r \in RequestType
      /\ r.wn \in Nat /\ r.rn \in Nat /\ WellFormed(r)
  BY <1>1, <1>2, StepKnown, RequestKnown
<1>4. /\ job' = job /\ before' = before /\ AMem = before[c]
      /\ datas'[c] \in Seq(Vals) /\ pc'[c] \in {"work", "reply"}
  BY <1>2 DEF Called, AMem
<1>5. ParseResult(r) = 1 /\ ForMe(r) /\ r.fc # "unknown"
  BY <1>1, <1>2 DEF Served, ParseResult
<1>6. Due(f)
  <2>1. rsp[c].id < f.id /\ rsp[c].id \in Nat /\ f.id \in 1 .. MaxReqs
    BY <1>1, <1>2, <1>3, Numbers, RequestKnown DEF Ordered
  <2>2. f.r.intact
    BY <1>3, <1>5, IntactIfServed
  <2>3. QED
    BY <1>3, <2>1, <2>2 DEF Due
<1>7. Array(mem')
  <2>1. CASE ReadCb(c)
    BY <1>1, <2>1 DEF ReadCb
  <2>2. CASE WriteCb(c)
    <3>1. CASE UNCHANGED mem
      BY <1>1, <3>1
    <3>2. CASE Written(c)
      <4>1. PICK v \in ValuesToWrite(c) : mem' = [mem EXCEPT ![TableOf(c)][Step(c).addr] = v]
        BY <3>2 DEF Written
      <4>2. Array([mem EXCEPT ![TableOf(c)][Step(c).addr] = v])
        BY <1>1, ArrayKept
      <4>3. QED
        BY <4>1, <4>2
    <3>3. QED
      BY <1>1, <2>2, <3>1, <3>2, WriteCbDoes
  <2>3. QED
    BY <2>1, <2>2
<1>8. Halfway(before[c], mem, r, n, datas[c])
  BY <1>1, <1>2 DEF Progress
<1>9. CASE /\ pc'[c] = "reply" /\ done'[c] = done[c]
           /\ rsp'[c].kind = "exc" /\ rsp'[c].id = f.id /\ rsp'[c].data = <<>>
  <2> DEFINE k == WritesMade(r, n)
  <2>1. mem' = mem
    <3>1. done'[c] # done[c] + 1
      BY <1>3, <1>9
    <3>2. QED
      BY <1>1, <3>1, ReadCbDoes, WriteCbDoes
  <2>2. AMem' = mem
    BY <1>9, <2>1 DEF AMem
  <2>3. k \in 0 .. Len(r.wv)
    <3>1. r.wv \in Seq(Vals)
      BY <1>3 DEF RequestType
    <3>2. Len(r.wv) \in Nat
      BY <3>1, LenProperties
    <3>3. r.fc # "mask_write" => Len(r.wv) = r.wn
      BY <1>3 DEF WholeRequests
    <3>4. QED
      BY <1>3, <3>2, <3>3 DEF WritesMade
  <2>4. AMem' = After(AMem, r, k) /\ \A i \in 1 .. k : At(r.wa, i - 1) \in Bank[Space(r.fc)]
    BY <1>4, <1>8, <2>2 DEF Halfway
  <2>5. Progress(c)'
    BY <1>9 DEF Progress
  <2> HIDE DEF k, f
  <2>6. Server!Next
    BY <1>6, <1>9, <2>3, <2>4, Refuses DEF f
  <2>7. QED
    BY <1>7, <2>5, <2>6
<1>10. ASSUME done'[c] = n + 1, r.fc # "mask_write"
       PROVE  Halfway(before[c], mem', r, n + 1, datas'[c])
  <2>1. CASE ReadCb(c)
    <3>1. mem' = mem
      BY <1>1, <2>1, ReadCbDoes
    <3>2. QED
      BY <1>10, <2>1, <3>1, ReadGoesOn
  <2>2. CASE WriteCb(c)
    BY <1>10, <2>2, WriteGoesOn
  <2>3. QED
    BY <2>1, <2>2
<1>11. CASE /\ pc'[c] = "work" /\ done'[c] = n + 1 /\ done'[c] < Len(Plan(r))
            /\ rsp'[c] = rsp[c]
  <2>1. Halfway(before[c], mem', r, n + 1, datas'[c])
    <3>1. CASE r.fc = "mask_write"
      <4>1. n # 1
        <5> DEFINE p == Len(Plan(r))
        <5>1. p = 2
          BY <1>3, <3>1, PlanLen
        <5>2. n + 1 < p
          BY <1>11
        <5> HIDE DEF p
        <5>3. QED
          BY <5>1, <5>2
      <4>2. ~WriteCb(c)
        BY <1>11, <3>1, <4>1, MaskMade
      <4>3. mem' = mem
        BY <1>1, <4>2, ReadCbDoes
      <4>4. QED
        BY <1>11, <4>2, <4>3, ReadGoesOn
    <3>2. QED
      BY <1>10, <1>11, <3>1
  <2>2. Progress(c)'
    BY <1>4, <1>11, <2>1 DEF Progress
  <2>3. AMem' = AMem /\ AAnswer' = AAnswer
    BY <1>2, <1>4, <1>11 DEF AMem, AAnswer
  <2>4. QED
    BY <1>7, <2>2, <2>3
<1>12. CASE /\ pc'[c] = "reply" /\ done'[c] = n + 1 /\ done'[c] = Len(Plan(r))
            /\ rsp'[c] = Ok(f, datas'[c])
  <2>1. Progress(c)' /\ AMem' = mem'
    BY <1>12 DEF Progress, AMem
  <2>2. /\ rsp'[c].id = f.id /\ rsp'[c].kind = "ok"
        /\ rsp'[c].data = Carried(r, datas'[c])
    BY <1>12 DEF Ok
  <2>3. CASE r.fc = "mask_write"
    <3>1. WriteCb(c)
      <4>1. n = 1
        <5> DEFINE p == Len(Plan(r))
        <5>1. p = 2 /\ n + 1 = p
          BY <1>3, <1>12, <2>3, PlanLen
        <5> HIDE DEF p
        <5>2. QED
          BY <1>3, <5>1
      <4>2. Step(c).kind = "mask"
        BY <1>1, <1>2, <2>3, <4>1, StepKnown
      <4>3. QED
        BY <4>2 DEF ReadCb
    <3>2. r.wa \in Bank["hold"] /\ mem' = [AMem EXCEPT !["hold"][r.wa] = Masked(@, r)]
      BY <1>4, <1>12, <2>3, <3>1, MaskMade
    <3>3. rsp'[c].data = <<>>
      BY <2>2, <2>3 DEF Carried, IsRead, ReadFcs
    <3> HIDE DEF f
    <3>4. Server!Next
      BY <1>6, <2>1, <2>2, <2>3, <3>2, <3>3, Masks DEF f
    <3>5. QED
      BY <1>7, <2>1, <3>4
  <2>4. CASE r.fc # "mask_write"
    <3> DEFINE p == Len(Plan(r))
    <3>1. p = r.wn + r.rn /\ n + 1 = p
      BY <1>3, <1>12, <2>4, PlanLen
    <3> HIDE DEF p
    <3>2. Halfway(before[c], mem', r, n + 1, datas'[c])
      BY <1>10, <1>12, <2>4
    <3>3. WritesMade(r, n + 1) = r.wn /\ ReadsMade(r, n + 1) = r.rn
      BY <1>3, <2>4, <3>1 DEF WritesMade, ReadsMade
    <3>4. Len(r.wv) = r.wn
      BY <1>3, <2>4 DEF WholeRequests
    <3>5. /\ mem' = After(before[c], r, Len(r.wv))
          /\ \A i \in 1 .. Len(r.wv) : At(r.wa, i - 1) \in Bank[Space(r.fc)]
          /\ \A i \in 1 .. r.rn :
               /\ At(r.ra, i - 1) \in Bank[Space(r.fc)]
               /\ datas'[c][i] = mem'[Space(r.fc)][At(r.ra, i - 1)]
      BY <2>4, <3>2, <3>3, <3>4 DEF Halfway, ReadFrom
    <3>6. r.rn = Len(datas'[c]) \/ ~IsRead(r)
      <4>1. IsRead(r) => /\ done'[c] = done[c] + 1 /\ done'[c] = Len(Plan(job[c].r))
                         /\ Len(datas'[c]) = IF Step(c).kind = "read" THEN Len(datas[c]) + 1
                                             ELSE Len(datas[c])
        <5>1. done'[c] # done[c]
          BY <1>3, <1>12
        <5>2. QED
          BY <1>2, <1>12, <5>1 DEF Called
      <4>2. QED
        BY <1>1, <1>2, <4>1, AllRead DEF SoleInv
    <3>7. rsp'[c].data = [i \in 1 .. r.rn |-> mem'[Space(r.fc)][At(r.ra, i - 1)]]
      <4> DEFINE M == mem'
                 d == datas'[c]
      <4>1. CASE r.rn = Len(d)
        <5>1. d \in Seq(Vals) /\ \A i \in 1 .. r.rn : d[i] = M[Space(r.fc)][At(r.ra, i - 1)]
          BY <1>4, <3>5
        <5> HIDE DEF M, d
        <5>2. Carried(r, d) = [i \in 1 .. r.rn |-> M[Space(r.fc)][At(r.ra, i - 1)]]
          BY <1>3, <1>5, <2>4, <4>1, <5>1, DataAnswered
        <5>3. QED
          BY <2>2, <5>2 DEF M, d
      <4>2. CASE ~IsRead(r)
        <5>1. r.rn = 0 /\ <<>> \in Seq(Vals) /\ Len(<<>>) = 0
          <6>1. r.fc \in Fcs
            BY <1>3, RequestKnown
          <6>2. r.fc \in WriteFcs
            BY <1>5, <2>4, <4>2, <6>1 DEF Fcs, BothFcs, IsRead
          <6>3. r.rn = 0
            BY <1>3, <6>2 DEF WellFormed
          <6>4. QED
            BY <6>3, EmptySeq
        <5>2. \A i \in 1 .. r.rn : <<>>[i] = M[Space(r.fc)][At(r.ra, i - 1)]
          BY <5>1
        <5> HIDE DEF M
        <5>3. Carried(r, <<>>) = [i \in 1 .. r.rn |-> M[Space(r.fc)][At(r.ra, i - 1)]]
          BY <1>3, <1>5, <2>4, <5>1, <5>2, DataAnswered
        <5>4. rsp'[c].data = Carried(r, <<>>)
          BY <2>2, <4>2 DEF Carried
        <5>5. QED
          BY <5>3, <5>4 DEF M
      <4>3. QED
        BY <3>6, <4>1, <4>2
    <3> HIDE DEF f
    <3>8. Server!Next
      BY <1>4, <1>5, <1>6, <2>1, <2>2, <2>4, <3>5, <3>7, Answers DEF f
    <3>9. QED
      BY <1>7, <2>1, <3>8
  <2>5. QED
    BY <2>3, <2>4
<1>13. QED
  BY <1>2, <1>9, <1>11, <1>12 DEF Called

LEMMA SoleInit == ASSUME SoleClient PROVE Init => SoleInv /\ Server!Init
<1> SUFFICES ASSUME Init
             PROVE  SoleInv /\ Server!Init
  OBVIOUS
<1>1. Sole \in Conns
  BY Alone
<1>2. /\ mem = [s \in Spaces |-> [a \in Bank[s] |-> {}]]
      /\ pc[Sole] = "closed" /\ rsp[Sole] = NoReply
  BY <1>1 DEF Init
<1>3. Array(mem)
  BY <1>2 DEF Array
<1>4. SlaveInv /\ Progress(Sole)
  BY <1>2, SlaveInit DEF Progress
<1>5. Server!Init
  BY <1>2, SameOperators DEF Server!Init, NoReply
<1>6. QED
  BY <1>3, <1>4, <1>5 DEF SoleInv

LEMMA SoleNext ==
    ASSUME SoleClient, WholeRequests, SoleInv, [Next]_vars
    PROVE  SoleInv' /\ (Server!Next \/ UNCHANGED <<AMem, AAnswer>>)
<1>1. Sole \in Conns /\ \A c \in Conns : c = Sole
  BY Alone
<1>2. SlaveInv' /\ TypeOK
  BY SlaveNext DEF SoleInv, SlaveInv, Typed
\* Steps that leave the request alone, and the registers.
<1>3. ASSUME UNCHANGED <<job, done, datas, rsp, mem, before>>,
             pc'[Sole] = "work" <=> pc[Sole] = "work"
      PROVE  SoleInv' /\ UNCHANGED <<AMem, AAnswer>>
  <2>1. Progress(Sole)' /\ Array(mem')
    BY <1>3 DEF SoleInv, Progress
  <2>2. UNCHANGED <<AMem, AAnswer>>
    BY <1>3 DEF AMem, AAnswer
  <2>3. QED
    BY <1>2, <2>1, <2>2 DEF SoleInv
<1>4. CASE UNCHANGED vars
  BY <1>3, <1>4 DEF vars, work
<1>5. ASSUME NEW k, Recv(Sole, k)
      PROVE  SoleInv' /\ (Server!Next \/ UNCHANGED <<AMem, AAnswer>>)
  BY <1>1, <1>2, <1>5, RecvServes DEF SoleInv
<1>6. CASE ReadCb(Sole) \/ WriteCb(Sole)
  BY <1>1, <1>2, <1>6, CallbackServes DEF SoleInv
<1>7. CASE \/ RecvErr(Sole) \/ ReplyOk(Sole) \/ ReplyErr(Sole) \/ Open(Sole) \/ Leave(Sole)
           \/ \E r \in Requests : Send(Sole, r)
  <2>1. UNCHANGED <<job, done, datas, rsp, mem, before>>
    BY <1>7 DEF RecvErr, ReplyOk, ReplyErr, Open, Leave, Send, work
  <2>2. pc'[Sole] = "work" <=> pc[Sole] = "work"
    BY <1>1, <1>2, <1>7 DEF RecvErr, ReplyOk, ReplyErr, Open, Leave, Send, Turn, TypeOK
  <2>3. QED
    BY <1>3, <2>1, <2>2
<1>8. Next => Thread(Sole) \/ Client(Sole)
  BY <1>1 DEF Next, SoleClient
<1>9. QED
  BY <1>4, <1>5, <1>6, <1>7, <1>8 DEF Thread, Client

\* For a client that is alone, however many callbacks a request takes and
\* wherever one of them fails, the server does what RegisterServer says: it
\* carries the request out in one step, or refuses it with a prefix of its
\* writes made (the loops of modbus_slave.c, and mask write's two callbacks).
THEOREM ServerImplements ==
    ASSUME SoleClient, WholeRequests
    PROVE  Spec => ServerSpec
<1>1. Init => SoleInv /\ Server!Init
  BY SoleInit
<1>2. SoleInv /\ [Next]_vars => SoleInv'
  BY SoleNext
<1>3. SoleInv /\ [Next]_vars => [Server!Next]_(Server!avars)
  BY SoleNext DEF Server!avars, AMem, AAnswer
<1>4. QED
  BY <1>1, <1>2, <1>3, PTL DEF Spec, ServerSpec, Server!Spec

===============================================================================
