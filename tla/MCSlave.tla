------------------------------- MODULE MCSlave -------------------------------
(* Requests for the model checking of ModbusSlave.                         *)
EXTENDS ModbusSlave, ModbusSamples

Full  == Bits
NoReq == [fc |-> "unknown", sa |-> Saddr, intact |-> TRUE, wa |-> 0, wn |-> 0,
          wv |-> <<>>, ra |-> 0, rn |-> 0, mand |-> {}, mor |-> {}]

Read(fc, a, n)   == [NoReq EXCEPT !.fc = fc, !.ra = a, !.rn = n]
Write(fc, a, v)  == [NoReq EXCEPT !.fc = fc, !.wa = a, !.wn = Len(v), !.wv = v]
Mask(a, and, or) == [NoReq EXCEPT !.fc = "mask_write", !.wa = a, !.wn = 1,
                                  !.mand = and, !.mor = or]
WriteRead(a, v, b, n) == [Write("write_and_read", a, v) EXCEPT !.ra = b, !.rn = n]
To(sa, r)   == [r EXCEPT !.sa = sa]
\* Announces a write more than the frame has data for.
Short(r)    == [r EXCEPT !.wv = SubSeq(@, 1, Len(@) - 1)]
Damaged(r)  == [r EXCEPT !.intact = FALSE]

\* Every function: inside the bank, across its end, across the wrap of the
\* addresses; reads of more than one byte of bits, and of as many registers as
\* a dlen below 8 can count (125 for the u8).
AllRequests ==
    {Read("read_coils", 0, 9), Read("read_discs", 1, 8), Read("read_inputs", 7, 2),
     Read("read_holds", 6, 3), Read("read_holds", 8, 2),
     Write("write_coil", 8, <<Full>>), Write("write_coil", 0, <<{0}>>),
     Write("write_reg", 8, <<{0}>>), Write("write_coils", 7, <<Full, Full>>),
     Write("write_regs", 7, <<{1}, {0, 1}>>), Write("write_regs", 8, <<{1}, {0}>>),
     Mask(7, {0}, {1}), Mask(15, {0}, {1}),
     WriteRead(7, <<{1}>>, 7, 2), WriteRead(8, <<{0}>>, 15, 2), NoReq,
     Damaged(Write("write_reg", 0, <<{1}>>))}
LongBank == [s \in Spaces |-> 0 .. 8]

\* Two clients set a bit each of the same register of the server sample.
MaskRequests == {Mask(1, {1}, {0}), Mask(1, {0}, {1})}
ServerBank   == HoldBank(1, 2)

\* A serial line with two slaves on it, and noise.  This one has the tables of
\* the TCP slave sample, shrunk: input register 1, holding registers 2 and 3.
LineRequests ==
    {Write("write_regs", 2, <<{1}, {0}>>), Write("write_regs", 1, <<{1}, {0}>>),
     Read("read_inputs", 1, 1), Read("read_coils", 1, 1), Mask(3, {}, {1}),
     Short(Write("write_regs", 2, <<{1}, {0}>>)),
     To(Saddr + 1, Write("write_regs", 2, <<{1}, {1}>>)), NoReq,
     Damaged(Write("write_regs", 2, <<{0}, {1}>>)), Damaged(NoReq)}
LineBank == TcpSlaveBank(1, 1, 3)

ThisSlave == 1
SomeFc == {"unknown", "write_regs"}
NoVals == {}
InputVals == {{0}}
IllegalVals == {{0, 1}}

==============================================================================
