---------------------------- MODULE ModbusSamples ----------------------------
(***************************************************************************)
(* The register tables behind the callbacks of the sample slaves, and of   *)
(* the weak callbacks that an application replaces.  An address below the  *)
(* table or past its end is answered with -2.                              *)
(***************************************************************************)
EXTENDS Integers

Upto(first, n) == first .. (first + n - 1)
NoTable        == [s \in {"coil", "disc", "input", "hold"} |-> {}]

\* mb_sample_tcp_slave.c: one array; the first registers of it are input
\* registers, the others holding registers.  The table of callbacks that
\* mb_set_cb_table is given has none for bits.
TcpSlaveBank(begin, inputs, total) ==
    [NoTable EXCEPT !["input"] = Upto(begin, inputs),
                    !["hold"]  = Upto(begin + inputs, total - inputs)]
TcpSlaveTable == {"read_input", "read_hold", "write_hold"}

\* mb_sample_rtu_slave.c and mb_sample_tcp_srv_slave.c: one array of holding
\* registers.
HoldBank(begin, total) == [NoTable EXCEPT !["hold"] = Upto(begin, total)]

\* The default table has all six callbacks.
PortTable == {"read_disc", "read_coil", "write_coil",
              "read_input", "read_hold", "write_hold"}

===============================================================================
