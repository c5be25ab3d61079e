-------------------------------- MODULE MCWire --------------------------------
(* Messages for ModbusWire: every function of modbus_pdu.h, both ways.       *)
EXTENDS ModbusWire

Message(type, fc, words, n) ==
    [type |-> type, fc |-> fc, words |-> words, bits |-> <<>>,
     data |-> [i \in 1 .. n |-> (37 * i + fc) % 256]]

\* A reply to a read of n bits: every third of them is 1, the last one too.
BitsReply(fc, n) ==
    LET bits == [i \in 1 .. n |-> IF i % 3 = 0 \/ i = n THEN 1 ELSE 0]
    IN [type |-> "rsp", fc |-> fc, words |-> <<>>, bits |-> bits, data |-> Packed(bits)]

\* Every function, both ways, with the smallest, an odd and the largest number
\* of bytes that modbus_pdu.h allows it to carry.
LegalMessages ==
    {Message("req", fc, <<4000, 29>>, 0) : fc \in {1, 2, 3, 4}}
    \cup {Message(type, fc, <<65535, 65280>>, 0) : type \in {"req", "rsp"}, fc \in {5, 6}}
    \cup {BitsReply(1, 8), BitsReply(2, 19)}
    \cup {Message("rsp", fc, <<>>, n) : fc \in {3, 4, 23}, n \in {2, 250}}
    \cup {Message("req", 15, <<256, 9>>, n) : n \in {1, 2, 246}}
    \cup {Message("req", 16, <<1, 1>>, n) : n \in {2, 246}}
    \cup {Message("rsp", fc, <<1, 123>>, 0) : fc \in {15, 16}}
    \cup {Message(type, 22, <<7, 65520, 15>>, 0) : type \in {"req", "rsp"}}
    \cup {Message("req", 23, <<1, 2, 3, 4>>, n) : n \in {2, 242}}
    \cup {Message("rsp", fc, <<>>, 1) : fc \in {131, 255}}

BothFrames == {"RTU", "TCP"}
===============================================================================
