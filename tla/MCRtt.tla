-------------------------------- MODULE MCRtt --------------------------------
(* Instances for ModbusPortRtt.                                              *)
EXTENDS ModbusPortRtt

\* Two devices with drivers of either level, uart1 open for two instances at a
\* time (Shared) and uart2 for one, and a device without a driver.
TwoBuses ==
    [i \in Insts |->
       CASE i \in {"a", "d"} -> [dev |-> "uart1", pin |-> 3, lvl |-> 1]
         [] i = "b"          -> [dev |-> "uart2", pin |-> 6, lvl |-> 0]
         [] OTHER            -> [dev |-> "uart3", pin |-> -1, lvl |-> 0]]
===============================================================================
