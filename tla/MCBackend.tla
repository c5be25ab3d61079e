------------------------------ MODULE MCBackend ------------------------------
(* Values for ModbusBackend that a configuration file cannot write.          *)
EXTENDS ModbusBackend

NoClockSteps == {}
ClockSetBack == {-3}   \* by more than the timeouts leave

=============================================================================
