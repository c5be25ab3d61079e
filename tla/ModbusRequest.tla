---------------------------- MODULE ModbusRequest ----------------------------
(***************************************************************************)
(* The requests a modbus server understands, and the callbacks each asks   *)
(* for (modbus_slave.c).  A register value is the set of its bits that are *)
(* 1, so that a mask is a set too; a coil is full or empty.                *)
(***************************************************************************)
EXTENDS Integers, Sequences

CONSTANTS
    Bits,        \* the 16 bits of a register
    AddrMod,     \* 2^16 in the code: the values of a u16 address
    Bank         \* [Spaces -> addresses the application's callbacks know]

Vals   == SUBSET Bits
Addrs  == 0 .. (AddrMod - 1)
Spaces == {"coil", "disc", "input", "hold"}

ASSUME BankAssumption == AddrMod \in Nat \ {0} /\ Bank \in [Spaces -> SUBSET Addrs]

-----------------------------------------------------------------------------
(* Which table of the application a function code reads and writes.        *)

ReadFcs  == {"read_coils", "read_discs", "read_holds", "read_inputs"}
WriteFcs == {"write_coil", "write_reg", "write_coils", "write_regs"}
BothFcs  == {"mask_write", "write_and_read"}
Fcs      == ReadFcs \cup WriteFcs \cup BothFcs \cup {"unknown"}

Space(fc) == CASE fc \in {"read_coils", "write_coil", "write_coils"} -> "coil"
               [] fc = "read_discs"  -> "disc"
               [] fc = "read_inputs" -> "input"
               [] OTHER              -> "hold"

\* A request: wn registers from wa on are written with wv, rn from ra on are
\* read; a mask write has its masks; intact is false if the frame was damaged
\* on the way (the CRC of an RTU frame tells) or is of another protocol (the
\* pid of a TCP frame does); the fields are what the slave sees.
RequestType == [fc : Fcs, sa : Nat, intact : BOOLEAN,
                wa : Addrs, wn : Nat, wv : Seq(Vals),
                ra : Addrs, rn : Nat, mand : Vals, mor : Vals]

\* Each function has the fields of its pdu; the others are empty.  Only where
\* the pdu has a number of registers can the data be shorter than announced.
WellFormed(r) ==
    /\ r.fc \in ReadFcs \cup {"unknown"} => r.wn = 0
    /\ r.fc \in WriteFcs \cup {"mask_write"} => r.rn = 0
    /\ r.fc \in {"write_coil", "write_reg", "mask_write"} => r.wn = 1
    /\ r.fc \in {"write_coil", "write_reg"} => Len(r.wv) = 1

\* addr + i is passed to a u16 parameter.
At(addr, i) == (addr + i) % AddrMod

\* val = ((val & val_and) | (val_or & ~val_and))
Masked(val, r) == (val \cap r.mand) \cup (r.mor \ r.mand)

=============================================================================
