---------------------------- MODULE MCRegisters ----------------------------
(* A small register file for the runs of Registers: four registers, of     *)
(* which two stand for quantities and two do not, nibbles for bytes.       *)
EXTENDS Registers

TwoFields == <<"uab", "ia">>
RegOf == [uab |-> 1, ia |-> 2]
\* 0.45 and 0.3: uab is no whole number of tenths.
InitOf == [uab |-> 9, ia |-> 6]
\* 0.25, and -0.15 and 2.0 (of which ten times is more than a register of 8 values holds).
SetValues == {5, -3, 40}
=============================================================================
