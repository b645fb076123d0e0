--------------------------- MODULE MCMachineCode ----------------------------
(***************************************************************************)
(* The machine code with halves of 7 bits and immediates of 3, for TLC:    *)
(* every destination there is, registers that can be told apart.           *)
(***************************************************************************)
EXTENDS MachineCode, Bitwise

OrBits(x, y) == x | y
AndBits(x, y) == x & y

AllDestinations == {d \in Words : d % 2 = 0}
SomeRegisters ==
  { [zero |-> 0, ra |-> 70, sp |-> 2048, t0 |-> 3, t1 |-> 5, t2 |-> 6, t3 |-> 9,
     a0 |-> 20, a1 |-> 21, a2 |-> 22, a3 |-> 23, a4 |-> 24, a5 |-> 25, a6 |-> 26, a7 |-> 27] }
=============================================================================
