----------------------------- MODULE Immediates -----------------------------
(***************************************************************************)
(* How setup_shadow_page_trampoline splits one half of the address of      *)
(* asm_syscall_hook into the immediates of a LUI and an ADDI.  ADDI        *)
(* extends the sign of its immediate, and LUI, on RV64, that of its        *)
(* result: the split has to make up for the first.                         *)
(*                                                                         *)
(* HALF is 2^32 and IMM is 4096 in the code; TLC takes smaller powers.     *)
(***************************************************************************)
EXTENDS Integers

CONSTANTS
  HALF,   \* number of values of half an address, and of a uint32_t
  IMM     \* number of values of the immediate of an ADDI

ASSUME WidthAssumption ==
  /\ HALF \in Nat /\ IMM \in Nat
  /\ IMM > 0 /\ IMM % 2 = 0
  /\ \E m \in 1 .. HALF : HALF = m * IMM

XLEN == HALF * HALF   \* number of values of a register

\* the number that x stands for in two's complement, with size values in all
Signed(x, size) == IF x < size \div 2 THEN x ELSE x - size

\* Bug: an addi_imm_field that ADDI takes for a negative number is not made up for.
Bug_lui_imm_field(half) == half - (half % IMM)

\* half & 0xfffff000, the next one if the rest is too large for ADDI; a uint32_t
lui_imm_field(half) ==
  LET lui_imm == half - (half % IMM)
  IN  IF half % IMM > IMM \div 2 - 1 THEN (lui_imm + IMM) % HALF ELSE lui_imm

\* the rest, modulo 2^32
addi_imm_field(half) ==
  LET rest == half % IMM
  IN  IF rest > IMM \div 2 - 1 THEN (0 - (IMM - rest)) % HALF ELSE rest

\* the instructions, as the hart understands their immediates
Lui(field) == Signed(field, HALF) % XLEN
Addi(x, field) == (x + Signed(field % IMM, IMM)) % XLEN

\* what LUI and ADDI leave in a register, on the way to one half of the address
Register(half) == Addi(Lui(lui_imm_field(half)), addi_imm_field(half))

\* SLLI shifts one half up, AND keeps the low bits of the other, OR joins them
Joined(dst) ==
  ((Register(dst \div HALF) * HALF) % XLEN) + (Register(dst % HALF) % HALF)
=============================================================================
