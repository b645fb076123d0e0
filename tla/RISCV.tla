------------------------------- MODULE RISCV --------------------------------
(***************************************************************************)
(* The loads and stores of a RISC-V hart: what they are called, how they   *)
(* are encoded, what they do to the bytes.  Values are little-endian       *)
(* sequences of bytes.                                                     *)
(*                                                                         *)
(* The table and the encodings follow the RISC-V Unprivileged ISA          *)
(* Specification, not the code of the library.                             *)
(***************************************************************************)
EXTENDS Integers, Sequences

Registers == 0 .. 31
Bytes == 0 .. 255
Words64 == [1 .. 8 -> Bytes]

Row(mnemonic, form, opcode, funct3, file, width, fill) ==
  [mnemonic |-> mnemonic, form |-> form, opcode |-> opcode, funct3 |-> funct3,
   file |-> file, width |-> width, fill |-> fill]

\* "I", "CL" and "CI" load, "S", "CS" and "CSS" store, "AMO" does both; fill is
\* what a load puts above the bytes it reads
LoadsAndStores ==
  { Row("lb", "I", 3, 0, "x", 1, "sign"),     Row("lh", "I", 3, 1, "x", 2, "sign"),
    Row("lw", "I", 3, 2, "x", 4, "sign"),     Row("ld", "I", 3, 3, "x", 8, "zeros"),
    Row("lbu", "I", 3, 4, "x", 1, "zeros"),   Row("lhu", "I", 3, 5, "x", 2, "zeros"),
    Row("lwu", "I", 3, 6, "x", 4, "zeros"),
    Row("flw", "I", 7, 2, "f", 4, "ones"),    Row("fld", "I", 7, 3, "f", 8, "zeros"),
    Row("sb", "S", 35, 0, "x", 1, "none"),    Row("sh", "S", 35, 1, "x", 2, "none"),
    Row("sw", "S", 35, 2, "x", 4, "none"),    Row("sd", "S", 35, 3, "x", 8, "none"),
    Row("fsw", "S", 39, 2, "f", 4, "none"),   Row("fsd", "S", 39, 3, "f", 8, "none"),
    Row("c.fld", "CL", 0, 1, "f", 8, "zeros"), Row("c.lw", "CL", 0, 2, "x", 4, "sign"),
    Row("c.ld", "CL", 0, 3, "x", 8, "zeros"), Row("c.fsd", "CS", 0, 5, "f", 8, "none"),
    Row("c.sw", "CS", 0, 6, "x", 4, "none"),  Row("c.sd", "CS", 0, 7, "x", 8, "none"),
    Row("c.fldsp", "CI", 2, 1, "f", 8, "zeros"), Row("c.lwsp", "CI", 2, 2, "x", 4, "sign"),
    Row("c.ldsp", "CI", 2, 3, "x", 8, "zeros"), Row("c.fsdsp", "CSS", 2, 5, "f", 8, "none"),
    Row("c.swsp", "CSS", 2, 6, "x", 4, "none"), Row("c.sdsp", "CSS", 2, 7, "x", 8, "none"),
    Row("amoswap.w", "AMO", 47, 2, "x", 4, "sign") }

Loads(i) == i.row.form \in {"I", "CL", "CI", "AMO"}
Stores(i) == i.row.form \in {"S", "CS", "CSS", "AMO"}
Length(i) == IF i.row.form \in {"CL", "CS", "CI", "CSS"} THEN 2 ELSE 4

\* The halves of a 32-bit instruction whose base register is gp: bits 7 to 11 of
\* the low one are a register or part of the immediate of a store.  All bits of an
\* immediate are imm.  AMOs take the value to store from register 7.
Low(opcode, funct3, bits) == opcode + 128 * bits + 4096 * funct3 + 32768
LoadHigh(imm) == 1 + 16 * 4095 * imm
StoreHigh(reg, imm) == 1 + 16 * reg + 512 * 127 * imm
AmoHigh == 1 + 16 * 7 + 2048

\* compressed instructions: base register s1, and sp
CompressedLow(opcode, funct3, reg, imm) ==
  opcode + 4 * (reg - 8) + 32 * 3 * imm + 128 + 1024 * 7 * imm + 8192 * funct3
SpLoadLow(opcode, funct3, reg, imm) ==
  opcode + 4 * 31 * imm + 128 * reg + 4096 * imm + 8192 * funct3
SpStoreLow(opcode, funct3, reg, imm) ==
  opcode + 4 * reg + 128 * 63 * imm + 8192 * funct3

\* the two 16-bit halves of instruction i, which accesses register i.reg
Encode(i) ==
  LET form == i.row.form
      op == i.row.opcode
      f3 == i.row.funct3
  IN
  CASE form = "I"            -> <<Low(op, f3, i.reg), LoadHigh(i.imm)>>
    [] form = "AMO"          -> <<Low(op, f3, i.reg), AmoHigh>>
    [] form = "S"            -> <<Low(op, f3, 31 * i.imm), StoreHigh(i.reg, i.imm)>>
    [] form \in {"CL", "CS"} -> <<CompressedLow(op, f3, i.reg, i.imm), 0>>
    [] form = "CI"           -> <<SpLoadLow(op, f3, i.reg, i.imm), 0>>
    [] form = "CSS"          -> <<SpStoreLow(op, f3, i.reg, i.imm), 0>>

\* the 64-bit value with these low bytes
Extend(bytes, fill) ==
  LET above == IF fill = "ones" \/ (fill = "sign" /\ bytes[Len(bytes)] >= 128)
               THEN 255 ELSE 0
  IN  [k \in 1 .. 8 |-> IF k <= Len(bytes) THEN bytes[k] ELSE above]

Read(m, addr, width) == [k \in 1 .. width |-> m[addr + k - 1]]
Write(m, addr, bytes) ==
  [a \in DOMAIN m |-> IF a \in addr .. addr + Len(bytes) - 1
                      THEN bytes[a - addr + 1] ELSE m[a]]

Word(n) == [k \in 1 .. 8 |-> IF k = 1 THEN n ELSE 0]
Advance(word, n) == [word EXCEPT ![1] = (@ + n) % 256]

\* nothing has been fetched
NoInstr == [row |-> "none"]
=============================================================================
