-------------------------- MODULE EmulationProofs ---------------------------
(***************************************************************************)
(* The emulation of loads and stores is transparent for any number of      *)
(* threads, any program of loads and stores and any memory: Emulation      *)
(* implements LoadStore.                                                   *)
(*                                                                         *)
(* First the data: the handler recovers from an encoding the fields that   *)
(* were encoded, and does with them what the table of RISCV says.  Then    *)
(* the control: what is known of a fault while it is being handled         *)
(* (Pending), and the step of LoadStore that each step corresponds to.     *)
(***************************************************************************)
EXTENDS Emulation, TLAPS

-----------------------------------------------------------------------------
(***************************************************************************)
(* Decoding.                                                               *)
(***************************************************************************)

\* The shifts that the handler uses.
LEMMA Shifts ==
  /\ Shift(0) = 1 /\ Shift(1) = 2 /\ Shift(2) = 4 /\ Shift(3) = 8
  /\ Shift(4) = 16 /\ Shift(5) = 32 /\ Shift(7) = 128
  /\ Shift(12) = 4096 /\ Shift(13) = 8192
  BY DEF Shift

\* The fields that the handler reads, as arithmetic on the two halves.
LEMMA Fields ==
  ASSUME NEW lo \in Nat, NEW hi \in Nat
  PROVE  /\ get_field(<<lo, hi>>, 0, 2) = lo % 4
         /\ get_field(<<lo, hi>>, 0, 7) = lo % 128
         /\ get_field(<<lo, hi>>, 12, 3) = (lo \div 4096) % 8
         /\ get_field(<<lo, hi>>, 7, 5) = (lo \div 128) % 32
         /\ get_field(<<lo, hi>>, 20, 5) = (hi \div 16) % 32
         /\ get_field(<<lo, hi>>, 13, 3) = (lo \div 8192) % 8
         /\ get_field(<<lo, hi>>, 2, 3) = (lo \div 4) % 8
         /\ get_field(<<lo, hi>>, 2, 5) = (lo \div 4) % 32
  <1>1. <<lo, hi>>[1] = lo /\ <<lo, hi>>[2] = hi
    BY Zenon
  <1>2. /\ 1 + 0 \div 16 = 1 /\ 0 % 16 = 0
        /\ 1 + 2 \div 16 = 1 /\ 2 % 16 = 2
        /\ 1 + 7 \div 16 = 1 /\ 7 % 16 = 7
        /\ 1 + 12 \div 16 = 1 /\ 12 % 16 = 12
        /\ 1 + 13 \div 16 = 1 /\ 13 % 16 = 13
        /\ 1 + 20 \div 16 = 2 /\ 20 % 16 = 4
    OBVIOUS
  <1>3. lo \div 1 = lo
    OBVIOUS
  <1> QED
    BY <1>1, <1>2, <1>3, Shifts DEF get_field

\* The values of the fields of an instruction, and the widths of accesses.
Opcodes32 == {o \in 0 .. 127 : o % 4 = 3}
Funct3 == 0 .. 7
Imm == 0 .. 1
Widths == {1, 2, 4, 8}
CompressedRegisters == 8 .. 15

\* The opcode, funct3 and rd of a 32-bit instruction are read as encoded,
LEMMA Fields32 ==
  ASSUME NEW o \in Opcodes32, NEW f \in Funct3, NEW r \in Registers, NEW hi \in Nat
  PROVE  /\ Low(o, f, r) \in Nat
         /\ get_field(<<Low(o, f, r), hi>>, 0, 2) = 3
         /\ get_field(<<Low(o, f, r), hi>>, 0, 7) = o
         /\ get_field(<<Low(o, f, r), hi>>, 12, 3) = f
         /\ get_field(<<Low(o, f, r), hi>>, 7, 5) = r
  <1> DEFINE lo == Low(o, f, r)
  <1>1. lo \in Nat
    BY DEF Low, Opcodes32, Funct3, Registers
  <1>2. lo % 4 = 3 /\ lo % 128 = o /\ (lo \div 4096) % 8 = f /\ (lo \div 128) % 32 = r
    BY DEF Low, Opcodes32, Funct3, Registers
  <1> HIDE DEF lo
  <1>3. /\ get_field(<<lo, hi>>, 0, 2) = 3 /\ get_field(<<lo, hi>>, 0, 7) = o
        /\ get_field(<<lo, hi>>, 12, 3) = f /\ get_field(<<lo, hi>>, 7, 5) = r
    BY <1>1, <1>2, Fields
  <1> QED
    BY <1>1, <1>3, Zenon DEF lo

\* and so is the rs2 of a store.
LEMMA FieldsStore32 ==
  ASSUME NEW lo \in Nat, NEW r \in Registers, NEW m \in Imm
  PROVE  StoreHigh(r, m) \in Nat /\ get_field(<<lo, StoreHigh(r, m)>>, 20, 5) = r
  <1> DEFINE hi == StoreHigh(r, m)
  <1>1. hi \in Nat /\ (hi \div 16) % 32 = r
    BY DEF StoreHigh, Funct3, Imm, Registers
  <1> HIDE DEF hi
  <1>2. get_field(<<lo, hi>>, 20, 5) = r
    BY <1>1, Fields
  <1> QED
    BY <1>1, <1>2, Zenon DEF hi

\* So are the fields of the compressed instructions,
LEMMA FieldsCL ==
  ASSUME NEW f \in Funct3, NEW r \in CompressedRegisters, NEW m \in Imm
  PROVE  /\ get_field(<<CompressedLow(0, f, r, m), 0>>, 0, 2) = 0
         /\ get_field(<<CompressedLow(0, f, r, m), 0>>, 13, 3) = f
         /\ get_field(<<CompressedLow(0, f, r, m), 0>>, 2, 3) = r - 8
  <1> DEFINE lo == CompressedLow(0, f, r, m)
  <1>1. lo \in Nat /\ lo % 4 = 0 /\ (lo \div 8192) % 8 = f /\ (lo \div 4) % 8 = r - 8
    BY DEF CompressedLow, Funct3, Imm, CompressedRegisters
  <1> HIDE DEF lo
  <1>2. /\ get_field(<<lo, 0>>, 0, 2) = 0 /\ get_field(<<lo, 0>>, 13, 3) = f
        /\ get_field(<<lo, 0>>, 2, 3) = r - 8
    BY <1>1, Fields
  <1> QED
    BY <1>2, Zenon DEF lo

\* of the loads relative to sp,
LEMMA FieldsCI ==
  ASSUME NEW f \in Funct3, NEW r \in Registers, NEW m \in Imm
  PROVE  /\ get_field(<<SpLoadLow(2, f, r, m), 0>>, 0, 2) = 2
         /\ get_field(<<SpLoadLow(2, f, r, m), 0>>, 13, 3) = f
         /\ get_field(<<SpLoadLow(2, f, r, m), 0>>, 7, 5) = r
  <1> DEFINE lo == SpLoadLow(2, f, r, m)
  <1>1. lo \in Nat /\ lo % 4 = 2 /\ (lo \div 8192) % 8 = f /\ (lo \div 128) % 32 = r
    BY DEF SpLoadLow, Funct3, Imm, Registers
  <1> HIDE DEF lo
  <1>2. /\ get_field(<<lo, 0>>, 0, 2) = 2 /\ get_field(<<lo, 0>>, 13, 3) = f
        /\ get_field(<<lo, 0>>, 7, 5) = r
    BY <1>1, Fields
  <1> QED
    BY <1>2, Zenon DEF lo

\* and of the stores relative to sp.
LEMMA FieldsCSS ==
  ASSUME NEW f \in Funct3, NEW r \in Registers, NEW m \in Imm
  PROVE  /\ get_field(<<SpStoreLow(2, f, r, m), 0>>, 0, 2) = 2
         /\ get_field(<<SpStoreLow(2, f, r, m), 0>>, 13, 3) = f
         /\ get_field(<<SpStoreLow(2, f, r, m), 0>>, 2, 5) = r
  <1> DEFINE lo == SpStoreLow(2, f, r, m)
  <1>1. lo \in Nat /\ lo % 4 = 2 /\ (lo \div 8192) % 8 = f /\ (lo \div 4) % 32 = r
    BY DEF SpStoreLow, Funct3, Imm, Registers
  <1> HIDE DEF lo
  <1>2. /\ get_field(<<lo, 0>>, 0, 2) = 2 /\ get_field(<<lo, 0>>, 13, 3) = f
        /\ get_field(<<lo, 0>>, 2, 5) = r
    BY <1>1, Fields
  <1> QED
    BY <1>2, Zenon DEF lo

\* The registers that a compressed instruction can name.
LEMMA RegisterMap ==
  ASSUME NEW r \in CompressedRegisters
  PROVE  rvc_reg_map[1 + (r - 8)] = r
  <1>1. r = 8 \/ r = 9 \/ r = 10 \/ r = 11 \/ r = 12 \/ r = 13 \/ r = 14 \/ r = 15
    BY DEF CompressedRegisters
  <1>2. /\ rvc_reg_map[1] = 8 /\ rvc_reg_map[2] = 9 /\ rvc_reg_map[3] = 10
        /\ rvc_reg_map[4] = 11 /\ rvc_reg_map[5] = 12 /\ rvc_reg_map[6] = 13
        /\ rvc_reg_map[7] = 14 /\ rvc_reg_map[8] = 15
    BY Zenon DEF rvc_reg_map
  <1> QED
    BY <1>1, <1>2

-----------------------------------------------------------------------------
(***************************************************************************)
(* The table, form by form.                                                *)
(***************************************************************************)

\* One row of the table.
Is(row, form, opcode, funct3, file, width, fill) ==
  /\ row.form = form /\ row.opcode = opcode /\ row.funct3 = funct3
  /\ row.file = file /\ row.width = width /\ row.fill = fill

LEMMA Table ==
  ASSUME NEW row \in LoadsAndStores
  PROVE  \/ Is(row, "I", 3, 0, "x", 1, "sign") \/ Is(row, "I", 3, 1, "x", 2, "sign")
         \/ Is(row, "I", 3, 2, "x", 4, "sign") \/ Is(row, "I", 3, 3, "x", 8, "zeros")
         \/ Is(row, "I", 3, 4, "x", 1, "zeros") \/ Is(row, "I", 3, 5, "x", 2, "zeros")
         \/ Is(row, "I", 3, 6, "x", 4, "zeros")
         \/ Is(row, "I", 7, 2, "f", 4, "ones") \/ Is(row, "I", 7, 3, "f", 8, "zeros")
         \/ Is(row, "S", 35, 0, "x", 1, "none") \/ Is(row, "S", 35, 1, "x", 2, "none")
         \/ Is(row, "S", 35, 2, "x", 4, "none") \/ Is(row, "S", 35, 3, "x", 8, "none")
         \/ Is(row, "S", 39, 2, "f", 4, "none") \/ Is(row, "S", 39, 3, "f", 8, "none")
         \/ Is(row, "CL", 0, 1, "f", 8, "zeros") \/ Is(row, "CL", 0, 2, "x", 4, "sign")
         \/ Is(row, "CL", 0, 3, "x", 8, "zeros")
         \/ Is(row, "CS", 0, 5, "f", 8, "none") \/ Is(row, "CS", 0, 6, "x", 4, "none")
         \/ Is(row, "CS", 0, 7, "x", 8, "none")
         \/ Is(row, "CI", 2, 1, "f", 8, "zeros") \/ Is(row, "CI", 2, 2, "x", 4, "sign")
         \/ Is(row, "CI", 2, 3, "x", 8, "zeros")
         \/ Is(row, "CSS", 2, 5, "f", 8, "none") \/ Is(row, "CSS", 2, 6, "x", 4, "none")
         \/ Is(row, "CSS", 2, 7, "x", 8, "none")
         \/ Is(row, "AMO", 47, 2, "x", 4, "sign")
  BY DEF LoadsAndStores, Row, Is

\* The types of its columns.
LEMMA RowTypes ==
  ASSUME NEW row \in LoadsAndStores
  PROVE  /\ row.form \in {"I", "S", "CL", "CS", "CI", "CSS", "AMO"}
         /\ row.file \in {"x", "f"}
         /\ row.width \in Widths
         /\ row.funct3 \in Funct3
  BY Table DEF Is, Funct3, Widths

-----------------------------------------------------------------------------
(***************************************************************************)
(* What the handler makes of an instruction.                               *)
(***************************************************************************)

File(row) == IF row.file = "x" THEN "gregs" ELSE "fregs"

\* the register that instruction i stores; __gregs[0] is not x0
Source(c, i) ==
  CASE i.row.file = "f"              -> c.fregs[i.reg]
    [] i.row.file = "x" /\ i.reg = 0 -> Word(0)
    [] i.row.file = "x" /\ i.reg # 0 -> c.gregs[i.reg]

\* todo is what instruction i asks for.  How a load of eight bytes is extended
\* does not matter.
Obeys(todo, c, i) ==
  CASE i.row.form \in {"I", "CL", "CI"} ->
         IF i.row.file = "x" /\ i.reg = 0 THEN todo = Skip
         ELSE \E fill \in {"sign", "zeros", "ones"} :
                /\ fill = i.row.fill \/ i.row.width = 8
                /\ todo = Load(File(i.row), i.reg, i.row.width, fill)
    [] i.row.form \in {"S", "CS", "CSS"} -> todo = Store(Source(c, i), i.row.width)
    [] i.row.form = "AMO" -> todo = GiveUp

\* The columns of the instruction's row, and its operands.
LEMMA InstructionTypes ==
  ASSUME NEW i \in InstructionType
  PROVE  /\ i.row \in LoadsAndStores /\ i.reg \in Registers
         /\ i.imm \in Imm /\ i.addr \in Nat /\ i.gp \in BOOLEAN
  BY Zenon DEF InstructionType, Imm

\* What the handler does with a 32-bit instruction depends on its opcode,
LEMMA Emulate32 ==
  ASSUME NEW c, NEW ins, get_field(ins, 0, 2) = 3
  PROVE  LET opcode == get_field(ins, 0, 7)
             funct3 == get_field(ins, 12, 3)
             rd == get_field(ins, 7, 5)
             rs2 == get_field(ins, 20, 5)
         IN  /\ is_32bit(ins)
             /\ opcode = 3 => emulate(c, ins) = emulate_load_instruction(funct3, rd)
             /\ opcode = 7 => emulate(c, ins) = emulate_fload_instruction(funct3, rd)
             /\ opcode = 35 => emulate(c, ins) = emulate_store_instruction(c, funct3, rs2)
             /\ opcode = 39 => emulate(c, ins) = emulate_fstore_instruction(c, funct3, rs2)
             /\ opcode = 47 => emulate(c, ins) = GiveUp
  <1>1. is_32bit(ins)
    BY Zenon DEF is_32bit
  <1> QED
    BY <1>1 DEF emulate

\* and so it does with a compressed one.
LEMMA Emulate16 ==
  ASSUME NEW c, NEW ins, get_field(ins, 0, 2) = 0 \/ get_field(ins, 0, 2) = 2
  PROVE  LET opcode == get_field(ins, 0, 2)
             funct3 == get_field(ins, 13, 3)
         IN  /\ ~ is_32bit(ins)
             /\ opcode = 0 => emulate(c, ins) =
                  emulate_c_load_store_instruction(
                    c, funct3, rvc_reg_map[1 + get_field(ins, 2, 3)])
             /\ opcode = 2 => emulate(c, ins) =
                  emulate_sp_rel_c_load_store_instruction(
                    c, funct3, get_field(ins, 7, 5), get_field(ins, 2, 5))
  <1>1. get_field(ins, 0, 2) # 3
    OBVIOUS
  <1>2. ~ is_32bit(ins)
    BY <1>1, ZenonT(40) DEF is_32bit
  <1> QED
    BY <1>2 DEF emulate

\* The encodings, form by form.
LEMMA Encodings ==
  ASSUME NEW i \in InstructionType
  PROVE  LET op == i.row.opcode
             f3 == i.row.funct3
         IN  /\ i.row.form = "I" => Encode(i) = <<Low(op, f3, i.reg), LoadHigh(i.imm)>>
             /\ i.row.form = "AMO" => Encode(i) = <<Low(op, f3, i.reg), AmoHigh>>
             /\ i.row.form = "S" =>
                  Encode(i) = <<Low(op, f3, 31 * i.imm), StoreHigh(i.reg, i.imm)>>
             /\ i.row.form = "CL" \/ i.row.form = "CS" =>
                  Encode(i) = <<CompressedLow(op, f3, i.reg, i.imm), 0>>
             /\ i.row.form = "CI" => Encode(i) = <<SpLoadLow(op, f3, i.reg, i.imm), 0>>
             /\ i.row.form = "CSS" => Encode(i) = <<SpStoreLow(op, f3, i.reg, i.imm), 0>>
  BY Zenon DEF Encode

\* The high halves are numbers, and so is the immediate of a store.
LEMMA Halves ==
  ASSUME NEW m \in Imm
  PROVE  LoadHigh(m) \in Nat /\ AmoHigh \in Nat /\ 31 * m \in Registers
  BY DEF LoadHigh, AmoHigh, Imm, Registers

\* Loads of the base instruction set and of the F and D extensions.
LEMMA EmulateI ==
  ASSUME NEW c, NEW i \in InstructionType, i.row.form = "I"
  PROVE  Obeys(emulate(c, Encode(i)), c, i) /\ is_32bit(Encode(i))
  <1> DEFINE ins == Encode(i)
             todo == emulate(c, ins)
  <1>1. /\ i.row \in LoadsAndStores /\ i.reg \in Registers
        /\ i.imm \in Imm /\ i.row.funct3 \in Funct3
    BY InstructionTypes, RowTypes, Zenon
  <1>2. i.row.opcode = 3 \/ i.row.opcode = 7
    BY <1>1, Table, Zenon DEF Is
  <1>3. ins = <<Low(i.row.opcode, i.row.funct3, i.reg), LoadHigh(i.imm)>>
    BY Encodings, Zenon
  <1> HIDE DEF ins
  <1>4. /\ get_field(ins, 0, 2) = 3 /\ get_field(ins, 0, 7) = i.row.opcode
        /\ get_field(ins, 12, 3) = i.row.funct3 /\ get_field(ins, 7, 5) = i.reg
    <2>1. i.row.opcode \in Opcodes32 /\ LoadHigh(i.imm) \in Nat
      BY <1>1, <1>2, Halves DEF Opcodes32
    <2> QED
      BY <1>1, <1>3, <2>1, Fields32
  <1>5. /\ is_32bit(ins)
        /\ i.row.opcode = 3 => todo = emulate_load_instruction(i.row.funct3, i.reg)
        /\ i.row.opcode = 7 => todo = emulate_fload_instruction(i.row.funct3, i.reg)
    BY <1>4, Emulate32, Zenon
  <1> HIDE DEF todo
  <1>6. Obeys(todo, c, i)
    <2>1. CASE i.row.opcode = 3
      BY <1>1, <1>5, <2>1, Table, Shifts DEF Is, emulate_load_instruction, Obeys, File
    <2>2. CASE i.row.opcode = 7
      BY <1>1, <1>5, <2>2, Table DEF Is, emulate_fload_instruction, Obeys, File
    <2> QED
      BY <1>2, <2>1, <2>2, Zenon
  <1> QED
    BY <1>5, <1>6, Zenon DEF todo, ins

\* Stores of the same.
LEMMA EmulateS ==
  ASSUME NEW c, NEW i \in InstructionType, i.row.form = "S"
  PROVE  Obeys(emulate(c, Encode(i)), c, i) /\ is_32bit(Encode(i))
  <1> DEFINE ins == Encode(i)
             todo == emulate(c, ins)
  <1>1. /\ i.row \in LoadsAndStores /\ i.reg \in Registers
        /\ i.imm \in Imm /\ i.row.funct3 \in Funct3
    BY InstructionTypes, RowTypes, Zenon
  <1>2. i.row.opcode = 35 \/ i.row.opcode = 39
    BY <1>1, Table, Zenon DEF Is
  <1>3. ins = <<Low(i.row.opcode, i.row.funct3, 31 * i.imm), StoreHigh(i.reg, i.imm)>>
    BY Encodings, Zenon
  <1> HIDE DEF ins
  <1>4. StoreHigh(i.reg, i.imm) \in Nat
    BY <1>1, FieldsStore32, Zenon
  <1>5. /\ Low(i.row.opcode, i.row.funct3, 31 * i.imm) \in Nat
        /\ get_field(ins, 0, 2) = 3 /\ get_field(ins, 0, 7) = i.row.opcode
        /\ get_field(ins, 12, 3) = i.row.funct3
    <2>1. i.row.opcode \in Opcodes32 /\ 31 * i.imm \in Registers
      BY <1>1, <1>2, Halves DEF Opcodes32
    <2> QED
      BY <1>1, <1>3, <1>4, <2>1, Fields32
  <1>6. get_field(ins, 20, 5) = i.reg
    BY <1>1, <1>3, <1>5, FieldsStore32, Zenon
  <1>7. /\ is_32bit(ins)
        /\ i.row.opcode = 35 => todo = emulate_store_instruction(c, i.row.funct3, i.reg)
        /\ i.row.opcode = 39 => todo = emulate_fstore_instruction(c, i.row.funct3, i.reg)
    BY <1>5, <1>6, Emulate32
  <1> HIDE DEF todo
  <1>8. Obeys(todo, c, i)
    <2>1. CASE i.row.opcode = 35
      BY <1>1, <1>7, <2>1, Table, Shifts DEF Is, emulate_store_instruction, Obeys, Source
    <2>2. CASE i.row.opcode = 39
      BY <1>1, <1>7, <2>2, Table, Shifts DEF Is, emulate_fstore_instruction, Obeys, Source
    <2> QED
      BY <1>2, <2>1, <2>2, Zenon
  <1> QED
    BY <1>7, <1>8, Zenon DEF todo, ins

\* Atomic instructions are not emulated.
LEMMA EmulateAmo ==
  ASSUME NEW c, NEW i \in InstructionType, i.row.form = "AMO"
  PROVE  emulate(c, Encode(i)) = GiveUp
  <1> DEFINE ins == Encode(i)
  <1>1. /\ i.row \in LoadsAndStores /\ i.reg \in Registers
        /\ i.imm \in Imm /\ i.row.funct3 \in Funct3
    BY InstructionTypes, RowTypes, Zenon
  <1>2. i.row.opcode = 47
    BY <1>1, Table, Zenon DEF Is
  <1>3. ins = <<Low(i.row.opcode, i.row.funct3, i.reg), AmoHigh>>
    BY Encodings, Zenon
  <1> HIDE DEF ins
  <1>4. get_field(ins, 0, 2) = 3 /\ get_field(ins, 0, 7) = i.row.opcode
    <2>1. i.row.opcode \in Opcodes32 /\ AmoHigh \in Nat
      BY <1>1, <1>2, Halves DEF Opcodes32
    <2> QED
      BY <1>1, <1>3, <2>1, Fields32
  <1>5. emulate(c, ins) = GiveUp
    BY <1>2, <1>4, Emulate32, Zenon
  <1> QED
    BY <1>5, Zenon DEF ins

\* Compressed loads and stores.
LEMMA EmulateC ==
  ASSUME NEW c, NEW i \in InstructionType, i.row.form = "CL" \/ i.row.form = "CS",
         i.reg \in CompressedRegisters
  PROVE  Obeys(emulate(c, Encode(i)), c, i) /\ ~ is_32bit(Encode(i))
  <1> DEFINE ins == Encode(i)
             todo == emulate(c, ins)
  <1>1. i.row \in LoadsAndStores /\ i.imm \in Imm /\ i.row.funct3 \in Funct3
    BY InstructionTypes, RowTypes, Zenon
  <1>2. i.row.opcode = 0
    BY <1>1, Table, Zenon DEF Is
  <1>3. ins = <<CompressedLow(0, i.row.funct3, i.reg, i.imm), 0>>
    BY <1>2, Encodings, Zenon
  <1> HIDE DEF ins
  <1>4. /\ get_field(ins, 0, 2) = 0 /\ get_field(ins, 13, 3) = i.row.funct3
        /\ get_field(ins, 2, 3) = i.reg - 8
    BY <1>1, <1>3, FieldsCL, Zenon
  <1>5. /\ ~ is_32bit(ins)
        /\ todo = emulate_c_load_store_instruction(c, i.row.funct3, i.reg)
    BY <1>4, Emulate16, RegisterMap
  <1> HIDE DEF todo
  <1>6. i.reg # 0
    BY DEF CompressedRegisters
  <1>7. Obeys(todo, c, i)
    <2>1. CASE i.row.form = "CL"
      BY <1>1, <1>5, <1>6, <2>1, Table
      DEF Is, emulate_c_load_store_instruction, Obeys, File
    <2>2. CASE i.row.form = "CS"
      BY <1>1, <1>5, <1>6, <2>2, Table
      DEF Is, emulate_c_load_store_instruction, Obeys, Source
    <2> QED
      BY <2>1, <2>2, Zenon
  <1> QED
    BY <1>5, <1>7, Zenon DEF todo, ins

\* Compressed loads relative to sp.
LEMMA EmulateCI ==
  ASSUME NEW c, NEW i \in InstructionType, i.row.form = "CI"
  PROVE  Obeys(emulate(c, Encode(i)), c, i) /\ ~ is_32bit(Encode(i))
  <1> DEFINE ins == Encode(i)
             todo == emulate(c, ins)
             rs2 == get_field(ins, 2, 5)
  <1>1. /\ i.row \in LoadsAndStores /\ i.reg \in Registers
        /\ i.imm \in Imm /\ i.row.funct3 \in Funct3
    BY InstructionTypes, RowTypes, Zenon
  <1>2. i.row.opcode = 2
    BY <1>1, Table, Zenon DEF Is
  <1>3. ins = <<SpLoadLow(2, i.row.funct3, i.reg, i.imm), 0>>
    BY <1>2, Encodings, Zenon
  <1> HIDE DEF ins
  <1>4. /\ get_field(ins, 0, 2) = 2 /\ get_field(ins, 13, 3) = i.row.funct3
        /\ get_field(ins, 7, 5) = i.reg
    BY <1>1, <1>3, FieldsCI
  <1>5. /\ ~ is_32bit(ins)
        /\ todo = emulate_sp_rel_c_load_store_instruction(c, i.row.funct3, i.reg, rs2)
    BY <1>4, Emulate16, Zenon
  <1> HIDE DEF todo, rs2
  <1>6. Obeys(todo, c, i)
    BY <1>1, <1>5, Table DEF Is, emulate_sp_rel_c_load_store_instruction, Obeys, File
  <1> QED
    BY <1>5, <1>6, Zenon DEF todo, ins

\* Compressed stores relative to sp.
LEMMA EmulateCSS ==
  ASSUME NEW c, NEW i \in InstructionType, i.row.form = "CSS"
  PROVE  Obeys(emulate(c, Encode(i)), c, i) /\ ~ is_32bit(Encode(i))
  <1> DEFINE ins == Encode(i)
             todo == emulate(c, ins)
             rd == get_field(ins, 7, 5)
  <1>1. /\ i.row \in LoadsAndStores /\ i.reg \in Registers
        /\ i.imm \in Imm /\ i.row.funct3 \in Funct3
    BY InstructionTypes, RowTypes, Zenon
  <1>2. i.row.opcode = 2
    BY <1>1, Table, Zenon DEF Is
  <1>3. ins = <<SpStoreLow(2, i.row.funct3, i.reg, i.imm), 0>>
    BY <1>2, Encodings, Zenon
  <1> HIDE DEF ins
  <1>4. /\ get_field(ins, 0, 2) = 2 /\ get_field(ins, 13, 3) = i.row.funct3
        /\ get_field(ins, 2, 5) = i.reg
    BY <1>1, <1>3, FieldsCSS
  <1>5. /\ ~ is_32bit(ins)
        /\ todo = emulate_sp_rel_c_load_store_instruction(c, i.row.funct3, rd, i.reg)
    BY <1>4, Emulate16, Zenon
  <1> HIDE DEF todo, rd
  <1>6. Obeys(todo, c, i)
    BY <1>1, <1>5, Table DEF Is, emulate_sp_rel_c_load_store_instruction, Obeys, Source
  <1> QED
    BY <1>5, <1>6, Zenon DEF todo, ins

\* The handler decodes each instruction to what it is, and skips its length.
LEMMA Decoded ==
  ASSUME NEW c, NEW t \in Threads, NEW i \in Instructions[t]
  PROVE  /\ Obeys(emulate(c, Encode(i)), c, i)
         /\ i.row.form # "AMO" => (IF is_32bit(Encode(i)) THEN 4 ELSE 2) = Length(i)
  <1>1. /\ i \in InstructionType
        /\ i.row.form = "CL" \/ i.row.form = "CS" => i.reg \in CompressedRegisters
    BY InstructionsAssumption, Zenon DEF CompressedRegisters
  <1>2. i.row.form \in {"I", "S", "CL", "CS", "CI", "CSS", "AMO"}
    BY <1>1, InstructionTypes, RowTypes, Zenon
  <1>3. CASE i.row.form = "I"
    BY <1>1, <1>3, EmulateI, Zenon DEF Length
  <1>4. CASE i.row.form = "S"
    BY <1>1, <1>4, EmulateS, Zenon DEF Length
  <1>5. CASE i.row.form = "CL" \/ i.row.form = "CS"
    BY <1>1, <1>5, EmulateC, Zenon DEF Length
  <1>6. CASE i.row.form = "CI"
    BY <1>1, <1>6, EmulateCI, Zenon DEF Length
  <1>7. CASE i.row.form = "CSS"
    BY <1>1, <1>7, EmulateCSS, Zenon DEF Length
  <1>8. CASE i.row.form = "AMO"
    BY <1>1, <1>8, EmulateAmo, Zenon DEF Obeys
  <1> QED
    BY <1>2, <1>3, <1>4, <1>5, <1>6, <1>7, <1>8, Zenon

-----------------------------------------------------------------------------
(***************************************************************************)
(* Registers and memory.                                                   *)
(***************************************************************************)

\* The bytes of an access are in D.
Within(a, n, D) == a .. a + n - 1 \subseteq D

\* A sequence of so many bytes.
IsBytes(b, n) == Len(b) = n /\ \A k \in 1 .. n : b[k] \in Bytes

LEMMA FunctionLength ==
  ASSUME NEW S, NEW n \in Nat, NEW f \in [1 .. n -> S]
  PROVE  f \in Seq(S) /\ Len(f) = n
  <1>1. f \in Seq(S)
    OBVIOUS
  <1>2. Len(f) = n
    OBVIOUS
  <1> QED
    BY <1>1, <1>2, Zenon

LEMMA Prefix ==
  ASSUME NEW S, NEW f \in Seq(S), Len(f) = 8, NEW n \in 1 .. 8
  PROVE  Len(SubSeq(f, 1, n)) = n /\ \A k \in 1 .. n : SubSeq(f, 1, n)[k] = f[k]
  OBVIOUS

\* The low bytes of a register.
LEMMA LowBytes ==
  ASSUME NEW w \in Words64, NEW n \in Widths
  PROVE  IsBytes(SubSeq(w, 1, n), n)
  <1>1. w \in [1 .. 8 -> Bytes]
    BY Zenon DEF Words64
  <1>2. w \in Seq(Bytes) /\ Len(w) = 8
    BY <1>1, FunctionLength, Zenon
  <1>3. n \in 1 .. 8 /\ \A k \in 1 .. n : k \in 1 .. 8
    BY DEF Widths
  <1>4. \A k \in 1 .. n : w[k] \in Bytes
    BY <1>1, <1>3, Zenon
  <1>5. Len(SubSeq(w, 1, n)) = n /\ \A k \in 1 .. n : SubSeq(w, 1, n)[k] = w[k]
    BY <1>2, <1>3, Prefix, Zenon
  <1> QED
    BY <1>4, <1>5, Zenon DEF IsBytes

\* Bytes written to memory are bytes of the memory.
LEMMA WriteType ==
  ASSUME NEW D, NEW m \in [D -> Bytes], NEW addr \in Nat,
         NEW n \in Widths, NEW b, IsBytes(b, n)
  PROVE  Write(m, addr, b) \in [D -> Bytes]
  <1>1. \A a \in addr .. addr + n - 1 : a - addr + 1 \in 1 .. n
    BY DEF Widths
  <1>2. \A a \in addr .. addr + n - 1 : b[a - addr + 1] \in Bytes
    BY <1>1, Zenon DEF IsBytes
  <1>3. Len(b) = n
    BY Zenon DEF IsBytes
  <1> QED
    BY <1>2, <1>3, Zenon DEF Write

\* A load reads as many bytes as it is wide.
LEMMA ReadType ==
  ASSUME NEW D, NEW m \in [D -> Bytes], NEW addr \in Nat, NEW width \in Widths,
         Within(addr, width, D)
  PROVE  IsBytes(Read(m, addr, width), width)
  <1>1. \A k \in 1 .. width : addr + k - 1 \in addr .. addr + width - 1
    BY DEF Widths
  <1>2. Read(m, addr, width) \in [1 .. width -> Bytes]
    BY <1>1, Zenon DEF Read, Within
  <1>3. width \in Nat
    BY DEF Widths
  <1> QED
    BY <1>2, <1>3, FunctionLength, Zenon DEF IsBytes

\* Extended, they make a register.
LEMMA ExtendType ==
  ASSUME NEW n \in Widths, NEW b, IsBytes(b, n), NEW fill
  PROVE  Extend(b, fill) \in Words64
  <1>1. Len(b) = n /\ \A k \in 1 .. 8 : k <= n => b[k] \in Bytes
    BY DEF IsBytes, Widths
  <1>2. 0 \in Bytes /\ 255 \in Bytes
    BY DEF Bytes
  <1> QED
    BY <1>1, <1>2, Zenon DEF Extend, Words64

\* Eight bytes leave nothing to extend.
LEMMA ExtendEight ==
  ASSUME NEW b, Len(b) = 8, NEW fill1, NEW fill2
  PROVE  Extend(b, fill1) = Extend(b, fill2)
  BY DEF Extend

\* Bytes wrap around.
LEMMA Wrap ==
  ASSUME NEW a \in Bytes, NEW n \in Nat
  PROVE  (a + n) % 256 \in Bytes
  BY DEF Bytes

\* The program counter wraps around.
LEMMA AdvanceType ==
  ASSUME NEW w \in Words64, NEW n \in Nat
  PROVE  Advance(w, n) \in Words64
  <1>1. w[1] \in Bytes
    BY DEF Words64
  <1>2. (w[1] + n) % 256 \in Bytes
    BY <1>1, Wrap, ZenonT(40)
  <1> QED
    BY <1>2, Zenon DEF Advance, Words64

\* Zero is a word.
LEMMA ZeroType == Word(0) \in Words64 /\ Word(0) = [k \in 1 .. 8 |-> 0]
  BY DEF Word, Words64, Bytes

-----------------------------------------------------------------------------
(***************************************************************************)
(* LoadStore has its own copy of the operators of RISCV.                   *)
(***************************************************************************)
LEMMA SameOperators ==
  /\ ISA!Registers = Registers /\ ISA!Words64 = Words64 /\ ISA!Bytes = Bytes
  /\ ISA!NoInstr = NoInstr /\ ISA!Word(0) = Word(0)
  /\ \A i : ISA!Loads(i) = Loads(i) /\ ISA!Stores(i) = Stores(i) /\ ISA!Length(i) = Length(i)
  /\ \A b, fill : ISA!Extend(b, fill) = Extend(b, fill)
  /\ \A m, a, n : ISA!Read(m, a, n) = Read(m, a, n)
  /\ \A m, a, b : ISA!Write(m, a, b) = Write(m, a, b)
  /\ \A w, n : ISA!Advance(w, n) = Advance(w, n)
  <1>1. /\ ISA!Registers = Registers /\ ISA!Words64 = Words64 /\ ISA!Bytes = Bytes
        /\ ISA!NoInstr = NoInstr /\ ISA!Word(0) = Word(0)
    BY Zenon DEF ISA!Registers, Registers, ISA!Words64, Words64, ISA!Bytes, Bytes,
      ISA!NoInstr, NoInstr, ISA!Word, Word
  <1>2. \A i : ISA!Loads(i) = Loads(i) /\ ISA!Stores(i) = Stores(i) /\ ISA!Length(i) = Length(i)
    BY Zenon DEF ISA!Loads, Loads, ISA!Stores, Stores, ISA!Length, Length
  <1>3. \A b, fill : ISA!Extend(b, fill) = Extend(b, fill)
    BY Zenon DEF ISA!Extend, Extend
  <1>4. \A m, a, n : ISA!Read(m, a, n) = Read(m, a, n)
    BY Zenon DEF ISA!Read, Read
  <1>5. \A m, a, b : ISA!Write(m, a, b) = Write(m, a, b)
    BY Zenon DEF ISA!Write, Write
  <1>6. \A w, n : ISA!Advance(w, n) = Advance(w, n)
    BY Zenon DEF ISA!Advance, Advance
  <1> QED
    BY <1>1, <1>2, <1>3, <1>4, <1>5, <1>6, Zenon

-----------------------------------------------------------------------------
(***************************************************************************)
(* The hart and the handler do the same to a thread's context.             *)
(***************************************************************************)

\* what a load puts into its register
Value(i) == Extend(Read(mem, i.addr, i.row.width), i.row.fill)

\* registers after a load into one of them
Set(regs, r, v) == [regs EXCEPT ![r] = v]

\* Which registers an instruction loads.
LEMMA LoadedCases ==
  ASSUME NEW i, NEW regs
  PROVE  /\ Loads(i) /\ i.row.file = "x" /\ i.reg # 0 =>
              ISA!Loaded(regs, "x", i) = Set(regs, i.reg, Value(i))
         /\ Loads(i) /\ i.row.file = "f" =>
              ISA!Loaded(regs, "f", i) = Set(regs, i.reg, Value(i))
         /\ ~ Loads(i) \/ i.row.file # "x" \/ i.reg = 0 => ISA!Loaded(regs, "x", i) = regs
         /\ ~ Loads(i) \/ i.row.file # "f" => ISA!Loaded(regs, "f", i) = regs
  <1>1. ISA!Loads(i) = Loads(i)
    BY SameOperators, Zenon
  <1>2. ISA!Extend(ISA!Read(mem, i.addr, i.row.width), i.row.fill) = Value(i)
    BY SameOperators, Zenon DEF Value
  <1>3. "x" # "f"
    BY Zenon
  <1> QED
    BY <1>1, <1>2, <1>3, Zenon DEF ISA!Loaded, Set

\* A permitted load gets a word.
LEMMA ValueType ==
  ASSUME NEW i \in InstructionType, mem \in [Data -> Bytes],
         Within(i.addr, i.row.width, Data)
  PROVE  Value(i) \in Words64
  <1> DEFINE b == Read(mem, i.addr, i.row.width)
  <1>1. i.addr \in Nat /\ i.row.width \in Widths
    BY InstructionTypes, RowTypes, Zenon
  <1>2. IsBytes(b, i.row.width)
    BY <1>1, ReadType, Zenon
  <1> HIDE DEF b
  <1>3. Extend(b, i.row.fill) \in Words64
    BY <1>1, <1>2, ExtendType, Zenon
  <1> QED
    BY <1>3, Zenon DEF b, Value

\* The parts of a context.
LEMMA ContextParts ==
  ASSUME NEW c \in ContextType
  PROVE  /\ c.gregs \in [Registers -> Words64] /\ c.fregs \in [Registers -> Words64]
         /\ c = [gregs |-> c.gregs, fregs |-> c.fregs]
  BY Zenon DEF ContextType

LEMMA ContextMade ==
  ASSUME NEW g \in [Registers -> Words64], NEW f \in [Registers -> Words64]
  PROVE  [gregs |-> g, fregs |-> f] \in ContextType
  BY Zenon DEF ContextType

\* Registers stay registers.
LEMMA SetType ==
  ASSUME NEW regs \in [Registers -> Words64], NEW r, NEW v \in Words64
  PROVE  Set(regs, r, v) \in [Registers -> Words64]
  BY Zenon DEF Set

LEMMA LoadedType ==
  ASSUME NEW i \in InstructionType, NEW regs \in [Registers -> Words64],
         NEW file \in {"x", "f"}, mem \in [Data -> Bytes],
         Loads(i) => Within(i.addr, i.row.width, Data)
  PROVE  ISA!Loaded(regs, file, i) \in [Registers -> Words64]
  <1>1. Loads(i) => Set(regs, i.reg, Value(i)) \in [Registers -> Words64]
    BY ValueType, SetType, Zenon
  <1>2. ISA!Loaded(regs, file, i) \in {regs, Set(regs, i.reg, Value(i))}
    BY LoadedCases, Zenon
  <1>3. ~ Loads(i) => ISA!Loaded(regs, file, i) = regs
    BY LoadedCases, Zenon
  <1> QED
    BY <1>1, <1>2, <1>3, Zenon

\* Skipping an instruction moves the program counter.
LEMMA ExecutedType ==
  ASSUME NEW c \in ContextType, NEW i \in InstructionType, mem \in [Data -> Bytes],
         Loads(i) => Within(i.addr, i.row.width, Data)
  PROVE  Executed(c, i) \in ContextType
  <1> DEFINE g == ISA!Loaded(c.gregs, "x", i)
             f == ISA!Loaded(c.fregs, "f", i)
  <1>1. g \in [Registers -> Words64] /\ f \in [Registers -> Words64]
    BY ContextParts, LoadedType, Zenon
  <1> HIDE DEF g, f
  <1>2. REG_PC \in Registers /\ Length(i) \in Nat
    BY DEF REG_PC, Registers, Length
  <1>3. Advance(g[REG_PC], Length(i)) \in Words64
    BY <1>1, <1>2, AdvanceType, Zenon
  <1>4. [g EXCEPT ![REG_PC] = Advance(@, Length(i))] \in [Registers -> Words64]
    BY <1>1, <1>2, <1>3, Zenon
  <1>5. [gregs |-> [g EXCEPT ![REG_PC] = Advance(@, Length(i))], fregs |-> f] \in ContextType
    BY <1>1, <1>4, ContextMade, Zenon
  <1> QED
    BY <1>5, Zenon DEF Executed, g, f

\* What Perform does to a context, case by case.
LEMMA PerformCases ==
  ASSUME NEW c \in ContextType, NEW todo, NEW a, NEW n
  PROVE  LET v == Extend(Read(mem, a, todo.width), todo.fill) IN
         /\ todo.op = "load" /\ todo.file = "gregs" => Perform(c, todo, a, n) =
              [gregs |-> [Set(c.gregs, todo.reg, v) EXCEPT ![REG_PC] = Advance(@, n)],
               fregs |-> c.fregs]
         /\ todo.op = "load" /\ todo.file = "fregs" => Perform(c, todo, a, n) =
              [gregs |-> [c.gregs EXCEPT ![REG_PC] = Advance(@, n)],
               fregs |-> Set(c.fregs, todo.reg, v)]
         /\ todo.op # "load" => Perform(c, todo, a, n) =
              [gregs |-> [c.gregs EXCEPT ![REG_PC] = Advance(@, n)], fregs |-> c.fregs]
  <1> DEFINE v == Extend(Read(mem, a, todo.width), todo.fill)
             g == c.gregs
             f == c.fregs
  <1>1. c = [gregs |-> g, fregs |-> f]
    BY ContextParts, Zenon
  <1> HIDE DEF v, g, f
  <1>2. /\ todo.op = "load" /\ todo.file = "gregs" => Perform(c, todo, a, n) =
             [[c EXCEPT !.gregs[todo.reg] = v] EXCEPT !.gregs[REG_PC] = Advance(@, n)]
        /\ todo.op = "load" /\ todo.file = "fregs" => Perform(c, todo, a, n) =
             [[c EXCEPT !.fregs[todo.reg] = v] EXCEPT !.gregs[REG_PC] = Advance(@, n)]
        /\ todo.op # "load" => Perform(c, todo, a, n) =
             [c EXCEPT !.gregs[REG_PC] = Advance(@, n)]
    BY Zenon DEF Perform, v
  <1>3. /\ [c EXCEPT !.gregs[todo.reg] = v] = [gregs |-> Set(g, todo.reg, v), fregs |-> f]
        /\ [c EXCEPT !.fregs[todo.reg] = v] = [gregs |-> g, fregs |-> Set(f, todo.reg, v)]
    BY <1>1 DEF Set
  <1>4. \A h, k : [[gregs |-> h, fregs |-> k] EXCEPT !.gregs[REG_PC] = Advance(@, n)] =
          [gregs |-> [h EXCEPT ![REG_PC] = Advance(@, n)], fregs |-> k]
    OBVIOUS
  <1>5. ASSUME todo.op = "load", todo.file = "gregs"
        PROVE  Perform(c, todo, a, n) =
          [gregs |-> [Set(g, todo.reg, v) EXCEPT ![REG_PC] = Advance(@, n)], fregs |-> f]
    BY <1>2, <1>3, <1>4, <1>5, ZenonT(40)
  <1>6. ASSUME todo.op = "load", todo.file = "fregs"
        PROVE  Perform(c, todo, a, n) =
          [gregs |-> [g EXCEPT ![REG_PC] = Advance(@, n)], fregs |-> Set(f, todo.reg, v)]
    <2>1. Perform(c, todo, a, n) =
            [[gregs |-> g, fregs |-> Set(f, todo.reg, v)]
               EXCEPT !.gregs[REG_PC] = Advance(@, n)]
      BY <1>2, <1>3, <1>6, Zenon
    <2> QED
      BY <1>4, <2>1, Zenon
  <1>7. ASSUME todo.op # "load"
        PROVE  Perform(c, todo, a, n) =
          [gregs |-> [g EXCEPT ![REG_PC] = Advance(@, n)], fregs |-> f]
    BY <1>1, <1>2, <1>4, <1>7, Zenon
  <1> QED
    BY <1>5, <1>6, <1>7, Zenon DEF v, g, f

\* The handler puts into a register what the hart would have put there.
LEMMA ValueLoaded ==
  ASSUME NEW i \in InstructionType, mem \in [Data -> Bytes],
         Within(i.addr, i.row.width, Data),
         NEW fill, fill = i.row.fill \/ i.row.width = 8
  PROVE  Extend(Read(mem, i.addr, i.row.width), fill) = Value(i)
  <1> DEFINE b == Read(mem, i.addr, i.row.width)
  <1>1. i.addr \in Nat /\ i.row.width \in Widths
    BY InstructionTypes, RowTypes, Zenon
  <1>2. Len(b) = i.row.width
    BY <1>1, ReadType, Zenon DEF IsBytes
  <1> HIDE DEF b
  <1>3. Extend(b, fill) = Extend(b, i.row.fill)
    <2>1. CASE fill = i.row.fill
      BY <2>1, Zenon
    <2>2. CASE i.row.width = 8
      BY <1>2, <2>2, ExtendEight, Zenon
    <2> QED
      BY <2>1, <2>2, Zenon
  <1> QED
    BY <1>3, Zenon DEF b, Value

\* The handler leaves the context as the hart would have left it.
LEMMA PerformExecutes ==
  ASSUME NEW c \in ContextType, NEW i \in InstructionType, mem \in [Data -> Bytes],
         NEW todo, Obeys(todo, c, i), i.row.form # "AMO",
         Loads(i) => Within(i.addr, i.row.width, Data)
  PROVE  Perform(c, todo, i.addr, Length(i)) = Executed(c, i)
  <1> DEFINE n == Length(i)
  <1>1. i.row.file \in {"x", "f"} /\ i.row.form \in {"I", "S", "CL", "CS", "CI", "CSS"}
    BY InstructionTypes, RowTypes, Zenon
  <1>2. CASE i.row.form \in {"I", "CL", "CI"} /\ i.row.file = "x" /\ i.reg = 0
    <2>1. todo.op # "load"
      <3>1. todo = Skip
        BY <1>2, Zenon DEF Obeys
      <3>2. Skip.op = "skip"
        BY Zenon DEF Skip
      <3> QED
        BY <3>1, <3>2, Zenon
    <2>2. Perform(c, todo, i.addr, n) =
            [gregs |-> [c.gregs EXCEPT ![REG_PC] = Advance(@, n)], fregs |-> c.fregs]
      BY <2>1, PerformCases
    <2>3. /\ ISA!Loaded(c.gregs, "x", i) = c.gregs
          /\ ISA!Loaded(c.fregs, "f", i) = c.fregs
      BY <1>2, LoadedCases, Zenon
    <2> QED
      BY <2>2, <2>3, Zenon DEF Executed
  <1>3. CASE i.row.form \in {"I", "CL", "CI"} /\ ~ (i.row.file = "x" /\ i.reg = 0)
    <2>1. PICK fill \in {"sign", "zeros", "ones"} :
            /\ fill = i.row.fill \/ i.row.width = 8
            /\ todo = Load(File(i.row), i.reg, i.row.width, fill)
      BY <1>3, Zenon DEF Obeys
    <2>2. /\ todo.op = "load" /\ todo.file = File(i.row) /\ todo.reg = i.reg
          /\ todo.width = i.row.width /\ todo.fill = fill
      BY <2>1, Zenon DEF Load
    <2>3. Loads(i)
      BY <1>3, Zenon DEF Loads
    <2>4. Extend(Read(mem, i.addr, todo.width), todo.fill) = Value(i)
      BY <2>1, <2>2, <2>3, ValueLoaded, Zenon
    <2>5. CASE i.row.file = "x"
      <3>1. i.reg # 0 /\ todo.file = "gregs"
        BY <1>3, <2>2, <2>5, Zenon DEF File
      <3>2. Perform(c, todo, i.addr, n) =
              [gregs |-> [Set(c.gregs, i.reg, Value(i)) EXCEPT ![REG_PC] = Advance(@, n)],
               fregs |-> c.fregs]
        BY <2>2, <2>4, <3>1, PerformCases, SMTT(30)
      <3>3. /\ ISA!Loaded(c.gregs, "x", i) = Set(c.gregs, i.reg, Value(i))
            /\ ISA!Loaded(c.fregs, "f", i) = c.fregs
        BY <2>3, <2>5, <3>1, LoadedCases, Zenon
      <3> QED
        BY <3>2, <3>3, Zenon DEF Executed
    <2>6. CASE i.row.file = "f"
      <3>1. todo.file = "fregs"
        BY <2>2, <2>6, Zenon DEF File
      <3>2. Perform(c, todo, i.addr, n) =
              [gregs |-> [c.gregs EXCEPT ![REG_PC] = Advance(@, n)],
               fregs |-> Set(c.fregs, i.reg, Value(i))]
        BY <2>2, <2>4, <3>1, PerformCases, SMTT(30)
      <3>3. /\ ISA!Loaded(c.gregs, "x", i) = c.gregs
            /\ ISA!Loaded(c.fregs, "f", i) = Set(c.fregs, i.reg, Value(i))
        BY <2>3, <2>6, LoadedCases, Zenon
      <3> QED
        BY <3>2, <3>3, Zenon DEF Executed
    <2> QED
      BY <1>1, <2>5, <2>6, Zenon
  <1>4. CASE i.row.form \in {"S", "CS", "CSS"}
    <2>1. todo.op # "load"
      <3>1. todo = Store(Source(c, i), i.row.width)
        BY <1>4, Zenon DEF Obeys
      <3>2. Store(Source(c, i), i.row.width).op = "store"
        BY Zenon DEF Store
      <3> QED
        BY <3>1, <3>2, Zenon
    <2>2. Perform(c, todo, i.addr, n) =
            [gregs |-> [c.gregs EXCEPT ![REG_PC] = Advance(@, n)], fregs |-> c.fregs]
      BY <2>1, PerformCases
    <2>3. ~ Loads(i)
      BY <1>4, Zenon DEF Loads
    <2>4. /\ ISA!Loaded(c.gregs, "x", i) = c.gregs
          /\ ISA!Loaded(c.fregs, "f", i) = c.fregs
      BY <2>3, LoadedCases, Zenon
    <2> QED
      BY <2>2, <2>4, Zenon DEF Executed
  <1> QED
    BY <1>1, <1>2, <1>3, <1>4, Zenon

\* What the handler is about to do, for an instruction it knows.
LEMMA TodoAccess ==
  ASSUME NEW c, NEW i \in InstructionType, NEW todo, Obeys(todo, c, i), i.row.form # "AMO"
  PROVE  /\ todo.op = "store" <=> Stores(i)
         /\ todo.op # "exit"
         /\ Stores(i) => todo.bytes = SubSeq(Source(c, i), 1, i.row.width)
         /\ \/ todo.width = i.row.width
            \/ todo.width = 0 /\ Loads(i) /\ i.row.file = "x" /\ i.reg = 0
  <1>1. i.row.form \in {"I", "S", "CL", "CS", "CI", "CSS"}
    BY InstructionTypes, RowTypes, Zenon
  <1>2. CASE i.row.form \in {"I", "CL", "CI"}
    <2>1. ~ Stores(i) /\ Loads(i)
      BY <1>2, Zenon DEF Stores, Loads
    <2>2. CASE i.row.file = "x" /\ i.reg = 0
      <3>1. todo = Skip
        BY <1>2, <2>2, Zenon DEF Obeys
      <3>2. Skip.op = "skip" /\ Skip.width = 0
        BY Zenon DEF Skip
      <3> QED
        BY <2>1, <2>2, <3>1, <3>2, Zenon
    <2>3. CASE ~ (i.row.file = "x" /\ i.reg = 0)
      <3>1. PICK fill : todo = Load(File(i.row), i.reg, i.row.width, fill)
        BY <1>2, <2>3, Zenon DEF Obeys
      <3>2. todo.op = "load" /\ todo.width = i.row.width
        BY <3>1, Zenon DEF Load
      <3> QED
        BY <2>1, <3>2, Zenon
    <2> QED
      BY <2>2, <2>3, Zenon
  <1>3. CASE i.row.form \in {"S", "CS", "CSS"}
    <2>1. Stores(i)
      BY <1>3, Zenon DEF Stores
    <2>2. todo = Store(Source(c, i), i.row.width)
      BY <1>3, Zenon DEF Obeys
    <2>3. /\ todo.op = "store" /\ todo.width = i.row.width
          /\ todo.bytes = SubSeq(Source(c, i), 1, i.row.width)
      BY <2>2, Zenon DEF Store
    <2> QED
      BY <2>1, <2>3, Zenon
  <1> QED
    BY <1>1, <1>2, <1>3, Zenon

-----------------------------------------------------------------------------
(***************************************************************************)
(* The step of LoadStore that an executed instruction is.                  *)
(***************************************************************************)
Zeros == [k \in 1 .. 8 |-> 0]

\* the integer registers, without the program counter in the place of x0
X(c) == [c.gregs EXCEPT ![REG_PC] = Zeros]

\* Registers of the abstract specification.
LEMMA Mapped ==
  ASSUME NEW t \in Threads
  PROVE  /\ [u \in Threads |-> [ctx[u].gregs EXCEPT ![REG_PC] = [k \in 1 .. 8 |-> 0]]][t]
              = X(ctx[t])
         /\ [u \in Threads |-> ctx[u].fregs][t] = ctx[t].fregs
         /\ [u \in Threads |-> ctx[u].gregs[REG_PC]][t] = ctx[t].gregs[REG_PC]
  BY Zenon DEF X, Zeros

\* The program counter is no register of the program.
LEMMA LoadedX ==
  ASSUME NEW c \in ContextType, NEW i \in InstructionType
  PROVE  X(Executed(c, i)) = ISA!Loaded(X(c), "x", i)
  <1> DEFINE g == c.gregs
             h == ISA!Loaded(g, "x", i)
             pc == Advance(h[REG_PC], Length(i))
  <1>1. g \in [Registers -> Words64]
    BY ContextParts, Zenon
  <1>2. X(Executed(c, i)) = [[h EXCEPT ![REG_PC] = pc] EXCEPT ![REG_PC] = Zeros]
    BY Zenon DEF X, Executed
  <1>3. X(c) = [g EXCEPT ![REG_PC] = Zeros]
    BY Zenon DEF X
  <1> HIDE DEF g, pc
  <1>4. CASE Loads(i) /\ i.row.file = "x" /\ i.reg # 0
    <2>1. h = Set(g, i.reg, Value(i))
      BY <1>4, LoadedCases, Zenon
    <2>2. ISA!Loaded(X(c), "x", i) = Set(X(c), i.reg, Value(i))
      BY <1>4, LoadedCases, Zenon
    <2>3. i.reg # REG_PC
      BY <1>4, Zenon DEF REG_PC
    <2>4. /\ Set(g, i.reg, Value(i)) = [g EXCEPT ![i.reg] = Value(i)]
          /\ Set(X(c), i.reg, Value(i)) = [X(c) EXCEPT ![i.reg] = Value(i)]
      BY Zenon DEF Set
    <2> HIDE DEF h
    <2>5. [[[g EXCEPT ![i.reg] = Value(i)] EXCEPT ![REG_PC] = pc] EXCEPT ![REG_PC] = Zeros]
            = [[g EXCEPT ![REG_PC] = Zeros] EXCEPT ![i.reg] = Value(i)]
      BY <1>1, <2>3, Zenon
    <2> QED
      BY <1>2, <1>3, <2>1, <2>2, <2>4, <2>5, Zenon
  <1>5. CASE ~ (Loads(i) /\ i.row.file = "x" /\ i.reg # 0)
    <2>1. h = g
      BY <1>5, LoadedCases, Zenon
    <2>2. ISA!Loaded(X(c), "x", i) = X(c)
      BY <1>5, LoadedCases, Zenon
    <2> HIDE DEF h
    <2> QED
      BY <1>1, <1>2, <1>3, <2>1, <2>2, Zenon
  <1> QED
    BY <1>4, <1>5, Zenon

\* What an instruction stores: bytes of the register that it names.
LEMMA OperandType ==
  ASSUME ctx \in [Threads -> ContextType], NEW t \in Threads, NEW i \in InstructionType
  PROVE  IsBytes(ISA!Operand(t, i), i.row.width)
  <1> DEFINE r == IF i.row.form = "AMO" THEN 7 ELSE i.reg
             w == IF i.row.file = "x" THEN X(ctx[t])[r] ELSE ctx[t].fregs[r]
  <1>1. ISA!Operand(t, i) = SubSeq(w, 1, i.row.width)
    <2> DEFINE x == [u \in Threads |-> [ctx[u].gregs EXCEPT ![REG_PC] = [k \in 1 .. 8 |-> 0]]]
               f == [u \in Threads |-> ctx[u].fregs]
    <2>1. ISA!Operand(t, i) =
            SubSeq(IF i.row.file = "x" THEN x[t][r] ELSE f[t][r], 1, i.row.width)
      BY Zenon DEF ISA!Operand
    <2>2. x[t] = X(ctx[t]) /\ f[t] = ctx[t].fregs
      BY Mapped, Zenon
    <2> HIDE DEF x, f
    <2> QED
      BY <2>1, <2>2, Zenon
  <1>2. r \in Registers
    BY InstructionTypes DEF Registers
  <1>3. X(ctx[t]) \in [Registers -> Words64] /\ ctx[t].fregs \in [Registers -> Words64]
    BY ContextParts, ZeroType, Zenon DEF X, Zeros
  <1> HIDE DEF r
  <1>4. w \in Words64
    BY <1>2, <1>3, Zenon
  <1>5. i.row.width \in Widths
    BY InstructionTypes, RowTypes, Zenon
  <1> HIDE DEF w
  <1> QED
    BY <1>1, <1>4, <1>5, LowBytes, Zenon

\* It is what the handler finds in the context.
LEMMA OperandSource ==
  ASSUME ctx \in [Threads -> ContextType], NEW t \in Threads, NEW i \in InstructionType,
         i.row.form # "AMO"
  PROVE  ISA!Operand(t, i) = SubSeq(Source(ctx[t], i), 1, i.row.width)
  <1> DEFINE w == IF i.row.file = "x" THEN X(ctx[t])[i.reg] ELSE ctx[t].fregs[i.reg]
  <1>1. ISA!Operand(t, i) = SubSeq(w, 1, i.row.width)
    <2> DEFINE r == IF i.row.form = "AMO" THEN 7 ELSE i.reg
               x == [u \in Threads |-> [ctx[u].gregs EXCEPT ![REG_PC] = [k \in 1 .. 8 |-> 0]]]
               f == [u \in Threads |-> ctx[u].fregs]
    <2>1. ISA!Operand(t, i) =
            SubSeq(IF i.row.file = "x" THEN x[t][r] ELSE f[t][r], 1, i.row.width)
      BY Zenon DEF ISA!Operand
    <2>2. x[t] = X(ctx[t]) /\ f[t] = ctx[t].fregs
      BY Mapped, Zenon
    <2>3. r = i.reg
      BY Zenon
    <2> HIDE DEF x, f, r
    <2> QED
      BY <2>1, <2>2, <2>3, Zenon
  <1>2. i.row.file \in {"x", "f"} /\ i.reg \in Registers
    BY InstructionTypes, RowTypes, Zenon
  <1>3. ctx[t].gregs \in [Registers -> Words64]
    BY ContextParts, Zenon
  <1>4. X(ctx[t])[i.reg] = IF i.reg = 0 THEN Word(0) ELSE ctx[t].gregs[i.reg]
    BY <1>2, <1>3, ZeroType, Zenon DEF X, Zeros, REG_PC
  <1>5. w = Source(ctx[t], i)
    BY <1>2, <1>4, Zenon DEF Source
  <1> HIDE DEF w
  <1> QED
    BY <1>1, <1>5, Zenon

\* The program counter moves past the instruction.
LEMMA ExecutedPc ==
  ASSUME NEW c \in ContextType, NEW i \in InstructionType
  PROVE  Executed(c, i).gregs[REG_PC] = Advance(c.gregs[REG_PC], Length(i))
  <1> DEFINE g == c.gregs
             h == ISA!Loaded(g, "x", i)
  <1>1. g \in [Registers -> Words64] /\ REG_PC \in Registers
    BY ContextParts DEF REG_PC, Registers
  <1>2. Executed(c, i).gregs = [h EXCEPT ![REG_PC] = Advance(h[REG_PC], Length(i))]
    BY Zenon DEF Executed
  <1> HIDE DEF g
  <1>3. DOMAIN h = Registers /\ h[REG_PC] = g[REG_PC]
    <2>1. CASE Loads(i) /\ i.row.file = "x" /\ i.reg # 0
      <3>1. h = Set(g, i.reg, Value(i)) /\ i.reg # REG_PC
        BY <2>1, LoadedCases, Zenon DEF REG_PC
      <3> HIDE DEF h
      <3> QED
        BY <1>1, <3>1, Zenon DEF Set
    <2>2. CASE ~ (Loads(i) /\ i.row.file = "x" /\ i.reg # 0)
      <3>1. h = g
        BY <2>2, LoadedCases, Zenon
      <3> HIDE DEF h
      <3> QED
        BY <1>1, <3>1, Zenon
    <2> QED
      BY <2>1, <2>2, Zenon
  <1> HIDE DEF h
  <1>4. Executed(c, i).gregs[REG_PC] = Advance(h[REG_PC], Length(i))
    BY <1>1, <1>2, <1>3, Zenon
  <1>5. g[REG_PC] = c.gregs[REG_PC]
    BY Zenon DEF g
  <1> QED
    BY <1>3, <1>4, <1>5, Zenon

\* A permitted access lies in the memory of the process.
LEMMA PermittedWithin ==
  ASSUME NEW a, NEW n, NEW w, ISA!Permitted(a, n, w)
  PROVE  Within(a, n, Data)
  BY Zenon DEF ISA!Permitted, Within

\* A step that executes the instruction of a thread, in the memory where the program
\* meant the access to be, is a step of LoadStore.
LEMMA Executes ==
  ASSUME ctx \in [Threads -> ContextType], mem \in [Data -> Bytes],
         NEW t \in Threads, NEW i \in InstructionType, i = instr[t], i # NoInstr,
         process = "running", process' = process,
         ISA!Permitted(i.addr, i.row.width, Stores(i)),
         ctx' = [ctx EXCEPT ![t] = Executed(ctx[t], i)],
         mem' = IF Stores(i) THEN Write(mem, i.addr, ISA!Operand(t, i)) ELSE mem,
         instr' = [instr EXCEPT ![t] = NoInstr]
  PROVE  /\ ISA!Execute(t)
         /\ ctx' \in [Threads -> ContextType]
         /\ mem' \in [Data -> Bytes]
  <1> DEFINE x == [u \in Threads |-> [ctx[u].gregs EXCEPT ![REG_PC] = [k \in 1 .. 8 |-> 0]]]
             f == [u \in Threads |-> ctx[u].fregs]
             pc == [u \in Threads |-> ctx[u].gregs[REG_PC]]
             c == ctx[t]
             e == Executed(c, i)
  <1>1. c \in ContextType
    BY Zenon
  <1>2. i.row.width \in Widths /\ i.addr \in Nat
    BY InstructionTypes, RowTypes, Zenon
  <1>3. Within(i.addr, i.row.width, Data)
    BY PermittedWithin, Zenon
  <1>4. e \in ContextType
    BY <1>1, <1>2, <1>3, ExecutedType, Zenon
  <1>5. ctx' \in [Threads -> ContextType]
    <2> HIDE DEF e
    <2>1. ctx' = [ctx EXCEPT ![t] = e]
      BY Zenon DEF e
    <2> QED
      BY <1>4, <2>1, Zenon
  <1>6. mem' \in [Data -> Bytes]
    <2>1. IsBytes(ISA!Operand(t, i), i.row.width)
      BY OperandType, Zenon
    <2>2. Write(mem, i.addr, ISA!Operand(t, i)) \in [Data -> Bytes]
      BY <1>2, <1>3, <2>1, WriteType, Zenon
    <2> QED
      BY <2>2, Zenon
  <1>7. \A u \in Threads : ctx'[u] = IF u = t THEN e ELSE ctx[u]
    <2> HIDE DEF e
    <2>1. ctx' = [ctx EXCEPT ![t] = e]
      BY Zenon DEF e
    <2> QED
      BY <2>1, Zenon
  <1>8. x' = [x EXCEPT ![t] = ISA!Loaded(@, "x", i)]
    <2>1. x' = [u \in Threads |-> X(ctx'[u])]
      BY Zenon DEF X, Zeros, REG_PC
    <2>2. X(e) = ISA!Loaded(X(c), "x", i)
      BY <1>1, LoadedX, Zenon
    <2>3. x = [u \in Threads |-> X(ctx[u])]
      BY Zenon DEF X, Zeros
    <2> HIDE DEF x, e
    <2>4. x[t] = X(c)
      BY <2>3, Zenon
    <2>5. x' = [x EXCEPT ![t] = X(e)]
      BY <1>7, <2>1, <2>3, Zenon
    <2> QED
      BY <2>2, <2>4, <2>5, Zenon
  <1>9. f' = [f EXCEPT ![t] = ISA!Loaded(@, "f", i)]
    <2>1. e.fregs = ISA!Loaded(c.fregs, "f", i)
      BY Zenon DEF Executed
    <2> HIDE DEF e
    <2>2. f[t] = c.fregs
      BY Zenon
    <2>3. f' = [f EXCEPT ![t] = e.fregs]
      BY <1>7, Zenon
    <2> HIDE DEF f
    <2> QED
      BY <2>1, <2>2, <2>3, Zenon
  <1>10. pc' = [pc EXCEPT ![t] = Advance(@, Length(i))]
    <2>1. e.gregs[REG_PC] = Advance(c.gregs[REG_PC], Length(i))
      BY <1>1, ExecutedPc, Zenon
    <2> HIDE DEF e
    <2>2. pc[t] = c.gregs[REG_PC]
      BY Zenon
    <2>3. pc' = [pc EXCEPT ![t] = e.gregs[REG_PC]]
      BY <1>7, Zenon DEF REG_PC
    <2> HIDE DEF pc
    <2> QED
      BY <2>1, <2>2, <2>3, Zenon
  <1>11. ISA!Execute(t)
    <2>1. /\ ISA!Stores(i) = Stores(i)
          /\ ISA!Length(i) = Length(i)
          /\ ISA!NoInstr = NoInstr
      BY SameOperators, Zenon
    <2>2. /\ ISA!Write(mem, i.addr, ISA!Operand(t, i)) = Write(mem, i.addr, ISA!Operand(t, i))
          /\ \A w : ISA!Advance(w, Length(i)) = Advance(w, Length(i))
      BY SameOperators, Zenon
    <2>3. /\ process = "running" /\ instr[t] # ISA!NoInstr
          /\ ISA!Permitted(instr[t].addr, instr[t].row.width, ISA!Stores(instr[t]))
      BY <2>1, Zenon
    <2>4. mem' = IF ISA!Stores(instr[t])
                 THEN ISA!Write(mem, instr[t].addr, ISA!Operand(t, instr[t])) ELSE mem
      BY <2>1, <2>2, Zenon
    <2>5. instr' = [instr EXCEPT ![t] = ISA!NoInstr] /\ UNCHANGED process
      BY <2>1, Zenon
    <2>6. x' = [x EXCEPT ![t] = ISA!Loaded(@, "x", instr[t])]
      BY <1>8, Zenon
    <2>7. f' = [f EXCEPT ![t] = ISA!Loaded(@, "f", instr[t])]
      BY <1>9, Zenon
    <2>8. pc' = [pc EXCEPT ![t] = ISA!Advance(@, ISA!Length(instr[t]))]
      <3> HIDE DEF pc
      <3> QED
        BY <1>10, <2>1, <2>2, Zenon
    <2> QED
      BY <2>3, <2>4, <2>5, <2>6, <2>7, <2>8, Zenon DEF ISA!Execute
  <1> QED
    BY <1>5, <1>6, <1>11, Zenon

-----------------------------------------------------------------------------
(***************************************************************************)
(* The inductive invariant.  What the handler was called for: an access    *)
(* computed from gp, at the address where it faulted, or an access that    *)
(* faults wherever gp points.  SIG_DFL is in place only while a thread is  *)
(* about to be killed for an access of the second kind.                    *)
(***************************************************************************)
Illegal(i) == ~ ISA!Permitted(i.addr, i.row.width, Stores(i))

Caused(i, addr) == \/ i.gp /\ addr = Address(i)
                   \/ addr = i.addr /\ Illegal(i)

Pending ==
  /\ \A t \in Threads : /\ at[t] # "program" => instr[t] # NoInstr
                        /\ at[t] = "segfault_handler" => Caused(instr[t], si_addr[t])
                        /\ at[t] = "raise" => Illegal(instr[t])
  /\ action = "SIG_DFL" => \E t \in Threads : at[t] = "raise"

IInv == TypeOK /\ Pending

\* An instruction that has been fetched is one of the program's.
LEMMA Fetched ==
  ASSUME TypeOK, NEW t \in Threads, instr[t] # NoInstr
  PROVE  instr[t] \in Instructions[t] /\ instr[t] \in InstructionType
  BY InstructionsAssumption, Zenon DEF TypeOK

\* An address computed from gp lies in the execute-only pages, where no access is
\* permitted, and the handler finds the data it was meant for.
LEMMA GpAddress ==
  ASSUME NEW t \in Threads, NEW i \in Instructions[t], i.gp, NEW w
  PROVE  /\ Address(i) \in Nat
         /\ InXom(Address(i)) /\ ~ InXom(i.addr)
         /\ rsi.start_addr_page + (Address(i) - rsi.ret_sequence_page_addr) = i.addr
         /\ ~ ISA!Permitted(Address(i), i.row.width, w)
  <1> DEFINE r == rsi.ret_sequence_page_addr
             n == rsi.protection_size
             s == rsi.start_addr_page
             a == i.addr
             d == i.row.width
  <1>1. r \in Nat /\ n \in Nat /\ s \in Nat
    BY RsiAssumption, Zenon
  <1>2. i \in InstructionType
    BY InstructionsAssumption, Zenon
  <1>3. a \in Nat /\ d \in Widths
    BY <1>2, InstructionTypes, RowTypes, Zenon
  <1>4. d >= 1 /\ d \in Nat
    BY <1>3 DEF Widths
  <1>5. a \in s .. s + n - 1
    BY InstructionsAssumption, Zenon DEF OriginalPages
  <1>6. Address(i) = a - s + r
    BY Zenon DEF Address
  <1>7. XomPages = r .. r + n - 1 /\ OriginalPages = s .. s + n - 1
    BY Zenon DEF XomPages, OriginalPages
  <1>8. \A b : InXom(b) <=> ~ (b < r \/ b > r + n - 1)
    BY Zenon DEF InXom
  <1> HIDE DEF r, n, s, a, d
  <1>9. Address(i) \in r .. r + n - 1 /\ Address(i) \in Nat
    BY <1>1, <1>3, <1>5, <1>6
  <1>10. a \notin r .. r + n - 1
    BY <1>5, <1>7, RsiAssumption, Zenon
  <1>11. s + (Address(i) - r) = a
    BY <1>1, <1>3, <1>6
  <1>12. Address(i) \in Address(i) .. Address(i) + d - 1 /\ Address(i) \notin Data
    BY <1>4, <1>7, <1>9, RsiAssumption
  <1>13. ~ ISA!Permitted(Address(i), d, w)
    BY <1>12, Zenon DEF ISA!Permitted
  <1>14. InXom(Address(i)) /\ ~ InXom(a)
    BY <1>1, <1>3, <1>8, <1>9, <1>10
  <1> QED
    BY <1>9, <1>11, <1>13, <1>14, Zenon DEF r, s, a, d

\* Any other address is the one that the program means.
LEMMA OtherAddress ==
  ASSUME NEW t \in Threads, NEW i \in Instructions[t], ~ i.gp
  PROVE  Address(i) = i.addr /\ i.addr \in Nat /\ ~ InXom(i.addr)
  <1>1. i.addr \in Nat
    BY InstructionsAssumption, InstructionTypes, Zenon
  <1>2. i.addr \notin XomPages
    BY InstructionsAssumption, Zenon
  <1>3. ~ InXom(i.addr)
    BY <1>1, <1>2, RsiAssumption DEF InXom, XomPages
  <1> QED
    BY <1>1, <1>3, Zenon DEF Address

\* LoadStore does not see a step that leaves the program as it is.
LEMMA Stutters ==
  ASSUME UNCHANGED <<ctx, instr, mem, process>>
  PROVE  UNCHANGED ISA!vars
  BY Zenon DEF ISA!vars, REG_PC

\* A process that is killed for an access that the program may not make is killed
\* by LoadStore.
LEMMA Crashes ==
  ASSUME NEW t \in Threads, process = "running", instr[t] # NoInstr, Illegal(instr[t]),
         process' = "killed", UNCHANGED <<ctx, instr, mem>>
  PROVE  ISA!Crash(t)
  BY SameOperators, Zenon DEF Illegal, ISA!Crash, REG_PC

-----------------------------------------------------------------------------
(***************************************************************************)
(* Every step keeps the invariant, and is a step of LoadStore or none.     *)
(***************************************************************************)
Kept == IInv' /\ [ISA!Next]_(ISA!vars)

\* A step in which a thread does no more than change its place in the code.
LEMMA Moves ==
  ASSUME IInv, NEW t \in Threads, at[t] # "raise" \/ action # "SIG_DFL",
         NEW w \in {"program", "segfault_handler", "program's handler"},
         at' = [at EXCEPT ![t] = w], si_addr' \in [Threads -> Nat],
         \A u \in Threads : u # t => si_addr'[u] = si_addr[u],
         w # "program" => instr[t] # NoInstr,
         w = "segfault_handler" => Caused(instr[t], si_addr'[t]),
         UNCHANGED <<ctx, instr, mem, action, process>>
  PROVE  Kept
  <1>1. TypeOK'
    BY Zenon DEF IInv, TypeOK
  <1>2. \A u \in Threads : at'[u] = IF u = t THEN w ELSE at[u]
    BY Zenon DEF IInv, TypeOK
  <1>3. \A u \in Threads : at'[u] # "program" => instr'[u] # NoInstr
    BY <1>2, Zenon DEF IInv, Pending
  <1>4. \A u \in Threads : at'[u] = "segfault_handler" => Caused(instr'[u], si_addr'[u])
    <2> SUFFICES ASSUME NEW u \in Threads, at'[u] = "segfault_handler"
                 PROVE  Caused(instr[u], si_addr'[u])
      BY Zenon
    <2>1. CASE u = t
      BY <1>2, <2>1, Zenon
    <2>2. CASE u # t
      <3>1. Caused(instr[u], si_addr[u])
        BY <1>2, <2>2, Zenon DEF IInv, Pending
      <3> QED
        BY <2>2, <3>1, Zenon
    <2> QED
      BY <2>1, <2>2, Zenon
  <1>5. \A u \in Threads : at'[u] = "raise" => Illegal(instr'[u])
    BY <1>2, Zenon DEF IInv, Pending
  <1>6. action' = "SIG_DFL" => \E u \in Threads : at'[u] = "raise"
    BY <1>2, Zenon DEF IInv, Pending
  <1>7. Pending'
    BY <1>3, <1>4, <1>5, <1>6, Zenon DEF Pending
  <1>8. UNCHANGED ISA!vars
    BY Stutters, Zenon
  <1> QED
    BY <1>1, <1>7, <1>8, Zenon DEF Kept, IInv

\* The process is killed, for an access that is illegal.
LEMMA Kills ==
  ASSUME IInv, process = "running", action = "SIG_DFL",
         process' = "killed", si_addr' \in [Threads -> Nat],
         \A u \in Threads : at[u] = "segfault_handler" => Caused(instr[u], si_addr'[u]),
         UNCHANGED <<ctx, at, instr, mem, action>>
  PROVE  IInv' /\ ISA!Next
  <1>1. TypeOK'
    BY Zenon DEF IInv, TypeOK
  <1>2. Pending'
    BY Zenon DEF IInv, Pending
  <1>3. PICK t \in Threads : at[t] = "raise"
    BY Zenon DEF IInv, Pending
  <1>4. instr[t] # NoInstr /\ Illegal(instr[t])
    BY <1>3, Zenon DEF IInv, Pending
  <1>5. ISA!Crash(t)
    BY <1>4, Crashes, Zenon
  <1> QED
    BY <1>1, <1>2, <1>5, Zenon DEF IInv, ISA!Next

\* The kernel delivers SIGSEGV for an access that has a cause to fault.
LEMMA Delivers ==
  ASSUME IInv, process = "running", NEW t \in Threads, NEW addr \in Nat,
         at[t] # "raise", instr[t] # NoInstr, Caused(instr[t], addr), Deliver(t, addr),
         UNCHANGED <<ctx, instr, mem, action>>
  PROVE  Kept
  <1>1. /\ si_addr' = [si_addr EXCEPT ![t] = addr]
        /\ si_addr \in [Threads -> Nat]
    BY Zenon DEF Deliver, IInv, TypeOK
  <1>2. /\ si_addr' \in [Threads -> Nat]
        /\ si_addr'[t] = addr
        /\ \A u \in Threads : u # t => si_addr'[u] = si_addr[u]
    BY <1>1, Zenon
  <1>3. CASE action = "segfault_handler"
    <2>1. at' = [at EXCEPT ![t] = "segfault_handler"] /\ UNCHANGED process
      BY <1>3, Zenon DEF Deliver
    <2> QED
      BY <1>2, <2>1, Moves, Zenon
  <1>4. CASE action = "program's handler"
    <2>1. at' = [at EXCEPT ![t] = "program's handler"] /\ UNCHANGED process
      BY <1>4, Zenon DEF Deliver
    <2> QED
      BY <1>2, <2>1, Moves, Zenon
  <1>5. CASE action = "SIG_DFL"
    <2>1. process' = "killed" /\ UNCHANGED at
      BY <1>5, Zenon DEF Deliver
    <2>2. \A u \in Threads : at[u] = "segfault_handler" => Caused(instr[u], si_addr'[u])
      <3> SUFFICES ASSUME NEW u \in Threads, at[u] = "segfault_handler"
                   PROVE  Caused(instr[u], si_addr'[u])
        BY Zenon
      <3>1. CASE u = t
        BY <1>2, <3>1, Zenon
      <3>2. CASE u # t
        <4>1. Caused(instr[u], si_addr[u])
          BY Zenon DEF IInv, Pending
        <4> QED
          BY <1>2, <3>2, <4>1, Zenon
      <3> QED
        BY <3>1, <3>2, Zenon
    <2>3. IInv' /\ ISA!Next
      BY <1>2, <1>5, <2>1, <2>2, Kills, Zenon
    <2> QED
      BY <2>3, Zenon DEF Kept
  <1> QED
    BY <1>3, <1>4, <1>5, Zenon DEF IInv, TypeOK

\* The registers, the memory and the instruction change as when thread t executes
\* its instruction.
LEMMA Completes ==
  ASSUME IInv, process = "running", NEW t \in Threads, at[t] # "raise",
         NEW i, i = instr[t], i # NoInstr,
         ISA!Permitted(i.addr, i.row.width, Stores(i)),
         ctx' = [ctx EXCEPT ![t] = Executed(ctx[t], i)],
         mem' = IF Stores(i) THEN Write(mem, i.addr, ISA!Operand(t, i)) ELSE mem,
         instr' = [instr EXCEPT ![t] = NoInstr],
         at' = [at EXCEPT ![t] = "program"],
         UNCHANGED <<si_addr, action, process>>
  PROVE  Kept
  <1>1. i \in InstructionType
    BY Fetched, Zenon DEF IInv
  <1>2. ctx \in [Threads -> ContextType] /\ mem \in [Data -> Bytes]
    BY Zenon DEF IInv, TypeOK
  <1>3. /\ ISA!Execute(t)
        /\ ctx' \in [Threads -> ContextType]
        /\ mem' \in [Data -> Bytes]
    BY <1>1, <1>2, Executes, ZenonT(40)
  <1>4. \A u \in Threads : /\ at'[u] = IF u = t THEN "program" ELSE at[u]
                           /\ instr'[u] = IF u = t THEN NoInstr ELSE instr[u]
    BY Zenon DEF IInv, TypeOK
  <1>5. TypeOK'
    <2>1. DOMAIN instr' = Threads
      BY Zenon DEF IInv, TypeOK
    <2>2. \A u \in Threads : instr'[u] \in Instructions[u] \cup {NoInstr}
      BY <1>4, Zenon DEF IInv, TypeOK
    <2>3. at' \in [Threads -> {"program", "segfault_handler", "raise", "program's handler"}]
      BY ZenonT(40) DEF IInv, TypeOK
    <2> QED
      BY <1>3, <2>1, <2>2, <2>3, Zenon DEF IInv, TypeOK
  <1>6. Pending'
    <2>1. \A u \in Threads : at'[u] # "program" => u # t /\ at'[u] = at[u] /\ instr'[u] = instr[u]
      BY <1>4, Zenon
    <2>2. \A u \in Threads : at[u] = "raise" => at'[u] = "raise"
      BY <1>4, Zenon
    <2> QED
      BY <2>1, <2>2, Zenon DEF IInv, Pending
  <1>7. ISA!Next
    BY <1>3, Zenon DEF ISA!Next
  <1> QED
    BY <1>5, <1>6, <1>7, Zenon DEF IInv, Kept

\* A thread fetches its next instruction.
LEMMA FetchKept ==
  ASSUME IInv, NEW t \in Threads, Fetch(t)
  PROVE  Kept
  <1>1. PICK i \in Instructions[t] : instr' = [instr EXCEPT ![t] = i]
    BY Zenon DEF Fetch
  <1>2. /\ process = "running" /\ at[t] = "program" /\ instr[t] = NoInstr
        /\ ctx[t].gregs[REG_PC][1] < MaxPc
        /\ UNCHANGED <<ctx, at, si_addr, mem, action, process>>
    BY Zenon DEF Fetch
  <1>3. \A u \in Threads : instr'[u] = IF u = t THEN i ELSE instr[u]
    BY <1>1, Zenon DEF IInv, TypeOK
  <1>4. TypeOK'
    <2>1. DOMAIN instr' = Threads
      BY <1>1, Zenon DEF IInv, TypeOK
    <2>2. \A u \in Threads : instr'[u] \in Instructions[u] \cup {NoInstr}
      BY <1>3, ZenonT(40) DEF IInv, TypeOK
    <2> QED
      BY <1>2, <2>1, <2>2, Zenon DEF IInv, TypeOK
  <1>5. Pending'
    <2>1. \A u \in Threads : at[u] # "program" => instr'[u] = instr[u]
      BY <1>2, <1>3, Zenon
    <2> QED
      BY <1>2, <2>1, Zenon DEF IInv, Pending
  <1>6. ISA!Fetch(t)
    <2>1. instr[t] = ISA!NoInstr
      BY <1>2, SameOperators, Zenon
    <2>2. [u \in Threads |-> ctx[u].gregs[REG_PC]][t] = ctx[t].gregs[REG_PC]
      BY Zenon
    <2> QED
      BY <1>1, <1>2, <2>1, <2>2, Zenon DEF ISA!Fetch, REG_PC
  <1>7. ISA!Next
    BY <1>6, Zenon DEF ISA!Next
  <1> QED
    BY <1>4, <1>5, <1>7, Zenon DEF IInv, Kept

\* An access that the page tables permit.
LEMMA AccessKept ==
  ASSUME IInv, NEW t \in Threads, Access(t)
  PROVE  Kept
  <1> DEFINE i == instr[t]
  <1>1. /\ process = "running" /\ at[t] = "program" /\ i # NoInstr
        /\ ISA!Permitted(Address(i), i.row.width, Stores(i))
        /\ ctx' = [ctx EXCEPT ![t] = Executed(ctx[t], i)]
        /\ mem' = IF Stores(i) THEN Write(mem, i.addr, ISA!Operand(t, i)) ELSE mem
        /\ instr' = [instr EXCEPT ![t] = NoInstr]
        /\ UNCHANGED <<at, si_addr, action, process>>
    BY Zenon DEF Access
  <1>2. i \in Instructions[t]
    BY <1>1, Fetched, Zenon DEF IInv
  <1>3. ~ i.gp
    BY <1>1, <1>2, GpAddress, Zenon
  <1>4. Address(i) = i.addr
    BY <1>2, <1>3, OtherAddress, Zenon
  <1>5. at' = [at EXCEPT ![t] = "program"]
    BY <1>1, Zenon DEF IInv, TypeOK
  <1> QED
    BY <1>1, <1>4, <1>5, Completes, ZenonT(40)

\* An access that they do not.
LEMMA FaultKept ==
  ASSUME IInv, NEW t \in Threads, Fault(t)
  PROVE  Kept
  <1> DEFINE i == instr[t]
  <1>1. /\ process = "running" /\ at[t] = "program" /\ i # NoInstr
        /\ ~ ISA!Permitted(Address(i), i.row.width, Stores(i))
        /\ Deliver(t, Address(i))
        /\ UNCHANGED <<ctx, instr, mem, action>>
    BY Zenon DEF Fault
  <1>2. i \in Instructions[t]
    BY <1>1, Fetched, Zenon DEF IInv
  <1>3. Address(i) \in Nat /\ Caused(i, Address(i))
    <2>1. CASE i.gp
      BY <1>2, <2>1, GpAddress, Zenon DEF Caused
    <2>2. CASE ~ i.gp
      <3>1. Address(i) = i.addr /\ i.addr \in Nat
        BY <1>2, <2>2, OtherAddress, Zenon
      <3>2. Illegal(i)
        BY <1>1, <3>1, Zenon DEF Illegal
      <3> QED
        BY <3>1, <3>2, Zenon DEF Caused
    <2> QED
      BY <2>1, <2>2, Zenon
  <1> QED
    BY <1>1, <1>3, Delivers, Zenon

\* Why segfault_handler runs: at an address of the execute-only pages, for an access
\* that was computed from gp; elsewhere, for an access that is illegal.
LEMMA Handling ==
  ASSUME IInv, NEW t \in Threads, at[t] = "segfault_handler"
  PROVE  /\ instr[t] # NoInstr /\ instr[t] \in Instructions[t] /\ instr[t] \in InstructionType
         /\ InXom(si_addr[t]) =>
              /\ instr[t].gp
              /\ rsi.start_addr_page + (si_addr[t] - rsi.ret_sequence_page_addr) = instr[t].addr
         /\ ~ InXom(si_addr[t]) => Illegal(instr[t])
  <1> DEFINE i == instr[t]
  <1>1. i # NoInstr /\ Caused(i, si_addr[t])
    BY Zenon DEF IInv, Pending
  <1>2. i \in Instructions[t] /\ i \in InstructionType
    BY <1>1, Fetched, Zenon DEF IInv
  <1> HIDE DEF i
  <1>3. CASE i.gp /\ si_addr[t] = Address(i)
    <2>1. /\ InXom(Address(i))
          /\ rsi.start_addr_page + (Address(i) - rsi.ret_sequence_page_addr) = i.addr
      BY <1>2, <1>3, GpAddress, ZenonT(40)
    <2> QED
      BY <1>1, <1>2, <1>3, <2>1, Zenon DEF i
  <1>4. CASE si_addr[t] = i.addr /\ Illegal(i)
    <2>1. ~ InXom(i.addr)
      BY <1>2, GpAddress, OtherAddress, Zenon
    <2> QED
      BY <1>1, <1>2, <1>4, <2>1, Zenon DEF i
  <1> QED
    BY <1>1, <1>3, <1>4, Zenon DEF Caused

\* The handler performs the access on the original page.
LEMMA RedirectKept ==
  ASSUME IInv, process = "running", NEW t \in Threads, at[t] = "segfault_handler",
         InXom(si_addr[t]), Redirect(t, instr[t].addr)
  PROVE  Kept
  <1> DEFINE i == instr[t]
             c == ctx[t]
             todo == emulate(c, Encode(i))
             step == IF is_32bit(Encode(i)) THEN 4 ELSE 2
  <1>1. /\ ISA!Permitted(i.addr, todo.width, todo.op = "store")
        /\ todo.op # "exit"
        /\ ctx' = [ctx EXCEPT ![t] = Perform(c, todo, i.addr, step)]
        /\ mem' = IF todo.op = "store" THEN Write(mem, i.addr, todo.bytes) ELSE mem
        /\ at' = [at EXCEPT ![t] = "program"]
        /\ instr' = [instr EXCEPT ![t] = NoInstr]
        /\ UNCHANGED <<si_addr, action, process>>
    BY Zenon DEF Redirect
  <1>2. i # NoInstr /\ i \in Instructions[t] /\ i \in InstructionType /\ i.gp
    BY Handling, Zenon
  <1>3. Obeys(todo, c, i) /\ (i.row.form # "AMO" => step = Length(i))
    BY <1>2, Decoded, Zenon
  <1>4. ctx \in [Threads -> ContextType] /\ mem \in [Data -> Bytes]
    BY ZenonT(40) DEF IInv, TypeOK
  <1> HIDE DEF i, todo, step
  <1>5. i.row.form # "AMO"
    <2> SUFFICES ASSUME i.row.form = "AMO" PROVE FALSE
      BY Zenon
    <2>1. todo = GiveUp
      BY <1>3, Zenon DEF Obeys
    <2> QED
      BY <1>1, <2>1, Zenon DEF GiveUp
  <1>6. /\ todo.op = "store" <=> Stores(i)
        /\ Stores(i) => todo.bytes = SubSeq(Source(c, i), 1, i.row.width)
        /\ \/ todo.width = i.row.width
           \/ todo.width = 0 /\ Loads(i) /\ i.row.file = "x" /\ i.reg = 0
    <2> HIDE DEF c
    <2> QED
      BY <1>2, <1>3, <1>5, TodoAccess, ZenonT(40)
  <1>7. ISA!Permitted(i.addr, i.row.width, Stores(i))
    <2>1. CASE todo.width = i.row.width
      <3>1. (todo.op = "store") = Stores(i)
        BY <1>6 DEF Stores
      <3> QED
        BY <1>1, <2>1, <3>1, Zenon
    <2>2. CASE Loads(i) /\ i.row.file = "x" /\ i.reg = 0
      <3>1. i.addr .. i.addr + i.row.width - 1 \subseteq Data
        BY <1>2, <2>2, InstructionsAssumption, Zenon
      <3>2. ~ Stores(i)
        BY <1>5, <2>2, Zenon DEF Loads, Stores
      <3> QED
        BY <3>1, <3>2, Zenon DEF ISA!Permitted
    <2> QED
      BY <1>6, <2>1, <2>2, Zenon
  <1>8. Perform(c, todo, i.addr, step) = Executed(c, i)
    <2>1. Within(i.addr, i.row.width, Data)
      BY <1>7, PermittedWithin, Zenon
    <2>2. c \in ContextType
      BY <1>4, Zenon
    <2>3. Perform(c, todo, i.addr, Length(i)) = Executed(c, i)
      BY <1>2, <1>3, <1>4, <1>5, <2>1, <2>2, PerformExecutes, ZenonT(40)
    <2> QED
      BY <1>3, <1>5, <2>3, Zenon
  <1>9. Stores(i) => todo.bytes = ISA!Operand(t, i)
    BY <1>2, <1>4, <1>5, <1>6, OperandSource, ZenonT(40)
  <1>10. mem' = IF Stores(i) THEN Write(mem, i.addr, ISA!Operand(t, i)) ELSE mem
    BY <1>1, <1>6, <1>9, Zenon
  <1>11. ctx' = [ctx EXCEPT ![t] = Executed(ctx[t], i)]
    BY <1>1, <1>8, Zenon
  <1>12. i = instr[t]
    BY Zenon DEF i
  <1> QED
    BY <1>1, <1>2, <1>7, <1>10, <1>11, <1>12, Completes, ZenonT(40)

\* The access faults there too.
LEMMA FaultAgainKept ==
  ASSUME IInv, process = "running", NEW t \in Threads, at[t] = "segfault_handler",
         InXom(si_addr[t]), FaultAgain(t, instr[t].addr)
  PROVE  Kept
  <1> DEFINE i == instr[t]
             c == ctx[t]
             todo == emulate(c, Encode(i))
  <1>1. /\ ~ ISA!Permitted(i.addr, todo.width, todo.op = "store")
        /\ Deliver(t, i.addr)
        /\ UNCHANGED <<ctx, instr, mem, action>>
    BY Zenon DEF FaultAgain
  <1>2. i # NoInstr /\ i \in Instructions[t] /\ i \in InstructionType
    BY Handling, Zenon
  <1>3. Obeys(todo, c, i)
    BY <1>2, Decoded, Zenon
  <1> HIDE DEF i, c, todo
  <1>4. i.addr \in Nat
    BY <1>2, InstructionTypes, Zenon
  <1>5. todo.width # 0 \/ todo.op = "store"
    <2>1. i.addr .. i.addr + 0 - 1 = {}
      BY <1>4
    <2> QED
      BY <1>1, <2>1, Zenon DEF ISA!Permitted
  <1>6. i.row.form # "AMO"
    <2> SUFFICES ASSUME i.row.form = "AMO" PROVE FALSE
      BY Zenon
    <2>1. todo = GiveUp
      BY <1>3, Zenon DEF Obeys
    <2>2. GiveUp.op = "exit" /\ GiveUp.width = 0
      BY Zenon DEF GiveUp
    <2> QED
      BY <1>5, <2>1, <2>2, Zenon
  <1>7. /\ todo.op = "store" <=> Stores(i)
        /\ \/ todo.width = i.row.width
           \/ todo.width = 0 /\ Loads(i) /\ i.row.file = "x" /\ i.reg = 0
    BY <1>2, <1>3, <1>6, TodoAccess, Zenon
  <1>8. todo.width = i.row.width
    BY <1>5, <1>6, <1>7, Zenon DEF Loads, Stores
  <1>9. Illegal(i)
    <2>1. (todo.op = "store") = Stores(i)
      BY <1>7 DEF Stores
    <2> QED
      BY <1>1, <1>8, <2>1, Zenon DEF Illegal
  <1>10. Caused(i, i.addr)
    BY <1>9, Zenon DEF Caused
  <1> QED
    BY <1>1, <1>2, <1>4, <1>10, Delivers, Zenon DEF i

\* An atomic instruction ends the process.
LEMMA UnimplementedKept ==
  ASSUME IInv, process = "running", NEW t \in Threads, at[t] = "segfault_handler",
         InXom(si_addr[t]), Unimplemented(t)
  PROVE  Kept
  <1> DEFINE i == instr[t]
             c == ctx[t]
             todo == emulate(c, Encode(i))
  <1>1. /\ todo.op = "exit" /\ process' = "exited"
        /\ UNCHANGED <<ctx, at, si_addr, instr, mem, action>>
    BY Zenon DEF Unimplemented
  <1>2. i # NoInstr /\ i \in Instructions[t] /\ i \in InstructionType /\ i.gp
    BY Handling, Zenon
  <1>3. Obeys(todo, c, i)
    BY <1>2, Decoded, Zenon
  <1>4. i.row.form = "AMO"
    <2> HIDE DEF i, c, todo
    <2> QED
      BY <1>1, <1>2, <1>3, TodoAccess, ZenonT(40)
  <1>5. ISA!Refuse(t)
    <2>1. i # ISA!NoInstr
      BY <1>2, SameOperators, Zenon
    <2> QED
      BY <1>1, <1>2, <1>4, <2>1, Zenon DEF ISA!Refuse, REG_PC
  <1>6. TypeOK'
    BY <1>1, Zenon DEF IInv, TypeOK
  <1>7. Pending'
    BY <1>1, Zenon DEF IInv, Pending
  <1> QED
    BY <1>5, <1>6, <1>7, Zenon DEF Kept, IInv, ISA!Next

\* A fault elsewhere is left to the default action.
LEMMA LetItBeKept ==
  ASSUME IInv, process = "running", NEW t \in Threads, at[t] = "segfault_handler",
         ~ InXom(si_addr[t]), LetItBe(t)
  PROVE  Kept
  <1>1. /\ action' = "SIG_DFL" /\ at' = [at EXCEPT ![t] = "raise"]
        /\ UNCHANGED <<ctx, si_addr, instr, mem, process>>
    BY Zenon DEF LetItBe
  <1>2. instr[t] # NoInstr /\ Illegal(instr[t])
    BY Handling, Zenon
  <1>3. \A u \in Threads : at'[u] = IF u = t THEN "raise" ELSE at[u]
    BY <1>1, Zenon DEF IInv, TypeOK
  <1>4. TypeOK'
    BY <1>1, Zenon DEF IInv, TypeOK
  <1>5. Pending'
    BY <1>1, <1>2, <1>3, Zenon DEF IInv, Pending
  <1>6. UNCHANGED ISA!vars
    BY <1>1, Stutters, Zenon
  <1> QED
    BY <1>4, <1>5, <1>6, Zenon DEF Kept, IInv

\* raise: the default action, or a handler that the program has installed since.
LEMMA RaiseKept ==
  ASSUME IInv, NEW t \in Threads, raise(t)
  PROVE  Kept
  <1>1. /\ process = "running" /\ at[t] = "raise"
        /\ UNCHANGED <<ctx, si_addr, instr, mem, action>>
    BY Zenon DEF raise
  <1>2. instr[t] # NoInstr /\ si_addr \in [Threads -> Nat]
    BY <1>1, Zenon DEF IInv, Pending, TypeOK
  <1>3. CASE action = "SIG_DFL"
    <2>1. process' = "killed" /\ UNCHANGED at
      BY <1>3, Zenon DEF raise
    <2>2. \A u \in Threads : at[u] = "segfault_handler" => Caused(instr[u], si_addr'[u])
      BY <1>1, Zenon DEF IInv, Pending
    <2>3. IInv' /\ ISA!Next
      BY <1>1, <1>2, <1>3, <2>1, <2>2, Kills, Zenon
    <2> QED
      BY <2>3, Zenon DEF Kept
  <1>4. CASE action = "program's handler"
    <2>1. at' = [at EXCEPT ![t] = "program's handler"] /\ UNCHANGED process
      BY <1>4, Zenon DEF raise
    <2> QED
      BY <1>1, <1>2, <1>4, <2>1, Moves, Zenon
  <1> QED
    BY <1>3, <1>4, Zenon DEF raise

\* The program installs a handler.
LEMMA SigactionKept ==
  ASSUME IInv, NEW t \in Threads, Sigaction(t)
  PROVE  Kept
  <1>1. action' = "program's handler" /\ UNCHANGED <<ctx, at, si_addr, instr, mem, process>>
    BY Zenon DEF Sigaction
  <1>2. TypeOK'
    BY <1>1, Zenon DEF IInv, TypeOK
  <1>3. Pending'
    BY <1>1, Zenon DEF IInv, Pending
  <1>4. UNCHANGED ISA!vars
    BY <1>1, Stutters, Zenon
  <1> QED
    BY <1>2, <1>3, <1>4, Zenon DEF Kept, IInv

\* The program's handler returns.
LEMMA HandlerReturnsKept ==
  ASSUME IInv, NEW t \in Threads, HandlerReturns(t)
  PROVE  Kept
  <1>1. /\ at[t] = "program's handler" /\ at' = [at EXCEPT ![t] = "program"]
        /\ UNCHANGED <<ctx, si_addr, instr, mem, action, process>>
    BY Zenon DEF HandlerReturns
  <1>2. si_addr \in [Threads -> Nat]
    BY Zenon DEF IInv, TypeOK
  <1> QED
    BY <1>1, <1>2, Moves, Zenon

\* segfault_handler, from its entry to its return or its end.
LEMMA HandlerKept ==
  ASSUME IInv, NEW t \in Threads, segfault_handler(t)
  PROVE  Kept
  <1> DEFINE backup_addr ==
               rsi.start_addr_page + (si_addr[t] - rsi.ret_sequence_page_addr)
  <1>1. process = "running" /\ at[t] = "segfault_handler"
    BY Zenon DEF segfault_handler
  <1>2. CASE InXom(si_addr[t])
    <2>1. Redirect(t, backup_addr) \/ FaultAgain(t, backup_addr) \/ Unimplemented(t)
      BY <1>2, Zenon DEF segfault_handler
    <2>2. backup_addr = instr[t].addr
      BY <1>1, <1>2, Handling, Zenon
    <2> HIDE DEF backup_addr
    <2>3. Redirect(t, instr[t].addr) \/ FaultAgain(t, instr[t].addr) \/ Unimplemented(t)
      BY <2>1, <2>2, Zenon
    <2> QED
      BY <1>1, <1>2, <2>3, RedirectKept, FaultAgainKept, UnimplementedKept, Zenon
  <1>3. CASE ~ InXom(si_addr[t])
    <2>1. LetItBe(t)
      BY <1>3, Zenon DEF segfault_handler
    <2> QED
      BY <1>1, <1>3, <2>1, LetItBeKept, Zenon
  <1> QED
    BY <1>2, <1>3, Zenon

\* Every step, and the steps that change nothing.
LEMMA NextKept ==
  ASSUME IInv, [Next]_vars
  PROVE  Kept
  <1>1. CASE UNCHANGED vars
    <2>1. UNCHANGED <<ctx, at, si_addr, instr, mem, action, process>>
      BY <1>1, Zenon DEF vars
    <2>2. TypeOK'
      BY <2>1, Zenon DEF IInv, TypeOK
    <2>3. Pending'
      BY <2>1, Zenon DEF IInv, Pending
    <2>4. UNCHANGED ISA!vars
      BY <2>1, Stutters, Zenon
    <2> QED
      BY <2>2, <2>3, <2>4, Zenon DEF Kept, IInv
  <1>2. CASE Stopped
    BY <1>1, <1>2, Zenon DEF Stopped
  <1>3. ASSUME NEW t \in Threads,
               \/ Fetch(t) \/ Access(t) \/ Fault(t)
               \/ Sigaction(t) \/ HandlerReturns(t) \/ Handler(t)
        PROVE  Kept
    BY <1>3, FetchKept, AccessKept, FaultKept, SigactionKept, HandlerReturnsKept,
       HandlerKept, RaiseKept, Zenon DEF Handler
  <1> QED
    BY <1>1, <1>2, <1>3, Zenon DEF Next

-----------------------------------------------------------------------------
\* The threads start in the program, with registers and memory that LoadStore may
\* start with.
LEMMA InitKept ==
  ASSUME Init
  PROVE  IInv /\ ISA!Init
  <1>1. /\ ctx \in [Threads -> InitialContexts] /\ mem \in InitialMemories
        /\ at = [t \in Threads |-> "program"] /\ si_addr = [t \in Threads |-> 0]
        /\ instr = [t \in Threads |-> NoInstr]
        /\ action = "segfault_handler" /\ process = "running"
    BY Zenon DEF Init
  <1>2. \A t \in Threads : ctx[t] \in ContextType /\ ctx[t].gregs[0] = Word(0)
    BY <1>1, InitialAssumption, Zenon
  <1>3. mem \in [Data -> Bytes]
    BY <1>1, InitialAssumption, Zenon
  <1>4. TypeOK
    <2>1. ctx \in [Threads -> ContextType]
      BY <1>1, <1>2, Zenon
    <2> QED
      BY <1>1, <1>3, <2>1, Zenon DEF TypeOK
  <1>5. Pending
    BY <1>1, Zenon DEF Pending
  <1> DEFINE x == [u \in Threads |-> [ctx[u].gregs EXCEPT ![REG_PC] = [k \in 1 .. 8 |-> 0]]]
             f == [u \in Threads |-> ctx[u].fregs]
             pc == [u \in Threads |-> ctx[u].gregs[REG_PC]]
  <1>6. x \in [Threads -> [Registers -> Words64]] /\ \A t \in Threads : x[t][0] = Word(0)
    <2>1. x = [u \in Threads |-> X(ctx[u])]
      BY Zenon DEF X, Zeros
    <2>2. ASSUME NEW t \in Threads
          PROVE  X(ctx[t]) \in [Registers -> Words64] /\ X(ctx[t])[0] = Word(0)
      <3>1. ctx[t].gregs \in [Registers -> Words64]
        BY <1>2, ContextParts, Zenon
      <3>2. Zeros \in Words64 /\ Zeros = Word(0)
        BY ZeroType, Zenon DEF Zeros
      <3>3. 0 \in Registers /\ REG_PC = 0
        BY DEF Registers, REG_PC
      <3> QED
        BY <3>1, <3>2, <3>3, Zenon DEF X
    <2> HIDE DEF x
    <2> QED
      BY <2>1, <2>2, Zenon
  <1>7. f \in [Threads -> [Registers -> Words64]]
    BY <1>2, ContextParts, Zenon
  <1>8. pc = [t \in Threads |-> Word(0)]
    BY <1>2, Zenon DEF REG_PC
  <1>9. ISA!Init
    <2>1. /\ x \in [Threads -> [ISA!Registers -> ISA!Words64]]
          /\ \A t \in Threads : x[t][0] = ISA!Word(0)
          /\ f \in [Threads -> [ISA!Registers -> ISA!Words64]]
          /\ pc = [t \in Threads |-> ISA!Word(0)]
      <3> HIDE DEF x, f, pc
      <3> QED
        BY <1>6, <1>7, <1>8, SameOperators, Zenon
    <2>2. /\ instr = [t \in Threads |-> ISA!NoInstr]
          /\ mem \in [Data -> ISA!Bytes]
          /\ process = "running"
      BY <1>1, <1>3, SameOperators, Zenon
    <2> QED
      BY <2>1, <2>2, Zenon DEF ISA!Init
  <1> QED
    BY <1>4, <1>5, <1>9, Zenon DEF IInv

\* segfault_handler never leaves a register or a byte of memory without a value, and
\* never runs for a thread that has no access to complete: the type invariant holds,
\* with what the handler was called for.
THEOREM HandlerInvariant == Spec => [](TypeOK /\ Pending)
  <1>1. Init => IInv
    BY InitKept, Zenon
  <1>2. IInv /\ [Next]_vars => IInv'
    BY NextKept, Zenon DEF Kept
  <1> QED
    BY <1>1, <1>2, PTL DEF Spec, IInv

\* The program cannot tell that its accesses near gp are performed by
\* segfault_handler: every step of the program, of the kernel and of the handler is
\* a step of the machine on which gp was never moved, or changes nothing there.
THEOREM HandlerTransparent == Spec => Transparent
  <1>1. Init => IInv /\ ISA!Init
    BY InitKept, Zenon
  <1>2. IInv /\ [Next]_vars => IInv' /\ [ISA!Next]_(ISA!vars)
    BY NextKept, Zenon DEF Kept
  <1> QED
    BY <1>1, <1>2, PTL DEF Spec, Transparent, ISA!Spec
=============================================================================
