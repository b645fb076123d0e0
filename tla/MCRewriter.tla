----------------------------- MODULE MCRewriter -----------------------------
(***************************************************************************)
(* Mappings of up to MaxItems instructions for TLC.  Besides ECALL there   *)
(* are instructions that hold its bytes, or part of them, in an operand,   *)
(* and instructions that capstone does not know.                           *)
(***************************************************************************)
EXTENDS Rewriter, SequencesExt

CONSTANT MaxItems

KnownItems ==
  { ECALL,
    <<115, 0, 16, 0>>,   \* ebreak, which has the opcode of ECALL
    <<1, 0>>,            \* c.nop
    <<0, 1>>,            \* c.addi4spn
    <<19, 1, 115, 0>>,   \* addi with the first half of ECALL in its immediate
    <<183, 115, 0, 0>>,  \* lui: ECALL's bytes start at its second byte
    <<3, 3, 3, 115>> }   \* a load that ends like an ECALL begins
UnknownItems ==
  { <<87, 3, 3, 3>>,     \* a vector instruction
    <<0, 0>> }           \* padding

\* what capstone makes of the bytes above, at any address
Instances ==
  KnownItems \cup { JALR, <<3, 3, 3, 0>> }

Items == KnownItems \cup UnknownItems

\* the next mapping begins like the rest of an ECALL, or with one
Beyond == { <<0, 0, 0, 0>>, ECALL }

Starts(items) ==
  { Len(FlattenSeq(SubSeq(items, 1, k - 1))) : k \in 1 .. Len(items) }

\* cut: the last instruction ends so many bytes behind the end of the mapping
MakeSection(items, beyond, cut) ==
  LET all == FlattenSeq(items) \o beyond
      size == Len(FlattenSeq(items)) - cut
  IN  [size |-> size,
       bytes |-> [a \in 0 .. size + 3 |-> all[a + 1]],
       starts |-> {s \in Starts(items) : s < size}]

MCSections ==
  { MakeSection(items, beyond, 0) : items \in BoundedSeq(Items, MaxItems), beyond \in Beyond }
  \cup
  { MakeSection(Append(items, ECALL), <<0, 0, 0, 0>>, 2) :
      items \in BoundedSeq(Items, MaxItems - 1) }
=============================================================================
