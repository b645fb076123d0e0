------------------------------ MODULE Rewriter ------------------------------
(***************************************************************************)
(* The sweep of disassemble_and_rewrite over one executable mapping of     *)
(* glibc, between its two calls of mprotect: capstone is opened, decodes   *)
(* the bytes from the first to the last, and each ECALL it reports is      *)
(* overwritten with a jump through gp.  Startup has the whole mapping done *)
(* in one step; this module opens that step up.                            *)
(*                                                                         *)
(* A section is what the linker put into the mapping: its size, its bytes, *)
(* those of the next mapping after them, and where its instructions start. *)
(***************************************************************************)
EXTENDS Integers, Sequences

CONSTANTS
  Sections,   \* [size, bytes, starts]
  Known,      \* the instructions capstone can decode, each a sequence of bytes
  Margin      \* number of bytes considered beyond the end of the mapping

Byte == 0 .. 255
ECALL == <<115, 0, 0, 0>>

\* 0x000181e7: jalr gp, gp, 0
JALR == <<231, 129, 1, 0>>

\* an instruction is as long as the two low bits of its first byte say
LengthFrom(byte) == IF byte % 4 = 3 THEN 4 ELSE 2

BytesAt(m, a, n) == [k \in 1 .. n |-> m[a + k - 1]]

\* the instructions follow each other without gaps
WellFormed(sec) ==
  /\ sec.starts \subseteq 0 .. sec.size - 1
  /\ 0 \in sec.starts \cup {sec.size}
  /\ \A s \in sec.starts :
       LET next == s + LengthFrom(sec.bytes[s]) IN
       /\ next \in sec.starts \/ next >= sec.size
       /\ \A r \in sec.starts : r > s => r >= next

ASSUME SectionsAssumption ==
  \A sec \in Sections :
    /\ sec.size \in Nat
    /\ sec.bytes \in [0 .. sec.size + Margin - 1 -> Byte]
    /\ WellFormed(sec)
ASSUME KnownAssumption == ECALL \in Known
ASSUME MarginAssumption == Margin \in Nat /\ Margin >= 4

VARIABLES
  section,  \* the mapping as it was
  text,     \* its bytes now, and those of the next mapping
  code,     \* where the sweep is
  context,  \* the disassembler: "closed" or "open"
  at        \* "init", "sweep", "destroy", "done", "exited" or "crashed"

vars == <<section, text, code, context, at>>

Init ==
  /\ section \in Sections
  /\ text = section.bytes
  /\ code = 0
  /\ context = "closed"
  /\ at = "init"

\* The context is allocated, without a check: writing to it if mmap failed is a
\* fault outside the execute-only pages.  Four calls of capstone may fail too.
intercept_disasm_init ==
  /\ at = "init"
  /\ \/ at' = "crashed" /\ UNCHANGED context
     \/ at' = "exited" /\ UNCHANGED context
     \/ at' = "sweep" /\ context' = "open"
  /\ UNCHANGED <<section, text, code>>

\* capstone: the length of the instruction at a, 0 if it cannot decode it from
\* at most size bytes
cs_disasm_iter(a, size) ==
  LET n == LengthFrom(text[a])
  IN  IF n <= size /\ BytesAt(text, a, n) \in Known THEN n ELSE 0

\* Bug: the size handed to capstone is two bytes too large.
Bug_intercept_disasm_next_instruction(a) ==
  LET length == cs_disasm_iter(a, section.size - a + 2)
  IN  [address |-> a, length |-> length,
       is_syscall |-> length = 4 /\ BytesAt(text, a, 4) = ECALL]

\* Bug: every instruction with the SYSTEM opcode passes for an ECALL.
Bug_intercept_disasm_next_instruction_opcode(a) ==
  LET length == cs_disasm_iter(a, section.size - a)
  IN  [address |-> a, length |-> length,
       is_syscall |-> length = 4 /\ text[a] = 115]

intercept_disasm_next_instruction(a) ==
  LET end == section.size - 1
      size == end - a + 1
      length == cs_disasm_iter(a, size)
  IN  [address |-> a, length |-> length,
       is_syscall |-> length = 4 /\ BytesAt(text, a, 4) = ECALL]

Overwrite(m, a, bytes) ==
  [b \in DOMAIN m |-> IF b \in a .. a + Len(bytes) - 1 THEN bytes[b - a + 1] ELSE m[b]]

\* Bug: an instruction capstone does not know is not skipped.
Bug_sweep ==
  /\ at = "sweep"
  /\ code < section.size
  /\ LET result == intercept_disasm_next_instruction(code) IN
     /\ code' = code + result.length
     /\ text' = IF result.is_syscall THEN Overwrite(text, result.address, JALR) ELSE text
  /\ UNCHANGED <<section, context, at>>

\* Bug: every byte is tried, as if ECALLs could start anywhere.
Bug_sweep_bytewise ==
  /\ at = "sweep"
  /\ code < section.size
  /\ LET result == intercept_disasm_next_instruction(code) IN
     /\ code' = code + (IF result.is_syscall THEN result.length ELSE 1)
     /\ text' = IF result.is_syscall THEN Overwrite(text, result.address, JALR) ELSE text
  /\ UNCHANGED <<section, context, at>>

\* one turn of the loop
sweep ==
  /\ at = "sweep"
  /\ code < section.size
  /\ LET result == intercept_disasm_next_instruction(code) IN
     IF result.length = 0
     THEN code' = code + 1 /\ UNCHANGED text
     ELSE /\ text' = IF result.is_syscall
                     THEN Overwrite(text, result.address, JALR) ELSE text
          /\ code' = code + result.length
  /\ UNCHANGED <<section, context, at>>

sweep_ends ==
  /\ at = "sweep"
  /\ code >= section.size
  /\ at' = "destroy"
  /\ UNCHANGED <<section, text, code, context>>

\* Bug: the context is not released.
Bug_intercept_disasm_destroy ==
  /\ at = "destroy"
  /\ at' = "done"
  /\ UNCHANGED <<section, text, code, context>>

intercept_disasm_destroy ==
  /\ at = "destroy"
  /\ context' = "closed"
  /\ at' = "done"
  /\ UNCHANGED <<section, text, code>>

Stopped ==
  /\ at \in {"done", "exited", "crashed"}
  /\ UNCHANGED vars

Next ==
  \/ intercept_disasm_init \/ sweep \/ sweep_ends \/ intercept_disasm_destroy
  \/ Stopped

Spec == Init /\ [][Next]_vars

\* a sequential program: it goes on while it can
FairSpec == Spec /\ WF_vars(Next)

-----------------------------------------------------------------------------
\* Every variable has the type its comment gives it.
TypeOK ==
  /\ text \in [0 .. section.size + Margin - 1 -> Byte]
  /\ code \in 0 .. section.size
  /\ context = IF at \in {"sweep", "destroy"} THEN "open" ELSE "closed"
  /\ at \in {"init", "sweep", "destroy", "done", "exited", "crashed"}

\* capstone knows every instruction of the section, and none is cut off
Decodable(sec) ==
  \A s \in sec.starts :
    LET n == LengthFrom(sec.bytes[s])
    IN  s + n <= sec.size /\ BytesAt(sec.bytes, s, n) \in Known

IsEcall(sec, s) ==
  s \in sec.starts /\ s + 4 <= sec.size /\ BytesAt(sec.bytes, s, 4) = ECALL

\* At every moment of the sweep, the ECALLs before code are jumps through gp and
\* every other byte is as the linker left it: bytes of other instructions that
\* look like an ECALL are not touched, nor is one found twice or missed.
\* Provided capstone knows all the instructions.
ExactlyEcallsPatched ==
  Decodable(section) =>
    \A a \in DOMAIN text :
      text[a] = IF \E k \in 0 .. 3 : IsEcall(section, a - k) /\ a - k < code
                THEN JALR[(CHOOSE k \in 0 .. 3 : IsEcall(section, a - k)) + 1]
                ELSE section.bytes[a]

\* Whatever the bytes are, the sweep does not write outside the mapping: an
\* ECALL that the end of the mapping cuts in two is left alone.
InsideMapping ==
  \A a \in DOMAIN text : a >= section.size => text[a] = section.bytes[a]

\* Whatever the bytes are and however far the sweep has lost the boundaries of
\* the instructions: what it has altered are groups of four bytes behind it that
\* spelled ECALL and spell the jump now, each as a whole.
OnlyEcallBytesPatched ==
  \A a \in DOMAIN text : text[a] # section.bytes[a] =>
    \E s \in a - 3 .. a :
      /\ s >= 0 /\ s + 4 <= code
      /\ BytesAt(section.bytes, s, 4) = ECALL
      /\ BytesAt(text, s, 4) = JALR

\* The sweep ends, whatever it meets.
SweepEnds == <>(at \in {"done", "exited", "crashed"})

\* All ECALL occurrences are detected and overwritten, as the comment of
\* disassemble_and_rewrite says.
AllEcallsRewritten ==
  at = "done" =>
    \A s \in section.starts :
      IsEcall(section, s) => BytesAt(text, s, 4) = JALR
=============================================================================
