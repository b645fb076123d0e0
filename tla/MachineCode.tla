---------------------------- MODULE MachineCode -----------------------------
(***************************************************************************)
(* Straight-line code of the library, executed one instruction at a time:  *)
(*                                                                         *)
(*  - the trampoline that setup_shadow_page_trampoline writes at           *)
(*    relocated_gp.  It has to save the registers it uses and to build a   *)
(*    64-bit address out of immediates of 20 and 12 bits.  Interception    *)
(*    has all of it done in one step; this module opens that step up;      *)
(*  - syscall_no_intercept, by which hooks make a call that is not         *)
(*    intercepted.  The number comes in a0 and the arguments in a1 to a6;  *)
(*    the kernel wants them in a7 and a0 to a5.                            *)
(***************************************************************************)
EXTENDS Immediates, Sequences

CONSTANTS
  Destinations,     \* where asm_syscall_hook may have been loaded
  InitialRegisters, \* what the code that is left may have in its registers
  Answers,          \* what the kernel may answer to a call
  BitOr(_, _), BitAnd(_, _) \* of the bits of two registers

Registers == {"zero", "ra", "sp", "t0", "t1", "t2", "t3",
              "a0", "a1", "a2", "a3", "a4", "a5", "a6", "a7"}
Words == 0 .. XLEN - 1

\* code is aligned to two bytes
ASSUME DestinationsAssumption == Destinations \subseteq {d \in Words : d % 2 = 0}
ASSUME AnswersAssumption == Answers \subseteq Words
ASSUME RegistersAssumption ==
  \A e \in InitialRegisters :
    /\ DOMAIN e = Registers
    /\ e["sp"] \in Int
    /\ \A r \in Registers \ {"sp"} : e[r] \in Words
    /\ e["zero"] = 0 /\ e["ra"] % 2 = 0

\* Half an address is an even multiple of an immediate.  Or joins bits that do not
\* overlap, And keeps the low half.
ASSUME BitsAssumption ==
  /\ \E m \in 1 .. HALF : HALF = 2 * m * IMM
  /\ \A p \in {2, IMM, HALF} : \A k \in 0 .. (XLEN \div p) - 1, y \in 0 .. p - 1 :
       BitOr(k * p, y) = k * p + y
  /\ \A x \in Words : BitAnd(x, HALF - 1) = x % HALF

VARIABLES
  dst,     \* the address of asm_syscall_hook
  words,   \* the instructions, << >> before the trampoline is written
  entry,   \* the registers when they are entered
  regs,    \* the registers now
  stack,   \* what was stored on the stack, by address
  pc,      \* index of the next instruction
  target,  \* where the code has jumped to, -1 before that
  asked    \* the registers that the kernel was shown, << >> before that

vars == <<dst, words, entry, regs, stack, pc, target, asked>>

Instr(op, rd, rs1, operand) == [op |-> op, rd |-> rd, rs1 |-> rs1, operand |-> operand]

\* lui and addi that put one half of the address into rd
LoadHalf(rd, half) ==
  << Instr("lui", rd, rd, lui_imm_field(half)),
     Instr("addi", rd, rd, addi_imm_field(half)) >>

\* Bug: t3 is not saved.
Bug_Spill ==
  << Instr("addi", "sp", "sp", -304),
     Instr("sd", "t0", "sp", 0),  Instr("sd", "t1", "sp", 8),
     Instr("sd", "t2", "sp", 16), Instr("sd", "t2", "sp", 24) >>

Spill ==
  << Instr("addi", "sp", "sp", -304),
     Instr("sd", "t0", "sp", 0),  Instr("sd", "t1", "sp", 8),
     Instr("sd", "t2", "sp", 16), Instr("sd", "t3", "sp", 24) >>

\* t1 becomes 0xffffffff
Mask ==
  << Instr("lui", "t1", "t1", HALF \div 2 - IMM),
     Instr("ori", "t2", "zero", IMM \div 2 - 1),
     Instr("slli", "t2", "t2", 2), Instr("ori", "t2", "t2", 1),
     Instr("or", "t1", "t1", "t2"),
     Instr("slli", "t1", "t1", 2), Instr("ori", "t1", "t1", 1) >>

\* Bug: t3 is not cut off to 32 bits.
Bug_Join ==
  << Instr("or", "t0", "t0", "t3"), Instr("jalr", "zero", "t0", 0) >>

Join ==
  << Instr("and", "t3", "t3", "t1"), Instr("or", "t0", "t0", "t3"),
     Instr("jalr", "zero", "t0", 0) >>

\* Bug: the number is moved last.
Bug_syscall_no_intercept ==
  << Instr("mv", "a0", "a1", 0), Instr("mv", "a1", "a2", 0), Instr("mv", "a2", "a3", 0),
     Instr("mv", "a3", "a4", 0), Instr("mv", "a4", "a5", 0), Instr("mv", "a5", "a6", 0),
     Instr("mv", "a7", "a0", 0), Instr("ecall", "a0", "a0", 0), Instr("jalr", "zero", "ra", 0) >>

syscall_no_intercept ==
  << Instr("mv", "a7", "a0", 0), Instr("mv", "a0", "a1", 0), Instr("mv", "a1", "a2", 0),
     Instr("mv", "a2", "a3", 0), Instr("mv", "a3", "a4", 0), Instr("mv", "a4", "a5", 0),
     Instr("mv", "a5", "a6", 0), Instr("ecall", "a0", "a0", 0), Instr("jalr", "zero", "ra", 0) >>

Init ==
  /\ \/ dst \in Destinations /\ words = << >>
     \/ dst = 0 /\ words = syscall_no_intercept   \* which needs no destination
  /\ entry \in InitialRegisters
  /\ regs = entry
  /\ stack = [a \in {} |-> 0]
  /\ pc = 1
  /\ target = -1
  /\ asked = << >>

Trampoline ==
  Spill \o LoadHalf("t0", dst \div HALF) \o <<Instr("slli", "t0", "t0", HALF)>>
    \o LoadHalf("t3", dst % HALF) \o Mask \o Join

setup_shadow_page_trampoline ==
  /\ words = << >>
  /\ words' = Trampoline
  /\ UNCHANGED <<dst, entry, regs, stack, pc, target, asked>>

-----------------------------------------------------------------------------
(***************************************************************************)
(* The hart.  A shift is given by the power of two it multiplies with; sp  *)
(* is not scaled down with the other registers.                            *)
(***************************************************************************)
Value(i) ==
  LET x == regs[i.rs1] IN
  CASE i.op = "lui"  -> Lui(i.operand)
    [] i.op = "addi" -> IF i.rd = "sp" THEN x + i.operand ELSE Addi(x, i.operand)
    [] i.op = "slli" -> (x * i.operand) % XLEN
    [] i.op = "mv"   -> x
    [] i.op = "ori"  -> BitOr(x, i.operand)
    [] i.op = "or"   -> BitOr(x, regs[i.operand])
    [] i.op = "and"  -> BitAnd(x, regs[i.operand])

Execute ==
  /\ pc \in DOMAIN words /\ target = -1
  /\ LET i == words[pc] IN
     \/ /\ i.op \notin {"sd", "jalr", "ecall"}
        /\ regs' = [regs EXCEPT ![i.rd] = Value(i)]
        /\ pc' = pc + 1
        /\ UNCHANGED <<stack, target, asked>>
     \/ /\ i.op = "sd"
        /\ stack' = [a \in DOMAIN stack \cup {regs["sp"] + i.operand} |->
                       IF a = regs["sp"] + i.operand THEN regs[i.rd] ELSE stack[a]]
        /\ pc' = pc + 1
        /\ UNCHANGED <<regs, target, asked>>
     \/ /\ i.op = "jalr"
        /\ target' = regs[i.rs1] - (regs[i.rs1] % 2)
        /\ UNCHANGED <<regs, stack, pc, asked>>
     \/ /\ i.op = "ecall"
        /\ asked' = regs
        /\ \E answer \in Answers : regs' = [regs EXCEPT !["a0"] = answer]
        /\ pc' = pc + 1
        /\ UNCHANGED <<stack, target>>
  /\ UNCHANGED <<dst, words, entry>>

Jumped ==
  /\ target # -1
  /\ UNCHANGED vars

Next == setup_shadow_page_trampoline \/ Execute \/ Jumped

Spec == Init /\ [][Next]_vars

-----------------------------------------------------------------------------
\* Every variable has the type its comment gives it.
TypeOK ==
  /\ dst \in 0 .. XLEN - 1
  /\ Len(words) \in {0, 9, 20}
  /\ entry \in InitialRegisters
  /\ DOMAIN regs = DOMAIN entry
  /\ \A r \in DOMAIN regs \ {"sp"} : regs[r] \in 0 .. XLEN - 1
  /\ pc \in 1 .. 20
  /\ target \in -1 .. XLEN - 1

InTrampoline == words # syscall_no_intercept

\* Wherever asm_syscall_hook was loaded, whatever its address makes of the sign
\* bits of the immediates, the trampoline jumps to it; and Joined says in two
\* operations what its bits do in thirteen.
JumpsToHook ==
  InTrampoline /\ target # -1 => target = dst /\ target = Joined(dst)

SlotOf == [t0 |-> 0, t1 |-> 8, t2 |-> 16, t3 |-> 24]

\* No register of the interrupted code is lost on the way: one that the
\* trampoline has changed is on the stack, in the slot from which
\* asm_syscall_hook and the return sequence will restore it.
NothingLost ==
  InTrampoline =>
    \A r \in DOMAIN regs :
      \/ regs[r] = entry[r]
      \/ r = "sp" /\ regs["sp"] = entry["sp"] - 304
      \/ r \in DOMAIN SlotOf /\ stack[entry["sp"] - 304 + SlotOf[r]] = entry[r]

PassedIn == [a7 |-> "a0", a0 |-> "a1", a1 |-> "a2", a2 |-> "a3",
             a3 |-> "a4", a4 |-> "a5", a5 |-> "a6"]

\* syscall_no_intercept asks the kernel what its caller asked for, and goes back
\* to the caller with the answer in a0: no register that is shifted is overwritten
\* before it was read, and the ecall comes between the two.
CallPassedOn ==
  /\ asked # << >> => \A r \in DOMAIN PassedIn : asked[r] = entry[PassedIn[r]]
  /\ ~ InTrampoline /\ target # -1 =>
       asked # << >> /\ regs["a0"] \in Answers /\ target = entry["ra"]
=============================================================================
