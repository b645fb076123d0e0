----------------------------- MODULE LoadStore ------------------------------
(***************************************************************************)
(* What the harts of a RISC-V machine do with the loads and stores of a    *)
(* program whose global pointer was never moved: the promise that the      *)
(* emulation in segfault_handler has to keep.                              *)
(***************************************************************************)
EXTENDS RISCV

CONSTANTS
  Threads,
  Data,          \* addresses of the program's memory
  ReadOnly,      \* those it may not write
  Instructions,  \* loads and stores each thread may execute
  MaxPc          \* bound: length of the program, in bytes

Permitted(addr, width, writes) ==
  /\ addr .. addr + width - 1 \subseteq Data
  /\ writes => (addr .. addr + width - 1) \cap ReadOnly = {}

VARIABLES
  x, f,     \* integer and floating-point registers of each thread
  pc,       \* its program counter
  instr,    \* the instruction there, once it has been fetched
  mem,      \* the memory of the process
  process   \* "running", "killed" by a signal, or "exited"

vars == <<x, f, pc, instr, mem, process>>

Init ==
  /\ x \in [Threads -> [Registers -> Words64]] /\ \A t \in Threads : x[t][0] = Word(0)
  /\ f \in [Threads -> [Registers -> Words64]]
  /\ pc = [t \in Threads |-> Word(0)]
  /\ instr = [t \in Threads |-> NoInstr]
  /\ mem \in [Data -> Bytes]
  /\ process = "running"

Fetch(t) ==
  /\ process = "running"
  /\ instr[t] = NoInstr
  /\ pc[t][1] < MaxPc
  /\ UNCHANGED <<x, f, pc, mem, process>>
  /\ \E i \in Instructions[t] : instr' = [instr EXCEPT ![t] = i]

\* the value that instruction i of thread t stores
Operand(t, i) ==
  LET r == IF i.row.form = "AMO" THEN 7 ELSE i.reg
  IN  SubSeq(IF i.row.file = "x" THEN x[t][r] ELSE f[t][r], 1, i.row.width)

\* the registers of the given file after instruction i; x0 stays zero
Loaded(regs, file, i) ==
  IF Loads(i) /\ i.row.file = file /\ ~ (file = "x" /\ i.reg = 0)
  THEN [regs EXCEPT ![i.reg] = Extend(Read(mem, i.addr, i.row.width), i.row.fill)]
  ELSE regs

Execute(t) ==
  LET i == instr[t] IN
  /\ process = "running"
  /\ i # NoInstr
  /\ Permitted(i.addr, i.row.width, Stores(i))
  /\ x' = [x EXCEPT ![t] = Loaded(@, "x", i)]
  /\ f' = [f EXCEPT ![t] = Loaded(@, "f", i)]
  /\ mem' = IF Stores(i) THEN Write(mem, i.addr, Operand(t, i)) ELSE mem
  /\ pc' = [pc EXCEPT ![t] = Advance(@, Length(i))]
  /\ instr' = [instr EXCEPT ![t] = NoInstr]
  /\ UNCHANGED process

\* the access is not permitted: the kernel kills the process
Crash(t) ==
  LET i == instr[t] IN
  /\ process = "running"
  /\ i # NoInstr
  /\ ~ Permitted(i.addr, i.row.width, Stores(i))
  /\ process' = "killed"
  /\ UNCHANGED <<x, f, pc, instr, mem>>

\* the one thing the library takes the liberty of: it does not do atomics
Refuse(t) ==
  /\ process = "running"
  /\ instr[t] # NoInstr
  /\ instr[t].row.form = "AMO" /\ instr[t].gp
  /\ process' = "exited"
  /\ UNCHANGED <<x, f, pc, instr, mem>>

Next == \E t \in Threads : Fetch(t) \/ Execute(t) \/ Crash(t) \/ Refuse(t)

Spec == Init /\ [][Next]_vars
=============================================================================
