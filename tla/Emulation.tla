----------------------------- MODULE Emulation ------------------------------
(***************************************************************************)
(* The SIGSEGV handler.  With gp moved to relocated_gp, the addresses that *)
(* the program computes from gp lie in the execute-only pages.  Each       *)
(* access there faults; segfault_handler reads the faulting instruction,   *)
(* performs its load or store on the page of the original gp, in the       *)
(* registers that the kernel will restore, and skips it.  A fault anywhere *)
(* else is given back to the default action.                               *)
(*                                                                         *)
(* The registers of a thread, and its ucontext while the handler runs, are *)
(* one variable: the kernel copies one to the other unchanged.             *)
(* __gregs[0] is the program counter.                                      *)
(***************************************************************************)
EXTENDS RISCV

CONSTANTS
  Threads, Data, ReadOnly, Instructions, MaxPc,   \* see LoadStore
  rsi,             \* ret_sequence_page_addr, protection_size, start_addr_page
  InitialContexts, \* registers the program may start with
  InitialMemories, \* contents of Data it may start with
  OwnHandler       \* the program may install a SIGSEGV handler of its own

XomPages ==
  rsi.ret_sequence_page_addr .. rsi.ret_sequence_page_addr + rsi.protection_size - 1

OriginalPages ==
  rsi.start_addr_page .. rsi.start_addr_page + rsi.protection_size - 1

ContextType == [gregs : [Registers -> Words64], fregs : [Registers -> Words64]]
InstructionType ==
  [row : LoadsAndStores, reg : Registers, gp : BOOLEAN, addr : Nat, imm : 0 .. 1]

\* the execute-only pages are none of the program's
ASSUME RsiAssumption ==
  /\ rsi \in [ret_sequence_page_addr : Nat, protection_size : Nat, start_addr_page : Nat]
  /\ XomPages \cap (Data \cup OriginalPages) = {}
  /\ ReadOnly \subseteq Data

\* The program computes no address in them, except from gp.  It may load into x0
\* from where it may load only: the handler does not try such a load.
ASSUME InstructionsAssumption ==
  \A t \in Threads : \A i \in Instructions[t] :
    /\ i \in InstructionType
    /\ i.row.form \in {"CL", "CS"} => i.reg \in 8 .. 15
    /\ IF i.gp THEN i.addr \in OriginalPages ELSE i.addr \notin XomPages
    /\ i.gp /\ Loads(i) /\ i.row.file = "x" /\ i.reg = 0 =>
         i.addr .. i.addr + i.row.width - 1 \subseteq Data

ASSUME InitialAssumption ==
  /\ InitialContexts \subseteq {c \in ContextType : c.gregs[0] = Word(0)}
  /\ InitialMemories \subseteq [Data -> Bytes]

VARIABLES
  ctx,      \* [gregs, fregs] of each thread
  at,       \* "program", "segfault_handler", "raise" or "program's handler"
  si_addr,  \* the address that caused the fault being handled
  instr,    \* the instruction at the program counter, once fetched
  mem,      \* the memory of the process
  action,   \* disposition of SIGSEGV
  process   \* "running", "killed" by a signal, or "exited"

vars == <<ctx, at, si_addr, instr, mem, action, process>>

REG_PC == 0

ISA == INSTANCE LoadStore WITH
  x <- [t \in Threads |-> [ctx[t].gregs EXCEPT ![REG_PC] = [k \in 1 .. 8 |-> 0]]],
  f <- [t \in Threads |-> ctx[t].fregs],
  pc <- [t \in Threads |-> ctx[t].gregs[REG_PC]]

Init ==
  /\ ctx \in [Threads -> InitialContexts]
  /\ at = [t \in Threads |-> "program"]
  /\ si_addr = [t \in Threads |-> 0]
  /\ instr = [t \in Threads |-> NoInstr]
  /\ mem \in InitialMemories
  /\ action = "segfault_handler"
  /\ process = "running"

-----------------------------------------------------------------------------
(***************************************************************************)
(* The program, the hart and the kernel.                                   *)
(***************************************************************************)

\* where the program's address computation puts an access to data at addr
Address(i) ==
  IF i.gp THEN i.addr - rsi.start_addr_page + rsi.ret_sequence_page_addr ELSE i.addr

Fetch(t) ==
  /\ process = "running" /\ at[t] = "program"
  /\ instr[t] = NoInstr
  /\ ctx[t].gregs[REG_PC][1] < MaxPc
  /\ \E i \in Instructions[t] : instr' = [instr EXCEPT ![t] = i]
  /\ UNCHANGED <<ctx, at, si_addr, mem, action, process>>

\* the context after instruction i
Executed(c, i) ==
  [gregs |-> [ISA!Loaded(c.gregs, "x", i) EXCEPT ![REG_PC] = Advance(@, Length(i))],
   fregs |-> ISA!Loaded(c.fregs, "f", i)]

\* an access that the page tables permit: its address was not computed from gp
Access(t) ==
  LET i == instr[t] IN
  /\ process = "running" /\ at[t] = "program"
  /\ i # NoInstr
  /\ ISA!Permitted(Address(i), i.row.width, Stores(i))
  /\ ctx' = [ctx EXCEPT ![t] = Executed(@, i)]
  /\ mem' = IF Stores(i) THEN Write(mem, i.addr, ISA!Operand(t, i)) ELSE mem
  /\ instr' = [instr EXCEPT ![t] = NoInstr]
  /\ UNCHANGED <<at, si_addr, action, process>>

\* the kernel sends SIGSEGV
Deliver(t, addr) ==
  /\ si_addr' = [si_addr EXCEPT ![t] = addr]
  /\ \/ /\ action = "segfault_handler"
        /\ at' = [at EXCEPT ![t] = "segfault_handler"]
        /\ UNCHANGED process
     \/ /\ action = "SIG_DFL"
        /\ process' = "killed"
        /\ UNCHANGED at
     \/ /\ action = "program's handler"
        /\ at' = [at EXCEPT ![t] = "program's handler"]
        /\ UNCHANGED process

Fault(t) ==
  LET i == instr[t] IN
  /\ process = "running" /\ at[t] = "program"
  /\ i # NoInstr
  /\ ~ ISA!Permitted(Address(i), i.row.width, Stores(i))
  /\ Deliver(t, Address(i))
  /\ UNCHANGED <<ctx, instr, mem, action>>

\* the program calls sigaction(SIGSEGV)
Sigaction(t) ==
  /\ OwnHandler
  /\ process = "running" /\ at[t] = "program" /\ instr[t] = NoInstr
  /\ action' = "program's handler"
  /\ UNCHANGED <<ctx, at, si_addr, instr, mem, process>>

\* the program's handler returns, and the access is tried again
HandlerReturns(t) ==
  /\ process = "running" /\ at[t] = "program's handler"
  /\ at' = [at EXCEPT ![t] = "program"]
  /\ UNCHANGED <<ctx, si_addr, instr, mem, action, process>>

-----------------------------------------------------------------------------
(***************************************************************************)
(* segfault_handler.  The emulate_ functions say what is to be done at     *)
(* backup_addr: load so many bytes into a register, store some bytes,      *)
(* nothing, or exit(1).                                                    *)
(***************************************************************************)
Load(file, reg, width, fill) ==
  [op |-> "load", file |-> file, reg |-> reg, width |-> width, fill |-> fill]
Store(word, width) == [op |-> "store", width |-> width, bytes |-> SubSeq(word, 1, width)]
Skip == [op |-> "skip", width |-> 0]
GiveUp == [op |-> "exit", width |-> 0]

\* 1 << n
Shift(n) ==
  <<1, 2, 4, 8, 16, 32, 64, 128, 256, 512, 1024, 2048, 4096, 8192, 16384>>[n + 1]

\* bits start .. start + len - 1; no field crosses the halves of an instruction
get_field(instruction, start, len) ==
  (instruction[1 + start \div 16] \div Shift(start % 16)) % Shift(len)

\* Bug: rd = 0 is not treated apart, and __gregs[0] is the program counter.
Bug_emulate_load_instruction(funct3, rd) ==
  CASE funct3 \in 0 .. 3 -> Load("gregs", rd, Shift(funct3), "sign")
    [] funct3 \in 4 .. 6 -> Load("gregs", rd, Shift(funct3 - 4), "zeros")
    [] OTHER             -> GiveUp

emulate_load_instruction(funct3, rd) ==
  IF rd = 0 THEN Skip
  ELSE CASE funct3 \in 0 .. 3 -> Load("gregs", rd, Shift(funct3), "sign")
         [] funct3 \in 4 .. 6 -> Load("gregs", rd, Shift(funct3 - 4), "zeros")
         [] OTHER             -> GiveUp

\* FLW boxes its value: the upper half is all ones
emulate_fload_instruction(funct3, rd) ==
  CASE funct3 = 2 -> Load("fregs", rd, 4, "ones")
    [] funct3 = 3 -> Load("fregs", rd, 8, "zeros")
    [] OTHER      -> GiveUp

emulate_store_instruction(c, funct3, rs2) ==
  IF funct3 \in 0 .. 3
  THEN Store(IF rs2 = 0 THEN Word(0) ELSE c.gregs[rs2], Shift(funct3))
  ELSE GiveUp

emulate_fstore_instruction(c, funct3, rs2) ==
  IF funct3 \in {2, 3} THEN Store(c.fregs[rs2], Shift(funct3)) ELSE GiveUp

emulate_c_load_store_instruction(c, funct3, reg) ==
  CASE funct3 = 1 -> Load("fregs", reg, 8, "zeros")
    [] funct3 = 2 -> Load("gregs", reg, 4, "sign")
    [] funct3 = 3 -> Load("gregs", reg, 8, "zeros")
    [] funct3 = 5 -> Store(c.fregs[reg], 8)
    [] funct3 = 6 -> Store(c.gregs[reg], 4)
    [] funct3 = 7 -> Store(c.gregs[reg], 8)
    [] OTHER      -> GiveUp

emulate_sp_rel_c_load_store_instruction(c, funct3, rd, rs2) ==
  CASE funct3 = 1 -> Load("fregs", rd, 8, "zeros")
    [] funct3 = 2 -> IF rd # 0 THEN Load("gregs", rd, 4, "sign") ELSE Skip
    [] funct3 = 3 -> IF rd # 0 THEN Load("gregs", rd, 8, "zeros") ELSE Skip
    [] funct3 = 5 -> Store(c.fregs[rs2], 8)
    [] funct3 = 6 -> Store(IF rs2 = 0 THEN Word(0) ELSE c.gregs[rs2], 4)
    [] funct3 = 7 -> Store(IF rs2 = 0 THEN Word(0) ELSE c.gregs[rs2], 8)
    [] OTHER      -> GiveUp

rvc_reg_map == <<8, 9, 10, 11, 12, 13, 14, 15>>

is_32bit(instruction) == get_field(instruction, 0, 2) = 3

\* the opcodes of rv_opcodes.h
emulate(c, instruction) ==
  LET Bits(start, len) == get_field(instruction, start, len)
      opcode == IF is_32bit(instruction) THEN Bits(0, 7) ELSE Bits(0, 2)
      funct3 == IF is_32bit(instruction) THEN Bits(12, 3) ELSE Bits(13, 3)
  IN
  CASE opcode = 3  -> emulate_load_instruction(funct3, Bits(7, 5))
    [] opcode = 7  -> emulate_fload_instruction(funct3, Bits(7, 5))
    [] opcode = 35 -> emulate_store_instruction(c, funct3, Bits(20, 5))
    [] opcode = 39 -> emulate_fstore_instruction(c, funct3, Bits(20, 5))
    [] opcode = 0  ->
         emulate_c_load_store_instruction(c, funct3, rvc_reg_map[1 + Bits(2, 3)])
    [] opcode = 2  ->
         emulate_sp_rel_c_load_store_instruction(c, funct3, Bits(7, 5), Bits(2, 5))
    [] OTHER       -> GiveUp

\* Bug: narrow loads leave the upper bytes of the register out.
Bug_Perform(c, todo, backup_addr, pc_step) ==
  LET loaded == Read(mem, backup_addr, todo.width)
      d == IF todo.op = "load" /\ todo.file = "gregs"
           THEN [c EXCEPT !.gregs[todo.reg] = loaded] ELSE c
  IN  [d EXCEPT !.gregs[REG_PC] = Advance(@, pc_step)]

\* the context after a load, with the instruction skipped
Perform(c, todo, backup_addr, pc_step) ==
  LET loaded == Extend(Read(mem, backup_addr, todo.width), todo.fill)
      d == CASE todo.op = "load" /\ todo.file = "gregs" ->
                  [c EXCEPT !.gregs[todo.reg] = loaded]
             [] todo.op = "load" /\ todo.file = "fregs" ->
                  [c EXCEPT !.fregs[todo.reg] = loaded]
             [] OTHER -> c
  IN  [d EXCEPT !.gregs[REG_PC] = Advance(@, pc_step)]

Redirect(t, backup_addr) ==
  LET instruction == Encode(instr[t])
      todo == emulate(ctx[t], instruction)
  IN
  /\ ISA!Permitted(backup_addr, todo.width, todo.op = "store")
  /\ todo.op # "exit"
  /\ ctx' = [ctx EXCEPT ![t] =
       Perform(@, todo, backup_addr, IF is_32bit(instruction) THEN 4 ELSE 2)]
  /\ mem' = IF todo.op = "store" THEN Write(mem, backup_addr, todo.bytes) ELSE mem
  /\ at' = [at EXCEPT ![t] = "program"]
  /\ instr' = [instr EXCEPT ![t] = NoInstr]
  /\ UNCHANGED <<si_addr, action, process>>

\* The access faults at backup_addr too.  SIGSEGV is not blocked (SA_NODEFER), so
\* the handler starts again, on top of itself; it will not return.
FaultAgain(t, backup_addr) ==
  LET todo == emulate(ctx[t], Encode(instr[t])) IN
  /\ ~ ISA!Permitted(backup_addr, todo.width, todo.op = "store")
  /\ Deliver(t, backup_addr)
  /\ UNCHANGED <<ctx, instr, mem, action>>

\* not an instruction the handler knows
Unimplemented(t) ==
  /\ emulate(ctx[t], Encode(instr[t])).op = "exit"
  /\ process' = "exited"
  /\ UNCHANGED <<ctx, at, si_addr, instr, mem, action>>

\* Bug: returns to the faulting instruction.
Bug_LetItBe(t) ==
  /\ at' = [at EXCEPT ![t] = "program"]
  /\ UNCHANGED <<ctx, si_addr, instr, mem, action, process>>

\* outside the execute-only pages: signal(sig, SIG_DFL)
LetItBe(t) ==
  /\ action' = "SIG_DFL"
  /\ at' = [at EXCEPT ![t] = "raise"]
  /\ UNCHANGED <<ctx, si_addr, instr, mem, process>>

InXom(addr) ==
  LET xom_start == rsi.ret_sequence_page_addr
      xom_end == xom_start + rsi.protection_size - 1
  IN  ~ (addr < xom_start \/ addr > xom_end)

segfault_handler(t) ==
  LET offset == si_addr[t] - rsi.ret_sequence_page_addr
      backup_addr == rsi.start_addr_page + offset
  IN
  /\ process = "running" /\ at[t] = "segfault_handler"
  /\ IF InXom(si_addr[t])
     THEN Redirect(t, backup_addr) \/ FaultAgain(t, backup_addr) \/ Unimplemented(t)
     ELSE LetItBe(t)

\* raise(sig): another thread may have called sigaction in between
raise(t) ==
  /\ process = "running" /\ at[t] = "raise"
  /\ \/ /\ action = "SIG_DFL"
        /\ process' = "killed"
        /\ UNCHANGED at
     \/ /\ action = "program's handler"
        /\ at' = [at EXCEPT ![t] = "program's handler"]
        /\ UNCHANGED process
  /\ UNCHANGED <<ctx, si_addr, instr, mem, action>>

Handler(t) == segfault_handler(t) \/ raise(t)

\* the process has ended, or every thread has come to the end of its program
Stopped ==
  /\ \/ process # "running"
     \/ \A t \in Threads : instr[t] = NoInstr /\ ctx[t].gregs[REG_PC][1] >= MaxPc
  /\ UNCHANGED vars

Next ==
  \/ \E t \in Threads :
       \/ Fetch(t) \/ Access(t) \/ Fault(t)
       \/ Sigaction(t) \/ HandlerReturns(t) \/ Handler(t)
  \/ Stopped

Spec == Init /\ [][Next]_vars

\* harts execute, the kernel delivers, the handler runs
FairSpec == Spec /\ \A t \in Threads : WF_vars(Access(t) \/ Fault(t) \/ Handler(t))

-----------------------------------------------------------------------------
\* Every variable has the type its comment gives it.
TypeOK ==
  /\ ctx \in [Threads -> ContextType]
  /\ at \in [Threads -> {"program", "segfault_handler", "raise", "program's handler"}]
  /\ si_addr \in [Threads -> Nat]
  /\ DOMAIN instr = Threads
  /\ \A t \in Threads : instr[t] \in Instructions[t] \cup {NoInstr}
  /\ mem \in [Data -> Bytes]
  /\ action \in {"segfault_handler", "SIG_DFL", "program's handler"}
  /\ process \in {"running", "killed", "exited"}

\* The program cannot tell: with the faults and the handler, the registers, the
\* program counters and the memory of all threads go through the same steps as
\* on a machine where gp was never moved; a thread that accesses memory it may
\* not is killed as it would be there, and nobody else is.  Only an atomic
\* instruction on data near gp may end the process instead, with nothing altered.
Transparent == ISA!Spec

\* No load or store is tried for ever: each is completed some day, by the hart or
\* by the handler, or ends the process, unless it is taken from the library by a
\* handler of the program's own.
AccessesComplete ==
  \A t \in Threads :
    instr[t] # NoInstr ~>
      instr[t] = NoInstr \/ process # "running" \/ at[t] = "program's handler"
=============================================================================
