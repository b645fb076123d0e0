---------------------------- MODULE Interception ----------------------------
(***************************************************************************)
(* The life of one intercepted system call, from the patched ECALL of      *)
(* glibc to the instruction after it.                                      *)
(*                                                                         *)
(* Every ECALL of glibc has been overwritten with JALR GP, GP, 0, which    *)
(* jumps to relocated_gp and leaves the return address in gp.  At          *)
(* relocated_gp the trampoline opens a 304-byte frame, saves t0-t3 and     *)
(* jumps to asm_syscall_hook, which saves gp and the caller-saved          *)
(* registers, calls syscall_hook, restores them and leaves through one of  *)
(* the three return paths written below relocated_gp (before_gp[0..13]).   *)
(* All paths end in JALR GP, GP, 0 at before_gp[13]: it jumps back to the  *)
(* caller and, being the last word below relocated_gp, leaves relocated_gp *)
(* in gp again.                                                            *)
(*                                                                         *)
(* The hook may itself call glibc, a signal may arrive between any two     *)
(* steps and its handler may call glibc too, and clone starts threads      *)
(* (on a new stack), forked processes (on a copy of the stack) and vforked *)
(* processes (on the parent's own stack).                                  *)
(***************************************************************************)
EXTENDS Integers, Sequences

CONSTANTS
  Threads,        \* threads and processes, present and future
  Main,           \* the thread that runs when libvpoline is loaded
  App, Hook, Handler,
                  \* where a patched ECALL returns to: code of the program,
                  \* of the hook library, of a signal handler
  RelocatedGp,    \* the value rsi.relocated_gp
  Junk,           \* a value nobody may rely on
  Zero, One,      \* the two values syscall_hook returns in a1
  KernelResult, HookResult,
                  \* what the kernel, and the hook, answer to a call
  NR_other, NR_clone, NR_clone3, NR_rt_sigreturn, NR_exit,
                  \* system call numbers; NR_other stands for all calls that
                  \* return, NR_exit for those that do not (exit, execve)
  MaxDepth,       \* bound: frames on one stack
  MaxEvents,      \* bound: system calls and signals per thread
  HandlerNrs,     \* the system calls signal handlers make
  CarefulHandlers \* TRUE: a handler that interrupted the library while gp
                  \* was not relocated_gp makes no glibc call

Sites == {App, Hook, Handler}
Clones == {NR_clone, NR_clone3}
Numbers == {NR_other, NR_rt_sigreturn, NR_exit} \cup Clones
Marks == {RelocatedGp, Junk, Zero, One, KernelResult, HookResult}

\* the blocks of code of the library, and the ends a thread can come to
Blocks ==
  {"trampoline", "asm_syscall_hook", "save_context", "syscall_hook",
   "restore_context", "do_rt_sigreturn", "before_gp"}
Ends == {"unborn", "blocked", "exited", "lost", "wild", "ebreak"}
Places == Sites \cup Blocks \cup Ends

ASSUME ThreadsAssumption == Main \in Threads /\ Junk \notin Threads
ASSUME SitesAssumption ==
  /\ App # Hook /\ App # Handler /\ Hook # Handler
  /\ Sites \cap (Blocks \cup Ends) = {}
ASSUME NumbersAssumption ==
  /\ {NR_other, NR_rt_sigreturn, NR_exit} \cap Clones = {}
  /\ NR_rt_sigreturn \notin {NR_other, NR_exit} /\ NR_other # NR_exit
ASSUME HandlerNrsAssumption == HandlerNrs \subseteq Numbers \ Clones
ASSUME BoundsAssumption == MaxDepth \in Nat /\ MaxEvents \in Nat
ASSUME ChoiceAssumption == Zero # One /\ CarefulHandlers \in BOOLEAN

(***************************************************************************)
(* The frame: where each register is kept.  a0 has no slot: it carries the *)
(* first argument in and the result out.  Slot CLocal is in the frame of   *)
(* the C function syscall_hook, just below, which keeps a0 for a forwarded *)
(* call.                                                                   *)
(***************************************************************************)
SlotOf ==
  [ t0 |-> 0, t1 |-> 8, t2 |-> 16, t3 |-> 24, ra |-> 32,
    a1 |-> 40, a2 |-> 48, a3 |-> 56, a4 |-> 64, a5 |-> 72, a6 |-> 80, a7 |-> 88,
    t4 |-> 96, t5 |-> 104, t6 |-> 112,
    fa0 |-> 120, fa1 |-> 128, fa2 |-> 136, fa3 |-> 144,
    fa4 |-> 152, fa5 |-> 160, fa6 |-> 168, fa7 |-> 176,
    ft0 |-> 184, ft1 |-> 192, ft2 |-> 200, ft3 |-> 208, ft4 |-> 216, ft5 |-> 224,
    ft6 |-> 232, ft7 |-> 240, ft8 |-> 248, ft9 |-> 256, ft10 |-> 264, ft11 |-> 272,
    gp |-> 288 ]

CLocal == -8
Slots == {SlotOf[r] : r \in DOMAIN SlotOf} \cup {CLocal}
Regs == DOMAIN SlotOf \cup {"a0"}
ArgRegs == {"a0", "a1", "a2", "a3", "a4", "a5", "a7"}
TrampolineRegs == {"t0", "t1", "t2", "t3"}
HookRegs == DOMAIN SlotOf \ (TrampolineRegs \cup {"gp"})

Values == Marks \cup Sites \cup Numbers \cup (Regs \X Threads \X (0 .. MaxEvents))

StoreRegs(frame, R, g) ==
  [o \in Slots |-> IF \E r \in R : SlotOf[r] = o
                   THEN g[CHOOSE r \in R : SlotOf[r] = o]
                   ELSE frame[o]]

LoadRegs(frame, R, g) ==
  [r \in Regs |-> IF r \in R THEN frame[SlotOf[r]] ELSE g[r]]

\* what a C function leaves in the caller-saved registers
Clobbered(g, a0, a1) ==
  [r \in Regs |-> CASE r = "gp" -> g[r]
                    [] r = "a0" -> a0
                    [] r = "a1" -> a1
                    [] OTHER    -> Junk]

JunkRegs == [r \in Regs |-> Junk]
JunkFrame == [o \in Slots |-> Junk]

(***************************************************************************)
(* The fourteen words setup_return() writes, and where they are entered.   *)
(***************************************************************************)
RET_SEQUENCE_SIZE == 56

\* Bug: the clone path restores t0 after it has moved sp.
Bug_before_gp ==
  << "ld_gp", "ld_t0", "addi_sp", "j",
     "ecall", "ld_gp", "ld_t0", "addi_sp", "j",
     "ld_gp", "addi_sp", "ld_t0", "ecall",
     "jalr_gp" >>

before_gp ==
  << "ld_gp", "ld_t0", "addi_sp", "j",          \* the hook handled the call
     "ecall", "ld_gp", "ld_t0", "addi_sp", "j", \* forwarded call
     "ld_gp", "ld_t0", "addi_sp", "ecall",      \* clone, clone3
     "jalr_gp" >>

Instr(i) == before_gp[i + 1]
EntryAt(bytesBelowGp) == (RET_SEQUENCE_SIZE - bytesBelowGp) \div 4
\* Bug: the jumps of the return sequence miss by one word, or to themselves.
Bug_JumpTarget == 14
Bug_JumpTarget_self == 8

JumpTarget == 13

\* Bug: handled calls take the path of forwarded ones.
Bug_handled_ecall == EntryAt(40)
\* Bug: forwarded calls enter their path one word late.
Bug_return_prelude(a7) ==
  IF a7 \in Clones THEN EntryAt(20) ELSE EntryAt(36)

handled_ecall == EntryAt(56)
return_prelude(a7) ==
  IF a7 \in Clones THEN EntryAt(20) ELSE EntryAt(40)

\* Bug: the last JALR is not the word right below relocated_gp.
Bug_LinkAfter(i) == IF 4 * i = RET_SEQUENCE_SIZE THEN RelocatedGp ELSE Junk

\* the link register of a JALR at before_gp[i]: the address of the next word
LinkAfter(i) == IF 4 * (i + 1) = RET_SEQUENCE_SIZE THEN RelocatedGp ELSE Junk

VARIABLES
  pc,      \* the piece of code each thread executes
  idx,     \* its index in before_gp when pc is "before_gp"
  sp,      \* its stack depth, in frames above those of the program itself
  regs,    \* its registers
  stack,   \* the stack it runs on, named after the thread it was made for
  mem,     \* the frames of every stack, popped ones included
  susp,    \* activities suspended below the current one: a hook that called
           \* glibc, and code that a signal interrupted
  call,    \* history: the system call the current activity has issued
  events,  \* history: calls issued and signals received by each thread
  waits,   \* the vforked child each thread waits for
  hook_fn  \* the user's hook function, NULL until load_hook_lib

vars == <<pc, idx, sp, regs, stack, mem, susp, call, events, waits, hook_fn>>

NoThread == Junk

NoCall == [id |-> 0, site |-> Junk, sp |-> 0, regs |-> JunkRegs, kernel |-> 0,
           handled |-> FALSE, result |-> Junk]

Frame(t) == mem[stack[t]][sp[t]]
SetFrame(t, depth, f) == mem' = [mem EXCEPT ![stack[t]][depth] = f]
Goto(t, place) == pc' = [pc EXCEPT ![t] = place]
SetRegs(t, g) == regs' = [regs EXCEPT ![t] = g]

Alive(t) == pc[t] \notin Ends

Init ==
  /\ pc = [t \in Threads |-> IF t = Main THEN App ELSE "unborn"]
  /\ idx = [t \in Threads |-> 0]
  /\ sp = [t \in Threads |-> 0]
  /\ regs = [t \in Threads |-> [JunkRegs EXCEPT !["gp"] = RelocatedGp]]
  /\ stack = [t \in Threads |-> t]
  /\ mem = [t \in Threads |-> [d \in 0 .. MaxDepth |-> JunkFrame]]
  /\ susp = [t \in Threads |-> << >>]
  /\ call = [t \in Threads |-> NoCall]
  /\ events = [t \in Threads |-> 0]
  /\ waits = [t \in Threads |-> NoThread]
  /\ hook_fn = "NULL"

-----------------------------------------------------------------------------
(***************************************************************************)
(* Entering the library.                                                   *)
(***************************************************************************)

Current(t) ==
  [pc |-> pc[t], idx |-> idx[t], sp |-> sp[t], regs |-> regs[t], call |-> call[t]]

Suspend(t) == Append(susp[t], Current(t))

\* the registers with which code of thread t issues system call nr
CallerRegs(t, nr) ==
  [r \in Regs |-> CASE r = "gp" -> regs[t][r]
                    [] r = "a7" -> nr
                    [] OTHER    -> <<r, t, events[t]>>]

\* The patched ECALL at the given site: jalr gp, gp, 0.  It reaches the
\* trampoline only if gp is relocated_gp.
Ecall(t, site, nr) ==
  LET g == CallerRegs(t, nr) IN
  /\ pc[t] = site
  /\ events[t] < MaxEvents
  /\ sp[t] < MaxDepth
  /\ events' = [events EXCEPT ![t] = @ + 1]
  /\ call' = [call EXCEPT ![t] = [NoCall EXCEPT
              !.id = events[t] + 1, !.site = site, !.sp = sp[t], !.regs = g]]
  /\ susp' = IF site = Hook THEN [susp EXCEPT ![t] = Suspend(t)] ELSE susp
  /\ SetRegs(t, [g EXCEPT !["gp"] = site])
  /\ Goto(t, IF g["gp"] = RelocatedGp THEN "trampoline" ELSE "wild")
  /\ UNCHANGED <<idx, sp, stack, mem, waits, hook_fn>>

AppEcall(t) ==
  \E nr \in Numbers \ {NR_rt_sigreturn} : Ecall(t, App, nr)

HookEcall(t) == Ecall(t, Hook, NR_other)

HandlerEcall(t) ==
  /\ CarefulHandlers => regs[t]["gp"] = RelocatedGp
  /\ \E nr \in HandlerNrs : Ecall(t, Handler, nr)

\* Bug: t0-t3 are saved before the frame is opened.
Bug_setup_shadow_page_trampoline(t) ==
  /\ pc[t] = "trampoline"
  /\ sp' = [sp EXCEPT ![t] = @ + 1]
  /\ SetFrame(t, sp[t], StoreRegs(mem[stack[t]][sp[t]], TrampolineRegs, regs[t]))
  /\ SetRegs(t, [r \in Regs |-> IF r \in TrampolineRegs THEN Junk ELSE regs[t][r]])
  /\ Goto(t, "asm_syscall_hook")
  /\ UNCHANGED <<idx, stack, susp, call, events, waits, hook_fn>>

\* addi sp, sp, -304; save t0-t3; build &asm_syscall_hook in t0-t3; jump
setup_shadow_page_trampoline(t) ==
  /\ pc[t] = "trampoline"
  /\ sp' = [sp EXCEPT ![t] = @ + 1]
  /\ SetFrame(t, sp[t] + 1,
              StoreRegs(mem[stack[t]][sp[t] + 1], TrampolineRegs, regs[t]))
  /\ SetRegs(t, [r \in Regs |-> IF r \in TrampolineRegs THEN Junk ELSE regs[t][r]])
  /\ Goto(t, "asm_syscall_hook")
  /\ UNCHANGED <<idx, stack, susp, call, events, waits, hook_fn>>

\* Bug: gp is saved but not set to relocated_global_pointer.
Bug_asm_syscall_hook(t) ==
  /\ pc[t] = "asm_syscall_hook"
  /\ SetFrame(t, sp[t], StoreRegs(Frame(t), {"gp"}, regs[t]))
  /\ SetRegs(t, [regs[t] EXCEPT !["t1"] = regs[t]["gp"]])
  /\ Goto(t, IF regs[t]["a7"] = NR_rt_sigreturn
             THEN "do_rt_sigreturn" ELSE "save_context")
  /\ UNCHANGED <<idx, sp, stack, susp, call, events, waits, hook_fn>>

\* Bug: clone takes the path of rt_sigreturn.
Bug_asm_syscall_hook_clone(t) ==
  /\ pc[t] = "asm_syscall_hook"
  /\ SetFrame(t, sp[t], StoreRegs(Frame(t), {"gp"}, regs[t]))
  /\ SetRegs(t, [regs[t] EXCEPT !["t1"] = regs[t]["gp"], !["gp"] = RelocatedGp])
  /\ Goto(t, IF regs[t]["a7"] \in Clones \cup {NR_rt_sigreturn}
             THEN "do_rt_sigreturn" ELSE "save_context")
  /\ UNCHANGED <<idx, sp, stack, susp, call, events, waits, hook_fn>>

\* sd gp, 288(sp); mv t1, gp; gp := relocated_global_pointer
asm_syscall_hook(t) ==
  /\ pc[t] = "asm_syscall_hook"
  /\ SetFrame(t, sp[t], StoreRegs(Frame(t), {"gp"}, regs[t]))
  /\ SetRegs(t, [regs[t] EXCEPT !["t1"] = regs[t]["gp"], !["gp"] = RelocatedGp])
  /\ Goto(t, IF regs[t]["a7"] = NR_rt_sigreturn
             THEN "do_rt_sigreturn" ELSE "save_context")
  /\ UNCHANGED <<idx, sp, stack, susp, call, events, waits, hook_fn>>

\* Bug: ra, which the call instruction is about to overwrite, is not saved.
Bug_save_context(t) ==
  /\ pc[t] = "save_context"
  /\ SetFrame(t, sp[t], StoreRegs(Frame(t), HookRegs \ {"ra"}, regs[t]))
  /\ SetRegs(t, [regs[t] EXCEPT !["a6"] = regs[t]["t1"], !["ra"] = Junk])
  /\ Goto(t, "syscall_hook")
  /\ UNCHANGED <<idx, sp, stack, susp, call, events, waits, hook_fn>>

\* save the other caller-saved registers; mv a6, t1; call syscall_hook
save_context(t) ==
  /\ pc[t] = "save_context"
  /\ SetFrame(t, sp[t], StoreRegs(Frame(t), HookRegs, regs[t]))
  /\ SetRegs(t, [regs[t] EXCEPT !["a6"] = regs[t]["t1"], !["ra"] = Junk])
  /\ Goto(t, "syscall_hook")
  /\ UNCHANGED <<idx, sp, stack, susp, call, events, waits, hook_fn>>

-----------------------------------------------------------------------------
(***************************************************************************)
(* syscall_hook and the user's hook function.                              *)
(***************************************************************************)

\* Bug: the hook function is never asked.
Bug_syscall_hook_null(t) ==
  /\ pc[t] = "syscall_hook"
  /\ SetRegs(t, Clobbered(regs[t], regs[t]["a0"], Zero))
  /\ Goto(t, "restore_context")
  /\ UNCHANGED <<idx, sp, stack, mem, susp, call, events, waits, hook_fn>>

\* no hook function: ask for the call to be forwarded
syscall_hook_null(t) ==
  /\ pc[t] = "syscall_hook"
  /\ hook_fn = "NULL"
  /\ SetRegs(t, Clobbered(regs[t], regs[t]["a0"], Zero))
  /\ Goto(t, "restore_context")
  /\ UNCHANGED <<idx, sp, stack, mem, susp, call, events, waits, hook_fn>>

\* call the hook function, keeping a0
syscall_hook(t) ==
  /\ pc[t] = "syscall_hook"
  /\ hook_fn # "NULL"
  /\ SetFrame(t, sp[t], [Frame(t) EXCEPT ![CLocal] = regs[t]["a0"]])
  /\ SetRegs(t, Clobbered(regs[t], Junk, Junk))
  /\ Goto(t, Hook)
  /\ UNCHANGED <<idx, sp, stack, susp, call, events, waits, hook_fn>>

\* Bug: a0 is not given back to a call that is to be forwarded.
Bug_HookForwards(t) ==
  /\ pc[t] = Hook
  /\ SetRegs(t, Clobbered(regs[t], Junk, Zero))
  /\ Goto(t, "restore_context")
  /\ UNCHANGED <<idx, sp, stack, mem, susp, call, events, waits, hook_fn>>

\* the hook function returns non-zero: forward to the kernel
HookForwards(t) ==
  /\ pc[t] = Hook
  /\ SetRegs(t, Clobbered(regs[t], Frame(t)[CLocal], Zero))
  /\ Goto(t, "restore_context")
  /\ UNCHANGED <<idx, sp, stack, mem, susp, call, events, waits, hook_fn>>

\* Bug: the first argument is returned instead of the hook's result.
Bug_HookHandles(t) ==
  /\ pc[t] = Hook
  /\ \E result \in {HookResult, Junk} :
       /\ SetRegs(t, Clobbered(regs[t], Frame(t)[CLocal], One))
       /\ call' = [call EXCEPT ![t].handled = TRUE, ![t].result = result]
  /\ Goto(t, "restore_context")
  /\ UNCHANGED <<idx, sp, stack, mem, susp, events, waits, hook_fn>>

\* The hook function returns 0: handled.  If it did not store a result,
\* syscall_hook reads an uninitialised variable.
HookHandles(t) ==
  /\ pc[t] = Hook
  /\ \E result \in {HookResult, Junk} :
       /\ SetRegs(t, Clobbered(regs[t], result, One))
       /\ call' = [call EXCEPT ![t].handled = TRUE, ![t].result = result]
  /\ Goto(t, "restore_context")
  /\ UNCHANGED <<idx, sp, stack, mem, susp, events, waits, hook_fn>>

-----------------------------------------------------------------------------
(***************************************************************************)
(* Leaving the library.                                                    *)
(***************************************************************************)

LeaveAt(t, i) ==
  /\ idx' = [idx EXCEPT ![t] = i]
  /\ Goto(t, "before_gp")

\* Bug: t3 is not restored.
Bug_restore_context(t) ==
  LET choice == regs[t]["a1"]
      g == LoadRegs(Frame(t), HookRegs \cup {"t1", "t2"}, regs[t])
  IN
  /\ pc[t] = "restore_context"
  /\ SetRegs(t, [g EXCEPT !["t0"] = Junk])
  /\ CASE choice = Zero -> LeaveAt(t, return_prelude(g["a7"]))
       [] choice = One  -> LeaveAt(t, handled_ecall)
       [] OTHER         -> Goto(t, "ebreak") /\ UNCHANGED idx
  /\ UNCHANGED <<sp, stack, mem, susp, call, events, waits, hook_fn>>

\* mv t0, a1; restore everything but a0, t0, gp; choose the return path
restore_context(t) ==
  LET choice == regs[t]["a1"]
      g == LoadRegs(Frame(t), HookRegs \cup (TrampolineRegs \ {"t0"}), regs[t])
  IN
  /\ pc[t] = "restore_context"
  /\ SetRegs(t, [g EXCEPT !["t0"] = Junk])
  /\ CASE choice = Zero -> LeaveAt(t, return_prelude(g["a7"]))
       [] choice = One  -> LeaveAt(t, handled_ecall)
       [] OTHER         -> Goto(t, "ebreak") /\ UNCHANGED idx
  /\ UNCHANGED <<sp, stack, mem, susp, call, events, waits, hook_fn>>

\* rt_sigreturn is not shown to the hook: restore t1-t3 and forward it
do_rt_sigreturn(t) ==
  /\ pc[t] = "do_rt_sigreturn"
  /\ SetRegs(t, [LoadRegs(Frame(t), TrampolineRegs \ {"t0"}, regs[t])
                   EXCEPT !["t0"] = Junk])
  /\ LeaveAt(t, return_prelude(regs[t]["a7"]))
  /\ UNCHANGED <<sp, stack, mem, susp, call, events, waits, hook_fn>>

At(t, instr) == pc[t] = "before_gp" /\ Instr(idx[t]) = instr
Step(t, i) == idx' = [idx EXCEPT ![t] = i]

\* ld gp, 288(sp)
ld_gp(t) ==
  /\ At(t, "ld_gp")
  /\ SetRegs(t, LoadRegs(Frame(t), {"gp"}, regs[t]))
  /\ Step(t, idx[t] + 1)
  /\ UNCHANGED <<pc, sp, stack, mem, susp, call, events, waits, hook_fn>>

\* ld t0, 0(sp)
ld_t0(t) ==
  /\ At(t, "ld_t0")
  /\ SetRegs(t, LoadRegs(Frame(t), {"t0"}, regs[t]))
  /\ Step(t, idx[t] + 1)
  /\ UNCHANGED <<pc, sp, stack, mem, susp, call, events, waits, hook_fn>>

\* addi sp, sp, 304
addi_sp(t) ==
  /\ At(t, "addi_sp")
  /\ sp' = [sp EXCEPT ![t] = @ - 1]
  /\ Step(t, idx[t] + 1)
  /\ UNCHANGED <<pc, regs, stack, mem, susp, call, events, waits, hook_fn>>

\* j before_gp[13]
j_last(t) ==
  /\ At(t, "j")
  /\ Step(t, JumpTarget)
  /\ UNCHANGED <<pc, sp, regs, stack, mem, susp, call, events, waits, hook_fn>>

\* jalr gp, gp, 0: back to the caller, with gp set to the next address
jalr_gp(t) ==
  LET target == regs[t]["gp"] IN
  /\ At(t, "jalr_gp")
  /\ SetRegs(t, [regs[t] EXCEPT !["gp"] = LinkAfter(idx[t])])
  /\ Goto(t, IF target \in Sites THEN target ELSE "wild")
  /\ IF target = Hook /\ susp[t] # << >>
     THEN /\ call' = [call EXCEPT ![t] = susp[t][Len(susp[t])].call]
          /\ susp' = [susp EXCEPT ![t] = SubSeq(@, 1, Len(@) - 1)]
     ELSE /\ call' = [call EXCEPT ![t] = NoCall]
          /\ UNCHANGED susp
  /\ UNCHANGED <<idx, sp, stack, mem, events, waits, hook_fn>>

-----------------------------------------------------------------------------
(***************************************************************************)
(* The kernel: the ECALLs of the return paths, and signals.                *)
(***************************************************************************)

Served(c, result) == [c EXCEPT !.kernel = @ + 1, !.result = result]

\* an ordinary call, or a clone that fails: only a0 changes
KernelReturns(t) ==
  /\ At(t, "ecall")
  /\ regs[t]["a7"] \in {NR_other} \cup Clones
  /\ SetRegs(t, [regs[t] EXCEPT !["a0"] = KernelResult])
  /\ call' = [call EXCEPT ![t] = Served(@, KernelResult)]
  /\ Step(t, idx[t] + 1)
  /\ UNCHANGED <<pc, sp, stack, mem, susp, events, waits, hook_fn>>

\* The child c starts with the registers of the parent t, at the same
\* instruction, with a0 = 0 and the stack pointer depth on stack s.
Spawn(t, c, s, depth) ==
  /\ At(t, "ecall")
  /\ regs[t]["a7"] \in Clones
  /\ pc[c] = "unborn"
  /\ regs' = [regs EXCEPT ![t]["a0"] = KernelResult,
                          ![c] = [regs[t] EXCEPT !["a0"] = Zero]]
  /\ call' = [call EXCEPT ![t] = Served(@, KernelResult),
                          ![c] = [Served(call[t], Zero) EXCEPT !.sp = depth]]
  /\ idx' = [idx EXCEPT ![t] = @ + 1, ![c] = idx[t] + 1]
  /\ stack' = [stack EXCEPT ![c] = s]
  /\ sp' = [sp EXCEPT ![c] = depth]
  /\ UNCHANGED <<susp, events, hook_fn>>

\* a thread: the caller of clone passes the top of a fresh stack
CloneThread(t, c) ==
  /\ Spawn(t, c, c, 0)
  /\ Goto(c, "before_gp")
  /\ UNCHANGED <<mem, waits>>

\* fork: the child has a copy of the memory
CloneFork(t, c) ==
  /\ Spawn(t, c, c, sp[t])
  /\ Goto(c, "before_gp")
  /\ mem' = [mem EXCEPT ![c] = mem[stack[t]]]
  /\ UNCHANGED waits

\* vfork: the child runs on the parent's stack while the parent waits
CloneVfork(t, c) ==
  /\ Spawn(t, c, stack[t], sp[t])
  /\ pc' = [pc EXCEPT ![c] = "before_gp", ![t] = "blocked"]
  /\ waits' = [waits EXCEPT ![t] = c]
  /\ UNCHANGED mem

\* exit or execve: the thread is gone, a parent that vforked it goes on
KernelExits(t) ==
  /\ At(t, "ecall")
  /\ regs[t]["a7"] = NR_exit
  /\ pc' = [u \in Threads |-> IF u = t THEN "exited"
                              ELSE IF waits[u] = t THEN "before_gp" ELSE pc[u]]
  /\ waits' = [u \in Threads |-> IF waits[u] = t THEN NoThread ELSE waits[u]]
  /\ UNCHANGED <<idx, sp, regs, stack, mem, susp, call, events, hook_fn>>

\* continue the interrupted code with the registers in the signal frame
Resume(t) ==
  LET c == susp[t][Len(susp[t])] IN
  /\ pc' = [pc EXCEPT ![t] = c.pc]
  /\ idx' = [idx EXCEPT ![t] = c.idx]
  /\ sp' = [sp EXCEPT ![t] = c.sp]
  /\ regs' = [regs EXCEPT ![t] = c.regs]
  /\ call' = [call EXCEPT ![t] = c.call]
  /\ susp' = [susp EXCEPT ![t] = SubSeq(@, 1, Len(@) - 1)]
  /\ UNCHANGED <<stack, mem, events, waits, hook_fn>>

\* the depth at which the kernel pushed the signal frame being handled
SigframeDepth(t) == susp[t][Len(susp[t])].sp + 1

\* rt_sigreturn takes the signal frame to be at sp.  If it is not, the kernel
\* loads the registers from whatever is there, or kills the process.
KernelSigreturns(t) ==
  /\ At(t, "ecall")
  /\ regs[t]["a7"] = NR_rt_sigreturn
  /\ IF sp[t] = SigframeDepth(t)
     THEN Resume(t)
     ELSE /\ Goto(t, "lost")
          /\ UNCHANGED <<idx, sp, regs, stack, mem, susp, call, events, waits, hook_fn>>

\* A signal is delivered: the kernel pushes a signal frame and starts the
\* handler.  It does not touch gp.
Signal(t) ==
  /\ Alive(t)
  /\ events[t] < MaxEvents
  /\ sp[t] < MaxDepth
  /\ susp' = [susp EXCEPT ![t] = Suspend(t)]
  /\ sp' = [sp EXCEPT ![t] = @ + 1]
  /\ SetFrame(t, sp[t] + 1, JunkFrame)
  /\ SetRegs(t, [JunkRegs EXCEPT !["gp"] = regs[t]["gp"]])
  /\ call' = [call EXCEPT ![t] = NoCall]
  /\ events' = [events EXCEPT ![t] = @ + 1]
  /\ Goto(t, Handler)
  /\ UNCHANGED <<idx, stack, waits, hook_fn>>

\* the handler returns through the vDSO, whose ECALL is not patched
HandlerReturns(t) ==
  /\ pc[t] = Handler
  /\ Resume(t)

-----------------------------------------------------------------------------
\* The last thing the constructor does: from now on calls reach the hook, also
\* those of threads that __hook_init has started.
load_hook_lib(t) ==
  /\ t = Main
  /\ pc[t] = App
  /\ hook_fn = "NULL"
  /\ hook_fn' = "set"
  /\ UNCHANGED <<pc, idx, sp, regs, stack, mem, susp, call, events, waits>>

Clone(t) ==
  \E c \in Threads : CloneThread(t, c) \/ CloneFork(t, c) \/ CloneVfork(t, c)

\* The steps of thread t that the processor, the kernel or the end of a hook
\* or handler will make happen
Progress(t) ==
  \/ HookEcall(t) \/ HandlerEcall(t)
  \/ setup_shadow_page_trampoline(t) \/ asm_syscall_hook(t) \/ save_context(t)
  \/ syscall_hook_null(t) \/ syscall_hook(t) \/ HookForwards(t) \/ HookHandles(t)
  \/ restore_context(t) \/ do_rt_sigreturn(t)
  \/ ld_gp(t) \/ ld_t0(t) \/ addi_sp(t) \/ j_last(t) \/ jalr_gp(t)
  \/ KernelReturns(t) \/ Clone(t) \/ KernelExits(t) \/ KernelSigreturns(t)
  \/ HandlerReturns(t)

\* nobody is inside the library and nobody has to go on
AtRest ==
  /\ \A t \in Threads : pc[t] \in {App, "unborn", "blocked", "exited", "lost"}
  /\ UNCHANGED vars

Next ==
  \/ \E t \in Threads : AppEcall(t) \/ Signal(t) \/ load_hook_lib(t) \/ Progress(t)
  \/ AtRest

Spec == Init /\ [][Next]_vars

FairSpec == Spec /\ \A t \in Threads : WF_vars(Progress(t))

-----------------------------------------------------------------------------
(***************************************************************************)
(* Properties.                                                             *)
(***************************************************************************)

RegFiles == [Regs -> Values]

CallRecords ==
  [id : 0 .. MaxEvents, site : Sites \cup {Junk}, sp : 0 .. MaxDepth,
   regs : RegFiles, kernel : Nat, handled : BOOLEAN, result : Values]

Activities ==
  [pc : Places, idx : 0 .. 13, sp : 0 .. MaxDepth, regs : RegFiles, call : CallRecords]

\* Every variable has the type its comment gives it.
TypeOK ==
  /\ pc \in [Threads -> Places]
  /\ idx \in [Threads -> 0 .. 13]
  /\ sp \in [Threads -> 0 .. MaxDepth]
  /\ regs \in [Threads -> RegFiles]
  /\ stack \in [Threads -> Threads]
  /\ mem \in [Threads -> [0 .. MaxDepth -> [Slots -> Values]]]
  /\ susp \in [Threads -> Seq(Activities)]
  /\ call \in [Threads -> CallRecords]
  /\ events \in [Threads -> 0 .. MaxEvents]
  /\ waits \in [Threads -> Threads \cup {NoThread}]
  /\ hook_fn \in {"NULL", "set"}

\* Control never leaves the intended path: every patched ECALL reaches the
\* trampoline (gp is relocated_gp whenever glibc is entered), the final JALR
\* reaches a caller, and the ebreak of asm_syscall_hook is never executed.
NeverAstray == \A t \in Threads : pc[t] \notin {"wild", "ebreak"}

\* Each JALR that replaced an ECALL jumps to the trampoline at relocated_gp.
EveryEcallReachesTrampoline ==
  [][\A t \in Threads :
       events'[t] # events[t] /\ call'[t].id = events'[t]
         => pc'[t] = "trampoline"]_vars

\* When the final JALR of the return sequence is about to run, in the caller
\* or in a child it cloned, gp is the address after this call's own ECALL, the
\* stack pointer is the caller's, and every register the library may have
\* used, a0 apart, is as the caller left it: however often hook, handlers and
\* children used the stack and the registers in between.
CallerContextRestored ==
  \A t \in Threads : At(t, "jalr_gp") =>
    /\ regs[t]["gp"] = call[t].site
    /\ sp[t] = call[t].sp
    /\ \A r \in Regs \ {"a0", "gp"} : regs[t][r] = call[t].regs[r]

\* A call is answered exactly once: if the hook handled it the kernel never
\* saw it, otherwise the kernel executed it once, and a0 is that answer.
AnsweredOnce ==
  \A t \in Threads : At(t, "jalr_gp") =>
    /\ call[t].kernel = (IF call[t].handled THEN 0 ELSE 1)
    /\ regs[t]["a0"] = call[t].result

\* The ECALLs of the return sequence pass the kernel the number and the
\* arguments of the call that glibc made, and only for a call that neither
\* the hook nor the kernel has answered yet.
KernelSeesTheCall ==
  \A t \in Threads : At(t, "ecall") =>
    /\ \A r \in ArgRegs : regs[t][r] = call[t].regs[r]
    /\ ~ call[t].handled
    /\ call[t].kernel = 0

\* While a hook of a running thread waits for a glibc call it made, or is
\* interrupted by a signal, the frame of the call it was asked about holds
\* everything that asm_syscall_hook will restore.
SuspendedFramesIntact ==
  \A t \in Threads : \A i \in 1 .. Len(susp[t]) : Alive(t) /\ susp[t][i].pc = Hook =>
    LET c == susp[t][i].call
        f == mem[stack[t]][susp[t][i].sp]
    IN  /\ f[SlotOf["gp"]] = c.site
        /\ f[CLocal] = c.regs["a0"]
        /\ \A r \in DOMAIN SlotOf \ {"gp"} : f[SlotOf[r]] = c.regs[r]

\* The stack of thread t up to this depth belongs to code that waits: the code
\* that made the call in progress and all that is suspended below it, down to
\* the program, whose own frames are depth 0.  A thread that is gone has none.
LiveDepth(t) ==
  IF pc[t] \in Ends \ {"blocked"} THEN -1
  ELSE IF pc[t] \in {App, Handler} THEN sp[t] ELSE call[t].sp

\* No step of the library, in whatever thread, writes to the stack of code that
\* waits; in particular not in a vforked child, which runs on its parent's.
LiveStackUntouched ==
  [][\A t \in Threads : \A d \in 0 .. LiveDepth(t) :
       mem'[stack[t]][d] = mem[stack[t]][d]]_vars

Outstanding(t, n) ==
  /\ pc[t] \notin {"unborn", "blocked", "exited", "lost"}
  /\ \/ call[t].id = n
     \/ \E i \in 1 .. Len(susp[t]) : susp[t][i].call.id = n

\* Every intercepted call is over some day: it returns to its caller, ends its
\* thread, or waits for a vforked child.
EveryCallEnds ==
  \A t \in Threads : \A n \in 1 .. MaxEvents : Outstanding(t, n) ~> ~ Outstanding(t, n)

\* The kernel finds the signal frame where rt_sigreturn expects it: asm_syscall_hook
\* promises to restore sp before it forwards that call.
SigreturnSeesItsFrame ==
  \A t \in Threads :
    At(t, "ecall") /\ regs[t]["a7"] = NR_rt_sigreturn => sp[t] = SigframeDepth(t)

=============================================================================
