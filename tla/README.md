# A TLA+ verification of libvpoline

libvpoline intercepts the system calls of an unmodified RISC-V (rv64) Linux
program. It is loaded with `LD_PRELOAD`; its constructor rewrites every ECALL in
the text of glibc to `JALR GP, GP, 0` and moves the program's global pointer
(gp) to a page that holds the library's own code. These modules model the
library as the C and assembly of `src/src/` define it. Line numbers below refer
to those files.

## The system and its parts

| part | source | what it does | module |
|---|---|---|---|
| trampoline | patcher.c 46-97 | opens a 304-byte frame, saves t0-t3, jumps to `asm_syscall_hook` | Interception (one step), MachineCode (its twenty words) |
| address of `asm_syscall_hook` | patcher.c 62-96 | splits 64 bits into LUI and ADDI immediates | Immediates, MachineCode |
| `asm_syscall_hook` | main.c 85-261 | saves gp and the caller-saved registers, calls `syscall_hook`, restores, picks a return path | Interception |
| `syscall_hook` | main.c 265-288 | asks the user's `hook_fn` whether to forward the call | Interception |
| return sequence | patcher.c 112-157 | fourteen words below relocated_gp: three paths, two ECALLs, one final `JALR GP, GP, 0` | Interception, ReturnPage |
| promise to callers | main.c, patcher.c, libvpoline.h | what a caller, a hook and a handler see of an intercepted call | SyscallService, implemented by Interception (InterceptionService) |
| page layout | utils.c 36-97, main.h 30-84 | where relocated_gp, trampoline and return sequence lie | ReturnPage |
| fault redirection | sigsegv_handler.c 222-263 | a gp-relative access faults on the execute-only page; the handler computes the address meant | ReturnPage |
| instruction emulation | sigsegv_handler.c 33-392, rv_opcodes.h | decodes the faulting load or store and performs it in the saved context | Emulation, which implements LoadStore; both on RISCV |
| constructor | main.c 590-695 | order of the preparation steps | Startup |
| rewriting | main.c 315-545 | finds the executable mappings of libc.so.6 and sweeps over them | Startup (mappings and protections), Rewriter (the sweep) |
| hook loading | main.c 553-588 | `dlopen` of `$LIBVPHOOK`, `hook_init` | Startup, Interception |
| `__libc_start_main` | main.c 697-722 | moves gp again after `_start` has reset it | Startup |
| `syscall_no_intercept` | main.c 69-84 | unpatched ECALL offered to hooks | MachineCode |
| tests, benchmarks, build | test/, benchmark/, capstone/ | read for the expected behaviour | not modelled |

How they interact: Startup prepares the page that ReturnPage describes, in an
order that lets the constructor's own glibc calls work; one of its steps is the
sweep of Rewriter. From then on each patched ECALL starts the life of a call that
Interception describes, through the words that MachineCode executes, and each
access through gp takes the way of Emulation. The kernel, the program, hooks and
signal handlers are the environment, modelled from how the library uses them and
marked external in `PROJECT.json`.

Modules named MC... give constants small values for TLC; modules ending in Proofs,
and InterceptionInvariant and -Refinement, hold proofs.

## Interception: the life of a call

State, per thread: `pc` (the block of code, `before_gp` with `idx` for the return
sequence), `regs` (the registers the library saves, with a0 and gp), `sp` (depth
in frames of its `stack`), `mem` (the frame slots at their byte offsets), `susp`
(activities waiting below the current one), `waits` (parents in vfork). `call` and
`events` are history. One value stands for all values nobody may rely on (`Junk`);
argument values are the triple register, thread, call number, so a value restored
from the wrong register, thread or call is noticed.

Each action is one block of the assembly: the trampoline, the two saving blocks,
`syscall_hook` up to and after the call of the hook, the restoring block with its
three-way branch, and every one of the fourteen words. A signal may come between
any two actions, as finely as it matters: within a block the processor only moves
values between registers and a frame that no handler touches, with one
exception. gp changes in the middle of the first block (main.c 99); the action
before it and the action after it show both values of gp to handlers.

The environment: the program makes any call; hooks make one or more ordinary
calls; handlers make the calls in `HandlerNrs`, no clones; clone yields a thread on
a fresh stack, a fork on a copied one or a vfork child on the parent's own, or
fails; a handler returns through the vDSO, whose ECALL is not patched. A hook does not
itself clone (`safe_syscall_tracker.c` 18-20 asks this of hooks). `load_hook_lib` may
come at any time while `hook_fn` is NULL, also when `__hook_init` has started threads.

Runs with `CarefulHandlers = TRUE` assume that a handler which interrupted the
library while gp held a return address makes no glibc call; run `signals` shows
what happens without that assumption.

| run | instance | shows |
|---|---|---|
| nested | one thread, 4 frames, 4 events | with hooks that call glibc and signals anywhere: control never goes astray, each caller gets back its registers and stack pointer, each call is answered exactly once, the kernel sees the caller's arguments, frames of waiting hooks stay intact; every intercepted call ends; and SyscallService is implemented |
| clone | two threads, 2 frames, 2 events each | the same safety for parent and child of each kind of clone, and nobody writes to frames still in use, in particular not a vfork child; SyscallService is implemented |
| signals | careless handlers | **violation**: patcher.c 34-36 says every replaced ECALL jumps to the trampoline; not from a handler that starts between the JALR and main.c 99, or between the `ld gp` of a return path and its last JALR |
| sigreturn | handlers that call rt_sigreturn | **violation**: main.c 250-254 says sp is restored for a forwarded rt_sigreturn; the ECALL at `before_gp[4]` runs before `addi sp, sp, 304` |

Bounds: `MaxDepth` frames per stack and `MaxEvents` calls and signals per thread.
Two nested frames show one activity disturbing another, four let a hook's call be
interrupted by a signal whose handler calls glibc and meets the hook again. Two
threads suffice for the clone properties, which relate a parent and one child.

Fairness (`FairSpec`, run nested): each thread's `Progress` is weakly fair. The
kernel schedules runnable threads, and a hook or handler that is running goes on.
The program is free never to call, and no signal has to come. Hooks and handlers
make finitely many calls (`MaxEvents`): a hook that calls, through glibc, the very
call it is asked about recurses without end, and the library does not prevent it.

## SyscallService: what callers are promised

The abstract specification has no registers, no stack, no gp and no blocks of
code. A thread has one activity (who called, how far the call has come, its
number, the answer) and others suspended below it. A call is issued, shown to the
hook if there is one, declined or answered by the hook, otherwise answered once by
the kernel, and its caller goes on with that answer. Calls of a hook, and signal
handlers, are over before the code below them goes on. A cloned child starts as if
the parent's call had been answered with 0.

`InterceptionService` gives the refinement mapping: how far a call has come is read
off the block of code a thread executes and off `call`; the answer is whatever is in
a0. `ImplementsService` is checked in both passing runs and proved (below). It
rules out that a call is shown to
the hook twice, that an answer reaches the wrong caller, thread or level, or that a
step of one thread changes what another sees. It does not see the kernel execute
the same ordinary call twice with the same answer, a stutter for the mapping;
AnsweredOnce, which counts the answers, does. Two freedoms are in the abstract
specification because the code has them: a hook that returns 0 without storing a
result answers with anything (main.c 276-288), and an rt_sigreturn may not find its
frame (run sigreturn).

## ReturnPage: memory layout

State: `rsi` with the fields of `ReturnSequenceInfo` the code uses again, the
length made execute-only, and the last gp-relative access. Actions are the
functions of utils.c and patcher.c in the constructor's order, then accesses.

| run | instance | shows |
|---|---|---|
| page | 4096-byte pages, every 8-byte-aligned offset of gp, two mmap results, edge displacements | CodeInReservedPages: the constructor writes outside the reserved memory exactly if gp is less than 56 bytes from the start of its page or less than 80 from its end (`~ FittingOffset`), in which case the model stops; otherwise the protected length is the reserved length, and a redirected access goes to the byte originally meant |
| page_any_gp | the same | **violation**: utils.c 63-64 says the page will contain the return sequence; it does not when gp is less than 56 bytes into its page |
| page_reach | the same with all displacements | **violation**: main.h 56-59 needs any gp-relative access to fault and be redirected; displacements that leave the page do not |

## Emulation: loads and stores through gp

`LoadStore` says what harts do with the loads and stores of a program whose gp was
never moved; `Emulation` is the program under the library. Both use `RISCV`, a table
of all 27 loads and stores of RV64GC with their encodings and extensions, and one
atomic instruction. The table follows the ISA manual, the decoder of Emulation
follows sigsegv_handler.c and rv_opcodes.h, so a wrong opcode, field or extension
in the code shows as a difference between the two.

State: `ctx` (integer and floating-point registers; `__gregs[0]` is the program
counter), where each thread is (`at`), the fault address, the instruction, memory,
the disposition of SIGSEGV and the state of the process. `segfault_handler` is one
step per outcome: the access is emulated, it faults again at the original address
(SA_NODEFER, so the handler runs on top of itself), it is not implemented
(`exit(1)`), or the fault is none of the library's and the default action is
restored; `raise` follows as a step of its own, since other threads run in between.
The program may install a handler of its own, also between `signal(SIG_DFL)` and
`raise`, which then runs that handler instead of killing the process.

Three assumptions are about the program and its memory. The execute-only pages are
disjoint from its data and from the pages they stand for (`RsiAssumption`). It
computes addresses in them from gp only, and it loads into x0 through gp only from
memory it may read (`InstructionsAssumption`): for such a load the handler skips the
instruction without an access (sigsegv_handler.c 49), where the hart would fault.
`InstructionsAssumption` also leaves out gp-relative accesses whose displacement
leaves the reserved page: for them transparency fails, as run page_reach shows.

| run | instance | shows |
|---|---|---|
| emulation | two threads, pages of 16 bytes, all instructions with two registers each, at the start and last byte of the page, outside of it and on unmapped and read-only data | `Transparent`: LoadStore is implemented, byte for byte, register for register; `AccessesComplete`: no access is tried for ever |

Bounds: a page of 16 bytes holds two doublewords, which is enough for every width to
lie in it and to run out of it; the emulation does not look at the size elsewhere.
`MaxPc = 2` lets each thread execute one instruction of either length. One
instruction of each thread is enough for the handler, which keeps nothing from one
fault to the next; registers and memory start with bytes that are all told apart,
of both signs. Fairness: harts execute, the kernel delivers signals and the handler
runs; a handler of the program's own need not return.

## Rewriter: the sweep over one mapping

State: the mapping as the linker made it, its bytes now with those of the next
mapping, the position of the sweep, and the disassembler's context. Capstone is
external: given an address and a number of bytes it returns the length of a known
instruction or 0.

| run | instance | shows |
|---|---|---|
| rewriter | all mappings of up to 4 instructions out of 9, among them operands that look like an ECALL, EBREAK, which shares its opcode, instructions capstone does not know, and an ECALL cut by the end | nothing outside the mapping is written; whatever capstone knows, only bytes that spell ECALL are altered, and all four of them (OnlyEcallBytesPatched); if capstone knows all instructions, at each moment exactly the ECALLs behind the sweep are patched; the sweep ends |
| rewriter_unknown | the same | **violation**: main.c 409-410 says all ECALL occurrences are detected; after an undecodable instruction the sweep goes on at the next byte (main.c 435) and may decode across an ECALL |

Four instructions (`MaxItems`) let an unknown one be followed by one that is read
out of step, by the ECALL it swallows, and by one where both agree again. `Margin`
is the length of one instruction beyond the end. Fairness: weak fairness of the
one thread.

## MachineCode: the trampoline and syscall_no_intercept

`Immediates` is the arithmetic of patcher.c 62-96: the split of half an address into
a LUI and an ADDI, as uint32_t, and what the hart makes of them with both sign
extensions. `MachineCode` writes the twenty words and executes them one by one, and
likewise the nine instructions of `syscall_no_intercept`. OR and AND of two registers
are constants of the module; `BitsAssumption` says the little that the code needs of
them, TLC is given the real ones and evaluates it.

| run | instance | shows |
|---|---|---|
| machine_code | halves of 7 bits, immediates of 3, every even destination | the trampoline jumps to `asm_syscall_hook` (`JumpsToHook`), no register is lost on the way, and `syscall_no_intercept` asks the kernel what its caller asked and returns the answer |

The widths are scaled down and have the same proportions where it matters: a half
has several LUI steps, and every combination of sign bits and carries occurs. That
the code is right for 32 and 12 bits too is proved (`TrampolineCorrect`).

## Startup: from the constructor to main

State: the step reached, gp, what has been prepared, the lines of
`/proc/self/maps` (file, permissions, and whether the mapping starts at address 0,
which rewrite_code skips), current protections and rewritten mappings. `astray` records a
glibc call made when a patched ECALL could not have reached `asm_syscall_hook`.
Every step that can fail may `Exit`.

| run | instance | shows |
|---|---|---|
| startup | all contents of three map lines, DEBUG build | glibc calls work at all times, error exits included; main runs only with everything prepared and protections restored; the start ends |

Three lines give every order of rewritten and skipped mappings around a
rewritten one. Fairness is weak fairness of the single thread. Assumption:
`dlsym` at main.c 703, which runs with gp reset by `_start`, makes no system call
(`DlsymCalls = FALSE`). In a DEBUG build that skips a program, `__libc_start_main`
still sets gp, to an `rsi.relocated_gp` of 0 (main.c 710); MainRunsPrepared
leaves such programs out.

## Proofs

**ReturnPageProofs.** `PageLayoutCorrect`: for every page size of at least 136
bytes, every set of page-aligned mmap results, all displacements and all global
pointers, TypeOK, CodeInReservedPages, ReadyMeansProtected and RedirectedToOriginal
are invariants of `Spec`. The inductive invariant `IInv` adds what the properties
leave implicit: how `protection_size` and the addresses follow from the offset of gp
in its page (`Asked`, `Described`), and that relocated_gp has this offset in the
first reserved page. Its arithmetic core is the lemma that moving inside a page
keeps the page base (`MoveInPage`), from uniqueness of quotient and remainder
(`SplitUnique`).

**MachineCodeProofs.** `AddressRestored`: `Joined(dst) = dst` for every address, for all
widths with `IMM` even and a divisor of `HALF` (`WidthAssumption`); the code's are
2^12 and 2^32. Each half is restored modulo `HALF` (`HalfRestored`), because
what the ADDI subtracts by its sign is what the carry added to the LUI; the sign
extension of the LUI is a multiple of `HALF` and vanishes in the shift of the upper
half and the mask of the lower one.

`TrampolineCorrect`: TypeOK, JumpsToHook and NothingLost; `CallPassedOnAlways`:
CallPassedOn. Both hold for all widths, even destinations, initial registers and
answers of the kernel. The inductive invariant `IInv` says what each register holds
before each word: `SavedRegisters` for the caller's, `UpperHalf`, `LowerHalf` and
`MaskBits` for t0, t3, t1 and t2, `InsideCall` for the registers that
syscall_no_intercept moves. Assumed: `HALF` is an even multiple of `IMM`; OR of a
multiple of 2, of `IMM` or of `HALF` with a smaller number adds the two; AND with
`HALF - 1` is the remainder; code, and so return addresses, are aligned to two bytes;
x0 is 0.

**StartupProofs.** `StartPreparesMain` (main runs only fully prepared) and,
assuming `~ DlsymCalls`, `StartCallsWork` (no glibc call goes astray), for any
number of map lines and both builds. The inductive invariant has two parts:
`StepsInOrder` lists what each step may rely on, and `SweepInOrder` says that the
mappings rewritten are exactly those of libc.so.6's text up to the current line and
that no other mapping is left with changed protections.

**RewriterProofs.** For sections of any size and content, any instructions that
capstone knows, as long as ECALL is one of them, and any `Margin` of at least 4:

- `SweepCorrect`: TypeOK, ExactlyEcallsPatched, OnlyEcallBytesPatched and
  InsideMapping;
- `SweepComplete`: if capstone knows all instructions of the mapping, AllEcallsRewritten,
  which run rewriter_unknown refutes without that condition.

ExactlyEcallsPatched is not inductive: from a `code` in the middle of an instruction
the next decoded instruction could be part of an operand. The inductive invariant
`IInv` adds `OnStart`: while capstone knows everything, `code` is the start of an
instruction or the end of the mapping. A turn of the loop then looks at bytes that
are still the linker's, since patching changes only bytes before `code`, and moves
`code` to the next start. `SweepComplete` also needs that the loop ends at the end of
the mapping only (`SweptAll`). OnlyEcallBytesPatched needs no instruction boundaries:
a turn overwrites four bytes that spell ECALL and have not been altered (`SweepSpells`).

**EmulationProofs.** For any threads, memory, page size, initial registers and set of
instructions that satisfy the assumptions above:

- `HandlerInvariant`: TypeOK and `Pending`;
- `HandlerTransparent`: Spec implies Transparent, that is, Emulation implements
  LoadStore.

The argument has two halves. `Decoded` shows, row by row of the table, that `emulate`
finds in the encoding of an instruction the operation, register, width and extension
that the table gives it, whatever its register and immediate bits; from this,
`PerformExecutes` and `Executes` conclude that the context and memory after the
emulation are those after the instruction. The other half is about control. `Pending`
says what a running handler may rely on: its thread has an access to complete, which
either was computed from gp and faulted at that address or would fault on the
original data as well (a nested fault); a thread at `raise` has an access of
the second kind; and SIG_DFL is in place only while some thread is at `raise`. It
makes a default action that kills another thread's redirected access harmless: the
process was dying for an illegal access of somebody, a step that LoadStore has too.
Each action is then shown to be a step of LoadStore or none (`FetchKept`,
`AccessKept`, `RedirectKept` and so on).

**Interception**, in three modules. `InterceptionInvariant` states the inductive
invariant `IInv`, proves the lemmas about chains and steps of one thread, and that
the steps from the trampoline through the hook to the choice of a return path
preserve it. `InterceptionProofs` does the same for the return sequence, calls,
signals, clones and exits, and concludes with the first three items below.
`InterceptionRefinement` extends it, shows action by action which step of
SyscallService each step is, and proves the fourth.

- `InterceptionTransparent`: TypeOK, CallerContextRestored, AnsweredOnce,
  KernelSeesTheCall and SuspendedFramesIntact, for any set of threads, any
  `MaxDepth` and `MaxEvents`, and whatever `CarefulHandlers` is; for careless handlers
  this covers their threads up to a wild jump, which ends a thread in the model;
- `InterceptionNeverAstray`: NeverAstray, assuming `CarefulHandlers`;
- `CallersStackUntouched`: LiveStackUntouched, whatever `CarefulHandlers` is, with the
  same restriction;
- `InterceptionImplementsService`: Spec implies ImplementsService, assuming
  `CarefulHandlers`.

The properties speak of one thread at a few places and are far from inductive.
`IInv` needs three things more. `ActOK` says, for each block, where every register
of the caller is: in the register still, or in which slot of the frame, and whether
the call has been answered. `Chain` says this of all activities of a thread, the
suspended ones included, and orders them on the stack: each activity lies at or
below the base of every later one. Since an activity writes only above its own
base, its writes leave the frames of all earlier ones alone; because the order is
stated between all pairs, no induction over the chain is needed. `Sharing` says
that of the threads that share a stack (vfork) only one runs, that nobody uses the
stack of a thread to come, and which child a blocked parent waits for; a blocked
parent is at the last JALR, which reads nothing from the stack (`WaitingStable`),
so what its child does there is harmless to it.

`CallersStackUntouched` needs one invariant more, `Floor`: the program's own code is
at depth 0, whether it runs, is suspended or waits for a vforked child. A thread
writes only above its own base (`WritersWriteAbove`); on a stack that it shares with
a blocked parent this is above depth 0, which is all that the parent comes back to
(`WritesAbove`). A fork writes to a stack that nobody uses yet (`ForkWritesAbove`).

The refinement rests on `IInv` as well. What shows of an activity depends on its
block, a0 and `call` only (`ShownCases`); a step of one thread changes what shows of
that thread alone (`OneThread`, `Silent`); and `IInv` says what an activity that is
resumed will show (`Suspended`), that the last JALR finds an answered call, and that
a call which the hook is shown is no rt_sigreturn.

Assumptions on the constants: sites, blocks and system call numbers are distinct,
the bounds are natural numbers, and signal handlers do not clone
(`HandlerNrsAssumption`).

Only model-checked: liveness (EveryCallEnds, AccessesComplete, SweepEnds, StartEnds),
which is out of the prover's reach. The violations are found by TLC alone.

## Not modelled

- The DEBUG variants of the traps in sigsegv_handler.c, and the
  SUPPLEMENTAL__REWRITTEN_ADDR_CHECK build.
- Base registers: the effective address belongs to an instruction, so an emulated
  load into its own base register is not told apart.
- An access that starts below the execute-only pages and runs into them.
- Accesses of the kernel to buffers whose address was computed from gp: it returns
  EFAULT and sends no signal, so none of the library's code runs.
- The exit at main.c 395-398 for an instruction of length 0: capstone never reports
  success with that length.
- What DEBUG-skipped programs do with a gp of 0, and whether `dlsym` makes system calls.
- Instruction caches: no FENCE.I follows the patching.
- fcsr, which `asm_syscall_hook` does not save, and the alternate signal stack.
- Tests and benchmarks, which are programs that use the library.
