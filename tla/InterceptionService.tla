------------------------ MODULE InterceptionService ------------------------
(***************************************************************************)
(* Interception implements SyscallService.  How far a call has come shows  *)
(* in the block of code a thread executes; its answer is whatever is in    *)
(* a0.                                                                     *)
(***************************************************************************)
EXTENDS Interception

Mode(a) ==
  CASE a.pc \in {App, Handler}                       -> "running"
    [] a.pc = Hook                                   -> "hook"
    [] a.pc \in {"restore_context", "before_gp", "blocked", "exited", "lost"} ->
         IF a.call.handled \/ a.call.kernel > 0 THEN "answered" ELSE "forwarded"
    [] OTHER                                         -> "issued"

View(a) ==
  [ site   |-> IF a.pc \in {App, Handler} THEN a.pc ELSE a.call.site,
    mode   |-> Mode(a),
    nr     |-> IF a.pc \in {App, Handler} THEN NR_other ELSE a.call.regs["a7"],
    result |-> IF Mode(a) \in {"issued", "forwarded"} THEN Junk ELSE a.regs["a0"] ]

Started == {t \in Threads : pc[t] # "unborn"}

Going == {t \in Started : pc[t] \notin {"exited", "lost", "wild", "ebreak"}}

Now ==
  [t \in Threads |->
     IF t \in Started THEN View(Current(t))
     ELSE [site |-> App, mode |-> "running", nr |-> NR_other, result |-> Junk]]

Below == [t \in Threads |-> [i \in 1 .. Len(susp[t]) |-> View(susp[t][i])]]

Service == INSTANCE SyscallService WITH
  now <- Now, below <- Below, alive <- Going, born <- Started

\* With registers, stacks and gp hidden, the library does what SyscallService
\* says, step by step: each call is shown to the hook and answered once, the
\* answer reaches the caller, calls of hooks and handlers are over before the
\* code below goes on, and no thread gets anything of another's.
ImplementsService == Service!Spec
=============================================================================
