--------------------------- MODULE SyscallService ---------------------------
(***************************************************************************)
(* What libvpoline promises to the code that makes system calls: a call is *)
(* shown to the hook, once, if there is one; either the hook answers it or *)
(* the kernel executes it, once; and its caller goes on with that answer.  *)
(* There are no registers, no stack and no gp here.                        *)
(*                                                                         *)
(* A thread has one activity going on and others suspended below it: hooks *)
(* that wait for a call of their own, and code a signal has interrupted.   *)
(***************************************************************************)
EXTENDS Integers, Sequences

CONSTANTS
  Threads, Main, App, Hook, Handler,
  Zero, KernelResult, HookResult, Junk,
  NR_other, NR_clone, NR_clone3, NR_rt_sigreturn, NR_exit

Clones == {NR_clone, NR_clone3}
Numbers == {NR_other, NR_rt_sigreturn, NR_exit} \cup Clones
NoThread == Junk

VARIABLES
  now,      \* the activity of each thread
  below,    \* the activities suspended below it
  alive,    \* the threads that have started and not ended
  born,     \* the threads that have started
  waits,    \* the vforked child each thread waits for
  hook_fn   \* "NULL" until the hook library is loaded

vars == <<now, below, alive, born, waits, hook_fn>>

\* the code that runs, or that waits for system call nr; result is the answer to
\* its last call
Activity(site, mode, nr, result) ==
  [site |-> site, mode |-> mode, nr |-> nr, result |-> result]
Running(site, result) == Activity(site, "running", NR_other, result)
Answered(a, result) == Activity(a.site, "answered", a.nr, result)

Init ==
  /\ now = [t \in Threads |-> Running(App, Junk)]
  /\ below = [t \in Threads |-> << >>]
  /\ alive = {Main}
  /\ born = {Main}
  /\ waits = [t \in Threads |-> NoThread]
  /\ hook_fn = "NULL"

\* thread t is free to go on with its activity, which is in the given mode
In(t, mode) == t \in alive /\ waits[t] = NoThread /\ now[t].mode = mode

Become(t, a) == now' = [now EXCEPT ![t] = a]
Push(t) == below' = [below EXCEPT ![t] = Append(@, now[t])]
Top(t) == below[t][Len(below[t])]
Pop(t) == below' = [below EXCEPT ![t] = SubSeq(@, 1, Len(@) - 1)]

-----------------------------------------------------------------------------
\* a system call of the program or of a signal handler
Issue(t, nr) ==
  /\ In(t, "running")
  /\ Become(t, Activity(now[t].site, "issued", nr, Junk))
  /\ UNCHANGED <<below, alive, born, waits, hook_fn>>

\* a system call of a hook
HookIssues(t, nr) ==
  /\ In(t, "hook")
  /\ Push(t)
  /\ Become(t, Activity(Hook, "issued", nr, Junk))
  /\ UNCHANGED <<alive, born, waits, hook_fn>>

Consult(t) ==
  /\ In(t, "issued")
  /\ hook_fn # "NULL"
  /\ now[t].nr # NR_rt_sigreturn
  /\ Become(t, [now[t] EXCEPT !.mode = "hook"])
  /\ UNCHANGED <<below, alive, born, waits, hook_fn>>

\* without a hook, and for rt_sigreturn, nobody is asked
Forward(t) ==
  /\ In(t, "issued")
  /\ hook_fn = "NULL" \/ now[t].nr = NR_rt_sigreturn
  /\ Become(t, [now[t] EXCEPT !.mode = "forwarded"])
  /\ UNCHANGED <<below, alive, born, waits, hook_fn>>

HookDeclines(t) ==
  /\ In(t, "hook")
  /\ Become(t, Activity(now[t].site, "forwarded", now[t].nr, Junk))
  /\ UNCHANGED <<below, alive, born, waits, hook_fn>>

\* with a result, or with anything if the hook did not store one
HookAnswers(t) ==
  /\ In(t, "hook")
  /\ \E result \in {HookResult, Junk} : Become(t, Answered(now[t], result))
  /\ UNCHANGED <<below, alive, born, waits, hook_fn>>

KernelAnswers(t) ==
  /\ In(t, "forwarded")
  /\ now[t].nr \in {NR_other} \cup Clones
  /\ Become(t, Answered(now[t], KernelResult))
  /\ UNCHANGED <<below, alive, born, waits, hook_fn>>

\* The child starts as if its parent's call had been answered with 0.  A parent
\* that vforked waits until the child has ended.
Clone(t, c) ==
  /\ In(t, "forwarded")
  /\ now[t].nr \in Clones
  /\ c \notin born
  /\ now' = [now EXCEPT ![t] = Answered(now[t], KernelResult),
                        ![c] = Answered(now[t], Zero)]
  /\ alive' = alive \cup {c}
  /\ born' = born \cup {c}
  /\ waits' \in {waits, [waits EXCEPT ![t] = c]}
  /\ UNCHANGED <<below, hook_fn>>

Exit(t) ==
  /\ In(t, "forwarded")
  /\ now[t].nr = NR_exit
  /\ alive' = alive \ {t}
  /\ waits' = [u \in Threads |-> IF waits[u] = t THEN NoThread ELSE waits[u]]
  /\ UNCHANGED <<now, below, born, hook_fn>>

\* The interrupted code goes on; or the kernel does not find the signal frame
Sigreturn(t) ==
  /\ In(t, "forwarded")
  /\ now[t].nr = NR_rt_sigreturn
  /\ \/ Become(t, Top(t)) /\ Pop(t) /\ UNCHANGED alive
     \/ alive' = alive \ {t} /\ UNCHANGED <<now, below>>
  /\ UNCHANGED <<born, waits, hook_fn>>

\* the caller goes on with the answer: the code that issued the call, or the
\* hook suspended right below
Return(t) ==
  /\ In(t, "answered")
  /\ IF now[t].site = Hook
     THEN Top(t).mode = "hook" /\ Become(t, [Top(t) EXCEPT !.result = now[t].result]) /\ Pop(t)
     ELSE Become(t, Running(now[t].site, now[t].result)) /\ UNCHANGED below
  /\ UNCHANGED <<alive, born, waits, hook_fn>>

Signal(t) ==
  /\ t \in alive /\ waits[t] = NoThread
  /\ Push(t)
  /\ Become(t, Running(Handler, Junk))
  /\ UNCHANGED <<alive, born, waits, hook_fn>>

HandlerReturns(t) ==
  /\ In(t, "running") /\ now[t].site = Handler
  /\ Become(t, Top(t)) /\ Pop(t)
  /\ UNCHANGED <<alive, born, waits, hook_fn>>

load_hook_lib ==
  /\ hook_fn = "NULL"
  /\ hook_fn' = "set"
  /\ UNCHANGED <<now, below, alive, born, waits>>

Next ==
  \/ \E t \in Threads :
       \/ \E nr \in Numbers : Issue(t, nr) \/ HookIssues(t, nr)
       \/ Consult(t) \/ Forward(t) \/ HookDeclines(t) \/ HookAnswers(t)
       \/ KernelAnswers(t) \/ Exit(t) \/ Sigreturn(t) \/ Return(t)
       \/ Signal(t) \/ HandlerReturns(t)
       \/ \E c \in Threads : Clone(t, c)
  \/ load_hook_lib

Spec == Init /\ [][Next]_vars
=============================================================================
