----------------------- MODULE InterceptionRefinement -----------------------
(***************************************************************************)
(* Every step of Interception is a step of SyscallService, or none, once   *)
(* registers, stacks and gp are hidden.                                    *)
(***************************************************************************)
EXTENDS InterceptionProofs, InterceptionService

\* what shows of code at p with registers g and call k
Shown(p, g, k) == View([pc |-> p, regs |-> g, call |-> k])

Issued == {"trampoline", "asm_syscall_hook", "save_context", "syscall_hook",
           "do_rt_sigreturn"}
Decided == {"restore_context", "before_gp", "blocked", "exited", "lost"}

-----------------------------------------------------------------------------
(***************************************************************************)
(* What shows of an activity.                                              *)
(***************************************************************************)

\* How far a call has come, by the block of code.
LEMMA ShownCases ==
  ASSUME NEW p, NEW g, NEW k, k.kernel \in Nat, k.handled \in BOOLEAN
  PROVE  /\ p \in {App, Handler} => Shown(p, g, k) = Service!Running(p, g["a0"])
         /\ p \in Issued =>
              Shown(p, g, k) = Service!Activity(k.site, "issued", k.regs["a7"], Junk)
         /\ p = Hook =>
              Shown(p, g, k) = Service!Activity(k.site, "hook", k.regs["a7"], g["a0"])
         /\ p \in Decided /\ ~ k.handled /\ k.kernel = 0 =>
              Shown(p, g, k) = Service!Activity(k.site, "forwarded", k.regs["a7"], Junk)
         /\ p \in Decided /\ (k.handled \/ k.kernel > 0) =>
              Shown(p, g, k) = Service!Activity(k.site, "answered", k.regs["a7"], g["a0"])
<1> DEFINE a == [pc |-> p, regs |-> g, call |-> k]
<1>1. a.pc = p /\ a.regs = g /\ a.call = k
  BY Zenon
<1>2. /\ {App, Handler} \cap (Issued \cup Decided \cup {Hook}) = {}
      /\ Hook \notin Issued \cup Decided
  BY SitesAssumption, Zenon DEF Sites, Blocks, Ends, Issued, Decided
<1>3. Issued \cap Decided = {}
  BY Zenon DEF Issued, Decided
<1> HIDE DEF a
<1>4. /\ p \in {App, Handler} => Mode(a) = "running"
      /\ p \in Issued => Mode(a) = "issued"
      /\ p = Hook => Mode(a) = "hook"
      /\ p \in Decided /\ ~ k.handled /\ k.kernel = 0 => Mode(a) = "forwarded"
      /\ p \in Decided /\ (k.handled \/ k.kernel > 0) => Mode(a) = "answered"
  BY <1>1, <1>2, <1>3 DEF Mode, Decided
<1>5. Shown(p, g, k) = View(a)
  BY Zenon DEF Shown, a
<1> QED
  BY <1>1, <1>2, <1>4, <1>5, Zenon DEF View, Service!Running, Service!Activity

\* Records of the abstract specification, and changes to them.
LEMMA ActivityChanges ==
  ASSUME NEW s, NEW m, NEW n, NEW r, NEW x, NEW y,
         NEW a, a = Service!Activity(s, m, n, r)
  PROVE  /\ a.site = s /\ a.mode = m /\ a.nr = n /\ a.result = r
         /\ [a EXCEPT !.mode = x] = Service!Activity(s, x, n, r)
         /\ [a EXCEPT !.result = y] = Service!Activity(s, m, n, y)
         /\ Service!Answered(a, y) = Service!Activity(s, "answered", n, y)
  BY DEF Service!Activity, Service!Answered

\* Only the place, the registers and the call of an activity show.
LEMMA ShownOf ==
  ASSUME NEW a
  PROVE  View(a) = Shown(a.pc, a.regs, a.call)
<1> DEFINE b == [pc |-> a.pc, regs |-> a.regs, call |-> a.call]
<1>1. b.pc = a.pc /\ b.regs = a.regs /\ b.call = a.call
  BY Zenon
<1> HIDE DEF b
<1>2. Mode(b) = Mode(a)
  BY <1>1, Zenon DEF Mode
<1>3. View(b) = View(a)
  BY <1>1, <1>2, Zenon DEF View
<1> QED
  BY <1>3, Zenon DEF Shown, b

\* What shows of a running thread.
LEMMA Shows ==
  ASSUME IInv, NEW t \in Threads, Alive(t)
  PROVE  /\ Now[t] = Shown(pc[t], regs[t], call[t])
         /\ Now = [Now EXCEPT ![t] = Now[t]]
         /\ t \in Going /\ t \in Started /\ waits[t] = NoThread
         /\ call[t].kernel \in Nat /\ call[t].handled \in BOOLEAN
<1>1. TypeOK /\ Sharing
  BY Zenon DEF IInv
<1>2. t \in Going /\ t \in Started
  BY Zenon DEF Going, Started, Alive, Ends
<1>3. waits[t] = NoThread
  BY <1>1, Zenon DEF Sharing, Alive, Ends
<1>4. View(Current(t)) = Shown(pc[t], regs[t], call[t])
  BY ShownOf, Zenon DEF Current
<1>5. Now[t] = Shown(pc[t], regs[t], call[t])
  BY <1>2, <1>4, Zenon DEF Now
<1>6. Now = [Now EXCEPT ![t] = Now[t]]
  BY Zenon DEF Now
<1>7. call[t].kernel \in Nat /\ call[t].handled \in BOOLEAN
  BY <1>1, Zenon DEF TypeOK, CallRecords
<1> QED
  BY <1>2, <1>3, <1>5, <1>6, <1>7, Zenon

\* A step of one running thread t: what shows of the threads afterwards.
LEMMA OneThread ==
  ASSUME IInv, NEW t \in Threads, Alive(t), NEW p, NEW g, NEW k,
         pc' = [pc EXCEPT ![t] = p], regs' = [regs EXCEPT ![t] = g],
         call' = [call EXCEPT ![t] = k], p \in Sites \cup Blocks
  PROVE  /\ Service!Become(t, Shown(p, g, k))
         /\ Started' = Started /\ Going' = Going
<1>1. TypeOK
  BY Zenon DEF IInv
<1>2. p \notin Ends /\ t \in Started /\ t \in Going
  BY PlacesDistinct, Shows, Zenon
<1>3. /\ pc'[t] = p /\ regs'[t] = g /\ call'[t] = k
      /\ \A u \in Threads \ {t} : pc'[u] = pc[u] /\ regs'[u] = regs[u] /\ call'[u] = call[u]
  BY <1>1, Zenon DEF TypeOK
<1>4. Started' = Started
  BY <1>2, <1>3, Zenon DEF Started, Ends
<1>5. Going' = Going
  <2>1. \A u \in Threads : u \in Going <=>
          u \in Started /\ pc[u] \notin {"exited", "lost", "wild", "ebreak"}
    BY Zenon DEF Going
  <2>2. \A u \in Threads : u \in Going' <=>
          u \in Started' /\ pc'[u] \notin {"exited", "lost", "wild", "ebreak"}
    BY Zenon DEF Going
  <2>3. Going \subseteq Threads /\ Going' \subseteq Threads
    BY Zenon DEF Going, Started
  <2>4. \A u \in Threads : u \in Going' <=> u \in Going
    BY <1>2, <1>3, <1>4, <2>1, <2>2, Zenon DEF Alive, Ends
  <2> QED
    BY <2>3, <2>4, Zenon
<1>6. \A u \in Threads : View(Current(u))' = Shown(pc'[u], regs'[u], call'[u])
  <2>1. \A u \in Threads : View(Current(u)') = Shown(pc'[u], regs'[u], call'[u])
    BY ShownOf, Zenon DEF Current
  <2> QED
    BY <2>1, Zenon
<1>7. \A u \in Threads : View(Current(u)) = Shown(pc[u], regs[u], call[u])
  BY ShownOf, Zenon DEF Current
<1>8. \A u \in Threads \ {t} : Now'[u] = Now[u]
  <2>1. \A u \in Threads \ {t} : View(Current(u))' = View(Current(u))
    BY <1>3, <1>6, <1>7, Zenon
  <2> QED
    BY <1>4, <2>1, Zenon DEF Now
<1>9. Now'[t] = Shown(p, g, k)
  BY <1>2, <1>3, <1>4, <1>6, Zenon DEF Now
<1>10. Now = [u \in Threads |-> Now[u]] /\ Now' = [u \in Threads |-> Now'[u]]
  BY Zenon DEF Now
<1> HIDE DEF Now
<1>11. Now' = [Now EXCEPT ![t] = Shown(p, g, k)]
  BY <1>8, <1>9, <1>10, Zenon
<1> QED
  BY <1>4, <1>5, <1>11, Zenon DEF Service!Become

\* what shows of a sequence of activities
ShownSeq(s) == [i \in 1 .. Len(s) |-> View(s[i])]

\* Pushing an activity, and taking the last one away.
LEMMA ShownSeqs ==
  ASSUME NEW s \in Seq(Activities), NEW a \in Activities
  PROVE  /\ ShownSeq(Append(s, a)) = Append(ShownSeq(s), View(a))
         /\ s # << >> => /\ ShownSeq(s)[Len(ShownSeq(s))] = View(s[Len(s)])
                         /\ ShownSeq(SubSeq(s, 1, Len(s) - 1))
                              = SubSeq(ShownSeq(s), 1, Len(ShownSeq(s)) - 1)
<1> DEFINE V == {View(b) : b \in Activities}
           f == ShownSeq(s)
<1>1. /\ f \in Seq(V) /\ Len(f) = Len(s) /\ Len(s) \in Nat /\ View(a) \in V
      /\ \A i \in 1 .. Len(s) : f[i] = View(s[i])
  <2>1. \A i \in 1 .. Len(s) : View(s[i]) \in V
    OBVIOUS
  <2>2. f \in [1 .. Len(s) -> V] /\ Len(s) \in Nat
    BY <2>1 DEF ShownSeq
  <2> QED
    BY <2>2 DEF ShownSeq
<1>2. ASSUME NEW q \in Seq(Activities), NEW h \in Seq(V), Len(h) = Len(q),
             \A i \in 1 .. Len(q) : h[i] = View(q[i])
      PROVE  ShownSeq(q) = h
  <2>1. h = [i \in 1 .. Len(h) |-> h[i]]
    OBVIOUS
  <2> QED
    BY <1>2, <2>1, Zenon DEF ShownSeq
<1> HIDE DEF f, V
<1>3. ShownSeq(Append(s, a)) = Append(f, View(a))
  <2> DEFINE q == Append(s, a)
             h == Append(f, View(a))
  <2>1. q \in Seq(Activities) /\ h \in Seq(V) /\ Len(h) = Len(q) /\ Len(q) = Len(s) + 1
    BY <1>1
  <2>2. \A i \in 1 .. Len(q) : h[i] = View(q[i])
    BY <1>1
  <2> HIDE DEF q, h
  <2>3. ShownSeq(q) = h
    BY <1>2, <2>1, <2>2, Zenon
  <2> QED
    BY <2>3, Zenon DEF q, h
<1>4. ASSUME s # << >>
      PROVE  ShownSeq(SubSeq(s, 1, Len(s) - 1)) = SubSeq(f, 1, Len(f) - 1)
  <2> DEFINE q == SubSeq(s, 1, Len(s) - 1)
             h == SubSeq(f, 1, Len(f) - 1)
  <2>1. /\ q \in Seq(Activities) /\ h \in Seq(V) /\ Len(h) = Len(q)
        /\ Len(q) = Len(s) - 1
    BY <1>1, <1>4
  <2>2. \A i \in 1 .. Len(q) : h[i] = View(q[i])
    BY <1>1, <1>4
  <2> HIDE DEF q, h
  <2>3. ShownSeq(q) = h
    BY <1>2, <2>1, <2>2, Zenon
  <2> QED
    BY <2>3, Zenon DEF q, h
<1>5. s # << >> => f[Len(f)] = View(s[Len(s)])
  BY <1>1
<1> QED
  BY <1>3, <1>4, <1>5, Zenon DEF f

\* What is suspended below: nothing changes, or an activity is pushed or popped.
LEMMA BelowCases ==
  ASSUME IInv, NEW t \in Threads
  PROVE  /\ susp' = susp => Below' = Below
         /\ \A a \in Activities : susp' = [susp EXCEPT ![t] = Append(susp[t], a)] =>
              Below' = [Below EXCEPT ![t] = Append(Below[t], View(a))]
         /\ susp[t] # << >> /\ susp' = [susp EXCEPT ![t] = SubSeq(susp[t], 1, Len(susp[t]) - 1)]
              => /\ Below' = [Below EXCEPT ![t] = SubSeq(Below[t], 1, Len(Below[t]) - 1)]
                 /\ Below[t][Len(Below[t])] = View(susp[t][Len(susp[t])])
<1>1. susp \in [Threads -> Seq(Activities)]
  BY Zenon DEF IInv, TypeOK
<1>2. Below = [u \in Threads |-> ShownSeq(susp[u])]
  BY Zenon DEF Below, ShownSeq
<1>3. Below' = [u \in Threads |-> ShownSeq(susp'[u])]
  BY Zenon DEF Below, ShownSeq
<1>4. susp' = susp => Below' = Below
  BY <1>2, <1>3, Zenon
<1>5. ASSUME NEW s, susp' = [susp EXCEPT ![t] = s]
      PROVE  Below' = [Below EXCEPT ![t] = ShownSeq(s)]
  <2>1. susp'[t] = s /\ \A u \in Threads \ {t} : susp'[u] = susp[u]
    BY <1>1, <1>5, Zenon
  <2> QED
    BY <1>2, <1>3, <2>1, Zenon
<1>6. Below[t] = ShownSeq(susp[t]) /\ susp[t] \in Seq(Activities)
  BY <1>1, <1>2, Zenon
<1>7. ASSUME NEW a \in Activities, susp' = [susp EXCEPT ![t] = Append(susp[t], a)]
      PROVE  Below' = [Below EXCEPT ![t] = Append(Below[t], View(a))]
  <2>1. Below' = [Below EXCEPT ![t] = ShownSeq(Append(susp[t], a))]
    BY <1>5, <1>7, Zenon
  <2>2. ShownSeq(Append(susp[t], a)) = Append(ShownSeq(susp[t]), View(a))
    BY <1>6, <1>7, ShownSeqs, Zenon
  <2> QED
    BY <1>6, <2>1, <2>2, Zenon
<1>8. ASSUME susp[t] # << >>,
             susp' = [susp EXCEPT ![t] = SubSeq(susp[t], 1, Len(susp[t]) - 1)]
      PROVE  /\ Below' = [Below EXCEPT ![t] = SubSeq(Below[t], 1, Len(Below[t]) - 1)]
             /\ Below[t][Len(Below[t])] = View(susp[t][Len(susp[t])])
  <2>1. PICK a : a \in Activities
    BY <1>6, <1>8
  <2>2. /\ ShownSeq(susp[t])[Len(ShownSeq(susp[t]))] = View(susp[t][Len(susp[t])])
        /\ ShownSeq(SubSeq(susp[t], 1, Len(susp[t]) - 1))
              = SubSeq(ShownSeq(susp[t]), 1, Len(ShownSeq(susp[t])) - 1)
    BY <1>6, <1>8, <2>1, ShownSeqs, Zenon
  <2>3. Below' = [Below EXCEPT ![t] = ShownSeq(SubSeq(susp[t], 1, Len(susp[t]) - 1))]
    BY <1>5, <1>8, Zenon
  <2> QED
    BY <1>6, <2>2, <2>3, Zenon
<1> QED
  BY <1>4, <1>7, <1>8, Zenon

-----------------------------------------------------------------------------
(***************************************************************************)
(* Steps that do not show, and those by which a call advances.             *)
(***************************************************************************)

\* A step on the way in, or on the way out, that leaves a0 and the call alone.
LEMMA Silent ==
  ASSUME IInv, NEW t \in Threads, Alive(t), NEW p, NEW g,
         pc' = [pc EXCEPT ![t] = p], regs' = [regs EXCEPT ![t] = g],
         UNCHANGED <<call, susp, waits, hook_fn>>,
         \/ pc[t] \in Issued /\ p \in Issued
         \/ pc[t] \in {"restore_context", "before_gp"} /\ p = "before_gp"
              /\ g["a0"] = regs[t]["a0"]
  PROVE  UNCHANGED Service!vars
<1> DEFINE k == call[t]
<1>1. p \in Sites \cup Blocks
  BY Zenon DEF Issued, Blocks
<1>2. call' = [call EXCEPT ![t] = k] /\ k.kernel \in Nat /\ k.handled \in BOOLEAN
  BY Shows, Zenon DEF IInv, TypeOK
<1> HIDE DEF k
<1>3. Service!Become(t, Shown(p, g, k)) /\ Started' = Started /\ Going' = Going
  BY <1>1, <1>2, OneThread, Zenon
<1>4. Shown(p, g, k) = Shown(pc[t], regs[t], k)
  <2>1. CASE pc[t] \in Issued /\ p \in Issued
    BY <1>2, <2>1, ShownCases
  <2>2. CASE pc[t] \in {"restore_context", "before_gp"} /\ p = "before_gp"
               /\ g["a0"] = regs[t]["a0"]
    <3>1. pc[t] \in Decided /\ p \in Decided
      BY <2>2, Zenon DEF Decided
    <3>2. (~ k.handled /\ k.kernel = 0) \/ k.handled \/ k.kernel > 0
      BY <1>2
    <3>3. CASE ~ k.handled /\ k.kernel = 0
      <4>1. Shown(p, g, k) = Service!Activity(k.site, "forwarded", k.regs["a7"], Junk)
        BY <1>2, <3>1, <3>3, ShownCases
      <4>2. Shown(pc[t], regs[t], k) = Service!Activity(k.site, "forwarded", k.regs["a7"], Junk)
        BY <1>2, <3>1, <3>3, ShownCases
      <4> QED
        BY <4>1, <4>2, Zenon
    <3>4. CASE k.handled \/ k.kernel > 0
      <4>1. Shown(p, g, k) = Service!Activity(k.site, "answered", k.regs["a7"], g["a0"])
        BY <1>2, <3>1, <3>4, ShownCases
      <4>2. Shown(pc[t], regs[t], k)
              = Service!Activity(k.site, "answered", k.regs["a7"], regs[t]["a0"])
        BY <1>2, <3>1, <3>4, ShownCases
      <4> QED
        BY <2>2, <4>1, <4>2, Zenon
    <3> QED
      BY <3>2, <3>3, <3>4, Zenon
  <2> QED
    BY <2>1, <2>2, Zenon
<1>5. Now' = Now
  BY <1>3, <1>4, Shows, Zenon DEF k, Service!Become
<1>6. Below' = Below
  BY BelowCases, Zenon
<1> QED
  BY <1>3, <1>5, <1>6, Zenon DEF Service!vars

\* What is known of a call on its way in.
LEMMA CallFacts ==
  ASSUME IInv, NEW t \in Threads, pc[t] \in Issued \cup {Hook}
  PROVE  /\ Alive(t) /\ ~ call[t].handled /\ call[t].kernel = 0
         /\ pc[t] \in {"syscall_hook", Hook} => call[t].regs["a7"] # NR_rt_sigreturn
         /\ pc[t] = "do_rt_sigreturn" => call[t].regs["a7"] = NR_rt_sigreturn
         /\ Now[t] = Service!Activity(call[t].site, IF pc[t] = Hook THEN "hook" ELSE "issued",
                        call[t].regs["a7"], IF pc[t] = Hook THEN regs[t]["a0"] ELSE Junk)
<1> DEFINE c == Current(t)
           f == Frame(t)
<1>1. /\ c.pc = pc[t] /\ c.call = call[t]
      /\ Alive(t) /\ ActOK(c, f)
  BY Inside, Zenon DEF Current, Issued, Blocks
<1> HIDE DEF c, f
<1>2. Hook \notin Issued
  BY SitesAssumption, Zenon DEF Issued, Blocks, Sites
<1>3. Unanswered(c)
  <2>1. CASE c.pc = Hook
    BY <1>1, <2>1, ActCases, Zenon DEF InHook
  <2>2. CASE c.pc \in Issued
    BY <1>1, <2>2, ActCases, Zenon
       DEF Issued, AtTrampoline, AtEntry, Entered, Entering, AtHookCall
  <2> QED
    BY <1>1, <2>1, <2>2, Zenon
<1>4. /\ c.pc \in {"syscall_hook", Hook} => AllSaved(c, f)
      /\ c.pc = "do_rt_sigreturn" => Entered(c, f)
  BY <1>1, ActCases, Zenon DEF AtHookCall, InHook
<1>5. Now[t] = Shown(pc[t], regs[t], call[t])
  BY <1>1, Shows, Zenon
<1>6. Now[t] = Service!Activity(call[t].site, IF pc[t] = Hook THEN "hook" ELSE "issued",
                 call[t].regs["a7"], IF pc[t] = Hook THEN regs[t]["a0"] ELSE Junk)
  BY <1>1, <1>2, <1>5, Shows, ShownCases
<1> QED
  BY <1>1, <1>3, <1>4, <1>6, Zenon DEF Unanswered, AllSaved, Entered

\* A step of t that pushes and pops nothing.
LEMMA Advance ==
  ASSUME IInv, NEW t \in Threads, Alive(t), NEW p, NEW g, NEW k,
         pc' = [pc EXCEPT ![t] = p], regs' = [regs EXCEPT ![t] = g],
         call' = [call EXCEPT ![t] = k], p \in Sites \cup Blocks,
         UNCHANGED <<susp, waits>>
  PROVE  /\ Service!Become(t, Shown(p, g, k))
         /\ UNCHANGED <<Below, Going, Started, waits>>
         /\ t \in Going /\ waits[t] = NoThread
<1>1. Service!Become(t, Shown(p, g, k)) /\ Started' = Started /\ Going' = Going
  BY OneThread, Zenon
<1>2. Below' = Below
  BY BelowCases, Zenon
<1> QED
  BY <1>1, <1>2, Shows, Zenon

\* Without a hook a call is forwarded.
LEMMA Serves_syscall_hook_null ==
  ASSUME IInv, NEW t \in Threads, syscall_hook_null(t)
  PROVE  Service!Forward(t)
<1> DEFINE g == Clobbered(regs[t], regs[t]["a0"], Zero)
           k == call[t]
           p == "restore_context"
           w == Service!Activity(k.site, "forwarded", k.regs["a7"], Junk)
<1>1. pc[t] = "syscall_hook" /\ pc[t] \in Issued /\ pc[t] # Hook /\ p \in Blocks /\ p \in Decided
  BY SitesAssumption, Zenon DEF syscall_hook_null, Issued, Decided, Blocks, Sites
<1>2. /\ pc' = [pc EXCEPT ![t] = p] /\ regs' = [regs EXCEPT ![t] = g]
      /\ call' = [call EXCEPT ![t] = k] /\ UNCHANGED <<susp, waits>>
      /\ hook_fn = "NULL" /\ hook_fn' = hook_fn
  BY Zenon DEF syscall_hook_null, SetRegs, Goto, IInv, TypeOK
<1>3. /\ Alive(t) /\ ~ k.handled /\ k.kernel = 0 /\ k.handled \in BOOLEAN /\ k.kernel \in Nat
      /\ Now[t] = Service!Activity(k.site, "issued", k.regs["a7"], Junk)
  BY <1>1, CallFacts, Shows, Zenon
<1> HIDE DEF g, k, p
<1>4. /\ Service!Become(t, Shown(p, g, k)) /\ UNCHANGED <<Below, Going, Started, waits>>
      /\ t \in Going /\ waits[t] = NoThread
  BY <1>1, <1>2, <1>3, Advance, Zenon
<1>5. Shown(p, g, k) = w
  BY <1>1, <1>3, ShownCases
<1>6. w = [Now[t] EXCEPT !.mode = "forwarded"] /\ Now[t].mode = "issued"
  BY <1>3 DEF Service!Activity
<1> QED
  BY <1>2, <1>4, <1>5, <1>6, Zenon DEF Service!Forward, Service!In, Service!NoThread, NoThread

\* The hook is consulted.
LEMMA Serves_syscall_hook ==
  ASSUME IInv, NEW t \in Threads, syscall_hook(t)
  PROVE  Service!Consult(t)
<1> DEFINE g == Clobbered(regs[t], Junk, Junk)
           k == call[t]
           w == Service!Activity(k.site, "hook", k.regs["a7"], Junk)
<1>1. pc[t] = "syscall_hook" /\ pc[t] \in Issued /\ pc[t] # Hook /\ Hook \in Sites
  BY SitesAssumption, Zenon DEF syscall_hook, Issued, Blocks, Sites
<1>2. /\ pc' = [pc EXCEPT ![t] = Hook] /\ regs' = [regs EXCEPT ![t] = g]
      /\ call' = [call EXCEPT ![t] = k] /\ UNCHANGED <<susp, waits>>
      /\ hook_fn # "NULL" /\ hook_fn' = hook_fn
  BY Zenon DEF syscall_hook, SetRegs, Goto, IInv, TypeOK
<1>3. /\ Alive(t) /\ k.handled \in BOOLEAN /\ k.kernel \in Nat
      /\ k.regs["a7"] # NR_rt_sigreturn
      /\ Now[t] = Service!Activity(k.site, "issued", k.regs["a7"], Junk)
  BY <1>1, CallFacts, Shows, Zenon
<1>4. g["a0"] = Junk
  <2>1. Junk \in Values /\ regs[t] \in RegFiles
    BY <1>1, Inside, ValuesTyped, Zenon DEF Blocks
  <2> QED
    BY <2>1, ClobberedRegs, Zenon
<1> HIDE DEF g, k
<1>5. /\ Service!Become(t, Shown(Hook, g, k)) /\ UNCHANGED <<Below, Going, Started, waits>>
      /\ t \in Going /\ waits[t] = NoThread
  BY <1>1, <1>2, <1>3, Advance, Zenon
<1>6. Shown(Hook, g, k) = w
  BY <1>3, <1>4, ShownCases
<1>7. /\ w = [Now[t] EXCEPT !.mode = "hook"] /\ Now[t].mode = "issued"
      /\ Now[t].nr = k.regs["a7"]
  BY <1>3 DEF Service!Activity
<1> QED
  BY <1>2, <1>3, <1>5, <1>6, <1>7, Zenon DEF Service!Consult, Service!In, Service!NoThread, NoThread

\* The hook declines.
LEMMA Serves_HookForwards ==
  ASSUME IInv, NEW t \in Threads, HookForwards(t)
  PROVE  Service!HookDeclines(t)
<1> DEFINE g == Clobbered(regs[t], Frame(t)[CLocal], Zero)
           k == call[t]
           p == "restore_context"
           w == Service!Activity(k.site, "forwarded", k.regs["a7"], Junk)
<1>1. pc[t] = Hook /\ p \in Blocks /\ p \in Decided
  BY Zenon DEF HookForwards, Blocks, Decided
<1>2. /\ pc' = [pc EXCEPT ![t] = p] /\ regs' = [regs EXCEPT ![t] = g]
      /\ call' = [call EXCEPT ![t] = k] /\ UNCHANGED <<susp, waits>>
      /\ hook_fn' = hook_fn
  BY Zenon DEF HookForwards, SetRegs, Goto, IInv, TypeOK
<1>3. /\ Alive(t) /\ ~ k.handled /\ k.kernel = 0 /\ k.handled \in BOOLEAN /\ k.kernel \in Nat
      /\ Now[t] = Service!Activity(k.site, "hook", k.regs["a7"], regs[t]["a0"])
  BY <1>1, CallFacts, Shows, Zenon
<1> HIDE DEF g, k, p
<1>4. /\ Service!Become(t, Shown(p, g, k)) /\ UNCHANGED <<Below, Going, Started, waits>>
      /\ t \in Going /\ waits[t] = NoThread
  BY <1>1, <1>2, <1>3, Advance, Zenon
<1>5. Shown(p, g, k) = w
  BY <1>1, <1>3, ShownCases
<1>6. Now[t].mode = "hook" /\ Now[t].site = k.site /\ Now[t].nr = k.regs["a7"]
  BY <1>3 DEF Service!Activity
<1> QED
  BY <1>2, <1>4, <1>5, <1>6, Zenon DEF Service!HookDeclines, Service!In, Service!NoThread, NoThread

\* The hook answers.
LEMMA Serves_HookHandles ==
  ASSUME IInv, NEW t \in Threads, HookHandles(t)
  PROVE  Service!HookAnswers(t)
<1>1. PICK v \in {HookResult, Junk} :
        /\ regs' = [regs EXCEPT ![t] = Clobbered(regs[t], v, One)]
        /\ call' = [call EXCEPT ![t].handled = TRUE, ![t].result = v]
  BY Zenon DEF HookHandles, SetRegs
<1> DEFINE g == Clobbered(regs[t], v, One)
           k == [call[t] EXCEPT !.handled = TRUE, !.result = v]
           p == "restore_context"
           w == Service!Activity(k.site, "answered", k.regs["a7"], v)
<1>2. pc[t] = Hook /\ p \in Blocks /\ p \in Decided
  BY Zenon DEF HookHandles, Blocks, Decided
<1>3. /\ k.handled /\ k.handled \in BOOLEAN /\ k.kernel \in Nat
      /\ k.site = call[t].site /\ k.regs = call[t].regs
      /\ call' = [call EXCEPT ![t] = k]
  <2>1. call[t] \in CallRecords /\ call \in [Threads -> CallRecords]
    BY Zenon DEF IInv, TypeOK
  <2> QED
    BY <1>1, <2>1, Zenon DEF CallRecords
<1>4. /\ pc' = [pc EXCEPT ![t] = p] /\ regs' = [regs EXCEPT ![t] = g]
      /\ UNCHANGED <<susp, waits>> /\ hook_fn' = hook_fn
  BY <1>1, Zenon DEF HookHandles, Goto
<1>5. /\ Alive(t)
      /\ Now[t] = Service!Activity(call[t].site, "hook", call[t].regs["a7"], regs[t]["a0"])
  BY <1>2, CallFacts, Zenon
<1>6. g["a0"] = v
  <2>1. v \in Values /\ One \in Values /\ regs[t] \in RegFiles
    BY <1>2, Inside, ValuesTyped, Zenon
  <2> QED
    BY <2>1, ClobberedRegs
<1> HIDE DEF g, k, p
<1>7. /\ Service!Become(t, Shown(p, g, k)) /\ UNCHANGED <<Below, Going, Started, waits>>
      /\ t \in Going /\ waits[t] = NoThread
  BY <1>2, <1>3, <1>4, <1>5, Advance, Zenon
<1>8. Shown(p, g, k) = w
  <2>1. k.handled \in BOOLEAN /\ k.kernel \in Nat /\ k.handled /\ p \in Decided
    BY <1>2, <1>3, Zenon
  <2>2. Shown(p, g, k) = Service!Activity(k.site, "answered", k.regs["a7"], g["a0"])
    BY <2>1, ShownCases, ZenonT(40)
  <2> QED
    BY <1>6, <2>2, Zenon
<1>9. w = Service!Answered(Now[t], v) /\ Now[t].mode = "hook"
  BY <1>3, <1>5, ActivityChanges
<1> QED
  BY <1>4, <1>7, <1>8, <1>9, Zenon DEF Service!HookAnswers, Service!In, Service!NoThread, NoThread

\* rt_sigreturn is forwarded, hook or no hook.
LEMMA Serves_do_rt_sigreturn ==
  ASSUME IInv, NEW t \in Threads, do_rt_sigreturn(t)
  PROVE  Service!Forward(t)
<1> DEFINE g == [LoadRegs(Frame(t), TrampolineRegs \ {"t0"}, regs[t]) EXCEPT !["t0"] = Junk]
           k == call[t]
           p == "before_gp"
           w == Service!Activity(k.site, "forwarded", k.regs["a7"], Junk)
<1>1. /\ pc[t] = "do_rt_sigreturn" /\ pc[t] \in Issued /\ pc[t] # Hook
      /\ p \in Blocks /\ p \in Decided
  BY SitesAssumption, Zenon DEF do_rt_sigreturn, Issued, Decided, Blocks, Sites
<1>2. /\ pc' = [pc EXCEPT ![t] = p] /\ regs' = [regs EXCEPT ![t] = g]
      /\ call' = [call EXCEPT ![t] = k] /\ UNCHANGED <<susp, waits>>
      /\ hook_fn' = hook_fn
  BY Zenon DEF do_rt_sigreturn, SetRegs, LeaveAt, Goto, IInv, TypeOK
<1>3. /\ Alive(t) /\ ~ k.handled /\ k.kernel = 0 /\ k.handled \in BOOLEAN /\ k.kernel \in Nat
      /\ k.regs["a7"] = NR_rt_sigreturn
      /\ Now[t] = Service!Activity(k.site, "issued", k.regs["a7"], Junk)
  BY <1>1, CallFacts, Shows, Zenon
<1> HIDE DEF g, k, p
<1>4. /\ Service!Become(t, Shown(p, g, k)) /\ UNCHANGED <<Below, Going, Started, waits>>
      /\ t \in Going /\ waits[t] = NoThread
  BY <1>1, <1>2, <1>3, Advance, Zenon
<1>5. Shown(p, g, k) = w
  BY <1>1, <1>3, ShownCases
<1>6. /\ w = [Now[t] EXCEPT !.mode = "forwarded"] /\ Now[t].mode = "issued"
      /\ Now[t].nr = k.regs["a7"]
  BY <1>3 DEF Service!Activity
<1> QED
  BY <1>2, <1>3, <1>4, <1>5, <1>6, Zenon DEF Service!Forward, Service!In, Service!NoThread, NoThread

\* What is known of a thread at an ECALL of the return sequence.
LEMMA AtKernel ==
  ASSUME IInv, NEW t \in Threads, At(t, "ecall")
  PROVE  /\ pc[t] = "before_gp" /\ Alive(t) /\ ~ call[t].handled /\ call[t].kernel = 0
         /\ regs[t]["a7"] = call[t].regs["a7"]
         /\ Now[t] = Service!Activity(call[t].site, "forwarded", call[t].regs["a7"], Junk)
         /\ Service!In(t, "forwarded") /\ Now[t].nr = regs[t]["a7"]
<1> DEFINE c == Current(t)
           k == call[t]
<1>1. pc[t] = "before_gp" /\ Instr(idx[t]) = "ecall" /\ pc[t] \in Decided
  BY Zenon DEF At, Decided
<1>2. /\ Leaving(c, Frame(t)) /\ c.idx \in {4, 12} /\ c.regs = regs[t] /\ c.call = k /\ Alive(t)
  BY <1>1, InReturn, Instructions, ZenonT(40) DEF Current
<1> HIDE DEF c
<1>3. Unanswered(c) /\ Kept(c, Regs \ {"a0", "t0", "gp"})
  BY <1>2 DEF Leaving
<1>4. "a7" \in Regs \ {"a0", "t0", "gp"}
  BY RegisterSets, Zenon DEF TrampolineRegs
<1>5. ~ k.handled /\ k.kernel = 0 /\ regs[t]["a7"] = k.regs["a7"]
  BY <1>2, <1>3, <1>4, Zenon DEF Unanswered, Kept
<1>6. Now[t] = Service!Activity(k.site, "forwarded", k.regs["a7"], Junk)
  BY <1>1, <1>2, <1>5, Shows, ShownCases
<1>7. Now[t].mode = "forwarded" /\ Now[t].nr = k.regs["a7"]
  BY <1>6 DEF Service!Activity
<1> QED
  BY <1>1, <1>2, <1>5, <1>6, <1>7, Shows, Zenon DEF Service!In, Service!NoThread, NoThread

\* The record and the registers with which the kernel's answer leaves a thread.
LEMMA ServedShown ==
  ASSUME NEW k \in CallRecords, ~ k.handled, k.kernel = 0, NEW v \in Values,
         NEW g \in RegFiles, NEW p \in {"before_gp", "blocked"}, NEW q, q.kernel = k.kernel + 1,
         q.handled = k.handled, q.site = k.site, q.regs = k.regs
  PROVE  Shown(p, [g EXCEPT !["a0"] = v], q)
           = Service!Activity(k.site, "answered", k.regs["a7"], v)
<1> DEFINE h == [g EXCEPT !["a0"] = v]
<1>1. h["a0"] = v
  BY RegisterSets, Zenon DEF RegFiles
<1> HIDE DEF h
<1>2. q.kernel \in Nat /\ q.kernel > 0 /\ q.handled \in BOOLEAN
  BY DEF CallRecords
<1>3. p \in Decided
  BY Zenon DEF Decided
<1>4. Shown(p, h, q) = Service!Activity(q.site, "answered", q.regs["a7"], h["a0"])
  BY <1>2, <1>3, ShownCases
<1> QED
  BY <1>1, <1>4, Zenon DEF h

\* The kernel answers.
LEMMA Serves_KernelReturns ==
  ASSUME IInv, NEW t \in Threads, KernelReturns(t)
  PROVE  Service!KernelAnswers(t)
<1> DEFINE g == [regs[t] EXCEPT !["a0"] = KernelResult]
           k == Served(call[t], KernelResult)
           p == "before_gp"
           w == Service!Activity(call[t].site, "answered", call[t].regs["a7"], KernelResult)
<1>1. /\ pc[t] = p /\ p \in Blocks /\ Alive(t) /\ ~ call[t].handled /\ call[t].kernel = 0
      /\ Now[t] = Service!Activity(call[t].site, "forwarded", call[t].regs["a7"], Junk)
      /\ Service!In(t, "forwarded") /\ Now[t].nr = regs[t]["a7"]
      /\ regs[t]["a7"] \in {NR_other} \cup Clones
  BY AtKernel, Zenon DEF KernelReturns, Blocks
<1>2. /\ pc' = [pc EXCEPT ![t] = p] /\ regs' = [regs EXCEPT ![t] = g]
      /\ call' = [call EXCEPT ![t] = k] /\ UNCHANGED <<susp, waits, hook_fn>>
  BY <1>1, Zenon DEF KernelReturns, SetRegs, IInv, TypeOK
<1>3. call[t] \in CallRecords /\ regs[t] \in RegFiles /\ KernelResult \in Values
  BY ValuesTyped, Zenon DEF IInv, TypeOK
<1>4. /\ k.kernel = call[t].kernel + 1 /\ k.handled = call[t].handled
      /\ k.site = call[t].site /\ k.regs = call[t].regs
  BY <1>3, ServedRecord, Zenon
<1>5. Shown(p, g, k) = w
  <2> HIDE DEF k
  <2> QED
    BY <1>1, <1>3, <1>4, ServedShown, Zenon
<1> HIDE DEF g, k, p
<1>6. Service!Become(t, Shown(p, g, k)) /\ UNCHANGED <<Below, Going, Started, waits>>
  BY <1>1, <1>2, Advance, Zenon
<1>7. w = Service!Answered(Now[t], KernelResult)
  BY <1>1 DEF Service!Activity, Service!Answered
<1> QED
  BY <1>1, <1>2, <1>5, <1>6, <1>7, Zenon DEF Service!KernelAnswers, Service!Clones, Clones

\* On the way in nothing shows.
LEMMA SilentEntry ==
  ASSUME IInv, NEW t \in Threads,
         setup_shadow_page_trampoline(t) \/ asm_syscall_hook(t) \/ save_context(t)
  PROVE  UNCHANGED Service!vars
<1>1. /\ pc[t] \in Issued /\ pc[t] \in Blocks
      /\ UNCHANGED <<call, susp, waits, hook_fn>>
      /\ \E p \in Issued : \E g :
            pc' = [pc EXCEPT ![t] = p] /\ regs' = [regs EXCEPT ![t] = g]
  BY Zenon DEF setup_shadow_page_trampoline, asm_syscall_hook, save_context, SetRegs, Goto,
     Issued, Blocks
<1>2. Alive(t)
  BY <1>1, PlacesDistinct, Zenon DEF Alive
<1> QED
  BY <1>1, <1>2, Silent, Zenon

\* Restoring the registers does not show: a0 and the call stay.
LEMMA Silent_restore_context ==
  ASSUME IInv, NEW t \in Threads, restore_context(t)
  PROVE  UNCHANGED Service!vars
<1> DEFINE h == LoadRegs(Frame(t), HookRegs \cup (TrampolineRegs \ {"t0"}), regs[t])
           g == [h EXCEPT !["t0"] = Junk]
           p == "before_gp"
           c == Current(t)
<1>1. pc[t] = "restore_context" /\ pc[t] \in Blocks
  BY Zenon DEF restore_context, Blocks
<1>2. Alive(t) /\ AtRestore(c, Frame(t)) /\ c.regs = regs[t] /\ regs[t] \in RegFiles
  BY <1>1, Inside, ActCases, Zenon DEF Current
<1> HIDE DEF c
<1>3. regs[t]["a1"] \in {Zero, One}
  BY <1>2, Zenon DEF AtRestore
<1>4. /\ pc' = [pc EXCEPT ![t] = p] /\ regs' = [regs EXCEPT ![t] = g]
      /\ UNCHANGED <<call, susp, waits, hook_fn>>
  BY <1>3, ChoiceAssumption, Zenon DEF restore_context, SetRegs, LeaveAt, Goto
<1>5. g["a0"] = regs[t]["a0"]
  <2>1. "a0" \in Regs /\ "a0" \notin HookRegs \cup (TrampolineRegs \ {"t0"}) /\ "a0" # "t0"
    BY RegisterSets, Zenon DEF TrampolineRegs
  <2>2. h["a0"] = regs[t]["a0"]
    BY <2>1, Zenon DEF LoadRegs
  <2> QED
    BY <2>1, <2>2, Zenon DEF LoadRegs
<1> HIDE DEF g
<1> QED
  BY <1>1, <1>2, <1>4, <1>5, Silent, Zenon

\* Reloading gp and t0, closing the frame and the jumps do not show.
LEMMA SilentReturn ==
  ASSUME IInv, NEW t \in Threads, ld_gp(t) \/ ld_t0(t) \/ addi_sp(t) \/ j_last(t)
  PROVE  UNCHANGED Service!vars
<1>1. pc[t] = "before_gp" /\ pc' = pc /\ UNCHANGED <<call, susp, waits, hook_fn>>
  BY Zenon DEF ld_gp, ld_t0, addi_sp, j_last, At
<1>2. Alive(t) /\ pc \in [Threads -> Places] /\ regs \in [Threads -> RegFiles]
  BY <1>1, InReturn, Zenon DEF IInv, TypeOK
<1>3. pc' = [pc EXCEPT ![t] = "before_gp"]
  BY <1>1, <1>2, Zenon
<1>4. ASSUME NEW r \in {"gp", "t0"}, regs' = [regs EXCEPT ![t] = LoadRegs(Frame(t), {r}, regs[t])]
      PROVE  UNCHANGED Service!vars
  <2> DEFINE g == LoadRegs(Frame(t), {r}, regs[t])
  <2>1. g["a0"] = regs[t]["a0"]
    BY RegisterSets, Zenon DEF LoadRegs
  <2>2. regs' = [regs EXCEPT ![t] = g]
    BY <1>4, Zenon
  <2> HIDE DEF g
  <2> QED
    BY <1>1, <1>2, <1>3, <2>1, <2>2, Silent, Zenon
<1>5. CASE regs' = regs
  <2> DEFINE g == regs[t]
  <2>1. regs' = [regs EXCEPT ![t] = g] /\ g["a0"] = regs[t]["a0"]
    BY <1>2, <1>5, Zenon
  <2> HIDE DEF g
  <2> QED
    BY <1>1, <1>2, <1>3, <2>1, Silent, Zenon
<1> QED
  BY <1>4, <1>5, Zenon DEF ld_gp, ld_t0, addi_sp, j_last, SetRegs

-----------------------------------------------------------------------------
(***************************************************************************)
(* Steps that begin or end an activity.                                    *)
(***************************************************************************)

\* A call is issued: by the program or a handler, or by a hook, which waits.
LEMMA Serves_Ecall ==
  ASSUME IInv, NEW t \in Threads, NEW site \in Sites, NEW nr, Ecall(t, site, nr),
         regs[t]["gp"] = RelocatedGp
  PROVE  IF site = Hook THEN Service!HookIssues(t, nr) ELSE Service!Issue(t, nr)
<1> DEFINE h == CallerRegs(t, nr)
           g == [h EXCEPT !["gp"] = site]
           k == [NoCall EXCEPT !.id = events[t] + 1, !.site = site, !.sp = sp[t], !.regs = h]
           p == "trampoline"
           w == Service!Activity(site, "issued", nr, Junk)
<1>1. pc[t] = site /\ Alive(t) /\ p \in Blocks /\ p \in Issued
  BY PlacesDistinct, Zenon DEF Ecall, Alive, Blocks, Issued
<1>2. h["gp"] = RelocatedGp /\ h["a7"] = nr
  BY RegisterSets, Zenon DEF CallerRegs
<1>3. /\ pc' = [pc EXCEPT ![t] = p] /\ regs' = [regs EXCEPT ![t] = g]
      /\ call' = [call EXCEPT ![t] = k] /\ UNCHANGED <<waits, hook_fn>>
      /\ susp' = IF site = Hook THEN [susp EXCEPT ![t] = Suspend(t)] ELSE susp
  BY <1>2, Zenon DEF Ecall, SetRegs, Goto
<1>4. k.kernel \in Nat /\ k.handled \in BOOLEAN /\ k.site = site /\ k.regs = h
  BY Zenon DEF NoCall
<1> HIDE DEF h, g, k, p
<1>5. Service!Become(t, Shown(p, g, k)) /\ Started' = Started /\ Going' = Going
  BY <1>1, <1>3, OneThread, Zenon
<1>6. Shown(p, g, k) = w
  <2>1. Shown(p, g, k) = Service!Activity(k.site, "issued", k.regs["a7"], Junk)
    BY <1>1, <1>4, ShownCases, Zenon
  <2> QED
    BY <1>2, <1>4, <2>1, Zenon
<1>7. /\ t \in Going /\ waits[t] = NoThread /\ call[t].kernel \in Nat /\ call[t].handled \in BOOLEAN
      /\ Now[t] = Shown(pc[t], regs[t], call[t])
  BY <1>1, Shows, Zenon
<1>8. CASE site = Hook
  <2>1. Now[t] = Service!Activity(call[t].site, "hook", call[t].regs["a7"], regs[t]["a0"])
    BY <1>1, <1>7, <1>8, ShownCases
  <2>2. Now[t].mode = "hook"
    BY <2>1 DEF Service!Activity
  <2>3. Current(t) \in Activities /\ Now[t] = View(Current(t))
    <3>1. View(Current(t)) = Shown(pc[t], regs[t], call[t])
      BY ShownOf, Zenon DEF Current
    <3> QED
      BY <1>1, <1>7, <3>1, CurrentOK, Zenon
  <2>4. susp' = [susp EXCEPT ![t] = Append(susp[t], Current(t))]
    BY <1>3, <1>8, Zenon DEF Suspend
  <2>5. Below' = [Below EXCEPT ![t] = Append(Below[t], Now[t])]
    <3>1. Below' = [Below EXCEPT ![t] = Append(Below[t], View(Current(t)))]
      BY <2>3, <2>4, BelowCases, Zenon
    <3> QED
      BY <2>3, <3>1, Zenon
  <2> QED
    BY <1>3, <1>5, <1>6, <1>7, <1>8, <2>2, <2>5, ZenonT(40)
       DEF Service!HookIssues, Service!In, Service!Push, Service!NoThread, NoThread
<1>9. CASE site # Hook
  <2>1. Now[t] = Service!Running(site, regs[t]["a0"])
    BY <1>1, <1>7, <1>9, ShownCases DEF Sites
  <2>2. Now[t].mode = "running" /\ Now[t].site = site
    BY <2>1 DEF Service!Running, Service!Activity
  <2>3. Below' = Below
    BY <1>3, <1>9, BelowCases, Zenon
  <2> QED
    BY <1>3, <1>5, <1>6, <1>7, <1>9, <2>2, <2>3, ZenonT(40)
       DEF Service!Issue, Service!In, Service!NoThread, NoThread
<1> QED
  BY <1>8, <1>9, Zenon

-----------------------------------------------------------------------------
(***************************************************************************)
(* Steps that change what lies below: returns of handlers and from         *)
(* signals, exits, signals and jumps.                                      *)
(***************************************************************************)

\* What shows of suspended code, and that it can be resumed.
LEMMA Suspended ==
  ASSUME IInv, NEW t \in Threads, Alive(t), susp[t] # << >>
  PROVE  LET b == susp[t][Len(susp[t])]
         IN  /\ b \in Activities /\ b.pc \in Sites \cup Blocks
             /\ View(b) = Shown(b.pc, b.regs, b.call)
             /\ b.call.kernel \in Nat /\ b.call.handled \in BOOLEAN
<1> DEFINE s == susp[t]
           b == s[Len(s)]
           q == Append(s, Current(t))
<1>1. s \in Seq(Activities) /\ Chain(q, mem[stack[t]])
  BY CurrentOK, Zenon
<1>2. Len(s) \in 1 .. Len(q) /\ q[Len(s)] = b /\ b \in Activities
  BY <1>1, SMTT(30)
<1> HIDE DEF q, s
<1>3. b.pc \in Sites \cup Blocks
  BY <1>1, <1>2, Zenon DEF Chain, ActOK
<1>4. View(b) = Shown(b.pc, b.regs, b.call)
  BY ShownOf, Zenon
<1>5. b.call.kernel \in Nat /\ b.call.handled \in BOOLEAN
  BY <1>2, Zenon DEF Activities, CallRecords
<1> QED
  BY <1>2, <1>3, <1>4, <1>5, Zenon DEF s

\* The interrupted code goes on where it was.
LEMMA Resumes ==
  ASSUME IInv, NEW t \in Threads, Alive(t), susp[t] # << >>, Resume(t)
  PROVE  /\ Service!Become(t, Service!Top(t)) /\ Service!Pop(t)
         /\ UNCHANGED <<Started, Going, waits, hook_fn>>
<1> DEFINE b == susp[t][Len(susp[t])]
<1>1. /\ pc' = [pc EXCEPT ![t] = b.pc] /\ regs' = [regs EXCEPT ![t] = b.regs]
      /\ call' = [call EXCEPT ![t] = b.call] /\ UNCHANGED <<waits, hook_fn>>
      /\ susp' = [susp EXCEPT ![t] = SubSeq(susp[t], 1, Len(susp[t]) - 1)]
  BY Zenon DEF Resume, IInv, TypeOK
<1>2. b.pc \in Sites \cup Blocks /\ View(b) = Shown(b.pc, b.regs, b.call)
  BY Suspended, Zenon
<1>3. /\ Below' = [Below EXCEPT ![t] = SubSeq(Below[t], 1, Len(Below[t]) - 1)]
      /\ Below[t][Len(Below[t])] = View(b)
  BY <1>1, BelowCases, Zenon
<1> HIDE DEF b
<1>4. Service!Become(t, Shown(b.pc, b.regs, b.call)) /\ Started' = Started /\ Going' = Going
  <2> DEFINE p == b.pc
             g == b.regs
             k == b.call
  <2>1. /\ pc' = [pc EXCEPT ![t] = p] /\ regs' = [regs EXCEPT ![t] = g]
        /\ call' = [call EXCEPT ![t] = k] /\ p \in Sites \cup Blocks
    BY <1>1, <1>2, Zenon
  <2> HIDE DEF p, g, k
  <2>2. Service!Become(t, Shown(p, g, k)) /\ Started' = Started /\ Going' = Going
    BY <2>1, OneThread, Zenon
  <2> QED
    BY <2>2, Zenon DEF p, g, k
<1>5. Service!Top(t) = View(b)
  BY <1>3, Zenon DEF Service!Top
<1>6. Service!Pop(t)
  BY <1>3, Zenon DEF Service!Pop
<1> QED
  BY <1>1, <1>2, <1>4, <1>5, <1>6, Zenon

\* A handler returns.
LEMMA Serves_HandlerReturns ==
  ASSUME IInv, NEW t \in Threads, HandlerReturns(t)
  PROVE  Service!HandlerReturns(t)
<1>1. pc[t] = Handler /\ Resume(t) /\ Alive(t)
  BY PlacesDistinct, Zenon DEF HandlerReturns, Alive, Sites
<1>2. susp[t] # << >>
  <2>1. Level(Current(t)) = Handler
    BY <1>1, Zenon DEF Level, Current
  <2> QED
    BY <1>1, <2>1, CurrentOK, SitesAssumption, Zenon
<1>3. Now[t] = Service!Running(Handler, regs[t]["a0"])
  BY <1>1, Shows, ShownCases
<1>4. Service!In(t, "running") /\ Now[t].site = Handler
  BY <1>1, <1>3, Shows
     DEF Service!Running, Service!Activity, Service!In, Service!NoThread, NoThread
<1>5. /\ Service!Become(t, Service!Top(t)) /\ Service!Pop(t)
      /\ UNCHANGED <<Started, Going, waits, hook_fn>>
  BY <1>1, <1>2, Resumes, Zenon
<1> QED
  BY <1>4, <1>5, Zenon DEF Service!HandlerReturns

\* The way out does not show while a0 and the call stay.
LEMMA DecidedAlike ==
  ASSUME NEW p \in Decided, NEW q \in Decided, NEW g, NEW k,
         k.kernel \in Nat, k.handled \in BOOLEAN
  PROVE  Shown(p, g, k) = Shown(q, g, k)
<1>1. CASE ~ k.handled /\ k.kernel = 0
  BY <1>1, ShownCases
<1>2. CASE k.handled \/ k.kernel > 0
  <2>1. Shown(p, g, k) = Service!Activity(k.site, "answered", k.regs["a7"], g["a0"])
    BY <1>2, ShownCases
  <2>2. Shown(q, g, k) = Service!Activity(k.site, "answered", k.regs["a7"], g["a0"])
    BY <1>2, ShownCases
  <2> QED
    BY <2>1, <2>2, Zenon
<1> QED
  BY <1>1, <1>2

\* A step after which the same shows of every thread.
LEMMA Alike ==
  ASSUME IInv, regs' = regs, call' = call,
         \A u \in Threads : pc'[u] = pc[u] \/ (pc[u] \in Decided /\ pc'[u] \in Decided)
  PROVE  Now' = Now /\ Started' = Started
<1>1. \A u \in Threads : pc'[u] = "unborn" <=> pc[u] = "unborn"
  BY Zenon DEF Decided
<1>2. Started' = Started
  BY <1>1, Zenon DEF Started
<1>3. \A u \in Threads : call[u].kernel \in Nat /\ call[u].handled \in BOOLEAN
  BY Zenon DEF IInv, TypeOK, CallRecords
<1>4. \A u \in Threads : Shown(pc'[u], regs[u], call[u]) = Shown(pc[u], regs[u], call[u])
  <2> SUFFICES ASSUME NEW u \in Threads
               PROVE  Shown(pc'[u], regs[u], call[u]) = Shown(pc[u], regs[u], call[u])
    BY Zenon
  <2>1. CASE pc'[u] = pc[u]
    BY <2>1, Zenon
  <2>2. CASE pc[u] \in Decided /\ pc'[u] \in Decided
    <3> DEFINE k == call[u]
               g == regs[u]
    <3>1. k.kernel \in Nat /\ k.handled \in BOOLEAN
      BY <1>3, Zenon
    <3> HIDE DEF k, g
    <3>2. Shown(pc'[u], g, k) = Shown(pc[u], g, k)
      BY <2>2, <3>1, DecidedAlike
    <3> QED
      BY <3>2, Zenon DEF k, g
  <2> QED
    BY <2>1, <2>2, Zenon
<1>5. \A u \in Threads : View(Current(u)) = Shown(pc[u], regs[u], call[u])
  BY ShownOf, Zenon DEF Current
<1>6. \A u \in Threads : View(Current(u)') = Shown(pc'[u], regs'[u], call'[u])
  BY ShownOf, Zenon DEF Current
<1>7. \A u \in Threads : View(Current(u))' = View(Current(u))
  BY <1>4, <1>5, <1>6, Zenon
<1> QED
  BY <1>2, <1>7, Zenon DEF Now

\* rt_sigreturn: the interrupted code goes on, or the thread is gone.
LEMMA Serves_KernelSigreturns ==
  ASSUME IInv, NEW t \in Threads, KernelSigreturns(t)
  PROVE  Service!Sigreturn(t)
<1>1. /\ pc[t] = "before_gp" /\ Alive(t) /\ regs[t]["a7"] = NR_rt_sigreturn
      /\ Service!In(t, "forwarded") /\ Now[t].nr = NR_rt_sigreturn
      /\ call[t].regs["a7"] = NR_rt_sigreturn
  BY AtKernel, Zenon DEF KernelSigreturns
<1>2. CASE sp[t] = SigframeDepth(t)
  <2>1. Resume(t)
    BY <1>2, Zenon DEF KernelSigreturns
  <2>2. Level(Current(t)) = Handler
    <3>1. CallOK(Current(t)) /\ Current(t).call = call[t] /\ pc[t] \in Blocks
      BY <1>1, InReturn, Zenon DEF Current
    <3>2. call[t].site = Handler
      BY <1>1, <3>1, Zenon DEF CallOK
    <3> QED
      BY <3>1, <3>2, Inside, Zenon
  <2>3. susp[t] # << >>
    BY <1>1, <2>2, CurrentOK, SitesAssumption, Zenon
  <2>4. /\ Service!Become(t, Service!Top(t)) /\ Service!Pop(t)
        /\ UNCHANGED <<Started, Going, waits, hook_fn>>
    BY <1>1, <2>1, <2>3, Resumes, Zenon
  <2> QED
    BY <1>1, <2>4, Zenon DEF Service!Sigreturn
<1>3. CASE sp[t] # SigframeDepth(t)
  <2>1. /\ pc' = [pc EXCEPT ![t] = "lost"]
        /\ UNCHANGED <<regs, call, susp, waits, hook_fn>>
    BY <1>3, Zenon DEF KernelSigreturns, Goto
  <2>2. pc'[t] = "lost" /\ \A u \in Threads \ {t} : pc'[u] = pc[u]
    BY <2>1, Zenon DEF IInv, TypeOK
  <2>3. Now' = Now /\ Started' = Started
    <3>1. \A u \in Threads : pc'[u] = pc[u] \/ (pc[u] \in Decided /\ pc'[u] \in Decided)
      BY <1>1, <2>2, Zenon DEF Decided
    <3> QED
      BY <2>1, <3>1, Alike, Zenon
  <2>4. Going' = Going \ {t}
    BY <2>2, <2>3, Zenon DEF Going, Started
  <2>5. Below' = Below
    BY <2>1, BelowCases, Zenon
  <2> QED
    BY <1>1, <2>1, <2>3, <2>4, <2>5, Zenon DEF Service!Sigreturn
<1> QED
  BY <1>2, <1>3, Zenon

\* An exit: the thread is gone, and the parent it was vforked by may go on.
LEMMA Serves_KernelExits ==
  ASSUME IInv, NEW t \in Threads, KernelExits(t)
  PROVE  Service!Exit(t)
<1>1. /\ pc[t] = "before_gp" /\ Alive(t) /\ regs[t]["a7"] = NR_exit
      /\ Service!In(t, "forwarded") /\ Now[t].nr = NR_exit
  BY AtKernel, Zenon DEF KernelExits
<1>2. /\ \A u \in Threads : pc'[u] = IF u = t THEN "exited"
                                     ELSE IF waits[u] = t THEN "before_gp" ELSE pc[u]
      /\ waits' = [u \in Threads |-> IF waits[u] = t THEN NoThread ELSE waits[u]]
      /\ UNCHANGED <<regs, susp, call, hook_fn>>
  BY Zenon DEF KernelExits
<1>3. \A u \in Threads : waits[u] = t => pc[u] = "blocked"
  BY ThreadsAssumption DEF IInv, Sharing, NoThread
<1>4. Now' = Now /\ Started' = Started
  <2>1. \A u \in Threads : pc'[u] = pc[u] \/ (pc[u] \in Decided /\ pc'[u] \in Decided)
    BY <1>1, <1>2, <1>3, Zenon DEF Decided
  <2> QED
    BY <1>2, <2>1, Alike, Zenon
<1>5. Going' = Going \ {t}
  BY <1>2, <1>3, <1>4, Zenon DEF Going, Started
<1>6. Below' = Below
  BY <1>2, BelowCases, Zenon
<1> QED
  BY <1>1, <1>2, <1>4, <1>5, <1>6, Zenon DEF Service!Exit, Service!NoThread, NoThread

\* A signal: the interrupted code is suspended.
LEMMA Serves_Signal ==
  ASSUME IInv, NEW t \in Threads, Signal(t)
  PROVE  Service!Signal(t)
<1> DEFINE g == [JunkRegs EXCEPT !["gp"] = regs[t]["gp"]]
<1>1. Alive(t) /\ Handler \in Sites
  BY Zenon DEF Signal, Sites
<1>2. /\ pc' = [pc EXCEPT ![t] = Handler] /\ regs' = [regs EXCEPT ![t] = g]
      /\ call' = [call EXCEPT ![t] = NoCall] /\ UNCHANGED <<waits, hook_fn>>
      /\ susp' = [susp EXCEPT ![t] = Append(susp[t], Current(t))]
  BY Zenon DEF Signal, SetRegs, Goto, Suspend
<1>3. g["a0"] = Junk
  BY RegisterSets, Zenon DEF JunkRegs
<1> HIDE DEF g
<1>4. Service!Become(t, Shown(Handler, g, NoCall)) /\ Started' = Started /\ Going' = Going
  BY <1>1, <1>2, OneThread, Zenon
<1>5. Shown(Handler, g, NoCall) = Service!Running(Handler, Junk)
  <2>1. NoCall.kernel \in Nat /\ NoCall.handled \in BOOLEAN
    BY Zenon DEF NoCall
  <2>2. Shown(Handler, g, NoCall) = Service!Running(Handler, g["a0"])
    BY <2>1, ShownCases, Zenon
  <2> QED
    BY <1>3, <2>2, Zenon
<1>6. t \in Going /\ waits[t] = NoThread /\ Now[t] = View(Current(t)) /\ Current(t) \in Activities
  <2>1. View(Current(t)) = Shown(pc[t], regs[t], call[t])
    BY ShownOf, Zenon DEF Current
  <2> QED
    BY <1>1, <2>1, Shows, CurrentOK, Zenon
<1>7. Service!Push(t)
  <2>1. Below' = [Below EXCEPT ![t] = Append(Below[t], View(Current(t)))]
    BY <1>2, <1>6, BelowCases, Zenon
  <2> QED
    BY <1>6, <2>1, Zenon DEF Service!Push
<1> QED
  BY <1>2, <1>4, <1>5, <1>6, <1>7, Zenon DEF Service!Signal, Service!NoThread, NoThread

\* The last JALR: the caller has its answer.
LEMMA Serves_jalr_gp ==
  ASSUME IInv, NEW t \in Threads, jalr_gp(t)
  PROVE  Service!Return(t)
<1> DEFINE g == [regs[t] EXCEPT !["gp"] = LinkAfter(idx[t])]
           c == Current(t)
           site == call[t].site
           b == susp[t][Len(susp[t])]
<1>1. pc[t] = "before_gp" /\ Instr(idx[t]) = "jalr_gp" /\ pc[t] \in Decided /\ pc[t] \in Blocks
  BY Zenon DEF jalr_gp, At, Decided, Blocks
<1>2. /\ Leaving(c, Frame(t)) /\ CallOK(c) /\ c.idx = 13 /\ c.regs = regs[t]
      /\ c.call = call[t] /\ Alive(t) /\ regs[t] \in RegFiles /\ Level(c) = site
  BY <1>1, InReturn, Instructions, Inside, Zenon DEF Current
<1> HIDE DEF c
<1>3. regs[t]["gp"] = site /\ site \in Sites
  <2>1. ~ GpInFrame(c.idx)
    BY <1>2 DEF GpInFrame
  <2>2. c.regs["gp"] = c.call.site
    BY <1>2, <2>1, Zenon DEF Leaving
  <2> QED
    BY <1>2, <2>2, Zenon DEF CallOK
<1>4. call[t].handled \/ call[t].kernel > 0
  <2>1. Handled(c) \/ ServedByKernel(c)
    BY <1>2, Zenon DEF Leaving
  <2> QED
    BY <1>2, <2>1 DEF Handled, ServedByKernel
<1>5. Now[t] = Service!Activity(site, "answered", call[t].regs["a7"], regs[t]["a0"])
  BY <1>1, <1>2, <1>4, Shows, ShownCases, SMTT(30)
<1>6. /\ Now[t].mode = "answered" /\ Now[t].site = site /\ Now[t].result = regs[t]["a0"]
  BY <1>5 DEF Service!Activity
<1>7. Service!In(t, "answered")
  BY <1>2, <1>6, Shows, Zenon DEF Service!In, Service!NoThread, NoThread
<1>8. g["a0"] = regs[t]["a0"]
  BY <1>2, RegisterSets, Zenon DEF RegFiles
<1>9. /\ pc' = [pc EXCEPT ![t] = site] /\ regs' = [regs EXCEPT ![t] = g]
      /\ UNCHANGED <<waits, hook_fn>>
  BY <1>3, Zenon DEF jalr_gp, SetRegs, Goto
<1> HIDE DEF g
<1>10. CASE site = Hook
  <2>1. susp[t] # << >> /\ b.pc = Hook
    BY <1>2, <1>10, CurrentOK, Zenon DEF c
  <2>2. /\ call' = [call EXCEPT ![t] = b.call]
        /\ susp' = [susp EXCEPT ![t] = SubSeq(susp[t], 1, Len(susp[t]) - 1)]
    BY <1>3, <1>10, <2>1, Zenon DEF jalr_gp, IInv, TypeOK
  <2>3. View(b) = Shown(b.pc, b.regs, b.call) /\ b.call.kernel \in Nat /\ b.call.handled \in BOOLEAN
    BY <1>2, <2>1, Suspended, Zenon
  <2>4. /\ Below' = [Below EXCEPT ![t] = SubSeq(Below[t], 1, Len(Below[t]) - 1)]
        /\ Below[t][Len(Below[t])] = View(b)
    BY <2>1, <2>2, BelowCases, Zenon
  <2> DEFINE k == b.call
  <2> HIDE DEF b
  <2>5. View(b) = Service!Activity(k.site, "hook", k.regs["a7"], b.regs["a0"])
    BY <2>1, <2>3, ShownCases, SMTT(30)
  <2>6. call' = [call EXCEPT ![t] = k] /\ k.kernel \in Nat /\ k.handled \in BOOLEAN
    BY <2>2, <2>3, Zenon
  <2> HIDE DEF k
  <2>7. Service!Become(t, Shown(site, g, k)) /\ Started' = Started /\ Going' = Going
    BY <1>2, <1>3, <1>9, <2>6, OneThread, ZenonT(40)
  <2>8. Shown(site, g, k) = Service!Activity(k.site, "hook", k.regs["a7"], regs[t]["a0"])
    <3>1. Shown(Hook, g, k) = Service!Activity(k.site, "hook", k.regs["a7"], g["a0"])
      BY <2>6, ShownCases, Zenon
    <3> QED
      BY <1>8, <1>10, <3>1, Zenon
  <2>9. /\ [View(b) EXCEPT !.result = Now[t].result]
             = Service!Activity(k.site, "hook", k.regs["a7"], regs[t]["a0"])
        /\ View(b).mode = "hook"
    BY <1>6, <2>5 DEF Service!Activity
  <2>10. Service!Top(t) = View(b) /\ Service!Pop(t)
    BY <2>4, Zenon DEF Service!Top, Service!Pop
  <2> QED
    BY <1>6, <1>7, <1>9, <1>10, <2>7, <2>8, <2>9, <2>10, ZenonT(40) DEF Service!Return
<1>11. CASE site # Hook
  <2>1. call' = [call EXCEPT ![t] = NoCall] /\ susp' = susp
    BY <1>3, <1>11, Zenon DEF jalr_gp
  <2>2. Service!Become(t, Shown(site, g, NoCall)) /\ UNCHANGED <<Below, Going, Started, waits>>
    BY <1>2, <1>3, <1>9, <2>1, Advance, Zenon
  <2>3. Shown(site, g, NoCall) = Service!Running(site, regs[t]["a0"])
    <3>1. NoCall.kernel \in Nat /\ NoCall.handled \in BOOLEAN /\ site \in {App, Handler}
      BY <1>3, <1>11, Zenon DEF NoCall, Sites
    <3>2. Shown(site, g, NoCall) = Service!Running(site, g["a0"])
      BY <3>1, ShownCases, Zenon
    <3> QED
      BY <1>8, <3>2, Zenon
  <2> QED
    BY <1>6, <1>7, <1>9, <1>11, <2>2, <2>3, Zenon DEF Service!Return
<1> QED
  BY <1>10, <1>11, Zenon

-----------------------------------------------------------------------------
(***************************************************************************)
(* The refinement: clones and the loading of the hook library, the last    *)
(* two actions; then the initial states and all steps together.            *)
(***************************************************************************)

\* A clone: the child starts as if its parent's call had been answered with 0.
LEMMA Serves_Clone ==
  ASSUME IInv, NEW t \in Threads, Clone(t)
  PROVE  \E c \in Threads : Service!Clone(t, c)
<1>1. PICK c \in Threads : CloneThread(t, c) \/ CloneFork(t, c) \/ CloneVfork(t, c)
  BY Zenon DEF Clone
<1> DEFINE w == Service!Activity(call[t].site, "answered", call[t].regs["a7"], KernelResult)
           wc == Service!Activity(call[t].site, "answered", call[t].regs["a7"], Zero)
<1>2. PICK s, depth : Spawn(t, c, s, depth)
  BY <1>1, Zenon DEF CloneThread, CloneFork, CloneVfork
<1>3. /\ At(t, "ecall") /\ regs[t]["a7"] \in Clones /\ pc[c] = "unborn"
      /\ UNCHANGED <<susp, hook_fn>>
  BY <1>2, Zenon DEF Spawn
<1>4. /\ pc[t] = "before_gp" /\ Alive(t) /\ ~ call[t].handled /\ call[t].kernel = 0
      /\ Now[t] = Service!Activity(call[t].site, "forwarded", call[t].regs["a7"], Junk)
      /\ Service!In(t, "forwarded") /\ Now[t].nr = regs[t]["a7"]
  BY <1>3, AtKernel, Zenon
<1>5. c # t
  BY <1>3, <1>4, Zenon
<1>6. /\ pc'[t] \in {"before_gp", "blocked"} /\ pc'[c] = "before_gp"
      /\ \A u \in Threads \ {t, c} : pc'[u] = pc[u]
  BY <1>1, <1>4, <1>5, Zenon DEF CloneThread, CloneFork, CloneVfork, Goto, IInv, TypeOK
<1>7. waits' \in {waits, [waits EXCEPT ![t] = c]}
  BY <1>1, Zenon DEF CloneThread, CloneFork, CloneVfork
<1>8. /\ call[t] \in CallRecords /\ regs[t] \in RegFiles
      /\ KernelResult \in Values /\ Zero \in Values
  BY ValuesTyped, Zenon DEF IInv, TypeOK
<1>9. /\ regs'[t] = [regs[t] EXCEPT !["a0"] = KernelResult]
      /\ regs'[c] = [regs[t] EXCEPT !["a0"] = Zero]
      /\ \A u \in Threads \ {t, c} : regs'[u] = regs[u]
  BY <1>2, <1>5, Zenon DEF Spawn, IInv, TypeOK
<1>10. /\ call'[t] = Served(call[t], KernelResult)
       /\ call'[c] = [Served(call[t], Zero) EXCEPT !.sp = depth]
       /\ \A u \in Threads \ {t, c} : call'[u] = call[u]
  BY <1>2, <1>5, Zenon DEF Spawn, IInv, TypeOK
<1>11. Shown(pc'[t], regs'[t], call'[t]) = w
  <2> DEFINE q == call'[t]
             p == pc'[t]
             g == regs[t]
  <2>1. /\ q.kernel = call[t].kernel + 1 /\ q.handled = call[t].handled
        /\ q.site = call[t].site /\ q.regs = call[t].regs
    BY <1>8, <1>10, ServedRecord
  <2>2. p \in {"before_gp", "blocked"} /\ g \in RegFiles
    BY <1>6, <1>8, Zenon
  <2> HIDE DEF q, p, g
  <2>3. Shown(p, [g EXCEPT !["a0"] = KernelResult], q) = w
    BY <1>4, <1>8, <2>1, <2>2, ServedShown, ZenonT(40)
  <2> QED
    BY <1>9, <2>3, Zenon DEF q, p, g
<1>12. Shown(pc'[c], regs'[c], call'[c]) = wc
  <2> DEFINE m == Served(call[t], Zero)
             q == call'[c]
             p == pc'[c]
             g == regs[t]
  <2>1. /\ m \in CallRecords /\ m.kernel = call[t].kernel + 1 /\ m.handled = call[t].handled
        /\ m.site = call[t].site /\ m.regs = call[t].regs
    BY <1>8, ServedRecord, Zenon
  <2> HIDE DEF m
  <2>2. q.kernel = m.kernel /\ q.handled = m.handled /\ q.site = m.site /\ q.regs = m.regs
    BY <1>10, <2>1, Zenon DEF CallRecords, m
  <2>3. p \in {"before_gp", "blocked"} /\ g \in RegFiles
    BY <1>6, <1>8, Zenon
  <2> HIDE DEF q, p, g
  <2>4. Shown(p, [g EXCEPT !["a0"] = Zero], q) = wc
    <3>1. /\ q.kernel = call[t].kernel + 1 /\ q.handled = call[t].handled
          /\ q.site = call[t].site /\ q.regs = call[t].regs
      BY <2>1, <2>2, Zenon
    <3> QED
      BY <1>4, <1>8, <2>3, <3>1, ServedShown, ZenonT(40)
  <2> QED
    BY <1>9, <2>4, Zenon DEF q, p, g
<1> HIDE DEF w, wc
<1>13. Started' = Started \cup {c} /\ c \notin Started /\ t \in Started
  BY <1>3, <1>4, <1>5, <1>6, Zenon DEF Started
<1>14. Going' = Going \cup {c}
  BY <1>4, <1>5, <1>6, <1>13, Zenon DEF Going, Started
<1>15. \A u \in Threads : View(Current(u)) = Shown(pc[u], regs[u], call[u])
  BY ShownOf, Zenon DEF Current
<1>16. \A u \in Threads : View(Current(u)') = Shown(pc'[u], regs'[u], call'[u])
  BY ShownOf, Zenon DEF Current
<1>17. \A u \in Threads \ {t, c} : Now'[u] = Now[u]
  <2>1. \A u \in Threads \ {t, c} : View(Current(u))' = View(Current(u))
    BY <1>6, <1>9, <1>10, <1>15, <1>16
  <2>2. \A u \in Threads \ {t, c} : u \in Started' <=> u \in Started
    BY <1>13, Zenon
  <2> QED
    BY <2>1, <2>2, Zenon DEF Now
<1>18. Now'[t] = w /\ Now'[c] = wc
  <2>1. View(Current(t))' = w /\ View(Current(c))' = wc
    BY <1>11, <1>12, <1>16, Zenon
  <2>2. t \in Started' /\ c \in Started'
    BY <1>13, Zenon
  <2> QED
    BY <2>1, <2>2, Zenon DEF Now
<1>19. Now = [u \in Threads |-> Now[u]] /\ Now' = [u \in Threads |-> Now'[u]]
  BY Zenon DEF Now
<1>20. w = Service!Answered(Now[t], KernelResult) /\ wc = Service!Answered(Now[t], Zero)
  BY <1>4 DEF Service!Activity, Service!Answered, w, wc
<1>21. Now' = [Now EXCEPT ![t] = w, ![c] = wc]
  <2> HIDE DEF Now
  <2> QED
    BY <1>5, <1>17, <1>18, <1>19, Zenon
<1>22. Below' = Below
  BY <1>3, BelowCases, Zenon
<1> QED
  BY <1>3, <1>4, <1>7, <1>13, <1>14, <1>20, <1>21, <1>22, ZenonT(40)
     DEF Service!Clone, Service!Clones, Clones

\* The hook library is loaded.
LEMMA Serves_load_hook_lib ==
  ASSUME IInv, NEW t \in Threads, load_hook_lib(t)
  PROVE  Service!load_hook_lib
<1>1. /\ hook_fn = "NULL" /\ hook_fn' = "set"
      /\ UNCHANGED <<pc, idx, sp, regs, susp, call, waits>>
  BY Zenon DEF load_hook_lib
<1>2. \A u \in Threads : Current(u)' = Current(u)
  BY <1>1, Zenon DEF Current
<1>3. Started' = Started
  BY <1>1, Zenon DEF Started
<1>4. Going' = Going
  BY <1>1, <1>3, Zenon DEF Going
<1>5. Now' = Now
  BY <1>2, <1>3, ZenonT(40) DEF Now, View, Mode
<1>6. Below' = Below
  BY <1>1, Zenon DEF Below
<1> QED
  BY <1>1, <1>3, <1>4, <1>5, <1>6, ZenonT(40) DEF Service!load_hook_lib

\* The library starts as SyscallService does.
LEMMA ServesInit ==
  ASSUME Init
  PROVE  Service!Init
<1>1. /\ App # "unborn" /\ App \notin {"exited", "lost", "wild", "ebreak"} /\ Main \in Threads
  BY SitesAssumption, ThreadsAssumption, Zenon DEF Sites, Ends
<1>2. pc[Main] = App /\ \A t \in Threads \ {Main} : pc[t] = "unborn"
  BY <1>1, Zenon DEF Init
<1>3. Started = {Main} /\ Going = {Main}
  BY <1>1, <1>2 DEF Started, Going
<1>4. View(Current(Main)) = Service!Running(App, Junk)
  <2>1. View(Current(Main)) = Shown(pc[Main], regs[Main], call[Main])
    BY ShownOf, Zenon DEF Current
  <2>2. call[Main].kernel \in Nat /\ call[Main].handled \in BOOLEAN
    BY <1>1, Zenon DEF Init, NoCall
  <2>3. regs[Main]["a0"] = Junk
    BY <1>1, RegisterSets, Zenon DEF Init, JunkRegs
  <2>4. Shown(App, regs[Main], call[Main]) = Service!Running(App, regs[Main]["a0"])
    BY <2>2, ShownCases, Zenon
  <2> QED
    BY <1>2, <2>1, <2>3, <2>4, Zenon
<1>5. \A t \in Threads : Now[t] = Service!Running(App, Junk)
  <2>1. Now[Main] = Service!Running(App, Junk)
    BY <1>1, <1>3, <1>4, Zenon DEF Now
  <2>2. \A t \in Threads \ {Main} : Now[t] = Service!Running(App, Junk)
    BY <1>3, Zenon DEF Now, Service!Running, Service!Activity
  <2> QED
    BY <2>1, <2>2, Zenon
<1>6. Now = [t \in Threads |-> Service!Running(App, Junk)]
  <2>1. Now = [t \in Threads |-> Now[t]]
    BY Zenon DEF Now
  <2> QED
    BY <1>5, <2>1, Zenon
<1>7. Below = [t \in Threads |-> << >>]
  <2>1. \A t \in Threads : susp[t] = << >>
    BY Zenon DEF Init
  <2> QED
    BY <2>1 DEF Below
<1> QED
  BY <1>3, <1>6, <1>7, Zenon DEF Service!Init, Service!NoThread, Init, NoThread

\* Where handlers are careful, gp is relocated_gp when a call is issued.
LEMMA Serves_AnyEcall ==
  ASSUME IInv, CarefulHandlers, NEW t \in Threads,
         AppEcall(t) \/ HookEcall(t) \/ HandlerEcall(t)
  PROVE  \E nr \in Service!Numbers : Service!Issue(t, nr) \/ Service!HookIssues(t, nr)
<1>1. PICK site \in Sites, nr \in Numbers : Ecall(t, site, nr)
  <2>1. HandlerNrs \subseteq Numbers /\ NR_other \in Numbers
    BY HandlerNrsAssumption, Zenon DEF Numbers
  <2> QED
    BY <2>1, Zenon DEF AppEcall, HookEcall, HandlerEcall, Sites
<1>2. pc[t] = site /\ Alive(t)
  BY <1>1, PlacesDistinct, Zenon DEF Ecall, Alive
<1>3. regs[t]["gp"] = RelocatedGp
  <2>1. ActOK(Current(t), Frame(t)) /\ Current(t).pc = pc[t] /\ Current(t).regs = regs[t]
    BY <1>2, CurrentOK, ZenonT(40) DEF Current
  <2>2. CASE pc[t] = App
    BY <2>1, <2>2, ActCases, Zenon
  <2>3. CASE pc[t] = Hook
    BY <2>1, <2>3, ActCases, Zenon DEF InHook
  <2>4. CASE pc[t] = Handler
    BY <2>4, SitesAssumption, ZenonT(40) DEF HandlerEcall, AppEcall, HookEcall, Ecall
  <2> QED
    BY <1>2, <2>2, <2>3, <2>4, Zenon DEF Sites
<1>4. IF site = Hook THEN Service!HookIssues(t, nr) ELSE Service!Issue(t, nr)
  BY <1>1, <1>3, Serves_Ecall, Zenon
<1>5. nr \in Service!Numbers
  BY <1>1, Zenon DEF Numbers, Service!Numbers, Clones, Service!Clones
<1> QED
  BY <1>4, <1>5, Zenon

\* Every step of the library is a step of SyscallService, or none.
LEMMA ServesNext ==
  ASSUME IInv, CarefulHandlers, [Next]_vars
  PROVE  [Service!Next]_(Service!vars)
<1>1. ASSUME UNCHANGED vars PROVE UNCHANGED Service!vars
  <2>1. UNCHANGED <<pc, idx, sp, regs, susp, call, waits, hook_fn>>
    BY <1>1, Zenon DEF vars
  <2>2. \A u \in Threads : Current(u)' = Current(u)
    BY <2>1, Zenon DEF Current
  <2>3. Started' = Started
    BY <2>1, Zenon DEF Started
  <2>4. Going' = Going
    BY <2>1, <2>3, Zenon DEF Going
  <2>5. Now' = Now
    BY <2>2, <2>3, ZenonT(40) DEF Now, View, Mode
  <2>6. Below' = Below
    BY <2>1, Zenon DEF Below
  <2> QED
    BY <2>1, <2>3, <2>4, <2>5, <2>6, Zenon DEF Service!vars
<1>2. ASSUME NEW t \in Threads, load_hook_lib(t) PROVE Service!Next
  BY <1>2, Serves_load_hook_lib, Zenon DEF Service!Next
<1>3. ASSUME NEW t \in Threads, AppEcall(t) \/ HookEcall(t) \/ HandlerEcall(t)
      PROVE  Service!Next
  BY <1>3, Serves_AnyEcall, Zenon DEF Service!Next
<1>4. ASSUME NEW t \in Threads, Signal(t) PROVE Service!Next
  BY <1>4, Serves_Signal, Zenon DEF Service!Next
<1>5. ASSUME NEW t \in Threads, Clone(t) PROVE Service!Next
  BY <1>5, Serves_Clone, Zenon DEF Service!Next
<1>6. ASSUME NEW t \in Threads,
             \/ syscall_hook_null(t) \/ syscall_hook(t) \/ HookForwards(t) \/ HookHandles(t)
             \/ do_rt_sigreturn(t) \/ KernelReturns(t)
      PROVE  Service!Next
  BY <1>6, Serves_syscall_hook_null, Serves_syscall_hook, Serves_HookForwards,
     Serves_HookHandles, Serves_do_rt_sigreturn, Serves_KernelReturns, ZenonT(40) DEF Service!Next
<1>7. ASSUME NEW t \in Threads,
             KernelExits(t) \/ KernelSigreturns(t) \/ HandlerReturns(t) \/ jalr_gp(t)
      PROVE  Service!Next
  BY <1>7, Serves_KernelExits, Serves_KernelSigreturns, Serves_HandlerReturns,
     Serves_jalr_gp, Zenon DEF Service!Next
<1>8. ASSUME NEW t \in Threads,
             \/ setup_shadow_page_trampoline(t) \/ asm_syscall_hook(t) \/ save_context(t)
             \/ restore_context(t) \/ ld_gp(t) \/ ld_t0(t) \/ addi_sp(t) \/ j_last(t)
      PROVE  UNCHANGED Service!vars
  BY <1>8, SilentEntry, Silent_restore_context, SilentReturn, Zenon
<1>9. ASSUME NEW t \in Threads, Progress(t) PROVE [Service!Next]_(Service!vars)
  BY <1>3, <1>5, <1>6, <1>7, <1>8, <1>9, ZenonT(40) DEF Progress
<1>10. CASE AtRest
  BY <1>1, <1>10, Zenon DEF AtRest
<1> QED
  BY <1>1, <1>2, <1>3, <1>4, <1>9, <1>10, ZenonT(40) DEF Next

\* The library as a whole, seen from outside, is the system-call service of
\* SyscallService: whatever the threads, hooks and handlers do (handlers leave
\* gp alone), every call is shown to the hook, executed or handled, and
\* answered just as that specification says.
THEOREM InterceptionImplementsService ==
  ASSUME CarefulHandlers
  PROVE  Spec => ImplementsService
<1>1. Init => Service!Init
  BY ServesInit, Zenon
<1>2. IInv /\ [Next]_vars => [Service!Next]_(Service!vars)
  BY CarefulHandlers, ServesNext, Zenon
<1>3. Init => IInv
  BY InitIInv, Zenon
<1>4. IInv /\ [Next]_vars => IInv'
  BY NextIInv, Zenon
<1> QED
  BY <1>1, <1>2, <1>3, <1>4, PTL DEF Spec, ImplementsService, Service!Spec

=============================================================================
