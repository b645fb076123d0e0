----------------------- MODULE InterceptionInvariant -----------------------
(***************************************************************************)
(* The invariant behind the correctness of Interception, and the lemmas    *)
(* that relate a step of one thread to it.                                 *)
(*                                                                         *)
(* The activities of a thread (those in susp, then the current one) form a *)
(* chain.  ActOK says of one activity, block by block, where each register *)
(* of its caller is: still in the register, or in the frame.  Chain adds   *)
(* that each activity works on the stack above the ones below it, so that  *)
(* its writes leave their frames alone.                                    *)
(***************************************************************************)
EXTENDS Interception, TLAPS

\* where in the return sequence the frame is still open, and still holds gp, t0
FrameOpen(i) == i \in {0, 1, 2, 4, 5, 6, 7, 9, 10, 11}
GpInFrame(i) == i \in {0, 4, 5, 9}
T0InFrame(i) == i \in {0, 1, 4, 5, 6, 9, 10}

Kept(a, R) == \A r \in R : a.regs[r] = a.call.regs[r]
Saved(a, f, R) == \A r \in R : f[SlotOf[r]] = a.call.regs[r]
SavedGp(a, f) == f[SlotOf["gp"]] = a.call.site

Unanswered(a) == ~ a.call.handled /\ a.call.kernel = 0
Handled(a) == a.call.handled /\ a.call.kernel = 0 /\ a.regs["a0"] = a.call.result
ServedByKernel(a) ==
  ~ a.call.handled /\ a.call.kernel = 1 /\ a.regs["a0"] = a.call.result

CallOK(a) ==
  /\ a.call.site \in Sites
  /\ a.call.regs["a7"] \in Clones => a.call.site = App
  /\ a.call.regs["a7"] = NR_rt_sigreturn => a.call.site = Handler

\* the state of an activity in the return sequence
Leaving(a, f) ==
  /\ a.sp = a.call.sp + (IF FrameOpen(a.idx) THEN 1 ELSE 0)
  /\ Kept(a, Regs \ {"a0", "t0", "gp"})
  /\ IF GpInFrame(a.idx) THEN SavedGp(a, f) ELSE a.regs["gp"] = a.call.site
  /\ IF T0InFrame(a.idx) THEN Saved(a, f, {"t0"}) ELSE Kept(a, {"t0"})
  /\ a.idx \in 0 .. 3 => Handled(a)
  /\ a.idx = 4 => Unanswered(a) /\ Kept(a, {"a0"}) /\ a.regs["a7"] \notin Clones
  /\ a.idx \in 5 .. 8 => ServedByKernel(a)
  /\ a.idx \in 9 .. 12 => Unanswered(a) /\ Kept(a, {"a0"}) /\ a.regs["a7"] \in Clones
  /\ a.idx = 13 => Handled(a) \/ ServedByKernel(a)

InFrame == TrampolineRegs \cup HookRegs

AtTrampoline(a) ==
  /\ a.sp = a.call.sp /\ a.sp < MaxDepth
  /\ a.regs["gp"] = a.call.site
  /\ Kept(a, Regs \ {"gp"})
  /\ Unanswered(a)

\* t0-t3 are saved, the other registers still hold the caller's values
Entering(a, f) ==
  /\ a.sp = a.call.sp + 1
  /\ Kept(a, HookRegs \cup {"a0"})
  /\ Saved(a, f, TrampolineRegs)
  /\ Unanswered(a)

AtEntry(a, f) == Entering(a, f) /\ a.regs["gp"] = a.call.site
Entered(a, f) ==
  /\ Entering(a, f) /\ SavedGp(a, f) /\ a.regs["gp"] = RelocatedGp
  /\ a.pc = "do_rt_sigreturn" <=> a.call.regs["a7"] = NR_rt_sigreturn

\* everything but a0 is saved, for a call that the hook may be shown
AllSaved(a, f) ==
  /\ a.sp = a.call.sp + 1 /\ Saved(a, f, InFrame) /\ SavedGp(a, f)
  /\ a.call.regs["a7"] # NR_rt_sigreturn

AtHookCall(a, f) ==
  AllSaved(a, f) /\ Unanswered(a) /\ Kept(a, {"a0"}) /\ a.regs["gp"] = RelocatedGp

InHook(a, f) ==
  /\ AllSaved(a, f) /\ Unanswered(a)
  /\ f[CLocal] = a.call.regs["a0"]
  /\ a.regs["gp"] = RelocatedGp

AtRestore(a, f) ==
  /\ AllSaved(a, f)
  /\ \/ a.regs["a1"] = Zero /\ Unanswered(a) /\ Kept(a, {"a0"})
     \/ a.regs["a1"] = One /\ Handled(a)

\* the state of an activity that is about to execute block a.pc, f being the
\* frame at its stack pointer
ActOK(a, f) ==
  /\ a.pc \in Sites \cup Blocks
  /\ a.pc = App => a.regs["gp"] = RelocatedGp
  /\ a.pc \notin {App, Handler} => CallOK(a)
  /\ a.pc = "trampoline" => AtTrampoline(a)
  /\ a.pc = "asm_syscall_hook" => AtEntry(a, f)
  /\ a.pc \in {"save_context", "do_rt_sigreturn"} => Entered(a, f)
  /\ a.pc = "syscall_hook" => AtHookCall(a, f)
  /\ a.pc = Hook => InHook(a, f)
  /\ a.pc = "restore_context" => AtRestore(a, f)
  /\ a.pc = "before_gp" => Leaving(a, f)

\* whose code an activity belongs to, and its stack pointer outside the library
Level(a) == IF a.pc \in {App, Handler} THEN a.pc ELSE a.call.site
Base(a) == IF a.pc \in {App, Handler} THEN a.sp ELSE a.call.sp

\* the activities s of one thread, bottom first, on a stack with frames m
Chain(s, m) ==
  \A j \in 1 .. Len(s) :
    /\ ActOK(s[j], m[s[j].sp])
    /\ Level(s[j]) = App <=> j = 1
    /\ \A i \in 1 .. j - 1 : s[i].sp <= Base(s[j])
    /\ Level(s[j]) = Hook => s[j - 1].pc = Hook /\ s[j - 1].sp = Base(s[j])

\* a thread that waits for its vforked child will execute the last JALR
Waiting(t) ==
  /\ idx[t] = 13
  /\ susp[t] = << >>
  /\ Chain(<<[Current(t) EXCEPT !.pc = "before_gp"]>>, mem[stack[t]])

ThreadOK(t) ==
  /\ Alive(t) => Chain(Suspend(t), mem[stack[t]])
  /\ pc[t] = "blocked" => Waiting(t)
  /\ pc[t] = "unborn" => susp[t] = << >>
  /\ pc[t] # "ebreak"
  /\ CarefulHandlers => pc[t] # "wild"

\* Of the threads that share a stack only one runs; the stack of a thread to
\* come belongs to nobody; a thread waits for at most one child, on its stack.
Sharing ==
  /\ \A t, u \in Threads : t # u /\ stack[t] = stack[u] => ~ (Alive(t) /\ Alive(u))
  /\ \A t, u \in Threads : t # u /\ pc[t] = "unborn" => stack[u] # t
  /\ \A t \in Threads : waits[t] # NoThread =>
       /\ pc[t] = "blocked"
       /\ pc[waits[t]] # "unborn"
       /\ stack[waits[t]] = stack[t]
  /\ \A t, u \in Threads : t # u /\ waits[t] = waits[u] => waits[t] = NoThread

IInv == TypeOK /\ Sharing /\ \A t \in Threads : ThreadOK(t)

\* The code of the program is at depth 0: what runs, what is suspended, and
\* parents in vfork.
AtFloor(a) == Level(a) = App => Base(a) = 0
Floor ==
  \A t \in Threads : Alive(t) \/ pc[t] = "blocked" =>
    AtFloor(Current(t)) /\ \A i \in 1 .. Len(susp[t]) : AtFloor(susp[t][i])

-----------------------------------------------------------------------------
(***************************************************************************)
(* Registers and slots.                                                    *)
(***************************************************************************)

\* The registers with a slot: the ones the trampoline saves, the ones
\* asm_syscall_hook saves around the call, and gp.
LEMMA RegisterSets ==
  /\ DOMAIN SlotOf = TrampolineRegs \cup HookRegs \cup {"gp"}
  /\ Regs = TrampolineRegs \cup HookRegs \cup {"gp", "a0"}
  /\ {"a1", "a2", "a3", "a4", "a5", "a6", "a7", "ra"} \subseteq HookRegs
  /\ HookRegs \cap (TrampolineRegs \cup {"gp", "a0"}) = {}
  /\ ArgRegs \subseteq HookRegs \cup {"a0"}
  BY DEF SlotOf, TrampolineRegs, HookRegs, Regs, ArgRegs

\* No two registers share a slot, and none is kept in CLocal.
LEMMA SlotsDistinct ==
  /\ \A r, s \in DOMAIN SlotOf : SlotOf[r] = SlotOf[s] => r = s
  /\ \A r \in DOMAIN SlotOf : SlotOf[r] \in Slots /\ SlotOf[r] # CLocal
  /\ CLocal \in Slots
  BY DEF SlotOf, Slots, CLocal

\* What StoreRegs writes and what it leaves alone.
LEMMA Stored ==
  ASSUME NEW f, NEW g, NEW R \in SUBSET DOMAIN SlotOf
  PROVE  /\ \A r \in R : StoreRegs(f, R, g)[SlotOf[r]] = g[r]
         /\ \A r \in DOMAIN SlotOf \ R : StoreRegs(f, R, g)[SlotOf[r]] = f[SlotOf[r]]
<1>1. ASSUME NEW r \in R PROVE StoreRegs(f, R, g)[SlotOf[r]] = g[r]
  <2>1. (CHOOSE q \in R : SlotOf[q] = SlotOf[r]) = r
    BY SlotsDistinct, Zenon
  <2> QED
    BY <2>1, SlotsDistinct, Zenon DEF StoreRegs
<1>2. ASSUME NEW r \in DOMAIN SlotOf \ R PROVE StoreRegs(f, R, g)[SlotOf[r]] = f[SlotOf[r]]
  BY SlotsDistinct, Zenon DEF StoreRegs
<1> QED
  BY <1>1, <1>2, Zenon

\* Frames and register files keep their types.
LEMMA RegsTyped ==
  ASSUME NEW f \in [Slots -> Values], NEW g \in RegFiles,
         NEW R \in SUBSET DOMAIN SlotOf
  PROVE  /\ StoreRegs(f, R, g) \in [Slots -> Values]
         /\ LoadRegs(f, R, g) \in RegFiles
<1>1. StoreRegs(f, R, g) \in [Slots -> Values]
  <2> SUFFICES ASSUME NEW o \in Slots
               PROVE  (IF \E r \in R : SlotOf[r] = o
                       THEN g[CHOOSE r \in R : SlotOf[r] = o] ELSE f[o]) \in Values
    BY Zenon DEF StoreRegs
  <2>1. ASSUME \E r \in R : SlotOf[r] = o
        PROVE  (CHOOSE r \in R : SlotOf[r] = o) \in Regs
    BY <2>1, RegisterSets, Zenon
  <2> QED
    BY <2>1, Zenon DEF RegFiles
<1>2. LoadRegs(f, R, g) \in RegFiles
  BY SlotsDistinct, Zenon DEF LoadRegs, RegFiles
<1> QED
  BY <1>1, <1>2, Zenon

\* What a C function leaves in the registers.
LEMMA ClobberedRegs ==
  ASSUME NEW g \in RegFiles, NEW v \in Values, NEW w \in Values
  PROVE  /\ Clobbered(g, v, w) \in RegFiles
         /\ Clobbered(g, v, w)["a0"] = v
         /\ Clobbered(g, v, w)["a1"] = w
         /\ Clobbered(g, v, w)["gp"] = g["gp"]
<1>1. Junk \in Values
  BY Zenon DEF Values, Marks
<1>2. {"a0", "a1", "gp"} \subseteq Regs
  BY RegisterSets, Zenon
<1>3. Clobbered(g, v, w) \in RegFiles
  BY <1>1, Zenon DEF Clobbered, RegFiles
<1> QED
  BY <1>2, <1>3, Zenon DEF Clobbered

-----------------------------------------------------------------------------
(***************************************************************************)
(* Chains of activities.                                                   *)
(***************************************************************************)

\* The depths at which an activity works.
LEMMA DepthsTyped ==
  ASSUME NEW a \in Activities
  PROVE  a.sp \in 0 .. MaxDepth /\ a.sp \in Int /\ Base(a) \in Int
<1>1. a.sp \in 0 .. MaxDepth /\ a.call.sp \in 0 .. MaxDepth
  BY Zenon DEF Activities, CallRecords
<1>2. \A n \in 0 .. MaxDepth : n \in Int
  OBVIOUS
<1> QED
  BY <1>1, <1>2, Zenon DEF Base

\* The current activity a does a step and becomes b: the chain is kept if b is
\* in order, belongs to the same code, and only frames above its base changed.
LEMMA ChainStep ==
  ASSUME NEW s \in Seq(Activities), NEW a \in Activities, NEW b \in Activities,
         NEW m, NEW n,
         Chain(Append(s, a), m), ActOK(b, n[b.sp]),
         Level(b) = Level(a), Base(b) = Base(a),
         \A d \in 0 .. MaxDepth : d <= Base(a) => n[d] = m[d]
  PROVE  Chain(Append(s, b), n)
<1> DEFINE p == Append(s, a)
           q == Append(s, b)
<1>1. /\ Len(p) = Len(s) + 1 /\ Len(q) = Len(s) + 1 /\ Len(s) \in Nat
      /\ p[Len(s) + 1] = a /\ q[Len(s) + 1] = b
      /\ \A i \in 1 .. Len(s) : p[i] = s[i] /\ q[i] = s[i] /\ s[i] \in Activities
  OBVIOUS
<1> HIDE DEF p, q
<1> SUFFICES ASSUME NEW j \in 1 .. Len(q)
             PROVE  /\ ActOK(q[j], n[q[j].sp])
                    /\ Level(q[j]) = App <=> j = 1
                    /\ \A i \in 1 .. j - 1 : q[i].sp <= Base(q[j])
                    /\ Level(q[j]) = Hook => q[j - 1].pc = Hook /\ q[j - 1].sp = Base(q[j])
  BY Zenon DEF Chain, q
<1>2. Chain(p, m)
  BY Zenon DEF p
<1>3. /\ ActOK(p[j], m[p[j].sp])
      /\ Level(p[j]) = App <=> j = 1
      /\ \A i \in 1 .. j - 1 : p[i].sp <= Base(p[j])
      /\ Level(p[j]) = Hook => p[j - 1].pc = Hook /\ p[j - 1].sp = Base(p[j])
  BY <1>1, <1>2, Zenon DEF Chain
<1>4. CASE j = Len(s) + 1
  <2>1. \A i \in 1 .. j - 1 : q[i] = p[i]
    BY <1>1, <1>4
  <2>2. Level(b) = Hook => j # 1
    BY <1>1, <1>3, <1>4, SitesAssumption, Zenon
  <2>3. Level(b) = Hook => j - 1 \in 1 .. j - 1
    BY <1>1, <2>2
  <2> QED
    BY <1>1, <1>3, <1>4, <2>1, <2>3, Zenon
<1>5. CASE j # Len(s) + 1
  <2>1. j \in 1 .. Len(s)
    BY <1>1, <1>5
  <2>2. q[j] = p[j] /\ p[j] = s[j] /\ \A i \in 1 .. j - 1 : q[i] = p[i]
    BY <1>1, <2>1
  <2>3. s[j].sp <= Base(a)
    <3>1. \A i \in 1 .. Len(s) : p[i].sp <= Base(p[Len(s) + 1])
      BY <1>1, <1>2 DEF Chain
    <3> QED
      BY <1>1, <2>1, <2>2, <3>1, Zenon
  <2>4. n[s[j].sp] = m[s[j].sp]
    BY <1>1, <2>1, <2>3, Zenon DEF Activities
  <2>5. Level(p[j]) = Hook => j - 1 \in 1 .. j - 1
    BY <1>1, <1>3, <2>1, SitesAssumption
  <2> QED
    BY <1>3, <2>2, <2>4, <2>5, Zenon
<1> QED
  BY <1>4, <1>5, Zenon

\* A new activity b starts above the chain s.
LEMMA ChainPush ==
  ASSUME NEW s \in Seq(Activities), NEW a \in Activities, NEW b \in Activities,
         NEW m, NEW n,
         Chain(Append(s, a), m), ActOK(b, n[b.sp]), Base(a) <= a.sp,
         Level(b) # App, a.sp <= Base(b),
         Level(b) = Hook => a.pc = Hook /\ a.sp = Base(b),
         \A d \in 0 .. MaxDepth : d <= a.sp => n[d] = m[d]
  PROVE  Chain(Append(Append(s, a), b), n)
<1> DEFINE p == Append(s, a)
           q == Append(p, b)
<1>1. /\ Len(p) = Len(s) + 1 /\ Len(q) = Len(s) + 2 /\ Len(s) \in Nat
      /\ p[Len(s) + 1] = a /\ q[Len(s) + 2] = b
      /\ \A i \in 1 .. Len(s) + 1 : q[i] = p[i] /\ p[i] \in Activities
  OBVIOUS
<1> HIDE DEF p, q
<1> SUFFICES ASSUME NEW j \in 1 .. Len(q)
             PROVE  /\ ActOK(q[j], n[q[j].sp])
                    /\ Level(q[j]) = App <=> j = 1
                    /\ \A i \in 1 .. j - 1 : q[i].sp <= Base(q[j])
                    /\ Level(q[j]) = Hook => q[j - 1].pc = Hook /\ q[j - 1].sp = Base(q[j])
  BY Zenon DEF Chain, q, p
<1>2. Chain(p, m)
  BY Zenon DEF p
<1>3. \A i \in 1 .. Len(s) + 1 : p[i].sp <= a.sp
  <2>1. \A i \in 1 .. Len(s) : p[i].sp <= Base(p[Len(s) + 1])
    BY <1>1, <1>2, SMTT(30) DEF Chain
  <2>2. Base(a) \in Int /\ a.sp \in Int /\ \A i \in 1 .. Len(s) + 1 : p[i].sp \in Int
    BY <1>1, DepthsTyped, Zenon
  <2> QED
    BY <1>1, <2>1, <2>2, SMTT(30)
<1>4. CASE j = Len(s) + 2
  <2>1. Base(b) \in Int /\ a.sp \in Int /\ \A i \in 1 .. Len(s) + 1 : p[i].sp \in Int
    BY <1>1, DepthsTyped, Zenon
  <2>2. \A i \in 1 .. j - 1 : q[i].sp <= Base(q[j])
    BY <1>1, <1>3, <1>4, <2>1
  <2> QED
    BY <1>1, <1>4, <2>2
<1>5. CASE j # Len(s) + 2
  <2>1. j \in 1 .. Len(s) + 1
    BY <1>1, <1>5
  <2>2. /\ ActOK(p[j], m[p[j].sp])
        /\ Level(p[j]) = App <=> j = 1
        /\ \A i \in 1 .. j - 1 : p[i].sp <= Base(p[j])
        /\ Level(p[j]) = Hook => p[j - 1].pc = Hook /\ p[j - 1].sp = Base(p[j])
    BY <1>1, <1>2, <2>1, Zenon DEF Chain
  <2>3. q[j] = p[j] /\ \A i \in 1 .. j - 1 : q[i] = p[i]
    BY <1>1, <2>1
  <2>4. n[p[j].sp] = m[p[j].sp]
    BY <1>1, <1>3, <2>1, Zenon DEF Activities
  <2>5. Level(p[j]) = Hook => j - 1 \in 1 .. j - 1
    BY <1>1, <2>1, <2>2, SitesAssumption
  <2> QED
    BY <2>2, <2>3, <2>4, <2>5, Zenon
<1> QED
  BY <1>4, <1>5, Zenon

\* The activities below the current one form a chain of their own.
LEMMA ChainPop ==
  ASSUME NEW s \in Seq(Activities), NEW a \in Activities, NEW m,
         Chain(Append(s, a), m), s # << >>
  PROVE  /\ Chain(s, m)
         /\ Len(s) >= 1 /\ s[Len(s)] \in Activities
         /\ SubSeq(s, 1, Len(s) - 1) \in Seq(Activities)
         /\ Append(SubSeq(s, 1, Len(s) - 1), s[Len(s)]) = s
<1>1. Len(s) \in Nat /\ Len(s) >= 1 /\ s[Len(s)] \in Activities
  OBVIOUS
<1>2. SubSeq(s, 1, Len(s) - 1) \in Seq(Activities)
  BY <1>1
<1>3. Append(SubSeq(s, 1, Len(s) - 1), s[Len(s)]) = s
  BY <1>1
<1> DEFINE p == Append(s, a)
<1>4. Len(p) = Len(s) + 1 /\ \A i \in 1 .. Len(s) : p[i] = s[i]
  OBVIOUS
<1>5. Chain(p, m)
  BY Zenon
<1> HIDE DEF p
<1>6. Chain(s, m)
  <2> SUFFICES ASSUME NEW j \in 1 .. Len(s)
               PROVE  /\ ActOK(s[j], m[s[j].sp])
                      /\ Level(s[j]) = App <=> j = 1
                      /\ \A i \in 1 .. j - 1 : s[i].sp <= Base(s[j])
                      /\ Level(s[j]) = Hook => s[j - 1].pc = Hook /\ s[j - 1].sp = Base(s[j])
    BY Zenon DEF Chain
  <2>1. /\ ActOK(p[j], m[p[j].sp])
        /\ Level(p[j]) = App <=> j = 1
        /\ \A i \in 1 .. j - 1 : p[i].sp <= Base(p[j])
        /\ Level(p[j]) = Hook => p[j - 1].pc = Hook /\ p[j - 1].sp = Base(p[j])
    BY <1>1, <1>4, <1>5 DEF Chain
  <2>2. Level(p[j]) = Hook => j - 1 \in 1 .. Len(s)
    BY <1>1, <2>1, SitesAssumption
  <2> QED
    BY <1>1, <1>4, <2>1, <2>2
<1> QED
  BY <1>1, <1>2, <1>3, <1>6, Zenon

-----------------------------------------------------------------------------
(***************************************************************************)
(* Steps of one thread.                                                    *)
(***************************************************************************)

\* The current activity of a running thread is in order.
LEMMA CurrentOK ==
  ASSUME IInv, NEW t \in Threads, Alive(t)
  PROVE  /\ Current(t) \in Activities
         /\ susp[t] \in Seq(Activities)
         /\ Chain(Append(susp[t], Current(t)), mem[stack[t]])
         /\ Frame(t) \in [Slots -> Values]
         /\ ActOK(Current(t), Frame(t))
         /\ Level(Current(t)) = App <=> susp[t] = << >>
         /\ Level(Current(t)) = Hook =>
              /\ susp[t] # << >>
              /\ susp[t][Len(susp[t])].pc = Hook
              /\ susp[t][Len(susp[t])].sp = Base(Current(t))
<1>1. Current(t) \in Activities /\ susp[t] \in Seq(Activities)
  BY Zenon DEF IInv, TypeOK, Current, Activities
<1>2. Chain(Append(susp[t], Current(t)), mem[stack[t]])
  BY Zenon DEF IInv, ThreadOK, Suspend
<1>3. Frame(t) \in [Slots -> Values]
  <2>1. stack[t] \in Threads /\ sp[t] \in 0 .. MaxDepth
    BY Zenon DEF IInv, TypeOK
  <2>2. mem[stack[t]] \in [0 .. MaxDepth -> [Slots -> Values]]
    BY <2>1, Zenon DEF IInv, TypeOK
  <2> QED
    BY <2>1, <2>2, Zenon DEF Frame
<1> DEFINE s == susp[t]
           a == Current(t)
           p == Append(s, a)
<1>4. /\ Len(p) = Len(s) + 1 /\ Len(s) \in Nat /\ p[Len(s) + 1] = a
      /\ \A i \in 1 .. Len(s) : p[i] = s[i]
      /\ s = << >> <=> Len(s) = 0
  BY <1>1
<1>5. a.sp = sp[t]
  BY Zenon DEF Current
<1>6. Chain(p, mem[stack[t]])
  BY <1>2, Zenon
<1> HIDE DEF p, s, a
<1>7. /\ ActOK(a, mem[stack[t]][a.sp])
      /\ Level(a) = App <=> Len(s) = 0
      /\ Level(a) = Hook => p[Len(s)].pc = Hook /\ p[Len(s)].sp = Base(a)
  BY <1>4, <1>6 DEF Chain
<1>8. Level(a) = Hook => Len(s) \in 1 .. Len(s)
  BY <1>4, <1>7, SitesAssumption
<1> QED
  BY <1>1, <1>2, <1>3, <1>4, <1>5, <1>7, <1>8 DEF s, a, Frame

\* The last JALR needs nothing from the stack.
LEMMA WaitingStable ==
  ASSUME NEW a, NEW m, NEW n, a.pc = "before_gp", a.idx = 13, Chain(<<a>>, m)
  PROVE  Chain(<<a>>, n)
<1>1. ActOK(a, m[a.sp])
  BY DEF Chain
<1>2. ActOK(a, n[a.sp])
  <2>1. a.pc \notin Sites /\ ~ GpInFrame(a.idx) /\ ~ T0InFrame(a.idx)
    BY SitesAssumption DEF Blocks, GpInFrame, T0InFrame
  <2>2. Leaving(a, m[a.sp])
    BY <1>1, Zenon DEF ActOK
  <2>3. Leaving(a, n[a.sp])
    BY <2>1, <2>2, Zenon DEF Leaving
  <2> QED
    BY <1>1, <2>1, <2>3, Zenon DEF ActOK, Sites
<1> QED
  BY <1>2 DEF Chain

\* A step of a running thread t that leaves the other threads, the use of
\* stacks and all other stacks alone keeps the invariant if it keeps that of t.
LEMMA ThreadStep ==
  ASSUME IInv, NEW t \in Threads, Alive(t), TypeOK',
         \A u \in Threads \ {t} :
            /\ pc'[u] = pc[u] /\ idx'[u] = idx[u] /\ sp'[u] = sp[u]
            /\ regs'[u] = regs[u] /\ call'[u] = call[u] /\ susp'[u] = susp[u],
         UNCHANGED <<stack, waits>>,
         \A k \in Threads \ {stack[t]} : mem'[k] = mem[k],
         pc'[t] \notin {"unborn", "blocked", "ebreak"},
         CarefulHandlers => pc'[t] # "wild",
         Alive(t)' => Chain(Suspend(t)', mem'[stack[t]])
  PROVE  IInv'
<1>1. ThreadOK(t)'
  BY Zenon DEF ThreadOK
<1>2. ASSUME NEW u \in Threads \ {t} PROVE ThreadOK(u)'
  <2>1. Current(u)' = Current(u) /\ Suspend(u)' = Suspend(u) /\ Alive(u)' = Alive(u)
    BY <1>2, Zenon DEF Current, Suspend, Alive
  <2>2. stack[u] \in Threads /\ stack'[u] = stack[u]
    BY <1>2, Zenon DEF IInv, TypeOK
  <2>3. ThreadOK(u)
    BY <1>2, Zenon DEF IInv
  <2>4. Alive(u) => Chain(Suspend(u), mem'[stack[u]])
    <3>1. Alive(u) => stack[u] # stack[t]
      BY <1>2, Zenon DEF IInv, Sharing
    <3> QED
      BY <2>2, <2>3, <3>1, Zenon DEF ThreadOK
  <2>5. pc[u] = "blocked" => Waiting(u)'
    <3> SUFFICES ASSUME pc[u] = "blocked" PROVE Waiting(u)'
      BY Zenon
    <3>1. Waiting(u)
      BY <2>3, Zenon DEF ThreadOK
    <3>2. [Current(u) EXCEPT !.pc = "before_gp"].pc = "before_gp"
          /\ [Current(u) EXCEPT !.pc = "before_gp"].idx = 13
      BY <3>1, Zenon DEF Waiting, Current
    <3>3. Chain(<<[Current(u) EXCEPT !.pc = "before_gp"]>>, mem'[stack[u]])
      BY <3>1, <3>2, WaitingStable, Zenon DEF Waiting
    <3> QED
      BY <1>2, <2>1, <2>2, <3>1, <3>3, Zenon DEF Waiting
  <2> QED
    BY <1>2, <2>1, <2>2, <2>3, <2>4, <2>5, Zenon DEF ThreadOK
<1>3. Sharing'
  <2>1. \A u \in Threads : Alive(u)' => Alive(u)
    BY Zenon DEF Alive
  <2>2. \A u \in Threads : pc'[u] = "unborn" => pc[u] = "unborn"
    BY Zenon
  <2>3. \A u \in Threads : waits[u] # NoThread => u # t
    BY Zenon DEF IInv, Sharing, Alive, Ends
  <2>4. \A u \in Threads : waits[u] # NoThread => waits[u] \in Threads
    BY Zenon DEF IInv, TypeOK
  <2> QED
    BY <2>1, <2>2, <2>3, <2>4, ZenonT(40) DEF IInv, Sharing
<1> QED
  BY <1>1, <1>2, <1>3, Zenon DEF IInv

\* the current activity of t becomes a
Becomes(t, a) ==
  /\ pc' = [pc EXCEPT ![t] = a.pc]
  /\ idx' = [idx EXCEPT ![t] = a.idx]
  /\ sp' = [sp EXCEPT ![t] = a.sp]
  /\ regs' = [regs EXCEPT ![t] = a.regs]
  /\ call' = [call EXCEPT ![t] = a.call]

\* Types are kept when the current activity becomes another one.
LEMMA BecomesTyped ==
  ASSUME TypeOK, NEW t \in Threads, NEW a \in Activities, Becomes(t, a)
  PROVE  /\ pc' \in [Threads -> Places]
         /\ idx' \in [Threads -> 0 .. 13]
         /\ sp' \in [Threads -> 0 .. MaxDepth]
         /\ regs' \in [Threads -> RegFiles]
         /\ call' \in [Threads -> CallRecords]
         /\ Current(t)' = a
         /\ \A u \in Threads \ {t} :
              /\ pc'[u] = pc[u] /\ idx'[u] = idx[u] /\ sp'[u] = sp[u]
              /\ regs'[u] = regs[u] /\ call'[u] = call[u]
  BY Zenon DEF TypeOK, Becomes, Activities, Current

\* A step inside the library: the current activity of t becomes a, for the
\* same call, and at most its own frame changes, to f.
LEMMA LocalStep ==
  ASSUME IInv, NEW t \in Threads, Alive(t),
         NEW a \in Activities, NEW f \in [Slots -> Values],
         Becomes(t, a), UNCHANGED <<susp, stack, events, waits, hook_fn>>,
         \/ mem' = mem /\ f = mem[stack[t]][a.sp]
         \/ mem' = [mem EXCEPT ![stack[t]][a.sp] = f] /\ Base(Current(t)) < a.sp,
         ActOK(a, f), Level(a) = Level(Current(t)), Base(a) = Base(Current(t))
  PROVE  IInv'
<1>1. /\ stack[t] \in Threads /\ a.sp \in 0 .. MaxDepth /\ Base(a) \in Int
      /\ mem \in [Threads -> [0 .. MaxDepth -> [Slots -> Values]]]
  BY DepthsTyped, Zenon DEF IInv, TypeOK
<1>2. /\ mem' \in [Threads -> [0 .. MaxDepth -> [Slots -> Values]]]
      /\ mem'[stack[t]][a.sp] = f
      /\ \A k \in Threads \ {stack[t]} : mem'[k] = mem[k]
      /\ \A d \in 0 .. MaxDepth : d <= Base(Current(t)) => mem'[stack[t]][d] = mem[stack[t]][d]
  <2>1. CASE mem' = mem /\ f = mem[stack[t]][a.sp]
    BY <1>1, <2>1, Zenon
  <2>2. CASE mem' = [mem EXCEPT ![stack[t]][a.sp] = f] /\ Base(Current(t)) < a.sp
    <3>1. mem[stack[t]] \in [0 .. MaxDepth -> [Slots -> Values]]
      BY <1>1, Zenon
    <3>2. [mem[stack[t]] EXCEPT ![a.sp] = f] \in [0 .. MaxDepth -> [Slots -> Values]]
      BY <1>1, <3>1, Zenon
    <3>3. mem' = [mem EXCEPT ![stack[t]] = [mem[stack[t]] EXCEPT ![a.sp] = f]]
      BY <1>1, <2>2, Zenon
    <3>4. mem'[stack[t]] = [mem[stack[t]] EXCEPT ![a.sp] = f]
      BY <1>1, <3>3, Zenon
    <3>5. \A k \in Threads \ {stack[t]} : mem'[k] = mem[k]
      BY <1>1, <3>3, Zenon
    <3>6. mem' \in [Threads -> [0 .. MaxDepth -> [Slots -> Values]]]
      BY <1>1, <3>2, <3>3, Zenon
    <3>7. \A d \in 0 .. MaxDepth : d # a.sp => mem'[stack[t]][d] = mem[stack[t]][d]
      BY <3>1, <3>4, Zenon
    <3>8. \A d \in 0 .. MaxDepth : d <= Base(Current(t)) => d # a.sp
      BY <1>1, <2>2
    <3>9. mem'[stack[t]][a.sp] = f
      BY <1>1, <3>1, <3>4, Zenon
    <3> QED
      BY <3>5, <3>6, <3>7, <3>8, <3>9, Zenon
  <2> QED
    BY <2>1, <2>2, Zenon
<1>3. TypeOK'
  BY <1>2, BecomesTyped, Zenon DEF IInv, TypeOK
<1>4. Current(t)' = a
  BY BecomesTyped, Zenon DEF IInv
<1>5. Chain(Append(susp[t], a), mem'[stack[t]])
  <2>1. ActOK(a, mem'[stack[t]][a.sp])
    BY <1>2, Zenon
  <2>2. /\ Chain(Append(susp[t], Current(t)), mem[stack[t]])
        /\ susp[t] \in Seq(Activities) /\ Current(t) \in Activities
    BY CurrentOK, Zenon
  <2> DEFINE s == susp[t]
             c == Current(t)
             m == mem[stack[t]]
             n == mem'[stack[t]]
  <2>3. /\ Chain(Append(s, c), m) /\ ActOK(a, n[a.sp])
        /\ s \in Seq(Activities) /\ c \in Activities
        /\ Level(a) = Level(c) /\ Base(a) = Base(c)
        /\ \A d \in 0 .. MaxDepth : d <= Base(c) => n[d] = m[d]
    BY <1>2, <2>1, <2>2, Zenon
  <2> HIDE DEF s, c, m, n
  <2>4. Chain(Append(s, a), n)
    BY <2>3, ChainStep, Zenon
  <2> QED
    BY <2>4, Zenon DEF s, n
<1>6. Chain(Suspend(t)', mem'[stack[t]])
  BY <1>4, <1>5, Zenon DEF Suspend
<1>7. pc'[t] \in Sites \cup Blocks
  BY <1>4, Zenon DEF ActOK, Current
<1>8. pc'[t] \notin {"unborn", "blocked", "ebreak", "wild"}
  BY <1>7, SitesAssumption, Zenon DEF Blocks, Ends
<1> QED
  BY <1>2, <1>3, <1>6, <1>8, BecomesTyped, ThreadStep, ZenonT(40) DEF IInv

\* The places of the library are no sites of callers.
LEMMA PlacesDistinct ==
  /\ \A p \in Blocks : p \notin Sites /\ p \notin Ends
  /\ \A p \in Sites : p \notin Blocks /\ p \notin Ends
  BY SitesAssumption, Zenon DEF Blocks, Ends

\* Values that occur in registers.
LEMMA ValuesTyped ==
  /\ {RelocatedGp, Junk, Zero, One, KernelResult, HookResult} \subseteq Values
  /\ Sites \subseteq Values /\ Numbers \subseteq Values
  BY Zenon DEF Values, Marks

\* What ActOK says of each block.
LEMMA ActCases ==
  ASSUME NEW a, NEW f
  PROVE  /\ a.pc = "trampoline" => (ActOK(a, f) <=> CallOK(a) /\ AtTrampoline(a))
         /\ a.pc = "asm_syscall_hook" => (ActOK(a, f) <=> CallOK(a) /\ AtEntry(a, f))
         /\ a.pc \in {"save_context", "do_rt_sigreturn"}
              => (ActOK(a, f) <=> CallOK(a) /\ Entered(a, f))
         /\ a.pc = "syscall_hook" => (ActOK(a, f) <=> CallOK(a) /\ AtHookCall(a, f))
         /\ a.pc = Hook => (ActOK(a, f) <=> CallOK(a) /\ InHook(a, f))
         /\ a.pc = "restore_context" => (ActOK(a, f) <=> CallOK(a) /\ AtRestore(a, f))
         /\ a.pc = "before_gp" => (ActOK(a, f) <=> CallOK(a) /\ Leaving(a, f))
         /\ a.pc = App => (ActOK(a, f) <=> a.regs["gp"] = RelocatedGp)
         /\ a.pc = Handler => ActOK(a, f)
  BY SitesAssumption, ZenonT(40) DEF ActOK, Blocks, Sites

\* Inside the library and in the hook: the call, and its caller's stack pointer.
LEMMA Inside ==
  ASSUME IInv, NEW t \in Threads, pc[t] \in Blocks \cup {Hook}
  PROVE  /\ Alive(t) /\ ActOK(Current(t), Frame(t)) /\ Frame(t) \in [Slots -> Values]
         /\ Level(Current(t)) = call[t].site /\ Base(Current(t)) = call[t].sp
         /\ call[t].site \in Sites
         /\ idx[t] \in 0 .. 13 /\ sp[t] \in 0 .. MaxDepth /\ stack[t] \in Threads
         /\ regs[t] \in RegFiles /\ call[t] \in CallRecords
         /\ call[t].sp \in 0 .. MaxDepth
         /\ mem \in [Threads -> [0 .. MaxDepth -> [Slots -> Values]]]
<1>1. Alive(t) /\ pc[t] \notin {App, Handler}
  BY PlacesDistinct, SitesAssumption, Zenon DEF Alive, Sites
<1>2. /\ idx[t] \in 0 .. 13 /\ sp[t] \in 0 .. MaxDepth /\ stack[t] \in Threads
      /\ regs[t] \in RegFiles /\ call[t] \in CallRecords
      /\ mem \in [Threads -> [0 .. MaxDepth -> [Slots -> Values]]]
  BY Zenon DEF IInv, TypeOK
<1>3. call[t].sp \in 0 .. MaxDepth
  BY <1>2, Zenon DEF CallRecords
<1>4. ActOK(Current(t), Frame(t)) /\ Frame(t) \in [Slots -> Values]
  BY <1>1, CurrentOK, Zenon
<1>5. Level(Current(t)) = call[t].site /\ Base(Current(t)) = call[t].sp
  BY <1>1, Zenon DEF Level, Base, Current
<1>6. CallOK(Current(t))
  BY <1>1, <1>4, Zenon DEF ActOK, Current
<1>7. call[t].site \in Sites
  BY <1>6, Zenon DEF CallOK, Current
<1> QED
  BY <1>1, <1>2, <1>3, <1>4, <1>5, <1>7, Zenon

\* A step inside the library, for the same call, that changes the frame at its
\* own stack pointer to f.
LEMMA WriteStep ==
  ASSUME IInv, NEW t \in Threads, pc[t] \in Blocks \cup {Hook},
         NEW a \in Activities, NEW f \in [Slots -> Values],
         Becomes(t, a), UNCHANGED <<susp, stack, events, waits, hook_fn>>,
         mem' = [mem EXCEPT ![stack[t]][a.sp] = f], call[t].sp < a.sp,
         a.pc \in Blocks \cup {Hook}, ActOK(a, f),
         a.call.site = call[t].site, a.call.sp = call[t].sp
  PROVE  IInv'
<1>1. Level(a) = Level(Current(t)) /\ Base(a) = Base(Current(t)) /\ Alive(t)
  BY Inside, PlacesDistinct, SitesAssumption, Zenon DEF Level, Base, Sites
<1>2. Base(Current(t)) < a.sp
  BY Inside, Zenon
<1> QED
  BY <1>1, <1>2, LocalStep, Zenon

\* A step inside the library, for the same call, that leaves the stack alone.
LEMMA QuietStep ==
  ASSUME IInv, NEW t \in Threads, pc[t] \in Blocks \cup {Hook},
         NEW a \in Activities,
         Becomes(t, a), UNCHANGED <<susp, stack, mem, events, waits, hook_fn>>,
         a.pc \in Blocks \cup {Hook}, ActOK(a, mem[stack[t]][a.sp]),
         a.call.site = call[t].site, a.call.sp = call[t].sp
  PROVE  IInv'
<1>1. Level(a) = Level(Current(t)) /\ Base(a) = Base(Current(t)) /\ Alive(t)
  BY Inside, PlacesDistinct, SitesAssumption, Zenon DEF Level, Base, Sites
<1>2. mem[stack[t]][a.sp] \in [Slots -> Values]
  <2>1. a.sp \in 0 .. MaxDepth /\ mem[stack[t]] \in [0 .. MaxDepth -> [Slots -> Values]]
    BY Inside, Zenon DEF Activities
  <2> QED
    BY <2>1, Zenon
<1> QED
  BY <1>1, <1>2, LocalStep, ZenonT(40)

-----------------------------------------------------------------------------
(***************************************************************************)
(* The return sequence.                                                    *)
(***************************************************************************)

\* Where each instruction of the return sequence occurs.
LEMMA Instructions ==
  ASSUME NEW i \in 0 .. 13
  PROVE  /\ Instr(i) = "ld_gp" => i \in {0, 5, 9}
         /\ Instr(i) = "ld_t0" => i \in {1, 6, 10}
         /\ Instr(i) = "addi_sp" => i \in {2, 7, 11}
         /\ Instr(i) = "j" => i \in {3, 8}
         /\ Instr(i) = "ecall" => i \in {4, 12}
         /\ Instr(i) = "jalr_gp" => i = 13
<1>1. i \in {0, 1, 2, 3, 4, 5, 6, 7, 8, 9, 10, 11, 12, 13}
  BY SMTT(30)
<1> QED
  BY <1>1 DEF Instr, before_gp

\* A step to, or inside, the return sequence.
LEMMA ReturnStep ==
  ASSUME IInv, NEW t \in Threads, pc[t] \in Blocks,
         NEW i \in 0 .. 13, NEW d \in 0 .. MaxDepth, NEW g \in RegFiles,
         NEW k \in CallRecords,
         NEW a, a = [pc |-> "before_gp", idx |-> i, sp |-> d, regs |-> g, call |-> k],
         Becomes(t, a), UNCHANGED <<susp, stack, mem, events, waits, hook_fn>>,
         k.site = call[t].site, k.sp = call[t].sp, k.regs = call[t].regs,
         Leaving(a, mem[stack[t]][d])
  PROVE  IInv'
<1>1. /\ a \in Activities /\ a.pc = "before_gp" /\ a.pc \in Blocks \cup {Hook}
      /\ a.sp = d /\ a.call = k
  BY Zenon DEF Activities, Places, Blocks
<1>2. CallOK(Current(t)) /\ Current(t).call = call[t]
  <2>1. pc[t] \notin {App, Handler} /\ ActOK(Current(t), Frame(t))
    BY Inside, PlacesDistinct, Zenon DEF Sites
  <2> QED
    BY <2>1, Zenon DEF ActOK, Current
<1>3. CallOK(a)
  BY <1>1, <1>2, Zenon DEF CallOK
<1>4. ActOK(a, mem[stack[t]][a.sp])
  BY <1>1, <1>3, ActCases, Zenon
<1> HIDE DEF Becomes, IInv
<1> QED
  BY <1>1, <1>4, QuietStep, Zenon

\* What is known of a thread in the return sequence.
LEMMA InReturn ==
  ASSUME IInv, NEW t \in Threads, pc[t] = "before_gp"
  PROVE  /\ Leaving(Current(t), Frame(t)) /\ CallOK(Current(t)) /\ pc[t] \in Blocks
         /\ Alive(t) /\ Frame(t) \in [Slots -> Values]
         /\ idx[t] \in 0 .. 13 /\ sp[t] \in 0 .. MaxDepth /\ regs[t] \in RegFiles
         /\ call[t] \in CallRecords /\ call[t].sp \in 0 .. MaxDepth
         /\ Current(t) = [pc |-> "before_gp", idx |-> idx[t], sp |-> sp[t],
                          regs |-> regs[t], call |-> call[t]]
<1>1. pc[t] \in Blocks /\ Current(t).pc = "before_gp"
  BY Zenon DEF Blocks, Current
<1> QED
  BY <1>1, Inside, ActCases, Zenon DEF Current

\* The record of a call the kernel has answered.
LEMMA ServedRecord ==
  ASSUME NEW k \in CallRecords, NEW v \in Values
  PROVE  /\ Served(k, v) \in CallRecords
         /\ Served(k, v).site = k.site /\ Served(k, v).sp = k.sp
         /\ Served(k, v).regs = k.regs /\ Served(k, v).kernel = k.kernel + 1
         /\ Served(k, v).result = v /\ Served(k, v).handled = k.handled
<1>1. k.kernel + 1 \in Nat
  BY DEF CallRecords
<1> DEFINE n == k.kernel + 1
<1>2. Served(k, v) = [k EXCEPT !.kernel = n, !.result = v]
  BY Zenon DEF Served
<1> HIDE DEF n
<1>3. [k EXCEPT !.kernel = n, !.result = v] \in CallRecords
  BY <1>1, Zenon DEF CallRecords, n
<1>4. /\ Served(k, v).site = k.site /\ Served(k, v).sp = k.sp
      /\ Served(k, v).regs = k.regs /\ Served(k, v).kernel = n
      /\ Served(k, v).result = v
  BY <1>2, Zenon DEF CallRecords
<1>5. Served(k, v).handled = k.handled
  BY <1>2, Zenon DEF CallRecords
<1> QED
  BY <1>2, <1>3, <1>4, <1>5, Zenon DEF n

\* What the kernel's answer does to an activity at an ECALL of the return
\* sequence: it may go on at the next word, at the same or at another depth.
LEMMA Answered ==
  ASSUME NEW c, NEW f, NEW a, NEW v,
         Leaving(c, f), c.idx \in {4, 12}, c.regs \in RegFiles, c.call \in CallRecords,
         a.idx = c.idx + 1, a.regs = [c.regs EXCEPT !["a0"] = v],
         a.call.kernel = c.call.kernel + 1, a.call.result = v,
         a.call.handled = c.call.handled, a.call.site = c.call.site,
         a.call.regs = c.call.regs,
         \/ a.sp = c.sp /\ a.call.sp = c.call.sp
         \/ c.idx = 12 /\ a.sp = a.call.sp /\ a.sp \in Nat
  PROVE  Leaving(a, f)
<1>1. /\ {"a0", "gp", "t0", "a7"} \subseteq Regs
      /\ a.regs["a0"] = v /\ \A r \in Regs \ {"a0"} : a.regs[r] = c.regs[r]
  BY RegisterSets DEF RegFiles, TrampolineRegs
<1>2. /\ \A R \in SUBSET (Regs \ {"a0"}) : Kept(c, R) => Kept(a, R)
      /\ Saved(c, f, {"t0"}) => Saved(a, f, {"t0"})
      /\ SavedGp(c, f) => SavedGp(a, f)
      /\ c.regs["gp"] = c.call.site => a.regs["gp"] = a.call.site
  BY <1>1, Zenon DEF Kept, Saved, SavedGp
<1>3. Unanswered(c) => ServedByKernel(a)
  BY <1>1 DEF Unanswered, ServedByKernel
<1>4. Regs \ {"a0", "t0", "gp"} \in SUBSET (Regs \ {"a0"}) /\ {"t0"} \in SUBSET (Regs \ {"a0"})
  BY <1>1, Zenon
<1>5. CASE c.idx = 4
  <2>1. /\ FrameOpen(c.idx) /\ GpInFrame(c.idx) /\ T0InFrame(c.idx)
        /\ FrameOpen(a.idx) /\ GpInFrame(a.idx) /\ T0InFrame(a.idx)
    BY <1>5 DEF FrameOpen, GpInFrame, T0InFrame
  <2>2. a.idx \notin 0 .. 3 /\ a.idx # 4 /\ a.idx \notin 9 .. 12 /\ a.idx # 13
    BY <1>5
  <2>3. a.sp = c.sp /\ a.call.sp = c.call.sp
    BY <1>5
  <2>4. /\ Unanswered(c) /\ c.sp = c.call.sp + 1 /\ Kept(c, Regs \ {"a0", "t0", "gp"})
        /\ SavedGp(c, f) /\ Saved(c, f, {"t0"})
    BY <1>5, <2>1, Zenon DEF Leaving
  <2> QED
    BY <1>2, <1>3, <1>4, <2>1, <2>2, <2>3, <2>4, Zenon DEF Leaving
<1>6. CASE c.idx = 12
  <2>1. /\ ~ FrameOpen(c.idx) /\ ~ GpInFrame(c.idx) /\ ~ T0InFrame(c.idx)
        /\ ~ FrameOpen(a.idx) /\ ~ GpInFrame(a.idx) /\ ~ T0InFrame(a.idx)
    BY <1>6 DEF FrameOpen, GpInFrame, T0InFrame
  <2>2. /\ a.idx \notin 0 .. 3 /\ a.idx # 4 /\ a.idx \notin 5 .. 8 /\ a.idx \notin 9 .. 12
        /\ c.idx \in 9 .. 12
    BY <1>6, SMTT(30)
  <2>3. a.sp = a.call.sp + 0
    BY <1>6, <2>1 DEF Leaving, CallRecords
  <2>4. /\ Unanswered(c) /\ Kept(c, Regs \ {"a0", "t0", "gp"})
        /\ c.regs["gp"] = c.call.site /\ Kept(c, {"t0"})
    BY <2>1, <2>2, Zenon DEF Leaving
  <2> QED
    BY <1>2, <1>3, <1>4, <2>1, <2>2, <2>3, <2>4, Zenon DEF Leaving
<1> QED
  BY <1>5, <1>6, Zenon

-----------------------------------------------------------------------------
(***************************************************************************)
(* What the invariant says of the calls under way.                         *)
(***************************************************************************)

\* What the invariant says of the calls under way.
LEMMA InvariantImplies ==
  ASSUME IInv
  PROVE  /\ CallerContextRestored /\ AnsweredOnce /\ KernelSeesTheCall
         /\ SuspendedFramesIntact
<1>1. ASSUME NEW t \in Threads, At(t, "jalr_gp")
      PROVE  /\ regs[t]["gp"] = call[t].site /\ sp[t] = call[t].sp
             /\ \A r \in Regs \ {"a0", "gp"} : regs[t][r] = call[t].regs[r]
             /\ call[t].kernel = (IF call[t].handled THEN 0 ELSE 1)
             /\ regs[t]["a0"] = call[t].result
  <2> DEFINE c == Current(t)
  <2>1. pc[t] = "before_gp" /\ Instr(idx[t]) = "jalr_gp"
    BY <1>1, Zenon DEF At
  <2>2. /\ Leaving(c, Frame(t)) /\ c.idx = 13 /\ c.sp = sp[t] /\ c.regs = regs[t]
        /\ c.call = call[t] /\ call[t].sp \in 0 .. MaxDepth
    BY <2>1, InReturn, Instructions, Zenon DEF Current
  <2> HIDE DEF c
  <2>3. ~ FrameOpen(c.idx) /\ ~ GpInFrame(c.idx) /\ ~ T0InFrame(c.idx)
    BY <2>2, SMTT(30) DEF FrameOpen, GpInFrame, T0InFrame
  <2>4. regs[t]["gp"] = call[t].site /\ sp[t] = call[t].sp
    BY <2>2, <2>3, BoundsAssumption, SMTT(30) DEF Leaving
  <2>5. \A r \in Regs \ {"a0", "gp"} : regs[t][r] = call[t].regs[r]
    BY <2>2, <2>3, Zenon DEF Leaving, Kept
  <2>6. Handled(c) \/ ServedByKernel(c)
    BY <2>2, Zenon DEF Leaving
  <2>7. /\ call[t].kernel = (IF call[t].handled THEN 0 ELSE 1)
        /\ regs[t]["a0"] = call[t].result
    BY <2>2, <2>6, Zenon DEF Handled, ServedByKernel
  <2> QED
    BY <2>4, <2>5, <2>7, Zenon
<1>2. ASSUME NEW t \in Threads, At(t, "ecall")
      PROVE  /\ \A r \in ArgRegs : regs[t][r] = call[t].regs[r]
             /\ ~ call[t].handled /\ call[t].kernel = 0
  <2> DEFINE c == Current(t)
  <2>1. pc[t] = "before_gp" /\ Instr(idx[t]) = "ecall"
    BY <1>2, Zenon DEF At
  <2>2. /\ Leaving(c, Frame(t)) /\ c.idx \in {4, 12} /\ c.regs = regs[t] /\ c.call = call[t]
    BY <2>1, InReturn, Instructions, ZenonT(40) DEF Current
  <2> HIDE DEF c
  <2>3. Unanswered(c) /\ Kept(c, {"a0"}) /\ Kept(c, Regs \ {"a0", "t0", "gp"})
    BY <2>2 DEF Leaving
  <2>4. ArgRegs \subseteq {"a0"} \cup (Regs \ {"a0", "t0", "gp"})
    BY RegisterSets, Zenon DEF ArgRegs, TrampolineRegs
  <2> QED
    BY <2>2, <2>3, <2>4, Zenon DEF Unanswered, Kept
<1>3. ASSUME NEW t \in Threads, NEW i \in 1 .. Len(susp[t]), Alive(t), susp[t][i].pc = Hook
      PROVE  LET k == susp[t][i].call
                 f == mem[stack[t]][susp[t][i].sp]
             IN  /\ f[SlotOf["gp"]] = k.site /\ f[CLocal] = k.regs["a0"]
                 /\ \A r \in DOMAIN SlotOf \ {"gp"} : f[SlotOf[r]] = k.regs[r]
  <2> DEFINE b == susp[t][i]
             f == mem[stack[t]][susp[t][i].sp]
             p == Append(susp[t], Current(t))
  <2>1. /\ Chain(p, mem[stack[t]]) /\ i \in 1 .. Len(p) /\ p[i] = b
    BY <1>3, CurrentOK
  <2> HIDE DEF p
  <2>2. ActOK(b, f) /\ b.pc = Hook
    BY <1>3, <2>1, ZenonT(40) DEF Chain
  <2>3. InHook(b, f)
    BY <2>2, ActCases, Zenon
  <2> HIDE DEF b, f
  <2>4. /\ f[SlotOf["gp"]] = b.call.site /\ f[CLocal] = b.call.regs["a0"]
        /\ \A r \in DOMAIN SlotOf \ {"gp"} : f[SlotOf[r]] = b.call.regs[r]
    BY <2>3, RegisterSets, Zenon DEF InHook, AllSaved, SavedGp, Saved, InFrame
  <2> QED
    BY <2>4, Zenon DEF b, f
<1> QED
  BY <1>1, <1>2, <1>3, Zenon DEF CallerContextRestored, AnsweredOnce, KernelSeesTheCall,
     SuspendedFramesIntact

-----------------------------------------------------------------------------
(***************************************************************************)
(* From the trampoline to the choice of a return path.  Each proof names   *)
(* the activity that the current one becomes, and shows where the registers*)
(* of the caller are now.                                                  *)
(***************************************************************************)

\* Opening the frame and saving t0-t3.
LEMMA Step_trampoline ==
  ASSUME IInv, NEW t \in Threads, setup_shadow_page_trampoline(t)
  PROVE  IInv'
<1> DEFINE g == [r \in Regs |-> IF r \in TrampolineRegs THEN Junk ELSE regs[t][r]]
           f == StoreRegs(mem[stack[t]][sp[t] + 1], TrampolineRegs, regs[t])
           a == [pc |-> "asm_syscall_hook", idx |-> idx[t], sp |-> sp[t] + 1,
                 regs |-> g, call |-> call[t]]
           c == Current(t)
<1>1. pc[t] = "trampoline" /\ pc[t] \in Blocks \cup {Hook}
  BY Zenon DEF setup_shadow_page_trampoline, Blocks
<1>2. AtTrampoline(c) /\ CallOK(c) /\ c.sp = sp[t] /\ c.regs = regs[t] /\ c.call = call[t]
  BY <1>1, Inside, ActCases, Zenon DEF Current
<1>3. /\ sp[t] = call[t].sp /\ sp[t] < MaxDepth
      /\ regs[t]["gp"] = call[t].site
      /\ \A r \in Regs \ {"gp"} : regs[t][r] = call[t].regs[r]
  BY <1>2, Zenon DEF AtTrampoline, Kept
<1>4. sp[t] + 1 \in 0 .. MaxDepth /\ call[t].sp < sp[t] + 1
  BY <1>1, <1>3, Inside, BoundsAssumption
<1>5. /\ g \in RegFiles
      /\ \A r \in Regs \ TrampolineRegs : g[r] = regs[t][r]
  BY <1>1, Inside, ValuesTyped, Zenon DEF RegFiles
<1>6. /\ f \in [Slots -> Values]
      /\ \A r \in TrampolineRegs : f[SlotOf[r]] = regs[t][r]
  <2>1. mem[stack[t]][sp[t] + 1] \in [Slots -> Values] /\ regs[t] \in RegFiles
    BY <1>1, <1>4, Inside, Zenon
  <2>2. TrampolineRegs \in SUBSET DOMAIN SlotOf
    BY RegisterSets, Zenon
  <2> QED
    BY <2>1, <2>2, RegsTyped, Stored
<1> HIDE DEF g, f, c
<1>7. /\ a \in Activities /\ a.pc = "asm_syscall_hook" /\ a.pc \in Blocks \cup {Hook}
      /\ a.sp = sp[t] + 1 /\ a.regs = g /\ a.call = call[t]
  BY <1>1, <1>4, <1>5, Inside, Zenon DEF Activities, Places, Blocks
<1>8. Becomes(t, a) /\ mem' = [mem EXCEPT ![stack[t]][a.sp] = f]
      /\ UNCHANGED <<susp, stack, events, waits, hook_fn>>
  BY Zenon DEF setup_shadow_page_trampoline, SetFrame, SetRegs, Goto, Becomes, IInv, TypeOK, f, g
<1> HIDE DEF a
<1>9. ActOK(a, f)
  <2>1. Saved(a, f, TrampolineRegs)
    BY <1>3, <1>6, <1>7, RegisterSets DEF Saved, TrampolineRegs
  <2>2. Kept(a, HookRegs \cup {"a0"}) /\ a.regs["gp"] = a.call.site
    BY <1>3, <1>5, <1>7, RegisterSets, Zenon DEF Kept, TrampolineRegs
  <2>3. CallOK(a) /\ Unanswered(a)
    BY <1>2, <1>7, Zenon DEF CallOK, Unanswered, AtTrampoline
  <2> QED
    BY <1>3, <1>7, <2>1, <2>2, <2>3, ActCases, Zenon DEF AtEntry, Entering
<1> QED
  BY <1>1, <1>4, <1>6, <1>7, <1>8, <1>9, WriteStep, Zenon

\* Saving gp and setting it to relocated_gp.
LEMMA Step_asm_syscall_hook ==
  ASSUME IInv, NEW t \in Threads, asm_syscall_hook(t)
  PROVE  IInv'
<1> DEFINE g == [regs[t] EXCEPT !["t1"] = regs[t]["gp"], !["gp"] = RelocatedGp]
           f == StoreRegs(Frame(t), {"gp"}, regs[t])
           p == IF regs[t]["a7"] = NR_rt_sigreturn THEN "do_rt_sigreturn" ELSE "save_context"
           a == [pc |-> p, idx |-> idx[t], sp |-> sp[t], regs |-> g, call |-> call[t]]
           c == Current(t)
<1>1. pc[t] = "asm_syscall_hook" /\ pc[t] \in Blocks \cup {Hook}
  BY Zenon DEF asm_syscall_hook, Blocks
<1>2. AtEntry(c, Frame(t)) /\ CallOK(c) /\ c.sp = sp[t] /\ c.regs = regs[t] /\ c.call = call[t]
  BY <1>1, Inside, ActCases, Zenon DEF Current
<1>3. /\ sp[t] = call[t].sp + 1 /\ regs[t]["gp"] = call[t].site
      /\ \A r \in HookRegs \cup {"a0"} : regs[t][r] = call[t].regs[r]
      /\ \A r \in TrampolineRegs : Frame(t)[SlotOf[r]] = call[t].regs[r]
  BY <1>2, Zenon DEF AtEntry, Entering, Kept, Saved
<1>4. /\ {"t1", "gp", "a7"} \subseteq Regs /\ {"gp"} \in SUBSET DOMAIN SlotOf
      /\ TrampolineRegs \subseteq DOMAIN SlotOf \ {"gp"} /\ "t1" \in TrampolineRegs
      /\ HookRegs \cup {"a0"} \subseteq Regs \ {"gp", "t1"}
  BY RegisterSets, Zenon DEF TrampolineRegs
<1>5. /\ g \in RegFiles /\ g["gp"] = RelocatedGp
      /\ \A r \in Regs \ {"gp", "t1"} : g[r] = regs[t][r]
  BY <1>1, <1>4, Inside, ValuesTyped, ZenonT(40) DEF RegFiles
<1>6. /\ f \in [Slots -> Values] /\ f[SlotOf["gp"]] = regs[t]["gp"]
      /\ \A r \in TrampolineRegs : f[SlotOf[r]] = Frame(t)[SlotOf[r]]
  BY <1>1, <1>4, Inside, RegsTyped, Stored
<1>7. p \in {"save_context", "do_rt_sigreturn"}
  BY Zenon
<1> HIDE DEF g, f, c, p
<1>8. /\ a \in Activities /\ a.pc = p /\ a.pc \in Blocks \cup {Hook}
      /\ a.sp = sp[t] /\ a.regs = g /\ a.call = call[t]
  BY <1>1, <1>5, <1>7, Inside, Zenon DEF Activities, Places, Blocks
<1>9. /\ Becomes(t, a) /\ mem' = [mem EXCEPT ![stack[t]][a.sp] = f]
      /\ UNCHANGED <<susp, stack, events, waits, hook_fn>>
  BY Zenon DEF asm_syscall_hook, SetFrame, SetRegs, Goto, Becomes, IInv, TypeOK, f, g, p
<1> HIDE DEF a
<1>10. ActOK(a, f)
  <2>1. Saved(a, f, TrampolineRegs) /\ SavedGp(a, f)
    BY <1>3, <1>6, <1>8, Zenon DEF Saved, SavedGp
  <2>2. Kept(a, HookRegs \cup {"a0"}) /\ a.regs["gp"] = RelocatedGp
    BY <1>3, <1>4, <1>5, <1>8, Zenon DEF Kept
  <2>3. CallOK(a) /\ Unanswered(a)
    BY <1>2, <1>8, Zenon DEF CallOK, Unanswered, AtEntry, Entering
  <2>4. a.pc = "do_rt_sigreturn" <=> a.call.regs["a7"] = NR_rt_sigreturn
    BY <1>3, <1>8, RegisterSets, Zenon DEF p
  <2> QED
    BY <1>3, <1>7, <1>8, <2>1, <2>2, <2>3, <2>4, ActCases, Zenon DEF Entered, Entering
<1>11. call[t].sp < a.sp
  BY <1>1, <1>3, <1>8, Inside
<1> QED
  BY <1>1, <1>6, <1>8, <1>9, <1>10, <1>11, WriteStep, Zenon

\* Saving the other caller-saved registers.
LEMMA Step_save_context ==
  ASSUME IInv, NEW t \in Threads, save_context(t)
  PROVE  IInv'
<1> DEFINE g == [regs[t] EXCEPT !["a6"] = regs[t]["t1"], !["ra"] = Junk]
           f == StoreRegs(Frame(t), HookRegs, regs[t])
           a == [pc |-> "syscall_hook", idx |-> idx[t], sp |-> sp[t], regs |-> g,
                 call |-> call[t]]
           c == Current(t)
<1>1. pc[t] = "save_context" /\ pc[t] \in Blocks \cup {Hook}
  BY Zenon DEF save_context, Blocks
<1>2. Entered(c, Frame(t)) /\ CallOK(c) /\ c.sp = sp[t] /\ c.regs = regs[t] /\ c.call = call[t]
  BY <1>1, Inside, ActCases, Zenon DEF Current
<1>3. /\ sp[t] = call[t].sp + 1 /\ regs[t]["gp"] = RelocatedGp
      /\ \A r \in HookRegs \cup {"a0"} : regs[t][r] = call[t].regs[r]
      /\ \A r \in TrampolineRegs : Frame(t)[SlotOf[r]] = call[t].regs[r]
      /\ Frame(t)[SlotOf["gp"]] = call[t].site
  BY <1>2, Zenon DEF Entered, Entering, Kept, Saved, SavedGp
<1>4. /\ {"t1", "gp", "a6", "ra", "a0"} \subseteq Regs /\ HookRegs \in SUBSET DOMAIN SlotOf
      /\ TrampolineRegs \cup {"gp"} \subseteq DOMAIN SlotOf \ HookRegs
  BY RegisterSets, Zenon DEF TrampolineRegs
<1>5. g \in RegFiles /\ g["gp"] = regs[t]["gp"] /\ g["a0"] = regs[t]["a0"]
  BY <1>1, <1>4, Inside, ValuesTyped, ZenonT(40) DEF RegFiles
<1>6. /\ f \in [Slots -> Values]
      /\ \A r \in HookRegs : f[SlotOf[r]] = regs[t][r]
      /\ \A r \in TrampolineRegs \cup {"gp"} : f[SlotOf[r]] = Frame(t)[SlotOf[r]]
  BY <1>1, <1>4, Inside, RegsTyped, Stored, SMTT(30)
<1> HIDE DEF g, f, c
<1>7. /\ a \in Activities /\ a.pc = "syscall_hook" /\ a.pc \in Blocks \cup {Hook}
      /\ a.sp = sp[t] /\ a.regs = g /\ a.call = call[t]
  BY <1>1, <1>5, Inside, Zenon DEF Activities, Places, Blocks
<1>8. /\ Becomes(t, a) /\ mem' = [mem EXCEPT ![stack[t]][a.sp] = f]
      /\ UNCHANGED <<susp, stack, events, waits, hook_fn>>
  BY Zenon DEF save_context, SetFrame, SetRegs, Goto, Becomes, IInv, TypeOK, f, g
<1> HIDE DEF a
<1>9. ActOK(a, f)
  <2>1. Saved(a, f, InFrame) /\ SavedGp(a, f)
    BY <1>3, <1>6, <1>7, Zenon DEF Saved, SavedGp, InFrame
  <2>2. Kept(a, {"a0"}) /\ a.regs["gp"] = RelocatedGp
    BY <1>3, <1>5, <1>7, Zenon DEF Kept
  <2>3. CallOK(a) /\ Unanswered(a)
    BY <1>2, <1>7, Zenon DEF CallOK, Unanswered, Entered, Entering
  <2>4. a.call.regs["a7"] # NR_rt_sigreturn
    BY <1>1, <1>2, <1>7, Zenon DEF Entered, Current, c
  <2> QED
    BY <1>3, <1>7, <2>1, <2>2, <2>3, <2>4, ActCases, Zenon DEF AtHookCall, AllSaved
<1>10. call[t].sp < a.sp
  BY <1>1, <1>3, <1>7, Inside
<1> QED
  BY <1>1, <1>6, <1>7, <1>8, <1>9, <1>10, WriteStep, Zenon

\* No hook function: the call is to be forwarded.
LEMMA Step_syscall_hook_null ==
  ASSUME IInv, NEW t \in Threads, syscall_hook_null(t)
  PROVE  IInv'
<1> DEFINE g == Clobbered(regs[t], regs[t]["a0"], Zero)
           a == [pc |-> "restore_context", idx |-> idx[t], sp |-> sp[t], regs |-> g,
                 call |-> call[t]]
           c == Current(t)
<1>1. pc[t] = "syscall_hook" /\ pc[t] \in Blocks \cup {Hook}
  BY ZenonT(40) DEF syscall_hook_null, Blocks
<1>2. AtHookCall(c, Frame(t)) /\ CallOK(c) /\ c.sp = sp[t] /\ c.regs = regs[t]
      /\ c.call = call[t]
  BY <1>1, Inside, ActCases, Zenon DEF Current
<1>3. g \in RegFiles /\ g["a0"] = regs[t]["a0"] /\ g["a1"] = Zero
  <2>1. regs[t]["a0"] \in Values /\ Zero \in Values /\ regs[t] \in RegFiles
    BY <1>1, Inside, ValuesTyped, RegisterSets, Zenon DEF RegFiles
  <2> QED
    BY <2>1, ClobberedRegs
<1> HIDE DEF g, c
<1>4. /\ a \in Activities /\ a.pc = "restore_context" /\ a.pc \in Blocks \cup {Hook}
      /\ a.sp = sp[t] /\ a.regs = g /\ a.call = call[t]
  BY <1>1, <1>3, Inside, Zenon DEF Activities, Places, Blocks
<1>5. Becomes(t, a) /\ UNCHANGED <<susp, stack, mem, events, waits, hook_fn>>
  BY Zenon DEF syscall_hook_null, SetRegs, Goto, Becomes, IInv, TypeOK, g
<1> HIDE DEF a
<1>6. AllSaved(a, Frame(t)) /\ CallOK(a)
  BY <1>2, <1>4, Zenon DEF AtHookCall, AllSaved, Saved, SavedGp, CallOK
<1>7. a.regs["a1"] = Zero /\ Unanswered(a) /\ Kept(a, {"a0"})
  BY <1>2, <1>3, <1>4, Zenon DEF AtHookCall, Unanswered, Kept
<1>8. ActOK(a, mem[stack[t]][a.sp])
  BY <1>4, <1>6, <1>7, ActCases, Zenon DEF AtRestore, Frame
<1> QED
  BY <1>1, <1>4, <1>5, <1>8, QuietStep, Zenon

\* Calling the hook function.
LEMMA Step_syscall_hook ==
  ASSUME IInv, NEW t \in Threads, syscall_hook(t)
  PROVE  IInv'
<1> DEFINE g == Clobbered(regs[t], Junk, Junk)
           f == [Frame(t) EXCEPT ![CLocal] = regs[t]["a0"]]
           a == [pc |-> Hook, idx |-> idx[t], sp |-> sp[t], regs |-> g, call |-> call[t]]
           c == Current(t)
<1>1. pc[t] = "syscall_hook" /\ pc[t] \in Blocks \cup {Hook}
  BY Zenon DEF syscall_hook, Blocks
<1>2. AtHookCall(c, Frame(t)) /\ CallOK(c) /\ c.sp = sp[t] /\ c.regs = regs[t]
      /\ c.call = call[t]
  BY <1>1, Inside, ActCases, Zenon DEF Current
<1>3. g \in RegFiles /\ g["gp"] = regs[t]["gp"]
  <2>1. Junk \in Values /\ regs[t] \in RegFiles
    BY <1>1, Inside, ValuesTyped, Zenon
  <2> QED
    BY <2>1, ClobberedRegs
<1>4. /\ f \in [Slots -> Values] /\ f[CLocal] = regs[t]["a0"]
      /\ \A r \in DOMAIN SlotOf : f[SlotOf[r]] = Frame(t)[SlotOf[r]]
  <2>1. regs[t]["a0"] \in Values /\ Frame(t) \in [Slots -> Values]
    BY <1>1, Inside, RegisterSets, Zenon DEF RegFiles
  <2> QED
    BY <2>1, SlotsDistinct, Zenon
<1> HIDE DEF g, f, c
<1>5. /\ a \in Activities /\ a.pc = Hook /\ a.pc \in Blocks \cup {Hook}
      /\ a.sp = sp[t] /\ a.regs = g /\ a.call = call[t]
  BY <1>1, <1>3, Inside, Zenon DEF Activities, Places, Sites
<1>6. /\ Becomes(t, a) /\ mem' = [mem EXCEPT ![stack[t]][a.sp] = f]
      /\ UNCHANGED <<susp, stack, events, waits, hook_fn>>
  BY Zenon DEF syscall_hook, SetFrame, SetRegs, Goto, Becomes, IInv, TypeOK, g, f
<1> HIDE DEF a
<1>7. AllSaved(a, f) /\ CallOK(a)
  BY <1>2, <1>4, <1>5, RegisterSets, Zenon
     DEF AtHookCall, AllSaved, Saved, SavedGp, CallOK, InFrame
<1>8. Unanswered(a) /\ f[CLocal] = a.call.regs["a0"] /\ a.regs["gp"] = RelocatedGp
  BY <1>2, <1>3, <1>4, <1>5, Zenon DEF AtHookCall, Unanswered, Kept
<1>9. ActOK(a, f)
  BY <1>5, <1>7, <1>8, ActCases, Zenon DEF InHook
<1>10. call[t].sp < a.sp
  BY <1>1, <1>5, <1>7, Inside DEF AllSaved
<1> QED
  BY <1>1, <1>4, <1>5, <1>6, <1>9, <1>10, WriteStep, Zenon

\* The hook asks for the call to be forwarded.
LEMMA Step_HookForwards ==
  ASSUME IInv, NEW t \in Threads, HookForwards(t)
  PROVE  IInv'
<1> DEFINE g == Clobbered(regs[t], Frame(t)[CLocal], Zero)
           a == [pc |-> "restore_context", idx |-> idx[t], sp |-> sp[t], regs |-> g,
                 call |-> call[t]]
           c == Current(t)
<1>1. pc[t] = Hook /\ pc[t] \in Blocks \cup {Hook}
  BY ZenonT(40) DEF HookForwards
<1>2. InHook(c, Frame(t)) /\ CallOK(c) /\ c.sp = sp[t] /\ c.regs = regs[t] /\ c.call = call[t]
  BY <1>1, Inside, ActCases, Zenon DEF Current
<1>3. g \in RegFiles /\ g["a0"] = Frame(t)[CLocal] /\ g["a1"] = Zero
  <2>1. Frame(t)[CLocal] \in Values /\ Zero \in Values /\ regs[t] \in RegFiles
    BY <1>1, Inside, ValuesTyped, SlotsDistinct, Zenon
  <2> QED
    BY <2>1, ClobberedRegs, SMTT(30)
<1> HIDE DEF g, c
<1>4. /\ a \in Activities /\ a.pc = "restore_context" /\ a.pc \in Blocks \cup {Hook}
      /\ a.sp = sp[t] /\ a.regs = g /\ a.call = call[t]
  BY <1>1, <1>3, Inside, Zenon DEF Activities, Places, Blocks
<1>5. Becomes(t, a) /\ UNCHANGED <<susp, stack, mem, events, waits, hook_fn>>
  BY Zenon DEF HookForwards, SetRegs, Goto, Becomes, IInv, TypeOK, g
<1> HIDE DEF a
<1>6. AllSaved(a, Frame(t)) /\ CallOK(a)
  BY <1>2, <1>4, Zenon DEF InHook, AllSaved, Saved, SavedGp, CallOK
<1>7. a.regs["a1"] = Zero /\ Unanswered(a) /\ Kept(a, {"a0"})
  BY <1>2, <1>3, <1>4, Zenon DEF InHook, Unanswered, Kept
<1>8. ActOK(a, mem[stack[t]][a.sp])
  BY <1>4, <1>6, <1>7, ActCases, Zenon DEF AtRestore, Frame
<1> QED
  BY <1>1, <1>4, <1>5, <1>8, QuietStep, Zenon

\* The hook has handled the call.
LEMMA Step_HookHandles ==
  ASSUME IInv, NEW t \in Threads, HookHandles(t)
  PROVE  IInv'
<1>1. PICK v \in {HookResult, Junk} :
        /\ regs' = [regs EXCEPT ![t] = Clobbered(regs[t], v, One)]
        /\ call' = [call EXCEPT ![t].handled = TRUE, ![t].result = v]
  BY Zenon DEF HookHandles, SetRegs
<1> DEFINE g == Clobbered(regs[t], v, One)
           k == [call[t] EXCEPT !.handled = TRUE, !.result = v]
           a == [pc |-> "restore_context", idx |-> idx[t], sp |-> sp[t], regs |-> g, call |-> k]
           c == Current(t)
<1>2. pc[t] = Hook /\ pc[t] \in Blocks \cup {Hook}
  BY ZenonT(40) DEF HookHandles
<1>3. InHook(c, Frame(t)) /\ CallOK(c) /\ c.sp = sp[t] /\ c.regs = regs[t] /\ c.call = call[t]
  BY <1>2, Inside, ActCases, Zenon DEF Current
<1>4. g \in RegFiles /\ g["a0"] = v /\ g["a1"] = One
  <2>1. v \in Values /\ One \in Values /\ regs[t] \in RegFiles
    BY <1>2, Inside, ValuesTyped, Zenon
  <2> QED
    BY <2>1, ClobberedRegs
<1>5. /\ k \in CallRecords /\ k.handled /\ k.result = v /\ k.kernel = call[t].kernel
      /\ k.site = call[t].site /\ k.sp = call[t].sp /\ k.regs = call[t].regs
  <2>1. v \in Values /\ call[t] \in CallRecords
    BY <1>2, Inside, ValuesTyped, Zenon
  <2> QED
    BY <2>1, Zenon DEF CallRecords
<1>6. call' = [call EXCEPT ![t] = k]
  BY <1>1, Zenon DEF IInv, TypeOK, CallRecords
<1> HIDE DEF g, k, c
<1>7. /\ a \in Activities /\ a.pc = "restore_context" /\ a.pc \in Blocks \cup {Hook}
      /\ a.sp = sp[t] /\ a.regs = g /\ a.call = k
  BY <1>2, <1>4, <1>5, Inside, Zenon DEF Activities, Places, Blocks
<1>8. Becomes(t, a) /\ UNCHANGED <<susp, stack, mem, events, waits, hook_fn>>
  BY <1>1, <1>6, Zenon DEF HookHandles, Goto, Becomes, IInv, TypeOK, g
<1> HIDE DEF a
<1>9. AllSaved(a, Frame(t)) /\ CallOK(a)
  BY <1>3, <1>5, <1>7, ZenonT(40) DEF InHook, AllSaved, Saved, SavedGp, CallOK
<1>10. a.regs["a1"] = One /\ Handled(a)
  BY <1>3, <1>4, <1>5, <1>7, Zenon DEF InHook, Unanswered, Handled
<1>11. ActOK(a, mem[stack[t]][a.sp])
  BY <1>7, <1>9, <1>10, ActCases, Zenon DEF AtRestore, Frame
<1>12. a.call.site = call[t].site /\ a.call.sp = call[t].sp
  BY <1>5, <1>7, Zenon
<1> QED
  BY <1>2, <1>7, <1>8, <1>11, <1>12, QuietStep, Zenon

\* Restoring everything but a0, t0 and gp, and choosing the return path.
LEMMA Step_restore_context ==
  ASSUME IInv, NEW t \in Threads, restore_context(t)
  PROVE  IInv'
<1> DEFINE h == LoadRegs(Frame(t), HookRegs \cup (TrampolineRegs \ {"t0"}), regs[t])
           g == [h EXCEPT !["t0"] = Junk]
           c == Current(t)
<1>1. pc[t] = "restore_context" /\ pc[t] \in Blocks
  BY Zenon DEF restore_context, Blocks
<1>2. AtRestore(c, Frame(t)) /\ CallOK(c) /\ c.sp = sp[t] /\ c.regs = regs[t]
      /\ c.call = call[t]
  BY <1>1, Inside, ActCases, Zenon DEF Current
<1>3. /\ sp[t] = call[t].sp + 1
      /\ \A r \in TrampolineRegs \cup HookRegs : Frame(t)[SlotOf[r]] = call[t].regs[r]
      /\ Frame(t)[SlotOf["gp"]] = call[t].site
  BY <1>2, Zenon DEF AtRestore, AllSaved, Saved, SavedGp, InFrame
<1>4. /\ {"t0", "a0", "a7", "gp"} \subseteq Regs
      /\ HookRegs \cup (TrampolineRegs \ {"t0"}) \in SUBSET DOMAIN SlotOf
      /\ Regs \ {"a0", "t0", "gp"} = HookRegs \cup (TrampolineRegs \ {"t0"})
      /\ "a0" \notin HookRegs \cup (TrampolineRegs \ {"t0"})
      /\ "a7" \in HookRegs /\ "t0" \in TrampolineRegs
  BY RegisterSets, Zenon DEF TrampolineRegs
<1>5. h \in RegFiles
  BY <1>1, <1>4, Inside, RegsTyped, Zenon
<1>6. /\ h["a0"] = regs[t]["a0"]
      /\ \A r \in Regs \ {"a0", "t0", "gp"} : h[r] = call[t].regs[r]
  BY <1>3, <1>4, Zenon DEF LoadRegs
<1>7. /\ g \in RegFiles /\ g["a0"] = regs[t]["a0"]
      /\ \A r \in Regs \ {"a0", "t0", "gp"} : g[r] = call[t].regs[r]
  BY <1>4, <1>5, <1>6, ValuesTyped, Zenon DEF RegFiles
<1>8. h["a7"] = g["a7"] /\ g["a7"] = call[t].regs["a7"]
  BY <1>4, <1>6, <1>7, Zenon
<1>9. /\ CASE regs[t]["a1"] = Zero -> LeaveAt(t, return_prelude(h["a7"]))
           [] regs[t]["a1"] = One  -> LeaveAt(t, handled_ecall)
           [] OTHER -> Goto(t, "ebreak") /\ UNCHANGED idx
      /\ regs' = [regs EXCEPT ![t] = g]
      /\ UNCHANGED <<sp, stack, mem, susp, call, events, waits, hook_fn>>
  BY Zenon DEF restore_context, SetRegs
<1> HIDE DEF g, h, c
<1>10. CASE regs[t]["a1"] = Zero /\ Unanswered(c) /\ Kept(c, {"a0"})
  <2> DEFINE i == IF g["a7"] \in Clones THEN 9 ELSE 4
             a == [pc |-> "before_gp", idx |-> i, sp |-> sp[t], regs |-> g, call |-> call[t]]
  <2>1. return_prelude(h["a7"]) = i
    BY <1>8 DEF return_prelude, EntryAt, RET_SEQUENCE_SIZE
  <2>2. LeaveAt(t, i)
    <3>1. LeaveAt(t, return_prelude(h["a7"]))
      BY <1>9, <1>10, ChoiceAssumption, Zenon
    <3> QED
      BY <2>1, <3>1, Zenon
  <2>3. Becomes(t, a)
    BY <1>9, <2>2, Zenon DEF LeaveAt, Goto, Becomes, IInv, TypeOK
  <2>4. i \in {4, 9} /\ (i = 4 <=> g["a7"] \notin Clones)
    OBVIOUS
  <2> HIDE DEF i
  <2>5. a.idx = i /\ a.sp = sp[t] /\ a.regs = g /\ a.call = call[t]
    BY Zenon
  <2> HIDE DEF a
  <2>6. /\ FrameOpen(a.idx) /\ GpInFrame(a.idx) /\ T0InFrame(a.idx)
        /\ a.idx \in {4, 9}
    BY <2>4, <2>5, Zenon DEF FrameOpen, GpInFrame, T0InFrame
  <2>7. Kept(a, Regs \ {"a0", "t0", "gp"}) /\ SavedGp(a, Frame(t)) /\ Saved(a, Frame(t), {"t0"})
    BY <1>3, <1>4, <1>7, <2>5, Zenon DEF Kept, SavedGp, Saved
  <2>8. Unanswered(a) /\ Kept(a, {"a0"})
    BY <1>2, <1>7, <1>10, <2>5, Zenon DEF Unanswered, Kept
  <2>9. Leaving(a, Frame(t))
    BY <1>3, <2>4, <2>5, <2>6, <2>7, <2>8, SMTT(30) DEF Leaving
  <2>10. Leaving(a, mem[stack[t]][sp[t]])
    BY <2>9, Zenon DEF Frame
  <2>11. i \in 0 .. 13 /\ sp[t] \in 0 .. MaxDepth /\ call[t] \in CallRecords
    BY <1>1, <2>4, Inside
  <2>12. a = [pc |-> "before_gp", idx |-> i, sp |-> sp[t], regs |-> g, call |-> call[t]]
    BY Zenon DEF a
  <2> QED
    BY <1>1, <1>7, <1>9, <2>3, <2>10, <2>11, <2>12, ReturnStep, Zenon
<1>11. CASE regs[t]["a1"] = One /\ Handled(c)
  <2> DEFINE a == [pc |-> "before_gp", idx |-> 0, sp |-> sp[t], regs |-> g, call |-> call[t]]
  <2>1. LeaveAt(t, 0)
    BY <1>9, <1>11, ChoiceAssumption DEF handled_ecall, EntryAt, RET_SEQUENCE_SIZE
  <2>2. Becomes(t, a)
    BY <1>9, <2>1, Zenon DEF LeaveAt, Goto, Becomes, IInv, TypeOK
  <2>3. a.idx = 0 /\ a.sp = sp[t] /\ a.regs = g /\ a.call = call[t]
    BY Zenon
  <2> HIDE DEF a
  <2>4. FrameOpen(a.idx) /\ GpInFrame(a.idx) /\ T0InFrame(a.idx)
    BY <2>3, Zenon DEF FrameOpen, GpInFrame, T0InFrame
  <2>5. Kept(a, Regs \ {"a0", "t0", "gp"}) /\ SavedGp(a, Frame(t)) /\ Saved(a, Frame(t), {"t0"})
    BY <1>3, <1>4, <1>7, <2>3, Zenon DEF Kept, SavedGp, Saved
  <2>6. Handled(a)
    BY <1>2, <1>7, <1>11, <2>3, ZenonT(40) DEF Handled
  <2>7. Leaving(a, Frame(t))
    BY <1>3, <2>3, <2>4, <2>5, <2>6, SMTT(30) DEF Leaving
  <2>8. Leaving(a, mem[stack[t]][sp[t]])
    BY <2>7, Zenon DEF Frame
  <2>9. 0 \in 0 .. 13 /\ sp[t] \in 0 .. MaxDepth /\ call[t] \in CallRecords
    BY <1>1, Inside
  <2>10. a = [pc |-> "before_gp", idx |-> 0, sp |-> sp[t], regs |-> g, call |-> call[t]]
    BY Zenon DEF a
  <2> QED
    BY <1>1, <1>7, <1>9, <2>2, <2>8, <2>9, <2>10, ReturnStep, Zenon
<1> QED
  BY <1>2, <1>10, <1>11, Zenon DEF AtRestore

=============================================================================
