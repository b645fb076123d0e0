------------------------- MODULE InterceptionProofs -------------------------
(***************************************************************************)
(* Every other step keeps the invariant: the return sequence, calls issued *)
(* by the program, by hooks and by handlers, signals, clones and exits.    *)
(* What follows: interception is transparent for any number of threads,    *)
(* nested calls and signals.                                               *)
(*                                                                         *)
(* Last, the stack of a caller: the program's own code is at depth 0, what *)
(* the library and the kernel write is above whatever somebody will come   *)
(* back to.                                                                *)
(***************************************************************************)
EXTENDS InterceptionInvariant

-----------------------------------------------------------------------------
(***************************************************************************)
(* The return sequence, and the short cut that rt_sigreturn takes to it.   *)
(***************************************************************************)

\* rt_sigreturn: restoring t1-t3 and forwarding.
LEMMA Step_do_rt_sigreturn ==
  ASSUME IInv, NEW t \in Threads, do_rt_sigreturn(t)
  PROVE  IInv'
<1> DEFINE h == LoadRegs(Frame(t), TrampolineRegs \ {"t0"}, regs[t])
           g == [h EXCEPT !["t0"] = Junk]
           i == IF g["a7"] \in Clones THEN 9 ELSE 4
           a == [pc |-> "before_gp", idx |-> i, sp |-> sp[t], regs |-> g, call |-> call[t]]
           c == Current(t)
<1>1. pc[t] = "do_rt_sigreturn" /\ pc[t] \in Blocks
  BY Zenon DEF do_rt_sigreturn, Blocks
<1>2. Entered(c, Frame(t)) /\ CallOK(c) /\ c.sp = sp[t] /\ c.regs = regs[t] /\ c.call = call[t]
  BY <1>1, Inside, ActCases, Zenon DEF Current
<1>3. /\ sp[t] = call[t].sp + 1
      /\ \A r \in HookRegs \cup {"a0"} : regs[t][r] = call[t].regs[r]
      /\ \A r \in TrampolineRegs : Frame(t)[SlotOf[r]] = call[t].regs[r]
      /\ Frame(t)[SlotOf["gp"]] = call[t].site
  BY <1>2, Zenon DEF Entered, Entering, Kept, Saved, SavedGp
<1>4. /\ {"t0", "a0", "a7", "gp"} \subseteq Regs
      /\ TrampolineRegs \ {"t0"} \in SUBSET DOMAIN SlotOf
      /\ Regs \ {"t0", "gp"} = HookRegs \cup {"a0"} \cup (TrampolineRegs \ {"t0"})
      /\ (HookRegs \cup {"a0"}) \cap TrampolineRegs = {}
      /\ "a7" \in HookRegs /\ "t0" \in TrampolineRegs
  BY RegisterSets, Zenon DEF TrampolineRegs
<1>5. h \in RegFiles
  BY <1>1, <1>4, Inside, RegsTyped, Zenon
<1>6. /\ \A r \in Regs \ {"t0", "gp"} : h[r] = call[t].regs[r]
      /\ h["a7"] = regs[t]["a7"]
  BY <1>3, <1>4, Zenon DEF LoadRegs
<1>7. /\ g \in RegFiles /\ g["a7"] = regs[t]["a7"]
      /\ \A r \in Regs \ {"t0", "gp"} : g[r] = call[t].regs[r]
  BY <1>4, <1>5, <1>6, ValuesTyped, Zenon DEF RegFiles
<1>8. return_prelude(regs[t]["a7"]) = i
  BY <1>7 DEF return_prelude, EntryAt, RET_SEQUENCE_SIZE
<1>9. /\ LeaveAt(t, return_prelude(regs[t]["a7"])) /\ regs' = [regs EXCEPT ![t] = g]
      /\ UNCHANGED <<sp, stack, mem, susp, call, events, waits, hook_fn>>
  BY Zenon DEF do_rt_sigreturn, SetRegs
<1>10. i \in {4, 9} /\ (i = 4 <=> g["a7"] \notin Clones)
  OBVIOUS
<1> HIDE DEF g, h, c, i
<1>11. Becomes(t, a)
  BY <1>8, <1>9, Zenon DEF LeaveAt, Goto, Becomes, IInv, TypeOK
<1>12. a.idx = i /\ a.sp = sp[t] /\ a.regs = g /\ a.call = call[t]
  BY Zenon
<1>13. a = [pc |-> "before_gp", idx |-> i, sp |-> sp[t], regs |-> g, call |-> call[t]]
  BY Zenon
<1> HIDE DEF a
<1>14. FrameOpen(a.idx) /\ GpInFrame(a.idx) /\ T0InFrame(a.idx) /\ a.idx \in {4, 9}
  BY <1>10, <1>12, Zenon DEF FrameOpen, GpInFrame, T0InFrame
<1>15. /\ Kept(a, Regs \ {"a0", "t0", "gp"}) /\ Kept(a, {"a0"})
       /\ SavedGp(a, Frame(t)) /\ Saved(a, Frame(t), {"t0"})
  BY <1>3, <1>4, <1>7, <1>12, Zenon DEF Kept, SavedGp, Saved
<1>16. Unanswered(a)
  BY <1>2, <1>12, Zenon DEF Unanswered, Entered, Entering
<1>17. Leaving(a, Frame(t))
  BY <1>3, <1>10, <1>12, <1>14, <1>15, <1>16 DEF Leaving
<1>18. Leaving(a, mem[stack[t]][sp[t]])
  BY <1>17, Zenon DEF Frame
<1>19. i \in 0 .. 13 /\ sp[t] \in 0 .. MaxDepth /\ call[t] \in CallRecords
  BY <1>1, <1>10, Inside
<1> QED
  BY <1>1, <1>7, <1>9, <1>11, <1>13, <1>18, <1>19, ReturnStep, Zenon

\* Reloading gp.
LEMMA Step_ld_gp ==
  ASSUME IInv, NEW t \in Threads, ld_gp(t)
  PROVE  IInv'
<1> DEFINE g == LoadRegs(Frame(t), {"gp"}, regs[t])
           a == [pc |-> "before_gp", idx |-> idx[t] + 1, sp |-> sp[t], regs |-> g,
                 call |-> call[t]]
           c == Current(t)
<1>1. pc[t] = "before_gp" /\ Instr(idx[t]) = "ld_gp"
  BY Zenon DEF ld_gp, At
<1>2. idx[t] \in {0, 5, 9}
  BY <1>1, InReturn, Instructions, Zenon
<1>3. /\ Leaving(c, Frame(t)) /\ c.idx = idx[t] /\ c.sp = sp[t] /\ c.regs = regs[t]
      /\ c.call = call[t]
  BY <1>1, InReturn, Zenon DEF Current
<1>4. g \in RegFiles
  BY <1>1, InReturn, RegsTyped, RegisterSets, Zenon
<1>5. /\ g["gp"] = Frame(t)[SlotOf["gp"]]
      /\ \A r \in Regs \ {"gp"} : g[r] = regs[t][r]
      /\ {"gp", "a0", "a7", "t0"} \subseteq Regs
  BY RegisterSets, Zenon DEF LoadRegs, TrampolineRegs
<1>6. Becomes(t, a) /\ UNCHANGED <<susp, stack, mem, events, waits, hook_fn>>
  BY <1>1, Zenon DEF ld_gp, SetRegs, Step, Becomes, IInv, TypeOK
<1> HIDE DEF g, c
<1>7. /\ a.idx = idx[t] + 1 /\ a.sp = sp[t] /\ a.regs = g /\ a.call = call[t]
      /\ a = [pc |-> "before_gp", idx |-> idx[t] + 1, sp |-> sp[t], regs |-> g,
              call |-> call[t]]
  BY Zenon
<1> HIDE DEF a
<1>8. /\ \A R \in SUBSET (Regs \ {"gp"}) : Kept(c, R) => Kept(a, R)
      /\ Saved(c, Frame(t), {"t0"}) => Saved(a, Frame(t), {"t0"})
      /\ SavedGp(c, Frame(t)) => a.regs["gp"] = a.call.site
  BY <1>3, <1>5, <1>7 DEF Kept, Saved, SavedGp
<1>9. /\ Handled(c) => Handled(a)
      /\ ServedByKernel(c) => ServedByKernel(a)
      /\ Unanswered(c) => Unanswered(a)
      /\ a.regs["a7"] = c.regs["a7"]
  BY <1>3, <1>5, <1>7, Zenon DEF Handled, ServedByKernel, Unanswered
<1>10. Leaving(a, Frame(t))
  <2>1. /\ FrameOpen(c.idx) /\ GpInFrame(c.idx) /\ T0InFrame(c.idx)
        /\ FrameOpen(a.idx) /\ ~ GpInFrame(a.idx) /\ T0InFrame(a.idx)
    BY <1>2, <1>3, <1>7 DEF FrameOpen, GpInFrame, T0InFrame
  <2>2. Regs \ {"a0", "t0", "gp"} \in SUBSET (Regs \ {"gp"}) /\ {"a0"} \in SUBSET (Regs \ {"gp"})
    BY <1>5, Zenon
  <2> QED
    BY <1>2, <1>3, <1>7, <1>8, <1>9, <2>1, <2>2, SMTT(30) DEF Leaving
<1>11. Leaving(a, mem[stack[t]][sp[t]])
  BY <1>10, Zenon DEF Frame
<1>12. idx[t] + 1 \in 0 .. 13 /\ sp[t] \in 0 .. MaxDepth /\ call[t] \in CallRecords
       /\ pc[t] \in Blocks
  BY <1>1, <1>2, InReturn, SMTT(30)
<1> QED
  BY <1>4, <1>6, <1>7, <1>11, <1>12, ReturnStep, Zenon

\* Reloading t0.
LEMMA Step_ld_t0 ==
  ASSUME IInv, NEW t \in Threads, ld_t0(t)
  PROVE  IInv'
<1> DEFINE g == LoadRegs(Frame(t), {"t0"}, regs[t])
           a == [pc |-> "before_gp", idx |-> idx[t] + 1, sp |-> sp[t], regs |-> g,
                 call |-> call[t]]
           c == Current(t)
<1>1. pc[t] = "before_gp" /\ Instr(idx[t]) = "ld_t0"
  BY Zenon DEF ld_t0, At
<1>2. idx[t] \in {1, 6, 10}
  BY <1>1, InReturn, Instructions, Zenon
<1>3. /\ Leaving(c, Frame(t)) /\ c.idx = idx[t] /\ c.sp = sp[t] /\ c.regs = regs[t]
      /\ c.call = call[t]
  BY <1>1, InReturn, Zenon DEF Current
<1>4. g \in RegFiles
  BY <1>1, InReturn, RegsTyped, RegisterSets, Zenon DEF TrampolineRegs
<1>5. /\ g["t0"] = Frame(t)[SlotOf["t0"]]
      /\ \A r \in Regs \ {"t0"} : g[r] = regs[t][r]
      /\ {"gp", "a0", "a7", "t0"} \subseteq Regs
  BY RegisterSets, Zenon DEF LoadRegs, TrampolineRegs
<1>6. Becomes(t, a) /\ UNCHANGED <<susp, stack, mem, events, waits, hook_fn>>
  BY <1>1, Zenon DEF ld_t0, SetRegs, Step, Becomes, IInv, TypeOK
<1> HIDE DEF g, c
<1>7. /\ a.idx = idx[t] + 1 /\ a.sp = sp[t] /\ a.regs = g /\ a.call = call[t]
      /\ a = [pc |-> "before_gp", idx |-> idx[t] + 1, sp |-> sp[t], regs |-> g,
              call |-> call[t]]
  BY Zenon
<1> HIDE DEF a
<1>8. /\ \A R \in SUBSET (Regs \ {"t0"}) : Kept(c, R) => Kept(a, R)
      /\ Saved(c, Frame(t), {"t0"}) => Kept(a, {"t0"})
      /\ c.regs["gp"] = c.call.site => a.regs["gp"] = a.call.site
  BY <1>3, <1>5, <1>7, ZenonT(40) DEF Kept, Saved
<1>9. /\ Handled(c) => Handled(a)
      /\ ServedByKernel(c) => ServedByKernel(a)
      /\ Unanswered(c) => Unanswered(a)
      /\ a.regs["a7"] = c.regs["a7"]
  BY <1>3, <1>5, <1>7, Zenon DEF Handled, ServedByKernel, Unanswered
<1>10. Leaving(a, Frame(t))
  <2>1. /\ FrameOpen(c.idx) /\ ~ GpInFrame(c.idx) /\ T0InFrame(c.idx)
        /\ FrameOpen(a.idx) /\ ~ GpInFrame(a.idx) /\ ~ T0InFrame(a.idx)
    BY <1>2, <1>3, <1>7 DEF FrameOpen, GpInFrame, T0InFrame
  <2>2. Regs \ {"a0", "t0", "gp"} \in SUBSET (Regs \ {"t0"}) /\ {"a0"} \in SUBSET (Regs \ {"t0"})
    BY <1>5, Zenon
  <2> QED
    BY <1>2, <1>3, <1>7, <1>8, <1>9, <2>1, <2>2, SMTT(30) DEF Leaving
<1>11. Leaving(a, mem[stack[t]][sp[t]])
  BY <1>10, Zenon DEF Frame
<1>12. idx[t] + 1 \in 0 .. 13 /\ sp[t] \in 0 .. MaxDepth /\ call[t] \in CallRecords
       /\ pc[t] \in Blocks
  BY <1>1, <1>2, InReturn, SMTT(30)
<1> QED
  BY <1>4, <1>6, <1>7, <1>11, <1>12, ReturnStep, Zenon

\* Closing the frame.
LEMMA Step_addi_sp ==
  ASSUME IInv, NEW t \in Threads, addi_sp(t)
  PROVE  IInv'
<1> DEFINE a == [pc |-> "before_gp", idx |-> idx[t] + 1, sp |-> sp[t] - 1, regs |-> regs[t],
                 call |-> call[t]]
           c == Current(t)
           f == mem[stack[t]][sp[t] - 1]
<1>1. pc[t] = "before_gp" /\ Instr(idx[t]) = "addi_sp"
  BY Zenon DEF addi_sp, At
<1>2. idx[t] \in {2, 7, 11}
  BY <1>1, InReturn, Instructions, Zenon
<1>3. /\ Leaving(c, Frame(t)) /\ c.idx = idx[t] /\ c.sp = sp[t] /\ c.regs = regs[t]
      /\ c.call = call[t]
  BY <1>1, InReturn, Zenon DEF Current
<1>4. Becomes(t, a) /\ UNCHANGED <<susp, stack, mem, events, waits, hook_fn>>
  BY <1>1, Zenon DEF addi_sp, Step, Becomes, IInv, TypeOK
<1> HIDE DEF c, f
<1>5. /\ a.idx = idx[t] + 1 /\ a.sp = sp[t] - 1 /\ a.regs = regs[t] /\ a.call = call[t]
      /\ a = [pc |-> "before_gp", idx |-> idx[t] + 1, sp |-> sp[t] - 1, regs |-> regs[t],
              call |-> call[t]]
  BY Zenon
<1> HIDE DEF a
<1>6. /\ FrameOpen(c.idx) /\ ~ GpInFrame(c.idx) /\ ~ T0InFrame(c.idx)
      /\ ~ FrameOpen(a.idx) /\ ~ GpInFrame(a.idx) /\ ~ T0InFrame(a.idx)
  BY <1>2, <1>3, <1>5, SMTT(30) DEF FrameOpen, GpInFrame, T0InFrame
<1>7. sp[t] = call[t].sp + 1 /\ sp[t] - 1 = call[t].sp
  BY <1>1, <1>3, <1>6, InReturn DEF Leaving
<1>8. /\ \A R : Kept(c, R) => Kept(a, R)
      /\ Handled(c) => Handled(a)
      /\ ServedByKernel(c) => ServedByKernel(a)
      /\ Unanswered(c) => Unanswered(a)
  BY <1>3, <1>5, Zenon DEF Kept, Handled, ServedByKernel, Unanswered
<1>9. Leaving(a, f)
  <2>1. a.sp = a.call.sp
    BY <1>5, <1>7, Zenon
  <2>2. a.call.sp \in Int
    BY <1>1, <1>5, InReturn
  <2> QED
    BY <1>2, <1>3, <1>5, <1>6, <1>8, <2>1, <2>2 DEF Leaving
<1>10. Leaving(a, mem[stack[t]][sp[t] - 1])
  BY <1>9, Zenon DEF f
<1>11. /\ idx[t] + 1 \in 0 .. 13 /\ sp[t] - 1 \in 0 .. MaxDepth /\ call[t] \in CallRecords
       /\ pc[t] \in Blocks /\ regs[t] \in RegFiles
  BY <1>1, <1>2, <1>7, InReturn
<1> QED
  BY <1>4, <1>5, <1>10, <1>11, ReturnStep, Zenon

\* Jumping to the last word.
LEMMA Step_j_last ==
  ASSUME IInv, NEW t \in Threads, j_last(t)
  PROVE  IInv'
<1> DEFINE a == [pc |-> "before_gp", idx |-> 13, sp |-> sp[t], regs |-> regs[t],
                 call |-> call[t]]
           c == Current(t)
<1>1. pc[t] = "before_gp" /\ Instr(idx[t]) = "j"
  BY Zenon DEF j_last, At
<1>2. idx[t] \in {3, 8}
  BY <1>1, InReturn, Instructions, Zenon
<1>3. /\ Leaving(c, Frame(t)) /\ c.idx = idx[t] /\ c.sp = sp[t] /\ c.regs = regs[t]
      /\ c.call = call[t]
  BY <1>1, InReturn, Zenon DEF Current
<1>4. Becomes(t, a) /\ UNCHANGED <<susp, stack, mem, events, waits, hook_fn>>
  BY <1>1, Zenon DEF j_last, Step, JumpTarget, Becomes, IInv, TypeOK
<1> HIDE DEF c
<1>5. /\ a.idx = 13 /\ a.sp = sp[t] /\ a.regs = regs[t] /\ a.call = call[t]
      /\ a = [pc |-> "before_gp", idx |-> 13, sp |-> sp[t], regs |-> regs[t],
              call |-> call[t]]
  BY Zenon
<1> HIDE DEF a
<1>6. /\ ~ FrameOpen(c.idx) /\ ~ GpInFrame(c.idx) /\ ~ T0InFrame(c.idx)
      /\ ~ FrameOpen(a.idx) /\ ~ GpInFrame(a.idx) /\ ~ T0InFrame(a.idx)
  BY <1>2, <1>3, <1>5 DEF FrameOpen, GpInFrame, T0InFrame
<1>7. /\ \A R : Kept(c, R) => Kept(a, R)
      /\ Handled(c) => Handled(a)
      /\ ServedByKernel(c) => ServedByKernel(a)
  BY <1>3, <1>5, ZenonT(40) DEF Kept, Handled, ServedByKernel
<1>8. Leaving(a, Frame(t))
  BY <1>2, <1>3, <1>5, <1>6, <1>7, SMTT(30) DEF Leaving
<1>9. Leaving(a, mem[stack[t]][sp[t]])
  BY <1>8, Zenon DEF Frame
<1>10. /\ 13 \in 0 .. 13 /\ sp[t] \in 0 .. MaxDepth /\ call[t] \in CallRecords
       /\ pc[t] \in Blocks /\ regs[t] \in RegFiles
  BY <1>1, InReturn
<1> QED
  BY <1>4, <1>5, <1>9, <1>10, ReturnStep, Zenon

\* The kernel has executed a forwarded call.
LEMMA Step_KernelReturns ==
  ASSUME IInv, NEW t \in Threads, KernelReturns(t)
  PROVE  IInv'
<1> DEFINE g == [regs[t] EXCEPT !["a0"] = KernelResult]
           k == Served(call[t], KernelResult)
           a == [pc |-> "before_gp", idx |-> idx[t] + 1, sp |-> sp[t], regs |-> g, call |-> k]
           c == Current(t)
<1>1. pc[t] = "before_gp" /\ Instr(idx[t]) = "ecall"
  BY Zenon DEF KernelReturns, At
<1>2. idx[t] \in {4, 12}
  BY <1>1, InReturn, Instructions, Zenon
<1>3. /\ Leaving(c, Frame(t)) /\ c.idx = idx[t] /\ c.sp = sp[t] /\ c.regs = regs[t]
      /\ c.call = call[t] /\ regs[t] \in RegFiles /\ call[t] \in CallRecords
  BY <1>1, InReturn, Zenon DEF Current
<1>4. g \in RegFiles
  BY <1>3, ValuesTyped, Zenon DEF RegFiles
<1>5. /\ k \in CallRecords /\ k.site = call[t].site /\ k.sp = call[t].sp
      /\ k.regs = call[t].regs /\ k.kernel = call[t].kernel + 1
      /\ k.result = KernelResult /\ k.handled = call[t].handled
  <2>1. KernelResult \in Values
    BY ValuesTyped, Zenon
  <2> QED
    BY <1>3, <2>1, ServedRecord, Zenon
<1>6. Becomes(t, a) /\ UNCHANGED <<susp, stack, mem, events, waits, hook_fn>>
  BY <1>1, Zenon DEF KernelReturns, SetRegs, Step, Becomes, IInv, TypeOK
<1> HIDE DEF c, k
<1>7. /\ a.idx = idx[t] + 1 /\ a.sp = sp[t] /\ a.regs = g /\ a.call = k
      /\ a = [pc |-> "before_gp", idx |-> idx[t] + 1, sp |-> sp[t], regs |-> g, call |-> k]
  BY Zenon
<1> HIDE DEF a
<1>8. Leaving(a, Frame(t))
  <2>1. /\ Leaving(c, Frame(t)) /\ c.idx \in {4, 12} /\ c.regs \in RegFiles
        /\ c.call \in CallRecords /\ a.idx = c.idx + 1
        /\ a.regs = [c.regs EXCEPT !["a0"] = KernelResult]
        /\ a.call.kernel = c.call.kernel + 1 /\ a.call.result = KernelResult
        /\ a.call.handled = c.call.handled /\ a.call.site = c.call.site
        /\ a.call.regs = c.call.regs /\ a.sp = c.sp /\ a.call.sp = c.call.sp
    BY <1>2, <1>3, <1>5, <1>7, ZenonT(40)
  <2> QED
    BY <2>1, Answered, Zenon
<1> HIDE DEF g
<1>9. Leaving(a, mem[stack[t]][sp[t]])
  BY <1>8, Zenon DEF Frame
<1>10. idx[t] + 1 \in 0 .. 13 /\ sp[t] \in 0 .. MaxDepth /\ pc[t] \in Blocks
  BY <1>1, <1>2, InReturn, SMTT(30)
<1> QED
  BY <1>4, <1>5, <1>6, <1>7, <1>9, <1>10, ReturnStep, Zenon

\* The last JALR: back to the caller.
LEMMA Step_jalr_gp ==
  ASSUME IInv, NEW t \in Threads, jalr_gp(t)
  PROVE  IInv'
<1> DEFINE g == [regs[t] EXCEPT !["gp"] = RelocatedGp]
           c == Current(t)
           site == call[t].site
<1>1. pc[t] = "before_gp" /\ Instr(idx[t]) = "jalr_gp"
  BY Zenon DEF jalr_gp, At
<1>2. idx[t] = 13
  BY <1>1, InReturn, Instructions, Zenon
<1>3. /\ Leaving(c, Frame(t)) /\ CallOK(c) /\ c.idx = 13 /\ c.sp = sp[t] /\ c.regs = regs[t]
      /\ c.call = call[t]
  BY <1>1, <1>2, InReturn, Zenon DEF Current
<1>4. regs[t]["gp"] = site /\ sp[t] = call[t].sp /\ site \in Sites
  <2>1. ~ FrameOpen(c.idx) /\ ~ GpInFrame(c.idx)
    BY <1>3 DEF FrameOpen, GpInFrame
  <2>2. c.regs["gp"] = c.call.site /\ c.sp = c.call.sp + 0 /\ c.call.site \in Sites
    BY <1>3, <2>1, Zenon DEF Leaving, CallOK
  <2>3. call[t].sp \in 0 .. MaxDepth
    BY <1>1, InReturn, Zenon
  <2> QED
    BY <1>3, <2>2, <2>3, BoundsAssumption
<1>5. /\ idx[t] \in 0 .. 13 /\ sp[t] \in 0 .. MaxDepth /\ Alive(t)
      /\ g \in RegFiles /\ g["gp"] = RelocatedGp
  BY <1>1, InReturn, ValuesTyped, RegisterSets, Zenon DEF RegFiles
<1>6. /\ regs' = [regs EXCEPT ![t] = g] /\ pc' = [pc EXCEPT ![t] = site]
      /\ IF site = Hook /\ susp[t] # << >>
         THEN /\ call' = [call EXCEPT ![t] = susp[t][Len(susp[t])].call]
              /\ susp' = [susp EXCEPT ![t] = SubSeq(susp[t], 1, Len(susp[t]) - 1)]
         ELSE call' = [call EXCEPT ![t] = NoCall] /\ UNCHANGED susp
      /\ UNCHANGED <<idx, sp, stack, mem, events, waits, hook_fn>>
  <2>1. LinkAfter(idx[t]) = RelocatedGp
    BY <1>2 DEF LinkAfter, RET_SEQUENCE_SIZE
  <2>2. susp \in [Threads -> Seq(Activities)]
    BY Zenon DEF IInv, TypeOK
  <2> QED
    BY <1>4, <2>1, <2>2, Zenon DEF jalr_gp, SetRegs, Goto
<1>7. Level(c) = site /\ Base(c) = call[t].sp
  BY <1>1, Inside, Zenon DEF Blocks
<1> HIDE DEF g, c, site
<1>8. CASE site # Hook
  <2> DEFINE a == [pc |-> site, idx |-> idx[t], sp |-> sp[t], regs |-> g, call |-> NoCall]
  <2>1. site \in {App, Handler} /\ site \in Places
    BY <1>4, <1>8, Zenon DEF Sites, Places
  <2>2. NoCall \in CallRecords
    BY ValuesTyped, BoundsAssumption DEF NoCall, CallRecords, JunkRegs, RegFiles
  <2>3. Becomes(t, a) /\ UNCHANGED <<susp, stack, mem, events, waits, hook_fn>>
    BY <1>6, <1>8, Zenon DEF Becomes, IInv, TypeOK
  <2>4. a \in Activities /\ a.pc = site /\ a.sp = sp[t] /\ a.regs = g
    BY <1>5, <2>1, <2>2, Zenon DEF Activities
  <2> HIDE DEF a
  <2>5. Level(a) = site /\ Base(a) = call[t].sp
    BY <1>4, <2>1, <2>4, Zenon DEF Level, Base
  <2>6. ActOK(a, Frame(t))
    BY <1>5, <2>1, <2>4, ActCases, Zenon
  <2>7. Frame(t) \in [Slots -> Values] /\ Frame(t) = mem[stack[t]][a.sp] /\ mem' = mem
    BY <1>1, <2>3, <2>4, InReturn, Zenon DEF Frame
  <2>8. Level(a) = Level(Current(t)) /\ Base(a) = Base(Current(t))
    BY <1>7, <2>5, Zenon DEF c
  <2> QED
    BY <1>5, <2>3, <2>4, <2>6, <2>7, <2>8, LocalStep, Zenon
<1>9. CASE site = Hook
  <2> DEFINE s == SubSeq(susp[t], 1, Len(susp[t]) - 1)
             b == susp[t][Len(susp[t])]
             a == [pc |-> Hook, idx |-> idx[t], sp |-> sp[t], regs |-> g, call |-> b.call]
             m == mem[stack[t]]
  <2>1. susp[t] # << >> /\ b.pc = Hook /\ b.sp = call[t].sp
    BY <1>5, <1>7, <1>9, CurrentOK, Zenon DEF c
  <2>2. Chain(susp[t], m) /\ b \in Activities /\ s \in Seq(Activities) /\ Append(s, b) = susp[t]
    BY <1>5, <2>1, CurrentOK, ChainPop, Zenon
  <2>3. b.call \in CallRecords /\ b.sp = sp[t]
    BY <1>4, <2>1, <2>2, Zenon DEF Activities
  <2>4. ActOK(b, m[b.sp])
    <3>1. Len(susp[t]) \in 1 .. Len(susp[t])
      BY <2>1 DEF IInv, TypeOK
    <3> QED
      BY <2>2, <3>1, Zenon DEF Chain
  <2>5. /\ Becomes(t, a) /\ susp' = [susp EXCEPT ![t] = s]
        /\ UNCHANGED <<stack, mem, events, waits, hook_fn>>
    BY <1>6, <1>9, <2>1, Zenon DEF Becomes, IInv, TypeOK
  <2> HIDE DEF b, s, m
  <2>6. a \in Activities /\ a.pc = Hook /\ a.sp = sp[t] /\ a.regs = g /\ a.call = b.call
    BY <1>5, <2>3, Zenon DEF Activities, Places, Sites
  <2> HIDE DEF a
  <2>7. ActOK(a, m[a.sp])
    <3>1. InHook(b, m[b.sp]) /\ CallOK(b)
      BY <2>1, <2>4, ActCases, Zenon
    <3>2. InHook(a, m[a.sp]) /\ CallOK(a)
      BY <1>5, <2>3, <2>6, <3>1, Zenon
         DEF InHook, AllSaved, Saved, SavedGp, Unanswered, CallOK
    <3> QED
      BY <2>6, <3>2, ActCases, Zenon
  <2>8. Level(a) = Level(b) /\ Base(a) = Base(b)
    BY <2>1, <2>6, SitesAssumption, Zenon DEF Level, Base
  <2>9. Chain(Append(s, a), m)
    <3>1. Chain(Append(s, b), m)
      BY <2>2, Zenon
    <3> QED
      BY <2>2, <2>6, <2>7, <2>8, <3>1, ChainStep, Zenon
  <2>10. TypeOK' /\ Current(t)' = a
    BY <2>2, <2>5, <2>6, BecomesTyped, Zenon DEF IInv, TypeOK
  <2>11. Chain(Suspend(t)', mem'[stack[t]])
    BY <2>5, <2>9, <2>10, Zenon DEF Suspend, m, IInv, TypeOK
  <2>12. pc'[t] \notin {"unborn", "blocked", "ebreak", "wild"}
    BY <2>6, <2>10, SitesAssumption, Zenon DEF Current, Ends, Sites
  <2>13. \A u \in Threads \ {t} :
            /\ pc'[u] = pc[u] /\ idx'[u] = idx[u] /\ sp'[u] = sp[u]
            /\ regs'[u] = regs[u] /\ call'[u] = call[u] /\ susp'[u] = susp[u]
    BY <2>5, <2>6, BecomesTyped, Zenon DEF IInv, TypeOK
  <2> QED
    BY <1>5, <2>5, <2>10, <2>11, <2>12, <2>13, ThreadStep, ZenonT(40)
<1> QED
  BY <1>8, <1>9, Zenon

-----------------------------------------------------------------------------
(***************************************************************************)
(* Issuing a call.                                                         *)
(***************************************************************************)

\* the record of a new call, and the activity that has just issued it
NewCall(t, site, nr) ==
  [NoCall EXCEPT !.id = events[t] + 1, !.site = site, !.sp = sp[t],
                 !.regs = CallerRegs(t, nr)]
Issuing(t, site, nr) ==
  [pc |-> "trampoline", idx |-> idx[t], sp |-> sp[t],
   regs |-> [CallerRegs(t, nr) EXCEPT !["gp"] = site], call |-> NewCall(t, site, nr)]

\* A call record with nothing in it.
LEMMA NoCallTyped ==
  /\ NoCall \in CallRecords /\ ~ NoCall.handled /\ NoCall.kernel = 0
  /\ JunkRegs \in RegFiles
  BY ValuesTyped, BoundsAssumption DEF NoCall, CallRecords, JunkRegs, RegFiles

\* The registers, the record and the activity of a new call.
LEMMA CallIssued ==
  ASSUME TypeOK, NEW t \in Threads, NEW site \in Sites, NEW nr \in Numbers,
         events[t] < MaxEvents, sp[t] < MaxDepth,
         nr \in Clones => site = App, nr = NR_rt_sigreturn => site = Handler
  PROVE  LET a == Issuing(t, site, nr) IN
         /\ CallerRegs(t, nr)["gp"] = regs[t]["gp"]
         /\ a \in Activities /\ a.pc = "trampoline" /\ a.sp = sp[t]
         /\ \A f : ActOK(a, f)
         /\ Level(a) = site /\ Base(a) = sp[t]
<1> DEFINE g == CallerRegs(t, nr)
           h == [g EXCEPT !["gp"] = site]
           k == NewCall(t, site, nr)
           a == Issuing(t, site, nr)
<1>1. regs[t] \in RegFiles /\ events[t] \in 0 .. MaxEvents /\ sp[t] \in 0 .. MaxDepth
      /\ idx[t] \in 0 .. 13
  BY Zenon DEF TypeOK
<1>2. {"gp", "a7", "a0"} \subseteq Regs
  BY RegisterSets, Zenon
<1>3. g \in RegFiles
  <2>1. \A r \in Regs : <<r, t, events[t]>> \in Values
    BY <1>1, Zenon DEF Values
  <2>2. nr \in Values /\ \A r \in Regs : regs[t][r] \in Values
    BY <1>1, ValuesTyped, Zenon DEF RegFiles
  <2> QED
    BY <2>1, <2>2, Zenon DEF CallerRegs, RegFiles
<1>4. g["gp"] = regs[t]["gp"] /\ g["a7"] = nr
  BY <1>2, Zenon DEF CallerRegs
<1> HIDE DEF g
<1>5. h \in RegFiles /\ h["gp"] = site /\ \A r \in Regs \ {"gp"} : h[r] = g[r]
  BY <1>2, <1>3, ValuesTyped, Zenon DEF RegFiles
<1>6. k = [NoCall EXCEPT !.id = events[t] + 1, !.site = site, !.sp = sp[t], !.regs = g]
  BY Zenon DEF NewCall, g
<1>7. /\ k \in CallRecords /\ k.site = site /\ k.sp = sp[t] /\ k.regs = g
      /\ k.kernel = 0 /\ ~ k.handled
  <2>1. events[t] + 1 \in 0 .. MaxEvents
    BY <1>1, BoundsAssumption
  <2> QED
    BY <1>1, <1>3, <1>6, <2>1, NoCallTyped, ZenonT(40) DEF CallRecords
<1>8. a = [pc |-> "trampoline", idx |-> idx[t], sp |-> sp[t], regs |-> h, call |-> k]
  BY Zenon DEF Issuing, g
<1> HIDE DEF h, k, a
<1>9. /\ a \in Activities /\ a.pc = "trampoline" /\ a.sp = sp[t] /\ a.regs = h
      /\ a.call = k
  BY <1>1, <1>5, <1>7, <1>8, Zenon DEF Activities, Places, Blocks
<1>10. AtTrampoline(a)
  BY <1>5, <1>7, <1>9, Zenon DEF AtTrampoline, Kept, Unanswered
<1>11. CallOK(a)
  BY <1>4, <1>7, <1>9, Zenon DEF CallOK
<1>12. \A f : ActOK(a, f)
  BY <1>9, <1>10, <1>11, ActCases, Zenon
<1>13. Level(a) = site /\ Base(a) = sp[t]
  <2>1. "trampoline" \notin {App, Handler}
    BY PlacesDistinct, Zenon DEF Blocks, Sites
  <2> QED
    BY <1>7, <1>9, <2>1, Zenon DEF Level, Base
<1> QED
  BY <1>4, <1>9, <1>12, <1>13, Zenon DEF g, a

\* A call of the program or of a handler.
LEMMA Step_Ecall ==
  ASSUME IInv, NEW t \in Threads, NEW site \in {App, Handler}, NEW nr \in Numbers,
         Ecall(t, site, nr),
         nr \in Clones => site = App, nr = NR_rt_sigreturn => site = Handler,
         site = Handler /\ CarefulHandlers => regs[t]["gp"] = RelocatedGp
  PROVE  IInv'
<1> DEFINE a == Issuing(t, site, nr)
           p == IF regs[t]["gp"] = RelocatedGp THEN "trampoline" ELSE "wild"
           c == Current(t)
           m == mem[stack[t]]
<1>1. /\ pc[t] = site /\ site \in Sites /\ events[t] < MaxEvents /\ sp[t] < MaxDepth /\ TypeOK
      /\ site # Hook
  BY SitesAssumption, Zenon DEF Ecall, Sites, IInv
<1>2. /\ CallerRegs(t, nr)["gp"] = regs[t]["gp"]
      /\ a \in Activities /\ a.pc = "trampoline" /\ a.sp = sp[t] /\ ActOK(a, m[a.sp])
      /\ Level(a) = site /\ Base(a) = sp[t]
  BY <1>1, CallIssued, ZenonT(40)
<1>3. Alive(t) /\ Level(c) = site /\ Base(c) = sp[t] /\ c.pc = site /\ c.regs = regs[t]
  BY <1>1, PlacesDistinct, Zenon DEF Alive, Level, Base, Current
<1>4. /\ c \in Activities /\ susp[t] \in Seq(Activities) /\ Chain(Append(susp[t], c), m)
      /\ ActOK(c, Frame(t))
  BY <1>3, CurrentOK, Zenon
<1>5. /\ pc' = [pc EXCEPT ![t] = p] /\ regs' = [regs EXCEPT ![t] = a.regs]
      /\ call' = [call EXCEPT ![t] = a.call] /\ events' = [events EXCEPT ![t] = events[t] + 1]
      /\ UNCHANGED <<idx, sp, stack, mem, susp, waits, hook_fn>>
      /\ a.idx = idx[t]
  BY <1>1, <1>2, Zenon DEF Ecall, SetRegs, Goto, Issuing, NewCall, TypeOK
<1>6. CarefulHandlers => p # "wild"
  <2>1. site = App => regs[t]["gp"] = RelocatedGp
    BY <1>3, <1>4, ActCases, Zenon
  <2> QED
    BY <2>1, Zenon
<1>7. p \in {"trampoline", "wild"}
  BY Zenon
<1> HIDE DEF a, p, c, m
<1>8. TypeOK'
  <2>1. events[t] + 1 \in 0 .. MaxEvents
    BY <1>1, BoundsAssumption DEF TypeOK
  <2>2. p \in Places /\ a.regs \in RegFiles /\ a.call \in CallRecords
    BY <1>2, <1>7, Zenon DEF Activities, Places, Blocks, Ends
  <2> QED
    BY <1>1, <1>5, <2>1, <2>2, Zenon DEF TypeOK
<1>9. \A u \in Threads \ {t} :
         /\ pc'[u] = pc[u] /\ idx'[u] = idx[u] /\ sp'[u] = sp[u]
         /\ regs'[u] = regs[u] /\ call'[u] = call[u] /\ susp'[u] = susp[u]
  BY <1>1, <1>5, Zenon DEF TypeOK
<1>10. pc'[t] = p
  BY <1>1, <1>5, Zenon DEF TypeOK
<1>11. Alive(t)' => Chain(Suspend(t)', mem'[stack[t]])
  <2> SUFFICES ASSUME p = "trampoline" PROVE Chain(Suspend(t)', mem'[stack[t]])
    BY <1>7, <1>10, Zenon DEF Alive, Ends
  <2>1. Current(t)' = a
    <3>1. a = [pc |-> a.pc, idx |-> a.idx, sp |-> a.sp, regs |-> a.regs, call |-> a.call]
      BY <1>2, Zenon DEF Activities
    <3> QED
      BY <1>1, <1>2, <1>5, <3>1, Zenon DEF Current, TypeOK
  <2>2. Level(a) = Level(c) /\ Base(a) = Base(c)
    BY <1>2, <1>3, Zenon
  <2>3. \A d \in 0 .. MaxDepth : d <= Base(c) => m[d] = m[d]
    BY Zenon
  <2>4. Chain(Append(susp[t], a), m)
    BY <1>2, <1>4, <2>2, <2>3, ChainStep, Zenon
  <2> QED
    BY <1>5, <2>1, <2>4, Zenon DEF Suspend, m
<1>12. pc'[t] \notin {"unborn", "blocked", "ebreak"} /\ (CarefulHandlers => pc'[t] # "wild")
  BY <1>6, <1>7, <1>10, Zenon
<1>13. UNCHANGED <<stack, waits>> /\ \A k \in Threads \ {stack[t]} : mem'[k] = mem[k]
  BY <1>5, Zenon
<1> QED
  BY <1>3, <1>8, <1>9, <1>11, <1>12, <1>13, ThreadStep, Zenon

\* A call of the program.
LEMMA Step_AppEcall ==
  ASSUME IInv, NEW t \in Threads, AppEcall(t)
  PROVE  IInv'
<1>1. PICK nr \in Numbers \ {NR_rt_sigreturn} : Ecall(t, App, nr)
  BY Zenon DEF AppEcall
<1>2. App # Handler
  BY SitesAssumption, Zenon
<1> QED
  BY <1>1, <1>2, Step_Ecall, Zenon

\* A call of a signal handler.
LEMMA Step_HandlerEcall ==
  ASSUME IInv, NEW t \in Threads, HandlerEcall(t)
  PROVE  IInv'
<1>1. PICK nr \in HandlerNrs : Ecall(t, Handler, nr)
  BY Zenon DEF HandlerEcall
<1>2. nr \in Numbers /\ nr \notin Clones /\ (CarefulHandlers => regs[t]["gp"] = RelocatedGp)
  BY HandlerNrsAssumption, Zenon DEF HandlerEcall
<1> QED
  BY <1>1, <1>2, Step_Ecall, Zenon

\* A call of the hook function: the hook is suspended.
LEMMA Step_HookEcall ==
  ASSUME IInv, NEW t \in Threads, HookEcall(t)
  PROVE  IInv'
<1> DEFINE a == Issuing(t, Hook, NR_other)
           c == Current(t)
           m == mem[stack[t]]
<1>1. /\ pc[t] = Hook /\ Hook \in Sites /\ events[t] < MaxEvents /\ sp[t] < MaxDepth /\ TypeOK
      /\ NR_other \in Numbers /\ NR_other \notin Clones /\ NR_other # NR_rt_sigreturn
  BY NumbersAssumption, Zenon DEF HookEcall, Ecall, Sites, IInv, Numbers
<1>2. /\ CallerRegs(t, NR_other)["gp"] = regs[t]["gp"]
      /\ a \in Activities /\ a.pc = "trampoline" /\ a.sp = sp[t] /\ ActOK(a, m[a.sp])
      /\ Level(a) = Hook /\ Base(a) = sp[t]
  BY <1>1, CallIssued, Zenon
<1>3. Alive(t) /\ c.pc = Hook /\ c.regs = regs[t] /\ c.sp = sp[t] /\ c.call = call[t]
  BY <1>1, PlacesDistinct, Zenon DEF Alive, Current
<1>4. /\ c \in Activities /\ susp[t] \in Seq(Activities) /\ Chain(Append(susp[t], c), m)
      /\ InHook(c, Frame(t))
  BY <1>3, CurrentOK, ActCases, Zenon
<1>5. regs[t]["gp"] = RelocatedGp /\ sp[t] = call[t].sp + 1
  BY <1>3, <1>4, Zenon DEF InHook, AllSaved
<1>6. /\ Becomes(t, a) /\ events' = [events EXCEPT ![t] = events[t] + 1]
      /\ susp' = [susp EXCEPT ![t] = Append(susp[t], c)]
      /\ UNCHANGED <<stack, mem, waits, hook_fn>>
  BY <1>1, <1>2, <1>5, Zenon
     DEF HookEcall, Ecall, SetRegs, Goto, Issuing, NewCall, TypeOK, Becomes,
     Suspend
<1>7. Base(c) <= c.sp
  <2>1. Base(c) = call[t].sp
    BY <1>1, Inside, Zenon
  <2> QED
    BY <1>1, <1>3, <1>5, <2>1, Inside
<1> HIDE DEF a, c, m
<1>8. TypeOK' /\ Current(t)' = a
  <2>1. events[t] + 1 \in 0 .. MaxEvents
    BY <1>1, BoundsAssumption DEF TypeOK
  <2>2. Append(susp[t], c) \in Seq(Activities)
    BY <1>4
  <2> QED
    BY <1>1, <1>2, <1>6, <2>1, <2>2, BecomesTyped, Zenon DEF TypeOK
<1>9. \A u \in Threads \ {t} :
         /\ pc'[u] = pc[u] /\ idx'[u] = idx[u] /\ sp'[u] = sp[u]
         /\ regs'[u] = regs[u] /\ call'[u] = call[u] /\ susp'[u] = susp[u]
  BY <1>1, <1>2, <1>6, BecomesTyped, Zenon DEF TypeOK
<1>10. Chain(Append(Append(susp[t], c), a), m)
  <2>1. Level(a) # App /\ c.sp <= Base(a) /\ c.pc = Hook /\ c.sp = Base(a)
    BY <1>1, <1>2, <1>3, SitesAssumption DEF TypeOK
  <2>2. \A d \in 0 .. MaxDepth : d <= c.sp => m[d] = m[d]
    BY Zenon
  <2> QED
    BY <1>2, <1>4, <1>7, <2>1, <2>2, ChainPush, Zenon
<1>11. Chain(Suspend(t)', mem'[stack[t]])
  BY <1>1, <1>6, <1>8, <1>10, Zenon DEF Suspend, m, TypeOK
<1>12. pc'[t] = "trampoline"
  BY <1>2, <1>8, Zenon DEF Current
<1> QED
  BY <1>3, <1>6, <1>8, <1>9, <1>11, <1>12, ThreadStep, Zenon

-----------------------------------------------------------------------------
(***************************************************************************)
(* Signals.                                                                *)
(***************************************************************************)

\* No activity runs below its base.
LEMMA BaseBelow ==
  ASSUME NEW a \in Activities, NEW f, ActOK(a, f)
  PROVE  Base(a) <= a.sp
<1>1. a.sp \in 0 .. MaxDepth /\ a.call.sp \in 0 .. MaxDepth
  BY Zenon DEF Activities, CallRecords
<1>2. CASE a.pc \in {App, Handler}
  BY <1>1, <1>2, BoundsAssumption DEF Base
<1>3. CASE a.pc \notin {App, Handler}
  <2>1. a.sp = a.call.sp \/ a.sp = a.call.sp + 1
    BY <1>1, <1>3, SMTT(30)
       DEF ActOK, Sites, Blocks, AtTrampoline, AtEntry, Entered, Entering,
       AtHookCall, InHook, AtRestore, AllSaved, Leaving
  <2> QED
    BY <1>1, <1>3, <2>1, BoundsAssumption, SMTT(30) DEF Base
<1> QED
  BY <1>2, <1>3, Zenon

\* A signal arrives: whatever the thread does is suspended.
LEMMA Step_Signal ==
  ASSUME IInv, NEW t \in Threads, Signal(t)
  PROVE  IInv'
<1> DEFINE g == [JunkRegs EXCEPT !["gp"] = regs[t]["gp"]]
           a == [pc |-> Handler, idx |-> idx[t], sp |-> sp[t] + 1, regs |-> g, call |-> NoCall]
           c == Current(t)
           m == mem[stack[t]]
           n == [m EXCEPT ![sp[t] + 1] = JunkFrame]
<1>1. TypeOK /\ Alive(t) /\ events[t] < MaxEvents /\ sp[t] < MaxDepth
  BY Zenon DEF Signal, IInv
<1>2. /\ c \in Activities /\ susp[t] \in Seq(Activities) /\ Chain(Append(susp[t], c), m)
      /\ ActOK(c, Frame(t)) /\ c.sp = sp[t] /\ Base(c) <= c.sp
  BY <1>1, CurrentOK, BaseBelow, Zenon DEF Current
<1>3. /\ regs[t] \in RegFiles /\ idx[t] \in 0 .. 13 /\ sp[t] + 1 \in 0 .. MaxDepth
      /\ events[t] + 1 \in 0 .. MaxEvents /\ stack[t] \in Threads
      /\ m \in [0 .. MaxDepth -> [Slots -> Values]] /\ sp[t] \in 0 .. MaxDepth
  BY <1>1, BoundsAssumption, SMTT(30) DEF TypeOK
<1>4. g \in RegFiles
  BY <1>3, NoCallTyped, RegisterSets, Zenon DEF RegFiles
<1>5. JunkFrame \in [Slots -> Values]
  BY ValuesTyped, Zenon DEF JunkFrame
<1> HIDE DEF g
<1>6. a \in Activities /\ a.pc = Handler /\ a.sp = sp[t] + 1
  BY <1>3, <1>4, NoCallTyped, Zenon DEF Activities, Places, Sites
<1>7. /\ Becomes(t, a) /\ events' = [events EXCEPT ![t] = events[t] + 1]
      /\ susp' = [susp EXCEPT ![t] = Append(susp[t], c)]
      /\ UNCHANGED <<stack, waits, hook_fn>>
  BY <1>1, Zenon DEF Signal, SetRegs, Goto, TypeOK, Becomes, Suspend, g
<1>8. mem' = [mem EXCEPT ![stack[t]] = n]
  BY <1>1, <1>3, Zenon DEF Signal, SetFrame, TypeOK
<1>9. n \in [0 .. MaxDepth -> [Slots -> Values]] /\ \A d \in 0 .. MaxDepth : d <= sp[t] => n[d] = m[d]
  BY <1>3, <1>5
<1> HIDE DEF a, c, m, n
<1>10. mem'[stack[t]] = n /\ \A k \in Threads \ {stack[t]} : mem'[k] = mem[k]
  BY <1>1, <1>3, <1>8, Zenon DEF TypeOK
<1>11. TypeOK' /\ Current(t)' = a
  <2>1. Append(susp[t], c) \in Seq(Activities)
    BY <1>2
  <2>2. mem' \in [Threads -> [0 .. MaxDepth -> [Slots -> Values]]]
    BY <1>1, <1>3, <1>8, <1>9, Zenon DEF TypeOK
  <2>3. events' \in [Threads -> 0 .. MaxEvents] /\ susp' \in [Threads -> Seq(Activities)]
    BY <1>1, <1>3, <1>7, <2>1, Zenon DEF TypeOK
  <2> QED
    BY <1>1, <1>6, <1>7, <2>2, <2>3, BecomesTyped, Zenon DEF TypeOK
<1>12. \A u \in Threads \ {t} :
         /\ pc'[u] = pc[u] /\ idx'[u] = idx[u] /\ sp'[u] = sp[u]
         /\ regs'[u] = regs[u] /\ call'[u] = call[u] /\ susp'[u] = susp[u]
  BY <1>1, <1>6, <1>7, BecomesTyped, Zenon DEF TypeOK
<1>13. Chain(Append(Append(susp[t], c), a), n)
  <2>1. ActOK(a, n[a.sp])
    BY <1>6, ActCases, Zenon
  <2>2. Level(a) = Handler /\ Base(a) = sp[t] + 1
    BY <1>6, Zenon DEF Level, Base
  <2>3. /\ Level(a) # App /\ c.sp <= Base(a)
        /\ Level(a) = Hook => c.pc = Hook /\ c.sp = Base(a)
        /\ \A d \in 0 .. MaxDepth : d <= c.sp => n[d] = m[d]
    BY <1>2, <1>3, <1>9, <2>2, SitesAssumption, SMTT(30)
  <2>4. /\ susp[t] \in Seq(Activities) /\ c \in Activities /\ a \in Activities
        /\ Chain(Append(susp[t], c), m) /\ ActOK(a, n[a.sp]) /\ Base(c) <= c.sp
    BY <1>2, <1>6, <2>1, Zenon
  <2> QED
    BY <2>3, <2>4, ChainPush, SMTT(30)
<1>14. Chain(Suspend(t)', mem'[stack[t]])
  BY <1>1, <1>7, <1>10, <1>11, <1>13, Zenon DEF Suspend, TypeOK
<1>15. pc'[t] \notin {"unborn", "blocked", "ebreak", "wild"}
  BY <1>6, <1>11, PlacesDistinct, Zenon DEF Current, Ends, Sites
<1> QED
  BY <1>1, <1>7, <1>10, <1>11, <1>12, <1>14, <1>15, ThreadStep, Zenon

\* A handler has ended: what it interrupted goes on, its frames untouched.
LEMMA Step_Resume ==
  ASSUME IInv, NEW t \in Threads, Alive(t), Level(Current(t)) = Handler, Resume(t)
  PROVE  IInv'
<1> DEFINE s == SubSeq(susp[t], 1, Len(susp[t]) - 1)
           b == susp[t][Len(susp[t])]
           m == mem[stack[t]]
<1>1. TypeOK /\ susp[t] # << >> /\ susp[t] \in Seq(Activities)
  BY CurrentOK, SitesAssumption, Zenon DEF IInv
<1>2. Chain(susp[t], m) /\ b \in Activities /\ s \in Seq(Activities) /\ Append(s, b) = susp[t]
  BY <1>1, CurrentOK, ChainPop, Zenon
<1>3. ActOK(b, m[b.sp])
  <2>1. Len(susp[t]) \in 1 .. Len(susp[t])
    BY <1>1
  <2> QED
    BY <1>2, <2>1, Zenon DEF Chain
<1>4. /\ Becomes(t, b) /\ susp' = [susp EXCEPT ![t] = s]
      /\ UNCHANGED <<stack, mem, events, waits, hook_fn>>
  BY <1>1, Zenon DEF Resume, Becomes, TypeOK
<1> HIDE DEF b, s, m
<1>5. TypeOK' /\ Current(t)' = b
  BY <1>1, <1>2, <1>4, BecomesTyped, Zenon DEF TypeOK
<1>6. \A u \in Threads \ {t} :
         /\ pc'[u] = pc[u] /\ idx'[u] = idx[u] /\ sp'[u] = sp[u]
         /\ regs'[u] = regs[u] /\ call'[u] = call[u] /\ susp'[u] = susp[u]
  BY <1>1, <1>2, <1>4, BecomesTyped, Zenon DEF TypeOK
<1>7. Chain(Suspend(t)', mem'[stack[t]])
  BY <1>1, <1>2, <1>4, <1>5, Zenon DEF Suspend, m, TypeOK
<1>8. pc'[t] \notin {"unborn", "blocked", "ebreak", "wild"}
  <2>1. b.pc \in Sites \cup Blocks /\ pc'[t] = b.pc
    BY <1>3, <1>5, Zenon DEF ActOK, Current
  <2> QED
    BY <2>1, PlacesDistinct, ZenonT(40) DEF Ends
<1> QED
  BY <1>4, <1>5, <1>6, <1>7, <1>8, ThreadStep, Zenon

\* A handler returns through the vDSO.
LEMMA Step_HandlerReturns ==
  ASSUME IInv, NEW t \in Threads, HandlerReturns(t)
  PROVE  IInv'
<1>1. pc[t] = Handler /\ Resume(t)
  BY Zenon DEF HandlerReturns
<1>2. Alive(t) /\ Level(Current(t)) = Handler
  BY <1>1, PlacesDistinct, ZenonT(40) DEF Alive, Level, Current, Sites
<1> QED
  BY <1>1, <1>2, Step_Resume, Zenon

\* A thread that is lost leaves the others alone.
LEMMA Step_Lost ==
  ASSUME IInv, NEW t \in Threads, Alive(t), Goto(t, "lost"),
         UNCHANGED <<idx, sp, regs, stack, mem, susp, call, events, waits, hook_fn>>
  PROVE  IInv'
<1>1. TypeOK' /\ pc'[t] = "lost" /\ \A u \in Threads \ {t} : pc'[u] = pc[u]
  BY Zenon DEF IInv, TypeOK, Goto, Places, Ends
<1>2. ~ Alive(t)'
  BY <1>1, Zenon DEF Alive, Ends
<1> QED
  BY <1>1, <1>2, ThreadStep, Zenon

\* rt_sigreturn reaches the kernel.
LEMMA Step_KernelSigreturns ==
  ASSUME IInv, NEW t \in Threads, KernelSigreturns(t)
  PROVE  IInv'
<1> DEFINE c == Current(t)
<1>1. pc[t] = "before_gp" /\ pc[t] \in Blocks \cup {Hook} /\ regs[t]["a7"] = NR_rt_sigreturn
  BY Zenon DEF KernelSigreturns, At, Blocks
<1>2. /\ Leaving(c, Frame(t)) /\ CallOK(c) /\ c.regs = regs[t] /\ c.call = call[t] /\ Alive(t)
  BY <1>1, InReturn, ZenonT(40) DEF Current
<1>3. call[t].regs["a7"] = NR_rt_sigreturn
  <2>1. "a7" \in Regs \ {"a0", "t0", "gp"}
    BY RegisterSets, ZenonT(40)
  <2> QED
    BY <1>1, <1>2, <2>1, Zenon DEF Leaving, Kept
<1>4. Level(c) = Handler
  BY <1>1, <1>2, <1>3, Inside, Zenon DEF CallOK
<1>5. \/ Resume(t)
      \/ /\ Goto(t, "lost")
         /\ UNCHANGED <<idx, sp, regs, stack, mem, susp, call, events, waits, hook_fn>>
  BY Zenon DEF KernelSigreturns
<1> QED
  BY <1>2, <1>4, <1>5, Step_Resume, Step_Lost, Zenon

-----------------------------------------------------------------------------
(***************************************************************************)
(* Clones: parent and child are both at the last JALR, on separate stacks  *)
(* or, after vfork, on one of which only the child makes use.              *)
(***************************************************************************)

\* thread t at the last JALR, with its present registers, call and depth
AtLastJump(t) ==
  [pc |-> "before_gp", idx |-> 13, sp |-> sp[t], regs |-> regs[t], call |-> call[t]]
\* its activity then forms a chain, whatever is on the stack
AboutToReturn(t) == idx[t] = 13 /\ \A m : Chain(<<AtLastJump(t)>>, m)

\* An activity of the program at the last JALR is a chain whatever the stack.
LEMMA LastJumpChain ==
  ASSUME NEW a \in Activities, NEW f, a.pc = "before_gp", a.idx = 13,
         CallOK(a), a.call.site = App, Leaving(a, f)
  PROVE  \A m : Chain(<<a>>, m)
<1> TAKE m
<1> DEFINE n == [d \in {a.sp} |-> f]
<1>1. n[a.sp] = f
  BY Zenon
<1> HIDE DEF n
<1>2. ActOK(a, n[a.sp])
  BY <1>1, ActCases, Zenon
<1>3. Level(a) = App
  BY PlacesDistinct, Zenon DEF Level, Blocks, Sites
<1>4. Chain(<<a>>, n)
  BY <1>2, <1>3, SitesAssumption DEF Chain
<1> QED
  BY <1>4, WaitingStable, Zenon

\* What every clone does: parent and child are at the last JALR.
LEMMA Spawned ==
  ASSUME IInv, NEW t \in Threads, NEW c \in Threads, NEW s \in Threads,
         NEW depth \in 0 .. MaxDepth, Spawn(t, c, s, depth)
  PROVE  /\ t # c /\ pc[t] = "before_gp" /\ pc[c] = "unborn"
         /\ susp[t] = << >> /\ susp[c] = << >>
         /\ idx' \in [Threads -> 0 .. 13] /\ sp' \in [Threads -> 0 .. MaxDepth]
         /\ regs' \in [Threads -> RegFiles] /\ call' \in [Threads -> CallRecords]
         /\ stack' \in [Threads -> Threads]
         /\ AboutToReturn(t)' /\ AboutToReturn(c)'
         /\ \A u \in Threads \ {t, c} :
              /\ idx'[u] = idx[u] /\ sp'[u] = sp[u] /\ regs'[u] = regs[u]
              /\ call'[u] = call[u]
         /\ stack'[c] = s /\ \A u \in Threads \ {c} : stack'[u] = stack[u]
         /\ UNCHANGED <<susp, events, hook_fn>>
<1> DEFINE g == [regs[t] EXCEPT !["a0"] = KernelResult]
           h == [regs[t] EXCEPT !["a0"] = Zero]
           k == Served(call[t], KernelResult)
           l == [Served(call[t], Zero) EXCEPT !.sp = depth]
           a == [pc |-> "before_gp", idx |-> 13, sp |-> sp[t], regs |-> g, call |-> k]
           b == [pc |-> "before_gp", idx |-> 13, sp |-> depth, regs |-> h, call |-> l]
           c0 == Current(t)
<1>1. /\ pc[t] = "before_gp" /\ Instr(idx[t]) = "ecall" /\ regs[t]["a7"] \in Clones
      /\ pc[c] = "unborn" /\ t # c /\ TypeOK
  BY Zenon DEF Spawn, At, IInv
<1>2. /\ Leaving(c0, Frame(t)) /\ CallOK(c0) /\ c0.idx = idx[t] /\ c0.sp = sp[t]
      /\ c0.regs = regs[t] /\ c0.call = call[t] /\ regs[t] \in RegFiles
      /\ call[t] \in CallRecords /\ Alive(t) /\ idx[t] \in {4, 12} /\ sp[t] \in 0 .. MaxDepth
  BY <1>1, InReturn, Instructions, Zenon DEF Current
<1>3. idx[t] = 12
  BY <1>1, <1>2, Zenon DEF Leaving
<1>4. call[t].site = App
  <2>1. "a7" \in Regs \ {"a0", "t0", "gp"}
    BY RegisterSets, Zenon
  <2>2. call[t].regs["a7"] \in Clones
    BY <1>1, <1>2, <2>1, Zenon DEF Leaving, Kept
  <2> QED
    BY <1>2, <2>2, Zenon DEF CallOK
<1>5. susp[t] = << >>
  <2>1. Level(c0) = App
    BY <1>1, <1>4, Inside, Zenon DEF Blocks
  <2> QED
    BY <1>2, <2>1, CurrentOK, Zenon
<1>6. susp[c] = << >>
  BY <1>1, Zenon DEF IInv, ThreadOK
<1>7. KernelResult \in Values /\ Zero \in Values /\ "a0" \in Regs
  BY ValuesTyped, RegisterSets, Zenon
<1>8. g \in RegFiles /\ h \in RegFiles
  BY <1>2, <1>7, Zenon DEF RegFiles
<1>9. /\ k \in CallRecords /\ k.site = call[t].site /\ k.sp = call[t].sp
      /\ k.regs = call[t].regs /\ k.kernel = call[t].kernel + 1
      /\ k.result = KernelResult /\ k.handled = call[t].handled
  BY <1>2, <1>7, ServedRecord, Zenon
<1>10. /\ l \in CallRecords /\ l.site = call[t].site /\ l.sp = depth
       /\ l.regs = call[t].regs /\ l.kernel = call[t].kernel + 1
       /\ l.result = Zero /\ l.handled = call[t].handled
  <2> DEFINE q == Served(call[t], Zero)
  <2>1. /\ q \in CallRecords /\ q.site = call[t].site
        /\ q.regs = call[t].regs /\ q.kernel = call[t].kernel + 1
        /\ q.result = Zero /\ q.handled = call[t].handled
    BY <1>2, <1>7, ServedRecord, Zenon
  <2>2. l = [q EXCEPT !.sp = depth]
    BY Zenon
  <2> HIDE DEF q, l
  <2>3. l \in CallRecords
    BY <2>1, <2>2, Zenon DEF CallRecords
  <2>4. l.site = q.site /\ l.sp = depth /\ l.regs = q.regs /\ l.kernel = q.kernel
        /\ l.result = q.result
    BY <2>1, <2>2, Zenon DEF CallRecords
  <2>5. l.handled = q.handled
    BY <2>1, <2>2, Zenon DEF CallRecords
  <2> QED
    BY <2>1, <2>3, <2>4, <2>5, Zenon
<1>11. /\ regs' = [regs EXCEPT ![t] = g, ![c] = h]
       /\ call' = [call EXCEPT ![t] = k, ![c] = l]
       /\ idx' = [idx EXCEPT ![t] = 13, ![c] = 13]
       /\ stack' = [stack EXCEPT ![c] = s] /\ sp' = [sp EXCEPT ![c] = depth]
       /\ UNCHANGED <<susp, events, hook_fn>>
  BY <1>1, <1>3 DEF Spawn, TypeOK
<1> HIDE DEF g, h, k, l, c0
<1>12. /\ idx' \in [Threads -> 0 .. 13] /\ sp' \in [Threads -> 0 .. MaxDepth]
       /\ regs' \in [Threads -> RegFiles] /\ call' \in [Threads -> CallRecords]
       /\ stack' \in [Threads -> Threads]
  <2>1. regs' \in [Threads -> RegFiles]
    BY <1>1, <1>8, <1>11, Zenon DEF TypeOK
  <2>2. call' \in [Threads -> CallRecords]
    BY <1>1, <1>9, <1>10, <1>11, Zenon DEF TypeOK
  <2>3. idx' \in [Threads -> 0 .. 13]
    <3>1. 13 \in 0 .. 13 /\ idx \in [Threads -> 0 .. 13]
      BY <1>1 DEF TypeOK
    <3> QED
      BY <1>11, <3>1, Zenon
  <2>4. stack' \in [Threads -> Threads] /\ sp' \in [Threads -> 0 .. MaxDepth]
    BY <1>1, <1>11, Zenon DEF TypeOK
  <2> QED
    BY <2>1, <2>2, <2>3, <2>4, Zenon
<1>13. AtLastJump(t)' = a /\ AtLastJump(c)' = b /\ idx'[t] = 13 /\ idx'[c] = 13
  BY <1>1, <1>11, Zenon DEF AtLastJump, TypeOK
<1>14. /\ a \in Activities /\ a.pc = "before_gp" /\ a.idx = 13 /\ a.sp = sp[t] /\ a.regs = g
       /\ a.call = k
       /\ b \in Activities /\ b.pc = "before_gp" /\ b.idx = 13 /\ b.sp = depth /\ b.regs = h
       /\ b.call = l
  BY <1>2, <1>8, <1>9, <1>10, SMTT(30) DEF Activities, Places, Blocks
<1> HIDE DEF a, b
<1>15. CallOK(a) /\ CallOK(b) /\ a.call.site = App /\ b.call.site = App
  BY <1>2, <1>4, <1>9, <1>10, <1>14, Zenon DEF CallOK
<1>16. Leaving(a, Frame(t))
  <2>1. /\ c0.idx \in {4, 12} /\ a.idx = c0.idx + 1
        /\ c0.regs \in RegFiles /\ c0.call \in CallRecords
        /\ a.regs = [c0.regs EXCEPT !["a0"] = KernelResult]
        /\ a.call.kernel = c0.call.kernel + 1 /\ a.call.result = KernelResult
        /\ a.call.handled = c0.call.handled /\ a.call.site = c0.call.site
        /\ a.call.regs = c0.call.regs /\ a.sp = c0.sp /\ a.call.sp = c0.call.sp
    BY <1>2, <1>3, <1>9, <1>14 DEF g
  <2> QED
    BY <1>2, <2>1, Answered, ZenonT(40)
<1>17. Leaving(b, Frame(t))
  <2>1. /\ c0.idx \in {4, 12} /\ b.idx = c0.idx + 1
        /\ c0.regs \in RegFiles /\ c0.call \in CallRecords
        /\ b.regs = [c0.regs EXCEPT !["a0"] = Zero]
        /\ b.call.kernel = c0.call.kernel + 1 /\ b.call.result = Zero
        /\ b.call.handled = c0.call.handled /\ b.call.site = c0.call.site
        /\ b.call.regs = c0.call.regs
        /\ c0.idx = 12 /\ b.sp = b.call.sp /\ b.sp \in Nat
    BY <1>2, <1>3, <1>10, <1>14, BoundsAssumption DEF h
  <2> QED
    BY <1>2, <2>1, Answered, ZenonT(40)
<1>18. (\A m : Chain(<<a>>, m)) /\ (\A m : Chain(<<b>>, m))
  BY <1>14, <1>15, <1>16, <1>17, LastJumpChain, Zenon
<1>19. \A u \in Threads \ {t, c} :
              /\ idx'[u] = idx[u] /\ sp'[u] = sp[u] /\ regs'[u] = regs[u]
              /\ call'[u] = call[u]
  BY <1>1, <1>11, Zenon DEF TypeOK
<1>20. stack'[c] = s /\ \A u \in Threads \ {c} : stack'[u] = stack[u]
  BY <1>1, <1>11, Zenon DEF TypeOK
<1>21. AboutToReturn(t)' /\ AboutToReturn(c)'
  BY <1>13, <1>18, Zenon DEF AboutToReturn
<1> QED
  BY <1>1, <1>5, <1>6, <1>11, <1>12, <1>19, <1>20, <1>21, Zenon

\* The threads that take no part in a clone.
LEMMA Bystander ==
  ASSUME IInv, NEW u \in Threads,
         pc'[u] = pc[u], idx'[u] = idx[u], sp'[u] = sp[u], regs'[u] = regs[u],
         call'[u] = call[u], susp'[u] = susp[u], stack'[u] = stack[u],
         mem'[stack[u]] = mem[stack[u]]
  PROVE  ThreadOK(u)'
<1>1. Current(u)' = Current(u) /\ Suspend(u)' = Suspend(u)
  BY Zenon DEF Current, Suspend
<1>2. ThreadOK(u)
  BY Zenon DEF IInv
<1> QED
  BY <1>1, <1>2, Zenon DEF ThreadOK, Alive, Waiting

\* A thread that runs at the last JALR with nothing suspended.
LEMMA RunsLastJump ==
  ASSUME NEW u \in Threads, pc'[u] = "before_gp", susp'[u] = << >>, AboutToReturn(u)'
  PROVE  ThreadOK(u)'
<1>1. Current(u)' = AtLastJump(u)' /\ Suspend(u)' = <<AtLastJump(u)'>>
  BY DEF Current, Suspend, AtLastJump, AboutToReturn
<1> QED
  BY <1>1, Zenon DEF ThreadOK, AboutToReturn

\* A clone that gives the child a stack of its own.
LEMMA Step_OwnStack ==
  ASSUME IInv, NEW t \in Threads, NEW c \in Threads, NEW depth \in 0 .. MaxDepth,
         Spawn(t, c, c, depth), Goto(c, "before_gp"), UNCHANGED waits,
         mem' \in [Threads -> [0 .. MaxDepth -> [Slots -> Values]]],
         \A k \in Threads \ {c} : mem'[k] = mem[k]
  PROVE  IInv'
<1>1. TypeOK /\ Sharing
  BY Zenon DEF IInv
<1>2. /\ t # c /\ pc[t] = "before_gp" /\ pc[c] = "unborn"
      /\ susp[t] = << >> /\ susp[c] = << >>
      /\ idx' \in [Threads -> 0 .. 13] /\ sp' \in [Threads -> 0 .. MaxDepth]
      /\ regs' \in [Threads -> RegFiles] /\ call' \in [Threads -> CallRecords]
      /\ stack' \in [Threads -> Threads]
      /\ UNCHANGED <<susp, events, hook_fn>>
  BY Spawned, Zenon
<1>3. AboutToReturn(t)' /\ AboutToReturn(c)'
  BY Spawned, Zenon
<1>4. \A u \in Threads \ {t, c} :
        /\ idx'[u] = idx[u] /\ sp'[u] = sp[u] /\ regs'[u] = regs[u] /\ call'[u] = call[u]
  BY Spawned, Zenon
<1>5. stack'[c] = c /\ \A u \in Threads \ {c} : stack'[u] = stack[u]
  BY Spawned
<1>6. /\ pc' \in [Threads -> Places] /\ pc'[c] = "before_gp"
      /\ \A u \in Threads \ {c} : pc'[u] = pc[u]
  BY <1>1, Zenon DEF Goto, TypeOK, Places, Blocks
<1>7. TypeOK'
  BY <1>1, <1>2, <1>6, Zenon DEF TypeOK
<1>8. \A u \in Threads \ {c} : stack[u] \in Threads \ {c}
  BY <1>1, <1>2, ZenonT(40) DEF Sharing, TypeOK
<1>9. ASSUME NEW u \in Threads PROVE ThreadOK(u)'
  <2>1. CASE u \in {t, c}
    BY <1>2, <1>3, <1>6, <2>1, RunsLastJump, Zenon
  <2>2. CASE u \notin {t, c}
    BY <1>2, <1>4, <1>5, <1>6, <1>8, <2>2, Bystander, ZenonT(40)
  <2> QED
    BY <2>1, <2>2, Zenon
<1>10. Sharing'
  <2>1. \A u \in Threads \ {c} : Alive(u)' <=> Alive(u)
    BY <1>6, Zenon DEF Alive
  <2>2. ASSUME NEW u \in Threads, NEW v \in Threads, u # v, stack'[u] = stack'[v]
        PROVE  ~ (Alive(u)' /\ Alive(v)')
    BY <1>1, <1>5, <1>8, <2>1, <2>2, SMTT(30) DEF Sharing
  <2>3. ASSUME NEW u \in Threads, NEW v \in Threads, u # v, pc'[u] = "unborn"
        PROVE  stack'[v] # u
    BY <1>1, <1>5, <1>6, <2>3, SMTT(30) DEF Sharing
  <2>4. ASSUME NEW u \in Threads, waits[u] # NoThread
        PROVE  /\ pc'[u] = "blocked" /\ pc'[waits[u]] # "unborn"
               /\ stack'[waits[u]] = stack'[u]
    <3>1. /\ pc[u] = "blocked" /\ pc[waits[u]] # "unborn" /\ stack[waits[u]] = stack[u]
          /\ waits[u] \in Threads
      BY <1>1, <2>4, SMTT(30) DEF Sharing, TypeOK
    <3>2. u # c /\ waits[u] # c
      BY <1>2, <3>1, Zenon
    <3> QED
      BY <1>5, <1>6, <3>1, <3>2, Zenon
  <2> QED
    BY <1>1, <2>2, <2>3, <2>4, Zenon DEF Sharing
<1> QED
  BY <1>7, <1>9, <1>10, Zenon DEF IInv

\* vfork: the child uses the stack of the parent, which waits.
LEMMA Step_CloneVfork ==
  ASSUME IInv, NEW t \in Threads, NEW c \in Threads, CloneVfork(t, c)
  PROVE  IInv'
<1>1. TypeOK /\ Sharing /\ stack[t] \in Threads /\ sp[t] \in 0 .. MaxDepth
  BY Zenon DEF IInv, TypeOK
<1>2. /\ Spawn(t, c, stack[t], sp[t])
      /\ pc' = [pc EXCEPT ![c] = "before_gp", ![t] = "blocked"]
      /\ waits' = [waits EXCEPT ![t] = c] /\ UNCHANGED mem
  BY Zenon DEF CloneVfork
<1>3. /\ t # c /\ pc[t] = "before_gp" /\ pc[c] = "unborn"
      /\ susp[t] = << >> /\ susp[c] = << >>
      /\ idx' \in [Threads -> 0 .. 13] /\ sp' \in [Threads -> 0 .. MaxDepth]
      /\ regs' \in [Threads -> RegFiles] /\ call' \in [Threads -> CallRecords]
      /\ stack' \in [Threads -> Threads]
      /\ UNCHANGED <<susp, events, hook_fn>>
  BY <1>1, <1>2, Spawned, Zenon
<1>4. AboutToReturn(t)' /\ AboutToReturn(c)'
  BY <1>1, <1>2, Spawned, Zenon
<1>5. \A u \in Threads \ {t, c} :
        /\ idx'[u] = idx[u] /\ sp'[u] = sp[u] /\ regs'[u] = regs[u] /\ call'[u] = call[u]
  BY <1>1, <1>2, Spawned, SMTT(30)
<1>6. stack'[c] = stack[t] /\ \A u \in Threads \ {c} : stack'[u] = stack[u]
  BY <1>1, <1>2, Spawned
<1>7. /\ pc' \in [Threads -> Places] /\ pc'[c] = "before_gp" /\ pc'[t] = "blocked"
      /\ \A u \in Threads \ {t, c} : pc'[u] = pc[u]
  BY <1>1, <1>2, <1>3, Zenon DEF TypeOK, Places, Blocks, Ends
<1>8. /\ waits' \in [Threads -> Threads \cup {NoThread}] /\ waits'[t] = c
      /\ \A u \in Threads \ {t} : waits'[u] = waits[u]
  BY <1>1, <1>2, Zenon DEF TypeOK
<1>9. TypeOK'
  BY <1>1, <1>2, <1>3, <1>7, <1>8, Zenon DEF TypeOK
<1>10. Alive(t) /\ ~ Alive(t)'
  BY <1>3, <1>7, Zenon DEF Alive, Ends
<1>11. ASSUME NEW u \in Threads PROVE ThreadOK(u)'
  <2>1. CASE u = c
    BY <1>3, <1>4, <1>7, <2>1, RunsLastJump, Zenon
  <2>2. CASE u = t
    <3>1. [Current(t)' EXCEPT !.pc = "before_gp"] = AtLastJump(t)'
      BY <1>4 DEF Current, AtLastJump, AboutToReturn
    <3>2. Waiting(t)'
      BY <1>3, <1>4, <3>1, Zenon DEF Waiting, AboutToReturn
    <3> QED
      BY <1>7, <1>10, <2>2, <3>2, Zenon DEF ThreadOK
  <2>3. CASE u \notin {t, c}
    BY <1>2, <1>3, <1>5, <1>6, <1>7, <2>3, Bystander, Zenon
  <2> QED
    BY <2>1, <2>2, <2>3, Zenon
<1>12. Sharing'
  <2>1. \A u \in Threads \ {t, c} : Alive(u)' <=> Alive(u)
    BY <1>7, Zenon DEF Alive
  <2>2. ASSUME NEW u \in Threads, NEW v \in Threads, u # v, stack'[u] = stack'[v]
        PROVE  ~ (Alive(u)' /\ Alive(v)')
    BY <1>1, <1>6, <1>10, <2>1, <2>2 DEF Sharing
  <2>3. ASSUME NEW u \in Threads, NEW v \in Threads, u # v, pc'[u] = "unborn"
        PROVE  stack'[v] # u
    <3>1. pc[u] = "unborn" /\ u # t /\ u # c
      BY <1>7, <2>3, Zenon
    <3>2. stack[t] # u /\ stack[v] # u
      BY <1>1, <2>3, <3>1, Zenon DEF Sharing
    <3> QED
      BY <1>6, <3>2, Zenon
  <2>4. \A u \in Threads : waits[u] # NoThread =>
          /\ pc[u] = "blocked" /\ pc[waits[u]] # "unborn" /\ stack[waits[u]] = stack[u]
          /\ waits[u] \in Threads /\ u # c /\ waits[u] # c /\ u # t
    BY <1>1, <1>3, Zenon DEF Sharing, TypeOK
  <2>5. ASSUME NEW u \in Threads, waits'[u] # NoThread
        PROVE  /\ pc'[u] = "blocked" /\ pc'[waits'[u]] # "unborn"
               /\ stack'[waits'[u]] = stack'[u]
    <3>1. CASE u = t
      BY <1>3, <1>6, <1>7, <1>8, <3>1, Zenon
    <3>2. CASE u # t
      <4>1. waits'[u] = waits[u]
        BY <1>8, <3>2, Zenon
      <4>2. /\ pc[u] = "blocked" /\ pc[waits[u]] # "unborn" /\ stack[waits[u]] = stack[u]
            /\ waits[u] \in Threads \ {c} /\ u # c
        BY <2>4, <2>5, <4>1, Zenon
      <4>3. pc'[waits[u]] # "unborn" /\ pc'[u] = "blocked"
        BY <1>7, <3>2, <4>2, Zenon
      <4>4. stack'[waits[u]] = stack'[u]
        BY <1>6, <4>2, Zenon
      <4> QED
        BY <4>1, <4>3, <4>4
    <3> QED
      BY <3>1, <3>2, Zenon
  <2>6. ASSUME NEW u \in Threads, NEW v \in Threads, u # v, waits'[u] = waits'[v]
        PROVE  waits'[u] = NoThread
    <3>1. \A w \in Threads \ {t} : waits'[w] # c
      BY <1>8, <2>4, ThreadsAssumption DEF NoThread
    <3>2. u # t /\ v # t
      BY <1>8, <2>6, <3>1, Zenon
    <3> QED
      BY <1>1, <1>8, <2>6, <3>2 DEF Sharing
  <2> QED
    BY <2>2, <2>3, <2>5, <2>6, Zenon DEF Sharing
<1> QED
  BY <1>9, <1>11, <1>12, Zenon DEF IInv

\* clone and clone3.
LEMMA Step_Clone ==
  ASSUME IInv, NEW t \in Threads, Clone(t)
  PROVE  IInv'
<1>1. PICK c \in Threads : CloneThread(t, c) \/ CloneFork(t, c) \/ CloneVfork(t, c)
  BY Zenon DEF Clone
<1>2. /\ mem \in [Threads -> [0 .. MaxDepth -> [Slots -> Values]]] /\ stack[t] \in Threads
      /\ sp[t] \in 0 .. MaxDepth /\ 0 \in 0 .. MaxDepth
  BY BoundsAssumption, SMTT(30) DEF IInv, TypeOK
<1>3. CASE CloneThread(t, c)
  BY <1>2, <1>3, Step_OwnStack, Zenon DEF CloneThread
<1>4. CASE CloneFork(t, c)
  <2>1. /\ mem' \in [Threads -> [0 .. MaxDepth -> [Slots -> Values]]]
        /\ \A k \in Threads \ {c} : mem'[k] = mem[k]
    BY <1>2, <1>4, Zenon DEF CloneFork
  <2> QED
    BY <1>2, <1>4, <2>1, Step_OwnStack, Zenon DEF CloneFork
<1> QED
  BY <1>1, <1>3, <1>4, Step_CloneVfork, Zenon

-----------------------------------------------------------------------------
(***************************************************************************)
(* Exits.                                                                  *)
(***************************************************************************)

\* The thread exits; the parent that vforked it executes its last JALR.
LEMMA Step_KernelExits ==
  ASSUME IInv, NEW t \in Threads, KernelExits(t)
  PROVE  IInv'
<1>1. pc[t] = "before_gp" /\ TypeOK /\ Sharing /\ Alive(t)
  BY InReturn, Zenon DEF KernelExits, At, IInv
<1>2. /\ \A u \in Threads : pc'[u] = IF u = t THEN "exited"
                                     ELSE IF waits[u] = t THEN "before_gp" ELSE pc[u]
      /\ \A u \in Threads : waits'[u] = IF waits[u] = t THEN NoThread ELSE waits[u]
      /\ UNCHANGED <<idx, sp, regs, stack, mem, susp, call, events, hook_fn>>
  BY Zenon DEF KernelExits
<1>3. TypeOK'
  <2>1. pc' \in [Threads -> Places]
    BY <1>1, Zenon DEF KernelExits, TypeOK, Places, Blocks, Ends
  <2>2. waits' \in [Threads -> Threads \cup {NoThread}]
    BY <1>1, Zenon DEF KernelExits, TypeOK
  <2> QED
    BY <1>1, <1>2, <2>1, <2>2, Zenon DEF TypeOK
<1>4. t # NoThread
  BY ThreadsAssumption, Zenon DEF NoThread
<1>5. ASSUME NEW u \in Threads, waits[u] = t
      PROVE  /\ pc[u] = "blocked" /\ stack[u] = stack[t] /\ u # t
             /\ \A v \in Threads : waits[v] = t => v = u
  BY <1>1, <1>4, <1>5, Zenon DEF Sharing
<1>6. ASSUME NEW u \in Threads PROVE ThreadOK(u)'
  <2>1. ThreadOK(u)
    BY Zenon DEF IInv
  <2>2. CASE u = t
    BY <1>2, <2>2, Zenon DEF ThreadOK, Alive, Ends
  <2>3. CASE u # t /\ waits[u] = t
    <3>1. Waiting(u)
      BY <1>5, <2>1, <2>3, Zenon DEF ThreadOK
    <3>2. Current(u)' = [Current(u) EXCEPT !.pc = "before_gp"]
      BY <1>2, <2>3 DEF Current
    <3>3. Suspend(u)' = <<[Current(u) EXCEPT !.pc = "before_gp"]>>
      BY <1>2, <3>1, <3>2 DEF Suspend, Waiting
    <3>4. pc'[u] = "before_gp"
      BY <1>2, <2>3, Zenon
    <3> QED
      BY <1>2, <3>1, <3>3, <3>4, Zenon DEF ThreadOK, Waiting
  <2>4. CASE u # t /\ waits[u] # t
    <3>1. pc'[u] = pc[u]
      BY <1>2, <2>4, Zenon
    <3>2. Current(u)' = Current(u) /\ Suspend(u)' = Suspend(u)
      BY <1>2, <3>1, Zenon DEF Current, Suspend
    <3> QED
      BY <1>2, <2>1, <3>1, <3>2, Zenon DEF ThreadOK, Alive, Waiting
  <2> QED
    BY <2>2, <2>3, <2>4, Zenon
<1>7. Sharing'
  <2>1. ASSUME NEW u \in Threads, Alive(u)'
        PROVE  u # t /\ (Alive(u) \/ waits[u] = t)
    BY <1>2, <2>1, Zenon DEF Alive, Ends
  <2>2. ASSUME NEW u \in Threads, NEW v \in Threads, u # v, stack[u] = stack[v]
        PROVE  ~ (Alive(u)' /\ Alive(v)')
    BY <1>1, <1>5, <2>1, <2>2 DEF Sharing
  <2>3. \A u \in Threads : (pc'[u] = "unborn" <=> pc[u] = "unborn") \/ u = t
    BY <1>1, <1>2, <1>5, Zenon
  <2>4. pc[t] # "unborn" /\ pc'[t] # "unborn"
    BY <1>1, <1>2, Zenon
  <2>5. ASSUME NEW u \in Threads, waits'[u] # NoThread
        PROVE  /\ pc'[u] = "blocked" /\ pc'[waits'[u]] # "unborn"
               /\ stack[waits'[u]] = stack[u]
    <3>1. waits[u] # t /\ waits'[u] = waits[u] /\ waits[u] # NoThread
      BY <1>2, <2>5, Zenon
    <3>2. waits[u] \in Threads
      BY <1>1, <3>1, Zenon DEF TypeOK
    <3>3. pc[u] = "blocked" /\ pc[waits[u]] # "unborn" /\ stack[waits[u]] = stack[u]
      BY <1>1, <3>1, Zenon DEF Sharing
    <3> QED
      BY <1>1, <1>2, <2>3, <2>4, <3>1, <3>2, <3>3, Zenon
  <2>6. ASSUME NEW u \in Threads, NEW v \in Threads, u # v, waits'[u] = waits'[v]
        PROVE  waits'[u] = NoThread
    BY <1>1, <1>2, <2>6 DEF Sharing
  <2>7. ASSUME NEW u \in Threads, NEW v \in Threads, u # v, pc'[u] = "unborn"
        PROVE  stack[v] # u
    BY <1>1, <2>3, <2>4, <2>7, Zenon DEF Sharing
  <2> QED
    BY <1>2, <2>2, <2>5, <2>6, <2>7, Zenon DEF Sharing
<1> QED
  BY <1>3, <1>6, <1>7, Zenon DEF IInv

-----------------------------------------------------------------------------
(***************************************************************************)
(* The invariant, and what it says of the code.                            *)
(***************************************************************************)

\* The invariant holds when main thread and library have just started.
LEMMA InitIInv ==
  ASSUME Init
  PROVE  IInv
<1>1. TypeOK
  <2>1. NoCall \in CallRecords /\ JunkRegs \in RegFiles /\ JunkFrame \in [Slots -> Values]
    BY NoCallTyped, ValuesTyped, Zenon DEF JunkFrame
  <2>2. [JunkRegs EXCEPT !["gp"] = RelocatedGp] \in RegFiles
    BY <2>1, ValuesTyped, Zenon DEF RegFiles
  <2>3. App \in Places /\ "unborn" \in Places
    BY Zenon DEF Places, Sites, Ends
  <2>4. 0 \in 0 .. MaxDepth /\ 0 \in 0 .. MaxEvents /\ 0 \in 0 .. 13
    BY BoundsAssumption
  <2>5. << >> \in Seq(Activities)
    OBVIOUS
  <2> QED
    BY <2>1, <2>2, <2>3, <2>4, <2>5, Zenon DEF Init, TypeOK
<1>2. App \notin Ends
  BY PlacesDistinct, Zenon DEF Sites
<1>3. \A t \in Threads \ {Main} : pc[t] = "unborn" /\ ~ Alive(t)
  BY Zenon DEF Init, Alive, Ends
<1>4. pc[Main] = App /\ Main \in Threads
  BY ThreadsAssumption, Zenon DEF Init
<1>5. Sharing
  <2>1. App # "unborn"
    BY <1>2, Zenon DEF Ends
  <2> QED
    BY <1>3, <1>4, <2>1, Zenon DEF Init, Sharing
<1>6. ThreadOK(Main)
  <2> DEFINE a == Current(Main)
             m == mem[stack[Main]]
  <2>1. a.pc = App /\ a.regs["gp"] = RelocatedGp /\ susp[Main] = << >>
    <3>1. regs[Main] = [JunkRegs EXCEPT !["gp"] = RelocatedGp] /\ "gp" \in Regs
      BY <1>4, RegisterSets, Zenon DEF Init
    <3> QED
      BY <1>4, <3>1, Zenon DEF Init, Current, JunkRegs
  <2>2. Suspend(Main) = <<a>>
    BY <2>1 DEF Suspend
  <2> HIDE DEF a, m
  <2>3. ActOK(a, m[a.sp]) /\ Level(a) = App
    BY <2>1, ActCases, Zenon DEF Level
  <2>4. Chain(<<a>>, m)
    BY <2>3, SitesAssumption DEF Chain
  <2> QED
    BY <1>2, <1>4, <2>2, <2>4, Zenon DEF ThreadOK, Ends, m
<1>7. \A t \in Threads \ {Main} : ThreadOK(t)
  BY <1>3, Zenon DEF ThreadOK, Init
<1> QED
  BY <1>1, <1>5, <1>6, <1>7, Zenon DEF IInv

\* Nothing the invariant speaks of changes.
LEMMA Step_Nothing ==
  ASSUME IInv, UNCHANGED <<pc, idx, sp, regs, stack, mem, susp, call, events, waits>>,
         hook_fn' \in {"NULL", "set"}
  PROVE  IInv'
<1>1. TypeOK' /\ Sharing'
  BY Zenon DEF IInv, TypeOK, Sharing, Alive
<1>2. ASSUME NEW u \in Threads PROVE ThreadOK(u)'
  BY Bystander, Zenon
<1> QED
  BY <1>1, <1>2, Zenon DEF IInv

\* Every step keeps the invariant.
LEMMA NextIInv ==
  ASSUME IInv, [Next]_vars
  PROVE  IInv'
<1>1. CASE UNCHANGED vars \/ AtRest
  BY <1>1, Step_Nothing, Zenon DEF vars, AtRest, IInv, TypeOK
<1>2. ASSUME NEW t \in Threads, load_hook_lib(t) PROVE IInv'
  BY <1>2, Step_Nothing, Zenon DEF load_hook_lib
<1>3. ASSUME NEW t \in Threads, Progress(t) PROVE IInv'
  BY <1>3, Step_HookEcall, Step_HandlerEcall, Step_trampoline, Step_asm_syscall_hook,
     Step_save_context, Step_syscall_hook_null, Step_syscall_hook, Step_HookForwards,
     Step_HookHandles, Step_restore_context, Step_do_rt_sigreturn, Step_ld_gp, Step_ld_t0,
     Step_addi_sp, Step_j_last, Step_jalr_gp, Step_KernelReturns, Step_Clone,
     Step_KernelExits, Step_KernelSigreturns, Step_HandlerReturns, Zenon DEF Progress
<1> QED
  BY <1>1, <1>2, <1>3, Step_AppEcall, Step_Signal, ZenonT(40) DEF Next

\* Interception is transparent, for any number of threads, stack depth and
\* number of calls and signals, and whatever handlers do: every call returns
\* with its caller's registers and stack pointer, is answered exactly once, and
\* reaches the kernel with the caller's arguments; and while a hook is
\* suspended the frame of the call it was asked about keeps what
\* asm_syscall_hook will restore.  For a handler that jumps astray this says
\* nothing of its thread from there on: Interception ends the thread then.
THEOREM InterceptionTransparent ==
  Spec => [](TypeOK /\ CallerContextRestored /\ AnsweredOnce /\ KernelSeesTheCall
               /\ SuspendedFramesIntact)
<1>1. Init => IInv
  BY InitIInv, Zenon
<1>2. IInv /\ [Next]_vars => IInv'
  BY NextIInv, Zenon
<1>3. IInv => TypeOK /\ CallerContextRestored /\ AnsweredOnce /\ KernelSeesTheCall
                /\ SuspendedFramesIntact
  BY InvariantImplies, Zenon DEF IInv
<1> QED
  BY <1>1, <1>2, <1>3, PTL DEF Spec

\* If handlers make no glibc call while they interrupt the library with gp not
\* relocated_gp, every patched ECALL reaches the trampoline, the last JALR of the
\* return sequence always reaches a caller, and the ebreak of asm_syscall_hook
\* is never executed.
THEOREM InterceptionNeverAstray ==
  ASSUME CarefulHandlers
  PROVE  Spec => []NeverAstray
<1>1. Init => IInv
  BY InitIInv, Zenon
<1>2. IInv /\ [Next]_vars => IInv'
  BY NextIInv, Zenon
<1>3. IInv => NeverAstray
  BY Zenon DEF IInv, ThreadOK, NeverAstray
<1> QED
  BY <1>1, <1>2, <1>3, PTL DEF Spec

-----------------------------------------------------------------------------
(***************************************************************************)
(* The code of the program is at depth 0, and every step keeps it there.   *)
(***************************************************************************)

\* A step of one thread keeps the floor if that thread's activities do.
LEMMA FloorStep ==
  ASSUME Floor, NEW t \in Threads, pc'[t] # "blocked",
         \A u \in Threads \ {t} : /\ pc'[u] = pc[u] /\ sp'[u] = sp[u]
                                  /\ call'[u] = call[u] /\ susp'[u] = susp[u],
         Alive(t)' => /\ AtFloor(Current(t)')
                      /\ \A i \in 1 .. Len(susp'[t]) : AtFloor(susp'[t][i])
  PROVE  Floor'
<1>1. ASSUME NEW u \in Threads \ {t}, Alive(u)' \/ pc'[u] = "blocked"
      PROVE  AtFloor(Current(u)') /\ \A i \in 1 .. Len(susp'[u]) : AtFloor(susp'[u][i])
  <2>1. AtFloor(Current(u)) /\ \A i \in 1 .. Len(susp[u]) : AtFloor(susp[u][i])
    BY <1>1, Zenon DEF Floor, Alive
  <2>2. AtFloor(Current(u)')
    BY <1>1, <2>1, Zenon DEF AtFloor, Level, Base, Current
  <2> QED
    BY <2>1, <2>2, Zenon
<1> QED
  BY <1>1, Zenon DEF Floor

\* Inside the library the call stays, and what is suspended.
LEMMA FloorInside ==
  ASSUME IInv, Floor, NEW t \in Threads, pc[t] \in Blocks \cup {Hook},
         pc'[t] \notin {App, Handler, "blocked"},
         \A u \in Threads \ {t} : pc'[u] = pc[u] /\ sp'[u] = sp[u] /\ call'[u] = call[u],
         call'[t].site = call[t].site /\ call'[t].sp = call[t].sp,
         susp' = susp
  PROVE  Floor'
<1>1. pc[t] \notin {App, Handler} /\ Alive(t)
  BY PlacesDistinct, SitesAssumption, Zenon DEF Sites, Alive
<1>2. AtFloor(Current(t)) /\ \A i \in 1 .. Len(susp[t]) : AtFloor(susp[t][i])
  BY <1>1, Zenon DEF Floor
<1>3. AtFloor(Current(t)')
  BY <1>1, <1>2, Zenon DEF AtFloor, Level, Base, Current
<1> QED
  BY <1>2, <1>3, FloorStep, Zenon

\* The code suspended last goes on.
LEMMA FloorPop ==
  ASSUME IInv, Floor, NEW t \in Threads, Alive(t), susp[t] # << >>,
         pc'[t] # "blocked",
         \A u \in Threads \ {t} : /\ pc'[u] = pc[u] /\ sp'[u] = sp[u]
                                  /\ call'[u] = call[u] /\ susp'[u] = susp[u],
         LET b == susp[t][Len(susp[t])]
         IN  pc'[t] = b.pc /\ sp'[t] = b.sp /\ call'[t] = b.call,
         susp'[t] = SubSeq(susp[t], 1, Len(susp[t]) - 1)
  PROVE  Floor'
<1> DEFINE s == susp[t]
           b == s[Len(s)]
<1>1. s \in Seq(Activities) /\ Len(s) \in Nat /\ Len(s) > 0
  BY DEF IInv, TypeOK
<1>2. \A i \in 1 .. Len(s) : AtFloor(s[i])
  BY Zenon DEF Floor
<1>3. AtFloor(b)
  BY <1>1, <1>2
<1>4. Len(susp'[t]) = Len(s) - 1 /\ \A i \in 1 .. Len(s) - 1 : susp'[t][i] = s[i]
  BY <1>1
<1>5. AtFloor(Current(t)')
  <2>1. pc'[t] = b.pc /\ sp'[t] = b.sp /\ call'[t] = b.call
    BY Zenon
  <2> HIDE DEF b
  <2> QED
    BY <1>3, <2>1, Zenon DEF AtFloor, Level, Base, Current
<1>6. \A i \in 1 .. Len(susp'[t]) : AtFloor(susp'[t][i])
  BY <1>1, <1>2, <1>4
<1> QED
  BY <1>5, <1>6, FloorStep, Zenon

\* The current code is suspended, and the new code is not the program's.
LEMMA FloorPush ==
  ASSUME IInv, Floor, NEW t \in Threads, Alive(t), pc'[t] # "blocked",
         \A u \in Threads \ {t} : /\ pc'[u] = pc[u] /\ sp'[u] = sp[u]
                                  /\ call'[u] = call[u] /\ susp'[u] = susp[u],
         susp'[t] = Append(susp[t], Current(t)),
         Level(Current(t)') # App
  PROVE  Floor'
<1>1. susp[t] \in Seq(Activities) /\ AtFloor(Current(t))
  BY Zenon DEF IInv, TypeOK, Floor
<1>2. \A i \in 1 .. Len(susp[t]) : AtFloor(susp[t][i])
  BY Zenon DEF Floor
<1>3. \A i \in 1 .. Len(susp'[t]) :
        susp'[t][i] = IF i \in 1 .. Len(susp[t]) THEN susp[t][i] ELSE Current(t)
  BY <1>1
<1>4. \A i \in 1 .. Len(susp'[t]) : AtFloor(susp'[t][i])
  BY <1>1, <1>2, <1>3, Zenon
<1> QED
  BY <1>4, FloorStep, Zenon DEF AtFloor

\* A patched ECALL: the program calls from depth 0.
LEMMA Floor_Ecall ==
  ASSUME IInv, Floor, NEW t \in Threads, NEW site \in Sites, NEW nr, Ecall(t, site, nr)
  PROVE  Floor'
<1>1. /\ pc[t] = site /\ Alive(t) /\ pc'[t] \in {"trampoline", "wild"}
      /\ pc'[t] \notin {App, Handler, "blocked"}
  BY PlacesDistinct, SitesAssumption, Zenon DEF Ecall, Goto, Alive, IInv, TypeOK, Sites, Blocks, Ends
<1>2. \A u \in Threads \ {t} : pc'[u] = pc[u] /\ sp'[u] = sp[u] /\ call'[u] = call[u]
                                 /\ susp'[u] = susp[u]
  BY Zenon DEF Ecall, Goto, IInv, TypeOK
<1>3. call'[t].site = site /\ call'[t].sp = sp[t]
  BY Zenon DEF Ecall, NoCall, IInv, TypeOK
<1>4. Level(Current(t)') = site /\ Base(Current(t)') = sp[t]
  BY <1>1, <1>3, Zenon DEF Level, Base, Current
<1>5. AtFloor(Current(t)) /\ \A i \in 1 .. Len(susp[t]) : AtFloor(susp[t][i])
  BY <1>1, Zenon DEF Floor
<1>6. CASE site = Hook
  <2>1. susp'[t] = Append(susp[t], Current(t)) /\ Level(Current(t)') # App
    BY <1>4, <1>6, SitesAssumption, Zenon DEF Ecall, Suspend, IInv, TypeOK
  <2> QED
    BY <1>1, <1>2, <2>1, FloorPush, Zenon
<1>7. CASE site # Hook
  <2>1. susp'[t] = susp[t]
    BY <1>7, Zenon DEF Ecall
  <2>2. AtFloor(Current(t)')
    BY <1>1, <1>4, <1>5, SitesAssumption, Zenon DEF AtFloor, Level, Base, Current
  <2> QED
    BY <1>1, <1>2, <1>5, <2>1, <2>2, FloorStep, Zenon
<1> QED
  BY <1>6, <1>7, Zenon

\* The steps inside the library, and into and out of the hook function.
LEMMA Floor_Library ==
  ASSUME IInv, Floor, NEW t \in Threads,
         \/ setup_shadow_page_trampoline(t) \/ asm_syscall_hook(t) \/ save_context(t)
         \/ syscall_hook_null(t) \/ syscall_hook(t) \/ HookForwards(t) \/ HookHandles(t)
         \/ restore_context(t) \/ do_rt_sigreturn(t)
         \/ ld_gp(t) \/ ld_t0(t) \/ addi_sp(t) \/ j_last(t) \/ KernelReturns(t)
  PROVE  Floor'
<1>1. pc \in [Threads -> Places] /\ sp \in [Threads -> 0 .. MaxDepth]
      /\ call \in [Threads -> CallRecords] /\ call[t] \in CallRecords
  BY Zenon DEF IInv, TypeOK
<1>2. pc[t] \in Blocks \cup {Hook}
  BY Zenon DEF setup_shadow_page_trampoline, asm_syscall_hook, save_context, syscall_hook_null,
     syscall_hook, HookForwards, HookHandles, restore_context, do_rt_sigreturn, ld_gp, ld_t0,
     addi_sp, j_last, KernelReturns, At, Blocks
<1>3. \E p \in Blocks \cup {Hook, "ebreak"} : pc' = [pc EXCEPT ![t] = p]
  <2>1. CASE restore_context(t)
    BY <2>1, Zenon DEF restore_context, LeaveAt, Goto, Blocks
  <2>2. CASE ld_gp(t) \/ ld_t0(t) \/ addi_sp(t) \/ j_last(t) \/ KernelReturns(t)
    <3>1. pc' = pc /\ pc[t] = "before_gp" /\ "before_gp" \in Blocks
      BY <2>2, Zenon DEF ld_gp, ld_t0, addi_sp, j_last, KernelReturns, At, Blocks
    <3>2. pc' = [pc EXCEPT ![t] = "before_gp"]
      BY <1>1, <3>1, Zenon
    <3> QED
      BY <3>1, <3>2, Zenon
  <2>3. CASE \/ setup_shadow_page_trampoline(t) \/ asm_syscall_hook(t) \/ save_context(t)
             \/ syscall_hook_null(t) \/ syscall_hook(t) \/ HookForwards(t) \/ HookHandles(t)
             \/ do_rt_sigreturn(t)
    BY <2>3, Zenon DEF setup_shadow_page_trampoline, asm_syscall_hook, save_context,
       syscall_hook_null, syscall_hook, HookForwards, HookHandles, do_rt_sigreturn, LeaveAt,
       Goto, Blocks
  <2> QED
    BY <2>1, <2>2, <2>3, Zenon
<1>4. /\ pc'[t] \notin {App, Handler, "blocked"}
      /\ \A u \in Threads \ {t} : pc'[u] = pc[u]
  <2>1. PICK p \in Blocks \cup {Hook, "ebreak"} : pc' = [pc EXCEPT ![t] = p]
    BY <1>3, Zenon
  <2>2. pc'[t] = p /\ \A u \in Threads \ {t} : pc'[u] = pc[u]
    BY <1>1, <2>1, Zenon
  <2>3. p \notin {App, Handler} /\ p # "blocked"
    BY SitesAssumption, PlacesDistinct, Zenon DEF Sites, Blocks, Ends
  <2> QED
    BY <2>2, <2>3, Zenon
<1>5. /\ susp' = susp
      /\ \E d : sp' = [sp EXCEPT ![t] = d]
      /\ call' = call \/ (\E v : call' = [call EXCEPT ![t].handled = TRUE, ![t].result = v])
         \/ call' = [call EXCEPT ![t] = Served(call[t], KernelResult)]
  <2>1. sp = [sp EXCEPT ![t] = sp[t]]
    BY <1>1, Zenon
  <2>2. CASE setup_shadow_page_trampoline(t)
    BY <2>2, Zenon DEF setup_shadow_page_trampoline
  <2>3. CASE addi_sp(t)
    BY <2>3, Zenon DEF addi_sp
  <2>4. CASE HookHandles(t)
    BY <2>1, <2>4, Zenon DEF HookHandles
  <2>5. CASE KernelReturns(t)
    BY <1>1, <2>1, <2>5, Zenon DEF KernelReturns
  <2>6. CASE \/ asm_syscall_hook(t) \/ save_context(t) \/ syscall_hook_null(t)
             \/ syscall_hook(t) \/ HookForwards(t) \/ restore_context(t)
             \/ do_rt_sigreturn(t) \/ ld_gp(t) \/ ld_t0(t) \/ j_last(t)
    BY <2>1, <2>6, Zenon DEF asm_syscall_hook, save_context,
       syscall_hook_null, syscall_hook, HookForwards, restore_context, do_rt_sigreturn,
       ld_gp, ld_t0, j_last
  <2> QED
    BY <2>2, <2>3, <2>4, <2>5, <2>6, Zenon
<1>6. \A u \in Threads \ {t} : sp'[u] = sp[u] /\ call'[u] = call[u]
  BY <1>1, <1>5, Zenon
<1>7. call'[t].site = call[t].site /\ call'[t].sp = call[t].sp
  <2>1. Served(call[t], KernelResult).site = call[t].site
        /\ Served(call[t], KernelResult).sp = call[t].sp
    BY <1>1, ValuesTyped, ServedRecord, Zenon
  <2> QED
    BY <1>1, <1>5, <2>1, SMTT(30) DEF CallRecords
<1> QED
  BY <1>2, <1>4, <1>5, <1>6, <1>7, FloorInside, Zenon

\* The last JALR: the caller is where it called from.
LEMMA Floor_jalr_gp ==
  ASSUME IInv, Floor, NEW t \in Threads, jalr_gp(t)
  PROVE  Floor'
<1> DEFINE c == Current(t)
           site == call[t].site
           s == susp[t]
<1>1. pc[t] = "before_gp" /\ Instr(idx[t]) = "jalr_gp" /\ pc[t] \in Blocks
  BY Zenon DEF jalr_gp, At, Blocks
<1>2. /\ idx[t] = 13 /\ Leaving(c, Frame(t)) /\ CallOK(c) /\ c.idx = idx[t]
      /\ c.sp = sp[t] /\ c.regs = regs[t] /\ c.call = call[t] /\ Alive(t)
      /\ sp[t] \in 0 .. MaxDepth /\ call[t].sp \in 0 .. MaxDepth
  BY <1>1, InReturn, Instructions, ZenonT(40) DEF Current
<1>3. Level(c) = site /\ Base(c) = call[t].sp
  BY <1>1, Inside, Zenon
<1>4. AtFloor(c) /\ \A i \in 1 .. Len(s) : AtFloor(s[i])
  BY <1>2, Zenon DEF Floor
<1> HIDE DEF c
<1>5. regs[t]["gp"] = site /\ sp[t] = call[t].sp /\ site \in Sites
  <2>1. ~ FrameOpen(c.idx) /\ ~ GpInFrame(c.idx)
    BY <1>2 DEF FrameOpen, GpInFrame
  <2>2. c.regs["gp"] = c.call.site /\ c.sp = c.call.sp + 0 /\ c.call.site \in Sites
    BY <1>2, <2>1, Zenon DEF Leaving, CallOK
  <2> QED
    BY <1>2, <2>2, BoundsAssumption
<1>6. /\ pc' = [pc EXCEPT ![t] = site] /\ sp' = sp
      /\ \E k : call' = [call EXCEPT ![t] = k]
      /\ \E r : susp' = [susp EXCEPT ![t] = r]
  <2>1. susp = [susp EXCEPT ![t] = susp[t]]
    BY Zenon DEF IInv, TypeOK
  <2> QED
    BY <1>5, <2>1, Zenon DEF jalr_gp, Goto
<1>7. /\ pc'[t] = site /\ site # "blocked"
      /\ \A u \in Threads \ {t} : /\ pc'[u] = pc[u] /\ sp'[u] = sp[u]
                                  /\ call'[u] = call[u] /\ susp'[u] = susp[u]
  BY <1>5, <1>6, PlacesDistinct DEF IInv, TypeOK, Ends
<1>8. CASE site = Hook
  <2> DEFINE b == s[Len(s)]
  <2>1. s # << >> /\ b.pc = Hook /\ b.sp = call[t].sp
    BY <1>2, <1>3, <1>8, CurrentOK, ZenonT(40) DEF c
  <2>2. call'[t] = b.call /\ susp'[t] = SubSeq(s, 1, Len(s) - 1)
    BY <1>5, <1>8, <2>1, ZenonT(40) DEF jalr_gp, IInv, TypeOK
  <2> QED
    BY <1>2, <1>5, <1>6, <1>7, <1>8, <2>1, <2>2, FloorPop, Zenon
<1>9. CASE site # Hook
  <2>1. susp' = susp
    BY <1>5, <1>9, Zenon DEF jalr_gp
  <2>2. site \in {App, Handler}
    BY <1>5, <1>9, Zenon DEF Sites
  <2>3. AtFloor(Current(t)')
    BY <1>3, <1>4, <1>5, <1>6, <1>7, <2>2, Zenon DEF AtFloor, Level, Base, Current
  <2> QED
    BY <1>4, <1>7, <2>1, <2>3, FloorStep, Zenon
<1> QED
  BY <1>8, <1>9, Zenon

\* Signals and the return from them.
LEMMA Floor_Signals ==
  ASSUME IInv, Floor, NEW t \in Threads,
         Signal(t) \/ HandlerReturns(t) \/ KernelSigreturns(t)
  PROVE  Floor'
<1>1. CASE Signal(t)
  <2>1. /\ Alive(t) /\ pc'[t] = Handler /\ susp'[t] = Append(susp[t], Current(t))
        /\ \A u \in Threads \ {t} : /\ pc'[u] = pc[u] /\ sp'[u] = sp[u]
                                    /\ call'[u] = call[u] /\ susp'[u] = susp[u]
    BY <1>1, Zenon DEF Signal, Goto, Suspend, IInv, TypeOK
  <2>2. Level(Current(t)') # App /\ Handler # "blocked"
    BY <2>1, SitesAssumption, PlacesDistinct, Zenon DEF Level, Current, Sites, Ends
  <2> QED
    BY <2>1, <2>2, FloorPush, Zenon
<1>2. ASSUME Resume(t), Alive(t), susp[t] # << >> PROVE Floor'
  <2> DEFINE s == susp[t]
             b == s[Len(s)]
  <2>1. /\ pc'[t] = b.pc /\ sp'[t] = b.sp /\ call'[t] = b.call
        /\ susp'[t] = SubSeq(s, 1, Len(s) - 1)
        /\ \A u \in Threads \ {t} : /\ pc'[u] = pc[u] /\ sp'[u] = sp[u]
                                    /\ call'[u] = call[u] /\ susp'[u] = susp[u]
    BY <1>2, ZenonT(40) DEF Resume, IInv, TypeOK
  <2>2. b.pc # "blocked"
    <3>1. s \in Seq(Activities) /\ Chain(Append(s, Current(t)), mem[stack[t]])
      BY <1>2, CurrentOK, Zenon
    <3>2. /\ Len(s) \in 1 .. Len(Append(s, Current(t)))
          /\ Append(s, Current(t))[Len(s)] = b
      BY <1>2, <3>1
    <3>3. ActOK(b, mem[stack[t]][b.sp])
      BY <3>1, <3>2, Zenon DEF Chain
    <3> HIDE DEF b
    <3> QED
      BY <3>3, PlacesDistinct, Zenon DEF ActOK, Ends
  <2> QED
    BY <1>2, <2>1, <2>2, FloorPop, ZenonT(40)
<1>3. ASSUME Alive(t), Level(Current(t)) # App PROVE susp[t] # << >>
  BY <1>3, CurrentOK, Zenon
<1>4. CASE HandlerReturns(t)
  <2>1. pc[t] = Handler /\ Alive(t) /\ Level(Current(t)) # App
    BY <1>4, SitesAssumption, PlacesDistinct, Zenon DEF HandlerReturns, Alive, Level, Current, Sites
  <2> QED
    BY <1>2, <1>3, <1>4, <2>1, Zenon DEF HandlerReturns
<1>5. CASE KernelSigreturns(t)
  <2>1. pc[t] = "before_gp" /\ pc[t] \in Blocks /\ regs[t]["a7"] = NR_rt_sigreturn
    BY <1>5, Zenon DEF KernelSigreturns, At, Blocks
  <2>2. Alive(t) /\ Leaving(Current(t), Frame(t)) /\ CallOK(Current(t))
        /\ Level(Current(t)) = call[t].site
    BY <2>1, InReturn, Inside, Zenon
  <2>3. call[t].regs["a7"] = NR_rt_sigreturn
    <3>1. "a7" \in Regs \ {"a0", "t0", "gp"}
      BY RegisterSets, Zenon
    <3>2. Current(t).regs["a7"] = Current(t).call.regs["a7"]
      BY <2>2, <3>1, ZenonT(40) DEF Leaving, Kept
    <3> QED
      BY <2>1, <3>2, Zenon DEF Current
  <2>4. call[t].site = Handler
    BY <2>2, <2>3, Zenon DEF CallOK, Current
  <2>5. susp[t] # << >>
    BY <1>3, <2>2, <2>4, SitesAssumption, Zenon
  <2>6. CASE Resume(t)
    BY <1>2, <2>2, <2>5, <2>6, Zenon
  <2>7. CASE pc' = [pc EXCEPT ![t] = "lost"] /\ UNCHANGED <<sp, susp, call>>
    <3>1. pc'[t] = "lost" /\ \A u \in Threads \ {t} : pc'[u] = pc[u]
      BY <2>7, Zenon DEF IInv, TypeOK
    <3>2. ~ Alive(t)'
      BY <3>1, Zenon DEF Alive, Ends
    <3> QED
      BY <2>7, <3>1, <3>2, FloorStep, Zenon
  <2> QED
    BY <1>5, <2>6, <2>7, Zenon DEF KernelSigreturns, Goto
<1> QED
  BY <1>1, <1>4, <1>5, Zenon

\* An exit: the parent in vfork is where it was.
LEMMA Floor_KernelExits ==
  ASSUME IInv, Floor, NEW t \in Threads, KernelExits(t)
  PROVE  Floor'
<1>1. /\ \A u \in Threads : pc'[u] = IF u = t THEN "exited"
                                     ELSE IF waits[u] = t THEN "before_gp" ELSE pc[u]
      /\ UNCHANGED <<sp, susp, call>> /\ t # NoThread
  BY ThreadsAssumption, Zenon DEF KernelExits, NoThread
<1>2. ASSUME NEW u \in Threads, Alive(u)' \/ pc'[u] = "blocked"
      PROVE  AtFloor(Current(u)') /\ \A i \in 1 .. Len(susp'[u]) : AtFloor(susp'[u][i])
  <2>1. u # t
    BY <1>1, <1>2, Zenon DEF Alive, Ends
  <2>2. CASE waits[u] = t
    <3>1. pc[u] = "blocked" /\ pc'[u] = "before_gp"
      BY <1>1, <2>1, <2>2, Zenon DEF IInv, Sharing
    <3>2. AtFloor(Current(u)) /\ \A i \in 1 .. Len(susp[u]) : AtFloor(susp[u][i])
      BY <3>1, Zenon DEF Floor
    <3>3. {pc[u], pc'[u]} \cap {App, Handler} = {}
      BY <3>1, SitesAssumption, SMTT(30) DEF Blocks, Ends
    <3>4. AtFloor(Current(u)')
      BY <1>1, <3>2, <3>3, Zenon DEF AtFloor, Level, Base, Current
    <3> QED
      BY <1>1, <3>2, <3>4, Zenon
  <2>3. CASE waits[u] # t
    <3>1. pc'[u] = pc[u]
      BY <1>1, <2>1, <2>3, Zenon
    <3>2. AtFloor(Current(u)) /\ \A i \in 1 .. Len(susp[u]) : AtFloor(susp[u][i])
      BY <1>2, <3>1, Zenon DEF Floor, Alive
    <3>3. AtFloor(Current(u)')
      BY <1>1, <3>1, <3>2, Zenon DEF AtFloor, Level, Base, Current
    <3> QED
      BY <1>1, <3>2, <3>3, Zenon
  <2> QED
    BY <2>2, <2>3, Zenon
<1> QED
  BY <1>2, Zenon DEF Floor

\* A clone: the child starts at the bottom of its stack, or where the parent
\* called from.
LEMMA Floor_Clone ==
  ASSUME IInv, Floor, NEW t \in Threads, Clone(t)
  PROVE  Floor'
<1>1. PICK c \in Threads : CloneThread(t, c) \/ CloneFork(t, c) \/ CloneVfork(t, c)
  BY Zenon DEF Clone
<1>2. PICK s \in Threads, depth \in {0, sp[t]} : Spawn(t, c, s, depth)
  BY <1>1, Zenon DEF CloneThread, CloneFork, CloneVfork, IInv, TypeOK
<1>3. /\ pc[t] = "before_gp" /\ Instr(idx[t]) = "ecall" /\ regs[t]["a7"] \in Clones
      /\ pc[c] = "unborn" /\ t # c
  BY <1>2, Zenon DEF Spawn, At
<1>4. /\ Leaving(Current(t), Frame(t)) /\ CallOK(Current(t)) /\ Alive(t) /\ pc[t] \in Blocks
      /\ idx[t] \in {4, 12} /\ sp[t] \in 0 .. MaxDepth /\ call[t].sp \in 0 .. MaxDepth
      /\ Level(Current(t)) = call[t].site /\ Base(Current(t)) = call[t].sp
      /\ call[t] \in CallRecords
  BY <1>3, InReturn, Inside, Instructions, ZenonT(40)
<1>5. call[t].site = App /\ sp[t] = call[t].sp
  <2> DEFINE a == Current(t)
  <2>1. a.idx = idx[t] /\ a.regs = regs[t] /\ a.call = call[t] /\ a.sp = sp[t]
    BY Zenon DEF Current
  <2> HIDE DEF a
  <2>2. "a7" \in Regs \ {"a0", "t0", "gp"}
    BY RegisterSets, Zenon
  <2>3. idx[t] = 12 /\ call[t].regs["a7"] \in Clones
    BY <1>3, <1>4, <2>1, <2>2, Zenon DEF Leaving, Kept, a
  <2>4. ~ FrameOpen(a.idx)
    BY <2>1, <2>3 DEF FrameOpen
  <2>5. a.sp = a.call.sp + 0
    BY <1>4, <2>4, Zenon DEF Leaving, a
  <2>6. call[t].site = App
    BY <1>4, <2>1, <2>3, ZenonT(40) DEF CallOK, a
  <2> QED
    <3>1. call[t].sp \in 0 .. MaxDepth
      BY <1>4, Zenon
    <3>2. sp[t] = call[t].sp
      BY <2>1, <2>5, <3>1, SMTT(30)
    <3> QED
      BY <2>6, <3>2, Zenon
<1>6. AtFloor(Current(t)) /\ \A i \in 1 .. Len(susp[t]) : AtFloor(susp[t][i])
  BY <1>4, Zenon DEF Floor
<1>7. call[t].sp = 0 /\ depth = 0
  BY <1>4, <1>5, <1>6, Zenon DEF AtFloor
<1>8. /\ call'[t].sp = 0 /\ call'[c].sp = 0 /\ susp' = susp /\ susp[c] = << >>
      /\ \A u \in Threads \ {t, c} : sp'[u] = sp[u] /\ call'[u] = call[u]
  <2> DEFINE k == Served(call[t], KernelResult)
             q == Served(call[t], Zero)
             l == [q EXCEPT !.sp = depth]
  <2>1. k.sp = call[t].sp /\ q \in CallRecords
    BY <1>4, ValuesTyped, ServedRecord, Zenon
  <2>2. l.sp = depth
    BY <2>1, Zenon DEF CallRecords
  <2>3. call' = [call EXCEPT ![t] = k, ![c] = l] /\ sp' = [sp EXCEPT ![c] = depth] /\ susp' = susp
    BY <1>2, Zenon DEF Spawn, IInv, TypeOK
  <2>4. susp[c] = << >>
    BY <1>3, Zenon DEF IInv, ThreadOK
  <2> HIDE DEF k, l
  <2> QED
    BY <1>3, <1>7, <2>1, <2>2, <2>3, <2>4, Zenon DEF IInv, TypeOK
<1>9. /\ pc'[c] = "before_gp" /\ pc'[t] \in {"before_gp", "blocked"}
      /\ \A u \in Threads \ {t, c} : pc'[u] = pc[u]
  BY <1>1, <1>3, Zenon DEF CloneThread, CloneFork, CloneVfork, Goto, IInv, TypeOK
<1>10. {pc'[t], pc'[c]} \cap {App, Handler} = {}
  BY <1>9, SitesAssumption DEF Blocks, Ends
<1>11. ASSUME NEW u \in Threads, Alive(u)' \/ pc'[u] = "blocked"
      PROVE  AtFloor(Current(u)') /\ \A i \in 1 .. Len(susp'[u]) : AtFloor(susp'[u][i])
  <2>1. CASE u \in {t, c}
    <3>1. AtFloor(Current(u)')
      BY <1>8, <1>10, <2>1, Zenon DEF AtFloor, Base, Current
    <3> QED
      BY <1>6, <1>8, <2>1, <3>1, SMTT(30)
  <2>2. CASE u \notin {t, c}
    <3>1. AtFloor(Current(u)) /\ \A i \in 1 .. Len(susp[u]) : AtFloor(susp[u][i])
      BY <1>9, <1>11, <2>2, Zenon DEF Floor, Alive
    <3>2. AtFloor(Current(u)')
      BY <1>8, <1>9, <2>2, <3>1, Zenon DEF AtFloor, Level, Base, Current
    <3> QED
      BY <1>8, <3>1, <3>2, Zenon
  <2> QED
    BY <2>1, <2>2, Zenon
<1> QED
  BY <1>11, Zenon DEF Floor

-----------------------------------------------------------------------------
(***************************************************************************)
(* What is written to the stack on the way in, and by the kernel, is above *)
(* whatever somebody will come back to.                                    *)
(***************************************************************************)

\* A write above what waits on the writer's own stack touches nothing that
\* waits elsewhere either.
LEMMA WritesAbove ==
  ASSUME IInv, Floor, NEW t \in Threads, Alive(t), NEW e \in 1 .. MaxDepth, NEW f,
         LiveDepth(t) < e, SetFrame(t, e, f)
  PROVE  \A u \in Threads : \A d \in 0 .. LiveDepth(u) :
           mem'[stack[u]][d] = mem[stack[u]][d]
<1> SUFFICES ASSUME NEW u \in Threads, NEW d \in 0 .. LiveDepth(u)
             PROVE  mem'[stack[u]][d] = mem[stack[u]][d]
  BY Zenon
<1>1. /\ mem \in [Threads -> [0 .. MaxDepth -> [Slots -> Values]]] /\ stack \in [Threads -> Threads]
      /\ mem' = [mem EXCEPT ![stack[t]][e] = f] /\ Sharing
  BY Zenon DEF IInv, TypeOK, SetFrame
<1>6. LiveDepth(u) \in Int
  BY DEF LiveDepth, IInv, TypeOK, CallRecords
<1>2. CASE stack[u] # stack[t]
  BY <1>1, <1>2, Zenon
<1>3. CASE u = t
  <2>1. d # e
    BY <1>3, <1>6
  <2> QED
    BY <1>1, <1>3, <2>1
<1>4. CASE u # t /\ stack[u] = stack[t] /\ pc[u] = "blocked"
  <2>1. AtFloor(Current(u)) /\ Waiting(u)
    BY <1>4, Zenon DEF Floor, IInv, ThreadOK
  <2>2. Level(Current(u)) = call[u].site /\ Base(Current(u)) = call[u].sp
    BY <1>4, PlacesDistinct, SitesAssumption, Zenon DEF Level, Base, Current, Sites, Ends
  <2>3. call[u].site = App
    <3> DEFINE a == [Current(u) EXCEPT !.pc = "before_gp"]
    <3>1. Level(a) = App
      BY <2>1 DEF Waiting, Chain
    <3>2. a.pc = "before_gp" /\ a.call = call[u]
      BY Zenon DEF Current
    <3> HIDE DEF a
    <3> QED
      BY <3>1, <3>2, PlacesDistinct, Zenon DEF Level, Sites, Blocks
  <2>4. LiveDepth(u) = call[u].sp /\ call[u].sp = 0
    BY <1>4, <2>1, <2>2, <2>3, SitesAssumption, Zenon DEF AtFloor, LiveDepth, Sites, Ends
  <2>5. d # e
    BY <2>4
  <2> QED
    BY <1>1, <2>5
<1>5. CASE u # t /\ stack[u] = stack[t] /\ pc[u] # "blocked"
  <2>1. ~ Alive(u)
    BY <1>1, <1>5, Zenon DEF Sharing
  <2>2. LiveDepth(u) = -1
    BY <1>5, <2>1, Zenon DEF LiveDepth, Alive
  <2> QED
    BY <2>2
<1> QED
  BY <1>2, <1>3, <1>4, <1>5, Zenon

\* The blocks of code that write to the stack, and the kernel delivering a signal.
LEMMA WritersWriteAbove ==
  ASSUME IInv, Floor, NEW t \in Threads,
         \/ setup_shadow_page_trampoline(t) \/ asm_syscall_hook(t) \/ save_context(t)
         \/ syscall_hook(t) \/ Signal(t)
  PROVE  \A u \in Threads : \A d \in 0 .. LiveDepth(u) :
           mem'[stack[u]][d] = mem[stack[u]][d]
<1> DEFINE c == Current(t)
<1>1. /\ Alive(t) /\ ActOK(c, Frame(t)) /\ sp[t] \in 0 .. MaxDepth /\ call[t].sp \in 0 .. MaxDepth
      /\ c.pc = pc[t] /\ c.sp = sp[t] /\ c.call = call[t] /\ MaxDepth \in Nat
  <2>1. Alive(t)
    BY PlacesDistinct, ZenonT(40) DEF setup_shadow_page_trampoline, asm_syscall_hook, save_context,
       syscall_hook, Signal, Alive, Blocks
  <2> QED
    BY <2>1, CurrentOK, BoundsAssumption, Zenon DEF IInv, TypeOK, CallRecords, Current
<1> HIDE DEF c
<1>2. pc[t] \in Blocks => LiveDepth(t) = call[t].sp
  BY PlacesDistinct, SitesAssumption, Zenon DEF LiveDepth, Sites
<1>3. CASE setup_shadow_page_trampoline(t)
  <2>1. pc[t] = "trampoline" /\ pc[t] \in Blocks
    BY <1>3, Zenon DEF setup_shadow_page_trampoline, Blocks
  <2>2. c.sp = c.call.sp /\ c.sp < MaxDepth
    BY <1>1, <2>1, ActCases, ZenonT(40) DEF AtTrampoline
  <2>3. sp[t] + 1 \in 1 .. MaxDepth /\ LiveDepth(t) < sp[t] + 1
    BY <1>1, <1>2, <2>1, <2>2, SMTT(30)
  <2> QED
    BY <1>1, <1>3, <2>3, WritesAbove, Zenon DEF setup_shadow_page_trampoline
<1>4. CASE asm_syscall_hook(t) \/ save_context(t) \/ syscall_hook(t)
  <2>1. pc[t] \in {"asm_syscall_hook", "save_context", "syscall_hook"} /\ pc[t] \in Blocks
    BY <1>4, Zenon DEF asm_syscall_hook, save_context, syscall_hook, Blocks
  <2>2. c.sp = c.call.sp + 1
    BY <1>1, <2>1, ActCases, ZenonT(40) DEF AtEntry, Entered, Entering, AtHookCall, AllSaved
  <2>3. sp[t] \in 1 .. MaxDepth /\ LiveDepth(t) < sp[t]
    <3>1. LiveDepth(t) = call[t].sp /\ sp[t] = call[t].sp + 1
      BY <1>1, <1>2, <2>1, <2>2, Zenon
    <3>2. sp[t] \in 0 .. MaxDepth /\ call[t].sp \in 0 .. MaxDepth /\ MaxDepth \in Nat
      BY <1>1, Zenon
    <3>3. sp[t] >= 1 /\ LiveDepth(t) < sp[t]
      BY <3>1, <3>2
    <3> QED
      BY <3>2, <3>3
  <2> QED
    BY <1>1, <1>4, <2>3, WritesAbove, ZenonT(40) DEF asm_syscall_hook, save_context, syscall_hook
<1>5. CASE Signal(t)
  <2>1. LiveDepth(t) <= sp[t] /\ LiveDepth(t) \in Nat
    <3>1. pc[t] \notin {App, Handler} => call[t].sp <= sp[t]
      <4>1. CASE pc[t] = "before_gp"
        <5>1. c.sp = c.call.sp + (IF FrameOpen(c.idx) THEN 1 ELSE 0)
          BY <1>1, <4>1, ActCases, Zenon DEF Leaving
        <5>2. c.sp = sp[t] /\ c.call = call[t] /\ sp[t] \in 0 .. MaxDepth
              /\ call[t].sp \in 0 .. MaxDepth
          BY <1>1, Zenon
        <5> QED
          BY <5>1, <5>2, SMTT(30)
      <4>2. CASE pc[t] = "trampoline"
        <5>1. c.sp = c.call.sp
          BY <1>1, <4>2, ActCases, Zenon DEF AtTrampoline
        <5> QED
          BY <1>1, <5>1, SMTT(30)
      <4>3. CASE pc[t] \in (Blocks \cup {Hook}) \ {"before_gp", "trampoline"}
        <5>1. c.sp = c.call.sp + 1
          BY <1>1, <4>3, ActCases, Zenon DEF Blocks, AtEntry, Entered, Entering, AtHookCall,
             AllSaved, InHook, AtRestore
        <5> QED
          BY <1>1, <5>1, SMTT(30)
      <4> QED
        BY <1>1, <4>1, <4>2, <4>3, Zenon DEF ActOK, Sites
    <3>2. LiveDepth(t) = IF pc[t] \in {App, Handler} THEN sp[t] ELSE call[t].sp
      BY <1>1, Zenon DEF LiveDepth, Alive
    <3>3. sp[t] \in 0 .. MaxDepth /\ call[t].sp \in 0 .. MaxDepth
      BY <1>1, Zenon
    <3> QED
      BY <3>1, <3>2, <3>3, SMTT(30)
  <2>2. sp[t] + 1 \in 1 .. MaxDepth /\ LiveDepth(t) < sp[t] + 1
    <3>1. sp[t] < MaxDepth
      BY <1>5, Zenon DEF Signal
    <3> QED
      BY <1>1, <2>1, <3>1, SMTT(30)
  <2> QED
    BY <1>1, <1>5, <2>2, WritesAbove, Zenon DEF Signal
<1> QED
  BY <1>3, <1>4, <1>5, Zenon

-----------------------------------------------------------------------------
(***************************************************************************)
(* The stack of a caller.                                                  *)
(***************************************************************************)

\* The program starts at depth 0.
LEMMA InitFloor ==
  ASSUME Init
  PROVE  Floor
<1>1. \A t \in Threads : /\ pc[t] = (IF t = Main THEN App ELSE "unborn")
                         /\ sp[t] = 0 /\ susp[t] = << >>
  BY Zenon DEF Init
<1>2. ASSUME NEW t \in Threads, Alive(t) \/ pc[t] = "blocked"
      PROVE  AtFloor(Current(t)) /\ \A i \in 1 .. Len(susp[t]) : AtFloor(susp[t][i])
  <2>1. pc[t] = App /\ sp[t] = 0 /\ susp[t] = << >>
    BY <1>1, <1>2, Zenon DEF Alive, Ends
  <2> QED
    BY <2>1 DEF AtFloor, Base, Current
<1> QED
  BY <1>2, Zenon DEF Floor

\* Every step keeps the code of the program at depth 0.
LEMMA NextFloor ==
  ASSUME IInv, Floor, [Next]_vars
  PROVE  Floor'
<1>1. ASSUME UNCHANGED <<pc, idx, sp, regs, susp, call>> PROVE Floor'
  BY <1>1, Zenon DEF Floor, Alive, Current
<1>2. CASE UNCHANGED vars \/ AtRest
  BY <1>1, <1>2, Zenon DEF vars, AtRest
<1>3. ASSUME NEW t \in Threads, load_hook_lib(t) PROVE Floor'
  BY <1>1, <1>3, Zenon DEF load_hook_lib
<1>4. ASSUME NEW t \in Threads, AppEcall(t) \/ HookEcall(t) \/ HandlerEcall(t) PROVE Floor'
  BY <1>4, Floor_Ecall, Zenon DEF AppEcall, HookEcall, HandlerEcall, Sites
<1> QED
  BY <1>2, <1>3, <1>4, Floor_Library, Floor_jalr_gp, Floor_Signals, Floor_KernelExits,
     Floor_Clone, Zenon DEF Next, Progress

\* fork copies the parent's stack to one that nobody uses.
LEMMA ForkWritesAbove ==
  ASSUME IInv, NEW t \in Threads, NEW c \in Threads, CloneFork(t, c)
  PROVE  \A u \in Threads : \A d \in 0 .. LiveDepth(u) :
           mem'[stack[u]][d] = mem[stack[u]][d]
<1>1. /\ pc[c] = "unborn" /\ mem' = [mem EXCEPT ![c] = mem[stack[t]]] /\ Sharing
      /\ mem \in [Threads -> [0 .. MaxDepth -> [Slots -> Values]]] /\ stack \in [Threads -> Threads]
  BY Zenon DEF CloneFork, Spawn, IInv, TypeOK
<1>2. LiveDepth(c) = -1
  BY <1>1, Zenon DEF LiveDepth, Ends
<1>3. ASSUME NEW u \in Threads \ {c} PROVE stack[u] # c
  BY <1>1, <1>3, Zenon DEF Sharing
<1>4. ASSUME NEW u \in Threads \ {c} PROVE mem'[stack[u]] = mem[stack[u]]
  BY <1>1, <1>3, <1>4, Zenon
<1> QED
  BY <1>2, <1>4

\* No step writes to a frame that somebody will come back to.
LEMMA StepWritesAbove ==
  ASSUME IInv, Floor, [Next]_vars
  PROVE  \A u \in Threads : \A d \in 0 .. LiveDepth(u) :
           mem'[stack[u]][d] = mem[stack[u]][d]
<1> DEFINE Untouched == \A u \in Threads : \A d \in 0 .. LiveDepth(u) :
                          mem'[stack[u]][d] = mem[stack[u]][d]
<1> SUFFICES Untouched
  BY Zenon
<1>1. ASSUME mem' = mem PROVE Untouched
  BY <1>1, Zenon
<1> HIDE DEF Untouched
<1>2. CASE UNCHANGED vars \/ AtRest
  BY <1>1, <1>2, Zenon DEF vars, AtRest
<1>3. ASSUME NEW t \in Threads,
             \/ AppEcall(t) \/ HookEcall(t) \/ HandlerEcall(t) \/ load_hook_lib(t)
             \/ syscall_hook_null(t) \/ HookForwards(t) \/ HookHandles(t)
      PROVE  Untouched
  BY <1>1, <1>3, Zenon DEF AppEcall, HookEcall, HandlerEcall, Ecall, load_hook_lib,
     syscall_hook_null, HookForwards, HookHandles
<1>4. ASSUME NEW t \in Threads,
             \/ restore_context(t) \/ do_rt_sigreturn(t) \/ ld_gp(t) \/ ld_t0(t) \/ addi_sp(t)
             \/ j_last(t) \/ jalr_gp(t) \/ KernelReturns(t) \/ KernelExits(t)
             \/ KernelSigreturns(t) \/ HandlerReturns(t)
      PROVE  Untouched
  BY <1>1, <1>4, Zenon DEF restore_context, do_rt_sigreturn, ld_gp, ld_t0, addi_sp, j_last,
     jalr_gp, KernelReturns, KernelExits, KernelSigreturns, HandlerReturns, Resume
<1>5. ASSUME NEW t \in Threads, Clone(t) PROVE Untouched
  <2>1. PICK c \in Threads : CloneThread(t, c) \/ CloneFork(t, c) \/ CloneVfork(t, c)
    BY <1>5, Zenon DEF Clone
  <2>2. CASE CloneFork(t, c)
    BY <2>2, ForkWritesAbove, Zenon DEF Untouched
  <2> QED
    BY <1>1, <2>1, <2>2, Zenon DEF CloneThread, CloneVfork
<1>6. ASSUME NEW t \in Threads,
             \/ setup_shadow_page_trampoline(t) \/ asm_syscall_hook(t) \/ save_context(t)
             \/ syscall_hook(t) \/ Signal(t)
      PROVE  Untouched
  BY <1>6, WritersWriteAbove, Zenon DEF Untouched
<1>7. ASSUME NEW t \in Threads, Progress(t) PROVE Untouched
  BY <1>3, <1>4, <1>5, <1>6, <1>7, Zenon DEF Progress
<1> QED
  BY <1>2, <1>3, <1>6, <1>7, Zenon DEF Next

\* The library and the kernel never write to the part of a stack that belongs
\* to the caller of a system call, to interrupted code, or to a parent that
\* waits for the child it vforked: the frame that the trampoline opens is
\* above it.
THEOREM CallersStackUntouched == Spec => LiveStackUntouched
<1>1. Init => IInv /\ Floor
  BY InitIInv, InitFloor, Zenon
<1>2. IInv /\ Floor /\ [Next]_vars => (IInv /\ Floor)'
  BY NextIInv, NextFloor, Zenon
<1>3. IInv /\ Floor /\ [Next]_vars =>
        [\A t \in Threads : \A d \in 0 .. LiveDepth(t) :
           mem'[stack[t]][d] = mem[stack[t]][d]]_vars
  BY StepWritesAbove, Zenon
<1> QED
  BY <1>1, <1>2, <1>3, PTL DEF Spec, LiveStackUntouched
=============================================================================
