CONSTANTS
  t1 = t1
  t2 = t2
  Main = t1
  App = App
  Hook = Hook
  Handler = Handler
  RelocatedGp = RelocatedGp
  Junk = Junk
  Zero = Zero
  One = One
  KernelResult = KernelResult
  HookResult = HookResult
  NR_other = NR_other
  NR_clone = NR_clone
  NR_clone3 = NR_clone3
  NR_rt_sigreturn = NR_rt_sigreturn
  NR_exit = NR_exit
  Threads <- TwoThreads
  HandlerNrs <- HandlersWrite
  CarefulHandlers = TRUE
  MaxDepth = 2
  MaxEvents = 2
SPECIFICATION Spec
INVARIANT NeverAstray
INVARIANT CallerContextRestored
INVARIANT AnsweredOnce
INVARIANT KernelSeesTheCall
PROPERTY LiveStackUntouched
PROPERTY ImplementsService
