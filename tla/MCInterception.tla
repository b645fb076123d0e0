--------------------------- MODULE MCInterception ---------------------------
(***************************************************************************)
(* Small instances of Interception for TLC.                                *)
(***************************************************************************)
EXTENDS InterceptionService, TLC

CONSTANTS t1, t2

OneThread == {t1}
TwoThreads == {t1, t2}

HandlersWrite == {NR_other}
HandlersWriteAndSigreturn == {NR_other, NR_rt_sigreturn}
=============================================================================
