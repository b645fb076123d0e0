---------------------------- MODULE StartupProofs ----------------------------
(***************************************************************************)
(* Startup is correct for any number of lines of /proc/self/maps, in both  *)
(* builds: whatever step fails, no glibc call goes astray, and main runs   *)
(* only when everything is prepared.                                       *)
(***************************************************************************)
EXTENDS Startup, TLAPS

\* everything a patched ECALL needs behind it
Prepared == handler /\ rsi_gp = "relocated" /\ code = AllCode /\ xom

Unprotected == {"sweep", "restore_protection"}
Rewriting == {"read_line", "make_writable", "sweep", "restore_protection"}
Starting == {"_start", "__libc_start_main", "main"}

\* How far each step of the constructor can rely on the ones before it
StepsInOrder ==
  /\ at \in {"allocate_ret_sequence_page", "setup_shadow_page_trampoline",
             "setup_return", "protect_page", "set_gp"} => handler
  /\ at \in {"setup_shadow_page_trampoline", "setup_return", "protect_page", "set_gp"}
       => rsi_gp = "relocated"
  /\ at \in {"setup_return", "protect_page", "set_gp"} => "trampoline" \in code
  /\ at \in {"protect_page", "set_gp"} => "return_sequence" \in code
  /\ at = "set_gp" => xom
  /\ at \in Rewriting \cup {"rewrite_code", "load_hook_lib"} =>
       Prepared /\ gp = "relocated" /\ ~ skipped
  /\ at \in Starting /\ ~ skipped => Prepared
  /\ at = "main" => gp = rsi_gp

\* the line whose mapping is being rewritten
Current == at \in {"make_writable", "sweep", "restore_protection"}

\* The mappings rewritten are those of LibcText up to the current line, and
\* only the current one may have another protection than at the start.
SweepInOrder ==
  /\ at \notin Rewriting \cup {"load_hook_lib", "exited"} \cup Starting
       => patched = {} /\ line = 0 /\ ~ skipped
  /\ at \in Starting /\ skipped => patched = {}
  /\ Current => line \in LibcText
  /\ at \in {"read_line", "restore_protection"} =>
       patched = {l \in LibcText : l <= line}
  /\ at \in {"make_writable", "sweep"} =>
       patched = {l \in LibcText : l < line}
  /\ at \in Starting \cup {"load_hook_lib"} /\ ~ skipped => patched = LibcText
  /\ at # "exited" => \A l \in Lines : \/ at \in Unprotected /\ l = line
                                       \/ prot[l] = maps[l].perms

IInv == TypeOK /\ StepsInOrder /\ SweepInOrder /\ (DlsymCalls \/ ~ astray)

\* Initially nothing has been prepared and nothing is patched.
LEMMA InitIInv == Init => IInv
<1> SUFFICES ASSUME Init PROVE IInv
  OBVIOUS
<1>1. prot \in [Lines -> Perms]
  BY DEF Init, MapLines
<1>2. /\ handler \in BOOLEAN /\ xom \in BOOLEAN
      /\ skipped \in BOOLEAN /\ astray \in BOOLEAN
  BY Zenon DEF Init
<1>5. TypeOK
  BY <1>1, <1>2, NMapsAssumption DEF Init, TypeOK, AllCode
<1>3. StepsInOrder
  BY DEF Init, StepsInOrder, Rewriting, Starting
<1>4. SweepInOrder
  BY DEF Init, SweepInOrder, Rewriting, Starting, Current
<1> QED
  BY <1>3, <1>4, <1>5 DEF Init, IInv

\* Wherever a glibc call is made, except by dlsym after _start, calls work.
LEMMA CallsWorkBefore ==
  ASSUME IInv, at \notin {"__libc_start_main", "exited"}, at # "_start"
  PROVE  CallsWork
  BY DEF IInv, TypeOK, StepsInOrder, SweepInOrder, CallsWork, Prepared, Rewriting, Starting

\* A glibc call that works leaves astray alone.
LEMMA WorkingCall ==
  ASSUME TypeOK, CallsWork, LibcCall
  PROVE  astray' = astray
  BY DEF TypeOK, LibcCall

\* Every step of the constructor, of _start and of __libc_start_main keeps the
\* invariant, whether it succeeds or exits.
LEMMA StepIInv == IInv /\ [Next]_vars => IInv'
<1> SUFFICES ASSUME IInv, [Next]_vars PROVE IInv'
  OBVIOUS
<1> USE DEF IInv
<1>x. ASSUME Exit, CallsWork PROVE IInv'
  BY <1>x DEF Exit, LibcCall, TypeOK, StepsInOrder, SweepInOrder, Current, Rewriting, Starting,
     Unprotected, CallsWork, Lines, LibcText
<1>1. CASE vpoline_init
  <2>1. CallsWork
    BY <1>1, CallsWorkBefore DEF vpoline_init
  <2>2. astray' = astray
    BY <1>1, <2>1, WorkingCall DEF vpoline_init
  <2>3. /\ at = "constructor"
        /\ \/ at' = "define_ret_sequence_info" /\ skipped' = skipped
           \/ at' = "_start" /\ skipped' = TRUE
        /\ UNCHANGED <<gp, rsi_gp, handler, code, xom, maps, prot, patched, line, hook_fn>>
    BY <1>1 DEF vpoline_init
  <2>4. TypeOK'
    BY <2>2, <2>3 DEF TypeOK
  <2>5. StepsInOrder'
    BY <2>3 DEF TypeOK, StepsInOrder, Rewriting, Starting
  <2>6. SweepInOrder'
    BY <2>3 DEF TypeOK, SweepInOrder, Current, Rewriting, Starting, Unprotected
  <2> QED
    BY <2>2, <2>4, <2>5, <2>6
<1>2. CASE define_ret_sequence_info
  <2>1. CallsWork
    BY <1>2, CallsWorkBefore DEF define_ret_sequence_info
  <2>2. astray' = astray
    BY <1>2, <2>1, WorkingCall DEF define_ret_sequence_info
  <2> QED
    BY <1>2, <2>2 DEF define_ret_sequence_info, TypeOK, StepsInOrder, SweepInOrder, Current,
         Rewriting, Starting, Unprotected, LibcText, Prepared
<1>3. CASE init_trap_handler
  <2>1. CallsWork
    BY <1>3, CallsWorkBefore DEF init_trap_handler
  <2>4. CASE at' = "exited"
    <3>1. Exit
      BY <1>3, <2>4 DEF init_trap_handler
    <3> QED
      BY <1>x, <2>1, <3>1
  <2>5. CASE at' # "exited"
    <3>1. astray' = astray
      BY <1>3, <2>1, <2>5, WorkingCall DEF init_trap_handler, Exit
    <3>2. /\ at = "init_trap_handler"
          /\ handler' = TRUE
          /\ at' = "allocate_ret_sequence_page"
          /\ UNCHANGED <<gp, rsi_gp, code, xom, maps, prot, patched, line, hook_fn, skipped>>
      BY <1>3, <2>5 DEF init_trap_handler, Exit
    <3>3. TypeOK'
      BY <3>1, <3>2 DEF TypeOK
    <3>4. StepsInOrder'
      BY <3>2 DEF TypeOK, StepsInOrder, SweepInOrder, Prepared, Rewriting, Starting
    <3>5. SweepInOrder'
      BY <3>2 DEF TypeOK, StepsInOrder, SweepInOrder, Current, Rewriting, Starting,
         Unprotected, LibcText
    <3> QED
      BY <3>1, <3>3, <3>4, <3>5
  <2> QED
    BY <2>4, <2>5
<1>4. CASE allocate_ret_sequence_page
  <2>1. CallsWork
    BY <1>4, CallsWorkBefore DEF allocate_ret_sequence_page
  <2>4. CASE at' = "exited"
    <3>1. Exit
      BY <1>4, <2>4 DEF allocate_ret_sequence_page
    <3> QED
      BY <1>x, <2>1, <3>1
  <2>5. CASE at' # "exited"
    <3>1. astray' = astray
      BY <1>4, <2>1, <2>5, WorkingCall DEF allocate_ret_sequence_page, Exit
    <3>2. /\ at = "allocate_ret_sequence_page"
          /\ rsi_gp' = "relocated"
          /\ at' = "setup_shadow_page_trampoline"
          /\ UNCHANGED <<gp, handler, code, xom, maps, prot, patched, line, hook_fn, skipped>>
      BY <1>4, <2>5 DEF allocate_ret_sequence_page, Exit
    <3>3. TypeOK'
      BY <3>1, <3>2 DEF TypeOK
    <3>4. StepsInOrder'
      BY <3>2 DEF TypeOK, StepsInOrder, SweepInOrder, Prepared, Rewriting, Starting
    <3>5. SweepInOrder'
      BY <3>2 DEF TypeOK, StepsInOrder, SweepInOrder, Current, Rewriting, Starting,
         Unprotected, LibcText
    <3> QED
      BY <3>1, <3>3, <3>4, <3>5
  <2> QED
    BY <2>4, <2>5
<1>5. CASE setup_shadow_page_trampoline
  BY <1>5 DEF setup_shadow_page_trampoline, TypeOK, StepsInOrder, SweepInOrder, Current,
     Rewriting, Starting, Unprotected, LibcText, AllCode
<1>6. CASE setup_return
  BY <1>6 DEF setup_return, TypeOK, StepsInOrder, SweepInOrder, Current,
     Rewriting, Starting, Unprotected, LibcText, AllCode
<1>7. CASE protect_page
  <2>1. CallsWork
    BY <1>7, CallsWorkBefore DEF protect_page
  <2>4. CASE at' = "exited"
    <3>1. Exit
      BY <1>7, <2>4 DEF protect_page
    <3> QED
      BY <1>x, <2>1, <3>1
  <2>5. CASE at' # "exited"
    <3>1. astray' = astray
      BY <1>7, <2>1, <2>5, WorkingCall DEF protect_page, Exit
    <3>2. /\ at = "protect_page"
          /\ xom' = TRUE
          /\ at' = "set_gp"
          /\ UNCHANGED <<gp, rsi_gp, handler, code, maps, prot, patched, line, hook_fn, skipped>>
      BY <1>7, <2>5 DEF protect_page, Exit
    <3>3. TypeOK'
      BY <3>1, <3>2 DEF TypeOK
    <3>4. StepsInOrder'
      BY <3>2 DEF TypeOK, StepsInOrder, SweepInOrder, Prepared, Rewriting, Starting
    <3>5. SweepInOrder'
      BY <3>2 DEF TypeOK, StepsInOrder, SweepInOrder, Current, Rewriting, Starting,
         Unprotected, LibcText
    <3> QED
      BY <3>1, <3>3, <3>4, <3>5
  <2> QED
    BY <2>4, <2>5
<1>8. CASE set_gp
  BY <1>8 DEF set_gp, TypeOK, StepsInOrder, SweepInOrder, Current, Prepared,
     Rewriting, Starting, Unprotected, LibcText, AllCode
<1>9. CASE rewrite_code
  <2>1. CallsWork
    BY <1>9, CallsWorkBefore DEF rewrite_code
  <2>2. {l \in LibcText : l <= 0} = {}
    BY DEF LibcText, Lines
  <2>4. CASE at' = "exited"
    <3>1. Exit
      BY <1>9, <2>4 DEF rewrite_code
    <3> QED
      BY <1>x, <2>1, <3>1
  <2>5. CASE at' # "exited"
    <3>1. astray' = astray
      BY <1>9, <2>1, <2>5, WorkingCall DEF rewrite_code, Exit
    <3>2. /\ at = "rewrite_code"
          /\ at' = "read_line"
          /\ UNCHANGED <<gp, rsi_gp, handler, code, xom, maps, prot, patched, line, hook_fn, skipped>>
      BY <1>9, <2>5 DEF rewrite_code, Exit
    <3>3. TypeOK'
      BY <3>1, <3>2, <2>2 DEF TypeOK
    <3>4. StepsInOrder'
      BY <3>2 DEF TypeOK, StepsInOrder, SweepInOrder, Prepared, Rewriting, Starting
    <3>5. SweepInOrder'
      BY <3>2, <2>2 DEF TypeOK, StepsInOrder, SweepInOrder, Current, Rewriting, Starting,
         Unprotected, LibcText
    <3> QED
      BY <3>1, <3>3, <3>4, <3>5
  <2> QED
    BY <2>4, <2>5
<1>10. CASE read_line
  <2>1. CallsWork
    BY <1>10, CallsWorkBefore DEF read_line
  <2>2. CASE line < NMaps
    <3>1. line + 1 \in Lines /\ line + 1 \in 0 .. NMaps
      BY <2>2, NMapsAssumption DEF TypeOK, Lines
    <3>2. {l \in LibcText : l < line + 1} = {l \in LibcText : l <= line}
      BY NMapsAssumption DEF TypeOK, LibcText, Lines
    <3>3. line + 1 \notin LibcText =>
            {l \in LibcText : l <= line + 1} = {l \in LibcText : l <= line}
      BY NMapsAssumption DEF TypeOK, LibcText, Lines
    <3>4. LibcText' = LibcText /\ line' = line + 1 /\ patched' = patched
      BY <1>10, <2>2 DEF read_line, LibcText
    <3>5. at' = IF line + 1 \in LibcText THEN "make_writable" ELSE "read_line"
      BY <1>10, <2>2, <3>1 DEF read_line, LibcText
    <3>6. TypeOK' /\ StepsInOrder' /\ (DlsymCalls \/ ~ astray)'
      BY <1>10, <2>1, <2>2, <3>1, <3>5 DEF read_line, LibcCall, TypeOK, StepsInOrder,
         Rewriting, Starting, Prepared
    <3>7. SweepInOrder'
      BY <1>10, <3>1, <3>2, <3>3, <3>4, <3>5 DEF read_line, SweepInOrder, StepsInOrder, Current,
         Rewriting, Starting, Unprotected
    <3> QED
      BY <3>6, <3>7
  <2>3. CASE ~ (line < NMaps)
    <3>1. {l \in LibcText : l <= line} = LibcText
      BY <2>3, NMapsAssumption DEF TypeOK, LibcText, Lines
    <3> QED
      BY <1>10, <2>1, <2>3, <3>1 DEF read_line, LibcCall, TypeOK, StepsInOrder, SweepInOrder,
         Current, Rewriting, Starting, Unprotected, LibcText, Prepared
  <2> QED
    BY <2>2, <2>3
<1>11. CASE make_writable
  <2>1. CallsWork
    BY <1>11, CallsWorkBefore DEF make_writable
  <2>2. line \in Lines
    BY <1>11 DEF make_writable, SweepInOrder, Current, LibcText
  <2>3. {"r", "w", "x"} \in Perms
    BY DEF Perms
  <2>4. CASE at' = "exited"
    <3>1. Exit
      BY <1>11, <2>4 DEF make_writable
    <3> QED
      BY <1>x, <2>1, <3>1
  <2>5. CASE at' # "exited"
    <3>1. astray' = astray
      BY <1>11, <2>1, <2>5, WorkingCall DEF make_writable, Exit
    <3>2. /\ at = "make_writable"
          /\ prot' = [prot EXCEPT ![line] = {"r", "w", "x"}]
          /\ at' = "sweep"
          /\ UNCHANGED <<gp, rsi_gp, handler, code, xom, maps, patched, line, hook_fn, skipped>>
      BY <1>11, <2>5 DEF make_writable, Exit
    <3>3. TypeOK'
      BY <3>1, <3>2, <2>2, <2>3 DEF TypeOK
    <3>4. StepsInOrder'
      BY <3>2 DEF TypeOK, StepsInOrder, SweepInOrder, Prepared, Rewriting, Starting
    <3>5. SweepInOrder'
      BY <3>2, <2>2, <2>3 DEF TypeOK, StepsInOrder, SweepInOrder, Current, Rewriting, Starting,
         Unprotected, LibcText
    <3> QED
      BY <3>1, <3>3, <3>4, <3>5
  <2> QED
    BY <2>4, <2>5
<1>12. CASE sweep
  <2>1. CallsWork
    BY <1>12, CallsWorkBefore DEF sweep
  <2>2. line \in LibcText /\ line \in Lines
    BY <1>12 DEF sweep, SweepInOrder, Current, LibcText
  <2>3. {l \in LibcText : l < line} \cup {line} = {l \in LibcText : l <= line}
    BY <2>2, NMapsAssumption DEF LibcText, Lines
  <2>4. CASE at' = "exited"
    <3>1. Exit
      BY <1>12, <2>4 DEF sweep
    <3> QED
      BY <1>x, <2>1, <3>1
  <2>5. CASE at' # "exited"
    <3>1. astray' = astray
      BY <1>12, <2>1, <2>5, WorkingCall DEF sweep, Exit
    <3>2. /\ at = "sweep"
          /\ patched' = patched \cup {line}
          /\ at' = "restore_protection"
          /\ UNCHANGED <<gp, rsi_gp, handler, code, xom, maps, prot, line, hook_fn, skipped>>
      BY <1>12, <2>5 DEF sweep, Exit
    <3>3. TypeOK'
      BY <3>1, <3>2, <2>2, <2>3 DEF TypeOK
    <3>4. StepsInOrder'
      BY <3>2 DEF TypeOK, StepsInOrder, SweepInOrder, Prepared, Rewriting, Starting
    <3>5. SweepInOrder'
      BY <3>2, <2>2, <2>3 DEF TypeOK, StepsInOrder, SweepInOrder, Current, Rewriting, Starting,
         Unprotected, LibcText
    <3> QED
      BY <3>1, <3>3, <3>4, <3>5
  <2> QED
    BY <2>4, <2>5
<1>13. CASE restore_protection
  <2>1. CallsWork
    BY <1>13, CallsWorkBefore DEF restore_protection
  <2>2. line \in Lines /\ maps[line].perms \in Perms
    BY <1>13 DEF restore_protection, SweepInOrder, Current, LibcText, TypeOK, MapLines
  <2>4. CASE at' = "exited"
    <3>1. Exit
      BY <1>13, <2>4 DEF restore_protection
    <3> QED
      BY <1>x, <2>1, <3>1
  <2>5. CASE at' # "exited"
    <3>1. astray' = astray
      BY <1>13, <2>1, <2>5, WorkingCall DEF restore_protection, Exit
    <3>2. /\ at = "restore_protection"
          /\ prot' = [prot EXCEPT ![line] = maps[line].perms]
          /\ at' = "read_line"
          /\ UNCHANGED <<gp, rsi_gp, handler, code, xom, maps, patched, line, hook_fn, skipped>>
      BY <1>13, <2>5 DEF restore_protection, Exit
    <3>3. TypeOK'
      BY <3>1, <3>2, <2>2 DEF TypeOK
    <3>4. StepsInOrder'
      BY <3>2 DEF TypeOK, StepsInOrder, SweepInOrder, Prepared, Rewriting, Starting
    <3>5. SweepInOrder'
      BY <3>2, <2>2 DEF TypeOK, StepsInOrder, SweepInOrder, Current, Rewriting, Starting,
         Unprotected, LibcText
    <3> QED
      BY <3>1, <3>3, <3>4, <3>5
  <2> QED
    BY <2>4, <2>5
<1>14. CASE load_hook_lib
  <2>1. CallsWork
    BY <1>14, CallsWorkBefore DEF load_hook_lib
  <2>4. CASE at' = "exited"
    <3>1. Exit
      BY <1>14, <2>4 DEF load_hook_lib
    <3> QED
      BY <1>x, <2>1, <3>1
  <2>5. CASE at' # "exited"
    <3>1. astray' = astray
      BY <1>14, <2>1, <2>5, WorkingCall DEF load_hook_lib, Exit
    <3>2. /\ at = "load_hook_lib"
          /\ hook_fn' \in {"NULL", "set"}
          /\ at' = "_start"
          /\ UNCHANGED <<gp, rsi_gp, handler, code, xom, maps, prot, patched, line, skipped>>
      BY <1>14, <2>5 DEF load_hook_lib, Exit
    <3>3. TypeOK'
      BY <3>1, <3>2 DEF TypeOK
    <3>4. StepsInOrder'
      BY <3>2 DEF TypeOK, StepsInOrder, SweepInOrder, Prepared, Rewriting, Starting
    <3>5. SweepInOrder'
      BY <3>2 DEF TypeOK, StepsInOrder, SweepInOrder, Current, Rewriting, Starting,
         Unprotected, LibcText
    <3> QED
      BY <3>1, <3>3, <3>4, <3>5
  <2> QED
    BY <2>4, <2>5
<1>15. CASE _start
  BY <1>15 DEF _start, TypeOK, StepsInOrder, SweepInOrder, Current, Rewriting, Starting,
     Unprotected, LibcText, Prepared
<1>16. CASE __libc_start_main
  BY <1>16 DEF __libc_start_main, LibcCall, TypeOK, StepsInOrder, SweepInOrder, Current,
     Rewriting, Starting, Unprotected, LibcText, Prepared
<1>17. CASE main
  <2>1. CallsWork
    BY <1>17, CallsWorkBefore DEF main
  <2>2. astray' = astray
    BY <1>17, <2>1, WorkingCall DEF main
  <2> QED
    BY <1>17, <2>2 DEF main, TypeOK, StepsInOrder, SweepInOrder, Current,
         Rewriting, Starting, Unprotected, LibcText, Prepared
<1>18. CASE Exited \/ UNCHANGED vars
  BY <1>18 DEF Exited, vars, TypeOK, StepsInOrder, SweepInOrder, Current,
     Rewriting, Starting, Unprotected, LibcText, Prepared
<1> QED
  BY <1>1, <1>2, <1>3, <1>4, <1>5, <1>6, <1>7, <1>8, <1>9, <1>10, <1>11, <1>12, <1>13,
     <1>14, <1>15, <1>16, <1>17, <1>18 DEF Next

\* A program whose constructor ran is fully prepared when main runs: handler
\* installed, gp moved, exactly the executable mappings of libc.so.6 rewritten
\* and every protection restored, however many mappings there are and whether
\* or not dlsym makes system calls.
THEOREM StartPreparesMain == Spec => [](TypeOK /\ MainRunsPrepared)
<1>1. IInv => TypeOK /\ MainRunsPrepared
  BY DEF IInv, StepsInOrder, SweepInOrder, MainRunsPrepared, Prepared, Starting, Unprotected
<1> QED
  BY InitIInv, StepIInv, <1>1, PTL DEF Spec

\* As long as dlsym in __libc_start_main makes no system call, no glibc call
\* of the constructor, of its error exits or of the program goes astray.
THEOREM StartCallsWork == ASSUME ~ DlsymCalls PROVE Spec => []NoCallAstray
<1>1. IInv => NoCallAstray
  BY DEF IInv, NoCallAstray
<1> QED
  BY InitIInv, StepIInv, <1>1, PTL DEF Spec
=============================================================================
