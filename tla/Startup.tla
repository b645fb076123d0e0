------------------------------- MODULE Startup -------------------------------
(***************************************************************************)
(* From the constructor of libvpoline to the main function of the program: *)
(* __vpoline_init prepares the execute-only page, moves gp there, rewrites *)
(* the mappings of glibc and loads the hook library; then _start loads the *)
(* program's own gp again and calls __libc_start_main, which libvpoline    *)
(* interposes to move gp once more.                                        *)
(*                                                                         *)
(* All these steps call glibc themselves.  A call is only safe if every    *)
(* mapping already rewritten finds relocated_gp in gp and both pieces of   *)
(* code behind it.                                                         *)
(***************************************************************************)
EXTENDS Integers

CONSTANTS
  Debug,        \* built with DEBUG: the constructor may skip its work
  NMaps,        \* number of lines of /proc/self/maps
  DlsymCalls    \* whether dlsym(RTLD_NEXT, ...) makes a system call in glibc

ASSUME DebugAssumption == Debug \in BOOLEAN /\ DlsymCalls \in BOOLEAN
ASSUME NMapsAssumption == NMaps \in Nat

Lines == 1 .. NMaps
Perms == SUBSET {"r", "w", "x"}

VARIABLES
  at,        \* the next step
  gp,        \* "virtual": __global_pointer$; "relocated"; or "NULL"
  rsi_gp,    \* rsi.relocated_gp, NULL until the page is allocated
  handler,   \* segfault_handler is installed
  code,      \* the pieces of code written around relocated_gp
  xom,       \* their page is executable
  maps,      \* the lines of /proc/self/maps when the process starts
  prot,      \* the protection each mapping has now
  patched,   \* the mappings whose ECALLs have been replaced
  line,      \* the line rewrite_code has read last
  hook_fn,   \* "NULL" or "set"
  skipped,   \* the constructor returned early (DEBUG only)
  astray     \* a patched ECALL was executed that could not reach asm_syscall_hook

vars == <<at, gp, rsi_gp, handler, code, xom, maps, prot, patched, line,
          hook_fn, skipped, astray>>

AllCode == {"trampoline", "return_sequence"}

\* what rewrite_code looks at: whether the file is libc.so.6, the permissions,
\* and whether the mapping starts at address 0
MapLines == [libc : BOOLEAN, perms : Perms, from0 : BOOLEAN]

\* the mappings that rewrite_code rewrites
ToRewrite(m) == m.libc /\ "x" \in m.perms /\ ~ m.from0

Init ==
  /\ at = "constructor"
  /\ gp = "virtual"
  /\ rsi_gp = "NULL"
  /\ handler = FALSE
  /\ code = {}
  /\ xom = FALSE
  /\ maps \in [Lines -> MapLines]
  /\ \A l \in Lines : maps[l].from0 => l = 1   \* the lines are in order of address
  /\ prot = [l \in Lines |-> maps[l].perms]
  /\ patched = {}
  /\ line = 0
  /\ hook_fn = "NULL"
  /\ skipped = FALSE
  /\ astray = FALSE

\* system calls of glibc reach the kernel now
CallsWork == patched = {} \/ (gp = "relocated" /\ code = AllCode /\ xom)

\* a step that calls glibc
LibcCall == astray' = (astray \/ ~ CallsWork)

\* exit(1) after an error
Exit ==
  /\ at' = "exited"
  /\ LibcCall
  /\ UNCHANGED <<gp, rsi_gp, handler, code, xom, maps, prot, patched, line,
                 hook_fn, skipped>>

-----------------------------------------------------------------------------
\* mv virtual_global_pointer, gp; under DEBUG, return early unless this is the
\* target executable
vpoline_init ==
  /\ at = "constructor"
  /\ LibcCall
  /\ \/ at' = "define_ret_sequence_info" /\ UNCHANGED skipped
     \/ Debug /\ at' = "_start" /\ skipped' = TRUE
  /\ UNCHANGED <<gp, rsi_gp, handler, code, xom, maps, prot, patched, line, hook_fn>>

define_ret_sequence_info ==
  /\ at = "define_ret_sequence_info"
  /\ at' = "init_trap_handler"
  /\ LibcCall
  /\ UNCHANGED <<gp, rsi_gp, handler, code, xom, maps, prot, patched, line,
                 hook_fn, skipped>>

init_trap_handler ==
  /\ at = "init_trap_handler"
  /\ \/ Exit
     \/ /\ handler' = TRUE
        /\ at' = "allocate_ret_sequence_page"
        /\ LibcCall
        /\ UNCHANGED <<gp, rsi_gp, code, xom, maps, prot, patched, line, hook_fn, skipped>>

allocate_ret_sequence_page ==
  /\ at = "allocate_ret_sequence_page"
  /\ \/ Exit
     \/ /\ rsi_gp' = "relocated"
        /\ at' = "setup_shadow_page_trampoline"
        /\ LibcCall
        /\ UNCHANGED <<gp, handler, code, xom, maps, prot, patched, line, hook_fn, skipped>>

setup_shadow_page_trampoline ==
  /\ at = "setup_shadow_page_trampoline"
  /\ code' = code \cup {"trampoline"}
  /\ at' = "setup_return"
  /\ UNCHANGED <<gp, rsi_gp, handler, xom, maps, prot, patched, line, hook_fn,
                 skipped, astray>>

setup_return ==
  /\ at = "setup_return"
  /\ code' = code \cup {"return_sequence"}
  /\ at' = "protect_page"
  /\ UNCHANGED <<gp, rsi_gp, handler, xom, maps, prot, patched, line, hook_fn,
                 skipped, astray>>

\* the mprotect at the end of setup_return
protect_page ==
  /\ at = "protect_page"
  /\ \/ Exit
     \/ /\ xom' = TRUE
        /\ at' = "set_gp"
        /\ LibcCall
        /\ UNCHANGED <<gp, rsi_gp, handler, code, maps, prot, patched, line, hook_fn, skipped>>

\* Bug: gp is not moved before the rewriting.
Bug_set_gp ==
  /\ at = "set_gp"
  /\ at' = "rewrite_code"
  /\ UNCHANGED <<gp, rsi_gp, handler, code, xom, maps, prot, patched, line, hook_fn,
                 skipped, astray>>

\* mv gp, rsi.relocated_gp
set_gp ==
  /\ at = "set_gp"
  /\ gp' = rsi_gp
  /\ at' = "rewrite_code"
  /\ UNCHANGED <<rsi_gp, handler, code, xom, maps, prot, patched, line, hook_fn,
                 skipped, astray>>

-----------------------------------------------------------------------------
\* fopen("/proc/self/maps")
rewrite_code ==
  /\ at = "rewrite_code"
  /\ \/ Exit
     \/ /\ at' = "read_line"
        /\ LibcCall
        /\ UNCHANGED <<gp, rsi_gp, handler, code, xom, maps, prot, patched, line,
                       hook_fn, skipped>>

\* Bug: the next line is fetched only after a rewritten mapping.
Bug_read_line ==
  /\ at = "read_line"
  /\ IF line < NMaps
     THEN IF ToRewrite(maps[line + 1])
          THEN line' = line + 1 /\ at' = "make_writable"
          ELSE UNCHANGED <<line, at>>
     ELSE at' = "load_hook_lib" /\ UNCHANGED line
  /\ LibcCall
  /\ UNCHANGED <<gp, rsi_gp, handler, code, xom, maps, prot, patched, hook_fn, skipped>>

\* Bug: reads one line too many.
Bug_read_line_past_end ==
  /\ at = "read_line"
  /\ IF line < NMaps + 1
     THEN line' = line + 1 /\ UNCHANGED at
     ELSE at' = "load_hook_lib" /\ UNCHANGED line
  /\ LibcCall
  /\ UNCHANGED <<gp, rsi_gp, handler, code, xom, maps, prot, patched, hook_fn, skipped>>

\* The next line: only executable mappings of libc.so.6 are rewritten, and none
\* at address 0, which is taken for a trampoline.  After the last one, fclose.
read_line ==
  /\ at = "read_line"
  /\ IF line < NMaps
     THEN /\ line' = line + 1
          /\ at' = IF ToRewrite(maps[line + 1])
                   THEN "make_writable" ELSE "read_line"
     ELSE /\ at' = "load_hook_lib"
          /\ UNCHANGED line
  /\ LibcCall
  /\ UNCHANGED <<gp, rsi_gp, handler, code, xom, maps, prot, patched, hook_fn, skipped>>

\* disassemble_and_rewrite: mprotect(PROT_WRITE | PROT_READ | PROT_EXEC)
make_writable ==
  /\ at = "make_writable"
  /\ \/ Exit
     \/ /\ prot' = [prot EXCEPT ![line] = {"r", "w", "x"}]
        /\ at' = "sweep"
        /\ LibcCall
        /\ UNCHANGED <<gp, rsi_gp, handler, code, xom, maps, patched, line, hook_fn, skipped>>

\* Open the disassembler, which may fail, and replace the ECALLs.  It allocates
\* memory all along; if it fails later, the mapping is already rewritten.
sweep ==
  /\ at = "sweep"
  /\ \/ Exit
     \/ /\ patched' = patched \cup {line}
        /\ at' = "restore_protection"
        /\ LibcCall
        /\ UNCHANGED <<gp, rsi_gp, handler, code, xom, maps, prot, line, hook_fn, skipped>>

\* Bug: the mapping stays writable.
Bug_restore_protection ==
  /\ at = "restore_protection"
  /\ \/ Exit
     \/ /\ at' = "read_line"
        /\ LibcCall
        /\ UNCHANGED <<gp, rsi_gp, handler, code, xom, maps, prot, patched, line, hook_fn, skipped>>

\* munmap the context and mprotect(mem_prot); or the sweep failed on its way
restore_protection ==
  /\ at = "restore_protection"
  /\ \/ Exit
     \/ /\ prot' = [prot EXCEPT ![line] = maps[line].perms]
        /\ at' = "read_line"
        /\ LibcCall
        /\ UNCHANGED <<gp, rsi_gp, handler, code, xom, maps, patched, line, hook_fn, skipped>>

\* LIBVPHOOK is unset; or dlopen, dlsym or hook_init fails; or hook_fn is set,
\* to NULL if __hook_init left it so
load_hook_lib ==
  /\ at = "load_hook_lib"
  /\ \/ Exit
     \/ /\ hook_fn' \in {"NULL", "set"}
        /\ at' = "_start"
        /\ LibcCall
        /\ UNCHANGED <<gp, rsi_gp, handler, code, xom, maps, prot, patched, line, skipped>>

-----------------------------------------------------------------------------
\* the entry point of the program loads __global_pointer$
_start ==
  /\ at = "_start"
  /\ gp' = "virtual"
  /\ at' = "__libc_start_main"
  /\ UNCHANGED <<rsi_gp, handler, code, xom, maps, prot, patched, line, hook_fn,
                 skipped, astray>>

\* dlsym(RTLD_NEXT); mv gp, rsi.relocated_gp; call the real function
__libc_start_main ==
  /\ at = "__libc_start_main"
  /\ IF DlsymCalls THEN LibcCall ELSE UNCHANGED astray
  /\ gp' = rsi_gp
  /\ at' = "main"
  /\ UNCHANGED <<rsi_gp, handler, code, xom, maps, prot, patched, line, hook_fn, skipped>>

\* the program calls glibc
main ==
  /\ at = "main"
  /\ LibcCall
  /\ UNCHANGED <<at, gp, rsi_gp, handler, code, xom, maps, prot, patched, line,
                 hook_fn, skipped>>

Exited ==
  /\ at = "exited"
  /\ UNCHANGED vars

Next ==
  \/ vpoline_init \/ define_ret_sequence_info \/ init_trap_handler
  \/ allocate_ret_sequence_page \/ setup_shadow_page_trampoline \/ setup_return
  \/ protect_page \/ set_gp \/ rewrite_code \/ read_line \/ make_writable \/ sweep
  \/ restore_protection \/ load_hook_lib \/ _start \/ __libc_start_main
  \/ main \/ Exited

Spec == Init /\ [][Next]_vars

FairSpec == Spec /\ WF_vars(Next)

-----------------------------------------------------------------------------
\* Every variable has the type its comment gives it.
TypeOK ==
  /\ at \in {"constructor", "define_ret_sequence_info", "init_trap_handler",
             "allocate_ret_sequence_page", "setup_shadow_page_trampoline",
             "setup_return", "protect_page", "set_gp", "rewrite_code", "read_line",
             "make_writable", "sweep", "restore_protection", "load_hook_lib",
             "_start", "__libc_start_main", "main", "exited"}
  /\ gp \in {"virtual", "relocated", "NULL"}
  /\ rsi_gp \in {"relocated", "NULL"}
  /\ handler \in BOOLEAN
  /\ code \subseteq AllCode
  /\ xom \in BOOLEAN
  /\ maps \in [Lines -> MapLines]
  /\ prot \in [Lines -> Perms]
  /\ patched \subseteq Lines
  /\ line \in 0 .. NMaps
  /\ hook_fn \in {"NULL", "set"}
  /\ skipped \in BOOLEAN
  /\ astray \in BOOLEAN

\* Whatever __vpoline_init and the program call in glibc, before, during and
\* after the rewriting, and in an exit after an error: a patched ECALL finds
\* relocated_gp in gp and finished, executable code behind it.
NoCallAstray == ~ astray

LibcText == {l \in Lines : ToRewrite(maps[l])}

\* A program whose constructor was not skipped reaches main fully prepared:
\* the SIGSEGV handler installed, gp relocated, exactly the executable
\* mappings of libc.so.6 rewritten (one at address 0 would not be) and every
\* mapping protected as before.  No failed step lets a half-prepared program run.
MainRunsPrepared ==
  at = "main" /\ ~ skipped =>
    /\ handler /\ xom /\ code = AllCode /\ gp = "relocated"
    /\ patched = LibcText
    /\ \A l \in Lines : prot[l] = maps[l].perms

\* The constructor and the program's start come to an end: main runs, or the
\* process has exited.
StartEnds == <>(at \in {"main", "exited"})
=============================================================================
