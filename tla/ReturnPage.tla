----------------------------- MODULE ReturnPage -----------------------------
(***************************************************************************)
(* The page that relocated_gp points into.                                 *)
(*                                                                         *)
(* The constructor reserves one or two fresh pages, puts relocated_gp at   *)
(* the same page offset as the program's own global pointer, writes the    *)
(* trampoline from relocated_gp upwards and the return sequence below it,  *)
(* and makes the pages execute-only.  The program then runs with gp =      *)
(* relocated_gp, so each of its gp-relative accesses faults and            *)
(* segfault_handler redirects it to the page of the original gp.           *)
(***************************************************************************)
EXTENDS Integers

CONSTANTS
  PageSize,        \* sysconf(_SC_PAGESIZE)
  GlobalPointers,  \* values the linker may have given __global_pointer$
  FreeRegions,     \* page-aligned addresses mmap may return
  Displacements    \* offsets of the program's gp-relative accesses

RET_SEQUENCE_SIZE == 56   \* 14 words below relocated_gp
TRAMPOLINE_SIZE == 80     \* 20 words from relocated_gp on

ASSUME PageSizeAssumption ==
  PageSize \in Nat /\ PageSize >= RET_SEQUENCE_SIZE + TRAMPOLINE_SIZE
ASSUME GlobalPointersAssumption ==
  GlobalPointers \subseteq {g \in Nat : g >= PageSize}
ASSUME FreeRegionsAssumption ==
  FreeRegions \subseteq {a \in Nat : a >= PageSize /\ a % PageSize = 0}
ASSUME DisplacementsAssumption == Displacements \subseteq Int

VARIABLES
  stage,      \* how far __vpoline_init has come
  gp,         \* virtual_global_pointer
  rsi,        \* the ReturnSequenceInfo structure
  execOnly,   \* bytes made execute-only, counted from ret_sequence_page_addr
  access      \* the last gp-relative access and where it went

vars == <<stage, gp, rsi, execOnly, access>>

NULL == 0
NoInfo == [start_addr |-> NULL, start_addr_page |-> NULL, gp_offset |-> 0,
           relocated_gp |-> NULL, start_offset |-> 0, protection_size |-> 0,
           ret_sequence_page_addr |-> NULL]

NoAccess == [offset |-> 0, outcome |-> "none", to |-> NULL]

\* addr & page_mask
PageOf(addr) == addr - (addr % PageSize)

\* the length mprotect really protects: whole pages
RoundUp(len) == ((len + PageSize - 1) \div PageSize) * PageSize

Init ==
  /\ stage = "start"
  /\ gp \in GlobalPointers
  /\ rsi = NoInfo
  /\ execOnly = 0
  /\ access = NoAccess

\* Bug: the page size is subtracted from the distance of the two pages.
Bug_define_ret_sequence_info ==
  /\ stage = "start"
  /\ rsi' = [rsi EXCEPT !.gp_offset = gp % PageSize,
                        !.start_addr = gp - RET_SEQUENCE_SIZE,
                        !.start_addr_page = PageOf(gp - RET_SEQUENCE_SIZE),
                        !.protection_size =
                           PageOf(gp - 1) - PageOf(gp - RET_SEQUENCE_SIZE) - PageSize]
  /\ stage' = "info"
  /\ UNCHANGED <<gp, execOnly, access>>

\* Bug: protection_size is the distance of the first and the last page.
Bug_define_ret_sequence_info_short ==
  /\ stage = "start"
  /\ rsi' = [rsi EXCEPT !.gp_offset = gp % PageSize,
                        !.start_addr = gp - RET_SEQUENCE_SIZE,
                        !.start_addr_page = PageOf(gp - RET_SEQUENCE_SIZE),
                        !.protection_size =
                           PageOf(gp - 1) - PageOf(gp - RET_SEQUENCE_SIZE)]
  /\ stage' = "info"
  /\ UNCHANGED <<gp, execOnly, access>>

define_ret_sequence_info ==
  LET first == gp - RET_SEQUENCE_SIZE
      last == gp - 1
  IN
  /\ stage = "start"
  /\ rsi' = [rsi EXCEPT !.gp_offset = gp % PageSize,
                        !.start_addr = first,
                        !.start_addr_page = PageOf(first),
                        !.protection_size = PageOf(last) - PageOf(first) + PageSize]
  /\ stage' = "info"
  /\ UNCHANGED <<gp, execOnly, access>>

allocate_ret_sequence_page ==
  /\ stage = "info"
  /\ \E region \in FreeRegions :
       LET relocated == region + rsi.gp_offset IN
       rsi' = [rsi EXCEPT !.ret_sequence_page_addr = region,
                          !.relocated_gp = relocated,
                          !.start_addr = relocated - RET_SEQUENCE_SIZE,
                          !.start_offset = (relocated - RET_SEQUENCE_SIZE) % PageSize]
  /\ stage' = "allocated"
  /\ UNCHANGED <<gp, execOnly, access>>

\* mmap or mprotect fails: exit(1)
GiveUp ==
  /\ stage \in {"info", "trampoline"}
  /\ stage' = "exited"
  /\ UNCHANGED <<gp, rsi, execOnly, access>>

\* [from, from + len) lies in the pages mmap returned
InRegion(from, len) ==
  /\ rsi.ret_sequence_page_addr <= from
  /\ from + len <= rsi.ret_sequence_page_addr + rsi.protection_size

\* A write outside those pages overwrites a neighbour or faults.
setup_shadow_page_trampoline ==
  /\ stage = "allocated"
  /\ stage' = IF InRegion(rsi.relocated_gp, TRAMPOLINE_SIZE)
              THEN "trampoline" ELSE "stray_write"
  /\ UNCHANGED <<gp, rsi, execOnly, access>>

\* Bug: mprotect is told the offset of the return sequence, not its end.
Bug_setup_return ==
  /\ stage = "trampoline"
  /\ IF InRegion(rsi.start_addr, RET_SEQUENCE_SIZE)
     THEN /\ stage' = "ready"
          /\ execOnly' = RoundUp(rsi.start_offset)
     ELSE /\ stage' = "stray_write"
          /\ UNCHANGED execOnly
  /\ UNCHANGED <<gp, rsi, access>>

setup_return ==
  /\ stage = "trampoline"
  /\ IF InRegion(rsi.start_addr, RET_SEQUENCE_SIZE)
     THEN /\ stage' = "ready"
          /\ execOnly' = RoundUp(RET_SEQUENCE_SIZE + rsi.start_offset)
     ELSE /\ stage' = "stray_write"
          /\ UNCHANGED execOnly
  /\ UNCHANGED <<gp, rsi, access>>

\* Bug: the offset is added to the address of the return sequence.
Bug_segfault_handler(addr) ==
  IF InRegion(addr, 1)
  THEN [outcome |-> "redirected",
        to |-> rsi.start_addr + (addr - rsi.ret_sequence_page_addr)]
  ELSE [outcome |-> "default_action", to |-> NULL]

\* segfault_handler: faults outside the region get the default action
segfault_handler(addr) ==
  IF InRegion(addr, 1)
  THEN [outcome |-> "redirected",
        to |-> rsi.start_addr_page + (addr - rsi.ret_sequence_page_addr)]
  ELSE [outcome |-> "default_action", to |-> NULL]

ExecuteOnly(addr) ==
  /\ rsi.ret_sequence_page_addr <= addr
  /\ addr < rsi.ret_sequence_page_addr + execOnly

\* The program accesses the byte at displacement d from gp: an execute-only
\* byte faults; outside the reserved pages another mapping is hit, or none.
GpRelativeAccess ==
  /\ stage = "ready"
  /\ \E d \in Displacements :
       LET addr == rsi.relocated_gp + d
           handled == segfault_handler(addr)
       IN
       \/ /\ ExecuteOnly(addr) \/ ~ InRegion(addr, 1)
          /\ access' = [offset |-> d, outcome |-> handled.outcome, to |-> handled.to]
       \/ /\ ~ ExecuteOnly(addr)
          /\ access' = [offset |-> d, outcome |-> "direct", to |-> addr]
  /\ UNCHANGED <<stage, gp, rsi, execOnly>>

\* the constructor has stopped the process, or a stray write has
Stopped ==
  /\ stage \in {"exited", "stray_write"}
  /\ UNCHANGED vars

Next ==
  \/ define_ret_sequence_info
  \/ allocate_ret_sequence_page
  \/ setup_shadow_page_trampoline
  \/ setup_return
  \/ GiveUp
  \/ GpRelativeAccess
  \/ Stopped

Spec == Init /\ [][Next]_vars

-----------------------------------------------------------------------------
Infos == [start_addr : Int, start_addr_page : Int, gp_offset : Nat,
          relocated_gp : Nat, start_offset : Nat, protection_size : Nat,
          ret_sequence_page_addr : Nat]

\* Every variable has the type its comment gives it.
TypeOK ==
  /\ stage \in {"start", "info", "allocated", "trampoline", "ready",
                "exited", "stray_write"}
  /\ gp \in GlobalPointers
  /\ rsi \in Infos
  /\ execOnly \in Nat
  /\ access \in [offset : Int, to : Int,
                 outcome : {"none", "redirected", "default_action", "direct"}]

\* The offsets of the global pointer in its page for which both pieces of code
\* fit in the one page that define_ret_sequence_info then asks for.
FittingOffset(g) ==
  /\ g % PageSize >= RET_SEQUENCE_SIZE
  /\ g % PageSize <= PageSize - TRAMPOLINE_SIZE

\* Whether the constructor writes the trampoline and the return sequence inside
\* the memory that allocate_ret_sequence_page reserves depends on the offset of
\* the global pointer alone: with one that fits neither leaves it, and with any
\* other one of the two does, so that the constructor is never through unharmed.
CodeInReservedPages ==
  /\ stage = "stray_write" => ~ FittingOffset(gp)
  /\ stage = "ready" => FittingOffset(gp)

\* The memory that allocate_ret_sequence_page reserves contains the return
\* sequence, as its comment says.
ReturnSequenceInReservedPages ==
  stage \in {"allocated", "trampoline", "ready", "stray_write"} =>
    InRegion(rsi.start_addr, RET_SEQUENCE_SIZE)

\* Once setup_return is through, the code at and below relocated_gp is
\* executable, and the execute-only area is exactly the reserved pages, so
\* that segfault_handler's bounds and the protection agree.
ReadyMeansProtected ==
  stage = "ready" =>
    /\ execOnly = rsi.protection_size
    /\ InRegion(rsi.start_addr, RET_SEQUENCE_SIZE + TRAMPOLINE_SIZE)

\* A redirected access reads or writes the byte that the same instruction
\* would have accessed with the original gp.
RedirectedToOriginal ==
  access.outcome = "redirected" => access.to = gp + access.offset

\* Every gp-relative access causes a segfault that redirects it, as the
\* comment on relocated_gp requires of any such access.
EveryAccessRedirected == access.outcome \in {"none", "redirected"}
=============================================================================
