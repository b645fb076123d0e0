-------------------------- MODULE ReturnPageProofs --------------------------
(***************************************************************************)
(* For every page size, global pointer, mmap result and displacement: when *)
(* the layout of the execute-only page is correct, and what follows if so. *)
(***************************************************************************)
EXTENDS ReturnPage, TLAPS

\* An address splits in one way only into a multiple of the page size and an
\* offset in the page.
LEMMA SplitUnique ==
  ASSUME NEW p \in Nat, p > 0, NEW q \in Int, NEW k \in Int,
         NEW r \in 0 .. p - 1, NEW s \in 0 .. p - 1,
         p * q + r = p * k + s
  PROVE  q = k /\ r = s
<1>1. p * (q - k) = s - r  OBVIOUS
<1>2. CASE q - k >= 1
  <2>1. p * (q - k) >= p  BY <1>2, SMT
  <2>2. QED  BY <1>1, <2>1
<1>3. CASE q - k <= -1
  <2>1. p * (q - k) <= -p  BY <1>3, SMT
  <2>2. QED  BY <1>1, <2>1
<1>4. CASE q = k
  <2>1. p * (q - k) = 0  BY <1>4
  <2>2. QED  BY <1>1, <1>4, <2>1
<1>5. QED  BY <1>2, <1>3, <1>4

\* The offset of an address in its page.
LEMMA Offsets ==
  ASSUME NEW a \in Int
  PROVE  /\ a % PageSize \in 0 .. PageSize - 1
         /\ a \div PageSize \in Int
         /\ a = PageSize * (a \div PageSize) + (a % PageSize)
BY PageSizeAssumption DEF RET_SEQUENCE_SIZE, TRAMPOLINE_SIZE

\* Moving an address within its page moves its offset by the same amount.
LEMMA MoveInPage ==
  ASSUME NEW a \in Int, NEW d \in Int, (a % PageSize) + d \in 0 .. PageSize - 1
  PROVE  /\ (a + d) % PageSize = (a % PageSize) + d
         /\ PageOf(a + d) = PageOf(a)
<1>1. (a + d) % PageSize = (a % PageSize) + d
  <2> DEFINE q == (a + d) \div PageSize
             k == a \div PageSize
  <2>1. PageSize \in Nat /\ PageSize > 0
    BY PageSizeAssumption DEF RET_SEQUENCE_SIZE, TRAMPOLINE_SIZE
  <2>2. /\ a + d = PageSize * q + ((a + d) % PageSize)
        /\ (a + d) % PageSize \in 0 .. PageSize - 1
        /\ q \in Int
    BY Offsets
  <2>3. a = PageSize * k + (a % PageSize) /\ k \in Int
    BY Offsets
  <2> HIDE DEF q, k
  <2>4. PageSize * q + ((a + d) % PageSize) = PageSize * k + ((a % PageSize) + d)
    <3>1. PageSize * q \in Int /\ PageSize * k \in Int  BY <2>1, <2>2, <2>3
    <3>2. a % PageSize \in Int  BY Offsets
    <3>3. QED  BY <2>2, <2>3, <3>1, <3>2
  <2>5. QED  BY <2>1, <2>2, <2>3, <2>4, SplitUnique
<1>2. a % PageSize \in Int  BY Offsets
<1>3. QED  BY <1>1, <1>2 DEF PageOf

\* mprotect of the bytes below relocated_gp protects one page.
LEMMA OnePage ==
  ASSUME NEW o \in Int, 1 <= o, o <= PageSize
  PROVE  RoundUp(o) = PageSize
<1> DEFINE n == o + PageSize - 1
<1>1. PageSize \in Nat /\ PageSize > 0
  BY PageSizeAssumption DEF RET_SEQUENCE_SIZE, TRAMPOLINE_SIZE
<1>2. n \in Int /\ n = PageSize * 1 + (o - 1) /\ o - 1 \in 0 .. PageSize - 1
  BY <1>1
<1>3. /\ n = PageSize * (n \div PageSize) + (n % PageSize)
      /\ n \div PageSize \in Int
      /\ n % PageSize \in 0 .. PageSize - 1
  BY <1>2, Offsets
<1> HIDE DEF n
<1>4. n \div PageSize = 1
  BY <1>1, <1>2, <1>3, SplitUnique
<1>5. QED
  BY <1>1, <1>4 DEF RoundUp, n

-----------------------------------------------------------------------------
(***************************************************************************)
(* What each step of the constructor has established.  A global pointer    *)
(* less than 56 bytes into its page gets two pages, or the page before its *)
(* own; little is needed of these, since setup_return will stray.          *)
(***************************************************************************)
Described ==
  /\ rsi.gp_offset = gp % PageSize
  /\ gp % PageSize >= 56 =>
       rsi.start_addr_page = PageOf(gp) /\ rsi.protection_size = PageSize

Placed ==
  /\ rsi.ret_sequence_page_addr \in FreeRegions
  /\ rsi.relocated_gp = rsi.ret_sequence_page_addr + rsi.gp_offset
  /\ rsi.start_addr = rsi.relocated_gp - RET_SEQUENCE_SIZE
  /\ rsi.gp_offset >= 56 => rsi.start_offset = rsi.gp_offset - RET_SEQUENCE_SIZE

IInv ==
  /\ TypeOK
  /\ stage \in {"info", "allocated", "trampoline", "ready"} => Described
  /\ stage \in {"allocated", "trampoline", "ready"} => Placed
  /\ stage = "trampoline" /\ gp % PageSize >= 56 => FittingOffset(gp)
  /\ stage = "ready" => execOnly = PageSize
  /\ CodeInReservedPages
  /\ RedirectedToOriginal

\* What is known of any global pointer and its offset.
LEMMA Room ==
  ASSUME TypeOK
  PROVE  /\ PageSize \in Nat /\ PageSize >= 136
         /\ gp \in Nat
         /\ gp % PageSize \in Nat /\ gp % PageSize < PageSize
         /\ FittingOffset(gp) <=> gp % PageSize >= 56 /\ gp % PageSize <= PageSize - 80
<1>1. gp \in Nat
  BY GlobalPointersAssumption DEF TypeOK
<1>2. PageSize \in Nat /\ PageSize >= 136
  BY PageSizeAssumption DEF RET_SEQUENCE_SIZE, TRAMPOLINE_SIZE
<1>3. gp % PageSize \in 0 .. PageSize - 1  BY <1>1, Offsets
<1>4. QED
  BY <1>1, <1>2, <1>3 DEF FittingOffset, RET_SEQUENCE_SIZE, TRAMPOLINE_SIZE

LEMMA InitIInv == Init => IInv
<1> SUFFICES ASSUME Init PROVE IInv  OBVIOUS
<1>1. TypeOK  BY DEF Init, TypeOK, NoInfo, NoAccess, NULL, Infos
<1>2. QED
  BY <1>1 DEF Init, IInv, CodeInReservedPages, RedirectedToOriginal, NoAccess

\* define_ret_sequence_info asks for one page if the return sequence does not
\* reach into the page before that of gp, and always for some memory.
LEMMA Asked ==
  ASSUME TypeOK
  PROVE  /\ PageOf(gp - 56) \in Int
         /\ PageOf(gp - 1) - PageOf(gp - 56) + PageSize \in Nat
         /\ gp % PageSize >= 56 => PageOf(gp - 56) = PageOf(gp) /\ PageOf(gp - 1) = PageOf(gp)
<1>1. PageSize \in Nat /\ gp \in Nat /\ gp % PageSize \in Nat /\ gp % PageSize < PageSize
  BY Room
<1>2. ASSUME NEW d \in {-56, -1}, gp % PageSize >= 56
      PROVE  PageOf(gp + d) = PageOf(gp)
  <2>1. gp \in Int /\ d \in Int /\ (gp % PageSize) + d \in 0 .. PageSize - 1
    BY <1>1, <1>2
  <2>2. QED  BY ONLY <2>1, MoveInPage
<1>3. gp + (-56) = gp - 56 /\ gp + (-1) = gp - 1  BY <1>1
<1>4. gp % PageSize >= 56 => PageOf(gp - 56) = PageOf(gp) /\ PageOf(gp - 1) = PageOf(gp)
  BY <1>2, <1>3
<1> DEFINE x == (gp - 1) % PageSize
           y == (gp - 56) % PageSize
<1>5. x \in 0 .. PageSize - 1 /\ y \in 0 .. PageSize - 1  BY <1>1, Offsets
<1>6. PageOf(gp - 1) = gp - 1 - x /\ PageOf(gp - 56) = gp - 56 - y  BY DEF PageOf
<1> HIDE DEF x, y
<1>7. QED  BY <1>1, <1>4, <1>5, <1>6

LEMMA StepIInv ==
  ASSUME IInv, [Next]_vars
  PROVE  IInv'
<1> DEFINE o == gp % PageSize
<1>0. /\ PageSize \in Nat /\ PageSize >= 136 /\ gp \in Nat /\ o \in Nat /\ o < PageSize
      /\ FittingOffset(gp) <=> o >= 56 /\ o <= PageSize - 80
  BY Room DEF IInv
<1> HIDE DEF o
<1>1. CASE define_ret_sequence_info
  <2> DEFINE first == PageOf(gp - 56)
             size == PageOf(gp - 1) - PageOf(gp - 56) + PageSize
  <2>1. /\ first \in Int /\ size \in Nat
        /\ o >= 56 => first = PageOf(gp) /\ PageOf(gp - 1) = PageOf(gp)
    BY Asked DEF IInv, o
  <2>2. o >= 56 => size = PageSize  BY <1>0, <2>1
  <2>3. rsi' = [rsi EXCEPT !.gp_offset = o, !.start_addr = gp - 56,
                           !.start_addr_page = first, !.protection_size = size]
    BY <1>1 DEF define_ret_sequence_info, RET_SEQUENCE_SIZE, o
  <2> HIDE DEF first, size
  <2>4. TypeOK'
    <3>1. rsi \in Infos  BY DEF IInv, TypeOK
    <3>2. o \in Nat /\ gp - 56 \in Int /\ first \in Int /\ size \in Nat
      BY <1>0, <2>1
    <3>3. rsi' \in Infos  BY ONLY <2>3, <3>1, <3>2 DEF Infos
    <3>4. QED  BY <1>1, <3>3 DEF define_ret_sequence_info, IInv, TypeOK
  <2>5. Described'
    BY <1>1, <2>1, <2>2, <2>3
    DEF define_ret_sequence_info, Described, IInv, TypeOK, Infos, PageOf, o
  <2>6. QED
    BY <1>1, <2>4, <2>5
    DEF define_ret_sequence_info, IInv, CodeInReservedPages, RedirectedToOriginal
<1>2. CASE allocate_ret_sequence_page
  <2>1. PICK region \in FreeRegions :
          rsi' = [rsi EXCEPT !.ret_sequence_page_addr = region,
                             !.relocated_gp = region + rsi.gp_offset,
                             !.start_addr = (region + rsi.gp_offset) - 56,
                             !.start_offset = ((region + rsi.gp_offset) - 56) % PageSize]
    BY <1>2 DEF allocate_ret_sequence_page, RET_SEQUENCE_SIZE
  <2>2. Described /\ rsi \in Infos /\ rsi.gp_offset = o
    BY <1>2 DEF allocate_ret_sequence_page, IInv, TypeOK, Described, o
  <2>3. region \in Nat /\ region >= PageSize /\ region % PageSize = 0
    BY FreeRegionsAssumption
  <2>4. o >= 56 => (region + (o - 56)) % PageSize = o - 56
    BY <1>0, <2>3, MoveInPage
  <2>5. o >= 56 => ((region + o) - 56) % PageSize = o - 56
    <3>1. (region + o) - 56 = region + (o - 56)  BY <1>0, <2>3
    <3>2. QED  BY <2>4, <3>1
  <2>6. TypeOK'
    <3>1. region \in Nat /\ region + o \in Nat /\ (region + o) - 56 \in Int
      BY <1>0, <2>3
    <3>2. ((region + o) - 56) % PageSize \in Nat  BY <3>1, Offsets
    <3>3. rsi' \in Infos  BY ONLY <2>1, <2>2, <3>1, <3>2 DEF Infos
    <3>4. QED  BY <1>2, <3>3 DEF allocate_ret_sequence_page, IInv, TypeOK
  <2>7. Described'
    BY <1>2, <2>1, <2>2 DEF allocate_ret_sequence_page, Described, Infos, PageOf
  <2>8. Placed'
    BY <1>0, <2>1, <2>2, <2>5 DEF Placed, Infos, RET_SEQUENCE_SIZE
  <2>9. QED
    BY <1>2, <2>6, <2>7, <2>8
    DEF allocate_ret_sequence_page, IInv, CodeInReservedPages, RedirectedToOriginal
<1>3. CASE setup_shadow_page_trampoline
  <2>1. Described /\ Placed /\ rsi \in Infos
    BY <1>3 DEF setup_shadow_page_trampoline, IInv, TypeOK
  <2>2. o >= 56 => (InRegion(rsi.relocated_gp, TRAMPOLINE_SIZE) <=> o <= PageSize - 80)
    BY <1>0, <2>1 DEF InRegion, Described, Placed, Infos, TRAMPOLINE_SIZE, o
  <2>3. /\ \/ stage' = "trampoline" /\ (o >= 56 => FittingOffset(gp))
           \/ stage' = "stray_write" /\ ~ FittingOffset(gp)
        /\ UNCHANGED <<gp, rsi, execOnly, access>>
    BY <1>0, <1>3, <2>2 DEF setup_shadow_page_trampoline
  <2>4. Described' /\ Placed' /\ TypeOK' /\ RedirectedToOriginal'
    BY <2>1, <2>3 DEF IInv, TypeOK, Described, Placed, RedirectedToOriginal, PageOf
  <2>5. QED
    BY <2>3, <2>4 DEF IInv, CodeInReservedPages, FittingOffset, o
<1>4. CASE setup_return
  <2>1. Described /\ Placed /\ rsi \in Infos /\ (o >= 56 => FittingOffset(gp))
    BY <1>4 DEF setup_return, IInv, TypeOK, o
  <2>2. InRegion(rsi.start_addr, RET_SEQUENCE_SIZE) <=> FittingOffset(gp)
    BY <1>0, <2>1 DEF InRegion, Described, Placed, Infos, RET_SEQUENCE_SIZE, o
  <2>3. CASE FittingOffset(gp)
    <3>1. RET_SEQUENCE_SIZE + rsi.start_offset = o
      BY <1>0, <2>1, <2>3 DEF Described, Placed, RET_SEQUENCE_SIZE, o
    <3>2. RoundUp(RET_SEQUENCE_SIZE + rsi.start_offset) = PageSize
      BY <1>0, <2>3, <3>1, OnePage
    <3>3. stage' = "ready" /\ execOnly' = PageSize /\ UNCHANGED <<gp, rsi, access>>
      BY <1>4, <2>2, <2>3, <3>2 DEF setup_return
    <3>4. Described' /\ Placed' /\ TypeOK' /\ RedirectedToOriginal'
      BY <1>0, <2>1, <3>3 DEF IInv, TypeOK, Described, Placed, RedirectedToOriginal, PageOf
    <3>5. QED
      BY <2>3, <3>3, <3>4 DEF IInv, CodeInReservedPages, FittingOffset
  <2>4. CASE ~ FittingOffset(gp)
    <3>1. stage' = "stray_write" /\ UNCHANGED <<gp, rsi, execOnly, access>>
      BY <1>4, <2>2, <2>4 DEF setup_return
    <3>2. QED
      BY <2>4, <3>1 DEF IInv, TypeOK, CodeInReservedPages, FittingOffset, RedirectedToOriginal
  <2>5. QED  BY <2>3, <2>4
<1>5. CASE GiveUp
  BY <1>5 DEF GiveUp, IInv, TypeOK, CodeInReservedPages, RedirectedToOriginal
<1>6. CASE GpRelativeAccess
  <2>1. /\ Described /\ Placed /\ rsi \in Infos /\ execOnly = PageSize /\ stage = "ready"
        /\ FittingOffset(gp)
    BY <1>6 DEF GpRelativeAccess, IInv, TypeOK, CodeInReservedPages
  <2>2. PICK d \in Displacements :
          \/ access' = [offset |-> d,
                        outcome |-> segfault_handler(rsi.relocated_gp + d).outcome,
                        to |-> segfault_handler(rsi.relocated_gp + d).to]
          \/ access' = [offset |-> d, outcome |-> "direct", to |-> rsi.relocated_gp + d]
    BY <1>6 DEF GpRelativeAccess
  <2>3. d \in Int  BY DisplacementsAssumption
  <2>4. rsi.start_addr_page + ((rsi.relocated_gp + d) - rsi.ret_sequence_page_addr) = gp + d
    BY <1>0, <2>1, <2>3 DEF Described, Placed, Infos, PageOf, o
  <2>5. \/ access' = [offset |-> d, outcome |-> "redirected", to |-> gp + d]
        \/ access' = [offset |-> d, outcome |-> "default_action", to |-> 0]
        \/ access' = [offset |-> d, outcome |-> "direct", to |-> rsi.relocated_gp + d]
    BY <2>2, <2>4 DEF segfault_handler, NULL
  <2>6. rsi.relocated_gp + d \in Int  BY <2>1, <2>3 DEF Infos
  <2>7. TypeOK' /\ RedirectedToOriginal'
    BY <1>0, <1>6, <2>3, <2>5, <2>6 DEF GpRelativeAccess, IInv, TypeOK, RedirectedToOriginal
  <2>8. QED
    BY <1>6, <2>1, <2>7 DEF GpRelativeAccess, IInv, Described, Placed,
      CodeInReservedPages, FittingOffset, PageOf
<1>7. CASE UNCHANGED vars
  BY <1>7 DEF vars, IInv, TypeOK, Described, Placed, CodeInReservedPages, FittingOffset,
    RedirectedToOriginal, PageOf
<1>8. QED
  BY <1>1, <1>2, <1>3, <1>4, <1>5, <1>6, <1>7 DEF Next, Stopped

\* For every page size, whatever page mmap returns and wherever the linker put
\* the global pointer: the constructor writes outside the memory it reserved
\* exactly if the global pointer lies less than 56 bytes after the start of its
\* page or less than 80 before the end; if it gets through, all of that memory
\* and nothing else is execute-only, and segfault_handler sends each access it
\* redirects to the byte meant by the program.
THEOREM PageLayoutCorrect ==
  Spec => [](TypeOK /\ CodeInReservedPages /\ ReadyMeansProtected /\ RedirectedToOriginal)
<1>1. IInv => TypeOK /\ CodeInReservedPages /\ ReadyMeansProtected /\ RedirectedToOriginal
  <2> SUFFICES ASSUME IInv PROVE ReadyMeansProtected  BY DEF IInv
  <2>1. SUFFICES ASSUME stage = "ready"
                 PROVE  /\ execOnly = rsi.protection_size
                        /\ InRegion(rsi.start_addr, RET_SEQUENCE_SIZE + TRAMPOLINE_SIZE)
    BY DEF ReadyMeansProtected
  <2>2. Described /\ Placed /\ rsi \in Infos /\ execOnly = PageSize /\ FittingOffset(gp)
    BY <2>1 DEF IInv, TypeOK, CodeInReservedPages
  <2>3. /\ PageSize \in Nat /\ gp % PageSize \in Nat
        /\ gp % PageSize >= 56 /\ gp % PageSize <= PageSize - 80
    BY <2>2, Room DEF IInv
  <2>4. QED
    BY <2>2, <2>3 DEF Described, Placed, InRegion, Infos,
      RET_SEQUENCE_SIZE, TRAMPOLINE_SIZE
<1>2. IInv /\ [Next]_vars => IInv'  BY StepIInv
<1>3. QED
  BY <1>1, <1>2, InitIInv, PTL DEF Spec
=============================================================================
