------------------------- MODULE MachineCodeProofs --------------------------
(***************************************************************************)
(* The trampoline and syscall_no_intercept do what they are for, at every  *)
(* address of asm_syscall_hook and for every width of registers and        *)
(* immediates.                                                             *)
(*                                                                         *)
(* First the arithmetic: the immediates give the address back.  Then the   *)
(* code, word by word: what each register holds before each instruction.   *)
(***************************************************************************)
EXTENDS MachineCode, TLAPS

-----------------------------------------------------------------------------
(***************************************************************************)
(* Immediates.  Every % is cleared by naming the multiple it takes away.   *)
(***************************************************************************)

\* Division with remainder: the rest is less than the divisor.
LEMMA Remainder ==
  ASSUME NEW N \in Nat, N > 0, NEW x \in Int
  PROVE  /\ x % N \in Nat /\ x % N < N
         /\ \E k \in Int : x = (x % N) + k * N
<1> DEFINE q == x \div N
<1>1. q \in Int /\ x % N \in Nat /\ x % N < N
  BY SMT
<1>2. x - N * q = x % N
  BY <1>1, SMT
<1>3. x = (x % N) + q * N
  BY <1>1, <1>2, SMT
<1> QED
  BY <1>1, <1>3

\* The remainder is the only number of that kind.
LEMMA RemainderUnique ==
  ASSUME NEW N \in Nat, N > 0, NEW k \in Int, NEW r \in Nat, r < N
  PROVE  (r + k * N) % N = r
  BY SMT

\* Multiples of the divisor do not change the remainder.
LEMMA RemainderShift ==
  ASSUME NEW N \in Nat, N > 0, NEW x \in Int, NEW k \in Int
  PROVE  (x + k * N) % N = x % N
<1>1. PICK j \in Int : x = (x % N) + j * N
  BY Remainder
<1>2. x % N \in Nat /\ x % N < N
  BY Remainder
<1>3. x + k * N = (x % N) + (j + k) * N
  BY <1>1, <1>2, SMT
<1>4. j + k \in Int
  BY SMT
<1> QED
  BY <1>2, <1>3, <1>4, RemainderUnique

\* A register that is cut off to fewer bits twice.
LEMMA RemainderOfMultiple ==
  ASSUME NEW N \in Nat, N > 0, NEW m \in Nat, m > 0, NEW x \in Int
  PROVE  x % (m * N) \in Nat /\ (x % (m * N)) % N = x % N
<1> DEFINE M == m * N
<1>1. M \in Nat /\ M > 0
  BY SMT
<1>2. PICK j \in Int : x = (x % M) + j * M
  BY <1>1, Remainder
<1>3. x % M \in Nat
  BY <1>1, Remainder
<1>4. j * m \in Int /\ x = (x % M) + (j * m) * N
  BY <1>2, <1>3, SMT
<1> DEFINE y == x % M
           k == j * m
<1>5. y \in Int /\ k \in Int /\ x = y + k * N
  BY <1>3, <1>4, SMT
<1> HIDE DEF y, k
<1>6. (y + k * N) % N = y % N
  BY <1>5, RemainderShift
<1> QED
  BY <1>3, <1>5, <1>6 DEF y

\* Numbers with the same remainder keep it when the same is added to both.
LEMMA RemainderSum ==
  ASSUME NEW N \in Nat, N > 0, NEW x \in Int, NEW y \in Int, NEW s \in Int,
         x % N = y % N
  PROVE  (x + s) % N = (y + s) % N
<1>1. PICK i \in Int : x = (x % N) + i * N
  BY Remainder
<1>2. PICK j \in Int : y = (y % N) + j * N
  BY Remainder
<1>3. x % N \in Nat
  BY Remainder
<1>4. i - j \in Int /\ y + s \in Int /\ x + s = (y + s) + (i - j) * N
  BY <1>1, <1>2, <1>3, SMT
<1> DEFINE d == i - j
           w == y + s
<1>5. d \in Int /\ w \in Int /\ x + s = w + d * N
  BY <1>4
<1> HIDE DEF d, w
<1>6. (w + d * N) % N = w % N
  BY <1>5, RemainderShift
<1> QED
  BY <1>5, <1>6 DEF w

\* What is cut off to the width of a register fits.
LEMMA InWords ==
  ASSUME NEW x \in Int
  PROVE  x % (HALF * HALF) \in Words
<1> DEFINE N == HALF * HALF
<1>1. N \in Nat /\ N > 0
  BY WidthAssumption, SMT
<1>2. N = XLEN
  BY DEF XLEN
<1> HIDE DEF N
<1>3. x % N \in Nat /\ x % N < N
  BY <1>1, Remainder
<1>4. x % N \in 0 .. N - 1
  BY <1>1, <1>3, SMT
<1> QED
  BY <1>2, <1>4 DEF Words, N

\* The sign extension of LUI changes only the bits above its 32.
LEMMA LuiLow ==
  ASSUME NEW l \in Nat
  PROVE  Lui(l) \in Words /\ Lui(l) % HALF = l % HALF
<1>1. HALF \in Nat /\ HALF > 0
  BY WidthAssumption, SMT
<1> DEFINE x == Signed(l, HALF)
           k == -1
<1>2. x = l \/ x = l + k * HALF
  BY <1>1, SMT DEF Signed
<1>3. x \in Int /\ l \in Int /\ k \in Int
  BY <1>1, <1>2, SMT
<1> HIDE DEF k
<1>4. (l + k * HALF) % HALF = l % HALF
  BY <1>1, <1>3, RemainderShift
<1>5. x % HALF = l % HALF
  BY <1>2, <1>4
<1>6. Lui(l) = x % (HALF * HALF)
  BY DEF Lui, XLEN
<1> HIDE DEF x
<1>7. x % (HALF * HALF) \in Nat /\ (x % (HALF * HALF)) % HALF = x % HALF
  BY <1>1, <1>3, RemainderOfMultiple
<1>8. x % (HALF * HALF) \in Words
  BY <1>1, <1>3, InWords
<1> QED
  BY <1>5, <1>6, <1>7, <1>8

\* What LUI and ADDI leave is the half, below the bits of the sign extensions.
LEMMA HalfRestored ==
  ASSUME NEW half \in Nat, half < HALF
  PROVE  /\ Register(half) \in Words /\ Register(half) % HALF = half
         /\ Lui(lui_imm_field(half)) \in Words
<1> DEFINE r == half % IMM
           l == lui_imm_field(half)
           a == addi_imm_field(half)
           s == Signed(a % IMM, IMM)
           h == IMM \div 2
<1>1. PICK m \in 1 .. HALF : HALF = m * IMM
  BY WidthAssumption
<1>2. /\ HALF \in Nat /\ HALF > 0 /\ IMM \in Nat /\ IMM > 0
      /\ m \in Nat /\ m > 0
      /\ h \in Nat /\ h > 0 /\ IMM = 2 * h
  BY <1>1, WidthAssumption, SMT
<1>3. r \in Nat /\ r < IMM /\ r <= half
  BY <1>2, Remainder, SMT
<1>4. l \in Nat /\ s \in Int /\ (l + s) % HALF = half
  <2>1. CASE r > h - 1
    <3>1. l = (half - r + IMM) % HALF /\ a = (r - IMM) % HALF
      BY <2>1, <1>2, <1>3, SMT DEF lui_imm_field, addi_imm_field
    <3>2. a \in Nat /\ a % IMM = (r - IMM) % IMM
      <4> DEFINE d == r - IMM
      <4>1. d \in Int
        BY <1>2, <1>3, SMT
      <4> HIDE DEF d
      <4>2. d % (m * IMM) \in Nat /\ (d % (m * IMM)) % IMM = d % IMM
        BY <4>1, <1>2, RemainderOfMultiple
      <4> QED
        BY <4>2, <1>1, <3>1 DEF d
    <3>3. (r + (-1) * IMM) % IMM = r
      BY <1>2, <1>3, RemainderUnique
    <3>4. a % IMM = r
      BY <3>2, <3>3, <1>2, <1>3, SMT
    <3>5. s = r - IMM
      BY <3>4, <2>1, <1>2, <1>3, SMT DEF Signed
    <3>6. l \in Nat /\ \E k \in Int : half - r + IMM = l + k * HALF
      BY <3>1, <1>2, <1>3, Remainder
    <3>7. PICK k \in Int : half - r + IMM = l + k * HALF
      BY <3>6
    <3>8. -k \in Int /\ l + s = half + (-k) * HALF
      BY <3>5, <3>6, <3>7, <1>2, <1>3, SMT
    <3>9. (half + (-k) * HALF) % HALF = half
      BY <3>8, <1>2, RemainderUnique
    <3> QED
      BY <3>5, <3>6, <3>8, <3>9, <1>2, <1>3, SMT
  <2>2. CASE ~ (r > h - 1)
    <3>1. l = half - r /\ a = r
      BY <2>2, <1>2, <1>3, SMT DEF lui_imm_field, addi_imm_field
    <3>2. s = r
      BY <3>1, <2>2, <1>2, <1>3, SMT DEF Signed
    <3> QED
      BY <3>1, <3>2, <1>2, <1>3, SMT
  <2> QED
    BY <2>1, <2>2
<1>5. Register(half) = (Lui(l) + s) % (HALF * HALF)
  BY DEF Register, Addi, XLEN
<1> DEFINE x == Lui(l) + s
<1> HIDE DEF l, a, s
<1>6. Lui(l) \in Words /\ Lui(l) % HALF = l % HALF
  BY <1>4, LuiLow
<1>7. x \in Int /\ x % HALF = half
  <2> DEFINE z == Lui(l)
  <2>1. /\ HALF \in Nat /\ HALF > 0
        /\ l \in Int /\ s \in Int /\ z \in Int /\ z % HALF = l % HALF /\ z + s \in Int
    BY <1>2, <1>4, <1>6, SMT DEF Words
  <2> HIDE DEF z
  <2>2. (z + s) % HALF = (l + s) % HALF
    BY <2>1, RemainderSum, ZenonT(60)
  <2> QED
    BY <1>4, <2>1, <2>2 DEF z
<1> HIDE DEF x
<1>8. x % (HALF * HALF) \in Nat /\ (x % (HALF * HALF)) % HALF = x % HALF
  BY <1>2, <1>7, RemainderOfMultiple
<1>9. x % (HALF * HALF) \in Words
  BY <1>7, InWords
<1> QED
  BY <1>5, <1>6, <1>7, <1>8, <1>9 DEF x, l

\* SLLI drops the bits of the sign extensions from the upper half.
LEMMA UpperShifted ==
  ASSUME NEW u \in Nat, u < HALF
  PROVE  (Register(u) * HALF) % XLEN = u * HALF
<1>1. HALF \in Nat /\ HALF > 0
  BY WidthAssumption, SMT
<1>2. Register(u) \in Words /\ Register(u) % HALF = u
  BY HalfRestored
<1>3. PICK k \in Int : Register(u) = u + k * HALF
  <2> DEFINE z == Register(u)
  <2>1. z \in Int
    BY <1>2, SMT DEF Words
  <2> HIDE DEF z
  <2>2. \E k \in Int : z = (z % HALF) + k * HALF
    BY <1>1, <2>1, Remainder
  <2> QED
    BY <1>2, <2>2 DEF z
<1>4. /\ HALF * HALF \in Nat /\ HALF * HALF > 0
      /\ u * HALF \in Nat /\ u * HALF < HALF * HALF
      /\ Register(u) * HALF = u * HALF + k * (HALF * HALF)
  BY <1>1, <1>3, SMT
<1> DEFINE N == HALF * HALF
           r == u * HALF
<1> HIDE DEF N, r
<1>5. (r + k * N) % N = r
  BY <1>4, RemainderUnique DEF N, r
<1> QED
  BY <1>4, <1>5 DEF N, r, XLEN

\* The halves of an address.
LEMMA Halves ==
  ASSUME NEW d \in Nat, d < XLEN
  PROVE  /\ d \div HALF \in Nat /\ d \div HALF < HALF
         /\ d % HALF \in Nat /\ d % HALF < HALF
         /\ d = (d \div HALF) * HALF + (d % HALF)
<1> DEFINE u == d \div HALF
           v == d % HALF
<1>1. HALF \in Nat /\ HALF > 0
  BY WidthAssumption, SMT
<1>2. u \in Int /\ v \in Nat /\ v < HALF
  BY <1>1, SMT
<1>3. d - HALF * u = v
  BY <1>1, <1>2, SMT
<1>4. d = u * HALF + v
  BY <1>1, <1>2, <1>3, SMT
<1>5. u \in Nat /\ u < HALF
  BY <1>1, SMT DEF XLEN
<1> QED
  BY <1>2, <1>4, <1>5

\* The trampoline puts the address of asm_syscall_hook together again from the
\* two halves that setup_shadow_page_trampoline encodes, whatever the address:
\* with registers of 64 bits and immediates of 12 as well as with those of TLC.
THEOREM AddressRestored ==
  ASSUME NEW d \in Nat, d < XLEN
  PROVE  Joined(d) = d
<1> DEFINE u == d \div HALF
           v == d % HALF
<1>1. /\ u \in Nat /\ u < HALF /\ v \in Nat /\ v < HALF
      /\ d = u * HALF + v
  BY Halves
<1> HIDE DEF u, v
<1>2. (Register(u) * HALF) % XLEN = u * HALF
  BY <1>1, UpperShifted
<1>3. Register(v) % HALF = v
  BY <1>1, HalfRestored
<1> QED
  BY <1>1, <1>2, <1>3 DEF Joined, u, v

-----------------------------------------------------------------------------
(***************************************************************************)
(* The values on the way to the mask.                                      *)
(***************************************************************************)

\* How far a multiple of p may go.
LEMMA Quotient ==
  ASSUME NEW p \in Nat, p > 0, NEW k \in Nat, NEW n \in Nat, (k + 1) * p <= n
  PROVE  k \in 0 .. (n \div p) - 1
<1> DEFINE q == n \div p
<1>1. q \in Nat /\ n < (q + 1) * p
  BY SMT
<1> HIDE DEF q
<1>2. (k + 1) * p < (q + 1) * p
  BY <1>1, SMT
<1>3. k + 1 < q + 1
  BY <1>1, <1>2, SMT
<1> QED
  BY <1>1, <1>3 DEF q

\* OR adds what does not overlap.
LEMMA OrAdds ==
  ASSUME NEW p \in {2, IMM, HALF}, NEW k \in Nat, NEW y \in 0 .. p - 1,
         (k + 1) * p <= XLEN
  PROVE  BitOr(k * p, y) = k * p + y
<1>1. p \in Nat /\ p > 0 /\ XLEN \in Nat
  BY WidthAssumption, SMT DEF XLEN
<1>2. k \in 0 .. (XLEN \div p) - 1
  BY <1>1, Quotient
<1> QED
  BY <1>2, BitsAssumption

\* The widths: an immediate is h * 2, half an address m * 2 immediates.
LEMMA Widths ==
  \E m \in Nat, h \in Nat :
    /\ m > 0 /\ h > 0
    /\ IMM = 2 * h /\ IMM \div 2 = h
    /\ HALF = 2 * (m * IMM) /\ HALF \div 2 = m * IMM
    /\ IMM \in Nat /\ IMM > 1 /\ HALF \in Nat /\ HALF >= 2 * IMM
    /\ XLEN = HALF * HALF /\ XLEN \in Nat /\ XLEN >= 2 * HALF
<1> DEFINE h == IMM \div 2
<1>1. IMM \in Nat /\ HALF \in Nat /\ h \in Nat /\ h > 0 /\ IMM = 2 * h
  BY WidthAssumption, SMT
<1>2. PICK m \in 1 .. HALF : HALF = 2 * m * IMM
  BY BitsAssumption
<1> HIDE DEF h
<1>3. m \in Nat /\ m > 0 /\ m * IMM \in Nat /\ HALF = 2 * (m * IMM)
  BY <1>1, <1>2, SMT
<1>4. m * IMM >= IMM
  BY <1>1, <1>3, SMT
<1>5. HALF \div 2 = m * IMM
  <2> DEFINE z == m * IMM
  <2> HIDE DEF z
  <2>1. z \in Nat /\ HALF = 2 * z
    BY <1>3 DEF z
  <2>2. HALF \div 2 = z
    BY <2>1, SMT
  <2> QED
    BY <2>2 DEF z
<1>6. HALF >= 2 * IMM /\ IMM > 1 /\ HALF >= 2
  BY <1>1, <1>3, <1>4, SMT
<1>7. HALF * HALF \in Nat /\ HALF * HALF >= 2 * HALF
  BY <1>1, <1>6, SMT
<1> QED
  BY <1>1, <1>3, <1>5, <1>6, <1>7 DEF h, XLEN

\* t1 becomes 0x7ffff000 and t2 0xfff; together they are 0x7fffffff, which is
\* shifted to 0xfffffffe and completed.
LEMMA MaskValues ==
  /\ Lui(HALF \div 2 - IMM) = HALF \div 2 - IMM
  /\ BitOr(0, IMM \div 2 - 1) = IMM \div 2 - 1
  /\ ((IMM \div 2 - 1) * 2) % XLEN = IMM - 2
  /\ BitOr(IMM - 2, 1) = IMM - 1
  /\ BitOr(HALF \div 2 - IMM, IMM - 1) = HALF \div 2 - 1
  /\ ((HALF \div 2 - 1) * 2) % XLEN = HALF - 2
  /\ BitOr(HALF - 2, 1) = HALF - 1
<1>1. PICK m \in Nat, h \in Nat :
    /\ m > 0 /\ h > 0
    /\ IMM = 2 * h /\ IMM \div 2 = h
    /\ HALF = 2 * (m * IMM) /\ HALF \div 2 = m * IMM
    /\ IMM \in Nat /\ IMM > 1 /\ HALF \in Nat /\ HALF >= 2 * IMM
    /\ XLEN = HALF * HALF /\ XLEN \in Nat /\ XLEN >= 2 * HALF
  BY Widths
<1> DEFINE z == m * IMM
<1>2. z \in Nat /\ z >= IMM /\ HALF = 2 * z /\ HALF \div 2 = z
  BY <1>1, SMT
<1>3. (m - 1) * IMM = z - IMM /\ m - 1 \in Nat
  BY <1>1, SMT
<1> HIDE DEF z
<1>4. Lui(HALF \div 2 - IMM) = HALF \div 2 - IMM
  <2>1. Signed(z - IMM, HALF) = z - IMM
    BY <1>1, <1>2, SMT DEF Signed
  <2>2. z - IMM \in Nat /\ z - IMM < XLEN
    BY <1>1, <1>2, SMT
  <2>3. (z - IMM) % XLEN = z - IMM
    BY <2>2, <1>1, SMT
  <2> QED
    BY <2>1, <2>3, <1>2 DEF Lui
<1>5. BitOr(0, IMM \div 2 - 1) = IMM \div 2 - 1
  <2>1. h - 1 \in 0 .. HALF - 1 /\ (0 + 1) * HALF <= XLEN /\ 0 * HALF = 0
    BY <1>1, SMT
  <2>2. BitOr(0 * HALF, h - 1) = 0 * HALF + (h - 1)
    BY <2>1, OrAdds
  <2> QED
    BY <2>1, <2>2, <1>1, SMT
<1>6. BitOr(IMM - 2, 1) = IMM - 1
  <2>1. h - 1 \in Nat /\ ((h - 1) + 1) * 2 <= XLEN /\ 1 \in 0 .. 2 - 1
    BY <1>1, SMT
  <2>2. BitOr((h - 1) * 2, 1) = (h - 1) * 2 + 1
    BY <2>1, OrAdds
  <2>3. (h - 1) * 2 = IMM - 2
    BY <1>1, SMT
  <2> QED
    BY <2>2, <2>3, <1>1, SMT
<1>7. BitOr(HALF \div 2 - IMM, IMM - 1) = HALF \div 2 - 1
  <2>1. ((m - 1) + 1) * IMM <= XLEN /\ IMM - 1 \in 0 .. IMM - 1
    <3>1. ((m - 1) + 1) * IMM = z
      BY <1>1, SMT DEF z
    <3> QED
      BY <3>1, <1>1, <1>2, SMT
  <2>2. BitOr((m - 1) * IMM, IMM - 1) = (m - 1) * IMM + (IMM - 1)
    BY <1>3, <2>1, OrAdds
  <2> QED
    BY <2>2, <1>1, <1>2, <1>3, SMT
<1>8. BitOr(HALF - 2, 1) = HALF - 1
  <2>1. z - 1 \in Nat /\ ((z - 1) + 1) * 2 <= XLEN /\ 1 \in 0 .. 2 - 1
    BY <1>1, <1>2, SMT
  <2>2. BitOr((z - 1) * 2, 1) = (z - 1) * 2 + 1
    BY <2>1, OrAdds
  <2>3. (z - 1) * 2 = HALF - 2
    BY <1>2, SMT
  <2> QED
    BY <2>2, <2>3, <1>1, SMT
<1>9. ((IMM \div 2 - 1) * 2) % XLEN = IMM - 2
  <2>1. (h - 1) * 2 = IMM - 2 /\ IMM - 2 \in Nat /\ IMM - 2 < XLEN
    BY <1>1, SMT
  <2>2. (IMM - 2) % XLEN = IMM - 2
    BY <2>1, <1>1, SMT
  <2> QED
    BY <2>1, <2>2, <1>1
<1>10. ((HALF \div 2 - 1) * 2) % XLEN = HALF - 2
  <2>1. (z - 1) * 2 = HALF - 2 /\ HALF - 2 \in Nat /\ HALF - 2 < XLEN
    BY <1>1, <1>2, SMT
  <2>2. (HALF - 2) % XLEN = HALF - 2
    BY <2>1, <1>1, SMT
  <2> QED
    BY <2>1, <2>2, <1>2
<1> QED
  BY <1>4, <1>5, <1>6, <1>7, <1>8, <1>9, <1>10

\* AND and OR join the halves of an address.
LEMMA JoinValues ==
  ASSUME NEW d \in Words
  PROVE  /\ (Register(d \div HALF) * HALF) % XLEN = (d \div HALF) * HALF
         /\ BitAnd(Register(d % HALF), HALF - 1) = d % HALF
         /\ BitOr((d \div HALF) * HALF, d % HALF) = d
<1> DEFINE u == d \div HALF
           v == d % HALF
<1>1. /\ u \in Nat /\ u < HALF /\ v \in Nat /\ v < HALF
      /\ d = u * HALF + v
  BY Halves, Widths, SMT DEF Words
<1> HIDE DEF u, v
<1>2. HALF \in Nat /\ HALF > 0 /\ XLEN = HALF * HALF /\ XLEN \in Nat /\ XLEN > 0
  BY Widths, SMT
<1>3. (Register(u) * HALF) % XLEN = u * HALF
  BY <1>1, UpperShifted
<1>4. Register(v) \in Words /\ Register(v) % HALF = v
  BY <1>1, HalfRestored
<1>5. BitAnd(Register(v), HALF - 1) = v
  BY <1>4, BitsAssumption
<1>6. BitOr(u * HALF, v) = u * HALF + v
  <2>1. (u + 1) * HALF <= XLEN /\ v \in 0 .. HALF - 1
    BY <1>1, <1>2, SMT
  <2> QED
    BY <1>1, <2>1, OrAdds
<1> QED
  BY <1>1, <1>3, <1>5, <1>6 DEF u, v

-----------------------------------------------------------------------------
(***************************************************************************)
(* The code.                                                               *)
(***************************************************************************)

\* The words that setup_shadow_page_trampoline writes, one by one.
LEMMA TrampolineWords ==
  /\ DOMAIN Trampoline = 1 .. 20 /\ Len(Trampoline) = 20
  /\ Trampoline[1] = Instr("addi", "sp", "sp", -304)
  /\ Trampoline[2] = Instr("sd", "t0", "sp", 0)
  /\ Trampoline[3] = Instr("sd", "t1", "sp", 8)
  /\ Trampoline[4] = Instr("sd", "t2", "sp", 16)
  /\ Trampoline[5] = Instr("sd", "t3", "sp", 24)
  /\ Trampoline[6] = Instr("lui", "t0", "t0", lui_imm_field(dst \div HALF))
  /\ Trampoline[7] = Instr("addi", "t0", "t0", addi_imm_field(dst \div HALF))
  /\ Trampoline[8] = Instr("slli", "t0", "t0", HALF)
  /\ Trampoline[9] = Instr("lui", "t3", "t3", lui_imm_field(dst % HALF))
  /\ Trampoline[10] = Instr("addi", "t3", "t3", addi_imm_field(dst % HALF))
  /\ Trampoline[11] = Instr("lui", "t1", "t1", HALF \div 2 - IMM)
  /\ Trampoline[12] = Instr("ori", "t2", "zero", IMM \div 2 - 1)
  /\ Trampoline[13] = Instr("slli", "t2", "t2", 2)
  /\ Trampoline[14] = Instr("ori", "t2", "t2", 1)
  /\ Trampoline[15] = Instr("or", "t1", "t1", "t2")
  /\ Trampoline[16] = Instr("slli", "t1", "t1", 2)
  /\ Trampoline[17] = Instr("ori", "t1", "t1", 1)
  /\ Trampoline[18] = Instr("and", "t3", "t3", "t1")
  /\ Trampoline[19] = Instr("or", "t0", "t0", "t3")
  /\ Trampoline[20] = Instr("jalr", "zero", "t0", 0)
  BY DEF Trampoline, Spill, LoadHalf, Mask, Join

\* The instructions of syscall_no_intercept.
LEMMA CallWords ==
  /\ DOMAIN syscall_no_intercept = 1 .. 9 /\ Len(syscall_no_intercept) = 9
  /\ syscall_no_intercept[1] = Instr("mv", "a7", "a0", 0)
  /\ syscall_no_intercept[2] = Instr("mv", "a0", "a1", 0)
  /\ syscall_no_intercept[3] = Instr("mv", "a1", "a2", 0)
  /\ syscall_no_intercept[4] = Instr("mv", "a2", "a3", 0)
  /\ syscall_no_intercept[5] = Instr("mv", "a3", "a4", 0)
  /\ syscall_no_intercept[6] = Instr("mv", "a4", "a5", 0)
  /\ syscall_no_intercept[7] = Instr("mv", "a5", "a6", 0)
  /\ syscall_no_intercept[8] = Instr("ecall", "a0", "a0", 0)
  /\ syscall_no_intercept[9] = Instr("jalr", "zero", "ra", 0)
  BY DEF syscall_no_intercept

\* The two codes are different, and neither is empty.
LEMMA CodesDiffer ==
  /\ << >> # Trampoline /\ << >> # syscall_no_intercept
  /\ Trampoline # syscall_no_intercept
<1>1. ASSUME NEW s, NEW t, Len(s) # Len(t) PROVE s # t
  BY <1>1, Zenon
<1>2. Len(<< >>) # Len(Trampoline)
  BY TrampolineWords
<1>3. Len(<< >>) # Len(syscall_no_intercept)
  BY CallWords
<1>4. Len(Trampoline) # Len(syscall_no_intercept)
  BY TrampolineWords, CallWords
<1> QED
  BY <1>1, <1>2, <1>3, <1>4, Zenon

-----------------------------------------------------------------------------
(***************************************************************************)
(* The inductive invariant: the registers before word pc.                  *)
(***************************************************************************)
Temporaries == {"t0", "t1", "t2", "t3"}

\* Nothing has been executed.
Entered == /\ regs = entry /\ pc = 1 /\ target = -1 /\ asked = << >>
           /\ stack = [a \in {} |-> 0]

\* The registers of the interrupted code, in place or in the frame.
SavedRegisters ==
  /\ \A r \in Registers \ (Temporaries \cup {"sp"}) : regs[r] = entry[r]
  /\ regs["sp"] = IF pc = 1 THEN entry["sp"] ELSE entry["sp"] - 304
  /\ pc <= 6 => \A r \in Temporaries : regs[r] = entry[r]
  /\ pc > 2 => regs["sp"] \in DOMAIN stack /\ stack[regs["sp"]] = entry["t0"]
  /\ pc > 3 => regs["sp"] + 8 \in DOMAIN stack /\ stack[regs["sp"] + 8] = entry["t1"]
  /\ pc > 4 => regs["sp"] + 16 \in DOMAIN stack /\ stack[regs["sp"] + 16] = entry["t2"]
  /\ pc > 5 => regs["sp"] + 24 \in DOMAIN stack /\ stack[regs["sp"] + 24] = entry["t3"]

\* The upper half of the address in t0, then all of it.
UpperHalf ==
  LET half == dst \div HALF IN
  /\ pc = 7 => regs["t0"] = Lui(lui_imm_field(half))
  /\ pc = 8 => regs["t0"] = Register(half)
  /\ pc \in 9 .. 19 => regs["t0"] = half * HALF
  /\ pc = 20 => regs["t0"] = dst

\* The lower half in t3.
LowerHalf ==
  LET half == dst % HALF IN
  /\ pc \in 7 .. 9 => regs["t3"] = entry["t3"]
  /\ pc = 10 => regs["t3"] = Lui(lui_imm_field(half))
  /\ pc \in 11 .. 18 => regs["t3"] = Register(half)
  /\ pc \in 19 .. 20 => regs["t3"] = half

\* The mask in t1, which becomes 0xffffffff, with the help of t2.
MaskBits ==
  /\ pc \in 7 .. 11 => regs["t1"] = entry["t1"]
  /\ pc \in 12 .. 15 => regs["t1"] = HALF \div 2 - IMM
  /\ pc = 16 => regs["t1"] = HALF \div 2 - 1
  /\ pc = 17 => regs["t1"] = HALF - 2
  /\ pc \in 18 .. 20 => regs["t1"] = HALF - 1
  /\ pc \in 7 .. 12 => regs["t2"] = entry["t2"]
  /\ pc = 13 => regs["t2"] = IMM \div 2 - 1
  /\ pc = 14 => regs["t2"] = IMM - 2
  /\ pc \in 15 .. 20 => regs["t2"] = IMM - 1

InsideTrampoline ==
  /\ words = Trampoline /\ asked = << >>
  /\ pc \in 1 .. 20
  /\ target = -1 \/ (pc = 20 /\ target = dst)
  /\ SavedRegisters /\ UpperHalf /\ LowerHalf /\ MaskBits

\* After which instruction of syscall_no_intercept a register has been set.
SetBy == [a7 |-> 1, a0 |-> 2, a1 |-> 3, a2 |-> 4, a3 |-> 5, a4 |-> 6, a5 |-> 7]

\* Each register is set after it was read, and the kernel is shown the result.
InsideCall ==
  /\ words = syscall_no_intercept
  /\ pc \in 1 .. 9
  /\ \A r \in Registers \ DOMAIN PassedIn : regs[r] = entry[r]
  /\ pc <= 8 =>
       /\ asked = << >>
       /\ \A r \in DOMAIN PassedIn :
            regs[r] = IF SetBy[r] < pc THEN entry[PassedIn[r]] ELSE entry[r]
  /\ pc = 9 =>
       /\ DOMAIN asked = Registers
       /\ \A r \in DOMAIN PassedIn : asked[r] = entry[PassedIn[r]]
       /\ \A r \in DOMAIN PassedIn : regs[r] \in Words
       /\ regs["a0"] \in Answers
  /\ target = -1 \/ (pc = 9 /\ target = entry["ra"])

IInv ==
  /\ entry \in InitialRegisters
  /\ DOMAIN regs = Registers
  /\ dst \in Words /\ dst % 2 = 0
  /\ (words = << >> /\ Entered) \/ InsideTrampoline \/ InsideCall

-----------------------------------------------------------------------------
(***************************************************************************)
(* The kinds of instructions.                                              *)
(***************************************************************************)

\* register rd has got value v
Computed(rd, v) ==
  /\ regs' = [regs EXCEPT ![rd] = v]
  /\ pc' = pc + 1
  /\ UNCHANGED <<dst, words, entry, stack, target, asked>>

\* An instruction that computes a value.
LEMMA Computes ==
  ASSUME Execute, NEW op, op \notin {"sd", "jalr", "ecall"}, NEW rd, NEW rs1, NEW operand,
         words[pc] = Instr(op, rd, rs1, operand)
  PROVE  Computed(rd, Value(words[pc]))
  BY DEF Execute, Computed, Instr

\* An instruction that stores.
LEMMA StoresWord ==
  ASSUME Execute, NEW rd, NEW operand, words[pc] = Instr("sd", rd, "sp", operand)
  PROVE  /\ stack' = [a \in DOMAIN stack \cup {regs["sp"] + operand} |->
                        IF a = regs["sp"] + operand THEN regs[rd] ELSE stack[a]]
         /\ pc' = pc + 1
         /\ UNCHANGED <<dst, words, entry, regs, target, asked>>
  BY DEF Execute, Instr

\* The jump at the end.
LEMMA JumpsOff ==
  ASSUME Execute, NEW rs1, words[pc] = Instr("jalr", "zero", rs1, 0)
  PROVE  /\ target = -1
         /\ target' = regs[rs1] - (regs[rs1] % 2)
         /\ UNCHANGED <<dst, words, entry, regs, stack, pc, asked>>
  BY DEF Execute, Instr

\* The system call.
LEMMA AsksKernel ==
  ASSUME Execute, words[pc] = Instr("ecall", "a0", "a0", 0)
  PROVE  /\ asked' = regs
         /\ \E answer \in Answers : regs' = [regs EXCEPT !["a0"] = answer]
         /\ pc' = pc + 1
         /\ UNCHANGED <<dst, words, entry, stack, target>>
  BY DEF Execute, Instr

\* What the instructions compute.
LEMMA Values ==
  ASSUME NEW rd, NEW rs1, NEW operand
  PROVE  /\ Value(Instr("lui", rd, rs1, operand)) = Lui(operand)
         /\ rd # "sp" => Value(Instr("addi", rd, rs1, operand)) = Addi(regs[rs1], operand)
         /\ rd = "sp" => Value(Instr("addi", rd, rs1, operand)) = regs[rs1] + operand
         /\ Value(Instr("slli", rd, rs1, operand)) = (regs[rs1] * operand) % XLEN
         /\ Value(Instr("mv", rd, rs1, operand)) = regs[rs1]
         /\ Value(Instr("ori", rd, rs1, operand)) = BitOr(regs[rs1], operand)
         /\ Value(Instr("or", rd, rs1, operand)) = BitOr(regs[rs1], regs[operand])
         /\ Value(Instr("and", rd, rs1, operand)) = BitAnd(regs[rs1], regs[operand])
  BY DEF Value, Instr

-----------------------------------------------------------------------------
(***************************************************************************)
(* The trampoline.                                                         *)
(***************************************************************************)

\* the halves, the mask, and the saved registers
Contents == SavedRegisters /\ UpperHalf /\ LowerHalf /\ MaskBits

\* Before the registers are used, only the frame is filled.
LEMMA StepSpill ==
  ASSUME IInv, InsideTrampoline, Execute, pc \in 1 .. 5
  PROVE  Contents' /\ pc' = pc + 1
         /\ UNCHANGED <<dst, words, entry, target, asked>> /\ DOMAIN regs' = Registers
<1>1. entry["sp"] \in Int /\ DOMAIN regs = Registers
  BY RegistersAssumption DEF IInv
<1>2. words = Trampoline /\ SavedRegisters
  BY DEF InsideTrampoline
<1>3. CASE pc = 1
  <2>1. words[pc] = Instr("addi", "sp", "sp", -304)
    BY <1>2, <1>3, TrampolineWords
  <2>2. Computed("sp", entry["sp"] - 304)
    BY <2>1, <1>1, <1>2, <1>3, Computes, Values DEF SavedRegisters
  <2>3. pc' = 2
    BY <2>2, <1>3 DEF Computed
  <2>4. SavedRegisters'
    BY <2>2, <2>3, <1>1, <1>2, <1>3 DEF Computed, SavedRegisters, Registers, Temporaries
  <2> QED
    BY <2>2, <2>3, <2>4, <1>1, <1>3 DEF Computed, Contents, UpperHalf, LowerHalf, MaskBits
<1>4. CASE pc \in 2 .. 5
  <2> DEFINE r == CASE pc = 2 -> "t0" [] pc = 3 -> "t1" [] pc = 4 -> "t2" [] OTHER -> "t3"
             o == 8 * (pc - 2)
             s == regs["sp"]
  <2>1. words[pc] = Instr("sd", r, "sp", o)
    BY <1>2, <1>4, TrampolineWords
  <2>2. /\ stack' = [a \in DOMAIN stack \cup {s + o} |->
                       IF a = s + o THEN regs[r] ELSE stack[a]]
        /\ pc' = pc + 1
        /\ UNCHANGED <<dst, words, entry, regs, target, asked>>
    BY <2>1, StoresWord
  <2>3. s \in Int /\ regs[r] = entry[r]
    BY <1>1, <1>2, <1>4 DEF SavedRegisters, Temporaries
  <2>4. SavedRegisters'
    BY <2>2, <2>3, <1>2, <1>4 DEF SavedRegisters
  <2>5. UpperHalf' /\ LowerHalf' /\ MaskBits'
    BY <2>2, <1>2, <1>4 DEF SavedRegisters, Temporaries, UpperHalf, LowerHalf, MaskBits
  <2> QED
    BY <2>2, <2>4, <2>5, <1>1 DEF Contents
<1> QED
  BY <1>3, <1>4

\* The caller's registers stay saved while the temporaries are used.
LEMMA SavedKept ==
  ASSUME SavedRegisters, DOMAIN regs = Registers, pc \in 6 .. 19,
         NEW rd \in Temporaries, NEW v, Computed(rd, v)
  PROVE  SavedRegisters'
<1>1. /\ \A r \in Registers \ Temporaries : regs'[r] = regs[r]
      /\ pc' = pc + 1 /\ stack' = stack /\ entry' = entry
  BY DEF Computed, Temporaries
<1>2. "sp" \in Registers \ Temporaries
  BY DEF Registers, Temporaries
<1> QED
  BY <1>1, <1>2 DEF SavedRegisters

\* An instruction that puts value v into the temporary rd.
LEMMA Becomes ==
  ASSUME DOMAIN regs = Registers, NEW rd \in Temporaries, NEW v, Computed(rd, v)
  PROVE  /\ regs'[rd] = v /\ \A r \in Temporaries \ {rd} : regs'[r] = regs[r]
         /\ DOMAIN regs' = Registers
         /\ pc' = pc + 1
         /\ UNCHANGED <<dst, words, entry, target, asked>>
  BY DEF Computed, Temporaries, Registers

\* What each of the words 6 to 19 puts into which register.
LEMMA WordsCompute ==
  ASSUME IInv, InsideTrampoline, Execute
  PROVE
    /\ pc = 6 => Computed("t0", Lui(lui_imm_field(dst \div HALF)))
    /\ pc = 7 => Computed("t0", Register(dst \div HALF))
    /\ pc = 8 => Computed("t0", (dst \div HALF) * HALF)
    /\ pc = 9 => Computed("t3", Lui(lui_imm_field(dst % HALF)))
    /\ pc = 10 => Computed("t3", Register(dst % HALF))
    /\ pc = 11 => Computed("t1", HALF \div 2 - IMM)
    /\ pc = 12 => Computed("t2", IMM \div 2 - 1)
    /\ pc = 13 => Computed("t2", IMM - 2)
    /\ pc = 14 => Computed("t2", IMM - 1)
    /\ pc = 15 => Computed("t1", HALF \div 2 - 1)
    /\ pc = 16 => Computed("t1", HALF - 2)
    /\ pc = 17 => Computed("t1", HALF - 1)
    /\ pc = 18 => Computed("t3", dst % HALF)
    /\ pc = 19 => Computed("t0", dst)
<1>1. words = Trampoline /\ UpperHalf /\ LowerHalf /\ MaskBits /\ dst \in Words
  BY DEF InsideTrampoline, IInv
<1>2. regs["zero"] = 0
  BY RegistersAssumption DEF InsideTrampoline, SavedRegisters, IInv, Registers, Temporaries
<1>6. CASE pc = 6
  <2>1. words[pc] = Instr("lui", "t0", "t0", lui_imm_field(dst \div HALF))
    BY <1>1, <1>6, TrampolineWords
  <2>2. Value(words[pc]) = Lui(lui_imm_field(dst \div HALF))
    BY <2>1, <1>1, <1>6, Values DEF UpperHalf, LowerHalf, MaskBits
  <2> QED
    BY <2>1, <2>2, <1>6, Computes
<1>7. CASE pc = 7
  <2>1. words[pc] = Instr("addi", "t0", "t0", addi_imm_field(dst \div HALF))
    BY <1>1, <1>7, TrampolineWords
  <2>2. Value(words[pc]) = Register(dst \div HALF)
    BY <2>1, <1>1, <1>7, Values DEF UpperHalf, LowerHalf, MaskBits, Register
  <2> QED
    BY <2>1, <2>2, <1>7, Computes
<1>8. CASE pc = 8
  <2>1. words[pc] = Instr("slli", "t0", "t0", HALF)
    BY <1>1, <1>8, TrampolineWords
  <2>2. Value(words[pc]) = (dst \div HALF) * HALF
    BY <2>1, <1>1, <1>8, Values, JoinValues DEF UpperHalf, LowerHalf, MaskBits
  <2> QED
    BY <2>1, <2>2, <1>8, Computes
<1>9. CASE pc = 9
  <2>1. words[pc] = Instr("lui", "t3", "t3", lui_imm_field(dst % HALF))
    BY <1>1, <1>9, TrampolineWords
  <2>2. Value(words[pc]) = Lui(lui_imm_field(dst % HALF))
    BY <2>1, <1>1, <1>9, Values DEF UpperHalf, LowerHalf, MaskBits
  <2> QED
    BY <2>1, <2>2, <1>9, Computes
<1>10. CASE pc = 10
  <2>1. words[pc] = Instr("addi", "t3", "t3", addi_imm_field(dst % HALF))
    BY <1>1, <1>10, TrampolineWords
  <2>2. Value(words[pc]) = Register(dst % HALF)
    BY <2>1, <1>1, <1>10, Values DEF UpperHalf, LowerHalf, MaskBits, Register
  <2> QED
    BY <2>1, <2>2, <1>10, Computes
<1>11. CASE pc = 11
  <2>1. words[pc] = Instr("lui", "t1", "t1", HALF \div 2 - IMM)
    BY <1>1, <1>11, TrampolineWords
  <2>2. Value(words[pc]) = HALF \div 2 - IMM
    BY <2>1, <1>1, <1>11, Values, MaskValues DEF UpperHalf, LowerHalf, MaskBits
  <2> QED
    BY <2>1, <2>2, <1>11, Computes
<1>12. CASE pc = 12
  <2>1. words[pc] = Instr("ori", "t2", "zero", IMM \div 2 - 1)
    BY <1>1, <1>12, TrampolineWords
  <2>2. Value(words[pc]) = IMM \div 2 - 1
    BY <2>1, <1>2, Values, MaskValues
  <2> QED
    BY <2>1, <2>2, <1>12, Computes
<1>13. CASE pc = 13
  <2>1. words[pc] = Instr("slli", "t2", "t2", 2)
    BY <1>1, <1>13, TrampolineWords
  <2>2. Value(words[pc]) = IMM - 2
    BY <2>1, <1>1, <1>13, Values, MaskValues DEF UpperHalf, LowerHalf, MaskBits
  <2> QED
    BY <2>1, <2>2, <1>13, Computes
<1>14. CASE pc = 14
  <2>1. words[pc] = Instr("ori", "t2", "t2", 1)
    BY <1>1, <1>14, TrampolineWords
  <2>2. Value(words[pc]) = IMM - 1
    BY <2>1, <1>1, <1>14, Values, MaskValues DEF UpperHalf, LowerHalf, MaskBits
  <2> QED
    BY <2>1, <2>2, <1>14, Computes
<1>15. CASE pc = 15
  <2>1. words[pc] = Instr("or", "t1", "t1", "t2")
    BY <1>1, <1>15, TrampolineWords
  <2>2. Value(words[pc]) = HALF \div 2 - 1
    BY <2>1, <1>1, <1>15, Values, MaskValues DEF UpperHalf, LowerHalf, MaskBits
  <2> QED
    BY <2>1, <2>2, <1>15, Computes
<1>16. CASE pc = 16
  <2>1. words[pc] = Instr("slli", "t1", "t1", 2)
    BY <1>1, <1>16, TrampolineWords
  <2>2. Value(words[pc]) = HALF - 2
    BY <2>1, <1>1, <1>16, Values, MaskValues DEF UpperHalf, LowerHalf, MaskBits
  <2> QED
    BY <2>1, <2>2, <1>16, Computes
<1>17. CASE pc = 17
  <2>1. words[pc] = Instr("ori", "t1", "t1", 1)
    BY <1>1, <1>17, TrampolineWords
  <2>2. Value(words[pc]) = HALF - 1
    BY <2>1, <1>1, <1>17, Values, MaskValues DEF UpperHalf, LowerHalf, MaskBits
  <2> QED
    BY <2>1, <2>2, <1>17, Computes
<1>18. CASE pc = 18
  <2>1. words[pc] = Instr("and", "t3", "t3", "t1")
    BY <1>1, <1>18, TrampolineWords
  <2>2. Value(words[pc]) = dst % HALF
    BY <2>1, <1>1, <1>18, Values, JoinValues DEF UpperHalf, LowerHalf, MaskBits
  <2> QED
    BY <2>1, <2>2, <1>18, Computes
<1>19. CASE pc = 19
  <2>1. words[pc] = Instr("or", "t0", "t0", "t3")
    BY <1>1, <1>19, TrampolineWords
  <2>2. Value(words[pc]) = dst
    BY <2>1, <1>1, <1>19, Values, JoinValues DEF UpperHalf, LowerHalf, MaskBits
  <2> QED
    BY <2>1, <2>2, <1>19, Computes
<1> QED
  BY <1>6, <1>7, <1>8, <1>9, <1>10, <1>11, <1>12, <1>13, <1>14, <1>15, <1>16, <1>17, <1>18, <1>19

\* The words that build the address.
LEMMA StepBuild ==
  ASSUME IInv, InsideTrampoline, Execute, pc \in 6 .. 19
  PROVE  Contents' /\ pc' = pc + 1
         /\ UNCHANGED <<dst, words, entry, target, asked>> /\ DOMAIN regs' = Registers
<1>1. /\ SavedRegisters /\ UpperHalf /\ LowerHalf /\ MaskBits
      /\ DOMAIN regs = Registers
  BY DEF InsideTrampoline, IInv
<1>6. CASE pc = 6
  <2>1. "t0" \in Temporaries /\ Computed("t0", Lui(lui_imm_field(dst \div HALF)))
    BY <1>6, WordsCompute DEF Temporaries
  <2>2. /\ SavedRegisters' /\ regs'["t0"] = Lui(lui_imm_field(dst \div HALF))
        /\ \A r \in Temporaries \ {"t0"} : regs'[r] = regs[r]
        /\ DOMAIN regs' = Registers /\ pc' = 7
        /\ UNCHANGED <<dst, words, entry, target, asked>>
    BY <1>1, <1>6, <2>1, SavedKept, Becomes
  <2> QED
    BY <1>1, <1>6, <2>2
    DEF Contents, SavedRegisters, UpperHalf, LowerHalf, MaskBits, Temporaries
<1>7. CASE pc = 7
  <2>1. "t0" \in Temporaries /\ Computed("t0", Register(dst \div HALF))
    BY <1>7, WordsCompute DEF Temporaries
  <2>2. /\ SavedRegisters' /\ regs'["t0"] = Register(dst \div HALF)
        /\ \A r \in Temporaries \ {"t0"} : regs'[r] = regs[r]
        /\ DOMAIN regs' = Registers /\ pc' = 8
        /\ UNCHANGED <<dst, words, entry, target, asked>>
    BY <1>1, <1>7, <2>1, SavedKept, Becomes
  <2> QED
    BY <1>1, <1>7, <2>2
    DEF Contents, UpperHalf, LowerHalf, MaskBits, Temporaries
<1>8. CASE pc = 8
  <2>1. "t0" \in Temporaries /\ Computed("t0", (dst \div HALF) * HALF)
    BY <1>8, WordsCompute DEF Temporaries
  <2>2. /\ SavedRegisters' /\ regs'["t0"] = (dst \div HALF) * HALF
        /\ \A r \in Temporaries \ {"t0"} : regs'[r] = regs[r]
        /\ DOMAIN regs' = Registers /\ pc' = 9
        /\ UNCHANGED <<dst, words, entry, target, asked>>
    BY <1>1, <1>8, <2>1, SavedKept, Becomes
  <2> QED
    BY <1>1, <1>8, <2>2
    DEF Contents, UpperHalf, LowerHalf, MaskBits, Temporaries
<1>9. CASE pc = 9
  <2>1. "t3" \in Temporaries /\ Computed("t3", Lui(lui_imm_field(dst % HALF)))
    BY <1>9, WordsCompute DEF Temporaries
  <2>2. /\ SavedRegisters' /\ regs'["t3"] = Lui(lui_imm_field(dst % HALF))
        /\ \A r \in Temporaries \ {"t3"} : regs'[r] = regs[r]
        /\ DOMAIN regs' = Registers /\ pc' = 10
        /\ UNCHANGED <<dst, words, entry, target, asked>>
    BY <1>1, <1>9, <2>1, SavedKept, Becomes
  <2> QED
    BY <1>1, <1>9, <2>2
    DEF Contents, UpperHalf, LowerHalf, MaskBits, Temporaries
<1>10. CASE pc = 10
  <2>1. "t3" \in Temporaries /\ Computed("t3", Register(dst % HALF))
    BY <1>10, WordsCompute DEF Temporaries
  <2>2. /\ SavedRegisters' /\ regs'["t3"] = Register(dst % HALF)
        /\ \A r \in Temporaries \ {"t3"} : regs'[r] = regs[r]
        /\ DOMAIN regs' = Registers /\ pc' = 11
        /\ UNCHANGED <<dst, words, entry, target, asked>>
    BY <1>1, <1>10, <2>1, SavedKept, Becomes
  <2> QED
    BY <1>1, <1>10, <2>2
    DEF Contents, UpperHalf, LowerHalf, MaskBits, Temporaries
<1>11. CASE pc = 11
  <2>1. "t1" \in Temporaries /\ Computed("t1", HALF \div 2 - IMM)
    BY <1>11, WordsCompute DEF Temporaries
  <2>2. /\ SavedRegisters' /\ regs'["t1"] = HALF \div 2 - IMM
        /\ \A r \in Temporaries \ {"t1"} : regs'[r] = regs[r]
        /\ DOMAIN regs' = Registers /\ pc' = 12
        /\ UNCHANGED <<dst, words, entry, target, asked>>
    BY <1>1, <1>11, <2>1, SavedKept, Becomes
  <2> QED
    BY <1>1, <1>11, <2>2
    DEF Contents, UpperHalf, LowerHalf, MaskBits, Temporaries
<1>12. CASE pc = 12
  <2>1. "t2" \in Temporaries /\ Computed("t2", IMM \div 2 - 1)
    BY <1>12, WordsCompute DEF Temporaries
  <2>2. /\ SavedRegisters' /\ regs'["t2"] = IMM \div 2 - 1
        /\ \A r \in Temporaries \ {"t2"} : regs'[r] = regs[r]
        /\ DOMAIN regs' = Registers /\ pc' = 13
        /\ UNCHANGED <<dst, words, entry, target, asked>>
    BY <1>1, <1>12, <2>1, SavedKept, Becomes
  <2> QED
    BY <1>1, <1>12, <2>2
    DEF Contents, UpperHalf, LowerHalf, MaskBits, Temporaries
<1>13. CASE pc = 13
  <2>1. "t2" \in Temporaries /\ Computed("t2", IMM - 2)
    BY <1>13, WordsCompute DEF Temporaries
  <2>2. /\ SavedRegisters' /\ regs'["t2"] = IMM - 2
        /\ \A r \in Temporaries \ {"t2"} : regs'[r] = regs[r]
        /\ DOMAIN regs' = Registers /\ pc' = 14
        /\ UNCHANGED <<dst, words, entry, target, asked>>
    BY <1>1, <1>13, <2>1, SavedKept, Becomes
  <2> QED
    BY <1>1, <1>13, <2>2
    DEF Contents, UpperHalf, LowerHalf, MaskBits, Temporaries
<1>14. CASE pc = 14
  <2>1. "t2" \in Temporaries /\ Computed("t2", IMM - 1)
    BY <1>14, WordsCompute DEF Temporaries
  <2>2. /\ SavedRegisters' /\ regs'["t2"] = IMM - 1
        /\ \A r \in Temporaries \ {"t2"} : regs'[r] = regs[r]
        /\ DOMAIN regs' = Registers /\ pc' = 15
        /\ UNCHANGED <<dst, words, entry, target, asked>>
    BY <1>1, <1>14, <2>1, SavedKept, Becomes
  <2> QED
    BY <1>1, <1>14, <2>2
    DEF Contents, UpperHalf, LowerHalf, MaskBits, Temporaries
<1>15. CASE pc = 15
  <2>1. "t1" \in Temporaries /\ Computed("t1", HALF \div 2 - 1)
    BY <1>15, WordsCompute DEF Temporaries
  <2>2. /\ SavedRegisters' /\ regs'["t1"] = HALF \div 2 - 1
        /\ \A r \in Temporaries \ {"t1"} : regs'[r] = regs[r]
        /\ DOMAIN regs' = Registers /\ pc' = 16
        /\ UNCHANGED <<dst, words, entry, target, asked>>
    BY <1>1, <1>15, <2>1, SavedKept, Becomes
  <2> QED
    BY <1>1, <1>15, <2>2
    DEF Contents, UpperHalf, LowerHalf, MaskBits, Temporaries
<1>16. CASE pc = 16
  <2>1. "t1" \in Temporaries /\ Computed("t1", HALF - 2)
    BY <1>16, WordsCompute DEF Temporaries
  <2>2. /\ SavedRegisters' /\ regs'["t1"] = HALF - 2
        /\ \A r \in Temporaries \ {"t1"} : regs'[r] = regs[r]
        /\ DOMAIN regs' = Registers /\ pc' = 17
        /\ UNCHANGED <<dst, words, entry, target, asked>>
    BY <1>1, <1>16, <2>1, SavedKept, Becomes
  <2> QED
    BY <1>1, <1>16, <2>2
    DEF Contents, UpperHalf, LowerHalf, MaskBits, Temporaries
<1>17. CASE pc = 17
  <2>1. "t1" \in Temporaries /\ Computed("t1", HALF - 1)
    BY <1>17, WordsCompute DEF Temporaries
  <2>2. /\ SavedRegisters' /\ regs'["t1"] = HALF - 1
        /\ \A r \in Temporaries \ {"t1"} : regs'[r] = regs[r]
        /\ DOMAIN regs' = Registers /\ pc' = 18
        /\ UNCHANGED <<dst, words, entry, target, asked>>
    BY <1>1, <1>17, <2>1, SavedKept, Becomes
  <2> QED
    BY <1>1, <1>17, <2>2
    DEF Contents, UpperHalf, LowerHalf, MaskBits, Temporaries
<1>18. CASE pc = 18
  <2>1. "t3" \in Temporaries /\ Computed("t3", dst % HALF)
    BY <1>18, WordsCompute DEF Temporaries
  <2>2. /\ SavedRegisters' /\ regs'["t3"] = dst % HALF
        /\ \A r \in Temporaries \ {"t3"} : regs'[r] = regs[r]
        /\ DOMAIN regs' = Registers /\ pc' = 19
        /\ UNCHANGED <<dst, words, entry, target, asked>>
    BY <1>1, <1>18, <2>1, SavedKept, Becomes
  <2> QED
    BY <1>1, <1>18, <2>2
    DEF Contents, UpperHalf, LowerHalf, MaskBits, Temporaries
<1>19. CASE pc = 19
  <2>1. "t0" \in Temporaries /\ Computed("t0", dst)
    BY <1>19, WordsCompute DEF Temporaries
  <2>2. /\ SavedRegisters' /\ regs'["t0"] = dst
        /\ \A r \in Temporaries \ {"t0"} : regs'[r] = regs[r]
        /\ DOMAIN regs' = Registers /\ pc' = 20
        /\ UNCHANGED <<dst, words, entry, target, asked>>
    BY <1>1, <1>19, <2>1, SavedKept, Becomes
  <2> QED
    BY <1>1, <1>19, <2>2
    DEF Contents, UpperHalf, LowerHalf, MaskBits, Temporaries
<1> QED
  BY <1>6, <1>7, <1>8, <1>9, <1>10, <1>11, <1>12, <1>13, <1>14, <1>15, <1>16, <1>17, <1>18, <1>19

\* The jump.
LEMMA StepJump ==
  ASSUME IInv, InsideTrampoline, Execute, pc = 20
  PROVE  InsideTrampoline' /\ UNCHANGED <<dst, entry, regs>>
<1>1. words = Trampoline /\ regs["t0"] = dst /\ dst \in Int /\ dst % 2 = 0
  BY Widths DEF InsideTrampoline, UpperHalf, IInv, Words
<1>2. words[pc] = Instr("jalr", "zero", "t0", 0)
  BY <1>1, TrampolineWords
<1>3. /\ target' = regs["t0"] - (regs["t0"] % 2)
      /\ UNCHANGED <<dst, words, entry, regs, stack, pc, asked>>
  BY <1>2, JumpsOff
<1>4. target' = dst
  BY <1>1, <1>3
<1> QED
  BY <1>3, <1>4
  DEF InsideTrampoline, SavedRegisters, UpperHalf, LowerHalf, MaskBits, Trampoline

\* Every instruction of the trampoline keeps the invariant.
LEMMA StepTrampoline ==
  ASSUME IInv, InsideTrampoline, Execute
  PROVE  IInv'
<1>1. /\ pc \in 1 .. 20 /\ words = Trampoline /\ asked = << >>
      /\ entry \in InitialRegisters /\ DOMAIN regs = Registers
      /\ dst \in Words /\ dst % 2 = 0
  BY DEF InsideTrampoline, IInv
<1>2. CASE pc \in 1 .. 19
  <2>1. /\ Contents' /\ pc' = pc + 1
        /\ UNCHANGED <<dst, words, entry, target, asked>> /\ DOMAIN regs' = Registers
    <3>1. pc \in 1 .. 5 \/ pc \in 6 .. 19
      BY <1>2
    <3> QED
      BY <3>1, StepSpill, StepBuild
  <2>2. target = -1
    BY DEF Execute
  <2>3. Trampoline' = Trampoline
    BY <2>1 DEF Trampoline
  <2>4. pc' \in 1 .. 20
    BY <1>2, <2>1
  <2>5. InsideTrampoline'
    BY <1>1, <2>1, <2>2, <2>3, <2>4 DEF InsideTrampoline, Contents
  <2> QED
    BY <1>1, <2>1, <2>5 DEF IInv
<1>3. CASE pc = 20
  BY <1>1, <1>3, StepJump DEF IInv
<1> QED
  BY <1>1, <1>2, <1>3

-----------------------------------------------------------------------------
(***************************************************************************)
(* syscall_no_intercept.                                                   *)
(***************************************************************************)

\* A register that is moved has been read by the time it is set again.
LEMMA StepMove ==
  ASSUME IInv, InsideCall, Execute, pc \in 1 .. 7
  PROVE  IInv'
<1>1. /\ words = syscall_no_intercept /\ DOMAIN regs = Registers /\ asked = << >>
      /\ \A r \in Registers \ DOMAIN PassedIn : regs[r] = entry[r]
      /\ \A r \in DOMAIN PassedIn :
           regs[r] = IF SetBy[r] < pc THEN entry[PassedIn[r]] ELSE entry[r]
  BY DEF IInv, InsideCall
<1>2. target = -1
  BY DEF Execute
<1>3. PICK rd \in DOMAIN PassedIn :
        /\ SetBy[rd] = pc
        /\ words[pc] = Instr("mv", rd, PassedIn[rd], 0)
        /\ regs[PassedIn[rd]] = entry[PassedIn[rd]]
  <2>1. CASE pc = 1
    <3>1. words[pc] = Instr("mv", "a7", "a0", 0)
      BY <1>1, <2>1, CallWords
    <3>2. /\ "a7" \in DOMAIN PassedIn /\ PassedIn["a7"] = "a0" /\ SetBy["a7"] = 1
          /\ regs["a0"] = entry["a0"]
      BY <1>1, <2>1 DEF PassedIn, SetBy, Registers
    <3> QED
      BY <3>1, <3>2, <2>1
  <2>2. CASE pc = 2
    <3>1. words[pc] = Instr("mv", "a0", "a1", 0)
      BY <1>1, <2>2, CallWords
    <3>2. /\ "a0" \in DOMAIN PassedIn /\ PassedIn["a0"] = "a1" /\ SetBy["a0"] = 2
          /\ regs["a1"] = entry["a1"]
      BY <1>1, <2>2 DEF PassedIn, SetBy, Registers
    <3> QED
      BY <3>1, <3>2, <2>2
  <2>3. CASE pc = 3
    <3>1. words[pc] = Instr("mv", "a1", "a2", 0)
      BY <1>1, <2>3, CallWords
    <3>2. /\ "a1" \in DOMAIN PassedIn /\ PassedIn["a1"] = "a2" /\ SetBy["a1"] = 3
          /\ regs["a2"] = entry["a2"]
      BY <1>1, <2>3 DEF PassedIn, SetBy, Registers
    <3> QED
      BY <3>1, <3>2, <2>3
  <2>4. CASE pc = 4
    <3>1. words[pc] = Instr("mv", "a2", "a3", 0)
      BY <1>1, <2>4, CallWords
    <3>2. /\ "a2" \in DOMAIN PassedIn /\ PassedIn["a2"] = "a3" /\ SetBy["a2"] = 4
          /\ regs["a3"] = entry["a3"]
      BY <1>1, <2>4 DEF PassedIn, SetBy, Registers
    <3> QED
      BY <3>1, <3>2, <2>4
  <2>5. CASE pc = 5
    <3>1. words[pc] = Instr("mv", "a3", "a4", 0)
      BY <1>1, <2>5, CallWords
    <3>2. /\ "a3" \in DOMAIN PassedIn /\ PassedIn["a3"] = "a4" /\ SetBy["a3"] = 5
          /\ regs["a4"] = entry["a4"]
      BY <1>1, <2>5 DEF PassedIn, SetBy, Registers
    <3> QED
      BY <3>1, <3>2, <2>5
  <2>6. CASE pc = 6
    <3>1. words[pc] = Instr("mv", "a4", "a5", 0)
      BY <1>1, <2>6, CallWords
    <3>2. /\ "a4" \in DOMAIN PassedIn /\ PassedIn["a4"] = "a5" /\ SetBy["a4"] = 6
          /\ regs["a5"] = entry["a5"]
      BY <1>1, <2>6 DEF PassedIn, SetBy, Registers
    <3> QED
      BY <3>1, <3>2, <2>6
  <2>7. CASE pc = 7
    <3>1. words[pc] = Instr("mv", "a5", "a6", 0)
      BY <1>1, <2>7, CallWords
    <3>2. /\ "a5" \in DOMAIN PassedIn /\ PassedIn["a5"] = "a6" /\ SetBy["a5"] = 7
          /\ regs["a6"] = entry["a6"]
      BY <1>1, <2>7 DEF PassedIn, SetBy, Registers
    <3> QED
      BY <3>1, <3>2, <2>7
  <2> QED
    BY <2>1, <2>2, <2>3, <2>4, <2>5, <2>6, <2>7
<1>4. Computed(rd, entry[PassedIn[rd]])
  BY <1>3, Computes, Values
<1>5. DOMAIN PassedIn \subseteq Registers
  BY DEF PassedIn, Registers
<1>6. /\ DOMAIN regs' = Registers
      /\ \A r \in Registers \ {rd} : regs'[r] = regs[r]
      /\ regs'[rd] = entry[PassedIn[rd]]
      /\ pc' = pc + 1 /\ pc' \in 1 .. 9 /\ pc' <= 8
      /\ UNCHANGED <<dst, words, entry, target, asked>>
  BY <1>1, <1>3, <1>4, <1>5 DEF Computed
<1>7. \A r \in DOMAIN PassedIn \ {rd} : SetBy[r] \in Nat /\ SetBy[r] # pc
  BY <1>3 DEF SetBy, PassedIn
<1>8. \A r \in DOMAIN PassedIn :
        regs'[r] = IF SetBy[r] < pc' THEN entry[PassedIn[r]] ELSE entry[r]
  <2> SUFFICES ASSUME NEW r \in DOMAIN PassedIn
               PROVE  regs'[r] = IF SetBy[r] < pc' THEN entry[PassedIn[r]] ELSE entry[r]
    OBVIOUS
  <2>1. CASE r = rd
    BY <2>1, <1>3, <1>6
  <2>2. CASE r # rd
    <3>1. regs'[r] = regs[r] /\ SetBy[r] \in Nat /\ SetBy[r] # pc
      BY <2>2, <1>5, <1>6, <1>7
    <3> QED
      BY <3>1, <1>1, <1>6
  <2> QED
    BY <2>1, <2>2
<1>9. \A r \in Registers \ DOMAIN PassedIn : regs'[r] = entry[r]
  BY <1>1, <1>3, <1>6
<1>10. InsideCall'
  BY <1>1, <1>2, <1>6, <1>8, <1>9 DEF InsideCall
<1> QED
  BY <1>6, <1>10 DEF IInv

\* The kernel is shown what the caller passed in.
LEMMA StepAsk ==
  ASSUME IInv, InsideCall, Execute, pc = 8
  PROVE  IInv'
<1>1. /\ words = syscall_no_intercept /\ DOMAIN regs = Registers
      /\ \A r \in Registers \ DOMAIN PassedIn : regs[r] = entry[r]
      /\ \A r \in DOMAIN PassedIn :
           regs[r] = IF SetBy[r] < pc THEN entry[PassedIn[r]] ELSE entry[r]
      /\ entry \in InitialRegisters
  BY DEF IInv, InsideCall
<1>2. target = -1
  BY DEF Execute
<1>3. words[pc] = Instr("ecall", "a0", "a0", 0)
  BY <1>1, CallWords
<1>4. /\ asked' = regs /\ pc' = 9
      /\ \E answer \in Answers : regs' = [regs EXCEPT !["a0"] = answer]
      /\ UNCHANGED <<dst, words, entry, target>>
  BY <1>3, AsksKernel
<1>5. PICK answer \in Answers : regs' = [regs EXCEPT !["a0"] = answer]
  BY <1>4
<1>6. /\ "a0" \in DOMAIN PassedIn /\ DOMAIN PassedIn \subseteq Registers
      /\ \A r \in DOMAIN PassedIn : SetBy[r] < 8 /\ PassedIn[r] \in Registers \ {"sp"}
  BY DEF PassedIn, SetBy, Registers
<1>7. \A r \in DOMAIN PassedIn : regs[r] = entry[PassedIn[r]]
  BY <1>1, <1>6
<1>8. \A r \in DOMAIN PassedIn : regs[r] \in Words
  BY <1>1, <1>6, <1>7, RegistersAssumption
<1>9. /\ DOMAIN regs' = Registers /\ regs'["a0"] = answer
      /\ \A r \in Registers \ {"a0"} : regs'[r] = regs[r]
  BY <1>1, <1>5, <1>6
<1>10. /\ \A r \in Registers \ DOMAIN PassedIn : regs'[r] = entry[r]
       /\ \A r \in DOMAIN PassedIn : regs'[r] \in Words
       /\ regs'["a0"] \in Answers
  BY <1>1, <1>6, <1>8, <1>9, AnswersAssumption
<1>11. InsideCall'
  BY <1>1, <1>2, <1>4, <1>7, <1>10 DEF InsideCall
<1> QED
  BY <1>4, <1>9, <1>11 DEF IInv

\* The way back.
LEMMA StepBack ==
  ASSUME IInv, InsideCall, Execute, pc = 9
  PROVE  IInv'
<1>1. words = syscall_no_intercept /\ entry \in InitialRegisters
  BY DEF IInv, InsideCall
<1>2. regs["ra"] = entry["ra"]
  BY DEF InsideCall, Registers, PassedIn
<1>3. words[pc] = Instr("jalr", "zero", "ra", 0)
  BY <1>1, CallWords
<1>4. /\ target' = regs["ra"] - (regs["ra"] % 2)
      /\ UNCHANGED <<dst, words, entry, regs, stack, pc, asked>>
  BY <1>3, JumpsOff
<1>5. entry["ra"] \in Int /\ entry["ra"] % 2 = 0
  BY <1>1, RegistersAssumption, Widths DEF Registers, Words
<1>6. target' = entry["ra"]
  BY <1>2, <1>4, <1>5
<1>7. InsideCall'
  BY <1>4, <1>6 DEF InsideCall
<1> QED
  BY <1>4, <1>7 DEF IInv

-----------------------------------------------------------------------------
(***************************************************************************)
(* All steps.                                                              *)
(***************************************************************************)

\* The invariant holds before anything is executed.
LEMMA InitIInv == Init => IInv
<1> SUFFICES ASSUME Init PROVE IInv
  OBVIOUS
<1>1. entry \in InitialRegisters /\ DOMAIN regs = Registers /\ regs = entry
  BY RegistersAssumption DEF Init
<1>2. Entered /\ pc = 1 /\ target = -1 /\ asked = << >>
  BY DEF Init, Entered
<1>3. 0 \in Words /\ 0 % 2 = 0
  BY Widths DEF Words
<1>4. CASE dst \in Destinations /\ words = << >>
  BY <1>1, <1>2, <1>4, DestinationsAssumption DEF IInv
<1>5. CASE dst = 0 /\ words = syscall_no_intercept
  <2>1. \A r \in DOMAIN PassedIn : ~ (SetBy[r] < 1) /\ r \in Registers
    BY DEF PassedIn, SetBy, Registers
  <2>2. InsideCall
    BY <1>1, <1>2, <1>5, <2>1 DEF InsideCall
  <2> QED
    BY <1>1, <1>3, <1>5, <2>2 DEF IInv
<1> QED
  BY <1>4, <1>5 DEF Init

\* Every step keeps it.
LEMMA NextIInv == IInv /\ [Next]_vars => IInv'
<1> SUFFICES ASSUME IInv, [Next]_vars PROVE IInv'
  OBVIOUS
<1>1. CASE UNCHANGED vars
  <2>1. UNCHANGED <<dst, words, entry, regs, stack, pc, target, asked>>
    BY <1>1 DEF vars
  <2>2. Entered' = Entered /\ InsideCall' = InsideCall
    BY <2>1 DEF Entered, InsideCall
  <2>3. InsideTrampoline' = InsideTrampoline
    BY <2>1
    DEF InsideTrampoline, SavedRegisters, UpperHalf, LowerHalf, MaskBits, Trampoline
  <2> QED
    BY <2>1, <2>2, <2>3 DEF IInv
<1>2. CASE setup_shadow_page_trampoline
  <2>1. words = << >> /\ words' = Trampoline
        /\ UNCHANGED <<dst, entry, regs, stack, pc, target, asked>>
    BY <1>2 DEF setup_shadow_page_trampoline
  <2>2. Entered /\ DOMAIN regs = Registers
    BY <2>1, CodesDiffer DEF IInv, InsideTrampoline, InsideCall
  <2>3. Trampoline' = Trampoline
    BY <2>1 DEF Trampoline
  <2>4. SavedRegisters' /\ UpperHalf' /\ LowerHalf' /\ MaskBits'
    BY <2>1, <2>2
    DEF Entered, SavedRegisters, UpperHalf, LowerHalf, MaskBits, Registers, Temporaries
  <2>5. InsideTrampoline'
    BY <2>1, <2>2, <2>3, <2>4 DEF Entered, InsideTrampoline
  <2> QED
    BY <2>1, <2>2, <2>5 DEF IInv
<1>3. CASE Execute
  <2>1. words # << >>
    BY <1>3 DEF Execute
  <2>2. CASE InsideTrampoline
    BY <1>3, <2>2, StepTrampoline
  <2>3. CASE InsideCall
    <3>1. pc \in 1 .. 7 \/ pc = 8 \/ pc = 9
      BY <2>3 DEF InsideCall
    <3> QED
      BY <1>3, <2>3, <3>1, StepMove, StepAsk, StepBack
  <2> QED
    BY <2>1, <2>2, <2>3 DEF IInv
<1> QED
  BY <1>1, <1>2, <1>3 DEF Next, Jumped

-----------------------------------------------------------------------------
(***************************************************************************)
(* What follows from the invariant.                                        *)
(***************************************************************************)

\* The trampoline is not syscall_no_intercept.
LEMMA WhichCode ==
  ASSUME IInv
  PROVE  /\ InTrampoline => (words = << >> /\ Entered) \/ InsideTrampoline
         /\ ~ InTrampoline => InsideCall
  BY CodesDiffer DEF IInv, InTrampoline, InsideTrampoline, InsideCall

\* The registers hold words.
LEMMA RegistersTyped ==
  ASSUME IInv, NEW r \in Registers \ {"sp"}
  PROVE  regs[r] \in Words
<1>1. /\ entry \in InitialRegisters /\ dst \in Words
      /\ \A q \in Registers \ {"sp"} : entry[q] \in Words
  BY RegistersAssumption DEF IInv
<1>2. CASE Entered
  BY <1>1, <1>2 DEF Entered
<1>3. CASE InsideCall
  <2>1. \A q \in DOMAIN PassedIn : PassedIn[q] \in Registers \ {"sp"}
    BY DEF PassedIn, Registers
  <2>2. pc <= 8 \/ pc = 9
    BY <1>3 DEF InsideCall
  <2> QED
    BY <1>1, <1>3, <2>1, <2>2 DEF InsideCall
<1>4. CASE InsideTrampoline
  <2>1. CASE r \notin Temporaries
    BY <1>1, <1>4, <2>1 DEF InsideTrampoline, SavedRegisters
  <2>2. CASE pc <= 6
    BY <1>1, <1>4, <2>2 DEF InsideTrampoline, SavedRegisters
  <2>3. CASE r \in Temporaries /\ pc \in 7 .. 20
    <3> DEFINE u == dst \div HALF
               v == dst % HALF
    <3>1. /\ u \in Nat /\ u < HALF /\ v \in Nat /\ v < HALF
          /\ dst = u * HALF + v
      BY <1>1, Halves, Widths DEF Words
    <3>2. /\ Register(u) \in Words /\ Lui(lui_imm_field(u)) \in Words
          /\ Register(v) \in Words /\ Lui(lui_imm_field(v)) \in Words
      BY <3>1, HalfRestored
    <3>3. u * HALF \in Words /\ v \in Words
      <4>1. u * HALF \in Nat
        BY <3>1, Widths
      <4> QED
        BY <1>1, <3>1, <4>1, Widths DEF Words
    <3>4. /\ HALF \div 2 - IMM \in Words /\ HALF \div 2 - 1 \in Words
          /\ HALF - 2 \in Words /\ HALF - 1 \in Words
          /\ IMM \div 2 - 1 \in Words /\ IMM - 2 \in Words /\ IMM - 1 \in Words
      BY Widths DEF Words
    <3>5. {"t0", "t1", "t2", "t3"} \subseteq Registers \ {"sp"}
      BY DEF Registers
    <3>6. UpperHalf /\ LowerHalf /\ MaskBits
      BY <1>4 DEF InsideTrampoline
    <3> HIDE DEF u, v
    <3>7. CASE r = "t0"
      BY <1>1, <2>3, <3>2, <3>3, <3>6, <3>7 DEF UpperHalf, u
    <3>8. CASE r = "t3"
      BY <1>1, <2>3, <3>2, <3>3, <3>5, <3>6, <3>8 DEF LowerHalf, v
    <3>9. CASE r \in {"t1", "t2"}
      BY <1>1, <2>3, <3>4, <3>5, <3>6, <3>9 DEF MaskBits
    <3> QED
      BY <2>3, <3>7, <3>8, <3>9 DEF Temporaries
  <2> QED
    BY <1>4, <2>1, <2>2, <2>3 DEF InsideTrampoline
<1> QED
  BY <1>2, <1>3, <1>4 DEF IInv

\* Type correctness follows.
LEMMA Typed == IInv => TypeOK
<1> SUFFICES ASSUME IInv PROVE TypeOK
  OBVIOUS
<1>1. /\ dst \in 0 .. XLEN - 1 /\ entry \in InitialRegisters
      /\ DOMAIN regs = DOMAIN entry /\ DOMAIN regs = Registers
  BY RegistersAssumption DEF IInv, Words
<1>2. \A r \in DOMAIN regs \ {"sp"} : regs[r] \in 0 .. XLEN - 1
  BY <1>1, RegistersTyped DEF Words
<1>3. Len(words) \in {0, 9, 20} /\ pc \in 1 .. 20
  BY TrampolineWords, CallWords DEF IInv, Entered, InsideTrampoline, InsideCall
<1>4. target \in -1 .. XLEN - 1
  <2>1. entry["ra"] \in Words /\ dst \in Words
    BY RegistersAssumption DEF IInv, Registers
  <2>2. target = -1 \/ target = dst \/ target = entry["ra"]
    BY DEF IInv, Entered, InsideTrampoline, InsideCall
  <2> QED
    BY <2>1, <2>2, Widths DEF Words
<1> QED
  BY <1>1, <1>2, <1>3, <1>4 DEF TypeOK

\* Whatever the address of asm_syscall_hook, the width of registers and immediates
\* and the registers of the interrupted code: the trampoline jumps to
\* asm_syscall_hook, and each register it uses is in the slot of the frame from
\* which it will be restored.
THEOREM TrampolineCorrect == Spec => [](TypeOK /\ JumpsToHook /\ NothingLost)
<1>1. ASSUME IInv PROVE JumpsToHook
  <2> SUFFICES ASSUME InTrampoline, target # -1
               PROVE  target = dst /\ target = Joined(dst)
    BY DEF JumpsToHook
  <2>1. target = dst
    BY <1>1, WhichCode DEF Entered, InsideTrampoline
  <2>2. Joined(dst) = dst
    BY <1>1, AddressRestored, Widths DEF IInv, Words
  <2> QED
    BY <2>1, <2>2
<1>2. ASSUME IInv PROVE NothingLost
  <2> SUFFICES ASSUME InTrampoline, NEW r \in DOMAIN regs
               PROVE  \/ regs[r] = entry[r]
                      \/ r = "sp" /\ regs["sp"] = entry["sp"] - 304
                      \/ /\ r \in DOMAIN SlotOf
                         /\ stack[entry["sp"] - 304 + SlotOf[r]] = entry[r]
    BY DEF NothingLost
  <2>1. Entered \/ InsideTrampoline
    BY <1>2, WhichCode
  <2>2. CASE Entered
    BY <2>2 DEF Entered
  <2>3. CASE InsideTrampoline
    <3>1. /\ SavedRegisters /\ pc \in 1 .. 20 /\ r \in Registers
          /\ entry["sp"] \in Int
      BY <1>2, <2>3, RegistersAssumption DEF InsideTrampoline, IInv
    <3>2. CASE r = "sp"
      BY <3>1, <3>2 DEF SavedRegisters
    <3>3. CASE r \notin Temporaries \cup {"sp"}
      BY <3>1, <3>3 DEF SavedRegisters
    <3>4. CASE r \in Temporaries /\ pc <= 6
      BY <3>1, <3>4 DEF SavedRegisters
    <3>5. CASE r \in Temporaries /\ pc > 6
      <4>1. /\ stack[entry["sp"] - 304] = entry["t0"]
            /\ stack[entry["sp"] - 304 + 8] = entry["t1"]
            /\ stack[entry["sp"] - 304 + 16] = entry["t2"]
            /\ stack[entry["sp"] - 304 + 24] = entry["t3"]
        BY <3>1, <3>5 DEF SavedRegisters
      <4>2. entry["sp"] - 304 + 0 = entry["sp"] - 304
        BY <3>1
      <4> QED
        BY <4>1, <4>2, <3>5 DEF SlotOf, Temporaries
    <3> QED
      BY <3>1, <3>2, <3>3, <3>4, <3>5
  <2> QED
    BY <2>1, <2>2, <2>3
<1>3. IInv => TypeOK /\ JumpsToHook /\ NothingLost
  BY <1>1, <1>2, Typed
<1> QED
  BY <1>3, InitIInv, NextIInv, PTL DEF Spec

\* Whatever its caller passes in: syscall_no_intercept shows the kernel the number
\* and the arguments in the registers where the kernel expects them, and returns
\* to its caller with the answer.
THEOREM CallPassedOnAlways == Spec => []CallPassedOn
<1>1. ASSUME IInv PROVE CallPassedOn
  <2>1. CASE InTrampoline
    BY <1>1, <2>1, WhichCode DEF Entered, InsideTrampoline, CallPassedOn
  <2>2. CASE ~ InTrampoline
    <3>1. InsideCall /\ (pc <= 8 \/ pc = 9)
      BY <1>1, <2>2, WhichCode DEF InsideCall
    <3>2. CASE pc <= 8
      BY <2>2, <3>1, <3>2 DEF InsideCall, CallPassedOn
    <3>3. CASE pc = 9
      <4>1. "a0" \in DOMAIN asked
        BY <3>1, <3>3 DEF InsideCall, Registers
      <4>2. asked # << >>
        BY <4>1
      <4> QED
        BY <2>2, <3>1, <3>3, <4>2 DEF InsideCall, CallPassedOn
    <3> QED
      BY <3>1, <3>2, <3>3
  <2> QED
    BY <2>1, <2>2
<1>2. IInv => CallPassedOn
  BY <1>1
<1> QED
  BY <1>2, InitIInv, NextIInv, PTL DEF Spec
=============================================================================
