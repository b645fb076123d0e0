--------------------------- MODULE RewriterProofs ---------------------------
(***************************************************************************)
(* Whatever the mapping holds, the sweep writes inside it only, and only   *)
(* over bytes that spell ECALL; and if capstone knows all of its           *)
(* instructions, exactly the ECALLs among them have become jumps through   *)
(* gp, up to where the sweep is.                                           *)
(*                                                                         *)
(* The sweep never loses the boundaries of the instructions (OnStart).     *)
(* From code on, the bytes are still those of the linker, so that capstone *)
(* sees the next instruction as it was; and two ECALLs are at least four   *)
(* bytes apart, so that no byte belongs to two of them.                    *)
(***************************************************************************)
EXTENDS Rewriter, TLAPS

\* The sweep has not lost the boundaries of the instructions.
OnStart == Decodable(section) => code \in section.starts \cup {section.size}

IInv ==
  /\ section \in Sections
  /\ TypeOK
  /\ OnStart
  /\ ExactlyEcallsPatched
  /\ OnlyEcallBytesPatched
  /\ InsideMapping

-----------------------------------------------------------------------------
(***************************************************************************)
(* Sections.                                                               *)
(***************************************************************************)

\* The bytes of a mapping and of the margin after it can be read.
LEMMA SectionTypes ==
  ASSUME NEW sec \in Sections
  PROVE  /\ sec.size \in Nat
         /\ sec.bytes \in [0 .. sec.size + Margin - 1 -> Byte]
         /\ Margin \in Nat /\ Margin >= 4
         /\ WellFormed(sec)
  BY SectionsAssumption, MarginAssumption

\* An instruction has two or four bytes.
LEMMA Lengths ==
  ASSUME NEW byte \in Byte
  PROVE  LengthFrom(byte) = 2 \/ LengthFrom(byte) = 4
  BY DEF LengthFrom

\* An instruction starts inside the mapping.
LEMMA StartTypes ==
  ASSUME NEW sec \in Sections, NEW s \in sec.starts
  PROVE  /\ s \in Nat /\ s < sec.size
         /\ sec.bytes[s] \in Byte
  <1>1. s \in 0 .. sec.size - 1
    BY SectionTypes DEF WellFormed
  <1>2. s \in Nat /\ s < sec.size /\ s \in 0 .. sec.size + Margin - 1
    BY <1>1, SectionTypes
  <1> QED
    BY <1>2, SectionTypes

\* An instruction begins where or after the one before it ends.
LEMMA Apart ==
  ASSUME NEW sec \in Sections, NEW r \in sec.starts, NEW s \in sec.starts, r > s
  PROVE  r >= s + LengthFrom(sec.bytes[s])
  BY SectionTypes DEF WellFormed

\* It is followed by another one or by the end of the mapping.
LEMMA Successor ==
  ASSUME NEW sec \in Sections, NEW s \in sec.starts
  PROVE  \/ s + LengthFrom(sec.bytes[s]) \in sec.starts
         \/ s + LengthFrom(sec.bytes[s]) >= sec.size
  BY SectionTypes DEF WellFormed

\* An ECALL begins with a byte that announces four.
LEMMA EcallLength ==
  ASSUME NEW sec \in Sections, NEW s, IsEcall(sec, s)
  PROVE  s \in sec.starts /\ sec.bytes[s] = 115 /\ LengthFrom(sec.bytes[s]) = 4
  <1>1. s \in sec.starts /\ BytesAt(sec.bytes, s, 4) = ECALL
    BY DEF IsEcall
  <1>2. s \in Nat
    BY <1>1, StartTypes
  <1>3. BytesAt(sec.bytes, s, 4)[1] = sec.bytes[s + 1 - 1]
    BY DEF BytesAt
  <1>4. s + 1 - 1 = s
    BY <1>2
  <1>5. ECALL[1] = 115
    BY DEF ECALL
  <1>6. sec.bytes[s] = 115
    BY <1>1, <1>3, <1>4, <1>5
  <1>7. LengthFrom(115) = 4
    BY DEF LengthFrom
  <1> QED
    BY <1>1, <1>6, <1>7

\* No byte belongs to two ECALLs.
LEMMA EcallUnique ==
  ASSUME NEW sec \in Sections, NEW a \in Nat, NEW j \in 0 .. 3, NEW k \in 0 .. 3,
         IsEcall(sec, a - j), IsEcall(sec, a - k)
  PROVE  j = k
  <1>1. /\ a - j \in sec.starts /\ LengthFrom(sec.bytes[a - j]) = 4
        /\ a - k \in sec.starts /\ LengthFrom(sec.bytes[a - k]) = 4
    BY EcallLength
  <1>2. a - j > a - k => a - j >= a - k + 4
    BY <1>1, Apart
  <1>3. a - k > a - j => a - k >= a - j + 4
    BY <1>1, Apart
  <1> QED
    BY <1>2, <1>3

\* The byte at a is one of an ECALL that starts before c; which one it is.
Swept(sec, c, a) == \E k \in 0 .. 3 : IsEcall(sec, a - k) /\ a - k < c
Offset(sec, a) == CHOOSE k \in 0 .. 3 : IsEcall(sec, a - k)

\* So the byte of the jump that takes its place is determined.
LEMMA EcallChosen ==
  ASSUME NEW sec \in Sections, NEW a \in Nat, NEW k \in 0 .. 3, IsEcall(sec, a - k)
  PROVE  Offset(sec, a) = k
  <1>1. Offset(sec, a) \in 0 .. 3 /\ IsEcall(sec, a - Offset(sec, a))
    BY Zenon DEF Offset
  <1> QED
    BY <1>1, EcallUnique

\* The bytes of an instruction depend on the text where it stands only.
LEMMA BytesAtEqual ==
  ASSUME NEW m, NEW n, NEW a \in Nat, NEW len \in Nat,
         \A b \in a .. a + len - 1 : m[b] = n[b]
  PROVE  BytesAt(m, a, len) = BytesAt(n, a, len)
  <1>1. \A k \in 1 .. len : a + k - 1 \in a .. a + len - 1
    OBVIOUS
  <1>2. \A k \in 1 .. len : m[a + k - 1] = n[a + k - 1]
    BY <1>1
  <1> QED
    BY <1>2 DEF BytesAt
-----------------------------------------------------------------------------
(***************************************************************************)
(* Where the sweep is.                                                     *)
(***************************************************************************)

\* What the byte at a should be when the sweep has come to c.
Expected(sec, c, a) ==
  IF Swept(sec, c, a) THEN JALR[Offset(sec, a) + 1] ELSE sec.bytes[a]

\* No ECALL before the start of an instruction reaches beyond it.
LEMMA Behind ==
  ASSUME NEW sec \in Sections, NEW c \in sec.starts,
         NEW a \in Nat, NEW k \in 0 .. 3, IsEcall(sec, a - k), a - k < c
  PROVE  a < c
  <1>1. a - k \in sec.starts /\ LengthFrom(sec.bytes[a - k]) = 4
    BY EcallLength
  <1>2. c \in Nat
    BY StartTypes
  <1>3. c >= a - k + 4
    BY <1>1, <1>2, Apart
  <1> QED
    BY <1>2, <1>3

\* From there on, nothing has been altered.
LEMMA Ahead ==
  ASSUME NEW sec \in Sections, NEW c \in sec.starts, NEW a \in Nat, a >= c
  PROVE  Expected(sec, c, a) = sec.bytes[a]
  <1>1. c \in Nat
    BY StartTypes
  <1>2. ASSUME NEW k \in 0 .. 3, IsEcall(sec, a - k), a - k < c
        PROVE  FALSE
    <2>1. a < c
      BY <1>2, Behind
    <2> QED
      BY <1>1, <2>1
  <1> QED
    BY <1>2 DEF Expected, Swept

\* Past an instruction that is not an ECALL, the same is expected as before it.
LEMMA PastOther ==
  ASSUME NEW sec \in Sections, NEW c \in sec.starts, ~ IsEcall(sec, c),
         NEW a \in Nat
  PROVE  Expected(sec, c + LengthFrom(sec.bytes[c]), a) = Expected(sec, c, a)
  <1> DEFINE n == LengthFrom(sec.bytes[c])
  <1>1. c \in Nat /\ (n = 2 \/ n = 4)
    BY StartTypes, Lengths
  <1>2. ASSUME NEW k \in 0 .. 3, IsEcall(sec, a - k)
        PROVE  a - k < c + n <=> a - k < c
    <2>1. a - k \in sec.starts
      BY <1>2, EcallLength
    <2>2. a - k # c
      BY <1>2
    <2>3. a - k > c => a - k >= c + n
      BY <2>1, Apart
    <2> HIDE DEF n
    <2> QED
      BY <1>1, <2>2, <2>3
  <1> HIDE DEF n
  <1>3. Swept(sec, c + n, a) <=> Swept(sec, c, a)
    BY <1>2 DEF Swept
  <1>4. Expected(sec, c + n, a) = Expected(sec, c, a)
    BY <1>3 DEF Expected
  <1> QED
    BY <1>4 DEF n

\* Past an ECALL, a jump is expected in its place, and elsewhere the same.
LEMMA PastEcall ==
  ASSUME NEW sec \in Sections, NEW c, IsEcall(sec, c), NEW a \in Nat
  PROVE  Expected(sec, c + 4, a) =
           IF a \in c .. c + 3 THEN JALR[a - c + 1] ELSE Expected(sec, c, a)
  <1>1. c \in sec.starts /\ LengthFrom(sec.bytes[c]) = 4
    BY EcallLength
  <1>2. c \in Nat
    BY <1>1, StartTypes
  <1>3. CASE a \in c .. c + 3
    <2>1. a - c \in 0 .. 3 /\ a - (a - c) = c /\ c < c + 4
      BY <1>2, <1>3
    <2>2. Offset(sec, a) = a - c
      BY <2>1, EcallChosen
    <2>3. Swept(sec, c + 4, a)
      BY <2>1 DEF Swept
    <2> QED
      BY <1>3, <2>2, <2>3 DEF Expected
  <1>4. CASE a \notin c .. c + 3
    <2>1. ASSUME NEW k \in 0 .. 3, IsEcall(sec, a - k)
          PROVE  a - k < c + 4 <=> a - k < c
      <3>1. a - k \in sec.starts
        BY <2>1, EcallLength
      <3>2. a - k # c
        BY <1>2, <1>4
      <3>3. a - k > c => a - k >= c + 4
        BY <1>1, <3>1, Apart
      <3> QED
        BY <1>2, <3>2, <3>3
    <2>2. Swept(sec, c + 4, a) <=> Swept(sec, c, a)
      BY <2>1 DEF Swept
    <2> QED
      BY <1>4, <2>2 DEF Expected
  <1> QED
    BY <1>3, <1>4

-----------------------------------------------------------------------------
(***************************************************************************)
(* One turn of the loop.                                                   *)
(***************************************************************************)

\* The byte at b once the four bytes at a are overwritten.
Patched(m, a, b) == IF b \in a .. a + 3 THEN JALR[b - a + 1] ELSE m[b]

\* Four bytes are overwritten.
LEMMA OverwriteEffect ==
  ASSUME NEW D, NEW m \in [D -> Byte], NEW a \in Nat
  PROVE  /\ Overwrite(m, a, JALR) \in [D -> Byte]
         /\ \A b \in D : Overwrite(m, a, JALR)[b] = Patched(m, a, b)
  <1>1. Len(JALR) = 4 /\ a + 4 - 1 = a + 3
    BY DEF JALR
  <1>2. Overwrite(m, a, JALR) =
          [b \in D |-> Patched(m, a, b)]
    BY <1>1 DEF Overwrite, Patched
  <1>3. \A k \in 1 .. 4 : JALR[k] \in Byte
    BY DEF JALR, Byte
  <1>4. \A b \in a .. a + 3 : b - a + 1 \in 1 .. 4
    OBVIOUS
  <1>5. \A b \in D : Patched(m, a, b) \in Byte
    BY <1>3, <1>4 DEF Patched
  <1> QED
    BY <1>2, <1>5

\* Whatever the bytes are, the sweep goes on by at least one byte and not
\* beyond the end of the mapping, and overwrites nothing but four bytes that it
\* steps over and that spell ECALL.
LEMMA SweepEffect ==
  ASSUME section \in Sections, TypeOK, sweep
  PROVE  \E n \in {1, 2, 4} :
           /\ code' = code + n /\ code + n <= section.size
           /\ \/ text' = text
              \/ /\ n = 4 /\ text' = Overwrite(text, code, JALR)
                 /\ BytesAt(text, code, 4) = ECALL
  <1> DEFINE length == cs_disasm_iter(code, section.size - 1 - code + 1)
             result == intercept_disasm_next_instruction(code)
             n == LengthFrom(text[code])
  <1>1. section.size \in Nat /\ code \in Nat /\ code < section.size
    BY SectionTypes DEF TypeOK, sweep
  <1>2. text[code] \in Byte
    <2>1. code \in 0 .. section.size + Margin - 1
      BY <1>1, SectionTypes
    <2> QED
      BY <2>1 DEF TypeOK
  <1>3. n = 2 \/ n = 4
    BY <1>2, Lengths
  <1>4. length = 0 \/ (length = n /\ n <= section.size - 1 - code + 1)
    BY DEF cs_disasm_iter
  <1>5. /\ result.length = length /\ result.address = code
        /\ result.is_syscall => length = 4 /\ BytesAt(text, code, 4) = ECALL
    BY Zenon DEF intercept_disasm_next_instruction
  <1>6. /\ result.length = 0 => code' = code + 1 /\ text' = text
        /\ result.length # 0 =>
             /\ text' = IF result.is_syscall
                        THEN Overwrite(text, result.address, JALR) ELSE text
             /\ code' = code + result.length
    BY DEF sweep
  <1> HIDE DEF length, result, n
  <1>7. CASE length = 0
    BY <1>1, <1>5, <1>6, <1>7
  <1>8. CASE length # 0
    <2>1. length \in {2, 4} /\ code + length <= section.size
      BY <1>1, <1>3, <1>4, <1>8
    <2>2. /\ code' = code + length
          /\ \/ text' = text
             \/ /\ length = 4 /\ text' = Overwrite(text, code, JALR)
                /\ BytesAt(text, code, 4) = ECALL
      BY <1>5, <1>6, <1>8
    <2> QED
      BY <2>1, <2>2
  <1> QED
    BY <1>7, <1>8

\* If capstone knows the instructions, it finds the one the linker put there.
LEMMA SweepDecodes ==
  ASSUME IInv, sweep, Decodable(section)
  PROVE  /\ code \in section.starts
         /\ code' = code + LengthFrom(section.bytes[code])
         /\ text' = IF IsEcall(section, code)
                    THEN Overwrite(text, code, JALR) ELSE text
  <1> DEFINE n == LengthFrom(section.bytes[code])
             result == intercept_disasm_next_instruction(code)
  <1>1. /\ section \in Sections /\ section.size \in Nat
        /\ code \in Nat /\ code < section.size
    BY SectionTypes DEF IInv, TypeOK, sweep
  <1>2. code \in section.starts
    BY <1>1 DEF IInv, OnStart
  <1>3. n = 2 \/ n = 4
    BY <1>1, <1>2, StartTypes, Lengths
  <1>4. code + n <= section.size /\ BytesAt(section.bytes, code, n) \in Known
    BY <1>2 DEF Decodable
  <1> HIDE DEF n
  <1>5. \A b \in code .. code + n - 1 : text[b] = section.bytes[b]
    <2> TAKE b \in code .. code + n - 1
    <2>1. b \in Nat /\ b >= code /\ b \in 0 .. section.size + Margin - 1
      BY <1>1, <1>3, <1>4, SectionTypes
    <2>2. b \in DOMAIN text
      BY <2>1 DEF IInv, TypeOK
    <2>3. text[b] = Expected(section, code, b)
      BY <2>2 DEF IInv, ExactlyEcallsPatched, Expected, Swept, Offset
    <2> QED
      BY <1>1, <1>2, <2>1, <2>3, Ahead
  <1>6. BytesAt(text, code, n) = BytesAt(section.bytes, code, n)
    <2>1. n \in Nat
      BY <1>3
    <2> QED
      BY <1>1, <1>5, <2>1, BytesAtEqual, ZenonT(40)
  <1>7. LengthFrom(text[code]) = n
    <2>1. code \in code .. code + n - 1
      BY <1>1, <1>3
    <2> QED
      BY <1>5, <2>1 DEF n
  <1>8. result.length = n /\ result.address = code
        /\ (result.is_syscall <=> n = 4 /\ BytesAt(text, code, 4) = ECALL)
    <2>1. n <= section.size - 1 - code + 1
      BY <1>1, <1>3, <1>4
    <2>2. cs_disasm_iter(code, section.size - 1 - code + 1) = n
      BY <1>4, <1>6, <1>7, <2>1 DEF cs_disasm_iter
    <2> QED
      BY <2>2, Zenon DEF intercept_disasm_next_instruction
  <1>9. result.is_syscall <=> IsEcall(section, code)
    <2>1. IsEcall(section, code) => n = 4
      BY <1>1, EcallLength DEF n
    <2> QED
      BY <1>2, <1>4, <1>6, <1>8, <2>1 DEF IsEcall
  <1>10. n # 0
    BY <1>3
  <1>11. /\ text' = IF result.is_syscall
                    THEN Overwrite(text, result.address, JALR) ELSE text
         /\ code' = code + result.length
    BY <1>8, <1>10 DEF sweep
  <1> HIDE DEF result
  <1> QED
    BY <1>2, <1>8, <1>9, <1>11 DEF n

-----------------------------------------------------------------------------
(***************************************************************************)
(* The invariant.                                                          *)
(***************************************************************************)

\* The sweep begins at the first instruction, with nothing patched.
LEMMA InitIInv == Init => IInv
  <1> SUFFICES ASSUME Init PROVE IInv
    OBVIOUS
  <1>1. section \in Sections /\ text = section.bytes /\ code = 0
    BY DEF Init
  <1>2. TypeOK
    BY <1>1, SectionTypes DEF Init, TypeOK
  <1>3. OnStart
    BY <1>1, SectionTypes DEF OnStart, WellFormed
  <1>4. ASSUME NEW k \in 0 .. 3, NEW a, IsEcall(section, a - k), a - k < 0
        PROVE  FALSE
    BY <1>1, <1>4, EcallLength, StartTypes
  <1>5. ExactlyEcallsPatched
    BY <1>1, <1>4, Zenon DEF ExactlyEcallsPatched
  <1>6. InsideMapping /\ OnlyEcallBytesPatched
    BY <1>1 DEF InsideMapping, OnlyEcallBytesPatched
  <1> QED
    BY <1>1, <1>2, <1>3, <1>5, <1>6 DEF IInv

\* A turn of the loop stays on the boundaries of the instructions.
LEMMA SweepOnStart ==
  ASSUME IInv, sweep
  PROVE  OnStart'
  <1> SUFFICES ASSUME Decodable(section)
               PROVE  code' \in section.starts \cup {section.size}
    BY DEF OnStart, sweep
  <1> DEFINE next == code + LengthFrom(section.bytes[code])
  <1>1. section \in Sections /\ section.size \in Nat
    BY SectionTypes DEF IInv
  <1>2. code \in section.starts /\ code' = next
    BY SweepDecodes
  <1>3. next <= section.size
    BY <1>2 DEF Decodable
  <1>4. next \in section.starts \/ next >= section.size
    BY <1>1, <1>2, Successor
  <1>5. next \in Nat
    BY <1>1, <1>2, StartTypes, Lengths
  <1> HIDE DEF next
  <1> QED
    BY <1>1, <1>2, <1>3, <1>4, <1>5

\* It patches the ECALL it meets, and nothing else.
LEMMA SweepPatches ==
  ASSUME IInv, sweep
  PROVE  ExactlyEcallsPatched'
  <1>1. section \in Sections /\ section' = section
    BY DEF IInv, sweep
  <1> DEFINE D == 0 .. section.size + Margin - 1
  <1>2. text \in [D -> Byte] /\ code \in Nat /\ D \subseteq Nat
    BY <1>1, SectionTypes DEF IInv, TypeOK
  <1> HIDE DEF D
  <1> SUFFICES ASSUME Decodable(section)
               PROVE  DOMAIN text' = D /\ \A a \in D : text'[a] = Expected(section, code', a)
    BY <1>1 DEF ExactlyEcallsPatched, Expected, Swept, Offset
  <1>3. \A a \in D : text[a] = Expected(section, code, a)
    BY <1>2 DEF IInv, ExactlyEcallsPatched, Expected, Swept, Offset
  <1>4. /\ code \in section.starts
        /\ code' = code + LengthFrom(section.bytes[code])
        /\ text' = IF IsEcall(section, code) THEN Overwrite(text, code, JALR) ELSE text
    BY SweepDecodes
  <1>5. CASE IsEcall(section, code)
    <2>1. code' = code + 4
      BY <1>1, <1>4, <1>5, EcallLength
    <2>2. /\ text' \in [D -> Byte]
          /\ \A a \in D : text'[a] = Patched(text, code, a)
      <3>1. text' = Overwrite(text, code, JALR)
        BY <1>4, <1>5
      <3>2. /\ Overwrite(text, code, JALR) \in [D -> Byte]
            /\ \A a \in D : Overwrite(text, code, JALR)[a] = Patched(text, code, a)
        BY <1>2, OverwriteEffect, ZenonT(40)
      <3> QED
        BY <3>1, <3>2, Zenon
    <2>3. \A a \in D : Expected(section, code + 4, a) =
            IF a \in code .. code + 3 THEN JALR[a - code + 1] ELSE Expected(section, code, a)
      BY <1>1, <1>2, <1>5, PastEcall
    <2> QED
      BY <1>3, <2>1, <2>2, <2>3 DEF Patched
  <1>6. CASE ~ IsEcall(section, code)
    <2>1. \A a \in D : Expected(section, code', a) = Expected(section, code, a)
      BY <1>1, <1>2, <1>4, <1>6, PastOther
    <2> QED
      BY <1>2, <1>3, <1>4, <1>6, <2>1
  <1> QED
    BY <1>5, <1>6

\* It stays inside the mapping, whatever it meets there.
LEMMA SweepInside ==
  ASSUME IInv, sweep
  PROVE  TypeOK' /\ InsideMapping'
  <1>1. section \in Sections /\ section' = section /\ TypeOK
    BY DEF IInv, sweep
  <1> DEFINE D == 0 .. section.size + Margin - 1
  <1>2. /\ text \in [D -> Byte] /\ D \subseteq Nat
        /\ code \in Nat /\ section.size \in Nat
    BY <1>1, SectionTypes DEF TypeOK
  <1>3. PICK n \in {1, 2, 4} :
           /\ code' = code + n /\ code + n <= section.size
           /\ \/ text' = text
              \/ n = 4 /\ text' = Overwrite(text, code, JALR)
    BY <1>1, SweepEffect, Zenon
  <1>4. code' \in 0 .. section.size
    BY <1>2, <1>3
  <1>5. \A a \in D : a >= section.size => text[a] = section.bytes[a]
    BY <1>2 DEF IInv, InsideMapping
  <1> HIDE DEF D
  <1>6. text' \in [D -> Byte] /\ \A a \in D : a >= section.size => text'[a] = text[a]
    <2>1. CASE text' = text
      BY <1>2, <2>1
    <2>2. CASE n = 4 /\ text' = Overwrite(text, code, JALR)
      <3>1. /\ text' \in [D -> Byte]
            /\ \A a \in D : text'[a] = Patched(text, code, a)
        <4>1. /\ Overwrite(text, code, JALR) \in [D -> Byte]
              /\ \A a \in D : Overwrite(text, code, JALR)[a] = Patched(text, code, a)
          BY <1>2, OverwriteEffect, ZenonT(40)
        <4> QED
          BY <2>2, <4>1, Zenon
      <3>2. \A a \in D : a >= section.size => a \notin code .. code + 3
        BY <1>2, <1>3, <2>2
      <3> QED
        BY <3>1, <3>2 DEF Patched
    <2> QED
      BY <1>3, <2>1, <2>2
  <1>7. InsideMapping'
    BY <1>1, <1>5, <1>6 DEF InsideMapping
  <1>8. TypeOK'
    BY <1>1, <1>4, <1>6 DEF TypeOK, sweep, D
  <1> QED
    BY <1>7, <1>8

\* A jump stands where four bytes have been overwritten.
LEMMA OverwriteSpells ==
  ASSUME NEW D, NEW m \in [D -> Byte], NEW a \in Nat, a .. a + 3 \subseteq D
  PROVE  BytesAt(Overwrite(m, a, JALR), a, 4) = JALR
  <1>1. ASSUME NEW k \in 1 .. 4
        PROVE  Overwrite(m, a, JALR)[a + k - 1] = JALR[k]
    <2>1. a + k - 1 \in a .. a + 3 /\ (a + k - 1) - a + 1 = k
      OBVIOUS
    <2>2. Overwrite(m, a, JALR)[a + k - 1] = Patched(m, a, a + k - 1)
      BY <2>1, OverwriteEffect
    <2> QED
      BY <2>1, <2>2 DEF Patched
  <1>2. BytesAt(Overwrite(m, a, JALR), a, 4) = [k \in 1 .. 4 |-> JALR[k]]
    BY <1>1, Zenon DEF BytesAt
  <1>3. [k \in 1 .. 4 |-> JALR[k]] = JALR
    BY DEF JALR
  <1> QED
    BY <1>2, <1>3

\* Whatever it meets, it alters only four bytes that the linker left as ECALL:
\* nothing it has altered before reaches as far as code.
LEMMA SweepSpells ==
  ASSUME IInv, sweep
  PROVE  OnlyEcallBytesPatched'
  <1>1. section \in Sections /\ section' = section /\ TypeOK
    BY DEF IInv, sweep
  <1> DEFINE D == 0 .. section.size + Margin - 1
             Spelled(m, c, a) == \E s \in a - 3 .. a :
                                   /\ s >= 0 /\ s + 4 <= c
                                   /\ BytesAt(section.bytes, s, 4) = ECALL
                                   /\ BytesAt(m, s, 4) = JALR
  <1>2. /\ text \in [D -> Byte] /\ D \subseteq Nat
        /\ code \in Nat /\ section.size \in Nat /\ Margin \in Nat
    BY <1>1, SectionTypes DEF TypeOK
  <1>3. PICK n \in {1, 2, 4} :
           /\ code' = code + n /\ code + n <= section.size
           /\ \/ text' = text
              \/ /\ n = 4 /\ text' = Overwrite(text, code, JALR)
                 /\ BytesAt(text, code, 4) = ECALL
    BY <1>1, SweepEffect
  <1>4. \A a \in D : text[a] # section.bytes[a] => Spelled(text, code, a)
    BY <1>2 DEF IInv, OnlyEcallBytesPatched
  <1>5. SUFFICES DOMAIN text' = D
                 /\ \A a \in D : text'[a] # section.bytes[a] => Spelled(text', code', a)
    BY <1>1 DEF OnlyEcallBytesPatched
  <1>6. CASE text' = text
    <2>1. \A a \in D : Spelled(text, code, a) => Spelled(text', code', a)
      BY <1>2, <1>3, <1>6
    <2> HIDE DEF Spelled
    <2> QED
      BY <1>2, <1>4, <1>6, <2>1
  <1>7. CASE /\ n = 4 /\ text' = Overwrite(text, code, JALR)
             /\ BytesAt(text, code, 4) = ECALL
    <2>1. code .. code + 3 \subseteq D /\ code' = code + 4
      BY <1>2, <1>3, <1>7
    <2>2. \A b \in code .. code + 3 : text[b] = section.bytes[b]
      BY <1>2, <1>4, <2>1
    <2>3. BytesAt(section.bytes, code, 4) = ECALL
      <3>1. \A b \in code .. code + 4 - 1 : text[b] = section.bytes[b]
        BY <1>2, <2>2
      <3>2. code \in Nat /\ 4 \in Nat
        BY <1>2
      <3>3. BytesAt(text, code, 4) = BytesAt(section.bytes, code, 4)
        BY ONLY <3>1, <3>2, BytesAtEqual, ZenonT(40)
      <3> QED
        BY <1>7, <3>3
    <2> HIDE DEF D
    <2>4. BytesAt(text', code, 4) = JALR
      BY <1>2, <1>7, <2>1, OverwriteSpells
    <2>5. /\ text' \in [D -> Byte]
          /\ \A b \in D : text'[b] = Patched(text, code, b)
      <3>1. /\ Overwrite(text, code, JALR) \in [D -> Byte]
            /\ \A b \in D : Overwrite(text, code, JALR)[b] = Patched(text, code, b)
        BY <1>2, OverwriteEffect, ZenonT(40)
      <3> QED
        BY <1>7, <3>1, Zenon
    <2>6. ASSUME NEW a \in D, a \in code .. code + 3
          PROVE  Spelled(text', code', a)
      <3>1. code \in a - 3 .. a /\ code >= 0 /\ code + 4 <= code'
        BY <1>2, <2>1, <2>6
      <3> QED
        BY <2>3, <2>4, <3>1, Zenon
    <2>7. ASSUME NEW a \in D, a \notin code .. code + 3, text'[a] # section.bytes[a]
          PROVE  Spelled(text', code', a)
      <3>1. text[a] # section.bytes[a]
        BY <2>5, <2>7 DEF Patched
      <3>2. PICK s \in a - 3 .. a : /\ s >= 0 /\ s + 4 <= code
                                    /\ BytesAt(section.bytes, s, 4) = ECALL
                                    /\ BytesAt(text, s, 4) = JALR
        BY <1>4, <2>7, <3>1
      <3>3. s \in Nat /\ s + 4 <= code' /\ s .. s + 3 \subseteq D
        BY <1>2, <1>3, <2>1, <3>2 DEF D
      <3>4. \A b \in s .. s + 3 : b \notin code .. code + 3
        BY <1>2, <3>2, <3>3
      <3>5. \A b \in s .. s + 4 - 1 : text'[b] = text[b]
        BY <2>5, <3>3, <3>4 DEF Patched
      <3>6. s \in Nat /\ 4 \in Nat
        BY <3>3
      <3>7. BytesAt(text', s, 4) = BytesAt(text, s, 4)
        BY ONLY <3>5, <3>6, BytesAtEqual, ZenonT(40)
      <3> QED
        BY <3>2, <3>3, <3>7, Zenon
    <2> HIDE DEF Spelled
    <2> QED
      BY <2>5, <2>6, <2>7
  <1> QED
    BY <1>3, <1>6, <1>7

\* Every step keeps the invariant.
LEMMA NextIInv == IInv /\ [Next]_vars => IInv'
  <1> SUFFICES ASSUME IInv, [Next]_vars PROVE IInv'
    OBVIOUS
  <1>1. ASSUME UNCHANGED <<section, text, code>>, TypeOK'
        PROVE  IInv'
    BY <1>1, Zenon DEF IInv, OnStart, ExactlyEcallsPatched, OnlyEcallBytesPatched,
       InsideMapping
  <1>2. CASE intercept_disasm_init
    BY <1>1, <1>2 DEF IInv, TypeOK, intercept_disasm_init
  <1>3. CASE sweep
    BY <1>3, SweepOnStart, SweepPatches, SweepSpells, SweepInside DEF IInv, sweep
  <1>4. CASE sweep_ends
    BY <1>1, <1>4 DEF IInv, TypeOK, sweep_ends
  <1>5. CASE intercept_disasm_destroy
    BY <1>1, <1>5 DEF IInv, TypeOK, intercept_disasm_destroy
  <1>6. CASE UNCHANGED vars
    BY <1>1, <1>6 DEF IInv, TypeOK, vars
  <1> QED
    BY <1>2, <1>3, <1>4, <1>5, <1>6 DEF Next, Stopped

\* Whatever the mapping, the instructions in it and the ones capstone knows: the
\* loop of disassemble_and_rewrite keeps inside the mapping, alters only bytes
\* that spell ECALL, and when capstone knows all the instructions it overwrites
\* each ECALL before code with the jump and no other byte.
THEOREM SweepCorrect ==
  Spec => [](TypeOK /\ ExactlyEcallsPatched /\ OnlyEcallBytesPatched /\ InsideMapping)
  <1>1. IInv => TypeOK /\ ExactlyEcallsPatched /\ OnlyEcallBytesPatched /\ InsideMapping
    BY DEF IInv
  <1> QED
    BY <1>1, InitIInv, NextIInv, PTL DEF Spec

-----------------------------------------------------------------------------
(***************************************************************************)
(* The end of the sweep.                                                   *)
(***************************************************************************)

\* The loop ends at the end of the mapping only.
SweptAll == at \in {"destroy", "done"} => code >= section.size

LEMMA SweptAllInv == Spec => []SweptAll
  <1>1. Init => SweptAll
    BY DEF Init, SweptAll
  <1>2. SweptAll /\ [Next]_vars => SweptAll'
    <2> SUFFICES ASSUME SweptAll, [Next]_vars PROVE SweptAll'
      OBVIOUS
    <2>1. CASE intercept_disasm_init
      BY <2>1 DEF SweptAll, intercept_disasm_init
    <2>2. CASE sweep
      BY <2>2 DEF SweptAll, sweep
    <2>3. CASE sweep_ends
      BY <2>3 DEF SweptAll, sweep_ends
    <2>4. CASE intercept_disasm_destroy
      BY <2>4 DEF SweptAll, intercept_disasm_destroy
    <2>5. CASE UNCHANGED vars
      BY <2>5 DEF SweptAll, vars
    <2> QED
      BY <2>1, <2>2, <2>3, <2>4, <2>5 DEF Next, Stopped
  <1> QED
    BY <1>1, <1>2, PTL DEF Spec

\* An ECALL that the sweep has passed is a jump.
LEMMA PassedEcall ==
  ASSUME IInv, Decodable(section), NEW s, IsEcall(section, s), s < code
  PROVE  BytesAt(text, s, 4) = JALR
  <1>1. section \in Sections /\ section.size \in Nat /\ Margin \in Nat
    BY SectionTypes DEF IInv
  <1>2. s \in Nat /\ s + 4 <= section.size
    BY <1>1, StartTypes DEF IsEcall
  <1>3. ASSUME NEW k \in 1 .. 4
        PROVE  text[s + k - 1] = JALR[k]
    <2> DEFINE a == s + k - 1
               j == k - 1
    <2>1. a \in Nat /\ j \in 0 .. 3 /\ a - j = s /\ j + 1 = k
      BY <1>2
    <2>2. a \in 0 .. section.size + Margin - 1
      BY <1>1, <1>2
    <2> HIDE DEF a, j
    <2>3. a \in DOMAIN text
      BY <2>2 DEF IInv, TypeOK
    <2>4. Swept(section, code, a) /\ IsEcall(section, a - j)
      BY <2>1, Zenon DEF Swept
    <2>5. Offset(section, a) = j
      BY <1>1, <2>1, <2>4, EcallChosen, Zenon
    <2>6. text[a] = Expected(section, code, a)
      BY <2>3, Zenon DEF IInv, ExactlyEcallsPatched, Expected, Swept, Offset
    <2>7. text[a] = JALR[k]
      BY <2>1, <2>4, <2>5, <2>6 DEF Expected
    <2> QED
      BY <2>7 DEF a
  <1>4. BytesAt(text, s, 4) = [k \in 1 .. 4 |-> JALR[k]]
    BY <1>3, Zenon DEF BytesAt
  <1>5. [k \in 1 .. 4 |-> JALR[k]] = JALR
    BY DEF JALR
  <1> QED
    BY <1>4, <1>5

\* When disassemble_and_rewrite is through with a mapping all of whose
\* instructions capstone knows, no ECALL is left in it: what its comment says is
\* true of such mappings.
THEOREM SweepComplete == Spec => [](Decodable(section) => AllEcallsRewritten)
  <1>1. IInv /\ SweptAll => (Decodable(section) => AllEcallsRewritten)
    <2> SUFFICES ASSUME IInv, SweptAll, Decodable(section), at = "done",
                        NEW s \in section.starts, IsEcall(section, s)
                 PROVE  BytesAt(text, s, 4) = JALR
      BY DEF AllEcallsRewritten
    <2>1. s \in Nat /\ s < section.size /\ section.size \in Nat /\ code \in Nat
      BY StartTypes, SectionTypes DEF IInv, TypeOK
    <2>2. s < code
      BY <2>1 DEF SweptAll
    <2> QED
      BY <2>2, PassedEcall
  <1> QED
    BY <1>1, InitIInv, NextIInv, SweptAllInv, PTL DEF Spec
=============================================================================
