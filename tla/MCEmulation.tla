---------------------------- MODULE MCEmulation -----------------------------
(***************************************************************************)
(* Small instances of Emulation for TLC: pages of 16 bytes, the original   *)
(* one at 16, the execute-only one at 96.  Data goes on after the original *)
(* page and ends with four read-only bytes.                                *)
(***************************************************************************)
EXTENDS Emulation

CONSTANTS t1, t2

TwoThreads == {t1, t2}

Memory == 16 .. 39
Constants == 36 .. 39
Rsi == [ret_sequence_page_addr |-> 96, protection_size |-> 16, start_addr_page |-> 16]

\* registers with all bytes different, their signs included
Contexts ==
  { [gregs |-> [r \in 0 .. 31 |-> [k \in 1 .. 8 |->
        IF r = 0 THEN 0 ELSE (7 * r + 101 * k) % 256]],
     fregs |-> [r \in 0 .. 31 |-> [k \in 1 .. 8 |-> (11 * r + 37 * k + 5) % 256]]] }

\* positive bytes at the beginning of the page, negative ones at its end
Memories == { [a \in Memory |-> IF a < 24 THEN 3 * a ELSE 100 + 3 * a] }

\* the registers an instruction of the given form can name, a few of them
SomeRegisters(row) ==
  CASE row.form \in {"CL", "CS"}               -> {9, 15}
    [] row.form = "CI" /\ row.file = "x"       -> {9, 31}
    [] OTHER                                   -> {0, 9}

InstructionSet(rows, addresses) ==
  UNION { [row : {row}, reg : SomeRegisters(row), gp : {a.gp}, addr : {a.addr}, imm : {1}] :
            row \in rows, a \in addresses }

InPage == [gp |-> TRUE, addr |-> 16]
AtItsEnd == [gp |-> TRUE, addr |-> 31]
NotFromGp == [gp |-> FALSE, addr |-> 16]
ReadOnlyData == [gp |-> FALSE, addr |-> 34]
Unmapped == [gp |-> FALSE, addr |-> 64]

\* one thread executes every instruction, the other gets in its way
Programs ==
  [t \in {t1, t2} |->
     IF t = t1
     THEN InstructionSet(LoadsAndStores, {InPage, AtItsEnd, NotFromGp, Unmapped})
     ELSE {i \in InstructionSet({row \in LoadsAndStores : row.mnemonic = "sd"},
                                {InPage, ReadOnlyData, Unmapped}) : i.reg = 9}]
=============================================================================
