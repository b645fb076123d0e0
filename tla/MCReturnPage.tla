---------------------------- MODULE MCReturnPage ----------------------------
(***************************************************************************)
(* ReturnPage with the page size, instruction sizes and gp reach of the    *)
(* machine.  The original data pages are placed around 0x10000; offsets of *)
(* the global pointer are taken in steps of 8 bytes and at the edges.      *)
(***************************************************************************)
EXTENDS ReturnPage

DataPage == 16 * PageSize

AllOffsets == {8 * k : k \in 0 .. (PageSize \div 8) - 1}
AllPointers == {DataPage + o : o \in AllOffsets}

FittingPointers == {g \in AllPointers : FittingOffset(g)}

\* pages far below and above the data of the program
Regions == {4 * PageSize, 64 * PageSize}

\* the 12-bit signed displacements of loads and stores, at their edges, at the
\* edges of the two pieces of code and at both ends of the page for gp at .data + 0x800
GpReach == {-2048, -2047, -57, -56, -1, 0, 1, 79, 80, 2046, 2047}
=============================================================================
