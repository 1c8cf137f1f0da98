---------------------------- MODULE MCAddressing ----------------------------
(***************************************************************************)
(* The addressing layer of libs/arch/x86_64 in one run: the address types  *)
(* of address.rs (AddressTypes) and the page-table entry words of          *)
(* paging/*.rs (PageTableEntry), which are built on them.  Both are pure   *)
(* functions of one word, so a behaviour exercises one of the two: unit    *)
(* says which, and the other's variables stay at an initial state of       *)
(* theirs.  The state space is the sum of the two, not their product.      *)
(*                                                                         *)
(* AddressTypes: a 10-bit word with a 2-bit page offset, four 1-bit        *)
(* indices (bit 5 is the sign bit) and 7 physical bits; the aligns include *)
(* 0 and 3, which the assert rejects, and a power of two as large as a     *)
(* 2 MiB page at this scale.                                               *)
(*                                                                         *)
(* PageTableEntry: the same word with a 3-bit page offset, so that the     *)
(* flag bits PRESENT, WRITABLE and PAGE_SIZE fit below the address field:  *)
(* pages of 8 (4 KiB), 16 (2 MiB) and 32 (1 GiB), physical addresses below *)
(* 2^8, EXECUTE_DISABLE at bit 9.  The addresses: 4 is misaligned, 8 is a  *)
(* 4 KiB page only, 48 a 2 MiB page, 96 and 224 1 GiB pages.               *)
(***************************************************************************)
EXTENDS Naturals

VARIABLES
  unit,                          \* "address" or "entry"
  call,                          \* AddressTypes
  level, word, view, panicked    \* PageTableEntry

AT == INSTANCE AddressTypes
        WITH Width <- 10, VirtBits <- 6, PhysBits <- 7, PageShift <- 2,
             IndexBits <- 1, Aligns <- {0, 1, 3, 4, 16}

PTE == INSTANCE PageTableEntry
         WITH Width <- 10, PhysBits <- 8, PageShift <- 3, IndexBits <- 1,
              PageAddrs <- {4, 8, 48, 96, 224}

entryVars == <<level, word, view, panicked>>
vars == <<unit, call, entryVars>>

Init ==
  \/ /\ unit = "address"
     /\ AT!Init
     /\ level = 1 /\ word = 0 /\ view = PTE!Unused /\ panicked = FALSE
  \/ /\ unit = "entry"
     /\ AT!Init
     /\ PTE!Init

Next ==
  \/ unit = "address" /\ AT!Next /\ UNCHANGED <<unit, entryVars>>
  \/ unit = "entry" /\ PTE!Next /\ UNCHANGED <<unit, call>>

Spec == Init /\ [][Next]_vars

\* Each word keeps its type: the call record of AddressTypes and the
\* entry word of PageTableEntry.
TypeOK == AT!TypeOK /\ PTE!TypeOK

\* The properties of AddressTypes and PageTableEntry, stated there.
AlignLaw == AT!AlignLaw
ConstructorsSound == AT!ConstructorsSound
IndicesDetermineAddress == AT!IndicesDetermineAddress
DecodesToView == PTE!DecodesToView
====
