---------------------------- MODULE PageTableEntry ----------------------------
(***************************************************************************)
(* One entry word of libs/arch/x86_64/src/paging: PML4Entry (level 4),     *)
(* PDPTEntry (3), PDEntry (2) and PTEntry (1), with the PageEntry trait's   *)
(* set_flags, clear_flags and set_unused and each type's set_page and       *)
(* address, at the word width of AddressTypes.                             *)
(*                                                                         *)
(* The flag bits kept are PRESENT (bit 0), WRITABLE (bit 1), PAGE_SIZE      *)
(* (bit 7, scaled to bit 2; only PDPT and PD entries have it) and           *)
(* EXECUTE_DISABLE (bit 63, the top bit of the word).  The address field    *)
(* spans bits PageShift .. PhysBits-1; a large page's field starts one or   *)
(* two index widths higher, as ADDRESS_MASK_2MB and ADDRESS_MASK_1GB do.    *)
(*                                                                         *)
(* PageMapper reads an entry as a record [present, writable, pageSize,     *)
(* addr]; the ghost variable view is that record, updated the way          *)
(* PageMapper assumes each entry operation updates it.                     *)
(***************************************************************************)
EXTENDS Naturals, Bitwise

CONSTANTS Width, PhysBits, PageShift, IndexBits, PageAddrs

LOCAL A == INSTANCE AddressTypes
           WITH VirtBits <- PageShift + 4 * IndexBits, Aligns <- {}, call <- 0

Low(n) == 2^n - 1
Complement(x) == Low(Width) - x

\* The flag constants of PML4EntryFlags, PDPTEntryFlags, PDEntryFlags and
\* PTEntryFlags that the loader and the firmware use.
PRESENT == 1
WRITABLE == 2
PAGE_SIZE == 4
EXECUTE_DISABLE == 2^(Width - 1)

\* PAGE_SIZE_4KB, PAGE_SIZE_2MB, PAGE_SIZE_1GB.
PageSize(large, level) ==
  IF large THEN 2^(PageShift + (level - 1) * IndexBits) ELSE 2^PageShift

\* Mutant: the 4 KiB mask is !(PAGE_SIZE_4KB - 1), which takes in the flag
\* bits above bit 51.
address_mask_too_wide(large, level) ==
  IF large THEN Low(PhysBits) - (2^(PageShift + (level - 1) * IndexBits) - 1)
  ELSE Low(Width) - (2^PageShift - 1)

\* ADDRESS_MASK_4KB, ADDRESS_MASK_2MB, ADDRESS_MASK_1GB: the address bits
\* from the page size up to bit 51.
AddressMask(large, level) == Low(PhysBits) - (PageSize(large, level) - 1)

\* PageEntryFlags::contains: bits & flags == flags.
contains(w, f) == (w & f) = f

\* The entry is a large page: only PDPT and PD entries test PAGE_SIZE.
IsLarge(level, w) == level \in {2, 3} /\ contains(w, PAGE_SIZE)

\* The mask set_page and address use for this entry.
EntryMask(level, w) == AddressMask(IsLarge(level, w), level)

\* PTEntry::address and PML4Entry::address: the 4 KiB address field.
PTAddress(w) == w & AddressMask(FALSE, 1)
PML4Address(w) == w & AddressMask(FALSE, 4)

\* PDEntry::address and PDPTEntry::address: the 2 MiB or 1 GiB field when
\* PAGE_SIZE is set, else the 4 KiB one.
PDAddress(w) == w & EntryMask(2, w)
PDPTAddress(w) == w & EntryMask(3, w)

\* PageEntry::address of the entry type at this level.
address(level, w) ==
  CASE level = 1 -> PTAddress(w)
    [] level = 2 -> PDAddress(w)
    [] level = 3 -> PDPTAddress(w)
    [] level = 4 -> PML4Address(w)

VARIABLES
  level,     \* which of the four entry types this word is
  word,      \* the raw u64
  view,      \* the record PageMapper reads the entry as
  panicked   \* set_page's alignment assert failed

vars == <<level, word, view, panicked>>

Unused == [present |-> FALSE, writable |-> FALSE, pageSize |-> FALSE,
           noExec |-> FALSE, addr |-> 0]

\* The entry a table holds when the walk reaches it: zeroed or as the
\* firmware left it (a present table pointer or large page).
Init ==
  /\ level \in 1 .. 4
  /\ word \in {0} \cup {PRESENT + WRITABLE + a : a \in PageAddrs}
              \cup IF level \in {2, 3}
                   THEN {PRESENT + WRITABLE + PAGE_SIZE + a :
                           a \in {p \in PageAddrs : A!is_aligned(p, PageSize(TRUE, level))}}
                   ELSE {}
  /\ view = [present |-> contains(word, PRESENT), writable |-> contains(word, WRITABLE),
             pageSize |-> IsLarge(level, word), noExec |-> FALSE,
             addr |-> address(level, word)]
  /\ panicked = FALSE

\* PageEntry::set_unused: set_bits(0).
SetUnused ==
  /\ ~panicked
  /\ word' = 0
  /\ view' = Unused
  /\ UNCHANGED <<level, panicked>>

\* The word set_page(a) leaves: the bits outside the mask kept, a's bits
\* under it, with the mask of each type's set_page (4 KiB for PTEntry and
\* PML4Entry, by PAGE_SIZE for PDEntry and PDPTEntry).
SetPageBits(w, a, mask) == (w & Complement(mask)) | (a & mask)

PTSetPage(w, a) == SetPageBits(w, a, AddressMask(FALSE, 1))
PDSetPage(w, a) == SetPageBits(w, a, EntryMask(2, w))
PDPTSetPage(w, a) == SetPageBits(w, a, EntryMask(3, w))
PML4SetPage(w, a) == SetPageBits(w, a, AddressMask(FALSE, 4))

\* set_page(address): assert! the address is aligned to the entry's page
\* size, then replace the bits under the mask.
SetPage(a) ==
  /\ ~panicked
  /\ IF A!is_aligned(a, PageSize(IsLarge(level, word), level))
     THEN /\ word' = CASE level = 1 -> PTSetPage(word, a)
                       [] level = 2 -> PDSetPage(word, a)
                       [] level = 3 -> PDPTSetPage(word, a)
                       [] level = 4 -> PML4SetPage(word, a)
          /\ view' = [view EXCEPT !.addr = a]
          /\ UNCHANGED panicked
     ELSE /\ panicked' = TRUE
          /\ UNCHANGED <<word, view>>
  /\ UNCHANGED level

\* The record fields a flag set turns on or off.
Touches(f, field) ==
  CASE field = "present" -> contains(f, PRESENT)
    [] field = "writable" -> contains(f, WRITABLE)
    [] field = "pageSize" -> contains(f, PAGE_SIZE)
    [] field = "noExec" -> contains(f, EXECUTE_DISABLE)

\* Mutant: the flags are added to the bits instead of or-ed in.
SetFlagsAdds(f) ==
  /\ ~panicked
  /\ word' = word + f
  /\ view' = [fl \in DOMAIN view |->
                IF fl # "addr" /\ Touches(f, fl) THEN TRUE ELSE view[fl]]
  /\ UNCHANGED <<level, panicked>>

\* set_flags: set_bits(bits | flags).
SetFlags(f) ==
  /\ ~panicked
  /\ word' = word | f
  /\ view' = [fl \in DOMAIN view |->
                IF fl # "addr" /\ Touches(f, fl) THEN TRUE ELSE view[fl]]
  /\ UNCHANGED <<level, panicked>>

\* clear_flags: set_bits(bits & !flags).
ClearFlags(f) ==
  /\ ~panicked
  /\ word' = word & Complement(f)
  /\ view' = [fl \in DOMAIN view |->
                IF fl # "addr" /\ Touches(f, fl) THEN FALSE ELSE view[fl]]
  /\ UNCHANGED <<level, panicked>>

\* The flag sets the loader passes (PRESENT | WRITABLE) and the other flags
\* every entry type defines.  PAGE_SIZE is never set or cleared by this
\* code: only the firmware's entries carry it, from Init.
FlagArgs == {PRESENT + WRITABLE, PRESENT, WRITABLE, EXECUTE_DISABLE}

Next ==
  \/ SetUnused
  \/ \E a \in PageAddrs : SetPage(a)
  \/ \E f \in FlagArgs : SetFlags(f) \/ ClearFlags(f)

Spec == Init /\ [][Next]_vars

(***************************************************************************)
(* Properties.                                                             *)
(***************************************************************************)

TypeOK ==
  /\ level \in 1 .. 4
  /\ word \in 0 .. Low(Width)
  /\ panicked \in BOOLEAN

\* The word decodes to the record PageMapper works with: each flag reads
\* back as last set or cleared, PAGE_SIZE only where the type has it, and
\* address() returns the address last given to set_page, cut to the page
\* size the entry has now.  A mask that overlaps a flag, or a set_page that
\* keeps stale address bits, makes the two disagree.
DecodesToView ==
  /\ contains(word, PRESENT) = view.present
  /\ contains(word, WRITABLE) = view.writable
  /\ IsLarge(level, word) = (view.pageSize /\ level \in {2, 3})
  /\ contains(word, EXECUTE_DISABLE) = view.noExec
  /\ address(level, word) = (view.addr & EntryMask(level, word))

====
