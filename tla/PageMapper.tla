----------------------------- MODULE PageMapper -----------------------------
(***************************************************************************)
(* The four-level page-table walk of the UEFI bootloader's map_page        *)
(* (bootloader/uefi/src/arch/x86_64/paging.rs) over the entry types of     *)
(* libs/arch/x86_64/src/paging.                                            *)
(*                                                                         *)
(* Physical memory is a set of frames; every frame can be read as a table  *)
(* of TableEntries entries (the code's 512, scaled down).  An entry keeps   *)
(* the bits the walk reads: PRESENT, WRITABLE, PAGE_SIZE and the address   *)
(* field.  A virtual page is the tuple of its four table indices, the      *)
(* only part of the address map_page uses.  The firmware's tables (reached *)
(* from CR3) are in memory at Init and may sit on write-protected frames;  *)
(* the frames the allocator hands out hold garbage until zeroed.           *)
(***************************************************************************)
EXTENDS Naturals, FiniteSets

CONSTANTS
  Frames,          \* physical frames, 0 is physical page 0
  Root,            \* the PML4 frame, CR3::read().pml4_table_address()
  TableEntries,    \* entries per table (TABLE_ENTRIES, scaled)
  ReadOnlyFrames,  \* frames the firmware maps read-only (its own tables)
  FreeFrames,      \* frames allocate_pages may still hand out
  VAddrs,          \* virtual pages callers pass to map_page
  DataFrames,      \* physical pages callers pass to map_page
  FirmwareMemory,  \* the table view of every frame at hand-off
  NoMapping,
  NoRequest

Idx == 0 .. (TableEntries - 1)

Entry == [present : BOOLEAN, writable : BOOLEAN, pageSize : BOOLEAN, addr : Frames]

ASSUME /\ Root \in Frames /\ FreeFrames \subseteq Frames /\ DataFrames \subseteq Frames
       /\ VAddrs \subseteq (Idx \X Idx \X Idx \X Idx)
       /\ FirmwareMemory \in [Frames -> [Idx -> Entry]]

VARIABLES
  mem,      \* the table view of each frame
  free,     \* frames the firmware allocator has not handed out
  wp,       \* CR0.WP: supervisor writes to read-only pages fault
  pc,       \* "idle", "walk" (inside map_page_inner), "restore", "halted"
  cur,      \* the walk in progress: virtual page, target, level, table
  faulted   \* a table write hit a read-only frame while CR0.WP was set

vars == <<mem, free, wp, pc, cur, faulted>>

(***************************************************************************)
(* Entry encodings.                                                        *)
(***************************************************************************)

\* set_unused(): the all-zero word.
Unused == [present |-> FALSE, writable |-> FALSE, pageSize |-> FALSE, addr |-> 0]

\* set_unused(); set_page(f); set_flags(PRESENT | WRITABLE)
PresentWritable(f) == [present |-> TRUE, writable |-> TRUE, pageSize |-> FALSE, addr |-> f]

\* write_bytes(page, 0, ALLOCATE_PAGE_SIZE) seen as a table
ZeroedTable == [i \in Idx |-> Unused]

\* pml4_table_index, pdp_table_index, pd_table_index, page_table_index
TableIndex(va, level) == va[5 - level]

\* A write to frame t faults when t is read-only and CR0.WP is set.
Protected(t) == wp /\ t \in ReadOnlyFrames

(***************************************************************************)
(* The hardware's translation of a virtual page (Intel SDM 4.5), used as   *)
(* the refinement mapping; it is not code of the repository.              *)
(***************************************************************************)
Translate(va) ==
  LET e4 == mem[Root][va[1]]
      e3 == mem[e4.addr][va[2]]
      e2 == mem[e3.addr][va[3]]
      e1 == mem[e2.addr][va[4]]
  IN  CASE ~e4.present                -> NoMapping
        [] ~e3.present                -> NoMapping
        [] e3.pageSize                -> [frame |-> e3.addr, size |-> "1G"]
        [] ~e2.present                -> NoMapping
        [] e2.pageSize                -> [frame |-> e2.addr, size |-> "2M"]
        [] ~e1.present                -> NoMapping
        [] OTHER                      -> [frame |-> e1.addr, size |-> "4K"]

(***************************************************************************)
(* Actions.                                                                *)
(***************************************************************************)

Init ==
  /\ mem = FirmwareMemory
  /\ free = FreeFrames
  /\ wp = TRUE
  /\ pc = "idle"
  /\ cur = [va |-> CHOOSE va \in VAddrs : TRUE, pa |-> 0, level |-> 4, table |-> Root]
  /\ faulted = FALSE

\* Mutant: map_page without set_write_protect(false).
MapPageKeepsWriteProtect(va, pa) ==
  /\ pc = "idle"
  /\ pc' = "walk"
  /\ cur' = [cur EXCEPT !.va = va, !.pa = pa, !.level = 4, !.table = Root]
  /\ UNCHANGED <<mem, free, wp, faulted>>

\* map_page(virtual_start, page_address): the caller's arguments are
\* already a canonical virtual page and a 4 KiB aligned frame; write
\* protection is cleared, then map_page_inner starts at CR3's PML4.
MapPage(va, pa) ==
  /\ pc = "idle"
  /\ wp' = FALSE
  /\ pc' = "walk"
  /\ cur' = [va |-> va, pa |-> pa, level |-> 4, table |-> Root]
  /\ UNCHANGED <<mem, free, faulted>>

\* panic!/expect: the panic handler prints and loops; nothing runs after.
Panic ==
  /\ pc' = "halted"
  /\ UNCHANGED <<mem, free, wp, cur, faulted>>

\* The entry the walk reads at the current level.
CurrentEntry == mem[cur.table][TableIndex(cur.va, cur.level)]

\* Mutant: the PAGE_SIZE check made on the PD level only.
LargePageConflictPdOnly == cur.level = 2 /\ CurrentEntry.pageSize

\* The PAGE_SIZE check, made on the PDPT and PD levels only.
LargePageConflict == cur.level \in {3, 2} /\ CurrentEntry.pageSize

\* Mutant: the walk also descends from a present page-table entry.
DescendPastLeaf ==
  /\ pc = "walk"
  /\ cur.level > 0
  /\ ~LargePageConflict
  /\ CurrentEntry.present
  /\ cur' = [cur EXCEPT !.level = @ - 1, !.table = CurrentEntry.addr]
  /\ UNCHANGED <<mem, free, wp, pc, faulted>>

\* An intermediate entry that is present: descend to the table it names.
Descend ==
  /\ pc = "walk"
  /\ cur.level > 1
  /\ ~LargePageConflict
  /\ CurrentEntry.present
  /\ cur' = [cur EXCEPT !.level = @ - 1, !.table = CurrentEntry.addr]
  /\ UNCHANGED <<mem, free, wp, pc, faulted>>

\* allocate_page(): one page of LoaderData from the firmware, or the
\* expect("Could not allocate page") panic when none is left.
AllocateFails ==
  /\ pc = "walk"
  /\ cur.level > 1
  /\ ~LargePageConflict
  /\ ~CurrentEntry.present
  /\ free = {}
  /\ Panic

\* Mutant: the fresh page is installed without write_bytes zeroing it.
AllocateTableUnzeroed ==
  /\ pc = "walk"
  /\ cur.level > 1
  /\ ~LargePageConflict
  /\ ~CurrentEntry.present
  /\ \E f \in free :
       /\ free' = free \ {f}
       /\ mem' = [mem EXCEPT ![cur.table][TableIndex(cur.va, cur.level)] = PresentWritable(f)]
       /\ faulted' = (faulted \/ Protected(cur.table))
       /\ cur' = [cur EXCEPT !.level = @ - 1, !.table = f]
  /\ UNCHANGED <<wp, pc>>

\* An intermediate entry that is absent: allocate a page, zero it, point
\* the entry at it as PRESENT | WRITABLE, and descend into it.
AllocateTable ==
  /\ pc = "walk"
  /\ cur.level > 1
  /\ ~LargePageConflict
  /\ ~CurrentEntry.present
  /\ \E f \in free :
       /\ free' = free \ {f}
       /\ mem' = [mem EXCEPT ![f] = ZeroedTable,
                             ![cur.table][TableIndex(cur.va, cur.level)] = PresentWritable(f)]
       /\ faulted' = (faulted \/ Protected(f) \/ Protected(cur.table))
       /\ cur' = [cur EXCEPT !.level = @ - 1, !.table = f]
  /\ UNCHANGED <<wp, pc>>

\* "Virtual address was already exist": a large page on the PDPT or PD
\* level, or a present entry in the page table.
MappingConflict ==
  /\ pc = "walk"
  /\ \/ LargePageConflict
     \/ cur.level = 1 /\ CurrentEntry.present
  /\ Panic

\* The page-table entry is free: install the target page.
InstallPage ==
  /\ pc = "walk"
  /\ cur.level = 1
  /\ ~CurrentEntry.present
  /\ mem' = [mem EXCEPT ![cur.table][TableIndex(cur.va, 1)] = PresentWritable(cur.pa)]
  /\ faulted' = (faulted \/ Protected(cur.table))
  /\ pc' = "restore"
  /\ UNCHANGED <<free, wp, cur>>

\* CR0::read().set_write_protect(true) after map_page_inner returns.
RestoreWriteProtect ==
  /\ pc = "restore"
  /\ wp' = TRUE
  /\ pc' = "idle"
  /\ UNCHANGED <<mem, free, cur, faulted>>

Next ==
  \/ \E va \in VAddrs, pa \in DataFrames : MapPage(va, pa)
  \/ Descend
  \/ AllocateTable
  \/ AllocateFails
  \/ MappingConflict
  \/ InstallPage
  \/ RestoreWriteProtect

\* The loader is the only thread: every step it can take, it takes.
Spec == Init /\ [][Next]_vars /\ WF_vars(Next)

(***************************************************************************)
(* Properties.                                                             *)
(***************************************************************************)

TypeOK ==
  /\ mem \in [Frames -> [Idx -> Entry]]
  /\ free \subseteq FreeFrames
  /\ wp \in BOOLEAN
  /\ pc \in {"idle", "walk", "restore", "halted"}
  /\ cur \in [va : VAddrs, pa : {0} \cup DataFrames, level : 1 .. 4, table : Frames]
  /\ faulted \in BOOLEAN

\* The table pointers reachable from CR3: the slot holding a present,
\* non-large entry on levels 4 to 2, the frame it names and that frame's
\* level.
RECURSIVE Links(_, _)
Links(t, level) ==
  IF level = 1 THEN {}
  ELSE LET slots == {i \in Idx : mem[t][i].present /\ ~(level < 4 /\ mem[t][i].pageSize)}
       IN  {[slot |-> <<t, i>>, to |-> mem[t][i].addr, level |-> level - 1] : i \in slots}
           \cup UNION {Links(mem[t][i].addr, level - 1) : i \in slots}

\* The hierarchy stays a tree whose leaves are data: no two table pointers
\* name the same frame, none names the PML4, and no page-table entry maps
\* a frame that holds a table.  It breaks when a fresh table is not zeroed
\* (its garbage entries point into live tables) or a frame in use is
\* handed out again, and then a later map_page writes through one table
\* into the translations of another.
TablesFormTree ==
  LET links  == Links(Root, 4)
      tables == {Root} \cup {l.to : l \in links}
  IN  /\ \A l1, l2 \in links : l1.to = l2.to => l1.slot = l2.slot
      /\ \A l \in links : l.to # Root
      /\ \A t \in {l.to : l \in {k \in links : k.level = 1}}, i \in Idx :
           mem[t][i].present => mem[t][i].addr \notin tables

\* No write to the page tables faults: every table write made while the
\* firmware's read-only tables are protected would be a #PF in the loader.
\* map_page clears CR0.WP before map_page_inner writes the first entry.
NoProtectionFault == ~faulted

\* map_page implements AddressSpace: the hardware translation of every
\* page changes only when a call completes, and then only for the page
\* asked for, which had no translation and now maps the given frame as a
\* 4 KiB page; an abort (conflict or exhausted allocator) leaves every
\* translation as it was, whatever tables it had already created.
AS == INSTANCE AddressSpace WITH
        mapping <- [va \in VAddrs |-> Translate(va)],
        request <- IF pc \in {"walk", "halted"} THEN <<cur.va, cur.pa>> ELSE NoRequest,
        halted  <- (pc = "halted")

AddressSpaceRefined == AS!Spec

\* CR0.WP is set again whenever map_page is not running, including after
\* a fatal abort inside it (spec section 5: write protection is a scoped
\* resource, restored on every exit path of map_page).
WriteProtectRestored == pc \in {"idle", "halted"} => wp
====
