----------------------------- MODULE PoolAllocator -----------------------------
(***************************************************************************)
(* The global allocator of the bootloader                                  *)
(* (libs/uefi/uefi_wrapper/src/allocator.rs) on top of the firmware pool   *)
(* (BootServices::allocate_pool and free_pool in boot_services.rs), and    *)
(* the alloc_error_handler of uefi_wrapper/src/lib.rs.                     *)
(*                                                                         *)
(* A layout with align <= 8 is served by allocate_pool directly.  A larger *)
(* align asks the pool for size + align bytes, moves the pointer up to the *)
(* next multiple of align (a whole align when it already is one), and     *)
(* stores the pool's pointer in the word just below the returned pointer; *)
(* dealloc reads that word back and frees it.                              *)
(*                                                                         *)
(* Memory is MemBytes bytes; mem holds the pointer-sized words the         *)
(* allocator writes, keyed by address.  The firmware hands out             *)
(* PoolAlign-aligned blocks (8 in the UEFI specification) anywhere they    *)
(* fit, never at address 0, and fails when none fits.                      *)
(***************************************************************************)
EXTENDS Naturals, FiniteSets

CONSTANTS
  MemBytes,    \* bytes of memory the pool can use
  PtrSize,     \* size_of::<*mut u8>(): 8
  PoolAlign,   \* alignment of every allocate_pool result: 8
  Layouts,     \* Layouts the program allocates, records [size, align]
  MaxLive,     \* bound on the allocations alive at once
  Garbage      \* a word the allocator never wrote

Addrs == 0 .. MemBytes - 1

VARIABLES
  pool,      \* the firmware's allocated pool blocks, records [start, size]
  mem,       \* words written to memory: address -> value
  live,      \* the allocations the program holds, records [ptr, size, align]
  panicked   \* "no", or which panic stopped the loader

vars == <<pool, mem, live, panicked>>

Range(b) == b.start .. b.start + b.size - 1

(***************************************************************************)
(* The firmware: allocate_pool and free_pool.                              *)
(***************************************************************************)

\* Where allocate_pool may place a block of size bytes.
PoolStarts(size) ==
  {st \in 1 .. MemBytes - size :
     /\ st % PoolAlign = 0
     /\ \A b \in pool : Range(b) \cap (st .. st + size - 1) = {}}

\* free_pool(buffer): Success for the start of a pool block, otherwise an
\* error status and the panic "Could not free buffer from pool".
FreePool(p) ==
  IF \E b \in pool : b.start = p
  THEN /\ pool' = {b \in pool : b.start # p}
       /\ UNCHANGED panicked
  ELSE /\ panicked' = "free_pool"
       /\ UNCHANGED pool

(***************************************************************************)
(* allocator.rs                                                            *)
(***************************************************************************)

\* Mutant: an allocate_pointer that is already aligned is returned as it
\* is, with no room below it for the stored pointer.
AlignedOffsetNoBump(p, align) == (align - (p % align)) % align

\* let mut offset = allocate_pointer.align_offset(align);
\* if offset == 0 { offset = align; }
AlignedOffset(p, align) ==
  IF (align - (p % align)) % align = 0 THEN align ELSE (align - (p % align)) % align

\* GlobalAlloc::alloc.  A null result makes the caller call
\* handle_alloc_error, whose alloc_error_handler panics.
Alloc(l) ==
  /\ panicked = "no"
  /\ Cardinality(live) < MaxLive
  /\ IF l.align <= 8
     THEN \* allocate_pool(memory_type, size).unwrap_or(null)
          IF PoolStarts(l.size) = {}
          THEN panicked' = "alloc_error" /\ UNCHANGED <<pool, mem, live>>
          ELSE \E st \in PoolStarts(l.size) :
                 /\ pool' = pool \cup {[start |-> st, size |-> l.size]}
                 /\ live' = live \cup {[ptr |-> st, size |-> l.size, align |-> l.align]}
                 /\ UNCHANGED <<mem, panicked>>
     ELSE \* allocate_pool(memory_type, size + align), or return null
          IF PoolStarts(l.size + l.align) = {}
          THEN panicked' = "alloc_error" /\ UNCHANGED <<pool, mem, live>>
          ELSE \E st \in PoolStarts(l.size + l.align) :
                 LET pointer == st + AlignedOffset(st, l.align)
                 IN  /\ pool' = pool \cup {[start |-> st, size |-> l.size + l.align]}
                     \* (pointer as *mut *mut u8).sub(1).write(allocate_pointer)
                     /\ mem' = [mem EXCEPT ![pointer - PtrSize] = st]
                     /\ live' = live \cup {[ptr |-> pointer, size |-> l.size, align |-> l.align]}
                     /\ UNCHANGED panicked

\* Mutant: the stored pointer is also read back for align 8.
DeallocFromEight(a) ==
  /\ panicked = "no"
  /\ a \in live
  /\ live' = live \ {a}
  /\ FreePool(IF a.align >= 8 THEN mem[a.ptr - PtrSize] ELSE a.ptr)
  /\ UNCHANGED mem

\* GlobalAlloc::dealloc(ptr, layout): for align > 8 the pool pointer is
\* read from the word below ptr; then free_pool.
Dealloc(a) ==
  /\ panicked = "no"
  /\ a \in live
  /\ live' = live \ {a}
  /\ FreePool(IF a.align > 8 THEN mem[a.ptr - PtrSize] ELSE a.ptr)
  /\ UNCHANGED mem

Init ==
  /\ pool = {}
  /\ mem = [x \in Addrs |-> Garbage]
  /\ live = {}
  /\ panicked = "no"

\* The program allocates any layout and frees what it holds, with the
\* layout it allocated it with, as GlobalAlloc's contract requires.
Next ==
  \/ \E l \in Layouts : Alloc(l)
  \/ \E a \in live : Dealloc(a)

Spec == Init /\ [][Next]_vars

(***************************************************************************)
(* Properties.                                                             *)
(***************************************************************************)

\* The bytes an allocation occupies: the stored pool pointer, if any, and
\* the data.
Footprint(a) ==
  (IF a.align > 8 THEN a.ptr - PtrSize ELSE a.ptr) .. a.ptr + a.size - 1

\* Every live allocation is aligned as its layout asks, and it and the
\* pointer stored below it lie inside one pool block whose start is what
\* that stored word holds; no two allocations share a byte.  The offset
\* bump for an already aligned pool pointer and the size + align request
\* are what make room for the stored word.
AllocationsFit ==
  /\ \A a \in live :
       /\ a.ptr % a.align = 0
       /\ \E b \in pool :
            /\ Footprint(a) \subseteq Range(b)
            /\ a.align > 8 => mem[a.ptr - PtrSize] = b.start
  /\ \A a1, a2 \in live : a1 # a2 => Footprint(a1) \cap Footprint(a2) = {}

\* dealloc hands free_pool exactly the pointer allocate_pool returned for
\* that allocation: free_pool never panics, and the pool blocks are exactly
\* those of the live allocations, none leaked.
FreesMatchAllocations ==
  /\ panicked # "free_pool"
  /\ Cardinality(pool) = Cardinality(live)
  /\ \A b \in pool : \E a \in live : Footprint(a) \subseteq Range(b)
====
