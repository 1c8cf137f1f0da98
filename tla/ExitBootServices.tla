---------------------------- MODULE ExitBootServices ----------------------------
(***************************************************************************)
(* BootServices::exit_boot_services of libs/uefi/uefi_wrapper/src/         *)
(* boot_services.rs, with memory_map_size, memory_map, allocate_pool and   *)
(* free_pool, and the MemoryMapIter of memory.rs that walks the map it     *)
(* returns.  No caller in the repository uses it yet; the model runs it as *)
(* a loader about to hand over to the kernel would.                        *)
(*                                                                         *)
(* The loop: size the map, allocate a pool buffer for it, read the map     *)
(* and its key into the buffer, and exit with the key; on any failure free *)
(* the buffer and start again.  The firmware's map changes when the pool   *)
(* buffer is allocated (a free region split into up to Growth more        *)
(* descriptors) and when it is freed (merged back), and an event of the    *)
(* firmware may change it between any two steps, at most MaxChanges        *)
(* times.  A map key is current until the map next changes.  Descriptor    *)
(* sizes are in units of DescSize bytes.                                   *)
(***************************************************************************)
EXTENDS Naturals

CONSTANTS
  DescSize,     \* descriptor_size the firmware reports
  InitDesc,     \* descriptors in the map when the loop starts
  MaxDesc,      \* bound on the descriptors of the map
  Growth,       \* most descriptors one allocate_pool adds
  MaxChanges,   \* bound on the map changes made by firmware events
  MaxBuffers    \* bound on pool buffers held by the loop

ASSUME InitDesc >= 1 /\ InitDesc + Growth <= MaxDesc

VARIABLES
  pc,        \* where the loop, or the caller walking the map, is
  ndesc,     \* descriptors in the firmware's current map
  size,      \* the buffer size memory_map_size returned
  grown,     \* descriptors the loop's pool buffer added to the map
  buffers,   \* pool buffers the loop holds
  key,       \* the map key the loop holds: "none", "current" or "stale"
  num,       \* num_descriptors of the MemoryMap read into the buffer
  index,     \* MemoryMapIter::index
  changes    \* map changes made by firmware events so far

vars == <<pc, ndesc, size, grown, buffers, key, num, index, changes>>

Init ==
  /\ pc = "size"
  /\ ndesc = InitDesc
  /\ size = 0 /\ grown = 0 /\ buffers = 0
  /\ key = "none" /\ num = 0 /\ index = 0
  /\ changes = 0

\* Any change of the map makes a key read before it stale.
Stale(k) == IF k = "current" THEN "stale" ELSE k

\* Mutant: the buffer is sized to the map as it is, with no slack.
MemoryMapSizeExact ==
  /\ pc = "size"
  /\ size' = ndesc * DescSize
  /\ pc' = "alloc"
  /\ UNCHANGED <<ndesc, grown, buffers, key, num, index, changes>>

\* memory_map_size: get_memory_map with a zero size returns BufferTooSmall
\* (asserted) and the size the map needs; two descriptors more are asked
\* for, as the allocation may itself grow the map.
MemoryMapSize ==
  /\ pc = "size"
  /\ size' = ndesc * DescSize + DescSize * 2
  /\ pc' = "alloc"
  /\ UNCHANGED <<ndesc, grown, buffers, key, num, index, changes>>

\* allocate_pool(ConventionalMemory, size): the map gains up to Growth
\* descriptors.
AllocatePool ==
  /\ pc = "alloc"
  /\ buffers < MaxBuffers
  /\ \E g \in 0 .. Growth :
       /\ ndesc + g <= MaxDesc
       /\ ndesc' = ndesc + g
       /\ grown' = g
       /\ key' = IF g > 0 THEN Stale(key) ELSE key
  /\ buffers' = buffers + 1
  /\ pc' = "map"
  /\ UNCHANGED <<size, num, index, changes>>

\* .expect("Could not allocate pool")
AllocatePoolFails ==
  /\ pc = "alloc"
  /\ pc' = "panicked"
  /\ UNCHANGED <<ndesc, size, grown, buffers, key, num, index, changes>>

\* Mutant: num_descriptors is taken from the buffer's length.
GetMemoryMapBufferLen ==
  /\ pc = "map"
  /\ IF ndesc * DescSize <= size
     THEN /\ num' = size \div DescSize
          /\ key' = "current"
          /\ pc' = "exit"
     ELSE /\ pc' = "free" /\ UNCHANGED <<num, key>>
  /\ UNCHANGED <<ndesc, size, grown, buffers, index, changes>>

\* memory_map(buffer): get_memory_map fills the buffer and the key, or
\* returns BufferTooSmall when the map has outgrown it (Err(_) => {}).
\* num_descriptors = memory_map_size / descriptor_size, the size the
\* firmware wrote back.
GetMemoryMap ==
  /\ pc = "map"
  /\ IF ndesc * DescSize <= size
     THEN /\ num' = (ndesc * DescSize) \div DescSize
          /\ key' = "current"
          /\ pc' = "exit"
     ELSE /\ pc' = "free" /\ UNCHANGED <<num, key>>
  /\ UNCHANGED <<ndesc, size, grown, buffers, index, changes>>

\* (self.0.exit_boot_services)(image_handle, map_key): Success for the
\* current key returns the memory map; anything else falls through.
ExitCall ==
  /\ pc = "exit"
  /\ pc' = IF key = "current" THEN "iter" ELSE "free"
  /\ UNCHANGED <<ndesc, size, grown, buffers, key, num, index, changes>>

\* Mutant: a failed attempt goes round again without free_pool.
RetryNoFree ==
  /\ pc = "free"
  /\ key' = "none"
  /\ pc' = "size"
  /\ UNCHANGED <<ndesc, size, grown, buffers, num, index, changes>>

\* self.free_pool(buffer_pointer), and round the loop again.
FreePool ==
  /\ pc = "free"
  /\ buffers' = buffers - 1
  /\ ndesc' = ndesc - grown
  /\ grown' = 0
  /\ key' = "none"
  /\ pc' = "size"
  /\ UNCHANGED <<size, num, index, changes>>

\* MemoryMapIter::next: while num_descriptors > index, the descriptor is
\* buffer[index * desc_size .. (index + 1) * desc_size], a slice that
\* panics past the buffer.
IterNext ==
  /\ pc = "iter"
  /\ index < num
  /\ IF (index + 1) * DescSize <= size
     THEN index' = index + 1 /\ UNCHANGED pc
     ELSE pc' = "panicked" /\ UNCHANGED index
  /\ UNCHANGED <<ndesc, size, grown, buffers, key, num, changes>>

IterDone ==
  /\ pc = "iter"
  /\ index = num
  /\ pc' = "done"
  /\ UNCHANGED <<ndesc, size, grown, buffers, key, num, index, changes>>

\* A firmware event allocates or frees memory while boot services run.
MapChanges ==
  /\ pc \in {"size", "alloc", "map", "exit", "free"}
  /\ changes < MaxChanges
  /\ \E d \in {ndesc - 1, ndesc + 1} :
       /\ d >= 1 + grown /\ d <= MaxDesc
       /\ ndesc' = d
  /\ key' = Stale(key)
  /\ changes' = changes + 1
  /\ UNCHANGED <<pc, size, grown, buffers, num, index>>

Loop ==
  \/ MemoryMapSize \/ AllocatePool \/ AllocatePoolFails \/ GetMemoryMap
  \/ ExitCall \/ FreePool \/ IterNext \/ IterDone

Next == Loop \/ MapChanges

\* The loader's thread runs whenever it is not blocked; the firmware's
\* events owe nothing.
Spec == Init /\ [][Next]_vars /\ WF_vars(Loop)

(***************************************************************************)
(* Properties.                                                             *)
(***************************************************************************)

TypeOK ==
  /\ pc \in {"size", "alloc", "map", "exit", "free", "iter", "done", "panicked"}
  /\ ndesc \in 1 .. MaxDesc
  /\ grown \in 0 .. Growth
  /\ buffers \in 0 .. MaxBuffers
  /\ key \in {"none", "current", "stale"}
  /\ changes \in 0 .. MaxChanges

\* The memory map exit_boot_services returns describes memory as it is
\* once boot services are gone: it has as many descriptors as the
\* firmware's map, and walking it stays inside the buffer.
ReturnedMapCurrent ==
  pc \in {"iter", "done"} => num = ndesc /\ num * DescSize <= size

\* Each failed attempt frees its pool buffer before the next: the loop
\* never holds more than one.
NoBufferLeak ==
  /\ buffers <= 1
  /\ pc = "size" => buffers = 0

\* Once the firmware's events stop changing the map, the loop exits boot
\* services (or an allocation fails): the two spare descriptors absorb the
\* growth its own allocation causes.
ExitsEventually == <>(pc \in {"done", "panicked"})
====
