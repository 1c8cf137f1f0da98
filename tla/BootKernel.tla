------------------------------ MODULE BootKernel ------------------------------
(***************************************************************************)
(* boot_kernel (bootloader/uefi/src/lib.rs) with the ELF64Loader of        *)
(* libs/elf that it drives, composed with the page mapper of PageMapper.   *)
(*                                                                         *)
(* The kernel file is an abstract image: its length, the magic number and  *)
(* class of its identification, the file type, where the program-header    *)
(* table starts and the program headers themselves, lengths and offsets in *)
(* units of a scaled byte.  Byte o of   *)
(* the file holds the value o + 1, so the zero fill and the garbage (-1)   *)
(* a fresh page holds are told apart from file contents.  A virtual        *)
(* address is a number; its page is the tuple of table indices PageMapper  *)
(* walks.  Physical memory is read and written through the hardware        *)
(* translation PageMapper!Translate, so load_programs writes wherever the  *)
(* page tables send it.                                                    *)
(***************************************************************************)
EXTENDS Integers, Sequences, FiniteSets

CONSTANTS
  Frames, Root, TableEntries, ReadOnlyFrames, FreeFrames, FirmwareMemory,
  NoMapping, NoRequest,
  PageBytes,    \* PAGE_SIZE, 4096 bytes
  HeaderSize,   \* mem::size_of::<FileHeader64>(), 64 bytes
  EntrySize,    \* program_header_entry_size of the images, 56 bytes
  Images,       \* the kernel files \boot\kernel may hold
  Builds        \* "debug" (overflow checks) and/or "release" (wrapping)

ASSUME Builds \subseteq {"debug", "release"} /\ Builds # {}

VARIABLES
  mem, free, wp, pc, cur, faulted,   \* the page mapper's state
  bpc,      \* where boot_kernel is
  image,    \* the kernel file read_file returned
  k,        \* the program header the current loop is at (1-based)
  pages,    \* segment_pages of the current LOAD header
  base,     \* the first frame allocate_pages returned for it
  i,        \* the next page of the segment map_page is called for
  owned,    \* frames allocate_pages returned for segments
  data,     \* the contents of physical memory, frame -> offset -> value
  stray,    \* a load wrote to a page that is not the kernel's
  handles,  \* the FileProtocol handles read_file holds: "root", "file"
  result    \* what read_file returns: "none" yet, "ok" or "err"

pmvars == <<mem, free, wp, pc, cur, faulted>>
bootvars == <<bpc, image, k, pages, base, i, owned, data, stray>>
readvars == <<handles, result>>
vars == <<pmvars, bootvars, readvars>>

Idx == 0 .. TableEntries - 1
Pages == Idx \X Idx \X Idx \X Idx
Offsets == 0 .. PageBytes - 1

PM == INSTANCE PageMapper WITH VAddrs <- Pages, DataFrames <- FreeFrames

Garbage == -1            \* what a page holds before the loader writes it
FileByte(o) == o + 1     \* byte o of the kernel file

\* The page of virtual address v: its four table indices, PML4 first.
VPage(v) ==
  LET n == v \div PageBytes
  IN  <<(n \div TableEntries^3) % TableEntries, (n \div TableEntries^2) % TableEntries,
        (n \div TableEntries) % TableEntries, n % TableEntries>>

\* The hardware translation of v and whether a store to it lands in a page
\* the loader allocated for the kernel.
Target(v) == PM!Translate(VPage(v))
Owned(v) == Target(v) # NoMapping /\ Target(v).size = "4K" /\ Target(v).frame \in owned

\* What a load of v reads: -2 for a page fault, -3 for firmware memory
\* behind a large page.
Read(v) ==
  CASE Target(v) = NoMapping  -> -2
    [] Target(v).size # "4K" -> -3
    [] OTHER                 -> data[Target(v).frame][v % PageBytes]

\* Store the values w (a function of virtual addresses) through the page
\* tables; a store to a page that is not the kernel's is stray.
Store(w) ==
  /\ data' = [f \in Frames |-> [o \in Offsets |->
                 LET vs == {v \in DOMAIN w : Owned(v) /\ Target(v).frame = f /\ v % PageBytes = o}
                 IN  IF vs = {} THEN data[f][o] ELSE w[CHOOSE v \in vs : TRUE]]]
  /\ stray' = (stray \/ \E v \in DOMAIN w : ~Owned(v))

(***************************************************************************)
(* libs/elf                                                                *)
(***************************************************************************)

\* The ProgramHeader fields and accessors boot_kernel and load_programs
\* use: segment_type(), offset(), start_address(), segment_file_size()
\* and segment_memory_size().
ProgramHeader(s) ==
  /\ s.type \in Nat
  /\ \A f \in {"off", "vaddr", "filesz", "memsz"} : s[f] \in Nat

Seg(n) == image.segs[n]

\* identification.rs: ELF_MAGIC_NUMBER and the repr(u8) Class, from 1.
ELF_MAGIC_NUMBER == <<127, 69, 76, 70>>
Class64 == 2

\* Identification::is_elf: the four magic bytes.
is_elf(img) == img.magic = ELF_MAGIC_NUMBER

\* FileType, a repr(u16) enum from NO = 0.
EXECUTABLE == 2

\* SegmentType, a u32: SegmentType::LOAD is 1.
LOAD == 1

\* The FileHeader64 fields boot_kernel reads through its accessors:
\* identification(), file_type(), program_header_offset(),
\* program_entries() (the table's length) and the entry size, which the
\* images give as size_of::<ProgramHeader>().
FileHeader64(img) ==
  /\ img.magic \in Seq(0 .. 255) /\ img.class \in 0 .. 255
  /\ img.ftype \in 0 .. 65535 /\ img.len \in Nat /\ img.phoff \in Nat
  /\ \A n \in 1 .. Len(img.segs) : ProgramHeader(img.segs[n])

segment_pages(s) == (s.memsz + PageBytes - 1) \div PageBytes

\* ELF64Loader::new accepts the buffer: at least a FileHeader64 long, the
\* magic number and Class64.
IsELF64(img) == img.len >= HeaderSize /\ is_elf(img) /\ img.class = Class64

\* ProgramHeaderIter::new: Ok when the slice holds entries * entry_size
\* bytes, else Err(BufferSizeTooSmall).
ProgramHeaderIterNew(len, entries, entry_size) ==
  IF len >= entries * entry_size THEN "ok" ELSE "err"

\* program_header_iter: Err(ProgramHeaderNotExist) for no entries; the
\* slice buffer[offset .. offset + entry_size * entries] panics when it
\* runs past the buffer, and ProgramHeaderIter::new checks the slice it
\* is given, which is exactly entries * entry_size long.
HeaderTableOutcome(img) ==
  LET n == Len(img.segs)
  IN  CASE n = 0                                  -> "err"
        [] img.phoff + EntrySize * n > img.len    -> "panic"
        [] OTHER -> ProgramHeaderIterNew(EntrySize * n, n, EntrySize)

(***************************************************************************)
(* boot_kernel                                                             *)
(***************************************************************************)

Init ==
  /\ PM!Init
  /\ bpc = "locate"
  /\ handles = {} /\ result = "none"
  /\ image \in Images
  /\ k = 1 /\ pages = 0 /\ base = 0 /\ i = 0
  /\ owned = {}
  /\ data = [f \in Frames |-> [o \in Offsets |-> Garbage]]
  /\ stray = FALSE

Goto(from, to) == bpc = from /\ bpc' = to

\* A panic in boot_kernel (expect, assert_eq, a slice index): the panic
\* handler loops.
Halt(from) == Goto(from, "halted") /\ UNCHANGED <<pmvars, image, k, pages, base, i, owned, data, stray>>

(***************************************************************************)
(* read_file(KERNEL_PATH) (protocol/file.rs):                              *)
(*   open_root_volume()?.open(name, READ, NONE)?.read()                    *)
(* over the FileProtocol wrapper of uefi_wrapper.  The firmware answers    *)
(* each call with Success or an error; it conforms to UEFI in what it      *)
(* leaves out: Close always succeeds, and Read of a regular file from      *)
(* position 0 returns as many bytes as GetInfo's file_size.  A wrapper     *)
(* call builds its Ok value before into_result looks at the status, so on  *)
(* an error from open_volume or open the FileProtocol made from the null   *)
(* pointer the firmware left is dropped, and its Drop calls close through  *)
(* it: undefined behaviour, which reads the close pointer out of the null  *)
(* page.  Either that page is unmapped and the firmware's exception        *)
(* handler stops the machine ("fault"), or the word there is called        *)
(* ("wild").                                                               *)
(***************************************************************************)

ReadStages == {"locate", "open_volume", "open", "get_info", "alloc_buf", "fread", "drop"}

\* Drop of FileProtocol(unsafe { &*ptr::null() }) inside into_result.
DropNullHandle == bpc' \in {"fault", "wild"} /\ UNCHANGED readvars

\* boot_services().locate_protocol::<SimpleFileSystemProtocol>(None)?
LocateProtocol ==
  \/ Goto("locate", "open_volume") /\ UNCHANGED readvars
  \/ Goto("locate", "drop") /\ result' = "err" /\ UNCHANGED handles

\* SimpleFileSystemProtocol::open_volume: into_result(FileProtocol(..)).
OpenVolume ==
  /\ bpc = "open_volume"
  /\ \/ bpc' = "open" /\ handles' = handles \cup {"root"} /\ UNCHANGED result
     \/ DropNullHandle

\* FileProtocol::open on the root: the name is encoded to UTF-16 (the alloc
\* build; "\boot\kernel" is ASCII) and opened READ.
Open ==
  /\ bpc = "open"
  /\ \/ bpc' = "get_info" /\ handles' = handles \cup {"file"} /\ UNCHANGED result
     \/ DropNullHandle

\* read: self.get_info::<FileInfo>()?.file_size().  The buffer is
\* size_of::<FileInfo>() (a 256-unit name), enough for "kernel"; an error
\* returns it with `?`.
GetInfo ==
  \/ Goto("get_info", "alloc_buf") /\ UNCHANGED readvars
  \/ Goto("get_info", "drop") /\ result' = "err" /\ UNCHANGED handles

\* Vec::with_capacity(file_size) through the global allocator; when
\* allocate_pool fails, alloc_error_handler panics with the handles open.
AllocBuffer ==
  \/ Goto("alloc_buf", "fread") /\ UNCHANGED readvars
  \/ Goto("alloc_buf", "halted") /\ UNCHANGED readvars

\* set_len(file_size), then (self.0.read)(..).into_result(buffer): on an
\* error the buffer is freed.
ReadBuffer ==
  /\ Goto("fread", "drop")
  /\ result' \in {"ok", "err"}
  /\ UNCHANGED handles

\* The temporaries of read_file's expression are dropped in reverse order
\* of creation, the file before the root; each Drop calls close.
DropHandle ==
  /\ bpc = "drop"
  /\ handles # {}
  /\ handles' = handles \ {IF "file" \in handles THEN "file" ELSE "root"}
  /\ UNCHANGED <<bpc, result>>

\* read_file has returned: .expect("Could not read file") passes the
\* buffer on, or panics.
ReadFileReturns ==
  /\ bpc = "drop"
  /\ handles = {}
  /\ bpc' = IF result = "ok" THEN "parse" ELSE "halted"
  /\ UNCHANGED readvars

ReadFile ==
  \/ LocateProtocol \/ OpenVolume \/ Open \/ GetInfo \/ AllocBuffer
  \/ ReadBuffer \/ DropHandle \/ ReadFileReturns

\* ELF64Loader::new(..).expect(..)
NewLoader ==
  IF IsELF64(image) THEN Goto("parse", "check_type") /\ UNCHANGED <<pmvars, image, k, pages, base, i, owned, data, stray>>
  ELSE Halt("parse")

\* assert_eq!(file_type(), FileType::EXECUTABLE)
CheckFileType ==
  IF image.ftype = EXECUTABLE THEN Goto("check_type", "iter") /\ UNCHANGED <<pmvars, image, k, pages, base, i, owned, data, stray>>
  ELSE Halt("check_type")

\* program_header_iter().expect("Could not get program_header")
HeaderIter ==
  IF HeaderTableOutcome(image) = "ok"
  THEN Goto("iter", "next") /\ k' = 1 /\ UNCHANGED <<pmvars, image, pages, base, i, owned, data, stray>>
  ELSE Halt("iter")

\* The for loop's next header that is not LOAD: continue.
SkipHeader ==
  /\ bpc = "next"
  /\ k <= Len(image.segs)
  /\ Seg(k).type # LOAD
  /\ k' = k + 1
  /\ UNCHANGED <<pmvars, bpc, image, pages, base, i, owned, data, stray>>

\* A LOAD header: pages = segment_pages(PAGE_SIZE).
LoadHeader ==
  /\ bpc = "next"
  /\ k <= Len(image.segs)
  /\ Seg(k).type = LOAD
  /\ bpc' = "alloc"
  /\ pages' = segment_pages(Seg(k))
  /\ UNCHANGED <<pmvars, image, k, base, i, owned, data, stray>>

\* allocate_pages(AnyPages, LoaderData, pages): pages contiguous frames,
\* or the expect panic when the firmware has no such run left.
Run(b) == b .. b + pages - 1

AllocatePages ==
  /\ bpc = "alloc"
  /\ \E b \in free :
       /\ Run(b) \subseteq free
       /\ free' = free \ Run(b)
       /\ owned' = owned \cup Run(b)
       /\ base' = b
  /\ i' = 0
  /\ bpc' = "map"
  /\ UNCHANGED <<mem, wp, pc, cur, faulted, image, k, pages, data, stray>>

AllocatePagesFails ==
  /\ ~\E b \in free : Run(b) \subseteq free
  /\ Halt("alloc")

\* Mutant: the page loop runs to pages inclusive (0..=pages).
MapSegmentPageInclusive ==
  /\ bpc = "map"
  /\ i <= pages
  /\ PM!MapPage(VPage(Seg(k).vaddr + i * PageBytes), base + i)
  /\ i' = i + 1
  /\ UNCHANGED <<bpc, image, k, pages, base, owned, data, stray>>

\* for i in 0..pages: map_page(start_address + i * PAGE_SIZE,
\*                             allocate_page + i * PAGE_SIZE)
MapSegmentPage ==
  /\ bpc = "map"
  /\ i < pages
  /\ PM!MapPage(VPage(Seg(k).vaddr + i * PageBytes), base + i)
  /\ i' = i + 1
  /\ UNCHANGED <<bpc, image, k, pages, base, owned, data, stray>>

\* map_page has returned for every page of the segment.
SegmentMapped ==
  /\ bpc = "map"
  /\ i = pages
  /\ pc = "idle"
  /\ bpc' = "next"
  /\ k' = k + 1
  /\ UNCHANGED <<pmvars, image, pages, base, i, owned, data, stray>>

\* A step of map_page_inner or the return from it.
MapperStep ==
  /\ \/ PM!Descend \/ PM!AllocateTable \/ PM!AllocateFails
     \/ PM!MappingConflict \/ PM!InstallPage \/ PM!RestoreWriteProtect
  /\ UNCHANGED bootvars

\* The loop is over: load_programs() calls program_header_iter() again,
\* which succeeds as it did before, and walks the headers from the first.
EndHeaders ==
  /\ bpc = "next"
  /\ k > Len(image.segs)
  /\ bpc' = "load"
  /\ k' = 1
  /\ UNCHANGED <<pmvars, image, pages, base, i, owned, data, stray>>

\* Mutant: the skip does not move to the next header.
LoadSkipNoAdvance ==
  /\ bpc = "load"
  /\ k <= Len(image.segs)
  /\ Seg(k).type # LOAD
  /\ UNCHANGED <<pmvars, bpc, image, k, pages, base, i, owned, data, stray>>

\* load_programs: a header that is not LOAD is skipped.
LoadSkip ==
  /\ bpc = "load"
  /\ k <= Len(image.segs)
  /\ Seg(k).type # LOAD
  /\ k' = k + 1
  /\ UNCHANGED <<pmvars, bpc, image, pages, base, i, owned, data, stray>>

\* The bytes a LOAD segment puts in memory: copy_from_slice of file_size
\* bytes from the file at offset, then write_bytes(0) of memory_size -
\* file_size bytes after them.
\* Mutant: the zero fill starts at the segment's start address.
SegmentImageZeroFirst(s) ==
  [v \in s.vaddr .. s.vaddr + s.memsz - 1 |->
     IF v - s.vaddr >= s.memsz - s.filesz THEN FileByte(s.off + v - s.vaddr) ELSE 0]

SegmentImage(s) ==
  [v \in s.vaddr .. s.vaddr + s.memsz - 1 |->
     IF v - s.vaddr < s.filesz THEN FileByte(s.off + v - s.vaddr) ELSE 0]

\* load_programs: a LOAD header.  &self.buffer[offset_start..offset_end]
\* panics when the segment runs past the file.
LoadSegment ==
  /\ bpc = "load"
  /\ k <= Len(image.segs)
  /\ Seg(k).type = LOAD
  /\ Seg(k).off + Seg(k).filesz <= image.len
  /\ Seg(k).filesz <= Seg(k).memsz
  /\ Store(SegmentImage(Seg(k)))
  /\ k' = k + 1
  /\ UNCHANGED <<pmvars, bpc, image, pages, base, i, owned>>

\* The last address ptr::write_bytes of a wrapped count reaches: the count
\* is 2^64 - (file_size - memory_size), more than the address space, so it
\* zeroes on from start until the first unmapped page faults.
WriteBytesFaultsAt(start) ==
  LET span == Cardinality(Pages) * PageBytes
      unmapped == {v \in start .. start + span - 1 : Target(v) = NoMapping}
  IN  IF unmapped = {} THEN start + span - 1
      ELSE CHOOSE v \in unmapped : \A u \in unmapped : v <= u

\* A LOAD header with file_size > memory_size: the copy of file_size bytes
\* is done, then memory_size - file_size underflows.  A debug build panics
\* there.  A release build wraps it and write_bytes zeroes from
\* address_start + file_size on, through whatever the page tables map,
\* until a store faults.
LoadSizeUnderflow ==
  /\ bpc = "load"
  /\ k <= Len(image.segs)
  /\ Seg(k).type = LOAD
  /\ Seg(k).off + Seg(k).filesz <= image.len
  /\ Seg(k).filesz > Seg(k).memsz
  /\ \E build \in Builds :
       LET s == Seg(k)
           last == IF build = "debug" THEN s.vaddr + s.filesz - 1
                   ELSE WriteBytesFaultsAt(s.vaddr + s.filesz)
       IN  /\ Store([v \in s.vaddr .. last |->
                     IF v < s.vaddr + s.filesz THEN FileByte(s.off + v - s.vaddr) ELSE 0])
           /\ bpc' = IF build = "debug" THEN "halted" ELSE "fault"
  /\ UNCHANGED <<pmvars, image, k, pages, base, i, owned>>

LoadOutOfFile ==
  /\ k <= Len(image.segs)
  /\ Seg(k).type = LOAD
  /\ Seg(k).off + Seg(k).filesz > image.len
  /\ Halt("load")

\* load_programs returned Ok: transmute the entry point and call it with
\* the BootInfo; the kernel never returns.
Jump ==
  /\ k > Len(image.segs)
  /\ Goto("load", "kernel")
  /\ UNCHANGED <<pmvars, image, k, pages, base, i, owned, data, stray>>

LoadKernel ==
  \/ NewLoader \/ CheckFileType \/ HeaderIter
  \/ SkipHeader \/ LoadHeader \/ AllocatePages \/ AllocatePagesFails
  \/ MapSegmentPage \/ SegmentMapped \/ MapperStep \/ EndHeaders
  \/ LoadSkip \/ LoadSegment \/ LoadSizeUnderflow \/ LoadOutOfFile \/ Jump

Next ==
  \/ ReadFile /\ UNCHANGED <<pmvars, image, k, pages, base, i, owned, data, stray>>
  \/ LoadKernel /\ UNCHANGED readvars

\* One thread, no preemption (spec section 5): every enabled step is taken.
Spec == Init /\ [][Next]_vars /\ WF_vars(Next)

(***************************************************************************)
(* Properties.                                                             *)
(***************************************************************************)

TypeOK ==
  /\ bpc \in ReadStages \cup {"parse", "check_type", "iter", "next", "alloc", "map",
                              "load", "kernel", "halted", "fault", "wild"}
  /\ handles \subseteq {"root", "file"}
  /\ result \in {"none", "ok", "err"}
  /\ image \in Images /\ FileHeader64(image)
  /\ k \in 1 .. Len(image.segs) + 1
  /\ i \in 0 .. pages
  /\ owned \subseteq FreeFrames
  /\ data \in [Frames -> [Offsets -> Int]]
  /\ stray \in BOOLEAN

\* Every byte load_programs stores lands in a page that map_page mapped to
\* frames allocate_pages returned for the kernel (spec 4.3: load_segment
\* requires the destination range already mapped writable).  A store to an
\* unmapped page faults; one through a firmware mapping overwrites memory
\* the loader does not own.
LoadWritesOwnedPages == ~stray

\* When control passes to the kernel, reading each LOAD segment's virtual
\* range through the page tables yields the file's bytes from the
\* segment's offset for file_size bytes and zeros after them (spec 8,
\* segment load correctness), whatever order the segments were mapped,
\* allocated and copied in.
KernelSeesItsImage ==
  bpc = "kernel" =>
    \A n \in 1 .. Len(image.segs) :
      Seg(n).type = LOAD =>
        \A v \in Seg(n).vaddr .. Seg(n).vaddr + Seg(n).memsz - 1 :
          Read(v) = IF v < Seg(n).vaddr + Seg(n).filesz
                    THEN FileByte(Seg(n).off + (v - Seg(n).vaddr)) ELSE 0

\* The boot attempt ends: the kernel runs, the loader halts in a panic
\* (its own or map_page's), or control leaves it through the null handle.
\* Every loop of boot_kernel and load_programs is over the finite header
\* table and page count, and read_file's over its two handles.
BootEnds == <>(bpc \in {"kernel", "halted", "fault", "wild"} \/ pc = "halted")

\* A failure of the file reader is fatal and diagnosed (spec sections 6
\* and 7: IoFailure is surfaced as an immediate stop with a message on the
\* console): every error of read_file reaches the expect, whose panic
\* handler prints it and loops, and control never leaves the loader
\* through a call it did not mean to make.
ReadFailureDiagnosed == bpc \notin {"fault", "wild"}

====
