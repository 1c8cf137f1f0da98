---------------------------- MODULE MCBootKernel ----------------------------
(***************************************************************************)
(* boot_kernel over the firmware hierarchy of MCPageMapper: PML4 entry 0   *)
(* is the firmware's identity map (a 1 GiB page, a 2 MiB page and a page    *)
(* table), PML4 entry 1 is free for the kernel.  A page is 2 bytes, 16      *)
(* virtual pages (addresses 0 .. 31); the kernel is linked at address 16,   *)
(* page <<1, 0, 0, 0>>.  Eight free frames: enough for the good image's     *)
(* four new tables and three data pages, with one to spare.                 *)
(***************************************************************************)
EXTENDS BootKernel, TLC

MCFrames == 0 .. 13
MCReadOnlyFrames == {1, 2, 3, 4}
MCFreeFrames == 6 .. 13

Ptr(f)   == [present |-> TRUE, writable |-> TRUE, pageSize |-> FALSE, addr |-> f]
Large(f) == [present |-> TRUE, writable |-> TRUE, pageSize |-> TRUE, addr |-> f]
Zeroed   == [present |-> FALSE, writable |-> FALSE, pageSize |-> FALSE, addr |-> 0]

MCFirmwareMemory ==
  [f \in MCFrames |->
     CASE f = 1 -> (0 :> Ptr(2) @@ 1 :> Zeroed)
       [] f = 2 -> (0 :> Large(0) @@ 1 :> Ptr(3))
       [] f = 3 -> (0 :> Large(0) @@ 1 :> Ptr(4))
       [] f = 4 -> (0 :> Ptr(5) @@ 1 :> Zeroed)
       [] f \in MCFreeFrames -> [e \in 0 .. 1 |-> Ptr(1)]
       [] OTHER -> [e \in 0 .. 1 |-> Zeroed]]

Load(off, vaddr, filesz, memsz) ==
  [type |-> LOAD, off |-> off, vaddr |-> vaddr, filesz |-> filesz, memsz |-> memsz]
Note == [type |-> 4, off |-> 0, vaddr |-> 0, filesz |-> 0, memsz |-> 0]

\* A 64-bit image of the given file type, or one with another magic number
\* or class.
Elf(len, ftype, phoff, segs) ==
  [len |-> len, magic |-> ELF_MAGIC_NUMBER, class |-> Class64, ftype |-> ftype,
   phoff |-> phoff, segs |-> segs]

Exec(len, phoff, segs) == Elf(len, EXECUTABLE, phoff, segs)

\* A text segment, a note, and a data segment with a .bss tail spanning
\* two pages, one of them under a second page table.
Kernel == <<Load(6, 16, 2, 2), Note, Load(8, 18, 1, 3)>>

\* Well-formed kernels and the images boot_kernel must reject.
MCImages ==
  { Exec(10, 2, Kernel),
    Exec(1,  2, Kernel),                                          \* shorter than a header
    [Exec(10, 2, Kernel) EXCEPT !.magic = <<127, 69, 76, 0>>],    \* not ELF
    [Exec(10, 2, Kernel) EXCEPT !.class = 1],                     \* Class32
    Elf(10, 3, 2, Kernel),                                        \* SHARED, not EXECUTABLE
    Exec(10, 2, <<>>),                                            \* no program headers
    Exec(10, 8, Kernel),                                          \* table past the file
    Exec(10, 2, <<Load(9, 16, 2, 2)>>),                           \* segment past the file
    Exec(10, 2, <<Load(6, 4, 2, 2)>>),                            \* inside the identity map
    Exec(10, 2, <<Load(6, 16, 2, 1)>>) }                          \* file_size > memory_size

\* A segment whose start is not page aligned: one page by memory_size,
\* two by its addresses; and the file_size > memory_size segment, whose
\* zero fill a release build runs past its one page.
MCUnalignedImages == { Exec(10, 2, <<Load(6, 17, 2, 2)>>),
                       Exec(10, 2, <<Load(6, 16, 2, 1)>>) }
=============================================================================
