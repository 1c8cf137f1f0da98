# MonorsOS bootloader: TLA+ models

These modules model the UEFI bootloader of MonorsOS (`src/bootloader/uefi`)
and the libraries it runs on, for the TLC model checker:

- `src/libs/arch/x86_64`: addresses and page-table entries;
- `src/libs/elf`: the ELF loader;
- `src/libs/uefi`: the firmware bindings.

`PROJECT.json` lists every component, run, mutant, mapped source range,
finding and hazard. This file explains them.

## The system

`efi_main` (`bootloader/uefi/src/main.rs`) runs three stages, then spins.

1. **Boot menu** (`boot_menu.rs`). `BootMenu::menu_loop` shows the options
   and arms a periodic one-second UEFI timer.
   - The timer's notify function `count_down_boot_timer` runs at
     TPL_CALLBACK. It interrupts the main thread between any two of its steps.
   - It counts down. At zero it cancels the timer and signals a
     `timeout_event`.
   - Meanwhile the main thread waits on the keyboard and on that event. A key
     cancels the countdown and enters an input loop of digits and Enter.
   - Both threads share `count`, `timer_event` and `timeout_event`.
   - Before arming the timer, `menu_loop` prints the menu and saves cursor
     positions. The callback prints the seconds at one of them; the keyboard
     path blanks the "Automatic boot" line between two others and prints the
     chosen digit at a fourth.
2. **Kernel load** (`lib.rs` `boot_kernel`).
   - It reads `\boot\kernel` with `read_file` (`protocol/file.rs`):
     `locate_protocol`, `open_volume` on the file system, `open`, then
     `get_info` for the size and `read` into a Vec. Both handles are
     closed when they are dropped.
   - It parses the file with `elf::ELF64Loader`.
   - For every LOAD program header, it allocates `segment_pages` pages with
     `allocate_pages` and maps each page with `map_page`.
   - It then copies the segments with `load_programs` and calls the entry
     point with a `BootInfo`.
3. **Page mapper** (`arch/x86_64/paging.rs`), used by stage 2.
   - `map_page` clears CR0.WP, because the firmware's tables are read-only.
   - It walks PML4 → PDPT → PD → PT in `map_page_inner`, allocating and
     zeroing a table wherever an entry is unused.
   - It panics on a large page in the way, on a present PT entry, or when
     allocation fails. Otherwise it sets WP again.

Under all three stages sit the `uefi_wrapper` calls:

- `println!` goes through `SimpleTextOutputProtocol::write_str`.
- The global allocator (`allocator.rs`) is built on `allocate_pool`/`free_pool`.
- `exit_boot_services` is present but not called yet.
- Every firmware call converts its `Status` with `Status::into_result`
  (`uefi_core/status.rs`).

A panic anywhere ends in the panic handler, which prints and spins. Nothing
is persisted. The only concurrency is:

- the timer callback against the main thread;
- the firmware's own events, which may change the memory map while boot
  services run.

## Modules

| Module | Models | Source |
|---|---|---|
| `AddressSpace` | What `map_page` promises: a partial function from virtual pages to translations. `Call` starts a request, `Complete` adds exactly `va ↦ pa` if `va` was unmapped, and `Abort` halts with the mapping unchanged. | abstract spec |
| `PageMapper` (+`MCPageMapper`) | `map_page`, `map_page_inner`, `allocate_page`, CR0.WP. Refines `AddressSpace`. | `paging.rs`, `control.rs` |
| `PageTableEntry` (in `MCAddressing`) | The bit layout of the four entry types: `set_page` with its alignment assert, `address`, `set_flags`, `clear_flags`, `set_unused`, and the `ADDRESS_MASK_*` constants. | `paging/*.rs` |
| `AddressTypes` (in `MCAddressing`) | `is_aligned`, `align_up`, `align_down`, `PhysicalAddress::try_new`, `VirtualAddress::try_new` with `new_sign_extension`, and the four table-index extractors, at a scaled word width. | `address.rs` |
| `BootMenu` (+`MCBootMenu`) | `menu_loop` with its printing and saved cursors, `clear_characters`, `wait_event`, `clear_timer`, the input loop, the callback and `timeout_automatic_boot`, and a user who presses keys. | `boot_menu.rs` |
| `BootKernel` (+`MCBootKernel`) | `boot_kernel` from `read_file` (with the file protocol calls and the `Drop` of its handles) to the jump, over an abstract image, with the `FileHeader64`, identification and `ProgramHeader` fields it reads, `ELF64Loader::new`, `program_header_iter`, `ProgramHeaderIter`, `segment_pages` and `load_programs`. It is composed with `PageMapper` (INSTANCE), and stores go through the page tables. | `lib.rs`, `protocol/file.rs`, wrapper `protocols/media/file.rs`, `elf/*.rs` |
| `ConsoleWrite` (in `MCWrapper`) | `write_str` in both builds (`alloc`: Vec, UTF-16, `'\r'` inserted; no alloc: a fixed buffer flushed when full) and `_print`'s unwrap. | `text_output.rs`, wrapper `lib.rs` |
| `PoolAllocator` (in `MCWrapper`) | `GlobalAlloc::alloc`/`dealloc`, including the over-aligned path that stores the pool pointer below the returned one, on a firmware pool. | `allocator.rs`, `boot_services.rs` |
| `ExitBootServices` | The `exit_boot_services` retry loop with `memory_map_size`, `allocate_pool`, `memory_map`, `free_pool` and `MemoryMapIter::next`. | `boot_services.rs`, `memory.rs` |
| `UefiStatus` | The `Status` and `Error` enums, both `From<usize>` tables and `into_result`. Firmware words are read through the `repr(usize)` return type. | `status.rs` |

### How state and actions correspond to the code

- **PageMapper.**
  - `mem` maps a frame to its table. Each entry is a record
    `[present, writable, pageSize, addr]`.
  - `free` holds the frames `allocate_pages` can hand out. `wp` is CR0.WP.
  - `pc` is `idle`, `walk`, `restore` or `halted`. `cur` is the walk's
    page, frame, level and table.
  - `faulted` records a write to a read-only table while WP is set, which
    would raise #PF.
  - Each action is one step of the code: `MapPage`, `AllocateTable`,
    `AllocateFails`, `Descend`, `MappingConflict`, `InstallPage` and
    `RestoreWriteProtect`.
  - `PageTableEntry` shows that the real `u64` words decode to these records
    (`DecodesToView`).
- **BootMenu.**
  - `mpc` is the main thread's position. `count`, `timerEvent` and
    `timeoutEvent` are the shared fields. `signaled` is the event's state and
    `key` the pending key.
  - Each boot-service call is one step, because the firmware raises the TPL
    inside it. The callback is one step.
  - `uefi::init` clears the screen and `efi_main` prints one welcome line,
    so `menu_loop` starts on row 1 (`WelcomeRow`).
  - The screen layout keeps rows only. `row` is the cursor's row and `saved`
    the rows `menu_loop` saved.
  - `PrintOptions`, `PrintPressKey` and `PrintAutomaticBoot` are the print
    calls of `menu_loop`, each with its line feeds. A line feed on the last
    of `Rows` rows scrolls the screen up one row, as a UEFI console does.
  - `ClearCharacters` asserts that the end cursor is on a later row than the
    start cursor, and panics when it is not. On a 25-row console the menu
    ends on row 9 and never scrolls, so no property is stated about the
    saved cursors: none could fail.
- **BootKernel.**
  - `bpc` is the position in `boot_kernel`. `k` is the header index, and
    `pages`, `base` and `i` belong to the per-segment map loop.
  - `owned` holds the frames allocated for segments, and `data` is physical
    memory.
  - `stray` is set when a store of `load_programs` translates to a frame that
    is not the kernel's.
  - Byte `o` of the file holds `o + 1`, so file bytes, the zero fill and page
    garbage are told apart.
  - Each panic (`expect`/`unwrap` on a loader error, a file type other than
    EXECUTABLE, the slice checks) is its own action leading to `halted`.
  - `LoadSizeUnderflow` is a segment with `file_size > memory_size`. The
    constant `Builds` says which builds are checked. A debug build panics on
    `memory_size - file_size` after the copy. A release build wraps the
    count to nearly 2^64. Then `write_bytes` zeroes from the end of the copy
    on, through whatever the page tables map, until a store hits an
    unmapped page and faults (`WriteBytesFaultsAt`).
  - `read_file` is one action per firmware call: `LocateProtocol`,
    `OpenVolume`, `Open`, `GetInfo`, `AllocBuffer`, `ReadBuffer`, then one
    `DropHandle` per handle (the file first, then the root) and
    `ReadFileReturns`, where `expect` passes the buffer on or panics.
    `handles` holds the open handles and `result` what `read_file` returns.
  - The firmware may fail any call. It conforms to UEFI in two ways: `Close`
    always succeeds, and `Read` of a regular file returns all of it.
  - On an error from `open_volume` or `open`, the wrapper drops a
    `FileProtocol` built from the null pointer, and its `Drop` calls `close`
    through it (`DropNullHandle`). This is undefined behaviour. Its outcomes
    are `fault` (the null page is unmapped and the firmware's exception
    handler stops) and `wild` (the word there is called).
- **ConsoleWrite.**
  - `s` and `index` are the alloc body's Vec and scan position.
  - `utf16`, `i` and `j` are the fixed buffer, its fill and the current char.
  - `out` is the sequence of strings passed to `output_string`, cut at their
    NUL.
  - Every `output_string` may fail, which ends `write_str` with `fmt::Error`;
    `_print` then panics.
- **PoolAllocator.**
  - `pool` holds the firmware's blocks. `mem` holds the words the allocator
    wrote. `live` holds the allocations the program holds.
  - `Alloc(l)` and `Dealloc(a)` are the two `GlobalAlloc` methods. A failing
    `allocate_pool` leads to `alloc_error_handler`'s panic.
- **ExitBootServices.**
  - `ndesc` is the firmware's map size. `grown` is what the loop's own buffer
    added to it.
  - `key` is `none`, `current` or `stale`. `buffers` counts the pool buffers
    held.
  - `MapChanges` is a firmware event changing the map at any point. There
    are at most `MaxChanges` of them, and they have no fairness.
- **UefiStatus.**
  - `raw` is the word the firmware returned and `status` is how Rust sees it.
    A word that is no discriminant is undefined behaviour, modelled as any
    variant.
  - `result` is what `into_result` returns.

## Runs

| Run | Expect | Properties | What it shows |
|---|---|---|---|
| page_mapper | pass | `TypeOK`, `TablesFormTree`, `NoProtectionFault`, `AddressSpaceRefined` | Over every sequence of `map_page` calls: each table is linked once; no read-only table is written with WP set; the hierarchy refines `AddressSpace` (each call adds its own 4K translation or none, and large pages are never split or shadowed). |
| boot_menu | pass | `TypeOK`, `EventsClosedWhenMenuReturns`, `AutoBoot` | For any key presses, `menu_loop` returns only after both events are cancelled and closed. With no key, option 1 boots. |
| boot_menu_race | violation | `NoPanic` | A key pressed in the second the countdown reaches 0 panics the loader. |
| addressing | pass | `TypeOK`, `AlignLaw`, `ConstructorsSound`, `IndicesDetermineAddress`, `DecodesToView` | `MCAddressing` runs the two pure layers side by side: one behaviour is one address call, or one sequence of entry operations. Over every 10-bit word, the align functions bracket the address, the constructors accept exactly the valid addresses, and the indices with the offset determine the address. After any entry operations on any level, the word reads back as the record `PageMapper` assumes. |
| page_mapper_wp | violation | `WriteProtectRestored` | A mapping conflict, or an allocator that has run out, panics inside `map_page_inner` with CR0.WP still cleared. |
| address_sign_extension | violation | `VirtualNewSignExtends` | `VirtualAddress::try_new` panics instead of sign-extending. |
| boot_kernel | pass | `TypeOK`, `LoadWritesOwnedPages`, `KernelSeesItsImage`, `BootEnds` | In a debug build, for page-aligned kernels and every firmware answer to `read_file`: every store lands in a page mapped to the kernel's frames; the kernel reads its file bytes and zero tail; the boot always ends. A panic counts as an end, so `BootEnds` does not tell a rejected image from a booted one. |
| boot_kernel_unaligned | violation | `LoadWritesOwnedPages` | Both builds. A segment whose start address is not page aligned gets one page too few, and `load_programs` writes past the mapping; this is the trace TLC reports. In a release build, a segment with `file_size > memory_size` also writes past its page. |
| read_file_error | violation | `ReadFailureDiagnosed` | A failed `open_volume` (or `open`) makes the wrapper close a null handle, instead of `read_file` returning the error to the `expect`. |
| wrapper | pass | `TypeOK`, `TextShown`, `WriteReturns`, `AllocationsFit`, `FreesMatchAllocations` | `MCWrapper` runs the two wrapper services side by side, one per behaviour. Console: Both builds show exactly the UTF-16 text with `'\r'` after each `'\n'`, or a prefix of it before `_print` panics. This includes a `'\n'` that fills the fixed buffer. Allocator: Allocations are aligned, inside their block with the stored pointer, and disjoint. `dealloc` frees exactly the block `alloc` got, and nothing leaks. |
| exit_boot_services | pass | `ReturnedMapCurrent`, `NoBufferLeak`, `ExitsEventually` | The returned map is the firmware's map under an accepted key, and walking it stays in the buffer. At most one buffer is held. The loop exits once firmware events stop. |
| uefi_status | violation | `ConversionsNameStatus` | `into_result` reports every error as the next variant, and `Status::from` has the same offset. |

Every property of a passing run has a mutant in `PROJECT.json`: a plausible
bug in the mapped code (a dropped guard, an off-by-one, a missing bump or
free) that TLC shows breaks it.

## Findings

- **Sign extension never happens** (`address.rs:85`). `new_sign_extension`
  tests `address & (1 << 47) == 1`, which is never true. So `try_new` of an
  address with bit 47 set and bits 48-63 clear unwraps an `Err` and panics.
  Spec §8 says it is sign-extended.
- **Unaligned segments are under-mapped** (`lib.rs:111`). `boot_kernel` maps
  `ceil(memory_size / PAGE_SIZE)` pages from the segment's address. An
  unaligned segment spans one page more.
- **A release build zeroes past the segment** (`loader.rs:48`). For a
  segment with `file_size > memory_size`, `memory_size - file_size` wraps.
  `write_bytes` then zeroes from the end of the copy until it faults, and
  overwrites every mapped page on the way. A debug build panics there
  instead. `ELF64Loader` never checks `file_size <= memory_size`.
- **Timer race** (`boot_menu.rs`). A key pressed in the second in which the
  countdown reaches 0 panics the loader. Either `timeout_automatic_boot` finds
  `timeout_event` None or closed, or `clear_timer` unwraps a `timer_event`
  the callback already set to None. The run uses `efi_main`'s 1-second
  countdown.
- **Write protection stays off after an abort in `map_page`**
  (`paging.rs:19`).
  - `map_page` clears CR0.WP, calls `map_page_inner`, and sets WP again only
    when that call returns.
  - A panic inside it never returns. The panics are the `expect` of
    `allocate_page`, the mapping-conflict panic and the large-page abort.
    Each leaves the CPU with write protection off.
  - Spec §5 treats WP as a scoped resource, restored on every exit path of
    `map_page`, abort paths included. The panic handler only prints and
    spins, so nothing writes a read-only page afterwards. The spec's rule is
    still broken.
- **A failed open closes a null handle** (wrapper `protocols/media/file.rs:48`, also line 100).
  - `open` and `open_volume` build `FileProtocol(&*file_pointer)` as the
    argument of `into_result`, before the status is looked at.
  - On an error (`NotFound` when there is no `\boot\kernel`), `into_result`
    drops that value. Its `Drop` calls `close` through the null pointer the
    firmware left.
  - Spec §§6-7 make a file-reader failure a fatal stop with a diagnostic.
    Instead, the machine faults or runs whatever the null page holds.
- **Status conversions are off by one** (`status.rs:195`).
  - `Status::LoadError = ERROR_BIT | 1`, but `Error::from(1)` is
    `InvalidParameter`. Every error reaches `expect` and the panic message
    under the next variant's name: `OutOfResources` shows as
    `WriteProtected`, and `HTTPError` as `Unknown`.

These disagreements were also found while modelling. Each is a hazard in
`PROJECT.json`, with the property that shows it:

- **`align_up` wraps near `u64::MAX`** (`AlignUpNoWrap` in `AddressTypes`).
  It panics instead when overflow checks are on. Spec §8 says
  `align_up(x, a) >= x`. No address the loader aligns lies there.
- **The no-alloc `write_str` stores `char as u16`.** It shows a char above
  U+FFFF as an unrelated BMP char, while the alloc build writes the surrogate
  pair. `TextShown` is violated when such a char is added to `Chars`.
- **`exit_boot_services` asks for pool memory of type ConventionalMemory.**
  EDK2-based firmware rejects this type, so the `expect` would panic
  (`AllocatePoolFails`).

## Bounds

| Module | Bounds | Why they are enough |
|---|---|---|
| `PageMapper` | 10 frames, 3 free, 2 entries per table, 6 virtual pages | Every branch of the walk and exhaustion is reached. Pages share every prefix length. |
| `BootMenu` | countdown of 2 s (1 s for the race), 2 options, keys `'1'`, `'2'`, `'3'`, CR, U+0131; a 25-row console (text mode 0) | The keys cover a valid digit, an out-of-range digit, Enter, and a key whose low byte is a digit. The loader never changes the mode (`set_max_largest_screen_mode` has no caller). The menu needs 9 rows below the cleared screen's welcome line. |
| `AddressTypes` (in `MCAddressing`) | a 10-bit word: 2-bit offset, four 1-bit indices, 7 physical bits, aligns {0,1,3,4,16} | All bit fields are present. The aligns include non-powers of two, which the assert rejects. |
| `PageTableEntry` (in `MCAddressing`) | a 10-bit word with a 3-bit offset; addresses {4,8,48,96,224} | These are misaligned, 4K-only, 2M- and 1G-aligned addresses, on all four levels. |
| `BootKernel` | 2-byte pages, 2-entry tables. The pass run is the debug build, and the unaligned run checks both builds. Ten images: a kernel with a `.bss` tail across two tables, and each malformation `boot_kernel` must reject (short, not ELF, Class32, SHARED, no headers, table or segment past the file, a segment in the identity map, `file_size > memory_size`). Every firmware call of `read_file` may fail. | Every loader error path is reached, as are multi-page segments, a header that is not LOAD, and every `?` and `Drop` of `read_file`. |
| `ConsoleWrite` (in `MCWrapper`) | strings of ≤ 4 chars over {a, `'\n'`, U+263A}, a 3-unit buffer, both builds | Strings span several flushes, and a `'\n'` can fill the buffer. |
| `PoolAllocator` (in `MCWrapper`) | 64 bytes, layouts aligned 8/16/32, ≤ 2 live | Over-aligned blocks with and without an already aligned pool pointer, and exhaustion, are all reached. |
| `ExitBootServices` | 2-byte descriptors, map 2 → ≤ 6, growth ≤ 2, 2 events, ≤ 2 buffers | The slack of exactly 2 descriptors is met by a growth of 2. Events stale a key at every step. |
| `UefiStatus` | an 8-bit word | Every discriminant fits below ERROR_BIT. Every non-discriminant word is tried. |

## Fairness

- **`BootMenu`**: weak fairness of the main thread, which runs whenever it is
  not blocked, and of the callback, because the periodic timer keeps firing
  while armed. The user has no fairness.
- **`BootKernel`, `PageMapper` and `ConsoleWrite`**: weak fairness of `Next`. In `MCWrapper` that is weak fairness of the console's steps; the allocator's steps have none, since the program may stop allocating.
  They are one thread on one CPU with no waiting.
- **`ExitBootServices`**: weak fairness of the loader's loop only. Firmware
  events (`MapChanges`) owe nothing, and they are bounded, which is what
  "once the events stop" means.
- **Other modules**: no liveness is claimed.

`CHECK_DEADLOCK FALSE` is set wherever the program really stops: the panic
handler spins, the kernel runs, or a call returns once.

## Not modelled

- **The file protocol's answers that break UEFI.** `read` sets the Vec's
  length to the file size before the firmware reports how much it read. A
  short read would leave an uninitialised tail, but UEFI's `Read` of a
  regular file returns all of it. `Drop` panics if `close` fails, but
  UEFI's `Close` always succeeds. `get_info` and `memory_map` call
  `assume_init` on the error path, where the value is discarded at once.
  `file_info` and `read_file_to_buffer` have no caller.
- **Events, timers, text input and runtime services.**
  These are single firmware calls. `BootMenu` models the events it uses.
  Of the console it keeps the cursor's row and scrolling: columns, line
  wrapping and the characters shown are left out. Every line of the menu is
  short, and every saved cursor the code computes with is at column 0 of its
  line.
- **The kernel**, which prints and loops. Its allocator is
  `unimplemented!()`, so a kernel build with the `alloc` feature would panic
  in `write_str`; no manifest in the sources says which features it uses.
- **`boot_protocol`**, which is one record.
- **The ELF fields `boot_kernel` never reads**: data encoding, flags, the
  section headers, and the entry point's value. The kernel is entered by a
  step to `kernel`.
  - `program_header_entry_size` is taken to be `size_of::<ProgramHeader>()`.
    A file that gives 0 makes the iterator yield nothing, and the loader then
    jumps with nothing loaded. This is listed as a hazard.
  - `load_program`, the single-segment load, has no caller.
