----------------------------- MODULE MCWrapper -----------------------------
(***************************************************************************)
(* Two services of uefi_wrapper in one run: write_str of the text output   *)
(* protocol (ConsoleWrite) and the global allocator over the firmware pool *)
(* (PoolAllocator).  Neither calls the other in the code the model keeps   *)
(* (the alloc body's Vec is bounded by MaxUnits, not taken from the pool), *)
(* so a behaviour exercises one of them: unit says which, and the other's  *)
(* variables stay at their initial state.  The state space is the sum of   *)
(* the two.                                                                *)
(*                                                                         *)
(* ConsoleWrite: both builds of write_str, on strings of up to 4 chars     *)
(* over ASCII, line feeds and a BMP char above U+00FF; a buffer of 3       *)
(* units, so strings span several output_string calls and a '\r' can fall  *)
(* on a full buffer.                                                       *)
(*                                                                         *)
(* PoolAllocator: 64 bytes of pool memory and three 8-byte layouts: one    *)
(* the pool serves directly and two over-aligned ones, whose pool blocks   *)
(* of 24 and 40 bytes start 8-aligned, so the pointer is bumped by 8, 16,  *)
(* 24 or a whole align.  Two live allocations fill the memory in several   *)
(* arrangements.                                                           *)
(***************************************************************************)
EXTENDS Naturals

CONSTANT Garbage   \* a model value: a word the allocator never wrote

VARIABLES
  unit,                                                     \* "console" or "pool"
  variant, str, pc, s, index, utf16, i, j, ret, out, result, \* ConsoleWrite
  pool, mem, live, panicked                                 \* PoolAllocator

CW == INSTANCE ConsoleWrite
        WITH Variants <- {"alloc", "no_alloc"}, Chars <- {97, 10, 9786},
             MaxLen <- 4, BufferSize <- 3

PA == INSTANCE PoolAllocator
        WITH MemBytes <- 64, PtrSize <- 8, PoolAlign <- 8, MaxLive <- 2,
             Layouts <- {[size |-> 8, align |-> 8], [size |-> 8, align |-> 16],
                         [size |-> 8, align |-> 32]},
             Garbage <- Garbage

consoleVars == <<variant, str, pc, s, index, utf16, i, j, ret, out, result>>
poolVars == <<pool, mem, live, panicked>>
vars == <<unit, consoleVars, poolVars>>

Init == unit \in {"console", "pool"} /\ CW!Init /\ PA!Init

ConsoleStep == unit = "console" /\ CW!Next /\ UNCHANGED <<unit, poolVars>>
PoolStep == unit = "pool" /\ PA!Next /\ UNCHANGED <<unit, consoleVars>>

Next == ConsoleStep \/ PoolStep

\* ConsoleWrite's fairness: write_str runs to its end once called.  The
\* program owes the allocator no call.
Spec == Init /\ [][Next]_vars /\ WF_vars(ConsoleStep)

\* The console's variables keep their types.
TypeOK == CW!TypeOK

\* The properties of ConsoleWrite and PoolAllocator, stated there.
TextShown == CW!TextShown
WriteReturns == unit = "console" => CW!WriteReturns
AllocationsFit == PA!AllocationsFit
FreesMatchAllocations == PA!FreesMatchAllocations
====
