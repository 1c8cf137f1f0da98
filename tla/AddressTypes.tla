----------------------------- MODULE AddressTypes -----------------------------
(***************************************************************************)
(* The address arithmetic of libs/arch/x86_64/src/address.rs at a reduced  *)
(* word width.  A u64 is a Width-bit word; bit VirtBits-1 plays bit 47, the *)
(* sign bit of a virtual address, PhysBits plays the 52-bit physical limit, *)
(* PageShift the 12-bit page offset and IndexBits the 9 bits of one table   *)
(* index.  Every operator keeps the shifts, masks and comparisons of the    *)
(* code with the constants scaled; Rust's wrapping and overflow are kept.   *)
(*                                                                         *)
(* The state is the last call a caller made (op, argument, alignment,      *)
(* outcome); each action is one function of address.rs applied to any     *)
(* word.  The properties compare each outcome with a reference definition. *)
(***************************************************************************)
EXTENDS Naturals, Bitwise

CONSTANTS
  Width,      \* bits of a u64: 64
  VirtBits,   \* implemented virtual address bits: 48 (sign bit 47)
  PhysBits,   \* physical address bits: 52
  PageShift,  \* log2 PAGE_SIZE_4KB: 12
  IndexBits,  \* log2 TABLE_ENTRIES: 9
  Aligns      \* align arguments a caller may pass, powers of two or not

ASSUME /\ VirtBits = PageShift + 4 * IndexBits
       /\ VirtBits < PhysBits /\ PhysBits < Width

Word == 0 .. 2^Width - 1

Shr(x, n) == x \div 2^n                   \* x >> n
Low(n) == 2^n - 1                          \* (1 << n) - 1
Complement(x) == Low(Width) - x            \* !x on a u64
Bit(x, n) == Shr(x, n) % 2

\* Outcomes of a call: a value, an Err(()), or a panic (expect, unwrap,
\* assert, or an arithmetic overflow in a build with overflow checks).
Ok(v) == [tag |-> "ok", val |-> v]
ErrR == [tag |-> "err", val |-> 0]
PanicR == [tag |-> "panic", val |-> 0]

Unwrap(r) == IF r.tag = "ok" THEN r ELSE PanicR

\* u64::is_power_of_two
IsPowerOfTwo(a) == \E k \in 0 .. Width - 1 : a = 2^k

(***************************************************************************)
(* address.rs                                                              *)
(***************************************************************************)

\* is_aligned: address & !(align - 1) == address
is_aligned(x, a) == (x & Complement(a - 1)) = x

\* Mutant: the rounding term is align instead of align - 1.
align_up_by_align(x, a) == (x + a) & Complement(a - 1)

\* align_up: (address + align - 1) & !(align - 1), before the u64 wraps.
align_up(x, a) == (x + a - 1) & Complement(a - 1)

\* The sum address + align - 1 exceeds u64::MAX: a debug build panics on
\* the overflow, a release build wraps it.  Nothing in the repository fixes
\* the profile, so both outcomes are possible.
AlignUpOutcomes(x, a) ==
  IF x + a - 1 <= Low(Width)
  THEN {Ok(align_up(x, a))}
  ELSE {PanicR, Ok(((x + a - 1) % 2^Width) & Complement(a - 1))}

\* align_down: address & !(align - 1)
align_down(x, a) == x & Complement(a - 1)

\* PhysicalAddress::try_new: address >> 52 must be 0.
physical_try_new(x) == IF Shr(x, PhysBits) = 0 THEN Ok(x) ELSE ErrR

\* 0xffff << 48: the sign-extension bits 48..63.
SignBits == Low(Width - VirtBits) * 2^VirtBits

\* VirtualAddress::new_sign_extension: `address & (1 << 47) == 1`.
new_sign_extension(x) ==
  IF (x & 2^(VirtBits - 1)) = 1 THEN Ok(x | SignBits) ELSE ErrR

\* Mutant: only the lower half is accepted unchanged.
virtual_try_new_lower_only(x) ==
  CASE Shr(x, VirtBits - 1) = 0 -> Ok(x)
    [] Shr(x, VirtBits - 1) = 1 -> Unwrap(new_sign_extension(x))
    [] OTHER -> ErrR

\* VirtualAddress::try_new: match address >> 47 { 0 | 0x1ffff => Ok,
\* 1 => new_sign_extension(address).unwrap(), _ => Err }.
virtual_try_new(x) ==
  CASE Shr(x, VirtBits - 1) \in {0, Low(Width - VirtBits + 1)} -> Ok(x)
    [] Shr(x, VirtBits - 1) = 1 -> Unwrap(new_sign_extension(x))
    [] OTHER -> ErrR

\* Mutant: the index mask is one bit too wide (0x3ff for 0x1ff).
table_index_wide_mask(x, level) ==
  Shr(x, PageShift + (level - 1) * IndexBits) & Low(IndexBits + 1)

\* Mutant: every index is taken one bit too high.
table_index_shifted(x, level) ==
  Shr(x, PageShift + (level - 1) * IndexBits + 1) & Low(IndexBits)

\* pml4_table_index (level 4, >> 39), pdp_table_index (3, >> 30),
\* pd_table_index (2, >> 21), page_table_index (1, >> 12), each & 0x1ff.
table_index(x, level) ==
  Shr(x, PageShift + (level - 1) * IndexBits) & Low(IndexBits)

(***************************************************************************)
(* Reference definitions: what the address types are meant to compute.     *)
(***************************************************************************)

\* Canonical form: bits VirtBits-1 .. Width-1 all equal.
Canonical(x) == Shr(x, VirtBits - 1) \in {0, Low(Width - VirtBits + 1)}

\* Replicate bit VirtBits-1 into the bits above it.
SignExtend(x) ==
  (x % 2^VirtBits) + (IF Bit(x, VirtBits - 1) = 1 THEN SignBits ELSE 0)

\* The address a page walk translates: four indices (level 1 = PT .. 4 =
\* PML4) and the page offset, sign-extended.
Rebuild(idx, offset) ==
  SignExtend(offset + 2^PageShift *
             (idx[1] + 2^IndexBits * (idx[2] + 2^IndexBits * (idx[3] + 2^IndexBits * idx[4]))))

(***************************************************************************)
(* The caller.                                                             *)
(***************************************************************************)

VARIABLE call

Ops == {"none", "is_aligned", "align_up", "align_down", "PhysicalAddress::try_new",
        "VirtualAddress::try_new", "table_index"}

Init == call = [op |-> "none", x |-> 0, a |-> 1, res |-> Ok(0)]

Call(op, x, a, res) == call' = [op |-> op, x |-> x, a |-> a, res |-> res]

\* The align functions first assert!(align.is_power_of_two()).
IsAligned(x, a) ==
  Call("is_aligned", x, a,
       IF IsPowerOfTwo(a) THEN Ok(IF is_aligned(x, a) THEN 1 ELSE 0) ELSE PanicR)

AlignUp(x, a) ==
  \E r \in IF IsPowerOfTwo(a) THEN AlignUpOutcomes(x, a) ELSE {PanicR} :
    Call("align_up", x, a, r)

AlignDown(x, a) ==
  Call("align_down", x, a, IF IsPowerOfTwo(a) THEN Ok(align_down(x, a)) ELSE PanicR)

PhysicalTryNew(x) == Call("PhysicalAddress::try_new", x, 1, physical_try_new(x))

VirtualTryNew(x) == Call("VirtualAddress::try_new", x, 1, virtual_try_new(x))

\* The index functions take a VirtualAddress, which try_new made canonical;
\* the result records the four indices by level.
TableIndices(x) ==
  /\ Canonical(x)
  /\ Call("table_index", x, 1, Ok([level \in 1 .. 4 |-> table_index(x, level)]))

\* The functions are pure: a call does not depend on the calls before it,
\* so a behaviour of one call from the initial state covers them all.
Next ==
  /\ call.op = "none"
  /\ \E x \in Word :
       \/ \E a \in Aligns : IsAligned(x, a) \/ AlignUp(x, a) \/ AlignDown(x, a)
       \/ PhysicalTryNew(x)
       \/ VirtualTryNew(x)
       \/ TableIndices(x)

Spec == Init /\ [][Next]_call

(***************************************************************************)
(* Properties.                                                             *)
(***************************************************************************)

TypeOK ==
  /\ call.op \in Ops
  /\ call.x \in Word
  /\ call.a \in Aligns \cup {1}
  /\ call.res.tag \in {"ok", "err", "panic"}
  /\ call.op = "table_index" => call.res.val \in [1 .. 4 -> 0 .. Low(IndexBits)]
  /\ call.op \notin {"table_index", "is_aligned"} => call.res.val \in Word

\* Without a carry out of the word, align_up and align_down bracket the
\* address within one alignment unit on multiples of it, and is_aligned
\* holds exactly when both leave the address as it is.  A non-power-of-two
\* align panics in the assert before any arithmetic.
AlignLaw ==
  LET x == call.x  a == call.a  v == call.res.val
  IN  /\ call.op \in {"is_aligned", "align_up", "align_down"} =>
            /\ ~IsPowerOfTwo(a) => call.res.tag = "panic"
            /\ call.res.tag = "panic" =>
                  ~IsPowerOfTwo(a) \/ (call.op = "align_up" /\ x + a - 1 > Low(Width))
      /\ call.op = "align_down" /\ call.res.tag = "ok" =>
            v <= x /\ v % a = 0 /\ x - v < a
      /\ call.op = "align_up" /\ call.res.tag = "ok" /\ x + a - 1 <= Low(Width) =>
            x <= v /\ v % a = 0 /\ v - x < a
      /\ call.op = "is_aligned" /\ call.res.tag = "ok" =>
            (v = 1 <=> x % a = 0)

\* Spec section 8: align_up(x, a) >= x for every address x.  Near the top of
\* the address space address + align - 1 carries out of the u64.
AlignUpNoWrap ==
  call.op = "align_up" /\ call.res.tag = "ok" => call.x <= call.res.val

\* PhysicalAddress::try_new accepts exactly the values below 2^52, unchanged;
\* VirtualAddress::try_new returns only canonical addresses, returns a
\* canonical argument unchanged, and fails only on a value no sign extension
\* can make canonical.
ConstructorsSound ==
  LET x == call.x  r == call.res
  IN  /\ call.op = "PhysicalAddress::try_new" =>
            r = IF x < 2^PhysBits THEN Ok(x) ELSE ErrR
      /\ call.op = "VirtualAddress::try_new" =>
            /\ r.tag = "ok" => Canonical(r.val)
            /\ Canonical(x) => r = Ok(x)
            /\ r.tag = "err" => Shr(x, VirtBits - 1) \notin {0, 1, Low(Width - VirtBits + 1)}

\* Spec section 8: a value whose bit 47 is set and whose bits 48..63 are
\* clear is accepted after sign extension (0x0000_8000_0000_1000 becomes
\* 0xFFFF_8000_0000_1000).
VirtualNewSignExtends ==
  call.op = "VirtualAddress::try_new" /\ Shr(call.x, VirtBits - 1) = 1 =>
    call.res = Ok(SignExtend(call.x))

\* The four table indices and the page offset of a canonical address
\* determine it: the walk of map_page_inner, which uses nothing else,
\* cannot confuse two virtual addresses.
IndicesDetermineAddress ==
  call.op = "table_index" =>
    Rebuild(call.res.val, call.x % 2^PageShift) = call.x

====
