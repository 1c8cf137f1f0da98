----------------------------- MODULE ConsoleWrite -----------------------------
(***************************************************************************)
(* fmt::Write::write_str of SimpleTextOutputProtocol                       *)
(* (libs/uefi/uefi_wrapper/src/protocols/console/text_output.rs) and the   *)
(* _print of println! (uefi_wrapper/src/lib.rs) that unwraps its result.   *)
(*                                                                         *)
(* write_str has two bodies, chosen by the crate's "alloc" feature:        *)
(*  - alloc: encode_utf16 into a Vec, push the NUL terminator, insert '\r' *)
(*    after every '\n', and make one output_string call;                   *)
(*  - no alloc: copy each char (as u16) into a fixed [u16; BUFFER_SIZE+1]  *)
(*    array, add '\r' after '\n', and call output_string whenever the      *)
(*    array is full and once more for the rest.                            *)
(* output_string is the firmware call: it shows the UTF-16 string up to    *)
(* its NUL and returns Success or an error (a device error), which         *)
(* write_str turns into fmt::Error.  A string is a sequence of code        *)
(* points; BufferSize plays BUFFER_SIZE (256).                             *)
(***************************************************************************)
EXTENDS Naturals, Sequences, SequencesExt

CONSTANTS
  Variants,    \* the builds: a subset of {"alloc", "no_alloc"}
  Chars,       \* code points the formatted text may contain
  MaxLen,      \* longest &str passed to write_str
  BufferSize   \* BUFFER_SIZE of the no-alloc body

ASSUME Variants \subseteq {"alloc", "no_alloc"} /\ BufferSize >= 1

LF == 10
CR == 13
NUL == 0

\* Bound on the Vec<u16> of the alloc body: two units per char (a
\* surrogate pair or "\n\r") and the terminator.
MaxUnits == 2 * MaxLen + 1

\* str::encode_utf16 of one char: a BMP code point is one unit, any other
\* a surrogate pair.
EncodeUtf16(c) ==
  IF c < 2^16 THEN <<c>>
  ELSE <<55296 + ((c - 2^16) \div 1024), 56320 + ((c - 2^16) % 1024)>>

\* What output_string shows of a NUL-terminated UTF-16 string.
UpToNul(u) ==
  LET n == CHOOSE p \in 1 .. Len(u) : u[p] = NUL /\ \A q \in 1 .. p - 1 : u[q] # NUL
  IN  SubSeq(u, 1, n - 1)

VARIABLES
  variant,   \* the build's write_str body
  str,       \* the &str argument
  pc,        \* where write_str (and _print after it) is
  s,         \* alloc: the Vec<u16>
  index,     \* alloc: the scan position (1-based)
  utf16,     \* no alloc: the array, indices 0 .. BufferSize
  i,         \* no alloc: next free slot of the array
  j,         \* no alloc: the char being copied (1-based)
  ret,       \* no alloc: where a full-buffer flush returns to
  out,       \* the strings output_string was called with, in order
  result     \* write_str's fmt::Result

vars == <<variant, str, pc, s, index, utf16, i, j, ret, out, result>>

Init ==
  /\ variant \in Variants
  /\ str \in BoundedSeq(Chars, MaxLen)
  /\ pc = "start"
  /\ s = <<>> /\ index = 1
  /\ utf16 = [n \in 0 .. BufferSize |-> NUL] /\ i = 0 /\ j = 1 /\ ret = "char"
  /\ out = <<>>
  /\ result = "none"

\* The firmware's answer to output_string.
Outcomes == {"ok", "err"}

(***************************************************************************)
(* The alloc body.                                                         *)
(***************************************************************************)

\* let mut s: Vec<u16> = s.encode_utf16().collect(); s.push(0);
Collect ==
  /\ pc = "start" /\ variant = "alloc"
  /\ s' = FlattenSeq([n \in 1 .. Len(str) |-> EncodeUtf16(str[n])]) \o <<NUL>>
  /\ index' = 1
  /\ pc' = "crlf"
  /\ UNCHANGED <<variant, str, utf16, i, j, ret, out, result>>

\* Mutant: '\r' is inserted at the '\n' itself, before the first index += 1.
ScanUnitInsertBefore ==
  /\ pc = "crlf" /\ index <= Len(s)
  /\ IF s[index] = LF
     THEN /\ Len(s) < MaxUnits
          /\ s' = InsertAt(s, index, CR)
          /\ index' = index + 1
     ELSE /\ index' = index + 1 /\ UNCHANGED s
  /\ UNCHANGED <<variant, str, pc, utf16, i, j, ret, out, result>>

\* Mutant: the '\r' goes in front of the '\n'.
ScanUnitCrFirst ==
  /\ pc = "crlf" /\ index <= Len(s)
  /\ IF s[index] = LF
     THEN /\ Len(s) < MaxUnits
          /\ s' = InsertAt(s, index, CR)
          /\ index' = index + 2
     ELSE /\ index' = index + 1 /\ UNCHANGED s
  /\ UNCHANGED <<variant, str, pc, utf16, i, j, ret, out, result>>

\* while index < s.len() { if s[index] == '\n' { index += 1;
\*   s.insert(index, '\r'); } index += 1; }
ScanUnit ==
  /\ pc = "crlf" /\ index <= Len(s)
  /\ IF s[index] = LF
     THEN /\ Len(s) < MaxUnits
          /\ s' = InsertAt(s, index + 1, CR)
          /\ index' = index + 2
     ELSE /\ index' = index + 1 /\ UNCHANGED s
  /\ UNCHANGED <<variant, str, pc, utf16, i, j, ret, out, result>>

\* match self.output_string(s.as_ptr()) { Ok => Ok(()), Err => Err }
OutputVec ==
  /\ pc = "crlf" /\ index > Len(s)
  /\ out' = Append(out, UpToNul(s))
  /\ \E r \in Outcomes : result' = r
  /\ pc' = "unwrap"
  /\ UNCHANGED <<variant, str, s, index, utf16, i, j, ret>>

(***************************************************************************)
(* The no-alloc body.                                                      *)
(***************************************************************************)

Begin ==
  /\ pc = "start" /\ variant = "no_alloc"
  /\ pc' = "char"
  /\ UNCHANGED <<variant, str, s, index, utf16, i, j, ret, out, result>>

\* Mutant: the buffer is flushed only once i is past BUFFER_SIZE.
PutCharLateFlush ==
  /\ pc = "char" /\ j <= Len(str)
  /\ utf16' = [utf16 EXCEPT ![i] = str[j] % 2^16]
  /\ i' = i + 1
  /\ pc' = IF i + 1 > BufferSize THEN "flush" ELSE "lf"
  /\ ret' = "lf"
  /\ UNCHANGED <<variant, str, s, index, j, out, result>>

\* utf16[i] = char8 as u16; i += 1; if i == BUFFER_SIZE { flush }
PutChar ==
  /\ pc = "char" /\ j <= Len(str)
  /\ utf16' = [utf16 EXCEPT ![i] = str[j] % 2^16]
  /\ i' = i + 1
  /\ pc' = IF i + 1 = BufferSize THEN "flush" ELSE "lf"
  /\ ret' = "lf"
  /\ UNCHANGED <<variant, str, s, index, j, out, result>>

\* if char8 == '\n' { utf16[i] = '\r'; i += 1; if i == BUFFER_SIZE { flush } }
\* and on to the next char.
CheckLF ==
  /\ pc = "lf"
  /\ j' = j + 1
  /\ IF str[j] = LF
     THEN /\ utf16' = [utf16 EXCEPT ![i] = CR]
          /\ i' = i + 1
          /\ pc' = IF i + 1 = BufferSize THEN "flush" ELSE "char"
          /\ ret' = "char"
     ELSE /\ pc' = "char" /\ UNCHANGED <<utf16, i, ret>>
  /\ UNCHANGED <<variant, str, s, index, out, result>>

\* The full-buffer flush: utf16[BUFFER_SIZE] = 0; i = 0; output_string,
\* returning Err(fmt::Error) on failure.
Flush ==
  /\ pc = "flush"
  /\ LET a == [utf16 EXCEPT ![BufferSize] = NUL]
     IN  /\ utf16' = a
         /\ out' = Append(out, UpToNul([n \in 1 .. BufferSize + 1 |-> a[n - 1]]))
  /\ i' = 0
  /\ \E r \in Outcomes :
       IF r = "ok" THEN pc' = ret /\ UNCHANGED result
       ELSE pc' = "unwrap" /\ result' = "err"
  /\ UNCHANGED <<variant, str, s, index, j, ret>>

\* Mutant: the rest is flushed only when more than one unit is left.
CharsDoneOneLeft ==
  /\ pc = "char" /\ j > Len(str)
  /\ IF i > 1
     THEN LET a == [utf16 EXCEPT ![i] = NUL]
          IN  /\ utf16' = a
              /\ out' = Append(out, UpToNul([n \in 1 .. BufferSize + 1 |-> a[n - 1]]))
              /\ \E r \in Outcomes : result' = r
     ELSE /\ result' = "ok" /\ UNCHANGED <<utf16, out>>
  /\ pc' = "unwrap"
  /\ UNCHANGED <<variant, str, s, index, i, j, ret>>

\* The chars are done: if i != 0 { utf16[i] = 0; output_string }; Ok(()).
CharsDone ==
  /\ pc = "char" /\ j > Len(str)
  /\ IF i # 0
     THEN LET a == [utf16 EXCEPT ![i] = NUL]
          IN  /\ utf16' = a
              /\ out' = Append(out, UpToNul([n \in 1 .. BufferSize + 1 |-> a[n - 1]]))
              /\ \E r \in Outcomes : result' = r
     ELSE /\ result' = "ok" /\ UNCHANGED <<utf16, out>>
  /\ pc' = "unwrap"
  /\ UNCHANGED <<variant, str, s, index, i, j, ret>>

\* _print: write_fmt(args).unwrap(); an Err panics.
PrintUnwrap ==
  /\ pc = "unwrap"
  /\ pc' = IF result = "ok" THEN "done" ELSE "panicked"
  /\ UNCHANGED <<variant, str, s, index, utf16, i, j, ret, out, result>>

Next ==
  \/ Collect \/ ScanUnit \/ OutputVec
  \/ Begin \/ PutChar \/ CheckLF \/ Flush \/ CharsDone
  \/ PrintUnwrap

\* write_str runs on the one boot thread and every step is enabled until
\* it returns.
Spec == Init /\ [][Next]_vars /\ WF_vars(Next)

(***************************************************************************)
(* Properties.                                                             *)
(***************************************************************************)

\* The text a write_str of str should put on the screen: its UTF-16
\* encoding with a '\r' after every '\n'.
Expected(t) ==
  FlattenSeq([n \in 1 .. Len(t) |-> IF t[n] = LF THEN <<LF, CR>> ELSE EncodeUtf16(t[n])])

Shown == FlattenSeq(out)

TypeOK ==
  /\ variant \in Variants
  /\ pc \in {"start", "crlf", "char", "lf", "flush", "unwrap", "done", "panicked"}
  /\ Len(s) <= MaxUnits
  /\ i \in 0 .. BufferSize
  /\ j \in 1 .. Len(str) + 1
  /\ \A n \in 1 .. Len(out) : Len(out[n]) <= MaxUnits
  /\ result \in {"none", "ok", "err"}

\* println! either shows exactly the text, encoded as UTF-16 with each
\* line feed followed by a carriage return, or panics in _print after
\* showing a prefix of it; a '\n' that fills the no-alloc buffer must get
\* its '\r' at the start of the next output_string call, and a '\n' in the
\* Vec must not be seen again after the '\r' is inserted.
TextShown ==
  /\ pc = "done" => Shown = Expected(str)
  /\ pc = "panicked" => IsPrefix(Shown, Expected(str))

\* write_str returns, however many '\n' the Vec scan inserts after.
WriteReturns == <>(pc \in {"done", "panicked"})
====
