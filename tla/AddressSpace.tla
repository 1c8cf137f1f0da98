---------------------------- MODULE AddressSpace ----------------------------
(***************************************************************************)
(* What map_page promises, seen from outside the page-table hierarchy: a   *)
(* partial function from virtual pages to translations.  A call either     *)
(* adds one 4 KiB translation for a virtual page that had none and leaves  *)
(* every other translation alone, or ends the boot with a fatal abort.     *)
(* An abort leaves the translations as they were.                          *)
(***************************************************************************)
EXTENDS Naturals

CONSTANTS
  VAddrs,      \* virtual pages the callers may ask for
  Frames,      \* physical frames
  NoMapping,   \* the translation of an unmapped page
  NoRequest    \* no map_page call is in progress

Translation == [frame : Frames, size : {"4K", "2M", "1G"}]

VARIABLES
  mapping,     \* the current translation of each virtual page
  request,     \* the call in progress: <<va, pa>>, or NoRequest
  halted       \* the boot attempt has been aborted

vars == <<mapping, request, halted>>

Init ==
  /\ mapping \in [VAddrs -> Translation \cup {NoMapping}]
  /\ request = NoRequest
  /\ halted = FALSE

Call(va, pa) ==
  /\ ~halted
  /\ request = NoRequest
  /\ request' = <<va, pa>>
  /\ UNCHANGED <<mapping, halted>>

Complete ==
  /\ request # NoRequest
  /\ mapping[request[1]] = NoMapping
  /\ mapping' = [mapping EXCEPT ![request[1]] = [frame |-> request[2], size |-> "4K"]]
  /\ request' = NoRequest
  /\ UNCHANGED halted

\* A conflicting mapping or an exhausted allocator: both are fatal.
Abort ==
  /\ request # NoRequest
  /\ halted' = TRUE
  /\ UNCHANGED <<mapping, request>>

Next ==
  \/ \E va \in VAddrs, pa \in Frames : Call(va, pa)
  \/ Complete
  \/ Abort

Spec == Init /\ [][Next]_vars
=============================================================================
