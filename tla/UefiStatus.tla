------------------------------ MODULE UefiStatus ------------------------------
(***************************************************************************)
(* EFI_STATUS as libs/uefi/uefi_core/src/status.rs defines it: the Status  *)
(* enum (repr(usize), warnings from 0, errors from ERROR_BIT | 1), the     *)
(* Error enum (from 0), the two From<usize> tables, and                    *)
(* Status::into_result, which every wrapper call uses to turn the          *)
(* firmware's status into a Result.                                        *)
(*                                                                         *)
(* A firmware call returns a Status (the function pointers are typed so),  *)
(* and the caller converts it with into_result.  The word is Width bits    *)
(* wide (usize is 64; the tables need 7 bits below ERROR_BIT).             *)
(***************************************************************************)
EXTENDS Naturals, Sequences, Bitwise

CONSTANT Width

ASSUME Width >= 8

ERROR_BIT == 2^(Width - 1)

\* !ERROR_BIT
NotErrorBit == 2^(Width - 1) - 1

\* The variants of Status below ERROR_BIT, in declaration order from 0.
Warnings ==
  <<"Success", "WarnUnknownGlyph", "WarnDeleteFailure", "WarnWriteFailure",
    "WarnBufferTooSmall", "WarnStaleData", "WarnFileSystem", "WarnResetRequired">>

\* The variants of Error, in declaration order from 0; Status declares the
\* same names in the same order from ERROR_BIT | 1.
Errors ==
  <<"LoadError", "InvalidParameter", "Unsupported", "BadBufferSize",
    "BufferTooSmall", "NotReady", "DeviceError", "OutOfResources",
    "WriteProtected", "VolumeCorrupted", "VolumeFull", "NoMedia",
    "MediaChanged", "NotFound", "AccessDenied", "NoResponse", "NoMapping",
    "Timeout", "NotStarted", "AlreadyStarted", "Aborted", "ICMPError",
    "TFTPError", "ProtocolError", "IncompatibleVersion", "SecurityViolation",
    "CRCError", "EndOfMedia", "EndOfFile", "InvalidLanguage",
    "CompromisedData", "IPAddressConflict", "HTTPError", "Unknown">>

\* HTTPError is the last variant both From tables name; Unknown follows.
LastNamed == Len(Errors) - 1

StatusNames == {Warnings[k] : k \in 1 .. Len(Warnings)} \cup {Errors[k] : k \in 1 .. Len(Errors)}

\* The discriminant of a Status variant: its position among the warnings,
\* or ERROR_BIT | 1 for LoadError and one more for each variant after it.
Discriminant(st) ==
  IF \E k \in 1 .. Len(Warnings) : Warnings[k] = st
  THEN CHOOSE d \in 0 .. Len(Warnings) - 1 : Warnings[d + 1] = st
  ELSE ERROR_BIT + (CHOOSE k \in 1 .. Len(Errors) : Errors[k] = st)

\* impl From<usize> for Error: 0 => LoadError, ..., 32 => HTTPError,
\* _ => Unknown.
ErrorFrom(n) == IF n < LastNamed THEN Errors[n + 1] ELSE "Unknown"

\* impl From<usize> for Status: a warning by number below ERROR_BIT, and
\* above it the error numbered n & !ERROR_BIT by the same table as Error.
StatusFrom(n) ==
  IF (n & ERROR_BIT) = 0
  THEN IF n < Len(Warnings) THEN Warnings[n + 1] ELSE "Unknown"
  ELSE ErrorFrom(n & NotErrorBit)

\* Status::into_result: Ok when ERROR_BIT is clear, else
\* Err(Error::from(self as usize & !ERROR_BIT)).
IntoResult(st) ==
  IF (Discriminant(st) & ERROR_BIT) = 0
  THEN [ok |-> TRUE, err |-> "none"]
  ELSE [ok |-> FALSE, err |-> ErrorFrom(Discriminant(st) & NotErrorBit)]

(***************************************************************************)
(* A wrapper call: the firmware returns a status, the wrapper converts it. *)
(***************************************************************************)

VARIABLES
  raw,      \* the word the firmware returned
  status,   \* the Status the Rust code sees it as
  result    \* the Result the wrapper returns to its caller

vars == <<raw, status, result>>

\* The call has not returned yet.
Pending == [ok |-> FALSE, err |-> "pending"]

Init ==
  /\ raw = 0
  /\ status = "none"
  /\ result = Pending

\* The Status a word reads as through the repr(usize) return type: the
\* variant with that discriminant, or, for any other word, undefined
\* behaviour, modelled as any variant.
ReadsAs(n) ==
  LET named == {st \in StatusNames : Discriminant(st) = n}
  IN  IF named # {} THEN named ELSE StatusNames

\* (self.0.some_service)(...) returns a word.
FirmwareCall ==
  /\ status = "none"
  /\ \E n \in 0 .. 2^Width - 1 :
       /\ raw' = n
       /\ status' \in ReadsAs(n)
  /\ UNCHANGED result

\* .into_result(value)
Convert ==
  /\ status # "none" /\ result = Pending
  /\ result' = IntoResult(status)
  /\ UNCHANGED <<raw, status>>

Next == FirmwareCall \/ Convert

Spec == Init /\ [][Next]_vars

(***************************************************************************)
(* Properties.                                                             *)
(***************************************************************************)

\* The numeric conversions of status.rs invert the discriminants Status
\* declares: the Error into_result returns for a failing call names the
\* Status the firmware returned (BufferTooSmall from get_memory_map is
\* reported as BufferTooSmall, OutOfResources from allocate_pool as
\* OutOfResources), and Status::from gives back the variant whose
\* discriminant it is given.
ConversionsNameStatus ==
  /\ result # Pending /\ ~result.ok => result.err = status
  /\ status # "none" => StatusFrom(Discriminant(status)) = status
====
