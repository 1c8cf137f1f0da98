----------------------------- MODULE MCBootMenu -----------------------------
(***************************************************************************)
(* The menu of efi_main: two options.  Two seconds on the clock give one   *)
(* tick that only counts down and one that times out; the keys cover a     *)
(* valid option, a digit beyond the options, Enter, and U+0131, whose low  *)
(* byte is the digit '1'.  The console has the 25 rows of text mode 0,     *)
(* which the loader never changes (set_max_largest_screen_mode has no      *)
(* caller).                                                                *)
(***************************************************************************)
EXTENDS BootMenu

MCKeys == {Zero + 1, Zero + 2, Zero + 3, CR, 305}
=============================================================================
