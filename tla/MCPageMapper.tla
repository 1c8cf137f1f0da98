---------------------------- MODULE MCPageMapper ----------------------------
(***************************************************************************)
(* map_page over a firmware hierarchy like the one OVMF hands over: the    *)
(* PML4 (frame 1) names a PDPT (2) whose first entry is a 1 GiB identity   *)
(* page and whose second names a PD (3); that PD holds a 2 MiB page and a  *)
(* page table (4) with one 4 KiB mapping.  The firmware keeps its tables   *)
(* read-only.  Three free frames hold garbage that looks like present      *)
(* entries pointing at the PML4.  The virtual pages cover every outcome:   *)
(* a 1 GiB conflict, a 2 MiB conflict, a 4 KiB conflict, a free slot in an *)
(* existing table, a walk that allocates three tables, and one that needs  *)
(* two more tables than are left once the first has run.                   *)
(***************************************************************************)
EXTENDS PageMapper, TLC

MCFrames == 0 .. 9
MCTableEntries == 2
MCReadOnlyFrames == {1, 2, 3, 4}
MCFreeFrames == {6, 7, 8}
MCDataFrames == {9}
MCVAddrs == {<<0, 0, 0, 0>>, <<0, 1, 0, 0>>, <<0, 1, 1, 0>>,
             <<0, 1, 1, 1>>, <<1, 0, 0, 0>>, <<1, 1, 0, 0>>}

Ptr(f)   == [present |-> TRUE, writable |-> TRUE, pageSize |-> FALSE, addr |-> f]
Large(f) == [present |-> TRUE, writable |-> TRUE, pageSize |-> TRUE, addr |-> f]

MCFirmwareMemory ==
  [f \in MCFrames |->
     CASE f = 1 -> (0 :> Ptr(2) @@ 1 :> Unused)
       [] f = 2 -> (0 :> Large(0) @@ 1 :> Ptr(3))
       [] f = 3 -> (0 :> Large(0) @@ 1 :> Ptr(4))
       [] f = 4 -> (0 :> Ptr(5) @@ 1 :> Unused)
       [] f \in MCFreeFrames -> [i \in 0 .. 1 |-> Ptr(1)]
       [] OTHER -> [i \in 0 .. 1 |-> Unused]]
=============================================================================
