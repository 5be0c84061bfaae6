----------------------------- MODULE MCVhostDev -----------------------------
(***************************************************************************)
(* A small instance of VhostDev for TLC: six guest pages in three log     *)
(* words of two pages, one queue whose ring is on page 1, and sections     *)
(* chosen so that every case of the table code happens: A, B, E are one   *)
(* RAM block contiguous in host memory (they merge, and deleting B splits *)
(* the merged region, deleting A or E shifts or shrinks it), B2 maps page *)
(* 2 from elsewhere, V is a VGA section that logs, C lies in the last log *)
(* word (the log grows and shrinks around it) and A2 maps the ring's page *)
(* from another block (the ring relocates).                                *)
(***************************************************************************)
EXTENDS VhostDev, TLC

SecA  == [gpa |-> 0, size |-> 2, mr |-> "ram", off |-> 0]
SecB  == [gpa |-> 2, size |-> 1, mr |-> "ram", off |-> 2]
SecE  == [gpa |-> 3, size |-> 1, mr |-> "ram", off |-> 3]
SecB2 == [gpa |-> 2, size |-> 1, mr |-> "hi",  off |-> 6]
SecV  == [gpa |-> 2, size |-> 1, mr |-> "vga", off |-> 0]
SecC  == [gpa |-> 4, size |-> 2, mr |-> "hi",  off |-> 0]
SecA2 == [gpa |-> 0, size |-> 2, mr |-> "hi",  off |-> 2]

MCSections == {SecA, SecA2, SecB, SecE, SecB2, SecV, SecC}
MCSectionsRelocate == {SecA, SecA2, SecE, SecC}
MCRamBase  == ("ram" :> 10) @@ ("hi" :> 20) @@ ("vga" :> 40)
MCLogging  == {"vga"}
MCRingPage == <<1>>

(* The sections that merge, split, shift, shrink and log, for the         *)
(* refinement of the page map.                                             *)
MCSectionsTable == {SecA, SecB, SecE, SecB2, SecV, SecC}

(* V0 is a VGA section, logging, at the ring's guest pages: once A is     *)
(* removed from a running device, V0 can appear where the ring was.       *)
SecV0 == [gpa |-> 0, size |-> 2, mr |-> "vga", off |-> 4]
MCSectionsRingVga == {SecA, SecV0, SecC}

(* Two queues whose rings sit in two regions, for the per-queue loop of    *)
(* vhost_dev_set_log and of vhost_dev_start.                               *)
MCSectionsQueues == {SecA, SecB, SecC}
MCRingPage2      == <<1, 5>>
=============================================================================
