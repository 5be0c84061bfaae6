---------------------------- MODULE GuestPageMap ----------------------------
(***************************************************************************)
(* What the vhost memory listener promises the kernel, with the region    *)
(* table abstracted away: a set of present RAM sections and a map from    *)
(* guest page to host address.  Adding a section maps its pages at the    *)
(* section's host address, unless its region logs dirty pages (such a     *)
(* section is kept out of the kernel's table); removing a section unmaps  *)
(* its pages.  The memory API never adds a section over a present one.    *)
(* VhostDev's table of merged regions (vhost_dev_assign_memory and         *)
(* vhost_dev_unassign_memory) is shown to implement this by a refinement  *)
(* mapping (VhostDev!PageMap).                                             *)
(***************************************************************************)
EXTENDS Naturals

CONSTANTS
    Sections,   \* the sections the memory API may report
    Logging,    \* memory regions with dirty logging on
    SecHva(_)   \* the host address a section starts at

VARIABLES
    present,    \* the sections reported and not yet removed
    map         \* the mapped guest pages, as <<page, host address>> pairs

pmvars == <<present, map>>

SecPageSet(s) == s.gpa .. s.gpa + s.size - 1

SecMapping(s) == {<<p, SecHva(s) + p - s.gpa>> : p \in SecPageSet(s)}

Init ==
    /\ present = {}
    /\ map = {}

(* region_add: a section over no present section.                         *)
Add(s) ==
    /\ s \notin present
    /\ \A t \in present : SecPageSet(t) \cap SecPageSet(s) = {}
    /\ present' = present \cup {s}
    /\ map' = IF s.mr \in Logging THEN map ELSE map \cup SecMapping(s)

(* region_del.                                                             *)
Del(s) ==
    /\ s \in present
    /\ present' = present \ {s}
    /\ map' = {e \in map : e[1] \notin SecPageSet(s)}

Next == \E s \in Sections : Add(s) \/ Del(s)

Spec == Init /\ [][Next]_pmvars

(* The map is exactly the mappings of the present sections that do not log. *)
MapExact ==
    map = UNION {SecMapping(s) : s \in {t \in present : t.mr \notin Logging}}
=============================================================================
