----------------------------- MODULE DirAccess -----------------------------
(* What a directory lock promises (fs/lock.rs 5-7): readers use the        *)
(* directory together, a writer alone, and whoever is inside stays until   *)
(* it leaves.  A process that dies takes all of its users with it.         *)
CONSTANT Users
VARIABLES readers, writers

Init == readers = {} /\ writers = {}

Read(u) ==
    /\ writers = {}
    /\ u \notin readers
    /\ readers' = readers \cup {u}
    /\ UNCHANGED writers

Write(u) ==
    /\ readers = {} /\ writers = {}
    /\ writers' = {u}
    /\ UNCHANGED readers

Leave(gone) ==
    /\ readers' = readers \ gone
    /\ writers' = writers \ gone

Next ==
    \/ \E u \in Users : Read(u) \/ Write(u)
    \/ \E gone \in SUBSET Users : Leave(gone)

Spec == Init /\ [][Next]_<<readers, writers>>
=============================================================================
