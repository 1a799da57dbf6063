------------------------------ MODULE AtomicStore ------------------------------
(* What the store promises the rest of the daemon: a mutation happens in one   *)
(* step, in memory and on disk together, or in memory only when its flush      *)
(* fails; a reader is handed the records as some step left them; a restart     *)
(* continues from the disk. Store.tla implements this with a lock, a temporary *)
(* file and a rename; Clients.tla is built on it.                              *)
EXTENDS Records

VARIABLES
    mem,    \* the records as readers find them
    disk,   \* the records a restart would load
    seen    \* the snapshot last handed to a reader

vars == <<mem, disk, seen>>

Init == mem = Empty /\ disk = Empty /\ seen = Empty

(* A mutation whose outcome is d; ok says whether its flush succeeded. A failed *)
(* flush leaves memory ahead of the disk until a later one succeeds.            *)
Commit(d, ok) ==
    /\ mem' = d
    /\ disk' = IF ok THEN d ELSE disk
    /\ seen' = seen

Mutate == \E d \in Mutated(mem), ok \in BOOLEAN : Commit(d, ok)

Read == seen' = mem /\ UNCHANGED <<mem, disk>>

Restart == mem' = disk /\ UNCHANGED <<disk, seen>>

Next == Mutate \/ Read \/ Restart

Spec == Init /\ [][Next]_vars
================================================================================
