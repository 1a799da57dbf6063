---------------------------------- MODULE MCTui ----------------------------------
(* Tui.tla for TLC: so many changes of the daemon's state by others, and so many *)
(* keys, at any time.                                                            *)
EXTENDS Tui

CONSTANTS MaxChanges, MaxKeys

VARIABLE spent      \* changes and keys so far

(* Every instance enabled at first; the changes and the toggles do the rest. *)
MCInit ==
    /\ Init
    /\ \A n \in Names : inst[n] = "on"
    /\ spent = [changes |-> 0, keys |-> 0]

MCNext ==
    \/ World /\ spent.changes < MaxChanges /\ spent' = [spent EXCEPT !.changes = @ + 1]
    \/ KeyMsg /\ spent.keys < MaxKeys /\ spent' = [spent EXCEPT !.keys = @ + 1]
    \/ (TimerFires \/ TickMsg \/ \E s \in Slots : Run(s) \/ Deliver(s)) /\ UNCHANGED spent

MCSpec == MCInit /\ [][MCNext]_<<vars, spent>> /\ Fairness
================================================================================
