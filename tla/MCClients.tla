------------------------------- MODULE MCClients -------------------------------
(* Clients.tla for TLC. *)
EXTENDS Clients, TLC

MCClientRecs == [mode : Modes, serial : Serials \cup {None}, ip : IPs \cup {NoIP}]
DisabledRecs == {[auth |-> "cert", enabled |-> FALSE]}
MixedRecs == {[auth |-> a, enabled |-> TRUE] : a \in {"cert", "password"}}
MCInstanceRecs == {[auth |-> "cert", enabled |-> TRUE]}

Symmetry == {p @@ q : p \in Permutations(Requests), q \in Permutations(Serials)}

(* Where no common name and no address is special. *)
NameSymmetry == {p @@ q : p \in Symmetry, q \in Permutations(CNs)}
================================================================================
