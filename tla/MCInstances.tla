------------------------------ MODULE MCInstances ------------------------------
(* Instances.tla for TLC. *)
EXTENDS Instances, TLC

CONSTANT OneHost        \* an address of the host

MCInstanceRecs == [listen : Listeners, other : Others, enabled : BOOLEAN]

MCHosts == {AnyHost, OneHost}

Plain == [port |-> 443, tcpPort |-> 0, dtls |-> TRUE, host |-> AnyHost, proxy |-> FALSE]

(* TCP moved, behind a relay on the same host: the UDP socket still clashes. *)
MCListeners == {Plain, [Plain EXCEPT !.tcpPort = 8443, !.host = OneHost, !.proxy = TRUE]}

MCOneListener == {Plain}

Symmetry == Permutations(Requests) \cup Permutations(Pids)
================================================================================
