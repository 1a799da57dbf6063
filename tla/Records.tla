-------------------------------- MODULE Records --------------------------------
(* The record set openconnectd persists (internal/state/store.go, type data): *)
(* at most one instance record per name, and at most one client record per     *)
(* instance name and common name. Only values here, no state: the modules that *)
(* hold a copy of the records in memory or on disk extend this one.            *)

CONSTANTS
    Names,          \* instance names
    CNs,            \* common names of clients
    InstanceRecs,   \* what an instance record may say
    ClientRecs,     \* what a client record may say
    Absent          \* the key is not in the map

ASSUME AbsentAssumption == Absent \notin InstanceRecs \cup ClientRecs

Data == [ inst : [Names -> InstanceRecs \cup {Absent}],
          cli  : [Names -> [CNs -> ClientRecs \cup {Absent}]] ]

Empty == [ inst |-> [n \in Names |-> Absent],
           cli  |-> [n \in Names |-> [cn \in CNs |-> Absent]] ]

Known(d, n) == d.inst[n] # Absent

(* Not the code: a DeleteInstance that forgets the clients map. *)
WithoutInstanceOnly(d, n) == [d EXCEPT !.inst[n] = Absent]

(* The four mutations, as functions of the records they are applied to. *)
WithInstance(d, n, rec)   == [d EXCEPT !.inst[n] = rec]
WithoutInstance(d, n)     == [d EXCEPT !.inst[n] = Absent,
                                       !.cli[n] = [cn \in CNs |-> Absent]]
WithClient(d, n, cn, rec) == [d EXCEPT !.cli[n][cn] = rec]
WithoutClient(d, n, cn)   == [d EXCEPT !.cli[n][cn] = Absent]

(* Everything one mutation can make of d. A client is only put under a known *)
(* instance.                                                                 *)
Mutated(d) ==
    UNION { {WithInstance(d, n, rec) : rec \in InstanceRecs}
            \cup {WithoutInstance(d, n)}
            \cup {WithClient(d, n, cn, rec) : cn \in {c \in CNs : Known(d, n)}, rec \in ClientRecs}
            \cup {WithoutClient(d, n, cn) : cn \in CNs}
          : n \in Names }

(* No client is recorded under an instance that is not. *)
Rooted(d) == \A n \in Names, cn \in CNs : d.cli[n][cn] # Absent => Known(d, n)
================================================================================
