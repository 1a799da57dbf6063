---------------------------------- MODULE Pki ----------------------------------
(* internal/ocserv/pki.go: the files of one instance's CA, as the handlers of  *)
(* Clients.tla use them. Every function here is several file operations and    *)
(* none takes a lock, so each operation is an action of its own; the caller    *)
(* keeps what the function holds in its locals. The making of the CA is one    *)
(* step here; PkiBootstrap.tla takes it and the server certificate apart.      *)
EXTENDS Records

CONSTANTS
    Serials,    \* certificate serials
    Torn,       \* a CRL truncated and not completely written
    Garbled     \* a revoked.json that does not parse

ASSUME TornAssumption == Torn # Garbled /\ \A set \in SUBSET Serials : Torn # set

VARIABLES
    ca,         \* instances that have ca.pem and ca.key
    pems,       \* clients/<serial>.pem: the common name each was issued to
    keys,       \* clients/<serial>.key
    revoked,    \* revoked.json per instance; truncated, it reads as empty
    crl         \* crl.pem per instance

pkiVars == <<ca, pems, keys, revoked, crl>>

PkiInit ==
    /\ ca = {}
    /\ pems = {}
    /\ keys = {}
    /\ revoked = [n \in Names |-> {}]
    /\ crl = [n \in Names |-> {}]

(* Not the code: the CRL is seeded whenever an instance is created. *)
EnsureCAReseeding(n) ==
    /\ ca' = ca \cup {n}
    /\ crl' = [crl EXCEPT ![n] = {}]
    /\ UNCHANGED <<pems, keys, revoked>>

(* EnsureCA: loads the CA, or makes one and seeds an empty CRL. *)
EnsureCA(n) ==
    /\ ca' = ca \cup {n}
    /\ crl' = IF n \in ca THEN crl ELSE [crl EXCEPT ![n] = {}]
    /\ UNCHANGED <<pems, keys, revoked>>

(* IssueClient draws a serial nobody has (newSerial: 128 random bits), writes *)
(* the certificate and then its key. Without a CA it fails before either.     *)
Used == {p.serial : p \in pems}

WritePem(n, cn, s) ==
    /\ n \in ca
    /\ s \in Serials \ Used
    /\ pems' = pems \cup {[n |-> n, cn |-> cn, serial |-> s]}
    /\ UNCHANGED <<ca, keys, revoked, crl>>

WriteKey(s) ==
    /\ keys' = keys \cup {s}
    /\ UNCHANGED <<ca, pems, revoked, crl>>

(* saveRevoked: os.WriteFile truncates revoked.json in place, then writes it. *)
TruncateRevoked(n) ==
    /\ revoked' = [revoked EXCEPT ![n] = {}]
    /\ UNCHANGED <<ca, pems, keys, crl>>

WriteRevoked(n, set) ==
    /\ revoked' = [revoked EXCEPT ![n] = set]
    /\ UNCHANGED <<ca, pems, keys, crl>>

(* writeCRL signs the whole set; the file is truncated and written in place. *)
TruncateCRL(n) ==
    /\ crl' = [crl EXCEPT ![n] = Torn]
    /\ UNCHANGED <<ca, pems, keys, revoked>>

WriteCRL(n, set) ==
    /\ crl' = [crl EXCEPT ![n] = set]
    /\ UNCHANGED <<ca, pems, keys, revoked>>

PkiTypeOK ==
    /\ ca \subseteq Names
    /\ pems \subseteq [n : Names, cn : CNs, serial : Serials]
    /\ keys \subseteq Serials
    /\ revoked \in [Names -> (SUBSET Serials) \cup {Garbled}]
    /\ crl \in [Names -> (SUBSET Serials) \cup {Torn}]
================================================================================
