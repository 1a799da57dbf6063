-------------------------------- MODULE Clients --------------------------------
(* internal/ocserv/manager.go, the client operations: CreateClient,            *)
(* DeleteClient, PatchClient and the pin rebuild of every render, run by HTTP  *)
(* handlers that interleave freely, over the record store (AtomicStore), the   *)
(* PKI files (Pki), the ocpasswd file, the per-user pin files and the ocserv   *)
(* process that reads them. The manager has no lock of its own.                *)
EXTENDS Pki, Integers, FiniteSets

CONSTANTS
    Requests,       \* handlers that may be in flight at once
    Modes,          \* auth modes a client may ask for
    IPs,            \* addresses a caller may ask for
    BadIPs,         \* those that do not parse as IPv4
    UnsafeCNs,      \* common names that are not a bare file name
    NoIP,           \* no address
    TornPin,        \* a pin file opened by a write that has not ended
    None,           \* no serial, no instance, no name
    Discipline,     \* what callers keep apart: "none", "client", "pin", "instance"
    MayFail,        \* file operations and flushes may fail
    MayCrash        \* the daemon may die and be restarted

ASSUME ModesAssumption == Modes \subseteq {"cert", "password", "both"}
ASSUME RecsAssumption ==
    /\ ClientRecs = [mode : Modes, serial : Serials \cup {None}, ip : IPs \cup {NoIP}]
    /\ InstanceRecs \subseteq [auth : {"cert", "password", "both"}, enabled : BOOLEAN]
ASSUME NoneAssumption ==
    /\ None \notin Serials /\ NoIP \notin IPs /\ TornPin \notin IPs \cup {NoIP}
    /\ BadIPs \subseteq IPs /\ UnsafeCNs \subseteq CNs
ASSUME SwitchesAssumption ==
    /\ Discipline \in {"none", "client", "pin", "instance"}
    /\ MayFail \in BOOLEAN /\ MayCrash \in BOOLEAN

VARIABLES
    mem, disk,      \* the record store, see AtomicStore
    req,            \* the handlers in flight: program counter and locals
    passwd,         \* <instance>.ocpasswd: the users in it
    pins,           \* <instance>.per-user/<cn>: the pinned address, if any
    running,        \* instances with a live ocserv
    hup,            \* instances whose ocserv has a SIGHUP pending
    inForce,        \* the CRL each ocserv last loaded
    gone            \* ghost: serials whose client was deleted with success

storeVars == <<mem, disk>>
ocservVars == <<running, hup, inForce>>
vars == <<storeVars, pkiVars, req, passwd, pins, ocservVars, gone>>

DB == INSTANCE AtomicStore WITH seen <- Empty

HasCert(mode) == mode \in {"cert", "both"}
HasPassword(mode) == mode \in {"password", "both"}

Addrs == IPs \cup {NoIP}
PinFiles == Addrs \cup {TornPin}

Outcomes == IF MayFail THEN BOOLEAN ELSE {TRUE}

(* A request between two calls: what a handler keeps ends with it. *)
Idle == [ pc |-> "idle", n |-> None, cn |-> None, rec |-> Absent, pw |-> FALSE,
          snap |-> {}, users |-> {}, todo |-> [cn \in CNs |-> NoIP] ]

Init ==
    /\ mem = Empty /\ disk = Empty
    /\ PkiInit
    /\ req = [r \in Requests |-> Idle]
    /\ passwd = [n \in Names |-> {}]
    /\ pins = [n \in Names |-> [cn \in CNs |-> NoIP]]
    /\ running = {} /\ hup = {}
    /\ inForce = [n \in Names |-> {}]
    /\ gone = [n \in Names |-> {}]

--------------------------------------------------------------------------------
(* Admission. The code admits anything at any time; Discipline says what the  *)
(* callers keep apart, as a control plane that queues its calls would:         *)
(*   "client"    two handlers of one client, renders come at any time          *)
(*   "pin"       and a render that has still to write the address it listed    *)
(*               for a client, from the handlers of that client                *)
(*   "instance"  all that is about one instance                                *)

Busy(n) == {r \in Requests : req[r].pc # "idle" /\ req[r].n = n}

Rendering(r) == req[r].pc \in {"sync", "syncWrite"}

(* The clients whose pin a handler has in hand. *)
Touches(r) == IF Rendering(r) THEN {cn \in CNs : req[r].todo[cn] # NoIP} ELSE {req[r].cn}

Admitted(r, n, cn) ==
    /\ req[r].pc = "idle"
    /\ Discipline = "client" => \A q \in Busy(n) : ~Rendering(q) => req[q].cn # cn
    /\ Discipline = "pin" => \A q \in Busy(n) : cn \notin Touches(q)
    /\ Discipline = "instance" => Busy(n) = {}

(* Bound: a create that will issue a certificate is admitted only while there *)
(* is a serial for it and for every other handler in flight.                  *)
SerialLeft ==
    Cardinality(Serials \ Used) > Cardinality({r \in Requests : req[r].pc # "idle"})

Goto(r, pc) == req' = [req EXCEPT ![r].pc = pc]

(* A call inside the handler returns: what it had loaded goes with it. *)
Leave(r, pc) ==
    req' = [req EXCEPT ![r].pc = pc, ![r].pw = FALSE, ![r].snap = {}, ![r].users = {}]

Return(r) == req' = [req EXCEPT ![r] = Idle]

--------------------------------------------------------------------------------
(* CreateClient: the instance is looked up on entry, then the name. *)

(* Not the code: "both" takes only the certificate branch. *)
AfterIssueEither(rec) == IF rec.mode = "password" THEN "passwd" ELSE "pin"

AfterIssue(rec) == IF HasPassword(rec.mode) THEN "passwd" ELSE "pin"

CreateClient(r, n, cn, mode, ip, pw) ==
    /\ Admitted(r, n, cn)
    /\ HasCert(mode) => SerialLeft
    /\ Known(mem, n)
    /\ req' = [req EXCEPT ![r] =
          [Idle EXCEPT !.pc = "exists", !.n = n, !.cn = cn, !.pw = pw,
                       !.rec = [mode |-> mode, serial |-> None, ip |-> ip]]]
    /\ UNCHANGED <<storeVars, pkiVars, passwd, pins, ocservVars, gone>>

(* Not the code: a create that does not look whether the name is taken. *)
ExistsUnchecked(r) ==
    /\ req[r].pc = "exists"
    /\ Goto(r, IF HasCert(req[r].rec.mode) THEN "issue" ELSE AfterIssue(req[r].rec))
    /\ UNCHANGED <<storeVars, pkiVars, passwd, pins, ocservVars, gone>>

(* "client already exists" is the early return. *)
Exists(r) ==
    /\ req[r].pc = "exists"
    /\ IF mem.cli[req[r].n][req[r].cn] # Absent THEN Return(r)
       ELSE Goto(r, IF HasCert(req[r].rec.mode) THEN "issue" ELSE AfterIssue(req[r].rec))
    /\ UNCHANGED <<storeVars, pkiVars, passwd, pins, ocservVars, gone>>

(* Not the code: the key file is never written. *)
IssuePemOnly(r) ==
    /\ req[r].pc = "issue"
    /\ \E s \in Serials :
          /\ WritePem(req[r].n, req[r].cn, s)
          /\ req' = [req EXCEPT ![r].pc = AfterIssue(req[r].rec), ![r].rec.serial = s]
    /\ UNCHANGED <<storeVars, passwd, pins, ocservVars, gone>>

IssuePem(r) ==
    /\ req[r].pc = "issue"
    /\ \E s \in Serials :
          /\ WritePem(req[r].n, req[r].cn, s)
          /\ req' = [req EXCEPT ![r].pc = "key", ![r].rec.serial = s]
    /\ UNCHANGED <<storeVars, passwd, pins, ocservVars, gone>>

IssueKey(r) ==
    /\ req[r].pc = "key"
    /\ WriteKey(req[r].rec.serial)
    /\ Goto(r, AfterIssue(req[r].rec))
    /\ UNCHANGED <<storeVars, passwd, pins, ocservVars, gone>>

(* IssueClient on an instance without a CA. *)
IssueRefused(r) ==
    /\ req[r].pc = "issue"
    /\ req[r].n \notin ca
    /\ Return(r)
    /\ UNCHANGED <<storeVars, pkiVars, passwd, pins, ocservVars, gone>>

(* SetPassword, or "password required": the certificate issued before stays. *)
SetPassword(r) ==
    /\ req[r].pc = "passwd"
    /\ IF req[r].pw
       THEN /\ passwd' = [passwd EXCEPT ![req[r].n] = @ \cup {req[r].cn}]
            /\ Leave(r, "pin")
       ELSE Return(r) /\ UNCHANGED passwd
    /\ UNCHANGED <<storeVars, pkiVars, pins, ocservVars, gone>>

(* writePerUserConfig: an unsafe name or a bad address is an error; no address *)
(* removes the file, an address is written in place: opened, then filled.      *)
Pinnable(cn, ip) == cn \notin UnsafeCNs /\ ip \notin BadIPs

(* Not the code: a refused pin is logged and the client recorded all the same. *)
PinOptional(r) ==
    /\ req[r].pc = "pin"
    /\ ~Pinnable(req[r].cn, req[r].rec.ip)
    /\ Goto(r, "put")
    /\ UNCHANGED <<storeVars, pkiVars, passwd, pins, ocservVars, gone>>

PinRefused(r) ==
    /\ req[r].pc = "pin"
    /\ ~Pinnable(req[r].cn, req[r].rec.ip)
    /\ Return(r)
    /\ UNCHANGED <<storeVars, pkiVars, passwd, pins, ocservVars, gone>>

PinOpen(r) ==
    /\ req[r].pc = "pin"
    /\ Pinnable(req[r].cn, req[r].rec.ip)
    /\ LET none == req[r].rec.ip = NoIP
       IN  /\ pins' = [pins EXCEPT ![req[r].n][req[r].cn] = IF none THEN NoIP ELSE TornPin]
           /\ Goto(r, IF none THEN "put" ELSE "pinWrite")
    /\ UNCHANGED <<storeVars, pkiVars, passwd, ocservVars, gone>>

PinWrite(r) ==
    /\ req[r].pc = "pinWrite"
    /\ pins' = [pins EXCEPT ![req[r].n][req[r].cn] = req[r].rec.ip]
    /\ Goto(r, "put")
    /\ UNCHANGED <<storeVars, pkiVars, passwd, ocservVars, gone>>

(* Not the code: PutClient without the check of the instance. *)
PutUnchecked(r, ok) ==
    /\ req[r].pc = "put"
    /\ DB!Commit(WithClient(mem, req[r].n, req[r].cn, req[r].rec), ok)
    /\ Return(r)
    /\ UNCHANGED <<pkiVars, passwd, pins, ocservVars, gone>>

(* store.PutClient, refused when the instance has gone in the meantime. *)
Put(r, ok) ==
    /\ req[r].pc = "put"
    /\ IF Known(mem, req[r].n)
       THEN DB!Commit(WithClient(mem, req[r].n, req[r].cn, req[r].rec), ok)
       ELSE UNCHANGED storeVars
    /\ Return(r)
    /\ UNCHANGED <<pkiVars, passwd, pins, ocservVars, gone>>

--------------------------------------------------------------------------------
(* PatchClient: reads the whole record, changes it, and goes through the       *)
(* password, the pin and PutClient like a create. It never looks at the record *)
(* again.                                                                      *)

(* Not the code: only a create pins the address. *)
PatchClientUnpinned(r, n, cn, ip, pw) ==
    /\ Admitted(r, n, cn)
    /\ mem.cli[n][cn] # Absent
    /\ req' = [req EXCEPT ![r] =
          [Idle EXCEPT !.pc = "put", !.n = n, !.cn = cn,
                       !.rec = [mem.cli[n][cn] EXCEPT !.ip = ip]]]
    /\ UNCHANGED <<storeVars, pkiVars, passwd, pins, ocservVars, gone>>

PatchClient(r, n, cn, ip, pw) ==
    /\ Admitted(r, n, cn)
    /\ mem.cli[n][cn] # Absent
    /\ LET old == mem.cli[n][cn]
       IN  req' = [req EXCEPT ![r] =
              [Idle EXCEPT !.pc = IF pw /\ HasPassword(old.mode) THEN "passwd" ELSE "pin",
                           !.n = n, !.cn = cn, !.pw = pw /\ HasPassword(old.mode),
                           !.rec = [old EXCEPT !.ip = ip]]]
    /\ UNCHANGED <<storeVars, pkiVars, passwd, pins, ocservVars, gone>>

--------------------------------------------------------------------------------
(* DeleteClient *)

AfterReload(rec) == IF HasPassword(rec.mode) THEN "users" ELSE "unpin"

DeleteClient(r, n, cn) ==
    /\ Admitted(r, n, cn)
    /\ mem.cli[n][cn] # Absent
    /\ LET rec == mem.cli[n][cn]
       IN  req' = [req EXCEPT ![r] =
              [Idle EXCEPT !.pc = IF rec.serial # None THEN "revoke" ELSE AfterReload(rec),
                           !.n = n, !.cn = cn, !.rec = rec]]
    /\ UNCHANGED <<storeVars, pkiVars, passwd, pins, ocservVars, gone>>

(* RevokeClient loads revoked.json: a file that does not parse is an error, a *)
(* serial already in it a success with nothing more done.                     *)
LoadRevoked(r) ==
    /\ req[r].pc = "revoke"
    /\ LET set == revoked[req[r].n]
           s == req[r].rec.serial
       IN  IF set = Garbled THEN Return(r)
           ELSE IF s \in set THEN Goto(r, "reload")
           ELSE req' = [req EXCEPT ![r].pc = "truncate", ![r].snap = set \cup {s}]
    /\ UNCHANGED <<storeVars, pkiVars, passwd, pins, ocservVars, gone>>

Revoking(r, from) ==
    /\ req[r].pc = from
    /\ UNCHANGED <<storeVars, passwd, pins, ocservVars, gone>>

SaveRevokedOpen(r) ==
    Revoking(r, "truncate") /\ TruncateRevoked(req[r].n) /\ Goto(r, "save")

SaveRevokedWrite(r) ==
    Revoking(r, "save") /\ WriteRevoked(req[r].n, req[r].snap) /\ Goto(r, "crl")

RegenCRLOpen(r) ==
    Revoking(r, "crl") /\ TruncateCRL(req[r].n) /\ Goto(r, "sign")

RegenCRLWrite(r) ==
    Revoking(r, "sign") /\ WriteCRL(req[r].n, req[r].snap) /\ Leave(r, "reload")

(* Not the code: Reload forgotten, and Reload without the check for a process. *)
ReloadForgotten(r) ==
    /\ req[r].pc = "reload"
    /\ Goto(r, AfterReload(req[r].rec))
    /\ UNCHANGED <<storeVars, pkiVars, passwd, pins, ocservVars, gone>>

ReloadUnchecked(r) ==
    /\ req[r].pc = "reload"
    /\ hup' = hup \cup {req[r].n}
    /\ Goto(r, AfterReload(req[r].rec))
    /\ UNCHANGED <<storeVars, pkiVars, passwd, pins, running, inForce, gone>>

(* sup.Reload: SIGHUP to a live process; its error is dropped. *)
Reload(r) ==
    /\ req[r].pc = "reload"
    /\ hup' = IF req[r].n \in running THEN hup \cup {req[r].n} ELSE hup
    /\ Goto(r, AfterReload(req[r].rec))
    /\ UNCHANGED <<storeVars, pkiVars, passwd, pins, running, inForce, gone>>

(* Ocpasswd.DeleteUser: the file is read, and rewritten in place without the *)
(* user when the user is in it.                                              *)
ReadUsers(r) ==
    /\ req[r].pc = "users"
    /\ LET here == passwd[req[r].n]
       IN  IF req[r].cn \in here
           THEN req' = [req EXCEPT ![r].pc = "wipe", ![r].users = here \ {req[r].cn}]
           ELSE Goto(r, "unpin")
    /\ UNCHANGED <<storeVars, pkiVars, passwd, pins, ocservVars, gone>>

WipeUsers(r) ==
    /\ req[r].pc = "wipe"
    /\ passwd' = [passwd EXCEPT ![req[r].n] = {}]
    /\ Goto(r, "rewrite")
    /\ UNCHANGED <<storeVars, pkiVars, pins, ocservVars, gone>>

RewriteUsers(r) ==
    /\ req[r].pc = "rewrite"
    /\ passwd' = [passwd EXCEPT ![req[r].n] = req[r].users]
    /\ Leave(r, "unpin")
    /\ UNCHANGED <<storeVars, pkiVars, pins, ocservVars, gone>>

Unpin(r) ==
    /\ req[r].pc = "unpin"
    /\ pins' = IF req[r].cn \in UnsafeCNs THEN pins
               ELSE [pins EXCEPT ![req[r].n][req[r].cn] = NoIP]
    /\ Goto(r, "drop")
    /\ UNCHANGED <<storeVars, pkiVars, passwd, ocservVars, gone>>

Drop(r, ok) ==
    /\ req[r].pc = "drop"
    /\ DB!Commit(WithoutClient(mem, req[r].n, req[r].cn), ok)
    /\ gone' = IF ok /\ req[r].rec.serial # None
               THEN [gone EXCEPT ![req[r].n] = @ \cup {req[r].rec.serial}]
               ELSE gone
    /\ Return(r)
    /\ UNCHANGED <<pkiVars, passwd, pins, ocservVars>>

--------------------------------------------------------------------------------
(* renderAndWrite, called by every create, patch and start of an instance:     *)
(* syncPerUserConfigs lists the clients once and writes a pin for each that    *)
(* has an address, one after the other. It removes none.                       *)

Addresses(n) == [cn \in CNs |-> IF mem.cli[n][cn] = Absent THEN NoIP ELSE mem.cli[n][cn].ip]

Render(r, n) ==
    /\ req[r].pc = "idle"
    /\ Discipline = "pin" =>
          \A q \in Busy(n) : ~Rendering(q) => Addresses(n)[req[q].cn] = NoIP
    /\ Discipline = "instance" => Busy(n) = {}
    /\ Known(mem, n)
    /\ req' = [req EXCEPT ![r] =
          [Idle EXCEPT !.pc = "sync", !.n = n, !.todo = Addresses(n)]]
    /\ UNCHANGED <<storeVars, pkiVars, passwd, pins, ocservVars, gone>>

(* The next client with an address; one that cannot be pinned is logged. *)
SyncOpen(r, cn) ==
    /\ req[r].pc = "sync"
    /\ req[r].todo[cn] # NoIP
    /\ IF Pinnable(cn, req[r].todo[cn])
       THEN /\ pins' = [pins EXCEPT ![req[r].n][cn] = TornPin]
            /\ req' = [req EXCEPT ![r].pc = "syncWrite", ![r].cn = cn]
       ELSE /\ req' = [req EXCEPT ![r].todo[cn] = NoIP]
            /\ UNCHANGED pins
    /\ UNCHANGED <<storeVars, pkiVars, passwd, ocservVars, gone>>

(* Not the code: a loop that does not go on to the next client. *)
SyncWriteRepeats(r) ==
    /\ req[r].pc = "syncWrite"
    /\ pins' = [pins EXCEPT ![req[r].n][req[r].cn] = req[r].todo[req[r].cn]]
    /\ Goto(r, "sync")
    /\ UNCHANGED <<storeVars, pkiVars, passwd, ocservVars, gone>>

Listed(r) == req' = [req EXCEPT ![r].pc = "sync", ![r].todo[req[r].cn] = NoIP]

SyncWrite(r) ==
    /\ req[r].pc = "syncWrite"
    /\ pins' = [pins EXCEPT ![req[r].n][req[r].cn] = req[r].todo[req[r].cn]]
    /\ Listed(r)
    /\ UNCHANGED <<storeVars, pkiVars, passwd, ocservVars, gone>>

SyncDone(r) ==
    /\ req[r].pc = "sync"
    /\ \A cn \in CNs : req[r].todo[cn] = NoIP
    /\ Return(r)
    /\ UNCHANGED <<storeVars, pkiVars, passwd, pins, ocservVars, gone>>

--------------------------------------------------------------------------------
(* What happens around the client handlers.                                    *)

Quiet(n) == Discipline # "none" => Busy(n) = {}

(* CreateInstance and DeleteInstance, each as one step here. The CA, the *)
(* passwords and the pins of a deleted instance stay.                    *)
CreateInstance(n, rec, caIfEmpty, ok) ==
    /\ Quiet(n)
    /\ ~Known(mem, n)
    /\ IF HasCert(rec.auth) \/ caIfEmpty THEN EnsureCA(n) ELSE UNCHANGED pkiVars
    /\ DB!Commit(WithInstance(mem, n, rec), ok)
    /\ UNCHANGED <<req, passwd, pins, ocservVars, gone>>

DeleteInstance(n, ok) ==
    /\ Quiet(n)
    /\ Known(mem, n)
    /\ running' = running \ {n} /\ hup' = hup \ {n}
    /\ DB!Commit(WithoutInstance(mem, n), ok)
    /\ UNCHANGED <<pkiVars, req, passwd, pins, inForce, gone>>

(* ocserv loads the CRL when it starts and on SIGHUP, if its configuration names *)
(* one: that of an instance without certificates does not. Over a file that is   *)
(* being rewritten it keeps the old list or has none.                            *)
LoadsCRL(n) ==
    \E set \in (IF ~HasCert(mem.inst[n].auth) THEN {{}}
                ELSE IF crl[n] = Torn THEN {inForce[n], {}} ELSE {crl[n]}) :
        inForce' = [inForce EXCEPT ![n] = set]

OcservStarts(n) ==
    /\ n \notin running
    /\ Known(mem, n) /\ mem.inst[n].enabled
    /\ running' = running \cup {n}
    /\ LoadsCRL(n)
    /\ UNCHANGED <<storeVars, pkiVars, req, passwd, pins, hup, gone>>

OcservReloads(n) ==
    /\ n \in running /\ n \in hup
    /\ hup' = hup \ {n}
    /\ LoadsCRL(n)
    /\ UNCHANGED <<storeVars, pkiVars, req, passwd, pins, running, gone>>

OcservExits(n) ==
    /\ n \in running
    /\ running' = running \ {n} /\ hup' = hup \ {n}
    /\ UNCHANGED <<storeVars, pkiVars, req, passwd, pins, inForce, gone>>

(* A file operation of a handler fails and its error is returned. A failed   *)
(* write of revoked.json leaves it truncated, which reads as empty, or        *)
(* half-written; that of a pin leaves it as its opening did.                  *)
Fails(r) ==
    /\ MayFail
    /\ req[r].pc \in {"issue", "key", "passwd", "pin", "pinWrite", "revoke", "truncate",
                      "save", "crl", "sign"}
    /\ Return(r)
    /\ \/ UNCHANGED revoked
       \/ /\ req[r].pc = "save"
          /\ revoked' = [revoked EXCEPT ![req[r].n] = Garbled]
    /\ UNCHANGED <<storeVars, ca, pems, keys, crl, passwd, pins, ocservVars, gone>>

(* DeleteClient ignores the errors of the ocpasswd file and of the pin, and a *)
(* render logs that of a pin and goes on to the next client.                  *)
FailsUnnoticed(r) ==
    /\ MayFail
    /\ \/ req[r].pc \in {"users", "wipe", "rewrite"} /\ Goto(r, "unpin")
       \/ req[r].pc = "unpin" /\ Goto(r, "drop")
       \/ /\ req[r].pc = "sync"
          /\ \E cn \in Touches(r) : req' = [req EXCEPT ![r].todo[cn] = NoIP]
       \/ req[r].pc = "syncWrite" /\ Listed(r)
    /\ UNCHANGED <<storeVars, pkiVars, passwd, pins, ocservVars, gone>>

Enabled(n) == Known(disk, n) /\ disk.inst[n].enabled

(* What the renders of a start-up may leave of a pin. *)
Rebuilt(n, cn) ==
    LET c == disk.cli[n][cn]
    IN  IF Enabled(n) /\ c # Absent /\ c.ip # NoIP /\ Pinnable(cn, c.ip)
        THEN {c.ip} \cup (IF MayFail THEN {pins[n][cn], TornPin} ELSE {})
        ELSE {pins[n][cn]}

(* The daemon dies, its children with it, and comes back: the store is read  *)
(* from disk and Reconcile renders and starts every enabled instance before  *)
(* the first request is served.                                              *)
Restart ==
    /\ MayCrash
    /\ mem' = disk
    /\ req' = [r \in Requests |-> Idle]
    /\ pins' \in [Names -> [CNs -> PinFiles]]
    /\ \A n \in Names, cn \in CNs : pins'[n][cn] \in Rebuilt(n, cn)
    /\ running' = {n \in Names : Enabled(n)}
    /\ hup' = {}
    /\ inForce' = [n \in Names |->
          IF Enabled(n) /\ HasCert(disk.inst[n].auth) /\ crl[n] # Torn THEN crl[n] ELSE {}]
    /\ UNCHANGED <<disk, pkiVars, passwd, gone>>

--------------------------------------------------------------------------------
Arrive(r) ==
    \E n \in Names :
        \/ \E cn \in CNs, mode \in Modes, ip \in IPs \cup {NoIP}, pw \in BOOLEAN :
              /\ pw => HasPassword(mode)
              /\ CreateClient(r, n, cn, mode, ip, pw)
        \/ \E cn \in CNs, ip \in IPs \cup {NoIP}, pw \in BOOLEAN :
              PatchClient(r, n, cn, ip, pw)
        \/ \E cn \in CNs : DeleteClient(r, n, cn)
        \/ Render(r, n)

Step(r) ==
    \/ Exists(r) \/ IssuePem(r) \/ IssueKey(r) \/ IssueRefused(r)
    \/ SetPassword(r) \/ PinRefused(r) \/ PinOpen(r) \/ PinWrite(r)
    \/ \E ok \in Outcomes : Put(r, ok) \/ Drop(r, ok)
    \/ LoadRevoked(r) \/ SaveRevokedOpen(r) \/ SaveRevokedWrite(r)
    \/ RegenCRLOpen(r) \/ RegenCRLWrite(r) \/ Reload(r)
    \/ ReadUsers(r) \/ WipeUsers(r) \/ RewriteUsers(r) \/ Unpin(r)
    \/ \E cn \in CNs : SyncOpen(r, cn)
    \/ SyncWrite(r) \/ SyncDone(r)
    \/ Fails(r) \/ FailsUnnoticed(r)

Environment ==
    \/ \E n \in Names :
          \/ \E rec \in InstanceRecs, caIfEmpty \in BOOLEAN, ok \in Outcomes :
                CreateInstance(n, rec, caIfEmpty, ok)
          \/ \E ok \in Outcomes : DeleteInstance(n, ok)
          \/ OcservStarts(n) \/ OcservReloads(n) \/ OcservExits(n)
    \/ Restart

Next == (\E r \in Requests : Arrive(r) \/ Step(r)) \/ Environment

Spec == Init /\ [][Next]_vars

(* A handler's goroutine keeps running; ocserv acts on a signal it was sent. *)
Fairness ==
    /\ \A r \in Requests : WF_vars(Step(r))
    /\ \A n \in Names : WF_vars(OcservReloads(n))

FairSpec == Spec /\ Fairness

--------------------------------------------------------------------------------
PCs == {"idle", "exists", "issue", "key", "passwd", "pin", "pinWrite", "put", "revoke",
        "truncate", "save", "crl", "sign", "reload", "users", "wipe", "rewrite", "unpin",
        "drop", "sync", "syncWrite"}

RequestState ==
    [ pc : PCs, n : Names \cup {None}, cn : CNs \cup {None},
      rec : ClientRecs \cup {Absent}, pw : BOOLEAN, snap : SUBSET Serials,
      users : SUBSET CNs, todo : [CNs -> Addrs] ]

(* Type correctness of the records, the files, the handlers and the ocservs. *)
TypeOK ==
    /\ mem \in Data /\ disk \in Data
    /\ PkiTypeOK
    /\ req \in [Requests -> RequestState]
    /\ passwd \in [Names -> SUBSET CNs]
    /\ pins \in [Names -> [CNs -> PinFiles]]
    /\ running \subseteq Names /\ hup \subseteq running
    /\ inForce \in [Names -> SUBSET Serials]
    /\ gone \in [Names -> SUBSET Serials]

(* No client is ever recorded, in memory or on disk, under an instance that is *)
(* not: a handler that was overtaken by a DeleteInstance does not bring its    *)
(* client back (CreateClient and PatchClient end in store.PutClient).          *)
ClientsHaveInstance == Rooted(mem) /\ Rooted(disk)

Certified(d) ==
    \A n \in Names, cn \in CNs :
        LET c == d.cli[n][cn]
        IN  c # Absent /\ c.serial # None =>
                /\ [n |-> n, cn |-> cn, serial |-> c.serial] \in pems
                /\ c.serial \in keys

OneNamePerSerial == \A p, q \in pems : p.serial = q.serial => p = q

(* A recorded serial always has its certificate and key on disk, and they were *)
(* issued to the client that records it: ClientConfig (ClientBundle) can hand  *)
(* the profile out again at any time, after any failure or crash, and revoking *)
(* one client never revokes another's certificate.                             *)
BundleOnDisk == Certified(mem) /\ Certified(disk) /\ OneNamePerSerial

(* No record holds a name or an address the pin writer refuses, so the rebuild *)
(* of the pins skips no client (syncPerUserConfigs logs and goes on).          *)
RecordsPinnable ==
    \A d \in {mem, disk}, n \in Names, cn \in CNs :
        d.cli[n][cn] # Absent => Pinnable(cn, d.cli[n][cn].ip)

(* A recorded client that no handler is at work on gets the address its record *)
(* says, or one from the pool when it says none; a write that failed can leave  *)
(* its pin cut short, but never another address (writePerUserConfig,            *)
(* syncPerUserConfigs).                                                         *)
PinFollowsRecord ==
    \A n \in Names, cn \in CNs :
        (mem.cli[n][cn] # Absent /\ \A r \in Busy(n) : cn \notin Touches(r))
            => \/ pins[n][cn] = mem.cli[n][cn].ip
               \/ MayFail /\ pins[n][cn] = TornPin

(* The certificate of a recorded client is never replaced by another one: the  *)
(* first would stay valid with nobody left to revoke it.                       *)
SerialStable ==
    [][\A n \in Names, cn \in CNs :
          LET c == mem.cli[n][cn]
              d == mem'.cli[n][cn]
          IN  c # Absent /\ d # Absent => d.serial = c.serial]_vars

(* The certificate of every client deleted with success is in the CRL file, and *)
(* stays there through later deletes, creates and lives of the instance.        *)
DeletedStaysRevoked ==
    \A n \in Names : crl[n] # Torn => gone[n] \subseteq crl[n]

(* A recorded password client that no handler is working on can log in: its *)
(* line is still in the ocpasswd file after the changes of other clients.   *)
PasswordKept ==
    \A n \in Names, cn \in CNs :
        LET c == mem.cli[n][cn]
        IN  c # Absent /\ HasPassword(c.mode) /\ Busy(n) = {} => cn \in passwd[n]

(* A running ocserv that takes certificates ends up refusing every one whose     *)
(* client was deleted: the SIGHUP that follows the CRL is not lost, and the       *)
(* process reads the whole list.                                                  *)
RevocationEnforced ==
    \A n \in Names, s \in Serials :
        s \in gone[n] ~>
            (s \in inForce[n] \/ n \notin running \/ ~HasCert(mem.inst[n].auth))

(* Every handler returns. *)
EveryRequestReturns ==
    \A r \in Requests : req[r].pc # "idle" ~> req[r].pc = "idle"

(* The handlers use the store as AtomicStore allows. *)
StoreUsedAsPromised == DB!Spec
================================================================================
