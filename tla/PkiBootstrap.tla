------------------------------ MODULE PkiBootstrap ------------------------------
(* internal/ocserv/pki.go: how one instance gets its CA, its CRL and its server *)
(* certificate, file by file, and what client certificates are signed with.    *)
(* Pki.tla takes the making of the CA as one step; here a request can be        *)
(* overtaken, fail or die between any two files. Each instance has a directory *)
(* of its own, so one instance is enough. A certificate and a private key are  *)
(* named by the key pair they belong to. Reading a file that exists succeeds.  *)
EXTENDS Naturals

CONSTANTS
    Requests,   \* handlers at work at one time
    Pairs,      \* RSA key pairs; GenerateKey never returns one that is about
    Missing,    \* no such file
    Torn,       \* a file truncated and not completely written
    None,       \* no instance of this name is recorded
    InTurn,     \* one create of this name at a time
    MayFail     \* writes may fail and the daemon may crash

ASSUME ValuesDiffer == Missing \notin Pairs /\ Torn \notin Pairs /\ Missing # Torn
ASSUME NoneIsNoMode == None \notin {"ca", "password"}
ASSUME SwitchesBoolean == InTurn \in BOOLEAN /\ MayFail \in BOOLEAN

VARIABLES
    files,      \* the content of each file: a pair, or Missing or Torn
    recorded,   \* the instance in the store: None, or "ca" or "password"
    issued,     \* the pairs that signed the recorded clients' certificates
    req,        \* the locals of each handler
    unseeded,   \* ghost: a failure or a crash came before the CRL was seeded
    torn        \* ghost: a failure or a crash came while a revocation wrote it

vars == <<files, recorded, issued, req, unseeded, torn>>

Files == {"ca.pem", "ca.key", "crl.pem", "server.pem", "server.key"}

(* "ca" is an instance that EnsureCA is called for: auth mode cert or both, or *)
(* create_ca_if_empty.                                                         *)
Modes == {"ca", "password"}

(* job: what the handler is doing; pc: its next step; f: the file it writes;   *)
(* c: the CA certificate it has read; p: the pair it puts into files.          *)
Idle == [job |-> "none", pc |-> "idle", mode |-> "password", f |-> "ca.pem",
         c |-> Missing, p |-> Missing]

Init ==
    /\ files = [f \in Files |-> Missing]
    /\ recorded = None
    /\ issued = {}
    /\ req = [r \in Requests |-> Idle]
    /\ unseeded = FALSE
    /\ torn = FALSE

At(r, pc) == req[r].pc = pc
Creating(r) == req[r].job \in {"ensure", "seed", "server"}

(* GenerateKey: a pair that is in no file, no certificate and no handler.      *)
Fresh ==
    {p \in Pairs :
        /\ \A f \in Files : files[f] # p
        /\ \A b \in issued : b # p
        /\ \A r \in Requests : req[r].c # p /\ req[r].p # p}

Goto(r, job, pc) == req' = [req EXCEPT ![r].job = job, ![r].pc = pc]
WriteNext(r, job, f, p) ==
    req' = [req EXCEPT ![r].job = job, ![r].pc = "open", ![r].f = f, ![r].p = p]
Finish(r) == req' = [req EXCEPT ![r] = Idle]

--------------------------------------------------------------------------------
(* The handlers.                                                               *)

CreateInstance(r, m) ==
    /\ At(r, "idle")
    /\ recorded = None
    /\ InTurn => \A q \in Requests : ~Creating(q)
    /\ req' = [req EXCEPT ![r].job = IF m = "ca" THEN "ensure" ELSE "server",
                          ![r].pc = IF m = "ca" THEN "readCert" ELSE "check",
                          ![r].mode = m]
    /\ UNCHANGED <<files, recorded, issued, unseeded, torn>>

(* The directory of the PKI stays; the store drops the clients.                *)
DeleteInstance ==
    /\ recorded # None
    /\ recorded' = None
    /\ issued' = {}
    /\ UNCHANGED <<files, req, unseeded, torn>>

IssueClient(r) ==
    /\ At(r, "idle")
    /\ recorded # None
    /\ Goto(r, "issue", "readCert")
    /\ UNCHANGED <<files, recorded, issued, unseeded, torn>>

(* The client to delete is recorded, with a certificate.                       *)
RevokeClient(r) ==
    /\ At(r, "idle")
    /\ issued # {}
    /\ Goto(r, "revoke", "readCert")
    /\ UNCHANGED <<files, recorded, issued, unseeded, torn>>

--------------------------------------------------------------------------------
(* loadCA reads the certificate and then the key. It does not compare them.    *)

ReadCert(r) ==
    /\ At(r, "readCert")
    /\ req' = [req EXCEPT ![r].c = files["ca.pem"], ![r].pc = "readKey"]
    /\ UNCHANGED <<files, recorded, issued, unseeded, torn>>

(* Not the code: loadCA looks at the certificate only. *)
LoadsCertOnly(r) == req[r].c \in Pairs

(* Not the code: a CA whose CRL was left torn is made anew. *)
LoadsWithCRL(r) ==
    req[r].c \in Pairs /\ files["ca.key"] \in Pairs /\ files["crl.pem"] # Torn

Loads(r) == req[r].c \in Pairs /\ files["ca.key"] \in Pairs

(* EnsureCA with a CA that loads: nothing is written.                          *)
Found(r) ==
    /\ At(r, "readKey") /\ req[r].job = "ensure"
    /\ Loads(r)
    /\ Goto(r, "server", "check")
    /\ UNCHANGED <<files, recorded, issued, unseeded, torn>>

Generate(r) ==
    /\ At(r, "readKey") /\ req[r].job = "ensure"
    /\ ~Loads(r)
    /\ \E p \in Fresh : WriteNext(r, "ensure", "ca.pem", p)
    /\ UNCHANGED <<files, recorded, issued, unseeded, torn>>

(* writeCRL: a list signed with a key that is not its issuer's verifies for    *)
(* nobody, which is as good as a torn one. crypto/x509 does not compare them.  *)
SignCRL(r) ==
    /\ At(r, "readKey") /\ req[r].job \in {"seed", "revoke"}
    /\ Loads(r)
    /\ LET k == files["ca.key"] IN
       WriteNext(r, req[r].job, "crl.pem", IF k = req[r].c THEN k ELSE Torn)
    /\ UNCHANGED <<files, recorded, issued, unseeded, torn>>

(* Not the code: the certificate is issued from an unset pair. *)
SignClientUnset(r) ==
    /\ At(r, "readKey") /\ req[r].job = "issue"
    /\ Loads(r) /\ files["ca.key"] = req[r].c
    /\ Goto(r, "issue", "record")
    /\ UNCHANGED <<files, recorded, issued, unseeded, torn>>

(* crypto/x509 refuses to sign with a key that is not the parent's.            *)
SignClient(r) ==
    /\ At(r, "readKey") /\ req[r].job = "issue"
    /\ Loads(r) /\ files["ca.key"] = req[r].c
    /\ req' = [req EXCEPT ![r].p = req[r].c, ![r].pc = "record"]
    /\ UNCHANGED <<files, recorded, issued, unseeded, torn>>

(* No CA to sign with: writeCRL or IssueClient returns an error.               *)
Refused(r) ==
    /\ At(r, "readKey") /\ req[r].job # "ensure"
    /\ \/ ~Loads(r)
       \/ (req[r].job = "issue" /\ files["ca.key"] # req[r].c)
    /\ Finish(r)
    /\ UNCHANGED <<files, recorded, issued, unseeded, torn>>

(* The client's certificate and key get files of their own, and the client is  *)
(* recorded if its instance still is (PutClient). The bundle that IssueClient  *)
(* puts together is dropped: ClientBundle makes it from the files when asked.  *)
Record(r) ==
    /\ At(r, "record")
    /\ issued' = IF recorded = None THEN issued ELSE issued \cup {req[r].p}
    /\ Finish(r)
    /\ UNCHANGED <<files, recorded, unseeded, torn>>

--------------------------------------------------------------------------------
(* writePEM: os.WriteFile truncates the file in place and then writes it.      *)

Open(r) ==
    /\ At(r, "open")
    /\ files' = [files EXCEPT ![req[r].f] = Torn]
    /\ req' = [req EXCEPT ![r].pc = "write"]
    /\ UNCHANGED <<recorded, issued, unseeded, torn>>

(* Not the code: the CRL is left to the first revocation. *)
AfterWriteNoSeed(r, f) ==
    CASE f = "ca.pem" -> WriteNext(r, "ensure", "ca.key", req[r].p)
      [] f = "ca.key" -> Goto(r, "server", "check")
      [] f = "crl.pem" -> Finish(r)
      [] f = "server.pem" -> WriteNext(r, "server", "server.key", req[r].p)
      [] f = "server.key" -> Goto(r, "server", "put")

(* EnsureCA: ca.pem, ca.key, the empty CRL; EnsureServerCert: server.pem,      *)
(* server.key; RevokeClient: the CRL.                                          *)
AfterWrite(r, f) ==
    CASE f = "ca.pem" -> WriteNext(r, "ensure", "ca.key", req[r].p)
      [] f = "ca.key" -> Goto(r, "seed", "readCert")
      [] f = "crl.pem" -> IF req[r].job = "seed" THEN Goto(r, "server", "check")
                                                 ELSE Finish(r)
      [] f = "server.pem" -> WriteNext(r, "server", "server.key", req[r].p)
      [] f = "server.key" -> Goto(r, "server", "put")

Write(r) ==
    /\ At(r, "write")
    /\ files' = [files EXCEPT ![req[r].f] = req[r].p]
    /\ AfterWrite(r, req[r].f)
    /\ unseeded' = (unseeded /\ req[r].f # "crl.pem")
    /\ torn' = (torn /\ req[r].f # "crl.pem")
    /\ UNCHANGED <<recorded, issued>>

--------------------------------------------------------------------------------
(* EnsureServerCert asks only whether both files exist.                        *)

(* Not the code: the certificate alone is looked for. *)
ServerCertExists == files["server.pem"] # Missing

ServerFilesExist == files["server.pem"] # Missing /\ files["server.key"] # Missing

CheckServer(r) ==
    /\ At(r, "check")
    /\ IF ServerFilesExist
       THEN Goto(r, "server", "put")
       ELSE \E p \in Fresh : WriteNext(r, "server", "server.pem", p)
    /\ UNCHANGED <<files, recorded, issued, unseeded, torn>>

(* PutInstance.                                                                *)
Put(r) ==
    /\ At(r, "put")
    /\ recorded' = req[r].mode
    /\ Finish(r)
    /\ UNCHANGED <<files, issued, unseeded, torn>>

--------------------------------------------------------------------------------
(* What a failure or a crash here costs: a create that has made the CA never   *)
(* comes back to its CRL; a revocation has truncated the list it rewrites.     *)
SeedDue(r) == req[r].job = "seed"
Tearing(r) == req[r].job = "revoke" /\ At(r, "write")

(* A write, a directory or PutInstance fails; the handler returns the error.   *)
Fail(r) ==
    /\ MayFail
    /\ req[r].pc \in {"open", "write", "record", "put"}
    /\ Finish(r)
    /\ unseeded' = (unseeded \/ SeedDue(r))
    /\ torn' = (torn \/ Tearing(r))
    /\ UNCHANGED <<files, recorded, issued>>

Crash ==
    /\ MayFail
    /\ req' = [r \in Requests |-> Idle]
    /\ unseeded' = (unseeded \/ \E r \in Requests : SeedDue(r))
    /\ torn' = (torn \/ \E r \in Requests : Tearing(r))
    /\ UNCHANGED <<files, recorded, issued>>

Step(r) ==
    \/ ReadCert(r) \/ Found(r) \/ Generate(r) \/ SignCRL(r) \/ SignClient(r)
    \/ Refused(r) \/ Record(r) \/ Open(r) \/ Write(r) \/ CheckServer(r) \/ Put(r)

Next ==
    \/ \E r \in Requests, m \in Modes : CreateInstance(r, m)
    \/ \E r \in Requests : IssueClient(r) \/ RevokeClient(r) \/ Step(r) \/ Fail(r)
    \/ DeleteInstance
    \/ Crash

Spec == Init /\ [][Next]_vars

--------------------------------------------------------------------------------
(* What a file may hold, and the program counters of each job.                 *)
Contents == Pairs \cup {Missing, Torn}

Locals ==
    [job : {"none", "ensure", "seed", "server", "issue", "revoke"},
     pc : {"idle", "readCert", "readKey", "record", "open", "write", "check", "put"},
     mode : Modes, f : Files, c : Contents, p : Contents]

TypeOK ==
    /\ files \in [Files -> Contents]
    /\ recorded \in Modes \cup {None}
    /\ issued \subseteq Pairs
    /\ req \in [Requests -> Locals]
    /\ unseeded \in BOOLEAN
    /\ torn \in BOOLEAN

(* EnsureCA loads the CA or creates it (pki.go:59): an instance whose create   *)
(* was acknowledged has a CA certificate and the key that goes with it, after  *)
(* whatever creates failed or died half-way before, or no client of it can     *)
(* ever be issued a certificate.                                               *)
RecordedHasCA ==
    recorded = "ca" => files["ca.pem"] \in Pairs /\ files["ca.key"] = files["ca.pem"]

(* The CA is made once: the certificate of every recorded client was signed by *)
(* the ca.pem that ocserv and ClientBundle read now (pki.go:172), also when    *)
(* the handler that issued it had loaded the CA in an earlier life of its      *)
(* instance and was overtaken by a delete and a new create (pki.go:109).       *)
IssuedVerify == \A b \in issued : b = files["ca.pem"]

(* What becomes of the CRL of a recorded instance (pki.go:92, "so ocserv       *)
(* always has a file to read"): it verifies against the instance's CA, but     *)
(* while it is being written, or after one of two failures, until it is        *)
(* written whole. A create that failed or died after the key of the CA never   *)
(* seeded it; a revocation that failed or died in the rewrite left it torn     *)
(* (pki.go:193), and torn only: no revocation ever costs an instance the file. *)
CRLUnlessHurt ==
    recorded = "ca" =>
        \/ files["crl.pem"] = files["ca.pem"]
        \/ \E r \in Requests : At(r, "write") /\ req[r].f = "crl.pem"
        \/ unseeded
        \/ torn /\ files["crl.pem"] = Torn

(* pki.go:92 as it reads: an acknowledged instance with a CA has a CRL file.   *)
CRLSeeded == recorded = "ca" => files["crl.pem"] # Missing

(* EnsureServerCert (pki.go:210) takes files that exist for a certificate: an  *)
(* acknowledged instance has a whole server.pem, and a server.key that is its  *)
(* own or that a failed write left torn, never another pair's.                 *)
RecordedHasServerCert ==
    recorded # None =>
        /\ files["server.pem"] \in Pairs
        /\ files["server.key"] \in {files["server.pem"], Torn}
================================================================================
