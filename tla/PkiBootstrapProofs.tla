--------------------------- MODULE PkiBootstrapProofs ---------------------------
(* Theorems about PkiBootstrap.tla for any number of handlers and key pairs,    *)
(* whatever fails and wherever the daemon dies, when creates take turns.        *)
EXTENDS PkiBootstrap, TLAPS

--------------------------------------------------------------------------------
(* The inductive invariant. The CA's files are only touched while ca.key does   *)
(* not load; a handler that works with the CA has found it whole.               *)

CAWhole == files["ca.pem"] \in Pairs /\ files["ca.key"] = files["ca.pem"]

CAMatched == files["ca.key"] \in Pairs => files["ca.pem"] = files["ca.key"]

ServerMatched ==
    files["server.key"] # Missing =>
        /\ files["server.pem"] \in Pairs
        /\ files["server.key"] \in {files["server.pem"], Torn}

OneCreator ==
    /\ \A q, r \in Requests : Creating(q) /\ Creating(r) => q = r
    /\ \A r \in Requests : Creating(r) => recorded = None

Busy(r) == At(r, "open") \/ At(r, "write")

EnsureOK(r) ==
    req[r].job = "ensure" =>
        /\ req[r].mode = "ca"
        /\ req[r].pc \in {"readCert", "readKey", "open", "write"}
        /\ At(r, "readKey") => req[r].c = files["ca.pem"]
        /\ Busy(r) =>
             /\ req[r].f \in {"ca.pem", "ca.key"}
             /\ req[r].p \in Pairs
             /\ files["ca.key"] \notin Pairs
             /\ req[r].f = "ca.key" => files["ca.pem"] = req[r].p

CRLOK(r) ==
    req[r].job \in {"seed", "revoke"} =>
        /\ CAWhole
        /\ req[r].job = "seed" => req[r].mode = "ca"
        /\ req[r].pc \in {"readCert", "readKey", "open", "write"}
        /\ At(r, "readKey") => req[r].c = files["ca.pem"]
        /\ Busy(r) => req[r].f = "crl.pem" /\ req[r].p = files["ca.pem"]
        /\ At(r, "write") => files["crl.pem"] \in {files["ca.pem"], Torn}

ServerOK(r) ==
    req[r].job = "server" =>
        /\ req[r].mode = "ca" => CAWhole
        /\ req[r].pc \in {"check", "open", "write", "put"}
        /\ Busy(r) =>
             /\ req[r].f \in {"server.pem", "server.key"}
             /\ req[r].p \in Pairs
             /\ req[r].f = "server.pem" => files["server.key"] = Missing
             /\ req[r].f = "server.key" => files["server.pem"] = req[r].p
        /\ At(r, "put") => files["server.key"] # Missing

IssueOK(r) ==
    req[r].job = "issue" =>
        /\ req[r].pc \in {"readCert", "readKey", "record"}
        /\ At(r, "record") => CAWhole /\ req[r].p = files["ca.pem"]

ReqOK(r) ==
    /\ EnsureOK(r)
    /\ CRLOK(r)
    /\ ServerOK(r)
    /\ IssueOK(r)
    /\ req[r].job = "none" => req[r].pc = "idle"

RecordedOK ==
    /\ recorded = "ca" => CAWhole
    /\ recorded # None => files["server.key"] # Missing

IssuedOK == \A b \in issued : CAWhole /\ b = files["ca.pem"]

Seeded ==
    CAWhole =>
        \/ files["crl.pem"] = files["ca.pem"]
        \/ \E r \in Requests : At(r, "write") /\ req[r].f = "crl.pem"
        \/ \E r \in Requests : req[r].job = "seed"
        \/ unseeded
        \/ torn /\ files["crl.pem"] = Torn

IInv ==
    /\ TypeOK
    /\ OneCreator
    /\ CAMatched
    /\ ServerMatched
    /\ \A r \in Requests : ReqOK(r)
    /\ RecordedOK
    /\ IssuedOK
    /\ Seeded

--------------------------------------------------------------------------------
(* A create that has to seed the CRL, or a handler that is writing it.          *)
CRLDue(r) == SeedDue(r) \/ (At(r, "write") /\ req[r].f = "crl.pem")

(* A step that moves one handler and touches no file keeps the invariant if     *)
(* what it says of that handler holds of its new locals, if a second creator    *)
(* does not start, and if a CRL that was due still is or is given up.           *)
LEMMA LocalStep ==
    ASSUME IInv, NEW r \in Requests,
           UNCHANGED <<files, recorded, issued>>,
           req' \in [Requests -> Locals],
           \A q \in Requests \ {r} : req'[q] = req[q],
           unseeded' \in BOOLEAN,
           torn' \in BOOLEAN,
           ReqOK(r)',
           Creating(r)' => recorded = None /\ \A q \in Requests \ {r} : ~Creating(q),
           unseeded => unseeded',
           torn => torn',
           CRLDue(r) => CRLDue(r)' \/ unseeded' \/ (Tearing(r) /\ torn')
    PROVE  IInv'
<1>1. TypeOK'
  BY DEF IInv, TypeOK
<1>2. OneCreator'
  BY DEF IInv, OneCreator, Creating
<1>3. CAWhole' <=> CAWhole
  BY DEF CAWhole
<1>4. \A q \in Requests \ {r} : ReqOK(q)'
  BY <1>3 DEF IInv, ReqOK, EnsureOK, CRLOK, ServerOK, IssueOK, At, Busy
<1>5. Seeded'
  <2> SUFFICES ASSUME CAWhole
               PROVE  \/ files["crl.pem"] = files["ca.pem"]
                      \/ \E q \in Requests : CRLDue(q)'
                      \/ unseeded'
                      \/ torn' /\ files["crl.pem"] = Torn
    BY <1>3 DEF Seeded, CRLDue, SeedDue, At
  <2>1. \/ files["crl.pem"] = files["ca.pem"]
        \/ \E q \in Requests : CRLDue(q)
        \/ unseeded
        \/ torn /\ files["crl.pem"] = Torn
    BY DEF IInv, Seeded, CRLDue, SeedDue, At
  <2>2. ASSUME NEW q \in Requests, CRLDue(q), q # r PROVE CRLDue(q)'
    BY <2>2 DEF CRLDue, SeedDue, At
  <2>3. Tearing(r) => files["crl.pem"] \in {files["ca.pem"], Torn}
    BY DEF Tearing, IInv, ReqOK, CRLOK
  <2> QED BY <2>1, <2>2, <2>3
<1>6. CAMatched' /\ ServerMatched' /\ RecordedOK' /\ IssuedOK'
  BY <1>3 DEF IInv, CAMatched, ServerMatched, RecordedOK, IssuedOK
<1> QED BY <1>1, <1>2, <1>4, <1>5, <1>6 DEF IInv

(* A handler at a file is a creator, or writes the CRL.                         *)
LEMMA BusyJobs ==
    ASSUME IInv, NEW r \in Requests, Busy(r)
    PROVE  \/ req[r].job = "ensure" /\ req[r].f \in {"ca.pem", "ca.key"}
           \/ req[r].job \in {"seed", "revoke"} /\ req[r].f = "crl.pem"
           \/ req[r].job = "server" /\ req[r].f \in {"server.pem", "server.key"}
  BY DEF IInv, ReqOK, EnsureOK, CRLOK, ServerOK, IssueOK, TypeOK, Locals, Busy, At

(* What the fields of a handler's locals are after a step that changes some.    *)
LEMMA LocalsUpdated ==
    ASSUME TypeOK, NEW r \in Requests, NEW l \in Locals, req' = [req EXCEPT ![r] = l]
    PROVE  /\ req' \in [Requests -> Locals]
           /\ req'[r] = l
           /\ \A q \in Requests \ {r} : req'[q] = req[q]
  BY DEF TypeOK

LEMMA GotoUpdates ==
    ASSUME TypeOK, NEW r \in Requests,
           NEW job \in {"server", "issue", "revoke"}, NEW pc \in {"readCert", "check"},
           Goto(r, job, pc)
    PROVE  /\ req' \in [Requests -> Locals]
           /\ req'[r].job = job /\ req'[r].pc = pc
           /\ \A q \in Requests \ {r} : req'[q] = req[q]
<1> PICK l : l = [req[r] EXCEPT !.job = job, !.pc = pc]
  OBVIOUS
<1>1. req[r] \in Locals
  BY DEF TypeOK
<1>2. l \in Locals /\ l.job = job /\ l.pc = pc
  BY <1>1 DEF Locals
<1>3. req' = [req EXCEPT ![r] = l]
  BY DEF Goto
<1> QED BY <1>2, <1>3, LocalsUpdated

--------------------------------------------------------------------------------
(* One lemma per action. Those of one handler that write no file first.         *)

LEMMA CreateInstanceKeeps ==
    ASSUME IInv, InTurn, NEW r \in Requests, NEW m \in Modes, CreateInstance(r, m)
    PROVE  IInv'
<1> DEFINE l == [req[r] EXCEPT !.job = IF m = "ca" THEN "ensure" ELSE "server",
                               !.pc = IF m = "ca" THEN "readCert" ELSE "check",
                               !.mode = m]
<1>0. l \in Locals
  BY DEF IInv, TypeOK, Locals
<1>1. /\ req' \in [Requests -> Locals]
      /\ \A q \in Requests \ {r} : req'[q] = req[q]
      /\ req'[r] = l
  <2>1. req' = [req EXCEPT ![r] = l]
    BY DEF CreateInstance
  <2> QED BY <1>0, <2>1, LocalsUpdated DEF IInv
<1>2. /\ req'[r].mode = m
      /\ req'[r].job = (IF m = "ca" THEN "ensure" ELSE "server")
      /\ req'[r].pc = (IF m = "ca" THEN "readCert" ELSE "check")
  BY <1>1 DEF IInv, TypeOK, Locals
<1> HIDE DEF l
<1>3. ReqOK(r)'
  BY <1>2 DEF ReqOK, EnsureOK, CRLOK, ServerOK, IssueOK, At, Busy, Modes
<1>4. ~CRLDue(r)
  BY DEF CreateInstance, CRLDue, SeedDue, At, IInv, ReqOK, CRLOK
<1> QED
  BY <1>1, <1>3, <1>4, LocalStep DEF CreateInstance, IInv, TypeOK

LEMMA IssueClientKeeps ==
    ASSUME IInv, NEW r \in Requests, IssueClient(r)
    PROVE  IInv'
<1>1. /\ req' \in [Requests -> Locals]
      /\ \A q \in Requests \ {r} : req'[q] = req[q]
      /\ req'[r].job = "issue" /\ req'[r].pc = "readCert"
  BY GotoUpdates DEF IssueClient, IInv
<1>2. ReqOK(r)' /\ ~Creating(r)'
  BY <1>1 DEF ReqOK, EnsureOK, CRLOK, ServerOK, IssueOK, At, Busy, Creating
<1>3. ~CRLDue(r)
  BY DEF IssueClient, CRLDue, SeedDue, At, IInv, ReqOK, CRLOK
<1> QED
  BY <1>1, <1>2, <1>3, LocalStep DEF IssueClient, IInv, TypeOK

LEMMA RevokeClientKeeps ==
    ASSUME IInv, NEW r \in Requests, RevokeClient(r)
    PROVE  IInv'
<1>1. /\ req' \in [Requests -> Locals]
      /\ \A q \in Requests \ {r} : req'[q] = req[q]
      /\ req'[r].job = "revoke" /\ req'[r].pc = "readCert"
  BY GotoUpdates DEF RevokeClient, IInv
<1>2. CAWhole /\ UNCHANGED files
  BY DEF RevokeClient, IInv, IssuedOK
<1>3. ReqOK(r)' /\ ~Creating(r)'
  BY <1>1, <1>2
     DEF ReqOK, EnsureOK, CRLOK, ServerOK, IssueOK, At, Busy, Creating, CAWhole
<1>4. ~CRLDue(r)
  BY DEF RevokeClient, CRLDue, SeedDue, At, IInv, ReqOK, CRLOK
<1> QED
  BY <1>1, <1>3, <1>4, LocalStep DEF RevokeClient, IInv, TypeOK

LEMMA ReadCertKeeps ==
    ASSUME IInv, NEW r \in Requests, ReadCert(r)
    PROVE  IInv'
<1>1. /\ req' \in [Requests -> Locals]
      /\ \A q \in Requests \ {r} : req'[q] = req[q]
      /\ req'[r].job = req[r].job /\ req'[r].mode = req[r].mode
      /\ req'[r].pc = "readKey" /\ req'[r].c = files["ca.pem"]
      /\ UNCHANGED files
  <2> PICK l : l = [req[r] EXCEPT !.c = files["ca.pem"], !.pc = "readKey"]
    OBVIOUS
  <2>1. req[r] \in Locals /\ files["ca.pem"] \in Contents
    BY DEF IInv, TypeOK, Files
  <2>2. /\ l \in Locals /\ l.job = req[r].job /\ l.mode = req[r].mode /\ l.pc = "readKey"
        /\ l.c = files["ca.pem"]
    BY <2>1 DEF Locals
  <2>3. req' = [req EXCEPT ![r] = l] /\ UNCHANGED files
    BY DEF ReadCert
  <2> QED BY <2>2, <2>3, LocalsUpdated DEF IInv
<1>2. ReqOK(r)'
  BY <1>1 DEF ReadCert, IInv, ReqOK, EnsureOK, CRLOK, ServerOK, IssueOK, At, Busy,
              CAWhole
<1>3. CRLDue(r) => CRLDue(r)'
  BY <1>1 DEF ReadCert, CRLDue, SeedDue, At
<1>4. Creating(r)' => recorded = None /\ \A q \in Requests \ {r} : ~Creating(q)
  BY <1>1 DEF IInv, OneCreator, Creating
<1> QED
  BY <1>1, <1>2, <1>3, <1>4, LocalStep DEF ReadCert, IInv, TypeOK

LEMMA FoundKeeps ==
    ASSUME IInv, NEW r \in Requests, Found(r)
    PROVE  IInv'
<1>1. /\ req' \in [Requests -> Locals]
      /\ \A q \in Requests \ {r} : req'[q] = req[q]
      /\ req'[r].job = "server" /\ req'[r].pc = "check"
      /\ UNCHANGED files
  BY GotoUpdates DEF Found, IInv
<1>2. CAWhole
  BY DEF Found, Loads, IInv, ReqOK, EnsureOK, CAMatched, CAWhole
<1>3. ReqOK(r)'
  BY <1>1, <1>2 DEF ReqOK, EnsureOK, CRLOK, ServerOK, IssueOK, At, Busy, CAWhole
<1>4. ~CRLDue(r)
  BY DEF Found, CRLDue, SeedDue, At
<1>5. Creating(r)' => recorded = None /\ \A q \in Requests \ {r} : ~Creating(q)
  BY DEF Found, IInv, OneCreator, Creating
<1> QED
  BY <1>1, <1>3, <1>4, <1>5, LocalStep DEF Found, IInv, TypeOK

LEMMA GenerateKeeps ==
    ASSUME IInv, NEW r \in Requests, Generate(r)
    PROVE  IInv'
<1>1. PICK p \in Fresh : WriteNext(r, "ensure", "ca.pem", p)
  BY DEF Generate
<1>2. /\ req' \in [Requests -> Locals]
      /\ \A q \in Requests \ {r} : req'[q] = req[q]
      /\ req'[r].job = "ensure" /\ req'[r].pc = "open" /\ req'[r].mode = req[r].mode
      /\ req'[r].f = "ca.pem" /\ req'[r].p = p /\ p \in Pairs
      /\ UNCHANGED files
  BY <1>1 DEF Generate, WriteNext, Fresh, IInv, TypeOK, Locals, Files, Contents
<1>3. files["ca.key"] \notin Pairs
  BY DEF Generate, Loads, IInv, ReqOK, EnsureOK, CAMatched
<1>4. ReqOK(r)'
  BY <1>2, <1>3 DEF Generate, IInv, ReqOK, EnsureOK, CRLOK, ServerOK, IssueOK, At, Busy
<1>5. ~CRLDue(r)
  BY DEF Generate, CRLDue, SeedDue, At
<1>6. Creating(r)' => recorded = None /\ \A q \in Requests \ {r} : ~Creating(q)
  BY DEF Generate, IInv, OneCreator, Creating
<1> QED
  BY <1>2, <1>4, <1>5, <1>6, LocalStep DEF Generate, IInv, TypeOK

LEMMA SignCRLKeeps ==
    ASSUME IInv, NEW r \in Requests, SignCRL(r)
    PROVE  IInv'
<1>1. CAWhole /\ req[r].c = files["ca.pem"] /\ req[r].job \in {"seed", "revoke"}
  BY DEF SignCRL, IInv, ReqOK, CRLOK
<1>2. WriteNext(r, req[r].job, "crl.pem", files["ca.pem"]) /\ files["ca.pem"] \in Pairs
  BY <1>1 DEF SignCRL, CAWhole
<1>3. /\ req' \in [Requests -> Locals]
      /\ \A q \in Requests \ {r} : req'[q] = req[q]
      /\ req'[r].job = req[r].job /\ req'[r].pc = "open" /\ req'[r].mode = req[r].mode
      /\ req'[r].f = "crl.pem" /\ req'[r].p = files["ca.pem"]
      /\ UNCHANGED files
  <2> DEFINE l == [req[r] EXCEPT !.pc = "open", !.f = "crl.pem", !.p = files["ca.pem"]]
  <2>0. req[r] \in Locals /\ "crl.pem" \in Files /\ files["ca.pem"] \in Contents
    BY <1>2 DEF IInv, TypeOK, Files, Contents
  <2>1. l \in Locals
    BY <2>0 DEF Locals
  <2>2. req' = [req EXCEPT ![r] = l]
    BY <1>2, <2>0 DEF WriteNext, Locals
  <2>3. l.job = req[r].job /\ l.pc = "open" /\ l.mode = req[r].mode /\ l.f = "crl.pem"
        /\ l.p = files["ca.pem"]
    BY <2>0 DEF Locals
  <2> HIDE DEF l
  <2> QED BY <2>1, <2>2, <2>3, LocalsUpdated DEF SignCRL, IInv
<1>4. ReqOK(r)'
  BY <1>1, <1>3 DEF IInv, ReqOK, EnsureOK, CRLOK, ServerOK, IssueOK, At, Busy, CAWhole
<1>5. CRLDue(r) => CRLDue(r)'
  BY <1>3 DEF SignCRL, CRLDue, SeedDue, At
<1>6. Creating(r)' => recorded = None /\ \A q \in Requests \ {r} : ~Creating(q)
  BY <1>3 DEF IInv, OneCreator, Creating
<1> QED
  BY <1>3, <1>4, <1>5, <1>6, LocalStep DEF SignCRL, IInv, TypeOK

LEMMA SignClientKeeps ==
    ASSUME IInv, NEW r \in Requests, SignClient(r)
    PROVE  IInv'
<1>1. CAWhole /\ req[r].c = files["ca.pem"]
  BY DEF SignClient, Loads, IInv, CAMatched, CAWhole
<1>2. /\ req' \in [Requests -> Locals]
      /\ \A q \in Requests \ {r} : req'[q] = req[q]
      /\ req'[r].job = "issue" /\ req'[r].pc = "record" /\ req'[r].p = req[r].c
      /\ UNCHANGED files
  <2> PICK l : l = [req[r] EXCEPT !.p = req[r].c, !.pc = "record"]
    OBVIOUS
  <2>1. req[r] \in Locals /\ req[r].job = "issue"
    BY DEF IInv, TypeOK, SignClient
  <2>2. l \in Locals /\ l.job = "issue" /\ l.pc = "record" /\ l.p = req[r].c
    BY <2>1 DEF Locals
  <2>3. req' = [req EXCEPT ![r] = l] /\ UNCHANGED files
    BY DEF SignClient
  <2> QED BY <2>2, <2>3, LocalsUpdated DEF IInv
<1>3. ReqOK(r)' /\ ~Creating(r)'
  BY <1>1, <1>2
     DEF ReqOK, EnsureOK, CRLOK, ServerOK, IssueOK, At, Busy, CAWhole, Creating
<1>4. ~CRLDue(r)
  BY DEF SignClient, CRLDue, SeedDue, At
<1> QED
  BY <1>2, <1>3, <1>4, LocalStep DEF SignClient, IInv, TypeOK

(* A handler that returns, whatever it left behind.                             *)
LEMMA Finished ==
    ASSUME TypeOK, NEW r \in Requests, Finish(r)
    PROVE  /\ req' \in [Requests -> Locals]
           /\ \A q \in Requests \ {r} : req'[q] = req[q]
           /\ req'[r] = Idle
           /\ ReqOK(r)' /\ ~Creating(r)'
<1>1. Idle \in Locals
  BY DEF Idle, Locals, Modes, Files, Contents
<1>2. /\ req' \in [Requests -> Locals]
      /\ req'[r] = Idle
      /\ \A q \in Requests \ {r} : req'[q] = req[q]
  BY <1>1, LocalsUpdated DEF Finish
<1> QED
  BY <1>2
     DEF Idle, ReqOK, EnsureOK, CRLOK, ServerOK, IssueOK, At, Busy, Creating

LEMMA RefusedKeeps ==
    ASSUME IInv, NEW r \in Requests, Refused(r)
    PROVE  IInv'
<1>1. ~CRLDue(r)
  BY DEF Refused, Loads, CRLDue, SeedDue, At, IInv, ReqOK, CRLOK, CAWhole
<1> QED
  BY <1>1, Finished, LocalStep DEF Refused, IInv, TypeOK

LEMMA FailKeeps ==
    ASSUME IInv, NEW r \in Requests, Fail(r)
    PROVE  IInv'
<1>1. /\ unseeded' \in BOOLEAN /\ (unseeded => unseeded')
      /\ torn' \in BOOLEAN /\ (torn => torn')
  BY DEF Fail, IInv, TypeOK, SeedDue, Tearing
<1>2. CRLDue(r) => SeedDue(r) \/ Tearing(r)
  BY BusyJobs DEF CRLDue, SeedDue, Tearing, Busy
<1>3. CRLDue(r) => unseeded' \/ (Tearing(r) /\ torn')
  BY <1>2 DEF Fail
<1> QED
  BY <1>1, <1>3, Finished, LocalStep DEF Fail, IInv

LEMMA CheckServerKeeps ==
    ASSUME IInv, NEW r \in Requests, CheckServer(r)
    PROVE  IInv'
<1>1. req[r].job = "server" /\ UNCHANGED files
  BY DEF CheckServer, At, IInv, TypeOK, Locals, ReqOK, EnsureOK, CRLOK, IssueOK
<1>2. ~CRLDue(r) /\ recorded = None /\ \A q \in Requests \ {r} : ~Creating(q)
  BY <1>1 DEF CheckServer, CRLDue, SeedDue, At, IInv, OneCreator, Creating
<1>3. CASE ServerFilesExist
  <2>1. /\ req' \in [Requests -> Locals]
        /\ \A q \in Requests \ {r} : req'[q] = req[q]
        /\ req'[r].job = "server" /\ req'[r].pc = "put" /\ req'[r].mode = req[r].mode
    BY <1>3 DEF CheckServer, Goto, IInv, TypeOK, Locals
  <2>2. ReqOK(r)'
    BY <1>1, <1>3, <2>1 DEF IInv, ReqOK, EnsureOK, CRLOK, ServerOK, IssueOK, At, Busy,
                            CAWhole, ServerFilesExist
  <2> QED
    BY <1>2, <2>1, <2>2, LocalStep DEF CheckServer, IInv, TypeOK
<1>4. CASE ~ServerFilesExist
  <2>1. PICK p \in Fresh : WriteNext(r, "server", "server.pem", p)
    BY <1>4 DEF CheckServer
  <2>2. /\ req' \in [Requests -> Locals]
        /\ \A q \in Requests \ {r} : req'[q] = req[q]
        /\ req'[r].job = "server" /\ req'[r].pc = "open" /\ req'[r].mode = req[r].mode
        /\ req'[r].f = "server.pem" /\ req'[r].p = p /\ p \in Pairs
    BY <2>1 DEF WriteNext, Fresh, IInv, TypeOK, Locals, Files, Contents
  <2>3. files["server.key"] = Missing
    BY <1>4, ValuesDiffer DEF ServerFilesExist, IInv, ServerMatched
  <2>4. ReqOK(r)'
    BY <1>1, <2>2, <2>3 DEF IInv, ReqOK, EnsureOK, CRLOK, ServerOK, IssueOK, At, Busy,
                            CAWhole
  <2> QED
    BY <1>2, <2>2, <2>4, LocalStep DEF CheckServer, IInv, TypeOK
<1> QED
  BY <1>3, <1>4

--------------------------------------------------------------------------------
(* The steps that write files.                                                  *)

(* While the CA is being written nobody works with it; while the server's       *)
(* certificate is, no other handler does.                                       *)
LEMMA NobodyElse ==
    ASSUME IInv, NEW r \in Requests, Busy(r), req[r].job \in {"ensure", "server"},
           NEW q \in Requests \ {r}
    PROVE  /\ req[q].job \in {"none", "issue", "revoke"}
           /\ req[r].job = "ensure" => /\ ~CAWhole
                                       /\ req[q].job # "revoke"
                                       /\ ~(req[q].job = "issue" /\ At(q, "record"))
<1>1. req[q].job \in {"none", "issue", "revoke"}
  BY DEF IInv, OneCreator, Creating, TypeOK, Locals
<1>2. req[r].job = "ensure" => ~CAWhole
  BY DEF IInv, ReqOK, EnsureOK, CAWhole
<1> QED
  BY <1>1, <1>2 DEF IInv, ReqOK, CRLOK, IssueOK

LEMMA OpenKeeps ==
    ASSUME IInv, NEW r \in Requests, Open(r)
    PROVE  IInv'
<1>1. /\ req' \in [Requests -> Locals]
      /\ \A q \in Requests \ {r} : req'[q] = req[q]
      /\ req'[r].job = req[r].job /\ req'[r].pc = "write" /\ req'[r].mode = req[r].mode
      /\ req'[r].f = req[r].f /\ req'[r].p = req[r].p
  BY DEF Open, IInv, TypeOK, Locals
<1>2. /\ files' \in [Files -> Contents]
      /\ files'[req[r].f] = Torn
      /\ \A f \in Files : f # req[r].f => files'[f] = files[f]
  BY DEF Open, IInv, TypeOK, Contents, Locals
<1>3. TypeOK' /\ OneCreator'
  BY <1>1, <1>2 DEF Open, IInv, TypeOK, OneCreator, Creating
<1>4. Busy(r)
  BY DEF Open, Busy
<1>5. CASE req[r].job = "ensure" /\ req[r].f \in {"ca.pem", "ca.key"}
  <2>1. /\ ~CAWhole /\ ~CAWhole' /\ files'["ca.key"] \notin Pairs
        /\ files'["server.key"] = files["server.key"]
        /\ files'["server.pem"] = files["server.pem"]
        /\ req[r].f = "ca.key" => files'["ca.pem"] = files["ca.pem"]
    BY <1>2, <1>4, <1>5, ValuesDiffer
       DEF IInv, ReqOK, EnsureOK, CAWhole, Files
  <2>2. ReqOK(r)'
    BY <1>1, <1>4, <1>5, <2>1
       DEF IInv, ReqOK, EnsureOK, CRLOK, ServerOK, IssueOK, Busy, At
  <2>3. \A q \in Requests \ {r} : ReqOK(q)'
    BY <1>1, <1>4, <1>5, NobodyElse
       DEF IInv, ReqOK, EnsureOK, CRLOK, ServerOK, IssueOK, Busy, At
  <2>4. CAMatched' /\ ServerMatched' /\ RecordedOK' /\ IssuedOK' /\ Seeded'
    BY <2>1 DEF Open, IInv, CAMatched, ServerMatched, RecordedOK, IssuedOK, Seeded
  <2> QED BY <1>3, <2>2, <2>3, <2>4 DEF IInv
<1>6. CASE req[r].job \in {"seed", "revoke"} /\ req[r].f = "crl.pem"
  <2>1. /\ files'["ca.pem"] = files["ca.pem"] /\ files'["ca.key"] = files["ca.key"]
        /\ files'["server.key"] = files["server.key"]
        /\ files'["server.pem"] = files["server.pem"] /\ files'["crl.pem"] = Torn
        /\ CAWhole' <=> CAWhole
    BY <1>2, <1>6 DEF Files, CAWhole
  <2>2. ReqOK(r)'
    BY <1>1, <1>4, <1>6, <2>1
       DEF IInv, ReqOK, EnsureOK, CRLOK, ServerOK, IssueOK, Busy, At
  <2>3. \A q \in Requests \ {r} : ReqOK(q)'
    BY <1>1, <2>1 DEF IInv, ReqOK, EnsureOK, CRLOK, ServerOK, IssueOK, Busy, At
  <2>4. Seeded'
    BY <1>1, <1>6 DEF Seeded, At
  <2>5. CAMatched' /\ ServerMatched' /\ RecordedOK' /\ IssuedOK'
    BY <2>1 DEF Open, IInv, CAMatched, ServerMatched, RecordedOK, IssuedOK
  <2> QED BY <1>3, <2>2, <2>3, <2>4, <2>5 DEF IInv
<1>7. CASE req[r].job = "server" /\ req[r].f \in {"server.pem", "server.key"}
  <2>1. /\ files'["ca.pem"] = files["ca.pem"] /\ files'["ca.key"] = files["ca.key"]
        /\ files'["crl.pem"] = files["crl.pem"]
        /\ CAWhole' <=> CAWhole
    BY <1>2, <1>7 DEF Files, CAWhole
  <2>2. /\ req[r].f = "server.pem" => /\ files["server.key"] = Missing
                                      /\ files'["server.key"] = Missing
        /\ req[r].f = "server.key" => /\ files["server.pem"] = req[r].p
                                      /\ req[r].p \in Pairs
                                      /\ files'["server.pem"] = files["server.pem"]
                                      /\ files'["server.key"] = Torn
    BY <1>2, <1>4, <1>7 DEF IInv, ReqOK, ServerOK, Files
  <2>3. ReqOK(r)'
    BY <1>1, <1>4, <1>7, <2>1, <2>2
       DEF IInv, ReqOK, EnsureOK, CRLOK, ServerOK, IssueOK, Busy, At
  <2>4. \A q \in Requests \ {r} : ReqOK(q)'
    BY <1>1, <1>4, <1>7, <2>1, NobodyElse
       DEF IInv, ReqOK, EnsureOK, CRLOK, ServerOK, IssueOK, Busy, At
  <2>5. Seeded'
    <3>1. \A q \in Requests : /\ At(q, "write") /\ req[q].f = "crl.pem" =>
                                   At(q, "write")' /\ req'[q].f = "crl.pem"
                              /\ req[q].job = "seed" => req'[q].job = "seed"
      BY <1>1, <1>7 DEF At
    <3> QED BY <2>1, <3>1 DEF Open, IInv, Seeded
  <2>6. CAMatched' /\ IssuedOK'
    BY <2>1 DEF Open, IInv, CAMatched, IssuedOK
  <2>7. ServerMatched' /\ RecordedOK'
    BY <1>7, <2>1, <2>2, ValuesDiffer DEF Open, IInv, ServerMatched, RecordedOK
  <2> QED BY <1>3, <2>3, <2>4, <2>5, <2>6, <2>7 DEF IInv
<1> QED
  BY <1>4, <1>5, <1>6, <1>7, BusyJobs

LEMMA WriteKeeps ==
    ASSUME IInv, NEW r \in Requests, Write(r)
    PROVE  IInv'
<1> USE DEF At, Busy
<1>1. Busy(r) /\ req[r].pc = "write"
  BY DEF Write
<1>2. /\ files' \in [Files -> Contents]
      /\ files'[req[r].f] = req[r].p
      /\ \A f \in Files : f # req[r].f => files'[f] = files[f]
  BY DEF Write, IInv, TypeOK, Contents, Locals
<1>3. /\ unseeded' \in BOOLEAN /\ torn' \in BOOLEAN
      /\ req[r].f # "crl.pem" => unseeded' = unseeded /\ torn' = torn
  BY DEF Write, IInv, TypeOK
<1>4. CASE req[r].job = "ensure" /\ req[r].f = "ca.pem"
  <2>1. /\ req' \in [Requests -> Locals]
        /\ \A q \in Requests \ {r} : req'[q] = req[q]
        /\ req'[r].job = "ensure" /\ req'[r].pc = "open" /\ req'[r].mode = req[r].mode
        /\ req'[r].f = "ca.key" /\ req'[r].p = req[r].p
    BY <1>4 DEF Write, AfterWrite, WriteNext, IInv, TypeOK, Locals, Files
  <2>2. /\ ~CAWhole /\ ~CAWhole'
        /\ files["ca.key"] \notin Pairs /\ files'["ca.key"] = files["ca.key"]
        /\ files'["ca.pem"] = req[r].p /\ req[r].p \in Pairs
        /\ files'["server.key"] = files["server.key"]
        /\ files'["server.pem"] = files["server.pem"]
    BY <1>1, <1>2, <1>4 DEF IInv, ReqOK, EnsureOK, CAWhole, Files
  <2>3. TypeOK' /\ OneCreator'
    BY <1>2, <1>3, <1>4, <2>1 DEF Write, IInv, TypeOK, OneCreator, Creating
  <2>4. ReqOK(r)'
    BY <1>1, <1>4, <2>1, <2>2 DEF IInv, ReqOK, EnsureOK, CRLOK, ServerOK, IssueOK
  <2>5. \A q \in Requests \ {r} : ReqOK(q)'
    BY <1>1, <1>4, <2>1, NobodyElse
       DEF IInv, ReqOK, EnsureOK, CRLOK, ServerOK, IssueOK
  <2>6. CAMatched' /\ ServerMatched' /\ RecordedOK' /\ IssuedOK' /\ Seeded'
    BY <2>2 DEF Write, IInv, CAMatched, ServerMatched, RecordedOK, IssuedOK, Seeded
  <2> QED BY <2>3, <2>4, <2>5, <2>6 DEF IInv
<1>5. CASE req[r].job = "ensure" /\ req[r].f = "ca.key"
  <2>1. /\ req' \in [Requests -> Locals]
        /\ \A q \in Requests \ {r} : req'[q] = req[q]
        /\ req'[r].job = "seed" /\ req'[r].pc = "readCert" /\ req'[r].mode = req[r].mode
    BY <1>5 DEF Write, AfterWrite, Goto, IInv, TypeOK, Locals, Files
  <2>2. /\ ~CAWhole /\ CAWhole'
        /\ files'["server.key"] = files["server.key"]
        /\ files'["server.pem"] = files["server.pem"]
    BY <1>1, <1>2, <1>5 DEF IInv, ReqOK, EnsureOK, CAWhole, Files
  <2>3. TypeOK' /\ OneCreator'
    BY <1>2, <1>3, <1>5, <2>1 DEF Write, IInv, TypeOK, OneCreator, Creating
  <2>4. ReqOK(r)'
    BY <1>1, <1>5, <2>1, <2>2 DEF IInv, ReqOK, EnsureOK, CRLOK, ServerOK, IssueOK
  <2>5. \A q \in Requests \ {r} : ReqOK(q)'
    BY <1>1, <1>5, <2>1, NobodyElse
       DEF IInv, ReqOK, EnsureOK, CRLOK, ServerOK, IssueOK
  <2>6. Seeded'
    BY <2>1 DEF Seeded
  <2>7. CAMatched' /\ ServerMatched' /\ RecordedOK' /\ IssuedOK'
    BY <2>2 DEF Write, IInv, CAWhole, CAMatched, ServerMatched, RecordedOK, IssuedOK
  <2> QED BY <2>3, <2>4, <2>5, <2>6, <2>7 DEF IInv
<1>6. CASE req[r].job \in {"seed", "revoke"} /\ req[r].f = "crl.pem"
  <2>1. /\ req' \in [Requests -> Locals]
        /\ \A q \in Requests \ {r} : req'[q] = req[q]
        /\ req[r].job = "seed" => /\ req'[r].job = "server" /\ req'[r].pc = "check"
                                  /\ req'[r].mode = req[r].mode
        /\ req[r].job = "revoke" => ReqOK(r)' /\ ~Creating(r)'
    <3>1. CASE req[r].job = "seed"
      BY <1>6, <3>1 DEF Write, AfterWrite, Goto, IInv, TypeOK, Locals, Files
    <3>2. CASE req[r].job = "revoke"
      BY <1>6, <3>2, Finished DEF Write, AfterWrite, IInv
    <3> QED BY <1>6, <3>1, <3>2
  <2>2. /\ CAWhole /\ CAWhole'
        /\ files'["ca.pem"] = files["ca.pem"] /\ files'["ca.key"] = files["ca.key"]
        /\ files'["crl.pem"] = files["ca.pem"]
        /\ files'["server.key"] = files["server.key"]
        /\ files'["server.pem"] = files["server.pem"]
    BY <1>1, <1>2, <1>6 DEF IInv, ReqOK, CRLOK, CAWhole, Files
  <2>3. TypeOK' /\ OneCreator'
    BY <1>2, <1>3, <1>6, <2>1 DEF Write, IInv, TypeOK, OneCreator, Creating
  <2>4. ReqOK(r)'
    BY <1>1, <1>6, <2>1, <2>2 DEF IInv, ReqOK, EnsureOK, CRLOK, ServerOK, IssueOK
  <2>5. \A q \in Requests \ {r} : ReqOK(q)'
    BY <2>1, <2>2 DEF IInv, ReqOK, EnsureOK, CRLOK, ServerOK, IssueOK
  <2>6. CAMatched' /\ ServerMatched' /\ RecordedOK' /\ IssuedOK' /\ Seeded'
    BY <2>2 DEF Write, IInv, CAMatched, ServerMatched, RecordedOK, IssuedOK, Seeded
  <2> QED BY <2>3, <2>4, <2>5, <2>6 DEF IInv
<1>7. CASE req[r].job = "server" /\ req[r].f \in {"server.pem", "server.key"}
  <2>1. /\ req' \in [Requests -> Locals]
        /\ \A q \in Requests \ {r} : req'[q] = req[q]
        /\ req'[r].job = "server" /\ req'[r].mode = req[r].mode
        /\ req[r].f = "server.pem" => /\ req'[r].pc = "open" /\ req'[r].f = "server.key"
                                      /\ req'[r].p = req[r].p
        /\ req[r].f = "server.key" => req'[r].pc = "put"
    <3>1. CASE req[r].f = "server.pem"
      BY <1>7, <3>1 DEF Write, AfterWrite, WriteNext, IInv, TypeOK, Locals, Files
    <3>2. CASE req[r].f = "server.key"
      BY <1>7, <3>2 DEF Write, AfterWrite, Goto, IInv, TypeOK, Locals, Files
    <3> QED BY <1>7, <3>1, <3>2
  <2>2. /\ files'["ca.pem"] = files["ca.pem"] /\ files'["ca.key"] = files["ca.key"]
        /\ files'["crl.pem"] = files["crl.pem"] /\ unseeded' = unseeded
        /\ torn' = torn
        /\ CAWhole' <=> CAWhole
        /\ req[r].f = "server.pem" => files'["server.key"] = Missing
        /\ files'["server.pem"] = req[r].p /\ req[r].p \in Pairs
        /\ req[r].f = "server.key" => files'["server.key"] = req[r].p
    BY <1>1, <1>2, <1>3, <1>7 DEF IInv, ReqOK, ServerOK, Files, CAWhole
  <2>3. TypeOK' /\ OneCreator'
    BY <1>2, <1>3, <1>7, <2>1 DEF Write, IInv, TypeOK, OneCreator, Creating
  <2>4. ReqOK(r)'
    BY <1>1, <1>7, <2>1, <2>2, ValuesDiffer
       DEF IInv, ReqOK, EnsureOK, CRLOK, ServerOK, IssueOK
  <2>5. \A q \in Requests \ {r} : ReqOK(q)'
    BY <1>1, <1>7, <2>1, <2>2, NobodyElse
       DEF IInv, ReqOK, EnsureOK, CRLOK, ServerOK, IssueOK
  <2>6. Seeded'
    <3>1. \A q \in Requests : /\ At(q, "write") /\ req[q].f = "crl.pem" =>
                                   At(q, "write")' /\ req'[q].f = "crl.pem"
                              /\ req[q].job = "seed" => req'[q].job = "seed"
      BY <1>7, <2>1
    <3> QED BY <2>2, <3>1 DEF IInv, Seeded
  <2>7. CAMatched' /\ IssuedOK'
    BY <2>2 DEF Write, IInv, CAMatched, IssuedOK
  <2>8. ServerMatched' /\ RecordedOK'
    <3>1. req[r].f = "server.pem" => files["server.key"] = Missing
      BY <1>1, <1>7 DEF IInv, ReqOK, ServerOK
    <3> QED BY <1>7, <2>2, <3>1, ValuesDiffer DEF Write, IInv, ServerMatched, RecordedOK
  <2> QED BY <2>3, <2>4, <2>5, <2>6, <2>7, <2>8 DEF IInv
<1> QED
  BY <1>1, <1>4, <1>5, <1>6, <1>7, BusyJobs

--------------------------------------------------------------------------------
(* The steps that change the records, and the crash.                            *)

LEMMA RecordKeeps ==
    ASSUME IInv, NEW r \in Requests, Record(r)
    PROVE  IInv'
<1>1. ~CRLDue(r) /\ CAWhole /\ req[r].p = files["ca.pem"]
  BY DEF Record, At, CRLDue, SeedDue, IInv, TypeOK, Locals, ReqOK, EnsureOK, CRLOK, ServerOK,
         IssueOK
<1>2. /\ req' \in [Requests -> Locals]
      /\ \A q \in Requests \ {r} : req'[q] = req[q]
      /\ ReqOK(r)' /\ ~Creating(r)'
  BY Finished DEF Record, IInv
<1>3. UNCHANGED <<files, recorded, unseeded, torn>> /\ (CAWhole' <=> CAWhole)
  BY DEF Record, CAWhole
<1>4. TypeOK' /\ IssuedOK'
  <2>1. issued' \in {issued, issued \cup {files["ca.pem"]}} /\ files["ca.pem"] \in Pairs
    BY <1>1 DEF Record, CAWhole
  <2>2. TypeOK'
    BY <1>2, <1>3, <2>1 DEF IInv, TypeOK
  <2>3. IssuedOK'
    BY <1>1, <1>3, <2>1 DEF IInv, IssuedOK
  <2> QED BY <2>2, <2>3
<1>5. \A q \in Requests : ReqOK(q)'
  BY <1>2, <1>3 DEF IInv, ReqOK, EnsureOK, CRLOK, ServerOK, IssueOK, At, Busy
<1>6. Seeded'
  BY <1>1, <1>2, <1>3 DEF IInv, Seeded, CRLDue, SeedDue, At
<1> QED
  BY <1>2, <1>3, <1>4, <1>5, <1>6
     DEF IInv, OneCreator, Creating, CAMatched, ServerMatched, RecordedOK

LEMMA PutKeeps ==
    ASSUME IInv, NEW r \in Requests, Put(r)
    PROVE  IInv'
<1>1. /\ ~CRLDue(r) /\ files["server.key"] # Missing /\ req[r].mode \in Modes
      /\ req[r].mode = "ca" => CAWhole
  BY DEF Put, At, CRLDue, SeedDue, IInv, TypeOK, Locals, ReqOK, EnsureOK, CRLOK, ServerOK,
         IssueOK
<1>2. /\ req' \in [Requests -> Locals]
      /\ \A q \in Requests \ {r} : req'[q] = req[q]
      /\ ReqOK(r)' /\ ~Creating(r)'
  BY Finished DEF Put, IInv
<1>3. UNCHANGED <<files, issued, unseeded, torn>> /\ (CAWhole' <=> CAWhole)
  BY DEF Put, CAWhole
<1>4. TypeOK' /\ RecordedOK'
  BY <1>1, <1>2, <1>3 DEF Put, IInv, TypeOK, RecordedOK
<1>5. \A q \in Requests : ReqOK(q)'
  BY <1>2, <1>3 DEF IInv, ReqOK, EnsureOK, CRLOK, ServerOK, IssueOK, At, Busy
<1>6. Seeded'
  BY <1>1, <1>2, <1>3 DEF IInv, Seeded, CRLDue, SeedDue, At
<1>7. OneCreator'
  <2>1. Creating(r) /\ \A q \in Requests \ {r} : ~Creating(q)
    BY DEF Put, At, Creating, IInv, OneCreator, TypeOK, Locals, ReqOK, EnsureOK, CRLOK,
           ServerOK, IssueOK
  <2> QED BY <1>2, <2>1 DEF OneCreator, Creating
<1> QED
  BY <1>2, <1>3, <1>4, <1>5, <1>6, <1>7
     DEF IInv, CAMatched, ServerMatched, IssuedOK

LEMMA DeleteInstanceKeeps ==
    ASSUME IInv, DeleteInstance
    PROVE  IInv'
<1>1. None \notin Modes
  BY NoneIsNoMode DEF Modes
<1> QED
  BY <1>1 DEF DeleteInstance, IInv, TypeOK, OneCreator, Creating, CAMatched, ServerMatched,
         ReqOK, EnsureOK, CRLOK, ServerOK, IssueOK, At, Busy, RecordedOK, IssuedOK,
         Seeded, CAWhole, Modes

LEMMA CrashKeeps ==
    ASSUME IInv, Crash
    PROVE  IInv'
<1>1. TypeOK' /\ OneCreator' /\ \A r \in Requests : ReqOK(r)'
  BY DEF Crash, Idle, IInv, TypeOK, Locals, Modes, Files, Contents, OneCreator, Creating,
         ReqOK, EnsureOK, CRLOK, ServerOK, IssueOK, At, Busy
<1>2. Seeded'
  <2>1. UNCHANGED files /\ (CAWhole' <=> CAWhole)
    BY DEF Crash, CAWhole
  <2>2. CASE \E r \in Requests : SeedDue(r)
    BY <2>2 DEF Crash, Seeded
  <2>3. CASE \E r \in Requests : At(r, "write") /\ req[r].f = "crl.pem" /\ ~SeedDue(r)
    <3>1. PICK r \in Requests : At(r, "write") /\ req[r].f = "crl.pem" /\ ~SeedDue(r)
      BY <2>3
    <3>2. Tearing(r) /\ files["crl.pem"] \in {files["ca.pem"], Torn}
      BY <3>1, BusyJobs DEF Tearing, SeedDue, Busy, IInv, ReqOK, CRLOK
    <3>3. torn'
      BY <3>2 DEF Crash
    <3> QED BY <2>1, <3>2, <3>3 DEF Seeded
  <2>4. CASE ~ \E r \in Requests : SeedDue(r) \/ (At(r, "write") /\ req[r].f = "crl.pem")
    BY <2>1, <2>4 DEF Crash, IInv, Seeded, SeedDue
  <2> QED BY <2>2, <2>3, <2>4
<1> QED
  BY <1>1, <1>2
     DEF Crash, IInv, CAMatched, ServerMatched, RecordedOK, IssuedOK, CAWhole

--------------------------------------------------------------------------------
(* The theorems.                                                                *)

LEMMA InitInv == Init => IInv
<1> SUFFICES ASSUME Init PROVE IInv
  OBVIOUS
<1>1. TypeOK
  BY DEF Init, Idle, TypeOK, Locals, Modes, Files, Contents
<1>2. OneCreator /\ \A r \in Requests : ReqOK(r)
  BY DEF Init, Idle, OneCreator, Creating, ReqOK, EnsureOK, CRLOK, ServerOK, IssueOK, At
<1>3. /\ files["ca.pem"] = Missing /\ files["ca.key"] = Missing
      /\ files["server.key"] = Missing
  BY DEF Init, Files
<1> QED
  BY <1>1, <1>2, <1>3, ValuesDiffer, NoneIsNoMode
     DEF Init, IInv, CAMatched, ServerMatched, RecordedOK, IssuedOK, Seeded, CAWhole

LEMMA StepInv == IInv /\ InTurn /\ [Next]_vars => IInv'
<1> SUFFICES ASSUME IInv, InTurn, [Next]_vars PROVE IInv'
  OBVIOUS
<1>1. ASSUME NEW r \in Requests, NEW m \in Modes, CreateInstance(r, m) PROVE IInv'
  BY <1>1, CreateInstanceKeeps
<1>2. ASSUME NEW r \in Requests, IssueClient(r) \/ RevokeClient(r) PROVE IInv'
  BY <1>2, IssueClientKeeps, RevokeClientKeeps
<1>3. ASSUME NEW r \in Requests, Step(r) PROVE IInv'
  BY <1>3, ReadCertKeeps, FoundKeeps, GenerateKeeps, SignCRLKeeps, SignClientKeeps,
     RefusedKeeps, RecordKeeps, OpenKeeps, WriteKeeps, CheckServerKeeps, PutKeeps DEF Step
<1>4. ASSUME NEW r \in Requests, Fail(r) PROVE IInv'
  BY <1>4, FailKeeps
<1>5. CASE UNCHANGED vars
  BY <1>5 DEF vars, IInv, TypeOK, OneCreator, Creating, CAMatched, ServerMatched, ReqOK,
              EnsureOK, CRLOK, ServerOK, IssueOK, At, Busy, RecordedOK, IssuedOK, Seeded,
              CAWhole
<1> QED
  BY <1>1, <1>2, <1>3, <1>4, <1>5, DeleteInstanceKeeps, CrashKeeps DEF Next

LEMMA Invariant ==
    ASSUME InTurn
    PROVE  Spec => []IInv
<1>1. IInv /\ [Next]_vars => IInv'
  BY StepInv
<1> QED
  BY <1>1, InitInv, PTL DEF Spec

(* Types of files, records and locals.                                          *)
THEOREM BootstrapTypeCorrect ==
    ASSUME InTurn
    PROVE  Spec => []TypeOK
<1>1. IInv => TypeOK
  BY DEF IInv
<1> QED BY <1>1, Invariant, PTL

(* A create that was acknowledged left a CA whose key is its certificate's,     *)
(* whatever earlier creates left behind (EnsureCA, pki.go:61).                   *)
THEOREM CAComplete ==
    ASSUME InTurn
    PROVE  Spec => []RecordedHasCA
<1>1. IInv => RecordedHasCA
  BY DEF IInv, RecordedOK, CAWhole, RecordedHasCA
<1> QED BY <1>1, Invariant, PTL

(* Every recorded client's certificate was signed by the CA on disk             *)
(* (IssueClient, pki.go:105; ClientBundle, pki.go:172).                         *)
THEOREM CertificatesVerify ==
    ASSUME InTurn
    PROVE  Spec => []IssuedVerify
<1>1. IInv => IssuedVerify
  BY DEF IInv, IssuedOK, IssuedVerify
<1> QED BY <1>1, Invariant, PTL

(* Two failures and no other leave an acknowledged instance without a whole CRL *)
(* of its CA: a create that ended after the key of the CA and before it had     *)
(* seeded the list (pki.go:92), and a revocation that ended in its rewrite      *)
(* (pki.go:193), which leaves the file torn and never missing.                  *)
THEOREM CRLThere ==
    ASSUME InTurn
    PROVE  Spec => []CRLUnlessHurt
<1>1. IInv => CRLUnlessHurt
  <2> SUFFICES ASSUME IInv, recorded = "ca" PROVE CRLUnlessHurt
    BY DEF CRLUnlessHurt
  <2>1. \A r \in Requests : req[r].job # "seed"
    BY NoneIsNoMode DEF IInv, OneCreator, Creating
  <2> QED
    BY <2>1 DEF IInv, RecordedOK, Seeded, CRLUnlessHurt
<1> QED BY <1>1, Invariant, PTL

(* EnsureServerCert (pki.go:209).                                               *)
THEOREM ServerCertThere ==
    ASSUME InTurn
    PROVE  Spec => []RecordedHasServerCert
<1>1. IInv => RecordedHasServerCert
  BY DEF IInv, RecordedOK, ServerMatched, RecordedHasServerCert
<1> QED BY <1>1, Invariant, PTL

--------------------------------------------------------------------------------
(* A pair that is whole on disk stays. *)

ServerWhole == files["server.pem"] \in Pairs /\ files["server.key"] = files["server.pem"]

(* The CA's two files, once they belong together, are never written again, and    *)
(* neither are the server's; and the CRL that goes with that CA gives way to      *)
(* another of the same CA only, over a file that is being written. Neither a      *)
(* create that failed or died half-way nor a delete and a new create of the name  *)
(* changes that (EnsureCA, pki.go:59; EnsureServerCert, pki.go:210).              *)
PairsMadeOnce ==
    [][/\ CAWhole =>
            files'["ca.pem"] = files["ca.pem"] /\ files'["ca.key"] = files["ca.key"]
       /\ ServerWhole =>
            files'["server.pem"] = files["server.pem"] /\ files'["server.key"] = files["server.key"]
       /\ CAWhole /\ files["crl.pem"] = files["ca.pem"] =>
            files'["crl.pem"] \in {files["ca.pem"], Torn}]_vars

(* Whoever writes the server's files has found no whole key. *)
ServerKeyDue ==
    \A r \in Requests : Busy(r) /\ req[r].job = "server" => files["server.key"] \notin Pairs

(* Only Open and Write touch a file. *)
LEMMA FilesKept ==
    ASSUME Next, ~ \E r \in Requests : Open(r) \/ Write(r)
    PROVE  UNCHANGED files
  BY DEF Next, CreateInstance, IssueClient, RevokeClient, DeleteInstance, Crash, Fail, Step,
         ReadCert, Found, Generate, SignCRL, SignClient, Refused, Record, CheckServer, Put

(* Where a handler goes on after it has written a file. *)
LEMMA AfterWriteIs ==
    ASSUME IInv, NEW r \in Requests, Write(r)
    PROVE  /\ \A q \in Requests \ {r} : req'[q] = req[q]
           /\ \/ req'[r] = Idle /\ req[r].job = "revoke"
              \/ /\ req'[r].mode = req[r].mode
                 /\ req[r].f = "ca.pem" => /\ req'[r].job = "ensure" /\ req'[r].pc = "open"
                                           /\ req'[r].f = "ca.key"
                 /\ req[r].f = "ca.key" => req'[r].job = "seed" /\ req'[r].pc = "readCert"
                 /\ req[r].f = "crl.pem" => req'[r].job = "server" /\ req'[r].pc = "check"
                 /\ req[r].f = "server.pem" => /\ req'[r].job = "server" /\ req'[r].pc = "open"
                                               /\ req'[r].f = "server.key"
                 /\ req[r].f = "server.key" => req'[r].job = "server" /\ req'[r].pc = "put"
<1>1. req \in [Requests -> Locals] /\ Busy(r) /\ req[r].f \in Files
  BY DEF IInv, TypeOK, Locals, Write, Busy
<1>2. CASE req[r].f = "crl.pem"
  <2>1. CASE req[r].job = "seed"
    BY <1>1, <1>2, <2>1 DEF Write, AfterWrite, Goto, Locals
  <2>2. CASE req[r].job # "seed"
    BY <1>1, <1>2, <2>2, BusyJobs DEF Write, AfterWrite, Finish, Locals
  <2> QED BY <2>1, <2>2
<1>3. CASE req[r].f = "ca.pem" \/ req[r].f = "server.pem"
  <2>1. CASE req[r].f = "ca.pem"
    BY <1>1, <2>1 DEF Write, AfterWrite, WriteNext, Locals
  <2>2. CASE req[r].f = "server.pem"
    BY <1>1, <2>2 DEF Write, AfterWrite, WriteNext, Locals
  <2> QED BY <1>3, <2>1, <2>2
<1>4. CASE req[r].f = "ca.key"
  BY <1>1, <1>4 DEF Write, AfterWrite, Goto, Locals
<1>5. CASE req[r].f = "server.key"
  BY <1>1, <1>5 DEF Write, AfterWrite, Goto, Locals
<1> QED BY <1>1, <1>2, <1>3, <1>4, <1>5 DEF Files

(* No step moves another handler than its own. *)
LEMMA StepIsOwn ==
    ASSUME IInv, NEW r \in Requests, Step(r) \/ Fail(r), NEW q \in Requests, q # r
    PROVE  req'[q] = req[q]
<1>1. CASE Write(r)
  BY <1>1, AfterWriteIs
<1>2. CASE ~Write(r)
  BY <1>2 DEF IInv, TypeOK, Step, ReadCert, Found, Generate, SignCRL, SignClient, Refused,
         Record, Open, CheckServer, Put, Fail, Goto, WriteNext, Finish
<1> QED BY <1>1, <1>2

(* The server's files are written by the one creator alone. *)
LEMMA ServerKeyDueKept ==
    ASSUME IInv, ServerKeyDue, InTurn, [Next]_vars
    PROVE  ServerKeyDue'
<1>1. IInv'
  BY StepInv
<1> SUFFICES ASSUME NEW q \in Requests, Busy(q)', req'[q].job = "server"
             PROVE  files'["server.key"] \notin Pairs
  BY DEF ServerKeyDue
<1>2. req \in [Requests -> Locals] /\ files \in [Files -> Contents]
  BY DEF IInv, TypeOK
<1>3. ASSUME NEW r \in Requests, Open(r) PROVE files'["server.key"] \notin Pairs
  <2>1. req[q].job = "server" /\ Busy(q)
    BY <1>2, <1>3 DEF Open, Locals, Busy, At
  <2>2. files'["server.key"] \in {files["server.key"], Torn}
    BY <1>2, <1>3 DEF Open, Files
  <2> QED BY <2>1, <2>2, ValuesDiffer DEF ServerKeyDue
<1>4. ASSUME NEW r \in Requests, Write(r), r # q PROVE files'["server.key"] \notin Pairs
  <2>1. req'[q] = req[q]
    BY <1>4, AfterWriteIs
  <2>2. req[r].job # "server"
    BY <1>4, <2>1 DEF IInv, OneCreator, Creating
  <2>3. files'["server.key"] = files["server.key"]
    <3>1. Busy(r)
      BY <1>4 DEF Write, Busy
    <3>2. req[r].f # "server.key"
      BY <2>2, <3>1, BusyJobs
    <3> QED BY <1>2, <1>4, <3>2 DEF Write, Files
  <2> QED BY <2>1, <2>3 DEF ServerKeyDue, Busy, At
<1>5. CASE Write(q)
  <2>1. Busy(q) /\ req[q].f \in Files
    BY <1>2, <1>5 DEF Write, Busy, Locals
  <2>2. req[q].f = "server.pem"
    <3>1. req'[q] # Idle /\ req'[q].pc \in {"open", "write"}
      BY DEF Idle, Busy, At
    <3>2. req[q].f \notin {"ca.pem", "ca.key", "crl.pem", "server.key"}
      BY <1>5, <3>1, AfterWriteIs
    <3> QED BY <2>1, <3>2 DEF Files
  <2>3. files["server.key"] = Missing
    BY <2>1, <2>2, BusyJobs DEF IInv, ReqOK, ServerOK
  <2> QED BY <1>2, <1>5, <2>2, <2>3, ValuesDiffer DEF Write, Files
<1>6. CASE Next /\ ~ \E r \in Requests : Open(r) \/ Write(r)
  <2>1. UNCHANGED files
    BY <1>6, FilesKept
  <2>2. CASE req[q].job = "server" /\ Busy(q)
    BY <2>1, <2>2 DEF ServerKeyDue
  <2>3. CASE ~(req[q].job = "server" /\ Busy(q))
    <3>1. CheckServer(q)
      <4>1. req'[q] # req[q] /\ req'[q] # Idle
        BY <2>3 DEF Busy, At, Idle
      <4>2. Step(q)
        <5>1. PICK r \in Requests : \/ Step(r) \/ Fail(r) \/ IssueClient(r) \/ RevokeClient(r)
                                   \/ \E m \in Modes : CreateInstance(r, m)
          BY <1>6, <4>1 DEF Next, DeleteInstance, Crash
        <5>2. CASE IssueClient(r) \/ RevokeClient(r) \/ \E m \in Modes : CreateInstance(r, m)
          <6>1. \A m \in Modes : CreateInstance(r, m) => req'[q] = req[q] \/ ~Busy(q)'
            BY <1>2 DEF CreateInstance, Busy, At, Locals
          <6>2. IssueClient(r) \/ RevokeClient(r) => req'[q] = req[q] \/ ~Busy(q)'
            BY <1>2 DEF IssueClient, RevokeClient, Goto, Busy, At, Locals
          <6> QED BY <4>1, <5>2, <6>1, <6>2
        <5>3. Fail(r) => req'[q] = req[q] \/ req'[q] = Idle
          BY <1>2 DEF Fail, Finish
        <5> QED BY <4>1, <5>1, <5>2, <5>3, StepIsOwn
      <4>3. ~(ReadCert(q) \/ Found(q) \/ Generate(q) \/ SignCRL(q) \/ SignClient(q))
        BY <1>2 DEF ReadCert, Found, Generate, SignCRL, SignClient, Goto, WriteNext, Busy, At, Locals
      <4>4. ~(Refused(q) \/ Record(q) \/ Put(q))
        BY <1>2, <4>1 DEF Refused, Record, Put, Finish
      <4> QED BY <1>6, <4>2, <4>3, <4>4 DEF Step
    <3>2. ~ServerFilesExist
      BY <1>2, <3>1 DEF CheckServer, Goto, Busy, At, Locals
    <3>3. files["server.key"] = Missing
      BY <3>2, ValuesDiffer DEF ServerFilesExist, IInv, ServerMatched
    <3> QED BY <2>1, <3>3, ValuesDiffer
  <2> QED BY <2>2, <2>3
<1>7. CASE UNCHANGED vars
  BY <1>7 DEF vars, ServerKeyDue, Busy, At
<1> QED BY <1>3, <1>4, <1>5, <1>6, <1>7

(* What Open and Write may do to a pair that is whole: nothing. *)
LEMMA WritesSpare ==
    ASSUME IInv, ServerKeyDue, NEW r \in Requests, Open(r) \/ Write(r)
    PROVE  /\ CAWhole =>
                files'["ca.pem"] = files["ca.pem"] /\ files'["ca.key"] = files["ca.key"]
           /\ ServerWhole =>
                /\ files'["server.pem"] = files["server.pem"]
                /\ files'["server.key"] = files["server.key"]
           /\ CAWhole /\ files["crl.pem"] = files["ca.pem"] =>
                files'["crl.pem"] \in {files["ca.pem"], Torn}
<1>1. files \in [Files -> Contents] /\ Busy(r)
  BY DEF IInv, TypeOK, Open, Write, Busy
<1>2. files' \in {[files EXCEPT ![req[r].f] = Torn], [files EXCEPT ![req[r].f] = req[r].p]}
  BY DEF Open, Write
<1>3. CASE req[r].job = "ensure"
  <2>1. ~CAWhole /\ req[r].f \in {"ca.pem", "ca.key"}
    BY <1>1, <1>3 DEF IInv, ReqOK, EnsureOK, CAWhole
  <2> QED BY <1>1, <1>2, <2>1 DEF Files
<1>4. CASE req[r].job \in {"seed", "revoke"}
  <2>1. req[r].f = "crl.pem" /\ req[r].p = files["ca.pem"]
    BY <1>1, <1>4 DEF IInv, ReqOK, CRLOK
  <2> QED BY <1>1, <1>2, <2>1 DEF Files
<1>5. CASE req[r].job = "server"
  <2>1. ~ServerWhole /\ req[r].f \in {"server.pem", "server.key"}
    BY <1>1, <1>5 DEF IInv, ReqOK, ServerOK, ServerKeyDue, ServerWhole
  <2> QED BY <1>1, <1>2, <2>1 DEF Files
<1> QED BY <1>1, <1>3, <1>4, <1>5, BusyJobs

(* So what ocserv and the clients were given stays good: the CA that signed the   *)
(* certificates in their hands and the pair that the server proves itself with.   *)
(* It is also why Pki.tla may take the making of the CA as one step.              *)
THEOREM PairsAreMadeOnce ==
    ASSUME InTurn
    PROVE  Spec => PairsMadeOnce
<1>1. Init => ServerKeyDue
  BY DEF Init, Idle, ServerKeyDue, Busy, At
<1>2. IInv /\ ServerKeyDue /\ [Next]_vars => ServerKeyDue'
  BY ServerKeyDueKept
<1>3. IInv /\ ServerKeyDue /\ [Next]_vars =>
        [/\ CAWhole =>
              files'["ca.pem"] = files["ca.pem"] /\ files'["ca.key"] = files["ca.key"]
         /\ ServerWhole =>
              files'["server.pem"] = files["server.pem"] /\ files'["server.key"] = files["server.key"]
         /\ CAWhole /\ files["crl.pem"] = files["ca.pem"] =>
              files'["crl.pem"] \in {files["ca.pem"], Torn}]_vars
  <2>1. ASSUME Next, ~ \E r \in Requests : Open(r) \/ Write(r) PROVE UNCHANGED files
    BY <2>1, FilesKept
  <2> QED BY <2>1, WritesSpare
<1> QED BY <1>1, <1>2, <1>3, Invariant, PTL DEF Spec, PairsMadeOnce

--------------------------------------------------------------------------------
(* Every handler comes to an end, as far as that is not a matter of fairness. *)

JobsLeft(job) ==
    CASE job = "ensure" -> 3 [] job = "seed" -> 2 [] job = "server" -> 1 [] OTHER -> 0

StepsLeft(q) ==
    CASE q.pc = "readCert" -> 8 [] q.pc \in {"readKey", "check"} -> 7 [] q.pc = "record" -> 6
      [] q.pc = "open" -> (IF q.f \in {"ca.key", "server.key"} THEN 4 ELSE 6)
      [] q.pc = "write" -> (IF q.f \in {"ca.key", "server.key"} THEN 3 ELSE 5)
      [] q.pc = "put" -> 2 [] OTHER -> 0

(* The handler in state p may go on in state q: it returns, or it is the same     *)
(* call with a job less to do, or a step less of the same job.                    *)
GoesOn(p, q) ==
    \/ q.pc = "idle"
    \/ q.mode = p.mode /\ JobsLeft(q.job) < JobsLeft(p.job)
    \/ q.mode = p.mode /\ q.job = p.job /\ StepsLeft(q) < StepsLeft(p)

(* A step that moves a handler takes its call on, or ends it. *)
HandlersGoOn ==
    [][\A r \in Requests :
          req[r].pc # "idle" /\ req'[r] # req[r] => GoesOn(req[r], req'[r])]_vars

LEMMA StepGoesOn ==
    ASSUME IInv, NEW r \in Requests, Step(r) \/ Fail(r)
    PROVE  GoesOn(req[r], req'[r])
<1> USE DEF GoesOn, At
<1>1. req \in [Requests -> Locals]
  BY DEF IInv, TypeOK
<1>2. CASE Finish(r)
  BY <1>1, <1>2 DEF Finish, Idle
<1>3. CASE ReadCert(r) \/ SignClient(r)
  BY <1>1, <1>3 DEF ReadCert, SignClient, Locals, StepsLeft
<1>4. CASE Found(r) \/ CheckServer(r)
  <2>1. CheckServer(r) => req[r].job = "server"
    BY <1>1 DEF CheckServer, IInv, ReqOK, EnsureOK, CRLOK, ServerOK, IssueOK, Locals
  <2> QED BY <1>1, <1>4, <2>1
          DEF Found, CheckServer, Goto, WriteNext, Locals, JobsLeft, StepsLeft
<1>5. CASE Generate(r) \/ SignCRL(r)
  BY <1>1, <1>5 DEF Generate, SignCRL, WriteNext, Locals, JobsLeft, StepsLeft
<1>6. CASE Open(r)
  BY <1>1, <1>6 DEF Open, Locals, StepsLeft
<1>7. CASE Write(r)
  <2>1. Busy(r) /\ req[r].pc = "write"
    BY <1>7 DEF Write, Busy
  <2>2. CASE req'[r] = Idle
    BY <2>2 DEF Idle
  <2>3. CASE req'[r] # Idle /\ req[r].f \in {"ca.pem", "server.pem"}
    <3>1. /\ req'[r].mode = req[r].mode /\ req'[r].pc = "open"
          /\ req'[r].f \in {"ca.key", "server.key"}
      BY <1>7, <2>3, AfterWriteIs
    <3>2. req'[r].job = req[r].job
      BY <1>7, <2>1, <2>3, AfterWriteIs, BusyJobs
    <3> QED BY <2>1, <2>3, <3>1, <3>2 DEF StepsLeft
  <2>4. CASE req'[r] # Idle /\ req[r].f \in {"ca.key", "crl.pem"}
    <3>1. CASE req[r].f = "ca.key"
      <4>1. req[r].job = "ensure" /\ req'[r].job = "seed" /\ req'[r].mode = req[r].mode
        BY <1>7, <2>1, <2>4, <3>1, AfterWriteIs, BusyJobs
      <4> QED BY <4>1 DEF JobsLeft
    <3>2. CASE req[r].f = "crl.pem"
      <4>1. req[r].job \in {"seed", "revoke"} /\ req[r].job # "revoke"
        <5>1. req[r].job \in {"seed", "revoke"}
          BY <2>1, <3>2, BusyJobs
        <5>2. CASE req[r].job = "revoke"
          BY <1>7, <2>4, <3>2, <5>2 DEF Write, AfterWrite, Finish, IInv, TypeOK
        <5> QED BY <5>1, <5>2
      <4>2. req'[r].job = "server" /\ req'[r].mode = req[r].mode
        BY <1>7, <2>4, <3>2, AfterWriteIs
      <4> QED BY <4>1, <4>2 DEF JobsLeft
    <3> QED BY <2>4, <3>1, <3>2
  <2>5. CASE req'[r] # Idle /\ req[r].f = "server.key"
    <3>1. req'[r].mode = req[r].mode /\ req'[r].pc = "put" /\ req'[r].job = "server"
      BY <1>7, <2>5, AfterWriteIs
    <3>2. req[r].job = "server"
      BY <2>1, <2>5, BusyJobs
    <3> QED BY <2>1, <2>5, <3>1, <3>2 DEF StepsLeft
  <2> QED BY <1>1, <2>2, <2>3, <2>4, <2>5 DEF Locals, Files
<1>8. CASE Refused(r) \/ Record(r) \/ Put(r) \/ Fail(r)
  BY <1>2, <1>8 DEF Refused, Record, Put, Fail
<1> QED BY <1>3, <1>4, <1>5, <1>6, <1>7, <1>8 DEF Step

(* A create, an issue or a revocation that does not return at a step is the same  *)
(* call with strictly less to do, whatever others make of the files it reads.     *)
THEOREM BootstrapAlwaysGoesOn ==
    ASSUME InTurn
    PROVE  Spec => HandlersGoOn
<1>1. ASSUME IInv, Next, NEW q \in Requests, req[q].pc # "idle", req'[q] # req[q]
      PROVE  GoesOn(req[q], req'[q])
  <2>1. ASSUME NEW r \in Requests, Step(r) \/ Fail(r) PROVE GoesOn(req[q], req'[q])
    BY <1>1, <2>1, StepGoesOn, StepIsOwn DEF IInv
  <2>2. ASSUME NEW r \in Requests, NEW m \in Modes,
               CreateInstance(r, m) \/ IssueClient(r) \/ RevokeClient(r)
        PROVE  FALSE
    BY <1>1, <2>2 DEF CreateInstance, IssueClient, RevokeClient, Goto, At, IInv, TypeOK
  <2>3. CASE Crash
    BY <2>3 DEF Crash, Idle, GoesOn
  <2>4. CASE DeleteInstance
    BY <1>1, <2>4 DEF DeleteInstance
  <2> QED BY <1>1, <2>1, <2>2, <2>3, <2>4 DEF Next, Modes
<1>2. IInv /\ [Next]_vars =>
        [\A r \in Requests :
            req[r].pc # "idle" /\ req'[r] # req[r] => GoesOn(req[r], req'[r])]_vars
  BY <1>1
<1> QED BY <1>2, Invariant, PTL DEF Spec, HandlersGoOn
================================================================================
