----------------------------- MODULE ClientsProofs -----------------------------
(* Theorems about Clients.tla, for any number of handlers, instances, clients,  *)
(* serials and addresses. The first part holds whatever the callers keep apart, *)
(* whichever file operations fail and wherever the daemon dies. The argument:   *)
(* the files of a certificate are written before a record can name it and are   *)
(* never removed, so what a handler carries towards PutClient is backed by      *)
(* files at every step, however long it is overtaken by others. The second and  *)
(* the third part assume callers that keep clients apart, or take turns. The    *)
(* last two hold whatever the callers do again, but for the deletion at the     *)
(* end: no handler loops, and a list that was signed comes into force.          *)
EXTENDS Clients, RecordLemmas

(* A record is backed by the files P and K, issued to its own client. *)
Backed(n, cn, c, P, K) ==
    c.serial # None => /\ [n |-> n, cn |-> cn, serial |-> c.serial] \in P
                       /\ c.serial \in K

(* What the locals of a handler are at each point of its way. *)
LocalsOK(q, P, K) ==
    /\ q.pc # "idle" => q.n \in Names
    /\ q.pc \notin {"idle", "sync", "syncWrite"} => q.cn \in CNs /\ q.rec \in ClientRecs
    /\ q.pc = "syncWrite" => q.cn \in CNs /\ q.todo[q.cn] # NoIP
    /\ q.pc \in {"exists", "issue"} => q.rec.serial = None
    /\ q.pc = "key" => /\ q.rec.serial \in Serials
                       /\ [n |-> q.n, cn |-> q.cn, serial |-> q.rec.serial] \in P
    /\ q.pc \in {"passwd", "pin", "pinWrite", "put"} => Backed(q.n, q.cn, q.rec, P, K)
    /\ q.pc \in {"pinWrite", "put"} => Pinnable(q.cn, q.rec.ip)
    /\ q.pc = "revoke" => q.rec.serial \in Serials

RequestsInv ==
    /\ req \in [Requests -> RequestState]
    /\ \A r \in Requests : LocalsOK(req[r], pems, keys)

(* Everything else keeps its type. *)
FilesTyped ==
    /\ PkiTypeOK
    /\ passwd \in [Names -> SUBSET CNs]
    /\ pins \in [Names -> [CNs -> PinFiles]]
    /\ running \subseteq Names /\ hup \subseteq running
    /\ inForce \in [Names -> SUBSET Serials]
    /\ gone \in [Names -> SUBSET Serials]

PinnableIn(d) ==
    \A n \in Names, cn \in CNs : d.cli[n][cn] # Absent => Pinnable(cn, d.cli[n][cn].ip)

(* What every version of the records satisfies, given the files P and K. *)
Sound(d, P, K) ==
    /\ d \in Data
    /\ Rooted(d)
    /\ PinnableIn(d)
    /\ \A n \in Names, cn \in CNs :
          d.cli[n][cn] # Absent => Backed(n, cn, d.cli[n][cn], P, K)

RecordsInv ==
    /\ Sound(mem, pems, keys)
    /\ Sound(disk, pems, keys)
    /\ OneNamePerSerial

IInv == RequestsInv /\ FilesTyped /\ RecordsInv

LEMMA IInvImplies ==
    IInv => TypeOK /\ ClientsHaveInstance /\ BundleOnDisk /\ RecordsPinnable
  BY DEF IInv, RequestsInv, FilesTyped, RecordsInv, Sound, TypeOK, ClientsHaveInstance,
         BundleOnDisk, Certified, Backed, RecordsPinnable, PinnableIn

--------------------------------------------------------------------------------
LEMMA RecType ==
    /\ \A c \in ClientRecs : /\ c.mode \in Modes
                             /\ c.serial \in Serials \cup {None}
                             /\ c.ip \in Addrs
    /\ \A mode \in Modes, serial \in Serials \cup {None}, ip \in Addrs :
          [mode |-> mode, serial |-> serial, ip |-> ip] \in ClientRecs
    /\ Absent \notin ClientRecs
  BY RecsAssumption, AbsentAssumption DEF Addrs

LEMMA IdleTyped ==
    /\ Idle \in RequestState /\ Idle.pc = "idle"
  BY DEF Idle, RequestState, PCs, Addrs

(* Files are only added, and more files back no less. *)
LEMMA BackedGrows ==
    ASSUME NEW P, NEW K, NEW P2, NEW K2, P \subseteq P2, K \subseteq K2,
           NEW n, NEW cn, NEW c, Backed(n, cn, c, P, K)
    PROVE  Backed(n, cn, c, P2, K2)
  BY DEF Backed

LEMMA LocalsGrow ==
    ASSUME NEW P, NEW K, NEW P2, NEW K2, P \subseteq P2, K \subseteq K2,
           NEW q, LocalsOK(q, P, K)
    PROVE  LocalsOK(q, P2, K2)
  BY BackedGrows DEF LocalsOK

LEMMA SoundGrows ==
    ASSUME NEW P, NEW K, NEW P2, NEW K2, P \subseteq P2, K \subseteq K2,
           NEW d, Sound(d, P, K)
    PROVE  Sound(d, P2, K2)
  BY BackedGrows DEF Sound

(* The other handlers keep their locals, and these their backing. *)
LEMMA OneMoves ==
    ASSUME RequestsInv, NEW r \in Requests, NEW q \in RequestState,
           pems \subseteq pems', keys \subseteq keys',
           req' = [req EXCEPT ![r] = q], LocalsOK(q, pems', keys')
    PROVE  RequestsInv'
  BY LocalsGrow DEF RequestsInv

LEMMA GotoMoves ==
    ASSUME RequestsInv, NEW r \in Requests, NEW pc \in PCs, Goto(r, pc),
           pems \subseteq pems', keys \subseteq keys',
           LocalsOK([req[r] EXCEPT !.pc = pc], pems', keys')
    PROVE  RequestsInv'
  <1>1. [req[r] EXCEPT !.pc = pc] \in RequestState
    BY DEF RequestsInv, RequestState
  <1>2. req' = [req EXCEPT ![r] = [req[r] EXCEPT !.pc = pc]]
    BY DEF Goto
  <1> QED BY <1>1, <1>2, OneMoves

LEMMA LeaveMoves ==
    ASSUME RequestsInv, NEW r \in Requests, NEW pc \in PCs, Leave(r, pc),
           pems \subseteq pems', keys \subseteq keys',
           LocalsOK([req[r] EXCEPT !.pc = pc, !.pw = FALSE, !.snap = {}, !.users = {}],
                    pems', keys')
    PROVE  RequestsInv'
  <1> DEFINE q == [req[r] EXCEPT !.pc = pc, !.pw = FALSE, !.snap = {}, !.users = {}]
  <1>1. q \in RequestState
    BY DEF RequestsInv, RequestState
  <1>2. req' = [req EXCEPT ![r] = q]
    BY DEF Leave
  <1> QED BY <1>1, <1>2, OneMoves

LEMMA ReturnMoves ==
    ASSUME RequestsInv, NEW r \in Requests, Return(r),
           pems \subseteq pems', keys \subseteq keys'
    PROVE  RequestsInv'
  <1>1. LocalsOK(Idle, pems', keys')
    BY IdleTyped DEF LocalsOK
  <1> QED BY <1>1, IdleTyped, OneMoves DEF Return

(* A step that leaves the store alone keeps the records sound. *)
LEMMA RecordsFrame ==
    ASSUME RecordsInv, UNCHANGED storeVars, pems \subseteq pems', keys \subseteq keys',
           OneNamePerSerial'
    PROVE  RecordsInv'
  BY SoundGrows DEF RecordsInv, storeVars

LEMMA PkiFrame ==
    ASSUME RecordsInv, UNCHANGED storeVars, UNCHANGED <<pems, keys>>
    PROVE  RecordsInv' /\ pems \subseteq pems' /\ keys \subseteq keys'
  BY DEF RecordsInv, storeVars, OneNamePerSerial

LEMMA InitIInv == Init => IInv
  <1> SUFFICES ASSUME Init PROVE IInv
    OBVIOUS
  <1>1. FilesTyped
    BY DEF Init, PkiInit, FilesTyped, PkiTypeOK, PinFiles, Addrs
  <1>2. RequestsInv
    BY IdleTyped DEF Init, RequestsInv, LocalsOK
  <1>3. RecordsInv
    BY EmptyTyped DEF Init, PkiInit, RecordsInv, Sound, PinnableIn, Empty, OneNamePerSerial
  <1> QED BY <1>1, <1>2, <1>3 DEF IInv

--------------------------------------------------------------------------------
(* CreateClient and PatchClient *)

LEMMA CreateClientIInv ==
    ASSUME IInv, NEW r \in Requests, NEW n \in Names, NEW cn \in CNs, NEW mode \in Modes,
           NEW ip \in Addrs, NEW pw \in BOOLEAN, CreateClient(r, n, cn, mode, ip, pw)
    PROVE  IInv'
  <1> DEFINE rec == [mode |-> mode, serial |-> None, ip |-> ip]
             q == [Idle EXCEPT !.pc = "exists", !.n = n, !.cn = cn, !.pw = pw, !.rec = rec]
  <1>1. rec \in ClientRecs
    BY RecType
  <1>2. q \in RequestState /\ LocalsOK(q, pems, keys)
    BY <1>1 DEF Idle, RequestState, PCs, Addrs, LocalsOK
  <1>3. req' = [req EXCEPT ![r] = q] /\ UNCHANGED <<storeVars, pkiVars>>
    BY DEF CreateClient
  <1>4. RecordsInv' /\ pems' = pems /\ keys' = keys
    BY <1>3, PkiFrame DEF IInv, pkiVars
  <1>5. RequestsInv'
    BY <1>2, <1>3, <1>4, OneMoves DEF IInv
  <1>6. FilesTyped'
    BY DEF CreateClient, IInv, FilesTyped, PkiTypeOK, pkiVars, ocservVars
  <1> QED BY <1>4, <1>5, <1>6 DEF IInv

LEMMA ExistsIInv == ASSUME IInv, NEW r \in Requests, Exists(r) PROVE IInv'
  <1>1. RecordsInv' /\ pems' = pems /\ keys' = keys
    BY PkiFrame DEF Exists, IInv, pkiVars
  <1>2. /\ req[r] \in RequestState /\ LocalsOK(req[r], pems, keys)
        /\ req[r].pc = "exists"
    BY DEF Exists, IInv, RequestsInv
  <1>3. ASSUME NEW pc \in {"issue", "passwd", "pin"}
        PROVE  LocalsOK([req[r] EXCEPT !.pc = pc], pems', keys')
    BY <1>1, <1>2 DEF LocalsOK, RequestState, Backed
  <1>4. RequestsInv'
    <2>1. CASE Return(r)
      BY <1>1, <2>1, ReturnMoves DEF IInv
    <2>2. ASSUME NEW pc \in {"issue", "passwd", "pin"}, Goto(r, pc) PROVE RequestsInv'
      BY <1>1, <1>3, <2>2, GotoMoves DEF IInv, PCs
    <2> QED BY <2>1, <2>2 DEF Exists, AfterIssue
  <1>5. FilesTyped'
    BY DEF Exists, IInv, FilesTyped, PkiTypeOK, pkiVars, ocservVars
  <1> QED BY <1>1, <1>4, <1>5 DEF IInv

LEMMA IssuePemIInv == ASSUME IInv, NEW r \in Requests, IssuePem(r) PROVE IInv'
  <1> PICK s \in Serials :
        /\ WritePem(req[r].n, req[r].cn, s)
        /\ req' = [req EXCEPT ![r].pc = "key", ![r].rec.serial = s]
    BY DEF IssuePem
  <1> DEFINE rec == [req[r].rec EXCEPT !.serial = s]
             q == [req[r] EXCEPT !.pc = "key", !.rec = rec]
  <1>1. /\ req[r] \in RequestState /\ LocalsOK(req[r], pems, keys)
        /\ req[r].pc = "issue" /\ req[r].n \in Names /\ req[r].cn \in CNs
        /\ req[r].rec \in ClientRecs
    BY DEF IssuePem, IInv, RequestsInv, LocalsOK
  <1>2. /\ pems' = pems \cup {[n |-> req[r].n, cn |-> req[r].cn, serial |-> s]}
        /\ keys' = keys /\ s \notin Used /\ UNCHANGED <<ca, revoked, crl>>
    BY DEF WritePem
  <1>3. rec \in ClientRecs /\ rec.serial = s
    BY <1>1, RecsAssumption
  <1>4. q \in RequestState /\ LocalsOK(q, pems', keys')
    <2> HIDE DEF rec
    <2> QED BY <1>1, <1>2, <1>3 DEF RequestState, PCs, LocalsOK
  <1>5. RequestsInv'
    <2>1. req' = [req EXCEPT ![r] = q]
      OBVIOUS
    <2> QED BY <1>2, <1>4, <2>1, OneMoves DEF IInv
  <1>6. OneNamePerSerial'
    BY <1>2 DEF IInv, RecordsInv, OneNamePerSerial, Used
  <1>7. RecordsInv'
    BY <1>2, <1>6, RecordsFrame DEF IssuePem, IInv
  <1>8. FilesTyped'
    BY <1>1, <1>2 DEF IssuePem, IInv, FilesTyped, PkiTypeOK, ocservVars
  <1> QED BY <1>5, <1>7, <1>8 DEF IInv

LEMMA IssueKeyIInv == ASSUME IInv, NEW r \in Requests, IssueKey(r) PROVE IInv'
  <1>1. /\ req[r] \in RequestState /\ LocalsOK(req[r], pems, keys)
        /\ req[r].pc = "key" /\ req[r].rec.serial \in Serials
    BY DEF IssueKey, IInv, RequestsInv, LocalsOK
  <1>2. pems' = pems /\ keys' = keys \cup {req[r].rec.serial} /\ UNCHANGED <<ca, revoked, crl>>
    BY DEF IssueKey, WriteKey
  <1>3. ASSUME NEW pc \in {"passwd", "pin"}
        PROVE  LocalsOK([req[r] EXCEPT !.pc = pc], pems', keys')
    BY <1>1, <1>2 DEF LocalsOK, RequestState, Backed
  <1>4. ASSUME NEW pc \in {"passwd", "pin"}, Goto(r, pc) PROVE RequestsInv'
    BY <1>2, <1>3, <1>4, GotoMoves DEF IInv, PCs
  <1>5. RequestsInv'
    BY <1>4 DEF IssueKey, AfterIssue
  <1>6. RecordsInv'
    BY <1>2, RecordsFrame DEF IssueKey, IInv, RecordsInv, OneNamePerSerial
  <1>7. FilesTyped'
    BY <1>1, <1>2 DEF IssueKey, IInv, FilesTyped, PkiTypeOK, ocservVars
  <1> QED BY <1>5, <1>6, <1>7 DEF IInv

LEMMA SetPasswordIInv == ASSUME IInv, NEW r \in Requests, SetPassword(r) PROVE IInv'
  <1>1. RecordsInv' /\ pems' = pems /\ keys' = keys
    BY PkiFrame DEF SetPassword, IInv, pkiVars
  <1>2. /\ req[r] \in RequestState /\ LocalsOK(req[r], pems, keys)
        /\ req[r].pc = "passwd" /\ req[r].n \in Names /\ req[r].cn \in CNs
    BY DEF SetPassword, IInv, RequestsInv, LocalsOK
  <1>3. RequestsInv'
    <2>1. CASE Return(r)
      BY <1>1, <2>1, ReturnMoves DEF IInv
    <2>2. CASE Leave(r, "pin")
      <3>1. LocalsOK([req[r] EXCEPT !.pc = "pin", !.pw = FALSE, !.snap = {}, !.users = {}],
                     pems', keys')
        BY <1>1, <1>2 DEF LocalsOK, RequestState
      <3> QED BY <1>1, <2>2, <3>1, LeaveMoves DEF IInv, PCs
    <2> QED BY <2>1, <2>2 DEF SetPassword
  <1>4. FilesTyped'
    BY <1>2 DEF SetPassword, IInv, FilesTyped, PkiTypeOK, pkiVars, ocservVars
  <1> QED BY <1>1, <1>3, <1>4 DEF IInv

LEMMA OnePinTyped ==
    ASSUME NEW n \in Names, NEW cn \in CNs, NEW x \in PinFiles,
           pins \in [Names -> [CNs -> PinFiles]], pins' = [pins EXCEPT ![n][cn] = x]
    PROVE  pins' \in [Names -> [CNs -> PinFiles]]
  OBVIOUS

LEMMA PinIInv ==
    ASSUME IInv, NEW r \in Requests, PinRefused(r) \/ PinOpen(r) \/ PinWrite(r)
    PROVE  IInv'
  <1>1. UNCHANGED <<storeVars, pkiVars, passwd, ocservVars, gone>>
    BY DEF PinRefused, PinOpen, PinWrite
  <1>2. RecordsInv' /\ pems' = pems /\ keys' = keys
    BY <1>1, PkiFrame DEF IInv, pkiVars
  <1>3. PICK n, cn, ip : /\ n = req[r].n /\ cn = req[r].cn /\ ip = req[r].rec.ip
                         /\ n \in Names /\ cn \in CNs /\ ip \in Addrs
    BY RecType DEF PinRefused, PinOpen, PinWrite, IInv, RequestsInv, LocalsOK
  <1>4. /\ req[r] \in RequestState /\ LocalsOK(req[r], pems, keys)
        /\ req[r].pc \in {"pin", "pinWrite"}
    BY DEF PinRefused, PinOpen, PinWrite, IInv, RequestsInv
  <1>5. RequestsInv'
    <2>1. CASE Return(r)
      BY <1>2, <2>1, ReturnMoves DEF IInv
    <2>2. CASE PinOpen(r) \/ PinWrite(r)
      <3>1. PICK pc \in {"pinWrite", "put"} : Goto(r, pc)
        BY <2>2 DEF PinOpen, PinWrite
      <3>2. Pinnable(cn, ip)
        BY <1>3, <1>4, <2>2 DEF PinOpen, PinWrite, LocalsOK
      <3>3. LocalsOK([req[r] EXCEPT !.pc = pc], pems', keys')
        BY <1>2, <1>3, <1>4, <3>1, <3>2 DEF LocalsOK, RequestState
      <3> QED BY <1>2, <3>1, <3>3, GotoMoves DEF IInv, PCs
    <2> QED BY <2>1, <2>2 DEF PinRefused
  <1>6. pins' \in [Names -> [CNs -> PinFiles]]
    <2>1. pins \in [Names -> [CNs -> PinFiles]]
      BY DEF IInv, FilesTyped
    <2>2. pins' = pins \/ \E x \in PinFiles : pins' = [pins EXCEPT ![n][cn] = x]
      BY <1>3 DEF PinRefused, PinOpen, PinWrite, PinFiles, Addrs
    <2>3. ASSUME NEW x \in PinFiles, pins' = [pins EXCEPT ![n][cn] = x]
          PROVE  pins' \in [Names -> [CNs -> PinFiles]]
      BY <1>3, <2>1, <2>3, OnePinTyped
    <2> QED BY <2>1, <2>2, <2>3
  <1>7. FilesTyped'
    BY <1>1, <1>6 DEF IInv, FilesTyped, PkiTypeOK, pkiVars, ocservVars
  <1> QED BY <1>2, <1>5, <1>7 DEF IInv

(* A record stored under a known instance, backed and pinnable, keeps every *)
(* version of the records sound.                                            *)
LEMMA PutSound ==
    ASSUME NEW P, NEW K, NEW d, Sound(d, P, K), NEW n \in Names, NEW cn \in CNs,
           NEW c \in ClientRecs, Known(d, n), Backed(n, cn, c, P, K), Pinnable(cn, c.ip)
    PROVE  Sound(WithClient(d, n, cn, c), P, K)
  <1> DEFINE e == WithClient(d, n, cn, c)
  <1>1. e \in Data /\ Rooted(e)
    BY MutationsTyped, MutationsRooted DEF Sound
  <1>2. ASSUME NEW m \in Names, NEW k \in CNs
        PROVE  e.cli[m][k] = IF m = n /\ k = cn THEN c ELSE d.cli[m][k]
    BY <1>2 DEF Sound, Data, WithClient
  <1> HIDE DEF e
  <1>3. PinnableIn(e) /\ \A m \in Names, k \in CNs :
            e.cli[m][k] # Absent => Backed(m, k, e.cli[m][k], P, K)
    BY <1>2 DEF Sound, PinnableIn
  <1>4. Sound(e, P, K)
    BY <1>1, <1>3 DEF Sound
  <1> QED BY <1>4 DEF e

LEMMA PutIInv ==
    ASSUME IInv, NEW r \in Requests, NEW ok \in BOOLEAN, Put(r, ok)
    PROVE  IInv'
  <1>1. /\ LocalsOK(req[r], pems, keys) /\ req[r].pc = "put"
        /\ UNCHANGED <<pkiVars, passwd, pins, ocservVars, gone>> /\ Return(r)
        /\ pems' = pems /\ keys' = keys
    BY DEF Put, IInv, RequestsInv, pkiVars
  <1>2. RequestsInv'
    BY <1>1, ReturnMoves DEF IInv
  <1>3. FilesTyped'
    BY <1>1 DEF IInv, FilesTyped, PkiTypeOK, pkiVars, ocservVars
  <1>4. Known(mem, req[r].n) => Sound(WithClient(mem, req[r].n, req[r].cn, req[r].rec), pems, keys)
    BY <1>1, PutSound DEF LocalsOK, IInv, RecordsInv
  <1>5. /\ mem' = mem \/ (Known(mem, req[r].n) /\ mem' = WithClient(mem, req[r].n, req[r].cn, req[r].rec))
        /\ disk' = disk \/ disk' = mem'
    BY DEF Put, DB!Commit, storeVars
  <1>6. RecordsInv'
    BY <1>1, <1>4, <1>5 DEF IInv, RecordsInv, OneNamePerSerial
  <1> QED BY <1>2, <1>3, <1>6 DEF IInv

LEMMA PatchClientIInv ==
    ASSUME IInv, NEW r \in Requests, NEW n \in Names, NEW cn \in CNs, NEW ip \in Addrs,
           NEW pw \in BOOLEAN, PatchClient(r, n, cn, ip, pw)
    PROVE  IInv'
  <1> DEFINE old == mem.cli[n][cn]
             rec == [old EXCEPT !.ip = ip]
             pc == IF pw /\ HasPassword(old.mode) THEN "passwd" ELSE "pin"
             pw2 == pw /\ HasPassword(old.mode)
             q == [Idle EXCEPT !.pc = pc, !.n = n, !.cn = cn, !.pw = pw2, !.rec = rec]
  <1>1. old \in ClientRecs /\ Backed(n, cn, old, pems, keys)
    BY DEF PatchClient, IInv, RecordsInv, Sound, Data
  <1>2. rec \in ClientRecs /\ rec.serial = old.serial
    BY <1>1, RecsAssumption DEF Addrs
  <1>3. pc \in {"passwd", "pin"} /\ pw2 \in BOOLEAN
    BY DEF HasPassword
  <1>4. req' = [req EXCEPT ![r] = q] /\ UNCHANGED <<storeVars, pkiVars>>
    BY DEF PatchClient
  <1>5. RecordsInv' /\ pems' = pems /\ keys' = keys
    BY <1>4, PkiFrame DEF IInv, pkiVars
  <1>6. q \in RequestState /\ LocalsOK(q, pems, keys)
    <2> HIDE DEF rec, pc, pw2, old
    <2> QED BY <1>1, <1>2, <1>3, RecType DEF Idle, RequestState, PCs, Addrs, LocalsOK, Backed
  <1>7. RequestsInv'
    <2> HIDE DEF q
    <2> QED BY <1>4, <1>5, <1>6, OneMoves DEF IInv
  <1>8. FilesTyped'
    BY DEF PatchClient, IInv, FilesTyped, PkiTypeOK, pkiVars, ocservVars
  <1> QED BY <1>5, <1>7, <1>8 DEF IInv

--------------------------------------------------------------------------------
(* DeleteClient *)

LEMMA DeleteClientIInv ==
    ASSUME IInv, NEW r \in Requests, NEW n \in Names, NEW cn \in CNs, DeleteClient(r, n, cn)
    PROVE  IInv'
  <1> DEFINE rec == mem.cli[n][cn]
             pc == IF rec.serial # None THEN "revoke" ELSE AfterReload(rec)
             q == [Idle EXCEPT !.pc = pc, !.n = n, !.cn = cn, !.rec = rec]
  <1>1. rec \in ClientRecs
    BY DEF DeleteClient, IInv, RecordsInv, Sound, Data
  <1>2. pc \in {"revoke", "users", "unpin"} /\ (pc = "revoke" => rec.serial \in Serials)
    BY <1>1, RecType DEF AfterReload
  <1>3. req' = [req EXCEPT ![r] = q] /\ UNCHANGED <<storeVars, pkiVars>>
    BY DEF DeleteClient
  <1>4. RecordsInv' /\ pems' = pems /\ keys' = keys
    BY <1>3, PkiFrame DEF IInv, pkiVars
  <1>5. q \in RequestState /\ LocalsOK(q, pems, keys)
    <2> HIDE DEF rec, pc
    <2> QED BY <1>1, <1>2 DEF Idle, RequestState, PCs, Addrs, LocalsOK
  <1>6. RequestsInv'
    <2> HIDE DEF q
    <2> QED BY <1>3, <1>4, <1>5, OneMoves DEF IInv
  <1>7. FilesTyped'
    BY DEF DeleteClient, IInv, FilesTyped, PkiTypeOK, pkiVars, ocservVars
  <1> QED BY <1>4, <1>6, <1>7 DEF IInv

(* Where only the program counter is left to check. *)
Plain == {"truncate", "save", "crl", "sign", "reload", "users", "wipe", "rewrite", "unpin", "drop"}

LEMMA PlainMoves ==
    ASSUME RequestsInv, NEW r \in Requests, NEW pc \in Plain, req[r].pc \in Plain \cup {"revoke"},
           pems' = pems, keys' = keys, Goto(r, pc) \/ Leave(r, pc)
    PROVE  RequestsInv'
  <1> DEFINE q1 == [req[r] EXCEPT !.pc = pc]
             q2 == [req[r] EXCEPT !.pc = pc, !.pw = FALSE, !.snap = {}, !.users = {}]
  <1>1. req[r] \in RequestState /\ LocalsOK(req[r], pems, keys)
    BY DEF RequestsInv
  <1>2. req[r].n \in Names /\ req[r].cn \in CNs /\ req[r].rec \in ClientRecs
    BY <1>1 DEF LocalsOK, Plain
  <1>3. LocalsOK(q1, pems', keys') /\ LocalsOK(q2, pems', keys')
    BY <1>1, <1>2 DEF LocalsOK, RequestState, Plain
  <1>4. pc \in PCs
    BY DEF Plain, PCs
  <1> QED BY <1>3, <1>4, GotoMoves, LeaveMoves

LEMMA LoadRevokedIInv == ASSUME IInv, NEW r \in Requests, LoadRevoked(r) PROVE IInv'
  <1> DEFINE s == req[r].rec.serial
             set == revoked[req[r].n]
             q == [req[r] EXCEPT !.pc = "truncate", !.snap = set \cup {s}]
  <1>1. RecordsInv' /\ pems' = pems /\ keys' = keys
    BY PkiFrame DEF LoadRevoked, IInv, pkiVars
  <1>2. /\ req[r] \in RequestState /\ LocalsOK(req[r], pems, keys)
        /\ req[r].pc = "revoke" /\ s \in Serials /\ req[r].n \in Names
        /\ req[r].cn \in CNs /\ req[r].rec \in ClientRecs
    BY DEF LoadRevoked, IInv, RequestsInv, LocalsOK
  <1>3. set \in (SUBSET Serials) \cup {Garbled}
    BY <1>2 DEF IInv, FilesTyped, PkiTypeOK
  <1>4. RequestsInv'
    <2>1. CASE Return(r)
      BY <1>1, <2>1, ReturnMoves DEF IInv
    <2>2. CASE Goto(r, "reload")
      BY <1>1, <1>2, <2>2, PlainMoves DEF IInv, Plain
    <2>3. CASE set # Garbled /\ req' = [req EXCEPT ![r].pc = "truncate", ![r].snap = set \cup {s}]
      <3>1. set \cup {s} \in SUBSET Serials
        <4>1. set # Garbled
          BY <2>3
        <4> HIDE DEF s, set
        <4> QED BY <1>2, <1>3, <4>1
      <3>2. q \in RequestState /\ LocalsOK(q, pems', keys') /\ req' = [req EXCEPT ![r] = q]
        <4> HIDE DEF s, set
        <4> QED BY <1>2, <2>3, <3>1 DEF RequestState, PCs, LocalsOK
      <3> QED BY <1>1, <3>2, OneMoves DEF IInv
    <2> QED BY <2>1, <2>2, <2>3 DEF LoadRevoked
  <1>5. FilesTyped'
    BY DEF LoadRevoked, IInv, FilesTyped, PkiTypeOK, pkiVars, ocservVars
  <1> QED BY <1>1, <1>4, <1>5 DEF IInv

(* The four writes of a revocation. *)
LEMMA RevocationIInv ==
    ASSUME IInv, NEW r \in Requests,
           SaveRevokedOpen(r) \/ SaveRevokedWrite(r) \/ RegenCRLOpen(r) \/ RegenCRLWrite(r)
    PROVE  IInv'
  <1> USE DEF SaveRevokedOpen, SaveRevokedWrite, RegenCRLOpen, RegenCRLWrite, Revoking,
              TruncateRevoked, WriteRevoked, TruncateCRL, WriteCRL
  <1>1. RecordsInv' /\ pems' = pems /\ keys' = keys
    BY PkiFrame DEF IInv
  <1>2. /\ req[r] \in RequestState /\ req[r].snap \in SUBSET Serials
        /\ req[r].pc \in {"truncate", "save", "crl", "sign"} /\ req[r].n \in Names
    BY DEF IInv, RequestsInv, LocalsOK, RequestState
  <1>3. RequestsInv'
    BY <1>1, <1>2, PlainMoves DEF IInv, Plain
  <1>4. PkiTypeOK'
    <2>0. PkiTypeOK
      BY DEF IInv, FilesTyped
    <2>1. CASE SaveRevokedOpen(r)
      BY <1>2, <2>0, <2>1 DEF PkiTypeOK
    <2>2. CASE SaveRevokedWrite(r)
      BY <1>2, <2>0, <2>2 DEF PkiTypeOK
    <2>3. CASE RegenCRLOpen(r)
      BY <1>2, <2>0, <2>3 DEF PkiTypeOK
    <2>4. CASE RegenCRLWrite(r)
      BY <1>2, <2>0, <2>4 DEF PkiTypeOK
    <2> QED BY <2>1, <2>2, <2>3, <2>4
  <1>5. FilesTyped'
    BY <1>4 DEF IInv, FilesTyped, ocservVars
  <1> QED BY <1>1, <1>3, <1>5 DEF IInv

LEMMA ReloadIInv == ASSUME IInv, NEW r \in Requests, Reload(r) PROVE IInv'
  <1>1. RecordsInv' /\ pems' = pems /\ keys' = keys
    BY PkiFrame DEF Reload, IInv, pkiVars
  <1>2. RequestsInv'
    BY <1>1, PlainMoves DEF Reload, AfterReload, IInv, Plain
  <1>3. FilesTyped'
    BY DEF Reload, IInv, FilesTyped, PkiTypeOK, pkiVars
  <1> QED BY <1>1, <1>2, <1>3 DEF IInv

LEMMA ReadUsersIInv == ASSUME IInv, NEW r \in Requests, ReadUsers(r) PROVE IInv'
  <1> DEFINE users == passwd[req[r].n] \ {req[r].cn}
             q == [req[r] EXCEPT !.pc = "wipe", !.users = users]
  <1>1. RecordsInv' /\ pems' = pems /\ keys' = keys
    BY PkiFrame DEF ReadUsers, IInv, pkiVars
  <1>2. /\ req[r] \in RequestState /\ LocalsOK(req[r], pems, keys)
        /\ req[r].pc = "users" /\ req[r].n \in Names
        /\ req[r].cn \in CNs /\ req[r].rec \in ClientRecs
    BY DEF ReadUsers, IInv, RequestsInv, LocalsOK
  <1>3. users \in SUBSET CNs
    BY <1>2 DEF IInv, FilesTyped
  <1>4. RequestsInv'
    <2>1. CASE Goto(r, "unpin")
      BY <1>1, <1>2, <2>1, PlainMoves DEF IInv, Plain
    <2>2. CASE req' = [req EXCEPT ![r].pc = "wipe", ![r].users = users]
      <3>1. q \in RequestState /\ LocalsOK(q, pems', keys') /\ req' = [req EXCEPT ![r] = q]
        <4> HIDE DEF users
        <4> QED BY <1>2, <1>3, <2>2 DEF RequestState, PCs, LocalsOK
      <3> QED BY <1>1, <3>1, OneMoves DEF IInv
    <2> QED BY <2>1, <2>2 DEF ReadUsers
  <1>5. FilesTyped'
    BY DEF ReadUsers, IInv, FilesTyped, PkiTypeOK, pkiVars, ocservVars
  <1> QED BY <1>1, <1>4, <1>5 DEF IInv

LEMMA WriteUsersIInv ==
    ASSUME IInv, NEW r \in Requests, WipeUsers(r) \/ RewriteUsers(r)
    PROVE  IInv'
  <1>1. RecordsInv' /\ pems' = pems /\ keys' = keys
    BY PkiFrame DEF WipeUsers, RewriteUsers, IInv, pkiVars
  <1>2. /\ req[r] \in RequestState /\ req[r].users \in SUBSET CNs
        /\ req[r].pc \in {"wipe", "rewrite"} /\ req[r].n \in Names
    BY DEF WipeUsers, RewriteUsers, IInv, RequestsInv, LocalsOK, RequestState
  <1>3. RequestsInv'
    BY <1>1, <1>2, PlainMoves DEF WipeUsers, RewriteUsers, IInv, Plain
  <1>4. passwd' \in [Names -> SUBSET CNs]
    BY <1>2 DEF WipeUsers, RewriteUsers, IInv, FilesTyped
  <1>5. FilesTyped'
    BY <1>4 DEF WipeUsers, RewriteUsers, IInv, FilesTyped, PkiTypeOK, pkiVars, ocservVars
  <1> QED BY <1>1, <1>3, <1>5 DEF IInv

LEMMA UnpinIInv == ASSUME IInv, NEW r \in Requests, Unpin(r) PROVE IInv'
  <1> DEFINE n == req[r].n
             cn == req[r].cn
  <1>1. RecordsInv' /\ pems' = pems /\ keys' = keys
    BY PkiFrame DEF Unpin, IInv, pkiVars
  <1>2. req[r].pc = "unpin" /\ n \in Names /\ cn \in CNs
    BY DEF Unpin, IInv, RequestsInv, LocalsOK
  <1>3. RequestsInv'
    BY <1>1, <1>2, PlainMoves DEF Unpin, IInv, Plain
  <1>4. pins' \in [Names -> [CNs -> PinFiles]]
    <2>1. pins' = pins \/ pins' = [pins EXCEPT ![n][cn] = NoIP]
      BY DEF Unpin
    <2>2. pins \in [Names -> [CNs -> PinFiles]] /\ NoIP \in PinFiles
      BY DEF IInv, FilesTyped, PinFiles, Addrs
    <2> HIDE DEF n, cn
    <2> QED BY <1>2, <2>1, <2>2
  <1>5. FilesTyped'
    BY <1>4 DEF Unpin, IInv, FilesTyped, PkiTypeOK, pkiVars, ocservVars
  <1> QED BY <1>1, <1>3, <1>5 DEF IInv

(* Removing a client, or an instance with its clients, leaves the rest sound. *)
LEMMA RemoveSound ==
    ASSUME NEW P, NEW K, NEW d, Sound(d, P, K), NEW n \in Names
    PROVE  /\ Sound(WithoutInstance(d, n), P, K)
           /\ \A cn \in CNs : Sound(WithoutClient(d, n, cn), P, K)
  <1>1. ASSUME NEW e, e = WithoutInstance(d, n) \/ \E cn \in CNs : e = WithoutClient(d, n, cn)
        PROVE  Sound(e, P, K)
    <2>1. e \in Data /\ Rooted(e)
      BY <1>1, MutationsTyped, InstanceMutationsTyped, MutationsRooted DEF Sound
    <2>2. ASSUME NEW m \in Names, NEW k \in CNs
          PROVE  e.cli[m][k] \in {d.cli[m][k], Absent}
      <3>1. CASE e = WithoutInstance(d, n)
        BY <3>1, <2>2 DEF Sound, Data, WithoutInstance
      <3>2. ASSUME NEW cn \in CNs, e = WithoutClient(d, n, cn)
            PROVE  e.cli[m][k] \in {d.cli[m][k], Absent}
        BY <3>2, <2>2 DEF Sound, Data, WithoutClient
      <3> QED BY <1>1, <3>1, <3>2
    <2>3. PinnableIn(e) /\ \A m \in Names, k \in CNs :
              e.cli[m][k] # Absent => Backed(m, k, e.cli[m][k], P, K)
      BY <2>2 DEF Sound, PinnableIn
    <2> QED BY <2>1, <2>3 DEF Sound
  <1> QED BY <1>1

LEMMA DropIInv ==
    ASSUME IInv, NEW r \in Requests, NEW ok \in BOOLEAN, Drop(r, ok)
    PROVE  IInv'
  <1>1. /\ LocalsOK(req[r], pems, keys) /\ req[r].pc = "drop"
        /\ UNCHANGED <<pkiVars, passwd, pins, ocservVars>> /\ Return(r)
        /\ pems' = pems /\ keys' = keys
    BY DEF Drop, IInv, RequestsInv, pkiVars
  <1>2. RequestsInv'
    BY <1>1, ReturnMoves DEF IInv
  <1>3. gone' \in [Names -> SUBSET Serials]
    <2>1. req[r].n \in Names /\ req[r].rec.serial \in Serials \cup {None}
      BY <1>1, RecType DEF LocalsOK
    <2>2. gone \in [Names -> SUBSET Serials]
      BY DEF IInv, FilesTyped
    <2> QED BY <2>1, <2>2 DEF Drop
  <1>4. FilesTyped'
    BY <1>1, <1>3 DEF IInv, FilesTyped, PkiTypeOK, pkiVars, ocservVars
  <1>5. Sound(WithoutClient(mem, req[r].n, req[r].cn), pems, keys)
    BY <1>1, RemoveSound DEF LocalsOK, IInv, RecordsInv
  <1>6. mem' = WithoutClient(mem, req[r].n, req[r].cn) /\ (disk' = disk \/ disk' = mem')
    BY DEF Drop, DB!Commit
  <1>7. RecordsInv'
    BY <1>1, <1>5, <1>6 DEF IInv, RecordsInv, OneNamePerSerial
  <1> QED BY <1>2, <1>4, <1>7 DEF IInv

--------------------------------------------------------------------------------
(* Renders, failures and early returns *)

LEMMA RenderIInv ==
    ASSUME IInv, NEW r \in Requests, NEW n \in Names, Render(r, n)
    PROVE  IInv'
  <1> DEFINE q == [Idle EXCEPT !.pc = "sync", !.n = n, !.todo = Addresses(n)]
  <1>1. RecordsInv' /\ pems' = pems /\ keys' = keys
    BY PkiFrame DEF Render, IInv, pkiVars
  <1>2. Addresses(n) \in [CNs -> Addrs]
    <2>1. ASSUME NEW cn \in CNs
          PROVE  mem.cli[n][cn] = Absent \/ mem.cli[n][cn].ip \in Addrs
      BY RecType DEF IInv, RecordsInv, Sound, Data
    <2> QED BY <2>1 DEF Addresses, Addrs
  <1>3. q \in RequestState /\ LocalsOK(q, pems, keys)
    BY <1>2 DEF Idle, RequestState, PCs, LocalsOK
  <1>4. req' = [req EXCEPT ![r] = q]
    BY DEF Render
  <1>5. RequestsInv'
    <2> HIDE DEF q
    <2> QED BY <1>1, <1>3, <1>4, OneMoves DEF IInv
  <1>6. FilesTyped'
    BY DEF Render, IInv, FilesTyped, PkiTypeOK, pkiVars, ocservVars
  <1> QED BY <1>1, <1>5, <1>6 DEF IInv

(* A render is done with client cn, one way or another. *)
LEMMA RenderGoesOn ==
    ASSUME IInv, NEW r \in Requests, Rendering(r), NEW cn \in CNs,
           \/ req' = [req EXCEPT ![r].pc = "sync", ![r].todo[cn] = NoIP]
           \/ req[r].pc = "sync" /\ req' = [req EXCEPT ![r].todo[cn] = NoIP]
    PROVE  \E q \in RequestState :
              /\ req' = [req EXCEPT ![r] = q]
              /\ q.pc = "sync" /\ q.n = req[r].n /\ q.n \in Names
              /\ q.todo = [req[r].todo EXCEPT ![cn] = NoIP]
  <1> PICK o : o = req[r]
    OBVIOUS
  <1>1. o \in RequestState /\ o.n \in Names /\ o.todo \in [CNs -> Addrs]
    BY DEF IInv, RequestsInv, LocalsOK, RequestState, Rendering
  <1>2. PICK todo : todo = [o.todo EXCEPT ![cn] = NoIP]
    OBVIOUS
  <1>3. todo \in [CNs -> Addrs]
    BY <1>1, <1>2 DEF Addrs
  <1>4. PICK q : q = [o EXCEPT !.pc = "sync", !.todo = todo]
    OBVIOUS
  <1>5. q \in RequestState /\ q.pc = "sync" /\ q.n = o.n /\ q.todo = todo
    BY <1>1, <1>3, <1>4 DEF RequestState, PCs
  <1>6. CASE req' = [req EXCEPT ![r].pc = "sync", ![r].todo[cn] = NoIP]
    <2>1. req' = [req EXCEPT ![r] = q]
      BY <1>1, <1>2, <1>4, <1>6 DEF RequestState
    <2> QED BY <1>1, <1>2, <1>5, <2>1
  <1>7. CASE req[r].pc = "sync" /\ req' = [req EXCEPT ![r].todo[cn] = NoIP]
    <2>1. req' = [req EXCEPT ![r] = [o EXCEPT !.todo = todo]]
      BY <1>2, <1>7
    <2>2. [o EXCEPT !.todo = todo] = q
      BY <1>1, <1>4, <1>7 DEF RequestState
    <2> QED BY <1>1, <1>2, <1>5, <2>1, <2>2
  <1> QED BY <1>6, <1>7

LEMMA RenderGoesOnIInv ==
    ASSUME IInv, NEW r \in Requests, Rendering(r), NEW cn \in CNs,
           pems' = pems, keys' = keys,
           \/ req' = [req EXCEPT ![r].pc = "sync", ![r].todo[cn] = NoIP]
           \/ req[r].pc = "sync" /\ req' = [req EXCEPT ![r].todo[cn] = NoIP]
    PROVE  RequestsInv'
  <1>1. PICK q \in RequestState :
            req' = [req EXCEPT ![r] = q] /\ q.pc = "sync" /\ q.n \in Names
    BY RenderGoesOn
  <1>2. LocalsOK(q, pems', keys')
    BY <1>1 DEF LocalsOK
  <1> QED BY <1>1, <1>2, OneMoves DEF IInv

LEMMA SyncIInv ==
    ASSUME IInv, NEW r \in Requests,
           (\E cn \in CNs : SyncOpen(r, cn)) \/ SyncWrite(r)
    PROVE  IInv'
  <1>1. UNCHANGED <<storeVars, pkiVars, passwd, ocservVars, gone>>
    BY DEF SyncOpen, SyncWrite
  <1>2. RecordsInv' /\ pems' = pems /\ keys' = keys
    BY <1>1, PkiFrame DEF IInv, pkiVars
  <1>3. Rendering(r)
    BY DEF SyncOpen, SyncWrite, Rendering
  <1>4. req[r] \in RequestState /\ req[r].n \in Names /\ req[r].todo \in [CNs -> Addrs]
    BY <1>3 DEF Rendering, IInv, RequestsInv, LocalsOK, RequestState
  <1>5. RequestsInv' /\ \/ pins' = pins
                        \/ \E cn \in CNs, x \in PinFiles : pins' = [pins EXCEPT ![req[r].n][cn] = x]
    <2>1. ASSUME NEW cn \in CNs, SyncOpen(r, cn), Pinnable(cn, req[r].todo[cn])
          PROVE  RequestsInv' /\ pins' = [pins EXCEPT ![req[r].n][cn] = TornPin]
      <3> PICK q : q = [req[r] EXCEPT !.pc = "syncWrite", !.cn = cn]
        OBVIOUS
      <3>1. /\ q \in RequestState /\ q.pc = "syncWrite" /\ q.cn = cn /\ q.n = req[r].n
            /\ q.todo = req[r].todo /\ req' = [req EXCEPT ![r] = q]
        BY <1>4, <2>1 DEF RequestState, PCs, SyncOpen
      <3>2. LocalsOK(q, pems', keys')
        BY <1>4, <2>1, <3>1 DEF LocalsOK, SyncOpen
      <3> QED BY <1>2, <2>1, <3>1, <3>2, OneMoves DEF SyncOpen, IInv
    <2>2. ASSUME NEW cn \in CNs, SyncOpen(r, cn), ~Pinnable(cn, req[r].todo[cn])
          PROVE  RequestsInv' /\ pins' = pins
      BY <1>2, <1>3, <2>2, RenderGoesOnIInv DEF SyncOpen
    <2>3. ASSUME SyncWrite(r)
          PROVE  /\ RequestsInv'
                 /\ \E cn \in CNs, x \in PinFiles : pins' = [pins EXCEPT ![req[r].n][cn] = x]
      <3>1. PICK cn \in CNs : cn = req[r].cn /\ req[r].todo[cn] \in PinFiles
        BY <1>4, <2>3 DEF SyncWrite, IInv, RequestsInv, LocalsOK, PinFiles
      <3> QED BY <1>2, <1>3, <2>3, <3>1, RenderGoesOnIInv DEF SyncWrite, Listed
    <2>4. TornPin \in PinFiles
      BY DEF PinFiles
    <2> QED BY <2>1, <2>2, <2>3, <2>4
  <1>6. pins' \in [Names -> [CNs -> PinFiles]]
    BY <1>4, <1>5, OnePinTyped DEF IInv, FilesTyped
  <1>7. FilesTyped'
    BY <1>1, <1>6 DEF IInv, FilesTyped, PkiTypeOK, pkiVars, ocservVars
  <1> QED BY <1>2, <1>5, <1>7 DEF IInv

LEMMA ReturnIInv ==
    ASSUME IInv, NEW r \in Requests, IssueRefused(r) \/ SyncDone(r) \/ Fails(r)
    PROVE  IInv'
  <1>1. /\ UNCHANGED <<storeVars, ca, pems, keys, crl, passwd, pins, ocservVars, gone>>
        /\ Return(r)
    BY DEF IssueRefused, SyncDone, Fails, pkiVars
  <1>2. RecordsInv' /\ pems' = pems /\ keys' = keys
    BY <1>1, PkiFrame DEF IInv
  <1>3. RequestsInv'
    BY <1>1, <1>2, ReturnMoves DEF IInv
  <1>4. revoked' \in [Names -> (SUBSET Serials) \cup {Garbled}]
    <2>1. \/ revoked' = revoked
          \/ revoked' = [revoked EXCEPT ![req[r].n] = Garbled]
      BY DEF IssueRefused, SyncDone, Fails, pkiVars
    <2> QED BY <2>1 DEF IInv, FilesTyped, PkiTypeOK
  <1>5. FilesTyped'
    BY <1>1, <1>4 DEF IInv, FilesTyped, PkiTypeOK, ocservVars
  <1> QED BY <1>2, <1>3, <1>5 DEF IInv

LEMMA FailsUnnoticedIInv == ASSUME IInv, NEW r \in Requests, FailsUnnoticed(r) PROVE IInv'
  <1>1. RecordsInv' /\ pems' = pems /\ keys' = keys
    BY PkiFrame DEF FailsUnnoticed, IInv, pkiVars
  <1>2. RequestsInv'
    <2>1. CASE \E pc \in {"unpin", "drop"} : req[r].pc \in Plain /\ Goto(r, pc)
      BY <1>1, <2>1, PlainMoves DEF IInv, Plain
    <2>2. CASE req[r].pc = "sync" /\ \E cn \in CNs : req' = [req EXCEPT ![r].todo[cn] = NoIP]
      BY <1>1, <2>2, RenderGoesOnIInv DEF Rendering
    <2>3. CASE req[r].pc = "syncWrite" /\ Listed(r)
      <3>1. req[r].cn \in CNs
        BY <2>3 DEF IInv, RequestsInv, LocalsOK
      <3> QED BY <1>1, <2>3, <3>1, RenderGoesOnIInv DEF Rendering, Listed
    <2> QED BY <2>1, <2>2, <2>3 DEF FailsUnnoticed, Plain, Touches, Rendering
  <1>3. FilesTyped'
    BY DEF FailsUnnoticed, IInv, FilesTyped, PkiTypeOK, pkiVars, ocservVars
  <1> QED BY <1>1, <1>2, <1>3 DEF IInv

--------------------------------------------------------------------------------
(* What happens around the handlers *)

LEMMA RequestsFrame ==
    ASSUME RequestsInv, pems' = pems, keys' = keys, req' = req
    PROVE  RequestsInv'
  BY DEF RequestsInv

LEMMA CreateInstanceIInv ==
    ASSUME IInv, NEW n \in Names, NEW rec \in InstanceRecs, NEW caIfEmpty, NEW ok,
           CreateInstance(n, rec, caIfEmpty, ok)
    PROVE  IInv'
  <1>1. /\ pems' = pems /\ keys' = keys /\ revoked' = revoked
        /\ UNCHANGED <<req, passwd, pins, ocservVars, gone>>
        /\ ca' = ca \cup {n} \/ ca' = ca
        /\ crl' = crl \/ crl' = [crl EXCEPT ![n] = {}]
        /\ mem' = WithInstance(mem, n, rec) /\ (disk' = mem' \/ disk' = disk)
    BY DEF CreateInstance, EnsureCA, pkiVars, DB!Commit
  <1>2. RequestsInv'
    BY <1>1, RequestsFrame DEF IInv
  <1>3. PkiTypeOK'
    BY <1>1 DEF IInv, FilesTyped, PkiTypeOK
  <1>4. FilesTyped'
    BY <1>1, <1>3 DEF IInv, FilesTyped, ocservVars
  <1>5. Sound(mem', pems, keys)
    <2>1. mem \in Data /\ Rooted(mem)
      BY DEF IInv, RecordsInv, Sound
    <2>2. mem' \in Data /\ Rooted(mem')
      BY <1>1, <2>1, InstanceMutationsTyped, MutationsRooted
    <2>3. mem'.cli = mem.cli
      BY <1>1, <2>1 DEF Data, WithInstance
    <2> QED BY <2>2, <2>3 DEF IInv, RecordsInv, Sound, PinnableIn
  <1>6. RecordsInv'
    BY <1>1, <1>5 DEF IInv, RecordsInv, OneNamePerSerial
  <1> QED BY <1>2, <1>4, <1>6 DEF IInv

LEMMA DeleteInstanceIInv ==
    ASSUME IInv, NEW n \in Names, NEW ok, DeleteInstance(n, ok)
    PROVE  IInv'
  <1>1. /\ UNCHANGED <<pkiVars, req, passwd, pins, inForce, gone>>
        /\ pems' = pems /\ keys' = keys
        /\ mem' = WithoutInstance(mem, n) /\ (disk' = mem' \/ disk' = disk)
    BY DEF DeleteInstance, pkiVars, DB!Commit
  <1>2. RequestsInv'
    BY <1>1, RequestsFrame DEF IInv
  <1>3. FilesTyped'
    BY <1>1 DEF DeleteInstance, IInv, FilesTyped, PkiTypeOK, pkiVars
  <1>4. RecordsInv'
    BY <1>1, RemoveSound DEF IInv, RecordsInv, OneNamePerSerial
  <1> QED BY <1>2, <1>3, <1>4 DEF IInv

LEMMA OcservIInv ==
    ASSUME IInv, NEW n \in Names, OcservStarts(n) \/ OcservReloads(n) \/ OcservExits(n)
    PROVE  IInv'
  <1>1. /\ UNCHANGED <<storeVars, pkiVars, req, passwd, pins, gone>>
        /\ pems' = pems /\ keys' = keys
    BY DEF OcservStarts, OcservReloads, OcservExits, pkiVars
  <1>2. RequestsInv' /\ RecordsInv'
    BY <1>1, RequestsFrame, PkiFrame DEF IInv
  <1>3. inForce' \in [Names -> SUBSET Serials]
    <2>1. inForce \in [Names -> SUBSET Serials] /\ crl[n] \in (SUBSET Serials) \cup {Torn}
      BY DEF IInv, FilesTyped, PkiTypeOK
    <2>2. inForce' = inForce \/ LoadsCRL(n)
      BY DEF OcservStarts, OcservReloads, OcservExits
    <2> QED BY <2>1, <2>2 DEF LoadsCRL
  <1>4. running' \subseteq Names /\ hup' \subseteq running'
    BY DEF IInv, FilesTyped, OcservStarts, OcservReloads, OcservExits
  <1>5. FilesTyped'
    BY <1>1, <1>3, <1>4 DEF IInv, FilesTyped, PkiTypeOK, pkiVars
  <1> QED BY <1>2, <1>5 DEF IInv

LEMMA RestartIInv == ASSUME IInv, Restart PROVE IInv'
  <1>1. /\ UNCHANGED <<disk, pkiVars, passwd, gone>> /\ mem' = disk
        /\ pems' = pems /\ keys' = keys
    BY DEF Restart, pkiVars
  <1>2. RequestsInv'
    BY <1>1, IdleTyped DEF Restart, RequestsInv, LocalsOK
  <1>3. RecordsInv'
    BY <1>1 DEF IInv, RecordsInv, OneNamePerSerial
  <1>4. pins' \in [Names -> [CNs -> PinFiles]]
    BY DEF Restart
  <1>5. inForce' \in [Names -> SUBSET Serials]
    BY DEF Restart, IInv, FilesTyped, PkiTypeOK
  <1>6. running' \subseteq Names /\ hup' \subseteq running'
    BY DEF Restart
  <1>7. FilesTyped'
    BY <1>1, <1>4, <1>5, <1>6 DEF IInv, FilesTyped, PkiTypeOK, pkiVars
  <1> QED BY <1>2, <1>3, <1>7 DEF IInv

--------------------------------------------------------------------------------
LEMMA ArriveIInv == ASSUME IInv, NEW r \in Requests, Arrive(r) PROVE IInv'
  BY CreateClientIInv, PatchClientIInv, DeleteClientIInv, RenderIInv DEF Arrive, Addrs

LEMMA StepIInv == ASSUME IInv, NEW r \in Requests, Step(r) PROVE IInv'
  <1>1. ASSUME NEW ok \in Outcomes, Put(r, ok) \/ Drop(r, ok) PROVE IInv'
    BY <1>1, PutIInv, DropIInv DEF Outcomes
  <1> QED BY <1>1, ExistsIInv, IssuePemIInv, IssueKeyIInv, SetPasswordIInv, PinIInv,
             LoadRevokedIInv, RevocationIInv, ReloadIInv, ReadUsersIInv, WriteUsersIInv,
             UnpinIInv, SyncIInv, ReturnIInv, FailsUnnoticedIInv DEF Step

LEMMA EnvironmentIInv == ASSUME IInv, Environment PROVE IInv'
  BY CreateInstanceIInv, DeleteInstanceIInv, OcservIInv, RestartIInv DEF Environment

LEMMA StutterIInv == ASSUME IInv, UNCHANGED vars PROVE IInv'
  <1>1. UNCHANGED <<storeVars, pkiVars, req, passwd, pins, ocservVars, gone>>
        /\ pems' = pems /\ keys' = keys
    BY DEF vars, pkiVars
  <1>2. RequestsInv' /\ RecordsInv'
    BY <1>1, RequestsFrame, PkiFrame DEF IInv
  <1>3. FilesTyped'
    BY <1>1 DEF IInv, FilesTyped, PkiTypeOK, pkiVars, ocservVars
  <1> QED BY <1>2, <1>3 DEF IInv

LEMMA SpecIInv == Spec => []IInv
  <1>1. IInv /\ [Next]_vars => IInv'
    BY ArriveIInv, StepIInv, EnvironmentIInv, StutterIInv DEF Next
  <1> QED BY <1>1, InitIInv, PTL DEF Spec

(* The records, the files, the locals of every handler and the state of every *)
(* ocserv keep their types.                                                   *)
THEOREM ClientsTypeCorrect == Spec => []TypeOK
  BY SpecIInv, IInvImplies, PTL

(* However handlers, DeleteInstance, failures and restarts interleave, no client *)
(* is recorded without its instance: PutClient looks at the instance again, in   *)
(* the step that stores the record.                                              *)
THEOREM NoClientWithoutInstance == Spec => []ClientsHaveInstance
  BY SpecIInv, IInvImplies, PTL

(* A recorded serial always has its certificate and key, issued to that client: *)
(* IssueClient writes both before CreateClient can reach PutClient, a patch     *)
(* carries the serial it read, and no file or serial is ever used twice.        *)
THEOREM BundleAlwaysOnDisk == Spec => []BundleOnDisk
  BY SpecIInv, IInvImplies, PTL

(* Every recorded name and address was accepted by the pin writer before it was *)
(* recorded, so no rebuild ever skips a client.                                 *)
THEOREM RecordsAlwaysPinnable == Spec => []RecordsPinnable
  BY SpecIInv, IInvImplies, PTL

--------------------------------------------------------------------------------
(* The handlers as users of the store: whatever a step writes is what one       *)
(* mutation makes of the records, and a restart continues from the disk.        *)

LEMMA SameMutations == \A d : DB!Mutated(d) = Mutated(d)
  <1>1. ASSUME NEW d PROVE DB!Mutated(d) = Mutated(d)
    BY DEF DB!Mutated, Mutated, DB!WithInstance, WithInstance, DB!WithoutInstance,
           WithoutInstance, DB!WithClient, WithClient, DB!WithoutClient, WithoutClient,
           DB!Known, Known
  <1> QED BY <1>1

LEMMA CommitIsMutate ==
    ASSUME NEW d \in Mutated(mem), NEW ok \in BOOLEAN, DB!Commit(d, ok)
    PROVE  DB!Next
  <1>1. DB!Mutate
    BY SameMutations DEF DB!Mutate
  <1> QED BY <1>1 DEF DB!Next

(* A request that arrives finds its handler idle and changes nothing else. *)
LEMMA ArriveIs ==
    ASSUME NEW r \in Requests, Arrive(r)
    PROVE  /\ req[r].pc = "idle"
           /\ UNCHANGED <<storeVars, pkiVars, passwd, pins, ocservVars, gone>>
  <1> PICK n \in Names :
        \/ \E cn \in CNs, mode \in Modes, ip \in IPs \cup {NoIP}, pw \in BOOLEAN :
              CreateClient(r, n, cn, mode, ip, pw)
        \/ \E cn \in CNs, ip \in IPs \cup {NoIP}, pw \in BOOLEAN : PatchClient(r, n, cn, ip, pw)
        \/ \E cn \in CNs : DeleteClient(r, n, cn)
        \/ Render(r, n)
    BY DEF Arrive
  <1>1. \A cn \in CNs, mode \in Modes, ip \in IPs \cup {NoIP}, pw \in BOOLEAN :
           CreateClient(r, n, cn, mode, ip, pw)
              => /\ req[r].pc = "idle"
                 /\ UNCHANGED <<storeVars, pkiVars, passwd, pins, ocservVars, gone>>
    BY DEF CreateClient, Admitted
  <1>2. \A cn \in CNs, ip \in IPs \cup {NoIP}, pw \in BOOLEAN :
           PatchClient(r, n, cn, ip, pw)
              => /\ req[r].pc = "idle"
                 /\ UNCHANGED <<storeVars, pkiVars, passwd, pins, ocservVars, gone>>
    BY DEF PatchClient, Admitted
  <1>3. (\E cn \in CNs : DeleteClient(r, n, cn)) \/ Render(r, n)
              => /\ req[r].pc = "idle"
                 /\ UNCHANGED <<storeVars, pkiVars, passwd, pins, ocservVars, gone>>
    BY DEF DeleteClient, Render, Admitted
  <1> QED BY <1>1, <1>2, <1>3

(* Of a handler's steps only PutClient and DeleteClient change the records. *)
LEMMA OthersLeaveStore ==
    ASSUME NEW r \in Requests, Step(r), ~\E ok \in Outcomes : Put(r, ok) \/ Drop(r, ok)
    PROVE  UNCHANGED storeVars
  BY DEF Step, Exists, IssuePem, IssueKey, IssueRefused, SetPassword, PinRefused, PinOpen,
         PinWrite, LoadRevoked, SaveRevokedOpen, SaveRevokedWrite, RegenCRLOpen, RegenCRLWrite,
         Revoking, Reload, ReadUsers, WipeUsers, RewriteUsers, Unpin, SyncOpen, SyncWrite,
         SyncDone, Fails, FailsUnnoticed

LEMMA InitIsStoreInit == Init => DB!Init
  BY DEF Init, DB!Init, DB!Empty, Empty

LEMMA NextIsStoreNext == ASSUME IInv, [Next]_vars PROVE [DB!Next]_(DB!vars)
  <1> USE DEF DB!vars, DB!Empty
  <1>1. mem \in Data
    BY DEF IInv, RecordsInv, Sound
  <1>2. ASSUME UNCHANGED storeVars PROVE UNCHANGED DB!vars
    BY <1>2 DEF storeVars
  <1>3. ASSUME NEW r \in Requests, Arrive(r) PROVE UNCHANGED DB!vars
    BY <1>2, <1>3, ArriveIs
  <1>4. ASSUME NEW r \in Requests, NEW ok \in BOOLEAN, Put(r, ok) PROVE [DB!Next]_(DB!vars)
    <2>1. LocalsOK(req[r], pems, keys) /\ req[r].pc = "put"
      BY <1>4 DEF Put, IInv, RequestsInv
    <2>2. ASSUME Known(mem, req[r].n)
          PROVE  WithClient(mem, req[r].n, req[r].cn, req[r].rec) \in Mutated(mem)
      BY <1>1, <2>1, <2>2, MutatedHas DEF LocalsOK
    <2> QED BY <1>2, <1>4, <2>2, CommitIsMutate DEF Put
  <1>5. ASSUME NEW r \in Requests, NEW ok \in BOOLEAN, Drop(r, ok) PROVE [DB!Next]_(DB!vars)
    <2>1. LocalsOK(req[r], pems, keys) /\ req[r].pc = "drop"
      BY <1>5 DEF Drop, IInv, RequestsInv
    <2>2. WithoutClient(mem, req[r].n, req[r].cn) \in Mutated(mem)
      BY <1>1, <2>1, MutatedHas DEF LocalsOK
    <2> QED BY <1>5, <2>2, CommitIsMutate DEF Drop
  <1>6. ASSUME NEW r \in Requests, Step(r) PROVE [DB!Next]_(DB!vars)
    <2>1. CASE \E ok \in Outcomes : Put(r, ok) \/ Drop(r, ok)
      BY <1>4, <1>5, <2>1 DEF Outcomes
    <2>2. CASE ~\E ok \in Outcomes : Put(r, ok) \/ Drop(r, ok)
      BY <1>2, <1>6, <2>2, OthersLeaveStore
    <2> QED BY <2>1, <2>2
  <1>7. ASSUME Environment PROVE [DB!Next]_(DB!vars)
    <2>1. ASSUME NEW n \in Names, NEW rec \in InstanceRecs, NEW caIfEmpty,
                 NEW ok \in BOOLEAN, CreateInstance(n, rec, caIfEmpty, ok)
          PROVE  DB!Next
      BY <1>1, <2>1, MutatedHas, CommitIsMutate DEF CreateInstance
    <2>2. ASSUME NEW n \in Names, NEW ok \in BOOLEAN, DeleteInstance(n, ok) PROVE DB!Next
      BY <1>1, <2>2, MutatedHas, CommitIsMutate DEF DeleteInstance
    <2>3. ASSUME NEW n \in Names, OcservStarts(n) \/ OcservReloads(n) \/ OcservExits(n)
          PROVE  UNCHANGED DB!vars
      BY <1>2, <2>3 DEF OcservStarts, OcservReloads, OcservExits
    <2>4. ASSUME Restart PROVE DB!Next
      BY <2>4 DEF Restart, DB!Next, DB!Restart
    <2> QED BY <1>7, <2>1, <2>2, <2>3, <2>4 DEF Environment, Outcomes
  <1>8. ASSUME UNCHANGED vars PROVE UNCHANGED DB!vars
    BY <1>2, <1>8 DEF vars
  <1> QED BY <1>3, <1>6, <1>7, <1>8 DEF Next

(* No handler, failure or crash uses the record store in another way than         *)
(* AtomicStore.tla promises to serve: the daemon above the store may rely on it.  *)
THEOREM ClientsUseStoreAsPromised == Spec => StoreUsedAsPromised
  BY SpecIInv, InitIsStoreInit, NextIsStoreNext, PTL DEF Spec, StoreUsedAsPromised, DB!Spec

--------------------------------------------------------------------------------
(* Callers that keep apart what is about one client ("client", and for the pins *)
(* "pin" or "instance"): the serial of a client, and its pin, are then the      *)
(* business of one handler at a time, or of renders that all hold the address   *)
(* of the record. Until a handler opens the pin, the pin is the record's; then  *)
(* it is cut short, and then the address it is about to record. A crash leaves  *)
(* pins that no record explains, but the start-up that follows writes every     *)
(* recorded address of an enabled instance again, unless that fails as well.    *)

PinsApart == Discipline \in {"pin", "instance"} /\ ~(MayFail /\ MayCrash)

Renders(q) == q.pc \in {"sync", "syncWrite"}

(* The handler in state q is at work on client cn of n. *)
At(q, n, cn) ==
    /\ q.pc # "idle" /\ q.n = n
    /\ IF Renders(q) THEN PinsApart /\ q.todo[cn] # NoIP ELSE q.cn = cn

(* What the record says is in force, after a crash at least an address is. *)
Written(n, cn) == MayCrash => mem.inst[n].enabled /\ mem.cli[n][cn].ip # NoIP

PinOK(n, cn) ==
    PinsApart /\ mem.cli[n][cn] # Absent /\ Written(n, cn)
        => pins[n][cn] = mem.cli[n][cn].ip \/ (MayFail /\ pins[n][cn] = TornPin)

(* What a handler has made of that client, and what a render is making of it. *)
HandlerOK(n, cn, q) ==
    LET c == mem.cli[n][cn]
    IN  /\ q.pc \notin {"pinWrite", "put", "drop"} => PinOK(n, cn)
        /\ PinsApart /\ q.pc = "pinWrite" => pins[n][cn] = TornPin
        /\ PinsApart /\ q.pc = "put" => pins[n][cn] = q.rec.ip
        /\ q.pc \in {"issue", "key"} => c = Absent
        /\ q.pc \in {"passwd", "pin", "pinWrite", "put"} /\ c # Absent
              => c.serial = q.rec.serial

RenderOK(n, cn, q) ==
    LET c == mem.cli[n][cn]
    IN  /\ c # Absent /\ q.todo[cn] = c.ip
        /\ Written(n, cn) => pins[n][cn] \in {c.ip, TornPin}

WorkingOn(n, cn, q) ==
    /\ Renders(q) => RenderOK(n, cn, q)
    /\ ~Renders(q) => HandlerOK(n, cn, q)

ApartOn(n, cn) ==
    /\ \A r, q \in Requests :
          At(req[r], n, cn) /\ At(req[q], n, cn)
              => r = q \/ (Renders(req[r]) /\ Renders(req[q]))
    /\ (\A r \in Requests : ~At(req[r], n, cn)) => PinOK(n, cn)
    /\ \A r \in Requests : At(req[r], n, cn) => WorkingOn(n, cn, req[r])

ApartInv == \A n \in Names, cn \in CNs : ApartOn(n, cn)

Apart == Discipline # "none"

(* When no handler is at work on a client of an enabled instance, it gets the *)
(* address that is recorded for it: every render, and so the start-up after a *)
(* crash, writes the recorded addresses again (syncPerUserConfigs).           *)
AddressPinned ==
    \A n \in Names, cn \in CNs :
        /\ mem.cli[n][cn] # Absent /\ mem.cli[n][cn].ip # NoIP /\ mem.inst[n].enabled
        /\ \A r \in Busy(n) : cn \notin Touches(r)
        => pins[n][cn] = mem.cli[n][cn].ip

LEMMA ApartImplies ==
    ASSUME ApartInv, PinsApart
    PROVE  /\ MayFail = FALSE => AddressPinned
           /\ MayCrash = FALSE => PinFollowsRecord
  <1>1. ASSUME NEW n \in Names, NEW cn \in CNs, \A r \in Busy(n) : cn \notin Touches(r)
        PROVE  PinOK(n, cn)
    <2>1. \A r \in Requests : ~At(req[r], n, cn)
      BY <1>1 DEF Busy, Touches, Rendering, Renders, At
    <2> QED BY <2>1 DEF ApartInv, ApartOn
  <1>2. ASSUME MayFail = FALSE PROVE AddressPinned
    BY <1>1, <1>2, PinsApart DEF AddressPinned, PinOK, Written
  <1>3. ASSUME MayCrash = FALSE PROVE PinFollowsRecord
    BY <1>1, <1>3, PinsApart DEF PinFollowsRecord, PinOK, Written
  <1> QED BY <1>2, <1>3

LEMMA InitApart == Init => ApartInv
  BY IdleTyped DEF Init, Empty, ApartInv, ApartOn, PinOK, Written, At

(* A client whose record and pin stay as they are: what was true of it still is. *)
LEMMA ApartStays ==
    ASSUME NEW m, NEW k, mem'.inst[m] = mem.inst[m], mem'.cli[m][k] = mem.cli[m][k],
           PinsApart => pins'[m][k] = pins[m][k]
    PROVE  /\ Written(m, k)' <=> Written(m, k)
           /\ PinOK(m, k)' <=> PinOK(m, k)
           /\ PinsApart => \A q : RenderOK(m, k, q)' <=> RenderOK(m, k, q)
           /\ \A q : HandlerOK(m, k, q)' <=> HandlerOK(m, k, q)
  <1>1. Written(m, k)' <=> Written(m, k)
    BY DEF Written
  <1>2. PinOK(m, k)' <=> PinOK(m, k)
    BY <1>1 DEF PinOK
  <1>3. ASSUME NEW q PROVE HandlerOK(m, k, q)' <=> HandlerOK(m, k, q)
    BY <1>2 DEF HandlerOK
  <1>4. ASSUME NEW q, PinsApart PROVE RenderOK(m, k, q)' <=> RenderOK(m, k, q)
    BY <1>1, <1>4 DEF RenderOK
  <1> QED BY <1>1, <1>2, <1>3, <1>4

LEMMA WorkStays ==
    ASSUME NEW m, NEW k, mem'.inst[m] = mem.inst[m], mem'.cli[m][k] = mem.cli[m][k],
           PinsApart => pins'[m][k] = pins[m][k], NEW q, At(q, m, k), WorkingOn(m, k, q)
    PROVE  WorkingOn(m, k, q)'
  <1>1. Renders(q) => PinsApart
    BY DEF At
  <1> QED BY <1>1, ApartStays DEF WorkingOn

(* One handler goes from one state to the next: what it changes is about a      *)
(* client it is at work on, and it leaves each as it must. A render leaves the  *)
(* records alone and a pin at the recorded address or cut short.                *)
MovesApart(p, q, m, k) ==
    /\ ~At(p, m, k) => /\ mem'.cli[m][k] = mem.cli[m][k]
                       /\ PinsApart => pins'[m][k] = pins[m][k]
    /\ At(p, m, k) /\ ~At(q, m, k) => PinOK(m, k)'
    /\ At(p, m, k) /\ Renders(p)
          => /\ mem'.cli[m][k] = mem.cli[m][k]
             /\ pins'[m][k] \in {pins[m][k], mem.cli[m][k].ip, TornPin}
             /\ At(q, m, k) => Renders(q)
    /\ At(q, m, k) => /\ WorkingOn(m, k, q)'
                      /\ \/ At(p, m, k)
                         \/ \A o \in Requests :
                               At(req[o], m, k) => Renders(req[o]) /\ Renders(q)

LEMMA ApartMoves ==
    ASSUME IInv, ApartInv, NEW r \in Requests, NEW from, from = req[r],
           NEW q, req' = [req EXCEPT ![r] = q], mem'.inst = mem.inst,
           \A m \in Names, k \in CNs : MovesApart(from, q, m, k)
    PROVE  ApartInv'
  <1> SUFFICES ASSUME NEW m \in Names, NEW k \in CNs PROVE ApartOn(m, k)'
    BY DEF ApartInv
  <1> PICK s : s = req[r]
    OBVIOUS
  <1>0. MovesApart(s, q, m, k)
    OBVIOUS
  <1>1. ApartOn(m, k)
    BY DEF ApartInv
  <1>2. req'[r] = q /\ \A o \in Requests : o # r => req'[o] = req[o]
    BY DEF IInv, RequestsInv
  <1>3. ASSUME NEW p \in Requests, p # r, At(req[p], m, k)
        PROVE  /\ WorkingOn(m, k, req[p])'
               /\ At(req[r], m, k) \/ At(q, m, k) => Renders(req[p])
               /\ At(q, m, k) => Renders(q)
    <2> PICK o : o = req[p]
      OBVIOUS
    <2>1. At(o, m, k) /\ WorkingOn(m, k, o) /\ req'[p] = o
      BY <1>1, <1>2, <1>3 DEF ApartOn
    <2>2. CASE ~At(s, m, k)
      <3>1. WorkingOn(m, k, o)'
        BY <1>0, <2>1, <2>2, WorkStays DEF MovesApart
      <3>2. At(q, m, k) => Renders(o) /\ Renders(q)
        BY <1>0, <1>3, <2>2 DEF MovesApart
      <3> QED BY <1>2, <1>3, <2>1, <2>2, <3>1, <3>2
    <2>3. CASE At(s, m, k)
      <3>1. Renders(o) /\ Renders(s)
        BY <1>1, <1>3, <2>3 DEF ApartOn
      <3>2. /\ mem'.cli[m][k] = mem.cli[m][k]
            /\ pins'[m][k] \in {pins[m][k], mem.cli[m][k].ip, TornPin}
            /\ At(q, m, k) => Renders(q)
        BY <1>0, <2>3, <3>1 DEF MovesApart
      <3>3. RenderOK(m, k, o)
        BY <2>1, <3>1 DEF WorkingOn
      <3>4. RenderOK(m, k, o)'
        BY <3>2, <3>3 DEF RenderOK, Written
      <3> QED BY <1>2, <1>3, <2>1, <3>1, <3>2, <3>4 DEF WorkingOn
    <2> QED BY <2>2, <2>3
  <1>4. ASSUME NEW p \in Requests, At(req'[p], m, k) PROVE WorkingOn(m, k, req[p])'
    <2>1. CASE p = r
      BY <1>0, <1>2, <1>4, <2>1 DEF MovesApart
    <2>2. CASE p # r
      BY <1>2, <1>3, <1>4, <2>2
    <2> QED BY <2>1, <2>2
  <1>5. ASSUME NEW p \in Requests, NEW o \in Requests, At(req'[p], m, k), At(req'[o], m, k)
        PROVE  p = o \/ (Renders(req'[p]) /\ Renders(req'[o]))
    <2>1. CASE p # r /\ o # r
      BY <1>1, <1>2, <1>5, <2>1 DEF ApartOn
    <2>2. CASE p = r \/ o = r
      BY <1>2, <1>3, <1>5, <2>2
    <2> QED BY <2>1, <2>2
  <1>6. ASSUME \A p \in Requests : ~At(req'[p], m, k) PROVE PinOK(m, k)'
    <2>1. ~At(q, m, k) /\ \A p \in Requests : p # r => ~At(req[p], m, k)
      BY <1>2, <1>6
    <2>2. CASE At(req[r], m, k)
      BY <1>0, <2>1, <2>2 DEF MovesApart
    <2>3. CASE ~At(req[r], m, k)
      <3>1. PinOK(m, k)
        BY <1>1, <2>1, <2>3 DEF ApartOn
      <3> QED BY <1>0, <2>3, <3>1, ApartStays DEF MovesApart
    <2> QED BY <2>2, <2>3
  <1> QED BY <1>4, <1>5, <1>6 DEF ApartOn

(* A step of a client handler that changes neither the records nor the pins. *)
LEMMA ApartGoesOn ==
    ASSUME IInv, ApartInv, NEW r \in Requests, NEW q, req' = [req EXCEPT ![r] = q],
           mem' = mem, pins' = pins,
           req[r].pc \notin {"pinWrite", "put", "drop", "idle", "sync", "syncWrite"},
           \/ q.pc = "idle"
           \/ /\ ~Renders(q)
              /\ q.n = req[r].n /\ q.cn = req[r].cn
              /\ \A m \in Names, k \in CNs :
                    At(req[r], m, k) /\ HandlerOK(m, k, req[r]) => HandlerOK(m, k, q)
    PROVE  ApartInv'
  <1>1. ~Renders(req[r])
    BY DEF Renders
  <1>2. ASSUME NEW m \in Names, NEW k \in CNs
        PROVE  /\ At(req[r], m, k) /\ ~At(q, m, k) => PinOK(m, k)'
               /\ At(q, m, k) => WorkingOn(m, k, q)' /\ At(req[r], m, k)
    <2>1. At(req[r], m, k) => HandlerOK(m, k, req[r]) /\ PinOK(m, k)
      BY <1>1 DEF ApartInv, ApartOn, WorkingOn, HandlerOK
    <2>2. At(q, m, k) => At(req[r], m, k) /\ HandlerOK(m, k, q) /\ ~Renders(q)
      BY <1>1, <2>1 DEF At, Renders
    <2>3. PinOK(m, k)' <=> PinOK(m, k)
      BY ApartStays
    <2>4. HandlerOK(m, k, q)' <=> HandlerOK(m, k, q)
      BY ApartStays
    <2> QED BY <2>1, <2>2, <2>3, <2>4 DEF WorkingOn
  <1>3. \A m \in Names, k \in CNs : MovesApart(req[r], q, m, k)
    BY <1>1, <1>2 DEF MovesApart
  <1> QED BY <1>3, ApartMoves

(* A client handler that starts finds nobody at work on its client. *)
LEMMA ApartAdmits ==
    ASSUME IInv, ApartInv, Apart, NEW r \in Requests, NEW n \in Names, NEW cn \in CNs,
           Admitted(r, n, cn), NEW q, req' = [req EXCEPT ![r] = q], mem' = mem, pins' = pins,
           q.n = n, q.cn = cn, ~Renders(q), PinOK(n, cn) => HandlerOK(n, cn, q)
    PROVE  ApartInv'
  <1>1. \A m \in Names, k \in CNs : ~At(req[r], m, k)
    BY DEF Admitted, At
  <1>2. ASSUME NEW p \in Requests, At(req[p], n, cn) PROVE FALSE
    <2>1. p \in Busy(n) /\ (Renders(req[p]) <=> Rendering(p))
      BY <1>2 DEF At, Busy, Renders, Rendering
    <2>2. CASE Discipline = "client"
      BY <1>2, <2>1, <2>2 DEF Admitted, At, PinsApart
    <2>3. CASE Discipline = "pin"
      BY <1>2, <2>1, <2>3 DEF Admitted, At, Touches
    <2>4. CASE Discipline = "instance"
      BY <2>1, <2>4 DEF Admitted
    <2> QED BY <2>2, <2>3, <2>4, SwitchesAssumption DEF Apart
  <1>3. HandlerOK(n, cn, q)
    BY <1>2 DEF ApartInv, ApartOn
  <1>4. ASSUME NEW m \in Names, NEW k \in CNs, At(q, m, k)
        PROVE  WorkingOn(m, k, q)' /\ \A p \in Requests : ~At(req[p], m, k)
    <2>1. m = n /\ k = cn
      BY <1>4 DEF At
    <2>2. HandlerOK(m, k, q)'
      BY <1>3, <2>1, ApartStays
    <2> QED BY <1>2, <2>1, <2>2 DEF WorkingOn
  <1>5. \A m \in Names, k \in CNs : MovesApart(req[r], q, m, k)
    BY <1>1, <1>4 DEF MovesApart
  <1> QED BY <1>5, ApartMoves

(* A render finds at most other renders at work on the clients it has listed. *)
LEMMA RenderApart ==
    ASSUME IInv, ApartInv, Apart, NEW r \in Requests, NEW n \in Names, Render(r, n)
    PROVE  ApartInv'
  <1> PICK todo : todo = Addresses(n)
    OBVIOUS
  <1> PICK q : q = [Idle EXCEPT !.pc = "sync", !.n = n, !.todo = todo]
    OBVIOUS
  <1>1. /\ req' = [req EXCEPT ![r] = q] /\ req[r].pc = "idle" /\ mem' = mem /\ pins' = pins
        /\ q.pc = "sync" /\ q.n = n /\ q.todo = todo /\ Renders(q)
    BY DEF Render, Idle, storeVars, Renders
  <1>2. \A m \in Names, k \in CNs : ~At(req[r], m, k)
    BY <1>1 DEF At
  <1>3. ASSUME NEW k \in CNs, todo[k] # NoIP
        PROVE  mem.cli[n][k] # Absent /\ todo[k] = mem.cli[n][k].ip
    BY <1>3 DEF Addresses
  <1>4. ASSUME NEW k \in CNs, At(q, n, k)
        PROVE  /\ \A p \in Requests : At(req[p], n, k) => Renders(req[p])
               /\ RenderOK(n, k, q)
    <2>1. PinsApart /\ todo[k] # NoIP
      BY <1>1, <1>4 DEF At
    <2>2. ASSUME NEW p \in Requests, At(req[p], n, k), ~Renders(req[p]) PROVE FALSE
      <3>1. p \in Busy(n) /\ ~Rendering(p) /\ req[p].cn = k
        BY <2>2 DEF At, Busy, Renders, Rendering
      <3>2. CASE Discipline = "pin"
        BY <2>1, <3>1, <3>2 DEF Render
      <3>3. CASE Discipline = "instance"
        BY <3>1, <3>3 DEF Render
      <3> QED BY <2>1, <3>2, <3>3 DEF PinsApart
    <2>3. Written(n, k) => pins[n][k] \in {mem.cli[n][k].ip, TornPin}
      <3>1. CASE \A p \in Requests : ~At(req[p], n, k)
        <4>1. PinOK(n, k)
          BY <3>1 DEF ApartInv, ApartOn
        <4> QED BY <1>3, <2>1, <4>1 DEF PinOK
      <3>2. ASSUME NEW p \in Requests, At(req[p], n, k)
            PROVE  Written(n, k) => pins[n][k] \in {mem.cli[n][k].ip, TornPin}
        <4>1. RenderOK(n, k, req[p])
          BY <2>2, <3>2 DEF ApartInv, ApartOn, WorkingOn
        <4> QED BY <4>1 DEF RenderOK
      <3> QED BY <3>1, <3>2
    <2> QED BY <1>1, <1>3, <2>1, <2>2, <2>3 DEF RenderOK
  <1>5. ASSUME NEW m \in Names, NEW k \in CNs, At(q, m, k)
        PROVE  /\ WorkingOn(m, k, q)'
               /\ \A p \in Requests : At(req[p], m, k) => Renders(req[p]) /\ Renders(q)
    <2>1. m = n
      BY <1>1, <1>5 DEF At
    <2>2. RenderOK(m, k, q) /\ PinsApart
      BY <1>1, <1>4, <1>5, <2>1 DEF At
    <2>3. RenderOK(m, k, q)'
      BY <1>1, <2>2, ApartStays
    <2> QED BY <1>1, <1>4, <1>5, <2>1, <2>3 DEF WorkingOn
  <1>6. ASSUME NEW m \in Names, NEW k \in CNs PROVE MovesApart(req[r], q, m, k)
    BY <1>1, <1>2, <1>5 DEF MovesApart
  <1> QED BY <1>1, <1>6, ApartMoves

LEMMA ArriveApart == ASSUME IInv, ApartInv, Apart, NEW r \in Requests, Arrive(r) PROVE ApartInv'
  <1>0. PICK n \in Names :
        \/ \E cn \in CNs, mode \in Modes, ip \in Addrs, pw \in BOOLEAN :
              CreateClient(r, n, cn, mode, ip, pw)
        \/ \E cn \in CNs, ip \in Addrs, pw \in BOOLEAN : PatchClient(r, n, cn, ip, pw)
        \/ \E cn \in CNs : DeleteClient(r, n, cn)
        \/ Render(r, n)
    BY DEF Arrive, Addrs
  <1>1. ASSUME NEW cn \in CNs, NEW mode \in Modes, NEW ip \in Addrs, NEW pw \in BOOLEAN,
               CreateClient(r, n, cn, mode, ip, pw)
        PROVE  ApartInv'
    <2> DEFINE q == [Idle EXCEPT !.pc = "exists", !.n = n, !.cn = cn, !.pw = pw,
                                 !.rec = [mode |-> mode, serial |-> None, ip |-> ip]]
    <2>1. req' = [req EXCEPT ![r] = q] /\ Admitted(r, n, cn) /\ mem' = mem /\ pins' = pins
      BY <1>1 DEF CreateClient, storeVars
    <2>2. q.pc = "exists" /\ q.n = n /\ q.cn = cn
      BY DEF Idle
    <2> HIDE DEF q
    <2>3. ~Renders(q) /\ (PinOK(n, cn) => HandlerOK(n, cn, q))
      BY <2>2 DEF HandlerOK, Renders
    <2> QED BY <2>1, <2>2, <2>3, ApartAdmits
  <1>2. ASSUME NEW cn \in CNs, NEW ip \in Addrs, NEW pw \in BOOLEAN,
               PatchClient(r, n, cn, ip, pw)
        PROVE  ApartInv'
    <2> DEFINE old == mem.cli[n][cn]
               q == [Idle EXCEPT !.pc = IF pw /\ HasPassword(old.mode) THEN "passwd" ELSE "pin",
                                 !.n = n, !.cn = cn, !.pw = pw /\ HasPassword(old.mode),
                                 !.rec = [old EXCEPT !.ip = ip]]
    <2>1. req' = [req EXCEPT ![r] = q] /\ Admitted(r, n, cn) /\ mem' = mem /\ pins' = pins
      BY <1>2 DEF PatchClient, storeVars
    <2>2. old \in ClientRecs
      BY <1>2 DEF PatchClient, IInv, RecordsInv, Sound, Data
    <2>3. q.pc \in {"passwd", "pin"} /\ q.n = n /\ q.cn = cn /\ q.rec.serial = old.serial
      <3>1. [old EXCEPT !.ip = ip].serial = old.serial
        BY <2>2, RecsAssumption
      <3> HIDE DEF old
      <3> QED BY <3>1 DEF Idle
    <2> HIDE DEF q
    <2>4. ~Renders(q) /\ (PinOK(n, cn) => HandlerOK(n, cn, q))
      BY <2>3 DEF HandlerOK, Renders
    <2> QED BY <2>1, <2>3, <2>4, ApartAdmits
  <1>3. ASSUME NEW cn \in CNs, DeleteClient(r, n, cn) PROVE ApartInv'
    <2> DEFINE rec == mem.cli[n][cn]
               q == [Idle EXCEPT !.pc = IF rec.serial # None THEN "revoke" ELSE AfterReload(rec),
                                 !.n = n, !.cn = cn, !.rec = rec]
    <2>1. req' = [req EXCEPT ![r] = q] /\ Admitted(r, n, cn) /\ mem' = mem /\ pins' = pins
      BY <1>3 DEF DeleteClient, storeVars
    <2>2. q.pc \in {"revoke", "users", "unpin"} /\ q.n = n /\ q.cn = cn
      BY DEF Idle, AfterReload
    <2> HIDE DEF q
    <2>3. ~Renders(q) /\ (PinOK(n, cn) => HandlerOK(n, cn, q))
      BY <2>2 DEF HandlerOK, Renders
    <2> QED BY <2>1, <2>2, <2>3, ApartAdmits
  <1> QED BY <1>0, <1>1, <1>2, <1>3, RenderApart

(* The steps of a client handler that only advance it, one way or another. *)
LEMMA QuietApart ==
    ASSUME IInv, ApartInv, NEW r \in Requests,
           \/ Exists(r) \/ IssuePem(r) \/ IssueKey(r) \/ IssueRefused(r) \/ SetPassword(r)
           \/ LoadRevoked(r) \/ SaveRevokedOpen(r) \/ SaveRevokedWrite(r) \/ RegenCRLOpen(r)
           \/ RegenCRLWrite(r) \/ Reload(r) \/ ReadUsers(r) \/ WipeUsers(r) \/ RewriteUsers(r)
           \/ PinRefused(r)
           \/ req[r].pc # "pinWrite" /\ Fails(r)
           \/ ~Renders(req[r]) /\ FailsUnnoticed(r)
    PROVE  ApartInv'
  <1> PICK o : o = req[r]
    OBVIOUS
  <1>1. o \in RequestState /\ LocalsOK(o, pems, keys)
    BY DEF IInv, RequestsInv
  <1>2. /\ mem' = mem /\ pins' = pins
        /\ o.pc \notin {"pinWrite", "put", "drop", "idle", "sync", "syncWrite"}
    BY DEF Exists, IssuePem, IssueKey, IssueRefused, SetPassword, LoadRevoked, SaveRevokedOpen,
           SaveRevokedWrite, RegenCRLOpen, RegenCRLWrite, Revoking, Reload, ReadUsers, WipeUsers,
           RewriteUsers, PinRefused, Fails, FailsUnnoticed, Renders, storeVars
  <1>3. ASSUME Return(r) PROVE ApartInv'
    BY <1>2, <1>3, ApartGoesOn, IdleTyped DEF Return
  <1>4. ASSUME NEW q, req' = [req EXCEPT ![r] = q], q.n = o.n, q.cn = o.cn,
               q.pc \notin {"sync", "syncWrite", "pinWrite", "put", "passwd", "pin", "issue", "key"}
        PROVE  ApartInv'
    <2>1. ~Renders(q) /\ \A m \in Names, k \in CNs :
             At(o, m, k) /\ HandlerOK(m, k, o) => HandlerOK(m, k, q)
      BY <1>2, <1>4 DEF HandlerOK, Renders
    <2> QED BY <1>2, <1>4, <2>1, ApartGoesOn
  <1>5. CASE Exists(r)
    <2>1. CASE o.pc = "exists" /\ mem.cli[o.n][o.cn] = Absent
      <3> SUFFICES ASSUME NEW pc \in {"issue", "passwd", "pin"}, Goto(r, pc) PROVE ApartInv'
        BY <1>3, <1>5 DEF Exists, AfterIssue
      <3> DEFINE q == [o EXCEPT !.pc = pc]
      <3>1. q.pc = pc /\ q.n = o.n /\ q.cn = o.cn /\ req' = [req EXCEPT ![r] = q]
        BY <1>1 DEF RequestState, Goto
      <3> HIDE DEF q
      <3>2. ASSUME NEW m \in Names, NEW k \in CNs, At(o, m, k), HandlerOK(m, k, o)
            PROVE  HandlerOK(m, k, q)
        BY <2>1, <3>1, <3>2 DEF HandlerOK, At, Renders
      <3> QED BY <1>2, <2>1, <3>1, <3>2, ApartGoesOn DEF Renders
    <2> QED BY <1>3, <1>5, <2>1 DEF Exists
  <1>6. CASE IssuePem(r)
    <2> PICK s \in Serials : req' = [req EXCEPT ![r].pc = "key", ![r].rec.serial = s]
      BY <1>6 DEF IssuePem
    <2> DEFINE q == [o EXCEPT !.pc = "key", !.rec = [o.rec EXCEPT !.serial = s]]
    <2>1. q.pc = "key" /\ q.n = o.n /\ q.cn = o.cn /\ req' = [req EXCEPT ![r] = q]
      BY <1>1 DEF RequestState
    <2> HIDE DEF q
    <2>2. o.pc = "issue"
      BY <1>6 DEF IssuePem
    <2>3. ASSUME NEW m \in Names, NEW k \in CNs, At(o, m, k), HandlerOK(m, k, o)
          PROVE  HandlerOK(m, k, q)
      BY <2>1, <2>2, <2>3 DEF HandlerOK
    <2> QED BY <1>2, <2>1, <2>2, <2>3, ApartGoesOn DEF Renders
  <1>7. CASE IssueKey(r)
    <2> SUFFICES ASSUME NEW pc \in {"passwd", "pin"}, Goto(r, pc) PROVE ApartInv'
      BY <1>7 DEF IssueKey, AfterIssue
    <2> DEFINE q == [o EXCEPT !.pc = pc]
    <2>1. q.pc = pc /\ q.n = o.n /\ q.cn = o.cn /\ req' = [req EXCEPT ![r] = q]
      BY <1>1 DEF RequestState, Goto
    <2> HIDE DEF q
    <2>2. o.pc = "key"
      BY <1>7 DEF IssueKey
    <2>3. ASSUME NEW m \in Names, NEW k \in CNs, At(o, m, k), HandlerOK(m, k, o)
          PROVE  HandlerOK(m, k, q)
      BY <2>1, <2>2, <2>3 DEF HandlerOK
    <2> QED BY <1>2, <2>1, <2>2, <2>3, ApartGoesOn DEF Renders
  <1>8. CASE SetPassword(r)
    <2> SUFFICES ASSUME Leave(r, "pin") PROVE ApartInv'
      BY <1>3, <1>8 DEF SetPassword
    <2> DEFINE q == [o EXCEPT !.pc = "pin", !.pw = FALSE, !.snap = {}, !.users = {}]
    <2>1. q.pc = "pin" /\ q.n = o.n /\ q.cn = o.cn /\ q.rec = o.rec /\ req' = [req EXCEPT ![r] = q]
      BY <1>1 DEF RequestState, Leave
    <2> HIDE DEF q
    <2>2. o.pc = "passwd"
      BY <1>8 DEF SetPassword
    <2>3. ASSUME NEW m \in Names, NEW k \in CNs, At(o, m, k), HandlerOK(m, k, o)
          PROVE  HandlerOK(m, k, q)
      BY <2>1, <2>2, <2>3 DEF HandlerOK
    <2> QED BY <1>2, <2>1, <2>2, <2>3, ApartGoesOn DEF Renders
  <1>9. ASSUME NEW pc \in Plain, Goto(r, pc) \/ Leave(r, pc)
        PROVE  ApartInv'
    <2> DEFINE q1 == [o EXCEPT !.pc = pc]
               q2 == [o EXCEPT !.pc = pc, !.pw = FALSE, !.snap = {}, !.users = {}]
    <2>1. /\ q1.pc = pc /\ q1.n = o.n /\ q1.cn = o.cn
          /\ q2.pc = pc /\ q2.n = o.n /\ q2.cn = o.cn
          /\ req' = [req EXCEPT ![r] = q1] \/ req' = [req EXCEPT ![r] = q2]
      BY <1>1, <1>9 DEF RequestState, Goto, Leave
    <2> HIDE DEF q1, q2
    <2> QED BY <1>4, <1>9, <2>1 DEF Plain
  <1>10. CASE LoadRevoked(r)
    <2>1. o.pc = "revoke"
      BY <1>10 DEF LoadRevoked
    <2>2. ASSUME NEW snap, req' = [req EXCEPT ![r].pc = "truncate", ![r].snap = snap]
          PROVE  ApartInv'
      <3> DEFINE q == [o EXCEPT !.pc = "truncate", !.snap = snap]
      <3>1. q.pc = "truncate" /\ q.n = o.n /\ q.cn = o.cn /\ req' = [req EXCEPT ![r] = q]
        BY <1>1, <2>2 DEF RequestState
      <3> HIDE DEF q
      <3> QED BY <1>4, <2>1, <3>1
    <2> QED BY <1>3, <1>9, <1>10, <2>1, <2>2 DEF LoadRevoked, Plain
  <1>11. CASE ReadUsers(r)
    <2>1. o.pc = "users"
      BY <1>11 DEF ReadUsers
    <2>2. ASSUME NEW users, req' = [req EXCEPT ![r].pc = "wipe", ![r].users = users]
          PROVE  ApartInv'
      <3> DEFINE q == [o EXCEPT !.pc = "wipe", !.users = users]
      <3>1. q.pc = "wipe" /\ q.n = o.n /\ q.cn = o.cn /\ req' = [req EXCEPT ![r] = q]
        BY <1>1, <2>2 DEF RequestState
      <3> HIDE DEF q
      <3> QED BY <1>4, <2>1, <3>1
    <2> QED BY <1>9, <1>11, <2>1, <2>2 DEF ReadUsers, Plain
  <1>12. CASE \/ SaveRevokedOpen(r) \/ SaveRevokedWrite(r) \/ RegenCRLOpen(r) \/ RegenCRLWrite(r)
              \/ Reload(r) \/ WipeUsers(r) \/ RewriteUsers(r)
              \/ ~Renders(req[r]) /\ FailsUnnoticed(r)
    BY <1>9, <1>12 DEF SaveRevokedOpen, SaveRevokedWrite, RegenCRLOpen, RegenCRLWrite, Revoking,
       Reload, AfterReload, WipeUsers, RewriteUsers, FailsUnnoticed, Plain, Renders
  <1>13. CASE IssueRefused(r) \/ PinRefused(r) \/ Fails(r)
    BY <1>3, <1>13 DEF IssueRefused, PinRefused, Fails
  <1> QED BY <1>5, <1>6, <1>7, <1>8, <1>10, <1>11, <1>12, <1>13

(* A client handler at work on the pin of its client. *)
PinMoves(o, q, n, cn) ==
    /\ o.n = n /\ o.cn = cn /\ q.n = n /\ q.cn = cn
    /\ o.pc \in {"pin", "pinWrite", "unpin"} /\ q.pc \in {"pinWrite", "put", "drop"}
    /\ q.pc # "drop" => o.pc # "unpin" /\ q.rec = o.rec
    /\ PinsApart /\ q.pc = "pinWrite" => pins'[n][cn] = TornPin
    /\ PinsApart /\ q.pc = "put" => pins'[n][cn] = q.rec.ip
    /\ \A m \in Names, k \in CNs : m # n \/ k # cn => pins'[m][k] = pins[m][k]

LEMMA ApartPins ==
    ASSUME IInv, ApartInv, NEW r \in Requests, NEW n \in Names, NEW cn \in CNs,
           NEW q, req' = [req EXCEPT ![r] = q], mem' = mem, PinMoves(req[r], q, n, cn)
    PROVE  ApartInv'
  <1> PICK o : o = req[r]
    OBVIOUS
  <1>0. PinMoves(o, q, n, cn)
    OBVIOUS
  <1>1. ~Renders(o) /\ ~Renders(q)
    BY <1>0 DEF Renders, PinMoves
  <1>2. ASSUME NEW m \in Names, NEW k \in CNs
        PROVE  (At(q, m, k) <=> m = n /\ k = cn) /\ (At(o, m, k) <=> m = n /\ k = cn)
    BY <1>0, <1>1 DEF At, PinMoves
  <1>3. HandlerOK(n, cn, o)
    BY <1>1, <1>2 DEF ApartInv, ApartOn, WorkingOn
  <1>4. HandlerOK(n, cn, q)'
    BY <1>0, <1>3 DEF HandlerOK, PinMoves
  <1>5. ASSUME NEW m \in Names, NEW k \in CNs
        PROVE  /\ ~At(req[r], m, k) => pins'[m][k] = pins[m][k]
               /\ At(q, m, k) <=> At(req[r], m, k)
               /\ At(q, m, k) => WorkingOn(m, k, q)'
    BY <1>0, <1>1, <1>2, <1>4 DEF WorkingOn, PinMoves
  <1>6. \A m \in Names, k \in CNs : MovesApart(req[r], q, m, k)
    BY <1>1, <1>5 DEF MovesApart
  <1> QED BY <1>6, ApartMoves

LEMMA PinApart ==
    ASSUME IInv, ApartInv, NEW r \in Requests, PinOpen(r) \/ PinWrite(r)
    PROVE  ApartInv'
  <1> PICK o : o = req[r]
    OBVIOUS
  <1>1. /\ o \in RequestState /\ o.pc \in {"pin", "pinWrite"} /\ mem' = mem
    BY DEF IInv, RequestsInv, PinOpen, PinWrite, storeVars
  <1>2. PICK n \in Names, cn \in CNs : n = o.n /\ cn = o.cn
    BY <1>1 DEF IInv, RequestsInv, LocalsOK
  <1>3. PICK pc \in {"pinWrite", "put"}, x \in PinFiles :
           /\ pins' = [pins EXCEPT ![n][cn] = x] /\ Goto(r, pc)
           /\ pc = "pinWrite" => x = TornPin
           /\ pc = "put" => x = o.rec.ip
    <2>1. o.rec.ip \in PinFiles /\ NoIP \in PinFiles /\ TornPin \in PinFiles
      BY <1>1, RecType DEF IInv, RequestsInv, LocalsOK, PinFiles, Addrs
    <2> QED BY <1>2, <2>1 DEF PinOpen, PinWrite
  <1> PICK q : q = [o EXCEPT !.pc = pc]
    OBVIOUS
  <1>4. /\ q.pc = pc /\ q.n = n /\ q.cn = cn /\ q.rec = o.rec
        /\ req' = [req EXCEPT ![r] = q]
    BY <1>1, <1>2, <1>3 DEF RequestState, Goto
  <1>5. ASSUME NEW m \in Names, NEW k \in CNs
        PROVE  pins'[m][k] = IF m = n /\ k = cn THEN x ELSE pins[m][k]
    BY <1>2, <1>3 DEF IInv, FilesTyped
  <1>6. PinMoves(req[r], q, n, cn)
    BY <1>1, <1>2, <1>3, <1>4, <1>5 DEF PinMoves
  <1> QED BY ZenonT(60), <1>1, <1>4, <1>6, ApartPins

LEMMA UnpinApart == ASSUME IInv, ApartInv, NEW r \in Requests, Unpin(r) PROVE ApartInv'
  <1> PICK o : o = req[r]
    OBVIOUS
  <1>1. o \in RequestState /\ o.pc = "unpin" /\ mem' = mem /\ Goto(r, "drop")
    BY DEF IInv, RequestsInv, Unpin, storeVars
  <1>2. PICK n \in Names, cn \in CNs : n = o.n /\ cn = o.cn
    BY <1>1 DEF IInv, RequestsInv, LocalsOK
  <1> PICK q : q = [o EXCEPT !.pc = "drop"]
    OBVIOUS
  <1>3. q.pc = "drop" /\ q.n = n /\ q.cn = cn /\ req' = [req EXCEPT ![r] = q]
    BY <1>1, <1>2 DEF RequestState, Goto
  <1>4. pins' = pins \/ pins' = [pins EXCEPT ![n][cn] = NoIP]
    BY <1>2 DEF Unpin
  <1>5. ASSUME NEW m \in Names, NEW k \in CNs, m # n \/ k # cn
        PROVE  pins'[m][k] = pins[m][k]
    BY <1>2, <1>4, <1>5 DEF IInv, FilesTyped
  <1>6. PinMoves(req[r], q, n, cn)
    BY <1>1, <1>2, <1>3, <1>5 DEF PinMoves
  <1> QED BY ZenonT(60), <1>1, <1>3, <1>6, ApartPins

(* The end of a handler that was at work on one client: what it leaves behind. *)
LEMMA ApartEnds ==
    ASSUME IInv, ApartInv, NEW r \in Requests, req[r].pc # "idle", ~Renders(req[r]),
           NEW n, NEW cn, req[r].n = n, req[r].cn = cn, Return(r), pins' = pins,
           mem'.inst = mem.inst,
           \A m \in Names, k \in CNs : m # n \/ k # cn => mem'.cli[m][k] = mem.cli[m][k],
           PinOK(n, cn)'
    PROVE  ApartInv'
  <1>1. \A m \in Names, k \in CNs : At(req[r], m, k) <=> m = n /\ k = cn
    BY DEF At
  <1>2. Idle.pc = "idle" /\ req' = [req EXCEPT ![r] = Idle]
    BY IdleTyped DEF Return
  <1>3. \A m \in Names, k \in CNs : ~At(Idle, m, k)
    BY <1>2 DEF At
  <1>4. ASSUME NEW m \in Names, NEW k \in CNs
        PROVE  /\ ~At(req[r], m, k) => /\ mem'.cli[m][k] = mem.cli[m][k]
                                        /\ pins'[m][k] = pins[m][k]
               /\ At(req[r], m, k) /\ ~At(Idle, m, k) => PinOK(m, k)'
               /\ ~At(Idle, m, k)
    BY <1>1, <1>3
  <1>5. ASSUME NEW m \in Names, NEW k \in CNs PROVE MovesApart(req[r], Idle, m, k)
    BY <1>4 DEF MovesApart
  <1> QED BY <1>2, <1>5, ApartMoves

(* A pin write that fails leaves the file as its opening did. *)
LEMMA PinFailsApart ==
    ASSUME IInv, ApartInv, NEW r \in Requests, req[r].pc = "pinWrite", Fails(r)
    PROVE  ApartInv'
  <1>1. PICK n \in Names, cn \in CNs : n = req[r].n /\ cn = req[r].cn
    BY DEF IInv, RequestsInv, LocalsOK
  <1>2. Return(r) /\ mem' = mem /\ pins' = pins /\ MayFail /\ ~Renders(req[r])
    BY DEF Fails, storeVars, Renders
  <1>3. PinsApart => pins[n][cn] = TornPin
    BY <1>1, <1>2 DEF ApartInv, ApartOn, WorkingOn, HandlerOK, At
  <1>4. PinOK(n, cn)'
    BY <1>2, <1>3 DEF PinOK
  <1> QED BY <1>1, <1>2, <1>4, ApartEnds

LEMMA PutApart ==
    ASSUME IInv, ApartInv, NEW r \in Requests, NEW ok, Put(r, ok)
    PROVE  /\ ApartInv'
           /\ \A m \in Names, k \in CNs :
                 mem.cli[m][k] # Absent /\ mem'.cli[m][k] # Absent
                    => mem'.cli[m][k].serial = mem.cli[m][k].serial
  <1> PICK n \in Names, cn \in CNs, rec \in ClientRecs :
        n = req[r].n /\ cn = req[r].cn /\ rec = req[r].rec
    BY DEF IInv, RequestsInv, LocalsOK, Put
  <1>1. /\ req[r].pc = "put" /\ Return(r) /\ pins' = pins
        /\ mem \in Data /\ Rooted(mem) /\ ~Renders(req[r])
    BY DEF Put, IInv, RecordsInv, Sound, Renders
  <1>2. HandlerOK(n, cn, req[r])
    BY <1>1 DEF ApartInv, ApartOn, At, WorkingOn
  <1>3. /\ PinsApart => pins[n][cn] = rec.ip
        /\ mem.cli[n][cn] # Absent => mem.cli[n][cn].serial = rec.serial
    BY <1>1, <1>2 DEF HandlerOK
  <1>4. \/ mem' = mem /\ mem.cli[n][cn] = Absent
        \/ mem' = WithClient(mem, n, cn, rec)
    BY <1>1 DEF Put, storeVars, DB!Commit, Rooted
  <1>5. ASSUME NEW m \in Names, NEW k \in CNs
        PROVE  \/ mem'.cli[m][k] = mem.cli[m][k] /\ (m = n /\ k = cn => mem.cli[m][k] = Absent)
               \/ mem'.cli[m][k] = rec /\ m = n /\ k = cn
    BY <1>1, <1>4 DEF WithClient, Data
  <1>6. PinOK(n, cn)'
    BY <1>1, <1>3, <1>5 DEF PinOK, Written
  <1>7. mem'.inst = mem.inst
    BY <1>1, <1>4 DEF WithClient, Data
  <1>8. \A m \in Names, k \in CNs : m # n \/ k # cn => mem'.cli[m][k] = mem.cli[m][k]
    BY <1>1, <1>5
  <1>9. ApartInv'
    BY <1>1, <1>6, <1>7, <1>8, ApartEnds
  <1> QED BY <1>3, <1>5, <1>9

LEMMA DropApart == ASSUME IInv, ApartInv, NEW r \in Requests, NEW ok, Drop(r, ok) PROVE ApartInv'
  <1> PICK n \in Names, cn \in CNs : n = req[r].n /\ cn = req[r].cn
    BY DEF IInv, RequestsInv, LocalsOK, Drop
  <1>1. /\ req[r].pc = "drop" /\ Return(r) /\ pins' = pins /\ mem \in Data
        /\ mem' = WithoutClient(mem, n, cn) /\ ~Renders(req[r])
    BY DEF Drop, IInv, RecordsInv, Sound, DB!Commit, Renders
  <1>2. ASSUME NEW m \in Names, NEW k \in CNs
        PROVE  mem'.cli[m][k] = IF m = n /\ k = cn THEN Absent ELSE mem.cli[m][k]
    BY <1>1 DEF WithoutClient, Data
  <1>3. PinOK(n, cn)'
    BY <1>2 DEF PinOK, Written
  <1>4. mem'.inst = mem.inst
    BY <1>1 DEF WithoutClient, Data
  <1> QED BY <1>1, <1>2, <1>3, <1>4, ApartEnds

(* A step of a render: it writes the address it holds, which is the recorded   *)
(* one, cuts the pin short, or fails to; it is done with a client only after    *)
(* its address is in the file, or in a failure.                                 *)
LEMMA RenderMovesApart ==
    ASSUME IInv, ApartInv, NEW r \in Requests, Renders(req[r]), NEW cn \in CNs,
           NEW q, req' = [req EXCEPT ![r] = q], Renders(q), q.n = req[r].n, req[r].n \in Names,
           \A k \in CNs : k # cn => q.todo[k] = req[r].todo[k],
           q.todo[cn] \in {req[r].todo[cn], NoIP}, mem' = mem,
           \A m \in Names, k \in CNs :
              m # req[r].n \/ k # cn => pins'[m][k] = pins[m][k],
           PinsApart /\ req[r].todo[cn] = NoIP => pins'[req[r].n][cn] = pins[req[r].n][cn],
           PinsApart /\ req[r].todo[cn] # NoIP
              => /\ pins'[req[r].n][cn] \in {pins[req[r].n][cn], req[r].todo[cn], TornPin}
                 /\ q.todo[cn] = NoIP => MayFail \/ pins'[req[r].n][cn] = req[r].todo[cn]
    PROVE  ApartInv'
  <1> PICK o : o = req[r]
    OBVIOUS
  <1> PICK n \in Names : n = o.n
    OBVIOUS
  <1>1. ASSUME NEW m \in Names, NEW k \in CNs
        PROVE  /\ At(o, m, k) <=> PinsApart /\ m = n /\ o.todo[k] # NoIP
               /\ At(q, m, k) <=> PinsApart /\ m = n /\ q.todo[k] # NoIP
    BY DEF At, Renders
  <1>2. ASSUME NEW m \in Names, NEW k \in CNs, ~At(o, m, k)
        PROVE  ~At(q, m, k) /\ (PinsApart => pins'[m][k] = pins[m][k])
    BY <1>1, <1>2
  <1>3. ASSUME NEW m \in Names, NEW k \in CNs, At(o, m, k)
        PROVE  /\ pins'[m][k] \in {pins[m][k], mem.cli[m][k].ip, TornPin}
               /\ At(q, m, k) => WorkingOn(m, k, q)'
               /\ ~At(q, m, k) => PinOK(m, k)'
    <2>1. RenderOK(m, k, o) /\ PinsApart /\ m = n /\ o.todo[k] # NoIP
      BY <1>1, <1>3 DEF ApartInv, ApartOn, WorkingOn
    <2>2. pins'[m][k] \in {pins[m][k], mem.cli[m][k].ip, TornPin}
      BY SMTT(60), <2>1 DEF RenderOK
    <2>3. At(q, m, k) => RenderOK(m, k, q)'
      BY SMTT(60), <1>1, <2>1, <2>2 DEF RenderOK, Written
    <2>4. ASSUME ~At(q, m, k) PROVE PinOK(m, k)'
      <3>1. k = cn /\ q.todo[cn] = NoIP
        BY <1>1, <2>1, <2>4
      <3>2. MayFail \/ pins'[m][k] = mem.cli[m][k].ip
        BY <2>1, <3>1 DEF RenderOK
      <3> QED BY <2>1, <2>2, <3>2 DEF RenderOK, PinOK, Written
    <2> QED BY <2>2, <2>3, <2>4 DEF WorkingOn
  <1>4. ASSUME NEW m \in Names, NEW k \in CNs PROVE MovesApart(req[r], q, m, k)
    BY <1>2, <1>3 DEF MovesApart
  <1> QED BY <1>4, ApartMoves

LEMMA SyncApart ==
    ASSUME IInv, ApartInv, NEW r \in Requests,
           \/ (\E cn \in CNs : SyncOpen(r, cn)) \/ SyncWrite(r) \/ SyncDone(r)
           \/ Renders(req[r]) /\ FailsUnnoticed(r)
    PROVE  ApartInv'
  <1> PICK o : o = req[r]
    OBVIOUS
  <1>1. Renders(o) /\ Rendering(r) /\ mem' = mem
    BY DEF SyncOpen, SyncWrite, SyncDone, FailsUnnoticed, Renders, Rendering, storeVars
  <1>2. PICK n \in Names, todo \in [CNs -> Addrs] :
           n = o.n /\ todo = o.todo /\ o \in RequestState
    BY <1>1 DEF IInv, RequestsInv, LocalsOK, RequestState, Renders
  <1>3. CASE SyncDone(r)
    <2>1. req' = [req EXCEPT ![r] = Idle] /\ Idle.pc = "idle" /\ pins' = pins
      BY <1>3, IdleTyped DEF SyncDone, Return
    <2>2. \A m \in Names, k \in CNs : ~At(o, m, k) /\ ~At(Idle, m, k)
      BY <1>1, <1>3, <2>1 DEF SyncDone, At
    <2>3. \A m \in Names, k \in CNs : MovesApart(req[r], Idle, m, k)
      BY <1>1, <2>1, <2>2 DEF MovesApart
    <2> QED BY <1>1, <2>1, <2>3, ApartMoves
  <1>4. ASSUME NEW cn \in CNs, todo[cn] # NoIP,
               \/ req' = [req EXCEPT ![r].pc = "sync", ![r].todo[cn] = NoIP]
               \/ o.pc = "sync" /\ req' = [req EXCEPT ![r].todo[cn] = NoIP],
               \/ pins' = pins /\ (PinsApart => MayFail)
               \/ pins' = [pins EXCEPT ![n][cn] = todo[cn]]
        PROVE  ApartInv'
    <2>1. PICK q \in RequestState :
             /\ req' = [req EXCEPT ![r] = q] /\ q.pc = "sync" /\ q.n = n
             /\ q.todo = [todo EXCEPT ![cn] = NoIP]
      BY <1>1, <1>2, <1>4, RenderGoesOn
    <2>2. Renders(q) /\ q.todo[cn] = NoIP /\ \A k \in CNs : k # cn => q.todo[k] = todo[k]
      BY <1>2, <2>1 DEF Renders
    <2>3. ASSUME NEW m \in Names, NEW k \in CNs
          PROVE  pins'[m][k] = pins[m][k] \/ (m = n /\ k = cn /\ pins'[m][k] = todo[k])
      BY <1>2, <1>4 DEF IInv, FilesTyped
    <2>4. PinsApart => /\ pins'[n][cn] \in {pins[n][cn], todo[cn], TornPin}
                       /\ MayFail \/ pins'[n][cn] = todo[cn]
      BY <1>2, <1>4 DEF IInv, FilesTyped
    <2>5. /\ \A k \in CNs : k # cn => q.todo[k] = req[r].todo[k]
          /\ q.todo[cn] \in {req[r].todo[cn], NoIP} /\ q.n = req[r].n /\ req[r].n \in Names
          /\ \A m \in Names, k \in CNs : m # req[r].n \/ k # cn => pins'[m][k] = pins[m][k]
      BY <1>2, <2>1, <2>2, <2>3
    <2>6. /\ PinsApart /\ req[r].todo[cn] = NoIP
                => pins'[req[r].n][cn] = pins[req[r].n][cn]
          /\ PinsApart /\ req[r].todo[cn] # NoIP
                => /\ pins'[req[r].n][cn] \in {pins[req[r].n][cn], req[r].todo[cn], TornPin}
                   /\ q.todo[cn] = NoIP => MayFail \/ pins'[req[r].n][cn] = req[r].todo[cn]
      BY <1>2, <1>4, <2>4
    <2> QED BY <1>1, <2>1, <2>2, <2>5, <2>6, RenderMovesApart
  <1>5. ASSUME NEW cn \in CNs, SyncOpen(r, cn), Pinnable(cn, todo[cn])
        PROVE  ApartInv'
    <2>1. PICK q : q = [o EXCEPT !.pc = "syncWrite", !.cn = cn]
      OBVIOUS
    <2>2. /\ req' = [req EXCEPT ![r] = q] /\ Renders(q) /\ q.n = n /\ q.todo = todo
          /\ todo[cn] # NoIP /\ pins' = [pins EXCEPT ![n][cn] = TornPin]
      BY <1>2, <1>5, <2>1 DEF SyncOpen, Renders, RequestState
    <2>3. ASSUME NEW m \in Names, NEW k \in CNs
          PROVE  pins'[m][k] = IF m = n /\ k = cn THEN TornPin ELSE pins[m][k]
      BY <1>2, <2>2 DEF IInv, FilesTyped
    <2>4. /\ \A k \in CNs : k # cn => q.todo[k] = req[r].todo[k]
          /\ q.todo[cn] \in {req[r].todo[cn], NoIP} /\ q.n = req[r].n /\ req[r].n \in Names
          /\ \A m \in Names, k \in CNs : m # req[r].n \/ k # cn => pins'[m][k] = pins[m][k]
      BY <1>2, <2>2, <2>3
    <2>5. /\ PinsApart /\ req[r].todo[cn] = NoIP
                => pins'[req[r].n][cn] = pins[req[r].n][cn]
          /\ PinsApart /\ req[r].todo[cn] # NoIP
                => /\ pins'[req[r].n][cn] \in {pins[req[r].n][cn], req[r].todo[cn], TornPin}
                   /\ q.todo[cn] = NoIP => MayFail \/ pins'[req[r].n][cn] = req[r].todo[cn]
      BY <1>2, <2>2, <2>3
    <2> QED BY <1>1, <2>2, <2>4, <2>5, RenderMovesApart
  <1>6. ASSUME NEW cn \in CNs, SyncOpen(r, cn), ~Pinnable(cn, todo[cn])
        PROVE  ApartInv'
    <2>1. /\ o.pc = "sync" /\ req' = [req EXCEPT ![r].todo[cn] = NoIP] /\ pins' = pins
          /\ todo[cn] # NoIP
      BY <1>2, <1>6 DEF SyncOpen
    <2>2. ASSUME PinsApart PROVE FALSE
      <3>1. mem.cli[n][cn] # Absent /\ todo[cn] = mem.cli[n][cn].ip
        BY <1>1, <1>2, <2>1, <2>2 DEF ApartInv, ApartOn, At, Renders, WorkingOn, RenderOK
      <3> QED BY <1>6, <3>1 DEF IInv, RecordsInv, Sound, PinnableIn
    <2> QED BY <1>4, <2>1, <2>2
  <1>7. CASE SyncWrite(r)
    <2>1. PICK cn \in CNs : cn = o.cn /\ todo[cn] # NoIP
      BY <1>2, <1>7 DEF SyncWrite, IInv, RequestsInv, LocalsOK
    <2> QED BY <1>2, <1>4, <1>7, <2>1 DEF SyncWrite, Listed
  <1>8. CASE FailsUnnoticed(r)
    <2>1. pins' = pins /\ MayFail
      BY <1>8 DEF FailsUnnoticed
    <2>2. CASE o.pc = "sync"
      <3>1. PICK cn \in CNs : todo[cn] # NoIP /\ req' = [req EXCEPT ![r].todo[cn] = NoIP]
        BY <1>1, <1>2, <1>8, <2>2 DEF FailsUnnoticed, Touches
      <3> QED BY <1>4, <2>1, <2>2, <3>1
    <2>3. CASE o.pc = "syncWrite"
      <3>1. PICK cn \in CNs : cn = o.cn /\ todo[cn] # NoIP
        BY <1>2, <2>3 DEF IInv, RequestsInv, LocalsOK
      <3>2. Listed(r)
        BY <1>8, <2>3 DEF FailsUnnoticed
      <3> QED BY <1>4, <2>1, <3>1, <3>2 DEF Listed
    <2> QED BY <1>1, <2>2, <2>3 DEF Renders
  <1> QED BY <1>2, <1>3, <1>5, <1>6, <1>7, <1>8

(* Around the handlers: instances come and go only between handlers, and take *)
(* their clients with them.                                                   *)
LEMMA EnvironmentApart == ASSUME IInv, ApartInv, Apart, Environment PROVE ApartInv'
  <1>1. ASSUME req' = req, pins' = pins, NEW n \in Names,
               \A m \in Names : m # n => mem'.inst[m] = mem.inst[m],
               \A m \in Names, k \in CNs : \/ mem'.cli[m][k] = mem.cli[m][k]
                                           \/ m = n /\ Busy(n) = {} /\ mem'.cli[m][k] = Absent,
               mem'.inst[n] = mem.inst[n] \/ \A k \in CNs : mem'.cli[n][k] = Absent
        PROVE  ApartInv'
    <2> SUFFICES ASSUME NEW m \in Names, NEW k \in CNs PROVE ApartOn(m, k)'
      BY DEF ApartInv
    <2>1. ApartOn(m, k)
      BY DEF ApartInv
    <2>2. CASE mem'.cli[m][k] = mem.cli[m][k]
      <3>1. CASE mem'.inst[m] = mem.inst[m]
        <4>1. PinOK(m, k)' <=> PinOK(m, k)
          BY <1>1, <2>2, <3>1, ApartStays
        <4>2. ASSUME NEW r \in Requests, At(req[r], m, k) PROVE WorkingOn(m, k, req[r])'
          <5> PICK o : o = req[r]
            OBVIOUS
          <5>1. WorkingOn(m, k, o)'
            BY <1>1, <2>1, <2>2, <3>1, <4>2, WorkStays DEF ApartOn
          <5> QED BY <1>1, <5>1
        <4> QED BY <1>1, <2>1, <4>1, <4>2 DEF ApartOn
      <3>2. CASE m = n /\ mem'.cli[m][k] = Absent
        <4>1. PinOK(m, k)'
          BY <3>2 DEF PinOK
        <4>2. ASSUME NEW r \in Requests, At(req[r], m, k) PROVE WorkingOn(m, k, req[r])'
          <5> PICK o : o = req[r]
            OBVIOUS
          <5>1. WorkingOn(m, k, o)
            BY <2>1, <4>2 DEF ApartOn
          <5>2. WorkingOn(m, k, o)'
            BY <1>1, <2>2, <3>2, <4>1, <5>1 DEF WorkingOn, RenderOK, HandlerOK
          <5> QED BY <1>1, <5>2
        <4> QED BY <1>1, <2>1, <4>1, <4>2 DEF ApartOn
      <3> QED BY <1>1, <3>1, <3>2
    <2>3. CASE Busy(m) = {} /\ mem'.cli[m][k] = Absent
      <3>1. \A r \in Requests : ~At(req[r], m, k)
        BY <2>3 DEF Busy, At
      <3> QED BY <1>1, <2>3, <3>1 DEF ApartOn, PinOK
    <2> QED BY <1>1, <2>2, <2>3
  <1>2. mem \in Data /\ Rooted(mem) /\ disk \in Data /\ PinnableIn(disk)
    BY DEF IInv, RecordsInv, Sound
  <1>3. ASSUME NEW n \in Names, NEW rec \in InstanceRecs, NEW caIfEmpty, NEW ok,
               CreateInstance(n, rec, caIfEmpty, ok)
        PROVE  ApartInv'
    <2>1. /\ mem'.cli = mem.cli /\ \A m \in Names : m # n => mem'.inst[m] = mem.inst[m]
          /\ \A k \in CNs : mem.cli[n][k] = Absent
      BY <1>2, <1>3 DEF CreateInstance, DB!Commit, WithInstance, Data, Rooted
    <2> QED BY <1>1, <1>3, <2>1 DEF CreateInstance
  <1>4. ASSUME NEW n \in Names, NEW ok, DeleteInstance(n, ok) PROVE ApartInv'
    <2>1. Busy(n) = {} /\ mem' = WithoutInstance(mem, n) /\ req' = req /\ pins' = pins
      BY <1>4 DEF DeleteInstance, Quiet, Apart, DB!Commit
    <2>2. /\ \A m \in Names, k \in CNs :
                mem'.cli[m][k] = IF m = n THEN Absent ELSE mem.cli[m][k]
          /\ \A m \in Names : m # n => mem'.inst[m] = mem.inst[m]
      BY <1>2, <2>1 DEF WithoutInstance, Data
    <2> QED BY <1>1, <2>1, <2>2
  <1>5. ASSUME NEW n \in Names, OcservStarts(n) \/ OcservReloads(n) \/ OcservExits(n)
        PROVE  ApartInv'
    BY <1>1, <1>5 DEF OcservStarts, OcservReloads, OcservExits, storeVars
  <1>6. ASSUME Restart PROVE ApartInv'
    <2>1. \A m \in Names, k \in CNs : \A r \in Requests : ~At(req'[r], m, k)
      BY <1>6, IdleTyped DEF Restart, At
    <2>2. ASSUME NEW m \in Names, NEW k \in CNs, disk.cli[m][k] # Absent, MayFail = FALSE,
                 disk.inst[m].enabled, disk.cli[m][k].ip # NoIP, Known(disk, m)
          PROVE  pins'[m][k] = disk.cli[m][k].ip
      <3>1. Enabled(m) /\ Pinnable(k, disk.cli[m][k].ip)
        BY <1>2, <2>2 DEF Enabled, PinnableIn
      <3>2. pins'[m][k] \in Rebuilt(m, k)
        BY <1>6 DEF Restart
      <3> QED BY <2>2, <3>1, <3>2 DEF Rebuilt
    <2>3. \A m \in Names, k \in CNs : PinOK(m, k)'
      <3>1. MayCrash /\ mem' = disk /\ Rooted(disk)
        BY <1>6 DEF Restart, IInv, RecordsInv, Sound
      <3>2. PinsApart => MayFail = FALSE
        BY <3>1, SwitchesAssumption DEF PinsApart
      <3> QED BY <2>2, <3>1, <3>2 DEF PinOK, Written, Rooted
    <2> QED BY <2>1, <2>3 DEF ApartInv, ApartOn
  <1> QED BY <1>3, <1>4, <1>5, <1>6 DEF Environment

LEMMA NextApart == ASSUME IInv, ApartInv, Apart, [Next]_vars PROVE ApartInv'
  <1>1. ASSUME NEW r \in Requests, Fails(r) \/ FailsUnnoticed(r) PROVE ApartInv'
    BY <1>1, QuietApart, PinFailsApart, SyncApart
  <1>2. ASSUME NEW r \in Requests, Step(r) PROVE ApartInv'
    BY <1>1, <1>2, QuietApart, PinApart, PutApart, DropApart, UnpinApart, SyncApart DEF Step
  <1>3. ASSUME UNCHANGED vars PROVE ApartInv'
    BY <1>3 DEF vars, storeVars, ApartInv, ApartOn, WorkingOn, HandlerOK, RenderOK, PinOK, Written
  <1> QED BY <1>2, <1>3, ArriveApart, EnvironmentApart DEF Next

LEMMA SpecApart == ASSUME Apart PROVE Spec => [](IInv /\ ApartInv)
  <1>1. IInv /\ ApartInv /\ [Next]_vars => ApartInv'
    BY NextApart
  <1> QED BY <1>1, InitApart, SpecIInv, PTL DEF Spec

(* When callers keep the handlers of a client apart, and from the renders that     *)
(* have listed its address and not written it yet, the pin of a client that no     *)
(* handler is at work on is the address its record says, or cut short when a write *)
(* failed: through any interleaving of the others, no pin is of another address.   *)
(* A render that listed a client before a change is the only way to a stale pin,   *)
(* as long as the daemon does not die.                                             *)
THEOREM PinsFollowRecords ==
    ASSUME Discipline \in {"pin", "instance"}, MayCrash = FALSE
    PROVE  Spec => []PinFollowsRecord
  <1>1. PinsApart /\ Apart
    BY DEF PinsApart, Apart
  <1> QED BY <1>1, SpecApart, ApartImplies, PTL

(* Wherever the daemon dies, as long as the files and flushes work, an address     *)
(* that is recorded for a client of an enabled instance is the one it gets, as     *)
(* soon as no handler is at work on it. (Only an address can be lost to a crash    *)
(* that should have been taken away: no render removes a pin.)                     *)
THEOREM AddressesOutliveCrashes ==
    ASSUME Discipline \in {"pin", "instance"}, MayFail = FALSE
    PROVE  Spec => []AddressPinned
  <1>1. PinsApart /\ Apart
    BY DEF PinsApart, Apart
  <1> QED BY <1>1, SpecApart, ApartImplies, PTL

(* Flushes that work keep the disk at what memory says. *)
LEMMA SpecFlushed == ASSUME MayFail = FALSE PROVE Spec => [](mem = disk)
  <1>1. Init => mem = disk
    BY DEF Init
  <1>2. ASSUME mem = disk, [Next]_vars PROVE mem' = disk'
    <2>1. ASSUME NEW r \in Requests, Arrive(r) PROVE UNCHANGED storeVars
      BY ZenonT(60), <2>1 DEF Arrive, CreateClient, PatchClient, DeleteClient, Render
    <2>2. ASSUME NEW r \in Requests, Step(r) PROVE UNCHANGED storeVars \/ mem' = disk'
      <3>1. CASE \E ok \in Outcomes : Put(r, ok) \/ Drop(r, ok)
        BY <3>1 DEF Outcomes, Put, Drop, DB!Commit
      <3>2. CASE ~\E ok \in Outcomes : Put(r, ok) \/ Drop(r, ok)
        BY <2>2, <3>2, OthersLeaveStore
      <3> QED BY <3>1, <3>2
    <2>3. ASSUME Environment PROVE UNCHANGED storeVars \/ mem' = disk'
      <3>1. ASSUME NEW n \in Names
            PROVE  /\ DeleteInstance(n, TRUE) => mem' = disk'
                   /\ \A rec, caIfEmpty : CreateInstance(n, rec, caIfEmpty, TRUE) => mem' = disk'
        BY DEF CreateInstance, DeleteInstance, DB!Commit
      <3>2. ASSUME NEW n \in Names, OcservStarts(n) \/ OcservReloads(n) \/ OcservExits(n)
            PROVE  UNCHANGED storeVars
        BY <3>2 DEF OcservStarts, OcservReloads, OcservExits
      <3>3. Restart => mem' = disk'
        BY DEF Restart
      <3>4. Outcomes = {TRUE}
        BY DEF Outcomes
      <3>5. ASSUME NEW n \in Names,
                   \/ \E rec \in InstanceRecs, caIfEmpty \in BOOLEAN, ok \in Outcomes :
                        CreateInstance(n, rec, caIfEmpty, ok)
                   \/ \E ok \in Outcomes : DeleteInstance(n, ok)
            PROVE  mem' = disk'
        BY <3>1, <3>4, <3>5
      <3> QED BY <2>3, <3>2, <3>3, <3>5 DEF Environment
    <2> QED BY <1>2, <2>1, <2>2, <2>3 DEF Next, vars, storeVars
  <1>3. mem = disk /\ [Next]_vars => (mem = disk)'
    BY <1>2
  <1> QED BY <1>1, <1>3, PTL DEF Spec

LEMMA NextKeepsSerial ==
    ASSUME IInv, ApartInv, Apart, MayCrash => mem = disk, [Next]_vars,
           NEW n \in Names, NEW cn \in CNs, mem.cli[n][cn] # Absent, mem'.cli[n][cn] # Absent
    PROVE  mem'.cli[n][cn].serial = mem.cli[n][cn].serial
  <1> DEFINE Goal == mem'.cli[n][cn].serial = mem.cli[n][cn].serial
  <1>1. mem \in Data
    BY DEF IInv, RecordsInv, Sound
  <1>2. ASSUME UNCHANGED storeVars PROVE Goal
    BY <1>2 DEF storeVars
  <1>3. ASSUME NEW r \in Requests, Arrive(r) PROVE Goal
    BY <1>2, <1>3, ArriveIs
  <1>4. ASSUME NEW r \in Requests, NEW ok, Drop(r, ok) PROVE Goal
    <2>1. /\ req[r].n \in Names /\ req[r].cn \in CNs
          /\ mem' = WithoutClient(mem, req[r].n, req[r].cn)
      BY <1>4 DEF IInv, RequestsInv, LocalsOK, Drop, DB!Commit
    <2>2. mem'.cli[n][cn] \in {Absent, mem.cli[n][cn]}
      BY <1>1, <2>1 DEF WithoutClient, Data
    <2> QED BY <2>2
  <1>5. ASSUME NEW r \in Requests, Step(r) PROVE Goal
    <2>1. CASE \E ok \in Outcomes : Put(r, ok) \/ Drop(r, ok)
      BY <1>4, <2>1, PutApart
    <2>2. CASE ~\E ok \in Outcomes : Put(r, ok) \/ Drop(r, ok)
      BY <1>2, <1>5, <2>2, OthersLeaveStore
    <2> QED BY <2>1, <2>2
  <1>6. ASSUME Environment PROVE Goal
    <2>1. ASSUME NEW m \in Names, NEW rec \in InstanceRecs, NEW caIfEmpty, NEW ok,
                 CreateInstance(m, rec, caIfEmpty, ok)
          PROVE  Goal
      BY <1>1, <2>1 DEF CreateInstance, DB!Commit, WithInstance, Data
    <2>2. ASSUME NEW m \in Names, NEW ok, DeleteInstance(m, ok) PROVE Goal
      BY <1>1, <2>2 DEF DeleteInstance, DB!Commit, WithoutInstance, Data
    <2>3. ASSUME NEW m \in Names, OcservStarts(m) \/ OcservReloads(m) \/ OcservExits(m)
          PROVE  Goal
      BY <1>2, <2>3 DEF OcservStarts, OcservReloads, OcservExits
    <2>4. ASSUME Restart PROVE Goal
      BY <2>4 DEF Restart
    <2> QED BY <1>6, <2>1, <2>2, <2>3, <2>4 DEF Environment
  <1> QED BY <1>2, <1>3, <1>5, <1>6 DEF Next, vars

(* With the same callers a recorded client keeps its certificate: no create or    *)
(* patch, overtaken by others, records another serial over it. A crash is no      *)
(* danger as long as flushes work: what it goes back to is what was there.        *)
THEOREM SerialsStable ==
    ASSUME Discipline # "none", MayCrash => MayFail = FALSE PROVE Spec => SerialStable
  <1>1. IInv /\ ApartInv /\ (MayCrash => mem = disk) /\ [Next]_vars
           => [\A n \in Names, cn \in CNs :
                  LET c == mem.cli[n][cn]
                      d == mem'.cli[n][cn]
                  IN  c # Absent /\ d # Absent => d.serial = c.serial]_vars
    BY NextKeepsSerial DEF Apart
  <1>2. CASE MayCrash
    <2>1. Spec => [](mem = disk)
      BY <1>2, SpecFlushed
    <2> QED BY <1>1, <1>2, <2>1, SpecApart, PTL DEF Spec, SerialStable, Apart
  <1>3. CASE ~MayCrash
    BY <1>1, <1>3, SpecApart, PTL DEF Spec, SerialStable, Apart
  <1> QED BY <1>2, <1>3

--------------------------------------------------------------------------------
(* Callers that take turns on an instance, writes that work and a daemon that   *)
(* does not die: whoever rewrites the password file or the two files of the     *)
(* revocations carries everything they said before.                             *)

TakesTurns == Discipline = "instance" /\ MayFail = FALSE /\ MayCrash = FALSE

NeedsPassword(n, cn) == mem.cli[n][cn] # Absent /\ HasPassword(mem.cli[n][cn].mode)

PasswordsOK(n) == \A cn \in CNs : NeedsPassword(n, cn) => cn \in passwd[n]

(* revoked.json is what the CRL was signed from, and lists all that are gone. *)
ListsAgree(n) == revoked[n] = crl[n] /\ gone[n] \subseteq revoked[n]

Signing == {"save", "crl", "sign"}
Deleting == {"revoke", "truncate", "reload", "users", "wipe", "rewrite", "unpin", "drop"} \cup Signing

(* What handler state q, at work on instance n, has made of the files. *)
PasswordsKept(n, q) ==
    /\ q.pc \notin {"rewrite", "unpin", "drop"} => PasswordsOK(n)
    /\ q.pc \in {"unpin", "drop"} =>
          \A cn \in CNs : cn # q.cn /\ NeedsPassword(n, cn) => cn \in passwd[n]
    /\ q.pc \in {"wipe", "rewrite"} =>
          \A cn \in CNs : cn # q.cn /\ NeedsPassword(n, cn) => cn \in q.users
    /\ q.pc \in {"pin", "pinWrite", "put"} /\ HasPassword(q.rec.mode) => q.cn \in passwd[n]

ListsKept(n, q) ==
    /\ q.pc \notin Signing => ListsAgree(n)
    /\ q.pc = "save" => gone[n] \subseteq crl[n]
    /\ q.pc \in {"truncate"} \cup Signing => gone[n] \cup {q.rec.serial} \subseteq q.snap
    /\ q.pc \in {"crl", "sign"} => revoked[n] = q.snap
    /\ q.pc = "crl" => gone[n] \subseteq crl[n]
    /\ q.pc = "sign" => crl[n] = Torn
    /\ q.pc \in Deleting \ ({"revoke", "truncate"} \cup Signing) /\ q.rec.serial # None
          => q.rec.serial \in revoked[n]
    /\ q.pc \in {"revoke", "truncate"} \cup Signing => n \in ca

Working(n, q) == PasswordsKept(n, q) /\ ListsKept(n, q)
Settled(n) == PasswordsOK(n) /\ ListsAgree(n)

(* Without a CA nothing was ever issued or revoked. *)
CAFirst ==
    /\ \A p \in pems : p.n \in ca
    /\ \A n \in Names : n \notin ca => revoked[n] = {}

On(q, n) == q.pc # "idle" /\ q.n = n

TurnOn(n) ==
    /\ \A r, q \in Requests : On(req[r], n) /\ On(req[q], n) => r = q
    /\ (\A r \in Requests : ~On(req[r], n)) => Settled(n)
    /\ \A r \in Requests : On(req[r], n) => Working(n, req[r])

TurnInv == CAFirst /\ \A n \in Names : TurnOn(n)

LEMMA TurnImplies == TurnInv => PasswordKept /\ DeletedStaysRevoked
  <1> SUFFICES ASSUME TurnInv PROVE PasswordKept /\ DeletedStaysRevoked
    OBVIOUS
  <1>1. ASSUME NEW n \in Names
        PROVE  /\ Busy(n) = {} => PasswordsOK(n)
               /\ crl[n] # Torn => gone[n] \subseteq crl[n]
    <2>1. TurnOn(n)
      BY DEF TurnInv
    <2>2. CASE \A r \in Requests : ~On(req[r], n)
      BY <2>1, <2>2 DEF TurnOn, Settled, ListsAgree
    <2>3. ASSUME NEW r \in Requests, On(req[r], n)
          PROVE  Busy(n) # {} /\ (crl[n] # Torn => gone[n] \subseteq crl[n])
      <3>1. ListsKept(n, req[r]) /\ r \in Busy(n)
        BY <2>1, <2>3 DEF TurnOn, Working, Busy, On
      <3> QED BY <3>1 DEF ListsKept, ListsAgree, Signing
    <2> QED BY <2>2, <2>3
  <1> QED BY <1>1 DEF PasswordKept, DeletedStaysRevoked, PasswordsOK, NeedsPassword

LEMMA InitTurn == Init => TurnInv
  BY IdleTyped DEF Init, PkiInit, Empty, TurnInv, CAFirst, TurnOn, On, Settled, PasswordsOK,
     NeedsPassword, ListsAgree

(* What the invariant says of an instance. *)
Same(n) ==
    /\ mem'.cli[n] = mem.cli[n] /\ passwd'[n] = passwd[n]
    /\ revoked'[n] = revoked[n] /\ crl'[n] = crl[n] /\ gone'[n] = gone[n]
    /\ n \in ca => n \in ca'

LEMMA SameStays ==
    ASSUME NEW n \in Names, Same(n)
    PROVE  /\ Settled(n) => Settled(n)'
           /\ \A q : Working(n, q) => Working(n, q)'
  <1>1. (PasswordsOK(n)' <=> PasswordsOK(n)) /\ (ListsAgree(n)' <=> ListsAgree(n))
    BY DEF Same, PasswordsOK, NeedsPassword, ListsAgree
  <1>2. ASSUME NEW q, PasswordsKept(n, q) PROVE PasswordsKept(n, q)'
    BY <1>1, <1>2 DEF Same, PasswordsKept, NeedsPassword
  <1>3. ASSUME NEW q, ListsKept(n, q) PROVE ListsKept(n, q)'
    BY <1>1, <1>3 DEF Same, ListsKept
  <1> QED BY <1>1, <1>2, <1>3 DEF Settled, Working

(* A handler goes from one state to the next on instance n, alone there. *)
LEMMA TurnMoves ==
    ASSUME IInv, TurnInv, NEW r \in Requests, NEW n \in Names, NEW q,
           req' = [req EXCEPT ![r] = q], CAFirst',
           On(req[r], n) \/ (req[r].pc = "idle" /\ \A p \in Requests : ~On(req[p], n)),
           \/ q.pc = "idle" /\ Settled(n)'
           \/ q.pc # "idle" /\ q.n = n /\ Working(n, q)',
           \A m \in Names : m # n => Same(m)
    PROVE  TurnInv'
  <1> SUFFICES ASSUME NEW m \in Names PROVE TurnOn(m)'
    BY DEF TurnInv
  <1>1. TurnOn(m)
    BY DEF TurnInv
  <1>2. req'[r] = q /\ \A p \in Requests : p # r => req'[p] = req[p]
    BY DEF IInv, RequestsInv
  <1>3. CASE m = n
    <2>1. \A p \in Requests : p # r => ~On(req'[p], m)
      BY <1>1, <1>2, <1>3 DEF TurnOn
    <2>2. CASE q.pc = "idle"
      BY <1>2, <1>3, <2>1, <2>2 DEF TurnOn, On
    <2>3. CASE q.pc # "idle"
      BY <1>2, <1>3, <2>1, <2>3 DEF TurnOn, On
    <2> QED BY <2>2, <2>3
  <1>4. CASE m # n
    <2>1. ~On(req[r], m) /\ ~On(q, m)
      BY <1>4 DEF On
    <2>2. ASSUME NEW p \in Requests, On(req'[p], m) PROVE Working(m, req[p])'
      <3>1. p # r /\ req'[p] = req[p]
        BY <1>2, <2>1, <2>2
      <3>2. PICK o : o = req[p]
        OBVIOUS
      <3>3. Working(m, o)
        BY <1>1, <2>2, <3>1, <3>2 DEF TurnOn
      <3>4. Working(m, o)' /\ o = req'[p]
        BY <1>4, <3>1, <3>2, <3>3, SameStays
      <3> QED BY <3>4
    <2>3. \A p \in Requests : On(req'[p], m) <=> On(req[p], m)
      BY <1>2, <2>1
    <2>4. Settled(m) => Settled(m)'
      BY <1>4, SameStays
    <2> QED BY <1>1, <2>2, <2>3, <2>4 DEF TurnOn
  <1> QED BY <1>3, <1>4

filesVars == <<mem, passwd, revoked, crl, gone, ca>>

LEMMA AllSame == ASSUME UNCHANGED filesVars PROVE \A n \in Names : Same(n)
  BY DEF filesVars, Same

LEMMA CAFirstKept ==
    ASSUME CAFirst, ca' = ca, revoked' = revoked, pems' = pems PROVE CAFirst'
  BY DEF CAFirst

(* A handler starts, and nothing has changed yet. *)
LEMMA TurnStarts ==
    ASSUME IInv, TurnInv, NEW r \in Requests, NEW n \in Names, req[r].pc = "idle",
           Busy(n) = {}, NEW q, req' = [req EXCEPT ![r] = q], q.pc # "idle", q.n = n,
           UNCHANGED <<storeVars, pkiVars, passwd, gone>>,
           Settled(n) => Working(n, q)
    PROVE  TurnInv'
  <1>1. \A p \in Requests : ~On(req[p], n)
    BY DEF Busy, On
  <1>2. Settled(n)
    BY <1>1 DEF TurnInv, TurnOn
  <1>3. \A m \in Names : Same(m)
    BY AllSame DEF filesVars, storeVars, pkiVars
  <1>4. Working(n, q)'
    BY <1>2, <1>3, SameStays
  <1>5. CAFirst'
    BY CAFirstKept DEF TurnInv, pkiVars
  <1> QED BY <1>1, <1>3, <1>4, <1>5, TurnMoves

(* A step that changes none of the files the invariant is about. *)
LEMMA TurnGoesOn ==
    ASSUME IInv, TurnInv, NEW r \in Requests, NEW n \in Names, On(req[r], n),
           NEW q, req' = [req EXCEPT ![r] = q], UNCHANGED filesVars, CAFirst',
           \/ q.pc = "idle" /\ Settled(n)
           \/ q.pc # "idle" /\ q.n = n /\ Working(n, q)
    PROVE  TurnInv'
  <1>1. \A m \in Names : Same(m)
    BY AllSame
  <1>2. (Settled(n) => Settled(n)') /\ (Working(n, q) => Working(n, q)')
    BY <1>1, SameStays
  <1> QED BY <1>1, <1>2, TurnMoves

LEMMA ArriveTurn ==
    ASSUME IInv, TurnInv, TakesTurns, NEW r \in Requests, Arrive(r) PROVE TurnInv'
  <1>0. PICK n \in Names :
        \/ \E cn \in CNs, mode \in Modes, ip \in Addrs, pw \in BOOLEAN :
              CreateClient(r, n, cn, mode, ip, pw)
        \/ \E cn \in CNs, ip \in Addrs, pw \in BOOLEAN : PatchClient(r, n, cn, ip, pw)
        \/ \E cn \in CNs : DeleteClient(r, n, cn)
        \/ Render(r, n)
    BY DEF Arrive, Addrs
  <1>1. ASSUME NEW cn \in CNs, NEW mode \in Modes, NEW ip \in Addrs, NEW pw \in BOOLEAN,
               CreateClient(r, n, cn, mode, ip, pw)
        PROVE  TurnInv'
    <2> PICK q : q = [Idle EXCEPT !.pc = "exists", !.n = n, !.cn = cn, !.pw = pw,
                                  !.rec = [mode |-> mode, serial |-> None, ip |-> ip]]
      OBVIOUS
    <2>1. q.pc = "exists" /\ q.n = n
      BY DEF Idle
    <2>2. Settled(n) => Working(n, q)
      BY <2>1 DEF Settled, Working, PasswordsKept, ListsKept, Signing, Deleting
    <2>3. /\ req[r].pc = "idle" /\ Busy(n) = {} /\ req' = [req EXCEPT ![r] = q]
          /\ UNCHANGED <<storeVars, pkiVars, passwd, gone>>
      BY <1>1 DEF CreateClient, Admitted, TakesTurns
    <2> QED BY <2>1, <2>2, <2>3, TurnStarts
  <1>2. ASSUME NEW cn \in CNs, NEW ip \in Addrs, NEW pw \in BOOLEAN,
               PatchClient(r, n, cn, ip, pw)
        PROVE  TurnInv'
    <2> PICK old : old = mem.cli[n][cn]
      OBVIOUS
    <2> PICK q : q = [Idle EXCEPT !.pc = IF pw /\ HasPassword(old.mode) THEN "passwd" ELSE "pin",
                                  !.n = n, !.cn = cn, !.pw = pw /\ HasPassword(old.mode),
                                  !.rec = [old EXCEPT !.ip = ip]]
      OBVIOUS
    <2>1. old \in ClientRecs /\ old # Absent
      BY <1>2 DEF PatchClient, IInv, RecordsInv, Sound, Data
    <2>2. q.pc \in {"passwd", "pin"} /\ q.n = n /\ q.cn = cn /\ q.rec.mode = old.mode
      <3>1. [old EXCEPT !.ip = ip].mode = old.mode
        BY <2>1, RecsAssumption
      <3> QED BY <3>1 DEF Idle
    <2>3. Settled(n) => Working(n, q)
      BY <2>1, <2>2 DEF Settled, Working, PasswordsOK, NeedsPassword, PasswordsKept, ListsKept,
         Signing, Deleting
    <2>4. /\ req[r].pc = "idle" /\ Busy(n) = {} /\ req' = [req EXCEPT ![r] = q]
          /\ UNCHANGED <<storeVars, pkiVars, passwd, gone>>
      BY <1>2 DEF PatchClient, Admitted, TakesTurns
    <2> QED BY <2>2, <2>3, <2>4, TurnStarts
  <1>3. ASSUME NEW cn \in CNs, DeleteClient(r, n, cn) PROVE TurnInv'
    <2> PICK rec : rec = mem.cli[n][cn]
      OBVIOUS
    <2> PICK q : q = [Idle EXCEPT !.pc = IF rec.serial # None THEN "revoke" ELSE AfterReload(rec),
                                  !.n = n, !.cn = cn, !.rec = rec]
      OBVIOUS
    <2>1. q.pc \in {"revoke", "users", "unpin"} /\ q.n = n /\ q.cn = cn /\ q.rec = rec
          /\ (q.pc = "revoke" <=> rec.serial # None)
      BY DEF Idle, AfterReload
    <2>2. rec.serial # None => n \in ca
      BY <1>3 DEF DeleteClient, IInv, RecordsInv, Sound, Backed, TurnInv, CAFirst
    <2>3. Settled(n) => Working(n, q)
      BY <2>1, <2>2 DEF Settled, Working, PasswordsOK, PasswordsKept, ListsKept, Signing, Deleting
    <2>4. /\ req[r].pc = "idle" /\ Busy(n) = {} /\ req' = [req EXCEPT ![r] = q]
          /\ UNCHANGED <<storeVars, pkiVars, passwd, gone>>
      BY <1>3 DEF DeleteClient, Admitted, TakesTurns
    <2> QED BY <2>1, <2>3, <2>4, TurnStarts
  <1>4. ASSUME Render(r, n) PROVE TurnInv'
    <2> PICK q : q = [Idle EXCEPT !.pc = "sync", !.n = n, !.todo = Addresses(n)]
      OBVIOUS
    <2>1. q.pc = "sync" /\ q.n = n
      BY DEF Idle
    <2>2. Settled(n) => Working(n, q)
      BY <2>1 DEF Settled, Working, PasswordsKept, ListsKept, Signing, Deleting
    <2>3. /\ req[r].pc = "idle" /\ Busy(n) = {} /\ req' = [req EXCEPT ![r] = q]
          /\ UNCHANGED <<storeVars, pkiVars, passwd, gone>>
      BY <1>4 DEF Render, TakesTurns
    <2> QED BY <2>1, <2>2, <2>3, TurnStarts
  <1> QED BY <1>0, <1>1, <1>2, <1>3, <1>4

(* The steps that leave those files alone. *)
LEMMA QuietTurn ==
    ASSUME IInv, TurnInv, TakesTurns, NEW r \in Requests,
           \/ Exists(r) \/ IssuePem(r) \/ IssueKey(r) \/ IssueRefused(r)
           \/ PinRefused(r) \/ PinOpen(r) \/ PinWrite(r)
           \/ LoadRevoked(r) \/ Reload(r) \/ ReadUsers(r) \/ Unpin(r)
           \/ (\E cn \in CNs : SyncOpen(r, cn)) \/ SyncWrite(r) \/ SyncDone(r)
    PROVE  TurnInv'
  <1> PICK o, n : o = req[r] /\ n = o.n
    OBVIOUS
  <1>1. o \in RequestState /\ LocalsOK(o, pems, keys) /\ o.pc # "idle" /\ n \in Names
    BY DEF IInv, RequestsInv, LocalsOK, Exists, IssuePem, IssueKey, IssueRefused, PinRefused,
           PinOpen, PinWrite, LoadRevoked, Reload, ReadUsers, Unpin, SyncOpen, SyncWrite, SyncDone
  <1>2. UNCHANGED filesVars
    BY DEF Exists, IssuePem, WritePem, IssueKey, WriteKey, IssueRefused, PinRefused, PinOpen,
           PinWrite, LoadRevoked, Reload, ReadUsers, Unpin, SyncOpen, SyncWrite, SyncDone,
           storeVars, pkiVars, filesVars
  <1>3. CAFirst'
    <2>1. pems' = pems \/ \E cn, s : pems' = pems \cup {[n |-> n, cn |-> cn, serial |-> s]} /\ n \in ca
      BY DEF Exists, IssuePem, WritePem, IssueKey, WriteKey, IssueRefused, PinRefused, PinOpen,
             PinWrite, LoadRevoked, Reload, ReadUsers, Unpin, SyncOpen, SyncWrite, SyncDone, pkiVars
    <2> QED BY <1>2, <2>1 DEF TurnInv, CAFirst, filesVars
  <1>4. On(req[r], n) /\ Working(n, o)
    BY <1>1 DEF On, TurnInv, TurnOn
  <1>5. ASSUME Return(r), o.pc \notin Signing \cup {"rewrite", "unpin", "drop"} PROVE TurnInv'
    <2>1. Settled(n)
      BY <1>4, <1>5 DEF Working, PasswordsKept, ListsKept, Settled
    <2> QED BY <1>1, <1>2, <1>3, <1>4, <1>5, <2>1, TurnGoesOn, IdleTyped DEF Return
  <1>6. ASSUME NEW q, req' = [req EXCEPT ![r] = q], q.pc # "idle", q.n = n, Working(n, q)
        PROVE  TurnInv'
    BY <1>1, <1>2, <1>3, <1>4, <1>6, TurnGoesOn
  <1>7. ASSUME NEW pc, Goto(r, pc)
        PROVE  \E q : /\ req' = [req EXCEPT ![r] = q] /\ q.pc = pc /\ q.n = n /\ q.cn = o.cn
                      /\ q.rec = o.rec /\ q.snap = o.snap /\ q.users = o.users
    <2> PICK q : q = [o EXCEPT !.pc = pc]
      OBVIOUS
    <2>1. /\ q.pc = pc /\ q.n = n /\ q.cn = o.cn /\ q.rec = o.rec /\ q.snap = o.snap
          /\ q.users = o.users
      BY <1>1 DEF RequestState
    <2>2. req' = [req EXCEPT ![r] = q]
      BY <1>7 DEF Goto
    <2> QED BY <2>1, <2>2
  <1> USE DEF Working, PasswordsKept, ListsKept, ListsAgree, Signing, Deleting
  <1>8. CASE Exists(r) \/ IssueKey(r)
    <2> SUFFICES ASSUME NEW pc \in {"issue", "passwd", "pin"}, Goto(r, pc),
                        pc = "pin" => ~HasPassword(o.rec.mode),
                        o.pc \in {"exists", "key"}
                 PROVE  TurnInv'
      BY <1>5, <1>8 DEF Exists, IssueKey, AfterIssue
    <2> QED BY <1>4, <1>6, <1>7
  <1>9. CASE IssuePem(r)
    <2> PICK s : req' = [req EXCEPT ![r].pc = "key", ![r].rec.serial = s]
      BY <1>9 DEF IssuePem
    <2> PICK q : q = [o EXCEPT !.pc = "key", !.rec = [o.rec EXCEPT !.serial = s]]
      OBVIOUS
    <2>1. q.pc = "key" /\ q.n = n
      BY <1>1 DEF RequestState
    <2>2. req' = [req EXCEPT ![r] = q]
      OBVIOUS
    <2>3. o.pc = "issue"
      BY <1>9 DEF IssuePem
    <2> QED BY <1>4, <1>6, <2>1, <2>2, <2>3
  <1>10. CASE IssueRefused(r) \/ PinRefused(r) \/ SyncDone(r)
    BY <1>5, <1>10 DEF IssueRefused, PinRefused, SyncDone
  <1>11. CASE PinOpen(r) \/ PinWrite(r)
    <2>1. PICK pc \in {"pinWrite", "put"} : Goto(r, pc) /\ o.pc \in {"pin", "pinWrite"}
      BY <1>11 DEF PinOpen, PinWrite
    <2> QED BY <1>4, <1>6, <1>7, <2>1
  <1>12. CASE LoadRevoked(r)
    <2>1. o.pc = "revoke"
      BY <1>12 DEF LoadRevoked
    <2>2. ASSUME Goto(r, "reload"), o.rec.serial \in revoked[n] PROVE TurnInv'
      BY <1>4, <1>6, <1>7, <2>1, <2>2
    <2>3. ASSUME NEW snap, snap = revoked[n] \cup {o.rec.serial},
                 req' = [req EXCEPT ![r].pc = "truncate", ![r].snap = snap]
          PROVE  TurnInv'
      <3> PICK q : q = [o EXCEPT !.pc = "truncate", !.snap = snap]
        OBVIOUS
      <3>1. /\ q.pc = "truncate" /\ q.n = n /\ q.cn = o.cn /\ q.rec = o.rec /\ q.snap = snap
            /\ req' = [req EXCEPT ![r] = q]
        BY <1>1, <2>3 DEF RequestState
      <3> QED BY <1>4, <1>6, <2>1, <2>3, <3>1
    <2> QED BY <1>5, <1>12, <2>1, <2>2, <2>3 DEF LoadRevoked
  <1>13. CASE Reload(r)
    <2> SUFFICES ASSUME NEW pc \in {"users", "unpin"}, Goto(r, pc), o.pc = "reload"
                 PROVE  TurnInv'
      BY <1>13 DEF Reload, AfterReload
    <2> QED BY <1>4, <1>6, <1>7 DEF PasswordsOK
  <1>14. CASE ReadUsers(r)
    <2>1. o.pc = "users"
      BY <1>14 DEF ReadUsers
    <2>2. ASSUME Goto(r, "unpin") PROVE TurnInv'
      BY <1>4, <1>6, <1>7, <2>1, <2>2 DEF PasswordsOK
    <2>3. ASSUME NEW users, users = passwd[n] \ {o.cn},
                 req' = [req EXCEPT ![r].pc = "wipe", ![r].users = users]
          PROVE  TurnInv'
      <3> PICK q : q = [o EXCEPT !.pc = "wipe", !.users = users]
        OBVIOUS
      <3>1. /\ q.pc = "wipe" /\ q.n = n /\ q.cn = o.cn /\ q.rec = o.rec /\ q.users = users
            /\ req' = [req EXCEPT ![r] = q]
        BY <1>1, <2>3 DEF RequestState
      <3>2. \A cn \in CNs : cn # q.cn /\ NeedsPassword(n, cn) => cn \in q.users
        BY <1>4, <2>1, <2>3, <3>1 DEF PasswordsOK
      <3>3. Working(n, q)
        BY <1>4, <2>1, <3>1, <3>2
      <3> QED BY <1>6, <3>1, <3>3
    <2> QED BY <1>14, <2>2, <2>3 DEF ReadUsers
  <1>15. CASE Unpin(r)
    <2>1. Goto(r, "drop") /\ o.pc = "unpin"
      BY <1>15 DEF Unpin
    <2> QED BY <1>4, <1>6, <1>7, <2>1
  <1>16. CASE (\E cn \in CNs : SyncOpen(r, cn)) \/ SyncWrite(r)
    <2>1. o.pc \in {"sync", "syncWrite"} /\ Rendering(r)
      BY <1>16 DEF SyncOpen, SyncWrite, Rendering
    <2>2. ASSUME NEW cn \in CNs, req' = [req EXCEPT ![r].pc = "syncWrite", ![r].cn = cn]
          PROVE  TurnInv'
      <3> PICK q : q = [o EXCEPT !.pc = "syncWrite", !.cn = cn]
        OBVIOUS
      <3>1. q.pc = "syncWrite" /\ q.n = n /\ req' = [req EXCEPT ![r] = q]
        BY <1>1, <2>2 DEF RequestState
      <3> QED BY <1>4, <1>6, <2>1, <3>1
    <2>3. ASSUME NEW cn \in CNs,
                 \/ req' = [req EXCEPT ![r].pc = "sync", ![r].todo[cn] = NoIP]
                 \/ req[r].pc = "sync" /\ req' = [req EXCEPT ![r].todo[cn] = NoIP]
          PROVE  TurnInv'
      <3>1. PICK q : req' = [req EXCEPT ![r] = q] /\ q.pc = "sync" /\ q.n = n
        BY ZenonT(60), <2>1, <2>3, RenderGoesOn
      <3> QED BY <1>4, <1>6, <2>1, <3>1
    <2>4. ASSUME NEW cn \in CNs, SyncOpen(r, cn) PROVE TurnInv'
      BY <2>2, <2>3, <2>4 DEF SyncOpen
    <2>5. ASSUME SyncWrite(r) PROVE TurnInv'
      <3>1. o.cn \in CNs
        BY <2>5 DEF SyncWrite, IInv, RequestsInv, LocalsOK
      <3> QED BY <2>3, <2>5, <3>1 DEF SyncWrite, Listed
    <2> QED BY <1>16, <2>4, <2>5
  <1> QED BY <1>8, <1>9, <1>10, <1>11, <1>12, <1>13, <1>14, <1>15, <1>16

(* The steps that write one of them: the other instances keep theirs. *)
LEMMA WriterTurn ==
    ASSUME IInv, TurnInv, TakesTurns, NEW r \in Requests, NEW ok \in Outcomes,
           \/ SetPassword(r) \/ Put(r, ok) \/ Drop(r, ok) \/ SaveRevokedOpen(r)
           \/ SaveRevokedWrite(r) \/ RegenCRLOpen(r) \/ RegenCRLWrite(r) \/ WipeUsers(r)
           \/ RewriteUsers(r)
    PROVE  TurnInv'
  <1> PICK o, n, cn : o = req[r] /\ n = o.n /\ cn = o.cn
    OBVIOUS
  <1> USE DEF SaveRevokedOpen, SaveRevokedWrite, RegenCRLOpen, RegenCRLWrite, Revoking
  <1>1. /\ o \in RequestState /\ LocalsOK(o, pems, keys) /\ o.pc # "idle"
        /\ n \in Names /\ cn \in CNs
    BY DEF IInv, RequestsInv, LocalsOK, SetPassword, Put, Drop, WipeUsers, RewriteUsers
  <1>2. On(req[r], n) /\ Working(n, o) /\ CAFirst
    BY <1>1 DEF On, TurnInv, TurnOn
  <1>3. /\ mem \in Data /\ Rooted(mem) /\ passwd \in [Names -> SUBSET CNs]
        /\ PkiTypeOK /\ gone \in [Names -> SUBSET Serials]
    BY DEF IInv, RecordsInv, Sound, FilesTyped
  <1>4. ASSUME CAFirst', Return(r), Settled(n)', \A m \in Names : m # n => Same(m)
        PROVE  TurnInv'
    BY <1>1, <1>2, <1>4, TurnMoves, IdleTyped DEF Return
  <1>5. ASSUME CAFirst', NEW q, req' = [req EXCEPT ![r] = q], q.pc # "idle", q.n = n,
               Working(n, q)', \A m \in Names : m # n => Same(m)
        PROVE  TurnInv'
    BY <1>1, <1>2, <1>5, TurnMoves
  <1>6. ASSUME NEW pc, Goto(r, pc) \/ Leave(r, pc)
        PROVE  \E q : /\ req' = [req EXCEPT ![r] = q] /\ q.pc = pc /\ q.n = n /\ q.cn = cn
                      /\ q.rec = o.rec
                      /\ Goto(r, pc) => q.snap = o.snap /\ q.users = o.users
    <2>1. CASE Goto(r, pc)
      <3> PICK q : q = [o EXCEPT !.pc = pc]
        OBVIOUS
      <3>1. /\ q.pc = pc /\ q.n = n /\ q.cn = cn /\ q.rec = o.rec /\ q.snap = o.snap
            /\ q.users = o.users /\ req' = [req EXCEPT ![r] = q]
        BY <1>1, <2>1 DEF RequestState, Goto
      <3> QED BY <3>1
    <2>2. CASE Leave(r, pc) /\ ~Goto(r, pc)
      <3> PICK q : q = [o EXCEPT !.pc = pc, !.pw = FALSE, !.snap = {}, !.users = {}]
        OBVIOUS
      <3>1. /\ q.pc = pc /\ q.n = n /\ q.cn = cn /\ q.rec = o.rec
            /\ req' = [req EXCEPT ![r] = q]
        BY <1>1, <2>2 DEF RequestState, Leave
      <3> QED BY <2>2, <3>1
    <2> QED BY <1>6, <2>1, <2>2
  <1>7. CASE SetPassword(r)
    <2>1. /\ UNCHANGED <<mem, revoked, crl, gone, ca, pems>> /\ o.pc = "passwd"
          /\ CAFirst'
      BY <1>2, <1>7, CAFirstKept DEF SetPassword, storeVars, pkiVars
    <2>2. CASE Return(r) /\ passwd' = passwd
      <3>1. Settled(n) /\ \A m \in Names : Same(m)
        BY <1>2, <2>1, <2>2 DEF Working, PasswordsKept, ListsKept, Settled, Signing, Same
      <3> QED BY <1>1, <1>4, <2>1, <2>2, <3>1, SameStays
    <2>3. CASE Leave(r, "pin") /\ passwd' = [passwd EXCEPT ![n] = @ \cup {cn}]
      <3>1. PICK q : /\ req' = [req EXCEPT ![r] = q] /\ q.pc = "pin" /\ q.n = n /\ q.cn = cn
                     /\ q.rec = o.rec
        BY <1>6, <2>3
      <3>2. passwd'[n] = passwd[n] \cup {cn} /\ \A m \in Names : m # n => passwd'[m] = passwd[m]
        BY <1>1, <1>3, <2>3
      <3>3. PasswordsOK(n)' /\ ListsAgree(n)'
        BY <1>2, <2>1, <3>2
           DEF Working, PasswordsKept, PasswordsOK, NeedsPassword, ListsKept, ListsAgree, Signing
      <3>4. PasswordsKept(n, q)'
        BY <3>1, <3>2, <3>3 DEF PasswordsKept
      <3>5. ListsKept(n, q)'
        BY <3>1, <3>3 DEF ListsKept, Signing, Deleting
      <3>6. \A m \in Names : m # n => Same(m)
        BY <2>1, <3>2 DEF Same
      <3> QED BY <1>5, <2>1, <3>1, <3>4, <3>5, <3>6 DEF Working
    <2> QED BY <1>7, <2>2, <2>3 DEF SetPassword
  <1>8. CASE Put(r, ok) \/ Drop(r, ok)
    <2>1. /\ UNCHANGED <<revoked, crl, passwd, ca, pems>> /\ o.pc \in {"put", "drop"}
          /\ Return(r) /\ CAFirst'
      BY <1>2, <1>8, CAFirstKept DEF Put, Drop, pkiVars
    <2>2. PICK c : /\ \A m \in Names : m # n => mem'.cli[m] = mem.cli[m]
                   /\ \A k \in CNs : mem'.cli[n][k] = IF k = cn THEN c ELSE mem.cli[n][k]
                   /\ \/ c = Absent
                      \/ o.pc = "put" /\ c = o.rec
      <3>1. CASE o.pc = "put" /\ Known(mem, n)
        <4>1. mem' = WithClient(mem, n, cn, o.rec)
          BY <1>8, <3>1 DEF Put, Drop, DB!Commit
        <4> QED BY <1>1, <1>3, <3>1, <4>1 DEF WithClient, Data
      <3>2. CASE o.pc = "put" /\ ~Known(mem, n)
        <4>1. mem' = mem /\ mem.cli[n][cn] = Absent
          BY <1>1, <1>3, <1>8, <3>2 DEF Put, Drop, storeVars, Rooted
        <4> QED BY <4>1
      <3>3. CASE o.pc = "drop"
        <4>1. mem' = WithoutClient(mem, n, cn)
          BY <1>8, <3>3 DEF Put, Drop, DB!Commit
        <4> QED BY <1>1, <1>3, <4>1 DEF WithoutClient, Data
      <3> QED BY <2>1, <3>1, <3>2, <3>3
    <2>3. /\ \A m \in Names : m # n => gone'[m] = gone[m]
          /\ gone'[n] \subseteq gone[n] \cup (IF o.pc = "drop" THEN {o.rec.serial} \ {None} ELSE {})
      BY <1>1, <1>3, <1>8 DEF Put, Drop
    <2>4. PasswordsOK(n)'
      <3> SUFFICES ASSUME NEW k \in CNs, NeedsPassword(n, k)' PROVE k \in passwd[n]
        BY <2>1 DEF PasswordsOK
      <3>1. CASE k # cn
        BY <1>2, <2>1, <2>2, <3>1 DEF NeedsPassword, Working, PasswordsKept, PasswordsOK
      <3>2. CASE k = cn
        BY <1>2, <2>2, <3>2 DEF NeedsPassword, Working, PasswordsKept
      <3> QED BY <3>1, <3>2
    <2>5. ListsAgree(n)'
      <3>1. gone'[n] \subseteq revoked[n]
        BY <1>2, <2>1, <2>3 DEF Working, ListsKept, ListsAgree, Signing, Deleting
      <3> QED BY <1>2, <2>1, <3>1 DEF Working, ListsKept, ListsAgree, Signing
    <2>6. \A m \in Names : m # n => Same(m)
      BY <2>1, <2>2, <2>3 DEF Same
    <2> QED BY <1>4, <2>1, <2>4, <2>5, <2>6 DEF Settled
  <1>9. CASE WipeUsers(r) \/ RewriteUsers(r)
    <2> PICK pc, users :
          /\ pc \in {"rewrite", "unpin"}
          /\ o.pc = IF pc = "rewrite" THEN "wipe" ELSE "rewrite"
          /\ pc = "unpin" => users = o.users
          /\ passwd' = [passwd EXCEPT ![n] = users]
          /\ IF pc = "rewrite" THEN Goto(r, pc) ELSE Leave(r, pc)
      BY <1>9 DEF WipeUsers, RewriteUsers
    <2>1. UNCHANGED <<mem, revoked, crl, gone, ca, pems>> /\ CAFirst'
      BY <1>2, <1>9, CAFirstKept DEF WipeUsers, RewriteUsers, storeVars, pkiVars
    <2>2. PICK q : /\ req' = [req EXCEPT ![r] = q] /\ q.pc = pc /\ q.n = n /\ q.cn = cn
                   /\ q.rec = o.rec
                   /\ Goto(r, pc) => q.snap = o.snap /\ q.users = o.users
      BY <1>6
    <2>3. passwd'[n] = users /\ \A m \in Names : m # n => passwd'[m] = passwd[m]
      BY <1>1, <1>3
    <2>4. PasswordsKept(n, q)'
      BY <1>2, <2>1, <2>2, <2>3 DEF Working, PasswordsKept, NeedsPassword
    <2>5. ListsKept(n, q)'
      BY <1>2, <2>1, <2>2 DEF Working, ListsKept, ListsAgree, Signing, Deleting
    <2>6. \A m \in Names : m # n => Same(m)
      BY <2>1, <2>3 DEF Same
    <2> QED BY <1>5, <2>1, <2>2, <2>4, <2>5, <2>6 DEF Working
  <1>10. ASSUME \/ SaveRevokedOpen(r) \/ SaveRevokedWrite(r) \/ RegenCRLOpen(r) \/ RegenCRLWrite(r)
         PROVE  /\ UNCHANGED <<mem, passwd, gone, ca, pems>>
                /\ \A m \in Names : m # n => Same(m)
                /\ CAFirst'
    <2>1. UNCHANGED <<mem, passwd, gone, ca, pems>>
      BY <1>10 DEF TruncateRevoked, WriteRevoked, TruncateCRL, WriteCRL, storeVars
    <2>2. \A m \in Names : m # n => revoked'[m] = revoked[m] /\ crl'[m] = crl[m]
      BY <1>1, <1>3, <1>10 DEF TruncateRevoked, WriteRevoked, TruncateCRL, WriteCRL, PkiTypeOK
    <2>3. n \in ca
      BY <1>2, <1>10 DEF Working, ListsKept, Signing
    <2> QED BY <1>2, <2>1, <2>2, <2>3 DEF Same, CAFirst
  <1>11. ASSUME NEW q, q.cn = cn, UNCHANGED <<mem, passwd>>,
                {o.pc, q.pc} \subseteq {"truncate", "reload"} \cup Signing
         PROVE  PasswordsKept(n, q)'
    BY <1>2, <1>11 DEF Working, PasswordsKept, PasswordsOK, NeedsPassword, Signing
  <1>12. ASSUME NEW pc, Goto(r, pc), {o.pc, pc} \subseteq {"truncate"} \cup Signing,
                CAFirst', UNCHANGED <<mem, passwd>>, \A m \in Names : m # n => Same(m),
                \A q : q.pc = pc /\ q.rec = o.rec /\ q.snap = o.snap => ListsKept(n, q)'
         PROVE  TurnInv'
    <2>1. PICK q : /\ req' = [req EXCEPT ![r] = q] /\ q.pc = pc /\ q.n = n /\ q.cn = cn
                   /\ q.rec = o.rec /\ q.snap = o.snap
      BY <1>6, <1>12
    <2>2. PasswordsKept(n, q)' /\ ListsKept(n, q)'
      BY <1>11, <1>12, <2>1
    <2> QED BY <1>5, <1>12, <2>1, <2>2 DEF Working, Signing
  <1>13. CASE SaveRevokedOpen(r)
    <2>1. /\ o.pc = "truncate" /\ Goto(r, "save") /\ crl' = crl
      BY <1>13 DEF TruncateRevoked
    <2>2. ASSUME NEW q, q.pc = "save", q.rec = o.rec, q.snap = o.snap PROVE ListsKept(n, q)'
      BY <1>2, <1>10, <1>13, <2>1, <2>2 DEF Working, ListsKept, ListsAgree, Signing, Deleting
    <2> QED BY <1>10, <1>12, <1>13, <2>1, <2>2 DEF Signing
  <1>14. CASE SaveRevokedWrite(r)
    <2>1. /\ o.pc = "save" /\ Goto(r, "crl") /\ crl' = crl /\ revoked'[n] = o.snap
      BY <1>1, <1>3, <1>14 DEF WriteRevoked, PkiTypeOK
    <2>2. ASSUME NEW q, q.pc = "crl", q.rec = o.rec, q.snap = o.snap PROVE ListsKept(n, q)'
      BY <1>2, <1>10, <1>14, <2>1, <2>2 DEF Working, ListsKept, Signing, Deleting
    <2> QED BY <1>10, <1>12, <1>14, <2>1, <2>2 DEF Signing
  <1>15. CASE RegenCRLOpen(r)
    <2>1. /\ o.pc = "crl" /\ Goto(r, "sign") /\ revoked' = revoked /\ crl'[n] = Torn
      BY <1>1, <1>3, <1>15 DEF TruncateCRL, PkiTypeOK
    <2>2. ASSUME NEW q, q.pc = "sign", q.rec = o.rec, q.snap = o.snap PROVE ListsKept(n, q)'
      BY <1>2, <1>10, <1>15, <2>1, <2>2 DEF Working, ListsKept, Signing, Deleting
    <2> QED BY <1>10, <1>12, <1>15, <2>1, <2>2 DEF Signing
  <1>16. CASE RegenCRLWrite(r)
    <2>1. /\ o.pc = "sign" /\ Leave(r, "reload") /\ revoked' = revoked /\ crl'[n] = o.snap
      BY <1>1, <1>3, <1>16 DEF WriteCRL, PkiTypeOK
    <2>2. PICK q : /\ req' = [req EXCEPT ![r] = q] /\ q.pc = "reload" /\ q.n = n /\ q.cn = cn
                   /\ q.rec = o.rec
      BY <1>6, <2>1
    <2>3. ListsKept(n, q)'
      BY <1>2, <1>10, <1>16, <2>1, <2>2 DEF Working, ListsKept, ListsAgree, Signing, Deleting
    <2>4. PasswordsKept(n, q)'
      BY <1>10, <1>11, <1>16, <2>1, <2>2 DEF Signing
    <2> QED BY <1>5, <1>10, <1>16, <2>2, <2>3, <2>4 DEF Working
  <1> QED BY <1>7, <1>8, <1>9, <1>13, <1>14, <1>15, <1>16

(* Around the handlers: instances come and go only between them. A CA, and with  *)
(* it an empty CRL, is only made where nothing was ever revoked.                 *)
LEMMA EnvironmentTurn == ASSUME IInv, TurnInv, TakesTurns, Environment PROVE TurnInv'
  <1>1. ASSUME req' = req, CAFirst', NEW n \in Names,
               \A m \in Names : Same(m) \/ (m = n /\ Busy(n) = {} /\ (Settled(n) => Settled(n)'))
        PROVE  TurnInv'
    <2> SUFFICES ASSUME NEW m \in Names PROVE TurnOn(m)'
      BY <1>1 DEF TurnInv
    <2>1. TurnOn(m)
      BY DEF TurnInv
    <2>2. CASE Same(m)
      BY <1>1, <2>1, <2>2, SameStays DEF TurnOn
    <2>3. CASE Busy(m) = {} /\ (Settled(m) => Settled(m)')
      <3>1. \A r \in Requests : ~On(req[r], m)
        BY <2>3 DEF Busy, On
      <3> QED BY <1>1, <2>1, <2>3, <3>1 DEF TurnOn
    <2> QED BY <1>1, <2>2, <2>3
  <1>2. mem \in Data /\ PkiTypeOK /\ CAFirst
    BY DEF IInv, RecordsInv, Sound, FilesTyped, TurnInv
  <1>3. ASSUME NEW n \in Names, NEW rec \in InstanceRecs, NEW caIfEmpty, NEW ok,
               CreateInstance(n, rec, caIfEmpty, ok)
        PROVE  TurnInv'
    <2>1. /\ mem'.cli = mem.cli /\ UNCHANGED <<req, passwd, gone, pems, revoked>>
          /\ Busy(n) = {}
      BY <1>2, <1>3 DEF CreateInstance, Quiet, TakesTurns, EnsureCA, pkiVars, DB!Commit,
         WithInstance, Data
    <2>2. /\ ca \subseteq ca' /\ \A m \in Names : m # n => crl'[m] = crl[m]
          /\ crl'[n] = crl[n] \/ (n \notin ca /\ crl'[n] = {})
      BY <1>2, <1>3 DEF CreateInstance, EnsureCA, pkiVars, PkiTypeOK
    <2>3. CAFirst'
      BY <1>2, <2>1, <2>2 DEF CAFirst
    <2>4. \A m \in Names : m # n => Same(m)
      BY <2>1, <2>2 DEF Same
    <2>5. ASSUME Settled(n) PROVE Settled(n)'
      <3>1. revoked[n] = crl'[n] /\ gone[n] \subseteq revoked[n]
        BY <1>2, <2>2, <2>5 DEF Settled, ListsAgree, CAFirst
      <3> QED BY <2>1, <2>5, <3>1 DEF Settled, ListsAgree, PasswordsOK, NeedsPassword
    <2> QED BY <1>1, <2>1, <2>3, <2>4, <2>5
  <1>4. ASSUME NEW n \in Names, NEW ok, DeleteInstance(n, ok) PROVE TurnInv'
    <2>1. /\ mem' = WithoutInstance(mem, n) /\ UNCHANGED <<req, passwd, gone, pkiVars>>
          /\ Busy(n) = {}
      BY <1>4 DEF DeleteInstance, Quiet, TakesTurns, DB!Commit
    <2>2. /\ \A m \in Names : m # n => mem'.cli[m] = mem.cli[m]
          /\ \A k \in CNs : mem'.cli[n][k] = Absent
      BY <1>2, <2>1 DEF WithoutInstance, Data
    <2>3. CAFirst'
      BY <1>2, <2>1, CAFirstKept DEF pkiVars
    <2>4. \A m \in Names : m # n => Same(m)
      BY <2>1, <2>2 DEF Same, pkiVars
    <2>5. Settled(n) => Settled(n)'
      BY <2>1, <2>2 DEF Settled, ListsAgree, PasswordsOK, NeedsPassword, pkiVars
    <2> QED BY <1>1, <2>1, <2>3, <2>4, <2>5
  <1>5. ASSUME NEW n \in Names, OcservStarts(n) \/ OcservReloads(n) \/ OcservExits(n)
        PROVE  TurnInv'
    <2>1. UNCHANGED <<storeVars, pkiVars, req, passwd, gone>>
      BY <1>5 DEF OcservStarts, OcservReloads, OcservExits
    <2>2. CAFirst' /\ \A m \in Names : Same(m)
      BY <1>2, <2>1, AllSame, CAFirstKept DEF filesVars, storeVars, pkiVars
    <2> QED BY <1>1, <2>1, <2>2
  <1> QED BY <1>3, <1>4, <1>5 DEF Environment, Restart, TakesTurns

LEMMA NextTurn == ASSUME IInv, TurnInv, TakesTurns, [Next]_vars PROVE TurnInv'
  <1>1. ASSUME NEW r \in Requests, Step(r) PROVE TurnInv'
    <2>1. ~Fails(r) /\ ~FailsUnnoticed(r)
      BY DEF Fails, FailsUnnoticed, TakesTurns
    <2>2. TRUE \in Outcomes
      BY DEF Outcomes
    <2> QED BY <1>1, <2>1, <2>2, QuietTurn, WriterTurn DEF Step
  <1>2. ASSUME UNCHANGED vars PROVE TurnInv'
    <2>1. UNCHANGED <<req, filesVars, pems>>
      BY <1>2 DEF vars, filesVars, storeVars, pkiVars
    <2>2. CAFirst' /\ \A m \in Names : Same(m)
      BY <2>1, AllSame, CAFirstKept DEF filesVars, TurnInv
    <2> QED BY <2>1, <2>2, SameStays DEF TurnInv, TurnOn
  <1> QED BY <1>1, <1>2, ArriveTurn, EnvironmentTurn DEF Next

LEMMA SpecTurn == ASSUME TakesTurns PROVE Spec => []TurnInv
  <1>1. IInv /\ TurnInv /\ [Next]_vars => TurnInv'
    BY NextTurn
  <1> QED BY <1>1, InitTurn, SpecIInv, PTL DEF Spec

(* When callers take turns on an instance, file operations work and the daemon    *)
(* does not die, the certificate of every client deleted with success is in every *)
(* whole CRL from then on, through later lives of the instance too.               *)
THEOREM RevocationsLast ==
    ASSUME Discipline = "instance", MayFail = FALSE, MayCrash = FALSE
    PROVE  Spec => []DeletedStaysRevoked
  BY SpecTurn, TurnImplies, PTL DEF TakesTurns

(* Under the same conditions the changes of one client never cost another its     *)
(* line in the password file, although every delete rewrites the file.            *)
THEOREM PasswordsLast ==
    ASSUME Discipline = "instance", MayFail = FALSE, MayCrash = FALSE
    PROVE  Spec => []PasswordKept
  BY SpecTurn, TurnImplies, PTL DEF TakesTurns

--------------------------------------------------------------------------------
(* Every handler comes to an end, as far as that is not a matter of fairness: it *)
(* never goes back, but for a render that has one client less on its list.        *)

StepsLeft(pc) ==
    CASE pc = "exists" -> 12 [] pc = "issue" -> 11 [] pc = "key" -> 10 [] pc = "passwd" -> 9
      [] pc = "pin" -> 8 [] pc = "pinWrite" -> 7 [] pc = "put" -> 6
      [] pc = "revoke" -> 11 [] pc = "truncate" -> 10 [] pc = "save" -> 9 [] pc = "crl" -> 8
      [] pc = "sign" -> 7 [] pc = "reload" -> 6 [] pc = "users" -> 5 [] pc = "wipe" -> 4
      [] pc = "rewrite" -> 3 [] pc = "unpin" -> 2 [] pc = "drop" -> 1
      [] pc = "sync" -> 2 [] pc = "syncWrite" -> 1 [] OTHER -> 0

Unwritten(q) == {cn \in CNs : q.todo[cn] # NoIP}

(* The handler in state p may go on in state q: it returns, or it is the same    *)
(* call with less to do. Only a render takes up another client.                   *)
GoesOn(p, q) ==
    \/ q.pc = "idle"
    \/ /\ q.n = p.n /\ (q.cn = p.cn \/ (p.pc = "sync" /\ q.pc = "syncWrite"))
       /\ Unwritten(q) \subseteq Unwritten(p)
       /\ \/ StepsLeft(q.pc) < StepsLeft(p.pc)
          \/ /\ p.pc \in {"sync", "syncWrite"} /\ q.pc = "sync"
             /\ Unwritten(q) # Unwritten(p)

(* A step that moves a handler takes its call on, or ends it. *)
HandlersGoOn ==
    [][\A r \in Requests :
          req[r].pc # "idle" /\ req'[r] # req[r] => GoesOn(req[r], req'[r])]_vars

LEMMA FewerSteps ==
    ASSUME NEW p, NEW q, q.n = p.n, q.cn = p.cn \/ (p.pc = "sync" /\ q.pc = "syncWrite"),
           q.todo = p.todo, StepsLeft(q.pc) < StepsLeft(p.pc)
    PROVE  GoesOn(p, q)
  <1>1. Unwritten(q) = Unwritten(p)
    BY DEF Unwritten
  <1> QED BY <1>1 DEF GoesOn

LEMMA ShorterList ==
    ASSUME NEW p, NEW q, q.n = p.n, q.cn = p.cn, p.pc \in {"sync", "syncWrite"}, q.pc = "sync",
           NEW cn \in CNs, p.todo \in [CNs -> Addrs], p.todo[cn] # NoIP,
           q.todo = [p.todo EXCEPT ![cn] = NoIP]
    PROVE  GoesOn(p, q)
  <1>1. q.todo[cn] = NoIP /\ \A k \in CNs : k # cn => q.todo[k] = p.todo[k]
    OBVIOUS
  <1>2. cn \in Unwritten(p) /\ cn \notin Unwritten(q)
    BY <1>1 DEF Unwritten
  <1>3. Unwritten(q) \subseteq Unwritten(p)
    BY <1>1 DEF Unwritten
  <1> QED BY <1>2, <1>3 DEF GoesOn

LEMMA Advances ==
    ASSUME RequestsInv, NEW r \in Requests, NEW pc, Goto(r, pc) \/ Leave(r, pc),
           StepsLeft(pc) < StepsLeft(req[r].pc)
    PROVE  GoesOn(req[r], req'[r])
  <1>1. /\ req'[r].pc = pc /\ req'[r].n = req[r].n /\ req'[r].cn = req[r].cn
        /\ req'[r].todo = req[r].todo
    BY DEF RequestsInv, RequestState, Goto, Leave
  <1> QED BY <1>1, FewerSteps

(* A render takes a client off its list. *)
LEMMA Shortens ==
    ASSUME IInv, NEW r \in Requests, Rendering(r), NEW cn \in CNs, req[r].todo[cn] # NoIP,
           \/ req' = [req EXCEPT ![r].pc = "sync", ![r].todo[cn] = NoIP]
           \/ req[r].pc = "sync" /\ req' = [req EXCEPT ![r].todo[cn] = NoIP]
    PROVE  GoesOn(req[r], req'[r])
  <1>1. req[r].todo \in [CNs -> Addrs] /\ req[r].pc \in {"sync", "syncWrite"}
    BY DEF IInv, RequestsInv, RequestState, Rendering
  <1>2. CASE req' = [req EXCEPT ![r].pc = "sync", ![r].todo[cn] = NoIP]
    <2>1. /\ req'[r].pc = "sync" /\ req'[r].n = req[r].n /\ req'[r].cn = req[r].cn
          /\ req'[r].todo = [req[r].todo EXCEPT ![cn] = NoIP]
      BY <1>2 DEF IInv, RequestsInv, RequestState
    <2> QED BY <1>1, <2>1, ShorterList
  <1>3. CASE req[r].pc = "sync" /\ req' = [req EXCEPT ![r].todo[cn] = NoIP]
    <2>1. /\ req'[r].pc = "sync" /\ req'[r].n = req[r].n /\ req'[r].cn = req[r].cn
          /\ req'[r].todo = [req[r].todo EXCEPT ![cn] = NoIP]
      BY <1>3 DEF IInv, RequestsInv, RequestState
    <2> QED BY <1>1, <2>1, ShorterList
  <1> QED BY <1>2, <1>3

LEMMA Returns ==
    ASSUME RequestsInv, NEW r \in Requests, Return(r) PROVE GoesOn(req[r], req'[r])
  BY IdleTyped DEF RequestsInv, Return, GoesOn

LEMMA StepGoesOn == ASSUME IInv, NEW r \in Requests, Step(r) PROVE GoesOn(req[r], req'[r])
  <1>1. RequestsInv /\ req[r] \in RequestState
    BY DEF IInv, RequestsInv
  <1>2. CASE Exists(r) \/ IssueKey(r)
    <2>1. /\ StepsLeft(AfterIssue(req[r].rec)) < 10
          /\ StepsLeft(IF HasCert(req[r].rec.mode) THEN "issue" ELSE AfterIssue(req[r].rec)) < 12
      BY DEF AfterIssue, StepsLeft
    <2>2. CASE Exists(r)
      BY <1>1, <2>1, <2>2, Advances, Returns DEF Exists, StepsLeft
    <2>3. CASE IssueKey(r)
      BY <1>1, <2>1, <2>3, Advances DEF IssueKey, StepsLeft
    <2> QED BY <1>2, <2>2, <2>3
  <1>3. CASE SetPassword(r) \/ PinOpen(r) \/ PinWrite(r)
    <2>1. CASE SetPassword(r)
      BY <1>1, <2>1, Advances, Returns DEF SetPassword, StepsLeft
    <2>2. CASE PinOpen(r)
      BY <1>1, <2>2, Advances DEF PinOpen, StepsLeft
    <2>3. CASE PinWrite(r)
      BY <1>1, <2>3, Advances DEF PinWrite, StepsLeft
    <2> QED BY <1>3, <2>1, <2>2, <2>3
  <1>4. CASE \/ IssueRefused(r) \/ PinRefused(r) \/ SyncDone(r)
             \/ \E ok \in Outcomes : Put(r, ok) \/ Drop(r, ok)
    <2>1. Return(r)
      BY <1>4 DEF IssueRefused, PinRefused, SyncDone, Put, Drop
    <2> QED BY <1>1, <2>1, Returns
  <1>5. CASE \/ SaveRevokedOpen(r) \/ SaveRevokedWrite(r) \/ RegenCRLOpen(r) \/ RegenCRLWrite(r)
             \/ Reload(r)
    <2>1. CASE SaveRevokedOpen(r)
      BY <1>1, <2>1, Advances DEF SaveRevokedOpen, Revoking, StepsLeft
    <2>2. CASE SaveRevokedWrite(r)
      BY <1>1, <2>2, Advances DEF SaveRevokedWrite, Revoking, StepsLeft
    <2>3. CASE RegenCRLOpen(r)
      BY <1>1, <2>3, Advances DEF RegenCRLOpen, Revoking, StepsLeft
    <2>4. CASE RegenCRLWrite(r)
      BY <1>1, <2>4, Advances DEF RegenCRLWrite, Revoking, StepsLeft
    <2>5. CASE Reload(r)
      BY <1>1, <2>5, Advances DEF Reload, AfterReload, StepsLeft
    <2> QED BY <1>5, <2>1, <2>2, <2>3, <2>4, <2>5
  <1>6. CASE WipeUsers(r) \/ RewriteUsers(r) \/ Unpin(r)
    <2>1. CASE WipeUsers(r)
      BY <1>1, <2>1, Advances DEF WipeUsers, StepsLeft
    <2>2. CASE RewriteUsers(r)
      BY <1>1, <2>2, Advances DEF RewriteUsers, StepsLeft
    <2>3. CASE Unpin(r)
      BY <1>1, <2>3, Advances DEF Unpin, StepsLeft
    <2> QED BY <1>6, <2>1, <2>2, <2>3
  <1>7. CASE Fails(r) \/ FailsUnnoticed(r)
    <2>1. CASE Fails(r)
      BY <1>1, <2>1, Returns DEF Fails
    <2>2. ASSUME NEW cn \in Touches(r), req[r].pc = "sync",
                 req' = [req EXCEPT ![r].todo[cn] = NoIP]
          PROVE  GoesOn(req[r], req'[r])
      BY <2>2, Shortens DEF Touches, Rendering
    <2>3. ASSUME req[r].pc = "syncWrite", Listed(r) PROVE GoesOn(req[r], req'[r])
      BY <1>1, <2>3, Shortens DEF Listed, Rendering, RequestsInv, LocalsOK
    <2>4. ASSUME \/ req[r].pc \in {"users", "wipe", "rewrite"} /\ Goto(r, "unpin")
                 \/ req[r].pc = "unpin" /\ Goto(r, "drop")
          PROVE  GoesOn(req[r], req'[r])
      BY <1>1, <2>4, Advances DEF StepsLeft
    <2>5. CASE FailsUnnoticed(r)
      <3>1. \/ req[r].pc \in {"users", "wipe", "rewrite"} /\ Goto(r, "unpin")
            \/ req[r].pc = "unpin" /\ Goto(r, "drop")
            \/ req[r].pc = "sync"
               /\ \E cn \in Touches(r) : req' = [req EXCEPT ![r].todo[cn] = NoIP]
            \/ req[r].pc = "syncWrite" /\ Listed(r)
        BY <2>5 DEF FailsUnnoticed
      <3> QED BY <2>2, <2>3, <2>4, <3>1
    <2> QED BY <1>7, <2>1, <2>5
  <1>8. CASE IssuePem(r)
    <2>1. PICK s \in Serials : req' = [req EXCEPT ![r].pc = "key", ![r].rec.serial = s]
      BY <1>8 DEF IssuePem
    <2>2. /\ req'[r].pc = "key" /\ req'[r].n = req[r].n /\ req'[r].cn = req[r].cn
          /\ req'[r].todo = req[r].todo
      BY <1>1, <2>1 DEF RequestsInv, RequestState
    <2>3. StepsLeft(req'[r].pc) < StepsLeft(req[r].pc)
      BY <1>8, <2>2 DEF IssuePem, StepsLeft
    <2> QED BY <2>2, <2>3, FewerSteps
  <1>9. CASE LoadRevoked(r)
    <2>1. ASSUME NEW snap, req' = [req EXCEPT ![r].pc = "truncate", ![r].snap = snap],
                 req[r].pc = "revoke"
          PROVE  GoesOn(req[r], req'[r])
      <3>1. /\ req'[r].pc = "truncate" /\ req'[r].n = req[r].n /\ req'[r].cn = req[r].cn
            /\ req'[r].todo = req[r].todo
        BY <1>1, <2>1 DEF RequestsInv, RequestState
      <3>2. StepsLeft(req'[r].pc) < StepsLeft(req[r].pc)
        BY <2>1, <3>1 DEF StepsLeft
      <3> QED BY <2>1, <3>1, <3>2, FewerSteps
    <2>2. ASSUME Goto(r, "reload"), req[r].pc = "revoke" PROVE GoesOn(req[r], req'[r])
      BY <1>1, <2>2, Advances DEF StepsLeft
    <2> QED BY <1>1, <1>9, <2>1, <2>2, Returns DEF LoadRevoked
  <1>10. CASE ReadUsers(r)
    <2>1. ASSUME NEW users, req' = [req EXCEPT ![r].pc = "wipe", ![r].users = users],
                 req[r].pc = "users"
          PROVE  GoesOn(req[r], req'[r])
      <3>1. /\ req'[r].pc = "wipe" /\ req'[r].n = req[r].n /\ req'[r].cn = req[r].cn
            /\ req'[r].todo = req[r].todo
        BY <1>1, <2>1 DEF RequestsInv, RequestState
      <3>2. StepsLeft(req'[r].pc) < StepsLeft(req[r].pc)
        BY <2>1, <3>1 DEF StepsLeft
      <3> QED BY <2>1, <3>1, <3>2, FewerSteps
    <2>2. ASSUME Goto(r, "unpin"), req[r].pc = "users" PROVE GoesOn(req[r], req'[r])
      BY <1>1, <2>2, Advances DEF StepsLeft
    <2> QED BY <1>10, <2>1, <2>2 DEF ReadUsers
  <1>11. CASE (\E cn \in CNs : SyncOpen(r, cn)) \/ SyncWrite(r)
    <2>1. ASSUME NEW cn \in CNs, req[r].pc = "sync",
                 req' = [req EXCEPT ![r].pc = "syncWrite", ![r].cn = cn]
          PROVE  GoesOn(req[r], req'[r])
      <3>1. /\ req'[r].pc = "syncWrite" /\ req'[r].n = req[r].n
            /\ req'[r].todo = req[r].todo
        BY <1>1, <2>1 DEF RequestsInv, RequestState
      <3>2. StepsLeft(req'[r].pc) < StepsLeft(req[r].pc)
        BY <2>1, <3>1 DEF StepsLeft
      <3> QED BY <2>1, <3>1, <3>2, FewerSteps
    <2>2. ASSUME NEW cn \in CNs, SyncOpen(r, cn) PROVE GoesOn(req[r], req'[r])
      BY <2>1, <2>2, Shortens DEF SyncOpen, Rendering
    <2>3. ASSUME SyncWrite(r) PROVE GoesOn(req[r], req'[r])
      BY <1>1, <2>3, Shortens DEF SyncWrite, Listed, Rendering, RequestsInv, LocalsOK
    <2> QED BY <1>11, <2>2, <2>3
  <1> QED BY <1>2, <1>3, <1>4, <1>5, <1>6, <1>7, <1>8, <1>9, <1>10, <1>11 DEF Step

(* Only its own steps move a handler, and a crash that ends them all. *)
LEMMA StepIsOwn ==
    ASSUME RequestsInv, NEW r \in Requests, Arrive(r) \/ Step(r), NEW q \in Requests, q # r
    PROVE  req'[q] = req[q]
  <1>1. req \in [Requests -> RequestState]
    BY DEF RequestsInv
  <1>2. CASE Step(r)
    BY <1>1, <1>2
       DEF Step, Exists, IssuePem, IssueKey, IssueRefused, SetPassword, PinRefused, PinOpen,
           PinWrite, Put, Drop, LoadRevoked, SaveRevokedOpen, SaveRevokedWrite, RegenCRLOpen,
           RegenCRLWrite, Revoking, Reload, Goto, Leave, Return, ReadUsers, WipeUsers,
           RewriteUsers, Unpin, SyncOpen, SyncWrite, Listed, SyncDone, Fails, FailsUnnoticed
  <1>3. CASE Arrive(r)
    <2>1. ASSUME NEW n \in Names
          PROVE  /\ \A cn \in CNs, mode \in Modes, ip \in Addrs, pw \in BOOLEAN :
                       CreateClient(r, n, cn, mode, ip, pw) => req'[q] = req[q]
                 /\ \A cn \in CNs, ip \in Addrs, pw \in BOOLEAN :
                       PatchClient(r, n, cn, ip, pw) => req'[q] = req[q]
                 /\ (\E cn \in CNs : DeleteClient(r, n, cn)) \/ Render(r, n) => req'[q] = req[q]
      BY <1>1 DEF CreateClient, PatchClient, DeleteClient, Render
    <2> QED BY <1>3, <2>1 DEF Arrive, Addrs
  <1> QED BY <1>2, <1>3

(* However the handlers interleave, fail and are overtaken, none of them loops:  *)
(* a step that does not return leaves its own call with strictly less to do. That *)
(* every handler returns then needs only that it is scheduled.                    *)
THEOREM HandlersAlwaysGoOn == Spec => HandlersGoOn
  <1>1. ASSUME IInv, Next, NEW q \in Requests, req[q].pc # "idle", req'[q] # req[q]
        PROVE  GoesOn(req[q], req'[q])
    <2>1. ASSUME NEW r \in Requests, Arrive(r) \/ Step(r) PROVE GoesOn(req[q], req'[q])
      <3>1. q = r
        BY <1>1, <2>1, StepIsOwn DEF IInv
      <3>2. ~Arrive(r)
        BY <1>1, <3>1, ArriveIs
      <3> QED BY <1>1, <2>1, <3>1, <3>2, StepGoesOn
    <2>2. ASSUME Environment PROVE GoesOn(req[q], req'[q])
      <3>1. Restart
        BY <1>1, <2>2 DEF Environment, CreateInstance, DeleteInstance, OcservStarts,
           OcservReloads, OcservExits
      <3> QED BY <3>1, IdleTyped DEF Restart, GoesOn
    <2> QED BY <1>1, <2>1, <2>2 DEF Next
  <1>2. IInv /\ [Next]_vars
           => [\A r \in Requests :
                  req[r].pc # "idle" /\ req'[r] # req[r] => GoesOn(req[r], req'[r])]_vars
    BY <1>1
  <1> QED BY <1>2, SpecIInv, PTL DEF Spec, HandlersGoOn

--------------------------------------------------------------------------------
(* What ocserv enforces, whatever the callers keep apart, whatever fails and     *)
(* wherever the daemon dies: every list that is signed is followed by a SIGHUP,  *)
(* and the list that a start or a SIGHUP finds is the one that stays in force.   *)

Reloading(n) == \E r \in Requests : req[r].pc = "reload" /\ req[r].n = n

Loaded(n) ==
    HasCert(mem.inst[n].auth) =>
        inForce[n] = crl[n] \/ n \in hup \/ crl[n] = Torn \/ Reloading(n)

(* An instance that is not recorded has no ocserv, so a new CA's empty list *)
(* replaces none that is in force.                                          *)
LoadedInv == \A n \in running : Known(mem, n) /\ Loaded(n)

TakesCerts == {n \in running : HasCert(mem.inst[n].auth)}

(* A running ocserv that takes certificates and has no signal on its way enforces *)
(* the CRL on disk, if that is whole: revokeSerial signs the list before it        *)
(* reloads (manager.go), and a Reload that found no process is made good by the    *)
(* start that follows.                                                             *)
CRLInForce ==
    \A n \in TakesCerts :
        crl[n] # Torn /\ n \notin hup /\ ~Reloading(n) => inForce[n] = crl[n]

(* One handler goes on, from a point where it does not owe a signal. *)
LEMMA LoadedStays ==
    ASSUME IInv, LoadedInv, NEW r \in Requests,
           \A q \in Requests : q # r => req'[q] = req[q],
           req[r].pc # "reload", UNCHANGED ocservVars, crl' = crl, mem'.inst = mem.inst
    PROVE  LoadedInv'
  <1>1. \A n \in Names : Reloading(n) => Reloading(n)'
    BY DEF IInv, RequestsInv, Reloading
  <1> QED BY <1>1 DEF LoadedInv, Loaded, Known, ocservVars, IInv, FilesTyped

LEMMA ArriveLoaded == ASSUME IInv, LoadedInv, NEW r \in Requests, Arrive(r) PROVE LoadedInv'
  <1>1. req[r].pc = "idle" /\ UNCHANGED <<ocservVars, storeVars>> /\ crl' = crl
    BY ArriveIs DEF pkiVars
  <1>2. \A q \in Requests : q # r => req'[q] = req[q]
    BY StepIsOwn DEF IInv
  <1> QED BY <1>1, <1>2, LoadedStays DEF storeVars

LEMMA StepLoaded == ASSUME IInv, LoadedInv, NEW r \in Requests, Step(r) PROVE LoadedInv'
  <1>1. /\ mem \in Data /\ running \subseteq Names /\ crl \in [Names -> (SUBSET Serials) \cup {Torn}]
        /\ req \in [Requests -> RequestState]
    BY DEF IInv, RecordsInv, Sound, FilesTyped, PkiTypeOK, RequestsInv
  <1>2. CASE RegenCRLOpen(r)
    <2> PICK n \in Names : n = req[r].n
      BY <1>2 DEF IInv, RequestsInv, LocalsOK, RegenCRLOpen, Revoking
    <2>1. /\ req[r].pc = "crl" /\ req' = [req EXCEPT ![r].pc = "sign"]
          /\ crl' = [crl EXCEPT ![n] = Torn] /\ UNCHANGED <<ocservVars, storeVars>>
      BY <1>2 DEF RegenCRLOpen, Revoking, TruncateCRL, Goto
    <2>2. \A m \in Names : Reloading(m) => Reloading(m)'
      BY <1>1, <2>1 DEF Reloading
    <2> QED BY <1>1, <2>1, <2>2 DEF LoadedInv, Loaded, Known, ocservVars, storeVars
  <1>3. CASE RegenCRLWrite(r)
    <2> PICK n \in Names : n = req[r].n
      BY <1>3 DEF IInv, RequestsInv, LocalsOK, RegenCRLWrite, Revoking
    <2>1. /\ req[r].pc = "sign" /\ UNCHANGED <<ocservVars, storeVars>>
          /\ req' = [req EXCEPT ![r].pc = "reload", ![r].pw = FALSE, ![r].snap = {}, ![r].users = {}]
          /\ \A m \in Names : m # n => crl'[m] = crl[m]
      BY <1>1, <1>3 DEF RegenCRLWrite, Revoking, WriteCRL, Leave
    <2>2. Reloading(n)' /\ \A m \in Names : Reloading(m) => Reloading(m)'
      BY <1>1, <2>1 DEF Reloading, RequestState
    <2> QED BY <1>1, <2>1, <2>2 DEF LoadedInv, Loaded, Known, ocservVars, storeVars
  <1>4. CASE Reload(r)
    <2> PICK n \in Names : n = req[r].n
      BY <1>4 DEF IInv, RequestsInv, LocalsOK, Reload
    <2>1. /\ UNCHANGED <<storeVars, crl, running, inForce>>
          /\ hup' = IF n \in running THEN hup \cup {n} ELSE hup
          /\ \A q \in Requests : q # r => req'[q] = req[q]
      BY <1>1, <1>4 DEF Reload, Goto, pkiVars
    <2>2. \A m \in Names : m # n /\ Reloading(m) => Reloading(m)'
      BY <2>1 DEF Reloading
    <2> QED BY <1>1, <2>1, <2>2 DEF LoadedInv, Loaded, Known, storeVars
  <1>5. ASSUME NEW ok \in Outcomes, Put(r, ok) \/ Drop(r, ok) PROVE LoadedInv'
    <2>1. /\ UNCHANGED ocservVars /\ crl' = crl /\ \A q \in Requests : q # r => req'[q] = req[q]
          /\ req[r].pc # "reload" /\ mem'.inst = mem.inst
      BY <1>1, <1>5 DEF Put, Drop, DB!Commit, WithClient, WithoutClient, storeVars, Return, pkiVars, Data
    <2> QED BY <2>1, LoadedStays
  <1>6. CASE ~(RegenCRLOpen(r) \/ RegenCRLWrite(r) \/ Reload(r)
               \/ \E ok \in Outcomes : Put(r, ok) \/ Drop(r, ok))
    <2>1. /\ req[r].pc # "reload" /\ UNCHANGED <<ocservVars, storeVars>> /\ crl' = crl
      BY <1>6 DEF Step, Exists, IssuePem, IssueKey, IssueRefused, SetPassword, PinRefused,
           PinOpen, PinWrite, LoadRevoked,
           SaveRevokedOpen, SaveRevokedWrite, Revoking, WritePem, WriteKey, TruncateRevoked,
           WriteRevoked, ReadUsers, WipeUsers, RewriteUsers, Unpin, SyncOpen, SyncWrite,
           SyncDone, Fails, FailsUnnoticed, pkiVars
    <2>2. \A q \in Requests : q # r => req'[q] = req[q]
      BY StepIsOwn DEF IInv
    <2> QED BY <2>1, <2>2, LoadedStays DEF storeVars
  <1> QED BY <1>2, <1>3, <1>4, <1>5, <1>6

LEMMA EnvironmentLoaded == ASSUME IInv, LoadedInv, Environment PROVE LoadedInv'
  <1>1. /\ mem \in Data /\ running \subseteq Names /\ inForce \in [Names -> SUBSET Serials]
        /\ disk \in Data
    BY DEF IInv, RecordsInv, Sound, FilesTyped
  <1>2. ASSUME NEW n \in Names, NEW rec \in InstanceRecs, NEW caIfEmpty, NEW ok,
               CreateInstance(n, rec, caIfEmpty, ok)
        PROVE  LoadedInv'
    <2>1. /\ UNCHANGED <<req, ocservVars>> /\ ~Known(mem, n) /\ mem' = WithInstance(mem, n, rec)
          /\ \A m \in Names : m # n => crl'[m] = crl[m]
      BY <1>2 DEF CreateInstance, EnsureCA, pkiVars, DB!Commit, IInv, FilesTyped, PkiTypeOK
    <2>2. n \notin running
      BY <2>1 DEF LoadedInv
    <2>3. \A m \in Names : m # n => mem'.inst[m] = mem.inst[m]
      BY <1>1, <2>1 DEF WithInstance, Data
    <2> QED BY <1>1, <2>1, <2>2, <2>3 DEF LoadedInv, Loaded, Known, Reloading, ocservVars
  <1>3. ASSUME NEW n \in Names, NEW ok, DeleteInstance(n, ok) PROVE LoadedInv'
    <2>1. /\ UNCHANGED <<req, crl, inForce>> /\ mem' = WithoutInstance(mem, n)
          /\ running' = running \ {n} /\ hup' = hup \ {n}
      BY <1>3 DEF DeleteInstance, pkiVars, DB!Commit
    <2>2. \A m \in Names : m # n => mem'.inst[m] = mem.inst[m]
      BY <1>1, <2>1 DEF WithoutInstance, Data
    <2> QED BY <1>1, <2>1, <2>2 DEF LoadedInv, Loaded, Known, Reloading
  <1>4. ASSUME NEW n \in Names, OcservStarts(n) \/ OcservReloads(n) PROVE LoadedInv'
    <2>1. /\ UNCHANGED <<req, crl, storeVars>> /\ LoadsCRL(n) /\ Known(mem, n)
          /\ running' \subseteq running \cup {n} /\ \A m \in Names : m # n /\ m \in hup => m \in hup'
      BY <1>4 DEF OcservStarts, OcservReloads, pkiVars, LoadedInv
    <2>2. /\ HasCert(mem.inst[n].auth) /\ crl[n] # Torn => inForce'[n] = crl[n]
          /\ \A m \in Names : m # n => inForce'[m] = inForce[m]
      BY <1>1, <2>1 DEF LoadsCRL
    <2> QED BY <1>1, <2>1, <2>2 DEF LoadedInv, Loaded, Reloading, storeVars
  <1>5. ASSUME NEW n \in Names, OcservExits(n) PROVE LoadedInv'
    BY <1>1, <1>5 DEF OcservExits, pkiVars, storeVars, LoadedInv, Loaded, Reloading
  <1>6. ASSUME Restart PROVE LoadedInv'
    BY <1>1, <1>6 DEF Restart, Enabled, Known, pkiVars, LoadedInv, Loaded
  <1> QED BY <1>2, <1>3, <1>4, <1>5, <1>6 DEF Environment

LEMMA SpecLoaded == Spec => []LoadedInv
  <1>1. Init => LoadedInv
    BY DEF Init, LoadedInv
  <1>2. ASSUME IInv, LoadedInv, UNCHANGED vars PROVE LoadedInv'
    BY <1>2 DEF vars, storeVars, pkiVars, ocservVars, LoadedInv, Loaded, Reloading
  <1>3. IInv /\ LoadedInv /\ [Next]_vars => LoadedInv'
    BY <1>2, ArriveLoaded, StepLoaded, EnvironmentLoaded DEF Next
  <1> QED BY <1>1, <1>3, SpecIInv, PTL DEF Spec

(* Whatever is failed, overtaken or killed, a running ocserv that takes           *)
(* certificates and has no signal on its way has in force the list that the last  *)
(* completed signing left on disk.                                                *)
THEOREM CRLAlwaysInForce == Spec => []CRLInForce
  <1>1. LoadedInv => CRLInForce
    BY DEF LoadedInv, Loaded, CRLInForce, TakesCerts
  <1> QED BY <1>1, SpecLoaded, PTL

(* When no handler works on a running instance that takes certificates and its   *)
(* ocserv has no signal to take, it refuses every certificate whose client was    *)
(* deleted with success.                                                          *)
DeletedRefused ==
    \A n \in TakesCerts : Busy(n) = {} /\ n \notin hup => gone[n] \subseteq inForce[n]

(* When callers take turns on an instance, file operations work and the daemon    *)
(* does not die, a delete that was acknowledged is enforced once the signal it    *)
(* sent is taken: the SIGHUP never comes before the list it is about.             *)
THEOREM DeletedAlwaysRefused ==
    ASSUME Discipline = "instance", MayFail = FALSE, MayCrash = FALSE
    PROVE  Spec => []DeletedRefused
  <1>1. ASSUME IInv, TurnInv, LoadedInv PROVE DeletedRefused
    <2> SUFFICES ASSUME NEW n \in TakesCerts, Busy(n) = {}, n \notin hup
                 PROVE  gone[n] \subseteq inForce[n]
      BY DEF DeletedRefused
    <2>1. n \in Names /\ TurnOn(n) /\ PkiTypeOK
      BY <1>1 DEF TakesCerts, IInv, FilesTyped, TurnInv
    <2>2. ListsAgree(n) /\ ~Reloading(n)
      BY <2>1 DEF TurnOn, Settled, On, Busy, Reloading
    <2>3. crl[n] # Torn
      BY <2>1, <2>2, TornAssumption DEF ListsAgree, PkiTypeOK
    <2> QED BY <1>1, <2>2, <2>3 DEF TakesCerts, ListsAgree, LoadedInv, Loaded
  <1> QED BY <1>1, SpecIInv, SpecTurn, SpecLoaded, PTL DEF TakesTurns
================================================================================
