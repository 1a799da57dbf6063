------------------------------- MODULE Instances -------------------------------
(* internal/ocserv/manager.go, the instance operations: CreateInstance,        *)
(* PatchInstance, DeleteInstance and the Reconcile of a start-up, over the     *)
(* record store (AtomicStore), the rendered configuration files and the        *)
(* supervised ocserv processes (Supervisor). The manager has no lock: between  *)
(* any two calls of a handler, other handlers run, and ocserv boots, re-reads  *)
(* its configuration and exits. The client records, the pins and the PKI files *)
(* of an instance are Clients.tla's.                                           *)
EXTENDS Records, Integers, FiniteSets

CONSTANTS
    Requests,       \* handlers that may be in flight at once
    Pids,           \* process handles
    Listeners,      \* what an instance record may say of its listeners
    Hosts,          \* local_bind
    AnyHost,        \* local_bind left empty
    Others,         \* the rest of a record, applied by SIGHUP
    Unrenderable,   \* what Render refuses of it: camouflage without a secret
    Keep,           \* a field that a PATCH body leaves out
    None,           \* no instance, no operation
    NoFile,         \* there is no <instance>.conf
    Torn,           \* an <instance>.conf truncated and not written
    NoConfig,       \* a process that has not read its configuration
    Discipline,     \* what callers keep apart: "none" or "instance"
    MayFail,        \* file operations, flushes and spawning may fail
    MayDie,         \* an ocserv may exit on its own
    MayCrash        \* the daemon may die and be restarted

(* listen, its port (0: none that parses), and the fields that a PATCH changes. *)
Listener == [port : Nat, tcpPort : Nat, dtls : BOOLEAN, host : Hosts, proxy : BOOLEAN]

(* instanceConfig: tcp_port moves the TCP socket only, DTLS stays on the listen *)
(* port. The host part of listen is not looked at.                              *)
Bound(l) ==
    LET port == IF l.port > 0 THEN l.port ELSE 443
    IN  [tcp |-> IF l.tcpPort > 0 THEN l.tcpPort ELSE port, udp |-> IF l.dtls THEN port ELSE 0,
         host |-> l.host, proxy |-> l.proxy]

Configs == [listen : {Bound(l) : l \in Listeners}, other : Others]

ASSUME ListenersAssumption ==
    Listeners \subseteq Listener /\ AnyHost \in Hosts /\ Unrenderable \subseteq Others
ASSUME InstanceRecsAssumption ==
    InstanceRecs = [listen : Listeners, other : Others, enabled : BOOLEAN]
ASSUME KeepAssumption == Keep \notin Listeners /\ Keep \notin Others /\ Keep \notin BOOLEAN
ASSUME FilesAssumption == NoFile \notin Configs /\ Torn \notin Configs /\ None \notin Names
ASSUME DisciplineAssumption ==
    /\ Discipline \in {"none", "instance"}
    /\ {MayFail, MayDie, MayCrash} \subseteq BOOLEAN

VARIABLES
    mem, disk,      \* the record store, see AtomicStore
    req,            \* the handlers in flight: program counter and locals
    conf,           \* <instance>.conf
    todo,           \* the instances Reconcile has yet to start
    procs, proc     \* the supervisor's map and the processes, see Supervisor

storeVars == <<mem, disk>>
supVars == <<procs, proc>>
vars == <<storeVars, req, conf, todo, supVars>>

DB == INSTANCE AtomicStore WITH seen <- Empty
S  == INSTANCE Supervisor

(* Render: what ocserv can see of a record. A disabled instance renders like *)
(* an enabled one.                                                            *)
Rendered(rec) == [listen |-> Bound(rec.listen), other |-> rec.other]

(* applyInstancePatch, and whether the patch needs a rebind. *)
Bodies == [ listen : Listeners \cup {Keep}, other : Others \cup {Keep},
            enabled : BOOLEAN \cup {Keep} ]

(* Not the code: a field that the body leaves out is set all the same. *)
PatchedLiterally(rec, body) == body

Patched(rec, body) == [f \in DOMAIN rec |-> IF body[f] = Keep THEN rec[f] ELSE body[f]]

(* Not the code: only DTLS and the port of listen count. *)
PortDiffers(a, b) == \E f \in {"port", "dtls"} : a.listen[f] # b.listen[f]

ListenersDiffer(a, b) == a.listen # b.listen

Wanted(d, n) == Known(d, n) /\ d.inst[n].enabled

Idle == [pc |-> "idle", op |-> None, n |-> None, rec |-> Absent, rebind |-> FALSE]

Init ==
    /\ mem = Empty /\ disk = Empty
    /\ req = [r \in Requests |-> Idle]
    /\ conf = [n \in Names |-> NoFile]
    /\ todo = {}
    /\ S!Init

Goto(r, pc) == req' = [req EXCEPT ![r].pc = pc]

Return(r) == req' = [req EXCEPT ![r] = Idle]

--------------------------------------------------------------------------------
(* Admission: HTTP is served once Reconcile is through. The code then admits   *)
(* anything; Discipline says what its callers keep apart.                      *)

Busy(n) == {r \in Requests : req[r].pc # "idle" /\ req[r].n = n}

Admitted(r, n) ==
    /\ todo = {}
    /\ req[r].pc = "idle"
    /\ Discipline = "instance" => Busy(n) = {}

CreateInstance(r, n, rec) ==
    /\ Admitted(r, n)
    /\ ~Known(mem, n)
    /\ req' = [req EXCEPT ![r] =
          [Idle EXCEPT !.pc = "render", !.op = "create", !.n = n, !.rec = rec]]
    /\ UNCHANGED <<storeVars, conf, todo, supVars>>

(* The whole record is read here, and written back as patched later. Nothing  *)
(* in a body changes listen itself.                                           *)
PatchInstance(r, n, body) ==
    /\ Admitted(r, n)
    /\ Known(mem, n)
    /\ body.listen # Keep => body.listen.port = mem.inst[n].listen.port
    /\ LET before == mem.inst[n]
           rec == Patched(before, body)
       IN  req' = [req EXCEPT ![r] =
              [pc |-> "render", op |-> "patch", n |-> n, rec |-> rec,
               rebind |-> ListenersDiffer(before, rec)]]
    /\ UNCHANGED <<storeVars, conf, todo, supVars>>

DeleteInstance(r, n) ==
    /\ Admitted(r, n)
    /\ Known(mem, n)
    /\ req' = [req EXCEPT ![r] = [Idle EXCEPT !.pc = "stop", !.op = "delete", !.n = n]]
    /\ UNCHANGED <<storeVars, conf, todo, supVars>>

--------------------------------------------------------------------------------
(* renderAndWrite, once before the record is stored and once more in           *)
(* startInstance: os.WriteFile truncates the file, then writes it.             *)

Truncate(r) ==
    /\ req[r].pc \in {"render", "rerender"}
    /\ req[r].rec.other \notin Unrenderable
    /\ conf' = [conf EXCEPT ![req[r].n] = Torn]
    /\ Goto(r, IF req[r].pc = "render" THEN "write" ELSE "rewrite")
    /\ UNCHANGED <<storeVars, todo, supVars>>

(* Render's refusal comes before anything is written or stored. *)
Refused(r) ==
    /\ req[r].pc = "render" /\ req[r].rec.other \in Unrenderable
    /\ Return(r)
    /\ UNCHANGED <<storeVars, conf, todo, supVars>>

Write(r) ==
    /\ req[r].pc \in {"write", "rewrite"}
    /\ conf' = [conf EXCEPT ![req[r].n] = Rendered(req[r].rec)]
    /\ Goto(r, IF req[r].pc = "write" THEN "put" ELSE "spawn")
    /\ UNCHANGED <<storeVars, todo, supVars>>

(* Not the code: a patch that disables an instance leaves its ocserv alone. *)
AfterPutNoStop(q) ==
    IF q.rec.enabled THEN (IF q.rebind THEN "stop" ELSE "rerender") ELSE "idle"

(* Where a stored record leads: a disabled instance is stopped by a patch, and *)
(* not started by a create; changed listeners are stopped before the start.    *)
AfterPut(q) ==
    IF q.op = "create" THEN (IF q.rec.enabled THEN "rerender" ELSE "idle")
    ELSE IF q.rec.enabled /\ ~q.rebind THEN "rerender" ELSE "stop"

Leave(r, pc) == IF pc = "idle" THEN Return(r) ELSE Goto(r, pc)

(* store.PutInstance; a failed flush is returned with the memory changed. *)
Put(r, ok) ==
    /\ req[r].pc = "put"
    /\ DB!Commit(WithInstance(mem, req[r].n, req[r].rec), ok)
    /\ IF ok THEN Leave(r, AfterPut(req[r])) ELSE Return(r)
    /\ UNCHANGED <<conf, todo, supVars>>

AfterStop(q) ==
    IF q.op = "delete" THEN "remove" ELSE IF q.rec.enabled THEN "rerender" ELSE "idle"

Stop(r) ==
    /\ req[r].pc = "stop"
    /\ S!Stop(req[r].n)
    /\ Leave(r, AfterStop(req[r]))
    /\ UNCHANGED <<storeVars, conf, todo>>

(* Only a patch that changed no listener reloads what it started. *)
AfterSpawn(q) == IF q.op = "patch" /\ ~q.rebind THEN "reload" ELSE "idle"

(* Not the code: a start that waits for the process before it to be gone. *)
SpawnWaits(r) ==
    /\ req[r].pc = "spawn"
    /\ ~S!Alive(req[r].n)
    /\ S!Start(req[r].n)
    /\ Leave(r, AfterSpawn(req[r]))
    /\ UNCHANGED <<storeVars, conf, todo>>

Spawn(r) ==
    /\ req[r].pc = "spawn"
    /\ S!Start(req[r].n)
    /\ Leave(r, AfterSpawn(req[r]))
    /\ UNCHANGED <<storeVars, conf, todo>>

Reload(r) ==
    /\ req[r].pc = "reload"
    /\ S!Reload(req[r].n)
    /\ Return(r)
    /\ UNCHANGED <<storeVars, conf, todo>>

Remove(r) ==
    /\ req[r].pc = "remove"
    /\ conf' = [conf EXCEPT ![req[r].n] = NoFile]
    /\ Goto(r, "drop")
    /\ UNCHANGED <<storeVars, todo, supVars>>

Drop(r, ok) ==
    /\ req[r].pc = "drop"
    /\ DB!Commit(WithoutInstance(mem, req[r].n), ok)
    /\ Return(r)
    /\ UNCHANGED <<conf, todo, supVars>>

(* The PKI, the render or the write fails, or ocserv cannot be spawned: the    *)
(* handler returns, CreateInstance after a start that failed too. A failed     *)
(* removal is ignored.                                                         *)
Fails(r) ==
    /\ MayFail
    /\ \/ req[r].pc \in {"render", "write", "rerender", "rewrite", "spawn"} /\ Return(r)
       \/ req[r].pc = "remove" /\ Goto(r, "drop")
    /\ UNCHANGED <<storeVars, conf, todo, supVars>>

--------------------------------------------------------------------------------
(* Reconcile, before any request: each enabled instance in turn is rendered and *)
(* started. A failure is logged and the next one is taken.                      *)

(* Not the code: the files of a start-up are taken as they are. *)
ReconcileUnrendered(n) ==
    /\ n \in todo
    /\ todo' = todo \ {n}
    /\ S!Start(n)
    /\ UNCHANGED <<storeVars, req, conf>>

Reconcile(n) ==
    /\ n \in todo
    /\ todo' = todo \ {n}
    /\ \/ /\ conf' = [conf EXCEPT ![n] = Rendered(mem.inst[n])]
          /\ S!Start(n)
       \/ MayFail /\ UNCHANGED <<conf, supVars>>
    /\ UNCHANGED <<storeVars, req>>

(* The daemon dies at any point, its children with it, and is started again. *)
Restart ==
    /\ MayCrash
    /\ mem' = disk
    /\ req' = [r \in Requests |-> Idle]
    /\ todo' = {n \in Names : Wanted(disk, n)}
    /\ S!Restart
    /\ UNCHANGED <<disk, conf>>

--------------------------------------------------------------------------------
(* ocserv *)

Untouched == UNCHANGED <<storeVars, req, conf, todo>>

ConfOf(p) == conf[proc[p].inst]

Sockets(b) == {<<"tcp", b.tcp>>} \cup (IF b.udp > 0 THEN {<<"udp", b.udp>>} ELSE {})

Clash(a, b) == (a.host = b.host \/ AnyHost \in {a.host, b.host}) /\ Sockets(a) \cap Sockets(b) # {}

(* The sockets are taken: by an ocserv that serves, told to stop or not. *)
Taken(p) ==
    \E q \in DOMAIN proc \ {p} :
        S!In(q, "serving") /\ Clash(proc[q].cfg.listen, ConfOf(p).listen)

Boots(p) ==
    /\ S!In(p, "booting")
    /\ ConfOf(p) \in Configs
    /\ ~Taken(p)
    /\ S!Boot(p, ConfOf(p))
    /\ Untouched

(* It exits: no configuration to read, sockets in use, a signal it has no *)
(* handler for yet.                                                       *)
FailsToBoot(p) ==
    /\ S!In(p, "booting")
    /\ \/ ConfOf(p) \notin Configs
       \/ ConfOf(p) \in Configs /\ Taken(p)
       \/ proc[p].hup \/ proc[p].term
    /\ S!Exit(p)
    /\ Untouched

(* SIGHUP: everything but the listeners is taken over. A file that does not *)
(* parse leaves it as it was, or ends it.                                   *)
Rereads(p) ==
    /\ S!In(p, "serving") /\ proc[p].hup
    /\ IF ConfOf(p) \in Configs
       THEN S!TakeHup(p, [proc[p].cfg EXCEPT !.other = ConfOf(p).other])
       ELSE S!TakeHup(p, proc[p].cfg) \/ S!Exit(p)
    /\ Untouched

ObeysTerm(p) == S!In(p, "serving") /\ proc[p].term /\ S!Exit(p) /\ Untouched

Dies(p) == MayDie /\ S!Exit(p) /\ Untouched

Reaped(p) == S!Reap(p) /\ Untouched

--------------------------------------------------------------------------------
Arrive(r) ==
    \E n \in Names :
        \/ \E rec \in InstanceRecs : CreateInstance(r, n, rec)
        \/ \E body \in Bodies : PatchInstance(r, n, body)
        \/ DeleteInstance(r, n)

Outcomes == IF MayFail THEN BOOLEAN ELSE {TRUE}

Step(r) ==
    \/ Truncate(r) \/ Refused(r) \/ Write(r) \/ Stop(r) \/ Spawn(r) \/ Reload(r) \/ Remove(r)
    \/ \E ok \in Outcomes : Put(r, ok) \/ Drop(r, ok)
    \/ Fails(r)

Ocserv(p) == Boots(p) \/ FailsToBoot(p) \/ Rereads(p) \/ ObeysTerm(p) \/ Reaped(p)

Next ==
    \/ \E r \in Requests : Arrive(r) \/ Step(r)
    \/ \E n \in Names : Reconcile(n)
    \/ \E p \in Pids : Ocserv(p) \/ Dies(p)
    \/ Restart

Spec == Init /\ [][Next]_vars

(* A handler's goroutine and the start-up keep running, and an ocserv comes to  *)
(* the end of its boot, takes the signals it is sent and is reaped when it ends. *)
Fairness ==
    /\ \A r \in Requests : WF_vars(Step(r))
    /\ \A n \in Names : WF_vars(Reconcile(n))
    /\ \A p \in Pids :
          /\ WF_vars(Boots(p) \/ FailsToBoot(p))
          /\ WF_vars(Rereads(p))
          /\ WF_vars(ObeysTerm(p))
          /\ WF_vars(Reaped(p))

FairSpec == Spec /\ Fairness

--------------------------------------------------------------------------------
PCs == {"idle", "render", "write", "put", "stop", "rerender", "rewrite", "spawn",
        "reload", "remove", "drop"}

RequestState ==
    [ pc : PCs, op : {"create", "patch", "delete", None}, n : Names \cup {None},
      rec : InstanceRecs \cup {Absent}, rebind : BOOLEAN ]

(* Type correctness of the records, the handlers, the files and the processes. *)
TypeOK ==
    /\ mem \in Data /\ disk \in Data
    /\ req \in [Requests -> RequestState]
    /\ conf \in [Names -> Configs \cup {NoFile, Torn}]
    /\ todo \subseteq Names
    /\ S!TypeOK

Settled(n) == Busy(n) = {} /\ n \notin todo

(* Every ocserv that was not told to stop is the one the supervisor tracks for *)
(* its instance, however the handlers, the exits and the reaping interleave:   *)
(* none is left that Stop, Reload and Running cannot reach (process.go).       *)
NoStray == S!NoStray

(* When no handler works on an instance, its file says what the record says if *)
(* the instance is enabled: PatchInstance renders before it stores, and a      *)
(* crash between the two is made good by Reconcile.                            *)
ConfFollowsStore ==
    \A n \in Names : Settled(n) /\ Wanted(mem, n) => conf[n] = Rendered(mem.inst[n])

Live(n) == {p \in DOMAIN proc : proc[p].inst = n /\ proc[p].state # "exited"}

(* When no handler works on it, an instance that is disabled or deleted has no *)
(* ocserv but those that have been sent SIGTERM.                               *)
UnwantedTold ==
    \A n \in Names :
        Settled(n) /\ ~Wanted(mem, n) => \A p \in Live(n) : proc[p].term

(* An ocserv that serves, with no signal to take, serves what the record of    *)
(* its instance says: PatchInstance restarts for the listeners, which SIGHUP   *)
(* does not rebind, and reloads for everything else (listenersDiffer).         *)
ServesTheRecord ==
    \A n \in Names :
        Settled(n) /\ Wanted(mem, n) =>
            \A p \in Live(n) :
                /\ proc[p].state = "serving" /\ ~proc[p].hup /\ ~proc[p].term
                => proc[p].cfg = Rendered(mem.inst[n])

(* An instance that is disabled or deleted, and left so, ends without an ocserv. *)
UnwantedGoesDown ==
    \A n \in Names :
        [](Settled(n) /\ ~Wanted(mem, n) =>
              <>(Live(n) = {} \/ Wanted(mem, n) \/ ~Settled(n)))

(* Every handler comes to its end, with its answer, whatever ocserv does. *)
EveryRequestReturns == \A r \in Requests : [](req[r].pc # "idle" => <>(req[r].pc = "idle"))

(* A patch that restarts ("a real restart", manager.go:158), or anything else  *)
(* done to an enabled instance, ends with an ocserv that serves it.            *)
EnabledServes ==
    \A n \in Names :
        [](Settled(n) /\ Wanted(mem, n) =>
              <>((\E p \in Live(n) : S!In(p, "serving")) \/ ~Wanted(mem, n) \/ ~Settled(n)))
================================================================================
