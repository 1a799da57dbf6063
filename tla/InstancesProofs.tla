---------------------------- MODULE InstancesProofs ----------------------------
(* Theorems about Instances.tla, for any number of handlers, instances and      *)
(* processes. Types and the supervisor's bookkeeping hold whatever the callers  *)
(* keep apart and whatever fails; that the configuration file follows the       *)
(* record needs callers that take turns at an instance, and writes that work.   *)
EXTENDS Instances, RecordLemmas

SP == INSTANCE SupervisorProofs

(* The locals of a handler, by where it is: only a delete has no record. *)
LocalsOK(q) ==
    q.pc # "idle" =>
        /\ q.n \in Names
        /\ q.op = "delete" => q.pc \in {"stop", "remove", "drop"}
        /\ q.op # "delete" => q.op \in {"create", "patch"} /\ q.rec \in InstanceRecs

RequestsInv ==
    /\ req \in [Requests -> RequestState]
    /\ \A r \in Requests : LocalsOK(req[r])

FilesInv ==
    /\ mem \in Data /\ disk \in Data
    /\ conf \in [Names -> Configs \cup {NoFile, Torn}]
    /\ todo \subseteq {n \in Names : Known(mem, n)}

(* No request is served before Reconcile is through. *)
StartUpFirst == todo # {} => \A r \in Requests : req[r].pc = "idle"

IInv == RequestsInv /\ FilesInv /\ StartUpFirst /\ SP!IInv

LEMMA IInvImplies == IInv => TypeOK /\ NoStray
  BY DEF IInv, RequestsInv, FilesInv, TypeOK, NoStray, SP!IInv, SP!TypeOK, SP!NoStray,
         S!TypeOK, S!NoStray, SP!Process, S!Process

LEMMA RenderedTyped == \A rec \in InstanceRecs : Rendered(rec) \in Configs
  BY InstanceRecsAssumption DEF Rendered, Configs

LEMMA PatchedTyped ==
    ASSUME NEW rec \in InstanceRecs, NEW body \in Bodies PROVE Patched(rec, body) \in InstanceRecs
  BY InstanceRecsAssumption, KeepAssumption DEF Bodies, Patched

--------------------------------------------------------------------------------
(* The supervisor *)

(* Every step of the composition is a call of the supervisor, a move of one *)
(* process, or leaves both alone.                                           *)
LEMMA SupervisorStep == ASSUME IInv, [Next]_vars PROVE [S!Next]_(S!vars)
  <1>1. ASSUME NEW r \in Requests, NEW n \in Names,
               \/ \E rec \in InstanceRecs : CreateInstance(r, n, rec)
               \/ \E body \in Bodies : PatchInstance(r, n, body)
               \/ DeleteInstance(r, n)
        PROVE  UNCHANGED S!vars
    BY <1>1 DEF CreateInstance, PatchInstance, DeleteInstance, supVars, S!vars
  <1>2. ASSUME NEW r \in Requests, Step(r) PROVE [S!Next]_(S!vars)
    <2>1. req[r].pc # "idle" => req[r].n \in Names
      BY DEF IInv, RequestsInv, LocalsOK
    <2>2. CASE Stop(r) \/ Spawn(r) \/ Reload(r)
      BY <2>1, <2>2 DEF Stop, Spawn, Reload, S!Next
    <2>3. CASE \/ Truncate(r) \/ Refused(r) \/ Write(r) \/ Remove(r) \/ Fails(r)
               \/ \E ok \in Outcomes : Put(r, ok) \/ Drop(r, ok)
      BY <2>3 DEF Truncate, Refused, Write, Remove, Fails, Put, Drop, supVars, S!vars
    <2> QED BY <1>2, <2>2, <2>3 DEF Step
  <1>3. ASSUME NEW n \in Names, Reconcile(n) PROVE [S!Next]_(S!vars)
    BY <1>3 DEF Reconcile, supVars, S!vars, S!Next
  <1>4. ASSUME NEW p \in Pids, Ocserv(p) \/ Dies(p) PROVE S!Next
    <2>1. CASE Boots(p)
      BY <2>1 DEF Boots, S!Next
    <2>2. CASE FailsToBoot(p) \/ ObeysTerm(p) \/ Dies(p)
      BY <2>2 DEF FailsToBoot, ObeysTerm, Dies, S!Next
    <2>3. CASE Reaped(p)
      BY <2>3 DEF Reaped, S!Next
    <2>4. CASE Rereads(p)
      <3>1. proc[p].cfg \in Configs
        BY <2>4 DEF Rereads, S!In, IInv, SP!IInv, SP!TypeOK
      <3>2. ConfOf(p) \in Configs => [proc[p].cfg EXCEPT !.other = ConfOf(p).other] \in Configs
        BY <3>1 DEF Configs
      <3> QED BY <2>4, <3>1, <3>2 DEF Rereads, S!Next
    <2> QED BY <1>4, <2>1, <2>2, <2>3, <2>4 DEF Ocserv
  <1>5. Restart => S!Next
    BY DEF Restart, S!Next
  <1>6. UNCHANGED vars => UNCHANGED S!vars
    BY DEF vars, supVars, S!vars
  <1> QED BY <1>1, <1>2, <1>3, <1>4, <1>5, <1>6 DEF Next, Arrive

(* Supervisor and SupervisorProofs are instantiated alike. *)
LEMMA SameSupervisor == [S!Next]_(S!vars) => [SP!Next]_(SP!vars)
  <1>1. \A n \in Names : S!Start(n) \/ S!Reload(n) \/ S!Stop(n) =>
                         SP!Start(n) \/ SP!Reload(n) \/ SP!Stop(n)
    BY DEF S!Start, S!Reload, S!Stop, SP!Start, SP!Reload, SP!Stop, S!vars, SP!vars,
           S!Alive, SP!Alive, S!Track, SP!Track, S!Untrack, SP!Untrack, S!Fresh, SP!Fresh,
           S!Newborn, SP!Newborn
  <1>2. \A p \in Pids : (\E cfg \in Configs : S!Boot(p, cfg) \/ S!TakeHup(p, cfg)) =>
                        \E cfg \in Configs : SP!Boot(p, cfg) \/ SP!TakeHup(p, cfg)
    BY DEF S!Boot, S!TakeHup, SP!Boot, SP!TakeHup, S!In, SP!In
  <1>3. \A p \in Pids : S!Exit(p) \/ S!Reap(p) => SP!Exit(p) \/ SP!Reap(p)
    BY DEF S!Exit, S!Reap, SP!Exit, SP!Reap, S!In, SP!In
  <1>4. (S!Restart => SP!Restart) /\ (UNCHANGED S!vars => UNCHANGED SP!vars)
    BY DEF S!Restart, SP!Restart, S!vars, SP!vars
  <1> QED BY <1>1, <1>2, <1>3, <1>4 DEF S!Next, SP!Next

LEMMA SupervisorIInv == ASSUME IInv, [Next]_vars PROVE SP!IInv'
  <1>1. [SP!Next]_(SP!vars)
    BY SupervisorStep, SameSupervisor
  <1> QED BY <1>1, SP!NextIInv DEF IInv
--------------------------------------------------------------------------------
(* The handlers and the files *)

(* A step that replaces the locals of one handler, or none. *)
LEMMA OneRequestInv ==
    ASSUME RequestsInv, NEW r \in Requests, NEW q \in RequestState,
           req' = [req EXCEPT ![r] = q], LocalsOK(q)
    PROVE  RequestsInv'
  BY DEF RequestsInv

LEMMA IdleOK == Idle \in RequestState /\ LocalsOK(Idle)
  BY DEF Idle, RequestState, PCs, LocalsOK

LEMMA ReturnInv == ASSUME RequestsInv, NEW r \in Requests, Return(r) PROVE RequestsInv'
  BY IdleOK, OneRequestInv DEF Return

(* A handler that goes on keeps all but its program counter. *)
LEMMA GotoInv ==
    ASSUME RequestsInv, NEW r \in Requests, req[r].pc # "idle", NEW pc \in PCs, Goto(r, pc),
           req[r].op = "delete" => pc \in {"stop", "remove", "drop"}
    PROVE  RequestsInv'
  <1> DEFINE q == [req[r] EXCEPT !.pc = pc]
  <1>1. req[r] \in RequestState /\ LocalsOK(req[r])
    BY DEF RequestsInv
  <1>2. q \in RequestState /\ LocalsOK(q)
    BY <1>1 DEF RequestState, LocalsOK
  <1>3. req' = [req EXCEPT ![r] = q]
    BY DEF Goto
  <1> HIDE DEF q
  <1> QED BY <1>2, <1>3, OneRequestInv

LEMMA LeaveInv ==
    ASSUME RequestsInv, NEW r \in Requests, req[r].pc # "idle", NEW pc \in PCs, Leave(r, pc),
           req[r].op = "delete" => pc \in {"idle", "stop", "remove", "drop"}
    PROVE  RequestsInv'
  BY ReturnInv, GotoInv DEF Leave

LEMMA ArriveInv == ASSUME IInv, NEW r \in Requests, Arrive(r) PROVE RequestsInv' /\ FilesInv'
  <1>1. RequestsInv /\ FilesInv
    BY DEF IInv
  <1>2. PICK n \in Names :
          \/ \E rec \in InstanceRecs : CreateInstance(r, n, rec)
          \/ \E body \in Bodies : PatchInstance(r, n, body)
          \/ DeleteInstance(r, n)
    BY DEF Arrive
  <1>3. FilesInv'
    BY <1>1, <1>2 DEF CreateInstance, PatchInstance, DeleteInstance, storeVars, FilesInv, Known
  <1>4. ASSUME NEW rec \in InstanceRecs, CreateInstance(r, n, rec) PROVE RequestsInv'
    <2> DEFINE q == [Idle EXCEPT !.pc = "render", !.op = "create", !.n = n, !.rec = rec]
    <2>1. q \in RequestState /\ LocalsOK(q)
      BY DEF Idle, RequestState, PCs, LocalsOK
    <2>2. req' = [req EXCEPT ![r] = q]
      BY <1>4 DEF CreateInstance
    <2> HIDE DEF q
    <2> QED BY <1>1, <2>1, <2>2, OneRequestInv
  <1>5. ASSUME NEW body \in Bodies, PatchInstance(r, n, body) PROVE RequestsInv'
    <2> DEFINE before == mem.inst[n]
               rec == Patched(before, body)
               q == [pc |-> "render", op |-> "patch", n |-> n, rec |-> rec,
                     rebind |-> ListenersDiffer(before, rec)]
    <2>1. before \in InstanceRecs
      BY <1>1, <1>5 DEF PatchInstance, Known, FilesInv, Data
    <2>2. rec \in InstanceRecs
      BY <2>1, PatchedTyped
    <2>3. ListenersDiffer(before, rec) \in BOOLEAN
      BY DEF ListenersDiffer
    <2>4. req' = [req EXCEPT ![r] = q]
      BY <1>5 DEF PatchInstance
    <2> HIDE DEF rec, before
    <2>5. q \in RequestState /\ LocalsOK(q)
      BY <2>2, <2>3 DEF RequestState, PCs, LocalsOK
    <2> HIDE DEF q
    <2> QED BY <1>1, <2>4, <2>5, OneRequestInv
  <1>6. ASSUME DeleteInstance(r, n) PROVE RequestsInv'
    <2> DEFINE q == [Idle EXCEPT !.pc = "stop", !.op = "delete", !.n = n]
    <2>1. q \in RequestState /\ LocalsOK(q)
      BY DEF Idle, RequestState, PCs, LocalsOK
    <2>2. req' = [req EXCEPT ![r] = q]
      BY <1>6 DEF DeleteInstance
    <2> HIDE DEF q
    <2> QED BY <1>1, <2>1, <2>2, OneRequestInv
  <1> QED BY <1>2, <1>3, <1>4, <1>5, <1>6

LEMMA StepInv == ASSUME IInv, NEW r \in Requests, Step(r) PROVE RequestsInv' /\ FilesInv'
  <1> DEFINE q == req[r]
  <1>1. RequestsInv /\ FilesInv /\ todo = {} /\ q \in RequestState /\ LocalsOK(q)
    <2>1. q.pc # "idle"
      BY DEF Step, Truncate, Refused, Write, Stop, Spawn, Reload, Remove, Put, Drop, Fails
    <2> QED BY <2>1 DEF IInv, RequestsInv, StartUpFirst
  <1>2. q.pc # "idle" => q.n \in Names
    BY <1>1 DEF LocalsOK
  <1>3. CASE Truncate(r)
    <2>1. q.op # "delete" /\ q.pc # "idle"
      BY <1>1, <1>3 DEF Truncate, LocalsOK
    <2>2. RequestsInv'
      BY <1>1, <1>3, <2>1, GotoInv DEF Truncate, PCs
    <2>3. FilesInv'
      BY <1>1, <1>2, <1>3 DEF Truncate, FilesInv, storeVars
    <2> QED BY <2>2, <2>3
  <1>4. CASE Write(r)
    <2>1. q.op # "delete" /\ q.pc # "idle" /\ q.rec \in InstanceRecs
      BY <1>1, <1>4 DEF Write, LocalsOK
    <2>2. RequestsInv'
      BY <1>1, <1>4, <2>1, GotoInv DEF Write, PCs
    <2>3. FilesInv'
      BY <1>1, <1>2, <1>4, <2>1, RenderedTyped DEF Write, FilesInv, storeVars
    <2> QED BY <2>2, <2>3
  <1>5. CASE Stop(r)
    <2>1. AfterStop(q) \in PCs /\ (q.op = "delete" => AfterStop(q) = "remove")
      BY DEF AfterStop, PCs
    <2>2. RequestsInv'
      BY <1>1, <1>5, <2>1, LeaveInv DEF Stop
    <2>3. FilesInv'
      BY <1>1, <1>5 DEF Stop, FilesInv, storeVars
    <2> QED BY <2>2, <2>3
  <1>6. CASE Spawn(r)
    <2>1. AfterSpawn(q) \in PCs /\ q.op # "delete" /\ q.pc # "idle"
      BY <1>1, <1>6 DEF AfterSpawn, PCs, Spawn, LocalsOK
    <2>2. RequestsInv'
      BY <1>1, <1>6, <2>1, LeaveInv DEF Spawn
    <2>3. FilesInv'
      BY <1>1, <1>6 DEF Spawn, FilesInv, storeVars
    <2> QED BY <2>2, <2>3
  <1>7. CASE Reload(r)
    <2>1. RequestsInv'
      BY <1>1, <1>7, ReturnInv DEF Reload
    <2>2. FilesInv'
      BY <1>1, <1>7 DEF Reload, FilesInv, storeVars
    <2> QED BY <2>1, <2>2
  <1>8. CASE Remove(r)
    <2>1. RequestsInv'
      BY <1>1, <1>8, GotoInv DEF Remove, PCs
    <2>2. FilesInv'
      BY <1>1, <1>2, <1>8 DEF Remove, FilesInv, storeVars
    <2> QED BY <2>1, <2>2
  <1>9. ASSUME NEW ok \in Outcomes, Put(r, ok) PROVE RequestsInv' /\ FilesInv'
    <2>1. q.op # "delete" /\ q.pc # "idle" /\ q.rec \in InstanceRecs
      BY <1>1, <1>9 DEF Put, LocalsOK
    <2>2. AfterPut(q) \in PCs
      BY DEF AfterPut, PCs
    <2>3. RequestsInv'
      BY <1>1, <1>9, <2>1, <2>2, LeaveInv, ReturnInv DEF Put
    <2>4. WithInstance(mem, q.n, q.rec) \in Data
      BY <1>1, <1>2, <2>1, InstanceMutationsTyped DEF FilesInv
    <2>5. FilesInv'
      BY <1>1, <1>9, <2>4 DEF Put, DB!Commit, FilesInv
    <2> QED BY <2>3, <2>5
  <1>10. ASSUME NEW ok \in Outcomes, Drop(r, ok) PROVE RequestsInv' /\ FilesInv'
    <2>1. RequestsInv'
      BY <1>1, <1>10, ReturnInv DEF Drop
    <2>2. q.n \in Names
      BY <1>2, <1>10 DEF Drop
    <2>3. WithoutInstance(mem, q.n) \in Data
      BY <1>1, <2>2, InstanceMutationsTyped DEF FilesInv
    <2>4. FilesInv'
      BY <1>1, <1>10, <2>3 DEF Drop, DB!Commit, FilesInv
    <2> QED BY <2>1, <2>4
  <1>11. CASE Fails(r) \/ Refused(r)
    <2>1. RequestsInv'
      BY <1>1, <1>11, ReturnInv, GotoInv DEF Fails, Refused, PCs
    <2>2. FilesInv'
      BY <1>1, <1>11 DEF Fails, Refused, FilesInv, storeVars
    <2> QED BY <2>1, <2>2
  <1> HIDE DEF q
  <1> QED BY <1>3, <1>4, <1>5, <1>6, <1>7, <1>8, <1>9, <1>10, <1>11 DEF Step

(* Only Restart, which ends every handler, leaves Reconcile something to do. *)
LEMMA StartUpFirstInv == ASSUME IInv, [Next]_vars PROVE StartUpFirst'
  <1>1. ASSUME NEW r \in Requests, Arrive(r) PROVE todo' = {}
    BY <1>1 DEF Arrive, CreateInstance, PatchInstance, DeleteInstance, Admitted
  <1>2. ASSUME NEW r \in Requests, Step(r) PROVE todo' = {}
    BY <1>2 DEF Step, Truncate, Refused, Write, Stop, Spawn, Reload, Remove, Put, Drop,
                Fails, IInv, StartUpFirst
  <1>3. ASSUME NEW n \in Names, Reconcile(n) PROVE StartUpFirst'
    BY <1>3 DEF Reconcile, IInv, StartUpFirst
  <1>4. ASSUME NEW p \in Pids, Ocserv(p) \/ Dies(p) PROVE StartUpFirst'
    BY <1>4 DEF Ocserv, Boots, FailsToBoot, Rereads, ObeysTerm, Reaped, Dies, Untouched,
                IInv, StartUpFirst
  <1>5. Restart => StartUpFirst'
    BY DEF Restart, Idle, StartUpFirst
  <1>6. UNCHANGED vars => StartUpFirst'
    BY DEF vars, IInv, StartUpFirst
  <1> QED BY <1>1, <1>2, <1>3, <1>4, <1>5, <1>6 DEF Next, StartUpFirst

LEMMA NextIInv == IInv /\ [Next]_vars => IInv'
  <1> SUFFICES ASSUME IInv, [Next]_vars PROVE RequestsInv' /\ FilesInv'
    BY SupervisorIInv, StartUpFirstInv DEF IInv
  <1>1. RequestsInv /\ FilesInv
    BY DEF IInv
  <1>2. ASSUME NEW n \in Names, Reconcile(n) PROVE RequestsInv' /\ FilesInv'
    <2>1. mem.inst[n] \in InstanceRecs
      BY <1>1, <1>2 DEF Reconcile, FilesInv, Data, Known
    <2>2. RequestsInv'
      BY <1>1, <1>2 DEF Reconcile, RequestsInv
    <2>3. FilesInv'
      BY <1>1, <1>2, <2>1, RenderedTyped DEF Reconcile, FilesInv, storeVars, Known
    <2> QED BY <2>2, <2>3
  <1>3. ASSUME NEW p \in Pids, Ocserv(p) \/ Dies(p) PROVE RequestsInv' /\ FilesInv'
    <2>1. Untouched
      BY <1>3 DEF Ocserv, Boots, FailsToBoot, Rereads, ObeysTerm, Reaped, Dies
    <2> QED BY <1>1, <2>1 DEF Untouched, storeVars, RequestsInv, FilesInv, Known
  <1>4. ASSUME Restart PROVE RequestsInv' /\ FilesInv'
    <2>1. RequestsInv'
      BY <1>4, IdleOK DEF Restart, RequestsInv
    <2>2. FilesInv'
      BY <1>1, <1>4 DEF Restart, FilesInv, Wanted, Known
    <2> QED BY <2>1, <2>2
  <1>5. UNCHANGED vars => RequestsInv' /\ FilesInv'
    BY <1>1 DEF vars, storeVars, RequestsInv, FilesInv, Known
  <1> QED BY <1>2, <1>3, <1>4, <1>5, ArriveInv, StepInv DEF Next

LEMMA InitIInv == Init => IInv
  <1> SUFFICES ASSUME Init PROVE IInv
    OBVIOUS
  <1>1. RequestsInv /\ FilesInv /\ StartUpFirst
    BY IdleOK, EmptyTyped DEF Init, RequestsInv, FilesInv, StartUpFirst
  <1>2. SP!Init
    BY DEF Init, S!Init, SP!Init
  <1> QED BY <1>1, <1>2, SP!InitIInv DEF IInv

LEMMA SpecIInv == Spec => []IInv
  BY InitIInv, NextIInv, PTL DEF Spec

(* The records, the handlers, the files and the processes keep their types. *)
THEOREM InstancesTypeCorrect == Spec => []TypeOK
  BY SpecIInv, IInvImplies, PTL

(* However creates, patches, deletes, the start-up, crashes and the processes   *)
(* themselves interleave, an ocserv that was not told to stop is the one its    *)
(* instance's supervisor entry names.                                           *)
THEOREM NoOcservStrays == Spec => []NoStray
  BY SpecIInv, IInvImplies, PTL

(* The instance handlers drive the supervisor as Supervisor.tla has it used. *)
THEOREM SupervisorUsedAsPromised == Spec => S!Spec
  <1>1. Init => S!Init
    BY DEF Init
  <1>2. IInv /\ [Next]_vars => [S!Next]_(S!vars)
    BY SupervisorStep
  <1> QED BY <1>1, <1>2, SpecIInv, PTL DEF Spec, S!Spec

--------------------------------------------------------------------------------
(* The configuration file, when the handlers of an instance take turns *)

OneAtATime ==
    \A r, s \in Requests :
        req[r].pc # "idle" /\ req[s].pc # "idle" /\ req[r].n = req[s].n => r = s

(* What the handler at work has made of the file and of the record so far, and *)
(* what it found: a render that refuses leaves both as they were.              *)
Made(q, file, inst) ==
    /\ q.pc \in {"write", "rewrite"} => file[q.n] = Torn
    /\ q.pc \in {"put", "stop", "rerender", "spawn", "reload"} /\ q.op # "delete" =>
          file[q.n] = Rendered(q.rec)
    /\ q.pc \in {"stop", "rerender", "rewrite", "spawn", "reload"} /\ q.op # "delete" =>
          inst[q.n] = q.rec
    /\ q.pc = "render" /\ inst[q.n] # Absent /\ inst[q.n].enabled =>
          file[q.n] = Rendered(inst[q.n])

WorkDone(q) == Made(q, conf, mem.inst)

TurnsInv == OneAtATime /\ (\A r \in Requests : WorkDone(req[r])) /\ ConfFollowsStore

(* A step of the one handler at work on an instance concerns that instance only. *)
LEMMA WorkInv ==
    ASSUME IInv, TurnsInv, NEW r \in Requests, NEW q, NEW n \in Names,
           req[r].pc # "idle", req[r].n = n,
           req' = [req EXCEPT ![r] = q], UNCHANGED todo,
           \A m \in Names : m # n => conf'[m] = conf[m] /\ mem'.inst[m] = mem.inst[m],
           q.pc # "idle" => q.n = n /\ Made(q, conf', mem'.inst),
           q.pc = "idle" => (Wanted(mem', n) => conf'[n] = Rendered(mem'.inst[n]))
    PROVE  TurnsInv'
  <1>1. /\ req'[r] = q
        /\ \A s \in Requests : s # r => req'[s] = req[s]
    BY DEF IInv, RequestsInv
  <1>2. \A s \in Requests : s # r /\ req[s].pc # "idle" => req[s].n \in Names /\ req[s].n # n
    BY DEF TurnsInv, OneAtATime, IInv, RequestsInv, LocalsOK
  <1>3. OneAtATime'
    BY <1>1, <1>2 DEF TurnsInv, OneAtATime
  <1>4. ASSUME NEW s \in Requests PROVE WorkDone(req[s])'
    <2>1. CASE s = r
      <3>1. CASE q.pc = "idle"
        BY <1>1, <2>1, <3>1 DEF WorkDone, Made
      <3>2. CASE q.pc # "idle"
        BY <1>1, <2>1, <3>2 DEF WorkDone
      <3> QED BY <3>1, <3>2
    <2>2. CASE s # r
      <3>1. CASE req[s].pc = "idle"
        BY <1>1, <2>2, <3>1 DEF WorkDone, Made
      <3>2. CASE req[s].pc # "idle"
        BY <1>1, <1>2, <2>2, <3>2 DEF WorkDone, Made, TurnsInv
      <3> QED BY <3>1, <3>2
    <2> QED BY <2>1, <2>2
  <1>5. ConfFollowsStore'
    <2> SUFFICES ASSUME NEW m \in Names, Settled(m)', Wanted(mem', m)
                 PROVE  conf'[m] = Rendered(mem'.inst[m])
      BY DEF ConfFollowsStore
    <2>1. CASE m = n
      <3>1. q.pc = "idle"
        BY <1>1, <2>1 DEF Settled, Busy
      <3> QED BY <2>1, <3>1
    <2>2. CASE m # n
      <3>1. Settled(m)
        BY <1>1, <2>2 DEF Settled, Busy
      <3>2. Wanted(mem, m)
        BY <2>2 DEF Wanted, Known
      <3> QED BY <2>2, <3>1, <3>2 DEF TurnsInv, ConfFollowsStore
    <2> QED BY <2>1, <2>2
  <1> QED BY <1>3, <1>4, <1>5 DEF TurnsInv

LEMMA ArriveTurns ==
    ASSUME Discipline = "instance", IInv, TurnsInv, NEW r \in Requests, Arrive(r)
    PROVE  TurnsInv'
  <1>1. PICK n \in Names :
          /\ Admitted(r, n)
          /\ UNCHANGED <<storeVars, conf, todo, supVars>>
          /\ \E q : /\ q.n = n
                    /\ q.pc = "render" \/ (q.pc = "stop" /\ q.op = "delete")
                    /\ req' = [req EXCEPT ![r] = q]
    BY DEF Arrive, CreateInstance, PatchInstance, DeleteInstance, Idle
  <1>2. PICK q : /\ q.n = n
                 /\ q.pc = "render" \/ (q.pc = "stop" /\ q.op = "delete")
                 /\ req' = [req EXCEPT ![r] = q]
    BY <1>1
  <1>3. /\ req'[r] = q
        /\ \A s \in Requests : s # r => req'[s] = req[s]
        /\ \A s \in Requests : req[s].pc # "idle" => req[s].n # n
        /\ conf' = conf /\ mem' = mem /\ todo' = todo
    BY <1>1, <1>2 DEF IInv, RequestsInv, Admitted, Busy, storeVars
  <1>4. OneAtATime'
    BY <1>2, <1>3 DEF TurnsInv, OneAtATime
  <1>5. ASSUME NEW s \in Requests PROVE WorkDone(req[s])'
    <2>1. Settled(n)
      BY <1>1 DEF Settled, Admitted, Busy
    <2>2. mem.inst[n] # Absent /\ mem.inst[n].enabled => conf[n] = Rendered(mem.inst[n])
      BY <2>1 DEF TurnsInv, ConfFollowsStore, Wanted, Known
    <2> QED BY <1>2, <1>3, <2>2 DEF TurnsInv, WorkDone, Made
  <1>6. ASSUME NEW m \in Names, Settled(m)' PROVE Settled(m)
    BY <1>1, <1>3, <1>6 DEF Settled, Busy, Admitted
  <1>7. ConfFollowsStore'
    BY <1>3, <1>6 DEF TurnsInv, ConfFollowsStore, Wanted, Known
  <1> QED BY <1>4, <1>5, <1>7 DEF TurnsInv

LEMMA StepTurns ==
    ASSUME MayFail = FALSE, IInv, TurnsInv, NEW r \in Requests, Step(r)
    PROVE  TurnsInv'
  <1> DEFINE q == req[r]
             n == q.n
  <1>1. /\ q \in RequestState /\ q.pc # "idle" /\ n \in Names /\ LocalsOK(q)
        /\ WorkDone(q)
    <2>1. q.pc # "idle"
      BY DEF Step, Truncate, Refused, Write, Stop, Spawn, Reload, Remove, Put, Drop, Fails
    <2> QED BY <2>1 DEF IInv, RequestsInv, LocalsOK, TurnsInv
  <1>2. /\ conf \in [Names -> Configs \cup {NoFile, Torn}]
        /\ mem \in Data
    BY DEF IInv, FilesInv
  <1>3. ASSUME NEW pc \in PCs, pc # "idle", Goto(r, pc), UNCHANGED todo,
               \A m \in Names : m # n => conf'[m] = conf[m] /\ mem'.inst[m] = mem.inst[m],
               Made([q EXCEPT !.pc = pc], conf', mem'.inst)
        PROVE  TurnsInv'
    <2> DEFINE t == [q EXCEPT !.pc = pc]
    <2>1. t.pc = pc /\ t.n = n
      BY <1>1 DEF RequestState
    <2>2. req' = [req EXCEPT ![r] = t]
      BY <1>3 DEF Goto
    <2>3. Made(t, conf', mem'.inst)
      BY <1>3
    <2> HIDE DEF t, n
    <2>4. req[r].n = n /\ req[r].pc # "idle" /\ n \in Names
      BY <1>1 DEF n
    <2> QED BY <1>3, <2>1, <2>2, <2>3, <2>4, WorkInv
  <1>4. ASSUME Return(r), UNCHANGED todo,
               \A m \in Names : m # n => conf'[m] = conf[m] /\ mem'.inst[m] = mem.inst[m],
               Wanted(mem', n) => conf'[n] = Rendered(mem'.inst[n])
        PROVE  TurnsInv'
    <2>1. Idle.pc = "idle" /\ req' = [req EXCEPT ![r] = Idle]
      BY <1>4 DEF Idle, Return
    <2> QED BY <1>1, <1>4, <2>1, WorkInv
  <1>5. CASE Truncate(r)
    <2> DEFINE pc == IF q.pc = "render" THEN "write" ELSE "rewrite"
    <2>1. Made([q EXCEPT !.pc = pc], conf', mem'.inst)
      BY <1>1, <1>2, <1>5 DEF Truncate, WorkDone, Made, RequestState, storeVars, LocalsOK
    <2> QED BY <1>2, <1>3, <1>5, <2>1 DEF Truncate, PCs, storeVars
  <1>6. CASE Write(r)
    <2> DEFINE pc == IF q.pc = "write" THEN "put" ELSE "spawn"
    <2>1. conf'[n] = Rendered(q.rec)
      BY <1>1, <1>2, <1>6 DEF Write
    <2>2. Made([q EXCEPT !.pc = pc], conf', mem'.inst)
      BY <1>1, <1>6, <2>1 DEF Write, WorkDone, Made, RequestState, storeVars, LocalsOK
    <2> QED BY <1>2, <1>3, <1>6, <2>2 DEF Write, PCs, storeVars
  <1>7. CASE Stop(r)
    <2>1. UNCHANGED <<conf, todo>> /\ mem' = mem /\ q.pc = "stop"
      BY <1>7 DEF Stop, storeVars
    <2>2. CASE AfterStop(q) = "idle"
      <3>1. q.op # "delete" /\ ~q.rec.enabled
        BY <2>2 DEF AfterStop
      <3>2. ~Wanted(mem', n)
        BY <1>1, <2>1, <3>1 DEF WorkDone, Made, Wanted
      <3>3. Return(r)
        BY <1>7, <2>2 DEF Stop, Leave
      <3> QED BY <1>4, <2>1, <3>2, <3>3
    <2>3. CASE AfterStop(q) # "idle"
      <3> DEFINE pc == AfterStop(q)
      <3>1. (pc = "remove" /\ q.op = "delete") \/ pc = "rerender"
        BY <2>3 DEF AfterStop
      <3>2. Goto(r, pc)
        BY <1>7, <2>3 DEF Stop, Leave
      <3> HIDE DEF pc
      <3>3. Made([q EXCEPT !.pc = pc], conf', mem'.inst)
        BY <1>1, <2>1, <3>1 DEF WorkDone, Made, RequestState
      <3>4. pc \in PCs /\ pc # "idle"
        BY <3>1 DEF PCs
      <3> QED BY <1>3, <2>1, <3>2, <3>3, <3>4
    <2> QED BY <2>2, <2>3
  <1>8. CASE Spawn(r)
    <2>1. UNCHANGED <<conf, todo>> /\ mem' = mem /\ q.pc = "spawn"
      BY <1>8 DEF Spawn, storeVars
    <2>2. q.op # "delete"
      BY <1>1, <2>1 DEF LocalsOK
    <2>3. CASE AfterSpawn(q) = "idle"
      <3>1. Return(r)
        BY <1>8, <2>3 DEF Spawn, Leave
      <3>2. conf'[n] = Rendered(mem'.inst[n])
        BY <1>1, <2>1, <2>2 DEF WorkDone, Made
      <3> QED BY <1>4, <2>1, <3>1, <3>2
    <2>4. CASE AfterSpawn(q) # "idle"
      <3>1. Goto(r, "reload")
        BY <1>8, <2>4 DEF Spawn, Leave, AfterSpawn
      <3>2. Made([q EXCEPT !.pc = "reload"], conf', mem'.inst)
        BY <1>1, <2>1 DEF WorkDone, Made, RequestState
      <3> QED BY <1>3, <2>1, <3>1, <3>2 DEF PCs
    <2> QED BY <2>3, <2>4
  <1>9. CASE Reload(r)
    <2>1. UNCHANGED <<conf, todo>> /\ mem' = mem /\ q.pc = "reload" /\ Return(r)
      BY <1>9 DEF Reload, storeVars
    <2>2. conf'[n] = Rendered(mem'.inst[n])
      BY <1>1, <2>1 DEF WorkDone, Made, LocalsOK
    <2> QED BY <1>4, <2>1, <2>2
  <1>10. CASE Remove(r)
    <2>1. Made([q EXCEPT !.pc = "drop"], conf', mem'.inst)
      BY <1>1 DEF WorkDone, Made, RequestState
    <2> QED BY <1>2, <1>3, <1>10, <2>1 DEF Remove, PCs, storeVars
  <1>11. ASSUME NEW ok \in Outcomes, Put(r, ok) PROVE TurnsInv'
    <2>1. q.pc = "put" /\ q.op # "delete" /\ q.rec \in InstanceRecs /\ conf[n] = Rendered(q.rec)
      BY <1>1, <1>11 DEF Put, LocalsOK, WorkDone, Made
    <2>2. /\ mem'.inst[n] = q.rec
          /\ \A m \in Names : m # n => mem'.inst[m] = mem.inst[m]
          /\ UNCHANGED <<conf, todo>>
      BY <1>1, <1>2, <1>11 DEF Put, DB!Commit, WithInstance, Data
    <2>3. ok
      BY <1>11 DEF Outcomes
    <2>4. CASE AfterPut(q) = "idle"
      BY <1>4, <1>11, <2>1, <2>2, <2>3, <2>4 DEF Put, Leave
    <2>5. CASE AfterPut(q) # "idle"
      <3>1. AfterPut(q) \in {"rerender", "stop"} /\ Goto(r, AfterPut(q))
        BY <1>11, <2>3, <2>5 DEF AfterPut, Put, Leave
      <3>2. Made([q EXCEPT !.pc = AfterPut(q)], conf', mem'.inst)
        BY <1>1, <2>1, <2>2, <3>1 DEF WorkDone, Made, RequestState
      <3> QED BY <1>3, <2>2, <3>1, <3>2 DEF PCs
    <2> QED BY <2>4, <2>5
  <1>12. ASSUME NEW ok \in Outcomes, Drop(r, ok) PROVE TurnsInv'
    <2>1. /\ mem'.inst[n] = Absent
          /\ \A m \in Names : m # n => mem'.inst[m] = mem.inst[m]
          /\ UNCHANGED <<conf, todo>> /\ Return(r)
      BY <1>1, <1>2, <1>12 DEF Drop, DB!Commit, WithoutInstance, Data
    <2>2. ~Wanted(mem', n)
      BY <2>1 DEF Wanted, Known
    <2> QED BY <1>4, <2>1, <2>2
  <1>13. CASE Refused(r)
    <2>1. UNCHANGED <<conf, todo>> /\ mem' = mem /\ q.pc = "render" /\ Return(r)
      BY <1>13 DEF Refused, storeVars
    <2>2. Wanted(mem', n) => conf'[n] = Rendered(mem'.inst[n])
      BY <1>1, <2>1 DEF WorkDone, Made, Wanted, Known
    <2> QED BY <1>4, <2>1, <2>2
  <1>14. ~Fails(r)
    BY DEF Fails
  <1> HIDE DEF q, n
  <1> QED BY <1>5, <1>6, <1>7, <1>8, <1>9, <1>10, <1>11, <1>12, <1>13, <1>14 DEF Step

LEMMA NextTurns ==
    ASSUME Discipline = "instance", MayFail = FALSE
    PROVE  IInv /\ TurnsInv /\ [Next]_vars => TurnsInv'
  <1> SUFFICES ASSUME IInv, TurnsInv, [Next]_vars PROVE TurnsInv'
    OBVIOUS
  <1>1. ASSUME NEW n \in Names, Reconcile(n) PROVE TurnsInv'
    <2>1. /\ conf' = [conf EXCEPT ![n] = Rendered(mem.inst[n])]
          /\ todo' = todo \ {n} /\ UNCHANGED <<mem, req>>
          /\ \A r \in Requests : req[r].pc = "idle"
      BY <1>1 DEF Reconcile, storeVars, IInv, StartUpFirst
    <2>2. conf'[n] = Rendered(mem.inst[n]) /\ \A m \in Names : m # n => conf'[m] = conf[m]
      BY <2>1 DEF IInv, FilesInv
    <2>3. OneAtATime' /\ \A r \in Requests : WorkDone(req[r])'
      BY <2>1 DEF OneAtATime, WorkDone, Made
    <2>4. ConfFollowsStore'
      BY <2>1, <2>2 DEF TurnsInv, ConfFollowsStore, Settled, Busy, Wanted, Known
    <2> QED BY <2>3, <2>4 DEF TurnsInv
  <1>2. ASSUME Restart PROVE TurnsInv'
    <2>1. \A r \in Requests : req'[r].pc = "idle"
      BY <1>2 DEF Restart, Idle
    <2>2. \A n \in Names : Wanted(mem', n) => n \in todo'
      BY <1>2 DEF Restart
    <2>3. OneAtATime' /\ \A r \in Requests : WorkDone(req[r])'
      BY <2>1 DEF OneAtATime, WorkDone, Made
    <2>4. ConfFollowsStore'
      BY <2>2 DEF ConfFollowsStore, Settled, Wanted, Known
    <2> QED BY <2>3, <2>4 DEF TurnsInv
  <1>3. ASSUME UNCHANGED <<mem, req, conf, todo>> PROVE TurnsInv'
    BY <1>3 DEF TurnsInv, OneAtATime, WorkDone, Made, ConfFollowsStore, Settled, Busy, Wanted, Known
  <1>4. ASSUME NEW p \in Pids, Ocserv(p) \/ Dies(p) PROVE TurnsInv'
    <2>1. Untouched
      BY <1>4 DEF Ocserv, Boots, FailsToBoot, Rereads, ObeysTerm, Reaped, Dies
    <2> QED BY <1>3, <2>1 DEF Untouched, storeVars
  <1>5. UNCHANGED vars => TurnsInv'
    BY <1>3 DEF vars, storeVars
  <1> QED BY <1>1, <1>2, <1>4, <1>5, ArriveTurns, StepTurns DEF Next

(* When callers take turns at an instance and no write fails, the file of a     *)
(* settled, enabled instance says what its record says, after any crash too.    *)
THEOREM ConfAlwaysFollowsStore ==
    ASSUME Discipline = "instance", MayFail = FALSE
    PROVE  Spec => []ConfFollowsStore
  <1>1. Init => TurnsInv
    BY DEF Init, Idle, TurnsInv, OneAtATime, WorkDone, Made, ConfFollowsStore, Wanted, Known, Empty
  <1>2. IInv /\ TurnsInv /\ [Next]_vars => TurnsInv'
    BY NextTurns
  <1>3. TurnsInv => ConfFollowsStore
    BY DEF TurnsInv
  <1> QED BY <1>1, <1>2, <1>3, SpecIInv, PTL DEF Spec

--------------------------------------------------------------------------------
(* What the processes serve, when the handlers of an instance take turns *)

Told(n) == \A p \in Live(n) : proc[p].term

Serving(n) == {p \in Live(n) : proc[p].state = "serving" /\ ~proc[p].term}

ListenFits(n, rec) == \A p \in Serving(n) : proc[p].cfg.listen = Bound(rec.listen)

(* A signal on its way makes good what is not a listener. *)
Fits(n, rec) ==
    \A p \in Serving(n) :
        /\ proc[p].cfg.listen = Bound(rec.listen)
        /\ proc[p].hup \/ proc[p].cfg = Rendered(rec)

AtRest(n) == IF Wanted(mem, n) THEN Fits(n, mem.inst[n]) ELSE Told(n)

(* What the processes are while a handler is at work on their instance: as it   *)
(* found them until the new file is there, then on the listeners that it asks   *)
(* for, unless it is about to stop them.                                        *)
Found(q) ==
    /\ q.op = "create" => mem.inst[q.n] = Absent
    /\ q.op = "patch" /\ ~q.rebind => mem.inst[q.n].listen = q.rec.listen

Serves(q) ==
    /\ q.pc = "render" => Found(q) /\ AtRest(q.n)
    /\ q.pc \in {"write", "put"} =>
          /\ Found(q)
          /\ IF Wanted(mem, q.n) THEN ~q.rebind => ListenFits(q.n, q.rec) ELSE Told(q.n)
    /\ q.pc \in {"rerender", "rewrite", "spawn"} =>
          /\ q.rec.enabled
          /\ IF q.op = "create" \/ q.rebind THEN Told(q.n) ELSE ListenFits(q.n, q.rec)
    /\ q.pc = "reload" => q.rec.enabled /\ ListenFits(q.n, q.rec)
    /\ q.pc \in {"remove", "drop"} => Told(q.n)

ServeInv ==
    /\ \A n \in todo : Wanted(mem, n) /\ Told(n)
    /\ \A n \in Names : Settled(n) => AtRest(n)
    /\ \A r \in Requests : Serves(req[r])

(* A step that leaves what is said of the processes of an instance true. *)
Keeps(n) ==
    /\ Told(n) => Told(n)'
    /\ \A rec \in InstanceRecs :
          /\ ListenFits(n, rec) => ListenFits(n, rec)'
          /\ Fits(n, rec) => Fits(n, rec)'

LEMMA ToldFits ==
    ASSUME NEW n \in Names, Told(n)
    PROVE  \A rec \in InstanceRecs : ListenFits(n, rec) /\ Fits(n, rec)
  BY DEF Told, Serving, ListenFits, Fits

(* What the supervisor's invariant says here. *)
LEMMA Processes ==
    ASSUME IInv
    PROVE  /\ proc \in [DOMAIN proc -> S!Process]
           /\ \A p \in DOMAIN proc :
                 ~proc[p].term => proc[p].inst \in DOMAIN procs /\ procs[proc[p].inst] = p
           /\ \A n \in DOMAIN procs : procs[n] \in DOMAIN proc => proc[procs[n]].inst = n
  BY DEF IInv, SP!IInv, SP!TypeOK, SP!NoStray, SP!TrackedInv, SP!Process, S!Process

LEMMA SameKeeps == ASSUME UNCHANGED proc, NEW n \in Names PROVE Keeps(n)
  BY DEF Keeps, Told, ListenFits, Fits, Serving, Live

(* Start adds a process that serves nothing yet. *)
LEMMA StartKeeps ==
    ASSUME IInv, NEW n \in Names, S!Start(n)
    PROVE  /\ \A m \in Names : m # n => Keeps(m)
           /\ \A rec \in InstanceRecs :
                 /\ ListenFits(n, rec) => ListenFits(n, rec)'
                 /\ Fits(n, rec) => Fits(n, rec)'
  <1>1. CASE S!Alive(n)
    BY <1>1, SameKeeps DEF S!Start, S!vars, Keeps
  <1>2. CASE ~S!Alive(n)
    <2>1. PICK p \in S!Fresh :
            proc' = [q \in DOMAIN proc \cup {p} |-> IF q = p THEN S!Newborn(n) ELSE proc[q]]
      BY <1>2 DEF S!Start
    <2>2. /\ p \notin DOMAIN proc /\ DOMAIN proc' = DOMAIN proc \cup {p}
          /\ \A q \in DOMAIN proc : proc'[q] = proc[q]
          /\ proc'[p].inst = n /\ proc'[p].state = "booting"
      BY <2>1 DEF S!Fresh, S!Newborn
    <2>3. \A m \in Names : Serving(m)' = Serving(m) /\ \A q \in Serving(m) : proc'[q] = proc[q]
      BY <2>2 DEF Serving, Live
    <2>4. \A m \in Names : m # n /\ Told(m) => Told(m)'
      BY <2>2 DEF Told, Live
    <2> QED BY <2>3, <2>4 DEF Keeps, ListenFits, Fits
  <1> QED BY <1>1, <1>2

(* Stop tells the one process of the instance that had not been told. *)
LEMMA StopKeeps ==
    ASSUME IInv, NEW n \in Names, S!Stop(n)
    PROVE  Told(n)' /\ \A m \in Names : Keeps(m)
  <1>1. /\ DOMAIN proc' = DOMAIN proc
        /\ \A p \in DOMAIN proc :
              /\ proc'[p].inst = proc[p].inst /\ proc'[p].state = proc[p].state
              /\ proc'[p].cfg = proc[p].cfg /\ proc'[p].hup = proc[p].hup
              /\ proc[p].term => proc'[p].term
              /\ proc[p].inst = n => proc'[p].term
    BY Processes DEF S!Stop, S!vars, S!Alive, S!Process
  <1>2. Told(n)'
    BY <1>1 DEF Told, Live
  <1>3. \A m \in Names : Serving(m)' \subseteq Serving(m)
    BY <1>1, Processes DEF Serving, Live, S!Process
  <1>4. \A m \in Names : Told(m) => Told(m)'
    BY <1>1 DEF Told, Live
  <1>5. ASSUME NEW m \in Names, NEW rec \in InstanceRecs
        PROVE  /\ ListenFits(m, rec) => ListenFits(m, rec)'
               /\ Fits(m, rec) => Fits(m, rec)'
    BY <1>1, <1>3 DEF ListenFits, Fits, Serving, Live
  <1> QED BY <1>2, <1>4, <1>5 DEF Keeps

(* Reload signals the one process that serves the instance. *)
LEMMA ReloadKeeps ==
    ASSUME IInv, NEW n \in Names, S!Reload(n)
    PROVE  /\ \A m \in Names : Keeps(m)
           /\ \A rec \in InstanceRecs : ListenFits(n, rec) => Fits(n, rec)'
  <1>1. /\ DOMAIN proc' = DOMAIN proc
        /\ \A p \in DOMAIN proc :
              /\ proc'[p].inst = proc[p].inst /\ proc'[p].state = proc[p].state
              /\ proc'[p].cfg = proc[p].cfg /\ proc'[p].term = proc[p].term
              /\ proc[p].hup => proc'[p].hup
              /\ proc[p].inst = n /\ ~proc[p].term => proc'[p].hup
    BY Processes DEF S!Reload, S!vars, S!Alive, S!Process
  <1>2. \A m \in Names : Serving(m)' = Serving(m) /\ (Told(m) => Told(m)')
    BY <1>1 DEF Serving, Told, Live
  <1>3. ASSUME NEW m \in Names, NEW rec \in InstanceRecs
        PROVE  /\ ListenFits(m, rec) => ListenFits(m, rec)'
               /\ Fits(m, rec) => Fits(m, rec)'
    BY <1>1, <1>2 DEF ListenFits, Fits, Serving, Live
  <1>4. ASSUME NEW rec \in InstanceRecs, ListenFits(n, rec) PROVE Fits(n, rec)'
    BY <1>1, <1>2, <1>4 DEF ListenFits, Fits, Serving, Live
  <1> QED BY <1>2, <1>3, <1>4 DEF Keeps

(* What a process does on its own: it takes over the file, or goes. *)
LEMMA ProcessFits ==
    ASSUME IInv, NEW p \in Pids, Ocserv(p) \/ Dies(p), NEW n \in Names
    PROVE  /\ Told(n) => Told(n)'
           /\ \A rec \in InstanceRecs :
                 /\ ListenFits(n, rec) /\ (conf[n] \in Configs => conf[n].listen = Bound(rec.listen))
                       => ListenFits(n, rec)'
                 /\ Fits(n, rec) /\ conf[n] = Rendered(rec) => Fits(n, rec)'
  <1>1. \A rec \in InstanceRecs :
           Rendered(rec) \in Configs /\ Rendered(rec).listen = Bound(rec.listen)
    BY RenderedTyped DEF Rendered
  <1>2. CASE S!Exit(p)
    <2>1. /\ DOMAIN proc' = DOMAIN proc /\ proc'[p].state = "exited"
          /\ \A q \in DOMAIN proc : q # p => proc'[q] = proc[q]
      BY <1>2, Processes DEF S!Exit, S!In, S!Process
    <2>2. Live(n)' \subseteq Live(n) /\ \A q \in Live(n)' : proc'[q] = proc[q]
      BY <2>1 DEF Live
    <2>3. Serving(n)' \subseteq Serving(n)
      BY <2>2 DEF Serving
    <2>4. \A q \in Serving(n)' : proc'[q] = proc[q]
      BY <2>2 DEF Serving
    <2> QED BY <2>2, <2>3, <2>4 DEF Told, ListenFits, Fits
  <1>3. CASE S!Reap(p)
    <2>1. DOMAIN proc' = DOMAIN proc \ {p} /\ \A q \in DOMAIN proc' : proc'[q] = proc[q]
      BY <1>3 DEF S!Reap
    <2>2. Live(n)' \subseteq Live(n) /\ Serving(n)' \subseteq Serving(n)
      BY <2>1 DEF Live, Serving
    <2>3. \A q \in Live(n)' \cup Serving(n)' : proc'[q] = proc[q]
      BY <2>1 DEF Live, Serving
    <2> QED BY <2>2, <2>3 DEF Told, ListenFits, Fits
  <1>4. CASE Boots(p)
    <2>1. /\ DOMAIN proc' = DOMAIN proc
          /\ \A q \in DOMAIN proc : q # p => proc'[q] = proc[q]
          /\ p \in DOMAIN proc /\ proc'[p].cfg = conf[proc[p].inst]
          /\ conf[proc[p].inst] \in Configs
          /\ proc'[p].inst = proc[p].inst /\ proc'[p].term = proc[p].term
          /\ proc[p].state = "booting"
      <3>1. proc[p] \in S!Process /\ p \in DOMAIN proc
        BY <1>4, Processes DEF Boots, S!In
      <3>2. proc' = [proc EXCEPT ![p] = [proc[p] EXCEPT !.state = "serving",
                                                       !.cfg = conf[proc[p].inst]]]
        BY <1>4 DEF Boots, S!Boot, ConfOf
      <3> QED BY <1>4, <3>1, <3>2, Processes DEF Boots, S!In, S!Process, ConfOf
    <2>2. Told(n) => Told(n)'
      BY <2>1 DEF Told, Live
    <2>3. \A q \in Serving(n)' :
             \/ q \in Serving(n) /\ proc'[q] = proc[q]
             \/ proc'[q].cfg = conf[n] /\ conf[n] \in Configs
      BY <2>1 DEF Serving, Live
    <2> QED BY <1>1, <2>2, <2>3 DEF ListenFits, Fits
  <1>5. CASE Rereads(p) /\ ~S!Exit(p)
    <2> DEFINE n0 == proc[p].inst
    <2>1. /\ DOMAIN proc' = DOMAIN proc
          /\ \A q \in DOMAIN proc : q # p => proc'[q] = proc[q]
          /\ p \in DOMAIN proc
          /\ proc'[p].inst = n0 /\ proc'[p].term = proc[p].term
          /\ proc'[p].state = proc[p].state /\ proc[p].state = "serving"
          /\ proc'[p].cfg.listen = proc[p].cfg.listen
          /\ conf[n0] \in Configs => proc'[p].cfg = [proc[p].cfg EXCEPT !.other = conf[n0].other]
      <3>1. proc[p].cfg \in Configs
        BY <1>5 DEF Rereads, S!In, IInv, SP!IInv, SP!TypeOK
      <3>2. PICK cfg : S!TakeHup(p, cfg) /\ cfg.listen = proc[p].cfg.listen
                       /\ (conf[n0] \in Configs => cfg = [proc[p].cfg EXCEPT !.other = conf[n0].other])
        BY <1>5, <3>1 DEF Rereads, ConfOf, Configs
      <3>3. proc[p] \in S!Process /\ p \in DOMAIN proc /\ proc[p].state = "serving"
        BY <3>2, Processes DEF S!TakeHup, S!In
      <3>4. proc' = [proc EXCEPT ![p] = [proc[p] EXCEPT !.hup = FALSE, !.cfg = cfg]]
        BY <3>2 DEF S!TakeHup
      <3> QED BY <3>2, <3>3, <3>4, Processes DEF S!Process
    <2>2. Told(n) => Told(n)'
      BY <2>1 DEF Told, Live
    <2>3. Serving(n)' = Serving(n)
      BY <2>1 DEF Serving, Live
    <2>4. ASSUME NEW rec \in InstanceRecs, ListenFits(n, rec) PROVE ListenFits(n, rec)'
      BY <2>1, <2>3, <2>4 DEF ListenFits, Serving, Live
    <2>5. ASSUME NEW rec \in InstanceRecs, Fits(n, rec), conf[n] = Rendered(rec) PROVE Fits(n, rec)'
      <3> SUFFICES ASSUME NEW q \in Serving(n)
                   PROVE  /\ proc'[q].cfg.listen = Bound(rec.listen)
                          /\ proc'[q].hup \/ proc'[q].cfg = Rendered(rec)
        BY <2>3 DEF Fits
      <3>1. CASE q = p
        <4>1. n0 = n /\ conf[n] \in Configs /\ proc[p].cfg.listen = Bound(rec.listen)
          BY <1>1, <2>5, <3>1 DEF Serving, Live, Fits
        <4>2. proc[p].cfg \in Configs
          BY <1>5 DEF Rereads, S!In, IInv, SP!IInv, SP!TypeOK
        <4>3. proc'[p].cfg = [proc[p].cfg EXCEPT !.other = Rendered(rec).other]
          BY <2>1, <2>5, <4>1
        <4>4. proc'[p].cfg = Rendered(rec)
          BY <4>1, <4>2, <4>3 DEF Rendered, Configs
        <4> QED BY <1>1, <3>1, <4>4
      <3>2. CASE q # p
        BY <2>1, <2>5, <3>2 DEF Serving, Live, Fits
      <3> QED BY <3>1, <3>2
    <2> QED BY <2>2, <2>4, <2>5
  <1>6. CASE FailsToBoot(p) \/ ObeysTerm(p) \/ Dies(p)
    BY <1>2, <1>6 DEF FailsToBoot, ObeysTerm, Dies
  <1>7. CASE Reaped(p)
    BY <1>3, <1>7 DEF Reaped
  <1> QED BY <1>2, <1>4, <1>5, <1>6, <1>7 DEF Ocserv

LEMMA AtRestKept ==
    ASSUME IInv, NEW n \in Names, Keeps(n), mem'.inst[n] = mem.inst[n], AtRest(n)
    PROVE  AtRest(n)'
  <1>1. Wanted(mem', n) <=> Wanted(mem, n)
    BY DEF Wanted, Known
  <1>2. Wanted(mem, n) => mem.inst[n] \in InstanceRecs
    BY DEF Wanted, Known, IInv, FilesInv, Data
  <1>3. CASE Wanted(mem, n)
    <2>1. PICK rec \in InstanceRecs : rec = mem.inst[n]
      BY <1>2, <1>3
    <2>2. Fits(n, rec)'
      BY <1>3, <2>1 DEF AtRest, Keeps, Fits
    <2> QED BY <1>1, <1>3, <2>1, <2>2 DEF AtRest, Fits
  <1>4. CASE ~Wanted(mem, n)
    BY <1>1, <1>4 DEF AtRest, Keeps
  <1> QED BY <1>3, <1>4

LEMMA ServesKept ==
    ASSUME IInv, NEW r \in Requests, req'[r] = req[r], Serves(req[r]),
           NEW n \in Names, req[r].pc # "idle", req[r].n = n, Keeps(n),
           mem'.inst[n] = mem.inst[n]
    PROVE  Serves(req[r])'
  <1>1. LocalsOK(req[r])
    BY DEF IInv, RequestsInv
  <1>2. Wanted(mem', n) <=> Wanted(mem, n)
    BY DEF Wanted, Known
  <1>3. Found(req[r])' <=> Found(req[r])
    BY DEF Found
  <1>4. AtRest(n) => AtRest(n)'
    BY AtRestKept
  <1>5. req[r].pc \in {"write", "put", "rerender", "rewrite", "spawn", "reload"} =>
           req[r].rec \in InstanceRecs
    BY <1>1 DEF LocalsOK
  <1>6. Told(n) => Told(n)'
    BY DEF Keeps
  <1>7. ASSUME req[r].rec \in InstanceRecs, ListenFits(n, req[r].rec)
        PROVE  ListenFits(n, req[r].rec)'
    <2>1. PICK rec \in InstanceRecs : rec = req[r].rec
      BY <1>7
    <2>2. ListenFits(n, rec)'
      BY <1>7, <2>1 DEF Keeps, ListenFits
    <2> QED BY <2>1, <2>2 DEF ListenFits
  <1> QED BY <1>2, <1>3, <1>4, <1>5, <1>6, <1>7 DEF Serves

(* The step of a handler concerns its own instance only. *)
LEMMA WorkServes ==
    ASSUME IInv, TurnsInv, ServeInv, NEW r \in Requests, NEW n \in Names,
           req[r].pc # "idle", req[r].n = n,
           \A s \in Requests : s # r => req'[s] = req[s],
           req'[r].pc # "idle" => req'[r].n = n,
           UNCHANGED todo,
           \A m \in Names : m # n => mem'.inst[m] = mem.inst[m] /\ Keeps(m),
           Serves(req[r])', req'[r].pc = "idle" => AtRest(n)'
    PROVE  ServeInv'
  <1>1. todo' = {}
    BY DEF IInv, StartUpFirst
  <1>2. ASSUME NEW m \in Names, Settled(m)' PROVE AtRest(m)'
    <2>1. CASE m = n
      BY <1>2, <2>1 DEF Settled, Busy
    <2>2. CASE m # n
      <3>1. Settled(m)
        BY <1>2, <2>2 DEF Settled, Busy
      <3> QED BY <2>2, <3>1, AtRestKept DEF ServeInv
    <2> QED BY <2>1, <2>2
  <1>3. ASSUME NEW s \in Requests, s # r PROVE Serves(req[s])'
    <2>1. CASE req[s].pc = "idle"
      BY <1>3, <2>1 DEF Serves
    <2>2. CASE req[s].pc # "idle"
      <3>1. PICK m \in Names : m = req[s].n /\ m # n
        BY <1>3, <2>2 DEF TurnsInv, OneAtATime, IInv, RequestsInv, LocalsOK
      <3> QED BY <1>3, <2>2, <3>1, ServesKept DEF ServeInv
    <2> QED BY <2>1, <2>2
  <1> QED BY <1>1, <1>2, <1>3 DEF ServeInv

LEMMA ArriveServes ==
    ASSUME Discipline = "instance", IInv, TurnsInv, ServeInv, NEW r \in Requests, Arrive(r)
    PROVE  ServeInv'
  <1>1. PICK n \in Names :
          \/ \E rec \in InstanceRecs : CreateInstance(r, n, rec)
          \/ \E body \in Bodies : PatchInstance(r, n, body)
          \/ DeleteInstance(r, n)
    BY DEF Arrive
  <1>2. Admitted(r, n) /\ UNCHANGED <<storeVars, conf, todo, supVars>>
    BY <1>1 DEF CreateInstance, PatchInstance, DeleteInstance
  <1>3. Settled(n) /\ todo = {} /\ todo' = {} /\ req[r].pc = "idle" /\ mem' = mem
    BY <1>2 DEF Admitted, Settled, storeVars
  <1>4. \A s \in Requests : s # r => req'[s] = req[s]
    BY <1>1 DEF CreateInstance, PatchInstance, DeleteInstance, IInv, RequestsInv
  <1>5. req'[r].pc # "idle" /\ req'[r].n = n
    <2>1. PICK q : q.pc # "idle" /\ q.n = n /\ req' = [req EXCEPT ![r] = q]
      BY <1>1 DEF CreateInstance, PatchInstance, DeleteInstance, Idle
    <2> QED BY <2>1 DEF IInv, RequestsInv
  <1>6. \A m \in Names : Keeps(m)
    BY <1>2, SameKeeps DEF supVars
  <1>7. AtRest(n)'
    BY <1>3, <1>6, AtRestKept DEF ServeInv
  <1>8. Serves(req[r])'
    <2>1. CASE DeleteInstance(r, n)
      <3>1. req'[r].pc = "stop"
        BY <2>1 DEF DeleteInstance, IInv, RequestsInv, Idle
      <3> QED BY <3>1 DEF Serves
    <2>2. ASSUME NEW rec \in InstanceRecs, CreateInstance(r, n, rec) PROVE Serves(req[r])'
      <3>1. req'[r].pc = "render" /\ req'[r].op = "create" /\ mem.inst[n] = Absent
        BY <2>2 DEF CreateInstance, IInv, RequestsInv, Idle, Known
      <3>2. Found(req[r])'
        BY <1>3, <1>5, <3>1 DEF Found
      <3> QED BY <1>5, <1>7, <3>1, <3>2 DEF Serves
    <2>3. ASSUME NEW body \in Bodies, PatchInstance(r, n, body) PROVE Serves(req[r])'
      <3>1. /\ req'[r].pc = "render" /\ req'[r].op = "patch"
            /\ req'[r].rebind = (mem.inst[n].listen # req'[r].rec.listen)
        BY <2>3 DEF PatchInstance, ListenersDiffer, IInv, RequestsInv
      <3>2. Found(req[r])'
        BY <1>3, <1>5, <3>1 DEF Found
      <3> QED BY <1>5, <1>7, <3>1, <3>2 DEF Serves
    <2> QED BY <1>1, <2>1, <2>2, <2>3
  <1>9. ASSUME NEW m \in Names, Settled(m)' PROVE AtRest(m)'
    <2>1. Settled(m)
      BY <1>3, <1>4, <1>5, <1>9 DEF Settled, Busy
    <2> QED BY <1>3, <1>6, <2>1, AtRestKept DEF ServeInv
  <1>10. ASSUME NEW s \in Requests, s # r PROVE Serves(req[s])'
    <2>1. CASE req[s].pc = "idle"
      BY <1>4, <1>10, <2>1 DEF Serves
    <2>2. CASE req[s].pc # "idle"
      <3>1. PICK m \in Names : m = req[s].n
        BY <2>2 DEF IInv, RequestsInv, LocalsOK
      <3> QED BY <1>3, <1>4, <1>6, <1>10, <2>2, <3>1, ServesKept DEF ServeInv
    <2> QED BY <2>1, <2>2
  <1> QED BY <1>3, <1>8, <1>9, <1>10 DEF ServeInv

LEMMA StepServes ==
    ASSUME MayFail = FALSE, IInv, TurnsInv, ServeInv, NEW r \in Requests, Step(r)
    PROVE  ServeInv'
  <1> DEFINE q == req[r]
             t == req'[r]
  <1>1. q.pc # "idle"
    BY DEF Step, Truncate, Refused, Write, Stop, Spawn, Reload, Remove, Put, Drop, Fails
  <1>2. PICK n \in Names : n = q.n
    BY <1>1 DEF IInv, RequestsInv, LocalsOK
  <1>3. /\ q \in RequestState /\ LocalsOK(q) /\ WorkDone(q) /\ Serves(q)
        /\ req \in [Requests -> RequestState]
        /\ conf \in [Names -> Configs \cup {NoFile, Torn}] /\ mem \in Data
    BY DEF IInv, RequestsInv, FilesInv, TurnsInv, ServeInv
  <1>4. q.pc \notin {"stop", "remove", "drop"} => q.op # "delete" /\ q.rec \in InstanceRecs
    BY <1>1, <1>3 DEF LocalsOK
  (* The locals after the step. *)
  <1>5. ASSUME NEW pc, Goto(r, pc)
        PROVE  /\ t.pc = pc /\ t.op = q.op /\ t.n = n /\ t.rec = q.rec /\ t.rebind = q.rebind
               /\ \A s \in Requests : s # r => req'[s] = req[s]
    BY <1>2, <1>3, <1>5 DEF Goto, RequestState
  <1>6. ASSUME Return(r)
        PROVE  /\ t.pc = "idle" /\ Serves(req[r])'
               /\ \A s \in Requests : s # r => req'[s] = req[s]
    <2>1. t = Idle /\ \A s \in Requests : s # r => req'[s] = req[s]
      BY <1>3, <1>6 DEF Return
    <2> QED BY <2>1 DEF Idle, Serves
  <1>7. ASSUME UNCHANGED proc
        PROVE  /\ \A m \in Names : Keeps(m)
               /\ Told(n)' <=> Told(n)
               /\ \A rec \in InstanceRecs : ListenFits(n, rec)' <=> ListenFits(n, rec)
    BY <1>7, SameKeeps DEF Told, ListenFits, Serving, Live
  (* What remains is the instance itself, at rest or with the handler going on. *)
  <1>8. ASSUME Return(r), UNCHANGED todo, AtRest(n)',
               \A m \in Names : m # n => mem'.inst[m] = mem.inst[m] /\ Keeps(m)
        PROVE  ServeInv'
    BY <1>1, <1>2, <1>6, <1>8, WorkServes
  <1>9. ASSUME NEW pc, pc # "idle", Goto(r, pc), UNCHANGED todo, Serves(req[r])',
               \A m \in Names : m # n => mem'.inst[m] = mem.inst[m] /\ Keeps(m)
        PROVE  ServeInv'
    BY <1>1, <1>2, <1>5, <1>9, WorkServes
  <1> PICK rec : rec = q.rec
    OBVIOUS
  <1>10. ASSUME NEW pc \in {"write", "put"}, Goto(r, pc), UNCHANGED mem, Found(q),
                IF Wanted(mem, n) THEN ~q.rebind => ListenFits(n, rec)' ELSE Told(n)'
         PROVE  Serves(req[r])'
    BY <1>2, <1>5, <1>10 DEF Serves, Found, ListenFits
  <1>11. ASSUME NEW pc \in {"rerender", "rewrite", "spawn"}, Goto(r, pc), rec.enabled,
                IF q.op = "create" \/ q.rebind THEN Told(n)' ELSE ListenFits(n, rec)'
         PROVE  Serves(req[r])'
    BY <1>5, <1>11 DEF Serves, ListenFits
  <1>12. ASSUME Goto(r, "reload"), rec.enabled, ListenFits(n, rec)' PROVE Serves(req[r])'
    BY <1>5, <1>12 DEF Serves, ListenFits
  <1>13. ASSUME NEW pc \in {"remove", "drop"}, Goto(r, pc), Told(n)' PROVE Serves(req[r])'
    BY <1>5, <1>13 DEF Serves
  <1>14. Goto(r, "stop") => Serves(req[r])'
    BY <1>5 DEF Serves
  <1>15. CASE Truncate(r)
    <2>1. UNCHANGED <<todo, mem, proc>> /\ q.pc \in {"render", "rerender"}
      BY <1>15 DEF Truncate, storeVars, supVars
    <2>2. CASE q.pc = "render"
      <3>1. Goto(r, "write") /\ Found(q) /\ AtRest(n) /\ rec \in InstanceRecs
        BY <1>2, <1>3, <1>4, <1>15, <2>2 DEF Truncate, Serves
      <3>2. ~Wanted(mem, n) => Told(n)
        BY <3>1 DEF AtRest
      <3>3. Wanted(mem, n) /\ ~q.rebind => ListenFits(n, rec)
        BY <1>2, <1>3, <1>4, <2>2, <3>1 DEF AtRest, Found, Fits, ListenFits, LocalsOK, Wanted, Known
      <3>4. Serves(req[r])'
        BY <1>7, <1>10, <2>1, <3>1, <3>2, <3>3
      <3> QED BY <1>7, <1>9, <2>1, <3>1, <3>4
    <2>3. CASE q.pc = "rerender"
      <3>1. Goto(r, "rewrite") /\ rec \in InstanceRecs
        BY <1>4, <1>15, <2>3 DEF Truncate
      <3>2. rec.enabled /\ IF q.op = "create" \/ q.rebind THEN Told(n) ELSE ListenFits(n, rec)
        BY <1>2, <1>3, <2>3 DEF Serves
      <3>3. Serves(req[r])'
        BY <1>7, <1>11, <2>1, <3>1, <3>2
      <3> QED BY <1>7, <1>9, <2>1, <3>1, <3>3
    <2> QED BY <2>1, <2>2, <2>3
  <1>16. CASE Write(r)
    <2>1. UNCHANGED <<todo, mem, proc>> /\ q.pc \in {"write", "rewrite"}
      BY <1>16 DEF Write, storeVars, supVars
    <2>2. CASE q.pc = "write"
      <3>1. Goto(r, "put") /\ Found(q) /\ rec \in InstanceRecs
        BY <1>3, <1>4, <1>16, <2>2 DEF Write, Serves
      <3>2. IF Wanted(mem, n) THEN ~q.rebind => ListenFits(n, rec) ELSE Told(n)
        BY <1>2, <1>3, <2>2 DEF Serves
      <3>3. Serves(req[r])'
        BY <1>7, <1>10, <2>1, <3>1, <3>2
      <3> QED BY <1>7, <1>9, <2>1, <3>1, <3>3
    <2>3. CASE q.pc = "rewrite"
      <3>1. Goto(r, "spawn") /\ rec \in InstanceRecs
        BY <1>4, <1>16, <2>3 DEF Write
      <3>2. rec.enabled /\ IF q.op = "create" \/ q.rebind THEN Told(n) ELSE ListenFits(n, rec)
        BY <1>2, <1>3, <2>3 DEF Serves
      <3>3. Serves(req[r])'
        BY <1>7, <1>11, <2>1, <3>1, <3>2
      <3> QED BY <1>7, <1>9, <2>1, <3>1, <3>3
    <2> QED BY <2>1, <2>2, <2>3
  <1>17. CASE Refused(r)
    <2>1. Return(r) /\ UNCHANGED <<todo, mem, proc>> /\ q.pc = "render"
      BY <1>17 DEF Refused, storeVars, supVars
    <2>2. AtRest(n)'
      BY <1>2, <1>3, <1>7, <2>1, AtRestKept DEF Serves
    <2> QED BY <1>7, <1>8, <2>1, <2>2
  <1>18. CASE Stop(r)
    <2>1. /\ UNCHANGED <<todo, mem>> /\ q.pc = "stop" /\ S!Stop(n) /\ Leave(r, AfterStop(q))
          /\ q.op # "delete" => mem.inst[n] = rec
      BY <1>2, <1>3, <1>18 DEF Stop, storeVars, WorkDone, Made
    <2>2. Told(n)' /\ \A m \in Names : Keeps(m)
      BY <2>1, StopKeeps
    <2>3. CASE AfterStop(q) = "idle"
      <3>1. ~Wanted(mem', n) /\ Return(r)
        BY <2>1, <2>3 DEF AfterStop, Wanted, Leave
      <3>2. AtRest(n)'
        BY <2>2, <3>1 DEF AtRest
      <3> QED BY <1>8, <2>1, <2>2, <3>1, <3>2
    <2>4. CASE q.op = "delete"
      <3>1. Goto(r, "remove")
        BY <2>1, <2>4 DEF AfterStop, Leave
      <3>2. Serves(req[r])'
        BY <1>13, <2>2, <3>1
      <3> QED BY <1>9, <2>1, <2>2, <3>1, <3>2
    <2>5. CASE q.op # "delete" /\ rec.enabled
      <3>1. Goto(r, "rerender") /\ rec \in InstanceRecs
        BY <1>3, <2>1, <2>5 DEF AfterStop, Leave, LocalsOK
      <3>2. ListenFits(n, rec)'
        BY <2>2 DEF Told, ListenFits, Serving
      <3>3. Serves(req[r])'
        BY <1>11, <2>2, <2>5, <3>1, <3>2
      <3> QED BY <1>9, <2>1, <2>2, <3>1, <3>3
    <2> QED BY <2>3, <2>4, <2>5 DEF AfterStop
  <1>19. CASE Spawn(r)
    <2>1. /\ UNCHANGED <<todo, mem>> /\ q.pc = "spawn" /\ S!Start(n) /\ Leave(r, AfterSpawn(q))
          /\ mem.inst[n] = rec /\ rec \in InstanceRecs /\ rec.enabled /\ q.op \in {"create", "patch"}
          /\ IF q.op = "create" \/ q.rebind THEN Told(n) ELSE ListenFits(n, rec)
      BY <1>2, <1>3, <1>4, <1>19 DEF Spawn, storeVars, WorkDone, Made, Serves, LocalsOK
    <2>2. \A m \in Names : m # n => mem'.inst[m] = mem.inst[m] /\ Keeps(m)
      BY <2>1, StartKeeps
    <2>3. CASE AfterSpawn(q) = "idle"
      <3>1. Fits(n, rec)'
        BY <2>1, <2>3, ToldFits, StartKeeps DEF AfterSpawn
      <3>2. AtRest(n)'
        BY <2>1, <3>1, AbsentAssumption DEF AtRest, Wanted, Known, Fits
      <3> QED BY <1>8, <2>1, <2>2, <2>3, <3>2 DEF Leave
    <2>4. CASE AfterSpawn(q) # "idle"
      <3>1. Goto(r, "reload") /\ ListenFits(n, rec)'
        BY <2>1, <2>4, StartKeeps DEF AfterSpawn, Leave
      <3>2. Serves(req[r])'
        BY <1>12, <2>1, <3>1
      <3> QED BY <1>9, <2>1, <2>2, <3>1, <3>2
    <2> QED BY <2>3, <2>4
  <1>20. CASE Reload(r)
    <2>1. /\ UNCHANGED <<todo, mem>> /\ q.pc = "reload" /\ S!Reload(n) /\ Return(r)
          /\ mem.inst[n] = rec /\ rec \in InstanceRecs /\ rec.enabled /\ ListenFits(n, rec)
      BY <1>2, <1>3, <1>4, <1>20 DEF Reload, storeVars, WorkDone, Made, Serves
    <2>2. Fits(n, rec)' /\ \A m \in Names : Keeps(m)
      BY <2>1, ReloadKeeps
    <2>3. AtRest(n)'
      BY <2>1, <2>2, AbsentAssumption DEF AtRest, Wanted, Known, Fits
    <2> QED BY <1>8, <2>1, <2>2, <2>3
  <1>21. CASE Remove(r)
    <2>1. UNCHANGED <<todo, mem, proc>> /\ Goto(r, "drop") /\ Told(n)
      BY <1>2, <1>3, <1>21 DEF Remove, storeVars, supVars, Serves
    <2>2. Serves(req[r])'
      BY <1>7, <1>13, <2>1
    <2> QED BY <1>7, <1>9, <2>1, <2>2
  <1>22. ASSUME NEW ok \in Outcomes, Put(r, ok) PROVE ServeInv'
    <2>1. /\ q.pc = "put" /\ UNCHANGED <<todo, proc>> /\ rec \in InstanceRecs
          /\ q.op \in {"create", "patch"} /\ ok /\ Found(q)
          /\ IF Wanted(mem, n) THEN ~q.rebind => ListenFits(n, rec) ELSE Told(n)
      BY <1>2, <1>3, <1>4, <1>22 DEF Put, supVars, Outcomes, Serves, LocalsOK
    <2>2. mem'.inst[n] = rec /\ \A m \in Names : m # n => mem'.inst[m] = mem.inst[m]
      BY <1>2, <1>3, <1>22 DEF Put, DB!Commit, WithInstance, Data
    <2>3. Leave(r, AfterPut(q))
      BY <1>22, <2>1 DEF Put
    <2>4. q.op = "create" => Told(n)
      BY <1>2, <2>1 DEF Found, Wanted, Known
    <2>5. \A m \in Names : m # n => mem'.inst[m] = mem.inst[m] /\ Keeps(m)
      BY <1>7, <2>1, <2>2
    <2>6. CASE AfterPut(q) = "idle"
      <3>1. Told(n)' /\ ~rec.enabled
        BY <1>7, <2>1, <2>4, <2>6 DEF AfterPut
      <3>2. AtRest(n)'
        BY <2>2, <3>1 DEF AtRest, Wanted
      <3> QED BY <1>8, <2>1, <2>3, <2>5, <2>6, <3>2 DEF Leave
    <2>7. CASE AfterPut(q) = "stop"
      <3>1. Goto(r, "stop")
        BY <2>3, <2>7 DEF Leave
      <3> QED BY <1>9, <1>14, <2>1, <2>5, <3>1
    <2>8. CASE AfterPut(q) = "rerender"
      <3>1. Goto(r, "rerender") /\ rec.enabled /\ (q.op = "create" \/ ~q.rebind)
        BY <2>1, <2>3, <2>8 DEF Leave, AfterPut
      <3>2. IF q.op = "create" \/ q.rebind THEN Told(n) ELSE ListenFits(n, rec)
        BY <2>1, <2>4, <3>1, ToldFits
      <3>3. Serves(req[r])'
        BY <1>7, <1>11, <2>1, <3>1, <3>2
      <3> QED BY <1>9, <2>1, <2>5, <3>1, <3>3
    <2> QED BY <2>6, <2>7, <2>8 DEF AfterPut
  <1>23. ASSUME NEW ok \in Outcomes, Drop(r, ok) PROVE ServeInv'
    <2>1. UNCHANGED <<todo, proc>> /\ Return(r) /\ Told(n)
      BY <1>2, <1>3, <1>23 DEF Drop, supVars, Serves
    <2>2. mem'.inst[n] = Absent /\ \A m \in Names : m # n => mem'.inst[m] = mem.inst[m]
      BY <1>2, <1>3, <1>23 DEF Drop, DB!Commit, WithoutInstance, Data
    <2>3. AtRest(n)'
      BY <1>7, <2>1, <2>2 DEF AtRest, Wanted, Known
    <2> QED BY <1>7, <1>8, <2>1, <2>2, <2>3
  <1>24. ~Fails(r)
    BY DEF Fails
  <1> HIDE DEF q, t
  <1> QED BY <1>15, <1>16, <1>17, <1>18, <1>19, <1>20, <1>21, <1>22, <1>23, <1>24 DEF Step

LEMMA ProcessServes ==
    ASSUME IInv, TurnsInv, ServeInv, NEW p \in Pids, Ocserv(p) \/ Dies(p)
    PROVE  ServeInv'
  <1>1. UNCHANGED <<mem, req, conf, todo>>
    BY DEF Ocserv, Boots, FailsToBoot, Rereads, ObeysTerm, Reaped, Dies, Untouched, storeVars
  <1>2. \A n \in Names : Wanted(mem', n) <=> Wanted(mem, n)
    BY <1>1 DEF Wanted, Known
  <1>3. \A n \in Names : Told(n) => Told(n)'
    BY ProcessFits
  <1>4. ASSUME NEW n \in Names, AtRest(n), Wanted(mem, n) => conf[n] = Rendered(mem.inst[n])
        PROVE  AtRest(n)'
    <2>1. CASE Wanted(mem, n)
      <3>1. PICK rec \in InstanceRecs : rec = mem.inst[n]
        BY <2>1 DEF Wanted, Known, IInv, FilesInv, Data
      <3>2. Fits(n, rec)'
        BY <1>4, <2>1, <3>1, ProcessFits DEF AtRest, Fits
      <3> QED BY <1>1, <1>2, <2>1, <3>1, <3>2 DEF AtRest, Fits
    <2>2. CASE ~Wanted(mem, n)
      BY <1>2, <1>3, <1>4, <2>2 DEF AtRest
    <2> QED BY <2>1, <2>2
  <1>5. ASSUME NEW n \in Names, Settled(n)' PROVE AtRest(n)'
    <2>1. Settled(n)
      BY <1>1, <1>5 DEF Settled, Busy
    <2> QED BY <1>4, <2>1 DEF ServeInv, TurnsInv, ConfFollowsStore
  <1>6. ASSUME NEW r \in Requests PROVE Serves(req[r])'
    <2>1. CASE req[r].pc = "idle"
      BY <1>1, <2>1 DEF Serves
    <2>2. CASE req[r].pc # "idle"
      <3>1. PICK n \in Names : n = req[r].n
        BY <2>2 DEF IInv, RequestsInv, LocalsOK
      <3>2. PICK rec : rec = req[r].rec
        OBVIOUS
      <3>3. LocalsOK(req[r]) /\ WorkDone(req[r]) /\ Serves(req[r]) /\ req'[r] = req[r]
        BY <1>1 DEF IInv, RequestsInv, TurnsInv, ServeInv
      <3>4. Found(req[r])' <=> Found(req[r])
        BY <1>1 DEF Found
      <3>5. req[r].pc = "render" => AtRest(n)'
        BY <1>4, <3>1, <3>3 DEF Serves, WorkDone, Made, Wanted, Known
      <3>6. ASSUME ListenFits(n, rec), req[r].op # "delete",
                   req[r].pc \in {"write", "put", "rerender", "rewrite", "spawn", "reload"}
            PROVE  ListenFits(n, rec)'
        <4>1. rec \in InstanceRecs
          BY <3>2, <3>3, <3>6 DEF LocalsOK
        <4>2. conf[n] = Torn \/ conf[n] = Rendered(rec)
          BY <3>1, <3>2, <3>3, <3>6 DEF WorkDone, Made
        <4>3. conf[n] \in Configs => conf[n].listen = Bound(rec.listen)
          BY <4>2, FilesAssumption DEF Rendered
        <4> QED BY <3>6, <4>1, <4>3, ProcessFits DEF ListenFits
      <3>7. req[r].op = "delete" => req[r].pc \in {"stop", "remove", "drop"}
        BY <2>2, <3>3 DEF LocalsOK
      <3>8. /\ req[r].n = n /\ req'[r].n = n /\ req[r].rec = rec /\ req'[r].rec = rec
            /\ Wanted(mem', n) <=> Wanted(mem, n)
        BY <1>2, <3>1, <3>2, <3>3
      <3> QED BY <1>3, <3>3, <3>4, <3>5, <3>6, <3>7, <3>8 DEF Serves, ListenFits
    <2> QED BY <2>1, <2>2
  <1>7. \A n \in todo' : Wanted(mem', n) /\ Told(n)'
    BY <1>1, <1>2, <1>3 DEF ServeInv, IInv, FilesInv
  <1> QED BY <1>5, <1>6, <1>7 DEF ServeInv

LEMMA NextServes ==
    ASSUME Discipline = "instance", MayFail = FALSE
    PROVE  IInv /\ TurnsInv /\ ServeInv /\ [Next]_vars => ServeInv'
  <1> SUFFICES ASSUME IInv, TurnsInv, ServeInv, [Next]_vars PROVE ServeInv'
    OBVIOUS
  <1>1. ASSUME NEW n \in Names, Reconcile(n) PROVE ServeInv'
    <2>1. /\ S!Start(n) /\ todo' = todo \ {n} /\ UNCHANGED <<mem, req>> /\ n \in todo
          /\ \A r \in Requests : req[r].pc = "idle"
      BY <1>1 DEF Reconcile, storeVars, IInv, StartUpFirst
    <2>2. \A m \in Names : Wanted(mem', m) <=> Wanted(mem, m)
      BY <2>1 DEF Wanted, Known
    <2>3. AtRest(n)'
      <3>1. Wanted(mem, n) /\ Told(n)
        BY <2>1 DEF ServeInv
      <3>2. PICK rec \in InstanceRecs : rec = mem.inst[n]
        BY <3>1 DEF Wanted, Known, IInv, FilesInv, Data
      <3>3. Fits(n, rec)'
        BY <2>1, <3>1, ToldFits, StartKeeps DEF Fits
      <3> QED BY <2>1, <2>2, <3>1, <3>2, <3>3 DEF AtRest, Fits
    <2>4. ASSUME NEW m \in Names, Settled(m)' PROVE AtRest(m)'
      <3>1. CASE m = n
        BY <2>3, <3>1
      <3>2. CASE m # n
        <4>1. Settled(m) /\ Keeps(m)
          BY <2>1, <2>4, <3>2, StartKeeps DEF Settled, Busy
        <4> QED BY <2>1, <4>1, AtRestKept DEF ServeInv
      <3> QED BY <3>1, <3>2
    <2>5. \A m \in todo' : Wanted(mem', m) /\ Told(m)'
      BY <2>1, <2>2, StartKeeps DEF Keeps, ServeInv, IInv, FilesInv
    <2>6. \A r \in Requests : Serves(req[r])'
      BY <2>1 DEF Serves
    <2> QED BY <2>4, <2>5, <2>6 DEF ServeInv
  <1>2. ASSUME Restart PROVE ServeInv'
    <2>1. \A n \in Names : Live(n)' = {}
      BY <1>2 DEF Restart, S!Restart, Live
    <2>2. \A n \in Names : Told(n)' /\ AtRest(n)'
      BY <2>1 DEF Told, AtRest, Fits, Serving
    <2>3. \A r \in Requests : req'[r].pc = "idle"
      BY <1>2 DEF Restart, Idle
    <2>4. \A n \in todo' : n \in Names /\ Wanted(mem', n)
      BY <1>2 DEF Restart
    <2> QED BY <2>2, <2>3, <2>4 DEF ServeInv, Serves
  <1>3. ASSUME UNCHANGED vars PROVE ServeInv'
    <2>1. \A n : Settled(n)' = Settled(n) /\ Told(n)' = Told(n)
      BY <1>3 DEF vars, supVars, Settled, Busy, Told, Live
    <2>2. \A n, rec : Fits(n, rec)' = Fits(n, rec) /\ ListenFits(n, rec)' = ListenFits(n, rec)
      BY <1>3 DEF vars, supVars, Fits, ListenFits, Serving, Live
    <2>3. mem' = mem /\ req' = req /\ todo' = todo
      BY <1>3 DEF vars, storeVars
    <2>4. \A n : AtRest(n)' = AtRest(n)
      BY <2>1, <2>2, <2>3 DEF AtRest, Wanted, Known
    <2>5. \A q : Found(q)' = Found(q)
      BY <2>3 DEF Found
    <2>6. \A q : Serves(q)' = Serves(q)
      BY <2>1, <2>2, <2>3, <2>4, <2>5 DEF Serves, Wanted, Known
    <2> QED BY <2>1, <2>3, <2>4, <2>6 DEF ServeInv, Wanted, Known
  <1> QED BY <1>1, <1>2, <1>3, ArriveServes, StepServes, ProcessServes DEF Next

LEMMA SpecServes ==
    ASSUME Discipline = "instance", MayFail = FALSE
    PROVE  Spec => [](IInv /\ TurnsInv /\ ServeInv)
  <1>1. Init => TurnsInv /\ ServeInv
    BY DEF Init, S!Init, Idle, TurnsInv, OneAtATime, WorkDone, Made, ConfFollowsStore, Wanted,
           Known, Empty, ServeInv, Serves, AtRest, Told, Live
  <1>2. IInv /\ TurnsInv /\ ServeInv /\ [Next]_vars => (TurnsInv /\ ServeInv)'
    BY NextTurns, NextServes
  <1> QED BY <1>1, <1>2, SpecIInv, PTL DEF Spec

(* When callers take turns at an instance and no write fails, no ocserv that was *)
(* not told to stop is left of an instance that is disabled or deleted, however   *)
(* ocservs die and whenever the daemon crashes.                                   *)
THEOREM UnwantedAreTold ==
    ASSUME Discipline = "instance", MayFail = FALSE
    PROVE  Spec => []UnwantedTold
  <1>1. ServeInv => UnwantedTold
    BY DEF ServeInv, UnwantedTold, AtRest, Told
  <1> QED BY <1>1, SpecServes, PTL

(* Under the same conditions an ocserv with no signal to take serves what the   *)
(* record of its settled, enabled instance says, listeners and all.             *)
THEOREM AllServeTheRecord ==
    ASSUME Discipline = "instance", MayFail = FALSE
    PROVE  Spec => []ServesTheRecord
  <1>1. ServeInv => ServesTheRecord
    BY DEF ServeInv, ServesTheRecord, AtRest, Fits, Serving
  <1> QED BY <1>1, SpecServes, PTL

--------------------------------------------------------------------------------
(* The handlers as users of the record store: whatever a step writes is what one *)
(* mutation makes of the records, and a restart continues from the disk.         *)

LEMMA SameMutations == \A d : DB!Mutated(d) = Mutated(d)
  <1>1. ASSUME NEW d PROVE DB!Mutated(d) = Mutated(d)
    BY DEF DB!Mutated, Mutated, DB!WithInstance, WithInstance, DB!WithoutInstance,
           WithoutInstance, DB!WithClient, WithClient, DB!WithoutClient, WithoutClient,
           DB!Known, Known
  <1> QED BY <1>1

LEMMA CommitIsMutate ==
    ASSUME NEW d \in Mutated(mem), NEW ok \in BOOLEAN, DB!Commit(d, ok)
    PROVE  DB!Next
  <1>1. DB!Mutate
    BY SameMutations DEF DB!Mutate
  <1> QED BY <1>1 DEF DB!Next

LEMMA NextIsStoreNext == ASSUME IInv, [Next]_vars PROVE [DB!Next]_(DB!vars)
  <1> USE DEF DB!vars, DB!Empty
  <1>1. mem \in Data
    BY DEF IInv, FilesInv
  <1>2. ASSUME UNCHANGED storeVars PROVE UNCHANGED DB!vars
    BY <1>2 DEF storeVars
  <1>3. ASSUME NEW r \in Requests, Arrive(r) PROVE UNCHANGED DB!vars
    BY <1>2, <1>3 DEF Arrive, CreateInstance, PatchInstance, DeleteInstance
  <1>4. ASSUME NEW r \in Requests, NEW ok \in BOOLEAN, Put(r, ok) PROVE DB!Next
    <2>1. LocalsOK(req[r]) /\ req[r].pc = "put"
      BY <1>4 DEF Put, IInv, RequestsInv
    <2>2. WithInstance(mem, req[r].n, req[r].rec) \in Mutated(mem)
      BY <1>1, <2>1, MutatedHas DEF LocalsOK
    <2> QED BY <1>4, <2>2, CommitIsMutate DEF Put
  <1>5. ASSUME NEW r \in Requests, NEW ok \in BOOLEAN, Drop(r, ok) PROVE DB!Next
    <2>1. LocalsOK(req[r]) /\ req[r].pc = "drop"
      BY <1>5 DEF Drop, IInv, RequestsInv
    <2>2. WithoutInstance(mem, req[r].n) \in Mutated(mem)
      BY <1>1, <2>1, MutatedHas DEF LocalsOK
    <2> QED BY <1>5, <2>2, CommitIsMutate DEF Drop
  <1>6. ASSUME NEW r \in Requests, Step(r) PROVE [DB!Next]_(DB!vars)
    <2>1. CASE \E ok \in Outcomes : Put(r, ok) \/ Drop(r, ok)
      BY <1>4, <1>5, <2>1 DEF Outcomes
    <2>2. CASE ~\E ok \in Outcomes : Put(r, ok) \/ Drop(r, ok)
      BY <1>2, <1>6, <2>2
         DEF Step, Truncate, Refused, Write, Stop, Spawn, Reload, Remove, Fails
    <2> QED BY <2>1, <2>2
  <1>7. ASSUME NEW n \in Names, Reconcile(n) PROVE UNCHANGED DB!vars
    BY <1>2, <1>7 DEF Reconcile
  <1>8. ASSUME NEW p \in Pids, Ocserv(p) \/ Dies(p) PROVE UNCHANGED DB!vars
    BY <1>2, <1>8
       DEF Ocserv, Boots, FailsToBoot, Rereads, ObeysTerm, Reaped, Dies, Untouched
  <1>9. ASSUME Restart PROVE DB!Next
    BY <1>9 DEF Restart, DB!Next, DB!Restart
  <1>10. ASSUME UNCHANGED vars PROVE UNCHANGED DB!vars
    BY <1>2, <1>10 DEF vars
  <1> QED BY <1>3, <1>6, <1>7, <1>8, <1>9, <1>10 DEF Next

(* No instance handler, failed flush or crash uses the record store in another   *)
(* way than AtomicStore.tla promises to serve.                                   *)
THEOREM InstancesUseStoreAsPromised == Spec => DB!Spec
  <1>1. Init => DB!Init
    BY DEF Init, DB!Init, DB!Empty, Empty
  <1> QED BY <1>1, NextIsStoreNext, SpecIInv, PTL DEF Spec, DB!Spec

--------------------------------------------------------------------------------
(* Every handler comes to an end, as far as that is not a matter of fairness. *)

StepsLeft(pc) ==
    CASE pc = "render" -> 10 [] pc = "write" -> 9 [] pc = "put" -> 8 [] pc = "stop" -> 7
      [] pc = "rerender" -> 6 [] pc = "rewrite" -> 5 [] pc = "spawn" -> 4 [] pc = "reload" -> 3
      [] pc = "remove" -> 2 [] pc = "drop" -> 1 [] OTHER -> 0

(* The handler in state p may go on in state q: it returns, or it is the same    *)
(* call, with the record it was given, and has less to do.                       *)
GoesOn(p, q) ==
    \/ q.pc = "idle"
    \/ q.op = p.op /\ q.n = p.n /\ q.rec = p.rec /\ StepsLeft(q.pc) < StepsLeft(p.pc)

(* A step that moves a handler takes its call on, or ends it. *)
HandlersGoOn ==
    [][\A r \in Requests :
          req[r].pc # "idle" /\ req'[r] # req[r] => GoesOn(req[r], req'[r])]_vars

LEMMA Advances ==
    ASSUME RequestsInv, NEW r \in Requests, NEW pc, Goto(r, pc) \/ Leave(r, pc),
           StepsLeft(pc) < StepsLeft(req[r].pc)
    PROVE  GoesOn(req[r], req'[r])
  <1>1. CASE Return(r)
    BY <1>1, IdleOK DEF RequestsInv, Return, Idle, GoesOn
  <1>2. CASE Goto(r, pc)
    <2>1. /\ req'[r].pc = pc /\ req'[r].op = req[r].op /\ req'[r].n = req[r].n
          /\ req'[r].rec = req[r].rec
      BY <1>2 DEF RequestsInv, RequestState, Goto
    <2> QED BY <2>1 DEF GoesOn
  <1> QED BY <1>1, <1>2 DEF Leave

LEMMA Returns ==
    ASSUME RequestsInv, NEW r \in Requests, Return(r) PROVE GoesOn(req[r], req'[r])
  BY DEF RequestsInv, Return, Idle, GoesOn

LEMMA StepGoesOn == ASSUME IInv, NEW r \in Requests, Step(r) PROVE GoesOn(req[r], req'[r])
  <1>1. RequestsInv /\ req[r] \in RequestState
    BY DEF IInv, RequestsInv
  <1>2. CASE \/ Truncate(r) \/ Refused(r) \/ Write(r) \/ Remove(r) \/ Reload(r) \/ Fails(r)
    <2>1. CASE Truncate(r)
      BY <1>1, <2>1, Advances DEF Truncate, StepsLeft
    <2>2. CASE Refused(r) \/ Reload(r)
      BY <1>1, <2>2, Returns DEF Refused, Reload
    <2>3. CASE Write(r)
      BY <1>1, <2>3, Advances DEF Write, StepsLeft
    <2>4. CASE Remove(r)
      BY <1>1, <2>4, Advances DEF Remove, StepsLeft
    <2>5. CASE Fails(r)
      BY <1>1, <2>5, Advances, Returns DEF Fails, StepsLeft
    <2> QED BY <1>2, <2>1, <2>2, <2>3, <2>4, <2>5
  <1>3. CASE Stop(r) \/ Spawn(r)
    <2>1. StepsLeft(AfterStop(req[r])) < 7 /\ StepsLeft(AfterSpawn(req[r])) < 4
      BY DEF AfterStop, AfterSpawn, StepsLeft
    <2> QED BY <1>1, <1>3, <2>1, Advances DEF Stop, Spawn, StepsLeft
  <1>4. CASE \E ok \in Outcomes : Put(r, ok) \/ Drop(r, ok)
    <2>1. StepsLeft(AfterPut(req[r])) < 8
      BY DEF AfterPut, StepsLeft
    <2> QED BY <1>1, <1>4, <2>1, Advances, Returns DEF Put, Drop, StepsLeft
  <1> QED BY <1>2, <1>3, <1>4 DEF Step

(* Only its own steps move a handler, and a crash that ends them all. *)
LEMMA StepIsOwn ==
    ASSUME RequestsInv, NEW r \in Requests, Arrive(r) \/ Step(r), NEW q \in Requests, q # r
    PROVE  req'[q] = req[q]
  <1>1. req \in [Requests -> RequestState]
    BY DEF RequestsInv
  <1>2. CASE Step(r)
    BY <1>1, <1>2
       DEF Step, Truncate, Refused, Write, Put, Stop, Spawn, Reload, Remove, Drop, Fails,
           Goto, Leave, Return
  <1>3. CASE Arrive(r)
    <2>1. ASSUME NEW n \in Names
          PROVE  /\ \A rec \in InstanceRecs : CreateInstance(r, n, rec) => req'[q] = req[q]
                 /\ \A body \in Bodies : PatchInstance(r, n, body) => req'[q] = req[q]
                 /\ DeleteInstance(r, n) => req'[q] = req[q]
      BY <1>1 DEF CreateInstance, PatchInstance, DeleteInstance
    <2> QED BY <1>3, <2>1 DEF Arrive
  <1> QED BY <1>2, <1>3

(* However instance handlers interleave and fail, and whatever the ocservs do    *)
(* meanwhile, a step that does not return leaves the call that it was with       *)
(* strictly less to do: no handler loops, and none waits for a process.          *)
THEOREM HandlersAlwaysGoOn == Spec => HandlersGoOn
  <1>1. ASSUME IInv, Next, NEW q \in Requests, req[q].pc # "idle", req'[q] # req[q]
        PROVE  GoesOn(req[q], req'[q])
    <2>1. ASSUME NEW r \in Requests, Arrive(r) \/ Step(r) PROVE GoesOn(req[q], req'[q])
      <3>1. q = r
        BY <1>1, <2>1, StepIsOwn DEF IInv
      <3>2. ~Arrive(r)
        BY <1>1, <3>1 DEF Arrive, CreateInstance, PatchInstance, DeleteInstance, Admitted
      <3> QED BY <1>1, <2>1, <3>1, <3>2, StepGoesOn
    <2>2. ASSUME NEW n \in Names, Reconcile(n) PROVE FALSE
      BY <1>1, <2>2 DEF Reconcile
    <2>3. ASSUME NEW p \in Pids, Ocserv(p) \/ Dies(p) PROVE FALSE
      BY <1>1, <2>3
         DEF Ocserv, Boots, FailsToBoot, Rereads, ObeysTerm, Reaped, Dies, Untouched
    <2>4. CASE Restart
      BY <2>4 DEF Restart, Idle, GoesOn
    <2> QED BY <1>1, <2>1, <2>2, <2>3, <2>4 DEF Next
  <1>2. IInv /\ [Next]_vars
           => [\A r \in Requests :
                  req[r].pc # "idle" /\ req'[r] # req[r] => GoesOn(req[r], req'[r])]_vars
    BY <1>1
  <1> QED BY <1>2, SpecIInv, PTL DEF Spec, HandlersGoOn

--------------------------------------------------------------------------------
(* One ocserv at a time, and none that nobody asked for *)

(* No two ocservs of an instance exist that were not told to stop, whatever      *)
(* their state: the start of one excludes the other until it is reaped.          *)
OneUntold ==
    \A p, q \in DOMAIN proc :
        proc[p].inst = proc[q].inst /\ ~proc[p].term /\ ~proc[q].term => p = q

(* Also when two handlers of one instance, a restart and a start say, overlap. *)
THEOREM NeverTwoUntold == Spec => []OneUntold
  <1>1. NoStray => OneUntold
    BY DEF NoStray, S!NoStray, OneUntold
  <1> QED BY <1>1, NoOcservStrays, PTL

(* Where no handler is at work and the start-up has nothing left to do, no ocserv *)
(* appears, none that ended comes back, and none that was told is untold.         *)
SettledOnlyEnds ==
    [][\A n \in Names :
          Settled(n) => /\ Live(n)' \subseteq Live(n)
                        /\ \A p \in Live(n)' : proc[p].term => proc'[p].term]_vars

Ends(n) == /\ Live(n)' \subseteq Live(n)
           /\ \A p \in Live(n)' : proc[p].term => proc'[p].term

LEMMA SameEnds == ASSUME UNCHANGED proc, NEW n \in Names PROVE Ends(n)
  BY DEF Ends, Live

LEMMA StartEnds ==
    ASSUME NEW n \in Names, NEW m \in Names, m # n, S!Start(m)
    PROVE  Ends(n)
  <1>1. CASE UNCHANGED S!vars
    BY <1>1, SameEnds DEF S!vars
  <1>2. ASSUME NEW p \in S!Fresh,
               proc' = [q \in DOMAIN proc \cup {p} |-> IF q = p THEN S!Newborn(m) ELSE proc[q]]
        PROVE  Ends(n)
    BY <1>2 DEF Ends, Live, S!Fresh, S!Newborn
  <1> QED BY <1>1, <1>2 DEF S!Start

LEMMA SignalEnds ==
    ASSUME IInv, NEW n \in Names, NEW m \in Names, S!Stop(m) \/ S!Reload(m)
    PROVE  Ends(n)
  <1>1. proc \in [DOMAIN proc -> S!Process]
    BY Processes
  <1>2. CASE UNCHANGED proc
    BY <1>2, SameEnds
  <1>3. ASSUME NEW p \in DOMAIN proc,
               \/ proc' = [proc EXCEPT ![p].term = TRUE]
               \/ proc' = [proc EXCEPT ![p].hup = TRUE]
        PROVE  Ends(n)
    BY <1>1, <1>3 DEF Ends, Live, S!Process
  <1> QED BY <1>2, <1>3 DEF S!Stop, S!Reload, S!Alive, S!vars

LEMMA ProcessEnds ==
    ASSUME IInv, NEW n \in Names, NEW p \in Pids, Ocserv(p) \/ Dies(p)
    PROVE  Ends(n)
  <1>1. proc \in [DOMAIN proc -> S!Process]
    BY Processes
  <1>2. ASSUME S!Exit(p) PROVE Ends(n)
    BY <1>1, <1>2 DEF S!Exit, S!In, Ends, Live, S!Process
  <1>3. ASSUME NEW cfg, S!Boot(p, cfg) \/ S!TakeHup(p, cfg) PROVE Ends(n)
    BY <1>1, <1>3 DEF S!Boot, S!TakeHup, S!In, Ends, Live, S!Process
  <1>4. ASSUME S!Reap(p) PROVE Ends(n)
    BY <1>1, <1>4 DEF S!Reap, S!In, Ends, Live, S!Process
  <1> QED BY <1>2, <1>3, <1>4
          DEF Ocserv, Boots, FailsToBoot, Rereads, ObeysTerm, Reaped, Dies

(* With UnwantedTold: the ocservs of an instance that is disabled or deleted, and *)
(* left so, are told and only become fewer; that they all go is left to ocserv.   *)
THEOREM SettledOnlyEverEnds == Spec => SettledOnlyEnds
  <1>1. ASSUME IInv, Next, NEW n \in Names, Settled(n) PROVE Ends(n)
    <2>1. ASSUME NEW r \in Requests, Arrive(r) PROVE Ends(n)
      BY <2>1, SameEnds DEF Arrive, CreateInstance, PatchInstance, DeleteInstance, supVars
    <2>2. ASSUME NEW r \in Requests, Step(r) PROVE Ends(n)
      <3>1. CASE Stop(r) \/ Spawn(r) \/ Reload(r)
        <4>1. PICK m \in Names : m = req[r].n
          BY <1>1, <3>1 DEF Stop, Spawn, Reload, IInv, RequestsInv, LocalsOK
        <4>2. req[r].pc # "idle" /\ m # n
          BY <1>1, <3>1, <4>1 DEF Stop, Spawn, Reload, Settled, Busy
        <4> QED BY <1>1, <3>1, <4>1, <4>2, StartEnds, SignalEnds DEF Stop, Spawn, Reload
      <3>2. CASE ~(Stop(r) \/ Spawn(r) \/ Reload(r))
        <4>1. UNCHANGED proc
          BY <2>2, <3>2
             DEF Step, Truncate, Refused, Write, Put, Remove, Drop, Fails, supVars
        <4> QED BY <4>1, SameEnds
      <3> QED BY <3>1, <3>2
    <2>3. ASSUME NEW m \in Names, Reconcile(m) PROVE Ends(n)
      <3>1. m # n
        BY <1>1, <2>3 DEF Reconcile, Settled
      <3> QED BY <2>3, <3>1, StartEnds, SameEnds DEF Reconcile, supVars
    <2>4. CASE Restart
      BY <2>4 DEF Restart, S!Restart, Ends, Live
    <2> QED BY <1>1, <2>1, <2>2, <2>3, <2>4, ProcessEnds DEF Next
  <1>2. IInv /\ [Next]_vars
          => [\A n \in Names :
                Settled(n) => /\ Live(n)' \subseteq Live(n)
                              /\ \A p \in Live(n)' : proc[p].term => proc'[p].term]_vars
    BY <1>1 DEF Ends
  <1> QED BY <1>2, SpecIInv, PTL DEF Spec, SettledOnlyEnds
================================================================================
