------------------------------ MODULE StoreProofs ------------------------------
(* Theorems about Store.tla, for any number of threads, instances, clients and  *)
(* records. The argument: the write lock excludes every other mutation, so      *)
(* from the moment a thread takes it until it gives it back, memory is the      *)
(* thread's own; what it marshals, writes and renames is therefore that memory. *)
EXTENDS Store, RecordLemmas

(* The lock is held exactly by the thread that is inside a mutation. *)
LockInv == \A t \in Threads : (pc[t] # "idle") <=> (lock = t)

(* How far the holder's flush has copied memory towards the disk. *)
FlushInv ==
    \A t \in Threads :
        /\ pc[t] \in Flushing => mem \in Mutated(base)
        /\ pc[t] \in {"truncate", "write", "rename"} => raw[t] = mem
        /\ pc[t] = "rename" => tmp = mem
        /\ (pc[t] = "return" /\ ok[t]) => Open(disk) = mem

(* Memory, like the disk, says what is promised; a crash falls back on it. *)
PromiseInv == Keeps(mem, promised) /\ Keeps(Open(disk), promised)

IInv ==
    /\ TypeOK
    /\ DiskWhole
    /\ LockInv
    /\ FlushInv
    /\ PromiseInv
    /\ Rooted(mem) /\ Rooted(Open(disk))

--------------------------------------------------------------------------------
LEMMA OpenTyped ==
    ASSUME disk \in Data \cup {NoFile, Torn}, DiskWhole
    PROVE  Open(disk) \in Data
  BY EmptyTyped DEF DiskWhole, Open

LEMMA OpenData == ASSUME NEW d \in Data PROVE Open(d) = d
  BY FilesAssumption DEF Open

(* Voiding the promises about the key a mutation changes is enough for the  *)
(* result, and for the disk it has not reached yet, to keep the others.     *)
LEMMA ForgetKeeps ==
    ASSUME TypeOK, NEW d \in Data, Keeps(d, promised), NEW n \in Names
    PROVE  /\ \A rec \in InstanceRecs :
                 Keeps(WithInstance(d, n, rec), Forget(n)) /\ Keeps(d, Forget(n))
           /\ Keeps(WithoutInstance(d, n), ForgetAll(n)) /\ Keeps(d, ForgetAll(n))
           /\ \A cn \in CNs :
                 /\ Keeps(d, ForgetClient(n, cn))
                 /\ Keeps(WithoutClient(d, n, cn), ForgetClient(n, cn))
                 /\ \A rec \in ClientRecs :
                       Keeps(WithClient(d, n, cn, rec), ForgetClient(n, cn))
  <1>1. ASSUME NEW rec \in InstanceRecs
        PROVE  Keeps(WithInstance(d, n, rec), Forget(n)) /\ Keeps(d, Forget(n))
    BY <1>1 DEF Keeps, TypeOK, Data, WithInstance, Forget
  <1>2. Keeps(WithoutInstance(d, n), ForgetAll(n)) /\ Keeps(d, ForgetAll(n))
    BY DEF Keeps, TypeOK, Data, WithoutInstance, ForgetAll
  <1>3. ASSUME NEW cn \in CNs
        PROVE  /\ Keeps(d, ForgetClient(n, cn))
               /\ Keeps(WithoutClient(d, n, cn), ForgetClient(n, cn))
               /\ \A rec \in ClientRecs :
                     Keeps(WithClient(d, n, cn, rec), ForgetClient(n, cn))
    BY <1>3 DEF Keeps, TypeOK, Data, WithoutClient, WithClient, ForgetClient
  <1> QED BY <1>1, <1>2, <1>3

LEMMA ForgetTyped ==
    ASSUME TypeOK, NEW n \in Names
    PROVE  LET Promises == [ inst : [Names -> InstanceRecs \cup {Absent, Unknown}],
                             cli : [Names -> [CNs -> ClientRecs \cup {Absent, Unknown}]] ]
           IN  /\ Forget(n) \in Promises
               /\ ForgetAll(n) \in Promises
               /\ \A cn \in CNs : ForgetClient(n, cn) \in Promises
  BY DEF TypeOK, Forget, ForgetAll, ForgetClient

--------------------------------------------------------------------------------
LEMMA InitIInv == Init => IInv
  <1> SUFFICES ASSUME Init PROVE IInv
    OBVIOUS
  <1>1. TypeOK
    BY EmptyTyped DEF Init, TypeOK, Data
  <1>2. DiskWhole
    BY FilesAssumption DEF Init, DiskWhole
  <1>3. LockInv /\ FlushInv
    BY ThreadsAssumption DEF Init, LockInv, FlushInv, Flushing
  <1>4. PromiseInv
    BY DEF Init, PromiseInv, Keeps, Open
  <1>5. Rooted(mem) /\ Rooted(Open(disk))
    BY EmptyTyped DEF Init, Open
  <1> QED BY <1>1, <1>2, <1>3, <1>4, <1>5 DEF IInv

(* A mutation whose outcome d keeps the promises p, which the disk keeps too. *)
LEMMA MutateToIInv ==
    ASSUME IInv, NEW t \in Threads, NEW d \in Mutated(mem), d \in Data, Rooted(d),
           NEW p \in [ inst : [Names -> InstanceRecs \cup {Absent, Unknown}],
                       cli : [Names -> [CNs -> ClientRecs \cup {Absent, Unknown}]] ],
           Keeps(d, p), Keeps(Open(disk), p), MutateTo(t, d, p)
    PROVE  IInv'
  <1> USE DEF MutateTo, Lock
  <1>1. TypeOK'
    BY DEF IInv, TypeOK, Flushing
  <1>2. DiskWhole'
    BY DEF IInv, DiskWhole
  <1>3. LockInv'
    BY ThreadsAssumption DEF IInv, TypeOK, LockInv
  <1>4. FlushInv'
    BY ThreadsAssumption DEF IInv, TypeOK, LockInv, FlushInv, Flushing
  <1>5. (PromiseInv /\ Rooted(mem) /\ Rooted(Open(disk)))'
    BY DEF IInv, PromiseInv
  <1> QED BY <1>1, <1>2, <1>3, <1>4, <1>5 DEF IInv

LEMMA MutationIInv ==
    ASSUME IInv, NEW t \in Threads, Mutation(t)
    PROVE  IInv'
  <1> PICK n \in Names :
        \/ \E rec \in InstanceRecs : PutInstance(t, n, rec)
        \/ DeleteInstance(t, n)
        \/ \E cn \in CNs, rec \in ClientRecs : PutClient(t, n, cn, rec)
        \/ PutClientRefused(t, n)
        \/ \E cn \in CNs : DeleteClient(t, n, cn)
    BY DEF Mutation
  <1>0. /\ TypeOK /\ mem \in Data /\ Open(disk) \in Data
        /\ Rooted(mem) /\ Keeps(mem, promised) /\ Keeps(Open(disk), promised)
    BY OpenTyped DEF IInv, TypeOK, PromiseInv
  <1>1. ASSUME NEW rec \in InstanceRecs, PutInstance(t, n, rec)
        PROVE  IInv'
    BY <1>0, <1>1, MutateToIInv, InstanceMutationsTyped, MutatedHas, MutationsRooted,
       ForgetKeeps, ForgetTyped DEF PutInstance
  <1>2. CASE DeleteInstance(t, n)
    BY <1>0, <1>2, MutateToIInv, InstanceMutationsTyped, MutatedHas, MutationsRooted,
       ForgetKeeps, ForgetTyped DEF DeleteInstance
  <1>3. ASSUME NEW cn \in CNs, NEW rec \in ClientRecs, PutClient(t, n, cn, rec)
        PROVE  IInv'
    BY <1>0, <1>3, MutateToIInv, MutationsTyped, MutatedHas, MutationsRooted,
       ForgetKeeps, ForgetTyped DEF PutClient
  <1>4. CASE PutClientRefused(t, n)
    <2> USE <1>4 DEF PutClientRefused, Lock
    <2>1. TypeOK'
      BY DEF IInv, TypeOK, Flushing
    <2>2. LockInv' /\ DiskWhole'
      BY ThreadsAssumption DEF IInv, TypeOK, LockInv, DiskWhole
    <2>3. FlushInv'
      BY ThreadsAssumption DEF IInv, TypeOK, LockInv, FlushInv, Flushing
    <2>4. (PromiseInv /\ Rooted(mem) /\ Rooted(Open(disk)))'
      BY DEF IInv, PromiseInv
    <2> QED BY <2>1, <2>2, <2>3, <2>4 DEF IInv
  <1>5. ASSUME NEW cn \in CNs, DeleteClient(t, n, cn)
        PROVE  IInv'
    BY <1>0, <1>5, MutateToIInv, MutationsTyped, MutatedHas, MutationsRooted,
       ForgetKeeps, ForgetTyped DEF DeleteClient
  <1> QED BY <1>1, <1>2, <1>3, <1>4, <1>5

--------------------------------------------------------------------------------
LEMMA FlushIInv ==
    ASSUME IInv, NEW t \in Threads, FlushStep(t)
    PROVE  IInv'
  <1> USE DEF At
  <1>1. CASE Marshal(t)
    <2> USE <1>1 DEF Marshal
    <2>1. TypeOK'
      BY DEF IInv, TypeOK, Flushing
    <2>2. LockInv' /\ DiskWhole'
      BY DEF IInv, TypeOK, LockInv, DiskWhole
    <2>3. FlushInv'
      BY DEF IInv, TypeOK, LockInv, FlushInv, Flushing
    <2>4. (PromiseInv /\ Rooted(mem) /\ Rooted(Open(disk)))'
      BY DEF IInv, PromiseInv
    <2> QED BY <2>1, <2>2, <2>3, <2>4 DEF IInv
  <1>2. CASE Truncate(t)
    <2> USE <1>2 DEF Truncate
    <2>1. TypeOK'
      BY DEF IInv, TypeOK, Flushing
    <2>2. LockInv' /\ DiskWhole'
      BY DEF IInv, TypeOK, LockInv, DiskWhole
    <2>3. FlushInv'
      BY DEF IInv, TypeOK, LockInv, FlushInv, Flushing
    <2>4. (PromiseInv /\ Rooted(mem) /\ Rooted(Open(disk)))'
      BY DEF IInv, PromiseInv
    <2> QED BY <2>1, <2>2, <2>3, <2>4 DEF IInv
  <1>3. CASE Write(t)
    <2> USE <1>3 DEF Write
    <2>1. TypeOK'
      BY DEF IInv, TypeOK, Flushing
    <2>2. LockInv' /\ DiskWhole'
      BY DEF IInv, TypeOK, LockInv, DiskWhole
    <2>3. FlushInv'
      BY DEF IInv, TypeOK, LockInv, FlushInv, Flushing
    <2>4. (PromiseInv /\ Rooted(mem) /\ Rooted(Open(disk)))'
      BY DEF IInv, PromiseInv
    <2> QED BY <2>1, <2>2, <2>3, <2>4 DEF IInv
  <1>4. CASE Rename(t)
    <2> USE <1>4 DEF Rename
    <2>0. disk' = mem /\ mem \in Data /\ mem' = mem /\ Open(mem) = mem /\ Open(disk)' = mem
      BY OpenData DEF IInv, TypeOK, FlushInv, Open
    <2>1. TypeOK'
      BY <2>0 DEF IInv, TypeOK, Flushing
    <2>2. DiskWhole'
      BY <2>0, FilesAssumption DEF DiskWhole
    <2>3. LockInv'
      BY DEF IInv, TypeOK, LockInv
    <2>4. FlushInv'
      BY <2>0 DEF IInv, TypeOK, LockInv, FlushInv, Flushing
    <2>5. (PromiseInv /\ Rooted(mem) /\ Rooted(Open(disk)))'
      BY <2>0 DEF IInv, PromiseInv
    <2> QED BY <2>1, <2>2, <2>3, <2>4, <2>5 DEF IInv
  <1>5. CASE FlushFails(t)
    <2> USE <1>5 DEF FlushFails
    <2>1. TypeOK'
      BY DEF IInv, TypeOK, Flushing
    <2>2. LockInv' /\ DiskWhole'
      BY DEF IInv, TypeOK, LockInv, DiskWhole, Flushing
    <2>3. FlushInv'
      BY DEF IInv, TypeOK, LockInv, FlushInv, Flushing
    <2>4. (PromiseInv /\ Rooted(mem) /\ Rooted(Open(disk)))'
      BY DEF IInv, PromiseInv
    <2> QED BY <2>1, <2>2, <2>3, <2>4 DEF IInv
  <1>6. CASE Return(t)
    <2> USE <1>6 DEF Return, DropLocals
    <2>1. TypeOK'
      BY EmptyTyped DEF IInv, TypeOK, Data, Flushing
    <2>2. LockInv' /\ DiskWhole'
      BY ThreadsAssumption DEF IInv, TypeOK, LockInv, DiskWhole
    <2>3. FlushInv'
      BY <2>2 DEF IInv, TypeOK, LockInv, FlushInv, Flushing
    <2>4. PromiseInv'
      <3>1. CASE ok[t]
        BY <3>1 DEF IInv, PromiseInv, FlushInv, Keeps
      <3>2. CASE ~ok[t]
        BY <3>2 DEF IInv, PromiseInv
      <3> QED BY <3>1, <3>2
    <2>5. (Rooted(mem) /\ Rooted(Open(disk)))'
      BY DEF IInv
    <2> QED BY <2>1, <2>2, <2>3, <2>4, <2>5 DEF IInv
  <1> QED BY <1>1, <1>2, <1>3, <1>4, <1>5, <1>6 DEF FlushStep

LEMMA RestartIInv == ASSUME IInv, Restart PROVE IInv'
  <1> USE DEF Restart, DropLocals
  <1>1. TypeOK'
    BY EmptyTyped, OpenTyped DEF IInv, TypeOK, Data, Flushing
  <1>2. LockInv' /\ FlushInv' /\ DiskWhole'
    BY ThreadsAssumption DEF IInv, TypeOK, LockInv, FlushInv, DiskWhole, Flushing
  <1>3. (PromiseInv /\ Rooted(mem) /\ Rooted(Open(disk)))'
    BY DEF IInv, PromiseInv
  <1> QED BY <1>1, <1>2, <1>3 DEF IInv

LEMMA NextIInv == IInv /\ [Next]_vars => IInv'
  <1> SUFFICES ASSUME IInv, [Next]_vars PROVE IInv'
    OBVIOUS
  <1>1. ASSUME NEW t \in Threads, Mutation(t) PROVE IInv'
    BY <1>1, MutationIInv
  <1>2. ASSUME NEW t \in Threads, FlushStep(t) PROVE IInv'
    BY <1>2, FlushIInv
  <1>3. CASE Read
    BY <1>3 DEF Read, IInv, TypeOK, DiskWhole, LockInv, FlushInv, PromiseInv
  <1>4. CASE Restart
    BY <1>4, RestartIInv
  <1>5. CASE UNCHANGED vars
    BY <1>5 DEF vars, IInv, TypeOK, DiskWhole, LockInv, FlushInv, PromiseInv
  <1> QED BY <1>1, <1>2, <1>3, <1>4, <1>5 DEF Next

LEMMA SpecIInv == Spec => []IInv
  BY InitIInv, NextIInv, PTL DEF Spec

(* The store's variables keep their types: in particular the memory a reader *)
(* is handed is always a complete set of records.                            *)
THEOREM StoreTypeCorrect == Spec => []TypeOK
  BY SpecIInv, PTL DEF IInv

(* flushLocked never leaves a half-written state file behind, however many    *)
(* threads mutate and wherever a flush fails or the process dies: only the    *)
(* holder of the lock renames, and only after its whole temporary file.       *)
THEOREM DiskAlwaysWhole == Spec => []DiskWhole
  BY SpecIInv, PTL DEF IInv

(* An acknowledged Put or Delete is what a restart finds until another one     *)
(* touches the same key: by FlushInv the file renamed into place is memory,    *)
(* which keeps every promise the mutation itself has not voided.               *)
THEOREM AcknowledgedAlwaysSurvives == Spec => []AcknowledgedSurvives
  <1>1. IInv => AcknowledgedSurvives
    BY DEF IInv, PromiseInv, AcknowledgedSurvives
  <1> QED BY <1>1, SpecIInv, PTL

(* PutClient refuses an unknown instance and DeleteInstance takes the clients *)
(* with it, so neither memory nor disk has a client without its instance.     *)
THEOREM ClientsAlwaysHaveInstance == Spec => []ClientsHaveInstance
  <1>1. IInv => ClientsHaveInstance
    BY DEF IInv, ClientsHaveInstance
  <1> QED BY <1>1, SpecIInv, PTL

--------------------------------------------------------------------------------
(* The refinement. A flush that ends, either way, is the abstract mutation; a *)
(* crash before the rename loses it and one after it does not; everything     *)
(* else in a mutation is invisible.                                           *)

LEMMA SameRecords == A!Empty = Empty /\ (\A d : A!Mutated(d) = Mutated(d))
  <1>1. A!Empty = Empty
    BY DEF A!Empty, Empty
  <1>2. ASSUME NEW d PROVE A!Mutated(d) = Mutated(d)
    BY DEF A!Mutated, Mutated, A!Known, Known, A!WithInstance, WithInstance,
           A!WithoutInstance, WithoutInstance, A!WithClient, WithClient,
           A!WithoutClient, WithoutClient
  <1> QED BY <1>1, <1>2

LEMMA RefinementInit == Init => A!Init
  BY SameRecords, ThreadsAssumption DEF Init, A!Init, Visible, Open

(* Taking the lock and changing memory shows nothing: Visible is the base. *)
LEMMA MutationInvisible ==
    ASSUME IInv, NEW t \in Threads, Mutation(t)
    PROVE  UNCHANGED <<Visible, Open(disk), seen>>
  <1>1. lock = NoThread /\ lock' = t /\ base' = mem /\ UNCHANGED <<disk, seen>>
    BY DEF Mutation, PutInstance, DeleteInstance, PutClient, PutClientRefused,
           DeleteClient, MutateTo, Lock
  <1>2. \/ pc'[t] = "marshal"
        \/ pc'[t] = "return" /\ mem' = mem
    BY DEF IInv, TypeOK, Mutation, PutInstance, DeleteInstance, PutClient,
           PutClientRefused, DeleteClient, MutateTo, Lock
  <1>3. Visible = mem /\ Visible' = mem
    BY <1>1, <1>2, ThreadsAssumption DEF Visible, Flushing
  <1> QED BY <1>1, <1>3 DEF Open

LEMMA FlushRefines ==
    ASSUME IInv, NEW t \in Threads, FlushStep(t)
    PROVE  [A!Next]_(A!vars)
  <1>0. t # NoThread
    BY ThreadsAssumption
  <1>1. CASE Marshal(t) \/ Truncate(t) \/ Write(t)
    <2>1. lock = t /\ lock' = t /\ pc[t] \in Flushing /\ pc'[t] \in Flushing
      BY <1>1 DEF IInv, TypeOK, LockInv, Marshal, Truncate, Write, At, Flushing
    <2>2. UNCHANGED <<base, disk, seen>>
      BY <1>1 DEF Marshal, Truncate, Write
    <2> QED BY <1>0, <2>1, <2>2 DEF Visible, Open, A!vars
  <1>2. CASE Rename(t)
    <2>1. /\ lock = t /\ lock' = t /\ pc[t] = "rename" /\ pc'[t] = "return"
          /\ mem' = mem /\ mem \in Mutated(base) /\ seen' = seen
      BY <1>2 DEF IInv, TypeOK, LockInv, FlushInv, Rename, At, Flushing
    <2>2. Visible = base /\ Visible' = mem
      BY <1>0, <2>1 DEF Visible, Flushing
    <2>3. Open(disk)' = mem
      BY <1>2, OpenData DEF IInv, TypeOK, FlushInv, Rename, At, Open
    <2>4. A!Commit(mem, TRUE)
      BY <2>1, <2>2, <2>3 DEF A!Commit
    <2> QED BY <2>1, <2>2, <2>4, SameRecords DEF A!Next, A!Mutate
  <1>3. CASE FlushFails(t)
    <2>1. /\ lock = t /\ lock' = t /\ pc[t] \in Flushing /\ pc'[t] = "return"
          /\ mem' = mem /\ mem \in Mutated(base) /\ UNCHANGED <<seen, disk>>
      BY <1>3 DEF IInv, TypeOK, LockInv, FlushInv, FlushFails, Flushing
    <2>2. Visible = base /\ Visible' = mem
      BY <1>0, <2>1 DEF Visible, Flushing
    <2>3. A!Commit(mem, FALSE)
      BY <2>1, <2>2 DEF A!Commit, Open
    <2> QED BY <2>1, <2>2, <2>3, SameRecords DEF A!Next, A!Mutate
  <1>4. CASE Return(t)
    <2>1. lock = t /\ pc[t] = "return" /\ lock' = NoThread /\ UNCHANGED <<mem, disk, seen>>
      BY <1>4 DEF IInv, TypeOK, LockInv, Return, At
    <2> QED BY <2>1 DEF Visible, Open, Flushing, A!vars
  <1> QED BY <1>1, <1>2, <1>3, <1>4 DEF FlushStep

LEMMA RefinementNext == IInv /\ [Next]_vars => [A!Next]_(A!vars)
  <1> SUFFICES ASSUME IInv, [Next]_vars PROVE [A!Next]_(A!vars)
    OBVIOUS
  <1>1. ASSUME NEW t \in Threads, Mutation(t) PROVE [A!Next]_(A!vars)
    BY <1>1, MutationInvisible DEF A!vars
  <1>2. ASSUME NEW t \in Threads, FlushStep(t) PROVE [A!Next]_(A!vars)
    BY <1>2, FlushRefines
  <1>3. CASE Read
    BY <1>3 DEF Read, Visible, Open, A!Next, A!Read
  <1>4. CASE Restart
    BY <1>4 DEF Restart, Visible, Open, A!Next, A!Restart
  <1>5. CASE UNCHANGED vars
    BY <1>5 DEF vars, Visible, Open, A!vars
  <1> QED BY <1>1, <1>2, <1>3, <1>4, <1>5 DEF Next

(* Store.tla implements AtomicStore.tla: with the lock, the temporary file and *)
(* the rename, every mutation happens indivisibly in memory and on disk, or in *)
(* memory alone when its flush fails, and readers and restarts see no other    *)
(* records.                                                                    *)
THEOREM StoreImplementsAtomicStore == Spec => AtomicStoreSpec
  BY SpecIInv, RefinementInit, RefinementNext, PTL DEF Spec, AtomicStoreSpec, A!Spec

--------------------------------------------------------------------------------
(* Every mutation comes to an end, as far as that is not a matter of fairness. *)

(* What a mutation has still to do. *)
Ahead(p) ==
    CASE p = "marshal" -> {"marshal", "truncate", "write", "rename", "return"}
      [] p = "truncate" -> {"truncate", "write", "rename", "return"}
      [] p = "write" -> {"write", "rename", "return"}
      [] p = "rename" -> {"rename", "return"}
      [] p = "return" -> {"return"}
      [] OTHER -> {}

(* Whoever holds the lock keeps it and goes on in flushLocked, never back, or *)
(* gives it to nobody in particular at the end of its call.                   *)
FlushesGoOn ==
    [][\A t \in Threads :
          lock = t => \/ lock' = t /\ pc'[t] = pc[t]
                      \/ lock' = t /\ pc'[t] \in Ahead(pc[t]) \ {pc[t]}
                      \/ lock' = NoThread /\ pc'[t] = "idle"]_vars

(* No error path of flushLocked leaves the lock behind, no step takes it from *)
(* its holder, and none is done twice.                                        *)
THEOREM FlushesAlwaysGoOn == Spec => FlushesGoOn
  <1>1. ASSUME IInv, Next, NEW t \in Threads, lock = t
        PROVE  \/ lock' = t /\ pc'[t] = pc[t]
               \/ lock' = t /\ pc'[t] \in Ahead(pc[t]) \ {pc[t]}
               \/ lock' = NoThread /\ pc'[t] = "idle"
    <2>1. pc \in [Threads -> {"idle", "return"} \cup Flushing] /\ lock # NoThread
      BY <1>1, ThreadsAssumption DEF IInv, TypeOK
    <2>2. ASSUME NEW u \in Threads, Mutation(u) PROVE FALSE
      <3>1. Mutation(u) => lock = NoThread
        BY DEF Mutation, PutInstance, DeleteInstance, PutClient, PutClientRefused, DeleteClient,
               MutateTo, Lock
      <3> QED BY <2>1, <2>2, <3>1
    <2>3. ASSUME NEW u \in Threads, FlushStep(u) PROVE u = t
      <3>1. pc[u] # "idle"
        BY <2>3 DEF FlushStep, Marshal, Truncate, Write, Rename, FlushFails, Return, At, Flushing
      <3> QED BY <1>1, <3>1 DEF IInv, LockInv
    <2>4. CASE Marshal(t) \/ Truncate(t) \/ Write(t) \/ Rename(t)
      BY <1>1, <2>1, <2>4 DEF Marshal, Truncate, Write, Rename, At, Ahead
    <2>5. CASE FlushFails(t)
      BY <1>1, <2>1, <2>5 DEF FlushFails, Flushing, Ahead
    <2>6. CASE Return(t)
      BY <2>1, <2>6 DEF Return, At
    <2>7. CASE Restart
      BY <2>7 DEF Restart
    <2>8. CASE Read
      BY <1>1, <2>8 DEF Read
    <2> QED BY <1>1, <2>2, <2>3, <2>4, <2>5, <2>6, <2>7, <2>8 DEF Next, FlushStep
  <1>2. IInv /\ [Next]_vars =>
          [\A t \in Threads :
              lock = t => \/ lock' = t /\ pc'[t] = pc[t]
                          \/ lock' = t /\ pc'[t] \in Ahead(pc[t]) \ {pc[t]}
                          \/ lock' = NoThread /\ pc'[t] = "idle"]_vars
    BY <1>1
  <1> QED BY <1>2, SpecIInv, PTL DEF Spec, FlushesGoOn
================================================================================
