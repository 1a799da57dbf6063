--------------------------------- MODULE Store ---------------------------------
(* internal/state/store.go: the mutex-guarded, file-backed record set. Handler *)
(* threads mutate the records in memory under the write lock and then rewrite  *)
(* the whole file through a temporary one and a rename. Any step of the flush  *)
(* may fail, and the process may die between any two steps.                    *)
EXTENDS Records

CONSTANTS
    Threads,        \* goroutines serving requests
    NoThread,       \* holder of a free lock
    NoFile,         \* the path does not exist
    Torn,           \* a file truncated and not completely written
    Unknown         \* nothing is promised about a key

ASSUME ThreadsAssumption == NoThread \notin Threads
ASSUME FilesAssumption ==
    NoFile # Torn /\ NoFile \notin Data /\ Torn \notin Data
ASSUME UnknownAssumption ==
    Unknown \notin InstanceRecs \cup ClientRecs \cup {Absent}

VARIABLES
    mem,            \* s.data
    disk,           \* the file at s.path
    tmp,            \* the file at s.path + ".tmp"
    lock,           \* the thread that holds s.mu for writing
    pc,             \* where each thread stands in its mutation
    raw,            \* what it marshalled
    ok,             \* whether it will report success
    seen,           \* the snapshot last handed to a reader
    base,           \* ghost: the records when the lock was taken
    promised        \* ghost: what callers may rely on, key by key

vars == <<mem, disk, tmp, lock, pc, raw, ok, seen, base, promised>>

Flushing == {"marshal", "truncate", "write", "rename"}

(* Not the code: the absent file of a first start is not recognised. *)
OpenStrictly(file) == file

(* Open: an absent file is an empty store. *)
Open(file) == IF file = NoFile THEN Empty ELSE file

(* The promises about the keys a mutation touches are void until it succeeds. *)
Forget(n)           == [promised EXCEPT !.inst[n] = Unknown]
ForgetAll(n)        == [promised EXCEPT !.inst[n] = Unknown,
                                        !.cli[n] = [cn \in CNs |-> Unknown]]
ForgetClient(n, cn) == [promised EXCEPT !.cli[n][cn] = Unknown]

Init ==
    /\ mem = Empty
    /\ disk = NoFile
    /\ tmp = NoFile
    /\ lock = NoThread
    /\ pc = [t \in Threads |-> "idle"]
    /\ raw = [t \in Threads |-> Empty]
    /\ ok = [t \in Threads |-> FALSE]
    /\ seen = Empty
    /\ base = Empty
    /\ promised = Empty

--------------------------------------------------------------------------------
(* Mutations: take the lock, change the records in memory, go on to the flush. *)

Lock(t) ==
    /\ pc[t] = "idle"
    /\ lock = NoThread
    /\ lock' = t
    /\ base' = mem
    /\ UNCHANGED <<disk, tmp, raw, seen>>

MutateTo(t, d, p) ==
    /\ Lock(t)
    /\ mem' = d
    /\ promised' = p
    /\ pc' = [pc EXCEPT ![t] = "marshal"]
    /\ ok' = [ok EXCEPT ![t] = TRUE]

PutInstance(t, n, rec) == MutateTo(t, WithInstance(mem, n, rec), Forget(n))

DeleteInstance(t, n) == MutateTo(t, WithoutInstance(mem, n), ForgetAll(n))

(* Not the code: PutClient without its check. *)
PutClientUnchecked(t, n, cn, rec) ==
    MutateTo(t, WithClient(mem, n, cn, rec), ForgetClient(n, cn))

PutClient(t, n, cn, rec) ==
    /\ Known(mem, n)
    /\ MutateTo(t, WithClient(mem, n, cn, rec), ForgetClient(n, cn))

(* "unknown instance": the early return, with nothing changed. *)
PutClientRefused(t, n) ==
    /\ ~Known(mem, n)
    /\ Lock(t)
    /\ pc' = [pc EXCEPT ![t] = "return"]
    /\ ok' = [ok EXCEPT ![t] = FALSE]
    /\ UNCHANGED <<mem, promised>>

DeleteClient(t, n, cn) ==
    MutateTo(t, WithoutClient(mem, n, cn), ForgetClient(n, cn))

(* Not the code: a reader that does not take the read lock. *)
ReadUnlocked ==
    /\ seen' = mem
    /\ UNCHANGED <<mem, disk, tmp, lock, pc, raw, ok, base, promised>>

(* GetInstance, ListInstances, GetClient, ListClients and CountClients: the *)
(* read lock is granted only while no thread holds the write lock.          *)
Read ==
    /\ lock = NoThread
    /\ seen' = mem
    /\ UNCHANGED <<mem, disk, tmp, lock, pc, raw, ok, base, promised>>

--------------------------------------------------------------------------------
(* flushLocked *)

At(t, from, to) == pc[t] = from /\ pc' = [pc EXCEPT ![t] = to]

Marshal(t) ==
    /\ At(t, "marshal", "truncate")
    /\ raw' = [raw EXCEPT ![t] = mem]
    /\ UNCHANGED <<mem, disk, tmp, lock, ok, seen, base, promised>>

(* Not the code: os.WriteFile on the store file itself. *)
TruncateInPlace(t) ==
    /\ At(t, "truncate", "write")
    /\ disk' = Torn
    /\ UNCHANGED <<mem, tmp, lock, raw, ok, seen, base, promised>>

(* os.WriteFile opens the temporary file with O_TRUNC, then writes it. *)
Truncate(t) ==
    /\ At(t, "truncate", "write")
    /\ tmp' = Torn
    /\ UNCHANGED <<mem, disk, lock, raw, ok, seen, base, promised>>

Write(t) ==
    /\ At(t, "write", "rename")
    /\ tmp' = raw[t]
    /\ UNCHANGED <<mem, disk, lock, raw, ok, seen, base, promised>>

Rename(t) ==
    /\ At(t, "rename", "return")
    /\ disk' = tmp
    /\ tmp' = NoFile
    /\ UNCHANGED <<mem, lock, raw, ok, seen, base, promised>>

(* Not the code: the error of the flush is dropped. *)
FlushFailsUnreported(t) ==
    /\ pc[t] \in Flushing
    /\ pc' = [pc EXCEPT ![t] = "return"]
    /\ UNCHANGED <<mem, disk, tmp, lock, raw, ok, seen, base, promised>>

(* mkdir, marshal, write or rename returns an error; what was already done *)
(* to memory and to the temporary file stays.                              *)
FlushFails(t) ==
    /\ pc[t] \in Flushing
    /\ pc' = [pc EXCEPT ![t] = "return"]
    /\ ok' = [ok EXCEPT ![t] = FALSE]
    /\ UNCHANGED <<mem, disk, tmp, lock, raw, seen, base, promised>>

(* Locals end with the call, and with the process. *)
DropLocals ==
    /\ raw' = [t \in Threads |-> Empty]
    /\ ok' = [t \in Threads |-> FALSE]
    /\ base' = Empty

(* Not the code: an error path that returns without unlocking. *)
ReturnLocked(t) ==
    /\ At(t, "return", "idle")
    /\ lock' = IF ok[t] THEN NoThread ELSE lock
    /\ promised' = IF ok[t] THEN mem ELSE promised
    /\ DropLocals
    /\ UNCHANGED <<mem, disk, tmp, seen>>

(* The deferred unlock. A success covers every record, since the whole file *)
(* was written.                                                             *)
Return(t) ==
    /\ At(t, "return", "idle")
    /\ lock' = NoThread
    /\ promised' = IF ok[t] THEN mem ELSE promised
    /\ DropLocals
    /\ UNCHANGED <<mem, disk, tmp, seen>>

(* The process dies and a new one opens the file it finds. A file that does *)
(* not parse keeps the daemon from starting.                                *)
Restart ==
    /\ disk # Torn
    /\ mem' = Open(disk)
    /\ lock' = NoThread
    /\ pc' = [t \in Threads |-> "idle"]
    /\ DropLocals
    /\ UNCHANGED <<disk, tmp, seen, promised>>

Mutation(t) ==
    \E n \in Names :
        \/ \E rec \in InstanceRecs : PutInstance(t, n, rec)
        \/ DeleteInstance(t, n)
        \/ \E cn \in CNs, rec \in ClientRecs : PutClient(t, n, cn, rec)
        \/ PutClientRefused(t, n)
        \/ \E cn \in CNs : DeleteClient(t, n, cn)

FlushStep(t) ==
    Marshal(t) \/ Truncate(t) \/ Write(t) \/ Rename(t) \/ FlushFails(t) \/ Return(t)

Next ==
    \/ \E t \in Threads : Mutation(t) \/ FlushStep(t)
    \/ Read
    \/ Restart

(* A goroutine that has entered flushLocked is scheduled until it returns. *)
Fairness == \A t \in Threads : WF_vars(FlushStep(t))

Spec == Init /\ [][Next]_vars
FairSpec == Spec /\ Fairness

--------------------------------------------------------------------------------
(* Type correctness of the store's memory, files, lock and ghosts. *)
TypeOK ==
    /\ mem \in Data
    /\ disk \in Data \cup {NoFile, Torn}
    /\ tmp \in Data \cup {NoFile, Torn}
    /\ lock \in Threads \cup {NoThread}
    /\ pc \in [Threads -> {"idle", "return"} \cup Flushing]
    /\ raw \in [Threads -> Data]
    /\ ok \in [Threads -> BOOLEAN]
    /\ seen \in Data
    /\ base \in Data
    /\ promised \in
         [ inst : [Names -> InstanceRecs \cup {Absent, Unknown}],
           cli  : [Names -> [CNs -> ClientRecs \cup {Absent, Unknown}]] ]

(* The file a restart opens is never half written, wherever the flush of any *)
(* thread failed or the process died (flushLocked: temp file + rename).      *)
DiskWhole == disk # Torn

(* d says of every key what p promises of it. *)
Keeps(d, p) ==
    \A n \in Names :
        /\ p.inst[n] # Unknown => d.inst[n] = p.inst[n]
        /\ \A cn \in CNs : p.cli[n][cn] # Unknown => d.cli[n][cn] = p.cli[n][cn]

(* What a mutation acknowledged stays on disk until another mutation touches *)
(* the same key, across failed flushes of other keys, crashes and restarts.  *)
AcknowledgedSurvives == disk # Torn => Keeps(Open(disk), promised)

(* Neither memory nor the disk ever records a client without its instance, at *)
(* any point of any interleaving of instance and client mutations.           *)
ClientsHaveInstance == Rooted(mem) /\ (disk # Torn => Rooted(Open(disk)))

(* A mutation that has taken the lock returns and gives it back, so no other *)
(* thread waits for ever.                                                    *)
LockReleased == \A t \in Threads : lock = t ~> lock # t

(* The records as the abstract store sees them: a mutation takes effect when *)
(* its file is renamed into place or its flush gives up.                     *)
Visible == IF lock # NoThread /\ pc[lock] \in Flushing THEN base ELSE mem

A == INSTANCE AtomicStore WITH mem <- Visible, disk <- Open(disk)

(* Every behaviour of the store, readers, failures and crashes included, is a *)
(* behaviour of AtomicStore: mutations are indivisible and no reader sees one *)
(* that is still being flushed.                                               *)
AtomicStoreSpec == A!Spec
================================================================================
