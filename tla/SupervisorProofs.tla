--------------------------- MODULE SupervisorProofs ----------------------------
(* Theorems about Supervisor.tla, for any number of instances and processes and *)
(* any sequence of calls.                                                       *)
EXTENDS Supervisor, TLAPS

(* A tracked handle that still names a process names one of its instance, and *)
(* one that was not told to stop.                                             *)
TrackedInv ==
    \A n \in DOMAIN procs :
        procs[n] \in DOMAIN proc => /\ proc[procs[n]].inst = n
                                    /\ ~proc[procs[n]].term

IInv == TypeOK /\ NoStray /\ TrackedInv

LEMMA StartIInv == ASSUME IInv, NEW n \in Names, Start(n) PROVE IInv'
  <1>1. CASE Alive(n)
    BY <1>1 DEF Start, vars, IInv, TypeOK, NoStray, TrackedInv
  <1>2. CASE ~Alive(n)
    <2> PICK p \in Fresh :
          /\ Track(n, p)
          /\ proc' = [q \in DOMAIN proc \cup {p} |-> IF q = p THEN Newborn(n) ELSE proc[q]]
      BY <1>2 DEF Start
    <2>1. /\ p \in Pids /\ p \notin DOMAIN proc /\ \A m \in DOMAIN procs : procs[m] # p
          /\ DOMAIN procs' = DOMAIN procs \cup {n} /\ procs'[n] = p
          /\ \A m \in DOMAIN procs : m # n => procs'[m] = procs[m]
          /\ DOMAIN proc' = DOMAIN proc \cup {p} /\ proc'[p] = Newborn(n)
          /\ \A q \in DOMAIN proc : proc'[q] = proc[q]
      BY DEF Fresh, Track
    <2>2. /\ Newborn(n) \in Process /\ Newborn(n).inst = n /\ ~Newborn(n).term
          /\ Newborn(n).state # "serving"
      BY DEF Newborn, Process
    <2>3. TypeOK'
      BY <2>1, <2>2 DEF Track, IInv, TypeOK
    <2>4. NoStray'
      <3> SUFFICES ASSUME NEW q \in DOMAIN proc', ~proc'[q].term
                   PROVE  proc'[q].inst \in DOMAIN procs' /\ procs'[proc'[q].inst] = q
        BY DEF NoStray
      <3>1. CASE q = p
        BY <2>1, <2>2, <3>1
      <3>2. CASE q \in DOMAIN proc
        <4>1. proc[q].inst \in DOMAIN procs /\ procs[proc[q].inst] = q /\ proc'[q] = proc[q]
          BY <2>1, <3>2 DEF IInv, NoStray
        <4>2. proc[q].inst # n
          BY <1>2, <3>2, <4>1 DEF Alive
        <4> QED BY <2>1, <4>1, <4>2
      <3> QED BY <2>1, <3>1, <3>2
    <2>5. TrackedInv'
      BY <2>1, <2>2 DEF IInv, TrackedInv
    <2> QED BY <2>3, <2>4, <2>5 DEF IInv
  <1> QED BY <1>1, <1>2

LEMMA StopIInv == ASSUME IInv, NEW n \in Names, Stop(n) PROVE IInv'
  <1>1. CASE n \notin DOMAIN procs
    BY <1>1 DEF Stop, vars, IInv, TypeOK, NoStray, TrackedInv
  <1>2. CASE n \in DOMAIN procs
    <2>1. /\ DOMAIN procs' = DOMAIN procs \ {n}
          /\ \A m \in DOMAIN procs' : procs'[m] = procs[m]
          /\ procs' = [m \in DOMAIN procs \ {n} |-> procs[m]]
      BY <1>2 DEF Stop, Untrack
    <2>2. /\ DOMAIN proc' = DOMAIN proc
          /\ \A q \in DOMAIN proc : /\ proc'[q].inst = proc[q].inst
                                    /\ q # procs[n] => proc'[q] = proc[q]
                                    /\ q = procs[n] => proc'[q].term
                                    /\ proc'[q] \in Process
                                    /\ proc'[q].state = proc[q].state
                                    /\ proc'[q].cfg = proc[q].cfg
      <3>1. CASE Alive(n)
        <4> DEFINE p == procs[n]
                   r == [proc[p] EXCEPT !.term = TRUE]
        <4>1. p \in DOMAIN proc /\ proc[p] \in Process
          BY <3>1 DEF Alive, IInv, TypeOK
        <4>2. r \in Process /\ r.inst = proc[p].inst /\ r.term
             /\ r.state = proc[p].state /\ r.cfg = proc[p].cfg
          BY <4>1 DEF Process
        <4>3. proc' = [proc EXCEPT ![p] = r]
          BY <1>2, <3>1 DEF Stop
        <4> HIDE DEF r
        <4> QED BY <4>1, <4>2, <4>3 DEF IInv, TypeOK
      <3>2. CASE ~Alive(n)
        BY <1>2, <3>2 DEF Stop, Alive, IInv, TypeOK
      <3> QED BY <3>1, <3>2
    <2>3. TypeOK'
      <3>1. proc' \in [DOMAIN proc' -> Process]
        BY <1>2, <2>2 DEF Stop, IInv, TypeOK
      <3> QED BY <2>1, <2>2, <3>1 DEF IInv, TypeOK
    <2>4. NoStray'
      BY <1>2, <2>1, <2>2 DEF IInv, NoStray, TrackedInv
    <2>5. TrackedInv'
      BY <1>2, <2>1, <2>2 DEF IInv, TrackedInv
    <2> QED BY <2>3, <2>4, <2>5 DEF IInv
  <1> QED BY <1>1, <1>2

(* A step of one process that keeps its instance and whether it was told to stop. *)
LEMMA ProcessStepIInv ==
    ASSUME IInv, UNCHANGED procs, NEW p \in DOMAIN proc, NEW q \in Process,
           proc' = [proc EXCEPT ![p] = q], q.inst = proc[p].inst, q.term = proc[p].term,
           q.state = "serving" => q.cfg \in Configs
    PROVE  IInv'
  <1>1. DOMAIN proc' = DOMAIN proc /\ \A r \in DOMAIN proc : /\ proc'[r].inst = proc[r].inst
                                                             /\ proc'[r].term = proc[r].term
    BY DEF IInv, TypeOK
  <1>2. TypeOK'
    BY DEF IInv, TypeOK
  <1>3. NoStray' /\ TrackedInv'
    BY <1>1 DEF IInv, NoStray, TrackedInv
  <1> QED BY <1>2, <1>3 DEF IInv

LEMMA ReloadIInv == ASSUME IInv, NEW n \in Names, Reload(n) PROVE IInv'
  <1>1. CASE Alive(n)
    <2> DEFINE p == procs[n]
               q == [proc[p] EXCEPT !.hup = TRUE]
    <2>1. p \in DOMAIN proc /\ proc[p] \in Process
      BY <1>1 DEF Alive, IInv, TypeOK
    <2>2. q \in Process /\ q.inst = proc[p].inst /\ q.term = proc[p].term
          /\ (q.state = "serving" => q.cfg \in Configs)
      BY <2>1 DEF Process, IInv, TypeOK
    <2>3. UNCHANGED procs /\ proc' = [proc EXCEPT ![p] = q]
      BY <1>1 DEF Reload
    <2> HIDE DEF p, q
    <2> QED BY <2>1, <2>2, <2>3, ProcessStepIInv
  <1>2. CASE ~Alive(n)
    BY <1>2 DEF Reload, vars, IInv, TypeOK, NoStray, TrackedInv
  <1> QED BY <1>1, <1>2

LEMMA ProcessIInv ==
    ASSUME IInv, NEW p \in Pids,
           (\E cfg \in Configs : Boot(p, cfg) \/ TakeHup(p, cfg)) \/ Exit(p)
    PROVE  IInv'
  <1>1. p \in DOMAIN proc /\ proc[p] \in Process /\ UNCHANGED procs
    BY DEF Boot, TakeHup, Exit, In, IInv, TypeOK
  <1>2. ASSUME NEW cfg \in Configs, Boot(p, cfg) PROVE IInv'
    <2> DEFINE q == [proc[p] EXCEPT !.state = "serving", !.cfg = cfg]
    <2>1. q \in Process /\ q.inst = proc[p].inst /\ q.term = proc[p].term
          /\ (q.state = "serving" => q.cfg \in Configs)
      BY <1>1 DEF Process, IInv, TypeOK
    <2>2. proc' = [proc EXCEPT ![p] = q]
      BY <1>2 DEF Boot
    <2> HIDE DEF q
    <2> QED BY <1>1, <2>1, <2>2, ProcessStepIInv
  <1>3. ASSUME NEW cfg \in Configs, TakeHup(p, cfg) PROVE IInv'
    <2> DEFINE q == [proc[p] EXCEPT !.hup = FALSE, !.cfg = cfg]
    <2>1. q \in Process /\ q.inst = proc[p].inst /\ q.term = proc[p].term
          /\ (q.state = "serving" => q.cfg \in Configs)
      BY <1>1 DEF Process, IInv, TypeOK
    <2>2. proc' = [proc EXCEPT ![p] = q]
      BY <1>3 DEF TakeHup
    <2> HIDE DEF q
    <2> QED BY <1>1, <2>1, <2>2, ProcessStepIInv
  <1>4. CASE Exit(p)
    <2> DEFINE q == [proc[p] EXCEPT !.state = "exited"]
    <2>1. q \in Process /\ q.inst = proc[p].inst /\ q.term = proc[p].term
          /\ (q.state = "serving" => q.cfg \in Configs)
      BY <1>1 DEF Process, IInv, TypeOK
    <2>2. proc' = [proc EXCEPT ![p] = q]
      BY <1>4 DEF Exit
    <2> HIDE DEF q
    <2> QED BY <1>1, <2>1, <2>2, ProcessStepIInv
  <1> QED BY <1>2, <1>3, <1>4

LEMMA ReapIInv == ASSUME IInv, NEW p \in Pids, Reap(p) PROVE IInv'
  <1>1. /\ DOMAIN proc' = DOMAIN proc \ {p} /\ UNCHANGED procs
        /\ \A q \in DOMAIN proc' : proc'[q] = proc[q]
    BY DEF Reap
  <1>2. TypeOK'
    BY <1>1 DEF Reap, IInv, TypeOK
  <1>3. NoStray' /\ TrackedInv'
    BY <1>1 DEF IInv, NoStray, TrackedInv
  <1> QED BY <1>2, <1>3 DEF IInv

LEMMA NextIInv == IInv /\ [Next]_vars => IInv'
  <1>1. IInv /\ UNCHANGED vars => IInv'
    BY DEF vars, IInv, TypeOK, NoStray, TrackedInv
  <1>2. Restart => IInv'
    BY DEF Restart, IInv, TypeOK, NoStray, TrackedInv
  <1> QED BY <1>1, <1>2, StartIInv, StopIInv, ReloadIInv, ProcessIInv, ReapIInv DEF Next

LEMMA InitIInv == Init => IInv
  BY DEF Init, IInv, TypeOK, NoStray, TrackedInv

LEMMA SpecIInv == Spec => []IInv
  BY InitIInv, NextIInv, PTL DEF Spec

(* The supervisor's map and the processes keep their types. *)
THEOREM SupervisorTypeCorrect == Spec => []TypeOK
  BY SpecIInv, PTL DEF IInv

(* No call sequence and no life of the processes leaves an ocserv running that *)
(* the supervisor does not track and has not sent SIGTERM: Start spawns only   *)
(* when the tracked process has been reaped, and Stop signals what it forgets. *)
THEOREM NoProcessStrays == Spec => []NoStray
  BY SpecIInv, PTL DEF IInv

--------------------------------------------------------------------------------
(* When Stop returns, every ocserv of the instance that still exists has been     *)
(* told to stop, though the map names one process at most.                        *)
StopReachesAll ==
    [][\A n \in Names : Stop(n) => \A p \in DOMAIN proc' : proc'[p].inst = n => proc'[p].term]_vars

LEMMA StopTellsAll ==
    ASSUME IInv, NEW n \in Names, Stop(n), NEW p \in DOMAIN proc', proc'[p].inst = n
    PROVE  proc'[p].term
  <1>1. proc \in [DOMAIN proc -> Process] /\ NoStray
    BY DEF IInv, TypeOK
  <1>2. CASE n \notin DOMAIN procs
    BY <1>1, <1>2 DEF Stop, vars, NoStray, Process
  <1>3. CASE n \in DOMAIN procs /\ Alive(n)
    <2>1. proc' = [proc EXCEPT ![procs[n]].term = TRUE] /\ procs[n] \in DOMAIN proc
      BY <1>3 DEF Stop, Alive
    <2>2. p \in DOMAIN proc /\ proc[p].inst = n
      BY <1>1, <2>1 DEF Process
    <2>3. CASE p = procs[n]
      BY <1>1, <2>1, <2>3 DEF Process
    <2>4. CASE p # procs[n]
      <3>1. proc[p].term
        BY <1>1, <2>2, <2>4 DEF NoStray, Process
      <3> QED BY <2>1, <2>2, <2>4, <3>1
    <2> QED BY <2>3, <2>4
  <1>4. CASE n \in DOMAIN procs /\ ~Alive(n)
    BY <1>1, <1>4 DEF Stop, Alive, NoStray, Process
  <1> QED BY <1>2, <1>3, <1>4

(* However starts, stops, exits and reaping interleaved before, a Stop leaves no  *)
(* ocserv of its instance that was not told: not the one it forgets, and not one   *)
(* that an earlier start left to it.                                              *)
THEOREM StopAlwaysReachesAll == Spec => StopReachesAll
  <1>1. IInv /\ [Next]_vars
          => [\A n \in Names : Stop(n) => \A p \in DOMAIN proc' : proc'[p].inst = n => proc'[p].term]_vars
    BY StopTellsAll
  <1> QED BY <1>1, SpecIInv, PTL DEF Spec, StopReachesAll
================================================================================
