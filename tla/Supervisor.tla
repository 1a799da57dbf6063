------------------------------- MODULE Supervisor ------------------------------
(* internal/ocserv/process.go: one ocserv process per instance. Every method   *)
(* holds the supervisor's mutex for its whole length, so each is one step; what *)
(* interleaves with them is the life of the processes, which boot, take signals *)
(* and exit on their own, and the goroutines that reap them.                    *)
(* Methods are given any instance at any time here; Instances.tla calls them as *)
(* the manager does.                                                            *)
EXTENDS Integers, FiniteSets

CONSTANTS
    Names,      \* instance names
    Pids,       \* process handles; bounds how many processes exist at once
    Configs,    \* what a rendered configuration may say
    NoConfig    \* a process that has not read its configuration yet

VARIABLES
    procs,      \* s.procs: the process tracked for an instance
    proc        \* the processes that exist, zombies included

vars == <<procs, proc>>

Init == procs = << >> /\ proc = << >>

(* alive: signal 0 reaches a process until it is reaped, a zombie too. *)
Alive(n) == n \in DOMAIN procs /\ procs[n] \in DOMAIN proc

Track(n, p) == procs' = [m \in DOMAIN procs \cup {n} |-> IF m = n THEN p ELSE procs[m]]

Untrack(n) == procs' = [m \in DOMAIN procs \ {n} |-> procs[m]]

(* An *exec.Cmd is never taken for another process's: the handle stays in use *)
(* while it is tracked.                                                       *)
Fresh == Pids \ (DOMAIN proc \cup {procs[m] : m \in DOMAIN procs})

Newborn(n) == [inst |-> n, state |-> "booting", cfg |-> NoConfig, term |-> FALSE, hup |-> FALSE]

(* Not the code: Start that does not look for a live process. *)
StartAgain(n) ==
    \E p \in Fresh :
        /\ Track(n, p)
        /\ proc' = [q \in DOMAIN proc \cup {p} |-> IF q = p THEN Newborn(n) ELSE proc[q]]

(* Start: a no-op while the tracked process is alive. *)
Start(n) ==
    IF Alive(n) THEN UNCHANGED vars
    ELSE \E p \in Fresh :
            /\ Track(n, p)
            /\ proc' = [q \in DOMAIN proc \cup {p} |-> IF q = p THEN Newborn(n) ELSE proc[q]]

(* Reload: "not running" leaves everything as it is. *)
Reload(n) ==
    IF Alive(n) THEN proc' = [proc EXCEPT ![procs[n]].hup = TRUE] /\ UNCHANGED procs
    ELSE UNCHANGED vars

(* Not the code: Stop that forgets the process without a signal. *)
StopSilently(n) == Untrack(n) /\ UNCHANGED proc

(* Stop: SIGTERM, and the instance is forgotten; it does not wait. *)
Stop(n) ==
    IF n \in DOMAIN procs
    THEN /\ Untrack(n)
         /\ proc' = IF Alive(n) THEN [proc EXCEPT ![procs[n]].term = TRUE] ELSE proc
    ELSE UNCHANGED vars

--------------------------------------------------------------------------------
(* ocserv, and the goroutine in Wait *)

In(p, state) == p \in DOMAIN proc /\ proc[p].state = state

(* It reads its configuration, binds its listeners and serves. *)
Boot(p, cfg) ==
    /\ In(p, "booting")
    /\ proc' = [proc EXCEPT ![p].state = "serving", ![p].cfg = cfg]
    /\ UNCHANGED procs

(* SIGHUP re-reads the configuration of a serving process; one that has not *)
(* installed its handlers yet dies of it.                                   *)
TakeHup(p, cfg) ==
    /\ In(p, "serving") /\ proc[p].hup
    /\ proc' = [proc EXCEPT ![p].hup = FALSE, ![p].cfg = cfg]
    /\ UNCHANGED procs

Exit(p) ==
    /\ In(p, "booting") \/ In(p, "serving")
    /\ proc' = [proc EXCEPT ![p].state = "exited"]
    /\ UNCHANGED procs

Reap(p) ==
    /\ In(p, "exited")
    /\ proc' = [q \in DOMAIN proc \ {p} |-> proc[q]]
    /\ UNCHANGED procs

(* The daemon's service goes down: its unit takes every child with it, and the *)
(* next supervisor starts with an empty map.                                   *)
Restart == procs' = << >> /\ proc' = << >>

Next ==
    \/ \E n \in Names : Start(n) \/ Reload(n) \/ Stop(n)
    \/ \E p \in Pids :
          \/ \E cfg \in Configs : Boot(p, cfg) \/ TakeHup(p, cfg)
          \/ Exit(p)
          \/ Reap(p)
    \/ Restart

Spec == Init /\ [][Next]_vars

--------------------------------------------------------------------------------
Process == [ inst : Names, state : {"booting", "serving", "exited"},
             cfg : Configs \cup {NoConfig}, term : BOOLEAN, hup : BOOLEAN ]

(* Both are Go maps: partial functions, procs from instances to handles and *)
(* proc from handles to processes.                                          *)
TypeOK ==
    /\ DOMAIN procs \subseteq Names
    /\ DOMAIN proc \subseteq Pids
    /\ procs \in [DOMAIN procs -> Pids]
    /\ proc \in [DOMAIN proc -> Process]
    /\ \A p \in DOMAIN proc : proc[p].state = "serving" => proc[p].cfg \in Configs

(* Every ocserv that was not told to stop is the one tracked for its instance: *)
(* none is left running that Stop, Reload and Running do not reach, and no      *)
(* instance has two.                                                            *)
NoStray ==
    \A p \in DOMAIN proc :
        ~proc[p].term => /\ proc[p].inst \in DOMAIN procs
                         /\ procs[proc[p].inst] = p
================================================================================
