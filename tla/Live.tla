---------------------------------- MODULE Live ----------------------------------
(* The live view of internal/ocserv: Manager's Sessions, Bans, Unban and        *)
(* Disconnect over the occtl sockets of the instances (occtl.go), as the HTTP   *)
(* handlers and a metrics scrape call them. Nothing is kept between requests:   *)
(* a request takes the names of the instances once and runs occtl for one after *)
(* the other, in map order, while users come and go, addresses are scored and   *)
(* instances fall, hang and come back. One occtl run is one step. It fails when *)
(* no ocserv answers on the socket, does not return while ocserv hangs, and is  *)
(* killed when the request's context is over.                                   *)
EXTENDS Integers, FiniteSets

CONSTANTS
    Names,      \* instance names
    CNs,        \* common names of users
    Ids,        \* sessions one user may have on one instance: max-same-clients
    IPs,        \* addresses
    Requests,   \* requests that may be in flight at once
    None

ASSUME NoneAssumption == None \notin Names \cup CNs \cup IPs

VARIABLES
    known,      \* the instances in the record store
    socket,     \* what answers on <instance>.sock: "up", "down" or "hung"
    live,       \* the sessions
    ban,        \* ocserv's view of an address: "none", "points" or "banned"
    req,        \* the requests in flight: program counter and locals
    watch       \* ghost: what has stood for the whole of a request

ocservVars == <<socket, live, ban>>
vars == <<known, ocservVars, req, watch>>

Session == [inst : Names, cn : CNs, id : Ids]
Ban == [inst : Names, ip : IPs, banned : BOOLEAN]

(* over: the context has ended. at: the instance whose ban list is half read. *)
Idle == [pc |-> "idle", names |-> {}, todo |-> {}, at |-> None, cn |-> None, ip |-> None,
         out |-> {}, failed |-> {}, cleared |-> {}, over |-> FALSE]

Unseen == [sessions |-> {}, bans |-> {}, lifted |-> {}]

Init ==
    /\ known = {}
    /\ socket = [n \in Names |-> "down"]
    /\ live = {}
    /\ ban = [n \in Names |-> [ip \in IPs |-> "none"]]
    /\ req = [r \in Requests |-> Idle]
    /\ watch = [r \in Requests |-> Unseen]

--------------------------------------------------------------------------------
(* What a request asks *)

Begin(r, pc, names, cn, ip) ==
    /\ req[r].pc = "idle"
    /\ req' = [req EXCEPT ![r] = [Idle EXCEPT !.pc = pc, !.names = names, !.todo = names,
                                             !.cn = cn, !.ip = ip]]
    /\ UNCHANGED <<known, ocservVars>>

NotFound(r) == Begin(r, "unknown", {}, None, None)

(* Sessions of every instance, or of the one named. *)
Sessions(r) ==
    \/ Begin(r, "users", known, None, None)
    \/ \E n \in Names :
          IF n \in known THEN Begin(r, "users", {n}, None, None) ELSE NotFound(r)

Bans(r) == Begin(r, "bans", known, None, None)

Unban(r) == \E ip \in IPs : Begin(r, "unban", known, None, ip)

Disconnect(r) ==
    \E n \in Names, cn \in CNs :
        IF n \in known THEN Begin(r, "kick", {n}, cn, None) ELSE NotFound(r)

--------------------------------------------------------------------------------
(* occtl runs *)

Answers(r, n) == ~req[r].over /\ socket[n] = "up"

(* Not the code: a run without the request's context is never killed. *)
RefusesOnly(r, n) == socket[n] = "down"

Refuses(r, n) == req[r].over \/ socket[n] = "down"

UsersOf(n) == {s \in live : s.inst = n}

(* Not the code: the first instance that fails ends the walk. *)
AskUsersOrGiveUp(r) ==
    /\ req[r].pc = "users"
    /\ \E n \in req[r].todo :
          \/ /\ Answers(r, n)
             /\ req' = [req EXCEPT ![r].todo = @ \ {n}, ![r].out = @ \cup UsersOf(n)]
          \/ /\ Refuses(r, n)
             /\ req' = [req EXCEPT ![r].todo = {}]
    /\ UNCHANGED <<known, ocservVars>>

(* ShowUsers; an instance that fails is passed over. *)
AskUsers(r) ==
    /\ req[r].pc = "users"
    /\ \E n \in req[r].todo :
          \/ /\ Answers(r, n)
             /\ req' = [req EXCEPT ![r].todo = @ \ {n}, ![r].out = @ \cup UsersOf(n)]
          \/ /\ Refuses(r, n)
             /\ req' = [req EXCEPT ![r].todo = @ \ {n}]
    /\ UNCHANGED <<known, ocservVars>>

Banned(n) == {[inst |-> n, ip |-> ip, banned |-> TRUE] : ip \in {i \in IPs : ban[n][i] = "banned"}}

(* ShowIPBans; the instances that fail are counted. *)
AskBans(r) ==
    /\ req[r].pc = "bans" /\ req[r].at = None
    /\ \E n \in req[r].todo :
          \/ /\ Answers(r, n)
             /\ req' = [req EXCEPT ![r].at = n, ![r].out = @ \cup Banned(n)]
          \/ /\ Refuses(r, n)
             /\ req' = [req EXCEPT ![r].todo = @ \ {n}, ![r].failed = @ \cup {n}]
    /\ UNCHANGED <<known, ocservVars>>

Scored(n) == {ip \in IPs : ban[n][ip] # "none"}

(* Not the code: both lists are appended. *)
UnseenPointsAll(r, n) ==
    {[inst |-> n, ip |-> ip, banned |-> FALSE] : ip \in Scored(n)}

UnseenPoints(r, n) ==
    LET seen == {b.ip : b \in {c \in req[r].out : c.inst = n}}
    IN  {[inst |-> n, ip |-> ip, banned |-> FALSE] : ip \in Scored(n) \ seen}

(* Not the code: the place is kept when the points are read. *)
AskPointsStays(r) ==
    /\ req[r].pc = "bans" /\ req[r].at # None
    /\ Answers(r, req[r].at) \/ Refuses(r, req[r].at)
    /\ req' = [req EXCEPT ![r].todo = @ \ {req[r].at}]
    /\ UNCHANGED <<known, ocservVars>>

(* ShowIPBanPoints, whose list holds the banned addresses too; that it fails,  *)
(* as it does with an ocserv that has no such list, is not counted.            *)
AskPoints(r) ==
    /\ req[r].pc = "bans" /\ req[r].at # None
    /\ LET n == req[r].at
       IN  \/ /\ Answers(r, n)
              /\ req' = [req EXCEPT ![r].at = None, ![r].todo = @ \ {n},
                                    ![r].out = @ \cup UnseenPoints(r, n)]
           \/ /\ Answers(r, n) \/ Refuses(r, n)
              /\ req' = [req EXCEPT ![r].at = None, ![r].todo = @ \ {n}]
    /\ UNCHANGED <<known, ocservVars>>

Lift(n, ip) == ban' = [ban EXCEPT ![n][ip] = "none"]

(* What occtl unban does at an instance that answers: "could not unban" an *)
(* address that is not held, either of an address that only has a score.   *)
Lifts(r, n) == Answers(r, n) /\ ban[n][req[r].ip] # "none" /\ Lift(n, req[r].ip)

HoldsNot(r, n) == Answers(r, n) /\ ban[n][req[r].ip] # "banned" /\ UNCHANGED ban

(* Not the code: "could not unban" is taken for success. *)
AskUnbanBlindly(r) ==
    /\ req[r].pc = "unban"
    /\ \E n \in req[r].todo :
          \/ /\ Lifts(r, n) \/ HoldsNot(r, n)
             /\ req' = [req EXCEPT ![r].todo = @ \ {n}, ![r].cleared = @ \cup {n}]
          \/ /\ Refuses(r, n) /\ UNCHANGED ban
             /\ req' = [req EXCEPT ![r].todo = @ \ {n}]
    /\ UNCHANGED <<known, socket, live>>

(* UnbanIP; every instance is asked, whatever the ones before it said. *)
AskUnban(r) ==
    /\ req[r].pc = "unban"
    /\ \E n \in req[r].todo :
          \/ /\ Lifts(r, n)
             /\ req' = [req EXCEPT ![r].todo = @ \ {n}, ![r].cleared = @ \cup {n}]
          \/ /\ HoldsNot(r, n) \/ (Refuses(r, n) /\ UNCHANGED ban)
             /\ req' = [req EXCEPT ![r].todo = @ \ {n}]
    /\ UNCHANGED <<known, socket, live>>

(* occtl disconnect user: every session of the user. An error is returned. *)
AskKick(r) ==
    /\ req[r].pc = "kick"
    /\ \E n \in req[r].todo :
          \/ /\ Answers(r, n)
             /\ live' = {s \in live : s.inst # n \/ s.cn # req[r].cn}
             /\ req' = [req EXCEPT ![r].todo = {}]
          \/ /\ \/ Refuses(r, n)
                \/ Answers(r, n) /\ \A s \in UsersOf(n) : s.cn # req[r].cn
             /\ req' = [req EXCEPT ![r].todo = {}, ![r].failed = {n}]
             /\ UNCHANGED live
    /\ UNCHANGED <<known, socket, ban>>

(* The caller's deadline or its hanging up: five seconds for a scrape, thirty  *)
(* for api.Client. The handlers have none of their own. A run that is killed   *)
(* after ocserv has acted on it is an Expire after a Go or a Forgive.          *)
Expire(r) ==
    /\ req[r].pc # "idle" /\ ~req[r].over
    /\ req' = [req EXCEPT ![r].over = TRUE]
    /\ UNCHANGED <<known, ocservVars>>

Answered(r) == req[r].pc # "idle" /\ req[r].todo = {}

(* The outcome: Bans fails only if every instance did, Unban if none cleared. *)
Status(q) ==
    IF \/ q.pc = "unknown"
       \/ q.pc = "kick" /\ q.failed # {}
       \/ q.pc = "bans" /\ q.failed # {} /\ q.failed = q.names
       \/ q.pc = "unban" /\ q.cleared = {}
    THEN "error" ELSE "ok"

Return(r) ==
    /\ Answered(r)
    /\ req' = [req EXCEPT ![r] = Idle]
    /\ UNCHANGED <<known, ocservVars>>

--------------------------------------------------------------------------------
(* What happens meanwhile: instances are created and deleted, ocserv starts,   *)
(* stops, hangs and recovers, users come and go, addresses are scored, banned  *)
(* and forgiven.                                                               *)

Meanwhile == UNCHANGED req

Record(n) == known' = known \cup {n} /\ UNCHANGED ocservVars /\ Meanwhile
Forget(n) == known' = known \ {n} /\ UNCHANGED ocservVars /\ Meanwhile

Rise(n) ==
    /\ n \in known
    /\ socket[n] # "up"
    /\ socket' = [socket EXCEPT ![n] = "up"]
    /\ UNCHANGED <<known, live, ban>> /\ Meanwhile

Hang(n) ==
    /\ socket[n] = "up"
    /\ socket' = [socket EXCEPT ![n] = "hung"]
    /\ UNCHANGED <<known, live, ban>> /\ Meanwhile

(* The sessions and the ban list go with the process. *)
Fall(n) ==
    /\ socket[n] # "down"
    /\ socket' = [socket EXCEPT ![n] = "down"]
    /\ live' = live \ UsersOf(n)
    /\ ban' = [ban EXCEPT ![n] = [ip \in IPs |-> "none"]]
    /\ UNCHANGED known /\ Meanwhile

Come(s) ==
    /\ socket[s.inst] = "up"
    /\ live' = live \cup {s}
    /\ UNCHANGED <<known, socket, ban>> /\ Meanwhile

Go(s) == live' = live \ {s} /\ UNCHANGED <<known, socket, ban>> /\ Meanwhile

Score(n, ip) ==
    /\ socket[n] = "up"
    /\ ban' = [ban EXCEPT ![n][ip] = IF @ = "none" THEN "points" ELSE "banned"]
    /\ UNCHANGED <<known, socket, live>> /\ Meanwhile

Forgive(n, ip) ==
    /\ ban[n][ip] # "none"
    /\ Lift(n, ip)
    /\ UNCHANGED <<known, socket, live>> /\ Meanwhile

--------------------------------------------------------------------------------
(* The ghost: the sessions, and the bans, that were there on a recorded         *)
(* instance that was up in every state of the request; and the instances where  *)
(* the request itself has ended the ban of its address.                         *)

Answering == {n \in known : socket[n] = "up"}
LiveThere == {s \in live : s.inst \in Answering}
BansThere == UNION {Banned(n) : n \in Answering}

LiftedBy(r) ==
    IF req[r].pc = "unban"
    THEN {n \in req[r].todo \ req'[r].todo : ban'[n][req[r].ip] # ban[n][req[r].ip]}
    ELSE {}

Observed(r) ==
    IF req'[r].pc = "idle" THEN Unseen
    ELSE IF req[r].pc = "idle"
    THEN [sessions |-> IF req'[r].pc = "users" THEN LiveThere' ELSE {},
          bans |-> IF req'[r].pc \in {"bans", "unban"} THEN BansThere' ELSE {},
          lifted |-> {}]
    ELSE [sessions |-> watch[r].sessions \cap LiveThere',
          bans |-> watch[r].bans \cap BansThere',
          lifted |-> watch[r].lifted \cup LiftedBy(r)]

Observe == watch' = [r \in Requests |-> Observed(r)]

--------------------------------------------------------------------------------
Arrive(r) == Sessions(r) \/ Bans(r) \/ Unban(r) \/ Disconnect(r)

Step(r) == AskUsers(r) \/ AskBans(r) \/ AskPoints(r) \/ AskUnban(r) \/ AskKick(r) \/ Return(r)

World ==
    \/ \E n \in Names : Record(n) \/ Forget(n) \/ Rise(n) \/ Hang(n) \/ Fall(n)
    \/ \E s \in Session : Come(s) \/ Go(s)
    \/ \E n \in Names, ip \in IPs : Score(n, ip) \/ Forgive(n, ip)

Next ==
    /\ World \/ \E r \in Requests : Arrive(r) \/ Step(r) \/ Expire(r)
    /\ Observe

Spec == Init /\ [][Next]_vars

(* A handler keeps running, and a caller does not wait for ever: a scrape and  *)
(* the TUI give up after five seconds, api.Client after thirty. Nothing is     *)
(* assumed of ocserv.                                                          *)
Fairness == \A r \in Requests : WF_vars(Step(r) /\ Observe) /\ WF_vars(Expire(r) /\ Observe)

FairSpec == Spec /\ Fairness
--------------------------------------------------------------------------------
RequestState ==
    [ pc : {"idle", "unknown", "users", "bans", "unban", "kick"},
      names : SUBSET Names, todo : SUBSET Names, at : Names \cup {None},
      cn : CNs \cup {None}, ip : IPs \cup {None}, out : SUBSET (Session \cup Ban),
      failed : SUBSET Names, cleared : SUBSET Names, over : BOOLEAN ]

(* Type correctness. A walk has what it was given left to ask, and holds       *)
(* nothing of an instance it has not asked; the one whose ban list is half     *)
(* read is still to be done.                                                   *)
TypeOK ==
    /\ known \subseteq Names
    /\ socket \in [Names -> {"up", "down", "hung"}]
    /\ live \subseteq Session
    /\ ban \in [Names -> [IPs -> {"none", "points", "banned"}]]
    /\ req \in [Requests -> RequestState]
    /\ watch \in [Requests -> [sessions : SUBSET Session, bans : SUBSET Ban,
                               lifted : SUBSET Names]]
    /\ \A r \in Requests :
          /\ req[r].todo \subseteq req[r].names
          /\ req[r].at \in req[r].todo \cup {None}
          /\ req[r].failed \cup req[r].cleared \subseteq req[r].names \ req[r].todo
          /\ \A row \in req[r].out : row.inst \in (req[r].names \ req[r].todo) \cup {req[r].at}

(* An answer to Sessions that came in time holds every session that was there  *)
(* on an answering instance all along, however many others are down: an        *)
(* instance "contributes no sessions rather than failing the whole call".      *)
SessionsFaithful ==
    \A r \in Requests :
        Answered(r) /\ req[r].pc = "users" =>
            /\ Status(req[r]) = "ok"
            /\ ~req[r].over =>
                  \A s \in watch[r].sessions : s.inst \in req[r].names => s \in req[r].out

(* Bans reports an address of an instance once, though both lists hold it and  *)
(* may change between the two runs; in time, it reports every ban that stood   *)
(* all along, whichever other instances could not be asked.                    *)
BansFaithful ==
    \A r \in Requests :
        Answered(r) /\ req[r].pc = "bans" =>
            /\ \A b, c \in req[r].out : b.inst = c.inst /\ b.ip = c.ip => b = c
            /\ ~req[r].over => watch[r].bans \subseteq req[r].out

(* manager.go:321 as it reads: "a failing instance is reported rather than     *)
(* skipped", so that "could not ask" does not read as "nobody is being         *)
(* attacked". An answer to Bans that lacks an instance says so.                *)
FailedAskReported ==
    \A r \in Requests :
        Answered(r) /\ req[r].pc = "bans" /\ req[r].failed # {} => Status(req[r]) = "error"

(* Unban says that it did something exactly if it did ("so the UI cannot show  *)
(* a successful unban that did nothing", occtl.go), and in time it leaves no   *)
(* ban of the address in force on an instance that answered all along.         *)
UnbanTruth ==
    \A r \in Requests :
        Answered(r) /\ req[r].pc = "unban" =>
            /\ Status(req[r]) = "ok" <=> watch[r].lifted # {}
            /\ ~req[r].over => \A b \in watch[r].bans : b.ip # req[r].ip

(* Every request is answered, a scrape included, though an ocserv may hang for *)
(* ever with a run waiting for it.                                             *)
EveryRequestReturns == \A r \in Requests : [](req[r].pc # "idle" => <>(req[r].pc = "idle"))
================================================================================
