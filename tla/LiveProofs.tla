------------------------------- MODULE LiveProofs -------------------------------
(* Theorems about Live.tla, for any number of instances, users, addresses and    *)
(* requests, whatever ocserv does in the middle of a walk.                       *)
EXTENDS Live, TLAPS

WorldTyped ==
    /\ known \subseteq Names
    /\ socket \in [Names -> {"up", "down", "hung"}]
    /\ live \subseteq Session
    /\ ban \in [Names -> [IPs -> {"none", "points", "banned"}]]

WatchTyped ==
    watch \in [Requests -> [sessions : SUBSET Session, bans : SUBSET Ban,
                            lifted : SUBSET Names]]

(* What a walk holds comes from the instances it has done, or is at. *)
PlaceOK(q) ==
    /\ q.todo \subseteq q.names
    /\ q.at \in q.todo \cup {None}
    /\ q.failed \cup q.cleared \subseteq q.names \ q.todo
    /\ \A row \in q.out : row.inst \in (q.names \ q.todo) \cup {q.at}

(* The rows of a list of bans, and of a list of sessions, are told apart. *)
KindOK(q) ==
    /\ q.pc = "users" => q.out \subseteq Session
    /\ q.pc = "bans" => q.out \subseteq Ban
    /\ q.pc = "unban" => q.ip \in IPs
    /\ q.at # None => q.pc = "bans"

RequestsTyped ==
    /\ req \in [Requests -> RequestState]
    /\ \A r \in Requests : PlaceOK(req[r]) /\ KindOK(req[r])

LEMMA TypesSplit == TypeOK <=> WorldTyped /\ WatchTyped /\ req \in [Requests -> RequestState]
                               /\ \A r \in Requests : PlaceOK(req[r])
  BY DEF TypeOK, WorldTyped, WatchTyped, PlaceOK

LEMMA IdleTyped == Idle \in RequestState /\ PlaceOK(Idle) /\ KindOK(Idle)
  BY DEF Idle, RequestState, PlaceOK, KindOK

--------------------------------------------------------------------------------
(* Types *)

LEMMA BeginTyped ==
    ASSUME RequestsTyped, WorldTyped, NEW r \in Requests, Arrive(r)
    PROVE  RequestsTyped' /\ UNCHANGED <<known, ocservVars>>
  <1>1. ASSUME NEW pc \in {"unknown", "users", "bans", "unban", "kick"},
               NEW names \in SUBSET Names, NEW cn \in CNs \cup {None}, NEW ip \in IPs \cup {None},
               pc = "unban" => ip \in IPs, Begin(r, pc, names, cn, ip)
        PROVE  RequestsTyped' /\ UNCHANGED <<known, ocservVars>>
    <2> DEFINE q == [Idle EXCEPT !.pc = pc, !.names = names, !.todo = names, !.cn = cn, !.ip = ip]
    <2>1. q \in RequestState /\ PlaceOK(q) /\ KindOK(q)
      BY <1>1 DEF Idle, RequestState, PlaceOK, KindOK
    <2>2. req' = [req EXCEPT ![r] = q] /\ UNCHANGED <<known, ocservVars>>
      BY <1>1 DEF Begin
    <2> QED BY <2>1, <2>2 DEF RequestsTyped
  <1>2. NotFound(r) => RequestsTyped' /\ UNCHANGED <<known, ocservVars>>
    BY <1>1 DEF NotFound
  <1>3. CASE Sessions(r) \/ Bans(r)
    BY <1>1, <1>2, <1>3 DEF Sessions, Bans, WorldTyped
  <1>4. CASE Unban(r)
    BY <1>1, <1>4 DEF Unban, WorldTyped
  <1>5. CASE Disconnect(r)
    BY <1>1, <1>2, <1>5 DEF Disconnect, WorldTyped
  <1> QED BY <1>3, <1>4, <1>5 DEF Arrive

LEMMA BannedTyped ==
    ASSUME NEW n \in Names
    PROVE  Banned(n) \subseteq Ban /\ \A b \in Banned(n) : b.inst = n /\ b.banned /\ ban[n][b.ip] = "banned"
  <1> SUFFICES ASSUME NEW b \in Banned(n)
               PROVE  b \in Ban /\ b.inst = n /\ b.banned /\ ban[n][b.ip] = "banned"
    OBVIOUS
  <1>1. PICK ip \in IPs : ban[n][ip] = "banned" /\ b = [inst |-> n, ip |-> ip, banned |-> TRUE]
    BY DEF Banned
  <1> QED BY <1>1 DEF Ban

LEMMA PointsUnique ==
    ASSUME NEW n, NEW r, NEW b \in UnseenPoints(r, n), NEW c \in UnseenPoints(r, n), b.ip = c.ip
    PROVE  b = c
  <1>1. PICK i, j : b = [inst |-> n, ip |-> i, banned |-> FALSE]
                    /\ c = [inst |-> n, ip |-> j, banned |-> FALSE]
    BY DEF UnseenPoints
  <1> QED BY <1>1

LEMMA PointsTyped ==
    ASSUME NEW n \in Names, NEW r \in Requests
    PROVE  UnseenPoints(r, n) \subseteq Ban
           /\ \A b \in UnseenPoints(r, n) :
                 b.inst = n /\ \A c \in req[r].out : c.inst = n => c.ip # b.ip
  <1> DEFINE seen == {b.ip : b \in {c \in req[r].out : c.inst = n}}
  <1> SUFFICES ASSUME NEW b \in UnseenPoints(r, n)
               PROVE  b \in Ban /\ b.inst = n /\ \A c \in req[r].out : c.inst = n => c.ip # b.ip
    OBVIOUS
  <1>1. PICK ip \in Scored(n) \ seen : b = [inst |-> n, ip |-> ip, banned |-> FALSE]
    BY DEF UnseenPoints
  <1>2. ip \in IPs
    BY <1>1 DEF Scored
  <1>3. \A c \in req[r].out : c.inst = n => c.ip # ip
    BY <1>1
  <1> HIDE DEF seen
  <1> QED BY <1>1, <1>2, <1>3 DEF Ban

(* A step of a walk that has one instance less to do, or only more to tell. *)
LEMMA WalkTyped ==
    ASSUME RequestsTyped, NEW r \in Requests, NEW q \in RequestState, PlaceOK(q), KindOK(q),
           req' = [req EXCEPT ![r] = q]
    PROVE  RequestsTyped'
  BY DEF RequestsTyped

LEMMA StepTyped ==
    ASSUME RequestsTyped, WorldTyped, NEW r \in Requests, Step(r)
    PROVE  RequestsTyped' /\ WorldTyped'
  <1> DEFINE q == req[r]
  <1>1. q \in RequestState /\ PlaceOK(q) /\ KindOK(q)
    BY DEF RequestsTyped
  <1>2. CASE AskUsers(r)
    <2>1. PICK n \in q.todo :
              \/ req' = [req EXCEPT ![r].todo = @ \ {n}, ![r].out = @ \cup UsersOf(n)]
              \/ req' = [req EXCEPT ![r].todo = @ \ {n}]
      BY <1>2 DEF AskUsers
    <2>2. UsersOf(n) \subseteq Session /\ \A s \in UsersOf(n) : s.inst = n
      BY DEF UsersOf, WorldTyped
    <2>3. [q EXCEPT !.todo = @ \ {n}, !.out = @ \cup UsersOf(n)] \in RequestState
      BY <1>1, <2>2 DEF RequestState
    <2>4. q.at = None /\ n \in Names /\ n # None
      BY <1>1, <1>2, NoneAssumption DEF KindOK, AskUsers, RequestState
    <2>5. PlaceOK([q EXCEPT !.todo = @ \ {n}, !.out = @ \cup UsersOf(n)])
      BY <1>1, <2>1, <2>2, <2>4 DEF PlaceOK, RequestState
    <2>6. KindOK([q EXCEPT !.todo = @ \ {n}, !.out = @ \cup UsersOf(n)])
      BY <1>1, <1>2, <2>2, <2>4 DEF KindOK, RequestState, AskUsers
    <2>7. [q EXCEPT !.todo = @ \ {n}] \in RequestState /\ PlaceOK([q EXCEPT !.todo = @ \ {n}])
          /\ KindOK([q EXCEPT !.todo = @ \ {n}])
      BY <1>1, <2>1, <2>4 DEF PlaceOK, KindOK, RequestState
    <2>8. RequestsTyped'
      <3>1. CASE req' = [req EXCEPT ![r].todo = @ \ {n}, ![r].out = @ \cup UsersOf(n)]
        BY <2>3, <2>5, <2>6, <3>1, WalkTyped DEF RequestsTyped
      <3>2. CASE req' = [req EXCEPT ![r].todo = @ \ {n}]
        BY <2>7, <3>2, WalkTyped DEF RequestsTyped
      <3> QED BY <2>1, <3>1, <3>2
    <2> QED BY <1>2, <2>8 DEF AskUsers, ocservVars, WorldTyped
  <1>3. CASE AskBans(r)
    <2>1. PICK n \in q.todo :
              \/ req' = [req EXCEPT ![r].at = n, ![r].out = @ \cup Banned(n)]
              \/ req' = [req EXCEPT ![r].todo = @ \ {n}, ![r].failed = @ \cup {n}]
      BY <1>3 DEF AskBans
    <2>2. q.at = None /\ n \in Names /\ n # None /\ q.pc = "bans"
      BY <1>1, <1>3, NoneAssumption DEF AskBans, RequestState
    <2>3. [q EXCEPT !.at = n, !.out = @ \cup Banned(n)] \in RequestState /\ PlaceOK([q EXCEPT !.at = n, !.out = @ \cup Banned(n)]) /\ KindOK([q EXCEPT !.at = n, !.out = @ \cup Banned(n)])
      <3> DEFINE p == [q EXCEPT !.at = n, !.out = @ \cup Banned(n)]
      <3>1. p \in RequestState
        BY <1>1, <2>1, <2>2, BannedTyped DEF RequestState
      <3>2. PlaceOK(p)
        <4>1. \A row \in q.out : row.inst \in q.names \ q.todo
          BY <1>1, <2>2, NoneAssumption DEF PlaceOK, KindOK, Ban, RequestState
        <4> QED BY <1>1, <2>1, <2>2, <4>1, BannedTyped DEF PlaceOK, RequestState
      <3>3. KindOK(p)
        BY <1>1, <2>1, <2>2, BannedTyped DEF KindOK, RequestState
      <3> QED BY <3>1, <3>2, <3>3
    <2>4. [q EXCEPT !.todo = @ \ {n}, !.failed = @ \cup {n}] \in RequestState /\ PlaceOK([q EXCEPT !.todo = @ \ {n}, !.failed = @ \cup {n}]) /\ KindOK([q EXCEPT !.todo = @ \ {n}, !.failed = @ \cup {n}])
      <3> DEFINE p == [q EXCEPT !.todo = @ \ {n}, !.failed = @ \cup {n}]
      <3>1. p \in RequestState
        BY <1>1, <2>1, <2>2 DEF RequestState
      <3>2. PlaceOK(p)
        BY <1>1, <2>1, <2>2 DEF PlaceOK, RequestState
      <3>3. KindOK(p)
        BY <1>1, <2>1, <2>2 DEF KindOK, RequestState
      <3> QED BY <3>1, <3>2, <3>3
    <2>5. RequestsTyped'
      <3>1. CASE req' = [req EXCEPT ![r].at = n, ![r].out = @ \cup Banned(n)]
        BY <2>3, <3>1, WalkTyped DEF RequestsTyped
      <3>2. CASE req' = [req EXCEPT ![r].todo = @ \ {n}, ![r].failed = @ \cup {n}]
        BY <2>4, <3>2, WalkTyped DEF RequestsTyped
      <3> QED BY <2>1, <3>1, <3>2
    <2> QED BY <1>3, <2>5 DEF AskBans, ocservVars, WorldTyped
  <1>4. CASE AskPoints(r)
    <2> DEFINE n == q.at
    <2>1. n \in q.todo /\ n \in Names /\ q.pc = "bans" /\ None \notin Names
      BY <1>1, <1>4, NoneAssumption DEF AskPoints, PlaceOK, RequestState
    <2>2. \/ req' = [req EXCEPT ![r].at = None, ![r].todo = @ \ {n},
                                ![r].out = @ \cup UnseenPoints(r, n)]
          \/ req' = [req EXCEPT ![r].at = None, ![r].todo = @ \ {n}]
      BY <1>4 DEF AskPoints
    <2>3. [q EXCEPT !.at = None, !.todo = @ \ {n}, !.out = @ \cup UnseenPoints(r, n)] \in RequestState /\ PlaceOK([q EXCEPT !.at = None, !.todo = @ \ {n}, !.out = @ \cup UnseenPoints(r, n)]) /\ KindOK([q EXCEPT !.at = None, !.todo = @ \ {n}, !.out = @ \cup UnseenPoints(r, n)])
      <3> DEFINE p == [q EXCEPT !.at = None, !.todo = @ \ {n}, !.out = @ \cup UnseenPoints(r, n)]
      <3>1. p \in RequestState
        BY <1>1, <2>1, PointsTyped DEF RequestState
      <3>2. PlaceOK(p)
        BY <1>1, <2>1, PointsTyped DEF PlaceOK, RequestState
      <3>3. KindOK(p)
        BY <1>1, <2>1, PointsTyped DEF KindOK, RequestState
      <3> QED BY <3>1, <3>2, <3>3
    <2>4. [q EXCEPT !.at = None, !.todo = @ \ {n}] \in RequestState /\ PlaceOK([q EXCEPT !.at = None, !.todo = @ \ {n}]) /\ KindOK([q EXCEPT !.at = None, !.todo = @ \ {n}])
      <3> DEFINE p == [q EXCEPT !.at = None, !.todo = @ \ {n}]
      <3>1. p \in RequestState
        BY <1>1, <2>1 DEF RequestState
      <3>2. PlaceOK(p)
        BY <1>1, <2>1 DEF PlaceOK, RequestState
      <3>3. KindOK(p)
        BY <1>1, <2>1 DEF KindOK, RequestState
      <3> QED BY <3>1, <3>2, <3>3
    <2>5. RequestsTyped'
      <3>1. CASE req' = [req EXCEPT ![r].at = None, ![r].todo = @ \ {n},
                                    ![r].out = @ \cup UnseenPoints(r, n)]
        BY <2>3, <3>1, WalkTyped DEF RequestsTyped
      <3>2. CASE req' = [req EXCEPT ![r].at = None, ![r].todo = @ \ {n}]
        BY <2>4, <3>2, WalkTyped DEF RequestsTyped
      <3> QED BY <2>2, <3>1, <3>2
    <2> QED BY <1>4, <2>5 DEF AskPoints, ocservVars, WorldTyped
  <1>5. CASE AskUnban(r)
    <2>1. PICK n \in q.todo :
              /\ \/ req' = [req EXCEPT ![r].todo = @ \ {n}, ![r].cleared = @ \cup {n}]
                 \/ req' = [req EXCEPT ![r].todo = @ \ {n}]
              /\ ban' = ban \/ ban' = [ban EXCEPT ![n][q.ip] = "none"]
      BY <1>5 DEF AskUnban, Lifts, Lift, HoldsNot
    <2>2. q.at = None /\ n \in Names /\ n # None /\ q.pc = "unban" /\ q.ip \in IPs
      BY <1>1, <1>5, NoneAssumption DEF AskUnban, KindOK, RequestState
    <2>3. [q EXCEPT !.todo = @ \ {n}, !.cleared = @ \cup {n}] \in RequestState /\ PlaceOK([q EXCEPT !.todo = @ \ {n}, !.cleared = @ \cup {n}]) /\ KindOK([q EXCEPT !.todo = @ \ {n}, !.cleared = @ \cup {n}])
      <3> DEFINE p == [q EXCEPT !.todo = @ \ {n}, !.cleared = @ \cup {n}]
      <3>1. p \in RequestState
        BY <1>1, <2>1, <2>2 DEF RequestState
      <3>2. PlaceOK(p)
        BY <1>1, <2>1, <2>2 DEF PlaceOK, RequestState
      <3>3. KindOK(p)
        BY <1>1, <2>1, <2>2 DEF KindOK, RequestState
      <3> QED BY <3>1, <3>2, <3>3
    <2>4. LET p == [q EXCEPT !.todo = @ \ {n}]
          IN  p \in RequestState /\ PlaceOK(p) /\ KindOK(p)
      BY <1>1, <2>1, <2>2 DEF RequestState, PlaceOK, KindOK
    <2>5. RequestsTyped'
      <3>1. CASE req' = [req EXCEPT ![r].todo = @ \ {n}, ![r].cleared = @ \cup {n}]
        BY <2>3, <3>1, WalkTyped DEF RequestsTyped
      <3>2. CASE req' = [req EXCEPT ![r].todo = @ \ {n}]
        BY <2>4, <3>2, WalkTyped DEF RequestsTyped
      <3> QED BY <2>1, <3>1, <3>2
    <2>6. ban' \in [Names -> [IPs -> {"none", "points", "banned"}]]
      <3> PICK ip \in IPs : ip = q.ip
        BY <2>2
      <3>1. ban' = ban \/ ban' = [ban EXCEPT ![n][ip] = "none"]
        BY <2>1
      <3> QED BY <2>2, <3>1 DEF WorldTyped
    <2> QED BY <1>5, <2>5, <2>6 DEF AskUnban, WorldTyped
  <1>6. CASE AskKick(r)
    <2>1. PICK n \in q.todo :
              \/ req' = [req EXCEPT ![r].todo = {}]
              \/ req' = [req EXCEPT ![r].todo = {}, ![r].failed = {n}]
      BY <1>6 DEF AskKick
    <2>2. q.at = None /\ n \in Names /\ q.pc = "kick"
      BY <1>1, <1>6 DEF AskKick, KindOK, RequestState
    <2>3. LET p == [q EXCEPT !.todo = {}, !.failed = {n}]
          IN  p \in RequestState /\ PlaceOK(p) /\ KindOK(p)
      <3> PICK p : p = [q EXCEPT !.todo = {}, !.failed = {n}]
        OBVIOUS
      <3>1. p \in RequestState
        BY <1>1, <2>2 DEF RequestState
      <3>2. PlaceOK(p)
        BY <1>1, <2>2 DEF PlaceOK, RequestState
      <3>3. KindOK(p)
        BY <1>1, <2>2 DEF KindOK, RequestState
      <3> QED BY <3>1, <3>2, <3>3
    <2>4. LET p == [q EXCEPT !.todo = {}]
          IN  p \in RequestState /\ PlaceOK(p) /\ KindOK(p)
      <3> PICK p : p = [q EXCEPT !.todo = {}]
        OBVIOUS
      <3>1. p \in RequestState
        BY <1>1, <2>2 DEF RequestState
      <3>2. PlaceOK(p) /\ KindOK(p)
        BY <1>1, <2>2 DEF PlaceOK, KindOK, RequestState
      <3> QED BY <3>1, <3>2
    <2>5. RequestsTyped'
      <3>1. CASE req' = [req EXCEPT ![r].todo = {}, ![r].failed = {n}]
        BY <2>3, <3>1, WalkTyped DEF RequestsTyped
      <3>2. CASE req' = [req EXCEPT ![r].todo = {}]
        BY <2>4, <3>2, WalkTyped DEF RequestsTyped
      <3> QED BY <2>1, <3>1, <3>2
    <2> QED BY <1>6, <2>5 DEF AskKick, WorldTyped
  <1>7. CASE Return(r)
    BY <1>7, IdleTyped, WalkTyped DEF Return, ocservVars, WorldTyped
  <1> QED BY <1>2, <1>3, <1>4, <1>5, <1>6, <1>7 DEF Step

LEMMA ExpireTyped ==
    ASSUME RequestsTyped, WorldTyped, NEW r \in Requests, Expire(r)
    PROVE  RequestsTyped' /\ WorldTyped'
  <1> DEFINE p == [req[r] EXCEPT !.over = TRUE]
  <1>1. req[r] \in RequestState /\ PlaceOK(req[r]) /\ KindOK(req[r])
    BY DEF RequestsTyped
  <1>2. p \in RequestState
    BY <1>1 DEF RequestState
  <1>3. PlaceOK(p) /\ KindOK(p)
    BY <1>1 DEF PlaceOK, KindOK, RequestState
  <1>4. RequestsTyped'
    BY <1>2, <1>3, WalkTyped DEF Expire
  <1> QED BY <1>4 DEF Expire, ocservVars, WorldTyped

LEMMA WorldStaysTyped == ASSUME WorldTyped, World PROVE WorldTyped' /\ req' = req
  <1>1. ASSUME NEW n \in Names, Record(n) \/ Forget(n) \/ Rise(n) \/ Hang(n) \/ Fall(n)
        PROVE  WorldTyped' /\ req' = req
    <2>1. CASE Record(n) \/ Forget(n)
      BY <2>1 DEF Record, Forget, Meanwhile, ocservVars, WorldTyped
    <2>2. CASE Rise(n) \/ Hang(n)
      BY <2>2 DEF Rise, Hang, Meanwhile, WorldTyped
    <2>3. CASE Fall(n)
      BY <2>3 DEF Fall, UsersOf, Meanwhile, WorldTyped
    <2> QED BY <1>1, <2>1, <2>2, <2>3
  <1>2. ASSUME NEW s \in Session, Come(s) \/ Go(s) PROVE WorldTyped' /\ req' = req
    BY <1>2 DEF Come, Go, Meanwhile, WorldTyped
  <1>3. ASSUME NEW n \in Names, NEW ip \in IPs, Score(n, ip) \/ Forgive(n, ip)
        PROVE  WorldTyped' /\ req' = req
    <2>1. /\ \E x \in {"none", "points", "banned"} : ban' = [ban EXCEPT ![n][ip] = x]
          /\ req' = req /\ known' = known /\ socket' = socket /\ live' = live
      BY <1>3 DEF Score, Forgive, Lift, Meanwhile
    <2> QED BY <2>1 DEF WorldTyped
  <1> QED BY <1>1, <1>2, <1>3 DEF World

(* What the ghost sees is sessions and bans. *)
LEMMA ThereTyped ==
    ASSUME WorldTyped
    PROVE  Answering \subseteq Names /\ LiveThere \subseteq Session /\ BansThere \subseteq Ban
           /\ \A b \in BansThere : b.inst \in Answering /\ b.banned /\ ban[b.inst][b.ip] = "banned"
  <1>1. Answering \subseteq Names /\ LiveThere \subseteq Session
    BY DEF Answering, LiveThere, WorldTyped
  <1>2. \A b \in BansThere : \E n \in Answering : b \in Banned(n)
    BY DEF BansThere
  <1> QED BY <1>1, <1>2, BannedTyped

LEMMA ThereTypedNext ==
    ASSUME WorldTyped'
    PROVE  Answering' \subseteq Names /\ LiveThere' \subseteq Session /\ BansThere' \subseteq Ban
           /\ \A b \in BansThere' :
                 b.inst \in Answering' /\ b.banned /\ ban'[b.inst][b.ip] = "banned"
  <1>1. Answering' \subseteq Names /\ LiveThere' \subseteq Session
    BY DEF Answering, LiveThere, WorldTyped
  <1> SUFFICES ASSUME NEW b \in BansThere'
               PROVE  b \in Ban /\ b.inst \in Answering' /\ b.banned /\ ban'[b.inst][b.ip] = "banned"
    BY <1>1
  <1>2. PICK n \in Answering' : b \in Banned(n)'
    BY DEF BansThere
  <1>3. PICK ip \in IPs : ban'[n][ip] = "banned" /\ b = [inst |-> n, ip |-> ip, banned |-> TRUE]
    BY <1>2 DEF Banned
  <1> QED BY <1>1, <1>2, <1>3 DEF Ban

LEMMA WatchStaysTyped ==
    ASSUME WatchTyped, WorldTyped', RequestsTyped, Observe
    PROVE  WatchTyped'
  <1>1. Answering' \subseteq Names /\ LiveThere' \subseteq Session /\ BansThere' \subseteq Ban
    BY ThereTypedNext
  <1>2. ASSUME NEW r \in Requests
        PROVE  Observed(r) \in [sessions : SUBSET Session, bans : SUBSET Ban,
                                lifted : SUBSET Names]
    <2>1. LiftedBy(r) \subseteq Names
      BY DEF LiftedBy, RequestsTyped, RequestState
    <2> QED BY <1>1, <2>1 DEF WatchTyped, Observed, Unseen
  <1> QED BY <1>2 DEF Observe, WatchTyped

Typed == WorldTyped /\ WatchTyped /\ RequestsTyped

LEMMA NextTyped == ASSUME Typed, Next PROVE Typed'
  <1>1. WorldTyped' /\ RequestsTyped'
    <2>1. CASE World
      BY <2>1, WorldStaysTyped DEF Typed, RequestsTyped
    <2>2. ASSUME NEW r \in Requests, Arrive(r) PROVE WorldTyped' /\ RequestsTyped'
      BY <2>2, BeginTyped DEF Typed, WorldTyped, ocservVars
    <2>3. ASSUME NEW r \in Requests, Step(r) PROVE WorldTyped' /\ RequestsTyped'
      BY <2>3, StepTyped DEF Typed
    <2>4. ASSUME NEW r \in Requests, Expire(r) PROVE WorldTyped' /\ RequestsTyped'
      BY <2>4, ExpireTyped DEF Typed
    <2> QED BY <2>1, <2>2, <2>3, <2>4 DEF Next
  <1> QED BY <1>1, WatchStaysTyped DEF Typed, Next

LEMMA InitTyped == Init => Typed
  <1> SUFFICES ASSUME Init PROVE Typed
    OBVIOUS
  <1>1. WorldTyped /\ WatchTyped
    BY DEF Init, WorldTyped, WatchTyped, Unseen
  <1>2. RequestsTyped
    BY IdleTyped DEF Init, RequestsTyped
  <1> QED BY <1>1, <1>2 DEF Typed

LEMMA StutterTyped == Typed /\ UNCHANGED vars => Typed'
  BY DEF Typed, WorldTyped, WatchTyped, RequestsTyped, vars, ocservVars

LEMMA AlwaysTyped == Spec => []Typed
  <1>1. Typed /\ [Next]_vars => Typed'
    BY NextTyped, StutterTyped
  <1> QED BY InitTyped, <1>1, PTL DEF Spec

(* Types, and the place of every walk (Live.tla): a walk holds nothing of an   *)
(* instance it has not asked, and has what it was given left to ask.           *)
THEOREM LiveTypeCorrect == Spec => []TypeOK
  <1>1. Typed => TypeOK
    BY TypesSplit DEF Typed, RequestsTyped
  <1> QED BY AlwaysTyped, <1>1, PTL

--------------------------------------------------------------------------------
(* Whose step it is *)

LEMMA OnlyOne ==
    ASSUME Typed, NEW r \in Requests, NEW o \in Requests, o # r,
           Arrive(o) \/ Step(o) \/ Expire(o)
    PROVE  req'[r] = req[r]
  <1>1. CASE Arrive(o)
    BY <1>1 DEF Arrive, Sessions, Bans, Unban, Disconnect, NotFound, Begin, Typed, RequestsTyped
  <1>2. CASE Step(o)
    BY <1>2 DEF Step, AskUsers, AskBans, AskPoints, AskUnban, AskKick, Return, Typed, RequestsTyped
  <1>3. CASE Expire(o)
    BY <1>3 DEF Expire, Typed, RequestsTyped
  <1> QED BY <1>1, <1>2, <1>3

LEMMA Whose ==
    ASSUME Typed, Next, NEW r \in Requests
    PROVE  req'[r] = req[r] \/ Arrive(r) \/ Step(r) \/ Expire(r)
  BY OnlyOne, WorldStaysTyped DEF Next, Typed

(* A request begins with nothing done, on instances that include the answering *)
(* ones if it is one for all of them.                                          *)
LEMMA Begins ==
    ASSUME Typed, NEW r \in Requests, Arrive(r)
    PROVE  /\ req[r].pc = "idle" /\ req'[r].pc # "idle" /\ UNCHANGED <<known, ocservVars>>
           /\ req'[r].todo = req'[r].names /\ req'[r].at = None /\ req'[r].out = {}
           /\ req'[r].failed = {} /\ req'[r].cleared = {}
           /\ req'[r].pc \in {"bans", "unban"} => req'[r].names = known
  <1>1. ASSUME NEW pc \in {"unknown", "users", "bans", "unban", "kick"},
               NEW names, NEW cn, NEW ip, Begin(r, pc, names, cn, ip),
               pc \in {"bans", "unban"} => names = known
        PROVE  /\ req[r].pc = "idle" /\ req'[r].pc # "idle" /\ UNCHANGED <<known, ocservVars>>
               /\ req'[r].todo = req'[r].names /\ req'[r].at = None /\ req'[r].out = {}
               /\ req'[r].failed = {} /\ req'[r].cleared = {}
               /\ req'[r].pc \in {"bans", "unban"} => req'[r].names = known
    BY <1>1 DEF Begin, Idle, Typed, RequestsTyped
  <1>2. CASE Sessions(r) \/ Bans(r)
    BY <1>1, <1>2 DEF Sessions, Bans, NotFound
  <1>3. CASE Unban(r)
    BY <1>1, <1>3 DEF Unban
  <1>4. CASE Disconnect(r)
    BY <1>1, <1>4 DEF Disconnect, NotFound
  <1> QED BY <1>2, <1>3, <1>4 DEF Arrive

(* What the ghost has seen of a request only shrinks. *)
LEMMA Watching ==
    ASSUME Observe, NEW r \in Requests, req[r].pc # "idle", req'[r].pc # "idle"
    PROVE  /\ watch'[r].sessions = watch[r].sessions \cap LiveThere'
           /\ watch'[r].bans = watch[r].bans \cap BansThere'
           /\ watch'[r].lifted = watch[r].lifted \cup LiftedBy(r)
  BY DEF Observe, Observed

LEMMA WatchBegins ==
    ASSUME Observe, NEW r \in Requests, req[r].pc = "idle", req'[r].pc # "idle"
    PROVE  /\ watch'[r].bans \subseteq BansThere'
           /\ watch'[r].lifted = {}
  BY DEF Observe, Observed

(* A run of occtl does not make a request another. *)
LEMMA SamePc ==
    ASSUME Typed, NEW r \in Requests
    PROVE  /\ AskUsers(r) => req'[r].pc = "users" /\ req[r].pc = "users"
           /\ AskBans(r) \/ AskPoints(r) => req'[r].pc = "bans" /\ req[r].pc = "bans"
           /\ AskUnban(r) => req'[r].pc = "unban" /\ req[r].pc = "unban"
           /\ AskKick(r) => req'[r].pc = "kick" /\ req[r].pc = "kick"
  <1>1. req \in [Requests -> RequestState]
    BY DEF Typed, RequestsTyped
  <1>2. AskUsers(r) => req'[r].pc = "users" /\ req[r].pc = "users"
    BY <1>1 DEF AskUsers, RequestState
  <1>3. AskBans(r) => req'[r].pc = "bans" /\ req[r].pc = "bans"
    BY <1>1 DEF AskBans, RequestState
  <1>4. AskPoints(r) => req'[r].pc = "bans" /\ req[r].pc = "bans"
    BY <1>1 DEF AskPoints, RequestState
  <1>5. AskUnban(r) => req'[r].pc = "unban" /\ req[r].pc = "unban"
    BY <1>1 DEF AskUnban, RequestState
  <1>6. AskKick(r) => req'[r].pc = "kick" /\ req[r].pc = "kick"
    BY <1>1 DEF AskKick, RequestState
  <1> QED BY <1>2, <1>3, <1>4, <1>5, <1>6

LEMMA SameLifted ==
    ASSUME NEW r \in Requests, req'[r].todo = req[r].todo PROVE LiftedBy(r) = {}
  BY DEF LiftedBy
--------------------------------------------------------------------------------
(* Sessions: what stood all along on the instances done is in the answer *)

UsersInv(r) ==
    req[r].pc = "users" /\ ~req[r].over =>
        \A s \in watch[r].sessions : s.inst \in req[r].names \ req[r].todo => s \in req[r].out

LEMMA UsersKept ==
    ASSUME Typed, Typed', Next, NEW r \in Requests, UsersInv(r)
    PROVE  UsersInv(r)'
  <1> SUFFICES ASSUME req'[r].pc = "users", ~req'[r].over, NEW s \in watch'[r].sessions,
                      s.inst \in req'[r].names \ req'[r].todo
               PROVE  s \in req'[r].out
    BY DEF UsersInv
  <1>1. Observe /\ req[r] \in RequestState /\ req'[r] \in RequestState
    BY DEF Next, Typed, RequestsTyped
  <1>2. CASE Arrive(r)
    BY <1>2, Begins
  <1>3. ASSUME req[r].pc = "users"
        PROVE  s \in watch[r].sessions /\ s \in live' /\ socket'[s.inst] = "up"
    BY <1>1, <1>3, Watching DEF LiveThere, Answering
  <1>4. CASE req'[r] = req[r]
    BY <1>3, <1>4 DEF UsersInv
  <1>5. CASE Expire(r)
    BY <1>1, <1>5 DEF Expire, Typed, RequestsTyped
  <1>6. CASE AskUsers(r)
    <2>1. UNCHANGED <<live, socket>> /\ req[r].pc = "users"
      BY <1>6 DEF AskUsers, ocservVars
    <2>2. PICK n \in req[r].todo :
              \/ req' = [req EXCEPT ![r].todo = @ \ {n}, ![r].out = @ \cup UsersOf(n)]
              \/ /\ req[r].over \/ socket[n] = "down"
                 /\ req' = [req EXCEPT ![r].todo = @ \ {n}]
      BY <1>6 DEF AskUsers, Refuses
    <2>3. CASE req' = [req EXCEPT ![r].todo = @ \ {n}, ![r].out = @ \cup UsersOf(n)]
      <3>1. req'[r] = [req[r] EXCEPT !.todo = @ \ {n}, !.out = @ \cup UsersOf(n)]
        BY <2>3 DEF Typed, RequestsTyped
      <3>2. CASE s.inst = n
        <4>1. s \in UsersOf(n)
          BY <1>3, <2>1, <3>2 DEF UsersOf, ocservVars
        <4>2. req'[r].out = req[r].out \cup UsersOf(n)
          BY <1>1, <3>1 DEF RequestState
        <4> QED BY <4>1, <4>2
      <3>3. CASE s.inst # n
        BY <1>1, <1>3, <2>1, <3>1, <3>3 DEF UsersInv, RequestState
      <3> QED BY <3>2, <3>3
    <2>4. CASE (req[r].over \/ socket[n] = "down") /\ req' = [req EXCEPT ![r].todo = @ \ {n}]
      <3>1. req'[r] = [req[r] EXCEPT !.todo = @ \ {n}]
        BY <2>4 DEF Typed, RequestsTyped
      <3>2. s.inst # n
        BY <1>1, <1>3, <2>1, <2>4, <3>1 DEF RequestState
      <3> QED BY <1>1, <1>3, <2>1, <3>1, <3>2 DEF UsersInv, RequestState
    <2> QED BY <2>2, <2>3, <2>4
  <1>7. CASE AskBans(r) \/ AskPoints(r) \/ AskUnban(r) \/ AskKick(r)
    BY <1>7, SamePc
  <1>8. CASE Return(r)
    BY <1>8 DEF Return, Idle, Typed, RequestsTyped
  <1> QED BY <1>2, <1>4, <1>5, <1>6, <1>7, <1>8, Whose DEF Step

UsersAll == \A r \in Requests : UsersInv(r)

(* Sessions in an answer (Live.tla): what stood on an answering instance for   *)
(* the whole of a request that came in time is in its answer, for any number   *)
(* of instances that fall, hang or come back meanwhile.                        *)
THEOREM SessionsAlwaysFaithful == Spec => []SessionsFaithful
  <1>1. Init => UsersAll
    BY DEF Init, Idle, UsersAll, UsersInv
  <1>2. Typed /\ Typed' /\ UsersAll /\ [Next]_vars => UsersAll'
    <2>1. CASE UNCHANGED vars
      BY <2>1 DEF UsersAll, UsersInv, vars
    <2>2. ASSUME Typed, Typed', UsersAll, Next PROVE UsersAll'
      BY <2>2, UsersKept DEF UsersAll
    <2> QED BY <2>1, <2>2
  <1>3. Typed /\ UsersAll => SessionsFaithful
    <2> SUFFICES ASSUME Typed, UsersAll, NEW r \in Requests, Answered(r), req[r].pc = "users"
                 PROVE  /\ Status(req[r]) = "ok"
                        /\ ~req[r].over =>
                              \A s \in watch[r].sessions : s.inst \in req[r].names => s \in req[r].out
      BY DEF SessionsFaithful
    <2>1. Status(req[r]) = "ok"
      BY DEF Status
    <2> QED BY <2>1 DEF UsersAll, UsersInv, Answered
  <1> QED BY AlwaysTyped, <1>1, <1>2, <1>3, PTL DEF Spec

--------------------------------------------------------------------------------
(* Bans: each address once, and what stood all along *)

BansInv(r) ==
    req[r].pc = "bans" =>
        /\ \A b, c \in req[r].out : b.inst = c.inst /\ b.ip = c.ip => b = c
        /\ \A b \in watch[r].bans : b.inst \in req[r].names
        /\ ~req[r].over =>
              \A b \in watch[r].bans :
                  b.inst \in (req[r].names \ req[r].todo) \cup {req[r].at} => b \in req[r].out

(* What the ghost still sees after a step it saw before, and sees now. *)
LEMMA StillThere ==
    ASSUME Typed, Typed', Observe, NEW r \in Requests, req[r].pc # "idle", req'[r].pc # "idle"
    PROVE  /\ \A b \in watch'[r].bans :
                 b \in watch[r].bans /\ b \in Ban /\ b.banned
                 /\ socket'[b.inst] = "up" /\ ban'[b.inst][b.ip] = "banned"
  BY Watching, ThereTypedNext DEF Typed, Answering

LEMMA BansBegin ==
    ASSUME Typed, Typed', Observe, NEW r \in Requests, Arrive(r)
    PROVE  BansInv(r)'
  <1>1. /\ watch'[r].bans \subseteq BansThere'
        /\ known' = known /\ req'[r].todo = req'[r].names /\ req'[r].at = None
        /\ req'[r].out = {} /\ req'[r].failed = {}
        /\ req'[r].pc = "bans" => req'[r].names = known
    BY WatchBegins, Begins
  <1>2. Answering' \subseteq known' /\ \A b \in BansThere' : b.inst \in Answering' /\ b \in Ban
    BY ThereTypedNext DEF Answering, Typed
  <1>3. \A b \in Ban : b.inst # None
    BY NoneAssumption DEF Ban
  <1> QED BY <1>1, <1>2, <1>3 DEF BansInv

LEMMA AskBansKeeps ==
    ASSUME Typed, Typed', Observe, NEW r \in Requests, BansInv(r), AskBans(r)
    PROVE  BansInv(r)'
  <1> DEFINE q == req[r]
  <1>1. /\ q \in RequestState /\ PlaceOK(q) /\ KindOK(q) /\ req \in [Requests -> RequestState]
        /\ q.pc = "bans" /\ req'[r].pc = "bans" /\ q.at = None
    BY SamePc DEF Typed, RequestsTyped, AskBans
  <1>2. UNCHANGED <<known, socket, ban>>
    BY DEF AskBans, ocservVars
  <1>3. PICK n \in q.todo :
            \/ req' = [req EXCEPT ![r].at = n, ![r].out = @ \cup Banned(n)]
            \/ /\ q.over \/ socket[n] = "down"
               /\ req' = [req EXCEPT ![r].todo = @ \ {n}, ![r].failed = @ \cup {n}]
    BY DEF AskBans, Refuses
  <1>4. n \in Names /\ n # None /\ \A row \in q.out : row.inst \in q.names \ q.todo
    BY <1>1, <1>3, NoneAssumption DEF PlaceOK, KindOK, Ban, RequestState
  <1>5. /\ \A b \in watch'[r].bans :
               b \in watch[r].bans /\ b \in Ban /\ b.banned
               /\ socket'[b.inst] = "up" /\ ban'[b.inst][b.ip] = "banned"
    BY <1>1, StillThere
  <1>6. CASE req' = [req EXCEPT ![r].at = n, ![r].out = @ \cup Banned(n)]
    <2>1. req'[r] = [q EXCEPT !.at = n, !.out = @ \cup Banned(n)]
      BY <1>1, <1>6
    <2>2. /\ req'[r].names = q.names /\ req'[r].todo = q.todo /\ req'[r].at = n
          /\ req'[r].out = q.out \cup Banned(n) /\ req'[r].failed = q.failed
          /\ req'[r].over = q.over
      BY <1>1, <2>1 DEF RequestState
    <2>3. \A b, c \in req'[r].out : b.inst = c.inst /\ b.ip = c.ip => b = c
      <3>1. \A b, c \in Banned(n) : b.ip = c.ip => b = c
        <4> SUFFICES ASSUME NEW b \in Banned(n), NEW c \in Banned(n), b.ip = c.ip PROVE b = c
          OBVIOUS
        <4>1. PICK i, j : b = [inst |-> n, ip |-> i, banned |-> TRUE]
                          /\ c = [inst |-> n, ip |-> j, banned |-> TRUE]
          BY DEF Banned
        <4> QED BY <4>1
      <3>2. \A b \in Banned(n) : b.inst = n
        BY <1>4, BannedTyped
      <3> QED BY <1>1, <1>3, <1>4, <2>2, <3>1, <3>2 DEF BansInv
    <2>4. \A b \in watch'[r].bans : b.inst = n => b \in Banned(n)
      BY <1>2, <1>5 DEF Banned, Ban
    <2>5. \A b \in watch'[r].bans : b.inst # None
      BY <1>5, NoneAssumption DEF Ban
    <2> QED BY <1>1, <1>5, <2>2, <2>3, <2>4, <2>5 DEF BansInv
  <1>7. CASE (q.over \/ socket[n] = "down")
             /\ req' = [req EXCEPT ![r].todo = @ \ {n}, ![r].failed = @ \cup {n}]
    <2>1. req'[r] = [q EXCEPT !.todo = @ \ {n}, !.failed = @ \cup {n}]
      BY <1>1, <1>7
    <2>2. /\ req'[r].names = q.names /\ req'[r].todo = q.todo \ {n} /\ req'[r].at = None
          /\ req'[r].out = q.out /\ req'[r].failed = q.failed \cup {n}
          /\ req'[r].over = q.over
      BY <1>1, <2>1 DEF RequestState
    <2>3. ~q.over => \A b \in watch'[r].bans : b.inst # n
      BY <1>2, <1>5, <1>7
    <2> QED BY <1>1, <1>5, <2>2, <2>3 DEF BansInv
  <1> QED BY <1>3, <1>6, <1>7

LEMMA AskPointsKeeps ==
    ASSUME Typed, Typed', Observe, NEW r \in Requests, BansInv(r), AskPoints(r)
    PROVE  BansInv(r)'
  <1> DEFINE q == req[r]
             n == q.at
  <1>1. /\ q \in RequestState /\ PlaceOK(q) /\ KindOK(q) /\ req \in [Requests -> RequestState]
        /\ q.pc = "bans" /\ req'[r].pc = "bans" /\ n # None
    BY SamePc DEF Typed, RequestsTyped, AskPoints
  <1>2. PICK more :
            /\ more = UnseenPoints(r, n) \/ more = {}
            /\ req'[r] = [q EXCEPT !.at = None, !.todo = @ \ {n}, !.out = @ \cup more]
    <2>1. CASE req' = [req EXCEPT ![r].at = None, ![r].todo = @ \ {n},
                                  ![r].out = @ \cup UnseenPoints(r, n)]
      BY <1>1, <2>1
    <2>2. CASE req' = [req EXCEPT ![r].at = None, ![r].todo = @ \ {n}]
      <3>1. req'[r] = [q EXCEPT !.at = None, !.todo = @ \ {n}]
        BY <1>1, <2>2
      <3>2. [q EXCEPT !.at = None, !.todo = @ \ {n}]
              = [q EXCEPT !.at = None, !.todo = @ \ {n}, !.out = @ \cup {}]
        BY <1>1 DEF RequestState
      <3> QED BY <3>1, <3>2
    <2> QED BY <2>1, <2>2 DEF AskPoints
  <1>3. /\ req'[r].names = q.names /\ req'[r].todo = q.todo \ {n} /\ req'[r].at = None
        /\ req'[r].out = q.out \cup more /\ req'[r].failed = q.failed
        /\ req'[r].over = q.over
    BY <1>1, <1>2 DEF RequestState
  <1>4. n \in Names /\ n \in q.names /\ n \in q.todo
    BY <1>1 DEF PlaceOK, RequestState
  <1>5. /\ \A b \in more : b.inst = n /\ \A c \in q.out : c.inst = n => c.ip # b.ip
        /\ \A b, c \in more : b.ip = c.ip => b = c
    BY <1>2, <1>4, PointsTyped, PointsUnique
  <1>6. /\ \A b \in watch'[r].bans : b \in watch[r].bans /\ b \in Ban
    BY <1>1, StillThere
  <1>7. \A b, c \in req'[r].out : b.inst = c.inst /\ b.ip = c.ip => b = c
    <2> SUFFICES ASSUME NEW b \in q.out \cup more, NEW c \in q.out \cup more,
                        b.inst = c.inst, b.ip = c.ip
                 PROVE  b = c
      BY <1>3
    <2> QED BY <1>1, <1>5 DEF BansInv
  <1>8. \A b \in watch'[r].bans : b.inst # None
    BY <1>6, NoneAssumption DEF Ban
  <1>9. \A b \in watch'[r].bans :
            b.inst \in (q.names \ (q.todo \ {n})) => b.inst \in (q.names \ q.todo) \cup {n}
    OBVIOUS
  <1> HIDE DEF q, n
  <1> QED BY <1>1, <1>3, <1>6, <1>7, <1>8, <1>9 DEF BansInv, q, n

LEMMA BansKept ==
    ASSUME Typed, Typed', Next, NEW r \in Requests, BansInv(r)
    PROVE  BansInv(r)'
  <1>1. Observe /\ req[r] \in RequestState /\ req \in [Requests -> RequestState]
    BY DEF Next, Typed, RequestsTyped
  <1>2. CASE Arrive(r)
    BY <1>1, <1>2, BansBegin
  <1>3. CASE req'[r] = req[r]
    <2> SUFFICES ASSUME req[r].pc = "bans" PROVE BansInv(r)'
      BY <1>3 DEF BansInv
    <2>1. watch'[r].bans \subseteq watch[r].bans
      BY <1>1, <1>3, Watching
    <2> QED BY <1>3, <2>1 DEF BansInv
  <1>4. CASE Expire(r)
    <2>1. req'[r] = [req[r] EXCEPT !.over = TRUE]
      BY <1>1, <1>4 DEF Expire
    <2>2. /\ req'[r].names = req[r].names /\ req'[r].out = req[r].out
          /\ req'[r].pc = req[r].pc /\ req'[r].over
      BY <1>1, <2>1 DEF RequestState
    <2> SUFFICES ASSUME req[r].pc = "bans" PROVE BansInv(r)'
      BY <2>2 DEF BansInv
    <2>3. watch'[r].bans \subseteq watch[r].bans
      BY <1>1, <2>2, Watching
    <2> QED BY <2>2, <2>3 DEF BansInv
  <1>5. CASE AskBans(r)
    BY <1>1, <1>5, AskBansKeeps
  <1>6. CASE AskPoints(r)
    BY <1>1, <1>6, AskPointsKeeps
  <1>7. CASE AskUsers(r) \/ AskUnban(r) \/ AskKick(r)
    BY <1>7, SamePc DEF BansInv
  <1>8. CASE Return(r)
    BY <1>1, <1>8 DEF Return, Idle, BansInv
  <1> QED BY <1>2, <1>3, <1>4, <1>5, <1>6, <1>7, <1>8, Whose DEF Step

BansAll == \A r \in Requests : BansInv(r)

(* Bans in an answer (Live.tla): each address of an instance once; in time,    *)
(* every ban that stood all along.                                             *)
THEOREM BansAlwaysFaithful == Spec => []BansFaithful
  <1>1. Init => BansAll
    BY DEF Init, Idle, BansAll, BansInv
  <1>2. Typed /\ Typed' /\ BansAll /\ [Next]_vars => BansAll'
    <2>1. CASE UNCHANGED vars
      BY <2>1 DEF BansAll, BansInv, vars
    <2>2. ASSUME Typed, Typed', BansAll, Next PROVE BansAll'
      BY <2>2, BansKept DEF BansAll
    <2> QED BY <2>1, <2>2
  <1>3. Typed /\ BansAll => BansFaithful
    <2> SUFFICES ASSUME Typed, BansAll, NEW r \in Requests, Answered(r), req[r].pc = "bans"
                 PROVE  /\ \A b, c \in req[r].out : b.inst = c.inst /\ b.ip = c.ip => b = c
                        /\ ~req[r].over => watch[r].bans \subseteq req[r].out
      BY DEF BansFaithful
    <2>1. BansInv(r) /\ req[r].todo = {}
      BY DEF BansAll, Answered
    <2> QED BY <2>1 DEF BansInv
  <1> QED BY AlwaysTyped, <1>1, <1>2, <1>3, PTL DEF Spec

--------------------------------------------------------------------------------
(* Unban: what it says it did *)

UnbanInv(r) ==
    req[r].pc = "unban" =>
        /\ req[r].cleared = watch[r].lifted
        /\ \A b \in watch[r].bans : b.inst \in req[r].names
        /\ ~req[r].over =>
              \A b \in watch[r].bans : b.inst \in req[r].names \ req[r].todo => b.ip # req[r].ip

LEMMA UnbanBegin ==
    ASSUME Typed, Typed', Observe, NEW r \in Requests, Arrive(r)
    PROVE  UnbanInv(r)'
  <1>1. /\ watch'[r].bans \subseteq BansThere' /\ watch'[r].lifted = {}
        /\ known' = known /\ req'[r].todo = req'[r].names /\ req'[r].cleared = {}
        /\ req'[r].pc = "unban" => req'[r].names = known
    BY WatchBegins, Begins
  <1>2. Answering' \subseteq known' /\ \A b \in BansThere' : b.inst \in Answering'
    BY ThereTypedNext DEF Answering, Typed
  <1> QED BY <1>1, <1>2 DEF UnbanInv

LEMMA AskUnbanKeeps ==
    ASSUME Typed, Typed', Observe, NEW r \in Requests, UnbanInv(r), AskUnban(r)
    PROVE  UnbanInv(r)'
  <1> DEFINE q == req[r]
  <1>1. /\ q \in RequestState /\ KindOK(q) /\ req \in [Requests -> RequestState]
        /\ q.pc = "unban" /\ req'[r].pc = "unban" /\ q.ip \in IPs /\ WorldTyped
    BY SamePc DEF Typed, RequestsTyped, KindOK
  <1>2. PICK n \in q.todo :
            \/ Lifts(r, n) /\ req' = [req EXCEPT ![r].todo = @ \ {n}, ![r].cleared = @ \cup {n}]
            \/ /\ HoldsNot(r, n) \/ (Refuses(r, n) /\ UNCHANGED ban)
               /\ req' = [req EXCEPT ![r].todo = @ \ {n}]
    BY DEF AskUnban
  <1>3. UNCHANGED <<known, socket>> /\ n \in Names
    BY <1>1, <1>2 DEF AskUnban, RequestState
  <1>4. /\ \A b \in watch'[r].bans :
               b \in watch[r].bans /\ b \in Ban
               /\ socket'[b.inst] = "up" /\ ban'[b.inst][b.ip] = "banned"
        /\ watch'[r].lifted = watch[r].lifted \cup LiftedBy(r)
    BY <1>1, StillThere, Watching
  <1>5. CASE Lifts(r, n) /\ req' = [req EXCEPT ![r].todo = @ \ {n}, ![r].cleared = @ \cup {n}]
    <2>1. req'[r] = [q EXCEPT !.todo = @ \ {n}, !.cleared = @ \cup {n}]
      BY <1>1, <1>5
    <2>2. /\ req'[r].names = q.names /\ req'[r].todo = q.todo \ {n} /\ req'[r].ip = q.ip
          /\ req'[r].cleared = q.cleared \cup {n} /\ req'[r].over = q.over
      BY <1>1, <2>1 DEF RequestState
    <2>3. ban[n][q.ip] # "none" /\ ban'[n][q.ip] = "none"
      BY <1>1, <1>3, <1>5 DEF Lifts, Lift, WorldTyped
    <2>4. LiftedBy(r) = {n}
      BY <1>1, <1>2, <2>2, <2>3 DEF LiftedBy
    <2>5. \A b \in watch'[r].bans : b.inst = n => b.ip # q.ip
      BY <1>4, <2>3
    <2> QED BY <1>1, <1>4, <2>2, <2>4, <2>5 DEF UnbanInv
  <1>6. CASE /\ HoldsNot(r, n) \/ (Refuses(r, n) /\ UNCHANGED ban)
             /\ req' = [req EXCEPT ![r].todo = @ \ {n}]
    <2>1. req'[r] = [q EXCEPT !.todo = @ \ {n}]
      BY <1>1, <1>6
    <2>2. /\ req'[r].names = q.names /\ req'[r].todo = q.todo \ {n} /\ req'[r].ip = q.ip
          /\ req'[r].cleared = q.cleared /\ req'[r].over = q.over
      BY <1>1, <2>1 DEF RequestState
    <2>3. UNCHANGED ban
      BY <1>6 DEF HoldsNot
    <2>4. LiftedBy(r) = {}
      BY <2>3 DEF LiftedBy
    <2>5. ~q.over => ban[n][q.ip] # "banned" \/ socket[n] = "down"
      BY <1>6 DEF HoldsNot, Refuses
    <2>6. ~q.over => \A b \in watch'[r].bans : b.inst = n => b.ip # q.ip
      BY <1>3, <1>4, <2>3, <2>5
    <2> QED BY <1>1, <1>4, <2>2, <2>4, <2>6 DEF UnbanInv
  <1> QED BY <1>2, <1>5, <1>6

LEMMA UnbanKept ==
    ASSUME Typed, Typed', Next, NEW r \in Requests, UnbanInv(r)
    PROVE  UnbanInv(r)'
  <1>1. Observe /\ req[r] \in RequestState /\ req \in [Requests -> RequestState]
    BY DEF Next, Typed, RequestsTyped
  <1>2. CASE Arrive(r)
    BY <1>1, <1>2, UnbanBegin
  <1>3. CASE req'[r] = req[r]
    <2> SUFFICES ASSUME req[r].pc = "unban" PROVE UnbanInv(r)'
      BY <1>3 DEF UnbanInv
    <2>1. watch'[r].bans \subseteq watch[r].bans /\ watch'[r].lifted = watch[r].lifted
      BY <1>1, <1>3, Watching, SameLifted
    <2> QED BY <1>3, <2>1 DEF UnbanInv
  <1>4. CASE Expire(r)
    <2>1. req'[r] = [req[r] EXCEPT !.over = TRUE]
      BY <1>1, <1>4 DEF Expire
    <2>2. /\ req'[r].names = req[r].names /\ req'[r].todo = req[r].todo
          /\ req'[r].cleared = req[r].cleared /\ req'[r].pc = req[r].pc /\ req'[r].over
      BY <1>1, <2>1 DEF RequestState
    <2> SUFFICES ASSUME req[r].pc = "unban" PROVE UnbanInv(r)'
      BY <2>2 DEF UnbanInv
    <2>3. watch'[r].bans \subseteq watch[r].bans /\ watch'[r].lifted = watch[r].lifted
      BY <1>1, <2>2, Watching, SameLifted
    <2> QED BY <2>2, <2>3 DEF UnbanInv
  <1>5. CASE AskUnban(r)
    BY <1>1, <1>5, AskUnbanKeeps
  <1>6. CASE AskUsers(r) \/ AskBans(r) \/ AskPoints(r) \/ AskKick(r)
    BY <1>6, SamePc DEF UnbanInv
  <1>7. CASE Return(r)
    BY <1>1, <1>7 DEF Return, Idle, UnbanInv
  <1> QED BY <1>2, <1>3, <1>4, <1>5, <1>6, <1>7, Whose DEF Step

UnbanAll == \A r \in Requests : UnbanInv(r)

(* Unban in an answer (Live.tla): success if and only if a ban was lifted; in  *)
(* time, no ban of the address is left on an instance that answered all along. *)
THEOREM UnbanAlwaysTrue == Spec => []UnbanTruth
  <1>1. Init => UnbanAll
    BY DEF Init, Idle, UnbanAll, UnbanInv
  <1>2. Typed /\ Typed' /\ UnbanAll /\ [Next]_vars => UnbanAll'
    <2>1. CASE UNCHANGED vars
      BY <2>1 DEF UnbanAll, UnbanInv, vars
    <2>2. ASSUME Typed, Typed', UnbanAll, Next PROVE UnbanAll'
      BY <2>2, UnbanKept DEF UnbanAll
    <2> QED BY <2>1, <2>2
  <1>3. UnbanAll => UnbanTruth
    <2> SUFFICES ASSUME UnbanAll, NEW r \in Requests, Answered(r), req[r].pc = "unban"
                 PROVE  /\ Status(req[r]) = "ok" <=> watch[r].lifted # {}
                        /\ ~req[r].over => \A b \in watch[r].bans : b.ip # req[r].ip
      BY DEF UnbanTruth
    <2>1. UnbanInv(r) /\ req[r].todo = {}
      BY DEF UnbanAll, Answered
    <2> QED BY <2>1 DEF UnbanInv, Status
  <1> QED BY AlwaysTyped, <1>1, <1>2, <1>3, PTL DEF Spec

--------------------------------------------------------------------------------
(* Every request is answered, as far as that is not a matter of fairness: a walk  *)
(* asks each instance that it was given once, whatever comes back.               *)

(* The request in state p may go on in state q: it is answered, or it is the same *)
(* one and has an instance less to ask, the second list of an instance to ask, or *)
(* a caller who has gone. What is asked after that brings nothing more.           *)
GoesOn(p, q) ==
    \/ q = Idle
    \/ /\ q.pc = p.pc /\ q.names = p.names /\ q.cn = p.cn /\ q.ip = p.ip
       /\ q.todo \subseteq p.todo
       /\ \/ q.todo # p.todo /\ q.over = p.over
          \/ p.at = None /\ q.at \in p.todo /\ q.over = p.over
          \/ q = [p EXCEPT !.over = TRUE] /\ ~p.over
       /\ p.over => q.out = p.out /\ q.cleared = p.cleared

(* A step that moves a request takes it on, or answers it. *)
RequestsGoOn ==
    [][\A r \in Requests :
          req[r].pc # "idle" /\ req'[r] # req[r] => GoesOn(req[r], req'[r])]_vars

LEMMA StepGoesOn ==
    ASSUME Typed, NEW r \in Requests, Step(r) \/ Expire(r)
    PROVE  GoesOn(req[r], req'[r])
  <1>1. req \in [Requests -> RequestState] /\ PlaceOK(req[r])
    BY DEF Typed, RequestsTyped
  <1>2. CASE AskUsers(r)
    BY <1>1, <1>2 DEF AskUsers, Answers, Refuses, RequestState, GoesOn
  <1>3. CASE AskBans(r)
    BY <1>1, <1>3 DEF AskBans, Answers, Refuses, RequestState, GoesOn
  <1>4. CASE AskPoints(r)
    <2>1. req[r].at \in req[r].todo
      BY <1>1, <1>4 DEF AskPoints, PlaceOK
    <2> QED BY <1>1, <1>4, <2>1 DEF AskPoints, Answers, Refuses, RequestState, GoesOn
  <1>5. CASE AskUnban(r)
    BY <1>1, <1>5 DEF AskUnban, Lifts, HoldsNot, Answers, Refuses, RequestState, GoesOn
  <1>6. CASE AskKick(r)
    BY <1>1, <1>6 DEF AskKick, Answers, Refuses, RequestState, GoesOn
  <1>7. CASE Return(r)
    BY <1>1, <1>7 DEF Return, GoesOn
  <1>8. CASE Expire(r)
    <2> PICK p : p = req[r]
      OBVIOUS
    <2> PICK q : q = [p EXCEPT !.over = TRUE]
      OBVIOUS
    <2>1. ~p.over /\ req' = [req EXCEPT ![r] = q] /\ p \in RequestState
      BY <1>1, <1>8 DEF Expire
    <2>2. /\ q.pc = p.pc /\ q.names = p.names /\ q.cn = p.cn /\ q.ip = p.ip
          /\ q.todo = p.todo
      BY <2>1 DEF RequestState
    <2>3. GoesOn(p, q)
      BY <2>1, <2>2 DEF GoesOn
    <2> QED BY <1>1, <2>1, <2>3
  <1> QED BY <1>2, <1>3, <1>4, <1>5, <1>6, <1>7, <1>8 DEF Step

(* So a request ends after at most two runs of occtl for each instance and one    *)
(* that is cut short; that a run ends is the caller's deadline (Expire).          *)
THEOREM RequestsAlwaysGoOn == Spec => RequestsGoOn
  <1>1. ASSUME Typed, Next, NEW r \in Requests, req[r].pc # "idle", req'[r] # req[r]
        PROVE  GoesOn(req[r], req'[r])
    <2>1. ~Arrive(r)
      BY <1>1, Begins
    <2> QED BY <1>1, <2>1, Whose, StepGoesOn
  <1>2. Typed /\ [Next]_vars
          => [\A r \in Requests :
                req[r].pc # "idle" /\ req'[r] # req[r] => GoesOn(req[r], req'[r])]_vars
    BY <1>1
  <1> QED BY <1>2, AlwaysTyped, PTL DEF Spec, RequestsGoOn
================================================================================
