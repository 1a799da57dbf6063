----------------------------------- MODULE Tui -----------------------------------
(* internal/tui/tui.go: the dashboard. The model is changed by one message at a *)
(* time; what takes long runs as commands in goroutines of their own, which ask *)
(* the daemon over HTTP and come back as messages, in whatever order they get   *)
(* through. A timer asks for a new fetch every three seconds. Meanwhile others  *)
(* create, delete and switch instances, users come and go, and the daemon may   *)
(* be out of reach, where every call ends as an error within five seconds.      *)
EXTENDS Integers, Sequences, FiniteSets

CONSTANTS
    Names,      \* instance names, as numbers: they are sorted
    CNs,        \* common names, as numbers
    Slots,      \* commands in flight; bounds how many there are at once
    None

ASSUME NamesAssumption == Names \subseteq Nat /\ CNs \subseteq Nat
ASSUME FiniteAssumption == IsFiniteSet(Names) /\ IsFiniteSet(CNs)

VARIABLES
    inst,       \* the daemon's instances: "on", "off" or "none"
    sess,       \* the live sessions
    reach,      \* the daemon answers in time
    m,          \* the model: lists, focus, cursor, status, err
    running,    \* the program has not quit
    timers,     \* commands of tick() that wait for their time to come
    ticks,      \* tickMsgs on their way to Update
    cmd,        \* the commands in flight, and the messages they end as
    acted       \* ghost: what the daemon has done for this program

serverVars == <<inst, sess, reach>>
vars == <<serverVars, m, running, timers, ticks, cmd, acted>>

InstanceRow == [name : Names, enabled : BOOLEAN]
SessionRow == [inst : Names, cn : CNs]

(* A row, and what is asked of its instance or its user. *)
Action == [kind : {"kick"}, row : SessionRow] \cup [kind : {"toggle"}, row : InstanceRow]

ASSUME NoneAssumption == None \notin Action

NoStatus == [of |-> None, ok |-> FALSE]

(* The commands: what they are about, how far they are, what they bring back. *)
Free == [pc |-> "none", of |-> None, ins |-> << >>, sess |-> << >>, ok |-> FALSE]
Fetch == [Free EXCEPT !.pc = "instances"]
Do(a) == [Free EXCEPT !.pc = "send", !.of = a]

Recorded == {n \in Names : inst[n] # "none"}
Instances == {[name |-> n, enabled |-> inst[n] = "on"] : n \in Recorded}

(* sort.Slice: rows whose keys are equal come in any order. *)
Sorted(S, key) ==
    {q \in [1..Cardinality(S) -> S] :
        \A i, j \in 1..Cardinality(S) : i < j => q[i] # q[j] /\ q[i][key] <= q[j][key]}

Init ==
    /\ inst \in [Names -> {"on", "off"}]
    /\ sess = {}
    /\ reach = TRUE
    /\ m = [ins |-> << >>, sess |-> << >>, focus |-> "instances", cursor |-> 0,
            status |-> NoStatus, err |-> FALSE]
    /\ running = TRUE
    /\ timers = 1
    /\ ticks = 0
    /\ \E s \in Slots : cmd = [t \in Slots |-> IF t = s THEN Fetch ELSE Free]
    /\ acted = {}

--------------------------------------------------------------------------------
(* Commands *)

(* ListInstances, then Sessions; the first error ends the fetch. *)
AskInstances(s) ==
    /\ running /\ cmd[s].pc = "instances"
    /\ IF reach
       THEN \E q \in Sorted(Instances, "name") :
               cmd' = [cmd EXCEPT ![s].pc = "sessions", ![s].ins = q]
       ELSE cmd' = [cmd EXCEPT ![s].pc = "message"]
    /\ UNCHANGED <<serverVars, m, running, timers, ticks, acted>>

AskSessions(s) ==
    /\ running /\ cmd[s].pc = "sessions"
    /\ IF reach
       THEN \E q \in Sorted(sess, "cn") :
               cmd' = [cmd EXCEPT ![s].pc = "message", ![s].sess = q, ![s].ok = TRUE]
       ELSE cmd' = [cmd EXCEPT ![s].pc = "message", ![s].ins = << >>]
    /\ UNCHANGED <<serverVars, m, running, timers, ticks, acted>>

(* What the daemon does: PatchInstance sets enabled to what the row did not say, *)
(* Disconnect ends the user's sessions on the instance, if it runs: occtl may    *)
(* report success for a user who has gone already. What the daemon does after    *)
(* the call has been given up is a step of the others.                           *)
Carries(a) ==
    IF a.kind = "toggle"
    THEN /\ inst[a.row.name] # "none"
         /\ inst' = [inst EXCEPT ![a.row.name] = IF a.row.enabled THEN "off" ELSE "on"]
         /\ sess' = IF a.row.enabled THEN {r \in sess : r.inst # a.row.name} ELSE sess
    ELSE /\ inst[a.row.inst] = "on"
         /\ sess' = sess \ {a.row}
         /\ UNCHANGED inst

Under == IF m.focus = "instances" THEN m.ins ELSE m.sess

(* Not the code: the row is looked up when the command runs. *)
ActLate(s) ==
    /\ running /\ cmd[s].pc = "send"
    /\ LET a == IF m.cursor < Len(Under)
                THEN [kind |-> IF m.focus = "instances" THEN "toggle" ELSE "kick",
                      row |-> Under[m.cursor + 1]]
                ELSE cmd[s].of
       IN  \/ /\ reach
              /\ Carries(a)
              /\ acted' = acted \cup {a}
              /\ cmd' = [cmd EXCEPT ![s].pc = "message", ![s].ok = TRUE]
           \/ /\ cmd' = [cmd EXCEPT ![s].pc = "message"]
              /\ UNCHANGED <<inst, sess, acted>>
    /\ UNCHANGED <<reach, m, running, timers, ticks>>

(* The call for the row that was under the cursor when the key was pressed. It *)
(* fails when the daemon refuses, is out of reach, or answers too late.        *)
Act(s) ==
    /\ running /\ cmd[s].pc = "send"
    /\ \/ /\ reach
          /\ Carries(cmd[s].of)
          /\ acted' = acted \cup {cmd[s].of}
          /\ \E ok \in BOOLEAN : cmd' = [cmd EXCEPT ![s].pc = "message", ![s].ok = ok]
       \/ /\ cmd' = [cmd EXCEPT ![s].pc = "message"]
          /\ UNCHANGED <<inst, sess, acted>>
    /\ UNCHANGED <<reach, m, running, timers, ticks>>

--------------------------------------------------------------------------------
(* Update *)

RowsOf(ui) == IF ui.focus = "instances" THEN Len(ui.ins) ELSE Len(ui.sess)

(* Not the code: the cursor stays where it was. *)
ClampNot(ui) == ui

Clamp(ui) ==
    IF ui.cursor < RowsOf(ui) THEN ui
    ELSE [ui EXCEPT !.cursor = IF RowsOf(ui) > 0 THEN RowsOf(ui) - 1 ELSE 0]

(* Not the code: an error, once shown, stays. *)
ShownStaysHurt(c) ==
    IF c.ok THEN Clamp([m EXCEPT !.ins = c.ins, !.sess = c.sess]) ELSE [m EXCEPT !.err = TRUE]

(* dataMsg: a failed fetch leaves the lists as they are. *)
Shown(c) ==
    IF c.ok THEN Clamp([m EXCEPT !.err = FALSE, !.ins = c.ins, !.sess = c.sess])
    ELSE [m EXCEPT !.err = TRUE]

DataMsg(s) ==
    /\ running /\ cmd[s].pc = "message" /\ cmd[s].of = None
    /\ m' = Shown(cmd[s])
    /\ cmd' = [cmd EXCEPT ![s] = Free]
    /\ UNCHANGED <<serverVars, running, timers, ticks, acted>>

(* Not the code: every action that is over has succeeded. *)
ActionMsgHopeful(s) ==
    /\ running /\ cmd[s].pc = "message" /\ cmd[s].of # None
    /\ m' = [m EXCEPT !.status = [of |-> cmd[s].of, ok |-> TRUE]]
    /\ cmd' = [cmd EXCEPT ![s] = Fetch]
    /\ UNCHANGED <<serverVars, running, timers, ticks, acted>>

(* actionMsg: the outcome is shown, and the lists are fetched again. *)
ActionMsg(s) ==
    /\ running /\ cmd[s].pc = "message" /\ cmd[s].of # None
    /\ m' = [m EXCEPT !.status = [of |-> cmd[s].of, ok |-> cmd[s].ok]]
    /\ cmd' = [cmd EXCEPT ![s] = Fetch]
    /\ UNCHANGED <<serverVars, running, timers, ticks, acted>>

Start(c) == \E s \in Slots : cmd[s].pc = "none" /\ cmd' = [cmd EXCEPT ![s] = c]

(* tea.Tick: the time has come. *)
TimerFires ==
    /\ running /\ timers > 0
    /\ timers' = timers - 1
    /\ ticks' = ticks + 1
    /\ UNCHANGED <<serverVars, m, running, cmd, acted>>

(* Not the code: a fetch only; the timer is left to an answer that never sets it. *)
TickMsgUnarmed ==
    /\ running /\ ticks > 0
    /\ ticks' = ticks - 1
    /\ Start(Fetch)
    /\ UNCHANGED <<serverVars, m, running, timers, acted>>

(* tickMsg: a fetch, and the timer is set again. *)
TickMsg ==
    /\ running /\ ticks > 0
    /\ ticks' = ticks - 1
    /\ timers' = timers + 1
    /\ Start(Fetch)
    /\ UNCHANGED <<serverVars, m, running, acted>>

(* onKey *)
Tab ==
    /\ m' = [m EXCEPT !.focus = IF @ = "instances" THEN "sessions" ELSE "instances",
                      !.cursor = 0]
    /\ UNCHANGED <<running, cmd>>

(* Not the code: up on the first row. *)
UpAlways == m' = [m EXCEPT !.cursor = @ - 1] /\ UNCHANGED <<running, cmd>>

Up == m.cursor > 0 /\ m' = [m EXCEPT !.cursor = @ - 1] /\ UNCHANGED <<running, cmd>>

Down == m.cursor < RowsOf(m) - 1 /\ m' = [m EXCEPT !.cursor = @ + 1] /\ UNCHANGED <<running, cmd>>

Refresh == Start(Fetch) /\ UNCHANGED <<m, running>>

Kick ==
    /\ m.focus = "sessions" /\ m.cursor < Len(m.sess)
    /\ Start(Do([kind |-> "kick", row |-> m.sess[m.cursor + 1]]))
    /\ UNCHANGED <<m, running>>

Toggle ==
    /\ m.focus = "instances" /\ m.cursor < Len(m.ins)
    /\ Start(Do([kind |-> "toggle", row |-> m.ins[m.cursor + 1]]))
    /\ UNCHANGED <<m, running>>

(* What is in flight ends with the program. *)
Quit == running' = FALSE /\ cmd' = [s \in Slots |-> Free] /\ UNCHANGED m

KeyMsg ==
    /\ running
    /\ Tab \/ Up \/ Down \/ Refresh \/ Kick \/ Toggle \/ Quit
    /\ UNCHANGED <<serverVars, timers, ticks, acted>>

--------------------------------------------------------------------------------
(* The others *)

Change(n) ==
    /\ \E state \in {"on", "off", "none"} \ {inst[n]} : inst' = [inst EXCEPT ![n] = state]
    /\ sess' = IF inst'[n] = "on" THEN sess ELSE {r \in sess : r.inst # n}
    /\ UNCHANGED reach

Come(row) == inst[row.inst] = "on" /\ sess' = sess \cup {row} /\ UNCHANGED <<inst, reach>>

Go(row) == sess' = sess \ {row} /\ UNCHANGED <<inst, reach>>

Lose == reach' = ~reach /\ UNCHANGED <<inst, sess>>

World ==
    /\ (\E n \in Names : Change(n)) \/ (\E row \in SessionRow : Come(row) \/ Go(row)) \/ Lose
    /\ UNCHANGED <<m, running, timers, ticks, cmd, acted>>

Run(s) == AskInstances(s) \/ AskSessions(s) \/ Act(s)

Deliver(s) == DataMsg(s) \/ ActionMsg(s)

Next ==
    \/ World \/ KeyMsg \/ TimerFires \/ TickMsg
    \/ \E s \in Slots : Run(s) \/ Deliver(s)

Spec == Init /\ [][Next]_vars

(* The timer fires, a command's goroutine runs and its call ends within five   *)
(* seconds, and Bubble Tea's loop takes every message.                         *)
Fairness ==
    /\ WF_vars(TimerFires) /\ WF_vars(TickMsg)
    /\ \A s \in Slots : WF_vars(Run(s)) /\ WF_vars(Deliver(s))

FairSpec == Spec /\ Fairness

--------------------------------------------------------------------------------
(* Type correctness: of the daemon's state, the model and the commands. *)
TypeOK ==
    /\ inst \in [Names -> {"on", "off", "none"}]
    /\ sess \subseteq SessionRow
    /\ {reach, running} \subseteq BOOLEAN
    /\ m \in [ ins : Seq(InstanceRow), sess : Seq(SessionRow),
               focus : {"instances", "sessions"}, cursor : Nat,
               status : [of : Action \cup {None}, ok : BOOLEAN], err : BOOLEAN ]
    /\ {timers, ticks} \subseteq Nat
    /\ cmd \in [Slots -> [ pc : {"none", "instances", "sessions", "send", "message"},
                          of : Action \cup {None}, ins : Seq(InstanceRow),
                          sess : Seq(SessionRow), ok : BOOLEAN ]]
    /\ \A s \in Slots : cmd[s].pc = "send" => cmd[s].of # None
    /\ acted \subseteq Action

(* The cursor is on a row of the list in view, or on the first line of an empty  *)
(* one, however lists shrink under it and in whatever order fetches come back    *)
(* (clampCursor): the keys never act on a row that is not highlighted.           *)
CursorOnRow == m.cursor < RowsOf(m) \/ m.cursor = 0

(* A status that reports success is about something the daemon has carried out *)
(* for this program: the row and the action of a key that was pressed.         *)
StatusHonest == m.status.ok => m.status.of \in acted

(* One timer is set or one tick is on its way, never two and never none        *)
(* (tui.go:60, 90): each tick is taken off and sets one timer, and refreshes by *)
(* hand or after actions, answers and errors neither multiply nor end polling. *)
OneTimer == running => timers + ticks = 1

(* A command changes nothing but what the key was pressed for: the instance    *)
(* under the cursor then is set to the opposite of what it was then shown as,  *)
(* whatever has come to be under the cursor and whatever state it has since.   *)
ActsAsAimed ==
    [][\A s \in Slots : cmd[s].pc = "send" /\ cmd'[s].pc = "message" =>
          LET a == cmd[s].of
          IN  IF a.kind = "toggle"
              THEN /\ \A n \in Names \ {a.row.name} : inst'[n] = inst[n]
                   /\ cmd'[s].ok => inst'[a.row.name] = IF a.row.enabled THEN "off" ELSE "on"
              ELSE inst' = inst /\ sess \ sess' \subseteq {a.row}]_vars

RangeOf(q) == {q[i] : i \in DOMAIN q}

Agrees ==
    IF reach THEN ~m.err /\ RangeOf(m.ins) = Instances /\ RangeOf(m.sess) = sess
    ELSE m.err

(* When the daemon's state comes to rest, so does the screen: on that state, or *)
(* on an error if the daemon is out of reach. Late answers of fetches that were *)
(* overtaken are replaced.                                                      *)
ScreenConverges == <>[][FALSE]_serverVars => <>[](running => Agrees)
================================================================================
