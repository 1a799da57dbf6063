-------------------------------- MODULE TuiProofs --------------------------------
(* Theorems about Tui.tla, for any number of instances, users and commands in   *)
(* flight, and whatever the daemon and the others do.                           *)
EXTENDS Tui, FiniteSetTheorems, TLAPS

UI == [ ins : Seq(InstanceRow), sess : Seq(SessionRow),
        focus : {"instances", "sessions"}, cursor : Nat,
        status : [of : Action \cup {None}, ok : BOOLEAN], err : BOOLEAN ]

Command == [ pc : {"none", "instances", "sessions", "send", "message"},
             of : Action \cup {None}, ins : Seq(InstanceRow),
             sess : Seq(SessionRow), ok : BOOLEAN ]

(* Only a fetch asks for lists, only an action is sent, and what a command has  *)
(* to report it reports at its end.                                             *)
CommandOK(c) ==
    /\ c.pc \in {"instances", "sessions"} => c.of = None
    /\ c.pc = "send" => c.of # None /\ ~c.ok

ServerTyped ==
    /\ inst \in [Names -> {"on", "off", "none"}]
    /\ sess \subseteq SessionRow
    /\ reach \in BOOLEAN

LocalTyped ==
    /\ m \in UI
    /\ running \in BOOLEAN
    /\ {timers, ticks} \subseteq Nat
    /\ acted \subseteq Action

CommandsTyped ==
    /\ cmd \in [Slots -> Command]
    /\ \A s \in Slots : CommandOK(cmd[s])

Typed == ServerTyped /\ LocalTyped /\ CommandsTyped

--------------------------------------------------------------------------------
(* A fetch brings back lists of rows *)

LEMMA SortedIsSeq ==
    ASSUME NEW S, IsFiniteSet(S), NEW q \in [1..Cardinality(S) -> S]
    PROVE  q \in Seq(S)
  <1>1. Cardinality(S) \in Nat
    BY FS_CardinalityType
  <1> QED BY <1>1

LEMMA InstancesFinite ==
    ASSUME Typed PROVE IsFiniteSet(Instances) /\ Instances \subseteq InstanceRow
  <1> DEFINE f == [n \in Recorded |-> [name |-> n, enabled |-> inst[n] = "on"]]
  <1>1. IsFiniteSet(Recorded)
    BY FiniteAssumption, FS_Subset DEF Recorded
  <1>2. f \in Surjection(Recorded, Instances)
    BY DEF Surjection, Instances
  <1>3. Instances \subseteq InstanceRow
    <2> SUFFICES ASSUME NEW n \in Recorded
                 PROVE  [name |-> n, enabled |-> inst[n] = "on"] \in InstanceRow
      BY DEF Instances
    <2> DEFINE on == inst[n] = "on"
    <2>1. n \in Names /\ on \in BOOLEAN
      BY DEF Recorded
    <2> HIDE DEF on
    <2>2. [name |-> n, enabled |-> on] \in InstanceRow
      BY <2>1 DEF InstanceRow
    <2> QED BY <2>2 DEF on
  <1> QED BY <1>1, <1>2, <1>3, FS_Surjection

LEMMA SessionsFinite == ASSUME Typed PROVE IsFiniteSet(sess)
  <1> DEFINE f == [p \in Names \X CNs |-> [inst |-> p[1], cn |-> p[2]]]
  <1>1. IsFiniteSet(Names \X CNs)
    BY FiniteAssumption, FS_Product
  <1>2. f \in Surjection(Names \X CNs, SessionRow)
    <2>1. f \in [Names \X CNs -> SessionRow]
      BY DEF SessionRow
    <2>2. \A row \in SessionRow : \E p \in Names \X CNs : f[p] = row
      <3> SUFFICES ASSUME NEW row \in SessionRow PROVE \E p \in Names \X CNs : f[p] = row
        OBVIOUS
      <3>1. <<row.inst, row.cn>> \in Names \X CNs /\ f[<<row.inst, row.cn>>] = row
        BY DEF SessionRow
      <3> QED BY <3>1
    <2> QED BY <2>1, <2>2 DEF Surjection
  <1>3. IsFiniteSet(SessionRow)
    BY <1>1, <1>2, FS_Surjection
  <1> QED BY <1>3, FS_Subset DEF Typed, ServerTyped

LEMMA FetchedTyped ==
    ASSUME Typed
    PROVE  /\ \A q \in Sorted(Instances, "name") : q \in Seq(InstanceRow)
           /\ \A q \in Sorted(sess, "cn") : q \in Seq(SessionRow)
  <1>1. \A q \in Sorted(Instances, "name") : q \in [1..Cardinality(Instances) -> Instances]
    BY DEF Sorted
  <1>2. \A q \in Sorted(sess, "cn") : q \in [1..Cardinality(sess) -> sess]
    BY DEF Sorted
  <1>3. \A q \in Sorted(Instances, "name") : q \in Seq(Instances)
    BY <1>1, InstancesFinite, SortedIsSeq
  <1>4. \A q \in Sorted(sess, "cn") : q \in Seq(sess)
    BY <1>2, SessionsFinite, SortedIsSeq
  <1>5. \A S, T : S \subseteq T => Seq(S) \subseteq Seq(T)
    OBVIOUS
  <1> QED BY <1>3, <1>4, <1>5, InstancesFinite DEF Typed, ServerTyped
--------------------------------------------------------------------------------
(* Types *)

LEMMA CommandsKept ==
    ASSUME CommandsTyped, NEW s \in Slots, NEW c \in Command, CommandOK(c),
           cmd' = [cmd EXCEPT ![s] = c]
    PROVE  CommandsTyped'
  BY DEF CommandsTyped

LEMMA FreeTyped == Free \in Command /\ CommandOK(Free) /\ Fetch \in Command /\ CommandOK(Fetch)
  <1>1. << >> \in Seq(InstanceRow) /\ << >> \in Seq(SessionRow)
    OBVIOUS
  <1>2. Free \in Command /\ Free.pc = "none" /\ Free.of = None
    BY <1>1 DEF Free, Command
  <1>3. Fetch \in Command /\ Fetch.pc = "instances" /\ Fetch.of = None
    BY <1>2 DEF Fetch, Command
  <1> QED BY <1>2, <1>3 DEF CommandOK

LEMMA DoTyped == ASSUME NEW a \in Action PROVE Do(a) \in Command /\ CommandOK(Do(a))
  <1>1. Free \in Command /\ Free.ok = FALSE
    BY FreeTyped DEF Free
  <1>2. Do(a) \in Command /\ Do(a).pc = "send" /\ Do(a).of = a /\ ~Do(a).ok
    BY <1>1 DEF Do, Command
  <1>3. a # None
    BY NoneAssumption
  <1> QED BY <1>2, <1>3 DEF CommandOK

LEMMA StartTyped ==
    ASSUME CommandsTyped, NEW c \in Command, CommandOK(c), Start(c)
    PROVE  CommandsTyped'
  BY CommandsKept DEF Start

LEMMA RunTyped == ASSUME Typed, NEW s \in Slots, Run(s) PROVE Typed'
  <1> DEFINE c == cmd[s]
  <1>1. c \in Command /\ CommandOK(c) /\ CommandsTyped
    BY DEF Typed, CommandsTyped
  <1>2. CASE AskInstances(s)
    <2>1. CASE cmd' = [cmd EXCEPT ![s].pc = "message"]
      <3>1. [c EXCEPT !.pc = "message"] \in Command /\ CommandOK([c EXCEPT !.pc = "message"])
        BY <1>1 DEF Command, CommandOK
      <3> QED BY <1>1, <1>2, <2>1, <3>1, CommandsKept
              DEF AskInstances, serverVars, Typed, ServerTyped, LocalTyped
    <2>2. ASSUME NEW q \in Sorted(Instances, "name"),
                 cmd' = [cmd EXCEPT ![s].pc = "sessions", ![s].ins = q]
          PROVE  Typed'
      <3>1. q \in Seq(InstanceRow) /\ c.of = None
        BY <1>1, <1>2, <2>2, FetchedTyped DEF AskInstances, CommandOK
      <3> DEFINE p == [c EXCEPT !.pc = "sessions", !.ins = q]
      <3>2. p \in Command /\ CommandOK(p)
        BY <1>1, <3>1 DEF Command, CommandOK
      <3>3. cmd' = [cmd EXCEPT ![s] = p]
        BY <2>2
      <3> HIDE DEF p
      <3> QED BY <1>1, <1>2, <3>2, <3>3, CommandsKept
              DEF AskInstances, serverVars, Typed, ServerTyped, LocalTyped
    <2> QED BY <1>2, <2>1, <2>2 DEF AskInstances
  <1>3. CASE AskSessions(s)
    <2>1. CASE cmd' = [cmd EXCEPT ![s].pc = "message", ![s].ins = << >>]
      <3> DEFINE p == [c EXCEPT !.pc = "message", !.ins = << >>]
      <3>0. << >> \in Seq(InstanceRow)
        OBVIOUS
      <3>1. p \in Command /\ CommandOK(p)
        BY <1>1, <3>0 DEF Command, CommandOK
      <3>2. cmd' = [cmd EXCEPT ![s] = p]
        BY <2>1
      <3> HIDE DEF p
      <3> QED BY <1>1, <1>3, <3>1, <3>2, CommandsKept
              DEF AskSessions, serverVars, Typed, ServerTyped, LocalTyped
    <2>2. ASSUME NEW q \in Sorted(sess, "cn"),
                 cmd' = [cmd EXCEPT ![s].pc = "message", ![s].sess = q, ![s].ok = TRUE]
          PROVE  Typed'
      <3>1. q \in Seq(SessionRow)
        BY <2>2, FetchedTyped
      <3> DEFINE p == [c EXCEPT !.pc = "message", !.sess = q, !.ok = TRUE]
      <3>2. p \in Command /\ CommandOK(p)
        BY <1>1, <3>1 DEF Command, CommandOK
      <3>3. cmd' = [cmd EXCEPT ![s] = p]
        BY <2>2
      <3> HIDE DEF p
      <3> QED BY <1>1, <1>3, <3>2, <3>3, CommandsKept
              DEF AskSessions, serverVars, Typed, ServerTyped, LocalTyped
    <2> QED BY <1>3, <2>1, <2>2 DEF AskSessions
  <1>4. CASE Act(s)
    <2>1. PICK ok \in BOOLEAN : cmd' = [cmd EXCEPT ![s].pc = "message", ![s].ok = ok]
      <3>1. CASE cmd' = [cmd EXCEPT ![s].pc = "message"]
        <4>1. cmd' = [cmd EXCEPT ![s].pc = "message", ![s].ok = cmd[s].ok] /\ c.ok \in BOOLEAN
          BY <1>1, <3>1 DEF CommandsTyped, Command
        <4> QED BY <4>1
      <3> QED BY <1>4, <3>1 DEF Act
    <2> DEFINE p == [c EXCEPT !.pc = "message", !.ok = ok]
    <2>2. p \in Command /\ CommandOK(p) /\ cmd' = [cmd EXCEPT ![s] = p]
      BY <1>1, <2>1 DEF Command, CommandOK
    <2>3. CommandsTyped'
      <3> HIDE DEF p
      <3> QED BY <1>1, <2>2, CommandsKept
    <2>4. c.of \in Action
      BY <1>1, <1>4 DEF Act, Command, CommandOK
    <2>5. ASSUME Carries(c.of) PROVE ServerTyped'
      <3>1. CASE c.of.kind = "toggle"
        BY <1>4, <2>4, <2>5, <3>1
           DEF Carries, Act, Action, InstanceRow, Typed, ServerTyped
      <3>2. CASE c.of.kind # "toggle"
        BY <1>4, <2>5, <3>2 DEF Carries, Act, Typed, ServerTyped
      <3> QED BY <3>1, <3>2
    <2>6. ServerTyped' /\ LocalTyped'
      BY <1>4, <2>4, <2>5 DEF Act, Typed, ServerTyped, LocalTyped
    <2> QED BY <2>3, <2>6 DEF Typed
  <1> QED BY <1>2, <1>3, <1>4 DEF Run

LEMMA ClampTyped ==
    ASSUME NEW ui \in UI
    PROVE  /\ Clamp(ui) \in UI /\ Clamp(ui).status = ui.status
           /\ Clamp(ui).cursor < RowsOf(Clamp(ui)) \/ Clamp(ui).cursor = 0
  <1>1. RowsOf(ui) \in Nat
    BY DEF RowsOf, UI
  <1>2. CASE ui.cursor < RowsOf(ui)
    BY <1>2 DEF Clamp
  <1>3. CASE ~(ui.cursor < RowsOf(ui))
    <2> DEFINE k == IF RowsOf(ui) > 0 THEN RowsOf(ui) - 1 ELSE 0
    <2>1. k \in Nat /\ (k < RowsOf(ui) \/ k = 0)
      BY <1>1
    <2>2. Clamp(ui) = [ui EXCEPT !.cursor = k]
      BY <1>3 DEF Clamp
    <2> HIDE DEF k
    <2>3. [ui EXCEPT !.cursor = k] \in UI
      BY <2>1 DEF UI
    <2>4. RowsOf([ui EXCEPT !.cursor = k]) = RowsOf(ui) /\ [ui EXCEPT !.cursor = k].cursor = k
          /\ [ui EXCEPT !.cursor = k].status = ui.status
      BY DEF RowsOf, UI
    <2> QED BY <2>1, <2>2, <2>3, <2>4
  <1> QED BY <1>2, <1>3

LEMMA ShownTyped ==
    ASSUME m \in UI, NEW c \in Command
    PROVE  /\ Shown(c) \in UI /\ Shown(c).status = m.status
           /\ CursorOnRow => Shown(c).cursor < RowsOf(Shown(c)) \/ Shown(c).cursor = 0
  <1>1. CASE c.ok
    <2> DEFINE ui == [m EXCEPT !.err = FALSE, !.ins = c.ins, !.sess = c.sess]
    <2>1. ui \in UI /\ ui.status = m.status
      BY DEF UI, Command
    <2>2. Shown(c) = Clamp(ui)
      BY <1>1 DEF Shown
    <2> HIDE DEF ui
    <2> QED BY <2>1, <2>2, ClampTyped
  <1>2. CASE ~c.ok
    BY <1>2 DEF Shown, UI, CursorOnRow, RowsOf
  <1> QED BY <1>1, <1>2

LEMMA DeliverTyped == ASSUME Typed, NEW s \in Slots, Deliver(s) PROVE Typed'
  <1>1. cmd[s] \in Command /\ CommandsTyped /\ m \in UI
    BY DEF Typed, CommandsTyped, LocalTyped
  <1>2. CASE DataMsg(s)
    <2>1. m' \in UI
      BY <1>1, <1>2, ShownTyped DEF DataMsg
    <2>2. CommandsTyped'
      BY <1>1, <1>2, FreeTyped, CommandsKept DEF DataMsg
    <2> QED BY <1>2, <2>1, <2>2 DEF DataMsg, serverVars, Typed, ServerTyped, LocalTyped
  <1>3. CASE ActionMsg(s)
    <2>1. m' \in UI
      BY <1>1, <1>3 DEF ActionMsg, UI, Command
    <2>2. CommandsTyped'
      BY <1>1, <1>3, FreeTyped, CommandsKept DEF ActionMsg
    <2> QED BY <1>3, <2>1, <2>2 DEF ActionMsg, serverVars, Typed, ServerTyped, LocalTyped
  <1> QED BY <1>2, <1>3 DEF Deliver

(* What a key acts on is a row of the list in view. *)
LEMMA KeyTyped == ASSUME Typed, KeyMsg PROVE Typed'
  <1>1. m \in UI /\ CommandsTyped /\ m.cursor \in Nat
    BY DEF Typed, LocalTyped, UI
  <1>2. CASE Tab \/ Up \/ Down
    <2>1. m' \in UI
      <3>1. CASE Tab
        BY <1>1, <3>1 DEF Tab, UI
      <3>2. CASE Up
        <4>1. PICK c \in Nat : m' = [m EXCEPT !.cursor = c]
          BY <1>1, <3>2 DEF Up
        <4> QED BY <1>1, <4>1 DEF UI
      <3>3. CASE Down
        <4>1. PICK c \in Nat : m' = [m EXCEPT !.cursor = c]
          BY <1>1, <3>3 DEF Down
        <4> QED BY <1>1, <4>1 DEF UI
      <3> QED BY <1>2, <3>1, <3>2, <3>3
    <2>2. running' = running /\ cmd' = cmd
      BY <1>2 DEF Tab, Up, Down
    <2> QED BY <1>2, <2>1, <2>2
            DEF KeyMsg, serverVars, Typed, ServerTyped, LocalTyped, CommandsTyped
  <1>3. CASE Refresh
    BY <1>1, <1>3, FreeTyped, StartTyped
       DEF Refresh, KeyMsg, serverVars, Typed, ServerTyped, LocalTyped
  <1>4. CASE Kick
    <2>1. m.sess[m.cursor + 1] \in SessionRow
      BY <1>1, <1>4 DEF Kick, UI
    <2>2. [kind |-> "kick", row |-> m.sess[m.cursor + 1]] \in Action
      BY <2>1 DEF Action
    <2>3. CommandsTyped'
      BY <1>1, <1>4, <2>2, DoTyped, StartTyped DEF Kick
    <2> QED BY <1>4, <2>3 DEF Kick, KeyMsg, serverVars, Typed, ServerTyped, LocalTyped
  <1>5. CASE Toggle
    <2>1. m.ins[m.cursor + 1] \in InstanceRow
      BY <1>1, <1>5 DEF Toggle, UI
    <2>2. [kind |-> "toggle", row |-> m.ins[m.cursor + 1]] \in Action
      BY <2>1 DEF Action
    <2>3. CommandsTyped'
      BY <1>1, <1>5, <2>2, DoTyped, StartTyped DEF Toggle
    <2> QED BY <1>5, <2>3 DEF Toggle, KeyMsg, serverVars, Typed, ServerTyped, LocalTyped
  <1>6. CASE Quit
    BY <1>6, FreeTyped DEF Quit, KeyMsg, serverVars, Typed, ServerTyped, LocalTyped, CommandsTyped
  <1> QED BY <1>2, <1>3, <1>4, <1>5, <1>6 DEF KeyMsg

LEMMA WorldTyped == ASSUME Typed, World PROVE Typed'
  <1>1. ASSUME NEW n \in Names, Change(n) PROVE ServerTyped'
    BY <1>1 DEF Change, Typed, ServerTyped
  <1>2. ASSUME NEW row \in SessionRow, Come(row) \/ Go(row) PROVE ServerTyped'
    BY <1>2 DEF Come, Go, Typed, ServerTyped
  <1>3. ASSUME Lose PROVE ServerTyped'
    <2>1. (~reach) \in BOOLEAN
      OBVIOUS
    <2>2. reach' \in BOOLEAN
      BY <1>3, <2>1, Zenon DEF Lose
    <2>3. inst' = inst /\ sess' = sess
      BY <1>3, Zenon DEF Lose
    <2>4. inst' \in [Names -> {"on", "off", "none"}] /\ sess' \subseteq SessionRow
      BY <2>3 DEF Typed, ServerTyped
    <2> QED BY <2>2, <2>4, Zenon DEF ServerTyped
  <1> QED BY <1>1, <1>2, <1>3 DEF World, Typed, ServerTyped, LocalTyped, CommandsTyped

LEMMA TickTyped == ASSUME Typed, TimerFires \/ TickMsg PROVE Typed'
  <1>1. {timers', ticks'} \subseteq Nat
    BY DEF TimerFires, TickMsg, Typed, LocalTyped
  <1>2. CommandsTyped'
    <2>1. CASE TickMsg
      BY <2>1, FreeTyped, StartTyped DEF TickMsg, Typed
    <2>2. CASE TimerFires
      BY <2>2 DEF TimerFires, Typed, CommandsTyped
    <2> QED BY <2>1, <2>2
  <1> QED BY <1>1, <1>2 DEF TimerFires, TickMsg, serverVars, Typed, ServerTyped, LocalTyped

LEMMA AlwaysTyped == Spec => []Typed
  <1>1. Init => Typed
    BY FreeTyped DEF Init, Typed, ServerTyped, LocalTyped, CommandsTyped, UI, NoStatus
  <1>2. Typed /\ [Next]_vars => Typed'
    <2>1. CASE UNCHANGED vars
      BY <2>1 DEF vars, serverVars, Typed, ServerTyped, LocalTyped, CommandsTyped
    <2> QED BY <2>1, RunTyped, DeliverTyped, KeyTyped, WorldTyped, TickTyped DEF Next
  <1> QED BY <1>1, <1>2, PTL DEF Spec

(* Types (Tui.tla): of the daemon's state, the model and the commands. *)
THEOREM TuiTypeCorrect == Spec => []TypeOK
  <1>1. Typed => TypeOK
    BY DEF Typed, ServerTyped, LocalTyped, CommandsTyped, UI, Command, CommandOK, TypeOK
  <1> QED BY AlwaysTyped, <1>1, PTL
--------------------------------------------------------------------------------
(* The timer *)

(* The timer (Tui.tla): until the program ends there is one timer set or one     *)
(* tick on its way. A timer that fires becomes a tick, a tick sets one timer, and *)
(* no fetch, refresh, action, answer or error does either.                        *)
THEOREM OneTimerAlways == Spec => []OneTimer
  <1> DEFINE One == timers + ticks = 1
  <1>1. Init => One
    BY DEF Init
  <1>2. ASSUME Typed, One, TimerFires \/ TickMsg PROVE One'
    BY <1>2 DEF TimerFires, TickMsg, Typed, LocalTyped
  <1>3. ASSUME Next, ~TimerFires, ~TickMsg PROVE UNCHANGED <<timers, ticks>>
    BY <1>3 DEF Next, World, KeyMsg, Run, AskInstances, AskSessions, Act, Deliver, DataMsg,
           ActionMsg
  <1>4. Typed /\ One /\ [Next]_vars => One'
    BY <1>2, <1>3 DEF vars
  <1>5. One => OneTimer
    BY DEF OneTimer
  <1> HIDE DEF One
  <1> QED BY AlwaysTyped, <1>1, <1>4, <1>5, PTL DEF Spec

--------------------------------------------------------------------------------
(* The cursor *)

LEMMA CursorKept == ASSUME Typed, CursorOnRow, Next PROVE CursorOnRow'
  <1>1. m \in UI /\ CommandsTyped /\ m.cursor \in Nat /\ RowsOf(m) \in Nat
    BY DEF Typed, LocalTyped, UI, RowsOf
  <1>2. CASE m' = m
    BY <1>2 DEF CursorOnRow, RowsOf
  <1>3. ASSUME NEW s \in Slots, DataMsg(s) PROVE CursorOnRow'
    <2>1. cmd[s] \in Command /\ m' = Shown(cmd[s])
      BY <1>1, <1>3 DEF CommandsTyped, DataMsg
    <2> QED BY <1>1, <2>1, ShownTyped DEF CursorOnRow, RowsOf
  <1>4. ASSUME NEW s \in Slots, ActionMsg(s) PROVE CursorOnRow'
    BY <1>1, <1>4 DEF ActionMsg, CursorOnRow, RowsOf, UI
  <1>5. CASE KeyMsg
    <2>1. CASE Tab
      BY <1>1, <2>1 DEF Tab, CursorOnRow, RowsOf, UI
    <2>2. CASE Up
      BY <1>1, <2>2 DEF Up, CursorOnRow, RowsOf, UI
    <2>3. CASE Down
      BY <1>1, <2>3 DEF Down, CursorOnRow, RowsOf, UI
    <2>4. CASE Refresh \/ Kick \/ Toggle \/ Quit
      BY <1>2, <2>4 DEF Refresh, Kick, Toggle, Quit
    <2> QED BY <1>5, <2>1, <2>2, <2>3, <2>4 DEF KeyMsg
  <1>6. World \/ TimerFires \/ TickMsg \/ (\E s \in Slots : Run(s)) => m' = m
    BY DEF World, TimerFires, TickMsg, Run, AskInstances, AskSessions, Act
  <1> QED BY <1>2, <1>3, <1>4, <1>5, <1>6 DEF Next, Deliver

(* The cursor (Tui.tla): on a row of the list in view, or on the first line of *)
(* an empty one, for lists of any length and fetches in any order.             *)
THEOREM CursorAlwaysOnRow == Spec => []CursorOnRow
  <1>1. Init => CursorOnRow
    BY DEF Init, CursorOnRow
  <1>2. Typed /\ CursorOnRow /\ [Next]_vars => CursorOnRow'
    <2>1. CASE UNCHANGED vars
      BY <2>1 DEF vars, CursorOnRow, RowsOf
    <2> QED BY <2>1, CursorKept
  <1> QED BY AlwaysTyped, <1>1, <1>2, PTL DEF Spec

--------------------------------------------------------------------------------
(* The status line *)

(* A command that will report success has been carried out. *)
ReportsTrue ==
    /\ m.status.ok => m.status.of \in acted
    /\ \A s \in Slots :
          cmd[s].pc = "message" /\ cmd[s].of # None /\ cmd[s].ok => cmd[s].of \in acted

LEMMA ReportsStart ==
    ASSUME Typed, ReportsTrue, NEW c, c.pc # "message", Start(c), m' = m, acted' = acted
    PROVE  ReportsTrue'
  <1>1. PICK s \in Slots : cmd' = [cmd EXCEPT ![s] = c]
    BY DEF Start
  <1>2. \A t \in Slots : cmd'[t] = IF t = s THEN c ELSE cmd[t]
    BY <1>1 DEF Typed, CommandsTyped
  <1> QED BY <1>2 DEF ReportsTrue

LEMMA ReportsRun == ASSUME Typed, ReportsTrue, NEW s \in Slots, Run(s) PROVE ReportsTrue'
  <1>1. cmd \in [Slots -> Command] /\ CommandOK(cmd[s])
    BY DEF Typed, CommandsTyped
  <1>2. m' = m /\ acted \subseteq acted'
    BY DEF Run, AskInstances, AskSessions, Act
  <1>3. \A t \in Slots \ {s} : cmd'[t] = cmd[t]
    BY <1>1 DEF Run, AskInstances, AskSessions, Act
  <1>4. CASE AskInstances(s) \/ AskSessions(s)
    <2>1. cmd[s].of = None
      BY <1>1, <1>4 DEF AskInstances, AskSessions, CommandOK
    <2>2. cmd'[s].of = None
      <3>1. CASE AskInstances(s)
        <4>1. \/ cmd' = [cmd EXCEPT ![s].pc = "message"]
              \/ \E q : cmd' = [cmd EXCEPT ![s].pc = "sessions", ![s].ins = q]
          BY <3>1 DEF AskInstances
        <4> QED BY <1>1, <2>1, <4>1 DEF Command
      <3>2. CASE AskSessions(s)
        <4>1. \/ cmd' = [cmd EXCEPT ![s].pc = "message", ![s].ins = << >>]
              \/ \E q : cmd' = [cmd EXCEPT ![s].pc = "message", ![s].sess = q, ![s].ok = TRUE]
          BY <3>2 DEF AskSessions
        <4>2. \A p : cmd' = [cmd EXCEPT ![s] = p] => cmd'[s] = p
          BY <1>1
        <4>3. CASE cmd' = [cmd EXCEPT ![s].pc = "message", ![s].ins = << >>]
          BY <1>1, <2>1, <4>3 DEF Command
        <4>4. ASSUME NEW q, cmd' = [cmd EXCEPT ![s].pc = "message", ![s].sess = q, ![s].ok = TRUE]
              PROVE  cmd'[s].of = None
          <5>1. cmd' = [cmd EXCEPT ![s] = [cmd[s] EXCEPT !.pc = "message", !.sess = q, !.ok = TRUE]]
            BY <4>4
          <5>2. [cmd[s] EXCEPT !.pc = "message", !.sess = q, !.ok = TRUE].of = cmd[s].of
            BY <1>1 DEF Command
          <5> QED BY <2>1, <4>2, <5>1, <5>2
        <4> QED BY <4>1, <4>3, <4>4
      <3> QED BY <1>4, <3>1, <3>2
    <2> QED BY <1>2, <1>3, <2>2 DEF ReportsTrue
  <1>5. CASE Act(s)
    <2>1. ~cmd[s].ok
      BY <1>1, <1>5 DEF Act, CommandOK
    <2>2. cmd'[s].of = cmd[s].of /\ (cmd'[s].ok => cmd[s].of \in acted')
      <3>1. CASE acted' = acted \cup {cmd[s].of} /\ \E ok : cmd' = [cmd EXCEPT ![s].pc = "message", ![s].ok = ok]
        <4>1. PICK ok : cmd' = [cmd EXCEPT ![s].pc = "message", ![s].ok = ok]
          BY <3>1
        <4>2. cmd'[s].of = cmd[s].of
          BY <1>1, <4>1 DEF Command
        <4> QED BY <3>1, <4>2
      <3>2. CASE cmd' = [cmd EXCEPT ![s].pc = "message"]
        BY <1>1, <2>1, <3>2 DEF Command
      <3> QED BY <1>5, <3>1, <3>2 DEF Act
    <2> QED BY <1>2, <1>3, <2>2 DEF ReportsTrue
  <1> QED BY <1>4, <1>5 DEF Run

LEMMA ReportsDeliver == ASSUME Typed, ReportsTrue, NEW s \in Slots, Deliver(s) PROVE ReportsTrue'
  <1>1. cmd \in [Slots -> Command] /\ m \in UI
    BY DEF Typed, CommandsTyped, LocalTyped
  <1>2. acted' = acted /\ cmd'[s].pc # "message" /\ \A t \in Slots \ {s} : cmd'[t] = cmd[t]
    BY <1>1 DEF Deliver, DataMsg, ActionMsg, Free, Fetch
  <1>3. CASE DataMsg(s)
    <2>1. m'.status = m.status
      BY <1>1, <1>3, ShownTyped DEF DataMsg
    <2> QED BY <1>2, <2>1 DEF ReportsTrue
  <1>4. CASE ActionMsg(s)
    <2>1. m'.status = [of |-> cmd[s].of, ok |-> cmd[s].ok]
      BY <1>1, <1>4 DEF ActionMsg, UI
    <2>2. cmd[s].pc = "message" /\ cmd[s].of # None
      BY <1>4 DEF ActionMsg
    <2> QED BY <1>2, <2>1, <2>2 DEF ReportsTrue
  <1> QED BY <1>3, <1>4 DEF Deliver

LEMMA ReportsKept == ASSUME Typed, ReportsTrue, Next PROVE ReportsTrue'
  <1>1. Fetch.pc # "message" /\ \A a : Do(a).pc # "message"
    BY DEF Fetch, Do, Free
  <1>2. CASE World \/ TimerFires
    BY <1>2 DEF World, TimerFires, ReportsTrue
  <1>3. CASE TickMsg
    BY <1>1, <1>3, ReportsStart DEF TickMsg
  <1>4. CASE KeyMsg
    <2>1. m \in UI
      BY DEF Typed, LocalTyped
    <2>2. CASE Tab \/ Up \/ Down
      <3>1. m'.status = m.status /\ cmd' = cmd /\ acted' = acted
        <4>1. CASE Tab
          BY <1>4, <2>1, <4>1 DEF KeyMsg, Tab, UI
        <4>2. CASE Up \/ Down
          <5>1. PICK c : m' = [m EXCEPT !.cursor = c]
            BY <4>2 DEF Up, Down
          <5>2. m'.status = m.status
            BY <2>1, <5>1 DEF UI
          <5> QED BY <1>4, <4>2, <5>2 DEF KeyMsg, Up, Down
        <4> QED BY <2>2, <4>1, <4>2
      <3> QED BY <3>1 DEF ReportsTrue
    <2>3. CASE Refresh \/ Kick \/ Toggle
      BY <1>1, <1>4, <2>3, ReportsStart DEF Refresh, Kick, Toggle, KeyMsg
    <2>4. CASE Quit
      BY <1>4, <2>4 DEF Quit, KeyMsg, Free, ReportsTrue
    <2> QED BY <1>4, <2>2, <2>3, <2>4 DEF KeyMsg
  <1> QED BY <1>2, <1>3, <1>4, ReportsRun, ReportsDeliver DEF Next

(* The status line (Tui.tla): what it reports done, the daemon has done for    *)
(* this program, however many commands are in flight.                          *)
THEOREM StatusAlwaysHonest == Spec => []StatusHonest
  <1>1. Init => ReportsTrue
    BY DEF Init, ReportsTrue, NoStatus, Free, Fetch
  <1>2. Typed /\ ReportsTrue /\ [Next]_vars => ReportsTrue'
    <2>1. CASE UNCHANGED vars
      BY <2>1 DEF vars, ReportsTrue
    <2> QED BY <2>1, ReportsKept
  <1>3. ReportsTrue => StatusHonest
    BY DEF ReportsTrue, StatusHonest
  <1> QED BY AlwaysTyped, <1>1, <1>2, <1>3, PTL DEF Spec
--------------------------------------------------------------------------------
(* What a command does *)

AsAimed(s) ==
    LET a == cmd[s].of
    IN  IF a.kind = "toggle"
        THEN /\ \A n \in Names \ {a.row.name} : inst'[n] = inst[n]
             /\ cmd'[s].ok => inst'[a.row.name] = IF a.row.enabled THEN "off" ELSE "on"
        ELSE inst' = inst /\ sess \ sess' \subseteq {a.row}

LEMMA OnlyActSends ==
    ASSUME Typed, Next, NEW s \in Slots, cmd[s].pc = "send", cmd'[s].pc = "message"
    PROVE  Act(s)
  <1>1. cmd \in [Slots -> Command] /\ cmd'[s] # cmd[s]
    BY DEF Typed, CommandsTyped
  <1>2. ASSUME NEW c, Start(c) PROVE cmd'[s] = cmd[s]
    BY <1>1, <1>2 DEF Start
  <1>3. ~World /\ ~TimerFires /\ ~TickMsg
    BY <1>1, <1>2 DEF World, TimerFires, TickMsg
  <1>4. ~KeyMsg
    BY <1>1, <1>2 DEF KeyMsg, Tab, Up, Down, Refresh, Kick, Toggle, Quit, Free
  <1>5. ASSUME NEW t \in Slots, Deliver(t) PROVE FALSE
    BY <1>1, <1>5 DEF Deliver, DataMsg, ActionMsg
  <1>6. ASSUME NEW t \in Slots, Run(t), t # s PROVE FALSE
    BY <1>1, <1>6 DEF Run, AskInstances, AskSessions, Act
  <1>7. Run(s) => Act(s)
    BY DEF Run, AskInstances, AskSessions
  <1> QED BY <1>3, <1>4, <1>5, <1>6, <1>7 DEF Next

LEMMA ActAims == ASSUME Typed, NEW s \in Slots, Act(s) PROVE AsAimed(s)
  <1> DEFINE a == cmd[s].of
  <1>1. cmd \in [Slots -> Command] /\ CommandOK(cmd[s]) /\ inst \in [Names -> {"on", "off", "none"}]
    BY DEF Typed, CommandsTyped, ServerTyped
  <1>2. a \in Action /\ ~cmd[s].ok
    BY <1>1 DEF Act, CommandOK, Command
  <1>3. CASE Carries(a)
    <2>1. CASE a.kind = "toggle"
      <3>1. a.row.name \in Names
        BY <1>2, <2>1 DEF Action, InstanceRow
      <3>2. inst' = [inst EXCEPT ![a.row.name] = IF a.row.enabled THEN "off" ELSE "on"]
        BY <1>3, <2>1 DEF Carries
      <3> HIDE DEF a
      <3>3. /\ \A n \in Names \ {a.row.name} : inst'[n] = inst[n]
            /\ inst'[a.row.name] = IF a.row.enabled THEN "off" ELSE "on"
        BY <1>1, <3>1, <3>2
      <3> QED BY <2>1, <3>3 DEF AsAimed, a
    <2>2. CASE a.kind # "toggle"
      BY <1>3, <2>2 DEF Carries, AsAimed
    <2> QED BY <2>1, <2>2
  <1>4. CASE /\ cmd' = [cmd EXCEPT ![s].pc = "message"]
             /\ UNCHANGED <<inst, sess, acted>>
    <2>1. cmd'[s].ok = cmd[s].ok
      BY <1>1, <1>4 DEF Command
    <2> QED BY <1>2, <1>4, <2>1 DEF AsAimed
  <1> QED BY <1>3, <1>4 DEF Act

(* What the keys do (Tui.tla): a command acts on the row that was under the    *)
(* cursor when the key was pressed and on no other, and an instance that is    *)
(* reported switched has come to be what the row did not say.                  *)
THEOREM AlwaysActsAsAimed == Spec => ActsAsAimed
  <1> DEFINE Step == \A s \in Slots : cmd[s].pc = "send" /\ cmd'[s].pc = "message" => AsAimed(s)
  <1>1. Typed /\ [Next]_vars => [Step]_vars
    BY OnlyActSends, ActAims
  <1>2. Spec => [][Step]_vars
    <2> HIDE DEF Step
    <2> QED BY AlwaysTyped, <1>1, PTL DEF Spec
  <1> QED BY <1>2 DEF ActsAsAimed, AsAimed

--------------------------------------------------------------------------------
(* Every command comes to an end, as far as that is not a matter of fairness, and *)
(* what a key asks for is asked once.                                             *)

(* What a command has still to do; an action ends as a fetch, and a fetch ends. *)
StepsLeft(c) ==
    CASE c.pc = "send" -> 5 [] c.pc = "message" -> (IF c.of # None THEN 4 ELSE 1)
      [] c.pc = "instances" -> 3 [] c.pc = "sessions" -> 2 [] OTHER -> 0

GoesOn(s) ==
    cmd'[s] # cmd[s] =>
        \/ cmd[s].pc = "none"
        \/ StepsLeft(cmd'[s]) < StepsLeft(cmd[s]) /\ cmd'[s].of \in {cmd[s].of, None}

(* The daemon does nothing for this program but what the command of a key sends. *)
Sends ==
    acted' # acted =>
        \E s \in Slots : /\ cmd[s].pc = "send" /\ cmd'[s].pc = "message"
                         /\ acted' = acted \cup {cmd[s].of}

(* No command goes back, and none but a key's has anything done. *)
SentOnce == [][(\A s \in Slots : GoesOn(s)) /\ Sends]_vars

(* A step that moves the command in one slot. *)
LEMMA OthersWait ==
    ASSUME Typed, NEW s \in Slots, Run(s) \/ Deliver(s), NEW t \in Slots, t # s
    PROVE  cmd'[t] = cmd[t]
  BY DEF Typed, CommandsTyped, Run, AskInstances, AskSessions, Act, Deliver, DataMsg, ActionMsg

LEMMA OwnGoesOn ==
    ASSUME Typed, NEW s \in Slots, Run(s) \/ Deliver(s) PROVE GoesOn(s)
  <1>1. cmd \in [Slots -> Command] /\ CommandOK(cmd[s])
    BY DEF Typed, CommandsTyped
  <1>2. CASE AskInstances(s)
    BY <1>1, <1>2 DEF AskInstances, Command, CommandOK, GoesOn, StepsLeft
  <1>3. CASE AskSessions(s)
    <2>1. cmd[s].pc = "sessions" /\ cmd[s].of = None
      BY <1>1, <1>3 DEF AskSessions, CommandOK
    <2>2. cmd'[s].pc = "message" /\ cmd'[s].of = None
      <3>1. ASSUME NEW q, cmd' = [cmd EXCEPT ![s].pc = "message", ![s].sess = q, ![s].ok = TRUE]
            PROVE  cmd'[s].pc = "message" /\ cmd'[s].of = None
        BY <1>1, <2>1, <3>1 DEF Command
      <3>2. ASSUME cmd' = [cmd EXCEPT ![s].pc = "message", ![s].ins = << >>]
            PROVE  cmd'[s].pc = "message" /\ cmd'[s].of = None
        BY <1>1, <2>1, <3>2 DEF Command
      <3> QED BY <1>3, <3>1, <3>2 DEF AskSessions
    <2> QED BY <2>1, <2>2 DEF GoesOn, StepsLeft
  <1>4. CASE Act(s)
    BY <1>1, <1>4 DEF Act, Command, CommandOK, GoesOn, StepsLeft
  <1>5. CASE DataMsg(s)
    BY <1>1, <1>5 DEF DataMsg, Free, GoesOn, StepsLeft
  <1>6. CASE ActionMsg(s)
    <2>1. cmd[s].pc = "message" /\ cmd[s].of # None
      BY <1>6 DEF ActionMsg
    <2>2. cmd'[s].pc = "instances" /\ cmd'[s].of = None
      BY <1>1, <1>6 DEF ActionMsg, Fetch, Free
    <2> QED BY <2>1, <2>2 DEF GoesOn, StepsLeft
  <1> QED BY <1>2, <1>3, <1>4, <1>5, <1>6 DEF Run, Deliver

LEMMA RunSends == ASSUME Typed, NEW s \in Slots, Run(s) PROVE Sends
  <1>1. CASE AskInstances(s)
    BY <1>1 DEF AskInstances, Sends
  <1>2. CASE AskSessions(s)
    BY <1>2 DEF AskSessions, Sends
  <1>3. CASE Act(s)
    <2>1. cmd \in [Slots -> Command] /\ cmd[s].pc = "send"
      BY <1>3 DEF Typed, CommandsTyped, Act
    <2>2. ASSUME NEW ok, cmd' = [cmd EXCEPT ![s].pc = "message", ![s].ok = ok]
          PROVE  cmd'[s].pc = "message"
      BY <2>1, <2>2 DEF Command
    <2> QED BY <1>3, <2>1, <2>2 DEF Act, Sends
  <1> QED BY <1>1, <1>2, <1>3 DEF Run

(* A slot is taken only when it is free, and a quit frees them all. *)
LEMMA KeyGoesOn ==
    ASSUME Typed, KeyMsg \/ TickMsg, NEW s \in Slots PROVE GoesOn(s)
  <1>1. cmd \in [Slots -> Command]
    BY DEF Typed, CommandsTyped
  <1>2. ASSUME NEW c, Start(c) PROVE GoesOn(s)
    BY <1>1, <1>2 DEF Start, GoesOn
  <1>3. CASE Quit
    <2>1. cmd'[s] = Free /\ StepsLeft(Free) = 0 /\ Free.of = None
      BY <1>3 DEF Quit, Free, StepsLeft
    <2>2. cmd[s].pc # "none" => StepsLeft(cmd[s]) > 0
      BY <1>1 DEF Command, StepsLeft
    <2> QED BY <2>1, <2>2 DEF GoesOn
  <1>4. CASE UNCHANGED cmd
    BY <1>4 DEF GoesOn
  <1> QED BY <1>2, <1>3, <1>4 DEF KeyMsg, TickMsg, Tab, Up, Down, Refresh, Kick, Toggle

(* One key, one call at most: an action that was sent is never sent again, be its *)
(* answer late, lost or an error, and what follows it is one fetch.               *)
THEOREM ActionsSentOnce == Spec => SentOnce
  <1> DEFINE Step == (\A s \in Slots : GoesOn(s)) /\ Sends
  <1>1. ASSUME Typed, Next PROVE Step
    <2>1. ASSUME NEW s \in Slots, Run(s) \/ Deliver(s) PROVE Step
      <3>1. ASSUME NEW t \in Slots PROVE GoesOn(t)
        <4>1. CASE t = s
          BY <1>1, <2>1, <4>1, OwnGoesOn
        <4>2. CASE t # s
          BY <1>1, <2>1, <4>2, OthersWait DEF GoesOn
        <4> QED BY <4>1, <4>2
      <3>2. CASE Run(s)
        BY <1>1, <3>1, <3>2, RunSends
      <3>3. CASE Deliver(s)
        BY <3>1, <3>3 DEF Deliver, DataMsg, ActionMsg, Sends
      <3> QED BY <2>1, <3>2, <3>3
    <2>2. CASE KeyMsg \/ TickMsg
      <3>1. acted' = acted
        BY <2>2 DEF KeyMsg, TickMsg
      <3> QED BY <1>1, <2>2, <3>1, KeyGoesOn DEF Sends
    <2>3. CASE World \/ TimerFires
      BY <2>3 DEF World, TimerFires, GoesOn, Sends
    <2> QED BY <1>1, <2>1, <2>2, <2>3 DEF Next
  <1>2. Typed /\ [Next]_vars => [Step]_vars
    BY <1>1
  <1>3. Spec => [][Step]_vars
    <2> HIDE DEF Step
    <2> QED BY AlwaysTyped, <1>2, PTL DEF Spec
  <1> QED BY <1>3 DEF SentOnce
================================================================================
