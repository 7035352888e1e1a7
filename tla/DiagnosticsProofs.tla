------------------------- MODULE DiagnosticsProofs -------------------------
(* Theorems about Diagnostics, for any files, capacity and bounds.         *)
EXTENDS Diagnostics, TLAPS, SequenceTheorems, FiniteSetTheorems

-----------------------------------------------------------------------------
(* The inductive invariant.                                                *)

Up(w) == window[w] # "gone"
Active(w) == handler[w] \notin {"none", "done"}

\* Only one window is left, and only the goroutines of dw's window run.
WindowsInv ==
    /\ \A v, w \in DOMAIN window : Up(v) /\ Up(w) => v = w
    /\ \A w \in Wins : Active(w) => w = win /\ ~dead

\* Who holds dw.mu, and whose window has no name yet: that of a dead dw.
MutexInv ==
    /\ coll = "name" => /\ mu = "collector" /\ dead
                        /\ window # <<>> /\ window[Len(window)] = "new"
    /\ \A w \in Wins : handler[w] \in {"close", "dead"} => mu = "handler"
    /\ \A w \in DOMAIN window : window[w] = "new" => coll = "name"

\* An event that is handed over has been read.
EventsInv == \A w \in Wins : reader[w] = "send" => events[w] # <<>>

\* The collector writes to a window, which it has cleared.
ShownInv ==
    /\ coll \in {"clear", "write"} => win # 0
    /\ coll = "write" /\ Up(win) => body[win] = {}
    /\ ShownIsCollected

Inv == TypeOK /\ WindowsInv /\ MutexInv /\ EventsInv /\ ShownInv

-----------------------------------------------------------------------------
(* The windows and their texts are sequences.                              *)

States == {"new", "named", "gone"}
Texts == SUBSET (Files \X (1..MaxDiags))

LEMMA WinTypes ==
    ASSUME TypeOK
    PROVE  /\ DOMAIN window = 1..Len(window) /\ DOMAIN body = DOMAIN window
           /\ Len(window) \in Nat /\ DOMAIN window \subseteq Wins
           /\ window \in Seq(States) /\ body \in Seq(Texts)
           /\ \A w \in DOMAIN window : window[w] \in States /\ w \in Wins /\ w # 0
  <1>1. window \in Seq(States) /\ Len(window) <= MaxWins /\ MaxWins \in Nat
    BY DiagnosticsAssumption DEF TypeOK, States
  <1>2. Len(window) \in Nat /\ DOMAIN window = 1..Len(window)
    BY <1>1, LenProperties
  <1>3. \A w \in DOMAIN window : window[w] \in States
    BY <1>1, <1>2, ElementOfSeq
  <1>4. body \in Seq(Texts) /\ DOMAIN body = DOMAIN window
    BY <1>2, LenProperties DEF TypeOK, Texts
  <1> QED
    BY <1>1, <1>2, <1>3, <1>4 DEF Wins

\* Changing the state of one window.
LEMMA Changed ==
    ASSUME TypeOK, NEW w \in DOMAIN window, NEW s \in States,
           window' = [window EXCEPT ![w] = s]
    PROVE  /\ window' \in Seq(States) /\ Len(window') = Len(window)
           /\ DOMAIN window' = DOMAIN window
           /\ \A v \in DOMAIN window : window'[v] = IF v = w THEN s ELSE window[v]
  BY WinTypes, ExceptSeq

-----------------------------------------------------------------------------
(* Types.                                                                  *)

LEMMA Zeroes ==
    /\ 0 \in 0..MaxDiags /\ 0 \in 0..MaxPublish /\ 0 \in 0..MaxCommands
    /\ Nothing \in [Files -> 0..MaxDiags] /\ \A S : <<>> \in Seq(S) /\ Len(<<>>) = 0
    /\ Capacity \in Nat /\ MaxWins \in Nat
  BY DiagnosticsAssumption, EmptySeq DEF Nothing

LEMMA InitTypeOK == Init => TypeOK
  <1> SUFFICES ASSUME Init PROVE TypeOK
    OBVIOUS
  <1>1. /\ window \in Seq({"new", "named", "gone"}) /\ Len(window) <= MaxWins
        /\ body \in Seq(SUBSET (Files \X (1..MaxDiags))) /\ Len(body) = Len(window)
        /\ paramsChan \in Seq(Files \X (0..MaxDiags)) /\ Len(paramsChan) <= Capacity
        /\ win \in 0..Len(window)
    BY Zeroes DEF Init
  <1>2. events \in [Wins -> Seq(Commands)]
    BY Zeroes DEF Init
  <1>3. used \in [publish : 0..MaxPublish, commands : 0..MaxCommands]
    BY Zeroes DEF Init
  <1>4. diags \in [Files -> 0..MaxDiags] /\ latest \in [Files -> 0..MaxDiags]
    BY Zeroes DEF Init
  <1>5. /\ handler \in [Wins -> {"none", "range", "reload", "del", "close", "dead", "done"}]
        /\ reader \in [Wins -> {"none", "check", "gete", "read", "send", "last", "done"}]
    BY DEF Init
  <1> QED
    BY <1>1, <1>2, <1>3, <1>4, <1>5 DEF Init, TypeOK

\* Counting one more use of a bound that is not exhausted.
LEMMA BudgetTypes ==
    ASSUME TypeOK
    PROVE  /\ used.publish < MaxPublish =>
                [used EXCEPT !.publish = @ + 1] \in [publish : 0..MaxPublish, commands : 0..MaxCommands]
           /\ used.commands < MaxCommands =>
                [used EXCEPT !.commands = @ + 1] \in [publish : 0..MaxPublish, commands : 0..MaxCommands]
  <1>1. used.publish \in 0..MaxPublish /\ used.commands \in 0..MaxCommands
    BY DEF TypeOK
  <1>2. /\ used.publish < MaxPublish => used.publish + 1 \in 0..MaxPublish
        /\ used.commands < MaxCommands => used.commands + 1 \in 0..MaxCommands
    BY <1>1, DiagnosticsAssumption
  <1> QED
    BY <1>1, <1>2 DEF TypeOK

\* What the collector writes.
LEMMA LinesType == ASSUME TypeOK PROVE Lines(diags) \in Texts
  BY DiagnosticsAssumption DEF TypeOK, Lines, Texts

LEMMA WritesType ==
    ASSUME TypeOK, win # 0, NEW text \in Texts, Writes(text)
    PROVE  /\ body' \in Seq(Texts) /\ Len(body') = Len(window)
           /\ Up(win) => body'[win] = text
           /\ \A w \in DOMAIN window \ {win} : body'[w] = body[w]
  <1>1. win \in DOMAIN window /\ win \in 1..Len(body)
    BY WinTypes DEF TypeOK
  <1>2. body \in Seq(Texts) /\ DOMAIN window = 1..Len(body) /\ Len(body) = Len(window)
    BY WinTypes DEF TypeOK
  <1> QED
    BY <1>1, <1>2, ExceptSeq DEF Writes, Up

LEMMA PublishTypes == ASSUME TypeOK, NEW f \in Files, NEW d \in 0..MaxDiags, Publish(f, d) PROVE TypeOK'
  <1>1. used' \in [publish : 0..MaxPublish, commands : 0..MaxCommands]
    BY BudgetTypes DEF Publish
  <1>2. paramsChan' \in Seq(Files \X (0..MaxDiags)) /\ Len(paramsChan') <= Capacity
    BY DiagnosticsAssumption, AppendProperties, LenProperties DEF Publish, TypeOK
  <1> QED
    BY <1>1, <1>2 DEF Publish, TypeOK, collector, winRoutines

LEMMA ExecuteTypes == ASSUME TypeOK, NEW w \in DOMAIN window, NEW c \in Commands, Execute(w, c) PROVE TypeOK'
  <1>1. used' \in [publish : 0..MaxPublish, commands : 0..MaxCommands]
    BY BudgetTypes DEF Execute
  <1>2. window' \in Seq(States) /\ Len(window') = Len(window) /\ DOMAIN window' = DOMAIN window
    BY Changed, WinTypes DEF Execute, States
  <1>3. events' \in [Wins -> Seq(Commands)]
    <2>1. w \in Wins /\ Append(events[w], c) \in Seq(Commands)
      BY WinTypes, AppendProperties DEF TypeOK
    <2> QED
      BY <2>1 DEF Execute, TypeOK
  <1> QED
    BY <1>1, <1>2, <1>3 DEF Execute, TypeOK, States, diagWin, collector, winRoutines

LEMMA CollectTypes == ASSUME TypeOK, Collect PROVE TypeOK'
  <1>1. /\ Head(paramsChan) \in Files \X (0..MaxDiags)
        /\ paramsChan' \in Seq(Files \X (0..MaxDiags)) /\ Len(paramsChan') <= Capacity
    <2>1. paramsChan # <<>> /\ paramsChan \in Seq(Files \X (0..MaxDiags)) /\ Len(paramsChan) <= Capacity
      BY DEF Collect, TypeOK
    <2>2. /\ Head(paramsChan) \in Files \X (0..MaxDiags) /\ Tail(paramsChan) \in Seq(Files \X (0..MaxDiags))
          /\ Len(Tail(paramsChan)) = Len(paramsChan) - 1 /\ Len(paramsChan) \in Nat
      BY <2>1, HeadTailProperties, LenProperties
    <2> QED
      BY <2>1, <2>2, Zeroes DEF Collect
  <1>2. diags' \in [Files -> 0..MaxDiags] /\ needsUpdate' \in BOOLEAN
    BY <1>1 DEF Collect, TypeOK
  <1> QED
    BY <1>1, <1>2 DEF Collect, TypeOK, acme, winRoutines

\* A window that gets its goroutines.
LEMMA WatchTypes ==
    ASSUME TypeOK, NEW w \in Wins, Watch(w)
    PROVE  /\ win' = w /\ dead' = FALSE /\ coll' = "clear"
           /\ handler' \in [Wins -> {"none", "range", "reload", "del", "close", "dead", "done"}]
           /\ reader' \in [Wins -> {"none", "check", "gete", "read", "send", "last", "done"}]
  BY DEF TypeOK, Watch

LEMMA CollectingTypes == ASSUME Inv, Collecting PROVE TypeOK'
  <1> USE DEF Inv
  <1>1. CASE Collect
    BY <1>1, CollectTypes
  <1>2. CASE Tick \/ StillThere
    BY <1>2 DEF Tick, StillThere, TypeOK, acme, diagWin, winRoutines
  <1>3. ASSUME NEW w \in Wins, Reload(w) PROVE TypeOK'
    BY <1>3 DEF Reload, TypeOK, acme, diagWin
  <1>4. ASSUME NEW w \in Wins, Hijack(w) PROVE TypeOK'
    <2>1. w \in DOMAIN window /\ w # 0 /\ w \in 0..Len(window)
      BY <1>4, WinTypes DEF Hijack, Named
    <2> QED
      BY <1>4, <2>1, WatchTypes DEF Hijack, TypeOK, acme
  <1>5. CASE NewWin
    <2>1. /\ window' \in Seq(States) /\ Len(window') = Len(window) + 1
          /\ body' \in Seq(Texts) /\ Len(body') = Len(body) + 1
      BY <1>5, WinTypes, AppendProperties DEF NewWin, States, Texts
    <2>2. Len(window') <= MaxWins /\ DOMAIN window' = 1..Len(window') /\ DOMAIN window \subseteq DOMAIN window'
      BY <1>5, <2>1, WinTypes, LenProperties, DiagnosticsAssumption DEF NewWin
    <2>3. win' \in 0..Len(window')
      BY <1>5, <2>1, WinTypes DEF NewWin, TypeOK
    <2> QED
      BY <1>5, <2>1, <2>2, <2>3 DEF NewWin, TypeOK, States, Texts, winRoutines
  <1>6. CASE Name
    <2>1. Len(window) \in DOMAIN window
      BY <1>6, WinTypes, EmptySeq DEF Name, MutexInv
    <2>2. window' \in Seq(States) /\ Len(window') = Len(window) /\ DOMAIN window' = DOMAIN window
      BY <1>6, <2>1, Changed DEF Name, States
    <2>3. Len(window) \in Wins /\ Len(window) # 0 /\ Len(window) \in 0..Len(window')
      BY <2>1, <2>2, WinTypes
    <2> QED
      BY <1>6, <2>1, <2>2, <2>3, WatchTypes DEF Name, TypeOK, States
  <1>7. CASE Clear
    BY <1>7, WritesType, WinTypes DEF Clear, TypeOK, ShownInv, Texts, diagWin, winRoutines
  <1>8. CASE Write
    <2>1. win \in DOMAIN window /\ body[win] \in Texts
      BY <1>8, WinTypes, ElementOfSeq DEF Write, TypeOK, ShownInv
    <2> QED
      BY <1>8, <2>1, WritesType, LinesType, WinTypes DEF Write, TypeOK, ShownInv, Texts, diagWin, winRoutines
  <1> QED
    BY <1>1, <1>2, <1>3, <1>4, <1>5, <1>6, <1>7, <1>8 DEF Collecting

LEMMA ExecTypes == ASSUME TypeOK, Exec PROVE TypeOK'
  <1>1. /\ paramsChan' \in Seq(Files \X (0..MaxDiags)) /\ Len(paramsChan') <= Capacity
        /\ win' \in 0..Len(window) /\ eventFid' \subseteq DOMAIN window
    BY WinTypes, Zeroes DEF Exec
  <1>2. diags' \in [Files -> 0..MaxDiags] /\ latest' \in [Files -> 0..MaxDiags]
    BY Zeroes DEF Exec
  <1>3. events' \in [Wins -> Seq(Commands)]
    BY Zeroes DEF Exec
  <1> QED
    BY <1>1, <1>2, <1>3 DEF Exec, TypeOK

LEMMA HandlingTypes == ASSUME Inv, NEW w \in DOMAIN window, Handling(w) PROVE TypeOK'
  <1> USE DEF Inv
  <1>w. w \in Wins
    BY WinTypes
  <1>1. CASE Handle(w)
    <2>1. events[w] # <<>> /\ events[w] \in Seq(Commands)
      BY <1>1, <1>w DEF Handle, EventsInv, TypeOK
    <2>2. Head(events[w]) \in Commands /\ Tail(events[w]) \in Seq(Commands)
      BY <2>1, HeadTailProperties
    <2>3. window' \in Seq(States) /\ Len(window') = Len(window) /\ DOMAIN window' = DOMAIN window
      BY <1>1, Changed, WinTypes DEF Handle, States
    <2> QED
      BY <1>1, <1>w, <2>1, <2>2, <2>3 DEF Handle, TypeOK, States, diagWin, collector
  <1>2. CASE HandleRestart(w)
    BY <1>2, ExecTypes DEF HandleRestart
  <1>3. CASE Del(w)
    <2>1. win \in DOMAIN window
      BY <1>3, <1>w DEF Del, WindowsInv, Active
    <2>2. window' \in Seq(States) /\ Len(window') = Len(window) /\ DOMAIN window' = DOMAIN window
      BY <1>3, <2>1, Changed DEF Del, States
    <2> QED
      BY <1>3, <2>2 DEF Del, TypeOK, States, collector
  <1>4. CASE CloseFiles(w)
    BY <1>4 DEF CloseFiles, TypeOK, acme, diagWin, collector
  <1>5. CASE Dead(w)
    BY <1>5 DEF Dead, TypeOK, acme, collector
  <1> QED
    BY <1>1, <1>2, <1>3, <1>4, <1>5 DEF Handling

LEMMA ReadingTypes == ASSUME Inv, NEW w \in DOMAIN window, Reading(w) PROVE TypeOK'
  BY WinTypes DEF Inv, Reading, ReadEvent, Gete, GotEvent, ReadFails, LastEvent, TypeOK, acme, diagWin, collector

LEMMA NextTypes == ASSUME Inv, [Next]_vars PROVE TypeOK'
  <1>1. CASE Next
    BY <1>1, PublishTypes, ExecuteTypes, CollectingTypes, HandlingTypes, ReadingTypes DEF Next, Inv
  <1>2. CASE UNCHANGED vars
    BY <1>2 DEF vars, Inv, TypeOK
  <1> QED
    BY <1>1, <1>2

-----------------------------------------------------------------------------
(* The windows and the goroutines.                                         *)

Control == WindowsInv /\ MutexInv /\ EventsInv

LEMMA InitControl == Init => Control
  BY EmptySeq DEF Init, Control, WindowsInv, MutexInv, EventsInv, Active

\* Steps that leave the windows, the lock and the goroutines alone.
LEMMA ControlStays ==
    ASSUME Control, UNCHANGED <<window, handler, reader, events, win, dead, mu>>,
           (coll' = "name") = (coll = "name")
    PROVE  Control'
  BY DEF Control, WindowsInv, MutexInv, EventsInv, Active, Up

LEMMA ExecuteControl == ASSUME Inv, NEW w \in DOMAIN window, NEW c \in Commands, Execute(w, c) PROVE Control'
  <1> USE DEF Inv
  <1>1. CASE w \in eventFid
    <2>1. \A v \in Wins : events[v] # <<>> => events'[v] # <<>>
      <3>1. w \in Wins /\ Append(events[w], c) # <<>>
        <4>1. w \in Wins /\ events[w] \in Seq(Commands)
          BY WinTypes DEF TypeOK
        <4> QED
          BY <4>1, AppendProperties
      <3>2. events' = [events EXCEPT ![w] = Append(events[w], c)]
        BY <1>1 DEF Execute
      <3> QED
        BY <3>1, <3>2 DEF TypeOK
    <2> QED
      BY <1>1, <2>1 DEF Execute, Control, WindowsInv, MutexInv, EventsInv, Active, Up, diagWin, collector, winRoutines
  <1>2. CASE w \notin eventFid
    <2>1. window' = window \/ window' = [window EXCEPT ![w] = "gone"]
      BY <1>2 DEF Execute
    <2>2. /\ DOMAIN window' = DOMAIN window /\ Len(window') = Len(window)
          /\ \A v \in DOMAIN window : window'[v] = window[v] \/ (v = w /\ window'[v] = "gone")
      BY <2>1, Changed DEF States
    <2>3. coll = "name" => window'[Len(window)] = "new" /\ window' # <<>>
      BY <2>2, WinTypes, EmptySeq, <1>2 DEF Execute, MutexInv
    <2> QED
      BY <1>2, <2>2, <2>3 DEF Execute, Control, WindowsInv, MutexInv, EventsInv, Active, Up, diagWin, collector, winRoutines
  <1> QED
    BY <1>1, <1>2

\* A window gets its goroutines when no other has any that run.
LEMMA WatchControl ==
    ASSUME TypeOK, WindowsInv, dead, NEW w \in Wins, Watch(w)
    PROVE  /\ \A v \in Wins : Active(v)' => v = w
           /\ \A v \in Wins : handler'[v] \notin {"close", "dead"}
           /\ \A v \in Wins : reader'[v] = "send" => reader[v] = "send"
  BY DEF TypeOK, WindowsInv, Active, Watch

LEMMA CollectingControl == ASSUME Inv, Collecting PROVE Control'
  <1> USE DEF Inv
  <1>1. CASE Collect \/ Tick \/ StillThere \/ Clear \/ Write
    BY <1>1, ControlStays DEF Control, Collect, Tick, StillThere, Clear, Write, acme, diagWin, winRoutines
  <1>2. ASSUME NEW w \in Wins, Reload(w) PROVE Control'
    BY <1>2 DEF Reload, TypeOK, Control, WindowsInv, MutexInv, EventsInv, Active, Up, acme, diagWin
  <1>3. ASSUME NEW w \in Wins, Hijack(w) PROVE Control'
    BY <1>3, WatchControl, WatchTypes DEF Hijack, Control, WindowsInv, MutexInv, EventsInv, Active, Up, acme
  <1>4. CASE NewWin
    <2>1. /\ window' \in Seq(States) /\ window' # <<>> /\ DOMAIN window' = DOMAIN window \cup {Len(window')}
          /\ window'[Len(window')] = "new" /\ \A v \in DOMAIN window : window'[v] = window[v]
      BY <1>4, WinTypes, AppendProperties, LenProperties DEF NewWin, States
    <2>2. \A v \in DOMAIN window : window[v] = "gone"
      BY <1>4, WinTypes DEF NewWin, Named, States, MutexInv
    <2>3. \A v \in Wins : ~Active(v)
      BY <1>4 DEF NewWin, WindowsInv
    <2> QED
      BY <1>4, <2>1, <2>2, <2>3 DEF NewWin, Control, WindowsInv, MutexInv, EventsInv, Active, Up, winRoutines
  <1>5. CASE Name
    <2>1. Len(window) \in DOMAIN window /\ Len(window) \in Wins
      BY <1>5, WinTypes, EmptySeq DEF Name, MutexInv
    <2>2. /\ DOMAIN window' = DOMAIN window
          /\ \A v \in DOMAIN window : window'[v] = IF v = Len(window) THEN "named" ELSE window[v]
      BY <1>5, <2>1, Changed DEF Name, States
    <2>3. \A v \in DOMAIN window : v # Len(window) => window[v] = "gone"
      BY <1>5, <2>1 DEF Name, MutexInv, WindowsInv, Up
    <2> QED
      BY <1>5, <2>1, <2>2, <2>3, WatchControl, WatchTypes
      DEF Name, Control, WindowsInv, MutexInv, EventsInv, Active, Up
  <1> QED
    BY <1>1, <1>2, <1>3, <1>4, <1>5 DEF Collecting

\* Deleting windows, when none is about to get its name.
LEMMA DeletedControl ==
    ASSUME WindowsInv, MutexInv, coll # "name", DOMAIN window' = DOMAIN window,
           \A v \in DOMAIN window : window'[v] = window[v] \/ window'[v] = "gone"
    PROVE  /\ \A u, v \in DOMAIN window' : Up(u)' /\ Up(v)' => u = v
           /\ \A v \in DOMAIN window' : window'[v] # "new"
  BY DEF WindowsInv, MutexInv, Up

LEMMA HandlingControl == ASSUME Inv, NEW w \in DOMAIN window, Handling(w) PROVE Control'
  <1> USE DEF Inv
  <1>w. w \in Wins
    BY WinTypes
  <1>1. CASE Handle(w)
    <2>1. coll # "name" /\ w = win /\ ~dead
      BY <1>1, <1>w DEF Handle, WindowsInv, MutexInv, Active
    <2>2. DOMAIN window' = DOMAIN window /\ \A v \in DOMAIN window : window'[v] = window[v] \/ window'[v] = "gone"
      BY <1>1, Changed DEF Handle, States
    <2>3. /\ \A v \in Wins : handler'[v] # handler[v] => v = w /\ handler'[v] \in {"del", "reload", "range"}
          /\ \A v \in Wins : reader'[v] = "send" => reader[v] = "send" /\ v # w
          /\ \A v \in Wins : v # w => events'[v] = events[v]
      BY <1>1, <1>w DEF Handle, TypeOK
    <2> QED
      BY <1>1, <1>w, <2>1, <2>2, <2>3, DeletedControl
      DEF Handle, Control, WindowsInv, MutexInv, EventsInv, Active, diagWin, collector
  <1>2. CASE HandleRestart(w)
    <2>1. coll # "name"
      BY <1>2, <1>w DEF HandleRestart, WindowsInv, MutexInv, Active
    <2>2. \A v \in Wins : ~Active(v)' /\ handler'[v] = "none" /\ reader'[v] = "none"
      BY <1>2 DEF HandleRestart, Exec, Active
    <2> QED
      BY <1>2, <2>1, <2>2 DEF HandleRestart, Exec, Control, WindowsInv, MutexInv, EventsInv, Up
  <1>3. CASE Del(w)
    <2>1. coll # "name" /\ win \in DOMAIN window /\ w = win
      BY <1>3, <1>w DEF Del, WindowsInv, MutexInv, Active
    <2>2. DOMAIN window' = DOMAIN window /\ \A v \in DOMAIN window : window'[v] = window[v] \/ window'[v] = "gone"
      BY <1>3, <2>1, Changed DEF Del, States
    <2>3. \A v \in Wins : handler'[v] # handler[v] => v = w
      BY <1>3, <1>w DEF Del, TypeOK
    <2> QED
      BY <1>3, <1>w, <2>1, <2>2, <2>3, DeletedControl
      DEF Del, Control, WindowsInv, MutexInv, EventsInv, Active, collector
  <1>4. CASE CloseFiles(w)
    <2>1. \A v \in Wins : handler'[v] # handler[v] => v = w
      BY <1>4, <1>w DEF CloseFiles, TypeOK
    <2> QED
      BY <1>4, <1>w, <2>1 DEF CloseFiles, Control, WindowsInv, MutexInv, EventsInv, Active, Up, acme, diagWin, collector
  <1>5. CASE Dead(w)
    <2>1. coll # "name" /\ w = win
      BY <1>5, <1>w DEF Dead, WindowsInv, MutexInv, Active
    <2>2. \A v \in Wins : handler'[v] = IF v = w THEN "done" ELSE handler[v]
      BY <1>5, <1>w DEF Dead, TypeOK
    <2>3. \A v \in Wins : ~Active(v)' /\ handler'[v] \notin {"close", "dead"}
      BY <2>1, <2>2 DEF WindowsInv, Active
    <2> QED
      BY <1>5, <2>1, <2>3 DEF Dead, Control, WindowsInv, MutexInv, EventsInv, Up, acme, collector
  <1> QED
    BY <1>1, <1>2, <1>3, <1>4, <1>5 DEF Handling

LEMMA ReadingControl == ASSUME Inv, NEW w \in DOMAIN window, Reading(w) PROVE Control'
  <1> USE DEF Inv
  <1>w. w \in Wins
    BY WinTypes
  <1>1. \A v \in Wins : reader'[v] = "send" => events[v] # <<>>
    BY <1>w DEF Reading, ReadEvent, Gete, GotEvent, ReadFails, LastEvent, TypeOK, EventsInv
  <1>2. \A v \in Wins : handler'[v] # handler[v] => Active(v) /\ handler'[v] = "del"
    BY <1>w DEF Reading, ReadEvent, Gete, GotEvent, ReadFails, LastEvent, TypeOK, Active
  <1>3. UNCHANGED <<acme, diagWin, collector>>
    BY DEF Reading, ReadEvent, Gete, GotEvent, ReadFails, LastEvent
  <1> QED
    BY <1>1, <1>2, <1>3 DEF Control, WindowsInv, MutexInv, EventsInv, Active, Up, acme, diagWin, collector

LEMMA NextControl == ASSUME Inv, [Next]_vars PROVE Control'
  <1>1. ASSUME NEW f \in Files, NEW d \in 0..MaxDiags, Publish(f, d) PROVE Control'
    BY <1>1, ControlStays DEF Inv, Control, Publish, collector, winRoutines
  <1>2. CASE UNCHANGED vars
    BY <1>2, ControlStays DEF vars, Inv, Control
  <1> QED
    BY <1>1, <1>2, ExecuteControl, CollectingControl, HandlingControl, ReadingControl DEF Next

-----------------------------------------------------------------------------
(* What the window shows.                                                  *)

LEMMA InitShown == Init => ShownInv
  BY DEF Init, ShownInv, ShownIsCollected

LEMMA CollectingShown == ASSUME Inv, Collecting PROVE ShownInv'
  <1> USE DEF Inv
  <1>1. CASE Collect
    <2>1. needsUpdate \/ needsUpdate' \/ diags' = diags
      <3>1. paramsChan \in Seq(Files \X (0..MaxDiags)) /\ paramsChan # <<>>
        BY <1>1 DEF Collect, TypeOK
      <3>2. Head(paramsChan) \in Files \X (0..MaxDiags)
        BY <3>1, HeadTailProperties
      <3> QED
        BY <1>1, <3>2 DEF Collect, TypeOK
    <2>2. needsUpdate => needsUpdate'
      BY <1>1 DEF Collect
    <2> QED
      BY <1>1, <2>1, <2>2 DEF Collect, ShownInv, ShownIsCollected, Up, acme, winRoutines, Lines
  <1>2. CASE Tick \/ (\E w \in Wins : Reload(w))
    BY <1>2 DEF Tick, Reload, ShownInv, ShownIsCollected, acme, diagWin
  <1>3. CASE StillThere
    BY <1>3 DEF StillThere, ShownInv, ShownIsCollected, TypeOK, acme, diagWin
  <1>4. ASSUME NEW w \in Wins, Hijack(w) PROVE ShownInv'
    BY <1>4, WinTypes DEF Hijack, Named, Watch, ShownInv, ShownIsCollected
  <1>5. CASE NewWin
    BY <1>5 DEF NewWin, ShownInv, ShownIsCollected
  <1>6. CASE Name
    <2>1. Len(window) # 0
      BY <1>6, WinTypes, EmptySeq DEF Name, MutexInv
    <2> QED
      BY <1>6, <2>1 DEF Name, Watch, ShownInv, ShownIsCollected
  <1>7. CASE Clear
    BY <1>7, WritesType DEF Clear, ShownInv, ShownIsCollected, Up, Texts, diagWin
  <1>8. CASE Write
    <2>1. win \in DOMAIN window /\ body[win] \in Texts
      BY <1>8, WinTypes, ElementOfSeq DEF Write, TypeOK, ShownInv
    <2>2. Up(win) => body'[win] = Lines(diags)
      BY <1>8, <2>1, WritesType, LinesType DEF Write, ShownInv, Texts
    <2> QED
      BY <1>8, <2>2 DEF Write, ShownInv, ShownIsCollected, Up, Lines, diagWin
  <1> QED
    BY <1>1, <1>2, <1>3, <1>4, <1>5, <1>6, <1>7, <1>8 DEF Collecting

LEMMA NextShown == ASSUME Inv, [Next]_vars PROVE ShownInv'
  <1> USE DEF Inv
  <1>n. win \in 0..Len(window) /\ Len(window) \in Nat
    BY WinTypes DEF TypeOK
  <1>1. ASSUME NEW f \in Files, NEW d \in 0..MaxDiags, Publish(f, d) PROVE ShownInv'
    BY <1>1 DEF Publish, ShownInv, ShownIsCollected, Up, Lines, collector
  <1>2. ASSUME NEW w \in DOMAIN window, NEW c \in Commands, Execute(w, c) PROVE ShownInv'
    <2>1. win # 0 => (Up(win)' => Up(win))
      <3>1. window' = window \/ window' = [window EXCEPT ![w] = "gone"]
        BY <1>2 DEF Execute
      <3>2. \A v \in DOMAIN window : window'[v] = window[v] \/ window'[v] = "gone"
        BY <3>1, Changed DEF States
      <3>3. win # 0 => win \in DOMAIN window
        BY <1>n, WinTypes
      <3> QED
        BY <1>2, <3>2, <3>3 DEF Execute, Up, diagWin
    <2> QED
      BY <1>2, <2>1 DEF Execute, ShownInv, ShownIsCollected, Up, Lines, TypeOK, diagWin, collector
  <1>3. ASSUME NEW w \in DOMAIN window, Handling(w) PROVE ShownInv'
    <2>w. w \in Wins /\ w # 0
      BY WinTypes
    <2>1. CASE HandleRestart(w)
      BY <2>1 DEF HandleRestart, Exec, ShownInv, ShownIsCollected
    <2>2. CASE Handle(w) \/ Del(w)
      <3>0. w = win
        BY <2>2, <2>w DEF Handle, Del, WindowsInv, Active
      <3>1. window' = window \/ window' = [window EXCEPT ![w] = "gone"]
        BY <2>2, <3>0 DEF Handle, Del
      <3>2. Up(win)' => Up(win)
        <4>1. window'[w] = window[w] \/ window'[w] = "gone"
          BY <3>1, Changed DEF States
        <4>2. win' = win
          BY <2>2 DEF Handle, Del, diagWin
        <4> QED
          BY <3>0, <4>1, <4>2 DEF Up
      <3> QED
        BY <2>2, <3>2 DEF Handle, Del, ShownInv, ShownIsCollected, Up, Lines, diagWin, collector
    <2>3. CASE CloseFiles(w) \/ Dead(w)
      BY <2>3 DEF CloseFiles, Dead, ShownInv, ShownIsCollected, Up, Lines, acme, diagWin, collector
    <2> QED
      BY <1>3, <2>1, <2>2, <2>3 DEF Handling
  <1>4. ASSUME NEW w \in DOMAIN window, Reading(w) PROVE ShownInv'
    <2>1. UNCHANGED <<acme, diagWin, collector>>
      BY <1>4 DEF Reading, ReadEvent, Gete, GotEvent, ReadFails, LastEvent
    <2> QED
      BY <2>1 DEF ShownInv, ShownIsCollected, Up, Lines, acme, diagWin, collector
  <1>5. CASE UNCHANGED vars
    BY <1>5 DEF vars, ShownInv, ShownIsCollected, Up, Lines
  <1> QED
    BY <1>1, <1>2, <1>3, <1>4, <1>5, CollectingShown DEF Next

-----------------------------------------------------------------------------
(* The theorems.                                                           *)

LEMMA Inductive == Spec => []Inv
  <1>1. Init => Inv
    BY InitTypeOK, InitControl, InitShown DEF Inv, Control
  <1>2. Inv /\ [Next]_vars => Inv'
    BY NextTypes, NextControl, NextShown DEF Inv, Control
  <1> QED
    BY <1>1, <1>2, PTL DEF Spec

\* Every variable of the diagnostics window, its collector and its goroutines
\* keeps its type (diagnostics.go:19-140).
THEOREM TypeCorrect == Spec => []TypeOK
  BY Inductive, PTL DEF Inv

\* At most one diagnostics window is left at any time, and the goroutines of
\* no other run (diagnostics.go:38-87).
THEOREM AtMostOneWindow == Spec => []OneWindow
  <1>1. Inv => OneWindow
    <2> SUFFICES ASSUME Inv PROVE OneWindow
      OBVIOUS
    <2> DEFINE Left == {w \in DOMAIN window : window[w] # "gone"}
    <2>1. Left = {} \/ \E w : Left = {w}
      BY DEF Inv, WindowsInv, Up
    <2>2. Cardinality(Left) = 0 \/ Cardinality(Left) = 1
      BY <2>1, FS_EmptySet, FS_Singleton
    <2>3. Cardinality(Left) <= 1
      BY <2>2
    <2> QED
      BY <2>3 DEF OneWindow, Inv, WindowsInv, Active
  <1> QED
    BY <1>1, Inductive, PTL

\* The window lists what has been collected, whenever the collector waits
\* and has nothing to update (diagnostics.go:89-107).
THEOREM ShowsWhatIsCollected == Spec => []ShownIsCollected
  BY Inductive, PTL DEF Inv, ShownInv

=============================================================================
