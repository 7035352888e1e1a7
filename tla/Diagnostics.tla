---------------------------- MODULE Diagnostics ----------------------------
(***************************************************************************)
(* The diagnostics window (diagnostics.go), with the goroutines that an    *)
(* acme window with an event file has (internal/acme/acme.go):             *)
(*                                                                         *)
(*   publishers  the read loops of the servers' connections                *)
(*   collector   the goroutine of NewDiagnosticsWriter                     *)
(*   handler     of each window that diagWin.restart has made or hijacked, *)
(*               the goroutine that handles its events                     *)
(*   reader      of each such window, eventReader                          *)
(*                                                                         *)
(* A file's diagnostics are 0 if it has none.  The command Restart in the  *)
(* window's tag replaces the program by a new one.                         *)
(***************************************************************************)
EXTENDS Integers, Sequences, FiniteSets

CONSTANTS
    Files,       \* the files with diagnostics
    MaxDiags,    \* bound: different diagnostics of a file
    Capacity,    \* the capacity of paramsChan, 100 in the code
    MaxWins,     \* bound: windows ever made, MaxCommands + 1 to have one always
    MaxPublish,  \* bound: messages of the servers
    MaxCommands  \* bound: commands the user executes in the window's tag

ASSUME DiagnosticsAssumption ==
    /\ Capacity \in Nat \ {0}
    /\ {MaxDiags, MaxWins, MaxPublish, MaxCommands} \subseteq Nat

VARIABLES
    \* acme
    window,     \* of each window ever made: "new", "named" or "gone"
    body,       \* its text: the files and diagnostics it lists
    events,     \* the commands executed in its tag that are to be read
    used,       \* how much of each bound is used up
    \* diagWin
    paramsChan, win, dead, mu,
    \* the collector
    coll, diags, needsUpdate,
    \* the goroutines of the windows
    handler, reader,
    eventFid,   \* the windows whose event file is open
    crashed,    \* the program has panicked
    latest      \* history: what the servers have published last

vars == <<window, body, events, used, paramsChan, win, dead, mu, coll, diags, needsUpdate,
          handler, reader, eventFid, crashed, latest>>

acme == <<window, body, events, used>>
diagWin == <<paramsChan, win, dead, mu>>
collector == <<coll, diags, needsUpdate>>
winRoutines == <<handler, reader, eventFid>>

-----------------------------------------------------------------------------
Wins == 1..MaxWins
Commands == {"Del", "Delete", "Reload", "Restart"}
Nothing == [f \in Files |-> 0]

\* What the window lists when the files have the diagnostics d.
Lines(d) == {<<f, d[f]>> : f \in {g \in Files : d[g] # 0}}

Init ==
    /\ window = <<>> /\ body = <<>>
    /\ events = [w \in Wins |-> <<>>]
    /\ used = [publish |-> 0, commands |-> 0]
    /\ paramsChan = <<>> /\ win = 0 /\ dead = TRUE /\ mu = "free"
    /\ coll = "select" /\ diags = Nothing /\ needsUpdate = FALSE
    /\ handler = [w \in Wins |-> "none"]
    /\ reader = [w \in Wins |-> "none"]
    /\ eventFid = {}
    /\ crashed = FALSE
    /\ latest = Nothing

-----------------------------------------------------------------------------
(* The servers and the user.                                               *)

\* WriteDiagnostics on a server's read loop, which waits while the channel
\* is full.
Publish(f, d) ==
    /\ used.publish < MaxPublish /\ Len(paramsChan) < Capacity
    /\ used' = [used EXCEPT !.publish = @ + 1]
    /\ paramsChan' = Append(paramsChan, <<f, d>>)
    /\ latest' = [latest EXCEPT ![f] = d]
    /\ UNCHANGED <<window, body, events, win, dead, mu, collector, winRoutines, crashed>>

\* The user executes a command in the tag of the window w.  acme gives it to
\* the program that has the event file open, and else does it.
Execute(w, c) ==
    /\ used.commands < MaxCommands
    /\ window[w] = "named"
    /\ used' = [used EXCEPT !.commands = @ + 1]
    /\ IF w \in eventFid
       THEN events' = [events EXCEPT ![w] = Append(@, c)] /\ UNCHANGED window
       ELSE /\ window' = IF c \in {"Del", "Delete"} THEN [window EXCEPT ![w] = "gone"] ELSE window
            /\ UNCHANGED events
    /\ UNCHANGED <<body, diagWin, collector, winRoutines, crashed, latest>>

-----------------------------------------------------------------------------
(* The collector.                                                          *)

CollectEither ==   \* what if an empty list were never taken
    /\ coll = "select" /\ paramsChan # <<>>
    /\ LET f == Head(paramsChan)[1]
           d == Head(paramsChan)[2]
           skip == diags[f] = 0 \/ d = 0
       IN  /\ diags' = IF skip /\ d = 0 THEN diags ELSE [diags EXCEPT ![f] = d]
           /\ needsUpdate' = (needsUpdate \/ d # 0)
    /\ paramsChan' = Tail(paramsChan)
    /\ UNCHANGED <<acme, win, dead, mu, coll, winRoutines, crashed, latest>>

\* A message from the channel.  Nothing to show instead of nothing is left
\* out.
Collect ==
    /\ coll = "select" /\ paramsChan # <<>>
    /\ LET f == Head(paramsChan)[1]
           d == Head(paramsChan)[2]
       IN  /\ diags' = [diags EXCEPT ![f] = d]
           /\ needsUpdate' = (needsUpdate \/ diags[f] # 0 \/ d # 0)
    /\ paramsChan' = Tail(paramsChan)
    /\ UNCHANGED <<acme, win, dead, mu, coll, winRoutines, crashed, latest>>

\* The ticker, every second.
Tick ==
    /\ coll = "select" /\ needsUpdate
    /\ coll' = "restart"
    /\ UNCHANGED <<acme, diagWin, diags, needsUpdate, winRoutines, crashed, latest>>

\* updateChan: the user asks for it, whatever has changed.
Reload(w) ==
    /\ coll = "select" /\ handler[w] = "reload"
    /\ coll' = "restart"
    /\ handler' = [handler EXCEPT ![w] = "range"]
    /\ UNCHANGED <<acme, diagWin, diags, needsUpdate, reader, eventFid, crashed, latest>>

\* update: restart has nothing to do.
StillThere ==
    /\ coll = "restart" /\ mu = "free" /\ ~dead
    /\ coll' = "clear"
    /\ UNCHANGED <<acme, diagWin, diags, needsUpdate, winRoutines, crashed, latest>>

\* restart gives the window w two goroutines.
Watch(w) ==
    /\ win' = w /\ dead' = FALSE
    /\ handler' = [handler EXCEPT ![w] = "range"]
    /\ reader' = [reader EXCEPT ![w] = "check"]
    /\ coll' = "clear"

Named == {w \in DOMAIN window : window[w] = "named"}

\* restart finds a window of that name, ...
Hijack(w) ==
    /\ coll = "restart" /\ mu = "free" /\ dead
    /\ w \in Named
    /\ Watch(w)
    /\ UNCHANGED <<acme, paramsChan, mu, diags, needsUpdate, eventFid, crashed, latest>>

\* ... or makes one, which has its name a step later.
NewWin ==
    /\ coll = "restart" /\ mu = "free" /\ dead
    /\ Named = {} /\ Len(window) < MaxWins
    /\ window' = Append(window, "new")
    /\ body' = Append(body, {})
    /\ mu' = "collector"
    /\ coll' = "name"
    /\ UNCHANGED <<events, used, paramsChan, win, dead, diags, needsUpdate, winRoutines, crashed, latest>>

NameLocked ==   \* what if dw.mu were not unlocked
    /\ coll = "name"
    /\ window' = [window EXCEPT ![Len(window)] = "named"]
    /\ Watch(Len(window))
    /\ UNCHANGED <<body, events, used, paramsChan, mu, diags, needsUpdate, eventFid, crashed, latest>>

Name ==
    /\ coll = "name"
    /\ window' = [window EXCEPT ![Len(window)] = "named"]
    /\ Watch(Len(window))
    /\ mu' = "free"
    /\ UNCHANGED <<body, events, used, paramsChan, diags, needsUpdate, eventFid, crashed, latest>>

\* A write to the window's files has no effect when it is gone; its error is
\* ignored.
Writes(text) == body' = IF window[win] = "gone" THEN body ELSE [body EXCEPT ![win] = text]

ClearNot ==   \* what if the old lines were not cleared
    /\ coll = "clear"
    /\ coll' = "write"
    /\ UNCHANGED <<acme, diagWin, diags, needsUpdate, winRoutines, crashed, latest>>

Clear ==
    /\ coll = "clear"
    /\ Writes({})
    /\ coll' = "write"
    /\ UNCHANGED <<window, events, used, diagWin, diags, needsUpdate, winRoutines, crashed, latest>>

Write ==
    /\ coll = "write"
    /\ Writes(body[win] \cup Lines(diags))
    /\ needsUpdate' = FALSE
    /\ coll' = "select"
    /\ UNCHANGED <<window, events, used, diagWin, diags, winRoutines, crashed, latest>>

-----------------------------------------------------------------------------
(* The handler of the window w's events.                                   *)

\* The program starts anew; acme's windows stay, and nobody reads their
\* events.
Exec ==
    /\ paramsChan' = <<>> /\ win' = 0 /\ dead' = TRUE /\ mu' = "free"
    /\ coll' = "select" /\ diags' = Nothing /\ needsUpdate' = FALSE
    /\ handler' = [v \in Wins |-> "none"]
    /\ reader' = [v \in Wins |-> "none"]
    /\ eventFid' = {}
    /\ events' = [v \in Wins |-> <<>>]
    /\ latest' = Nothing
    /\ UNCHANGED <<window, body, used, crashed>>

\* An event of the window w is handed over.
Handle(w) ==
    /\ handler[w] = "range" /\ reader[w] = "send"
    /\ reader' = [reader EXCEPT ![w] = "check"]
    /\ events' = [events EXCEPT ![w] = Tail(@)]
    /\ LET c == Head(events[w]) IN
       /\ c # "Restart"
       /\ handler' = [handler EXCEPT ![w] = CASE c = "Del" -> "del" [] c = "Reload" -> "reload"
                                              [] OTHER -> "range"]
       /\ window' = IF c = "Delete" THEN [window EXCEPT ![w] = "gone"] ELSE window
    /\ UNCHANGED <<body, used, diagWin, collector, eventFid, crashed, latest>>

HandleRestart(w) ==
    /\ handler[w] = "range" /\ reader[w] = "send" /\ Head(events[w]) = "Restart"
    /\ Exec

DelUnlocked(w) ==   \* what if dead were set before the window is deleted, without the lock
    /\ handler[w] = "del"
    /\ dead' = TRUE
    /\ handler' = [handler EXCEPT ![w] = "close"]
    /\ UNCHANGED <<acme, paramsChan, win, mu, collector, reader, eventFid, crashed, latest>>

\* The deferred function: the window that dw has is deleted under dw.mu, ...
Del(w) ==
    /\ handler[w] = "del" /\ mu = "free"
    /\ mu' = "handler"
    /\ window' = [window EXCEPT ![win] = "gone"]
    /\ handler' = [handler EXCEPT ![w] = "close"]
    /\ UNCHANGED <<body, events, used, paramsChan, win, dead, collector, reader, eventFid, crashed, latest>>

\* ... its files are closed, ...
CloseFiles(w) ==
    /\ handler[w] = "close"
    /\ eventFid' = eventFid \ {win}
    /\ handler' = [handler EXCEPT ![w] = "dead"]
    /\ UNCHANGED <<acme, diagWin, collector, reader, crashed, latest>>

\* ... and it is dead.
Dead(w) ==
    /\ handler[w] = "dead"
    /\ dead' = TRUE /\ mu' = "free"
    /\ handler' = [handler EXCEPT ![w] = "done"]
    /\ UNCHANGED <<acme, paramsChan, win, collector, reader, eventFid, crashed, latest>>

-----------------------------------------------------------------------------
(* eventReader of the window w.                                            *)

\* ReadEvent opens the event file if it is not, which fails when the window
\* is gone.
ReadEvent(w) ==
    /\ reader[w] = "check"
    /\ IF w \in eventFid \/ window[w] # "gone"
       THEN eventFid' = eventFid \cup {w} /\ reader' = [reader EXCEPT ![w] = "gete"]
       ELSE reader' = [reader EXCEPT ![w] = "last"] /\ UNCHANGED eventFid
    /\ UNCHANGED <<acme, diagWin, collector, handler, crashed, latest>>

\* gete reads from the file that ReadEvent has seen open.  If it has been
\* closed since, what it panics with is no string, and recover panics too.
Gete(w) ==
    /\ reader[w] = "gete"
    /\ IF w \in eventFid THEN reader' = [reader EXCEPT ![w] = "read"] /\ UNCHANGED crashed
       ELSE crashed' = TRUE /\ UNCHANGED reader
    /\ UNCHANGED <<acme, diagWin, collector, handler, eventFid, latest>>

GotEvent(w) ==
    /\ reader[w] = "read" /\ w \in eventFid /\ window[w] # "gone" /\ events[w] # <<>>
    /\ reader' = [reader EXCEPT ![w] = "send"]
    /\ UNCHANGED <<acme, diagWin, collector, handler, eventFid, crashed, latest>>

ReadFails(w) ==
    /\ reader[w] = "read" /\ (w \notin eventFid \/ window[w] = "gone")
    /\ reader' = [reader EXCEPT ![w] = "last"]
    /\ UNCHANGED <<acme, diagWin, collector, handler, eventFid, crashed, latest>>

\* The empty event, after which the channel is closed; it is never taken if
\* the handler has returned.
LastEvent(w) ==
    /\ reader[w] = "last" /\ handler[w] = "range"
    /\ reader' = [reader EXCEPT ![w] = "done"]
    /\ handler' = [handler EXCEPT ![w] = "del"]
    /\ UNCHANGED <<acme, diagWin, collector, eventFid, crashed, latest>>

-----------------------------------------------------------------------------
Collecting == Collect \/ Tick \/ (\E w \in Wins : Reload(w) \/ Hijack(w))
                  \/ StillThere \/ NewWin \/ Name \/ Clear \/ Write
Handling(w) == Handle(w) \/ HandleRestart(w) \/ Del(w) \/ CloseFiles(w) \/ Dead(w)
Reading(w) == ReadEvent(w) \/ Gete(w) \/ GotEvent(w) \/ ReadFails(w) \/ LastEvent(w)

Next ==
    /\ ~crashed
    /\ \/ \E f \in Files, d \in 0..MaxDiags : Publish(f, d)
       \/ \E w \in DOMAIN window, c \in Commands : Execute(w, c)
       \/ Collecting
       \/ \E w \in DOMAIN window : Handling(w) \/ Reading(w)

Spec == Init /\ [][Next]_vars

\* Every goroutine runs; select is fair to the channel and to the ticker,
\* and to the user's Reload.
FairSpec ==
    /\ Spec
    /\ SF_vars(~crashed /\ Collect) /\ SF_vars(~crashed /\ Tick)
    /\ SF_vars(~crashed /\ \E w \in Wins : Reload(w))
    /\ WF_vars(~crashed /\ (StillThere \/ (\E w \in Wins : Hijack(w)) \/ NewWin \/ Name \/ Clear \/ Write))
    /\ \A w \in Wins : WF_vars(~crashed /\ w \in DOMAIN window /\ Handling(w))
                       /\ WF_vars(~crashed /\ w \in DOMAIN window /\ Reading(w))

-----------------------------------------------------------------------------
TypeOK ==
    /\ window \in Seq({"new", "named", "gone"}) /\ Len(window) <= MaxWins
    /\ body \in Seq(SUBSET (Files \X (1..MaxDiags))) /\ Len(body) = Len(window)
    /\ events \in [Wins -> Seq(Commands)]
    /\ used \in [publish : 0..MaxPublish, commands : 0..MaxCommands]
    /\ paramsChan \in Seq(Files \X (0..MaxDiags)) /\ Len(paramsChan) <= Capacity
    /\ win \in 0..Len(window) /\ dead \in BOOLEAN /\ (win = 0 => dead)
    /\ mu \in {"free", "collector", "handler"}
    /\ coll \in {"select", "restart", "name", "clear", "write"}
    /\ diags \in [Files -> 0..MaxDiags] /\ latest \in [Files -> 0..MaxDiags]
    /\ needsUpdate \in BOOLEAN
    /\ handler \in [Wins -> {"none", "range", "reload", "del", "close", "dead", "done"}]
    /\ reader \in [Wins -> {"none", "check", "gete", "read", "send", "last", "done"}]
    /\ eventFid \subseteq DOMAIN window
    /\ crashed \in BOOLEAN

\* However the user deletes the window and restarts the program, and the
\* collector makes a new one, acme has one diagnostics window at most
\* (diagnostics.go:38-61), and only its goroutines run.
OneWindow ==
    /\ Cardinality({w \in DOMAIN window : window[w] # "gone"}) <= 1
    /\ \A w \in Wins : handler[w] \notin {"none", "done"} => w = win /\ ~dead

\* The window lists what has been collected whenever the collector waits and
\* has nothing to update (diagnostics.go:89-107, 121-140).
ShownIsCollected ==
    coll = "select" /\ ~needsUpdate /\ ~dead /\ window[win] # "gone" => body[win] = Lines(diags)

\* In the end the window shows what the servers have published last, or it
\* has been deleted, by the user, and what is published afterwards makes a
\* new one (diagnostics.go:16-18).
LatestIsShown ==
    <>[](crashed \/ /\ paramsChan = <<>> /\ ~needsUpdate /\ diags = latest
                    /\ dead \/ window[win] = "gone" \/ body[win] = Lines(latest))

\* The handler of the window's events never waits forever for the collector
\* to take its Reload, nor for dw.mu (diagnostics.go:64-85).
EventsAreHandled == \A w \in Wins : handler[w] \in {"reload", "del"} ~> (handler[w] \notin {"reload", "del"} \/ crashed)

=============================================================================
