------------------------- MODULE FileManagerProofs --------------------------
(***************************************************************************)
(* Theorems about FileManager, for any windows, names and bounds, in three *)
(* parts.                                                                  *)
(*                                                                         *)
(* THE EVENT LOOP.  The types; that no stop channel is closed twice,       *)
(* whatever windows are named and renamed to and however often the server  *)
(* exits, because a window is opened at most once and so no two entries of *)
(* fm.watchers share a channel; and, as long as the server does not exit,  *)
(* that its documents are tracked, that every version is given once and    *)
(* that nothing is opened twice.  The goroutine that resynchronises a      *)
(* restarted server breaks these three, as TLC shows.                      *)
(*                                                                         *)
(* TRACKING.  A file that is tracked is opened again on a restarted        *)
(* server; once the event loop has caught up with the log the tracked      *)
(* files are exactly those of the windows; and, as long as the server does *)
(* not exit, every tracked file keeps the watcher of its window.  The      *)
(* first two assume what the code assumes of acme: a window keeps its      *)
(* name, and no two live windows share one; TLC shows what becomes of them *)
(* otherwise.                                                              *)
(*                                                                         *)
(* TEXTS.  Each document on the server is a file that a window had at some *)
(* moment, and the server's copy only ever moves on to a later text of it: *)
(* FileManager implements TextMirror.  And the server has the text of      *)
(* every saved file whose event the loop has come to.  Both hold of the    *)
(* event loop on its own: a body watcher's notification may be sent late,  *)
(* and so may a text that is read for a restarted server; and a window     *)
(* that takes another's name, by a rename, next to it, or while the        *)
(* windows are listed, gives the document a text that is not its own.  TLC *)
(* shows what becomes of the two properties then.                          *)
(***************************************************************************)
EXTENDS FileManager, TLAPS, SequenceTheorems

(***************************************************************************)
(*                              The event loop                             *)
(***************************************************************************)

LEMMA SomeNameType == SomeName \in Names
  BY NamesAssumption DEF SomeName

LEMMA IdleTypes ==
    Idle \in Loops /\ IdleNotify \in Notifies /\ IdleResync \in Resyncs /\ IdleRemote \in Remotes
  BY SomeNameType, BoundAssumption DEF Idle, Loops, LoopSteps, IdleNotify, Notifies, IdleResync, Resyncs,
     ResyncSteps, IdleRemote, Remotes, Texts

LEMMA ZeroText == 0 \in Texts
  BY BoundAssumption DEF Texts

\* Counting one more use of a bound that is not exhausted.
LEMMA BudgetTypes ==
    ASSUME used \in Budgets
    PROVE  /\ used.texts < MaxTexts =>
                [used EXCEPT !.texts = used.texts + 1] \in Budgets /\ used.texts + 1 \in Texts
           /\ used.puts < MaxPuts => [used EXCEPT !.puts = used.puts + 1] \in Budgets
           /\ used.renames < MaxRenames => [used EXCEPT !.renames = used.renames + 1] \in Budgets
           /\ used.remotes < MaxRemotes => [used EXCEPT !.remotes = used.remotes + 1] \in Budgets
           /\ used.crashes < MaxCrashes => [used EXCEPT !.crashes = used.crashes + 1] \in Budgets
  <1>1. /\ used.texts \in 0..MaxTexts /\ used.puts \in 0..MaxPuts /\ used.renames \in 0..MaxRenames
        /\ used.remotes \in 0..MaxRemotes /\ used.crashes \in 0..MaxCrashes
    BY DEF Budgets
  <1>2. used.texts < MaxTexts => used.texts + 1 \in 0..MaxTexts
    BY <1>1, BoundAssumption
  <1>3. used.puts < MaxPuts => used.puts + 1 \in 0..MaxPuts
    BY <1>1, BoundAssumption
  <1>4. used.renames < MaxRenames => used.renames + 1 \in 0..MaxRenames
    BY <1>1, BoundAssumption
  <1>5. used.remotes < MaxRemotes => used.remotes + 1 \in 0..MaxRemotes
    BY <1>1, BoundAssumption
  <1>6. used.crashes < MaxCrashes => used.crashes + 1 \in 0..MaxCrashes
    BY <1>1, BoundAssumption
  <1> QED
    BY <1>1, <1>2, <1>3, <1>4, <1>5, <1>6 DEF Budgets, Texts

LEMMA InitTypeOK == Init => TypeOK
  <1> SUFFICES ASSUME Init PROVE TypeOK
    OBVIOUS
  <1>1. LoopTypeOK
    BY IdleTypes DEF Init, Loops, LoopSteps, LoopTypeOK
  <1>2. alog \in Seq(Events) /\ used \in Budgets
    BY BoundAssumption DEF Init, Budgets
  <1>3. watch \in [Wins -> Watches]
    BY SomeNameType DEF Init, Watches, NoText
  <1>4. window \in [Wins -> {"unborn", "live", "gone"}] /\ tag \in [Wins -> Names]
    BY DEF Init
  <1>5. body \in [Wins -> Texts] /\ dirty \subseteq Wins /\ logging \in BOOLEAN
    BY ZeroText DEF Init
  <1>6. /\ docStates \in [Names -> Wins \cup {NoWin}]
        /\ version \in [Wins -> Nat]
        /\ watchers \in [Names -> Wins \cup {NoWin}]
        /\ closed \subseteq Wins /\ mu \in {"free", "loop"}
    BY DEF Init
  <1>7. ThreadTypeOK
    BY <1>3, IdleTypes DEF Init, IdleNotify, IdleResync, ThreadTypeOK
  <1>8. serverUp \in BOOLEAN /\ noticed \in BOOLEAN
    BY DEF Init
  <1>9. server \in [Names -> Documents] /\ breaches \subseteq Breaches
    BY ZeroText DEF Init, Documents, NotOpen
  <1> QED
    BY <1>1, <1>2, <1>3, <1>4, <1>5, <1>6, <1>7, <1>8, <1>9
    DEF TypeOK, AcmeTypeOK, ManagerTypeOK, ThreadTypeOK, ServerTypeOK

LEMMA DocumentTypes == NotOpen \in Documents /\ \A v \in Nat, t \in Texts : Document(v, t) \in Documents
  BY ZeroText DEF Documents, NotOpen, Document

\* What the server does with a message keeps its variables well typed.
LEMMA ReceiveTypes ==
    ASSUME ServerTypeOK, UNCHANGED serverUp, NEW n \in Names, NEW d \in Documents, Receive(n, d)
    PROVE  ServerTypeOK'
  <1> USE DEF ServerTypeOK
  <1>1. server' = server \/ server' = [server EXCEPT ![n] = d]
    BY DEF Receive
  <1>2. \/ breaches' = breaches
        \/ \E kind \in Breaches : breaches' = breaches \cup {kind}
    BY DEF Receive, Breach, Breaches
  <1>3. noticed' \in BOOLEAN
    BY DEF Receive, Wake
  <1> QED
    BY <1>1, <1>2, <1>3

LEMMA ServerTypes ==
    ASSUME ServerTypeOK, UNCHANGED serverUp,
           NEW n \in Names, NEW v \in Nat, NEW t \in Texts,
           \/ ServerOpen(n, t) \/ ServerChange(n, v, t) \/ ServerClose(n) \/ ServerSave(n)
    PROVE  ServerTypeOK'
  <1> USE DEF ServerTypeOK
  <1>0. CASE ServerChange(n, v, t)
    BY <1>0, DocumentTypes, ReceiveTypes DEF ServerChange
  <1>1. CASE ServerOpen(n, t) \/ ServerClose(n) \/ ServerSave(n)
    <2>1. \E d \in Documents : server' = server \/ server' = [server EXCEPT ![n] = d]
      BY <1>1, DocumentTypes DEF ServerOpen, ServerClose, ServerSave
    <2>2. \/ breaches' = breaches
          \/ \E kind \in Breaches : breaches' = breaches \cup {kind}
      BY <1>1 DEF ServerOpen, ServerClose, ServerSave, Breach, Breaches
    <2>3. noticed' \in BOOLEAN
      BY <1>1 DEF ServerOpen, ServerClose, ServerSave, Wake
    <2> QED
      BY <2>1, <2>2, <2>3
  <1> QED
    BY <1>0, <1>1

\* What L sends becomes of the document that is there.
LEMMA RemoteMessage ==
    ASSUME TypeOK, RemoteSend
    PROVE  \E d \in Documents :
              /\ Receive(remote.name, d)
              /\ d.open = server[remote.name].open /\ d.ver = 0
              /\ d.text = remote.text /\ d.own = server[remote.name].own
              /\ d.late = \E w \in Wins : /\ window[w] = "live" /\ tag[w] = remote.name
                                          /\ body[w] # remote.text
  <1> DEFINE o == \E w \in Wins : window[w] = "live" /\ tag[w] = remote.name /\ body[w] # remote.text
             d == [server[remote.name] EXCEPT !.ver = 0, !.text = remote.text, !.late = o]
  <1>1. remote.text \in Texts /\ server[remote.name] \in Documents
    BY DEF TypeOK, ThreadTypeOK, ServerTypeOK, Remotes
  <1>2. o \in BOOLEAN
    OBVIOUS
  <1>3. Receive(remote.name, d)
    BY DEF RemoteSend
  <1> HIDE DEF o
  <1>4. /\ d \in Documents /\ d.open = server[remote.name].open /\ d.ver = 0
        /\ d.text = remote.text /\ d.own = server[remote.name].own /\ d.late = o
    BY <1>1, <1>2 DEF Documents
  <1> HIDE DEF d
  <1> QED
    BY <1>3, <1>4 DEF o

LEMMA LogTypes ==
    ASSUME alog \in Seq(Events), tag' \in [Wins -> Names], NEW w \in Wins,
           NEW o \in {"new", "del", "get", "put"}, LogEvent(o, w)
    PROVE  alog' \in Seq(Events)
  <1>1. [op |-> o, win |-> w, name |-> tag'[w]] \in Events
    BY DEF Events
  <1> QED
    BY <1>1 DEF LogEvent

\* The parts of the state a step leaves alone keep their types.
LEMMA FrameTypes ==
    ASSUME TypeOK
    PROVE  /\ UNCHANGED acmeVars => AcmeTypeOK'
           /\ UNCHANGED fmVars => ManagerTypeOK'
           /\ UNCHANGED loop => LoopTypeOK'
           /\ UNCHANGED <<watch, notify, resync, remote>> => ThreadTypeOK'
           /\ UNCHANGED serverVars => ServerTypeOK'
  BY DEF TypeOK, AcmeTypeOK, ManagerTypeOK, LoopTypeOK, ThreadTypeOK, ServerTypeOK, acmeVars, fmVars, serverVars

LEMMA UserTypeOK ==
    ASSUME TypeOK, User
    PROVE  TypeOK'
  <1>1. UNCHANGED fmVars /\ UNCHANGED loop /\ UNCHANGED <<watch, notify, resync, remote>> /\ UNCHANGED serverVars
    BY DEF User, NewWindow, DelWindow, Type, Get, Put, Rename
  <1>2. AcmeTypeOK'
    <2> USE DEF TypeOK, AcmeTypeOK
    <2>1. ASSUME NEW w \in Wins, NEW n \in Names, NewWindow(w, n) PROVE AcmeTypeOK'
      <3>1. tag' \in [Wins -> Names] /\ window' \in [Wins -> {"unborn", "live", "gone"}]
        BY <2>1 DEF NewWindow
      <3> QED
        BY <2>1, <3>1, LogTypes DEF NewWindow
    <2>2. ASSUME NEW w \in Wins, DelWindow(w) PROVE AcmeTypeOK'
      <3>1. tag' \in [Wins -> Names] /\ window' \in [Wins -> {"unborn", "live", "gone"}]
        BY <2>2 DEF DelWindow
      <3> QED
        BY <2>2, <3>1, LogTypes DEF DelWindow
    <2>3. ASSUME NEW w \in Wins, Type(w) PROVE AcmeTypeOK'
      BY <2>3, BudgetTypes DEF Type, EditBody
    <2>4. ASSUME NEW w \in Wins, Get(w) PROVE AcmeTypeOK'
      BY <2>4, BudgetTypes, LogTypes DEF Get, EditBody
    <2>5. ASSUME NEW w \in Wins, Put(w) PROVE AcmeTypeOK'
      BY <2>5, BudgetTypes, LogTypes DEF Put
    <2>6. ASSUME NEW w \in Wins, NEW n \in Names, Rename(w, n) PROVE AcmeTypeOK'
      BY <2>6, BudgetTypes DEF Rename
    <2> QED
      BY <2>1, <2>2, <2>3, <2>4, <2>5, <2>6 DEF User
  <1> QED
    BY <1>1, <1>2, FrameTypes DEF TypeOK

\* Where the event loop goes from a well-typed state.
LEMMA GotoTypes ==
    ASSUME LoopTypeOK, loop.pc \notin {"list", "boot", "exited", "read"},
           NEW pc \in LoopSteps \ {"changeAlloc", "changeSend", "saveRead", "saveAlloc", "saveSend"},
           Goto(pc)
    PROVE  LoopTypeOK'
  BY DEF Goto, Loops, LoopTypeOK

LEMMA DoneTypes ==
    ASSUME LoopTypeOK, NEW ok \in BOOLEAN, Done(ok)
    PROVE  LoopTypeOK'
  BY IdleTypes DEF Done, Idle, Loops, LoopSteps, LoopTypeOK

LEMMA BootTypeOK ==
    ASSUME TypeOK, ListWindows \/ BootNext \/ OpenLog \/ ReadEvent
    PROVE  TypeOK'
  <1>1. CASE ListWindows
    <2>1. {[win |-> w, name |-> tag[w]] : w \in {u \in Wins : window[u] = "live"}} \in SUBSET Files
      BY DEF TypeOK, AcmeTypeOK, Files
    <2>2. LoopTypeOK'
      BY <1>1, <2>1 DEF ListWindows, TypeOK, LoopTypeOK, Loops, LoopSteps
    <2> QED
      BY <1>1, <2>2, FrameTypes DEF ListWindows, TypeOK
  <1>2. CASE BootNext
    <2>1. PICK f \in loop.list :
             loop' = [loop EXCEPT !.pc = "open", !.win = f.win, !.name = f.name, !.list = @ \ {f}]
      BY <1>2 DEF BootNext
    <2>2. f.win \in Wins /\ f.name \in Names /\ loop.list \ {f} \in SUBSET Files
      BY <2>1 DEF TypeOK, LoopTypeOK, Loops, Files
    <2>3. LoopTypeOK'
      BY <1>2, <2>1, <2>2 DEF TypeOK, LoopTypeOK, Loops, LoopSteps
    <2> QED
      BY <1>2, <2>3, FrameTypes DEF BootNext, TypeOK
  <1>3. CASE OpenLog
    <2>1. AcmeTypeOK'
      BY <1>3 DEF OpenLog, TypeOK, AcmeTypeOK
    <2>2. LoopTypeOK'
      BY <1>3, IdleTypes DEF OpenLog, LoopTypeOK, Idle
    <2> QED
      BY <1>3, <2>1, <2>2, FrameTypes DEF OpenLog, TypeOK
  <1>4. CASE ReadEvent
    <2>1. Head(alog) \in Events /\ Tail(alog) \in Seq(Events)
      BY <1>4 DEF ReadEvent, TypeOK, AcmeTypeOK
    <2>2. Handler(Head(alog).op) \in {"open", "close", "change", "save"}
      BY <2>1 DEF Handler, Events
    <2>3. LoopTypeOK'
      BY <1>4, <2>1, <2>2 DEF ReadEvent, TypeOK, LoopTypeOK, Loops, LoopSteps, Events
    <2>4. AcmeTypeOK'
      BY <1>4, <2>1 DEF ReadEvent, TypeOK, AcmeTypeOK
    <2> QED
      BY <1>4, <2>3, <2>4, FrameTypes DEF ReadEvent, TypeOK
  <1> QED
    BY <1>1, <1>2, <1>3, <1>4

LEMMA OpenCloseTypeOK ==
    ASSUME TypeOK,
           DidOpenWin \/ DidOpenLock \/ DidOpenSend \/ DidOpenWatch \/ DidClose \/ DidCloseSend
    PROVE  TypeOK'
  <1> USE GotoTypes, DoneTypes, FrameTypes DEF LoopSteps
  <1>1. CASE DidOpenWin
    <2>1. LoopTypeOK'
      BY <1>1 DEF DidOpenWin, TypeOK
    <2> QED
      BY <1>1, <2>1 DEF DidOpenWin, TypeOK
  <1>2. CASE DidOpenLock
    <2>1. loop.name \in Names /\ loop.win \in Wins /\ body[loop.win] \in Texts
      BY <1>2 DEF DidOpenLock, TypeOK, LoopTypeOK, Loops, AcmeTypeOK
    <2>2. LoopTypeOK'
      <3>1. CASE Done(FALSE)
        BY <3>1 DEF TypeOK
      <3>2. CASE loop' = [loop EXCEPT !.pc = "openSend", !.text = body[loop.win]]
        BY <1>2, <2>1, <3>2 DEF TypeOK, LoopTypeOK, Loops
      <3> QED
        BY <1>2, <3>1, <3>2 DEF DidOpenLock
    <2>3. ManagerTypeOK'
      BY <1>2, <2>1 DEF DidOpenLock, TypeOK, ManagerTypeOK
    <2> QED
      BY <1>2, <2>2, <2>3 DEF DidOpenLock, TypeOK
  <1>3. CASE DidOpenSend
    <2>1. LoopTypeOK'
      BY <1>3 DEF DidOpenSend, TypeOK
    <2>2. ServerTypeOK'
      BY <1>3, ServerTypes DEF DidOpenSend, TypeOK, LoopTypeOK, Loops
    <2>3. ManagerTypeOK'
      BY <1>3 DEF DidOpenSend, Unlock, TypeOK, ManagerTypeOK
    <2> QED
      BY <1>3, <2>1, <2>2, <2>3 DEF DidOpenSend, TypeOK
  <1>4. CASE DidOpenWatch
    <2>1. LoopTypeOK'
      BY <1>4 DEF DidOpenWatch, TypeOK
    <2>2. loop.name \in Names /\ loop.win \in Wins
      BY <1>4 DEF DidOpenWatch, TypeOK, LoopTypeOK, Loops
    <2>3. ManagerTypeOK'
      BY <1>4, <2>2 DEF DidOpenWatch, TypeOK, ManagerTypeOK
    <2>4. ThreadTypeOK'
      BY <1>4, <2>2 DEF DidOpenWatch, TypeOK, ThreadTypeOK, Watches
    <2> QED
      BY <1>4, <2>1, <2>3, <2>4 DEF DidOpenWatch, TypeOK
  <1>5. CASE DidClose
    <2>1. LoopTypeOK'
      BY <1>5 DEF DidClose, TypeOK
    <2>2. ManagerTypeOK'
      BY <1>5 DEF DidClose, TypeOK, LoopTypeOK, Loops, ManagerTypeOK
    <2> QED
      BY <1>5, <2>1, <2>2 DEF DidClose, TypeOK
  <1>6. CASE DidCloseSend
    <2>1. LoopTypeOK'
      BY <1>6 DEF DidCloseSend, TypeOK
    <2>2. ServerTypeOK'
      BY <1>6, ServerTypes DEF DidCloseSend, TypeOK, LoopTypeOK, Loops
    <2> QED
      BY <1>6, <2>1, <2>2 DEF DidCloseSend, TypeOK
  <1> QED
    BY <1>1, <1>2, <1>3, <1>4, <1>5, <1>6

LEMMA ChangeSaveTypeOK ==
    ASSUME TypeOK,
           \/ DidChangeRead \/ DidChangeAlloc \/ DidChangeSend
           \/ DidSaveLookup \/ DidSaveRead \/ DidSaveAlloc \/ DidSaveSend \/ DidSave
    PROVE  TypeOK'
  <1> USE GotoTypes, DoneTypes, FrameTypes DEF LoopSteps
  <1>0. /\ loop \in Loops /\ loop.name \in Names /\ loop.text \in Texts /\ loop.ver \in Nat /\ loop.win \in Wins
        /\ body[loop.win] \in Texts
        /\ docStates[loop.name] \in Wins \cup {NoWin}
    BY DEF TypeOK, LoopTypeOK, Loops, AcmeTypeOK, ManagerTypeOK, DidChangeRead, DidChangeAlloc, DidChangeSend,
           DidSaveLookup, DidSaveRead, DidSaveAlloc, DidSaveSend, DidSave
  <1>d. SaveReturns /\ loop.pc \in {"save", "saveRead", "saveSend", "saveDone"} => LoopTypeOK'
    BY DEF SaveReturns, TypeOK
  <1>1. CASE DidChangeRead
    <2>1. LoopTypeOK'
      <3>1. CASE Done(TRUE)
        BY <3>1 DEF TypeOK
      <3>2. CASE /\ docStates[loop.name] # NoWin
                 /\ loop' = [loop EXCEPT !.pc = "changeAlloc", !.doc = docStates[loop.name],
                                         !.text = body[loop.win]]
        BY <1>0, <3>2 DEF LoopTypeOK, Loops
      <3> QED
        BY <1>1, <3>1, <3>2 DEF DidChangeRead
    <2>2. ManagerTypeOK'
      BY <1>1 DEF DidChangeRead, TypeOK, ManagerTypeOK
    <2> QED
      BY <1>1, <2>1, <2>2 DEF DidChangeRead, TypeOK
  <1>2. CASE DidChangeAlloc
    <2>1. loop.doc \in Wins /\ version' \in [Wins -> Nat] /\ version'[loop.doc] \in Nat
      BY <1>2 DEF DidChangeAlloc, NextVersion, TypeOK, LoopTypeOK, ManagerTypeOK
    <2>2. LoopTypeOK'
      BY <1>0, <1>2, <2>1 DEF DidChangeAlloc, LoopTypeOK, Loops
    <2>3. ManagerTypeOK'
      BY <1>2, <2>1 DEF DidChangeAlloc, TypeOK, ManagerTypeOK
    <2> QED
      BY <1>2, <2>2, <2>3 DEF DidChangeAlloc, TypeOK
  <1>3. CASE DidChangeSend
    <2>1. LoopTypeOK'
      BY <1>3 DEF DidChangeSend, TypeOK
    <2>2. ServerTypeOK'
      BY <1>0, <1>3, ServerTypes DEF DidChangeSend, TypeOK
    <2>3. ManagerTypeOK'
      BY <1>3 DEF DidChangeSend, Unlock, TypeOK, ManagerTypeOK
    <2> QED
      BY <1>3, <2>1, <2>2, <2>3 DEF DidChangeSend, TypeOK
  <1>4. CASE DidSaveLookup
    <2>1. LoopTypeOK'
      <3>1. CASE SaveReturns
        BY <1>4, <1>d, <3>1 DEF DidSaveLookup
      <3>2. CASE /\ docStates[loop.name] # NoWin
                 /\ loop' = [loop EXCEPT !.pc = "saveRead", !.doc = docStates[loop.name]]
        BY <1>0, <3>2 DEF LoopTypeOK, Loops
      <3> QED
        BY <1>4, <3>1, <3>2 DEF DidSaveLookup
    <2> QED
      BY <1>4, <2>1 DEF DidSaveLookup, TypeOK
  <1>5. CASE DidSaveRead
    <2>1. loop.doc \in Wins
      BY <1>5 DEF DidSaveRead, TypeOK, LoopTypeOK
    <2>2. LoopTypeOK'
      <3>1. CASE SaveReturns
        BY <1>5, <1>d, <3>1 DEF DidSaveRead
      <3>2. CASE loop' = [loop EXCEPT !.pc = "saveAlloc", !.text = body[loop.win]]
        BY <1>0, <2>1, <3>2 DEF LoopTypeOK, Loops
      <3> QED
        BY <1>5, <3>1, <3>2 DEF DidSaveRead
    <2> QED
      BY <1>5, <2>2 DEF DidSaveRead, TypeOK
  <1>6. CASE DidSaveAlloc
    <2>1. loop.doc \in Wins /\ version' \in [Wins -> Nat] /\ version'[loop.doc] \in Nat
      BY <1>6 DEF DidSaveAlloc, NextVersion, TypeOK, LoopTypeOK, ManagerTypeOK
    <2>2. LoopTypeOK'
      BY <1>0, <1>6, <2>1 DEF DidSaveAlloc, LoopTypeOK, Loops
    <2>3. ManagerTypeOK'
      BY <1>6, <2>1 DEF DidSaveAlloc, TypeOK, ManagerTypeOK
    <2> QED
      BY <1>6, <2>2, <2>3 DEF DidSaveAlloc, TypeOK
  <1>7. CASE DidSaveSend
    <2>1. LoopTypeOK'
      BY <1>7, <1>d DEF DidSaveSend, TypeOK
    <2>2. ServerTypeOK'
      BY <1>0, <1>7, ServerTypes DEF DidSaveSend, TypeOK
    <2> QED
      BY <1>7, <2>1, <2>2 DEF DidSaveSend, TypeOK
  <1>8. CASE DidSave
    <2>1. LoopTypeOK'
      BY <1>8, <1>d DEF DidSave, TypeOK
    <2>2. ServerTypeOK'
      BY <1>0, <1>8, ServerTypes DEF DidSave, TypeOK
    <2> QED
      BY <1>8, <2>1, <2>2 DEF DidSave, TypeOK
  <1> QED
    BY <1>1, <1>2, <1>3, <1>4, <1>5, <1>6, <1>7, <1>8

LEMMA FormatTypeOK ==
    ASSUME TypeOK, FormatLock \/ FormatActions \/ FormatChange \/ FormatEdit
    PROVE  TypeOK'
  <1> USE GotoTypes, DoneTypes, FrameTypes DEF LoopSteps
  <1>0. /\ loop \in Loops /\ loop.name \in Names /\ loop.text \in Texts /\ loop.win \in Wins
        /\ docStates[loop.name] \in Wins \cup {NoWin}
    BY DEF TypeOK, LoopTypeOK, Loops, ManagerTypeOK, FormatLock, FormatActions, FormatChange, FormatEdit
  <1>e. \A w \in Wins : EditBody(w) => body' \in [Wins -> Texts] /\ used' \in Budgets
    BY BudgetTypes DEF EditBody, TypeOK, AcmeTypeOK
  <1>w. ASSUME Wake, UNCHANGED <<serverUp, server, breaches>> PROVE ServerTypeOK'
    BY <1>w DEF Wake, TypeOK, ServerTypeOK
  <1>1. CASE FormatLock
    <2>1. LoopTypeOK'
      BY <1>1 DEF FormatLock, TypeOK
    <2>2. ManagerTypeOK'
      BY <1>1 DEF FormatLock, TypeOK, ManagerTypeOK
    <2> QED
      BY <1>1, <2>1, <2>2 DEF FormatLock, TypeOK
  <1>2. CASE FormatActions
    <2>1. AcmeTypeOK'
      <3>1. UNCHANGED <<window, tag, alog, logging>>
        BY <1>2 DEF FormatActions
      <3>2. CASE UNCHANGED <<body, dirty, used>>
        BY <3>1, <3>2 DEF TypeOK, AcmeTypeOK
      <3>3. CASE \E w \in Wins : EditBody(w) /\ dirty' = dirty \cup {w}
        <4>1. PICK w \in Wins : EditBody(w) /\ dirty' = dirty \cup {w}
          BY <3>3
        <4>2. body' \in [Wins -> Texts] /\ used' \in Budgets
          BY <4>1, <1>e
        <4> QED
          BY <4>1, <4>2, <3>1 DEF TypeOK, AcmeTypeOK
      <3> QED
        BY <1>2, <3>2, <3>3 DEF FormatActions
    <2>2. LoopTypeOK'
      <3>1. CASE Done(TRUE) \/ Goto("formatEdit")
        <4>1. loop.pc = "formatWin"
          BY <1>2 DEF FormatActions
        <4> QED
          BY <3>1, <4>1 DEF TypeOK
      <3>2. CASE loop' = [loop EXCEPT !.pc = "formatChange", !.text = body'[loop.win]]
        <4>1. body'[loop.win] \in Texts
          BY <1>0, <2>1 DEF AcmeTypeOK
        <4> QED
          BY <1>0, <4>1, <3>2 DEF LoopTypeOK, Loops
      <3>3. \/ Done(TRUE) \/ Goto("formatEdit")
            \/ loop' = [loop EXCEPT !.pc = "formatChange", !.text = body'[loop.win]]
        BY <1>2 DEF FormatActions
      <3> QED
        BY <3>1, <3>2, <3>3
    <2>3. ManagerTypeOK'
      BY <1>2 DEF FormatActions, Unlock, TypeOK, ManagerTypeOK
    <2>4. ServerTypeOK'
      BY <1>2, <1>w DEF FormatActions, TypeOK, ServerTypeOK
    <2> QED
      BY <1>2, <2>1, <2>2, <2>3, <2>4 DEF FormatActions, TypeOK
  <1>3. CASE FormatChange
    <2>1. LoopTypeOK'
      BY <1>3 DEF FormatChange, TypeOK
    <2>2. ServerTypeOK'
      BY <1>0, <1>3, ServerTypes DEF FormatChange, TypeOK
    <2> QED
      BY <1>3, <2>1, <2>2 DEF FormatChange, TypeOK
  <1>4. CASE FormatEdit
    <2>1. AcmeTypeOK'
      BY <1>0, <1>4, <1>e DEF FormatEdit, TypeOK, AcmeTypeOK
    <2>2. LoopTypeOK'
      BY <1>4 DEF FormatEdit, TypeOK
    <2>3. ManagerTypeOK'
      BY <1>4 DEF FormatEdit, Unlock, TypeOK, ManagerTypeOK
    <2>4. ServerTypeOK'
      BY <1>4, <1>w DEF FormatEdit
    <2> QED
      BY <1>4, <2>1, <2>2, <2>3, <2>4 DEF FormatEdit, TypeOK
  <1> QED
    BY <1>1, <1>2, <1>3, <1>4

LEMMA WatchTypeOK ==
    ASSUME TypeOK, NEW w \in Wins, Watcher(w)
    PROVE  TypeOK'
  <1> USE FrameTypes
  <1>1. CASE WatchTick(w)
    <2>1. PICK i \in Notifiers :
             notify' = [notify EXCEPT ![i] = [IdleNotify EXCEPT
                          !.pc = "lookup", !.name = watch[w].name, !.text = body[w]]]
      BY <1>1 DEF WatchTick
    <2>2. [IdleNotify EXCEPT !.pc = "lookup", !.name = watch[w].name, !.text = body[w]] \in Notifies
      BY IdleTypes DEF TypeOK, ThreadTypeOK, AcmeTypeOK, Watches, Notifies
    <2>3. [IdleNotify EXCEPT !.pc = "lookup", !.name = watch[w].name, !.text = body[w]].pc = "lookup"
      BY DEF IdleNotify
    <2>4. watch' \in [Wins -> Watches]
      BY <1>1 DEF WatchTick, TypeOK, ThreadTypeOK, AcmeTypeOK, Watches
    <2>5. /\ notify' \in [Notifiers -> Notifies]
          /\ \A j \in Notifiers : notify'[j].pc \in {"alloc", "send"} => notify'[j].doc \in Wins
      BY <2>1, <2>2, <2>3 DEF TypeOK, ThreadTypeOK
    <2>6. ThreadTypeOK'
      BY <1>1, <2>4, <2>5 DEF WatchTick, TypeOK, ThreadTypeOK
    <2> QED
      BY <1>1, <2>6 DEF WatchTick, TypeOK
  <1>2. CASE WatchStop(w)
    <2>1. ThreadTypeOK'
      BY <1>2 DEF WatchStop, TypeOK, ThreadTypeOK, Watches
    <2> QED
      BY <1>2, <2>1 DEF WatchStop, TypeOK
  <1> QED
    BY <1>1, <1>2 DEF Watcher

LEMMA NotifyTypeOK ==
    ASSUME TypeOK, NEW i \in Notifiers, Notifier(i)
    PROVE  TypeOK'
  <1> USE FrameTypes
  <1>0. notify[i] \in Notifies /\ docStates[notify[i].name] \in Wins \cup {NoWin}
    BY DEF TypeOK, ThreadTypeOK, ManagerTypeOK, Notifies
  <1>1. CASE NotifyLookup(i)
    <2> DEFINE d == docStates[notify[i].name]
               new == IF d = NoWin THEN IdleNotify ELSE [notify[i] EXCEPT !.pc = "alloc", !.doc = d]
    <2>1. notify' = [notify EXCEPT ![i] = new]
      BY <1>1 DEF NotifyLookup
    <2>2. new \in Notifies /\ (new.pc \in {"alloc", "send"} => new.doc \in Wins)
      BY <1>0, IdleTypes DEF Notifies, IdleNotify
    <2> HIDE DEF new
    <2>3. ThreadTypeOK'
      BY <1>1, <2>1, <2>2 DEF NotifyLookup, TypeOK, ThreadTypeOK
    <2> QED
      BY <1>1, <2>3 DEF NotifyLookup, TypeOK
  <1>2. CASE NotifyAlloc(i)
    <2>1. notify[i].doc \in Wins
      BY <1>2 DEF NotifyAlloc, TypeOK, ThreadTypeOK
    <2>2. version' \in [Wins -> Nat] /\ version'[notify[i].doc] \in Nat
      BY <1>2, <2>1 DEF NotifyAlloc, NextVersion, TypeOK, ManagerTypeOK
    <2>3. ThreadTypeOK'
      BY <1>0, <1>2, <2>1, <2>2 DEF NotifyAlloc, TypeOK, ThreadTypeOK, Notifies
    <2>4. ManagerTypeOK'
      BY <1>2, <2>2 DEF NotifyAlloc, TypeOK, ManagerTypeOK
    <2> QED
      BY <1>2, <2>3, <2>4 DEF NotifyAlloc, TypeOK
  <1>3. CASE NotifySend(i)
    <2>1. ServerTypeOK'
      BY <1>0, <1>3, ServerTypes DEF NotifySend, TypeOK, Notifies
    <2>2. ThreadTypeOK'
      BY <1>3, IdleTypes DEF NotifySend, IdleNotify, TypeOK, ThreadTypeOK
    <2> QED
      BY <1>3, <2>1, <2>2 DEF NotifySend, TypeOK
  <1> QED
    BY <1>1, <1>2, <1>3 DEF Notifier

LEMMA RemoteTypeOK ==
    ASSUME TypeOK, Remote
    PROVE  TypeOK'
  <1> USE FrameTypes
  <1>1. ASSUME NEW w \in Wins, RemoteRead(w) PROVE TypeOK'
    <2>1. AcmeTypeOK'
      BY <1>1, BudgetTypes DEF RemoteRead, TypeOK, AcmeTypeOK
    <2>2. ThreadTypeOK'
      BY <1>1 DEF RemoteRead, TypeOK, ThreadTypeOK, AcmeTypeOK, Remotes
    <2> QED
      BY <1>1, <2>1, <2>2 DEF RemoteRead, TypeOK
  <1>2. CASE RemoteSend
    <2>1. remote.name \in Names /\ UNCHANGED serverUp /\ ServerTypeOK
      BY <1>2 DEF RemoteSend, TypeOK, ThreadTypeOK, Remotes
    <2>2. ServerTypeOK'
      BY <1>2, <2>1, RemoteMessage, ReceiveTypes
    <2>3. ThreadTypeOK'
      BY <1>2, IdleTypes DEF RemoteSend, TypeOK, ThreadTypeOK
    <2> QED
      BY <1>2, <2>2, <2>3 DEF RemoteSend, TypeOK
  <1>3. CASE Request
    <2>1. ServerTypeOK'
      BY <1>3 DEF Request, Wake, TypeOK, ServerTypeOK
    <2> QED
      BY <1>3, <2>1 DEF Request, TypeOK
  <1> QED
    BY <1>1, <1>2, <1>3 DEF Remote

LEMMA ExitTypeOK ==
    ASSUME TypeOK, ServerExit
    PROVE  TypeOK'
  <1>1. used.crashes \in Nat
    BY DEF TypeOK, AcmeTypeOK, Budgets
  <1>2. AcmeTypeOK'
    BY BudgetTypes DEF ServerExit, TypeOK, AcmeTypeOK
  <1>3. ServerTypeOK'
    BY ZeroText DEF ServerExit, TypeOK, ServerTypeOK, Documents, NotOpen
  <1>4. ThreadTypeOK'
    <2> DEFINE new == [IdleResync EXCEPT !.pc = "init"]
    <2>1. new \in Resyncs /\ new.pc = "init"
      BY IdleTypes DEF IdleResync, Resyncs, ResyncSteps
    <2>2. resync' = [resync EXCEPT ![used.crashes + 1] = new]
      BY DEF ServerExit
    <2> HIDE DEF new
    <2> QED
      BY <2>1, <2>2 DEF ServerExit, TypeOK, ThreadTypeOK
  <1> QED
    BY <1>2, <1>3, <1>4, FrameTypes DEF ServerExit, TypeOK

LEMMA ResyncTypeOK ==
    ASSUME TypeOK, NEW r \in Resyncers, Resync(r)
    PROVE  TypeOK'
  <1> USE FrameTypes
  <1>0. /\ resync[r] \in Resyncs /\ docStates[resync[r].name] \in Wins \cup {NoWin}
        /\ \A f \in resync[r].todo : f \in Files /\ f.win \in Wins /\ f.name \in Names
    BY DEF TypeOK, ThreadTypeOK, ManagerTypeOK, Resyncs, Files
  \* It is enough that the resyncer's own record stays well typed.
  <1>t. ASSUME NEW new \in Resyncs, new.pc \in {"reset", "readAll", "send"} => new.win \in Wins,
               resync' = [resync EXCEPT ![r] = new], UNCHANGED <<watch, notify, remote>>
        PROVE  ThreadTypeOK'
    BY <1>t DEF TypeOK, ThreadTypeOK
  <1>1. CASE ResyncInit(r)
    <2>1. [resync[r] EXCEPT !.pc = "list"] \in Resyncs
      BY <1>0 DEF Resyncs, ResyncSteps
    <2>2. ThreadTypeOK'
      BY <1>0, <1>1, <1>t, <2>1 DEF ResyncInit, Resyncs
    <2>3. ServerTypeOK'
      BY <1>1 DEF ResyncInit, TypeOK, ServerTypeOK
    <2> QED
      BY <1>1, <2>2, <2>3 DEF ResyncInit, TypeOK
  <1>2. CASE ResyncList(r)
    <2> DEFINE all == {[win |-> w, name |-> tag[w]] : w \in {u \in Wins : window[u] = "live"}}
    <2>1. all \in SUBSET Files
      BY DEF TypeOK, AcmeTypeOK, Files
    <2>2. resync' = [resync EXCEPT ![r] = [resync[r] EXCEPT !.pc = "snapshot", !.todo = all]]
      BY <1>2 DEF ResyncList, TypeOK, ThreadTypeOK
    <2> HIDE DEF all
    <2>3. [resync[r] EXCEPT !.pc = "snapshot", !.todo = all] \in Resyncs
      BY <1>0, <2>1 DEF Resyncs, ResyncSteps
    <2>4. ThreadTypeOK'
      BY <1>0, <1>2, <1>t, <2>2, <2>3 DEF ResyncList, Resyncs
    <2> QED
      BY <1>2, <2>4 DEF ResyncList, TypeOK
  <1>3. CASE ResyncSnapshot(r)
    <2>1. PICK todo \in SUBSET resync[r].todo :
             resync' = [resync EXCEPT ![r] = [resync[r] EXCEPT !.pc = "next", !.todo = todo]]
      BY <1>3 DEF ResyncSnapshot, TypeOK, ThreadTypeOK
    <2>2. [resync[r] EXCEPT !.pc = "next", !.todo = todo] \in Resyncs
      BY <1>0, <2>1 DEF Resyncs, ResyncSteps
    <2>3. ThreadTypeOK'
      BY <1>0, <1>3, <1>t, <2>1, <2>2 DEF ResyncSnapshot, Resyncs
    <2> QED
      BY <1>3, <2>3 DEF ResyncSnapshot, TypeOK
  <1>4. CASE ResyncDone(r)
    <2>1. [IdleResync EXCEPT !.pc = "done"] \in Resyncs /\ [IdleResync EXCEPT !.pc = "done"].pc = "done"
      BY IdleTypes DEF IdleResync, Resyncs, ResyncSteps
    <2>2. ThreadTypeOK'
      BY <1>4, <1>t, <2>1 DEF ResyncDone
    <2> QED
      BY <1>4, <2>2 DEF ResyncDone, TypeOK
  <1>5. CASE ReopenWin(r)
    <2>0. PICK f \in resync[r].todo :
             resync' = [resync EXCEPT ![r].pc = IF window[f.win] = "live" THEN "reset" ELSE "next",
                                      ![r].win = f.win, ![r].name = f.name, ![r].todo = @ \ {f}]
      BY <1>5, Zenon DEF ReopenWin
    <2>a. resync \in [Resyncers -> Resyncs]
      BY DEF TypeOK, ThreadTypeOK
    <2>1. resync' = [resync EXCEPT ![r] = [resync[r] EXCEPT
                          !.pc = IF window[f.win] = "live" THEN "reset" ELSE "next",
                          !.win = f.win, !.name = f.name, !.todo = @ \ {f}]]
      BY <2>0, <2>a
    <2> DEFINE new == [resync[r] EXCEPT
                          !.pc = IF window[f.win] = "live" THEN "reset" ELSE "next",
                          !.win = f.win, !.name = f.name, !.todo = @ \ {f}]
    <2>2. new \in Resyncs /\ new.win \in Wins
      BY <1>0 DEF Resyncs, ResyncSteps
    <2> HIDE DEF new
    <2>3. ThreadTypeOK'
      BY <1>5, <1>t, <2>1, <2>2 DEF ReopenWin, new
    <2> QED
      BY <1>5, <2>3 DEF ReopenWin, TypeOK
  <1>6. CASE ReopenReset(r)
    <2>1. resync[r].win \in Wins
      BY <1>6 DEF ReopenReset, TypeOK, ThreadTypeOK
    <2>2. PICK pc \in {"next", "readAll"} : resync' = [resync EXCEPT ![r] = [resync[r] EXCEPT !.pc = pc]]
      BY <1>6 DEF ReopenReset, TypeOK, ThreadTypeOK
    <2>3. [resync[r] EXCEPT !.pc = pc] \in Resyncs /\ [resync[r] EXCEPT !.pc = pc].win \in Wins
      BY <1>0, <2>1 DEF Resyncs, ResyncSteps
    <2>4. ThreadTypeOK'
      BY <1>6, <1>t, <2>2, <2>3 DEF ReopenReset
    <2>5. ManagerTypeOK'
      BY <1>0, <1>6 DEF ReopenReset, TypeOK, ManagerTypeOK
    <2> QED
      BY <1>6, <2>4, <2>5 DEF ReopenReset, TypeOK
  <1>7. CASE ReopenRead(r)
    <2>1. resync[r].win \in Wins /\ body[resync[r].win] \in Texts
      BY <1>7 DEF ReopenRead, TypeOK, ThreadTypeOK, AcmeTypeOK
    <2>2. \/ resync' = [resync EXCEPT ![r] = [resync[r] EXCEPT !.pc = "next"]]
          \/ resync' = [resync EXCEPT ![r] = [resync[r] EXCEPT !.pc = "send", !.text = body[resync[r].win]]]
      BY <1>7 DEF ReopenRead, TypeOK, ThreadTypeOK
    <2>3. [resync[r] EXCEPT !.pc = "next"] \in Resyncs /\ [resync[r] EXCEPT !.pc = "next"].win \in Wins
      BY <1>0, <2>1 DEF Resyncs, ResyncSteps
    <2>4. /\ [resync[r] EXCEPT !.pc = "send", !.text = body[resync[r].win]] \in Resyncs
          /\ [resync[r] EXCEPT !.pc = "send", !.text = body[resync[r].win]].win \in Wins
      BY <1>0, <2>1 DEF Resyncs, ResyncSteps
    <2>5. ThreadTypeOK'
      BY <1>7, <1>t, <2>2, <2>3, <2>4 DEF ReopenRead
    <2> QED
      BY <1>7, <2>5 DEF ReopenRead, TypeOK
  <1>8. CASE ReopenSend(r)
    <2>1. resync[r].win \in Wins /\ resync[r].name \in Names /\ resync[r].text \in Texts
      BY <1>0, <1>8 DEF ReopenSend, TypeOK, ThreadTypeOK, Resyncs
    <2>2. resync' = [resync EXCEPT ![r] = [resync[r] EXCEPT !.pc = "next"]]
      BY <1>8 DEF ReopenSend, TypeOK, ThreadTypeOK
    <2>3. [resync[r] EXCEPT !.pc = "next"] \in Resyncs /\ [resync[r] EXCEPT !.pc = "next"].win \in Wins
      BY <1>0, <2>1 DEF Resyncs, ResyncSteps
    <2>4. ThreadTypeOK'
      BY <1>8, <1>t, <2>2, <2>3 DEF ReopenSend
    <2>5. ServerTypeOK'
      BY <1>8, <2>1, ServerTypes DEF ReopenSend, TypeOK
    <2> QED
      BY <1>8, <2>4, <2>5 DEF ReopenSend, TypeOK
  <1> QED
    BY <1>1, <1>2, <1>3, <1>4, <1>5, <1>6, <1>7, <1>8 DEF Resync

LEMMA NextTypeOK == TypeOK /\ [Next]_vars => TypeOK'
  <1> SUFFICES ASSUME TypeOK, [Next]_vars PROVE TypeOK'
    OBVIOUS
  <1>1. CASE User
    BY <1>1, UserTypeOK
  <1>2. CASE Loop
    BY <1>2, BootTypeOK, OpenCloseTypeOK, ChangeSaveTypeOK, FormatTypeOK DEF Loop
  <1>3. CASE Remote
    BY <1>3, RemoteTypeOK
  <1>4. CASE ServerExit
    BY <1>4, ExitTypeOK
  <1>5. CASE \E w \in Wins : Watcher(w)
    BY <1>5, WatchTypeOK
  <1>6. CASE \E i \in Notifiers : Notifier(i)
    BY <1>6, NotifyTypeOK
  <1>7. CASE \E r \in Resyncers : Resync(r)
    BY <1>7, ResyncTypeOK
  <1>8. CASE UNCHANGED vars
    BY <1>8, FrameTypes DEF vars, TypeOK
  <1> QED
    BY <1>1, <1>2, <1>3, <1>4, <1>5, <1>6, <1>7, <1>8 DEF Next

\* Every reachable state is well typed; in particular no step uses a docState
\* or a window that its goroutine has not looked up before.
THEOREM TypeCorrect == Spec => []TypeOK
  BY InitTypeOK, NextTypeOK, PTL DEF Spec

-----------------------------------------------------------------------------
(* Documents open on the server are tracked.                               *)

\* The inductive invariant: a didOpen is only sent for a file that is tracked.
OpenInv ==
    /\ OpenIsTracked
    /\ loop.pc = "openSend" => docStates[loop.name] # NoWin
    /\ serverUp

LEMMA NoCrash ==
    ASSUME MaxCrashes = 0, TypeOK
    PROVE  /\ ~ServerExit
           /\ \A r \in Resyncers : FALSE
  BY DEF ServerExit, TypeOK, AcmeTypeOK, Budgets, Resyncers

\* Where the loop goes.
LEMMA GotoMoves ==
    ASSUME TypeOK, NEW pc \in LoopSteps, Goto(pc)
    PROVE  loop'.pc = pc /\ loop'.name = loop.name /\ loop'.win = loop.win
  BY DEF Goto, TypeOK, LoopTypeOK, Loops

LEMMA DoneMoves ==
    ASSUME NEW ok \in BOOLEAN, Done(ok)
    PROVE  loop'.pc \in {"boot", "exited", "read"}
  BY DEF Done, Idle

LEMMA SaveMoves ==
    ASSUME TypeOK, SaveReturns
    PROVE  loop'.pc \in {"format", "boot", "exited", "read"}
  BY GotoMoves, DoneMoves DEF SaveReturns, LoopSteps

\* Which documents a message opens and closes.
LEMMA ServerSteps ==
    ASSUME TypeOK, NEW n \in Names, NEW v \in Nat, NEW t \in Texts, NEW m \in Names
    PROVE  /\ \A d \in Documents : Receive(n, d) => (server'[m].open => server[m].open)
           /\ ServerChange(n, v, t) => (server'[m].open => server[m].open)
           /\ ServerSave(n) => (server'[m].open => server[m].open)
           /\ ServerOpen(n, t) => (server'[m].open => server[m].open \/ m = n)
           /\ ServerClose(n) /\ serverUp => (server'[m].open => server[m].open /\ m # n)
  <1>1. \A d \in Documents : Receive(n, d) => (server'[m].open => server[m].open)
    BY DEF Receive, TypeOK, ServerTypeOK, Documents
  <1>2. ServerChange(n, v, t) => (server'[m].open => server[m].open)
    BY <1>1, DocumentTypes DEF ServerChange
  <1>3. /\ ServerSave(n) => (server'[m].open => server[m].open)
        /\ ServerOpen(n, t) => (server'[m].open => server[m].open \/ m = n)
        /\ ServerClose(n) /\ serverUp => (server'[m].open => server[m].open /\ m # n)
    BY DEF ServerSave, ServerOpen, ServerClose, NotOpen, Document, TypeOK, ServerTypeOK, Documents
  <1> QED
    BY <1>1, <1>2, <1>3

LEMMA OpenInvNext == MaxCrashes = 0 /\ TypeOK /\ OpenInv /\ [Next]_vars => OpenInv'
  <1> SUFFICES ASSUME MaxCrashes = 0, TypeOK, OpenInv, [Next]_vars PROVE OpenInv'
    OBVIOUS
  <1>t. /\ loop.name \in Names /\ loop.text \in Texts /\ loop.ver \in Nat /\ 0 \in Nat
        /\ remote.name \in Names /\ remote.text \in Texts
        /\ \A i \in Notifiers : notify[i].name \in Names /\ notify[i].text \in Texts /\ notify[i].ver \in Nat
    BY DEF TypeOK, LoopTypeOK, Loops, ThreadTypeOK, Notifies, Remotes
  <1>up. serverUp'
    <2>1. ~ServerExit /\ \A r \in Resyncers : FALSE
      BY NoCrash
    <2> QED
      BY <2>1 DEF OpenInv, Next, User, NewWindow, DelWindow, Type, Get, Put, Rename, Loop, ListWindows, BootNext,
         OpenLog, ReadEvent, DidOpenWin, DidOpenLock, DidOpenSend, DidOpenWatch, DidClose, DidCloseSend,
         DidChangeRead, DidChangeAlloc, DidChangeSend, DidSaveLookup, DidSaveRead, DidSaveAlloc, DidSaveSend,
         DidSave, FormatLock, FormatActions, FormatChange, FormatEdit, Remote, RemoteRead, RemoteSend, Request,
         Watcher, WatchTick, WatchStop, Notifier, NotifyLookup, NotifyAlloc, NotifySend, serverVars, vars
  \* Steps of the loop that neither open nor close, and everybody else's.
  <1>1. ASSUME UNCHANGED docStates,
               \A m \in Names : server'[m].open => server[m].open,
               UNCHANGED loop \/ (loop.pc # "closeSend" /\ loop'.pc # "openSend")
        PROVE  OpenInv'
    BY <1>1, <1>up, <1>t DEF OpenInv, OpenIsTracked
  <1>2. CASE User
    BY <1>1, <1>2 DEF User, NewWindow, DelWindow, Type, Get, Put, Rename, fmVars, serverVars
  <1>3. CASE Loop
    <2> USE GotoMoves, DoneMoves, SaveMoves DEF LoopSteps
    <2>1. CASE ListWindows \/ BootNext \/ OpenLog
      <3>1. loop.pc # "closeSend" /\ loop'.pc # "openSend"
        <4>1. CASE ListWindows
          BY <4>1 DEF ListWindows, TypeOK, LoopTypeOK, Loops
        <4>2. CASE BootNext
          BY <4>2 DEF BootNext, TypeOK, LoopTypeOK, Loops
        <4>3. CASE OpenLog
          BY <4>3 DEF OpenLog, Idle
        <4> QED
          BY <2>1, <4>1, <4>2, <4>3
      <3>2. UNCHANGED docStates /\ UNCHANGED server
        BY <2>1 DEF ListWindows, BootNext, OpenLog, fmVars, serverVars
      <3> QED
        BY <1>1, <3>1, <3>2
    <2>2. CASE ReadEvent
      <3>1. Head(alog) \in Events
        BY <2>2 DEF ReadEvent, TypeOK, AcmeTypeOK
      <3>2. Handler(Head(alog).op) # "openSend"
        BY <3>1 DEF Handler, Events
      <3>3. loop.pc # "closeSend" /\ loop'.pc # "openSend"
        BY <2>2, <3>2 DEF ReadEvent, TypeOK, LoopTypeOK, Loops
      <3> QED
        BY <1>1, <2>2, <3>3 DEF ReadEvent, fmVars, serverVars
    <2>3. CASE DidOpenWin \/ DidOpenWatch
      <3>1. loop.pc # "closeSend" /\ loop'.pc # "openSend"
        BY <2>3 DEF DidOpenWin, DidOpenWatch, TypeOK, LoopTypeOK
      <3>2. UNCHANGED docStates /\ UNCHANGED server
        BY <2>3 DEF DidOpenWin, DidOpenWatch, fmVars, serverVars
      <3> QED
        BY <1>1, <3>1, <3>2
    <2>4. CASE DidOpenLock
      <3>1. loop' = [loop EXCEPT !.pc = "openSend", !.text = body[loop.win]] \/ loop'.pc # "openSend"
        BY <2>4 DEF DidOpenLock
      <3>2. \A m \in Names : docStates[m] # NoWin => docStates'[m] # NoWin
        BY <2>4, WinsAssumption DEF DidOpenLock, TypeOK, LoopTypeOK, ManagerTypeOK
      <3>3. loop'.pc = "openSend" => loop'.name = loop.name /\ docStates'[loop.name] # NoWin
        BY <1>t, <2>4, <3>1, WinsAssumption DEF DidOpenLock, TypeOK, LoopTypeOK, Loops, ManagerTypeOK
      <3> QED
        BY <1>up, <2>4, <3>2, <3>3 DEF DidOpenLock, OpenInv, OpenIsTracked, serverVars
    <2>5. CASE DidOpenSend
      <3>1. \A m \in Names : server'[m].open => server[m].open \/ m = loop.name
        BY <1>t, <2>5, ServerSteps DEF DidOpenSend
      <3>2. loop'.pc # "openSend"
        BY <2>5 DEF DidOpenSend, TypeOK, LoopTypeOK, Loops
      <3> QED
        BY <1>up, <2>5, <3>1, <3>2 DEF DidOpenSend, OpenInv, OpenIsTracked
    <2>6. CASE DidClose
      <3>2. \A m \in Names : m # loop.name => docStates'[m] = docStates[m]
        BY <2>6 DEF DidClose, TypeOK, ManagerTypeOK
      <3>1. CASE docStates[loop.name] # NoWin
        <4>1. loop'.pc = "closeSend" /\ loop'.name = loop.name
          BY <2>6, <3>1 DEF DidClose
        <4> QED
          BY <1>up, <2>6, <3>2, <4>1 DEF DidClose, OpenInv, OpenIsTracked, serverVars
      <3>3. CASE docStates[loop.name] = NoWin
        <4>1. loop'.pc # "openSend"
          BY <2>6, <3>3 DEF DidClose
        <4> QED
          BY <1>up, <2>6, <3>2, <3>3, <4>1 DEF DidClose, OpenInv, OpenIsTracked, serverVars
      <3> QED
        BY <3>1, <3>3
    <2>7. CASE DidCloseSend
      <3>1. \A m \in Names : server'[m].open => server[m].open /\ m # loop.name
        BY <1>t, <2>7, ServerSteps DEF DidCloseSend, OpenInv
      <3>2. loop'.pc # "openSend"
        BY <2>7 DEF DidCloseSend, TypeOK, LoopTypeOK, Loops
      <3> QED
        BY <1>up, <2>7, <3>1, <3>2 DEF DidCloseSend, OpenInv, OpenIsTracked, fmVars
    <2>8. CASE DidChangeRead \/ DidChangeAlloc \/ DidSaveLookup \/ DidSaveRead \/ DidSaveAlloc
      BY <1>1, <2>8 DEF DidChangeRead, DidChangeAlloc, DidSaveLookup, DidSaveRead, DidSaveAlloc,
         TypeOK, LoopTypeOK, Loops, fmVars, serverVars
    <2>9. CASE DidChangeSend \/ DidSaveSend \/ DidSave \/ FormatChange
      <3>1. \A m \in Names : server'[m].open => server[m].open
        BY <1>t, <2>9, ServerSteps DEF DidChangeSend, DidSaveSend, DidSave, FormatChange
      <3>2. loop.pc # "closeSend" /\ loop'.pc # "openSend" /\ UNCHANGED docStates
        BY <2>9 DEF DidChangeSend, DidSaveSend, DidSave, FormatChange, Goto, Done, Idle,
           TypeOK, LoopTypeOK, Loops, fmVars
      <3> QED
        BY <1>1, <3>1, <3>2
    <2>10. CASE FormatLock \/ FormatActions \/ FormatEdit
      <3>1. loop.pc # "closeSend" /\ loop'.pc # "openSend"
        BY <2>10 DEF FormatLock, FormatActions, FormatEdit, TypeOK, LoopTypeOK, Loops
      <3>2. UNCHANGED docStates /\ UNCHANGED server
        BY <2>10 DEF FormatLock, FormatActions, FormatEdit, serverVars
      <3> QED
        BY <1>1, <3>1, <3>2
    <2> QED
      BY <1>3, <2>1, <2>2, <2>3, <2>4, <2>5, <2>6, <2>7, <2>8, <2>9, <2>10 DEF Loop
  <1>4. CASE Remote
    <2>1. ASSUME NEW w \in Wins, RemoteRead(w) PROVE OpenInv'
      BY <1>1, <2>1 DEF RemoteRead, fmVars, serverVars
    <2>2. CASE RemoteSend
      BY <1>1, <1>t, <2>2, RemoteMessage, ServerSteps DEF RemoteSend, fmVars
    <2>3. CASE Request
      BY <1>1, <2>3 DEF Request, fmVars
    <2> QED
      BY <1>4, <2>1, <2>2, <2>3 DEF Remote
  <1>5. ASSUME NEW w \in Wins, Watcher(w) PROVE OpenInv'
    BY <1>1, <1>5 DEF Watcher, WatchTick, WatchStop, fmVars, serverVars
  <1>6. ASSUME NEW i \in Notifiers, Notifier(i) PROVE OpenInv'
    <2>1. CASE NotifyLookup(i) \/ NotifyAlloc(i)
      BY <1>1, <2>1 DEF NotifyLookup, NotifyAlloc, fmVars, serverVars
    <2>2. CASE NotifySend(i)
      BY <1>1, <1>t, <2>2, ServerSteps DEF NotifySend, fmVars
    <2> QED
      BY <1>6, <2>1, <2>2 DEF Notifier
  <1>7. CASE UNCHANGED vars
    BY <1>1, <1>7 DEF vars, fmVars, serverVars
  <1> QED
    BY <1>2, <1>3, <1>4, <1>5, <1>6, <1>7, NoCrash DEF Next

\* As long as the server does not exit, every document that is open on it is
\* tracked by the FileManager or about to be closed: none is left behind.
THEOREM OpenDocumentsAreTracked ==
    ASSUME MaxCrashes = 0
    PROVE  Spec => []OpenIsTracked
  <1>1. Init => OpenInv
    BY DEF Init, OpenInv, OpenIsTracked, NotOpen, Idle
  <1>2. TypeOK /\ OpenInv /\ [Next]_vars => OpenInv'
    BY OpenInvNext
  <1>3. OpenInv => OpenIsTracked
    BY DEF OpenInv
  <1> QED
    BY <1>1, <1>2, <1>3, TypeCorrect, PTL DEF Spec

-----------------------------------------------------------------------------
(* Each version of a document is given out once.  The property is its own  *)
(* inductive invariant: a new version is above all that are waiting.       *)

\* A step that leaves what is waiting alone, or takes from it.
LEMMA FewerWait ==
    ASSUME VersionsGivenOnce, UNCHANGED version,
           LoopWaits' => LoopWaits /\ loop'.doc = loop.doc /\ loop'.ver = loop.ver,
           \A i \in Notifiers : notify'[i].pc = "send" => notify'[i] = notify[i]
    PROVE  VersionsGivenOnce'
  BY DEF VersionsGivenOnce, LoopWaits, NotifyWaits

\* The loop gets a version.
LEMMA LoopAllocates ==
    ASSUME TypeOK, VersionsGivenOnce, NEW d \in Wins, NextVersion(d),
           loop'.doc = d, loop'.ver = version'[d], UNCHANGED notify
    PROVE  VersionsGivenOnce'
  <1>1. /\ version'[d] = version[d] + 1 /\ version[d] \in Nat
        /\ \A e \in Wins : e # d => version'[e] = version[e]
        /\ \A e \in Wins : version[e] \in Nat
    BY DEF NextVersion, TypeOK, ManagerTypeOK
  <1>2. \A i \in Notifiers : notify[i].pc = "send" => notify[i].doc \in Wins
    BY DEF TypeOK, ThreadTypeOK
  <1> QED
    BY <1>1, <1>2 DEF VersionsGivenOnce, LoopWaits, NotifyWaits

\* A notification gets one.
LEMMA NotifierAllocates ==
    ASSUME TypeOK, VersionsGivenOnce, NEW i \in Notifiers, NotifyAlloc(i)
    PROVE  VersionsGivenOnce'
  <1> DEFINE d == notify[i].doc
  <1>1. d \in Wins
    BY DEF NotifyAlloc, TypeOK, ThreadTypeOK
  <1>2. /\ version'[d] = version[d] + 1 /\ version[d] \in Nat
        /\ \A e \in Wins : e # d => version'[e] = version[e]
        /\ \A e \in Wins : version[e] \in Nat
    BY <1>1 DEF NotifyAlloc, NextVersion, TypeOK, ManagerTypeOK
  <1>3. /\ notify'[i].doc = d /\ notify'[i].ver = version'[d]
        /\ \A j \in Notifiers : j # i => notify'[j] = notify[j]
    BY DEF NotifyAlloc, TypeOK, ThreadTypeOK, Notifies
  <1>4. UNCHANGED loop /\ (LoopWaits => loop.doc \in Wins)
    BY DEF NotifyAlloc, LoopWaits, TypeOK, LoopTypeOK
  <1>5. \A j \in Notifiers : notify[j].pc = "send" => notify[j].doc \in Wins
    BY DEF TypeOK, ThreadTypeOK
  <1> HIDE DEF d
  <1> QED
    BY <1>1, <1>2, <1>3, <1>4, <1>5 DEF VersionsGivenOnce, LoopWaits, NotifyWaits

LEMMA VersionsNext == MaxCrashes = 0 /\ TypeOK /\ VersionsGivenOnce /\ [Next]_vars => VersionsGivenOnce'
  <1> SUFFICES ASSUME MaxCrashes = 0, TypeOK, VersionsGivenOnce, [Next]_vars PROVE VersionsGivenOnce'
    OBVIOUS
  <1>1. ASSUME UNCHANGED version, UNCHANGED notify, UNCHANGED loop \/ ~LoopWaits'
        PROVE  VersionsGivenOnce'
    BY <1>1, FewerWait DEF LoopWaits
  <1>2. CASE User
    BY <1>1, <1>2 DEF User, NewWindow, DelWindow, Type, Get, Put, Rename, fmVars
  <1>3. CASE Loop
    <2> USE GotoMoves, DoneMoves, SaveMoves DEF LoopSteps, LoopWaits
    <2>1. CASE ListWindows \/ BootNext \/ OpenLog
      <3>1. loop'.pc \in {"boot", "open", "read"}
        <4>1. CASE ListWindows
          BY <4>1 DEF ListWindows, TypeOK, LoopTypeOK, Loops
        <4>2. CASE BootNext
          BY <4>2 DEF BootNext, TypeOK, LoopTypeOK, Loops
        <4>3. CASE OpenLog
          BY <4>3 DEF OpenLog, Idle
        <4> QED
          BY <2>1, <4>1, <4>2, <4>3
      <3> QED
        BY <1>1, <2>1, <3>1 DEF ListWindows, BootNext, OpenLog, fmVars
    <2>2. CASE ReadEvent
      <3>1. Head(alog) \in Events
        BY <2>2 DEF ReadEvent, TypeOK, AcmeTypeOK
      <3>2. Handler(Head(alog).op) \in {"open", "close", "change", "save"}
        BY <3>1 DEF Handler, Events
      <3>3. loop'.pc = Handler(Head(alog).op)
        BY <2>2 DEF ReadEvent, TypeOK, LoopTypeOK, Loops
      <3> QED
        BY <1>1, <2>2, <3>2, <3>3 DEF ReadEvent, fmVars
    <2>3. CASE DidOpenWin \/ DidOpenLock \/ DidOpenSend \/ DidOpenWatch
      <3>1. ~LoopWaits'
        BY <2>3 DEF DidOpenWin, DidOpenLock, DidOpenSend, DidOpenWatch, TypeOK, LoopTypeOK, Loops
      <3> QED
        BY <1>1, <2>3, <3>1 DEF DidOpenWin, DidOpenLock, DidOpenSend, DidOpenWatch, fmVars
    <2>4. CASE DidClose \/ DidCloseSend
      <3>1. ~LoopWaits'
        BY <2>4 DEF DidClose, DidCloseSend
      <3> QED
        BY <1>1, <2>4, <3>1 DEF DidClose, DidCloseSend, fmVars
    <2>5. CASE DidChangeRead \/ DidSaveLookup \/ DidSaveRead
      <3>1. ~LoopWaits'
        BY <2>5 DEF DidChangeRead, DidSaveLookup, DidSaveRead, TypeOK, LoopTypeOK, Loops
      <3> QED
        BY <1>1, <2>5, <3>1 DEF DidChangeRead, DidSaveLookup, DidSaveRead, fmVars
    <2>6. CASE DidChangeAlloc \/ DidSaveAlloc
      <3>1. loop.doc \in Wins /\ loop'.doc = loop.doc /\ loop'.ver = version'[loop.doc]
        BY <2>6 DEF DidChangeAlloc, DidSaveAlloc, TypeOK, LoopTypeOK, Loops
      <3> QED
        BY <2>6, <3>1, LoopAllocates DEF DidChangeAlloc, DidSaveAlloc
    <2>7. CASE DidChangeSend \/ DidSaveSend \/ DidSave
      <3>1. ~LoopWaits'
        BY <2>7 DEF DidChangeSend, DidSaveSend, DidSave
      <3> QED
        BY <1>1, <2>7, <3>1 DEF DidChangeSend, DidSaveSend, DidSave, fmVars
    <2>8. CASE FormatLock \/ FormatActions \/ FormatChange \/ FormatEdit
      <3>1. ~LoopWaits'
        BY <2>8 DEF FormatLock, FormatActions, FormatChange, FormatEdit, TypeOK, LoopTypeOK, Loops
      <3> QED
        BY <1>1, <2>8, <3>1 DEF FormatLock, FormatActions, FormatChange, FormatEdit, fmVars
    <2> QED
      BY <1>3, <2>1, <2>2, <2>3, <2>4, <2>5, <2>6, <2>7, <2>8 DEF Loop
  <1>4. CASE Remote
    BY <1>1, <1>4 DEF Remote, RemoteRead, RemoteSend, Request, fmVars
  <1>5. ASSUME NEW w \in Wins, Watcher(w) PROVE VersionsGivenOnce'
    <2>1. CASE WatchTick(w)
      <3>1. UNCHANGED loop /\ UNCHANGED version
        BY <2>1 DEF WatchTick, fmVars
      <3>2. PICK i \in Notifiers :
               notify' = [notify EXCEPT ![i] = [IdleNotify EXCEPT
                            !.pc = "lookup", !.name = watch[w].name, !.text = body[w]]]
        BY <2>1 DEF WatchTick
      <3>3. \A j \in Notifiers : notify'[j].pc = "send" => notify'[j] = notify[j]
        BY <3>2 DEF IdleNotify, TypeOK, ThreadTypeOK
      <3> QED
        BY <3>1, <3>3, FewerWait DEF LoopWaits
    <2>2. CASE WatchStop(w)
      BY <1>1, <2>2 DEF WatchStop, fmVars
    <2> QED
      BY <1>5, <2>1, <2>2 DEF Watcher
  <1>6. ASSUME NEW i \in Notifiers, Notifier(i) PROVE VersionsGivenOnce'
    <2>1. CASE NotifyLookup(i) \/ NotifySend(i)
      <3>1. UNCHANGED loop /\ UNCHANGED version
        BY <2>1 DEF NotifyLookup, NotifySend, fmVars
      <3>2. \A j \in Notifiers : j # i => notify'[j] = notify[j]
        BY <2>1 DEF NotifyLookup, NotifySend, TypeOK, ThreadTypeOK
      <3>3. notify'[i].pc # "send"
        <4>1. notify[i] \in Notifies
          BY DEF TypeOK, ThreadTypeOK
        <4>2. CASE NotifySend(i)
          BY <4>2 DEF NotifySend, IdleNotify, TypeOK, ThreadTypeOK
        <4>3. CASE NotifyLookup(i)
          <5> DEFINE d == docStates[notify[i].name]
                     new == IF d = NoWin THEN IdleNotify ELSE [notify[i] EXCEPT !.pc = "alloc", !.doc = d]
          <5>1. notify' = [notify EXCEPT ![i] = new]
            BY <4>3 DEF NotifyLookup
          <5>2. new.pc # "send"
            BY <4>1 DEF IdleNotify, Notifies
          <5> QED
            BY <5>1, <5>2 DEF TypeOK, ThreadTypeOK
        <4> QED
          BY <2>1, <4>2, <4>3
      <3> QED
        BY <3>1, <3>2, <3>3, FewerWait DEF LoopWaits
    <2>2. CASE NotifyAlloc(i)
      BY <2>2, NotifierAllocates
    <2> QED
      BY <1>6, <2>1, <2>2 DEF Notifier
  <1>7. CASE UNCHANGED vars
    BY <1>1, <1>7 DEF vars, fmVars
  <1> QED
    BY <1>2, <1>3, <1>4, <1>5, <1>6, <1>7, NoCrash DEF Next

\* As long as the server does not exit, no two messages that wait to be sent
\* for one document carry the same version, however many notifications run at
\* a time.  (They may still be sent out of order: see VersionsIncrease.)
THEOREM VersionsAreGivenOnce ==
    ASSUME MaxCrashes = 0
    PROVE  Spec => []VersionsGivenOnce
  <1>1. Init => VersionsGivenOnce
    BY DEF Init, VersionsGivenOnce, LoopWaits, NotifyWaits, Idle, IdleNotify
  <1>2. TypeOK /\ VersionsGivenOnce /\ [Next]_vars => VersionsGivenOnce'
    BY VersionsNext
  <1> QED
    BY <1>1, <1>2, TypeCorrect, PTL DEF Spec

-----------------------------------------------------------------------------
(* Who changes the windows, and who the loop's registers.                  *)

\* Only the user changes windows and tags.
LEMMA LoopLeavesWindows == Loop => UNCHANGED <<window, tag>>
  BY DEF Loop, ListWindows, BootNext, OpenLog, ReadEvent, DidOpenWin, DidOpenLock, DidOpenSend,
     DidOpenWatch, DidClose, DidCloseSend, DidChangeRead, DidChangeAlloc, DidChangeSend, DidSaveLookup,
     DidSaveRead, DidSaveAlloc, DidSaveSend, DidSave, FormatLock, FormatActions, FormatChange, FormatEdit, acmeVars

LEMMA OthersLeaveWindows ==
    ASSUME [Next]_vars, ~User
    PROVE  UNCHANGED <<window, tag>>
  <1>1. CASE Loop
    BY <1>1, LoopLeavesWindows
  <1>2. CASE Remote \/ ServerExit \/ UNCHANGED vars
    BY <1>2 DEF Remote, RemoteRead, RemoteSend, Request, ServerExit, vars, acmeVars
  <1>3. CASE \E w \in Wins : Watcher(w)
    BY <1>3 DEF Watcher, WatchTick, WatchStop, acmeVars
  <1>4. CASE \E i \in Notifiers : Notifier(i)
    BY <1>4 DEF Notifier, NotifyLookup, NotifyAlloc, NotifySend, acmeVars
  <1>5. CASE \E r \in Resyncers : Resync(r)
    BY <1>5 DEF Resync, ResyncInit, ResyncList, ResyncSnapshot, ResyncDone, ReopenWin, ReopenReset,
       ReopenRead, ReopenSend, acmeVars
  <1> QED
    BY <1>1, <1>2, <1>3, <1>4, <1>5 DEF Next

\* Only the loop changes its registers and the docStates.
LEMMA OthersLeaveLoop ==
    ASSUME [Next]_vars, ~Loop
    PROVE  UNCHANGED <<loop, docStates>>
  <1>1. CASE User
    BY <1>1 DEF User, NewWindow, DelWindow, Type, Get, Put, Rename, fmVars
  <1>2. CASE Remote \/ ServerExit \/ UNCHANGED vars
    BY <1>2 DEF Remote, RemoteRead, RemoteSend, Request, ServerExit, vars, fmVars
  <1>3. CASE \E w \in Wins : Watcher(w)
    BY <1>3 DEF Watcher, WatchTick, WatchStop, fmVars
  <1>4. CASE \E i \in Notifiers : Notifier(i)
    BY <1>4 DEF Notifier, NotifyLookup, NotifyAlloc, NotifySend, fmVars
  <1>5. CASE \E r \in Resyncers : Resync(r)
    BY <1>5 DEF Resync, ResyncInit, ResyncList, ResyncSnapshot, ResyncDone, ReopenWin, ReopenReset,
       ReopenRead, ReopenSend, fmVars
  <1> QED
    BY <1>1, <1>2, <1>3, <1>4, <1>5 DEF Next

-----------------------------------------------------------------------------
(* The windows that the event loop has opened or has still to open.        *)

OpenSteps == {"open", "openLock", "openSend", "openWatch"}

New(k) == alog[k].op = "new"
Logged == {alog[k].win : k \in {j \in DOMAIN alog : New(j)}}
Listed == {f.win : f \in loop.list}
Opening == IF loop.pc \in OpenSteps THEN {loop.win} ELSE {}
Opened == (closed \cup {watchers[n] : n \in Names}) \ {NoWin}

\* A window is opened once: it is announced once, by the window list or by the
\* log, and one that is opened or being opened is not announced again.
AnnouncedOnce ==
    /\ \A f, g \in loop.list : f.win = g.win => f = g
    /\ \A j, k \in DOMAIN alog : New(j) /\ New(k) /\ alog[j].win = alog[k].win => j = k

OpenedOnceInv ==
    /\ Opened \cap (Logged \cup Listed \cup Opening) = {}
    /\ Opening \cap (Logged \cup Listed) = {}

\* acme announces a window when it makes it, and never makes it twice.
BornFirst ==
    \A w \in Opened \cup Logged \cup Listed \cup Opening : window[w] # "unborn"

\* The window list is used up before the log is opened.
ListBeforeLog ==
    /\ logging => loop.list = {}
    /\ ~logging => alog = <<>>
    /\ loop.pc = "list" => ~logging /\ loop.list = {} /\ Opened = {}

WatchersInv ==
    /\ StopChannelsClosedOnce
    /\ AnnouncedOnce /\ OpenedOnceInv /\ BornFirst /\ ListBeforeLog

LEMMA WinsInSets ==
    ASSUME TypeOK
    PROVE  Opened \cup Logged \cup Listed \cup Opening \subseteq Wins
  <1>1. Opened \subseteq Wins
    BY DEF Opened, TypeOK, ManagerTypeOK
  <1>2. Logged \subseteq Wins
    <2>1. alog \in Seq(Events) /\ \A k \in DOMAIN alog : alog[k] \in Events
      BY DEF TypeOK, AcmeTypeOK
    <2> QED
      BY <2>1 DEF Logged, Events
  <1>3. Listed \subseteq Wins
    BY DEF Listed, TypeOK, LoopTypeOK, Loops, Files
  <1>4. Opening \subseteq Wins
    BY DEF Opening, OpenSteps, TypeOK, LoopTypeOK
  <1> QED
    BY <1>1, <1>2, <1>3, <1>4

-----------------------------------------------------------------------------
(* Steps that announce and open nothing.                                   *)

LoopStill ==
    /\ loop'.pc # "list" /\ loop'.list \subseteq loop.list
    /\ loop'.pc \in OpenSteps => loop.pc \in OpenSteps /\ loop'.win = loop.win

LEMMA GotoStill ==
    ASSUME TypeOK, NEW pc \in LoopSteps \ {"list"}, Goto(pc),
           pc \in OpenSteps => loop.pc \in OpenSteps
    PROVE  LoopStill
  BY DEF Goto, LoopStill, TypeOK, LoopTypeOK, Loops

LEMMA DoneStill ==
    ASSUME TypeOK, NEW ok \in BOOLEAN, Done(ok)
    PROVE  LoopStill
  BY DEF Done, Idle, LoopStill, OpenSteps

LEMMA SaveStill ==
    ASSUME TypeOK, SaveReturns
    PROVE  LoopStill
  BY GotoStill, DoneStill DEF SaveReturns, LoopSteps, OpenSteps

LEMMA StillKeeps ==
    ASSUME WatchersInv, UNCHANGED <<window, alog, logging, watchers, closed>>,
           LoopStill \/ UNCHANGED loop
    PROVE  WatchersInv'
  <1>1. Opened' = Opened
    BY DEF Opened
  <1>2. Logged' = Logged
    BY DEF Logged, New
  <1>3. Listed' \subseteq Listed
    BY DEF Listed, LoopStill
  <1>4. Opening' \subseteq Opening
    BY DEF Opening, LoopStill
  <1>5. StopChannelsClosedOnce' /\ AnnouncedOnce'
    BY DEF WatchersInv, StopChannelsClosedOnce, AnnouncedOnce, New, LoopStill
  <1>6. OpenedOnceInv' /\ BornFirst'
    BY <1>1, <1>2, <1>3, <1>4 DEF WatchersInv, OpenedOnceInv, BornFirst
  <1>7. ListBeforeLog'
    BY <1>1 DEF WatchersInv, ListBeforeLog, LoopStill
  <1> QED
    BY <1>5, <1>6, <1>7 DEF WatchersInv

-----------------------------------------------------------------------------
(* What acme logs.                                                         *)

\* An event that is logged announces its window if it is new, and no other.
Announces(o, w) == IF o = "new" THEN {w} ELSE {}

LEMMA LogSteps ==
    ASSUME TypeOK, NEW o \in {"new", "del", "get", "put"}, NEW w \in Wins, LogEvent(o, w),
           tag' \in [Wins -> Names]
    PROVE  /\ Logged' \subseteq Logged \cup Announces(o, w)
           /\ ~logging => alog' = alog
           /\ Announces(o, w) \cap Logged = {} /\ AnnouncedOnce /\ UNCHANGED loop => AnnouncedOnce'
  <1> DEFINE e == [op |-> o, win |-> w, name |-> tag'[w]]
  <1>1. CASE ~logging
    BY <1>1 DEF LogEvent, Logged, New, AnnouncedOnce
  <1>2. CASE logging
    <2>1. alog \in Seq(Events) /\ e \in Events /\ alog' = Append(alog, e)
      BY <1>2 DEF TypeOK, AcmeTypeOK, Events, LogEvent
    <2>2. e.op = o /\ e.win = w
      OBVIOUS
    <2> HIDE DEF e
    <2>3. /\ DOMAIN alog' = 1..(Len(alog) + 1) /\ DOMAIN alog = 1..Len(alog)
          /\ \A k \in 1..Len(alog) : alog'[k] = alog[k]
          /\ alog'[Len(alog) + 1] = e /\ Len(alog) \in Nat
      BY <2>1, AppendProperties
    <2>4. Logged' \subseteq Logged \cup Announces(o, w)
      <3> SUFFICES ASSUME NEW k \in DOMAIN alog', New(k)'
                   PROVE  alog'[k].win \in Logged \cup Announces(o, w)
        BY DEF Logged
      <3>1. CASE k \in 1..Len(alog)
        BY <2>3, <3>1 DEF Logged, New
      <3>2. CASE k = Len(alog) + 1
        BY <2>2, <2>3, <3>2 DEF New, Announces
      <3> QED
        BY <2>3, <3>1, <3>2
    <2>5. ASSUME Announces(o, w) \cap Logged = {}, AnnouncedOnce, UNCHANGED loop PROVE AnnouncedOnce'
      <3>1. ASSUME NEW j \in DOMAIN alog', NEW k \in DOMAIN alog', New(j)', New(k)',
                   alog'[j].win = alog'[k].win
            PROVE  j = k
        <4>1. CASE j \in 1..Len(alog) /\ k \in 1..Len(alog)
          BY <2>3, <2>5, <3>1, <4>1 DEF AnnouncedOnce, New
        <4>2. CASE j \in 1..Len(alog) /\ k = Len(alog) + 1
          BY <2>2, <2>3, <2>5, <3>1, <4>2 DEF New, Logged, Announces
        <4>3. CASE j = Len(alog) + 1 /\ k \in 1..Len(alog)
          BY <2>2, <2>3, <2>5, <3>1, <4>3 DEF New, Logged, Announces
        <4> QED
          BY <2>3, <3>1, <4>1, <4>2, <4>3
      <3> QED
        BY <2>5, <3>1 DEF AnnouncedOnce, New
    <2> QED
      BY <1>2, <2>4, <2>5
  <1> QED
    BY <1>1, <1>2

LEMMA UserKeeps ==
    ASSUME TypeOK, WatchersInv, User, TypeOK'
    PROVE  WatchersInv'
  <1>1. UNCHANGED fmVars /\ UNCHANGED loop /\ UNCHANGED logging
    BY DEF User, NewWindow, DelWindow, Type, Get, Put, Rename
  <1>2. Opened' = Opened /\ Listed' = Listed /\ Opening' = Opening
    BY <1>1 DEF Opened, Listed, Opening, fmVars
  <1>3. StopChannelsClosedOnce'
    BY <1>1 DEF WatchersInv, StopChannelsClosedOnce, fmVars
  \* It is enough to look at what a step logs, and at which window it makes.
  <1>4. ASSUME NEW o \in {"new", "del", "get", "put"}, NEW w \in Wins, LogEvent(o, w),
               o = "new" => window[w] = "unborn",
               \A v \in Wins : window'[v] = "unborn" => window[v] = "unborn" /\ ~(v = w /\ o = "new")
        PROVE  WatchersInv'
    <2>1. tag' \in [Wins -> Names]
      BY DEF TypeOK, AcmeTypeOK
    <2>2. Announces(o, w) \cap (Logged \cup Opened \cup Opening \cup Listed) = {}
      BY <1>4 DEF Announces, WatchersInv, BornFirst
    <2>3. Logged' \subseteq Logged \cup Announces(o, w) /\ AnnouncedOnce' /\ (~logging => alog' = alog)
      BY <1>1, <1>4, <2>1, <2>2, LogSteps DEF WatchersInv
    <2>4. OpenedOnceInv'
      BY <1>2, <2>2, <2>3 DEF WatchersInv, OpenedOnceInv
    <2>5. BornFirst'
      <3>1. \A v \in Announces(o, w) : v \in Wins /\ window'[v] # "unborn"
        BY <1>4 DEF Announces
      <3>2. Opened \cup Logged \cup Listed \cup Opening \subseteq Wins
        BY WinsInSets
      <3> QED
        BY <1>2, <1>4, <2>3, <3>1, <3>2 DEF WatchersInv, BornFirst
    <2>6. ListBeforeLog'
      BY <1>1, <1>2, <2>3 DEF WatchersInv, ListBeforeLog
    <2> QED
      BY <1>3, <2>3, <2>4, <2>5, <2>6 DEF WatchersInv
  <1>5. ASSUME NEW w \in Wins, NEW n \in Names, NewWindow(w, n) PROVE WatchersInv'
    BY <1>4, <1>5 DEF NewWindow, TypeOK, AcmeTypeOK
  <1>6. ASSUME NEW w \in Wins, DelWindow(w) PROVE WatchersInv'
    BY <1>4, <1>6 DEF DelWindow, TypeOK, AcmeTypeOK
  <1>7. ASSUME NEW w \in Wins, Get(w) \/ Put(w) PROVE WatchersInv'
    BY <1>4, <1>7 DEF Get, Put
  <1>8. ASSUME NEW w \in Wins, Type(w) \/ \E n \in Names : Rename(w, n) PROVE WatchersInv'
    BY <1>1, <1>8, StillKeeps DEF Type, Rename, fmVars
  <1> QED
    BY <1>5, <1>6, <1>7, <1>8 DEF User

-----------------------------------------------------------------------------
(* The steps of the event loop that announce, open or close.               *)

LEMMA ListKeeps ==
    ASSUME TypeOK, WatchersInv, ListWindows \/ BootNext \/ OpenLog
    PROVE  WatchersInv'
  <1>0. UNCHANGED <<window, alog, watchers, closed>> /\ Opened' = Opened /\ Logged' = Logged
    BY DEF ListWindows, BootNext, OpenLog, acmeVars, fmVars, Opened, Logged, New
  <1>1. StopChannelsClosedOnce'
    BY <1>0 DEF WatchersInv, StopChannelsClosedOnce
  <1>2. CASE ListWindows
    <2> DEFINE live == {u \in Wins : window[u] = "live"}
    <2>1. /\ loop'.pc = "boot" /\ loop'.list = {[win |-> w, name |-> tag[w]] : w \in live}
          /\ UNCHANGED logging
      BY <1>2 DEF ListWindows, acmeVars, TypeOK, LoopTypeOK, Loops
    <2>2. Listed' \subseteq live /\ Opening' = {}
      BY <2>1 DEF Listed, Opening, OpenSteps
    <2>3. Opened = {} /\ Logged = {} /\ ~logging /\ alog = <<>>
      BY <1>2 DEF ListWindows, WatchersInv, ListBeforeLog, Logged
    <2>4. AnnouncedOnce'
      BY <1>0, <2>1 DEF WatchersInv, AnnouncedOnce, New
    <2>5. OpenedOnceInv' /\ BornFirst'
      BY <1>0, <2>2, <2>3 DEF OpenedOnceInv, BornFirst
    <2>6. ListBeforeLog'
      BY <1>0, <2>1, <2>3 DEF ListBeforeLog
    <2> QED
      BY <1>1, <2>4, <2>5, <2>6 DEF WatchersInv
  <1>3. CASE BootNext
    <2>1. PICK f \in loop.list :
             loop' = [loop EXCEPT !.pc = "open", !.win = f.win, !.name = f.name, !.list = @ \ {f}]
      BY <1>3 DEF BootNext
    <2>2. loop'.pc = "open" /\ loop'.win = f.win /\ loop'.list = loop.list \ {f} /\ UNCHANGED logging
      BY <1>3, <2>1 DEF BootNext, acmeVars, TypeOK, LoopTypeOK, Loops
    <2>3. Opening' = {f.win} /\ Listed' \subseteq Listed /\ f.win \in Listed
      BY <2>2 DEF Opening, OpenSteps, Listed
    <2>4. f.win \notin Listed'
      BY <2>2 DEF Listed, WatchersInv, AnnouncedOnce
    <2>5. AnnouncedOnce'
      BY <1>0, <2>2 DEF WatchersInv, AnnouncedOnce, New
    <2>6. ListBeforeLog' /\ Logged = {}
      BY <1>0, <2>2 DEF WatchersInv, ListBeforeLog, Logged
    <2>7. OpenedOnceInv' /\ BornFirst'
      BY <1>0, <2>3, <2>4, <2>6 DEF WatchersInv, OpenedOnceInv, BornFirst
    <2> QED
      BY <1>1, <2>5, <2>6, <2>7 DEF WatchersInv
  <1>4. CASE OpenLog
    <2>1. loop'.list = {} /\ loop'.pc = "read" /\ logging' = TRUE
      BY <1>4 DEF OpenLog, Idle
    <2>2. Listed' = {} /\ Opening' = {}
      BY <2>1 DEF Listed, Opening, OpenSteps
    <2>3. AnnouncedOnce' /\ ListBeforeLog'
      BY <1>0, <2>1 DEF WatchersInv, AnnouncedOnce, New, ListBeforeLog
    <2>4. OpenedOnceInv' /\ BornFirst'
      BY <1>0, <2>2 DEF WatchersInv, OpenedOnceInv, BornFirst
    <2> QED
      BY <1>1, <2>3, <2>4 DEF WatchersInv
  <1> QED
    BY <1>2, <1>3, <1>4

\* The window of a "new" event goes from the log to the loop.
LEMMA ReadKeeps ==
    ASSUME TypeOK, WatchersInv, ReadEvent
    PROVE  WatchersInv'
  <1> DEFINE ev == Head(alog)
  <1>1. /\ alog \in Seq(Events) /\ alog # <<>> /\ alog' = Tail(alog)
        /\ UNCHANGED <<window, logging, watchers, closed>>
    BY DEF ReadEvent, fmVars, TypeOK, AcmeTypeOK
  <1>2. /\ DOMAIN alog = 1..Len(alog) /\ DOMAIN alog' = 1..(Len(alog) - 1)
        /\ \A k \in DOMAIN alog' : alog'[k] = alog[k + 1]
        /\ Len(alog) \in Nat /\ 1 \in DOMAIN alog /\ ev = alog[1] /\ ev \in Events
    BY <1>1, HeadTailProperties
  <1>3. loop'.pc = Handler(ev.op) /\ loop'.win = ev.win /\ loop'.list = loop.list
    BY DEF ReadEvent, TypeOK, LoopTypeOK, Loops
  <1>4. loop'.pc # "list" /\ (loop'.pc \in OpenSteps => ev.op = "new")
    BY <1>2, <1>3 DEF Handler, Events, OpenSteps
  <1> HIDE DEF ev
  <1>5. Opened' = Opened /\ Listed' = Listed
    BY <1>1, <1>3 DEF Opened, Listed
  <1>6. Logged' \subseteq Logged
    <2> SUFFICES ASSUME NEW k \in DOMAIN alog', New(k)' PROVE alog'[k].win \in Logged
      BY DEF Logged
    <2> QED
      BY <1>2 DEF Logged, New
  <1>7. Opening' \subseteq Logged
    BY <1>2, <1>3, <1>4 DEF Opening, Logged, New
  <1>8. Opening' \cap Logged' = {}
    <2> SUFFICES ASSUME ev.op = "new", NEW k \in DOMAIN alog', New(k)', alog'[k].win = ev.win
                 PROVE  FALSE
      BY <1>3, <1>4 DEF Opening, Logged
    <2>1. k + 1 \in DOMAIN alog /\ New(k + 1) /\ New(1) /\ alog[k + 1].win = alog[1].win /\ k + 1 # 1
      BY <1>2 DEF New
    <2> QED
      BY <1>2, <2>1 DEF WatchersInv, AnnouncedOnce
  <1>9. Listed = {}
    BY <1>1 DEF WatchersInv, ListBeforeLog, Listed
  <1>10. OpenedOnceInv'
    BY <1>5, <1>6, <1>7, <1>8, <1>9 DEF WatchersInv, OpenedOnceInv
  <1>11. BornFirst'
    BY <1>1, <1>5, <1>6, <1>7 DEF WatchersInv, BornFirst
  <1>12. AnnouncedOnce'
    <2>1. ASSUME NEW j \in DOMAIN alog', NEW k \in DOMAIN alog', New(j)', New(k)',
                 alog'[j].win = alog'[k].win
          PROVE  j = k
      <3>1. /\ j + 1 \in DOMAIN alog /\ k + 1 \in DOMAIN alog /\ New(j + 1) /\ New(k + 1)
            /\ alog[j + 1].win = alog[k + 1].win
        BY <1>2, <2>1 DEF New
      <3>2. j + 1 = k + 1
        BY <3>1 DEF WatchersInv, AnnouncedOnce
      <3> QED
        BY <1>2, <3>2
    <2> QED
      BY <1>3, <2>1 DEF WatchersInv, AnnouncedOnce, New
  <1>13. StopChannelsClosedOnce' /\ ListBeforeLog'
    BY <1>1, <1>3, <1>4 DEF WatchersInv, StopChannelsClosedOnce, ListBeforeLog
  <1> QED
    BY <1>10, <1>11, <1>12, <1>13 DEF WatchersInv

\* A window that has been opened is opened no more.
LEMMA WatchKeeps ==
    ASSUME TypeOK, WatchersInv, DidOpenWatch
    PROVE  WatchersInv'
  <1>1. LoopStill /\ UNCHANGED <<window, alog, logging, closed>>
    BY DoneStill DEF DidOpenWatch, acmeVars
  <1>2. CASE UNCHANGED watchers
    BY <1>1, <1>2, StillKeeps
  <1>3. CASE watchers' = [watchers EXCEPT ![loop.name] = loop.win]
    <2>1. loop.win \in Opening /\ Opening = {loop.win} /\ loop.win \in Wins /\ loop.name \in Names
      BY DEF DidOpenWatch, Opening, OpenSteps, TypeOK, LoopTypeOK, Loops
    <2>2. Opened' \subseteq Opened \cup {loop.win} /\ loop.win \notin Opened
      <3>1. loop.win \notin Opened
        BY <2>1 DEF WatchersInv, OpenedOnceInv
      <3> QED
        BY <1>1, <1>3, <2>1, <3>1 DEF Opened, TypeOK, ManagerTypeOK
    <2>3. loop'.pc \notin OpenSteps
      BY DEF DidOpenWatch, Done, Idle, OpenSteps
    <2>4. Opening' = {} /\ Listed' \subseteq Listed /\ Logged' = Logged
      BY <1>1, <2>3 DEF Opening, Listed, Logged, New, LoopStill
    <2>5. OpenedOnceInv' /\ BornFirst'
      BY <1>1, <2>1, <2>2, <2>4 DEF WatchersInv, OpenedOnceInv, BornFirst
    <2>6. StopChannelsClosedOnce'
      <3>1. \A n \in Names : watchers[n] # loop.win
        BY <2>1, <2>2, WinsAssumption DEF Opened
      <3>2. loop.win \notin closed
        BY <2>1, <2>2, WinsAssumption DEF Opened
      <3> QED
        BY <1>1, <1>3, <2>1, <3>1, <3>2 DEF WatchersInv, StopChannelsClosedOnce, TypeOK, ManagerTypeOK
    <2>7. AnnouncedOnce' /\ ListBeforeLog'
      BY <1>1 DEF WatchersInv, AnnouncedOnce, New, ListBeforeLog, LoopStill
    <2> QED
      BY <2>5, <2>6, <2>7 DEF WatchersInv
  <1> QED
    BY <1>2, <1>3 DEF DidOpenWatch

\* A stop channel leaves the map when it is closed.
LEMMA CloseKeeps ==
    ASSUME TypeOK, WatchersInv, DidClose
    PROVE  WatchersInv'
  <1>1. UNCHANGED <<window, alog, logging>>
    BY DEF DidClose, acmeVars
  <1>2. LoopStill
    BY GotoStill, DoneStill DEF DidClose, LoopSteps, OpenSteps
  <1>3. /\ closed' = closed \cup ({watchers[loop.name]} \ {NoWin})
        /\ watchers' = [watchers EXCEPT ![loop.name] = NoWin]
        /\ loop.name \in Names /\ watchers \in [Names -> Wins \cup {NoWin}]
    BY DEF DidClose, TypeOK, LoopTypeOK, Loops, ManagerTypeOK
  <1>4. Opened' \subseteq Opened
    BY <1>3 DEF Opened
  <1>5. Opening' \subseteq Opening /\ Listed' \subseteq Listed /\ Logged' = Logged
    BY <1>1, <1>2 DEF Opening, Listed, Logged, New, LoopStill
  <1>6. OpenedOnceInv' /\ BornFirst'
    BY <1>1, <1>4, <1>5 DEF WatchersInv, OpenedOnceInv, BornFirst
  <1>7. StopChannelsClosedOnce'
    BY <1>3 DEF WatchersInv, StopChannelsClosedOnce
  <1>8. AnnouncedOnce' /\ ListBeforeLog'
    BY <1>1, <1>2, <1>4 DEF WatchersInv, AnnouncedOnce, New, ListBeforeLog, LoopStill
  <1> QED
    BY <1>6, <1>7, <1>8 DEF WatchersInv

-----------------------------------------------------------------------------
LEMMA LoopKeeps ==
    ASSUME TypeOK, WatchersInv, Loop
    PROVE  WatchersInv'
  <1> USE GotoStill, DoneStill, SaveStill, StillKeeps DEF LoopSteps, OpenSteps
  <1>1. CASE ListWindows \/ BootNext \/ OpenLog
    BY <1>1, ListKeeps
  <1>2. CASE ReadEvent
    BY <1>2, ReadKeeps
  <1>3. CASE DidOpenWin \/ DidOpenSend
    BY <1>3 DEF DidOpenWin, DidOpenSend, acmeVars, fmVars
  <1>4. CASE DidOpenLock
    <2>1. CASE loop' = [loop EXCEPT !.pc = "openSend", !.text = body[loop.win]]
      <3>1. LoopStill
        BY <1>4, <2>1 DEF DidOpenLock, LoopStill, TypeOK, LoopTypeOK, Loops
      <3> QED
        BY <1>4, <3>1 DEF DidOpenLock, acmeVars
    <2>2. CASE Done(FALSE)
      BY <1>4, <2>2 DEF DidOpenLock, acmeVars
    <2> QED
      BY <1>4, <2>1, <2>2 DEF DidOpenLock
  <1>5. CASE DidOpenWatch
    BY <1>5, WatchKeeps
  <1>6. CASE DidClose
    BY <1>6, CloseKeeps
  <1>7. CASE DidCloseSend \/ DidChangeSend \/ DidSaveSend \/ DidSave
    BY <1>7 DEF DidCloseSend, DidChangeSend, DidSaveSend, DidSave, acmeVars, fmVars
  <1>8. CASE DidChangeRead \/ DidChangeAlloc \/ DidSaveLookup \/ DidSaveRead \/ DidSaveAlloc
    <2>1. LoopStill
      BY <1>8 DEF DidChangeRead, DidChangeAlloc, DidSaveLookup, DidSaveRead, DidSaveAlloc,
         LoopStill, TypeOK, LoopTypeOK, Loops
    <2> QED
      BY <1>8, <2>1 DEF DidChangeRead, DidChangeAlloc, DidSaveLookup, DidSaveRead, DidSaveAlloc, acmeVars, fmVars
  <1>9. CASE FormatLock \/ FormatChange \/ FormatEdit
    BY <1>9 DEF FormatLock, FormatChange, FormatEdit, acmeVars, fmVars
  <1>10. CASE FormatActions
    <2>1. LoopStill
      <3>1. \/ Done(TRUE) \/ Goto("formatEdit")
            \/ loop' = [loop EXCEPT !.pc = "formatChange", !.text = body'[loop.win]]
        BY <1>10 DEF FormatActions
      <3>2. CASE loop' = [loop EXCEPT !.pc = "formatChange", !.text = body'[loop.win]]
        BY <3>2 DEF LoopStill, TypeOK, LoopTypeOK, Loops
      <3> QED
        BY <3>1, <3>2
    <2> QED
      BY <1>10, <2>1 DEF FormatActions
  <1> QED
    BY <1>1, <1>2, <1>3, <1>4, <1>5, <1>6, <1>7, <1>8, <1>9, <1>10 DEF Loop

LEMMA WatchersInvNext == TypeOK /\ TypeOK' /\ WatchersInv /\ [Next]_vars => WatchersInv'
  <1> SUFFICES ASSUME TypeOK, TypeOK', WatchersInv, [Next]_vars PROVE WatchersInv'
    OBVIOUS
  <1> USE StillKeeps
  <1>1. CASE User
    BY <1>1, UserKeeps
  <1>2. CASE Loop
    BY <1>2, LoopKeeps
  <1>3. CASE Remote \/ ServerExit
    BY <1>3 DEF Remote, RemoteRead, RemoteSend, Request, ServerExit, acmeVars, fmVars
  <1>4. ASSUME NEW w \in Wins, Watcher(w) PROVE WatchersInv'
    BY <1>4 DEF Watcher, WatchTick, WatchStop, acmeVars, fmVars
  <1>5. ASSUME NEW i \in Notifiers, Notifier(i) PROVE WatchersInv'
    BY <1>5 DEF Notifier, NotifyLookup, NotifyAlloc, NotifySend, acmeVars, fmVars
  <1>6. ASSUME NEW r \in Resyncers, Resync(r) PROVE WatchersInv'
    BY <1>6 DEF Resync, ResyncInit, ResyncList, ResyncSnapshot, ResyncDone, ReopenWin, ReopenReset,
       ReopenRead, ReopenSend, acmeVars, fmVars
  <1>7. CASE UNCHANGED vars
    BY <1>7 DEF vars, acmeVars, fmVars
  <1> QED
    BY <1>1, <1>2, <1>3, <1>4, <1>5, <1>6, <1>7 DEF Next

LEMMA InitWatchers == Init => WatchersInv
  BY WinsAssumption DEF Init, WatchersInv, StopChannelsClosedOnce, AnnouncedOnce, OpenedOnceInv, BornFirst,
     ListBeforeLog, Opened, Logged, Listed, Opening, New, OpenSteps, Idle

\* close(stop) in didClose never meets a channel that is closed already
\* (files.go:435), for any number of windows, names and restarts, with
\* duplicate window names, renames and a gap between Windows() and Log().
THEOREM NoChannelClosedTwice == Spec => []StopChannelsClosedOnce
  <1>1. Init => WatchersInv
    BY InitWatchers
  <1>2. TypeOK /\ TypeOK' /\ WatchersInv /\ [Next]_vars => WatchersInv'
    BY WatchersInvNext
  <1>3. WatchersInv => StopChannelsClosedOnce
    BY DEF WatchersInv
  <1> QED
    BY <1>1, <1>2, <1>3, TypeCorrect, PTL DEF Spec

-----------------------------------------------------------------------------
(* While the server is up no file is opened twice.                         *)

OnceInv == OpenedOnce /\ (loop.pc = "openSend" => ~server[loop.name].open)

\* Where the loop is about to open a file, and where it is not.
ToOpen == {"openLock", "openSend", "openWatch"}
LoopElsewhere == loop.pc \notin {"openSend", "openWatch"} /\ loop'.pc \notin ToOpen

LEMMA LoopOpens ==
    ASSUME TypeOK, Loop
    PROVE  DidOpenWin \/ DidOpenLock \/ DidOpenSend \/ DidOpenWatch \/ LoopElsewhere
  <1> USE GotoMoves, DoneMoves, SaveMoves DEF LoopSteps, LoopElsewhere, ToOpen
  <1>1. CASE ListWindows \/ BootNext
    BY <1>1 DEF ListWindows, BootNext, TypeOK, LoopTypeOK, Loops
  <1>2. CASE OpenLog
    BY <1>2 DEF OpenLog, Idle
  <1>3. CASE ReadEvent
    <2>1. Head(alog) \in Events
      BY <1>3 DEF ReadEvent, TypeOK, AcmeTypeOK
    <2>2. Handler(Head(alog).op) \in {"open", "close", "change", "save"}
      BY <2>1 DEF Handler, Events
    <2>3. loop'.pc = Handler(Head(alog).op)
      BY <1>3 DEF ReadEvent, TypeOK, LoopTypeOK, Loops
    <2> QED
      BY <1>3, <2>2, <2>3 DEF ReadEvent
  <1>4. CASE DidClose \/ DidCloseSend
    BY <1>4 DEF DidClose, DidCloseSend
  <1>5. CASE DidChangeRead \/ DidChangeAlloc \/ DidSaveLookup \/ DidSaveRead \/ DidSaveAlloc
    BY <1>5 DEF DidChangeRead, DidChangeAlloc, DidSaveLookup, DidSaveRead, DidSaveAlloc, TypeOK, LoopTypeOK, Loops
  <1>6. CASE DidChangeSend \/ DidSaveSend \/ DidSave
    BY <1>6 DEF DidChangeSend, DidSaveSend, DidSave
  <1>7. CASE FormatLock \/ FormatActions \/ FormatChange \/ FormatEdit
    <2>1. loop'.pc \notin ToOpen
      BY <1>7 DEF FormatLock, FormatActions, FormatChange, FormatEdit, TypeOK, LoopTypeOK, Loops
    <2> QED
      BY <1>7, <2>1 DEF FormatLock, FormatActions, FormatChange, FormatEdit
  <1> QED
    BY <1>1, <1>2, <1>3, <1>4, <1>5, <1>6, <1>7 DEF Loop

\* Who changes what the loop tracks and watches.
LEMMA OpenersTrack ==
    ASSUME [Next]_vars
    PROVE  /\ DidOpenLock \/ DidClose \/ UNCHANGED docStates
           /\ DidOpenWatch \/ DidClose \/ UNCHANGED <<watchers, closed>>
           /\ DidOpenWatch \/ (\E w \in Wins : Watcher(w)) \/ UNCHANGED watch
  <1>1. CASE Loop
    BY <1>1 DEF Loop, ListWindows, BootNext, OpenLog, ReadEvent, DidOpenWin, DidOpenLock, DidOpenSend,
       DidOpenWatch, DidClose, DidCloseSend, DidChangeRead, DidChangeAlloc, DidChangeSend, DidSaveLookup,
       DidSaveRead, DidSaveAlloc, DidSaveSend, DidSave, FormatLock, FormatActions, FormatChange, FormatEdit, fmVars
  <1>2. CASE User
    BY <1>2 DEF User, NewWindow, DelWindow, Type, Get, Put, Rename, fmVars
  <1>3. CASE Remote \/ ServerExit \/ UNCHANGED vars
    BY <1>3 DEF Remote, RemoteRead, RemoteSend, Request, ServerExit, vars, fmVars
  <1>4. CASE \E w \in Wins : Watcher(w)
    BY <1>4 DEF Watcher, WatchTick, WatchStop, fmVars
  <1>5. CASE \E i \in Notifiers : Notifier(i)
    BY <1>5 DEF Notifier, NotifyLookup, NotifyAlloc, NotifySend, fmVars
  <1>6. CASE \E r \in Resyncers : Resync(r)
    BY <1>6 DEF Resync, ResyncInit, ResyncList, ResyncSnapshot, ResyncDone, ReopenWin, ReopenReset,
       ReopenRead, ReopenSend, fmVars
  <1> QED
    BY <1>1, <1>2, <1>3, <1>4, <1>5, <1>6 DEF Next

\* acme makes a window once, and a deleted one is gone for good.
LEMMA WindowsAge ==
    ASSUME TypeOK, [Next]_vars, NEW w \in Wins
    PROVE  /\ window[w] # "unborn" => window'[w] # "unborn"
           /\ window[w] # "unborn" /\ window'[w] = "live" => window[w] = "live"
           /\ window[w] = "gone" => window'[w] = "gone"
  <1>1. CASE User
    <2>1. ASSUME NEW u \in Wins, NEW n \in Names, NewWindow(u, n)
          PROVE  window' = [window EXCEPT ![u] = "live"] /\ window[u] = "unborn"
      BY <2>1 DEF NewWindow
    <2>2. ASSUME NEW u \in Wins, DelWindow(u)
          PROVE  window' = [window EXCEPT ![u] = "gone"] /\ window[u] = "live"
      BY <2>2 DEF DelWindow
    <2>3. ASSUME NEW u \in Wins, Type(u) \/ Get(u) \/ Put(u) \/ \E n \in Names : Rename(u, n)
          PROVE  UNCHANGED window
      BY <2>3 DEF Type, Get, Put, Rename
    <2>4. window \in [Wins -> {"unborn", "live", "gone"}]
      BY DEF TypeOK, AcmeTypeOK
    <2> QED
      BY <1>1, <2>1, <2>2, <2>3, <2>4 DEF User
  <1>2. CASE ~User
    BY <1>2, OthersLeaveWindows
  <1> QED
    BY <1>1, <1>2

\* The documents of the server are opened by the loop alone.
LEMMA OpenersOpen ==
    ASSUME MaxCrashes = 0, TypeOK, [Next]_vars, ~DidOpenSend, NEW n \in Names
    PROVE  /\ server'[n].open => server[n].open
           /\ "reopened" \in breaches' => "reopened" \in breaches
  <1>t. /\ loop.name \in Names /\ loop.text \in Texts /\ loop.ver \in Nat /\ 0 \in Nat
        /\ remote.name \in Names /\ remote.text \in Texts
        /\ \A i \in Notifiers : notify[i].name \in Names /\ notify[i].text \in Texts /\ notify[i].ver \in Nat
    BY DEF TypeOK, LoopTypeOK, Loops, ThreadTypeOK, Notifies, Remotes
  <1>1. ASSUME NEW m \in Names, NEW v \in Nat, NEW t \in Texts,
               ServerChange(m, v, t) \/ ServerSave(m) \/ ServerClose(m)
        PROVE  (server'[n].open => server[n].open) /\ ("reopened" \in breaches' => "reopened" \in breaches)
    <2>1. "reopened" \in breaches' => "reopened" \in breaches
      BY <1>1 DEF ServerChange, Receive, ServerSave, ServerClose, Breach
    <2>2. server'[n].open => server[n].open
      BY <1>1, ServerSteps DEF ServerSave, ServerClose, NotOpen, TypeOK, ServerTypeOK, Documents
    <2> QED
      BY <2>1, <2>2
  <1>2. CASE DidCloseSend \/ DidChangeSend \/ DidSaveSend \/ DidSave \/ FormatChange
    BY <1>1, <1>2, <1>t DEF DidCloseSend, DidChangeSend, DidSaveSend, DidSave, FormatChange
  <1>3. CASE Loop /\ ~(DidCloseSend \/ DidChangeSend \/ DidSaveSend \/ DidSave \/ FormatChange)
    BY <1>3 DEF Loop, ListWindows, BootNext, OpenLog, ReadEvent, DidOpenWin, DidOpenLock,
       DidOpenWatch, DidClose, DidChangeRead, DidChangeAlloc, DidSaveLookup, DidSaveRead, DidSaveAlloc,
       FormatLock, FormatActions, FormatEdit, serverVars
  <1>4. CASE User \/ UNCHANGED vars
    BY <1>4 DEF User, NewWindow, DelWindow, Type, Get, Put, Rename, serverVars, vars
  <1>5. CASE Remote
    <2>1. CASE RemoteSend
      <3>1. PICK d \in Documents : Receive(remote.name, d)
        BY <2>1, RemoteMessage
      <3>2. server'[n].open => server[n].open
        BY <1>t, <3>1, ServerSteps
      <3> QED
        BY <3>1, <3>2 DEF Receive, Breach
    <2>2. CASE UNCHANGED <<server, breaches>>
      BY <2>2
    <2> QED
      BY <1>5, <2>1, <2>2 DEF Remote, RemoteRead, Request, serverVars
  <1>6. CASE \E w \in Wins : Watcher(w)
    BY <1>6 DEF Watcher, WatchTick, WatchStop, serverVars
  <1>7. ASSUME NEW i \in Notifiers, Notifier(i)
        PROVE  (server'[n].open => server[n].open) /\ ("reopened" \in breaches' => "reopened" \in breaches)
    BY <1>1, <1>7, <1>t DEF Notifier, NotifyLookup, NotifyAlloc, NotifySend, serverVars
  <1> QED
    BY <1>2, <1>3, <1>4, <1>5, <1>6, <1>7, NoCrash DEF Next

LEMMA OnceNext == MaxCrashes = 0 /\ TypeOK /\ OpenInv /\ OnceInv /\ [Next]_vars => OnceInv'
  <1> SUFFICES ASSUME MaxCrashes = 0, TypeOK, OpenInv, OnceInv, [Next]_vars PROVE OnceInv'
    OBVIOUS
  <1>t. loop.name \in Names /\ loop \in Loops
    BY DEF TypeOK, LoopTypeOK, Loops
  <1>1. CASE DidOpenSend
    <2>1. "reopened" \notin breaches'
      BY <1>1 DEF DidOpenSend, ServerOpen, OnceInv, OpenedOnce
    <2>2. loop'.pc # "openSend"
      BY <1>1, GotoMoves, DoneMoves DEF DidOpenSend, LoopSteps
    <2> QED
      BY <2>1, <2>2 DEF OnceInv, OpenedOnce
  <1>2. CASE DidOpenLock
    <2>1. "reopened" \notin breaches'
      BY <1>2 DEF DidOpenLock, serverVars, OnceInv, OpenedOnce
    <2>2. UNCHANGED server
      BY <1>2 DEF DidOpenLock, serverVars
    <2>3. ASSUME loop'.pc = "openSend" PROVE ~server[loop.name].open /\ loop'.name = loop.name
      <3>1. docStates[loop.name] = NoWin /\ loop' = [loop EXCEPT !.pc = "openSend", !.text = body[loop.win]]
        BY <1>2, <2>3, DoneMoves DEF DidOpenLock
      <3>2. loop'.name = loop.name /\ loop.pc = "openLock"
        BY <1>2, <1>t, <3>1 DEF DidOpenLock, Loops
      <3> QED
        BY <1>t, <3>1, <3>2 DEF OpenInv, OpenIsTracked
    <2> QED
      BY <2>1, <2>2, <2>3 DEF OnceInv, OpenedOnce
  <1>3. CASE ~DidOpenSend /\ ~DidOpenLock
    <2>1. "reopened" \notin breaches'
      BY <1>3, <1>t, OpenersOpen DEF OnceInv, OpenedOnce
    <2>2. UNCHANGED loop \/ loop'.pc # "openSend"
      <3>1. CASE DidOpenWin
        BY <3>1, GotoMoves, DoneMoves DEF DidOpenWin, LoopSteps
      <3>2. CASE DidOpenWatch
        BY <3>2, DoneMoves DEF DidOpenWatch
      <3> QED
        BY <1>3, <3>1, <3>2, LoopOpens, OthersLeaveLoop DEF LoopElsewhere, ToOpen
    <2>3. server'[loop.name].open => server[loop.name].open
      BY <1>3, <1>t, OpenersOpen
    <2> QED
      BY <2>1, <2>2, <2>3 DEF OnceInv, OpenedOnce
  <1> QED
    BY <1>1, <1>2, <1>3

\* As long as the server does not exit, the FileManager never sends a didOpen
\* for a document that is open: neither windows of one name, nor renames, nor
\* events logged while the windows were being listed make it do so.
THEOREM NothingIsOpenedTwice ==
    ASSUME MaxCrashes = 0
    PROVE  Spec => []OpenedOnce
  <1>1. Init => OpenInv /\ OnceInv
    BY DEF Init, OpenInv, OpenIsTracked, OnceInv, OpenedOnce, NotOpen, Idle
  <1>2. TypeOK /\ OpenInv /\ OnceInv /\ [Next]_vars => OpenInv' /\ OnceInv'
    BY OpenInvNext, OnceNext
  <1>3. OnceInv => OpenedOnce
    BY DEF OnceInv
  <1> QED
    BY <1>1, <1>2, <1>3, TypeCorrect, PTL DEF Spec

(***************************************************************************)
(*                                 Tracking                                *)
(***************************************************************************)

-----------------------------------------------------------------------------
(* Tracked files are opened again on a restarted server, as long as nobody *)
(* edits a tag and live windows have different names.                      *)

\* Where a window is named, by an event or a register or as the owner of a
\* docState, it has been made and has that name in its tag.
Is(w, n) == window[w] # "unborn" /\ tag[w] = n
Handling == loop.pc \notin {"list", "boot", "exited", "read"}
TagsInv ==
    /\ NamesDiffer(window, tag)
    /\ \A n \in Names : docStates[n] # NoWin => Is(docStates[n], n)
    /\ \A f \in loop.list : Is(f.win, f.name)
    /\ \A k \in DOMAIN alog : Is(alog[k].win, alog[k].name)
    /\ Handling => Is(loop.win, loop.name)

\* A running ResyncFiles has still to reopen n.
WillReopen(r, n) ==
    LET f == [win |-> docStates[n], name |-> n]
    IN  \/ resync[r].pc = "list"
        \/ resync[r].pc \in {"snapshot", "next", "reset", "readAll", "send"} /\ f \in resync[r].todo
        \/ /\ resync[r].pc \in {"reset", "readAll", "send"}
           /\ resync[r].win = docStates[n] /\ resync[r].name = n

\* A tracked file is open on a running server, or is about to be.
Tracked(n) == docStates[n] # NoWin /\ window[docStates[n]] = "live"
Covered(n) ==
    \/ server[n].open
    \/ loop.pc = "openSend" /\ loop.name = n
    \/ \E r \in Resyncers : WillReopen(r, n)
CoveredInv == serverUp => \A n \in Names : Tracked(n) => Covered(n)

RestartInv ==
    /\ serverUp \/ \E r \in Resyncers : resync[r].pc = "init"
    /\ \A r \in Resyncers : resync[r].pc = "snapshot" =>
          \A f, g \in resync[r].todo : f.name = g.name => f = g
    /\ loop.pc = "closeSend" => docStates[loop.name] = NoWin

\* The loop goes on with the same window, or ends its handler.
Proceeds ==
    /\ loop'.list \subseteq loop.list
    /\ Handling' => Handling /\ loop'.win = loop.win /\ loop'.name = loop.name

LEMMA GotoProceeds ==
    ASSUME TypeOK, NEW pc \in LoopSteps, Goto(pc), Handling
    PROVE  Proceeds
  BY DEF Goto, Proceeds, TypeOK, LoopTypeOK, Loops

LEMMA DoneProceeds ==
    ASSUME TypeOK, NEW ok \in BOOLEAN, Done(ok)
    PROVE  Proceeds
  BY DEF Done, Idle, Proceeds, Handling

LEMMA SaveProceeds ==
    ASSUME TypeOK, SaveReturns, Handling
    PROVE  Proceeds
  BY GotoProceeds, DoneProceeds DEF SaveReturns, LoopSteps

LEMMA LoopProceeds ==
    ASSUME TypeOK, Loop
    PROVE  ListWindows \/ BootNext \/ OpenLog \/ ReadEvent \/ Proceeds
  <1> USE GotoProceeds, DoneProceeds, SaveProceeds DEF LoopSteps
  <1>1. CASE DidOpenWin \/ DidOpenSend \/ DidOpenWatch \/ DidClose \/ DidCloseSend
    <2>1. Handling
      BY <1>1 DEF DidOpenWin, DidOpenSend, DidOpenWatch, DidClose, DidCloseSend, Handling
    <2> QED
      BY <1>1, <2>1 DEF DidOpenWin, DidOpenSend, DidOpenWatch, DidClose, DidCloseSend
  <1>2. CASE DidOpenLock
    <2>1. Done(FALSE) \/ loop' = [loop EXCEPT !.pc = "openSend", !.text = body[loop.win]]
      BY <1>2 DEF DidOpenLock
    <2> QED
      BY <1>2, <2>1 DEF DidOpenLock, Handling, Proceeds, TypeOK, LoopTypeOK, Loops
  <1>3. CASE DidChangeSend \/ DidSaveSend \/ DidSave \/ FormatLock \/ FormatChange \/ FormatEdit
    <2>1. Handling
      BY <1>3 DEF DidChangeSend, DidSaveSend, DidSave, FormatLock, FormatChange, FormatEdit, Handling
    <2> QED
      BY <1>3, <2>1 DEF DidChangeSend, DidSaveSend, DidSave, FormatLock, FormatChange, FormatEdit
  <1>4. CASE DidChangeRead \/ DidChangeAlloc \/ DidSaveLookup \/ DidSaveRead \/ DidSaveAlloc
    <2>1. Handling
      BY <1>4 DEF DidChangeRead, DidChangeAlloc, DidSaveLookup, DidSaveRead, DidSaveAlloc, Handling
    <2>2. Done(TRUE) \/ SaveReturns \/
             (loop'.win = loop.win /\ loop'.name = loop.name /\ loop'.list = loop.list)
      BY <1>4 DEF DidChangeRead, DidChangeAlloc, DidSaveLookup, DidSaveRead, DidSaveAlloc,
         TypeOK, LoopTypeOK, Loops
    <2> QED
      BY <2>1, <2>2 DEF Proceeds
  <1>5. CASE FormatActions
    <2>1. Handling
      BY <1>5 DEF FormatActions, Handling
    <2>2. \/ Done(TRUE) \/ Goto("formatEdit")
          \/ loop' = [loop EXCEPT !.pc = "formatChange", !.text = body'[loop.win]]
      BY <1>5 DEF FormatActions
    <2> QED
      BY <2>1, <2>2 DEF Proceeds, TypeOK, LoopTypeOK, Loops
  <1> QED
    BY <1>1, <1>2, <1>3, <1>4, <1>5 DEF Loop

LEMMA InitTags == Init => TagsInv
  BY DEF Init, TagsInv, Handling, Idle

\* Without renames a window keeps its name once it is made, and one that is
\* gone does not come back.
LEMMA NoRename == ASSUME MaxRenames = 0, TypeOK PROVE \A w \in Wins, n \in Names : ~Rename(w, n)
  BY DEF Rename, TypeOK, AcmeTypeOK, Budgets

LEMMA WindowsStay ==
    ASSUME MaxRenames = 0, TypeOK, [Next]_vars, NEW w \in Wins, window[w] # "unborn"
    PROVE  window'[w] # "unborn" /\ tag'[w] = tag[w] /\ (window'[w] = "live" => window[w] = "live")
  <1>1. ASSUME NEW u \in Wins, NEW n \in Names, NewWindow(u, n)
        PROVE  window'[w] # "unborn" /\ tag'[w] = tag[w] /\ (window'[w] = "live" => window[w] = "live")
    BY <1>1 DEF NewWindow, TypeOK, AcmeTypeOK
  <1>2. ASSUME NEW u \in Wins, DelWindow(u)
        PROVE  window'[w] # "unborn" /\ tag'[w] = tag[w] /\ (window'[w] = "live" => window[w] = "live")
    BY <1>2 DEF DelWindow, TypeOK, AcmeTypeOK
  <1>3. ASSUME NEW u \in Wins, Type(u) \/ Get(u) \/ Put(u)
        PROVE  UNCHANGED <<window, tag>>
    BY <1>3 DEF Type, Get, Put
  <1> QED
    BY <1>1, <1>2, <1>3, NoRename, OthersLeaveWindows DEF User

StillIs(w, n) == window'[w] # "unborn" /\ tag'[w] = n

LEMMA IsStays ==
    ASSUME MaxRenames = 0, TypeOK, [Next]_vars, NEW w \in Wins, NEW n, Is(w, n)
    PROVE  StillIs(w, n)
  BY WindowsStay DEF Is, StillIs

\* Where windows are named.
LEMMA NamedWindows ==
    ASSUME TypeOK
    PROVE  /\ \A n \in Names : docStates[n] # NoWin => docStates[n] \in Wins
           /\ \A f \in loop.list : f.win \in Wins
           /\ alog \in Seq(Events) /\ DOMAIN alog = 1..Len(alog) /\ Len(alog) \in Nat
           /\ \A k \in DOMAIN alog : alog[k] \in Events /\ alog[k].win \in Wins
           /\ Handling => loop.win \in Wins
           /\ loop.name \in Names
  <1>1. alog \in Seq(Events) /\ \A k \in DOMAIN alog : alog[k] \in Events
    BY DEF TypeOK, AcmeTypeOK
  <1>2. DOMAIN alog = 1..Len(alog) /\ Len(alog) \in Nat
    BY <1>1, LenProperties
  <1>3. \A n \in Names : docStates[n] # NoWin => docStates[n] \in Wins
    BY DEF TypeOK, ManagerTypeOK
  <1>4. /\ \A f \in loop.list : f.win \in Wins
        /\ Handling => loop.win \in Wins
        /\ loop.name \in Names
    BY DEF TypeOK, LoopTypeOK, Loops, Files, Handling
  <1> QED
    BY <1>1, <1>2, <1>3, <1>4 DEF Events

\* What is left of TagsInv once the user has been looked at.
LEMMA UserTags ==
    ASSUME MaxRenames = 0, TypeOK, TypeOK', TagsInv, User
    PROVE  TagsInv'
  <1>1. UNCHANGED <<docStates, loop>> /\ (Handling' <=> Handling)
    BY DEF User, NewWindow, DelWindow, Type, Get, Put, Rename, fmVars, Handling
  <1>2. \A w \in Wins : \A n : Is(w, n) => StillIs(w, n)
    BY IsStays DEF Next
  <1>3. /\ \A n \in Names : docStates'[n] # NoWin => StillIs(docStates[n], n)
        /\ \A f \in loop'.list : StillIs(f.win, f.name)
        /\ Handling' => StillIs(loop.win, loop.name)
    BY <1>1, <1>2, NamedWindows DEF TagsInv
  <1>4. NamesDiffer(window, tag)'
    <2>1. ASSUME NEW w \in Wins, DelWindow(w) PROVE NamesDiffer(window, tag)'
      BY <2>1 DEF DelWindow, NamesDiffer, TagsInv, TypeOK, AcmeTypeOK
    <2>2. ASSUME NEW w \in Wins, Type(w) \/ Get(w) \/ Put(w) PROVE NamesDiffer(window, tag)'
      BY <2>2 DEF Type, Get, Put, NamesDiffer, TagsInv
    <2>3. ASSUME NEW w \in Wins, NEW n \in Names, NewWindow(w, n) PROVE NamesDiffer(window, tag)'
      BY <2>3 DEF NewWindow, NamesDiffer
    <2> QED
      BY <2>1, <2>2, <2>3, NoRename DEF User
  <1>5. ASSUME NEW o \in {"new", "del", "get", "put"}, NEW w \in Wins, LogEvent(o, w), window'[w] # "unborn"
        PROVE  \A k \in DOMAIN alog' : StillIs(alog'[k].win, alog'[k].name)
    <2>1. CASE ~logging
      BY <1>2, <1>5, <2>1, NamedWindows DEF LogEvent, TagsInv
    <2>2. CASE logging
      <3> DEFINE e == [op |-> o, win |-> w, name |-> tag'[w]]
      <3>1. e \in Events /\ StillIs(e.win, e.name) /\ alog' = Append(alog, e)
        BY <1>5, <2>2 DEF Events, StillIs, LogEvent, TypeOK, AcmeTypeOK
      <3> HIDE DEF e
      <3>2. \A k \in DOMAIN alog' : alog'[k] = e \/ (k \in DOMAIN alog /\ alog'[k] = alog[k])
        BY <3>1, NamedWindows, AppendProperties
      <3>3. ASSUME NEW k \in DOMAIN alog' PROVE StillIs(alog'[k].win, alog'[k].name)
        <4>1. CASE alog'[k] = e
          BY <3>1, <4>1 DEF StillIs
        <4>2. CASE k \in DOMAIN alog /\ alog'[k] = alog[k]
          <5>1. alog[k].win \in Wins /\ Is(alog[k].win, alog[k].name)
            BY <4>2, NamedWindows DEF TagsInv
          <5>2. StillIs(alog[k].win, alog[k].name)
            BY <1>2, <4>2, <5>1
          <5> QED
            BY <4>2, <5>2
        <4> QED
          BY <3>2, <4>1, <4>2
      <3> QED
        BY <3>3
    <2> QED
      BY <2>1, <2>2
  <1>6. \A k \in DOMAIN alog' : StillIs(alog'[k].win, alog'[k].name)
    <2>1. ASSUME NEW w \in Wins, NEW n \in Names, NewWindow(w, n)
          PROVE  \A k \in DOMAIN alog' : StillIs(alog'[k].win, alog'[k].name)
      BY <1>5, <2>1 DEF NewWindow, TypeOK, AcmeTypeOK
    <2>2. ASSUME NEW w \in Wins, DelWindow(w)
          PROVE  \A k \in DOMAIN alog' : StillIs(alog'[k].win, alog'[k].name)
      BY <1>5, <2>2 DEF DelWindow, TypeOK, AcmeTypeOK
    <2>3. ASSUME NEW w \in Wins, Get(w) \/ Put(w)
          PROVE  \A k \in DOMAIN alog' : StillIs(alog'[k].win, alog'[k].name)
      BY <1>5, <2>3 DEF Get, Put, TypeOK, AcmeTypeOK
    <2>4. ASSUME NEW w \in Wins, Type(w)
          PROVE  \A k \in DOMAIN alog' : StillIs(alog'[k].win, alog'[k].name)
      BY <1>2, <2>4, NamedWindows DEF Type, TagsInv
    <2> QED
      BY <2>1, <2>2, <2>3, <2>4, NoRename DEF User
  <1> QED
    BY <1>1, <1>3, <1>4, <1>6 DEF TagsInv, Is, StillIs

LEMMA TagsNext == MaxRenames = 0 /\ TypeOK /\ TypeOK' /\ TagsInv /\ [Next]_vars => TagsInv'
  <1> SUFFICES ASSUME MaxRenames = 0, TypeOK, TypeOK', TagsInv, [Next]_vars, ~User PROVE TagsInv'
    BY UserTags
  <1>1. UNCHANGED <<window, tag>>
    BY OthersLeaveWindows
  <1>2. NamesDiffer(window, tag)'
    BY <1>1 DEF TagsInv, NamesDiffer
  \* Who else touches what: the loop.
  <1>3. ASSUME UNCHANGED <<docStates, loop, alog>> PROVE TagsInv'
    BY <1>1, <1>2, <1>3 DEF TagsInv, Is, Handling
  <1>4. CASE ListWindows
    <2>1. loop'.list = {[win |-> w, name |-> tag[w]] : w \in {u \in Wins : window[u] = "live"}} /\ loop'.pc = "boot"
      BY <1>4 DEF ListWindows, TypeOK, LoopTypeOK, Loops
    <2>2. \A f \in loop'.list : Is(f.win, f.name)
      BY <2>1 DEF Is
    <2>3. UNCHANGED <<docStates, alog>>
      BY <1>4 DEF ListWindows, acmeVars, fmVars
    <2> QED
      BY <1>1, <1>2, <2>1, <2>2, <2>3 DEF TagsInv, Is, Handling
  <1>5. CASE BootNext
    <2>1. PICK f \in loop.list :
             loop' = [loop EXCEPT !.pc = "open", !.win = f.win, !.name = f.name, !.list = @ \ {f}]
      BY <1>5 DEF BootNext
    <2>2. loop'.win = f.win /\ loop'.name = f.name /\ loop'.list \subseteq loop.list
      BY <2>1 DEF TypeOK, LoopTypeOK, Loops
    <2>3. UNCHANGED <<docStates, alog>>
      BY <1>5 DEF BootNext, acmeVars, fmVars
    <2> QED
      BY <1>1, <1>2, <2>2, <2>3 DEF TagsInv, Is
  <1>6. CASE OpenLog
    BY <1>1, <1>2, <1>6 DEF OpenLog, Idle, Handling, TagsInv, Is, fmVars
  <1>7. CASE ReadEvent
    <2>1. /\ alog # <<>> /\ alog' = Tail(alog) /\ UNCHANGED docStates
          /\ loop'.win = Head(alog).win /\ loop'.name = Head(alog).name /\ loop'.list = loop.list
      BY <1>7 DEF ReadEvent, fmVars, TypeOK, LoopTypeOK, Loops
    <2>2. /\ 1 \in DOMAIN alog /\ Head(alog) = alog[1]
          /\ \A k \in DOMAIN alog' : k + 1 \in DOMAIN alog /\ alog'[k] = alog[k + 1]
      BY <2>1, NamedWindows, HeadTailProperties, EmptySeq
    <2> QED
      BY <1>1, <1>2, <2>1, <2>2 DEF TagsInv, Is
  <1>8. CASE Loop /\ ~ListWindows /\ ~BootNext /\ ~OpenLog /\ ~ReadEvent
    <2>1. Proceeds
      BY <1>8, LoopProceeds
    <2>2. UNCHANGED alog
      BY <1>8 DEF Loop, DidOpenWin, DidOpenLock, DidOpenSend, DidOpenWatch, DidClose, DidCloseSend, DidChangeRead,
         DidChangeAlloc, DidChangeSend, DidSaveLookup, DidSaveRead, DidSaveAlloc, DidSaveSend, DidSave,
         FormatLock, FormatActions, FormatChange, FormatEdit, acmeVars
    <2>3. \A n \in Names : docStates'[n] # NoWin => Is(docStates'[n], n)
      <3>1. CASE UNCHANGED docStates
        BY <3>1 DEF TagsInv
      <3>2. CASE DidOpenLock /\ docStates' = [docStates EXCEPT ![loop.name] = loop.win]
        BY <3>2 DEF DidOpenLock, Handling, TagsInv, TypeOK, ManagerTypeOK
      <3>3. CASE DidClose
        BY <3>3 DEF DidClose, TagsInv, TypeOK, ManagerTypeOK
      <3> QED
        BY <1>8, <3>1, <3>2, <3>3 DEF Loop, DidOpenWin, DidOpenLock, DidOpenSend, DidOpenWatch, DidCloseSend,
           DidChangeRead, DidChangeAlloc, DidChangeSend, DidSaveLookup, DidSaveRead, DidSaveAlloc, DidSaveSend,
           DidSave, FormatLock, FormatActions, FormatChange, FormatEdit, fmVars
    <2> QED
      BY <1>1, <1>2, <2>1, <2>2, <2>3 DEF TagsInv, Is, Proceeds
  <1>9. CASE Remote \/ ServerExit \/ UNCHANGED vars
    BY <1>3, <1>9 DEF Remote, RemoteRead, RemoteSend, Request, ServerExit, vars, acmeVars, fmVars
  <1>10. CASE \E w \in Wins : Watcher(w)
    BY <1>3, <1>10 DEF Watcher, WatchTick, WatchStop, acmeVars, fmVars
  <1>11. CASE \E i \in Notifiers : Notifier(i)
    BY <1>3, <1>11 DEF Notifier, NotifyLookup, NotifyAlloc, NotifySend, acmeVars, fmVars
  <1>12. CASE \E r \in Resyncers : Resync(r)
    BY <1>3, <1>12 DEF Resync, ResyncInit, ResyncList, ResyncSnapshot, ResyncDone, ReopenWin, ReopenReset,
       ReopenRead, ReopenSend, acmeVars, fmVars
  <1> QED
    BY <1>4, <1>5, <1>6, <1>7, <1>8, <1>9, <1>10, <1>11, <1>12 DEF Next

\* Documents that stay open on a server that is up.
LEMMA ServerKeeps ==
    ASSUME TypeOK, serverUp, NEW n \in Names, NEW v \in Nat, NEW t \in Texts, NEW m \in Names, server[m].open
    PROVE  /\ \A d \in Documents : Receive(n, d) /\ d.open = server[n].open => server'[m].open
           /\ ServerChange(n, v, t) => server'[m].open
           /\ ServerSave(n) => server'[m].open
           /\ ServerOpen(n, t) => server'[m].open
           /\ ServerClose(n) /\ m # n => server'[m].open
  <1>1. \A d \in Documents : Receive(n, d) /\ d.open = server[n].open => server'[m].open
    BY DEF Receive, TypeOK, ServerTypeOK, Documents
  <1>2. ServerChange(n, v, t) => server'[m].open
    BY DEF ServerChange, Receive, Document, TypeOK, ServerTypeOK, Documents
  <1>3. /\ ServerSave(n) => server'[m].open
        /\ ServerOpen(n, t) => server'[m].open
        /\ ServerClose(n) /\ m # n => server'[m].open
    BY DEF ServerSave, ServerOpen, ServerClose, NotOpen, Document, TypeOK, ServerTypeOK, Documents
  <1> QED
    BY <1>1, <1>2, <1>3

\* A file that is tracked stays so, or its window goes away.
LEMMA TrackedStays ==
    ASSUME MaxRenames = 0, TypeOK, TagsInv, [Next]_vars, NEW n \in Names, docStates'[n] = docStates[n], Tracked(n)'
    PROVE  Tracked(n) /\ tag[docStates[n]] = n
  BY WindowsStay DEF Tracked, TagsInv, Is, TypeOK, ManagerTypeOK

\* A step that neither tracks a file nor closes one on the server.
LEMMA CoveredStays ==
    ASSUME MaxRenames = 0, TypeOK, TagsInv, CoveredInv, [Next]_vars,
           serverUp' => serverUp, UNCHANGED <<docStates, resync>>,
           serverUp => \A n \in Names : server[n].open => server'[n].open,
           UNCHANGED loop \/ loop.pc # "openSend"
    PROVE  CoveredInv'
  <1> SUFFICES ASSUME serverUp', NEW n \in Names, Tracked(n)' PROVE Covered(n)'
    BY DEF CoveredInv
  <1>1. Covered(n)
    BY TrackedStays DEF CoveredInv
  <1>2. \A r \in Resyncers : WillReopen(r, n) => WillReopen(r, n)'
    BY DEF WillReopen
  <1> QED
    BY <1>1, <1>2 DEF Covered

LEMMA LoopCovers ==
    ASSUME MaxRenames = 0, TypeOK, TagsInv, RestartInv, CoveredInv, Loop
    PROVE  CoveredInv'
  <1>0. Next
    BY DEF Next
  <1>1. UNCHANGED <<serverUp, resync, window>>
    BY DEF Loop, ListWindows, BootNext, OpenLog, ReadEvent, DidOpenWin, DidOpenLock, DidOpenSend, DidOpenWatch,
       DidClose, DidCloseSend, DidChangeRead, DidChangeAlloc, DidChangeSend, DidSaveLookup, DidSaveRead,
       DidSaveAlloc, DidSaveSend, DidSave, FormatLock, FormatActions, FormatChange, FormatEdit, acmeVars, serverVars
  <1>t. loop.name \in Names /\ loop.text \in Texts /\ loop.ver \in Nat
    BY DEF TypeOK, LoopTypeOK, Loops
  \* What it takes for a file that is neither opened nor closed.
  <1>2. ASSUME serverUp', NEW n \in Names, Tracked(n)', docStates'[n] = docStates[n],
               loop.pc = "openSend" => n # loop.name,
               server[n].open => server'[n].open
        PROVE  Covered(n)'
    <2>1. Covered(n)
      BY <1>0, <1>1, <1>2, TrackedStays DEF CoveredInv
    <2>2. \A r \in Resyncers : WillReopen(r, n) => WillReopen(r, n)'
      BY <1>1, <1>2 DEF WillReopen
    <2> QED
      BY <1>2, <2>1, <2>2 DEF Covered
  <1>3. CASE DidOpenLock
    <2> SUFFICES ASSUME serverUp', NEW n \in Names, Tracked(n)' PROVE Covered(n)'
      BY DEF CoveredInv
    <2>1. UNCHANGED server /\ loop.pc # "openSend"
      BY <1>3 DEF DidOpenLock, serverVars
    <2>2. CASE docStates'[n] = docStates[n]
      BY <1>2, <2>1, <2>2
    <2>3. CASE docStates'[n] # docStates[n]
      <3>1. n = loop.name /\ docStates'[n] = loop.win
        BY <1>3, <1>t, <2>3 DEF DidOpenLock, TypeOK, ManagerTypeOK
      <3>2. window[loop.win] = "live"
        BY <1>1, <3>1 DEF Tracked
      <3>3. loop' = [loop EXCEPT !.pc = "openSend", !.text = body[loop.win]]
        BY <1>3, <2>3, <3>2 DEF DidOpenLock
      <3>4. loop'.pc = "openSend" /\ loop'.name = n
        BY <3>1, <3>3 DEF TypeOK, LoopTypeOK, Loops
      <3> QED
        BY <3>4 DEF Covered
    <2> QED
      BY <2>2, <2>3
  <1>4. CASE DidOpenSend
    <2> SUFFICES ASSUME serverUp', NEW n \in Names, Tracked(n)' PROVE Covered(n)'
      BY DEF CoveredInv
    <2>1. CASE n = loop.name
      <3>1. server'[n].open
        BY <1>1, <1>4, <1>t, <2>1 DEF DidOpenSend, ServerOpen, Document, TypeOK, ServerTypeOK
      <3> QED
        BY <3>1 DEF Covered
    <2>2. CASE n # loop.name
      BY <1>1, <1>2, <1>4, <1>t, <2>2, ServerKeeps DEF DidOpenSend
    <2> QED
      BY <2>1, <2>2
  <1>5. CASE DidClose
    <2> SUFFICES ASSUME serverUp', NEW n \in Names, Tracked(n)' PROVE Covered(n)'
      BY DEF CoveredInv
    <2>1. UNCHANGED server /\ loop.pc # "openSend"
      BY <1>5 DEF DidClose, serverVars
    <2>2. docStates'[n] = docStates[n]
      BY <1>5, <1>t DEF DidClose, Tracked, TypeOK, ManagerTypeOK
    <2> QED
      BY <1>2, <2>1, <2>2
  <1>6. CASE DidCloseSend
    <2> SUFFICES ASSUME serverUp', NEW n \in Names, Tracked(n)' PROVE Covered(n)'
      BY DEF CoveredInv
    <2>1. docStates'[n] = docStates[n] /\ loop.pc # "openSend" /\ n # loop.name
      BY <1>6 DEF DidCloseSend, fmVars, RestartInv, Tracked
    <2>2. server[n].open => server'[n].open
      BY <1>1, <1>6, <1>t, <2>1, ServerKeeps DEF DidCloseSend
    <2> QED
      BY <1>2, <2>1, <2>2
  <1>7. CASE DidChangeSend \/ DidSaveSend \/ DidSave \/ FormatChange
    <2>1. UNCHANGED docStates /\ loop.pc # "openSend"
      BY <1>7 DEF DidChangeSend, DidSaveSend, DidSave, FormatChange, fmVars
    <2>2. serverUp => \A n \in Names : server[n].open => server'[n].open
      BY <1>7, <1>t, ServerKeeps DEF DidChangeSend, DidSaveSend, DidSave, FormatChange
    <2> QED
      BY <1>0, <1>1, <2>1, <2>2, CoveredStays
  <1>8. CASE \/ ListWindows \/ BootNext \/ OpenLog \/ ReadEvent \/ DidOpenWin \/ DidOpenWatch
             \/ DidChangeRead \/ DidChangeAlloc \/ DidSaveLookup \/ DidSaveRead \/ DidSaveAlloc
             \/ FormatLock \/ FormatActions \/ FormatEdit
    <2>1. UNCHANGED <<docStates, server>> /\ loop.pc # "openSend"
      BY <1>8 DEF ListWindows, BootNext, OpenLog, ReadEvent, DidOpenWin, DidOpenWatch, DidChangeRead,
         DidChangeAlloc, DidSaveLookup, DidSaveRead, DidSaveAlloc, FormatLock, FormatActions, FormatEdit,
         fmVars, serverVars
    <2> QED
      BY <1>0, <1>1, <2>1, CoveredStays
  <1> QED
    BY <1>3, <1>4, <1>5, <1>6, <1>7, <1>8 DEF Loop

\* Each step of ResyncFiles keeps the files it has still to reopen.
LEMMA ResyncCovers ==
    ASSUME MaxRenames = 0, ~Doubles, TypeOK, TagsInv, RestartInv, CoveredInv, NEW r \in Resyncers, Resync(r)
    PROVE  CoveredInv'
  <1> SUFFICES ASSUME serverUp', NEW n \in Names, Tracked(n)' PROVE Covered(n)'
    BY DEF CoveredInv
  <1>0. UNCHANGED <<window, tag, docStates, loop>>
    BY DEF Resync, ResyncInit, ResyncList, ResyncSnapshot, ResyncDone, ReopenWin, ReopenReset,
       ReopenRead, ReopenSend, acmeVars, fmVars
  <1>1. Tracked(n) /\ tag[docStates[n]] = n /\ docStates[n] \in Wins
    BY <1>0 DEF Tracked, TagsInv, Is, TypeOK, ManagerTypeOK
  <1>r. resync \in [Resyncers -> Resyncs] /\ resync[r] \in Resyncs
    BY DEF TypeOK, ThreadTypeOK
  <1>f. PICK f : f = [win |-> docStates[n], name |-> n]
    OBVIOUS
  <1>w. \A s \in Resyncers :
           /\ WillReopen(s, n) <=>
                 \/ resync[s].pc = "list"
                 \/ resync[s].pc \in {"snapshot", "next", "reset", "readAll", "send"} /\ f \in resync[s].todo
                 \/ resync[s].pc \in {"reset", "readAll", "send"} /\ resync[s].win = f.win /\ resync[s].name = f.name
           /\ WillReopen(s, n)' <=>
                 \/ resync'[s].pc = "list"
                 \/ resync'[s].pc \in {"snapshot", "next", "reset", "readAll", "send"} /\ f \in resync'[s].todo
                 \/ resync'[s].pc \in {"reset", "readAll", "send"} /\ resync'[s].win = f.win /\ resync'[s].name = f.name
    BY <1>0, <1>f DEF WillReopen
  <1>o. \A s \in Resyncers : s # r => resync'[s] = resync[s]
    BY <1>r DEF Resync, ResyncInit, ResyncList, ResyncSnapshot, ResyncDone, ReopenWin, ReopenReset,
       ReopenRead, ReopenSend
  \* It is enough to look at r's own record.
  <1>2. ASSUME serverUp, \A m \in Names : server[m].open => server'[m].open,
               WillReopen(r, n) => WillReopen(r, n)' \/ server'[n].open
        PROVE  Covered(n)'
    <2>1. Covered(n)
      BY <1>1, <1>2 DEF CoveredInv
    <2>2. ASSUME NEW s \in Resyncers, s # r, WillReopen(s, n) PROVE WillReopen(s, n)'
      BY <1>o, <1>w, <2>2
    <2> QED
      BY <1>0, <1>2, <2>1, <2>2 DEF Covered
  <1>3. CASE ResyncInit(r)
    <2>1. resync'[r].pc = "list"
      BY <1>3, <1>r DEF ResyncInit, Resyncs
    <2> QED
      BY <1>w, <2>1 DEF Covered
  <1>4. CASE ResyncList(r)
    <2>1. UNCHANGED <<serverUp, server>>
      BY <1>4 DEF ResyncList, serverVars
    <2>2. /\ resync'[r].pc = "snapshot"
          /\ resync'[r].todo = {[win |-> w, name |-> tag[w]] : w \in {u \in Wins : window[u] = "live"}}
      BY <1>4, <1>r DEF ResyncList, Resyncs
    <2>3. f \in resync'[r].todo
      BY <1>1, <1>f, <2>2 DEF Tracked
    <2> QED
      BY <1>2, <1>w, <2>1, <2>2, <2>3
  <1>5. CASE ResyncSnapshot(r)
    <2>1. UNCHANGED <<serverUp, server>> /\ resync[r].pc = "snapshot"
      BY <1>5 DEF ResyncSnapshot, serverVars
    <2>2. PICK todo \in SUBSET resync[r].todo :
             /\ \A g \in resync[r].todo : docStates[g.name] # NoWin => \E h \in todo : h.name = g.name
             /\ resync' = [resync EXCEPT ![r].pc = "next", ![r].todo = todo]
      BY <1>5 DEF ResyncSnapshot
    <2>3. resync'[r].pc = "next" /\ resync'[r].todo = todo
      BY <1>r, <2>2 DEF Resyncs
    <2>4. ASSUME f \in resync[r].todo PROVE f \in todo
      <3>1. PICK h \in todo : h.name = f.name
        BY <1>1, <1>f, <2>2, <2>4 DEF Tracked
      <3> QED
        BY <2>1, <2>2, <2>4, <3>1 DEF RestartInv
    <2> QED
      BY <1>2, <1>w, <2>1, <2>3, <2>4
  <1>6. CASE ResyncDone(r)
    <2>1. UNCHANGED <<serverUp, server>> /\ resync[r].pc = "next" /\ resync[r].todo = {}
      BY <1>6 DEF ResyncDone, serverVars
    <2> QED
      BY <1>2, <1>w, <2>1
  <1>7. CASE ReopenWin(r)
    <2>1. UNCHANGED <<serverUp, server>> /\ resync[r].pc = "next"
      BY <1>7 DEF ReopenWin, serverVars
    <2>2. PICK g \in resync[r].todo :
             resync' = [resync EXCEPT ![r].pc = IF window[g.win] = "live" THEN "reset" ELSE "next",
                                      ![r].win = g.win, ![r].name = g.name, ![r].todo = @ \ {g}]
      BY <1>7, Zenon DEF ReopenWin
    <2>3. /\ resync'[r].pc = (IF window[g.win] = "live" THEN "reset" ELSE "next")
          /\ resync'[r].win = g.win /\ resync'[r].name = g.name /\ resync'[r].todo = resync[r].todo \ {g}
      BY <1>r, <2>2 DEF Resyncs
    <2>4. ASSUME f \in resync[r].todo PROVE WillReopen(r, n)'
      <3>1. CASE f = g
        BY <1>1, <1>f, <1>w, <2>3, <3>1 DEF Tracked
      <3>2. CASE f # g
        BY <1>w, <2>3, <2>4, <3>2
      <3> QED
        BY <3>1, <3>2
    <2> QED
      BY <1>2, <1>w, <2>1, <2>4
  <1>8. CASE ReopenReset(r)
    <2>1. UNCHANGED <<serverUp, server>> /\ resync[r].pc = "reset"
      BY <1>8 DEF ReopenReset, serverVars
    <2>2. /\ resync'[r].todo = resync[r].todo /\ resync'[r].win = resync[r].win /\ resync'[r].name = resync[r].name
          /\ resync'[r].pc = (IF docStates[resync[r].name] = NoWin THEN "next" ELSE "readAll")
      BY <1>8, <1>r DEF ReopenReset, Resyncs
    <2> QED
      BY <1>1, <1>2, <1>f, <1>w, <2>1, <2>2 DEF Tracked
  <1>9. CASE ReopenRead(r)
    <2>1. UNCHANGED <<serverUp, server>> /\ resync[r].pc = "readAll"
      BY <1>9 DEF ReopenRead, serverVars
    <2>2. /\ resync'[r].todo = resync[r].todo /\ resync'[r].win = resync[r].win /\ resync'[r].name = resync[r].name
          /\ resync'[r].pc = (IF window[resync[r].win] = "live" THEN "send" ELSE "next")
      BY <1>9, <1>r DEF ReopenRead, Resyncs
    <2> QED
      BY <1>1, <1>2, <1>f, <1>w, <2>1, <2>2 DEF Tracked
  <1>10. CASE ReopenSend(r)
    <2>1. serverUp' = serverUp /\ resync[r].pc = "send" /\ resync[r].name \in Names /\ resync[r].text \in Texts
      BY <1>10, <1>r DEF ReopenSend, Resyncs
    <2>2. resync'[r].todo = resync[r].todo /\ resync'[r].pc = "next"
      BY <1>10, <1>r DEF ReopenSend, Resyncs
    <2>3. \A m \in Names : server[m].open => server'[m].open
      BY <1>10, <2>1, ServerKeeps DEF ReopenSend
    <2>4. server'[resync[r].name].open
      BY <1>10, <2>1 DEF ReopenSend, ServerOpen, Document, TypeOK, ServerTypeOK
    <2> QED
      BY <1>2, <1>f, <1>w, <2>1, <2>2, <2>3, <2>4
  <1> QED
    BY <1>3, <1>4, <1>5, <1>6, <1>7, <1>8, <1>9, <1>10 DEF Resync

\* Who else changes what RestartInv is about.
LEMMA OthersLeaveResyncs ==
    ASSUME [Next]_vars, ~ServerExit, \A r \in Resyncers : ~Resync(r)
    PROVE  UNCHANGED <<serverUp, resync>>
  <1>1. CASE User
    BY <1>1 DEF User, NewWindow, DelWindow, Type, Get, Put, Rename, serverVars
  <1>2. CASE Remote \/ UNCHANGED vars
    BY <1>2 DEF Remote, RemoteRead, RemoteSend, Request, vars, serverVars
  <1>3. CASE \E w \in Wins : Watcher(w)
    BY <1>3 DEF Watcher, WatchTick, WatchStop, serverVars
  <1>4. CASE \E i \in Notifiers : Notifier(i)
    BY <1>4 DEF Notifier, NotifyLookup, NotifyAlloc, NotifySend, serverVars
  <1>5. CASE Loop
    BY <1>5 DEF Loop, ListWindows, BootNext, OpenLog, ReadEvent, DidOpenWin, DidOpenLock, DidOpenSend,
       DidOpenWatch, DidClose, DidCloseSend, DidChangeRead, DidChangeAlloc, DidChangeSend, DidSaveLookup,
       DidSaveRead, DidSaveAlloc, DidSaveSend, DidSave, FormatLock, FormatActions, FormatChange, FormatEdit,
       serverVars
  <1> QED
    BY <1>1, <1>2, <1>3, <1>4, <1>5 DEF Next

\* The loop comes to send a didClose only when it has dropped the docState.
LEMMA LoopCloses ==
    ASSUME TypeOK, Loop, loop'.pc = "closeSend"
    PROVE  docStates'[loop'.name] = NoWin
  <1>1. \A pc \in LoopSteps : Goto(pc) => loop'.pc = pc /\ loop'.name = loop.name
    BY DEF Goto, TypeOK, LoopTypeOK, Loops
  <1>2. \A ok \in BOOLEAN : ~Done(ok)
    <2>1. ASSUME NEW ok \in BOOLEAN, Done(ok) PROVE loop'.pc \in {"read", "boot", "exited"}
      BY <2>1 DEF Done, Idle
    <2> QED
      BY <2>1
  <1>3. ~SaveReturns
    BY <1>1, <1>2 DEF SaveReturns, LoopSteps
  <1>4. CASE DidClose
    <2>1. docStates' = [docStates EXCEPT ![loop.name] = NoWin] /\ loop'.name = loop.name
      BY <1>1, <1>2, <1>4 DEF DidClose, LoopSteps, TypeOK, LoopTypeOK, Loops
    <2> QED
      BY <2>1 DEF TypeOK, ManagerTypeOK, LoopTypeOK, Loops
  <1>5. CASE ListWindows \/ BootNext \/ OpenLog \/ DidOpenWin \/ DidOpenLock \/ DidOpenSend \/ DidOpenWatch
    <2>1. CASE ListWindows \/ BootNext
      BY <2>1 DEF ListWindows, BootNext, TypeOK, LoopTypeOK, Loops
    <2>2. CASE OpenLog
      BY <2>2 DEF OpenLog, Idle
    <2>3. CASE DidOpenLock
      <3>1. loop' = [loop EXCEPT !.pc = "openSend", !.text = body[loop.win]]
        BY <1>2, <2>3 DEF DidOpenLock
      <3> QED
        BY <3>1 DEF TypeOK, LoopTypeOK, Loops
    <2>4. CASE DidOpenWin \/ DidOpenSend \/ DidOpenWatch
      BY <1>1, <1>2, <2>4 DEF DidOpenWin, DidOpenSend, DidOpenWatch, LoopSteps
    <2> QED
      BY <1>5, <2>1, <2>2, <2>3, <2>4
  <1>6. CASE ReadEvent
    <2>1. loop' = [loop EXCEPT !.pc = Handler(Head(alog).op), !.win = Head(alog).win, !.name = Head(alog).name]
      BY <1>6 DEF ReadEvent
    <2>2. Head(alog).op \in {"new", "del", "get", "put"}
      <3>1. alog \in Seq(Events) /\ alog # <<>>
        BY <1>6 DEF ReadEvent, TypeOK, AcmeTypeOK
      <3>2. Head(alog) \in Events
        BY <3>1, HeadTailProperties
      <3> QED
        BY <3>2 DEF Events
    <2>3. loop'.pc = Handler(Head(alog).op)
      BY <2>1 DEF TypeOK, LoopTypeOK, Loops
    <2> QED
      BY <2>2, <2>3 DEF Handler
  <1>7. CASE DidCloseSend \/ DidChangeRead \/ DidChangeAlloc \/ DidChangeSend
    BY <1>1, <1>2, <1>3, <1>7 DEF DidCloseSend, DidChangeRead, DidChangeAlloc, DidChangeSend, LoopSteps,
       TypeOK, LoopTypeOK, Loops
  <1>8. CASE DidSaveLookup \/ DidSaveRead \/ DidSaveAlloc \/ DidSaveSend \/ DidSave
    BY <1>1, <1>2, <1>3, <1>8 DEF DidSaveLookup, DidSaveRead, DidSaveAlloc, DidSaveSend, DidSave, LoopSteps,
       TypeOK, LoopTypeOK, Loops
  <1>9. CASE FormatLock \/ FormatActions \/ FormatChange \/ FormatEdit
    BY <1>1, <1>2, <1>3, <1>9 DEF FormatLock, FormatActions, FormatChange, FormatEdit, LoopSteps,
       TypeOK, LoopTypeOK, Loops
  <1> QED
    BY <1>4, <1>5, <1>6, <1>7, <1>8, <1>9 DEF Loop

LEMMA RestartNext ==
    ASSUME ~Doubles, TypeOK, TagsInv, RestartInv, [Next]_vars
    PROVE  RestartInv'
  <1>r. resync \in [Resyncers -> Resyncs]
    BY DEF TypeOK, ThreadTypeOK
  <1>1. (loop.pc = "closeSend" => docStates[loop.name] = NoWin)'
    BY LoopCloses, OthersLeaveLoop DEF RestartInv
  <1>2. CASE ServerExit
    <2>1. PICK k : k = used.crashes + 1
      OBVIOUS
    <2>2. k \in Resyncers
      BY <1>2, <2>1, BoundAssumption DEF ServerExit, Resyncers, TypeOK, AcmeTypeOK, Budgets
    <2>3. /\ resync'[k].pc = "init"
          /\ \A r \in Resyncers : r # k => resync'[r] = resync[r]
      BY <1>2, <1>r, <2>1, <2>2 DEF ServerExit, IdleResync
    <2> QED
      BY <1>1, <2>2, <2>3 DEF RestartInv
  <1>3. ASSUME NEW r \in Resyncers, Resync(r) PROVE RestartInv'
    <2>1. \A s \in Resyncers : s # r => resync'[s] = resync[s]
      BY <1>r, <1>3 DEF Resync, ResyncInit, ResyncList, ResyncSnapshot, ResyncDone, ReopenWin, ReopenReset,
         ReopenRead, ReopenSend
    <2>2. serverUp' \/ (serverUp' = serverUp /\ resync[r].pc # "init")
      BY <1>3 DEF Resync, ResyncInit, ResyncList, ResyncSnapshot, ResyncDone, ReopenWin, ReopenReset,
         ReopenRead, ReopenSend, serverVars
    <2>3. (serverUp \/ \E s \in Resyncers : resync[s].pc = "init")'
      BY <2>1, <2>2 DEF RestartInv
    <2>4. CASE ResyncList(r)
      <3>1. resync'[r].todo = {[win |-> w, name |-> tag[w]] : w \in {u \in Wins : window[u] = "live"}}
        BY <1>r, <2>4 DEF ResyncList, Resyncs
      <3>2. \A f, g \in resync'[r].todo : f.name = g.name => f = g
        BY <3>1 DEF TagsInv, NamesDiffer
      <3> QED
        BY <1>1, <2>1, <2>3, <3>2 DEF RestartInv
    <2>5. CASE ~ResyncList(r)
      <3>1. resync'[r].pc # "snapshot"
        <4>1. CASE ReopenWin(r)
          BY <1>r, <4>1 DEF ReopenWin, Resyncs
        <4> QED
          BY <1>r, <1>3, <2>5, <4>1 DEF Resync, ResyncInit, ResyncSnapshot, ResyncDone, ReopenReset, ReopenRead,
             ReopenSend, IdleResync, Resyncs
      <3> QED
        BY <1>1, <2>1, <2>3, <3>1 DEF RestartInv
    <2> QED
      BY <2>4, <2>5
  <1> QED
    BY <1>1, <1>2, <1>3, OthersLeaveResyncs DEF RestartInv

LEMMA CoveredNext ==
    ASSUME MaxRenames = 0, ~Doubles, TypeOK, TagsInv, RestartInv, CoveredInv, [Next]_vars
    PROVE  CoveredInv'
  <1>1. CASE User \/ UNCHANGED vars
    <2>1. UNCHANGED <<serverUp, server, docStates, resync, loop>>
      BY <1>1 DEF User, NewWindow, DelWindow, Type, Get, Put, Rename, vars, fmVars, serverVars
    <2> QED
      BY <2>1, CoveredStays
  <1>2. CASE Remote
    <2>1. UNCHANGED <<serverUp, docStates, resync, loop>>
      BY <1>2 DEF Remote, RemoteRead, RemoteSend, Request, fmVars, serverVars
    <2>2. remote.name \in Names /\ remote.text \in Texts
      BY DEF TypeOK, ThreadTypeOK, Remotes
    <2>3. serverUp => \A n \in Names : server[n].open => server'[n].open
      <3>1. CASE RemoteSend
        BY <2>2, <3>1, RemoteMessage, ServerKeeps
      <3>2. CASE UNCHANGED server
        BY <3>2
      <3> QED
        BY <1>2, <3>1, <3>2 DEF Remote, RemoteRead, Request, serverVars
    <2> QED
      BY <2>1, <2>3, CoveredStays
  <1>3. CASE ServerExit
    BY <1>3 DEF ServerExit, CoveredInv
  <1>4. CASE \E w \in Wins : Watcher(w)
    <2>1. UNCHANGED <<serverUp, server, docStates, resync, loop>>
      BY <1>4 DEF Watcher, WatchTick, WatchStop, fmVars, serverVars
    <2> QED
      BY <2>1, CoveredStays
  <1>5. CASE \E i \in Notifiers : Notifier(i)
    <2>1. UNCHANGED <<serverUp, docStates, resync, loop>>
      BY <1>5 DEF Notifier, NotifyLookup, NotifyAlloc, NotifySend, fmVars, serverVars
    <2>2. \A i \in Notifiers : notify[i].name \in Names /\ notify[i].text \in Texts /\ notify[i].ver \in Nat
      BY DEF TypeOK, ThreadTypeOK, Notifies
    <2>3. serverUp => \A n \in Names : server[n].open => server'[n].open
      BY <1>5, <2>2, ServerKeeps DEF Notifier, NotifyLookup, NotifyAlloc, NotifySend, serverVars
    <2> QED
      BY <2>1, <2>3, CoveredStays
  <1> QED
    BY <1>1, <1>2, <1>3, <1>4, <1>5, LoopCovers, ResyncCovers DEF Next

\* With distinct names and no renames, every tracked file of a live window is
\* open on the server whenever the FileManager has caught up, however often
\* and whenever the server has been restarted: in any number of restarts, and
\* wherever the event loop was, ResyncFiles or a didOpen that was under way
\* opens it.  Each hypothesis is needed: of two windows with one name,
\* ResyncFiles may pick the one that is deleted before it is read, and a
\* renamed window is listed under its new name.
THEOREM TrackedFilesAreReopened ==
    ASSUME ~Doubles, MaxRenames = 0
    PROVE  Spec => []TrackedIsOpen
  <1> DEFINE Inv == TagsInv /\ RestartInv /\ CoveredInv
  <1>1. Init => Inv
    <2> SUFFICES ASSUME Init PROVE Inv
      OBVIOUS
    <2>1. TagsInv
      BY InitTags
    <2>2. RestartInv /\ CoveredInv
      BY DEF Init, RestartInv, CoveredInv, Tracked, Idle, IdleResync
    <2> QED
      BY <2>1, <2>2
  <1>2. TypeOK /\ TypeOK' /\ Inv /\ [Next]_vars => Inv'
    BY TagsNext, RestartNext, CoveredNext
  <1>3. TypeOK /\ Inv => TrackedIsOpen
    <2> SUFFICES ASSUME TypeOK, Inv, Quiet, NEW n \in Served, docStates[n] # NoWin, window[docStates[n]] = "live"
                 PROVE  server[n].open
      BY DEF TrackedIsOpen
    <2>1. Covered(n)
      BY NamesAssumption DEF CoveredInv, Tracked, Quiet
    <2>2. \A r \in Resyncers : ~WillReopen(r, n)
      BY DEF Quiet, WillReopen
    <2> QED
      BY <2>1, <2>2 DEF Covered, Quiet
  <1> QED
    BY <1>1, <1>2, <1>3, TypeCorrect, PTL DEF Spec

-----------------------------------------------------------------------------
(* What is tracked once the log has been read.                             *)

\* Where a window w of name n is announced: it owns the docState (-1), the
\* loop is about to open it (0), or a position of the log.  And where it is
\* deleted: the loop is closing it (0), or a position of the log.
ToTrack == {"open", "openLock"}

Ann(n, i, w) ==
    \/ i = -1 /\ docStates[n] = w
    \/ i = 0 /\ loop.pc \in ToTrack /\ loop.name = n /\ loop.win = w
    \/ i \in DOMAIN alog /\ alog[i].op = "new" /\ alog[i].name = n /\ alog[i].win = w

Del(n, k, w) ==
    \/ k = 0 /\ loop.pc = "close" /\ loop.name = n /\ loop.win = w
    \/ k \in DOMAIN alog /\ alog[k].op = "del" /\ alog[k].name = n /\ alog[k].win = w

\* A window that is announced deleted is gone, one that is live is announced,
\* and one that is announced and gone is deleted after that.
DelIsGone(n) == \A k \in Int, w \in Wins : Del(n, k, w) => window[w] = "gone"
LiveIsAnn(n) == \A w \in Wins : window[w] = "live" /\ tag[w] = n => \E i \in Int : Ann(n, i, w)
GoneIsDel(n) == \A i \in Int, w \in Wins :
    Ann(n, i, w) /\ window[w] = "gone" => \E k \in Int : i < k /\ Del(n, k, w)

\* Windows of one name come one after the other: before the next is announced
\* the last is deleted, and before a deletion its own window is announced.
AnnAfterDel(n) == \A i, j \in Int, w, v \in Wins :
    Ann(n, i, w) /\ Ann(n, j, v) /\ i < j => \E k \in Int : i < k /\ k < j /\ Del(n, k, w)
DelAfterAnn(n) == \A i, k \in Int, w, v \in Wins :
    Ann(n, i, w) /\ Del(n, k, v) /\ i < k /\ v # w => \E j \in Int : i < j /\ j < k /\ Ann(n, j, v)

Ordered(n) == DelIsGone(n) /\ LiveIsAnn(n) /\ GoneIsDel(n) /\ AnnAfterDel(n) /\ DelAfterAnn(n)
OrderInv == logging => \A n \in Served : Ordered(n)

\* NewFileManager handles no event; Run only events.
BootSteps == {"list", "boot", "exited", "open", "openLock", "openSend", "openWatch"}
PhaseInv ==
    /\ logging <=> ~loop.boot
    /\ loop.boot => alog = <<>> /\ loop.pc \in BootSteps
    /\ ~loop.boot => loop.pc \notin {"list", "boot", "exited"}

\* NewFileManager tracks, or has still to open, every window there is.
BootInv ==
    loop.boot /\ loop.pc # "exited" =>
        /\ loop.pc = "list" => loop.list = {} /\ \A n \in Names : docStates[n] = NoWin
        /\ \A n \in Names : docStates[n] # NoWin => window[docStates[n]] = "live"
        /\ loop.pc # "list" => \A w \in Wins : window[w] = "live" /\ tag[w] \in Served =>
              \/ docStates[tag[w]] = w
              \/ [win |-> w, name |-> tag[w]] \in loop.list
              \/ loop.pc \in ToTrack /\ loop.name = tag[w] /\ loop.win = w
        /\ \A f \in loop.list : window[f.win] = "live"
        /\ loop.pc \in BootSteps \ {"list", "boot"} => window[loop.win] = "live"

LEMMA AnnIs ==
    ASSUME TypeOK, TagsInv, NEW n \in Names, NEW i \in Int, NEW w \in Wins, Ann(n, i, w)
    PROVE  Is(w, n)
  BY WinsAssumption DEF Ann, TagsInv, Handling, ToTrack

LEMMA SlotBounds ==
    ASSUME TypeOK, NEW n \in Names, NEW i \in Int, NEW w \in Wins
    PROVE  /\ Ann(n, i, w) => -1 <= i /\ i <= Len(alog)
           /\ Del(n, i, w) => 0 <= i /\ i <= Len(alog)
           /\ Len(alog) \in Nat
  BY NamedWindows DEF Ann, Del

\* A step that moves what is announced to other places and keeps the order.
Placed(n, i) == \E w \in Wins : Ann(n, i, w) \/ Del(n, i, w)

LEMMA Renumbered ==
    ASSUME NEW n \in Names, Ordered(n), UNCHANGED <<window, tag>>, NEW g, g \in [Int -> Int],
           \A i, j \in Int : i < j => g[i] <= g[j],
           \A i, j \in Int : i < j /\ Placed(n, i) /\ Placed(n, j) => g[i] < g[j],
           \A i, j \in Int, w \in Wins : Ann(n, i, w) /\ g[i] = j => Ann(n, j, w)',
           \A i, j \in Int, w \in Wins : Del(n, i, w) /\ g[i] = j => Del(n, j, w)',
           \A j \in Int, w \in Wins : Ann(n, j, w)' => \E i \in Int : Ann(n, i, w) /\ g[i] = j,
           \A j \in Int, w \in Wins : Del(n, j, w)' => \E i \in Int : Del(n, i, w) /\ g[i] = j
    PROVE  Ordered(n)'
  <1>g. \A i \in Int : g[i] \in Int
    OBVIOUS
  <1>p. \A i \in Int, w \in Wins : Ann(n, i, w) \/ Del(n, i, w) => Placed(n, i)
    BY DEF Placed
  <1>o. \A i, j \in Int : g[i] < g[j] => i < j
    BY <1>g
  <1>1. DelIsGone(n)'
    BY DEF Ordered, DelIsGone
  <1>2. LiveIsAnn(n)'
    <2> SUFFICES ASSUME NEW w \in Wins, window'[w] = "live", tag'[w] = n PROVE \E j \in Int : Ann(n, j, w)'
      BY DEF LiveIsAnn
    <2>1. PICK i \in Int : Ann(n, i, w)
      BY DEF Ordered, LiveIsAnn
    <2> QED
      BY <1>g, <2>1
  <1>3. GoneIsDel(n)'
    <2> SUFFICES ASSUME NEW j \in Int, NEW w \in Wins, Ann(n, j, w)', window'[w] = "gone"
                 PROVE  \E l \in Int : j < l /\ Del(n, l, w)'
      BY DEF GoneIsDel
    <2>1. PICK i \in Int : Ann(n, i, w) /\ g[i] = j
      OBVIOUS
    <2>2. PICK k \in Int : i < k /\ Del(n, k, w)
      BY <2>1 DEF Ordered, GoneIsDel
    <2>3. g[k] \in Int /\ j < g[k] /\ Del(n, g[k], w)'
      BY <1>g, <1>p, <2>1, <2>2
    <2> QED
      BY <2>3
  <1>4. AnnAfterDel(n)'
    <2> SUFFICES ASSUME NEW a \in Int, NEW b \in Int, NEW w \in Wins, NEW v \in Wins,
                        Ann(n, a, w)', Ann(n, b, v)', a < b
                 PROVE  \E l \in Int : a < l /\ l < b /\ Del(n, l, w)'
      BY DEF AnnAfterDel
    <2>1. PICK i \in Int : Ann(n, i, w) /\ g[i] = a
      OBVIOUS
    <2>2. PICK j \in Int : Ann(n, j, v) /\ g[j] = b
      OBVIOUS
    <2>3. i < j
      BY <1>o, <2>1, <2>2
    <2>4. PICK k \in Int : i < k /\ k < j /\ Del(n, k, w)
      BY <2>1, <2>2, <2>3 DEF Ordered, AnnAfterDel
    <2>5. g[k] \in Int /\ a < g[k] /\ g[k] < b /\ Del(n, g[k], w)'
      BY <1>g, <1>p, <2>1, <2>2, <2>4
    <2> QED
      BY <2>5
  <1>5. DelAfterAnn(n)'
    <2> SUFFICES ASSUME NEW a \in Int, NEW b \in Int, NEW w \in Wins, NEW v \in Wins,
                        Ann(n, a, w)', Del(n, b, v)', a < b, v # w
                 PROVE  \E l \in Int : a < l /\ l < b /\ Ann(n, l, v)'
      BY DEF DelAfterAnn
    <2>1. PICK i \in Int : Ann(n, i, w) /\ g[i] = a
      OBVIOUS
    <2>2. PICK k \in Int : Del(n, k, v) /\ g[k] = b
      OBVIOUS
    <2>3. i < k
      BY <1>o, <2>1, <2>2
    <2>4. PICK j \in Int : i < j /\ j < k /\ Ann(n, j, v)
      BY <2>1, <2>2, <2>3 DEF Ordered, DelAfterAnn
    <2>5. g[j] \in Int /\ a < g[j] /\ g[j] < b /\ Ann(n, g[j], v)'
      BY <1>g, <1>p, <2>1, <2>2, <2>4
    <2> QED
      BY <2>5
  <1> QED
    BY <1>1, <1>2, <1>3, <1>4, <1>5 DEF Ordered

\* Steps that leave the order alone.
LoopAway == loop.pc \notin ToTrack \cup {"close"} /\ loop'.pc \notin ToTrack \cup {"close"}

LEMMA StaysOrdered ==
    ASSUME NEW n \in Names, Ordered(n), UNCHANGED <<window, tag>>, docStates'[n] = docStates[n],
           UNCHANGED alog, UNCHANGED loop \/ LoopAway
    PROVE  Ordered(n)'
  <1>1. \A i \in Int, w \in Wins : (Ann(n, i, w)' <=> Ann(n, i, w)) /\ (Del(n, i, w)' <=> Del(n, i, w))
    BY DEF Ann, Del, LoopAway
  <1> QED
    BY <1>1 DEF Ordered, DelIsGone, LiveIsAnn, GoneIsDel, AnnAfterDel, DelAfterAnn

-----------------------------------------------------------------------------
(* What the user does is put at the end of the log.                        *)

LEMMA LogSlots ==
    ASSUME TypeOK, logging, NEW o \in {"new", "del", "get", "put"}, NEW u \in Wins, LogEvent(o, u),
           tag'[u] \in Names, UNCHANGED <<docStates, loop>>, NEW n \in Names
    PROVE  \A i \in Int, w \in Wins :
              /\ Ann(n, i, w)' <=> Ann(n, i, w) \/ (o = "new" /\ i = Len(alog) + 1 /\ w = u /\ tag'[u] = n)
              /\ Del(n, i, w)' <=> Del(n, i, w) \/ (o = "del" /\ i = Len(alog) + 1 /\ w = u /\ tag'[u] = n)
  <1>1. PICK e : e = [op |-> o, win |-> u, name |-> tag'[u]]
    OBVIOUS
  <1>2. e \in Events /\ e.op = o /\ e.win = u /\ e.name = tag'[u] /\ alog' = Append(alog, e)
    BY <1>1 DEF Events, LogEvent
  <1>3. /\ DOMAIN alog' = 1..(Len(alog) + 1) /\ DOMAIN alog = 1..Len(alog) /\ Len(alog) \in Nat
        /\ \A k \in 1..Len(alog) : alog'[k] = alog[k]
        /\ alog'[Len(alog) + 1] = e
    BY <1>2, NamedWindows, AppendProperties
  <1> QED
    BY <1>2, <1>3 DEF Ann, Del

LEMMA NewOrdered ==
    ASSUME TypeOK, TypeOK', ~Doubles, TagsInv, NEW n \in Names, Ordered(n), logging,
           NEW u \in Wins, NEW m \in Names, NewWindow(u, m)
    PROVE  Ordered(n)'
  <1>0. /\ window[u] = "unborn" /\ window' = [window EXCEPT ![u] = "live"] /\ tag' = [tag EXCEPT ![u] = m]
        /\ NamesDiffer(window, tag)' /\ LogEvent("new", u) /\ UNCHANGED <<docStates, loop>>
    BY DEF NewWindow, NamesDiffer, fmVars
  <1>1. /\ window'[u] = "live" /\ tag'[u] = m
        /\ \A w \in Wins : w # u => window'[w] = window[w] /\ tag'[w] = tag[w]
    BY <1>0 DEF TypeOK, AcmeTypeOK
  <1>L. PICK L \in Int : L = Len(alog) + 1
    BY SlotBounds
  <1>2. \A i \in Int, w \in Wins :
           /\ Ann(n, i, w)' <=> Ann(n, i, w) \/ (i = L /\ w = u /\ m = n)
           /\ Del(n, i, w)' <=> Del(n, i, w)
    BY <1>0, <1>1, <1>L, LogSlots
  <1>3. \A i \in Int, w \in Wins : /\ Ann(n, i, w) => i < L /\ w # u /\ tag[w] = n /\ window[w] # "unborn"
                                   /\ Del(n, i, w) => i < L /\ window[w] = "gone" /\ w # u
    BY <1>0, <1>L, AnnIs, SlotBounds DEF Is, Ordered, DelIsGone
  <1>4. DelIsGone(n)'
    BY <1>1, <1>2, <1>3 DEF DelIsGone
  <1>5. LiveIsAnn(n)'
    BY <1>1, <1>2 DEF LiveIsAnn, Ordered
  <1>6. GoneIsDel(n)'
    BY <1>1, <1>2, <1>3 DEF GoneIsDel, Ordered
  <1>7. ASSUME NEW i \in Int, NEW w \in Wins, Ann(n, i, w), m = n PROVE \E k \in Int : i < k /\ Del(n, k, w)
    <2>1. window[w] = "gone"
      <3>1. window'[w] = window[w] /\ tag'[w] = n /\ tag'[u] = n /\ window'[u] = "live" /\ w # u
        BY <1>1, <1>3, <1>7
      <3>2. window'[w] # "live"
        BY <1>0, <3>1 DEF NamesDiffer
      <3> QED
        BY <1>3, <1>7, <3>1, <3>2 DEF TypeOK, AcmeTypeOK
    <2> QED
      BY <1>7, <2>1 DEF Ordered, GoneIsDel
  <1>8. AnnAfterDel(n)'
    <2> SUFFICES ASSUME NEW i \in Int, NEW j \in Int, NEW w \in Wins, NEW v \in Wins,
                        Ann(n, i, w)', Ann(n, j, v)', i < j
                 PROVE  \E k \in Int : i < k /\ k < j /\ Del(n, k, w)'
      BY DEF AnnAfterDel
    <2>1. CASE Ann(n, j, v)
      BY <1>2, <1>3, <2>1 DEF Ordered, AnnAfterDel
    <2>2. CASE j = L /\ v = u /\ m = n
      <3>1. Ann(n, i, w)
        BY <1>2, <2>2
      <3> QED
        BY <1>2, <1>3, <1>7, <2>2, <3>1
    <2> QED
      BY <1>2, <2>1, <2>2
  <1>9. DelAfterAnn(n)'
    BY <1>2, <1>3 DEF DelAfterAnn, Ordered
  <1> QED
    BY <1>4, <1>5, <1>6, <1>8, <1>9 DEF Ordered

LEMMA DelOrdered ==
    ASSUME TypeOK, TypeOK', ~Doubles, TagsInv, NEW n \in Names, Ordered(n), logging,
           NEW u \in Wins, DelWindow(u)
    PROVE  Ordered(n)'
  <1>0. /\ window[u] = "live" /\ window' = [window EXCEPT ![u] = "gone"]
        /\ LogEvent("del", u) /\ UNCHANGED <<tag, docStates, loop>>
    BY DEF DelWindow, fmVars
  <1>1. /\ window'[u] = "gone" /\ tag'[u] \in Names
        /\ \A w \in Wins : w # u => window'[w] = window[w]
    BY <1>0 DEF TypeOK, AcmeTypeOK
  <1>L. PICK L \in Int : L = Len(alog) + 1
    BY SlotBounds
  <1>2. \A i \in Int, w \in Wins :
           /\ Ann(n, i, w)' <=> Ann(n, i, w)
           /\ Del(n, i, w)' <=> Del(n, i, w) \/ (i = L /\ w = u /\ tag[u] = n)
    BY <1>0, <1>1, <1>L, LogSlots
  <1>3. \A i \in Int, w \in Wins : /\ Ann(n, i, w) => i < L /\ tag[w] = n
                                   /\ Del(n, i, w) => i < L /\ window[w] = "gone"
    BY <1>L, AnnIs, SlotBounds DEF Is, Ordered, DelIsGone
  <1>4. DelIsGone(n)'
    BY <1>1, <1>2, <1>3 DEF DelIsGone
  <1>5. LiveIsAnn(n)'
    BY <1>0, <1>1, <1>2 DEF LiveIsAnn, Ordered
  <1>6. GoneIsDel(n)'
    <2> SUFFICES ASSUME NEW i \in Int, NEW w \in Wins, Ann(n, i, w), window'[w] = "gone"
                 PROVE  \E k \in Int : i < k /\ Del(n, k, w)'
      BY <1>2 DEF GoneIsDel
    <2>1. CASE w = u
      BY <1>2, <1>3, <2>1
    <2>2. CASE w # u
      BY <1>1, <1>2, <2>2 DEF Ordered, GoneIsDel
    <2> QED
      BY <2>1, <2>2
  <1>7. AnnAfterDel(n)'
    BY <1>2 DEF AnnAfterDel, Ordered
  <1>8. DelAfterAnn(n)'
    <2> SUFFICES ASSUME NEW i \in Int, NEW k \in Int, NEW w \in Wins, NEW v \in Wins,
                        Ann(n, i, w), Del(n, k, v)', i < k, v # w
                 PROVE  \E j \in Int : i < j /\ j < k /\ Ann(n, j, v)
      BY <1>2 DEF DelAfterAnn
    <2>1. CASE Del(n, k, v)
      BY <2>1 DEF Ordered, DelAfterAnn
    <2>2. CASE k = L /\ v = u /\ tag[u] = n
      <3>1. PICK j \in Int : Ann(n, j, u)
        BY <1>0, <2>2 DEF Ordered, LiveIsAnn
      <3>2. ~(j < i)
        <4>1. ASSUME j < i PROVE \E l \in Int : Del(n, l, u)
          BY <3>1, <4>1 DEF Ordered, AnnAfterDel
        <4> QED
          BY <1>0, <1>3, <4>1
      <3>3. j # i
        BY <2>2, <3>1, NamedWindows DEF Ann
      <3> QED
        BY <1>3, <2>2, <3>1, <3>2, <3>3
    <2> QED
      BY <1>2, <2>1, <2>2
  <1> QED
    BY <1>4, <1>5, <1>6, <1>7, <1>8 DEF Ordered

LEMMA UserOrdered ==
    ASSUME MaxRenames = 0, ~Doubles, TypeOK, TypeOK', TagsInv, NEW n \in Names, Ordered(n), logging, User
    PROVE  Ordered(n)'
  <1>1. ASSUME NEW u \in Wins, Type(u) PROVE Ordered(n)'
    BY <1>1, StaysOrdered DEF Type, fmVars
  <1>2. ASSUME NEW u \in Wins, Get(u) \/ Put(u) PROVE Ordered(n)'
    <2>1. UNCHANGED <<window, tag, docStates, loop>> /\ (LogEvent("get", u) \/ LogEvent("put", u))
      BY <1>2 DEF Get, Put, fmVars
    <2>2. tag'[u] \in Names
      BY DEF TypeOK, AcmeTypeOK
    <2>3. \A i \in Int, w \in Wins : (Ann(n, i, w)' <=> Ann(n, i, w)) /\ (Del(n, i, w)' <=> Del(n, i, w))
      BY <2>1, <2>2, LogSlots
    <2> QED
      BY <2>1, <2>3 DEF Ordered, DelIsGone, LiveIsAnn, GoneIsDel, AnnAfterDel, DelAfterAnn
  <1> QED
    BY <1>1, <1>2, NoRename, NewOrdered, DelOrdered DEF User

-----------------------------------------------------------------------------
(* The loop takes the first event from the log.                            *)

LEMMA ReadOrdered ==
    ASSUME TypeOK, NEW n \in Names, Ordered(n), ReadEvent
    PROVE  Ordered(n)'
  <1>1. PICK e : e = Head(alog)
    OBVIOUS
  <1>2. /\ loop.pc = "read" /\ alog # <<>> /\ alog' = Tail(alog) /\ UNCHANGED <<window, tag, docStates>>
        /\ loop'.pc = Handler(e.op) /\ loop'.win = e.win /\ loop'.name = e.name
    BY <1>1 DEF ReadEvent, fmVars, TypeOK, LoopTypeOK, Loops
  <1>3. /\ Len(alog) \in Nat /\ DOMAIN alog = 1..Len(alog) /\ DOMAIN alog' = 1..(Len(alog) - 1)
        /\ \A k \in DOMAIN alog' : alog'[k] = alog[k + 1]
        /\ 1 \in DOMAIN alog /\ e = alog[1] /\ e.op \in {"new", "del", "get", "put"}
    <2>1. alog \in Seq(Events) /\ alog # <<>> /\ alog' = Tail(alog)
      BY <1>2 DEF TypeOK, AcmeTypeOK
    <2>2. /\ Len(alog) \in Nat /\ DOMAIN alog = 1..Len(alog) /\ DOMAIN alog' = 1..(Len(alog) - 1)
          /\ \A k \in DOMAIN alog' : alog'[k] = alog[k + 1]
          /\ 1 \in DOMAIN alog /\ e = alog[1] /\ e \in Events
      BY <1>1, <2>1, HeadTailProperties
    <2> QED
      BY <2>2 DEF Events
  <1>4. /\ loop'.pc \in ToTrack <=> e.op = "new"
        /\ loop'.pc = "close" <=> e.op = "del"
    BY <1>2, <1>3 DEF Handler, ToTrack
  <1>5. \A i \in Int, w \in Wins :
           /\ Ann(n, i, w) => i = -1 \/ i \in DOMAIN alog
           /\ Del(n, i, w) => i \in DOMAIN alog
    BY <1>2 DEF Ann, Del, ToTrack
  <1>6. PICK g : g = [i \in Int |-> IF i < 1 THEN -1 ELSE i - 1]
    OBVIOUS
  <1>7. /\ g \in [Int -> Int]
        /\ \A i \in Int : g[i] = IF i < 1 THEN -1 ELSE i - 1
    BY <1>6
  <1>8. \A i, j \in Int : i < j => g[i] <= g[j]
    BY <1>7
  <1>9. \A i, j \in Int : i < j /\ Placed(n, i) /\ Placed(n, j) => g[i] < g[j]
    <2>1. \A i \in Int : Placed(n, i) => i = -1 \/ i >= 1
      BY <1>3, <1>5 DEF Placed
    <2> QED
      BY <1>7, <2>1
  <1>10. ASSUME NEW i \in Int, NEW j \in Int, NEW w \in Wins, g[i] = j
         PROVE  /\ Ann(n, i, w) => Ann(n, j, w)'
                /\ Del(n, i, w) => Del(n, j, w)'
    <2>1. CASE i < 1
      <3>1. j = -1 /\ i \notin DOMAIN alog
        BY <1>3, <1>7, <1>10, <2>1
      <3> QED
        BY <1>2, <1>5, <3>1 DEF Ann, Del
    <2>2. CASE i > 1
      <3>1. i = j + 1 /\ j > 0 /\ j < i
        BY <1>7, <1>10, <2>2
      <3>2. i \in DOMAIN alog => j \in DOMAIN alog' /\ alog'[j] = alog[i]
        BY <1>3, <3>1
      <3>3. i # -1 /\ i # 0
        BY <2>2
      <3> QED
        BY <3>2, <3>3 DEF Ann, Del
    <2>3. CASE i = 1
      <3>1. j = 0
        BY <1>7, <1>10, <2>3
      <3>2. (Ann(n, 1, w) => Ann(n, 0, w)') /\ (Del(n, 1, w) => Del(n, 0, w)')
        BY <1>2, <1>3, <1>4 DEF Ann, Del
      <3> QED
        BY <2>3, <3>1, <3>2
    <2> QED
      BY <2>1, <2>2, <2>3
  <1>11. ASSUME NEW j \in Int, NEW w \in Wins, j >= 0
         PROVE  /\ g[j + 1] = j
                /\ Ann(n, j, w)' => Ann(n, j + 1, w)
                /\ Del(n, j, w)' => Del(n, j + 1, w)
    <2>1. g[j + 1] = j
      BY <1>7, <1>11
    <2>2. j # 0 /\ j \in DOMAIN alog' => j + 1 \in DOMAIN alog /\ alog'[j] = alog[j + 1]
      BY <1>3, <1>11
    <2>3. (Ann(n, 0, w)' => Ann(n, 1, w)) /\ (Del(n, 0, w)' => Del(n, 1, w))
      BY <1>2, <1>3, <1>4 DEF Ann, Del
    <2>4. CASE j = 0
      BY <2>1, <2>3, <2>4
    <2>5. CASE j # 0
      BY <1>11, <2>1, <2>2, <2>5 DEF Ann, Del
    <2> QED
      BY <2>4, <2>5
  <1>12. ASSUME NEW j \in Int, NEW w \in Wins, Ann(n, j, w)' PROVE \E i \in Int : Ann(n, i, w) /\ g[i] = j
    <2>1. j = -1 \/ j >= 0
      BY <1>3, <1>12 DEF Ann
    <2>2. CASE j = -1
      <3>1. Ann(n, -1, w) /\ g[-1] = -1
        BY <1>2, <1>3, <1>7, <1>12, <2>2 DEF Ann
      <3> QED
        BY <2>2, <3>1
    <2>3. CASE j >= 0
      BY <1>11, <1>12, <2>3
    <2> QED
      BY <2>1, <2>2, <2>3
  <1>13. ASSUME NEW j \in Int, NEW w \in Wins, Del(n, j, w)' PROVE \E i \in Int : Del(n, i, w) /\ g[i] = j
    <2>1. j >= 0
      BY <1>3, <1>13 DEF Del
    <2> QED
      BY <1>11, <1>13, <2>1
  <1>14. UNCHANGED <<window, tag>>
    BY <1>2
  <1> QED
    BY <1>7, <1>8, <1>9, <1>10, <1>12, <1>13, <1>14, Renumbered

\* A window that is gone before didOpen starts is never tracked.
LEMMA OpenWinOrdered ==
    ASSUME TypeOK, NEW n \in Served, Ordered(n), DidOpenWin, n \in Names
    PROVE  Ordered(n)'
  <1>1. loop.pc = "open" /\ UNCHANGED <<window, tag, docStates, alog>> /\ loop \in Loops
    BY DEF DidOpenWin, acmeVars, fmVars, TypeOK, LoopTypeOK
  <1>2. CASE loop.name \in Served /\ Goto("openLock")
    <2>1. loop'.pc = "openLock" /\ loop'.name = loop.name /\ loop'.win = loop.win
      BY <1>2, GotoMoves DEF LoopSteps
    <2>2. \A i \in Int, w \in Wins : (Ann(n, i, w)' <=> Ann(n, i, w)) /\ (Del(n, i, w)' <=> Del(n, i, w))
      BY <1>1, <2>1 DEF Ann, Del, ToTrack
    <2> QED
      BY <1>1, <2>2 DEF Ordered, DelIsGone, LiveIsAnn, GoneIsDel, AnnAfterDel, DelAfterAnn
  <1>3. CASE loop.name \notin Served /\ Goto("openWatch")
    <2>1. loop'.pc = "openWatch"
      BY <1>3, GotoMoves DEF LoopSteps
    <2>2. \A i \in Int, w \in Wins : (Ann(n, i, w)' <=> Ann(n, i, w)) /\ (Del(n, i, w)' <=> Del(n, i, w))
      BY <1>1, <1>3, <2>1 DEF Ann, Del, ToTrack
    <2> QED
      BY <1>1, <2>2 DEF Ordered, DelIsGone, LiveIsAnn, GoneIsDel, AnnAfterDel, DelAfterAnn
  <1>4. CASE loop.name \in Served /\ window[loop.win] # "live" /\ Done(FALSE)
    <2>1. loop'.pc \notin ToTrack \cup {"close"}
      BY <1>4, DoneMoves DEF ToTrack
    <2>2. \A i \in Int, w \in Wins :
             /\ Del(n, i, w)' <=> Del(n, i, w)
             /\ Ann(n, i, w)' => Ann(n, i, w)
             /\ Ann(n, i, w) => Ann(n, i, w)' \/ (i = 0 /\ window[w] # "live")
      BY <1>1, <1>4, <2>1 DEF Ann, Del, ToTrack
    <2>3. DelIsGone(n)' /\ LiveIsAnn(n)' /\ GoneIsDel(n)' /\ AnnAfterDel(n)'
      BY <1>1, <2>2 DEF Ordered, DelIsGone, LiveIsAnn, GoneIsDel, AnnAfterDel
    <2>4. DelAfterAnn(n)'
      <3> SUFFICES ASSUME NEW i \in Int, NEW k \in Int, NEW w \in Wins, NEW v \in Wins,
                          Ann(n, i, w)', Del(n, k, v), i < k, v # w
                   PROVE  \E j \in Int : i < j /\ j < k /\ Ann(n, j, v)'
        BY <2>2 DEF DelAfterAnn
      <3>1. PICK j \in Int : i < j /\ j < k /\ Ann(n, j, v)
        BY <2>2 DEF Ordered, DelAfterAnn
      <3>2. j # 0
        <4>1. ASSUME j = 0 PROVE FALSE
          <5>1. PICK l \in Int : i < l /\ l < 0 /\ Del(n, l, w)
            BY <2>2, <3>1, <4>1 DEF Ordered, AnnAfterDel
          <5> QED
            BY <5>1, SlotBounds
        <4> QED
          BY <4>1
      <3> QED
        BY <2>2, <3>1, <3>2
    <2> QED
      BY <2>3, <2>4 DEF Ordered
  <1> QED
    BY <1>2, <1>3, <1>4 DEF DidOpenWin

\* didOpen never finds the file tracked, and tracks it.
LEMMA OpenLockOrdered ==
    ASSUME TypeOK, NEW n \in Names, Ordered(n), DidOpenLock
    PROVE  Ordered(n)'
  <1>1. /\ loop.pc = "openLock" /\ UNCHANGED <<window, tag, alog>>
        /\ loop.name \in Names /\ loop.win \in Wins /\ loop \in Loops
    BY DEF DidOpenLock, acmeVars, TypeOK, LoopTypeOK, Loops
  <1>2. loop'.pc \notin ToTrack \cup {"close"}
    <2>1. Done(FALSE) \/ loop' = [loop EXCEPT !.pc = "openSend", !.text = body[loop.win]]
      BY DEF DidOpenLock
    <2>2. CASE loop' = [loop EXCEPT !.pc = "openSend", !.text = body[loop.win]]
      BY <1>1, <2>2 DEF ToTrack, Loops
    <2> QED
      BY <2>1, <2>2, DoneMoves DEF ToTrack
  <1>3. CASE loop.name # n
    <2>1. docStates'[n] = docStates[n]
      BY <1>1, <1>3 DEF DidOpenLock, TypeOK, ManagerTypeOK
    <2>2. \A i \in Int, w \in Wins : (Ann(n, i, w)' <=> Ann(n, i, w)) /\ (Del(n, i, w)' <=> Del(n, i, w))
      BY <1>1, <1>2, <1>3, <2>1 DEF Ann, Del, ToTrack
    <2> QED
      BY <1>1, <2>2 DEF Ordered, DelIsGone, LiveIsAnn, GoneIsDel, AnnAfterDel, DelAfterAnn
  <1>4. CASE loop.name = n
    <2>1. docStates[n] = NoWin
      <3> SUFFICES ASSUME docStates[n] # NoWin PROVE FALSE
        OBVIOUS
      <3>1. docStates[n] \in Wins /\ Ann(n, -1, docStates[n]) /\ Ann(n, 0, loop.win)
        BY <1>1, <1>4 DEF Ann, ToTrack, TypeOK, ManagerTypeOK
      <3>2. PICK k \in Int : -1 < k /\ k < 0
        BY <1>1, <3>1 DEF Ordered, AnnAfterDel
      <3> QED
        BY <3>2
    <2>2. docStates'[n] = loop.win
      BY <1>1, <1>4, <2>1 DEF DidOpenLock, TypeOK, ManagerTypeOK
    <2>3. \A i \in Int, w \in Wins : (Ann(n, i, w) => i >= 0) /\ (Del(n, i, w) => i > 0)
      BY <1>1, <2>1, WinsAssumption, SlotBounds DEF Ann, Del
    <2>4. PICK g : g = [i \in Int |-> IF i < 1 THEN -1 ELSE i]
      OBVIOUS
    <2>5. /\ g \in [Int -> Int]
          /\ \A i \in Int : g[i] = IF i < 1 THEN -1 ELSE i
      BY <2>4
    <2>6. \A i, j \in Int : i < j => g[i] <= g[j]
      BY <2>5
    <2>7. \A i, j \in Int : i < j /\ Placed(n, i) /\ Placed(n, j) => g[i] < g[j]
      BY <2>3, <2>5 DEF Placed
    <2>8. DOMAIN alog = 1..Len(alog) /\ Len(alog) \in Nat
      BY NamedWindows
    <2>9. ASSUME NEW i \in Int, NEW j \in Int, NEW w \in Wins, g[i] = j
          PROVE  /\ Ann(n, i, w) => Ann(n, j, w)'
                 /\ Del(n, i, w) => Del(n, j, w)'
      <3>1. CASE i < 1
        <4>1. j = -1
          BY <2>5, <2>9, <3>1
        <4>2. i \notin DOMAIN alog /\ (Ann(n, i, w) => i = 0)
          BY <2>3, <2>8, <3>1
        <4> QED
          BY <1>1, <1>4, <2>2, <2>3, <3>1, <4>1, <4>2 DEF Ann
      <3>2. CASE i >= 1
        <4>1. j = i /\ i # 0 /\ i # -1
          BY <2>5, <2>9, <3>2
        <4> QED
          BY <1>1, <4>1 DEF Ann, Del
      <3> QED
        BY <3>1, <3>2
    <2>11. ASSUME NEW j \in Int, NEW w \in Wins, Ann(n, j, w)' PROVE \E i \in Int : Ann(n, i, w) /\ g[i] = j
      <3>1. CASE j = -1
        <4>1. Ann(n, 0, w) /\ g[0] = -1
          BY <1>1, <1>4, <2>2, <2>5, <2>8, <2>11, <3>1 DEF Ann, ToTrack
        <4> QED
          BY <3>1, <4>1
      <3>2. CASE j # -1
        <4>1. Ann(n, j, w) /\ g[j] = j
          BY <1>1, <1>2, <2>5, <2>8, <2>11, <3>2 DEF Ann
        <4> QED
          BY <4>1
      <3> QED
        BY <3>1, <3>2
    <2>12. ASSUME NEW j \in Int, NEW w \in Wins, Del(n, j, w)' PROVE \E i \in Int : Del(n, i, w) /\ g[i] = j
      <3>1. Del(n, j, w) /\ g[j] = j
        BY <1>1, <1>2, <2>5, <2>8, <2>12 DEF Del
      <3> QED
        BY <3>1
    <2> QED
      BY <1>1, <2>5, <2>6, <2>7, <2>9, <2>11, <2>12, Renumbered
  <1> QED
    BY <1>3, <1>4

\* didClose closes what the deleted window tracked, and nothing else.
LEMMA CloseOrdered ==
    ASSUME TypeOK, NEW n \in Names, Ordered(n), DidClose
    PROVE  Ordered(n)'
  <1>1. /\ loop.pc = "close" /\ UNCHANGED <<window, tag, alog>>
        /\ loop.name \in Names /\ loop.win \in Wins
        /\ docStates' = [docStates EXCEPT ![loop.name] = NoWin]
    BY DEF DidClose, acmeVars, TypeOK, LoopTypeOK, Loops
  <1>2. loop'.pc \notin ToTrack \cup {"close"}
    BY GotoMoves, DoneMoves DEF DidClose, LoopSteps, ToTrack
  <1>3. CASE loop.name # n
    <2>1. docStates'[n] = docStates[n]
      BY <1>1, <1>3 DEF TypeOK, ManagerTypeOK
    <2>2. \A i \in Int, w \in Wins : (Ann(n, i, w)' <=> Ann(n, i, w)) /\ (Del(n, i, w)' <=> Del(n, i, w))
      BY <1>1, <1>2, <1>3, <2>1 DEF Ann, Del, ToTrack
    <2> QED
      BY <1>1, <2>2 DEF Ordered, DelIsGone, LiveIsAnn, GoneIsDel, AnnAfterDel, DelAfterAnn
  <1>4. CASE loop.name = n
    <2>1. docStates'[n] = NoWin /\ DOMAIN alog = 1..Len(alog) /\ Len(alog) \in Nat
      BY <1>1, <1>4, NamedWindows DEF TypeOK, ManagerTypeOK
    <2>2. \A i \in Int, w \in Wins :
             /\ Ann(n, i, w)' <=> Ann(n, i, w) /\ i > 0
             /\ Del(n, i, w)' <=> Del(n, i, w) /\ i > 0
             /\ Ann(n, i, w) => i >= -1 /\ i # 0
             /\ Del(n, i, w) => i >= 0
             /\ Del(n, 0, w) <=> w = loop.win
      BY <1>1, <1>2, <1>4, <2>1, WinsAssumption DEF Ann, Del, ToTrack
    <2>3. \A w \in Wins : Ann(n, -1, w) => window[w] = "gone"
      <3> SUFFICES ASSUME NEW w \in Wins, Ann(n, -1, w), w # loop.win PROVE FALSE
        BY <1>1, <2>2 DEF Ordered, DelIsGone
      <3>1. PICK j \in Int : -1 < j /\ j < 0
        BY <1>1, <2>2 DEF Ordered, DelAfterAnn
      <3> QED
        BY <3>1
    <2>4. DelIsGone(n)' /\ GoneIsDel(n)'
      BY <1>1, <2>2 DEF Ordered, DelIsGone, GoneIsDel
    <2>5. AnnAfterDel(n)'
      BY <2>2 DEF Ordered, AnnAfterDel
    <2>7. DelAfterAnn(n)'
      BY <2>2 DEF Ordered, DelAfterAnn
    <2>6. LiveIsAnn(n)'
      <3> SUFFICES ASSUME NEW w \in Wins, window[w] = "live", tag[w] = n PROVE \E i \in Int : Ann(n, i, w)'
        BY <1>1 DEF LiveIsAnn
      <3>1. PICK i \in Int : Ann(n, i, w)
        BY DEF Ordered, LiveIsAnn
      <3>2. i # -1
        BY <2>3, <3>1
      <3> QED
        BY <2>2, <3>1, <3>2
    <2> QED
      BY <2>4, <2>5, <2>6, <2>7 DEF Ordered
  <1> QED
    BY <1>3, <1>4

-----------------------------------------------------------------------------
(* The steps of the loop, and of everybody else.                           *)

LEMMA LoopPasses ==
    ASSUME TypeOK, Loop
    PROVE  \/ ListWindows \/ BootNext \/ OpenLog \/ ReadEvent \/ DidOpenWin \/ DidOpenLock \/ DidClose
           \/ LoopAway /\ UNCHANGED <<alog, docStates>>
  <1> USE GotoMoves, DoneMoves, SaveMoves DEF LoopSteps, LoopAway, ToTrack
  <1>1. CASE DidOpenSend \/ DidOpenWatch \/ DidCloseSend
    BY <1>1 DEF DidOpenSend, DidOpenWatch, DidCloseSend, acmeVars, fmVars
  <1>2. CASE DidChangeRead \/ DidChangeAlloc \/ DidSaveLookup \/ DidSaveRead \/ DidSaveAlloc
    <2>1. loop'.pc \notin ToTrack \cup {"close"}
      BY <1>2 DEF DidChangeRead, DidChangeAlloc, DidSaveLookup, DidSaveRead, DidSaveAlloc, TypeOK, LoopTypeOK, Loops
    <2> QED
      BY <1>2, <2>1 DEF DidChangeRead, DidChangeAlloc, DidSaveLookup, DidSaveRead, DidSaveAlloc, acmeVars, fmVars
  <1>3. CASE DidChangeSend \/ DidSaveSend \/ DidSave
    BY <1>3 DEF DidChangeSend, DidSaveSend, DidSave, acmeVars, fmVars
  <1>4. CASE FormatLock \/ FormatActions \/ FormatChange \/ FormatEdit
    <2>1. loop'.pc \notin ToTrack \cup {"close"}
      BY <1>4 DEF FormatLock, FormatActions, FormatChange, FormatEdit, TypeOK, LoopTypeOK, Loops
    <2>2. UNCHANGED <<alog, docStates>>
      BY <1>4 DEF FormatLock, FormatActions, FormatChange, FormatEdit, acmeVars, fmVars
    <2> QED
      BY <1>4, <2>1, <2>2 DEF FormatLock, FormatActions, FormatChange, FormatEdit
  <1> QED
    BY <1>1, <1>2, <1>3, <1>4 DEF Loop

LEMMA OthersLeaveLog ==
    ASSUME [Next]_vars
    PROVE  /\ User \/ ReadEvent \/ UNCHANGED alog
           /\ OpenLog \/ UNCHANGED logging
  <1>1. CASE Loop
    BY <1>1 DEF Loop, ListWindows, BootNext, OpenLog, ReadEvent, DidOpenWin, DidOpenLock, DidOpenSend,
       DidOpenWatch, DidClose, DidCloseSend, DidChangeRead, DidChangeAlloc, DidChangeSend, DidSaveLookup,
       DidSaveRead, DidSaveAlloc, DidSaveSend, DidSave, FormatLock, FormatActions, FormatChange, FormatEdit, acmeVars
  <1>2. CASE User
    BY <1>2 DEF User, NewWindow, DelWindow, Type, Get, Put, Rename
  <1>3. CASE Remote \/ ServerExit \/ UNCHANGED vars
    BY <1>3 DEF Remote, RemoteRead, RemoteSend, Request, ServerExit, vars, acmeVars
  <1>4. CASE \E w \in Wins : Watcher(w)
    BY <1>4 DEF Watcher, WatchTick, WatchStop, acmeVars
  <1>5. CASE \E i \in Notifiers : Notifier(i)
    BY <1>5 DEF Notifier, NotifyLookup, NotifyAlloc, NotifySend, acmeVars
  <1>6. CASE \E r \in Resyncers : Resync(r)
    BY <1>6 DEF Resync, ResyncInit, ResyncList, ResyncSnapshot, ResyncDone, ReopenWin, ReopenReset,
       ReopenRead, ReopenSend, acmeVars
  <1> QED
    BY <1>1, <1>2, <1>3, <1>4, <1>5, <1>6 DEF Next

\* Which phase the loop is in.
LEMMA DonePhase ==
    ASSUME TypeOK, NEW ok \in BOOLEAN, Done(ok)
    PROVE  /\ loop'.boot = loop.boot
           /\ loop.boot => loop'.pc = (IF ok THEN "boot" ELSE "exited") /\ loop'.list = loop.list
           /\ ~loop.boot => loop'.pc = "read"
  <1>1. CASE loop.boot
    <2>1. loop' = [Idle EXCEPT !.pc = IF ok THEN "boot" ELSE "exited", !.boot = TRUE, !.list = loop.list]
      BY <1>1 DEF Done
    <2>2. loop' = [pc |-> IF ok THEN "boot" ELSE "exited", boot |-> TRUE, list |-> loop.list, win |-> NoWin,
                   name |-> SomeName, doc |-> NoWin, text |-> 0, ver |-> 0]
      BY <2>1 DEF Idle
    <2> QED
      BY <1>1, <2>2 DEF TypeOK, LoopTypeOK, Loops
  <1>2. CASE ~loop.boot
    BY <1>2 DEF Done, Idle, TypeOK, LoopTypeOK, Loops
  <1> QED
    BY <1>1, <1>2

LEMMA GotoPhase ==
    ASSUME TypeOK, NEW pc \in LoopSteps, Goto(pc)
    PROVE  loop'.boot = loop.boot /\ loop'.pc = pc /\ loop'.list = loop.list
           /\ loop'.name = loop.name /\ loop'.win = loop.win
  BY DEF Goto, TypeOK, LoopTypeOK, Loops

LEMMA SavePhase ==
    ASSUME TypeOK, SaveReturns
    PROVE  loop'.boot = loop.boot /\ (~loop.boot => loop'.pc \notin {"list", "boot", "exited"})
  BY GotoPhase, DonePhase DEF SaveReturns, LoopSteps

LEMMA PhaseNext == TypeOK /\ PhaseInv /\ [Next]_vars => PhaseInv'
  <1> SUFFICES ASSUME TypeOK, PhaseInv, [Next]_vars PROVE PhaseInv'
    OBVIOUS
  <1>1. CASE ~Loop
    <2>1. UNCHANGED <<loop, logging>>
      BY <1>1, OthersLeaveLoop, OthersLeaveLog DEF Loop
    <2>2. loop.boot => UNCHANGED alog
      <3>1. CASE User
        BY <3>1 DEF User, NewWindow, DelWindow, Type, Get, Put, Rename, LogEvent, PhaseInv
      <3> QED
        BY <1>1, <3>1, OthersLeaveLog DEF Loop
    <2> QED
      BY <2>1, <2>2 DEF PhaseInv
  <1>2. CASE OpenLog
    BY <1>2 DEF OpenLog, Idle, PhaseInv
  <1>3. CASE Loop /\ ~OpenLog
    <2>1. UNCHANGED logging /\ (loop.boot => UNCHANGED alog)
      <3>1. loop.boot => ~ReadEvent
        BY DEF ReadEvent, PhaseInv
      <3>2. CASE UNCHANGED alog
        BY <1>3, <3>2, OthersLeaveLog
      <3>3. CASE ReadEvent
        BY <3>1, <3>3 DEF ReadEvent
      <3> QED
        BY <1>3, <3>2, <3>3 DEF Loop, ListWindows, BootNext, DidOpenWin, DidOpenLock, DidOpenSend,
           DidOpenWatch, DidClose, DidCloseSend, DidChangeRead, DidChangeAlloc, DidChangeSend, DidSaveLookup,
           DidSaveRead, DidSaveAlloc, DidSaveSend, DidSave, FormatLock, FormatActions, FormatChange, FormatEdit,
           acmeVars
    <2>2. /\ loop'.boot = loop.boot
          /\ loop.boot => loop'.pc \in BootSteps
          /\ ~loop.boot => loop'.pc \notin {"list", "boot", "exited"}
      <3> USE GotoPhase, DonePhase, SavePhase DEF LoopSteps
      <3>1. CASE ListWindows \/ BootNext
        <4>1. loop'.boot = loop.boot /\ loop'.pc \in {"boot", "open"} /\ loop.boot
          BY <3>1 DEF ListWindows, BootNext, TypeOK, LoopTypeOK, Loops, PhaseInv
        <4> QED
          BY <4>1 DEF BootSteps
      <3>2. CASE ReadEvent
        <4>1. Head(alog).op \in {"new", "del", "get", "put"}
          <5>1. Head(alog) \in Events
            BY <3>2 DEF ReadEvent, TypeOK, AcmeTypeOK
          <5> QED
            BY <5>1 DEF Events
        <4>2. loop'.pc = Handler(Head(alog).op) /\ loop'.boot = loop.boot /\ ~loop.boot
          BY <3>2 DEF ReadEvent, TypeOK, LoopTypeOK, Loops, PhaseInv
        <4> QED
          BY <4>1, <4>2 DEF Handler
      <3>3. CASE DidOpenWin \/ DidOpenSend \/ DidOpenWatch
        BY <3>3 DEF DidOpenWin, DidOpenSend, DidOpenWatch, BootSteps
      <3>4. CASE DidOpenLock
        <4>1. CASE loop' = [loop EXCEPT !.pc = "openSend", !.text = body[loop.win]]
          BY <4>1 DEF BootSteps, TypeOK, LoopTypeOK, Loops
        <4>2. CASE Done(FALSE)
          BY <4>2 DEF BootSteps
        <4> QED
          BY <3>4, <4>1, <4>2 DEF DidOpenLock
      <3>5. CASE loop.pc \notin BootSteps /\ ~ReadEvent
        <4>1. ~loop.boot
          BY <3>5 DEF PhaseInv
        <4>2. CASE DidClose \/ DidCloseSend \/ DidChangeSend \/ DidSaveSend \/ DidSave
          BY <4>1, <4>2 DEF DidClose, DidCloseSend, DidChangeSend, DidSaveSend, DidSave
        <4>3. CASE DidChangeRead \/ DidChangeAlloc \/ DidSaveLookup \/ DidSaveRead \/ DidSaveAlloc
          <5>1. Done(TRUE) \/ SaveReturns \/ (loop'.boot = loop.boot /\ loop'.pc \notin {"list", "boot", "exited"})
            BY <4>3 DEF DidChangeRead, DidChangeAlloc, DidSaveLookup, DidSaveRead, DidSaveAlloc,
               TypeOK, LoopTypeOK, Loops
          <5> QED
            BY <4>1, <5>1
        <4>4. CASE FormatLock \/ FormatChange \/ FormatEdit
          BY <4>1, <4>4 DEF FormatLock, FormatChange, FormatEdit
        <4>5. CASE FormatActions
          <5>1. \/ Done(TRUE) \/ Goto("formatEdit")
                \/ loop' = [loop EXCEPT !.pc = "formatChange", !.text = body'[loop.win]]
            BY <4>5 DEF FormatActions
          <5>2. CASE loop' = [loop EXCEPT !.pc = "formatChange", !.text = body'[loop.win]]
            BY <4>1, <5>2 DEF TypeOK, LoopTypeOK, Loops
          <5> QED
            BY <4>1, <5>1, <5>2
        <4> QED
          BY <1>3, <3>5, <4>2, <4>3, <4>4, <4>5 DEF Loop, ListWindows, BootNext, DidOpenWin, DidOpenLock,
             DidOpenSend, DidOpenWatch, BootSteps
      <3>6. CASE loop.pc \in BootSteps
        BY <1>3, <3>1, <3>2, <3>3, <3>4, <3>6 DEF Loop, DidClose, DidCloseSend, DidChangeRead, DidChangeAlloc,
           DidChangeSend, DidSaveLookup, DidSaveRead, DidSaveAlloc, DidSaveSend, DidSave, FormatLock,
           FormatActions, FormatChange, FormatEdit, BootSteps
      <3> QED
        BY <3>2, <3>5, <3>6
    <2> QED
      BY <2>1, <2>2 DEF PhaseInv
  <1> QED
    BY <1>1, <1>2, <1>3 DEF Loop

\* Nothing that acme would log happens while NewFileManager runs.
LEMMA BootInvNext ==
    ASSUME ~StartupGap, MaxRenames = 0, TypeOK, TypeOK', PhaseInv, PhaseInv', BootInv, [Next]_vars
    PROVE  BootInv'
  <1> SUFFICES ASSUME loop'.boot, loop'.pc # "exited" PROVE BootInv'
    BY DEF BootInv
  <1>0. loop.boot
    <2>1. ~logging'
      BY DEF PhaseInv
    <2>2. ~OpenLog
      BY <2>1 DEF OpenLog
    <2> QED
      BY <2>1, <2>2, OthersLeaveLog DEF PhaseInv
  <1>1. CASE ~Loop
    <2>1. UNCHANGED <<loop, docStates>>
      BY <1>1, OthersLeaveLoop
    <2>2. CASE loop.pc = "list"
      BY <1>0, <2>1, <2>2 DEF BootInv, BootSteps
    <2>3. CASE loop.pc # "list"
      <3>1. ~logging /\ ~Steady
        BY <1>0, <2>3 DEF PhaseInv, Steady
      <3>2. UNCHANGED <<window, tag>>
        <4>1. CASE User
          BY <3>1, <4>1, NoRename DEF User, NewWindow, DelWindow, Type, Get, Put
        <4> QED
          BY <4>1, OthersLeaveWindows
      <3> QED
        BY <1>0, <2>1, <3>2 DEF BootInv
    <2> QED
      BY <2>2, <2>3
  <1>2. CASE Loop
    <2>w. UNCHANGED <<window, tag>>
      BY <1>2, LoopLeavesWindows
    <2>b. /\ loop.pc \in BootSteps \ {"exited"}
          /\ \A n \in Names : docStates[n] # NoWin => window[docStates[n]] = "live"
          /\ loop.pc = "list" => loop.list = {} /\ \A n \in Names : docStates[n] = NoWin
          /\ loop.pc # "list" => \A w \in Wins : window[w] = "live" /\ tag[w] \in Served =>
                \/ docStates[tag[w]] = w
                \/ [win |-> w, name |-> tag[w]] \in loop.list
                \/ loop.pc \in ToTrack /\ loop.name = tag[w] /\ loop.win = w
          /\ \A f \in loop.list : window[f.win] = "live"
          /\ loop.pc \in BootSteps \ {"list", "boot"} => window[loop.win] = "live"
      <3>1. loop.pc \in BootSteps
        BY <1>0 DEF PhaseInv
      <3>2. loop.pc # "exited"
        BY <1>2 DEF Loop, ListWindows, BootNext, OpenLog, ReadEvent, DidOpenWin, DidOpenLock, DidOpenSend,
           DidOpenWatch, DidClose, DidCloseSend, DidChangeRead, DidChangeAlloc, DidChangeSend, DidSaveLookup,
           DidSaveRead, DidSaveAlloc, DidSaveSend, DidSave, FormatLock, FormatActions, FormatChange, FormatEdit
      <3> QED
        BY <1>0, <3>1, <3>2 DEF BootInv
    <2>l. loop.name \in Names /\ loop \in Loops
      BY DEF TypeOK, LoopTypeOK, Loops
    <2>1. CASE ListWindows
      <3>1. /\ loop'.pc = "boot" /\ UNCHANGED docStates
            /\ loop'.list = {[win |-> w, name |-> tag[w]] : w \in {u \in Wins : window[u] = "live"}}
        BY <2>1, <2>l DEF ListWindows, Loops, fmVars
      <3>2. \A f \in loop'.list : window[f.win] = "live"
        BY <3>1
      <3>3. \A w \in Wins : window[w] = "live" => [win |-> w, name |-> tag[w]] \in loop'.list
        BY <3>1
      <3> QED
        BY <2>w, <2>b, <3>1, <3>2, <3>3 DEF BootInv
    <2>2. CASE BootNext
      <3>1. PICK f \in loop.list :
               loop' = [loop EXCEPT !.pc = "open", !.win = f.win, !.name = f.name, !.list = @ \ {f}]
        BY <2>2 DEF BootNext
      <3>2. /\ loop'.pc = "open" /\ loop'.win = f.win /\ loop'.name = f.name /\ loop'.list = loop.list \ {f}
            /\ UNCHANGED docStates /\ loop.pc = "boot"
        BY <2>2, <2>l, <3>1 DEF BootNext, Loops, fmVars
      <3>3. \A w \in Wins : window[w] = "live" /\ tag[w] \in Served =>
               \/ docStates[tag[w]] = w
               \/ [win |-> w, name |-> tag[w]] \in loop'.list
               \/ loop'.pc \in ToTrack /\ loop'.name = tag[w] /\ loop'.win = w
        BY <2>b, <3>2 DEF ToTrack
      <3> QED
        BY <2>w, <2>b, <3>2, <3>3 DEF BootInv
    <2>3. CASE DidOpenWin
      <3>1. UNCHANGED docStates /\ loop.pc = "open"
        BY <2>3 DEF DidOpenWin, fmVars
      <3>2. CASE loop.name \in Served /\ Goto("openLock")
        <4>1. /\ loop'.pc = "openLock" /\ loop'.name = loop.name /\ loop'.win = loop.win
              /\ loop'.list = loop.list
          BY <3>2, GotoPhase DEF LoopSteps
        <4> QED
          BY <2>w, <2>b, <3>1, <4>1 DEF BootInv, ToTrack, BootSteps
      <3>3. CASE loop.name \notin Served /\ Goto("openWatch")
        <4>1. /\ loop'.pc = "openWatch" /\ loop'.name = loop.name /\ loop'.win = loop.win
              /\ loop'.list = loop.list
          BY <3>3, GotoPhase DEF LoopSteps
        <4> QED
          BY <2>w, <2>b, <3>1, <3>3, <4>1 DEF BootInv, ToTrack, BootSteps
      <3>4. ~Done(FALSE)
        BY <1>0, DonePhase
      <3> QED
        BY <2>3, <3>2, <3>3, <3>4 DEF DidOpenWin
    <2>4. CASE DidOpenLock
      <3>1. /\ docStates' = [docStates EXCEPT ![loop.name] = loop.win] /\ loop.pc = "openLock"
            /\ loop' = [loop EXCEPT !.pc = "openSend", !.text = body[loop.win]]
        BY <1>0, <2>4, DonePhase DEF DidOpenLock
      <3>2. /\ docStates'[loop.name] = loop.win
            /\ \A n \in Names : n # loop.name => docStates'[n] = docStates[n]
            /\ loop'.pc = "openSend" /\ loop'.win = loop.win /\ loop'.list = loop.list
        BY <2>l, <3>1 DEF TypeOK, ManagerTypeOK, Loops
      <3>3. docStates[loop.name] = NoWin
        BY <1>0, <2>4, DonePhase DEF DidOpenLock
      <3>4. \A w \in Wins : window[w] = "live" /\ tag[w] \in Served =>
               docStates'[tag[w]] = w \/ [win |-> w, name |-> tag[w]] \in loop'.list
        <4> SUFFICES ASSUME NEW w \in Wins, window[w] = "live", tag[w] \in Served
                     PROVE  docStates'[tag[w]] = w \/ [win |-> w, name |-> tag[w]] \in loop.list
          BY <3>2
        <4>1. tag[w] \in Names /\ w # NoWin
          BY NamesAssumption, WinsAssumption
        <4> QED
          BY <2>b, <3>1, <3>2, <3>3, <4>1
      <3> QED
        BY <2>w, <2>b, <3>1, <3>2, <3>4 DEF BootInv, BootSteps
    <2>5. CASE DidOpenSend
      <3>1. Goto("openWatch") /\ UNCHANGED docStates /\ loop.pc = "openSend"
        BY <1>0, <2>5, DonePhase DEF DidOpenSend
      <3>2. loop'.pc = "openWatch" /\ loop'.win = loop.win /\ loop'.list = loop.list
        BY <3>1, GotoPhase DEF LoopSteps
      <3> QED
        BY <2>w, <2>b, <3>1, <3>2 DEF BootInv, ToTrack, BootSteps
    <2>6. CASE DidOpenWatch
      <3>1. Done(TRUE) /\ UNCHANGED docStates /\ loop.pc = "openWatch"
        BY <2>6 DEF DidOpenWatch
      <3>2. loop'.pc = "boot" /\ loop'.list = loop.list
        BY <1>0, <3>1, DonePhase
      <3> QED
        BY <2>w, <2>b, <3>1, <3>2 DEF BootInv, ToTrack, BootSteps
    <2>7. CASE OpenLog
      BY <2>7 DEF OpenLog, Idle
    <2> QED
      BY <1>2, <2>b, <2>1, <2>2, <2>3, <2>4, <2>5, <2>6, <2>7 DEF Loop, ReadEvent, DidClose, DidCloseSend,
         DidChangeRead, DidChangeAlloc, DidChangeSend, DidSaveLookup, DidSaveRead, DidSaveAlloc, DidSaveSend,
         DidSave, FormatLock, FormatActions, FormatChange, FormatEdit, BootSteps
  <1> QED
    BY <1>1, <1>2

\* When the log is opened every live window of a served name is tracked.
LEMMA OpenLogOrders ==
    ASSUME TypeOK, TagsInv, PhaseInv, BootInv, OpenLog, NEW n \in Served
    PROVE  Ordered(n)'
  <1>1. /\ loop.pc = "boot" /\ loop.list = {} /\ loop'.pc = "read" /\ alog' = <<>>
        /\ UNCHANGED <<window, tag, docStates>>
    BY DEF OpenLog, Idle, fmVars, PhaseInv
  <1>2. /\ \A w \in Wins : window[w] = "live" /\ tag[w] \in Served => docStates[tag[w]] = w
        /\ \A m \in Names : docStates[m] # NoWin => window[docStates[m]] = "live"
    BY <1>1 DEF BootInv, PhaseInv, ToTrack
  <1>3. \A i \in Int, w \in Wins :
           /\ Ann(n, i, w)' <=> i = -1 /\ docStates[n] = w
           /\ ~Del(n, i, w)'
    BY <1>1 DEF Ann, Del, ToTrack
  <1>4. \A i \in Int, w \in Wins : Ann(n, i, w)' => window[w] = "live"
    BY <1>2, <1>3, NamesAssumption, WinsAssumption
  <1>5. \A w \in Wins : window[w] = "live" /\ tag[w] = n => Ann(n, -1, w)'
    BY <1>2, <1>3
  <1>6. DelIsGone(n)' /\ GoneIsDel(n)' /\ DelAfterAnn(n)'
    BY <1>1, <1>3, <1>4 DEF DelIsGone, GoneIsDel, DelAfterAnn
  <1>7. LiveIsAnn(n)'
    BY <1>1, <1>5 DEF LiveIsAnn
  <1>8. AnnAfterDel(n)'
    BY <1>3 DEF AnnAfterDel
  <1> QED
    BY <1>6, <1>7, <1>8 DEF Ordered

LEMMA OrderNext ==
    ASSUME MaxRenames = 0, ~Doubles, TypeOK, TypeOK', TagsInv, PhaseInv, BootInv, OrderInv, [Next]_vars
    PROVE  OrderInv'
  <1>1. CASE OpenLog
    BY <1>1, OpenLogOrders DEF OrderInv
  <1>2. CASE ~OpenLog
    <2> SUFFICES ASSUME logging, NEW n \in Served PROVE Ordered(n)'
      BY <1>2, OthersLeaveLog DEF OrderInv
    <2>1. Ordered(n) /\ n \in Names
      BY NamesAssumption DEF OrderInv
    <2>2. CASE User
      BY <2>1, <2>2, UserOrdered
    <2>3. CASE ReadEvent
      BY <2>1, <2>3, ReadOrdered
    <2>4. CASE DidOpenWin \/ DidOpenLock \/ DidClose
      BY <2>1, <2>4, OpenWinOrdered, OpenLockOrdered, CloseOrdered
    <2>5. CASE LoopAway /\ UNCHANGED <<alog, docStates>> /\ Loop
      BY <2>1, <2>5, StaysOrdered, LoopLeavesWindows
    <2>6. CASE ~Loop /\ ~User
      BY <2>1, <2>6, StaysOrdered, OthersLeaveLoop, OthersLeaveWindows, OthersLeaveLog DEF Loop
    <2>7. ~ListWindows /\ ~BootNext
      BY DEF ListWindows, BootNext, PhaseInv
    <2> QED
      BY <1>2, <2>2, <2>3, <2>4, <2>5, <2>6, <2>7, LoopPasses
  <1> QED
    BY <1>1, <1>2

\* With distinct names, no renames and nothing logged while the windows are
\* being listed, the FileManager tracks exactly the served files that are open
\* in acme whenever it has caught up, whatever number of windows are made and
\* deleted under one name and however late their events are read, and however
\* often the server exits.
THEOREM ExactlyTheOpenFilesAreTracked ==
    ASSUME ~StartupGap, ~Doubles, MaxRenames = 0
    PROVE  Spec => []OpenFilesTracked
  <1> DEFINE Inv == TagsInv /\ PhaseInv /\ BootInv /\ OrderInv
  <1>1. Init => Inv
    <2> SUFFICES ASSUME Init PROVE Inv
      OBVIOUS
    <2>1. TagsInv
      BY InitTags
    <2>2. loop.pc = "list" /\ loop.boot /\ loop.list = {}
      BY DEF Init, Idle
    <2>3. PhaseInv /\ BootInv /\ OrderInv
      BY <2>2 DEF Init, PhaseInv, BootInv, BootSteps, OrderInv
    <2> QED
      BY <2>1, <2>3
  <1>2. TypeOK /\ TypeOK' /\ Inv /\ [Next]_vars => Inv'
    BY TagsNext, PhaseNext, BootInvNext, OrderNext
  <1>3. TypeOK /\ Inv => OpenFilesTracked
    <2> SUFFICES ASSUME TypeOK, Inv, Quiet, NEW n \in Served, NEW w \in Wins
                 PROVE  docStates[n] = w <=> window[w] = "live" /\ tag[w] = n
      BY DEF OpenFilesTracked
    <2>1. n \in Names /\ Ordered(n)
      BY NamesAssumption DEF PhaseInv, BootSteps, Quiet, OrderInv
    <2>2. \A i \in Int, v \in Wins : (Ann(n, i, v) <=> i = -1 /\ docStates[n] = v) /\ ~Del(n, i, v)
      BY DEF Quiet, Ann, Del, ToTrack
    <2>3. ASSUME window[w] = "live", tag[w] = n PROVE docStates[n] = w
      BY <2>1, <2>2, <2>3 DEF Ordered, LiveIsAnn
    <2>4. ASSUME docStates[n] = w PROVE window[w] = "live" /\ tag[w] = n
      <3>1. Is(w, n)
        BY <2>1, <2>4, WinsAssumption DEF TagsInv
      <3>2. window[w] # "gone"
        BY <2>1, <2>2, <2>4 DEF Ordered, GoneIsDel
      <3> QED
        BY <3>1, <3>2 DEF Is, TypeOK, AcmeTypeOK
    <2> QED
      BY <2>3, <2>4
  <1> QED
    BY <1>1, <1>2, <1>3, TypeCorrect, PTL DEF Spec

-----------------------------------------------------------------------------
(* While the server is up every tracked file keeps the watcher of its      *)
(* window.                                                                 *)

\* A file is tracked only if there is a server for it, by a window that acme
\* has made; the file that is being opened is tracked by its window.
ServedInv ==
    /\ \A n \in Names : docStates[n] # NoWin => n \in Served /\ window[docStates[n]] # "unborn"
    /\ loop.pc \in {"openLock", "openSend"} => loop.name \in Served
    /\ loop.pc = "openSend" \/ (loop.pc = "openWatch" /\ loop.name \in Served) =>
          docStates[loop.name] = loop.win

\* A tracked file's stop channel is that of its window, unless didOpen is on
\* its way to store it; a watcher ends only when its channel is closed or its
\* window is gone.
Held(n) ==
    \/ watchers[n] = docStates[n]
    \/ loop.pc \in {"openSend", "openWatch"} /\ loop.name = n

WatchedInv ==
    Highlighting =>
        /\ \A n \in Names : Tracked(n) => Held(n)
        /\ \A w \in Wins : watch[w].pc = "done" => w \in closed \/ window[w] = "gone"
        /\ \A w \in Wins : watch[w].pc # "none" => window[w] # "unborn"
        /\ \A n \in Names : watchers[n] # NoWin => watch[watchers[n]].pc # "none"

\* A step that leaves docStates and watchers alone, and the loop in place.
LEMMA WatchedStays ==
    ASSUME TypeOK, ServedInv, WatchedInv, [Next]_vars,
           UNCHANGED <<docStates, watchers, closed, watch>>, UNCHANGED loop \/ LoopElsewhere
    PROVE  ServedInv' /\ WatchedInv'
  <1>1. \A n \in Names : docStates[n] # NoWin => docStates[n] \in Wins
    BY DEF TypeOK, ManagerTypeOK
  <1>2. \A n \in Names : docStates[n] # NoWin =>
           window'[docStates[n]] # "unborn" /\ (window'[docStates[n]] = "live" => window[docStates[n]] = "live")
    BY <1>1, WindowsAge DEF ServedInv
  <1>3. ServedInv'
    BY <1>2 DEF ServedInv, LoopElsewhere, ToOpen
  <1>4. ASSUME NEW n \in Names, Tracked(n)', Highlighting PROVE Held(n)'
    <2>1. Held(n)
      BY <1>2, <1>4 DEF Tracked, WatchedInv
    <2> QED
      BY <2>1 DEF Held, LoopElsewhere
  <1>5. \A w \in Wins : /\ window[w] = "gone" => window'[w] = "gone"
                        /\ window[w] # "unborn" => window'[w] # "unborn"
    BY WindowsAge
  <1> QED
    BY <1>3, <1>4, <1>5 DEF WatchedInv

LEMMA OpenWatched ==
    ASSUME TypeOK, WatchersInv, ServedInv, WatchedInv, serverUp,
           DidOpenWin \/ DidOpenLock \/ DidOpenSend
    PROVE  ServedInv' /\ WatchedInv'
  <1>0. [Next]_vars
    BY DEF Next, Loop
  <1>t. loop \in Loops /\ loop.name \in Names /\ loop.win \in Wins
    BY DEF TypeOK, LoopTypeOK, Loops, DidOpenWin, DidOpenLock, DidOpenSend
  <1>1. UNCHANGED <<window, watchers, closed, watch>>
    BY DEF DidOpenWin, DidOpenLock, DidOpenSend, acmeVars, fmVars
  <1>2. CASE DidOpenWin
    <2>1. UNCHANGED docStates /\ loop.pc = "open"
      BY <1>2 DEF DidOpenWin, fmVars
    <2>2. \/ loop'.pc = "openLock" /\ loop'.name = loop.name /\ loop.name \in Served
          \/ loop'.pc = "openWatch" /\ loop'.name = loop.name /\ loop.name \notin Served
          \/ loop'.pc \notin ToOpen
      <3>1. CASE loop.name \notin Served /\ Goto("openWatch")
        BY <1>2, <3>1, GotoMoves DEF DidOpenWin, LoopSteps
      <3>2. CASE loop.name \in Served /\ Goto("openLock")
        BY <1>2, <3>2, GotoMoves DEF DidOpenWin, LoopSteps
      <3>3. CASE Done(FALSE)
        BY <3>3, DoneMoves DEF ToOpen
      <3> QED
        BY <1>2, <3>1, <3>2, <3>3 DEF DidOpenWin
    <2>3. ServedInv'
      BY <1>1, <2>1, <2>2 DEF ServedInv, ToOpen
    <2>4. WatchedInv'
      BY <1>1, <2>1 DEF WatchedInv, Tracked, Held
    <2> QED
      BY <2>3, <2>4
  <1>3. CASE DidOpenLock
    <2>1. loop.pc = "openLock" /\ loop.name \in Served
      BY <1>3 DEF DidOpenLock, ServedInv
    <2>2. window[loop.win] # "unborn"
      BY <2>1 DEF WatchersInv, BornFirst, Opening, OpenSteps
    <2>3. CASE Done(FALSE) /\ UNCHANGED docStates
      BY <1>0, <1>1, <2>1, <2>3, WatchedStays, DoneMoves DEF LoopElsewhere, ToOpen
    <2>4. CASE docStates' = [docStates EXCEPT ![loop.name] = loop.win]
      <3>1. /\ docStates'[loop.name] = loop.win
            /\ \A n \in Names : n # loop.name => docStates'[n] = docStates[n]
        BY <1>t, <2>4 DEF TypeOK, ManagerTypeOK
      <3>2. \/ loop'.pc = "openSend" /\ loop'.name = loop.name /\ loop'.win = loop.win
            \/ loop'.pc \notin ToOpen /\ window[loop.win] # "live"
            \/ loop'.pc \notin ToOpen /\ UNCHANGED docStates
        <4>1. CASE loop' = [loop EXCEPT !.pc = "openSend", !.text = body[loop.win]]
          BY <1>t, <4>1 DEF Loops
        <4>2. CASE Done(FALSE)
          <5>1. loop'.pc \notin ToOpen
            BY <4>2, DoneMoves DEF ToOpen
          <5>2. loop' # [loop EXCEPT !.pc = "openSend", !.text = body[loop.win]]
            BY <1>t, <5>1 DEF ToOpen, Loops
          <5> QED
            BY <1>3, <5>1, <5>2 DEF DidOpenLock
        <4> QED
          BY <1>3, <4>1, <4>2 DEF DidOpenLock
      <3>3. CASE loop'.pc \notin ToOpen /\ UNCHANGED docStates
        BY <1>0, <1>1, <2>1, <3>3, WatchedStays DEF LoopElsewhere
      <3>4. CASE \/ loop'.pc = "openSend" /\ loop'.name = loop.name /\ loop'.win = loop.win
                 \/ loop'.pc \notin ToOpen /\ window[loop.win] # "live"
        <4>1. ServedInv'
          BY <1>1, <2>1, <2>2, <3>1, <3>4 DEF ServedInv, ToOpen
        <4>2. ASSUME Highlighting, NEW n \in Names, Tracked(n)' PROVE Held(n)'
          <5>1. CASE n = loop.name
            BY <1>1, <3>1, <3>4, <4>2, <5>1 DEF Tracked, Held
          <5>2. CASE n # loop.name
            BY <1>1, <2>1, <3>1, <4>2, <5>2 DEF Tracked, Held, WatchedInv
          <5> QED
            BY <5>1, <5>2
        <4> QED
          BY <1>1, <4>1, <4>2 DEF WatchedInv
      <3> QED
        BY <3>2, <3>3, <3>4
    <2> QED
      BY <1>3, <2>3, <2>4 DEF DidOpenLock
  <1>4. CASE DidOpenSend
    <2>1. UNCHANGED docStates /\ loop.pc = "openSend"
      BY <1>4 DEF DidOpenSend
    <2>2. loop'.pc = "openWatch" /\ loop'.name = loop.name /\ loop'.win = loop.win
      BY <1>4, GotoMoves DEF DidOpenSend, LoopSteps
    <2>3. ServedInv'
      BY <1>1, <2>1, <2>2 DEF ServedInv
    <2>4. WatchedInv'
      BY <1>1, <2>1, <2>2 DEF WatchedInv, Tracked, Held
    <2> QED
      BY <2>3, <2>4
  <1> QED
    BY <1>2, <1>3, <1>4

LEMMA WatchStored ==
    ASSUME TypeOK, WatchersInv, ServedInv, WatchedInv, DidOpenWatch
    PROVE  ServedInv' /\ WatchedInv'
  <1>t. loop.name \in Names /\ loop.win \in Wins /\ loop.win # NoWin /\ loop.pc = "openWatch"
    BY WinsAssumption DEF TypeOK, LoopTypeOK, Loops, DidOpenWatch
  <1>1. UNCHANGED <<window, docStates, closed>> /\ loop'.pc \notin ToOpen
    BY DoneMoves DEF DidOpenWatch, acmeVars, ToOpen
  <1>2. ServedInv'
    BY <1>1 DEF ServedInv, ToOpen
  <1>3. ASSUME Highlighting PROVE WatchedInv'
    <2>1. /\ watchers' = [watchers EXCEPT ![loop.name] = loop.win]
          /\ watch' = [watch EXCEPT ![loop.win] = [pc |-> "run", name |-> loop.name, last |-> NoText]]
      BY <1>3 DEF DidOpenWatch
    <2>2. /\ watchers'[loop.name] = loop.win /\ watch'[loop.win].pc = "run"
          /\ \A n \in Names : n # loop.name => watchers'[n] = watchers[n]
          /\ \A w \in Wins : w # loop.win => watch'[w] = watch[w]
      BY <1>t, <2>1 DEF TypeOK, ManagerTypeOK, ThreadTypeOK
    <2>3. window[loop.win] # "unborn"
      BY <1>t DEF WatchersInv, BornFirst, Opening, OpenSteps
    <2>4. ASSUME NEW n \in Names, Tracked(n)' PROVE Held(n)'
      <3>1. CASE n = loop.name
        <4>1. n \in Served
          BY <1>1, <2>4 DEF Tracked, ServedInv
        <4> QED
          BY <1>1, <1>t, <2>2, <3>1, <4>1 DEF Held, ServedInv
      <3>2. CASE n # loop.name
        BY <1>1, <1>3, <2>2, <2>4, <3>2 DEF Held, Tracked, WatchedInv
      <3> QED
        BY <3>1, <3>2
    <2>5. \A n \in Names : watchers[n] # NoWin => watchers[n] \in Wins
      BY DEF TypeOK, ManagerTypeOK
    <2>6. \A n \in Names : watchers'[n] # NoWin => watch'[watchers'[n]].pc # "none"
      BY <1>3, <2>2, <2>5 DEF WatchedInv
    <2> QED
      BY <1>1, <1>3, <2>2, <2>3, <2>4, <2>6 DEF WatchedInv
  <1> QED
    BY <1>2, <1>3 DEF WatchedInv

LEMMA CloseWatched ==
    ASSUME TypeOK, ServedInv, WatchedInv, DidClose
    PROVE  ServedInv' /\ WatchedInv'
  <1>t. loop.name \in Names /\ loop.pc = "close"
    BY DEF TypeOK, LoopTypeOK, Loops, DidClose
  <1>1. /\ UNCHANGED <<window, watch>> /\ closed \subseteq closed'
        /\ docStates'[loop.name] = NoWin /\ watchers'[loop.name] = NoWin
        /\ \A n \in Names : n # loop.name => docStates'[n] = docStates[n] /\ watchers'[n] = watchers[n]
    BY <1>t DEF DidClose, acmeVars, TypeOK, ManagerTypeOK
  <1>2. loop'.pc \notin ToOpen
    BY GotoMoves, DoneMoves DEF DidClose, LoopSteps, ToOpen
  <1>3. ServedInv'
    BY <1>1, <1>2 DEF ServedInv, ToOpen
  <1>4. ASSUME Highlighting, NEW n \in Names, Tracked(n)' PROVE Held(n)'
    BY <1>1, <1>4, <1>t DEF Held, Tracked, WatchedInv
  <1> QED
    BY <1>1, <1>3, <1>4 DEF WatchedInv

\* A watcher stops when its channel is closed or its window is gone.
LEMMA StopWatched ==
    ASSUME TypeOK, ServedInv, WatchedInv, NEW w \in Wins, Watcher(w)
    PROVE  ServedInv' /\ WatchedInv'
  <1>1. UNCHANGED <<window, docStates, watchers, closed, loop>>
    BY DEF Watcher, WatchTick, WatchStop, acmeVars, fmVars
  <1>2. /\ watch[w].pc = "run" /\ watch'[w].pc \in {"run", "done"}
        /\ watch'[w].pc = "done" => w \in closed \/ window[w] # "live"
        /\ \A v \in Wins : v # w => watch'[v] = watch[v]
    BY DEF Watcher, WatchTick, WatchStop, TypeOK, ThreadTypeOK, Watches
  <1>3. ServedInv'
    BY <1>1 DEF ServedInv
  <1>4. ASSUME Highlighting PROVE WatchedInv'
    <2>1. watch'[w].pc = "done" => w \in closed \/ window[w] = "gone"
      BY <1>2, <1>4 DEF WatchedInv, TypeOK, AcmeTypeOK
    <2>2. \A n \in Names : watchers[n] # NoWin => watchers[n] \in Wins
      BY DEF TypeOK, ManagerTypeOK
    <2>3. \A n \in Names : Tracked(n)' => Held(n)'
      BY <1>1, <1>4 DEF WatchedInv, Tracked, Held
    <2>4. \A n \in Names : watchers'[n] # NoWin => watch'[watchers'[n]].pc # "none"
      BY <1>1, <1>2, <1>4, <2>2 DEF WatchedInv
    <2> QED
      BY <1>1, <1>2, <1>4, <2>1, <2>3, <2>4 DEF WatchedInv
  <1> QED
    BY <1>3, <1>4 DEF WatchedInv

LEMMA WatchedNext ==
    ASSUME TypeOK, WatchersInv, ServedInv, WatchedInv, serverUp, [Next]_vars
    PROVE  ServedInv' /\ WatchedInv'
  <1>1. CASE DidOpenWin \/ DidOpenLock \/ DidOpenSend
    BY <1>1, OpenWatched
  <1>2. CASE DidOpenWatch
    BY <1>2, WatchStored
  <1>3. CASE DidClose
    BY <1>3, CloseWatched
  <1>4. CASE \E w \in Wins : Watcher(w)
    BY <1>4, StopWatched
  <1>5. CASE /\ ~DidOpenWin /\ ~DidOpenLock /\ ~DidOpenSend /\ ~DidOpenWatch /\ ~DidClose
             /\ ~\E w \in Wins : Watcher(w)
    BY <1>5, OpenersTrack, OthersLeaveLoop, LoopOpens, WatchedStays
  <1> QED
    BY <1>1, <1>2, <1>3, <1>4, <1>5

\* As long as the server does not exit, with highlighting, the watcher of a
\* tracked file of a live window is running and its stop channel is the one
\* that didClose will find, whatever windows are named and renamed to.
THEOREM TrackedFilesAreWatched ==
    ASSUME MaxCrashes = 0
    PROVE  Spec => []TrackedIsWatched
  <1> DEFINE Inv == OpenInv /\ WatchersInv /\ ServedInv /\ WatchedInv
  <1>1. Init => Inv
    <2> SUFFICES ASSUME Init PROVE Inv
      OBVIOUS
    <2>1. OpenInv
      BY DEF Init, OpenInv, OpenIsTracked, NotOpen, Idle
    <2>2. WatchersInv
      BY InitWatchers
    <2>3. ServedInv /\ WatchedInv
      BY DEF Init, ServedInv, WatchedInv, Tracked, Idle
    <2> QED
      BY <2>1, <2>2, <2>3
  <1>2. TypeOK /\ TypeOK' /\ Inv /\ [Next]_vars => Inv'
    BY OpenInvNext, WatchersInvNext, WatchedNext DEF OpenInv
  <1>3. TypeOK /\ Inv => TrackedIsWatched
    <2> SUFFICES ASSUME TypeOK, Inv, Highlighting, Quiet, NEW n \in Served,
                        docStates[n] # NoWin, window[docStates[n]] = "live"
                 PROVE  watchers[n] = docStates[n] /\ watch[docStates[n]].pc = "run"
      BY DEF TrackedIsWatched
    <2>1. n \in Names /\ docStates[n] \in Wins
      BY NamesAssumption DEF TypeOK, ManagerTypeOK
    <2>2. watchers[n] = docStates[n]
      BY <2>1 DEF WatchedInv, Tracked, Held, Quiet
    <2>3. watch[docStates[n]].pc \notin {"none", "done"}
      BY <2>1, <2>2 DEF WatchedInv, WatchersInv, StopChannelsClosedOnce
    <2> QED
      BY <2>1, <2>2, <2>3 DEF TypeOK, ThreadTypeOK, Watches
  <1> QED
    BY <1>1, <1>2, <1>3, TypeCorrect, PTL DEF Spec

(***************************************************************************)
(*                                  Texts                                  *)
(***************************************************************************)

-----------------------------------------------------------------------------
(* Without highlighting nobody but the event loop gives out versions.      *)

Silent ==
    /\ \A w \in Wins : watch[w].pc = "none"
    /\ \A i \in Notifiers : notify[i].pc = "idle"

\* Who is left.
LEMMA SilentSteps ==
    ASSUME MaxCrashes = 0, TypeOK, Silent, [Next]_vars
    PROVE  User \/ Loop \/ Remote \/ UNCHANGED vars
  <1>1. \A w \in Wins : ~Watcher(w)
    BY DEF Silent, Watcher, WatchTick, WatchStop
  <1>2. \A i \in Notifiers : ~Notifier(i)
    BY DEF Silent, Notifier, NotifyLookup, NotifyAlloc, NotifySend
  <1> QED
    BY <1>1, <1>2, NoCrash DEF Next

LEMMA LoopNotifiesNobody == Loop => UNCHANGED <<notify, remote>>
  BY DEF Loop, ListWindows, BootNext, OpenLog, ReadEvent, DidOpenWin, DidOpenLock, DidOpenSend,
     DidOpenWatch, DidClose, DidCloseSend, DidChangeRead, DidChangeAlloc, DidChangeSend, DidSaveLookup,
     DidSaveRead, DidSaveAlloc, DidSaveSend, DidSave, FormatLock, FormatActions, FormatChange, FormatEdit

LEMMA SilentNext ==
    ASSUME MaxCrashes = 0, ~Highlighting, TypeOK, Silent, [Next]_vars
    PROVE  Silent'
  <1>1. UNCHANGED notify
    <2>1. CASE User \/ Remote \/ UNCHANGED vars
      BY <2>1 DEF User, NewWindow, DelWindow, Type, Get, Put, Rename, Remote, RemoteRead, RemoteSend, Request, vars
    <2> QED
      BY <2>1, SilentSteps, LoopNotifiesNobody
  <1>2. UNCHANGED watch
    <2>1. CASE DidOpenWatch
      BY <2>1 DEF DidOpenWatch
    <2>2. \A w \in Wins : ~Watcher(w)
      BY DEF Silent, Watcher, WatchTick, WatchStop
    <2> QED
      BY <2>1, <2>2, OpenersTrack
  <1> QED
    BY <1>1, <1>2 DEF Silent

-----------------------------------------------------------------------------
(* Texts.  A step edits the body of at most one window, and gives it a     *)
(* text that is newer than any other.                                      *)

LEMMA EditSteps ==
    ASSUME MaxCrashes = 0, TypeOK, Silent, [Next]_vars
    PROVE  \/ UNCHANGED body /\ used'.texts = used.texts
           \/ (\E w \in Wins : EditBody(w)) /\ UNCHANGED <<server, docStates, version, remote>>
  <1>u. used \in Budgets
    BY DEF TypeOK, AcmeTypeOK
  <1>1. CASE User
    <2>1. UNCHANGED <<server, docStates, version, remote>>
      BY <1>1 DEF User, NewWindow, DelWindow, Type, Get, Put, Rename, fmVars, serverVars
    <2>2. \A w \in Wins : Type(w) \/ Get(w) => EditBody(w)
      BY DEF Type, Get
    <2>3. \A w \in Wins, n \in Names : NewWindow(w, n) \/ DelWindow(w) => UNCHANGED <<body, used>>
      BY DEF NewWindow, DelWindow
    <2>4. \A w \in Wins, n \in Names : Put(w) \/ Rename(w, n) => UNCHANGED body /\ used'.texts = used.texts
      BY <1>u DEF Put, Rename, Budgets
    <2> QED
      BY <1>1, <2>1, <2>2, <2>3, <2>4, NamesAssumption DEF User
  <1>2. CASE FormatActions
    BY <1>2 DEF FormatActions
  <1>3. CASE FormatEdit
    <2>1. loop.win \in Wins
      BY <1>3 DEF FormatEdit, TypeOK, LoopTypeOK
    <2> QED
      BY <1>3, <2>1 DEF FormatEdit
  <1>4. CASE Loop /\ ~FormatActions /\ ~FormatEdit
    BY <1>4 DEF Loop, ListWindows, BootNext, OpenLog, ReadEvent, DidOpenWin, DidOpenLock, DidOpenSend,
       DidOpenWatch, DidClose, DidCloseSend, DidChangeRead, DidChangeAlloc, DidChangeSend, DidSaveLookup,
       DidSaveRead, DidSaveAlloc, DidSaveSend, DidSave, FormatLock, FormatChange, acmeVars
  <1>5. CASE Remote
    <2>1. \A w \in Wins : RemoteRead(w) => UNCHANGED body /\ used'.texts = used.texts
      BY <1>u DEF RemoteRead, Budgets
    <2> QED
      BY <1>5, <2>1 DEF Remote, RemoteSend, Request, acmeVars
  <1>6. CASE UNCHANGED vars
    BY <1>6 DEF vars, acmeVars
  <1> QED
    BY <1>1, <1>2, <1>3, <1>4, <1>5, <1>6, SilentSteps

BodiesBound == \A w \in Wins : body[w] <= used.texts

LEMMA EditGrows ==
    ASSUME TypeOK, BodiesBound, NEW w \in Wins, EditBody(w)
    PROVE  /\ used'.texts = used.texts + 1 /\ body'[w] = used'.texts
           /\ \A v \in Wins : v # w => body'[v] = body[v]
           /\ \A v \in Wins : body[v] <= body'[v] /\ body'[v] <= used'.texts
  <1>1. used \in Budgets /\ used.texts \in Nat /\ body \in [Wins -> Texts]
    BY BoundAssumption DEF TypeOK, AcmeTypeOK, Budgets
  <1>2. \A v \in Wins : body[v] \in Nat
    BY <1>1, BoundAssumption DEF Texts
  <1>3. used' = [used EXCEPT !.texts = used.texts + 1] /\ body' = [body EXCEPT ![w] = used.texts + 1]
    BY DEF EditBody
  <1>4. used'.texts = used.texts + 1
    BY <1>1, <1>3 DEF Budgets
  <1>5. body'[w] = used.texts + 1 /\ \A v \in Wins : v # w => body'[v] = body[v]
    BY <1>1, <1>3
  <1> QED
    BY <1>1, <1>2, <1>4, <1>5 DEF BodiesBound

LEMMA BodiesGrow ==
    ASSUME MaxCrashes = 0, TypeOK, Silent, BodiesBound, [Next]_vars
    PROVE  BodiesBound' /\ \A w \in Wins : body[w] <= body'[w]
  <1>1. \A w \in Wins : body[w] \in Int
    BY BoundAssumption DEF TypeOK, AcmeTypeOK, Texts
  <1>2. CASE UNCHANGED body /\ used'.texts = used.texts
    BY <1>1, <1>2 DEF BodiesBound
  <1>3. CASE \E w \in Wins : EditBody(w)
    BY <1>3, EditGrows DEF BodiesBound
  <1> QED
    BY <1>2, <1>3, EditSteps

\* Who sends what the server may take.
LEMMA SendSteps ==
    ASSUME MaxCrashes = 0, TypeOK, Silent, [Next]_vars
    PROVE  \/ DidOpenSend \/ DidCloseSend \/ DidChangeSend \/ DidSaveSend \/ FormatChange
           \/ RemoteSend \/ UNCHANGED server
  <1>1. CASE User \/ UNCHANGED vars
    BY <1>1 DEF User, NewWindow, DelWindow, Type, Get, Put, Rename, vars, serverVars
  <1>2. CASE Remote
    BY <1>2 DEF Remote, RemoteRead, Request, serverVars
  <1>3. CASE Loop
    BY <1>3 DEF Loop, ListWindows, BootNext, OpenLog, ReadEvent, DidOpenWin, DidOpenLock,
       DidOpenWatch, DidClose, DidChangeRead, DidChangeAlloc, DidSaveLookup, DidSaveRead, DidSaveAlloc,
       DidSave, ServerSave, FormatLock, FormatActions, FormatEdit, serverVars
  <1> QED
    BY <1>1, <1>2, <1>3, SilentSteps

\* What L sends changes one document, and of that neither the FileManager's
\* text nor whether it is open.
LEMMA IntrudedTexts ==
    ASSUME TypeOK, RemoteSend
    PROVE  /\ remote.name \in Names
           /\ \A n \in Names : n # remote.name => server'[n] = server[n]
           /\ \A n \in Names : server'[n].open = server[n].open /\ server'[n].own = server[n].own
           /\ \/ UNCHANGED server
              \/ /\ server[remote.name].open
                 /\ server'[remote.name].ver = 0 /\ server'[remote.name].text = remote.text
                 /\ server'[remote.name].late =
                       \E w \in Wins : window[w] = "live" /\ tag[w] = remote.name /\ body[w] # remote.text
  <1>1. PICK d \in Documents :
              /\ Receive(remote.name, d)
              /\ d.open = server[remote.name].open /\ d.ver = 0
              /\ d.text = remote.text /\ d.own = server[remote.name].own
              /\ d.late = \E w \in Wins : /\ window[w] = "live" /\ tag[w] = remote.name
                                          /\ body[w] # remote.text
    BY RemoteMessage
  <1>2. remote.name \in Names /\ server \in [Names -> Documents]
    BY DEF TypeOK, ThreadTypeOK, ServerTypeOK, Remotes
  <1>3. UNCHANGED server \/ (server[remote.name].open /\ server' = [server EXCEPT ![remote.name] = d])
    BY <1>1 DEF Receive
  <1>4. CASE UNCHANGED server
    BY <1>2, <1>4
  <1>5. CASE server[remote.name].open /\ server' = [server EXCEPT ![remote.name] = d]
    <2>1. server'[remote.name] = d /\ \A n \in Names : n # remote.name => server'[n] = server[n]
      BY <1>2, <1>5
    <2> QED
      BY <1>1, <1>2, <1>5, <2>1
  <1> QED
    BY <1>3, <1>4, <1>5

-----------------------------------------------------------------------------
(* Each event comes after the one that announces its window.               *)

\* The loop handles an event of a window that it has opened.
After == Handling /\ loop.pc \notin OpenSteps
NewsFirst ==
    /\ \A j, k \in DOMAIN alog : New(j) /\ ~New(k) /\ alog[j].win = alog[k].win => j < k
    /\ After => \A j \in DOMAIN alog : New(j) => alog[j].win # loop.win

LEMMA LogNews ==
    ASSUME TypeOK, TagsInv, NewsFirst, NEW o \in {"new", "del", "get", "put"}, NEW w \in Wins, LogEvent(o, w),
           tag'[w] \in Names, UNCHANGED loop, o = "new" => window[w] = "unborn"
    PROVE  NewsFirst'
  <1>1. CASE ~logging
    BY <1>1 DEF LogEvent, NewsFirst, New, After, Handling
  <1>2. CASE logging
    <2>1. PICK e : e = [op |-> o, win |-> w, name |-> tag'[w]]
      OBVIOUS
    <2>2. e \in Events /\ e.op = o /\ e.win = w /\ alog' = Append(alog, e)
      BY <1>2, <2>1 DEF Events, LogEvent
    <2>3. /\ DOMAIN alog' = 1..(Len(alog) + 1) /\ DOMAIN alog = 1..Len(alog) /\ Len(alog) \in Nat
          /\ \A k \in DOMAIN alog : alog'[k] = alog[k]
          /\ alog'[Len(alog) + 1] = e
      BY <2>2, NamedWindows, AppendProperties
    <2>4. \A k \in DOMAIN alog : o = "new" => alog[k].win # w
      BY DEF TagsInv, Is
    <2>5. ASSUME NEW j \in DOMAIN alog', NEW k \in DOMAIN alog', New(j)', ~New(k)', alog'[j].win = alog'[k].win
          PROVE  j < k
      <3>1. CASE k = Len(alog) + 1
        BY <2>2, <2>3, <2>5, <3>1 DEF New
      <3>2. CASE k \in DOMAIN alog /\ j \in DOMAIN alog
        BY <2>3, <2>5, <3>2 DEF New, NewsFirst
      <3>3. CASE k \in DOMAIN alog /\ j = Len(alog) + 1
        BY <2>2, <2>3, <2>4, <2>5, <3>3 DEF New
      <3> QED
        BY <2>3, <3>1, <3>2, <3>3
    <2>6. ASSUME After', NEW j \in DOMAIN alog', New(j)' PROVE alog'[j].win # loop'.win
      <3>1. After /\ loop'.win = loop.win
        BY <2>6 DEF After, Handling
      <3>2. CASE j \in DOMAIN alog
        BY <2>3, <2>6, <3>1, <3>2 DEF New, NewsFirst
      <3>3. CASE j = Len(alog) + 1
        <4>1. window[loop.win] # "unborn"
          BY <3>1 DEF After, TagsInv, Is
        <4> QED
          BY <2>2, <2>3, <2>6, <3>1, <3>3, <4>1 DEF New
      <3> QED
        BY <2>3, <3>2, <3>3
    <2> QED
      BY <2>5, <2>6 DEF NewsFirst
  <1> QED
    BY <1>1, <1>2

\* Where the loop goes on with an event it goes on with the same window.
LEMMA AfterStays ==
    ASSUME TypeOK, Loop, ~ReadEvent, After'
    PROVE  After /\ loop'.win = loop.win
  <1> USE GotoMoves, DoneMoves, SaveMoves DEF LoopSteps, After, Handling, OpenSteps
  <1>1. ~ListWindows /\ ~BootNext /\ ~OpenLog
    <2>1. ~ListWindows /\ ~BootNext
      BY DEF ListWindows, BootNext, TypeOK, LoopTypeOK, Loops
    <2> QED
      BY <2>1 DEF OpenLog, Idle
  <1>2. CASE DidOpenWin \/ DidOpenSend \/ DidOpenWatch
    BY <1>2 DEF DidOpenWin, DidOpenSend, DidOpenWatch
  <1>3. CASE DidOpenLock
    <2>1. CASE loop' = [loop EXCEPT !.pc = "openSend", !.text = body[loop.win]]
      BY <2>1 DEF TypeOK, LoopTypeOK, Loops
    <2> QED
      BY <1>3, <2>1 DEF DidOpenLock
  <1>4. CASE ~DidOpenWin /\ ~DidOpenLock /\ ~DidOpenSend /\ ~DidOpenWatch
    <2>1. Proceeds
      BY <1>1, LoopProceeds
    <2>2. loop.pc \notin OpenSteps
      BY <1>1, <1>4 DEF Loop, DidClose, DidCloseSend, DidChangeRead, DidChangeAlloc, DidChangeSend,
         DidSaveLookup, DidSaveRead, DidSaveAlloc, DidSaveSend, DidSave, FormatLock, FormatActions, FormatChange,
         FormatEdit
    <2> QED
      BY <2>1, <2>2 DEF Proceeds
  <1> QED
    BY <1>1, <1>2, <1>3, <1>4

LEMMA NewsNext ==
    ASSUME MaxRenames = 0, TypeOK, TypeOK', TagsInv, NewsFirst, [Next]_vars
    PROVE  NewsFirst'
  <1>1. CASE User
    <2>1. UNCHANGED loop /\ tag' \in [Wins -> Names]
      BY <1>1, OthersLeaveLoop DEF User, NewWindow, DelWindow, Type, Get, Put, Rename, TypeOK, AcmeTypeOK
    <2>2. ASSUME NEW w \in Wins, NEW n \in Names, NewWindow(w, n) PROVE NewsFirst'
      BY <2>1, <2>2, LogNews DEF NewWindow
    <2>3. ASSUME NEW w \in Wins, DelWindow(w) \/ Get(w) \/ Put(w) PROVE NewsFirst'
      BY <2>1, <2>3, LogNews DEF DelWindow, Get, Put
    <2>4. ASSUME NEW w \in Wins, Type(w) PROVE NewsFirst'
      BY <2>1, <2>4 DEF Type, NewsFirst, New, After, Handling
    <2> QED
      BY <1>1, <2>2, <2>3, <2>4, NoRename DEF User
  <1>2. CASE ReadEvent
    <2>1. PICK e : e = Head(alog)
      OBVIOUS
    <2>2. /\ alog # <<>> /\ alog' = Tail(alog)
          /\ loop'.pc = Handler(e.op) /\ loop'.win = e.win
      BY <1>2, <2>1 DEF ReadEvent, TypeOK, LoopTypeOK, Loops
    <2>3. /\ Len(alog) \in Nat /\ DOMAIN alog = 1..Len(alog) /\ DOMAIN alog' = 1..(Len(alog) - 1)
          /\ \A k \in DOMAIN alog' : alog'[k] = alog[k + 1]
          /\ 1 \in DOMAIN alog /\ e = alog[1] /\ e \in Events
      BY <2>1, <2>2, NamedWindows, HeadTailProperties
    <2>4. ASSUME NEW j \in DOMAIN alog', NEW k \in DOMAIN alog', New(j)', ~New(k)', alog'[j].win = alog'[k].win
          PROVE  j < k
      <3>1. j + 1 \in DOMAIN alog /\ k + 1 \in DOMAIN alog
        BY <2>3
      <3>2. j + 1 < k + 1
        BY <2>3, <2>4, <3>1 DEF New, NewsFirst
      <3> QED
        BY <2>3, <3>2
    <2>5. ASSUME After', NEW j \in DOMAIN alog', New(j)' PROVE alog'[j].win # loop'.win
      <3>1. ~New(1)
        BY <2>2, <2>3, <2>5 DEF After, OpenSteps, New, Handler
      <3>2. j + 1 \in DOMAIN alog /\ ~(j + 1 < 1)
        BY <2>3
      <3> QED
        BY <2>2, <2>3, <2>5, <3>1, <3>2 DEF New, NewsFirst
    <2> QED
      BY <2>4, <2>5 DEF NewsFirst
  <1>3. CASE ~User /\ ~ReadEvent
    <2>1. UNCHANGED alog
      BY <1>3, OthersLeaveLog
    <2>2. After' => After /\ loop'.win = loop.win
      BY <1>3, AfterStays, OthersLeaveLoop DEF After, Handling
    <2> QED
      BY <2>1, <2>2 DEF NewsFirst, New
  <1> QED
    BY <1>1, <1>2, <1>3

\* So a live window whose event is being handled owns the docState.
LEMMA LiveIsOwner ==
    ASSUME TypeOK, TagsInv, PhaseInv, OrderInv, NewsFirst, After, loop.name \in Served, window[loop.win] = "live"
    PROVE  docStates[loop.name] = loop.win
  <1>1. loop.win \in Wins /\ tag[loop.win] = loop.name
    BY NamedWindows DEF After, TagsInv, Is
  <1>2. logging
    BY DEF PhaseInv, After, Handling, BootSteps, OpenSteps
  <1>3. PICK i \in Int : Ann(loop.name, i, loop.win)
    BY <1>1, <1>2 DEF OrderInv, Ordered, LiveIsAnn
  <1> QED
    BY <1>3 DEF Ann, NewsFirst, New, After, OpenSteps, ToTrack

-----------------------------------------------------------------------------
(* The last text that the server took from the FileManager for a tracked   *)
(* file is one that its window had, and its version has been given out;    *)
(* and what the loop is about to send is no older.                         *)

ServerInv == \A n \in Names : server[n].open /\ docStates[n] # NoWin =>
    /\ server[n].own <= body[docStates[n]]
    /\ server[n].ver <= version[docStates[n]]

HasDoc == {"changeAlloc", "changeSend", "saveRead", "saveAlloc", "saveSend"}
HasText == {"openSend", "changeAlloc", "changeSend", "saveAlloc", "saveSend"}

HandInv ==
    /\ loop.pc \in HasDoc => docStates[loop.name] = loop.doc
    /\ loop.pc \in HasText \cup {"formatChange"} =>
          /\ docStates[loop.name] = loop.win
          /\ loop.text <= body[loop.win]
          /\ server[loop.name].open => server[loop.name].own <= loop.text
    /\ loop.pc \in {"changeSend", "saveSend"} =>
          /\ loop.ver <= version[loop.doc]
          /\ server[loop.name].open => server[loop.name].ver < loop.ver
    /\ loop.pc = "formatWin" => docStates[loop.name] # NoWin

TextsInv == BodiesBound /\ ServerInv /\ HandInv
HandEmpty == loop'.pc \notin HasDoc \cup HasText \cup {"formatWin", "formatChange"}

\* Texts and versions are numbers.
LEMMA TextNumbers ==
    ASSUME TypeOK
    PROVE  /\ \A w \in Wins : body[w] \in Nat /\ version[w] \in Nat
           /\ \A n \in Names : server[n].text \in Nat /\ server[n].own \in Nat /\ server[n].ver \in Nat
           /\ \A n \in Names : docStates[n] # NoWin => docStates[n] \in Wins
           /\ loop.text \in Nat /\ loop.ver \in Nat /\ loop.name \in Names /\ loop \in Loops
  <1>1. Texts \subseteq Nat
    BY BoundAssumption DEF Texts
  <1>2. \A n \in Names : server[n] \in Documents
    BY DEF TypeOK, ServerTypeOK
  <1>3. loop \in Loops
    BY DEF TypeOK, LoopTypeOK
  <1>4. loop.text \in Nat /\ loop.ver \in Nat /\ loop.name \in Names
    BY <1>1, <1>3 DEF Loops
  <1>5. \A w \in Wins : body[w] \in Nat /\ version[w] \in Nat
    BY <1>1 DEF TypeOK, AcmeTypeOK, ManagerTypeOK
  <1>6. \A n \in Names : server[n].text \in Nat /\ server[n].own \in Nat /\ server[n].ver \in Nat
    BY <1>1, <1>2 DEF Documents
  <1> QED
    BY <1>3, <1>4, <1>5, <1>6, NamedWindows

\* A step that sends nothing of the FileManager's.
LEMMA TextsStay ==
    ASSUME TypeOK, TypeOK', ServerInv, HandInv, UNCHANGED <<docStates, version>>,
           \A n \in Names : server'[n].open =>
              server[n].open /\ server'[n].own = server[n].own /\ server'[n].ver <= server[n].ver,
           \A w \in Wins : body[w] <= body'[w], UNCHANGED loop \/ HandEmpty
    PROVE  ServerInv' /\ HandInv'
  <1>n. /\ \A w \in Wins : body[w] \in Nat /\ body'[w] \in Nat
        /\ \A n \in Names : server'[n].ver \in Nat
    <2>1. server' \in [Names -> Documents]
      BY DEF TypeOK, ServerTypeOK
    <2> QED
      BY <2>1, BoundAssumption DEF TypeOK, AcmeTypeOK, Texts, Documents
  <1>1. ServerInv'
    <2> SUFFICES ASSUME NEW n \in Names, server'[n].open, docStates[n] # NoWin
                 PROVE  server'[n].own <= body'[docStates[n]] /\ server'[n].ver <= version[docStates[n]]
      BY DEF ServerInv
    <2>1. /\ docStates[n] \in Wins /\ server[n].own \in Nat /\ server[n].ver \in Nat
          /\ version[docStates[n]] \in Nat
      BY TextNumbers
    <2>2. server[n].own <= body[docStates[n]] /\ server[n].ver <= version[docStates[n]]
      BY DEF ServerInv
    <2>3. server'[n].own = server[n].own /\ server'[n].ver <= server[n].ver
      OBVIOUS
    <2> QED
      BY <1>n, <2>1, <2>2, <2>3
  <1>2. ASSUME UNCHANGED loop PROVE HandInv'
    <2>0. /\ loop.name \in Names /\ loop.text \in Nat /\ loop.ver \in Nat
          /\ server[loop.name].ver \in Nat /\ server[loop.name].own \in Nat
      BY TextNumbers
    <2>1. loop.pc \in HasText \cup {"formatChange"} => loop.win \in Wins
      BY DEF HasText, TypeOK, LoopTypeOK
    <2>2. loop'.pc \in HasDoc => docStates'[loop'.name] = loop'.doc
      BY <1>2 DEF HandInv
    <2>3. ASSUME loop.pc \in HasText \cup {"formatChange"}
          PROVE  /\ docStates[loop.name] = loop.win /\ loop.text <= body'[loop.win]
                 /\ server'[loop.name].open => server'[loop.name].own <= loop.text
      <3>1. /\ docStates[loop.name] = loop.win /\ loop.text <= body[loop.win]
            /\ server[loop.name].open => server[loop.name].own <= loop.text
        BY <2>3 DEF HandInv
      <3> QED
        BY <1>n, <2>0, <2>1, <2>3, <3>1
    <2>4. ASSUME loop.pc \in {"changeSend", "saveSend"}
          PROVE  /\ loop.ver <= version[loop.doc]
                 /\ server'[loop.name].open => server'[loop.name].ver < loop.ver
      <3>1. /\ loop.ver <= version[loop.doc]
            /\ server[loop.name].open => server[loop.name].ver < loop.ver
        BY <2>4 DEF HandInv
      <3> QED
        BY <1>n, <2>0, <3>1
    <2>5. loop'.pc = "formatWin" => docStates'[loop'.name] # NoWin
      BY <1>2 DEF HandInv
    <2> QED
      BY <1>2, <2>2, <2>3, <2>4, <2>5 DEF HandInv
  <1>3. ASSUME HandEmpty PROVE HandInv'
    BY <1>3 DEF HandEmpty, HandInv, HasDoc, HasText
  <1> QED
    BY <1>1, <1>2, <1>3

\* Which steps of the loop are about texts.
Carries ==
    \/ DidOpenLock \/ DidClose
    \/ DidChangeRead \/ DidChangeAlloc \/ DidSaveLookup \/ DidSaveRead \/ DidSaveAlloc
    \/ FormatLock \/ FormatActions
Sends == DidOpenSend \/ DidCloseSend \/ DidChangeSend \/ DidSaveSend \/ FormatChange

LEMMA LoopTexts ==
    ASSUME TypeOK, Loop, ~Carries
    PROVE  HandEmpty /\ UNCHANGED <<docStates, version>>
  <1> USE GotoMoves, DoneMoves, SaveMoves DEF LoopSteps, HandEmpty, HasDoc, HasText
  <1>1. UNCHANGED <<docStates, version>>
    BY DEF Carries, Loop, ListWindows, BootNext, OpenLog, ReadEvent, DidOpenWin, DidOpenSend,
       DidOpenWatch, DidCloseSend, DidChangeSend, DidSaveSend, DidSave, FormatChange, FormatEdit, fmVars
  <1>2. CASE ListWindows \/ BootNext
    BY <1>1, <1>2 DEF ListWindows, BootNext, TypeOK, LoopTypeOK, Loops
  <1>3. CASE OpenLog
    BY <1>1, <1>3 DEF OpenLog, Idle
  <1>4. CASE ReadEvent
    <2>1. Head(alog) \in Events
      BY <1>4 DEF ReadEvent, TypeOK, AcmeTypeOK
    <2>2. Handler(Head(alog).op) \in {"open", "close", "change", "save"}
      BY <2>1 DEF Handler, Events
    <2>3. loop'.pc = Handler(Head(alog).op)
      BY <1>4 DEF ReadEvent, TypeOK, LoopTypeOK, Loops
    <2> QED
      BY <1>1, <2>2, <2>3
  <1>5. CASE DidOpenWin \/ DidOpenSend \/ DidOpenWatch \/ DidCloseSend
    BY <1>1, <1>5 DEF DidOpenWin, DidOpenSend, DidOpenWatch, DidCloseSend
  <1>6. CASE DidChangeSend \/ DidSaveSend \/ DidSave
    BY <1>1, <1>6 DEF DidChangeSend, DidSaveSend, DidSave
  <1>7. CASE FormatChange \/ FormatEdit
    BY <1>1, <1>7 DEF FormatChange, FormatEdit
  <1> QED
    BY <1>2, <1>3, <1>4, <1>5, <1>6, <1>7 DEF Loop, Carries

\* didOpen and didClose.
LEMMA OpenTexts ==
    ASSUME TypeOK, OpenInv, OnceInv, ServerInv, HandInv, DidOpenLock
    PROVE  ServerInv' /\ HandInv'
  <1>0. /\ UNCHANGED <<body, version, server>> /\ loop.pc = "openLock" /\ loop.win \in Wins /\ loop.win # NoWin
        /\ loop \in Loops
    BY WinsAssumption DEF DidOpenLock, acmeVars, serverVars, TypeOK, LoopTypeOK
  <1>1. CASE UNCHANGED docStates /\ Done(FALSE)
    <2>1. HandEmpty
      BY <1>1, DoneMoves DEF HandEmpty, HasDoc, HasText
    <2>2. HandInv'
      BY <2>1 DEF HandInv, HandEmpty, HasDoc, HasText
    <2>3. ServerInv'
      BY <1>0, <1>1 DEF ServerInv
    <2> QED
      BY <2>2, <2>3
  <1>2. CASE docStates[loop.name] = NoWin /\ docStates' = [docStates EXCEPT ![loop.name] = loop.win]
    <2>1. ~server[loop.name].open
      BY <1>0, <1>2, TextNumbers DEF OpenInv, OpenIsTracked
    <2>2. /\ docStates'[loop.name] = loop.win
          /\ \A n \in Names : n # loop.name => docStates'[n] = docStates[n]
      BY <1>2, TextNumbers DEF TypeOK, ManagerTypeOK
    <2>3. ServerInv'
      BY <1>0, <2>1, <2>2 DEF ServerInv
    <2>4. CASE loop' = [loop EXCEPT !.pc = "openSend", !.text = body[loop.win]]
      <3>1. loop'.pc = "openSend" /\ loop'.text = body[loop.win] /\ loop'.win = loop.win /\ loop'.name = loop.name
        BY <1>0, <2>4 DEF Loops
      <3>2. loop'.text <= body'[loop'.win]
        BY <1>0, <3>1, TextNumbers
      <3> QED
        BY <1>0, <2>1, <2>2, <2>3, <3>1, <3>2 DEF HandInv, HasDoc, HasText
    <2>5. CASE Done(FALSE)
      <3>1. HandInv'
        BY <2>5, DoneMoves DEF HandInv, HasDoc, HasText
      <3> QED
        BY <2>3, <3>1
    <2> QED
      BY <1>2, <2>4, <2>5 DEF DidOpenLock
  <1> QED
    BY <1>1, <1>2 DEF DidOpenLock

LEMMA CloseTexts ==
    ASSUME TypeOK, ServerInv, HandInv, DidClose
    PROVE  ServerInv' /\ HandInv'
  <1>0. UNCHANGED <<body, version, server>>
    BY DEF DidClose, acmeVars, serverVars
  <1>1. HandInv'
    BY GotoMoves, DoneMoves DEF DidClose, LoopSteps, HandInv, HasDoc, HasText
  <1>2. \A n \in Names : docStates'[n] # NoWin => docStates'[n] = docStates[n]
    BY TextNumbers DEF DidClose, TypeOK, ManagerTypeOK
  <1> QED
    BY <1>0, <1>1, <1>2 DEF ServerInv

\* The body is read for a didChange.
LEMMA ReadTexts ==
    ASSUME TypeOK, TagsInv, PhaseInv, OrderInv, NewsFirst, ServedInv, ServerInv, HandInv,
           DidChangeRead \/ DidSaveRead
    PROVE  ServerInv' /\ HandInv'
  <1>0. /\ UNCHANGED <<body, version, server, docStates>> /\ loop.pc \in {"change", "saveRead"}
        /\ loop.win \in Wins /\ loop \in Loops
    BY DEF DidChangeRead, DidSaveRead, acmeVars, fmVars, serverVars, TypeOK, LoopTypeOK
  <1>1. ServerInv'
    BY <1>0 DEF ServerInv
  <1>2. CASE HandEmpty
    BY <1>1, <1>2 DEF HandEmpty, HandInv, HasDoc, HasText
  <1>3. CASE ~HandEmpty
    <2>1. /\ docStates[loop.name] # NoWin /\ window[loop.win] = "live"
          /\ loop'.pc \in {"changeAlloc", "saveAlloc"} /\ loop'.doc = docStates[loop.name]
          /\ loop'.text = body[loop.win] /\ loop'.win = loop.win /\ loop'.name = loop.name
      <3>1. CASE DidChangeRead
        <4>1. /\ docStates[loop.name] # NoWin /\ window[loop.win] = "live"
              /\ loop' = [loop EXCEPT !.pc = "changeAlloc", !.doc = docStates[loop.name],
                                      !.text = body[loop.win]]
          BY <1>3, <3>1, DoneMoves DEF DidChangeRead, HandEmpty, HasDoc, HasText
        <4> QED
          BY <1>0, <4>1 DEF Loops
      <3>2. CASE DidSaveRead
        <4>1. /\ window[loop.win] = "live" /\ loop.pc = "saveRead"
              /\ loop' = [loop EXCEPT !.pc = "saveAlloc", !.text = body[loop.win]]
          BY <1>3, <3>2, SaveMoves DEF DidSaveRead, HandEmpty, HasDoc, HasText
        <4>2. docStates[loop.name] = loop.doc /\ loop.doc # NoWin
          BY <4>1, WinsAssumption DEF HandInv, HasDoc, TypeOK, LoopTypeOK
        <4> QED
          BY <1>0, <4>1, <4>2 DEF Loops
      <3> QED
        BY <3>1, <3>2
    <2>2. docStates[loop.name] = loop.win
      BY <1>0, <2>1, LiveIsOwner, TextNumbers DEF ServedInv, After, Handling, OpenSteps
    <2>3. loop'.text <= body'[loop'.win] /\ (server'[loop'.name].open => server'[loop'.name].own <= loop'.text)
      BY <1>0, <2>1, <2>2, TextNumbers DEF ServerInv
    <2>4. HandInv'
      BY <1>0, <2>1, <2>2, <2>3 DEF HandInv, HasDoc, HasText
    <2> QED
      BY <1>1, <2>4
  <1> QED
    BY <1>2, <1>3

LEMMA LookupTexts ==
    ASSUME TypeOK, ServerInv, HandInv, DidSaveLookup
    PROVE  ServerInv' /\ HandInv'
  <1>0. UNCHANGED <<body, version, server, docStates>> /\ loop \in Loops
    BY TextNumbers DEF DidSaveLookup, acmeVars, fmVars, serverVars
  <1>1. ServerInv'
    BY <1>0 DEF ServerInv
  <1>2. CASE SaveReturns
    BY <1>1, <1>2, SaveMoves DEF HandInv, HasDoc, HasText
  <1>3. CASE loop' = [loop EXCEPT !.pc = "saveRead", !.doc = docStates[loop.name]]
    <2>1. loop'.pc = "saveRead" /\ loop'.doc = docStates[loop.name] /\ loop'.name = loop.name
      BY <1>0, <1>3 DEF Loops
    <2>2. HandInv'
      BY <1>0, <2>1 DEF HandInv, HasDoc, HasText
    <2> QED
      BY <1>1, <2>2
  <1> QED
    BY <1>2, <1>3 DEF DidSaveLookup

\* A new version is above the copy's.
LEMMA AllocTexts ==
    ASSUME TypeOK, TagsInv, ServerInv, HandInv, DidChangeAlloc \/ DidSaveAlloc
    PROVE  ServerInv' /\ HandInv'
  <1>0. /\ UNCHANGED <<body, server, docStates>> /\ loop.pc \in {"changeAlloc", "saveAlloc"}
        /\ loop.doc \in Wins /\ loop.win \in Wins /\ loop \in Loops /\ NextVersion(loop.doc)
    BY DEF DidChangeAlloc, DidSaveAlloc, acmeVars, serverVars, TypeOK, LoopTypeOK
  <1>1. /\ version'[loop.doc] = version[loop.doc] + 1
        /\ \A d \in Wins : version[d] <= version'[d] /\ version'[d] \in Nat
    <2>1. version \in [Wins -> Nat] /\ version' = [version EXCEPT ![loop.doc] = version[loop.doc] + 1]
      BY <1>0 DEF NextVersion, TypeOK, ManagerTypeOK
    <2>2. version'[loop.doc] = version[loop.doc] + 1 /\ \A d \in Wins : d # loop.doc => version'[d] = version[d]
      BY <1>0, <2>1
    <2> QED
      BY <2>1, <2>2, TextNumbers
  <1>2. /\ loop'.pc \in {"changeSend", "saveSend"} /\ loop'.ver = version'[loop.doc]
        /\ loop'.win = loop.win /\ loop'.name = loop.name /\ loop'.doc = loop.doc /\ loop'.text = loop.text
    <2>1. \/ loop' = [loop EXCEPT !.pc = "changeSend", !.ver = version'[loop.doc]]
          \/ loop' = [loop EXCEPT !.pc = "saveSend", !.ver = version'[loop.doc]]
      BY DEF DidChangeAlloc, DidSaveAlloc
    <2> QED
      BY <1>0, <2>1 DEF Loops
  <1>3. ServerInv'
    BY <1>0, <1>1, TextNumbers DEF ServerInv
  <1>4. docStates[loop.name] = loop.doc /\ loop.doc # NoWin
    BY <1>0, WinsAssumption DEF HandInv, HasDoc
  <1>5. loop'.ver <= version'[loop'.doc] /\ (server'[loop'.name].open => server'[loop'.name].ver < loop'.ver)
    BY <1>0, <1>1, <1>2, <1>4, TextNumbers DEF ServerInv
  <1>6. HandInv'
    BY <1>0, <1>2, <1>4, <1>5 DEF HandInv, HasDoc, HasText
  <1> QED
    BY <1>3, <1>6

\* format looks the document up and may edit the body before it sends it.
LEMMA FormatTexts ==
    ASSUME TypeOK, TypeOK', TagsInv, PhaseInv, OrderInv, NewsFirst, ServedInv, ServerInv, HandInv,
           \A w \in Wins : body[w] <= body'[w], FormatLock \/ FormatActions
    PROVE  ServerInv' /\ HandInv'
  <1>0. /\ UNCHANGED <<version, server, docStates>> /\ loop.pc \in {"format", "formatWin"}
        /\ loop.win \in Wins /\ loop \in Loops
    BY DEF FormatLock, FormatActions, acmeVars, serverVars, TypeOK, LoopTypeOK
  <1>1. CASE HandEmpty
    BY <1>0, <1>1, TextsStay, TextNumbers
  <1>2. CASE FormatLock /\ ~HandEmpty
    <2>1. docStates[loop.name] # NoWin /\ loop'.pc = "formatWin" /\ loop'.name = loop.name
      BY <1>2, GotoMoves, DoneMoves DEF FormatLock, HandEmpty, HasDoc, HasText, LoopSteps
    <2>2. HandInv'
      BY <1>0, <2>1 DEF HandInv, HasDoc, HasText
    <2>3. ServerInv'
      BY <1>0, <1>2 DEF ServerInv, FormatLock, acmeVars
    <2> QED
      BY <2>2, <2>3
  <1>3. CASE FormatActions /\ ~HandEmpty
    <2>1. /\ window[loop.win] = "live" /\ docStates[loop.name] # NoWin
          /\ loop'.pc = "formatChange" /\ loop'.text = body'[loop.win]
          /\ loop'.win = loop.win /\ loop'.name = loop.name
      <3>1. /\ window[loop.win] = "live" /\ loop.pc = "formatWin"
            /\ loop' = [loop EXCEPT !.pc = "formatChange", !.text = body'[loop.win]]
        BY <1>3, GotoMoves, DoneMoves DEF FormatActions, HandEmpty, HasDoc, HasText, LoopSteps
      <3> QED
        BY <1>0, <3>1 DEF Loops, HandInv
    <2>2. docStates[loop.name] = loop.win
      BY <1>0, <2>1, LiveIsOwner, TextNumbers DEF ServedInv, After, Handling, OpenSteps
    <2>n. /\ body[loop.win] \in Nat /\ body'[loop.win] \in Nat /\ loop.name \in Names
          /\ server[loop.name].own \in Nat
      BY <1>0, TextNumbers, BoundAssumption DEF TypeOK, AcmeTypeOK, Texts
    <2>3. server[loop.name].open => server[loop.name].own <= body'[loop.win]
      BY <1>0, <2>1, <2>2, <2>n DEF ServerInv
    <2>4. HandInv'
      BY <1>0, <2>1, <2>2, <2>n, <2>3 DEF HandInv, HasDoc, HasText
    <2>5. ASSUME NEW n \in Names, server[n].open, docStates[n] # NoWin
          PROVE  server[n].own <= body'[docStates[n]] /\ server[n].ver <= version[docStates[n]]
      <3>1. docStates[n] \in Wins /\ server[n].own \in Nat
        BY <2>5, TextNumbers
      <3>2. server[n].own <= body[docStates[n]] /\ server[n].ver <= version[docStates[n]]
        BY <2>5 DEF ServerInv
      <3>3. body[docStates[n]] \in Nat /\ body'[docStates[n]] \in Nat /\ body[docStates[n]] <= body'[docStates[n]]
        BY <3>1, BoundAssumption DEF TypeOK, AcmeTypeOK, Texts
      <3> QED
        BY <3>1, <3>2, <3>3
    <2> QED
      BY <1>0, <2>4, <2>5 DEF ServerInv
  <1> QED
    BY <1>1, <1>2, <1>3

\* A message from the loop changes its own document, and that to a text and a
\* version that the loop had in hand.
LEMMA SendTexts ==
    ASSUME TypeOK, OpenInv, OnceInv, HandInv, Sends
    PROVE  /\ HandEmpty /\ UNCHANGED <<body, version, docStates>>
           /\ \A n \in Names : n # loop.name => server'[n] = server[n]
           /\ DidCloseSend => ~server'[loop.name].open
           /\ DidOpenSend => server'[loop.name] = Document(0, loop.text)
           /\ DidChangeSend \/ DidSaveSend =>
                 IF server[loop.name].open
                 THEN server'[loop.name] = Document(loop.ver, loop.text)
                 ELSE UNCHANGED server
           /\ FormatChange =>
                 \/ UNCHANGED server
                 \/ server[loop.name].open /\ server'[loop.name] = Document(0, loop.text)
  <1>0. loop.name \in Names /\ serverUp /\ server \in [Names -> Documents]
    BY TextNumbers DEF OpenInv, TypeOK, ServerTypeOK
  <1>1. HandEmpty /\ UNCHANGED <<body, version, docStates>>
    BY GotoMoves, DoneMoves, SaveMoves DEF Sends, DidOpenSend, DidCloseSend, DidChangeSend, DidSaveSend,
       FormatChange, LoopSteps, HandEmpty, HasDoc, HasText, acmeVars, fmVars
  <1>2. CASE DidOpenSend
    <2>1. server' = [server EXCEPT ![loop.name] = Document(0, loop.text)]
      BY <1>0, <1>2 DEF DidOpenSend, ServerOpen
    <2>2. loop.pc = "openSend"
      BY <1>2 DEF DidOpenSend
    <2> QED
      BY <1>0, <1>1, <2>1, <2>2 DEF DidCloseSend, DidChangeSend, DidSaveSend, FormatChange
  <1>3. CASE DidCloseSend
    <2>1. server' = [server EXCEPT ![loop.name] = NotOpen] \/ (~server[loop.name].open /\ UNCHANGED server)
      BY <1>0, <1>3 DEF DidCloseSend, ServerClose
    <2>2. loop.pc = "closeSend"
      BY <1>3 DEF DidCloseSend
    <2> QED
      BY <1>0, <1>1, <2>1, <2>2 DEF DidOpenSend, DidChangeSend, DidSaveSend, FormatChange, NotOpen
  <1>4. CASE DidChangeSend \/ DidSaveSend
    <2>1. loop.pc \in {"changeSend", "saveSend"} /\ ServerChange(loop.name, loop.ver, loop.text)
      BY <1>4 DEF DidChangeSend, DidSaveSend
    <2>2. server[loop.name].open => ~(loop.ver <= server[loop.name].ver)
      <3>1. server[loop.name].open => server[loop.name].ver < loop.ver
        BY <2>1 DEF HandInv
      <3>2. loop.ver \in Nat /\ server[loop.name].ver \in Nat
        BY <1>0, TextNumbers
      <3> QED
        BY <3>1, <3>2
    <2>3. IF server[loop.name].open
          THEN server' = [server EXCEPT ![loop.name] = Document(loop.ver, loop.text)]
          ELSE UNCHANGED server
      BY <1>0, <2>1, <2>2 DEF ServerChange, Receive, Document
    <2> QED
      BY <1>0, <1>1, <2>1, <2>3 DEF DidOpenSend, DidCloseSend, FormatChange
  <1>5. CASE FormatChange
    <2>1. loop.pc = "formatChange"
      BY <1>5 DEF FormatChange
    <2>2. \/ UNCHANGED server
          \/ server[loop.name].open /\ server' = [server EXCEPT ![loop.name] = Document(0, loop.text)]
      BY <1>5 DEF FormatChange, ServerChange, Receive
    <2> QED
      BY <1>0, <1>1, <2>1, <2>2 DEF DidOpenSend, DidCloseSend, DidChangeSend, DidSaveSend
  <1> QED
    BY <1>2, <1>3, <1>4, <1>5 DEF Sends

LEMMA SentTexts ==
    ASSUME TypeOK, OpenInv, OnceInv, ServerInv, HandInv, Sends
    PROVE  ServerInv' /\ HandInv'
  <1>0. HandEmpty /\ UNCHANGED <<body, version, docStates>> /\ \A n \in Names : n # loop.name => server'[n] = server[n]
    BY SendTexts
  <1>1. HandInv'
    BY <1>0 DEF HandEmpty, HandInv, HasDoc, HasText
  <1>2. ASSUME server'[loop.name].open, docStates[loop.name] # NoWin
        PROVE  /\ server'[loop.name].own <= body[docStates[loop.name]]
               /\ server'[loop.name].ver <= version[docStates[loop.name]]
    <2>0. loop.name \in Names /\ docStates[loop.name] \in Wins
      BY <1>2, TextNumbers
    <2>1. CASE DidOpenSend
      <3>0. server'[loop.name] = Document(0, loop.text)
        BY <2>1, SendTexts
      <3>1. server'[loop.name].own = loop.text /\ server'[loop.name].ver = 0 /\ loop.pc = "openSend"
        BY <2>1, <3>0 DEF DidOpenSend, Document
      <3>2. docStates[loop.name] = loop.win /\ loop.text <= body[loop.win]
        BY <3>1 DEF HandInv, HasText
      <3>3. version[docStates[loop.name]] \in Nat
        BY <2>0, TextNumbers
      <3> QED
        BY <3>1, <3>2, <3>3
    <2>2. CASE DidChangeSend \/ DidSaveSend
      <3>1. loop.pc \in {"changeSend", "saveSend"}
        BY <2>2 DEF DidChangeSend, DidSaveSend
      <3>2. /\ docStates[loop.name] = loop.win /\ docStates[loop.name] = loop.doc
            /\ loop.text <= body[loop.win] /\ loop.ver <= version[loop.doc]
        BY <3>1 DEF HandInv, HasDoc, HasText
      <3>3. CASE server[loop.name].open
        <4>1. server'[loop.name].own = loop.text /\ server'[loop.name].ver = loop.ver
          BY <2>2, <3>3, SendTexts DEF Document
        <4> QED
          BY <3>2, <4>1
      <3>4. CASE ~server[loop.name].open
        BY <1>2, <2>2, <3>4, SendTexts
      <3> QED
        BY <3>3, <3>4
    <2>3. ~DidCloseSend
      BY <1>2, SendTexts
    <2>4. CASE FormatChange /\ UNCHANGED server
      BY <1>2, <2>0, <2>4, TextNumbers DEF ServerInv
    <2>5. CASE FormatChange /\ server'[loop.name] = Document(0, loop.text)
      <3>1. server'[loop.name].own = loop.text /\ server'[loop.name].ver = 0 /\ loop.pc = "formatChange"
        BY <2>5 DEF FormatChange, Document
      <3>2. docStates[loop.name] = loop.win /\ loop.text <= body[loop.win]
        BY <3>1 DEF HandInv
      <3>3. version[docStates[loop.name]] \in Nat
        BY <2>0, TextNumbers
      <3> QED
        BY <3>1, <3>2, <3>3
    <2> QED
      BY <2>1, <2>2, <2>3, <2>4, <2>5, SendTexts DEF Sends
  <1> QED
    BY <1>0, <1>1, <1>2 DEF ServerInv

LEMMA TextsNext ==
    ASSUME MaxCrashes = 0, TypeOK, TypeOK', Silent, OpenInv, OnceInv, TagsInv, PhaseInv, OrderInv, NewsFirst,
           ServedInv, TextsInv, [Next]_vars
    PROVE  TextsInv'
  <1>0. BodiesBound' /\ \A w \in Wins : body[w] <= body'[w]
    BY BodiesGrow DEF TextsInv
  <1>1. CASE Carries
    BY <1>0, <1>1, OpenTexts, CloseTexts, ReadTexts, LookupTexts, AllocTexts, FormatTexts DEF Carries, TextsInv
  <1>2. CASE Sends
    BY <1>0, <1>2, SentTexts DEF TextsInv
  <1>3. CASE ~Carries /\ ~Sends
    <2>1. \A n \in Names : server'[n].open =>
             server[n].open /\ server'[n].own = server[n].own /\ server'[n].ver <= server[n].ver
      <3>n. \A n \in Names : server[n].ver \in Nat
        BY TextNumbers
      <3>1. CASE UNCHANGED server
        BY <3>n, <3>1
      <3>2. CASE RemoteSend
        <4> SUFFICES ASSUME NEW n \in Names, server'[n].open
                     PROVE  server[n].open /\ server'[n].own = server[n].own /\ server'[n].ver <= server[n].ver
          OBVIOUS
        <4>1. server[n].open /\ server'[n].own = server[n].own
          BY <3>2, IntrudedTexts
        <4>2. server'[n] = server[n] \/ server'[n].ver = 0
          BY <3>2, IntrudedTexts
        <4> QED
          BY <3>n, <4>1, <4>2
      <3> QED
        BY <1>3, <3>1, <3>2, SendSteps DEF Sends
    <2>2. UNCHANGED <<docStates, version>> /\ (UNCHANGED loop \/ HandEmpty)
      <3>1. CASE User
        BY <3>1 DEF User, NewWindow, DelWindow, Type, Get, Put, Rename, fmVars
      <3>2. CASE Remote \/ UNCHANGED vars
        BY <3>2 DEF Remote, RemoteRead, RemoteSend, Request, fmVars, vars
      <3> QED
        BY <1>3, <3>1, <3>2, LoopTexts, SilentSteps
    <2> QED
      BY <1>0, <2>1, <2>2, TextsStay DEF TextsInv
  <1> QED
    BY <1>1, <1>2, <1>3

-----------------------------------------------------------------------------
(* Document synchronisation implements TextMirror.  Every step of it edits *)
(* a file, opens, advances or closes a copy, reads a file for L or lets    *)
(* L's text in, or is invisible.                                           *)

MirrorInv ==
    /\ Silent /\ OpenInv /\ OnceInv /\ TagsInv /\ PhaseInv /\ BootInv /\ OrderInv
    /\ WatchersInv /\ ServedInv /\ WatchedInv /\ NewsFirst /\ TextsInv

LEMMA InitMirror ==
    ASSUME Init
    PROVE  MirrorInv
  <1>1. OpenInv /\ OnceInv
    BY DEF Init, OpenInv, OpenIsTracked, OnceInv, OpenedOnce, NotOpen, Idle
  <1>2. loop.pc = "list" /\ loop.boot /\ loop.list = {}
    BY DEF Init, Idle
  <1>3. PhaseInv /\ BootInv /\ OrderInv
    BY <1>2 DEF Init, PhaseInv, BootInv, BootSteps, OrderInv
  <1>4. ServedInv /\ WatchedInv
    BY DEF Init, ServedInv, WatchedInv, Tracked, Idle
  <1>5. Silent
    BY DEF Init, Silent, IdleNotify
  <1>6. NewsFirst
    BY <1>2 DEF Init, NewsFirst, After, Handling
  <1>7. BodiesBound
    BY DEF Init, BodiesBound
  <1>8. ServerInv
    BY DEF Init, ServerInv
  <1>9. HandInv
    BY <1>2 DEF HandInv, HasDoc, HasText
  <1> QED
    BY <1>1, <1>3, <1>4, <1>5, <1>6, <1>7, <1>8, <1>9, InitTags, InitWatchers DEF MirrorInv, TextsInv

LEMMA MirrorInvNext ==
    ASSUME ~Highlighting, ~StartupGap, ~Doubles, MaxRenames = 0, MaxCrashes = 0,
           TypeOK, TypeOK', MirrorInv, [Next]_vars
    PROVE  MirrorInv'
  <1>0. serverUp
    BY DEF MirrorInv, OpenInv
  <1>1. Silent' /\ OpenInv' /\ OnceInv' /\ TagsInv' /\ PhaseInv'
    BY SilentNext, OpenInvNext, OnceNext, TagsNext, PhaseNext DEF MirrorInv
  <1>2. BootInv' /\ OrderInv'
    BY <1>1, BootInvNext, OrderNext DEF MirrorInv
  <1>3. WatchersInv' /\ ServedInv' /\ WatchedInv'
    BY <1>0, WatchersInvNext, WatchedNext DEF MirrorInv
  <1>4. NewsFirst' /\ TextsInv'
    BY NewsNext, TextsNext DEF MirrorInv
  <1> QED
    BY <1>1, <1>2, <1>3, <1>4 DEF MirrorInv

\* Only L reads and sends for itself.
LEMMA OnlyRemoteReads ==
    ASSUME MaxCrashes = 0, TypeOK, Silent, [Next]_vars
    PROVE  (\E w \in Wins : RemoteRead(w)) \/ RemoteSend \/ UNCHANGED remote
  <1>1. User \/ Request \/ UNCHANGED vars => UNCHANGED remote
    BY DEF User, NewWindow, DelWindow, Type, Get, Put, Rename, Request, vars
  <1> QED
    BY <1>1, SilentSteps, LoopNotifiesNobody DEF Remote

\* What the loop has in hand is no newer than the clock.
LEMMA HandBounds ==
    ASSUME TypeOK, TextsInv, loop.pc \in HasText \cup {"formatChange"}
    PROVE  loop.text \in 0..used.texts
  <1>1. loop.text <= body[loop.win] /\ loop.win \in Wins
    BY DEF TextsInv, HandInv, HasText, TypeOK, LoopTypeOK
  <1>2. body[loop.win] <= used.texts /\ body[loop.win] \in Nat /\ loop.text \in Nat /\ used.texts \in Nat
    BY <1>1, TextNumbers, BoundAssumption DEF TextsInv, BodiesBound, TypeOK, AcmeTypeOK, Budgets
  <1> QED
    BY <1>1, <1>2

\* The loop's messages open, advance and close copies.
LEMMA MirrorSends ==
    ASSUME TypeOK, MirrorInv, Sends, UNCHANGED remote, used'.texts = used.texts
    PROVE  [Mirror!Next]_Mirror!vars
  <1> DEFINE copy == [m \in Names |-> IF server[m].open THEN server[m].text ELSE -1]
             own == [m \in Names |-> IF server[m].open THEN server[m].own ELSE -1]
  <1>n. PICK n \in Names : n = loop.name
    BY TextNumbers
  <1>o. \A m \in Names : m # n => server'[m] = server[m]
    BY <1>n, SendTexts DEF MirrorInv, TextsInv
  <1>p. ASSUME NEW t, IF server'[n].open THEN server'[n].text = t /\ server'[n].own = t ELSE t = -1
        PROVE  Mirror!Put(n, t)
    <2>1. copy' = [copy EXCEPT ![n] = t] /\ own' = [own EXCEPT ![n] = t]
      BY <1>o, <1>p
    <2> QED
      BY <2>1 DEF Mirror!Put
  <1>d. \A v, t : Document(v, t).open /\ Document(v, t).text = t /\ Document(v, t).own = t
    BY DEF Document
  <1>t. \A m \in Names : server[m].text \in Nat /\ server[m].own \in Nat
    BY TextNumbers
  <1>x. PICK x \in Nat : x = loop.text
    BY TextNumbers
  <1>s. UNCHANGED server => [Mirror!Next]_Mirror!vars
    BY DEF Mirror!vars
  <1>1. CASE DidOpenSend
    <2>1. ~server[n].open /\ loop.pc = "openSend"
      BY <1>1, <1>n DEF DidOpenSend, MirrorInv, OnceInv
    <2>2. server'[n] = Document(0, loop.text)
      BY <1>1, <1>n, SendTexts DEF MirrorInv, TextsInv
    <2>3. x \in 0..used.texts
      BY <1>x, <2>1, HandBounds DEF MirrorInv, HasText
    <2>4. Mirror!Put(n, x)
      BY <1>d, <1>p, <1>x, <2>2
    <2>5. Mirror!Open(n)
      BY <2>1, <2>3, <2>4 DEF Mirror!Open, Mirror!Absent
    <2> QED
      BY <2>5 DEF Mirror!Next
  <1>2. CASE DidCloseSend
    <2>1. ~server'[n].open
      BY <1>2, <1>n, SendTexts DEF MirrorInv, TextsInv
    <2>2. Mirror!Put(n, -1)
      BY <1>p, <2>1
    <2>3. CASE server[n].open
      <3>1. Mirror!Close(n)
        BY <1>t, <2>2, <2>3 DEF Mirror!Close, Mirror!Absent
      <3> QED
        BY <3>1 DEF Mirror!Next
    <2>4. CASE ~server[n].open
      <3>1. copy' = copy /\ own' = own
        BY <1>o, <2>1, <2>4
      <3> QED
        BY <3>1 DEF Mirror!vars
    <2> QED
      BY <2>3, <2>4
  <1>3. ASSUME loop.pc \in HasText \cup {"formatChange"}, server[n].open, NEW v, server'[n] = Document(v, loop.text)
        PROVE  [Mirror!Next]_Mirror!vars
    <2>1. server[n].own <= loop.text
      BY <1>n, <1>3 DEF MirrorInv, TextsInv, HandInv
    <2>2. loop.text \in 0..used.texts /\ used.texts \in Nat
      BY <1>3, HandBounds, BoundAssumption DEF MirrorInv, TypeOK, AcmeTypeOK, Budgets
    <2>3. x \in server[n].own..used.texts
      BY <1>t, <1>x, <2>1, <2>2
    <2>4. Mirror!Put(n, x)
      BY <1>d, <1>p, <1>x, <1>3
    <2>5. Mirror!Advance(n)
      BY <1>t, <1>3, <2>3, <2>4 DEF Mirror!Advance, Mirror!Absent
    <2> QED
      BY <2>5 DEF Mirror!Next
  <1>4. CASE DidChangeSend \/ DidSaveSend
    <2>1. loop.pc \in {"changeSend", "saveSend"}
      BY <1>4 DEF DidChangeSend, DidSaveSend
    <2>2. CASE server[n].open
      <3>1. server'[n] = Document(loop.ver, loop.text)
        BY <1>4, <1>n, <2>2, SendTexts DEF MirrorInv, TextsInv
      <3> QED
        BY <1>3, <2>1, <2>2, <3>1 DEF HasText
    <2>3. CASE ~server[n].open
      BY <1>4, <1>n, <1>s, <2>3, SendTexts DEF MirrorInv, TextsInv
    <2> QED
      BY <2>2, <2>3
  <1>5. CASE FormatChange
    <2>1. loop.pc = "formatChange"
      BY <1>5 DEF FormatChange
    <2>2. UNCHANGED server \/ (server[n].open /\ server'[n] = Document(0, loop.text))
      BY <1>5, <1>n, SendTexts DEF MirrorInv, TextsInv
    <2> QED
      BY <1>3, <1>s, <2>1, <2>2
  <1> QED
    BY <1>1, <1>2, <1>4, <1>5 DEF Sends

\* L takes a text of its file, and its message arrives.
LEMMA MirrorTakes ==
    ASSUME TypeOK, MirrorInv, NEW w \in Wins, RemoteRead(w)
    PROVE  [Mirror!Next]_Mirror!vars
  <1> DEFINE taken == [m \in Names |-> IF remote.pc = "send" /\ remote.name = m THEN remote.text ELSE -1]
  <1>n. PICK n \in Names : n = tag[w]
    BY DEF TypeOK, AcmeTypeOK
  <1>1. /\ remote.pc = "idle" /\ remote' = [pc |-> "send", name |-> n, text |-> body[w]] /\ UNCHANGED server
        /\ used'.texts = used.texts
    BY <1>n DEF RemoteRead, serverVars, TypeOK, AcmeTypeOK, Budgets
  <1>2. body[w] \in 0..used.texts
    BY TextNumbers, BoundAssumption DEF MirrorInv, TextsInv, BodiesBound, TypeOK, AcmeTypeOK, Budgets
  <1>3. taken[n] = -1 /\ taken' = [taken EXCEPT ![n] = body[w]]
    BY <1>1
  <1>4. Mirror!Take(n)
    BY <1>1, <1>2, <1>3 DEF Mirror!Take, Mirror!Absent
  <1> QED
    BY <1>4 DEF Mirror!Next

LEMMA MirrorIntrudes ==
    ASSUME TypeOK, RemoteSend, used'.texts = used.texts
    PROVE  [Mirror!Next]_Mirror!vars
  <1> DEFINE taken == [m \in Names |-> IF remote.pc = "send" /\ remote.name = m THEN remote.text ELSE -1]
             copy == [m \in Names |-> IF server[m].open THEN server[m].text ELSE -1]
             own == [m \in Names |-> IF server[m].open THEN server[m].own ELSE -1]
  <1>n. PICK n \in Names : n = remote.name
    BY IntrudedTexts
  <1>1. remote.pc = "send" /\ remote'.pc = "idle" /\ remote.text \in Nat
    BY BoundAssumption DEF RemoteSend, IdleRemote, TypeOK, ThreadTypeOK, Remotes, Texts
  <1>2. taken[n] = remote.text /\ taken' = [taken EXCEPT ![n] = -1]
    BY <1>1, <1>n
  <1>3. own' = own
    BY IntrudedTexts
  <1>4. copy' = copy \/ (copy[n] # -1 /\ copy' = [copy EXCEPT ![n] = taken[n]])
    <2>1. CASE UNCHANGED server
      BY <2>1
    <2>2. CASE server[n].open /\ server'[n].text = remote.text
      <3>1. copy[n] # -1
        BY <2>2, TextNumbers
      <3>2. server'[n].open /\ \A m \in Names : m # n => server'[m] = server[m]
        BY <1>n, <2>2, IntrudedTexts
      <3>3. copy' = [copy EXCEPT ![n] = taken[n]]
        BY <1>2, <2>2, <3>2
      <3> QED
        BY <3>1, <3>3
    <2> QED
      BY <1>n, <2>1, <2>2, IntrudedTexts
  <1>5. taken[n] # -1 /\ taken' = [taken EXCEPT ![n] = -1]
    BY <1>1, <1>2
  <1>6. Mirror!Intrude(n)
    BY <1>3, <1>4, <1>5 DEF Mirror!Intrude, Mirror!Absent
  <1> QED
    BY <1>6 DEF Mirror!Next

LEMMA MirrorNext ==
    ASSUME MaxCrashes = 0, TypeOK, TypeOK', MirrorInv, MirrorInv', [Next]_vars
    PROVE  [Mirror!Next]_Mirror!vars
  <1>1. CASE (\E w \in Wins : EditBody(w)) /\ UNCHANGED <<server, remote>>
    <2>1. used'.texts = used.texts + 1
      BY <1>1, EditGrows DEF MirrorInv, TextsInv
    <2>2. Mirror!Edit
      BY <1>1, <2>1 DEF Mirror!Edit
    <2> QED
      BY <2>2 DEF Mirror!Next
  <1>2. CASE used'.texts = used.texts /\ UNCHANGED <<server, remote>>
    BY <1>2 DEF Mirror!vars
  <1>3. CASE used'.texts = used.texts /\ Sends
    <2>1. UNCHANGED remote
      BY <1>3 DEF Sends, DidOpenSend, DidCloseSend, DidChangeSend, DidSaveSend, FormatChange
    <2> QED
      BY <1>3, <2>1, MirrorSends
  <1>4. CASE used'.texts = used.texts /\ RemoteSend
    BY <1>4, MirrorIntrudes
  <1>5. CASE \E w \in Wins : RemoteRead(w)
    BY <1>5, MirrorTakes
  <1>6. Sends => used'.texts = used.texts
    BY DEF Sends, DidOpenSend, DidCloseSend, DidChangeSend, DidSaveSend, FormatChange, acmeVars
  <1>7. RemoteSend => used'.texts = used.texts
    BY DEF RemoteSend, acmeVars
  <1> QED
    BY <1>1, <1>2, <1>3, <1>4, <1>5, <1>6, <1>7, EditSteps, SendSteps, OnlyRemoteReads DEF MirrorInv, Sends

\* As long as the server does not exit, without highlighting, with distinct
\* names, no renames and nothing logged while the windows are being listed,
\* the server's copy of a file is a text the file had, and among the texts of
\* the FileManager it only moves forward: neither windows that come and go
\* under one name, nor the formatting takes it back, whether the server looks
\* at versions or not.  The proxy's clients put no text there but the one that
\* they read, and the next of the FileManager's replaces it.
THEOREM ServerMirrorsTheFiles ==
    ASSUME ~Highlighting, ~StartupGap, ~Doubles, MaxRenames = 0, MaxCrashes = 0
    PROVE  Spec => MirrorSpec
  <1>1. Init => MirrorInv /\ Mirror!Init
    <2> SUFFICES ASSUME Init PROVE MirrorInv /\ Mirror!Init
      OBVIOUS
    <2>1. used.texts = 0 /\ server = [n \in Names |-> NotOpen] /\ remote.pc = "idle"
      BY DEF Init, IdleRemote
    <2>2. Mirror!Init
      BY <2>1 DEF Mirror!Init, Mirror!None, Mirror!Absent, NotOpen
    <2> QED
      BY <2>2, InitMirror
  <1>2. TypeOK /\ TypeOK' /\ MirrorInv /\ [Next]_vars => MirrorInv'
    BY MirrorInvNext
  <1>3. TypeOK /\ TypeOK' /\ MirrorInv /\ MirrorInv' /\ [Next]_vars => [Mirror!Next]_Mirror!vars
    BY MirrorNext
  <1> QED
    BY <1>1, <1>2, <1>3, TypeCorrect, PTL DEF Spec, MirrorSpec, Mirror!Spec

-----------------------------------------------------------------------------
(* A text that the user has put or read reaches the server.  As long as it *)
(* has not, an event of its window is in the list, in the log or at the    *)
(* loop, which will read the body, or the loop has read the body already.  *)

Clean(w) == window[w] = "live" /\ tag[w] \in Served /\ w \notin dirty

InLog(w) == \E k \in DOMAIN alog : alog[k].win = w /\ alog[k].op # "del"
InList(w) == [win |-> w, name |-> tag[w]] \in loop.list
AtHand(w) == loop.win = w /\ loop.pc \in {"open", "openLock", "change", "save", "saveRead"}
InHand(w) == loop.win = w /\ loop.pc \in HasText /\ loop.text = body[w]
Synced(w) ==
    /\ docStates[tag[w]] = w /\ server[tag[w]].open /\ server[tag[w]].own = body[w]
    /\ server[tag[w]].text = body[w] \/ server[tag[w]].late
Underway(w) == InLog(w) \/ InList(w) \/ AtHand(w) \/ InHand(w) \/ Synced(w)

\* What format is about to send back is the body, or that is in the log.
Formats(w) == loop.pc = "formatChange" /\ loop.win = w => InLog(w) \/ loop.text = body[w]

SyncInv == loop.pc \notin {"list", "exited"} =>
    \A w \in Wins : Clean(w) => Underway(w) /\ Formats(w)

LEMMA LogHolds ==
    ASSUME TypeOK, NEW o \in {"new", "del", "get", "put"}, NEW u \in Wins, LogEvent(o, u), tag'[u] \in Names
    PROVE  /\ \A w \in Wins : InLog(w) => InLog(w)'
           /\ logging /\ o # "del" => InLog(u)'
  <1>1. CASE ~logging
    BY <1>1 DEF LogEvent, InLog
  <1>2. CASE logging
    <2>1. PICK e : e = [op |-> o, win |-> u, name |-> tag'[u]]
      OBVIOUS
    <2>2. e \in Events /\ e.op = o /\ e.win = u /\ alog' = Append(alog, e)
      BY <1>2, <2>1 DEF Events, LogEvent
    <2>3. /\ DOMAIN alog' = 1..(Len(alog) + 1) /\ DOMAIN alog = 1..Len(alog) /\ Len(alog) \in Nat
          /\ \A k \in DOMAIN alog : alog'[k] = alog[k]
          /\ alog'[Len(alog) + 1] = e
      BY <2>2, NamedWindows, AppendProperties
    <2>4. DOMAIN alog \subseteq DOMAIN alog' /\ Len(alog) + 1 \in DOMAIN alog'
      BY <2>3
    <2> QED
      BY <2>2, <2>3, <2>4 DEF InLog
  <1> QED
    BY <1>1, <1>2

LEMMA UserSync ==
    ASSUME ~StartupGap, MaxRenames = 0, TypeOK, TypeOK', SyncInv, User
    PROVE  SyncInv'
  <1> SUFFICES ASSUME loop'.pc \notin {"list", "exited"}, NEW w \in Wins, Clean(w)'
               PROVE  Underway(w)' /\ Formats(w)'
    BY DEF SyncInv
  <1>0. UNCHANGED <<loop, docStates, server>> /\ (Steady => logging) /\ tag' \in [Wins -> Names]
    <2>1. UNCHANGED <<loop, docStates, server>>
      BY DEF User, NewWindow, DelWindow, Type, Get, Put, Rename, fmVars, serverVars
    <2> QED
      BY <2>1 DEF Steady, TypeOK, AcmeTypeOK
  \* It was clean and waiting before, or the step logs it.
  <1>1. ASSUME Clean(w), InLog(w) => InLog(w)', tag'[w] = tag[w], body'[w] = body[w]
        PROVE  Underway(w)' /\ Formats(w)'
    <2>1. Underway(w) /\ Formats(w)
      BY <1>0, <1>1 DEF SyncInv
    <2>2. Formats(w)'
      BY <1>0, <1>1, <2>1 DEF Formats
    <2> QED
      BY <1>0, <1>1, <2>1, <2>2 DEF Underway, InList, AtHand, InHand, Synced
  <1>l. InLog(w)' => Underway(w)' /\ Formats(w)'
    BY DEF Underway, Formats
  <1>2. ASSUME NEW u \in Wins, NEW n \in Names, NewWindow(u, n) PROVE Underway(w)' /\ Formats(w)'
    <2>1. LogEvent("new", u) /\ Steady
      BY <1>2 DEF NewWindow
    <2>2. CASE w = u
      BY <1>0, <1>l, <2>1, <2>2, LogHolds
    <2>3. CASE w # u
      <3>1. window'[w] = window[w] /\ tag'[w] = tag[w] /\ UNCHANGED <<dirty, body>>
        BY <1>2, <2>3 DEF NewWindow, TypeOK, AcmeTypeOK
      <3> QED
        BY <1>0, <1>1, <2>1, <3>1, LogHolds DEF Clean
    <2> QED
      BY <2>2, <2>3
  <1>3. ASSUME NEW u \in Wins, DelWindow(u) PROVE Underway(w)' /\ Formats(w)'
    <2>1. LogEvent("del", u) /\ UNCHANGED <<tag, dirty, body>>
      BY <1>3 DEF DelWindow
    <2>2. window[w] = "live"
      BY <1>3 DEF DelWindow, Clean, TypeOK, AcmeTypeOK
    <2> QED
      BY <1>0, <1>1, <2>1, <2>2, LogHolds DEF Clean
  <1>4. ASSUME NEW u \in Wins, Type(u) PROVE Underway(w)' /\ Formats(w)'
    <2>1. UNCHANGED <<window, tag, alog>> /\ dirty' = dirty \cup {u} /\ body' = [body EXCEPT ![u] = used.texts + 1]
      BY <1>4 DEF Type, EditBody
    <2>2. w # u /\ body'[w] = body[w]
      BY <2>1 DEF Clean, TypeOK, AcmeTypeOK
    <2> QED
      BY <1>1, <2>1, <2>2 DEF Clean, InLog
  <1>5. ASSUME NEW u \in Wins, Get(u) \/ Put(u) PROVE Underway(w)' /\ Formats(w)'
    <2>1. /\ LogEvent("get", u) \/ LogEvent("put", u)
          /\ Steady /\ UNCHANGED <<window, tag>> /\ dirty' = dirty \ {u}
      BY <1>5 DEF Get, Put
    <2>2. CASE w = u
      BY <1>0, <1>l, <2>1, <2>2, LogHolds
    <2>3. CASE w # u
      <3>1. body'[w] = body[w]
        BY <1>5, <2>3 DEF Get, Put, EditBody, TypeOK, AcmeTypeOK
      <3> QED
        BY <1>0, <1>1, <2>1, <2>3, <3>1, LogHolds DEF Clean
    <2> QED
      BY <2>2, <2>3
  <1> QED
    BY <1>2, <1>3, <1>4, <1>5, NoRename DEF User

\* The program itself makes no text clean.
LEMMA CleanSteps ==
    ASSUME TypeOK, Loop, NEW w \in Wins, Clean(w)'
    PROVE  Clean(w) /\ body'[w] = body[w] /\ UNCHANGED <<window, tag>>
  <1>0. UNCHANGED <<window, tag>>
    BY LoopLeavesWindows
  <1>1. CASE UNCHANGED <<body, dirty>>
    BY <1>0, <1>1 DEF Clean
  <1>2. ASSUME NEW u \in Wins, EditBody(u), dirty' = dirty \cup {u} PROVE Clean(w) /\ body'[w] = body[w]
    <2>1. w # u /\ w \notin dirty
      BY <1>2 DEF Clean
    <2> QED
      BY <1>0, <1>2, <2>1 DEF Clean, EditBody, TypeOK, AcmeTypeOK
  <1>3. CASE FormatActions
    BY <1>0, <1>1, <1>2, <1>3 DEF FormatActions
  <1>4. CASE FormatEdit
    <2>1. loop.win \in Wins
      BY <1>4 DEF FormatEdit, TypeOK, LoopTypeOK
    <2> QED
      BY <1>0, <1>1, <1>2, <1>4, <2>1 DEF FormatEdit
  <1>5. CASE ~FormatActions /\ ~FormatEdit
    <2>1. UNCHANGED <<body, dirty>>
      BY <1>5 DEF Loop, ListWindows, BootNext, OpenLog, ReadEvent, DidOpenWin, DidOpenLock, DidOpenSend,
         DidOpenWatch, DidClose, DidCloseSend, DidChangeRead, DidChangeAlloc, DidChangeSend, DidSaveLookup,
         DidSaveRead, DidSaveAlloc, DidSaveSend, DidSave, FormatLock, FormatChange, acmeVars
    <2> QED
      BY <1>0, <1>1, <2>1
  <1> QED
    BY <1>3, <1>4, <1>5

\* The window list is used up one by one.
LEMMA ListStays ==
    ASSUME TypeOK, WatchersInv, PhaseInv, Loop, ~ListWindows, ~BootNext, ~OpenLog, NEW w \in Wins
    PROVE  UNCHANGED tag /\ InList(w) => InList(w)'
  <1>1. CASE ~loop.boot
    BY <1>1 DEF InList, PhaseInv, WatchersInv, ListBeforeLog
  <1>2. CASE loop.boot
    <2>1. loop.pc \in BootSteps
      BY <1>2 DEF PhaseInv
    <2>2. DidOpenWin \/ DidOpenLock \/ DidOpenSend \/ DidOpenWatch
      BY <2>1 DEF Loop, ReadEvent, DidClose, DidCloseSend, DidChangeRead, DidChangeAlloc, DidChangeSend,
         DidSaveLookup, DidSaveRead, DidSaveAlloc, DidSaveSend, DidSave, FormatLock, FormatActions, FormatChange,
         FormatEdit, BootSteps
    <2>3. loop'.list = loop.list
      <3>1. CASE DidOpenLock
        BY <1>2, <3>1, DonePhase DEF DidOpenLock, TypeOK, LoopTypeOK, Loops
      <3>2. CASE DidOpenWin \/ DidOpenSend \/ DidOpenWatch
        BY <1>2, <3>2, DonePhase, GotoPhase DEF DidOpenWin, DidOpenSend, DidOpenWatch, LoopSteps
      <3> QED
        BY <2>2, <3>1, <3>2
    <2> QED
      BY <2>3 DEF InList
  <1> QED
    BY <1>1, <1>2

\* A text that has reached the server stays there, or there is a newer one.
LEMMA SyncedStays ==
    ASSUME MaxCrashes = 0, TypeOK, MirrorInv, RestartInv, Loop, NEW w \in Wins, Clean(w), UNCHANGED tag,
           body'[w] = body[w], Synced(w), Formats(w)
    PROVE  InLog(w) \/ Synced(w)'
  <1>0. /\ tag[w] \in Served /\ tag[w] \in Names /\ w # NoWin /\ loop.name \in Names /\ [Next]_vars
        /\ docStates[tag[w]] = w /\ server[tag[w]].open /\ server[tag[w]].own = body[w]
        /\ server[tag[w]].text = body[w] \/ server[tag[w]].late
    BY NamesAssumption, WinsAssumption, TextNumbers DEF Clean, Next, Synced
  <1>1. docStates'[tag[w]] = w
    <2>1. CASE UNCHANGED docStates
      BY <1>0, <2>1
    <2>2. CASE DidOpenLock
      BY <1>0, <2>2 DEF DidOpenLock, TypeOK, ManagerTypeOK
    <2>3. CASE DidClose
      <3>1. loop.pc = "close" /\ docStates' = [docStates EXCEPT ![loop.name] = NoWin]
        BY <2>3 DEF DidClose
      <3>2. ASSUME tag[w] = loop.name PROVE FALSE
        <4>1. Ann(tag[w], -1, w) /\ Del(tag[w], 0, loop.win) /\ loop.win \in Wins
          BY <1>0, <3>1, <3>2 DEF Ann, Del, TypeOK, LoopTypeOK
        <4>2. logging
          BY <3>1 DEF MirrorInv, PhaseInv, BootSteps
        <4>3. Ordered(tag[w])
          BY <1>0, <4>2 DEF MirrorInv, OrderInv
        <4>4. loop.win # w
          BY <4>1, <4>3 DEF Ordered, DelIsGone, Clean
        <4>5. \E j \in Int : -1 < j /\ j < 0
          BY <4>1, <4>3, <4>4 DEF Ordered, DelAfterAnn
        <4> QED
          BY <4>5
      <3> QED
        BY <1>0, <3>1, <3>2 DEF TypeOK, ManagerTypeOK
    <2> QED
      BY <1>0, <2>1, <2>2, <2>3, OpenersTrack
  <1>d. ASSUME NEW v, server'[tag[w]] = Document(v, body[w])
        PROVE  Synced(w)'
    BY <1>0, <1>1, <1>d DEF Synced, Document
  <1>s. server'[tag[w]] = server[tag[w]] => Synced(w)'
    BY <1>0, <1>1 DEF Synced
  <1>2. CASE UNCHANGED server \/ (Sends /\ tag[w] # loop.name)
    BY <1>0, <1>2, <1>s, SendTexts DEF MirrorInv, TextsInv
  <1>3. CASE (DidOpenSend \/ DidCloseSend) /\ tag[w] = loop.name
    <2>1. ~DidOpenSend
      BY <1>0, <1>3 DEF DidOpenSend, MirrorInv, OnceInv
    <2>2. ~DidCloseSend
      BY <1>0, <1>3 DEF DidCloseSend, RestartInv
    <2> QED
      BY <1>3, <2>1, <2>2
  <1>4. CASE (DidChangeSend \/ DidSaveSend) /\ tag[w] = loop.name
    <2>1. loop.pc \in {"changeSend", "saveSend"}
      BY <1>4 DEF DidChangeSend, DidSaveSend
    <2>2. server'[tag[w]] = Document(loop.ver, loop.text)
      BY <1>0, <1>4, SendTexts DEF MirrorInv, TextsInv, Sends
    <2>3. loop.win = w /\ loop.text <= body[w] /\ body[w] <= loop.text
      BY <1>0, <1>4, <2>1 DEF MirrorInv, TextsInv, HandInv, HasText
    <2>4. loop.text = body[w]
      BY <2>3, TextNumbers
    <2> QED
      BY <1>d, <2>2, <2>4
  <1>5. CASE FormatChange /\ tag[w] = loop.name
    <2>1. loop.pc = "formatChange"
      BY <1>5 DEF FormatChange
    <2>2. loop.win = w
      BY <1>0, <1>5, <2>1 DEF MirrorInv, TextsInv, HandInv
    <2>3. InLog(w) \/ loop.text = body[w]
      BY <2>1, <2>2 DEF Formats
    <2>4. UNCHANGED server \/ server'[tag[w]] = Document(0, loop.text)
      BY <1>0, <1>5, SendTexts DEF MirrorInv, TextsInv, Sends
    <2> QED
      BY <1>d, <1>s, <2>3, <2>4
  <1>6. ~RemoteSend
    BY LoopNotifiesNobody DEF RemoteSend, IdleRemote
  <1> QED
    BY <1>0, <1>2, <1>3, <1>4, <1>5, <1>6, SendSteps DEF MirrorInv, Sends

\* What the loop has at hand it reads, and what it has read it sends.
LEMMA OpensAtHand ==
    ASSUME TypeOK, MirrorInv, DidOpenWin \/ DidOpenLock \/ DidOpenSend, NEW w \in Wins, Clean(w),
           UNCHANGED tag, body'[w] = body[w], AtHand(w) \/ InHand(w), loop'.pc # "exited"
    PROVE  AtHand(w)' \/ InHand(w)' \/ Synced(w)'
  <1>0. /\ loop.win = w /\ loop.name = tag[w] /\ loop.name \in Served /\ window[w] = "live" /\ w # NoWin
        /\ loop \in Loops /\ loop.name \in Names
    BY WinsAssumption, TextNumbers DEF AtHand, InHand, HasText, MirrorInv, TagsInv, Handling, Is, Clean
  <1>1. CASE DidOpenWin
    <2>1. Goto("openLock")
      BY <1>0, <1>1 DEF DidOpenWin
    <2> QED
      BY <1>0, <2>1, GotoMoves DEF AtHand, LoopSteps
  <1>2. CASE DidOpenLock
    <2>1. docStates[loop.name] = NoWin
      <3>1. CASE loop.boot
        BY <1>2, <3>1, DonePhase DEF DidOpenLock
      <3>2. CASE ~loop.boot
        <4> SUFFICES ASSUME docStates[loop.name] # NoWin PROVE FALSE
          OBVIOUS
        <4>1. Ordered(loop.name)
          BY <1>0, <3>2 DEF MirrorInv, PhaseInv, OrderInv
        <4>2. docStates[loop.name] \in Wins /\ Ann(loop.name, -1, docStates[loop.name]) /\ Ann(loop.name, 0, w)
          BY <1>0, <1>2, TextNumbers DEF DidOpenLock, Ann, ToTrack
        <4>3. \E k \in Int : -1 < k /\ k < 0
          BY <4>1, <4>2 DEF Ordered, AnnAfterDel
        <4> QED
          BY <4>3
      <3> QED
        BY <3>1, <3>2
    <2>2. loop' = [loop EXCEPT !.pc = "openSend", !.text = body[loop.win]]
      BY <1>0, <1>2, <2>1 DEF DidOpenLock
    <2>3. loop'.pc = "openSend" /\ loop'.text = body[w] /\ loop'.win = w
      BY <1>0, <2>2 DEF Loops
    <2> QED
      BY <2>3 DEF InHand, HasText
  <1>3. CASE DidOpenSend
    <2>1. loop.pc = "openSend" /\ UNCHANGED docStates
      BY <1>3 DEF DidOpenSend
    <2>2. loop.text = body[w] /\ docStates[loop.name] = w
      BY <1>0, <2>1 DEF AtHand, InHand, HasText, MirrorInv, TextsInv, HandInv
    <2>3. server'[loop.name] = Document(0, loop.text)
      BY <1>3, SendTexts DEF MirrorInv, TextsInv, Sends
    <2> QED
      BY <1>0, <2>1, <2>2, <2>3 DEF Synced, Document
  <1> QED
    BY <1>1, <1>2, <1>3

LEMMA ChangesAtHand ==
    ASSUME MaxCrashes = 0, TypeOK, MirrorInv, CoveredInv, NEW w \in Wins, Clean(w),
           DidChangeRead \/ DidChangeAlloc \/ DidChangeSend \/ DidSaveLookup \/ DidSaveRead \/ DidSaveAlloc \/ DidSaveSend,
           UNCHANGED tag, body'[w] = body[w], AtHand(w) \/ InHand(w)
    PROVE  AtHand(w)' \/ InHand(w)' \/ Synced(w)'
  <1>0. /\ loop.win = w /\ loop.name = tag[w] /\ loop.name \in Served /\ window[w] = "live" /\ w # NoWin
        /\ loop \in Loops /\ loop.name \in Names
    BY WinsAssumption, TextNumbers DEF AtHand, InHand, HasText, MirrorInv, TagsInv, Handling, Is, Clean
  <1>1. docStates[loop.name] = w
    <2>1. After
      BY DEF After, Handling, OpenSteps, DidChangeRead, DidChangeAlloc, DidChangeSend, DidSaveLookup, DidSaveRead,
         DidSaveAlloc, DidSaveSend
    <2> QED
      BY <1>0, <2>1, LiveIsOwner DEF MirrorInv
  <1>2. CASE DidChangeRead
    <2>1. loop' = [loop EXCEPT !.pc = "changeAlloc", !.doc = docStates[loop.name], !.text = body[loop.win]]
      BY <1>0, <1>1, <1>2 DEF DidChangeRead
    <2>2. loop'.pc = "changeAlloc" /\ loop'.text = body[w] /\ loop'.win = w
      BY <1>0, <2>1 DEF Loops
    <2> QED
      BY <2>2 DEF InHand, HasText
  <1>3. CASE DidSaveLookup
    <2>1. loop' = [loop EXCEPT !.pc = "saveRead", !.doc = docStates[loop.name]]
      BY <1>0, <1>1, <1>3 DEF DidSaveLookup
    <2>2. loop'.pc = "saveRead" /\ loop'.win = w
      BY <1>0, <2>1 DEF Loops
    <2> QED
      BY <2>2 DEF AtHand
  <1>4. CASE DidSaveRead
    <2>1. loop' = [loop EXCEPT !.pc = "saveAlloc", !.text = body[loop.win]]
      BY <1>0, <1>4 DEF DidSaveRead
    <2>2. loop'.pc = "saveAlloc" /\ loop'.text = body[w] /\ loop'.win = w
      BY <1>0, <2>1 DEF Loops
    <2> QED
      BY <2>2 DEF InHand, HasText
  <1>5. CASE DidChangeAlloc \/ DidSaveAlloc
    <2>1. loop.pc \in {"changeAlloc", "saveAlloc"}
      BY <1>5 DEF DidChangeAlloc, DidSaveAlloc
    <2>2. \/ loop' = [loop EXCEPT !.pc = "changeSend", !.ver = version'[loop.doc]]
          \/ loop' = [loop EXCEPT !.pc = "saveSend", !.ver = version'[loop.doc]]
      BY <1>5 DEF DidChangeAlloc, DidSaveAlloc
    <2>3. loop'.pc \in {"changeSend", "saveSend"} /\ loop'.text = loop.text /\ loop'.win = w
      BY <1>0, <2>2 DEF Loops
    <2> QED
      BY <2>1, <2>3 DEF AtHand, InHand, HasText
  <1>6. CASE DidChangeSend \/ DidSaveSend
    <2>1. loop.pc \in {"changeSend", "saveSend"}
      BY <1>6 DEF DidChangeSend, DidSaveSend
    <2>2. server[loop.name].open
      <3>1. Tracked(loop.name) /\ serverUp
        BY <1>0, <1>1 DEF Tracked, MirrorInv, OpenInv
      <3>2. Covered(loop.name)
        BY <1>0, <3>1 DEF CoveredInv
      <3> QED
        BY <2>1, <3>2, NoCrash DEF Covered
    <2>3. server'[loop.name] = Document(loop.ver, loop.text) /\ UNCHANGED docStates
      BY <1>6, <2>2, SendTexts DEF MirrorInv, TextsInv, Sends
    <2>4. loop.text = body[w]
      BY <2>1 DEF AtHand, InHand
    <2> QED
      BY <1>0, <1>1, <2>3, <2>4 DEF Synced, Document
  <1> QED
    BY <1>2, <1>3, <1>4, <1>5, <1>6

\* The loop takes a window from the list or an event from the log.
LEMMA TakenAtHand ==
    ASSUME TypeOK, MirrorInv, SyncInv, ListWindows \/ BootNext \/ OpenLog \/ ReadEvent, NEW w \in Wins, Clean(w)
    PROVE  InLog(w)' \/ InList(w)' \/ AtHand(w)' \/ Synced(w)'
  <1>0. UNCHANGED <<window, tag, body, docStates, server>> /\ loop \in Loops
    BY TextNumbers DEF ListWindows, BootNext, OpenLog, ReadEvent, acmeVars, fmVars, serverVars
  <1>1. CASE ListWindows
    <2>1. loop'.list = {[win |-> v, name |-> tag[v]] : v \in {u \in Wins : window[u] = "live"}}
      BY <1>0, <1>1 DEF ListWindows, Loops
    <2> QED
      BY <1>0, <2>1 DEF InList, Clean
  <1>2. ASSUME loop.pc \in {"boot", "read"} PROVE InLog(w) \/ InList(w) \/ Synced(w)
    BY <1>2 DEF SyncInv, Underway, AtHand, InHand, HasText
  <1>3. Synced(w) => Synced(w)'
    BY <1>0 DEF Synced
  <1>4. CASE BootNext
    <2>1. UNCHANGED alog /\ (InLog(w) => InLog(w)') /\ loop.pc = "boot"
      BY <1>4 DEF BootNext, acmeVars, InLog
    <2>2. PICK f \in loop.list :
             loop' = [loop EXCEPT !.pc = "open", !.win = f.win, !.name = f.name, !.list = @ \ {f}]
      BY <1>4 DEF BootNext
    <2>3. loop'.pc = "open" /\ loop'.win = f.win /\ loop'.list = loop.list \ {f}
      BY <1>0, <2>2 DEF Loops
    <2>4. InList(w) => InList(w)' \/ AtHand(w)'
      BY <1>0, <2>3 DEF InList, AtHand
    <2> QED
      BY <1>2, <1>3, <2>1, <2>4
  <1>5. CASE OpenLog
    <2>1. UNCHANGED alog /\ (InLog(w) => InLog(w)') /\ loop.pc = "boot" /\ ~InList(w)
      BY <1>5 DEF OpenLog, InLog, InList
    <2> QED
      BY <1>2, <1>3, <2>1
  <1>6. CASE ReadEvent
    <2>1. PICK e : e = Head(alog)
      OBVIOUS
    <2>2. /\ alog # <<>> /\ alog' = Tail(alog) /\ loop.pc = "read"
          /\ loop'.pc = Handler(e.op) /\ loop'.win = e.win /\ loop'.list = loop.list
      BY <1>0, <1>6, <2>1 DEF ReadEvent, Loops
    <2>3. /\ Len(alog) \in Nat /\ DOMAIN alog = 1..Len(alog) /\ DOMAIN alog' = 1..(Len(alog) - 1)
          /\ \A k \in DOMAIN alog' : alog'[k] = alog[k + 1]
          /\ e = alog[1] /\ e \in Events
      BY <2>1, <2>2, NamedWindows, HeadTailProperties
    <2>4. ASSUME InLog(w) PROVE InLog(w)' \/ AtHand(w)'
      <3>1. PICK k \in DOMAIN alog : alog[k].win = w /\ alog[k].op # "del"
        BY <2>4 DEF InLog
      <3>2. CASE k = 1
        <4>1. e.op \in {"new", "get", "put"} /\ e.win = w
          BY <2>3, <3>1, <3>2 DEF Events
        <4> QED
          BY <2>2, <4>1 DEF Handler, AtHand
      <3>3. CASE k # 1
        <4>1. k - 1 \in DOMAIN alog' /\ alog'[k - 1] = alog[k]
          BY <2>3, <3>3
        <4> QED
          BY <3>1, <4>1 DEF InLog
      <3> QED
        BY <3>2, <3>3
    <2>5. InList(w) => InList(w)'
      BY <1>0, <2>2 DEF InList
    <2> QED
      BY <1>2, <1>3, <2>2, <2>4, <2>5
  <1> QED
    BY <1>1, <1>4, <1>5, <1>6

\* Only format's code actions lead to its didChange.
LEMMA FormatsNext ==
    ASSUME TypeOK, Loop, NEW w \in Wins, InLog(w) => InLog(w)'
    PROVE  Formats(w)'
  <1> SUFFICES ASSUME loop'.pc = "formatChange", loop'.win = w PROVE InLog(w)' \/ loop'.text = body'[w]
    BY DEF Formats
  <1> USE GotoMoves, DoneMoves, SaveMoves DEF LoopSteps
  <1>0. loop \in Loops
    BY TextNumbers
  <1>1. Carries
    BY LoopTexts DEF HandEmpty
  <1>2. ~DidOpenLock /\ ~DidClose /\ ~FormatLock
    <2>1. ~DidClose /\ ~FormatLock
      BY DEF DidClose, FormatLock
    <2>2. ~DidOpenLock
      BY <1>0 DEF DidOpenLock, Loops
    <2> QED
      BY <2>1, <2>2
  <1>3. ~DidChangeRead /\ ~DidChangeAlloc
    BY <1>0 DEF DidChangeRead, DidChangeAlloc, Loops
  <1>4. ~DidSaveLookup /\ ~DidSaveRead /\ ~DidSaveAlloc
    BY <1>0 DEF DidSaveLookup, DidSaveRead, DidSaveAlloc, Loops
  <1>5. FormatActions
    BY <1>1, <1>2, <1>3, <1>4 DEF Carries
  <1>6. loop' = [loop EXCEPT !.pc = "formatChange", !.text = body'[loop.win]]
    BY <1>5 DEF FormatActions
  <1> QED
    BY <1>0, <1>6 DEF Loops

LEMMA LoopSync ==
    ASSUME MaxCrashes = 0, TypeOK, MirrorInv, RestartInv, CoveredInv, SyncInv, Loop
    PROVE  SyncInv'
  <1> SUFFICES ASSUME loop'.pc \notin {"list", "exited"}, NEW w \in Wins, Clean(w)'
               PROVE  Underway(w)' /\ Formats(w)'
    BY DEF SyncInv
  <1>0. Clean(w) /\ body'[w] = body[w] /\ UNCHANGED <<window, tag>> /\ [Next]_vars
    BY CleanSteps DEF Next
  <1>1. CASE ListWindows \/ BootNext \/ OpenLog \/ ReadEvent
    <2>1. Underway(w)'
      BY <1>0, <1>1, TakenAtHand DEF Underway
    <2>2. loop'.pc # "formatChange"
      <3>1. ~Carries
        BY <1>1 DEF Carries, ListWindows, BootNext, OpenLog, ReadEvent, DidOpenLock, DidClose, DidChangeRead,
           DidChangeAlloc, DidSaveLookup, DidSaveRead, DidSaveAlloc, FormatLock, FormatActions
      <3> QED
        BY <3>1, LoopTexts DEF HandEmpty
    <2> QED
      BY <2>1, <2>2 DEF Formats
  <1>2. CASE ~ListWindows /\ ~BootNext /\ ~OpenLog /\ ~ReadEvent
    <2>0. loop.pc \notin {"list", "exited"}
      BY <1>2 DEF Loop, DidOpenWin, DidOpenLock, DidOpenSend, DidOpenWatch, DidClose, DidCloseSend, DidChangeRead,
         DidChangeAlloc, DidChangeSend, DidSaveLookup, DidSaveRead, DidSaveAlloc, DidSaveSend, DidSave, FormatLock,
         FormatActions, FormatChange, FormatEdit
    <2>1. UNCHANGED alog
      BY <1>2 DEF Loop, DidOpenWin, DidOpenLock, DidOpenSend, DidOpenWatch, DidClose, DidCloseSend, DidChangeRead,
         DidChangeAlloc, DidChangeSend, DidSaveLookup, DidSaveRead, DidSaveAlloc, DidSaveSend, DidSave, FormatLock,
         FormatActions, FormatChange, FormatEdit, acmeVars
    <2>i. Underway(w) /\ Formats(w)
      BY <1>0, <2>0 DEF SyncInv
    <2>2. InLog(w) => InLog(w)'
      BY <2>1 DEF InLog
    <2>3. InList(w) => InList(w)'
      BY <1>0, <1>2, ListStays DEF MirrorInv
    <2>4. Synced(w) => InLog(w)' \/ Synced(w)'
      BY <1>0, <2>2, <2>i, SyncedStays
    <2>5. AtHand(w) \/ InHand(w) => AtHand(w)' \/ InHand(w)' \/ Synced(w)'
      <3> SUFFICES ASSUME AtHand(w) \/ InHand(w) PROVE AtHand(w)' \/ InHand(w)' \/ Synced(w)'
        OBVIOUS
      <3>1. CASE DidOpenWin \/ DidOpenLock \/ DidOpenSend
        BY <1>0, <3>1, OpensAtHand
      <3>2. CASE DidChangeRead \/ DidChangeAlloc \/ DidChangeSend \/ DidSaveLookup \/ DidSaveRead \/ DidSaveAlloc
                 \/ DidSaveSend
        BY <1>0, <3>2, ChangesAtHand
      <3> QED
        BY <1>2, <3>1, <3>2 DEF Loop, AtHand, InHand, HasText, DidOpenWatch, DidClose, DidCloseSend, DidSave,
           FormatLock, FormatActions, FormatChange, FormatEdit
    <2>6. Formats(w)'
      BY <2>2, FormatsNext
    <2> QED
      BY <2>i, <2>2, <2>3, <2>4, <2>5, <2>6 DEF Underway
  <1> QED
    BY <1>1, <1>2

\* L's text may come to lie over the one of a file that has moved on.
LEMMA RemoteSync ==
    ASSUME TypeOK, SyncInv, RemoteSend
    PROVE  SyncInv'
  <1> SUFFICES ASSUME loop'.pc \notin {"list", "exited"}, NEW w \in Wins, Clean(w)'
               PROVE  Underway(w)' /\ Formats(w)'
    BY DEF SyncInv
  <1>0. UNCHANGED <<window, tag, body, dirty, alog, loop, docStates>>
    BY DEF RemoteSend, acmeVars, fmVars
  <1>1. Clean(w) /\ Underway(w) /\ Formats(w)
    BY <1>0 DEF SyncInv, Clean
  <1>2. Synced(w) => Synced(w)'
    <2> SUFFICES ASSUME Synced(w) PROVE Synced(w)'
      OBVIOUS
    <2>1. tag[w] \in Names /\ window[w] = "live"
      BY <1>1, NamesAssumption DEF Clean
    <2>2. server'[tag[w]].open /\ server'[tag[w]].own = body[w]
      BY <2>1, IntrudedTexts DEF Synced
    <2>3. server'[tag[w]].text = body[w] \/ server'[tag[w]].late
      <3>1. CASE UNCHANGED server \/ tag[w] # remote.name
        BY <2>1, <3>1, IntrudedTexts DEF Synced
      <3>2. CASE /\ tag[w] = remote.name /\ server'[remote.name].text = remote.text
                 /\ server'[remote.name].late =
                       \E u \in Wins : window[u] = "live" /\ tag[u] = remote.name /\ body[u] # remote.text
        BY <2>1, <3>2
      <3> QED
        BY <3>1, <3>2, IntrudedTexts
    <2> QED
      BY <1>0, <2>2, <2>3 DEF Synced
  <1> QED
    BY <1>0, <1>1, <1>2 DEF Underway, Formats, InLog, InList, AtHand, InHand

LEMMA SyncNext ==
    ASSUME ~StartupGap, MaxRenames = 0, MaxCrashes = 0, TypeOK, TypeOK', MirrorInv, RestartInv, CoveredInv, SyncInv,
           [Next]_vars
    PROVE  SyncInv'
  <1>1. CASE User
    BY <1>1, UserSync
  <1>2. CASE Loop
    BY <1>2, LoopSync
  <1>3. CASE RemoteSend
    BY <1>3, RemoteSync
  <1>4. CASE (\E w \in Wins : RemoteRead(w)) \/ Request \/ UNCHANGED vars
    <2>1. UNCHANGED <<window, tag, body, dirty, alog, loop, docStates, server>>
      BY <1>4 DEF RemoteRead, Request, acmeVars, fmVars, serverVars, vars
    <2> QED
      BY <2>1 DEF SyncInv, Underway, Formats, Clean, InLog, InList, AtHand, InHand, Synced
  <1> QED
    BY <1>1, <1>2, <1>3, <1>4, SilentSteps DEF MirrorInv, Remote

\* Under the same assumptions the server has been sent by the FileManager,
\* whenever that has caught up, the very text of every file that was put or
\* read and not edited since, and has taken it, whether it looks at versions or
\* not; and it still has it, unless it has let in a text of L's that was older
\* than the file's when it came.  No event of a window is dropped and none is
\* handled with the text of another window.
THEOREM CleanFilesAreInSync ==
    ASSUME ~Highlighting, ~StartupGap, ~Doubles, MaxRenames = 0, MaxCrashes = 0
    PROVE  Spec => []CleanTextInSync
  <1> DEFINE Inv == MirrorInv /\ RestartInv /\ CoveredInv /\ SyncInv
  <1>1. Init => Inv
    <2> SUFFICES ASSUME Init PROVE Inv
      OBVIOUS
    <2>1. loop.pc = "list"
      BY DEF Init, Idle
    <2>2. RestartInv /\ CoveredInv /\ SyncInv
      BY <2>1 DEF Init, IdleResync, RestartInv, CoveredInv, Tracked, SyncInv
    <2> QED
      BY <2>2, InitMirror
  <1>2. TypeOK /\ TypeOK' /\ Inv /\ [Next]_vars => Inv'
    <2> SUFFICES ASSUME TypeOK, TypeOK', Inv, [Next]_vars PROVE Inv'
      OBVIOUS
    <2>1. MirrorInv' /\ SyncInv'
      BY MirrorInvNext, SyncNext
    <2>2. RestartInv' /\ CoveredInv'
      BY RestartNext, CoveredNext DEF MirrorInv
    <2> QED
      BY <2>1, <2>2
  <1>3. TypeOK /\ Inv => CleanTextInSync
    <2> SUFFICES ASSUME TypeOK, Inv, Quiet, NEW w \in Wins, window[w] = "live", tag[w] \in Served, w \notin dirty
                 PROVE  /\ server[tag[w]].own = body[w]
                        /\ server[tag[w]].text = body[w] \/ server[tag[w]].late
      BY DEF CleanTextInSync
    <2>1. loop.pc = "read" /\ alog = <<>>
      BY DEF Quiet
    <2>2. loop.list = {}
      BY <2>1 DEF MirrorInv, PhaseInv, BootSteps, WatchersInv, ListBeforeLog
    <2>3. ~InLog(w) /\ ~InList(w) /\ ~AtHand(w) /\ ~InHand(w)
      BY <2>1, <2>2 DEF InLog, InList, AtHand, InHand, HasText
    <2> QED
      BY <2>1, <2>3 DEF SyncInv, Underway, Clean, Synced
  <1> QED
    BY <1>1, <1>2, <1>3, TypeCorrect, PTL DEF Spec
=============================================================================
