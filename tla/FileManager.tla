---------------------------- MODULE FileManager ----------------------------
(***************************************************************************)
(* Document synchronisation between acme's windows and a language server:  *)
(* the FileManager of internal/lsp/acmelsp/files.go, with the goroutines   *)
(* that enter it.                                                          *)
(*                                                                         *)
(*   loop    NewFileManager and then Run, the reader of acme's log         *)
(*   watch   watchBody, one goroutine per opened window                    *)
(*   notify  notifyDidChange, one goroutine per change a watcher sees      *)
(*   resync  the goroutine that re-initialises a restarted server and      *)
(*           then calls ResyncFiles                                        *)
(*   remote  a client of the proxy (the command L), which sends its own    *)
(*           didChange past the FileManager                                *)
(*                                                                         *)
(* A body is the number of the edit that wrote it, so a larger number is a *)
(* later text.  The JSON-RPC connection is a FIFO, so "server" is the      *)
(* document store of the language server once it has read all it was sent. *)
(* Highlighting itself (token requests, layers) is not in this module.     *)
(***************************************************************************)
EXTENDS Integers, Sequences, FiniteSets

CONSTANTS
    Wins,         \* acme window ids; acme never uses one twice
    NoWin,        \* the absent map entry
    Names,        \* file names
    Served,       \* the names ServerSet.MatchFile finds a server for
    Notifiers,    \* bound: notifyDidChange goroutines alive at a time
    Highlighting, \* cfg.SemanticHighlighting
    FormatOnPut,  \* cfg.FormatOnPut
    Doubles,      \* may two live windows have the same name?
    StartupGap,   \* may acme log events between Windows() and Log()?
    MaxTexts,     \* bound: edits of all windows
    MaxPuts,      \* bound: Put commands
    MaxRenames,   \* bound: edits of a window's tag
    MaxRemotes,   \* bound: didChange messages of the proxy's clients
    MaxCrashes    \* bound: exits of the server process

ASSUME WinsAssumption == NoWin \notin Wins
ASSUME NamesAssumption == Served \subseteq Names /\ Names # {}
ASSUME ConfigAssumption ==
    /\ Highlighting \in BOOLEAN /\ FormatOnPut \in BOOLEAN
    /\ Doubles \in BOOLEAN /\ StartupGap \in BOOLEAN
ASSUME BoundAssumption ==
    /\ MaxTexts \in Nat /\ MaxPuts \in Nat /\ MaxRenames \in Nat
    /\ MaxRemotes \in Nat /\ MaxCrashes \in Nat

VARIABLES
    \* acme
    window,     \* "unborn", "live" or "gone", for each window
    tag,        \* the file name in each window's tag
    body,       \* the text of each window
    dirty,      \* the windows edited since they were read or put
    alog,       \* events of acme's log that nobody has read yet
    logging,    \* the FileManager has opened the log
    used,       \* how much of each bound is used up
    \* the FileManager
    docStates,  \* name -> the docState, named after the window that opened it
    version,    \* docState.version, for each docState
    watchers,   \* name -> the stop channel, named after the window it watches
    closed,     \* the stop channels that are closed
    mu,         \* the thread that holds fm.mu, or "free"
    \* goroutines
    loop, watch, notify, resync, remote,
    \* the language server
    serverUp,   \* a process is running and Client.Server talks to it
    noticed,    \* cmd.Wait has returned since the process last exited
    server,     \* its document store
    breaches    \* the ways in which it was sent a message it cannot accept

acmeVars == <<window, tag, body, dirty, alog, logging, used>>
fmVars == <<docStates, version, watchers, closed, mu>>
serverVars == <<serverUp, noticed, server, breaches>>
vars == <<acmeVars, fmVars, loop, watch, notify, resync, remote, serverVars>>

-----------------------------------------------------------------------------
Texts == 0..MaxTexts
NoText == -1
Files == [win : Wins, name : Names]

\* What a language server keeps of a document, with two fields of history:
\* the last text that it took from the FileManager, and whether its text is L's
\* and came when a window of the file had another one already.
Documents == [open : BOOLEAN, ver : Nat, text : Texts, own : Texts, late : BOOLEAN]
Document(v, t) == [open |-> TRUE, ver |-> v, text |-> t, own |-> t, late |-> FALSE]
NotOpen == [open |-> FALSE, ver |-> 0, text |-> 0, own |-> 0, late |-> FALSE]

Breaches == {"reopened", "unopened", "stale"}

Budgets == [texts : 0..MaxTexts, puts : 0..MaxPuts, renames : 0..MaxRenames,
            remotes : 0..MaxRemotes, crashes : 0..MaxCrashes]

Events == [op : {"new", "del", "get", "put"}, win : Wins, name : Names]

\* The event loop's registers.
LoopSteps == {"list", "boot", "exited", "read",
              "open", "openLock", "openSend", "openWatch",
              "close", "closeSend",
              "change", "changeAlloc", "changeSend",
              "save", "saveRead", "saveAlloc", "saveSend", "saveDone",
              "format", "formatWin", "formatChange", "formatEdit"}
Loops == [pc : LoopSteps, boot : BOOLEAN, list : SUBSET Files,
          win : Wins \cup {NoWin}, name : Names, doc : Wins \cup {NoWin},
          text : Texts, ver : Nat]

SomeName == CHOOSE n \in Names : TRUE
Idle == [pc |-> "read", boot |-> FALSE, list |-> {}, win |-> NoWin, name |-> SomeName,
         doc |-> NoWin, text |-> 0, ver |-> 0]

Watches == [pc : {"none", "run", "done"}, name : Names, last : Texts \cup {NoText}]
Notifies == [pc : {"idle", "lookup", "alloc", "send"}, name : Names,
             text : Texts, doc : Wins \cup {NoWin}, ver : Nat]
IdleNotify == [pc |-> "idle", name |-> SomeName, text |-> 0, doc |-> NoWin, ver |-> 0]

Resyncers == 1..MaxCrashes
ResyncSteps == {"none", "init", "list", "snapshot", "next", "reset", "readAll", "send", "done"}
Resyncs == [pc : ResyncSteps, todo : SUBSET Files,
            win : Wins \cup {NoWin}, name : Names, text : Texts]
IdleResync == [pc |-> "none", todo |-> {}, win |-> NoWin, name |-> SomeName, text |-> 0]

Remotes == [pc : {"idle", "send"}, name : Names, text : Texts]
IdleRemote == [pc |-> "idle", name |-> SomeName, text |-> 0]

\* Live windows have different names, where the model says so.
NamesDiffer(win, tags) ==
    Doubles \/ \A u, v \in Wins :
        win[u] = "live" /\ win[v] = "live" /\ tags[u] = tags[v] => u = v

Init ==
    /\ window \in [Wins -> {"unborn", "live"}]
    /\ tag \in [Wins -> Names]
    /\ \A w \in Wins : window[w] = "unborn" => tag[w] = SomeName
    /\ NamesDiffer(window, tag)
    /\ body = [w \in Wins |-> 0]
    /\ dirty = {}
    /\ alog = <<>>
    /\ logging = FALSE
    /\ used = [texts |-> 0, puts |-> 0, renames |-> 0, remotes |-> 0, crashes |-> 0]
    /\ docStates = [n \in Names |-> NoWin]
    /\ version = [w \in Wins |-> 0]
    /\ watchers = [n \in Names |-> NoWin]
    /\ closed = {}
    /\ mu = "free"
    /\ loop = [Idle EXCEPT !.pc = "list", !.boot = TRUE]
    /\ watch = [w \in Wins |-> [pc |-> "none", name |-> SomeName, last |-> NoText]]
    /\ notify = [i \in Notifiers |-> IdleNotify]
    /\ resync = [r \in Resyncers |-> IdleResync]
    /\ remote = IdleRemote
    /\ serverUp = TRUE
    /\ noticed = FALSE
    /\ server = [n \in Names |-> NotOpen]
    /\ breaches = {}

-----------------------------------------------------------------------------
(* The language server.  It takes a didChange only for an open document.   *)
(* One with a version that is not above the last one is dropped by strict  *)
(* servers and taken by lenient ones, which do not look at versions.       *)
(* While the server is down what is sent to it is lost.                    *)

Breach(kind) == breaches' = breaches \cup {kind}

\* cmd.Wait returns once the copy to the dead process's standard input fails,
\* which takes a message.
Wake == noticed' = (noticed \/ ~serverUp)

ServerOpen(n, t) ==
    /\ Wake
    /\ IF serverUp
       THEN /\ server' = [server EXCEPT ![n] = Document(0, t)]
            /\ IF server[n].open THEN Breach("reopened") ELSE UNCHANGED breaches
       ELSE UNCHANGED <<server, breaches>>

\* A didChange that makes d of the document n.
Receive(n, d) ==
    /\ Wake
    /\ CASE ~serverUp -> UNCHANGED <<server, breaches>>
         [] serverUp /\ ~server[n].open -> UNCHANGED server /\ Breach("unopened")
         [] serverUp /\ server[n].open /\ d.ver <= server[n].ver ->
               server' \in {server, [server EXCEPT ![n] = d]} /\ Breach("stale")
         [] OTHER -> server' = [server EXCEPT ![n] = d] /\ UNCHANGED breaches

ServerChange(n, v, t) == Receive(n, Document(v, t))

ServerClose(n) ==
    /\ Wake
    /\ CASE ~serverUp -> UNCHANGED <<server, breaches>>
         [] serverUp /\ ~server[n].open -> UNCHANGED server /\ Breach("unopened")
         [] OTHER -> server' = [server EXCEPT ![n] = NotOpen] /\ UNCHANGED breaches

ServerSave(n) ==
    /\ Wake
    /\ UNCHANGED server
    /\ IF serverUp /\ ~server[n].open THEN Breach("unopened") ELSE UNCHANGED breaches

-----------------------------------------------------------------------------
(* acme and its user.                                                      *)

LogEvent(o, w) == alog' = IF logging THEN Append(alog, [op |-> o, win |-> w, name |-> tag'[w]])
                                     ELSE alog

\* What acme logs may happen at any time, but in the gap only if there is one.
Steady == StartupGap \/ logging \/ loop.pc = "list"

NewWindow(w, n) ==
    /\ Steady /\ window[w] = "unborn"
    /\ window' = [window EXCEPT ![w] = "live"]
    /\ tag' = [tag EXCEPT ![w] = n]
    /\ NamesDiffer(window', tag')
    /\ LogEvent("new", w)
    /\ UNCHANGED <<body, dirty, logging, used, fmVars, loop, watch, notify, resync, remote, serverVars>>

DelWindow(w) ==
    /\ Steady /\ window[w] = "live"
    /\ window' = [window EXCEPT ![w] = "gone"]
    /\ UNCHANGED tag
    /\ LogEvent("del", w)
    /\ UNCHANGED <<body, dirty, logging, used, fmVars, loop, watch, notify, resync, remote, serverVars>>

\* A new text for window w, typed by the user or written by the program.
EditBody(w) ==
    /\ used.texts < MaxTexts
    /\ used' = [used EXCEPT !.texts = @ + 1]
    /\ body' = [body EXCEPT ![w] = used.texts + 1]

Type(w) ==
    /\ window[w] = "live"
    /\ EditBody(w)
    /\ dirty' = dirty \cup {w}
    /\ UNCHANGED <<window, tag, alog, logging, fmVars, loop, watch, notify, resync, remote, serverVars>>

\* Get: the text on disk replaces the window's.
Get(w) ==
    /\ Steady /\ window[w] = "live"
    /\ UNCHANGED tag
    /\ EditBody(w)
    /\ dirty' = dirty \ {w}
    /\ LogEvent("get", w)
    /\ UNCHANGED <<window, logging, fmVars, loop, watch, notify, resync, remote, serverVars>>

Put(w) ==
    /\ Steady /\ window[w] = "live"
    /\ UNCHANGED tag
    /\ used.puts < MaxPuts
    /\ used' = [used EXCEPT !.puts = @ + 1]
    /\ dirty' = dirty \ {w}
    /\ LogEvent("put", w)
    /\ UNCHANGED <<window, body, logging, fmVars, loop, watch, notify, resync, remote, serverVars>>

\* The user edits the file name in the tag; acme logs nothing.
Rename(w, n) ==
    /\ window[w] = "live" /\ tag[w] # n
    /\ used.renames < MaxRenames
    /\ used' = [used EXCEPT !.renames = @ + 1]
    /\ tag' = [tag EXCEPT ![w] = n]
    /\ NamesDiffer(window, tag')
    /\ UNCHANGED <<window, body, dirty, alog, logging, fmVars, loop, watch, notify, resync, remote, serverVars>>

User == \E w \in Wins :
    \/ DelWindow(w) \/ Type(w) \/ Get(w) \/ Put(w)
    \/ \E n \in Names : NewWindow(w, n) \/ Rename(w, n)

-----------------------------------------------------------------------------
(* The event loop.  Each handler ends with Done, which goes on to the next *)
(* listed window in NewFileManager, where an error ends the program, and   *)
(* to the next event in runOnce, where it is only logged.                  *)

Goto(pc) == loop' = [loop EXCEPT !.pc = pc]

Done(ok) ==
    loop' = IF loop.boot
            THEN [Idle EXCEPT !.pc = IF ok THEN "boot" ELSE "exited",
                              !.boot = TRUE, !.list = loop.list]
            ELSE Idle

Unlock == mu' = "free"

ListWindows ==
    /\ loop.pc = "list"
    /\ loop' = [loop EXCEPT !.pc = "boot",
                            !.list = {[win |-> w, name |-> tag[w]] :
                                        w \in {u \in Wins : window[u] = "live"}}]
    /\ UNCHANGED <<acmeVars, fmVars, watch, notify, resync, remote, serverVars>>

BootNext ==
    /\ loop.pc = "boot"
    /\ \E f \in loop.list :
          loop' = [loop EXCEPT !.pc = "open", !.win = f.win, !.name = f.name, !.list = @ \ {f}]
    /\ UNCHANGED <<acmeVars, fmVars, watch, notify, resync, remote, serverVars>>

OpenLog ==
    /\ loop.pc = "boot" /\ loop.list = {}
    /\ loop' = Idle
    /\ logging' = TRUE
    /\ UNCHANGED <<window, tag, body, dirty, alog, used, fmVars, watch, notify, resync, remote, serverVars>>

Handler(op) == CASE op = "new" -> "open" [] op = "del" -> "close"
                 [] op = "get" -> "change" [] op = "put" -> "save"

ReadEvent ==
    /\ loop.pc = "read" /\ alog # <<>>
    /\ alog' = Tail(alog)
    /\ LET ev == Head(alog)
       IN  loop' = [loop EXCEPT !.pc = Handler(ev.op), !.win = ev.win, !.name = ev.name]
    /\ UNCHANGED <<window, tag, body, dirty, logging, used, fmVars, watch, notify, resync, remote, serverVars>>

\* withClient: nothing to do for a name without a server; OpenWin fails once
\* the window is gone.
DidOpenWin ==
    /\ loop.pc = "open"
    /\ \/ loop.name \notin Served /\ Goto("openWatch")
       \/ loop.name \in Served /\ window[loop.win] = "live" /\ Goto("openLock")
       \/ loop.name \in Served /\ window[loop.win] # "live" /\ Done(FALSE)
    /\ UNCHANGED <<acmeVars, fmVars, watch, notify, resync, remote, serverVars>>

\* What if: a file that is tracked already is not refused.
DidOpenLockAgain ==
    /\ loop.pc = "openLock"
    /\ mu = "free"
    /\ docStates' = [docStates EXCEPT ![loop.name] = loop.win]
    /\ \/ /\ window[loop.win] = "live"
          /\ mu' = "loop"
          /\ loop' = [loop EXCEPT !.pc = "openSend", !.text = body[loop.win]]
       \/ window[loop.win] # "live" /\ Done(FALSE) /\ UNCHANGED mu
    /\ UNCHANGED <<acmeVars, version, watchers, closed, watch, notify, resync, remote, serverVars>>

\* The docState is stored before the body is read: when the window is gone by
\* then the file stays tracked although it is never opened on the server.
DidOpenLock ==
    /\ loop.pc = "openLock"
    /\ mu = "free"
    /\ \/ /\ docStates[loop.name] # NoWin
          /\ Done(FALSE)
          /\ UNCHANGED <<docStates, mu>>
       \/ /\ docStates[loop.name] = NoWin
          /\ docStates' = [docStates EXCEPT ![loop.name] = loop.win]
          /\ \/ /\ window[loop.win] = "live"
                /\ mu' = "loop"
                /\ loop' = [loop EXCEPT !.pc = "openSend", !.text = body[loop.win]]
             \/ window[loop.win] # "live" /\ Done(FALSE) /\ UNCHANGED mu
    /\ UNCHANGED <<acmeVars, version, watchers, closed, watch, notify, resync, remote, serverVars>>

\* Sending to a dead process may or may not return an error.
DidOpenSend ==
    /\ loop.pc = "openSend"
    /\ ServerOpen(loop.name, loop.text)
    /\ Unlock
    /\ \/ Goto("openWatch")
       \/ ~serverUp /\ Done(FALSE)
    /\ UNCHANGED <<acmeVars, docStates, version, watchers, closed, watch, notify, resync, remote, serverUp>>

\* What if: the stop channel is not kept.
DidOpenWatchUnkept ==
    /\ loop.pc = "openWatch"
    /\ watch' = IF Highlighting
                THEN [watch EXCEPT ![loop.win] =
                         [pc |-> "run", name |-> loop.name, last |-> NoText]]
                ELSE watch
    /\ Done(TRUE)
    /\ UNCHANGED <<acmeVars, fmVars, notify, resync, remote, serverVars>>

DidOpenWatch ==
    /\ loop.pc = "openWatch"
    /\ \/ ~Highlighting /\ UNCHANGED <<watchers, watch>>
       \/ /\ Highlighting /\ mu = "free"
          /\ watchers' = [watchers EXCEPT ![loop.name] = loop.win]
          /\ watch' = [watch EXCEPT ![loop.win] =
                          [pc |-> "run", name |-> loop.name, last |-> NoText]]
    /\ Done(TRUE)
    /\ UNCHANGED <<acmeVars, docStates, version, closed, mu, notify, resync, remote, serverVars>>

\* What if: the server is not told.
DidCloseUnsent ==
    /\ loop.pc = "close"
    /\ mu = "free"
    /\ closed' = closed \cup ({watchers[loop.name]} \ {NoWin})
    /\ watchers' = [watchers EXCEPT ![loop.name] = NoWin]
    /\ docStates' = [docStates EXCEPT ![loop.name] = NoWin]
    /\ Done(TRUE)
    /\ UNCHANGED <<acmeVars, version, mu, watch, notify, resync, remote, serverVars>>

\* What if: the stop channel is closed but not deleted.
DidCloseUnstopped ==
    /\ loop.pc = "close"
    /\ mu = "free"
    /\ closed' = closed \cup ({watchers[loop.name]} \ {NoWin})
    /\ docStates' = [docStates EXCEPT ![loop.name] = NoWin]
    /\ IF docStates[loop.name] # NoWin THEN Goto("closeSend") ELSE Done(TRUE)
    /\ UNCHANGED <<acmeVars, watchers, version, mu, watch, notify, resync, remote, serverVars>>

DidClose ==
    /\ loop.pc = "close"
    /\ mu = "free"
    /\ closed' = closed \cup ({watchers[loop.name]} \ {NoWin})
    /\ watchers' = [watchers EXCEPT ![loop.name] = NoWin]
    /\ docStates' = [docStates EXCEPT ![loop.name] = NoWin]
    /\ IF docStates[loop.name] # NoWin THEN Goto("closeSend") ELSE Done(TRUE)
    /\ UNCHANGED <<acmeVars, version, mu, watch, notify, resync, remote, serverVars>>

DidCloseSend ==
    /\ loop.pc = "closeSend"
    /\ ServerClose(loop.name)
    /\ Done(TRUE)
    /\ UNCHANGED <<acmeVars, fmVars, watch, notify, resync, remote, serverUp>>

-----------------------------------------------------------------------------
(* didChange ("get") keeps fm.mu from the lookup to the end of the send;   *)
(* didSave ("put") only for the lookup.                                    *)

\* What if: the version is not incremented.
NextVersionSame(d) == version' = version

NextVersion(d) == version' = [version EXCEPT ![d] = @ + 1]

\* What if: no check that the file is tracked.
DidChangeReadUntracked ==
    /\ loop.pc = "change"
    /\ mu = "free"
    /\ \/ /\ window[loop.win] = "live"
          /\ mu' = "loop"
          /\ loop' = [loop EXCEPT !.pc = "changeAlloc", !.doc = docStates[loop.name],
                                  !.text = body[loop.win]]
       \/ window[loop.win] # "live" /\ Done(TRUE) /\ UNCHANGED mu
    /\ UNCHANGED <<acmeVars, docStates, version, watchers, closed, watch, notify, resync, remote, serverVars>>

DidChangeRead ==
    /\ loop.pc = "change"
    /\ mu = "free"
    /\ \/ /\ docStates[loop.name] # NoWin /\ window[loop.win] = "live"
          /\ mu' = "loop"
          /\ loop' = [loop EXCEPT !.pc = "changeAlloc", !.doc = docStates[loop.name],
                                  !.text = body[loop.win]]
       \/ /\ docStates[loop.name] = NoWin \/ window[loop.win] # "live"
          /\ Done(TRUE) /\ UNCHANGED mu
    /\ UNCHANGED <<acmeVars, docStates, version, watchers, closed, watch, notify, resync, remote, serverVars>>

DidChangeAlloc ==
    /\ loop.pc = "changeAlloc"
    /\ NextVersion(loop.doc)
    /\ loop' = [loop EXCEPT !.pc = "changeSend", !.ver = version'[loop.doc]]
    /\ UNCHANGED <<acmeVars, docStates, watchers, closed, mu, watch, notify, resync, remote, serverVars>>

DidChangeSend ==
    /\ loop.pc = "changeSend"
    /\ ServerChange(loop.name, loop.ver, loop.text)
    /\ Unlock /\ Done(TRUE)
    /\ UNCHANGED <<acmeVars, docStates, version, watchers, closed, watch, notify, resync, remote, serverUp>>

\* After didSave, whatever came of it, runOnce formats the file if asked to.
SaveReturns == IF FormatOnPut THEN Goto("format") ELSE Done(TRUE)

DidSaveLookup ==
    /\ loop.pc = "save"
    /\ mu = "free"
    /\ \/ /\ docStates[loop.name] # NoWin
          /\ loop' = [loop EXCEPT !.pc = "saveRead", !.doc = docStates[loop.name]]
       \/ docStates[loop.name] = NoWin /\ SaveReturns
    /\ UNCHANGED <<acmeVars, fmVars, watch, notify, resync, remote, serverVars>>

DidSaveRead ==
    /\ loop.pc = "saveRead"
    /\ \/ /\ window[loop.win] = "live"
          /\ loop' = [loop EXCEPT !.pc = "saveAlloc", !.text = body[loop.win]]
       \/ window[loop.win] # "live" /\ SaveReturns
    /\ UNCHANGED <<acmeVars, fmVars, watch, notify, resync, remote, serverVars>>

DidSaveAlloc ==
    /\ loop.pc = "saveAlloc"
    /\ NextVersion(loop.doc)
    /\ loop' = [loop EXCEPT !.pc = "saveSend", !.ver = version'[loop.doc]]
    /\ UNCHANGED <<acmeVars, docStates, watchers, closed, mu, watch, notify, resync, remote, serverVars>>

\* What if: the server is told of the save but not sent the text.
DidSaveSendNothing ==
    /\ loop.pc = "saveSend"
    /\ Goto("saveDone")
    /\ UNCHANGED <<acmeVars, fmVars, watch, notify, resync, remote, serverVars>>

DidSaveSend ==
    /\ loop.pc = "saveSend"
    /\ ServerChange(loop.name, loop.ver, loop.text)
    /\ \/ Goto("saveDone")
       \/ ~serverUp /\ SaveReturns
    /\ UNCHANGED <<acmeVars, fmVars, watch, notify, resync, remote, serverUp>>

DidSave ==
    /\ loop.pc = "saveDone"
    /\ ServerSave(loop.name)
    /\ SaveReturns
    /\ UNCHANGED <<acmeVars, fmVars, watch, notify, resync, remote, serverUp>>

-----------------------------------------------------------------------------
(* format holds fm.mu while CodeActionAndFormat talks to the server.       *)

FormatLock ==
    /\ loop.pc = "format"
    /\ mu = "free"
    /\ \/ docStates[loop.name] # NoWin /\ mu' = "loop" /\ Goto("formatWin")
       \/ docStates[loop.name] = NoWin /\ Done(TRUE) /\ UNCHANGED mu
    /\ UNCHANGED <<acmeVars, docStates, version, watchers, closed, watch, notify, resync, remote, serverVars>>

\* The server may have code actions, whose edits go to windows; then the text
\* of this one goes back with a didChange that carries no version (zero).  An
\* error ends format at any point.
FormatActions ==
    /\ loop.pc = "formatWin"
    /\ IF window[loop.win] = "live" THEN Wake ELSE UNCHANGED noticed
    /\ \/ UNCHANGED <<body, dirty, used>>
       \/ /\ window[loop.win] = "live" /\ serverUp
          /\ \E w \in Wins :
                window[w] = "live" /\ EditBody(w) /\ dirty' = dirty \cup {w}
    /\ \/ Unlock /\ Done(TRUE)
       \/ /\ window[loop.win] = "live" /\ serverUp
          /\ \/ body' = body /\ Goto("formatEdit")
             \/ loop' = [loop EXCEPT !.pc = "formatChange", !.text = body'[loop.win]]
          /\ UNCHANGED mu
    /\ UNCHANGED <<window, tag, alog, logging, docStates, version, watchers, closed, watch, notify, resync, remote, serverUp, server, breaches>>

FormatChange ==
    /\ loop.pc = "formatChange"
    /\ ServerChange(loop.name, 0, loop.text)
    /\ Goto("formatEdit")
    /\ UNCHANGED <<acmeVars, fmVars, watch, notify, resync, remote, serverUp>>

\* What if: the lock is not released on return.
FormatEditLocked ==
    /\ loop.pc = "formatEdit"
    /\ UNCHANGED <<body, dirty, used>>
    /\ Done(TRUE)
    /\ UNCHANGED <<window, tag, alog, logging, fmVars, watch, notify, resync, remote, serverVars>>

\* The formatting edits, if any, go to the window and to nobody else.
FormatEdit ==
    /\ loop.pc = "formatEdit"
    /\ \/ UNCHANGED <<body, dirty, used>>
       \/ /\ window[loop.win] = "live" /\ serverUp
          /\ EditBody(loop.win)
          /\ dirty' = dirty \cup {loop.win}
    /\ Unlock /\ Done(TRUE)
    /\ Wake
    /\ UNCHANGED <<window, tag, alog, logging, docStates, version, watchers, closed, watch, notify, resync, remote, serverUp, server, breaches>>

Loop ==
    \/ ListWindows \/ BootNext \/ OpenLog \/ ReadEvent
    \/ DidOpenWin \/ DidOpenLock \/ DidOpenSend \/ DidOpenWatch
    \/ DidClose \/ DidCloseSend
    \/ DidChangeRead \/ DidChangeAlloc \/ DidChangeSend
    \/ DidSaveLookup \/ DidSaveRead \/ DidSaveAlloc \/ DidSaveSend \/ DidSave
    \/ FormatLock \/ FormatActions \/ FormatChange \/ FormatEdit

-----------------------------------------------------------------------------
(* watchBody and the goroutines it starts.                                 *)

\* Each new text gets a goroutine of its own.  A closed stop channel and a
\* tick may both be ready, and select then takes either.
WatchTick(w) ==
    /\ watch[w].pc = "run"
    /\ window[w] = "live" /\ body[w] # watch[w].last
    /\ watch' = [watch EXCEPT ![w].last = body[w]]
    /\ \E i \in Notifiers :
          /\ notify[i].pc = "idle"
          /\ notify' = [notify EXCEPT ![i] = [IdleNotify EXCEPT
                          !.pc = "lookup", !.name = watch[w].name, !.text = body[w]]]
    /\ UNCHANGED <<acmeVars, fmVars, loop, resync, remote, serverVars>>

WatchStop(w) ==
    /\ watch[w].pc = "run"
    /\ w \in closed \/ window[w] # "live"
    /\ watch' = [watch EXCEPT ![w].pc = "done"]
    /\ UNCHANGED <<acmeVars, fmVars, loop, notify, resync, remote, serverVars>>

NotifyLookup(i) ==
    /\ notify[i].pc = "lookup"
    /\ mu = "free"
    /\ LET d == docStates[notify[i].name]
       IN  notify' = [notify EXCEPT ![i] = IF d = NoWin THEN IdleNotify
                                           ELSE [@ EXCEPT !.pc = "alloc", !.doc = d]]
    /\ UNCHANGED <<acmeVars, fmVars, loop, watch, resync, remote, serverVars>>

NotifyAlloc(i) ==
    /\ notify[i].pc = "alloc"
    /\ NextVersion(notify[i].doc)
    /\ notify' = [notify EXCEPT ![i].pc = "send", ![i].ver = version'[notify[i].doc]]
    /\ UNCHANGED <<acmeVars, docStates, watchers, closed, mu, loop, watch, resync, remote, serverVars>>

NotifySend(i) ==
    /\ notify[i].pc = "send"
    /\ ServerChange(notify[i].name, notify[i].ver, notify[i].text)
    /\ notify' = [notify EXCEPT ![i] = IdleNotify]
    /\ UNCHANGED <<acmeVars, fmVars, loop, watch, resync, remote, serverUp>>

Watcher(w) == WatchTick(w) \/ WatchStop(w)
Notifier(i) == NotifyLookup(i) \/ NotifyAlloc(i) \/ NotifySend(i)

-----------------------------------------------------------------------------
(* A client of the proxy: L reads the body of its window and has the proxy *)
(* forward it with version zero.                                           *)

RemoteRead(w) ==
    /\ remote.pc = "idle"
    /\ logging
    /\ window[w] = "live" /\ tag[w] \in Served
    /\ used.remotes < MaxRemotes
    /\ used' = [used EXCEPT !.remotes = @ + 1]
    /\ remote' = [pc |-> "send", name |-> tag[w], text |-> body[w]]
    /\ UNCHANGED <<window, tag, body, dirty, alog, logging, fmVars, loop, watch, notify, resync, serverVars>>

RemoteSend ==
    /\ remote.pc = "send"
    /\ LET n == remote.name
           overtaken == \E w \in Wins :
                           window[w] = "live" /\ tag[w] = n /\ body[w] # remote.text
       IN  Receive(n, [server[n] EXCEPT !.ver = 0, !.text = remote.text, !.late = overtaken])
    /\ remote' = IdleRemote
    /\ UNCHANGED <<acmeVars, fmVars, loop, watch, notify, resync, serverUp>>

\* Any other request of a client, which changes no document.
Request ==
    /\ logging /\ ~serverUp
    /\ Wake
    /\ UNCHANGED <<acmeVars, fmVars, loop, watch, notify, resync, remote, serverUp, server, breaches>>

Remote == (\E w \in Wins : RemoteRead(w)) \/ RemoteSend \/ Request

-----------------------------------------------------------------------------
(* The server process exits; the restart goroutine starts another one, and *)
(* a goroutine of its own initialises the client and calls ResyncFiles.    *)

ServerExit ==
    /\ serverUp /\ used.crashes < MaxCrashes
    /\ used' = [used EXCEPT !.crashes = @ + 1]
    /\ serverUp' = FALSE
    /\ noticed' = FALSE
    /\ server' = [n \in Names |-> NotOpen]
    /\ resync' = [resync EXCEPT ![used.crashes + 1] = [IdleResync EXCEPT !.pc = "init"]]
    /\ UNCHANGED <<window, tag, body, dirty, alog, logging, fmVars, loop, watch, notify, remote, breaches>>

\* What if: a restarted client does not call the resyncer.
ResyncInitOnly(r) ==
    /\ resync[r].pc = "init" /\ noticed
    /\ serverUp' = TRUE
    /\ resync' = [resync EXCEPT ![r].pc = "done"]
    /\ UNCHANGED <<acmeVars, fmVars, loop, watch, notify, remote, noticed, server, breaches>>

ResyncInit(r) ==
    /\ resync[r].pc = "init" /\ noticed
    /\ serverUp' = TRUE
    /\ resync' = [resync EXCEPT ![r].pc = "list"]
    /\ UNCHANGED <<acmeVars, fmVars, loop, watch, notify, remote, noticed, server, breaches>>

ResyncList(r) ==
    /\ resync[r].pc = "list"
    /\ resync' = [resync EXCEPT ![r].pc = "snapshot",
                                ![r].todo = {[win |-> w, name |-> tag[w]] :
                                               w \in {u \in Wins : window[u] = "live"}}]
    /\ UNCHANGED <<acmeVars, fmVars, loop, watch, notify, remote, serverVars>>

\* One window for each tracked name that some listed window has.
ResyncSnapshot(r) ==
    /\ resync[r].pc = "snapshot"
    /\ mu = "free"
    /\ \E todo \in SUBSET {f \in resync[r].todo : docStates[f.name] # NoWin} :
          /\ \A f \in resync[r].todo : docStates[f.name] # NoWin =>
                \E g \in todo : g.name = f.name
          /\ \A f, g \in todo : f.name = g.name => f = g
          /\ resync' = [resync EXCEPT ![r].pc = "next", ![r].todo = todo]
    /\ UNCHANGED <<acmeVars, fmVars, loop, watch, notify, remote, serverVars>>

ResyncDone(r) ==
    /\ resync[r].pc = "next" /\ resync[r].todo = {}
    /\ resync' = [resync EXCEPT ![r] = [IdleResync EXCEPT !.pc = "done"]]
    /\ UNCHANGED <<acmeVars, fmVars, loop, watch, notify, remote, serverVars>>

ReopenWin(r) ==
    /\ resync[r].pc = "next"
    /\ \E f \in resync[r].todo :
          resync' = [resync EXCEPT ![r].pc = IF window[f.win] = "live" THEN "reset" ELSE "next",
                                   ![r].win = f.win, ![r].name = f.name, ![r].todo = @ \ {f}]
    /\ UNCHANGED <<acmeVars, fmVars, loop, watch, notify, remote, serverVars>>

\* What if: a file closed since the snapshot gets a new docState.
ReopenResetCreates(r) ==
    /\ resync[r].pc = "reset"
    /\ mu = "free"
    /\ docStates' = [docStates EXCEPT ![resync[r].name] = resync[r].win]
    /\ version' = [version EXCEPT ![resync[r].win] = 0]
    /\ resync' = [resync EXCEPT ![r].pc = "readAll"]
    /\ UNCHANGED <<acmeVars, watchers, closed, mu, loop, watch, notify, remote, serverVars>>

\* docState.reset.  The lock is released before the body is read and sent.
ReopenReset(r) ==
    /\ resync[r].pc = "reset"
    /\ mu = "free"
    /\ LET d == docStates[resync[r].name]
       IN  IF d = NoWin
           THEN resync' = [resync EXCEPT ![r].pc = "next"] /\ UNCHANGED version
           ELSE /\ version' = [version EXCEPT ![d] = 0]
                /\ resync' = [resync EXCEPT ![r].pc = "readAll"]
    /\ UNCHANGED <<acmeVars, docStates, watchers, closed, mu, loop, watch, notify, remote, serverVars>>

\* What if: an error ends ResyncFiles instead of its turn for one file.
ReopenReadAborts(r) ==
    /\ resync[r].pc = "readAll"
    /\ \/ /\ window[resync[r].win] = "live"
          /\ resync' = [resync EXCEPT ![r].pc = "send", ![r].text = body[resync[r].win]]
       \/ /\ window[resync[r].win] # "live"
          /\ resync' = [resync EXCEPT ![r].pc = "next", ![r].todo = {}]
    /\ UNCHANGED <<acmeVars, fmVars, loop, watch, notify, remote, serverVars>>

ReopenRead(r) ==
    /\ resync[r].pc = "readAll"
    /\ \/ /\ window[resync[r].win] = "live"
          /\ resync' = [resync EXCEPT ![r].pc = "send", ![r].text = body[resync[r].win]]
       \/ /\ window[resync[r].win] # "live"
          /\ resync' = [resync EXCEPT ![r].pc = "next"]
    /\ UNCHANGED <<acmeVars, fmVars, loop, watch, notify, remote, serverVars>>

ReopenSend(r) ==
    /\ resync[r].pc = "send"
    /\ ServerOpen(resync[r].name, resync[r].text)
    /\ resync' = [resync EXCEPT ![r].pc = "next"]
    /\ UNCHANGED <<acmeVars, fmVars, loop, watch, notify, remote, serverUp>>

Resync(r) ==
    \/ ResyncInit(r) \/ ResyncList(r) \/ ResyncSnapshot(r) \/ ResyncDone(r)
    \/ ReopenWin(r) \/ ReopenReset(r) \/ ReopenRead(r) \/ ReopenSend(r)

-----------------------------------------------------------------------------
Next ==
    \/ User \/ Loop \/ Remote \/ ServerExit
    \/ \E w \in Wins : Watcher(w)
    \/ \E i \in Notifiers : Notifier(i)
    \/ \E r \in Resyncers : Resync(r)

\* Every goroutine that can go on does (the Go scheduler); fm.mu is a
\* sync.Mutex, which starves no waiter.  The user and the server's exits are
\* not fair.
Fairness ==
    /\ SF_vars(Loop) /\ WF_vars(RemoteSend)
    /\ \A w \in Wins : WF_vars(Watcher(w))
    /\ \A i \in Notifiers : SF_vars(Notifier(i))
    /\ \A r \in Resyncers : SF_vars(Resync(r))

Spec == Init /\ [][Next]_vars
FairSpec == Spec /\ Fairness

-----------------------------------------------------------------------------
(* Properties.                                                             *)

\* Every variable has its type.
AcmeTypeOK ==
    /\ window \in [Wins -> {"unborn", "live", "gone"}]
    /\ tag \in [Wins -> Names]
    /\ body \in [Wins -> Texts]
    /\ dirty \subseteq Wins
    /\ alog \in Seq(Events)
    /\ logging \in BOOLEAN
    /\ used \in Budgets

ManagerTypeOK ==
    /\ docStates \in [Names -> Wins \cup {NoWin}]
    /\ version \in [Wins -> Nat]
    /\ watchers \in [Names -> Wins \cup {NoWin}]
    /\ closed \subseteq Wins
    /\ mu \in {"free", "loop"}

\* A register has been set where it is used.
LoopTypeOK ==
    /\ loop \in Loops
    /\ loop.pc \notin {"list", "boot", "exited", "read"} => loop.win \in Wins
    /\ loop.pc \in {"changeAlloc", "changeSend", "saveRead", "saveAlloc", "saveSend"} =>
          loop.doc \in Wins

ThreadTypeOK ==
    /\ watch \in [Wins -> Watches]
    /\ notify \in [Notifiers -> Notifies]
    /\ \A i \in Notifiers : notify[i].pc \in {"alloc", "send"} => notify[i].doc \in Wins
    /\ resync \in [Resyncers -> Resyncs]
    /\ \A r \in Resyncers : resync[r].pc \in {"reset", "readAll", "send"} => resync[r].win \in Wins
    /\ remote \in Remotes

ServerTypeOK ==
    /\ serverUp \in BOOLEAN
    /\ noticed \in BOOLEAN
    /\ server \in [Names -> Documents]
    /\ breaches \subseteq Breaches

TypeOK == AcmeTypeOK /\ ManagerTypeOK /\ LoopTypeOK /\ ThreadTypeOK /\ ServerTypeOK

\* close(stop) of a channel that is closed already panics (files.go:436): no
\* stop channel in the map is closed, and no two names share one.
StopChannelsClosedOnce ==
    \A n \in Names : watchers[n] # NoWin =>
        /\ watchers[n] \notin closed
        /\ \A m \in Names : watchers[m] = watchers[n] => m = n

\* docState.nextVersion gives each version out once: two messages of the same
\* document that are waiting to be sent never carry the same version, and
\* none carries one that the document will still give out.
LoopWaits == loop.pc \in {"changeSend", "saveSend"}
NotifyWaits(i) == notify[i].pc = "send"

VersionsGivenOnce ==
    /\ LoopWaits => loop.ver \in 1..version[loop.doc]
    /\ \A i \in Notifiers : NotifyWaits(i) =>
          /\ notify[i].ver \in 1..version[notify[i].doc]
          /\ LoopWaits /\ loop.doc = notify[i].doc => loop.ver # notify[i].ver
          /\ \A j \in Notifiers : i # j /\ NotifyWaits(j) /\ notify[i].doc = notify[j].doc =>
                notify[i].ver # notify[j].ver

\* No document is left open on the server: one that is open is tracked, or
\* its didClose is about to be sent.
OpenIsTracked ==
    \A n \in Names : server[n].open =>
        \/ docStates[n] # NoWin
        \/ loop.pc = "closeSend" /\ loop.name = n

\* The FileManager has caught up with acme and the server.
Quiet ==
    /\ loop.pc = "read" /\ alog = <<>>
    /\ serverUp /\ remote.pc = "idle"
    /\ \A i \in Notifiers : notify[i].pc = "idle"
    /\ \A r \in Resyncers : resync[r].pc \in {"none", "done"}

\* Once it has caught up, the FileManager tracks exactly the files that are
\* open in acme and have a server.
OpenFilesTracked ==
    Quiet => \A n \in Served, w \in Wins :
        docStates[n] = w <=> window[w] = "live" /\ tag[w] = n

\* Once it has caught up, every tracked file of a live window is open on the
\* server, whether or not the server has been restarted.
TrackedIsOpen ==
    Quiet => \A n \in Served : docStates[n] # NoWin /\ window[docStates[n]] = "live" =>
        server[n].open

\* Once it has caught up, the server has the text of every window that was
\* put or read and not edited since.  A lenient server may have one of L
\* instead, if that was sent after the window had moved on (remote.go:62).
CleanTextInSync ==
    Quiet => \A w \in Wins :
        window[w] = "live" /\ tag[w] \in Served /\ w \notin dirty =>
            /\ server[tag[w]].own = body[w]
            /\ server[tag[w]].text = body[w] \/ server[tag[w]].late

\* With highlighting, a tracked file of a live window has a watcher running,
\* and the watcher's stop channel is the one didClose will find.
TrackedIsWatched ==
    Highlighting /\ Quiet => \A n \in Served :
        docStates[n] # NoWin /\ window[docStates[n]] = "live" =>
            watchers[n] = docStates[n] /\ watch[docStates[n]].pc = "run"

\* Each didChange has a version above the last one (files.go:39).
VersionsIncrease == "stale" \notin breaches

\* No document is opened a second time while it is open: what acme does with
\* window names never makes the FileManager send a redundant didOpen.
OpenedOnce == "reopened" \notin breaches

\* Document synchronisation implements TextMirror: every copy is a text that
\* its file had, the FileManager's never take it back to an older one of
\* theirs, whatever L and format put between them, and L's is the one it read.
Mirror == INSTANCE TextMirror WITH
    clock <- used.texts,
    copy <- [n \in Names |-> IF server[n].open THEN server[n].text ELSE -1],
    own <- [n \in Names |-> IF server[n].open THEN server[n].own ELSE -1],
    taken <- [n \in Names |-> IF remote.pc = "send" /\ remote.name = n THEN remote.text ELSE -1]
MirrorSpec == Mirror!Spec

\* A file whose window is gone is in the end closed on the server.
GoneIsClosed ==
    \A w \in Wins, n \in Names :
        (docStates[n] = w /\ window[w] = "gone") ~> ~server[n].open

\* A tracked file is in the end open on the server, whenever the server exits,
\* unless its window goes away or the file is closed, and provided that the
\* exit has been noticed.
TrackedOpensInTheEnd ==
    \A w \in Wins, n \in Served :
        (docStates[n] = w /\ (serverUp \/ noticed))
            ~> (server[n].open \/ docStates[n] # w \/ window[w] = "gone" \/ ~(serverUp \/ noticed))
=============================================================================
