------------------------------ MODULE Servers ------------------------------
(***************************************************************************)
(* The server set (internal/lsp/acmelsp/exec.go) and the start, the end    *)
(* and the restart of a language server's process, with Client.init of     *)
(* client.go.                                                              *)
(*                                                                         *)
(* Users are the goroutines that ask the set for a server: the event loop, *)
(* the watchers, the connections of the proxy and of the 9P service.       *)
(*                                                                         *)
(* A process is the program together with the pipe that execServer made    *)
(* for it and with the call of Client.init that was started for it; they   *)
(* are numbered as they start.  A Server object of the code is named after *)
(* its first process.  os/exec copies what is written to the pipe to the   *)
(* program; cmd.Wait returns when the program has ended and the copying    *)
(* too, which happens when a write fails (told) or the pipe is closed.     *)
(***************************************************************************)
EXTENDS Integers, FiniteSets

CONSTANTS
    Users,
    LastServer,      \* ServerSet.Data has the servers 1..LastServer
    Folders,         \* workspace folders
    Asked,           \* bound: the servers that requests are for (changes of folders go to all)
    MaxProcs,        \* bound: processes started
    MaxExits,        \* bound: exits of a process
    MaxRefusals,     \* bound: initialize requests answered with an error
    MaxFailures,     \* bound: commands that cannot be started
    MaxChanges,      \* bound: changes of the workspace folders
    MaxTroubles      \* bound: of all of these together, and a first overlap of requests

ASSUME ServersAssumption ==
    /\ LastServer \in Nat \ {0} /\ Asked \subseteq 1..LastServer
    /\ {MaxProcs, MaxExits, MaxRefusals, MaxFailures, MaxChanges, MaxTroubles} \subseteq Nat

VARIABLES
    user,        \* a user's request
    info,        \* ServerInfo.srv
    workspaces,  \* ServerSet.workspaces
    object,      \* Server, its Client, and the goroutine that restarts it
    init,        \* a process's Client.init
    proc,        \* the process
    panicked,    \* a goroutine has panicked, which ends the program
    overlapped,  \* history: two requests were served at once
    early,       \* history: a process has exited before it was initialised
    exits, refusals, failures, changes

bounds == <<early, exits, refusals, failures, changes>>
vars == <<user, info, workspaces, object, init, proc, panicked, overlapped, bounds>>

-----------------------------------------------------------------------------
Servers == 1..LastServer
Procs == 1..MaxProcs
None == 0

\* cmd stands for the variables cmd and p1 of execServer and for srv.conn.
Objects == [server : Servers, cmd : Procs \cup {None}, restarter : {"wait", "start", "stopped"},
            client : BOOLEAN, rpc : Procs \cup {None}, stub : Procs \cup {None},
            folders : SUBSET Folders]
NoObject == [server |-> None]

\* The process has been asked to initialise so many times; ready: it has been
\* told initialized.
Processes == [object : Procs, up : BOOLEAN, told : BOOLEAN, open : BOOLEAN,
              asked : Nat, ready : BOOLEAN, folders : SUBSET Folders]
NoProcess == [object |-> None, up |-> FALSE]

\* conn is what c.rpc was made of, pending where the request went.
Inits == [pc : {"none", "conn", "call", "pending", "notify", "store", "fail", "done"},
          conn : Procs \cup {None}, pending : Procs \cup {None}]
NoInit == [pc |-> "none", conn |-> None, pending |-> None]

Idle == [pc |-> "idle", op |-> "send", server |-> 1, object |-> None,
         folders |-> {}, added |-> {}, removed |-> {}]
Requests == [pc : {"idle", "exec", "init", "send"}, op : {"send", "folders"}, server : Servers,
             object : Procs \cup {None}, folders : SUBSET Folders,
             added : SUBSET Folders, removed : SUBSET Folders]

Init ==
    /\ user = [u \in Users |-> Idle]
    /\ info = [s \in Servers |-> None]
    /\ workspaces \in SUBSET Folders
    /\ object = [p \in Procs |-> NoObject]
    /\ init = [p \in Procs |-> NoInit]
    /\ proc = [p \in Procs |-> NoProcess]
    /\ panicked = FALSE /\ overlapped = FALSE /\ early = FALSE
    /\ exits = 0 /\ refusals = 0 /\ failures = 0 /\ changes = 0

Started == {p \in Procs : proc[p] # NoProcess}
Busy == \E u \in Users : user[u].pc # "idle"

Room == exits + refusals + failures + changes + (IF overlapped THEN 1 ELSE 0) < MaxTroubles

-----------------------------------------------------------------------------
(* ServerInfo.start: the check and the start are two steps.                *)

\* What if: a server is not told the folders when it starts.
CheckNoFolders(r, s) ==
    [r EXCEPT !.server = s, !.object = info[s],
              !.pc = IF info[s] # None THEN "send" ELSE "exec"]

\* What if: the server that runs is not looked for.
CheckNothing(r, s) ==
    [r EXCEPT !.server = s, !.folders = workspaces, !.pc = "exec"]

\* A request goes on with server s: ClientConfig reads the folders first.
Check(r, s) ==
    [r EXCEPT !.server = s, !.object = info[s], !.folders = workspaces,
              !.pc = IF info[s] # None THEN "send" ELSE "exec"]

Request(u) ==
    /\ user[u].pc = "idle" /\ (Busy => overlapped \/ Room)
    /\ \E s \in Asked : user' = [user EXCEPT ![u] = Check(Idle, s)]
    /\ overlapped' = (overlapped \/ Busy)
    /\ UNCHANGED <<info, workspaces, object, init, proc, panicked, bounds>>

ChangeFolders(u) ==
    /\ user[u].pc = "idle" /\ changes < MaxChanges /\ Room /\ (Busy => overlapped)
    /\ changes' = changes + 1
    /\ \E added, removed \in SUBSET Folders :
          /\ added \cap removed = {} /\ added \cup removed # {}
          /\ user' = [user EXCEPT ![u] =
                Check([Idle EXCEPT !.op = "folders", !.added = added, !.removed = removed], 1)]
    /\ overlapped' = (overlapped \/ Busy)
    /\ UNCHANGED <<info, workspaces, object, init, proc, panicked, early, exits, refusals, failures>>

NewProcess(p, o) ==
    proc' = [proc EXCEPT ![p] = [object |-> o, up |-> TRUE, told |-> FALSE, open |-> TRUE,
                                 asked |-> 0, ready |-> FALSE, folders |-> {}]]

Exec(u) ==
    /\ user[u].pc = "exec"
    /\ \E p \in Procs :
          /\ Started = 1..(p - 1)
          /\ NewProcess(p, p)
          /\ object' = [object EXCEPT ![p] =
                [server |-> user[u].server, cmd |-> p, restarter |-> "wait", client |-> FALSE,
                 rpc |-> None, stub |-> None, folders |-> user[u].folders]]
          /\ init' = [init EXCEPT ![p].pc = "conn"]
          /\ user' = [user EXCEPT ![u].pc = "init", ![u].object = p]
    /\ UNCHANGED <<info, workspaces, panicked, overlapped, bounds>>

ExecFails(u) ==
    /\ user[u].pc = "exec" /\ failures < MaxFailures /\ Room
    /\ failures' = failures + 1
    /\ user' = [user EXCEPT ![u] = Idle]
    /\ UNCHANGED <<info, workspaces, object, init, proc, panicked, overlapped, early, exits, refusals, changes>>

-----------------------------------------------------------------------------
(* Using a server.  A write to a pipe whose copying has ended waits until  *)
(* the pipe is closed.                                                     *)

CanWrite(k) == proc[k].open => proc[k].up \/ ~proc[k].told

\* The process as a write of what f does to it leaves it.
Written(p, f(_)) == IF p.up THEN f(p) ELSE [p EXCEPT !.told = TRUE]

AddFolders(r, p) == [p EXCEPT !.folders = (@ \cup r.added) \ r.removed]

\* An error ends a change of the folders: the servers that follow are not
\* told, and the set keeps its folders.
Send(u) ==
    LET r == user[u]
        k == object[r.object].stub
    IN  /\ r.pc = "send" /\ CanWrite(k)
        /\ IF ~proc[k].open
           THEN user' = [user EXCEPT ![u] = Idle] /\ UNCHANGED <<workspaces, proc>>
           ELSE LET change(p) == AddFolders(r, p)
                IN  /\ proc' = [proc EXCEPT ![k] = Written(@, change)]
                    /\ \/ /\ r.op = "folders" /\ r.server < LastServer
                          /\ user' = [user EXCEPT ![u] = Check(r, r.server + 1)]
                          /\ UNCHANGED workspaces
                       \/ /\ r.op = "folders" /\ r.server = LastServer
                          /\ user' = [user EXCEPT ![u] = Idle]
                          /\ workspaces' = (workspaces \cup r.added) \ r.removed
                       \/ /\ r.op = "send"
                          /\ user' = [user EXCEPT ![u] = Idle]
                          /\ UNCHANGED workspaces
    /\ UNCHANGED <<info, object, init, panicked, overlapped, bounds>>

-----------------------------------------------------------------------------
(* The process ends.  The restarter waits for it, starts another one and   *)
(* has the same Client initialised again, in a goroutine of its own.       *)

Exit(p) ==
    /\ exits < MaxExits /\ Room
    /\ p \in Started /\ proc[p].up
    /\ exits' = exits + 1
    /\ early' = (early \/ init[p].pc # "done")
    /\ proc' = [proc EXCEPT ![p].up = FALSE]
    /\ UNCHANGED <<user, info, workspaces, object, init, panicked, overlapped, refusals, failures, changes>>

\* What if: the connection stays open.
WaitReturnsOpen(o) ==
    /\ object[o] # NoObject /\ object[o].restarter = "wait"
    /\ LET p == proc[object[o].cmd] IN ~p.up /\ (p.told \/ ~p.open)
    /\ object' = [object EXCEPT ![o].restarter = "start"]
    /\ UNCHANGED <<user, info, workspaces, init, proc, panicked, overlapped, bounds>>

WaitReturns(o) ==
    /\ object[o] # NoObject /\ object[o].restarter = "wait"
    /\ LET p == proc[object[o].cmd] IN ~p.up /\ (p.told \/ ~p.open)
    /\ object' = [object EXCEPT ![o].restarter = "start"]
    /\ proc' = [proc EXCEPT ![object[o].cmd].open = FALSE]
    /\ UNCHANGED <<user, info, workspaces, init, panicked, overlapped, bounds>>

Restart(o) ==
    /\ object[o] # NoObject /\ object[o].restarter = "start"
    /\ \E p \in Procs :
          /\ Started = 1..(p - 1)
          /\ NewProcess(p, o)
          /\ object' = [object EXCEPT ![o].cmd = p, ![o].restarter = "wait"]
          /\ init' = [init EXCEPT ![p].pc = "conn"]
    /\ UNCHANGED <<user, info, workspaces, panicked, overlapped, bounds>>

\* cmd is nil from here on.
RestartFails(o) ==
    /\ object[o] # NoObject /\ object[o].restarter = "start"
    /\ failures < MaxFailures /\ Room
    /\ failures' = failures + 1
    /\ object' = [object EXCEPT ![o].cmd = None, ![o].restarter = "stopped"]
    /\ UNCHANGED <<user, info, workspaces, init, proc, panicked, overlapped, early, exits, refusals, changes>>

-----------------------------------------------------------------------------
(* Client.init, run by the user for the first process of an object and by  *)
(* a goroutine for the others.                                             *)

First(p) == proc[p].object = p

\* srv.Client is nil until the first initialisation has succeeded, and the
\* connection is nil after a failed start; either is a nil dereference.
IsNil(p) == LET o == object[proc[p].object] IN (~First(p) /\ ~o.client) \/ o.cmd = None

\* What if: c.Server is set with c.rpc.
InitConnStores(p) ==
    LET o == proc[p].object
        k == object[o].cmd
    IN  /\ init[p].pc = "conn"
        /\ IF IsNil(p)
           THEN panicked' = TRUE /\ UNCHANGED <<object, init, proc>>
           ELSE /\ init' = [init EXCEPT ![p].pc = "call", ![p].conn = k]
                /\ object' = [object EXCEPT ![o].rpc = k, ![o].stub = k]
                /\ proc' = [q \in Procs |-> IF q = object[o].rpc THEN [proc[q] EXCEPT !.open = FALSE]
                                                                ELSE proc[q]]
                /\ UNCHANGED panicked
        /\ UNCHANGED <<user, info, workspaces, overlapped, bounds>>

\* The old connection is closed, c.rpc and the local server are made anew.
InitConn(p) ==
    LET o == proc[p].object
        k == object[o].cmd
    IN  /\ init[p].pc = "conn"
        /\ IF IsNil(p)
           THEN panicked' = TRUE /\ UNCHANGED <<object, init, proc>>
           ELSE /\ init' = [init EXCEPT ![p].pc = "call", ![p].conn = k]
                /\ object' = [object EXCEPT ![o].rpc = k]
                /\ proc' = [q \in Procs |-> IF q = object[o].rpc THEN [proc[q] EXCEPT !.open = FALSE]
                                                                ELSE proc[q]]
                /\ UNCHANGED panicked
        /\ UNCHANGED <<user, info, workspaces, overlapped, bounds>>

\* The request goes to what c.rpc is by now.
InitCall(p) ==
    LET o == object[proc[p].object]
        k == o.rpc
        ask(q) == [q EXCEPT !.asked = @ + 1, !.folders = o.folders]
    IN  /\ init[p].pc = "call" /\ CanWrite(k)
        /\ IF proc[k].open
           THEN /\ proc' = [proc EXCEPT ![k] = Written(@, ask)]
                /\ init' = [init EXCEPT ![p].pc = "pending", ![p].pending = k]
           ELSE init' = [init EXCEPT ![p].pc = "fail"] /\ UNCHANGED proc
        /\ UNCHANGED <<user, info, workspaces, object, panicked, overlapped, bounds>>

\* The answer, an error, or the connection was closed before either came.
InitAnswer(p) ==
    LET q == proc[init[p].pending]
    IN  /\ init[p].pc = "pending" /\ (q.open => q.up)
        /\ \/ /\ init' = [init EXCEPT ![p].pc = IF q.open THEN "notify" ELSE "fail"]
              /\ UNCHANGED refusals
           \/ /\ q.open /\ refusals < MaxRefusals /\ Room /\ refusals' = refusals + 1
              /\ init' = [init EXCEPT ![p].pc = "fail"]
        /\ UNCHANGED <<user, info, workspaces, object, proc, panicked, overlapped, early, exits, failures, changes>>

InitNotify(p) ==
    LET k == init[p].conn
        initialized(q) == [q EXCEPT !.ready = TRUE]
    IN  /\ init[p].pc = "notify" /\ CanWrite(k)
        /\ IF proc[k].open
           THEN /\ proc' = [proc EXCEPT ![k] = Written(@, initialized)]
                /\ init' = [init EXCEPT ![p].pc = "store"]
           ELSE init' = [init EXCEPT ![p].pc = "fail"] /\ UNCHANGED proc
        /\ UNCHANGED <<user, info, workspaces, object, panicked, overlapped, bounds>>

\* What if: srv.Client is left nil.
InitStoreNoClient(p) ==
    LET o == proc[p].object
    IN  /\ init[p].pc = "store"
        /\ init' = [init EXCEPT ![p].pc = "done"]
        /\ object' = [object EXCEPT ![o].stub = init[p].conn]
        /\ IF First(p)
           THEN /\ info' = [info EXCEPT ![object[o].server] = o]
                /\ user' = [u \in Users |-> IF user[u].pc = "init" /\ user[u].object = o
                                            THEN [user[u] EXCEPT !.pc = "send"] ELSE user[u]]
           ELSE UNCHANGED <<info, user>>
        /\ UNCHANGED <<workspaces, proc, panicked, overlapped, bounds>>

\* What if: c.Server is set by the first initialisation only.
InitStoreFirst(p) ==
    LET o == proc[p].object
    IN  /\ init[p].pc = "store"
        /\ init' = [init EXCEPT ![p].pc = "done"]
        /\ object' = [object EXCEPT ![o].stub = IF First(p) THEN init[p].conn ELSE @, ![o].client = TRUE]
        /\ IF First(p)
           THEN /\ info' = [info EXCEPT ![object[o].server] = o]
                /\ user' = [u \in Users |-> IF user[u].pc = "init" /\ user[u].object = o
                                            THEN [user[u] EXCEPT !.pc = "send"] ELSE user[u]]
           ELSE UNCHANGED <<info, user>>
        /\ UNCHANGED <<workspaces, proc, panicked, overlapped, bounds>>

\* Only now do the users' messages go to the new process.
InitStore(p) ==
    LET o == proc[p].object
    IN  /\ init[p].pc = "store"
        /\ init' = [init EXCEPT ![p].pc = "done"]
        /\ object' = [object EXCEPT ![o].stub = init[p].conn, ![o].client = TRUE]
        /\ IF First(p)
           THEN /\ info' = [info EXCEPT ![object[o].server] = o]
                /\ user' = [u \in Users |-> IF user[u].pc = "init" /\ user[u].object = o
                                            THEN [user[u] EXCEPT !.pc = "send"] ELSE user[u]]
           ELSE UNCHANGED <<info, user>>
        /\ UNCHANGED <<workspaces, proc, panicked, overlapped, bounds>>

\* What is killed is what the restarter has started last.
InitFail(p) ==
    LET o == proc[p].object
        k == object[o].cmd
    IN  /\ init[p].pc = "fail"
        /\ IF k = None
           THEN panicked' = TRUE /\ UNCHANGED <<user, init, proc>>
           ELSE /\ init' = [init EXCEPT ![p].pc = "done"]
                /\ proc' = [proc EXCEPT ![k].up = FALSE, ![k].open = @ /\ First(p)]
                /\ user' = [u \in Users |-> IF First(p) /\ user[u].pc = "init" /\ user[u].object = o
                                            THEN Idle ELSE user[u]]
                /\ UNCHANGED panicked
        /\ UNCHANGED <<info, workspaces, object, overlapped, bounds>>

InitStep(p) ==
    InitConn(p) \/ InitCall(p) \/ InitAnswer(p) \/ InitNotify(p) \/ InitStore(p) \/ InitFail(p)

Restarter(o) == WaitReturns(o) \/ Restart(o) \/ RestartFails(o)
UserStep(u) == Exec(u) \/ ExecFails(u) \/ Send(u)

Next ==
    /\ ~panicked
    /\ \/ \E u \in Users : Request(u) \/ ChangeFolders(u) \/ UserStep(u)
       \/ \E p \in Procs : Exit(p) \/ Restarter(p) \/ InitStep(p)

\* The goroutines of a user's request go on, and of the others some one does;
\* a process that is up answers.
Fairness ==
    /\ \A u \in Users : WF_vars(~panicked /\ UserStep(u))
    /\ WF_vars(~panicked /\ \E p \in Procs : Restarter(p) \/ InitStep(p))

Spec == Init /\ [][Next]_vars
FairSpec == Spec /\ Fairness

-----------------------------------------------------------------------------
(* Properties.                                                             *)

\* Every variable has its type, and what is used has been started.
TypeOK ==
    /\ user \in [Users -> Requests]
    /\ \A u \in Users :
          user[u].pc \in {"init", "send"} => user[u].object \in {o \in Procs : object[o] # NoObject}
    /\ info \in [Servers -> Procs \cup {None}]
    /\ \A s \in Servers : info[s] # None => object[info[s]] # NoObject
    /\ workspaces \subseteq Folders
    /\ object \in [Procs -> Objects \cup {NoObject}]
    /\ init \in [Procs -> Inits]
    /\ proc \in [Procs -> Processes \cup {NoProcess}]
    /\ \A p \in Started : object[proc[p].object] # NoObject
    /\ panicked \in BOOLEAN /\ overlapped \in BOOLEAN /\ early \in BOOLEAN

\* A server hears nothing before it has been initialised (users' messages go
\* to stub), and is asked to initialise once, although c.rpc and p1 are shared
\* by the initialisations of an object's processes; as long as none exits
\* before its own is over.
HandshakeFirst ==
    ~early =>
        /\ \A p \in Started : proc[p].asked <= 1
        /\ \A o \in Procs : object[o] # NoObject /\ object[o].stub # None =>
              LET p == proc[object[o].stub] IN p.asked = 1 /\ (p.up => p.ready)

\* A server has no more processes than there are users who start it at once,
\* as long as none exits before it is initialised: then the user is told of
\* the failure while the process is started again for nobody.
NoMoreThanItsStarters ==
    ~early =>
        \A s \in Servers :
            Cardinality({p \in Started : proc[p].up /\ object[proc[p].object].server = s})
                <= Cardinality(Users)

\* As long as requests do not overlap and no server ends or fails to start,
\* every server knows the set's folders between requests, be it started before
\* or after they changed.
FoldersAgree ==
    ~overlapped /\ ~Busy /\ exits + refusals + failures = 0 =>
        \A s \in Servers : info[s] # None =>
            proc[object[info[s]].stub].folders = workspaces

\* No end of a server that has been initialised ends the program.
NoPanic == ~early => ~panicked

\* Neither does any other (exec.go:68); this one does not hold.
SurvivesEveryExit == ~panicked

\* The process has exited and nothing has been written to it since, so that
\* its cmd.Wait goes on waiting.
Silent(p) == ~proc[p].up /\ ~proc[p].told /\ proc[p].open

\* A server that has ended is up again in the end, once a message to it has
\* failed or its connection was closed, and unless its command cannot be
\* started; as long as none exits before its initialisation is over.
Restarts ==
    LET live(s) == info[s] # None /\ object[info[s]].restarter # "stopped"
        cmd(s) == object[info[s]].cmd
        down(s) == live(s) /\ ~proc[cmd(s)].up /\ ~Silent(cmd(s))
        up(s) == object[info[s]].stub = cmd(s) /\ proc[cmd(s)].up
    IN  \A s \in Servers : down(s) ~> ~live(s) \/ early \/ up(s)

\* Every request of a user comes to an end, unless it is for a server whose
\* process has exited between reading initialize and answering it.
RequestsEnd ==
    LET unanswered(i) == i.pc = "pending" /\ Silent(i.pending)
    IN  \A u \in Users :
            user[u].pc # "idle" ~>
                \/ user[u].pc = "idle" \/ panicked
                \/ user[u].pc = "init" /\ unanswered(init[user[u].object])
=============================================================================
