--------------------------- MODULE ServersProofs ---------------------------
(* Theorems about Servers, for any users, servers, folders and bounds.     *)
EXTENDS Servers, TLAPS, FiniteSetTheorems

-----------------------------------------------------------------------------
(* The invariants.                                                         *)

\* The Server objects there are, and the processes of one.
Exists(o) == object[o] # NoObject
Mine(o) == {p \in Started : proc[p].object = o}

\* What a Server object, its initialisations, the users and the set refer to.
ObjectRefs(o) == Exists(o) =>
    /\ o \in Mine(o)
    /\ object[o].cmd \in Mine(o) \cup {None} /\ object[o].rpc \in Mine(o) \cup {None}
    /\ object[o].stub \in Mine(o) \cup {None}
    /\ object[o].client => object[o].stub # None
    /\ object[o].restarter # "stopped" => object[o].cmd # None
InitRefs(p) ==
    LET o == proc[p].object
    IN  IF p \in Started
        THEN /\ Exists(o) /\ init[p].pc # "none"
             /\ init[p].conn \in Mine(o) \cup {None} /\ init[p].pending \in Mine(o) \cup {None}
             /\ init[p].pc \notin {"conn", "done"} => object[o].rpc # None /\ init[p].conn # None
             /\ init[p].pc = "pending" => init[p].pending # None
        ELSE init[p] = NoInit
UserRefs(u) ==
    /\ user[u].pc \in {"init", "send"} => user[u].object \in Procs /\ Exists(user[u].object)
    /\ user[u].pc = "send" => object[user[u].object].client
InfoRefs(s) == info[s] # None =>
    Exists(info[s]) /\ object[info[s]].client /\ object[info[s]].server = s
RefInv ==
    /\ \A o \in Procs : ObjectRefs(o)
    /\ \A p \in Procs : InitRefs(p)
    /\ \A u \in Users : UserRefs(u)
    /\ \A s \in Servers : InfoRefs(s)

\* If no process ends before it is initialised, one that is not belongs to the
\* object's restarter alone, up and connected, and c.rpc and p1 are its own.
OneInit(p) == init[p].pc # "done" =>
    LET o == proc[p].object
    IN  /\ object[o].cmd = p /\ object[o].restarter = "wait"
        /\ proc[p].up /\ proc[p].open /\ ~proc[p].told
        /\ init[p].pc = "conn" => object[o].rpc # p
        /\ init[p].pc # "conn" => object[o].rpc = p /\ init[p].conn = p
        /\ init[p].pc = "pending" => init[p].pending = p

\* The handshake, as far as the initialisation has come.
Handshake(p) ==
    /\ init[p].pc \in {"conn", "call"} => proc[p].asked = 0
    /\ init[p].pc \notin {"conn", "call"} => proc[p].asked = 1
    /\ init[p].pc = "store" => proc[p].ready

\* Only the process that was started last can be up, and not if there is to
\* be another.
OneUp(p) == proc[p].up =>
    object[proc[p].object].cmd = p /\ object[proc[p].object].restarter = "wait"

\* Without its Client, an object has no other process than the first, whose
\* pipe stays open even if it is killed, and nobody sends to it.
NoClient(o) == ~object[o].client =>
    /\ Mine(o) = {o} /\ object[o].restarter = "wait" /\ object[o].stub = None
    /\ proc[o].open /\ ~proc[o].told
    /\ init[o].pc = "done" => ~proc[o].up

\* Users' messages go to a process that has been initialised.
StubReady(o) == object[o].stub # None =>
    LET p == proc[object[o].stub] IN p.asked = 1 /\ (p.up => p.ready)

ProcLife(p) == OneInit(p) /\ Handshake(p) /\ OneUp(p)
ObjLife(o) == NoClient(o) /\ StubReady(o)
LifeInv ==
    /\ ~panicked
    /\ \A p \in Started : ProcLife(p)
    /\ \A o \in Procs : Exists(o) => ObjLife(o)

\* The Server objects of s that may have a process which is up, and who has
\* started each of them: a user that is still at it, or that will find it.
Live(s) == {o \in Procs : Exists(o) /\ object[o].server = s
                          /\ (init[o].pc # "done" \/ object[o].client)}
Starter(u, o, s) ==
    IF object[o].client
    THEN info[s] # None /\ ~(user[u].pc \in {"exec", "init"} /\ user[u].server = s)
    ELSE user[u].pc = "init" /\ user[u].object = o
StartedBy(f, s) == \A o \in Live(s) : Starter(f[o], o, s)
StartersOf(s) == \E f \in Injection(Live(s), Users) : StartedBy(f, s)
StartersInv == \A s \in Servers : StartersOf(s)

\* As long as requests do not overlap and nothing fails, there are only first
\* processes, all up, and whoever has started one is still at it.
Calm == ~overlapped /\ exits + refusals + failures = 0
OneAtATime == \A u, v \in Users : user[u].pc # "idle" /\ user[v].pc # "idle" => u = v
CalmProc(p) ==
    /\ First(p) /\ proc[p].up /\ proc[p].open /\ init[p].pc # "fail"
    /\ object[p].restarter = "wait"
    /\ init[p].pc = "conn" => object[p].rpc = None
    /\ init[p].pc \notin {"conn", "call", "done"} => proc[p].folders = object[p].folders
    /\ IF init[p].pc = "done" THEN object[p].client
                              ELSE \E u \in Users : user[u].pc = "init" /\ user[u].object = p

\* The folders a server has been told when request r has come to r.server.
Told(r, s) == IF s < r.server THEN (workspaces \cup r.added) \ r.removed ELSE workspaces
CalmUser(u) ==
    /\ user[u].op = "send" => user[u].added = {} /\ user[u].removed = {}
    /\ user[u].pc \in {"exec", "init"} => info[user[u].server] = None
    /\ user[u].pc = "exec" => user[u].folders = workspaces
    /\ user[u].pc = "init" => /\ object[user[u].object].folders = workspaces
                              /\ object[user[u].object].server = user[u].server
                              /\ ~object[user[u].object].client
    /\ user[u].pc = "send" => info[user[u].server] = user[u].object
    /\ user[u].pc # "idle" => \A s \in Servers : info[s] # None =>
                                  proc[info[s]].folders = Told(user[u], s)
AllTold == ~Busy => \A s \in Servers : info[s] # None => proc[info[s]].folders = workspaces
CalmState ==
    /\ OneAtATime /\ AllTold
    /\ \A p \in Started : CalmProc(p)
    /\ \A u \in Users : CalmUser(u)
Counts == {exits, refusals, failures} \subseteq Nat
CalmInv == Counts /\ (Calm => CalmState)

TypeInv == TypeOK /\ RefInv

-----------------------------------------------------------------------------
(* Types and references.                                                   *)

LEMMA NoneIsNothing == None \notin Procs /\ None \notin Servers
  BY ServersAssumption DEF None, Procs, Servers

LEMMA Values ==
    ASSUME TypeOK
    PROVE  /\ NoObject \notin Objects /\ NoProcess \notin Processes
           /\ \A o \in Procs : Exists(o) => object[o] \in Objects
           /\ \A p \in Started : proc[p] \in Processes /\ proc[p].object \in Procs
           /\ Started \subseteq Procs
           /\ \A p \in Procs \ Started : proc[p].object = None /\ ~proc[p].up
           /\ \A p \in Procs : init[p] \in Inits
           /\ \A u \in Users : user[u] \in Requests
  <1>1. NoObject \notin Objects
    BY NoneIsNothing DEF NoObject, Objects
  <1>2. NoProcess \notin Processes
    BY NoneIsNothing DEF NoProcess, Processes
  <1>3. \A o \in Procs : Exists(o) => object[o] \in Objects
    BY DEF TypeOK, Exists
  <1>4. \A p \in Started : proc[p] \in Processes
    BY DEF TypeOK, Started
  <1>5. \A p \in Started : proc[p].object \in Procs
    BY <1>4 DEF Processes
  <1>6. \A p \in Procs \ Started : proc[p].object = None /\ ~proc[p].up
    BY DEF Started, NoProcess
  <1> QED
    BY <1>1, <1>2, <1>3, <1>4, <1>5, <1>6 DEF TypeOK, Started

\* A change of one process that is there.
SameProcs == Started' = Started /\ \A p \in Started : proc'[p].object = proc[p].object

LEMMA ProcSet ==
    ASSUME TypeOK, NEW k \in Started, NEW q \in Processes, q.object = proc[k].object,
           proc' = [proc EXCEPT ![k] = q]
    PROVE  /\ proc' \in [Procs -> Processes \cup {NoProcess}] /\ SameProcs
           /\ proc'[k] = q /\ \A p \in Procs \ {k} : proc'[p] = proc[p]
  <1>1. k \in Procs /\ proc \in [Procs -> Processes \cup {NoProcess}] /\ q # NoProcess
    BY Values DEF TypeOK
  <1>2. proc'[k] = q /\ \A p \in Procs \ {k} : proc'[p] = proc[p]
    BY <1>1
  <1>3. Started' = Started
    BY <1>1, <1>2 DEF Started
  <1>4. \A p \in Started : proc'[p].object = proc[p].object
    BY <1>1, <1>2 DEF Started
  <1> QED
    BY <1>1, <1>2, <1>3, <1>4 DEF SameProcs

\* A new one.
Fresh(o) == [object |-> o, up |-> TRUE, told |-> FALSE, open |-> TRUE,
             asked |-> 0, ready |-> FALSE, folders |-> {}]

LEMMA ProcNew ==
    ASSUME TypeOK, NEW p \in Procs, NEW o \in Procs, Started = 1..(p - 1), NewProcess(p, o)
    PROVE  /\ proc' \in [Procs -> Processes \cup {NoProcess}]
           /\ p \notin Started /\ Started' = Started \cup {p}
           /\ proc'[p] = Fresh(o) /\ \A q \in Procs \ {p} : proc'[q] = proc[q]
  <1>1. Fresh(o) \in Processes /\ Fresh(o) # NoProcess
    <2>1. Fresh(o) \in Processes
      BY DEF Fresh, Processes
    <2> QED
      BY <2>1, Values
  <1>2. proc' = [proc EXCEPT ![p] = Fresh(o)]
    BY DEF NewProcess, Fresh
  <1>3. p \notin Started
    BY DEF Procs
  <1>4. proc'[p] = Fresh(o) /\ \A q \in Procs \ {p} : proc'[q] = proc[q]
    BY <1>2 DEF TypeOK
  <1>5. Started' = Started \cup {p}
    BY <1>1, <1>4 DEF Started
  <1> QED
    BY <1>1, <1>2, <1>3, <1>4, <1>5 DEF TypeOK

\* A change of an object or of an initialisation.
LEMMA ObjectSet ==
    ASSUME TypeOK, NEW o \in Procs, NEW v \in Objects, object' = [object EXCEPT ![o] = v]
    PROVE  /\ object' \in [Procs -> Objects \cup {NoObject}]
           /\ object'[o] = v /\ \A q \in Procs \ {o} : object'[q] = object[q]
           /\ Exists(o)' /\ \A q \in Procs : Exists(q) => Exists(q)'
  BY Values DEF TypeOK, Exists

LEMMA InitSet ==
    ASSUME TypeOK, NEW p \in Procs, NEW i \in Inits, init' = [init EXCEPT ![p] = i]
    PROVE  /\ init' \in [Procs -> Inits]
           /\ init'[p] = i /\ \A q \in Procs \ {p} : init'[q] = init[q]
  BY DEF TypeOK

LEMMA UserSet ==
    ASSUME TypeOK, NEW u \in Users, NEW r \in Requests, user' = [user EXCEPT ![u] = r]
    PROVE  /\ user' \in [Users -> Requests]
           /\ user'[u] = r /\ \A v \in Users \ {u} : user'[v] = user[v]
  BY DEF TypeOK

LEMMA IdleType == Idle \in Requests /\ Idle.pc = "idle"
  BY ServersAssumption, NoneIsNothing DEF Idle, Requests, Servers, None

LEMMA CheckType ==
    ASSUME TypeOK, NEW r \in Requests, NEW s \in Servers
    PROVE  /\ Check(r, s) \in Requests
           /\ Check(r, s).server = s /\ Check(r, s).folders = workspaces
           /\ Check(r, s).op = r.op /\ Check(r, s).added = r.added /\ Check(r, s).removed = r.removed
           /\ info[s] # None => Check(r, s).pc = "send" /\ Check(r, s).object = info[s]
           /\ info[s] = None => Check(r, s).pc = "exec"
  <1>1. info[s] \in Procs \cup {None} /\ workspaces \in SUBSET Folders
    BY DEF TypeOK
  <1> QED
    BY <1>1 DEF Check, Requests


\* What is referred to does not go away.
Grows ==
    /\ Started \subseteq Started' /\ \A p \in Started : proc'[p].object = proc[p].object
    /\ \A o \in Procs : Exists(o) =>
          /\ Exists(o)' /\ object'[o].server = object[o].server
          /\ object[o].client => object'[o].client
          /\ object[o].rpc # None => object'[o].rpc # None

LEMMA MineGrows == ASSUME Grows PROVE \A o : Mine(o) \subseteq Mine(o)'
  BY DEF Grows, Mine

LEMMA Kept ==
    ASSUME TypeInv, Grows
    PROVE  /\ \A o \in Procs : object'[o] = object[o] => ObjectRefs(o)'
           /\ \A p \in Procs : init'[p] = init[p] /\ (p \in Started \/ p \notin Started') => InitRefs(p)'
           /\ \A s \in Servers : info'[s] = info[s] => InfoRefs(s)'
           /\ \A u \in Users : user'[u] = user[u] => UserRefs(u)'
  <1>1. ASSUME NEW o \in Procs, object'[o] = object[o] PROVE ObjectRefs(o)'
    <2>1. Mine(o) \subseteq Mine(o)' /\ (Exists(o)' => Exists(o))
      BY <1>1, MineGrows DEF Exists
    <2> QED
      BY <1>1, <2>1 DEF TypeInv, RefInv, ObjectRefs
  <1>2. ASSUME NEW p \in Procs, init'[p] = init[p], p \in Started \/ p \notin Started'
        PROVE  InitRefs(p)'
    <2>1. CASE p \in Started
      <3>1. /\ p \in Started' /\ proc'[p].object = proc[p].object /\ proc[p].object \in Procs
            /\ Mine(proc[p].object) \subseteq Mine(proc[p].object)'
        BY <2>1, MineGrows, Values DEF Grows, TypeInv
      <3> QED
        BY <1>2, <2>1, <3>1 DEF TypeInv, RefInv, InitRefs, Grows
    <2>2. CASE p \notin Started'
      <3>1. p \notin Started
        BY <2>2 DEF Grows
      <3> QED
        BY <1>2, <2>2, <3>1 DEF TypeInv, RefInv, InitRefs, NoInit
    <2> QED
      BY <1>2, <2>1, <2>2
  <1>3. ASSUME NEW s \in Servers, info'[s] = info[s] PROVE InfoRefs(s)'
    BY <1>3 DEF TypeInv, TypeOK, RefInv, InfoRefs, Grows
  <1>4. ASSUME NEW u \in Users, user'[u] = user[u] PROVE UserRefs(u)'
    BY <1>4 DEF TypeInv, RefInv, UserRefs, Grows
  <1> QED
    BY <1>1, <1>2, <1>3, <1>4

\* The references are most of what TypeOK says of them.
LEMMA Referred ==
    ASSUME RefInv'
    PROVE  /\ \A u \in Users : user'[u].pc \in {"init", "send"} =>
                  user'[u].object \in {o \in Procs : object'[o] # NoObject}
           /\ \A s \in Servers : info'[s] # None => object'[info'[s]] # NoObject
           /\ \A p \in Started' : object'[proc'[p].object] # NoObject
  BY DEF RefInv, UserRefs, InfoRefs, InitRefs, Exists, Started

LEMMA UserStepTypes ==
    ASSUME TypeInv, SameProcs, proc' \in [Procs -> Processes \cup {NoProcess}],
           UNCHANGED <<object, init, info, panicked>>, workspaces' \subseteq Folders,
           overlapped' \in BOOLEAN, early' \in BOOLEAN,
           NEW u \in Users, NEW r \in Requests, user' = [user EXCEPT ![u] = r],
           r.pc # "init", r.pc = "send" => \E s \in Servers : info[s] # None /\ r.object = info[s]
    PROVE  TypeInv'
  <1>1. user' \in [Users -> Requests] /\ user'[u] = r /\ \A v \in Users \ {u} : user'[v] = user[v]
    BY UserSet DEF TypeInv
  <1>2. UserRefs(u)'
    <2>1. r.pc = "send" => r.object \in Procs /\ Exists(r.object) /\ object[r.object].client
      BY DEF TypeInv, TypeOK, RefInv, InfoRefs
    <2> QED
      BY <1>1, <2>1 DEF UserRefs, Exists
  <1>3. Grows /\ Started' = Started
    BY DEF Grows, SameProcs, Exists
  <1>4. RefInv'
    BY <1>1, <1>2, <1>3, Kept DEF RefInv
  <1> QED
    BY <1>1, <1>4, Referred DEF TypeInv, TypeOK

LEMMA NothingProcs == ASSUME UNCHANGED proc PROVE SameProcs
  BY DEF SameProcs, Started

LEMMA RequestTypes == ASSUME TypeInv, NEW u \in Users, Request(u) PROVE TypeInv'
  <1>1. PICK s \in Servers : user' = [user EXCEPT ![u] = Check(Idle, s)]
    BY ServersAssumption DEF Request, Servers
  <1>2. /\ Check(Idle, s) \in Requests /\ Check(Idle, s).pc # "init"
        /\ Check(Idle, s).pc = "send" => info[s] # None /\ Check(Idle, s).object = info[s]
    BY CheckType, IdleType DEF TypeInv
  <1>3. overlapped' \in BOOLEAN /\ early' \in BOOLEAN
    BY DEF Request, TypeInv, TypeOK, Busy, bounds
  <1> QED
    BY <1>1, <1>2, <1>3, NothingProcs, UserStepTypes DEF Request, TypeInv, TypeOK

LEMMA ChangeFoldersTypes == ASSUME TypeInv, NEW u \in Users, ChangeFolders(u) PROVE TypeInv'
  <1>1. PICK added \in SUBSET Folders, removed \in SUBSET Folders :
            user' = [user EXCEPT ![u] =
                Check([Idle EXCEPT !.op = "folders", !.added = added, !.removed = removed], 1)]
    BY DEF ChangeFolders
  <1> DEFINE i == [Idle EXCEPT !.op = "folders", !.added = added, !.removed = removed]
             r == Check(i, 1)
  <1>2. i \in Requests /\ 1 \in Servers
    <2>1. 1 \in Servers
      BY ServersAssumption DEF Servers
    <2>2. i \in Requests
      BY IdleType DEF Requests
    <2> QED
      BY <2>1, <2>2
  <1> HIDE DEF i
  <1>3. r \in Requests /\ r.pc # "init" /\ (r.pc = "send" => info[1] # None /\ r.object = info[1])
    BY <1>2, CheckType DEF TypeInv
  <1>4. overlapped' \in BOOLEAN /\ early' \in BOOLEAN
    BY DEF ChangeFolders, TypeInv, TypeOK, Busy
  <1>5. user' = [user EXCEPT ![u] = r]
    BY <1>1 DEF i
  <1> HIDE DEF r
  <1> QED
    BY <1>2, <1>3, <1>4, <1>5, NothingProcs, UserStepTypes DEF ChangeFolders, TypeInv, TypeOK

LEMMA ExecFailsTypes == ASSUME TypeInv, NEW u \in Users, ExecFails(u) PROVE TypeInv'
  BY NothingProcs, UserStepTypes, IdleType DEF ExecFails, TypeInv, TypeOK

\* A process that has started for a new object.
ExecStep(u, p) ==
    /\ p \notin Started /\ Started' = Started \cup {p} /\ ~Exists(p)
    /\ proc' \in [Procs -> Processes \cup {NoProcess}]
    /\ proc'[p] = Fresh(p) /\ \A q \in Procs \ {p} : proc'[q] = proc[q]
    /\ object' \in [Procs -> Objects \cup {NoObject}]
    /\ object'[p] = [server |-> user[u].server, cmd |-> p, restarter |-> "wait",
                     client |-> FALSE, rpc |-> None, stub |-> None,
                     folders |-> user[u].folders]
    /\ \A q \in Procs \ {p} : object'[q] = object[q]
    /\ Exists(p)' /\ \A q \in Procs \ {p} : Exists(q)' = Exists(q)
    /\ init' \in [Procs -> Inits]
    /\ init'[p] = [pc |-> "conn", conn |-> None, pending |-> None]
    /\ \A q \in Procs \ {p} : init'[q] = init[q]
    /\ user' \in [Users -> Requests]
    /\ user'[u] = [user[u] EXCEPT !.pc = "init", !.object = p]
    /\ \A v \in Users \ {u} : user'[v] = user[v]

LEMMA ExecEffect == ASSUME TypeInv, NEW u \in Users, Exec(u) PROVE \E p \in Procs : ExecStep(u, p)
  <1> DEFINE New(p) == [server |-> user[u].server, cmd |-> p, restarter |-> "wait",
                        client |-> FALSE, rpc |-> None, stub |-> None,
                        folders |-> user[u].folders]
  <1>1. PICK p \in Procs :
            /\ Started = 1..(p - 1) /\ NewProcess(p, p)
            /\ object' = [object EXCEPT ![p] = New(p)]
            /\ init' = [init EXCEPT ![p].pc = "conn"]
            /\ user' = [user EXCEPT ![u].pc = "init", ![u].object = p]
    BY DEF Exec
  <1>2. user[u] \in Requests
    BY DEF TypeInv, TypeOK
  <1>3. New(p) \in Objects
    BY <1>2 DEF Requests, Objects
  <1>4. /\ proc' \in [Procs -> Processes \cup {NoProcess}]
        /\ p \notin Started /\ Started' = Started \cup {p}
        /\ proc'[p] = Fresh(p) /\ \A q \in Procs \ {p} : proc'[q] = proc[q]
    BY <1>1, ProcNew DEF TypeInv
  <1> HIDE DEF New
  <1>5. /\ object' \in [Procs -> Objects \cup {NoObject}]
        /\ object'[p] = New(p) /\ \A q \in Procs \ {p} : object'[q] = object[q]
        /\ Exists(p)'
    BY <1>1, <1>3, ObjectSet DEF TypeInv
  <1>6. ~Exists(p)
    BY <1>4 DEF TypeInv, RefInv, ObjectRefs, Mine
  <1>7. \A q \in Procs \ {p} : Exists(q)' = Exists(q)
    BY <1>5 DEF Exists
  <1>8. init[p] = NoInit
    BY <1>4 DEF TypeInv, RefInv, InitRefs
  <1>9. init' = [init EXCEPT ![p] = [pc |-> "conn", conn |-> None, pending |-> None]]
    <2>1. [NoInit EXCEPT !.pc = "conn"] = [pc |-> "conn", conn |-> None, pending |-> None]
      BY DEF NoInit
    <2>2. init' = [init EXCEPT ![p] = [init[p] EXCEPT !.pc = "conn"]]
      BY <1>1 DEF TypeInv, TypeOK
    <2> QED
      BY <1>8, <2>1, <2>2
  <1>10. [pc |-> "conn", conn |-> None, pending |-> None] \in Inits
    BY DEF Inits
  <1>11. /\ init' \in [Procs -> Inits]
         /\ init'[p] = [pc |-> "conn", conn |-> None, pending |-> None]
         /\ \A q \in Procs \ {p} : init'[q] = init[q]
    BY <1>9, <1>10, InitSet DEF TypeInv
  <1>12. user' = [user EXCEPT ![u] = [user[u] EXCEPT !.pc = "init", !.object = p]]
    BY <1>1 DEF TypeInv, TypeOK
  <1>13. [user[u] EXCEPT !.pc = "init", !.object = p] \in Requests
    BY <1>2 DEF Requests
  <1>14. /\ user' \in [Users -> Requests]
         /\ user'[u] = [user[u] EXCEPT !.pc = "init", !.object = p]
         /\ \A v \in Users \ {u} : user'[v] = user[v]
    BY <1>12, <1>13, UserSet DEF TypeInv
  <1> QED
    BY <1>4, <1>5, <1>6, <1>7, <1>11, <1>14 DEF New, ExecStep


LEMMA ExecTypes == ASSUME TypeInv, NEW u \in Users, Exec(u) PROVE TypeInv'
  <1>1. PICK p \in Procs : ExecStep(u, p)
    BY ExecEffect
  <1>2. Grows
    <2>1. \A q \in Started : q \in Procs /\ q # p
      BY <1>1 DEF ExecStep, Started
    <2>2. \A o \in Procs : Exists(o) => object'[o] = object[o] /\ Exists(o)'
      BY <1>1 DEF ExecStep
    <2> QED
      BY <1>1, <2>1, <2>2 DEF ExecStep, Grows
  <1>3. p \in Mine(p)' /\ proc'[p].object = p /\ p \in Started'
    BY <1>1 DEF ExecStep, Mine, Fresh
  <1>4. ObjectRefs(p)' /\ InitRefs(p)'
    <2>1. ObjectRefs(p)'
      BY <1>1, <1>3, NoneIsNothing DEF ExecStep, ObjectRefs
    <2>2. InitRefs(p)'
      BY <1>1, <1>3 DEF ExecStep, InitRefs
    <2> QED
      BY <2>1, <2>2
  <1>5. UserRefs(u)'
    <2>1. user'[u].pc = "init" /\ user'[u].object = p
      BY <1>1 DEF ExecStep, TypeInv, TypeOK, Requests
    <2> QED
      BY <1>1, <2>1 DEF ExecStep, UserRefs
  <1>6. RefInv'
    <2>1. \A o \in Procs : ObjectRefs(o)'
      BY <1>1, <1>2, <1>4, Kept DEF ExecStep
    <2>2. \A q \in Procs : InitRefs(q)'
      BY <1>1, <1>2, <1>4, Kept DEF ExecStep
    <2>3. \A v \in Users : UserRefs(v)'
      BY <1>1, <1>2, <1>5, Kept DEF ExecStep
    <2>4. \A s \in Servers : InfoRefs(s)'
      BY <1>1, <1>2, Kept DEF Exec
    <2> QED
      BY <2>1, <2>2, <2>3, <2>4 DEF RefInv
  <1> QED
    BY <1>1, <1>6, Referred DEF ExecStep, Exec, TypeInv, TypeOK, bounds

\* The process of a request has been started, and may be gone.
LEMMA SendEffect ==
    ASSUME TypeInv, NEW u \in Users, Send(u)
    PROVE  LET r == user[u]
               k == object[r.object].stub
           IN  /\ r \in Requests /\ r.pc = "send" /\ r.object \in Procs /\ Exists(r.object)
               /\ k \in Mine(r.object)
               /\ \E r2 \in Requests :
                     /\ user' = [user EXCEPT ![u] = r2]
                     /\ \/ r2 = Idle
                        \/ /\ r.op = "folders" /\ r.server + 1 \in Servers
                           /\ r2 = Check(r, r.server + 1)
               /\ \/ UNCHANGED proc
                  \/ /\ proc[k].up
                     /\ proc' = [proc EXCEPT ![k] = AddFolders(r, proc[k])]
                  \/ /\ ~proc[k].up
                     /\ proc' = [proc EXCEPT ![k] = [proc[k] EXCEPT !.told = TRUE]]
  <1> DEFINE r == user[u]
             k == object[r.object].stub
  <1>1. r \in Requests /\ r.pc = "send"
    BY DEF Send, TypeInv, TypeOK
  <1>2. r.object \in Procs /\ Exists(r.object) /\ object[r.object].client
    BY <1>1 DEF TypeInv, RefInv, UserRefs
  <1>3. k \in Mine(r.object)
    BY <1>2 DEF TypeInv, RefInv, ObjectRefs
  <1>4. Idle \in Requests
    BY IdleType
  <1>5. r.op = "folders" /\ r.server < LastServer =>
            r.server + 1 \in Servers /\ Check(r, r.server + 1) \in Requests
    <2>1. r.server \in 1..LastServer /\ LastServer \in Nat
      BY <1>1, ServersAssumption DEF Requests, Servers
    <2>2. r.server < LastServer => r.server + 1 \in Servers
      BY <2>1 DEF Servers
    <2> QED
      BY <1>1, <2>2, CheckType DEF TypeInv
  <1>6. \E r2 \in Requests :
            /\ user' = [user EXCEPT ![u] = r2]
            /\ \/ r2 = Idle
               \/ /\ r.op = "folders" /\ r.server + 1 \in Servers
                  /\ r2 = Check(r, r.server + 1)
    BY <1>4, <1>5 DEF Send
  <1>7. \/ UNCHANGED proc
        \/ /\ proc[k].up /\ proc' = [proc EXCEPT ![k] = AddFolders(r, proc[k])]
        \/ /\ ~proc[k].up /\ proc' = [proc EXCEPT ![k] = [proc[k] EXCEPT !.told = TRUE]]
    BY DEF Send, Written
  <1> QED
    BY <1>1, <1>2, <1>3, <1>6, <1>7

LEMMA SendTypes == ASSUME TypeInv, NEW u \in Users, Send(u) PROVE TypeInv'
  <1> DEFINE r == user[u]
             k == object[r.object].stub
  <1>1. r \in Requests /\ k \in Mine(r.object) /\ r.object \in Procs
    BY SendEffect
  <1>2. k \in Started /\ proc[k] \in Processes
    BY <1>1, Values DEF Mine, TypeInv
  <1>3. AddFolders(r, proc[k]) \in Processes /\ AddFolders(r, proc[k]).object = proc[k].object
    BY <1>1, <1>2 DEF AddFolders, Processes, Requests
  <1>4. /\ [proc[k] EXCEPT !.told = TRUE] \in Processes
        /\ [proc[k] EXCEPT !.told = TRUE].object = proc[k].object
    BY <1>2 DEF Processes
  <1>5. SameProcs /\ proc' \in [Procs -> Processes \cup {NoProcess}]
    <2>1. CASE UNCHANGED proc
      BY <2>1, NothingProcs DEF TypeInv, TypeOK
    <2>2. CASE proc' = [proc EXCEPT ![k] = AddFolders(r, proc[k])]
      BY <2>2, <1>2, <1>3, ProcSet DEF TypeInv
    <2>3. CASE proc' = [proc EXCEPT ![k] = [proc[k] EXCEPT !.told = TRUE]]
      BY <2>3, <1>2, <1>4, ProcSet DEF TypeInv
    <2> QED
      BY <2>1, <2>2, <2>3, SendEffect
  <1>6. workspaces' \subseteq Folders
    BY <1>1 DEF Send, TypeInv, TypeOK, Requests
  <1>7. PICK r2 \in Requests :
            /\ user' = [user EXCEPT ![u] = r2]
            /\ \/ r2 = Idle
               \/ r.server + 1 \in Servers /\ r2 = Check(r, r.server + 1)
    BY SendEffect
  <1>8. /\ r2.pc # "init"
        /\ r2.pc = "send" => \E s \in Servers : info[s] # None /\ r2.object = info[s]
    BY <1>1, <1>7, CheckType, IdleType DEF TypeInv
  <1> HIDE DEF r, k
  <1> QED
    BY <1>5, <1>6, <1>7, <1>8, UserStepTypes DEF Send, TypeInv, TypeOK, bounds

-----------------------------------------------------------------------------
(* A process that ends, or is started again.                               *)

LEMMA ExitEffect ==
    ASSUME TypeInv, NEW p \in Procs, Exit(p)
    PROVE  /\ p \in Started /\ proc[p].up /\ SameProcs
           /\ proc' \in [Procs -> Processes \cup {NoProcess}]
           /\ proc'[p] = [proc[p] EXCEPT !.up = FALSE]
           /\ \A q \in Procs \ {p} : proc'[q] = proc[q]
  <1>1. p \in Started /\ proc[p].up /\ proc[p] \in Processes
    BY Values DEF Exit, TypeInv
  <1>2. /\ [proc[p] EXCEPT !.up = FALSE] \in Processes
        /\ [proc[p] EXCEPT !.up = FALSE].object = proc[p].object
    BY <1>1 DEF Processes
  <1>3. proc' = [proc EXCEPT ![p] = [proc[p] EXCEPT !.up = FALSE]]
    BY DEF Exit
  <1> QED
    BY <1>1, <1>2, <1>3, ProcSet DEF TypeInv

LEMMA ExitTypes == ASSUME TypeInv, NEW p \in Procs, Exit(p) PROVE TypeInv'
  <1>1. Grows /\ Started' = Started
    BY ExitEffect DEF Exit, Grows, SameProcs, Exists
  <1>2. RefInv'
    BY <1>1, Kept DEF Exit, RefInv
  <1> QED
    BY <1>2, ExitEffect, Referred DEF Exit, TypeInv, TypeOK

LEMMA WaitReturnsEffect ==
    ASSUME TypeInv, NEW o \in Procs, WaitReturns(o)
    PROVE  LET k == object[o].cmd
           IN  /\ Exists(o) /\ object[o].restarter = "wait" /\ k \in Mine(o)
               /\ ~proc[k].up /\ (proc[k].told \/ ~proc[k].open)
               /\ SameProcs /\ proc' \in [Procs -> Processes \cup {NoProcess}]
               /\ proc'[k] = [proc[k] EXCEPT !.open = FALSE]
               /\ \A q \in Procs \ {k} : proc'[q] = proc[q]
               /\ object' \in [Procs -> Objects \cup {NoObject}]
               /\ object'[o] = [object[o] EXCEPT !.restarter = "start"]
               /\ \A q \in Procs \ {o} : object'[q] = object[q]
  <1> DEFINE k == object[o].cmd
  <1>1. Exists(o) /\ object[o].restarter = "wait" /\ object[o] \in Objects
    BY Values DEF WaitReturns, TypeInv, Exists
  <1>2. k \in Mine(o) /\ ~proc[k].up /\ (proc[k].told \/ ~proc[k].open)
    BY <1>1 DEF WaitReturns, TypeInv, RefInv, ObjectRefs
  <1>3. k \in Started /\ proc[k] \in Processes
    BY <1>2, Values DEF Mine, TypeInv
  <1>4. /\ [proc[k] EXCEPT !.open = FALSE] \in Processes
        /\ [proc[k] EXCEPT !.open = FALSE].object = proc[k].object
    BY <1>3 DEF Processes
  <1>5. proc' = [proc EXCEPT ![k] = [proc[k] EXCEPT !.open = FALSE]]
    BY DEF WaitReturns
  <1>6. [object[o] EXCEPT !.restarter = "start"] \in Objects
    BY <1>1 DEF Objects
  <1>7. object' = [object EXCEPT ![o] = [object[o] EXCEPT !.restarter = "start"]]
    BY DEF WaitReturns
  <1> HIDE DEF k
  <1>8. /\ SameProcs /\ proc' \in [Procs -> Processes \cup {NoProcess}]
        /\ proc'[k] = [proc[k] EXCEPT !.open = FALSE]
        /\ \A q \in Procs \ {k} : proc'[q] = proc[q]
    BY <1>3, <1>4, <1>5, ProcSet DEF TypeInv
  <1>9. /\ object' \in [Procs -> Objects \cup {NoObject}]
        /\ object'[o] = [object[o] EXCEPT !.restarter = "start"]
        /\ \A q \in Procs \ {o} : object'[q] = object[q]
    BY <1>6, <1>7, ObjectSet DEF TypeInv
  <1> QED
    BY <1>1, <1>2, <1>8, <1>9 DEF k

\* One object changes, and not what it is named by.
LEMMA ObjectGrows ==
    ASSUME TypeInv, SameProcs, NEW o \in Procs, Exists(o), object'[o] \in Objects,
           \A q \in Procs \ {o} : object'[q] = object[q],
           object'[o].server = object[o].server, object[o].client => object'[o].client,
           object[o].rpc # None => object'[o].rpc # None
    PROVE  Grows /\ Started' = Started
  <1>1. Exists(o)'
    BY Values DEF Exists, TypeInv
  <1> QED
    BY <1>1 DEF Grows, SameProcs, Exists

LEMMA WaitReturnsTypes == ASSUME TypeInv, NEW o \in Procs, WaitReturns(o) PROVE TypeInv'
  <1>1. /\ object[o] \in Objects /\ object'[o] = [object[o] EXCEPT !.restarter = "start"]
        /\ SameProcs /\ Exists(o) /\ \A q \in Procs \ {o} : object'[q] = object[q]
        /\ object[o].restarter = "wait"
    BY WaitReturnsEffect, Values DEF TypeInv
  <1>2. /\ object'[o] \in Objects /\ object'[o].cmd = object[o].cmd
        /\ object'[o].server = object[o].server /\ object'[o].client = object[o].client
        /\ object'[o].rpc = object[o].rpc /\ object'[o].stub = object[o].stub
    BY <1>1 DEF Objects
  <1>3. Grows /\ Started' = Started
    BY <1>1, <1>2, ObjectGrows
  <1>4. ObjectRefs(o)'
    BY <1>1, <1>2, <1>3, MineGrows DEF ObjectRefs, TypeInv, RefInv
  <1>5. RefInv'
    BY <1>1, <1>3, <1>4, Kept DEF WaitReturns, RefInv
  <1> QED
    BY <1>5, WaitReturnsEffect, Referred DEF WaitReturns, TypeInv, TypeOK, bounds


\* The first process of an object has one; the others are started for it.
RestartStep(o, p) ==
    /\ Exists(o) /\ object[o].restarter = "start"
    /\ p \notin Started /\ Started' = Started \cup {p} /\ p # o
    /\ proc' \in [Procs -> Processes \cup {NoProcess}]
    /\ proc'[p] = Fresh(o) /\ \A q \in Procs \ {p} : proc'[q] = proc[q]
    /\ object' \in [Procs -> Objects \cup {NoObject}]
    /\ object'[o] = [object[o] EXCEPT !.cmd = p, !.restarter = "wait"]
    /\ \A q \in Procs \ {o} : object'[q] = object[q]
    /\ \A q \in Procs : Exists(q)' = Exists(q)
    /\ init' \in [Procs -> Inits]
    /\ init'[p] = [pc |-> "conn", conn |-> None, pending |-> None]
    /\ \A q \in Procs \ {p} : init'[q] = init[q]

LEMMA RestartEffect == ASSUME TypeInv, NEW o \in Procs, Restart(o) PROVE \E p \in Procs : RestartStep(o, p)
  <1> DEFINE New(p) == [object[o] EXCEPT !.cmd = p, !.restarter = "wait"]
  <1>1. PICK p \in Procs :
            /\ Started = 1..(p - 1) /\ NewProcess(p, o)
            /\ object' = [object EXCEPT ![o].cmd = p, ![o].restarter = "wait"]
            /\ init' = [init EXCEPT ![p].pc = "conn"]
    BY DEF Restart
  <1>2. Exists(o) /\ object[o].restarter = "start" /\ object[o] \in Objects
    BY Values DEF Restart, Exists, TypeInv
  <1>3. New(p) \in Objects
    BY <1>2 DEF Objects
  <1>4. /\ proc' \in [Procs -> Processes \cup {NoProcess}]
        /\ p \notin Started /\ Started' = Started \cup {p}
        /\ proc'[p] = Fresh(o) /\ \A q \in Procs \ {p} : proc'[q] = proc[q]
    BY <1>1, ProcNew DEF TypeInv
  <1>5. object' = [object EXCEPT ![o] = New(p)]
    BY <1>1 DEF TypeInv, TypeOK
  <1> HIDE DEF New
  <1>6. /\ object' \in [Procs -> Objects \cup {NoObject}]
        /\ object'[o] = New(p) /\ \A q \in Procs \ {o} : object'[q] = object[q]
        /\ Exists(o)'
    BY <1>3, <1>5, ObjectSet DEF TypeInv
  <1>7. p # o
    BY <1>2, <1>4 DEF TypeInv, RefInv, ObjectRefs, Mine
  <1>8. \A q \in Procs : Exists(q)' = Exists(q)
    BY <1>2, <1>6 DEF Exists
  <1>9. init[p] = NoInit
    BY <1>4 DEF TypeInv, RefInv, InitRefs
  <1>10. init' = [init EXCEPT ![p] = [pc |-> "conn", conn |-> None, pending |-> None]]
    <2>1. [NoInit EXCEPT !.pc = "conn"] = [pc |-> "conn", conn |-> None, pending |-> None]
      BY DEF NoInit
    <2>2. init' = [init EXCEPT ![p] = [init[p] EXCEPT !.pc = "conn"]]
      BY <1>1 DEF TypeInv, TypeOK
    <2> QED
      BY <1>9, <2>1, <2>2
  <1>11. [pc |-> "conn", conn |-> None, pending |-> None] \in Inits
    BY DEF Inits
  <1>12. /\ init' \in [Procs -> Inits]
         /\ init'[p] = [pc |-> "conn", conn |-> None, pending |-> None]
         /\ \A q \in Procs \ {p} : init'[q] = init[q]
    BY <1>10, <1>11, InitSet DEF TypeInv
  <1> QED
    BY <1>2, <1>4, <1>6, <1>7, <1>8, <1>12 DEF New, RestartStep

\* What a restart leaves of the object.
LEMMA RestartKeeps ==
    ASSUME TypeInv, NEW o \in Procs, NEW p \in Procs, RestartStep(o, p)
    PROVE  /\ object'[o].cmd = p /\ object'[o].restarter = "wait"
           /\ object'[o].server = object[o].server /\ object'[o].client = object[o].client
           /\ object'[o].rpc = object[o].rpc /\ object'[o].stub = object[o].stub
           /\ object'[o].folders = object[o].folders
           /\ Grows
  <1>1. object[o] \in Objects
    BY Values DEF RestartStep, TypeInv
  <1>2. /\ object'[o].cmd = p /\ object'[o].restarter = "wait"
        /\ object'[o].server = object[o].server /\ object'[o].client = object[o].client
        /\ object'[o].rpc = object[o].rpc /\ object'[o].stub = object[o].stub
        /\ object'[o].folders = object[o].folders
    BY <1>1 DEF RestartStep, Objects
  <1>3. Grows
    <2>1. \A q \in Started : q \in Procs /\ q # p
      BY DEF RestartStep, Started
    <2>2. \A q \in Procs : Exists(q) =>
              /\ Exists(q)' /\ object'[q].server = object[q].server
              /\ object'[q].client = object[q].client /\ object'[q].rpc = object[q].rpc
      BY <1>2 DEF RestartStep
    <2> QED
      BY <2>1, <2>2 DEF RestartStep, Grows
  <1> QED
    BY <1>2, <1>3

LEMMA RestartTypes == ASSUME TypeInv, NEW o \in Procs, Restart(o) PROVE TypeInv'
  <1>1. PICK p \in Procs : RestartStep(o, p)
    BY RestartEffect
  <1>2. Grows
    BY <1>1, RestartKeeps
  <1>3. p \in Mine(o)' /\ proc'[p].object = o /\ p \in Started'
    BY <1>1 DEF RestartStep, Mine, Fresh
  <1>4. ObjectRefs(o)'
    <2>1. ObjectRefs(o) /\ Exists(o) /\ Mine(o) \subseteq Mine(o)' /\ o \in Mine(o)'
      BY <1>1, <1>2, MineGrows DEF RestartStep, TypeInv, RefInv, ObjectRefs
    <2>2. /\ object'[o].cmd = p /\ object'[o].client = object[o].client
          /\ object'[o].rpc = object[o].rpc /\ object'[o].stub = object[o].stub
      BY <1>1, RestartKeeps
    <2> QED
      BY <1>3, <2>1, <2>2, NoneIsNothing DEF ObjectRefs
  <1>5. InitRefs(p)'
    BY <1>1, <1>3 DEF RestartStep, InitRefs
  <1>6. RefInv'
    <2>1. \A q \in Procs : ObjectRefs(q)'
      BY <1>1, <1>2, <1>4, Kept DEF RestartStep
    <2>2. \A q \in Procs : InitRefs(q)'
      BY <1>1, <1>2, <1>5, Kept DEF RestartStep
    <2> QED
      BY <1>2, <2>1, <2>2, Kept DEF RefInv, Restart
  <1> QED
    BY <1>1, <1>6, Referred DEF RestartStep, Restart, TypeInv, TypeOK, bounds

LEMMA RestartFailsEffect ==
    ASSUME TypeInv, NEW o \in Procs, RestartFails(o)
    PROVE  /\ Exists(o) /\ object[o].restarter = "start"
           /\ object' \in [Procs -> Objects \cup {NoObject}] /\ object'[o] \in Objects
           /\ object'[o].cmd = None /\ object'[o].restarter = "stopped"
           /\ object'[o].server = object[o].server /\ object'[o].client = object[o].client
           /\ object'[o].rpc = object[o].rpc /\ object'[o].stub = object[o].stub
           /\ object'[o].folders = object[o].folders
           /\ \A q \in Procs \ {o} : object'[q] = object[q]
  <1> DEFINE new == [object[o] EXCEPT !.cmd = None, !.restarter = "stopped"]
  <1>1. Exists(o) /\ object[o].restarter = "start" /\ object[o] \in Objects
    BY Values DEF RestartFails, Exists, TypeInv
  <1>2. /\ new \in Objects /\ new.cmd = None /\ new.restarter = "stopped"
        /\ new.server = object[o].server /\ new.client = object[o].client
        /\ new.rpc = object[o].rpc /\ new.stub = object[o].stub /\ new.folders = object[o].folders
    BY <1>1 DEF Objects
  <1>3. object' = [object EXCEPT ![o] = new]
    BY DEF RestartFails, TypeInv, TypeOK
  <1> HIDE DEF new
  <1> QED
    BY <1>1, <1>2, <1>3, ObjectSet DEF TypeInv

LEMMA RestartFailsTypes == ASSUME TypeInv, NEW o \in Procs, RestartFails(o) PROVE TypeInv'
  <1>1. SameProcs
    BY NothingProcs DEF RestartFails
  <1>2. Grows /\ Started' = Started
    BY <1>1, RestartFailsEffect, ObjectGrows
  <1>3. ObjectRefs(o)'
    BY <1>2, RestartFailsEffect, MineGrows DEF ObjectRefs, TypeInv, RefInv
  <1>4. RefInv'
    <2>1. \A q \in Procs : ObjectRefs(q)'
      BY <1>2, <1>3, Kept, RestartFailsEffect
    <2> QED
      BY <1>2, <2>1, Kept DEF RestartFails, RefInv
  <1> QED
    BY <1>4, RestartFailsEffect, Referred DEF RestartFails, TypeInv, TypeOK


-----------------------------------------------------------------------------
(* An initialisation.                                                      *)

\* An initialisation that has begun is of a process, of an object.
LEMMA InitOf ==
    ASSUME TypeInv, NEW p \in Procs, init[p].pc # "none"
    PROVE  /\ p \in Started /\ proc[p] \in Processes /\ init[p] \in Inits
           /\ proc[p].object \in Procs /\ Exists(proc[p].object)
           /\ object[proc[p].object] \in Objects
  <1>1. p \in Started
    BY DEF TypeInv, RefInv, InitRefs, NoInit
  <1>2. proc[p].object \in Procs /\ Exists(proc[p].object)
    BY <1>1, Values DEF TypeInv, RefInv, InitRefs
  <1> QED
    BY <1>1, <1>2, Values DEF TypeInv

\* The next step of an initialisation.
LEMMA InitPc ==
    ASSUME TypeInv, NEW p \in Procs, init[p].pc # "none",
           NEW pc \in {"call", "pending", "notify", "store", "fail", "done"},
           init' = [init EXCEPT ![p].pc = pc]
    PROVE  /\ init' \in [Procs -> Inits]
           /\ init'[p].pc = pc /\ init'[p].conn = init[p].conn /\ init'[p].pending = init[p].pending
           /\ \A q \in Procs \ {p} : init'[q] = init[q]
  <1> DEFINE i == [init[p] EXCEPT !.pc = pc]
  <1>1. init[p] \in Inits
    BY DEF TypeInv, TypeOK
  <1>2. i \in Inits /\ i.pc = pc /\ i.conn = init[p].conn /\ i.pending = init[p].pending
    BY <1>1 DEF Inits
  <1>3. init' = [init EXCEPT ![p] = i]
    BY DEF TypeInv, TypeOK
  <1> HIDE DEF i
  <1> QED
    BY <1>2, <1>3, InitSet DEF TypeInv

InitConnStep(p) ==
    LET o == proc[p].object
        k == object[o].cmd
    IN  /\ init[p].pc = "conn" /\ k \in Mine(o) /\ (First(p) \/ object[o].client)
        /\ init' \in [Procs -> Inits]
        /\ init'[p].pc = "call" /\ init'[p].conn = k /\ init'[p].pending = init[p].pending
        /\ \A q \in Procs \ {p} : init'[q] = init[q]
        /\ object' \in [Procs -> Objects \cup {NoObject}] /\ object'[o] \in Objects
        /\ object'[o].rpc = k
        /\ object'[o].cmd = object[o].cmd /\ object'[o].restarter = object[o].restarter
        /\ object'[o].server = object[o].server /\ object'[o].client = object[o].client
        /\ object'[o].stub = object[o].stub /\ object'[o].folders = object[o].folders
        /\ \A q \in Procs \ {o} : object'[q] = object[q]
        /\ SameProcs /\ proc' \in [Procs -> Processes \cup {NoProcess}]
        /\ object[o].rpc # None => proc'[object[o].rpc] = [proc[object[o].rpc] EXCEPT !.open = FALSE]
        /\ \A q \in Procs : q # object[o].rpc => proc'[q] = proc[q]
        /\ UNCHANGED panicked

LEMMA InitConnEffect ==
    ASSUME TypeInv, NEW p \in Procs, InitConn(p)
    PROVE  \/ IsNil(p) /\ panicked' = TRUE /\ UNCHANGED <<object, init, proc>>
           \/ InitConnStep(p)
  <1> DEFINE o == proc[p].object
             k == object[o].cmd
             r == object[o].rpc
  <1>1. init[p].pc = "conn"
    BY DEF InitConn
  <1>2. /\ p \in Started /\ init[p] \in Inits /\ o \in Procs /\ Exists(o) /\ object[o] \in Objects
    BY <1>1, InitOf
  <1> SUFFICES ASSUME ~IsNil(p) PROVE InitConnStep(p)
    BY DEF InitConn
  <1>3. k # None /\ (First(p) \/ object[o].client)
    BY DEF IsNil
  <1>4. k \in Mine(o) /\ r \in Mine(o) \cup {None}
    BY <1>2, <1>3 DEF TypeInv, RefInv, ObjectRefs
  <1>5. k \in Procs
    BY <1>4, Values DEF Mine, TypeInv
  <1>6. /\ init' \in [Procs -> Inits]
        /\ init'[p].pc = "call" /\ init'[p].conn = k /\ init'[p].pending = init[p].pending
        /\ \A q \in Procs \ {p} : init'[q] = init[q]
    <2> DEFINE i == [init[p] EXCEPT !.pc = "call", !.conn = k]
    <2>1. i \in Inits /\ i.pc = "call" /\ i.conn = k /\ i.pending = init[p].pending
      BY <1>2, <1>5 DEF Inits
    <2>2. init' = [init EXCEPT ![p] = i]
      BY DEF InitConn, TypeInv, TypeOK
    <2> HIDE DEF i, k
    <2> QED
      BY <2>1, <2>2, InitSet DEF TypeInv
  <1>7. /\ object' \in [Procs -> Objects \cup {NoObject}] /\ object'[o] \in Objects
        /\ object'[o] = [object[o] EXCEPT !.rpc = k]
        /\ \A q \in Procs \ {o} : object'[q] = object[q]
    <2> DEFINE v == [object[o] EXCEPT !.rpc = k]
    <2>1. v \in Objects
      BY <1>2, <1>5 DEF Objects
    <2>2. object' = [object EXCEPT ![o] = v]
      BY DEF InitConn
    <2> HIDE DEF v
    <2>3. object'[o] = v /\ object' \in [Procs -> Objects \cup {NoObject}]
          /\ \A q \in Procs \ {o} : object'[q] = object[q]
      BY <1>2, <2>1, <2>2, ObjectSet DEF TypeInv
    <2> QED
      BY <2>1, <2>3 DEF v
  <1>8. /\ object'[o].rpc = k
        /\ object'[o].cmd = object[o].cmd /\ object'[o].restarter = object[o].restarter
        /\ object'[o].server = object[o].server /\ object'[o].client = object[o].client
        /\ object'[o].stub = object[o].stub /\ object'[o].folders = object[o].folders
    BY <1>2, <1>7 DEF Objects
  <1>9. proc' = [q \in Procs |-> IF q = r THEN [proc[q] EXCEPT !.open = FALSE] ELSE proc[q]]
    BY DEF InitConn
  <1>10. /\ SameProcs /\ proc' \in [Procs -> Processes \cup {NoProcess}]
         /\ r # None => proc'[r] = [proc[r] EXCEPT !.open = FALSE]
         /\ \A q \in Procs : q # r => proc'[q] = proc[q]
    <2>1. CASE r = None
      <3>1. proc' = proc
        BY <1>9, <2>1, NoneIsNothing DEF TypeInv, TypeOK
      <3> QED
        BY <2>1, <3>1, NothingProcs DEF TypeInv, TypeOK
    <2>2. CASE r # None
      <3>1. r \in Started /\ r \in Procs /\ proc[r] \in Processes
        BY <1>4, <2>2, Values DEF Mine, TypeInv
      <3>2. /\ [proc[r] EXCEPT !.open = FALSE] \in Processes
            /\ [proc[r] EXCEPT !.open = FALSE].object = proc[r].object
        BY <3>1 DEF Processes
      <3>3. proc' = [proc EXCEPT ![r] = [proc[r] EXCEPT !.open = FALSE]]
        BY <1>9, <3>1 DEF TypeInv, TypeOK
      <3> HIDE DEF r
      <3> QED
        BY <3>1, <3>2, <3>3, ProcSet DEF TypeInv
    <2> QED
      BY <2>1, <2>2
  <1>11. UNCHANGED panicked
    BY DEF InitConn
  <1> QED
    BY <1>1, <1>3, <1>4, <1>6, <1>7, <1>8, <1>10, <1>11 DEF InitConnStep

LEMMA InitConnTypes == ASSUME TypeInv, NEW p \in Procs, InitConn(p) PROVE TypeInv'
  <1>1. CASE panicked' = TRUE /\ UNCHANGED <<object, init, proc>>
    <2>1. Grows /\ Started' = Started
      BY <1>1, NothingProcs DEF Grows, SameProcs, Exists
    <2>2. RefInv'
      BY <1>1, <2>1, Kept DEF InitConn, RefInv
    <2> QED
      BY <1>1, <2>2, Referred DEF InitConn, TypeInv, TypeOK, bounds
  <1>2. CASE InitConnStep(p)
    <2>0. init[p].pc # "none"
      BY DEF InitConn
    <2> PICK o \in Procs : o = proc[p].object
      BY <2>0, InitOf
    <2>1. p \in Started /\ Exists(o)
      BY <2>0, InitOf
    <2>2. object[o].cmd \in Mine(o) /\ object[o].cmd # None
      BY <1>2, NoneIsNothing DEF InitConnStep, Mine, Started
    <2>3. Grows /\ Started' = Started
      BY <1>2, <2>1, <2>2, ObjectGrows DEF InitConnStep
    <2>4. Mine(o) \subseteq Mine(o)' /\ proc'[p].object = o /\ Exists(o)'
      BY <2>1, <2>3, MineGrows DEF Grows
    <2>5. ObjectRefs(o)'
      <3>1. ObjectRefs(o)
        BY <2>1 DEF TypeInv, RefInv
      <3>2. /\ object'[o].rpc = object[o].cmd /\ object'[o].cmd = object[o].cmd
            /\ object'[o].restarter = object[o].restarter
            /\ object'[o].client = object[o].client /\ object'[o].stub = object[o].stub
        BY <1>2 DEF InitConnStep
      <3> QED
        BY <2>1, <2>2, <2>4, <3>1, <3>2 DEF ObjectRefs
    <2>6. InitRefs(p)'
      <3>1. init[p].pending \in Mine(o) \cup {None}
        BY <2>1 DEF TypeInv, RefInv, InitRefs
      <3>2. /\ init'[p].pc = "call" /\ init'[p].conn = object[o].cmd
            /\ init'[p].pending = init[p].pending /\ object'[o].rpc = object[o].cmd
        BY <1>2 DEF InitConnStep
      <3> QED
        BY <2>1, <2>2, <2>3, <2>4, <3>1, <3>2 DEF InitRefs
    <2>7. RefInv'
      <3>1. \A q \in Procs : ObjectRefs(q)'
        BY <1>2, <2>3, <2>5, Kept DEF InitConnStep
      <3>2. \A q \in Procs : InitRefs(q)'
        BY <1>2, <2>3, <2>6, Kept DEF InitConnStep
      <3> QED
        BY <2>3, <3>1, <3>2, Kept DEF InitConn, RefInv
    <2> QED
      BY <1>2, <2>7, Referred DEF InitConnStep, InitConn, TypeInv, TypeOK, bounds
  <1> QED
    BY <1>1, <1>2, InitConnEffect


\* A message to the process k, that does f to one that is up.
Hears(k, q) ==
    /\ k \in Started /\ proc[k].open /\ proc' = [proc EXCEPT ![k] = q]
    /\ ~proc[k].up => q = [proc[k] EXCEPT !.told = TRUE]

LEMMA HearsKeeps ==
    ASSUME TypeInv, NEW k \in Procs, NEW q, Hears(k, q),
           proc[k].up => q \in Processes /\ q.object = proc[k].object
    PROVE  /\ SameProcs /\ proc' \in [Procs -> Processes \cup {NoProcess}]
           /\ proc'[k] = q /\ \A p \in Procs \ {k} : proc'[p] = proc[p]
  <1>1. proc[k] \in Processes /\ k \in Started
    BY Values DEF Hears, TypeInv
  <1>2. q \in Processes /\ q.object = proc[k].object
    <2>1. CASE proc[k].up
      BY <2>1
    <2>2. CASE ~proc[k].up
      BY <1>1, <2>2 DEF Hears, Processes
    <2> QED
      BY <2>1, <2>2
  <1> QED
    BY <1>1, <1>2, ProcSet DEF Hears, TypeInv

WhenAsked(k, o) == [proc[k] EXCEPT !.asked = @ + 1, !.folders = object[o].folders]
Initialized(k) == [proc[k] EXCEPT !.ready = TRUE]

LEMMA AskedType ==
    ASSUME TypeInv, NEW k \in Started, NEW o \in Procs, Exists(o)
    PROVE  /\ WhenAsked(k, o) \in Processes /\ Initialized(k) \in Processes
           /\ WhenAsked(k, o).object = proc[k].object /\ Initialized(k).object = proc[k].object
           /\ WhenAsked(k, o).up = proc[k].up /\ Initialized(k).up = proc[k].up
           /\ WhenAsked(k, o).open = proc[k].open /\ Initialized(k).open = proc[k].open
           /\ WhenAsked(k, o).told = proc[k].told /\ Initialized(k).told = proc[k].told
           /\ WhenAsked(k, o).ready = proc[k].ready /\ Initialized(k).ready = TRUE
           /\ WhenAsked(k, o).asked = proc[k].asked + 1 /\ Initialized(k).asked = proc[k].asked
           /\ WhenAsked(k, o).folders = object[o].folders /\ Initialized(k).folders = proc[k].folders
  <1>1. proc[k] \in Processes /\ object[o] \in Objects
    BY Values DEF TypeInv
  <1>2. object[o].folders \subseteq Folders
    BY <1>1 DEF Objects
  <1>3. proc[k].asked + 1 \in Nat
    BY <1>1 DEF Processes
  <1>4. Initialized(k) \in Processes
    BY <1>1 DEF Initialized, Processes
  <1>5. WhenAsked(k, o) \in Processes
    BY <1>1, <1>2, <1>3 DEF WhenAsked, Processes
  <1> QED
    BY <1>1, <1>4, <1>5 DEF WhenAsked, Initialized, Processes

LEMMA InitCallEffect ==
    ASSUME TypeInv, NEW p \in Procs, InitCall(p)
    PROVE  LET o == proc[p].object
               k == object[o].rpc
           IN  /\ init[p].pc = "call" /\ k \in Mine(o) /\ k \in Procs
               /\ init' \in [Procs -> Inits]
               /\ \A q \in Procs \ {p} : init'[q] = init[q]
               /\ init'[p].conn = init[p].conn
               /\ SameProcs /\ proc' \in [Procs -> Processes \cup {NoProcess}]
               /\ \A q \in Procs \ {k} : proc'[q] = proc[q]
               /\ \/ /\ proc[k].open /\ init'[p].pc = "pending" /\ init'[p].pending = k
                     /\ proc[k].up => proc'[k] = WhenAsked(k, o)
                     /\ ~proc[k].up => proc'[k] = [proc[k] EXCEPT !.told = TRUE]
                  \/ /\ ~proc[k].open /\ init'[p].pc = "fail"
                     /\ init'[p].pending = init[p].pending /\ UNCHANGED proc
  <1> DEFINE o == proc[p].object
             k == object[o].rpc
  <1>1. init[p].pc = "call"
    BY DEF InitCall
  <1>2. /\ p \in Started /\ init[p] \in Inits /\ o \in Procs /\ Exists(o) /\ object[o] \in Objects
    BY <1>1, InitOf
  <1>3. k # None
    BY <1>1, <1>2 DEF TypeInv, RefInv, InitRefs
  <1>4. k \in Mine(o)
    BY <1>2, <1>3 DEF TypeInv, RefInv, ObjectRefs
  <1>5. k \in Procs /\ k \in Started
    BY <1>4, Values DEF Mine, TypeInv
  <1>6. CASE proc[k].open
    <2>1. /\ init' \in [Procs -> Inits] /\ \A q \in Procs \ {p} : init'[q] = init[q]
          /\ init'[p].conn = init[p].conn /\ init'[p].pc = "pending" /\ init'[p].pending = k
      <3> DEFINE i == [init[p] EXCEPT !.pc = "pending", !.pending = k]
      <3>1. i \in Inits /\ i.pc = "pending" /\ i.conn = init[p].conn /\ i.pending = k
        BY <1>2, <1>5 DEF Inits
      <3>2. init' = [init EXCEPT ![p] = i]
        BY <1>6 DEF InitCall, TypeInv, TypeOK
      <3> HIDE DEF i, k
      <3> QED
        BY <3>1, <3>2, InitSet DEF TypeInv
    <2> DEFINE q0 == IF proc[k].up THEN WhenAsked(k, o) ELSE [proc[k] EXCEPT !.told = TRUE]
    <2>2. proc' = [proc EXCEPT ![k] = q0]
      BY <1>6 DEF InitCall, Written, WhenAsked
    <2>3. Hears(k, q0)
      BY <1>5, <1>6, <2>2 DEF Hears
    <2>4. proc[k].up => q0 \in Processes /\ q0.object = proc[k].object
      BY <1>2, <1>5, AskedType
    <2>5. /\ SameProcs /\ proc' \in [Procs -> Processes \cup {NoProcess}]
          /\ proc'[k] = q0 /\ \A q \in Procs \ {k} : proc'[q] = proc[q]
      <3> HIDE DEF q0, k
      <3> QED
        BY <1>5, <2>3, <2>4, HearsKeeps
    <2> QED
      BY <1>1, <1>4, <1>5, <1>6, <2>1, <2>5
  <1>7. CASE ~proc[k].open
    <2>1. init' = [init EXCEPT ![p].pc = "fail"] /\ UNCHANGED proc
      BY <1>7 DEF InitCall
    <2>2. /\ init' \in [Procs -> Inits] /\ init'[p].pc = "fail"
          /\ init'[p].conn = init[p].conn /\ init'[p].pending = init[p].pending
          /\ \A q \in Procs \ {p} : init'[q] = init[q]
      BY <1>1, <2>1, InitPc
    <2> QED
      BY <1>1, <1>4, <1>5, <1>7, <2>1, <2>2, NothingProcs DEF TypeInv, TypeOK
  <1> QED
    BY <1>6, <1>7

\* A step of an initialisation that leaves the object alone.
LEMMA InitStepTypes ==
    ASSUME TypeInv, NEW p \in Procs, init[p].pc \notin {"none", "conn", "done"},
           SameProcs, proc' \in [Procs -> Processes \cup {NoProcess}],
           init' \in [Procs -> Inits], \A q \in Procs \ {p} : init'[q] = init[q],
           init'[p].conn = init[p].conn, init'[p].pc \notin {"none", "conn"},
           \/ init'[p].pending = init[p].pending /\ init'[p].pc # "pending"
           \/ init'[p].pending \in Mine(proc[p].object),
           UNCHANGED <<user, info, workspaces, object, panicked, overlapped, early>>
    PROVE  TypeInv'
  <1> PICK o \in Procs : o = proc[p].object
    BY InitOf
  <1>1. p \in Started /\ Exists(o)
    BY InitOf
  <1>2. Grows /\ Started' = Started
    BY DEF Grows, SameProcs, Exists
  <1>3. Mine(o) \subseteq Mine(o)' /\ proc'[p].object = o /\ Exists(o)' /\ None \notin Mine(o)
    BY <1>1, <1>2, MineGrows, NoneIsNothing DEF Grows, Mine, Started
  <1>4. InitRefs(p)'
    <2>1. /\ init[p].conn \in Mine(o) \cup {None} /\ init[p].pending \in Mine(o) \cup {None}
          /\ object[o].rpc # None /\ init[p].conn # None
      BY <1>1 DEF TypeInv, RefInv, InitRefs
    <2>2. init'[p].pending \in Mine(o)' \cup {None} /\ (init'[p].pc = "pending" => init'[p].pending # None)
      BY <1>3, <2>1
    <2> QED
      BY <1>1, <1>2, <1>3, <2>1, <2>2 DEF InitRefs
  <1>5. RefInv'
    <2>1. \A q \in Procs : InitRefs(q)'
      BY <1>2, <1>4, Kept
    <2> QED
      BY <1>2, <2>1, Kept DEF RefInv
  <1> QED
    BY <1>5, Referred DEF TypeInv, TypeOK

LEMMA InitCallTypes == ASSUME TypeInv, NEW p \in Procs, InitCall(p) PROVE TypeInv'
  BY InitCallEffect, InitStepTypes DEF InitCall, bounds


LEMMA InitAnswerEffect ==
    ASSUME TypeInv, NEW p \in Procs, InitAnswer(p)
    PROVE  LET q == proc[init[p].pending]
           IN  /\ init[p].pc = "pending" /\ (q.open => q.up)
               /\ init' \in [Procs -> Inits]
               /\ init'[p].conn = init[p].conn /\ init'[p].pending = init[p].pending
               /\ \A r \in Procs \ {p} : init'[r] = init[r]
               /\ \/ q.open /\ init'[p].pc = "notify" /\ UNCHANGED refusals
                  \/ ~q.open /\ init'[p].pc = "fail" /\ UNCHANGED refusals
                  \/ q.open /\ init'[p].pc = "fail" /\ refusals' = refusals + 1
  <1>1. init[p].pc = "pending"
    BY DEF InitAnswer
  <1>2. PICK pc \in {"notify", "fail"} :
            /\ init' = [init EXCEPT ![p].pc = pc]
            /\ LET q == proc[init[p].pending]
               IN  /\ q.open => q.up
                   /\ \/ q.open /\ pc = "notify" /\ UNCHANGED refusals
                      \/ ~q.open /\ pc = "fail" /\ UNCHANGED refusals
                      \/ q.open /\ pc = "fail" /\ refusals' = refusals + 1
    BY DEF InitAnswer
  <1>3. /\ init' \in [Procs -> Inits] /\ init'[p].pc = pc
        /\ init'[p].conn = init[p].conn /\ init'[p].pending = init[p].pending
        /\ \A r \in Procs \ {p} : init'[r] = init[r]
    BY <1>1, <1>2, InitPc
  <1> QED
    BY <1>1, <1>2, <1>3

LEMMA InitAnswerTypes == ASSUME TypeInv, NEW p \in Procs, InitAnswer(p) PROVE TypeInv'
  <1>1. SameProcs /\ proc' \in [Procs -> Processes \cup {NoProcess}]
    BY NothingProcs DEF InitAnswer, TypeInv, TypeOK
  <1>2. init'[p].pc \notin {"none", "conn", "pending"} /\ init[p].pc = "pending"
    BY InitAnswerEffect
  <1> QED
    BY <1>1, <1>2, InitAnswerEffect, InitStepTypes DEF InitAnswer

LEMMA InitNotifyEffect ==
    ASSUME TypeInv, NEW p \in Procs, InitNotify(p)
    PROVE  LET k == init[p].conn
           IN  /\ init[p].pc = "notify" /\ k \in Mine(proc[p].object) /\ k \in Procs
               /\ init' \in [Procs -> Inits]
               /\ init'[p].conn = init[p].conn /\ init'[p].pending = init[p].pending
               /\ \A q \in Procs \ {p} : init'[q] = init[q]
               /\ SameProcs /\ proc' \in [Procs -> Processes \cup {NoProcess}]
               /\ \A q \in Procs \ {k} : proc'[q] = proc[q]
               /\ \/ /\ proc[k].open /\ init'[p].pc = "store"
                     /\ proc[k].up => proc'[k] = Initialized(k)
                     /\ ~proc[k].up => proc'[k] = [proc[k] EXCEPT !.told = TRUE]
                  \/ ~proc[k].open /\ init'[p].pc = "fail" /\ UNCHANGED proc
  <1> DEFINE o == proc[p].object
             k == init[p].conn
  <1>1. init[p].pc = "notify"
    BY DEF InitNotify
  <1>2. p \in Started /\ o \in Procs /\ Exists(o)
    BY <1>1, InitOf
  <1>3. k \in Mine(o)
    BY <1>1, <1>2 DEF TypeInv, RefInv, InitRefs
  <1>4. k \in Procs /\ k \in Started
    BY <1>3, Values DEF Mine, TypeInv
  <1>5. CASE proc[k].open
    <2>1. /\ init' \in [Procs -> Inits] /\ init'[p].pc = "store"
          /\ init'[p].conn = init[p].conn /\ init'[p].pending = init[p].pending
          /\ \A q \in Procs \ {p} : init'[q] = init[q]
      BY <1>1, <1>5, InitPc DEF InitNotify
    <2> DEFINE q0 == IF proc[k].up THEN Initialized(k) ELSE [proc[k] EXCEPT !.told = TRUE]
    <2>2. proc' = [proc EXCEPT ![k] = q0]
      BY <1>5 DEF InitNotify, Written, Initialized
    <2>3. Hears(k, q0)
      BY <1>4, <1>5, <2>2 DEF Hears
    <2>4. proc[k].up => q0 \in Processes /\ q0.object = proc[k].object
      BY <1>2, <1>4, AskedType
    <2>5. /\ SameProcs /\ proc' \in [Procs -> Processes \cup {NoProcess}]
          /\ proc'[k] = q0 /\ \A q \in Procs \ {k} : proc'[q] = proc[q]
      <3> HIDE DEF q0, k
      <3> QED
        BY <1>4, <2>3, <2>4, HearsKeeps
    <2> QED
      BY <1>1, <1>3, <1>4, <1>5, <2>1, <2>5
  <1>6. CASE ~proc[k].open
    <2>1. init' = [init EXCEPT ![p].pc = "fail"] /\ UNCHANGED proc
      BY <1>6 DEF InitNotify
    <2>2. /\ init' \in [Procs -> Inits] /\ init'[p].pc = "fail"
          /\ init'[p].conn = init[p].conn /\ init'[p].pending = init[p].pending
          /\ \A q \in Procs \ {p} : init'[q] = init[q]
      BY <1>1, <2>1, InitPc
    <2> QED
      BY <1>1, <1>3, <1>4, <1>6, <2>1, <2>2, NothingProcs DEF TypeInv, TypeOK
  <1> QED
    BY <1>5, <1>6

LEMMA InitNotifyTypes == ASSUME TypeInv, NEW p \in Procs, InitNotify(p) PROVE TypeInv'
  <1>1. init[p].pc = "notify" /\ init'[p].pc \in {"store", "fail"}
    BY InitNotifyEffect
  <1> QED
    BY <1>1, InitNotifyEffect, InitStepTypes DEF InitNotify, bounds

InitStoreStep(p, o) ==
    /\ p \in Started /\ Exists(o) /\ init[p].pc = "store" /\ init[p].conn \in Mine(o)
    /\ init' \in [Procs -> Inits]
    /\ init'[p].pc = "done" /\ init'[p].conn = init[p].conn /\ init'[p].pending = init[p].pending
    /\ \A q \in Procs \ {p} : init'[q] = init[q]
    /\ object' \in [Procs -> Objects \cup {NoObject}] /\ object'[o] \in Objects
    /\ object'[o].stub = init[p].conn /\ object'[o].client = TRUE
    /\ object'[o].cmd = object[o].cmd /\ object'[o].restarter = object[o].restarter
    /\ object'[o].server = object[o].server /\ object'[o].rpc = object[o].rpc
    /\ object'[o].folders = object[o].folders
    /\ \A q \in Procs \ {o} : object'[q] = object[q]
    /\ info' \in [Servers -> Procs \cup {None}] /\ user' \in [Users -> Requests]
    /\ \A s \in Servers : info'[s] = IF First(p) /\ s = object[o].server THEN o ELSE info[s]
    /\ \A u \in Users :
          /\ user'[u].object = user[u].object /\ user'[u].server = user[u].server
          /\ user'[u].op = user[u].op /\ user'[u].added = user[u].added
          /\ user'[u].removed = user[u].removed /\ user'[u].folders = user[u].folders
          /\ user'[u].pc = IF First(p) /\ user[u].pc = "init" /\ user[u].object = o
                           THEN "send" ELSE user[u].pc

LEMMA InitStoreEffect ==
    ASSUME TypeInv, NEW p \in Procs, NEW o \in Procs, o = proc[p].object, InitStore(p)
    PROVE  InitStoreStep(p, o)
  <1> DEFINE k == init[p].conn
             new == [object[o] EXCEPT !.stub = k, !.client = TRUE]
  <1>1. init[p].pc = "store"
    BY DEF InitStore
  <1>2. /\ p \in Started /\ init[p] \in Inits /\ Exists(o) /\ object[o] \in Objects
    BY <1>1, InitOf
  <1>3. k \in Mine(o) /\ k \in Procs
    <2>1. k \in Mine(o)
      BY <1>1, <1>2 DEF TypeInv, RefInv, InitRefs
    <2> QED
      BY <2>1, Values DEF Mine, TypeInv
  <1>4. /\ init' \in [Procs -> Inits] /\ init'[p].pc = "done"
        /\ init'[p].conn = init[p].conn /\ init'[p].pending = init[p].pending
        /\ \A q \in Procs \ {p} : init'[q] = init[q]
    <2>1. init' = [init EXCEPT ![p].pc = "done"]
      BY DEF InitStore
    <2> QED
      BY <1>1, <2>1, InitPc
  <1>5. /\ new \in Objects /\ new.stub = k /\ new.client = TRUE
        /\ new.cmd = object[o].cmd /\ new.restarter = object[o].restarter
        /\ new.server = object[o].server /\ new.rpc = object[o].rpc
        /\ new.folders = object[o].folders
    BY <1>2, <1>3 DEF Objects
  <1>6. object' = [object EXCEPT ![o] = new]
    BY DEF InitStore, TypeInv, TypeOK
  <1>7. /\ object' \in [Procs -> Objects \cup {NoObject}] /\ object'[o] = new
        /\ \A q \in Procs \ {o} : object'[q] = object[q]
    <2> HIDE DEF new
    <2> QED
      BY <1>5, <1>6, ObjectSet DEF TypeInv
  <1>8. object[o].server \in Servers
    BY <1>2 DEF Objects
  <1>9. /\ info' \in [Servers -> Procs \cup {None}]
        /\ \A s \in Servers : info'[s] = IF First(p) /\ s = object[o].server THEN o ELSE info[s]
    BY <1>8 DEF InitStore, TypeInv, TypeOK
  <1>10. user' = [u \in Users |-> IF First(p) /\ user[u].pc = "init" /\ user[u].object = o
                                  THEN [user[u] EXCEPT !.pc = "send"] ELSE user[u]]
    BY DEF InitStore, TypeInv, TypeOK
  <1>11. \A u \in Users : user[u] \in Requests
    BY DEF TypeInv, TypeOK
  <1>12. /\ user' \in [Users -> Requests]
         /\ \A u \in Users :
               /\ user'[u].object = user[u].object /\ user'[u].server = user[u].server
               /\ user'[u].op = user[u].op /\ user'[u].added = user[u].added
               /\ user'[u].removed = user[u].removed /\ user'[u].folders = user[u].folders
               /\ user'[u].pc = IF First(p) /\ user[u].pc = "init" /\ user[u].object = o
                                THEN "send" ELSE user[u].pc
    <2>1. ASSUME NEW r \in Requests
          PROVE  LET t == [r EXCEPT !.pc = "send"]
                 IN  /\ t \in Requests /\ t.pc = "send" /\ t.object = r.object
                     /\ t.server = r.server /\ t.op = r.op /\ t.added = r.added
                     /\ t.removed = r.removed /\ t.folders = r.folders
      BY DEF Requests
    <2> QED
      BY <1>10, <1>11, <2>1
  <1> QED
    BY <1>1, <1>2, <1>3, <1>4, <1>5, <1>7, <1>9, <1>12 DEF InitStoreStep

LEMMA InitStoreTypes == ASSUME TypeInv, NEW p \in Procs, InitStore(p) PROVE TypeInv'
  <1>0. init[p].pc = "store"
    BY DEF InitStore
  <1> PICK o \in Procs : o = proc[p].object
    BY <1>0, InitOf
  <1>1. InitStoreStep(p, o)
    BY InitStoreEffect
  <1>2. SameProcs
    BY NothingProcs DEF InitStore
  <1>3. Grows /\ Started' = Started
    BY <1>1, <1>2, ObjectGrows DEF InitStoreStep
  <1>4. Mine(o) \subseteq Mine(o)' /\ proc'[p].object = o /\ Exists(o)' /\ None \notin Mine(o)
    BY <1>1, <1>3, MineGrows, NoneIsNothing DEF Grows, Mine, Started, InitStoreStep
  <1>5. ObjectRefs(o)'
    <2>1. ObjectRefs(o)
      BY DEF TypeInv, RefInv
    <2>2. /\ object'[o].stub = init[p].conn /\ object'[o].client = TRUE /\ Exists(o)
          /\ object'[o].cmd = object[o].cmd /\ object'[o].restarter = object[o].restarter
          /\ object'[o].rpc = object[o].rpc /\ init[p].conn \in Mine(o)
      BY <1>1 DEF InitStoreStep
    <2> QED
      BY <1>4, <2>1, <2>2 DEF ObjectRefs
  <1>6. InitRefs(p)'
    <2>1. p \in Started /\ init[p].pending \in Mine(o) \cup {None} /\ init[p].conn \in Mine(o)
      BY <1>1 DEF TypeInv, RefInv, InitRefs, InitStoreStep
    <2>2. init'[p].pc = "done" /\ init'[p].conn = init[p].conn /\ init'[p].pending = init[p].pending
      BY <1>1 DEF InitStoreStep
    <2> QED
      BY <1>3, <1>4, <2>1, <2>2 DEF InitRefs
  <1>7. ASSUME NEW u \in Users PROVE UserRefs(u)'
    <2>1. UserRefs(u)
      BY DEF TypeInv, RefInv
    <2>2. /\ user'[u].object = user[u].object
          /\ user'[u].pc = IF First(p) /\ user[u].pc = "init" /\ user[u].object = o
                           THEN "send" ELSE user[u].pc
          /\ object'[o].client = TRUE
      BY <1>1 DEF InitStoreStep
    <2> QED
      BY <1>3, <1>4, <2>1, <2>2 DEF UserRefs, Grows
  <1>8. ASSUME NEW s \in Servers PROVE InfoRefs(s)'
    <2>1. /\ info'[s] = IF First(p) /\ s = object[o].server THEN o ELSE info[s]
          /\ object'[o].client = TRUE /\ object'[o].server = object[o].server
      BY <1>1 DEF InitStoreStep
    <2>2. CASE info'[s] = info[s]
      BY <1>3, <2>2, Kept
    <2>3. CASE info'[s] = o /\ s = object[o].server
      BY <1>4, <2>1, <2>3 DEF InfoRefs
    <2> QED
      BY <2>1, <2>2, <2>3
  <1>9. RefInv'
    <2>1. \A q \in Procs : ObjectRefs(q)'
      BY <1>1, <1>3, <1>5, Kept DEF InitStoreStep
    <2>2. \A q \in Procs : InitRefs(q)'
      BY <1>1, <1>3, <1>6, Kept DEF InitStoreStep
    <2> QED
      BY <1>7, <1>8, <2>1, <2>2 DEF RefInv
  <1> QED
    BY <1>1, <1>9, Referred DEF InitStoreStep, InitStore, TypeInv, TypeOK, bounds


InitFailStep(p, o) ==
    LET k == object[o].cmd
    IN  /\ p \in Started /\ Exists(o) /\ init[p].pc = "fail" /\ k \in Mine(o) /\ k \in Procs
        /\ init' \in [Procs -> Inits]
        /\ init'[p].pc = "done" /\ init'[p].conn = init[p].conn /\ init'[p].pending = init[p].pending
        /\ \A q \in Procs \ {p} : init'[q] = init[q]
        /\ SameProcs /\ proc' \in [Procs -> Processes \cup {NoProcess}]
        /\ proc'[k] = [proc[k] EXCEPT !.up = FALSE, !.open = @ /\ First(p)]
        /\ \A q \in Procs \ {k} : proc'[q] = proc[q]
        /\ user' \in [Users -> Requests]
        /\ \A u \in Users :
              user'[u] = IF First(p) /\ user[u].pc = "init" /\ user[u].object = o
                         THEN Idle ELSE user[u]
        /\ UNCHANGED panicked

LEMMA InitFailEffect ==
    ASSUME TypeInv, NEW p \in Procs, NEW o \in Procs, o = proc[p].object, InitFail(p)
    PROVE  \/ /\ object[o].cmd = None /\ init[p].pc = "fail" /\ panicked' = TRUE
              /\ UNCHANGED <<user, init, proc>>
           \/ InitFailStep(p, o)
  <1> DEFINE k == object[o].cmd
  <1>1. init[p].pc = "fail"
    BY DEF InitFail
  <1>2. /\ p \in Started /\ init[p] \in Inits /\ Exists(o) /\ object[o] \in Objects
    BY <1>1, InitOf
  <1> SUFFICES ASSUME k # None PROVE InitFailStep(p, o)
    BY <1>1 DEF InitFail
  <1>3. k \in Mine(o) /\ k \in Procs /\ k \in Started /\ proc[k] \in Processes
    <2>1. k \in Mine(o)
      BY <1>2 DEF TypeInv, RefInv, ObjectRefs
    <2> QED
      BY <2>1, Values DEF Mine, TypeInv
  <1>4. /\ init' \in [Procs -> Inits] /\ init'[p].pc = "done"
        /\ init'[p].conn = init[p].conn /\ init'[p].pending = init[p].pending
        /\ \A q \in Procs \ {p} : init'[q] = init[q]
    <2>1. init' = [init EXCEPT ![p].pc = "done"]
      BY DEF InitFail
    <2> QED
      BY <1>1, <2>1, InitPc
  <1>5. /\ SameProcs /\ proc' \in [Procs -> Processes \cup {NoProcess}]
        /\ proc'[k] = [proc[k] EXCEPT !.up = FALSE, !.open = @ /\ First(p)]
        /\ \A q \in Procs \ {k} : proc'[q] = proc[q]
    <2> DEFINE q0 == [proc[k] EXCEPT !.up = FALSE, !.open = @ /\ First(p)]
    <2>1. First(p) \in BOOLEAN
      BY DEF First
    <2>2. q0 \in Processes /\ q0.object = proc[k].object
      BY <1>3, <2>1 DEF Processes
    <2>3. proc' = [proc EXCEPT ![k] = q0]
      BY DEF InitFail, TypeInv, TypeOK
    <2> HIDE DEF q0, k
    <2>4. /\ SameProcs /\ proc' \in [Procs -> Processes \cup {NoProcess}]
          /\ proc'[k] = q0 /\ \A q \in Procs \ {k} : proc'[q] = proc[q]
      BY <1>3, <2>2, <2>3, ProcSet DEF TypeInv
    <2> QED
      BY <2>4 DEF q0
  <1>6. /\ user' \in [Users -> Requests]
        /\ \A u \in Users :
              user'[u] = IF First(p) /\ user[u].pc = "init" /\ user[u].object = o
                         THEN Idle ELSE user[u]
    <2>1. user' = [u \in Users |-> IF First(p) /\ user[u].pc = "init" /\ user[u].object = o
                                   THEN Idle ELSE user[u]]
      BY DEF InitFail
    <2> QED
      BY <2>1, IdleType DEF TypeInv, TypeOK
  <1>7. UNCHANGED panicked
    BY DEF InitFail
  <1> QED
    BY <1>1, <1>2, <1>3, <1>4, <1>5, <1>6, <1>7 DEF InitFailStep

LEMMA InitFailTypes == ASSUME TypeInv, NEW p \in Procs, InitFail(p) PROVE TypeInv'
  <1>0. init[p].pc = "fail"
    BY DEF InitFail
  <1> PICK o \in Procs : o = proc[p].object
    BY <1>0, InitOf
  <1>1. CASE panicked' = TRUE /\ UNCHANGED <<user, init, proc>>
    <2>1. Grows /\ Started' = Started
      BY <1>1, NothingProcs DEF Grows, SameProcs, Exists, InitFail
    <2>2. RefInv'
      BY <1>1, <2>1, Kept DEF InitFail, RefInv
    <2> QED
      BY <1>1, <2>2, Referred DEF InitFail, TypeInv, TypeOK, bounds
  <1>2. CASE InitFailStep(p, o)
    <2>1. Grows /\ Started' = Started
      BY <1>2 DEF InitFailStep, Grows, SameProcs, Exists, InitFail
    <2>2. Mine(o) \subseteq Mine(o)' /\ proc'[p].object = o /\ Exists(o)'
      BY <1>2, <2>1, MineGrows DEF Grows, InitFailStep
    <2>3. InitRefs(p)'
      <3>1. p \in Started /\ init[p].pending \in Mine(o) \cup {None} /\ init[p].conn \in Mine(o) \cup {None}
        BY <1>2 DEF TypeInv, RefInv, InitRefs, InitFailStep
      <3>2. init'[p].pc = "done" /\ init'[p].conn = init[p].conn /\ init'[p].pending = init[p].pending
        BY <1>2 DEF InitFailStep
      <3> QED
        BY <2>1, <2>2, <3>1, <3>2 DEF InitRefs
    <2>4. ASSUME NEW u \in Users PROVE UserRefs(u)'
      <3>1. user'[u] = Idle \/ user'[u] = user[u]
        BY <1>2 DEF InitFailStep
      <3> QED
        BY <2>1, <3>1, IdleType, Kept DEF UserRefs
    <2>5. RefInv'
      <3>1. \A q \in Procs : InitRefs(q)'
        BY <1>2, <2>1, <2>3, Kept DEF InitFailStep
      <3> QED
        BY <2>1, <2>4, <3>1, Kept DEF RefInv, InitFail
    <2> QED
      BY <1>2, <2>5, Referred DEF InitFailStep, InitFail, TypeInv, TypeOK, bounds
  <1> QED
    BY <1>1, <1>2, InitFailEffect

LEMMA InitTypeInv == Init => TypeInv
  <1> SUFFICES ASSUME Init PROVE TypeInv
    OBVIOUS
  <1>1. Started = {}
    BY DEF Init, Started
  <1>2. \A u \in Users : user[u] = Idle
    BY DEF Init
  <1>3. NoInit \in Inits
    BY DEF NoInit, Inits
  <1>4. \A o \in Procs : ~Exists(o)
    BY DEF Init, Exists
  <1>5. \A p \in Procs : init[p] = NoInit
    BY DEF Init
  <1>6. \A s \in Servers : info[s] = None
    BY DEF Init
  <1>7. RefInv
    BY <1>1, <1>2, <1>4, <1>5, <1>6, IdleType DEF RefInv, ObjectRefs, InitRefs, UserRefs, InfoRefs
  <1>8. TypeOK
    BY <1>1, <1>2, <1>3, <1>6, IdleType DEF Init, TypeOK
  <1> QED
    BY <1>7, <1>8 DEF TypeInv

LEMMA StuttersTypes == ASSUME TypeInv, UNCHANGED vars PROVE TypeInv'
  <1>1. Grows /\ Started' = Started
    BY NothingProcs DEF vars, Grows, SameProcs, Exists
  <1>2. RefInv'
    BY <1>1, Kept DEF vars, RefInv
  <1> QED
    BY <1>2, Referred DEF vars, TypeInv, TypeOK, bounds

LEMMA NextTypes == TypeInv /\ [Next]_vars => TypeInv'
  <1> SUFFICES ASSUME TypeInv, [Next]_vars PROVE TypeInv'
    OBVIOUS
  <1>1. CASE UNCHANGED vars
    BY <1>1, StuttersTypes
  <1>2. ASSUME NEW u \in Users, Request(u) \/ ChangeFolders(u) \/ UserStep(u) PROVE TypeInv'
    BY <1>2, RequestTypes, ChangeFoldersTypes, ExecTypes, ExecFailsTypes, SendTypes DEF UserStep
  <1>3. ASSUME NEW p \in Procs, Exit(p) \/ Restarter(p) PROVE TypeInv'
    BY <1>3, ExitTypes, WaitReturnsTypes, RestartTypes, RestartFailsTypes DEF Restarter
  <1>4. ASSUME NEW p \in Procs, InitStep(p) PROVE TypeInv'
    BY <1>4, InitConnTypes, InitCallTypes, InitAnswerTypes, InitNotifyTypes, InitStoreTypes,
       InitFailTypes DEF InitStep
  <1> QED
    BY <1>1, <1>2, <1>3, <1>4 DEF Next

LEMMA TypeInvariant == Spec => []TypeInv
  BY InitTypeInv, NextTypes, PTL DEF Spec

\* Every variable of Servers has its type, and no object, process or
\* connection is used before it has been started: the users' requests, the
\* restarters and the initialisations refer to each other only as exec.go
\* lets them, whatever ends, fails or is refused.
THEOREM TypeCorrect == Spec => []TypeOK
  <1>1. TypeInv => TypeOK
    BY DEF TypeInv
  <1> QED
    BY <1>1, TypeInvariant, PTL


-----------------------------------------------------------------------------
(* The life of a process, as long as none exits before it is initialised.  *)

\* What a step does not touch.
SameView(o) ==
    /\ Exists(o) /\ object'[o].client = object[o].client /\ object'[o].stub = object[o].stub
    /\ object'[o].restarter = object[o].restarter
    /\ object'[o].cmd = object[o].cmd /\ object'[o].rpc = object[o].rpc

LEMMA ProcKept ==
    ASSUME TypeInv, NEW p \in Started, ProcLife(p), init'[p] = init[p], proc'[p] = proc[p],
           SameView(proc[p].object)
    PROVE  ProcLife(p)'
  BY DEF ProcLife, OneInit, Handshake, OneUp, SameView

LEMMA ObjKept ==
    ASSUME TypeInv, NEW o \in Procs, ObjLife(o), SameView(o), init'[o] = init[o],
           Mine(o)' = Mine(o), \A q \in Mine(o) : proc'[q] = proc[q]
    PROVE  ObjLife(o)'
  <1>1. o \in Mine(o) /\ object[o].stub \in Mine(o) \cup {None}
    BY DEF TypeInv, RefInv, ObjectRefs, SameView
  <1>2. proc'[o] = proc[o] /\ (object[o].stub # None => proc'[object[o].stub] = proc[object[o].stub])
    BY <1>1
  <1> QED
    BY <1>2 DEF ObjLife, NoClient, StubReady, SameView

LEMMA SameMine == ASSUME SameProcs PROVE \A o : Mine(o)' = Mine(o)
  BY DEF SameProcs, Mine

\* A process that changes is of one object.
LEMMA ElsewhereKept ==
    ASSUME TypeInv, LifeInv, SameProcs, NEW o \in Procs,
           \A q \in Procs \ {o} : object'[q] = object[q],
           \A q \in Procs : q \notin Mine(o) => proc'[q] = proc[q] /\ init'[q] = init[q]
    PROVE  /\ \A p \in Started : p \notin Mine(o) => ProcLife(p)'
           /\ \A q \in Procs : q # o /\ Exists(q) => ObjLife(q)'
  <1>1. ASSUME NEW p \in Started, p \notin Mine(o) PROVE ProcLife(p)'
    <2>1. proc[p].object # o /\ proc[p].object \in Procs /\ Exists(proc[p].object) /\ p \in Procs
      BY <1>1, Values DEF Mine, TypeInv, RefInv, InitRefs
    <2> QED
      BY <1>1, <2>1, ProcKept DEF SameView, LifeInv
  <1>2. ASSUME NEW q \in Procs, q # o, Exists(q) PROVE ObjLife(q)'
    <2>1. \A r \in Mine(q) : r \in Procs /\ r \notin Mine(o)
      BY <1>2, Values DEF Mine, TypeInv
    <2>2. q \in Mine(q)
      BY <1>2 DEF TypeInv, RefInv, ObjectRefs
    <2> QED
      BY <1>2, <2>1, <2>2, ObjKept, SameMine DEF SameView, LifeInv
  <1> QED
    BY <1>1, <1>2

\* The objects and the processes stay as they are.
LEMMA LifeUntouched ==
    ASSUME TypeInv, LifeInv, UNCHANGED <<object, init, proc, panicked>>
    PROVE  LifeInv'
  <1>1. SameProcs
    BY NothingProcs
  <1>2. ASSUME NEW p \in Started PROVE ProcLife(p)'
    BY DEF LifeInv, ProcLife, OneInit, Handshake, OneUp
  <1>3. ASSUME NEW o \in Procs, Exists(o) PROVE ObjLife(o)'
    BY <1>1, <1>3, ObjKept DEF LifeInv, SameView, SameProcs, Mine
  <1> QED
    BY <1>1, <1>2, <1>3 DEF LifeInv, SameProcs, Exists

LEMMA ExecLife == ASSUME TypeInv, LifeInv, NEW u \in Users, Exec(u) PROVE LifeInv'
  <1>1. PICK p \in Procs : ExecStep(u, p)
    BY ExecEffect
  <1>2. proc'[p] = Fresh(p) /\ init'[p].pc = "conn"
    BY <1>1 DEF ExecStep
  <1>3. /\ object'[p].cmd = p /\ object'[p].restarter = "wait" /\ object'[p].rpc = None
        /\ object'[p].stub = None /\ object'[p].client = FALSE
    BY <1>1 DEF ExecStep
  <1>4. ProcLife(p)'
    BY <1>2, <1>3, NoneIsNothing DEF Fresh, ProcLife, OneInit, Handshake, OneUp
  <1>5. Mine(p)' = {p}
    <2>1. \A q \in Started : q \in Procs /\ q # p /\ proc'[q] = proc[q] /\ proc[q].object # p
      BY <1>1, Values DEF ExecStep, TypeInv, RefInv, InitRefs
    <2> QED
      BY <1>1, <1>2, <2>1 DEF ExecStep, Mine, Fresh
  <1>6. ObjLife(p)'
    BY <1>2, <1>3, <1>5 DEF Fresh, ObjLife, NoClient, StubReady
  <1>7. ASSUME NEW q \in Started PROVE ProcLife(q)'
    <2>1. q \in Procs /\ q # p /\ proc[q].object \in Procs /\ Exists(proc[q].object)
      BY <1>1, Values DEF ExecStep, TypeInv, RefInv, InitRefs
    <2>2. proc[q].object # p
      BY <1>1, <2>1 DEF ExecStep
    <2> QED
      BY <1>1, <2>1, <2>2, ProcKept DEF ExecStep, SameView, LifeInv
  <1>8. ASSUME NEW o \in Procs, Exists(o) PROVE ObjLife(o)'
    <2>1. o # p /\ object'[o] = object[o] /\ init'[o] = init[o]
      BY <1>1, <1>8 DEF ExecStep
    <2>2. Mine(o)' = Mine(o) /\ \A q \in Mine(o) : proc'[q] = proc[q]
      <3>1. \A q \in Started : q \in Procs /\ q # p /\ proc'[q] = proc[q]
        BY <1>1, Values DEF ExecStep, TypeInv
      <3>2. p \notin Mine(o)'
        BY <1>2, <2>1 DEF Mine, Fresh
      <3> QED
        BY <1>1, <3>1, <3>2 DEF ExecStep, Mine
    <2> QED
      BY <1>8, <2>1, <2>2, ObjKept DEF SameView, LifeInv
  <1>9. \A o \in Procs : Exists(o)' => Exists(o) \/ o = p
    BY <1>1 DEF ExecStep
  <1> QED
    BY <1>1, <1>4, <1>6, <1>7, <1>8, <1>9 DEF ExecStep, LifeInv, Exec

LEMMA SendLife == ASSUME TypeInv, LifeInv, NEW u \in Users, Send(u) PROVE LifeInv'
  <1> DEFINE r == user[u]
  <1> PICK o \in Procs : o = user[u].object
    BY SendEffect
  <1> PICK k : k = object[o].stub
    OBVIOUS
  <1>1. Exists(o) /\ k \in Mine(o) /\ k \in Started /\ proc[k] \in Processes /\ k \in Procs
    BY SendEffect, Values DEF Mine, TypeInv
  <1>2. CASE UNCHANGED proc
    BY <1>2, LifeUntouched DEF Send
  <1>3. CASE ~(UNCHANGED proc)
    <2>1. /\ SameProcs /\ \A q \in Procs \ {k} : proc'[q] = proc[q]
          /\ proc'[k].up = proc[k].up /\ proc'[k].asked = proc[k].asked
          /\ proc'[k].ready = proc[k].ready /\ proc'[k].open = proc[k].open
          /\ proc'[k].object = proc[k].object
          /\ proc[k].up => proc'[k].told = proc[k].told
      <3>1. CASE proc[k].up /\ proc' = [proc EXCEPT ![k] = AddFolders(r, proc[k])]
        <4>1. /\ AddFolders(r, proc[k]) \in Processes
              /\ AddFolders(r, proc[k]).object = proc[k].object
              /\ AddFolders(r, proc[k]).up = proc[k].up /\ AddFolders(r, proc[k]).asked = proc[k].asked
              /\ AddFolders(r, proc[k]).ready = proc[k].ready
              /\ AddFolders(r, proc[k]).open = proc[k].open
              /\ AddFolders(r, proc[k]).told = proc[k].told
          BY <1>1, SendEffect DEF AddFolders, Processes, Requests
        <4> QED
          BY <1>1, <3>1, <4>1, ProcSet DEF TypeInv
      <3>2. CASE ~proc[k].up /\ proc' = [proc EXCEPT ![k] = [proc[k] EXCEPT !.told = TRUE]]
        <4> DEFINE q0 == [proc[k] EXCEPT !.told = TRUE]
        <4>1. /\ q0 \in Processes /\ q0.object = proc[k].object
              /\ q0.up = proc[k].up /\ q0.asked = proc[k].asked
              /\ q0.ready = proc[k].ready /\ q0.open = proc[k].open
          BY <1>1 DEF Processes
        <4> HIDE DEF q0
        <4>2. proc' = [proc EXCEPT ![k] = q0]
          BY <3>2 DEF q0
        <4>3. SameProcs /\ proc'[k] = q0 /\ \A q \in Procs \ {k} : proc'[q] = proc[q]
          BY <1>1, <4>1, <4>2, ProcSet DEF TypeInv
        <4> QED
          BY <3>2, <4>1, <4>3
      <3> QED
        BY <1>3, <3>1, <3>2, SendEffect
    <2>2. UNCHANGED <<object, init, panicked>>
      BY DEF Send
    <2>3. object[o].client
      BY SendEffect DEF TypeInv, RefInv, UserRefs
    <2>4. ProcLife(k)'
      <3>1. ProcLife(k)
        BY <1>1 DEF LifeInv
      <3> QED
        BY <2>1, <2>2, <3>1 DEF ProcLife, OneInit, Handshake, OneUp
    <2>5. ObjLife(o)'
      BY <1>1, <2>1, <2>2, <2>3 DEF LifeInv, ObjLife, NoClient, StubReady
    <2>6. /\ \A q \in Procs : q # o /\ Exists(q) => ObjLife(q)'
          /\ \A p \in Started : p \notin Mine(o) => ProcLife(p)'
      BY <1>1, <2>1, <2>2, ElsewhereKept
    <2>7. ASSUME NEW p \in Started, p # k PROVE ProcLife(p)'
      <3>1. ProcLife(p) /\ p \in Procs
        BY Values DEF LifeInv, TypeInv
      <3>2. proc'[p] = proc[p]
        BY <2>1, <2>7, <3>1
      <3> QED
        BY <2>2, <3>1, <3>2 DEF ProcLife, OneInit, Handshake, OneUp
    <2> QED
      BY <2>1, <2>2, <2>4, <2>5, <2>6, <2>7 DEF LifeInv, SameProcs, Exists
  <1> QED
    BY <1>2, <1>3


\* A process that has ended, whatever becomes of its object.
LEMMA EndedNow ==
    ASSUME NEW p, init'[p].pc = "done", ~proc'[p].up, proc'[p].asked = 1
    PROVE  ProcLife(p)'
  BY DEF ProcLife, OneInit, Handshake, OneUp

\* The other processes of the object of one that is not initialised, or of an
\* object that is to be restarted.
LEMMA OthersEnded ==
    ASSUME TypeInv, LifeInv, NEW o \in Procs, NEW q \in Mine(o),
           \/ object[o].restarter # "wait"
           \/ object[o].cmd # q
    PROVE  init[q].pc = "done" /\ ~proc[q].up /\ proc[q].asked = 1
  <1>1. q \in Started /\ proc[q].object = o
    BY DEF Mine
  <1>2. OneInit(q) /\ Handshake(q) /\ OneUp(q)
    BY <1>1 DEF LifeInv, ProcLife
  <1> QED
    BY <1>1, <1>2 DEF OneInit, Handshake, OneUp

LEMMA ExitLife ==
    ASSUME TypeInv, LifeInv, ~early', NEW p \in Procs, Exit(p) PROVE LifeInv'
  <1>1. /\ p \in Started /\ SameProcs /\ init[p].pc = "done" /\ proc[p] \in Processes
        /\ proc'[p] = [proc[p] EXCEPT !.up = FALSE] /\ \A q \in Procs \ {p} : proc'[q] = proc[q]
        /\ UNCHANGED <<object, init, panicked>>
    BY ExitEffect, Values DEF Exit, TypeInv
  <1>2. /\ proc'[p].up = FALSE /\ proc'[p].asked = proc[p].asked /\ proc'[p].ready = proc[p].ready
        /\ proc'[p].open = proc[p].open /\ proc'[p].told = proc[p].told
    BY <1>1 DEF Processes
  <1> PICK o \in Procs : o = proc[p].object
    BY <1>1, Values DEF TypeInv
  <1>3. p \in Mine(o) /\ Exists(o)
    BY <1>1 DEF Mine, TypeInv, RefInv, InitRefs
  <1>4. ProcLife(p)'
    <2>1. proc[p].asked = 1
      BY <1>1 DEF LifeInv, ProcLife, Handshake
    <2> QED
      BY <1>1, <1>2, <2>1, EndedNow
  <1>5. ASSUME NEW q \in Started, q # p PROVE ProcLife(q)'
    <2>1. ProcLife(q) /\ q \in Procs
      BY Values DEF LifeInv, TypeInv
    <2>2. proc'[q] = proc[q]
      BY <1>1, <1>5, <2>1
    <2> QED
      BY <1>1, <2>1, <2>2 DEF ProcLife, OneInit, Handshake, OneUp
  <1>6. ASSUME NEW q \in Procs, Exists(q) PROVE ObjLife(q)'
    <2>1. ObjLife(q) /\ Mine(q)' = Mine(q)
      BY <1>1, <1>6, SameMine DEF LifeInv
    <2>2. object[q].stub \in Procs \cup {None}
      BY <1>6, Values DEF TypeInv, Objects
    <2>3. \A r \in Procs : /\ proc'[r].asked = proc[r].asked /\ proc'[r].ready = proc[r].ready
                           /\ proc'[r].open = proc[r].open /\ proc'[r].told = proc[r].told
                           /\ proc'[r].up => proc[r].up
      BY <1>1, <1>2
    <2> QED
      BY <1>1, <2>1, <2>2, <2>3 DEF ObjLife, NoClient, StubReady
  <1> QED
    BY <1>1, <1>4, <1>5, <1>6 DEF LifeInv, SameProcs, Exists

\* An object whose processes have all ended, and that has its Client.
LEMMA ObjectEnded ==
    ASSUME TypeInv, LifeInv, SameProcs, NEW o \in Procs, Exists(o), object[o].client,
           object'[o].client, object'[o].stub = object[o].stub,
           \A q \in Procs \ {o} : object'[q] = object[q],
           \A q \in Procs : q \notin Mine(o) => proc'[q] = proc[q],
           \A q \in Mine(o) : /\ init[q].pc = "done" /\ ~proc[q].up /\ proc[q].asked = 1
                              /\ ~proc'[q].up /\ proc'[q].asked = proc[q].asked,
           UNCHANGED <<init, panicked>>
    PROVE  LifeInv'
  <1>1. \A p \in Started : p \in Mine(o) => ProcLife(p)'
    BY EndedNow
  <1>2. ObjLife(o)'
    <2>1. object[o].stub \in Mine(o) \cup {None}
      BY DEF TypeInv, RefInv, ObjectRefs
    <2> QED
      BY <2>1 DEF ObjLife, NoClient, StubReady
  <1>3. /\ \A q \in Procs : q # o /\ Exists(q) => ObjLife(q)'
        /\ \A p \in Started : p \notin Mine(o) => ProcLife(p)'
    BY ElsewhereKept
  <1>4. \A q \in Procs : Exists(q)' => Exists(q)
    BY DEF Exists
  <1> QED
    BY <1>1, <1>2, <1>3, <1>4 DEF LifeInv, SameProcs

LEMMA WaitReturnsLife == ASSUME TypeInv, LifeInv, NEW o \in Procs, WaitReturns(o) PROVE LifeInv'
  <1> PICK k : k = object[o].cmd
    OBVIOUS
  <1>1. /\ Exists(o) /\ k \in Mine(o) /\ ~proc[k].up /\ (proc[k].told \/ ~proc[k].open)
        /\ SameProcs /\ object[o] \in Objects
        /\ proc'[k] = [proc[k] EXCEPT !.open = FALSE] /\ \A q \in Procs \ {k} : proc'[q] = proc[q]
        /\ object'[o] = [object[o] EXCEPT !.restarter = "start"]
        /\ \A q \in Procs \ {o} : object'[q] = object[q]
    BY WaitReturnsEffect, Values DEF TypeInv
  <1>2. k \in Procs /\ proc[k] \in Processes /\ k \in Started /\ proc[k].object = o
    BY <1>1, Values DEF Mine, TypeInv
  <1>3. object[o].client
    <2>1. NoClient(o)
      BY <1>1 DEF LifeInv, ObjLife
    <2> QED
      BY <1>1, <2>1 DEF NoClient
  <1>4. init[k].pc = "done" /\ proc[k].asked = 1
    <2>1. ProcLife(k)
      BY <1>2 DEF LifeInv
    <2> QED
      BY <1>1, <2>1 DEF ProcLife, OneInit, Handshake
  <1>5. proc'[k].up = proc[k].up /\ proc'[k].asked = proc[k].asked
    BY <1>1, <1>2 DEF Processes
  <1>6. ASSUME NEW q \in Mine(o)
        PROVE  /\ init[q].pc = "done" /\ ~proc[q].up /\ proc[q].asked = 1
               /\ ~proc'[q].up /\ proc'[q].asked = proc[q].asked
    <2>1. CASE q = k
      BY <1>1, <1>4, <1>5, <2>1
    <2>2. CASE q # k
      <3>1. init[q].pc = "done" /\ ~proc[q].up /\ proc[q].asked = 1
        BY <2>2, OthersEnded
      <3>2. q \in Procs
        BY Values DEF Mine, TypeInv
      <3> QED
        BY <1>1, <2>2, <3>1, <3>2
    <2> QED
      BY <2>1, <2>2
  <1>7. object'[o].client /\ object'[o].stub = object[o].stub
    BY <1>1, <1>3 DEF Objects
  <1> QED
    BY <1>1, <1>3, <1>6, <1>7, ObjectEnded DEF WaitReturns

LEMMA RestartFailsLife == ASSUME TypeInv, LifeInv, NEW o \in Procs, RestartFails(o) PROVE LifeInv'
  <1>1. Exists(o) /\ object[o].restarter = "start"
    BY RestartFailsEffect
  <1>2. object[o].client
    BY <1>1 DEF LifeInv, ObjLife, NoClient
  <1>3. \A q \in Mine(o) : init[q].pc = "done" /\ ~proc[q].up /\ proc[q].asked = 1
    BY <1>1, OthersEnded
  <1>4. UNCHANGED <<init, proc, panicked>>
    BY DEF RestartFails
  <1> QED
    BY <1>1, <1>2, <1>3, <1>4, RestartFailsEffect, ObjectEnded, NothingProcs

LEMMA RestartLife == ASSUME TypeInv, LifeInv, NEW o \in Procs, Restart(o) PROVE LifeInv'
  <1> PICK p \in Procs : RestartStep(o, p)
    BY RestartEffect
  <1>1. /\ Exists(o) /\ object[o].restarter = "start" /\ p \notin Started /\ p # o
        /\ Started' = Started \cup {p}
        /\ proc'[p] = Fresh(o) /\ \A q \in Procs \ {p} : proc'[q] = proc[q]
        /\ init'[p].pc = "conn" /\ \A q \in Procs \ {p} : init'[q] = init[q]
        /\ \A q \in Procs \ {o} : object'[q] = object[q]
        /\ \A q \in Procs : Exists(q)' = Exists(q)
    BY DEF RestartStep
  <1>2. /\ object'[o].cmd = p /\ object'[o].restarter = "wait"
        /\ object'[o].client = object[o].client
        /\ object'[o].rpc = object[o].rpc /\ object'[o].stub = object[o].stub
    BY RestartKeeps
  <1>3. object[o].client
    BY <1>1 DEF LifeInv, ObjLife, NoClient
  <1>4. p \notin Mine(o) /\ object[o].rpc \in Mine(o) \cup {None} /\ p # None
    BY <1>1, NoneIsNothing DEF Mine, TypeInv, RefInv, ObjectRefs
  <1>5. ProcLife(p)'
    BY <1>1, <1>2, <1>4 DEF Fresh, ProcLife, OneInit, Handshake, OneUp
  <1>6. \A q \in Started : q \in Procs /\ q # p /\ proc'[q] = proc[q] /\ init'[q] = init[q]
    BY <1>1, Values DEF TypeInv
  <1>7. ASSUME NEW q \in Started PROVE ProcLife(q)'
    <2>1. CASE q \in Mine(o)
      <3>1. init[q].pc = "done" /\ ~proc[q].up /\ proc[q].asked = 1
        BY <1>1, <2>1, OthersEnded
      <3> QED
        BY <1>6, <3>1, EndedNow
    <2>2. CASE q \notin Mine(o)
      <3>1. proc[q].object # o /\ proc[q].object \in Procs /\ Exists(proc[q].object)
        BY <2>2, Values DEF Mine, TypeInv, RefInv, InitRefs
      <3> QED
        BY <1>1, <1>6, <3>1, ProcKept DEF SameView, LifeInv
    <2> QED
      BY <2>1, <2>2
  <1>8. ObjLife(o)'
    <2>1. object[o].stub \in Mine(o) \cup {None} /\ StubReady(o)
      BY <1>1 DEF TypeInv, RefInv, ObjectRefs, LifeInv, ObjLife
    <2>2. object[o].stub # None => proc'[object[o].stub] = proc[object[o].stub]
      BY <1>6, <2>1 DEF Mine
    <2> QED
      BY <1>2, <1>3, <2>1, <2>2 DEF ObjLife, NoClient, StubReady
  <1>9. ASSUME NEW q \in Procs, Exists(q), q # o PROVE ObjLife(q)'
    <2>1. q \in Mine(q) /\ q # p
      BY <1>1, <1>9 DEF TypeInv, RefInv, ObjectRefs, Mine
    <2>2. Mine(q)' = Mine(q)
      <3>1. proc'[p].object # q
        BY <1>1, <1>9 DEF Fresh
      <3> QED
        BY <1>1, <1>6, <3>1 DEF Mine
    <2>3. \A r \in Mine(q) : proc'[r] = proc[r]
      BY <1>6 DEF Mine
    <2> QED
      BY <1>1, <1>9, <2>1, <2>2, <2>3, ObjKept DEF SameView, LifeInv
  <1> QED
    BY <1>1, <1>5, <1>7, <1>8, <1>9 DEF LifeInv, Restart


\* A process that is being initialised.
LEMMA Begun ==
    ASSUME TypeInv, LifeInv, NEW p \in Procs, NEW o \in Procs, o = proc[p].object,
           init[p].pc \notin {"none", "done"}
    PROVE  /\ p \in Started /\ p \in Mine(o) /\ Exists(o) /\ p # None /\ proc[p] \in Processes
           /\ object[o].cmd = p /\ object[o].restarter = "wait" /\ object[o] \in Objects
           /\ proc[p].up /\ proc[p].open /\ ~proc[p].told
           /\ init[p].pc = "conn" => object[o].rpc # p
           /\ init[p].pc # "conn" => object[o].rpc = p /\ init[p].conn = p
           /\ init[p].pc = "pending" => init[p].pending = p
           /\ init[p].pc \in {"conn", "call"} => proc[p].asked = 0
           /\ init[p].pc \notin {"conn", "call"} => proc[p].asked = 1
           /\ init[p].pc = "store" => proc[p].ready
           /\ ~object[o].client => First(p) /\ Mine(o) = {p}
  <1>1. p \in Started /\ Exists(o) /\ object[o] \in Objects /\ proc[p] \in Processes
    BY InitOf
  <1>2. p \in Mine(o) /\ p # None
    BY <1>1, NoneIsNothing DEF Mine
  <1>3. OneInit(p) /\ Handshake(p) /\ NoClient(o)
    BY <1>1 DEF LifeInv, ProcLife, ObjLife
  <1>4. ~object[o].client => First(p) /\ Mine(o) = {p}
    BY <1>2, <1>3 DEF NoClient, First
  <1> QED
    BY <1>1, <1>2, <1>3, <1>4 DEF OneInit, Handshake

\* Its steps leave the object's other processes ended.
LEMMA OwnStep ==
    ASSUME TypeInv, LifeInv, SameProcs, NEW o \in Procs, NEW p \in Procs, object[o].cmd = p,
           \A q \in Procs \ {o} : object'[q] = object[q],
           \A q \in Procs \ {p} : init'[q] = init[q], p \in Mine(o),
           \A q \in Procs : q \notin Mine(o) => proc'[q] = proc[q],
           \A q \in Mine(o) : q # p => proc'[q].up = proc[q].up /\ proc'[q].asked = proc[q].asked,
           ProcLife(p)', ObjLife(o)', UNCHANGED panicked
    PROVE  LifeInv'
  <1>1. ASSUME NEW q \in Mine(o), q # p PROVE ProcLife(q)'
    <2>1. q \in Procs /\ init[q].pc = "done" /\ ~proc[q].up /\ proc[q].asked = 1
      BY <1>1, OthersEnded, Values DEF Mine, TypeInv
    <2> QED
      BY <1>1, <2>1, EndedNow
  <1>2. /\ \A q \in Started : q \notin Mine(o) => ProcLife(q)'
        /\ \A q \in Procs : q # o /\ Exists(q) => ObjLife(q)'
    BY ElsewhereKept
  <1>3. \A q \in Procs : q # o => (Exists(q)' <=> Exists(q))
    BY DEF Exists
  <1> QED
    BY <1>1, <1>2, <1>3 DEF LifeInv, SameProcs

LEMMA InitConnLife == ASSUME TypeInv, LifeInv, NEW p \in Procs, InitConn(p) PROVE LifeInv'
  <1>0. init[p].pc = "conn"
    BY DEF InitConn
  <1> PICK o \in Procs : o = proc[p].object
    BY <1>0, InitOf
  <1> PICK r : r = object[o].rpc
    OBVIOUS
  <1>1. /\ p \in Started /\ p \in Mine(o) /\ Exists(o) /\ p # None
        /\ object[o].cmd = p /\ object[o].restarter = "wait"
        /\ proc[p].up /\ proc[p].open /\ ~proc[p].told /\ proc[p].asked = 0 /\ r # p
        /\ ~object[o].client => First(p) /\ Mine(o) = {p}
    BY <1>0, Begun
  <1>2. InitConnStep(p)
    BY <1>1, InitConnEffect DEF IsNil
  <1>3. /\ init'[p].pc = "call" /\ init'[p].conn = p /\ object'[o].rpc = p
        /\ \A q \in Procs \ {p} : init'[q] = init[q]
        /\ object'[o].cmd = p /\ object'[o].restarter = "wait"
        /\ object'[o].client = object[o].client /\ object'[o].stub = object[o].stub
        /\ \A q \in Procs \ {o} : object'[q] = object[q]
        /\ SameProcs
        /\ r # None => proc'[r] = [proc[r] EXCEPT !.open = FALSE]
        /\ \A q \in Procs : q # r => proc'[q] = proc[q]
        /\ UNCHANGED panicked
    BY <1>1, <1>2 DEF InitConnStep
  <1>4. r \in Mine(o) \cup {None}
    BY <1>1 DEF TypeInv, RefInv, ObjectRefs
  <1>5. \A q \in Started : /\ proc'[q].up = proc[q].up /\ proc'[q].asked = proc[q].asked
                           /\ proc'[q].ready = proc[q].ready /\ proc'[q].told = proc[q].told
    <2>1. \A q \in Started : q \in Procs /\ proc[q] \in Processes
      BY Values DEF TypeInv
    <2>2. r \in Started => proc'[r] = [proc[r] EXCEPT !.open = FALSE]
      BY <1>3, NoneIsNothing DEF Started
    <2>3. ASSUME r \in Started
          PROVE  /\ proc'[r].up = proc[r].up /\ proc'[r].asked = proc[r].asked
                 /\ proc'[r].ready = proc[r].ready /\ proc'[r].told = proc[r].told
      BY <2>1, <2>2, <2>3 DEF Processes
    <2> QED
      BY <1>3, <2>1, <2>3
  <1>6. proc'[p] = proc[p] /\ proc'[p].object = o
    BY <1>1, <1>3
  <1>7. ProcLife(p)'
    BY <1>1, <1>3, <1>6 DEF ProcLife, OneInit, Handshake, OneUp
  <1>8. ObjLife(o)'
    <2>1. NoClient(o) /\ StubReady(o) /\ Mine(o)' = Mine(o)
      BY <1>1, <1>3, SameMine DEF LifeInv, ObjLife
    <2>2. object[o].stub \in Mine(o) \cup {None}
      BY <1>1 DEF TypeInv, RefInv, ObjectRefs
    <2>3. StubReady(o)'
      BY <1>3, <1>5, <2>1, <2>2 DEF StubReady, Mine
    <2>4. NoClient(o)'
      <3>1. ~object[o].client => o = p
        BY <1>1 DEF First
      <3> QED
        BY <1>0, <1>1, <1>3, <1>6, <2>1, <3>1 DEF NoClient
    <2> QED
      BY <2>3, <2>4 DEF ObjLife
  <1>9. \A q \in Procs : q \notin Mine(o) => proc'[q] = proc[q]
    BY <1>3, <1>4, NoneIsNothing
  <1> QED
    BY <1>1, <1>3, <1>5, <1>7, <1>8, <1>9, OwnStep DEF Mine

\* A step of an initialisation that leaves the object alone, and of its
\* process changes only what it has heard.
LEMMA InitStepLife ==
    ASSUME TypeInv, LifeInv, SameProcs, NEW p \in Procs, NEW o \in Procs, o = proc[p].object,
           init[p].pc \notin {"none", "conn", "done"},
           init'[p].pc \in {"pending", "notify", "store", "fail"},
           init'[p].conn = init[p].conn, init'[p].pc = "pending" => init'[p].pending = p,
           \A q \in Procs \ {p} : init'[q] = init[q],
           \A q \in Procs \ {p} : proc'[q] = proc[q],
           proc'[p].up = proc[p].up, proc'[p].open = proc[p].open, proc'[p].told = proc[p].told,
           proc'[p].asked = 1, init'[p].pc = "store" => proc'[p].ready,
           proc[p].ready => proc'[p].ready,
           UNCHANGED <<object, panicked>>
    PROVE  LifeInv'
  <1>1. /\ p \in Started /\ p \in Mine(o) /\ Exists(o)
        /\ object[o].cmd = p /\ object[o].restarter = "wait"
        /\ proc[p].up /\ proc[p].open /\ ~proc[p].told
        /\ object[o].rpc = p /\ init[p].conn = p
        /\ ~object[o].client => First(p) /\ Mine(o) = {p}
    BY Begun
  <1>2. proc'[p].object = o
    BY <1>1 DEF SameProcs
  <1>3. ProcLife(p)'
    BY <1>1, <1>2 DEF ProcLife, OneInit, Handshake, OneUp
  <1>4. ObjLife(o)'
    <2>1. NoClient(o) /\ StubReady(o) /\ Mine(o)' = Mine(o)
      BY <1>1, SameMine DEF LifeInv, ObjLife
    <2>2. object[o].stub \in Mine(o) \cup {None}
      BY <1>1 DEF TypeInv, RefInv, ObjectRefs
    <2>3. StubReady(o)'
      <3>1. CASE object[o].stub = p
        BY <3>1, <1>1, <2>1 DEF StubReady
      <3>2. CASE object[o].stub # p /\ object[o].stub # None
        <4>1. object[o].stub \in Procs
          BY <2>2, <3>2, Values DEF Mine, TypeInv
        <4> QED
          BY <2>1, <3>2, <4>1 DEF StubReady
      <3> QED
        BY <3>1, <3>2 DEF StubReady
    <2>4. NoClient(o)'
      <3>1. ~object[o].client => o = p
        BY <1>1 DEF First
      <3> QED
        BY <1>1, <2>1, <3>1 DEF NoClient
    <2> QED
      BY <2>3, <2>4 DEF ObjLife
  <1>5. \A q \in Mine(o) : q \in Procs
    BY Values DEF Mine, TypeInv
  <1>6. \A q \in Procs : q \notin Mine(o) => proc'[q] = proc[q]
    BY <1>1
  <1>7. \A q \in Mine(o) : q # p => proc'[q].up = proc[q].up /\ proc'[q].asked = proc[q].asked
    BY <1>5
  <1> QED
    BY <1>1, <1>3, <1>4, <1>6, <1>7, OwnStep


LEMMA InitCallLife == ASSUME TypeInv, LifeInv, NEW p \in Procs, InitCall(p) PROVE LifeInv'
  <1>0. init[p].pc = "call"
    BY DEF InitCall
  <1> PICK o \in Procs : o = proc[p].object
    BY <1>0, InitOf
  <1>1. /\ proc[p].up /\ proc[p].open /\ object[o].rpc = p /\ proc[p].asked = 0
        /\ p \in Started /\ Exists(o)
    BY <1>0, Begun
  <1>2. /\ init'[p].pc = "pending" /\ init'[p].pending = p /\ init'[p].conn = init[p].conn
        /\ \A q \in Procs \ {p} : init'[q] = init[q]
        /\ \A q \in Procs \ {p} : proc'[q] = proc[q]
        /\ proc'[p] = WhenAsked(p, o) /\ SameProcs
    BY <1>1, InitCallEffect
  <1>3. /\ proc'[p].up = proc[p].up /\ proc'[p].open = proc[p].open /\ proc'[p].told = proc[p].told
        /\ proc'[p].asked = 1 /\ proc'[p].ready = proc[p].ready
    <2>1. /\ WhenAsked(p, o).up = proc[p].up /\ WhenAsked(p, o).open = proc[p].open
          /\ WhenAsked(p, o).told = proc[p].told /\ WhenAsked(p, o).ready = proc[p].ready
          /\ WhenAsked(p, o).asked = proc[p].asked + 1
      BY <1>1, AskedType
    <2>2. WhenAsked(p, o).asked = 1
      BY <1>1, <2>1
    <2> QED
      BY <1>2, <2>1, <2>2
  <1>4. UNCHANGED <<object, panicked>>
    BY DEF InitCall
  <1> QED
    BY <1>0, <1>2, <1>3, <1>4, InitStepLife

LEMMA InitAnswerLife == ASSUME TypeInv, LifeInv, NEW p \in Procs, InitAnswer(p) PROVE LifeInv'
  <1>0. init[p].pc = "pending"
    BY DEF InitAnswer
  <1> PICK o \in Procs : o = proc[p].object
    BY <1>0, InitOf
  <1>1. init[p].pending = p /\ proc[p].asked = 1
    BY <1>0, Begun
  <1>2. /\ init'[p].pc \in {"notify", "fail"} /\ init'[p].conn = init[p].conn
        /\ \A q \in Procs \ {p} : init'[q] = init[q]
    BY InitAnswerEffect
  <1>3. UNCHANGED <<object, proc, panicked>> /\ SameProcs
    BY NothingProcs DEF InitAnswer
  <1> QED
    BY <1>0, <1>1, <1>2, <1>3, InitStepLife

LEMMA InitNotifyLife == ASSUME TypeInv, LifeInv, NEW p \in Procs, InitNotify(p) PROVE LifeInv'
  <1>0. init[p].pc = "notify"
    BY DEF InitNotify
  <1> PICK o \in Procs : o = proc[p].object
    BY <1>0, InitOf
  <1>1. /\ proc[p].up /\ proc[p].open /\ init[p].conn = p /\ proc[p].asked = 1
        /\ p \in Started /\ Exists(o)
    BY <1>0, Begun
  <1>2. /\ init'[p].pc = "store" /\ init'[p].conn = init[p].conn
        /\ \A q \in Procs \ {p} : init'[q] = init[q]
        /\ \A q \in Procs \ {p} : proc'[q] = proc[q]
        /\ proc'[p] = Initialized(p) /\ SameProcs
    BY <1>1, InitNotifyEffect
  <1>3. /\ proc'[p].up = proc[p].up /\ proc'[p].open = proc[p].open /\ proc'[p].told = proc[p].told
        /\ proc'[p].asked = 1 /\ proc'[p].ready
    BY <1>1, <1>2, AskedType
  <1>4. UNCHANGED <<object, panicked>>
    BY DEF InitNotify
  <1> QED
    BY <1>0, <1>2, <1>3, <1>4, InitStepLife

LEMMA InitStoreLife == ASSUME TypeInv, LifeInv, NEW p \in Procs, InitStore(p) PROVE LifeInv'
  <1>0. init[p].pc = "store"
    BY DEF InitStore
  <1> PICK o \in Procs : o = proc[p].object
    BY <1>0, InitOf
  <1>1. /\ p \in Started /\ p \in Mine(o) /\ Exists(o)
        /\ object[o].cmd = p /\ object[o].restarter = "wait"
        /\ init[p].conn = p /\ proc[p].asked = 1 /\ proc[p].ready
    BY <1>0, Begun
  <1>2. /\ init'[p].pc = "done" /\ \A q \in Procs \ {p} : init'[q] = init[q]
        /\ object'[o].stub = p /\ object'[o].client = TRUE
        /\ object'[o].cmd = p /\ object'[o].restarter = "wait"
        /\ \A q \in Procs \ {o} : object'[q] = object[q]
    <2>1. InitStoreStep(p, o)
      BY InitStoreEffect
    <2> QED
      BY <1>1, <2>1 DEF InitStoreStep
  <1>3. UNCHANGED <<proc, panicked>> /\ SameProcs
    BY NothingProcs DEF InitStore
  <1>4. ProcLife(p)'
    BY <1>1, <1>2, <1>3 DEF ProcLife, OneInit, Handshake, OneUp
  <1>5. ObjLife(o)'
    BY <1>1, <1>2, <1>3 DEF ObjLife, NoClient, StubReady
  <1> QED
    BY <1>1, <1>2, <1>3, <1>4, <1>5, OwnStep

LEMMA InitFailLife == ASSUME TypeInv, LifeInv, NEW p \in Procs, InitFail(p) PROVE LifeInv'
  <1>0. init[p].pc = "fail"
    BY DEF InitFail
  <1> PICK o \in Procs : o = proc[p].object
    BY <1>0, InitOf
  <1>1. /\ p \in Started /\ p \in Mine(o) /\ Exists(o) /\ p # None /\ proc[p] \in Processes
        /\ object[o].cmd = p /\ object[o].restarter = "wait"
        /\ proc[p].asked = 1 /\ proc[p].open /\ ~proc[p].told
        /\ ~object[o].client => First(p) /\ Mine(o) = {p}
    BY <1>0, Begun
  <1>2. InitFailStep(p, o)
    BY <1>1, InitFailEffect
  <1>3. /\ init'[p].pc = "done" /\ \A q \in Procs \ {p} : init'[q] = init[q]
        /\ SameProcs /\ proc'[p] = [proc[p] EXCEPT !.up = FALSE, !.open = @ /\ First(p)]
        /\ \A q \in Procs \ {p} : proc'[q] = proc[q]
        /\ UNCHANGED <<object, panicked>>
    BY <1>1, <1>2 DEF InitFailStep, InitFail
  <1>4. /\ ~proc'[p].up /\ proc'[p].asked = 1 /\ proc'[p].told = proc[p].told
        /\ First(p) => proc'[p].open
    <2>1. First(p) \in BOOLEAN
      BY DEF First
    <2> QED
      BY <1>1, <1>3, <2>1 DEF Processes
  <1>5. ProcLife(p)'
    BY <1>3, <1>4, EndedNow
  <1>6. ObjLife(o)'
    <2>1. NoClient(o) /\ StubReady(o) /\ Mine(o)' = Mine(o)
      BY <1>1, <1>3, SameMine DEF LifeInv, ObjLife
    <2>2. object[o].stub \in Mine(o) \cup {None}
      BY <1>1 DEF TypeInv, RefInv, ObjectRefs
    <2>3. StubReady(o)'
      <3>1. CASE object[o].stub = p
        BY <3>1, <1>3, <1>4 DEF StubReady
      <3>2. CASE object[o].stub # p /\ object[o].stub # None
        <4>1. object[o].stub \in Procs
          BY <2>2, <3>2, Values DEF Mine, TypeInv
        <4> QED
          BY <1>3, <2>1, <3>2, <4>1 DEF StubReady
      <3> QED
        BY <1>3, <3>1, <3>2 DEF StubReady
    <2>4. NoClient(o)'
      <3>1. ~object[o].client => o = p
        BY <1>1 DEF First
      <3> QED
        BY <1>1, <1>3, <1>4, <2>1, <3>1 DEF NoClient
    <2> QED
      BY <2>3, <2>4 DEF ObjLife
  <1>7. \A q \in Mine(o) : q \in Procs
    BY Values DEF Mine, TypeInv
  <1>8. \A q \in Procs : q \notin Mine(o) => proc'[q] = proc[q]
    BY <1>1, <1>3
  <1>9. \A q \in Mine(o) : q # p => proc'[q].up = proc[q].up /\ proc'[q].asked = proc[q].asked
    BY <1>3, <1>7
  <1> QED
    BY <1>1, <1>3, <1>5, <1>6, <1>8, <1>9, OwnStep

LEMMA InitLife == Init => LifeInv
  BY DEF Init, LifeInv, Started, Exists

LEMMA NextLife == TypeInv /\ LifeInv /\ ~early' /\ [Next]_vars => LifeInv'
  <1> SUFFICES ASSUME TypeInv, LifeInv, ~early', [Next]_vars PROVE LifeInv'
    OBVIOUS
  <1>1. CASE UNCHANGED vars
    BY <1>1, LifeUntouched DEF vars
  <1>2. ASSUME NEW u \in Users, Request(u) \/ ChangeFolders(u) \/ UserStep(u) PROVE LifeInv'
    <2>1. CASE Request(u) \/ ChangeFolders(u) \/ ExecFails(u)
      BY <2>1, LifeUntouched DEF Request, ChangeFolders, ExecFails
    <2> QED
      BY <1>2, <2>1, ExecLife, SendLife DEF UserStep
  <1>3. ASSUME NEW p \in Procs, Exit(p) \/ Restarter(p) PROVE LifeInv'
    BY <1>3, ExitLife, WaitReturnsLife, RestartLife, RestartFailsLife DEF Restarter
  <1>4. ASSUME NEW p \in Procs, InitStep(p) PROVE LifeInv'
    BY <1>4, InitConnLife, InitCallLife, InitAnswerLife, InitNotifyLife, InitStoreLife,
       InitFailLife DEF InitStep
  <1> QED
    BY <1>1, <1>2, <1>3, <1>4 DEF Next

\* Nothing forgets that a process has exited too early.
LEMMA EarlyStays == early /\ [Next]_vars => early'
  <1>1. CASE UNCHANGED vars
    BY <1>1 DEF vars, bounds
  <1>2. ASSUME NEW u \in Users, Request(u) \/ ChangeFolders(u) \/ UserStep(u), early PROVE early'
    BY <1>2 DEF Request, ChangeFolders, UserStep, Exec, ExecFails, Send, bounds
  <1>3. ASSUME NEW p \in Procs, Exit(p) \/ Restarter(p) \/ InitStep(p), early PROVE early'
    BY <1>3 DEF Exit, Restarter, WaitReturns, Restart, RestartFails,
                InitStep, InitConn, InitCall, InitAnswer, InitNotify, InitStore, InitFail, bounds
  <1> QED
    BY <1>1, <1>2, <1>3 DEF Next

LEMMA LifeInvariant == Spec => [](early \/ LifeInv)
  <1>1. TypeInv /\ (early \/ LifeInv) /\ [Next]_vars => (early \/ LifeInv)'
    BY NextLife, EarlyStays
  <1> QED
    BY <1>1, InitLife, TypeInvariant, PTL DEF Spec

\* As long as no process exits before it is initialised, no exit, refusal or
\* failed start of a server ends the program: Client.init finds the Client and
\* the connection of its object, however many servers exit and users ask.
THEOREM NoEndPanics == Spec => []NoPanic
  <1>1. early \/ LifeInv => NoPanic
    BY DEF LifeInv, NoPanic
  <1> QED
    BY <1>1, LifeInvariant, PTL

\* And a process is asked to initialise at most once, and users' messages go
\* only to one that has been initialised.
THEOREM HandshakeComesFirst == Spec => []HandshakeFirst
  <1>1. early \/ LifeInv => HandshakeFirst
    <2> SUFFICES ASSUME LifeInv PROVE HandshakeFirst
      BY DEF HandshakeFirst
    <2>1. \A p \in Started : proc[p].asked <= 1
      BY DEF LifeInv, ProcLife, Handshake
    <2>2. \A o \in Procs : object[o] # NoObject => StubReady(o)
      BY DEF LifeInv, ObjLife, Exists
    <2> QED
      BY <2>1, <2>2 DEF HandshakeFirst, StubReady
  <1> QED
    BY <1>1, LifeInvariant, PTL


-----------------------------------------------------------------------------
(* The folders, as long as requests do not overlap and nothing fails.      *)

LEMMA CalmOwn ==
    ASSUME TypeInv, CalmState, NEW p \in Started
    PROVE  /\ p \in Procs /\ proc[p].object = p /\ Mine(p) = {p} /\ Exists(p)
           /\ object[p] \in Objects /\ proc[p] \in Processes /\ object[p].cmd = p
           /\ object[p].rpc \in {p, None}
           /\ init[p].conn \in {p, None} /\ init[p].pending \in {p, None}
           /\ init[p].pc # "none"
           /\ init[p].pc \notin {"conn", "done"} => object[p].rpc = p /\ init[p].conn = p
           /\ init[p].pc = "pending" => init[p].pending = p
  <1>1. \A q \in Started : proc[q].object = q
    BY DEF CalmState, CalmProc, First
  <1>2. p \in Procs /\ proc[p].object = p /\ Mine(p) = {p}
    BY <1>1, Values DEF Mine, TypeInv
  <1>3. Exists(p) /\ InitRefs(p) /\ ObjectRefs(p)
    BY <1>2 DEF TypeInv, RefInv, InitRefs
  <1>4. object[p].restarter = "wait"
    BY DEF CalmState, CalmProc
  <1> QED
    BY <1>2, <1>3, <1>4, Values DEF TypeInv, InitRefs, ObjectRefs

\* The server that is told what is sent.
LEMMA CalmServer ==
    ASSUME TypeInv, CalmState, NEW s \in Servers, info[s] # None
    PROVE  /\ info[s] \in Started /\ info[s] \in Procs /\ object[info[s]].client
           /\ object[info[s]].stub = info[s] /\ object[info[s]].server = s
  <1>1. info[s] \in Procs /\ Exists(info[s]) /\ object[info[s]].client /\ object[info[s]].server = s
    BY DEF TypeInv, TypeOK, RefInv, InfoRefs
  <1>2. ObjectRefs(info[s])
    BY <1>1 DEF TypeInv, RefInv
  <1>3. info[s] \in Started
    BY <1>1, <1>2 DEF ObjectRefs, Mine
  <1>4. Mine(info[s]) = {info[s]}
    BY <1>3, CalmOwn
  <1> QED
    BY <1>1, <1>2, <1>3, <1>4 DEF ObjectRefs

\* A request begins when there is no other.
LEMMA BeginCalm ==
    ASSUME TypeInv, CalmState, ~Busy, NEW u \in Users, NEW r \in Requests, NEW s \in Servers,
           r.op = "send" => r.added = {} /\ r.removed = {}, s = 1 \/ r.op = "send",
           user' = [user EXCEPT ![u] = Check(r, s)],
           UNCHANGED <<info, workspaces, object, init, proc>>
    PROVE  CalmState'
  <1> PICK q : q = Check(r, s)
    OBVIOUS
  <1>1. /\ q \in Requests /\ q.server = s /\ q.folders = workspaces
        /\ q.op = r.op /\ q.added = r.added /\ q.removed = r.removed
        /\ info[s] # None => q.pc = "send" /\ q.object = info[s]
        /\ info[s] = None => q.pc = "exec"
    BY CheckType DEF TypeInv
  <1>2. user'[u] = q /\ \A v \in Users \ {u} : user'[v] = user[v]
    BY <1>1, UserSet DEF TypeInv
  <1>3. \A v \in Users : user[v].pc = "idle"
    BY DEF Busy
  <1>4. \A t \in Servers : Told(q, t)' = workspaces
    <2>1. \A t \in Servers : t < q.server => s # 1
      BY <1>1 DEF Servers
    <2> QED
      BY <1>1, <2>1 DEF Told
  <1>5. CalmUser(u)'
    <2>1. \A t \in Servers : info[t] # None => proc[info[t]].folders = workspaces
      BY DEF CalmState, AllTold
    <2>2. \A t \in Servers : info'[t] # None => proc'[info'[t]].folders = Told(user[u], t)'
      BY <1>2, <1>4, <2>1
    <2> QED
      BY <1>1, <1>2, <2>2 DEF CalmUser
  <1>6. \A v \in Users : v # u => CalmUser(v)'
    <2>1. \A v \in Users : v # u => user'[v] = user[v] /\ user[v].pc = "idle" /\ CalmUser(v)
      BY <1>2, <1>3 DEF CalmState
    <2> QED
      BY <2>1 DEF CalmUser
  <1>7. OneAtATime' /\ AllTold'
    <2>1. user'[u].pc # "idle"
      BY <1>1, <1>2
    <2> QED
      BY <1>2, <1>3, <2>1 DEF OneAtATime, AllTold, Busy
  <1>8. \A p \in Started : init[p].pc = "done"
    BY <1>3 DEF CalmState, CalmProc
  <1>9. Started' = Started /\ \A p \in Started : CalmProc(p)'
    BY <1>8 DEF Started, CalmState, CalmProc, First
  <1> QED
    BY <1>5, <1>6, <1>7, <1>9 DEF CalmState

LEMMA RequestCalm ==
    ASSUME TypeInv, CalmState, Calm', NEW u \in Users, Request(u)
    PROVE  CalmState'
  <1>1. Idle \in Requests /\ Idle.op = "send" /\ Idle.added = {} /\ Idle.removed = {}
    BY IdleType DEF Idle
  <1>2. ~Busy
    BY DEF Request, Calm
  <1>3. \E s \in Servers : user' = [user EXCEPT ![u] = Check(Idle, s)]
    BY ServersAssumption DEF Request, Servers
  <1> QED
    BY <1>1, <1>2, <1>3, BeginCalm DEF Request

LEMMA ChangeFoldersCalm ==
    ASSUME TypeInv, CalmState, Calm', NEW u \in Users, ChangeFolders(u)
    PROVE  CalmState'
  <1>1. ~Busy
    BY DEF ChangeFolders, Calm
  <1>2. PICK added \in SUBSET Folders, removed \in SUBSET Folders :
            user' = [user EXCEPT ![u] =
                Check([Idle EXCEPT !.op = "folders", !.added = added, !.removed = removed], 1)]
    BY DEF ChangeFolders
  <1> DEFINE i == [Idle EXCEPT !.op = "folders", !.added = added, !.removed = removed]
  <1>3. i \in Requests /\ i.op = "folders"
    BY IdleType DEF Requests
  <1>4. 1 \in Servers
    BY ServersAssumption DEF Servers
  <1>5. user' = [user EXCEPT ![u] = Check(i, 1)]
    BY <1>2
  <1>6. UNCHANGED <<info, workspaces, object, init, proc>>
    BY DEF ChangeFolders
  <1> HIDE DEF i
  <1> QED
    BY <1>1, <1>3, <1>4, <1>5, <1>6, BeginCalm


LEMMA ExecCalm ==
    ASSUME TypeInv, CalmState, NEW u \in Users, Exec(u)
    PROVE  CalmState'
  <1> PICK p \in Procs : ExecStep(u, p)
    BY ExecEffect
  <1>1. /\ p \notin Started /\ Started' = Started \cup {p} /\ ~Exists(p)
        /\ proc'[p] = Fresh(p) /\ \A q \in Procs \ {p} : proc'[q] = proc[q]
        /\ object'[p].server = user[u].server /\ object'[p].restarter = "wait"
        /\ object'[p].client = FALSE /\ object'[p].rpc = None
        /\ object'[p].folders = user[u].folders
        /\ \A q \in Procs \ {p} : object'[q] = object[q]
        /\ init'[p].pc = "conn" /\ \A q \in Procs \ {p} : init'[q] = init[q]
        /\ user'[u] = [user[u] EXCEPT !.pc = "init", !.object = p]
        /\ \A v \in Users \ {u} : user'[v] = user[v]
        /\ user[u].pc = "exec" /\ UNCHANGED <<info, workspaces>>
    BY DEF ExecStep, Exec
  <1>2. user[u] \in Requests
    BY DEF TypeInv, TypeOK
  <1>3. /\ user'[u].pc = "init" /\ user'[u].object = p /\ user'[u].op = user[u].op
        /\ user'[u].added = user[u].added /\ user'[u].removed = user[u].removed
        /\ user'[u].server = user[u].server
    BY <1>1, <1>2 DEF Requests
  <1>4. \A v \in Users \ {u} : user[v].pc = "idle" /\ user'[v].pc = "idle"
    BY <1>1 DEF CalmState, OneAtATime
  <1>5. \A s \in Servers : info[s] # None => info[s] \in Procs \ {p}
    BY <1>1, CalmServer
  <1>6. CalmProc(p)'
    <2>1. proc'[p].object = p /\ proc'[p].up /\ proc'[p].open
      BY <1>1 DEF Fresh
    <2> QED
      BY <1>1, <1>3, <2>1 DEF CalmProc, First
  <1>7. ASSUME NEW q \in Started PROVE CalmProc(q)'
    <2>1. q \in Procs \ {p} /\ CalmProc(q)
      BY <1>1, Values DEF TypeInv, CalmState
    <2>2. init[q].pc # "done" => FALSE
      BY <1>1, <1>4, <2>1 DEF CalmProc
    <2> QED
      BY <1>1, <2>1, <2>2 DEF CalmProc, First
  <1>8. CalmUser(u)'
    <2>1. CalmUser(u)
      BY DEF CalmState
    <2>2. \A s \in Servers : Told(user[u], s)' = Told(user[u], s)
      BY <1>1, <1>3 DEF Told
    <2>3. \A s \in Servers : info[s] # None => proc'[info[s]].folders = Told(user[u], s)
      BY <1>1, <1>5, <2>1 DEF CalmUser
    <2> QED
      BY <1>1, <1>3, <2>1, <2>2, <2>3 DEF CalmUser
  <1>9. ASSUME NEW v \in Users, v # u PROVE CalmUser(v)'
    BY <1>1, <1>4, <1>9 DEF CalmState, CalmUser
  <1>10. OneAtATime' /\ AllTold'
    BY <1>3, <1>4 DEF OneAtATime, AllTold, Busy
  <1> QED
    BY <1>1, <1>6, <1>7, <1>8, <1>9, <1>10 DEF CalmState

\* A message comes to the process of the server the request has come to.
LEMMA SendTells ==
    ASSUME TypeInv, CalmState, NEW u \in Users, Send(u)
    PROVE  LET r == user[u]
               o == info[r.server]
           IN  /\ r \in Requests /\ r.pc = "send" /\ o # None /\ o \in Started /\ o \in Procs
               /\ SameProcs /\ \A q \in Procs \ {o} : proc'[q] = proc[q]
               /\ proc'[o].up = proc[o].up /\ proc'[o].open = proc[o].open
               /\ proc'[o].folders = (proc[o].folders \cup r.added) \ r.removed
               /\ \/ /\ r.op = "folders" /\ r.server < LastServer /\ UNCHANGED workspaces
                     /\ user' = [user EXCEPT ![u] = Check(r, r.server + 1)]
                  \/ /\ r.op = "folders" /\ r.server = LastServer
                     /\ user' = [user EXCEPT ![u] = Idle]
                     /\ workspaces' = (workspaces \cup r.added) \ r.removed
                  \/ /\ r.op = "send" /\ user' = [user EXCEPT ![u] = Idle]
                     /\ UNCHANGED workspaces
  <1> PICK r : r = user[u]
    OBVIOUS
  <1> PICK o : o = info[r.server]
    OBVIOUS
  <1>1. r \in Requests /\ r.pc = "send" /\ r.object \in Procs
    BY SendEffect
  <1>2. o = r.object /\ o # None /\ r.server \in Servers
    BY <1>1, NoneIsNothing DEF CalmState, CalmUser, Requests
  <1>3. o \in Started /\ o \in Procs /\ object[o].stub = o
    BY <1>2, CalmServer
  <1>4. proc[o].up /\ proc[o].open /\ proc[o] \in Processes
    BY <1>3, CalmOwn DEF CalmState, CalmProc
  <1>5. /\ AddFolders(r, proc[o]) \in Processes
        /\ AddFolders(r, proc[o]).object = proc[o].object
        /\ AddFolders(r, proc[o]).up = proc[o].up /\ AddFolders(r, proc[o]).open = proc[o].open
        /\ AddFolders(r, proc[o]).folders = (proc[o].folders \cup r.added) \ r.removed
    BY <1>1, <1>4 DEF AddFolders, Processes, Requests
  <1>6. proc' = [proc EXCEPT ![o] = AddFolders(r, proc[o])]
    BY <1>2, <1>3, <1>4 DEF Send, Written
  <1>7. SameProcs /\ proc'[o] = AddFolders(r, proc[o]) /\ \A q \in Procs \ {o} : proc'[q] = proc[q]
    BY <1>3, <1>5, <1>6, ProcSet DEF TypeInv
  <1>8. \/ /\ r.op = "folders" /\ r.server < LastServer /\ UNCHANGED workspaces
           /\ user' = [user EXCEPT ![u] = Check(r, r.server + 1)]
        \/ /\ r.op = "folders" /\ r.server = LastServer
           /\ user' = [user EXCEPT ![u] = Idle]
           /\ workspaces' = (workspaces \cup r.added) \ r.removed
        \/ /\ r.op = "send" /\ user' = [user EXCEPT ![u] = Idle]
           /\ UNCHANGED workspaces
    BY <1>2, <1>3, <1>4 DEF Send
  <1> QED
    BY <1>1, <1>2, <1>3, <1>5, <1>7, <1>8

LEMMA SendCalm ==
    ASSUME TypeInv, CalmState, NEW u \in Users, Send(u)
    PROVE  CalmState'
  <1> PICK r \in Requests : r = user[u]
    BY SendTells
  <1> PICK o \in Started : o = info[r.server]
    BY SendTells
  <1>1. /\ r.pc = "send" /\ o # None /\ o \in Procs /\ r.server \in Servers
        /\ SameProcs /\ \A q \in Procs \ {o} : proc'[q] = proc[q]
        /\ proc'[o].up = proc[o].up /\ proc'[o].open = proc[o].open
        /\ proc'[o].folders = (proc[o].folders \cup r.added) \ r.removed
        /\ UNCHANGED <<info, object, init>>
    BY SendTells DEF Send, Requests
  <1>2. r.op \in {"send", "folders"} /\ (r.op = "send" => r.added = {} /\ r.removed = {})
    BY DEF CalmState, CalmUser, Requests
  <1>3. \A s \in Servers : info[s] # None => proc[info[s]].folders = Told(r, s)
    BY <1>1 DEF CalmState, CalmUser
  <1>4. \A s \in Servers : info[s] # None /\ s # r.server => info[s] \in Procs \ {o}
    <2>1. object[o].server = r.server
      BY <1>1, CalmServer
    <2> QED
      BY <2>1, CalmServer
  <1>5. \A v \in Users \ {u} : user[v].pc = "idle"
    BY <1>1 DEF CalmState, OneAtATime
  <1>6. \A p \in Started : init[p].pc = "done"
    BY <1>1, <1>5 DEF CalmState, CalmProc
  <1>7. Started' = Started /\ \A p \in Started : CalmProc(p)'
    <2>1. Started' = Started
      BY <1>1 DEF SameProcs
    <2>2. ASSUME NEW p \in Started PROVE CalmProc(p)'
      <3>1. CalmProc(p) /\ p \in Procs /\ init[p].pc = "done"
        BY <1>6, CalmOwn DEF CalmState
      <3>2. /\ proc'[p].object = proc[p].object
            /\ proc'[p].up = proc[p].up /\ proc'[p].open = proc[p].open
        BY <1>1, <3>1 DEF SameProcs
      <3> QED
        BY <1>1, <3>1, <3>2 DEF CalmProc, First
    <2> QED
      BY <2>1, <2>2
  <1>8. proc'[o].folders = (workspaces \cup r.added) \ r.removed
    <2>1. proc[o].folders = workspaces
      BY <1>1, <1>3 DEF Told, Servers
    <2> QED
      BY <1>1, <2>1
  <1>9. CASE r.op = "folders" /\ r.server < LastServer
    <2>1. UNCHANGED workspaces /\ user' = [user EXCEPT ![u] = Check(r, r.server + 1)]
      <3>1. r.server # LastServer
        BY <1>1, <1>9, ServersAssumption DEF Servers
      <3> QED
        BY <1>9, <3>1, SendTells
    <2> PICK q : q = Check(r, r.server + 1)
      OBVIOUS
    <2>2. r.server + 1 \in Servers
      BY <1>1, <1>9, ServersAssumption DEF Servers
    <2>3. /\ q \in Requests /\ q.server = r.server + 1 /\ q.folders = workspaces
          /\ q.op = r.op /\ q.added = r.added /\ q.removed = r.removed
          /\ info[q.server] # None => q.pc = "send" /\ q.object = info[q.server]
          /\ info[q.server] = None => q.pc = "exec"
      BY <2>2, CheckType DEF TypeInv
    <2>4. user'[u] = q /\ \A v \in Users \ {u} : user'[v] = user[v]
      BY <2>1, <2>3, UserSet DEF TypeInv
    <2>5. \A s \in Servers : info[s] # None => proc'[info[s]].folders = Told(q, s)'
      <3>1. ASSUME NEW s \in Servers, info[s] # None PROVE proc'[info[s]].folders = Told(q, s)'
        <4>1. CASE s = r.server
          <5>1. s < q.server
            BY <2>3, <4>1 DEF Servers
          <5> QED
            BY <1>8, <2>1, <2>3, <4>1, <5>1 DEF Told
        <4>2. CASE s # r.server
          <5>1. proc'[info[s]].folders = Told(r, s)
            BY <1>1, <1>3, <1>4, <3>1, <4>2
          <5>2. s < r.server + 1 <=> s < r.server
            BY <1>1, <4>2 DEF Servers
          <5> QED
            BY <2>1, <2>3, <5>1, <5>2 DEF Told
        <4> QED
          BY <4>1, <4>2
      <3> QED
        BY <3>1
    <2>6. CalmUser(u)'
      BY <1>1, <1>9, <2>1, <2>3, <2>4, <2>5 DEF CalmUser
    <2>7. \A v \in Users \ {u} : CalmUser(v)'
      BY <1>5, <2>4 DEF CalmUser, CalmState
    <2>8. OneAtATime' /\ AllTold'
      BY <1>5, <2>3, <2>4 DEF OneAtATime, AllTold, Busy
    <2> QED
      BY <1>7, <2>6, <2>7, <2>8 DEF CalmState
  <1>10. CASE ~(r.op = "folders" /\ r.server < LastServer)
    <2>1. user' = [user EXCEPT ![u] = Idle]
      BY <1>10, SendTells
    <2>2. workspaces' = (workspaces \cup r.added) \ r.removed
      BY <1>2, <1>10, SendTells
    <2>3. user'[u] = Idle /\ \A v \in Users \ {u} : user'[v] = user[v]
      BY <2>1, IdleType, UserSet DEF TypeInv
    <2>4. \A v \in Users : user'[v].pc = "idle"
      BY <1>5, <2>3, IdleType
    <2>5. AllTold'
      <3>1. ASSUME NEW s \in Servers, info[s] # None PROVE proc'[info[s]].folders = workspaces'
        <4>1. CASE s = r.server
          BY <1>8, <2>2, <4>1
        <4>2. CASE s # r.server
          <5>1. proc'[info[s]].folders = Told(r, s)
            BY <1>1, <1>3, <1>4, <3>1, <4>2
          <5>2. r.op = "folders" => s < r.server
            BY <1>1, <1>10, <4>2, ServersAssumption DEF Servers
          <5> QED
            BY <1>2, <2>2, <5>1, <5>2 DEF Told
        <4> QED
          BY <4>1, <4>2
      <3> QED
        BY <1>1, <3>1 DEF AllTold
    <2>6. \A v \in Users : CalmUser(v)'
      <3>1. Idle.added = {} /\ Idle.removed = {}
        BY DEF Idle
      <3> QED
        BY <2>3, <2>4, <3>1 DEF CalmUser, CalmState
    <2> QED
      BY <1>7, <2>4, <2>5, <2>6 DEF CalmState, OneAtATime
  <1> QED
    BY <1>9, <1>10


\* An initialisation goes on; it is of an object of its own.
LEMMA OneInitCalm ==
    ASSUME TypeInv, CalmState, NEW p \in Started, init[p].pc # "done",
           SameProcs,
           \A q \in Procs \ {p} : proc'[q] = proc[q] /\ init'[q] = init[q] /\ object'[q] = object[q],
           proc'[p].up = proc[p].up, proc'[p].open = proc[p].open,
           init'[p].pc \notin {"fail", "conn", "done"},
           object'[p].restarter = object[p].restarter, object'[p].client = object[p].client,
           object'[p].folders = object[p].folders, object'[p].server = object[p].server,
           init'[p].pc # "call" => proc'[p].folders = object[p].folders,
           UNCHANGED <<user, info, workspaces>>
    PROVE  CalmState'
  <1>1. CalmProc(p) /\ proc'[p].object = p /\ p \in Procs
    BY CalmOwn DEF CalmState, SameProcs
  <1>2. CalmProc(p)'
    BY <1>1 DEF CalmProc, First
  <1>3. ASSUME NEW q \in Started, q # p PROVE CalmProc(q)'
    <2>1. q \in Procs \ {p} /\ CalmProc(q)
      BY <1>3, CalmOwn DEF CalmState
    <2> QED
      BY <2>1 DEF CalmProc, First
  <1>4. PICK u \in Users : user[u].pc = "init" /\ user[u].object = p
    BY <1>1 DEF CalmProc
  <1>5. \A v \in Users \ {u} : user[v].pc = "idle"
    BY <1>4 DEF CalmState, OneAtATime
  <1>6. \A s \in Servers : info[s] # None => info[s] \in Procs \ {p}
    BY <1>4, CalmServer DEF CalmState, CalmUser
  <1>7. ASSUME NEW v \in Users PROVE CalmUser(v)'
    <2>1. CalmUser(v) /\ Told(user[v], 1)' = Told(user[v], 1)
      BY DEF CalmState, Told
    <2>2. CASE v = u
      BY <1>4, <1>6, <2>1, <2>2 DEF CalmUser, Told
    <2>3. CASE v # u
      BY <1>5, <2>1, <2>3 DEF CalmUser
    <2> QED
      BY <2>2, <2>3
  <1>8. OneAtATime' /\ AllTold'
    BY <1>4 DEF CalmState, OneAtATime, AllTold, Busy
  <1> QED
    BY <1>2, <1>3, <1>7, <1>8 DEF CalmState, SameProcs

LEMMA InitConnCalm ==
    ASSUME TypeInv, CalmState, NEW p \in Procs, InitConn(p)
    PROVE  CalmState'
  <1>1. init[p].pc = "conn" /\ UNCHANGED <<user, info, workspaces>>
    BY DEF InitConn
  <1>2. p \in Started
    BY <1>1, InitOf
  <1>3. /\ proc[p].object = p /\ object[p].cmd = p /\ First(p) /\ p # None
        /\ object[p].rpc = None
    BY <1>1, <1>2, CalmOwn, NoneIsNothing DEF First, CalmState, CalmProc
  <1>4. InitConnStep(p)
    BY <1>3, InitConnEffect DEF IsNil
  <1>5. /\ SameProcs /\ init'[p].pc = "call"
        /\ \A q \in Procs \ {p} : init'[q] = init[q] /\ object'[q] = object[q]
        /\ object'[p].restarter = object[p].restarter /\ object'[p].client = object[p].client
        /\ object'[p].folders = object[p].folders /\ object'[p].server = object[p].server
        /\ \A q \in Procs : proc'[q] = proc[q]
    BY <1>3, <1>4, NoneIsNothing DEF InitConnStep
  <1> QED
    BY <1>1, <1>2, <1>5, OneInitCalm

LEMMA InitCallCalm ==
    ASSUME TypeInv, CalmState, NEW p \in Procs, InitCall(p)
    PROVE  CalmState'
  <1>1. init[p].pc = "call" /\ UNCHANGED <<user, info, workspaces, object>>
    BY DEF InitCall
  <1>2. p \in Started
    BY <1>1, InitOf
  <1>3. /\ proc[p].object = p /\ object[p].rpc = p /\ proc[p].open /\ proc[p].up /\ Exists(p)
    BY <1>1, <1>2, CalmOwn DEF CalmState, CalmProc
  <1>4. /\ SameProcs /\ init'[p].pc = "pending" /\ proc'[p] = WhenAsked(p, p)
        /\ \A q \in Procs \ {p} : init'[q] = init[q] /\ proc'[q] = proc[q]
    <2>1. PICK o \in Procs : o = proc[p].object /\ object[o].rpc = p
      BY <1>3
    <2>2. /\ SameProcs /\ init'[p].pc = "pending" /\ proc'[p] = WhenAsked(p, o)
          /\ \A q \in Procs \ {p} : init'[q] = init[q] /\ proc'[q] = proc[q]
      BY <1>3, <2>1, InitCallEffect
    <2> QED
      BY <1>3, <2>1, <2>2
  <1>5. /\ WhenAsked(p, p).up = proc[p].up /\ WhenAsked(p, p).open = proc[p].open
        /\ WhenAsked(p, p).folders = object[p].folders
    BY <1>2, <1>3, AskedType
  <1> QED
    BY <1>1, <1>2, <1>4, <1>5, OneInitCalm

LEMMA InitAnswerCalm ==
    ASSUME TypeInv, CalmState, refusals \in Nat, UNCHANGED refusals, NEW p \in Procs, InitAnswer(p)
    PROVE  CalmState'
  <1>1. init[p].pc = "pending" /\ UNCHANGED <<user, info, workspaces, object, proc>> /\ SameProcs
    BY NothingProcs DEF InitAnswer
  <1>2. p \in Started
    BY <1>1, InitOf
  <1>3. init[p].pending = p /\ proc[p].open /\ proc[p].folders = object[p].folders
    BY <1>1, <1>2, CalmOwn DEF CalmState, CalmProc
  <1>4. refusals' # refusals + 1
    OBVIOUS
  <1>5. init'[p].pc = "notify"
    BY <1>3, <1>4, InitAnswerEffect
  <1>6. \A q \in Procs \ {p} : init'[q] = init[q]
    BY InitAnswerEffect
  <1> QED
    BY <1>1, <1>2, <1>3, <1>5, <1>6, OneInitCalm

LEMMA InitNotifyCalm ==
    ASSUME TypeInv, CalmState, NEW p \in Procs, InitNotify(p)
    PROVE  CalmState'
  <1>1. init[p].pc = "notify" /\ UNCHANGED <<user, info, workspaces, object>>
    BY DEF InitNotify
  <1>2. p \in Started
    BY <1>1, InitOf
  <1>3. /\ init[p].conn = p /\ proc[p].open /\ proc[p].up /\ Exists(p)
        /\ proc[p].folders = object[p].folders
    BY <1>1, <1>2, CalmOwn DEF CalmState, CalmProc
  <1>4. /\ SameProcs /\ init'[p].pc = "store" /\ proc'[p] = Initialized(p)
        /\ \A q \in Procs \ {p} : init'[q] = init[q] /\ proc'[q] = proc[q]
    BY <1>3, InitNotifyEffect
  <1>5. /\ Initialized(p).up = proc[p].up /\ Initialized(p).open = proc[p].open
        /\ Initialized(p).folders = proc[p].folders
    BY <1>2, <1>3, AskedType
  <1> QED
    BY <1>1, <1>2, <1>3, <1>4, <1>5, OneInitCalm

LEMMA InitStoreCalm ==
    ASSUME TypeInv, CalmState, NEW p \in Procs, InitStore(p)
    PROVE  CalmState'
  <1>1. init[p].pc = "store" /\ UNCHANGED <<workspaces, proc>> /\ SameProcs
    BY NothingProcs DEF InitStore
  <1>2. p \in Started
    BY <1>1, InitOf
  <1>3. /\ proc[p].object = p /\ First(p) /\ proc[p].folders = object[p].folders
        /\ object[p] \in Objects /\ CalmProc(p)
    BY <1>1, <1>2, CalmOwn DEF CalmState, CalmProc, First
  <1>4. InitStoreStep(p, p)
    BY <1>3, InitStoreEffect
  <1> PICK u \in Users : user[u].pc = "init" /\ user[u].object = p
    BY <1>1, <1>3 DEF CalmProc
  <1> PICK t \in Servers : t = object[p].server
    BY <1>3 DEF Objects
  <1>5. \A v \in Users \ {u} : user[v].pc = "idle"
    BY DEF CalmState, OneAtATime
  <1>6. /\ object[p].folders = workspaces /\ t = user[u].server /\ info[t] = None
        /\ \A s \in Servers : info[s] # None => proc[info[s]].folders = Told(user[u], s)
    BY DEF CalmState, CalmUser
  <1>7. /\ init'[p].pc = "done" /\ \A q \in Procs \ {p} : init'[q] = init[q] /\ object'[q] = object[q]
        /\ object'[p].client = TRUE /\ object'[p].restarter = object[p].restarter
        /\ \A s \in Servers : info'[s] = IF s = t THEN p ELSE info[s]
    BY <1>3, <1>4 DEF InitStoreStep
  <1>8. \A v \in Users :
          /\ user'[v].object = user[v].object /\ user'[v].server = user[v].server
          /\ user'[v].op = user[v].op /\ user'[v].added = user[v].added
          /\ user'[v].removed = user[v].removed
          /\ user'[v].pc = IF v = u THEN "send" ELSE "idle"
    BY <1>3, <1>4, <1>5 DEF InitStoreStep
  <1>9. CalmProc(p)'
    BY <1>1, <1>3, <1>7 DEF CalmProc, First
  <1>10. ASSUME NEW q \in Started, q # p PROVE CalmProc(q)'
    <2>1. q \in Procs \ {p} /\ CalmProc(q)
      BY <1>10, CalmOwn DEF CalmState
    <2>2. init[q].pc = "done"
      BY <1>5, <1>10, <2>1 DEF CalmProc
    <2> QED
      BY <1>1, <1>7, <2>1, <2>2 DEF CalmProc, First
  <1>11. CalmUser(u)'
    <2>1. \A s \in Servers : Told(user[u], s)' = Told(user[u], s)
      BY <1>1, <1>8 DEF Told
    <2>2. Told(user[u], t) = workspaces
      BY <1>6 DEF Told, Servers
    <2>3. \A s \in Servers : info'[s] # None => proc'[info'[s]].folders = Told(user[u], s)'
      BY <1>1, <1>3, <1>6, <1>7, <2>1, <2>2
    <2>4. CalmUser(u)
      BY DEF CalmState
    <2> QED
      BY <1>6, <1>7, <1>8, <2>3, <2>4 DEF CalmUser
  <1>12. ASSUME NEW v \in Users, v # u PROVE CalmUser(v)'
    <2>1. CalmUser(v)
      BY DEF CalmState
    <2> QED
      BY <1>8, <1>12, <2>1 DEF CalmUser
  <1>13. OneAtATime' /\ AllTold'
    BY <1>8 DEF OneAtATime, AllTold, Busy
  <1> QED
    BY <1>1, <1>9, <1>10, <1>11, <1>12, <1>13 DEF CalmState, SameProcs

LEMMA NothingEnds ==
    ASSUME TypeInv, CalmState, NEW p \in Procs
    PROVE  ~WaitReturns(p) /\ ~Restart(p) /\ ~InitFail(p)
  <1>1. Exists(p) => p \in Started
    BY DEF TypeInv, RefInv, ObjectRefs, Mine
  <1>2. p \in Started => object[p].restarter = "wait" /\ object[p].cmd = p /\ proc[p].up
                         /\ init[p].pc # "fail"
    BY CalmOwn DEF CalmState, CalmProc
  <1>3. init[p].pc = "fail" => p \in Started
    BY InitOf
  <1> QED
    BY <1>1, <1>2, <1>3 DEF WaitReturns, Restart, InitFail, Exists

LEMMA NothingCalm ==
    ASSUME CalmState, UNCHANGED <<user, info, workspaces, object, init, proc>>
    PROVE  CalmState'
  <1>1. Started' = Started /\ \A p \in Started : CalmProc(p)'
    BY DEF Started, CalmState, CalmProc, First
  <1>2. \A u \in Users : CalmUser(u)'
    BY DEF CalmState, CalmUser, Told
  <1>3. OneAtATime' /\ AllTold'
    BY DEF CalmState, OneAtATime, AllTold, Busy
  <1> QED
    BY <1>1, <1>2, <1>3 DEF CalmState


LEMMA InitCalm == Init => CalmInv
  <1> SUFFICES ASSUME Init PROVE CalmInv
    OBVIOUS
  <1>1. Started = {} /\ \A u \in Users : user[u] = Idle
    BY DEF Init, Started
  <1>2. \A s \in Servers : info[s] = None
    BY DEF Init
  <1>3. Idle.pc = "idle" /\ Idle.added = {} /\ Idle.removed = {}
    BY DEF Idle
  <1>4. CalmState
    BY <1>1, <1>2, <1>3 DEF CalmState, OneAtATime, AllTold, CalmUser
  <1>5. Counts
    BY DEF Init, Counts
  <1> QED
    BY <1>4, <1>5 DEF CalmInv

\* What ends, is refused or fails to start is counted.
LEMMA Counted ==
    ASSUME Counts, [Next]_vars
    PROVE  Counts' /\ (Calm' => Calm /\ UNCHANGED <<exits, refusals, failures>>)
  <1>1. exits \in Nat /\ refusals \in Nat /\ failures \in Nat
    BY DEF Counts
  <1>2. \/ UNCHANGED <<exits, refusals, failures>>
        \/ exits' = exits + 1 /\ UNCHANGED <<refusals, failures>>
        \/ refusals' = refusals + 1 /\ UNCHANGED <<exits, failures>>
        \/ failures' = failures + 1 /\ UNCHANGED <<exits, refusals>>
    <2>1. CASE UNCHANGED vars
      BY <2>1 DEF vars, bounds
    <2>2. ASSUME NEW u \in Users, Request(u) \/ ChangeFolders(u) \/ UserStep(u)
          PROVE  \/ UNCHANGED <<exits, refusals, failures>>
                 \/ failures' = failures + 1 /\ UNCHANGED <<exits, refusals>>
      BY <2>2 DEF Request, ChangeFolders, UserStep, Exec, ExecFails, Send, bounds
    <2>3. ASSUME NEW p \in Procs, Exit(p) \/ Restarter(p)
          PROVE  \/ UNCHANGED <<exits, refusals, failures>>
                 \/ exits' = exits + 1 /\ UNCHANGED <<refusals, failures>>
                 \/ failures' = failures + 1 /\ UNCHANGED <<exits, refusals>>
      BY <2>3 DEF Exit, Restarter, WaitReturns, Restart, RestartFails, bounds
    <2>4. ASSUME NEW p \in Procs, InitStep(p)
          PROVE  \/ UNCHANGED <<exits, refusals, failures>>
                 \/ refusals' = refusals + 1 /\ UNCHANGED <<exits, failures>>
      BY <2>4 DEF InitStep, InitConn, InitCall, InitAnswer, InitNotify, InitStore, InitFail, bounds
    <2> QED
      BY <2>1, <2>2, <2>3, <2>4 DEF Next
  <1>3. overlapped => overlapped'
    <2>1. CASE UNCHANGED vars
      BY <2>1 DEF vars
    <2>2. ASSUME NEW u \in Users, Request(u) \/ ChangeFolders(u) \/ UserStep(u), overlapped
          PROVE  overlapped'
      BY <2>2 DEF Request, ChangeFolders, UserStep, Exec, ExecFails, Send
    <2>3. ASSUME NEW p \in Procs, Exit(p) \/ Restarter(p) \/ InitStep(p), overlapped
          PROVE  overlapped'
      BY <2>3 DEF Exit, Restarter, WaitReturns, Restart, RestartFails,
                  InitStep, InitConn, InitCall, InitAnswer, InitNotify, InitStore, InitFail
    <2> QED
      BY <2>1, <2>2, <2>3 DEF Next
  <1>4. Counts'
    BY <1>1, <1>2 DEF Counts
  <1>5. Calm' => Calm /\ UNCHANGED <<exits, refusals, failures>>
    BY <1>1, <1>2, <1>3 DEF Calm
  <1> QED
    BY <1>4, <1>5

LEMMA NextCalm == TypeInv /\ CalmInv /\ [Next]_vars => CalmInv'
  <1> SUFFICES ASSUME TypeInv, CalmInv, [Next]_vars PROVE CalmInv'
    OBVIOUS
  <1>1. /\ Counts /\ Counts'
        /\ Calm' => Calm /\ UNCHANGED <<exits, refusals, failures>>
    BY Counted DEF CalmInv
  <1> SUFFICES ASSUME Calm' PROVE CalmState'
    BY <1>1 DEF CalmInv
  <1>2. CalmState /\ exits' # exits + 1 /\ failures' # failures + 1 /\ refusals \in Nat
        /\ UNCHANGED refusals
    BY <1>1 DEF CalmInv, Counts
  <1>3. CASE UNCHANGED vars
    BY <1>2, <1>3, NothingCalm DEF vars
  <1>4. ASSUME NEW u \in Users, Request(u) \/ ChangeFolders(u) \/ UserStep(u) PROVE CalmState'
    <2>1. ~ExecFails(u)
      BY <1>2 DEF ExecFails
    <2> QED
      BY <1>2, <1>4, <2>1, RequestCalm, ChangeFoldersCalm, ExecCalm, SendCalm DEF UserStep
  <1>5. ASSUME NEW p \in Procs, Exit(p) \/ Restarter(p) PROVE CalmState'
    <2>1. ~Exit(p) /\ ~RestartFails(p)
      BY <1>2 DEF Exit, RestartFails
    <2> QED
      BY <1>2, <1>5, <2>1, NothingEnds DEF Restarter
  <1>6. ASSUME NEW p \in Procs, InitStep(p) PROVE CalmState'
    BY <1>2, <1>6, InitConnCalm, InitCallCalm, InitAnswerCalm, InitNotifyCalm, InitStoreCalm,
       NothingEnds DEF InitStep
  <1> QED
    BY <1>3, <1>4, <1>5, <1>6 DEF Next

\* As long as requests do not overlap and no server ends or fails to start,
\* every server knows the set's workspace folders between requests: a new one
\* is told those that ClientConfig reads before it is started, and a change
\* goes to all that run before it is stored. Nothing is assumed of when a
\* process may end.
THEOREM ServersKnowTheFolders == Spec => []FoldersAgree
  <1>1. TypeInv /\ CalmInv => FoldersAgree
    <2> SUFFICES ASSUME TypeInv, CalmInv, Calm, ~Busy, NEW s \in Servers, info[s] # None
                 PROVE  proc[object[info[s]].stub].folders = workspaces
      BY DEF FoldersAgree, Calm
    <2>1. CalmState
      BY DEF CalmInv
    <2>2. object[info[s]].stub = info[s]
      BY <2>1, CalmServer
    <2> QED
      BY <2>1, <2>2 DEF CalmState, AllTold
  <1> QED
    BY <1>1, InitCalm, NextCalm, TypeInvariant, PTL DEF Spec


-----------------------------------------------------------------------------
(* The processes of a server, and who starts them.                         *)

LEMMA StartersStay ==
    ASSUME NEW s \in Servers, StartersOf(s), Live(s)' \subseteq Live(s),
           \A o \in Live(s), u \in Users : Starter(u, o, s) /\ o \in Live(s)' => Starter(u, o, s)'
    PROVE  StartersOf(s)'
  <1> PICK f \in Injection(Live(s), Users) : StartedBy(f, s)
    BY DEF StartersOf
  <1> PICK L : L = Live(s)'
    OBVIOUS
  <1> PICK g : g = [o \in L |-> f[o]]
    OBVIOUS
  <1>1. /\ f \in [Live(s) -> Users]
        /\ \A o, q \in Live(s) : f[o] = f[q] => o = q
    BY DEF Injection, IsInjective
  <1>2. g \in Injection(L, Users)
    <2>1. g \in [L -> Users]
      BY <1>1
    <2>2. \A o, q \in L : g[o] = g[q] => o = q
      BY <1>1
    <2> QED
      BY <2>1, <2>2 DEF Injection, IsInjective
  <1>3. \A o \in L : Starter(g[o], o, s)'
    BY <1>1 DEF StartedBy
  <1>4. g \in Injection(Live(s), Users)'
    BY <1>2
  <1>5. StartedBy(g, s)'
    BY <1>3 DEF StartedBy
  <1> QED
    BY <1>4, <1>5 DEF StartersOf

\* A user that does not start anything in s, and has not.
LEMMA UserStarts ==
    ASSUME TypeInv, StartersInv, NEW u \in Users, NEW r \in Requests,
           user' = [user EXCEPT ![u] = r],
           user[u].pc # "init", r.pc # "init",
           r.pc = "exec" => info[r.server] = None,
           UNCHANGED <<info, object, init>>
    PROVE  StartersInv'
  <1>1. user'[u] = r /\ \A v \in Users \ {u} : user'[v] = user[v]
    BY UserSet DEF TypeInv
  <1>2. \A s \in Servers : Live(s)' = Live(s)
    BY DEF Live, Exists
  <1>3. \A s \in Servers : \A o \in Live(s) : \A v \in Users : Starter(v, o, s) => Starter(v, o, s)'
    <2>1. ASSUME NEW s \in Servers, NEW o \in Live(s), Starter(u, o, s) PROVE Starter(u, o, s)'
      BY <1>1, <2>1 DEF Starter
    <2>2. ASSUME NEW s \in Servers, NEW o \in Live(s), NEW v \in Users, v # u, Starter(v, o, s)
          PROVE  Starter(v, o, s)'
      BY <1>1, <2>2 DEF Starter
    <2> QED
      BY <2>1, <2>2
  <1> QED
    BY <1>2, <1>3, StartersStay DEF StartersInv

LEMMA RequestStarts == ASSUME TypeInv, StartersInv, NEW u \in Users, Request(u) PROVE StartersInv'
  <1> PICK s \in Servers : user' = [user EXCEPT ![u] = Check(Idle, s)]
    BY ServersAssumption DEF Request, Servers
  <1> PICK r : r = Check(Idle, s)
    OBVIOUS
  <1>1. r \in Requests /\ r.pc # "init" /\ (r.pc = "exec" => info[r.server] = None)
    BY CheckType, IdleType DEF TypeInv
  <1> QED
    BY <1>1, UserStarts DEF Request

LEMMA ChangeFoldersStarts ==
    ASSUME TypeInv, StartersInv, NEW u \in Users, ChangeFolders(u) PROVE StartersInv'
  <1>1. PICK added \in SUBSET Folders, removed \in SUBSET Folders :
            user' = [user EXCEPT ![u] =
                Check([Idle EXCEPT !.op = "folders", !.added = added, !.removed = removed], 1)]
    BY DEF ChangeFolders
  <1> DEFINE i == [Idle EXCEPT !.op = "folders", !.added = added, !.removed = removed]
  <1>2. i \in Requests
    BY IdleType DEF Requests
  <1>3. 1 \in Servers
    BY ServersAssumption DEF Servers
  <1> PICK r : r = Check(i, 1)
    OBVIOUS
  <1>4. user' = [user EXCEPT ![u] = r]
    BY <1>1
  <1> HIDE DEF i
  <1>5. r \in Requests /\ r.pc # "init" /\ (r.pc = "exec" => info[r.server] = None)
    BY <1>2, <1>3, CheckType DEF TypeInv
  <1> QED
    BY <1>4, <1>5, UserStarts DEF ChangeFolders

LEMMA ExecFailsStarts ==
    ASSUME TypeInv, StartersInv, NEW u \in Users, ExecFails(u) PROVE StartersInv'
  BY IdleType, UserStarts DEF ExecFails

LEMMA SendStarts == ASSUME TypeInv, StartersInv, NEW u \in Users, Send(u) PROVE StartersInv'
  <1> PICK r \in Requests :
          /\ user' = [user EXCEPT ![u] = r]
          /\ \/ r = Idle
             \/ /\ user[u].server + 1 \in Servers
                /\ r = Check(user[u], user[u].server + 1)
    BY SendEffect
  <1>1. user[u] \in Requests
    BY DEF TypeInv, TypeOK
  <1>2. r.pc # "init" /\ (r.pc = "exec" => info[r.server] = None)
    BY <1>1, CheckType, IdleType DEF TypeInv
  <1> QED
    BY <1>2, UserStarts DEF Send

LEMMA ExecStarts == ASSUME TypeInv, StartersInv, NEW u \in Users, Exec(u) PROVE StartersInv'
  <1> PICK p \in Procs : ExecStep(u, p)
    BY ExecEffect
  <1>1. /\ ~Exists(p) /\ Exists(p)' /\ \A q \in Procs \ {p} : Exists(q)' = Exists(q)
        /\ object'[p].server = user[u].server /\ object'[p].client = FALSE
        /\ \A q \in Procs \ {p} : object'[q] = object[q] /\ init'[q] = init[q]
        /\ init'[p].pc = "conn" /\ user[u].pc = "exec" /\ UNCHANGED info
        /\ user'[u] = [user[u] EXCEPT !.pc = "init", !.object = p]
        /\ \A v \in Users \ {u} : user'[v] = user[v]
    BY DEF ExecStep, Exec
  <1>2. user[u] \in Requests
    BY DEF TypeInv, TypeOK
  <1>3. user'[u].pc = "init" /\ user'[u].object = p /\ user'[u].server = user[u].server
    BY <1>1, <1>2 DEF Requests
  <1>4. \A s \in Servers :
          /\ p \notin Live(s)
          /\ Live(s)' = IF s = user[u].server THEN Live(s) \cup {p} ELSE Live(s)
    BY <1>1 DEF Live
  <1>5. ASSUME NEW s \in Servers, NEW o \in Live(s), NEW v \in Users, Starter(v, o, s)
        PROVE  /\ v # u \/ s # user[u].server => Starter(v, o, s)'
               /\ s = user[u].server => v # u
    <2>1. o \in Procs /\ o # p /\ object'[o] = object[o]
      BY <1>1, <1>4 DEF Live
    <2>2. CASE v = u
      BY <1>1, <1>3, <1>5, <2>1, <2>2 DEF Starter
    <2>3. CASE v # u
      BY <1>1, <1>5, <2>1, <2>3 DEF Starter
    <2> QED
      BY <2>2, <2>3
  <1>6. ASSUME NEW s \in Servers, s # user[u].server PROVE StartersOf(s)'
    BY <1>4, <1>5, <1>6, StartersStay DEF StartersInv
  <1>7. ASSUME NEW s \in Servers, s = user[u].server PROVE StartersOf(s)'
    <2> PICK f \in Injection(Live(s), Users) : StartedBy(f, s)
      BY DEF StartersInv, StartersOf
    <2> PICK L : L = Live(s)
      OBVIOUS
    <2> PICK g : g = [o \in L \cup {p} |-> IF o = p THEN u ELSE f[o]]
      OBVIOUS
    <2>1. f \in [L -> Users] /\ \A o, q \in L : f[o] = f[q] => o = q
      BY DEF Injection, IsInjective
    <2>2. p \notin L /\ L \cup {p} = Live(s)'
      BY <1>4, <1>7
    <2>3. \A o \in L : f[o] # u /\ Starter(f[o], o, s)'
      BY <1>5, <1>7, <2>1 DEF StartedBy
    <2>4. g \in Injection(L \cup {p}, Users)
      <3>1. g \in [L \cup {p} -> Users]
        BY <2>1
      <3>2. \A o, q \in L \cup {p} : g[o] = g[q] => o = q
        BY <2>1, <2>2, <2>3
      <3> QED
        BY <3>1, <3>2 DEF Injection, IsInjective
    <2>5. \A o \in L \cup {p} : Starter(g[o], o, s)'
      <3>1. Starter(u, p, s)'
        BY <1>1, <1>3 DEF Starter
      <3>2. \A o \in L : g[o] = f[o]
        BY <2>2
      <3>3. g[p] = u
        OBVIOUS
      <3> QED
        BY <2>3, <3>1, <3>2, <3>3
    <2>6. StartedBy(g, s)' /\ g \in Injection(Live(s), Users)'
      BY <2>2, <2>4, <2>5 DEF StartedBy
    <2> QED
      BY <2>6 DEF StartersOf
  <1> QED
    BY <1>6, <1>7 DEF StartersInv


\* Steps that concern no user and leave the objects live that were.
LEMMA ObjectsStart ==
    ASSUME StartersInv, UNCHANGED <<user, info>>,
           \A o \in Procs : Exists(o)' => Exists(o),
           \A o \in Procs : Exists(o) => /\ object'[o].server = object[o].server
                                         /\ object'[o].client = object[o].client
                                         /\ init[o].pc = "done" => init'[o].pc = "done"
    PROVE  StartersInv'
  <1>1. \A s \in Servers : Live(s)' \subseteq Live(s)
    BY DEF Live
  <1>2. \A s \in Servers : \A o \in Live(s), u \in Users : Starter(u, o, s) => Starter(u, o, s)'
    BY DEF Live, Starter
  <1> QED
    BY <1>1, <1>2, StartersStay DEF StartersInv

LEMMA ExitStarts == ASSUME TypeInv, StartersInv, NEW p \in Procs, Exit(p) PROVE StartersInv'
  BY ObjectsStart DEF Exit, Exists

LEMMA WaitReturnsStarts ==
    ASSUME TypeInv, StartersInv, NEW o \in Procs, WaitReturns(o) PROVE StartersInv'
  <1>1. /\ Exists(o) /\ object[o] \in Objects /\ object'[o] = [object[o] EXCEPT !.restarter = "start"]
        /\ \A q \in Procs \ {o} : object'[q] = object[q]
    BY WaitReturnsEffect, Values DEF TypeInv
  <1>2. object'[o].server = object[o].server /\ object'[o].client = object[o].client
    BY <1>1 DEF Objects
  <1>3. UNCHANGED <<user, info, init>>
    BY DEF WaitReturns
  <1> QED
    BY <1>1, <1>2, <1>3, ObjectsStart DEF Exists

LEMMA RestartStarts == ASSUME TypeInv, StartersInv, NEW o \in Procs, Restart(o) PROVE StartersInv'
  <1> PICK p \in Procs : RestartStep(o, p)
    BY RestartEffect
  <1>1. ~Exists(p)
    BY DEF RestartStep, TypeInv, RefInv, ObjectRefs, Mine
  <1>2. object'[o].server = object[o].server /\ object'[o].client = object[o].client
    BY RestartKeeps
  <1>3. /\ \A q \in Procs : Exists(q)' = Exists(q)
        /\ \A q \in Procs \ {o} : object'[q] = object[q]
        /\ \A q \in Procs \ {p} : init'[q] = init[q]
    BY DEF RestartStep
  <1>4. UNCHANGED <<user, info>>
    BY DEF Restart
  <1> QED
    BY <1>1, <1>2, <1>3, <1>4, ObjectsStart

LEMMA RestartFailsStarts ==
    ASSUME TypeInv, StartersInv, NEW o \in Procs, RestartFails(o) PROVE StartersInv'
  <1>1. UNCHANGED <<user, info, init>>
    BY DEF RestartFails
  <1> QED
    BY <1>1, RestartFailsEffect, ObjectsStart DEF Exists

LEMMA InitConnStarts ==
    ASSUME TypeInv, StartersInv, NEW p \in Procs, InitConn(p) PROVE StartersInv'
  <1>1. UNCHANGED <<user, info>> /\ init[p].pc = "conn"
    BY DEF InitConn
  <1>2. CASE UNCHANGED <<object, init>>
    BY <1>1, <1>2, ObjectsStart DEF Exists
  <1>3. CASE InitConnStep(p)
    <2> PICK o \in Procs : o = proc[p].object
      BY <1>1, InitOf
    <2>1. Exists(o)
      BY <1>1, InitOf
    <2>2. /\ object'[o].server = object[o].server /\ object'[o].client = object[o].client
          /\ \A q \in Procs \ {o} : object'[q] = object[q]
          /\ \A q \in Procs \ {p} : init'[q] = init[q]
      BY <1>3 DEF InitConnStep
    <2> QED
      BY <1>1, <2>1, <2>2, ObjectsStart DEF Exists
  <1> QED
    BY <1>2, <1>3, InitConnEffect

LEMMA InitStepStarts ==
    ASSUME TypeInv, StartersInv, NEW p \in Procs, InitCall(p) \/ InitAnswer(p) \/ InitNotify(p)
    PROVE  StartersInv'
  <1>1. UNCHANGED <<user, info, object>> /\ init[p].pc # "done"
    BY DEF InitCall, InitAnswer, InitNotify
  <1>2. \A q \in Procs \ {p} : init'[q] = init[q]
    BY InitCallEffect, InitAnswerEffect, InitNotifyEffect
  <1> QED
    BY <1>1, <1>2, ObjectsStart DEF Exists

LEMMA InitStoreStarts ==
    ASSUME TypeInv, LifeInv, StartersInv, NEW p \in Procs, InitStore(p) PROVE StartersInv'
  <1>0. init[p].pc = "store"
    BY DEF InitStore
  <1> PICK o \in Procs : o = proc[p].object
    BY <1>0, InitOf
  <1>1. First(p) \/ object[o].client
    BY <1>0, Begun
  <1>2. p \in Started /\ Exists(o) /\ object[o] \in Objects
    BY <1>0, InitOf
  <1> PICK t \in Servers : t = object[o].server
    BY <1>2 DEF Objects
  <1>3. InitStoreStep(p, o)
    BY InitStoreEffect
  <1>4. /\ init'[p].pc = "done" /\ \A q \in Procs \ {p} : init'[q] = init[q]
        /\ object'[o].client = TRUE /\ object'[o].server = t
        /\ \A q \in Procs \ {o} : object'[q] = object[q]
        /\ \A s \in Servers : info'[s] = IF First(p) /\ s = t THEN o ELSE info[s]
        /\ \A u \in Users :
              /\ user'[u].object = user[u].object /\ user'[u].server = user[u].server
              /\ user'[u].pc = IF First(p) /\ user[u].pc = "init" /\ user[u].object = o
                               THEN "send" ELSE user[u].pc
    BY <1>3 DEF InitStoreStep
  <1>5. \A s \in Servers : Live(s)' \subseteq Live(s)
    <2>1. \A q \in Procs : Exists(q)' => Exists(q)
      BY <1>2, <1>4 DEF Exists
    <2>2. First(p) => p = o
      BY DEF First
    <2>3. \A q \in Procs : q # o /\ init'[q].pc # "done" => init[q].pc # "done"
      BY <1>4
    <2>4. o \in Live(t)
      BY <1>0, <1>1, <1>2, <2>2 DEF Live
    <2> QED
      BY <1>4, <2>1, <2>3, <2>4 DEF Live
  <1>6. ASSUME NEW s \in Servers, NEW q \in Live(s), NEW u \in Users, Starter(u, q, s)
        PROVE  Starter(u, q, s)'
    <2>1. q \in Procs /\ object[q].server = s /\ o # None
      BY NoneIsNothing DEF Live
    <2>2. CASE q = o /\ object[o].client
      BY <1>4, <1>6, <2>1, <2>2 DEF Starter
    <2>3. CASE q = o /\ ~object[o].client
      BY <1>1, <1>4, <1>6, <2>1, <2>3 DEF Starter
    <2>4. CASE q # o
      BY <1>4, <1>6, <2>1, <2>4 DEF Starter
    <2> QED
      BY <2>2, <2>3, <2>4
  <1> QED
    BY <1>5, <1>6, StartersStay DEF StartersInv

LEMMA InitFailStarts ==
    ASSUME TypeInv, LifeInv, StartersInv, NEW p \in Procs, InitFail(p) PROVE StartersInv'
  <1>0. init[p].pc = "fail" /\ UNCHANGED <<object, info>>
    BY DEF InitFail
  <1> PICK o \in Procs : o = proc[p].object
    BY <1>0, InitOf
  <1>1. object[o].cmd = p /\ p # None /\ (First(p) \/ object[o].client)
    BY <1>0, Begun
  <1>2. InitFailStep(p, o)
    BY <1>1, InitFailEffect
  <1>3. /\ init'[p].pc = "done" /\ \A q \in Procs \ {p} : init'[q] = init[q]
        /\ \A u \in Users :
              user'[u] = IF First(p) /\ user[u].pc = "init" /\ user[u].object = o
                         THEN Idle ELSE user[u]
    BY <1>2 DEF InitFailStep
  <1>4. \A s \in Servers : Live(s)' \subseteq Live(s)
    BY <1>0, <1>3 DEF Live, Exists
  <1>5. ASSUME NEW s \in Servers, NEW q \in Live(s), q \in Live(s)', NEW u \in Users, Starter(u, q, s)
        PROVE  Starter(u, q, s)'
    <2>1. CASE object[q].client
      BY <1>0, <1>3, <1>5, <2>1, IdleType DEF Starter
    <2>2. CASE ~object[q].client
      <3>1. ~(First(p) /\ q = o)
        BY <1>0, <1>3, <1>5, <2>2 DEF Live, First
      <3> QED
        BY <1>0, <1>3, <1>5, <2>2, <3>1 DEF Starter
    <2> QED
      BY <2>1, <2>2
  <1> QED
    BY <1>4, <1>5, StartersStay DEF StartersInv

LEMMA InitStarters == Init => StartersInv
  <1> SUFFICES ASSUME Init, NEW s \in Servers PROVE StartersOf(s)
    BY DEF StartersInv
  <1> PICK f : f = [o \in {} |-> 1]
    OBVIOUS
  <1>1. Live(s) = {}
    BY DEF Init, Live, Exists
  <1>2. f \in Injection({}, Users)
    BY DEF Injection, IsInjective
  <1> QED
    BY <1>1, <1>2 DEF StartersOf, StartedBy

LEMMA NextStarters == TypeInv /\ LifeInv /\ StartersInv /\ [Next]_vars => StartersInv'
  <1> SUFFICES ASSUME TypeInv, LifeInv, StartersInv, [Next]_vars PROVE StartersInv'
    OBVIOUS
  <1>1. CASE UNCHANGED vars
    BY <1>1, ObjectsStart DEF vars, Exists
  <1>2. ASSUME NEW u \in Users, Request(u) \/ ChangeFolders(u) \/ UserStep(u) PROVE StartersInv'
    BY <1>2, RequestStarts, ChangeFoldersStarts, ExecStarts, ExecFailsStarts, SendStarts
    DEF UserStep
  <1>3. ASSUME NEW p \in Procs, Exit(p) \/ Restarter(p) PROVE StartersInv'
    BY <1>3, ExitStarts, WaitReturnsStarts, RestartStarts, RestartFailsStarts DEF Restarter
  <1>4. ASSUME NEW p \in Procs, InitStep(p) PROVE StartersInv'
    BY <1>4, InitConnStarts, InitStepStarts, InitStoreStarts, InitFailStarts DEF InitStep
  <1> QED
    BY <1>1, <1>2, <1>3, <1>4 DEF Next

\* An object has one process that is up, and is one of the live.
LEMMA OneUpEach ==
    ASSUME TypeInv, LifeInv, NEW s \in Servers,
           NEW p \in Started, proc[p].up, object[proc[p].object].server = s
    PROVE  proc[p].object \in Live(s) /\ object[proc[p].object].cmd = p
  <1> PICK o \in Procs : o = proc[p].object
    BY Values DEF TypeInv
  <1>1. Exists(o) /\ p \in Mine(o) /\ p \in Procs
    BY Values DEF TypeInv, RefInv, InitRefs, Mine
  <1>2. OneUp(p) /\ NoClient(o)
    BY <1>1 DEF LifeInv, ProcLife, ObjLife
  <1> QED
    BY <1>1, <1>2 DEF OneUp, NoClient, Live

LEMMA StartersBound ==
    ASSUME TypeInv, LifeInv, StartersInv, IsFiniteSet(Users) PROVE NoMoreThanItsStarters
  <1> SUFFICES ASSUME NEW s \in Servers
               PROVE  Cardinality({p \in Started : proc[p].up /\ object[proc[p].object].server = s})
                          <= Cardinality(Users)
    BY DEF NoMoreThanItsStarters
  <1> DEFINE P == {p \in Started : proc[p].up /\ object[proc[p].object].server = s}
  <1> PICK f \in Injection(Live(s), Users) : StartedBy(f, s)
    BY DEF StartersInv, StartersOf
  <1>1. f \in [Live(s) -> Users] /\ \A o, q \in Live(s) : f[o] = f[q] => o = q
    BY DEF Injection, IsInjective
  <1>2. \A p \in P : proc[p].object \in Live(s) /\ object[proc[p].object].cmd = p
    BY OneUpEach
  <1>3. [p \in P |-> f[proc[p].object]] \in Injection(P, Users)
    <2> DEFINE g == [p \in P |-> f[proc[p].object]]
    <2>1. g \in [P -> Users]
      BY <1>1, <1>2
    <2>2. ASSUME NEW p \in P, NEW q \in P, g[p] = g[q] PROVE p = q
      <3>1. f[proc[p].object] = f[proc[q].object]
        BY <2>2
      <3>2. proc[p].object = proc[q].object
        BY <1>1, <1>2, <3>1
      <3> QED
        BY <1>2, <3>2
    <2> QED
      BY <2>1, <2>2 DEF Injection, IsInjective
  <1> QED
    BY <1>3, FS_Injection

\* No server ever has more processes than there are users to start them at
\* once, as long as no process exits before it is initialised: ServerInfo.start
\* looks before it starts, and a Server object replaces its process only when
\* that one has ended.
THEOREM NoServerTooMany ==
    ASSUME IsFiniteSet(Users) PROVE Spec => []NoMoreThanItsStarters
  <1> DEFINE Inv == early \/ (LifeInv /\ StartersInv)
  <1>1. TypeInv /\ Inv => NoMoreThanItsStarters
    BY StartersBound DEF NoMoreThanItsStarters
  <1>2. Init => Inv
    BY InitLife, InitStarters
  <1>3. TypeInv /\ Inv /\ [Next]_vars => Inv'
    BY NextLife, EarlyStays, NextStarters
  <1> QED
    BY <1>1, <1>2, <1>3, TypeInvariant, PTL DEF Spec

=============================================================================
