-------------------------- MODULE HighlightProofs --------------------------
(* Theorems about Highlight, for any number of goroutines, attempts, edits, *)
(* Puts and restarts: what is cached is what its id says, and once nothing  *)
(* is under way the window shows the tokens of its text.                    *)
EXTENDS Highlight, TLAPS, SequenceTheorems

-----------------------------------------------------------------------------
(* The inductive invariant: the answers.                                   *)

\* A text is one of the numbers up to the last edit, and no array is about a
\* text that has not been written yet.
Past == 0..body
PastInv ==
    /\ body = used.texts
    /\ watch.last \in Past \cup {None} /\ notices \subseteq Past
    /\ server.text \in Past /\ server.last.data \in Past \cup {None}
    /\ layer.tokens \in Past \cup {None, Junk} /\ layer.body \in Past \cup {None}
    /\ \A a \in Appliers : applier[a].body \in Past /\ applier[a].result.data \in Past \cup {None, Junk}
    /\ \A k \in DOMAIN toClient : toClient[k].result.data \in Past \cup {None}

\* An answer is for the applier that waits for it, which waits for one.
IsAnswer(k) == toClient[k].kind \in {"tokens", "error"}
AnswersInv ==
    /\ \A k \in DOMAIN toClient : IsAnswer(k) =>
          toClient[k].who \in Appliers /\ applier[toClient[k].who].pc \in {"delta", "full"}
    /\ \A j, k \in DOMAIN toClient :
          IsAnswer(j) /\ IsAnswer(k) /\ toClient[j].who = toClient[k].who => j = k

\* The server has the document only while the client has it open.
OpenInv ==
    /\ server.open => open /\ resync \in {"idle", "style"}
    /\ open => server.open \/ resync \in {"reset", "open"}

\* A result that this server gave, if its id says so; its last result is last.
Given(r, last) == r.data # Junk /\ r.id <= last.id /\ (r.id = last.id => r = last)

GivenInv ==
    /\ server.last.id = 0 => server.last = NoResult
    /\ \A k \in DOMAIN toClient : Given(toClient[k].result, server.last)

\* Unless a request was under way at a reset, what is cached and what is about
\* to be cached was given by the server that is asked next, and a delta is
\* about the array that the applier has.
Cached == cache.data # Junk /\ (resync # "reset" /\ open => Given(cache, server.last))
Stored(a) ==
    applier[a].pc = "store" =>
        applier[a].result.data # Junk /\ (resync # "reset" => Given(applier[a].result, server.last))
Based(k) == IsAnswer(k) => toClient[k].base \in {None, applier[toClient[k].who].prev.data}
Uncrossed == Cached /\ (\A a \in Appliers : Stored(a)) /\ \A k \in DOMAIN toClient : Based(k)
UncrossedInv == "crossed" \notin excuses => Uncrossed

CacheInv == PastInv /\ AnswersInv /\ OpenInv /\ GivenInv /\ UncrossedInv

-----------------------------------------------------------------------------
(* The inductive invariant: what is shown.                                 *)

Nothing == [tokens |-> None, body |-> None]
IsRefresh(k) == toClient[k].kind = "refresh"

\* What the layer should be, and an applier that is going to make it that.
Shown == layer = IF server.ready THEN [tokens |-> body, body |-> body] ELSE Nothing
Tokened(a, k) == toClient[k].kind = "tokens" /\ toClient[k].who = a
Good(a) ==
    LET p == applier[a]
    IN  \/ p.pc = "read"
        \/ p.pc \in {"ask", "askFull"} /\ (server.ready => p.body = body)
        \/ p.pc \in {"store", "apply"} /\ p.body = body /\ p.result.data = body
        \/ \E k \in DOMAIN toClient : Tokened(a, k) /\
              (server.ready => p.body = body /\ toClient[k].result.data = body)

\* Something else that is under way ends in a new applier.
Due ==
    \/ watch.last # body \/ watch.due \/ starts > 0
    \/ loop # "idle" \/ resync # "idle"
    \/ \E k \in DOMAIN toClient : IsRefresh(k)

\* The server has the text, or is about to be told and asked again.
SyncInv ==
    /\ open /\ notices # {} => watch.due
    /\ server.open /\ server.text # body => watch.last # body \/ body \in notices

\* Nothing comes from a server that has not indexed; whoever was told so is
\* told of the index later.
IndexInv ==
    /\ \A k \in DOMAIN toClient : toClient[k].kind = "tokens" /\ toClient[k].result.data = None /\ server.ready =>
          \E j \in DOMAIN toClient : k < j /\ IsRefresh(j)
    /\ ~server.ready => \A k \in DOMAIN toClient : toClient[k].result.data = None
    /\ ~server.ready /\ resync # "reset" => \A a \in Appliers : applier[a].pc \notin {"store", "apply"}

ClosedInv == ~open => layer = Nothing
OpenShowsInv == open => Shown \/ Due \/ \E a \in Appliers : Good(a)
ShownInv == excuses = {} => ClosedInv /\ SyncInv /\ IndexInv /\ OpenShowsInv

-----------------------------------------------------------------------------
(* Types.                                                                  *)

Procs == [pc : Steps, body : Texts, prev : Results, result : Results, try : 0..Attempts]

LEMMA Consts == 0 \in Texts /\ 0 \in 0..Attempts /\ NoResult \in Results /\ Idle \in Procs
  BY HighlightAssumption DEF Texts, NoResult, Results, Idle, Procs, Steps

LEMMA Bounds == {Attempts, MaxTexts, MaxPuts, MaxRestarts} \subseteq Nat
  BY HighlightAssumption

LEMMA PastTexts == TypeOK => Past \subseteq Texts /\ body \in Past /\ 0 \in Past /\ body \in Nat
  BY Bounds DEF TypeOK, Texts, Past

LEMMA MessageTypes ==
    ASSUME TypeOK, PastInv, NEW a \in Appliers, NEW id \in Nat
    PROVE  /\ Failed(a) \in Messages /\ Answer(a, id) \in Messages
           /\ Signal("formatted") \in Messages /\ Signal("refresh") \in Messages
           /\ Result \in Results
  <1>1. server.last.id \in Nat /\ server.text \in Texts /\ server.last.data \in Texts \cup {None}
    BY PastTexts DEF TypeOK, PastInv, Results
  <1>2. Result \in Results
    BY <1>1 DEF Result, Results
  <1>3. Failed(a) \in Messages /\ Signal("formatted") \in Messages /\ Signal("refresh") \in Messages
    BY Consts DEF Failed, Signal, Message, Messages
  <1>4. \A r \in Results, b \in Texts \cup {None} : Message("tokens", a, r, b) \in Messages
    BY DEF Message, Messages
  <1>5. Answer(a, id) \in Messages
    BY <1>1, <1>2, <1>3, <1>4, Consts DEF Answer
  <1> QED
    BY <1>2, <1>3, <1>5

LEMMA ProcTypes ==
    ASSUME NEW p \in Procs, NEW m \in Messages
    PROVE  Again(p) \in Procs /\ Receives(p, m) \in Procs
  <1>1. Again(p) \in Procs
    <2>1. p.try # Attempts => p.try + 1 \in 0..Attempts
      BY Bounds DEF Procs
    <2>2. \A t \in 0..Attempts : [[Idle EXCEPT !.pc = "read"] EXCEPT !.try = t] \in Procs
      BY Consts DEF Idle, Procs, Steps
    <2> QED
      BY <2>1, <2>2, Consts DEF Again
  <1>2. Tokens(p, m) \in Results
    BY DEF Tokens, Messages, Results
  <1>3. [p EXCEPT !.pc = "store", !.prev = NoResult, !.result = Tokens(p, m)] \in Procs
    BY <1>2, Consts DEF Procs, Steps
  <1>4. [p EXCEPT !.pc = "askFull", !.prev = NoResult] \in Procs
    BY Consts DEF Procs, Steps
  <1> QED
    BY <1>1, <1>3, <1>4 DEF Receives

\* A message is added at the end, or taken from the beginning.
LEMMA Sent ==
    ASSUME TypeOK, NEW m \in Messages, toClient' = Append(toClient, m)
    PROVE  LET n == Len(toClient) + 1
           IN  /\ toClient' \in Seq(Messages)
               /\ \A k \in DOMAIN toClient : k \in DOMAIN toClient' /\ toClient'[k] = toClient[k] /\ k < n
               /\ n \in DOMAIN toClient' /\ toClient'[n] = m
               /\ \A k \in DOMAIN toClient' : k \in Nat /\ (k = n \/ k \in DOMAIN toClient)
  <1>1. toClient \in Seq(Messages)
    BY DEF TypeOK
  <1> QED
    BY <1>1, AppendProperties

LEMMA Taken ==
    ASSUME TypeOK, toClient # <<>>, toClient' = Tail(toClient)
    PROVE  /\ toClient' \in Seq(Messages)
           /\ 1 \in DOMAIN toClient /\ Head(toClient) = toClient[1] /\ toClient[1] \in Messages
           /\ \A k \in DOMAIN toClient' :
                 k \in Nat /\ k + 1 \in DOMAIN toClient /\ toClient'[k] = toClient[k + 1] /\ k + 1 # 1
           /\ \A k \in DOMAIN toClient :
                 k = 1 \/ (k \in Nat /\ 1 < k /\ k - 1 \in DOMAIN toClient' /\ toClient'[k - 1] = toClient[k])
  <1>1. toClient \in Seq(Messages)
    BY DEF TypeOK
  <1> QED
    BY <1>1, HeadTailProperties, EmptySeq

LEMMA InitTypeOK == Init => TypeOK
  <1> SUFFICES ASSUME Init PROVE TypeOK
    OBVIOUS
  <1>1. <<>> \in Seq(Messages)
    BY EmptySeq
  <1> QED
    BY <1>1, Consts, HighlightAssumption DEF Init, TypeOK, Results, NoResult, Procs, Texts, None, Signal

LEMMA WindowTypeOK ==
    ASSUME TypeOK, PastInv, Type \/ Poll \/ (\E t \in Texts : Notify(t)) \/ Debounce \/ Close \/ Save
    PROVE  TypeOK'
  <1> USE DEF TypeOK
  <1>1. CASE Type
    <2>1. used'.texts \in 0..MaxTexts /\ body + 1 \in 0..MaxTexts
      BY <1>1, Bounds DEF Type, PastInv
    <2> QED
      BY <1>1, <2>1 DEF Type, Texts
  <1>2. CASE Poll
    <2>1. watch' \in [last : Texts \cup {None}, due : BOOLEAN] /\ notices' \in SUBSET Texts
      BY <1>2 DEF Poll
    <2> QED
      BY <1>2, <2>1 DEF Poll
  <1>3. ASSUME NEW t \in Texts, Notify(t) PROVE TypeOK'
    <2>1. server' \in [open : BOOLEAN, text : Texts, last : Results, ready : BOOLEAN] /\ toClient' = toClient
      BY <1>3 DEF Notify, SendChange
    <2>2. excuses' \in SUBSET {"late", "overtaken", "crossed"}
      BY <1>3 DEF Notify
    <2> QED
      BY <1>3, <2>1, <2>2 DEF Notify
  <1>4. CASE Close
    <2>1. server' \in [open : BOOLEAN, text : Texts, last : Results, ready : BOOLEAN]
      BY <1>4 DEF Close
    <2>2. watch' \in [last : Texts \cup {None}, due : BOOLEAN]
      BY <1>4 DEF Close
    <2>3. layer' \in [tokens : Texts \cup {None, Junk}, body : Texts \cup {None}]
      BY <1>4 DEF Close
    <2> QED
      BY <1>4, <2>1, <2>2, <2>3 DEF Close
  <1>5. CASE Save
    <2>1. used' \in [texts : 0..MaxTexts, puts : 0..MaxPuts, restarts : 0..MaxRestarts]
      BY <1>5, Bounds DEF Save
    <2>2. server' \in [open : BOOLEAN, text : Texts, last : Results, ready : BOOLEAN] /\ toClient' = toClient
      BY <1>5 DEF Save, SendChange
    <2> QED
      BY <1>5, <2>1, <2>2 DEF Save
  <1>6. CASE Debounce
    <2>1. watch' \in [last : Texts \cup {None}, due : BOOLEAN]
      BY <1>6 DEF Debounce
    <2>2. starts' \in Nat /\ excuses' \in SUBSET {"late", "overtaken", "crossed"}
      BY <1>6 DEF Debounce, StartApplier
    <2> QED
      BY <1>6, <2>1, <2>2 DEF Debounce
  <1> QED
    BY <1>1, <1>2, <1>3, <1>4, <1>5, <1>6

LEMMA ApplierTypeOK ==
    ASSUME TypeOK, PastInv, NEW a \in Appliers,
           Begin(a) \/ Read(a) \/ Ask(a) \/ AskFull(a) \/ Store(a) \/ Apply(a)
    PROVE  TypeOK'
  <1> USE DEF TypeOK
  <1>0. applier \in [Appliers -> Procs] /\ applier[a] \in Procs
    BY DEF Procs
  <1>1. CASE Begin(a)
    <2>1. [Idle EXCEPT !.pc = "read"] \in Procs
      BY Consts DEF Procs, Steps
    <2>2. applier' \in [Appliers -> Procs]
      BY <1>0, <1>1, <2>1 DEF Begin
    <2> QED
      BY <1>1, <2>2 DEF Begin, Procs
  <1>2. CASE Read(a)
    <2>1. [applier[a] EXCEPT !.pc = "ask", !.body = body] \in Procs
      BY <1>0 DEF Procs, Steps
    <2>2. Again(applier[a]) \in Procs
      BY <1>0, ProcTypes, MessageTypes
    <2>3. applier' \in [Appliers -> Procs]
      BY <1>0, <1>2, <2>1, <2>2 DEF Read
    <2> QED
      BY <1>2, <2>3 DEF Read, Procs
  <1>3. ASSUME NEW id \in Nat, Request(a, id)
        PROVE  /\ toClient' \in Seq(Messages)
               /\ server' \in [open : BOOLEAN, text : Texts, last : Results, ready : BOOLEAN]
    <2>1. Answer(a, id) \in Messages /\ Result \in Results
      BY MessageTypes
    <2>2. toClient' \in Seq(Messages)
      BY <1>3, <2>1, Sent DEF Request
    <2> QED
      BY <1>3, <2>1, <2>2 DEF Request
  <1>4. CASE Ask(a)
    <2>1. \A pc \in {"delta", "full"} : [[applier[a] EXCEPT !.pc = pc] EXCEPT !.prev = cache] \in Procs
      BY <1>0 DEF Procs, Steps
    <2>2. applier' \in [Appliers -> Procs]
      BY <1>0, <1>4, <2>1 DEF Ask
    <2>3. cache.id \in Nat
      BY DEF Results
    <2> QED
      BY <1>3, <1>4, <2>2, <2>3 DEF Ask, Procs
  <1>5. CASE AskFull(a)
    <2>1. [applier[a] EXCEPT !.pc = "full"] \in Procs
      BY <1>0 DEF Procs, Steps
    <2>2. applier' \in [Appliers -> Procs]
      BY <1>0, <1>5, <2>1 DEF AskFull
    <2> QED
      BY <1>3, <1>5, <2>2 DEF AskFull, Procs
  <1>6. CASE Store(a)
    <2>1. [applier[a] EXCEPT !.pc = "apply"] \in Procs
      BY <1>0 DEF Procs, Steps
    <2>2. applier' \in [Appliers -> Procs] /\ cache' \in Results
      BY <1>0, <1>6, <2>1 DEF Store, Procs
    <2> QED
      BY <1>6, <2>2 DEF Store, Procs
  <1>7. CASE Apply(a)
    <2>1. applier' \in [Appliers -> Procs]
      BY <1>0, <1>7, Consts DEF Apply
    <2>2. layer' \in [tokens : Texts \cup {None, Junk}, body : Texts \cup {None}]
      BY <1>0, <1>7 DEF Apply, Procs, Results
    <2>3. excuses' \in SUBSET {"late", "overtaken", "crossed"}
      BY <1>7 DEF Apply
    <2> QED
      BY <1>7, <2>1, <2>2, <2>3 DEF Apply, Procs
  <1> QED
    BY <1>1, <1>2, <1>4, <1>5, <1>6, <1>7

LEMMA ReadLoopTypeOK ==
    ASSUME TypeOK, PastInv, ReadLoop \/ Format \/ Style
    PROVE  TypeOK'
  <1> USE DEF TypeOK
  <1>0. applier \in [Appliers -> Procs]
    BY DEF Procs
  <1>1. CASE Answered
    <2>1. toClient' \in Seq(Messages) /\ Head(toClient) \in Messages
      BY <1>1, Taken DEF Answered
    <2>2. \A a \in Appliers : Receives(applier[a], Head(toClient)) \in Procs
      BY <1>0, <2>1, ProcTypes
    <2>3. applier' \in [Appliers -> Procs]
      BY <1>0, <1>1, <2>2 DEF Answered
    <2>4. layer' \in [tokens : Texts \cup {None, Junk}, body : Texts \cup {None}]
      BY <1>1 DEF Answered
    <2> QED
      BY <1>1, <2>1, <2>3, <2>4 DEF Answered, Procs
  <1>2. CASE Formatted
    BY <1>2, Taken DEF Formatted
  <1>3. CASE RefreshSemanticTokens
    BY <1>3, Taken DEF RefreshSemanticTokens, StartApplier
  <1>4. CASE Format
    <2>1. Signal("formatted") \in Messages
      BY Consts DEF Signal, Message, Messages
    <2>2. toClient' \in Seq(Messages)
      BY <1>4, <2>1, Sent DEF Format
    <2> QED
      BY <1>4, <2>2 DEF Format
  <1>5. CASE Style
    BY <1>5 DEF Style, StartApplier
  <1> QED
    BY <1>1, <1>2, <1>3, <1>4, <1>5 DEF ReadLoop

LEMMA ServerTypeOK ==
    ASSUME TypeOK, PastInv, Index \/ Restart \/ Reset \/ Reopen \/ Restyle
    PROVE  TypeOK'
  <1> USE DEF TypeOK
  <1>0. applier \in [Appliers -> Procs]
    BY DEF Procs
  <1>1. CASE Index
    <2>1. Signal("refresh") \in Messages
      BY Consts DEF Signal, Message, Messages
    <2>2. toClient' \in Seq(Messages)
      BY <1>1, <2>1, Sent DEF Index
    <2> QED
      BY <1>1, <2>2 DEF Index
  <1>2. CASE Restart
    <2>1. \A a \in Appliers : Receives(applier[a], Failed(a)) \in Procs
      BY <1>0, ProcTypes, MessageTypes
    <2>2. applier' \in [Appliers -> Procs]
      BY <1>0, <1>2, <2>1 DEF Restart
    <2>3. used' \in [texts : 0..MaxTexts, puts : 0..MaxPuts, restarts : 0..MaxRestarts]
      BY <1>2, Bounds DEF Restart
    <2>4. toClient' \in Seq(Messages)
      BY <1>2, EmptySeq DEF Restart
    <2> QED
      BY <1>2, <2>2, <2>3, <2>4, Consts DEF Restart, Procs
  <1>3. CASE Reset
    <2>1. cache' \in Results
      BY <1>3, Consts DEF Reset
    <2>2. excuses' \in SUBSET {"late", "overtaken", "crossed"}
      BY <1>3 DEF Reset
    <2> QED
      BY <1>3, <2>1, <2>2 DEF Reset
  <1>4. CASE Reopen
    <2>1. server' \in [open : BOOLEAN, text : Texts, last : Results, ready : BOOLEAN]
      BY <1>4 DEF Reopen
    <2> QED
      BY <1>4, <2>1 DEF Reopen
  <1>5. CASE Restyle
    BY <1>5 DEF Restyle, StartApplier
  <1> QED
    BY <1>1, <1>2, <1>3, <1>4, <1>5

LEMMA NextTypeOK == TypeOK /\ PastInv /\ [Next]_vars => TypeOK'
  <1>1. ASSUME UNCHANGED vars, TypeOK PROVE TypeOK'
    BY <1>1 DEF vars, TypeOK
  <1> QED
    BY <1>1, WindowTypeOK, ApplierTypeOK, ReadLoopTypeOK, ServerTypeOK DEF Next, Applying

-----------------------------------------------------------------------------
(* The answers are the server's.                                           *)

\* What a request adds to the queue.
Reply(a, id, m) ==
    /\ m \in Messages /\ toClient' = Append(toClient, m)
    /\ m.kind \in {"tokens", "error"} /\ m.who = a
    /\ m.result = IF server.open /\ server.ready THEN Result ELSE NoResult
    /\ m.kind = "tokens" <=> server.open
    /\ m.base = IF server.open /\ server.ready /\ id # 0 /\ id = server.last.id THEN server.last.data ELSE None
    /\ server' = IF server.open /\ server.ready THEN [server EXCEPT !.last = Result] ELSE server

LEMMA Requests ==
    ASSUME TypeOK, PastInv, NEW a \in Appliers, NEW id \in Nat, Request(a, id)
    PROVE  Reply(a, id, Answer(a, id))
  <1>1. Answer(a, id) \in Messages
    BY MessageTypes
  <1> QED
    BY <1>1 DEF Reply, Request, Answer, Failed, Message

\* What an answer does to the applier that it is for.
Gets(p, m, q) ==
    /\ q.pc \in {"store", "askFull", "read", "idle"}
    /\ q.pc \in {"store", "askFull"} => q.body = p.body
    /\ q.pc = "store" <=> m.kind = "tokens" /\ m.result.data # None
    /\ q.pc = "store" => q.result = Tokens(p, m)
    /\ q.pc # "store" => q.result \in {p.result, NoResult}
    /\ q.pc # "store" /\ p.pc = "delta" => q.pc = "askFull"
    /\ q.body \in {p.body, 0}

LEMMA Receiving ==
    ASSUME NEW p \in Procs, NEW m \in Messages
    PROVE  Gets(p, m, Receives(p, m))
  <1>1. Receives(p, m) \in Procs /\ Again(p) \in Procs
    BY ProcTypes
  <1>2. CASE m.kind = "tokens" /\ m.result.data # None
    BY <1>2 DEF Gets, Receives, Procs
  <1>3. CASE ~(m.kind = "tokens" /\ m.result.data # None) /\ p.pc = "delta"
    BY <1>3 DEF Gets, Receives, Procs
  <1>4. CASE ~(m.kind = "tokens" /\ m.result.data # None) /\ p.pc # "delta"
    <2>1. Receives(p, m) = Again(p)
      BY <1>4 DEF Receives
    <2>2. Again(p).pc \in {"read", "idle"} /\ Again(p).body = 0 /\ Again(p).result = NoResult
      BY DEF Again, Idle
    <2> QED
      BY <1>4, <2>1, <2>2 DEF Gets
  <1> QED
    BY <1>2, <1>3, <1>4

\* What each step of an applier does to it, and that it leaves the others alone.
LEMMA Moves ==
    ASSUME TypeOK, NEW a \in Appliers
    PROVE  LET p == applier[a]
               q == applier'[a]
           IN  /\ Begin(a) => q.pc = "read" /\ q.body = 0 /\ q.result = NoResult
               /\ Read(a) => IF open THEN q.pc = "ask" /\ q.body = body /\ q.result = p.result ELSE q = Again(p)
               /\ Ask(a) => q.pc = (IF cache.id # 0 THEN "delta" ELSE "full") /\ q.prev = cache
                               /\ q.body = p.body /\ q.result = p.result
               /\ AskFull(a) => q.pc = "full" /\ q.prev = p.prev /\ q.body = p.body /\ q.result = p.result
               /\ Store(a) => q.pc = "apply" /\ q.body = p.body /\ q.result = p.result
               /\ Apply(a) => q = Idle
               /\ Begin(a) \/ Read(a) \/ Ask(a) \/ AskFull(a) \/ Store(a) \/ Apply(a) =>
                     \A b \in Appliers : b # a => applier'[b] = applier[b]
  <1>0. applier \in [Appliers -> Procs] /\ applier[a] \in Procs
    BY DEF TypeOK, Procs
  <1>1. CASE Begin(a)
    BY <1>0, <1>1 DEF Begin, Read, Ask, AskFull, Store, Apply, Idle
  <1>2. CASE Read(a)
    BY <1>0, <1>2 DEF Begin, Read, Ask, AskFull, Store, Apply, Procs
  <1>3. CASE Ask(a)
    BY <1>0, <1>3 DEF Begin, Read, Ask, AskFull, Store, Apply, Procs
  <1>4. CASE AskFull(a)
    BY <1>0, <1>4 DEF Begin, Read, Ask, AskFull, Store, Apply, Procs
  <1>5. CASE Store(a)
    BY <1>0, <1>5 DEF Begin, Read, Ask, AskFull, Store, Apply, Procs
  <1>6. CASE Apply(a)
    BY <1>0, <1>6 DEF Begin, Read, Ask, AskFull, Store, Apply
  <1> QED
    BY <1>1, <1>2, <1>3, <1>4, <1>5, <1>6

LEMMA InitCache == Init => CacheInv
  <1> SUFFICES ASSUME Init PROVE CacheInv
    OBVIOUS
  <1>1. DOMAIN toClient = {}
    BY EmptySeq DEF Init
  <1>2. PastInv
    BY <1>1, Bounds DEF Init, PastInv, Past, NoResult, Idle, None
  <1>3. AnswersInv /\ OpenInv
    BY <1>1 DEF Init, AnswersInv, OpenInv
  <1>4. GivenInv /\ UncrossedInv
    BY <1>1 DEF Init, GivenInv, UncrossedInv, Uncrossed, Cached, Stored, Based, Given, NoResult, Idle, None, Junk
  <1> QED
    BY <1>2, <1>3, <1>4 DEF CacheInv

LEMMA NextPast == TypeOK /\ PastInv /\ [Next]_vars => PastInv'
  <1> SUFFICES ASSUME TypeOK, PastInv, [Next]_vars PROVE PastInv'
    OBVIOUS
  <1>0. /\ body \in Nat /\ body \in Past /\ 0 \in Past
        /\ applier \in [Appliers -> Procs]
    BY PastTexts DEF TypeOK, Procs
  <1>1. CASE Type
    <2>1. body' = body + 1 /\ used'.texts = used.texts + 1
      BY <1>1 DEF Type, TypeOK
    <2>2. Past \subseteq Past'
      BY <1>0, <2>1 DEF Past
    <2> QED
      BY <1>0, <1>1, <2>1, <2>2 DEF Type, PastInv
  <1>2. CASE Poll
    BY <1>0, <1>2 DEF Poll, PastInv, Past
  <1>3. ASSUME NEW t \in Texts, Notify(t) PROVE PastInv'
    <2>1. server'.text \in Past /\ server'.last = server.last /\ toClient' = toClient
      BY <1>3 DEF Notify, SendChange, PastInv, TypeOK
    <2> QED
      BY <1>3, <2>1 DEF Notify, PastInv, Past
  <1>4. CASE Debounce
    BY <1>4 DEF Debounce, PastInv, Past, TypeOK
  <1>5. CASE Close
    BY <1>5 DEF Close, PastInv, Past, TypeOK
  <1>6. CASE Save
    <2>1. server'.text \in Past /\ server'.last = server.last /\ toClient' = toClient
      BY <1>0, <1>6 DEF Save, SendChange, PastInv, TypeOK
    <2>2. used'.texts = used.texts
      BY <1>6 DEF Save, TypeOK
    <2> QED
      BY <1>6, <2>1, <2>2 DEF Save, PastInv, Past
  <1>7. ASSUME NEW m \in Messages, toClient' = Append(toClient, m), m.result.data \in Past \cup {None}
        PROVE  \A k \in DOMAIN toClient' : toClient'[k].result.data \in Past \cup {None}
    BY <1>7, Sent DEF PastInv
  <1>8. CASE Format
    <2>1. Signal("formatted") \in Messages /\ Signal("formatted").result.data = None
      BY Consts DEF Signal, Message, Messages, NoResult
    <2> QED
      BY <1>7, <1>8, <2>1 DEF Format, PastInv, Past
  <1>9. CASE Index
    <2>1. Signal("refresh") \in Messages /\ Signal("refresh").result.data = None
      BY Consts DEF Signal, Message, Messages, NoResult
    <2>2. server'.text = server.text /\ server'.last = server.last
      BY <1>9 DEF Index, TypeOK
    <2> QED
      BY <1>7, <1>9, <2>1, <2>2 DEF Index, PastInv, Past
  <1>10. CASE Style \/ Restyle
    BY <1>10 DEF Style, Restyle, PastInv, Past
  <1>11. ASSUME NEW a \in Appliers, Begin(a) \/ Read(a) \/ Store(a) PROVE PastInv'
    <2>1. /\ Again(applier[a]).body = 0 /\ Again(applier[a]).result = NoResult
      BY DEF Again, Idle
    <2>2. applier'[a].body \in {applier[a].body, body, 0} /\ applier'[a].result \in {applier[a].result, NoResult}
      BY <1>11, <2>1, Moves
    <2>3. \A b \in Appliers : b # a => applier'[b] = applier[b]
      BY <1>11, Moves
    <2> QED
      BY <1>0, <1>11, <2>2, <2>3 DEF Begin, Read, Store, PastInv, Past, NoResult
  <1>12. ASSUME NEW a \in Appliers, Ask(a) \/ AskFull(a) PROVE PastInv'
    <2>1. PICK id \in Nat : Reply(a, id, Answer(a, id))
      BY <1>12, Requests DEF Ask, AskFull, TypeOK, Results
    <2>2. /\ Answer(a, id).result.data \in Past \cup {None}
          /\ server'.text = server.text /\ server'.last.data \in Past \cup {None}
      BY <2>1 DEF Reply, PastInv, Result, NoResult, TypeOK
    <2>3. \A b \in Appliers : applier'[b].body = applier[b].body /\ applier'[b].result = applier[b].result
      BY <1>0, <1>12 DEF Ask, AskFull, Procs
    <2> QED
      BY <1>7, <1>12, <2>1, <2>2, <2>3 DEF Ask, AskFull, Reply, PastInv, Past
  <1>13. ASSUME NEW a \in Appliers, Apply(a) PROVE PastInv'
    <2>1. \A b \in Appliers : applier'[b] \in {applier[b], Idle}
      BY <1>0, <1>13 DEF Apply
    <2>2. layer'.tokens \in Past \cup {None, Junk} /\ layer'.body \in Past
      BY <1>13 DEF Apply, PastInv
    <2> QED
      BY <1>0, <1>13, <2>1, <2>2 DEF Apply, PastInv, Past, Idle, NoResult
  <1>14. CASE Answered
    <2>1. /\ Head(toClient) \in Messages
          /\ \A k \in DOMAIN toClient' : toClient'[k].result.data \in Past \cup {None}
          /\ Head(toClient).result.data \in Past \cup {None}
      BY <1>14, Taken DEF Answered, PastInv
    <2>2. \A b \in Appliers : \/ applier'[b] = applier[b]
                              \/ applier'[b] = Receives(applier[b], Head(toClient))
      BY <1>0, <1>14 DEF Answered
    <2>3. \A p \in Procs : Tokens(p, Head(toClient)).data \in Past \cup {None, Junk}
      BY <2>1 DEF Tokens, Messages, Results
    <2>4. \A b \in Appliers : /\ applier'[b].body \in {applier[b].body, 0}
                              /\ \/ applier'[b].result \in {applier[b].result, NoResult}
                                 \/ applier'[b].result = Tokens(applier[b], Head(toClient))
      BY <1>0, <2>1, <2>2, Receiving DEF Gets
    <2>5. \A b \in Appliers : applier'[b].body \in Past /\ applier'[b].result.data \in Past \cup {None, Junk}
      BY <1>0, <2>3, <2>4 DEF PastInv, NoResult
    <2>6. layer'.tokens \in Past \cup {None, Junk} /\ layer'.body \in Past \cup {None}
      BY <1>14 DEF Answered, PastInv
    <2> QED
      BY <1>14, <2>1, <2>5, <2>6 DEF Answered, PastInv, Past
  <1>15. CASE Formatted \/ RefreshSemanticTokens
    <2>1. \A k \in DOMAIN toClient' : toClient'[k].result.data \in Past \cup {None}
      BY <1>15, Taken DEF Formatted, RefreshSemanticTokens, PastInv
    <2> QED
      BY <1>15, <2>1 DEF Formatted, RefreshSemanticTokens, PastInv, Past
  <1>16. CASE Restart
    <2>1. DOMAIN toClient' = {}
      BY <1>16, EmptySeq DEF Restart
    <2>2. \A b \in Appliers : applier'[b].body \in {applier[b].body, 0}
      BY <1>0, <1>16, Receiving, MessageTypes DEF Restart, Gets
    <2>3. \A b \in Appliers : applier'[b].result \in {applier[b].result, NoResult}
      BY <1>0, <1>16, Receiving, MessageTypes DEF Restart, Gets, Failed, Message
    <2>4. used'.texts = used.texts
      BY <1>16 DEF Restart, TypeOK
    <2>5. server'.text = 0 /\ server'.last.data = None
      BY <1>16 DEF Restart, NoResult
    <2> QED
      BY <1>0, <1>16, <2>1, <2>2, <2>3, <2>4, <2>5 DEF Restart, PastInv, Past, NoResult
  <1>17. CASE Reset
    BY <1>17 DEF Reset, PastInv, Past
  <1>18. CASE Reopen
    <2>1. server'.text \in Past /\ server'.last = server.last
      BY <1>0, <1>18 DEF Reopen, PastInv, TypeOK
    <2> QED
      BY <1>18, <2>1 DEF Reopen, PastInv, Past
  <1>19. CASE UNCHANGED vars
    BY <1>19 DEF vars, PastInv, Past
  <1> QED
    BY <1>1, <1>2, <1>3, <1>4, <1>5, <1>6, <1>8, <1>9, <1>10, <1>11, <1>12, <1>13, <1>14, <1>15, <1>16,
       <1>17, <1>18, <1>19 DEF Next, Applying, ReadLoop

\* Most steps have nothing to do with the answers.
StillAnswers == UNCHANGED <<applier, toClient>>
LEMMA Stills ==
    ASSUME TypeOK,
           \/ Type \/ Poll \/ (\E t \in Texts : Notify(t)) \/ Debounce \/ Close \/ Save
           \/ Style \/ Reset \/ Reopen \/ Restyle \/ UNCHANGED vars
    PROVE  StillAnswers /\ server'.last = server.last
  <1>1. StillAnswers
    BY DEF Type, Poll, Notify, Debounce, Close, Save, SendChange, Style, Reset, Reopen, Restyle, vars, StillAnswers
  <1>2. server'.last = server.last
    BY DEF Type, Poll, Notify, Debounce, Close, Save, SendChange, Style, Reset, Reopen, Restyle, vars, TypeOK
  <1> QED
    BY <1>1, <1>2

\* A signal, and a message that is no answer, concern no applier.
LEMMA Signals ==
    /\ Signal("formatted") \in Messages /\ Signal("refresh") \in Messages
    /\ \A kind \in {"formatted", "refresh"} :
          Signal(kind).kind = kind /\ Signal(kind).result = NoResult /\ Signal(kind).base = None
  BY Consts DEF Signal, Message, Messages

\* Nothing in the queue is for an applier that does not wait.
LEMMA NotWaiting ==
    ASSUME AnswersInv, NEW a \in Appliers, applier[a].pc \notin {"delta", "full"}
    PROVE  \A k \in DOMAIN toClient : IsAnswer(k) => toClient[k].who # a
  BY DEF AnswersInv

LEMMA NextAnswers == TypeOK /\ PastInv /\ AnswersInv /\ [Next]_vars => AnswersInv'
  <1> SUFFICES ASSUME TypeOK, PastInv, AnswersInv, [Next]_vars PROVE AnswersInv'
    OBVIOUS
  <1>0. applier \in [Appliers -> Procs]
    BY DEF TypeOK, Procs
  <1>1. ASSUME StillAnswers PROVE AnswersInv'
    BY <1>1 DEF StillAnswers, AnswersInv, IsAnswer
  <1>2. ASSUME NEW m \in Messages, toClient' = Append(toClient, m),
               m.kind \notin {"tokens", "error"}, applier' = applier
        PROVE  AnswersInv'
    <2>1. \A k \in DOMAIN toClient' :
             IsAnswer(k)' => k \in DOMAIN toClient /\ IsAnswer(k) /\ toClient'[k] = toClient[k]
      BY <1>2, Sent DEF IsAnswer
    <2> QED
      BY <1>2, <2>1 DEF AnswersInv
  <1>3. CASE Format \/ Index
    BY <1>2, <1>3, Signals DEF Format, Index
  <1>4. ASSUME NEW a \in Appliers, Begin(a) \/ Read(a) \/ Store(a) \/ Apply(a) PROVE AnswersInv'
    <2>1. applier[a].pc \notin {"delta", "full"} /\ toClient' = toClient
      BY <1>4 DEF Begin, Read, Store, Apply
    <2>2. \A b \in Appliers : b # a => applier'[b] = applier[b]
      BY <1>4, Moves
    <2> QED
      BY <2>1, <2>2, NotWaiting DEF AnswersInv, IsAnswer
  <1>5. ASSUME NEW a \in Appliers, Ask(a) \/ AskFull(a) PROVE AnswersInv'
    <2>1. applier[a].pc \notin {"delta", "full"}
      BY <1>5 DEF Ask, AskFull
    <2>2. (\A b \in Appliers : b # a => applier'[b] = applier[b]) /\ applier'[a].pc \in {"delta", "full"}
      BY <1>5, Moves
    <2>3. PICK id \in Nat : Reply(a, id, Answer(a, id))
      BY <1>5, Requests DEF Ask, AskFull, TypeOK, Results
    <2>8. PICK n : n = Len(toClient) + 1
      OBVIOUS
    <2>4. \A k \in DOMAIN toClient' :
             \/ k = n /\ toClient'[k].who = a
             \/ k # n /\ k \in DOMAIN toClient /\ toClient'[k] = toClient[k]
      BY <2>8, <2>3, Sent DEF Reply
    <2>5. \A k \in DOMAIN toClient' : IsAnswer(k)' /\ k # n => IsAnswer(k) /\ toClient'[k].who # a
      BY <2>1, <2>4, NotWaiting DEF IsAnswer
    <2>6. \A k \in DOMAIN toClient' : IsAnswer(k)' =>
             toClient'[k].who \in Appliers /\ applier'[toClient'[k].who].pc \in {"delta", "full"}
      BY <2>2, <2>4, <2>5 DEF AnswersInv
    <2>7. \A j, k \in DOMAIN toClient' : IsAnswer(j)' /\ IsAnswer(k)' /\ toClient'[j].who = toClient'[k].who => j = k
      BY <2>4, <2>5 DEF AnswersInv
    <2> QED
      BY <2>6, <2>7 DEF AnswersInv
  <1>6. CASE Answered
    <2>1. PICK a : a = toClient[1].who /\ a = Head(toClient).who /\ IsAnswer(1) /\ 1 \in DOMAIN toClient
      BY <1>6, Taken DEF Answered, IsAnswer
    <2>2. \A b \in Appliers : b # a => applier'[b] = applier[b]
      BY <1>0, <1>6, <2>1 DEF Answered
    <2>3. \A k \in DOMAIN toClient' :
             k + 1 \in DOMAIN toClient /\ toClient'[k] = toClient[k + 1] /\ k + 1 # 1 /\ k \in Nat
      BY <1>6, Taken DEF Answered
    <2>4. \A k \in DOMAIN toClient' : IsAnswer(k)' => IsAnswer(k + 1) /\ toClient'[k].who # a
      BY <2>1, <2>3 DEF AnswersInv, IsAnswer
    <2>5. \A k \in DOMAIN toClient' : IsAnswer(k)' =>
             toClient'[k].who \in Appliers /\ applier'[toClient'[k].who].pc \in {"delta", "full"}
      BY <2>2, <2>3, <2>4 DEF AnswersInv
    <2>6. ASSUME NEW j \in DOMAIN toClient', NEW k \in DOMAIN toClient', IsAnswer(j)', IsAnswer(k)',
                 toClient'[j].who = toClient'[k].who
          PROVE  j = k
      <3>1. j + 1 = k + 1
        BY <2>3, <2>4, <2>6 DEF AnswersInv
      <3> QED
        BY <2>3, <3>1
    <2> QED
      BY <2>5, <2>6 DEF AnswersInv
  <1>7. CASE Formatted \/ RefreshSemanticTokens
    <2>1. \A k \in DOMAIN toClient' : k + 1 \in DOMAIN toClient /\ toClient'[k] = toClient[k + 1] /\ k \in Nat
      BY <1>7, Taken DEF Formatted, RefreshSemanticTokens
    <2>2. \A k \in DOMAIN toClient' : IsAnswer(k)' => IsAnswer(k + 1)
      BY <2>1 DEF IsAnswer
    <2>3. applier' = applier
      BY <1>7 DEF Formatted, RefreshSemanticTokens
    <2>4. ASSUME NEW j \in DOMAIN toClient', NEW k \in DOMAIN toClient', IsAnswer(j)', IsAnswer(k)',
                 toClient'[j].who = toClient'[k].who
          PROVE  j = k
      <3>1. j + 1 = k + 1
        BY <2>1, <2>2, <2>4 DEF AnswersInv
      <3> QED
        BY <2>1, <3>1
    <2> QED
      BY <2>1, <2>2, <2>3, <2>4 DEF AnswersInv
  <1>8. CASE Restart
    <2>1. DOMAIN toClient' = {}
      BY <1>8, EmptySeq DEF Restart
    <2> QED
      BY <2>1 DEF AnswersInv
  <1> QED
    BY <1>1, <1>3, <1>4, <1>5, <1>6, <1>7, <1>8, Stills DEF Next, Applying, ReadLoop

LEMMA NextOpen == TypeOK /\ PastInv /\ OpenInv /\ [Next]_vars => OpenInv'
  <1> SUFFICES ASSUME TypeOK, PastInv, OpenInv, [Next]_vars PROVE OpenInv'
    OBVIOUS
  <1>1. ASSUME NEW a \in Appliers, Ask(a) \/ AskFull(a) PROVE OpenInv'
    <2>1. server'.open = server.open
      BY <1>1 DEF Ask, AskFull, Request, TypeOK
    <2> QED
      BY <1>1, <2>1 DEF Ask, AskFull, OpenInv
  <1>2. ASSUME NEW t \in Texts, Notify(t) PROVE OpenInv'
    <2>1. server'.open = server.open
      BY <1>2 DEF Notify, SendChange, TypeOK
    <2> QED
      BY <1>2, <2>1 DEF Notify, OpenInv
  <1>3. CASE Save \/ Index
    <2>1. server'.open = server.open
      BY <1>3 DEF Save, Index, SendChange, TypeOK
    <2> QED
      BY <1>3, <2>1 DEF Save, Index, OpenInv
  <1>4. CASE Close
    <2>1. server'.open = FALSE
      BY <1>4 DEF Close, TypeOK
    <2> QED
      BY <1>4, <2>1 DEF Close, OpenInv
  <1>5. CASE Reopen
    <2>1. server'.open = (open \/ server.open)
      BY <1>5 DEF Reopen, TypeOK
    <2> QED
      BY <1>5, <2>1 DEF Reopen, OpenInv
  <1>6. CASE Restart
    BY <1>6 DEF Restart, OpenInv
  <1>7. CASE Reset
    BY <1>7 DEF Reset, OpenInv
  <1>8. CASE Restyle
    BY <1>8 DEF Restyle, OpenInv
  <1>9. ASSUME NEW a \in Appliers, Begin(a) \/ Read(a) \/ Store(a) \/ Apply(a) PROVE OpenInv'
    BY <1>9 DEF Begin, Read, Store, Apply, OpenInv
  <1>10. CASE Type \/ Poll \/ Debounce \/ Format \/ Style \/ ReadLoop \/ UNCHANGED vars
    BY <1>10 DEF ReadLoop, Type, Poll, Debounce, Format, Style, Answered, Formatted, RefreshSemanticTokens,
       vars, OpenInv
  <1> QED
    BY <1>1, <1>2, <1>3, <1>4, <1>5, <1>6, <1>7, <1>8, <1>9, <1>10 DEF Next, Applying

LEMMA NextGiven == TypeOK /\ PastInv /\ GivenInv /\ [Next]_vars => GivenInv'
  <1> SUFFICES ASSUME TypeOK, PastInv, GivenInv, [Next]_vars PROVE GivenInv'
    OBVIOUS
  <1>0. server.last \in Results /\ \A k \in DOMAIN toClient : toClient[k].result \in Results
    <2>1. \A k \in DOMAIN toClient : toClient[k] \in Messages
      BY LenProperties, ElementOfSeq DEF TypeOK
    <2> QED
      BY <2>1 DEF TypeOK, Messages
  <1>1. ASSUME server'.last = server.last,
               \A k \in DOMAIN toClient' : \/ \E j \in DOMAIN toClient : toClient'[k] = toClient[j]
                                           \/ toClient'[k].result = NoResult
        PROVE  GivenInv'
    <2>1. Given(NoResult, server.last)
      BY <1>0 DEF GivenInv, Given, NoResult, Results, None, Junk
    <2> QED
      BY <1>1, <2>1 DEF GivenInv, Given
  <1>2. CASE StillAnswers /\ server'.last = server.last
    BY <1>1, <1>2 DEF StillAnswers
  <1>3. CASE Format \/ Index
    <2>1. PICK kind \in {"formatted", "refresh"} : toClient' = Append(toClient, Signal(kind))
      BY <1>3 DEF Format, Index
    <2>2. \A k \in DOMAIN toClient' : \/ k \in DOMAIN toClient /\ toClient'[k] = toClient[k]
                                      \/ toClient'[k].result = NoResult
      BY <2>1, Signals, Sent
    <2>3. server'.last = server.last
      BY <1>3 DEF Format, Index, TypeOK
    <2> QED
      BY <1>1, <2>2, <2>3
  <1>4. ASSUME NEW a \in Appliers, Begin(a) \/ Read(a) \/ Store(a) \/ Apply(a) PROVE GivenInv'
    BY <1>1, <1>4 DEF Begin, Read, Store, Apply
  <1>5. ASSUME NEW a \in Appliers, Ask(a) \/ AskFull(a) PROVE GivenInv'
    <2>1. PICK id \in Nat : Reply(a, id, Answer(a, id))
      BY <1>5, Requests DEF Ask, AskFull, TypeOK, Results
    <2>2. PICK n : n = Len(toClient) + 1
      OBVIOUS
    <2>3. \A k \in DOMAIN toClient' :
             \/ k = n /\ toClient'[k].result = IF server.open /\ server.ready THEN Result ELSE NoResult
             \/ k \in DOMAIN toClient /\ toClient'[k] = toClient[k]
      BY <2>1, <2>2, Sent DEF Reply
    <2>4. CASE server.open /\ server.ready
      <3>1. server'.last = Result /\ Result.id = server.last.id + 1 /\ Result.data \in Past
        BY <2>1, <2>4 DEF Reply, Result, TypeOK, PastInv
      <3>2. Result.data # Junk /\ server.last.id \in Nat
        BY <1>0, <3>1 DEF TypeOK, Past, Junk, Results
      <3>3. \A k \in DOMAIN toClient : toClient[k].result.id \in Nat /\ Given(toClient[k].result, server.last)
        BY <1>0 DEF GivenInv, Results
      <3>4. ASSUME NEW k \in DOMAIN toClient' PROVE Given(toClient'[k].result, server'.last)
        <4>1. CASE toClient'[k].result = Result
          BY <3>1, <3>2, <4>1 DEF Given
        <4>2. CASE k \in DOMAIN toClient /\ toClient'[k] = toClient[k]
          <5>1. toClient[k].result.id < Result.id
            BY <3>1, <3>2, <3>3, <4>2 DEF Given
          <5> QED
            BY <3>1, <3>2, <3>3, <4>2, <5>1 DEF Given
        <4> QED
          BY <2>3, <2>4, <4>1, <4>2
      <3> QED
        BY <3>1, <3>2, <3>4 DEF GivenInv
    <2>5. CASE ~(server.open /\ server.ready)
      BY <1>1, <2>1, <2>3, <2>5 DEF Reply
    <2> QED
      BY <2>4, <2>5
  <1>6. CASE ReadLoop
    <2>1. \A k \in DOMAIN toClient' : k + 1 \in DOMAIN toClient /\ toClient'[k] = toClient[k + 1]
      BY <1>6, Taken DEF ReadLoop, Answered, Formatted, RefreshSemanticTokens
    <2>2. server' = server
      BY <1>6 DEF ReadLoop, Answered, Formatted, RefreshSemanticTokens
    <2> QED
      BY <1>1, <2>1, <2>2
  <1>7. CASE Restart
    <2>1. DOMAIN toClient' = {} /\ server'.last = NoResult
      BY <1>7, EmptySeq DEF Restart
    <2> QED
      BY <2>1 DEF GivenInv
  <1> QED
    BY <1>2, <1>3, <1>4, <1>5, <1>6, <1>7, Stills DEF Next, Applying

\* An excuse is for ever.
LEMMA Excused == TypeOK /\ [Next]_vars => excuses \subseteq excuses'
  BY DEF Next, Applying, ReadLoop, Type, Poll, Notify, Debounce, Close, Save, Format, Style, Begin, Read, Ask,
     AskFull, Store, Apply, Answered, Formatted, RefreshSemanticTokens, Index, Restart, Reset, Reopen, Restyle, vars

\* A result stays given while nothing is asked, and when something is.
LEMMA StaysGiven ==
    ASSUME TypeOK, NEW r \in Results, Given(r, server.last),
           server'.last = server.last \/ (server'.last = Result /\ Result \in Results)
    PROVE  Given(r, server'.last)
  <1>1. server.last.id \in Nat /\ r.id \in Nat /\ Result.id = server.last.id + 1
    BY DEF TypeOK, Results, Result
  <1> QED
    BY <1>1 DEF Given

LEMMA RequestUncrossed ==
    ASSUME TypeOK, PastInv, AnswersInv, OpenInv, Uncrossed, NEW a \in Appliers, Ask(a) \/ AskFull(a)
    PROVE  Uncrossed'
  <1>0. /\ applier \in [Appliers -> Procs] /\ cache \in Results
        /\ \A b \in Appliers : applier[b].result \in Results
        /\ Result \in Results
    BY MessageTypes DEF TypeOK, Procs
  <1>1. PICK id \in Nat : Reply(a, id, Answer(a, id)) /\ (id = 0 \/ (Ask(a) /\ id = cache.id))
    BY Requests DEF Ask, AskFull, TypeOK, Results
  <1>2. server'.last = server.last \/ server'.last = Result
    BY <1>1 DEF Reply, TypeOK
  <1>3. UNCHANGED <<cache, resync, open>> /\ applier[a].pc \notin {"store", "delta", "full"}
    BY DEF Ask, AskFull
  <1>4. /\ \A b \in Appliers : b # a => applier'[b] = applier[b]
        /\ applier'[a].pc \in {"delta", "full"} /\ (Ask(a) => applier'[a].prev = cache)
    BY Moves
  <1>5. Cached'
    BY <1>0, <1>2, <1>3, StaysGiven DEF Cached, Uncrossed
  <1>6. \A b \in Appliers : Stored(b)'
    BY <1>0, <1>2, <1>3, <1>4, StaysGiven DEF Stored, Uncrossed
  <1>7. PICK n : n = Len(toClient) + 1
    OBVIOUS
  <1>8. \A k \in DOMAIN toClient' : \/ k = n /\ toClient'[k] = Answer(a, id)
                                    \/ k \in DOMAIN toClient /\ toClient'[k] = toClient[k]
    BY <1>1, <1>7, Sent DEF Reply
  <1>9. Answer(a, id).who = a /\ Answer(a, id).base \in {None, applier'[a].prev.data}
    <2>1. CASE server.open /\ server.ready /\ id # 0 /\ id = server.last.id
      <3>1. Given(cache, server.last) /\ cache.id = server.last.id /\ Ask(a)
        BY <1>1, <2>1 DEF OpenInv, Uncrossed, Cached
      <3>2. cache = server.last /\ applier'[a].prev = cache
        BY <1>4, <3>1 DEF Given
      <3> QED
        BY <1>1, <2>1, <3>2 DEF Reply
    <2> QED
      BY <1>1, <2>1 DEF Reply
  <1>10. ASSUME NEW k \in DOMAIN toClient' PROVE Based(k)'
    <2>1. CASE k \in DOMAIN toClient /\ toClient'[k] = toClient[k]
      <3>1. IsAnswer(k)' => IsAnswer(k) /\ toClient[k].who # a /\ toClient[k].who \in Appliers
        BY <1>3, <2>1, NotWaiting DEF IsAnswer, AnswersInv
      <3>2. Based(k)
        BY <2>1 DEF Uncrossed
      <3> QED
        BY <1>4, <2>1, <3>1, <3>2 DEF Based
    <2>2. CASE toClient'[k] = Answer(a, id)
      BY <1>9, <2>2 DEF Based
    <2> QED
      BY <1>8, <2>1, <2>2
  <1> QED
    BY <1>5, <1>6, <1>10 DEF Uncrossed

LEMMA AnsweredUncrossed ==
    ASSUME TypeOK, AnswersInv, AnswersInv', GivenInv, Uncrossed, Answered
    PROVE  Uncrossed'
  <1>0. applier \in [Appliers -> Procs]
    BY DEF TypeOK, Procs
  <1>1. UNCHANGED <<cache, resync, open, server>>
    BY DEF Answered
  <1>2. PICK m \in Messages : /\ m = toClient[1] /\ IsAnswer(1) /\ 1 \in DOMAIN toClient
                              /\ applier' = [applier EXCEPT ![m.who] = Receives(@, m)]
    BY Taken DEF Answered, IsAnswer
  <1>3. m.who \in Appliers
    BY <1>2 DEF AnswersInv
  <1>4. applier'[m.who] = Receives(applier[m.who], m) /\ \A b \in Appliers : b # m.who => applier'[b] = applier[b]
    BY <1>0, <1>2, <1>3
  <1>5. Gets(applier[m.who], m, applier'[m.who])
    BY <1>0, <1>3, <1>4, Receiving
  <1>6. Cached'
    BY <1>1 DEF Uncrossed, Cached
  <1>7. ASSUME applier'[m.who].pc = "store" PROVE applier'[m.who].result = m.result
    <2>1. m.base \in {None, applier[m.who].prev.data}
      BY <1>2 DEF Uncrossed, Based
    <2> QED
      BY <1>5, <1>7, <2>1 DEF Gets, Tokens
  <1>8. Given(m.result, server.last)
    BY <1>2 DEF GivenInv
  <1>9. ASSUME NEW b \in Appliers PROVE Stored(b)'
    <2>1. CASE b = m.who
      BY <1>1, <1>7, <1>8, <2>1 DEF Stored, Given
    <2>2. CASE b # m.who
      BY <1>1, <1>4, <2>2 DEF Stored, Uncrossed
    <2> QED
      BY <2>1, <2>2
  <1>10. ASSUME NEW k \in DOMAIN toClient' PROVE Based(k)'
    <2>1. k + 1 \in DOMAIN toClient /\ toClient'[k] = toClient[k + 1]
      BY Taken DEF Answered
    <2>2. IsAnswer(k)' => applier'[toClient'[k].who].pc \in {"delta", "full"} /\ toClient'[k].who \in Appliers
      BY DEF AnswersInv
    <2>3. applier'[m.who].pc \notin {"delta", "full"}
      BY <1>5 DEF Gets
    <2>4. IsAnswer(k)' => IsAnswer(k + 1) /\ toClient[k + 1].who # m.who
      BY <2>1, <2>2, <2>3 DEF IsAnswer
    <2>5. Based(k + 1)
      BY <2>1 DEF Uncrossed
    <2> QED
      BY <1>4, <2>1, <2>2, <2>4, <2>5 DEF Based
  <1> QED
    BY <1>6, <1>9, <1>10 DEF Uncrossed

LEMMA NextUncrossed == TypeOK /\ CacheInv /\ AnswersInv' /\ [Next]_vars => UncrossedInv'
  <1> SUFFICES ASSUME TypeOK, CacheInv, AnswersInv', [Next]_vars, "crossed" \notin excuses' PROVE Uncrossed'
    BY DEF UncrossedInv
  <1> USE DEF CacheInv
  <1>0. "crossed" \notin excuses /\ applier \in [Appliers -> Procs] /\ Uncrossed
    BY Excused DEF UncrossedInv, TypeOK, Procs
  <1>1. ASSUME StillAnswers, cache' = cache, open' => open, server'.last = server.last,
               resync = "reset" => resync' = "reset"
        PROVE  Uncrossed'
    BY <1>0, <1>1 DEF StillAnswers, Uncrossed, Stored, Based, Cached, IsAnswer
  <1>2. CASE Type \/ Poll \/ (\E t \in Texts : Notify(t)) \/ Debounce \/ Close \/ Save \/ Style \/ Reopen \/ Restyle
             \/ UNCHANGED vars
    <2>1. cache' = cache /\ (open' => open) /\ (resync = "reset" => resync' = "reset")
      BY <1>2 DEF Type, Poll, Notify, Debounce, Close, Save, Style, Reopen, Restyle, vars
    <2> QED
      BY <1>1, <1>2, <2>1, Stills
  <1>3. CASE Reset
    <2>1. \A a \in Appliers : applier[a].pc # "store"
      BY <1>3 DEF Reset, At
    <2>2. StillAnswers /\ server' = server /\ open' = open
      BY <1>3 DEF Reset, StillAnswers
    <2>3. Given(NoResult, server.last)
      BY DEF GivenInv, Given, NoResult, TypeOK, Results, None, Junk
    <2>4. cache' = IF open THEN NoResult ELSE cache
      BY <1>3 DEF Reset
    <2>5. Cached'
      BY <1>0, <2>2, <2>3, <2>4 DEF Cached, Given, Uncrossed
    <2> QED
      BY <1>0, <2>1, <2>2, <2>5 DEF StillAnswers, Uncrossed, Stored, Based, IsAnswer
  <1>4. CASE Format \/ Index
    <2>1. PICK kind \in {"formatted", "refresh"} : toClient' = Append(toClient, Signal(kind))
      BY <1>4 DEF Format, Index
    <2>2. \A k \in DOMAIN toClient' : \/ k \in DOMAIN toClient /\ toClient'[k] = toClient[k]
                                      \/ toClient'[k].kind \notin {"tokens", "error"}
      BY <2>1, Signals, Sent
    <2>3. server'.last = server.last /\ UNCHANGED <<cache, resync, open, applier>>
      BY <1>4 DEF Format, Index, TypeOK
    <2> QED
      BY <1>0, <2>2, <2>3 DEF Uncrossed, Stored, Based, Cached, IsAnswer
  <1>5. ASSUME NEW a \in Appliers, Begin(a) \/ Read(a) \/ Store(a) \/ Apply(a) PROVE Uncrossed'
    <2>1. applier[a].pc \notin {"delta", "full"} /\ UNCHANGED <<toClient, resync, open, server>>
      BY <1>5 DEF Begin, Read, Store, Apply
    <2>2. \A b \in Appliers : b # a => applier'[b] = applier[b]
      BY <1>5, Moves
    <2>3. applier'[a].pc # "store"
      <3>1. Again(applier[a]).pc # "store" /\ Idle.pc # "store"
        BY DEF Again, Idle
      <3> QED
        BY <1>5, <3>1, Moves
    <2>4. cache' = cache \/ (applier[a].pc = "store" /\ cache' = applier[a].result)
      BY <1>5 DEF Begin, Read, Store, Apply
    <2>5. Cached'
      BY <1>0, <2>1, <2>4 DEF Uncrossed, Cached, Stored
    <2>6. \A b \in Appliers : Stored(b)'
      BY <1>0, <2>1, <2>2, <2>3 DEF Uncrossed, Stored
    <2>7. \A k \in DOMAIN toClient' : Based(k)'
      BY <1>0, <2>1, <2>2, NotWaiting DEF Uncrossed, Based, IsAnswer, AnswersInv
    <2> QED
      BY <2>5, <2>6, <2>7 DEF Uncrossed
  <1>6. CASE Formatted \/ RefreshSemanticTokens
    <2>1. \A k \in DOMAIN toClient' : k + 1 \in DOMAIN toClient /\ toClient'[k] = toClient[k + 1]
      BY <1>6, Taken DEF Formatted, RefreshSemanticTokens
    <2>2. UNCHANGED <<cache, resync, open, applier, server>>
      BY <1>6 DEF Formatted, RefreshSemanticTokens
    <2>3. \A k \in DOMAIN toClient' : Based(k)'
      BY <1>0, <2>1, <2>2 DEF Uncrossed, Based, IsAnswer
    <2> QED
      BY <1>0, <2>2, <2>3 DEF Uncrossed, Stored, Cached
  <1>7. CASE Restart
    <2>1. DOMAIN toClient' = {} /\ resync' = "reset" /\ cache' = cache
      BY <1>7, EmptySeq DEF Restart
    <2>2. ASSUME NEW a \in Appliers, applier'[a].pc = "store" PROVE applier'[a] = applier[a]
      <3>1. Failed(a) \in Messages /\ Failed(a).kind # "tokens"
        BY MessageTypes DEF Failed, Message
      <3>2. Receives(applier[a], Failed(a)).pc # "store"
        BY <1>0, <3>1, Receiving DEF Gets
      <3> QED
        BY <1>7, <2>2, <3>2 DEF Restart
    <2> QED
      BY <1>0, <2>1, <2>2 DEF Uncrossed, Stored, Cached
  <1> QED
    BY <1>0, <1>2, <1>3, <1>4, <1>5, <1>6, <1>7, RequestUncrossed, AnsweredUncrossed DEF Next, Applying, ReadLoop

LEMMA NextCache == TypeOK /\ CacheInv /\ [Next]_vars => CacheInv'
  BY NextPast, NextAnswers, NextOpen, NextGiven, NextUncrossed DEF CacheInv

\* However the goroutines of applyStyles, a refresh, a Put, a close and a
\* restart meet: what the client holds under the server's last result id are
\* the tokens of that result, unless a request was under way at a reset.
THEOREM CachedTokensAreTheServers == Spec => []CacheIsTheServers
  <1>1. TypeOK /\ CacheInv => CacheIsTheServers
    BY DEF CacheInv, UncrossedInv, Uncrossed, Cached, Given, CacheIsTheServers
  <1>2. Init => TypeOK /\ CacheInv
    BY InitTypeOK, InitCache
  <1>3. TypeOK /\ CacheInv /\ [Next]_vars => TypeOK' /\ CacheInv'
    BY NextTypeOK, NextCache DEF CacheInv
  <1> QED
    BY <1>1, <1>2, <1>3, PTL DEF Spec

-----------------------------------------------------------------------------
(* What is shown.                                                          *)

LEMMA InitShown == Init => ShownInv
  <1> SUFFICES ASSUME Init PROVE ShownInv
    OBVIOUS
  <1>1. DOMAIN toClient = {}
    BY EmptySeq DEF Init
  <1>2. ClosedInv /\ SyncInv /\ OpenShowsInv
    BY DEF Init, ClosedInv, SyncInv, OpenShowsInv, Due
  <1>3. IndexInv
    BY <1>1 DEF Init, IndexInv, Idle
  <1> QED
    BY <1>2, <1>3 DEF ShownInv

LEMMA NextClosed ==
    ASSUME TypeOK, ClosedInv, [Next]_vars, excuses' = {}
    PROVE  ClosedInv'
  <1>1. ASSUME NEW a \in Appliers, Apply(a) PROVE open
    BY <1>1 DEF Apply
  <1>2. ASSUME NEW a \in Appliers, Begin(a) \/ Read(a) \/ Ask(a) \/ AskFull(a) \/ Store(a) \/ Apply(a)
        PROVE  ClosedInv'
    BY <1>1, <1>2 DEF Begin, Read, Ask, AskFull, Store, Apply, ClosedInv
  <1>3. CASE ReadLoop
    BY <1>3 DEF ReadLoop, Answered, Formatted, RefreshSemanticTokens, ClosedInv, Nothing
  <1>4. CASE Type \/ Poll \/ (\E t \in Texts : Notify(t)) \/ Debounce \/ Close \/ UNCHANGED vars
    BY <1>4 DEF Type, Poll, Notify, Debounce, Close, vars, ClosedInv, Nothing
  <1>5. CASE Save \/ Format \/ Style
    BY <1>5 DEF Save, Format, Style, ClosedInv, Nothing
  <1>6. CASE Index \/ Restart \/ Reset \/ Reopen \/ Restyle
    BY <1>6 DEF Index, Restart, Reset, Reopen, Restyle, ClosedInv, Nothing
  <1> QED
    BY <1>2, <1>3, <1>4, <1>5, <1>6 DEF Next, Applying

\* The notices and the text that the server has.
LEMMA NextSync ==
    ASSUME TypeOK, PastInv, OpenInv, SyncInv, [Next]_vars, excuses' = {}
    PROVE  SyncInv'
  <1>0. body \in Nat /\ watch.last \in Past \cup {None} /\ Past = 0..body /\ None = -1
    BY PastTexts DEF PastInv, Past, None
  <1>1. ASSUME UNCHANGED <<open, notices, watch, body>>, server'.open => server.open, server'.text = server.text
        PROVE  SyncInv'
    BY <1>1 DEF SyncInv
  <1>2. CASE Type
    <2>1. body' = body + 1 /\ watch.last # body + 1 /\ watch' = watch
      BY <1>0, <1>2 DEF Type
    <2> QED
      BY <1>2, <2>1 DEF Type, SyncInv
  <1>3. CASE Poll
    BY <1>3 DEF Poll, SyncInv
  <1>4. ASSUME NEW t \in Texts, Notify(t) PROVE SyncInv'
    <2>1. notices' = notices \ {t} /\ UNCHANGED <<open, watch, body>>
      BY <1>4 DEF Notify
    <2>2. t \in Past
      BY <1>4 DEF Notify, PastInv
    <2>3. server'.open = server.open /\ (server.open => server'.text = t /\ open)
      BY <1>4 DEF Notify, SendChange, TypeOK, OpenInv
    <2>4. open /\ t # body => watch.last = t
      BY <1>0, <1>4, <2>2 DEF Notify
    <2> QED
      BY <2>1, <2>3, <2>4 DEF SyncInv
  <1>5. CASE Debounce
    BY <1>5 DEF Debounce, SyncInv, TypeOK
  <1>6. CASE Close
    <2>1. open' = FALSE /\ server'.open = FALSE
      BY <1>6 DEF Close, TypeOK
    <2> QED
      BY <2>1 DEF SyncInv
  <1>7. CASE Save
    <2>1. server'.open = server.open /\ (server.open => server'.text = body)
      BY <1>7 DEF Save, SendChange, TypeOK
    <2> QED
      BY <1>7, <2>1 DEF Save, SyncInv
  <1>8. CASE Reopen
    <2>1. (open => server'.text = body) /\ (~open => server' = server)
      BY <1>8 DEF Reopen, TypeOK
    <2> QED
      BY <1>8, <2>1 DEF Reopen, SyncInv
  <1>9. CASE Restart
    <2>1. server'.open = FALSE
      BY <1>9 DEF Restart
    <2> QED
      BY <1>9, <2>1 DEF Restart, SyncInv
  <1>10. CASE Index
    <2>1. server'.open = server.open /\ server'.text = server.text
      BY <1>10 DEF Index, TypeOK
    <2> QED
      BY <1>1, <1>10, <2>1 DEF Index
  <1>11. ASSUME NEW a \in Appliers, Ask(a) \/ AskFull(a) PROVE SyncInv'
    <2>1. server'.open = server.open /\ server'.text = server.text
      BY <1>11 DEF Ask, AskFull, Request, TypeOK
    <2> QED
      BY <1>1, <1>11, <2>1 DEF Ask, AskFull
  <1>12. ASSUME NEW a \in Appliers, Begin(a) \/ Read(a) \/ Store(a) \/ Apply(a) PROVE SyncInv'
    BY <1>1, <1>12 DEF Begin, Read, Store, Apply
  <1>13. CASE Format \/ Style \/ ReadLoop \/ Reset \/ Restyle \/ UNCHANGED vars
    BY <1>1, <1>13 DEF Format, Style, ReadLoop, Answered, Formatted, RefreshSemanticTokens, Reset, Restyle, vars
  <1> QED
    BY <1>2, <1>3, <1>4, <1>5, <1>6, <1>7, <1>8, <1>9, <1>10, <1>11, <1>12, <1>13 DEF Next, Applying

\* Who has been told of nothing, and who cannot have been told of anything.
LEMMA NextIndex ==
    ASSUME TypeOK, PastInv, OpenInv, IndexInv, AnswersInv, [Next]_vars, excuses' = {}
    PROVE  IndexInv'
  <1>0. applier \in [Appliers -> Procs]
    BY DEF TypeOK, Procs
  <1>1. ASSUME server'.ready = server.ready, StillAnswers, resync = "reset" => resync' = "reset"
        PROVE  IndexInv'
    BY <1>1 DEF StillAnswers, IndexInv, IsRefresh
  <1>2. CASE Type \/ Poll \/ (\E t \in Texts : Notify(t)) \/ Debounce \/ Close \/ Save \/ Style \/ Reopen \/ Restyle
             \/ UNCHANGED vars
    <2>1. server'.ready = server.ready
      BY <1>2 DEF Type, Poll, Notify, Debounce, Close, Save, SendChange, Style, Reopen, Restyle, vars, TypeOK
    <2>2. resync = "reset" => resync' = "reset"
      BY <1>2 DEF Type, Poll, Notify, Debounce, Close, Save, Style, Reopen, Restyle, vars
    <2> QED
      BY <1>1, <1>2, <2>1, <2>2, Stills
  <1>3. CASE Reset
    <2>1. \A a \in Appliers : applier[a].pc \notin {"store", "apply"}
      BY <1>3 DEF Reset, At
    <2> QED
      BY <1>3, <2>1 DEF Reset, IndexInv, IsRefresh
  <1>4. ASSUME NEW m \in Messages, toClient' = Append(toClient, m),
               m.kind = "tokens" /\ m.result.data = None => ~server'.ready,
               ~server'.ready => m.result.data = None,
               \A a \in Appliers : applier'[a].pc \in {"store", "apply"} => applier'[a].pc = applier[a].pc,
               resync' = resync, server'.ready => server.ready \/ m.kind = "refresh",
               server.ready => server'.ready
        PROVE  IndexInv'
    <2>1. PICK n : n = Len(toClient) + 1
      OBVIOUS
    <2>2. /\ \A k \in DOMAIN toClient : k \in DOMAIN toClient' /\ toClient'[k] = toClient[k] /\ k < n
          /\ n \in DOMAIN toClient' /\ toClient'[n] = m
          /\ \A k \in DOMAIN toClient' : k = n \/ k \in DOMAIN toClient
      BY <1>4, <2>1, Sent
    <2>3. ASSUME NEW k \in DOMAIN toClient',
                 toClient'[k].kind = "tokens", toClient'[k].result.data = None, server'.ready
          PROVE  \E j \in DOMAIN toClient' : k < j /\ IsRefresh(j)'
      <3>1. k \in DOMAIN toClient /\ toClient'[k] = toClient[k]
        BY <1>4, <2>2, <2>3
      <3>2. CASE server.ready
        <4>1. PICK j \in DOMAIN toClient : k < j /\ IsRefresh(j)
          BY <2>3, <3>1, <3>2 DEF IndexInv
        <4> QED
          BY <2>2, <4>1 DEF IsRefresh
      <3>3. CASE ~server.ready
        BY <1>4, <2>2, <2>3, <3>1, <3>3 DEF IsRefresh
      <3> QED
        BY <3>2, <3>3
    <2>4. ~server'.ready => \A k \in DOMAIN toClient' : toClient'[k].result.data = None
      BY <1>4, <2>2 DEF IndexInv
    <2>5. ~server'.ready /\ resync' # "reset" => \A a \in Appliers : applier'[a].pc \notin {"store", "apply"}
      BY <1>4 DEF IndexInv
    <2> QED
      BY <2>3, <2>4, <2>5 DEF IndexInv
  <1>5. CASE Format \/ Index
    <2>1. PICK kind \in {"formatted", "refresh"} :
             toClient' = Append(toClient, Signal(kind)) /\ (kind = "refresh" <=> Index)
      BY <1>5 DEF Format, Index
    <2>2. Signal(kind) \in Messages /\ Signal(kind).kind = kind /\ Signal(kind).result.data = None
      BY Signals DEF NoResult
    <2>3. applier' = applier /\ resync' = resync
      BY <1>5 DEF Format, Index
    <2>4. (server.ready => server'.ready) /\ (server'.ready => server.ready \/ kind = "refresh")
      BY <1>5, <2>1 DEF Format, Index, TypeOK
    <2> QED
      BY <1>4, <2>1, <2>2, <2>3, <2>4
  <1>6. ASSUME NEW a \in Appliers, Ask(a) \/ AskFull(a) PROVE IndexInv'
    <2>1. PICK id \in Nat : Reply(a, id, Answer(a, id))
      BY <1>6, Requests DEF Ask, AskFull, TypeOK, Results
    <2>2. PICK m \in Messages : m = Answer(a, id)
      BY <2>1 DEF Reply
    <2>3. server'.ready = server.ready /\ resync' = resync
      BY <1>6, <2>1 DEF Ask, AskFull, Reply, TypeOK
    <2>4. /\ m.kind = "tokens" /\ m.result.data = None => ~server.ready
          /\ ~server.ready => m.result.data = None
      <3>1. Result.data # None
        BY PastTexts DEF Result, PastInv, Past, None
      <3> QED
        BY <2>1, <2>2, <3>1 DEF Reply, NoResult
    <2>5. \A b \in Appliers : applier'[b].pc \in {"store", "apply"} => applier'[b].pc = applier[b].pc
      BY <1>6, Moves
    <2> QED
      BY <1>4, <2>1, <2>2, <2>3, <2>4, <2>5 DEF Reply
  <1>7. ASSUME NEW a \in Appliers, Begin(a) \/ Read(a) \/ Store(a) \/ Apply(a) PROVE IndexInv'
    <2>1. UNCHANGED <<toClient, resync, server>>
      BY <1>7 DEF Begin, Read, Store, Apply
    <2>2. applier'[a].pc \in {"store", "apply"} => applier[a].pc = "store"
      <3>1. Again(applier[a]).pc \notin {"store", "apply"} /\ Idle.pc \notin {"store", "apply"}
        BY DEF Again, Idle
      <3> QED
        BY <1>7, <3>1, Moves DEF Store
    <2>3. \A b \in Appliers : b # a => applier'[b] = applier[b]
      BY <1>7, Moves
    <2> QED
      BY <2>1, <2>2, <2>3 DEF IndexInv, IsRefresh
  <1>8. CASE ReadLoop
    <2>1. /\ \A k \in DOMAIN toClient' : /\ k \in Nat /\ k + 1 \in DOMAIN toClient /\ toClient'[k] = toClient[k + 1]
          /\ \A k \in DOMAIN toClient :
                k = 1 \/ (k \in Nat /\ 1 < k /\ k - 1 \in DOMAIN toClient' /\ toClient'[k - 1] = toClient[k])
          /\ Head(toClient) = toClient[1] /\ 1 \in DOMAIN toClient /\ toClient[1] \in Messages
      BY <1>8, Taken DEF ReadLoop, Answered, Formatted, RefreshSemanticTokens
    <2>2. UNCHANGED <<server, resync>>
      BY <1>8 DEF ReadLoop, Answered, Formatted, RefreshSemanticTokens
    <2>3. ASSUME NEW k \in DOMAIN toClient',
                 toClient'[k].kind = "tokens", toClient'[k].result.data = None, server.ready
          PROVE  \E j \in DOMAIN toClient' : k < j /\ IsRefresh(j)'
      <3>1. PICK j \in DOMAIN toClient : k + 1 < j /\ IsRefresh(j)
        BY <2>1, <2>3 DEF IndexInv
      <3>2. j # 1 /\ j \in Nat /\ k < j - 1
        BY <2>1, <3>1
      <3> QED
        BY <2>1, <3>1, <3>2 DEF IsRefresh
    <2>4. ~server.ready => \A k \in DOMAIN toClient' : toClient'[k].result.data = None
      BY <2>1 DEF IndexInv
    <2>5. ASSUME ~server.ready, resync # "reset", NEW a \in Appliers
          PROVE  applier'[a].pc \notin {"store", "apply"}
      <3>1. applier'[a] = applier[a] \/ (Answered /\ applier'[a] = Receives(applier[a], toClient[1]))
        BY <1>0, <1>8, <2>1 DEF ReadLoop, Answered, Formatted, RefreshSemanticTokens
      <3>2. toClient[1].result.data = None
        BY <2>1, <2>5 DEF IndexInv
      <3>3. Receives(applier[a], toClient[1]).pc \notin {"store", "apply"}
        BY <1>0, <2>1, <3>2, Receiving DEF Gets
      <3> QED
        BY <2>5, <3>1, <3>3 DEF IndexInv
    <2> QED
      BY <2>2, <2>3, <2>4, <2>5 DEF IndexInv
  <1>9. CASE Restart
    <2>1. DOMAIN toClient' = {} /\ resync' = "reset"
      BY <1>9, EmptySeq DEF Restart
    <2> QED
      BY <2>1 DEF IndexInv
  <1> QED
    BY <1>2, <1>3, <1>5, <1>6, <1>7, <1>8, <1>9 DEF Next, Applying

\* What a step must leave alone to leave what is due, and who is good.
QueueKept == \A k \in DOMAIN toClient : IsRefresh(k) => \E j \in DOMAIN toClient' : toClient'[j] = toClient[k]
LEMMA DueStays ==
    ASSUME Due, UNCHANGED <<watch, body, loop, resync, starts>>, QueueKept
    PROVE  Due'
  BY DEF Due, QueueKept, IsRefresh

LEMMA GoodStays ==
    ASSUME NEW b \in Appliers, Good(b), applier'[b] = applier[b], body' = body, server'.ready = server.ready,
           \A k \in DOMAIN toClient : Tokened(b, k) => \E j \in DOMAIN toClient' : toClient'[j] = toClient[k]
    PROVE  Good(b)'
  BY DEF Good, Tokened

LEMMA RequestShows ==
    ASSUME TypeOK, PastInv, AnswersInv, OpenInv, SyncInv, open, Shown \/ Due \/ \E b \in Appliers : Good(b),
           NEW a \in Appliers, Ask(a) \/ AskFull(a)
    PROVE  Shown' \/ Due' \/ \E b \in Appliers : Good(b)'
  <1>1. /\ UNCHANGED <<watch, body, loop, resync, starts, layer>>
        /\ applier[a].pc \in {"ask", "askFull"}
    BY DEF Ask, AskFull
  <1>2. PICK id \in Nat : Reply(a, id, Answer(a, id))
    BY Requests DEF Ask, AskFull, TypeOK, Results
  <1>3. server'.ready = server.ready
    BY <1>2 DEF Reply, TypeOK
  <1>4. PICK n : n = Len(toClient) + 1
    OBVIOUS
  <1>5. /\ \A k \in DOMAIN toClient : k \in DOMAIN toClient' /\ toClient'[k] = toClient[k]
        /\ n \in DOMAIN toClient' /\ toClient'[n] = Answer(a, id)
    BY <1>2, <1>4, Sent DEF Reply
  <1>6. CASE Shown
    BY <1>1, <1>3, <1>6 DEF Shown, Nothing
  <1>7. CASE Due
    BY <1>1, <1>5, <1>7, DueStays DEF QueueKept
  <1>8. ASSUME NEW b \in Appliers, b # a, Good(b) PROVE Good(b)'
    <2>1. applier'[b] = applier[b]
      BY <1>8, Moves
    <2> QED
      BY <1>1, <1>3, <1>5, <1>8, <2>1, GoodStays
  <1>9. CASE Good(a) /\ ~Due
    <2>1. server.ready => applier[a].body = body
      BY <1>1, <1>9, NotWaiting DEF Good, Tokened, IsAnswer
    <2>2. server.open /\ server.text = body
      <3>1. resync = "idle" /\ watch.last = body /\ ~watch.due
        BY <1>9 DEF Due, TypeOK
      <3> QED
        BY <3>1 DEF OpenInv, SyncInv
    <2>3. /\ Answer(a, id).kind = "tokens" /\ Answer(a, id).who = a
          /\ server.ready => Answer(a, id).result.data = body
      BY <1>2, <2>2 DEF Reply, Result
    <2>4. Tokened(a, n)' /\ (server.ready => toClient'[n].result.data = body)
      BY <1>5, <2>3 DEF Tokened
    <2>5. applier'[a].body = applier[a].body
      BY Moves
    <2>6. Good(a)'
      BY <1>1, <1>3, <1>5, <2>1, <2>4, <2>5 DEF Good
    <2> QED
      BY <2>6
  <1> QED
    BY <1>6, <1>7, <1>8, <1>9

LEMMA ApplyShows ==
    ASSUME TypeOK, PastInv, AnswersInv, IndexInv, open, Shown \/ Due \/ \E b \in Appliers : Good(b),
           NEW a \in Appliers, Apply(a), excuses' = {}
    PROVE  Shown' \/ Due' \/ \E b \in Appliers : Good(b)'
  <1>1. UNCHANGED <<watch, body, loop, resync, starts, server, toClient>> /\ applier[a].pc = "apply"
    BY DEF Apply
  <1>2. /\ layer' = [tokens |-> applier[a].result.data, body |-> applier[a].body]
        /\ ~(layer.tokens > layer'.tokens) /\ ~(layer.body > layer'.body)
    BY DEF Apply
  <1>3. Due => Due'
    BY <1>1, DueStays DEF QueueKept
  <1>4. ~server.ready => Due
    BY <1>1 DEF IndexInv, Due
  <1>5. ASSUME NEW b \in Appliers, b # a, Good(b) PROVE Good(b)'
    <2>1. applier'[b] = applier[b]
      BY <1>5, Moves
    <2> QED
      BY <1>1, <1>5, <2>1, GoodStays
  <1>6. CASE server.ready /\ Good(a)
    <2>1. applier[a].body = body /\ applier[a].result.data = body
      BY <1>1, <1>6, NotWaiting DEF Good, Tokened, IsAnswer
    <2> QED
      BY <1>1, <1>2, <1>6, <2>1 DEF Shown
  <1>7. CASE server.ready /\ Shown
    <2>1. layer.tokens = body /\ layer.body = body
      BY <1>7 DEF Shown
    <2>2. body \in Nat /\ applier[a].body \in 0..body /\ applier[a].result.data \in 0..body \cup {-1, -2}
      BY PastTexts DEF PastInv, Past, None, Junk
    <2>3. applier[a].body = body /\ applier[a].result.data = body
      BY <1>2, <2>1, <2>2
    <2> QED
      BY <1>1, <1>2, <1>7, <2>3 DEF Shown
  <1> QED
    BY <1>3, <1>4, <1>5, <1>6, <1>7

LEMMA AnsweredShows ==
    ASSUME TypeOK, PastInv, AnswersInv, Uncrossed, GivenInv, IndexInv, open,
           Shown \/ Due \/ \E b \in Appliers : Good(b), Answered
    PROVE  Shown' \/ Due' \/ \E b \in Appliers : Good(b)'
  <1>0. applier \in [Appliers -> Procs]
    BY DEF TypeOK, Procs
  <1>1. /\ UNCHANGED <<watch, body, loop, resync, starts, server>>
        /\ toClient # <<>> /\ toClient' = Tail(toClient)
    BY DEF Answered
  <1>2. PICK m \in Messages : /\ m = toClient[1] /\ m = Head(toClient) /\ IsAnswer(1) /\ 1 \in DOMAIN toClient
    BY Taken DEF Answered, IsAnswer
  <1>3. PICK a \in Appliers : a = m.who
    BY <1>2 DEF AnswersInv
  <1>4. applier'[a] = Receives(applier[a], m) /\ \A b \in Appliers : b # a => applier'[b] = applier[b]
    BY <1>0, <1>2, <1>3 DEF Answered
  <1>5. Gets(applier[a], m, applier'[a])
    BY <1>0, <1>4, Receiving
  <1>6. \A k \in DOMAIN toClient : k # 1 => \E j \in DOMAIN toClient' : toClient'[j] = toClient[k]
    BY <1>1, Taken
  <1>7. layer' = IF m.kind = "tokens" /\ applier[a].pc = "full" /\ m.result.data = None THEN Nothing ELSE layer
    BY <1>2, <1>3 DEF Answered, Nothing
  <1>8. QueueKept
    BY <1>2, <1>6 DEF QueueKept, IsRefresh, IsAnswer
  <1>9. Due => Due'
    BY <1>1, <1>8, DueStays
  <1>10. m.kind = "tokens" /\ m.result.data = None /\ server.ready => Due
    BY <1>2 DEF IndexInv, Due
  <1>11. ~server.ready => m.result.data = None
    BY <1>2 DEF IndexInv
  <1>12. CASE Shown /\ ~Due
    <2>1. layer' = IF server.ready THEN layer ELSE Nothing
      BY <1>7, <1>10, <1>11, <1>12 DEF Shown
    <2> QED
      BY <1>1, <1>12, <2>1 DEF Shown
  <1>13. ASSUME NEW b \in Appliers, b # a, Good(b) PROVE Good(b)'
    <2>1. \A k \in DOMAIN toClient : Tokened(b, k) => k # 1
      BY <1>2, <1>3, <1>13 DEF Tokened
    <2> QED
      BY <1>1, <1>4, <1>6, <1>13, <2>1, GoodStays
  <1>14. CASE Good(a) /\ ~Due
    <2>1. applier[a].pc \in {"delta", "full"}
      BY <1>2, <1>3 DEF AnswersInv
    <2>2. PICK k \in DOMAIN toClient : /\ Tokened(a, k)
                                       /\ server.ready => applier[a].body = body /\ toClient[k].result.data = body
      BY <1>14, <2>1 DEF Good
    <2>3. k = 1
      BY <1>2, <1>3, <2>2 DEF AnswersInv, Tokened, IsAnswer
    <2>4. m.kind = "tokens" /\ (server.ready => applier[a].body = body /\ m.result.data = body)
      BY <1>2, <2>2, <2>3 DEF Tokened
    <2>5. CASE server.ready
      <3>1. m.result.data # None
        BY <2>4, <2>5, PastTexts DEF None
      <3>2. applier'[a].pc = "store" /\ applier'[a].body = body /\ applier'[a].result = Tokens(applier[a], m)
        BY <1>5, <2>4, <2>5, <3>1 DEF Gets
      <3>3. Tokens(applier[a], m) = m.result
        BY <1>2, <1>3 DEF Tokens, Uncrossed, Based
      <3>4. Good(a)'
        BY <1>1, <2>4, <2>5, <3>2, <3>3 DEF Good
      <3> QED
        BY <3>4
    <2>6. CASE ~server.ready /\ applier[a].pc = "full"
      BY <1>1, <1>7, <1>11, <2>4, <2>6 DEF Shown
    <2>7. CASE ~server.ready /\ applier[a].pc = "delta"
      <3>1. applier'[a].pc = "askFull"
        BY <1>5, <1>11, <2>7 DEF Gets
      <3>2. Good(a)'
        BY <1>1, <2>7, <3>1 DEF Good
      <3> QED
        BY <3>2
    <2> QED
      BY <2>1, <2>5, <2>6, <2>7
  <1> QED
    BY <1>9, <1>12, <1>13, <1>14

LEMMA NextOpenShows ==
    ASSUME TypeOK, CacheInv, OpenShowsInv, SyncInv, IndexInv, [Next]_vars, excuses = {}, excuses' = {}
    PROVE  OpenShowsInv'
  <1> SUFFICES ASSUME open' PROVE Shown' \/ Due' \/ \E b \in Appliers : Good(b)'
    BY DEF OpenShowsInv
  <1> USE DEF CacheInv
  <1>0. open /\ (Shown \/ Due \/ \E b \in Appliers : Good(b)) /\ Uncrossed
    <2>1. open' => open
      BY DEF Next, Applying, ReadLoop, Type, Poll, Notify, Debounce, Close, Save, Format, Style, Begin, Read, Ask,
         AskFull, Store, Apply, Answered, Formatted, RefreshSemanticTokens, Index, Restart, Reset, Reopen, Restyle,
         vars
    <2> QED
      BY <2>1 DEF OpenShowsInv, UncrossedInv
  <1>1. CASE Type
    <2>1. body' = body + 1 /\ watch' = watch /\ watch.last # body + 1
      BY <1>1, PastTexts DEF Type, PastInv, Past, None
    <2> QED
      BY <2>1 DEF Due
  <1>2. CASE Poll \/ Save \/ Format \/ Formatted \/ Restart
    <2>1. watch'.due \/ loop' # "idle" \/ resync' # "idle"
      <3>1. CASE Poll
        BY <3>1 DEF Poll
      <3>2. CASE Save \/ Format \/ Formatted \/ Restart
        BY <3>2 DEF Save, Format, Formatted, Restart
      <3> QED
        BY <1>2, <3>1, <3>2
    <2> QED
      BY <2>1 DEF Due
  <1>3. CASE Debounce \/ Style \/ Restyle \/ RefreshSemanticTokens
    <2>1. starts' > 0
      BY <1>0, <1>3 DEF Debounce, Style, Restyle, RefreshSemanticTokens, StartApplier, TypeOK
    <2> QED
      BY <2>1 DEF Due
  <1>4. CASE Reset \/ Reopen
    BY <1>0, <1>4 DEF Reset, Reopen, Due
  <1>5. CASE Index
    <2>1. \E j \in DOMAIN toClient' : toClient'[j].kind = "refresh"
      BY <1>5, Signals, Sent DEF Index
    <2> QED
      BY <2>1 DEF Due, IsRefresh
  <1>6. ASSUME NEW t \in Texts, Notify(t) PROVE Shown' \/ Due' \/ \E b \in Appliers : Good(b)'
    <2>1. UNCHANGED <<watch, body, loop, resync, starts, layer, toClient, applier>> /\ server'.ready = server.ready
      BY <1>6 DEF Notify, SendChange, TypeOK
    <2> QED
      BY <1>0, <2>1, DueStays, GoodStays DEF Shown, Nothing, QueueKept
  <1>7. CASE Close
    BY <1>7 DEF Close
  <1>8. ASSUME NEW a \in Appliers, Begin(a) \/ Read(a) PROVE Good(a)'
    <2>1. CASE Begin(a)
      BY <2>1, Moves DEF Good
    <2>2. CASE Read(a)
      <3>1. applier'[a].pc = "ask" /\ applier'[a].body = body /\ body' = body
        BY <1>0, <2>2, Moves DEF Read
      <3> QED
        BY <3>1 DEF Good
    <2> QED
      BY <1>8, <2>1, <2>2
  <1>9. ASSUME NEW a \in Appliers, Store(a) PROVE Shown' \/ Due' \/ \E b \in Appliers : Good(b)'
    <2>1. UNCHANGED <<watch, body, loop, resync, starts, layer, toClient, server>> /\ applier[a].pc = "store"
      BY <1>9 DEF Store
    <2>2. \A b \in Appliers : b # a => applier'[b] = applier[b]
      BY <1>9, Moves
    <2>3. applier'[a].pc = "apply" /\ applier'[a].body = applier[a].body /\ applier'[a].result = applier[a].result
      BY <1>9, Moves
    <2>4. Good(a) => Good(a)'
      BY <2>1, <2>3, NotWaiting DEF Good, Tokened, IsAnswer
    <2>5. \A b \in Appliers : b # a /\ Good(b) => Good(b)'
      BY <2>1, <2>2, GoodStays
    <2>6. Due => Due'
      BY <2>1, DueStays DEF QueueKept
    <2>7. Shown => Shown'
      BY <2>1 DEF Shown, Nothing
    <2> QED
      BY <1>0, <2>4, <2>5, <2>6, <2>7
  <1>10. CASE UNCHANGED vars
    <2>1. UNCHANGED <<watch, body, loop, resync, starts, layer, toClient, applier, server>>
      BY <1>10 DEF vars
    <2> QED
      BY <1>0, <2>1, DueStays, GoodStays DEF Shown, Nothing, QueueKept
  <1> QED
    BY <1>0, <1>1, <1>2, <1>3, <1>4, <1>5, <1>6, <1>7, <1>8, <1>9, <1>10, RequestShows, ApplyShows, AnsweredShows
       DEF Next, Applying, ReadLoop

LEMMA NextShown == TypeOK /\ CacheInv /\ ShownInv /\ [Next]_vars => ShownInv'
  <1> SUFFICES ASSUME TypeOK, CacheInv, ShownInv, [Next]_vars, excuses' = {}
               PROVE  (ClosedInv /\ SyncInv /\ IndexInv /\ OpenShowsInv)'
    BY DEF ShownInv
  <1>1. excuses = {}
    BY Excused
  <1> QED
    BY <1>1, NextClosed, NextSync, NextIndex, NextOpenShows DEF ShownInv, CacheInv

\* Once nothing is under way the window shows the tokens of its text, on that
\* text, or none before the server has indexed, and a closed one shows none,
\* unless a change was announced late or an applier was overtaken.
THEOREM QuietWindowsShowTheirText == Spec => []QuietShowsTheBody
  <1>1. TypeOK /\ CacheInv /\ ShownInv => QuietShowsTheBody
    <2> SUFFICES ASSUME TypeOK, ShownInv, Quiet, excuses = {}
                 PROVE  \/ open /\ layer = [tokens |-> body, body |-> body]
                        \/ (open => ~server.ready) /\ layer = [tokens |-> None, body |-> None]
      BY DEF QuietShowsTheBody
    <2>1. DOMAIN toClient = {}
      BY EmptySeq DEF Quiet
    <2>2. ~open => layer = Nothing
      BY DEF ShownInv, ClosedInv
    <2>3. ASSUME open PROVE ~Due /\ \A a \in Appliers : ~Good(a)
      BY <2>1, <2>3 DEF Quiet, Due, Good
    <2> QED
      BY <2>2, <2>3 DEF ShownInv, OpenShowsInv, Shown, Nothing
  <1>2. Init => TypeOK /\ CacheInv /\ ShownInv
    BY InitTypeOK, InitCache, InitShown
  <1>3. TypeOK /\ CacheInv /\ ShownInv /\ [Next]_vars => TypeOK' /\ CacheInv' /\ ShownInv'
    BY NextTypeOK, NextCache, NextShown DEF CacheInv
  <1> QED
    BY <1>1, <1>2, <1>3, PTL DEF Spec

\* Every variable keeps its type; in particular every answer has an applier,
\* and no array is of a text that has not been written.
THEOREM TypeCorrect == Spec => []TypeOK
  <1>1. Init => TypeOK /\ PastInv
    BY InitTypeOK, InitCache DEF CacheInv
  <1>2. TypeOK /\ PastInv /\ [Next]_vars => TypeOK' /\ PastInv'
    BY NextTypeOK, NextPast
  <1> QED
    BY <1>1, <1>2, PTL DEF Spec
=============================================================================
