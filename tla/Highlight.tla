----------------------------- MODULE Highlight -----------------------------
(***************************************************************************)
(* Semantic highlighting of one file: the goroutines of applyStyles, the   *)
(* watcher that starts them, and the handler of the server's request for a *)
(* refresh (files.go), with the cache and the requests of                  *)
(* ApplySemanticTokens (style.go), from the moment didOpen has opened the  *)
(* file until didClose.                                                    *)
(*                                                                         *)
(* A body is the number of the edit that wrote it, and tokens are the      *)
(* number of the body they belong to; SemanticTokens.tla has what is in    *)
(* them.  One goroutine reads the server's messages and runs their         *)
(* handlers, one after the other.                                          *)
(***************************************************************************)
EXTENDS Integers, Sequences, FiniteSets

CONSTANTS
    Appliers,      \* bound: goroutines of applyStyles alive at a time
    FormatOnPut,   \* cfg.FormatOnPut
    Closes,        \* may the file be closed?
    Indexed,       \* has the server indexed when the file is opened?
    Attempts,      \* semanticRetryAttempts
    MaxTexts,      \* bound: edits of the body
    MaxPuts,       \* bound: Put commands
    MaxRestarts,   \* bound: restarts of the server
    MaxInAll       \* bound: edits, Puts and restarts together

ASSUME HighlightAssumption ==
    /\ FormatOnPut \in BOOLEAN /\ {Closes, Indexed} \subseteq BOOLEAN
    /\ {Attempts, MaxTexts, MaxPuts, MaxRestarts, MaxInAll} \subseteq Nat

VARIABLES
    body,       \* the text of the window
    used,       \* how much of each bound is used up
    open,       \* the file has a docState, a watcher and a style layer
    cache,      \* docState.resultID and docState.data
    layer,      \* what is shown: tokens and the body they were placed on
    mu,         \* who holds fm.mu over a step: "free" or "format"
    watch,      \* the watcher: the body it saw last, and its debounce timer
    notices,    \* the bodies that notifyDidChange goroutines have yet to send
    starts,     \* the goroutines of applyStyles that have not run yet
    applier,    \* those that run
    loop,       \* the event loop after a Put
    resync,     \* ResyncFiles after a restart
    toClient,   \* the messages from the server that have not been read
    server,     \* its document, its last result, whether it has indexed
    excuses     \* history: the ways in which the display may have gone wrong

vars == <<body, used, open, cache, layer, mu, watch, notices, starts, applier, loop, resync,
          toClient, server, excuses>>

-----------------------------------------------------------------------------
Texts == 0..MaxTexts
None == -1    \* no text, no tokens
Junk == -2    \* an array that is no document's tokens

NoResult == [id |-> 0, data |-> None]
Results == [id : Nat, data : Texts \cup {None, Junk}]

Steps == {"idle", "read", "ask", "delta", "askFull", "full", "store", "apply"}
Idle == [pc |-> "idle", body |-> 0, prev |-> NoResult, result |-> NoResult, try |-> 0]

\* An answer to a token request: the tokens of a text, those of a base and
\* what has changed since, or an error.
Message(kind, who, result, base) ==
    [kind |-> kind, who |-> who, result |-> result, base |-> base]
Signal(kind) == Message(kind, "none", NoResult, None)
Failed(a) == Message("error", a, NoResult, None)

-----------------------------------------------------------------------------
(* The server answers in the order in which it is sent to, so what it does *)
(* with a message is part of the step that sends it; its answer then waits *)
(* to be read.                                                             *)

\* Its next result: the tokens of its document.
Result == [id |-> server.last.id + 1, data |-> server.text]

\* The answer to a token request with the id of an earlier result, or 0:
\* nothing before it has indexed the workspace.
Answer(a, id) ==
    IF ~server.open THEN Failed(a)
    ELSE IF ~server.ready THEN Message("tokens", a, NoResult, None)
    ELSE Message("tokens", a, Result, IF id # 0 /\ id = server.last.id THEN server.last.data ELSE None)

Request(a, id) ==
    /\ toClient' = Append(toClient, Answer(a, id))
    /\ server' = IF server.open /\ server.ready THEN [server EXCEPT !.last = Result] ELSE server

\* textDocument/didChange of a document that is open there.
SendChange(t) ==
    /\ server' = IF server.open THEN [server EXCEPT !.text = t] ELSE server
    /\ UNCHANGED toClient

Init ==
    /\ body = 0
    /\ used = [texts |-> 0, puts |-> 0, restarts |-> 0]
    /\ open = TRUE
    /\ cache = NoResult
    /\ layer = [tokens |-> None, body |-> None]
    /\ mu = "free"
    /\ watch = [last |-> None, due |-> FALSE]
    /\ notices = {}
    /\ starts = 1
    /\ applier = [a \in Appliers |-> Idle]
    /\ loop = "idle" /\ resync = "idle"
    /\ toClient = <<>>
    /\ server = [open |-> TRUE, text |-> 0, last |-> NoResult, ready |-> Indexed]
    /\ excuses = {}

\* applyStyles, by whoever does not hold fm.mu: a goroutine of its own.
StartApplier ==
    /\ mu = "free"
    /\ starts' = starts + 1

InBounds == used.texts + used.puts + used.restarts < MaxInAll

-----------------------------------------------------------------------------
(* The user and the watcher.                                               *)

Type ==
    /\ open /\ used.texts < MaxTexts /\ InBounds
    /\ used' = [used EXCEPT !.texts = @ + 1]
    /\ body' = body + 1
    /\ UNCHANGED <<starts, open, cache, layer, mu, watch, notices, applier, loop, resync,
                   toClient, server, excuses>>

PollOnce ==   \* what if the debounce were not started again
    /\ open /\ body # watch.last
    /\ watch' = [last |-> body, due |-> watch.last = None]
    /\ notices' = notices \cup {body}
    /\ UNCHANGED <<starts, body, used, open, cache, layer, mu, applier, loop, resync,
                   toClient, server, excuses>>

\* watchBody's ticker.
Poll ==
    /\ open /\ body # watch.last
    /\ watch' = [last |-> body, due |-> TRUE]
    /\ notices' = notices \cup {body}
    /\ UNCHANGED <<starts, body, used, open, cache, layer, mu, applier, loop, resync,
                   toClient, server, excuses>>

\* notifyDidChange; the steps of one that race with another's are in
\* FileManager.tla.
Notify(t) ==
    /\ t \in notices /\ mu = "free"
    /\ notices' = notices \ {t}
    /\ IF open
       THEN /\ SendChange(t)
            /\ excuses' = IF t < body /\ watch.last # t THEN excuses \cup {"late"} ELSE excuses
       ELSE UNCHANGED <<toClient, server, excuses>>
    /\ UNCHANGED <<starts, body, used, open, cache, layer, mu, watch, applier, loop, resync>>

\* The debounce, 750 ms after the last change that was seen; a notice may
\* still not have been sent.
Debounce ==
    /\ open /\ watch.due
    /\ watch' = [watch EXCEPT !.due = FALSE]
    /\ StartApplier
    /\ excuses' = IF notices # {} THEN excuses \cup {"late"} ELSE excuses
    /\ UNCHANGED <<body, used, open, cache, layer, mu, notices, applier, loop, resync,
                   toClient, server>>

\* didClose.
Close ==
    /\ Closes /\ open /\ mu = "free" /\ loop = "idle"
    /\ open' = FALSE
    /\ layer' = [tokens |-> None, body |-> None]
    /\ watch' = [watch EXCEPT !.due = FALSE]
    /\ server' = [server EXCEPT !.open = FALSE]
    /\ UNCHANGED <<starts, body, used, cache, mu, notices, applier, loop, resync, toClient, excuses>>

-----------------------------------------------------------------------------
(* A Put: didSave, format, applyStyles.                                    *)

Save ==
    /\ open /\ loop = "idle" /\ mu = "free" /\ used.puts < MaxPuts /\ InBounds
    /\ used' = [used EXCEPT !.puts = @ + 1]
    /\ SendChange(body)
    /\ loop' = IF FormatOnPut THEN "format" ELSE "style"
    /\ UNCHANGED <<starts, body, open, cache, layer, mu, watch, notices, applier, resync, excuses>>

\* format holds fm.mu from here until it has its answer; the edits of the
\* answer are in FileManager.tla.
Format ==
    /\ loop = "format" /\ mu = "free"
    /\ mu' = "format"
    /\ toClient' = Append(toClient, Signal("formatted"))
    /\ loop' = "await"
    /\ UNCHANGED <<starts, body, used, open, cache, layer, watch, notices, applier, resync,
                   server, excuses>>

Style ==
    /\ loop = "style"
    /\ StartApplier
    /\ loop' = "idle"
    /\ UNCHANGED <<body, used, open, cache, layer, mu, watch, notices, applier, resync,
                   toClient, server, excuses>>

-----------------------------------------------------------------------------
(* tryApplyStyles and ApplySemanticTokens.                                 *)

\* One more attempt, or none.
Again(p) == IF p.try = Attempts THEN Idle
            ELSE [Idle EXCEPT !.pc = "read", !.try = p.try + 1]

Begin(a) ==
    /\ starts > 0 /\ applier[a].pc = "idle"
    /\ starts' = starts - 1
    /\ applier' = [applier EXCEPT ![a] = [Idle EXCEPT !.pc = "read"]]
    /\ UNCHANGED <<body, used, open, cache, layer, mu, watch, notices, loop, resync,
                   toClient, server, excuses>>

\* The window is opened and its body is read.
Read(a) ==
    /\ applier[a].pc = "read"
    /\ applier' = [applier EXCEPT ![a] = IF open THEN [@ EXCEPT !.pc = "ask", !.body = body]
                                         ELSE Again(@)]
    /\ UNCHANGED <<starts, body, used, open, cache, layer, mu, watch, notices, loop, resync,
                   toClient, server, excuses>>

\* The cache is read, and a delta is requested if it has a result.
Ask(a) ==
    /\ applier[a].pc = "ask"
    /\ applier' = [applier EXCEPT ![a].pc = IF cache.id # 0 THEN "delta" ELSE "full",
                                 ![a].prev = cache]
    /\ Request(a, cache.id)
    /\ UNCHANGED <<starts, body, used, open, cache, layer, mu, watch, notices, loop, resync, excuses>>

\* The delta request has failed.
AskFull(a) ==
    /\ applier[a].pc = "askFull"
    /\ applier' = [applier EXCEPT ![a].pc = "full"]
    /\ Request(a, 0)
    /\ UNCHANGED <<starts, body, used, open, cache, layer, mu, watch, notices, loop, resync, excuses>>

Store(a) ==
    /\ applier[a].pc = "store"
    /\ cache' = applier[a].result
    /\ applier' = [applier EXCEPT ![a].pc = "apply"]
    /\ UNCHANGED <<starts, body, used, open, layer, mu, watch, notices, loop, resync,
                   toClient, server, excuses>>

\* The layer shows the tokens, whatever has happened since the answer.
Apply(a) ==
    /\ applier[a].pc = "apply"
    /\ layer' = [tokens |-> applier[a].result.data, body |-> applier[a].body]
    /\ applier' = [applier EXCEPT ![a] = Idle]
    /\ excuses' = IF ~open \/ layer.tokens > layer'.tokens \/ layer.body > layer'.body
                  THEN excuses \cup {"overtaken"} ELSE excuses
    /\ UNCHANGED <<starts, body, used, open, cache, mu, watch, notices, loop, resync,
                   toClient, server>>

-----------------------------------------------------------------------------
(* The goroutine that reads what the server sends.                         *)

\* The tokens that an answer gives the applier p: an empty answer to a delta
\* request, or none, is followed by a full request, and an empty answer to
\* that clears the layer and is tried again.
Tokens(p, m) ==
    IF m.base = None \/ m.base = p.prev.data THEN m.result
    ELSE [m.result EXCEPT !.data = Junk]

Receives(p, m) ==
    IF m.kind = "tokens" /\ m.result.data # None
    THEN [p EXCEPT !.pc = "store", !.prev = NoResult, !.result = Tokens(p, m)]
    ELSE IF p.pc = "delta" THEN [p EXCEPT !.pc = "askFull", !.prev = NoResult]
    ELSE Again(p)

Answered ==
    /\ toClient # <<>>
    /\ LET m == Head(toClient) IN
       /\ m.kind \in {"tokens", "error"}
       /\ applier' = [applier EXCEPT ![m.who] = Receives(@, m)]
       /\ layer' = IF m.kind = "tokens" /\ applier[m.who].pc = "full" /\ m.result.data = None
                   THEN [tokens |-> None, body |-> None] ELSE layer
    /\ toClient' = Tail(toClient)
    /\ UNCHANGED <<starts, body, used, open, cache, mu, watch, notices, loop, resync,
                   server, excuses>>

Formatted ==
    /\ toClient # <<>> /\ Head(toClient).kind = "formatted"
    /\ toClient' = Tail(toClient)
    /\ mu' = "free" /\ loop' = "style"
    /\ UNCHANGED <<starts, body, used, open, cache, layer, watch, notices, applier, resync,
                   server, excuses>>

\* SemanticTokensRefresh: the handler needs fm.mu before the next message is
\* read.
RefreshSemanticTokens ==
    /\ toClient # <<>> /\ Head(toClient).kind = "refresh"
    /\ mu = "free"
    /\ toClient' = Tail(toClient)
    /\ \/ open /\ StartApplier
       \/ ~open /\ UNCHANGED starts
    /\ UNCHANGED <<body, used, open, cache, layer, mu, watch, notices, applier, loop, resync,
                   server, excuses>>

-----------------------------------------------------------------------------
(* The server.                                                             *)

\* The handler of a refresh waits for fm.mu, which format holds until the
\* handler has returned.
Stuck == mu = "format" /\ toClient # <<>> /\ Head(toClient).kind = "refresh"

\* The server has indexed the workspace and asks for a refresh.
Index ==
    /\ ~server.ready
    /\ server' = [server EXCEPT !.ready = TRUE]
    /\ toClient' = Append(toClient, Signal("refresh"))
    /\ UNCHANGED <<starts, body, used, open, cache, layer, mu, watch, notices, applier, loop,
                   resync, excuses>>

\* The process ends and another takes its place: the calls in flight fail,
\* and the document store and the results are gone.  (Calls fail once the
\* reader of the connection has seen its end, which it does not when Stuck.)
Restart ==
    /\ used.restarts < MaxRestarts /\ InBounds /\ resync = "idle" /\ ~Stuck
    /\ used' = [used EXCEPT !.restarts = @ + 1]
    /\ server' = [open |-> FALSE, text |-> 0, last |-> NoResult, ready |-> FALSE]
    /\ toClient' = <<>>
    /\ applier' = [a \in Appliers |->
                      IF applier[a].pc \in {"delta", "full"} THEN Receives(applier[a], Failed(a))
                      ELSE applier[a]]
    /\ mu' = "free"
    /\ loop' = IF loop = "await" THEN "style" ELSE loop
    /\ resync' = "reset"
    /\ UNCHANGED <<starts, body, open, cache, layer, watch, notices, excuses>>

-----------------------------------------------------------------------------
(* reopen.                                                                 *)

At(steps) == {a \in Appliers : applier[a].pc \in steps}

ResetVersion ==   \* what if the tokens were kept
    /\ resync = "reset" /\ mu = "free"
    /\ resync' = IF open THEN "open" ELSE "idle"
    /\ excuses' = excuses \cup {"crossed" : a \in At({"delta", "askFull", "full", "store"})}
                          \cup {"overtaken" : a \in At({"apply"})}
    /\ UNCHANGED <<starts, body, used, open, layer, mu, watch, notices, applier, loop, cache,
                   toClient, server>>

\* docState.reset, unless the file has been closed.
Reset ==
    /\ resync = "reset" /\ mu = "free"
    /\ cache' = IF open THEN NoResult ELSE cache
    /\ resync' = IF open THEN "open" ELSE "idle"
    /\ excuses' = excuses \cup {"crossed" : a \in At({"delta", "askFull", "full", "store"})}
                          \cup {"overtaken" : a \in At({"apply"})}
    /\ UNCHANGED <<starts, body, used, open, layer, mu, watch, notices, applier, loop,
                   toClient, server>>

\* didOpen once more, with the body as it is.
Reopen ==
    /\ resync = "open"
    /\ server' = IF open THEN [server EXCEPT !.open = TRUE, !.text = body] ELSE server
    /\ resync' = IF open THEN "style" ELSE "idle"
    /\ UNCHANGED <<starts, body, used, open, cache, layer, mu, watch, notices, applier, loop,
                   toClient, excuses>>

Restyle ==
    /\ resync = "style"
    /\ StartApplier
    /\ resync' = "idle"
    /\ UNCHANGED <<body, used, open, cache, layer, mu, watch, notices, applier, loop,
                   toClient, server, excuses>>

-----------------------------------------------------------------------------
Applying == \E a \in Appliers : Begin(a) \/ Read(a) \/ Ask(a) \/ AskFull(a) \/ Store(a) \/ Apply(a)
ReadLoop == Answered \/ Formatted \/ RefreshSemanticTokens

Next ==
    \/ Type \/ Poll \/ (\E t \in Texts : Notify(t)) \/ Debounce \/ Close
    \/ Save \/ Format \/ Style
    \/ Applying \/ ReadLoop
    \/ Index \/ Restart
    \/ Reset \/ Reopen \/ Restyle

Spec == Init /\ [][Next]_vars

\* Every goroutine runs, and the server answers.
FairSpec ==
    /\ Spec
    /\ WF_vars(Poll) /\ WF_vars(Debounce) /\ \A t \in Texts : WF_vars(Notify(t))
    /\ WF_vars(Format) /\ WF_vars(Style)
    /\ \A a \in Appliers : WF_vars(Begin(a) \/ Read(a) \/ Ask(a) \/ AskFull(a) \/ Store(a) \/ Apply(a))
    /\ WF_vars(ReadLoop)
    /\ WF_vars(Reset) /\ WF_vars(Reopen) /\ WF_vars(Restyle)

-----------------------------------------------------------------------------
Messages == [kind : {"tokens", "error", "formatted", "refresh"}, who : Appliers \cup {"none"}, result : Results, base : Texts \cup {None}]

TypeOK ==
    /\ body \in Texts
    /\ used \in [texts : 0..MaxTexts, puts : 0..MaxPuts, restarts : 0..MaxRestarts]
    /\ open \in BOOLEAN
    /\ cache \in Results
    /\ layer \in [tokens : Texts \cup {None, Junk}, body : Texts \cup {None}]
    /\ mu = (IF loop = "await" THEN "format" ELSE "free")
    /\ watch \in [last : Texts \cup {None}, due : BOOLEAN]
    /\ notices \in SUBSET Texts
    /\ starts \in Nat
    /\ applier \in [Appliers -> [pc : Steps, body : Texts, prev : Results,
                                 result : Results, try : 0..Attempts]]
    /\ loop \in {"idle", "format", "await", "style"}
    /\ resync \in {"idle", "reset", "open", "style"}
    /\ toClient \in Seq(Messages)
    /\ server \in [open : BOOLEAN, text : Texts, last : Results, ready : BOOLEAN]
    /\ excuses \in SUBSET {"late", "overtaken", "crossed"}

\* What the client holds under the server's last result id are the tokens of
\* that result, so that the next delta is about them (style.go:260-321),
\* unless a request was under way when the cache was reset after a restart.
CacheIsTheServers ==
    "crossed" \notin excuses =>
        /\ cache.data # Junk
        /\ resync \in {"idle", "style"} /\ open /\ cache.id = server.last.id => cache = server.last

\* Nothing is under way.
Quiet ==
    /\ starts = 0 /\ \A a \in Appliers : applier[a].pc = "idle"
    /\ open => watch.last = body /\ ~watch.due
    /\ notices = {} /\ loop = "idle" /\ resync = "idle"
    /\ toClient = <<>>

\* Once nothing is under way, the window shows the tokens of its text, on
\* that text (none before the server has indexed), and a closed one shows
\* none, unless a notice was late, or a
\* goroutine was overtaken by another after it had its answer, or by a reset
\* (files.go:229-277, 300-327, style.go:324).
QuietShowsTheBody ==
    Quiet /\ excuses = {} =>
        \/ open /\ layer = [tokens |-> body, body |-> body]
        \/ (open => ~server.ready) /\ layer = [tokens |-> None, body |-> None]

\* Every goroutine of applyStyles ends, whether the server indexes or not
\* (files.go:307-326), unless the program is stuck.
AppliersEnd == \A a \in Appliers : []<>(applier[a].pc = "idle" \/ Stuck)

\* A refresh that the server asks for is handled: "re-styling every open
\* file" (files.go:348-350).
RefreshIsHandled == (toClient # <<>> /\ Head(toClient).kind = "refresh") ~>
                        (toClient = <<>> \/ Head(toClient).kind # "refresh")

=============================================================================
