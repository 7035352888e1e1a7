------------------------------- MODULE Assist -------------------------------
(***************************************************************************)
(* The programs that ask the proxy about the window a user works in:       *)
(*                                                                         *)
(*   notifyPosChange  the goroutine of "L assist" that follows acme's log  *)
(*                    and polls the cursor of the focused window           *)
(*   "assist"         the loop of Assist, which shows help for a position  *)
(*   "L"              another run of L, a command at the cursor            *)
(*                                                                         *)
(* (assist.go, remote.go, cmd/L/main.go).  What they share is acme: the    *)
(* address that a client of a window reads and writes through its addr     *)
(* file belongs to the window, not to the client.  A letter of a text is   *)
(* "i", one of an identifier, "(", an opening bracket, or " ".             *)
(***************************************************************************)
EXTENDS Integers, Sequences, FiniteSets

CONSTANTS
    Wins,         \* acme windows
    Served,       \* those whose files have a language server
    NoWin,        \* no window
    Starts,       \* bound: where the cursors are when "L assist" starts
    MaxInputs,    \* bound: what the user does
    MaxCommands,  \* bound: runs of L
    MaxEdits      \* bound: edits of L

ASSUME AssistAssumption ==
    /\ Served \subseteq Wins /\ NoWin \notin Wins
    /\ Starts \subseteq 0..3
    /\ {MaxInputs, MaxCommands, MaxEdits} \subseteq Nat

VARIABLES
    \* acme
    open,      \* the windows there are
    body,      \* their texts
    dot,       \* their cursors
    addr,      \* their addresses, and who set them: history
    focus,     \* the window that has the focus
    log,       \* the events that notifyPosChange has not read
    used,      \* how much of each bound is used up
    \* "L assist"
    cmd,       \* the argument: "auto", or the kind of help
    fw,        \* the focused window, or NoWin
    pos,       \* the position of each window that was told last
    poll,      \* where notifyPosChange is, and the position to be told
    out,       \* the help that is shown
    \* both
    rc,        \* the RemoteCmd of each client
    strict,    \* whether the language server refuses texts without a version
    synced,    \* the texts that it has
    told,      \* history: the last notification, and whether its help is still due
    heard      \* history: the last position of each window that Assist was told

vars == <<open, body, dot, addr, focus, log, used, cmd, fw, pos, poll, out, rc, strict, synced,
          told, heard>>

acme == <<open, body, dot, focus, log, used>>
given == <<cmd, strict>>
follower == <<fw, pos, poll>>
history == <<told, heard>>

-----------------------------------------------------------------------------
Bodies == {<<"i", "i", "(">>, <<"(", " ", " ">>}
Clients == {"assist", "L"}
Positions == 0..3
Never == -1
NoPoll == [pc |-> "select", q0 |-> 0]
NoHelp == [win |-> NoWin, kind |-> "", at |-> 0, text |-> <<>>]
NoCmd == [pc |-> "idle", win |-> NoWin, q0 |-> 0, kind |-> "", text |-> <<>>, at |-> 0,
          to |-> NoWin]

\* The kind of help for a cursor between two letters, "" if there is none.
HelpType(left, right) ==
    IF {left, right} = {" "} THEN ""
    ELSE IF {left, right} = {"i"} THEN "hov"
    ELSE IF left = "(" THEN "sig"
    ELSE "comp"

Init ==
    /\ open = Wins
    /\ body = [w \in Wins |-> <<"i", "i", "(">>]
    /\ dot \in [Wins -> Starts]
    /\ addr = [w \in Wins |-> <<0, 0, "nobody">>]
    /\ focus = NoWin /\ log = <<>>
    /\ used = [inputs |-> 0, commands |-> 0, edits |-> 0]
    /\ cmd \in {"auto", "hov"}
    /\ fw = NoWin
    /\ pos = [w \in Wins |-> 0]
    /\ poll = NoPoll
    /\ out = NoHelp
    /\ rc = [c \in Clients |-> NoCmd]
    /\ strict \in BOOLEAN /\ synced = body
    /\ told = [win |-> NoWin, q0 |-> 0, still |-> FALSE]
    /\ heard = [w \in Wins |-> Never]

-----------------------------------------------------------------------------
(* The user.                                                               *)

Input ==
    /\ used.inputs < MaxInputs
    /\ used' = [used EXCEPT !.inputs = @ + 1]
    /\ UNCHANGED <<addr, given, follower, out, rc, synced, heard>>

\* The help that Assist has been told to show for w, if any, is no longer due.
Touched(w) == told' = IF told.win = w THEN [told EXCEPT !.still = FALSE] ELSE told

Focus(w) ==
    /\ Input /\ w \in open \ {focus}
    /\ focus' = w
    /\ log' = Append(log, [op |-> "focus", win |-> w])
    /\ UNCHANGED <<open, body, dot, told>>

Move(q) ==
    /\ Input /\ focus \in open /\ q # dot[focus]
    /\ dot' = [dot EXCEPT ![focus] = q]
    /\ Touched(focus)
    /\ UNCHANGED <<open, body, focus, log>>

Type(s) ==
    /\ Input /\ focus \in open /\ s # body[focus]
    /\ body' = [body EXCEPT ![focus] = s]
    /\ Touched(focus)
    /\ UNCHANGED <<open, dot, focus, log>>

\* Another event of the log about the window: it has been put, ...
Put ==
    /\ Input /\ focus \in open
    /\ log' = Append(log, [op |-> "put", win |-> focus])
    /\ UNCHANGED <<open, body, dot, focus, told>>

\* ... or deleted.
Delete ==
    /\ Input /\ focus \in open
    /\ open' = open \ {focus}
    /\ focus' = NoWin
    /\ log' = Append(log, [op |-> "del", win |-> focus])
    /\ UNCHANGED <<body, dot, told>>

-----------------------------------------------------------------------------
(* notifyPosChange.                                                        *)

\* An event of the log: every one but the focus of a served window makes it
\* forget the window.
Log ==
    /\ poll.pc = "select" /\ log # <<>>
    /\ fw' = IF Head(log).op = "focus" /\ Head(log).win \in Served THEN Head(log).win ELSE NoWin
    /\ log' = Tail(log)
    /\ UNCHANGED <<open, body, dot, focus, used, addr, given, pos, poll, out, rc, synced, history>>

\* "addr=dot", written to the window's ctl file.
AtDot(w) == <<dot[w], dot[w], "dot">>

\* A tick: the address is set to the cursor, ...
Tick ==
    /\ poll.pc = "select" /\ fw \in open
    /\ addr' = [addr EXCEPT ![fw] = AtDot(fw)]
    /\ poll' = [poll EXCEPT !.pc = "addr"]
    /\ UNCHANGED <<acme, given, fw, pos, out, rc, synced, history>>

SetQ0Unsent ==   \* what if the notification were dropped while Assist is busy
    /\ poll.pc = "addr"
    /\ IF fw \in open
       THEN LET q0 == addr[fw][1] IN
            /\ poll' = IF q0 = pos[fw] \/ rc["assist"].pc # "idle" THEN NoPoll
                       ELSE [pc |-> "send", q0 |-> q0]
            /\ pos' = [pos EXCEPT ![fw] = q0]
       ELSE poll' = NoPoll /\ UNCHANGED pos
    /\ UNCHANGED <<acme, addr, given, fw, out, rc, synced, history>>

\* ... and read; a position other than the last one is to be told.
SetQ0 ==
    /\ poll.pc = "addr"
    /\ IF fw \in open
       THEN LET q0 == addr[fw][1] IN
            /\ poll' = IF q0 = pos[fw] THEN NoPoll ELSE [pc |-> "send", q0 |-> q0]
            /\ pos' = [pos EXCEPT ![fw] = q0]
       ELSE poll' = NoPoll /\ UNCHANGED pos
    /\ UNCHANGED <<acme, addr, given, fw, out, rc, synced, history>>

-----------------------------------------------------------------------------
(* The clients.                                                            *)

\* Assist takes the notification.
Receive ==
    /\ poll.pc = "send" /\ rc["assist"].pc = "idle"
    /\ poll' = NoPoll
    /\ rc' = [rc EXCEPT !["assist"] =
                 [NoCmd EXCEPT !.pc = IF cmd = "auto" THEN "type" ELSE "read",
                               !.win = fw, !.q0 = poll.q0, !.kind = cmd]]
    /\ told' = [win |-> fw, q0 |-> poll.q0, still |-> fw \in open /\ dot[fw] = poll.q0]
    /\ heard' = [heard EXCEPT ![fw] = poll.q0]
    /\ UNCHANGED <<acme, addr, given, fw, pos, out, synced>>

\* The user runs an L command on the window w: one like "def", "comp -e" or
\* "rn" that asks for something at the cursor and may edit then, or "fmt".
RunL(w, kind) ==
    /\ rc["L"].pc = "idle" /\ w \in open \cap Served
    /\ used.commands < MaxCommands
    /\ used' = [used EXCEPT !.commands = @ + 1]
    /\ rc' = [rc EXCEPT !["L"] = [NoCmd EXCEPT !.pc = "read", !.win = w, !.kind = kind]]
    /\ UNCHANGED <<open, body, dot, focus, log, addr, given, follower, out, synced, history>>

Quits(c) == rc' = [rc EXCEPT ![c] = NoCmd]
Goes(c, pc) == rc' = [rc EXCEPT ![c].pc = pc]

\* readLeftRight: the address of the two letters is set, which fails at the
\* ends of the text, ...
LeftRight ==
    /\ rc["assist"].pc = "type"
    /\ LET w == rc["assist"].win
           q0 == rc["assist"].q0
       IN  IF w \in open /\ q0 > 0 /\ q0 < Len(body[w])
           THEN addr' = [addr EXCEPT ![w] = <<q0 - 1, q0 + 1, "assist">>] /\ Goes("assist", "xdata")
           ELSE Quits("assist") /\ UNCHANGED addr
    /\ UNCHANGED <<acme, given, follower, out, synced, history>>

\* ... and what is there is read, which moves the address to its end.
Xdata ==
    /\ rc["assist"].pc = "xdata"
    /\ LET w == rc["assist"].win
           r == SubSeq(body[w], addr[w][1] + 1, addr[w][2])
           kind == HelpType(r[1], r[2])
       IN  IF w \in open
           THEN /\ addr' = [addr EXCEPT ![w] = <<addr[w][2], addr[w][2], "assist">>]
                /\ IF Len(r) = 2 /\ kind # ""
                   THEN rc' = [rc EXCEPT !["assist"].pc = "read", !["assist"].kind = kind]
                   ELSE Quits("assist")
                /\ IF addr[w][3] = "assist" THEN UNCHANGED told ELSE Touched(w)
           ELSE Quits("assist") /\ UNCHANGED <<addr, told>>
    /\ UNCHANGED <<acme, given, follower, out, synced, heard>>

\* DidChange: the text of the window is read ...
ReadBody(c) ==
    /\ rc[c].pc = "read"
    /\ IF rc[c].win \in open
       THEN rc' = [rc EXCEPT ![c].pc = "send", ![c].text = body[rc[c].win]]
       ELSE Quits(c)
    /\ UNCHANGED <<acme, addr, given, follower, out, synced, history>>

\* What comes after the text: "fmt" asks for code actions, of which there may
\* be none, and the edits of the formatting come last.
Then(c) ==
    IF rc[c].kind \in {"fmt", "format"}
    THEN \E k \in {rc[c].kind, "format"} :
            rc' = [rc EXCEPT ![c].pc = "edit", ![c].kind = k, ![c].text = <<>>]
    ELSE rc' = [rc EXCEPT ![c].pc = "dot", ![c].text = <<>>]

SendNothing(c) ==   \* what if the text were not sent
    /\ rc[c].pc = "send"
    /\ out' = IF c = "assist" THEN NoHelp ELSE out
    /\ Then(c)
    /\ UNCHANGED <<acme, addr, given, follower, synced, history>>

\* ... and sent, without a version and whatever another client has sent since.
\* A strict server refuses it, as one that is not newer than what it has
\* (files.go:39-42).  Assist clears its window.
Send(c) ==
    /\ rc[c].pc = "send"
    /\ LET w == rc[c].win
           s == rc[c].text
       IN  IF strict
           THEN /\ IF c = "L" \/ s = synced[w] THEN UNCHANGED told ELSE Touched(w)
                /\ UNCHANGED synced
           ELSE /\ IF s = body[w] THEN UNCHANGED told ELSE Touched(w)
                /\ synced' = [synced EXCEPT ![w] = s]
    /\ out' = IF c = "assist" THEN NoHelp ELSE out
    /\ Then(c)
    /\ UNCHANGED <<acme, addr, given, follower, heard>>

DotUnset(c) ==   \* what if the address were read as it is
    /\ rc[c].pc = "dot"
    /\ IF rc[c].win \in open THEN Goes(c, "addr") ELSE Quits(c)
    /\ UNCHANGED <<acme, addr, given, follower, out, synced, history>>

\* CurrentAddr: the window's address is set to its cursor ...
Dot(c) ==
    /\ rc[c].pc = "dot"
    /\ LET w == rc[c].win IN
       IF w \in open
       THEN /\ addr' = [addr EXCEPT ![w] = AtDot(w)]
            /\ Goes(c, "addr")
       ELSE Quits(c) /\ UNCHANGED addr
    /\ UNCHANGED <<acme, given, follower, out, synced, history>>

\* ... and read.
ReadAddr(c) ==
    /\ rc[c].pc = "addr"
    /\ LET w == rc[c].win IN
       IF w \in open
       THEN /\ rc' = [rc EXCEPT ![c].pc = "ask", ![c].at = addr[w][1]]
            /\ IF c = "L" \/ addr[w][3] = "dot" THEN UNCHANGED told ELSE Touched(w)
       ELSE Quits(c) /\ UNCHANGED told
    /\ UNCHANGED <<acme, addr, given, follower, out, synced, heard>>

\* The request and its answer, of the text that the language server has.
Ask(c) ==
    /\ rc[c].pc = "ask"
    /\ out' = IF c = "assist"
              THEN [win |-> rc[c].win, kind |-> rc[c].kind, at |-> rc[c].at,
                    text |-> synced[rc[c].win]]
              ELSE out
    /\ IF c = "L" THEN rc' = [rc EXCEPT ![c].pc = "edit", ![c].at = 0] ELSE Quits(c)
    /\ UNCHANGED <<acme, addr, given, follower, synced, history>>

\* An edit of the answer: "rn" and the code actions of "fmt" edit any window,
\* its formatting its own.  WriteAt sets the window's address, ...
WriteAddr(v) ==
    /\ rc["L"].pc = "edit" /\ v \in open
    /\ rc["L"].kind \in {"rn", "fmt"} \/ v = rc["L"].win
    /\ used.edits < MaxEdits
    /\ used' = [used EXCEPT !.edits = @ + 1]
    /\ addr' = [addr EXCEPT ![v] = <<1, 3, "L">>]
    /\ rc' = [rc EXCEPT !["L"].pc = "write", !["L"].to = v]
    /\ UNCHANGED <<open, body, dot, focus, log, given, follower, out, synced, history>>

\* ... and what is at the address, wherever another client may have set it
\* since, is replaced by as many letters; a cursor that was there goes to
\* their end, as the address does.
WriteData ==
    /\ rc["L"].pc = "write"
    /\ LET v == rc["L"].to IN
       IF v \in open
       THEN /\ \E s \in Bodies : body' = [body EXCEPT ![v] = s]
            /\ dot' = [dot EXCEPT ![v] = IF @ \in addr[v][1]..addr[v][2] THEN addr[v][2] ELSE @]
            /\ addr' = [addr EXCEPT ![v] = <<addr[v][2], addr[v][2], "L">>]
            /\ Touched(v)
       ELSE UNCHANGED <<body, dot, addr, told>>
    /\ rc' = [rc EXCEPT !["L"].pc = "edit", !["L"].to = NoWin]
    /\ UNCHANGED <<open, focus, log, used, given, follower, out, synced, heard>>

\* The last edit has been made.  After those of its code actions "fmt" sends
\* the text again.
EndEdits ==
    /\ rc["L"].pc = "edit"
    /\ IF rc["L"].kind = "fmt" THEN rc' = [rc EXCEPT !["L"].pc = "read", !["L"].kind = "format"]
       ELSE Quits("L")
    /\ UNCHANGED <<acme, addr, given, follower, out, synced, history>>

-----------------------------------------------------------------------------
User == \/ \E w \in Wins : Focus(w)
        \/ \E w \in Wins, kind \in {"rn", "fmt"} : RunL(w, kind)
        \/ \E q \in Positions : Move(q)
        \/ \E s \in Bodies : Type(s)
        \/ Put \/ Delete
Follow == Log \/ Tick \/ SetQ0
Client(c) == ReadBody(c) \/ Send(c) \/ Dot(c) \/ ReadAddr(c) \/ Ask(c)
Edits == WriteData \/ EndEdits \/ \E v \in Wins : WriteAddr(v)
Loop == Receive \/ LeftRight \/ Xdata \/ Client("assist")

Next == User \/ Follow \/ Loop \/ Client("L") \/ Edits

Spec == Init /\ [][Next]_vars

\* The goroutines run, and select takes neither the log nor the ticker for
\* ever.
FairSpec ==
    /\ Spec
    /\ SF_vars(Log) /\ SF_vars(Tick) /\ WF_vars(SetQ0)
    /\ WF_vars(Loop) /\ WF_vars(Client("L") \/ Edits)

-----------------------------------------------------------------------------
TypeOK ==
    /\ open \subseteq Wins /\ focus \in open \cup {NoWin}
    /\ body \in [Wins -> Bodies] /\ synced \in [Wins -> Bodies]
    /\ dot \in [Wins -> Positions] /\ pos \in [Wins -> Positions]
    /\ heard \in [Wins -> Positions \cup {Never}]
    /\ addr \in [Wins -> Positions \X Positions \X {"nobody", "dot", "assist", "L"}]
    /\ log \in Seq([op : {"focus", "put", "del"}, win : Wins])
    /\ used \in [inputs : 0..MaxInputs, commands : 0..MaxCommands, edits : 0..MaxEdits]
    /\ cmd \in {"auto", "hov"} /\ strict \in BOOLEAN /\ fw \in Served \cup {NoWin}
    /\ poll \in [pc : {"select", "addr", "send"}, q0 : Positions]
    /\ rc \in [Clients -> [pc : {"idle", "type", "xdata", "read", "send", "dot", "addr", "ask",
                                 "edit", "write"},
                           win : Served \cup {NoWin}, q0 : Positions,
                           kind : {"", "auto", "comp", "sig", "hov", "rn", "fmt", "format"},
                           text : Bodies \cup {<<>>}, at : Positions, to : Wins \cup {NoWin}]]
    /\ told \in [win : Served \cup {NoWin}, q0 : Positions, still : BOOLEAN]

\* The kind of help that is due at q0 in w.
Due(w, q0) == IF cmd # "auto" THEN cmd
              ELSE IF q0 \in 1..(Len(body[w]) - 1) THEN HelpType(body[w][q0], body[w][q0 + 1])
              ELSE ""

\* When Assist waits, it shows the help for the position of the last
\* notification, in the text as it is and of the kind that is due there, unless
\* since then somebody has touched the window, another client has moved the
\* address under Assist's reading, an older text of L has come to the server, or
\* the server has refused Assist's (assist.go:198-245).
HelpIsOfThePlaceTold ==
    (/\ rc["assist"].pc = "idle" /\ told.still /\ told.win \in open
     /\ Due(told.win, told.q0) # "")
       => out = [win |-> told.win, kind |-> Due(told.win, told.q0), at |-> told.q0,
                 text |-> body[told.win]]

\* CurrentAddr has set the address of w to the cursor and reads it next.
Reads(reader, w) == IF reader = "poll" THEN poll.pc = "addr" /\ fw = w
                    ELSE rc[reader].pc = "addr" /\ rc[reader].win = w

\* What CurrentAddr is about to read is the cursor that it has set the address
\* to (internal/acmeutil/acme.go:64-75), however many poll the window, but for
\* two cases: readLeftRight has set the address in between, which only "auto"
\* calls and which misleads the poller or L and never Assist itself; or
\* WriteAt has (internal/acmeutil/acme.go:93-98), for an edit of L, which
\* misleads Assist or its poller and never L itself.
OnlyOthersMislead ==
    \A w \in open, reader \in {"poll", "assist", "L"} : Reads(reader, w) =>
        \/ addr[w][3] = "dot"
        \/ addr[w][3] = "assist" /\ cmd = "auto" /\ reader # "assist"
        \/ addr[w][3] = "L" /\ used.edits > 0 /\ reader # "L"

\* In the end the position of the window that is followed has been told
\* (assist.go:78-110): no notification is lost while Assist is busy, or the
\* user moves on to another window.  There are two exceptions.  A cursor that
\* has been at 0 since the window was first followed is not told: that is the
\* position pos has of a window it does not know.  And a ticker that fires
\* for ever between the two steps of readLeftRight tells a position next to
\* the cursor, and the right one at the next tick, each of which calls
\* readLeftRight.
PositionIsTold ==
    \/ <>[](fw \in open => heard[fw] = dot[fw] \/ (heard[fw] = Never /\ dot[fw] = 0))
    \/ []<>(poll.pc = "addr" /\ fw \in open /\ addr[fw][3] = "assist")

\* CurrentAddr returns the address of the current selection
\* (internal/acmeutil/acme.go:64).
CurrentAddrIsTheCursor ==
    \A w \in open, reader \in {"poll", "assist", "L"} : Reads(reader, w) => addr[w][3] = "dot"

=============================================================================
