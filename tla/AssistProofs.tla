---------------------------- MODULE AssistProofs ----------------------------
(* Theorems about Assist, for any windows and bounds.                      *)
EXTENDS Assist, TLAPS, SequenceTheorems

-----------------------------------------------------------------------------
(* The inductive invariant.                                                *)

A == rc["assist"]
Asking == {"read", "send", "dot", "addr", "ask"}

\* Who is at work has a window, and Assist that of the last notification.
WorkInv ==
    /\ poll.pc # "select" => fw \in Served
    /\ \A c \in Clients : rc[c].pc # "idle" => rc[c].win \in Served
    /\ rc["L"].pc \notin {"type", "xdata"}
    /\ rc["L"].pc = "write" => rc["L"].to \in Wins
    /\ A.pc # "idle" => A.win = told.win /\ A.q0 = told.q0
    /\ A.pc \in {"type", "xdata"} => cmd = "auto"
    /\ \A c \in Clients : rc[c].pc = "send" => rc[c].text \in Bodies
    /\ told.still => told.win \in Served

\* Only "auto" has Assist set addresses, and only edits L; and who is about to
\* read an address has set it to the cursor itself, or another has set it.
AddrInv ==
    /\ \A w \in Wins : addr[w][3] = "assist" => cmd = "auto"
    /\ \A w \in Wins : addr[w][3] = "L" => used.edits > 0
    /\ rc["L"].pc = "write" => used.edits > 0
    /\ poll.pc = "addr" => addr[fw][3] # "nobody"
    /\ \A c \in Clients : rc[c].pc = "addr" => addr[rc[c].win][3] \notin {"nobody", c}

\* The help for the last notification is due.
Still == told.still /\ told.win \in open
Help == [win |-> told.win, kind |-> Due(told.win, told.q0), at |-> told.q0,
         text |-> body[told.win]]

\* What Assist holds then, step by step.
HelpInv ==
    Still =>
        /\ dot[told.win] = told.q0
        /\ A.pc = "idle" /\ Due(told.win, told.q0) # "" => out = Help
        /\ A.pc = "xdata" =>
              /\ told.q0 \in 1..2
              /\ addr[told.win][3] = "assist" =>
                    addr[told.win] = <<told.q0 - 1, told.q0 + 1, "assist">>
        /\ A.pc \in Asking => A.kind = Due(told.win, told.q0)
        /\ A.pc = "send" => A.text = body[told.win]
        /\ A.pc \in {"dot", "addr", "ask"} => synced[told.win] = body[told.win]
        /\ A.pc = "addr" /\ addr[told.win][3] = "dot" =>
              addr[told.win] = <<told.q0, told.q0, "dot">>
        /\ A.pc = "ask" => A.at = told.q0

Inv == TypeOK /\ WorkInv /\ AddrInv /\ HelpInv

-----------------------------------------------------------------------------
(* Types.                                                                  *)

Steps == {"idle", "type", "xdata", "read", "send", "dot", "addr", "ask", "edit", "write"}
Kinds == {"", "auto", "comp", "sig", "hov", "rn", "fmt", "format"}
Commands == [pc : Steps, win : Served \cup {NoWin}, q0 : Positions, kind : Kinds,
             text : Bodies \cup {<<>>}, at : Positions, to : Wins \cup {NoWin}]

Letters == {"i", "(", " "}
Used == [inputs : 0..MaxInputs, commands : 0..MaxCommands, edits : 0..MaxEdits]
Events == [op : {"focus", "put", "del"}, win : Wins]
Setters == {"nobody", "dot", "assist", "L"}
Addresses == Positions \X Positions \X Setters
Polls == [pc : {"select", "addr", "send"}, q0 : Positions]
Tolds == [win : Served \cup {NoWin}, q0 : Positions, still : BOOLEAN]

\* The types of the variables, one by one.
Types ==
    /\ open \subseteq Wins
    /\ focus \in open \cup {NoWin}
    /\ body \in [Wins -> Bodies]
    /\ synced \in [Wins -> Bodies]
    /\ dot \in [Wins -> Positions]
    /\ pos \in [Wins -> Positions]
    /\ heard \in [Wins -> Positions \cup {Never}]
    /\ addr \in [Wins -> Addresses]
    /\ log \in Seq(Events)
    /\ used \in Used
    /\ cmd \in {"auto", "hov"}
    /\ strict \in BOOLEAN
    /\ fw \in Served \cup {NoWin}
    /\ poll \in Polls
    /\ rc \in [Clients -> Commands]
    /\ told \in Tolds

LEMMA SameTypes == TypeOK <=> Types
  BY DEF TypeOK, Types, Addresses, Setters, Events, Used, Polls, Commands, Steps, Kinds, Tolds

LEMMA Constants ==
    /\ MaxInputs \in Nat /\ MaxCommands \in Nat /\ MaxEdits \in Nat
    /\ Served \subseteq Wins /\ NoWin \notin Wins
    /\ Starts \subseteq Positions
    /\ "assist" \in Clients /\ "L" \in Clients /\ \A c \in Clients : c = "assist" \/ c = "L"
  BY AssistAssumption DEF Clients, Positions

LEMMA TextTypes ==
    ASSUME NEW s \in Bodies
    PROVE  Len(s) = 3 /\ s \in Seq(Letters) /\ DOMAIN s = 1..3
  <1>0. s = <<"i", "i", "(">> \/ s = <<"(", " ", " ">>
    BY DEF Bodies
  <1>1. Len(s) = 3
    <2>1. Len(<<"i", "i", "(">>) = 3 /\ Len(<<"(", " ", " ">>) = 3
      OBVIOUS
    <2> QED
      BY <1>0, <2>1
  <1>2. s \in Seq(Letters)
    <2>1. <<"i", "i", "(">> \in Seq(Letters)
      BY DEF Letters
    <2>2. <<"(", " ", " ">> \in Seq(Letters)
      BY DEF Letters
    <2> QED
      BY <1>0, <2>1, <2>2
  <1> QED
    BY <1>1, <1>2

LEMMA HelpTypes == \A l, r : HelpType(l, r) \in {"", "hov", "sig", "comp"}
  BY DEF HelpType

\* Commands whose fields change.
LEMMA Changes ==
    /\ NoCmd \in Commands
    /\ \A r \in Commands, p \in Steps : [r EXCEPT !.pc = p] \in Commands
    /\ \A r \in Commands, p \in Steps, k \in Kinds : [r EXCEPT !.pc = p, !.kind = k] \in Commands
    /\ \A r \in Commands, s \in Bodies : [r EXCEPT !.pc = "send", !.text = s] \in Commands
    /\ \A r \in Commands, k \in Kinds :
            [r EXCEPT !.pc = "edit", !.kind = k, !.text = <<>>] \in Commands
    /\ \A r \in Commands : [r EXCEPT !.pc = "dot", !.text = <<>>] \in Commands
    /\ \A r \in Commands, p \in Steps, q \in Positions : [r EXCEPT !.pc = p, !.at = q] \in Commands
    /\ \A r \in Commands, p \in Steps, w \in Wins \cup {NoWin} :
            [r EXCEPT !.pc = p, !.to = w] \in Commands
  <1>1. NoCmd \in Commands
    BY DEF NoCmd, Commands, Positions, Steps, Kinds
  <1>2. \A r \in Commands, p \in Steps : [r EXCEPT !.pc = p] \in Commands
    BY DEF Commands
  <1>3. \A r \in Commands, p \in Steps, k \in Kinds : [r EXCEPT !.pc = p, !.kind = k] \in Commands
    BY DEF Commands
  <1>4. \A r \in Commands, s \in Bodies : [r EXCEPT !.pc = "send", !.text = s] \in Commands
    BY DEF Commands, Steps
  <1>5. \A r \in Commands, k \in Kinds :
            [r EXCEPT !.pc = "edit", !.kind = k, !.text = <<>>] \in Commands
    BY DEF Commands, Steps
  <1>6. \A r \in Commands : [r EXCEPT !.pc = "dot", !.text = <<>>] \in Commands
    BY DEF Commands, Steps
  <1>7. \A r \in Commands, p \in Steps, q \in Positions : [r EXCEPT !.pc = p, !.at = q] \in Commands
    BY DEF Commands
  <1>8. \A r \in Commands, p \in Steps, w \in Wins \cup {NoWin} :
            [r EXCEPT !.pc = p, !.to = w] \in Commands
    BY DEF Commands
  <1> QED
    BY <1>1, <1>2, <1>3, <1>4, <1>5, <1>6, <1>7, <1>8

LEMMA NewCommands ==
    ASSUME NEW w \in Served \cup {NoWin}
    PROVE  /\ \A k \in Kinds : [NoCmd EXCEPT !.pc = "read", !.win = w, !.kind = k] \in Commands
           /\ \A p \in {"type", "read"}, q \in Positions, k \in {"auto", "hov"} :
                 [NoCmd EXCEPT !.pc = p, !.win = w, !.q0 = q, !.kind = k] \in Commands
  <1>1. NoCmd \in Commands
    BY Changes
  <1>2. \A k \in Kinds : [NoCmd EXCEPT !.pc = "read", !.win = w, !.kind = k] \in Commands
    BY <1>1 DEF Commands, Steps
  <1>3. ASSUME NEW p \in {"type", "read"}, NEW q \in Positions, NEW k \in {"auto", "hov"}
        PROVE  [NoCmd EXCEPT !.pc = p, !.win = w, !.q0 = q, !.kind = k] \in Commands
    BY <1>1 DEF Commands, Steps, Kinds
  <1> QED
    BY <1>2, <1>3

\* What has been told keeps its type, and is due no longer where it changes.
LEMMA TouchedTypes ==
    ASSUME TypeOK, NEW w, Touched(w)
    PROVE  /\ told' \in Tolds /\ told'.win = told.win /\ told'.q0 = told.q0
           /\ told' = told \/ told'.still = FALSE
           /\ told'.still => told' = told /\ (told.still => told.win # w)
  <1>1. told \in Tolds
    BY SameTypes DEF Types
  <1>2. [told EXCEPT !.still = FALSE] \in Tolds
    BY <1>1 DEF Tolds
  <1> QED
    BY <1>1, <1>2 DEF Touched, Tolds

LEMMA InitTypes == Init => TypeOK /\ WorkInv
  <1> SUFFICES ASSUME Init PROVE Types /\ WorkInv
    BY SameTypes
  <1>0. 0 \in Positions
    BY DEF Positions
  <1>1. <<"i", "i", "(">> \in Bodies /\ <<0, 0, "nobody">> \in Addresses
    <2>1. <<"i", "i", "(">> \in Bodies
      BY DEF Bodies
    <2>2. <<0, 0, "nobody">> \in Addresses
      BY <1>0 DEF Addresses, Setters
    <2> QED
      BY <2>1, <2>2
  <1>2. /\ body \in [Wins -> Bodies] /\ synced \in [Wins -> Bodies]
        /\ dot \in [Wins -> Positions] /\ pos \in [Wins -> Positions]
        /\ heard \in [Wins -> Positions \cup {Never}] /\ addr \in [Wins -> Addresses]
    <2>1. /\ body = [w \in Wins |-> <<"i", "i", "(">>] /\ synced = body
          /\ dot \in [Wins -> Starts] /\ pos = [w \in Wins |-> 0]
          /\ heard = [w \in Wins |-> Never]
          /\ addr = [w \in Wins |-> <<0, 0, "nobody">>]
      BY DEF Init
    <2>2. body \in [Wins -> Bodies]
      BY <1>1, <2>1
    <2>3. /\ dot \in [Wins -> Positions] /\ pos \in [Wins -> Positions]
          /\ heard \in [Wins -> Positions \cup {Never}]
      BY <1>0, <2>1, Constants
    <2>4. addr \in [Wins -> Addresses]
      BY <1>1, <2>1
    <2> QED
      BY <2>1, <2>2, <2>3, <2>4
  <1>3. rc \in [Clients -> Commands] /\ \A c \in Clients : rc[c].pc = "idle"
    BY Changes DEF Init, NoCmd
  <1>4. used \in Used /\ poll \in Polls /\ poll.pc = "select"
    <2>1. used = [inputs |-> 0, commands |-> 0, edits |-> 0] /\ poll = [pc |-> "select", q0 |-> 0]
      BY DEF Init, NoPoll
    <2> QED
      BY <2>1, <1>0, Constants DEF Used, Polls
  <1>5. /\ open \subseteq Wins /\ focus \in open \cup {NoWin} /\ cmd \in {"auto", "hov"}
        /\ fw \in Served \cup {NoWin} /\ strict \in BOOLEAN
        /\ log \in Seq(Events)
    <2>1. open = Wins /\ focus = NoWin /\ fw = NoWin /\ log = <<>>
          /\ cmd \in {"auto", "hov"} /\ strict \in BOOLEAN
      BY DEF Init
    <2> QED
      BY <2>1
  <1>6. told \in Tolds /\ ~told.still
    BY <1>0 DEF Init, Tolds
  <1>7. WorkInv
    BY <1>3, <1>4, <1>6, Constants DEF WorkInv, A
  <1> QED
    BY <1>2, <1>3, <1>4, <1>5, <1>6, <1>7 DEF Types

LEMMA UserTypes ==
    ASSUME TypeOK, User
    PROVE  TypeOK'
  <1> Types
    BY SameTypes
  <1>1. UNCHANGED <<addr, cmd, strict, follower, synced, heard>>
    BY DEF User, Focus, RunL, Move, Type, Put, Delete, Input, history, given
  <1>2. used' \in Used
    <2>1. Input \/ \E w \in Wins, k \in {"rn", "fmt"} : RunL(w, k)
      BY DEF User, Focus, Move, Type, Put, Delete
    <2>2. used \in Used
      BY DEF Types
    <2>3. CASE Input
      BY <2>2, <2>3, Constants DEF Input, Used
    <2>4. CASE \E w \in Wins, k \in {"rn", "fmt"} : RunL(w, k)
      BY <2>2, <2>4, Constants DEF RunL, Used
    <2> QED
      BY <2>1, <2>3, <2>4
  <1>3. open' \subseteq Wins /\ focus' \in open' \cup {NoWin}
    <2>1. open \subseteq Wins /\ focus \in open \cup {NoWin}
      BY DEF Types
    <2> QED
      BY <2>1 DEF User, Focus, RunL, Move, Type, Put, Delete
  <1>4. body' \in [Wins -> Bodies]
    <2>1. body \in [Wins -> Bodies]
      BY DEF Types
    <2> QED
      BY <2>1 DEF User, Focus, RunL, Move, Type, Put, Delete
  <1>5. dot' \in [Wins -> Positions]
    <2>1. dot \in [Wins -> Positions]
      BY DEF Types
    <2> QED
      BY <2>1 DEF User, Focus, RunL, Move, Type, Put, Delete
  <1>6. log' \in Seq(Events)
    <2>1. log \in Seq(Events) /\ open \subseteq Wins
      BY DEF Types
    <2>2. log' = log \/ \E o \in {"focus", "put", "del"}, w \in Wins :
                            log' = Append(log, [op |-> o, win |-> w])
      BY <2>1 DEF User, Focus, RunL, Move, Type, Put, Delete
    <2>3. \A o \in {"focus", "put", "del"}, w \in Wins : [op |-> o, win |-> w] \in Events
      BY DEF Events
    <2>4. \A e \in Events : Append(log, e) \in Seq(Events)
      BY <2>1
    <2> QED
      BY <2>1, <2>2, <2>3, <2>4
  <1>7. rc' \in [Clients -> Commands]
    <2>1. rc \in [Clients -> Commands]
      BY DEF Types
    <2>2. rc' = rc \/ \E w \in Served, k \in Kinds : rc' = [rc EXCEPT !["L"] =
                            [NoCmd EXCEPT !.pc = "read", !.win = w, !.kind = k]]
      BY DEF User, Focus, RunL, Move, Type, Put, Delete, Input, Kinds
    <2>3. \A w \in Served, k \in Kinds :
            [NoCmd EXCEPT !.pc = "read", !.win = w, !.kind = k] \in Commands
      BY NewCommands
    <2> QED
      BY <2>1, <2>2, <2>3
  <1>8. told' \in Tolds
    <2>1. told \in Tolds
      BY DEF Types
    <2> QED
      BY <2>1, TouchedTypes DEF User, Focus, RunL, Move, Type, Put, Delete, history
  <1>9. Types'
    BY <1>1, <1>2, <1>3, <1>4, <1>5, <1>6, <1>7, <1>8 DEF Types, follower
  <1> QED
    BY <1>9, SameTypes, PTL

LEMMA FollowTypes ==
    ASSUME TypeOK, Follow
    PROVE  TypeOK'
  <1> Types
    BY SameTypes
  <1>1. UNCHANGED <<open, focus, body, dot, used, cmd, strict, rc, synced, heard, told>>
    BY DEF Follow, Log, Tick, SetQ0, acme, history, given
  <1>2. log' \in Seq(Events) /\ fw' \in Served \cup {NoWin}
    <2>1. log \in Seq(Events) /\ fw \in Served \cup {NoWin}
      BY DEF Types
    <2>2. CASE Log
      <3>1. Tail(log) \in Seq(Events)
        BY <2>1, <2>2 DEF Log
      <3> QED
        BY <2>2, <3>1 DEF Log
    <2>3. CASE Tick \/ SetQ0
      BY <2>1, <2>3 DEF Tick, SetQ0, acme
    <2> QED
      BY <2>2, <2>3 DEF Follow
  <1>3. addr' \in [Wins -> Addresses]
    <2>1. addr \in [Wins -> Addresses] /\ dot \in [Wins -> Positions] /\ open \subseteq Wins
      BY DEF Types
    <2>2. \A w \in open : AtDot(w) \in Addresses
      BY <2>1 DEF AtDot, Addresses, Setters
    <2>3. addr' = addr \/ \E w \in open : addr' = [addr EXCEPT ![w] = AtDot(w)]
      BY DEF Follow, Log, Tick, SetQ0
    <2> QED
      BY <2>1, <2>2, <2>3
  <1>4. fw \in open => addr[fw][1] \in Positions
    BY DEF Types, Addresses
  <1>5. pos' \in [Wins -> Positions]
    <2>1. pos \in [Wins -> Positions]
      BY DEF Types
    <2> QED
      BY <2>1, <1>4 DEF Follow, Log, Tick, SetQ0
  <1>6. poll' \in Polls
    <2>1. poll \in Polls /\ NoPoll \in Polls
      BY DEF Types, Polls, NoPoll, Positions
    <2>2. [poll EXCEPT !.pc = "addr"] \in Polls
      BY <2>1 DEF Polls
    <2>3. \A q \in Positions : [pc |-> "send", q0 |-> q] \in Polls
      BY DEF Polls
    <2> QED
      BY <2>1, <2>2, <2>3, <1>4 DEF Follow, Log, Tick, SetQ0
  <1>7. Types'
    BY <1>1, <1>2, <1>3, <1>5, <1>6 DEF Types
  <1> QED
    BY <1>7, SameTypes, PTL

LEMMA AssistTypes ==
    ASSUME TypeOK, WorkInv, Receive \/ LeftRight \/ Xdata
    PROVE  TypeOK'
  <1> Types
    BY SameTypes
  <1>0. /\ rc \in [Clients -> Commands] /\ A \in Commands
        /\ A.pc # "idle" => A.win \in Wins /\ A.q0 \in Positions
    BY Constants DEF Types, WorkInv, A, Commands
  <1>1. UNCHANGED <<open, focus, body, dot, used, log, cmd, strict, fw, pos, synced>>
    BY DEF Receive, LeftRight, Xdata, acme, follower, given
  <1>2. poll' \in Polls /\ heard' \in [Wins -> Positions \cup {Never}]
    <2>1. poll \in Polls /\ heard \in [Wins -> Positions \cup {Never}]
      BY DEF Types
    <2>2. poll.q0 \in Positions /\ NoPoll \in Polls
      BY <2>1 DEF Polls, NoPoll, Positions
    <2> QED
      BY <2>1, <2>2 DEF Receive, LeftRight, Xdata, follower, history
  <1>3. told' \in Tolds
    <2>1. told \in Tolds
      BY DEF Types
    <2>2. fw \in Served \cup {NoWin} /\ poll.q0 \in Positions
      BY DEF Types, Polls
    <2>3. CASE Receive
      <3>1. told' = [win |-> fw, q0 |-> poll.q0, still |-> fw \in open /\ dot[fw] = poll.q0]
        BY <2>3 DEF Receive
      <3> QED
        BY <2>2, <3>1 DEF Tolds
    <2>4. CASE LeftRight \/ Xdata
      <3>1. told' = told \/ Touched(rc["assist"].win)
        BY <2>4 DEF LeftRight, Xdata, history
      <3> QED
        BY <2>1, <3>1, TouchedTypes
    <2> QED
      BY <2>3, <2>4
  <1>4. rc' \in [Clients -> Commands]
    <2>1. CASE Receive
      <3>1. fw \in Served \cup {NoWin} /\ poll.q0 \in Positions /\ cmd \in {"auto", "hov"}
        BY DEF Types, Polls
      <3> DEFINE p == IF cmd = "auto" THEN "type" ELSE "read"
      <3>2. p \in {"type", "read"}
        OBVIOUS
      <3>3. [NoCmd EXCEPT !.pc = p, !.win = fw, !.q0 = poll.q0, !.kind = cmd] \in Commands
        BY <3>1, <3>2, NewCommands
      <3> QED
        BY <2>1, <3>3, <1>0 DEF Receive
    <2>2. CASE LeftRight
      BY <2>2, <1>0, Changes DEF LeftRight, Quits, Goes, A, Steps
    <2>3. CASE Xdata
      <3> DEFINE r == SubSeq(body[A.win], addr[A.win][1] + 1, addr[A.win][2])
                 k == HelpType(r[1], r[2])
      <3>1. k \in Kinds
        BY HelpTypes DEF Kinds
      <3>2. [A EXCEPT !.pc = "read", !.kind = k] \in Commands
        BY <1>0, <3>1, Changes DEF Steps
      <3> HIDE DEF k, r
      <3>3. rc' = [rc EXCEPT !["assist"] = NoCmd]
            \/ rc' = [rc EXCEPT !["assist"] = [A EXCEPT !.pc = "read", !.kind = k]]
        BY <2>3 DEF Xdata, Quits, A, k, r
      <3> QED
        BY <1>0, <3>2, <3>3, Changes
    <2> QED
      BY <2>1, <2>2, <2>3
  <1>5. addr' \in [Wins -> Addresses]
    <2>1. addr \in [Wins -> Addresses] /\ body \in [Wins -> Bodies] /\ open \subseteq Wins
      BY DEF Types
    <2>2. CASE Receive
      BY <2>1, <2>2 DEF Receive
    <2>3. CASE LeftRight
      <3>1. CASE A.win \in open /\ A.q0 > 0 /\ A.q0 < Len(body[A.win])
        <4>1. A.q0 \in 0..3 /\ Len(body[A.win]) = 3
          BY <1>0, <2>1, <2>3, <3>1, TextTypes DEF LeftRight, A, Positions
        <4>2. A.q0 - 1 \in Positions /\ A.q0 + 1 \in Positions
          BY <4>1, <3>1 DEF Positions
        <4>3. <<A.q0 - 1, A.q0 + 1, "assist">> \in Addresses
          BY <4>2 DEF Addresses, Setters
        <4>4. addr' = [addr EXCEPT ![A.win] = <<A.q0 - 1, A.q0 + 1, "assist">>]
          BY <2>3, <3>1 DEF LeftRight, A
        <4> QED
          BY <2>1, <4>3, <4>4
      <3>2. CASE ~(A.win \in open /\ A.q0 > 0 /\ A.q0 < Len(body[A.win]))
        BY <2>1, <2>3, <3>2 DEF LeftRight, A
      <3> QED
        BY <3>1, <3>2
    <2>4. CASE Xdata
      <3>1. A.win \in Wins
        BY <2>4, <1>0 DEF Xdata, A
      <3>2. <<addr[A.win][2], addr[A.win][2], "assist">> \in Addresses
        BY <2>1, <3>1 DEF Addresses, Setters
      <3>3. addr' = addr \/ addr' = [addr EXCEPT ![A.win] = <<addr[A.win][2], addr[A.win][2], "assist">>]
        BY <2>4 DEF Xdata, A
      <3> QED
        BY <2>1, <3>2, <3>3
    <2> QED
      BY <2>2, <2>3, <2>4
  <1>6. Types'
    BY <1>1, <1>2, <1>3, <1>4, <1>5 DEF Types
  <1> QED
    BY <1>6, SameTypes, PTL

\* What comes after the text.
LEMMA AfterTheText ==
    ASSUME TypeOK, NEW c \in Clients, Send(c)
    PROVE  \/ \E k \in Kinds :
                  rc' = [rc EXCEPT ![c] = [rc[c] EXCEPT !.pc = "edit", !.kind = k, !.text = <<>>]]
           \/ rc' = [rc EXCEPT ![c] = [rc[c] EXCEPT !.pc = "dot", !.text = <<>>]]
  <1>1. rc \in [Clients -> Commands] /\ Then(c)
    BY SameTypes DEF Types, Send
  <1>2. CASE rc[c].kind \in {"fmt", "format"}
    <2>1. PICK k \in {rc[c].kind, "format"} :
                rc' = [rc EXCEPT ![c].pc = "edit", ![c].kind = k, ![c].text = <<>>]
      BY <1>1, <1>2 DEF Then
    <2>2. k \in Kinds
      BY <1>2 DEF Kinds
    <2>3. rc' = [rc EXCEPT ![c] = [rc[c] EXCEPT !.pc = "edit", !.kind = k, !.text = <<>>]]
      BY <1>1, <2>1
    <2> QED
      BY <2>2, <2>3
  <1>3. CASE rc[c].kind \notin {"fmt", "format"}
    BY <1>1, <1>3 DEF Then
  <1> QED
    BY <1>2, <1>3

LEMMA ClientTypes ==
    ASSUME TypeOK, WorkInv, NEW c \in Clients, Client(c)
    PROVE  TypeOK'
  <1> Types
    BY SameTypes
  <1>0. /\ rc \in [Clients -> Commands] /\ rc[c] \in Commands
        /\ rc[c].pc # "idle" => rc[c].win \in Wins
        /\ rc[c].pc = "send" => rc[c].text \in Bodies
    BY Constants DEF Types, WorkInv
  <1>1. UNCHANGED <<acme, given, follower, heard>>
    BY DEF Client, ReadBody, Send, Dot, ReadAddr, Ask, history
  <1>2. told' \in Tolds
    <2>1. told \in Tolds
      BY DEF Types
    <2>2. told' = told \/ Touched(rc[c].win)
      BY DEF Client, ReadBody, Send, Dot, ReadAddr, Ask, history
    <2> QED
      BY <2>1, <2>2, TouchedTypes
  <1>3. synced' \in [Wins -> Bodies]
    <2>1. synced \in [Wins -> Bodies]
      BY DEF Types
    <2> QED
      BY <2>1, <1>0 DEF Client, ReadBody, Send, Dot, ReadAddr, Ask
  <1>4. addr' \in [Wins -> Addresses]
    <2>1. addr \in [Wins -> Addresses] /\ dot \in [Wins -> Positions]
      BY DEF Types
    <2>2. \A w \in Wins : AtDot(w) \in Addresses
      BY <2>1 DEF AtDot, Addresses, Setters
    <2>3. addr' = addr \/ addr' = [addr EXCEPT ![rc[c].win] = AtDot(rc[c].win)]
      BY DEF Client, ReadBody, Send, Dot, ReadAddr, Ask
    <2> QED
      BY <2>1, <2>2, <2>3
  <1>5. rc' \in [Clients -> Commands]
    <2>1. CASE ReadBody(c)
      <3>1. rc[c].win \in open => body[rc[c].win] \in Bodies
        BY DEF Types
      <3>2. \/ rc' = [rc EXCEPT ![c] = NoCmd]
            \/ /\ rc[c].win \in open
               /\ rc' = [rc EXCEPT ![c] = [rc[c] EXCEPT !.pc = "send", !.text = body[rc[c].win]]]
        BY <2>1, <1>0 DEF ReadBody, Quits
      <3>3. rc[c].win \in open =>
                [rc[c] EXCEPT !.pc = "send", !.text = body[rc[c].win]] \in Commands
        BY <3>1, <1>0, Changes
      <3> QED
        BY <3>2, <3>3, <1>0, Changes
    <2>2. CASE Send(c)
      <3>1. PICK r \in Commands : rc' = [rc EXCEPT ![c] = r]
        <4>1. \A k \in Kinds :
                [rc[c] EXCEPT !.pc = "edit", !.kind = k, !.text = <<>>] \in Commands
          BY <1>0, Changes
        <4>2. [rc[c] EXCEPT !.pc = "dot", !.text = <<>>] \in Commands
          BY <1>0, Changes
        <4> QED
          BY <2>2, <4>1, <4>2, AfterTheText
      <3> QED
        BY <3>1, <1>0
    <2>3. CASE Dot(c)
      BY <2>3, <1>0, Changes DEF Dot, Goes, Quits, Steps
    <2>4. CASE ReadAddr(c)
      <3>1. rc[c].win \in open => addr[rc[c].win][1] \in Positions
        BY DEF Types, Addresses
      <3>2. \/ rc' = [rc EXCEPT ![c] = NoCmd]
            \/ /\ rc[c].win \in open
               /\ rc' = [rc EXCEPT ![c] = [rc[c] EXCEPT !.pc = "ask", !.at = addr[rc[c].win][1]]]
        BY <2>4, <1>0 DEF ReadAddr, Quits
      <3>3. rc[c].win \in open =>
                [rc[c] EXCEPT !.pc = "ask", !.at = addr[rc[c].win][1]] \in Commands
        BY <3>1, <1>0, Changes DEF Steps
      <3> QED
        BY <3>2, <3>3, <1>0, Changes
    <2>5. CASE Ask(c)
      <3>1. 0 \in Positions /\ "edit" \in Steps
        BY DEF Positions, Steps
      <3> QED
        <4>1. \/ rc' = [rc EXCEPT ![c] = NoCmd]
              \/ rc' = [rc EXCEPT ![c] = [rc[c] EXCEPT !.pc = "edit", !.at = 0]]
          BY <2>5, <1>0 DEF Ask, Quits
        <4>2. [rc[c] EXCEPT !.pc = "edit", !.at = 0] \in Commands
          BY <1>0, <3>1, Changes
        <4> QED
          BY <4>1, <4>2, <1>0, Changes
    <2> QED
      BY <2>1, <2>2, <2>3, <2>4, <2>5 DEF Client
  <1>6. Types'
    BY <1>1, <1>2, <1>3, <1>4, <1>5 DEF Types, acme, follower, given
  <1> QED
    BY <1>6, SameTypes, PTL

LEMMA EditTypes ==
    ASSUME TypeOK, WorkInv, Edits
    PROVE  TypeOK'
  <1> Types
    BY SameTypes
  <1>0. /\ rc \in [Clients -> Commands] /\ rc["L"] \in Commands /\ "L" \in Clients
        /\ addr \in [Wins -> Addresses] /\ body \in [Wins -> Bodies]
        /\ dot \in [Wins -> Positions] /\ open \subseteq Wins
    BY Constants DEF Types
  <1>1. UNCHANGED <<open, focus, log, cmd, strict, follower, out, synced, heard>>
    BY DEF Edits, WriteAddr, WriteData, EndEdits, acme, given, history
  <1>2. CASE \E v \in Wins : WriteAddr(v)
    <2>1. PICK v \in Wins : WriteAddr(v)
      BY <1>2
    <2>2. used' \in Used
      <3>1. used \in Used /\ used' = [used EXCEPT !.edits = @ + 1] /\ used.edits < MaxEdits
        BY <2>1 DEF WriteAddr, Types
      <3> QED
        BY <3>1, Constants DEF Used
    <2>3. addr' \in [Wins -> Addresses]
      <3>1. <<1, 3, "L">> \in Addresses
        BY DEF Addresses, Positions, Setters
      <3> QED
        BY <2>1, <3>1, <1>0 DEF WriteAddr
    <2>4. rc' \in [Clients -> Commands]
      <3>1. [rc["L"] EXCEPT !.pc = "write", !.to = v] \in Commands
        BY <1>0, Changes DEF Steps
      <3> QED
        BY <2>1, <3>1, <1>0 DEF WriteAddr
    <2> QED
      <3>1. UNCHANGED <<body, dot, told>>
        BY <2>1 DEF WriteAddr, history
      <3>2. Types'
        BY <1>1, <2>2, <2>3, <2>4, <3>1 DEF Types, follower
      <3> QED
        BY <3>2, SameTypes, PTL
  <1>3. CASE WriteData
    <2> DEFINE v == rc["L"].to
    <2>1. v \in open => addr[v][2] \in Positions
      BY <1>0 DEF Addresses
    <2>2. body' \in [Wins -> Bodies]
      BY <1>3, <1>0 DEF WriteData
    <2>3. dot' \in [Wins -> Positions]
      BY <1>3, <1>0, <2>1 DEF WriteData
    <2>4. addr' \in [Wins -> Addresses]
      <3>1. v \in open => <<addr[v][2], addr[v][2], "L">> \in Addresses
        BY <2>1 DEF Addresses, Setters
      <3> QED
        BY <1>3, <1>0, <3>1 DEF WriteData
    <2>5. rc' \in [Clients -> Commands]
      <3>1. [rc["L"] EXCEPT !.pc = "edit", !.to = NoWin] \in Commands
        BY <1>0, Changes DEF Steps
      <3> QED
        BY <1>3, <3>1, <1>0 DEF WriteData
    <2>6. told' \in Tolds
      <3>1. told \in Tolds
        BY DEF Types
      <3> QED
        BY <1>3, <3>1, TouchedTypes DEF WriteData
    <2>7. Types'
      <3>1. used' = used
        BY <1>3 DEF WriteData
      <3> QED
        BY <1>1, <2>2, <2>3, <2>4, <2>5, <2>6, <3>1 DEF Types, follower
    <2> QED
      BY <2>7, SameTypes, PTL
  <1>4. CASE EndEdits
    <2>1. rc' \in [Clients -> Commands]
      <3>1. [rc["L"] EXCEPT !.pc = "read", !.kind = "format"] \in Commands
        BY <1>0, Changes DEF Steps, Kinds
      <3> QED
        BY <1>4, <3>1, <1>0, Changes DEF EndEdits, Quits
    <2>2. UNCHANGED <<body, dot, used, addr, told>>
      BY <1>4 DEF EndEdits, acme, history
    <2>3. Types'
      BY <1>1, <2>1, <2>2 DEF Types, follower
    <2> QED
      BY <2>3, SameTypes, PTL
  <1> QED
    BY <1>2, <1>3, <1>4 DEF Edits

LEMMA NextTypes ==
    ASSUME TypeOK, WorkInv, [Next]_vars
    PROVE  TypeOK'
  <1>1. CASE UNCHANGED vars
    <2>1. Types /\ (Types => Types')
      BY <1>1, SameTypes DEF vars, Types
    <2> QED
      BY <2>1, SameTypes, PTL
  <1> QED
    BY <1>1, Constants, UserTypes, FollowTypes, AssistTypes, ClientTypes, EditTypes
       DEF Next, Loop

-----------------------------------------------------------------------------
(* Who is at work.                                                         *)

\* What a step makes of the command of the client c.
LEMMA Commanded ==
    ASSUME TypeOK, NEW c \in Clients, Client(c)
    PROVE  /\ \A d \in Clients \ {c} : rc'[d] = rc[d]
           /\ rc[c].pc \in Asking
           /\ rc'[c].pc \in Asking \cup {"idle", "edit"}
           /\ rc'[c].pc # "idle" =>
                 /\ rc'[c].win = rc[c].win /\ rc'[c].q0 = rc[c].q0
                 /\ rc'[c].pc = "send" => rc[c].win \in open /\ rc'[c].text = body[rc[c].win]
  <1>0. rc \in [Clients -> Commands] /\ rc[c] \in Commands
    BY SameTypes DEF Types
  <1> DEFINE w == rc[c].win
  <1>1. \A r : rc' = [rc EXCEPT ![c] = r] => rc'[c] = r /\ \A d \in Clients \ {c} : rc'[d] = rc[d]
    BY <1>0
  <1>2. rc[c].pc \in Asking
    BY DEF Client, ReadBody, Send, Dot, ReadAddr, Ask, Asking
  <1>3. CASE rc' = [rc EXCEPT ![c] = NoCmd]
    BY <1>1, <1>2, <1>3 DEF NoCmd
  <1>4. CASE rc' = [rc EXCEPT ![c] = [rc[c] EXCEPT !.pc = "addr"]]
    BY <1>0, <1>1, <1>2, <1>4 DEF Commands, Asking
  <1>5. CASE w \in open /\ rc' = [rc EXCEPT ![c] = [rc[c] EXCEPT !.pc = "send", !.text = body[w]]]
    BY <1>0, <1>1, <1>2, <1>5 DEF Commands, Asking
  <1>6. CASE \E q : \E p \in {"ask", "edit"} :
                 rc' = [rc EXCEPT ![c] = [rc[c] EXCEPT !.pc = p, !.at = q]]
    <2>0. PICK q : \E p \in {"ask", "edit"} :
                       rc' = [rc EXCEPT ![c] = [rc[c] EXCEPT !.pc = p, !.at = q]]
      BY <1>6
    <2>1. PICK p \in {"ask", "edit"} : rc' = [rc EXCEPT ![c] = [rc[c] EXCEPT !.pc = p, !.at = q]]
      BY <2>0
    <2>2. rc'[c] = [rc[c] EXCEPT !.pc = p, !.at = q] /\ \A d \in Clients \ {c} : rc'[d] = rc[d]
      BY <1>1, <2>1
    <2> QED
      BY <1>0, <1>2, <2>2 DEF Commands, Asking
  <1>7. CASE \E k : rc' = [rc EXCEPT ![c] = [rc[c] EXCEPT !.pc = "edit", !.kind = k, !.text = <<>>]]
    <2>1. PICK k : rc' = [rc EXCEPT ![c] = [rc[c] EXCEPT !.pc = "edit", !.kind = k, !.text = <<>>]]
      BY <1>7
    <2>2. /\ rc'[c] = [rc[c] EXCEPT !.pc = "edit", !.kind = k, !.text = <<>>]
          /\ \A d \in Clients \ {c} : rc'[d] = rc[d]
      BY <1>1, <2>1
    <2> QED
      BY <1>0, <1>2, <2>2 DEF Commands, Asking
  <1>8. CASE rc' = [rc EXCEPT ![c] = [rc[c] EXCEPT !.pc = "dot", !.text = <<>>]]
    BY <1>0, <1>1, <1>2, <1>8 DEF Commands, Asking
  <1>9. \/ rc' = [rc EXCEPT ![c] = NoCmd]
        \/ rc' = [rc EXCEPT ![c] = [rc[c] EXCEPT !.pc = "addr"]]
        \/ w \in open /\ rc' = [rc EXCEPT ![c] = [rc[c] EXCEPT !.pc = "send", !.text = body[w]]]
        \/ \E q : \E p \in {"ask", "edit"} :
                 rc' = [rc EXCEPT ![c] = [rc[c] EXCEPT !.pc = p, !.at = q]]
        \/ \E k : rc' = [rc EXCEPT ![c] = [rc[c] EXCEPT !.pc = "edit", !.kind = k, !.text = <<>>]]
        \/ rc' = [rc EXCEPT ![c] = [rc[c] EXCEPT !.pc = "dot", !.text = <<>>]]
    <2>1. CASE ReadBody(c)
      BY <1>0, <2>1 DEF ReadBody, Quits
    <2>2. CASE Send(c)
      BY <2>2, AfterTheText
    <2>3. CASE Dot(c)
      BY <1>0, <2>3 DEF Dot, Goes, Quits
    <2>4. CASE ReadAddr(c)
      BY <1>0, <2>4 DEF ReadAddr, Quits
    <2>5. CASE Ask(c)
      BY <1>0, <2>5 DEF Ask, Quits
    <2> QED
      BY <2>1, <2>2, <2>3, <2>4, <2>5 DEF Client
  <1> QED
    BY <1>3, <1>4, <1>5, <1>6, <1>7, <1>8, <1>9

LEMMA ClientWork ==
    ASSUME TypeOK, WorkInv, NEW c \in Clients, Client(c)
    PROVE  WorkInv'
  <1>1. UNCHANGED <<poll, fw, cmd>>
    BY DEF Client, ReadBody, Send, Dot, ReadAddr, Ask, follower, given
  <1>2. told'.win = told.win /\ told'.q0 = told.q0 /\ (told'.still => told.still)
    <2>1. told' = told \/ Touched(rc[c].win)
      BY DEF Client, ReadBody, Send, Dot, ReadAddr, Ask, history
    <2> QED
      BY <2>1, TouchedTypes
  <1>3. rc'[c].pc = "send" => rc'[c].text \in Bodies
    BY Commanded, SameTypes DEF Types, Asking
  <1> QED
    BY <1>1, <1>2, <1>3, Commanded, Constants DEF WorkInv, A, Asking

LEMMA EditWork ==
    ASSUME TypeOK, WorkInv, Edits
    PROVE  WorkInv'
  <1>0. rc \in [Clients -> Commands] /\ "L" \in Clients /\ "assist" \in Clients
    BY SameTypes, Constants DEF Types
  <1>1. UNCHANGED <<poll, fw, cmd>>
    BY DEF Edits, WriteAddr, WriteData, EndEdits, follower, given
  <1>2. told'.win = told.win /\ told'.q0 = told.q0 /\ (told'.still => told.still)
    <2>1. told' = told \/ Touched(rc["L"].to)
      BY DEF Edits, WriteAddr, WriteData, EndEdits, history
    <2> QED
      BY <2>1, TouchedTypes
  <1>3. /\ rc'["assist"] = rc["assist"] /\ rc["L"].pc \in {"edit", "write"}
        /\ rc'["L"].pc \in {"idle", "read", "edit", "write"}
        /\ rc'["L"].pc # "idle" => rc'["L"].win = rc["L"].win
        /\ rc'["L"].pc = "write" => rc'["L"].to \in Wins
    <2>0. rc["L"] \in Commands /\ NoCmd.pc = "idle"
      BY <1>0 DEF NoCmd
    <2>1. CASE \E v \in Wins : WriteAddr(v)
      <3>1. PICK v \in Wins : WriteAddr(v)
        BY <2>1
      <3>2. /\ rc' = [rc EXCEPT !["L"] = [rc["L"] EXCEPT !.pc = "write", !.to = v]]
            /\ rc["L"].pc = "edit"
        BY <3>1 DEF WriteAddr
      <3> QED
        BY <1>0, <2>0, <3>2 DEF Commands
    <2>2. CASE WriteData
      <3>1. /\ rc' = [rc EXCEPT !["L"] = [rc["L"] EXCEPT !.pc = "edit", !.to = NoWin]]
            /\ rc["L"].pc = "write"
        BY <2>2 DEF WriteData
      <3> QED
        BY <1>0, <2>0, <3>1 DEF Commands
    <2>3. CASE EndEdits
      <3>1. /\ \/ rc' = [rc EXCEPT !["L"] = [rc["L"] EXCEPT !.pc = "read", !.kind = "format"]]
               \/ rc' = [rc EXCEPT !["L"] = NoCmd]
            /\ rc["L"].pc = "edit"
        BY <2>3 DEF EndEdits, Quits
      <3> QED
        BY <1>0, <2>0, <3>1 DEF Commands
    <2> QED
      BY <2>1, <2>2, <2>3 DEF Edits
  <1> QED
    BY <1>1, <1>2, <1>3, Constants DEF WorkInv, A

LEMMA NextWork ==
    ASSUME TypeOK, WorkInv, [Next]_vars
    PROVE  WorkInv'
  <1> Types
    BY SameTypes
  <1>0. rc \in [Clients -> Commands]
    BY DEF Types
  <1>1. CASE UNCHANGED vars
    BY <1>1 DEF vars, WorkInv, A
  <1>2. CASE \E w \in Wins, k \in {"rn", "fmt"} : RunL(w, k)
    <2>1. PICK w \in Served, k \in Kinds :
                rc' = [rc EXCEPT !["L"] = [NoCmd EXCEPT !.pc = "read", !.win = w, !.kind = k]]
      BY <1>2 DEF RunL, Kinds
    <2>2. UNCHANGED <<poll, fw, cmd, told>>
      BY <1>2 DEF RunL, follower, history, given
    <2>3. rc'["L"].pc = "read" /\ rc'["L"].win = w /\ A' = A /\ rc'["assist"] = rc["assist"]
      BY <1>0, <2>1, Constants DEF NoCmd, A
    <2> QED
      BY <2>2, <2>3, Constants DEF WorkInv, A
  <1>3. CASE \/ \E w \in Wins : Focus(w)
             \/ \E q \in Positions : Move(q)
             \/ \E s \in Bodies : Type(s)
             \/ Put \/ Delete
    <2>1. UNCHANGED <<poll, fw, cmd, rc>>
      BY <1>3 DEF Focus, Move, Type, Put, Delete, Input, follower, given
    <2>3. told'.win = told.win /\ told'.q0 = told.q0 /\ (told'.still => told.still)
      BY <1>3, TouchedTypes DEF Focus, Move, Type, Put, Delete
    <2> QED
      BY <2>1, <2>3 DEF WorkInv, A
  <1>4. CASE Follow
    <2>1. UNCHANGED <<cmd, told, rc>>
      BY <1>4 DEF Follow, Log, Tick, SetQ0, history, given
    <2>2. poll \in Polls /\ fw \in Served \cup {NoWin} /\ open \subseteq Wins
      BY DEF Types
    <2>3. poll'.pc # "select" => fw' \in Served
      <3>1. CASE Log
        BY <3>1 DEF Log
      <3>2. CASE Tick
        BY <3>2, <2>2, Constants DEF Tick
      <3>3. CASE SetQ0
        BY <3>3, <2>2, Constants DEF SetQ0, Polls, NoPoll
      <3> QED
        BY <1>4, <3>1, <3>2, <3>3 DEF Follow
    <2> QED
      BY <2>1, <2>3 DEF WorkInv, A
  <1>5. CASE Receive
    <2> DEFINE r == [NoCmd EXCEPT !.pc = IF cmd = "auto" THEN "type" ELSE "read",
                                  !.win = fw, !.q0 = poll.q0, !.kind = cmd]
    <2>1. rc' = [rc EXCEPT !["assist"] = r] /\ fw \in Served /\ poll.q0 \in Positions
      BY <1>5 DEF Receive, WorkInv, Types, Polls
    <2>2. /\ r.pc \in {"type", "read"} /\ (r.pc = "type" => cmd = "auto")
          /\ r.win = fw /\ r.q0 = poll.q0
      BY DEF NoCmd
    <2>3. A' = r /\ rc'["assist"] = r /\ rc'["L"] = rc["L"]
      BY <1>0, <2>1, Constants DEF A
    <2>4. poll'.pc = "select" /\ UNCHANGED <<fw, cmd>>
      BY <1>5 DEF Receive, NoPoll, given
    <2>5. told'.win = fw /\ told'.q0 = poll.q0
      BY <1>5, <2>1 DEF Receive
    <2> HIDE DEF r
    <2> QED
      BY <2>1, <2>2, <2>3, <2>4, <2>5, Constants DEF WorkInv
  <1>6. CASE LeftRight \/ Xdata
    <2>1. UNCHANGED <<poll, fw, cmd>>
      BY <1>6 DEF LeftRight, Xdata, follower, given
    <2>4. told'.win = told.win /\ told'.q0 = told.q0 /\ (told'.still => told.still)
      <3>1. told' = told \/ Touched(rc["assist"].win)
        BY <1>6 DEF LeftRight, Xdata, history
      <3> QED
        BY <3>1, TouchedTypes
    <2>2. /\ rc'["L"] = rc["L"] /\ A.pc # "idle" /\ A.pc \in {"type", "xdata"}
          /\ A'.pc # "idle" => /\ A'.win = A.win /\ A'.q0 = A.q0
                               /\ A'.pc \in {"xdata", "read"}
      <3>1. A \in Commands /\ A = rc["assist"] /\ NoCmd.pc = "idle"
        BY <1>0, Constants DEF A, NoCmd
      <3>2. PICK r : /\ rc' = [rc EXCEPT !["assist"] = r]
                     /\ \/ r = NoCmd
                        \/ r = [A EXCEPT !.pc = "xdata"]
                        \/ \E k : r = [A EXCEPT !.pc = "read", !.kind = k]
        <4>1. CASE LeftRight
          BY <4>1 DEF LeftRight, Quits, Goes, A
        <4>2. CASE Xdata
          <5> DEFINE t == SubSeq(body[A.win], addr[A.win][1] + 1, addr[A.win][2])
                     k == HelpType(t[1], t[2])
          <5>1. \/ rc' = [rc EXCEPT !["assist"] = NoCmd]
                \/ rc' = [rc EXCEPT !["assist"] = [A EXCEPT !.pc = "read", !.kind = k]]
            BY <4>2 DEF Xdata, Quits, A
          <5> HIDE DEF k
          <5> QED
            BY <5>1
        <4> QED
          BY <1>6, <4>1, <4>2
      <3>3. A' = r /\ rc'["L"] = rc["L"]
        BY <1>0, <3>2, Constants DEF A
      <3>4. r.pc # "idle" => r.win = A.win /\ r.q0 = A.q0 /\ r.pc \in {"xdata", "read"}
        BY <3>1, <3>2 DEF Commands
      <3>5. A.pc \in {"type", "xdata"}
        BY <1>6 DEF LeftRight, Xdata, A
      <3> QED
        BY <3>3, <3>4, <3>5
    <2> QED
      BY <2>1, <2>2, <2>4, Constants DEF WorkInv, A
  <1> QED
    BY <1>1, <1>2, <1>3, <1>4, <1>5, <1>6, ClientWork, EditWork, Constants
    DEF Next, User, Loop, Focus, Move, Type, Put, Delete

-----------------------------------------------------------------------------
(* The addresses.                                                          *)

\* A step that sets no address but to the cursor, or to what who sets it to,
\* and after which nobody reads an address who did not before.
Sets(who) ==
    /\ cmd' = cmd /\ used'.edits >= used.edits
    /\ \A w \in Wins : addr'[w][3] \in {addr[w][3], "dot", who}
    /\ poll'.pc = "addr" =>
            /\ fw' \in Wins
            /\ \/ poll.pc = "addr" /\ fw' = fw
               \/ addr'[fw'][3] = "dot"
    /\ \A c \in Clients : rc'[c].pc = "addr" =>
            /\ rc'[c].win \in Wins
            /\ \/ rc[c].pc = "addr" /\ rc'[c].win = rc[c].win /\ c # who
               \/ addr'[rc'[c].win][3] = "dot"
    /\ rc'["L"].pc = "write" => rc["L"].pc = "write" \/ used'.edits > 0

LEMMA KeptAddr ==
    ASSUME AddrInv, used.edits \in Nat, used'.edits \in Nat, NEW who \in {"dot", "assist", "L"},
           Sets(who), who = "assist" => cmd = "auto", who = "L" => used'.edits > 0
    PROVE  AddrInv'
  <1>1. \A w \in Wins : addr'[w][3] = "assist" => cmd' = "auto"
    BY DEF AddrInv, Sets
  <1>2. \A w \in Wins : addr'[w][3] = "L" => used'.edits > 0
    BY DEF AddrInv, Sets
  <1>3. rc'["L"].pc = "write" => used'.edits > 0
    BY DEF AddrInv, Sets
  <1>4. poll'.pc = "addr" => addr'[fw'][3] # "nobody"
    BY DEF AddrInv, Sets
  <1>5. \A c \in Clients : rc'[c].pc = "addr" => addr'[rc'[c].win][3] \notin {"nobody", c}
    <2> SUFFICES ASSUME NEW c \in Clients, rc'[c].pc = "addr"
                 PROVE  addr'[rc'[c].win][3] \notin {"nobody", c}
      OBVIOUS
    <2>1. c # "dot" /\ c # "nobody"
      BY DEF Clients
    <2>2. CASE addr'[rc'[c].win][3] = "dot"
      BY <2>1, <2>2
    <2>3. CASE rc[c].pc = "addr" /\ rc'[c].win = rc[c].win /\ c # who
      <3>1. /\ addr[rc[c].win][3] \notin {"nobody", c} /\ rc[c].win \in Wins
            /\ addr'[rc[c].win][3] \in {addr[rc[c].win][3], "dot", who}
        BY <2>3 DEF AddrInv, Sets
      <3> QED
        BY <2>1, <2>3, <3>1
    <2> QED
      BY <2>2, <2>3 DEF Sets
  <1> QED
    BY <1>1, <1>2, <1>3, <1>4, <1>5 DEF AddrInv

\* The address of a window that is set to its cursor.
LEMMA SetToDot ==
    ASSUME TypeOK, NEW w \in Wins, addr' = [addr EXCEPT ![w] = AtDot(w)]
    PROVE  addr'[w][3] = "dot" /\ \A v \in Wins : addr'[v][3] \in {addr[v][3], "dot"}
  <1>1. addr \in [Wins -> Addresses]
    BY SameTypes DEF Types
  <1>2. AtDot(w)[3] = "dot"
    BY DEF AtDot
  <1> QED
    BY <1>1, <1>2

LEMMA ClientAddr ==
    ASSUME TypeOK, WorkInv, NEW c \in Clients, Client(c)
    PROVE  Sets("dot")
  <1>0. /\ rc \in [Clients -> Commands] /\ rc[c] \in Commands /\ used.edits \in Nat
        /\ NoCmd.pc = "idle"
    BY SameTypes, Constants DEF Types, Used, NoCmd
  <1>1. UNCHANGED <<cmd, used, poll, fw>>
    BY DEF Client, ReadBody, Send, Dot, ReadAddr, Ask, follower, given, acme
  <1>2. /\ rc[c].win \in Wins /\ (poll.pc = "addr" => fw \in Wins)
        /\ \A d \in Clients : rc[d].pc # "idle" => rc[d].win \in Wins
    BY Commanded, Constants DEF WorkInv, Asking
  <1>3. addr' = addr \/ addr' = [addr EXCEPT ![rc[c].win] = AtDot(rc[c].win)]
    BY DEF Client, ReadBody, Send, Dot, ReadAddr, Ask
  <1>4. \A w \in Wins : addr'[w][3] \in {addr[w][3], "dot"}
    BY <1>2, <1>3, SetToDot
  <1>5. rc'[c].pc = "addr" => rc'[c].win = rc[c].win /\ addr'[rc[c].win][3] = "dot"
    <2>1. CASE Dot(c)
      <3>1. \/ rc' = [rc EXCEPT ![c] = NoCmd]
            \/ addr' = [addr EXCEPT ![rc[c].win] = AtDot(rc[c].win)]
        BY <2>1 DEF Dot, Quits
      <3>2. CASE rc' = [rc EXCEPT ![c] = NoCmd]
        BY <1>0, <3>2
      <3>3. CASE addr' = [addr EXCEPT ![rc[c].win] = AtDot(rc[c].win)]
        BY <1>2, <3>3, SetToDot, Commanded
      <3> QED
        BY <3>1, <3>2, <3>3
    <2>2. CASE ReadBody(c) \/ Send(c) \/ ReadAddr(c) \/ Ask(c)
      <3>1. \A x : rc' = [rc EXCEPT ![c] = x] => rc'[c] = x
        BY <1>0
      <3>2. ReadBody(c) => rc'[c] = NoCmd
                           \/ rc'[c] = [rc[c] EXCEPT !.pc = "send", !.text = body[rc[c].win]]
        BY <3>1 DEF ReadBody, Quits
      <3>3. Send(c) => rc'[c].pc # "addr"
        <4> SUFFICES ASSUME Send(c) PROVE rc'[c].pc # "addr"
          OBVIOUS
        <4>1. \/ \E k \in Kinds :
                    rc'[c] = [rc[c] EXCEPT !.pc = "edit", !.kind = k, !.text = <<>>]
              \/ rc'[c] = [rc[c] EXCEPT !.pc = "dot", !.text = <<>>]
          BY <3>1, AfterTheText
        <4> QED
          BY <1>0, <4>1 DEF Commands
      <3>4. ReadAddr(c) => rc'[c] = NoCmd
                           \/ rc'[c] = [rc[c] EXCEPT !.pc = "ask", !.at = addr[rc[c].win][1]]
        BY <3>1 DEF ReadAddr, Quits
      <3>5. Ask(c) => rc'[c] = NoCmd \/ rc'[c] = [rc[c] EXCEPT !.pc = "edit", !.at = 0]
        BY <3>1 DEF Ask, Quits
      <3> QED
        BY <2>2, <1>0, <3>2, <3>3, <3>4, <3>5 DEF Commands
    <2> QED
      BY <2>1, <2>2 DEF Client
  <1>6. /\ \A d \in Clients \ {c} : rc'[d] = rc[d]
        /\ rc'[c].pc # "write"
    BY Commanded DEF Asking
  <1>7. \A d \in Clients : rc'[d].pc = "addr" =>
            /\ rc'[d].win \in Wins
            /\ \/ rc[d].pc = "addr" /\ rc'[d].win = rc[d].win /\ d # "dot"
               \/ addr'[rc'[d].win][3] = "dot"
    BY <1>2, <1>5, <1>6, Constants
  <1>8. used'.edits >= used.edits
    BY <1>0, <1>1
  <1>9. rc'["L"].pc = "write" => rc["L"].pc = "write"
    BY <1>6, Constants
  <1> QED
    BY <1>1, <1>2, <1>4, <1>7, <1>8, <1>9 DEF Sets

LEMMA EditAddr ==
    ASSUME TypeOK, WorkInv, AddrInv, Edits
    PROVE  \/ Sets("dot")
           \/ Sets("L") /\ used'.edits > 0
  <1>0. /\ rc \in [Clients -> Commands] /\ "L" \in Clients /\ used \in Used
        /\ addr \in [Wins -> Addresses] /\ used.edits \in Nat
        /\ rc["L"] \in Commands /\ NoCmd.pc = "idle"
    BY SameTypes, Constants DEF Types, Used, NoCmd
  <1>1. UNCHANGED <<cmd, poll, fw>>
    BY DEF Edits, WriteAddr, WriteData, EndEdits, follower, given
  <1>2. /\ poll.pc = "addr" => fw \in Wins
        /\ \A d \in Clients : rc[d].pc # "idle" => rc[d].win \in Wins
    BY Constants DEF WorkInv
  <1>3. \A x : rc' = [rc EXCEPT !["L"] = x] => rc'["L"] = x /\ rc'["assist"] = rc["assist"]
    BY <1>0, Constants
  <1>4. \A v \in Wins, q0, q1 \in Positions : addr' = [addr EXCEPT ![v] = <<q0, q1, "L">>] =>
            \A w \in Wins : addr'[w][3] \in {addr[w][3], "dot", "L"}
    BY <1>0
  <1>5. ASSUME rc'["assist"] = rc["assist"], rc'["L"].pc # "addr"
        PROVE  \A d \in Clients : rc'[d].pc = "addr" =>
                   rc'[d].win \in Wins /\ rc[d].pc = "addr" /\ rc'[d].win = rc[d].win /\ d # "L"
    BY <1>2, <1>5, Constants
  <1>6. CASE \E v \in Wins : WriteAddr(v)
    <2>1. PICK v \in Wins : WriteAddr(v)
      BY <1>6
    <2>2. used' = [used EXCEPT !.edits = @ + 1] /\ addr' = [addr EXCEPT ![v] = <<1, 3, "L">>]
          /\ rc' = [rc EXCEPT !["L"] = [rc["L"] EXCEPT !.pc = "write", !.to = v]]
      BY <2>1 DEF WriteAddr
    <2>3. used'.edits > 0 /\ used'.edits >= used.edits
      BY <1>0, <2>2 DEF Used
    <2>4. rc'["L"].pc = "write" /\ rc'["assist"] = rc["assist"]
      BY <1>0, <1>3, <2>2 DEF Commands
    <2>5. \A w \in Wins : addr'[w][3] \in {addr[w][3], "dot", "L"}
      BY <1>4, <2>2 DEF Positions
    <2> QED
      BY <1>1, <1>2, <1>5, <2>3, <2>4, <2>5 DEF Sets
  <1>7. CASE WriteData
    <2> DEFINE v == rc["L"].to
    <2>1. used' = used /\ used'.edits > 0 /\ used'.edits >= used.edits
      BY <1>0, <1>7 DEF WriteData, AddrInv
    <2>2. rc' = [rc EXCEPT !["L"] = [rc["L"] EXCEPT !.pc = "edit", !.to = NoWin]]
      BY <1>7 DEF WriteData
    <2>3. rc'["L"].pc = "edit" /\ rc'["assist"] = rc["assist"]
      BY <1>0, <1>3, <2>2 DEF Commands
    <2>4. \A w \in Wins : addr'[w][3] \in {addr[w][3], "dot", "L"}
      <3>1. v \in Wins /\ addr[v][2] \in Positions
        BY <1>0, <1>7 DEF WriteData, WorkInv, Addresses
      <3>2. addr' = addr \/ addr' = [addr EXCEPT ![v] = <<addr[v][2], addr[v][2], "L">>]
        BY <1>7 DEF WriteData
      <3> QED
        BY <1>4, <3>1, <3>2
    <2> QED
      BY <1>1, <1>2, <1>5, <2>1, <2>3, <2>4 DEF Sets
  <1>8. CASE EndEdits
    <2>1. used' = used /\ addr' = addr /\ used'.edits >= used.edits
      BY <1>0, <1>8 DEF EndEdits, acme
    <2>2. \/ rc' = [rc EXCEPT !["L"] = [rc["L"] EXCEPT !.pc = "read", !.kind = "format"]]
          \/ rc' = [rc EXCEPT !["L"] = NoCmd]
      BY <1>8 DEF EndEdits, Quits
    <2>3. rc'["L"].pc \in {"read", "idle"} /\ rc'["assist"] = rc["assist"]
      BY <1>0, <1>3, <2>2 DEF Commands
    <2>4. \A d \in Clients : rc'[d].pc = "addr" =>
                   rc'[d].win \in Wins /\ rc[d].pc = "addr" /\ rc'[d].win = rc[d].win /\ d # "dot"
      BY <1>5, <2>3, Constants
    <2> QED
      BY <1>1, <1>2, <2>1, <2>3, <2>4 DEF Sets
  <1> QED
    BY <1>6, <1>7, <1>8 DEF Edits

LEMMA NextAddr ==
    ASSUME TypeOK, WorkInv, AddrInv, [Next]_vars
    PROVE  AddrInv'
  <1>0. /\ rc \in [Clients -> Commands] /\ addr \in [Wins -> Addresses] /\ used \in Used
        /\ used.edits \in Nat /\ open \subseteq Wins /\ NoCmd.pc = "idle"
    BY SameTypes, Constants DEF Types, Used, NoCmd
  <1>1. used'.edits \in Nat
    <2>1. Types'
      BY NextTypes, SameTypes, PTL
    <2> QED
      BY <2>1, Constants DEF Types, Used
  <1>2. /\ poll.pc = "addr" => fw \in Wins
        /\ \A d \in Clients : rc[d].pc # "idle" => rc[d].win \in Wins
        /\ A.pc \in {"type", "xdata"} => cmd = "auto"
    BY Constants DEF WorkInv
  <1>3. ASSUME UNCHANGED <<addr, cmd, poll, fw>>, used'.edits = used.edits,
               \A c \in Clients : rc'[c].pc \in {"addr", "write"} => rc'[c] = rc[c]
        PROVE  Sets("dot")
    BY <1>0, <1>2, <1>3, Constants DEF Sets
  <1>4. CASE UNCHANGED vars
    BY <1>0, <1>1, <1>3, <1>4, KeptAddr DEF vars
  <1>5. CASE User
    <2>1. UNCHANGED <<addr, cmd, poll, fw>> /\ used'.edits = used.edits
      BY <1>0, <1>5
      DEF User, Focus, RunL, Move, Type, Put, Delete, Input, follower, history, given, Used
    <2>2. \A c \in Clients : rc'[c].pc \in {"addr", "write"} => rc'[c] = rc[c]
      <3>1. CASE \E w \in Wins, k \in {"rn", "fmt"} : RunL(w, k)
        <4>1. PICK w \in Wins, k \in {"rn", "fmt"} : RunL(w, k)
          BY <3>1
        <4>2. rc' = [rc EXCEPT !["L"] = [NoCmd EXCEPT !.pc = "read", !.win = w, !.kind = k]]
          BY <4>1 DEF RunL
        <4>3. rc'["L"].pc = "read" /\ rc'["assist"] = rc["assist"]
          BY <4>2, <1>0, Constants DEF NoCmd
        <4> QED
          BY <4>3, Constants
      <3>2. CASE rc' = rc
        BY <3>2
      <3> QED
        BY <1>5, <3>1, <3>2 DEF User, Focus, Move, Type, Put, Delete, Input
    <2> QED
      BY <1>0, <1>1, <1>3, <2>1, <2>2, KeptAddr
  <1>6. CASE Log \/ SetQ0
    <2>1. UNCHANGED <<addr, cmd, used, rc>> /\ poll'.pc # "addr"
      BY <1>6 DEF Log, SetQ0, acme, given, NoPoll
    <2>2. Sets("dot")
      BY <1>0, <1>2, <2>1, Constants DEF Sets
    <2> QED
      BY <1>0, <1>1, <2>2, KeptAddr
  <1>7. CASE Tick
    <2>1. /\ fw \in Wins /\ addr' = [addr EXCEPT ![fw] = AtDot(fw)]
          /\ UNCHANGED <<cmd, used, rc, fw>>
      BY <1>0, <1>7 DEF Tick, acme, given
    <2>2. addr'[fw][3] = "dot" /\ \A v \in Wins : addr'[v][3] \in {addr[v][3], "dot"}
      BY <2>1, SetToDot
    <2>3. Sets("dot")
      BY <1>0, <1>2, <2>1, <2>2, Constants DEF Sets
    <2> QED
      BY <1>0, <1>1, <2>3, KeptAddr
  <1>8. CASE Receive
    <2> DEFINE r == [NoCmd EXCEPT !.pc = IF cmd = "auto" THEN "type" ELSE "read",
                                  !.win = fw, !.q0 = poll.q0, !.kind = cmd]
    <2>1. rc' = [rc EXCEPT !["assist"] = r] /\ r.pc \in {"type", "read"}
      BY <1>8 DEF Receive, NoCmd
    <2>2. rc'["assist"] = r /\ rc'["L"] = rc["L"]
      BY <1>0, <2>1, Constants
    <2>3. UNCHANGED <<addr, cmd, used, fw>> /\ poll'.pc = "select"
      BY <1>8 DEF Receive, NoPoll, acme, given
    <2> HIDE DEF r
    <2>4. Sets("dot")
      BY <1>0, <1>2, <2>1, <2>2, <2>3, Constants DEF Sets
    <2> QED
      BY <1>0, <1>1, <2>4, KeptAddr
  <1>9. CASE LeftRight \/ Xdata
    <2>1. UNCHANGED <<cmd, used, poll, fw>> /\ cmd = "auto" /\ rc["assist"].win \in Wins
      BY <1>2, <1>9, Constants DEF LeftRight, Xdata, acme, given, follower, A
    <2>2. \A w \in Wins : addr'[w][3] \in {addr[w][3], "dot", "assist"}
      <3>1. addr' = addr \/ \E q0, q1 : addr' = [addr EXCEPT ![rc["assist"].win] = <<q0, q1, "assist">>]
        BY <1>9 DEF LeftRight, Xdata
      <3> QED
        BY <1>0, <2>1, <3>1
    <2>3. rc'["L"] = rc["L"] /\ rc'["assist"].pc \in {"idle", "xdata", "read"}
      <3>0. A \in Commands /\ A = rc["assist"]
        BY <1>0, Constants DEF A
      <3>1. PICK x : /\ rc' = [rc EXCEPT !["assist"] = x]
                     /\ \/ x = NoCmd
                        \/ x = [A EXCEPT !.pc = "xdata"]
                        \/ \E k : x = [A EXCEPT !.pc = "read", !.kind = k]
        <4>1. CASE LeftRight
          BY <4>1 DEF LeftRight, Quits, Goes, A
        <4>2. CASE Xdata
          <5> DEFINE t == SubSeq(body[A.win], addr[A.win][1] + 1, addr[A.win][2])
                     k == HelpType(t[1], t[2])
          <5>1. \/ rc' = [rc EXCEPT !["assist"] = NoCmd]
                \/ rc' = [rc EXCEPT !["assist"] = [A EXCEPT !.pc = "read", !.kind = k]]
            BY <4>2 DEF Xdata, Quits, A
          <5> HIDE DEF k
          <5> QED
            BY <5>1
        <4> QED
          BY <1>9, <4>1, <4>2
      <3>2. x.pc \in {"idle", "xdata", "read"}
        BY <1>0, <3>0, <3>1 DEF Commands
      <3> QED
        BY <1>0, <3>1, <3>2, Constants
    <2>4. \A d \in Clients : rc'[d].pc = "addr" =>
                   rc'[d].win \in Wins /\ rc[d].pc = "addr" /\ rc'[d].win = rc[d].win /\ d # "assist"
      BY <1>2, <2>3, Constants
    <2>5. Sets("assist")
      BY <1>0, <1>2, <2>1, <2>2, <2>3, <2>4 DEF Sets
    <2> QED
      BY <1>0, <1>1, <2>1, <2>5, KeptAddr
  <1>10. ASSUME NEW c \in Clients, Client(c)
         PROVE  AddrInv'
    BY <1>0, <1>1, <1>10, ClientAddr, KeptAddr
  <1>11. CASE Edits
    BY <1>0, <1>1, <1>11, EditAddr, KeptAddr
  <1> QED
    BY <1>4, <1>5, <1>6, <1>7, <1>8, <1>9, <1>10, <1>11, Constants DEF Next, Follow, Loop

-----------------------------------------------------------------------------
(* The help.                                                               *)

\* A step that leaves Assist alone, and of the window it was told of changes
\* at most its address, to the cursor or for an edit, or what the server has of
\* it, to its text, while the help is due.
Apart ==
    /\ A' = A /\ out' = out /\ cmd' = cmd
    /\ Still' => /\ Still /\ told' = told
                 /\ body'[told.win] = body[told.win] /\ dot'[told.win] = dot[told.win]
                 /\ synced'[told.win] \in {synced[told.win], body[told.win]}
                 /\ \/ addr'[told.win] \in {addr[told.win], AtDot(told.win)}
                    \/ addr'[told.win][3] = "L"

LEMMA KeptApart ==
    ASSUME HelpInv, Apart
    PROVE  HelpInv'
  <1> SUFFICES ASSUME Still' PROVE HelpInv'
    BY DEF HelpInv
  <1>1. /\ A' = A /\ out' = out /\ cmd' = cmd /\ told' = told /\ Still
        /\ body'[told.win] = body[told.win] /\ dot'[told.win] = dot[told.win]
        /\ synced'[told.win] \in {synced[told.win], body[told.win]}
        /\ addr'[told.win] \in {addr[told.win], AtDot(told.win)} \/ addr'[told.win][3] = "L"
    BY DEF Apart
  <1>2. AtDot(told.win) = <<told.q0, told.q0, "dot">> /\ AtDot(told.win)[3] = "dot"
    BY <1>1 DEF HelpInv, AtDot
  <1>3. Due(told.win, told.q0)' = Due(told.win, told.q0) /\ Help' = Help
    BY <1>1 DEF Due, Help
  <1> QED
    BY <1>1, <1>2, <1>3 DEF HelpInv

\* Nobody but a notification makes help due.
LEMMA StillBefore ==
    ASSUME TypeOK, WorkInv, Still',
           User \/ Follow \/ LeftRight \/ Xdata \/ Edits \/ \E c \in Clients : Client(c)
    PROVE  Still /\ told' = told /\ told.win \in Served
  <1>1. told' = told \/ \E w \in Wins : Touched(w)
    <2>1. focus \in open => focus \in Wins
      BY SameTypes DEF Types
    <2>2. rc["L"].pc = "write" => rc["L"].to \in Wins
      BY DEF WorkInv
    <2>3. \A c \in Clients : rc[c].pc # "idle" => rc[c].win \in Wins
      BY Constants DEF WorkInv
    <2>4. Edits => told' = told \/ \E w \in Wins : Touched(w)
      BY <2>2 DEF Edits, WriteAddr, WriteData, EndEdits, history
    <2>5. User => told' = told \/ \E w \in Wins : Touched(w)
      BY <2>1 DEF User, Focus, RunL, Move, Type, Put, Delete, history
    <2>6. Follow => told' = told
      BY DEF Follow, Log, Tick, SetQ0, history
    <2>7. LeftRight \/ Xdata => told' = told \/ \E w \in Wins : Touched(w)
      BY <2>3, Constants DEF LeftRight, Xdata, history
    <2>8. \A c \in Clients : Client(c) => told' = told \/ \E w \in Wins : Touched(w)
      BY <2>3 DEF Client, ReadBody, Send, Dot, ReadAddr, Ask, history
    <2> QED
      BY <2>4, <2>5, <2>6, <2>7, <2>8
  <1>2. open' \subseteq open
    BY DEF User, Focus, RunL, Move, Type, Put, Delete, Follow, Log, Tick, SetQ0, Edits, WriteAddr,
           WriteData, EndEdits, LeftRight, Xdata, Client, ReadBody, Send, Dot, ReadAddr, Ask, acme
  <1>3. told'.still => told' = told
    BY <1>1, TouchedTypes
  <1> QED
    BY <1>2, <1>3 DEF Still, WorkInv

LEMMA UserHelp ==
    ASSUME TypeOK, WorkInv, User
    PROVE  Apart
  <1>0. rc \in [Clients -> Commands]
    BY SameTypes DEF Types
  <1>1. out' = out /\ cmd' = cmd /\ synced' = synced /\ addr' = addr
    BY DEF User, Focus, RunL, Move, Type, Put, Delete, Input, given
  <1>2. A' = A
    BY <1>0, Constants DEF User, Focus, RunL, Move, Type, Put, Delete, Input, A
  <1>3. ASSUME Still'
        PROVE  /\ Still /\ told' = told
               /\ body'[told.win] = body[told.win] /\ dot'[told.win] = dot[told.win]
    <2>1. Still /\ told' = told
      BY <1>3, StillBefore
    <2>2. told.still /\ (Touched(focus) => told.win # focus)
      BY <2>1, <1>3, TouchedTypes DEF Still
    <2>3. body \in [Wins -> Bodies] /\ dot \in [Wins -> Positions]
      BY SameTypes DEF Types
    <2>4. \/ body' = body
          \/ \E s \in Bodies : told.win # focus /\ body' = [body EXCEPT ![focus] = s]
      BY <2>2 DEF User, Focus, RunL, Move, Type, Put, Delete
    <2>5. \/ dot' = dot
          \/ \E q \in Positions : told.win # focus /\ dot' = [dot EXCEPT ![focus] = q]
      BY <2>2 DEF User, Focus, RunL, Move, Type, Put, Delete
    <2>6. told.win \in Wins
      BY <1>3, StillBefore, Constants
    <2> QED
      BY <2>1, <2>3, <2>4, <2>5, <2>6
  <1> QED
    BY <1>1, <1>2, <1>3 DEF Apart

LEMMA FollowHelp ==
    ASSUME TypeOK, WorkInv, Follow
    PROVE  Apart
  <1>1. UNCHANGED <<out, cmd, synced, rc, told, body, dot>>
    BY DEF Follow, Log, Tick, SetQ0, acme, history, given
  <1>2. addr' = addr \/ \E w \in Wins : addr' = [addr EXCEPT ![w] = AtDot(w)]
    BY SameTypes DEF Follow, Log, Tick, SetQ0, Types
  <1>3. addr \in [Wins -> Addresses]
    BY SameTypes DEF Types
  <1>4. \A w \in Wins : addr'[w] \in {addr[w], AtDot(w)}
    BY <1>2, <1>3
  <1>5. ASSUME Still' PROVE Still /\ told.win \in Wins
    BY <1>5, StillBefore, Constants
  <1> QED
    BY <1>1, <1>4, <1>5 DEF Apart, A

LEMMA OtherHelp ==
    ASSUME TypeOK, WorkInv, Client("L")
    PROVE  Apart
  <1>1. UNCHANGED <<cmd, body, dot>> /\ out' = out
    BY DEF Client, ReadBody, Send, Dot, ReadAddr, Ask, acme, given
  <1>2. A' = A
    BY Commanded, Constants DEF A
  <1>3. ASSUME Still' PROVE Still /\ told' = told /\ told.win \in Wins
    BY <1>3, StillBefore, Constants
  <1>4. \A w \in Wins : addr'[w] \in {addr[w], AtDot(w)}
    <2>1. addr \in [Wins -> Addresses]
      BY SameTypes DEF Types
    <2>2. addr' = addr \/ addr' = [addr EXCEPT ![rc["L"].win] = AtDot(rc["L"].win)]
      BY DEF Client, ReadBody, Send, Dot, ReadAddr, Ask
    <2> QED
      BY <2>1, <2>2
  <1>5. Still' => synced'[told.win] \in {synced[told.win], body[told.win]}
    <2> SUFFICES ASSUME Still'
                 PROVE  synced'[told.win] \in {synced[told.win], body[told.win]}
      OBVIOUS
    <2>1. synced \in [Wins -> Bodies] /\ told.win \in Wins
      BY <1>3, SameTypes DEF Types
    <2>2. CASE Send("L")
      <3>1. \/ synced' = synced
            \/ /\ synced' = [synced EXCEPT ![rc["L"].win] = rc["L"].text]
               /\ rc["L"].text = body[rc["L"].win] \/ Touched(rc["L"].win)
        BY <2>2 DEF Send
      <3>2. Touched(rc["L"].win) => told.win # rc["L"].win
        BY <1>3, TouchedTypes DEF Still
      <3> QED
        BY <2>1, <3>1, <3>2
    <2>3. CASE synced' = synced
      BY <2>3
    <2> QED
      BY <2>2, <2>3 DEF Client, ReadBody, Dot, ReadAddr, Ask
  <1> QED
    BY <1>1, <1>2, <1>3, <1>4, <1>5 DEF Apart

LEMMA EditHelp ==
    ASSUME TypeOK, WorkInv, Edits
    PROVE  Apart
  <1>0. /\ rc \in [Clients -> Commands] /\ addr \in [Wins -> Addresses]
        /\ body \in [Wins -> Bodies] /\ dot \in [Wins -> Positions]
    BY SameTypes DEF Types
  <1>1. cmd' = cmd /\ out' = out /\ synced' = synced
    BY DEF Edits, WriteAddr, WriteData, EndEdits, given
  <1>2. A' = A
    BY <1>0, Constants DEF Edits, WriteAddr, WriteData, EndEdits, Goes, Quits, A
  <1>3. ASSUME Still'
        PROVE  /\ Still /\ told' = told
               /\ body'[told.win] = body[told.win] /\ dot'[told.win] = dot[told.win]
               /\ addr'[told.win] = addr[told.win] \/ addr'[told.win][3] = "L"
    <2>1. Still /\ told' = told /\ told.win \in Wins
      BY <1>3, StillBefore, Constants
    <2>2. CASE \E v \in Wins : WriteAddr(v)
      <3>1. body' = body /\ dot' = dot /\ \E v \in Wins : addr' = [addr EXCEPT ![v] = <<1, 3, "L">>]
        BY <2>2 DEF WriteAddr
      <3> QED
        BY <1>0, <2>1, <3>1
    <2>3. CASE WriteData
      <3> DEFINE v == rc["L"].to
      <3>1. v \in open => told.win # v
        BY <2>1, <2>3, TouchedTypes DEF WriteData, Still
      <3>2. body'[told.win] = body[told.win] /\ dot'[told.win] = dot[told.win]
            /\ addr'[told.win] = addr[told.win]
        BY <1>0, <2>1, <2>3, <3>1 DEF WriteData
      <3> QED
        BY <2>1, <3>2
    <2>4. CASE EndEdits
      BY <2>1, <2>4 DEF EndEdits, acme
    <2> QED
      BY <2>2, <2>3, <2>4 DEF Edits
  <1> QED
    BY <1>1, <1>2, <1>3 DEF Apart

LEMMA ReceiveHelp ==
    ASSUME TypeOK, WorkInv, HelpInv, Receive
    PROVE  HelpInv'
  <1> SUFFICES ASSUME Still' PROVE HelpInv'
    BY DEF HelpInv
  <1>1. /\ fw \in open /\ dot[fw] = poll.q0 /\ dot' = dot /\ cmd' = cmd
        /\ told'.win = fw /\ told'.q0 = poll.q0
    BY DEF Receive, Still, acme, given
  <1>2. A' = [NoCmd EXCEPT !.pc = IF cmd = "auto" THEN "type" ELSE "read",
                           !.win = fw, !.q0 = poll.q0, !.kind = cmd]
    BY SameTypes, Constants DEF Receive, A, Types
  <1>3. A'.pc = (IF cmd = "auto" THEN "type" ELSE "read") /\ A'.kind = cmd
    BY <1>2 DEF NoCmd
  <1>4. cmd # "auto" => Due(told.win, told.q0)' = cmd
    BY <1>1 DEF Due
  <1> QED
    BY <1>1, <1>3, <1>4 DEF HelpInv, Asking

LEMMA LeftRightHelp ==
    ASSUME TypeOK, WorkInv, HelpInv, LeftRight
    PROVE  HelpInv'
  <1> SUFFICES ASSUME Still' PROVE HelpInv'
    BY DEF HelpInv
  <1> DEFINE w == told.win   q0 == told.q0
  <1>1. Still /\ told' = told /\ w \in Wins /\ w \in open
    BY StillBefore, Constants DEF Still
  <1>2. A.win = w /\ A.q0 = q0 /\ cmd = "auto" /\ q0 \in 0..3 /\ dot[w] = q0
    <2>1. A.win = w /\ A.q0 = q0 /\ cmd = "auto"
      BY DEF WorkInv, LeftRight, A
    <2>2. dot[w] = q0
      BY <1>1 DEF HelpInv
    <2>3. q0 \in 0..3
      BY SameTypes DEF Types, Tolds, Positions
    <2> QED
      BY <2>1, <2>2, <2>3
  <1>3. UNCHANGED <<dot, body, out, cmd>>
    BY DEF LeftRight, acme, given
  <1>4. Due(w, q0)' = Due(w, q0)
    BY <1>1, <1>3 DEF Due
  <1>5. Len(body[w]) = 3 /\ rc \in [Clients -> Commands] /\ addr \in [Wins -> Addresses]
    BY <1>1, SameTypes, TextTypes DEF Types
  <1>0. IF A.win \in open /\ A.q0 > 0 /\ A.q0 < Len(body[A.win])
        THEN /\ addr' = [addr EXCEPT ![A.win] = <<A.q0 - 1, A.q0 + 1, "assist">>]
             /\ rc' = [rc EXCEPT !["assist"].pc = "xdata"]
        ELSE rc' = [rc EXCEPT !["assist"] = NoCmd] /\ addr' = addr
    BY DEF LeftRight, A, Goes, Quits
  <1>6. CASE q0 > 0 /\ q0 < 3
    <2>1. addr' = [addr EXCEPT ![w] = <<q0 - 1, q0 + 1, "assist">>]
          /\ rc' = [rc EXCEPT !["assist"].pc = "xdata"]
      BY <1>0, <1>1, <1>2, <1>5, <1>6
    <2>2. addr'[w] = <<q0 - 1, q0 + 1, "assist">> /\ A'.pc = "xdata"
      BY <1>1, <1>5, <2>1, Constants DEF A, Commands
    <2>3. told.q0 \in 1..2
      BY <1>2, <1>6
    <2> QED
      BY <1>1, <1>2, <1>3, <2>2, <2>3 DEF HelpInv, Asking
  <1>7. CASE ~(q0 > 0 /\ q0 < 3)
    <2>1. A' = NoCmd
      <3>1. rc' = [rc EXCEPT !["assist"] = NoCmd]
        BY <1>0, <1>1, <1>2, <1>5, <1>7
      <3> QED
        BY <1>5, <3>1, Constants DEF A
    <2>2. Due(w, q0) = ""
      <3>1. q0 \notin 1..(Len(body[w]) - 1)
        BY <1>2, <1>5, <1>7
      <3> QED
        BY <1>2, <3>1 DEF Due
    <2>3. A'.pc = "idle"
      BY <2>1 DEF NoCmd
    <2> QED
      BY <1>1, <1>2, <1>3, <1>4, <2>2, <2>3 DEF HelpInv, Asking
  <1> QED
    BY <1>6, <1>7

\* The letters that xdata gives when the address is two letters.
LEMMA Letters2 ==
    ASSUME NEW s \in Bodies, NEW q \in 1..2
    PROVE  /\ Len(SubSeq(s, (q - 1) + 1, q + 1)) = 2
           /\ SubSeq(s, (q - 1) + 1, q + 1)[1] = s[q]
           /\ SubSeq(s, (q - 1) + 1, q + 1)[2] = s[q + 1]
  <1>1. Len(s) = 3 /\ s \in Seq(Letters)
    BY TextTypes
  <1>2. q \in Int /\ (q - 1) + 1 = q /\ 1 <= q /\ q + 1 <= Len(s) /\ (q + 1) - q + 1 = 2
    BY <1>1
  <1>3. Len(SubSeq(s, q, q + 1)) = 2 /\ \A i \in 1..2 : SubSeq(s, q, q + 1)[i] = s[q + i - 1]
    <2>1. \A i \in q..(q + 1) : s[i] \in Letters
      <3>1. \A i \in 1..Len(s) : s[i] \in Letters
        <4> HIDE DEF Letters
        <4> QED
          BY <1>1, ElementOfSeq
      <3> HIDE DEF Letters
      <3> QED
        BY <1>2, <1>1, <3>1
    <2>2. /\ Len(SubSeq(s, q, q + 1)) = IF q <= q + 1 THEN (q + 1) - q + 1 ELSE 0
          /\ \A i \in 1..((q + 1) - q + 1) : SubSeq(s, q, q + 1)[i] = s[q + i - 1]
      <3>1. q \in Int /\ q + 1 \in Int
        BY <1>2
      <3> HIDE DEF Letters
      <3> QED
        BY <2>1, <3>1, SubSeqProperties
    <2>3. q <= q + 1 /\ (q + 1) - q + 1 = 2
      BY <1>2
    <2> QED
      BY <2>2, <2>3
  <1>4. SubSeq(s, q, q + 1)[1] = s[q] /\ SubSeq(s, q, q + 1)[2] = s[q + 1]
    BY <1>2, <1>3
  <1> QED
    BY <1>2, <1>3, <1>4

LEMMA XdataHelp ==
    ASSUME TypeOK, WorkInv, HelpInv, Xdata
    PROVE  HelpInv'
  <1> SUFFICES ASSUME Still' PROVE HelpInv'
    BY DEF HelpInv
  <1> DEFINE w == told.win   q0 == told.q0
             r == SubSeq(body[w], addr[w][1] + 1, addr[w][2])
             kind == HelpType(r[1], r[2])
  <1>1. Still /\ told' = told /\ w \in Wins /\ w \in open
    BY StillBefore, Constants DEF Still
  <1>2. A.pc = "xdata" /\ A.win = w /\ cmd = "auto"
    BY DEF WorkInv, Xdata, A
  <1>3. /\ q0 \in 1..2 /\ dot[w] = q0
        /\ addr[w][3] = "assist" => addr[w] = <<q0 - 1, q0 + 1, "assist">>
    BY <1>1, <1>2 DEF HelpInv
  <1>4. UNCHANGED <<dot, body, out, cmd>>
    BY DEF Xdata, acme, given
  <1>5. body[w] \in Bodies /\ rc \in [Clients -> Commands] /\ A \in Commands
    BY <1>1, SameTypes, Constants DEF Types, A
  <1>6. /\ IF Len(r) = 2 /\ kind # ""
           THEN rc' = [rc EXCEPT !["assist"] = [A EXCEPT !.pc = "read", !.kind = kind]]
           ELSE rc' = [rc EXCEPT !["assist"] = NoCmd]
        /\ addr[w][3] = "assist" \/ Touched(w)
    BY <1>1, <1>2 DEF Xdata, A, Quits
  <1>7. addr[w] = <<q0 - 1, q0 + 1, "assist">>
    <2>1. ~Touched(w)
      BY <1>1, TouchedTypes DEF Still
    <2> QED
      BY <1>3, <1>6, <2>1
  <1>8. Len(r) = 2 /\ r[1] = body[w][q0] /\ r[2] = body[w][q0 + 1]
    <2>1. addr[w][1] = q0 - 1 /\ addr[w][2] = q0 + 1
      BY <1>7
    <2>2. r = SubSeq(body[w], (q0 - 1) + 1, q0 + 1)
      BY <2>1
    <2> HIDE DEF r
    <2> QED
      BY <1>3, <1>5, <2>2, Letters2
  <1>9. Due(w, q0) = kind /\ Due(w, q0)' = Due(w, q0)
    <2>1. q0 \in 1..(Len(body[w]) - 1)
      <3> HIDE DEF w, q0
      <3>1. Len(body[w]) = 3
        BY <1>5, TextTypes
      <3> QED
        BY <1>3, <3>1
    <2>2. kind = HelpType(body[w][q0], body[w][q0 + 1])
      BY <1>8
    <2>3. Due(w, q0) = HelpType(body[w][q0], body[w][q0 + 1])
      BY <1>2, <2>1 DEF Due
    <2>4. told' = told /\ body' = body /\ cmd' = cmd
      BY <1>1, <1>4
    <2> QED
      BY <2>2, <2>3, <2>4 DEF Due
  <1> HIDE DEF kind, r
  <1>10. CASE kind # ""
    <2>1. A' = [A EXCEPT !.pc = "read", !.kind = kind]
      BY <1>5, <1>6, <1>8, <1>10, Constants DEF A
    <2>2. A'.pc = "read" /\ A'.kind = kind
      BY <1>5, <2>1 DEF Commands
    <2> QED
      BY <1>1, <1>3, <1>4, <1>9, <2>2 DEF HelpInv, Asking
  <1>11. CASE kind = ""
    <2>1. A' = NoCmd
      BY <1>5, <1>6, <1>8, <1>11, Constants DEF A
    <2>2. A'.pc = "idle"
      BY <2>1 DEF NoCmd
    <2> QED
      BY <1>1, <1>3, <1>4, <1>9, <1>11, <2>2 DEF HelpInv, Asking
  <1> QED
    BY <1>10, <1>11

LEMMA AskingHelp ==
    ASSUME TypeOK, WorkInv, HelpInv, Client("assist")
    PROVE  HelpInv'
  <1> SUFFICES ASSUME Still' PROVE HelpInv'
    BY DEF HelpInv
  <1> DEFINE w == told.win   q0 == told.q0
  <1>1. Still /\ told' = told /\ w \in Wins /\ w \in open
    BY StillBefore, Constants DEF Still
  <1>2. A.pc \in Asking /\ A.win = w /\ A = rc["assist"]
    BY Commanded, Constants DEF WorkInv, A, Asking
  <1>3. UNCHANGED <<dot, body, cmd>>
    BY DEF Client, ReadBody, Send, Dot, ReadAddr, Ask, acme, given
  <1>4. /\ rc \in [Clients -> Commands] /\ A \in Commands
        /\ addr \in [Wins -> Addresses] /\ synced \in [Wins -> Bodies]
    BY SameTypes, Constants DEF Types, A
  <1>5. Due(w, q0)' = Due(w, q0) /\ A.kind = Due(w, q0) /\ dot[w] = q0
    BY <1>1, <1>2, <1>3 DEF Due, HelpInv
  <1>6. \A r : rc' = [rc EXCEPT !["assist"] = r] => A' = r
    BY <1>4, Constants DEF A
  <1>7. CASE ReadBody("assist")
    <2>1. A' = [A EXCEPT !.pc = "send", !.text = body[w]]
      BY <1>1, <1>2, <1>6, <1>7 DEF ReadBody
    <2>2. A'.pc = "send" /\ A'.text = body[w] /\ A'.kind = A.kind
      BY <1>4, <2>1 DEF Commands
    <2> QED
      BY <1>1, <1>3, <1>5, <2>2 DEF HelpInv, Asking
  <1>8. CASE Send("assist")
    <2>1. A'.pc = "edit" \/ A' = [A EXCEPT !.pc = "dot", !.text = <<>>]
      <3>1. CASE rc' = [rc EXCEPT !["assist"] = [rc["assist"] EXCEPT !.pc = "dot", !.text = <<>>]]
        BY <1>2, <1>6, <3>1
      <3>2. CASE \E k \in Kinds : rc' = [rc EXCEPT !["assist"] =
                                [rc["assist"] EXCEPT !.pc = "edit", !.kind = k, !.text = <<>>]]
        <4>1. PICK k \in Kinds : rc' = [rc EXCEPT !["assist"] =
                                [rc["assist"] EXCEPT !.pc = "edit", !.kind = k, !.text = <<>>]]
          BY <3>2
        <4>2. A' = [A EXCEPT !.pc = "edit", !.kind = k, !.text = <<>>]
          BY <1>2, <1>6, <4>1
        <4> QED
          BY <1>4, <4>2 DEF Commands
      <3> QED
        BY <1>8, <3>1, <3>2, AfterTheText, Constants
    <2>2. A'.pc # "edit" => A'.pc = "dot" /\ A'.kind = A.kind
      BY <1>4, <2>1 DEF Commands
    <2>3. synced'[w] = body[w]
      <3>1. A.pc = "send" /\ A.text = body[w] /\ ~Touched(w)
        BY <1>1, <1>2, <1>8, TouchedTypes DEF Send, HelpInv, Still
      <3>2. \/ synced' = synced /\ (A.text = synced[w] \/ Touched(w))
            \/ synced' = [synced EXCEPT ![w] = A.text]
        BY <1>2, <1>8 DEF Send
      <3> QED
        BY <1>1, <1>4, <3>1, <3>2
    <2> QED
      BY <1>1, <1>2, <1>3, <1>5, <2>1, <2>2, <2>3 DEF HelpInv, Asking
  <1>9. CASE Dot("assist")
    <2>1. A' = [A EXCEPT !.pc = "addr"] /\ A.pc = "dot" /\ synced' = synced
          /\ addr' = [addr EXCEPT ![w] = AtDot(w)]
      BY <1>1, <1>2, <1>6, <1>9 DEF Dot, Goes
    <2>2. A'.pc = "addr" /\ A'.kind = A.kind
      BY <1>4, <2>1 DEF Commands
    <2>3. synced'[w] = body[w] /\ addr'[w] = <<q0, q0, "dot">>
      BY <1>1, <1>4, <1>5, <2>1 DEF HelpInv, AtDot
    <2> QED
      BY <1>1, <1>3, <1>5, <2>2, <2>3 DEF HelpInv, Asking
  <1>10. CASE ReadAddr("assist")
    <2>1. A' = [A EXCEPT !.pc = "ask", !.at = addr[w][1]] /\ A.pc = "addr" /\ synced' = synced
      BY <1>1, <1>2, <1>6, <1>10 DEF ReadAddr
    <2>2. A'.pc = "ask" /\ A'.kind = A.kind /\ A'.at = addr[w][1]
      BY <1>4, <2>1 DEF Commands
    <2>3. synced'[w] = body[w] /\ A'.at = q0
      <3>1. ~Touched(w)
        BY <1>1, TouchedTypes DEF Still
      <3>2. addr[w][3] = "dot"
        BY <1>1, <1>2, <1>10, <3>1 DEF ReadAddr
      <3>3. addr[w] = <<q0, q0, "dot">> /\ synced[w] = body[w]
        BY <1>1, <2>1, <3>2 DEF HelpInv
      <3> QED
        BY <2>1, <2>2, <3>3
    <2> QED
      BY <1>1, <1>3, <1>5, <2>2, <2>3 DEF HelpInv, Asking
  <1>11. CASE Ask("assist")
    <2>1. A' = NoCmd /\ A.pc = "ask"
          /\ out' = [win |-> w, kind |-> A.kind, at |-> A.at, text |-> synced[w]]
      BY <1>2, <1>6, <1>11 DEF Ask, Quits
    <2>2. A'.pc = "idle"
      BY <2>1 DEF NoCmd
    <2>3. A.at = q0 /\ synced[w] = body[w]
      BY <1>1, <2>1 DEF HelpInv
    <2>4. out' = Help'
      BY <1>1, <1>3, <1>5, <2>1, <2>3 DEF Help
    <2> QED
      BY <1>1, <1>3, <1>5, <2>2, <2>4 DEF HelpInv, Asking
  <1> QED
    BY <1>7, <1>8, <1>9, <1>10, <1>11 DEF Client

LEMMA NextHelp ==
    ASSUME TypeOK, WorkInv, HelpInv, [Next]_vars
    PROVE  HelpInv'
  <1>1. CASE UNCHANGED vars
    <2>1. Apart
      BY <1>1 DEF vars, Apart, A, Still
    <2> QED
      BY <2>1, KeptApart
  <1> QED
    BY <1>1, UserHelp, FollowHelp, OtherHelp, EditHelp, KeptApart, ReceiveHelp, LeftRightHelp, XdataHelp,
       AskingHelp DEF Next, Loop

-----------------------------------------------------------------------------
(* The theorems.                                                           *)

LEMMA Inductive == Spec => []Inv
  <1>1. Init => Inv
    <2> SUFFICES ASSUME Init PROVE Inv
      OBVIOUS
    <2>1. TypeOK /\ WorkInv
      BY InitTypes
    <2>2. /\ poll.pc = "select" /\ rc = [c \in Clients |-> NoCmd] /\ ~told.still
          /\ addr = [w \in Wins |-> <<0, 0, "nobody">>]
      BY DEF Init, NoPoll
    <2>3. rc["L"].pc = "idle" /\ \A c \in Clients : rc[c].pc = "idle"
      BY <2>2, Constants DEF NoCmd
    <2> QED
      BY <2>1, <2>2, <2>3 DEF Inv, AddrInv, HelpInv, Still
  <1>2. Inv /\ [Next]_vars => Inv'
    BY NextTypes, NextWork, NextAddr, NextHelp DEF Inv
  <1> QED
    BY <1>1, <1>2, PTL DEF Spec

\* Every variable of Assist has its type, and nobody is asked about a window
\* that has no language server.
THEOREM TypeCorrect == Spec => []TypeOK
  <1>1. Inv => TypeOK
    BY DEF Inv
  <1> QED
    BY <1>1, Inductive, PTL

\* However many windows there are and whatever the user does, what CurrentAddr
\* is about to read is the cursor, or has been set by the two letters of "auto"
\* or by an edit of L, and never by the client itself
\* (internal/acmeutil/acme.go:64-75, 93-98, assist.go:139-161).
THEOREM ClientsDoNotMisleadThemselves == Spec => []OnlyOthersMislead
  <1>1. Inv => OnlyOthersMislead
    <2> SUFFICES ASSUME Inv, NEW w \in open, NEW reader \in {"poll", "assist", "L"},
                        Reads(reader, w)
                 PROVE  \/ addr[w][3] = "dot"
                        \/ addr[w][3] = "assist" /\ cmd = "auto" /\ reader # "assist"
                        \/ addr[w][3] = "L" /\ used.edits > 0 /\ reader # "L"
      BY DEF OnlyOthersMislead
    <2>1. w \in Wins /\ addr[w][3] \in Setters
      BY SameTypes DEF Inv, Types, Addresses
    <2>2. addr[w][3] \notin {"nobody", reader}
      <3>1. CASE reader = "poll"
        BY <2>1, <3>1 DEF Inv, AddrInv, Reads, Setters
      <3>2. CASE reader # "poll"
        BY <3>2 DEF Inv, AddrInv, Reads, Clients
      <3> QED
        BY <3>1, <3>2
    <2> QED
      BY <2>1, <2>2 DEF Inv, AddrInv, Setters
  <1> QED
    BY <1>1, Inductive, PTL

\* The help that is shown is the one for the place that Assist was told of, in
\* the text as it is, but for the cases that HelpIsOfThePlaceTold names
\* (assist.go:198-245).
THEOREM HelpIsDue == Spec => []HelpIsOfThePlaceTold
  <1>1. Inv => HelpIsOfThePlaceTold
    BY DEF Inv, HelpInv, HelpIsOfThePlaceTold, Still, Help, A
  <1> QED
    BY <1>1, Inductive, PTL

=============================================================================
