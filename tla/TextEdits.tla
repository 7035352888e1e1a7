----------------------------- MODULE TextEdits -----------------------------
(***************************************************************************)
(* Positions and edits of a window's text: internal/lsp/text/line.go and   *)
(* edit.go on the acme window of internal/acmeutil, for the command        *)
(* "L comp" (remote.go) and for every answer that is a list of edits.      *)
(*                                                                         *)
(* A rune is a letter of one byte ("a"), one of two bytes ("w"), a newline *)
(* ("n"), a rune of an edit's new text ("x", "y") or one that the user     *)
(* types while the command runs ("t").  acme counts runes, the server      *)
(* lines and columns.  The window's addr is one for all its clients.       *)
(***************************************************************************)
EXTENDS Integers, SequencesExt

CONSTANTS
    MaxRunes,   \* bound: runes of the body when the command starts
    MaxTypes,   \* bound: runes the user types while it runs
    MaxEdits    \* bound: edits of an answer

\* sort.Sort inserts one by one, and so keeps the order of edits that start
\* together, in lists of at most twelve.
ASSUME TextAssumption ==
    MaxRunes \in Nat \ {0} /\ MaxTypes \in Nat /\ MaxEdits \in 1..12

VARIABLES
    body,     \* the window's text
    cursor,   \* the start of its selection (dot), a rune offset
    addr,     \* its addr, two rune offsets
    command,  \* "edits", or a kind of completion: "list", "only", "first"
    pc,       \* the command's next step
    pos,      \* the cursor as the command has read it; then line and column
    edits,    \* the edits still to be applied
    off,      \* the newline offsets of the body that Edit has read
    doc,      \* the text that the server was last told
    items,    \* history: the answer as it came
    typed,    \* how many runes have been typed
    clash     \* history: an edit may miss its place, for what was typed or polled

vars == <<body, cursor, addr, command, pc, pos, edits, off, doc, items, typed, clash>>

Letters == {"a", "w"}
Bodies == UNION {[1..n -> Letters \cup {"n"}] : n \in 0..MaxRunes}
Completions == {"list", "only", "first"}
Bytes(s) == Len(s) + Cardinality({i \in 1..Len(s) : s[i] = "w"})

\* The elements of a set of numbers in their order.
Ascending(S) ==
    CHOOSE f \in [1..Cardinality(S) -> S] : \A i, j \in DOMAIN f : i < j => f[i] < f[j]

\* The runes of s from offset q0 up to q1.
Slice(s, q0, q1) == SubSeq(s, q0 + 1, q1)
LineStarts(s) == {0} \cup {i \in 1..Len(s) : s[i] = "n"}

-----------------------------------------------------------------------------
(* line.go.  Lines and columns count from 0, sequences from 1.             *)

\* getNewlineOffsets: the offsets at which a line starts, and the number of
\* bytes (not runes) after the last newline.
NewlineOffsets(s) ==
    LET nl == Ascending(LineStarts(s))
    IN  [nl |-> nl, leftover |-> Bytes(Slice(s, Last(nl), Len(s)))]

LineToOffset(o, line, col) ==
    LET eof == Last(o.nl) + o.leftover
    IN  IF line >= Len(o.nl) THEN eof ELSE Min({o.nl[line + 1] + col, eof})

OffsetToLineBefore(o, q) ==   \* what if >= stood for > in the search
    LET later == {i \in 2..Len(o.nl) : o.nl[i] >= q}
        i == IF later = {} THEN Len(o.nl) ELSE Min(later) - 1
    IN  [line |-> i - 1, col |-> q - o.nl[i]]

OffsetToLine(o, q) ==
    LET later == {i \in 1..Len(o.nl) : o.nl[i] > q}
        i == IF later = {} THEN Len(o.nl) ELSE Min(later) - 1
    IN  [line |-> i - 1, col |-> q - o.nl[i]]

\* EditList.Less.
Less(d, e) ==
    \/ d.start.line < e.start.line
    \/ d.start.line = e.start.line /\ d.start.col < e.start.col

SortedNot(es) == es   \* what if the edits were not sorted

\* sort.Sort.
Sorted(es) ==
    LET before(i, j) == Less(es[i], es[j]) \/ (~Less(es[j], es[i]) /\ i < j)
        order == CHOOSE p \in [DOMAIN es -> DOMAIN es] :
                     \A i, j \in DOMAIN es : i < j => before(p[i], p[j])
    IN  [i \in DOMAIN es |-> es[order[i]]]

-----------------------------------------------------------------------------
(* The server: positions in the document it has been told.                 *)

PositionOf(s, q) ==
    LET start == Max({o \in LineStarts(s) : o <= q})
    IN  [line |-> Cardinality({o \in LineStarts(s) : o < start}), col |-> q - start]

\* The end of the document is also the start of the line after its last.
Past(s) == [line |-> Cardinality(LineStarts(s)), col |-> 0]
OffsetOf(s, p) ==
    IF p = Past(s) THEN Len(s) ELSE CHOOSE q \in 0..Len(s) : PositionOf(s, q) = p
Positions(s) == {PositionOf(s, q) : q \in 0..Len(s)} \cup {Past(s)}
EditsOf(s, texts) ==
    {e \in [start : Positions(s), end : Positions(s), new : texts] :
        OffsetOf(s, e.start) <= OffsetOf(s, e.end)}

\* The edits of one answer do not overlap; of those that start together the
\* inserts come first, and they name that position alike.
Disjoint(s, d, e) ==
    LET d0 == OffsetOf(s, d.start)    d1 == OffsetOf(s, d.end)
        e0 == OffsetOf(s, e.start)    e1 == OffsetOf(s, e.end)
    IN  /\ d1 <= e0 \/ (e1 <= d0 /\ e0 < d0)
        /\ d0 = e0 => d.start = e.start

\* An answer, whose edits come in any order.
Answers(s) ==
    {es \in UNION {[1..n -> EditsOf(s, {<<>>, <<"x">>, <<"y">>})] : n \in 1..MaxEdits} :
        \A i, j \in DOMAIN es : i < j => Disjoint(s, es[i], es[j])}

\* No completion, one, or several, of which only the first may be inserted.
Proposals(s) == {<<>>} \cup {<<e>> : e \in EditsOf(s, {<<"x">>})}
                       \cup {<<e, e>> : e \in EditsOf(s, {<<"x">>})}

\* The document that the edits es of s mean: at each offset the new texts of
\* the edits that start there, then the rune, unless an edit replaces it.
Meant(s, es) ==
    LET from(i) == OffsetOf(s, es[i].start)
        to(i) == OffsetOf(s, es[i].end)
        new(q) == FlattenSeq([i \in DOMAIN es |-> IF from(i) = q THEN es[i].new ELSE <<>>])
        kept(q) == q < Len(s) /\ \A i \in DOMAIN es : ~(from(i) <= q /\ q < to(i))
    IN  FlattenSeq([k \in 1..(Len(s) + 1) |->
                        new(k - 1) \o (IF kept(k - 1) THEN <<s[k]>> ELSE <<>>)])

-----------------------------------------------------------------------------
Init ==
    /\ body \in Bodies
    /\ cursor = 0 /\ addr = <<0, 0>>
    /\ command = "none" /\ pc = "start"
    /\ pos = [line |-> 0, col |-> 0]
    /\ edits = <<>> /\ items = <<>> /\ off = [nl |-> <<0>>, leftover |-> 0]
    /\ doc = <<>> /\ typed = 0 /\ clash = FALSE

\* RemoteCmd.DidChange, the first thing every command does: the server has
\* the body.
Start ==
    /\ pc = "start"
    /\ doc' = body
    /\ \/ command' = "edits" /\ pc' = "answer" /\ UNCHANGED cursor
       \/ /\ command' \in Completions /\ pc' = "dot"
          /\ cursor' \in 0..Len(body)
    /\ UNCHANGED <<body, addr, pos, edits, off, items, typed, clash>>

\* CurrentAddr sets the addr to the selection; what it reads back is the
\* offset that Position starts from.
ReadDot ==
    /\ pc = "dot"
    /\ addr' = <<cursor, cursor>>
    /\ pos' = [pos EXCEPT !.col = cursor]
    /\ pc' = "position"
    /\ UNCHANGED <<body, cursor, command, edits, off, doc, items, typed, clash>>

\* Position, which reads the body after the selection.
Position ==
    /\ pc = "position"
    /\ pos' = OffsetToLine(NewlineOffsets(body), pos.col)
    /\ pc' = "answer"
    /\ UNCHANGED <<body, cursor, addr, command, edits, off, doc, items, typed, clash>>

\* The server answers with edits of its document, or with completions, each
\* of which has one edit.
Answer ==
    /\ pc = "answer"
    /\ items' \in IF command = "edits" THEN Answers(doc) ELSE Proposals(doc)
    /\ pc' = "answered"
    /\ UNCHANGED <<body, cursor, addr, command, pos, edits, off, doc, typed, clash>>

\* Completion: whether the first item is inserted; the others are listed.
Inserts(kind, n) == (kind = "first" /\ n >= 1) \/ (kind = "only" /\ n = 1)

\* The edits that are applied.
Chosen == IF command = "edits" THEN items
          ELSE IF Inserts(command, Len(items)) THEN <<items[1]>> ELSE <<>>

List ==
    /\ pc = "answered" /\ Chosen = <<>>
    /\ pc' = "done"
    /\ UNCHANGED <<body, cursor, addr, command, pos, edits, off, doc, items, typed, clash>>

\* Edit reads the body and sorts the edits.
ReadBody ==
    /\ pc = "answered"
    /\ Chosen # <<>>
    /\ edits' = Sorted(Chosen)
    /\ off' = NewlineOffsets(body)
    /\ pc' = "addr"
    /\ UNCHANGED <<body, cursor, addr, command, pos, doc, items, typed, clash>>

From(e) == LineToOffset(off, e.start.line, e.start.col)
To(e) == LineToOffset(off, e.end.line, e.end.col)

\* WriteAt of the last edit, first half.  acme refuses an address outside the
\* text, and Edit ignores the error.
SetAddr ==
    /\ pc = "addr" /\ edits # <<>>
    /\ LET q0 == From(Last(edits))
           q1 == To(Last(edits))
       IN  \/ /\ q0 <= q1 /\ q1 <= Len(body)
              /\ addr' = <<q0, q1>> /\ pc' = "write"
              /\ UNCHANGED edits
           \/ /\ ~(q0 <= q1 /\ q1 <= Len(body))
              /\ edits' = Front(edits)
              /\ UNCHANGED <<addr, pc>>
    /\ UNCHANGED <<body, cursor, command, pos, off, doc, items, typed, clash>>

\* The text s with new in the place of what is between q0 and q1.
Replaced(s, q0, q1, new) == Slice(s, 0, q0) \o new \o Slice(s, q1, Len(s))

\* Where acme moves a selection at q when n runes replace q0 to q1.
Moved(q, q0, q1, n) ==
    IF q <= q0 THEN q ELSE IF q < q1 THEN q0 ELSE q - (q1 - q0) + n

\* WriteAt, second half: the data replaces what addr is by now.
WriteData ==
    /\ pc = "write"
    /\ body' = IF addr[2] <= Len(body)
               THEN Replaced(body, addr[1], addr[2], Last(edits).new) ELSE body
    /\ cursor' = IF addr[2] <= Len(body)
                 THEN Moved(cursor, addr[1], addr[2], Len(Last(edits).new)) ELSE cursor
    /\ edits' = Front(edits)
    /\ pc' = "addr"
    /\ UNCHANGED <<addr, command, pos, off, doc, items, typed, clash>>

EditDone ==
    /\ pc = "addr" /\ edits = <<>>
    /\ pc' = "done"
    /\ UNCHANGED <<body, cursor, addr, command, pos, edits, off, doc, items, typed, clash>>

\* The user types at any place, which does not move the addr.  Typing at
\* another time commutes with the steps, which do not look at the text.
Type ==
    /\ pc \in {"position", "answered", "addr", "write"} /\ typed < MaxTypes
    /\ \E q \in 0..Len(body) :
        /\ body' = Replaced(body, q, q, <<"t">>)
        /\ cursor' = q + 1
        /\ clash' = (clash \/ pc \notin {"addr", "write"}
                           \/ \E i \in DOMAIN edits : q < To(edits[i]))
    /\ typed' = typed + 1
    /\ UNCHANGED <<addr, command, pc, pos, edits, off, doc, items>>

\* focusWin.SetQ0 of L assist, or a command of another program on the window.
Poll ==
    /\ pc \in {"addr", "write"}
    /\ addr' = <<cursor, cursor>>
    /\ clash' = (clash \/ pc = "write")
    /\ UNCHANGED <<body, cursor, command, pc, pos, edits, off, doc, items, typed>>

Next ==
    \/ Start \/ ReadDot \/ Position \/ Answer \/ List
    \/ ReadBody \/ SetAddr \/ WriteData \/ EditDone
    \/ Type \/ Poll

Spec == Init /\ [][Next]_vars

-----------------------------------------------------------------------------
TypeOK ==
    /\ body \in Seq(Letters \cup {"n", "x", "y", "t"})
    /\ cursor \in 0..Len(body)
    /\ addr \in Nat \X Nat /\ addr[1] <= addr[2]
    /\ command \in {"none", "edits"} \cup Completions
    /\ pc \in {"start", "dot", "position", "answer", "answered", "addr", "write", "done"}
    /\ pos \in [line : Nat, col : Nat]
    /\ IsPrefix(edits, Sorted(items)) \/ IsPrefix(edits, Sorted(Chosen))
    /\ off.nl \in Seq(Nat) /\ off.leftover \in Nat
    /\ typed \in 0..MaxTypes /\ clash \in BOOLEAN

\* The position in a request for completions is the line and column, as the
\* server counts them, of the place that was selected, unless the user types
\* between the read of the selection and that of the body (edit.go:93-120).
AsksAboutTheCursor ==
    pc \in {"answer", "answered"} /\ command \in Completions /\ typed = 0 =>
        pos = PositionOf(doc, cursor)

\* The text s without the runes that the user has typed.
Untyped(s) == FlattenSeq([i \in DOMAIN s |-> IF s[i] = "t" THEN <<>> ELSE <<s[i]>>])

\* The edits of an answer, in any order, make of the server's document the
\* text that the server means, and of what the user types meanwhile nothing
\* is lost, as long as it is typed below the edits that are still to be
\* applied, no other client sets the addr between the two halves of a WriteAt
\* (edit.go:54-67; see WriteAtReplaces), and the offset of the end is not
\* miscounted (line.go:29; see EndIsTheEnd).
AppliedIsMeant ==
    pc = "done" /\ ~clash /\ off.leftover = Len(doc) - Max(LineStarts(doc)) =>
        /\ Untyped(body) = Meant(doc, Chosen)
        /\ Len(body) = Len(Untyped(body)) + typed

\* A position beyond the last line is the end of the text that was read
\* ("beyond EOF, so just return the highest offset", line.go:46).
EndIsTheEnd ==
    pc = "addr" /\ typed = 0 /\ edits = Sorted(Chosen) =>
        LineToOffset(off, Len(off.nl), 0) = Len(body)

\* WriteAt replaces the text in the range it is given (edit.go:17), whoever
\* else uses the window.
WriteAtReplaces ==
    [][WriteData => body' = Replaced(body, From(Last(edits)), To(Last(edits)),
                                     Last(edits).new)]_vars

=============================================================================
