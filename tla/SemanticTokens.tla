--------------------------- MODULE SemanticTokens ---------------------------
(***************************************************************************)
(* What acme-lsp makes of a server's semantic tokens (style.go): the flat  *)
(* array of relative positions becomes runs of the window's text, runs of  *)
(* one name are joined over blank lines, and a delta is a list of splices  *)
(* of the array that was received before.                                  *)
(*                                                                         *)
(* The state is one document at the server and what the client holds of    *)
(* it.  A rune is a letter "a" or a newline "n".                           *)
(***************************************************************************)
EXTENDS Integers, SequencesExt

CONSTANTS
    MaxRunes,   \* bound: runes of the document
    MaxTokens   \* bound: tokens of the document

ASSUME TokensAssumption == MaxRunes \in Nat /\ MaxTokens \in Nat

VARIABLES
    body,     \* the document, the same at the server and in the window
    tokens,   \* the server's tokens of it: [start, length, type], absolute
    resultID, \* docState.resultID is not empty
    data,     \* docState.data
    answered, \* the server's array of the answer that gave that result id
    fresh,    \* the layer was written and nothing has changed since
    entries   \* the runs that were written then

cached == <<resultID, data, answered>>
vars == <<body, tokens, cached, fresh, entries>>

-----------------------------------------------------------------------------
(* The names: source types of the server's legend, palette names of the    *)
(* style layer.                                                            *)

\* Lines of token_names.txt, as their fields.
NameLines == << <<"#", "palette", "source">>, <<>>, <<"p", "keyword">>, <<"p", "operator">>,
                <<"q", "number">>, <<"alone">>, <<"q", "string">>, <<"p", "string">> >>

\* parseTokenNames: comments, blank lines and lines of one field are left
\* out, and a later line wins.
ParseTokenNames(lines) ==
    LET named == SelectSeq(lines, LAMBDA f : Len(f) >= 2 /\ f[1] # "#")
        sources == {named[i][2] : i \in DOMAIN named}
        last(s) == Max({i \in DOMAIN named : named[i][2] = s})
    IN  [s \in sources |-> named[last(s)][1]]

\* The types of the server's tokens; the palette has no decorator.
Legend == <<"keyword", "number", "decorator">>
Types == 0..(Len(Legend) - 1)

\* The palette name of a type, "" for one that the palette or the legend
\* does not have.
PaletteName(type) ==
    LET palette == ParseTokenNames(NameLines)
    IN  IF type < Len(Legend) /\ Legend[type + 1] \in DOMAIN palette
        THEN palette[Legend[type + 1]] ELSE ""

-----------------------------------------------------------------------------
(* Offsets.  Lines and columns count from 0, sequences from 1.             *)

\* buildRuneOffsets: the offset of the first rune of every line, and of one.
LineStarts(s) == {0} \cup {i \in 1..Len(s) : s[i] = "n"}
LineStart(s, line) ==
    CHOOSE o \in LineStarts(s) : Cardinality({p \in LineStarts(s) : p < o}) = line

ToRuneOffset(s, line, col) ==
    IF line >= Cardinality(LineStarts(s)) THEN Len(s)
    ELSE Min({LineStart(s, line) + col, Len(s)})

BlankLinesOnlyGap(s, from, to) ==   \* what if an empty gap were none
    from < to /\ \A i \in (from + 1)..Min({to, Len(s)}) : s[i] = "n"

\* blankLinesOnly, of which a gap that is empty or turned around is one.
BlankLinesOnly(s, from, to) == \A i \in (from + 1)..Min({to, Len(s)}) : s[i] = "n"

-----------------------------------------------------------------------------
(* buildStyleEntries.                                                      *)

\* The tokens of the array d as tuples; an incomplete last one is left out.
Tuples(d) == [i \in 1..(Len(d) \div 5) |-> SubSeq(d, 5 * i - 4, 5 * i)]

AtSameColumn(p, t) ==   \* what if a new line did not reset the column
    [line |-> p.line + t[1], col |-> p.col + t[2]]

\* The position of the token t after one at p.
At(p, t) ==
    IF t[1] # 0 THEN [line |-> p.line + t[1], col |-> t[2]]
    ELSE [line |-> p.line, col |-> p.col + t[2]]

\* First pass: the relative encoding becomes entries of absolute offsets.  A
\* token without a name only moves the position.
Decode(d, s) ==
    LET ts == Tuples(d)
        at[i \in 0..Len(ts)] ==
            IF i = 0 THEN [line |-> 0, col |-> 0] ELSE At(at[i - 1], ts[i])
        entry(p, t) ==
            LET start == ToRuneOffset(s, p.line, p.col)
            IN  [name |-> PaletteName(t[4]), start |-> start, end |-> start + t[3]]
        more(es, e) == IF e.name = "" THEN es ELSE Append(es, e)
        out[i \in 0..Len(ts)] ==
            IF i = 0 THEN <<>> ELSE more(out[i - 1], entry(at[i], ts[i]))
    IN  out[Len(ts)]

\* An entry is joined to the one before it when both have one name and only
\* newlines are between them.
Joined(out, e, s) ==
    IF out # <<>> /\ Last(out).name = e.name /\ BlankLinesOnly(s, Last(out).end, e.start)
    THEN Append(Front(out), [Last(out) EXCEPT !.end = e.end])
    ELSE Append(out, e)

\* Second pass: every entry is joined to the run before it or begins one.
Merge(es, s) ==
    LET out[i \in 0..Len(es)] == IF i = 0 THEN <<>> ELSE Joined(out[i - 1], es[i], s)
    IN  out[Len(es)]

StyleEntries(d, s) == Merge(Decode(d, s), s)

\* The elements of s from index q0 up to q1, which count from 0.
Slice(s, q0, q1) == SubSeq(s, q0 + 1, q1)

\* One edit of the array, cut off at its end.
Splice(out, e) ==
    LET start == Min({e.start, Len(out)})
        end == Min({e.start + e.delete, Len(out)})
    IN  Slice(out, 0, start) \o e.data \o Slice(out, end, Len(out))

ApplyTokenEditsForwards(prev, edits) ==   \* what if the first edit came first
    LET out[i \in 0..Len(edits)] == IF i = 0 THEN prev ELSE Splice(out[i - 1], edits[i])
    IN  out[Len(edits)]

\* applyTokenEdits: the last edit first.
ApplyTokenEdits(prev, edits) ==
    LET out[i \in 0..Len(edits)] ==
            IF i = 0 THEN prev ELSE Splice(out[i - 1], edits[Len(edits) + 1 - i])
    IN  out[Len(edits)]

-----------------------------------------------------------------------------
(* The server.                                                             *)

Newlines(s, q) == Cardinality({i \in 1..q : s[i] = "n"})
Column(s, q) == q - Max({0} \cup {i \in 1..q : s[i] = "n"})

\* The tokens in their order, each relative to the one before it.
InOrder(ts) ==
    CHOOSE f \in [1..Cardinality(ts) -> ts] :
        \A i, j \in DOMAIN f : i < j => f[i].start < f[j].start

Encode(s, ts) ==
    LET sorted == InOrder(ts)
        from(i) == IF i = 1 THEN 0 ELSE sorted[i - 1].start
        lines(i) == Newlines(s, sorted[i].start) - Newlines(s, from(i))
        cols(i) == Column(s, sorted[i].start)
                   - IF lines(i) = 0 THEN Column(s, from(i)) ELSE 0
        tuple(i) == <<lines(i), cols(i), sorted[i].length, sorted[i].type, 0>>
    IN  [k \in 1..(5 * Cardinality(ts)) |-> tuple((k - 1) \div 5 + 1)[((k - 1) % 5) + 1]]

\* A token is in one line of the document and overlaps no other.
MayBeToken(s, ts, t) ==
    /\ t.start + t.length <= Len(s)
    /\ \A i \in (t.start + 1)..(t.start + t.length) : s[i] # "n"
    /\ \A u \in ts : t.start + t.length <= u.start \/ u.start + u.length <= t.start

CommonPrefix(a, b) ==
    Max({n \in 0..Min({Len(a), Len(b)}) : Slice(a, 0, n) = Slice(b, 0, n)})

\* The edit that makes new of old, which begins at the index at of the array.
EditOf(old, new, at) ==
    LET n == CommonPrefix(old, new)
    IN  [start |-> at + n, delete |-> Len(old) - n, data |-> Slice(new, n, Len(new))]

\* Edits that make b of a: a is cut in two anywhere, b at the same place or
\* at its end, and each part is replaced from where the two differ.
EditsBetween(a, b) ==
    LET both(i, j) == <<EditOf(Slice(a, 0, i), Slice(b, 0, j), 0),
                        EditOf(Slice(a, i, Len(a)), Slice(b, j, Len(b)), i)>>
    IN  UNION {{both(i, Min({i, Len(b)})), both(i, Len(b))} : i \in 0..Len(a)}

-----------------------------------------------------------------------------
Init ==
    /\ body = <<>> /\ tokens = {}
    /\ resultID = FALSE /\ data = <<>> /\ answered = <<>>
    /\ entries = <<>>
    /\ fresh = FALSE

\* The user types at the end, where no token is yet.
Type ==
    /\ Len(body) < MaxRunes
    /\ \E r \in {"a", "n"} : body' = Append(body, r)
    /\ fresh' = FALSE /\ entries' = <<>>
    /\ UNCHANGED <<tokens, cached>>

\* The server finds a token, or finds that one is none.
FindToken ==
    /\ \/ /\ Cardinality(tokens) < MaxTokens
          /\ \E t \in [start : 0..Len(body), length : 1..2, type : Types] :
                MayBeToken(body, tokens, t) /\ tokens' = tokens \cup {t}
       \/ \E t \in tokens : tokens' = tokens \ {t}
    /\ fresh' = FALSE /\ entries' = <<>>
    /\ UNCHANGED <<body, cached>>

\* The array a goes to the window; it is kept if the answer has a result id,
\* under which the server remembers its own array.
Apply(a) ==
    /\ entries' = StyleEntries(a, body)
    /\ \/ resultID' = TRUE /\ data' = a /\ answered' = Encode(body, tokens)
       \/ UNCHANGED cached

\* A full answer; one without tokens clears the layer and keeps nothing.
Full ==
    IF tokens = {} THEN entries' = <<>> /\ UNCHANGED cached
    ELSE Apply(Encode(body, tokens))

\* ApplySemanticTokens when there is no result id, or when the delta request
\* fails or is answered with all tokens.
ApplyFull ==
    /\ Full
    /\ fresh' = TRUE
    /\ UNCHANGED <<body, tokens>>

\* ApplySemanticTokens with the answer of a delta request.  What is left of
\* an array whose last element was deleted is nil, as if there had been no
\* answer.
ApplyDelta ==
    /\ ~fresh /\ resultID
    /\ \E edits \in EditsBetween(answered, Encode(body, tokens)) :
          LET a == ApplyTokenEdits(data, edits)
          IN  IF a = <<>> THEN Full ELSE Apply(a)
    /\ fresh' = TRUE
    /\ UNCHANGED <<body, tokens>>

Next == Type \/ FindToken \/ ApplyFull \/ ApplyDelta

Spec == Init /\ [][Next]_vars

-----------------------------------------------------------------------------
\* The name that the tokens of the palette give to the rune at q.
NamesAt(q) == {PaletteName(t.type) : t \in {u \in tokens : u.start <= q /\ q < u.start + u.length}} \ {""}
ShownAt(q) == {entries[i].name : i \in {j \in DOMAIN entries : entries[j].start <= q /\ q < entries[j].end}}

\* Every letter has the style of the token it is in, and no other, whatever
\* tokens without a style come before it (style.go:153-182).
LettersHaveTheirStyle ==
    fresh => \A q \in 0..(Len(body) - 1) : body[q + 1] # "n" => ShownAt(q) = NamesAt(q)

\* The runs are in order, and two of one name that follow each other have a
\* letter between them: what the server cut at line ends is one run again
\* (style.go:184-204).
RunsAreJoined ==
    fresh => \A i \in 1..(Len(entries) - 1) :
        LET e == entries[i]   f == entries[i + 1] IN
        /\ e.start < e.end /\ e.end <= f.start
        /\ e.name = f.name => \E q \in (e.end + 1)..f.start : body[q] # "n"

\* The array that the client keeps is the one that the server answered under
\* the result id that it keeps, so that the next delta is about what the client
\* holds: after deltas, after answers without a result id and after empty ones,
\* which leave the array and the id of an earlier text (style.go:286-322).
DataIsTheServers == resultID => data = answered

=============================================================================
