----------------------------- MODULE P9Session -----------------------------
(***************************************************************************)
(* One session of the 9P file service (internal/lsp/acmelsp/p9fs.go): a    *)
(* server's file opened for writing, the client that writes JSON objects   *)
(* to it and reads responses from it, and the three goroutines between     *)
(* them.                                                                   *)
(*                                                                         *)
(*   write --> wch --> writer ==pipe==> rpc ==pipe==> reader --> read      *)
(*                                                                         *)
(* rpc is the JSON-RPC connection at the other end of the pipe; it handles *)
(* one message at a time.  The pipe (net.Pipe) has no buffer: a write ends *)
(* when the other end has read it.                                         *)
(*                                                                         *)
(* The client writes the objects 1, 2, ... in halves, so that a write may  *)
(* end in the middle of one.  A response is [id, size]; its units are read *)
(* one or more at a time.  A patient client, like 9p rdwr, has one call    *)
(* outstanding and reads until it gets nothing before it writes; a         *)
(* pipelined one writes whole objects, reads, gives up and clunks as it    *)
(* likes.                                                                  *)
(***************************************************************************)
EXTENDS Integers, Sequences

CONSTANTS
    MaxObjects,    \* bound: objects the client writes
    MaxSize,       \* bound: units of a response, and of a read
    Cap,           \* capacity of wch (16 in the code)
    Clients,       \* "patient" or "pipelined"
    PatientKinds   \* what a patient client writes

ASSUME BoundAssumption == MaxObjects \in Nat /\ MaxSize \in Nat \ {0} /\ Cap \in Nat \ {0}
ASSUME ClientAssumption ==
    /\ Clients \subseteq {"patient", "pipelined"}
    /\ PatientKinds \subseteq {"request", "notification", "invalid"}

VARIABLES
    \* the client
    client,    \* "patient" or "pipelined"
    kind,      \* what each of its objects is
    sent,      \* halves written
    offset,    \* where it reads next
    eof,       \* a patient one's last read returned nothing
    got,       \* the units it has read since its last write
    \* the fid and the session
    fid,       \* "open", "clunking" or "clunked"
    writing,   \* p9FS.write: the objects it has yet to hand over
    reading,   \* p9FS.read is waiting
    lastGen,   \* p9FidAux.lastGen
    writeOnly, awaiting, gen, curBuf, closed, err,
    wch, wchClosed,
    \* the goroutines
    writer, rpc, reader,
    panicked   \* a goroutine has panicked, which ends the program

clientVars == <<client, kind, sent, offset, eof, got>>
sessVars == <<awaiting, gen, curBuf, closed, err>>
chanVars == <<wch, wchClosed>>
goVars == <<writer, rpc, reader>>
vars == <<clientVars, fid, writing, reading, lastGen, writeOnly, sessVars, chanVars, goVars, panicked>>

-----------------------------------------------------------------------------
Objects == 1..MaxObjects
Kinds == {"request", "notification", "invalid"}
NoObject == 0
Buffers == [id : Objects, size : 1..MaxSize]
NoBuffer == [id |-> NoObject, size |-> 0]

\* Objects next..last are extracted from the fid's buffer and not yet queued.
Writes == [pc : {"idle", "mark", "queue"}, next : 1..(MaxObjects + 1), last : 0..MaxObjects]
NoWrite == [pc |-> "idle", next |-> 1, last |-> 0]

\* What follows an invalid object is never looked at, so may be invalid too.
KindsOf(c) ==
    {k \in [Objects -> IF c = "patient" THEN PatientKinds ELSE Kinds] :
        \A i, j \in Objects : i < j /\ k[i] = "invalid" => k[j] = "invalid"}

Init ==
    /\ client \in Clients
    /\ kind \in KindsOf(client)
    /\ sent = 0 /\ offset = 0 /\ eof = FALSE /\ got = <<>>
    /\ fid = "open" /\ writing = NoWrite /\ reading = FALSE /\ lastGen = 0
    /\ writeOnly \in BOOLEAN
    /\ awaiting = FALSE /\ gen = 0 /\ curBuf = NoBuffer /\ closed = FALSE /\ err = FALSE
    /\ wch = <<>> /\ wchClosed = FALSE
    /\ writer = [pc |-> "take", obj |-> NoObject]
    /\ rpc = [pc |-> "read", obj |-> NoObject]
    /\ reader = [pc |-> "read", buf |-> NoBuffer]
    /\ panicked = FALSE

-----------------------------------------------------------------------------
(* write.  The objects that are complete are marked as awaited and queued  *)
(* one after the other; queueing is outside the session's lock.            *)

MayWrite(n) ==
    /\ fid = "open" /\ writing.pc = "idle"
    /\ sent + n <= 2 * MaxObjects
    /\ IF client = "patient" THEN n <= 2 /\ eof /\ ~reading ELSE n % 2 = 0

\* What if: the objects already extracted stay in the fid's buffer.
WriteCallAgain ==
    /\ \E n \in 1..4 :
          /\ MayWrite(n)
          /\ sent' = sent + n
          /\ LET last == (sent + n) \div 2
             IN  writing' = IF last > 0
                            THEN [pc |-> "mark", next |-> 1, last |-> last]
                            ELSE NoWrite
    /\ eof' = FALSE /\ got' = <<>>
    /\ UNCHANGED <<client, kind, offset, fid, reading, lastGen, writeOnly, sessVars, chanVars, goVars, panicked>>

WriteCall ==
    /\ \E n \in 1..4 :
          /\ MayWrite(n)
          /\ sent' = sent + n
          /\ LET first == sent \div 2 + 1
                 last == (sent + n) \div 2
             IN  writing' = IF first <= last
                            THEN [pc |-> "mark", next |-> first, last |-> last]
                            ELSE NoWrite
    /\ eof' = FALSE /\ got' = <<>>
    /\ UNCHANGED <<client, kind, offset, fid, reading, lastGen, writeOnly, sessVars, chanVars, goVars, panicked>>

\* What if: only the first object of a session is awaited.
WriteMarkFirst ==
    /\ writing.pc = "mark"
    /\ IF closed
       THEN writing' = NoWrite /\ UNCHANGED awaiting
       ELSE /\ writing' = [writing EXCEPT !.pc = "queue"]
            /\ awaiting' = (awaiting \/ (~writeOnly /\ gen = 0))
    /\ UNCHANGED <<clientVars, fid, reading, lastGen, writeOnly, gen, curBuf, closed, err, chanVars, goVars, panicked>>

WriteMark ==
    /\ writing.pc = "mark"
    /\ IF closed
       THEN writing' = NoWrite /\ UNCHANGED awaiting
       ELSE /\ writing' = [writing EXCEPT !.pc = "queue"]
            /\ awaiting' = (awaiting \/ ~writeOnly)
    /\ UNCHANGED <<clientVars, fid, reading, lastGen, writeOnly, gen, curBuf, closed, err, chanVars, goVars, panicked>>

Queued == IF writing.next < writing.last
          THEN [writing EXCEPT !.pc = "mark", !.next = @ + 1]
          ELSE NoWrite

\* Sending on a closed channel panics.
WriteQueue ==
    /\ writing.pc = "queue"
    /\ \/ ~wchClosed /\ Len(wch) < Cap
          /\ wch' = Append(wch, writing.next)
          /\ writing' = Queued
          /\ UNCHANGED panicked
       \/ wchClosed /\ panicked' = TRUE /\ UNCHANGED <<wch, writing>>
    /\ UNCHANGED <<clientVars, fid, reading, lastGen, writeOnly, sessVars, wchClosed, goVars>>

\* The 9P client gives up on its write: ctx is done.
WriteFlush ==
    /\ writing.pc = "queue" /\ client = "pipelined"
    /\ writing' = NoWrite
    /\ UNCHANGED <<clientVars, fid, reading, lastGen, writeOnly, sessVars, chanVars, goVars, panicked>>

-----------------------------------------------------------------------------
(* read.                                                                   *)

ReadCall ==
    /\ fid = "open" /\ ~reading
    /\ client = "patient" => writing.pc = "idle"
    /\ reading' = TRUE
    /\ UNCHANGED <<clientVars, fid, writing, lastGen, writeOnly, sessVars, chanVars, goVars, panicked>>

\* What p9Session.read waits for.
Ready == writeOnly \/ ~awaiting \/ err \/ closed
Unread == ~writeOnly /\ lastGen < gen

\* What a patient client has read; a pipelined one does not look at it.
Eof(n) == client = "patient" /\ n = 0
Gets(n) == IF client = "patient" THEN got \o [i \in 1..n |-> <<curBuf.id, offset + i>>] ELSE got

\* Nothing new.  The client starts again from the beginning of the file.
ReadNothing ==
    /\ reading /\ Ready /\ ~Unread
    /\ reading' = FALSE /\ eof' = Eof(0) /\ offset' = 0
    /\ UNCHANGED <<client, kind, sent, got, fid, writing, lastGen, writeOnly, sessVars, chanVars, goVars, panicked>>

\* What if: lastGen advances with the first bytes of a response.
ReadSomeOnce ==
    /\ reading /\ Ready /\ Unread
    /\ offset <= curBuf.size
    /\ \E n \in 0..MaxSize :
          /\ n = curBuf.size - offset \/ (0 < n /\ n < curBuf.size - offset)
          /\ got' = Gets(n)
          /\ offset' = IF n = 0 THEN 0 ELSE offset + n
          /\ eof' = Eof(n)
    /\ lastGen' = gen
    /\ reading' = FALSE
    /\ UNCHANGED <<client, kind, sent, fid, writing, writeOnly, sessVars, chanVars, goVars, panicked>>

\* As many units as the client has room for, at least one if there is one.
ReadSome ==
    /\ reading /\ Ready /\ Unread
    /\ offset <= curBuf.size
    /\ \E n \in 0..MaxSize :
          /\ n = curBuf.size - offset \/ (0 < n /\ n < curBuf.size - offset)
          /\ got' = Gets(n)
          /\ lastGen' = IF offset + n >= curBuf.size THEN gen ELSE lastGen
          /\ offset' = IF n = 0 THEN 0 ELSE offset + n
          /\ eof' = Eof(n)
    /\ reading' = FALSE
    /\ UNCHANGED <<client, kind, sent, fid, writing, writeOnly, sessVars, chanVars, goVars, panicked>>

\* curBuf[offset:] with an offset past the end panics.
ReadPastEnd ==
    /\ reading /\ Ready /\ Unread
    /\ offset > curBuf.size
    /\ panicked' = TRUE
    /\ UNCHANGED <<clientVars, fid, writing, reading, lastGen, writeOnly, sessVars, chanVars, goVars>>

ReadReturn == ReadNothing \/ ReadSome \/ ReadPastEnd

-----------------------------------------------------------------------------
(* clunk: close sets closed and wakes the readers, then closes wch.        *)

ClunkMark ==
    /\ fid = "open"
    /\ client = "patient" => writing.pc = "idle" /\ ~reading
    /\ fid' = "clunking" /\ closed' = TRUE
    /\ UNCHANGED <<clientVars, writing, reading, lastGen, writeOnly, awaiting, gen, curBuf, err, chanVars, goVars, panicked>>

\* What if: the channel stays open.
ClunkCloseOpen ==
    /\ fid = "clunking"
    /\ fid' = "clunked"
    /\ UNCHANGED <<clientVars, writing, reading, lastGen, writeOnly, sessVars, chanVars, goVars, panicked>>

ClunkClose ==
    /\ fid = "clunking"
    /\ fid' = "clunked" /\ wchClosed' = TRUE
    /\ UNCHANGED <<clientVars, writing, reading, lastGen, writeOnly, sessVars, wch, goVars, panicked>>

-----------------------------------------------------------------------------
(* The goroutines.  The writer closes its end of the pipe when it returns, *)
(* rpc closes the other end when it can read no further message.           *)

PipeDown == writer.pc = "done" \/ rpc.pc = "closed"

WriterTake ==
    /\ writer.pc = "take" /\ wch # <<>>
    /\ writer' = [pc |-> "write", obj |-> Head(wch)]
    /\ wch' = Tail(wch)
    /\ UNCHANGED <<clientVars, fid, writing, reading, lastGen, writeOnly, sessVars, wchClosed, rpc, reader, panicked>>

\* wch is closed and empty, or a write to the pipe fails.
WriterReturn ==
    /\ \/ writer.pc = "take" /\ wch = <<>> /\ wchClosed
       \/ writer.pc = "write" /\ rpc.pc = "closed"
    /\ writer' = [pc |-> "done", obj |-> NoObject]
    /\ UNCHANGED <<clientVars, fid, writing, reading, lastGen, writeOnly, sessVars, chanVars, rpc, reader, panicked>>

\* A message that is not JSON-RPC closes the connection.
RpcRead ==
    /\ rpc.pc = "read" /\ writer.pc = "write"
    /\ rpc' = IF kind[writer.obj] = "invalid"
              THEN [pc |-> "closed", obj |-> NoObject]
              ELSE [pc |-> "handle", obj |-> writer.obj]
    /\ writer' = [pc |-> "take", obj |-> NoObject]
    /\ UNCHANGED <<clientVars, fid, writing, reading, lastGen, writeOnly, sessVars, chanVars, reader, panicked>>

\* Only a request is answered.
RpcHandle ==
    /\ rpc.pc = "handle"
    /\ \/ kind[rpc.obj] = "notification" /\ UNCHANGED reader
       \/ kind[rpc.obj] = "request" /\ writer.pc = "done" /\ UNCHANGED reader
       \/ /\ kind[rpc.obj] = "request" /\ reader.pc = "read" /\ writer.pc # "done"
          /\ \E n \in 1..MaxSize :
                reader' = [pc |-> "store", buf |-> [id |-> rpc.obj, size |-> n]]
    /\ rpc' = [pc |-> "read", obj |-> NoObject]
    /\ UNCHANGED <<clientVars, fid, writing, reading, lastGen, writeOnly, sessVars, chanVars, writer, panicked>>

RpcReturn ==
    /\ rpc.pc = "read" /\ writer.pc = "done"
    /\ rpc' = [pc |-> "closed", obj |-> NoObject]
    /\ UNCHANGED <<clientVars, fid, writing, reading, lastGen, writeOnly, sessVars, chanVars, writer, reader, panicked>>

\* What if: awaiting is left alone.
ReaderStoreKeep ==
    /\ reader.pc = "store"
    /\ curBuf' = reader.buf /\ gen' = gen + 1
    /\ reader' = [pc |-> "read", buf |-> NoBuffer]
    /\ UNCHANGED <<clientVars, fid, writing, reading, lastGen, writeOnly, awaiting, closed, err, chanVars, writer, rpc, panicked>>

ReaderStore ==
    /\ reader.pc = "store"
    /\ curBuf' = reader.buf /\ gen' = gen + 1 /\ awaiting' = FALSE
    /\ reader' = [pc |-> "read", buf |-> NoBuffer]
    /\ UNCHANGED <<clientVars, fid, writing, reading, lastGen, writeOnly, closed, err, chanVars, writer, rpc, panicked>>

\* What if: the reader returns without setErr.
ReaderReturnSilent ==
    /\ reader.pc = "read" /\ PipeDown
    /\ reader' = [pc |-> "done", buf |-> NoBuffer]
    /\ UNCHANGED <<clientVars, fid, writing, reading, lastGen, writeOnly, sessVars, chanVars, writer, rpc, panicked>>

ReaderReturn ==
    /\ reader.pc = "read" /\ PipeDown
    /\ reader' = [pc |-> "done", buf |-> NoBuffer] /\ err' = TRUE
    /\ UNCHANGED <<clientVars, fid, writing, reading, lastGen, writeOnly, awaiting, gen, curBuf, closed, chanVars, writer, rpc, panicked>>

Writer == WriterTake \/ WriterReturn
Rpc == RpcRead \/ RpcHandle \/ RpcReturn
Reader == ReaderStore \/ ReaderReturn
Write == WriteMark \/ WriteQueue
Client == WriteCall \/ WriteFlush \/ ReadCall \/ ClunkMark

Next ==
    /\ ~panicked
    /\ Client \/ Write \/ ReadReturn \/ ClunkClose \/ Writer \/ Rpc \/ Reader

\* The goroutines and the calls in progress go on; the client need not.
Fairness ==
    /\ WF_vars(~panicked /\ Write) /\ WF_vars(~panicked /\ ReadReturn)
    /\ WF_vars(~panicked /\ ClunkClose)
    /\ WF_vars(~panicked /\ Writer) /\ WF_vars(~panicked /\ Rpc) /\ WF_vars(~panicked /\ Reader)

Spec == Init /\ [][Next]_vars
FairSpec == Spec /\ Fairness

-----------------------------------------------------------------------------
(* Properties.                                                             *)

ClientTypeOK ==
    /\ client \in Clients /\ kind \in [Objects -> Kinds]
    /\ sent \in 0..(2 * MaxObjects)
    /\ offset \in Nat /\ eof \in BOOLEAN
    /\ got \in Seq(Objects \X (1..MaxSize))

WriteTypeOK ==
    /\ fid \in {"open", "clunking", "clunked"}
    /\ writing \in Writes
    /\ writing.pc # "idle" => writing.next <= writing.last
    /\ writeOnly \in BOOLEAN /\ awaiting \in BOOLEAN
    /\ closed \in BOOLEAN /\ err \in BOOLEAN
    /\ wch \in Seq(Objects) /\ Len(wch) <= Cap /\ wchClosed \in BOOLEAN

ReadTypeOK ==
    /\ reading \in BOOLEAN /\ lastGen \in Nat /\ gen \in Nat
    /\ curBuf \in Buffers \cup {NoBuffer}
    /\ gen > 0 => curBuf \in Buffers

GoTypeOK ==
    /\ writer \in [pc : {"take", "done"}, obj : {NoObject}] \cup [pc : {"write"}, obj : Objects]
    /\ rpc \in [pc : {"read", "closed"}, obj : {NoObject}] \cup [pc : {"handle"}, obj : Objects]
    /\ reader \in [pc : {"read", "done"}, buf : {NoBuffer}] \cup [pc : {"store"}, buf : Buffers]
    /\ panicked \in BOOLEAN

\* Every variable has its type; an object is one of the client's where it is
\* used, and wch never holds more than its capacity.
TypeOK == ClientTypeOK /\ WriteTypeOK /\ ReadTypeOK /\ GoTypeOK

\* The objects on their way from write to the reader goroutine.
InFlight ==
    {wch[i] : i \in 1..Len(wch)}
    \cup (IF writing.pc = "queue" THEN {writing.next} ELSE {})
    \cup ({writer.obj, rpc.obj, reader.buf.id} \ {NoObject})

\* awaiting is true while, and only while, a request is in flight (p9fs.go:54);
\* for a patient client, while the session is up.
AwaitingIsInFlight ==
    client = "patient" /\ ~writeOnly /\ ~PipeDown =>
        (awaiting <=> \E k \in InFlight : kind[k] # "notification")

\* A read waits only while a request is in flight (p9fs.go:38, 41).
WaitsOnlyForARequest ==
    client = "patient" /\ reading /\ ~Ready /\ ~PipeDown =>
        \E k \in InFlight : kind[k] = "request"

\* A patient client reads nothing but units of the response to its last
\* request, in order, and when a read returns nothing it has read them all.
ReadsTheAnswer ==
    client = "patient" =>
        /\ \A i \in 1..Len(got) : got[i] = <<sent \div 2, i>>
        /\ eof /\ sent > 0 /\ sent % 2 = 0 /\ ~closed /\ ~err /\ ~writeOnly =>
              curBuf.id = sent \div 2 /\ Len(got) = curBuf.size

\* No patient client makes the program panic: not by sending on the closed
\* channel, and not by reading past the end of a response that replaced a
\* longer one.
NoPanic == client = "patient" => ~panicked

\* Every object reaches rpc at most once and in the order of the writes.
QueuedInOrder ==
    LET line == (IF rpc.obj = NoObject THEN <<>> ELSE <<rpc.obj>>)
                \o (IF writer.obj = NoObject THEN <<>> ELSE <<writer.obj>>)
                \o wch
                \o (IF writing.pc = "idle" THEN <<>> ELSE <<writing.next>>)
    IN  \A i, j \in 1..Len(line) : i < j => line[i] < line[j]

\* Every read of a patient client returns.
ReadsReturn == (client = "patient" /\ reading) ~> ~reading

\* Every write returns, unless the session has failed.
WritesReturn == writing.pc # "idle" ~> (writing.pc = "idle" \/ err \/ panicked)

\* After a clunk the session's goroutines end, whatever is in flight.
SessionEnds == closed ~> (panicked \/ (writer.pc = "done" /\ rpc.pc = "closed" /\ reader.pc = "done"))
=============================================================================
