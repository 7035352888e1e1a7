-------------------------- MODULE P9SessionProofs --------------------------
(* Theorems about P9Session, for any number and size of objects and        *)
(* answers and any capacity of the channel: no goroutine panics, and a     *)
(* client that waits for its answer reads that answer and nothing else.    *)
EXTENDS P9Session, TLAPS, SequenceTheorems

-----------------------------------------------------------------------------
(* The inductive invariant.                                                *)

\* What holds an object, from a write to the reader goroutine.
OfWrite == IF writing.pc = "idle" THEN 0 ELSE 1
OfWriter == IF writer.pc = "write" THEN 1 ELSE 0
OfRpc == IF rpc.pc = "handle" THEN 1 ELSE 0
OfReader == IF reader.pc = "store" THEN 1 ELSE 0
Load == OfWrite + Len(wch) + OfWriter + OfRpc + OfReader

\* How the parts end: the reader with err, wch after the clunk.
EndsInv ==
    /\ err <=> reader.pc = "done"
    /\ err => PipeDown
    /\ closed <=> fid # "open"
    /\ wchClosed => closed

\* A patient client does one thing at a time, and nothing after its clunk.
PatientInv ==
    client = "patient" =>
        /\ kind \in [Objects -> PatientKinds]
        /\ fid # "open" => writing.pc = "idle" /\ ~reading
        /\ reading => writing.pc = "idle"
        /\ ~panicked
        /\ writing.pc # "idle" => writing.next = writing.last

\* While the session is up a patient client has at most one object on its
\* way, and reads from the beginning once it is answered.
ServiceInv ==
    (client = "patient" /\ ~writeOnly) =>
        /\ eof => offset = 0
        /\ offset <= curBuf.size
        /\ ~err => /\ Load <= 1
                   /\ Load = 1 => offset = 0 /\ ~eof /\ (awaiting \/ writing.pc = "mark")

\* Without notifications something is awaited only while it is on its way.
AwaitedInv ==
    (client = "patient" /\ ~writeOnly /\ ~PipeDown /\ "notification" \notin PatientKinds) =>
        (awaiting => Load = 1 /\ writing.pc # "mark")

\* The objects on their way are in order, and before those to be written.
Moving == {rpc.obj, writer.obj} \ {NoObject}
ToQueue == IF writing.pc = "idle" THEN sent \div 2 + 1 ELSE writing.next
OrderInv ==
    /\ \A i, j \in 1..Len(wch) : i < j => wch[i] < wch[j]
    /\ \A k \in Moving, i \in 1..Len(wch) : k < wch[i]
    /\ rpc.obj # NoObject /\ writer.obj # NoObject => rpc.obj < writer.obj
    /\ writing.pc # "idle" => writing.last = sent \div 2
    /\ \A k \in Moving : k < ToQueue
    /\ \A i \in 1..Len(wch) : wch[i] < ToQueue

Inv == TypeOK /\ EndsInv /\ PatientInv /\ ServiceInv /\ AwaitedInv /\ OrderInv

-----------------------------------------------------------------------------
(* Types.                                                                  *)

LEMMA Bounds ==
    /\ MaxObjects \in Nat /\ MaxSize \in Nat /\ MaxSize # 0 /\ Cap \in Nat /\ Cap # 0
    /\ \A S : <<>> \in Seq(S) /\ Len(<<>>) = 0
    /\ NoObject \notin Objects /\ NoBuffer \notin Buffers
    /\ NoWrite \in Writes
  BY BoundAssumption, EmptySeq DEF Objects, NoObject, NoBuffer, Buffers, NoWrite, Writes

LEMMA InitTypeOK == Init => TypeOK
  <1> SUFFICES ASSUME Init PROVE TypeOK
    OBVIOUS
  <1>1. kind \in [Objects -> Kinds]
    BY ClientAssumption DEF Init, KindsOf, Kinds
  <1>2. ClientTypeOK
    <2>1. client \in Clients /\ sent = 0 /\ offset = 0 /\ eof = FALSE /\ got = <<>>
      BY DEF Init
    <2>2. 0 \in 0..(2 * MaxObjects)
      BY Bounds
    <2> QED
      BY <1>1, <2>1, <2>2, Bounds DEF ClientTypeOK
  <1>3. WriteTypeOK
    <2>1. /\ fid = "open" /\ writing = NoWrite /\ writeOnly \in BOOLEAN /\ awaiting = FALSE
          /\ closed = FALSE /\ err = FALSE /\ wch = <<>> /\ wchClosed = FALSE
      BY DEF Init
    <2>2. writing \in Writes /\ writing.pc = "idle"
      BY <2>1, Bounds DEF NoWrite
    <2>3. wch \in Seq(Objects) /\ Len(wch) <= Cap
      BY <2>1, Bounds
    <2>4. {writeOnly, awaiting, closed, err, wchClosed} \subseteq BOOLEAN
      BY <2>1
    <2> QED
      BY <2>1, <2>2, <2>3, <2>4 DEF WriteTypeOK
  <1>4. ReadTypeOK
    <2>1. reading = FALSE /\ lastGen = 0 /\ gen = 0 /\ curBuf = NoBuffer
      BY DEF Init
    <2>2. reading \in BOOLEAN
      BY <2>1
    <2>3. lastGen \in Nat /\ gen \in Nat /\ ~(gen > 0)
      BY <2>1
    <2> QED
      BY <2>1, <2>2, <2>3 DEF ReadTypeOK
  <1>5. GoTypeOK
    BY DEF Init, GoTypeOK
  <1> QED
    BY <1>2, <1>3, <1>4, <1>5 DEF TypeOK

\* What a step leaves alone keeps its type.
LEMMA TypesStay ==
    ASSUME TypeOK
    PROVE  /\ UNCHANGED clientVars => ClientTypeOK'
           /\ UNCHANGED <<fid, writing, writeOnly, awaiting, closed, err, chanVars>> => WriteTypeOK'
           /\ UNCHANGED <<reading, lastGen, gen, curBuf>> => ReadTypeOK'
           /\ UNCHANGED <<goVars, panicked>> => GoTypeOK'
  <1>1. UNCHANGED clientVars => ClientTypeOK'
    BY DEF TypeOK, ClientTypeOK, clientVars
  <1>2. UNCHANGED <<fid, writing, writeOnly, awaiting, closed, err, chanVars>> => WriteTypeOK'
    BY DEF TypeOK, WriteTypeOK, chanVars
  <1>3. UNCHANGED <<reading, lastGen, gen, curBuf>> => ReadTypeOK'
    BY DEF TypeOK, ReadTypeOK
  <1>4. UNCHANGED <<goVars, panicked>> => GoTypeOK'
    BY DEF TypeOK, GoTypeOK, goVars
  <1> QED
    BY <1>1, <1>2, <1>3, <1>4

\* The objects that a write completes.
LEMMA Halves ==
    ASSUME TypeOK, NEW n \in 1..4, MayWrite(n)
    PROVE  /\ sent + n \in 0..(2 * MaxObjects)
           /\ sent \div 2 \in Nat /\ (sent + n) \div 2 \in 0..MaxObjects
           /\ sent \div 2 + 1 \in 1..(MaxObjects + 1)
           /\ n <= 2 => (sent + n) \div 2 <= sent \div 2 + 1
           /\ sent \div 2 <= (sent + n) \div 2
  BY Bounds DEF TypeOK, ClientTypeOK, MayWrite

LEMMA WriteCallTypes == ASSUME TypeOK, WriteCall PROVE TypeOK'
  <1>1. PICK n \in 1..4 :
          /\ MayWrite(n) /\ sent' = sent + n
          /\ writing' = IF sent \div 2 + 1 <= (sent + n) \div 2
                        THEN [pc |-> "mark", next |-> sent \div 2 + 1, last |-> (sent + n) \div 2]
                        ELSE NoWrite
    BY DEF WriteCall
  <1>2. writing' \in Writes /\ (writing'.pc # "idle" => writing'.next <= writing'.last)
    BY <1>1, Halves, Bounds DEF Writes, NoWrite
  <1>3. WriteTypeOK'
    BY <1>2 DEF WriteCall, TypeOK, WriteTypeOK, sessVars, chanVars
  <1>4. sent' \in 0..(2 * MaxObjects)
    BY <1>1, Halves
  <1>5. ClientTypeOK'
    BY <1>4, Bounds DEF WriteCall, TypeOK, ClientTypeOK
  <1> QED
    BY <1>3, <1>5, TypesStay DEF WriteCall, TypeOK, sessVars

LEMMA WriteTypes == ASSUME TypeOK, Write \/ WriteFlush PROVE TypeOK'
  <1>w. writing \in Writes
    BY DEF TypeOK, WriteTypeOK
  <1>1. CASE WriteMark
    <2>1. writing' \in Writes /\ (writing'.pc # "idle" => writing'.next <= writing'.last)
      BY <1>1, <1>w, Bounds DEF WriteMark, TypeOK, WriteTypeOK, Writes, NoWrite
    <2>2. awaiting' \in BOOLEAN
      BY <1>1 DEF WriteMark, TypeOK, WriteTypeOK
    <2>3. WriteTypeOK'
      BY <1>1, <2>1, <2>2 DEF WriteMark, TypeOK, WriteTypeOK, chanVars
    <2> QED
      BY <1>1, <2>3, TypesStay DEF WriteMark, TypeOK
  <1>2. CASE WriteQueue
    <2>1. writing.pc = "queue" /\ writing.next <= writing.last /\ writing.last \in 0..MaxObjects
          /\ writing.next \in 1..(MaxObjects + 1)
      BY <1>2, <1>w DEF WriteQueue, TypeOK, WriteTypeOK, Writes
    <2>2. writing.next \in Objects
      BY <2>1, Bounds DEF Objects
    <2>3. wch \in Seq(Objects) /\ Len(wch) <= Cap /\ Len(wch) \in Nat
      BY LenProperties DEF TypeOK, WriteTypeOK
    <2>4. wch' \in Seq(Objects) /\ Len(wch') <= Cap
      <3>1. Append(wch, writing.next) \in Seq(Objects) /\ Len(Append(wch, writing.next)) = Len(wch) + 1
        BY <2>2, <2>3, AppendProperties
      <3> QED
        BY <1>2, <2>3, <3>1, Bounds DEF WriteQueue
    <2>5. Queued \in Writes /\ (Queued.pc # "idle" => Queued.next <= Queued.last)
      <3>1. CASE writing.next < writing.last
        <4>1. writing.next + 1 \in 1..(MaxObjects + 1) /\ writing.next + 1 <= writing.last
          BY <2>1, <3>1, Bounds
        <4> QED
          BY <1>w, <3>1, <4>1 DEF Queued, Writes
      <3>2. CASE ~(writing.next < writing.last)
        BY <3>2, Bounds DEF Queued, NoWrite
      <3> QED
        BY <3>1, <3>2
    <2>6. writing' \in Writes /\ (writing'.pc # "idle" => writing'.next <= writing'.last)
      BY <1>2, <1>w, <2>1, <2>5 DEF WriteQueue
    <2>7. WriteTypeOK'
      BY <1>2, <2>4, <2>6 DEF WriteQueue, TypeOK, WriteTypeOK, sessVars
    <2>8. GoTypeOK'
      BY <1>2 DEF WriteQueue, TypeOK, GoTypeOK, goVars
    <2> QED
      BY <1>2, <2>7, <2>8, TypesStay DEF WriteQueue, TypeOK, sessVars
  <1>3. CASE WriteFlush
    <2>1. WriteTypeOK'
      BY <1>3, Bounds DEF WriteFlush, TypeOK, WriteTypeOK, NoWrite, sessVars, chanVars
    <2> QED
      BY <1>3, <2>1, TypesStay DEF WriteFlush, TypeOK, sessVars
  <1> QED
    BY <1>1, <1>2, <1>3 DEF Write

\* What a client gets.
LEMMA UnreadBuffer == ASSUME TypeOK, Unread PROVE curBuf \in Buffers
  BY DEF TypeOK, ReadTypeOK, Unread

LEMMA UnitsType ==
    ASSUME TypeOK, Unread, NEW n \in 0..MaxSize, n <= curBuf.size - offset
    PROVE  [i \in 1..n |-> <<curBuf.id, offset + i>>] \in Seq(Objects \X (1..MaxSize))
  <1> DEFINE units == [i \in 1..n |-> <<curBuf.id, offset + i>>]
  <1>1. curBuf.id \in Objects /\ curBuf.size \in 1..MaxSize /\ offset \in Nat /\ n \in Nat
    BY UnreadBuffer, Bounds DEF Buffers, TypeOK, ClientTypeOK
  <1>2. \A i \in 1..n : offset + i \in 1..MaxSize
    BY <1>1, Bounds
  <1>3. units \in [1..n -> Objects \X (1..MaxSize)]
    BY <1>1, <1>2
  <1>4. units \in UNION {[1..m -> Objects \X (1..MaxSize)] : m \in Nat}
    BY <1>1, <1>3
  <1>5. units \in Seq(Objects \X (1..MaxSize))
    BY <1>4, SeqDef
  <1> QED
    BY <1>5

LEMMA GetsType ==
    ASSUME TypeOK, Unread, NEW n \in 0..MaxSize, n <= curBuf.size - offset
    PROVE  Gets(n) \in Seq(Objects \X (1..MaxSize))
  <1>1. got \in Seq(Objects \X (1..MaxSize))
    BY DEF TypeOK, ClientTypeOK
  <1> QED
    BY <1>1, UnitsType, ConcatProperties DEF Gets

LEMMA ReadTypes == ASSUME TypeOK, ReadCall \/ ReadReturn PROVE TypeOK'
  <1>1. CASE ReadCall
    <2>1. ReadTypeOK'
      BY <1>1 DEF ReadCall, TypeOK, ReadTypeOK, sessVars
    <2> QED
      BY <1>1, <2>1, TypesStay DEF ReadCall, TypeOK, sessVars
  <1>2. CASE ReadNothing
    <2>1. ReadTypeOK'
      BY <1>2 DEF ReadNothing, TypeOK, ReadTypeOK, sessVars
    <2>2. ClientTypeOK'
      BY <1>2 DEF ReadNothing, TypeOK, ClientTypeOK, Eof
    <2> QED
      BY <1>2, <2>1, <2>2, TypesStay DEF ReadNothing, TypeOK, sessVars
  <1>3. CASE ReadSome
    <2>1. curBuf.size \in Nat /\ offset \in Nat
      BY <1>3, UnreadBuffer, Bounds DEF ReadSome, Buffers, TypeOK, ClientTypeOK
    <2>2. PICK n \in 0..MaxSize :
            /\ n <= curBuf.size - offset /\ got' = Gets(n)
            /\ lastGen' = IF offset + n >= curBuf.size THEN gen ELSE lastGen
            /\ offset' = IF n = 0 THEN 0 ELSE offset + n
            /\ eof' = Eof(n)
      BY <1>3, <2>1, Bounds DEF ReadSome
    <2>3. got' \in Seq(Objects \X (1..MaxSize))
      BY <1>3, <2>2, GetsType DEF ReadSome
    <2>4. ReadTypeOK'
      BY <1>3, <2>2 DEF ReadSome, TypeOK, ReadTypeOK, sessVars
    <2>5. ClientTypeOK'
      BY <1>3, <2>1, <2>2, <2>3 DEF ReadSome, TypeOK, ClientTypeOK, Eof
    <2> QED
      BY <1>3, <2>4, <2>5, TypesStay DEF ReadSome, TypeOK, sessVars
  <1>4. CASE ReadPastEnd
    <2>1. GoTypeOK'
      BY <1>4 DEF ReadPastEnd, TypeOK, GoTypeOK, goVars
    <2> QED
      BY <1>4, <2>1, TypesStay DEF ReadPastEnd, TypeOK, sessVars
  <1> QED
    BY <1>1, <1>2, <1>3, <1>4 DEF ReadReturn

LEMMA ClunkTypes == ASSUME TypeOK, ClunkMark \/ ClunkClose PROVE TypeOK'
  <1>1. WriteTypeOK'
    BY DEF ClunkMark, ClunkClose, TypeOK, WriteTypeOK, sessVars, chanVars
  <1> QED
    BY <1>1, TypesStay DEF ClunkMark, ClunkClose, TypeOK, sessVars

LEMMA WriterTypes == ASSUME TypeOK, Writer PROVE TypeOK'
  <1>1. CASE WriterTake
    <2>1. wch \in Seq(Objects) /\ wch # <<>> /\ Len(wch) <= Cap
      BY <1>1 DEF WriterTake, TypeOK, WriteTypeOK
    <2>2. /\ Head(wch) \in Objects /\ Tail(wch) \in Seq(Objects)
          /\ Len(Tail(wch)) = Len(wch) - 1 /\ Len(wch) \in Nat
      BY <2>1, HeadTailProperties, LenProperties
    <2>3. WriteTypeOK'
      BY <1>1, <2>1, <2>2, Bounds DEF WriterTake, TypeOK, WriteTypeOK, sessVars
    <2>4. GoTypeOK'
      BY <1>1, <2>2 DEF WriterTake, TypeOK, GoTypeOK
    <2> QED
      BY <1>1, <2>3, <2>4, TypesStay DEF WriterTake, TypeOK, sessVars
  <1>2. CASE WriterReturn
    <2>1. GoTypeOK'
      BY <1>2 DEF WriterReturn, TypeOK, GoTypeOK
    <2> QED
      BY <1>2, <2>1, TypesStay DEF WriterReturn, TypeOK, sessVars
  <1> QED
    BY <1>1, <1>2 DEF Writer

LEMMA RpcTypes == ASSUME TypeOK, Rpc PROVE TypeOK'
  <1>1. GoTypeOK'
    <2>1. CASE RpcRead
      BY <2>1 DEF RpcRead, TypeOK, GoTypeOK
    <2>2. CASE RpcHandle
      <3>1. rpc.obj \in Objects
        BY <2>2 DEF RpcHandle, TypeOK, GoTypeOK
      <3>2. reader' \in [pc : {"read", "done"}, buf : {NoBuffer}] \cup [pc : {"store"}, buf : Buffers]
        BY <2>2, <3>1 DEF RpcHandle, TypeOK, GoTypeOK, Buffers
      <3> QED
        BY <2>2, <3>2 DEF RpcHandle, TypeOK, GoTypeOK
    <2>3. CASE RpcReturn
      BY <2>3 DEF RpcReturn, TypeOK, GoTypeOK
    <2> QED
      BY <2>1, <2>2, <2>3 DEF Rpc
  <1> QED
    BY <1>1, TypesStay DEF Rpc, RpcRead, RpcHandle, RpcReturn, TypeOK, sessVars

LEMMA ReaderTypes == ASSUME TypeOK, Reader PROVE TypeOK'
  <1>1. GoTypeOK'
    BY DEF Reader, ReaderStore, ReaderReturn, TypeOK, GoTypeOK
  <1>2. WriteTypeOK'
    BY DEF Reader, ReaderStore, ReaderReturn, TypeOK, WriteTypeOK, chanVars
  <1>3. ReadTypeOK'
    <2>1. CASE ReaderStore
      <3>1. reader.buf \in Buffers
        BY <2>1 DEF ReaderStore, TypeOK, GoTypeOK
      <3> QED
        BY <2>1, <3>1 DEF ReaderStore, TypeOK, ReadTypeOK
    <2>2. CASE ReaderReturn
      BY <2>2 DEF ReaderReturn, TypeOK, ReadTypeOK
    <2> QED
      BY <2>1, <2>2 DEF Reader
  <1> QED
    BY <1>1, <1>2, <1>3, TypesStay DEF Reader, ReaderStore, ReaderReturn, TypeOK

LEMMA NextTypes == TypeOK /\ [Next]_vars => TypeOK'
  <1>1. TypeOK /\ Next => TypeOK'
    BY WriteCallTypes, WriteTypes, ReadTypes, ClunkTypes, WriterTypes, RpcTypes, ReaderTypes DEF Next, Client
  <1>2. TypeOK /\ UNCHANGED vars => TypeOK'
    BY TypesStay DEF vars, TypeOK, sessVars
  <1> QED
    BY <1>1, <1>2

-----------------------------------------------------------------------------
(* The invariants that keep the parts in step.                             *)

LEMMA Types ==
    ASSUME TypeOK
    PROVE  /\ writing \in Writes /\ writing.pc \in {"idle", "mark", "queue"}
           /\ writing.next \in Nat /\ writing.last \in Nat
           /\ wch \in Seq(Objects) /\ Len(wch) \in Nat
           /\ writer.pc \in {"take", "write", "done"} /\ (writer.pc = "write" <=> writer.obj # NoObject)
           /\ rpc.pc \in {"read", "handle", "closed"} /\ (rpc.pc = "handle" <=> rpc.obj # NoObject)
           /\ reader.pc \in {"read", "store", "done"} /\ (reader.pc = "store" <=> reader.buf # NoBuffer)
           /\ writer.pc = "write" => writer.obj \in Objects
           /\ rpc.pc = "handle" => rpc.obj \in Objects
           /\ reader.pc = "store" => reader.buf \in Buffers
           /\ {awaiting, err, closed, wchClosed, panicked, reading, eof} \subseteq BOOLEAN
           /\ curBuf.size \in Nat /\ offset \in Nat
  <1>1. writing \in Writes
    BY DEF TypeOK, WriteTypeOK
  <1>2. wch \in Seq(Objects) /\ Len(wch) \in Nat
    BY LenProperties DEF TypeOK, WriteTypeOK
  <1>3. writing.pc \in {"idle", "mark", "queue"} /\ writing.next \in Nat /\ writing.last \in Nat
    BY <1>1, Bounds DEF Writes
  <1>4. writer.pc \in {"take", "write", "done"} /\ (writer.pc = "write" <=> writer.obj # NoObject)
    BY Bounds DEF TypeOK, GoTypeOK
  <1>5. rpc.pc \in {"read", "handle", "closed"} /\ (rpc.pc = "handle" <=> rpc.obj # NoObject)
    BY Bounds DEF TypeOK, GoTypeOK
  <1>6. reader.pc \in {"read", "store", "done"} /\ (reader.pc = "store" <=> reader.buf # NoBuffer)
    BY Bounds DEF TypeOK, GoTypeOK
  <1>7. curBuf.size \in Nat
    BY Bounds DEF TypeOK, ReadTypeOK, Buffers, NoBuffer
  <1>8. /\ writer.pc = "write" => writer.obj \in Objects
        /\ rpc.pc = "handle" => rpc.obj \in Objects
        /\ reader.pc = "store" => reader.buf \in Buffers
    BY DEF TypeOK, GoTypeOK
  <1>9. {awaiting, err, closed, wchClosed, panicked, reading, eof} \subseteq BOOLEAN /\ offset \in Nat
    BY DEF TypeOK, ClientTypeOK, WriteTypeOK, ReadTypeOK, GoTypeOK
  <1> QED
    BY <1>1, <1>2, <1>3, <1>4, <1>5, <1>6, <1>7, <1>8, <1>9

LEMMA InitInv == Init => EndsInv /\ PatientInv /\ ServiceInv /\ AwaitedInv /\ OrderInv
  <1> SUFFICES ASSUME Init PROVE EndsInv /\ PatientInv /\ ServiceInv /\ AwaitedInv /\ OrderInv
    OBVIOUS
  <1>1. /\ writing.pc = "idle" /\ wch = <<>> /\ Len(wch) = 0 /\ writer.pc = "take" /\ rpc.pc = "read"
        /\ reader.pc = "read" /\ writer.obj = NoObject /\ rpc.obj = NoObject
        /\ sent = 0 /\ offset = 0 /\ curBuf.size = 0 /\ ~eof /\ ~err /\ ~closed /\ ~wchClosed
        /\ ~awaiting /\ ~panicked /\ ~reading /\ fid = "open"
    BY Bounds DEF Init, NoWrite, NoBuffer
  <1>2. EndsInv /\ Load = 0 /\ Moving = {}
    <2>1. OfWrite = 0 /\ OfWriter = 0 /\ OfRpc = 0 /\ OfReader = 0
      BY <1>1 DEF OfWrite, OfWriter, OfRpc, OfReader
    <2> QED
      BY <1>1, <2>1 DEF EndsInv, Load, Moving
  <1>3. PatientInv
    BY <1>1 DEF PatientInv, Init, KindsOf
  <1>4. ServiceInv /\ AwaitedInv
    BY <1>1, <1>2 DEF ServiceInv, AwaitedInv
  <1>5. OrderInv
    BY <1>1, <1>2 DEF OrderInv
  <1> QED
    BY <1>2, <1>3, <1>4, <1>5

LEMMA NextEnds == ASSUME Inv, [Next]_vars PROVE EndsInv'
  <1>1. CASE WriteCall \/ Write \/ WriteFlush \/ ReadCall \/ ReadReturn
    BY <1>1 DEF Inv, WriteCall, Write, WriteMark, WriteQueue, WriteFlush, ReadCall, ReadReturn, ReadNothing,
       ReadSome, ReadPastEnd, EndsInv, PipeDown, sessVars, chanVars, goVars
  <1>2. CASE ClunkMark \/ ClunkClose
    BY <1>2 DEF Inv, ClunkMark, ClunkClose, EndsInv, PipeDown, sessVars, chanVars, goVars
  <1>3. CASE Writer \/ Rpc
    BY <1>3, Types DEF Inv, Writer, WriterTake, WriterReturn, Rpc, RpcRead, RpcHandle, RpcReturn, EndsInv, PipeDown,
       sessVars, chanVars
  <1>4. CASE Reader
    BY <1>4, Types DEF Inv, Reader, ReaderStore, ReaderReturn, EndsInv, PipeDown, chanVars
  <1>5. CASE UNCHANGED vars
    BY <1>5 DEF Inv, vars, EndsInv, PipeDown, sessVars, chanVars, goVars
  <1> QED
    BY <1>1, <1>2, <1>3, <1>4, <1>5 DEF Next, Client

\* A patient client is at most one object ahead.
LEMMA NextPatient == ASSUME Inv, [Next]_vars PROVE PatientInv'
  <1> SUFFICES ASSUME client = "patient" PROVE PatientInv'
    BY DEF Next, Client, WriteCall, Write, WriteMark, WriteQueue, WriteFlush, ReadCall, ReadReturn, ReadNothing,
       ReadSome, ReadPastEnd, ClunkMark, ClunkClose, Writer, WriterTake, WriterReturn, Rpc, RpcRead, RpcHandle,
       RpcReturn, Reader, ReaderStore, ReaderReturn, PatientInv, clientVars, vars
  <1> USE DEF Inv
  <1>1. CASE WriteCall
    <2>1. PICK n \in 1..4 :
            /\ MayWrite(n)
            /\ writing' = IF sent \div 2 + 1 <= (sent + n) \div 2
                          THEN [pc |-> "mark", next |-> sent \div 2 + 1, last |-> (sent + n) \div 2]
                          ELSE NoWrite
      BY <1>1 DEF WriteCall
    <2>2. n <= 2 /\ ~reading /\ fid = "open"
      BY <2>1 DEF MayWrite
    <2>3. writing'.pc # "idle" => writing'.next = writing'.last
      BY <2>1, <2>2, Halves DEF NoWrite
    <2> QED
      BY <1>1, <2>2, <2>3 DEF WriteCall, PatientInv
  <1>2. CASE Write
    <2>1. writing.pc # "idle" /\ writing.next = writing.last /\ ~wchClosed
      BY <1>2 DEF Write, WriteMark, WriteQueue, PatientInv, EndsInv
    <2>2. writing'.pc # "idle" => writing'.next = writing'.last
      BY <1>2, <2>1, Types DEF Write, WriteMark, WriteQueue, Queued, NoWrite, Writes
    <2> QED
      BY <1>2, <2>1, <2>2 DEF Write, WriteMark, WriteQueue, PatientInv, clientVars
  <1>3. CASE ReadPastEnd
    BY <1>3, Types DEF ReadPastEnd, Unread, ServiceInv
  <1>4. CASE WriteFlush
    BY <1>4 DEF WriteFlush
  <1>5. CASE ReadCall \/ ReadNothing \/ ReadSome \/ ClunkMark \/ ClunkClose
    BY <1>5 DEF ReadCall, ReadNothing, ReadSome, ClunkMark, ClunkClose, PatientInv, clientVars
  <1>6. CASE Writer \/ Rpc \/ Reader \/ UNCHANGED vars
    BY <1>6 DEF Writer, WriterTake, WriterReturn, Rpc, RpcRead, RpcHandle, RpcReturn, Reader, ReaderStore,
       ReaderReturn, vars, PatientInv, clientVars
  <1> QED
    BY <1>1, <1>2, <1>3, <1>4, <1>5, <1>6 DEF Next, Client, ReadReturn

-----------------------------------------------------------------------------
(* What a patient client has on its way.                                   *)

LEMMA LenType == (TypeOK => Len(wch) \in Nat) /\ (TypeOK' => Len(wch') \in Nat)
  BY LenProperties DEF TypeOK, WriteTypeOK

LEMMA Parts ==
    /\ {OfWrite, OfWriter, OfRpc, OfReader, OfWrite', OfWriter', OfRpc', OfReader'} \subseteq {0, 1}
    /\ OfWrite = 0 <=> writing.pc = "idle"
    /\ OfWriter = 1 <=> writer.pc = "write"
    /\ OfRpc = 1 <=> rpc.pc = "handle"
    /\ OfReader = 1 <=> reader.pc = "store"
    /\ OfWrite' = 0 <=> writing'.pc = "idle"
    /\ OfWriter' = 1 <=> writer'.pc = "write"
    /\ OfRpc' = 1 <=> rpc'.pc = "handle"
    /\ OfReader' = 1 <=> reader'.pc = "store"
  BY DEF OfWrite, OfWriter, OfRpc, OfReader

LEMMA LoadType == (TypeOK => Load \in Nat) /\ (TypeOK' => Load' \in Nat)
  BY LenType, Parts DEF Load

\* How each step changes the number of objects on their way.
LEMMA LoadOfWrite ==
    ASSUME TypeOK, PatientInv, EndsInv, client = "patient"
    PROVE  /\ WriteCall => writing.pc = "idle" /\ eof /\ fid = "open" /\ Load' <= Load + 1
           /\ Write => /\ Load' <= Load /\ writing.pc # "idle"
                       /\ writing'.pc # "idle" => Load' = Load /\ writing.pc = "mark" /\ writing'.pc = "queue"
           /\ WriteQueue => Load' = Load /\ writing'.pc = "idle" /\ writing.pc = "queue"
  <1>1. ASSUME WriteCall
        PROVE  writing.pc = "idle" /\ eof /\ fid = "open" /\ Load' <= Load + 1
    <2>1. writing.pc = "idle" /\ eof /\ fid = "open"
      BY <1>1 DEF WriteCall, MayWrite
    <2> QED
      BY <1>1, <2>1, LenType, Parts DEF WriteCall, Load, chanVars, goVars
  <1>2. ASSUME WriteMark
        PROVE  /\ Load' <= Load /\ writing.pc = "mark"
               /\ writing'.pc # "idle" => Load' = Load /\ writing'.pc = "queue"
    <2>1. writing.pc = "mark" /\ writing'.pc \in {"idle", "queue"}
      BY <1>2, Types DEF WriteMark, Writes, NoWrite
    <2> QED
      BY <1>2, <2>1, LenType, Parts DEF WriteMark, Load, chanVars, goVars
  <1>3. ASSUME WriteQueue
        PROVE  Load' = Load /\ writing'.pc = "idle" /\ writing.pc = "queue"
    <2>1. writing.pc = "queue" /\ ~wchClosed /\ writing.next = writing.last /\ writing.next \in Objects
      BY <1>3, Types, Bounds DEF WriteQueue, EndsInv, PatientInv, TypeOK, WriteTypeOK, Writes, Objects
    <2>2. writing'.pc = "idle"
      BY <1>3, <2>1, Types DEF WriteQueue, Queued, NoWrite
    <2>3. Len(wch') = Len(wch) + 1
      BY <1>3, <2>1, Types, AppendProperties DEF WriteQueue
    <2> QED
      BY <1>3, <2>1, <2>2, <2>3, LenType, Parts DEF WriteQueue, Load, goVars
  <1> QED
    BY <1>1, <1>2, <1>3, LoadType DEF Write

LEMMA LoadOfGoroutines ==
    ASSUME TypeOK
    PROVE  /\ WriterTake => Load' = Load
           /\ WriterReturn => Load' <= Load /\ PipeDown'
           /\ RpcRead => Load' <= Load /\ (Load' = Load \/ PipeDown')
           /\ RpcHandle => /\ Load' <= Load
                           /\ Load' = Load \/ kind[rpc.obj] = "notification" \/ PipeDown'
           /\ RpcReturn => Load' = Load /\ PipeDown'
           /\ ReaderStore => Load' = Load - 1
  <1>1. ASSUME WriterTake PROVE Load' = Load
    <2>1. Len(wch') = Len(wch) - 1
      BY <1>1, Types, HeadTailProperties DEF WriterTake
    <2> QED
      BY <1>1, <2>1, LenType, Parts DEF WriterTake, Load
  <1>2. ASSUME WriterReturn PROVE Load' <= Load /\ PipeDown'
    BY <1>2, LenType, Parts DEF WriterReturn, Load, PipeDown, chanVars
  <1>3. ASSUME RpcRead PROVE Load' <= Load /\ (Load' = Load \/ PipeDown')
    BY <1>3, LenType, Parts DEF RpcRead, Load, PipeDown, chanVars
  <1>4. ASSUME RpcHandle
        PROVE  Load' <= Load /\ (Load' = Load \/ kind[rpc.obj] = "notification" \/ PipeDown')
    BY <1>4, LenType, Parts DEF RpcHandle, Load, PipeDown, chanVars
  <1>5. ASSUME RpcReturn PROVE Load' = Load /\ PipeDown'
    BY <1>5, LenType, Parts DEF RpcReturn, Load, PipeDown, chanVars
  <1>6. ASSUME ReaderStore PROVE Load' = Load - 1
    BY <1>6, LenType, Parts DEF ReaderStore, Load, chanVars
  <1> QED
    BY <1>1, <1>2, <1>3, <1>4, <1>5, <1>6

LEMMA LoadStays ==
    UNCHANGED <<writing, chanVars, goVars>> => Load' = Load /\ UNCHANGED PipeDown
  BY DEF Load, OfWrite, OfWriter, OfRpc, OfReader, PipeDown, chanVars, goVars

\* One object at a time, and reading from the beginning after its answer.
LEMMA NextService == ASSUME Inv, [Next]_vars PROVE ServiceInv'
  <1> USE DEF Inv
  <1> DEFINE Up == ~err => /\ Load <= 1
                           /\ Load = 1 => offset = 0 /\ ~eof /\ (awaiting \/ writing.pc = "mark")
  <1>c. UNCHANGED <<client, writeOnly>>
    BY DEF Next, Client, WriteCall, Write, WriteMark, WriteQueue, WriteFlush, ReadCall, ReadReturn, ReadNothing,
       ReadSome, ReadPastEnd, ClunkMark, ClunkClose, Writer, WriterTake, WriterReturn, Rpc, RpcRead, RpcHandle,
       RpcReturn, Reader, ReaderStore, ReaderReturn, clientVars, vars
  <1> SUFFICES ASSUME client = "patient", ~writeOnly
               PROVE  (eof => offset = 0)' /\ (offset <= curBuf.size)' /\ Up'
    BY <1>c DEF ServiceInv
  <1>0. (eof => offset = 0) /\ offset <= curBuf.size /\ Up /\ Load \in Nat
    BY LoadType DEF ServiceInv
  <1>1. CASE WriteCall
    <2>1. offset' = offset /\ curBuf' = curBuf /\ err' = err /\ ~eof' /\ Load' <= Load + 1
      BY <1>1, LoadOfWrite DEF WriteCall, sessVars
    <2>2. eof /\ offset = 0 /\ (~err => Load = 0)
      BY <1>0, <1>1, LoadOfWrite
    <2>3. Load' = 1 => writing'.pc = "mark" \/ err
      <3>1. writing'.pc \in {"idle", "mark"}
        BY <1>1 DEF WriteCall, NoWrite
      <3>2. ASSUME writing'.pc = "idle", Load' = 1, ~err PROVE FALSE
        BY <1>1, <2>2, <3>2, LoadOfWrite, LenType, Parts DEF WriteCall, Load, chanVars, goVars
      <3> QED
        BY <3>1, <3>2
    <2> QED
      BY <1>0, <2>1, <2>2, <2>3
  <1>2. CASE Write
    <2>1. UNCHANGED <<offset, eof, curBuf, err>>
      BY <1>2 DEF Write, WriteMark, WriteQueue, clientVars, sessVars
    <2>2. CASE WriteMark
      <3>1. Load' <= Load /\ (writing'.pc # "idle" => awaiting' /\ Load' = Load)
        <4>1. Load' <= Load /\ (writing'.pc # "idle" => Load' = Load)
          BY <1>2, LoadOfWrite
        <4>2. writing'.pc # "idle" => awaiting'
          <5>1. closed => writing'.pc = "idle"
            BY <2>2 DEF WriteMark, NoWrite
          <5>2. ~closed => awaiting'
            BY <2>2 DEF WriteMark
          <5> QED
            BY <5>1, <5>2
        <4> QED
          BY <4>1, <4>2
      <3>2. writing'.pc = "idle" => Load' = Load - 1
        BY <2>2, LenType, Parts DEF WriteMark, Load, chanVars, goVars
      <3> QED
        BY <1>0, <2>1, <3>1, <3>2
    <2>3. CASE WriteQueue
      <3>1. Load' = Load /\ awaiting' = awaiting /\ writing.pc = "queue"
        BY <2>3, LoadOfWrite DEF WriteQueue, sessVars
      <3> QED
        BY <1>0, <2>1, <3>1
    <2> QED
      BY <1>2, <2>2, <2>3 DEF Write
  <1>3. CASE ReadNothing \/ ReadSome
    <2>1. reading /\ ~closed /\ writing.pc = "idle" /\ (err \/ ~awaiting)
      BY <1>3 DEF ReadNothing, ReadSome, Ready, PatientInv, EndsInv, TypeOK, WriteTypeOK
    <2>2. ~err => Load = 0
      BY <1>0, <2>1
    <2>3. UNCHANGED <<curBuf, err>> /\ Load' = Load
      BY <1>3, LoadStays DEF ReadNothing, ReadSome, sessVars
    <2>4. (eof => offset = 0)' /\ (offset <= curBuf.size)'
      <3>1. CASE ReadNothing
        BY <3>1, <2>3, Types DEF ReadNothing
      <3>2. CASE ReadSome
        <4>1. PICK n \in 0..MaxSize :
                /\ n <= curBuf.size - offset
                /\ offset' = IF n = 0 THEN 0 ELSE offset + n
                /\ eof' = Eof(n)
          BY <3>2, Types, Bounds DEF ReadSome
        <4>2. n \in Nat /\ offset \in Nat /\ curBuf.size \in Nat /\ curBuf' = curBuf
          BY <2>3, <4>1, Types, Bounds
        <4>3. offset' <= curBuf'.size
          BY <4>1, <4>2
        <4>4. eof' => offset' = 0
          BY <4>1 DEF Eof
        <4> QED
          BY <4>3, <4>4
      <3> QED
        BY <1>3, <3>1, <3>2
    <2> QED
      BY <2>2, <2>3, <2>4
  <1>4. CASE ReadPastEnd
    BY <1>0, <1>4, Types DEF ReadPastEnd
  <1>5. CASE ReadCall \/ ClunkMark \/ ClunkClose \/ UNCHANGED vars
    <2>1. UNCHANGED <<offset, eof, curBuf, err, awaiting, writing>>
      BY <1>5 DEF ReadCall, ClunkMark, ClunkClose, vars, clientVars, sessVars
    <2>2. Load' = Load
      BY <1>5 DEF ReadCall, ClunkMark, ClunkClose, vars, chanVars, goVars, Load,
         OfWrite, OfWriter, OfRpc, OfReader
    <2> QED
      BY <1>0, <2>1, <2>2
  <1>6. CASE WriteFlush
    BY <1>6 DEF WriteFlush
  <1>7. CASE Writer \/ Rpc
    <2>1. UNCHANGED <<offset, eof, curBuf, err, awaiting, writing>>
      BY <1>7 DEF Writer, WriterTake, WriterReturn, Rpc, RpcRead, RpcHandle, RpcReturn, clientVars, sessVars
    <2>2. Load' <= Load
      BY <1>0, <1>7, LoadOfGoroutines DEF Writer, Rpc
    <2>3. Load' \in Nat
      BY LoadType, NextTypes
    <2> QED
      BY <1>0, <2>1, <2>2, <2>3
  <1>8. CASE ReaderStore
    <2>1. ~err /\ Load >= 1
      BY <1>8, LenType, Parts DEF ReaderStore, EndsInv, Load
    <2>2. offset = 0 /\ ~eof /\ Load' = 0
      BY <1>0, <1>8, <2>1, LoadOfGoroutines
    <2>3. UNCHANGED <<offset, eof>> /\ curBuf'.size \in Nat
      BY <1>8, Types, Bounds DEF ReaderStore, clientVars, Buffers
    <2> QED
      BY <2>2, <2>3
  <1>9. CASE ReaderReturn
    BY <1>0, <1>9 DEF ReaderReturn, clientVars
  <1> QED
    BY <1>1, <1>2, <1>3, <1>4, <1>5, <1>6, <1>7, <1>8, <1>9 DEF Next, Client, ReadReturn, Reader

\* Without notifications, what is awaited is on its way.
LEMMA NextAwaited == ASSUME Inv, [Next]_vars PROVE AwaitedInv'
  <1> USE DEF Inv
  <1>c. UNCHANGED <<client, writeOnly, kind>>
    BY DEF Next, Client, WriteCall, Write, WriteMark, WriteQueue, WriteFlush, ReadCall, ReadReturn, ReadNothing,
       ReadSome, ReadPastEnd, ClunkMark, ClunkClose, Writer, WriterTake, WriterReturn, Rpc, RpcRead, RpcHandle,
       RpcReturn, Reader, ReaderStore, ReaderReturn, clientVars, vars
  <1> SUFFICES ASSUME client = "patient", ~writeOnly, ~PipeDown', "notification" \notin PatientKinds
               PROVE  (awaiting => Load = 1 /\ writing.pc # "mark")'
    BY <1>c DEF AwaitedInv
  <1>1. CASE WriteCall
    <2>1. ~PipeDown /\ ~err /\ awaiting' = awaiting /\ eof
      BY <1>1, LoadOfWrite DEF WriteCall, PipeDown, goVars, sessVars, EndsInv
    <2> QED
      BY <2>1 DEF AwaitedInv, ServiceInv
  <1>2. CASE Write
    <2>1. ~PipeDown /\ ~err /\ writing.pc # "idle"
      BY <1>2, LoadOfWrite DEF Write, WriteMark, WriteQueue, PipeDown, goVars, EndsInv
    <2>2. Load = 1 /\ Load \in Nat
      BY <2>1, LoadType, LenType, Parts DEF ServiceInv, Load
    <2>3. CASE WriteMark
      <3>1. writing.pc = "mark" /\ ~awaiting
        BY <2>1, <2>3 DEF WriteMark, AwaitedInv, TypeOK, WriteTypeOK
      <3>2. closed => ~awaiting'
        BY <2>3, <3>1 DEF WriteMark
      <3>3. ~closed => writing'.pc = "queue"
        BY <2>3, Types DEF WriteMark, Writes
      <3> QED
        BY <1>2, <2>2, <3>2, <3>3, LoadOfWrite
    <2>4. CASE WriteQueue
      BY <2>2, <2>4, LoadOfWrite
    <2> QED
      BY <1>2, <2>3, <2>4 DEF Write
  <1>3. CASE ReadCall \/ ReadReturn \/ ClunkMark \/ ClunkClose \/ UNCHANGED vars
    <2>1. UNCHANGED <<awaiting, writing>>
      BY <1>3 DEF ReadCall, ReadReturn, ReadNothing, ReadSome, ReadPastEnd, ClunkMark, ClunkClose, vars, sessVars
    <2>2. Load' = Load /\ PipeDown' = PipeDown
      BY <1>3 DEF ReadCall, ReadReturn, ReadNothing, ReadSome, ReadPastEnd, ClunkMark, ClunkClose, vars, chanVars,
         goVars, Load, OfWrite, OfWriter, OfRpc, OfReader, PipeDown
    <2> QED
      BY <2>1, <2>2 DEF AwaitedInv
  <1>4. CASE WriteFlush
    BY <1>4 DEF WriteFlush
  <1>5. CASE Writer \/ Rpc
    <2>1. UNCHANGED <<awaiting, writing>> /\ ~PipeDown
      BY <1>5, Types DEF Writer, WriterTake, WriterReturn, Rpc, RpcRead, RpcHandle, RpcReturn, sessVars, PipeDown
    <2>2. RpcHandle => kind[rpc.obj] # "notification"
      BY Types DEF PatientInv, RpcHandle
    <2>3. Load' = Load
      BY <1>5, <2>2, LoadOfGoroutines DEF Writer, Rpc
    <2> QED
      BY <2>1, <2>3 DEF AwaitedInv
  <1>6. CASE ReaderStore
    BY <1>6 DEF ReaderStore
  <1>7. CASE ReaderReturn
    BY <1>7 DEF ReaderReturn, PipeDown
  <1> QED
    BY <1>1, <1>2, <1>3, <1>4, <1>5, <1>6, <1>7 DEF Next, Client, Reader

-----------------------------------------------------------------------------
(* The order of the objects.                                               *)

LEMMA ToQueueStays ==
    ASSUME TypeOK, OrderInv
    PROVE  /\ ToQueue \in Nat /\ sent \div 2 \in Nat
           /\ WriteCall => ToQueue' = ToQueue
           /\ WriteMark \/ WriteFlush => ToQueue <= ToQueue' /\ ToQueue' \in Nat
           /\ WriteQueue /\ ~wchClosed => ToQueue = writing.next /\ ToQueue' = ToQueue + 1
  <1>1. sent \in Nat /\ sent \div 2 \in Nat /\ ToQueue \in Nat
    BY Types, Bounds DEF TypeOK, ClientTypeOK, ToQueue
  <1>2. ASSUME WriteCall PROVE ToQueue' = ToQueue
    <2>1. PICK n \in 1..4 :
            /\ MayWrite(n) /\ sent' = sent + n
            /\ writing' = IF sent \div 2 + 1 <= (sent + n) \div 2
                          THEN [pc |-> "mark", next |-> sent \div 2 + 1, last |-> (sent + n) \div 2]
                          ELSE NoWrite
      BY <1>2 DEF WriteCall
    <2>2. writing.pc = "idle"
      BY <2>1 DEF MayWrite
    <2>3. sent \div 2 <= (sent + n) \div 2 /\ (sent + n) \div 2 \in Nat
      BY <2>1, Halves, Bounds
    <2>4. CASE sent \div 2 + 1 <= (sent + n) \div 2
      BY <2>1, <2>2, <2>4 DEF ToQueue
    <2>5. CASE ~(sent \div 2 + 1 <= (sent + n) \div 2)
      <3>1. (sent + n) \div 2 = sent \div 2
        BY <1>1, <2>3, <2>5
      <3>2. writing'.pc = "idle"
        BY <2>1, <2>5 DEF NoWrite
      <3> QED
        BY <2>1, <2>2, <3>1, <3>2 DEF ToQueue
    <2> QED
      BY <2>4, <2>5
  <1>3. ASSUME WriteMark \/ WriteFlush PROVE ToQueue <= ToQueue' /\ ToQueue' \in Nat
    <2>1. writing.pc # "idle" /\ sent' = sent /\ writing.next <= sent \div 2 /\ writing.next \in Nat
      BY <1>3, Types DEF WriteMark, WriteFlush, TypeOK, WriteTypeOK, OrderInv, clientVars
    <2>2. writing'.pc = "idle" \/ (writing'.pc = "queue" /\ writing'.next = writing.next)
      BY <1>3, Types DEF WriteMark, WriteFlush, NoWrite, Writes
    <2> QED
      BY <1>1, <2>1, <2>2 DEF ToQueue
  <1>4. ASSUME WriteQueue, ~wchClosed PROVE ToQueue = writing.next /\ ToQueue' = ToQueue + 1
    <2>1. /\ writing.pc = "queue" /\ sent' = sent /\ writing' = Queued
          /\ writing.next \in Nat /\ writing.last \in Nat /\ writing.next <= writing.last
          /\ writing.last = sent \div 2
      BY <1>4, Types DEF WriteQueue, TypeOK, WriteTypeOK, OrderInv, clientVars
    <2>2. CASE writing.next < writing.last
      <3>1. writing'.pc = "mark" /\ writing'.next = writing.next + 1
        BY <2>1, <2>2, Types DEF Queued, Writes
      <3> QED
        BY <2>1, <3>1 DEF ToQueue
    <2>3. CASE ~(writing.next < writing.last)
      <3>1. writing'.pc = "idle" /\ writing.next = sent \div 2
        BY <2>1, <2>3 DEF Queued, NoWrite
      <3> QED
        BY <2>1, <3>1 DEF ToQueue
    <2> QED
      BY <2>2, <2>3
  <1> QED
    BY <1>1, <1>2, <1>3, <1>4

LEMMA NextOrder == ASSUME Inv, [Next]_vars PROVE OrderInv'
  <1> USE DEF Inv
  <1>0. /\ wch \in Seq(Objects) /\ Len(wch) \in Nat /\ Objects \subseteq Nat
        /\ \A i \in 1..Len(wch) : wch[i] \in Nat
        /\ Moving \subseteq Nat
    <2>1. wch \in Seq(Objects) /\ Len(wch) \in Nat /\ Objects \subseteq Nat
      BY Types, Bounds DEF Objects
    <2>2. \A i \in 1..Len(wch) : wch[i] \in Objects
      BY <2>1, ElementOfSeq
    <2>3. Moving \subseteq Objects
      BY DEF TypeOK, GoTypeOK, Moving
    <2> QED
      BY <2>1, <2>2, <2>3
  <1>1. CASE WriteCall
    <2>1. UNCHANGED <<wch, rpc, writer, Moving>> /\ ToQueue' = ToQueue
      BY <1>1, ToQueueStays DEF WriteCall, chanVars, goVars, Moving
    <2>2. writing'.pc # "idle" => writing'.last = sent' \div 2
      BY <1>1 DEF WriteCall, NoWrite
    <2> QED
      BY <2>1, <2>2 DEF OrderInv
  <1>2. CASE WriteMark \/ WriteFlush
    <2>1. /\ UNCHANGED <<wch, rpc, writer, Moving>>
          /\ ToQueue <= ToQueue' /\ ToQueue' \in Nat /\ ToQueue \in Nat
      BY <1>2, ToQueueStays DEF WriteMark, WriteFlush, chanVars, goVars, Moving
    <2>2. writing'.pc # "idle" => writing'.last = sent' \div 2
      BY <1>2, Types DEF WriteMark, WriteFlush, NoWrite, OrderInv, Writes, clientVars
    <2>3. /\ \A k \in Moving' : k < ToQueue'
          /\ \A i \in 1..Len(wch') : wch'[i] < ToQueue'
      BY <1>0, <2>1 DEF OrderInv
    <2> QED
      BY <2>1, <2>2, <2>3 DEF OrderInv
  <1>3. CASE WriteQueue /\ ~wchClosed
    <2>1. /\ UNCHANGED <<rpc, writer, Moving>> /\ wch' = Append(wch, ToQueue)
          /\ ToQueue' = ToQueue + 1 /\ ToQueue \in Nat
      BY <1>3, ToQueueStays DEF WriteQueue, goVars, Moving
    <2>2. writing.next \in Objects /\ ToQueue = writing.next
      <3>1. ToQueue = writing.next
        BY <1>3, ToQueueStays
      <3>2. writing \in Writes /\ writing.pc = "queue" /\ writing.next <= writing.last
        BY <1>3 DEF WriteQueue, TypeOK, WriteTypeOK
      <3> QED
        BY <3>1, <3>2, Bounds DEF Writes, Objects
    <2>3. /\ Len(wch') = Len(wch) + 1 /\ wch'[Len(wch) + 1] = ToQueue
          /\ \A i \in 1..Len(wch) : wch'[i] = wch[i]
      BY <1>0, <2>1, <2>2, AppendProperties
    <2>4. \A i \in 1..Len(wch') : i \in 1..Len(wch) \/ i = Len(wch) + 1
      BY <1>0, <2>3
    <2>5. writing'.pc # "idle" => writing'.last = sent' \div 2
      <3>1. writing.pc = "queue" /\ writing' = Queued /\ sent' = sent
        BY <1>3 DEF WriteQueue, clientVars
      <3>2. writing.last = sent \div 2
        BY <3>1 DEF OrderInv
      <3> QED
        BY <3>1, <3>2, Types DEF Queued, NoWrite, Writes
    <2>6. \A i, j \in 1..Len(wch') : i < j => wch'[i] < wch'[j]
      BY <1>0, <2>1, <2>3, <2>4 DEF OrderInv
    <2>7. \A k \in Moving', i \in 1..Len(wch') : k < wch'[i]
      BY <2>1, <2>3, <2>4 DEF OrderInv
    <2>8. \A i \in 1..Len(wch') : wch'[i] < ToQueue'
      BY <1>0, <2>1, <2>3, <2>4 DEF OrderInv
    <2>9. \A k \in Moving' : k < ToQueue'
      BY <1>0, <2>1 DEF OrderInv
    <2> QED
      BY <2>1, <2>5, <2>6, <2>7, <2>8, <2>9 DEF OrderInv
  <1>4. CASE \/ WriteQueue /\ wchClosed
             \/ ReadCall \/ ReadReturn \/ ClunkMark \/ ClunkClose \/ Reader \/ UNCHANGED vars
    <2>1. UNCHANGED <<wch, rpc, writer, writing, sent>>
      BY <1>4 DEF WriteQueue, ReadCall, ReadReturn, ReadNothing, ReadSome, ReadPastEnd, ClunkMark, ClunkClose, Reader,
         ReaderStore, ReaderReturn, vars, clientVars, chanVars, goVars
    <2> QED
      BY <2>1 DEF OrderInv, Moving, ToQueue
  <1>5. CASE WriterTake
    <2>1. /\ wch # <<>> /\ wch' = Tail(wch) /\ writer'.obj = Head(wch)
          /\ UNCHANGED <<rpc, writing, sent>>
      BY <1>5 DEF WriterTake, clientVars
    <2>2. /\ Len(wch') = Len(wch) - 1 /\ Len(wch) > 0 /\ writer'.obj = wch[1]
          /\ \A i \in 1..Len(wch') : wch'[i] = wch[i + 1] /\ i + 1 \in 1..Len(wch)
      BY <1>0, <2>1, HeadTailProperties, EmptySeq
    <2>3. 1 \in 1..Len(wch) /\ \A i \in 1..Len(wch') : 1 < i + 1
      BY <1>0, <2>2
    <2>4. rpc.obj # NoObject => rpc.obj \in Moving
      BY DEF Moving
    <2>5. Moving' \subseteq (IF rpc.obj = NoObject THEN {} ELSE {rpc.obj}) \cup {wch[1]}
      BY <2>1, <2>2 DEF Moving
    <2>6. ToQueue' = ToQueue
      BY <2>1 DEF ToQueue
    <2>7. ASSUME NEW i \in 1..Len(wch'), NEW j \in 1..Len(wch'), i < j PROVE wch'[i] < wch'[j]
      <3>1. i + 1 \in 1..Len(wch) /\ j + 1 \in 1..Len(wch) /\ i + 1 < j + 1
        BY <2>2, <2>7
      <3>2. wch[i + 1] < wch[j + 1]
        BY <3>1 DEF OrderInv
      <3> QED
        BY <2>2, <3>2
    <2>8. \A k \in Moving', i \in 1..Len(wch') : k < wch'[i]
      BY <2>2, <2>3, <2>4, <2>5 DEF OrderInv
    <2>9. \A k \in Moving' : k < ToQueue'
      BY <2>3, <2>4, <2>5, <2>6 DEF OrderInv
    <2>10. \A i \in 1..Len(wch') : wch'[i] < ToQueue'
      BY <2>2, <2>6 DEF OrderInv
    <2>11. rpc'.obj # NoObject => rpc'.obj < writer'.obj
      BY <2>1, <2>2, <2>3, <2>4 DEF OrderInv
    <2> QED
      BY <2>1, <2>7, <2>8, <2>9, <2>10, <2>11 DEF OrderInv
  <1>6. CASE WriterReturn \/ Rpc
    <2>1. UNCHANGED <<wch, writing, sent, ToQueue>> /\ Moving' \subseteq Moving
      BY <1>6 DEF WriterReturn, Rpc, RpcRead, RpcHandle, RpcReturn, clientVars, chanVars, Moving, ToQueue
    <2>2. rpc'.obj # NoObject /\ writer'.obj # NoObject => rpc'.obj < writer'.obj
      BY <1>6 DEF WriterReturn, Rpc, RpcRead, RpcHandle, RpcReturn
    <2> QED
      BY <2>1, <2>2 DEF OrderInv
  <1> QED
    BY <1>1, <1>2, <1>3, <1>4, <1>5, <1>6 DEF Next, Client, Write, Writer

-----------------------------------------------------------------------------
(* What a patient client reads.  Inv holds all along, and what is carried  *)
(* from the write to the reader is the object of the last write.           *)

Last == sent \div 2

CarriedInv ==
    (client = "patient" /\ ~writeOnly /\ ~err) =>
        /\ writing.pc # "idle" => writing.next = Last
        /\ \A i \in 1..Len(wch) : wch[i] = Last
        /\ {writer.obj, rpc.obj, reader.buf.id} \subseteq {NoObject, Last}

\* It has read nothing since that write, and does not take it for answered.
FreshInv ==
    (client = "patient" /\ ~writeOnly /\ ~err) =>
        /\ Load = 1 => got = <<>>
        /\ awaiting /\ ~closed => ~eof

\* An answer is read from its beginning, without gaps, until all is read.
UnreadInv ==
    client = "patient" =>
        /\ lastGen <= gen
        /\ Unread => ~eof /\ offset = Len(got) /\ offset < curBuf.size /\ curBuf.id = Last

AnswerInv ==
    client = "patient" =>
        /\ \A i \in 1..Len(got) : got[i] = <<Last, i>>
        /\ sent > 0 /\ sent % 2 = 0 /\ ~closed /\ ~err /\ ~writeOnly =>
              \/ awaiting \/ writing.pc = "mark"
              \/ curBuf.id = Last /\ (Unread \/ Len(got) = curBuf.size)

AnsweredInv == CarriedInv /\ FreshInv /\ UnreadInv /\ AnswerInv

LEMMA InitAnswered == Init => AnsweredInv
  <1> SUFFICES ASSUME Init PROVE AnsweredInv
    OBVIOUS
  <1>1. /\ writing.pc = "idle" /\ Len(wch) = 0 /\ writer.obj = NoObject /\ rpc.obj = NoObject
        /\ reader.buf.id = NoObject /\ got = <<>> /\ Len(got) = 0 /\ ~awaiting
        /\ lastGen = 0 /\ gen = 0 /\ sent = 0
    BY Bounds DEF Init, NoWrite, NoBuffer
  <1>2. CarriedInv /\ FreshInv
    BY <1>1 DEF CarriedInv, FreshInv
  <1>3. UnreadInv /\ AnswerInv
    BY <1>1 DEF UnreadInv, AnswerInv, Unread
  <1> QED
    BY <1>2, <1>3 DEF AnsweredInv

\* What no step changes, or changes back.
LEMMA Settled == [Next]_vars => UNCHANGED <<client, writeOnly>> /\ (err => err') /\ (closed => closed')
  BY DEF Next, Client, WriteCall, Write, WriteMark, WriteQueue, WriteFlush, ReadCall, ReadReturn, ReadNothing,
     ReadSome, ReadPastEnd, ClunkMark, ClunkClose, Writer, WriterTake, WriterReturn, Rpc, RpcRead, RpcHandle,
     RpcReturn, Reader, ReaderStore, ReaderReturn, clientVars, sessVars, vars

\* Nothing is on its way when a patient client writes, nor when its read
\* returns.
LEMMA NothingOnItsWay ==
    ASSUME Inv, client = "patient", ~writeOnly, ~err, WriteCall \/ ReadNothing \/ ReadSome
    PROVE  /\ Load = 0
           /\ Len(wch) = 0 /\ writer.obj = NoObject /\ rpc.obj = NoObject /\ reader.buf.id = NoObject
  <1> USE DEF Inv
  <1>1. Load \in Nat /\ Load <= 1 /\ (Load = 1 => ~eof /\ (awaiting \/ writing.pc = "mark"))
    BY LoadType DEF ServiceInv
  <1>2. ~(Load = 1)
    <2>1. CASE WriteCall
      BY <1>1, <2>1, LoadOfWrite
    <2>2. CASE ReadNothing \/ ReadSome
      <3>1. reading /\ ~closed /\ writing.pc = "idle" /\ ~awaiting
        BY <2>2 DEF ReadNothing, ReadSome, Ready, PatientInv, EndsInv, TypeOK, WriteTypeOK
      <3> QED
        BY <1>1, <3>1
    <2> QED
      BY <2>1, <2>2
  <1>3. Load = 0
    BY <1>1, <1>2
  <1>4. OfWriter = 0 /\ OfRpc = 0 /\ OfReader = 0 /\ Len(wch) = 0
    BY <1>3, LenType, Parts DEF Load
  <1>5. writer.obj = NoObject /\ rpc.obj = NoObject /\ reader.buf = NoBuffer
    BY <1>4, Parts, Types
  <1> QED
    BY <1>3, <1>4, <1>5 DEF NoBuffer

LEMMA NextCarried == ASSUME Inv, Inv', CarriedInv, [Next]_vars PROVE CarriedInv'
  <1> SUFFICES ASSUME client = "patient", ~writeOnly, ~err'
               PROVE  /\ writing'.pc # "idle" => writing'.next = Last'
                      /\ \A i \in 1..Len(wch') : wch'[i] = Last'
                      /\ {writer'.obj, rpc'.obj, reader'.buf.id} \subseteq {NoObject, Last'}
    BY Settled DEF CarriedInv
  <1>0. /\ ~err
        /\ writing.pc # "idle" => writing.next = Last
        /\ \A i \in 1..Len(wch) : wch[i] = Last
        /\ {writer.obj, rpc.obj, reader.buf.id} \subseteq {NoObject, Last}
    BY Settled DEF CarriedInv
  <1>1. CASE WriteCall
    <2>1. PICK n \in 1..4 :
            /\ sent' = sent + n
            /\ writing' = IF sent \div 2 + 1 <= (sent + n) \div 2
                          THEN [pc |-> "mark", next |-> sent \div 2 + 1, last |-> (sent + n) \div 2]
                          ELSE NoWrite
      BY <1>1 DEF WriteCall
    <2>2. writing'.pc # "idle" => writing'.last = sent' \div 2
      BY <2>1 DEF NoWrite
    <2>3. client' = "patient"
      BY Settled
    <2>4. writing'.pc # "idle" => writing'.next = writing'.last
      BY <2>3 DEF Inv, PatientInv
    <2>5. Len(wch) = 0 /\ writer.obj = NoObject /\ rpc.obj = NoObject /\ reader.buf.id = NoObject
      BY <1>0, <1>1, NothingOnItsWay
    <2>6. UNCHANGED <<wch, writer, rpc, reader>>
      BY <1>1 DEF WriteCall, chanVars, goVars
    <2> QED
      BY <2>2, <2>4, <2>5, <2>6 DEF Last
  <1>2. CASE WriteMark
    <2>1. UNCHANGED <<wch, writer, rpc, reader, sent>>
      BY <1>2 DEF WriteMark, chanVars, goVars, clientVars
    <2>2. writing'.pc # "idle" => writing.pc # "idle" /\ writing'.next = writing.next
      BY <1>2, Types DEF Inv, WriteMark, NoWrite, Writes
    <2> QED
      BY <1>0, <2>1, <2>2 DEF Last
  <1>3. CASE WriteQueue
    <2>1. writing'.pc = "idle" /\ writing.pc = "queue" /\ ~wchClosed /\ writing.next \in Objects
      <3>1. writing'.pc = "idle" /\ writing.pc = "queue"
        BY <1>3, LoadOfWrite DEF Inv
      <3>2. ~wchClosed
        BY <3>1 DEF Inv, PatientInv, EndsInv
      <3>3. writing \in Writes /\ writing.next <= writing.last
        BY <3>1 DEF Inv, TypeOK, WriteTypeOK
      <3>4. writing.next \in Objects
        BY <3>3, Bounds DEF Writes, Objects
      <3> QED
        BY <3>1, <3>2, <3>4
    <2>2. UNCHANGED <<writer, rpc, reader, sent>> /\ wch' = Append(wch, writing.next)
      BY <1>3, <2>1 DEF WriteQueue, goVars, clientVars
    <2>3. wch \in Seq(Objects)
      BY Types DEF Inv
    <2>4. \A i \in 1..Len(wch') : wch'[i] = writing.next \/ (i \in 1..Len(wch) /\ wch'[i] = wch[i])
      BY <2>1, <2>2, <2>3, AppendProperties
    <2> QED
      BY <1>0, <2>1, <2>2, <2>4 DEF Last
  <1>4. CASE WriterTake
    <2>1. wch # <<>> /\ wch \in Seq(Objects) /\ wch' = Tail(wch) /\ writer'.obj = Head(wch)
      BY <1>4, Types DEF Inv, WriterTake
    <2>2. UNCHANGED <<writing, rpc, reader, sent>>
      BY <1>4 DEF WriterTake, clientVars
    <2>3. \A i \in 1..Len(wch') : i + 1 \in 1..Len(wch) /\ wch'[i] = wch[i + 1]
      BY <2>1, HeadTailProperties, LenProperties
    <2>4. 1 \in 1..Len(wch) /\ writer'.obj = wch[1]
      BY <2>1, HeadTailProperties, LenProperties, EmptySeq
    <2> QED
      BY <1>0, <2>2, <2>3, <2>4 DEF Last
  <1>5. CASE WriterReturn \/ Rpc
    <2>1. UNCHANGED <<writing, wch, sent>>
      BY <1>5 DEF WriterReturn, Rpc, RpcRead, RpcHandle, RpcReturn, clientVars, chanVars
    <2>2. /\ writer'.obj \in {NoObject, writer.obj}
          /\ rpc'.obj \in {NoObject, writer.obj, rpc.obj}
          /\ reader'.buf.id \in {reader.buf.id, rpc.obj}
      <3>1. CASE WriterReturn
        BY <3>1, <1>0 DEF WriterReturn
      <3>2. CASE RpcRead
        BY <3>2 DEF RpcRead
      <3>3. CASE RpcHandle
        BY <3>3 DEF RpcHandle
      <3>4. CASE RpcReturn
        BY <3>4 DEF RpcReturn
      <3> QED
        BY <1>5, <3>1, <3>2, <3>3, <3>4 DEF Rpc
    <2> QED
      BY <1>0, <2>1, <2>2 DEF Last
  <1>6. CASE Reader
    <2>1. UNCHANGED <<writing, wch, writer, rpc, sent>> /\ reader'.buf.id = NoObject
      BY <1>6 DEF Reader, ReaderStore, ReaderReturn, clientVars, chanVars, NoBuffer
    <2> QED
      BY <1>0, <2>1 DEF Last
  <1>7. CASE ReadCall \/ ReadReturn \/ ClunkMark \/ ClunkClose \/ UNCHANGED vars
    <2>1. UNCHANGED <<writing, wch, writer, rpc, reader, sent>>
      BY <1>7 DEF ReadCall, ReadReturn, ReadNothing, ReadSome, ReadPastEnd, ClunkMark, ClunkClose, clientVars,
         chanVars, goVars, vars
    <2> QED
      BY <1>0, <2>1 DEF Last
  <1>8. CASE WriteFlush
    BY <1>8 DEF WriteFlush
  <1> QED
    BY <1>1, <1>2, <1>3, <1>4, <1>5, <1>6, <1>7, <1>8 DEF Next, Client, Write, Writer

LEMMA NextFresh == ASSUME Inv, Inv', FreshInv, [Next]_vars PROVE FreshInv'
  <1> SUFFICES ASSUME client = "patient", ~writeOnly, ~err'
               PROVE  /\ Load' = 1 => got' = <<>>
                      /\ awaiting' /\ ~closed' => ~eof'
    BY Settled DEF FreshInv
  <1>0. /\ ~err
        /\ Load = 1 => got = <<>>
        /\ awaiting /\ ~closed => ~eof
    BY Settled DEF FreshInv
  <1>l. Load \in Nat /\ Load' \in Nat /\ Load <= 1 /\ (Load = 1 => ~eof)
    BY <1>0, LoadType DEF Inv, ServiceInv
  <1>c. closed => closed'
    BY Settled
  <1>1. CASE WriteCall
    BY <1>1 DEF WriteCall
  <1>2. CASE Write
    <2>1. Load' <= Load /\ Load >= 1
      <3>1. Load' <= Load /\ writing.pc # "idle"
        BY <1>2, LoadOfWrite DEF Inv
      <3>2. OfWrite = 1
        BY <3>1, Parts
      <3> QED
        BY <3>1, <3>2, LenType, Parts DEF Inv, Load
    <2>2. UNCHANGED <<got, eof>>
      BY <1>2 DEF Write, WriteMark, WriteQueue, clientVars
    <2> QED
      BY <1>0, <1>l, <2>1, <2>2
  <1>3. CASE ReadNothing \/ ReadSome
    <2>1. Load' = 0
      BY <1>0, <1>3, NothingOnItsWay, LoadStays DEF ReadNothing, ReadSome
    <2>2. awaiting' = FALSE \/ closed'
      BY <1>0, <1>3 DEF ReadNothing, ReadSome, Ready, sessVars, Inv, TypeOK, WriteTypeOK
    <2> QED
      BY <2>1, <2>2
  <1>4. CASE ReadCall \/ ReadPastEnd \/ ClunkMark \/ ClunkClose \/ UNCHANGED vars
    <2>1. UNCHANGED <<got, eof, awaiting>>
      BY <1>4 DEF ReadCall, ReadPastEnd, ClunkMark, ClunkClose, vars, clientVars, sessVars
    <2>2. Load' = Load
      BY <1>4 DEF ReadCall, ReadPastEnd, ClunkMark, ClunkClose, vars, chanVars, goVars, Load,
         OfWrite, OfWriter, OfRpc, OfReader
    <2> QED
      BY <1>0, <1>c, <2>1, <2>2
  <1>5. CASE WriteFlush
    BY <1>5 DEF WriteFlush
  <1>6. CASE Writer \/ Rpc
    <2>1. UNCHANGED <<got, eof, awaiting>>
      BY <1>6 DEF Writer, WriterTake, WriterReturn, Rpc, RpcRead, RpcHandle, RpcReturn, clientVars, sessVars
    <2>2. Load' <= Load
      BY <1>6, <1>l, LoadOfGoroutines DEF Inv, Writer, Rpc
    <2> QED
      BY <1>0, <1>c, <1>l, <2>1, <2>2
  <1>7. CASE Reader
    <2>1. ReaderStore
      BY <1>7 DEF Reader, ReaderReturn
    <2>2. Load' = Load - 1 /\ awaiting' = FALSE
      BY <2>1, LoadOfGoroutines DEF Inv, ReaderStore
    <2> QED
      BY <1>l, <2>2
  <1> QED
    BY <1>1, <1>2, <1>3, <1>4, <1>5, <1>6, <1>7 DEF Next, Client, ReadReturn

\* What the reader stores answers the last write, and is wholly unread.
LEMMA StoredAnswers ==
    ASSUME Inv, AnsweredInv, ReaderStore, client = "patient", ~writeOnly
    PROVE  /\ got = <<>> /\ offset = 0 /\ ~eof
           /\ curBuf'.id = Last /\ 0 < curBuf'.size
           /\ UNCHANGED <<sent, got, offset, eof, lastGen, writeOnly>> /\ gen' = gen + 1
  <1>1. reader.pc = "store" /\ ~err
    BY DEF ReaderStore, Inv, EndsInv
  <1>2. Load = 1
    <2>1. OfReader = 1
      BY <1>1, Parts
    <2>2. Load >= 1 /\ Load \in Nat
      BY <2>1, LenType, Parts DEF Inv, Load
    <2> QED
      BY <1>1, <2>2 DEF Inv, ServiceInv
  <1>3. got = <<>> /\ offset = 0 /\ ~eof
    BY <1>1, <1>2 DEF AnsweredInv, FreshInv, Inv, ServiceInv
  <1>4. curBuf' = reader.buf /\ reader.buf \in Buffers /\ reader.buf.id \in {NoObject, Last}
    BY <1>1, Types DEF Inv, AnsweredInv, CarriedInv, ReaderStore
  <1>5. reader.buf.id \in Objects /\ 0 < reader.buf.size
    BY <1>4, Bounds DEF Buffers
  <1> QED
    BY <1>3, <1>4, <1>5, Bounds DEF ReaderStore, clientVars

\* The units that a read of a patient client returns.
LEMMA SomeUnits ==
    ASSUME Inv, AnsweredInv, ReadSome, client = "patient", NEW n \in 0..MaxSize,
           n <= curBuf.size - offset, got' = Gets(n),
           n = curBuf.size - offset \/ 0 < n
    PROVE  /\ n > 0 /\ n \in Nat /\ offset = Len(got)
           /\ Len(got') = Len(got) + n
           /\ \A i \in 1..Len(got') : got'[i] = <<Last, i>>
  <1>1. ~eof /\ offset = Len(got) /\ offset < curBuf.size /\ curBuf.id = Last
    BY DEF AnsweredInv, UnreadInv, ReadSome
  <1>2. n \in Nat /\ offset \in Nat /\ curBuf.size \in Nat
    BY Types, Bounds DEF Inv
  <1>3. n > 0
    BY <1>1, <1>2
  <1> DEFINE units == [i \in 1..n |-> <<curBuf.id, offset + i>>]
  <1>4. got' = got \o units
    BY DEF Gets
  <1>5. /\ got \in Seq(Objects \X (1..MaxSize))
        /\ \A i \in 1..Len(got) : got[i] = <<Last, i>>
    BY DEF Inv, TypeOK, ClientTypeOK, AnsweredInv, AnswerInv
  <1>6. units \in Seq(Objects \X (1..MaxSize)) /\ DOMAIN units = 1..n
    <2>1. Unread
      BY DEF ReadSome
    <2> QED
      BY <1>2, <2>1, UnitsType DEF Inv
  <1> HIDE DEF units
  <1>7. Len(units) = n
    <2>1. Len(units) \in Nat /\ 1..Len(units) = 1..n
      BY <1>6, LenProperties
    <2> QED
      BY <1>2, <2>1
  <1>8. /\ Len(got') = Len(got) + n
        /\ \A i \in 1..(Len(got) + n) : got'[i] = IF i <= Len(got) THEN got[i] ELSE units[i - Len(got)]
    <2>1. /\ Len(got \o units) = Len(got) + Len(units)
          /\ \A i \in 1..(Len(got) + Len(units)) :
                (got \o units)[i] = IF i <= Len(got) THEN got[i] ELSE units[i - Len(got)]
      BY <1>5, <1>6, ConcatProperties, Zenon
    <2> QED
      BY <1>4, <1>7, <2>1, Zenon
  <1>9. ASSUME NEW i \in 1..(Len(got) + n) PROVE got'[i] = <<Last, i>>
    <2>1. CASE i <= Len(got)
      <3>1. i \in 1..Len(got)
        BY <1>1, <1>2, <2>1
      <3> QED
        BY <1>5, <1>8, <2>1, <3>1
    <2>2. CASE ~(i <= Len(got))
      <3>1. i - Len(got) \in 1..n /\ offset + (i - Len(got)) = i
        BY <1>1, <1>2, <2>2
      <3>2. got'[i] = units[i - Len(got)]
        BY <1>8, <2>2
      <3>3. units[i - Len(got)] = <<curBuf.id, offset + (i - Len(got))>>
        BY <3>1 DEF units
      <3> QED
        BY <1>1, <3>1, <3>2, <3>3
    <2> QED
      BY <2>1, <2>2
  <1> QED
    BY <1>1, <1>2, <1>3, <1>8, <1>9

LEMMA NextUnread == ASSUME Inv, Inv', AnsweredInv, [Next]_vars PROVE UnreadInv'
  <1> SUFFICES ASSUME client = "patient"
               PROVE  /\ lastGen' <= gen'
                      /\ Unread' => /\ ~eof' /\ offset' = Len(got') /\ offset' < curBuf'.size
                                    /\ curBuf'.id = Last'
    BY Settled DEF UnreadInv
  <1>0. /\ lastGen <= gen /\ lastGen \in Nat /\ gen \in Nat
        /\ Unread => ~eof /\ offset = Len(got) /\ offset < curBuf.size /\ curBuf.id = Last
    BY DEF AnsweredInv, UnreadInv, Inv, TypeOK, ReadTypeOK
  <1>1. CASE WriteCall
    <2>1. eof /\ UNCHANGED <<lastGen, gen, writeOnly>>
      BY <1>1 DEF WriteCall, MayWrite, sessVars
    <2> QED
      BY <1>0, <2>1 DEF Unread
  <1>2. CASE ReadNothing
    <2>1. ~Unread /\ UNCHANGED <<lastGen, gen, writeOnly>>
      BY <1>2 DEF ReadNothing, sessVars
    <2> QED
      BY <1>0, <2>1 DEF Unread
  <1>3. CASE ReadSome
    <2>1. PICK n \in 0..MaxSize :
            /\ n = curBuf.size - offset \/ (0 < n /\ n < curBuf.size - offset)
            /\ got' = Gets(n)
            /\ lastGen' = IF offset + n >= curBuf.size THEN gen ELSE lastGen
            /\ offset' = IF n = 0 THEN 0 ELSE offset + n
            /\ eof' = Eof(n)
      BY <1>3 DEF ReadSome
    <2>2. curBuf.size \in Nat /\ offset \in Nat /\ n \in Nat
      BY Types, Bounds DEF Inv
    <2>3. n > 0 /\ offset = Len(got) /\ Len(got') = Len(got) + n
      BY <1>3, <2>1, <2>2, SomeUnits
    <2>4. Unread /\ UNCHANGED <<gen, curBuf, writeOnly, sent>>
      BY <1>3 DEF ReadSome, sessVars
    <2>5. lastGen' <= gen'
      BY <1>0, <2>1, <2>4
    <2>6. ASSUME Unread' PROVE offset + n < curBuf.size
      BY <1>0, <2>1, <2>2, <2>4, <2>6 DEF Unread
    <2>7. ~eof' /\ offset' = Len(got')
      <3>1. n # 0 /\ ~Eof(n)
        BY <2>2, <2>3 DEF Eof
      <3>2. ~eof'
        BY <2>1, <3>1
      <3>3. offset' = offset + n
        BY <2>1, <3>1
      <3> QED
        BY <2>3, <3>2, <3>3
    <2> QED
      BY <1>0, <2>1, <2>3, <2>4, <2>5, <2>6, <2>7 DEF Last
  <1>4. CASE ReaderStore
    <2>1. gen' = gen + 1 /\ lastGen' = lastGen /\ writeOnly' = writeOnly
      BY <1>4 DEF ReaderStore
    <2>2. ~writeOnly => /\ ~eof' /\ offset' = 0 /\ got' = <<>>
                        /\ curBuf'.id = Last /\ 0 < curBuf'.size /\ sent' = sent
      BY <1>4, StoredAnswers
    <2>3. Unread' => ~writeOnly
      BY <2>1 DEF Unread
    <2> QED
      BY <1>0, <2>1, <2>2, <2>3, Bounds DEF Last
  <1>5. CASE \/ Write \/ WriteFlush \/ ReadCall \/ ReadPastEnd \/ ClunkMark \/ ClunkClose
             \/ Writer \/ Rpc \/ ReaderReturn \/ UNCHANGED vars
    <2>1. UNCHANGED <<lastGen, gen, writeOnly, eof, offset, got, curBuf, sent>>
      BY <1>5 DEF Write, WriteMark, WriteQueue, WriteFlush, ReadCall, ReadPastEnd, ClunkMark, ClunkClose, Writer,
         WriterTake, WriterReturn, Rpc, RpcRead, RpcHandle, RpcReturn, ReaderReturn, vars, clientVars, sessVars
    <2> QED
      BY <1>0, <2>1 DEF Unread, Last
  <1> QED
    BY <1>1, <1>2, <1>3, <1>4, <1>5 DEF Next, Client, ReadReturn, Reader

LEMMA NextAnswer == ASSUME Inv, Inv', AnsweredInv, [Next]_vars PROVE AnswerInv'
  <1> DEFINE Due == sent > 0 /\ sent % 2 = 0 /\ ~closed /\ ~err /\ ~writeOnly
             Told == \/ awaiting \/ writing.pc = "mark"
                     \/ curBuf.id = Last /\ (Unread \/ Len(got) = curBuf.size)
  <1> SUFFICES ASSUME client = "patient"
               PROVE  (\A i \in 1..Len(got') : got'[i] = <<Last', i>>) /\ (Due' => Told')
    BY Settled DEF AnswerInv
  <1>0. (\A i \in 1..Len(got) : got[i] = <<Last, i>>) /\ (Due => Told)
    BY DEF AnsweredInv, AnswerInv
  <1>1. CASE WriteCall
    <2>1. PICK n \in 1..4 :
            /\ MayWrite(n) /\ sent' = sent + n
            /\ writing' = IF sent \div 2 + 1 <= (sent + n) \div 2
                          THEN [pc |-> "mark", next |-> sent \div 2 + 1, last |-> (sent + n) \div 2]
                          ELSE NoWrite
      BY <1>1 DEF WriteCall
    <2>2. got' = <<>> /\ Len(got') = 0
      BY <1>1, Bounds DEF WriteCall
    <2>3. n \in {1, 2} /\ sent \in Nat
      BY <2>1 DEF MayWrite, Inv, TypeOK, ClientTypeOK
    <2>4. (sent + n) % 2 = 0 => sent \div 2 + 1 <= (sent + n) \div 2
      BY <2>3
    <2>5. sent' % 2 = 0 => writing'.pc = "mark"
      BY <2>1, <2>4
    <2> QED
      BY <2>2, <2>5
  <1>2. CASE WriteMark
    <2>1. UNCHANGED <<sent, got, closed, err, writeOnly>>
      BY <1>2 DEF WriteMark, clientVars
    <2>2. closed \/ writeOnly \/ awaiting'
      BY <1>2 DEF WriteMark
    <2> QED
      BY <1>0, <2>1, <2>2 DEF Last
  <1>3. CASE ReadNothing
    <2>1. UNCHANGED <<sent, got, closed, err, writeOnly, awaiting, writing, curBuf, gen, lastGen>>
      BY <1>3 DEF ReadNothing, sessVars
    <2> QED
      BY <1>0, <2>1 DEF Last, Unread
  <1>4. CASE ReadSome
    <2>1. PICK n \in 0..MaxSize :
            /\ n = curBuf.size - offset \/ (0 < n /\ n < curBuf.size - offset)
            /\ got' = Gets(n)
            /\ lastGen' = IF offset + n >= curBuf.size THEN gen ELSE lastGen
      BY <1>4 DEF ReadSome
    <2>2. curBuf.size \in Nat /\ offset \in Nat /\ n \in Nat /\ lastGen \in Nat /\ gen \in Nat
      BY Types, Bounds DEF Inv, TypeOK, ReadTypeOK
    <2>3. /\ offset = Len(got) /\ Len(got') = Len(got) + n
          /\ \A i \in 1..Len(got') : got'[i] = <<Last, i>>
      BY <1>4, <2>1, <2>2, SomeUnits
    <2>4. /\ Unread /\ curBuf.id = Last
          /\ UNCHANGED <<sent, closed, err, writeOnly, awaiting, writing, curBuf, gen>>
      BY <1>4 DEF ReadSome, sessVars, AnsweredInv, UnreadInv
    <2>5. Last' = Last
      BY <2>4 DEF Last
    <2>6. Unread' \/ Len(got') = curBuf'.size
      <3>1. CASE offset + n >= curBuf.size
        BY <2>1, <2>2, <2>3, <2>4, <3>1
      <3>2. CASE ~(offset + n >= curBuf.size)
        BY <2>1, <2>2, <2>4, <3>2 DEF Unread
      <3> QED
        BY <3>1, <3>2
    <2> QED
      BY <2>3, <2>4, <2>5, <2>6
  <1>5. CASE ReaderStore
    <2>1. UNCHANGED <<sent, got, writeOnly, Last>>
      BY <1>5 DEF ReaderStore, clientVars, Last
    <2>2. ~writeOnly => curBuf'.id = Last /\ Unread'
      <3>1. /\ ~writeOnly => curBuf'.id = Last
            /\ lastGen' = lastGen /\ gen' = gen + 1 /\ writeOnly' = writeOnly
        BY <1>5, StoredAnswers DEF ReaderStore
      <3>2. lastGen <= gen /\ lastGen \in Nat /\ gen \in Nat
        BY DEF AnsweredInv, UnreadInv, Inv, TypeOK, ReadTypeOK
      <3> QED
        BY <3>1, <3>2 DEF Unread
    <2> QED
      BY <1>0, <2>1, <2>2
  <1>6. CASE \/ WriteQueue \/ ReadCall \/ ReadPastEnd \/ ClunkMark \/ ClunkClose
             \/ Writer \/ Rpc \/ ReaderReturn \/ UNCHANGED vars
    <2>1. /\ UNCHANGED <<sent, got, writeOnly, awaiting, curBuf, gen, lastGen>>
          /\ closed => closed'
          /\ err => err'
          /\ writing' = writing \/ writing.pc = "queue"
      BY <1>6, Settled DEF WriteQueue, ReadCall, ReadPastEnd, ClunkMark, ClunkClose, Writer, WriterTake,
         WriterReturn, Rpc, RpcRead, RpcHandle, RpcReturn, ReaderReturn, vars, clientVars, sessVars
    <2> QED
      BY <1>0, <2>1 DEF Last, Unread
  <1>7. CASE WriteFlush
    BY <1>7 DEF WriteFlush
  <1> QED
    BY <1>1, <1>2, <1>3, <1>4, <1>5, <1>6, <1>7 DEF Next, Client, Write, ReadReturn, Reader

-----------------------------------------------------------------------------
(* The theorems.                                                           *)

LEMMA Inductive == Spec => []Inv
  <1>1. Init => Inv
    BY InitTypeOK, InitInv DEF Inv
  <1>2. Inv /\ [Next]_vars => Inv'
    BY NextTypes, NextEnds, NextPatient, NextService, NextAwaited, NextOrder DEF Inv
  <1> QED
    BY <1>1, <1>2, PTL DEF Spec

\* Every variable of a session has its type, and its channel never holds more
\* than its capacity (p9fs.go:47).
THEOREM TypeCorrect == Spec => []TypeOK
  <1>1. Inv => TypeOK
    BY DEF Inv
  <1> QED
    BY <1>1, Inductive, PTL

\* A client that waits for each answer never makes the program panic, whatever
\* the sizes of the answers and wherever its clunk comes (p9fs.go:390, 433, 479).
THEOREM NoPatientPanics == Spec => []NoPanic
  <1>1. Inv => NoPanic
    BY DEF Inv, PatientInv, NoPanic
  <1> QED
    BY <1>1, Inductive, PTL

LEMMA InFlightHasLoad ==
    ASSUME Inv, InFlight # {}
    PROVE  Load >= 1 /\ (Load = 1 => writing.pc # "mark")
  <1> USE DEF Inv
  <1>1. {OfWriter, OfRpc, OfReader, OfWrite} \subseteq {0, 1} /\ Len(wch) \in Nat
    BY Parts, LenType
  <1>2. OfWriter = 1 \/ OfRpc = 1 \/ OfReader = 1 \/ Len(wch) > 0 \/ writing.pc = "queue"
    <2>1. PICK k : k \in InFlight
      OBVIOUS
    <2>2. CASE k \in {wch[i] : i \in 1..Len(wch)}
      BY <1>1, <2>2
    <2>3. CASE k \in {writer.obj, rpc.obj, reader.buf.id} \ {NoObject}
      BY <2>3, Types, Parts DEF NoBuffer, NoObject
    <2>4. CASE k \in (IF writing.pc = "queue" THEN {writing.next} ELSE {})
      BY <2>4
    <2> QED
      BY <2>1, <2>2, <2>3, <2>4 DEF InFlight
  <1>3. writing.pc \in {"mark", "queue"} => OfWrite = 1
    BY Parts
  <1> QED
    BY <1>1, <1>2, <1>3 DEF Load

LEMMA LoadIsInFlight ==
    ASSUME Inv, Load = 1, writing.pc # "mark"
    PROVE  \E k \in InFlight : k \in Objects
  <1> USE DEF Inv
  <1>1. {OfWriter, OfRpc, OfReader, OfWrite} \subseteq {0, 1} /\ Len(wch) \in Nat
    BY Parts, LenType
  <1>2. OfWriter = 1 \/ OfRpc = 1 \/ OfReader = 1 \/ Len(wch) > 0 \/ OfWrite = 1
    BY <1>1 DEF Load
  <1>3. CASE OfWriter = 1
    BY <1>3, Types, Parts, Bounds DEF InFlight
  <1>4. CASE OfRpc = 1
    BY <1>4, Types, Parts, Bounds DEF InFlight
  <1>5. CASE OfReader = 1
    <2>1. reader.buf.id \in Objects
      BY <1>5, Types, Parts DEF Buffers
    <2> QED
      BY <2>1, Bounds DEF InFlight
  <1>6. CASE Len(wch) > 0
    <2>1. 1 \in 1..Len(wch) /\ wch[1] \in Objects
      BY <1>1, <1>6, Types, ElementOfSeq
    <2> QED
      BY <2>1 DEF InFlight
  <1>7. CASE OfWrite = 1
    <2>1. writing.pc = "queue"
      BY <1>7, Types, Parts
    <2>2. writing.next \in Objects
      BY <2>1, Types, Bounds DEF TypeOK, WriteTypeOK, Writes, Objects
    <2> QED
      BY <2>1, <2>2 DEF InFlight
  <1> QED
    BY <1>2, <1>3, <1>4, <1>5, <1>6, <1>7

\* As long as no notification is written, awaiting is true exactly while a
\* request is in flight, as p9fs.go:54 has it.
THEOREM AwaitingMatches ==
    ASSUME "notification" \notin PatientKinds
    PROVE  Spec => []AwaitingIsInFlight
  <1>1. Inv => AwaitingIsInFlight
    <2> SUFFICES ASSUME Inv, client = "patient", ~writeOnly, ~PipeDown
                 PROVE  awaiting <=> \E k \in InFlight : kind[k] # "notification"
      BY DEF AwaitingIsInFlight
    <2> USE DEF Inv
    <2>1. ASSUME awaiting PROVE \E k \in InFlight : kind[k] # "notification"
      <3>1. Load = 1 /\ writing.pc # "mark"
        BY <2>1 DEF AwaitedInv
      <3>2. \A k \in Objects : kind[k] \in PatientKinds
        BY DEF PatientInv
      <3> QED
        BY <3>1, <3>2, LoadIsInFlight
    <2>2. ASSUME InFlight # {} PROVE awaiting
      <3>1. Load >= 1 /\ (Load = 1 => writing.pc # "mark") /\ Load \in Nat
        BY <2>2, InFlightHasLoad, LoadType
      <3>2. ~err
        BY DEF EndsInv
      <3> QED
        BY <3>1, <3>2 DEF ServiceInv
    <2> QED
      BY <2>1, <2>2
  <1> QED
    BY <1>1, Inductive, PTL

Ascending(s) == \A i, j \in 1..Len(s) : i < j => s[i] < s[j]
Elements(s) == {s[i] : i \in 1..Len(s)}

LEMMA ConcatAscends ==
    ASSUME NEW s \in Seq(Objects), NEW t \in Seq(Objects), Ascending(s), Ascending(t),
           \A x \in Elements(s), y \in Elements(t) : x < y
    PROVE  /\ s \o t \in Seq(Objects) /\ Ascending(s \o t)
           /\ Elements(s \o t) \subseteq Elements(s) \cup Elements(t)
  <1>1. /\ s \o t \in Seq(Objects) /\ Len(s \o t) = Len(s) + Len(t)
        /\ Len(s) \in Nat /\ Len(t) \in Nat
        /\ \A i \in 1..(Len(s) + Len(t)) : (s \o t)[i] = IF i <= Len(s) THEN s[i] ELSE t[i - Len(s)]
    BY ConcatProperties, LenProperties
  <1>2. \A i \in 1..Len(s \o t) : i \notin 1..Len(s) => i - Len(s) \in 1..Len(t)
    BY <1>1
  <1>3. ASSUME NEW i \in 1..Len(s \o t), NEW j \in 1..Len(s \o t), i < j
        PROVE  (s \o t)[i] < (s \o t)[j]
    <2>1. CASE j \in 1..Len(s)
      <3>1. i \in 1..Len(s)
        BY <1>1, <1>3, <2>1
      <3> QED
        BY <1>1, <1>3, <2>1, <3>1 DEF Ascending
    <2>2. CASE i \in 1..Len(s) /\ j \notin 1..Len(s)
      <3>1. (s \o t)[i] \in Elements(s) /\ (s \o t)[j] \in Elements(t)
        BY <1>1, <1>2, <2>2 DEF Elements
      <3> QED
        BY <3>1
    <2>3. CASE i \notin 1..Len(s)
      <3>1. j \notin 1..Len(s) /\ i - Len(s) < j - Len(s)
        BY <1>1, <1>3, <2>3
      <3>2. i - Len(s) \in 1..Len(t) /\ j - Len(s) \in 1..Len(t)
        BY <1>2, <2>3, <3>1
      <3>3. t[i - Len(s)] < t[j - Len(s)]
        BY <3>1, <3>2 DEF Ascending
      <3>4. (s \o t)[i] = t[i - Len(s)] /\ (s \o t)[j] = t[j - Len(s)]
        BY <1>1, <2>3, <3>1
      <3> QED
        BY <3>3, <3>4
    <2> QED
      BY <2>1, <2>2, <2>3
  <1>4. Elements(s \o t) \subseteq Elements(s) \cup Elements(t)
    BY <1>1, <1>2 DEF Elements
  <1> QED
    BY <1>1, <1>3, <1>4 DEF Ascending

LEMMA OneAscends ==
    ASSUME NEW c, NEW x, c \/ x \in Objects
    PROVE  LET s == IF c THEN <<>> ELSE <<x>>
           IN  s \in Seq(Objects) /\ Ascending(s) /\ Elements(s) = IF c THEN {} ELSE {x}
  BY Bounds DEF Ascending, Elements

\* Every object is handed on at most once and in the order of the writes
\* (p9fs.go:408, :442).
THEOREM ObjectsStayInOrder == Spec => []QueuedInOrder
  <1>1. Inv => QueuedInOrder
    <2> SUFFICES ASSUME Inv PROVE QueuedInOrder
      OBVIOUS
    <2> USE DEF Inv
    <2> DEFINE A == IF rpc.obj = NoObject THEN <<>> ELSE <<rpc.obj>>
               B == IF writer.obj = NoObject THEN <<>> ELSE <<writer.obj>>
               C == IF writing.pc = "idle" THEN <<>> ELSE <<writing.next>>
    <2>1. A \in Seq(Objects) /\ Ascending(A) /\ Elements(A) = IF rpc.obj = NoObject THEN {} ELSE {rpc.obj}
      BY OneAscends, Types
    <2>2. B \in Seq(Objects) /\ Ascending(B) /\ Elements(B) = IF writer.obj = NoObject THEN {} ELSE {writer.obj}
      BY OneAscends, Types
    <2>3. writing.pc = "idle" \/ writing.next \in Objects
      BY Types, Bounds DEF TypeOK, WriteTypeOK, Writes, Objects
    <2>4. C \in Seq(Objects) /\ Ascending(C) /\ Elements(C) = IF writing.pc = "idle" THEN {} ELSE {writing.next}
      BY <2>3, OneAscends
    <2>5. wch \in Seq(Objects) /\ Ascending(wch)
      BY Types DEF OrderInv, Ascending
    <2> HIDE DEF A, B, C
    <2>6. /\ A \o B \in Seq(Objects) /\ Ascending(A \o B)
          /\ Elements(A \o B) \subseteq Moving
      <3>1. \A x \in Elements(A), y \in Elements(B) : x < y
        BY <2>1, <2>2 DEF OrderInv
      <3> QED
        BY <2>1, <2>2, <3>1, ConcatAscends DEF Moving
    <2>7. /\ A \o B \o wch \in Seq(Objects) /\ Ascending(A \o B \o wch)
          /\ Elements(A \o B \o wch) \subseteq Moving \cup Elements(wch)
      <3>1. \A x \in Elements(A \o B), y \in Elements(wch) : x < y
        BY <2>6 DEF OrderInv, Elements
      <3> QED
        BY <2>5, <2>6, <3>1, ConcatAscends
    <2>8. \A x \in Elements(A \o B \o wch), y \in Elements(C) : x < y
      BY <2>4, <2>7 DEF OrderInv, Elements, ToQueue
    <2>9. Ascending(A \o B \o wch \o C)
      BY <2>4, <2>7, <2>8, ConcatAscends
    <2> QED
      BY <2>9 DEF QueuedInOrder, Ascending, A, B, C
  <1> QED
    BY <1>1, Inductive, PTL

\* A client that waits for each answer reads nothing but the answer to what
\* it wrote last, in order, without gaps and without what is left of an
\* earlier one; and when a read returns nothing while the session is up, the
\* whole answer has been read (p9fs.go:467, 492).
THEOREM PatientClientsReadTheirAnswer == Spec => []ReadsTheAnswer
  <1>1. Init => AnsweredInv
    BY InitAnswered
  <1>2. Inv /\ Inv' /\ AnsweredInv /\ [Next]_vars => AnsweredInv'
    BY NextCarried, NextFresh, NextUnread, NextAnswer DEF AnsweredInv
  <1>3. Inv /\ AnsweredInv => ReadsTheAnswer
    <2> SUFFICES ASSUME Inv, AnsweredInv, client = "patient"
                 PROVE  /\ \A i \in 1..Len(got) : got[i] = <<sent \div 2, i>>
                        /\ eof /\ sent > 0 /\ sent % 2 = 0 /\ ~closed /\ ~err /\ ~writeOnly =>
                              curBuf.id = sent \div 2 /\ Len(got) = curBuf.size
      BY DEF ReadsTheAnswer
    <2>1. \A i \in 1..Len(got) : got[i] = <<sent \div 2, i>>
      BY DEF AnsweredInv, AnswerInv, Last
    <2>2. ASSUME eof, ~closed, ~err, ~writeOnly
          PROVE  ~awaiting /\ ~Unread /\ writing.pc # "mark"
      <3>1. ~awaiting /\ ~Unread
        BY <2>2 DEF AnsweredInv, FreshInv, UnreadInv
      <3>2. ~(Load = 1) /\ Load \in Nat /\ Load <= 1
        BY <2>2, LoadType DEF Inv, ServiceInv
      <3>3. OfWrite = 0
        BY <3>2, LenType, Parts DEF Inv, Load
      <3> QED
        BY <3>1, <3>3, Parts
    <2> QED
      BY <2>1, <2>2 DEF AnsweredInv, AnswerInv, Last
  <1> QED
    BY <1>1, <1>2, <1>3, Inductive, PTL DEF Spec
=============================================================================
