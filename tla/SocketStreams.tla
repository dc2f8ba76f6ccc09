---------------------------- MODULE SocketStreams ----------------------------
(***************************************************************************)
(* The streams of a connection: FdInStream under the reader of the         *)
(* client's messages, FdOutStream under what the server writes.  The       *)
(* network brings and takes bytes in pieces of any size, the buffers are   *)
(* small, either side may be slow or leave.  A byte is known by its place: *)
(* <<k, j>> is the j-th byte of the client's k-th message, a number is the *)
(* place of a byte in what the server writes.                              *)
(***************************************************************************)
EXTENDS Integers, Sequences, FiniteSets, SequencesExt

CONSTANTS
  Jobs,           \* [client, server]: messages to read, calls to write
  InSize,         \* bufSize of the FdInStream
  OutSize,        \* bufSize of the FdOutStream
  MIN_BULK_SIZE,  \* from this many bytes on the buffers are bypassed
  maxCutText,     \* the parameter MaxCutText
  MAX_INT,        \* the largest int
  Mistaken        \* messages that the bytes of a text may be taken for

VARIABLES
  client,         \* messages of the client
  next,           \* the byte of them that leaves it next
  arrived,        \* bytes of theirs that the kernel holds
  inBuf, inOffset, inUsed,    \* FdInStream: ptr .. end, offset, ptr - start
  got,            \* bytes of the message that is being read
  todo,           \* calls of the reader still to do for it
  handled,        \* the messages handed on, each as the bytes read for it
  server,         \* calls of the writer still to do
  outBuf, outOffset, sentUpTo,  \* FdOutStream: start .. ptr, offset
  made,           \* bytes that the writer has made
  wire,           \* bytes the kernel has taken
  socket          \* "open", "left" by the client, "shut"

readVars  == <<client, next, arrived, inBuf, inOffset, inUsed, got, todo, handled>>
writeVars == <<server, outBuf, outOffset, sentUpTo, made, wire>>
streamVars == <<readVars, writeVars, socket>>

LessOf(a, b) == IF a < b THEN a ELSE b
Item(n) == [op |-> "item", n |-> n]
\* A loop that goes on while there are bytes left does not turn for n < 0.
Turns(n) == IF n < 0 THEN 0 ELSE n
Skip(n) == [op |-> "skip", n |-> Turns(n)]
\* Of how many bytes the call is says whether the buffer is bypassed, to its end.
RawBytes(n) == [op |-> IF n < MIN_BULK_SIZE THEN "bytes" ELSE "bulk", n |-> Turns(n)]

\* What is read with readU32 and kept as an int.
AsInt(n) == IF n > MAX_INT THEN n - 2 * (MAX_INT + 1) ELSE n

Messages ==
  [type : {"SetPixelFormat", "SetEncodings", "FramebufferUpdateRequest", "KeyEvent",
           "PointerEvent", "ClientCutText"},
   n : 0 .. 2 * MAX_INT + 1]
Calls == [op : {"item", "skip", "bytes", "bulk", "flush"}, n : Nat]

\* An item fits into either buffer.
ASSUME StreamsAssumption ==
  /\ \A job \in Jobs : job.client \in Seq(Messages) /\ job.server \in Seq(Calls)
  /\ InSize \in Nat /\ InSize >= 4 /\ OutSize \in Nat /\ OutSize >= 4
  /\ MIN_BULK_SIZE \in Nat \ {0} /\ maxCutText \in Int
  /\ MAX_INT \in Nat /\ Mistaken \subseteq Messages

-----------------------------------------------------------------------------
(* Messages. *)

\* Their lengths, by the protocol: m.n encodings or bytes of text.
WireLength(m) ==
  CASE m.type = "SetPixelFormat" -> 20
    [] m.type = "SetEncodings" -> 4 + 4 * m.n
    [] m.type = "FramebufferUpdateRequest" -> 10
    [] m.type = "KeyEvent" -> 8
    [] m.type = "PointerEvent" -> 6
    [] m.type = "ClientCutText" -> 8 + m.n
WireBytes(k, m) == [j \in 1 .. WireLength(m) |-> <<k, j>>]

\* A text whose length is negative as an int.
TextTooLong(m) == m.type = "ClientCutText" /\ AsInt(m.n) < 0

\* The place behind a byte's.
After(b) ==
  IF b[2] < WireLength(client[b[1]]) THEN <<b[1], b[2] + 1>> ELSE <<b[1] + 1, 1>>

PixelFormatFields ==
  <<Item(1), Item(1), Item(1), Item(1), Item(2), Item(2), Item(2),
    Item(1), Item(1), Item(1), Skip(3)>>

\* Mutant: the padding of a cut text is taken for two bytes.
FieldsShortPad(m) ==
  IF m.type = "ClientCutText" THEN <<Skip(2), Item(4), RawBytes(AsInt(m.n))>>
  ELSE IF m.type = "PointerEvent" THEN <<Item(1), Item(2), Item(2)>>
  ELSE <<Skip(WireLength(m) - 1)>>

\* What the reader calls after the type of a message; the count is the one
\* that it reads on the way.
Fields(m) ==
  CASE m.type = "SetPixelFormat" -> <<Skip(3)>> \o PixelFormatFields
    [] m.type = "SetEncodings" ->
         <<Skip(1), Item(2)>> \o [i \in 1 .. m.n |-> Item(4)]
    [] m.type = "FramebufferUpdateRequest" ->
         <<Item(1), Item(2), Item(2), Item(2), Item(2)>>
    [] m.type = "KeyEvent" -> <<Item(1), Skip(2), Item(4)>>
    [] m.type = "PointerEvent" -> <<Item(1), Item(2), Item(2)>>
    [] m.type = "ClientCutText" ->
         LET len == AsInt(m.n)
         IN  <<Skip(3), Item(4), IF len > maxCutText THEN Skip(len) ELSE RawBytes(len)>>

\* Behind such a text the reader is astray: it takes the bytes of the text for
\* messages, and never finds out where one of the client's begins.
Astray == \E k \in 1 .. Len(handled) : k \in DOMAIN client /\ TextTooLong(client[k])

-----------------------------------------------------------------------------
StreamsInit ==
  /\ \E job \in Jobs : client = job.client /\ server = job.server
  /\ next = <<1, 1>> /\ arrived = <<>> /\ inBuf = <<>> /\ inOffset = 0 /\ inUsed = 0
  /\ got = <<>> /\ todo = <<>> /\ handled = <<>>
  /\ outBuf = <<>> /\ outOffset = 0 /\ sentUpTo = 0 /\ made = 0 /\ wire = <<>>
  /\ socket = "open"

(* The network and the client. *)

Arrive ==
  /\ socket = "open" /\ next[1] \in DOMAIN client
  /\ arrived' = Append(arrived, next) /\ next' = After(next)
  /\ UNCHANGED <<client, inBuf, inOffset, inUsed, got, todo, handled, writeVars, socket>>

ClientLeaves ==
  /\ socket = "open" /\ socket' = "left" /\ UNCHANGED <<readVars, writeVars>>

-----------------------------------------------------------------------------
(* Reading. *)

\* The next call, with what is left of it; todo is empty between messages,
\* when the caller asks whether there is a byte to begin with.
Call == Head(todo)
Direct == todo # <<>> /\ Call.op = "bulk"

\* InStream::check would have to wait: this many bytes are missing.
Missing ==
  IF todo = <<>> THEN inBuf = <<>>
  ELSE IF Call.op = "item" THEN Len(inBuf) < Call.n ELSE inBuf = <<>> /\ Call.n > 0

\* The call goes on after n bytes of it, or the next one begins; the last one
\* of a message hands it on.
Done(n, bytes) ==
  LET rest == IF Call.op = "item" \/ Call.n = n THEN Tail(todo)
              ELSE <<[Call EXCEPT !.n = @ - n]>> \o Tail(todo)
  IN  /\ todo' = rest
      /\ IF rest = <<>> THEN handled' = Append(handled, got \o bytes) /\ got' = <<>>
         ELSE handled' = handled /\ got' = got \o bytes

\* What a message is taken for that begins with this byte.
TakenFor(b) == IF Astray THEN Mistaken ELSE {client[b[1]]}

\* readMsg begins: the byte says what the message is.
ReadType ==
  /\ socket # "shut" /\ todo = <<>> /\ inBuf # <<>>
  /\ \E m \in TakenFor(Head(inBuf)) : got' = <<Head(inBuf)>> /\ todo' = Fields(m)
  /\ inBuf' = Tail(inBuf) /\ inUsed' = inUsed + 1
  /\ UNCHANGED <<client, next, arrived, inOffset, handled, writeVars, socket>>

\* Bytes that are in the buffer: an item, or as many of the others as there are.
ReadBuffered ==
  /\ socket # "shut" /\ todo # <<>> /\ ~Missing
  /\ LET n == LessOf(Call.n, Len(inBuf))
     IN  /\ Done(n, SubSeq(inBuf, 1, n))
         /\ inBuf' = SubSeq(inBuf, n + 1, Len(inBuf)) /\ inUsed' = inUsed + n
  /\ UNCHANGED <<client, next, arrived, inOffset, writeVars, socket>>

\* readWithTimeoutOrCallback puts what it reads behind what is there.
AppendRead(n) == inBuf' = inBuf \o SubSeq(arrived, 1, n)

\* FdInStream::overrun: what is left moves to the start of the buffer, and a
\* read fills some of the room behind it.
Overrun ==
  /\ socket # "shut" /\ Missing /\ ~Direct /\ arrived # <<>>
  /\ inOffset' = inOffset + inUsed /\ inUsed' = 0
  /\ \E n \in 1 .. LessOf(Len(arrived), InSize - Len(inBuf)) :
       AppendRead(n) /\ arrived' = SubSeq(arrived, n + 1, Len(arrived))
  /\ UNCHANGED <<client, next, got, todo, handled, writeVars, socket>>

\* FdInStream::readBytes, of many bytes: past the buffer once that is empty.
ReadDirect ==
  /\ socket # "shut" /\ Direct /\ Missing /\ arrived # <<>>
  /\ \E n \in 1 .. LessOf(Len(arrived), Call.n) :
       /\ Done(n, SubSeq(arrived, 1, n))
       /\ arrived' = SubSeq(arrived, n + 1, Len(arrived))
       /\ inOffset' = inOffset + n
  /\ UNCHANGED <<client, next, inBuf, inUsed, writeVars, socket>>

\* VNCSConnectionST::close, by whatever exception.
close == socket' = "shut"

\* The client is too slow in the middle of a message, or has left.
ReadFails ==
  /\ socket # "shut" /\ Missing /\ arrived = <<>>
  /\ todo # <<>> \/ socket = "left"
  /\ close /\ UNCHANGED <<readVars, writeVars>>

\* There is no memory for a text of a negative length, or what it is taken for
\* is no message.
ReadThrows ==
  /\ socket # "shut"
  /\ ~Astray => Len(todo) = 1 /\ TextTooLong(client[Len(handled) + 1])
  /\ close /\ UNCHANGED <<readVars, writeVars>>

-----------------------------------------------------------------------------
(* Writing. *)

New(n) == [i \in 1 .. n |-> made + i]
Room == OutSize - Len(outBuf)
NextCall == Head(server)
DirectOut == NextCall.op = "bulk"

\* What OutStream::check, writeBytes of many bytes and flush() itself flush.
MustFlush ==
  /\ server # <<>> /\ outBuf # <<>>
  /\ \/ NextCall.op = "flush" \/ DirectOut
     \/ NextCall.op = "item" /\ Room < NextCall.n
     \/ NextCall.op = "bytes" /\ Room = 0 /\ NextCall.n > 0

WrittenOf(n) ==
  server' = IF NextCall.op \in {"item", "flush"} \/ NextCall.n = n THEN Tail(server)
            ELSE <<[NextCall EXCEPT !.n = @ - n]>> \o Tail(server)

WriteBuffered ==
  /\ socket # "shut" /\ server # <<>> /\ ~MustFlush /\ ~DirectOut
  /\ LET n == IF NextCall.op = "flush" THEN 0 ELSE LessOf(NextCall.n, Room)
     IN  outBuf' = outBuf \o New(n) /\ made' = made + n /\ WrittenOf(n)
  /\ UNCHANGED <<outOffset, sentUpTo, wire, readVars, socket>>

\* A write() of FdOutStream::flush; the buffer is empty after the last one.
Flush ==
  /\ socket = "open" /\ MustFlush
  /\ \E n \in 1 .. Len(outBuf) - sentUpTo :
       /\ wire' = wire \o SubSeq(outBuf, sentUpTo + 1, sentUpTo + n)
       /\ outOffset' = outOffset + n
       /\ IF sentUpTo + n = Len(outBuf) THEN outBuf' = <<>> /\ sentUpTo' = 0
          ELSE outBuf' = outBuf /\ sentUpTo' = sentUpTo + n
  /\ UNCHANGED <<server, made, readVars, socket>>

WriteDirect ==
  /\ socket = "open" /\ server # <<>> /\ ~MustFlush /\ DirectOut
  /\ \E n \in 1 .. NextCall.n :
       /\ wire' = wire \o New(n) /\ made' = made + n /\ WrittenOf(n)
       /\ outOffset' = outOffset + n
  /\ UNCHANGED <<outBuf, sentUpTo, readVars, socket>>

\* What the owner of a stream that threw does.
Caught == close

\* writeWithTimeout throws: the peer takes nothing, or has left.  How far the
\* flush had come is lost with its frame.
WriteFails ==
  /\ socket # "shut" /\ (MustFlush \/ (server # <<>> /\ DirectOut))
  /\ sentUpTo' = 0 /\ Caught
  /\ UNCHANGED <<server, outBuf, outOffset, made, wire, readVars>>

StreamsNext ==
  \/ Arrive \/ ClientLeaves \/ ReadType \/ ReadBuffered \/ Overrun \/ ReadDirect
  \/ ReadFails \/ ReadThrows \/ WriteBuffered \/ Flush \/ WriteDirect \/ WriteFails
StreamsSpec == StreamsInit /\ [][StreamsNext]_streamVars

-----------------------------------------------------------------------------
\* How many bytes the first messages have.
BytesOf(messages) ==
  LET first[k \in 0 .. Len(messages)] ==
        IF k = 0 THEN 0 ELSE first[k - 1] + WireLength(messages[k])
  IN  first

\* Whatever pieces the bytes arrive in, each message handed on was read from
\* its own bytes, all of them and in their order, and pos() is what was read;
\* up to a text whose length is no int, of which only the length is read.
HandledAreSent ==
  /\ \A k \in DOMAIN handled :
       (\A j \in 1 .. k : ~TextTooLong(client[j])) => handled[k] = WireBytes(k, client[k])
  /\ ~Astray => inOffset + inUsed = BytesOf(client)[Len(handled)] + Len(got)

\* The peer gets what was written once and in order, whatever the sizes of
\* the writes and wherever one of them fails; length() tells how much it was.
WrittenOnce ==
  /\ wire = [i \in DOMAIN wire |-> i]
  /\ socket # "shut" => outOffset - sentUpTo + Len(outBuf) = made

\* No byte is lost, doubled or out of its place, in either direction, while
\* the reader is not astray.
BytesKeepOrder == HandledAreSent /\ WrittenOnce
=============================================================================
