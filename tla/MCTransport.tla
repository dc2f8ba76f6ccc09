----------------------------- MODULE MCTransport -----------------------------
(* Instances of what carries a picture and its changes to a client and back *)
(* from its compressed form: the messages of a connection, the streams on   *)
(* its socket, deflate, inflate and the Huffman trees of both, and the      *)
(* handles and addresses of the sockets.  They share no state: a behaviour  *)
(* is one of a single part, which the first state chooses; the others stay  *)
(* in their first state, of which one is enough.                            *)
EXTENDS UpdateMessages, SocketStreams, Descriptors, Deflation, Inflation, HuffmanTrees

VARIABLE part

transportVars ==
  <<part, messagesVars, streamVars, descriptorVars, deflationVars, inflationVars,
    treesVars>>

\* Encodings of a client: with and without DesktopSize and CopyRect, and one
\* the server does not know.
TheEncodingLists ==
  {<<"CopyRect", "hextile", "DesktopSize">>, <<"ZRLE", "hextile">>, <<"odd", "DesktopSize">>}

\* What a client sends and what is written to it: texts shorter and longer than
\* the buffers and than what is read at once, one that is too long, and one
\* whose length is no int, with what its bytes may be taken for.
Message(type, n) == [type |-> type, n |-> n]
Called(kind, n) == [op |-> kind, n |-> n]
Job(fromClient, toClient) == [client |-> fromClient, server |-> toClient]
TheJobs ==
  {Job(<<Message("KeyEvent", 0), Message("ClientCutText", 7), Message("PointerEvent", 0)>>, <<>>),
   Job(<<Message("ClientCutText", 3), Message("ClientCutText", 9)>>, <<>>),
   Job(<<Message("PointerEvent", 0), Message("ClientCutText", 13), Message("KeyEvent", 0)>>, <<>>),
   Job(<<Message("SetEncodings", 2), Message("FramebufferUpdateRequest", 0)>>, <<>>),
   Job(<<Message("SetPixelFormat", 0)>>, <<>>),
   Job(<<>>, <<Called("item", 1), Called("item", 4), Called("item", 2), RawBytes(3),
               Called("flush", 0), Called("item", 2), RawBytes(7), Called("item", 1),
               Called("flush", 0)>>),
   Job(<<Message("ClientCutText", 0), Message("PointerEvent", 0)>>,
       <<Called("item", 1), RawBytes(0), RawBytes(4), Called("flush", 0)>>)}

TheMistaken == {Message("PointerEvent", 0), Message("ClientCutText", 2), Message("ClientCutText", 15)}

\* One byte over and over, bytes without and with matches of all distances.
Mixed(n, m, k) == [i \in 1 .. n |-> ((i * i) \div k + i) % m]
TheTexts ==
  {[i \in 1 .. 60 |-> 1], Mixed(50, 3, 5), Mixed(60, 2, 7), Mixed(40, 4, 3), Mixed(50, 3, 11),
   <<1, 2, 3, 1, 2, 3, 3, 1, 2, 3, 1, 0, 1, 2, 3, 1, 2, 3, 1, 0, 0, 2, 2, 2, 2, 2, 2, 2, 2, 2,
     1, 2, 3, 3, 1, 2, 3, 1, 0, 2, 0, 2, 0, 1, 2, 3, 3, 1>>}
TheFlushes == {{}, {7}, {33}, {3, 4}, {10, 11, 40}}
TheLevels == {-1, 0, 1, 4, 10}
TheStoring == {{}, {0, 1, 2}, {1}}

\* Compressed streams as the inflater meets them: fields of so many bits.
BitsOf(k, bits) ==
  [k |-> k, bits |-> bits, last |-> FALSE, ok |-> TRUE, final |-> FALSE, dict |-> FALSE, n |-> 0]
PartOf(k, bits, n) == [BitsOf(k, bits) EXCEPT !.n = n]
LastOf(p) == [p EXCEPT !.last = TRUE]
Bad(p) == [p EXCEPT !.ok = FALSE]
Letter(b, bits) == PartOf("lit", bits, b)
Letters(n, bits) == [i \in 1 .. n |-> Letter((i % 5) + 1, bits)]
Repeat(lb, len, lx, db, dist, dx) ==
  <<PartOf("len", lb, len), BitsOf("more", lx), PartOf("dist", db, dist), BitsOf("more", dx)>>
LongCode(bits, sub) == <<PartOf("prefix", bits, sub)>>
ZlibHeader == <<BitsOf("method", 8), BitsOf("flag", 8)>>
EndOfBlock(bits) == <<BitsOf("eob", bits)>>
PlainBlock(n) ==
  <<BitsOf("stored", 3), PartOf("lens", 32, n)>> \o [i \in 1 .. n |-> PartOf("byte", 8, 10 + i)]
EmptyBlock == PlainBlock(0)
Fixed == <<BitsOf("fixed", 3)>>
LastBlock(bits) ==
  <<LastOf(BitsOf("fixed", 3))>> \o Letters(5, bits) \o <<LastOf(BitsOf("eob", 7))>>
CheckSum(ok) ==
  [i \in 1 .. 4 |-> [BitsOf("check", 8) EXCEPT !.final = (i = 4), !.ok = (i < 4 \/ ok)]]
LengthCode(bits, extra, n, rep) == [k |-> "dl", bits |-> bits, extra |-> extra, n |-> n, repeats |-> rep]
Dynamic(n, bls, bad) ==
  <<BitsOf("dynamic", 3),
    [k |-> "table", bits |-> 14, n |-> n, bls |-> bls, bb |-> 4, lb |-> 3, db |-> 2, bad |-> bad]>>
    \o [i \in 1 .. bls |-> BitsOf("bl", 3)]

\* What deflate makes of two updates, and what it cannot make.
GoodStreams ==
  {<<ZlibHeader \o Fixed \o Letters(3, 8) \o Repeat(7, 4, 0, 5, 2, 0) \o <<Letter(9, 9)>>
       \o EndOfBlock(7) \o EmptyBlock,
     PlainBlock(6) \o EmptyBlock>>,
   <<ZlibHeader \o Fixed \o Letters(6, 8) \o Repeat(7, 5, 0, 5, 3, 1) \o Letters(4, 8)
       \o Repeat(8, 3, 2, 5, 1, 0) \o Letters(9, 8) \o Repeat(8, 3, 0, 5, 7, 0)
       \o EndOfBlock(7) \o EmptyBlock>>,
   <<ZlibHeader \o Dynamic(6, 5, "no")
       \o <<LengthCode(2, 0, 1, FALSE), LengthCode(3, 2, 3, TRUE), LengthCode(1, 0, 2, FALSE)>>
       \o Letters(3, 2) \o LongCode(3, 2) \o <<Letter(8, 1)>> \o LongCode(3, 1)
       \o Repeat(1, 3, 0, 1, 1, 0) \o Letters(12, 3) \o <<PartOf("len", 3, 4), BitsOf("more", 1)>>
       \o LongCode(2, 2) \o <<PartOf("dist", 2, 3), BitsOf("more", 2)>> \o EndOfBlock(2) \o EmptyBlock,
     Fixed \o Letters(2, 8) \o EndOfBlock(7) \o EmptyBlock>>,
   <<ZlibHeader \o Fixed \o Letters(5, 8) \o EndOfBlock(7) \o Fixed \o Letters(11, 8)
       \o EndOfBlock(7) \o EmptyBlock>>,
   <<ZlibHeader \o LastBlock(9) \o CheckSum(TRUE)>>}
BadStreams ==
  {<<ZlibHeader \o LastBlock(8) \o CheckSum(FALSE)>>,
   <<ZlibHeader \o Fixed \o Letters(5, 8) \o <<BitsOf("badcode", 9)>> \o Letters(12, 8)>>,
   <<ZlibHeader \o Fixed \o Letters(5, 8) \o EndOfBlock(7) \o <<BitsOf("badtype", 3)>>>>,
   <<<<Bad(BitsOf("method", 8))>>>>,
   <<<<BitsOf("method", 8), [BitsOf("flag", 8) EXCEPT !.dict = TRUE], BitsOf("dict", 8),
       [BitsOf("dict", 8) EXCEPT !.final = TRUE]>>>>,
   <<ZlibHeader \o <<BitsOf("stored", 3), Bad(BitsOf("lens", 32))>>>>,
   <<ZlibHeader \o Dynamic(6, 5, "sizes")>>,
   <<ZlibHeader \o Dynamic(6, 5, "bits")>>,
   <<ZlibHeader \o Dynamic(2, 1, "no") \o <<LengthCode(2, 2, 1, TRUE)>>>>,
   <<ZlibHeader \o Dynamic(2, 1, "trees") \o <<LengthCode(2, 2, 2, FALSE)>>>>,
   <<ZlibHeader \o Fixed \o <<BitsOf("len", 7), BitsOf("more", 0), BitsOf("badcode", 5)>> \o PlainBlock(12)>>,
   <<ZlibHeader \o <<LastOf(BitsOf("stored", 3)), PartOf("lens", 32, 3)>>
       \o [i \in 1 .. 3 |-> BitsOf("byte", 8)] \o CheckSum(TRUE)>>}
TheStreams == GoodStreams \cup BadStreams

\* Frequencies of literals, the end of the block and lengths, and of as many
\* distances: all alike, of one symbol, and growing as the Fibonacci numbers,
\* for which the codes become longer than they may.
Freqs(n, f) == [i \in 0 .. n - 1 |-> IF i \in DOMAIN f THEN f[i] ELSE 0]
Fibonacci == <<1, 1, 2, 3, 5, 8, 13, 21, 34, 55>>
TheLiterals ==
  {[i \in 0 .. 18 |-> 1], [i \in 1 .. 9 |-> Fibonacci[i + 1]], [i \in 7 .. 15 |-> Fibonacci[17 - i]],
   [i \in 0 .. 18 |-> (i * i) % 7], [i \in {3} |-> 90], [i \in {0, 4, 9, 11} |-> 20 * i], <<>>}
TheLengths == {<<>>, [i \in {23} |-> 32], [i \in 20 .. 23 |-> 8]}
TheLFreqs ==
  {Freqs(24, [i \in {19} |-> 1] @@ literals @@ lengths) : literals \in TheLiterals, lengths \in TheLengths}
TheDFreqs ==
  {Freqs(6, f) : f \in {<<>>, [i \in {5} |-> 32], [i \in {0} |-> 32], [i \in 1 .. 2 |-> 16],
                        [i \in 0 .. 5 |-> IF i = 5 THEN 17 ELSE 3],
                        [i \in 0 .. 5 |-> Fibonacci[i + 2]], [i \in 0 .. 5 |-> Fibonacci[7 - i]]}}
TheLDesc ==
  [elems |-> 24, base |-> 20, extra |-> <<0, 1, 1, 2>>, max_length |-> 6,
   static |-> [i \in 1 .. 24 |-> IF i <= 8 THEN 4 ELSE 5]]
TheDDesc ==
  [elems |-> 6, base |-> 0, extra |-> <<0, 0, 1, 1, 2, 2>>, max_length |-> 4, static |-> [i \in 1 .. 6 |-> 3]]

------------------------------------------------------------------------------
\* Where another part runs, what a part chooses at first is one of its choices.
OneStream == CHOOSE s \in TheirStreams : TRUE
First(p, Choice) == part = p \/ Choice
OneFirst ==
  /\ First("messages", pbSize = CHOOSE s \in Sizes : TRUE)
  /\ First("streams", LET job == CHOOSE j \in Jobs : TRUE IN client = job.client /\ server = job.server)
  /\ First("deflation", text = (CHOOSE t \in Texts : TRUE) /\ flushAt = {} /\ storing = {} /\ room = 1
                     /\ compressLevel = 0)
  /\ First("inflation", stream = OneStream)
  /\ First("trees", lfreq = (CHOOSE f \in LFreqs : TRUE) /\ dfreq = (CHOOSE f \in DFreqs : TRUE))

TransportInit ==
  /\ part \in {"messages", "streams", "descriptors", "deflation", "inflation", "trees"}
  /\ OneFirst
  /\ TreesInit /\ InflationInit /\ DeflationInit /\ StreamsInit /\ MessagesInit /\ DescriptorsInit

MessagesTurn ==
  /\ part = "messages" /\ MessagesNext
  /\ UNCHANGED <<part, streamVars, descriptorVars, deflationVars, inflationVars, treesVars>>
StreamsTurn ==
  /\ part = "streams" /\ StreamsNext
  /\ UNCHANGED <<part, messagesVars, descriptorVars, deflationVars, inflationVars, treesVars>>
DescriptorsTurn ==
  /\ part = "descriptors" /\ DescriptorsNext
  /\ UNCHANGED <<part, messagesVars, streamVars, deflationVars, inflationVars, treesVars>>
DeflationTurn ==
  /\ part = "deflation" /\ DeflationNext
  /\ UNCHANGED <<part, messagesVars, streamVars, descriptorVars, inflationVars, treesVars>>
InflationTurn ==
  /\ part = "inflation" /\ InflationNext
  /\ UNCHANGED <<part, messagesVars, streamVars, descriptorVars, deflationVars, treesVars>>
TreesTurn ==
  /\ part = "trees" /\ TreesNext
  /\ UNCHANGED <<part, messagesVars, streamVars, descriptorVars, deflationVars, inflationVars>>

TransportNext ==
  MessagesTurn \/ StreamsTurn \/ DescriptorsTurn \/ DeflationTurn \/ InflationTurn \/ TreesTurn

TransportSpec == TransportInit /\ [][TransportNext]_transportVars
=============================================================================
