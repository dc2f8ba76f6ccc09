--------------------------- MODULE UpdateMessages ---------------------------
(***************************************************************************)
(* The messages between one client and its writer: the client names its    *)
(* encodings, asks for parts of the screen and reads what comes, while the *)
(* screen changes, moves and takes another size.  The screen is one row:   *)
(* a region is a set of columns, its rectangles are its runs.  What each   *)
(* update shows is the subject of UpdateFlow; here it is how the update is *)
(* put together and what the client knows when it reads it.                *)
(***************************************************************************)
EXTENDS Integers, Sequences, FiniteSets, FiniteSetsExt, SequencesExt

CONSTANTS
  Sizes,          \* widths that the desktop may have
  EncodingLists,  \* what a client may send in SetEncodings, best first
  Supported,      \* Encoder::supported
  MaxQueue        \* bound: messages on the way, in either direction

ASSUME MessagesAssumption ==
  /\ Sizes \subseteq Nat \ {0}
  /\ EncodingLists \subseteq Seq(STRING)
  /\ Supported \cap {"CopyRect", "DesktopSize"} = {}

VARIABLES
  pbSize,         \* server->pb
  state,          \* "initialisation", "normal", "closed": of the connection
  cpSize,         \* cp.width
  supportsDesktopResize, useCopyRect, currentEncoding,   \* of ConnParams
  needSetDesktopSize,                                    \* SMsgWriterV3
  asked, changed, copied, copyEnabled,               \* VNCSConnectionST
  inbox,          \* messages of the client on the way to the server
  outbox,         \* messages of the server on the way to the client
  clientSize,     \* the size of the desktop, as the client knows it
  declared,       \* encodings the server has read in SetEncodings; none before it
  waiting,        \* the client has asked and got no update yet
  why             \* the reason of the close

params == <<cpSize, supportsDesktopResize, useCopyRect, currentEncoding>>
updates == <<changed, copied, copyEnabled>>
clientVars == <<clientSize, waiting>>
messagesVars ==
  <<pbSize, state, why, params, needSetDesktopSize, asked, updates,
    inbox, outbox, declared, clientVars>>

Columns(size) == 0 .. size - 1

\* The rectangles of a region.
RectsOf(region) ==
  {r \in SUBSET region :
     /\ r # {} /\ r = Min(r) .. Max(r)
     /\ Min(r) - 1 \notin region /\ Max(r) + 1 \notin region}

\* Moves go one column to the right: what is copied comes from the left.
Sources(dest) == {x - 1 : x \in dest}

\* The bounds of a region, as an area.
Extent(region) == IF region = {} THEN 0 ELSE Max(region) - Min(region) + 1

-----------------------------------------------------------------------------
(* The writer. *)

\* SMsgWriterV3::needFakeUpdate; nothing in this build sets a cursor.
needFakeUpdate(need) == need

\* numRects, and what writeFramebufferUpdateStart adds.
NumRects(ui, need) ==
  Cardinality(RectsOf(ui.changed)) + Cardinality(RectsOf(ui.copied))
    + (IF need THEN 1 ELSE 0)

\* writeRects and writeFramebufferUpdateEnd: the copies, the pixels, the size.
Rectangles(ui, size, need) ==
  SetToSeq({[enc |-> "CopyRect", at |-> r] : r \in RectsOf(ui.copied)}) \o
  SetToSeq({[enc |-> currentEncoding, at |-> r] : r \in RectsOf(ui.changed)}) \o
  (IF need THEN <<[enc |-> "DesktopSize", at |-> Columns(size)]>> ELSE <<>>)

Throw(reason) == state' = "closed" /\ why' = reason

\* The update goes out, unless the writer throws on the way.
Write(ui, size, need) ==
  LET rects == Rectangles(ui, size, need)
  IN  IF need /\ ~supportsDesktopResize
      THEN Throw("no desktop resize") /\ outbox' = outbox
      ELSE IF Len(rects) # NumRects(ui, need)
      THEN Throw("out of sync") /\ outbox' = outbox
      ELSE /\ outbox' = Append(outbox,
                [type |-> "update", rects |-> rects, allowed |-> declared])
           /\ UNCHANGED <<state, why>>

-----------------------------------------------------------------------------
(* The connection. *)

\* SimpleUpdateTracker::enable_copyrect.
Disabled(waits) == IF useCopyRect \/ ~copyEnabled THEN {} ELSE waits.copied

\* writeFramebufferUpdate, when req is asked for, and waits is to be shown.
\* What is written, and what the end of the update throws over, is forgotten.
writeUpdate(req, waits, size, need) ==
  LET chg  == waits.changed \cup Disabled(waits)
      cop  == waits.copied \ chg
      ui   == [changed |-> chg \cap req, copied |-> cop \cap req]
      sent == ui.changed \cup ui.copied
      idle == waits.changed = {} /\ waits.copied = {}
  IN  IF req = {} \/ (idle /\ ~needFakeUpdate(need))
      THEN /\ asked' = req /\ needSetDesktopSize' = need
           /\ changed' = waits.changed /\ copied' = waits.copied
           /\ UNCHANGED <<copyEnabled, outbox, state, why>>
      ELSE IF sent = {} /\ ~needFakeUpdate(need)
      THEN /\ asked' = req /\ needSetDesktopSize' = need
           /\ changed' = chg /\ copied' = cop /\ copyEnabled' = useCopyRect
           /\ UNCHANGED <<outbox, state, why>>
      ELSE /\ asked' = {} /\ needSetDesktopSize' = FALSE
           /\ changed' = chg \ sent /\ copied' = cop \ sent
           /\ copyEnabled' = useCopyRect
           /\ Write(ui, size, need)

Waiting == [changed |-> changed, copied |-> copied]

\* ConnParams takes a client that has named nothing for one that can be told
\* another size.
MessagesInit ==
  /\ pbSize \in Sizes /\ cpSize = pbSize /\ state = "initialisation" /\ why = "none"
  /\ supportsDesktopResize = TRUE /\ useCopyRect = FALSE /\ currentEncoding = "raw"
  /\ needSetDesktopSize = FALSE
  /\ asked = {} /\ changed = Columns(pbSize) /\ copied = {} /\ copyEnabled = FALSE
  /\ inbox = <<>> /\ outbox = <<>> /\ declared = {}
  /\ clientSize = 0 /\ waiting = FALSE

\* SConnection::clientInit: ServerInit tells the size.
ClientInit ==
  /\ state = "initialisation" /\ state' = "normal"
  /\ outbox' = Append(outbox, [type |-> "serverInit", size |-> cpSize])
  /\ UNCHANGED <<pbSize, why, params, needSetDesktopSize, asked, updates,
                 inbox, declared, clientVars>>

\* SMsgWriterV3::writeSetDesktopSize for a client that reads messages.
writeSetDesktopSize == supportsDesktopResize

\* Mutant: the size is announced only to a client that waits for an update.
ToldWaiting(size) == size # cpSize /\ state = "normal" /\ asked # {}

\* A client in the session is told of another size.
Told(size) == size # cpSize /\ state = "normal"

\* VNCServerST::setPixelBuffer, VNCSConnectionST::pixelBufferChange.
PixelBufferChange(size) ==
  /\ state # "closed" /\ pbSize' = size
  /\ LET need == needSetDesktopSize \/ Told(size)
         all  == [changed |-> Columns(size), copied |-> {}]
     IN  /\ cpSize' = size
         /\ IF Told(size) /\ ~writeSetDesktopSize
            THEN /\ Throw("no desktop resize")
                 /\ UNCHANGED <<needSetDesktopSize, asked, updates, outbox>>
            ELSE IF needFakeUpdate(need) /\ state = "normal"
            THEN writeUpdate(asked, all, size, need)
            ELSE /\ changed' = all.changed /\ copied' = {}
                 /\ needSetDesktopSize' = need
                 /\ UNCHANGED <<asked, copyEnabled, outbox, state, why>>
  /\ UNCHANGED <<supportsDesktopResize, useCopyRect, currentEncoding, inbox,
                 declared, clientVars>>

\* Every change of the screen ends in writeFramebufferUpdateOrClose.
Changes(waits) ==
  /\ IF state = "normal" THEN writeUpdate(asked, waits, cpSize, needSetDesktopSize)
     ELSE /\ changed' = waits.changed /\ copied' = waits.copied
          /\ UNCHANGED <<needSetDesktopSize, asked, copyEnabled, outbox, state, why>>
  /\ UNCHANGED <<pbSize, params, inbox, declared, clientVars>>

DrawOn ==
  /\ state # "closed"
  /\ \E x \in Columns(pbSize) : Changes([Waiting EXCEPT !.changed = @ \cup {x}])

\* SimpleUpdateTracker::add_copied, of a move that does not go on another
\* that waits; those are in UpdateFlow.
CopiedTo(dest) ==
  IF ~copyEnabled \/ Extent(copied) > Extent(dest)
  THEN [Waiting EXCEPT !.changed = @ \cup dest]
  ELSE [changed |-> changed \cup {x \in dest : x - 1 \in changed} \cup copied,
        copied |-> dest]

Move ==
  /\ state # "closed"
  /\ \E dest \in SUBSET (Columns(pbSize) \ {0}) :
       dest # {} /\ Sources(dest) \cap copied = {} /\ Changes(CopiedTo(dest))

\* SetEncodings: the first one that the server can write is the one it takes.
SetEncodings(list) ==
  /\ useCopyRect' = \E i \in DOMAIN list : list[i] = "CopyRect"
  /\ supportsDesktopResize' = \E i \in DOMAIN list : list[i] = "DesktopSize"
  /\ LET i == SelectInSeq(list, LAMBDA e : e \in Supported)
     IN  currentEncoding' = IF i = 0 THEN "raw" ELSE list[i]
  /\ declared' = {"raw"} \cup {list[i] : i \in DOMAIN list}
  /\ UNCHANGED <<cpSize, needSetDesktopSize, asked, updates, outbox, state, why>>

\* FramebufferUpdateRequest.
Request(m) ==
  /\ writeUpdate(asked \cup m.at,
       IF m.incremental THEN Waiting ELSE [Waiting EXCEPT !.changed = @ \cup m.at],
       cpSize, needSetDesktopSize)
  /\ UNCHANGED <<params, declared>>

\* processMessages reads one message of the client.
ReadMessage ==
  /\ state = "normal" /\ inbox # <<>> /\ inbox' = Tail(inbox)
  /\ LET m == Head(inbox)
     IN  IF m.type = "setEncodings" THEN SetEncodings(m.list) ELSE Request(m)
  /\ UNCHANGED <<pbSize, clientVars>>

-----------------------------------------------------------------------------
(* The client: it asks for parts of the desktop as it knows it, and does not
   ask again before it has got an update. *)

Tells(m) ==
  /\ clientSize > 0 /\ Len(inbox) < MaxQueue /\ inbox' = Append(inbox, m)
  /\ UNCHANGED <<pbSize, state, why, params, needSetDesktopSize, asked, updates,
                 outbox, declared, clientSize>>

SendEncodings ==
  \E list \in EncodingLists :
    Tells([type |-> "setEncodings", list |-> list]) /\ UNCHANGED waiting

SendRequest ==
  /\ ~waiting /\ waiting' = TRUE
  /\ \E part \in SUBSET Columns(clientSize) \ {{}}, inc \in BOOLEAN :
       /\ part = Min(part) .. Max(part)
       /\ Tells([type |-> "request", at |-> part, incremental |-> inc])

SizeAfter(m, size) ==
  IF m.type = "serverInit" THEN m.size
  ELSE LET i == SelectInSeq(m.rects, LAMBDA r : r.enc = "DesktopSize")
       IN  IF i = 0 THEN size ELSE Cardinality(m.rects[i].at)

ClientReads ==
  /\ outbox # <<>> /\ outbox' = Tail(outbox)
  /\ clientSize' = SizeAfter(Head(outbox), clientSize)
  /\ waiting' = (waiting /\ Head(outbox).type = "serverInit")
  /\ UNCHANGED <<pbSize, state, why, params, needSetDesktopSize, asked, updates,
                 inbox, declared>>

MessagesNext ==
  \/ ClientInit \/ DrawOn \/ Move \/ ReadMessage \/ SendEncodings \/ SendRequest
  \/ ClientReads \/ \E size \in Sizes \ {pbSize} : PixelBufferChange(size)
MessagesSpec == MessagesInit /\ [][MessagesNext]_messagesVars

-----------------------------------------------------------------------------
\* An update that is on the way can be read: every rectangle is raw or in an
\* encoding the client named, but that a client which has named none yet may be
\* told a size all the same; and it lies, with the source of a copy, in the
\* desktop as the client knows it by then, however sizes, requests and updates
\* cross.  No update ends with more or less rectangles than its header says.
Fits(m, size) ==
  \A i \in DOMAIN m.rects :
    LET r == m.rects[i]
    IN  /\ \/ r.enc \in m.allowed \cup {"raw"}
           \/ r.enc = "DesktopSize" /\ m.allowed = {}
        /\ r.enc # "DesktopSize" =>
             \A j \in 1 .. i - 1 : m.rects[j].enc # "DesktopSize"
        /\ r.enc # "DesktopSize" => r.at \subseteq Columns(size)
        /\ r.enc = "CopyRect" => Sources(r.at) \subseteq Columns(size)
UpdatesFit ==
  /\ outbox # <<>> /\ Head(outbox).type = "update" => Fits(Head(outbox), clientSize)
  /\ why # "out of sync"

\* The client knows the size of the desktop once it has read what is on the
\* way, or the next update will tell it.
SizeIsTold ==
  LET TellsSize(m) ==
        m.type = "serverInit" \/ \E i \in DOMAIN m.rects : m.rects[i].enc = "DesktopSize"
      i == SelectLastInSeq(outbox, TellsSize)
  IN  state = "normal" =>
        needSetDesktopSize \/ pbSize = IF i = 0 THEN clientSize ELSE SizeAfter(outbox[i], clientSize)

\* The client can draw every update it reads on a screen of the size it knows
\* by then, in encodings it named or those the server takes as named before
\* SetEncodings comes, and is not left with another size than the desktop's.
ClientFollowsSize == UpdatesFit /\ SizeIsTold
=============================================================================
