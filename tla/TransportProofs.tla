--------------------------- MODULE TransportProofs --------------------------
(***************************************************************************)
(* What is on the way between the server and a client, and the handles it  *)
(* goes through.                                                           *)
(***************************************************************************)
EXTENDS UpdateMessages, SocketStreams, Descriptors, Arithmetic, FiniteSetTheorems, SequenceTheorems

-----------------------------------------------------------------------------
(***************************************************************************)
(* A client can read every update and knows the size of the desktop, for   *)
(* any sizes, any encodings and any regions. A client that waits has one   *)
(* request on the way, or one update: an update is written for the parts of *)
(* the screen it asked for with the size it still has when it reads them.  *)
(***************************************************************************)
\* Encodings that are written as pixels.
PixelEncodings == Supported \cup {"raw"}

\* What the client knows once it has read what is on the way.
Known == IF outbox = <<>> THEN clientSize ELSE SizeAfter(outbox[1], clientSize)

IsUpdate(m) ==
  /\ m.type = "update" /\ DOMAIN m.rects = 1 .. Len(m.rects)
  /\ Fits(m, clientSize) /\ SizeAfter(m, clientSize) \in Sizes
IsServerInit(m) == m.type = "serverInit" /\ m.size \in Sizes
Requests == {i \in DOMAIN inbox : inbox[i].type = "request"}

ClientMessages ==
  [type : {"setEncodings"}, list : EncodingLists] \cup
  [type : {"request"}, at : SUBSET Nat, incremental : BOOLEAN]

MessagesTypeOK ==
  /\ pbSize \in Sizes /\ cpSize = pbSize
  /\ clientSize \in Sizes \cup {0}
  /\ asked \subseteq Columns(clientSize)
  /\ inbox \in Seq(ClientMessages)
  /\ needSetDesktopSize \in BOOLEAN
  /\ state \in {"initialisation", "normal", "closed"} /\ why # "out of sync"

\* The encodings that are used are of those the client has declared, or taken
\* for granted: a client that has declared none may be told a size.
MayTellSize == "DesktopSize" \in declared \/ declared = {}
Declared ==
  /\ currentEncoding \in (declared \cup {"raw"}) \cap PixelEncodings
  /\ useCopyRect => "CopyRect" \in declared
  /\ supportsDesktopResize => MayTellSize
  /\ copied # {} => copyEnabled
  /\ copied \subseteq Nat \ {0}

\* A client that waits has one request, or one update, on the way.
OneOutstanding ==
  /\ \A i \in Requests : inbox[i].at \subseteq Columns(clientSize)
  /\ \A i, j \in Requests : i = j
  /\ asked # {} => Requests = {}
  /\ waiting \/ (Requests = {} /\ asked = {})
  /\ clientSize = 0 => inbox = <<>> /\ asked = {}
  /\ state = "initialisation" => clientSize = 0 /\ outbox = <<>>
  /\ \/ outbox = <<>>
     \/ /\ clientSize = 0 /\ \E m : outbox = <<m>> /\ IsServerInit(m)
     \/ /\ clientSize # 0 /\ waiting /\ asked = {} /\ Requests = {}
        /\ \E m : outbox = <<m>> /\ IsUpdate(m)

\* The client knows the size, or will be told.
KnowsOrIsTold == state = "normal" => needSetDesktopSize \/ pbSize = Known

MessagesIInv == MessagesTypeOK /\ Declared /\ OneOutstanding /\ KnowsOrIsTold

-----------------------------------------------------------------------------
\* A finite set, as a sequence, is as long as it has members.
LEMMA SetSeq ==
  ASSUME NEW S, IsFiniteSet(S)
  PROVE  SetToSeq(S) \in Seq(S) /\ Len(SetToSeq(S)) = Cardinality(S)
<1>1. Cardinality(S) \in Nat /\ ExistsBijection(1 .. Cardinality(S), S)
  BY FS_CardinalityType
<1>2. \E f \in [1 .. Cardinality(S) -> S] : IsInjective(f)
  BY <1>1 DEF ExistsBijection, Bijection, Injection
<1>3. SetToSeq(S) \in [1 .. Cardinality(S) -> S]
  BY <1>2 DEF SetToSeq
<1> QED BY <1>1, <1>3

\* There are as many rectangles of an encoding as there are of the region.
LEMMA Encoded ==
  ASSUME NEW S, IsFiniteSet(S), NEW e
  PROVE  LET T == {[enc |-> e, at |-> r] : r \in S}
         IN  IsFiniteSet(T) /\ Cardinality(T) = Cardinality(S)
<1> DEFINE T == {[enc |-> e, at |-> r] : r \in S}
           f == [r \in S |-> [enc |-> e, at |-> r]]
<1>1. f \in [S -> T] /\ \A t \in T : \E r \in S : f[r] = t
  OBVIOUS
<1>2. \A a, b \in S : f[a] = f[b] => a = b
  <2> SUFFICES ASSUME NEW a \in S, NEW b \in S, f[a] = f[b] PROVE a = b
    OBVIOUS
  <2>1. f[a].at = a /\ f[b].at = b
    OBVIOUS
  <2> QED BY <2>1
<1> HIDE DEF f, T
<1>3. f \in Bijection(S, T)
  BY <1>1, <1>2 DEF Bijection, Injection, Surjection, IsInjective
<1>4. IsFiniteSet(T) /\ Cardinality(T) = Cardinality(S)
  BY <1>3, FS_Bijection DEF ExistsBijection
<1> QED BY <1>4 DEF T

\* A finite region has finitely many rectangles, all within it.
LEMMA RectsFinite ==
  ASSUME NEW region, IsFiniteSet(region)
  PROVE  IsFiniteSet(RectsOf(region)) /\ \A r \in RectsOf(region) : r \subseteq region
<1>1. RectsOf(region) \in SUBSET SUBSET region
  BY DEF RectsOf
<1>2. IsFiniteSet(SUBSET region)
  BY FS_SUBSET
<1>3. IsFiniteSet(RectsOf(region))
  BY <1>1, <1>2, FS_Subset
<1> QED BY <1>1, <1>3

CopyRect(r) == [enc |-> "CopyRect", at |-> r]
Pixels(r) == [enc |-> currentEncoding, at |-> r]
DesktopSize(size) == [enc |-> "DesktopSize", at |-> Columns(size)]

\* What is put together for an update: as many rectangles as are counted, the
\* copies, the pixels, and at last the size.
LEMMA PutTogether ==
  ASSUME NEW ui, IsFiniteSet(ui.changed), IsFiniteSet(ui.copied), NEW size, NEW need \in BOOLEAN,
         NEW R, R = Rectangles(ui, size, need)
  PROVE  /\ Len(R) \in Nat /\ DOMAIN R = 1 .. Len(R) /\ Len(R) = NumRects(ui, need)
         /\ \A i \in 1 .. Len(R) :
              \/ \E r \in RectsOf(ui.copied) : R[i] = CopyRect(r)
              \/ \E r \in RectsOf(ui.changed) : R[i] = Pixels(r)
              \/ need /\ i = Len(R) /\ R[i] = DesktopSize(size)
         /\ need => Len(R) # 0 /\ R[Len(R)] = DesktopSize(size)
<1> DEFINE SA == {CopyRect(r) : r \in RectsOf(ui.copied)}
           SB == {Pixels(r) : r \in RectsOf(ui.changed)}
           A == SetToSeq(SA)
           B == SetToSeq(SB)
           C == IF need THEN <<DesktopSize(size)>> ELSE <<>>
           T == SA \cup SB \cup {DesktopSize(size)}
<1>1. IsFiniteSet(SA) /\ Cardinality(SA) = Cardinality(RectsOf(ui.copied))
  BY RectsFinite, Encoded DEF CopyRect
<1>2. IsFiniteSet(SB) /\ Cardinality(SB) = Cardinality(RectsOf(ui.changed))
  BY RectsFinite, Encoded DEF Pixels
<1>3. A \in Seq(SA) /\ Len(A) = Cardinality(RectsOf(ui.copied))
  BY <1>1, SetSeq
<1>4. B \in Seq(SB) /\ Len(B) = Cardinality(RectsOf(ui.changed))
  BY <1>2, SetSeq
<1>5. C \in Seq({DesktopSize(size)}) /\ Len(C) = (IF need THEN 1 ELSE 0)
      /\ (need => C[1] = DesktopSize(size))
  <2>1. CASE need
    <3>1. C = <<DesktopSize(size)>>
      BY <2>1
    <3> HIDE DEF C
    <3> QED BY <3>1, <2>1
  <2>2. CASE ~need
    <3>1. C = <<>>
      BY <2>2
    <3> HIDE DEF C
    <3> QED BY <3>1, <2>2
  <2> QED BY <2>1, <2>2
<1>6. R = (A \o B) \o C
  BY DEF Rectangles, CopyRect, Pixels, DesktopSize
<1>7. A \in Seq(T) /\ B \in Seq(T) /\ C \in Seq(T)
  <2>1. SA \subseteq T /\ SB \subseteq T /\ {DesktopSize(size)} \subseteq T
    OBVIOUS
  <2> HIDE DEF SA, SB, A, B, C, T
  <2> QED BY <2>1, <1>3, <1>4, <1>5
<1>8. \A s \in SA : \E r \in RectsOf(ui.copied) : s = CopyRect(r)
  OBVIOUS
<1>9. \A s \in SB : \E r \in RectsOf(ui.changed) : s = Pixels(r)
  OBVIOUS
<1> HIDE DEF SA, SB, A, B, C, T
<1>10. /\ A \o B \in Seq(T) /\ Len(A \o B) = Len(A) + Len(B)
       /\ \A i \in 1 .. Len(A) + Len(B) :
            (A \o B)[i] = IF i <= Len(A) THEN A[i] ELSE B[i - Len(A)]
  BY <1>7, ConcatProperties
<1>11. /\ R \in Seq(T) /\ Len(R) = Len(A) + Len(B) + Len(C)
       /\ \A i \in 1 .. Len(R) : R[i] = IF i <= Len(A) + Len(B) THEN (A \o B)[i]
                                        ELSE C[i - Len(A) - Len(B)]
  <2>1. /\ R \in Seq(T) /\ Len(R) = Len(A \o B) + Len(C)
        /\ \A i \in 1 .. Len(A \o B) + Len(C) :
             R[i] = IF i <= Len(A \o B) THEN (A \o B)[i] ELSE C[i - Len(A \o B)]
    BY <1>6, <1>7, <1>10, ConcatProperties
  <2>2. Len(A) \in Nat /\ Len(B) \in Nat /\ Len(C) \in Nat
    BY <1>7
  <2> QED BY <2>1, <2>2, <1>10
<1>12. Len(A) \in Nat /\ Len(B) \in Nat /\ Len(R) \in Nat /\ DOMAIN R = 1 .. Len(R)
       /\ Len(R) = NumRects(ui, need)
  <2>1. Len(A) \in Nat /\ Len(B) \in Nat /\ Len(R) \in Nat /\ DOMAIN R = 1 .. Len(R)
    BY <1>7, <1>11
  <2>2. Len(R) = NumRects(ui, need)
    BY <1>3, <1>4, <1>5, <1>11 DEF NumRects
  <2> QED BY <2>1, <2>2
<1>13. ASSUME NEW i \in 1 .. Len(R)
       PROVE  \/ \E r \in RectsOf(ui.copied) : R[i] = CopyRect(r)
              \/ \E r \in RectsOf(ui.changed) : R[i] = Pixels(r)
              \/ need /\ i = Len(R) /\ R[i] = DesktopSize(size)
  <2>1. CASE i <= Len(A)
    <3>1. R[i] = A[i] /\ A[i] \in SA
      BY <2>1, <1>3, <1>10, <1>11, <1>12
    <3> QED BY <3>1, <1>8
  <2>2. CASE ~(i <= Len(A)) /\ i <= Len(A) + Len(B)
    <3>1. R[i] = B[i - Len(A)] /\ i - Len(A) \in 1 .. Len(B)
      BY <2>2, <1>10, <1>11, <1>12
    <3>2. R[i] \in SB
      BY <3>1, <1>4
    <3> QED BY <3>2, <1>9
  <2>3. CASE ~(i <= Len(A) + Len(B))
    <3>1. need /\ i = Len(R) /\ R[i] = C[1]
      BY <2>3, <1>5, <1>11, <1>12
    <3> QED BY <3>1, <1>5
  <2> QED BY <2>1, <2>2, <2>3, <1>12
<1>14. need => Len(R) # 0 /\ R[Len(R)] = DesktopSize(size)
  <2> SUFFICES ASSUME need PROVE Len(R) # 0 /\ R[Len(R)] = DesktopSize(size)
    OBVIOUS
  <2>1. Len(C) = 1 /\ C[1] = DesktopSize(size)
    BY <1>5
  <2>2. Len(R) = Len(A) + Len(B) + 1
    BY <2>1, <1>11
  <2>a. \A a, b, n \in Nat : n = a + b + 1 => n \in 1 .. n /\ ~(n <= a + b) /\ n - a - b = 1 /\ n # 0
    OBVIOUS
  <2>b. Len(A) \in Nat /\ Len(B) \in Nat /\ Len(R) \in Nat
    BY <1>12
  <2>3. Len(R) # 0 /\ Len(R) \in 1 .. Len(R) /\ ~(Len(R) <= Len(A) + Len(B)) /\ Len(R) - Len(A) - Len(B) = 1
    BY ONLY <2>2, <2>a, <2>b
  <2>4. R[Len(R)] = C[1]
    BY <2>3, <1>11
  <2> QED BY <2>1, <2>3, <2>4, <1>12
<1> QED BY <1>12, <1>13, <1>14

\* What a pixel rectangle, a copy and a size are, told by their encodings.
LEMMA EncodingsDiffer ==
  ASSUME currentEncoding \in PixelEncodings
  PROVE  currentEncoding # "CopyRect" /\ currentEncoding # "DesktopSize"
BY MessagesAssumption DEF PixelEncodings

\* The rectangle that tells a size.
LEMMA SizeRectangle ==
  ASSUME NEW s
  PROVE  DesktopSize(s).enc = "DesktopSize" /\ DesktopSize(s).at = Columns(s)
BY DEF DesktopSize

\* The update that is put together for a client can be read by it, and it
\* tells the size if, and only if, it is to be told.
LEMMA PutFits ==
  ASSUME NEW ui, NEW c \in Nat, ui.changed \subseteq Columns(c), ui.copied \subseteq Columns(c) \ {0},
         ui.copied # {} => "CopyRect" \in declared,
         currentEncoding \in (declared \cup {"raw"}) \cap PixelEncodings,
         NEW size \in Sizes, NEW need \in BOOLEAN, need => MayTellSize,
         NEW m, m.rects = Rectangles(ui, size, need),
         m.allowed = declared, m.type = "update"
  PROVE  Fits(m, c) /\ SizeAfter(m, c) = (IF need THEN size ELSE c)
         /\ Len(m.rects) = NumRects(ui, need) /\ DOMAIN m.rects = 1 .. Len(m.rects)
<1> DEFINE R == m.rects
<1>1. IsFiniteSet(ui.changed) /\ IsFiniteSet(ui.copied)
  <2>1. IsFiniteSet(Columns(c))
    BY FS_Interval DEF Columns
  <2> QED BY <2>1, FS_Subset
<1>2. /\ Len(R) \in Nat /\ DOMAIN R = 1 .. Len(R) /\ Len(R) = NumRects(ui, need)
      /\ \A i \in 1 .. Len(R) :
           \/ \E r \in RectsOf(ui.copied) : R[i] = CopyRect(r)
           \/ \E r \in RectsOf(ui.changed) : R[i] = Pixels(r)
           \/ need /\ i = Len(R) /\ R[i] = DesktopSize(size)
      /\ need => Len(R) # 0 /\ R[Len(R)] = DesktopSize(size)
  BY <1>1, PutTogether
<1>3. ASSUME NEW i \in 1 .. Len(R)
      PROVE  /\ R[i].enc \in declared \cup {"raw"} \/ (R[i].enc = "DesktopSize" /\ declared = {})
             /\ R[i].enc # "DesktopSize" => R[i].at \subseteq Columns(c)
             /\ R[i].enc = "CopyRect" => Sources(R[i].at) \subseteq Columns(c)
             /\ R[i].enc = "DesktopSize" => need /\ i = Len(R) /\ R[i] = DesktopSize(size)
  <2>1. CASE \E r \in RectsOf(ui.copied) : R[i] = CopyRect(r)
    <3>1. PICK r \in RectsOf(ui.copied) : R[i] = CopyRect(r)
      BY <2>1
    <3>2. R[i].enc = "CopyRect" /\ R[i].at = r /\ r \subseteq ui.copied /\ ui.copied # {}
      BY <3>1 DEF CopyRect, RectsOf
    <3>3. Sources(r) \subseteq Columns(c)
      BY <3>2 DEF Sources, Columns
    <3> QED BY <3>2, <3>3
  <2>2. CASE \E r \in RectsOf(ui.changed) : R[i] = Pixels(r)
    <3>1. PICK r \in RectsOf(ui.changed) : R[i] = Pixels(r)
      BY <2>2
    <3>2. R[i].enc = currentEncoding /\ R[i].at = r /\ r \subseteq ui.changed
      BY <3>1 DEF Pixels, RectsOf
    <3> QED BY <3>2, EncodingsDiffer
  <2>3. CASE need /\ i = Len(R) /\ R[i] = DesktopSize(size)
    <3>1. R[i].enc = "DesktopSize"
      BY <2>3, SizeRectangle
    <3>2. "DesktopSize" \in declared \/ declared = {}
      BY <2>3 DEF MayTellSize
    <3> QED BY <3>1, <3>2, <2>3
  <2> QED BY <2>1, <2>2, <2>3, <1>2
<1>4. Fits(m, c)
  <2>1. ASSUME NEW i \in DOMAIN R, R[i].enc # "DesktopSize", NEW j \in 1 .. i - 1
        PROVE  R[j].enc # "DesktopSize"
    <3>1. i \in 1 .. Len(R) /\ j \in 1 .. Len(R) /\ j # Len(R) /\ Len(R) \in Nat
      BY <1>2
    <3> QED BY <3>1, <1>3
  <2> QED BY <2>1, <1>2, <1>3 DEF Fits
<1>5. SizeAfter(m, c) = (IF need THEN size ELSE c)
  <2> DEFINE I == {i \in 1 .. Len(R) : R[i].enc = "DesktopSize"}
  <2>1. SizeAfter(m, c) = IF I = {} THEN c ELSE IF Min(I) = 0 THEN c ELSE Cardinality(R[Min(I)].at)
    BY DEF SizeAfter, SelectInSeq
  <2>2. CASE need
    <3>1. I = {Len(R)} /\ Len(R) # 0
      <4>1. Len(R) \in 1 .. Len(R) /\ R[Len(R)].enc = "DesktopSize"
        <5>1. Len(R) # 0 /\ R[Len(R)] = DesktopSize(size) /\ Len(R) \in Nat
          BY <1>2, <2>2
        <5> HIDE DEF R
        <5>2. Len(R) \in 1 .. Len(R)
          BY <5>1
        <5> QED BY <5>1, <5>2, SizeRectangle
      <4> QED BY <4>1, <1>2, <1>3
    <3> HIDE DEF I
    <3>2. Min(I) = Len(R)
      BY <3>1, <1>2 DEF Min
    <3>3. SizeAfter(m, c) = Cardinality(DesktopSize(size).at)
      BY <2>1, <2>2, <3>1, <3>2, <1>2
    <3>4. Cardinality(Columns(size)) = size
      <4>1. size \in Nat /\ size > 0
        BY MessagesAssumption
      <4>2. 0 \in Int /\ size - 1 \in Int /\ ~(0 > size - 1) /\ (size - 1) - 0 + 1 = size
        BY <4>1
      <4> QED BY <4>2, FS_Interval DEF Columns
    <3> QED BY <3>3, <3>4, <2>2, SizeRectangle
  <2>3. CASE ~need
    <3>1. I = {}
      BY <2>3, <1>3
    <3> QED BY <3>1, <2>1, <2>3
  <2> QED BY <2>2, <2>3
<1> QED BY <1>2, <1>4, <1>5

LEMMA AppendToNone ==
  ASSUME NEW x
  PROVE  Append(<<>>, x) = <<x>>
<1>1. <<>> \in Seq({x}) /\ Len(<<>>) = 0
  OBVIOUS
<1> QED BY <1>1

\* What writeFramebufferUpdate leaves behind: it keeps what it is asked for, or
\* throws, or writes one update that the client can read.
LEMMA Writing ==
  ASSUME Declared, clientSize \in Nat, why # "out of sync", state = "normal",
         NEW req, req \subseteq Columns(clientSize), req # {} => outbox = <<>>,
         NEW waits, waits.copied \subseteq Nat \ {0}, waits.copied # {} => copyEnabled,
         NEW size \in Sizes, NEW need \in BOOLEAN, writeUpdate(req, waits, size, need)
  PROVE  /\ copied' \subseteq Nat \ {0} /\ (copied' # {} => copyEnabled')
         /\ why' # "out of sync" /\ needSetDesktopSize' \in BOOLEAN
         /\ \/ asked' = req /\ outbox' = outbox /\ (needSetDesktopSize' <=> need) /\ state' = "normal"
            \/ asked' = {} /\ outbox' = outbox /\ state' = "closed"
            \/ /\ asked' = {} /\ state' = "normal" /\ req # {}
               /\ \E m : /\ outbox' = <<m>> /\ m.type = "update" /\ Fits(m, clientSize)
                         /\ DOMAIN m.rects = 1 .. Len(m.rects)
                         /\ SizeAfter(m, clientSize) = (IF need THEN size ELSE clientSize)
<1> DEFINE chg == waits.changed \cup Disabled(waits)
           cop == waits.copied \ chg
           ui == [changed |-> chg \cap req, copied |-> cop \cap req]
           sent == ui.changed \cup ui.copied
           idle == waits.changed = {} /\ waits.copied = {}
<1>1. cop \subseteq Nat \ {0} /\ (cop # {} => useCopyRect)
  <2>1. waits.copied # {} /\ ~useCopyRect => Disabled(waits) = waits.copied
    BY DEF Disabled
  <2> QED BY <2>1
<1>2. CASE req = {} \/ (idle /\ ~needFakeUpdate(need))
  <2>1. /\ asked' = req /\ needSetDesktopSize' = need /\ copied' = waits.copied
        /\ UNCHANGED <<copyEnabled, outbox, state, why>>
    BY <1>2 DEF writeUpdate
  <2>2. copied' # {} => copyEnabled'
    BY <2>1
  <2> QED BY <2>1, <2>2
<1>3. CASE ~(req = {} \/ (idle /\ ~needFakeUpdate(need))) /\ sent = {} /\ ~needFakeUpdate(need)
  <2>1. /\ asked' = req /\ needSetDesktopSize' = need /\ copied' = cop /\ copyEnabled' = useCopyRect
        /\ UNCHANGED <<outbox, state, why>>
    BY <1>3, Zenon DEF writeUpdate
  <2>2. copied' # {} => copyEnabled'
    BY <2>1, <1>1, Zenon
  <2> HIDE DEF cop
  <2> QED BY <2>1, <2>2, <1>1
<1>4. CASE ~(req = {} \/ (idle /\ ~needFakeUpdate(need))) /\ ~(sent = {} /\ ~needFakeUpdate(need))
  <2>1. /\ asked' = {} /\ needSetDesktopSize' = FALSE /\ copied' = cop \ sent
        /\ copyEnabled' = useCopyRect /\ Write(ui, size, need) /\ req # {}
    BY <1>4, Zenon DEF writeUpdate
  <2>2. copied' # {} => copyEnabled'
    <3>1. cop \ sent # {} => cop # {}
      OBVIOUS
    <3> HIDE DEF cop, sent
    <3> QED BY <2>1, <3>1, <1>1, Zenon
  <2>3. copied' \subseteq Nat \ {0} /\ needSetDesktopSize' \in BOOLEAN
    BY <2>1, <1>1
  <2>4. ui.changed \subseteq Columns(clientSize) /\ ui.copied \subseteq Columns(clientSize) \ {0}
        /\ (ui.copied # {} => "CopyRect" \in declared)
    BY <1>1 DEF Declared
  <2> DEFINE m == [type |-> "update", rects |-> Rectangles(ui, size, need), allowed |-> declared]
  <2> HIDE DEF ui
  <2>5. m.rects = Rectangles(ui, size, need)
        /\ m.allowed = declared /\ m.type = "update"
    OBVIOUS
  <2>6. CASE need /\ ~supportsDesktopResize
    <3>1. state' = "closed" /\ why' = "no desktop resize" /\ outbox' = outbox
      BY <2>1, <2>6 DEF Write, Throw
    <3> QED BY <3>1, <2>1, <2>2, <2>3
  <2>7. CASE ~(need /\ ~supportsDesktopResize)
    <3>1. need => MayTellSize
      BY <2>7 DEF Declared
    <3> HIDE DEF m
    <3>2. Fits(m, clientSize) /\ SizeAfter(m, clientSize) = (IF need THEN size ELSE clientSize)
          /\ Len(m.rects) = NumRects(ui, need) /\ DOMAIN m.rects = 1 .. Len(m.rects)
      <4>1. currentEncoding \in (declared \cup {"raw"}) \cap PixelEncodings
        BY DEF Declared
      <4> QED BY ONLY <2>4, <2>5, <3>1, <4>1, clientSize \in Nat, size \in Sizes, need \in BOOLEAN, PutFits
    <3>3. outbox' = Append(outbox, m) /\ UNCHANGED <<state, why>>
      BY <2>1, <2>5, <2>7, <3>2 DEF Write, m
    <3>4. outbox' = <<m>>
      <4>1. outbox = <<>>
        BY <2>1
      <4> QED BY <3>3, <4>1, AppendToNone
    <3> QED BY <3>2, <3>3, <3>4, <2>1, <2>2, <2>3, <2>5
  <2> QED BY <2>6, <2>7
<1> QED BY <1>2, <1>3, <1>4

-----------------------------------------------------------------------------
\* What the client knows depends on what is on the way, and on nothing else.
LEMMA KnownSame ==
  ASSUME UNCHANGED <<outbox, clientSize>>
  PROVE  Known' = Known /\ \A m : IsUpdate(m)' <=> IsUpdate(m)
BY DEF Known, IsUpdate

LEMMA SizesPositive ==
  ASSUME NEW s \in Sizes \cup {0}
  PROVE  s \in Nat /\ (s \in Sizes => s > 0)
<1>1. Sizes \subseteq Nat \ {0}
  BY MessagesAssumption
<1>2. CASE s = 0
  <2>1. 0 \notin Sizes
    BY <1>1
  <2> QED BY <1>2, <2>1
<1>3. CASE s \in Sizes
  BY <1>1, <1>3
<1> QED BY <1>2, <1>3

\* A step of the server that writes, or may write, keeps the invariant, when
\* what it is asked for is all that the client waits for.
LEMMA WriteKeeps ==
  ASSUME MessagesIInv, state = "normal",
         NEW req, req \subseteq Columns(clientSize), req # {} => outbox = <<>> /\ waiting /\ clientSize # 0,
         NEW waits, waits.copied \subseteq Nat \ {0}, waits.copied # {} => copyEnabled,
         NEW size \in Sizes, NEW need \in BOOLEAN, need \/ size = Known,
         writeUpdate(req, waits, size, need), pbSize' = size, cpSize' = size,
         UNCHANGED <<supportsDesktopResize, useCopyRect, currentEncoding, declared, clientSize, waiting>>,
         inbox' \in Seq(ClientMessages),
         \A i \in Requests' : inbox'[i].at \subseteq Columns(clientSize),
         \A i, j \in Requests' : i = j,
         req # {} => Requests' = {}, waiting \/ (Requests' = {} /\ req = {}),
         clientSize # 0 /\ outbox # <<>> => Requests' = {},
         clientSize = 0 => inbox' = <<>>
  PROVE  MessagesIInv'
<1>1. clientSize \in Nat /\ Declared /\ why # "out of sync"
  <2>1. MessagesTypeOK /\ Declared
    BY DEF MessagesIInv
  <2>2. clientSize \in Sizes \cup {0} /\ why # "out of sync"
    BY <2>1 DEF MessagesTypeOK
  <2> QED BY <2>1, <2>2, SizesPositive
<1>2. /\ copied' \subseteq Nat \ {0} /\ (copied' # {} => copyEnabled')
      /\ why' # "out of sync" /\ needSetDesktopSize' \in BOOLEAN
      /\ \/ asked' = req /\ outbox' = outbox /\ (needSetDesktopSize' <=> need) /\ state' = "normal"
         \/ asked' = {} /\ outbox' = outbox /\ state' = "closed"
         \/ /\ asked' = {} /\ state' = "normal" /\ req # {}
            /\ \E m : /\ outbox' = <<m>> /\ m.type = "update" /\ Fits(m, clientSize)
                      /\ DOMAIN m.rects = 1 .. Len(m.rects)
                      /\ SizeAfter(m, clientSize) = (IF need THEN size ELSE clientSize)
  BY <1>1, Writing
<1>3. MessagesTypeOK'
  BY <1>2 DEF MessagesIInv, MessagesTypeOK, Columns
<1>4. Declared'
  BY <1>1, <1>2 DEF Declared, MayTellSize, PixelEncodings
<1>5. /\ asked' \in {req, {}} /\ state' # "initialisation" /\ (req = {} => asked' = {})
  BY <1>2
<1>6. CASE outbox' = outbox
  <2>1. Known' = Known /\ \A m : IsUpdate(m)' <=> IsUpdate(m)
    BY <1>6, KnownSame
  <2>2. OneOutstanding'
    <3>1. \/ outbox = <<>>
          \/ clientSize = 0 /\ \E m : outbox = <<m>> /\ IsServerInit(m)
          \/ clientSize # 0 /\ waiting /\ asked = {} /\ Requests = {} /\ \E m : outbox = <<m>> /\ IsUpdate(m)
      BY DEF MessagesIInv, OneOutstanding
    <3>2. \/ outbox' = <<>>
          \/ clientSize' = 0 /\ \E m : outbox' = <<m>> /\ IsServerInit(m)'
          \/ clientSize' # 0 /\ waiting' /\ asked' = {} /\ Requests' = {} /\ \E m : outbox' = <<m>> /\ IsUpdate(m)'
      BY <3>1, <2>1, <1>5, <1>6 DEF IsServerInit
    <3>3. /\ \A i \in Requests' : inbox'[i].at \subseteq Columns(clientSize)'
          /\ \A i, j \in Requests' : i = j
          /\ asked' # {} => Requests' = {}
          /\ waiting' \/ (Requests' = {} /\ asked' = {})
          /\ clientSize' = 0 => inbox' = <<>> /\ asked' = {}
          /\ state' = "initialisation" => clientSize' = 0 /\ outbox' = <<>>
      BY <1>5 DEF Columns
    <3> QED BY <3>2, <3>3 DEF OneOutstanding
  <2>3. KnowsOrIsTold'
    <3>1. \A m : <<m>> # <<>>
      OBVIOUS
    <3>2. ASSUME state' = "normal" PROVE needSetDesktopSize' <=> need
      BY <3>1, <3>2, <1>2, <1>6, Zenon
    <3> QED BY <3>2, <2>1, <1>6 DEF KnowsOrIsTold
  <2> QED BY <1>3, <1>4, <2>2, <2>3 DEF MessagesIInv
<1>7. CASE outbox' # outbox
  <2>1. /\ asked' = {} /\ state' = "normal" /\ req # {}
        /\ \E m : /\ outbox' = <<m>> /\ m.type = "update" /\ Fits(m, clientSize)
                      /\ DOMAIN m.rects = 1 .. Len(m.rects)
                  /\ SizeAfter(m, clientSize) = (IF need THEN size ELSE clientSize)
    BY <1>2, <1>7
  <2>2. PICK m : /\ outbox' = <<m>> /\ m.type = "update" /\ Fits(m, clientSize)
                      /\ DOMAIN m.rects = 1 .. Len(m.rects)
                 /\ SizeAfter(m, clientSize) = (IF need THEN size ELSE clientSize)
    BY <2>1
  <2>3. outbox = <<>> /\ waiting /\ clientSize # 0 /\ Requests' = {} /\ Known = clientSize
    BY <2>1 DEF Known
  <2>4. clientSize \in Sizes
    BY <2>3 DEF MessagesIInv, MessagesTypeOK
  <2>5. Known' = SizeAfter(m, clientSize) /\ Known' = size
    <3>1. outbox' # <<>> /\ outbox'[1] = m
      BY <2>2
    <3>2. Known' = SizeAfter(m, clientSize)
      BY <3>1 DEF Known
    <3> QED BY <3>2, <2>2, <2>3
  <2>6. IsUpdate(m)'
    BY <2>2, <2>4 DEF IsUpdate
  <2>7. OneOutstanding'
    BY <2>1, <2>2, <2>3, <2>6 DEF OneOutstanding
  <2>8. KnowsOrIsTold'
    BY <2>5 DEF KnowsOrIsTold
  <2> QED BY <1>3, <1>4, <2>7, <2>8 DEF MessagesIInv
<1> QED BY <1>6, <1>7

LEMMA MessagesInitInv == MessagesInit => MessagesIInv
<1> SUFFICES ASSUME MessagesInit PROVE MessagesIInv
  OBVIOUS
<1>1. MessagesTypeOK
  <2>1. needSetDesktopSize \in BOOLEAN
    BY Zenon DEF MessagesInit
  <2>2. inbox \in Seq(ClientMessages)
    BY DEF MessagesInit
  <2>3. pbSize \in Sizes /\ cpSize = pbSize /\ clientSize = 0 /\ asked = {}
        /\ state = "initialisation" /\ why = "none"
    BY DEF MessagesInit
  <2> QED BY <2>1, <2>2, <2>3 DEF MessagesTypeOK
<1>2. Declared
  BY DEF MessagesInit, Declared, MayTellSize, PixelEncodings
<1>3. Requests = {}
  BY DEF MessagesInit, Requests
<1>4. OneOutstanding
  BY <1>3 DEF MessagesInit, OneOutstanding
<1>5. KnowsOrIsTold
  BY DEF MessagesInit, KnowsOrIsTold
<1> QED BY <1>1, <1>2, <1>4, <1>5 DEF MessagesIInv

LEMMA ClientInitInv == MessagesIInv /\ ClientInit => MessagesIInv'
<1> SUFFICES ASSUME MessagesIInv, ClientInit PROVE MessagesIInv'
  OBVIOUS
<1> DEFINE m == [type |-> "serverInit", size |-> cpSize]
<1>0. MessagesTypeOK /\ Declared /\ OneOutstanding
  BY DEF MessagesIInv
<1>1. /\ state = "initialisation" /\ state' = "normal" /\ outbox' = Append(outbox, m)
      /\ UNCHANGED <<pbSize, why, params, needSetDesktopSize, asked, updates,
                     inbox, declared, clientVars>>
  BY DEF ClientInit
<1>2. clientSize = 0 /\ outbox = <<>> /\ inbox = <<>> /\ asked = {} /\ outbox' = <<m>>
  BY <1>0, <1>1, AppendToNone DEF OneOutstanding
<1>3. m.type = "serverInit" /\ m.size = pbSize /\ pbSize \in Sizes
  BY <1>0 DEF MessagesTypeOK
<1> HIDE DEF m
<1>4. MessagesTypeOK'
  BY <1>0, <1>1 DEF MessagesTypeOK, params, clientVars, Columns
<1>5. Declared'
  BY <1>0, <1>1 DEF Declared, MayTellSize, params, updates, PixelEncodings
<1>6. Requests' = Requests
  BY <1>1 DEF Requests
<1>7. OneOutstanding'
  <2>1. Requests = {}
    BY <1>2 DEF Requests
  <2> QED BY <1>1, <1>2, <1>3, <1>6, <2>1 DEF OneOutstanding, IsServerInit, clientVars, Columns
<1>8. KnowsOrIsTold'
  <2>1. outbox' # <<>> /\ outbox'[1] = m
    BY <1>2
  <2>2. Known' = m.size
    BY <2>1, <1>3 DEF Known, SizeAfter
  <2> QED BY <2>2, <1>1, <1>3 DEF KnowsOrIsTold
<1> QED BY <1>4, <1>5, <1>7, <1>8 DEF MessagesIInv

\* A change of the screen, whatever it is that changes.
LEMMA ChangesInv ==
  ASSUME MessagesIInv, state # "closed", NEW waits, Changes(waits),
         waits.copied \subseteq Nat \ {0}, waits.copied # {} => copyEnabled
  PROVE  MessagesIInv'
<1>0. MessagesTypeOK /\ Declared /\ OneOutstanding /\ KnowsOrIsTold
  BY DEF MessagesIInv
<1>1. UNCHANGED <<pbSize, cpSize, supportsDesktopResize, useCopyRect, currentEncoding, inbox,
                  declared, clientSize, waiting>>
  BY DEF Changes, params, clientVars
<1>2. Requests' = Requests
  BY <1>1 DEF Requests
<1>3. CASE state = "normal"
  <2>1. writeUpdate(asked, waits, cpSize, needSetDesktopSize)
    BY <1>3 DEF Changes
  <2>2. /\ asked \subseteq Columns(clientSize) /\ cpSize \in Sizes /\ needSetDesktopSize \in BOOLEAN
        /\ pbSize' = cpSize /\ cpSize' = cpSize /\ inbox' \in Seq(ClientMessages)
    BY <1>0, <1>1 DEF MessagesTypeOK
  <2>3. needSetDesktopSize \/ cpSize = Known
    BY <1>0, <1>3 DEF KnowsOrIsTold, MessagesTypeOK
  <2>4. asked # {} => outbox = <<>> /\ waiting /\ clientSize # 0
    BY <1>0 DEF OneOutstanding
  <2>5. /\ \A i \in Requests' : inbox'[i].at \subseteq Columns(clientSize)
        /\ \A i, j \in Requests' : i = j
        /\ asked # {} => Requests' = {}
        /\ waiting \/ (Requests' = {} /\ asked = {})
        /\ clientSize # 0 /\ outbox # <<>> => Requests' = {}
        /\ clientSize = 0 => inbox' = <<>>
    BY <1>0, <1>1, <1>2 DEF OneOutstanding
  <2> QED BY <1>1, <1>3, <2>1, <2>2, <2>3, <2>4, <2>5, WriteKeeps
<1>4. CASE state # "normal"
  <2>1. /\ copied' = waits.copied
        /\ UNCHANGED <<needSetDesktopSize, asked, copyEnabled, outbox, state, why>>
    BY <1>4 DEF Changes
  <2>2. Known' = Known /\ \A m : IsUpdate(m)' <=> IsUpdate(m)
    BY <1>1, <2>1, KnownSame
  <2>3. MessagesTypeOK'
    BY <1>0, <1>1, <2>1 DEF MessagesTypeOK, Columns
  <2>4. Declared'
    BY <1>0, <1>1, <2>1 DEF Declared, MayTellSize, PixelEncodings
  <2>5. OneOutstanding'
    BY <1>0, <1>1, <1>2, <2>1, <2>2 DEF OneOutstanding, IsServerInit, Columns
  <2>6. KnowsOrIsTold'
    BY <2>1, <1>4 DEF KnowsOrIsTold
  <2> QED BY <2>3, <2>4, <2>5, <2>6 DEF MessagesIInv
<1> QED BY <1>3, <1>4

LEMMA DrawOnInv == MessagesIInv /\ DrawOn => MessagesIInv'
<1> SUFFICES ASSUME MessagesIInv, DrawOn PROVE MessagesIInv'
  OBVIOUS
<1>1. PICK x \in Columns(pbSize) : Changes([Waiting EXCEPT !.changed = @ \cup {x}]) /\ state # "closed"
  BY DEF DrawOn
<1> DEFINE waits == [Waiting EXCEPT !.changed = @ \cup {x}]
<1>2. waits.copied = copied
  BY DEF Waiting
<1>3. copied \subseteq Nat \ {0} /\ (copied # {} => copyEnabled)
  BY DEF MessagesIInv, Declared
<1> HIDE DEF waits
<1>4. Changes(waits)
  BY <1>1 DEF waits
<1> QED BY <1>1, <1>2, <1>3, <1>4, ChangesInv

LEMMA MoveInv == MessagesIInv /\ Move => MessagesIInv'
<1> SUFFICES ASSUME MessagesIInv, Move PROVE MessagesIInv'
  OBVIOUS
<1>1. PICK dest \in SUBSET (Columns(pbSize) \ {0}) : Changes(CopiedTo(dest)) /\ state # "closed"
  BY DEF Move
<1>2. copied \subseteq Nat \ {0} /\ (copied # {} => copyEnabled)
  BY DEF MessagesIInv, Declared
<1>3. dest \subseteq Nat \ {0}
  <2>1. pbSize \in Nat
    BY SizesPositive DEF MessagesIInv, MessagesTypeOK
  <2> QED BY <2>1 DEF Columns
<1>4. CopiedTo(dest).copied = copied \/ (CopiedTo(dest).copied = dest /\ copyEnabled)
  <2>1. CASE ~copyEnabled \/ Extent(copied) > Extent(dest)
    BY <2>1 DEF CopiedTo, Waiting
  <2>2. CASE ~(~copyEnabled \/ Extent(copied) > Extent(dest))
    BY <2>2 DEF CopiedTo
  <2> QED BY <2>1, <2>2
<1>5. CopiedTo(dest).copied \subseteq Nat \ {0} /\ (CopiedTo(dest).copied # {} => copyEnabled)
  BY <1>2, <1>3, <1>4
<1> QED BY <1>1, <1>5, ChangesInv

LEMMA MinOfNats ==
  ASSUME NEW S \in SUBSET Nat, S # {}
  PROVE  Min(S) \in S /\ \A n \in S : Min(S) <= n
<1>1. \E n \in S : \A k \in S : n <= k
    BY NatMin
<1> QED BY <1>1 DEF Min

LEMMA PixelBufferChangeInv ==
  ASSUME MessagesIInv, NEW size \in Sizes, PixelBufferChange(size)
  PROVE  MessagesIInv'
<1>0. MessagesTypeOK /\ Declared /\ OneOutstanding /\ KnowsOrIsTold
  BY DEF MessagesIInv
<1> DEFINE need == needSetDesktopSize \/ Told(size)
           all == [changed |-> Columns(size), copied |-> {}]
<1>1. UNCHANGED <<supportsDesktopResize, useCopyRect, currentEncoding, inbox, declared, clientSize, waiting>>
      /\ pbSize' = size /\ cpSize' = size /\ state # "closed"
  BY DEF PixelBufferChange, clientVars
<1>2. Requests' = Requests
  BY <1>1 DEF Requests
<1>3. need \in BOOLEAN /\ (state = "normal" => need \/ size = Known)
  BY <1>0 DEF KnowsOrIsTold, MessagesTypeOK, Told
<1>4. all.copied = {}
  OBVIOUS
<1> HIDE DEF need, all
<1>5. CASE Told(size) /\ ~writeSetDesktopSize
  <2>1. /\ state' = "closed" /\ why' = "no desktop resize"
        /\ UNCHANGED <<needSetDesktopSize, asked, copied, copyEnabled, outbox>>
    BY <1>5 DEF PixelBufferChange, Throw, updates
  <2>2. Known' = Known /\ \A m : IsUpdate(m)' <=> IsUpdate(m)
    BY <1>1, <2>1, KnownSame
  <2>3. MessagesTypeOK'
    BY <1>0, <1>1, <2>1 DEF MessagesTypeOK, Columns
  <2>4. Declared'
    BY <1>0, <1>1, <2>1 DEF Declared, MayTellSize, PixelEncodings
  <2>5. OneOutstanding'
    BY <1>0, <1>1, <1>2, <2>1, <2>2 DEF OneOutstanding, IsServerInit, Columns
  <2>6. KnowsOrIsTold'
    BY <2>1 DEF KnowsOrIsTold
  <2> QED BY <2>3, <2>4, <2>5, <2>6 DEF MessagesIInv
<1>6. CASE ~(Told(size) /\ ~writeSetDesktopSize) /\ needFakeUpdate(need) /\ state = "normal"
  <2>1. writeUpdate(asked, all, size, need)
    BY <1>6 DEF PixelBufferChange, need, all
  <2>2. asked \subseteq Columns(clientSize) /\ inbox' \in Seq(ClientMessages)
    BY <1>0, <1>1 DEF MessagesTypeOK
  <2>3. asked # {} => outbox = <<>> /\ waiting /\ clientSize # 0
    BY <1>0 DEF OneOutstanding
  <2>4. /\ \A i \in Requests' : inbox'[i].at \subseteq Columns(clientSize)
        /\ \A i, j \in Requests' : i = j
        /\ asked # {} => Requests' = {}
        /\ waiting \/ (Requests' = {} /\ asked = {})
        /\ clientSize # 0 /\ outbox # <<>> => Requests' = {}
        /\ clientSize = 0 => inbox' = <<>>
    BY <1>0, <1>1, <1>2 DEF OneOutstanding
  <2> QED BY <1>1, <1>3, <1>4, <1>6, <2>1, <2>2, <2>3, <2>4, WriteKeeps
<1>7. CASE ~(Told(size) /\ ~writeSetDesktopSize) /\ ~(needFakeUpdate(need) /\ state = "normal")
  <2>1. /\ copied' = {} /\ (needSetDesktopSize' <=> need)
        /\ UNCHANGED <<asked, copyEnabled, outbox, state, why>>
    BY <1>7 DEF PixelBufferChange, need, all
  <2>0. needSetDesktopSize' \in BOOLEAN
    <3>1. needSetDesktopSize' = need
      BY <1>7, Zenon DEF PixelBufferChange, need, all
    <3> QED BY <3>1, <1>3, Zenon
  <2>2. Known' = Known /\ \A m : IsUpdate(m)' <=> IsUpdate(m)
    BY <1>1, <2>1, KnownSame
  <2>3. MessagesTypeOK'
    BY <1>0, <1>1, <2>0, <2>1 DEF MessagesTypeOK, Columns
  <2>4. Declared'
    BY <1>0, <1>1, <2>1 DEF Declared, MayTellSize, PixelEncodings
  <2>5. OneOutstanding'
    BY <1>0, <1>1, <1>2, <2>1, <2>2 DEF OneOutstanding, IsServerInit, Columns
  <2>6. KnowsOrIsTold'
    BY <1>1, <1>3, <2>1, <2>2 DEF KnowsOrIsTold
  <2> QED BY <2>3, <2>4, <2>5, <2>6 DEF MessagesIInv
<1> QED BY <1>5, <1>6, <1>7

\* What is still to be read, once the first message is read.
LEMMA ReadRequests ==
  ASSUME inbox \in Seq(ClientMessages), inbox # <<>>, inbox' = Tail(inbox)
  PROVE  /\ inbox' \in Seq(ClientMessages) /\ Head(inbox) \in ClientMessages
         /\ 1 \in DOMAIN inbox /\ Head(inbox) = inbox[1]
         /\ \A i \in Requests' : i + 1 \in Requests /\ inbox'[i] = inbox[i + 1] /\ i + 1 # 1 /\ i \in Nat
<1>1. Len(inbox) \in Nat \ {0} /\ DOMAIN inbox = 1 .. Len(inbox)
  OBVIOUS
<1>2. /\ Head(inbox) \in ClientMessages /\ inbox' \in Seq(ClientMessages) /\ Len(inbox') = Len(inbox) - 1
      /\ \A i \in 1 .. Len(inbox') : inbox'[i] = inbox[i + 1]
  BY HeadTailProperties
<1>3. DOMAIN inbox' = 1 .. Len(inbox')
  BY <1>2
<1>4. ASSUME NEW i \in Requests' PROVE i + 1 \in Requests /\ inbox'[i] = inbox[i + 1] /\ i + 1 # 1 /\ i \in Nat
  <2>1. i \in 1 .. Len(inbox') /\ inbox'[i].type = "request"
    BY <1>3 DEF Requests
  <2>2. inbox'[i] = inbox[i + 1] /\ i + 1 \in 1 .. Len(inbox) /\ i + 1 # 1 /\ i \in Nat
    BY <2>1, <1>1, <1>2
  <2> QED BY <2>1, <2>2, <1>1 DEF Requests
<1>5. Head(inbox) = inbox[1] /\ 1 \in DOMAIN inbox
  BY <1>1
<1> QED BY <1>2, <1>4, <1>5

LEMMA ReadMessageInv == MessagesIInv /\ ReadMessage => MessagesIInv'
<1> SUFFICES ASSUME MessagesIInv, ReadMessage PROVE MessagesIInv'
  OBVIOUS
<1> DEFINE m == Head(inbox)
<1>0. MessagesTypeOK /\ Declared /\ OneOutstanding /\ KnowsOrIsTold
  BY DEF MessagesIInv
<1>1. /\ state = "normal" /\ inbox # <<>> /\ inbox' = Tail(inbox)
      /\ UNCHANGED <<pbSize, clientSize, waiting>>
      /\ IF m.type = "setEncodings" THEN SetEncodings(m.list) ELSE Request(m)
  BY DEF ReadMessage, clientVars
<1>2. inbox \in Seq(ClientMessages)
  BY <1>0 DEF MessagesTypeOK
<1>3. /\ inbox' \in Seq(ClientMessages) /\ m \in ClientMessages
      /\ 1 \in DOMAIN inbox /\ m = inbox[1]
      /\ \A i \in Requests' : i + 1 \in Requests /\ inbox'[i] = inbox[i + 1] /\ i + 1 # 1 /\ i \in Nat
  BY <1>1, <1>2, ReadRequests
<1> HIDE DEF m
<1>4. /\ \A i \in Requests' : inbox'[i].at \subseteq Columns(clientSize)
      /\ \A i, j \in Requests' : i = j
      /\ asked # {} => Requests' = {}
      /\ waiting \/ (Requests' = {} /\ asked = {})
      /\ clientSize # 0 /\ outbox # <<>> => Requests' = {}
      /\ clientSize # 0
  <2>1. \A i \in Requests' : i + 1 \in Requests /\ inbox'[i] = inbox[i + 1] /\ i \in Nat
    BY <1>3
  <2>2. \A i, j \in Requests' : i + 1 = j + 1 /\ i \in Nat /\ j \in Nat
    BY <1>0, <2>1 DEF OneOutstanding
  <2>3. \A i, j \in Requests' : i = j
    BY <2>2
  <2>4. Requests = {} => Requests' = {}
    BY <2>1
  <2>5. \A i \in Requests' : inbox'[i].at \subseteq Columns(clientSize)
    BY <1>0, <2>1 DEF OneOutstanding
  <2>6. clientSize # 0
    BY <1>0, <1>1 DEF OneOutstanding
  <2> QED BY <1>0, <2>3, <2>4, <2>5, <2>6 DEF OneOutstanding
<1>5. CASE m.type = "setEncodings"
  <2>1. SetEncodings(m.list) /\ m.list \in EncodingLists
    BY <1>1, <1>3, <1>5 DEF ClientMessages
  <2> DEFINE list == m.list
  <2>2. list \in Seq(STRING) /\ DOMAIN list = 1 .. Len(list) /\ Len(list) \in Nat
    <3>1. list \in Seq(STRING)
      BY <2>1, MessagesAssumption
    <3> QED BY <3>1
  <2>3. SetEncodings(list)
    BY <2>1
  <2> HIDE DEF list
  <2>4. /\ UNCHANGED <<cpSize, needSetDesktopSize, asked, copied, copyEnabled, outbox, state, why>>
        /\ declared' = {"raw"} \cup {list[i] : i \in DOMAIN list}
    BY <2>3 DEF SetEncodings, updates
  <2>5. useCopyRect' => "CopyRect" \in declared'
    <3>1. useCopyRect' = \E i \in DOMAIN list : list[i] = "CopyRect"
      BY <2>3, Zenon DEF SetEncodings
    <3>2. (\E i \in DOMAIN list : list[i] = "CopyRect") => "CopyRect" \in declared'
      BY <2>4
    <3> QED BY <3>1, <3>2, Zenon
  <2>6. supportsDesktopResize' => "DesktopSize" \in declared'
    <3>1. supportsDesktopResize' = \E i \in DOMAIN list : list[i] = "DesktopSize"
      BY <2>3, Zenon DEF SetEncodings
    <3>2. (\E i \in DOMAIN list : list[i] = "DesktopSize") => "DesktopSize" \in declared'
      BY <2>4
    <3> QED BY <3>1, <3>2, Zenon
  <2>7. currentEncoding' \in declared' \cap PixelEncodings
    <3> DEFINE I == {i \in 1 .. Len(list) : list[i] \in Supported}
    <3>1. currentEncoding' = IF I = {} THEN "raw" ELSE IF Min(I) = 0 THEN "raw" ELSE list[Min(I)]
      BY <2>3 DEF SetEncodings, SelectInSeq
    <3>2. CASE I = {}
      BY <3>1, <3>2, <2>4 DEF PixelEncodings
    <3>3. CASE I # {}
      <4>1. Min(I) \in I
        <5>1. I \subseteq Nat /\ I # {}
          BY <3>3
        <5> HIDE DEF I
        <5> QED BY <5>1, MinOfNats
      <4>2. Min(I) # 0 /\ Min(I) \in DOMAIN list /\ list[Min(I)] \in Supported
        BY <4>1, <2>2
      <4> HIDE DEF I
      <4> QED BY <3>1, <3>3, <4>2, <2>4 DEF PixelEncodings
    <3> QED BY <3>2, <3>3
  <2>8. Known' = Known /\ \A u : IsUpdate(u)' <=> IsUpdate(u)
    BY <1>1, <2>4, KnownSame
  <2>9. MessagesTypeOK'
    BY <1>0, <1>1, <1>3, <2>4 DEF MessagesTypeOK, Columns
  <2>10. Declared'
    BY <1>0, <2>4, <2>5, <2>6, <2>7 DEF Declared, MayTellSize, PixelEncodings
  <2>11. OneOutstanding'
    <3>1. \/ outbox' = <<>>
          \/ /\ clientSize' # 0 /\ waiting' /\ asked' = {} /\ Requests' = {}
             /\ \E u : outbox' = <<u>> /\ IsUpdate(u)'
      BY <1>0, <1>1, <1>4, <2>4, <2>8 DEF OneOutstanding
    <3>2. /\ \A i \in Requests' : inbox'[i].at \subseteq Columns(clientSize)'
          /\ \A i, j \in Requests' : i = j
          /\ asked' # {} => Requests' = {}
          /\ waiting' \/ (Requests' = {} /\ asked' = {})
          /\ clientSize' # 0 /\ state' # "initialisation"
      BY <1>1, <1>4, <2>4 DEF Columns
    <3> QED BY <3>1, <3>2 DEF OneOutstanding
  <2>12. KnowsOrIsTold'
    BY <1>0, <1>1, <2>4, <2>8 DEF KnowsOrIsTold
  <2> QED BY <2>9, <2>10, <2>11, <2>12 DEF MessagesIInv
<1>6. CASE m.type # "setEncodings"
  <2> DEFINE req == asked \cup m.at
             waits == IF m.incremental THEN Waiting ELSE [Waiting EXCEPT !.changed = @ \cup m.at]
  <2>1. m.type = "request" /\ m \in [type : {"request"}, at : SUBSET Nat, incremental : BOOLEAN]
    BY <1>3, <1>6 DEF ClientMessages
  <2>2. 1 \in Requests /\ m.at \subseteq Columns(clientSize)
    BY <1>0, <1>3, <2>1 DEF Requests, OneOutstanding
  <2>3. Requests' = {}
    <3>1. ASSUME NEW i \in Requests' PROVE FALSE
      BY <1>0, <1>3, <2>2 DEF OneOutstanding
    <3> QED BY <3>1
  <2>4. waits.copied = copied
    BY DEF Waiting
  <2>5. writeUpdate(req, waits, cpSize, needSetDesktopSize)
        /\ UNCHANGED <<cpSize, supportsDesktopResize, useCopyRect, currentEncoding, declared>>
    BY <1>1, <1>6 DEF Request, params
  <2>6. req \subseteq Columns(clientSize) /\ cpSize \in Sizes /\ needSetDesktopSize \in BOOLEAN
        /\ pbSize' = cpSize /\ cpSize' = cpSize
    BY <1>0, <1>1, <2>2, <2>5 DEF MessagesTypeOK
  <2> HIDE DEF req, waits
  <2>7. outbox = <<>> /\ waiting
    BY <1>0, <1>4, <2>2 DEF OneOutstanding
  <2>8. needSetDesktopSize \/ cpSize = Known
    BY <1>0, <1>1 DEF KnowsOrIsTold, MessagesTypeOK
  <2>9. waits.copied \subseteq Nat \ {0} /\ (waits.copied # {} => copyEnabled)
    BY <1>0, <2>4 DEF Declared, MayTellSize
  <2> QED BY <1>1, <1>3, <1>4, <2>3, <2>5, <2>6, <2>7, <2>8, <2>9, WriteKeeps
<1> QED BY <1>5, <1>6

\* A message of the client goes on its way behind the others.
LEMMA TellsInv ==
  ASSUME MessagesIInv, NEW m \in ClientMessages, Tells(m),
         \/ m.type # "request" /\ waiting' = waiting
         \/ m.type = "request" /\ m.at \subseteq Columns(clientSize) /\ ~waiting /\ waiting'
  PROVE  MessagesIInv'
<1>0. MessagesTypeOK /\ Declared /\ OneOutstanding /\ KnowsOrIsTold
  BY DEF MessagesIInv
<1>1. /\ clientSize > 0 /\ inbox' = Append(inbox, m)
      /\ UNCHANGED <<pbSize, state, why, cpSize, supportsDesktopResize, useCopyRect, currentEncoding,
                     needSetDesktopSize, asked, copied, copyEnabled, outbox, declared, clientSize>>
  BY DEF Tells, params, updates
<1>2. inbox \in Seq(ClientMessages) /\ clientSize \in Nat
  BY <1>0, SizesPositive DEF MessagesTypeOK
<1>3. /\ inbox' \in Seq(ClientMessages) /\ DOMAIN inbox' = 1 .. Len(inbox) + 1
      /\ DOMAIN inbox = 1 .. Len(inbox) /\ Len(inbox) \in Nat
      /\ inbox'[Len(inbox) + 1] = m /\ \A i \in DOMAIN inbox : inbox'[i] = inbox[i]
  BY <1>1, <1>2, AppendProperties
<1>4. Known' = Known /\ \A u : IsUpdate(u)' <=> IsUpdate(u)
  BY <1>1, KnownSame
<1>5. MessagesTypeOK'
  BY <1>0, <1>1, <1>3 DEF MessagesTypeOK, Columns
<1>6. Declared'
  BY <1>0, <1>1 DEF Declared, MayTellSize, PixelEncodings
<1>7. KnowsOrIsTold'
  BY <1>0, <1>1, <1>4 DEF KnowsOrIsTold
<1>8. clientSize # 0 /\ state # "initialisation"
  BY <1>0, <1>1, <1>2 DEF OneOutstanding
<1>9. \/ outbox = <<>>
      \/ waiting /\ asked = {} /\ Requests = {} /\ \E u : outbox = <<u>> /\ IsUpdate(u)
  BY <1>0, <1>8 DEF OneOutstanding
<1>10. CASE m.type # "request" /\ waiting' = waiting
  <2>1. Requests' = Requests /\ \A i \in Requests : inbox'[i] = inbox[i]
    BY <1>3, <1>10 DEF Requests
  <2>2. /\ \A i \in Requests' : inbox'[i].at \subseteq Columns(clientSize)
        /\ \A i, j \in Requests' : i = j
        /\ asked # {} => Requests' = {}
        /\ waiting' \/ (Requests' = {} /\ asked = {})
    BY <1>0, <1>10, <2>1 DEF OneOutstanding
  <2>3. OneOutstanding'
    BY <1>1, <1>4, <1>8, <1>9, <1>10, <2>1, <2>2 DEF OneOutstanding, Columns
  <2> QED BY <1>5, <1>6, <1>7, <2>3 DEF MessagesIInv
<1>11. CASE m.type = "request" /\ m.at \subseteq Columns(clientSize) /\ ~waiting /\ waiting'
  <2>1. Requests = {} /\ asked = {} /\ outbox = <<>>
    BY <1>0, <1>9, <1>11 DEF OneOutstanding
  <2>2. Requests' = {Len(inbox) + 1}
    BY <1>3, <1>11, <2>1 DEF Requests
  <2>3. \A i \in Requests' : inbox'[i].at \subseteq Columns(clientSize)
    BY <1>3, <1>11, <2>2
  <2>4. OneOutstanding'
    BY <1>1, <1>8, <1>11, <2>1, <2>2, <2>3 DEF OneOutstanding, Columns
  <2> QED BY <1>5, <1>6, <1>7, <2>4 DEF MessagesIInv
<1> QED BY <1>10, <1>11

LEMMA SendEncodingsInv == MessagesIInv /\ SendEncodings => MessagesIInv'
<1> SUFFICES ASSUME MessagesIInv, SendEncodings PROVE MessagesIInv'
  OBVIOUS
<1>1. PICK list \in EncodingLists :
        Tells([type |-> "setEncodings", list |-> list]) /\ UNCHANGED waiting
  BY DEF SendEncodings
<1> DEFINE m == [type |-> "setEncodings", list |-> list]
<1>2. m \in ClientMessages /\ m.type = "setEncodings"
  BY DEF ClientMessages
<1> HIDE DEF m
<1>3. Tells(m) /\ waiting' = waiting
  BY <1>1 DEF m
<1> QED BY <1>2, <1>3, TellsInv

LEMMA SendRequestInv == MessagesIInv /\ SendRequest => MessagesIInv'
<1> SUFFICES ASSUME MessagesIInv, SendRequest PROVE MessagesIInv'
  OBVIOUS
<1>1. PICK part \in SUBSET Columns(clientSize) \ {{}}, inc \in BOOLEAN :
        Tells([type |-> "request", at |-> part, incremental |-> inc])
  BY DEF SendRequest
<1>2. ~waiting /\ waiting'
  BY DEF SendRequest
<1> DEFINE m == [type |-> "request", at |-> part, incremental |-> inc]
<1>3. m \in ClientMessages /\ m.type = "request" /\ m.at \subseteq Columns(clientSize)
  <2>1. clientSize \in Nat
    BY SizesPositive DEF MessagesIInv, MessagesTypeOK
  <2>2. part \in SUBSET Nat
    BY <2>1 DEF Columns
  <2> QED BY <2>2 DEF ClientMessages
<1> HIDE DEF m
<1>4. Tells(m)
  BY <1>1 DEF m
<1> QED BY <1>2, <1>3, <1>4, TellsInv

LEMMA ClientReadsInv == MessagesIInv /\ ClientReads => MessagesIInv'
<1> SUFFICES ASSUME MessagesIInv, ClientReads PROVE MessagesIInv'
  OBVIOUS
<1>0. MessagesTypeOK /\ Declared /\ OneOutstanding /\ KnowsOrIsTold
  BY DEF MessagesIInv
<1>1. /\ outbox # <<>> /\ outbox' = Tail(outbox)
      /\ clientSize' = SizeAfter(Head(outbox), clientSize)
      /\ waiting' = (waiting /\ Head(outbox).type = "serverInit")
      /\ UNCHANGED <<pbSize, state, why, cpSize, supportsDesktopResize, useCopyRect, currentEncoding,
                     needSetDesktopSize, asked, copied, copyEnabled, inbox, declared>>
  BY DEF ClientReads, params, updates
<1>2. PICK m : /\ outbox = <<m>>
               /\ \/ clientSize = 0 /\ IsServerInit(m)
                  \/ /\ clientSize # 0 /\ waiting /\ asked = {} /\ Requests = {} /\ IsUpdate(m)
  BY <1>0, <1>1 DEF OneOutstanding
<1>3. outbox' = <<>> /\ Head(outbox) = m /\ outbox[1] = m
  BY <1>1, <1>2
<1>4. clientSize' = SizeAfter(m, clientSize) /\ clientSize' = Known
  BY <1>1, <1>3 DEF Known
<1>5. clientSize' \in Sizes /\ asked = {} /\ Requests = {}
  <2>1. CASE clientSize = 0 /\ IsServerInit(m)
    <3>1. Requests = {} /\ asked = {}
      BY <1>0, <2>1 DEF OneOutstanding, Requests
    <3> QED BY <1>4, <2>1, <3>1 DEF IsServerInit, SizeAfter
  <2>2. CASE clientSize # 0 /\ asked = {} /\ Requests = {} /\ IsUpdate(m)
    BY <1>4, <2>2 DEF IsUpdate
  <2> QED BY <1>2, <2>1, <2>2
<1>6. Requests' = {} /\ asked' = {}
  BY <1>1, <1>5 DEF Requests
<1>7. clientSize' # 0
  BY <1>5, SizesPositive
<1>8. Known' = clientSize'
  BY <1>3 DEF Known
<1>9. MessagesTypeOK'
  BY <1>0, <1>1, <1>5, <1>6 DEF MessagesTypeOK
<1>10. Declared'
  BY <1>0, <1>1 DEF Declared, MayTellSize, PixelEncodings
<1>11. state # "initialisation"
  BY <1>0, <1>1 DEF OneOutstanding
<1>12. OneOutstanding'
  BY <1>1, <1>3, <1>6, <1>7, <1>11 DEF OneOutstanding
<1>13. KnowsOrIsTold'
  BY <1>0, <1>1, <1>4, <1>8 DEF KnowsOrIsTold
<1> QED BY <1>9, <1>10, <1>12, <1>13 DEF MessagesIInv

LEMMA MessagesStepInv == MessagesIInv /\ [MessagesNext]_messagesVars => MessagesIInv'
<1> SUFFICES ASSUME MessagesIInv, [MessagesNext]_messagesVars PROVE MessagesIInv'
  OBVIOUS
<1>1. CASE UNCHANGED messagesVars
  <2>1. UNCHANGED <<pbSize, state, why, cpSize, supportsDesktopResize, useCopyRect, currentEncoding,
                    needSetDesktopSize, asked, copied, copyEnabled, inbox, outbox, declared,
                    clientSize, waiting>>
    BY <1>1 DEF messagesVars, params, updates, clientVars
  <2>2. Known' = Known /\ \A m : IsUpdate(m)' <=> IsUpdate(m)
    BY <2>1, KnownSame
  <2>3. Requests' = Requests
    BY <2>1 DEF Requests
  <2>4. MessagesTypeOK'
    BY <2>1 DEF MessagesIInv, MessagesTypeOK, Columns
  <2>5. Declared'
    BY <2>1 DEF MessagesIInv, Declared, MayTellSize, PixelEncodings
  <2>6. OneOutstanding'
    BY <2>1, <2>2, <2>3 DEF MessagesIInv, OneOutstanding, Columns, IsServerInit
  <2>7. KnowsOrIsTold'
    BY <2>1, <2>2 DEF MessagesIInv, KnowsOrIsTold
  <2> QED BY <2>4, <2>5, <2>6, <2>7 DEF MessagesIInv
<1>2. CASE \E size \in Sizes \ {pbSize} : PixelBufferChange(size)
  BY <1>2, PixelBufferChangeInv
<1> QED
  BY <1>1, <1>2, ClientInitInv, DrawOnInv, MoveInv, ReadMessageInv, SendEncodingsInv,
     SendRequestInv, ClientReadsInv DEF MessagesNext

\* The invariant says what the client can read, and what it knows.
LEMMA MessagesIInvImplies == MessagesIInv => ClientFollowsSize
<1> SUFFICES ASSUME MessagesIInv PROVE ClientFollowsSize
  OBVIOUS
<1>0. MessagesTypeOK /\ OneOutstanding /\ KnowsOrIsTold
  BY DEF MessagesIInv
<1>1. CASE outbox = <<>>
  <2>1. UpdatesFit
    BY <1>0, <1>1 DEF UpdatesFit, MessagesTypeOK
  <2>2. Known = clientSize
    BY <1>1 DEF Known
  <2>3. SizeIsTold
    <3>1. Len(outbox) = 0
      BY <1>1
    <3>2. 1 .. Len(outbox) = {}
      BY <3>1
    <3> QED BY <1>0, <2>2, <3>2 DEF SizeIsTold, SelectLastInSeq, KnowsOrIsTold
  <2> QED BY <2>1, <2>3 DEF ClientFollowsSize
<1>2. CASE outbox # <<>>
  <2>1. PICK m : outbox = <<m>> /\ (IsServerInit(m) \/ IsUpdate(m))
    BY <1>0, <1>2 DEF OneOutstanding
  <2>2. Head(outbox) = m /\ outbox[1] = m /\ Len(outbox) = 1
    BY <2>1
  <2>3. UpdatesFit
    BY <1>0, <2>1, <2>2 DEF UpdatesFit, MessagesTypeOK, IsUpdate, IsServerInit
  <2>4. Known = SizeAfter(m, clientSize)
    BY <1>2, <2>2 DEF Known
  <2> DEFINE Tell(u) == u.type = "serverInit" \/ \E i \in DOMAIN u.rects : u.rects[i].enc = "DesktopSize"
             I == {i \in 1 .. Len(outbox) : Tell(outbox[i])}
             i == IF I # {} THEN Max(I) ELSE 0
  <2>5. SizeIsTold <=> (state = "normal" =>
          needSetDesktopSize \/ pbSize = IF i = 0 THEN clientSize ELSE SizeAfter(outbox[i], clientSize))
    BY Zenon DEF SizeIsTold, SelectLastInSeq
  <2>6. CASE Tell(m)
    <3>1. I = {1}
      BY <2>2, <2>6
    <3> HIDE DEF I
    <3>2. i = 1
      BY <3>1 DEF Max
    <3> QED BY <1>0, <2>2, <2>3, <2>4, <2>5, <3>2 DEF KnowsOrIsTold, ClientFollowsSize
  <2>7. CASE ~Tell(m)
    <3>1. I = {}
      BY <2>2, <2>7
    <3>2. i = 0
      BY <3>1
    <3>3. SizeAfter(m, clientSize) = clientSize
      <4>1. m.type # "serverInit" /\ DOMAIN m.rects = 1 .. Len(m.rects)
        BY <2>1, <2>7 DEF IsUpdate, IsServerInit
      <4>2. {k \in 1 .. Len(m.rects) : m.rects[k].enc = "DesktopSize"} = {}
        BY <2>7, <4>1
      <4> QED BY <4>1, <4>2 DEF SizeAfter, SelectInSeq
    <3> HIDE DEF i
    <3> QED BY <1>0, <2>3, <2>4, <2>5, <3>2, <3>3 DEF KnowsOrIsTold, ClientFollowsSize
  <2> QED BY <2>6, <2>7
<1> QED BY <1>1, <1>2

THEOREM ClientIsFollowed == MessagesSpec => []ClientFollowsSize
<1>1. MessagesSpec => []MessagesIInv
  BY MessagesInitInv, MessagesStepInv, PTL DEF MessagesSpec
<1> QED BY <1>1, MessagesIInvImplies, PTL

-----------------------------------------------------------------------------
(***************************************************************************)
(* No byte is lost, doubled or out of its place in the streams of a        *)
(* connection, for any messages, any calls and any sizes of the buffers.   *)
(* What has left the client and is not handed on, wherever it is, lies in  *)
(* its order from the first byte of the next message on; what the reader   *)
(* still has to call for is what that message still needs.                 *)
(***************************************************************************)
Places == (Nat \ {0}) \X (Nat \ {0})

\* Bytes that have left the client, of messages that are not handed on yet.
OnTheWay == got \o inBuf \o arrived

\* The bytes w lie in the client's order from the first of message k on.
FromFirst(k, w) ==
  /\ w # <<>> => w[1] = <<k, 1>>
  /\ \A i \in 1 .. Len(w) - 1 : w[i + 1] = After(w[i])
  /\ \A i \in 1 .. Len(w) : w[i][1] \in DOMAIN client

\* How much of a message is read, of a text whose length is no int the length.
ReadLength(m) == IF TextTooLong(m) THEN 8 ELSE WireLength(m)

\* Where in a message its i-th call begins.
Offset(m, i) ==
  CASE m.type = "SetPixelFormat" -> <<1, 4, 5, 6, 7, 8, 10, 12, 14, 15, 16, 17, 20>>[i]
    [] m.type = "SetEncodings" -> IF i < 3 THEN i ELSE 4 + 4 * (i - 3)
    [] m.type = "FramebufferUpdateRequest" -> <<1, 2, 4, 6, 8, 10>>[i]
    [] m.type = "KeyEvent" -> <<1, 2, 4, 8>>[i]
    [] m.type = "PointerEvent" -> <<1, 2, 4, 6>>[i]
    [] m.type = "ClientCutText" -> <<1, 4, 8, ReadLength(m)>>[i]

Current == client[Len(handled) + 1]
AtCall == Len(Fields(Current)) - Len(todo) + 1

ReadTypeOK ==
  /\ client \in Seq(Messages)
  /\ next \in Places /\ handled \in Seq(Seq(Places))
  /\ got \in Seq(Places) /\ inBuf \in Seq(Places) /\ arrived \in Seq(Places)
  /\ todo \in Seq(Calls)
  /\ inOffset \in Nat /\ inUsed \in Nat

\* Between messages nothing is read; within one the calls that are left are
\* the last ones of it, and the first of them gets to where the next begins.
CallsAreLeft ==
  /\ todo = <<>> => got = <<>>
  /\ todo # <<>> =>
       /\ Len(handled) < Len(client)
       /\ AtCall \in 1 .. Len(Fields(Current))
       /\ \A j \in 2 .. Len(todo) : todo[j] = Fields(Current)[AtCall + j - 1]
       /\ todo[1].op = Fields(Current)[AtCall].op
       /\ Len(got) + todo[1].n = Offset(Current, AtCall + 1)

\* What has left the client ends where the next byte of it begins.
EndsAtNext ==
  /\ OnTheWay = <<>> => next = <<Len(handled) + 1, 1>>
  /\ OnTheWay # <<>> => next = After(OnTheWay[Len(OnTheWay)])

AllAreSent ==
  /\ \A k \in DOMAIN handled : handled[k] = WireBytes(k, client[k])
  /\ inOffset + inUsed = BytesOf(client)[Len(handled)] + Len(got)

\* While the reader is not astray.
ReadIInv ==
  /\ ReadTypeOK /\ Len(handled) \in 0 .. Len(client) /\ ~Astray
  /\ AllAreSent /\ FromFirst(Len(handled) + 1, OnTheWay) /\ EndsAtNext /\ CallsAreLeft

ReaderIInv == ReadTypeOK /\ HandledAreSent /\ (ReadIInv \/ Astray)

-----------------------------------------------------------------------------
(* Sequences that are put together and taken apart. *)

LEMMA Concat ==
  ASSUME NEW S, NEW s \in Seq(S), NEW t \in Seq(S)
  PROVE  /\ s \o t \in Seq(S) /\ Len(s \o t) = Len(s) + Len(t)
         /\ Len(s) \in Nat /\ Len(t) \in Nat
         /\ \A i \in 1 .. Len(s) : (s \o t)[i] = s[i]
         /\ \A i \in 1 .. Len(t) : (s \o t)[Len(s) + i] = t[i]
<1>1. s \o t \in Seq(S) /\ Len(s \o t) = Len(s) + Len(t)
  BY ConcatProperties
<1>2. \A i \in 1 .. Len(s) + Len(t) : (s \o t)[i] = IF i <= Len(s) THEN s[i] ELSE t[i - Len(s)]
  BY ConcatProperties
<1>3. Len(s) \in Nat /\ Len(t) \in Nat
  OBVIOUS
<1>4. ASSUME NEW i \in 1 .. Len(s) PROVE (s \o t)[i] = s[i]
  BY <1>2, <1>3
<1>5. ASSUME NEW i \in 1 .. Len(t) PROVE (s \o t)[Len(s) + i] = t[i]
  <2>1. Len(s) + i \in 1 .. Len(s) + Len(t) /\ ~ (Len(s) + i <= Len(s)) /\ (Len(s) + i) - Len(s) = i
    BY <1>3
  <2> QED BY <1>2, <2>1
<1> QED BY <1>1, <1>3, <1>4, <1>5

LEMMA Cut ==
  ASSUME NEW S, NEW s \in Seq(S), NEW n \in 0 .. Len(s)
  PROVE  /\ SubSeq(s, 1, n) \in Seq(S) /\ Len(SubSeq(s, 1, n)) = n
         /\ SubSeq(s, n + 1, Len(s)) \in Seq(S) /\ Len(SubSeq(s, n + 1, Len(s))) = Len(s) - n
         /\ \A i \in 1 .. n : SubSeq(s, 1, n)[i] = s[i]
         /\ \A i \in 1 .. Len(s) - n : SubSeq(s, n + 1, Len(s))[i] = s[n + i]
<1>1. Len(s) \in Nat /\ \A i \in 1 .. Len(s) : s[i] \in S
  OBVIOUS
<1>2. \A i \in 1 .. n : s[i] \in S
  BY <1>1
<1>3. \A i \in n + 1 .. Len(s) : s[i] \in S
  BY <1>1
<1>4. /\ SubSeq(s, 1, n) \in Seq(S)
      /\ Len(SubSeq(s, 1, n)) = IF 1 <= n THEN n - 1 + 1 ELSE 0
      /\ \A i \in 1 .. n - 1 + 1 : SubSeq(s, 1, n)[i] = s[1 + i - 1]
  BY <1>2, SubSeqProperties
<1>5. /\ SubSeq(s, n + 1, Len(s)) \in Seq(S)
      /\ Len(SubSeq(s, n + 1, Len(s))) = IF n + 1 <= Len(s) THEN Len(s) - (n + 1) + 1 ELSE 0
      /\ \A i \in 1 .. Len(s) - (n + 1) + 1 : SubSeq(s, n + 1, Len(s))[i] = s[n + 1 + i - 1]
  BY <1>1, <1>3, SubSeqProperties
<1> QED BY <1>1, <1>4, <1>5

LEMMA Rejoined ==
  ASSUME NEW S, NEW s \in Seq(S), NEW n \in 0 .. Len(s)
  PROVE  SubSeq(s, 1, n) \o SubSeq(s, n + 1, Len(s)) = s
<1>1. SubSeq(s, 1, n) \o SubSeq(s, n + 1, Len(s)) = SubSeq(s, 1, Len(s))
  <2>1. 1 \in 1 .. Len(s) + 1 /\ n \in 1 - 1 .. Len(s) /\ Len(s) \in n .. Len(s)
    OBVIOUS
  <2> QED BY <2>1, ConcatAdjacentSubSeq
<1>2. SubSeq(s, 1, Len(s)) = s
  BY SubSeqFull
<1> QED BY <1>1, <1>2

LEMMA Regrouped ==
  ASSUME NEW S, NEW r \in Seq(S), NEW a \in Seq(S), NEW b \in Seq(S), NEW t \in Seq(S)
  PROVE  ((r \o a) \o b) \o t = (r \o (a \o b)) \o t
<1>1. (r \o a) \o b = r \o (a \o b)
  BY ConcatAssociative, SMTT(30)
<1> QED BY <1>1

-----------------------------------------------------------------------------
LEMMA MessageFields ==
  ASSUME NEW m \in Messages
  PROVE  /\ Fields(m) \in Seq(Calls) /\ Len(Fields(m)) \in Nat \ {0}
         /\ WireLength(m) \in Nat \ {0}
         /\ Offset(m, 1) = 1 /\ Offset(m, Len(Fields(m)) + 1) = ReadLength(m)
         /\ \A i \in 1 .. Len(Fields(m)) :
              /\ Offset(m, i + 1) = Offset(m, i) + Fields(m)[i].n
              /\ Offset(m, i) \in Nat
<1>0. m.n \in Nat /\ m.n <= 2 * MAX_INT + 1 /\ MAX_INT \in Nat
  BY StreamsAssumption DEF Messages
<1>a. m.type # "ClientCutText" => ReadLength(m) = WireLength(m)
  BY DEF ReadLength, TextTooLong
<1>1. CASE m.type = "SetPixelFormat"
  <2> DEFINE F == <<Skip(3), Item(1), Item(1), Item(1), Item(1), Item(2), Item(2), Item(2),
                    Item(1), Item(1), Item(1), Skip(3)>>
  <2>2. F \in Seq(Calls) /\ Len(F) = 12
    BY DEF Calls, Skip, Turns, Item
  <2>1. Fields(m) = F
    <3> DEFINE G == <<Skip(3)>>
               H == PixelFormatFields
    <3>1. G \in Seq(Calls) /\ Len(G) = 1 /\ G[1] = F[1]
      BY DEF Calls, Skip, Turns
    <3>2. H \in Seq(Calls) /\ Len(H) = 11
      BY DEF Calls, Skip, Turns, Item, PixelFormatFields
    <3>3. \A i \in 1 .. 11 : H[i] = F[i + 1]
      BY DEF PixelFormatFields
    <3>4. Fields(m) = G \o H
      BY <1>1 DEF Fields
    <3> HIDE DEF F, G, H
    <3>5. /\ G \o H \in Seq(Calls) /\ Len(G \o H) = Len(G) + Len(H)
          /\ \A i \in 1 .. Len(G) : (G \o H)[i] = G[i]
          /\ \A i \in 1 .. Len(H) : (G \o H)[Len(G) + i] = H[i]
      <4>1. G \in Seq(Calls) /\ H \in Seq(Calls)
        BY <3>1, <3>2
      <4> QED BY ONLY <4>1, Concat
    <3>6. ASSUME NEW i \in 1 .. 12 PROVE (G \o H)[i] = F[i]
      <4>2. CASE i = 1
        BY <3>5, <4>2, <3>1
      <4>3. CASE i # 1
        <5>1. i - 1 \in 1 .. 11 /\ (i - 1) + 1 = i /\ 1 + (i - 1) = i
          BY <4>3
        <5>2. i - 1 \in 1 .. Len(H) /\ Len(G) + (i - 1) = i
          BY <5>1, <3>1, <3>2
        <5>3. (G \o H)[Len(G) + (i - 1)] = H[i - 1]
          BY <5>2, <3>5
        <5>4. H[i - 1] = F[(i - 1) + 1]
          BY <5>1, <3>3
        <5> QED BY <5>1, <5>2, <5>3, <5>4
      <4> QED BY <4>2, <4>3
    <3>7. Len(G \o H) = 12 /\ Len(F) = 12
      BY <2>2, <3>1, <3>2, <3>5
    <3>8. \A i \in 1 .. Len(G \o H) : (G \o H)[i] = F[i]
      BY <3>6, <3>7
    <3>9. G \o H = F
      BY <2>2, <3>5, <3>7, <3>8, SeqEqual
    <3> QED BY <3>4, <3>9
  <2>3. \A i \in 1 .. 12 : Offset(m, i + 1) = Offset(m, i) + F[i].n
    BY <1>1 DEF Offset, Skip, Turns, Item
  <2>4. \A i \in 1 .. 12 : Offset(m, i) \in Nat /\ Offset(m, i) <= 20
    BY <1>1 DEF Offset
  <2>5. Offset(m, 1) = 1 /\ Offset(m, 13) = 20 /\ ReadLength(m) = 20 /\ WireLength(m) = 20
    BY <1>1, <1>a DEF Offset, WireLength
  <2> QED BY <2>1, <2>2, <2>3, <2>4, <2>5
<1>2. CASE m.type = "SetEncodings"
  <2> DEFINE N == m.n
             G == [i \in 1 .. N |-> Item(4)]
             F == <<Skip(1), Item(2)>> \o G
  <2>1. Fields(m) = F
    BY <1>2 DEF Fields
  <2>2. <<Skip(1), Item(2)>> \in Seq(Calls) /\ Len(<<Skip(1), Item(2)>>) = 2
    BY DEF Calls, Skip, Turns, Item
  <2>3. G \in Seq(Calls) /\ Len(G) = N
    <3>1. Item(4) \in Calls
      BY DEF Calls, Item
    <3> QED BY <1>0, <3>1
  <2> DEFINE E == <<Skip(1), Item(2)>>
  <2>a. E \in Seq(Calls) /\ Len(E) = 2
    BY <2>2
  <2>b. F = E \o G
    OBVIOUS
  <2> HIDE DEF E, F, G
  <2>d. /\ E \o G \in Seq(Calls) /\ Len(E \o G) = Len(E) + Len(G)
        /\ \A i \in 1 .. Len(E) + Len(G) : (E \o G)[i] = IF i <= Len(E) THEN E[i] ELSE G[i - Len(E)]
    BY <2>a, <2>3, ConcatProperties
  <2>4. F \in Seq(Calls) /\ Len(F) = 2 + N
    BY <2>a, <2>b, <2>3, <2>d
  <2>c. \A i \in 1 .. N + 2 : F[i] = IF i <= 2 THEN E[i] ELSE G[i - 2]
    BY <2>a, <2>b, <2>3, <2>d, <1>0
  <2> USE DEF E, G
  <2>5. \A i \in 1 .. N + 2 : F[i] = IF i <= 2 THEN <<Skip(1), Item(2)>>[i] ELSE G[i - 2]
    BY <2>c
  <2>6. \A i \in 1 .. N + 2 : F[i].n = IF i <= 2 THEN i ELSE 4
    <3> SUFFICES ASSUME NEW i \in 1 .. N + 2 PROVE F[i].n = IF i <= 2 THEN i ELSE 4
      OBVIOUS
    <3>1. CASE i = 1
      <4>1. F[i] = Skip(1)
        BY <2>5, <3>1
      <4> HIDE DEF F
      <4> QED BY <4>1, <3>1 DEF Skip, Turns
    <3>2. CASE i = 2
      <4>1. F[i] = Item(2)
        BY <2>5, <3>2
      <4> HIDE DEF F
      <4> QED BY <4>1, <3>2 DEF Item
    <3>3. CASE i > 2
      <4>1. F[i] = Item(4)
        BY <2>5, <3>3, <1>0
      <4> HIDE DEF F
      <4> QED BY <4>1, <3>3 DEF Item
    <3> QED BY <3>1, <3>2, <3>3, <1>0
  <2> HIDE DEF F, G
  <2>7. \A i \in 1 .. N + 2 : Offset(m, i + 1) = Offset(m, i) + F[i].n
    BY <1>0, <1>2, <2>6 DEF Offset
  <2>8. \A i \in 1 .. N + 2 : Offset(m, i) \in Nat /\ Offset(m, i) <= 4 + 4 * N
    BY <1>0, <1>2 DEF Offset
  <2>9. Offset(m, 1) = 1 /\ Offset(m, N + 3) = 4 + 4 * N /\ WireLength(m) = 4 + 4 * N /\ ReadLength(m) = 4 + 4 * N
    BY <1>0, <1>2, <1>a DEF Offset, WireLength
  <2> QED BY <1>0, <2>1, <2>4, <2>7, <2>8, <2>9, SMTT(30)
<1>3. CASE m.type = "FramebufferUpdateRequest"
  <2> DEFINE F == <<Item(1), Item(2), Item(2), Item(2), Item(2)>>
  <2>1. Fields(m) = F
    BY <1>3 DEF Fields
  <2>2. F \in Seq(Calls) /\ Len(F) = 5
    BY DEF Calls, Item
  <2>3. \A i \in 1 .. 5 : Offset(m, i + 1) = Offset(m, i) + F[i].n
    BY <1>3 DEF Offset, Item
  <2>4. \A i \in 1 .. 5 : Offset(m, i) \in Nat /\ Offset(m, i) <= 10
    BY <1>3 DEF Offset
  <2>5. Offset(m, 1) = 1 /\ Offset(m, 6) = 10 /\ ReadLength(m) = 10 /\ WireLength(m) = 10
    BY <1>3, <1>a DEF Offset, WireLength
  <2> QED BY <2>1, <2>2, <2>3, <2>4, <2>5
<1>4. CASE m.type = "KeyEvent"
  <2> DEFINE F == <<Item(1), Skip(2), Item(4)>>
  <2>1. Fields(m) = F
    BY <1>4 DEF Fields
  <2>2. F \in Seq(Calls) /\ Len(F) = 3
    BY DEF Calls, Item, Skip, Turns
  <2>3. \A i \in 1 .. 3 : Offset(m, i + 1) = Offset(m, i) + F[i].n
    BY <1>4 DEF Offset, Item, Skip, Turns
  <2>4. \A i \in 1 .. 3 : Offset(m, i) \in Nat /\ Offset(m, i) <= 8
    BY <1>4 DEF Offset
  <2>5. Offset(m, 1) = 1 /\ Offset(m, 4) = 8 /\ ReadLength(m) = 8 /\ WireLength(m) = 8
    BY <1>4, <1>a DEF Offset, WireLength
  <2> QED BY <2>1, <2>2, <2>3, <2>4, <2>5
<1>5. CASE m.type = "PointerEvent"
  <2> DEFINE F == <<Item(1), Item(2), Item(2)>>
  <2>1. Fields(m) = F
    BY <1>5 DEF Fields
  <2>2. F \in Seq(Calls) /\ Len(F) = 3
    BY DEF Calls, Item
  <2>3. \A i \in 1 .. 3 : Offset(m, i + 1) = Offset(m, i) + F[i].n
    BY <1>5 DEF Offset, Item
  <2>4. \A i \in 1 .. 3 : Offset(m, i) \in Nat /\ Offset(m, i) <= 6
    BY <1>5 DEF Offset
  <2>5. Offset(m, 1) = 1 /\ Offset(m, 4) = 6 /\ ReadLength(m) = 6 /\ WireLength(m) = 6
    BY <1>5, <1>a DEF Offset, WireLength
  <2> QED BY <2>1, <2>2, <2>3, <2>4, <2>5
<1>6. CASE m.type = "ClientCutText"
  <2> DEFINE len == AsInt(m.n)
             T == IF len > maxCutText THEN Skip(len) ELSE RawBytes(len)
             F == <<Skip(3), Item(4), T>>
  <2>1. Fields(m) = F
    BY <1>6 DEF Fields
  <2>2. len \in Int /\ (TextTooLong(m) <=> len < 0) /\ (len >= 0 => len = m.n)
    BY <1>0, <1>6 DEF AsInt, TextTooLong
  <2> HIDE DEF len
  <2>3. T \in Calls /\ T.n = Turns(len) /\ Turns(len) \in Nat
    <3>1. Turns(len) \in Nat
      BY <2>2 DEF Turns
    <3> QED BY <3>1 DEF Calls, Skip, RawBytes
  <2> HIDE DEF T
  <2>4. ReadLength(m) = 8 + Turns(len) /\ WireLength(m) = 8 + m.n
    BY <1>0, <1>6, <2>2 DEF ReadLength, WireLength, Turns
  <2>5. F \in Seq(Calls) /\ Len(F) = 3
    BY <2>3 DEF Calls, Item, Skip, Turns
  <2>6. F[1].n = 3 /\ F[2].n = 4 /\ F[3].n = Turns(len)
    BY <2>3 DEF Item, Skip, Turns
  <2> HIDE DEF F
  <2>7. Offset(m, 1) = 1 /\ Offset(m, 2) = 4 /\ Offset(m, 3) = 8 /\ Offset(m, 4) = 8 + Turns(len)
    BY <1>6, <2>4 DEF Offset
  <2>8. ASSUME NEW i \in 1 .. 3
        PROVE  Offset(m, i + 1) = Offset(m, i) + F[i].n /\ Offset(m, i) \in Nat
    <3>1. CASE i = 1
      BY <3>1, <2>6, <2>7
    <3>2. CASE i = 2
      BY <3>2, <2>6, <2>7
    <3>3. CASE i = 3
      BY <3>3, <2>3, <2>6, <2>7
    <3> QED BY <3>1, <3>2, <3>3
  <2> QED BY <1>0, <2>1, <2>3, <2>4, <2>5, <2>7, <2>8
<1> QED BY <1>1, <1>2, <1>3, <1>4, <1>5, <1>6 DEF Messages

LEMMA BytesOfFacts ==
  ASSUME NEW ms \in Seq(Messages)
  PROVE  /\ BytesOf(ms)[0] = 0
         /\ \A k \in 0 .. Len(ms) : BytesOf(ms)[k] \in Nat
         /\ \A k \in 0 .. Len(ms) - 1 : BytesOf(ms)[k + 1] = BytesOf(ms)[k] + WireLength(ms[k + 1])
<1> DEFINE n == Len(ms)
           Is(g) == g = [k \in 0 .. n |-> IF k = 0 THEN 0 ELSE g[k - 1] + WireLength(ms[k])]
<1>0. n \in Nat
  OBVIOUS
<1> DEFINE step == [k \in Nat |-> [x \in Nat |-> IF k \in 1 .. n THEN x + WireLength(ms[k]) ELSE x]]
<1>1. step \in [Nat -> [Nat -> Nat]] /\ 0 \in Nat
  <2>1. ASSUME NEW k \in 1 .. n PROVE WireLength(ms[k]) \in Nat
    <3>1. ms[k] \in Messages
      BY <2>1
    <3> QED BY <3>1, MessageFields
  <2>2. ASSUME NEW k \in Nat, NEW x \in Nat
        PROVE (IF k \in 1 .. n THEN x + WireLength(ms[k]) ELSE x) \in Nat
    BY <2>1
  <2> QED BY <2>2
<1>2. \E h : Is(h)
  <2>1. \A k \in 1 .. n, x \in Nat : step[k][x] = x + WireLength(ms[k])
    BY <1>0
  <2> HIDE DEF step
  <2>2. PICK f \in [Nat -> Nat] : FollowsOn(f, 0, step)
    BY <1>1, Recursion
  <2> DEFINE h == [k \in 0 .. n |-> f[k]]
  <2>3. ASSUME NEW k \in 0 .. n PROVE h[k] = IF k = 0 THEN 0 ELSE h[k - 1] + WireLength(ms[k])
    <3>1. CASE k # 0
      <4>1. k \in 1 .. n /\ k \in Nat \ {0} /\ k - 1 \in 0 .. n /\ k - 1 \in Nat
        BY <3>1, <1>0
      <4>2. f[k] = step[k][f[k - 1]] /\ f[k - 1] \in Nat
        BY <2>2, <4>1 DEF FollowsOn
      <4>3. h[k] = f[k] /\ h[k - 1] = f[k - 1]
        BY <4>1
      <4> HIDE DEF h
      <4> QED BY <2>1, <3>1, <4>1, <4>2, <4>3
    <3>2. CASE k = 0
      BY <2>2, <3>2, <1>0 DEF FollowsOn
    <3> QED BY <3>1, <3>2
  <2>4. h = [k \in 0 .. n |-> h[k]]
    OBVIOUS
  <2> HIDE DEF h
  <2>5. Is(h)
    BY <2>3, <2>4
  <2> QED BY <2>5
<1> HIDE DEF step
<1>3. BytesOf(ms) = CHOOSE g : Is(g)
  BY DEF BytesOf
<1> DEFINE f == BytesOf(ms)
<1>4. Is(f)
  BY <1>2, <1>3
<1> HIDE DEF f
<1>5. f[0] = 0 /\ \A k \in 0 .. n - 1 : f[k + 1] = f[k] + WireLength(ms[k + 1])
  <2>1. f[0] = 0
    BY <1>0, <1>4
  <2>2. ASSUME NEW k \in 0 .. n - 1 PROVE f[k + 1] = f[k] + WireLength(ms[k + 1])
    <3>1. k + 1 \in 0 .. n /\ k + 1 # 0 /\ (k + 1) - 1 = k
      BY <1>0
    <3> QED BY <1>4, <3>1
  <2> QED BY <2>1, <2>2
<1> DEFINE S == {k \in Nat : k <= n => f[k] \in Nat}
<1>6. 0 \in S
  BY <1>5
<1>7. ASSUME NEW k \in Nat, k \in S PROVE k + 1 \in S
  <2> SUFFICES ASSUME k + 1 <= n PROVE f[k + 1] \in Nat
    OBVIOUS
  <2>1. k \in 0 .. n - 1 /\ k + 1 \in 1 .. Len(ms)
    BY <1>0
  <2>2. WireLength(ms[k + 1]) \in Nat
    <3>1. ms[k + 1] \in Messages
      BY <2>1
    <3> QED BY <3>1, MessageFields
  <2>3. f[k] \in Nat
    BY <1>7, <2>1, <1>0
  <2> QED BY <1>5, <2>1, <2>2, <2>3
<1> HIDE DEF S
<1>8. Nat \subseteq S
  BY <1>6, <1>7, NatInd
<1>9. \A k \in 0 .. n : f[k] \in Nat
  BY <1>0, <1>8 DEF S
<1> QED BY <1>5, <1>9 DEF f

-----------------------------------------------------------------------------
(* Bytes in their order. *)

LEMMA AfterPlace ==
  ASSUME client \in Seq(Messages), NEW b \in Places, b[1] \in DOMAIN client
  PROVE  After(b) \in Places
<1>1. b[1] \in Nat \ {0} /\ b[2] \in Nat \ {0}
  BY DEF Places
<1>2. WireLength(client[b[1]]) \in Nat
  <2>1. client[b[1]] \in Messages
    OBVIOUS
  <2> QED BY <2>1, MessageFields
<1> QED BY <1>1, <1>2 DEF After, Places

\* The first of them are those of the first message.
LEMMA FirstOnes ==
  ASSUME client \in Seq(Messages), NEW k \in DOMAIN client, NEW w \in Seq(Places), FromFirst(k, w)
  PROVE  \A j \in 1 .. Len(w) : j <= WireLength(client[k]) => w[j] = <<k, j>>
<1> DEFINE L == WireLength(client[k])
           S == {j \in Nat : j + 1 <= Len(w) /\ j + 1 <= L => w[j + 1] = <<k, j + 1>>}
<1>0. L \in Nat /\ Len(w) \in Nat
  <2>1. client[k] \in Messages
    OBVIOUS
  <2> QED BY <2>1, MessageFields
<1> HIDE DEF L
<1>1. 0 \in S
  <2> SUFFICES ASSUME 1 <= Len(w) PROVE w[1] = <<k, 1>>
    OBVIOUS
  <2>1. w # <<>>
    OBVIOUS
  <2> QED BY <2>1 DEF FromFirst
<1>2. ASSUME NEW j \in Nat, j \in S PROVE j + 1 \in S
  <2> SUFFICES ASSUME (j + 1) + 1 <= Len(w), (j + 1) + 1 <= L PROVE w[(j + 1) + 1] = <<k, (j + 1) + 1>>
    OBVIOUS
  <2>1. j + 1 \in 1 .. Len(w) - 1 /\ j + 1 < L /\ j + 1 <= Len(w) /\ j + 1 <= L
    BY <1>0
  <2>2. w[j + 1] = <<k, j + 1>>
    BY <1>2, <2>1
  <2>3. w[(j + 1) + 1] = After(<<k, j + 1>>)
    BY <2>1, <2>2 DEF FromFirst
  <2>4. After(<<k, j + 1>>) = IF j + 1 < WireLength(client[k]) THEN <<k, (j + 1) + 1>> ELSE <<k + 1, 1>>
    BY DEF After
  <2> QED BY <2>1, <2>3, <2>4 DEF L
<1> HIDE DEF S
<1>3. Nat \subseteq S
  BY <1>1, <1>2, NatInd
<1>4. ASSUME NEW j \in 1 .. Len(w), j <= L PROVE w[j] = <<k, j>>
  <2>1. j - 1 \in Nat /\ (j - 1) + 1 = j /\ j - 1 \in S
    BY <1>0, <1>3
  <2> QED BY <2>1, <1>4 DEF S
<1> QED BY <1>4 DEF L

\* Behind the first message the next one begins.
LEMMA NextOnes ==
  ASSUME client \in Seq(Messages), NEW k \in DOMAIN client,
         NEW w \in Seq(Places), FromFirst(k, w), NEW v \in Seq(Places),
         NEW L, L = WireLength(client[k]), Len(w) = L + Len(v),
         \A i \in 1 .. Len(v) : v[i] = w[L + i]
  PROVE  FromFirst(k + 1, v)
<1>0. L \in Nat \ {0} /\ Len(v) \in Nat /\ k \in Nat
  <2>1. client[k] \in Messages
    OBVIOUS
  <2> QED BY <2>1, MessageFields, SMTT(30)
<1>1. ASSUME v # <<>> PROVE v[1] = <<k + 1, 1>>
  <2>1. Len(v) >= 1 /\ 1 \in 1 .. Len(v)
    BY <1>0, <1>1
  <2>2. L \in 1 .. Len(w) /\ L \in 1 .. Len(w) - 1
    BY <1>0, <2>1
  <2>3. w[L] = <<k, L>>
    <3>1. \A j \in 1 .. Len(w) : j <= L => w[j] = <<k, j>>
      BY FirstOnes
    <3>2. L <= L
      BY <1>0
    <3> QED BY <2>2, <3>1, <3>2
  <2>4. w[L + 1] = After(<<k, L>>)
    BY <2>2, <2>3 DEF FromFirst
  <2>5. After(<<k, L>>) = <<k + 1, 1>>
    BY <1>0, SMTT(30) DEF After
  <2> QED BY <2>1, <2>4, <2>5
<1>2. ASSUME NEW i \in 1 .. Len(v) - 1 PROVE v[i + 1] = After(v[i])
  <2>0. i \in Nat /\ i >= 1 /\ i + 1 <= Len(v)
    BY <1>0
  <2>1. L + i \in 1 .. Len(w) - 1 /\ i \in 1 .. Len(v) /\ i + 1 \in 1 .. Len(v) /\ L + (i + 1) = (L + i) + 1
    <3>1. L \in Nat /\ L >= 1 /\ Len(v) \in Nat /\ Len(w) = L + Len(v)
      BY <1>0
    <3>2. L + i \in 1 .. Len(w) - 1
      BY ONLY <3>1, <2>0
    <3>3. i \in 1 .. Len(v) /\ i + 1 \in 1 .. Len(v)
      BY ONLY <3>1, <2>0
    <3> QED BY ONLY <3>1, <3>2, <3>3, <2>0
  <2>2. w[(L + i) + 1] = After(w[L + i])
    BY <2>1 DEF FromFirst
  <2>3. v[i] = w[L + i] /\ v[i + 1] = w[L + (i + 1)]
    BY <2>1
  <2> QED BY <2>1, <2>2, <2>3
<1>3. ASSUME NEW i \in 1 .. Len(v) PROVE v[i][1] \in DOMAIN client
  <2>1. L + i \in 1 .. Len(w)
    BY <1>0
  <2> QED BY <2>1 DEF FromFirst
<1> QED BY <1>1, <1>2, <1>3 DEF FromFirst

\* One more at the end.
LEMMA OneMore ==
  ASSUME client \in Seq(Messages), NEW k \in Nat \ {0}, NEW w \in Seq(Places), FromFirst(k, w),
         NEW b, b = IF w = <<>> THEN <<k, 1>> ELSE After(Last(w)), b[1] \in DOMAIN client
  PROVE  b \in Places /\ Append(w, b) \in Seq(Places) /\ FromFirst(k, Append(w, b))
<1> DEFINE v == Append(w, b)
<1>0. Len(w) \in Nat
  OBVIOUS
<1>1. b \in Places
  <2>1. CASE w = <<>>
    BY <2>1 DEF Places
  <2>2. CASE w # <<>>
    <3>1. Len(w) \in 1 .. Len(w) /\ Last(w) = w[Len(w)]
      BY <2>2 DEF Last
    <3>2. w[Len(w)] \in Places /\ w[Len(w)][1] \in DOMAIN client
      BY <3>1 DEF FromFirst
    <3>3. After(w[Len(w)]) \in Places
      BY <3>2, AfterPlace
    <3> QED BY <2>2, <3>1, <3>3
  <2> QED BY <2>1, <2>2
<1>2. v \in Seq(Places) /\ Len(v) = Len(w) + 1 /\ v[Len(w) + 1] = b
  BY <1>1
<1>3. \A i \in 1 .. Len(w) : v[i] = w[i]
  BY <1>1
<1> HIDE DEF v
<1>4. v[1] = <<k, 1>>
  <2>1. CASE w = <<>>
    BY <2>1, <1>2
  <2>2. CASE w # <<>>
    <3>1. 1 \in 1 .. Len(w)
      BY <2>2
    <3> QED BY <2>2, <3>1, <1>3 DEF FromFirst
  <2> QED BY <2>1, <2>2
<1>5. ASSUME NEW i \in 1 .. Len(v) - 1 PROVE v[i + 1] = After(v[i])
  <2>0. i \in 1 .. Len(w)
    BY <1>0, <1>2
  <2>1. CASE i = Len(w)
    <3>1. w # <<>> /\ Last(w) = w[i]
      BY <2>0, <2>1 DEF Last
    <3> QED BY <1>2, <1>3, <2>0, <2>1, <3>1
  <2>2. CASE i # Len(w)
    <3>1. i \in 1 .. Len(w) - 1 /\ i + 1 \in 1 .. Len(w)
      BY <1>0, <2>0, <2>2
    <3>2. w[i + 1] = After(w[i])
      BY <3>1 DEF FromFirst
    <3> QED BY <1>3, <2>0, <3>1, <3>2
  <2> QED BY <2>1, <2>2
<1>6. ASSUME NEW i \in 1 .. Len(v) PROVE v[i][1] \in DOMAIN client
  <2>1. CASE i = Len(w) + 1
    BY <1>2, <2>1
  <2>2. CASE i \in 1 .. Len(w)
    BY <1>3, <2>2 DEF FromFirst
  <2> QED BY <1>0, <1>2, <2>1, <2>2
<1>7. FromFirst(k, v)
  BY <1>4, <1>5, <1>6 DEF FromFirst
<1> QED BY <1>1, <1>2, <1>7 DEF v

-----------------------------------------------------------------------------
(* The steps of reading. *)

\* What the invariant says of the message that is read.
LEMMA InMessage ==
  ASSUME ReadIInv, todo # <<>>
  PROVE  LET m == Current  F == Fields(m)  k == Len(handled) + 1
         IN  /\ k \in DOMAIN client /\ k \in Nat \ {0} /\ m \in Messages
             /\ F \in Seq(Calls) /\ Len(F) \in Nat \ {0} /\ AtCall \in 1 .. Len(F)
             /\ WireLength(m) \in Nat \ {0} /\ Offset(m, Len(F) + 1) = ReadLength(m)
             /\ \A i \in 1 .. Len(F) : Offset(m, i + 1) = Offset(m, i) + F[i].n
             /\ Call = todo[1] /\ Call \in Calls /\ Call.n \in Nat
             /\ Tail(todo) \in Seq(Calls) /\ Len(Tail(todo)) = Len(todo) - 1 /\ Len(todo) \in Nat \ {0}
             /\ \A j \in 1 .. Len(todo) - 1 : Tail(todo)[j] = todo[j + 1]
<1>1. client \in Seq(Messages) /\ todo \in Seq(Calls) /\ handled \in Seq(Seq(Places))
  BY DEF ReadIInv, ReadTypeOK
<1>2. Len(handled) < Len(client) /\ AtCall \in 1 .. Len(Fields(Current))
  BY DEF ReadIInv, CallsAreLeft
<1>3. Len(handled) \in Nat /\ Len(client) \in Nat /\ Len(handled) + 1 \in DOMAIN client
  BY <1>1, <1>2
<1>4. Current \in Messages
  BY <1>1, <1>3 DEF Current
<1>5. Call = todo[1] /\ Call \in Calls /\ Len(todo) \in Nat \ {0}
  BY <1>1 DEF Call
<1>6. Call.n \in Nat
  BY <1>5 DEF Calls
<1>7. Tail(todo) \in Seq(Calls) /\ Len(Tail(todo)) = Len(todo) - 1
      /\ \A j \in 1 .. Len(Tail(todo)) : Tail(todo)[j] = todo[j + 1]
  BY <1>1, HeadTailProperties
<1> QED BY <1>2, <1>3, <1>4, <1>5, <1>6, <1>7, MessageFields

LEMMA ShorterCall ==
  ASSUME NEW c \in Calls, NEW n \in Nat, n <= c.n
  PROVE  LET d == [c EXCEPT !.n = @ - n]
         IN  d \in Calls /\ d.n = c.n - n /\ d.op = c.op
<1>1. c.n - n \in Nat
  BY DEF Calls
<1> QED BY <1>1 DEF Calls

\* A call goes on by n bytes, from the buffer or past it.
LEMMA ReadOn ==
  ASSUME ReadIInv, todo # <<>>, NEW n \in Nat, NEW bytes \in Seq(Places), Len(bytes) = n,
         n <= Call.n, Call.op = "item" => n = Call.n, Done(n, bytes), client' = client,
         next' = next, inBuf' \in Seq(Places), arrived' \in Seq(Places), inOffset' \in Nat, inUsed' \in Nat,
         inOffset' + inUsed' = inOffset + inUsed + n,
         ((got \o bytes) \o inBuf') \o arrived' = OnTheWay
  PROVE  ReadIInv' \/ (Astray' /\ ReadTypeOK')
<1> DEFINE m == Current
           F == Fields(m)
           k == Len(handled) + 1
           w == OnTheWay
           g == got \o bytes
           rest == IF Call.op = "item" \/ Call.n = n THEN Tail(todo)
                   ELSE <<[Call EXCEPT !.n = @ - n]>> \o Tail(todo)
<1>1. /\ client \in Seq(Messages) /\ handled \in Seq(Seq(Places)) /\ Len(handled) \in Nat
      /\ got \in Seq(Places) /\ inBuf \in Seq(Places) /\ arrived \in Seq(Places)
      /\ inOffset \in Nat /\ inUsed \in Nat /\ Len(handled) \in 0 .. Len(client)
      /\ next \in Places
  BY DEF ReadIInv, ReadTypeOK
<1>2. /\ k \in DOMAIN client /\ k \in Nat \ {0} /\ m \in Messages
      /\ F \in Seq(Calls) /\ Len(F) \in Nat \ {0} /\ AtCall \in 1 .. Len(F)
      /\ WireLength(m) \in Nat \ {0} /\ Offset(m, Len(F) + 1) = ReadLength(m)
      /\ \A i \in 1 .. Len(F) : Offset(m, i + 1) = Offset(m, i) + F[i].n
      /\ Call = todo[1] /\ Call \in Calls /\ Call.n \in Nat
      /\ Tail(todo) \in Seq(Calls) /\ Len(Tail(todo)) = Len(todo) - 1 /\ Len(todo) \in Nat \ {0}
      /\ \A j \in 1 .. Len(todo) - 1 : Tail(todo)[j] = todo[j + 1]
  BY InMessage
<1>3. /\ AtCall = Len(F) - Len(todo) + 1
      /\ \A j \in 2 .. Len(todo) : todo[j] = F[AtCall + j - 1]
      /\ todo[1].op = F[AtCall].op
      /\ Len(got) + todo[1].n = Offset(m, AtCall + 1)
  BY DEF ReadIInv, CallsAreLeft, AtCall
<1>4. g \in Seq(Places) /\ Len(g) = Len(got) + n /\ Len(g) \in Nat /\ Len(got) \in Nat
  <2>1. g \in Seq(Places) /\ Len(g) = Len(got) + Len(bytes) /\ Len(got) \in Nat
    BY <1>1, Concat
  <2> QED BY <2>1
<1>5. FromFirst(k, w) /\ w = (g \o inBuf') \o arrived' /\ w \in Seq(Places)
  <2>1. (g \o inBuf') \in Seq(Places)
    BY <1>4, Concat
  <2>2. (g \o inBuf') \o arrived' \in Seq(Places)
    BY <2>1, Concat
  <2> QED BY <2>2 DEF ReadIInv
<1>6. /\ \A j \in DOMAIN handled : handled[j] = WireBytes(j, client[j])
      /\ inOffset + inUsed = BytesOf(client)[Len(handled)] + Len(got)
  BY DEF ReadIInv, AllAreSent
<1>7. /\ todo' = rest
      /\ rest = <<>> => handled' = Append(handled, g) /\ got' = <<>>
      /\ rest # <<>> => handled' = handled /\ got' = g
  BY DEF Done
<1>8. BytesOf(client)[Len(handled)] \in Nat
  BY <1>1, BytesOfFacts
<1> HIDE DEF m, F, k, w, g, rest
<1>b. \A j \in 1 .. Len(handled) : ~TextTooLong(client[j])
  <2>1. \A j \in 1 .. Len(handled) : j \in DOMAIN client
    BY <1>1
  <2> QED BY <2>1 DEF ReadIInv, Astray
<1>c. m = client[k] /\ k = Len(handled) + 1
  BY DEF m, k, Current
<1>d. CASE rest = <<>> /\ TextTooLong(m)
  <2>1. handled' = Append(handled, g)
    BY <1>7, <1>d
  <2>2. Len(handled') = k
    BY <1>1, <1>c, <2>1
  <2>3. k \in 1 .. Len(handled') /\ k \in DOMAIN client' /\ TextTooLong(client'[k])
    BY <1>2, <1>c, <1>d, <2>2
  <2>4. \E j \in 1 .. Len(handled') : j \in DOMAIN client' /\ TextTooLong(client'[j])
    BY <2>3
  <2>5. Astray'
    BY <2>4 DEF Astray, TextTooLong, AsInt
  <2>6. ReadTypeOK'
    <3>1. todo' = <<>> /\ got' = <<>>
      BY <1>7, <1>d
    <3>2. handled' \in Seq(Seq(Places))
      BY <1>1, <1>4, <2>1
    <3> QED BY <1>1, <3>1, <3>2 DEF ReadTypeOK
  <2> QED BY <2>5, <2>6
<1>9. CASE rest = <<>> /\ ~TextTooLong(m)
  <2>1. Call.n = n /\ rest = Tail(todo) /\ Len(todo) = 1
    <3>1. ASSUME ~ (Call.op = "item" \/ Call.n = n) PROVE FALSE
      <4>1. rest = <<[Call EXCEPT !.n = @ - n]>> \o Tail(todo)
        BY <3>1 DEF rest
      <4> DEFINE c == [Call EXCEPT !.n = @ - n]
      <4>2. c \in Calls
        BY <1>2, ShorterCall
      <4> HIDE DEF c
      <4>3. <<c>> \in Seq(Calls) /\ Tail(todo) \in Seq(Calls) /\ Len(<<c>>) = 1
        BY <1>2, <4>2
      <4>4. Len(<<c>> \o Tail(todo)) = Len(<<c>>) + Len(Tail(todo)) /\ Len(Tail(todo)) \in Nat
        BY ONLY <4>3, Concat
      <4>5. rest = <<c>> \o Tail(todo)
        BY <4>1 DEF c
      <4>6. Len(rest) # 0
        BY ONLY <4>3, <4>4, <4>5
      <4> QED BY ONLY <4>6, <1>9
    <3>2. Call.n = n /\ rest = Tail(todo)
      BY <3>1 DEF rest
    <3>3. Len(rest) = Len(todo) - 1 /\ Len(todo) \in Nat \ {0}
      BY <1>2, <3>2
    <3>4. Len(rest) = 0
      BY ONLY <1>9
    <3>5. Len(todo) = 1
      BY ONLY <3>3, <3>4
    <3> QED BY <3>2, <3>5
  <2>2. AtCall = Len(F) /\ Len(g) = WireLength(m)
    <3>1. AtCall = Len(F)
      BY <1>2, <1>3, <2>1
    <3>2. Len(g) = Offset(m, AtCall + 1)
      BY <1>2, <1>3, <1>4, <2>1
    <3>3. WireLength(m) = ReadLength(m)
      BY <1>9 DEF ReadLength
    <3> QED BY <3>1, <3>2, <3>3, <1>2
  <2> DEFINE v == (got' \o inBuf') \o arrived'
             u == inBuf' \o arrived'
  <2>3. v = u /\ u \in Seq(Places) /\ Len(u) \in Nat
    <3>1. got' = <<>>
      BY <1>7, <1>9
    <3>2. <<>> \o inBuf' = inBuf'
      OBVIOUS
    <3>3. u \in Seq(Places) /\ Len(u) \in Nat
      BY Concat
    <3> QED BY <3>1, <3>2, <3>3
  <2>4. w = g \o u
    <3>1. w = (g \o inBuf') \o arrived' /\ g \in Seq(Places)
      BY <1>4, <1>5
    <3>2. inBuf' \in Seq(Places) /\ arrived' \in Seq(Places)
      OBVIOUS
    <3>3. (g \o inBuf') \o arrived' = g \o (inBuf' \o arrived')
      BY ONLY <3>1, <3>2, ConcatAssociative, SMTT(30)
    <3> QED BY <3>1, <3>3
  <2> HIDE DEF u, v
  <2>5. /\ Len(w) = Len(g) + Len(u)
        /\ \A i \in 1 .. Len(g) : w[i] = g[i]
        /\ \A i \in 1 .. Len(u) : w[Len(g) + i] = u[i]
    <3>1. /\ Len(g \o u) = Len(g) + Len(u)
          /\ \A i \in 1 .. Len(g) : (g \o u)[i] = g[i]
          /\ \A i \in 1 .. Len(u) : (g \o u)[Len(g) + i] = u[i]
      <4>1. g \in Seq(Places) /\ u \in Seq(Places)
        BY <1>4, <2>3
      <4> QED BY ONLY <4>1, Concat
    <3> QED BY <3>1, <2>4
  <2>6. m = client[k]
    BY DEF m, k, Current
  <2>7. g = WireBytes(k, client[k])
    <3>1. ASSUME NEW j \in 1 .. Len(g) PROVE g[j] = <<k, j>>
      <4>1. \A i \in 1 .. Len(w) : i <= WireLength(client[k]) => w[i] = <<k, i>>
        BY <1>1, <1>2, <1>5, FirstOnes
      <4>2. j \in 1 .. Len(w) /\ j <= WireLength(client[k])
        <5>1. Len(g) \in Nat /\ Len(u) \in Nat /\ Len(w) = Len(g) + Len(u)
              /\ Len(g) = WireLength(client[k])
          BY <1>4, <2>2, <2>3, <2>5, <2>6
        <5>2. j \in 1 .. Len(g)
          OBVIOUS
        <5> QED BY ONLY <5>1, <5>2
      <4> QED BY <4>1, <4>2, <2>5
    <3>2. g = [j \in 1 .. Len(g) |-> <<k, j>>]
      <4>1. g = [j \in 1 .. Len(g) |-> g[j]]
        BY <1>4
      <4> QED BY ONLY <4>1, <3>1
    <3>3. Len(g) = WireLength(client[k])
      BY <2>2, <2>6
    <3> QED BY ONLY <3>2, <3>3 DEF WireBytes
  <2>8. FromFirst(k + 1, u)
    <3>1. \A i \in 1 .. Len(u) : u[i] = w[Len(g) + i]
      BY <2>5
    <3>2. Len(g) = WireLength(client[k])
      BY <2>2, <2>6
    <3>3. /\ client \in Seq(Messages) /\ k \in DOMAIN client /\ w \in Seq(Places) /\ FromFirst(k, w)
          /\ u \in Seq(Places) /\ Len(w) = Len(g) + Len(u)
      BY <1>1, <1>2, <1>5, <2>3, <2>5
    <3> QED BY ONLY <3>1, <3>2, <3>3, NextOnes
  <2>9. handled' = Append(handled, g) /\ got' = <<>> /\ todo' = <<>>
    BY <1>7, <1>9
  <2>10. /\ handled' \in Seq(Seq(Places)) /\ Len(handled') = k /\ handled'[k] = g
         /\ \A j \in DOMAIN handled : handled'[j] = handled[j]
         /\ DOMAIN handled' = 1 .. k /\ DOMAIN handled = 1 .. Len(handled)
    <3>1. handled \in Seq(Seq(Places)) /\ g \in Seq(Places)
      BY <1>1, <1>4
    <3>2. k = Len(handled) + 1
      BY DEF k
    <3> QED BY ONLY <3>1, <3>2, <2>9, AppendProperties
  <2>11. ReadTypeOK'
    BY <1>1, <2>9, <2>10 DEF ReadTypeOK
  <2>12. AllAreSent'
    <3>1. ASSUME NEW j \in 1 .. k PROVE handled'[j] = WireBytes(j, client[j])
      <4>1. CASE j = k
        BY <4>1, <2>7, <2>10
      <4>2. CASE j # k
        <5>1. j \in DOMAIN handled
          <6>1. k = Len(handled) + 1 /\ Len(handled) \in Nat /\ j \in 1 .. k
                /\ DOMAIN handled = 1 .. Len(handled)
            BY <1>1, <2>10 DEF k
          <6> QED BY ONLY <6>1, <4>2
        <5> QED BY <5>1, <1>6, <2>10
      <4> QED BY <4>1, <4>2
    <3>2. BytesOf(client)[k] = BytesOf(client)[Len(handled)] + WireLength(client[k])
      <4>1. Len(handled) \in 0 .. Len(client) - 1
        <5>1. k \in DOMAIN client /\ client \in Seq(Messages) /\ k = Len(handled) + 1
              /\ Len(handled) \in Nat
          BY <1>1, <1>2 DEF k
        <5> QED BY ONLY <5>1
      <4> QED BY <4>1, <1>1, BytesOfFacts DEF k
    <3>3. inOffset' + inUsed' = BytesOf(client)[k] + 0
      <4>1. /\ inOffset' + inUsed' = (inOffset + inUsed) + n
            /\ inOffset + inUsed = BytesOf(client)[Len(handled)] + Len(got)
        BY <1>6
      <4>2. Len(got) + n = WireLength(client[k]) /\ Len(got) \in Nat
        BY <1>4, <2>2, <2>6
      <4> QED BY ONLY <4>1, <4>2, <3>2, <1>8, n \in Nat
    <3>4. Len(got') = 0
      BY <2>9
    <3> QED BY <3>1, <3>3, <3>4, <2>10 DEF AllAreSent, WireBytes, WireLength
  <2>13. FromFirst(Len(handled) + 1, OnTheWay)'
    <3>1. OnTheWay' = u
      BY <2>3 DEF OnTheWay, v
    <3> QED BY <3>1, <2>8, <2>10 DEF FromFirst, After, WireLength
  <2>14. CallsAreLeft'
    BY <2>9 DEF CallsAreLeft
  <2>15. ~Astray'
    <3>1. ASSUME NEW j \in 1 .. k PROVE ~TextTooLong(client[j])
      <4>1. CASE j = k
        BY <4>1, <1>c, <1>9
      <4>2. CASE j # k
        <5>1. j \in 1 .. Len(handled)
          BY ONLY <4>2, <1>c, Len(handled) \in Nat, j \in 1 .. k, <1>1
        <5> QED BY <5>1, <1>b
      <4> QED BY <4>1, <4>2
    <3> QED BY <3>1, <2>10 DEF Astray, TextTooLong, AsInt
  <2>16. EndsAtNext'
    <3>1. OnTheWay' = u /\ Len(handled') + 1 = k + 1 /\ next' = next
      BY <2>3, <2>10 DEF OnTheWay, v
    <3>2. Len(g) \in Nat \ {0} /\ Len(w) \in Nat \ {0} /\ Len(u) \in Nat
      BY <1>2, <2>2, <2>3, <2>5
    <3>3. next = After(w[Len(w)])
      <4>1. OnTheWay # <<>> => next = After(OnTheWay[Len(OnTheWay)])
        BY DEF ReadIInv, EndsAtNext
      <4>2. w # <<>>
        BY ONLY <3>2
      <4> QED BY <4>1, <4>2 DEF w
    <3>4. CASE u = <<>>
      <4>1. Len(w) = Len(g) /\ Len(g) \in 1 .. Len(g)
        BY ONLY <3>2, <3>4, <2>5
      <4>2. w[Len(w)] = g[Len(g)]
        BY <4>1, <2>5
      <4>3. Len(g) = WireLength(client[k])
        BY <2>2, <2>6
      <4>4. g[Len(g)] = <<k, WireLength(client[k])>>
        BY ONLY <4>1, <4>3, <2>7 DEF WireBytes
      <4>5. After(<<k, WireLength(client[k])>>) = <<k + 1, 1>>
        BY <4>3, <3>2 DEF After
      <4> QED BY <3>1, <3>3, <3>4, <4>2, <4>4, <4>5 DEF EndsAtNext
    <3>5. CASE u # <<>>
      <4>1. Len(u) \in 1 .. Len(u)
        BY <2>3, <3>5
      <4>2. u[Len(u)] = w[Len(w)]
        BY <4>1, <2>5
      <4>3. next' = After(u[Len(u)])
        BY <3>1, <3>3, <4>2
      <4>4. ASSUME NEW b PROVE After(b) = IF b[2] < WireLength(client'[b[1]]) THEN <<b[1], b[2] + 1>> ELSE <<b[1] + 1, 1>>
        BY DEF After, WireLength
      <4>5. OnTheWay' # <<>>
        BY <3>1, <3>5
      <4>6. next' = After(OnTheWay'[Len(OnTheWay')])
        BY <3>1, <4>3
      <4> QED BY <4>4, <4>5, <4>6 DEF EndsAtNext, After, WireLength
    <3> QED BY <3>4, <3>5
  <2>17. Len(handled') \in 0 .. Len(client')
    <3>1. k \in 0 .. Len(client)
      <4>1. k \in DOMAIN client /\ client \in Seq(Messages)
        BY <1>1, <1>2
      <4> QED BY ONLY <4>1
    <3> QED BY <3>1, <2>10
  <2> QED BY <2>11, <2>12, <2>13, <2>14, <2>15, <2>16, <2>17 DEF ReadIInv
<1>10. CASE rest # <<>>
  <2>1. handled' = handled /\ got' = g /\ todo' = rest
    BY <1>7, <1>10
  <2>2. /\ rest \in Seq(Calls)
        /\ LET a == Len(F) - Len(rest) + 1
           IN  /\ a \in 1 .. Len(F)
               /\ \A j \in 2 .. Len(rest) : rest[j] = F[a + j - 1]
               /\ rest[1].op = F[a].op
               /\ Len(g) + rest[1].n = Offset(m, a + 1)
    <3>1. CASE Call.op = "item" \/ Call.n = n
      <4>1. rest = Tail(todo) /\ Call.n = n
        BY <3>1 DEF rest
      <4>2. Len(rest) = Len(todo) - 1 /\ Len(rest) \in Nat \ {0} /\ rest \in Seq(Calls)
        <5>1. /\ Len(rest) = Len(todo) - 1 /\ rest \in Seq(Calls) /\ Len(todo) \in Nat \ {0}
          BY <1>2, <4>1
        <5>2. Len(rest) # 0
          BY ONLY <5>1, <1>10
        <5> QED BY ONLY <5>1, <5>2
      <4> DEFINE a == Len(F) - Len(rest) + 1
      <4>3. a = AtCall + 1 /\ a \in 1 .. Len(F)
        <5>1. AtCall = Len(F) - Len(todo) + 1 /\ AtCall \in 1 .. Len(F) /\ Len(F) \in Nat \ {0} /\ Len(todo) \in Nat \ {0}
          BY <1>2, <1>3
        <5> QED BY ONLY <5>1, <4>2
      <4>4. ASSUME NEW j \in 1 .. Len(rest) PROVE rest[j] = F[a + j - 1]
        <5>1. rest[j] = todo[j + 1]
          BY <1>2, <4>1, <4>2
        <5>2. j + 1 \in 2 .. Len(todo) /\ AtCall + (j + 1) - 1 = a + j - 1
          <6>1. Len(todo) \in Nat \ {0} /\ AtCall \in 1 .. Len(F) /\ Len(F) \in Nat \ {0}
            BY <1>2
          <6> HIDE DEF a
          <6> QED BY ONLY <6>1, <4>2, <4>3, j \in 1 .. Len(rest)
        <5>3. todo[j + 1] = F[AtCall + (j + 1) - 1]
          BY <1>3, <5>2
        <5> QED BY <5>1, <5>2, <5>3
      <4>5. rest[1] = F[a]
        <5>1. 1 \in 1 .. Len(rest) /\ a + 1 - 1 = a
          BY <4>2, <4>3
        <5> QED BY <4>4, <5>1
      <4>6. Len(g) + rest[1].n = Offset(m, a + 1)
        <5>1. Len(g) = Offset(m, a)
          BY <1>2, <1>3, <1>4, <4>1, <4>3
        <5> QED BY <1>2, <4>3, <4>5, <5>1
      <4> QED BY <4>2, <4>3, <4>4, <4>5, <4>6
    <3>2. CASE ~ (Call.op = "item" \/ Call.n = n)
      <4> DEFINE c == [Call EXCEPT !.n = @ - n]
                 h == <<c>>
                 t == Tail(todo)
      <4>1. rest = h \o t
        BY <3>2 DEF rest
      <4>2. c \in Calls /\ c.n = Call.n - n /\ c.op = Call.op
        <5>1. Call \in Calls /\ n \in Nat /\ n <= Call.n
          BY <1>2
        <5> QED BY ONLY <5>1, ShorterCall
      <4> HIDE DEF c
      <4>3. h \in Seq(Calls) /\ Len(h) = 1 /\ h[1] = c
        BY <4>2
      <4>4. t \in Seq(Calls) /\ Len(t) = Len(todo) - 1 /\ \A j \in 1 .. Len(t) : t[j] = todo[j + 1]
        BY <1>2
      <4> HIDE DEF h, t
      <4>5. /\ h \o t \in Seq(Calls) /\ Len(h \o t) = Len(h) + Len(t)
            /\ \A i \in 1 .. Len(h) : (h \o t)[i] = h[i]
            /\ \A i \in 1 .. Len(t) : (h \o t)[Len(h) + i] = t[i]
        <5>1. h \in Seq(Calls) /\ t \in Seq(Calls)
          BY <4>3, <4>4
        <5> QED BY ONLY <5>1, Concat
      <4>6. /\ rest \in Seq(Calls) /\ Len(rest) = Len(todo)
            /\ rest[1] = c
            /\ \A j \in 2 .. Len(rest) : rest[j] = todo[j]
        <5>1. Len(rest) = Len(todo)
          BY <1>2, <4>1, <4>3, <4>4, <4>5
        <5>2. rest[1] = c
          BY <4>1, <4>3, <4>5
        <5>3. ASSUME NEW j \in 2 .. Len(rest) PROVE rest[j] = todo[j]
          <6>1. j - 1 \in 1 .. Len(t) /\ Len(h) + (j - 1) = j /\ (j - 1) + 1 = j
            BY <1>2, <4>3, <4>4, <5>1
          <6>2. (h \o t)[Len(h) + (j - 1)] = t[j - 1]
            BY <4>5, <6>1
          <6>3. t[j - 1] = todo[(j - 1) + 1]
            BY <4>4, <6>1
          <6> QED BY <4>1, <6>1, <6>2, <6>3
        <5> QED BY <4>1, <4>5, <5>1, <5>2, <5>3
      <4> DEFINE a == Len(F) - Len(rest) + 1
      <4>7. a = AtCall /\ a \in 1 .. Len(F)
        BY <1>2, <1>3, <4>6
      <4>8. \A j \in 2 .. Len(rest) : rest[j] = F[a + j - 1]
        BY <1>3, <4>6, <4>7
      <4>9. rest[1].op = F[a].op
        BY <1>2, <1>3, <4>2, <4>6, <4>7
      <4>10. Len(g) + rest[1].n = Offset(m, a + 1)
        <5>1. /\ Len(g) = Len(got) + n /\ Len(got) + Call.n = Offset(m, AtCall + 1)
              /\ Len(got) \in Nat /\ Call.n \in Nat
          BY <1>2, <1>3, <1>4
        <5>2. rest[1].n = Call.n - n /\ a = AtCall
          BY <4>2, <4>6, <4>7
        <5> QED BY ONLY <5>1, <5>2, n \in Nat
      <4> QED BY <4>6, <4>7, <4>8, <4>9, <4>10
    <3> QED BY <3>1, <3>2
  <2>3. Current' = m /\ Fields(Current)' = F
    BY <2>1 DEF Current, m, F, Fields, AsInt, PixelFormatFields, Item, Skip, Turns, RawBytes
  <2>4. ReadTypeOK'
    BY <1>1, <1>4, <2>1, <2>2 DEF ReadTypeOK
  <2>5. AllAreSent'
    <3>1. inOffset' + inUsed' = BytesOf(client)[Len(handled)] + Len(g)
      <4>1. /\ inOffset' + inUsed' = (inOffset + inUsed) + n
            /\ inOffset + inUsed = BytesOf(client)[Len(handled)] + Len(got)
            /\ Len(g) = Len(got) + n /\ Len(got) \in Nat
        BY <1>4, <1>6
      <4> QED BY ONLY <4>1, <1>8, n \in Nat
    <3> QED BY <2>1, <3>1, <1>6 DEF AllAreSent, WireBytes, WireLength
  <2>6. FromFirst(Len(handled) + 1, OnTheWay)'
    <3>1. OnTheWay' = w
      BY <1>5, <2>1 DEF OnTheWay
    <3> QED BY <3>1, <1>5, <2>1 DEF FromFirst, After, WireLength, k
  <2>7. CallsAreLeft'
    <3>1. Len(handled') < Len(client')
      <4>1. Len(handled) \in Nat /\ client \in Seq(Messages) /\ Len(handled) + 1 \in DOMAIN client
        BY <1>1, <1>2 DEF k
      <4>2. Len(handled) < Len(client)
        BY ONLY <4>1
      <4> QED BY <2>1, <4>2
    <3>2. AtCall' = Len(F) - Len(rest) + 1
      BY <2>1, <2>3 DEF AtCall
    <3>3. ReadLength(Current)' = ReadLength(m)
      BY <2>3 DEF ReadLength, TextTooLong, AsInt, WireLength
    <3> QED BY <3>1, <3>2, <3>3, <2>1, <2>2, <2>3, <1>10 DEF CallsAreLeft, Offset
  <2>8. ~Astray' /\ Len(handled') \in 0 .. Len(client')
    BY <1>1, <2>1 DEF ReadIInv, Astray, TextTooLong, AsInt
  <2>9. EndsAtNext'
    <3>1. OnTheWay' = w
      BY <1>5, <2>1 DEF OnTheWay
    <3> QED BY <3>1, <2>1 DEF ReadIInv, EndsAtNext, After, WireLength, w
  <2> QED BY <2>4, <2>5, <2>6, <2>7, <2>8, <2>9 DEF ReadIInv
<1> QED BY <1>d, <1>9, <1>10

\* Bytes move between the socket and the buffer and stay what they are.
LEMMA Moved ==
  ASSUME ReadIInv, OnTheWay' = OnTheWay, UNCHANGED <<client, next, got, todo, handled>>,
         inBuf' \in Seq(Places), arrived' \in Seq(Places), inOffset' \in Nat, inUsed' \in Nat,
         inOffset' + inUsed' = inOffset + inUsed
  PROVE  ReadIInv'
<1>1. ReadTypeOK'
  BY DEF ReadIInv, ReadTypeOK
<1>2. AllAreSent'
  BY DEF ReadIInv, AllAreSent, WireBytes, WireLength
<1>3. FromFirst(Len(handled) + 1, OnTheWay)'
  BY DEF ReadIInv, FromFirst, After, WireLength
<1>4. CallsAreLeft'
  <2>1. Current' = Current /\ AtCall' = AtCall /\ Fields(Current)' = Fields(Current)
    BY DEF Current, AtCall, Fields, AsInt, PixelFormatFields, Item, Skip, Turns, RawBytes
  <2>2. ReadLength(Current)' = ReadLength(Current)
    BY <2>1 DEF ReadLength, TextTooLong, AsInt, WireLength
  <2> QED BY <2>1, <2>2 DEF ReadIInv, CallsAreLeft, Offset
<1>5. EndsAtNext'
  BY DEF ReadIInv, EndsAtNext, After, WireLength
<1>6. ~Astray' /\ Len(handled') \in 0 .. Len(client')
  BY DEF ReadIInv, Astray, TextTooLong, AsInt
<1> QED BY <1>1, <1>2, <1>3, <1>4, <1>5, <1>6 DEF ReadIInv

LEMMA ReadTypes ==
  ASSUME ReadIInv
  PROVE  /\ client \in Seq(Messages) /\ got \in Seq(Places) /\ inBuf \in Seq(Places)
         /\ arrived \in Seq(Places) /\ inOffset \in Nat /\ inUsed \in Nat
         /\ next \in Places
         /\ Len(inBuf) \in Nat /\ Len(arrived) \in Nat /\ Len(handled) \in Nat
         /\ got \o inBuf \in Seq(Places) /\ OnTheWay \in Seq(Places)
<1>1. /\ client \in Seq(Messages) /\ got \in Seq(Places) /\ inBuf \in Seq(Places)
      /\ arrived \in Seq(Places) /\ inOffset \in Nat /\ inUsed \in Nat
      /\ next \in Places /\ Len(handled) \in Nat
  BY DEF ReadIInv, ReadTypeOK
<1>2. got \o inBuf \in Seq(Places)
  BY <1>1, Concat
<1>3. OnTheWay \in Seq(Places)
  BY <1>1, <1>2, Concat DEF OnTheWay
<1> QED BY <1>1, <1>2, <1>3

LEMMA ArriveReads == ASSUME ReadIInv, Arrive PROVE ReadIInv'
<1> DEFINE k == Len(handled) + 1
           w == OnTheWay
           b == next
<1>1. /\ client \in Seq(Messages) /\ got \in Seq(Places) /\ inBuf \in Seq(Places)
      /\ arrived \in Seq(Places) /\ inOffset \in Nat /\ inUsed \in Nat
      /\ k \in Nat \ {0} /\ got \o inBuf \in Seq(Places) /\ w \in Seq(Places)
  BY ReadTypes
<1>2. /\ b[1] \in DOMAIN client /\ arrived' = Append(arrived, b) /\ next' = After(b)
      /\ UNCHANGED <<client, inBuf, inOffset, inUsed, got, todo, handled>>
  BY DEF Arrive
<1>3. b = IF w = <<>> THEN <<k, 1>> ELSE After(Last(w))
  BY DEF ReadIInv, EndsAtNext, Last
<1>4. FromFirst(k, w)
  BY DEF ReadIInv
<1> HIDE DEF k, w, b
<1>5. b \in Places /\ FromFirst(k, Append(w, b))
  BY <1>1, <1>2, <1>3, <1>4, OneMore
<1>6. arrived' \in Seq(Places)
  BY <1>1, <1>2, <1>5
<1>7. OnTheWay' = Append(w, b)
  <2> DEFINE g == got \o inBuf
  <2>1. w = g \o arrived /\ OnTheWay' = g \o Append(arrived, b)
    BY <1>2 DEF w, OnTheWay
  <2>2. g \in Seq(Places)
    BY <1>1
  <2> HIDE DEF g
  <2>3. Append(arrived, b) = arrived \o <<b>> /\ <<b>> \in Seq(Places)
    BY <1>1, <1>5, AppendIsConcat
  <2>4. g \o (arrived \o <<b>>) = (g \o arrived) \o <<b>>
    BY <1>1, <2>2, <2>3, ConcatAssociative
  <2>5. Append(w, b) = w \o <<b>>
    BY <1>1, <1>5, AppendIsConcat
  <2> QED BY <2>1, <2>3, <2>4, <2>5
<1>8. ReadTypeOK'
  <2>1. After(b) \in Places
    <3>1. b[1] \in DOMAIN client
      BY <1>2
    <3> QED BY <3>1, <1>1, <1>5, AfterPlace
  <2>2. next' \in Places
    BY <1>2, <2>1
  <2> QED BY <1>2, <1>6, <2>2 DEF ReadIInv, ReadTypeOK
<1>9. AllAreSent'
  BY <1>2 DEF ReadIInv, AllAreSent, WireBytes, WireLength
<1>10. FromFirst(Len(handled) + 1, OnTheWay)'
  BY <1>2, <1>5, <1>7 DEF FromFirst, After, WireLength, k
<1>11. CallsAreLeft'
  <2>1. Current' = Current /\ AtCall' = AtCall /\ Fields(Current)' = Fields(Current)
    BY <1>2 DEF Current, AtCall, Fields, AsInt, PixelFormatFields, Item, Skip, Turns, RawBytes
  <2>2. ReadLength(Current)' = ReadLength(Current)
    BY <2>1 DEF ReadLength, TextTooLong, AsInt, WireLength
  <2> QED BY <1>2, <2>1, <2>2 DEF ReadIInv, CallsAreLeft, Offset
<1>12. EndsAtNext'
  <2> DEFINE v == Append(w, b)
  <2>1. Len(v) = Len(w) + 1 /\ v[Len(v)] = b /\ v # <<>>
    <3>1. w \in Seq(Places) /\ b \in Places
      BY <1>1, <1>5
    <3>2. Len(v) = Len(w) + 1 /\ v[Len(w) + 1] = b /\ Len(w) \in Nat
      BY ONLY <3>1, AppendProperties
    <3>3. Len(v) # 0
      BY ONLY <3>2
    <3> QED BY ONLY <3>2, <3>3
  <2> HIDE DEF v
  <2>2. OnTheWay' = v
    BY <1>7 DEF v
  <2> QED BY <1>2, <2>1, <2>2 DEF EndsAtNext, After, WireLength
<1>13. ~Astray' /\ Len(handled') \in 0 .. Len(client')
  BY <1>2 DEF ReadIInv, Astray, TextTooLong, AsInt
<1> QED BY <1>8, <1>9, <1>10, <1>11, <1>12, <1>13 DEF ReadIInv

LEMMA OverrunReads == ASSUME ReadIInv, Overrun PROVE ReadIInv'
<1>1. PICK n \in 1 .. LessOf(Len(arrived), InSize - Len(inBuf)) :
        AppendRead(n) /\ arrived' = SubSeq(arrived, n + 1, Len(arrived))
  BY DEF Overrun
<1>2. UNCHANGED <<client, next, got, todo, handled>> /\ inOffset' = inOffset + inUsed /\ inUsed' = 0
  BY DEF Overrun
<1>3. /\ got \in Seq(Places) /\ inBuf \in Seq(Places) /\ arrived \in Seq(Places)
      /\ inOffset \in Nat /\ inUsed \in Nat /\ Len(inBuf) \in Nat /\ Len(arrived) \in Nat
  BY ReadTypes
<1>4. n \in 0 .. Len(arrived)
  BY <1>3, StreamsAssumption DEF LessOf
<1> DEFINE a == SubSeq(arrived, 1, n)
           b == SubSeq(arrived, n + 1, Len(arrived))
<1>5. a \in Seq(Places) /\ b \in Seq(Places)
  BY <1>3, <1>4, Cut
<1>6. inBuf' = inBuf \o a /\ arrived' = b
  BY <1>1 DEF AppendRead
<1>7. ((inBuf \o a) \o b) \o <<>> = (inBuf \o arrived) \o <<>>
  <2>1. inBuf \in Seq(Places) /\ arrived \in Seq(Places) /\ <<>> \in Seq(Places) /\ n \in 0 .. Len(arrived)
    BY <1>3, <1>4
  <2>2. a \o b = arrived /\ a \in Seq(Places) /\ b \in Seq(Places)
    BY <2>1, Cut, Rejoined
  <2> HIDE DEF a, b
  <2>3. ((inBuf \o a) \o b) \o <<>> = (inBuf \o (a \o b)) \o <<>>
    <3>1. inBuf \in Seq(Places) /\ a \in Seq(Places) /\ b \in Seq(Places) /\ <<>> \in Seq(Places)
      BY <2>1, <2>2
    <3> QED BY ONLY <3>1, Regrouped, SMTT(30)
  <2> QED BY <2>2, <2>3
<1> HIDE DEF a, b
<1>8. inBuf \o a \in Seq(Places) /\ inBuf \o arrived \in Seq(Places)
  BY <1>3, <1>5, Concat
<1>9. (inBuf \o a) \o b \in Seq(Places)
  BY <1>5, <1>8, Concat
<1>10. (inBuf \o a) \o b = inBuf \o arrived
  <2>1. ((inBuf \o a) \o b) \o <<>> = (inBuf \o a) \o b
    BY <1>9, ConcatEmptySeq
  <2>2. (inBuf \o arrived) \o <<>> = inBuf \o arrived
    BY <1>8, ConcatEmptySeq
  <2> QED BY <1>7, <2>1, <2>2
<1>11. OnTheWay' = OnTheWay
  <2>1. OnTheWay' = (got \o (inBuf \o a)) \o b
    BY <1>2, <1>6 DEF OnTheWay
  <2>2. (got \o (inBuf \o a)) \o b = got \o ((inBuf \o a) \o b)
    <3> DEFINE c == inBuf \o a
    <3>1. got \in Seq(Places) /\ c \in Seq(Places) /\ b \in Seq(Places)
      BY <1>3, <1>5, <1>8
    <3> HIDE DEF c
    <3>2. (got \o c) \o b = got \o (c \o b)
      BY ONLY <3>1, ConcatAssociative
    <3> QED BY <3>2 DEF c
  <2>3. (got \o inBuf) \o arrived = got \o (inBuf \o arrived)
    BY <1>3, ConcatAssociative
  <2> QED BY <1>10, <2>1, <2>2, <2>3 DEF OnTheWay
<1>12. inBuf' \in Seq(Places) /\ arrived' \in Seq(Places)
  BY <1>5, <1>6, <1>8
<1>13. inOffset' \in Nat /\ inUsed' \in Nat /\ inOffset' + inUsed' = inOffset + inUsed
  BY <1>2, <1>3
<1> QED BY <1>2, <1>11, <1>12, <1>13, Moved

LEMMA BufferedReads == ASSUME ReadIInv, ReadBuffered PROVE ReadIInv' \/ (Astray' /\ ReadTypeOK')
<1> DEFINE n == LessOf(Call.n, Len(inBuf))
           a == SubSeq(inBuf, 1, n)
           b == SubSeq(inBuf, n + 1, Len(inBuf))
<1>1. todo # <<>> /\ ~Missing /\ Done(n, a) /\ inBuf' = b /\ inUsed' = inUsed + n
      /\ UNCHANGED <<client, next, arrived, inOffset>>
  BY DEF ReadBuffered
<1>2. /\ got \in Seq(Places) /\ inBuf \in Seq(Places) /\ arrived \in Seq(Places)
      /\ inOffset \in Nat /\ inUsed \in Nat /\ Len(inBuf) \in Nat
  BY ReadTypes
<1>3. Call.n \in Nat
  BY <1>1, InMessage
<1>4. n \in 0 .. Len(inBuf) /\ n \in Nat /\ n <= Call.n
  BY <1>2, <1>3 DEF LessOf
<1>5. Call.op = "item" => n = Call.n
  <2>1. Call.op = "item" => ~ (Len(inBuf) < Call.n)
    BY <1>1 DEF Missing
  <2> QED BY <2>1, <1>2, <1>3 DEF LessOf
<1>6. a \in Seq(Places) /\ Len(a) = n /\ b \in Seq(Places)
  BY <1>2, <1>4, Cut
<1>7. ((got \o a) \o b) \o arrived = OnTheWay
  <2>1. got \in Seq(Places) /\ inBuf \in Seq(Places) /\ arrived \in Seq(Places) /\ n \in 0 .. Len(inBuf)
    BY <1>2, <1>4
  <2> HIDE DEF n
  <2>3. a \o b = inBuf /\ a \in Seq(Places) /\ b \in Seq(Places)
    BY <2>1, Cut, Rejoined
  <2> HIDE DEF a, b
  <2>2. ((got \o a) \o b) \o arrived = (got \o (a \o b)) \o arrived
    <3>1. got \in Seq(Places) /\ a \in Seq(Places) /\ b \in Seq(Places) /\ arrived \in Seq(Places)
      BY <2>1, <2>3
    <3> QED BY ONLY <3>1, Regrouped
  <2> QED BY <2>2, <2>3 DEF OnTheWay
<1> HIDE DEF n, a, b
<1>8. ((got \o a) \o inBuf') \o arrived' = OnTheWay
  BY <1>1, <1>7
<1>9. /\ inBuf' \in Seq(Places) /\ arrived' \in Seq(Places) /\ inOffset' \in Nat /\ inUsed' \in Nat
      /\ inOffset' + inUsed' = inOffset + inUsed + n /\ client' = client /\ next' = next
  BY <1>1, <1>2, <1>4, <1>6
<1> QED BY <1>1, <1>4, <1>5, <1>6, <1>8, <1>9, ReadOn

LEMMA DirectReads == ASSUME ReadIInv, ReadDirect PROVE ReadIInv' \/ (Astray' /\ ReadTypeOK')
<1>1. Direct /\ Missing /\ todo # <<>> /\ UNCHANGED <<client, next, inBuf, inUsed>>
  BY DEF ReadDirect, Direct
<1>2. inBuf = <<>> /\ Call.op = "bulk"
  BY <1>1 DEF Missing, Direct
<1>3. PICK n \in 1 .. LessOf(Len(arrived), Call.n) :
        /\ Done(n, SubSeq(arrived, 1, n))
        /\ arrived' = SubSeq(arrived, n + 1, Len(arrived))
        /\ inOffset' = inOffset + n
  BY DEF ReadDirect
<1> DEFINE a == SubSeq(arrived, 1, n)
           b == SubSeq(arrived, n + 1, Len(arrived))
<1>4. /\ got \in Seq(Places) /\ inBuf \in Seq(Places) /\ arrived \in Seq(Places)
      /\ inOffset \in Nat /\ inUsed \in Nat /\ Len(arrived) \in Nat
  BY ReadTypes
<1>5. Call.n \in Nat
  BY <1>1, InMessage
<1>6. n \in 0 .. Len(arrived) /\ n \in Nat /\ n <= Call.n
  BY <1>4, <1>5 DEF LessOf
<1>7. a \in Seq(Places) /\ Len(a) = n /\ b \in Seq(Places)
  BY <1>4, <1>6, Cut
<1>8. ((got \o a) \o b) \o <<>> = (got \o arrived) \o <<>>
  <2>1. got \in Seq(Places) /\ arrived \in Seq(Places) /\ <<>> \in Seq(Places) /\ n \in 0 .. Len(arrived)
    BY <1>4, <1>6
  <2>2. a \o b = arrived /\ a \in Seq(Places) /\ b \in Seq(Places)
    BY <2>1, Cut, Rejoined
  <2> HIDE DEF a, b
  <2>3. ((got \o a) \o b) \o <<>> = (got \o (a \o b)) \o <<>>
    <3>1. got \in Seq(Places) /\ a \in Seq(Places) /\ b \in Seq(Places) /\ <<>> \in Seq(Places)
      BY <2>1, <2>2
    <3> QED BY ONLY <3>1, Regrouped
  <2> QED BY <2>2, <2>3
<1> HIDE DEF a, b
<1>9. ((got \o a) \o inBuf') \o arrived' = OnTheWay
  <2>1. got \o a \in Seq(Places) /\ got \o arrived \in Seq(Places)
    BY <1>4, <1>7, Concat
  <2>2. (got \o a) \o b \in Seq(Places)
    BY <1>7, <2>1, Concat
  <2>3. (got \o a) \o b = got \o arrived
    <3>1. ((got \o a) \o b) \o <<>> = (got \o a) \o b
      BY <2>2, ConcatEmptySeq
    <3>2. (got \o arrived) \o <<>> = got \o arrived
      BY <2>1, ConcatEmptySeq
    <3> QED BY <1>8, <3>1, <3>2
  <2>4. (got \o a) \o <<>> = got \o a
    BY <2>1, ConcatEmptySeq
  <2>5. got \o <<>> = got
    BY <1>4, ConcatEmptySeq
  <2>6. arrived' = b /\ inBuf' = <<>>
    BY <1>1, <1>2, <1>3 DEF b
  <2> QED BY <1>2, <2>3, <2>4, <2>5, <2>6 DEF OnTheWay
<1>10. /\ inBuf' \in Seq(Places) /\ arrived' \in Seq(Places) /\ inOffset' \in Nat /\ inUsed' \in Nat
       /\ inOffset' + inUsed' = inOffset + inUsed + n /\ client' = client /\ next' = next
  BY <1>1, <1>3, <1>4, <1>6, <1>7 DEF b
<1>11. Done(n, a) /\ (Call.op = "item" => n = Call.n)
  BY <1>2, <1>3 DEF a
<1> QED BY <1>1, <1>6, <1>7, <1>9, <1>10, <1>11, ReadOn

LEMMA TypeReads == ASSUME ReadIInv, ReadType PROVE ReadIInv'
<1> DEFINE k == Len(handled) + 1
           m == Current
           F == Fields(m)
           b == Head(inBuf)
<1>1. /\ todo = <<>> /\ inBuf # <<>> /\ got' = <<b>> /\ todo' = Fields(client[b[1]])
      /\ inBuf' = Tail(inBuf) /\ inUsed' = inUsed + 1
      /\ UNCHANGED <<client, next, arrived, inOffset, handled>>
  BY DEF ReadType, ReadIInv, TakenFor
<1>2. /\ client \in Seq(Messages) /\ inBuf \in Seq(Places) /\ arrived \in Seq(Places)
      /\ inOffset \in Nat /\ inUsed \in Nat /\ Len(handled) \in Nat /\ OnTheWay \in Seq(Places)
  BY ReadTypes
<1>3. got = <<>>
  BY <1>1 DEF ReadIInv, CallsAreLeft
<1>4. OnTheWay = inBuf \o arrived
  <2>1. <<>> \o inBuf = inBuf
    BY <1>2, ConcatEmptySeq
  <2> QED BY <1>3, <2>1 DEF OnTheWay
<1>5. b = inBuf[1] /\ Len(inBuf) \in Nat \ {0} /\ b \in Places
      /\ Tail(inBuf) \in Seq(Places)
  BY <1>1, <1>2
<1>6. OnTheWay[1] = b /\ OnTheWay # <<>>
  <2>1. /\ Len(inBuf \o arrived) = Len(inBuf) + Len(arrived) /\ Len(arrived) \in Nat
        /\ \A i \in 1 .. Len(inBuf) : (inBuf \o arrived)[i] = inBuf[i]
    BY ONLY <1>2, Concat
  <2>2. 1 \in 1 .. Len(inBuf) /\ Len(inBuf \o arrived) # 0
    BY <1>5, <2>1
  <2>3. inBuf \o arrived # <<>>
    BY <2>2
  <2> QED BY <1>4, <1>5, <2>1, <2>2, <2>3
<1>7. b = <<k, 1>> /\ k \in DOMAIN client
  <2>1. OnTheWay[1] = <<k, 1>>
    BY <1>6 DEF ReadIInv, FromFirst
  <2>2. 1 \in 1 .. Len(OnTheWay)
    BY <1>2, <1>6
  <2>3. OnTheWay[1][1] \in DOMAIN client
    BY <2>2 DEF ReadIInv, FromFirst
  <2>4. b = <<k, 1>>
    BY ONLY <2>1, <1>6
  <2> QED BY <2>1, <2>3, <2>4
<1>8. m \in Messages /\ m = client[k] /\ todo' = F
  BY <1>1, <1>2, <1>7 DEF Current
<1>9. /\ F \in Seq(Calls) /\ Len(F) \in Nat \ {0} /\ Offset(m, 1) = 1
      /\ \A i \in 1 .. Len(F) : Offset(m, i + 1) = Offset(m, i) + F[i].n
  BY <1>8, MessageFields
<1>10. OnTheWay' = OnTheWay
  <2> DEFINE t == Tail(inBuf)
  <2>1. inBuf = <<b>> \o t
    <3>1. <<b>> \in Seq(Places) /\ t \in Seq(Places) /\ Len(<<b>>) = 1 /\ <<b>>[1] = b
      BY <1>5
    <3>2. Len(t) = Len(inBuf) - 1 /\ \A j \in 1 .. Len(t) : t[j] = inBuf[j + 1]
      BY <1>1, <1>2, HeadTailProperties
    <3>0. b = inBuf[1] /\ Len(inBuf) \in Nat \ {0}
      BY <1>5
    <3> HIDE DEF t, b
    <3>3. /\ <<b>> \o t \in Seq(Places) /\ Len(<<b>> \o t) = Len(<<b>>) + Len(t)
          /\ \A i \in 1 .. Len(<<b>>) : (<<b>> \o t)[i] = <<b>>[i]
          /\ \A i \in 1 .. Len(t) : (<<b>> \o t)[Len(<<b>>) + i] = t[i]
      BY ONLY <3>1, Concat
    <3> DEFINE v == <<b>> \o t
    <3>4. /\ v \in Seq(Places) /\ Len(v) = Len(inBuf) /\ v[1] = b
          /\ \A i \in 1 .. Len(t) : v[1 + i] = t[i]
      BY <3>0, <3>1, <3>2, <3>3
    <3> HIDE DEF v
    <3>5. ASSUME NEW i \in 1 .. Len(v) PROVE v[i] = inBuf[i]
      <4>1. CASE i = 1
        BY <3>0, <3>4, <4>1
      <4>2. CASE i # 1
        <5>1. i - 1 \in 1 .. Len(t) /\ 1 + (i - 1) = i /\ (i - 1) + 1 = i
          BY <3>0, <3>2, <3>4, <4>2
        <5>2. v[1 + (i - 1)] = t[i - 1] /\ t[i - 1] = inBuf[(i - 1) + 1]
          BY <5>1, <3>2, <3>4
        <5> QED BY <5>1, <5>2
      <4> QED BY <4>1, <4>2
    <3>6. v = inBuf
      BY <1>2, <3>4, <3>5, SeqEqual
    <3> QED BY <3>6 DEF v
  <2> QED BY <1>1, <1>4, <2>1 DEF OnTheWay
<1> HIDE DEF k, m, F, b
<1>11. Current' = m /\ Fields(Current)' = F
  BY <1>1 DEF Current, m, F, Fields, AsInt, PixelFormatFields, Item, Skip, Turns, RawBytes
<1>12. ReadTypeOK'
  <2>1. <<b>> \in Seq(Places)
    BY <1>5
  <2> QED BY <1>1, <1>2, <1>5, <1>8, <1>9, <2>1 DEF ReadIInv, ReadTypeOK
<1>13. AllAreSent'
  <2>1. inOffset + inUsed = BytesOf(client)[Len(handled)] + 0
    BY <1>3 DEF ReadIInv, AllAreSent
  <2>2. BytesOf(client)[Len(handled)] \in Nat
    BY BytesOfFacts DEF ReadIInv, ReadTypeOK
  <2>3. Len(got') = 1
    BY <1>1
  <2>4. (inOffset + inUsed = BytesOf(client)[Len(handled)] + Len(got))'
    BY <1>1, <1>2, <2>1, <2>2, <2>3
  <2> QED BY <1>1, <2>4 DEF ReadIInv, AllAreSent, WireBytes, WireLength
<1>14. FromFirst(Len(handled) + 1, OnTheWay)'
  BY <1>1, <1>10 DEF ReadIInv, FromFirst, After, WireLength
<1>15. CallsAreLeft'
  <2>1. Len(handled') < Len(client')
    <3>1. Len(handled) + 1 \in DOMAIN client
      BY <1>7 DEF k
    <3>2. Len(handled) < Len(client)
      BY ONLY <1>2, <3>1
    <3> QED BY <1>1, <3>2
  <2>2. AtCall' = 1
    BY <1>8, <1>9, <1>11 DEF AtCall
  <2>3. \A j \in 2 .. Len(F) : F[j] = F[1 + j - 1]
    BY <1>9
  <2>4. Len(got') + F[1].n = Offset(m, 1 + 1)
    <3>1. Len(got') = 1 /\ 1 \in 1 .. Len(F)
      BY <1>1, <1>9
    <3> QED BY <1>9, <3>1
  <2>5. /\ Len(todo') = Len(F) /\ todo' # <<>>
        /\ \A j \in 2 .. Len(todo') : todo'[j] = F[1 + j - 1]
        /\ todo'[1].op = F[1].op /\ Len(got') + todo'[1].n = Offset(m, 1 + 1)
    BY <1>8, <1>9, <2>3, <2>4
  <2>6. AtCall' \in 1 .. Len(F)
    BY <1>9, <2>2
  <2>7. ReadLength(Current)' = ReadLength(m)
    BY <1>11 DEF ReadLength, TextTooLong, AsInt, WireLength
  <2> QED BY <1>8, <1>11, <2>1, <2>2, <2>5, <2>6, <2>7 DEF CallsAreLeft, Offset
<1>16. EndsAtNext'
  BY <1>1, <1>10 DEF ReadIInv, EndsAtNext, After, WireLength
<1>17. ~Astray' /\ Len(handled') \in 0 .. Len(client')
  BY <1>1 DEF ReadIInv, Astray, TextTooLong, AsInt
<1> QED BY <1>12, <1>13, <1>14, <1>15, <1>16, <1>17 DEF ReadIInv

LEMMA ReadUnchanged == ASSUME ReadIInv, UNCHANGED readVars PROVE ReadIInv'
<1>1. UNCHANGED <<client, next, got, todo, handled, arrived, inBuf, inOffset, inUsed>>
  BY DEF readVars
<1>2. OnTheWay' = OnTheWay
  BY <1>1 DEF OnTheWay
<1>3. inBuf \in Seq(Places) /\ arrived \in Seq(Places) /\ inOffset \in Nat /\ inUsed \in Nat
  BY DEF ReadIInv, ReadTypeOK
<1> QED BY <1>1, <1>2, <1>3, Moved

-----------------------------------------------------------------------------
(* A reader that is astray stays so, and hands on nothing of which it is      *)
(* said where it comes from.                                                  *)

LEMMA DoneTypes ==
  ASSUME ReadTypeOK, todo # <<>>, NEW n \in Nat, n <= Call.n, NEW bytes \in Seq(Places), Done(n, bytes)
  PROVE  todo' \in Seq(Calls) /\ got' \in Seq(Places) /\ handled' \in Seq(Seq(Places))
<1> DEFINE g == got \o bytes
           rest == IF Call.op = "item" \/ Call.n = n THEN Tail(todo)
                   ELSE <<[Call EXCEPT !.n = @ - n]>> \o Tail(todo)
<1>1. todo \in Seq(Calls) /\ got \in Seq(Places) /\ handled \in Seq(Seq(Places))
  BY DEF ReadTypeOK
<1>2. g \in Seq(Places)
  BY <1>1, Concat
<1>3. Call \in Calls /\ Tail(todo) \in Seq(Calls)
  BY <1>1 DEF Call
<1>4. rest \in Seq(Calls)
  <2> DEFINE c == [Call EXCEPT !.n = @ - n]
             t == Tail(todo)
  <2>1. c \in Calls
    BY <1>3, ShorterCall
  <2>2. t \in Seq(Calls)
    BY <1>3
  <2>3. rest = IF Call.op = "item" \/ Call.n = n THEN t ELSE <<c>> \o t
    OBVIOUS
  <2> HIDE DEF c, t, rest
  <2>4. <<c>> \in Seq(Calls)
    BY <2>1
  <2>5. <<c>> \o t \in Seq(Calls)
    BY ONLY <2>2, <2>4, Concat
  <2> QED BY <2>2, <2>3, <2>5
<1>5. /\ todo' = rest
      /\ \/ handled' = Append(handled, g) /\ got' = <<>>
         \/ handled' = handled /\ got' = g
  BY DEF Done
<1> HIDE DEF g, rest
<1>6. Append(handled, g) \in Seq(Seq(Places)) /\ <<>> \in Seq(Places)
  BY ONLY <1>1, <1>2, AppendProperties
<1> QED BY ONLY <1>1, <1>2, <1>4, <1>5, <1>6

LEMMA TypesStay ==
  ASSUME ReadTypeOK, Astray, [StreamsNext]_streamVars
  PROVE  ReadTypeOK'
<1>1. /\ client \in Seq(Messages) /\ next \in Places /\ handled \in Seq(Seq(Places))
      /\ got \in Seq(Places) /\ inBuf \in Seq(Places) /\ arrived \in Seq(Places)
      /\ todo \in Seq(Calls) /\ inOffset \in Nat /\ inUsed \in Nat
      /\ Len(inBuf) \in Nat /\ Len(arrived) \in Nat
  BY DEF ReadTypeOK
<1>2. CASE Arrive
  <2>1. next' \in Places
    <3>1. next[1] \in DOMAIN client /\ next' = After(next)
      BY <1>2 DEF Arrive
    <3> QED BY <3>1, <1>1, AfterPlace
  <2>2. arrived' \in Seq(Places)
    BY <1>1, <1>2 DEF Arrive
  <2> QED BY <2>1, <2>2, <1>1, <1>2 DEF Arrive, ReadTypeOK
<1>3. CASE ReadType
  <2>1. PICK m \in Mistaken : got' = <<Head(inBuf)>> /\ todo' = Fields(m)
    BY <1>3 DEF ReadType, TakenFor
  <2>2. todo' \in Seq(Calls)
    <3>1. m \in Messages
      BY StreamsAssumption
    <3> QED BY <2>1, <3>1, MessageFields
  <2>3. inBuf # <<>> /\ inBuf' = Tail(inBuf) /\ inUsed' = inUsed + 1
        /\ UNCHANGED <<client, next, arrived, inOffset, handled>>
    BY <1>3 DEF ReadType
  <2>4. Head(inBuf) \in Places /\ Tail(inBuf) \in Seq(Places)
    BY <1>1, <2>3
  <2>5. got' \in Seq(Places)
    BY <2>1, <2>4
  <2> QED BY <1>1, <2>2, <2>3, <2>4, <2>5 DEF ReadTypeOK
<1>4. CASE ReadBuffered
  <2> DEFINE n == LessOf(Call.n, Len(inBuf))
  <2>1. todo # <<>> /\ Done(n, SubSeq(inBuf, 1, n)) /\ inBuf' = SubSeq(inBuf, n + 1, Len(inBuf))
        /\ inUsed' = inUsed + n /\ UNCHANGED <<client, next, arrived, inOffset>>
    BY <1>4 DEF ReadBuffered
  <2>2. Call.n \in Nat
    <3>1. Call \in Calls
      BY <1>1, <2>1 DEF Call
    <3> QED BY <3>1 DEF Calls
  <2>3. n \in Nat /\ n <= Call.n /\ n \in 0 .. Len(inBuf)
    BY <1>1, <2>2 DEF LessOf
  <2> HIDE DEF n
  <2>4. SubSeq(inBuf, 1, n) \in Seq(Places) /\ SubSeq(inBuf, n + 1, Len(inBuf)) \in Seq(Places)
    BY <1>1, <2>3, Cut
  <2>5. todo' \in Seq(Calls) /\ got' \in Seq(Places) /\ handled' \in Seq(Seq(Places))
    BY <2>1, <2>3, <2>4, DoneTypes
  <2> QED BY <1>1, <2>1, <2>3, <2>4, <2>5 DEF ReadTypeOK
<1>5. CASE Overrun
  <2>1. PICK n \in 1 .. LessOf(Len(arrived), InSize - Len(inBuf)) :
          AppendRead(n) /\ arrived' = SubSeq(arrived, n + 1, Len(arrived))
    BY <1>5 DEF Overrun
  <2>2. n \in 0 .. Len(arrived)
    BY <1>1, StreamsAssumption DEF LessOf
  <2>3. SubSeq(arrived, 1, n) \in Seq(Places) /\ SubSeq(arrived, n + 1, Len(arrived)) \in Seq(Places)
    BY <1>1, <2>2, Cut
  <2>4. inBuf \o SubSeq(arrived, 1, n) \in Seq(Places)
    BY <1>1, <2>3, Concat
  <2>5. inOffset' = inOffset + inUsed /\ inUsed' = 0 /\ UNCHANGED <<client, next, got, todo, handled>>
    BY <1>5 DEF Overrun
  <2> QED BY <1>1, <2>1, <2>3, <2>4, <2>5 DEF AppendRead, ReadTypeOK
<1>6. CASE ReadDirect
  <2>1. PICK n \in 1 .. LessOf(Len(arrived), Call.n) :
          /\ Done(n, SubSeq(arrived, 1, n))
          /\ arrived' = SubSeq(arrived, n + 1, Len(arrived))
          /\ inOffset' = inOffset + n
    BY <1>6 DEF ReadDirect
  <2>2. todo # <<>> /\ UNCHANGED <<client, next, inBuf, inUsed>>
    BY <1>6 DEF ReadDirect, Direct
  <2>3. Call.n \in Nat
    <3>1. Call \in Calls
      BY <1>1, <2>2 DEF Call
    <3> QED BY <3>1 DEF Calls
  <2>4. n \in Nat /\ n <= Call.n /\ n \in 0 .. Len(arrived)
    BY <1>1, <2>3 DEF LessOf
  <2>5. SubSeq(arrived, 1, n) \in Seq(Places) /\ SubSeq(arrived, n + 1, Len(arrived)) \in Seq(Places)
    BY <1>1, <2>4, Cut
  <2>6. todo' \in Seq(Calls) /\ got' \in Seq(Places) /\ handled' \in Seq(Seq(Places))
    BY <2>1, <2>2, <2>4, <2>5, DoneTypes
  <2> QED BY <1>1, <2>1, <2>2, <2>4, <2>5, <2>6 DEF ReadTypeOK
<1>7. CASE UNCHANGED readVars
  BY <1>7 DEF readVars, ReadTypeOK
<1> QED BY <1>2, <1>3, <1>4, <1>5, <1>6, <1>7
     DEF StreamsNext, ClientLeaves, ReadFails, ReadThrows, WriteBuffered, Flush, WriteDirect, WriteFails, streamVars

\* What the client sends stays, and one message at a time is handed on.
LEMMA HandedOn ==
  ASSUME [StreamsNext]_streamVars
  PROVE  client' = client /\ (handled' = handled \/ \E g : handled' = Append(handled, g))
<1>1. ASSUME NEW n, NEW bytes, Done(n, bytes)
      PROVE  handled' = handled \/ \E g : handled' = Append(handled, g)
  BY <1>1 DEF Done
<1>2. CASE ReadBuffered
  BY <1>1, <1>2 DEF ReadBuffered
<1>3. CASE ReadDirect
  BY <1>1, <1>3 DEF ReadDirect
<1> QED BY <1>2, <1>3
     DEF StreamsNext, Arrive, ClientLeaves, ReadType, Overrun, ReadFails, ReadThrows, WriteBuffered,
         Flush, WriteDirect, WriteFails, streamVars, readVars

LEMMA StaysAstray ==
  ASSUME handled \in Seq(Seq(Places)), HandledAreSent, [StreamsNext]_streamVars, Astray \/ Astray'
  PROVE  Astray' /\ HandledAreSent'
<1>1. client' = client /\ (handled' = handled \/ \E g : handled' = Append(handled, g))
  BY HandedOn
<1>2. /\ Len(handled) \in Nat /\ Len(handled') \in Nat /\ Len(handled') >= Len(handled)
      /\ DOMAIN handled = 1 .. Len(handled) /\ DOMAIN handled' = 1 .. Len(handled')
      /\ Len(handled') # Len(handled) => Len(handled') = Len(handled) + 1
      /\ \A k \in 1 .. Len(handled) : handled'[k] = handled[k]
  <2>0. Len(handled) \in Nat /\ DOMAIN handled = 1 .. Len(handled)
    OBVIOUS
  <2>1. CASE handled' = handled
    BY ONLY <2>0, <2>1
  <2>2. ASSUME NEW g, handled' = Append(handled, g)
        PROVE  /\ Len(handled') = Len(handled) + 1 /\ DOMAIN handled' = 1 .. Len(handled) + 1
               /\ \A k \in 1 .. Len(handled) : handled'[k] = handled[k]
    BY ONLY <2>0, <2>2
  <2> QED BY <1>1, <2>0, <2>1, <2>2
<1>3. ASSUME NEW k PROVE TextTooLong(client'[k]) <=> TextTooLong(client[k])
  BY <1>1
<1>4. Astray' <=> \E k \in 1 .. Len(handled') : k \in DOMAIN client /\ TextTooLong(client[k])
  BY <1>1, <1>3, Zenon DEF Astray, TextTooLong, AsInt
<1>5. Astray'
  <2>1. CASE Astray
    <3>1. PICK i \in 1 .. Len(handled) : i \in DOMAIN client /\ TextTooLong(client[i])
      BY <2>1 DEF Astray
    <3>2. Len(handled) \in Nat /\ Len(handled') \in Nat /\ Len(handled') >= Len(handled)
      BY <1>2
    <3>3. i \in 1 .. Len(handled')
      BY ONLY <3>1, <3>2
    <3> QED BY <1>4, <3>1, <3>3
  <2> QED BY <2>1
<1>6. ASSUME NEW k \in DOMAIN handled', \A j \in 1 .. k : ~TextTooLong(client[j])
      PROVE  handled'[k] = WireBytes(k, client[k])
  <2>1. PICK i \in 1 .. Len(handled') : TextTooLong(client[i])
    BY <1>4, <1>5
  <2>2. k \in 1 .. Len(handled') /\ ~ (i \in 1 .. k)
    BY <1>2, <1>6, <2>1
  <2>3. k \in 1 .. Len(handled) /\ k \in DOMAIN handled
    <3>1. /\ Len(handled) \in Nat /\ Len(handled') \in Nat
          /\ Len(handled') # Len(handled) => Len(handled') = Len(handled) + 1
      BY <1>2
    <3>2. i \in 1 .. Len(handled')
      OBVIOUS
    <3>3. k \in 1 .. Len(handled)
      BY ONLY <2>2, <3>1, <3>2
    <3> QED BY <1>2, <3>3
  <2> QED BY <1>2, <1>6, <2>3 DEF HandledAreSent
<1>7. \A k \in DOMAIN handled' :
        (\A j \in 1 .. k : ~TextTooLong(client[j])) => handled'[k] = WireBytes(k, client[k])
  BY <1>6
<1> QED BY <1>1, <1>5, <1>7 DEF HandledAreSent, TextTooLong, AsInt, WireBytes, WireLength

\* What a step of a reader that is not astray leaves is the invariant again.
LEMMA ReaderStep ==
  ASSUME ReaderIInv, [StreamsNext]_streamVars, ReadIInv => ReadIInv' \/ (Astray' /\ ReadTypeOK')
  PROVE  ReaderIInv'
<1>1. ReadTypeOK /\ HandledAreSent /\ handled \in Seq(Seq(Places))
  BY DEF ReaderIInv, ReadTypeOK
<1>2. CASE ReadIInv'
  <2>1. HandledAreSent'
    BY <1>2 DEF ReadIInv, AllAreSent, HandledAreSent
  <2> QED BY <1>2, <2>1 DEF ReaderIInv, ReadIInv
<1>3. CASE Astray
  BY <1>1, <1>3, StaysAstray, TypesStay DEF ReaderIInv
<1>4. CASE ReadIInv /\ Astray' /\ ReadTypeOK'
  BY <1>1, <1>4, StaysAstray DEF ReaderIInv
<1> QED BY <1>2, <1>3, <1>4 DEF ReaderIInv

-----------------------------------------------------------------------------
(* The steps of writing. *)

\* Until the stream is given up what was made is on the wire or in the buffer,
\* in its place; after that nothing more goes on the wire.
WriteIInv ==
  /\ server \in Seq(Calls) /\ made \in Nat /\ outOffset \in Nat
  /\ outBuf \in Seq(Nat) /\ Len(outBuf) <= OutSize /\ sentUpTo \in 0 .. Len(outBuf)
  /\ wire \in Seq(Nat) /\ \A i \in 1 .. Len(wire) : wire[i] = i
  /\ socket # "shut" =>
       /\ outOffset = Len(wire) /\ outOffset - sentUpTo + Len(outBuf) = made
       /\ \A i \in 1 .. Len(outBuf) : outBuf[i] = made - Len(outBuf) + i

StreamsIInv == ReaderIInv /\ WriteIInv

LEMMA WriteTypes ==
  ASSUME WriteIInv
  PROVE  /\ Len(outBuf) \in Nat /\ Len(wire) \in Nat /\ Room \in Nat
         /\ server # <<>> => NextCall \in Calls /\ NextCall.n \in Nat
<1>1. server \in Seq(Calls) /\ outBuf \in Seq(Nat) /\ Len(outBuf) <= OutSize /\ wire \in Seq(Nat)
  BY DEF WriteIInv
<1>2. Len(outBuf) \in Nat /\ Len(wire) \in Nat
  BY <1>1
<1>3. Room \in Nat
  BY <1>1, <1>2, StreamsAssumption DEF Room
<1>4. ASSUME server # <<>> PROVE NextCall \in Calls /\ NextCall.n \in Nat
  <2>1. NextCall \in Calls
    BY <1>1, <1>4 DEF NextCall
  <2> QED BY <2>1 DEF Calls
<1> QED BY <1>2, <1>3, <1>4

LEMMA CallsStay ==
  ASSUME server \in Seq(Calls), server # <<>>, NEW n \in Nat, n <= NextCall.n, WrittenOf(n)
  PROVE  server' \in Seq(Calls)
<1>1. Tail(server) \in Seq(Calls) /\ NextCall \in Calls
  BY DEF NextCall
<1>2. CASE NextCall.op \in {"item", "flush"} \/ NextCall.n = n
  BY <1>1, <1>2 DEF WrittenOf
<1>3. CASE ~ (NextCall.op \in {"item", "flush"} \/ NextCall.n = n)
  <2> DEFINE c == [NextCall EXCEPT !.n = @ - n]
  <2>1. c \in Calls
    BY <1>1, ShorterCall
  <2>2. server' = <<c>> \o Tail(server)
    BY <1>3 DEF WrittenOf
  <2> HIDE DEF c
  <2>3. <<c>> \in Seq(Calls)
    BY <2>1
  <2> DEFINE t == Tail(server)
  <2>4. t \in Seq(Calls)
    BY <1>1
  <2> HIDE DEF t
  <2>5. <<c>> \o t \in Seq(Calls)
    BY ONLY <2>3, <2>4, Concat
  <2> QED BY <2>2, <2>5 DEF t
<1> QED BY <1>2, <1>3

\* The numbers of the bytes that are made next.
LEMMA NewBytes ==
  ASSUME made \in Nat, NEW n \in Nat
  PROVE  /\ New(n) \in Seq(Nat) /\ Len(New(n)) = n
         /\ \A i \in 1 .. n : New(n)[i] = made + i
BY DEF New

LEMMA BufferedWrites == ASSUME WriteIInv, WriteBuffered PROVE WriteIInv'
<1> DEFINE n == IF NextCall.op = "flush" THEN 0 ELSE LessOf(NextCall.n, Room)
           e == New(n)
<1>1. /\ server # <<>> /\ socket # "shut" /\ outBuf' = outBuf \o e /\ made' = made + n /\ WrittenOf(n)
      /\ UNCHANGED <<outOffset, sentUpTo, wire, socket>>
  BY DEF WriteBuffered
<1>2. /\ Len(outBuf) \in Nat /\ Room \in Nat /\ NextCall.n \in Nat
  BY <1>1, WriteTypes
<1>3. n \in Nat /\ n <= NextCall.n /\ n <= Room
  BY <1>2 DEF LessOf
<1>4. /\ server \in Seq(Calls) /\ made \in Nat /\ outBuf \in Seq(Nat) /\ sentUpTo \in 0 .. Len(outBuf)
      /\ outOffset \in Nat /\ wire \in Seq(Nat) /\ \A i \in 1 .. Len(wire) : wire[i] = i
  BY DEF WriteIInv
<1>5. /\ outOffset = Len(wire) /\ outOffset - sentUpTo + Len(outBuf) = made
      /\ \A i \in 1 .. Len(outBuf) : outBuf[i] = made - Len(outBuf) + i
  BY <1>1 DEF WriteIInv
<1>6. server' \in Seq(Calls)
  BY <1>1, <1>3, <1>4, CallsStay
<1>7. e \in Seq(Nat) /\ Len(e) = n /\ \A i \in 1 .. n : e[i] = made + i
  BY <1>3, <1>4, NewBytes
<1> HIDE DEF n, e
<1>8. /\ outBuf \o e \in Seq(Nat) /\ Len(outBuf \o e) = Len(outBuf) + Len(e)
      /\ \A i \in 1 .. Len(outBuf) : (outBuf \o e)[i] = outBuf[i]
      /\ \A i \in 1 .. Len(e) : (outBuf \o e)[Len(outBuf) + i] = e[i]
  <2>1. outBuf \in Seq(Nat) /\ e \in Seq(Nat)
    BY <1>4, <1>7
  <2> QED BY ONLY <2>1, Concat
<1>9. outBuf' \in Seq(Nat) /\ Len(outBuf') = Len(outBuf) + n
  BY <1>1, <1>7, <1>8
<1>10. ASSUME NEW i \in 1 .. Len(outBuf') PROVE outBuf'[i] = made' - Len(outBuf') + i
  <2>0. made' - Len(outBuf') = made - Len(outBuf)
    BY <1>1, <1>2, <1>3, <1>4, <1>9
  <2>1. CASE i \in 1 .. Len(outBuf)
    BY <1>1, <1>5, <1>8, <2>0, <2>1
  <2>2. CASE i \notin 1 .. Len(outBuf)
    <3>1. i - Len(outBuf) \in 1 .. n /\ Len(outBuf) + (i - Len(outBuf)) = i
      BY <1>2, <1>3, <1>9, <2>2
    <3>2. outBuf'[i] = made + (i - Len(outBuf))
      BY <1>1, <1>7, <1>8, <3>1
    <3> QED BY <3>2, <2>0, <1>2, <1>4
  <2> QED BY <2>1, <2>2
<1>11. Len(outBuf') <= OutSize
  BY <1>2, <1>3, <1>9, StreamsAssumption DEF Room
<1>12. sentUpTo' \in 0 .. Len(outBuf') /\ made' \in Nat /\ outOffset' - sentUpTo' + Len(outBuf') = made'
  <2>1. /\ sentUpTo \in Nat /\ sentUpTo <= Len(outBuf) /\ Len(outBuf') = Len(outBuf) + n
        /\ made' = made + n /\ sentUpTo' = sentUpTo /\ outOffset' = outOffset
    BY <1>1, <1>2, <1>4, <1>9
  <2>2. /\ outOffset \in Nat /\ made \in Nat /\ Len(outBuf) \in Nat /\ n \in Nat
        /\ outOffset - sentUpTo + Len(outBuf) = made
    BY <1>2, <1>3, <1>4, <1>5
  <2> QED BY ONLY <2>1, <2>2
<1> QED BY <1>1, <1>4, <1>5, <1>6, <1>9, <1>10, <1>11, <1>12 DEF WriteIInv

LEMMA FlushWrites == ASSUME WriteIInv, Flush PROVE WriteIInv'
<1>1. /\ socket = "open" /\ UNCHANGED <<server, made, socket>>
  BY DEF Flush
<1>2. PICK n \in 1 .. Len(outBuf) - sentUpTo :
        /\ wire' = wire \o SubSeq(outBuf, sentUpTo + 1, sentUpTo + n)
        /\ outOffset' = outOffset + n
        /\ IF sentUpTo + n = Len(outBuf) THEN outBuf' = <<>> /\ sentUpTo' = 0
            ELSE outBuf' = outBuf /\ sentUpTo' = sentUpTo + n
  BY DEF Flush
<1>3. /\ server \in Seq(Calls) /\ made \in Nat /\ outBuf \in Seq(Nat) /\ sentUpTo \in 0 .. Len(outBuf)
      /\ outOffset \in Nat /\ wire \in Seq(Nat) /\ \A i \in 1 .. Len(wire) : wire[i] = i
      /\ Len(outBuf) <= OutSize
  BY DEF WriteIInv
<1>4. /\ outOffset = Len(wire) /\ outOffset - sentUpTo + Len(outBuf) = made
      /\ \A i \in 1 .. Len(outBuf) : outBuf[i] = made - Len(outBuf) + i
  BY <1>1 DEF WriteIInv
<1>5. /\ Len(outBuf) \in Nat /\ Len(wire) \in Nat /\ n \in Nat /\ n >= 1 /\ sentUpTo \in Nat
      /\ sentUpTo + n <= Len(outBuf)
  BY <1>3, WriteTypes
<1> DEFINE e == SubSeq(outBuf, sentUpTo + 1, sentUpTo + n)
<1>6. e \in Seq(Nat) /\ Len(e) = n /\ \A i \in 1 .. n : e[i] = outBuf[sentUpTo + i]
  <2> DEFINE lo == sentUpTo + 1
             hi == sentUpTo + n
  <2>1. lo \in Int /\ hi \in Int /\ lo <= hi /\ hi - lo + 1 = n
    BY <1>5
  <2>2. \A i \in lo .. hi : outBuf[i] \in Nat
    BY <1>3, <1>5
  <2>3. \A i \in 1 .. n : lo + i - 1 = sentUpTo + i
    BY <1>5
  <2>4. e = SubSeq(outBuf, lo, hi)
    OBVIOUS
  <2> HIDE DEF lo, hi, e
  <2>5. /\ SubSeq(outBuf, lo, hi) \in Seq(Nat)
        /\ Len(SubSeq(outBuf, lo, hi)) = IF lo <= hi THEN hi - lo + 1 ELSE 0
        /\ \A i \in 1 .. hi - lo + 1 : SubSeq(outBuf, lo, hi)[i] = outBuf[lo + i - 1]
    BY ONLY <2>1, <2>2, SubSeqProperties
  <2>6. e \in Seq(Nat) /\ Len(e) = n /\ \A i \in 1 .. n : e[i] = outBuf[lo + i - 1]
    BY ONLY <2>1, <2>4, <2>5
  <2> QED BY <2>3, <2>6
<1>7. wire' = wire \o e
  BY <1>2
<1> HIDE DEF e
<1>8. /\ wire \o e \in Seq(Nat) /\ Len(wire \o e) = Len(wire) + Len(e)
      /\ \A i \in 1 .. Len(wire) : (wire \o e)[i] = wire[i]
      /\ \A i \in 1 .. Len(e) : (wire \o e)[Len(wire) + i] = e[i]
  <2>1. wire \in Seq(Nat) /\ e \in Seq(Nat)
    BY <1>3, <1>6
  <2> QED BY ONLY <2>1, Concat
<1>9. wire' \in Seq(Nat) /\ Len(wire') = Len(wire) + n
  BY <1>6, <1>7, <1>8
<1>10. ASSUME NEW i \in 1 .. Len(wire') PROVE wire'[i] = i
  <2>1. CASE i \in 1 .. Len(wire)
    BY <1>3, <1>7, <1>8, <2>1
  <2>2. CASE i \notin 1 .. Len(wire)
    <3>1. i - Len(wire) \in 1 .. n /\ Len(wire) + (i - Len(wire)) = i
      BY <1>5, <1>9, <2>2
    <3> DEFINE j == i - Len(wire)
    <3>2. wire'[i] = outBuf[sentUpTo + j]
      BY <1>6, <1>7, <1>8, <3>1
    <3>3. sentUpTo + j \in 1 .. Len(outBuf)
      BY <1>5, <3>1
    <3>4. outBuf[sentUpTo + j] = made - Len(outBuf) + (sentUpTo + j)
      BY <1>4, <3>3
    <3>5. made - Len(outBuf) + (sentUpTo + j) = i
      <4>1. /\ made \in Nat /\ outOffset = Len(wire) /\ outOffset - sentUpTo + Len(outBuf) = made
            /\ Len(wire) + j = i /\ j \in Nat /\ Len(outBuf) \in Nat /\ Len(wire) \in Nat /\ sentUpTo \in Nat
        BY <1>3, <1>4, <1>5, <3>1
      <4> HIDE DEF j
      <4> QED BY ONLY <4>1
    <3> QED BY <3>2, <3>4, <3>5
  <2> QED BY <2>1, <2>2
<1>11. CASE sentUpTo + n = Len(outBuf)
  <2>1. outBuf' = <<>> /\ sentUpTo' = 0 /\ Len(outBuf') = 0
    BY <1>2, <1>11
  <2>2. outOffset' = Len(wire') /\ outOffset' - sentUpTo' + Len(outBuf') = made'
    BY <1>1, <1>2, <1>3, <1>4, <1>5, <1>9, <1>11, <2>1
  <2>3. outBuf' \in Seq(Nat) /\ 0 <= OutSize /\ sentUpTo' \in 0 .. Len(outBuf') /\ outOffset' \in Nat
    BY <1>2, <1>3, <1>5, <2>1, StreamsAssumption
  <2>4. \A i \in 1 .. Len(outBuf') : outBuf'[i] = made' - Len(outBuf') + i
    BY <2>1
  <2> QED BY <1>1, <1>3, <1>9, <1>10, <2>1, <2>2, <2>3, <2>4 DEF WriteIInv
<1>12. CASE sentUpTo + n # Len(outBuf)
  <2>1. outBuf' = outBuf /\ sentUpTo' = sentUpTo + n
    BY <1>2, <1>12
  <2>2. outOffset' = Len(wire') /\ outOffset' - sentUpTo' + Len(outBuf') = made'
    <3>1. /\ outOffset' = outOffset + n /\ outOffset = Len(wire) /\ Len(wire') = Len(wire) + n
          /\ sentUpTo' = sentUpTo + n /\ Len(outBuf') = Len(outBuf) /\ made' = made
          /\ outOffset - sentUpTo + Len(outBuf) = made
          /\ made \in Nat /\ Len(wire) \in Nat /\ n \in Nat /\ sentUpTo \in Nat /\ Len(outBuf) \in Nat
      BY <1>1, <1>2, <1>3, <1>4, <1>5, <1>9, <2>1
    <3> QED BY ONLY <3>1
  <2>3. sentUpTo' \in 0 .. Len(outBuf') /\ outOffset' \in Nat
    BY <1>2, <1>3, <1>5, <2>1
  <2>4. \A i \in 1 .. Len(outBuf') : outBuf'[i] = made' - Len(outBuf') + i
    BY <1>1, <1>4, <2>1
  <2> QED BY <1>1, <1>3, <1>9, <1>10, <2>1, <2>2, <2>3, <2>4 DEF WriteIInv
<1> QED BY <1>11, <1>12

LEMMA DirectWrites == ASSUME WriteIInv, WriteDirect PROVE WriteIInv'
<1>1. /\ socket = "open" /\ server # <<>> /\ ~MustFlush /\ DirectOut
      /\ UNCHANGED <<outBuf, sentUpTo, socket>>
  BY DEF WriteDirect
<1>2. PICK n \in 1 .. NextCall.n :
        /\ wire' = wire \o New(n) /\ made' = made + n /\ WrittenOf(n)
        /\ outOffset' = outOffset + n
  BY DEF WriteDirect
<1>3. /\ server \in Seq(Calls) /\ made \in Nat /\ outBuf \in Seq(Nat) /\ sentUpTo \in 0 .. Len(outBuf)
      /\ outOffset \in Nat /\ wire \in Seq(Nat) /\ \A i \in 1 .. Len(wire) : wire[i] = i
      /\ Len(outBuf) <= OutSize
  BY DEF WriteIInv
<1>4. outOffset = Len(wire) /\ outOffset - sentUpTo + Len(outBuf) = made
  BY <1>1 DEF WriteIInv
<1>5. outBuf = <<>> /\ Len(outBuf) = 0 /\ sentUpTo = 0
  <2>1. outBuf = <<>>
    BY <1>1 DEF MustFlush
  <2> QED BY <2>1, <1>3
<1>6. NextCall.n \in Nat /\ n \in Nat /\ n >= 1 /\ n <= NextCall.n /\ Len(wire) \in Nat
  BY <1>1, WriteTypes
<1>7. server' \in Seq(Calls)
  BY <1>1, <1>2, <1>3, <1>6, CallsStay
<1> DEFINE e == New(n)
<1>8. e \in Seq(Nat) /\ Len(e) = n /\ \A i \in 1 .. n : e[i] = made + i
  BY <1>3, <1>6, NewBytes
<1>9. wire' = wire \o e
  BY <1>2
<1> HIDE DEF e
<1>10. /\ wire \o e \in Seq(Nat) /\ Len(wire \o e) = Len(wire) + Len(e)
       /\ \A i \in 1 .. Len(wire) : (wire \o e)[i] = wire[i]
       /\ \A i \in 1 .. Len(e) : (wire \o e)[Len(wire) + i] = e[i]
  <2>1. wire \in Seq(Nat) /\ e \in Seq(Nat)
    BY <1>3, <1>8
  <2> QED BY ONLY <2>1, Concat
<1>11. wire' \in Seq(Nat) /\ Len(wire') = Len(wire) + n
  BY <1>8, <1>9, <1>10
<1>12. made = Len(wire)
  BY <1>3, <1>4, <1>5, <1>6
<1>13. ASSUME NEW i \in 1 .. Len(wire') PROVE wire'[i] = i
  <2>1. CASE i \in 1 .. Len(wire)
    BY <1>3, <1>9, <1>10, <2>1
  <2>2. CASE i \notin 1 .. Len(wire)
    <3>1. i - Len(wire) \in 1 .. n /\ Len(wire) + (i - Len(wire)) = i
      BY <1>6, <1>11, <2>2
    <3>2. wire'[i] = made + (i - Len(wire))
      BY <1>8, <1>9, <1>10, <3>1
    <3> QED BY <3>1, <3>2, <1>12
  <2> QED BY <2>1, <2>2
<1>14. /\ outOffset' = Len(wire') /\ outOffset' - sentUpTo' + Len(outBuf') = made'
       /\ made' \in Nat /\ outOffset' \in Nat
  <2>1. /\ outOffset' = outOffset + n /\ outOffset = Len(wire) /\ Len(wire') = Len(wire) + n
        /\ sentUpTo' = 0 /\ Len(outBuf') = 0 /\ made' = made + n /\ made = Len(wire)
        /\ made \in Nat /\ Len(wire) \in Nat /\ n \in Nat
    BY <1>1, <1>2, <1>3, <1>4, <1>5, <1>6, <1>11, <1>12
  <2> QED BY ONLY <2>1
<1>15. \A i \in 1 .. Len(outBuf') : outBuf'[i] = made' - Len(outBuf') + i
  BY <1>1, <1>5
<1> QED BY <1>1, <1>3, <1>7, <1>11, <1>13, <1>14, <1>15 DEF WriteIInv

LEMMA WriteUnchanged ==
  ASSUME WriteIInv, UNCHANGED writeVars, socket' = "shut" \/ socket # "shut" \/ socket' = socket
  PROVE  WriteIInv'
BY DEF WriteIInv, writeVars

LEMMA FailedWrites == ASSUME WriteIInv, WriteFails PROVE WriteIInv'
<1>1. sentUpTo' = 0 /\ socket' = "shut" /\ UNCHANGED <<server, outBuf, outOffset, made, wire>>
  BY DEF WriteFails, Caught, close
<1>2. Len(outBuf) \in Nat
  BY WriteTypes
<1> QED BY <1>1, <1>2 DEF WriteIInv

-----------------------------------------------------------------------------
LEMMA StreamsStart == StreamsInit => StreamsIInv
<1> SUFFICES ASSUME StreamsInit PROVE StreamsIInv
  OBVIOUS
<1>1. client \in Seq(Messages) /\ server \in Seq(Calls)
  BY StreamsAssumption DEF StreamsInit
<1>2. /\ next = <<1, 1>> /\ arrived = <<>> /\ inBuf = <<>> /\ inOffset = 0 /\ inUsed = 0
      /\ got = <<>> /\ todo = <<>> /\ handled = <<>>
      /\ outBuf = <<>> /\ outOffset = 0 /\ sentUpTo = 0 /\ made = 0 /\ wire = <<>>
  BY DEF StreamsInit
<1>3. ReadTypeOK
  BY <1>1, <1>2 DEF ReadTypeOK, Places
<1>4. AllAreSent
  <2>1. BytesOf(client)[0] = 0
    BY <1>1, BytesOfFacts
  <2>2. Len(<<>>) = 0 /\ DOMAIN <<>> = {}
    OBVIOUS
  <2> QED BY <1>2, <2>1, <2>2 DEF AllAreSent
<1>5. OnTheWay = <<>>
  <2>1. <<>> \o <<>> = <<>>
    OBVIOUS
  <2> QED BY <1>2, <2>1 DEF OnTheWay
<1>6. FromFirst(Len(handled) + 1, OnTheWay)
  BY <1>5 DEF FromFirst
<1>7. CallsAreLeft
  BY <1>2 DEF CallsAreLeft
<1>8. WriteIInv
  BY <1>1, <1>2, StreamsAssumption DEF WriteIInv
<1>9. ~Astray /\ Len(handled) \in 0 .. Len(client) /\ EndsAtNext
  BY <1>1, <1>2, <1>5 DEF Astray, EndsAtNext
<1>10. ReadIInv
  BY <1>3, <1>4, <1>6, <1>7, <1>9 DEF ReadIInv
<1>11. HandledAreSent
  BY <1>4 DEF AllAreSent, HandledAreSent
<1> QED BY <1>3, <1>8, <1>10, <1>11 DEF StreamsIInv, ReaderIInv

LEMMA ReadingSteps ==
  ASSUME ReadIInv, [StreamsNext]_streamVars
  PROVE  ReadIInv' \/ (Astray' /\ ReadTypeOK')
<1>1. CASE Arrive \/ ReadType \/ ReadBuffered \/ Overrun \/ ReadDirect
  BY <1>1, ArriveReads, TypeReads, BufferedReads, OverrunReads, DirectReads
<1>2. CASE UNCHANGED readVars
  BY <1>2, ReadUnchanged
<1> QED BY <1>1, <1>2
     DEF StreamsNext, ClientLeaves, ReadFails, ReadThrows, WriteBuffered, Flush, WriteDirect, WriteFails,
         streamVars

LEMMA WritingSteps == ASSUME WriteIInv, [StreamsNext]_streamVars PROVE WriteIInv'
<1>1. CASE Arrive \/ ReadType \/ ReadBuffered \/ Overrun \/ ReadDirect
  <2>1. UNCHANGED writeVars /\ socket' = socket
    BY <1>1 DEF Arrive, ReadType, ReadBuffered, Overrun, ReadDirect
  <2> QED BY <2>1, WriteUnchanged
<1>2. CASE ClientLeaves \/ ReadFails \/ ReadThrows
  <2>1. UNCHANGED writeVars /\ (socket # "shut" \/ socket' = "shut")
    BY <1>2 DEF ClientLeaves, ReadFails, ReadThrows, close
  <2> QED BY <2>1, WriteUnchanged
<1>3. CASE UNCHANGED streamVars
  <2>1. UNCHANGED writeVars /\ socket' = socket
    BY <1>3 DEF streamVars
  <2> QED BY <2>1, WriteUnchanged
<1> QED BY <1>1, <1>2, <1>3, BufferedWrites, FlushWrites, DirectWrites, FailedWrites DEF StreamsNext

LEMMA StreamsStep == StreamsIInv /\ [StreamsNext]_streamVars => StreamsIInv'
<1> SUFFICES ASSUME ReaderIInv, WriteIInv, [StreamsNext]_streamVars PROVE StreamsIInv'
  BY DEF StreamsIInv
<1>1. ReaderIInv'
  BY ReadingSteps, ReaderStep
<1>2. WriteIInv'
  BY WritingSteps
<1> QED BY <1>1, <1>2 DEF StreamsIInv

\* Up to a text whose length is no int, each message that is handed on was read
\* from its own bytes, and the peer gets what was written once and in order, for
\* any sizes of messages, buffers and pieces.
THEOREM BytesInOrder == StreamsSpec => []BytesKeepOrder
<1>1. StreamsIInv => BytesKeepOrder
  <2> SUFFICES ASSUME ReaderIInv, WriteIInv PROVE BytesKeepOrder
    BY DEF StreamsIInv
  <2>1. HandledAreSent
    BY DEF ReaderIInv
  <2>2. wire \in Seq(Nat) /\ \A i \in 1 .. Len(wire) : wire[i] = i
    BY DEF WriteIInv
  <2>3. wire = [i \in DOMAIN wire |-> i]
    BY <2>2
  <2>4. socket # "shut" => outOffset - sentUpTo + Len(outBuf) = made
    BY DEF WriteIInv
  <2> QED BY <2>1, <2>3, <2>4 DEF BytesKeepOrder, WrittenOnce
<1> QED BY <1>1, StreamsStart, StreamsStep, PTL DEF StreamsSpec

-----------------------------------------------------------------------------
(***************************************************************************)
(* Every open handle has one owner, whatever fails on the way, for any     *)
(* numbers of handles, sockets and callers.  Where a TcpSocket, a caller   *)
(* or a listener is says whether it has a handle; the host thread handles  *)
(* one socket at a time, which alone may have a handle that is not its own *)
(* any more, and a caller that is given that handle meanwhile cannot have  *)
(* its socket served before the host thread has written what is left.      *)
(***************************************************************************)
\* Who has a handle.
Placed ==
  /\ \A s \in Sockets : place[s] = "free" <=> handle[s] = NoHandle
  /\ \A c \in Callers : handle[c] # NoHandle <=> phase[c] \in {"resolve", "connect"}
  /\ \A l \in Listeners :
       handle[l] # NoHandle <=> l \in listening \/ (l = lst /\ host \in {"bind", "listen"})
  /\ command # NoCaller => phase[command] = "waits"

\* What the host thread is doing with the socket or the listener that it handles.
Handled ==
  /\ \A s \in Sockets :
       place[s] = "host" <=>
         s = cur /\ (host \in {"filter", "add"} \/ (host = "delete" /\ s \notin connections))
  /\ \A s \in Sockets : place[s] = "dying" <=> s = cur /\ host = "streams"
  /\ \A s \in Sockets : place[s] = "added" => s \in connections
  /\ \A s \in connections : place[s] = "added" \/ (s = cur /\ host = "streams")
  /\ host = "remove" => cur \in connections
  /\ host \in {"open", "bind", "listen", "register"} => lst \notin registered

\* The handle that was closed is not of those who are served.
ClosedIsNotServed ==
  host = "streams" => \A x \in (connections \cup listening) \ {cur} : handle[x] # handle[cur]

DescriptorsIInv ==
  /\ DescriptorsTypeOK /\ Placed /\ Handled
  /\ HandlesAreOwned /\ ClosedIsNotServed /\ ServersKnowSockets

-----------------------------------------------------------------------------
\* What becomes of the owners when a handle is opened, closed or handed on.
LEMMA OwnersStay ==
  ASSUME HandlesAreOwned, Owners' = Owners, open' = open,
         \A x \in Owners : handle'[x] = handle[x]
  PROVE  HandlesAreOwned'
<1>1. open' = {handle'[x] : x \in Owners'}
  BY DEF HandlesAreOwned
<1>2. \A x, y \in Owners' : handle'[x] = handle'[y] => x = y
  BY DEF HandlesAreOwned
<1> QED BY <1>1, <1>2 DEF HandlesAreOwned

LEMMA OwnerComes ==
  ASSUME HandlesAreOwned, NEW z, z \notin Owners, NEW h, h \notin open,
         Owners' = Owners \cup {z}, open' = open \cup {h}, handle'[z] = h,
         \A x \in Owners : handle'[x] = handle[x]
  PROVE  HandlesAreOwned'
<1>1. open' = {handle'[x] : x \in Owners'}
  BY DEF HandlesAreOwned
<1>2. \A x \in Owners : handle[x] # h
  BY DEF HandlesAreOwned
<1>3. \A x, y \in Owners' : handle'[x] = handle'[y] => x = y
  BY <1>2 DEF HandlesAreOwned
<1> QED BY <1>1, <1>3 DEF HandlesAreOwned

LEMMA OwnerGoes ==
  ASSUME HandlesAreOwned, NEW z \in Owners,
         Owners' = Owners \ {z}, open' = open \ {handle[z]},
         \A x \in Owners \ {z} : handle'[x] = handle[x]
  PROVE  HandlesAreOwned'
<1>1. \A x \in Owners \ {z} : handle[x] # handle[z]
  BY DEF HandlesAreOwned
<1>2. open' = {handle'[x] : x \in Owners'}
  BY <1>1 DEF HandlesAreOwned
<1>3. \A x, y \in Owners' : handle'[x] = handle'[y] => x = y
  BY DEF HandlesAreOwned
<1> QED BY <1>2, <1>3 DEF HandlesAreOwned

LEMMA OwnerChanges ==
  ASSUME HandlesAreOwned, NEW z \in Owners, NEW s, s \notin Owners,
         Owners' = (Owners \ {z}) \cup {s}, open' = open, handle'[s] = handle[z],
         \A x \in Owners \ {z} : handle'[x] = handle[x]
  PROVE  HandlesAreOwned'
<1>1. open' = {handle'[x] : x \in Owners'}
  BY DEF HandlesAreOwned
<1>2. \A x, y \in Owners' : handle'[x] = handle'[y] => x = y
  BY DEF HandlesAreOwned
<1> QED BY <1>1, <1>2 DEF HandlesAreOwned

LEMMA DescriptorsStart == DescriptorsInit => DescriptorsIInv
<1> SUFFICES ASSUME DescriptorsInit PROVE DescriptorsIInv
  OBVIOUS
<1> USE DescriptorsAssumption
<1>0. cur \in Sockets
  BY DEF DescriptorsInit
<1>1. DescriptorsTypeOK
  BY <1>0 DEF DescriptorsInit, DescriptorsTypeOK, Listeners
<1>2. Placed
  BY DEF DescriptorsInit, Placed, Holders, Listeners
<1>3. Handled
  BY DEF DescriptorsInit, Handled, Listeners
<1>4. HandlesAreOwned
  <2>1. Owners = {}
    BY DEF DescriptorsInit, Owners, Holders
  <2> QED BY <2>1 DEF DescriptorsInit, HandlesAreOwned
<1>5. ClosedIsNotServed /\ ServersKnowSockets
  BY DEF DescriptorsInit, ClosedIsNotServed, ServersKnowSockets
<1> QED BY <1>1, <1>2, <1>3, <1>4, <1>5 DEF DescriptorsIInv

\* The steps of the callers.
LEMMA CallersInv ==
  ASSUME DescriptorsIInv, NEW c \in Callers, CallerStep(c)
  PROVE  DescriptorsIInv'
<1> USE DescriptorsAssumption
<1>0. DescriptorsTypeOK /\ Placed /\ Handled /\ HandlesAreOwned /\ ClosedIsNotServed /\ ServersKnowSockets
  BY DEF DescriptorsIInv
<1>1. /\ UNCHANGED <<left, isShutdown, connections, clients, closingSockets, sessions, listening,
                     registered, lst, host, cur, via, back>>
      /\ phase' \in [Callers -> {"idle", "resolve", "connect", "made", "waits"}]
      /\ \A d \in Callers \ {c} : phase'[d] = phase[d]
      /\ handle' \in [Holders -> Handles \cup {NoHandle}]
      /\ command' \in Callers \cup {NoCaller} /\ open' \subseteq Handles
  <2> USE DEF HostWaits, Stage, serverVars, listenVars, DescriptorsTypeOK
  <2>1. CASE StartConnect(c)
    <3>1. PICK h \in Handles : Opens(c, h)
      BY <2>1 DEF StartConnect
    <3>2. handle' \in [Holders -> Handles \cup {NoHandle}] /\ open' \subseteq Handles
      BY <1>0, <3>1 DEF Opens
    <3> QED BY <1>0, <2>1, <3>2 DEF StartConnect
  <2>2. CASE Resolve(c)
    BY <1>0, <2>2 DEF Resolve, Closes
  <2>3. CASE Connect(c)
    <3>1. CASE Stage(c, "connect", "idle") /\ Closes(c) /\ UNCHANGED <<place, command>> /\ HostWaits
      BY <1>0, <3>1 DEF Closes
    <3>2. CASE ~(Stage(c, "connect", "idle") /\ Closes(c) /\ UNCHANGED <<place, command>> /\ HostWaits)
      <4>1. PICK s \in Sockets : handle' = [handle EXCEPT ![s] = handle[c], ![c] = NoHandle]
        BY <2>3, <3>2 DEF Connect
      <4>2. handle' \in [Holders -> Handles \cup {NoHandle}]
        BY <1>0, <4>1 DEF Holders
      <4> QED BY <1>0, <2>3, <3>2, <4>2 DEF Connect
    <3> QED BY <3>1, <3>2
  <2>4. CASE queueCommand(c)
    BY <1>0, <2>4 DEF queueCommand
  <2> QED BY <2>1, <2>2, <2>3, <2>4 DEF CallerStep
<1>m. command' # NoCaller => phase'[command'] = "waits"
  <2>1. phase[c] # "waits" /\ (command' = command \/ (command' = c /\ phase'[c] = "waits"))
    BY <1>0 DEF CallerStep, StartConnect, Resolve, Connect, queueCommand, Stage, DescriptorsTypeOK
  <2> QED BY <1>0, <1>1, <2>1 DEF Placed, DescriptorsTypeOK
<1>c. /\ c \in Holders /\ c \notin Sockets /\ c \notin Listeners
  BY DEF Holders
<1>2. CASE \E h \in Handles : /\ Opens(c, h) /\ phase[c] = "idle" /\ phase'[c] = "resolve" /\ UNCHANGED place
  <2>1. PICK h \in Handles : Opens(c, h)
    BY <1>2
  <2>2. handle[c] = NoHandle /\ handle'[c] = h /\ \A x \in Holders \ {c} : handle'[x] = handle[x]
    BY <1>0, <1>2, <1>c, <2>1 DEF Placed, Opens, DescriptorsTypeOK
  <2>3. DescriptorsTypeOK'
    BY <1>0, <1>1, <1>2 DEF DescriptorsTypeOK
  <2>4. Placed'
    BY <1>0, <1>1, <1>2, <2>2, <1>c, <1>m DEF Placed, Holders
  <2>5. Handled'
    BY <1>0, <1>1, <1>2 DEF Handled
  <2>6. HandlesAreOwned'
    <3>1. Owners' = Owners \cup {c} /\ c \notin Owners
      BY <1>1, <2>2, <1>c DEF Owners
    <3>2. \A x \in Owners : x \in Holders \ {c}
      BY <3>1 DEF Owners
    <3> QED BY <1>0, <2>1, <2>2, <3>1, <3>2, OwnerComes DEF Opens
  <2>7. ClosedIsNotServed'
    BY <1>0, <1>1, <2>2, <1>c DEF ClosedIsNotServed, DescriptorsTypeOK, Holders
  <2>8. ServersKnowSockets'
    BY <1>0, <1>1, <1>2 DEF ServersKnowSockets
  <2> QED BY <2>3, <2>4, <2>5, <2>6, <2>7, <2>8 DEF DescriptorsIInv
<1>3. CASE Closes(c) /\ phase[c] \in {"resolve", "connect"} /\ phase'[c] = "idle" /\ UNCHANGED place
  <2>2. handle[c] # NoHandle /\ handle'[c] = NoHandle /\ \A x \in Holders \ {c} : handle'[x] = handle[x]
    BY <1>0, <1>3, <1>c DEF Placed, Closes, DescriptorsTypeOK
  <2>3. DescriptorsTypeOK'
    BY <1>0, <1>1, <1>3 DEF DescriptorsTypeOK
  <2>4. Placed'
    BY <1>0, <1>1, <1>3, <2>2, <1>c, <1>m DEF Placed, Holders
  <2>5. Handled'
    BY <1>0, <1>1, <1>3 DEF Handled
  <2>6. HandlesAreOwned'
    <3>1. Owners' = Owners \ {c} /\ c \in Owners
      BY <1>1, <2>2, <1>c DEF Owners
    <3>2. \A x \in Owners \ {c} : x \in Holders \ {c}
      BY <3>1 DEF Owners
    <3> QED BY <1>0, <1>3, <2>2, <3>1, <3>2, OwnerGoes DEF Closes
  <2>7. ClosedIsNotServed'
    BY <1>0, <1>1, <2>2, <1>c DEF ClosedIsNotServed, DescriptorsTypeOK, Holders
  <2>8. ServersKnowSockets'
    BY <1>0, <1>1, <1>3 DEF ServersKnowSockets
  <2> QED BY <2>3, <2>4, <2>5, <2>6, <2>7, <2>8 DEF DescriptorsIInv
<1>4. CASE \E s \in Sockets : /\ place[s] = "free" /\ place' = [place EXCEPT ![s] = c]
                              /\ handle' = [handle EXCEPT ![s] = handle[c], ![c] = NoHandle]
                              /\ phase[c] = "connect" /\ phase'[c] = "made" /\ open' = open
  <2>1. PICK s \in Sockets : /\ place[s] = "free" /\ place' = [place EXCEPT ![s] = c]
                             /\ handle' = [handle EXCEPT ![s] = handle[c], ![c] = NoHandle]
    BY <1>4
  <2>2. /\ handle[c] # NoHandle /\ handle'[c] = NoHandle /\ s \in Holders
        /\ handle[s] = NoHandle /\ handle'[s] = handle[c]
        /\ \A x \in Holders \ {s, c} : handle'[x] = handle[x]
    BY <1>0, <1>4, <1>c, <2>1 DEF Placed, DescriptorsTypeOK, Holders
  <2>s. s \notin connections /\ ~(s = cur /\ host = "streams") /\ place'[s] = c
        /\ (\A r \in Sockets \ {s} : place'[r] = place[r])
        /\ place' \in [Sockets -> {"free", "host", "added", "dying"} \cup Callers]
    BY <1>0, <2>1 DEF Handled, DescriptorsTypeOK
  <2>3. DescriptorsTypeOK'
    BY <1>0, <1>1, <1>4, <2>s DEF DescriptorsTypeOK
  <2>4. Placed'
    BY <1>0, <1>1, <1>4, <2>2, <1>c, <1>m, <2>s DEF Placed, Holders
  <2>5. Handled'
    BY <1>0, <1>1, <2>1, <2>s DEF Handled, DescriptorsTypeOK
  <2>6. HandlesAreOwned'
    <3>1. Owners' = (Owners \ {c}) \cup {s} /\ c \in Owners /\ s \notin Owners
      BY <1>1, <2>2, <2>s, <1>c DEF Owners
    <3>2. \A x \in Owners \ {c} : x \in Holders \ {s, c}
      BY <3>1 DEF Owners
    <3> QED BY <1>0, <1>4, <2>2, <3>1, <3>2, OwnerChanges
  <2>7. ClosedIsNotServed'
    <3>1. \A x \in connections \cup listening \cup {cur} : x = s => host # "streams"
      BY <2>s, <1>0 DEF DescriptorsTypeOK
    <3>2. \A x \in connections \cup listening \cup {cur} : x \in Holders \ {c}
      BY <1>0, <1>c DEF DescriptorsTypeOK, Holders
    <3> QED BY <1>0, <1>1, <2>2, <3>1, <3>2 DEF ClosedIsNotServed
  <2>8. ServersKnowSockets'
    BY <1>0, <1>1, <2>s DEF ServersKnowSockets, DescriptorsTypeOK
  <2> QED BY <2>3, <2>4, <2>5, <2>6, <2>7, <2>8 DEF DescriptorsIInv
<1>5. CASE /\ UNCHANGED <<open, handle, place>>
           /\ phase[c] \in {"resolve", "connect"} <=> phase'[c] \in {"resolve", "connect"}
  <2>3. DescriptorsTypeOK'
    BY <1>0, <1>1, <1>5 DEF DescriptorsTypeOK
  <2>4. Placed'
    BY <1>0, <1>1, <1>5, <1>m DEF Placed
  <2>5. Handled'
    BY <1>0, <1>1, <1>5 DEF Handled
  <2>6. HandlesAreOwned'
    BY <1>0, <1>1, <1>5 DEF HandlesAreOwned, Owners
  <2>7. ClosedIsNotServed' /\ ServersKnowSockets'
    BY <1>0, <1>1, <1>5 DEF ClosedIsNotServed, ServersKnowSockets
  <2> QED BY <2>3, <2>4, <2>5, <2>6, <2>7 DEF DescriptorsIInv
<1>6. phase \in [Callers -> {"idle", "resolve", "connect", "made", "waits"}]
  BY <1>0 DEF DescriptorsTypeOK
<1> QED BY <1>2, <1>3, <1>4, <1>5, <1>6 DEF CallerStep, StartConnect, Resolve, Connect, queueCommand, Stage

\* A step of the host thread that leaves every handle with its owner.
LEMMA QuietInv ==
  ASSUME DescriptorsIInv, UNCHANGED <<open, handle, place>>, DescriptorsTypeOK', Placed', Handled',
         host # "streams", host' # "streams", ServersKnowSockets'
  PROVE  DescriptorsIInv'
<1>1. Owners' = Owners
  BY DEF Owners
<1>2. HandlesAreOwned'
  BY <1>1 DEF DescriptorsIInv, HandlesAreOwned
<1>3. ClosedIsNotServed'
  BY DEF ClosedIsNotServed
<1> QED BY <1>2, <1>3 DEF DescriptorsIInv

LEMMA QuietStepsInv ==
  ASSUME DescriptorsIInv,
         \/ ClearCommand \/ VerifyConnection \/ CheckTimeouts \/ Sweep \/ RemSocket
         \/ \E s \in Sockets : ProcessEvent(s)
         \/ EndLoop \/ EndServers
  PROVE  DescriptorsIInv'
<1> USE DescriptorsAssumption DEF Goto, Others, NoSocket, serverVars, handleVars, listenVars, commandVars
<1>0. DescriptorsTypeOK /\ Placed /\ Handled /\ HandlesAreOwned /\ ServersKnowSockets
  BY DEF DescriptorsIInv
<1>1. CASE ClearCommand
  <2> USE <1>1 DEF ClearCommand
  <2>1. DescriptorsTypeOK'
    BY <1>0 DEF DescriptorsTypeOK
  <2>2. Placed'
    <3>1. \A c \in Callers : phase'[c] = phase[c] \/ (c = command /\ phase'[c] = "idle")
      BY <1>0 DEF DescriptorsTypeOK
    <3> QED BY <1>0, <3>1 DEF Placed
  <2>3. Handled'
    BY <1>0 DEF Handled
  <2>4. ServersKnowSockets'
    BY <1>0 DEF ServersKnowSockets
  <2> QED BY <2>1, <2>2, <2>3, <2>4, QuietInv
<1>2. CASE VerifyConnection
  <2> USE <1>2 DEF VerifyConnection
  <2>1. DescriptorsTypeOK'
    BY <1>0 DEF DescriptorsTypeOK
  <2>2. Placed'
    BY <1>0 DEF Placed
  <2>3. Handled'
    BY <1>0 DEF Handled
  <2>4. ServersKnowSockets'
    BY <1>0 DEF ServersKnowSockets, Handled, DescriptorsTypeOK
  <2> QED BY <2>1, <2>2, <2>3, <2>4, QuietInv
<1>3. CASE CheckTimeouts
  <2> USE <1>3 DEF CheckTimeouts
  <2>1. DescriptorsTypeOK'
    BY <1>0 DEF DescriptorsTypeOK
  <2>2. Placed'
    BY <1>0 DEF Placed
  <2>3. Handled'
    BY <1>0 DEF Handled
  <2>4. ServersKnowSockets'
    BY <1>0 DEF ServersKnowSockets
  <2> QED BY <2>1, <2>2, <2>3, <2>4, QuietInv
<1>4. CASE Sweep
  <2> USE <1>4 DEF Sweep
  <2>1. DescriptorsTypeOK'
    BY <1>0 DEF DescriptorsTypeOK
  <2>2. Placed'
    BY <1>0 DEF Placed
  <2>3. Handled'
    BY <1>0 DEF Handled
  <2>4. ServersKnowSockets'
    BY <1>0 DEF ServersKnowSockets
  <2> QED BY <2>1, <2>2, <2>3, <2>4, QuietInv
<1>5. CASE RemSocket
  <2> USE <1>5 DEF RemSocket
  <2>1. DescriptorsTypeOK'
    BY <1>0 DEF DescriptorsTypeOK
  <2>2. Placed'
    BY <1>0 DEF Placed
  <2>3. Handled'
    BY <1>0 DEF Handled
  <2>4. ServersKnowSockets'
    BY <1>0 DEF ServersKnowSockets
  <2> QED BY <2>1, <2>2, <2>3, <2>4, QuietInv
<1>6. CASE \E s \in Sockets : ProcessEvent(s)
  <2>0. PICK s \in Sockets : ProcessEvent(s)
    BY <1>6
  <2> USE <2>0 DEF ProcessEvent
  <2>1. DescriptorsTypeOK'
    BY <1>0 DEF DescriptorsTypeOK
  <2>2. Placed'
    BY <1>0 DEF Placed
  <2>3. Handled'
    BY <1>0 DEF Handled
  <2>4. ServersKnowSockets'
    BY <1>0 DEF ServersKnowSockets
  <2> QED BY <2>1, <2>2, <2>3, <2>4, QuietInv
<1>7. CASE EndLoop
  <2> USE <1>7 DEF EndLoop
  <2>1. DescriptorsTypeOK'
    BY <1>0 DEF DescriptorsTypeOK
  <2>2. Placed'
    BY <1>0 DEF Placed
  <2>3. Handled'
    BY <1>0 DEF Handled
  <2>4. ServersKnowSockets'
    BY <1>0 DEF ServersKnowSockets
  <2> QED BY <2>1, <2>2, <2>3, <2>4, QuietInv
<1>8. CASE EndServers
  <2> USE <1>8 DEF EndServers
  <2>1. DescriptorsTypeOK'
    BY <1>0 DEF DescriptorsTypeOK
  <2>2. Placed'
    BY <1>0 DEF Placed
  <2>3. Handled'
    BY <1>0 DEF Handled
  <2>4. ServersKnowSockets'
    BY <1>0 DEF ServersKnowSockets
  <2> QED BY <2>1, <2>2, <2>3, <2>4, QuietInv
<1> QED BY <1>1, <1>2, <1>3, <1>4, <1>5, <1>6, <1>7, <1>8

\* The steps that give the host thread a socket and take it away.
LEMMA SocketStepsInv ==
  ASSUME DescriptorsIInv,
         \/ AddClient \/ AddSocket \/ DestroyTcpSocket \/ DestroySocket
         \/ \E l \in Listeners : TcpListenerAccept(l)
  PROVE  DescriptorsIInv'
<1> USE DescriptorsAssumption DEF Goto, Others, serverVars, handleVars, listenVars, commandVars
<1>0. /\ DescriptorsTypeOK /\ Placed /\ Handled /\ HandlesAreOwned /\ ClosedIsNotServed /\ ServersKnowSockets
      /\ cur \in Sockets /\ \A s \in Sockets : s \in Holders /\ s \notin Callers /\ s \notin Listeners
      /\ connections \subseteq Sockets
  BY DEF DescriptorsIInv, DescriptorsTypeOK, Holders
<1>1. CASE AddClient
  <2> USE <1>1 DEF AddClient
  <2>0. PICK s \in Sockets : place[s] = command /\ place' = [place EXCEPT ![s] = "host"] /\ cur' = s
    OBVIOUS
  <2>s. /\ command \in Callers /\ place'[s] = "host" /\ \A r \in Sockets \ {s} : place'[r] = place[r]
    BY <1>0, <2>0 DEF DescriptorsTypeOK
  <2>1. DescriptorsTypeOK'
    BY <1>0, <2>0 DEF DescriptorsTypeOK, Listeners
  <2>2. Placed'
    BY <1>0, <2>0, <2>s DEF Placed
  <2>3. Handled'
    BY <1>0, <2>0, <2>s DEF Handled
  <2>4. ServersKnowSockets'
    BY <1>0, <2>0, <2>s DEF ServersKnowSockets
  <2>5. HandlesAreOwned'
    BY <1>0, OwnersStay DEF Owners
  <2> QED BY <2>1, <2>2, <2>3, <2>4, <2>5 DEF DescriptorsIInv, ClosedIsNotServed
<1>2. CASE AddSocket
  <2> USE <1>2 DEF AddSocket
  <2>0. place[cur] = "host" /\ cur \notin connections /\ cur \notin clients \cup closingSockets \cup sessions
    BY <1>0 DEF Handled, ServersKnowSockets
  <2>1. DescriptorsTypeOK'
    BY <1>0 DEF DescriptorsTypeOK, ToServer
  <2>2. Placed'
    BY <1>0, <2>0 DEF Placed, DescriptorsTypeOK
  <2>3. Handled'
    BY <1>0, <2>0 DEF Handled, DescriptorsTypeOK
  <2>4. ServersKnowSockets'
    BY <1>0, <2>0 DEF ServersKnowSockets, ToServer, DescriptorsTypeOK
  <2>5. HandlesAreOwned'
    BY <1>0, OwnersStay DEF Owners, DescriptorsTypeOK
  <2> QED BY <1>0, <2>1, <2>2, <2>3, <2>4, <2>5 DEF DescriptorsIInv, ClosedIsNotServed, DescriptorsTypeOK
<1>3. CASE DestroyTcpSocket
  <2> USE <1>3 DEF DestroyTcpSocket
  <2>0. /\ place[cur] \in {"host", "added"} /\ handle[cur] # NoHandle /\ place'[cur] = "dying"
        /\ \A s \in Sockets \ {cur} : place'[s] = place[s]
    BY <1>0 DEF Handled, Placed, DescriptorsTypeOK
  <2>o. Owners' = Owners \ {cur} /\ cur \in Owners
    BY <1>0, <2>0 DEF Owners
  <2>1. DescriptorsTypeOK'
    BY <1>0 DEF DescriptorsTypeOK
  <2>2. Placed'
    BY <1>0, <2>0 DEF Placed, DescriptorsTypeOK
  <2>3. Handled'
    BY <1>0, <2>0 DEF Handled
  <2>4. ServersKnowSockets'
    BY <1>0, <2>0 DEF ServersKnowSockets
  <2>5. HandlesAreOwned'
    BY <1>0, <2>o, OwnerGoes
  <2>6. ClosedIsNotServed'
    <3>1. connections \subseteq Owners
      BY <1>0 DEF Owners, Handled, Placed
    <3>2. listening \subseteq Owners
      BY <1>0 DEF Owners, Placed, DescriptorsTypeOK, Holders
    <3> QED BY <1>0, <2>o, <3>1, <3>2 DEF HandlesAreOwned, ClosedIsNotServed
  <2> QED BY <2>1, <2>2, <2>3, <2>4, <2>5, <2>6 DEF DescriptorsIInv
<1>4. CASE DestroySocket
  <2> USE <1>4 DEF DestroySocket
  <2>0. /\ place'[cur] = "free" /\ handle'[cur] = NoHandle /\ host' \in {"timeouts", "sweep", "clear"}
        /\ \A s \in Sockets \ {cur} : place'[s] = place[s]
        /\ \A x \in Holders \ {cur} : handle'[x] = handle[x]
    BY <1>0 DEF DescriptorsTypeOK
  <2>o. Owners' = Owners /\ cur \notin Owners
    BY <1>0, <2>0 DEF Owners
  <2>1. DescriptorsTypeOK'
    BY <1>0 DEF DescriptorsTypeOK
  <2>2. Placed'
    BY <1>0, <2>0 DEF Placed, Holders
  <2>3. Handled'
    BY <1>0, <2>0 DEF Handled
  <2>4. ServersKnowSockets'
    <3>1. cur \notin clients \cup closingSockets \cup sessions
      BY <1>0 DEF ServersKnowSockets
    <3> QED BY <1>0, <2>0, <3>1 DEF ServersKnowSockets
  <2>5. HandlesAreOwned'
    <3>1. \A x \in Owners : handle'[x] = handle[x]
      BY <2>0, <2>o DEF Owners
    <3> QED BY <1>0, <2>o, <3>1, OwnersStay
  <2> QED BY <2>0, <2>1, <2>2, <2>3, <2>4, <2>5 DEF DescriptorsIInv, ClosedIsNotServed
<1>5. CASE \E l \in Listeners : TcpListenerAccept(l)
  <2>0. PICK l \in Listeners : TcpListenerAccept(l)
    BY <1>5
  <2> USE <2>0 DEF TcpListenerAccept
  <2>1. CASE host' = "ended"
    <3>1. UNCHANGED <<handleVars, cur, via, back>> /\ host = "wait"
      BY <2>1
    <3> HIDE <2>0 DEF TcpListenerAccept
    <3>2. UNCHANGED serverVars /\ Others
      BY <2>0 DEF TcpListenerAccept
    <3>3. DescriptorsTypeOK'
      BY <1>0, <2>1, <3>1, <3>2 DEF DescriptorsTypeOK
    <3>4. Placed'
      BY <1>0, <2>1, <3>1, <3>2 DEF Placed
    <3>5. Handled'
      BY <1>0, <2>1, <3>1, <3>2 DEF Handled
    <3>6. ServersKnowSockets'
      BY <1>0, <2>1, <3>1, <3>2 DEF ServersKnowSockets
    <3> QED BY <2>1, <3>1, <3>3, <3>4, <3>5, <3>6, QuietInv
  <2>2. CASE host' # "ended"
    <3>0. PICK s \in Sockets, h \in Handles :
            place[s] = "free" /\ place' = [place EXCEPT ![s] = "host"] /\ cur' = s /\ Opens(s, h)
      BY <2>2
    <3>1. /\ host = "wait" /\ host' = "filter" /\ via' = l /\ back' = "timeouts" /\ left' = left
          /\ UNCHANGED serverVars /\ Others
      BY <2>2
    <3> HIDE <2>0 DEF TcpListenerAccept
    <3>s. /\ place'[s] = "host" /\ handle[s] = NoHandle /\ handle'[s] = h /\ h \notin open /\ s \notin connections
          /\ \A r \in Sockets \ {s} : place'[r] = place[r]
          /\ \A x \in Holders \ {s} : handle'[x] = handle[x]
      BY <1>0, <3>0 DEF DescriptorsTypeOK, Placed, Handled, Opens
    <3>3. DescriptorsTypeOK'
      BY <1>0, <3>0, <3>1 DEF DescriptorsTypeOK, Opens
    <3>4. Placed'
      BY <1>0, <3>0, <3>1, <3>s DEF Placed, Holders
    <3>5. Handled'
      BY <1>0, <3>0, <3>1, <3>s DEF Handled
    <3>6. ServersKnowSockets'
      BY <1>0, <3>0, <3>1, <3>s DEF ServersKnowSockets
    <3>7. HandlesAreOwned'
      <4>1. Owners' = Owners \cup {s} /\ s \notin Owners
        BY <1>0, <3>0, <3>1, <3>s DEF Owners
      <4>2. \A x \in Owners : handle'[x] = handle[x]
        BY <4>1, <3>s DEF Owners
      <4> QED BY <1>0, <3>0, <3>s, <4>1, <4>2, OwnerComes DEF Opens
    <3> QED BY <3>1, <3>3, <3>4, <3>5, <3>6, <3>7 DEF DescriptorsIInv, ClosedIsNotServed
  <2> QED BY <2>1, <2>2
<1> QED BY <1>1, <1>2, <1>3, <1>4, <1>5

\* A step of the host thread that opens or closes the handle of a listener.
LEMMA ListenerInv ==
  ASSUME DescriptorsIInv, NoSocket, NEW l \in Listeners,
         {host, host'} \subseteq {"wait", "open", "bind", "listen", "register", "timeouts", "ended", "unlisten"},
         \/ UNCHANGED <<open, handle>>
         \/ handle[l] = NoHandle /\ \E h \in Handles : Opens(l, h)
         \/ handle[l] # NoHandle /\ Closes(l),
         handle'[l] # NoHandle <=> l \in listening' \/ (l = lst' /\ host' \in {"bind", "listen"}),
         \A k \in Listeners \ {l} :
           /\ k \in listening' <=> k \in listening
           /\ ~(k = lst /\ host \in {"bind", "listen"}) /\ ~(k = lst' /\ host' \in {"bind", "listen"}),
         listening' \subseteq Listeners, registered' \subseteq Listeners, lst' \in Listeners,
         listening' = registered' \cup (IF host' = "register" THEN {lst'} ELSE {}),
         host' \in {"open", "bind", "listen", "register"} => lst' \notin registered'
  PROVE  DescriptorsIInv'
<1> USE DescriptorsAssumption DEF NoSocket, serverVars, commandVars
<1>0. /\ DescriptorsTypeOK /\ Placed /\ Handled /\ HandlesAreOwned /\ ServersKnowSockets
      /\ l \in Holders /\ l \notin Sockets /\ l \notin Callers /\ host # "streams" /\ host' # "streams"
  BY DEF DescriptorsIInv, Holders
<1>1. /\ handle' \in [Holders -> Handles \cup {NoHandle}] /\ open' \subseteq Handles
      /\ \A x \in Holders \ {l} : handle'[x] = handle[x]
  <2>1. CASE UNCHANGED <<open, handle>>
    BY <1>0, <2>1 DEF DescriptorsTypeOK
  <2>2. CASE \E h \in Handles : Opens(l, h)
    <3>1. PICK h \in Handles : Opens(l, h)
      BY <2>2
    <3> QED BY <1>0, <3>1 DEF DescriptorsTypeOK, Opens
  <2>3. CASE Closes(l)
    BY <1>0, <2>3 DEF DescriptorsTypeOK, Closes
  <2> QED BY <2>1, <2>2, <2>3
<1>2. DescriptorsTypeOK'
  BY <1>0, <1>1 DEF DescriptorsTypeOK
<1>3. Placed'
  BY <1>0, <1>1 DEF Placed, Holders
<1>4. Handled'
  BY <1>0, <1>1 DEF Handled
<1>5. HandlesAreOwned'
  <2>0. \A x \in Holders : x \in Owners <=> handle[x] # NoHandle
    BY <1>0 DEF Owners
  <2>1. \A x \in Holders : x \in Owners' <=> handle'[x] # NoHandle
    BY <1>0 DEF Owners
  <2>2. Owners \subseteq Holders /\ Owners' \subseteq Holders
    BY DEF Owners
  <2>3. CASE UNCHANGED <<open, handle>>
    <3>1. Owners' = Owners
      BY <2>0, <2>1, <2>2, <2>3
    <3> QED BY <1>0, <2>3, <3>1, OwnersStay
  <2>4. CASE handle[l] = NoHandle /\ \E h \in Handles : Opens(l, h)
    <3>1. PICK h \in Handles : Opens(l, h)
      BY <2>4
    <3>2. handle'[l] = h /\ h # NoHandle /\ h \notin open /\ open' = open \cup {h}
      BY <1>0, <3>1 DEF Opens, DescriptorsTypeOK
    <3>3. Owners' = Owners \cup {l} /\ l \notin Owners
      BY <1>0, <1>1, <2>0, <2>1, <2>2, <2>4, <3>2
    <3>4. \A x \in Owners : handle'[x] = handle[x]
      BY <1>1, <2>2, <3>3
    <3> QED BY <1>0, <3>2, <3>3, <3>4, OwnerComes
  <2>5. CASE handle[l] # NoHandle /\ Closes(l)
    <3>2. handle'[l] = NoHandle /\ open' = open \ {handle[l]}
      BY <1>0, <2>5 DEF Closes, DescriptorsTypeOK
    <3>3. Owners' = Owners \ {l} /\ l \in Owners
      BY <1>0, <1>1, <2>0, <2>1, <2>2, <2>5, <3>2
    <3>4. \A x \in Owners \ {l} : handle'[x] = handle[x]
      BY <1>1, <2>2, <3>3
    <3> QED BY <1>0, <3>2, <3>3, <3>4, OwnerGoes
  <2> QED BY <2>3, <2>4, <2>5
<1>6. ServersKnowSockets'
  BY <1>0 DEF ServersKnowSockets
<1> QED BY <1>0, <1>2, <1>3, <1>4, <1>5, <1>6 DEF DescriptorsIInv, ClosedIsNotServed

LEMMA ListenerStepsInv ==
  ASSUME DescriptorsIInv,
         \/ OpenListener \/ BindListener \/ Listen \/ AddListener
         \/ \E l \in Listeners : Refresh(l) \/ EndListener(l)
  PROVE  DescriptorsIInv'
<1> USE DEF Goto, listenVars
<1>0. /\ lst \in Listeners /\ listening \subseteq Listeners /\ registered \subseteq Listeners
      /\ \A l \in Listeners : l \in Holders /\ l \notin Sockets
      /\ handle \in [Holders -> Handles \cup {NoHandle}] /\ NoHandle \notin Handles
      /\ \A l \in Listeners :
           handle[l] # NoHandle <=> l \in listening \/ (l = lst /\ host \in {"bind", "listen"})
      /\ host # "over" => listening = registered \cup (IF host = "register" THEN {lst} ELSE {})
      /\ host \in {"open", "bind", "listen", "register"} => lst \notin registered
  BY DescriptorsAssumption DEF DescriptorsIInv, DescriptorsTypeOK, Placed, Handled, ServersKnowSockets, Holders
<1>c. ASSUME NEW l \in Listeners, Closes(l) PROVE handle'[l] = NoHandle
  BY <1>0, <1>c DEF Closes
<1>o. ASSUME NEW l \in Listeners, NEW h \in Handles, Opens(l, h) PROVE handle'[l] # NoHandle
  BY <1>0, <1>o DEF Opens
<1>1. CASE OpenListener
  <2>1. NoSocket /\ host = "open"
    BY <1>1 DEF OpenListener
  <2>2. CASE host' = "bind"
    <3>1. PICK h \in Handles : Opens(lst, h)
      BY <1>1, <2>2 DEF OpenListener
    <3> QED BY <1>0, <1>1, <1>o, <2>1, <2>2, <3>1, ListenerInv DEF OpenListener
  <2>3. CASE host' # "bind"
    BY <1>0, <1>1, <2>1, <2>3, ListenerInv DEF OpenListener
  <2> QED BY <2>2, <2>3
<1>2. CASE BindListener
  <2>1. NoSocket /\ host = "bind" /\ host' \in {"listen", "timeouts"}
    BY <1>2 DEF BindListener
  <2>2. CASE host' = "listen"
    BY <1>0, <1>2, <2>1, <2>2, ListenerInv DEF BindListener
  <2>3. CASE host' # "listen"
    BY <1>0, <1>2, <1>c, <2>1, <2>3, ListenerInv DEF BindListener
  <2> QED BY <2>2, <2>3
<1>3. CASE Listen
  <2>1. NoSocket /\ host = "listen" /\ host' \in {"register", "timeouts"}
    BY <1>3 DEF Listen
  <2>2. CASE host' = "register"
    BY <1>0, <1>3, <2>1, <2>2, ListenerInv DEF Listen
  <2>3. CASE host' # "register"
    BY <1>0, <1>3, <1>c, <2>1, <2>3, ListenerInv DEF Listen
  <2> QED BY <2>2, <2>3
<1>4. CASE AddListener
  <2>1. NoSocket /\ host = "register" /\ host' \in {"timeouts", "ended"} /\ lst' = lst
    BY <1>4 DEF AddListener
  <2>2. CASE registered' = registered \cup {lst} /\ UNCHANGED <<open, handle, listening>>
    BY <1>0, <1>4, <2>1, <2>2, ListenerInv
  <2>3. CASE Closes(lst) /\ listening' = listening \ {lst} /\ UNCHANGED registered
    BY <1>0, <1>4, <1>c, <2>1, <2>3, ListenerInv
  <2> QED BY <1>4, <2>2, <2>3 DEF AddListener
<1>5. ASSUME NEW l \in Listeners, Refresh(l) PROVE DescriptorsIInv'
  <2>1. NoSocket /\ host = "wait" /\ host' \in {"open", "timeouts"} /\ lst' = l
    BY <1>5 DEF Refresh
  <2>2. CASE remListener(l)
    BY <1>0, <1>5, <1>c, <2>1, <2>2, ListenerInv DEF remListener
  <2>3. CASE l \notin listening /\ UNCHANGED <<open, handle, listening, registered>>
    BY <1>0, <1>5, <2>1, <2>3, ListenerInv
  <2> QED BY <1>5, <2>2, <2>3 DEF Refresh
<1>6. ASSUME NEW l \in Listeners, EndListener(l) PROVE DescriptorsIInv'
  <2>1. NoSocket /\ host = "unlisten" /\ host' = "unlisten" /\ remListener(l) /\ lst' = lst
    BY <1>6 DEF EndListener
  <2> QED BY <1>0, <1>c, <2>1, ListenerInv DEF remListener
<1> QED BY <1>1, <1>2, <1>3, <1>4, <1>5, <1>6

LEMMA DescriptorsStep == DescriptorsIInv /\ [DescriptorsNext]_descriptorVars => DescriptorsIInv'
<1> SUFFICES ASSUME DescriptorsIInv, [DescriptorsNext]_descriptorVars PROVE DescriptorsIInv'
  OBVIOUS
<1>1. CASE UNCHANGED descriptorVars
  BY <1>1 DEF descriptorVars, handleVars, serverVars, listenVars, commandVars, DescriptorsIInv, DescriptorsTypeOK,
     Placed, Handled, HandlesAreOwned, Owners, ClosedIsNotServed, ServersKnowSockets
<1>2. CASE DescriptorsNext
  BY <1>2, CallersInv, QuietStepsInv, SocketStepsInv, ListenerStepsInv DEF DescriptorsNext
<1> QED BY <1>1, <1>2

\* Handles, sockets, lists and threads keep to their types, so that no handle is
\* ever one that the system did not give.
THEOREM DescriptorTypes == DescriptorsSpec => []DescriptorsTypeOK
<1>1. DescriptorsIInv => DescriptorsTypeOK
  BY DEF DescriptorsIInv
<1> QED BY <1>1, DescriptorsStart, DescriptorsStep, PTL DEF DescriptorsSpec

\* No handle is lost and none is closed that is another's, whatever fails, for
\* any numbers of handles, sockets and callers.
THEOREM EveryHandleIsOwned == DescriptorsSpec => []HandlesAreOwned
<1>1. DescriptorsIInv => HandlesAreOwned
  BY DEF DescriptorsIInv
<1> QED BY <1>1, DescriptorsStart, DescriptorsStep, PTL DEF DescriptorsSpec

\* What a destructor writes to the handle it has closed reaches nobody who is
\* served: a socket that is given the handle meanwhile waits for the host thread.
THEOREM NoBytesOfOthers == DescriptorsSpec => []BytesStayOffServed
<1>1. DescriptorsIInv => BytesStayOffServed
  <2> SUFFICES ASSUME DescriptorsIInv, host = "streams" PROVE BytesStayOffServed
    BY DEF BytesStayOffServed
  <2>1. registered \subseteq listening
    BY DEF DescriptorsIInv, ServersKnowSockets
  <2> QED BY <2>1 DEF DescriptorsIInv, ClosedIsNotServed, BytesStayOffServed
<1> QED BY <1>1, DescriptorsStart, DescriptorsStep, PTL DEF DescriptorsSpec

\* The servers and the manager agree on the sockets, so that no server keeps the
\* address of a socket that was deleted.
THEOREM ServersAndManagerAgree == DescriptorsSpec => []ServersKnowSockets
<1>1. DescriptorsIInv => ServersKnowSockets
  BY DEF DescriptorsIInv
<1> QED BY <1>1, DescriptorsStart, DescriptorsStep, PTL DEF DescriptorsSpec

\* The three together: the handles that clients', browsers' and the manager's
\* sockets have are each one's own, and all who keep a socket's address agree.
THEOREM SocketsStayOwned == DescriptorsSpec => []SocketsAreOwned
<1>1. HandlesAreOwned /\ BytesStayOffServed /\ ServersKnowSockets => SocketsAreOwned
  BY DEF SocketsAreOwned
<1> QED BY <1>1, EveryHandleIsOwned, NoBytesOfOthers, ServersAndManagerAgree, PTL
=============================================================================
