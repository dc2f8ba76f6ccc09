------------------------------ MODULE Colours ------------------------------
(* How the colour of a pixel gets from the server's screen to the client's:   *)
(* the format and the palette of the frame buffer that is made for a display  *)
(* (rfb_wince/DeviceContext.cxx, DIBSectionBuffer.cxx, DeviceFrameBuffer.cxx),*)
(* the pixel formats (rfb/PixelFormat.cxx), the translation tables of a       *)
(* client's TransImageGetter (rfb/TransImageGetter.cxx, transInitTempl.h,     *)
(* transTempl.h, ColourCube.h) and the places of VNCSConnectionST where they  *)
(* are made anew.  The screen is one pixel.  A pixel in memory or on the wire *)
(* is a sequence of bytes; the machine is little-endian.                      *)
EXTENDS Integers, Sequences, SequencesExt

CONSTANTS
    Displays,       \* [bits, masks]: bits of a pixel, and <<>> for the usual masks
    ClientFormats,  \* formats a client asks for
    Palettes,       \* of the display: bytes for the colours of the Indexes, or Null
    Indexes,        \* the pixels of a palette screen that are looked at
    Levels,         \* the pixels of a true colour screen: 16ths of each maximum
    Null

VARIABLES
    pb,         \* the pixel buffer: [pf, palette]
    value,      \* its pixel
    clientPF,   \* cp.pf()
    getter,     \* image_getter: [transFn, table, cube], the table by its makings
    economic,   \* useEconomicTranslate
    ready,      \* readyForSetColourMapEntries
    told,       \* the colour map the client was sent
    shown,      \* what the client's screen holds: [bytes, pf]
    dirty,      \* the pixel is in updates
    requested   \* the client waits for an update

colourVars == <<pb, value, clientPF, getter, economic, ready, told, shown, dirty, requested>>

Channels == 1..3    \* red, green, blue

ByteLength(pf) == pf.bpp \div 8

(* The bytes of n from the least one on.                                      *)
Bytes(n, k) == [i \in 1..k |-> (n \div 256^(i - 1)) % 256]

RECURSIVE Number(_)
Number(b) == IF b = <<>> THEN 0 ELSE b[1] + 256 * Number(Tail(b))

channel(p, pf, c) == (p \div 2^pf.shift[c]) % (pf.max[c] + 1)

(* n of 0..inMax to the nearest of 0..outMax.                                 *)
scale(n, inMax, outMax) == (n * outMax + inMax \div 2) \div inMax

rgbFromPixel(p, pf, palette) ==     \* TrueColourMap::lookup too
    IF pf.trueColour THEN [c \in Channels |-> scale(channel(p, pf, c), pf.max[c], 65535)]
    ELSE palette[p]

pack(f, pf) == f[1] * 2^pf.shift[1] + f[2] * 2^pf.shift[2] + f[3] * 2^pf.shift[3]

pixelFromRGB(rgb, pf) == pack([c \in Channels |-> scale(rgb[c], 65535, pf.max[c])], pf)

equal(p, q) ==
    /\ p.bpp = q.bpp /\ p.depth = q.depth
    /\ p.bigEndian = q.bigEndian \/ p.bpp = 8
    /\ p.trueColour = q.trueColour
    /\ p.trueColour => p.max = q.max /\ p.shift = q.shift
-----------------------------------------------------------------------------
(* The frame buffer of a display.                                             *)

Format(bpp, depth, trueColour, max, shift) ==
    [bpp |-> bpp, depth |-> depth, bigEndian |-> FALSE, trueColour |-> trueColour,
     max |-> max, shift |-> shift]

(* initMaxAndShift(): the lowest bit of a mask, and the mask moved there.     *)
lowestBit(mask) == CHOOSE s \in 0..24 : mask % 2^(s + 1) = 2^s
maxOf(mask) == (mask \div 2^lowestBit(mask)) % 65536

highestBit(mask) == CHOOSE s \in 0..24 : mask \div 2^s = 1
LargerOf(a, b) == IF a > b THEN a ELSE b
depthOf(masks) == 1 + FoldLeft(LargerOf, 0, [c \in Channels |-> highestBit(masks[c])])

trueColourFormat(bpp, masks) ==
    Format(bpp, depthOf(masks), TRUE, [c \in Channels |-> maxOf(masks[c])],
           [c \in Channels |-> lowestBit(masks[c])])

(* Windows tells the masks of a display; on Windows CE they are the usual     *)
(* ones: 5 bits of each colour in 16, and 8 in more.                          *)
masksOf(d) ==
    IF d.masks # <<>> THEN d.masks
    ELSE IF d.bits = 16 THEN <<31744, 992, 31>> ELSE <<16711680, 65280, 255>>

(* More than 8 bits are taken for 16 or 32, and less for a palette of 8.      *)
getPF(d) ==
    IF d.bits > 8
    THEN trueColourFormat(IF LargerOf(d.bits, depthOf(masksOf(d))) <= 16 THEN 16 ELSE 32,
                          masksOf(d))
    ELSE Format(8, d.bits, FALSE, <<0, 0, 0>>, <<0, 0, 0>>)

(* recreateBuffer(): the format that the bitmap has that was made for it.     *)
recreated(pf) ==
    IF pf.trueColour
    THEN trueColourFormat(pf.bpp, [c \in Channels |-> pf.max[c] * 2^pf.shift[c]])
    ELSE [pf EXCEPT !.depth = pf.bpp]

(* The 16 colours of a display that has no palette.                           *)
standardColour(i) ==
    LET v == IF i % 16 >= 8 THEN 127 ELSE 255
    IN [c \in Channels |-> IF (i \div 2^(c - 1)) % 2 = 1 THEN v ELSE 0]

systemPalette(p) == IF p = Null THEN [i \in Indexes |-> standardColour(i)] ELSE p

copyDevicePaletteToDIB(p) ==
    [i \in Indexes |-> [c \in Channels |-> systemPalette(p)[i][c] * 256 + 128]]

updateColourMap(pf, p) ==
    IF pf.trueColour THEN [i \in Indexes |-> <<0, 0, 0>>] ELSE copyDevicePaletteToDIB(p)

(* DeviceFrameBuffer::DeviceFrameBuffer.                                      *)
frameBuffer(d, p) ==
    LET pf == recreated(getPF(d)) IN [pf |-> pf, palette |-> updateColourMap(pf, p)]
-----------------------------------------------------------------------------
(* The colour cube handed to clients that want a colour map.                  *)
side == 6
cubeSize == side * side * side
cubeLookup(f) == (f[1] * side + f[2]) * side + f[3]
cubeColour(i) == [c \in Channels |->
    scale((IF c = 3 THEN i ELSE IF c = 2 THEN i \div side ELSE i \div side^2) % side,
          side - 1, 65535)]

(* A plausible slip: the table's pixels stay in the machine's byte order.     *)
NativeBytes(n, pf) == Bytes(n, ByteLength(pf))

(* A pixel of the client's format as a table holds it.                        *)
Stored(n, pf) ==
    IF pf.bigEndian /\ pf.bpp # 8 THEN Reverse(Bytes(n, ByteLength(pf)))
    ELSE Bytes(n, ByteLength(pf))

(* The tables, by the entry for the pixel p; t is what the table was made of. *)
initSimpleCMtoTC(t, p)   == Stored(pixelFromRGB(t.palette[p], t.outPF), t.outPF)
initSimpleTCtoTC(t, p)   ==
    Stored(pack([c \in Channels |->
             scale(channel(p, t.inPF, c), t.inPF.max[c], t.outPF.max[c])], t.outPF), t.outPF)
initSimpleTCtoCube(t, p) ==
    <<cubeLookup([c \in Channels |-> scale(channel(p, t.inPF, c), t.inPF.max[c], side - 1)])>>

(* Three tables, one for each channel, whose entries are added: byte by byte, *)
(* as the channels of a format do not overlap.                                *)
initOneRGBTable(t, c, n) ==
    Stored(scale(n, t.inPF.max[c], t.outPF.max[c]) * 2^t.outPF.shift[c], t.outPF)
initOneRGBCubeTable(t, c, n) ==
    scale(n, t.inPF.max[c], side - 1) * side^(3 - c)

transSimple(t, p) ==
    CASE t.fill = "CMtoTC"   -> initSimpleCMtoTC(t, p)
      [] t.fill = "TCtoTC"   -> initSimpleTCtoTC(t, p)
      [] t.fill = "TCtoCube" -> initSimpleTCtoCube(t, p)

(* The channels are cut out of the pixel with the format of the buffer now.   *)
transRGB(t, p, inPF) ==
    LET e(c) == initOneRGBTable(t, c, channel(p, inPF, c))
        r == e(1)  g == e(2)  b == e(3)
    IN [k \in DOMAIN r |-> (r[k] + g[k] + b[k]) % 256]

transRGBCube(t, p, inPF) ==
    LET e(c) == initOneRGBCubeTable(t, c, channel(p, inPF, c))
    IN <<(e(1) + e(2) + e(3)) % 256>>

getImage(g, inPF, p) ==
    CASE g.transFn = "noTrans"      -> Bytes(p, ByteLength(inPF))
      [] g.transFn = "transSimple"  -> transSimple(g.table, p)
      [] g.transFn = "transRGB"     -> transRGB(g.table, p, inPF)
      [] g.transFn = "transRGBCube" -> transRGBCube(g.table, p, inPF)

Getter(fn, table) == [transFn |-> fn, table |-> table]
Table(fill, inPF, palette, outPF) ==
    [fill |-> fill, inPF |-> inPF, palette |-> palette, outPF |-> outPF]

(* init(): which function and which tables.  No cube is ever passed in.       *)
Untranslated(inPF, outPF) ==
    IF outPF.trueColour THEN equal(inPF, outPF) ELSE ~inPF.trueColour

(* A format it does not know is thrown, which closes the connection.          *)
Known(outPF) == outPF.bpp \in {8, 16, 32} /\ (outPF.trueColour \/ outPF.bpp = 8)

init(g, b, outPF) ==
    LET inPF  == b.pf
        byRGB == inPF.bpp > 16 \/ (economic /\ inPF.bpp = 16)
        fill  == IF ~outPF.trueColour THEN "TCtoCube"
                 ELSE IF inPF.trueColour THEN "TCtoTC" ELSE "CMtoTC"
        t     == Table(fill, inPF, b.palette, outPF)
    IN IF ~Known(outPF) THEN Getter("none", g.table)
       ELSE IF Untranslated(inPF, outPF) THEN Getter("noTrans", g.table)
       ELSE IF fill = "CMtoTC" \/ ~byRGB THEN Getter("transSimple", t)
       ELSE Getter(IF outPF.trueColour THEN "transRGB" ELSE "transRGBCube", t)

(* What init() writes when it has a writer: all 256 entries of the screen's   *)
(* palette, or the 216 of the cube.                                           *)
MapSent(b, outPF) ==
    IF outPF.trueColour \/ ~Known(outPF) THEN told
    ELSE IF b.pf.trueColour THEN [kind |-> "cube"]
    ELSE [kind |-> "palette", colours |-> b.palette]
-----------------------------------------------------------------------------
PixelOf(level, pf) == pack([c \in Channels |-> (level[c] * pf.max[c]) \div 16], pf)
Pixels(b) == IF b.pf.trueColour THEN {PixelOf(l, b.pf) : l \in Levels} ELSE Indexes

Buffers == {frameBuffer(d, p) : d \in Displays, p \in Palettes}

(* authSuccess(): the client's format is the server's, and no map is written. *)
ColoursInit ==
    /\ pb \in Buffers /\ value \in Pixels(pb)
    /\ economic \in BOOLEAN
    /\ clientPF = pb.pf
    /\ getter = init(Getter(Null, Null), pb, pb.pf)
    /\ ready = FALSE /\ told = Null /\ shown = Null
    /\ dirty = TRUE /\ requested = FALSE

(* The screen changes under the server.                                       *)
Draw ==
    /\ value' \in Pixels(pb) /\ dirty' = TRUE
    /\ UNCHANGED <<pb, clientPF, getter, economic, ready, told, shown, requested>>

(* The connection has not been closed.                                        *)
Open == getter.transFn # "none"

(* A client that asks for another format throws away what it shows.           *)
setPixelFormat(pf) ==
    /\ Open /\ clientPF' = pf /\ ready' = TRUE
    /\ getter' = init(getter, pb, pf) /\ told' = MapSent(pb, pf)
    /\ shown' = Null
    /\ UNCHANGED <<pb, value, economic, dirty, requested>>

(* setColourMapEntries() of the getter.                                       *)
mapEntriesSet ==
    IF clientPF.trueColour
    THEN getter' = [getter EXCEPT !.table = Table("CMtoTC", pb.pf, pb.palette, clientPF)]
         /\ UNCHANGED told
    ELSE told' = [kind |-> "palette", colours |-> pb.palette] /\ UNCHANGED getter

(* setColourMapEntries() of the connection, whose pixels have all changed then *)
(* if its client has no map.                                                  *)
setColourMapEntries(readyNow) ==
    IF ~readyNow \/ pb.pf.trueColour THEN UNCHANGED <<getter, told>> ELSE mapEntriesSet
Recoloured(readyNow) == readyNow /\ ~pb.pf.trueColour /\ clientPF.trueColour

(* What has changed and is asked for is sent, from buffer b with pixel v.     *)
writeFramebufferUpdate(b, v, g, changed, asked) ==
    IF changed /\ asked
    THEN /\ shown' = [bytes |-> getImage(g, b.pf, v), pf |-> clientPF]
         /\ dirty' = FALSE /\ requested' = FALSE
    ELSE dirty' = changed /\ requested' = asked /\ UNCHANGED shown

(* A plausible slip: the map is only written if the client asked for a format.*)
RequestWithoutMap(incremental) ==
    /\ Open /\ (shown = Null => ~incremental) /\ ready' = TRUE
    /\ UNCHANGED <<getter, told, pb, value, clientPF, economic>>
    /\ writeFramebufferUpdate(pb, value, getter, dirty \/ ~incremental, TRUE)

(* The first request brings a client that has a map its entries, by           *)
(* setInitialColourMap().                                                     *)
framebufferUpdateRequest(incremental) ==
    /\ Open /\ (shown = Null => ~incremental) /\ ready' = TRUE
    /\ LET first == ~ready /\ ~clientPF.trueColour
       IN /\ IF first THEN setColourMapEntries(TRUE) ELSE UNCHANGED <<getter, told>>
          /\ writeFramebufferUpdate(pb, value, getter',
                 dirty \/ ~incremental \/ (first /\ Recoloured(TRUE)), TRUE)
    /\ UNCHANGED <<pb, value, clientPF, economic>>

tryUpdate ==
    /\ Open /\ requested /\ dirty
    /\ writeFramebufferUpdate(pb, value, getter, dirty, requested)
    /\ UNCHANGED <<pb, value, clientPF, getter, economic, ready, told>>

(* A new size is a reason to write an update at once.                         *)
pixelBufferChange(b) ==
    /\ Open /\ pb' = b /\ value' \in Pixels(b)
    /\ getter' = init(getter, b, clientPF) /\ told' = MapSent(b, clientPF)
    /\ \/ dirty' = TRUE /\ UNCHANGED <<shown, requested>>
       \/ writeFramebufferUpdate(b, value', getter', TRUE, requested)
    /\ UNCHANGED <<clientPF, economic, ready>>

ColoursNext ==
    \/ Draw
    \/ \E pf \in ClientFormats : setPixelFormat(pf)
    \/ \E incremental \in BOOLEAN : framebufferUpdateRequest(incremental)
    \/ tryUpdate
    \/ \E b \in Buffers : pixelBufferChange(b)

ColoursSpec == ColoursInit /\ [][ColoursNext]_colourVars
-----------------------------------------------------------------------------
(* What the client makes of a pixel.                                          *)
Read(b, pf) == Number(IF pf.bigEndian THEN Reverse(b) ELSE b)

Displayed(s) ==
    LET p == Read(s.bytes, s.pf)
    IN IF s.pf.trueColour THEN rgbFromPixel(p, s.pf, Null)
       ELSE IF told.kind = "cube" THEN cubeColour(p) ELSE told.colours[p]

(* Half a step of the client's format, and two for rounding twice.            *)
Tolerance(pf, c) ==
    LET steps == IF pf.trueColour THEN pf.max[c] ELSE IF pb.pf.trueColour THEN side - 1 ELSE 65535
    IN 2 + 65535 \div (2 * steps)

(* A screen that has been sent shows, to a client with any format and after   *)
(* any sequence of format, palette and buffer changes, the colours nearest to *)
(* the server's that the client's format has: the tables, the byte order and  *)
(* the colour map always belong to the pixels they are used for.              *)
ColoursShown ==
    shown # Null /\ ~dirty =>
        /\ ~shown.pf.trueColour => told # Null
        /\ \A c \in Channels :
              LET d == Displayed(shown)[c] - rgbFromPixel(value, pb.pf, pb.palette)[c]
              IN d <= Tolerance(shown.pf, c) /\ -d <= Tolerance(shown.pf, c)
=============================================================================
