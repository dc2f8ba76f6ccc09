------------------------------ MODULE Encoders ------------------------------
(***************************************************************************)
(* The encoders of rectangles: Raw in slices, RRE, Hextile and ZRLE, with  *)
(* the choices each makes (background, fallback to raw, palette, runs) and *)
(* what is carried from tile to tile, and a decoder written from the       *)
(* protocol.  A pixel is a number, its bytes are only counted; a picture   *)
(* is a function from points to pixels.                                    *)
(***************************************************************************)
EXTENDS Integers, Sequences, FiniteSets, Folds, SequencesExt, FiniteSetsExt

CONSTANTS
  Pictures,     \* the pictures to send
  PixelBytes,   \* bytes of a pixel on the wire, the choices
  HexTile,      \* side of a Hextile tile, 16 in the code
  ZTile,        \* side of a ZRLE tile, 64 in the code
  MAX_SIZE,     \* colours of a palette at most, 127 in the code
  HashSize,     \* slots of the palette's hash, 4096 in the code
  LongRun,      \* the byte that continues a run length, 255 in the code
  BufferPixels  \* pixels that the buffer of the raw encoder may have room for

VARIABLES
  picture, bytes, encoding,
  at,        \* top left corner of the next tile, row of the next slice
  oldBg, oldFg,   \* what the next Hextile tile may leave out, or None
  sent,      \* what was written for the tiles so far
  actual     \* rows that were written, once the encoder has returned
encoderVars == <<picture, bytes, encoding, at, oldBg, oldFg, sent, actual>>

None == -1
Encodings == {"raw", "RRE", "hextile", "ZRLE"}

Across(pic) == 1 + Max({p[1] : p \in DOMAIN pic})
Down(pic)   == 1 + Max({p[2] : p \in DOMAIN pic})
Colours(pic) == {pic[p] : p \in DOMAIN pic}

\* The part of a picture of w by h pixels at the point o, as a picture.
Part(pic, o, w, h) ==
  [p \in (0 .. w - 1) \X (0 .. h - 1) |-> pic[<<o[1] + p[1], o[2] + p[2]>>]]
Smaller(a, b) == IF a < b THEN a ELSE b

\* The pixels of a picture in the order of the memory.
Scanned(pic) ==
  LET w == Across(pic)
  IN  [i \in 1 .. w * Down(pic) |-> pic[<<(i - 1) % w, (i - 1) \div w>>]]

-----------------------------------------------------------------------------
(* Subrectangles, the same in rreEncode and hextileEncodeTile: a rectangle  *)
(* is <<x, y, w, h>>.                                                       *)

Area(r) == (r[1] .. r[1] + r[3] - 1) \X (r[2] .. r[2] + r[4] - 1)
OneColour(pic, r) == \A p \in Area(r) : pic[p] = pic[<<r[1], r[2]>>]
MostOf(S, P(_)) == Max({n \in S : \A i \in 1 .. n : P(i)})

\* The rectangle that starts at a point: the whole run of the line as far
\* down as it goes, or the whole run down as far right as it goes.
SubrectAt(pic, x, y) ==
  LET down == 1 .. Down(pic) - y
      sw == MostOf(1 .. Across(pic) - x, LAMBDA n : OneColour(pic, <<x, y, n, 1>>))
      sh == MostOf(down, LAMBDA n : OneColour(pic, <<x, y, sw, n>>))
      vh == MostOf(down, LAMBDA n : OneColour(pic, <<x, y, 1, n>>))
      vw == MostOf(1 .. sw, LAMBDA n : OneColour(pic, <<x, y, n, vh>>))
  IN  IF vh # sh /\ sw * sh < vw * vh THEN <<x, y, vw, vh>> ELSE <<x, y, sw, sh>>

\* All of them in the order of the scan; what was found becomes background.
RECURSIVE Subrects(_, _)
Subrects(pic, bg) ==
  LET todo == {p \in DOMAIN pic : pic[p] # bg}
      y == Min({p[2] : p \in todo})
      x == Min({p[1] : p \in {q \in todo : q[2] = y}})
      r == SubrectAt(pic, x, y)
      rest == [p \in DOMAIN pic |-> IF p \in Area(r) THEN bg ELSE pic[p]]
  IN  IF todo = {} THEN <<>>
      ELSE <<[pixel |-> pic[<<x, y>>], at |-> r]>> \o Subrects(rest, bg)

-----------------------------------------------------------------------------
(* RRE: the picture is one tile. *)

\* The background: the colour with most pixels of the first four, counted up
\* to where a fifth one is met; of equals the one met first.
Background(pic) ==
  LET line == Scanned(pic)
      met(n) == {line[i] : i \in 1 .. n}
      upto == Max({n \in 1 .. Len(line) : Cardinality(met(n)) <= 4})
      count(c) == Cardinality({i \in 1 .. upto : line[i] = c})
      first(c) == Min({i \in 1 .. upto : line[i] = c})
  IN  CHOOSE c \in met(upto) : \A d \in met(upto) \ {c} :
        count(c) > count(d) \/ (count(c) = count(d) /\ first(c) < first(d))

\* "raw" when the subrectangles take more bytes than the picture has pixels.
rreEncode(pic) ==
  LET bg == Background(pic)
      subs == Subrects(pic, bg)
      length == bytes + Len(subs) * (bytes + 8)
  IN  IF subs # <<>> /\ length > Len(Scanned(pic)) THEN [kind |-> "raw", pixels |-> pic]
      ELSE [kind |-> "RRE", bg |-> bg, subs |-> subs]

-----------------------------------------------------------------------------
(* Hextile. *)

\* hextileTestTileType.  The second colour is compared with the first pixel of
\* the tile, not with the current one, so that a tile that is not of one
\* colour always counts as one of many; a foreground is never written.
TestTileType(pic) ==
  LET line == Scanned(pic)
      others == {i \in 1 .. Len(line) : line[i] # line[1]}
  IN  [any |-> others # {}, coloured |-> others # {},
       bg |-> line[1], fg |-> IF others = {} THEN 0 ELSE line[Min(others)]]

\* Mutant: what a raw tile says of the background of the next one is forgotten.
hextileKeepsBg(pic) ==
  LET type == TestTileType(pic)
      subs == Subrects(pic, type.bg)
      fgSpec == type.any /\ ~type.coloured /\ oldFg # type.fg
      length == 1 + Len(subs) * (2 + IF type.coloured THEN bytes ELSE 0)
      raw == length > bytes * Len(Scanned(pic))
  IN  [tile |-> IF type.any /\ raw THEN [kind |-> "raw", pixels |-> pic]
                ELSE [kind |-> "hextile",
                      bg |-> IF oldBg # type.bg THEN type.bg ELSE None,
                      fg |-> IF fgSpec THEN type.fg ELSE None,
                      coloured |-> type.coloured, subs |-> subs],
       bg |-> type.bg, fg |-> IF type.any THEN None ELSE oldFg]

\* One tile of hextileEncode, and what the next one may leave out.
hextileEncode(pic) ==
  LET type == TestTileType(pic)
      subs == Subrects(pic, type.bg)
      fgSpec == type.any /\ ~type.coloured /\ oldFg # type.fg
      length == 1 + Len(subs) * (2 + IF type.coloured THEN bytes ELSE 0)
      raw == type.any /\ length > bytes * Len(Scanned(pic))
  IN  [tile |-> IF raw THEN [kind |-> "raw", pixels |-> pic]
                ELSE [kind |-> "hextile",
                      bg |-> IF oldBg # type.bg THEN type.bg ELSE None,
                      fg |-> IF fgSpec THEN type.fg ELSE None,
                      coloured |-> type.coloured, subs |-> subs],
       bg |-> IF raw THEN None ELSE type.bg,
       fg |-> IF raw \/ type.coloured THEN None
              ELSE IF type.any THEN type.fg ELSE oldFg]

-----------------------------------------------------------------------------
(* ZRLE. *)

\* The runs of a sequence of pixels.
RECURSIVE Runs(_)
Runs(line) ==
  LET n == MostOf(1 .. Len(line), LAMBDA i : line[i] = line[1])
  IN  IF line = <<>> THEN <<>>
      ELSE <<[pixel |-> line[1], len |-> n]>> \o Runs(SubSeq(line, n + 1, Len(line)))

\* PaletteHelper: colours by index, and the slot that holds an index.
NoPalette == [palette |-> <<>>, index |-> [i \in {} |-> 0], size |-> 0]
Slot(ph, pix) ==
  CHOOSE i \in pix % HashSize .. HashSize + MAX_SIZE :
    LET ends(j) == j \notin DOMAIN ph.index \/ ph.palette[ph.index[j] + 1] = pix
    IN  ends(i) /\ \A j \in pix % HashSize .. i - 1 : ~ends(j)
insert(ph, pix) ==
  LET i == Slot(ph, pix)
  IN  IF ph.size >= MAX_SIZE THEN [ph EXCEPT !.size = @ + 1]
      ELSE IF i \in DOMAIN ph.index THEN ph
      ELSE [palette |-> Append(ph.palette, pix),
            index |-> [j \in DOMAIN ph.index \cup {i} |->
                         IF j = i THEN ph.size ELSE ph.index[j]],
            size |-> ph.size + 1]
lookup(ph, pix) == ph.index[Slot(ph, pix)]

bitsPerPackedPixel(size) ==
  IF size = 1 THEN 0 ELSE IF size = 2 THEN 1 ELSE IF size <= 4 THEN 2 ELSE 4

\* A run, with or without a palette: one or two pixels of a palette are just
\* repeated, the length of a longer one follows it.
RunLength(len) ==
  [i \in 1 .. (len - 1) \div LongRun |-> LongRun] \o <<(len - 1) % LongRun>>
RunBytes(ph, usePalette, run) ==
  LET i == lookup(ph, run.pixel)
  IN  IF ~usePalette THEN <<run.pixel>> \o RunLength(run.len)
      ELSE IF run.len <= 2 THEN [k \in 1 .. run.len |-> i]
      ELSE <<i + 128>> \o RunLength(run.len)

\* The indexes of a line packed into bytes, the last one filled up with zeros.
PackedLine(ph, line) ==
  LET bppp == bitsPerPackedPixel(ph.size)
      each == 8 \div bppp
      index(i) == IF i <= Len(line) THEN lookup(ph, line[i]) ELSE 0
      byte(k) == FoldFunction(LAMBDA i, b : b + i, 0,
                   [j \in 1 .. each |-> index((k - 1) * each + j) * 2^(8 - j * bppp)])
  IN  [k \in 1 .. (Len(line) + each - 1) \div each |-> byte(k)]
LineOf(pic, y) == [i \in 1 .. Across(pic) |-> pic[<<i - 1, y>>]]

\* What zrleEncodeTile estimates of the ways to encode a tile; the first of
\* the shortest is taken.
Ways(pic, ph, runs) ==
  LET pixels == Len(Scanned(pic))
      single == Cardinality({k \in DOMAIN runs : runs[k].len = 1})
      longer == Len(runs) - single
      way(rle, usePalette, cost) ==
        [rle |-> rle, usePalette |-> usePalette, cost |-> cost]
      raw == <<way(FALSE, FALSE, pixels * bytes)>>
      plain == <<way(TRUE, FALSE, (bytes + 1) * Len(runs))>>
      short == IF ph.size > MAX_SIZE THEN <<>>
               ELSE <<way(TRUE, TRUE, bytes * ph.size + 2 * longer + single)>>
      packed == IF ph.size > MAX_SIZE \/ ph.size >= 17 THEN <<>>
                ELSE <<way(FALSE, TRUE, bytes * ph.size
                         + (pixels * bitsPerPackedPixel(ph.size)) \div 8)>>
  IN  raw \o plain \o short \o packed
Cheapest(ways) ==
  ways[Min({i \in DOMAIN ways : \A j \in DOMAIN ways : ways[i].cost <= ways[j].cost})]

zrleEncodeTile(pic) ==
  LET runs == Runs(Scanned(pic))
      ph == FoldLeft(LAMBDA h, run : insert(h, run.pixel), NoPalette, runs)
      way == Cheapest(Ways(pic, ph, runs))
      palette == IF way.usePalette THEN ph.palette ELSE <<>>
      body == IF way.rle
              THEN FlattenSeq([k \in DOMAIN runs |-> RunBytes(ph, way.usePalette, runs[k])])
              ELSE IF way.usePalette
              THEN FlattenSeq([y \in 1 .. Down(pic) |-> PackedLine(ph, LineOf(pic, y - 1))])
              ELSE Scanned(pic)
  IN  IF ph.size = 1
      THEN [kind |-> "ZRLE", type |-> 1, palette |-> ph.palette, body |-> <<>>]
      ELSE [kind |-> "ZRLE", palette |-> palette, body |-> body,
            type |-> (IF way.rle THEN 128 ELSE 0) + Len(palette)]

-----------------------------------------------------------------------------
(* The decoder of the protocol: what a tile of w by h pixels shows, given   *)
(* the background and the foreground of the tile before it.                *)

\* Subrectangles drawn on a background, in their order.
Drawn(w, h, bg, subs, Ink(_)) ==
  FoldLeft(LAMBDA pic, s : [p \in DOMAIN pic |-> IF p \in Area(s.at) THEN Ink(s) ELSE pic[p]],
           [p \in (0 .. w - 1) \X (0 .. h - 1) |-> bg], subs)

\* Pixels of a run-length encoded body.
RECURSIVE Unrun(_, _)
Unrun(palette, body) ==
  LET more(k) == \A i \in 2 .. k - 1 : body[i] = LongRun
      last == CHOOSE k \in 2 .. Len(body) : more(k) /\ body[k] # LongRun
      len == 1 + FoldLeft(LAMBDA a, b : a + b, 0, SubSeq(body, 2, last))
      rest(k) == Unrun(palette, SubSeq(body, k + 1, Len(body)))
  IN  IF body = <<>> THEN <<>>
      ELSE IF palette = <<>> THEN [i \in 1 .. len |-> body[1]] \o rest(last)
      ELSE IF body[1] >= 128
      THEN [i \in 1 .. len |-> palette[body[1] - 127]] \o rest(last)
      ELSE <<palette[body[1] + 1]>> \o rest(1)

Unpacked(w, h, palette, body) ==
  LET bits == bitsPerPackedPixel(Len(palette))
      each == 8 \div bits
      perLine == (w + each - 1) \div each
      index(x, y) == (body[y * perLine + x \div each + 1]
                        \div 2^(8 - ((x % each) + 1) * bits)) % 2^bits
  IN  [p \in (0 .. w - 1) \X (0 .. h - 1) |-> palette[index(p[1], p[2]) + 1]]
Laid(w, h, line) ==
  [p \in (0 .. w - 1) \X (0 .. h - 1) |-> line[p[2] * w + p[1] + 1]]

DecodedZrle(w, h, tile) ==
  CASE tile.type = 1 -> Drawn(w, h, tile.palette[1], <<>>, LAMBDA s : 0)
    [] tile.type >= 128 -> Laid(w, h, Unrun(tile.palette, tile.body))
    [] tile.type = 0 -> Laid(w, h, tile.body)
    [] OTHER -> Unpacked(w, h, tile.palette, tile.body)

\* A tile and the colours that the next one inherits.
DecodedTile(w, h, before, tile) ==
  CASE tile.kind = "raw" -> [picture |-> tile.pixels, bg |-> None, fg |-> None]
    [] tile.kind = "RRE" ->
         [before EXCEPT !.picture = Drawn(w, h, tile.bg, tile.subs, LAMBDA s : s.pixel)]
    [] tile.kind = "ZRLE" -> [before EXCEPT !.picture = DecodedZrle(w, h, tile)]
    [] tile.kind = "hextile" ->
         LET bg == IF tile.bg = None THEN before.bg ELSE tile.bg
             fg == IF tile.fg = None THEN before.fg ELSE tile.fg
         IN  [picture |-> Drawn(w, h, bg, tile.subs,
                            LAMBDA s : IF tile.coloured THEN s.pixel ELSE fg),
              bg |-> bg, fg |-> IF tile.coloured THEN None ELSE fg]

\* What the client shows: the tiles with their places, in the order sent.
Shown ==
  LET step(acc, t) ==
        LET d == DecodedTile(Across(t.pixels), Down(t.pixels), acc, t.tile)
        IN  [d EXCEPT !.picture =
               [p \in DOMAIN acc.picture |->
                  LET q == <<p[1] - t.at[1], p[2] - t.at[2]>>
                  IN  IF q \in DOMAIN d.picture THEN d.picture[q] ELSE acc.picture[p]]]
  IN  FoldLeft(step, [picture |-> [p \in DOMAIN picture |-> None],
                      bg |-> None, fg |-> None], sent).picture

-----------------------------------------------------------------------------
EncodersInit ==
  /\ picture \in Pictures /\ bytes \in PixelBytes /\ encoding \in Encodings
  /\ at = <<0, 0>> /\ sent = <<>> /\ actual = None
  /\ oldBg = None /\ oldFg = None

Side == IF encoding = "hextile" THEN HexTile ELSE ZTile
TileAt(o, w, h) ==
  Part(picture, o, Smaller(w, Across(picture) - o[1]), Smaller(h, Down(picture) - o[2]))

\* The place after a tile, and the end when that was the last one.
Advance(w, h) ==
  LET right == <<at[1] + w, at[2]>>
      below == <<0, at[2] + h>>
      next == IF right[1] < Across(picture) THEN right ELSE below
  IN  /\ at' = next
      /\ actual' = IF next[2] < Down(picture) THEN None ELSE Down(picture)

Send(pixels, tile) ==
  sent' = Append(sent, [at |-> at, pixels |-> pixels, tile |-> tile])

\* RawEncoder::writeRect: as many whole lines at a time as fit into the
\* buffer, which has room for one line at least.
RawSlice ==
  /\ encoding = "raw" /\ actual = None
  /\ \E room \in BufferPixels :
       LET w == Across(picture)
           nRows == (IF room < w THEN w ELSE room) \div w
           slice == TileAt(at, w, nRows)
       IN  Send(slice, [kind |-> "raw", pixels |-> slice]) /\ Advance(w, nRows)
  /\ UNCHANGED <<picture, bytes, encoding, oldBg, oldFg>>

\* RREEncoder::writeRect, or the raw encoder when that is shorter.
RreRect ==
  /\ encoding = "RRE" /\ actual = None
  /\ Send(picture, rreEncode(picture)) /\ Advance(Across(picture), Down(picture))
  /\ UNCHANGED <<picture, bytes, encoding, oldBg, oldFg>>

\* The next tile of HextileEncoder::writeRect.
HextileTile ==
  /\ encoding = "hextile" /\ actual = None
  /\ LET pixels == TileAt(at, Side, Side)
         e == hextileEncode(pixels)
     IN  Send(pixels, e.tile) /\ oldBg' = e.bg /\ oldFg' = e.fg
  /\ Advance(Side, Side)
  /\ UNCHANGED <<picture, bytes, encoding>>

\* The next tile of ZRLEEncoder::writeRect.
ZrleTile ==
  /\ encoding = "ZRLE" /\ actual = None
  /\ LET pixels == TileAt(at, Side, Side) IN Send(pixels, zrleEncodeTile(pixels))
  /\ Advance(Side, Side)
  /\ UNCHANGED <<picture, bytes, encoding, oldBg, oldFg>>

\* A line of tiles may not fit any more, except the first: the rectangle ends
\* above it and the caller is told so.
ZrleFull ==
  /\ encoding = "ZRLE" /\ actual = None /\ at[1] = 0 /\ at[2] > 0
  /\ actual' = at[2]
  /\ UNCHANGED <<picture, bytes, encoding, at, oldBg, oldFg, sent>>

EncodersNext == RawSlice \/ RreRect \/ HextileTile \/ ZrleTile \/ ZrleFull
EncodersSpec == EncodersInit /\ [][EncodersNext]_encoderVars

-----------------------------------------------------------------------------
\* Every encoder is lossless: what a client decodes, tile by tile with what
\* one tile inherits from the one before, is the picture, in the part that
\* the encoder says it has written (and nothing else is touched).
DecodedIsPicture ==
  actual # None =>
    Shown = [p \in DOMAIN picture |-> IF p[2] < actual THEN picture[p] ELSE None]
=============================================================================
