----------------------------- MODULE MCPictures -----------------------------
(* Instances of the data types that carry a picture from the screen to a    *)
(* client, which share no state: regions, pixel buffers, the translation of *)
(* pixels and the encoders.  A behaviour is one of a single part, which the *)
(* first state chooses; the others stay in their first state, of which one  *)
(* is enough.                                                               *)
EXTENDS Regions, PixelBuffers, Colours, Encoders

VARIABLE part

picturePartVars == <<part, region, pictureVars, colourVars, encoderVars>>

\* No rectangle, rectangles of one or of all lines and columns of the window,
\* and regions of several bands.
TheArguments ==
  {<<b>> : b \in {b \in Rects : b.x2 - b.x1 # 2 /\ b.y2 - b.y1 # 2} \cup {noBox}} \cup
  {<<box(0, 0, 1, 1), box(2, 0, 3, 1), box(1, 1, 2, 2), box(0, 2, 1, 3), box(2, 2, 3, 3)>>,
   <<box(2, 0, 3, 3), box(0, 0, 1, 3)>>,
   <<box(0, 0, 3, 1), box(0, 2, 3, 3)>>,
   <<box(1, 0, 2, 3), box(0, 1, 3, 2)>>,
   <<box(0, 0, 3, 1), box(0, 1, 1, 2), box(2, 1, 3, 2), box(0, 2, 3, 3)>>,
   <<box(2, 2, 3, 3), box(0, 0, 2, 2)>>,
   <<box(0, 2, 1, 3), box(0, 1, 2, 2), box(0, 0, 3, 1)>>}

TheMasks == {{<<0, 0>>, <<1, 1>>}, {<<2, 0>>, <<0, 2>>, <<1, 0>>}}

\* A palette of 256 colours, and true colours of 16, 32 and 8 bits, in either
\* byte order and either order of the channels.
TrueColour(bpp, depth, bigEndian, max, shift) ==
  [bpp |-> bpp, depth |-> depth, bigEndian |-> bigEndian, trueColour |-> TRUE,
   max |-> max, shift |-> shift]
ColourMapped ==
  [bpp |-> 8, depth |-> 8, bigEndian |-> FALSE, trueColour |-> FALSE,
   max |-> <<0, 0, 0>>, shift |-> <<0, 0, 0>>]
RGB565 == TrueColour(16, 16, FALSE, <<31, 63, 31>>, <<11, 5, 0>>)
TheDisplays ==
  {[bits |-> b, masks |-> <<>>] : b \in {4, 8, 16, 24, 32}} \cup
  {[bits |-> 16, masks |-> <<63488, 2016, 31>>]}
TheClientFormats ==
  {ColourMapped, [ColourMapped EXCEPT !.bpp = 16], RGB565,
   TrueColour(16, 15, TRUE, <<31, 31, 31>>, <<0, 5, 10>>),
   TrueColour(32, 24, TRUE, <<255, 255, 255>>, <<16, 8, 0>>),
   TrueColour(8, 8, FALSE, <<7, 7, 3>>, <<0, 3, 6>>)}
ThePalettes ==
  {[i \in Indexes |-> <<i, 255 - i, (i * 71) % 256>>], Null}
TheLevels == {<<0, 0, 0>>, <<16, 16, 16>>, <<1, 8, 15>>, <<15, 1, 8>>}

\* Pictures given by their pixels from left to right and top to bottom: small
\* ones in all contents of two or three colours, and some with runs, with more
\* colours than a palette holds and with single pixels on a ground.
Lines(w, h, f) == [p \in (0 .. w - 1) \X (0 .. h - 1) |-> f[p[2] * w + p[1] + 1]]
ThePictures ==
  [(0 .. 2) \X (0 .. 1) -> {3, 7}] \cup [(0 .. 1) \X (0 .. 1) -> {3, 4, 5}] \cup [(0 .. 1) \X (0 .. 2) -> {3, 5}]
    \cup {Lines(5, 4, [i \in 1 .. 20 |-> (i \div d) % m]) : d \in 1 .. 5, m \in 2 .. 7}
    \cup {Lines(4, 4, [i \in 1 .. 16 |-> ((i * i) \div d) % m]) : d \in 1 .. 3, m \in 2 .. 7}
    \cup {Lines(4, 4, [i \in 1 .. 16 |-> i % m]) : m \in {5, 6}}
    \cup {Lines(6, 2, [i \in 1 .. 12 |-> IF i \in s THEN 9 ELSE IF i % 2 = 1 THEN 8 ELSE 11]) :
            s \in {{1}, {2, 5}, {3, 4, 5}, {1, 12}}}

\* Where another part runs, what a part chooses at first is one of its choices.
First(p, Choice) == part = p \/ Choice
OneFirst ==
  /\ First("colours", pb = (CHOOSE b \in Buffers : TRUE) /\ value = (CHOOSE v \in Pixels(pb) : TRUE)
                        /\ economic = TRUE)
  /\ First("encoders", picture = (CHOOSE p \in Pictures : TRUE) /\ bytes = 1 /\ encoding = "raw")

PicturesInit ==
  /\ part \in {"regions", "buffers", "colours", "encoders"}
  /\ OneFirst
  /\ RegionsInit /\ PictureInit /\ ColoursInit /\ EncodersInit

RegionsTurn == part = "regions" /\ RegionsNext /\ UNCHANGED <<part, pictureVars, colourVars, encoderVars>>
BuffersTurn == part = "buffers" /\ PictureNext /\ UNCHANGED <<part, region, colourVars, encoderVars>>
ColoursTurn == part = "colours" /\ ColoursNext /\ UNCHANGED <<part, region, pictureVars, encoderVars>>
EncodersTurn == part = "encoders" /\ EncodersNext /\ UNCHANGED <<part, region, pictureVars, colourVars>>

PicturesNext == RegionsTurn \/ BuffersTurn \/ ColoursTurn \/ EncodersTurn

PicturesSpec == PicturesInit /\ [][PicturesNext]_picturePartVars

\* Regions are as Region.c promises and answer for their pixels, and the boxes of
\* a copy are in an order in which none reads what another has written; elsewhere
\* the region is the empty one.
RegionsAgree == part = "regions" => YXBanded /\ QueriesAgree /\ CopiesReadOld
=============================================================================
