--------------------------- MODULE PixelBuffers ---------------------------
(* A picture in memory (rfb/PixelBuffer.cxx): the rows of a FullFramePixel-   *)
(* Buffer lie Stride pixels apart, more than its width where rows are padded, *)
(* and pieces of it are filled, copied out, copied in, moved in place and     *)
(* drawn through a bit mask.  One element of memory is one pixel.             *)
EXTENDS Integers, Sequences, FiniteSets

CONSTANTS
    Wide, High, Stride,
    Inks,       \* pixels drawn with
    Masks,      \* masks for maskRect: sets of pixels of a Wide x High piece
    MaxOps      \* operations in a row

ASSUME PictureAssumption ==
    /\ Wide \in Nat /\ High \in Nat /\ Stride \in Nat /\ Wide <= Stride
    /\ MaxOps \in Nat
    /\ Masks \subseteq SUBSET ((0..Wide - 1) \X (0..High - 1))

VARIABLES
    data,       \* the memory
    drawn,      \* what should be seen, by point
    ops         \* operations so far

pictureVars == <<data, drawn, ops>>

Points == (0..Wide - 1) \X (0..High - 1)
rect(x1, y1, x2, y2) == [x1 |-> x1, y1 |-> y1, x2 |-> x2, y2 |-> y2]
Pieces == {r \in [x1 : 0..Wide, y1 : 0..High, x2 : 0..Wide, y2 : 0..High] :
            r.x1 < r.x2 /\ r.y1 < r.y2}
wide(r) == r.x2 - r.x1
tall(r) == r.y2 - r.y1
At(x, y) == x + y * Stride                  \* getPixelsRW

(* w pixels from src on to dest, as memmove and memcpy do.                    *)
MoveRow(d, dest, s, src, w) ==
    [a \in DOMAIN d |-> IF a \in dest..dest + w - 1 THEN s[src + a - dest] ELSE d[a]]

getRows(d, r, outStride) ==
    [a \in 0..outStride * tall(r) - 1 |->
       IF a % outStride < wide(r) THEN d[At(r.x1 + (a % outStride), r.y1 + a \div outStride)]
       ELSE CHOOSE ink \in Inks : TRUE]     \* not written

(* Row after row: the memory once k rows have been moved from another buffer, *)
(* or within it, each as the rows before have left it.                        *)
PutRows(d, to, s, from, w) ==
    LET put[k \in 0..Len(to)] ==
          IF k = 0 THEN d ELSE MoveRow(put[k - 1], to[k], s, from[k], w)
    IN  put

CopyRows(d, to, from, w) ==
    LET copied[k \in 0..Len(to)] ==
          IF k = 0 THEN d
          ELSE LET now == copied[k - 1] IN MoveRow(now, to[k], now, from[k], w)
    IN  copied

(* The rows of a piece: from the top, or from the bottom.                     *)
Downwards(r) == [k \in 1..tall(r) |-> r.y1 + k - 1]
Upwards(r) == [k \in 1..tall(r) |-> r.y2 - k]
Starts(x, rows) == [k \in DOMAIN rows |-> At(x, rows[k])]

fillRect(d, r, ink) ==
    PutRows(d, Starts(r.x1, Downwards(r)), [a \in 0..wide(r) - 1 |-> ink],
            [k \in 1..tall(r) |-> 0], wide(r))[tall(r)]

imageRect(d, r, image, srcStride) ==
    PutRows(d, Starts(r.x1, Downwards(r)), image,
            [k \in 1..tall(r) |-> (k - 1) * srcStride], wide(r))[tall(r)]

RowsCopied(d, r, dx, dy, rows) ==
    CopyRows(d, Starts(r.x1, rows), [k \in DOMAIN rows |-> At(r.x1 - dx, rows[k] - dy)],
             wide(r))[tall(r)]

(* A plausible slip: always from the top.                                     *)
CopyFromTop(d, r, dx, dy) == RowsCopied(d, r, dx, dy, Downwards(r))

(* From the top when moving up or along, from the bottom when down.           *)
copyRect(d, r, dx, dy) ==
    RowsCopied(d, r, dx, dy, IF dy <= 0 THEN Downwards(r) ELSE Upwards(r))

(* A mask is rows of bytes, the left pixel in the highest bit.                *)
MaskBit(bytes, cx) == 7 - (cx % 8) \in bytes[cx \div 8]
MaskRow(mask, y, w) ==
    [byte \in 0..(w + 7) \div 8 - 1 |-> {bit \in 0..7 : <<byte * 8 + 7 - bit, y>> \in mask}]

(* Pixels of r outside the buffer are clipped away; the image and the mask    *)
(* are those of all of r.                                                     *)
maskRect(d, r, image, mask) ==
    [a \in DOMAIN d |->
        LET x == (a % Stride) - r.x1
            y == a \div Stride - r.y1
        IN IF /\ a % Stride < Wide
              /\ x \in 0..wide(r) - 1 /\ y \in 0..tall(r) - 1
              /\ MaskBit(MaskRow(mask, y, wide(r)), x)
           THEN image[y * wide(r) + x] ELSE d[a]]
-----------------------------------------------------------------------------
In(p, r) == p[1] \in r.x1..r.x2 - 1 /\ p[2] \in r.y1..r.y2 - 1

PictureInit ==
    /\ drawn = [p \in Points |-> p]       \* all pixels different
    /\ data = [a \in 0..Stride * High - 1 |->
                 IF a % Stride < Wide THEN <<a % Stride, a \div Stride>> ELSE CHOOSE i \in Inks : TRUE]
    /\ ops = 0

Does(d, p) == ops < MaxOps /\ ops' = ops + 1 /\ data' = d /\ drawn' = p

Fill(r, ink) == Does(fillRect(data, r, ink), [p \in Points |-> IF In(p, r) THEN ink ELSE drawn[p]])

(* r filled from where it was (dx, dy) before, which lies inside too.         *)
Copy(r, dx, dy) ==
    /\ r.x1 - dx >= 0 /\ r.x2 - dx <= Wide /\ r.y1 - dy >= 0 /\ r.y2 - dy <= High
    /\ Does(copyRect(data, r, dx, dy),
            [p \in Points |-> IF In(p, r) THEN drawn[<<p[1] - dx, p[2] - dy>>] ELSE drawn[p]])

(* A piece is taken out into a buffer of its own and put in elsewhere (the    *)
(* comparison's old framebuffer, the encoders' tiles).                        *)
Blit(r, dx, dy, stride) ==
    LET to == rect(r.x1 + dx, r.y1 + dy, r.x2 + dx, r.y2 + dy)
    IN /\ to \in Pieces /\ stride >= wide(r)
       /\ Does(imageRect(data, to, getRows(data, r, stride), stride),
               [p \in Points |-> IF In(p, to) THEN drawn[<<p[1] - dx, p[2] - dy>>] ELSE drawn[p]])

(* A piece the size of the buffer drawn at (x, y) through a mask.             *)
Mask(x, y, mask, ink) ==
    LET r == rect(x, y, x + Wide, y + High)
    IN Does(maskRect(data, r, [a \in 0..Wide * High - 1 |-> ink], mask),
            [p \in Points |-> IF <<p[1] - x, p[2] - y>> \in mask THEN ink ELSE drawn[p]])

PictureNext ==
    \/ \E r \in Pieces, ink \in Inks : Fill(r, ink)
    \/ \E r \in Pieces, dx \in -Wide..Wide, dy \in -High..High : Copy(r, dx, dy)
    \/ \E r \in Pieces, dx \in -Wide..Wide, dy \in -High..High, s \in {Wide, Stride} :
          Blit(r, dx, dy, s)
    \/ \E x \in -Wide..Wide, y \in -High..High, mask \in Masks, ink \in Inks :
          Mask(x, y, mask, ink)

PictureSpec == PictureInit /\ [][PictureNext]_pictureVars
-----------------------------------------------------------------------------
(* The memory shows the drawn: an area moved onto itself is not read after  *)
(* it was overwritten, in whichever direction it moves, and no operation      *)
(* touches a pixel outside its area whatever the padding of the rows.         *)
MemoryIsPicture == \A p \in Points : data[At(p[1], p[2])] = drawn[p]
=============================================================================
