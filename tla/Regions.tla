------------------------------ MODULE Regions ------------------------------
(* The regions of the update code: rfb/Region.cxx over Xregion/Region.c.  A   *)
(* region is an array of boxes in y-x-banded order and the extents of them    *)
(* all; every operation walks the bands of its operands and appends bands to  *)
(* the result, joining a band to the one above where they line up.  Sizes of  *)
(* the arrays and failed allocations are left out.                            *)
EXTENDS Integers, Sequences, SequencesExt

CONSTANTS
    Width, Height,  \* the window regions stay in
    Arguments       \* what the arguments are made of: sequences of rectangles

VARIABLE region     \* the receiver: [rects, extents]

box(x1, y1, x2, y2) == [x1 |-> x1, y1 |-> y1, x2 |-> x2, y2 |-> y2]
low(a, b)  == IF a < b THEN a ELSE b
high(a, b) == IF a < b THEN b ELSE a

noBox == box(0, 0, 0, 0)
XCreateRegion == [rects |-> <<>>, extents |-> noBox]
numRects(r) == Len(r.rects)

Rects == {b \in [x1 : 0..Width, y1 : 0..Height, x2 : 0..Width, y2 : 0..Height] :
            b.x1 < b.x2 /\ b.y1 < b.y2}

XOffset(b, dx, dy) == box(b.x1 + dx, b.y1 + dy, b.x2 + dx, b.y2 + dy)

XOffsetRegion(r, dx, dy) ==
    [rects   |-> [k \in DOMAIN r.rects |-> XOffset(r.rects[k], dx, dy)],
     extents |-> XOffset(r.extents, dx, dy)]

(* The rectangle inside a temporary region; an empty one has no boxes but     *)
(* keeps its corners as extents.                                              *)
is_empty(b) == b.x1 >= b.x2 \/ b.y1 >= b.y2
RectRegion(b) == [rects |-> IF is_empty(b) THEN <<>> ELSE <<b>>, extents |-> b]

reset(b) == IF is_empty(b) THEN XCreateRegion ELSE RectRegion(b)

EXTENTCHECK(a, b) == a.x2 > b.x1 /\ a.x1 < b.x2 /\ a.y2 > b.y1 /\ a.y1 < b.y2
Subsumes(a, b) == a.x1 <= b.x1 /\ a.y1 <= b.y1 /\ a.x2 >= b.x2 /\ a.y2 >= b.y2

RECURSIVE Leftmost(_), Rightmost(_)
Leftmost(rects)  == IF Len(rects) = 1 THEN rects[1].x1
                    ELSE low(rects[1].x1, Leftmost(Tail(rects)))
Rightmost(rects) == IF Len(rects) = 1 THEN rects[1].x2
                    ELSE high(rects[1].x2, Rightmost(Tail(rects)))

(* The first box has the least y1 and the last one the greatest y2.           *)
miSetExtents(rects) ==
    [rects   |-> rects,
     extents |-> IF rects = <<>> THEN noBox
                 ELSE box(Leftmost(rects), Head(rects).y1,
                          Rightmost(rects), Last(rects).y2)]
-----------------------------------------------------------------------------
(* Bands.                                                                     *)

(* The index after the last box of the band that starts at i.                 *)
RECURSIVE BandEnd(_, _)
BandEnd(rects, i) ==
    IF i < Len(rects) /\ rects[i + 1].y1 = rects[i].y1 THEN BandEnd(rects, i + 1)
    ELSE i + 1

RECURSIVE LastBand(_, _)
LastBand(rects, i) ==
    IF i > 1 /\ rects[i - 1].y1 = rects[i].y1 THEN LastBand(rects, i - 1) ELSE i

LinesUp(rects, p, c, n) ==
    \A k \in 0..n - 1 : rects[p + k].x1 = rects[c + k].x1
                     /\ rects[p + k].x2 = rects[c + k].x2

(* The band at cur is joined to the band at prev when they touch and have the *)
(* same boxes; the answer also says where the next previous band begins.      *)
miCoalesce(rects, prev, cur) ==
    LET next  == BandEnd(rects, cur)
        n     == next - cur
        start == IF next > Len(rects) THEN cur ELSE LastBand(rects, Len(rects))
        grown == [k \in 1..n |-> [rects[prev + k - 1] EXCEPT !.y2 = rects[cur].y2]]
    IN IF n = cur - prev /\ rects[prev].y2 = rects[cur].y1 /\ LinesUp(rects, prev, cur, n)
       THEN [rects |-> SubSeq(rects, 1, prev - 1) \o grown
                         \o SubSeq(rects, next, Len(rects)),
             start |-> IF next > Len(rects) THEN prev ELSE start]
       ELSE [rects |-> rects, start |-> start]

(* Coalescing is tried when a band was added from cur on.                     *)
Coalesced(rects, prev, cur) ==
    IF Len(rects) < cur THEN [rects |-> rects, start |-> prev]
    ELSE miCoalesce(rects, prev, cur)

-----------------------------------------------------------------------------
(* What is done with a band: b1 and b2 are the boxes of the two regions in    *)
(* it, y1 and y2 its top and bottom.                                          *)

RECURSIVE Clipped(_, _, _, _)
Clipped(rects, b, y1, y2) ==    \* miUnionNonO, miSubtractNonO1
    IF b = <<>> THEN rects
    ELSE Clipped(Append(rects, box(b[1].x1, y1, b[1].x2, y2)), Tail(b), y1, y2)

MERGERECT(rects, r, y1, y2) ==
    LET n == Len(rects)
    IN IF n # 0 /\ rects[n].y1 = y1 /\ rects[n].y2 = y2 /\ rects[n].x2 >= r.x1
       THEN [rects EXCEPT ![n].x2 = high(@, r.x2)]
       ELSE Append(rects, box(r.x1, y1, r.x2, y2))

RECURSIVE miUnionO(_, _, _, _, _)
miUnionO(rects, b1, b2, y1, y2) ==
    IF b1 = <<>> /\ b2 = <<>> THEN rects
    ELSE IF b2 = <<>> \/ (b1 # <<>> /\ b1[1].x1 < b2[1].x1)
    THEN miUnionO(MERGERECT(rects, b1[1], y1, y2), Tail(b1), b2, y1, y2)
    ELSE miUnionO(MERGERECT(rects, b2[1], y1, y2), b1, Tail(b2), y1, y2)

RECURSIVE miIntersectO(_, _, _, _, _)
miIntersectO(rects, b1, b2, y1, y2) ==
    IF b1 = <<>> \/ b2 = <<>> THEN rects
    ELSE LET x1 == high(b1[1].x1, b2[1].x1)
             x2 == low(b1[1].x2, b2[1].x2)
         IN miIntersectO(IF x1 < x2 THEN Append(rects, box(x1, y1, x2, y2)) ELSE rects,
                         IF b1[1].x2 = x2 THEN Tail(b1) ELSE b1,
                         IF b2[1].x2 = x2 THEN Tail(b2) ELSE b2, y1, y2)

(* x1 is the left-most point of the first box of b1 not looked at yet.        *)
RECURSIVE Subtract(_, _, _, _, _, _)
Subtract(rects, x1, b1, b2, y1, y2) ==
    LET r1 == b1[1]
        r2 == b2[1]
        nextMinuend(added) ==
            Subtract(added, IF Len(b1) > 1 THEN b1[2].x1 ELSE x1, Tail(b1), b2, y1, y2)
        passed(added) ==        \* the subtrahend reaches from x1 to its own end
            IF r2.x2 >= r1.x2 THEN nextMinuend(added)
            ELSE Subtract(added, r2.x2, b1, Tail(b2), y1, y2)
        upto(x2) == Append(rects, box(x1, y1, x2, y2))
    IN IF b1 = <<>> THEN rects
       ELSE IF b2 = <<>> THEN nextMinuend(upto(r1.x2))
       ELSE IF r2.x2 <= x1 THEN Subtract(rects, x1, b1, Tail(b2), y1, y2)
       ELSE IF r2.x1 <= x1 THEN passed(rects)
       ELSE IF r2.x1 < r1.x2 THEN passed(upto(r2.x1))
       ELSE nextMinuend(IF r1.x2 > x1 THEN upto(r1.x2) ELSE rects)

miSubtractO(rects, b1, b2, y1, y2) == Subtract(rects, b1[1].x1, b1, b2, y1, y2)

(* The three functions an operation hands to miRegionOp; a region whose       *)
(* function is NULL adds nothing where it is alone.                           *)
Overlap(op, rects, b1, b2, y1, y2) ==
    CASE op = "union"     -> miUnionO(rects, b1, b2, y1, y2)
      [] op = "intersect" -> miIntersectO(rects, b1, b2, y1, y2)
      [] op = "subtract"  -> miSubtractO(rects, b1, b2, y1, y2)

Alone(side, op, rects, b, y1, y2) ==
    IF op = "union" \/ (op = "subtract" /\ side = 1) THEN Clipped(rects, b, y1, y2)
    ELSE rects
-----------------------------------------------------------------------------
(* The sweep over both regions, one source band at a time.  r1 and r2 are     *)
(* the boxes left; ybot is the bottom of the last band both had, ytop the top *)
(* of the next.                                                               *)
TopBand(r)   == SubSeq(r, 1, BandEnd(r, 1) - 1)
BelowBand(r) == SubSeq(r, BandEnd(r, 1), Len(r))

RECURSIVE Rest(_, _, _, _, _)
Rest(side, op, rects, r, ybot) ==
    IF r = <<>> THEN rects
    ELSE Rest(side, op, Alone(side, op, rects, TopBand(r), high(r[1].y1, ybot), r[1].y2),
              BelowBand(r), ybot)

(* The part of the upper band that lies above the other one.                  *)
Above(side, op, rects, r, s, ybot) ==
    LET top == high(r[1].y1, ybot)
        bot == low(r[1].y2, s[1].y1)
    IN IF top = bot THEN rects ELSE Alone(side, op, rects, TopBand(r), top, bot)

RECURSIVE Sweep(_, _, _, _, _, _)
Sweep(op, rects, prev, r1, r2, oldbot) ==
    IF r1 = <<>> \/ r2 = <<>>
    THEN Coalesced(Rest(2, op, Rest(1, op, rects, r1, oldbot), r2, oldbot),
                   prev, Len(rects) + 1).rects
    ELSE LET ytop  == high(r1[1].y1, r2[1].y1)
             ybot  == low(r1[1].y2, r2[1].y2)
             alone == CASE r1[1].y1 < r2[1].y1 -> Above(1, op, rects, r1, r2, oldbot)
                        [] r2[1].y1 < r1[1].y1 -> Above(2, op, rects, r2, r1, oldbot)
                        [] OTHER -> rects
             a     == Coalesced(alone, prev, Len(rects) + 1)
             both  == IF ybot > ytop
                      THEN Overlap(op, a.rects, TopBand(r1), TopBand(r2), ytop, ybot)
                      ELSE a.rects
             b     == Coalesced(both, a.start, Len(a.rects) + 1)
         IN Sweep(op, b.rects, b.start,
                  IF r1[1].y2 = ybot THEN BelowBand(r1) ELSE r1,
                  IF r2[1].y2 = ybot THEN BelowBand(r2) ELSE r2, ybot)

miRegionOp(op, r, s) ==
    Sweep(op, <<>>, 1, r.rects, s.rects, low(r.extents.y1, s.extents.y1))

(* same: the two arguments are one region object.                             *)
XUnionRegion(r, s, same) ==
    IF same \/ r.rects = <<>> THEN s
    ELSE IF s.rects = <<>> THEN r
    ELSE IF numRects(r) = 1 /\ Subsumes(r.extents, s.extents) THEN r
    ELSE IF numRects(s) = 1 /\ Subsumes(s.extents, r.extents) THEN s
    ELSE [rects   |-> miRegionOp("union", r, s),
          extents |-> box(low(r.extents.x1, s.extents.x1), low(r.extents.y1, s.extents.y1),
                          high(r.extents.x2, s.extents.x2), high(r.extents.y2, s.extents.y2))]

Apart(r, s) == r.rects = <<>> \/ s.rects = <<>> \/ ~EXTENTCHECK(r.extents, s.extents)

XIntersectRegion(r, s) ==
    miSetExtents(IF Apart(r, s) THEN <<>> ELSE miRegionOp("intersect", r, s))

XSubtractRegion(r, s) ==
    IF Apart(r, s) THEN r ELSE miSetExtents(miRegionOp("subtract", r, s))

XXorRegion(r, s) ==
    XUnionRegion(XSubtractRegion(r, s), XSubtractRegion(s, r), FALSE)

XUnionRectWithRegion(b, r) ==
    IF b.x1 = b.x2 \/ b.y1 = b.y2 THEN r ELSE XUnionRegion(RectRegion(b), r, FALSE)

XEqualRegion(r, s) ==
    /\ numRects(r) = numRects(s)
    /\ numRects(r) = 0 \/ (r.extents = s.extents /\ r.rects = s.rects)
-----------------------------------------------------------------------------
(* Growing and shrinking: r becomes the points p for which some (grow) or     *)
(* each of p, p+1 .. p+dx along the axis is in r, by doubling the shift.      *)
RECURSIVE CompressFrom(_, _, _, _, _, _)
CompressFrom(r, s, dx, shift, xdir, grow) ==
    LET moved(a) == IF xdir THEN XOffsetRegion(a, -shift, 0) ELSE XOffsetRegion(a, 0, -shift)
        op(a, b) == IF grow THEN XUnionRegion(a, b, FALSE) ELSE XIntersectRegion(a, b)
        here     == (dx \div shift) % 2 = 1
        left     == IF here THEN dx - shift ELSE dx
        r2       == IF here THEN op(moved(r), s) ELSE r
    IN IF left = 0 THEN r2
       ELSE CompressFrom(r2, op(moved(s), s), left, 2 * shift, xdir, grow)

Compress(r, dx, xdir, grow) == CompressFrom(r, r, dx, 1, xdir, grow)

abs(n) == IF n < 0 THEN -n ELSE n

XShrinkRegion(r, dx, dy) ==
    LET across == IF dx = 0 THEN r ELSE Compress(r, 2 * abs(dx), TRUE, dx < 0)
        down   == IF dy = 0 THEN across ELSE Compress(across, 2 * abs(dy), FALSE, dy < 0)
    IN IF dx = 0 /\ dy = 0 THEN r ELSE XOffsetRegion(down, abs(dx), abs(dy))

INBOX(b, x, y) == b.x2 > x /\ b.x1 <= x /\ b.y2 > y /\ b.y1 <= y

XPointInRegion(r, x, y) ==
    /\ numRects(r) # 0 /\ INBOX(r.extents, x, y)
    /\ \E k \in DOMAIN r.rects : INBOX(r.rects[k], x, y)

(* The walk over the boxes: (rx, ry) is the first point of the rectangle not  *)
(* looked at, in and out what is known so far.                                *)
RECURSIVE Walk(_, _, _, _, _, _)
Walk(boxes, rect, rx, ry, in, out) ==
    LET answer(i, y) == IF ~i THEN "Out" ELSE IF y < rect.y2 THEN "Part" ELSE "In"
        b    == boxes[1]
        gapY == b.y1 > ry
        y    == IF gapY THEN b.y1 ELSE ry
        out1 == out \/ gapY
        out2 == out1 \/ b.x1 > rx
        in2  == in \/ b.x1 < rect.x2
    IN IF boxes = <<>> THEN answer(in, ry)
       ELSE IF b.y2 <= ry THEN Walk(Tail(boxes), rect, rx, ry, in, out)
       ELSE IF gapY /\ (in \/ b.y1 >= rect.y2) THEN answer(in, ry)
       ELSE IF b.x2 <= rx THEN Walk(Tail(boxes), rect, rx, y, in, out1)
       ELSE IF b.x1 > rx /\ in THEN answer(in, y)
       ELSE IF b.x1 < rect.x2 /\ out2 THEN answer(TRUE, y)
       ELSE IF b.x2 < rect.x2 THEN answer(in2, y)
       ELSE IF b.y2 >= rect.y2 THEN answer(in2, b.y2)
       ELSE Walk(Tail(boxes), rect, rect.x1, b.y2, in2, out2)

XRectInRegion(r, rect) ==
    IF numRects(r) = 0 \/ ~EXTENTCHECK(r.extents, rect) THEN "Out"
    ELSE Walk(r.rects, rect, rect.x1, rect.y1, FALSE, FALSE)
-----------------------------------------------------------------------------
(* The rectangles of a region in the order they are sent or copied: by bands  *)
(* from the top or from the bottom, within a band from the left or the right, *)
(* each cut into slices of at most maxArea pixels (0: not cut).               *)
RECURSIVE Bands(_)
Bands(rects) == IF rects = <<>> THEN <<>> ELSE <<TopBand(rects)>> \o Bands(BelowBand(rects))

Slices(b, maxArea) ==
    LET rows == maxArea \div (b.x2 - b.x1)
        h    == IF rows = 0 \/ rows > b.y2 - b.y1 THEN b.y2 - b.y1 ELSE rows
    IN [k \in 1..(b.y2 - b.y1 + h - 1) \div h |->
          box(b.x1, b.y1 + (k - 1) * h, b.x2, low(b.y1 + k * h, b.y2))]

InOrder(s, forwards) == IF forwards THEN s ELSE Reverse(s)

(* A plausible slip: the boxes of a band are always taken from the left.      *)
BandsFromLeft(r, left2right, topdown, maxArea) ==
    LET boxes == FlattenSeq(InOrder(Bands(r.rects), topdown))
    IN FlattenSeq([k \in DOMAIN boxes |-> Slices(boxes[k], maxArea)])

get_rects(r, left2right, topdown, maxArea) ==
    LET bands == InOrder(Bands(r.rects), topdown)
        boxes == FlattenSeq([k \in DOMAIN bands |-> InOrder(bands[k], left2right)])
    IN FlattenSeq([k \in DOMAIN boxes |-> Slices(boxes[k], maxArea)])

get_bounding_rect(r) == r.extents

(* The order used for rectangles to be copied by delta (writeCopyRects and    *)
(* compare()).                                                                *)
CopyOrder(r, dx, dy) == get_rects(r, dx <= 0, dy <= 0, 0)
-----------------------------------------------------------------------------
(* The calls.                                                                 *)
RECURSIVE UnionOf(_, _)
UnionOf(r, rects) ==
    IF rects = <<>> THEN r
    ELSE UnionOf(XUnionRegion(r, RectRegion(Head(rects)), FALSE), Tail(rects))

setOrderedRects(rects) ==       \* reset() for one rectangle
    IF Len(rects) = 1 THEN reset(rects[1]) ELSE UnionOf(XCreateRegion, rects)

Others == {setOrderedRects(rects) : rects \in Arguments}

RegionsInit == region = XCreateRegion

clear == region' = XCreateRegion
set(rects)              == region' = setOrderedRects(rects)
assign(other)           == region' = XUnionRegion(XCreateRegion, other, FALSE)
copyFrom(other)         == region' = XUnionRegion(other, other, TRUE)
assign_union(other)     == region' = XUnionRegion(region, other, FALSE)
assign_intersect(other) == region' = XIntersectRegion(region, other)
assign_subtract(other)  == region' = XSubtractRegion(region, other)
subtract(other)         == region' = XSubtractRegion(other, region)

InWindow(r) == Subsumes(box(0, 0, Width, Height), r.extents)

translate(dx, dy) ==
    /\ region' = XOffsetRegion(region, dx, dy)
    /\ InWindow(region')       \* the plane is bounded for the check

RegionsNext ==
    \/ clear
    \/ \E rects \in Arguments : set(rects)
    \/ \E other \in Others :
          \/ assign(other) \/ copyFrom(other) \/ assign_union(other)
          \/ assign_intersect(other) \/ assign_subtract(other) \/ subtract(other)
    \/ \E dx, dy \in -1..1 : translate(dx, dy)

RegionsSpec == RegionsInit /\ [][RegionsNext]_region
-----------------------------------------------------------------------------
Covered(r) == UNION {(r.rects[k].x1 .. r.rects[k].x2 - 1)
                       \X (r.rects[k].y1 .. r.rects[k].y2 - 1) : k \in DOMAIN r.rects}

BelowOrRight(b, c) == b.y2 <= c.y1 \/ (b.y1 = c.y1 /\ b.y2 = c.y2 /\ b.x2 < c.x1)

Joinable(r) ==
    \E k \in 1..numRects(r) - 1 :
        LET bands == Bands(r.rects)
        IN k < Len(bands) /\ Len(bands[k]) = Len(bands[k + 1])
           /\ bands[k][1].y2 = bands[k + 1][1].y1
           /\ \A n \in DOMAIN bands[k] : bands[k][n].x1 = bands[k + 1][n].x1
                                       /\ bands[k][n].x2 = bands[k + 1][n].x2

Canonical(r) ==
    /\ \A k \in DOMAIN r.rects : ~is_empty(r.rects[k])
    /\ \A k \in 1..numRects(r) - 1 : BelowOrRight(r.rects[k], r.rects[k + 1])
    /\ ~Joinable(r)
    /\ numRects(r) # 0 => miSetExtents(r.rects).extents = r.extents

(* The promise at the head of Region.c, which every fast path relies on (the  *)
(* test for one box that covers all, miCoalesce, XEqualRegion): boxes in      *)
(* order, those of a band apart, no two bands that could be one, and exact    *)
(* extents.                                                                   *)
YXBanded == Canonical(region)

(* Copying the boxes one after another, each from where it was delta before,  *)
(* never reads what an earlier box of the same update has overwritten: the    *)
(* client, which has one screen, sees the pixels move as the server's did.    *)
CopiesReadOld ==
    \A dx, dy \in -Width..Width :
        LET b == CopyOrder(region, dx, dy)
        IN \A i \in DOMAIN b, j \in DOMAIN b :
               i < j => ~EXTENTCHECK(b[i], XOffset(b[j], -dx, -dy))

SlicesPartition(area) ==
    LET b == get_rects(region, TRUE, TRUE, area)
    IN /\ Covered([region EXCEPT !.rects = b]) = Covered(region)
       /\ \A i, j \in DOMAIN b : i # j => ~EXTENTCHECK(b[i], b[j])
       /\ \A i \in DOMAIN b : area >= b[i].x2 - b[i].x1
             => (b[i].x2 - b[i].x1) * (b[i].y2 - b[i].y1) <= area

Moved(s, dx, dy) == {<<p[1] + dx, p[2] + dy>> : p \in s}
Grown(s, dx, dy) == {<<p[1] + i, p[2] + j>> : p \in s, i \in -dx..dx, j \in -dy..dy}
Shrunk(s, dx, dy) == {p \in s : \A i \in -dx..dx, j \in -dy..dy : <<p[1] + i, p[2] + j>> \in s}

(* Each operator answers for the sets of pixels, although the queries look at *)
(* the boxes in order and stop early: the results of two operands, of a list  *)
(* of boxes and of a movement, equality, whether a point is in and a          *)
(* rectangle in, partly in or out, the slices of get_rects(), which cover     *)
(* each pixel once within the area asked for, and growing and shrinking.      *)
QueriesAgree ==
    LET s == Covered(region)
    IN /\ \A x \in 0..Width, y \in 0..Height : XPointInRegion(region, x, y) <=> <<x, y>> \in s
       /\ \A b \in Rects :
            LET p == Covered(RectRegion(b))
            IN XRectInRegion(region, b) = IF p \subseteq s THEN "In"
                                          ELSE IF p \cap s = {} THEN "Out" ELSE "Part"
       /\ \A other \in Others :
            LET t == Covered(other)
            IN /\ XEqualRegion(region, other) <=> s = t
               /\ Covered(XUnionRegion(region, other, FALSE)) = s \cup t
               /\ Covered(XIntersectRegion(region, other)) = s \cap t
               /\ Covered(XSubtractRegion(region, other)) = s \ t
               /\ Covered(XSubtractRegion(other, region)) = t \ s
               /\ Covered(XXorRegion(region, other)) = (s \ t) \cup (t \ s)
       /\ \A dx, dy \in -1..1 : Covered(XOffsetRegion(region, dx, dy)) = Moved(s, dx, dy)
       /\ \A rects \in Arguments :
            Covered(UnionOf(region, rects)) = s \cup UNION {Covered(RectRegion(rects[k])) : k \in DOMAIN rects}
       /\ \A area \in 0..Width * Height : SlicesPartition(area)
       /\ \A dx, dy \in 0..1 : /\ Covered(XShrinkRegion(region, dx, dy)) = Shrunk(s, dx, dy)
                              /\ Covered(XShrinkRegion(region, -dx, -dy)) = Grown(s, dx, dy)
=============================================================================
