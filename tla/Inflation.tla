------------------------------ MODULE Inflation ------------------------------
(***************************************************************************)
(* ZlibInStream over zlib's inflate(): the bytes of a ZRLE rectangle as     *)
(* they arrive in pieces, the bit buffer, the circular window and what is   *)
(* handed to the reader.  A stream is given by its fields, each with its    *)
(* width in bits; a code that needs a second table has its first bits in a  *)
(* field "prefix".  Bits are counted exactly; their values are the fields.  *)
(***************************************************************************)
EXTENDS Integers, Sequences, SequencesExt

CONSTANTS
  Streams,        \* sequences of blocks, as setUnderlying() is told of them
  Arrivals,         \* how many bytes arrive at a time
  fdSize,         \* bufSize of the FdInStream below
  Items,          \* sizes of the items that the reader asks for
  readSize,       \* bufSize of the ZlibInStream
  wsize,          \* end - window
  FastRoom,       \* 258: the longest match
  FastBytes       \* 10: the bytes of the longest pair, and of the bit buffer

VARIABLES
  stream,         \* chosen once
  block,          \* the block that setUnderlying() was last called for
  underlying,        \* bytes of the stream that lie in the underlying one
  taken,          \* total_in
  bytesIn,        \* of the block, not taken yet
  ahead,          \* ptr .. end
  wants,          \* the item that overrun() is to make available
  doing,          \* "unset", "idle", "overrun", "reset", "failed": what the stream does
  calling,        \* "no", "inflate", "back": inflate() is under way, or has returned
  in,             \* z_stream of the call: given, avail, room, out and r
  zmode,          \* inflate()'s mode
  blk,            \* inflate_blocks_state
  cod,            \* inflate_codes_state
  field,          \* the next field of the stream
  delivered,            \* what the reader has read of the stream
  dropped         \* what reset() has thrown away

readerVars == <<stream, block, underlying, bytesIn, ahead, wants, doing, delivered, dropped>>
inflateVars == <<calling, in, zmode, taken, blk, cod, field>>
inflationVars == <<readerVars, inflateVars>>

Lesser(a, b) == IF a < b THEN a ELSE b
WholeBytes(bits) == (bits + 7) \div 8

-----------------------------------------------------------------------------
(* Streams. *)

\* A stored block's lengths begin with a byte, and so does the check.
EndBits(fields) ==
  FoldLeft(LAMBDA n, f :
             LET bits == n + f.bits + (IF f.k = "dl" THEN f.extra ELSE 0)
             IN  IF f.k = "stored" \/ (f.k = "eob" /\ f.last) THEN 8 * WholeBytes(bits) ELSE bits,
           0, fields)

\* The bytes that fields stand for.
Repeated(plain, n, dist) ==
  FoldLeft(LAMBDA p, i : Append(p, p[Len(p) + 1 - dist]), plain, [i \in 1 .. n |-> i])
Says(fields) ==
  FoldLeft(LAMBDA acc, f :
             CASE f.k \in {"lit", "byte"} -> [acc EXCEPT !.plain = Append(@, f.n)]
               [] f.k = "len"  -> [acc EXCEPT !.len = f.n]
               [] f.k = "dist" -> [acc EXCEPT !.dist = f.n]
               [] f.k = "more" /\ acc.dist = 0 -> [acc EXCEPT !.len = @ + f.n]
               [] f.k = "more" /\ acc.dist > 0 ->
                    [len |-> 0, dist |-> 0,
                     plain |-> Repeated(acc.plain, acc.len, acc.dist + f.n)]
               [] OTHER -> acc,
           [plain |-> <<>>, len |-> 0, dist |-> 0], fields).plain

\* A stream of blocks: its fields, where each begins, and for every block what
\* its bytes are and what has been said by its end.
StreamOf(blocks) ==
  LET fields == FlattenSeq(blocks)
      upTo(b) == FlattenSeq(SubSeq(blocks, 1, b))
  IN  [fields |-> fields,
       starts |-> [i \in 1 .. Len(fields) + 1 |-> EndBits(SubSeq(fields, 1, i - 1))],
       ends   |-> [b \in DOMAIN blocks |-> WholeBytes(EndBits(upTo(b)))],
       plain  |-> [b \in DOMAIN blocks |-> Says(upTo(b))]]

StreamFields == stream.fields
Blocks == Len(stream.ends)
BlockBytes(b) == stream.ends[b] - (IF b = 1 THEN 0 ELSE stream.ends[b - 1])
End == [k |-> "end", bits |-> 0]
Field == IF field > Len(StreamFields) THEN End ELSE StreamFields[field]

-----------------------------------------------------------------------------
(* The window: what lies between read and write is still to be handed out. *)

\* Mutant: a window that is full looks like one that is empty.
FullIsEmpty(s) == IF s.write < s.read THEN s.read - s.write ELSE wsize - s.write

\* WAVAIL.
Avail(s) == IF s.write < s.read THEN s.read - s.write - 1 ELSE wsize - s.write

Pending(s) ==
  IF s.read <= s.write THEN SubSeq(s.window, s.read + 1, s.write)
  ELSE SubSeq(s.window, s.read + 1, wsize) \o SubSeq(s.window, 1, s.write)

\* inflate_flush: up to the end of the window, and then from its beginning.
FlushWindow(s, z) ==
  LET n1 == Lesser((IF s.read <= s.write THEN s.write ELSE wsize) - s.read, z.room)
      round == s.read + n1 = wsize
      write == IF round /\ s.write = wsize THEN 0 ELSE s.write
      n2 == IF round THEN Lesser(write, z.room - n1) ELSE 0
  IN  [s |-> [s EXCEPT !.read = IF round THEN n2 ELSE s.read + n1, !.write = write],
       z |-> [z EXCEPT !.room = @ - n1 - n2,
                       !.out = @ \o SubSeq(s.window, s.read + 1, s.read + n1)
                                 \o SubSeq(s.window, 1, n2),
                       !.r = IF n1 + n2 > 0 /\ @ = "Z_BUF_ERROR" THEN "Z_OK" ELSE @]]

\* WRAP.
Wrap(s) == IF s.write = wsize /\ s.read # 0 THEN [s EXCEPT !.write = 0] ELSE s

\* NEEDOUT, as far as the test whether there is room.
NeedOut(s, z) ==
  IF Avail(s) > 0 THEN [s |-> s, z |-> [z EXCEPT !.r = "Z_OK"]]
  ELSE LET w == Wrap(s)
       IN  IF Avail(w) > 0 THEN [s |-> w, z |-> [z EXCEPT !.r = "Z_OK"]]
           ELSE LET f == FlushWindow(w, z)
                    v == Wrap(f.s)
                IN  [s |-> v, z |-> IF Avail(v) > 0 THEN [f.z EXCEPT !.r = "Z_OK"] ELSE f.z]

\* OUTBYTE.
Put(s, byte) == [s EXCEPT !.window[s.write + 1] = byte, !.write = @ + 1]

\* The byte dist places back, modulo the window's size.
Behind(s, dist) == s.window[((s.write - dist) % wsize) + 1]

-----------------------------------------------------------------------------
(* What inflate_blocks() and inflate_codes() do to get their bits, and when
   they return.  The bit buffer and the input are the state's and the call's. *)

BytesFor(j) == IF blk.k >= j THEN 0 ELSE WholeBytes(j - blk.k)

\* LEAVE, from a loop that has made s and z of the state and the call.
Leave(s, z) ==
  LET f == FlushWindow(s, z)
  IN  blk' = f.s /\ in' = f.z /\ calling' = "back"

\* NEEDBITS(j) when the bits are there; n of them are used.
Used(j, n) == [blk EXCEPT !.k = @ + 8 * BytesFor(j) - n]
ReadBits(j) == [in EXCEPT !.avail = @ - BytesFor(j), !.r = IF BytesFor(j) > 0 THEN "Z_OK" ELSE @]
Has(j) == BytesFor(j) <= in.avail /\ taken' = taken + BytesFor(j)

\* The loop goes on with state s, or gives up.
GoesOn(s, z) == blk' = s /\ in' = z /\ UNCHANGED <<calling, zmode>>
GivesUp(s, z) == Leave(s, [z EXCEPT !.r = "Z_DATA_ERROR"]) /\ zmode' = "BAD"
BadBlock(s, z) == GivesUp([s EXCEPT !.mode = "BAD"], z) /\ UNCHANGED <<cod, field>>

Next1 == field' = field + 1
InBlocks(mode) == calling = "inflate" /\ zmode = "BLOCKS" /\ blk.mode = mode
InCodes(mode) == InBlocks("CODES") /\ cod.mode = mode

-----------------------------------------------------------------------------
(* inflate_blocks(). *)

NoCodes == [mode |-> "START", lbits |-> 0, dbits |-> 0, need |-> 0, len |-> 0,
            dist |-> 0, lit |-> 0, from |-> 0]
CodesNew(lb, db) == [NoCodes EXCEPT !.lbits = lb, !.dbits = db]

Type ==
  /\ InBlocks("TYPE") /\ Has(3)
  /\ LET s == [Used(3, 3) EXCEPT !.last = Field.last]
     IN  \/ /\ Field.k = "stored" /\ GoesOn([s EXCEPT !.k = @ - (@ % 8), !.mode = "LENS"], ReadBits(3))
            /\ Next1 /\ UNCHANGED cod
         \/ /\ Field.k = "fixed" /\ GoesOn([s EXCEPT !.mode = "CODES"], ReadBits(3))
            /\ Next1 /\ cod' = CodesNew(9, 5)
         \/ /\ Field.k = "dynamic" /\ GoesOn([s EXCEPT !.mode = "TABLE"], ReadBits(3))
            /\ Next1 /\ UNCHANGED cod
         \/ Field.k = "badtype" /\ BadBlock(s, ReadBits(3))

AfterBlock(s) == IF s.last THEN "DRY" ELSE "TYPE"

Lens ==
  /\ InBlocks("LENS") /\ Has(32)
  /\ \/ ~Field.ok /\ BadBlock(Used(32, 0), ReadBits(32))
     \/ /\ Field.ok /\ Next1 /\ UNCHANGED cod
        /\ GoesOn([blk EXCEPT !.k = 0, !.left = Field.n,
                     !.mode = IF Field.n > 0 THEN "STORED" ELSE AfterBlock(blk)], ReadBits(32))

StoredBytes ==
  /\ InBlocks("STORED") /\ UNCHANGED cod
  /\ LET o == NeedOut(blk, in)
         t == Lesser(Lesser(blk.left, in.avail), Avail(o.s))
         s == FoldLeft(Put, o.s, [i \in 1 .. t |-> StreamFields[field + i - 1].n])
     IN  IF t = 0
         THEN /\ IF in.avail = 0 THEN Leave(blk, in) ELSE Leave(o.s, o.z)
              /\ UNCHANGED <<zmode, taken, field>>
         ELSE /\ GoesOn([s EXCEPT !.left = @ - t,
                           !.mode = IF blk.left = t THEN AfterBlock(blk) ELSE @],
                        [o.z EXCEPT !.avail = @ - t])
              /\ taken' = taken + t /\ field' = field + t

TableSizes ==
  /\ InBlocks("TABLE") /\ Has(14)
  /\ \/ Field.bad = "sizes" /\ BadBlock(Used(14, 0), ReadBits(14))
     \/ /\ Field.bad # "sizes" /\ Next1 /\ UNCHANGED cod
        /\ GoesOn([Used(14, 14) EXCEPT !.table = Field, !.index = 0, !.mode = "BTREE"], ReadBits(14))

\* The lengths of the code that the lengths of the codes are written in.
BTree ==
  /\ InBlocks("BTREE")
  /\ \/ /\ blk.index < blk.table.bls /\ Has(3) /\ Next1 /\ UNCHANGED cod
        /\ GoesOn([Used(3, 3) EXCEPT !.index = @ + 1], ReadBits(3))
     \/ /\ blk.index = blk.table.bls /\ UNCHANGED taken
        /\ IF blk.table.bad = "bits" THEN BadBlock(blk, in)
           ELSE GoesOn([blk EXCEPT !.index = 0, !.mode = "DTREE"], in) /\ UNCHANGED <<cod, field>>

\* The width of the table, and then the extra bits of a repeat code.
DTreeBits ==
  IF Field.extra = 0 \/ blk.table.bb > Field.bits + Field.extra THEN blk.table.bb
  ELSE Field.bits + Field.extra

DTree ==
  /\ InBlocks("DTREE")
  /\ \/ /\ blk.index < blk.table.n /\ Has(DTreeBits)
        /\ LET s == Used(DTreeBits, Field.bits + Field.extra)
           IN  IF blk.index + Field.n > blk.table.n \/ (Field.repeats /\ blk.index = 0)
               THEN BadBlock(s, ReadBits(DTreeBits))
               ELSE GoesOn([s EXCEPT !.index = @ + Field.n], ReadBits(DTreeBits)) /\ Next1 /\ UNCHANGED cod
     \/ /\ blk.index = blk.table.n /\ UNCHANGED taken
        /\ IF blk.table.bad = "trees" THEN BadBlock(blk, in)
           ELSE GoesOn([blk EXCEPT !.mode = "CODES"], in) /\ UNCHANGED field
                /\ cod' = CodesNew(blk.table.lb, blk.table.db)

\* What is in the window goes out; then inflate() starts anew and wants the check.
Dry ==
  /\ InBlocks("DRY") /\ UNCHANGED <<taken, cod, field>>
  /\ LET f == FlushWindow(blk, in)
     IN  IF f.s.read # f.s.write THEN Leave(f.s, f.z) /\ UNCHANGED zmode
         ELSE /\ blk' = [f.s EXCEPT !.mode = "TYPE", !.k = 0, !.read = 0, !.write = 0]
              /\ in' = [f.z EXCEPT !.r = "Z_OK"] /\ zmode' = "CHECK" /\ UNCHANGED calling

-----------------------------------------------------------------------------
(* inflate_codes() and inflate_fast(). *)

\* Room for the longest match, and the bytes of the longest pair.
FastEnough(s, avail) == Avail(s) >= FastRoom /\ avail >= FastBytes

Start ==
  /\ InCodes("START") /\ UNCHANGED <<calling, zmode, in, taken, blk, field>>
  /\ cod' = IF FastEnough(blk, in.avail)
            THEN [cod EXCEPT !.mode = "FAST", !.from = in.avail]
            ELSE [cod EXCEPT !.mode = "LEN", !.need = cod.lbits]

\* A code found in the first table, or the first part of a longer one.
Code(next) ==
  /\ GoesOn(Used(cod.need, Field.bits), ReadBits(cod.need)) /\ Has(cod.need) /\ Next1
  /\ cod' = IF Field.k = "prefix" THEN [cod EXCEPT !.need = Field.n] ELSE next

BadCode ==
  /\ Has(cod.need) /\ GivesUp(Used(cod.need, Field.bits), ReadBits(cod.need))
  /\ cod' = [cod EXCEPT !.mode = "BADCODE"] /\ UNCHANGED field

LenCode ==
  /\ InCodes("LEN")
  /\ \/ Field.k = "prefix" /\ Code(cod)
     \/ Field.k = "lit" /\ Code([cod EXCEPT !.lit = Field.n, !.mode = "LIT"])
     \/ Field.k = "len" /\ Code([cod EXCEPT !.len = Field.n, !.mode = "LENEXT"])
     \/ Field.k = "eob" /\ Code([cod EXCEPT !.mode = "WASH"])
     \/ Field.k = "badcode" /\ BadCode

Extra(next) ==
  /\ Has(Field.bits) /\ GoesOn(Used(Field.bits, Field.bits), ReadBits(Field.bits)) /\ Next1
  /\ cod' = next

LenExtra ==
  InCodes("LENEXT") /\ Extra([cod EXCEPT !.len = @ + Field.n, !.need = cod.dbits, !.mode = "DIST"])

DistCode ==
  /\ InCodes("DIST")
  /\ \/ Field.k = "prefix" /\ Code(cod)
     \/ Field.k = "dist" /\ Code([cod EXCEPT !.dist = Field.n, !.mode = "DISTEXT"])
     \/ Field.k = "badcode" /\ BadCode

DistExtra == InCodes("DISTEXT") /\ Extra([cod EXCEPT !.dist = @ + Field.n, !.mode = "COPY"])

\* OUTBYTE after NEEDOUT, which may have to return first.
OutByte(byte(_), next) ==
  LET o == NeedOut(blk, in)
  IN  /\ UNCHANGED <<taken, field>>
      /\ IF Avail(o.s) = 0 THEN Leave(o.s, o.z) /\ UNCHANGED <<zmode, cod>>
         ELSE GoesOn(Put(o.s, byte(o.s)), o.z) /\ cod' = next

CopyByte ==
  /\ InCodes("COPY")
  /\ LET from(s) == Behind(s, cod.dist)
     IN  OutByte(from, [cod EXCEPT !.len = @ - 1, !.mode = IF cod.len = 1 THEN "START" ELSE @])

LitByte ==
  InCodes("LIT") /\ LET lit(s) == cod.lit IN OutByte(lit, [cod EXCEPT !.mode = "START"])

\* The end of a coded block: an unused byte goes back, and the block is not
\* over before all it stands for is handed out, unless the fast loop has come
\* to the end: then the return code is Z_STREAM_END already.
Wash ==
  /\ InCodes("WASH") /\ UNCHANGED field
  /\ LET back == IF blk.k > 7 THEN 1 ELSE 0
         f == FlushWindow([blk EXCEPT !.k = @ - 8 * back], [in EXCEPT !.avail = @ + back])
     IN  /\ taken' = taken - back
         /\ IF f.s.read # f.s.write /\ f.z.r # "Z_STREAM_END"
            THEN Leave(f.s, f.z) /\ UNCHANGED <<zmode, cod>>
            ELSE GoesOn([f.s EXCEPT !.mode = AfterBlock(blk)], [f.z EXCEPT !.r = "Z_OK"])
                 /\ cod' = NoCodes

\* UNGRAB: the whole bytes in the bit buffer go back, as far as this loop took them.
Ungrab(s, avail) ==
  LET c == Lesser(s.k \div 8, cod.from - avail) IN [bytes |-> c, k |-> s.k - 8 * c]

\* A code in the fast loop, from a bit buffer with k bits and f as the next
\* field: what is grabbed, and where the code ends.
Grab(k, j) == IF k >= j THEN 0 ELSE WholeBytes(j - k)
Through(f, n) == FoldLeft(LAMBDA sum, g : sum + g.bits, 0, SubSeq(StreamFields, f, f + n - 1))
AfterPrefix(f) == IF StreamFields[f].k = "prefix" THEN f + 1 ELSE f

\* Leaving the fast loop, with r.
FastEnds(s, avail, t, next, at, r) ==
  LET u == Ungrab(s, avail)
  IN  /\ blk' = [s EXCEPT !.k = u.k] /\ in' = [in EXCEPT !.avail = avail + u.bytes, !.r = r]
      /\ taken' = t - u.bytes /\ cod' = next /\ field' = at

\* The fast loop decodes a literal, a whole match or an end of block at a time
\* and asks for no bits or room in between.
Fast ==
  /\ InCodes("FAST") /\ UNCHANGED zmode
  /\ LET g1  == Grab(blk.k, 20)
         f1  == AfterPrefix(field)
         k1  == blk.k + 8 * g1 - Through(field, f1 - field + 1)
         a1  == in.avail - g1
         is  == StreamFields[f1].k
         again(s, avail, t, at) ==
           IF FastEnough(s, avail)
           THEN /\ blk' = s /\ in' = [in EXCEPT !.avail = avail] /\ taken' = t
                /\ field' = at /\ UNCHANGED cod
           ELSE FastEnds(s, avail, t, [cod EXCEPT !.mode = "LEN", !.need = cod.lbits], at, "Z_OK")
         one == [blk EXCEPT !.k = k1]
     IN  \/ /\ is = "lit" /\ UNCHANGED calling
            /\ again(Put(one, StreamFields[f1].n), a1, taken + g1, f1 + 1)
         \/ /\ is = "eob" /\ UNCHANGED calling
            /\ FastEnds(one, a1, taken + g1, [cod EXCEPT !.mode = "WASH"], f1 + 1, "Z_STREAM_END")
         \/ /\ is = "badcode" /\ UNCHANGED calling
            /\ FastEnds(one, a1, taken + g1, [cod EXCEPT !.mode = "BADCODE"], f1, "Z_DATA_ERROR")
         \/ /\ is = "len" /\ UNCHANGED calling
            /\ LET k2 == k1 - StreamFields[f1 + 1].bits
                   g2 == Grab(k2, 15)
                   f2 == AfterPrefix(f1 + 2)
                   k3 == k2 + 8 * g2 - Through(f1 + 2, f2 - f1 - 1)
                   n  == StreamFields[f1].n + StreamFields[f1 + 1].n
               IN  IF StreamFields[f2].k = "badcode"
                   THEN FastEnds([one EXCEPT !.k = k3], a1 - g2, taken + g1 + g2,
                                 [cod EXCEPT !.mode = "BADCODE"], f2, "Z_DATA_ERROR")
                   ELSE LET g3 == Grab(k3, StreamFields[f2 + 1].bits)
                            d  == StreamFields[f2].n + StreamFields[f2 + 1].n
                            copy(s, i) == Put(s, Behind(s, d))
                        IN  again([FoldLeft(copy, one, [i \in 1 .. n |-> i])
                                     EXCEPT !.k = k3 + 8 * g3 - StreamFields[f2 + 1].bits],
                                  a1 - g2 - g3, taken + g1 + g2 + g3, f2 + 2)

BadCodeFound ==
  InCodes("BADCODE") /\ GivesUp(blk, in) /\ UNCHANGED <<taken, cod, field>>

-----------------------------------------------------------------------------
(* inflate(): the bits that the present mode wants, and the bytes around the
   blocks. *)

Wanted ==
  CASE blk.mode = "TYPE" -> 3
    [] blk.mode = "LENS" -> 32
    [] blk.mode = "TABLE" -> 14
    [] blk.mode = "BTREE" /\ blk.index < blk.table.bls -> 3
    [] blk.mode = "DTREE" /\ blk.index < blk.table.n -> DTreeBits
    [] blk.mode = "CODES" /\ cod.mode \in {"LEN", "DIST"} -> cod.need
    [] blk.mode = "CODES" /\ cod.mode \in {"LENEXT", "DISTEXT"} -> Field.bits
    [] OTHER -> 0

\* NEEDBITS that falls short: all there is is taken, and the call returns.
NeedsInput ==
  /\ calling = "inflate" /\ zmode = "BLOCKS" /\ BytesFor(Wanted) > in.avail
  /\ Leave([blk EXCEPT !.k = @ + 8 * in.avail],
           [in EXCEPT !.avail = 0, !.r = IF in.avail > 0 THEN "Z_OK" ELSE @])
  /\ taken' = taken + in.avail
  /\ UNCHANGED <<zmode, cod, field>>

InflateReturns(r) == in' = [in EXCEPT !.r = r] /\ calling' = "back" /\ UNCHANGED <<taken, field>>

\* The header, the check, and the name of a dictionary, a byte at a time.
OuterByte ==
  /\ calling = "inflate" /\ zmode \in {"METHOD", "FLAG", "DICT", "CHECK"} /\ UNCHANGED <<blk, cod>>
  /\ IF in.avail = 0 THEN InflateReturns(in.r) /\ UNCHANGED zmode
     ELSE /\ taken' = taken + 1 /\ Next1
          /\ LET z == [in EXCEPT !.avail = @ - 1, !.r = "Z_OK"]
             IN  IF zmode = "DICT" /\ Field.final
                 THEN in' = [z EXCEPT !.r = "Z_NEED_DICT"] /\ calling' = "back" /\ zmode' = "DICT0"
                 ELSE /\ in' = z /\ UNCHANGED calling
                      /\ zmode' = CASE ~Field.ok -> "BAD"
                                    [] Field.k = "method" -> "FLAG"
                                    [] Field.k = "flag" -> IF Field.dict THEN "DICT" ELSE "BLOCKS"
                                    [] Field.k = "check" /\ Field.final -> "DONE"
                                    [] OTHER -> zmode

Ended ==
  /\ calling = "inflate" /\ zmode \in {"BAD", "DONE"} /\ UNCHANGED <<zmode, blk, cod>>
  /\ InflateReturns(IF zmode = "BAD" THEN "Z_DATA_ERROR" ELSE "Z_STREAM_END")

Inflates ==
  /\ \/ Type \/ Lens \/ StoredBytes \/ TableSizes \/ BTree \/ DTree \/ Dry
     \/ Start \/ LenCode \/ LenExtra \/ DistCode \/ DistExtra \/ CopyByte \/ LitByte
     \/ Wash \/ Fast \/ BadCodeFound
     \/ NeedsInput \/ OuterByte \/ Ended
  /\ UNCHANGED readerVars

-----------------------------------------------------------------------------
(* ZlibInStream and its reader. *)

NoCall == [given |-> 0, avail |-> 0, room |-> 0, out |-> <<>>, r |-> "Z_OK"]

TheirStreams == {StreamOf(blocks) : blocks \in Streams}

\* inflateReset, inflate_blocks_new with its reset, and inflateInit, whose window
\* is of the default size and whose stream has a header.
inflateReset == zmode = "METHOD" /\ taken = 0
inflate_blocks_new ==
  [mode |-> "TYPE", last |-> FALSE, k |-> 0, left |-> 0, index |-> 0, table |-> End,
   window |-> [i \in 1 .. wsize |-> 0], read |-> 0, write |-> 0]
inflateInit == blk = inflate_blocks_new /\ cod = NoCodes /\ inflateReset

InflationInit ==
  /\ stream \in TheirStreams /\ block = 0 /\ underlying = 0 /\ bytesIn = 0
  /\ ahead = <<>> /\ wants = 0 /\ doing = "unset" /\ delivered = <<>> /\ dropped = <<>>
  /\ calling = "no" /\ field = 1 /\ in = NoCall /\ inflateInit

Decompresses ==
  /\ calling = "no"
  /\ \/ doing = "overrun" /\ Len(ahead) < wants
     \/ doing = "reset" /\ bytesIn > 0

\* The FdInStream below is read when nothing is left in its buffer.
DataArrives ==
  /\ Decompresses /\ underlying = taken /\ underlying < stream.ends[Blocks]
  /\ \E n \in Arrivals :
       underlying' = underlying + Lesser(n, Lesser(fdSize, stream.ends[Blocks] - underlying))
  /\ UNCHANGED <<stream, block, bytesIn, ahead, wants, doing, delivered, dropped, inflateVars>>

\* setUnderlying, for the next rectangle.
SetUnderlying ==
  /\ doing = "unset" /\ block < Blocks /\ doing' = "idle"
  /\ block' = block + 1 /\ bytesIn' = BlockBytes(block + 1) /\ ahead' = <<>>
  /\ UNCHANGED <<stream, underlying, wants, delivered, dropped, inflateVars>>

\* overrun, for an item that is not there yet, or is.
InflateOverrun ==
  /\ doing = "idle"
  /\ \E n \in Items :
       Len(delivered) + n <= Len(stream.plain[block]) /\ wants' = n /\ doing' = "overrun"
  /\ UNCHANGED <<stream, block, underlying, bytesIn, ahead, delivered, dropped, inflateVars>>

ItemIsRead ==
  /\ doing = "overrun" /\ calling = "no" /\ Len(ahead) >= wants
  /\ delivered' = delivered \o SubSeq(ahead, 1, wants) /\ ahead' = SubSeq(ahead, wants + 1, Len(ahead))
  /\ doing' = "idle" /\ wants' = 0
  /\ UNCHANGED <<stream, block, underlying, bytesIn, dropped, inflateVars>>

\* reset: what the rectangle has left over is read and thrown away.
Reset ==
  /\ doing = "idle" /\ Len(delivered) = Len(stream.plain[block])
  /\ doing' = "reset" /\ dropped' = dropped \o ahead /\ ahead' = <<>>
  /\ UNCHANGED <<stream, block, underlying, bytesIn, wants, delivered, inflateVars>>

ResetEnds ==
  /\ doing = "reset" /\ calling = "no" /\ bytesIn = 0 /\ doing' = "unset"
  /\ UNCHANGED <<stream, block, underlying, bytesIn, ahead, wants, delivered, dropped, inflateVars>>

\* decompress: check() waits for a byte, whatever the rectangle has left.
Decompress ==
  /\ Decompresses /\ underlying > taken
  /\ LET n == Lesser(underlying - taken, bytesIn)
     IN  in' = [given |-> n, avail |-> n, room |-> readSize - Len(ahead), out |-> <<>>,
                r |-> "Z_BUF_ERROR"]
  /\ calling' = "inflate"
  /\ UNCHANGED <<readerVars, zmode, taken, blk, cod, field>>

\* inflate() has returned: anything but Z_OK is thrown.
Decompressed ==
  /\ calling = "back" /\ calling' = "no"
  /\ bytesIn' = bytesIn - (in.given - in.avail)
  /\ IF in.r # "Z_OK" THEN doing' = "failed" /\ UNCHANGED <<ahead, dropped>>
     ELSE IF doing = "reset" THEN dropped' = dropped \o in.out /\ UNCHANGED <<ahead, doing>>
     ELSE ahead' = ahead \o in.out /\ UNCHANGED <<dropped, doing>>
  /\ in' = NoCall
  /\ UNCHANGED <<stream, block, underlying, wants, delivered, zmode, taken, blk, cod, field>>

InflationNext ==
  \/ Inflates \/ DataArrives \/ SetUnderlying \/ InflateOverrun \/ ItemIsRead \/ Reset \/ ResetEnds
  \/ Decompress \/ Decompressed
InflationSpec == InflationInit /\ [][InflationNext]_inflationVars

-----------------------------------------------------------------------------
\* A stream that deflate could have made, and one whose blocks are all coded.
Sound == \A i \in DOMAIN StreamFields :
  /\ StreamFields[i].k \notin {"badtype", "badcode", "check", "dict"}
  /\ StreamFields[i].k \in {"method", "flag", "lens"} => StreamFields[i].ok
  /\ StreamFields[i].k = "dynamic" => StreamFields[i + 1].bad = "no"
  /\ StreamFields[i].k = "dl" /\ StreamFields[i].repeats => StreamFields[i - 1].k = "dl"
Coded == \A i \in DOMAIN StreamFields : StreamFields[i].k # "byte"

\* However the stream arrives in pieces and however the reader asks for it,
\* the bytes it gets are the ones the stream stands for, in their order: what
\* was handed out, and then what lies in the window, is the beginning of them.
\* No bit is lost or read twice, the fast loop stays in its input, a sound
\* stream never fails, reset() throws nothing away, and where all its blocks are
\* coded nothing is left in the window once the rectangle's bytes are taken.
InflatedIsSaid ==
  /\ doing # "failed" =>
       IsPrefix(delivered \o ahead \o in.out \o Pending(blk), stream.plain[Blocks])
  /\ zmode = "BLOCKS" /\ blk.mode \in {"TYPE", "TABLE"} =>
       8 * taken - blk.k = stream.starts[field]
  /\ zmode = "CHECK" => 8 * taken = stream.starts[field]
  /\ in.avail >= 0 /\ dropped = <<>>
  /\ Sound => doing # "failed"
  /\ Sound /\ Coded /\ bytesIn = 0 /\ calling = "no" => blk.read = blk.write
=============================================================================
