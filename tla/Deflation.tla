------------------------------ MODULE Deflation ------------------------------
(***************************************************************************)
(* The compressed stream under ZRLE: ZlibOutStream and zlib's deflate()    *)
(* at the levels that the parameter ZlibLevel may ask for: stored, fast     *)
(* and with lazy matching.  The window is small, and so are the buffers; a *)
(* unit of output stands for the bits of one literal, match or marker, and *)
(* takes one byte.  The last unit of a coded block stays in the bit buffer *)
(* until more follows.                                                     *)
(***************************************************************************)
EXTENDS Integers, Sequences, SequencesExt

CONSTANTS
  Texts,          \* what is written to the stream: sequences of small numbers
  Flushes,        \* after which of its bytes flush() is called, and at the end
  Storing,        \* of which blocks it is shorter to store them: see Stores
  Rooms,          \* what the MemOutStream below begins with
  bufSize,        \* of the ZlibOutStream
  w_size, MAX_MATCH, lit_bufsize,
  hash_size, hash_shift,
  Levels,         \* values of the parameter ZlibLevel, -1 the default
  TOO_FAR         \* a shortest match from further back is not worth it

MIN_MATCH == 3
MIN_LOOKAHEAD == MAX_MATCH + MIN_MATCH + 1
MAX_DIST == w_size - MIN_LOOKAHEAD
NIL == 0
pending_buf_size == 4 * lit_bufsize
NoFlush == 0
SyncFlush == 2

VARIABLES
  text, flushAt, storing,  \* chosen once
  compressLevel,  \* of the ZlibOutStream
  room,           \* end - start of the MemOutStream
  used,           \* ptr - start
  written,        \* bytes of the text that were written to the stream
  buf,            \* start .. ptr of the ZlibOutStream
  op,             \* "idle", "overrun", "flush": what the stream is doing; or "refused"
  pc,             \* "idle", "call", "compress", "back": where deflate() is
  z,              \* z_stream and deflate_state
  rc,             \* what deflate() returned
  emitted            \* units that the underlying stream has got

deflationVars ==
  <<text, flushAt, storing, compressLevel, room, used, written, buf, op, pc, z, rc, emitted>>

\* Levels 0 to 9, and -1 for 6: deflateInit2_ refuses others, and the encoder
\* is not made.
level == IF compressLevel = -1 THEN 6 ELSE compressLevel

\* configuration_table: what a level tries, and by which function.
Config(good, lazy, nice, chain, func) ==
  [good_length |-> good, max_lazy |-> lazy, nice_length |-> nice, max_chain |-> chain,
   func |-> func]
configuration_table ==
  <<Config(4, 4, 8, 4, "fast"), Config(4, 5, 16, 8, "fast"), Config(4, 6, 32, 32, "fast"),
    Config(4, 4, 16, 16, "slow"), Config(8, 16, 32, 32, "slow"), Config(8, 16, 128, 128, "slow"),
    Config(8, 32, 128, 256, "slow"), Config(32, 128, 258, 1024, "slow"),
    Config(32, 258, 258, 4096, "slow")>>
config == IF level = 0 THEN Config(0, 0, 0, 0, "stored") ELSE configuration_table[level]

Lit(b) == [t |-> "lit", b |-> b]
MatchOf(dist, len) == [t |-> "match", dist |-> dist, len |-> len]
Mark(t) == [t |-> t]
LesserOf(a, b) == IF a < b THEN a ELSE b

-----------------------------------------------------------------------------
(* Output: the block, the bit buffer, pending and the room there is. *)

\* flush_pending.
FlushPending(s) ==
  LET n == LesserOf(Len(s.pending), s.avail_out)
  IN  [s EXCEPT !.out = @ \o SubSeq(s.pending, 1, n),
                !.pending = SubSeq(@, n + 1, Len(@)), !.avail_out = @ - n]

\* compress_block: all but the last unit leave the bit buffer.
CompressBlock(s) ==
  LET units == s.bits \o s.block \o <<Mark("eob")>>
  IN  [s EXCEPT !.pending = @ \o Front(units), !.bits = <<Last(units)>>]

\* _tr_stored_block: the bit buffer is wound up, and the bytes follow.
StoredBlock(s, from, to) ==
  [s EXCEPT !.bits = <<>>,
            !.pending = @ \o s.bits \o <<Mark("stored")>>
              \o [i \in 1 .. to - from |-> Lit(s.window[from + i - 1])]]

\* The block as it stands in the window.
StoredFromStart(s) == StoredBlock(s, s.block_start, s.strstart)

\* Which is shorter depends on the trees; here the place of the block tells.
\* No trees are built at level 0.
Stores(s) ==
  /\ s.block_start >= 0
  /\ level = 0 \/ (s.strstart > s.block_start /\ s.block_start % 3 \in storing)

\* _tr_flush_block and FLUSH_BLOCK_ONLY: the block is stored if that is shorter
\* and its bytes are still in the window.
FlushBlockOnly(s) ==
  FlushPending([(IF Stores(s) THEN StoredFromStart(s) ELSE CompressBlock(s))
                  EXCEPT !.block = <<>>, !.block_start = s.strstart])

-----------------------------------------------------------------------------
(* The window and its hash chains. *)

UpdateHash(h, c) == (h * hash_shift + c) % hash_size

\* INSERT_STRING.
InsertedHash(s, str) == UpdateHash(s.ins_h, s.window[str + MIN_MATCH - 1])
HashHead(s, str) == s.head[InsertedHash(s, str)]
InsertString(s, str) ==
  [s EXCEPT !.ins_h = InsertedHash(s, str), !.hash_head = HashHead(s, str),
            !.prev[str % w_size] = HashHead(s, str),
            !.head[InsertedHash(s, str)] = str]

\* What becomes of a place in the chains when the window slides.
Slid(m) == IF m >= w_size THEN m - w_size ELSE NIL

Slide(s) ==
  [s EXCEPT !.window = [i \in DOMAIN @ |-> IF i < w_size THEN @[i + w_size] ELSE @[i]],
            !.match_start = @ - w_size, !.strstart = @ - w_size,
            !.block_start = @ - w_size,
            !.head = [h \in DOMAIN @ |-> Slid(@[h])],
            !.prev = [i \in DOMAIN @ |-> Slid(@[i])]]

\* read_buf.
ReadBuf(s, more) ==
  LET n == LesserOf(Len(s.in), more)
      at == s.strstart + s.lookahead
  IN  [s EXCEPT !.window = [i \in DOMAIN @ |->
                    IF i \in at .. at + n - 1 THEN s.in[i - at + 1] ELSE @[i]],
                !.in = SubSeq(@, n + 1, Len(@)), !.lookahead = @ + n]

\* The hash is begun anew once there is enough input for it.
InitHash(s) ==
  IF s.lookahead < MIN_MATCH THEN s
  ELSE [s EXCEPT !.ins_h =
          UpdateHash(s.window[s.strstart] % hash_size, s.window[s.strstart + 1])]

RECURSIVE fill_window(_)
fill_window(s) ==
  LET t == IF s.strstart >= w_size + MAX_DIST THEN Slide(s) ELSE s
      more == 2 * w_size - t.lookahead - t.strstart
      u == InitHash(ReadBuf(t, more))
  IN  IF t.in = <<>> THEN t
      ELSE IF u.lookahead < MIN_LOOKAHEAD /\ u.in # <<>> THEN fill_window(u) ELSE u

\* The bytes that two strings share, from the i-th on and up to MAX_MATCH.
RECURSIVE Common(_, _, _, _)
Common(s, a, b, i) ==
  IF i < MAX_MATCH /\ s.window[a + i] = s.window[b + i]
  THEN Common(s, a, b, i + 1) ELSE i

\* A match ends where the input does.
Available(s, len) == LesserOf(len, s.lookahead)

\* longest_match: the chain is followed while it gets better.  Third bytes are
\* not compared, because the strings have the same hash.
RECURSIVE Longest(_, _, _, _, _)
Longest(s, cur, chain, best, start) ==
  LET scan == s.strstart
      same(i) == s.window[cur + i] = s.window[scan + i]
      len == IF same(best) /\ same(best - 1) /\ same(0) /\ same(1)
             THEN Common(s, cur, scan, 3) ELSE 0
      found == len > best
      next == s.prev[cur % w_size]
      limit == IF scan > MAX_DIST THEN scan - MAX_DIST ELSE NIL
      best1 == IF found THEN len ELSE best
      start1 == IF found THEN cur ELSE start
  IN  IF (found /\ len >= LesserOf(config.nice_length, s.lookahead)) \/ next <= limit \/ chain = 1
      THEN [len |-> Available(s, best1), start |-> start1]
      ELSE Longest(s, next, chain - 1, best1, start1)

longest_match(s, cur) ==
  Longest(s, cur, IF s.prev_length >= config.good_length THEN config.max_chain \div 4
                  ELSE config.max_chain, s.prev_length, s.match_start)

-----------------------------------------------------------------------------
(* The compression functions.  A turn of their loop yields the state, and   *)
(* where it goes on or what the function returns.                           *)

Result(s, next) == [s |-> s, next |-> next]

\* FLUSH_BLOCK returns when there is no room left.
Flushed(f, next) == Result(f, IF f.avail_out = 0 THEN "need_more" ELSE next)

Filled(s, enough) == IF s.lookahead < enough THEN fill_window(s) ELSE s

\* deflate_stored: all that was read becomes part of the block, which is
\* written when it is as large as pending, or when the window must slide.
max_block_size == LesserOf(65535, pending_buf_size - 5)

AllTaken(s) == [s EXCEPT !.strstart = @ + s.lookahead, !.lookahead = 0]
Largest(s) == s.block_start + max_block_size
CutAtLargest(s) ==
  FlushBlockOnly([s EXCEPT !.strstart = Largest(s), !.lookahead = s.strstart - Largest(s)])
MustSlide(s) == s.strstart - s.block_start >= MAX_DIST

StoredSoFar(s) ==
  IF MustSlide(s) THEN Flushed(FlushBlockOnly(s), "compress") ELSE Result(s, "compress")
AfterCut(s) == IF s.avail_out = 0 THEN Result(s, "need_more") ELSE StoredSoFar(s)
Taken(s) == IF s.strstart >= Largest(s) THEN AfterCut(CutAtLargest(s)) ELSE StoredSoFar(s)

StoredTurn(s) ==
  IF s.lookahead = 0 /\ op = "overrun" THEN Result(s, "need_more")
  ELSE IF s.lookahead = 0 THEN Flushed(FlushBlockOnly(s), "block_done")
  ELSE Taken(AllTaken(s))

deflate_stored(s) == StoredTurn(Filled(s, 2))

\* _tr_tally, which tells when the block is full.
Tally(s, unit) == [s EXCEPT !.block = Append(@, unit)]
BlockFull(s) == Len(s.block) = lit_bufsize - 1

\* deflate_fast: the first match that is found is used.  Its strings are
\* inserted if it is short; otherwise the hash is begun anew behind it.
Inserted(s) == IF s.lookahead >= MIN_MATCH THEN InsertString(s, s.strstart) ELSE s
Matched(s, m) == [s EXCEPT !.match_length = m.len, !.match_start = m.start]
FastSearch(s) ==
  IF s.hash_head # NIL /\ s.hash_head <= s.strstart /\ s.strstart - s.hash_head <= MAX_DIST
  THEN Matched(s, longest_match(s, s.hash_head)) ELSE s

RECURSIVE InsertAll(_, _)
InsertAll(s, n) ==
  IF n = 0 THEN s
  ELSE InsertAll(InsertString([s EXCEPT !.strstart = @ + 1], s.strstart + 1), n - 1)

Skipped(s) ==
  LET t == [s EXCEPT !.strstart = @ + s.match_length]
  IN  [t EXCEPT !.ins_h =
         UpdateHash(t.window[t.strstart] % hash_size, t.window[t.strstart + 1])]

Insertable(s) == s.match_length <= config.max_lazy /\ s.lookahead >= MIN_MATCH
MatchTallied(s) ==
  [Tally(s, MatchOf(s.strstart - s.match_start, s.match_length))
     EXCEPT !.lookahead = @ - s.match_length]
PastMatch(s) ==
  IF Insertable(s)
  THEN [InsertAll(s, s.match_length - 1) EXCEPT !.strstart = @ + 1, !.match_length = 0]
  ELSE [Skipped(s) EXCEPT !.match_length = 0]

FastLiteral(s) ==
  [Tally(s, Lit(s.window[s.strstart])) EXCEPT !.lookahead = @ - 1, !.strstart = @ + 1]

FastStep(s) ==
  IF s.match_length >= MIN_MATCH THEN PastMatch(MatchTallied(s)) ELSE FastLiteral(s)
FlushIfFull(s) ==
  IF BlockFull(s) THEN Flushed(FlushBlockOnly(s), "compress") ELSE Result(s, "compress")

FastTurn(s) ==
  IF s.lookahead < MIN_LOOKAHEAD /\ op = "overrun" THEN Result(s, "need_more")
  ELSE IF s.lookahead = 0 THEN Flushed(FlushBlockOnly(s), "block_done")
  ELSE FlushIfFull(FastStep(FastSearch(Inserted(s))))

deflate_fast(s) == FastTurn(Filled(s, MIN_LOOKAHEAD))

-----------------------------------------------------------------------------
(* deflate_slow: one turn of its loop, from a state with the input filled in. *)

\* The search for a match at strstart, better than the one before it.  Where
\* no string is inserted any more it begins at the head of an earlier one; that
\* may lie ahead by now, which a distance without a sign takes for far away.
Searched(s, m) ==
  LET far == m.len = MIN_MATCH /\ s.strstart - m.start > TOO_FAR
  IN  Matched(s, [m EXCEPT !.len = IF far THEN MIN_MATCH - 1 ELSE @])

LazySearch(s) ==
  IF s.prev_length < config.max_lazy /\ s.hash_head # NIL
     /\ s.hash_head <= s.strstart /\ s.strstart - s.hash_head <= MAX_DIST
  THEN Searched(s, longest_match(s, s.hash_head)) ELSE s

Search(s) ==
  LazySearch([Inserted(s) EXCEPT !.prev_length = s.match_length,
                                 !.prev_match = s.match_start, !.match_length = MIN_MATCH - 1])

\* Strings of the match are inserted, as far as the input goes.
RECURSIVE InsertMatch(_, _, _)
InsertMatch(s, n, max_insert) ==
  IF n = 0 THEN s
  ELSE LET t == [s EXCEPT !.strstart = @ + 1]
       IN  InsertMatch(IF t.strstart <= max_insert THEN InsertString(t, t.strstart) ELSE t,
                       n - 1, max_insert)

\* The match of the step before is used.
TakesPrevious(s) == s.prev_length >= MIN_MATCH /\ s.match_length <= s.prev_length

PreviousMatch(s) ==
  LET t == Tally(s, MatchOf(s.strstart - 1 - s.prev_match, s.prev_length))
      max_insert == s.strstart + s.lookahead - MIN_MATCH
      u == InsertMatch([t EXCEPT !.lookahead = @ - (s.prev_length - 1)],
                       s.prev_length - 2, max_insert)
  IN  [u EXCEPT !.match_available = FALSE, !.match_length = MIN_MATCH - 1,
                !.strstart = @ + 1]

PreviousLiteral(s) == Tally(s, Lit(s.window[s.strstart - 1]))
Advanced(s) == [s EXCEPT !.strstart = @ + 1, !.lookahead = @ - 1]

\* The rest of the input is in the block: it is flushed.
LastFlush(s) ==
  FlushBlockOnly(
    [(IF s.match_available THEN PreviousLiteral(s) ELSE s) EXCEPT !.match_available = FALSE])

AfterLiteral(s) == Flushed(Advanced(IF BlockFull(s) THEN FlushBlockOnly(s) ELSE s), "compress")

Turn(s) ==
  IF TakesPrevious(s) THEN FlushIfFull(PreviousMatch(s))
  ELSE IF s.match_available THEN AfterLiteral(PreviousLiteral(s))
  ELSE Result(Advanced([s EXCEPT !.match_available = TRUE]), "compress")

SlowTurn(s) ==
  IF s.lookahead < MIN_LOOKAHEAD /\ op = "overrun" THEN Result(s, "need_more")
  ELSE IF s.lookahead = 0 THEN Flushed(LastFlush(s), "block_done")
  ELSE Turn(Search(s))

deflate_slow(s) == SlowTurn(Filled(s, MIN_LOOKAHEAD))


-----------------------------------------------------------------------------
(* deflate(). *)

flush == IF op = "flush" THEN SyncFlush ELSE NoFlush

ReturnCode(s, code) == z' = s /\ rc' = code /\ pc' = "back"

\* Mutant: a call that has used up the output does not say so to the next one.
NotStalled(s) == s

\* The output is full: the next call may have nothing to do, which is no error.
Stalled(s) == IF s.avail_out = 0 THEN [s EXCEPT !.last_flush = -1] ELSE s
\* The header, and what the last call left in pending.
RunDeflate ==
  /\ pc = "call"
  /\ LET old_flush == z.last_flush
         s == [z EXCEPT !.last_flush = flush, !.init = TRUE,
                        !.pending = IF z.init THEN @ ELSE @ \o <<Mark("header"), Mark("header")>>]
         f == FlushPending(s)
     IN  IF s.pending # <<>> /\ f.avail_out = 0 THEN ReturnCode(Stalled(f), "ok")
         ELSE IF s.pending = <<>> /\ s.in = <<>> /\ flush <= old_flush
         THEN ReturnCode(s, "buf_error")
         ELSE IF f.in # <<>> \/ f.lookahead # 0 \/ flush # NoFlush
         THEN z' = [f EXCEPT !.hash_head = NIL] /\ pc' = "compress" /\ rc' = rc
         ELSE ReturnCode(f, "ok")
  /\ UNCHANGED <<text, flushAt, storing, compressLevel, room, used, written, buf, op, emitted>>

Synced(s) == FlushPending([s EXCEPT !.bits = <<>>, !.pending = @ \o s.bits \o <<Mark("sync")>>])

GoOn(r) ==
  CASE r.next = "compress" -> z' = r.s /\ UNCHANGED <<pc, rc>>
    [] r.next = "need_more" -> ReturnCode(Stalled(r.s), "ok")
    [] r.next = "block_done" -> ReturnCode(Stalled(Synced(r.s)), "ok")

Compress ==
  /\ pc = "compress"
  /\ GoOn(CASE config.func = "stored" -> deflate_stored(z)
            [] config.func = "fast" -> deflate_fast(z)
            [] config.func = "slow" -> deflate_slow(z))
  /\ UNCHANGED <<text, flushAt, storing, compressLevel, room, used, written, buf, op, emitted>>

-----------------------------------------------------------------------------
(* ZlibOutStream. *)

\* MemOutStream::overrun doubles the buffer when check(1) finds it full.
GrownRoom(n) == IF n = room THEN 2 * room ELSE room

\* The underlying stream is asked for room, and deflate() is called.
CallDeflate(what, in, n) ==
  /\ op' = what /\ pc' = "call" /\ used' = n /\ room' = GrownRoom(n)
  /\ z' = [z EXCEPT !.in = in, !.out = <<>>, !.avail_out = GrownRoom(n) - n]

Begin(what) ==
  /\ CallDeflate(what, buf, used)
  /\ UNCHANGED <<text, flushAt, storing, compressLevel, written, buf, rc, emitted>>

Due == written # <<>> /\ (Len(written) \in flushAt \/ written = text)

WriteByte ==
  /\ op = "idle" /\ Len(buf) < bufSize /\ written # text /\ ~(Due /\ buf # <<>>)
  /\ written' = Append(written, text[Len(written) + 1])
  /\ buf' = Append(buf, text[Len(written) + 1])
  /\ UNCHANGED <<text, flushAt, storing, compressLevel, room, used, op, pc, z, rc, emitted>>

DeflateOverrun == op = "idle" /\ ~Due /\ written # text /\ Len(buf) = bufSize /\ Begin("overrun")
FlushStream == op = "idle" /\ Due /\ buf # <<>> /\ Begin("flush")

\* deflate() is back: setptr, and again while there was no room left.  Once the
\* stream is flushed the encoder takes what is in the MemOutStream, and clears it.
Back ==
  /\ pc = "back" /\ emitted' = emitted \o z.out
  /\ IF rc = "buf_error"
     THEN pc' = "failed" /\ UNCHANGED <<z, buf, op, used, room>>
     ELSE IF z.avail_out = 0 \/ (op = "flush" /\ z.in # <<>>)
     THEN CallDeflate(op, z.in, used + Len(z.out)) /\ UNCHANGED buf
     ELSE /\ pc' = "idle" /\ op' = "idle" /\ buf' = z.in /\ room' = room
          /\ used' = IF op = "flush" THEN 0 ELSE used + Len(z.out)
          /\ z' = [z EXCEPT !.out = <<>>, !.in = <<>>]
  /\ UNCHANGED <<text, flushAt, storing, compressLevel, written, rc>>

\* lm_init, with CLEAR_HASH.
ClearedHash == [h \in 0 .. hash_size - 1 |-> NIL]
lm_init(s) ==
  [s EXCEPT !.head = ClearedHash, !.strstart = 0, !.block_start = 0, !.lookahead = 0,
            !.match_length = MIN_MATCH - 1, !.prev_length = MIN_MATCH - 1,
            !.match_available = FALSE, !.ins_h = 0]

\* What deflateInit_ allocates, and deflateReset sets.
Allocated ==
  [in |-> <<>>, avail_out |-> 0, out |-> <<>>, pending |-> <<>>, bits |-> <<>>,
   init |-> FALSE, last_flush |-> NoFlush, block |-> <<>>, block_start |-> 0,
   window |-> [i \in 0 .. 2 * w_size - 1 |-> 0], head |-> ClearedHash,
   prev |-> [i \in 0 .. w_size - 1 |-> NIL],
   strstart |-> 0, lookahead |-> 0, ins_h |-> 0, hash_head |-> NIL, match_start |-> 0,
   prev_match |-> 0, match_length |-> 0, prev_length |-> 0, match_available |-> FALSE]
deflateReset(s) ==
  lm_init([s EXCEPT !.pending = <<>>, !.bits = <<>>, !.block = <<>>, !.init = FALSE,
                    !.last_flush = NoFlush])

\* The constructor throws when deflateInit refuses the level.
Refused == level \notin 0 .. 9

DeflationInit ==
  /\ text \in Texts /\ flushAt \in Flushes /\ storing \in Storing
  /\ compressLevel \in Levels /\ room \in Rooms /\ used = 0
  /\ written = <<>> /\ buf = <<>> /\ pc = "idle" /\ rc = "ok" /\ emitted = <<>>
  /\ op = IF Refused THEN "refused" ELSE "idle"
  /\ z = deflateReset(Allocated)

DeflationNext == WriteByte \/ DeflateOverrun \/ FlushStream \/ RunDeflate \/ Compress \/ Back
DeflationSpec == DeflationInit /\ [][DeflationNext]_deflationVars

-----------------------------------------------------------------------------
\* What the receiver makes of the units: a match copies from the bytes before.
RECURSIVE BackCopied(_, _, _)
BackCopied(bytes, dist, n) ==
  IF n = 0 THEN bytes ELSE BackCopied(Append(bytes, bytes[Len(bytes) + 1 - dist]), dist, n - 1)
Decoded(units) ==
  FoldLeft(LAMBDA bytes, u :
             CASE u.t = "lit" -> Append(bytes, u.b)
               [] u.t = "match" -> BackCopied(bytes, u.dist, u.len)
               [] OTHER -> bytes,
           <<>>, units)

\* However the bytes are cut, flushed and squeezed through the room there is,
\* the receiver makes the bytes that were written of them, in their order, and
\* all of them once flush() has returned; no match reaches further back than
\* the receiver's window, and no call of deflate() fails.
CompressedIsWritten ==
  /\ IsPrefix(Decoded(emitted), written)
  /\ op = "idle" /\ Due /\ buf = <<>> => Decoded(emitted) = written
  /\ \A i \in DOMAIN emitted : emitted[i].t = "match" => emitted[i].dist \in 1 .. w_size
  /\ pc # "failed"
=============================================================================
