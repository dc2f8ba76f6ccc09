---------------------------- MODULE HuffmanTrees ----------------------------
(***************************************************************************)
(* The codes of a compressed block, from one end to the other: trees.c      *)
(* makes them from the frequencies of the symbols and sends their lengths,  *)
(* inftrees.c makes its tables from the lengths.  A tree is described by    *)
(* how many symbols it has, from which symbol on and with how many bits a   *)
(* code is followed by extra ones, how long a code may be, and the lengths  *)
(* of the static tree, if there is one.                                     *)
(***************************************************************************)
EXTENDS Integers, Sequences, FiniteSetsExt, SequencesExt

CONSTANTS
  LFreqs, DFreqs,     \* frequencies of literals and lengths, of distances
  lDesc, dDesc,       \* static_l_desc, static_d_desc
  StoredLens,         \* how many bytes the block is made of
  blMaxLength,        \* MAX_BL_BITS
  lBits, dBits,       \* the widths of the decoder's first tables
  MANY                \* how many entries its tables may have

VARIABLES
  stage,      \* what is done next
  lfreq, dfreq,
  finished,       \* tree_desc: the trees that are finished
  tree,       \* the one in work: heap, depth, dads, frequencies and lengths
  opt_len, static_len,
  sentTrees,       \* what send_all_trees has sent
  received,   \* the lengths that inflate has read
  tables      \* what huft_build has made of them

treesVars == <<stage, lfreq, dfreq, finished, tree, opt_len, static_len, sentTrees, received, tables>>

BL_CODES == 19
REP_3_6 == 16
REPZ_3_10 == 17
REPZ_11_138 == 18
bl_order == <<16, 17, 18, 0, 8, 7, 9, 6, 10, 5, 11, 4, 12, 3, 13, 2, 14, 1, 15>>
blDesc == [elems |-> BL_CODES, base |-> 16, extra |-> <<2, 3, 7>>, max_length |-> blMaxLength,
           static |-> <<>>]

\* extra[n - base], or none.
ExtraBits(desc, n) == IF n >= desc.base THEN desc.extra[n - desc.base + 1] ELSE 0
StaticLen(desc, n) == IF desc.static = <<>> THEN 0 ELSE desc.static[n + 1]
SumOver(S, f(_)) == MapThenSumSet(f, S)

-----------------------------------------------------------------------------
(* build_tree: the heap of the nodes that have no father yet. *)

\* smaller.
SmallerNode(t, n, m) == t.freq[n] < t.freq[m] \/ (t.freq[n] = t.freq[m] /\ t.depth[n] <= t.depth[m])

\* pqdownheap.
RECURSIVE DownHeap(_, _)
DownHeap(t, k) ==
  LET right == 2 * k + 1 <= Len(t.heap) /\ SmallerNode(t, t.heap[2 * k + 1], t.heap[2 * k])
      j == IF right THEN 2 * k + 1 ELSE 2 * k
  IN  IF 2 * k > Len(t.heap) \/ SmallerNode(t, t.heap[k], t.heap[j]) THEN t
      ELSE DownHeap([t EXCEPT !.heap[k] = t.heap[j], !.heap[j] = t.heap[k]], j)

\* At least two codes: the forced ones are 0, 1 or the one after the only one.
RECURSIVE AtLeastTwo(_)
AtLeastTwo(t) ==
  IF Len(t.heap) >= 2 THEN t
  ELSE LET node == IF t.max_code < 2 THEN t.max_code + 1 ELSE 0
       IN  AtLeastTwo([t EXCEPT !.heap = Append(@, node), !.freq[node] = 1,
                                !.max_code = IF @ < 2 THEN node ELSE @, !.forced = @ \cup {node}])

NewTree(desc, freqs) ==
  LET used == {n \in 0 .. desc.elems - 1 : freqs[n] > 0}
      nodes == 0 .. 2 * desc.elems
      t == AtLeastTwo(
             [desc |-> desc, heap |-> SelectSeq([i \in 1 .. desc.elems |-> i - 1], LAMBDA n : freqs[n] > 0), sorted |-> <<>>,
              max_code |-> IF used = {} THEN -1 ELSE Max(used), forced |-> {}, node |-> desc.elems,
              freq |-> [n \in nodes |-> IF n < desc.elems THEN freqs[n] ELSE 0],
              depth |-> [n \in nodes |-> 0], dad |-> [n \in nodes |-> -1],
              lens |-> [n \in 0 .. desc.elems - 1 |-> 0], codes |-> <<>>])
      n == Len(t.heap) \div 2
  IN  FoldLeft(DownHeap, t, [i \in 1 .. n |-> n + 1 - i])

\* The two of least frequency get a father.
CombineTwo(t) ==
  LET n == t.heap[1]
      left == DownHeap([t EXCEPT !.heap = <<Last(@)>> \o Tail(Front(@))], 1)
      m == left.heap[1]
  IN  DownHeap([left EXCEPT
         !.sorted = <<m, n>> \o @, !.heap[1] = t.node, !.node = @ + 1,
         !.freq[t.node] = t.freq[n] + t.freq[m],
         !.depth[t.node] = 1 + (IF t.depth[n] >= t.depth[m] THEN t.depth[n] ELSE t.depth[m]),
         !.dad[n] = t.node, !.dad[m] = t.node], 1)

-----------------------------------------------------------------------------
(* gen_bitlen and gen_codes. *)

LengthCount(t, lens, b) == Cardinality({n \in 0 .. t.max_code : lens[n] = b})

\* Lengths from the root down, none longer than allowed.
FirstPass(t) ==
  FoldLeft(LAMBDA acc, n :
             LET b == IF t.dad[n] = -1 THEN 0 ELSE acc.len[t.dad[n]] + 1
                 max == t.desc.max_length
             IN  [acc EXCEPT !.len[n] = IF b > max THEN max ELSE b,
                             !.overflow = IF b > max THEN @ + 1 ELSE @],
           [len |-> [n \in DOMAIN t.dad |-> 0], overflow |-> 0], t.sorted)

\* Mutant: one overflow item is dealt with at a time.
OneLess(overflow) == overflow - 1

\* Each round takes care of two.
TwoLess(overflow) == overflow - 2

\* One leaf goes down the tree, with an overflow item as its brother.
RECURSIVE Balanced(_, _, _)
Balanced(count, max, overflow) ==
  IF overflow <= 0 THEN count
  ELSE LET b == Max({i \in 1 .. max - 1 : count[i] > 0})
           one == [count EXCEPT ![b] = @ - 1]
           two == [one EXCEPT ![b + 1] = @ + 2]
       IN  Balanced([two EXCEPT ![max] = @ - 1], max, TwoLess(overflow))

\* How many are longer than each length, so that the leaves in increasing
\* frequency get the lengths from the longest down.
GenBitlen(t) ==
  LET first  == FirstPass(t)
      max    == t.desc.max_length
      leaves == SelectSeq(Reverse(t.sorted), LAMBDA n : n <= t.max_code)
      lens   == [n \in DOMAIN t.lens |-> IF n \in Range(leaves) THEN first.len[n] ELSE 0]
      count  == Balanced([b \in 1 .. max |-> LengthCount(t, lens, b)], max, first.overflow)
      longer(b) == SumOver(b + 1 .. max, LAMBDA i : count[i])
  IN  IF first.overflow = 0 THEN lens
      ELSE [n \in DOMAIN lens |->
              IF n \notin Range(leaves) THEN 0
              ELSE LET i == CHOOSE j \in DOMAIN leaves : leaves[j] = n
                   IN  CHOOSE b \in 1 .. max : longer(b) < i /\ i <= longer(b) + count[b]]

\* bi_reverse.
RECURSIVE Reversed(_, _)
Reversed(value, len) ==
  IF len = 0 THEN 0 ELSE (value % 2) * 2 ^ (len - 1) + Reversed(value \div 2, len - 1)

\* The codes of one length follow each other, in the order of the symbols.
GenCodes(t, lens) ==
  LET max == t.desc.max_length
      count(b) == IF b = 0 THEN 0 ELSE LengthCount(t, lens, b)
      first == FoldLeft(LAMBDA acc, b : Append(acc, 2 * (Last(acc) + count(b - 1))),
                        <<0>>, [b \in 1 .. max |-> b])
  IN  [n \in {m \in 0 .. t.max_code : lens[m] > 0} |->
         Reversed(first[lens[n] + 1] + Cardinality({m \in 0 .. n - 1 : lens[m] = lens[n]}),
                  lens[n])]

\* What the block takes with these lengths and with the static ones, the forced
\* codes apart.
LengthOf(t, len(_)) ==
  SumOver({n \in 0 .. t.max_code : t.freq[n] > 0},
          LAMBDA n : t.freq[n] * (len(n) + ExtraBits(t.desc, n)))
OptLen(t, lens) == LengthOf(t, LAMBDA n : lens[n]) - Cardinality(t.forced)
StaticLenOf(t) ==
  IF t.desc.static = <<>> THEN 0
  ELSE LengthOf(t, LAMBDA n : StaticLen(t.desc, n)) - SumOver(t.forced, LAMBDA n : StaticLen(t.desc, n))

Finished(t) ==
  LET lens == GenBitlen(t)
  IN  [desc |-> t.desc, max_code |-> t.max_code, lens |-> lens, codes |-> GenCodes(t, lens),
       bits |-> OptLen(t, lens), static |-> StaticLenOf(t)]

-----------------------------------------------------------------------------
(* scan_tree and send_tree: the lengths with runs of them repeated. *)

Plain(len) == [code |-> len, n |-> 0]
RunLimits(cur, next) ==
  IF next = 0 THEN [max |-> 138, min |-> 3]
  ELSE IF cur = next THEN [max |-> 6, min |-> 3]
  ELSE [max |-> 7, min |-> 4]

\* A run of lengths that are not zero: unless it goes on from the last one
\* sent, the first is sent as it is.
RunOf(cur, prev, count) ==
  IF cur # prev THEN <<Plain(cur), [code |-> REP_3_6, n |-> count - 4]>>
  ELSE <<[code |-> REP_3_6, n |-> count - 3]>>

SendTree(t) ==
  LET at(n) == IF n > t.max_code THEN -1 ELSE t.lens[n]
      step(acc, n) ==
        LET cur == at(n) next == at(n + 1) count == acc.count + 1
            run == CASE count < acc.lim.min -> [i \in 1 .. count |-> Plain(cur)]
                     [] count >= acc.lim.min /\ cur # 0 -> RunOf(cur, acc.prev, count)
                     [] count >= acc.lim.min /\ cur = 0 /\ count <= 10 ->
                          <<[code |-> REPZ_3_10, n |-> count - 3]>>
                     [] OTHER -> <<[code |-> REPZ_11_138, n |-> count - 11]>>
        IN  IF count < acc.lim.max /\ cur = next THEN [acc EXCEPT !.count = count]
            ELSE [out |-> acc.out \o run, count |-> 0, prev |-> cur, lim |-> RunLimits(cur, next)]
      begin == [out |-> <<>>, count |-> 0, prev |-> -1, lim |-> RunLimits(-2, at(0))]
  IN  FoldLeft(step, begin, [i \in 1 .. t.max_code + 1 |-> i - 1]).out

\* build_bl_tree: how many of the lengths of its codes are sent.
BlCodes(bl) ==
  Max({3} \cup {i \in 4 .. BL_CODES : bl_order[i] \in DOMAIN bl.lens /\ bl.lens[bl_order[i]] # 0})

-----------------------------------------------------------------------------
(* The states: one tree after the other, sent, read and made into tables. *)

BlFreqs(runs) == [n \in 0 .. BL_CODES - 1 |-> Len(SelectSeq(runs, LAMBDA r : r.code = n))]
LengthRuns(m) == SendTree(m[1]) \o SendTree(m[2])

\* init_block and _tr_tally: every length that was counted has its distance.
TreesInit ==
  /\ stage = "trees" /\ lfreq \in LFreqs /\ dfreq \in DFreqs
  /\ SumOver({n \in DOMAIN lfreq : n >= lDesc.base}, LAMBDA n : lfreq[n])
       = SumOver(DOMAIN dfreq, LAMBDA n : dfreq[n])
  /\ finished = <<>> /\ tree = NewTree(lDesc, lfreq) /\ opt_len = 0 /\ static_len = 0
  /\ sentTrees = <<>> /\ received = <<>> /\ tables = <<>>

Combine ==
  /\ stage = "trees" /\ Len(tree.heap) >= 2 /\ tree' = CombineTwo(tree)
  /\ UNCHANGED <<stage, lfreq, dfreq, finished, opt_len, static_len, sentTrees, received, tables>>

\* The literals', the distances' and then the bit lengths' own tree.
TreeDone ==
  /\ stage = "trees" /\ Len(tree.heap) = 1
  /\ LET done == Finished([tree EXCEPT !.sorted = tree.heap \o @])
         now  == Append(finished, done)
     IN  /\ finished' = now
         /\ opt_len' = opt_len + done.bits + (IF Len(now) = 3 THEN 3 * BlCodes(done) + 14 ELSE 0)
         /\ static_len' = static_len + done.static
         /\ stage' = IF Len(now) = 3 THEN "kind" ELSE "trees"
         /\ tree' = CASE Len(now) = 1 -> NewTree(dDesc, dfreq)
                      [] Len(now) = 2 -> NewTree(blDesc, BlFreqs(LengthRuns(now)))
                      [] OTHER -> tree
  /\ UNCHANGED <<lfreq, dfreq, sentTrees, received, tables>>

\* _tr_flush_block, for a level above 0: the block is sent with its own trees
\* if it is shorter so than with the static ones and than its bytes, which may
\* have left the window.
Bytes(bits) == (bits + 3 + 7) \div 8
FlushBlock ==
  /\ stage = "kind"
  /\ \E stored_len \in StoredLens, buf \in BOOLEAN :
       stage' = IF stored_len + 4 <= Min({Bytes(opt_len), Bytes(static_len)}) /\ buf THEN "stored"
                ELSE IF Bytes(static_len) <= Bytes(opt_len) THEN "static" ELSE "send"
  /\ UNCHANGED <<lfreq, dfreq, finished, tree, opt_len, static_len, sentTrees, received, tables>>

\* send_all_trees: the lengths of the codes that the lengths are sent in, and
\* these codes, each with how often it repeats.
SendAllTrees ==
  /\ stage = "send" /\ stage' = "bits"
  /\ sentTrees' = [lcodes |-> finished[1].max_code + 1, dcodes |-> finished[2].max_code + 1,
              blens |-> [i \in 1 .. BlCodes(finished[3]) |-> finished[3].lens[bl_order[i]]],
              runs |-> LET runs == LengthRuns(finished)
                       IN  [i \in DOMAIN runs |-> [bits |-> finished[3].codes[runs[i].code], n |-> runs[i].n]]]
  /\ UNCHANGED <<lfreq, dfreq, finished, tree, opt_len, static_len, received, tables>>

-----------------------------------------------------------------------------
(* The other end: inflate_blocks reads the lengths, huft_build makes tables. *)

CountOf(lens, b) == Cardinality({i \in DOMAIN lens : lens[i] = b})

\* The next code of k bits, from its first bit as the lowest.
RECURSIVE NextCode(_, _)
NextCode(i, bit) ==
  IF bit = 0 THEN i
  ELSE IF (i \div bit) % 2 = 1 THEN NextCode(i - bit, bit \div 2)
  ELSE i + bit

\* How many bits a table takes that begins w bits into codes of k bits, when
\* this code and a more of its length are left.
RECURSIVE Widened(_, _, _, _, _)
Widened(count, k, j, z, f) ==
  IF j + 1 >= z THEN (IF j < z THEN j + 1 ELSE j)
  ELSE IF 2 * f <= count[k + 1] THEN j + 1
  ELSE Widened(count, k + 1, j + 1, z, 2 * f - count[k + 1])
TableBits(count, k, w, a, z) ==
  IF 2 ^ (k - w) > a + 1 THEN Widened(count, k, k - w, z, 2 ^ (k - w) - (a + 1)) ELSE k - w

Invalid == -1

\* Tables down to the level where a code of k bits ends.
RECURSIVE Deepened(_, _, _, _, _, _)
Deepened(b, count, k, a, g, l) ==
  IF k <= b.w + l THEN b
  ELSE LET w == b.w + l
           bits == TableBits(count, k, w, a, IF g - w > l THEN l ELSE g - w)
           new == Len(b.hufts) + 1
           linked == IF b.stack = <<>> THEN b.hufts
                     ELSE [b.hufts EXCEPT ![Last(b.stack)][b.i \div 2 ^ (w - l)] =
                             [link |-> TRUE, bits |-> l, value |-> new, more |-> bits]]
           empty == [j \in 0 .. 2 ^ bits - 1 |-> [link |-> FALSE, bits |-> 0, value |-> Invalid, more |-> 0]]
       IN  Deepened([b EXCEPT !.w = w, !.hufts = Append(linked, empty), !.stack = Append(@, new),
                              !.x = Append(@, b.i)], count, k, a, g, l)

\* Back up over the tables that the next code is not in.
RECURSIVE BackedUp(_, _)
BackedUp(b, l) ==
  IF b.i % 2 ^ b.w = Last(b.x) THEN b
  ELSE BackedUp([b EXCEPT !.w = @ - l, !.stack = Front(@), !.x = Front(@)], l)

\* One code of c.k bits, with c.a more of that length to come.
PlaceCode(b, c, count, g, l) ==
  LET d == Deepened(b, count, c.k, c.a, g, l)
      q == Last(d.stack)
      at == d.i \div 2 ^ d.w
      filled == [j \in DOMAIN d.hufts[q] |->
                   IF j >= at /\ (j - at) % 2 ^ (c.k - d.w) = 0
                   THEN [link |-> FALSE, bits |-> c.k - d.w, value |-> c.v, more |-> 0]
                   ELSE d.hufts[q][j]]
  IN  BackedUp([d EXCEPT !.hufts[q] = filled, !.i = NextCode(@, 2 ^ (c.k - 1))], l)

Entries(hufts) == FoldLeft(LAMBDA sum, q : sum + Cardinality(DOMAIN q), 0, hufts)

\* huft_build of lengths, with m bits for the first table if that fits, where
\* hn entries are taken already; an incomplete code is filled up with invalid
\* ones.
HuftBuild(lens, m, hn) ==
  LET used == {lens[i] : i \in DOMAIN lens} \ {0}
      g == Max(used)
      l == IF m < Min(used) THEN Min(used) ELSE IF m > g THEN g ELSE m
      left == 2 ^ g - SumOver(1 .. g, LAMBDA b : CountOf(lens, b) * 2 ^ (g - b))
      values == [b \in 1 .. g |->
                   SelectSeq([i \in DOMAIN lens |-> i - 1], LAMBDA v : lens[v + 1] = b)
                     \o (IF b = g THEN [i \in 1 .. left |-> Invalid] ELSE <<>>)]
      count == [b \in 1 .. g |-> Len(values[b])]
      codes == FlattenSeq([b \in 1 .. g |->
                 [n \in 1 .. count[b] |-> [k |-> b, a |-> count[b] - n, v |-> values[b][n]]]])
      begin == [i |-> 0, w |-> -l, stack |-> <<>>, x |-> <<>>, hufts |-> <<>>]
      built == FoldLeft(LAMBDA b, c : PlaceCode(b, c, count, g, l), begin, codes).hufts
  IN  IF used = {} THEN [r |-> "Z_OK", bits |-> 0, hufts |-> <<>>]
      ELSE IF left < 0 \/ hn + Entries(built) > MANY THEN [r |-> "Z_DATA_ERROR", bits |-> l, hufts |-> <<>>]
      ELSE [r |-> IF left > 0 /\ g # 1 THEN "Z_BUF_ERROR" ELSE "Z_OK", bits |-> l,
            hufts |-> built]

\* inflate_codes: what is found for the next bits, and how many it takes.
RECURSIVE LookUp(_, _, _, _)
LookUp(hufts, q, width, next) ==
  LET e == hufts[q][next % 2 ^ width]
  IN  IF e.link
      THEN LET deeper == LookUp(hufts, e.value, e.more, next \div 2 ^ e.bits)
           IN  [deeper EXCEPT !.bits = @ + e.bits]
      ELSE [value |-> e.value, bits |-> e.bits]

\* inflate_trees_bits and inflate_trees_dynamic take an incomplete tree, or an
\* empty one, for an error, but for one of distances that nothing needs.
OrError(t, mayBeEmpty) ==
  IF t.r = "Z_OK" /\ (t.bits # 0 \/ mayBeEmpty) THEN t ELSE [t EXCEPT !.r = "Z_DATA_ERROR"]

\* TABLE: there are no more symbols than the formats know.
TooMany == sentTrees.lcodes > lDesc.elems \/ sentTrees.dcodes > dDesc.elems

\* BTREE: the lengths that are not sent are 0.
ReadBitLengths ==
  /\ stage = "bits"
  /\ LET lens == [n \in 1 .. BL_CODES |->
                    LET i == CHOOSE j \in 1 .. BL_CODES : bl_order[j] = n - 1
                    IN  IF i <= Len(sentTrees.blens) THEN sentTrees.blens[i] ELSE 0]
         t == OrError(HuftBuild(lens, 7, 0), FALSE)
     IN  /\ tables' = <<t>> /\ stage' = IF t.r = "Z_OK" /\ ~TooMany THEN "lengths" ELSE "bad"
  /\ UNCHANGED <<lfreq, dfreq, finished, tree, opt_len, static_len, sentTrees, received>>

\* DTREE: the lengths of both trees are one sequence of so many.  A run that is
\* too long, or repeats a length when there is none, ends the reading.
ReadRun(acc, r) ==
  LET c == LookUp(tables[1].hufts, 1, tables[1].bits, r.bits).value
      more == CASE c < 16 -> <<c>>
                [] c = REP_3_6 /\ acc.lens # <<>> -> [i \in 1 .. r.n + 3 |-> Last(acc.lens)]
                [] c = REPZ_3_10 -> [i \in 1 .. r.n + 3 |-> 0]
                [] c = REPZ_11_138 -> [i \in 1 .. r.n + 11 |-> 0]
                [] OTHER -> <<>>
  IN  IF ~acc.ok \/ more = <<>> \/ Len(acc.lens) + Len(more) > sentTrees.lcodes + sentTrees.dcodes
      THEN [acc EXCEPT !.ok = FALSE]
      ELSE [acc EXCEPT !.lens = @ \o more]

ReadLengths ==
  /\ stage = "lengths"
  /\ LET read == FoldLeft(ReadRun, [lens |-> <<>>, ok |-> TRUE], sentTrees.runs)
     IN  /\ received' = read.lens /\ stage' = IF read.ok THEN "tables" ELSE "bad"
  /\ UNCHANGED <<lfreq, dfreq, finished, tree, opt_len, static_len, sentTrees, tables>>

\* inflate_trees_dynamic.
BuildTables ==
  /\ stage = "tables"
  /\ LET n == sentTrees.lcodes
         lit  == OrError(HuftBuild(SubSeq(received, 1, n), lBits, 0), FALSE)
         dist == OrError(HuftBuild(SubSeq(received, n + 1, Len(received)), dBits, Entries(lit.hufts)),
                         n <= lDesc.base)
     IN  IF lit.r # "Z_OK" \/ dist.r # "Z_OK" THEN stage' = "bad" /\ tables' = tables
         ELSE stage' = "done" /\ tables' = <<lit, dist>> \o tables
  /\ UNCHANGED <<lfreq, dfreq, finished, tree, opt_len, static_len, sentTrees, received>>

TreesNext ==
  Combine \/ TreeDone \/ FlushBlock \/ SendAllTrees \/ ReadBitLengths \/ ReadLengths \/ BuildTables
TreesSpec == TreesInit /\ [][TreesNext]_treesVars

-----------------------------------------------------------------------------
\* The decoder reads what the encoder meant: each symbol's code, whatever bits
\* come after it, is found again in the tables that were made from the lengths
\* alone, and no code is longer than its tree allows.
CodesAgree ==
  /\ stage # "bad"
  /\ stage = "done" =>
       \A i \in 1 .. 3 :
         LET m == finished[i] t == tables[i]
         IN  \A n \in DOMAIN m.codes, after \in {0, 1, 2, 5, 31} :
               /\ m.lens[n] <= m.desc.max_length
               /\ LookUp(t.hufts, 1, t.bits, m.codes[n] + after * 2 ^ m.lens[n])
                    = [value |-> n, bits |-> m.lens[n]]

\* The lengths by which the kind of block is chosen are those it takes: every
\* code with its extra bits as often as it occurs, the lengths of the codes
\* and the counts; the codes forced in for the decoder are not in the block.
DataBits(desc, freqs, len(_)) ==
  SumOver({n \in DOMAIN freqs : freqs[n] > 0}, LAMBDA n : freqs[n] * (len(n) + ExtraBits(desc, n)))
RunBits(bl, runs) ==
  FoldLeft(LAMBDA sum, r : sum + bl.lens[r.code] + ExtraBits(bl.desc, r.code), 0, runs)
LengthIsTaken ==
  stage = "bits" =>
    /\ opt_len = DataBits(lDesc, lfreq, LAMBDA n : finished[1].lens[n])
                   + DataBits(dDesc, dfreq, LAMBDA n : finished[2].lens[n])
                   + 14 + 3 * Len(sentTrees.blens) + RunBits(finished[3], LengthRuns(finished))
    /\ static_len = DataBits(lDesc, lfreq, LAMBDA n : StaticLen(lDesc, n))
                      + DataBits(dDesc, dfreq, LAMBDA n : StaticLen(dDesc, n))

\* What is decoded with the trees, and what they were chosen for.
TreesAgree == CodesAgree /\ LengthIsTaken
=============================================================================
