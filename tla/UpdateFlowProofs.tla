-------------------------- MODULE UpdateFlowProofs --------------------------
(***************************************************************************)
(* Proofs about UpdateFlow: for every screen, set of clients, window move  *)
(* and order of events, as long as CompareFB stays on and a client that    *)
(* uses CopyRect asks for the whole screen, no client's tracker loses a    *)
(* change and no CopyRect is wrong.                                        *)
(***************************************************************************)
EXTENDS UpdateFlow, TLAPS

\* What the theorems assume of the configuration and of the clients.
AlwaysCompares == CompareSettings = {TRUE}
CopyRequestsWhole == \A c \in CopyClients : Requests[c] \subseteq {{}, FB}

\* A tracker accounts for all that client view v and picture pic differ in.
Sound(t, v, pic) ==
  /\ \A p \in FB \ (t.changed \cup t.copied) : v[p] = pic[p]
  /\ \A p \in t.copied \ t.changed :
       Minus(p, t.delta) \in FB /\ v[Minus(p, t.delta)] = pic[p]

\* The comparer has nothing pending between two events, except the whole
\* screen before the first comparison.
ComparerIdle ==
  /\ comparer.copied = {}
  /\ comparer.copyEnabled
  /\ comparer.changed = IF firstCompare THEN FB ELSE {}

\* Clients without CopyRect have no copies pending; the others wait for
\* nothing or for the whole screen.
CopyDiscipline ==
  /\ \A c \in Clients \ CopyClients :
       ~useCopyRect[c] /\ ~updates[c].copyEnabled /\ updates[c].copied = {}
  /\ \A c \in CopyClients : requested[c] \in {{}, FB}

FlowInv ==
  /\ TypeOK
  /\ OldFbIsPb
  /\ ComparerIdle
  /\ CopyDiscipline
  /\ \A c \in Clients : Sound(updates[c], view[c], pb)

USE SizeAssumption, PollAssumption, BlankAssumption, ClientsAssumption,
    RequestsAssumption, UnwrittenAssumption, MovesAssumption, CompareAssumption

-----------------------------------------------------------------------------
(* Points. *)

LEMMA PlusMinus ==
  ASSUME NEW p \in Points, NEW d \in Points, NEW e \in Points
  PROVE  /\ Plus(p, d) \in Points
         /\ Minus(p, d) \in Points
         /\ Negate(d) \in Points
         /\ Plus(p, Negate(d)) = Minus(p, d)
         /\ Plus(Minus(p, d), d) = p
         /\ Minus(Plus(p, d), d) = p
         /\ Minus(p, Plus(e, d)) = Minus(Minus(p, d), e)
BY DEF Points, Plus, Minus, Negate

LEMMA ScreenPoints == FB \subseteq Points /\ FB # {}
<1>1. FB \subseteq Points BY DEF FB, Points
<1>2. <<0, 0>> \in FB BY DEF FB
<1>3. QED BY <1>1, <1>2

\* Moving a region away and back.
LEMMA TranslateBack ==
  ASSUME NEW dest \in SUBSET Points, NEW d \in Points, NEW R,
         R \subseteq Translate(dest, Negate(d))
  PROVE  /\ Translate(R, d) \subseteq dest
         /\ \A p \in dest : Minus(p, d) \in R <=> p \in Translate(R, d)
         /\ \A p \in dest : Minus(p, d) \in Translate(dest, Negate(d))
<1>1. \A p \in dest : Plus(p, Negate(d)) = Minus(p, d)
  BY PlusMinus
<1>2. \A q \in R : \E p \in dest : q = Minus(p, d)
  BY <1>1 DEF Translate
<1>3. \A p \in dest : Plus(Minus(p, d), d) = p
  BY PlusMinus
<1>4. Translate(R, d) \subseteq dest
  BY <1>2, <1>3 DEF Translate
<1>5. \A p \in dest : Minus(p, d) \in R => p \in Translate(R, d)
  BY <1>3 DEF Translate
<1>6. ASSUME NEW p \in dest, p \in Translate(R, d) PROVE Minus(p, d) \in R
  <2>1. PICK q \in R : p = Plus(q, d)
    BY <1>6 DEF Translate
  <2>2. q \in Points
    BY <1>2, PlusMinus
  <2>3. Minus(p, d) = q
    BY <2>1, <2>2, PlusMinus
  <2>4. QED BY <2>3
<1>7. \A p \in dest : Minus(p, d) \in Translate(dest, Negate(d))
  BY <1>1 DEF Translate
<1>8. QED BY <1>4, <1>5, <1>6, <1>7

-----------------------------------------------------------------------------
(* Trackers. *)

LEMMA AddChangedType ==
  ASSUME NEW t \in Tracker, NEW R \in SUBSET FB
  PROVE  add_changed(t, R) \in Tracker
BY DEF add_changed, Tracker

\* The outcomes of add_copied: the copy is not taken up, it continues the one
\* the tracker has, or it takes its place.
CopyOutcome(t, t1, dest, d) ==
  LET src     == Translate(dest, Negate(d))
      overlap == src \cap t.copied
      moved   == Translate(overlap, d)
  IN  \/ t1 = add_changed(t, dest)
      \/ dest = {} /\ t1 = t
      \/ /\ t1.copied = moved
         /\ t1.changed = t.changed \cup Translate(overlap \cap t.changed, d)
                           \cup ((dest \cup t.copied) \ moved)
         /\ t1.delta = Plus(t.delta, d)
         /\ t1.copyEnabled = t.copyEnabled
      \/ /\ overlap = {}
         /\ t1.copied = dest
         /\ t1.changed = t.changed \cup Translate(src \cap t.changed, d) \cup t.copied
         /\ t1.delta = d
         /\ t1.copyEnabled = t.copyEnabled

LEMMA AddCopiedCases ==
  ASSUME NEW t \in Tracker, NEW dest \in SUBSET FB, NEW d \in Points
  PROVE  CopyOutcome(t, add_copied(t, dest, d), dest, d)
BY DEF add_copied, invalid_dest, Tracker, CopyOutcome

LEMMA AddCopiedType ==
  ASSUME NEW t \in Tracker, NEW dest \in SUBSET FB, NEW d \in Points
  PROVE  add_copied(t, dest, d) \in Tracker
<1> DEFINE src == Translate(dest, Negate(d))
           overlap == src \cap t.copied
<1>1. dest \in SUBSET Points
  BY ScreenPoints
<1>2. /\ Translate(overlap, d) \subseteq FB
      /\ Translate(overlap \cap t.changed, d) \subseteq FB
      /\ Translate(src \cap t.changed, d) \subseteq FB
  <2>1. \A R : R \subseteq src => Translate(R, d) \subseteq dest
    BY <1>1, TranslateBack
  <2>2. overlap \subseteq src /\ overlap \cap t.changed \subseteq src
        /\ src \cap t.changed \subseteq src
    OBVIOUS
  <2>3. QED BY <2>1, <2>2
<1>3. Plus(t.delta, d) \in Points
  BY PlusMinus DEF Tracker
<1>4. QED
  BY <1>2, <1>3 DEF add_copied, add_changed, invalid_dest, Tracker

\* A tracker that is told of a copy and of changes keeps accounting for the
\* client's view, provided the news accounts for the change of the picture.
LEMMA ToldSound ==
  ASSUME NEW t \in Tracker, NEW v, NEW old, NEW new,
         NEW C \in SUBSET FB, NEW D \in SUBSET FB, NEW d \in Points,
         Sound(t, v, old),
         \A p \in FB \ (C \cup D) : new[p] = old[p],
         \A p \in C \ D : Minus(p, d) \in FB /\ new[p] = old[Minus(p, d)]
  PROVE  Sound(add_changed(add_copied(t, C, d), D), v, new)
<1> DEFINE t1 == add_copied(t, C, d)
           t2 == add_changed(t1, D)
           src == Translate(C, Negate(d))
           overlap == src \cap t.copied
<1>1. t1 \in Tracker
  BY AddCopiedType
<1>2. /\ t2.changed = t1.changed \cup D
      /\ t2.copied = t1.copied
      /\ t2.delta = t1.delta
  BY <1>1 DEF add_changed, Tracker
<1>3. C \in SUBSET Points
  BY ScreenPoints
<1>10. /\ \A R : R \subseteq src => Translate(R, d) \subseteq C
       /\ \A R : R \subseteq src =>
            \A p \in C : Minus(p, d) \in R <=> p \in Translate(R, d)
       /\ \A p \in C : Minus(p, d) \in src
  BY <1>3, TranslateBack
<1>11. overlap \subseteq src /\ overlap \cap t.changed \subseteq src
       /\ src \cap t.changed \subseteq src
  OBVIOUS
<1>9. CopyOutcome(t, t1, C, d)
  BY AddCopiedCases
<1> HIDE DEF t1, t2
<1>4. CASE t1 = add_changed(t, C)
  <2>1. t1.changed = t.changed \cup C /\ t1.copied = t.copied /\ t1.delta = t.delta
    BY <1>4 DEF add_changed, Tracker
  <2>2. \A p \in FB \ (t2.changed \cup t2.copied) : v[p] = new[p]
    BY <1>2, <2>1 DEF Sound
  <2>3. \A p \in t2.copied \ t2.changed :
          Minus(p, t2.delta) \in FB /\ v[Minus(p, t2.delta)] = new[p]
    BY <1>2, <2>1 DEF Sound, Tracker
  <2>4. QED BY <2>2, <2>3 DEF Sound, t2, t1
<1>5. CASE C = {} /\ t1 = t
  <2>1. \A p \in FB \ (t2.changed \cup t2.copied) : v[p] = new[p]
    BY <1>2, <1>5 DEF Sound
  <2>2. \A p \in t2.copied \ t2.changed :
          Minus(p, t2.delta) \in FB /\ v[Minus(p, t2.delta)] = new[p]
    BY <1>2, <1>5 DEF Sound, Tracker
  <2>3. QED BY <2>1, <2>2 DEF Sound, t2, t1
<1>6. CASE /\ t1.copied = Translate(overlap, d)
           /\ t1.changed = t.changed \cup Translate(overlap \cap t.changed, d)
                             \cup ((C \cup t.copied) \ Translate(overlap, d))
           /\ t1.delta = Plus(t.delta, d)
  <2>1. \A p \in FB \ (t2.changed \cup t2.copied) : v[p] = new[p]
    BY <1>2, <1>6 DEF Sound
  <2>2. ASSUME NEW p \in t2.copied \ t2.changed
        PROVE  Minus(p, t2.delta) \in FB /\ v[Minus(p, t2.delta)] = new[p]
    <3> DEFINE q == Minus(p, d)
    <3>1. p \in C /\ q \in overlap
      BY <1>2, <1>6, <1>10, <1>11
    <3>2. q \notin t.changed
      <4>1. p \notin Translate(overlap \cap t.changed, d)
        BY <1>2, <1>6
      <4>2. q \notin overlap \cap t.changed
        BY <1>10, <1>11, <3>1, <4>1
      <4>3. QED BY <3>1, <4>2
    <3>3. Minus(q, t.delta) \in FB /\ v[Minus(q, t.delta)] = old[q]
      BY <3>1, <3>2 DEF Sound
    <3>4. new[p] = old[q]
      BY <1>2, <3>1
    <3>5. Minus(p, t2.delta) = Minus(q, t.delta)
      BY <1>2, <1>3, <1>6, <3>1, PlusMinus DEF Tracker
    <3>6. QED BY <3>3, <3>4, <3>5
  <2>3. QED BY <2>1, <2>2 DEF Sound, t2, t1
<1>7. CASE /\ overlap = {}
           /\ t1.copied = C
           /\ t1.changed = t.changed \cup Translate(src \cap t.changed, d) \cup t.copied
           /\ t1.delta = d
  <2>1. \A p \in FB \ (t2.changed \cup t2.copied) : v[p] = new[p]
    BY <1>2, <1>7 DEF Sound
  <2>2. ASSUME NEW p \in t2.copied \ t2.changed
        PROVE  Minus(p, t2.delta) \in FB /\ v[Minus(p, t2.delta)] = new[p]
    <3> DEFINE q == Minus(p, d)
    <3>1. p \in C /\ p \notin D
      BY <1>2, <1>7
    <3>2. q \in src /\ q \notin t.copied
      BY <1>7, <1>10, <3>1
    <3>3. q \notin t.changed
      <4>1. p \notin Translate(src \cap t.changed, d)
        BY <1>2, <1>7
      <4>2. q \notin src \cap t.changed
        BY <1>10, <1>11, <3>1, <4>1
      <4>3. QED BY <3>2, <4>2
    <3>4. q \in FB /\ new[p] = old[q]
      BY <3>1
    <3>5. v[q] = old[q]
      BY <3>2, <3>3, <3>4 DEF Sound
    <3>6. QED BY <1>2, <1>7, <3>4, <3>5
  <2>3. QED BY <2>1, <2>2 DEF Sound, t2, t1
<1>8. QED
  BY <1>4, <1>5, <1>6, <1>7, <1>9 DEF CopyOutcome

\* The tracker as it is before an update is written accounts for the view
\* too, and marks no pixel twice.
LEMMA PreparedSound ==
  ASSUME NEW c \in Clients, NEW t \in Tracker, NEW v, NEW pic, Sound(t, v, pic),
         useCopyRect[c] \in BOOLEAN
  PROVE  LET r == Prepared(c, t)
         IN  /\ r \in Tracker
             /\ r.copied \cap r.changed = {}
             /\ Sound(r, v, pic)
             /\ t.copied = {} => r.copied = {}
             /\ ~useCopyRect[c] => ~r.copyEnabled
<1> DEFINE e == enable_copyrect(t, useCopyRect[c])
<1>1. e \in Tracker /\ e.delta = t.delta
  BY DEF enable_copyrect, Tracker
<1>2. \/ e.changed = t.changed /\ e.copied = t.copied
      \/ e.changed = t.changed \cup t.copied /\ e.copied = {}
  BY DEF enable_copyrect, Tracker
<1>3. ~useCopyRect[c] => ~e.copyEnabled
  BY DEF enable_copyrect, Tracker
<1> HIDE DEF e
<1> DEFINE r == [e EXCEPT !.copied = @ \ e.changed]
<1>4. r \in Tracker
  BY <1>1 DEF Tracker
<1>5. /\ r.changed = e.changed
      /\ r.copied = e.copied \ e.changed
      /\ r.delta = t.delta
      /\ r.copyEnabled = e.copyEnabled
  BY <1>1 DEF Tracker
<1>6. Sound(r, v, pic)
  BY <1>2, <1>5 DEF Sound
<1>7. Prepared(c, t) = r
  BY DEF Prepared, e
<1> HIDE DEF r
<1>8. QED BY <1>2, <1>3, <1>4, <1>5, <1>6, <1>7

\* What a client has after an update, when it asked for the whole screen or
\* has no copies pending: its tracker still accounts for its view, and the
\* pixels that changed on it show the picture.
WriteIsSound(t, w, v, new) ==
  /\ w.updates \in Tracker
  /\ w.requested \in SUBSET FB
  /\ Sound(w.updates, w.view, new)
  /\ \A p \in FB : w.view[p] \in {v[p], new[p]}

LEMMA WriteSound ==
  ASSUME NEW c \in Clients, NEW t \in Tracker, NEW new \in [FB -> Colours],
         view[c] \in [FB -> Colours \cup {Blank}], useCopyRect[c] \in BOOLEAN,
         NEW req \in SUBSET FB, NEW later, Sound(t, view[c], new),
         req \in {{}, FB} \/ t.copied = {}
  PROVE  LET w == Write(c, t, req, new, later)
         IN  /\ WriteIsSound(t, w, view[c], new)
             /\ w.requested \in {{}, req}
             /\ w.view \in [FB -> Colours \cup {Blank}]
             /\ t.copied = {} => w.updates.copied = {}
             /\ ~useCopyRect[c] /\ ~t.copyEnabled => ~w.updates.copyEnabled
<1> DEFINE ready   == Prepared(c, t)
           copied  == ready.copied \cap req
           changed == ready.changed \cap req
           written == changed \ later
           base    == CopyRect(view[c], copied, ready.delta)
           painted == Paint(base, written, new)
           sent    == subtract(ready, copied \cup written)
           w       == Write(c, t, req, new, later)
<1>1. /\ ready \in Tracker
      /\ ready.copied \cap ready.changed = {}
      /\ Sound(ready, view[c], new)
      /\ t.copied = {} => ready.copied = {}
      /\ ~useCopyRect[c] => ~ready.copyEnabled
  BY PreparedSound
<1>2. \/ w = [updates |-> t, requested |-> req, view |-> view[c]]
      \/ w = [updates |-> ready, requested |-> req, view |-> view[c]]
      \/ req # {} /\ w = [updates |-> sent, requested |-> {}, view |-> painted]
  BY DEF Write
<1> HIDE DEF ready, w
<1>3. /\ sent \in Tracker
      /\ sent.changed = ready.changed \ (copied \cup written)
      /\ sent.copied = ready.copied \ (copied \cup written)
      /\ sent.delta = ready.delta
      /\ sent.copyEnabled = ready.copyEnabled
  BY <1>1 DEF subtract, Tracker
<1>4. \A p \in copied : /\ Minus(p, ready.delta) \in FB
                        /\ view[c][Minus(p, ready.delta)] = new[p]
  BY <1>1 DEF Sound
<1>5. \A p \in FB : base[p] = IF p \in copied THEN new[p] ELSE view[c][p]
  BY <1>4 DEF CopyRect
<1>6. \A p \in FB : painted[p] = IF p \in written \cup copied THEN new[p] ELSE view[c][p]
  <2>1. \A p \in FB : painted[p] = IF p \in written THEN new[p] ELSE base[p]
    BY DEF Paint
  <2> HIDE DEF painted, base
  <2>2. QED BY <1>5, <2>1
<1>7. painted \in [FB -> Colours \cup {Blank}]
  <2>1. painted = [p \in FB |-> painted[p]]
    BY DEF Paint
  <2>2. \A p \in FB : painted[p] \in Colours \cup {Blank}
    <3> HIDE DEF painted
    <3>1. QED BY <1>6
  <2> HIDE DEF painted
  <2>3. QED BY <2>1, <2>2
<1> HIDE DEF base, painted, sent
<1>8. ASSUME req # {} PROVE sent.copied = {} /\ Sound(sent, painted, new)
  <2>1. sent.copied = {}
    <3>1. CASE t.copied = {}
      BY <1>1, <1>3, <3>1
    <3>2. CASE req = FB
      BY <1>1, <1>3, <3>2 DEF Tracker
    <3>3. QED BY <1>8, <3>1, <3>2
  <2>2. ASSUME NEW p \in FB, p \notin sent.changed PROVE painted[p] = new[p]
    <3>1. CASE p \in written \cup copied
      BY <1>6, <3>1
    <3>2. CASE p \notin written \cup copied
      <4>1. p \notin ready.changed
        BY <1>3, <2>2, <3>2
      <4>2. p \notin ready.copied
        BY <1>3, <2>1, <3>2
      <4>3. QED BY <1>1, <1>6, <3>2, <4>1, <4>2 DEF Sound
    <3>3. QED BY <3>1, <3>2
  <2>3. QED BY <2>1, <2>2 DEF Sound
<1>9. CASE w = [updates |-> t, requested |-> req, view |-> view[c]]
  BY <1>9 DEF WriteIsSound, w
<1>10. CASE w = [updates |-> ready, requested |-> req, view |-> view[c]]
  BY <1>1, <1>10 DEF WriteIsSound, w
<1>11. CASE req # {} /\ w = [updates |-> sent, requested |-> {}, view |-> painted]
  <2>1. \A p \in FB : painted[p] \in {view[c][p], new[p]}
    BY <1>6
  <2>2. ~useCopyRect[c] => ~sent.copyEnabled
    BY <1>1, <1>3
  <2>3. QED BY <1>3, <1>7, <1>8, <1>11, <2>1, <2>2 DEF WriteIsSound, w
<1>12. QED BY <1>2, <1>9, <1>10, <1>11

-----------------------------------------------------------------------------
(* The server's side. *)

\* What a comparer may hold when the server checks for updates.
Checkable(cmp) ==
  /\ cmp \in Tracker
  /\ cmp.copyEnabled
  /\ \A p \in cmp.copied : Minus(p, cmp.delta) \in FB
  /\ firstCompare => cmp.changed = FB

\* compare() finds all that differs, and oldFb is the new picture afterwards.
LEMMA CompareSound ==
  ASSUME TypeOK, OldFbIsPb, compareFB, NEW cmp, Checkable(cmp),
         NEW found \in Compared(cmp, Grabbed(cmp))
  PROVE  LET new == Grabbed(cmp)
         IN  /\ new \in [FB -> Colours]
             /\ found \in Tracker
             /\ \A p \in FB \ (found.copied \cup found.changed) : new[p] = pb[p]
             /\ \A p \in found.copied \ found.changed :
                  Minus(p, found.delta) \in FB /\ new[p] = pb[Minus(p, found.delta)]
             /\ OldFbAfter(cmp, new, found) = new
<1> DEFINE new == Grabbed(cmp)
           copy == CopiedFb(cmp)
<1>1. new \in [FB -> Colours]
  BY DEF Grabbed, Paint, TypeOK
<1>2. \A p \in FB : new[p] = IF p \in ToCheck(cmp) THEN screen[p] ELSE pb[p]
  BY DEF Grabbed, Paint
<1>3. ToCheck(cmp) \subseteq FB /\ cmp.copied \subseteq FB /\ cmp.delta \in Points
  BY DEF ToCheck, Checkable, Tracker
<1> HIDE DEF new
<1>4. CASE firstCompare
  <2>1. found = cmp /\ cmp.changed = FB /\ cmp \in Tracker
    BY <1>4 DEF Compared, Checkable
  <2>2. OldFbAfter(cmp, new, found) = new
    BY <1>4, <2>1, ScreenPoints DEF OldFbAfter, is_empty
  <2>3. found.copied \ found.changed = {} /\ FB \ (found.copied \cup found.changed) = {}
    BY <2>1 DEF Tracker
  <2>4. QED BY <1>1, <2>1, <2>2, <2>3 DEF new
<1>5. CASE ~firstCompare
  <2>1. PICK D \in Differences(ToCheck(cmp), new, copy) :
          found = [cmp EXCEPT !.changed = D, !.copied = @ \ D]
    BY <1>5 DEF Compared, new
  <2>2. /\ D \subseteq ToCheck(cmp)
        /\ \A p \in ToCheck(cmp) \ D : copy[p] = new[p]
    BY <2>1 DEF Differences
  <2>3. /\ found.changed = D
        /\ found.copied = cmp.copied \ D
        /\ found.delta = cmp.delta
        /\ found \in Tracker
    BY <1>3, <2>1, <2>2 DEF Checkable, Tracker
  <2>4. oldFb = pb
    BY <1>5 DEF OldFbIsPb
  <2>5. \A p \in FB : copy[p] = IF p \in cmp.copied THEN pb[Minus(p, cmp.delta)] ELSE pb[p]
    BY <2>4 DEF CopiedFb, CopyRect
  <2> HIDE DEF copy
  <2>6. \A p \in FB \ (found.copied \cup found.changed) : new[p] = pb[p]
    BY <1>2, <2>2, <2>3, <2>5
  <2>7. ASSUME NEW p \in found.copied \ found.changed
        PROVE  Minus(p, found.delta) \in FB /\ new[p] = pb[Minus(p, found.delta)]
    <3>1. p \in cmp.copied /\ p \notin D /\ p \in FB /\ p \in ToCheck(cmp)
      BY <1>3, <2>3 DEF ToCheck
    <3>2. QED BY <2>2, <2>3, <2>5, <3>1 DEF Checkable
  <2>8. OldFbAfter(cmp, new, found) = new
    <3>1. CASE is_empty(cmp)
      <4>1. ToCheck(cmp) = {}
        BY <3>1 DEF is_empty, ToCheck
      <4>2. \A p \in FB : new[p] = pb[p]
        BY <1>2, <4>1
      <4>3. new = pb
        BY <1>1, <4>2 DEF TypeOK
      <4>4. QED BY <2>4, <3>1, <4>3 DEF OldFbAfter
    <3>2. CASE ~is_empty(cmp)
      <4>1. OldFbAfter(cmp, new, found) = Paint(copy, D, new)
        BY <1>5, <2>3, <3>2 DEF OldFbAfter, copy
      <4>2. \A p \in FB : (IF p \in D THEN new[p] ELSE copy[p]) = new[p]
        <5>1. \A p \in FB \ ToCheck(cmp) : copy[p] = new[p]
          BY <1>2, <2>5 DEF ToCheck
        <5>2. QED BY <2>2, <5>1
      <4>3. Paint(copy, D, new) = [p \in FB |-> new[p]]
        BY <4>2 DEF Paint
      <4>4. QED BY <1>1, <4>1, <4>3
    <3>3. QED BY <3>1, <3>2
  <2>9. QED BY <1>1, <2>3, <2>6, <2>7, <2>8 DEF new
<1>6. QED BY <1>4, <1>5

\* Serving clients keeps the invariant, from whatever the comparer and the
\* clients' trackers have been brought to.
LEMMA ServeKeeps ==
  ASSUME TypeOK, OldFbIsPb, AlwaysCompares,
         NEW cmp, Checkable(cmp),
         NEW upd \in [Clients -> Tracker], NEW req \in [Clients -> SUBSET FB],
         \A c \in Clients : Sound(upd[c], view[c], pb),
         \A c \in Clients \ CopyClients :
           ~useCopyRect[c] /\ ~upd[c].copyEnabled /\ upd[c].copied = {},
         \A c \in CopyClients : req[c] \in {{}, FB},
         NEW W \in SUBSET Clients, Serve(W, cmp, upd, req),
         UNCHANGED <<screen, compareFB, useCopyRect>>,
         pollNextY' \in 0 .. Height + PollIncrementY
  PROVE  /\ FlowInv'
         /\ \A c \in Clients, p \in FB : view'[c][p] \in {view[c][p], pb'[p]}
<1> DEFINE new == Grabbed(cmp)
<1>1. compareFB
  BY DEF TypeOK, AlwaysCompares
<1>2. PICK found \in Compared(cmp, new), later \in [W -> Unwritten] :
        LET told == Told(upd, found)
            After(c) == IF c \in W THEN Write(c, told[c], req[c], new, later[c])
                        ELSE [updates |-> told[c], requested |-> req[c], view |-> view[c]]
        IN  /\ pb' = new
            /\ oldFb' = OldFbAfter(cmp, new, found)
            /\ firstCompare' = (firstCompare /\ (~compareFB \/ is_empty(cmp)))
            /\ comparer' = Clear(cmp)
            /\ updates' = [c \in Clients |-> After(c).updates]
            /\ requested' = [c \in Clients |-> After(c).requested]
            /\ view' = [c \in Clients |-> After(c).view]
  BY DEF Serve
<1>3. /\ new \in [FB -> Colours]
      /\ found \in Tracker
      /\ \A p \in FB \ (found.copied \cup found.changed) : new[p] = pb[p]
      /\ \A p \in found.copied \ found.changed :
           Minus(p, found.delta) \in FB /\ new[p] = pb[Minus(p, found.delta)]
      /\ OldFbAfter(cmp, new, found) = new
  BY <1>1, CompareSound
<1> HIDE DEF new
<1> DEFINE told == Told(upd, found)
           After(c) == IF c \in W THEN Write(c, told[c], req[c], new, later[c])
                       ELSE [updates |-> told[c], requested |-> req[c], view |-> view[c]]
<1>4. ASSUME NEW c \in Clients
      PROVE  /\ told[c] \in Tracker
             /\ Sound(told[c], view[c], new)
             /\ c \notin CopyClients => told[c].copied = {} /\ ~told[c].copyEnabled
  <2>1. told[c] = add_changed(add_copied(upd[c], found.copied, found.delta), found.changed)
    BY DEF Told
  <2>2. found.copied \in SUBSET FB /\ found.changed \in SUBSET FB /\ found.delta \in Points
    BY <1>3 DEF Tracker
  <2>3. told[c] \in Tracker
    BY <2>1, <2>2, AddCopiedType, AddChangedType
  <2>4. Sound(told[c], view[c], new)
    BY <1>3, <2>1, <2>2, ToldSound
  <2>5. ASSUME c \notin CopyClients PROVE told[c].copied = {} /\ ~told[c].copyEnabled
    BY <2>1, <2>5 DEF add_copied, add_changed, Tracker
  <2>6. QED BY <2>3, <2>4, <2>5
<1> HIDE DEF told
<1>5. ASSUME NEW c \in Clients
      PROVE  /\ WriteIsSound(told[c], After(c), view[c], new)
             /\ After(c).view \in [FB -> Colours \cup {Blank}]
             /\ c \notin CopyClients => After(c).updates.copied = {} /\ ~After(c).updates.copyEnabled
             /\ After(c).requested \in {{}, req[c]}
  <2>1. CASE c \in W
    <3> DEFINE w == Write(c, told[c], req[c], new, later[c])
    <3>1. /\ view[c] \in [FB -> Colours \cup {Blank}]
          /\ useCopyRect[c] \in BOOLEAN
          /\ req[c] \in SUBSET FB
          /\ req[c] \in {{}, FB} \/ told[c].copied = {}
          /\ c \notin CopyClients => ~useCopyRect[c]
      BY <1>4 DEF TypeOK
    <3>2. /\ WriteIsSound(told[c], w, view[c], new)
          /\ w.requested \in {{}, req[c]}
          /\ w.view \in [FB -> Colours \cup {Blank}]
          /\ told[c].copied = {} => w.updates.copied = {}
          /\ ~useCopyRect[c] /\ ~told[c].copyEnabled => ~w.updates.copyEnabled
      BY <1>3, <1>4, <3>1, WriteSound, ZenonT(30)
    <3>3. After(c) = w
      BY <2>1
    <3> HIDE DEF w, After
    <3>4. QED BY <1>4, <3>1, <3>2, <3>3
  <2>2. CASE c \notin W
    <3>1. After(c) = [updates |-> told[c], requested |-> req[c], view |-> view[c]]
      BY <2>2
    <3> HIDE DEF After
    <3>2. /\ After(c).updates = told[c]
          /\ After(c).requested = req[c]
          /\ After(c).view = view[c]
      BY <3>1
    <3>3. QED BY <1>4, <3>2 DEF WriteIsSound, TypeOK
  <2>3. QED BY <2>1, <2>2
<1>6. /\ updates' = [c \in Clients |-> After(c).updates]
      /\ requested' = [c \in Clients |-> After(c).requested]
      /\ view' = [c \in Clients |-> After(c).view]
      /\ pb' = new
      /\ oldFb' = new
      /\ comparer' = Clear(cmp)
  BY <1>2, <1>3 DEF told
<1>7. ~firstCompare'
  <2>1. firstCompare => ~is_empty(cmp)
    BY ScreenPoints DEF Checkable, is_empty
  <2>2. QED BY <1>1, <1>2, <2>1, Zenon
<1> HIDE DEF After
<1>8. /\ comparer' \in Tracker
      /\ comparer'.changed = {}
      /\ comparer'.copied = {}
      /\ comparer'.copyEnabled
  BY <1>6 DEF Clear, Checkable, Tracker
<1>9. TypeOK'
  <2>1. /\ screen' \in [FB -> Colours]
        /\ compareFB' \in CompareSettings
        /\ useCopyRect' \in [Clients -> BOOLEAN]
    BY DEF TypeOK
  <2>2. pb' \in [FB -> Colours] /\ oldFb' \in [FB -> Colours]
    BY <1>3, <1>6
  <2>3. /\ updates' \in [Clients -> Tracker]
        /\ requested' \in [Clients -> SUBSET FB]
        /\ view' \in [Clients -> [FB -> Colours \cup {Blank}]]
    BY <1>5, <1>6 DEF WriteIsSound
  <2>4. firstCompare' \in BOOLEAN
    BY <1>2, Zenon
  <2>5. QED BY <1>8, <2>1, <2>2, <2>3, <2>4 DEF TypeOK
<1>10. OldFbIsPb'
  BY <1>6 DEF OldFbIsPb
<1>11. ComparerIdle'
  BY <1>7, <1>8 DEF ComparerIdle
<1>12. CopyDiscipline'
  <2>1. ASSUME NEW c \in Clients \ CopyClients
        PROVE  ~useCopyRect'[c] /\ ~updates'[c].copyEnabled /\ updates'[c].copied = {}
    BY <1>5, <1>6
  <2>2. ASSUME NEW c \in CopyClients PROVE requested'[c] \in {{}, FB}
    BY <1>5, <1>6
  <2>3. QED BY <2>1, <2>2 DEF CopyDiscipline
<1>13. \A c \in Clients : Sound(updates'[c], view'[c], pb')
  BY <1>5, <1>6 DEF WriteIsSound
<1>14. \A c \in Clients, p \in FB : view'[c][p] \in {view[c][p], pb'[p]}
  BY <1>5, <1>6 DEF WriteIsSound
<1>15. QED BY <1>9, <1>10, <1>11, <1>12, <1>13, <1>14 DEF FlowInv, Sound

-----------------------------------------------------------------------------
(* The clipper and the requests. *)

\* What reaches the comparer copies nothing from off the screen.
LEMMA FlushCheckable ==
  ASSUME TypeOK, ComparerIdle, NEW core,
         core.delta \in Points
  PROVE  Checkable(flushChangeTracker(core))
<1> DEFINE clipdest == core.copied \cap FB
           inside   == {p \in clipdest : Minus(p, core.delta) \in FB}
           base     == IF inside = {} THEN comparer ELSE add_copied(comparer, inside, core.delta)
           clipped  == IF core.copied = {} THEN comparer
                       ELSE clip_copied(comparer, core.copied, core.delta)
<1>1. comparer \in Tracker /\ comparer.copied = {} /\ comparer.copyEnabled
  BY DEF TypeOK, ComparerIdle
<1>2. inside \in SUBSET FB
  OBVIOUS
<1>3. /\ base \in Tracker
      /\ base.copyEnabled
      /\ \A p \in base.copied : Minus(p, base.delta) \in FB
      /\ firstCompare => base.changed = FB
  <2>1. comparer.changed = IF firstCompare THEN FB ELSE {}
    BY DEF ComparerIdle
  <2>2. CASE inside = {}
    BY <1>1, <2>1, <2>2
  <2>3. CASE inside # {}
    <3> DEFINE b == add_copied(comparer, inside, core.delta)
    <3>1. b \in Tracker
      BY <1>1, <1>2, AddCopiedType
    <3>2. b.copyEnabled /\ comparer.changed \subseteq b.changed
      BY <1>1, <2>3 DEF add_copied, add_changed, Tracker
    <3>3. b.copied = {} \/ (b.copied = inside /\ b.delta = core.delta)
      BY <1>1, <2>3 DEF add_copied, add_changed, Tracker
    <3>4. b.changed \subseteq FB
      BY <3>1 DEF Tracker
    <3>5. base = b
      BY <2>3
    <3> HIDE DEF b, base
    <3>6. \A p \in base.copied : Minus(p, base.delta) \in FB
      BY <3>3, <3>5
    <3>7. firstCompare => base.changed = FB
      BY <2>1, <3>2, <3>4, <3>5
    <3>8. QED BY <3>1, <3>2, <3>5, <3>6, <3>7
  <2>4. QED BY <2>2, <2>3
<1>4. /\ clipped \in Tracker
      /\ clipped.copyEnabled
      /\ \A p \in clipped.copied : Minus(p, clipped.delta) \in FB
      /\ firstCompare => clipped.changed = FB
  <2>1. CASE core.copied = {}
    BY <1>1, <2>1 DEF ComparerIdle
  <2>2. CASE core.copied # {}
    <3>1. clipped = add_changed(base, clipdest \ inside)
      BY <2>2 DEF clip_copied
    <3> HIDE DEF base, clipped
    <3>2. /\ clipped \in Tracker
          /\ clipped.changed = base.changed \cup (clipdest \ inside)
          /\ clipped.copied = base.copied
          /\ clipped.delta = base.delta
          /\ clipped.copyEnabled = base.copyEnabled
      BY <1>3, <3>1 DEF add_changed, Tracker
    <3>3. QED BY <1>3, <3>2
  <2>3. QED BY <2>1, <2>2
<1>5. flushChangeTracker(core) = add_changed(clipped, core.changed \cap FB)
  BY DEF flushChangeTracker
<1> HIDE DEF clipped
<1>6. QED BY <1>4, <1>5 DEF Checkable, add_changed, Tracker

\* The core's own tracker only ever holds one move of the window.
LEMMA NotedDelta ==
  ASSUME NEW noted \in Noted
  PROVE  noted.delta \in Points /\ \A R : add_changed(noted, R).delta \in Points
<1>1. <<0, 0>> \in Points
  BY DEF Points
<1>2. CASE noted = NewTracker(TRUE)
  BY <1>1, <1>2 DEF NewTracker, add_changed
<1>3. ASSUME NEW m \in Moves, noted = WindowMoved(m)
      PROVE  noted.delta \in Points /\ \A R : add_changed(noted, R).delta \in Points
  <2>1. m.delta \in Points
    OBVIOUS
  <2>2. Plus(<<0, 0>>, m.delta) \in Points
    BY <1>1, <2>1, PlusMinus
  <2>3. QED BY <1>1, <1>3, <2>1, <2>2 DEF WindowMoved, add_copied, add_changed, NewTracker
<1>4. QED BY <1>2, <1>3 DEF Noted

\* A request marks more, and marking more is always sound.
LEMMA MarkSound ==
  ASSUME NEW t \in Tracker, NEW R \in SUBSET FB, NEW v, NEW pic, Sound(t, v, pic)
  PROVE  /\ Sound(add_changed(t, R), v, pic)
         /\ add_changed(t, R).copied = t.copied
         /\ add_changed(t, R).copyEnabled = t.copyEnabled
BY DEF Sound, add_changed, Tracker

\* Every action that serves clients.
PicturesOnly == \A c \in Clients, p \in FB : view'[c][p] \in {view[c][p], pb'[p]}

LEMMA RequestKeeps ==
  ASSUME FlowInv, AlwaysCompares, CopyRequestsWhole,
         NEW c \in Clients, NEW r \in Requests[c], NEW incremental \in BOOLEAN,
         framebufferUpdateRequest(c, r, incremental)
  PROVE  FlowInv' /\ PicturesOnly
<1> DEFINE Marked(t) == IF incremental THEN t ELSE add_changed(t, r)
           req == [requested EXCEPT ![c] = @ \cup r]
           upd == [updates EXCEPT ![c] = Marked(@)]
<1>1. r \in SUBSET FB
  OBVIOUS
<1>2. UNCHANGED <<screen, pollNextY, compareFB, useCopyRect>>
  BY DEF framebufferUpdateRequest
<1>3. CASE req[c] # {}
  <2>1. Serve({c}, Marked(comparer), upd, req)
    BY <1>3 DEF framebufferUpdateRequest
  <2>2. req \in [Clients -> SUBSET FB]
    BY <1>1 DEF FlowInv, TypeOK
  <2>3. \A d \in CopyClients : req[d] \in {{}, FB}
    <3>1. \A d \in CopyClients : requested[d] \in {{}, FB}
      BY DEF FlowInv, CopyDiscipline
    <3>2. c \in CopyClients => r \in {{}, FB}
      BY DEF CopyRequestsWhole
    <3>3. \A d \in Clients : req[d] = IF d = c THEN requested[c] \cup r ELSE requested[d]
      BY DEF FlowInv, TypeOK
    <3>4. c \in CopyClients => requested[c] \cup r \in {{}, FB}
      BY <3>1, <3>2
    <3> HIDE DEF req
    <3>5. QED BY <3>1, <3>3, <3>4
  <2>4. upd \in [Clients -> Tracker]
    BY <1>1, AddChangedType DEF FlowInv, TypeOK
  <2>5. \A d \in Clients : upd[d] = IF d = c THEN Marked(updates[c]) ELSE updates[d]
    BY DEF FlowInv, TypeOK
  <2>6. /\ \A d \in Clients : Sound(upd[d], view[d], pb)
        /\ \A d \in Clients : /\ upd[d].copied = updates[d].copied
                              /\ upd[d].copyEnabled = updates[d].copyEnabled
    <3>1. updates[c] \in Tracker /\ Sound(updates[c], view[c], pb)
      BY DEF FlowInv, TypeOK
    <3>2. /\ Sound(Marked(updates[c]), view[c], pb)
          /\ Marked(updates[c]).copied = updates[c].copied
          /\ Marked(updates[c]).copyEnabled = updates[c].copyEnabled
      BY <1>1, <3>1, MarkSound
    <3>3. \A d \in Clients : Sound(updates[d], view[d], pb)
      BY DEF FlowInv
    <3> HIDE DEF upd, Marked
    <3>4. QED BY <2>5, <3>2, <3>3
  <2>7. Checkable(Marked(comparer))
    <3>1. /\ comparer \in Tracker
          /\ comparer.copied = {}
          /\ comparer.copyEnabled
          /\ firstCompare => comparer.changed = FB
      BY DEF FlowInv, TypeOK, ComparerIdle
    <3>2. CASE incremental
      BY <3>1, <3>2 DEF Checkable
    <3>3. CASE ~incremental
      BY <1>1, <3>1, <3>3 DEF Checkable, add_changed, Tracker
    <3>4. QED BY <3>2, <3>3
  <2>8. \A d \in Clients \ CopyClients :
          ~useCopyRect[d] /\ ~upd[d].copyEnabled /\ upd[d].copied = {}
    BY <2>6 DEF FlowInv, CopyDiscipline
  <2>9. pollNextY' \in 0 .. Height + PollIncrementY
    BY <1>2 DEF FlowInv, TypeOK
  <2> HIDE DEF upd, req, Marked
  <2>10. TypeOK /\ OldFbIsPb
    BY DEF FlowInv
  <2>11. QED
    BY <1>2, <2>1, <2>2, <2>3, <2>4, <2>6, <2>7, <2>8, <2>9, <2>10, ServeKeeps
    DEF PicturesOnly
<1>4. CASE req[c] = {}
  <2>1. UNCHANGED <<screen, pollNextY, pb, comparer, oldFb, firstCompare, compareFB,
                    updates, requested, view, useCopyRect>>
    BY <1>2, <1>4 DEF framebufferUpdateRequest, serverVars, clientVars
  <2>2. QED
    BY <2>1 DEF FlowInv, TypeOK, OldFbIsPb, ComparerIdle, CopyDiscipline, Sound, PicturesOnly
<1>5. QED BY <1>3, <1>4

LEMMA PollType ==
  ASSUME TypeOK, NEW poll \in BOOLEAN, pollNextY' = IF poll THEN NextStrip ELSE pollNextY
  PROVE  pollNextY' \in 0 .. Height + PollIncrementY
BY DEF TypeOK, NextStrip

LEMMA EventKeeps ==
  ASSUME FlowInv, AlwaysCompares, NEW noted \in Noted, NEW poll \in BOOLEAN,
         processEvent(noted, poll)
  PROVE  FlowInv' /\ PicturesOnly
<1> DEFINE core  == IF poll THEN add_changed(noted, Strip) ELSE noted
           ready == {c \in Clients : requested[c] # {}}
<1>1. UNCHANGED <<screen, compareFB, useCopyRect>>
  BY DEF processEvent
<1>2. pollNextY' \in 0 .. Height + PollIncrementY
  BY PollType DEF processEvent, FlowInv
<1>3. CASE is_empty(core)
  <2>1. UNCHANGED <<pb, comparer, oldFb, firstCompare, updates, requested, view>>
    BY <1>3 DEF processEvent, serverVars, clientVars
  <2>2. TypeOK'
    BY <1>1, <1>2, <2>1 DEF FlowInv, TypeOK
  <2>3. QED
    BY <1>1, <2>1, <2>2
    DEF FlowInv, OldFbIsPb, ComparerIdle, CopyDiscipline, Sound, PicturesOnly
<1>4. CASE ~is_empty(core)
  <2>1. Serve(ready, flushChangeTracker(core), updates, requested)
    BY <1>4 DEF processEvent
  <2>2. core.delta \in Points
    BY NotedDelta
  <2> HIDE DEF core
  <2>3. TypeOK /\ OldFbIsPb /\ ComparerIdle /\ CopyDiscipline
    BY DEF FlowInv
  <2>4. Checkable(flushChangeTracker(core))
    BY <2>2, <2>3, FlushCheckable
  <2>5. updates \in [Clients -> Tracker] /\ requested \in [Clients -> SUBSET FB]
    BY <2>3 DEF TypeOK
  <2>6. \A c \in Clients : Sound(updates[c], view[c], pb)
    BY DEF FlowInv
  <2>7. QED
    BY <1>1, <1>2, <2>1, <2>3, <2>4, <2>5, <2>6, ServeKeeps
    DEF CopyDiscipline, PicturesOnly
<1>5. QED BY <1>3, <1>4

LEMMA MarkAll ==
  ASSUME NEW t \in Tracker, t.changed = {}
  PROVE  /\ add_changed(t, FB) \in Tracker
         /\ add_changed(t, FB).changed = FB
         /\ add_changed(t, FB).copied = t.copied
         /\ add_changed(t, FB).copyEnabled = t.copyEnabled
BY DEF add_changed, Tracker

LEMMA RestartKeeps ==
  ASSUME FlowInv, setPixelBuffer
  PROVE  FlowInv' /\ PicturesOnly
<1>1. /\ UNCHANGED <<screen, pollNextY, compareFB, requested, useCopyRect, view>>
      /\ pb' = screen
      /\ oldFb' = screen
      /\ firstCompare' = TRUE
      /\ comparer' = add_changed(NewTracker(TRUE), FB)
      /\ updates' = [c \in Clients |-> add_changed(Clear(updates[c]), FB)]
  BY DEF setPixelBuffer
<1>2. /\ comparer' \in Tracker
      /\ comparer'.copied = {}
      /\ comparer'.copyEnabled
      /\ comparer'.changed = FB
  <2>1. <<0, 0>> \in Points
    BY DEF Points
  <2>2. QED BY <1>1, <2>1 DEF add_changed, NewTracker, Tracker
<1>3. ASSUME NEW c \in Clients
      PROVE  /\ updates'[c] \in Tracker
             /\ updates'[c].changed = FB
             /\ updates'[c].copied = {}
             /\ updates'[c].copyEnabled = updates[c].copyEnabled
  <2>1. updates[c] \in Tracker
    BY DEF FlowInv, TypeOK
  <2>2. updates'[c] = add_changed(Clear(updates[c]), FB)
    BY <1>1, Zenon
  <2>3. /\ Clear(updates[c]) \in Tracker
        /\ Clear(updates[c]).changed = {}
        /\ Clear(updates[c]).copied = {}
        /\ Clear(updates[c]).copyEnabled = updates[c].copyEnabled
    BY <2>1 DEF Clear, Tracker
  <2>4. QED BY <2>2, <2>3, MarkAll
<1>4. TypeOK'
  <2>1. updates' \in [Clients -> Tracker]
    BY <1>1, <1>3
  <2>2. firstCompare' \in BOOLEAN
    BY <1>1, Zenon
  <2>3. QED BY <1>1, <1>2, <2>1, <2>2 DEF FlowInv, TypeOK
<1>5. OldFbIsPb' /\ ComparerIdle'
  <2>1. OldFbIsPb'
    BY <1>1 DEF OldFbIsPb
  <2>2. comparer'.changed = IF firstCompare' THEN FB ELSE {}
    BY <1>1, <1>2, Zenon
  <2>3. QED BY <1>2, <2>1, <2>2 DEF ComparerIdle
<1>6. CopyDiscipline'
  BY <1>1, <1>3 DEF FlowInv, CopyDiscipline
<1>7. \A c \in Clients : Sound(updates'[c], view'[c], pb')
  BY <1>3 DEF Sound
<1>8. PicturesOnly
  BY <1>1 DEF PicturesOnly
<1>9. QED BY <1>4, <1>5, <1>6, <1>7, <1>8 DEF FlowInv, Sound

LEMMA ReconnectKeeps ==
  ASSUME FlowInv, NEW c \in Clients, Reconnect(c)
  PROVE  FlowInv'
<1>1. /\ UNCHANGED <<screen, pollNextY, pb, comparer, oldFb, firstCompare, compareFB>>
      /\ updates' = [updates EXCEPT ![c] = NewClient]
      /\ requested' = [requested EXCEPT ![c] = {}]
      /\ useCopyRect' = [useCopyRect EXCEPT ![c] = FALSE]
      /\ view' = [view EXCEPT ![c] = [p \in FB |-> Blank]]
  BY DEF Reconnect, serverVars
<1>2. /\ NewClient \in Tracker
      /\ NewClient.changed = FB
      /\ NewClient.copied = {}
      /\ ~NewClient.copyEnabled
  <2>1. <<0, 0>> \in Points
    BY DEF Points
  <2>2. QED BY <2>1 DEF NewClient, add_changed, NewTracker, Tracker
<1>3. TypeOK'
  <2>1. updates' \in [Clients -> Tracker]
    BY <1>1, <1>2 DEF FlowInv, TypeOK
  <2>2. useCopyRect' \in [Clients -> BOOLEAN] /\ requested' \in [Clients -> SUBSET FB]
    BY <1>1 DEF FlowInv, TypeOK
  <2>3. view' \in [Clients -> [FB -> Colours \cup {Blank}]]
    BY <1>1 DEF FlowInv, TypeOK
  <2>4. QED BY <1>1, <2>1, <2>2, <2>3 DEF FlowInv, TypeOK
<1>4. OldFbIsPb' /\ ComparerIdle'
  BY <1>1 DEF FlowInv, OldFbIsPb, ComparerIdle
<1>5. \A d \in Clients :
        /\ updates'[d] = IF d = c THEN NewClient ELSE updates[d]
        /\ requested'[d] = IF d = c THEN {} ELSE requested[d]
        /\ useCopyRect'[d] = IF d = c THEN FALSE ELSE useCopyRect[d]
        /\ d # c => view'[d] = view[d]
  BY <1>1 DEF FlowInv, TypeOK
<1>6. CopyDiscipline'
  <2>1. ASSUME NEW d \in Clients \ CopyClients
        PROVE  ~useCopyRect'[d] /\ ~updates'[d].copyEnabled /\ updates'[d].copied = {}
    <3>1. CASE d = c
      BY <1>2, <1>5, <3>1
    <3>2. CASE d # c
      BY <1>5, <3>2 DEF FlowInv, CopyDiscipline
    <3>3. QED BY <3>1, <3>2
  <2>2. ASSUME NEW d \in CopyClients PROVE requested'[d] \in {{}, FB}
    BY <1>5 DEF FlowInv, CopyDiscipline
  <2>3. QED BY <2>1, <2>2 DEF CopyDiscipline
<1>7. ASSUME NEW d \in Clients PROVE Sound(updates'[d], view'[d], pb')
  <2>1. CASE d = c
    BY <1>2, <1>5, <2>1 DEF Sound
  <2>2. CASE d # c
    BY <1>1, <1>5, <2>2 DEF FlowInv
  <2>3. QED BY <2>1, <2>2
<1>8. QED BY <1>3, <1>4, <1>6, <1>7 DEF FlowInv, Sound

LEMMA SettingsKeep ==
  ASSUME FlowInv,
         Draw \/ UNCHANGED vars
           \/ \E c \in Clients, copyrect \in BOOLEAN : setEncodings(c, copyrect)
  PROVE  FlowInv' /\ PicturesOnly
<1>1. UNCHANGED <<pollNextY, pb, comparer, oldFb, firstCompare, updates, requested, view>>
  BY DEF Draw, setEncodings, vars, serverVars, clientVars
<1>2. TypeOK'
  <2>1. screen' \in [FB -> Colours]
    BY DEF FlowInv, TypeOK, Draw, setEncodings, vars
  <2>2. compareFB' \in CompareSettings
    BY DEF FlowInv, TypeOK, Draw, setEncodings, vars
  <2>3. useCopyRect' \in [Clients -> BOOLEAN]
    BY DEF FlowInv, TypeOK, Draw, setEncodings, vars
  <2>4. QED BY <1>1, <2>1, <2>2, <2>3 DEF FlowInv, TypeOK
<1>3. OldFbIsPb' /\ ComparerIdle' /\ \A c \in Clients : Sound(updates'[c], view'[c], pb')
  BY <1>1 DEF FlowInv, OldFbIsPb, ComparerIdle
<1>4. \A c \in Clients \ CopyClients : ~useCopyRect'[c]
  <2>1. \A c \in Clients \ CopyClients : ~useCopyRect[c]
    BY DEF FlowInv, CopyDiscipline
  <2>2. CASE UNCHANGED useCopyRect
    BY <2>1, <2>2
  <2>3. ASSUME NEW d \in Clients, NEW copyrect \in BOOLEAN, setEncodings(d, copyrect)
        PROVE  \A c \in Clients \ CopyClients : ~useCopyRect'[c]
    BY <2>1, <2>3 DEF setEncodings, FlowInv, TypeOK
  <2>4. QED BY <2>2, <2>3 DEF Draw, vars
<1>5. CopyDiscipline'
  BY <1>1, <1>4 DEF FlowInv, CopyDiscipline
<1>6. PicturesOnly
  BY <1>1 DEF PicturesOnly
<1>7. QED BY <1>2, <1>3, <1>5, <1>6 DEF FlowInv, Sound

LEMMA FlowInit == Init => FlowInv
<1> SUFFICES ASSUME Init PROVE FlowInv
  OBVIOUS
<1>1. <<0, 0>> \in Points
  BY DEF Points
<1>2. /\ NewClient \in Tracker
      /\ NewClient.changed = FB
      /\ NewClient.copied = {}
      /\ ~NewClient.copyEnabled
  BY <1>1 DEF NewClient, add_changed, NewTracker, Tracker
<1>3. /\ comparer \in Tracker
      /\ comparer.copied = {}
      /\ comparer.copyEnabled
      /\ comparer.changed = FB
  BY <1>1 DEF Init, add_changed, NewTracker, Tracker
<1>4. firstCompare = TRUE
  BY DEF Init
<1>5. TypeOK
  <2>1. firstCompare \in BOOLEAN
    BY <1>4, Zenon
  <2>2. updates \in [Clients -> Tracker]
    BY <1>2 DEF Init
  <2>3. /\ screen \in [FB -> Colours]
        /\ pb \in [FB -> Colours]
        /\ oldFb \in [FB -> Colours]
        /\ view \in [Clients -> [FB -> Colours \cup {Blank}]]
    BY DEF Init
  <2>4. useCopyRect \in [Clients -> BOOLEAN]
    BY DEF Init
  <2>5. /\ pollNextY \in 0 .. Height + PollIncrementY
        /\ compareFB \in CompareSettings
        /\ requested \in [Clients -> SUBSET FB]
    BY DEF Init
  <2>6. QED BY <1>3, <2>1, <2>2, <2>3, <2>4, <2>5 DEF TypeOK
<1>6. OldFbIsPb
  BY DEF Init, OldFbIsPb
<1>7. ComparerIdle
  <2>1. comparer.changed = IF firstCompare THEN FB ELSE {}
    BY <1>3, <1>4, Zenon
  <2>2. QED BY <1>3, <2>1 DEF ComparerIdle
<1>8. \A c \in Clients : /\ updates[c] = NewClient
                         /\ requested[c] = {}
                         /\ useCopyRect[c] = FALSE
  BY DEF Init
<1>9. CopyDiscipline
  BY <1>2, <1>8 DEF CopyDiscipline
<1>10. \A c \in Clients : Sound(updates[c], view[c], pb)
  BY <1>2, <1>8 DEF Sound
<1>11. QED BY <1>5, <1>6, <1>7, <1>9, <1>10 DEF FlowInv

\* Every step keeps the invariant, and only a reconnection makes a client show
\* anything but what it showed or what the server's picture holds.
LEMMA FlowStep ==
  ASSUME FlowInv, AlwaysCompares, CopyRequestsWhole, [Next]_vars
  PROVE  FlowInv' /\ (PicturesOnly \/ \E c \in Clients : Reconnect(c))
<1>1. CASE \E c \in Clients, incremental \in BOOLEAN :
             \E r \in Requests[c] : framebufferUpdateRequest(c, r, incremental)
  BY <1>1, RequestKeeps
<1>2. CASE \E noted \in Noted, poll \in BOOLEAN : processEvent(noted, poll)
  BY <1>2, EventKeeps
<1>3. CASE setPixelBuffer
  BY <1>3, RestartKeeps
<1>4. CASE \E c \in Clients : Reconnect(c)
  BY <1>4, ReconnectKeeps
<1>5. CASE \/ Draw
           \/ UNCHANGED vars
           \/ \E c \in Clients, copyrect \in BOOLEAN : setEncodings(c, copyrect)
  BY <1>5, SettingsKeep
<1>6. QED BY <1>1, <1>2, <1>3, <1>4, <1>5 DEF Next

-----------------------------------------------------------------------------
(* The theorems. *)

\* The strengthened invariant holds in every reachable state.
THEOREM FlowInvariance ==
  ASSUME AlwaysCompares, CopyRequestsWhole
  PROVE  Spec => []FlowInv
<1>1. FlowInv /\ [Next]_vars => FlowInv'
  BY FlowStep
<1>2. QED BY <1>1, FlowInit, PTL DEF Spec

\* Every variable keeps its type.
THEOREM FlowTypes ==
  ASSUME AlwaysCompares, CopyRequestsWhole
  PROVE  Spec => []TypeOK
<1>1. FlowInv => TypeOK BY DEF FlowInv
<1>2. QED BY <1>1, FlowInvariance, PTL

\* No change is lost on the way to a client: what its tracker has not marked,
\* the client shows.
THEOREM NothingLost ==
  ASSUME AlwaysCompares, CopyRequestsWhole
  PROVE  Spec => []UnmarkedIsShown
<1>1. FlowInv => UnmarkedIsShown BY DEF FlowInv, Sound, UnmarkedIsShown
<1>2. QED BY <1>1, FlowInvariance, PTL

\* Every copy a client may be sent has its source on the screen and up to date
\* on that client.
THEOREM CopiesCorrect ==
  ASSUME AlwaysCompares, CopyRequestsWhole
  PROVE  Spec => []CopiesAreValid
<1>1. FlowInv => CopiesAreValid BY DEF FlowInv, Sound, CopiesAreValid
<1>2. QED BY <1>1, FlowInvariance, PTL

\* The picture compare() compares with is the one the clients know of.
THEOREM ComparesWithKnown ==
  ASSUME AlwaysCompares, CopyRequestsWhole
  PROVE  Spec => []OldFbIsPb
<1>1. FlowInv => OldFbIsPb BY DEF FlowInv
<1>2. QED BY <1>1, FlowInvariance, PTL

\* An update paints no pixel wrong, not even until the next one.
THEOREM UpdatesExact ==
  ASSUME AlwaysCompares, CopyRequestsWhole
  PROVE  Spec => UpdateShowsPb
<1>1. ASSUME FlowInv, Next, NEW c \in Clients, NEW p \in FB,
             view'[c][p] \notin {view[c][p], Blank}
      PROVE  view'[c][p] = pb'[p]
  <2>1. CASE PicturesOnly
    BY <1>1, <2>1 DEF PicturesOnly
  <2>2. CASE \E d \in Clients : Reconnect(d)
    <3>1. PICK d \in Clients : Reconnect(d)
      BY <2>2
    <3>2. view' = [view EXCEPT ![d] = [q \in FB |-> Blank]]
      BY <3>1 DEF Reconnect
    <3>3. view'[c][p] \in {view[c][p], Blank}
      BY <1>1, <3>2 DEF FlowInv, TypeOK
    <3>4. QED BY <1>1, <3>3
  <2>3. QED BY <1>1, <2>1, <2>2, FlowStep
<1>2. FlowInv /\ [Next]_vars
        => [\A c \in Clients : \A p \in FB :
              view'[c][p] \notin {view[c][p], Blank} => view'[c][p] = pb'[p]]_vars
  BY <1>1
<1>3. QED BY <1>2, FlowInvariance, PTL DEF Spec, UpdateShowsPb
=============================================================================
