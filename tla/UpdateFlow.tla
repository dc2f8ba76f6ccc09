----------------------------- MODULE UpdateFlow -----------------------------
(***************************************************************************)
(* How a change of the screen reaches the clients: the polling core of     *)
(* rfb::win32::SDisplay, the clipping tracker between it and the server,   *)
(* the server's rfb::ComparingUpdateTracker, one SimpleUpdateTracker in    *)
(* every rfb::VNCSConnectionST, and the framebuffer updates those write.   *)
(*                                                                         *)
(* A region is a set of pixels, and a picture maps pixels to colours.  The *)
(* desktop runs and its size does not change; who is in the session is     *)
(* module VncServer's business.  Nothing in this build sets a cursor, so   *)
(* the cursor the server could draw itself is always empty.                *)
(***************************************************************************)
EXTENDS Integers, FiniteSets

CONSTANTS
  Width, Height,    \* size of the screen
  PollIncrementY,   \* rows the core polls at a time
  Colours, Blank,   \* what a pixel may show; what a new client shows
  Clients,          \* connections
  CopyClients,      \* those that may ask for the CopyRect encoding
  Requests,         \* for each client, the regions it asks updates for
  Unwritten,        \* parts of an update that ZRLE may leave for the next
  Moves,            \* moves of the foreground window WMCopyRect may notice
  CompareSettings   \* values that parameter CompareFB may have

Points == Int \X Int
FB     == (0 .. Width - 1) \X (0 .. Height - 1)

ASSUME SizeAssumption == Width \in Nat \ {0} /\ Height \in Nat \ {0}
ASSUME PollAssumption == PollIncrementY \in Nat \ {0}
ASSUME BlankAssumption == Blank \notin Colours
ASSUME ClientsAssumption == CopyClients \subseteq Clients
ASSUME RequestsAssumption == Requests \in [Clients -> SUBSET SUBSET FB]
ASSUME UnwrittenAssumption == Unwritten \in SUBSET SUBSET FB \ {{}}
ASSUME MovesAssumption ==
  Moves \subseteq [from : SUBSET Points, to : SUBSET Points, delta : Points]
ASSUME CompareAssumption == CompareSettings \in SUBSET BOOLEAN \ {{}}

VARIABLES
  screen,       \* what the display shows now
  pollNextY,    \* the first row of the strip that is polled next
  pb,           \* the server's copy, VNCServerST::pb
  comparer,     \* VNCServerST::comparer as a tracker
  oldFb,        \* ComparingUpdateTracker::oldFb
  firstCompare, \* ComparingUpdateTracker::firstCompare
  compareFB,    \* rfb::Server::compareFB, fixed while clients are served
  updates,      \* each client's tracker
  requested,    \* the region each client has asked an update for
  useCopyRect,  \* cp.useCopyRect of each client
  view          \* what each client shows once it has read all that was written

serverVars == <<pb, comparer, oldFb, firstCompare>>
clientVars == <<updates, requested, view>>
vars == <<screen, pollNextY, serverVars, compareFB, clientVars, useCopyRect>>

-----------------------------------------------------------------------------
(* Points, regions and pictures. *)

Plus(p, d)  == <<p[1] + d[1], p[2] + d[2]>>
Minus(p, d) == <<p[1] - d[1], p[2] - d[2]>>

Translate(R, d) == {Plus(p, d) : p \in R}
Negate(d) == Minus(<<0, 0>>, d)

\* Area of the bounding rectangle.
Extent(S) ==
  LET lo == CHOOSE a \in S : \A b \in S : a <= b
      hi == CHOOSE a \in S : \A b \in S : b <= a
  IN  hi - lo + 1
Area(R) ==
  IF R = {} THEN 0 ELSE Extent({p[1] : p \in R}) * Extent({p[2] : p \in R})

\* Picture a with region R painted over from picture b.
Paint(a, R, b) == [p \in FB |-> IF p \in R THEN b[p] ELSE a[p]]

\* Picture a after all of region R has been copied from delta away.
CopyRect(a, R, delta) ==
  [p \in FB |-> IF p \in R THEN a[Minus(p, delta)] ELSE a[p]]

-----------------------------------------------------------------------------
(* SimpleUpdateTracker: what may differ, and what can be had by a copy. *)

Tracker == [changed : SUBSET FB, copied : SUBSET FB,
            delta : Points, copyEnabled : BOOLEAN]

NewTracker(copyEnabled) ==
  [changed |-> {}, copied |-> {}, delta |-> <<0, 0>>, copyEnabled |-> copyEnabled]

is_empty(t) == t.changed = {} /\ t.copied = {}

Clear(t) == [t EXCEPT !.changed = {}, !.copied = {}]

add_changed(t, R) == [t EXCEPT !.changed = @ \cup R]

enable_copyrect(t, enable) ==
  IF ~enable /\ t.copyEnabled
  THEN [t EXCEPT !.changed = @ \cup t.copied, !.copied = {}, !.copyEnabled = FALSE]
  ELSE [t EXCEPT !.copyEnabled = enable]

subtract(t, R) == [t EXCEPT !.changed = @ \ R, !.copied = @ \ R]

\* Pixels of a copy that would be copied from where the client is out of date.
invalid_dest(src, t, delta) == Translate(src \cap t.changed, delta)

\* Mutant: a new copy takes its source for up to date.
add_copied_blindly(t, dest, delta) ==
  IF t.copyEnabled
  THEN [t EXCEPT !.changed = @ \cup t.copied, !.copied = dest, !.delta = delta]
  ELSE add_changed(t, dest)

\* A copy replaces a smaller one, gives way to a larger one, or continues the
\* one whose destination it starts from.
add_copied(t, dest, delta) ==
  LET src     == Translate(dest, Negate(delta))
      overlap == src \cap t.copied
      moved   == Translate(overlap, delta)
  IN  IF ~t.copyEnabled THEN add_changed(t, dest)
      ELSE IF dest = {} THEN t
      ELSE IF overlap # {}
           THEN [t EXCEPT !.changed = @ \cup invalid_dest(overlap, t, delta)
                                        \cup ((dest \cup t.copied) \ moved),
                          !.copied = moved,
                          !.delta = Plus(@, delta)]
      ELSE IF Area(t.copied) > Area(dest) THEN add_changed(t, dest)
      ELSE [t EXCEPT !.changed = @ \cup invalid_dest(src, t, delta) \cup t.copied,
                     !.copied = dest,
                     !.delta = delta]

\* ClippingUpdateTracker::add_copied, to a tracker of the screen's size.
clip_copied(t, dest, delta) ==
  LET clipdest == dest \cap FB
      inside   == {p \in clipdest : Minus(p, delta) \in FB}
      copied   == IF inside = {} THEN t ELSE add_copied(t, inside, delta)
  IN  add_changed(copied, clipdest \ inside)

-----------------------------------------------------------------------------
TypeOK ==
  /\ screen \in [FB -> Colours]
  /\ pollNextY \in 0 .. Height + PollIncrementY
  /\ pb \in [FB -> Colours]
  /\ comparer \in Tracker
  /\ oldFb \in [FB -> Colours]
  /\ firstCompare \in BOOLEAN
  /\ compareFB \in CompareSettings
  /\ updates \in [Clients -> Tracker]
  /\ requested \in [Clients -> SUBSET FB]
  /\ useCopyRect \in [Clients -> BOOLEAN]
  /\ view \in [Clients -> [FB -> Colours \cup {Blank}]]

\* The tracker of a client that has just authenticated.
NewClient == add_changed(NewTracker(FALSE), FB)

Init ==
  /\ screen \in [FB -> Colours]
  /\ pollNextY = 0
  /\ pb = screen
  /\ comparer = add_changed(NewTracker(TRUE), FB)
  /\ oldFb = pb
  /\ firstCompare = TRUE
  /\ compareFB \in CompareSettings
  /\ updates = [c \in Clients |-> NewClient]
  /\ requested = [c \in Clients |-> {}]
  /\ useCopyRect = [c \in Clients |-> FALSE]
  /\ view = [c \in Clients |-> [p \in FB |-> Blank]]

-----------------------------------------------------------------------------
(* VNCServerST::checkUpdate: bring pb up to date where it may differ, filter *)
(* what really differs, and tell every client.                              *)

\* What compare() may find in region toCheck of pictures new and old: it looks
\* at blocks of 16 by 16 pixels, so that a difference may bring its neighbours
\* along.
Differences(toCheck, new, old) ==
  {D \in SUBSET toCheck : \A p \in toCheck \ D : old[p] = new[p]}

ToCheck(cmp) == cmp.changed \cup cmp.copied

\* pb->grabRegion
Grabbed(cmp) == Paint(pb, ToCheck(cmp), screen)

\* The copies are made in oldFb before it is compared.
CopiedFb(cmp) == CopyRect(oldFb, cmp.copied, cmp.delta)

\* What the tracker may hold after compare(), the new picture being new.
Compared(cmp, new) ==
  IF compareFB /\ ~firstCompare
  THEN {[cmp EXCEPT !.changed = D, !.copied = @ \ D] :
          D \in Differences(ToCheck(cmp), new, CopiedFb(cmp))}
  ELSE {cmp}

\* The first comparison takes a copy of the picture.
OldFbAfter(cmp, new, found) ==
  IF ~compareFB \/ is_empty(cmp) THEN oldFb
  ELSE IF firstCompare THEN new
  ELSE Paint(CopiedFb(cmp), found.changed, new)

\* Mutant: only the clients that wait are told.
ToldWaiting(upd, found) ==
  [c \in Clients |->
     IF requested[c] = {} THEN upd[c]
     ELSE add_changed(add_copied(upd[c], found.copied, found.delta), found.changed)]

\* Every client's tracker, the ones with nothing asked for included.
Told(upd, found) ==
  [c \in Clients |->
     add_changed(add_copied(upd[c], found.copied, found.delta), found.changed)]

-----------------------------------------------------------------------------
(* VNCSConnectionST::writeFramebufferUpdate *)

\* enable_copyrect and getUpdateInfo, which prefers data to copies.
Prepared(c, t) ==
  LET e == enable_copyrect(t, useCopyRect[c])
  IN  [e EXCEPT !.copied = @ \ e.changed]

\* The client's tracker, request and view once it has been written what it
\* asked for; the copies come first.  ZRLE may leave a part of the data for
\* the next request.
Write(c, t, req, new, later) ==
  LET ready    == Prepared(c, t)
      copied   == ready.copied \cap req
      changed  == ready.changed \cap req
      written  == changed \ later
      unchanged == [updates |-> t, requested |-> req, view |-> view[c]]
  IN  IF req = {} \/ is_empty(t) THEN unchanged
      ELSE IF copied \cup changed = {} THEN [unchanged EXCEPT !.updates = ready]
      ELSE [updates   |-> subtract(ready, copied \cup written),
            requested |-> {},
            view      |-> Paint(CopyRect(view[c], copied, ready.delta), written, new)]

\* The clients W are served, one after the other: the first of them has the
\* server check for updates, and leaves nothing for the next to check.
Serve(W, cmp, upd, req) ==
  \E found \in Compared(cmp, Grabbed(cmp)), later \in [W -> Unwritten] :
    LET new  == Grabbed(cmp)
        told == Told(upd, found)
        After(c) == IF c \in W THEN Write(c, told[c], req[c], new, later[c])
                    ELSE [updates |-> told[c], requested |-> req[c], view |-> view[c]]
    IN  /\ pb' = new
        /\ oldFb' = OldFbAfter(cmp, new, found)
        /\ firstCompare' = (firstCompare /\ (~compareFB \/ is_empty(cmp)))
        /\ comparer' = Clear(cmp)
        /\ updates' = [c \in Clients |-> After(c).updates]
        /\ requested' = [c \in Clients |-> After(c).requested]
        /\ view' = [c \in Clients |-> After(c).view]

-----------------------------------------------------------------------------
(* Actions. *)

\* The display: any pixel at any time.
Draw ==
  /\ \E p \in FB, col \in Colours : screen' = [screen EXCEPT ![p] = col]
  /\ UNCHANGED <<pollNextY, serverVars, compareFB, clientVars, useCopyRect>>

\* VNCSConnectionST::framebufferUpdateRequest: a request that is not
\* incremental is for pixels the client may have lost.
framebufferUpdateRequest(c, r, incremental) ==
  LET Marked(t) == IF incremental THEN t ELSE add_changed(t, r)
      req == [requested EXCEPT ![c] = @ \cup r]
      upd == [updates EXCEPT ![c] = Marked(@)]
  IN  /\ IF req[c] # {}
         THEN Serve({c}, Marked(comparer), upd, req)
         ELSE UNCHANGED <<serverVars, clientVars>>
      /\ UNCHANGED <<screen, pollNextY, compareFB, useCopyRect>>

\* The strip of the screen that is polled next; after the last one a turn is
\* spent on going back to the top.
Strip == {p \in FB : p[2] \in pollNextY .. (pollNextY + PollIncrementY - 1)}

NextStripSkips ==                                 \* Mutant: past the top one.
  IF pollNextY >= Height THEN PollIncrementY ELSE pollNextY + PollIncrementY
NextStrip == IF pollNextY >= Height THEN 0 ELSE pollNextY + PollIncrementY

\* What WMCopyRect notes in the core's tracker, SDisplay::updates, which is
\* empty between two events: the foreground window has moved, or it has not.
WindowMoved(m) ==
  add_changed(add_copied(NewTracker(TRUE), m.to, m.delta), m.from \ m.to)
Noted == {NewTracker(TRUE)} \cup {WindowMoved(m) : m \in Moves}

\* SDisplay::flushChangeTracker, to the server's comparer.
flushChangeTracker(core) ==
  LET copied == IF core.copied = {} THEN comparer
                ELSE clip_copied(comparer, core.copied, core.delta)
  IN  add_changed(copied, core.changed \cap FB)

\* SDisplay::processEvent with SDisplayCorePolling::flushUpdates; the timer has
\* asked for a strip to be polled, or the event has another cause.
processEvent(noted, poll) ==
  LET core  == IF poll THEN add_changed(noted, Strip) ELSE noted
      ready == {c \in Clients : requested[c] # {}}
  IN  /\ ready # {}
      /\ pollNextY' = IF poll THEN NextStrip ELSE pollNextY
      /\ IF is_empty(core)
         THEN UNCHANGED <<serverVars, clientVars>>
         ELSE Serve(ready, flushChangeTracker(core), updates, requested)
      /\ UNCHANGED <<screen, compareFB, useCopyRect>>

\* VNCServerST::setPixelBuffer with a buffer that has just been grabbed, and
\* VNCSConnectionST::pixelBufferChange: the core was restarted.
setPixelBuffer ==
  /\ pb' = screen
  /\ comparer' = add_changed(NewTracker(TRUE), FB)
  /\ oldFb' = screen
  /\ firstCompare' = TRUE
  /\ updates' = [c \in Clients |-> add_changed(Clear(updates[c]), FB)]
  /\ UNCHANGED <<screen, pollNextY, compareFB, requested, useCopyRect, view>>

\* SetEncodings
setEncodings(c, copyrect) ==
  /\ copyrect => c \in CopyClients
  /\ useCopyRect' = [useCopyRect EXCEPT ![c] = copyrect]
  /\ UNCHANGED <<screen, pollNextY, serverVars, compareFB, clientVars>>

\* A client goes and another takes its place: VNCSConnectionST::authSuccess.
Reconnect(c) ==
  /\ updates' = [updates EXCEPT ![c] = NewClient]
  /\ requested' = [requested EXCEPT ![c] = {}]
  /\ useCopyRect' = [useCopyRect EXCEPT ![c] = FALSE]
  /\ view' = [view EXCEPT ![c] = [p \in FB |-> Blank]]
  /\ UNCHANGED <<screen, pollNextY, serverVars, compareFB>>

Next ==
  \/ Draw
  \/ \E c \in Clients, incremental \in BOOLEAN :
       \E r \in Requests[c] : framebufferUpdateRequest(c, r, incremental)
  \/ \E noted \in Noted, poll \in BOOLEAN : processEvent(noted, poll)
  \/ setPixelBuffer
  \/ \E c \in Clients, copyrect \in BOOLEAN : setEncodings(c, copyrect)
  \/ \E c \in Clients : Reconnect(c)

Spec == Init /\ [][Next]_vars

\* The timer of the core fires again and again, and a strip that is due waits
\* for the next event; the clients are viewers that ask for the next update of
\* the whole screen as soon as they can.
Poll == \E noted \in Noted : processEvent(noted, TRUE)

Fairness ==
  /\ SF_vars(Poll)
  /\ \A c \in Clients : WF_vars(framebufferUpdateRequest(c, FB, TRUE))

FairSpec == Spec /\ Fairness

-----------------------------------------------------------------------------
(* Properties. *)

\* A pixel that no tracker of the client has marked shows on the client what
\* the server's copy of the screen holds: nothing that changed was filtered
\* out or forgotten, whoever else was served in between.
UnmarkedIsShown ==
  \A c \in Clients : \A p \in FB \ (updates[c].changed \cup updates[c].copied) :
    view[c][p] = pb[p]

\* A pixel that the client is to get by a copy is there to be copied: its
\* source is on the screen and is up to date on that client.
CopiesAreValid ==
  \A c \in Clients : \A p \in updates[c].copied \ updates[c].changed :
    LET src == Minus(p, updates[c].delta)
    IN  src \in FB /\ view[c][src] = pb[p]

\* Once it has been taken, the picture that compare() compares with is the one
\* the clients were told about.
OldFbIsPb == firstCompare \/ oldFb = pb

\* An update never paints a pixel wrong, not even until the next one: what it
\* changes on the client shows the server's copy of the screen afterwards.
UpdateShowsPb ==
  [][ \A c \in Clients : \A p \in FB :
        view'[c][p] \notin {view[c][p], Blank} => view'[c][p] = pb'[p] ]_vars

\* Once the screen stops changing every client that stays comes to show it.
Converges ==
  \A c \in Clients :
    \/ []<><<screen' # screen>>_vars
    \/ []<><<Reconnect(c)>>_vars
    \/ <>[](view[c] = screen)
=============================================================================
