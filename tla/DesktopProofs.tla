---------------------------- MODULE DesktopProofs ---------------------------
(***************************************************************************)
(* What lies between the server and Windows: the desktop with its buffers  *)
(* under failures, the keys that are held down in it, its picture in       *)
(* memory, and the calendar.                                               *)
(***************************************************************************)
EXTENDS DisplayBuffers, InputEvents, PixelBuffers, CalendarTime, Arithmetic, SequenceTheorems,
        FiniteSetTheorems, TLAPS

-----------------------------------------------------------------------------
(***************************************************************************)
(* Whatever fails once, a desktop is whole or stopped and nothing that was *)
(* deleted is used, for every width a display may have. The argument counts *)
(* failures: a buffer without a core takes one that nothing has tidied up  *)
(* yet, a pointer to a deleted buffer a second one.                        *)
(***************************************************************************)
Displays ==
  [server : BOOLEAN, core : {"null", "live"}, pb : Pointer, device : Pointer, inputs : BOOLEAN,
   screenWidth : Nat, pbWidth : Nat, clipWidth : Nat, coreWidth : Nat,
   serverPb : {"null", "current", "freed"}, crashed : BOOLEAN]

DisplayTypeOK ==
  /\ width \in Widths
  /\ Now \in Displays
  /\ desktopStarted \in BOOLEAN
  /\ failures \in 0 .. MaxFailures

\* A core there is for a started desktop alone; the buffer and its device go
\* together.
CoreIsStarted == ~crashed => (core = "live" <=> desktopStarted) /\ device = pb

\* A buffer without a core takes a failure, a deleted one that is not forgotten
\* another.
FailuresCounted ==
  /\ ~crashed /\ ~desktopStarted /\ pb = "live" => failures >= 1
  /\ ~crashed /\ pb = "freed" => failures >= 2

DisplayIInv == DisplayTypeOK /\ CoreIsStarted /\ FailuresCounted /\ SurvivesOneFailure /\ StartedIsWhole

LEMMA DisplayInitInv == DisplayInit => DisplayIInv
<1> SUFFICES ASSUME DisplayInit PROVE DisplayIInv
  OBVIOUS
<1>1. Now \in Displays BY DEF DisplayInit, Now, Displays, Pointer
<1>2. width \in Widths /\ desktopStarted = FALSE /\ crashed = FALSE /\ failures = 0
      /\ core = "null" /\ pb = "null" /\ device = "null"
  BY DEF DisplayInit
<1>3. 0 \in 0 .. MaxFailures BY DisplayAssumption
<1>4. DisplayTypeOK BY <1>1, <1>2, <1>3 DEF DisplayTypeOK
<1> QED
  BY <1>2, <1>4 DEF DisplayIInv, CoreIsStarted, FailuresCounted, SurvivesOneFailure, StartedIsWhole

-----------------------------------------------------------------------------
(* What the operations do to a display without a core.                     *)

LEMMA EvenIsNat == ASSUME NEW w \in Nat PROVE EvenWidth(w) \in Nat
BY DEF EvenWidth

\* The old buffer is freed if there was one; freeing it twice crashes.
LEMMA OldBuffer ==
  ASSUME NEW d \in Displays, d.device = d.pb
  PROVE  LET e == DeleteOldBuffer(d)
         IN /\ e \in Displays
            /\ e.core = d.core /\ e.server = d.server /\ e.device = e.pb
            /\ e.pb = (IF d.pb = "null" THEN "null" ELSE "freed")
            /\ e.crashed = (d.crashed \/ d.pb = "freed")
<1> DEFINE a == Deleted(d, "pb")
           b == Deleted(a, "device")
<1>1. a = [d EXCEPT !.pb = IF d.pb = "null" THEN "null" ELSE "freed",
                    !.crashed = d.crashed \/ d.pb = "freed"]
  BY DEF Deleted, Displays
<1>2. a \in Displays /\ a.device = d.device /\ a.core = d.core /\ a.server = d.server
      /\ a.pb = (IF d.pb = "null" THEN "null" ELSE "freed")
      /\ a.crashed = (d.crashed \/ d.pb = "freed")
  BY <1>1 DEF Displays, Pointer
<1>3. b = [a EXCEPT !.device = IF a.device = "null" THEN "null" ELSE "freed",
                    !.crashed = a.crashed \/ a.device = "freed"]
  BY <1>2 DEF Deleted, Displays
<1>4. b \in Displays /\ b.pb = a.pb /\ b.core = d.core /\ b.server = d.server
      /\ b.device = (IF a.device = "null" THEN "null" ELSE "freed")
      /\ b.crashed = (a.crashed \/ a.device = "freed")
  <2> HIDE DEF a, b
  <2>1. b \in Displays
    <3> DEFINE x == IF a.device = "null" THEN "null" ELSE "freed"
               c == a.crashed \/ a.device = "freed"
    <3>1. x \in Pointer /\ b = [a EXCEPT !.device = x, !.crashed = c]
      BY <1>3 DEF Pointer
    <3>2. c \in BOOLEAN
      BY <1>2 DEF Displays
    <3> HIDE DEF x, c
    <3> QED BY <1>2, <3>1, <3>2 DEF Displays
  <2>2. /\ b.pb = a.pb /\ b.core = a.core /\ b.server = a.server
        /\ b.device = (IF a.device = "null" THEN "null" ELSE "freed")
        /\ b.crashed = (a.crashed \/ a.device = "freed")
    BY <1>2, <1>3 DEF Displays
  <2> QED BY <1>2, <2>1, <2>2
<1>5. DeleteOldBuffer(d) = [b EXCEPT !.serverPb = IF b.serverPb = "current" THEN "freed" ELSE b.serverPb]
  BY <1>4 DEF DeleteOldBuffer, Displays
<1> HIDE DEF a, b
<1> QED BY <1>2, <1>4, <1>5 DEF Displays

\* recreatePixelBuffer without a core: the outcomes of its three parts.
LEMMA Recreated ==
  ASSUME NEW d \in Displays, d.device = d.pb, d.core = "null", NEW w \in Nat,
         NEW force \in BOOLEAN, NEW o \in recreatePixelBuffer(d, w, force)
  PROVE  /\ o.ok \in BOOLEAN
         /\ o.after \in Displays /\ o.after.core = "null"
         /\ o.after.server = d.server /\ o.after.device = o.after.pb
         /\ o.after.crashed => d.crashed \/ d.pb = "freed"
         /\ o.after.pb = "freed" => d.pb # "null" /\ (o.ok => o.after.crashed)
         /\ o.ok /\ force =>
              /\ o.after.pb = "live" /\ o.after.clipWidth = EvenWidth(o.after.screenWidth)
              /\ d.server => o.after.serverPb = "current"
<1> DEFINE unchanged == ~force /\ d.pb # "null" /\ w = d.screenWidth
           compared == [d EXCEPT !.crashed = @ \/ (unchanged /\ d.pb = "freed")]
           e == DeleteOldBuffer(compared)
           n == [e EXCEPT !.pb = "live", !.device = "live", !.screenWidth = w,
                          !.pbWidth = EvenWidth(w)]
           p == [n EXCEPT !.clipWidth = n.pbWidth,
                          !.coreWidth = IF n.core = "null" THEN @ ELSE n.screenWidth,
                          !.crashed = @ \/ n.core = "freed",
                          !.serverPb = IF n.server THEN "current" ELSE @]
<1>1. compared \in Displays /\ compared.pb = d.pb /\ compared.device = d.device
      /\ compared.core = d.core /\ compared.server = d.server
      /\ compared.crashed = (d.crashed \/ (unchanged /\ d.pb = "freed"))
  BY DEF Displays
<1>2. e \in Displays /\ e.core = "null" /\ e.server = d.server /\ e.device = e.pb
      /\ e.pb = (IF d.pb = "null" THEN "null" ELSE "freed")
      /\ (e.crashed => d.crashed \/ d.pb = "freed")
  <2> HIDE DEF compared
  <2> QED BY <1>1, OldBuffer, ZenonT(30)
<1>3. n \in Displays /\ n.core = "null" /\ n.server = d.server /\ n.device = "live" /\ n.pb = "live"
      /\ n.screenWidth = w /\ n.pbWidth = EvenWidth(w) /\ n.crashed = e.crashed
  <2> HIDE DEF e
  <2>1. EvenWidth(w) \in Nat BY EvenIsNat
  <2>2. n \in Displays BY <1>2, <2>1 DEF Displays, Pointer
  <2> QED BY <1>2, <2>2 DEF Displays
<1>4. p \in Displays /\ p.core = "null" /\ p.server = d.server /\ p.device = "live" /\ p.pb = "live"
      /\ p.screenWidth = w /\ p.clipWidth = EvenWidth(w) /\ p.crashed = e.crashed
      /\ (d.server => p.serverPb = "current")
  <2> HIDE DEF n
  <2> QED BY <1>3 DEF Displays
<1>5. \/ o = Throws(d)
      \/ unchanged /\ o = Returns(compared)
      \/ ~unchanged /\ o \in {Throws(e), Throws(n), Returns(p)}
  <2> HIDE DEF e, unchanged, compared
  <2>1. recreatePixelBuffer(d, w, force) =
          {Throws(d)} \cup IF unchanged THEN {Returns(compared)}
                           ELSE Then({Throws(e), Returns(n)}, PublishBuffer)
    BY DEF recreatePixelBuffer, NewBuffer, e, unchanged, compared
  <2>2. PublishBuffer(n) = {Throws(n), Returns(p)}
    BY DEF PublishBuffer
  <2>3. Then({Throws(e), Returns(n)}, PublishBuffer) = {Throws(e), Throws(n), Returns(p)}
    <3> HIDE DEF n, p
    <3>1. Throws(e).ok = FALSE /\ Returns(n).ok = TRUE /\ Returns(n).after = n
      BY DEF Throws, Returns
    <3> QED BY <2>2, <3>1 DEF Then
  <2> QED BY <2>1, <2>3
<1>6. CASE o = Throws(d)
  BY <1>6 DEF Throws, Displays
<1>7. CASE unchanged /\ o = Returns(compared)
  <2> HIDE DEF compared
  <2> QED BY <1>1, <1>7 DEF Returns
<1>8. CASE ~unchanged /\ o \in {Throws(e), Throws(n), Returns(p)}
  <2> HIDE DEF e, n, p, unchanged, compared
  <2>1. CASE o = Throws(e)
    BY <1>2, <2>1 DEF Throws
  <2>2. CASE o = Throws(n)
    BY <1>2, <1>3, <2>2 DEF Throws
  <2>3. CASE o = Returns(p)
    BY <1>2, <1>4, <2>3 DEF Returns
  <2> QED BY <1>8, <2>1, <2>2, <2>3
<1> QED BY <1>5, <1>6, <1>7, <1>8

\* stopCore forgets all of them, and crashes only on what was freed before.
LEMMA Stopped ==
  ASSUME NEW d \in Displays, d.device = d.pb
  PROVE  LET e == stopCore(d)
         IN /\ e \in Displays
            /\ e.core = "null" /\ e.pb = "null" /\ e.device = "null" /\ e.server = d.server
            /\ e.crashed = (d.crashed \/ d.pb = "freed")
<1> DEFINE Loose == [server : BOOLEAN, core : Pointer, pb : Pointer, device : Pointer,
                     inputs : BOOLEAN, screenWidth : Nat, pbWidth : Nat, clipWidth : Nat,
                     coreWidth : Nat, serverPb : {"null", "current", "freed"}, crashed : BOOLEAN]
           a == Deleted(d, "core")
           b == Deleted(a, "pb")
           c == Deleted(b, "device")
<1>1. a = [d EXCEPT !.core = IF d.core = "null" THEN "null" ELSE "freed",
                    !.crashed = d.crashed \/ d.core = "freed"]
  BY DEF Deleted, Displays
<1>2. a \in Loose /\ a.pb = d.pb /\ a.device = d.device /\ a.server = d.server
      /\ a.crashed = d.crashed
  BY <1>1 DEF Displays, Pointer
<1>3. b = [a EXCEPT !.pb = IF a.pb = "null" THEN "null" ELSE "freed",
                    !.crashed = a.crashed \/ a.pb = "freed"]
  <2> HIDE DEF a
  <2> QED BY <1>2 DEF Deleted
<1>4. b \in Loose /\ b.device = d.device /\ b.server = d.server
      /\ b.crashed = (d.crashed \/ d.pb = "freed")
  <2> HIDE DEF a, b
  <2> QED BY <1>2, <1>3 DEF Pointer
<1>5. c = [b EXCEPT !.device = IF b.device = "null" THEN "null" ELSE "freed",
                    !.crashed = b.crashed \/ b.device = "freed"]
  <2> HIDE DEF b
  <2> QED BY <1>4 DEF Deleted
<1>6. c \in Loose /\ c.server = d.server /\ c.crashed = (d.crashed \/ d.pb = "freed")
  <2> HIDE DEF b, c
  <2> QED BY <1>4, <1>5 DEF Pointer
<1>7. stopCore(d) = [c EXCEPT !.core = "null", !.pb = "null", !.device = "null", !.inputs = FALSE,
                              !.serverPb = IF c.serverPb = "current" THEN "freed" ELSE c.serverPb]
  <2> HIDE DEF c
  <2> QED BY <1>6 DEF stopCore, a, b, c
<1> HIDE DEF c
<1> QED BY <1>6, <1>7, ZenonT(30) DEF Displays, Pointer

\* startCore, from a display without a core: all is there, or an exception has
\* left what recreatePixelBuffer made.
LEMMA CoreStarted ==
  ASSUME NEW d \in Displays, d.device = d.pb, d.core = "null", d.server, NEW w \in Nat,
         NEW o \in startCore(d, w)
  PROVE  /\ o.ok \in BOOLEAN
         /\ o.after \in Displays /\ o.after.server /\ o.after.device = o.after.pb
         /\ (o.after.crashed => d.crashed \/ d.pb = "freed")
         /\ ~o.ok => /\ o.after.core = "null"
                     /\ (o.after.pb = "freed" => d.pb # "null")
         /\ o.ok => /\ o.after.core = "live" /\ o.after.pb = "live" /\ o.after.inputs
                    /\ o.after.serverPb = "current"
                    /\ o.after.clipWidth = EvenWidth(o.after.screenWidth)
                    /\ o.after.coreWidth = o.after.screenWidth
<1>1. PICK x \in recreatePixelBuffer(d, w, TRUE) :
        IF x.ok THEN o \in NewCore(x.after) ELSE o = x
  BY DEF startCore, Then
<1>2. /\ x.ok \in BOOLEAN
      /\ x.after \in Displays /\ x.after.core = "null"
      /\ x.after.server = d.server /\ x.after.device = x.after.pb
      /\ x.after.crashed => d.crashed \/ d.pb = "freed"
      /\ x.after.pb = "freed" => d.pb # "null" /\ (x.ok => x.after.crashed)
      /\ x.ok => /\ x.after.pb = "live" /\ x.after.clipWidth = EvenWidth(x.after.screenWidth)
                 /\ x.after.serverPb = "current"
  BY Recreated
<1>3. CASE ~x.ok
  BY <1>1, <1>2, <1>3
<1>4. CASE x.ok /\ o = Throws(x.after)
  BY <1>2, <1>4 DEF Throws
<1>5. CASE x.ok /\ o = Returns([x.after EXCEPT !.core = "live", !.coreWidth = x.after.screenWidth,
                                              !.inputs = TRUE])
  BY <1>2, <1>5 DEF Returns, Displays
<1> QED BY <1>1, <1>2, <1>3, <1>4, <1>5 DEF NewCore

-----------------------------------------------------------------------------
(* Every step keeps the invariant.                                         *)

\* An operation that has thrown without a core: the failure is counted before
\* it can matter.
LEMMA FailureKept ==
  ASSUME DisplayIInv, ~crashed, ~desktopStarted, Counted(FALSE), width' \in Widths,
         desktopStarted' = FALSE,
         Now' \in Displays, core' = "null", device' = pb',
         crashed' => pb = "freed", pb' = "freed" => pb # "null"
  PROVE  DisplayIInv'
<1>1. failures \in 0 .. MaxFailures /\ MaxFailures \in Nat \ {0, 1}
  BY DisplayAssumption DEF DisplayIInv, DisplayTypeOK
<1>2. failures' \in 0 .. MaxFailures /\ failures' >= 1 /\ failures' >= failures
      /\ (failures >= 1 => failures' >= 2)
  BY <1>1 DEF Counted
<1>3. pb \in {"null", "live", "freed"}
  BY DEF DisplayIInv, DisplayTypeOK, Now, Displays, Pointer
<1>4. (pb # "null" => failures >= 1) /\ (pb = "freed" => failures >= 2)
  BY <1>1, <1>3 DEF DisplayIInv, FailuresCounted
<1>5. DisplayTypeOK' BY <1>2 DEF DisplayTypeOK
<1>6. CoreIsStarted' BY DEF CoreIsStarted
<1>7. FailuresCounted' BY <1>2, <1>4 DEF FailuresCounted
<1>8. SurvivesOneFailure' BY <1>1, <1>2, <1>4 DEF SurvivesOneFailure
<1>9. StartedIsWhole' BY DEF StartedIsWhole
<1> QED BY <1>5, <1>6, <1>7, <1>8, <1>9 DEF DisplayIInv

\* What an operation has made becomes the state.
LEMMA BecomeNow ==
  ASSUME NEW d \in Displays, Become(d)
  PROVE  Now' \in Displays
BY DEF Become, Now, Displays

LEMMA StartKeeps == ASSUME DisplayIInv, Start PROVE DisplayIInv'
<1> DEFINE d == [Now EXCEPT !.server = TRUE]
<1>1. PICK o \in startCore(d, width) :
        Become(o.after) /\ desktopStarted' = o.ok /\ Counted(o.ok)
  BY DEF Start
<1>2. ~crashed /\ ~desktopStarted /\ width' = width /\ width \in Widths /\ width \in Nat
  BY DisplayAssumption DEF Start, DisplayIInv, DisplayTypeOK
<1>3. core = "null" /\ device = pb
  BY <1>2 DEF DisplayIInv, DisplayTypeOK, CoreIsStarted, Now, Displays
<1>4. d \in Displays /\ d.server /\ d.core = "null" /\ d.device = d.pb /\ d.pb = pb
      /\ d.crashed = FALSE
  <2>1. Now \in Displays /\ Now.core = core /\ Now.device = device /\ Now.pb = pb /\ Now.crashed = crashed
    BY DEF DisplayIInv, DisplayTypeOK, Now
  <2> HIDE DEF Now
  <2>2. d \in Displays
    BY <2>1 DEF Displays
  <2>3. d.server /\ d.core = Now.core /\ d.device = Now.device /\ d.pb = Now.pb /\ d.crashed = Now.crashed
    BY <2>1 DEF Displays
  <2>4. crashed \in BOOLEAN
    BY <2>1 DEF Displays
  <2> QED BY <1>2, <1>3, <2>1, <2>2, <2>3, <2>4
<1> HIDE DEF d
<1>5. /\ o.ok \in BOOLEAN
      /\ o.after \in Displays /\ o.after.server /\ o.after.device = o.after.pb
      /\ (o.after.crashed => pb = "freed")
      /\ ~o.ok => /\ o.after.core = "null"
                  /\ (o.after.pb = "freed" => pb # "null")
      /\ o.ok => /\ o.after.core = "live" /\ o.after.pb = "live" /\ o.after.inputs
                 /\ o.after.serverPb = "current"
                 /\ o.after.clipWidth = EvenWidth(o.after.screenWidth)
                 /\ o.after.coreWidth = o.after.screenWidth
  BY <1>2, <1>4, CoreStarted
<1>6. Now' \in Displays BY <1>1, <1>5, BecomeNow
<1>7. /\ core' = o.after.core /\ pb' = o.after.pb /\ device' = o.after.device
      /\ server' = o.after.server /\ inputs' = o.after.inputs /\ serverPb' = o.after.serverPb
      /\ screenWidth' = o.after.screenWidth /\ clipWidth' = o.after.clipWidth
      /\ coreWidth' = o.after.coreWidth /\ crashed' = o.after.crashed
  BY <1>1 DEF Become
<1>8. CASE ~o.ok
  <2>1. desktopStarted' = FALSE /\ Counted(FALSE) BY <1>1, <1>5, <1>8
  <2> QED BY <1>2, <1>5, <1>6, <1>7, <1>8, <2>1, FailureKept
<1>9. CASE o.ok
  <2>1. desktopStarted' = TRUE /\ failures' = failures BY <1>1, <1>5, <1>9 DEF Counted
  <2>2. DisplayTypeOK' BY <1>2, <1>6, <2>1 DEF DisplayIInv, DisplayTypeOK
  <2>3. CoreIsStarted' BY <1>5, <1>7, <1>9, <2>1 DEF CoreIsStarted
  <2>4. FailuresCounted' BY <1>5, <1>7, <1>9, <2>1 DEF FailuresCounted
  <2>5. SurvivesOneFailure'
    BY <1>2, <1>5, <1>7, <2>1 DEF SurvivesOneFailure, DisplayIInv, FailuresCounted
  <2>6. StartedIsWhole' BY <1>5, <1>7, <1>9, <2>1 DEF StartedIsWhole
  <2> QED BY <2>2, <2>3, <2>4, <2>5, <2>6 DEF DisplayIInv
<1> QED BY <1>5, <1>8, <1>9

LEMMA StopKeeps == ASSUME DisplayIInv, Stop PROVE DisplayIInv'
<1> DEFINE d == [Now EXCEPT !.serverPb = "null"]
           e == stopCore(d)
           f == [e EXCEPT !.server = FALSE]
<1>1. ~crashed /\ desktopStarted /\ Become(f) /\ desktopStarted' = FALSE /\ failures' = 0
      /\ width' = width
  BY DEF Stop
<1>2. pb = "live" /\ device = pb
  BY <1>1 DEF DisplayIInv, StartedIsWhole, CoreIsStarted
<1>3. d \in Displays /\ d.device = d.pb /\ d.pb = "live" /\ d.crashed = FALSE
  BY <1>1, <1>2 DEF DisplayIInv, DisplayTypeOK, Now, Displays
<1>4. e \in Displays /\ e.core = "null" /\ e.pb = "null" /\ e.device = "null" /\ e.crashed = FALSE
  <2> HIDE DEF d
  <2> QED BY <1>3, Stopped
<1>5. f \in Displays /\ f.core = "null" /\ f.pb = "null" /\ f.device = "null" /\ f.crashed = FALSE
  <2> HIDE DEF e
  <2> QED BY <1>4 DEF Displays
<1> HIDE DEF f
<1>6. Now' \in Displays BY <1>1, <1>5, BecomeNow
<1>7. core' = "null" /\ pb' = "null" /\ device' = "null" /\ crashed' = FALSE
  BY <1>1, <1>5 DEF Become
<1>8. 0 \in 0 .. MaxFailures BY DisplayAssumption
<1>9. DisplayTypeOK' BY <1>1, <1>6, <1>8 DEF DisplayIInv, DisplayTypeOK
<1> QED BY <1>1, <1>7, <1>9
        DEF DisplayIInv, CoreIsStarted, FailuresCounted, SurvivesOneFailure, StartedIsWhole

LEMMA GetFbSizeKeeps == ASSUME DisplayIInv, GetFbSize PROVE DisplayIInv'
<1>1. ~crashed /\ width' = width /\ desktopStarted' = desktopStarted /\ width \in Widths
      /\ width \in Nat
  BY DisplayAssumption DEF GetFbSize, DisplayIInv, DisplayTypeOK
<1>2. core \in {"null", "live"} /\ Now \in Displays /\ device = pb
      /\ (core = "live" <=> desktopStarted) /\ desktopStarted \in BOOLEAN
  BY <1>1 DEF DisplayIInv, DisplayTypeOK, CoreIsStarted, Now, Displays
<1>3. CASE core # "null"
  <2>1. pb = "live" BY <1>1, <1>2, <1>3 DEF DisplayIInv, StartedIsWhole
  <2>2. crashed' = FALSE /\ UNCHANGED <<width, objectVars, sizeVars, serverPb, failures, desktopStarted>>
    BY <1>1, <1>3, <2>1 DEF GetFbSize
  <2>3. DisplayTypeOK'
    BY <1>1, <1>2, <2>2 DEF DisplayIInv, DisplayTypeOK, Now, Displays, objectVars, sizeVars
  <2> QED BY <1>1, <2>2, <2>3
          DEF DisplayIInv, CoreIsStarted, FailuresCounted, SurvivesOneFailure, StartedIsWhole,
              objectVars, sizeVars
<1>4. CASE core = "null"
  <2>1. PICK o \in recreatePixelBuffer(Now, width, FALSE) :
          /\ Become(IF o.ok THEN stopCore(o.after) ELSE o.after)
          /\ IF o.ok /\ ~o.after.crashed THEN failures' = 0 ELSE Counted(o.ok)
    BY <1>4 DEF GetFbSize
  <2>2. Now.core = "null" /\ Now.device = Now.pb /\ Now.pb = pb /\ Now.crashed = FALSE
    BY <1>1, <1>2, <1>4 DEF Now, DisplayIInv, DisplayTypeOK, Displays
  <2>3. /\ o.ok \in BOOLEAN
        /\ o.after \in Displays /\ o.after.core = "null" /\ o.after.device = o.after.pb
        /\ o.after.crashed => pb = "freed"
        /\ o.after.pb = "freed" => pb # "null" /\ (o.ok => o.after.crashed)
    BY <1>1, <1>2, <2>2, Recreated
  <2>4. ~desktopStarted BY <1>2, <1>4
  <2>5. CASE ~o.ok
    <3>1. Become(o.after) /\ Counted(FALSE) BY <2>1, <2>3, <2>5
    <3>2. Now' \in Displays BY <2>3, <3>1, BecomeNow
    <3>3. core' = "null" /\ device' = pb' /\ (crashed' => pb = "freed")
          /\ (pb' = "freed" => pb # "null")
      BY <2>3, <3>1 DEF Become
    <3>4. desktopStarted' = FALSE BY <1>1, <1>2, <2>4
    <3> QED BY <1>1, <2>4, <3>1, <3>2, <3>3, <3>4, FailureKept
  <2>6. CASE o.ok
    <3> DEFINE e == stopCore(o.after)
    <3>1. e \in Displays /\ e.core = "null" /\ e.pb = "null" /\ e.device = "null"
          /\ (e.crashed => o.after.crashed)
      BY <2>3, <2>6, Stopped
    <3>2. Become(e) BY <2>1, <2>6
    <3> HIDE DEF e
    <3>3. Now' \in Displays BY <3>1, <3>2, BecomeNow
    <3>4. core' = "null" /\ pb' = "null" /\ device' = "null" /\ (crashed' => o.after.crashed)
      BY <3>1, <3>2 DEF Become
    <3>5. failures' \in {0, failures} /\ (o.after.crashed => failures' = failures)
      BY <2>1, <2>6 DEF Counted
    <3>6. failures' \in 0 .. MaxFailures
      BY <3>5, DisplayAssumption DEF DisplayIInv, DisplayTypeOK
    <3>7. DisplayTypeOK' BY <1>1, <1>2, <3>3, <3>6 DEF DisplayIInv, DisplayTypeOK
    <3>8. SurvivesOneFailure'
      BY <1>1, <2>3, <3>4, <3>5 DEF DisplayIInv, SurvivesOneFailure, FailuresCounted
    <3> QED BY <1>1, <2>4, <3>4, <3>7, <3>8
            DEF DisplayIInv, CoreIsStarted, FailuresCounted, StartedIsWhole
  <2> QED BY <2>3, <2>5, <2>6
<1> QED BY <1>3, <1>4

LEMMA UseDesktopKeeps == ASSUME DisplayIInv, UseDesktop PROVE DisplayIInv'
<1>1. crashed' = FALSE /\ ~crashed
      /\ UNCHANGED <<width, objectVars, sizeVars, serverPb, desktopStarted, failures>>
  BY DEF UseDesktop, DisplayIInv, StartedIsWhole
<1> QED BY <1>1
        DEF DisplayIInv, DisplayTypeOK, Now, Displays, CoreIsStarted, FailuresCounted, SurvivesOneFailure,
            StartedIsWhole, objectVars, sizeVars

LEMMA ResizeKeeps == ASSUME DisplayIInv, Resize PROVE DisplayIInv'
BY DEF Resize, DisplayIInv, DisplayTypeOK, Now, Displays, CoreIsStarted, FailuresCounted, SurvivesOneFailure,
       StartedIsWhole, objectVars, sizeVars

\* The strengthened invariant of the desktop's objects: their types, which of
\* them come and go together, and what a dangling pointer costs in failures.
THEOREM DisplayInvariance == DisplaySpec => []DisplayIInv
<1>1. DisplayInit => DisplayIInv BY DisplayInitInv
<1>2. ASSUME DisplayIInv, [DisplayNext]_displayVars PROVE DisplayIInv'
  <2>1. CASE Start BY <1>2, <2>1, StartKeeps
  <2>2. CASE Stop BY <1>2, <2>2, StopKeeps
  <2>3. CASE GetFbSize BY <1>2, <2>3, GetFbSizeKeeps
  <2>4. CASE UseDesktop BY <1>2, <2>4, UseDesktopKeeps
  <2>5. CASE Resize BY <1>2, <2>5, ResizeKeeps
  <2>6. CASE UNCHANGED displayVars
    BY <1>2, <2>6
    DEF DisplayIInv, DisplayTypeOK, Now, Displays, CoreIsStarted, FailuresCounted, SurvivesOneFailure,
        StartedIsWhole, objectVars, sizeVars, displayVars
  <2> QED BY <1>2, <2>1, <2>2, <2>3, <2>4, <2>5, <2>6 DEF DisplayNext
<1> QED BY <1>1, <1>2, PTL DEF DisplaySpec

\* SDisplay::start, stop and getFbSize with any number of exceptions between
\* them: a started desktop has all of its objects, of one size, and a deleted
\* one is used only after two failures with no stopCore() between them.
THEOREM WholeDesktop == DisplaySpec => []DesktopIsWhole
<1>1. DisplayIInv => DesktopIsWhole BY DEF DisplayIInv, DesktopIsWhole
<1> QED BY <1>1, DisplayInvariance, PTL

-----------------------------------------------------------------------------
(***************************************************************************)
(* No key stays down in the system that no client has recorded as pressed, *)
(* for any clients and any keys.                                           *)
(***************************************************************************)
Recorded == UNION {VksOf(k) : k \in UNION {pressedKeys[c] : c \in present}}

InputInv ==
  /\ pressedKeys = [c \in Clients |-> pressedKeys[c]]
  /\ present \subseteq Clients
  /\ NothingStuck

\* The shift that stands for a part of ISO_Left_Tab.
LEMMA ShiftKey ==
  ASSUME NEW os
  PROVE  /\ SKeyboard_keyEvent(os, Shift_L, TRUE) = os \cup {VkShift}
         /\ SKeyboard_keyEvent(os, Shift_L, FALSE) = os \ {VkShift}
<1>1. ToAscii(Shift_L) = Shift_L /\ Shift_L \notin Latin1 /\ Shift_L \in DOMAIN vkMap
      /\ vkMap[Shift_L] = VkShift
  BY InputAssumption DEF ToAscii
<1> QED BY <1>1 DEF SKeyboard_keyEvent, doKeyboardEvent

\* What is down after a press is what was down and the key's own.
LEMMA PressAdds ==
  ASSUME NEW os, NEW key
  PROVE  SKeyboard_keyEvent(os, key, TRUE) \subseteq os \cup VksOf(key)
<1> DEFINE k == ToAscii(key)
           s == CHOOSE s \in VkKeyScan(k) : TRUE
<1>1. CASE k \in Latin1 /\ VkKeyScan(k) # {}
  <2>1. SKeyboard_keyEvent(os, key, TRUE) = doKeyEventWithModifiers(os, s.vk, s.mods, TRUE)
    BY <1>1 DEF SKeyboard_keyEvent
  <2>2. s \in VkKeyScan(k)
    BY <1>1
  <2>3. s.vk \in VksOf(key)
    BY <2>2 DEF VksOf
  <2> HIDE DEF s
  <2> QED BY <2>1, <2>3 DEF doKeyEventWithModifiers, doKeyboardEvent
<1>2. CASE k \notin Latin1 /\ k \in DOMAIN vkMap
  <2>1. SKeyboard_keyEvent(os, key, TRUE) = os \cup {vkMap[k]}
    BY <1>2 DEF SKeyboard_keyEvent, doKeyboardEvent
  <2>2. vkMap[k] \in VksOf(key)
    BY <1>2 DEF VksOf
  <2> QED BY <2>1, <2>2
<1>3. CASE ~ (k \in Latin1 /\ VkKeyScan(k) # {}) /\ ~ (k \notin Latin1 /\ k \in DOMAIN vkMap)
  BY <1>3 DEF SKeyboard_keyEvent
<1> QED BY <1>1, <1>2, <1>3

\* A key that is released is not down, nor is any other key pressed by that.
LEMMA ReleaseRemoves ==
  ASSUME NEW os, NEW key
  PROVE  SKeyboard_keyEvent(os, key, FALSE) = os \ VksOf(key)
<1> DEFINE k == ToAscii(key)
           s == CHOOSE s \in VkKeyScan(k) : TRUE
<1>1. CASE k \in DOMAIN VkScanKeyMap
  <2>1. k \in Latin1 /\ k \notin DOMAIN vkMap /\ VkKeyScan(k) = {VkScanKeyMap[k]}
    BY <1>1, InputAssumption DEF VkKeyScan
  <2>2. s = VkScanKeyMap[k]
    BY <2>1
  <2>3. VksOf(key) = {s.vk}
    BY <2>1, <2>2 DEF VksOf
  <2>4. SKeyboard_keyEvent(os, key, FALSE) = doKeyEventWithModifiers(os, s.vk, s.mods, FALSE)
    BY <2>1 DEF SKeyboard_keyEvent
  <2> HIDE DEF s
  <2> QED BY <2>3, <2>4 DEF doKeyEventWithModifiers, doKeyboardEvent
<1>2. CASE k \notin DOMAIN VkScanKeyMap
  <2>1. VkKeyScan(k) = {} /\ (k \in DOMAIN vkMap => k \notin Latin1)
    BY <1>2, InputAssumption DEF VkKeyScan
  <2>2. VksOf(key) = {vkMap[j] : j \in DOMAIN vkMap \cap {k}}
    BY <2>1 DEF VksOf
  <2>3. CASE k \in DOMAIN vkMap
    <3>1. VksOf(key) = {vkMap[k]}
      BY <2>2, <2>3
    <3>2. SKeyboard_keyEvent(os, key, FALSE) = os \ {vkMap[k]}
      BY <2>1, <2>3 DEF SKeyboard_keyEvent, doKeyboardEvent
    <3> QED BY <3>1, <3>2
  <2>4. CASE k \notin DOMAIN vkMap
    <3>1. VksOf(key) = {}
      BY <2>2, <2>4
    <3>2. SKeyboard_keyEvent(os, key, FALSE) = os
      BY <2>1, <2>4 DEF SKeyboard_keyEvent
    <3> QED BY <3>1, <3>2
  <2> QED BY <2>3, <2>4
<1> QED BY <1>1, <1>2

\* A press puts back what it released for the character.
LEMMA PressKeeps ==
  ASSUME NEW os, NEW key
  PROVE  os \subseteq SKeyboard_keyEvent(os, key, TRUE)
<1> DEFINE k == ToAscii(key)
           s == CHOOSE s \in VkKeyScan(k) : TRUE
<1>1. os \subseteq doKeyEventWithModifiers(os, s.vk, s.mods, TRUE)
  <2> HIDE DEF s
  <2> QED BY DEF doKeyEventWithModifiers, doKeyboardEvent
<1>2. CASE k \in Latin1 /\ VkKeyScan(k) # {}
  BY <1>1, <1>2 DEF SKeyboard_keyEvent
<1>3. CASE ~ (k \in Latin1 /\ VkKeyScan(k) # {})
  BY <1>3 DEF SKeyboard_keyEvent, doKeyboardEvent
<1> QED BY <1>2, <1>3

-----------------------------------------------------------------------------
LEMMA InputInitInv == InputInit => InputInv
BY DEF InputInit, InputInv, NothingStuck

\* The key of an event, and the keys that are down when it has been handled.
LEMMA KeyDown ==
  ASSUME InputInv, NEW c \in Clients, NEW k, NEW down \in BOOLEAN, keyEvent(c, k, down)
  PROVE  InputInv'
<1> DEFINE leftTab == remapKey(k) = ISO_Left_Tab
           key == IF leftTab THEN Tab ELSE remapKey(k)
           presser == leftTab /\ pressedKeys[c] \cap {Shift_L, Shift_R} = {}
           before == IF presser THEN SKeyboard_keyEvent(keysDown, Shift_L, TRUE) ELSE keysDown
           after == IF down \/ key \in pressedKeys[c]
                    THEN SKeyboard_keyEvent(before, key, down) ELSE before
           keys == IF down THEN pressedKeys[c] \cup {key} ELSE pressedKeys[c] \ {key}
<1>1. c \in present /\ present' = present
      /\ keysDown' = (IF presser THEN SKeyboard_keyEvent(after, Shift_L, FALSE) ELSE after)
      /\ pressedKeys' = [pressedKeys EXCEPT ![c] = keys]
  BY DEF keyEvent, Record
<1>2. before \subseteq keysDown \cup (IF presser THEN {VkShift} ELSE {})
  BY ShiftKey
<1>3. keysDown' \subseteq after /\ (presser => VkShift \notin keysDown')
  <2>1. SKeyboard_keyEvent(after, Shift_L, FALSE) = after \ {VkShift}
    BY ShiftKey
  <2> HIDE DEF after, presser
  <2> QED BY <1>1, <2>1
<1>4. pressedKeys' = [d \in Clients |-> IF d = c THEN keys ELSE pressedKeys[d]]
  BY <1>1 DEF InputInv
<1> HIDE DEF before, presser
<1>5. ASSUME NEW vk \in keysDown'
      PROVE  \E d \in present : \E j \in pressedKeys'[d] : vk \in VksOf(j)
  <2>1. CASE down
    <3>1. vk \in keysDown \/ vk \in VksOf(key)
      BY <1>2, <1>3, <2>1, PressAdds
    <3>2. CASE vk \in VksOf(key)
      BY <3>2, <1>1, <1>4, <2>1
    <3>3. CASE vk \in keysDown
      <4>1. PICK d \in present : \E j \in pressedKeys[d] : vk \in VksOf(j)
        BY <3>3 DEF InputInv, NothingStuck
      <4> QED BY <4>1, <1>4, <2>1 DEF InputInv
    <3> QED BY <3>1, <3>2, <3>3
  <2>2. CASE ~down
    <3>1. vk \in keysDown /\ (key \in pressedKeys[c] => vk \notin VksOf(key))
      <4>1. SKeyboard_keyEvent(before, key, FALSE) = before \ VksOf(key)
        BY ReleaseRemoves
      <4>2. after = IF key \in pressedKeys[c] THEN before \ VksOf(key) ELSE before
        BY <2>2, <4>1
      <4> HIDE DEF key, after
      <4> QED BY <1>2, <1>3, <4>2
    <3>2. PICK d \in present : \E j \in pressedKeys[d] : vk \in VksOf(j)
      BY <3>1 DEF InputInv, NothingStuck
    <3>3. PICK j \in pressedKeys[d] : vk \in VksOf(j)
      BY <3>2
    <3>4. j \in pressedKeys'[d]
      BY <3>1, <3>3, <1>4, <2>2 DEF InputInv
    <3> QED BY <3>3, <3>4
  <2> QED BY <2>1, <2>2
<1> HIDE DEF after, keys
<1>6. present' \subseteq Clients
  BY <1>1 DEF InputInv
<1>7. pressedKeys' = [d \in Clients |-> pressedKeys'[d]]
  BY <1>4
<1>8. keysDown' \subseteq UNION {VksOf(j) : j \in UNION {pressedKeys'[d] : d \in present'}}
  BY <1>1, <1>5
<1> QED BY <1>6, <1>7, <1>8 DEF InputInv, NothingStuck

LEMMA InputNextInv == InputInv /\ [InputNext]_inputVars => InputInv'
<1> SUFFICES ASSUME InputInv, [InputNext]_inputVars PROVE InputInv'
  OBVIOUS
<1>1. ASSUME NEW c \in Clients, Enter(c) PROVE InputInv'
  BY <1>1 DEF Enter, InputInv, NothingStuck, keyVars
<1>2. ASSUME NEW c \in Clients, Leave(c) PROVE InputInv'
  <2>1. pressedKeys' = [d \in Clients |-> IF d = c THEN {} ELSE pressedKeys[d]]
    BY <1>2 DEF Leave, InputInv
  <2>2. present' = present \ {c}
        /\ keysDown' = keysDown \ UNION {VksOf(k) : k \in pressedKeys[c]}
    BY <1>2 DEF Leave
  <2>3. ASSUME NEW vk \in keysDown'
        PROVE  \E d \in present' : \E j \in pressedKeys'[d] : vk \in VksOf(j)
    <3>1. PICK d \in present : \E j \in pressedKeys[d] : vk \in VksOf(j)
      BY <2>2 DEF InputInv, NothingStuck
    <3>2. d # c
      BY <2>2, <3>1
    <3> QED BY <2>1, <2>2, <3>1, <3>2 DEF InputInv
  <2> QED BY <2>1, <2>2, <2>3 DEF InputInv, NothingStuck
<1>3. ASSUME NEW c \in Clients, NEW k \in Keysym, NEW down \in BOOLEAN, keyEvent(c, k, down)
      PROVE  InputInv'
  BY <1>3, KeyDown
<1>4. ASSUME NEW c \in Clients, NEW mask \in SUBSET Buttons, NEW inside \in BOOLEAN,
             pointerEvent(c, mask, inside)
      PROVE  InputInv'
  BY <1>4 DEF pointerEvent, InputInv, NothingStuck, keyVars
<1>5. CASE UNCHANGED inputVars
  BY <1>5 DEF inputVars, keyVars, InputInv, NothingStuck
<1> QED BY <1>1, <1>2, <1>3, <1>4, <1>5 DEF InputNext

THEOREM KeysAreRecorded == InputSpec => []NothingStuck
<1>1. InputInv => NothingStuck BY DEF InputInv
<1> QED BY InputInitInv, InputNextInv, <1>1, PTL DEF InputSpec

\* What a step that is not a key's press does to the keys of a client.
LEMMA TypingStep ==
  ASSUME InputInv, [InputNext]_inputVars
  PROVE  [\A c \in Clients, k \in Latin1 :
            k \in pressedKeys'[c] \ pressedKeys[c] => keysDown \subseteq keysDown']_inputVars
<1> SUFFICES ASSUME InputNext, NEW c \in Clients, NEW k \in Latin1,
                    k \in pressedKeys'[c], k \notin pressedKeys[c]
             PROVE  keysDown \subseteq keysDown'
  OBVIOUS
<1>1. ASSUME NEW d \in Clients, Enter(d) \/ Leave(d) PROVE FALSE
  BY <1>1 DEF Enter, Leave, keyVars, InputInv
<1>2. ASSUME NEW d \in Clients, NEW mask \in SUBSET Buttons, NEW inside \in BOOLEAN,
             pointerEvent(d, mask, inside)
      PROVE  FALSE
  BY <1>2 DEF pointerEvent, keyVars
<1>3. ASSUME NEW d \in Clients, NEW j \in Keysym, NEW down \in BOOLEAN, keyEvent(d, j, down)
      PROVE  keysDown \subseteq keysDown'
  <2> DEFINE key == IF remapKey(j) = ISO_Left_Tab THEN Tab ELSE remapKey(j)
             keys == IF down THEN pressedKeys[d] \cup {key} ELSE pressedKeys[d] \ {key}
  <2>1. pressedKeys' = [pressedKeys EXCEPT ![d] = keys]
    BY <1>3 DEF keyEvent, Record
  <2>2. pressedKeys' = [e \in Clients |-> IF e = d THEN keys ELSE pressedKeys[e]]
    BY <2>1 DEF InputInv
  <2>3. d = c /\ down /\ k = key
    BY <2>2
  <2>4. remapKey(j) # ISO_Left_Tab
    BY <2>3, InputAssumption
  <2>5. keysDown' = SKeyboard_keyEvent(keysDown, key, TRUE)
    BY <1>3, <2>3, <2>4 DEF keyEvent
  <2> QED BY <2>5, PressKeeps
<1> QED BY <1>1, <1>2, <1>3 DEF InputNext

THEOREM TypingKeeps == InputSpec => TypingKeepsKeys
<1>1. InputInit => InputInv BY InputInitInv
<1> QED BY <1>1, InputNextInv, TypingStep, PTL DEF InputSpec, TypingKeepsKeys

-----------------------------------------------------------------------------
(***************************************************************************)
(* The picture in memory.  What is drawn is what the memory shows, for any *)
(* size of the buffer and any padding of its rows: a row of the memory      *)
(* belongs to one row of the picture, and a copy reads no row that it has   *)
(* written.                                                                *)
(***************************************************************************)
Memory == 0 .. Stride * High - 1
IsMemory(d) == d = [a \in Memory |-> d[a]]
Spot(p) == At(p[1], p[2])
Shows(d, f) == IsMemory(d) /\ \A p \in Points : d[Spot(p)] = f[p]

PictureIInv == IsMemory(data) /\ MemoryIsPicture

\* A place is in one row.
LEMMA OneRow ==
  ASSUME NEW S \in Nat, NEW x \in 0 .. S - 1, NEW v \in 0 .. S - 1, NEW y \in Nat, NEW u \in Nat,
         x + y * S = v + u * S
  PROVE  x = v /\ y = u
<1>1. \A b, c \in Nat : b < c => b * S + S <= c * S
  <2> SUFFICES ASSUME NEW b \in Nat, NEW c \in Nat, b < c PROVE b * S + S <= c * S
    OBVIOUS
  <2>1. PICK e \in Nat : c = b + 1 + e
    <3>1. c - b - 1 \in Nat /\ c = b + 1 + (c - b - 1)
      OBVIOUS
    <3> QED BY <3>1
  <2>2. c * S = b * S + S + e * S
    BY <2>1
  <2>3. e * S \in Nat /\ b * S \in Nat
    OBVIOUS
  <2> QED BY <2>2, <2>3
<1>2. y * S \in Nat /\ u * S \in Nat
  OBVIOUS
<1>3. ~ (y < u)
  BY <1>1, <1>2
<1>4. ~ (u < y)
  BY <1>1, <1>2
<1>5. y = u
  BY <1>3, <1>4
<1> QED BY <1>2, <1>5

LEMMA PlaceInside ==
  ASSUME NEW S \in Nat, NEW H \in Nat, NEW x \in 0 .. S - 1, NEW y \in 0 .. H - 1
  PROVE  x + y * S \in 0 .. S * H - 1
<1>1. PICK e \in Nat : H = y + 1 + e
  <2>1. H - y - 1 \in Nat /\ H = y + 1 + (H - y - 1)
    OBVIOUS
  <2> QED BY <2>1
<1>2. S * H = y * S + S + e * S
  BY <1>1
<1>3. y * S \in Nat /\ e * S \in Nat
  OBVIOUS
<1> QED BY <1>2, <1>3

LEMMA PlaceOf ==
  ASSUME NEW S \in Nat, NEW x \in 0 .. S - 1, NEW y \in Nat
  PROVE  (x + y * S) % S = x /\ (x + y * S) \div S = y
<1> DEFINE a == x + y * S
<1>1. a \in Nat /\ S > 0
  <2>1. y * S \in Nat
    OBVIOUS
  <2> QED BY <2>1
<1> DEFINE q == a \div S
           m == a % S
<1> HIDE DEF a
<1>2. q \in Nat /\ m \in 0 .. S - 1 /\ a = S * q + m
  BY <1>1, DivMod
<1> HIDE DEF q, m
<1>3. m + q * S = x + y * S
  BY <1>2 DEF a
<1>4. m = x /\ q = y
  BY ONLY <1>2, <1>3, OneRow, S \in Nat, x \in 0 .. S - 1, y \in Nat
<1> QED BY <1>4 DEF a, q, m

LEMMA SpotInMemory == ASSUME NEW p \in Points PROVE Spot(p) \in Memory
<1>1. p[1] \in 0 .. Stride - 1 /\ p[2] \in 0 .. High - 1 /\ Stride \in Nat /\ High \in Nat
  BY PictureAssumption DEF Points
<1>2. p[1] + p[2] * Stride \in 0 .. Stride * High - 1
  BY ONLY <1>1, PlaceInside
<1> QED BY <1>2 DEF Spot, At, Memory

\* A row of w places from the point (x, y) on has the points beside it.
LEMMA RowHas ==
  ASSUME NEW p \in Points, NEW x \in Nat, NEW y \in Nat, NEW w \in Nat, x + w <= Wide
  PROVE  /\ Spot(p) \in At(x, y) .. At(x, y) + w - 1 <=> p[2] = y /\ p[1] \in x .. x + w - 1
         /\ p[2] = y => Spot(p) - At(x, y) = p[1] - x
<1>1. /\ p[1] \in Nat /\ p[1] < Wide /\ p[2] \in Nat /\ Stride \in Nat
      /\ Wide <= Stride /\ Wide \in Nat
  BY PictureAssumption DEF Points
<1>2. p[2] * Stride \in Nat /\ y * Stride \in Nat
  BY <1>1
<1>3. p[2] = y => Spot(p) - At(x, y) = p[1] - x
  BY <1>1, <1>2 DEF Spot, At
<1>4. ASSUME p[2] = y, p[1] \in x .. x + w - 1 PROVE Spot(p) \in At(x, y) .. At(x, y) + w - 1
  BY <1>1, <1>2, <1>4 DEF Spot, At
<1>5. ASSUME Spot(p) \in At(x, y) .. At(x, y) + w - 1 PROVE p[2] = y /\ p[1] \in x .. x + w - 1
  <2>1. PICK j \in 0 .. w - 1 : p[1] + p[2] * Stride = (x + j) + y * Stride
    <3>1. Spot(p) - At(x, y) \in 0 .. w - 1
      BY <1>5, <1>1, <1>2 DEF Spot, At
    <3>2. p[1] + p[2] * Stride = (x + (Spot(p) - At(x, y))) + y * Stride
      BY <1>1, <1>2 DEF Spot, At
    <3> QED BY <3>1, <3>2
  <2>2. p[1] \in 0 .. Stride - 1 /\ x + j \in 0 .. Stride - 1
    BY <1>1
  <2>3. p[1] = x + j /\ p[2] = y
    <3> DEFINE v == x + j
    <3>1. /\ v \in 0 .. Stride - 1 /\ p[1] \in 0 .. Stride - 1 /\ p[2] \in Nat /\ Stride \in Nat
          /\ p[1] + p[2] * Stride = v + y * Stride
      BY <1>1, <2>1, <2>2
    <3> HIDE DEF v
    <3>2. p[1] = v /\ p[2] = y
      BY ONLY <3>1, OneRow, y \in Nat
    <3> QED BY <3>2 DEF v
  <2> QED BY <2>3
<1> QED BY <1>3, <1>4, <1>5

\* A row of w pixels, put to (x, y).
RowPut(g, m, s, src, x, y, w) ==
  /\ IsMemory(g)
  /\ \A p \in Points :
       g[Spot(p)] = IF p[2] = y /\ p[1] \in x .. x + w - 1 THEN s[src + (p[1] - x)] ELSE m[Spot(p)]

LEMMA RowMoved ==
  ASSUME NEW m, IsMemory(m), NEW s, NEW x \in Nat, NEW y \in Nat, NEW w \in Nat,
         NEW src \in Int, x + w <= Wide, NEW g, g = MoveRow(m, At(x, y), s, src, w)
  PROVE  RowPut(g, m, s, src, x, y, w)
<1>1. DOMAIN m = Memory
  BY DEF IsMemory
<1>2. g = [a \in Memory |-> IF a \in At(x, y) .. At(x, y) + w - 1 THEN s[src + a - At(x, y)] ELSE m[a]]
  BY <1>1 DEF MoveRow
<1>3. IsMemory(g)
  BY <1>2 DEF IsMemory
<1>4. ASSUME NEW p \in Points
      PROVE  g[Spot(p)] = IF p[2] = y /\ p[1] \in x .. x + w - 1 THEN s[src + (p[1] - x)] ELSE m[Spot(p)]
  <2>1. g[Spot(p)] = IF Spot(p) \in At(x, y) .. At(x, y) + w - 1
                     THEN s[src + Spot(p) - At(x, y)] ELSE m[Spot(p)]
    BY <1>2, SpotInMemory
  <2>2. At(x, y) \in Int /\ Spot(p) \in Int /\ p[1] \in Int
    BY SpotInMemory, PictureAssumption DEF At, Memory, Points
  <2>3. p[2] = y => src + Spot(p) - At(x, y) = src + (p[1] - x)
    BY RowHas, <2>2
  <2> QED BY <2>1, <2>3, RowHas
<1> QED BY <1>3, <1>4 DEF RowPut

\* The rows that are put in, or copied, follow one another as they are defined.
Putting(put, d, to, s, from, w, n) ==
  put[0] = d /\ \A k \in 1 .. n : put[k] = MoveRow(put[k - 1], to[k], s, from[k], w)
Copying(put, d, to, from, w, n) ==
  put[0] = d /\ \A k \in 1 .. n : put[k] = MoveRow(put[k - 1], to[k], put[k - 1], from[k], w)

LEMMA PuttingFollows ==
  ASSUME NEW d, IsMemory(d), NEW to, NEW n \in Nat, Len(to) = n, to \in [1 .. n -> Int], NEW s,
         NEW from \in [1 .. n -> Int], NEW w \in Nat
  PROVE  Putting(PutRows(d, to, s, from, w), d, to, s, from, w, n)
<1> DEFINE Is(g) == g = [k \in 0 .. n |-> IF k = 0 THEN d ELSE MoveRow(g[k - 1], to[k], s, from[k], w)]
           V == {d[a] : a \in Memory} \cup {s[i] : i \in Int}
           D == [Memory -> V]
           step == [k \in Nat |-> [m \in D |-> IF k \in 1 .. n THEN MoveRow(m, to[k], s, from[k], w) ELSE m]]
<1>1. d \in D
  BY DEF IsMemory
<1>2. ASSUME NEW k \in 1 .. n, NEW m \in D PROVE MoveRow(m, to[k], s, from[k], w) \in D
  <2>1. to[k] \in Int /\ from[k] \in Int /\ \A a \in Memory : a \in Int
    BY DEF Memory
  <2>2. DOMAIN m = Memory
    OBVIOUS
  <2>3. ASSUME NEW a \in Memory
        PROVE  (IF a \in to[k] .. to[k] + w - 1 THEN s[from[k] + a - to[k]] ELSE m[a]) \in V
    <3>1. from[k] + a - to[k] \in Int
      BY <2>1
    <3>2. s[from[k] + a - to[k]] \in V
      BY <3>1
    <3> QED BY <3>2
  <2> HIDE DEF V
  <2> QED BY <2>2, <2>3 DEF MoveRow
<1> HIDE DEF D
<1>3. step \in [Nat -> [D -> D]]
  BY <1>2
<1>4. \A k \in 1 .. n, m \in D : step[k][m] = MoveRow(m, to[k], s, from[k], w)
  OBVIOUS
<1> HIDE DEF step
<1>5. PICK f \in [Nat -> D] : FollowsOn(f, d, step)
  BY <1>1, <1>3, Recursion
<1> DEFINE h == [k \in 0 .. n |-> f[k]]
<1>6. ASSUME NEW k \in 0 .. n
      PROVE h[k] = IF k = 0 THEN d ELSE MoveRow(h[k - 1], to[k], s, from[k], w)
  <2>1. CASE k # 0
    <3>1. k \in 1 .. n /\ k \in Nat \ {0} /\ k - 1 \in 0 .. n /\ k - 1 \in Nat
      BY <2>1
    <3>2. f[k] = step[k][f[k - 1]] /\ f[k - 1] \in D
      BY <1>5, <3>1 DEF FollowsOn
    <3>3. h[k] = f[k] /\ h[k - 1] = f[k - 1]
      BY <3>1
    <3> HIDE DEF h
    <3> QED BY <1>4, <2>1, <3>1, <3>2, <3>3
  <2>2. CASE k = 0
    BY <1>5, <2>2 DEF FollowsOn
  <2> QED BY <2>1, <2>2
<1>7. h = [k \in 0 .. n |-> h[k]]
  OBVIOUS
<1> HIDE DEF h
<1>8. Is(h)
  BY <1>6, <1>7
<1>9. PutRows(d, to, s, from, w) = CHOOSE g : Is(g)
  BY DEF PutRows
<1> DEFINE p == PutRows(d, to, s, from, w)
<1>10. Is(p)
  BY <1>8, <1>9
<1> HIDE DEF p
<1>11. p[0] = d
  BY <1>10
<1>12. ASSUME NEW k \in 1 .. n PROVE p[k] = MoveRow(p[k - 1], to[k], s, from[k], w)
  <2>1. k \in 0 .. n /\ k # 0
    OBVIOUS
  <2> QED BY <1>10, <2>1
<1> QED BY <1>11, <1>12 DEF p, Putting

LEMMA CopyingFollows ==
  ASSUME NEW d, IsMemory(d), NEW to, NEW n \in Nat, Len(to) = n, to \in [1 .. n -> Int],
         NEW from \in [1 .. n -> Int], NEW w \in Nat,
         \A k \in 1 .. n : \A i \in 0 .. w - 1 : from[k] + i \in Memory
  PROVE  Copying(CopyRows(d, to, from, w), d, to, from, w, n)
<1> DEFINE Is(g) == g = [k \in 0 .. n |-> IF k = 0 THEN d
                                          ELSE MoveRow(g[k - 1], to[k], g[k - 1], from[k], w)]
           V == {d[a] : a \in Memory}
           D == [Memory -> V]
           step == [k \in Nat |-> [m \in D |-> IF k \in 1 .. n THEN MoveRow(m, to[k], m, from[k], w) ELSE m]]
<1>1. d \in D
  BY DEF IsMemory
<1>2. ASSUME NEW k \in 1 .. n, NEW m \in D PROVE MoveRow(m, to[k], m, from[k], w) \in D
  <2>1. to[k] \in Int /\ from[k] \in Int /\ \A a \in Memory : a \in Int
    BY DEF Memory
  <2>2. DOMAIN m = Memory /\ \A a \in Memory : m[a] \in V
    OBVIOUS
  <2> HIDE DEF V
  <2>3. ASSUME NEW a \in Memory
        PROVE  (IF a \in to[k] .. to[k] + w - 1 THEN m[from[k] + a - to[k]] ELSE m[a]) \in V
    <3>1. CASE a \in to[k] .. to[k] + w - 1
      <4>1. a - to[k] \in 0 .. w - 1 /\ from[k] + a - to[k] = from[k] + (a - to[k])
        BY <2>1, <3>1
      <4>2. from[k] + a - to[k] \in Memory
        BY <4>1
      <4> QED BY <2>2, <4>2
    <3> QED BY <2>2, <3>1
  <2> QED BY <2>2, <2>3 DEF MoveRow
<1> HIDE DEF D
<1>3. step \in [Nat -> [D -> D]]
  BY <1>2
<1>4. \A k \in 1 .. n, m \in D : step[k][m] = MoveRow(m, to[k], m, from[k], w)
  OBVIOUS
<1> HIDE DEF step
<1>5. PICK f \in [Nat -> D] : FollowsOn(f, d, step)
  BY <1>1, <1>3, Recursion
<1> DEFINE h == [k \in 0 .. n |-> f[k]]
<1>6. ASSUME NEW k \in 0 .. n
      PROVE h[k] = IF k = 0 THEN d ELSE MoveRow(h[k - 1], to[k], h[k - 1], from[k], w)
  <2>1. CASE k # 0
    <3>1. k \in 1 .. n /\ k \in Nat \ {0} /\ k - 1 \in 0 .. n /\ k - 1 \in Nat
      BY <2>1
    <3>2. f[k] = step[k][f[k - 1]] /\ f[k - 1] \in D
      BY <1>5, <3>1 DEF FollowsOn
    <3>3. h[k] = f[k] /\ h[k - 1] = f[k - 1]
      BY <3>1
    <3> HIDE DEF h
    <3> QED BY <1>4, <2>1, <3>1, <3>2, <3>3
  <2>2. CASE k = 0
    BY <1>5, <2>2 DEF FollowsOn
  <2> QED BY <2>1, <2>2
<1>7. h = [k \in 0 .. n |-> h[k]]
  OBVIOUS
<1> HIDE DEF h
<1>8. Is(h)
  BY <1>6, <1>7
<1>9. CopyRows(d, to, from, w) = CHOOSE g : Is(g)
  BY DEF CopyRows
<1> DEFINE p == CopyRows(d, to, from, w)
<1>10. Is(p)
  BY <1>8, <1>9
<1> HIDE DEF p
<1>11. p[0] = d
  BY <1>10
<1>12. ASSUME NEW k \in 1 .. n PROVE p[k] = MoveRow(p[k - 1], to[k], p[k - 1], from[k], w)
  <2>1. k \in 0 .. n /\ k # 0
    OBVIOUS
  <2> QED BY <1>10, <2>1
<1> QED BY <1>11, <1>12 DEF p, Copying

LEMMA PieceFacts ==
  ASSUME NEW r \in Pieces
  PROVE  /\ wide(r) \in Nat /\ tall(r) \in Nat /\ r.x1 \in Nat /\ r.y1 \in Nat
         /\ r.x2 \in Nat /\ r.y2 \in Nat /\ r.x2 = r.x1 + wide(r) /\ r.y2 = r.y1 + tall(r)
         /\ r.x1 + wide(r) <= Wide /\ r.y1 + tall(r) <= High /\ wide(r) > 0 /\ tall(r) > 0
BY PictureAssumption DEF Pieces, wide, tall

\* The places where the rows of a piece begin.
LEMMA StartsFacts ==
  ASSUME NEW x \in Nat, NEW n \in Nat, NEW rows \in [1 .. n -> Nat]
  PROVE  /\ Starts(x, rows) \in [1 .. n -> Int] /\ Len(Starts(x, rows)) = n
         /\ \A k \in 1 .. n : Starts(x, rows)[k] = At(x, rows[k])
<1>1. DOMAIN rows = 1 .. n
  OBVIOUS
<1>2. ASSUME NEW k \in 1 .. n PROVE At(x, rows[k]) \in Int
  <2>1. rows[k] \in Nat /\ Stride \in Nat
    BY PictureAssumption
  <2> QED BY <2>1 DEF At
<1>3. Starts(x, rows) = [k \in 1 .. n |-> At(x, rows[k])]
  BY <1>1 DEF Starts
<1>4. Len([k \in 1 .. n |-> At(x, rows[k])]) = n
  OBVIOUS
<1> QED BY <1>2, <1>3, <1>4

\* A piece put in: each point of it from its row of the other buffer, the rest
\* as it was.
PiecePutFrom(g, d, r, s, from) ==
  /\ IsMemory(g)
  /\ \A p \in Points :
       g[Spot(p)] = IF In(p, r) THEN s[from[p[2] - r.y1 + 1] + (p[1] - r.x1)] ELSE d[Spot(p)]

LEMMA PiecePut ==
  ASSUME NEW d, IsMemory(d), NEW r \in Pieces, NEW s, NEW from \in [1 .. tall(r) -> Int],
         NEW g, g = PutRows(d, Starts(r.x1, Downwards(r)), s, from, wide(r))[tall(r)]
  PROVE  PiecePutFrom(g, d, r, s, from)
<1> DEFINE n == tall(r)
           w == wide(r)
           rows == Downwards(r)
           to == Starts(r.x1, rows)
           put == PutRows(d, to, s, from, w)
           AsYet(k) ==
             /\ IsMemory(put[k])
             /\ \A p \in Points :
                  put[k][Spot(p)] = IF p[1] \in r.x1 .. r.x2 - 1 /\ p[2] \in r.y1 .. r.y1 + k - 1
                                    THEN s[from[p[2] - r.y1 + 1] + (p[1] - r.x1)] ELSE d[Spot(p)]
           S == {k \in Nat : k <= n => AsYet(k)}
<1>1. /\ n \in Nat /\ w \in Nat /\ r.x1 \in Nat /\ r.y1 \in Nat /\ r.x2 = r.x1 + w /\ r.y2 = r.y1 + n
      /\ r.x1 + w <= Wide
  BY PieceFacts
<1>2. rows \in [1 .. n -> Nat] /\ \A k \in 1 .. n : rows[k] = r.y1 + k - 1
  BY <1>1 DEF Downwards
<1> HIDE DEF rows, n, w
<1>3. to \in [1 .. n -> Int] /\ Len(to) = n /\ \A k \in 1 .. n : to[k] = At(r.x1, r.y1 + k - 1)
  <2>1. r.x1 \in Nat /\ n \in Nat /\ rows \in [1 .. n -> Nat]
    BY <1>1, <1>2
  <2>2. to \in [1 .. n -> Int] /\ Len(to) = n /\ \A k \in 1 .. n : to[k] = At(r.x1, rows[k])
    BY ONLY <2>1, StartsFacts
  <2> QED BY <1>2, <2>2
<1> HIDE DEF to
<1>4. from \in [1 .. n -> Int]
  BY DEF n
<1>5. put[0] = d /\ \A k \in 1 .. n : put[k] = MoveRow(put[k - 1], to[k], s, from[k], w)
  <2>1. IsMemory(d) /\ n \in Nat /\ w \in Nat
    BY <1>1
  <2>2. Putting(put, d, to, s, from, w, n)
    BY ONLY <2>1, <1>3, <1>4, PuttingFollows
  <2> QED BY <2>2 DEF Putting
<1>6. g = put[n]
  BY DEF put, to, rows, n, w
<1> HIDE DEF put
<1>7. 0 \in S
  <2>1. \A p \in Points : ~ (p[2] \in r.y1 .. r.y1 + 0 - 1)
    BY <1>1
  <2> QED BY <1>5, <2>1
<1>8. ASSUME NEW k \in Nat, k \in S PROVE k + 1 \in S
  <2> SUFFICES ASSUME k + 1 <= n PROVE AsYet(k + 1)
    OBVIOUS
  <2>1. k + 1 \in 1 .. n /\ (k + 1) - 1 = k /\ k <= n
    BY <1>1
  <2>2. AsYet(k)
    BY <1>8, <2>1
  <2> DEFINE y == r.y1 + k
  <2>3. put[k + 1] = MoveRow(put[k], At(r.x1, y), s, from[k + 1], w) /\ y \in Nat
    <3>1. r.y1 + (k + 1) - 1 = y /\ y \in Nat
      BY <1>1
    <3> QED BY <1>3, <1>5, <2>1, <3>1
  <2>4. from[k + 1] \in Int
    BY <1>4, <2>1
  <2> HIDE DEF y
  <2>5. RowPut(put[k + 1], put[k], s, from[k + 1], r.x1, y, w)
    <3>1. /\ IsMemory(put[k]) /\ r.x1 \in Nat /\ y \in Nat /\ w \in Nat /\ r.x1 + w <= Wide
          /\ put[k + 1] = MoveRow(put[k], At(r.x1, y), s, from[k + 1], w)
      BY <1>1, <2>2, <2>3
    <3> QED BY ONLY <3>1, <2>4, RowMoved
  <2>6. IsMemory(put[k + 1])
    BY <2>5 DEF RowPut
  <2>7. ASSUME NEW p \in Points
        PROVE  put[k + 1][Spot(p)]
                 = IF p[1] \in r.x1 .. r.x2 - 1 /\ p[2] \in r.y1 .. r.y1 + (k + 1) - 1
                   THEN s[from[p[2] - r.y1 + 1] + (p[1] - r.x1)] ELSE d[Spot(p)]
    <3>1. p[2] \in Nat
      BY DEF Points
    <3>0. r.y1 \in Nat /\ k \in Nat /\ y = r.y1 + k
      BY <1>1 DEF y
    <3>2. p[2] \in r.y1 .. r.y1 + (k + 1) - 1 <=> p[2] = y \/ p[2] \in r.y1 .. r.y1 + k - 1
      BY ONLY <3>0, <3>1
    <3>3. p[2] = y => p[2] - r.y1 + 1 = k + 1 /\ ~ (p[2] \in r.y1 .. r.y1 + k - 1)
      BY ONLY <3>0, <3>1
    <3>4. put[k][Spot(p)] = IF p[1] \in r.x1 .. r.x2 - 1 /\ p[2] \in r.y1 .. r.y1 + k - 1
                            THEN s[from[p[2] - r.y1 + 1] + (p[1] - r.x1)] ELSE d[Spot(p)]
      BY <2>2
    <3>5. r.x1 .. r.x2 - 1 = r.x1 .. r.x1 + w - 1
      BY <1>1
    <3>6. put[k + 1][Spot(p)] = IF p[2] = y /\ p[1] \in r.x1 .. r.x1 + w - 1
                                THEN s[from[k + 1] + (p[1] - r.x1)] ELSE put[k][Spot(p)]
      BY <2>5 DEF RowPut
    <3> QED BY ONLY <3>6, <3>2, <3>3, <3>4, <3>5
  <2> QED BY <2>6, <2>7
<1> HIDE DEF S
<1>9. n \in S
  BY <1>1, <1>7, <1>8, NatInd
<1>10. AsYet(n)
  BY <1>1, <1>9 DEF S
<1>11. r.y1 .. r.y2 - 1 = r.y1 .. r.y1 + n - 1
  BY <1>1
<1> QED BY <1>6, <1>10, <1>11 DEF In, PiecePutFrom

\* A piece copied: each point of it from where it was before, provided that no
\* row is read that was written already.
PieceMoved(g, d, r, dx, dy) ==
  /\ IsMemory(g)
  /\ \A p \in Points :
       g[Spot(p)] = IF In(p, r) THEN d[Spot(<<p[1] - dx, p[2] - dy>>)] ELSE d[Spot(p)]

LEMMA PieceCopied ==
  ASSUME NEW d, IsMemory(d), NEW r \in Pieces, NEW dx \in Int, NEW dy \in Int,
         r.x1 - dx >= 0, r.x2 - dx <= Wide, r.y1 - dy >= 0, r.y2 - dy <= High,
         NEW rows \in [1 .. tall(r) -> r.y1 .. r.y2 - 1],
         \A y \in r.y1 .. r.y2 - 1 : \E k \in 1 .. tall(r) : rows[k] = y,
         \A i, k \in 1 .. tall(r) : i < k => rows[i] # rows[k] - dy,
         NEW g, g = RowsCopied(d, r, dx, dy, rows)
  PROVE  PieceMoved(g, d, r, dx, dy)
<1> DEFINE n == tall(r)
           w == wide(r)
           to == Starts(r.x1, rows)
           from == [k \in DOMAIN rows |-> At(r.x1 - dx, rows[k] - dy)]
           put == CopyRows(d, to, from, w)
           Done(p, k) == p[1] \in r.x1 .. r.x2 - 1 /\ \E i \in 1 .. k : rows[i] = p[2]
           AsYet(k) ==
             /\ IsMemory(put[k])
             /\ \A p \in Points :
                  put[k][Spot(p)] = IF Done(p, k) THEN d[Spot(<<p[1] - dx, p[2] - dy>>)] ELSE d[Spot(p)]
           S == {k \in Nat : k <= n => AsYet(k)}
<1>1. /\ n \in Nat /\ w \in Nat /\ r.x1 \in Nat /\ r.y1 \in Nat /\ r.x2 = r.x1 + w /\ r.y2 = r.y1 + n
      /\ r.x1 + w <= Wide /\ r.y1 + n <= High /\ r.x1 - dx \in Nat /\ r.x1 - dx + w <= Wide
      /\ r.y1 - dy >= 0 /\ r.y2 - dy <= High /\ dx \in Int /\ dy \in Int
  <2> HIDE DEF n, w
  <2>1. /\ n \in Nat /\ w \in Nat /\ r.x1 \in Nat /\ r.y1 \in Nat /\ r.x2 = r.x1 + w /\ r.y2 = r.y1 + n
        /\ r.x1 + w <= Wide /\ r.y1 + n <= High
    BY PieceFacts DEF n, w
  <2>2. /\ r.x1 - dx >= 0 /\ r.x2 - dx <= Wide /\ r.y1 - dy >= 0 /\ r.y2 - dy <= High
        /\ dx \in Int /\ dy \in Int /\ Wide \in Nat
    BY PictureAssumption
  <2> QED BY ONLY <2>1, <2>2, SMTT(30)
<1>0. Stride \in Nat /\ Wide \in Nat /\ High \in Nat
  BY PictureAssumption
<1>2. /\ rows \in [1 .. n -> Nat] /\ DOMAIN rows = 1 .. n
      /\ \A k \in 1 .. n : rows[k] \in r.y1 .. r.y2 - 1 /\ rows[k] - dy \in 0 .. High - 1
  <2>1. \A k \in 1 .. n : rows[k] \in r.y1 .. r.y2 - 1
    OBVIOUS
  <2>2. \A k \in 1 .. n : rows[k] \in Nat /\ rows[k] - dy \in 0 .. High - 1
    <3> HIDE DEF n, w
    <3> TAKE k \in 1 .. n
    <3> DEFINE y == rows[k]
    <3>1. y \in r.y1 .. r.y2 - 1
      BY <2>1
    <3> HIDE DEF y
    <3>2. r.y1 \in Nat /\ r.y2 \in Nat /\ r.y1 - dy >= 0 /\ r.y2 - dy <= High /\ dy \in Int /\ High \in Nat
      BY <1>0, <1>1, SMTT(30)
    <3>3. y \in Nat /\ y - dy \in 0 .. High - 1
      BY ONLY <3>1, <3>2, SMTT(30)
    <3> QED BY <3>3 DEF y
  <2> QED BY <2>1, <2>2
<1> HIDE DEF n, w
<1>3. to \in [1 .. n -> Int] /\ Len(to) = n /\ \A k \in 1 .. n : to[k] = At(r.x1, rows[k])
  <2>1. r.x1 \in Nat /\ n \in Nat /\ rows \in [1 .. n -> Nat]
    BY <1>1, <1>2
  <2> QED BY ONLY <2>1, StartsFacts
<1>4. \A k \in 1 .. n : from[k] = At(r.x1 - dx, rows[k] - dy)
  BY <1>2
<1>5. from \in [1 .. n -> Int]
  <2>1. ASSUME NEW k \in 1 .. n PROVE At(r.x1 - dx, rows[k] - dy) \in Int
    <3>1. rows[k] - dy \in Nat /\ r.x1 - dx \in Nat /\ Stride \in Nat
      <4>1. rows[k] - dy \in 0 .. High - 1
        BY <1>2, <2>1
      <4> QED BY <4>1, <1>0, <1>1
    <3> QED BY <3>1 DEF At
  <2> QED BY <1>2, <2>1
<1> HIDE DEF to, from
\* What a row is read from.
<1>6. ASSUME NEW k \in 1 .. n, NEW j \in 0 .. w - 1
      PROVE  /\ <<r.x1 - dx + j, rows[k] - dy>> \in Points
             /\ from[k] + j = Spot(<<r.x1 - dx + j, rows[k] - dy>>)
  <2> DEFINE x == r.x1 - dx
             y == rows[k] - dy
  <2>1. x \in Nat /\ y \in 0 .. High - 1 /\ x + j \in 0 .. Wide - 1 /\ Stride \in Nat /\ j \in Nat
    <3>1. y \in 0 .. High - 1
      BY <1>2
    <3> HIDE DEF y
    <3>2. x \in Nat /\ x + w <= Wide
      BY <1>1
    <3> HIDE DEF x
    <3> QED BY ONLY <3>1, <3>2, <1>0, <1>1, j \in 0 .. w - 1
  <2>2. from[k] = At(x, y)
    BY <1>4
  <2> HIDE DEF x, y
  <2>3. <<x + j, y>> \in Points
    BY <2>1 DEF Points
  <2>4. y * Stride \in Nat
    BY <2>1
  <2>5. At(x, y) + j = At(x + j, y)
    BY <2>1, <2>4 DEF At
  <2> QED BY <2>2, <2>3, <2>5 DEF Spot, x, y
<1>7. \A k \in 1 .. n : \A j \in 0 .. w - 1 : from[k] + j \in Memory
  BY <1>6, SpotInMemory
<1>8. put[0] = d /\ \A k \in 1 .. n : put[k] = MoveRow(put[k - 1], to[k], put[k - 1], from[k], w)
  <2>1. IsMemory(d) /\ n \in Nat /\ w \in Nat
    BY <1>1
  <2>2. Copying(put, d, to, from, w, n)
    BY ONLY <2>1, <1>3, <1>5, <1>7, CopyingFollows
  <2> QED BY <2>2 DEF Copying
<1>9. g = put[n]
  BY DEF put, to, from, n, w, RowsCopied
<1> HIDE DEF put
<1>10. 0 \in S
  BY <1>8
<1>11. ASSUME NEW k \in Nat, k \in S PROVE k + 1 \in S
  <2> SUFFICES ASSUME k + 1 <= n PROVE AsYet(k + 1)
    OBVIOUS
  <2>1. k + 1 \in 1 .. n /\ (k + 1) - 1 = k /\ k <= n
    BY <1>1
  <2>2. AsYet(k)
    BY <1>11, <2>1
  <2> DEFINE y == rows[k + 1]
  <2>3. put[k + 1] = MoveRow(put[k], At(r.x1, y), put[k], from[k + 1], w) /\ y \in Nat
    BY <1>2, <1>3, <1>8, <2>1
  <2>4. from[k + 1] \in Int
    BY <1>5, <2>1
  <2> HIDE DEF y
  <2>5. RowPut(put[k + 1], put[k], put[k], from[k + 1], r.x1, y, w)
    <3>1. /\ IsMemory(put[k]) /\ r.x1 \in Nat /\ y \in Nat /\ w \in Nat /\ r.x1 + w <= Wide
          /\ put[k + 1] = MoveRow(put[k], At(r.x1, y), put[k], from[k + 1], w)
      BY <1>1, <2>2, <2>3
    <3> QED BY ONLY <3>1, <2>4, RowMoved
  <2>6. IsMemory(put[k + 1])
    BY <2>5 DEF RowPut
  \* Its source is as it was at first.
  <2>7. ASSUME NEW p \in Points, p[2] = y, p[1] \in r.x1 .. r.x2 - 1
        PROVE  put[k][from[k + 1] + (p[1] - r.x1)] = d[Spot(<<p[1] - dx, p[2] - dy>>)]
    <3> DEFINE q == <<p[1] - dx, p[2] - dy>>
               j == p[1] - r.x1
    <3>1. p[1] \in Nat /\ p[2] \in Nat
      BY DEF Points
    <3>2. j \in 0 .. w - 1 /\ r.x1 - dx + j = p[1] - dx
      <4> DEFINE a == p[1]
      <4>1. a \in Nat /\ a \in r.x1 .. r.x2 - 1
        BY <2>7, <3>1
      <4> HIDE DEF a
      <4>2. a - r.x1 \in 0 .. w - 1 /\ r.x1 - dx + (a - r.x1) = a - dx
        <5>1. r.x1 \in Int /\ dx \in Int /\ w \in Int /\ r.x2 = r.x1 + w
          BY <1>1
        <5>2. a - r.x1 \in 0 .. w - 1
          BY ONLY <5>1, <4>1
        <5>3. r.x1 - dx + (a - r.x1) = a - dx
          BY ONLY <5>1, <4>1
        <5> QED BY <5>2, <5>3
      <4> QED BY <4>2 DEF a
    <3> HIDE DEF j
    <3>3. q \in Points /\ from[k + 1] + j = Spot(q)
      BY <1>6, <2>1, <2>7, <3>2 DEF y
    <3>4. ~ \E i \in 1 .. k : rows[i] = q[2]
      <4> SUFFICES ASSUME NEW i \in 1 .. k, rows[i] = rows[k + 1] - dy PROVE FALSE
        BY <2>7 DEF y
      <4>1. i \in 1 .. tall(r) /\ k + 1 \in 1 .. tall(r) /\ i < k + 1
        BY <1>1, <2>1 DEF n
      <4> QED BY <4>1
    <3>5. put[k][Spot(q)] = d[Spot(q)]
      BY <2>2, <3>3, <3>4
    <3> QED BY <3>3, <3>5 DEF j
  <2>8. ASSUME NEW p \in Points
        PROVE  put[k + 1][Spot(p)]
                 = IF Done(p, k + 1) THEN d[Spot(<<p[1] - dx, p[2] - dy>>)] ELSE d[Spot(p)]
    <3>1. put[k + 1][Spot(p)] = IF p[2] = y /\ p[1] \in r.x1 .. r.x1 + w - 1
                                THEN put[k][from[k + 1] + (p[1] - r.x1)] ELSE put[k][Spot(p)]
      BY <2>5 DEF RowPut
    <3>2. put[k][Spot(p)] = IF Done(p, k) THEN d[Spot(<<p[1] - dx, p[2] - dy>>)] ELSE d[Spot(p)]
      BY <2>2
    <3>3. Done(p, k + 1) <=> Done(p, k) \/ (p[2] = y /\ p[1] \in r.x1 .. r.x2 - 1)
      <4>1. \A i \in 1 .. k + 1 : i \in 1 .. k \/ i = k + 1
        OBVIOUS
      <4>2. k + 1 \in 1 .. k + 1 /\ \A i \in 1 .. k : i \in 1 .. k + 1
        OBVIOUS
      <4> QED BY <4>1, <4>2 DEF y
    <3>4. r.x1 .. r.x2 - 1 = r.x1 .. r.x1 + w - 1
      <4>1. r.x2 = r.x1 + w /\ r.x1 \in Nat /\ w \in Nat
        BY <1>1
      <4>2. r.x2 - 1 = r.x1 + w - 1
        BY ONLY <4>1
      <4> QED BY ONLY <4>2
    <3> HIDE DEF Done
    <3> QED BY <3>1, <3>2, <3>3, <3>4, <2>7
  <2> QED BY <2>6, <2>8
<1> HIDE DEF S
<1>12. n \in S
  BY <1>1, <1>10, <1>11, NatInd
<1>13. AsYet(n)
  <2> HIDE DEF AsYet
  <2>1. n <= n
    BY <1>1
  <2> QED BY <1>12, <2>1 DEF S
<1>14. ASSUME NEW p \in Points PROVE Done(p, n) <=> In(p, r)
  BY <1>1, <1>2 DEF In, n
<1> QED BY <1>9, <1>13, <1>14 DEF PieceMoved

-----------------------------------------------------------------------------
(* What each operation shows. *)

LEMMA FillShows ==
  ASSUME NEW d, NEW f, Shows(d, f), NEW r \in Pieces, NEW ink
  PROVE  Shows(fillRect(d, r, ink), [p \in Points |-> IF In(p, r) THEN ink ELSE f[p]])
<1> DEFINE s == [a \in 0 .. wide(r) - 1 |-> ink]
           from == [k \in 1 .. tall(r) |-> 0]
           g == fillRect(d, r, ink)
<1>1. from \in [1 .. tall(r) -> Int] /\ IsMemory(d)
  BY DEF Shows
<1>2. g = PutRows(d, Starts(r.x1, Downwards(r)), s, from, wide(r))[tall(r)]
  BY DEF fillRect
<1>3. \A p \in Points : In(p, r) => s[from[p[2] - r.y1 + 1] + (p[1] - r.x1)] = ink
  <2> SUFFICES ASSUME NEW p \in Points, In(p, r)
               PROVE  s[from[p[2] - r.y1 + 1] + (p[1] - r.x1)] = ink
    OBVIOUS
  <2>1. p[2] - r.y1 + 1 \in 1 .. tall(r) /\ p[1] - r.x1 \in 0 .. wide(r) - 1
    BY PieceFacts DEF In, Points
  <2> QED BY <2>1
<1> HIDE DEF s, from, g
<1>4. PiecePutFrom(g, d, r, s, from)
  BY <1>1, <1>2, PiecePut
<1>5. \A p \in Points : g[Spot(p)] = IF In(p, r) THEN ink ELSE f[p]
  BY <1>3, <1>4 DEF Shows, PiecePutFrom
<1> QED BY <1>4, <1>5 DEF Shows, PiecePutFrom, g

LEMMA CopyShows ==
  ASSUME NEW d, NEW f, Shows(d, f), NEW r \in Pieces, NEW dx \in Int, NEW dy \in Int,
         r.x1 - dx >= 0, r.x2 - dx <= Wide, r.y1 - dy >= 0, r.y2 - dy <= High
  PROVE  Shows(copyRect(d, r, dx, dy),
               [p \in Points |-> IF In(p, r) THEN f[<<p[1] - dx, p[2] - dy>>] ELSE f[p]])
<1> DEFINE rows == IF dy <= 0 THEN Downwards(r) ELSE Upwards(r)
           n == tall(r)
           g == copyRect(d, r, dx, dy)
<1>1. n \in Nat /\ r.y1 \in Nat /\ r.y2 = r.y1 + n
  BY PieceFacts
<1>2. dy <= 0 => rows = [k \in 1 .. n |-> r.y1 + k - 1]
  BY DEF Downwards
<1>3. dy > 0 => rows = [k \in 1 .. n |-> r.y2 - k]
  BY DEF Upwards
<1>4. g = RowsCopied(d, r, dx, dy, rows)
  BY DEF copyRect
<1> HIDE DEF rows, n, g
<1>5. rows \in [1 .. n -> r.y1 .. r.y2 - 1]
  <2>1. CASE dy <= 0
    BY <1>1, <1>2, <2>1
  <2>2. CASE dy > 0
    BY <1>1, <1>3, <2>2
  <2> QED BY <2>1, <2>2
<1>6. ASSUME NEW y \in r.y1 .. r.y2 - 1 PROVE \E k \in 1 .. n : rows[k] = y
  <2>1. CASE dy <= 0
    <3>1. y - r.y1 + 1 \in 1 .. n /\ r.y1 + (y - r.y1 + 1) - 1 = y
      BY <1>1
    <3> QED BY <1>2, <2>1, <3>1
  <2>2. CASE dy > 0
    <3>1. r.y2 - y \in 1 .. n /\ r.y2 - (r.y2 - y) = y
      BY <1>1
    <3> QED BY <1>3, <2>2, <3>1
  <2> QED BY <2>1, <2>2
\* Up or along, the row read is below those written; down, above them.
<1>7. ASSUME NEW i \in 1 .. n, NEW k \in 1 .. n, i < k PROVE rows[i] # rows[k] - dy
  <2>1. CASE dy <= 0
    BY <1>1, <1>2, <1>7, <2>1, SMTT(30)
  <2>2. CASE dy > 0
    BY <1>1, <1>3, <1>7, <2>2
  <2> QED BY <2>1, <2>2
<1>8. PieceMoved(g, d, r, dx, dy)
  <2>1. IsMemory(d)
    BY DEF Shows
  <2> QED BY <1>4, <1>5, <1>6, <1>7, <2>1, PieceCopied DEF n
<1>9. ASSUME NEW p \in Points, In(p, r) PROVE <<p[1] - dx, p[2] - dy>> \in Points
  <2>1. p[1] \in r.x1 .. r.x2 - 1 /\ p[2] \in r.y1 .. r.y2 - 1
    BY <1>9 DEF In
  <2>2. r.x1 \in Int /\ r.x2 \in Int /\ r.y1 \in Int /\ r.y2 \in Int /\ Wide \in Int /\ High \in Int
    BY PieceFacts, PictureAssumption
  <2>3. p[1] - dx \in 0 .. Wide - 1 /\ p[2] - dy \in 0 .. High - 1
    BY <2>1, <2>2
  <2> QED BY <2>3 DEF Points
<1>10. \A p \in Points : g[Spot(p)] = IF In(p, r) THEN f[<<p[1] - dx, p[2] - dy>>] ELSE f[p]
  BY <1>8, <1>9 DEF Shows, PieceMoved
<1> QED BY <1>8, <1>10 DEF Shows, PieceMoved, g

LEMMA BlitShows ==
  ASSUME NEW d, NEW f, Shows(d, f), NEW r \in Pieces, NEW dx \in Int, NEW dy \in Int,
         NEW to \in Pieces, to = rect(r.x1 + dx, r.y1 + dy, r.x2 + dx, r.y2 + dy),
         NEW stride \in Nat, stride >= wide(r)
  PROVE  Shows(imageRect(d, to, getRows(d, r, stride), stride),
               [p \in Points |-> IF In(p, to) THEN f[<<p[1] - dx, p[2] - dy>>] ELSE f[p]])
<1> DEFINE s == getRows(d, r, stride)
           from == [k \in 1 .. tall(to) |-> (k - 1) * stride]
           g == imageRect(d, to, s, stride)
<1>1. /\ wide(r) \in Nat /\ tall(r) \in Nat /\ r.x1 \in Nat /\ r.y1 \in Nat
      /\ wide(to) = wide(r) /\ tall(to) = tall(r) /\ to.x1 = r.x1 + dx /\ to.y1 = r.y1 + dy
      /\ to.x2 = to.x1 + wide(r) /\ to.y2 = to.y1 + tall(r)
  <2>1. to.x1 = r.x1 + dx /\ to.y1 = r.y1 + dy /\ to.x2 = r.x2 + dx /\ to.y2 = r.y2 + dy
    BY DEF rect
  <2> QED BY <2>1, PieceFacts DEF wide, tall
<1>2. from \in [1 .. tall(to) -> Int] /\ IsMemory(d)
  BY DEF Shows
<1>3. g = PutRows(d, Starts(to.x1, Downwards(to)), s, from, wide(to))[tall(to)]
  BY DEF imageRect
<1>4. ASSUME NEW p \in Points, In(p, to)
      PROVE  /\ <<p[1] - dx, p[2] - dy>> \in Points
             /\ s[from[p[2] - to.y1 + 1] + (p[1] - to.x1)] = d[Spot(<<p[1] - dx, p[2] - dy>>)]
  <2> DEFINE j == p[1] - to.x1
             k == p[2] - to.y1
             q == <<p[1] - dx, p[2] - dy>>
  <2>1. /\ j \in 0 .. wide(r) - 1 /\ k \in 0 .. tall(r) - 1 /\ r.x1 + j = p[1] - dx /\ r.y1 + k = p[2] - dy
        /\ j \in 0 .. stride - 1
    BY <1>1, <1>4 DEF In, Points
  <2> HIDE DEF j, k
  <2>2. q \in Points
    <3>1. r.x1 + wide(r) <= Wide /\ r.y1 + tall(r) <= High /\ Wide \in Nat /\ High \in Nat
      BY PieceFacts, PictureAssumption
    <3>2. r.x1 + j \in 0 .. Wide - 1 /\ r.y1 + k \in 0 .. High - 1
      BY ONLY <1>1, <2>1, <3>1
    <3> QED BY <2>1, <3>2 DEF Points
  <2>3. from[k + 1] = k * stride
    <3>1. k + 1 \in 1 .. tall(to) /\ (k + 1) - 1 = k
      BY ONLY <1>1, <2>1
    <3> QED BY <3>1
  <2>4. j + k * stride \in 0 .. stride * tall(r) - 1
    BY ONLY <1>1, <2>1, stride \in Nat, PlaceInside
  <2>5. (j + k * stride) % stride = j /\ (j + k * stride) \div stride = k
    <3>1. k \in Nat /\ j \in 0 .. stride - 1
      BY <1>1, <2>1
    <3> QED BY ONLY <3>1, stride \in Nat, PlaceOf
  <2>6. s[j + k * stride] = d[At(r.x1 + j, r.y1 + k)]
    <3>1. j < wide(r)
      BY <1>1, <2>1
    <3> QED BY <2>4, <2>5, <3>1 DEF getRows
  <2>7. from[k + 1] + j = j + k * stride
    BY <1>1, <2>1, <2>3
  <2>8. s[from[k + 1] + j] = d[Spot(q)]
    BY <2>1, <2>6, <2>7 DEF Spot
  <2> QED BY <2>2, <2>8 DEF j, k
<1> HIDE DEF s, from, g
<1>5. PiecePutFrom(g, d, to, s, from)
  BY <1>2, <1>3, PiecePut
<1>6. \A p \in Points : g[Spot(p)] = IF In(p, to) THEN f[<<p[1] - dx, p[2] - dy>>] ELSE f[p]
  BY <1>4, <1>5 DEF Shows, PiecePutFrom
<1> QED BY <1>5, <1>6 DEF Shows, PiecePutFrom, g, s

LEMMA SpotPlace ==
  ASSUME NEW p \in Points
  PROVE  Spot(p) % Stride = p[1] /\ Spot(p) \div Stride = p[2] /\ p[1] < Wide /\ p = <<p[1], p[2]>>
<1>1. p[1] \in 0 .. Stride - 1 /\ p[2] \in Nat /\ Stride \in Nat
  BY PictureAssumption DEF Points
<1>2. (p[1] + p[2] * Stride) % Stride = p[1] /\ (p[1] + p[2] * Stride) \div Stride = p[2]
  BY ONLY <1>1, PlaceOf
<1> QED BY <1>2, PictureAssumption DEF Spot, At, Points

\* The bit of the mask that maskRect looks at is that of the pixel.
LEMMA MaskBitOf ==
  ASSUME NEW mask, NEW w \in Nat, NEW x \in 0 .. w - 1, NEW y
  PROVE  MaskBit(MaskRow(mask, y, w), x) <=> <<x, y>> \in mask
<1> DEFINE b == x \div 8
           bit == 7 - (x % 8)
<1>1. b \in 0 .. (w + 7) \div 8 - 1 /\ bit \in 0 .. 7 /\ b * 8 + 7 - bit = x
  OBVIOUS
<1> HIDE DEF b, bit
<1>2. MaskRow(mask, y, w)[b] = {c \in 0 .. 7 : <<b * 8 + 7 - c, y>> \in mask}
  BY <1>1 DEF MaskRow
<1>3. bit \in MaskRow(mask, y, w)[b] <=> <<x, y>> \in mask
  BY <1>1, <1>2
<1> QED BY <1>3 DEF MaskBit, b, bit

Plain(ink) == [a \in 0 .. Wide * High - 1 |-> ink]
Masked(f, x, y, mask, ink) ==
  [p \in Points |-> IF <<p[1] - x, p[2] - y>> \in mask THEN ink ELSE f[p]]

LEMMA MaskShows ==
  ASSUME NEW d, NEW f, Shows(d, f), NEW x \in Int, NEW y \in Int, NEW mask \in Masks, NEW ink
  PROVE  Shows(maskRect(d, rect(x, y, x + Wide, y + High), Plain(ink), mask), Masked(f, x, y, mask, ink))
<1> DEFINE r == rect(x, y, x + Wide, y + High)
           image == Plain(ink)
           g == maskRect(d, r, image, mask)
<1>1. /\ r.x1 = x /\ r.y1 = y /\ wide(r) = Wide /\ tall(r) = High
      /\ Wide \in Nat /\ High \in Nat
  BY PictureAssumption DEF rect, wide, tall
<1>2. DOMAIN d = Memory /\ IsMemory(d)
  BY DEF Shows, IsMemory
<1>3. IsMemory(g)
  BY <1>2 DEF maskRect, IsMemory
<1>4. ASSUME NEW p \in Points
      PROVE  g[Spot(p)] = IF <<p[1] - x, p[2] - y>> \in mask THEN ink ELSE f[p]
  <2> DEFINE i == p[1] - x
             j == p[2] - y
             shown == i \in 0 .. Wide - 1 /\ j \in 0 .. High - 1 /\ MaskBit(MaskRow(mask, j, Wide), i)
  <2>1. g[Spot(p)] = IF shown THEN image[j * Wide + i] ELSE d[Spot(p)]
    <3> DEFINE q == Spot(p)
    <3>1. q \in DOMAIN d /\ q % Stride = p[1] /\ q \div Stride = p[2] /\ p[1] < Wide
      BY <1>2, SpotInMemory, SpotPlace
    <3> HIDE DEF q
    <3>2. g[q] = IF /\ q % Stride < Wide
                    /\ (q % Stride) - x \in 0 .. Wide - 1 /\ q \div Stride - y \in 0 .. High - 1
                    /\ MaskBit(MaskRow(mask, q \div Stride - y, Wide), (q % Stride) - x)
                 THEN image[(q \div Stride - y) * Wide + ((q % Stride) - x)] ELSE d[q]
      <4> HIDE DEF r, image
      <4> QED BY <1>1, <3>1 DEF maskRect
    <3> HIDE DEF g, image
    <3> QED BY ONLY <3>1, <3>2 DEF q
  <2> HIDE DEF g, i, j
  <2>2. shown <=> <<i, j>> \in mask
    <3>1. <<i, j>> \in mask => i \in 0 .. Wide - 1 /\ j \in 0 .. High - 1
      <4>1. mask \subseteq (0 .. Wide - 1) \X (0 .. High - 1)
        BY PictureAssumption
      <4> QED BY <4>1
    <3>2. i \in 0 .. Wide - 1 => (MaskBit(MaskRow(mask, j, Wide), i) <=> <<i, j>> \in mask)
      BY <1>1, MaskBitOf
    <3> QED BY <3>1, <3>2
  <2>3. shown => image[j * Wide + i] = ink
    <3> SUFFICES ASSUME i \in 0 .. Wide - 1, j \in 0 .. High - 1 PROVE image[j * Wide + i] = ink
      OBVIOUS
    <3>1. i + j * Wide \in 0 .. Wide * High - 1
      BY <1>1, PlaceInside
    <3>2. j * Wide + i = i + j * Wide
      <4>1. j * Wide \in Int
        BY <1>1
      <4> QED BY <4>1
    <3> QED BY <3>1, <3>2 DEF Plain
  <2>4. d[Spot(p)] = f[p]
    BY DEF Shows
  <2> HIDE DEF shown, image
  <2> QED BY <2>1, <2>2, <2>3, <2>4 DEF i, j
<1> HIDE DEF g
<1> QED BY <1>3, <1>4 DEF Shows, g, Masked

-----------------------------------------------------------------------------
LEMMA PictureInitInv == PictureInit => PictureIInv
<1> SUFFICES ASSUME PictureInit PROVE PictureIInv
  OBVIOUS
<1>1. IsMemory(data)
  BY DEF PictureInit, IsMemory, Memory
<1>2. ASSUME NEW p \in Points PROVE data[Spot(p)] = drawn[p]
  <2>1. Spot(p) \in 0 .. Stride * High - 1
    BY SpotInMemory DEF Memory
  <2>2. data[Spot(p)] = <<p[1], p[2]>>
    BY <2>1, SpotPlace DEF PictureInit
  <2>3. drawn[p] = p
    BY DEF PictureInit
  <2> QED BY <2>2, <2>3, SpotPlace
<1> QED BY <1>1, <1>2 DEF PictureIInv, MemoryIsPicture, Spot

LEMMA PictureStep == PictureIInv /\ [PictureNext]_pictureVars => PictureIInv'
<1> SUFFICES ASSUME PictureIInv, [PictureNext]_pictureVars PROVE PictureIInv'
  OBVIOUS
<1>1. Shows(data, drawn)
  BY DEF PictureIInv, MemoryIsPicture, Shows, Spot
<1>2. Shows(data', drawn') => PictureIInv'
  BY DEF PictureIInv, MemoryIsPicture, Shows, Spot, IsMemory, Memory, Points, At
<1>3. CASE UNCHANGED pictureVars
  BY <1>1, <1>2, <1>3 DEF pictureVars
<1>4. ASSUME NEW r \in Pieces, NEW ink \in Inks, Fill(r, ink) PROVE Shows(data', drawn')
  BY <1>1, <1>4, FillShows DEF Fill, Does
<1>5. ASSUME NEW r \in Pieces, NEW dx \in -Wide .. Wide, NEW dy \in -High .. High, Copy(r, dx, dy)
      PROVE  Shows(data', drawn')
  <2>1. dx \in Int /\ dy \in Int
    OBVIOUS
  <2> QED BY <1>1, <1>5, <2>1, CopyShows DEF Copy, Does
<1>6. ASSUME NEW r \in Pieces, NEW dx \in -Wide .. Wide, NEW dy \in -High .. High,
             NEW s \in {Wide, Stride}, Blit(r, dx, dy, s)
      PROVE  Shows(data', drawn')
  <2>1. dx \in Int /\ dy \in Int /\ s \in Nat
    BY PictureAssumption
  <2> DEFINE to == rect(r.x1 + dx, r.y1 + dy, r.x2 + dx, r.y2 + dy)
  <2>2. /\ to \in Pieces /\ s >= wide(r)
        /\ data' = imageRect(data, to, getRows(data, r, s), s)
        /\ drawn' = [p \in Points |-> IF In(p, to) THEN drawn[<<p[1] - dx, p[2] - dy>>] ELSE drawn[p]]
    BY <1>6 DEF Blit, Does
  <2> QED BY <1>1, <2>1, <2>2, BlitShows
<1>7. ASSUME NEW x \in -Wide .. Wide, NEW y \in -High .. High, NEW mask \in Masks, NEW ink \in Inks,
             Mask(x, y, mask, ink)
      PROVE  Shows(data', drawn')
  <2>1. x \in Int /\ y \in Int
    OBVIOUS
  <2>2. data' = maskRect(data, rect(x, y, x + Wide, y + High), Plain(ink), mask)
        /\ drawn' = Masked(drawn, x, y, mask, ink)
    BY <1>7 DEF Mask, Does, Plain, Masked
  <2> QED BY <1>1, <2>1, <2>2, MaskShows
<1> QED BY <1>2, <1>3, <1>4, <1>5, <1>6, <1>7 DEF PictureNext

\* The memory shows what was drawn (PixelBuffer.cxx: fillRect, imageRect, getImage,
\* copyRect and maskRect), for every size of the buffer and every padding of
\* its rows: a piece moved on to itself is nowhere read after it was written.
THEOREM MemoryShowsPicture == PictureSpec => []MemoryIsPicture
<1>1. PictureIInv => MemoryIsPicture
  BY DEF PictureIInv
<1> QED BY PictureInitInv, PictureStep, <1>1, PTL DEF PictureSpec

-----------------------------------------------------------------------------
(***************************************************************************)
(* The calendar of time_ce.c.  What holds it together is the number of     *)
(* days before a year, in closed form: the calendar that the system        *)
(* converts by counts them year by year, and mktime by three quotients.    *)
(***************************************************************************)

DaysBefore(year) ==
  365 * (year - EPOCH_YR) + (year - 1) \div 4 - (year - 1) \div 100 + (year - 1) \div 400 - 477
Years == {y \in Nat : y >= EPOCH_YR}

LEMMA QuotientGrows ==
  ASSUME NEW n \in Nat, n > 0
  PROVE  /\ n \div 4 = (n - 1) \div 4 + (IF n % 4 = 0 THEN 1 ELSE 0)
         /\ n \div 100 = (n - 1) \div 100 + (IF n % 100 = 0 THEN 1 ELSE 0)
         /\ n \div 400 = (n - 1) \div 400 + (IF n % 400 = 0 THEN 1 ELSE 0)
         /\ n % 400 = 0 => n % 100 = 0
         /\ n % 100 = 0 => n % 4 = 0
OBVIOUS

\* A year is as long as its number tells.
LEMMA YearGoesBy ==
  ASSUME NEW y \in Years
  PROVE  /\ DaysBefore(y) \in Int /\ y + 1 \in Years
         /\ DaysBefore(y + 1) = DaysBefore(y) + 365 + (IF LEAPYEAR(y) THEN 1 ELSE 0)
<1>1. y \in Nat /\ y > 0 /\ (y + 1) - 1 = y
  BY DEF Years, EPOCH_YR
<1> QED BY <1>1, QuotientGrows DEF DaysBefore, LEAPYEAR, Years, EPOCH_YR

LEMMA FirstYear == EPOCH_YR \in Years /\ DaysBefore(EPOCH_YR) = 0
BY DEF DaysBefore, Years, EPOCH_YR

LeapYears(y) == {l \in EPOCH_YR .. y - 1 : LEAPYEAR(l)}

LEMMA LeapYearsCounted ==
  ASSUME NEW y \in Years
  PROVE  Cardinality(LeapYears(y)) = DaysBefore(y) - 365 * (y - EPOCH_YR)
<1> DEFINE S == {n \in Nat : /\ IsFiniteSet(LeapYears(EPOCH_YR + n))
                             /\ Cardinality(LeapYears(EPOCH_YR + n)) = DaysBefore(EPOCH_YR + n) - 365 * n}
<1>1. 0 \in S
  <2>1. LeapYears(EPOCH_YR + 0) = {}
    BY DEF LeapYears, EPOCH_YR
  <2>2. EPOCH_YR + 0 = EPOCH_YR
    BY DEF EPOCH_YR
  <2> QED BY <2>1, <2>2, FS_EmptySet, FirstYear
<1>2. ASSUME NEW n \in Nat, n \in S PROVE n + 1 \in S
  <2> DEFINE l == EPOCH_YR + n
  <2>1. l \in Years /\ EPOCH_YR + (n + 1) = l + 1 /\ l \notin LeapYears(l)
    BY DEF Years, EPOCH_YR, LeapYears
  <2>2. LeapYears(l + 1) = IF LEAPYEAR(l) THEN LeapYears(l) \cup {l} ELSE LeapYears(l)
    BY <2>1 DEF LeapYears, EPOCH_YR, Years
  <2>3. IsFiniteSet(LeapYears(l)) /\ Cardinality(LeapYears(l)) = DaysBefore(l) - 365 * n
    BY <1>2
  <2>4. DaysBefore(l + 1) = DaysBefore(l) + 365 + (IF LEAPYEAR(l) THEN 1 ELSE 0) /\ DaysBefore(l) \in Int
    BY <2>1, YearGoesBy
  <2> HIDE DEF l
  <2>5. CASE LEAPYEAR(l)
    <3>1. IsFiniteSet(LeapYears(l + 1)) /\ Cardinality(LeapYears(l + 1)) = Cardinality(LeapYears(l)) + 1
      BY <2>1, <2>2, <2>3, <2>5, FS_AddElement
    <3> QED BY <2>1, <2>3, <2>4, <2>5, <3>1
  <2>6. CASE ~LEAPYEAR(l)
    BY <2>1, <2>2, <2>3, <2>4, <2>6
  <2> QED BY <2>5, <2>6
<1> HIDE DEF S
<1>3. Nat \subseteq S
  BY <1>1, <1>2, NatInd
<1>4. y - EPOCH_YR \in Nat /\ EPOCH_YR + (y - EPOCH_YR) = y
  BY DEF Years, EPOCH_YR
<1> QED BY <1>3, <1>4 DEF S

LEMMA CalendarBounds ==
  /\ LastYear \in Nat /\ LastYear >= 1970 /\ LastYear <= 9999
  /\ TIME_MAX \in Nat /\ TIME_MAX \div SECS_DAY < YearStart[LastYear + 1]
<1>1. LastYear \in EPOCH_YR .. 9999
  BY CalendarAssumption
<1>2. LastYear \in Nat /\ LastYear >= 1970 /\ LastYear <= 9999
  BY <1>1, SMTT(30) DEF EPOCH_YR
<1>3. TIME_MAX \in Nat /\ TIME_MAX \div SECS_DAY < YearStart[LastYear + 1]
  BY CalendarAssumption, SMTT(30)
<1> QED BY <1>2, <1>3, SMTT(30)

LEMMA YearStartIs ==
  ASSUME NEW y \in EPOCH_YR .. LastYear + 1
  PROVE  y \in Years /\ YearStart[y] = DaysBefore(y)
<1>1. y \in Years /\ DaysBefore(y) \in Int
  BY YearGoesBy, CalendarBounds DEF Years, EPOCH_YR
<1>2. YearStart[y] = 365 * (y - EPOCH_YR) + Cardinality(LeapYears(y))
  BY DEF YearStart, LeapYears
<1> QED BY <1>1, <1>2, LeapYearsCounted DEF Years, EPOCH_YR

\* mktime counts the leap years from the epoch on, which is none.
LEMMA DaysOfYearsIs ==
  ASSUME NEW y \in Years
  PROVE  DaysOfYears(y) = DaysBefore(y)
<1>1. y \in Nat /\ y >= 1970
  BY DEF Years, EPOCH_YR
<1>2. (y - 1970) \div 4 + (IF y % 4 # 0 /\ y % 4 < 2 THEN 1 ELSE 0) = (y - 1) \div 4 - 492
  BY <1>1
<1>3. (y - 1970) \div 100 + (IF y % 100 # 0 /\ y % 100 < 70 THEN 1 ELSE 0) = (y - 1) \div 100 - 19
  BY <1>1
<1>4. (y - 1970) \div 400 + (IF y % 400 # 0 /\ y % 400 < 370 THEN 1 ELSE 0) = (y - 1) \div 400 - 4
  BY <1>1
<1>5. 1970 % 4 = 2 /\ 1970 % 100 = 70 /\ 1970 % 400 = 370
  OBVIOUS
<1> DEFINE more(k) == IF y % k # 0 /\ y % k < EPOCH_YR % k THEN 1 ELSE 0
<1>6. /\ more(4) = IF y % 4 # 0 /\ y % 4 < 2 THEN 1 ELSE 0
      /\ more(100) = IF y % 100 # 0 /\ y % 100 < 70 THEN 1 ELSE 0
      /\ more(400) = IF y % 400 # 0 /\ y % 400 < 370 THEN 1 ELSE 0
  BY <1>5 DEF EPOCH_YR
<1>7. DaysOfYears(y) = (y - 1970) * 365 + ((y - 1970) \div 4 + more(4)) - ((y - 1970) \div 100 + more(100))
                         + ((y - 1970) \div 400 + more(400))
  BY DEF DaysOfYears, EPOCH_YR
<1>8. /\ more(4) \in Int /\ more(100) \in Int /\ more(400) \in Int
      /\ (y - 1970) \div 4 \in Int /\ (y - 1970) \div 100 \in Int /\ (y - 1970) \div 400 \in Int
      /\ (y - 1) \div 4 \in Int /\ (y - 1) \div 100 \in Int /\ (y - 1) \div 400 \in Int
  BY <1>1
<1>9. DaysBefore(y) = 365 * (y - 1970) + (y - 1) \div 4 - (y - 1) \div 100 + (y - 1) \div 400 - 477
  BY DEF DaysBefore, EPOCH_YR
<1> HIDE DEF more
<1> DEFINE a == (y - 1970) \div 4 + more(4)
           b == (y - 1970) \div 100 + more(100)
           c == (y - 1970) \div 400 + more(400)
           p == (y - 1) \div 4
           q == (y - 1) \div 100
           r == (y - 1) \div 400
<1>10. a = p - 492 /\ b = q - 19 /\ c = r - 4
  BY <1>2, <1>3, <1>4, <1>6
<1>11. DaysOfYears(y) = (y - 1970) * 365 + a - b + c
  BY <1>7
<1>12. p \in Int /\ q \in Int /\ r \in Int
  BY <1>8
<1>13. DaysBefore(y) = 365 * (y - 1970) + p - q + r - 477
  BY <1>9
<1> HIDE DEF a, b, c, p, q, r
<1> QED BY <1>1, <1>10, <1>11, <1>12, <1>13

-----------------------------------------------------------------------------
(* Months, of which none has less than 28 days. *)

LEMMA MonthLength ==
  ASSUME NEW year \in Nat, NEW mon \in 0 .. 11
  PROVE  DaysIn(year, mon) \in 28 .. 31
<1>1. LEAPYEAR(year) \in BOOLEAN
  BY DEF LEAPYEAR
<1> QED BY <1>1 DEF DaysIn, ytab

LEMMA MonthsFollow ==
  ASSUME NEW year \in Nat
  PROVE  /\ \A m \in 0 .. 12 : MonthStart(year, m) \in Nat
         /\ MonthStart(year, 0) = 0
         /\ \A m \in 1 .. 12 : MonthStart(year, m) = MonthStart(year, m - 1) + DaysIn(year, m - 1)
<1> DEFINE Is(g) == g = [m \in 0 .. 12 |-> IF m = 0 THEN 0 ELSE g[m - 1] + DaysIn(year, m - 1)]
           step == [k \in Nat |-> [n \in Nat |-> IF k \in 1 .. 12 THEN n + DaysIn(year, k - 1) ELSE 0]]
<1>1. \A k \in 1 .. 12 : DaysIn(year, k - 1) \in Nat
  BY MonthLength
<1>2. step \in [Nat -> [Nat -> Nat]]
  BY <1>1
<1>3. \A k \in 1 .. 12, n \in Nat : step[k][n] = n + DaysIn(year, k - 1)
  OBVIOUS
<1> HIDE DEF step
<1>4. PICK f \in [Nat -> Nat] : FollowsOn(f, 0, step)
  BY <1>2, Recursion
<1> DEFINE h == [m \in 0 .. 12 |-> f[m]]
<1>5. ASSUME NEW m \in 0 .. 12
      PROVE  h[m] = IF m = 0 THEN 0 ELSE h[m - 1] + DaysIn(year, m - 1)
  <2>1. CASE m # 0
    <3>1. m \in Nat \ {0} /\ m \in 1 .. 12 /\ m - 1 \in 0 .. 12 /\ m - 1 \in Nat
      BY <2>1
    <3>2. f[m] = step[m][f[m - 1]] /\ f[m - 1] \in Nat
      BY <1>4, <3>1 DEF FollowsOn
    <3>3. h[m] = f[m] /\ h[m - 1] = f[m - 1]
      BY <3>1
    <3> HIDE DEF h
    <3> QED BY <1>3, <2>1, <3>1, <3>2, <3>3
  <2>2. CASE m = 0
    BY <1>4, <2>2 DEF FollowsOn
  <2> QED BY <2>1, <2>2
<1>6. h = [m \in 0 .. 12 |-> h[m]]
  OBVIOUS
<1> HIDE DEF h
<1>7. Is(h)
  BY <1>5, <1>6
<1> DEFINE g == CHOOSE g : Is(g)
<1>8. Is(g)
  BY <1>7
<1>9. \A m : MonthStart(year, m) = g[m]
  BY DEF MonthStart
<1> HIDE DEF g
<1>10. g[0] = 0 /\ \A m \in 1 .. 12 : g[m] = g[m - 1] + DaysIn(year, m - 1)
  BY <1>8
<1> DEFINE S == {m \in Nat : m <= 12 => g[m] \in Nat}
<1>11. 0 \in S
  BY <1>10
<1>12. ASSUME NEW m \in Nat, m \in S PROVE m + 1 \in S
  <2>1. CASE m + 1 <= 12
    <3>1. m + 1 \in 1 .. 12 /\ (m + 1) - 1 = m /\ g[m] \in Nat
      BY <1>12, <2>1
    <3> QED BY <1>1, <1>10, <3>1
  <2> QED BY <2>1
<1> HIDE DEF S, Is
<1>13. Nat \subseteq S
  BY <1>11, <1>12, NatInd
<1>14. \A m \in 0 .. 12 : g[m] \in Nat
  BY <1>13 DEF S
<1> QED BY <1>9, <1>10, <1>14

\* A year is what its months are together.
LEMMA YearOfMonths ==
  ASSUME NEW year \in Nat
  PROVE  MonthStart(year, 12) = 365 + (IF LEAPYEAR(year) THEN 1 ELSE 0)
<1> DEFINE M(m) == MonthStart(year, m)
           D(m) == DaysIn(year, m)
<1>1. /\ M(0) = 0
      /\ M(1) = M(0) + D(0) /\ M(2) = M(1) + D(1) /\ M(3) = M(2) + D(2) /\ M(4) = M(3) + D(3)
      /\ M(5) = M(4) + D(4) /\ M(6) = M(5) + D(5) /\ M(7) = M(6) + D(6) /\ M(8) = M(7) + D(7)
      /\ M(9) = M(8) + D(8) /\ M(10) = M(9) + D(9) /\ M(11) = M(10) + D(10) /\ M(12) = M(11) + D(11)
  BY MonthsFollow
<1>2. /\ D(0) = 31 /\ D(1) = 28 + (IF LEAPYEAR(year) THEN 1 ELSE 0) /\ D(2) = 31 /\ D(3) = 30
      /\ D(4) = 31 /\ D(5) = 30 /\ D(6) = 31 /\ D(7) = 31 /\ D(8) = 30 /\ D(9) = 31 /\ D(10) = 30
      /\ D(11) = 31
  BY DEF DaysIn, ytab
<1> HIDE DEF M, D
<1> QED BY <1>1, <1>2 DEF M

\* The days before a month of a year, as they are counted on from one year to the next.
LEMMA MonthGoesBy ==
  ASSUME NEW year \in Years, NEW mon \in 0 .. 11
  PROVE  /\ DaysIn(year, mon) \in 28 .. 31 /\ MonthStart(year, mon) \in Nat /\ DaysBefore(year) \in Int
         /\ mon < 11 => MonthStart(year, mon + 1) = MonthStart(year, mon) + DaysIn(year, mon)
         /\ mon = 11 => /\ year + 1 \in Years /\ MonthStart(year + 1, 0) = 0
                        /\ DaysBefore(year + 1) = DaysBefore(year) + MonthStart(year, mon) + DaysIn(year, mon)
<1>1. year \in Nat /\ year + 1 \in Nat /\ year + 1 \in Years /\ mon \in 0 .. 12
  BY DEF Years, EPOCH_YR
<1>2. DaysIn(year, mon) \in 28 .. 31 /\ MonthStart(year, mon) \in Nat /\ DaysBefore(year) \in Int
  <2>1. DaysIn(year, mon) \in 28 .. 31
    BY <1>1, MonthLength
  <2>2. MonthStart(year, mon) \in Nat
    BY <1>1, MonthsFollow
  <2>3. DaysBefore(year) \in Int
    BY YearGoesBy
  <2> QED BY <2>1, <2>2, <2>3
<1>3. MonthStart(year, mon + 1) = MonthStart(year, mon) + DaysIn(year, mon)
  <2>1. mon + 1 \in 1 .. 12 /\ (mon + 1) - 1 = mon
    OBVIOUS
  <2> QED BY <1>1, <2>1, MonthsFollow
<1>4. CASE mon = 11
  <2>1. MonthStart(year, 12) = 365 + (IF LEAPYEAR(year) THEN 1 ELSE 0) /\ mon + 1 = 12
    BY <1>1, <1>4, YearOfMonths
  <2>2. DaysBefore(year + 1) = DaysBefore(year) + 365 + (IF LEAPYEAR(year) THEN 1 ELSE 0)
    BY YearGoesBy
  <2>3. MonthStart(year + 1, 0) = 0
    BY <1>1, MonthsFollow
  <2> QED BY <1>1, <1>2, <1>3, <1>4, <2>1, <2>2, <2>3
<1> QED BY <1>2, <1>3, <1>4

\* Rolling days over into the months that follow stays on the day it is, and ends
\* within a month: one is gone by for every 28 days.
LEMMA RollIs ==
  ASSUME NEW day \in Nat, NEW mon \in 0 .. 11, NEW year \in Years,
         NEW to, to = Roll(day, mon, year)
  PROVE  /\ to.day \in 0 .. 30 /\ to.mon \in 0 .. 11 /\ to.year \in Years
         /\ DaysBefore(to.year) + MonthStart(to.year, to.mon) + to.day =
            DaysBefore(year) + MonthStart(year, mon) + day
<1> DEFINE months == day \div 28
           from == [day |-> day, mon |-> mon, year |-> year]
           D == [day : Nat, mon : 0 .. 11, year : Years]
           On(d) == DaysBefore(d.year) + MonthStart(d.year, d.mon) + d.day
           Is(g) == g = [k \in 0 .. months |-> IF k = 0 THEN from ELSE RollMonth(g[k - 1])]
           step == [k \in Nat |-> [d \in D |-> RollMonth(d)]]
<1>1. ASSUME NEW d \in D
      PROVE  /\ RollMonth(d) \in D /\ On(RollMonth(d)) = On(d)
             /\ RollMonth(d).day < DaysIn(RollMonth(d).year, RollMonth(d).mon) \/ RollMonth(d).day <= d.day - 28
             /\ d.day < 28 => RollMonth(d) = d
  <2> DEFINE r == RollMonth(d)
             n == DaysIn(d.year, d.mon)
  <2>1. /\ n \in 28 .. 31 /\ MonthStart(d.year, d.mon) \in Nat /\ DaysBefore(d.year) \in Int
        /\ d.mon < 11 => MonthStart(d.year, d.mon + 1) = MonthStart(d.year, d.mon) + n
        /\ d.mon = 11 => /\ d.year + 1 \in Years /\ MonthStart(d.year + 1, 0) = 0
                         /\ DaysBefore(d.year + 1) = DaysBefore(d.year) + MonthStart(d.year, d.mon) + n
    BY MonthGoesBy
  <2>2. CASE d.day < n
    <3>1. r = d
      BY <2>2 DEF RollMonth
    <3> QED BY <2>2, <3>1
  <2>3. CASE ~(d.day < n)
    <3>1. r = [day |-> d.day - n, mon |-> (d.mon + 1) % 12, year |-> IF d.mon = 11 THEN d.year + 1 ELSE d.year]
      BY <2>3 DEF RollMonth
    <3>2. CASE d.mon = 11
      <4>1. (d.mon + 1) % 12 = 0
        BY <3>2
      <4>2. r = [day |-> d.day - n, mon |-> 0, year |-> d.year + 1]
        BY <3>1, <3>2, <4>1
      <4> HIDE DEF r, n
      <4>3. r.day = d.day - n /\ r.mon = 0 /\ r.year = d.year + 1 /\ r \in D
        BY <2>1, <2>3, <3>2, <4>2
      <4>4. On(r) = On(d)
        BY <2>1, <3>2, <4>3
      <4> QED BY <2>1, <2>3, <4>3, <4>4 DEF r
    <3>3. CASE d.mon < 11
      <4>1. (d.mon + 1) % 12 = d.mon + 1
        BY <3>3
      <4>2. r = [day |-> d.day - n, mon |-> d.mon + 1, year |-> d.year]
        BY <3>1, <3>3, <4>1
      <4> HIDE DEF r, n
      <4>3. r.day = d.day - n /\ r.mon = d.mon + 1 /\ r.year = d.year /\ r \in D
        BY <2>1, <2>3, <3>3, <4>2
      <4>4. On(r) = On(d)
        BY <2>1, <3>3, <4>3
      <4> QED BY <2>1, <2>3, <4>3, <4>4 DEF r
    <3> QED BY <3>2, <3>3
  <2> QED BY <2>2, <2>3
<1>2. from \in D /\ months \in Nat /\ On(from) = DaysBefore(year) + MonthStart(year, mon) + day
  OBVIOUS
<1>3. step \in [Nat -> [D -> D]]
  BY <1>1
<1>4. \A k \in Nat, d \in D : step[k][d] = RollMonth(d)
  OBVIOUS
<1> HIDE DEF D, from, step, On
<1>5. PICK f \in [Nat -> D] : FollowsOn(f, from, step)
  BY <1>2, <1>3, Recursion
<1> DEFINE h == [k \in 0 .. months |-> f[k]]
<1> HIDE DEF months
<1>6. ASSUME NEW k \in 0 .. months
      PROVE  h[k] = IF k = 0 THEN from ELSE RollMonth(h[k - 1])
  <2>1. CASE k # 0
    <3>1. k \in Nat \ {0} /\ k \in Nat /\ k - 1 \in 0 .. months /\ k - 1 \in Nat
      BY <1>2, <2>1
    <3>2. f[k] = step[k][f[k - 1]] /\ f[k - 1] \in D
      BY <1>5, <3>1 DEF FollowsOn
    <3>3. h[k] = f[k] /\ h[k - 1] = f[k - 1]
      BY <3>1
    <3> HIDE DEF h
    <3> QED BY <1>4, <2>1, <3>1, <3>2, <3>3
  <2>2. CASE k = 0
    BY <1>2, <1>5, <2>2 DEF FollowsOn
  <2> QED BY <2>1, <2>2
<1>7. h = [k \in 0 .. months |-> h[k]]
  OBVIOUS
<1> HIDE DEF h
<1>8. Is(h)
  BY <1>6, <1>7
<1> DEFINE g == CHOOSE g : Is(g)
<1>9. Is(g)
  BY <1>8
<1>10. to = g[months]
  BY DEF Roll, months, from
<1> HIDE DEF g
<1>11. g[0] = from /\ \A k \in 1 .. months : g[k] = RollMonth(g[k - 1])
  BY <1>2, <1>9
<1> HIDE DEF Is
<1> DEFINE Within(d) == d.day < DaysIn(d.year, d.mon)
           S == {k \in Nat : k <= months => /\ g[k] \in D /\ On(g[k]) = On(from)
                                            /\ Within(g[k]) \/ g[k].day <= day - 28 * k}
<1>12. 0 \in S
  BY <1>2, <1>11 DEF from
<1>13. ASSUME NEW k \in Nat, k \in S PROVE k + 1 \in S
  <2>1. CASE k + 1 <= months
    <3>1. k + 1 \in 1 .. months /\ (k + 1) - 1 = k /\ k <= months
      BY <1>2, <2>1
    <3>2. g[k] \in D /\ On(g[k]) = On(from) /\ (Within(g[k]) \/ g[k].day <= day - 28 * k)
      BY <1>13, <3>1
    <3>3. g[k + 1] = RollMonth(g[k])
      BY <1>11, <3>1
    <3>4. g[k + 1] \in D /\ On(g[k + 1]) = On(from) /\ (Within(g[k + 1]) \/ g[k + 1].day <= g[k].day - 28)
      BY <1>1, <3>2, <3>3
    <3>5. CASE Within(g[k])
      <4>1. g[k + 1] = g[k]
        BY <3>3, <3>5 DEF RollMonth
      <4> QED BY <3>4, <3>5, <4>1
    <3>6. CASE g[k].day <= day - 28 * k /\ ~Within(g[k + 1])
      <4>1. g[k + 1].day <= g[k].day - 28 /\ g[k].day \in Nat /\ g[k + 1].day \in Nat
        BY <3>2, <3>4, <3>6 DEF D
      <4>2. g[k + 1].day <= day - 28 * (k + 1)
        BY <3>6, <4>1
      <4> QED BY <3>4, <4>2
    <3> QED BY <3>2, <3>4, <3>5, <3>6
  <2> QED BY <2>1
<1> HIDE DEF S
<1>14. Nat \subseteq S
  BY <1>12, <1>13, NatInd
<1>15. to \in D /\ On(to) = On(from) /\ (Within(to) \/ to.day <= day - 28 * months)
  BY <1>2, <1>10, <1>14 DEF S
<1>16. DaysIn(to.year, to.mon) \in 28 .. 31
  BY <1>15, MonthGoesBy DEF D
<1>17. to.day \in Nat /\ to.day < 31
  BY <1>15, <1>16 DEF D, months
<1>18. to.mon \in 0 .. 11 /\ to.year \in Years /\ to.day \in 0 .. 30
  <2>1. \A d \in D : d.mon \in 0 .. 11 /\ d.year \in Years
    BY DEF D
  <2> QED BY <1>15, <1>17, <2>1
<1>19. On(to) = DaysBefore(to.year) + MonthStart(to.year, to.mon) + to.day
  BY DEF On
<1> QED BY <1>2, <1>15, <1>18, <1>19

-----------------------------------------------------------------------------
(* What the calendar makes of a time. *)

LEMMA YearIs ==
  ASSUME NEW days \in Nat, days < YearStart[LastYear + 1]
  PROVE  \E y \in EPOCH_YR .. LastYear : YearStart[y] <= days /\ days < YearStart[y + 1]
<1> DEFINE T == {y \in Years : days < DaysBefore(y + 1)}
<1>1. LastYear \in Years /\ LastYear + 1 \in EPOCH_YR .. LastYear + 1 /\ LastYear \in Nat
  BY CalendarBounds DEF Years, EPOCH_YR
<1>2. LastYear \in T
  BY <1>1, YearStartIs
<1>3. T \subseteq Nat
  BY DEF Years
<1>4. PICK y \in T : \A z \in T : y <= z
  BY <1>2, <1>3, NatMin
<1>5. y \in EPOCH_YR .. LastYear /\ y \in Nat /\ y \in Years
  BY <1>1, <1>2, <1>4 DEF Years, EPOCH_YR
<1>6. YearStart[y] = DaysBefore(y) /\ YearStart[y + 1] = DaysBefore(y + 1) /\ DaysBefore(y) \in Int
  <2>1. y \in EPOCH_YR .. LastYear + 1 /\ y + 1 \in EPOCH_YR .. LastYear + 1
    BY <1>1, <1>5 DEF EPOCH_YR
  <2> QED BY <1>5, <2>1, YearStartIs, YearGoesBy
<1>7. DaysBefore(y) <= days
  <2>1. CASE y = EPOCH_YR
    BY <2>1, FirstYear
  <2>2. CASE y # EPOCH_YR
    <3>1. y - 1 \in Years /\ (y - 1) + 1 = y /\ ~(y <= y - 1)
      BY <1>5, <2>2 DEF Years, EPOCH_YR
    <3>2. y - 1 \notin T
      BY <1>4, <3>1
    <3> QED BY <1>6, <3>1, <3>2
  <2> QED BY <2>1, <2>2
<1> QED BY <1>4, <1>5, <1>6, <1>7

LEMMA MonthIs ==
  ASSUME NEW year \in Nat, NEW yday \in Nat, yday < MonthStart(year, 12)
  PROVE  \E m \in 0 .. 11 : MonthStart(year, m) <= yday /\ yday < MonthStart(year, m + 1)
<1> DEFINE T == {m \in Nat : m \in 0 .. 11 /\ yday < MonthStart(year, m + 1)}
<1>1. \A m \in 0 .. 12 : MonthStart(year, m) \in Nat
  BY MonthsFollow
<1>2. 11 \in T /\ T \subseteq Nat
  OBVIOUS
<1>3. PICK m \in T : \A k \in T : m <= k
  BY <1>2, NatMin
<1>4. MonthStart(year, m) <= yday
  <2>1. CASE m = 0
    BY <2>1, MonthsFollow
  <2>2. CASE m # 0
    <3>1. m - 1 \in 0 .. 11 /\ m - 1 \in Nat /\ (m - 1) + 1 = m /\ ~(m <= m - 1) /\ m \in 0 .. 12
      BY <1>3, <2>2
    <3>2. m - 1 \notin T
      BY <1>3, <3>1
    <3> QED BY <1>1, <3>1, <3>2
  <2> QED BY <2>1, <2>2
<1> QED BY <1>3, <1>4

\* A date and the seconds of its day.
DateSeconds(st) ==
  (DaysBefore(st.year) + MonthStart(st.year, st.month - 1) + st.day - 1) * SECS_DAY + st.secs
Dates ==
  [year : EPOCH_YR .. LastYear, month : 1 .. 12, day : 1 .. 31, wday : 0 .. 6, secs : 0 .. SECS_DAY - 1]

LEMMA SystemTimeIs ==
  ASSUME NEW seconds \in 0 .. TIME_MAX
  PROVE  /\ SystemTime(seconds) \in Dates /\ DateSeconds(SystemTime(seconds)) = seconds
         /\ SystemTime(seconds).wday = ((seconds \div SECS_DAY) + 4) % 7
<1> DEFINE days == seconds \div SECS_DAY
           IsYear(y) == YearStart[y] <= days /\ days < YearStart[y + 1]
           year == CHOOSE y \in EPOCH_YR .. LastYear : IsYear(y)
           yday == days - YearStart[year]
           IsMonth(m) == MonthStart(year, m) <= yday /\ yday < MonthStart(year, m + 1)
           mon == CHOOSE m \in 0 .. 11 : IsMonth(m)
           st == [year |-> year, month |-> mon + 1, day |-> yday - MonthStart(year, mon) + 1,
                  wday |-> (days + 4) % 7, secs |-> seconds % SECS_DAY]
<1>0. SystemTime(seconds) = st
  BY DEF SystemTime
<1>1. /\ seconds \in Nat /\ days \in Nat /\ days <= TIME_MAX \div SECS_DAY
      /\ seconds % SECS_DAY \in 0 .. SECS_DAY - 1 /\ seconds = days * SECS_DAY + (seconds % SECS_DAY)
      /\ (days + 4) % 7 \in 0 .. 6 /\ TIME_MAX \div SECS_DAY \in Nat
  <2>1. TIME_MAX \in Nat /\ seconds \in Nat /\ seconds <= TIME_MAX
    BY CalendarBounds
  <2>2. /\ seconds \div SECS_DAY \in Nat /\ TIME_MAX \div SECS_DAY \in Nat
        /\ seconds % SECS_DAY \in 0 .. SECS_DAY - 1
        /\ seconds = (seconds \div SECS_DAY) * SECS_DAY + (seconds % SECS_DAY)
        /\ seconds \div SECS_DAY <= TIME_MAX \div SECS_DAY
    <3>1. SECS_DAY \in Nat /\ SECS_DAY > 0
      BY DEF SECS_DAY
    <3> QED BY <2>1, <3>1, DivSplits, DivGrows
  <2>3. /\ days \in Nat /\ seconds % SECS_DAY \in 0 .. SECS_DAY - 1
        /\ seconds = days * SECS_DAY + (seconds % SECS_DAY)
        /\ days <= TIME_MAX \div SECS_DAY /\ TIME_MAX \div SECS_DAY \in Nat
    BY <2>1, <2>2, Zenon
  <2> HIDE DEF days
  <2>4. (days + 4) % 7 \in 0 .. 6
    BY <2>3
  <2> QED BY <2>1, <2>3, <2>4
<1> HIDE DEF days
<1>2. days < YearStart[LastYear + 1]
  <2>1. YearStart[LastYear + 1] \in Int
    <3>1. LastYear + 1 \in EPOCH_YR .. LastYear + 1
      BY CalendarBounds DEF EPOCH_YR
    <3> QED BY <3>1, YearStartIs, YearGoesBy
  <2> QED BY <1>1, <2>1, CalendarBounds
<1>3. year \in EPOCH_YR .. LastYear /\ IsYear(year)
  BY <1>1, <1>2, YearIs
<1> HIDE DEF year
<1>4. year \in Years /\ year \in Nat /\ YearStart[year] = DaysBefore(year) /\ DaysBefore(year) \in Int
  <2>1. year \in EPOCH_YR .. LastYear + 1
    BY <1>3, CalendarBounds DEF EPOCH_YR
  <2> QED BY <2>1, YearStartIs, YearGoesBy DEF Years
<1>5. YearStart[year + 1] = DaysBefore(year) + MonthStart(year, 12)
  <2>1. year + 1 \in EPOCH_YR .. LastYear + 1
    BY <1>3, CalendarBounds DEF EPOCH_YR
  <2>2. YearStart[year + 1] = DaysBefore(year + 1)
    BY <2>1, YearStartIs
  <2>3. DaysBefore(year + 1) = DaysBefore(year) + 365 + (IF LEAPYEAR(year) THEN 1 ELSE 0)
    BY <1>4, YearGoesBy
  <2> QED BY <1>4, <2>2, <2>3, YearOfMonths
<1>6. yday \in Nat /\ yday < MonthStart(year, 12)
  <2>1. MonthStart(year, 12) \in Nat
    BY <1>4, MonthsFollow
  <2> QED BY <1>1, <1>3, <1>4, <1>5, <2>1
<1>7. mon \in 0 .. 11 /\ IsMonth(mon)
  BY <1>4, <1>6, MonthIs
<1> HIDE DEF mon
<1>8. /\ MonthStart(year, mon) \in Nat /\ DaysIn(year, mon) \in 28 .. 31
      /\ MonthStart(year, mon + 1) = MonthStart(year, mon) + DaysIn(year, mon)
  <2>1. mon + 1 \in 1 .. 12 /\ (mon + 1) - 1 = mon /\ mon \in 0 .. 12
    BY <1>7
  <2> QED BY <1>4, <1>7, <2>1, MonthsFollow, MonthLength
<1>9. yday - MonthStart(year, mon) + 1 \in 1 .. 31
  <2> HIDE DEF yday
  <2> QED BY <1>6, <1>7, <1>8
<1>10. st \in Dates
  BY <1>1, <1>3, <1>7, <1>9 DEF Dates
<1>11. DateSeconds(st) = (DaysBefore(year) + MonthStart(year, mon) + (yday - MonthStart(year, mon) + 1) - 1) * SECS_DAY
                           + (seconds % SECS_DAY)
  <2>1. (mon + 1) - 1 = mon
    BY <1>7
  <2> QED BY <2>1 DEF DateSeconds
<1>12. DaysBefore(year) + MonthStart(year, mon) + (yday - MonthStart(year, mon) + 1) - 1 = days
  BY <1>1, <1>4, <1>8
<1> QED BY <1>0, <1>1, <1>10, <1>11, <1>12 DEF days

-----------------------------------------------------------------------------
(* The fields, and the time they tell. *)

Tm == [hour : Int, min : Int, sec : Int, mday : Int, mon : 0 .. 11, year : Years,
       wday : Int, yday : Int, isdst : BOOLEAN]
TmDays(tm) == DaysBefore(tm.year) + MonthStart(tm.year, tm.mon) + tm.mday - 1
TmSeconds(tm) == TmDays(tm) * SECS_DAY + tm.hour * 3600 + tm.min * 60 + tm.sec

LEMMA TmDaysType == ASSUME NEW tm \in Tm PROVE TmDays(tm) \in Int /\ TmSeconds(tm) \in Int
<1>1. tm.year \in Years /\ tm.mon \in 0 .. 11 /\ tm.mday \in Int /\ tm.hour \in Int /\ tm.min \in Int /\ tm.sec \in Int
  BY DEF Tm
<1>2. DaysBefore(tm.year) \in Int /\ MonthStart(tm.year, tm.mon) \in Nat
  BY <1>1, MonthGoesBy
<1>3. TmDays(tm) \in Int
  BY <1>1, <1>2 DEF TmDays
<1> QED BY <1>1, <1>3 DEF TmSeconds, SECS_DAY

\* The fields of a date as they are just made, and the time they were made from.
IsFresh(tm, seconds) ==
  /\ tm \in Tm /\ tm.year \in EPOCH_YR .. LastYear /\ tm.mday \in 1 .. 31 /\ tm.hour \in 0 .. 23
  /\ tm.min \in 0 .. 59 /\ tm.sec \in 0 .. 59 /\ TmSeconds(tm) = seconds
  /\ tm.wday = ((seconds \div SECS_DAY) + 4) % 7 /\ tm.wday \in 0 .. 6

LEMMA SecondOfDay ==
  /\ SECS_DAY \in Nat
  /\ \A n : n \in 0 .. SECS_DAY - 1 <=> n \in Nat /\ n < SECS_DAY
<1>1. SECS_DAY \in Nat
  BY DEF SECS_DAY
<1> QED BY <1>1

LEMMA HourMinuteSecond ==
  ASSUME NEW secs \in Nat, secs < SECS_DAY
  PROVE  /\ secs \div 3600 \in 0 .. 23 /\ (secs \div 60) % 60 \in 0 .. 59 /\ secs % 60 \in 0 .. 59
         /\ secs = (secs \div 3600) * 3600 + ((secs \div 60) % 60) * 60 + (secs % 60)
<1> DEFINE q == secs \div 60
           h == q \div 60
<1>1. secs \in Nat /\ secs < 86400
  BY DEF SECS_DAY
<1>2. q \in Nat /\ secs = 60 * q + (secs % 60) /\ secs % 60 \in 0 .. 59 /\ q < 1440
  BY <1>1
<1>3. secs \div 3600 = h
  BY <1>1
<1> HIDE DEF q
<1>4. h \in 0 .. 23 /\ q = 60 * h + (q % 60) /\ q % 60 \in 0 .. 59
  BY <1>2
<1> HIDE DEF h
<1>5. secs = h * 3600 + (q % 60) * 60 + (secs % 60)
  BY <1>1, <1>2, <1>4
<1> QED BY <1>2, <1>3, <1>4, <1>5 DEF q

LEMMA JulianDaysType == ASSUME NEW st \in Dates PROVE JulianDays(st) \in Int
<1>1. st.year \in Nat /\ st.month \in Nat /\ st.day \in Nat
  BY DEF Dates, EPOCH_YR
<1> QED BY <1>1 DEF JulianDays

LEMMA FieldsOfDate ==
  ASSUME NEW seconds \in 0 .. TIME_MAX, NEW summer \in BOOLEAN
  PROVE  IsFresh(SystemTimeToTm(SystemTime(seconds), summer), seconds)
<1> DEFINE st == SystemTime(seconds)
           tm == SystemTimeToTm(st, summer)
<1>1. st \in Dates /\ DateSeconds(st) = seconds /\ st.wday = ((seconds \div SECS_DAY) + 4) % 7
  BY SystemTimeIs
<1> HIDE DEF st
<1>2. /\ tm.hour = st.secs \div 3600 /\ tm.min = (st.secs \div 60) % 60 /\ tm.sec = st.secs % 60
      /\ tm.mday = st.day /\ tm.mon = st.month - 1 /\ tm.year = st.year /\ tm.wday = st.wday
  BY DEF SystemTimeToTm
<1>2a. tm = [hour |-> tm.hour, min |-> tm.min, sec |-> tm.sec, mday |-> tm.mday, mon |-> tm.mon,
             year |-> tm.year, wday |-> tm.wday, yday |-> JulianDays(st), isdst |-> summer]
  BY <1>2 DEF SystemTimeToTm
<1> HIDE DEF tm
<1>3. /\ st.secs \in 0 .. SECS_DAY - 1 /\ st.day \in 1 .. 31 /\ st.month \in 1 .. 12
      /\ st.year \in EPOCH_YR .. LastYear /\ st.wday \in 0 .. 6
  BY <1>1 DEF Dates
<1>4. st.year \in Years /\ st.month - 1 \in 0 .. 11
  BY <1>3, CalendarBounds DEF Years, EPOCH_YR
<1>5. /\ tm.hour \in 0 .. 23 /\ tm.min \in 0 .. 59 /\ tm.sec \in 0 .. 59
      /\ st.secs = tm.hour * 3600 + tm.min * 60 + tm.sec
  <2>1. st.secs \in Nat /\ st.secs < SECS_DAY
    BY <1>3, SecondOfDay
  <2> QED BY <1>2, <2>1, HourMinuteSecond
<1>6. tm \in Tm
  <2>1. JulianDays(st) \in Int
    BY <1>1, JulianDaysType
  <2>2. tm.hour \in Int /\ tm.min \in Int /\ tm.sec \in Int
    BY <1>5
  <2>3. st.day \in Int /\ st.wday \in Int
    BY <1>3
  <2>4. tm.mday \in Int /\ tm.mon \in 0 .. 11 /\ tm.year \in Years /\ tm.wday \in Int
    BY <1>2, <1>4, <2>3
  <2> QED BY <1>2a, <2>1, <2>2, <2>4 DEF Tm
<1>7. TmSeconds(tm) = seconds
  <2>1. DaysBefore(st.year) \in Int /\ MonthStart(st.year, st.month - 1) \in Nat
    BY <1>4, MonthGoesBy
  <2>2. TmDays(tm) = DaysBefore(st.year) + MonthStart(st.year, st.month - 1) + st.day - 1
    BY <1>2 DEF TmDays
  <2>3. seconds = TmDays(tm) * SECS_DAY + st.secs
    BY <1>1, <2>2 DEF DateSeconds
  <2>4. TmDays(tm) \in Int
    BY <1>6, TmDaysType
  <2>5. TmSeconds(tm) = TmDays(tm) * SECS_DAY + tm.hour * 3600 + tm.min * 60 + tm.sec
    BY DEF TmSeconds
  <2>6. TmDays(tm) * SECS_DAY \in Int
    BY <2>4 DEF SECS_DAY
  <2>7. tm.hour \in Int /\ tm.min \in Int /\ tm.sec \in Int
    BY <1>5
  <2>8. st.secs = tm.hour * 3600 + tm.min * 60 + tm.sec
    BY <1>5
  <2> QED BY <2>3, <2>5, <2>6, <2>7, <2>8
<1>8. IsFresh(tm, seconds)
  BY <1>1, <1>2, <1>3, <1>5, <1>6, <1>7, SMTT(30) DEF IsFresh
<1> QED BY <1>8 DEF tm, st

LEMMA SummerType == ASSUME NEW st PROVE IsSummer(st) \in BOOLEAN
BY DEF IsSummer, NotAfter

LEMMA BiasType == ASSUME NEW summer \in BOOLEAN PROVE BiasOf(summer) \in {Bias * 60, (Bias + DaylightBias) * 60}
BY DEF BiasOf

-----------------------------------------------------------------------------
(* Text: pieces one after the other, and what they are together. *)

LEMMA LengthFollows ==
  ASSUME NEW n \in Nat, NEW pieces, n = Len(pieces), \A i \in 1 .. n : pieces[i].len \in Nat
  PROVE  /\ Length(pieces) = Lengths(pieces)[n] /\ Lengths(pieces)[0] = 0
         /\ \A i \in 1 .. n : Lengths(pieces)[i] = Lengths(pieces)[i - 1] + pieces[i].len
<1> DEFINE Is(g) == g = [i \in 0 .. n |-> IF i = 0 THEN 0 ELSE g[i - 1] + pieces[i].len]
           step == [k \in Nat |-> [m \in Nat |-> IF k \in 1 .. n THEN m + pieces[k].len ELSE 0]]
<1>1. step \in [Nat -> [Nat -> Nat]]
  OBVIOUS
<1>2. \A k \in 1 .. n, m \in Nat : step[k][m] = m + pieces[k].len
  OBVIOUS
<1> HIDE DEF step
<1>3. PICK f \in [Nat -> Nat] : FollowsOn(f, 0, step)
  BY <1>1, Recursion
<1> DEFINE h == [i \in 0 .. n |-> f[i]]
<1>4. ASSUME NEW i \in 0 .. n
      PROVE  h[i] = IF i = 0 THEN 0 ELSE h[i - 1] + pieces[i].len
  <2>1. CASE i # 0
    <3>1. i \in Nat \ {0} /\ i \in 1 .. n /\ i - 1 \in 0 .. n /\ i - 1 \in Nat
      BY <2>1
    <3>2. f[i] = step[i][f[i - 1]] /\ f[i - 1] \in Nat
      BY <1>3, <3>1 DEF FollowsOn
    <3>3. h[i] = f[i] /\ h[i - 1] = f[i - 1]
      BY <3>1
    <3> HIDE DEF h
    <3> QED BY <1>2, <2>1, <3>1, <3>2, <3>3
  <2>2. CASE i = 0
    BY <1>3, <2>2 DEF FollowsOn
  <2> QED BY <2>1, <2>2
<1>5. h = [i \in 0 .. n |-> h[i]]
  OBVIOUS
<1> HIDE DEF h
<1>6. Is(h)
  BY <1>4, <1>5
<1> DEFINE g == CHOOSE g : Is(g)
<1>7. Is(g)
  BY <1>6
<1>8. Length(pieces) = Lengths(pieces)[n] /\ Lengths(pieces) = g
  BY DEF Length, Lengths
<1> HIDE DEF g
<1>9. g[0] = 0
  BY <1>7
<1>10. ASSUME NEW i \in 1 .. n PROVE g[i] = g[i - 1] + pieces[i].len
  <2>1. i \in 0 .. n /\ i # 0
    OBVIOUS
  <2> QED BY <1>7, <2>1
<1> QED BY <1>8, <1>9, <1>10

\* Sequences of one element, one after the other, are the sequence of them.
LEMMA FlattenSingles ==
  ASSUME NEW S, NEW n \in Nat, n > 0, NEW p \in [1 .. n -> S], NEW s, s = [i \in 1 .. n |-> <<p[i]>>]
  PROVE  \A i \in 1 .. n : FlattenSeq(s)[i] = p[i]
<1> DEFINE Is(g) == g = [i \in 1 .. n |-> IF i = 1 THEN s[i] ELSE g[i - 1] \o s[i]]
           first(k) == [i \in 1 .. k |-> p[i]]
           h == [k \in 1 .. n |-> first(k)]
<1>1. Len(s) = n
  OBVIOUS
<1>2. ASSUME NEW k \in 1 .. n
      PROVE  h[k] = IF k = 1 THEN s[k] ELSE h[k - 1] \o s[k]
  <2>1. s[k] = <<p[k]>> /\ h[k] = first(k)
    OBVIOUS
  <2>2. CASE k = 1
    <3>1. first(1) = <<p[1]>>
      OBVIOUS
    <3> QED BY <2>1, <2>2, <3>1
  <2>3. CASE k # 1
    <3>1. k - 1 \in 1 .. n /\ h[k - 1] = first(k - 1) /\ k \in Nat /\ k - 1 \in Nat
      BY <2>3
    <3>2. first(k - 1) \in Seq(S) /\ Len(first(k - 1)) = k - 1 /\ first(k) \in Seq(S) /\ Len(first(k)) = k
      BY <3>1
    <3>3. first(k) = Append(first(k - 1), p[k])
      <4>1. Append(first(k - 1), p[k]) \in Seq(S) /\ Len(Append(first(k - 1), p[k])) = k
        BY <3>1, <3>2
      <4>2. \A i \in 1 .. k : Append(first(k - 1), p[k])[i] = first(k)[i]
        BY <3>1, <3>2
      <4> HIDE DEF first
      <4> QED BY <3>1, <3>2, <4>1, <4>2, SeqEqual
    <3>4. Append(first(k - 1), p[k]) = first(k - 1) \o <<p[k]>>
      BY <3>2, AppendIsConcat
    <3> HIDE DEF first, h
    <3> QED BY <2>1, <2>3, <3>1, <3>3, <3>4
  <2> QED BY <2>2, <2>3
<1>3. h = [k \in 1 .. n |-> h[k]]
  OBVIOUS
<1> HIDE DEF h
<1>4. Is(h)
  BY <1>2, <1>3
<1> DEFINE g == CHOOSE g : Is(g)
<1>5. Is(g)
  BY <1>4
<1>6. FlattenSeq(s) = g[n]
  BY <1>1 DEF FlattenSeq
<1> HIDE DEF g
<1> DEFINE T == {k \in Nat : k \in 1 .. n => g[k] = first(k)}
<1>7. \A k \in 1 .. n : g[k] = IF k = 1 THEN s[k] ELSE g[k - 1] \o s[k]
  BY <1>5
<1>8. \A k \in 1 .. n : first(k) = IF k = 1 THEN s[k] ELSE first(k - 1) \o s[k]
  <2>1. \A k \in 1 .. n : h[k] = first(k)
    BY DEF h
  <2> HIDE DEF first
  <2> TAKE k \in 1 .. n
  <2>2. CASE k = 1
    BY <1>2, <2>1, <2>2
  <2>3. CASE k # 1
    <3>1. k - 1 \in 1 .. n
      BY <2>3
    <3> QED BY <1>2, <2>1, <2>3, <3>1
  <2> QED BY <2>2, <2>3
<1> HIDE DEF first
<1>9. 0 \in T
  OBVIOUS
<1>10. ASSUME NEW k \in Nat, k \in T PROVE k + 1 \in T
  <2>1. CASE k + 1 \in 1 .. n /\ k = 0
    BY <1>7, <1>8, <2>1
  <2>2. CASE k + 1 \in 1 .. n /\ k # 0
    <3>1. k \in 1 .. n /\ (k + 1) - 1 = k /\ k + 1 # 1 /\ g[k] = first(k)
      BY <1>10, <2>2
    <3>2. g[k + 1] = g[k] \o s[k + 1] /\ first(k + 1) = first(k) \o s[k + 1]
      BY <1>7, <1>8, <2>2, <3>1
    <3>3. g[k + 1] = first(k + 1)
      BY <3>1, <3>2
    <3> QED BY <3>3
  <2> QED BY <2>1, <2>2
<1> HIDE DEF T
<1>11. n \in T
  BY <1>9, <1>10, NatInd
<1>12. g[n] = first(n)
  BY <1>11 DEF T
<1> QED BY <1>6, <1>12 DEF first

LEMMA SecondsOfFields ==
  ASSUME NEW tm, NEW seconds, IsFresh(tm, seconds)
  PROVE  SecondsOf(tm.year, tm.mon, tm.mday, tm.hour, tm.min, tm.sec) = seconds
<1>1. tm \in Tm /\ tm.year \in EPOCH_YR .. LastYear + 1 /\ TmSeconds(tm) = seconds
  BY CalendarBounds DEF IsFresh, EPOCH_YR
<1>2. YearStart[tm.year] = DaysBefore(tm.year)
  BY <1>1, YearStartIs
<1>3. TmDays(tm) \in Int /\ tm.hour \in Int /\ tm.min \in Int /\ tm.sec \in Int
  BY <1>1, TmDaysType DEF Tm
<1>4. SecondsOf(tm.year, tm.mon, tm.mday, tm.hour, tm.min, tm.sec) =
      TmDays(tm) * SECS_DAY + (tm.hour * 60 + tm.min) * 60 + tm.sec
  BY <1>2 DEF SecondsOf, TmDays
<1>5. TmSeconds(tm) = TmDays(tm) * SECS_DAY + tm.hour * 3600 + tm.min * 60 + tm.sec
  BY DEF TmSeconds
<1>6. TmDays(tm) * SECS_DAY \in Int
  BY <1>3 DEF SECS_DAY
<1>7. TmDays(tm) * SECS_DAY + (tm.hour * 60 + tm.min) * 60 + tm.sec = TmDays(tm) * SECS_DAY + tm.hour * 3600 + tm.min * 60 + tm.sec
  <2> DEFINE d == TmDays(tm) * SECS_DAY
  <2>1. d \in Int
    BY <1>6
  <2> HIDE DEF d
  <2>2. d + (tm.hour * 60 + tm.min) * 60 + tm.sec = d + tm.hour * 3600 + tm.min * 60 + tm.sec
    BY <1>3, <2>1
  <2> QED BY <2>2 DEF d
<1> QED BY <1>1, <1>4, <1>5, <1>7

\* Numbers of a date are not cut off.
LEMMA DateNumbers ==
  ASSUME NEW tm, NEW seconds, IsFresh(tm, seconds)
  PROVE  /\ Number(2, tm.mday).is = tm.mday /\ Number(2, tm.hour).is = tm.hour
         /\ Number(2, tm.min).is = tm.min /\ Number(2, tm.sec).is = tm.sec
         /\ Number(4, tm.year).is = tm.year
<1>1. tm.year \in Nat /\ tm.year <= 9999
  <2>1. tm.year \in 1970 .. LastYear
    BY DEF IsFresh, EPOCH_YR
  <2>2. LastYear \in Nat /\ LastYear <= 9999
    BY CalendarBounds
  <2> QED BY <2>1, <2>2
<1>2. tm.mday \in 0 .. 99 /\ tm.hour \in 0 .. 99 /\ tm.min \in 0 .. 99 /\ tm.sec \in 0 .. 99
  BY DEF IsFresh
<1>3. pow[2] = 100 /\ pow[4] = 10000
  BY DEF pow
<1>4. \A i, v : Number(i, v).is = v % pow[i]
  BY DEF Number
<1>5. \A v \in 0 .. 99 : v % 100 = v
  OBVIOUS
<1>6. \A v \in Nat : v <= 9999 => v % 10000 = v
  OBVIOUS
<1>7. \A v \in 0 .. 99 : Number(2, v).is = v
  BY <1>3, <1>4, <1>5
<1>8. \A v \in Nat : v <= 9999 => Number(4, v).is = v
  BY <1>3, <1>4, <1>6
<1>9. Number(4, tm.year).is = tm.year
  BY <1>1, <1>8
<1>10. Number(2, tm.mday).is = tm.mday /\ Number(2, tm.hour).is = tm.hour
  BY <1>2, <1>7
<1>11. Number(2, tm.min).is = tm.min /\ Number(2, tm.sec).is = tm.sec
  BY <1>2, <1>7
<1> QED BY <1>9, <1>10, <1>11

\* A date in the header of an answer reads as the time it is of.
LEMMA DateReads ==
  ASSUME NEW tm, NEW seconds, IsFresh(tm, seconds), NEW text,
         text = FlattenSeq([i \in DOMAIN DateFormat |-> Conversion(DateFormat[i], tm)])
  PROVE  LET told(c) == Reads(text, DateFormat, c)
         IN  /\ seconds = SecondsOf(told("Y"), told("b"), told("d"), told("H"), told("M"), told("S"))
             /\ told("a") = ((seconds \div SECS_DAY) + 4) % 7
<1> DEFINE p == <<Name(tm.wday), Number(2, tm.mday), Name(tm.mon), Number(4, tm.year),
                  Number(2, tm.hour), Number(2, tm.min), Number(2, tm.sec)>>
           S == {p[i] : i \in 1 .. 7}
           F == DateFormat
           told(c) == Reads(text, DateFormat, c)
<1>1. /\ DOMAIN F = 1 .. 7
      /\ F[1] = "a" /\ F[2] = "d" /\ F[3] = "b" /\ F[4] = "Y" /\ F[5] = "H" /\ F[6] = "M" /\ F[7] = "S"
  BY DEF DateFormat
<1>2. /\ Conversion("a", tm) = <<p[1]>> /\ Conversion("d", tm) = <<p[2]>> /\ Conversion("b", tm) = <<p[3]>>
      /\ Conversion("Y", tm) = <<p[4]>> /\ Conversion("H", tm) = <<p[5]>> /\ Conversion("M", tm) = <<p[6]>>
      /\ Conversion("S", tm) = <<p[7]>>
  BY DEF Conversion
<1>3. p \in [1 .. 7 -> S] /\ 7 \in Nat /\ 7 > 0
  OBVIOUS
<1>4. /\ p[1].is = tm.wday /\ p[2].is = Number(2, tm.mday).is /\ p[3].is = tm.mon
      /\ p[4].is = Number(4, tm.year).is /\ p[5].is = Number(2, tm.hour).is
      /\ p[6].is = Number(2, tm.min).is /\ p[7].is = Number(2, tm.sec).is
  BY DEF Name
<1> HIDE DEF p, S, F
<1>5. ASSUME NEW i \in 1 .. 7 PROVE Conversion(F[i], tm) = <<p[i]>>
  <2>1. i = 1 \/ i = 2 \/ i = 3 \/ i = 4 \/ i = 5 \/ i = 6 \/ i = 7
    OBVIOUS
  <2> QED BY <1>1, <1>2, <2>1
<1>6. [i \in DOMAIN F |-> Conversion(F[i], tm)] = [i \in 1 .. 7 |-> <<p[i]>>]
  BY <1>1, <1>5
<1>7. \A i \in 1 .. 7 : text[i] = p[i]
  <2> DEFINE n == 7
             s == [i \in 1 .. n |-> <<p[i]>>]
  <2>1. text = FlattenSeq(s)
    BY <1>6 DEF F
  <2>2. n \in Nat /\ n > 0 /\ p \in [1 .. n -> S]
    BY <1>3
  <2>3. s = [i \in 1 .. n |-> <<p[i]>>]
    OBVIOUS
  <2> HIDE DEF s, n
  <2>4. \A i \in 1 .. n : FlattenSeq(s)[i] = p[i]
    BY <2>2, <2>3, FlattenSingles, ZenonT(60)
  <2>5. \A i \in 1 .. n : text[i] = p[i]
    BY <2>1, <2>4, Zenon
  <2> QED BY <2>5 DEF n
<1>8. ASSUME NEW i \in 1 .. 7 PROVE told(F[i]) = text[i].is
  <2>1. \A j \in 1 .. 7 : F[j] = F[i] => j = i
    <3>1. i = 1 \/ i = 2 \/ i = 3 \/ i = 4 \/ i = 5 \/ i = 6 \/ i = 7
      OBVIOUS
    <3>2. ASSUME NEW j \in 1 .. 7 PROVE j = 1 \/ j = 2 \/ j = 3 \/ j = 4 \/ j = 5 \/ j = 6 \/ j = 7
      OBVIOUS
    <3> QED BY <1>1, <3>1, <3>2
  <2>2. (CHOOSE j \in DOMAIN F : F[j] = F[i]) = i
    BY <1>1, <2>1
  <2> QED BY <2>2 DEF Reads, F
<1>9. /\ told("a") = tm.wday /\ told("b") = tm.mon /\ told("d") = tm.mday /\ told("Y") = tm.year
      /\ told("H") = tm.hour /\ told("M") = tm.min /\ told("S") = tm.sec
  BY <1>1, <1>4, <1>7, <1>8, DateNumbers
<1>10. SecondsOf(tm.year, tm.mon, tm.mday, tm.hour, tm.min, tm.sec) = seconds
  BY SecondsOfFields
<1>11. tm.wday = ((seconds \div SECS_DAY) + 4) % 7
  BY DEF IsFresh
<1> HIDE DEF told
<1>12. /\ seconds = SecondsOf(told("Y"), told("b"), told("d"), told("H"), told("M"), told("S"))
       /\ told("a") = ((seconds \div SECS_DAY) + 4) % 7
  BY <1>9, <1>10, <1>11
<1> QED BY <1>12 DEF told

\* The text of ctime fits its buffer and reads as the time it is of.
LEMMA TextReads ==
  ASSUME NEW tm, NEW seconds, IsFresh(tm, seconds), NEW text, text = asctime(tm)
  PROVE  /\ Fitting(text, ASC_BUFF_SIZE) = ASC_BUFF_SIZE - 1
         /\ seconds = SecondsOf(text[13].is, text[3].is, text[5].is, text[7].is, text[9].is, text[11].is)
<1> DEFINE q == <<Name(tm.wday), Letter, Name(tm.mon), Letter, Number(2, tm.mday), Letter,
                  Number(2, tm.hour), Letter, Number(2, tm.min), Letter, Number(2, tm.sec),
                  Letter, Number(4, tm.year)>>
           S == {q[i] : i \in 1 .. 13} \cup {Letter}
           t == q \o <<Letter>>
<1>1. Conversion("c", tm) = q
  BY DEF Conversion
<1>2. text = t
  BY <1>1 DEF asctime
<1>3. /\ q[3].is = tm.mon /\ q[5].is = tm.mday /\ q[7].is = tm.hour /\ q[9].is = tm.min
      /\ q[11].is = tm.sec /\ q[13].is = tm.year
  BY DateNumbers DEF Name
<1>4. /\ q[1].len = 3 /\ q[2].len = 1 /\ q[3].len = 3 /\ q[4].len = 1 /\ q[5].len = 2 /\ q[6].len = 1
      /\ q[7].len = 2 /\ q[8].len = 1 /\ q[9].len = 2 /\ q[10].len = 1 /\ q[11].len = 2
      /\ q[12].len = 1 /\ q[13].len = 4 /\ Letter.len = 1
  BY DEF Name, Number, Letter
<1>4a. q \in Seq(S) /\ Len(q) = 13 /\ <<Letter>> \in Seq(S) /\ Len(<<Letter>>) = 1
  <2>1. q \in [1 .. 13 -> S]
    OBVIOUS
  <2> QED BY <2>1
<1> HIDE DEF q, S
<1>4b. Len(t) = 14 /\ t[14] = Letter /\ \A i \in 1 .. 13 : t[i] = q[i]
  <2> DEFINE l == <<Letter>>
  <2>0. l \in Seq(S) /\ Len(l) = 1 /\ l[1] = Letter /\ t = q \o l
    BY <1>4a
  <2> HIDE DEF l, t
  <2>1. /\ Len(q \o l) = Len(q) + Len(l)
        /\ \A i \in 1 .. Len(q) + Len(l) : (q \o l)[i] = IF i <= Len(q) THEN q[i] ELSE l[i - Len(q)]
    BY <1>4a, <2>0, ConcatProperties
  <2>2. Len(q) = 13 /\ Len(l) = 1 /\ 14 = Len(q) + Len(l)
    BY <1>4a, <2>0
  <2>3. Len(t) = 14
    BY <2>0, <2>1, <2>2
  <2>4. ASSUME NEW i \in 1 .. 13 PROVE t[i] = q[i]
    <3>1. i \in 1 .. Len(q) + Len(l) /\ i <= Len(q)
      BY <2>2
    <3> QED BY <2>0, <2>1, <3>1
  <2>5. t[14] = Letter
    <3>1. 14 \in 1 .. Len(q) + Len(l) /\ ~(14 <= Len(q)) /\ 14 - Len(q) = 1
      BY <2>2
    <3> QED BY <2>0, <2>1, <3>1
  <2> QED BY <2>3, <2>4, <2>5
<1> HIDE DEF t
<1>5. /\ t[1].len = 3 /\ t[2].len = 1 /\ t[3].len = 3 /\ t[4].len = 1 /\ t[5].len = 2 /\ t[6].len = 1
      /\ t[7].len = 2 /\ t[8].len = 1 /\ t[9].len = 2 /\ t[10].len = 1 /\ t[11].len = 2
      /\ t[12].len = 1 /\ t[13].len = 4 /\ t[14].len = 1
  BY <1>4, <1>4b
<1>6. ASSUME NEW i \in 1 .. 14 PROVE t[i].len \in Nat
  <2>1. \/ i = 1 \/ i = 2 \/ i = 3 \/ i = 4 \/ i = 5 \/ i = 6 \/ i = 7 \/ i = 8 \/ i = 9 \/ i = 10
        \/ i = 11 \/ i = 12 \/ i = 13 \/ i = 14
    OBVIOUS
  <2> QED BY <1>5, <2>1
<1> DEFINE g == Lengths(t)
<1>7. /\ Length(t) = g[14] /\ g[0] = 0
      /\ \A i \in 1 .. 14 : g[i] = g[i - 1] + t[i].len
  <2> DEFINE n == 14
  <2>1. n \in Nat /\ n = Len(t)
    BY <1>4b
  <2>2. \A i \in 1 .. n : t[i].len \in Nat
    BY <1>6
  <2> HIDE DEF n
  <2>3. /\ Length(t) = Lengths(t)[n] /\ Lengths(t)[0] = 0
        /\ \A i \in 1 .. n : Lengths(t)[i] = Lengths(t)[i - 1] + t[i].len
    BY <2>1, <2>2, LengthFollows, ZenonT(60)
  <2> HIDE DEF g
  <2>4. /\ Length(t) = g[n] /\ g[0] = 0
        /\ \A i \in 1 .. n : g[i] = g[i - 1] + t[i].len
    BY <2>3, Zenon DEF g
  <2> QED BY <2>4 DEF n
<1> HIDE DEF g
<1>8. /\ g[1] = g[0] + t[1].len /\ g[2] = g[1] + t[2].len /\ g[3] = g[2] + t[3].len
      /\ g[4] = g[3] + t[4].len /\ g[5] = g[4] + t[5].len /\ g[6] = g[5] + t[6].len
      /\ g[7] = g[6] + t[7].len /\ g[8] = g[7] + t[8].len /\ g[9] = g[8] + t[9].len
      /\ g[10] = g[9] + t[10].len /\ g[11] = g[10] + t[11].len /\ g[12] = g[11] + t[12].len
      /\ g[13] = g[12] + t[13].len /\ g[14] = g[13] + t[14].len
  BY <1>7
<1>9. Length(t) = 25
  BY <1>5, <1>7, <1>8
<1>10. Fitting(t, ASC_BUFF_SIZE) = ASC_BUFF_SIZE - 1
  BY <1>9 DEF Fitting, ASC_BUFF_SIZE
<1>11. SecondsOf(t[13].is, t[3].is, t[5].is, t[7].is, t[9].is, t[11].is) = seconds
  <2>1. /\ t[3].is = tm.mon /\ t[5].is = tm.mday /\ t[7].is = tm.hour /\ t[9].is = tm.min
        /\ t[11].is = tm.sec /\ t[13].is = tm.year
    BY <1>3, <1>4b
  <2> QED BY <2>1, SecondsOfFields
<1> QED BY <1>2, <1>10, <1>11

-----------------------------------------------------------------------------
(***************************************************************************)
(* The fields tell the time they were made from and what was added to them *)
(* since, in whatever fields it was added and however they were put right;  *)
(* those just made are the fields of a date, in the zone they were made in, *)
(* which is the time's own but for some times in winter.                     *)
(***************************************************************************)

CalendarTypeOK ==
  /\ localtime \in {0, Bias * 60, (Bias + DaylightBias) * 60} /\ isdst \in BOOLEAN
  /\ asked \in Int /\ added \in Int /\ used \in Int /\ zone \in Int
FieldsTell == tmbuf # NoResult => tmbuf \in Tm /\ TmSeconds(tmbuf) = asked + added - used
MadeFresh ==
  result.call \in {"gmtime", "localtime"} =>
    /\ IsFresh(tmbuf, asked - used) /\ added = 0
    /\ result.call = "gmtime" => used = 0
WinterIsAhead == zone - used # 0 => zone = BiasOf(FALSE) /\ used \in {0, BiasOf(TRUE)}
CalendarIInv == CalendarTypeOK /\ FieldsTell /\ MadeFresh /\ WinterIsAhead /\ TimeSurvives

LEMMA LessItself == \A i, j \in Int : i = j => j - i = 0
OBVIOUS

LEMMA BiasIsNumber == ASSUME NEW summer \in BOOLEAN PROVE BiasOf(summer) \in Int
<1>1. Bias \in Int /\ DaylightBias \in Int
  BY CalendarAssumption
<1>2. CASE summer
  BY <1>1, <1>2 DEF BiasOf
<1>3. CASE ~summer
  BY <1>1, <1>3 DEF BiasOf
<1> QED BY <1>2, <1>3

LEMMA BiasesAreNumbers ==
  /\ Bias * 60 \in Int /\ (Bias + DaylightBias) * 60 \in Int
  /\ CalendarTypeOK => localtime \in Int
<1>1. Bias \in Int /\ DaylightBias \in Int
  BY CalendarAssumption
<1>2. Bias * 60 \in Int /\ (Bias + DaylightBias) * 60 \in Int
  BY <1>1
<1>3. CalendarTypeOK => localtime = 0 \/ localtime = Bias * 60 \/ localtime = (Bias + DaylightBias) * 60
  BY DEF CalendarTypeOK
<1> QED BY <1>2, <1>3

\* Nothing else is said of a result of these calls, or of none.
LEMMA NothingSaid ==
  ASSUME WinterIsAhead, result.call \notin {"mktime", "strftime", "ctime", "time"}
  PROVE  TimeSurvives
BY DEF TimeSurvives, WinterIsAhead

LEMMA WinterStays ==
  ASSUME WinterIsAhead, UNCHANGED <<used, zone>>
  PROVE  WinterIsAhead'
BY DEF WinterIsAhead, BiasOf

LEMMA CalendarInitInv == CalendarInit => CalendarIInv
<1> SUFFICES ASSUME CalendarInit PROVE CalendarIInv
  OBVIOUS
<1>1. result.call = "none"
  BY DEF CalendarInit, NoResult
<1>2. WinterIsAhead /\ TimeSurvives
  <2>1. zone = 0 /\ used = 0
    BY DEF CalendarInit
  <2>2. WinterIsAhead
    BY <2>1 DEF WinterIsAhead
  <2> QED BY <1>1, <2>2, NothingSaid
<1>3. MadeFresh
  BY <1>1 DEF MadeFresh
<1>4. FieldsTell
  BY DEF CalendarInit, FieldsTell
<1>5. CalendarTypeOK
  <2>1. localtime = 0 /\ isdst = FALSE /\ asked = 0 /\ added = 0 /\ used = 0 /\ zone = 0
    BY DEF CalendarInit
  <2>2. localtime \in {0, Bias * 60, (Bias + DaylightBias) * 60}
    BY <2>1, Zenon
  <2>3. asked \in Int /\ added \in Int /\ used \in Int /\ zone \in Int
    BY <2>1
  <2>4. isdst \in BOOLEAN
    BY <2>1, Zenon
  <2> QED BY <2>2, <2>3, <2>4, Zenon DEF CalendarTypeOK
<1> QED BY <1>2, <1>3, <1>4, <1>5 DEF CalendarIInv

\* Fields are made from the time, less the bias that was used.
LEMMA FieldsMade ==
  ASSUME CalendarIInv, NEW timer \in 0 .. TIME_MAX, NEW local \in BOOLEAN, gmtime_r(timer, local),
         local => \A b \in {localtime, Bias * 60, (Bias + DaylightBias) * 60} : InCalendar(timer - b)
  PROVE  CalendarIInv'
<1> DEFINE summer == IsSummer(SecondsSince1970ToSystemTime(timer, local, localtime))
           by == IF summer THEN BiasOf(summer) ELSE localtime
           seconds == IF local THEN timer - by ELSE timer
<1>1. summer \in BOOLEAN
  BY SummerType
<1>2. by \in {localtime, Bias * 60, (Bias + DaylightBias) * 60} /\ BiasOf(summer) \in {Bias * 60, (Bias + DaylightBias) * 60}
  BY <1>1, BiasType
<1>3. by \in Int /\ timer \in Int
  <2> HIDE DEF by
  <2>1. localtime \in Int /\ Bias * 60 \in Int /\ (Bias + DaylightBias) * 60 \in Int
    BY BiasesAreNumbers DEF CalendarIInv
  <2> QED BY <1>2, <2>1
<1>4. /\ isdst' = summer /\ localtime' = BiasOf(summer)
      /\ tmbuf' = SystemTimeToTm(SystemTime(seconds), summer)
      /\ asked' = timer /\ added' = 0 /\ used' = (IF local THEN by ELSE 0)
      /\ zone' = (IF local THEN BiasOf(summer) ELSE 0)
      /\ result' = [call |-> IF local THEN "localtime" ELSE "gmtime"]
  BY DEF gmtime_r, SetTz, Converted, SecondsSince1970ToSystemTime
<1> HIDE DEF summer
<1>4b. zone' \in Int
  <2>1. BiasOf(summer) \in Int
    BY <1>1, BiasIsNumber
  <2> QED BY <1>4, <2>1
<1>4a. WinterIsAhead'
  <2>1. CASE local /\ ~summer
    <3>1. used' = localtime /\ zone' = BiasOf(FALSE)
      BY <1>1, <1>4, <2>1
    <3>2. localtime = 0 \/ localtime = BiasOf(FALSE) \/ localtime = BiasOf(TRUE)
      BY DEF CalendarIInv, CalendarTypeOK, BiasOf
    <3>3. used' = zone' => zone' - used' = 0
      BY <1>4b, LessItself
    <3>4. used' # zone' => zone' = BiasOf(FALSE) /\ used' \in {0, BiasOf(TRUE)}
      BY <3>1, <3>2
    <3> QED BY <3>3, <3>4 DEF WinterIsAhead, BiasOf
  <2>2. CASE ~(local /\ ~summer)
    <3>1. used' = zone'
      BY <1>1, <1>4, <2>2
    <3>2. zone' - used' = 0
      BY <1>4b, <3>1, LessItself
    <3> QED BY <3>2 DEF WinterIsAhead
  <2> QED BY <2>1, <2>2
<1>5. seconds \in 0 .. TIME_MAX
  BY <1>2 DEF InCalendar
<1> HIDE DEF by
<1>6. seconds = timer - used' /\ used' \in Int
  BY <1>3, <1>4
<1> HIDE DEF seconds
<1>7. IsFresh(tmbuf', seconds)
  BY <1>1, <1>4, <1>5, FieldsOfDate
<1>8. MadeFresh'
  BY <1>4, <1>6, <1>7 DEF MadeFresh, IsFresh, Tm, TmSeconds, TmDays, DaysBefore
<1>9. FieldsTell'
  <2>1. tmbuf' \in Tm /\ TmSeconds(tmbuf') = seconds
    BY <1>7 DEF IsFresh
  <2>2. seconds = asked' + added' - used'
    BY <1>3, <1>4, <1>6
  <2> QED BY <2>1, <2>2 DEF FieldsTell, TmSeconds, TmDays, DaysBefore
<1>10. CalendarTypeOK'
  BY <1>1, <1>2, <1>3, <1>4b, <1>4, <1>6 DEF CalendarTypeOK
<1>11. TimeSurvives'
  <2>1. result'.call \in {"localtime", "gmtime"}
    BY <1>4
  <2> QED BY <1>4a, <2>1 DEF TimeSurvives, WinterIsAhead
<1> QED BY <1>4a, <1>8, <1>9, <1>10, <1>11 DEF CalendarIInv

LEMMA TimeKeeps == ASSUME CalendarIInv, time PROVE CalendarIInv'
<1>1. PICK moment \in Instants :
        /\ SetTz(IsSummer(SystemTime(moment)))
        /\ result' = [call |-> "time", of |-> moment,
                      is |-> SystemTimeToSecondsSince1970(SystemTime(moment))]
  BY DEF time
<1>2. UNCHANGED <<tmbuf, asked, added, used, zone>>
  BY DEF time
<1>3. moment \in 0 .. TIME_MAX
  BY CalendarAssumption
<1> DEFINE st == SystemTime(moment)
<1>4. st \in Dates /\ DateSeconds(st) = moment
  BY <1>3, SystemTimeIs
<1> HIDE DEF st
<1>5. SystemTimeToSecondsSince1970(st) = moment
  <2>1. st.year \in EPOCH_YR .. LastYear + 1
    BY <1>4, CalendarBounds DEF Dates, EPOCH_YR
  <2>2. YearStart[st.year] = DaysBefore(st.year)
    BY <2>1, YearStartIs
  <2> QED BY <1>4, <2>2 DEF SystemTimeToSecondsSince1970, DateSeconds
<1>6. result'.call = "time" /\ result'.is = result'.of
  BY <1>1, <1>5 DEF st
<1>7. WinterIsAhead' /\ TimeSurvives'
  <2>1. WinterIsAhead'
    BY <1>2, WinterStays DEF CalendarIInv
  <2> QED BY <1>6, <2>1 DEF TimeSurvives, WinterIsAhead
<1>8. MadeFresh'
  BY <1>6 DEF MadeFresh
<1>9. FieldsTell'
  BY <1>2 DEF CalendarIInv, FieldsTell, TmSeconds, TmDays, DaysBefore
<1>10. CalendarTypeOK'
  <2>1. isdst' \in BOOLEAN /\ localtime' = BiasOf(isdst')
    BY <1>1, SummerType DEF SetTz
  <2> QED BY <1>2, <2>1, BiasType DEF CalendarIInv, CalendarTypeOK
<1> QED BY <1>7, <1>8, <1>9, <1>10 DEF CalendarIInv

\* What is added to a field is added to the time that the fields tell.
LEMMA EditKeeps == ASSUME CalendarIInv, Edit PROVE CalendarIInv'
<1>1. PICK e \in Edits :
        /\ tmbuf' = [tmbuf EXCEPT ![e.field] = @ + e.by]
        /\ added' = added + e.by * Weight[e.field]
  BY DEF Edit
<1>2. tmbuf # NoResult /\ UNCHANGED <<localtime, isdst, asked, used, zone>> /\ result'.call = "edit"
  BY DEF Edit
<1>3. e.field \in {"sec", "min", "hour", "mday"} /\ e.by \in Int
  BY CalendarAssumption DEF Weight
<1>4. /\ tmbuf \in Tm /\ TmSeconds(tmbuf) = asked + added - used
      /\ asked \in Int /\ added \in Int /\ used \in Int
  BY <1>2 DEF CalendarIInv, FieldsTell, CalendarTypeOK
<1> DEFINE d == DaysBefore(tmbuf.year) + MonthStart(tmbuf.year, tmbuf.mon)
           w == IF e.field = "sec" THEN 1 ELSE IF e.field = "min" THEN 60 ELSE IF e.field = "hour" THEN 3600 ELSE 86400
           by(f) == IF e.field = f THEN e.by ELSE 0
<1>5. d \in Int /\ tmbuf.sec \in Int /\ tmbuf.min \in Int /\ tmbuf.hour \in Int /\ tmbuf.mday \in Int
  <2>1. tmbuf.year \in Years /\ tmbuf.mon \in 0 .. 11
    BY <1>4 DEF Tm
  <2>2. DaysBefore(tmbuf.year) \in Int /\ MonthStart(tmbuf.year, tmbuf.mon) \in Nat
    BY <2>1, MonthGoesBy
  <2> QED BY <1>4, <2>2 DEF Tm
<1>6. /\ tmbuf' \in Tm /\ tmbuf'.year = tmbuf.year /\ tmbuf'.mon = tmbuf.mon
      /\ tmbuf'.sec = tmbuf.sec + by("sec") /\ tmbuf'.min = tmbuf.min + by("min")
      /\ tmbuf'.hour = tmbuf.hour + by("hour") /\ tmbuf'.mday = tmbuf.mday + by("mday")
  <2>1. CASE e.field = "sec"
    BY <1>1, <1>3, <1>4, <1>5, <2>1 DEF Tm
  <2>2. CASE e.field = "min"
    BY <1>1, <1>3, <1>4, <1>5, <2>2 DEF Tm
  <2>3. CASE e.field = "hour"
    BY <1>1, <1>3, <1>4, <1>5, <2>3 DEF Tm
  <2>4. CASE e.field = "mday"
    BY <1>1, <1>3, <1>4, <1>5, <2>4 DEF Tm
  <2> QED BY <1>3, <2>1, <2>2, <2>3, <2>4
<1>7. added' = added + e.by * w
  BY <1>1, <1>3 DEF Weight, SECS_DAY
<1>8. TmSeconds(tmbuf) = (d + tmbuf.mday - 1) * 86400 + tmbuf.hour * 3600 + tmbuf.min * 60 + tmbuf.sec
  BY DEF TmSeconds, TmDays, SECS_DAY
<1>9. TmSeconds(tmbuf)' = (d + tmbuf'.mday - 1) * 86400 + tmbuf'.hour * 3600 + tmbuf'.min * 60 + tmbuf'.sec
  BY <1>6 DEF TmSeconds, TmDays, SECS_DAY, DaysBefore
<1> HIDE DEF d
<1> DEFINE x == e.by
           a == tmbuf.sec
           b == tmbuf.min
           c == tmbuf.hour
           m == tmbuf.mday
           r == TmSeconds(tmbuf)
           s == TmSeconds(tmbuf)'
<1>9a. x \in Int /\ a \in Int /\ b \in Int /\ c \in Int /\ m \in Int /\ d \in Int
  BY <1>3, <1>5
<1>9b. r = (d + m - 1) * 86400 + c * 3600 + b * 60 + a
  BY <1>8
<1>10. x * w \in Int /\ s = r + x * w
  <2>1. CASE e.field = "sec"
    <3>1. w = 1 /\ s = (d + m - 1) * 86400 + c * 3600 + b * 60 + (a + x)
      BY <1>5, <1>6, <1>9, <2>1
    <3> HIDE DEF x, a, b, c, m, r, s, w
    <3> QED BY <1>9a, <1>9b, <3>1
  <2>2. CASE e.field = "min"
    <3>1. w = 60 /\ s = (d + m - 1) * 86400 + c * 3600 + (b + x) * 60 + a
      BY <1>5, <1>6, <1>9, <2>2
    <3> HIDE DEF x, a, b, c, m, r, s, w
    <3> QED BY <1>9a, <1>9b, <3>1
  <2>3. CASE e.field = "hour"
    <3>1. w = 3600 /\ s = (d + m - 1) * 86400 + (c + x) * 3600 + b * 60 + a
      BY <1>5, <1>6, <1>9, <2>3
    <3> HIDE DEF x, a, b, c, m, r, s, w
    <3> QED BY <1>9a, <1>9b, <3>1
  <2>4. CASE e.field = "mday"
    <3>1. w = 86400 /\ s = (d + (m + x) - 1) * 86400 + c * 3600 + b * 60 + a
      BY <1>5, <1>6, <1>9, <2>4
    <3> HIDE DEF x, a, b, c, m, r, s, w
    <3> QED BY <1>9a, <1>9b, <3>1
  <2> HIDE DEF x, a, b, c, m, r, s, w
  <2> QED BY <1>3, <2>1, <2>2, <2>3, <2>4
<1> HIDE DEF w
<1>11. FieldsTell'
  <2>1. TmSeconds(tmbuf)' = asked' + added' - used'
    BY <1>2, <1>4, <1>7, <1>10
  <2> QED BY <1>6, <2>1 DEF FieldsTell, Tm, Years
<1>12. CalendarTypeOK'
  BY <1>2, <1>4, <1>7, <1>10 DEF CalendarIInv, CalendarTypeOK
<1>13. MadeFresh'
  BY <1>2 DEF MadeFresh
<1>14. WinterIsAhead' /\ TimeSurvives'
  <2>1. WinterIsAhead'
    BY <1>2, WinterStays DEF CalendarIInv
  <2> QED BY <1>2, <2>1 DEF TimeSurvives, WinterIsAhead
<1> QED BY <1>11, <1>12, <1>13, <1>14 DEF CalendarIInv

LEMMA strftimeKeeps == ASSUME CalendarIInv, strftime PROVE CalendarIInv'
<1>1. PICK f \in Formats, maxs \in BufferSizes :
        LET pieces == FlattenSeq([i \in DOMAIN f |-> Conversion(f[i], tmbuf)])
        IN  result' = [call |-> "strftime", of |-> result.call, format |-> f, text |-> pieces,
                       is |-> Fitting(pieces, maxs)]
  BY DEF strftime
<1> DEFINE pieces == FlattenSeq([i \in DOMAIN f |-> Conversion(f[i], tmbuf)])
<1>2. /\ result'.call = "strftime" /\ result'.of = result.call /\ result'.format = f
      /\ result'.text = pieces
  BY <1>1
<1>3. UNCHANGED <<localtime, isdst, tmbuf, asked, added, used, zone>>
  BY DEF strftime
<1>3a. WinterIsAhead'
  BY <1>3, WinterStays DEF CalendarIInv
<1>4. CASE result.call = "gmtime" /\ f = DateFormat
  <2>1. IsFresh(tmbuf, asked)
    BY <1>4 DEF CalendarIInv, CalendarTypeOK, MadeFresh
  <2> DEFINE told(c) == Reads(result'.text, DateFormat, c)
  <2>2. /\ asked = SecondsOf(told("Y"), told("b"), told("d"), told("H"), told("M"), told("S"))
        /\ told("a") = ((asked \div SECS_DAY) + 4) % 7
    <3> DEFINE text == result'.text
    <3>1. text = FlattenSeq([i \in DOMAIN DateFormat |-> Conversion(DateFormat[i], tmbuf)])
      BY <1>2, <1>4
    <3> HIDE DEF text
    <3>2. LET r(c) == Reads(text, DateFormat, c)
          IN  /\ asked = SecondsOf(r("Y"), r("b"), r("d"), r("H"), r("M"), r("S"))
              /\ r("a") = ((asked \div SECS_DAY) + 4) % 7
      BY <2>1, <3>1, DateReads
    <3> QED BY <3>2 DEF text
  <2> HIDE DEF pieces
  <2>3. TimeSurvives'
    BY <1>2, <1>3, <1>3a, <2>2 DEF TimeSurvives, WinterIsAhead, SecondsOf, Reads
  <2>4. MadeFresh' /\ FieldsTell' /\ CalendarTypeOK'
    BY <1>2, <1>3 DEF CalendarIInv, MadeFresh, FieldsTell, CalendarTypeOK, TmSeconds, TmDays, DaysBefore
  <2> QED BY <1>3a, <2>3, <2>4 DEF CalendarIInv
<1>5. CASE ~(result.call = "gmtime" /\ f = DateFormat)
  <2>1. TimeSurvives'
    BY <1>2, <1>3a, <1>5 DEF TimeSurvives, WinterIsAhead
  <2>2. MadeFresh' /\ FieldsTell' /\ CalendarTypeOK'
    BY <1>2, <1>3 DEF CalendarIInv, MadeFresh, FieldsTell, CalendarTypeOK, TmSeconds, TmDays, DaysBefore
  <2> QED BY <1>3a, <2>1, <2>2 DEF CalendarIInv
<1> QED BY <1>4, <1>5

LEMMA ctimeKeeps == ASSUME CalendarIInv, ctime PROVE CalendarIInv'
<1> DEFINE text == asctime(tmbuf)
<1>1. /\ result.call = "localtime" /\ UNCHANGED <<localtime, isdst, tmbuf, asked, added, used, zone>>
      /\ result'.call = "ctime" /\ result'.text = text /\ result'.is = Fitting(text, ASC_BUFF_SIZE)
  BY DEF ctime
<1>2. IsFresh(tmbuf, asked - used)
  BY <1>1 DEF CalendarIInv, MadeFresh
<1>3. text = asctime(tmbuf)
  OBVIOUS
<1> HIDE DEF text
<1>4. /\ Fitting(text, ASC_BUFF_SIZE) = ASC_BUFF_SIZE - 1
      /\ asked - used = SecondsOf(text[13].is, text[3].is, text[5].is, text[7].is, text[9].is, text[11].is)
  BY <1>2, <1>3, TextReads
<1>5. WinterIsAhead' /\ TimeSurvives'
  <2>1. WinterIsAhead'
    BY <1>1, WinterStays DEF CalendarIInv
  <2>2. asked' - zone' + (zone' - used') = asked - used
    BY <1>1 DEF CalendarIInv, CalendarTypeOK
  <2> QED BY <1>1, <1>4, <2>1, <2>2 DEF TimeSurvives, WinterIsAhead, SecondsOf
<1>6. MadeFresh' /\ FieldsTell' /\ CalendarTypeOK'
  BY <1>1 DEF CalendarIInv, MadeFresh, FieldsTell, CalendarTypeOK, TmSeconds, TmDays, DaysBefore
<1> QED BY <1>5, <1>6 DEF CalendarIInv

LEMMA DivModInt ==
  ASSUME NEW a \in Int
  PROVE  /\ a % 60 \in Int /\ 0 <= a % 60 /\ a % 60 < 60 /\ a \div 60 \in Int /\ a = 60 * (a \div 60) + (a % 60)
         /\ a % 24 \in Int /\ 0 <= a % 24 /\ a % 24 < 24 /\ a \div 24 \in Int /\ a = 24 * (a \div 24) + (a % 24)
OBVIOUS

\* What mktime carries from the small fields into the larger ones.
LEMMA CarriedIs ==
  ASSUME NEW tm \in Tm
  PROVE  LET c == Carried(tm)
         IN  /\ c.secs \in Nat /\ c.secs < SECS_DAY /\ c.day \in Int /\ c.mon = tm.mon /\ c.year = tm.year
             /\ TmSeconds(tm) = (DaysBefore(tm.year) + MonthStart(tm.year, tm.mon) + c.day) * SECS_DAY + c.secs
<1> DEFINE c == Carried(tm)
           d == DaysBefore(tm.year) + MonthStart(tm.year, tm.mon)
           ss == tm.sec
           min == tm.min + (tm.sec \div 60)
           hour == tm.hour + (min \div 60)
<1>1. /\ tm.sec \in Int /\ tm.min \in Int /\ tm.hour \in Int /\ tm.mday \in Int /\ tm.mon \in 0 .. 11
      /\ tm.year \in Years /\ tm.year \in Int
  BY DEF Tm, Years
<1>2. d \in Int
  <2>1. DaysBefore(tm.year) \in Int /\ MonthStart(tm.year, tm.mon) \in Nat
    BY <1>1, MonthGoesBy
  <2> QED BY <2>1
<1>3. /\ c.secs = ((hour % 24) * 60 + (min % 60)) * 60 + (ss % 60)
      /\ c.day = (hour \div 24) + tm.mday - 1
      /\ c.mon = tm.mon % 12 /\ c.year = tm.year + (tm.mon \div 12)
  BY DEF Carried
<1> HIDE DEF c
<1>4. c.mon = tm.mon /\ c.year = tm.year
  <2>1. tm.mon % 12 = tm.mon /\ tm.mon \div 12 = 0
    BY <1>1
  <2> QED BY <1>1, <1>3, <2>1
<1> DEFINE sm == ss % 60
           sd == ss \div 60
           mm == min % 60
           md == min \div 60
           hm == hour % 24
           hd == hour \div 24
           mi == tm.min
           ho == tm.hour
           da == tm.mday
<1>5. min = mi + sd /\ hour = ho + md
  OBVIOUS
<1>6. c.secs = (hm * 60 + mm) * 60 + sm /\ c.day = hd + da - 1
  BY <1>3
<1>7. TmSeconds(tm) = (d + da - 1) * 86400 + ho * 3600 + mi * 60 + ss
  BY DEF TmSeconds, TmDays, SECS_DAY
<1>8. ss \in Int /\ mi \in Int /\ ho \in Int /\ da \in Int
  BY <1>1
<1> HIDE DEF ss, min, hour, mi, ho, da, d
<1>9. sm \in Int /\ 0 <= sm /\ sm < 60 /\ sd \in Int /\ ss = 60 * sd + sm
  BY <1>8, DivModInt
<1>10. min \in Int
  BY <1>5, <1>8, <1>9
<1>11. mm \in Int /\ 0 <= mm /\ mm < 60 /\ md \in Int /\ min = 60 * md + mm
  BY <1>10, DivModInt
<1>12. hour \in Int
  BY <1>5, <1>8, <1>11
<1>13. hm \in Int /\ 0 <= hm /\ hm < 24 /\ hd \in Int /\ hour = 24 * hd + hm
  BY <1>12, DivModInt
<1> HIDE DEF sm, sd, mm, md, hm, hd
<1> DEFINE s == c.secs
<1>14. s = (hm * 60 + mm) * 60 + sm
  BY <1>6
<1> HIDE DEF s
<1>15. s \in Nat /\ s < 86400
  BY <1>9, <1>11, <1>13, <1>14
<1>16. ho * 3600 + mi * 60 + ss = hd * 86400 + s
  BY <1>5, <1>8, <1>9, <1>11, <1>13, <1>14
<1> DEFINE h == ho * 3600
           m == mi * 60
           e == (d + da - 1) * 86400
           f == hd * 86400
<1>17. h \in Int /\ m \in Int /\ e \in Int /\ f \in Int /\ h + m + ss = f + s
  BY <1>2, <1>8, <1>13, <1>16
<1>18. e + f = (d + (hd + da - 1)) * 86400
  BY <1>2, <1>8, <1>13
<1>19. TmSeconds(tm) = e + h + m + ss
  BY <1>7
<1> HIDE DEF h, m, e, f
<1>20. TmSeconds(tm) = e + f + s
  BY <1>8, <1>15, <1>17, <1>19
<1>21. TmSeconds(tm) = (d + c.day) * 86400 + s /\ c.day \in Int
  BY <1>6, <1>8, <1>13, <1>18, <1>20
<1>22. c.secs \in Nat /\ c.secs < SECS_DAY
  BY <1>15 DEF s, SECS_DAY
<1>23. TmSeconds(tm) = (DaysBefore(tm.year) + MonthStart(tm.year, tm.mon) + c.day) * SECS_DAY + c.secs
  BY <1>21 DEF s, SECS_DAY, d
<1> QED BY <1>4, <1>21, <1>22, <1>23 DEF c

LEMMA DayOverflows ==
  ASSUME NEW days \in Int, NEW secs \in Int, NEW m \in Int, 0 <= secs, secs < 86400,
         (m - secs) \div 86400 < days
  PROVE  secs + days * 86400 > m
<1> DEFINE y == m - secs
           q == y \div 86400
           r == y % 86400
<1>1. y \in Int /\ m = y + secs
  OBVIOUS
<1> HIDE DEF y
<1>2. q \in Int /\ r \in Int /\ 0 <= r /\ r < 86400 /\ y = 86400 * q + r
  BY <1>1
<1>3. q < days
  BY DEF y
<1> HIDE DEF q, r
<1>4. 86400 * q + 86400 <= days * 86400
  BY <1>2, <1>3
<1> QED BY <1>1, <1>2, <1>4

LEMMA RangeOfTime ==
  ASSUME NEW days \in Int, NEW secs \in Nat, secs < SECS_DAY, NEW bias \in Int, days >= 0
  PROVE  /\ Overflows(days, secs, bias) => \/ ~InCalendar(secs + days * SECS_DAY)
                                         \/ ~InCalendar(secs + days * SECS_DAY + bias)
         /\ ~Overflows(days, secs, bias) => secs + days * SECS_DAY + bias # Failed
<1> DEFINE x == secs + days * SECS_DAY
           m == TIME_MAX
<1>1. m \in Nat /\ secs \in Int /\ 0 <= secs /\ secs < 86400 /\ x = secs + days * 86400 /\ x \in Int /\ 0 <= x
  <2>1. m \in Nat
    BY CalendarAssumption
  <2>2. secs \in Nat /\ secs < 86400 /\ x = secs + days * 86400
    BY DEF SECS_DAY
  <2> QED BY <2>1, <2>2
<1>2. (m - secs) \div 86400 < days => x > m
  <2> HIDE DEF x, m
  <2>1. (m - secs) \div 86400 < days => secs + days * 86400 > m
    BY <1>1, DayOverflows
  <2> QED BY <1>1, <2>1
<1>3. Overflows(days, secs, bias) <=>
        \/ (m - secs) \div 86400 < days \/ (bias > 0 /\ m - bias < x) \/ (bias < 0 /\ x < -bias)
  BY DEF Overflows, SECS_DAY
<1>4. InCalendar(x) <=> x \in 0 .. m
  BY DEF InCalendar
<1>5. InCalendar(x + bias) <=> x + bias \in 0 .. m
  BY DEF InCalendar
<1> HIDE DEF x, m
<1>6. Overflows(days, secs, bias) => ~InCalendar(x) \/ ~InCalendar(x + bias)
  BY <1>1, <1>2, <1>3, <1>4, <1>5
<1>7. ~Overflows(days, secs, bias) => x + bias # -1
  BY <1>1, <1>3
<1> QED BY <1>6, <1>7 DEF x, Failed

LEMMA DaysBeforePositive == ASSUME NEW y \in Years PROVE DaysBefore(y) \in Nat
<1> DEFINE n == y - 1
           p == n \div 4
           q == n \div 100
           r == n \div 400
<1>1. n \in Int /\ n >= 1969 /\ y = n + 1
  BY DEF Years, EPOCH_YR
<1>2. DaysBefore(y) = 365 * (y - 1970) + p - q + r - 477
  BY DEF DaysBefore, EPOCH_YR
<1> HIDE DEF n
<1>3. p \in Int /\ q \in Int /\ r \in Int /\ 4 * p + 3 >= n /\ 100 * q <= n /\ 400 * r + 399 >= n
  BY <1>1
<1>4. CASE n = 1969
  <2>1. p = 492 /\ q = 19 /\ r = 4
    BY <1>4
  <2> QED BY <1>1, <1>2, <1>4, <2>1
<1>5. CASE n > 1969
  <2> HIDE DEF p, q, r
  <2> QED BY <1>1, <1>2, <1>3, <1>5
<1> QED BY <1>1, <1>4, <1>5

\* A day and the seconds of it, as mktime leaves them in the fields.
LEMMA FieldsOfDay ==
  ASSUME NEW to, to.day \in 0 .. 30, to.mon \in 0 .. 11, to.year \in Years,
         NEW secs \in Nat, secs < SECS_DAY, NEW wday \in Int, NEW yday \in Int, NEW isdst0 \in BOOLEAN
  PROVE  \A tm :
           tm = [hour |-> secs \div 3600, min |-> (secs \div 60) % 60,
                 sec |-> secs % 60, mday |-> to.day + 1, mon |-> to.mon,
                 year |-> to.year, wday |-> wday, yday |-> yday, isdst |-> isdst0]
           => /\ tm \in Tm
              /\ TmSeconds(tm) = (DaysBefore(to.year) + MonthStart(to.year, to.mon) + to.day) * SECS_DAY + secs
<1>1. /\ secs \div 3600 \in 0 .. 23 /\ (secs \div 60) % 60 \in 0 .. 59 /\ secs % 60 \in 0 .. 59
      /\ secs = (secs \div 3600) * 3600 + ((secs \div 60) % 60) * 60 + (secs % 60)
  BY HourMinuteSecond
<1> DEFINE h == secs \div 3600
           m == (secs \div 60) % 60
           s == secs % 60
<1>2. h \in 0 .. 23 /\ m \in 0 .. 59 /\ s \in 0 .. 59 /\ secs = h * 3600 + m * 60 + s
  BY <1>1
<1> TAKE tm
<1> HAVE tm = [hour |-> h, min |-> m, sec |-> s, mday |-> to.day + 1, mon |-> to.mon,
               year |-> to.year, wday |-> wday, yday |-> yday, isdst |-> isdst0]
<1> HIDE DEF h, m, s
<1>3. tm = [hour |-> h, min |-> m, sec |-> s, mday |-> to.day + 1, mon |-> to.mon,
            year |-> to.year, wday |-> wday, yday |-> yday, isdst |-> isdst0]
  BY Zenon DEF h, m, s
<1>4. tm \in Tm
  <2>1. h \in Int /\ m \in Int /\ s \in Int /\ to.day + 1 \in Int
    BY <1>2
  <2> QED BY <1>3, <2>1 DEF Tm
<1>5. tm.hour = h /\ tm.min = m /\ tm.sec = s /\ tm.mday = to.day + 1 /\ tm.mon = to.mon /\ tm.year = to.year
  BY <1>3
<1> DEFINE d == DaysBefore(to.year) + MonthStart(to.year, to.mon)
<1>6. d \in Int
  <2>1. DaysBefore(to.year) \in Int /\ MonthStart(to.year, to.mon) \in Nat
    BY MonthGoesBy
  <2> QED BY <2>1
<1>7. TmDays(tm) = d + (to.day + 1) - 1
  BY <1>5 DEF TmDays
<1> HIDE DEF d
<1>8. TmDays(tm) = d + to.day /\ (d + to.day) * SECS_DAY \in Int
  BY <1>6, <1>7 DEF SECS_DAY
<1>9. TmSeconds(tm) = (d + to.day) * SECS_DAY + h * 3600 + m * 60 + s
  BY <1>5, <1>8 DEF TmSeconds
<1> DEFINE e == (d + to.day) * SECS_DAY
<1>10. e \in Int /\ TmSeconds(tm) = e + h * 3600 + m * 60 + s
  BY <1>8, <1>9
<1> HIDE DEF e
<1>11. TmSeconds(tm) = e + secs
  BY <1>2, <1>10
<1> QED BY <1>4, <1>11 DEF e, d

LEMMA mktimeKeeps == ASSUME CalendarIInv, mktime PROVE CalendarIInv'
<1> DEFINE tm == tmbuf
           c == Carried(tmbuf)
           to == IF c.day < 0 THEN [day |-> 0, mon |-> 0, year |-> LastYear]
                 ELSE Roll(c.day, c.mon, c.year)
           yday == MonthStart(to.year, to.mon) + to.day
           days == DaysOfYears(to.year) + yday
           Fails(summer) == c.day < 0 \/ to.year < EPOCH_YR \/ Overflows(days, c.secs, BiasOf(summer))
<1>1. PICK summer \in MaybeSummer(TmToSystemTime(tmbuf)) :
        /\ SetTz(summer)
        /\ result' = [call |-> "mktime",
                      is |-> IF Fails(summer) THEN Failed ELSE c.secs + days * SECS_DAY + BiasOf(summer),
                      below |-> c.day < 0]
        /\ tmbuf' = IF c.day < 0 THEN NoResult
                    ELSE [hour |-> c.secs \div 3600, min |-> (c.secs \div 60) % 60,
                          sec |-> c.secs % 60, mday |-> to.day + 1, mon |-> to.mon,
                          year |-> to.year, wday |-> (days + 4) % 7, yday |-> yday,
                          isdst |-> tmbuf.isdst]
  BY DEF mktime
<1>2. tmbuf # NoResult /\ UNCHANGED <<asked, added, used, zone>>
  BY DEF mktime
<1>2a. WinterIsAhead'
  BY <1>2, WinterStays DEF CalendarIInv
<1>2b. zone' \in Int
  BY <1>2 DEF CalendarIInv, CalendarTypeOK
<1> DEFINE bias == BiasOf(summer)
<1>3. summer \in BOOLEAN /\ localtime' = bias /\ isdst' = summer
  BY <1>1, SummerType DEF MaybeSummer, SetTz
<1>4. /\ tm \in Tm /\ TmSeconds(tm) = asked + added - used
      /\ asked \in Int /\ added \in Int /\ used \in Int
  BY <1>2 DEF CalendarIInv, FieldsTell, CalendarTypeOK
<1>5. /\ c.secs \in Nat /\ c.secs < SECS_DAY /\ c.day \in Int /\ c.mon = tm.mon /\ c.year = tm.year
      /\ TmSeconds(tm) = (DaysBefore(tm.year) + MonthStart(tm.year, tm.mon) + c.day) * SECS_DAY + c.secs
  BY <1>4, CarriedIs
<1>6. bias \in Int /\ bias \in {Bias * 60, (Bias + DaylightBias) * 60}
  BY <1>3, BiasType, BiasesAreNumbers
<1>7. /\ result'.call = "mktime" /\ result'.below = (c.day < 0)
      /\ result'.is = IF Fails(summer) THEN Failed ELSE c.secs + days * SECS_DAY + bias
  BY <1>1
<1>8. MadeFresh'
  BY <1>7 DEF MadeFresh
<1>9. CalendarTypeOK'
  <2>1. localtime' \in {0, Bias * 60, (Bias + DaylightBias) * 60}
    BY <1>3, <1>6
  <2> QED BY <1>2, <1>2b, <1>3, <1>4, <2>1 DEF CalendarTypeOK
<1>10. CASE c.day < 0
  <2>1. tmbuf' = NoResult
    BY <1>1, <1>10
  <2>2. Fails(summer)
    BY <1>10
  <2> HIDE DEF Fails
  <2>3. result'.is = Failed
    BY <1>7, <2>2
  <2>4. result'.below
    BY <1>7, <1>10, Zenon
  <2>5. FieldsTell'
    BY <2>1 DEF FieldsTell
  <2>6. TimeSurvives'
    BY <1>2a, <1>7, <2>3, <2>4 DEF TimeSurvives, WinterIsAhead
  <2> QED BY <1>2a, <1>8, <1>9, <2>5, <2>6 DEF CalendarIInv
<1>11. CASE ~(c.day < 0)
  <2>1. to = Roll(c.day, c.mon, c.year) /\ c.day \in Nat /\ c.mon \in 0 .. 11 /\ c.year \in Years
    BY <1>4, <1>5, <1>11 DEF Tm
  <2> HIDE DEF c
  <2>2. /\ to.day \in 0 .. 30 /\ to.mon \in 0 .. 11 /\ to.year \in Years
        /\ DaysBefore(to.year) + MonthStart(to.year, to.mon) + to.day =
           DaysBefore(c.year) + MonthStart(c.year, c.mon) + c.day
    BY <2>1, RollIs
  <2> HIDE DEF to
  <2>3. /\ DaysBefore(to.year) \in Nat /\ MonthStart(to.year, to.mon) \in Nat
        /\ DaysOfYears(to.year) = DaysBefore(to.year)
    BY <2>2, DaysBeforePositive, MonthGoesBy, DaysOfYearsIs
  <2>4. /\ yday \in Int /\ days \in Int /\ days >= 0
        /\ days = DaysBefore(to.year) + MonthStart(to.year, to.mon) + to.day
    BY <2>2, <2>3
  <2>5. ~(to.year < EPOCH_YR)
    BY <2>2 DEF Years, EPOCH_YR
  <2>6. Fails(summer) <=> Overflows(days, c.secs, bias)
    BY <1>11, <2>5
  <2>7. TmSeconds(tm) = days * SECS_DAY + c.secs
    BY <1>5, <2>2, <2>4
  <2>8. tmbuf' \in Tm /\ TmSeconds(tmbuf') = (DaysBefore(to.year) + MonthStart(to.year, to.mon) + to.day) * SECS_DAY + c.secs
    <3>1. tmbuf' = [hour |-> c.secs \div 3600, min |-> (c.secs \div 60) % 60,
                    sec |-> c.secs % 60, mday |-> to.day + 1, mon |-> to.mon,
                    year |-> to.year, wday |-> (days + 4) % 7, yday |-> yday,
                    isdst |-> tm.isdst]
      BY <1>1, <1>11
    <3>2. (days + 4) % 7 \in Int /\ tm.isdst \in BOOLEAN
      BY <1>4, <2>4 DEF Tm
    <3> HIDE DEF days, yday, tm
    <3> QED BY <1>5, <2>2, <2>4, <3>1, <3>2, FieldsOfDay
  <2> HIDE DEF days, yday
  <2>9. FieldsTell'
    <3>1. TmSeconds(tmbuf') = asked' + added' - used'
      BY <1>2, <1>4, <2>4, <2>7, <2>8
    <3> QED BY <2>8, <3>1 DEF FieldsTell, TmSeconds, TmDays, DaysBefore
  <2> HIDE DEF bias, Fails, tm
  <2> DEFINE x == c.secs + days * SECS_DAY
  <2>10. x = asked' + added' - used' /\ x \in Int
    <3>1. days * SECS_DAY \in Int
      BY <2>4 DEF SECS_DAY
    <3> QED BY <1>2, <1>4, <1>5, <2>7, <3>1
  <2>11. /\ Overflows(days, c.secs, bias) => ~InCalendar(x) \/ ~InCalendar(x + bias)
         /\ ~Overflows(days, c.secs, bias) => x + bias # Failed
    BY <1>5, <1>6, <2>4, RangeOfTime
  <2>12. result'.is = IF Overflows(days, c.secs, bias) THEN Failed ELSE x + bias
    BY <1>7, <2>6
  <2> HIDE DEF x
  <2>13. result'.is # Failed => result'.is = asked' + added' + (zone' - used') + (localtime' - zone')
    <3>1. x + bias = asked' + added' + (zone' - used') + (localtime' - zone')
      BY <1>2, <1>2b, <1>3, <1>4, <1>6, <2>10
    <3> QED BY <2>12, <3>1
  <2>13a. x = asked' - zone' + (zone' - used') + added'
    BY <1>2, <1>2b, <1>4, <2>10
  <2>14. result'.is = Failed =>
           \/ ~InCalendar(asked' - zone' + (zone' - used') + added')
           \/ ~InCalendar(asked' - zone' + (zone' - used') + added' + localtime')
    BY <1>3, <2>11, <2>12, <2>13a
  <2>15. TimeSurvives'
    BY <1>2a, <1>7, <2>13, <2>14 DEF TimeSurvives, WinterIsAhead, InCalendar
  <2> QED BY <1>2a, <1>8, <1>9, <2>9, <2>15 DEF CalendarIInv
<1> QED BY <1>10, <1>11

LEMMA CalendarNextInv == CalendarIInv /\ [CalendarNext]_calendarVars => CalendarIInv'
<1> SUFFICES ASSUME CalendarIInv, [CalendarNext]_calendarVars PROVE CalendarIInv'
  OBVIOUS
<1>1. CASE time
  BY <1>1, TimeKeeps
<1>2. CASE gmtime
  <2>1. PICK timer \in Instants : gmtime_r(timer, FALSE)
    BY <1>2 DEF gmtime
  <2>2. timer \in 0 .. TIME_MAX
    BY CalendarAssumption
  <2> QED BY <2>1, <2>2, FieldsMade
<1>3. CASE localtime_r
  <2>1. PICK timer \in Instants :
          /\ \A b \in {localtime, Bias * 60, (Bias + DaylightBias) * 60} : InCalendar(timer - b)
          /\ gmtime_r(timer, TRUE)
    BY <1>3 DEF localtime_r
  <2>2. timer \in 0 .. TIME_MAX
    BY CalendarAssumption
  <2> QED BY <2>1, <2>2, FieldsMade
<1>4. CASE mktime
  BY <1>4, mktimeKeeps
<1>5. CASE Edit
  BY <1>5, EditKeeps
<1>6. CASE strftime
  BY <1>6, strftimeKeeps
<1>7. CASE ctime
  BY <1>7, ctimeKeeps
<1>8. CASE UNCHANGED calendarVars
  <2>1. UNCHANGED <<localtime, isdst, tmbuf, asked, added, used, zone, result>>
    BY <1>8 DEF calendarVars
  <2>2. WinterIsAhead'
    BY <2>1, WinterStays DEF CalendarIInv
  <2>3. CalendarTypeOK' /\ FieldsTell' /\ MadeFresh'
    BY <2>1 DEF CalendarIInv, CalendarTypeOK, FieldsTell, MadeFresh
  <2>4. TimeSurvives'
    BY <2>1 DEF CalendarIInv, TimeSurvives
  <2> QED BY <2>2, <2>3, <2>4 DEF CalendarIInv
<1> QED BY <1>1, <1>2, <1>3, <1>4, <1>5, <1>6, <1>7, <1>8 DEF CalendarNext

\* Whatever zone and days of summer there are, and whatever is added to the
\* fields, the time survives the ways to fields and texts and back, and only a
\* time in winter, first of all or after one in summer, has fields that are not
\* the local time: they are ahead by the bias that was left.
THEOREM TimesSurvive == CalendarSpec => []TimeSurvives
<1>1. CalendarIInv => TimeSurvives
  BY DEF CalendarIInv
<1> QED BY CalendarInitInv, CalendarNextInv, <1>1, PTL DEF CalendarSpec
=============================================================================
