-------------------------- MODULE DisplayBuffers --------------------------
(***************************************************************************)
(* The objects an rfb::win32::SDisplay owns, the device context, the       *)
(* DeviceFrameBuffer, the core and the input handlers, while its           *)
(* operations run into exceptions half way and are tried again.            *)
(*                                                                         *)
(* Windows calls fail as they like; an exception leaves each pointer as    *)
(* the code had it at that moment.  Deleting or using an object a second   *)
(* time ends the process ("crashed").  The screen's size is that of the    *)
(* display at the moment; it may change between two operations.            *)
(***************************************************************************)
EXTENDS Naturals, Outcomes

CONSTANTS
  Widths,      \* widths the display may have
  MaxFailures  \* bound on the failures that are counted

ASSUME DisplayAssumption == Widths \subseteq Nat \ {0} /\ MaxFailures \in Nat \ {0, 1}

VARIABLES
  width,       \* of the display, as the operating system has it
  server,      \* SDisplay::server: does it point to the VNCServer
  core,        \* SDisplay::core: "null", "live" or "freed", as for pb, device
  pb,
  device,
  inputs,      \* are there SDisplay::ptr and kbd
  screenWidth, \* width of SDisplay::screenRect
  pbWidth,     \* width of pb
  clipWidth,   \* width of clipper's clip rectangle
  coreWidth,   \* width of the core's screenRect
  serverPb,    \* VNCServerST::pb: "null", "current" (is SDisplay::pb) or "freed"
  desktopStarted, \* VNCServerST::desktopStarted
  failures,    \* operations that have thrown since the last stopCore()
  crashed

objectVars == <<server, core, pb, device, inputs>>
sizeVars   == <<screenWidth, pbWidth, clipWidth, coreWidth>>
displayVars == <<width, objectVars, sizeVars, serverPb, desktopStarted, failures, crashed>>

Pointer == {"null", "live", "freed"}

DisplayInit ==
  /\ width \in Widths
  /\ server = FALSE
  /\ core = "null" /\ pb = "null" /\ device = "null" /\ inputs = FALSE
  /\ screenWidth = 0 /\ pbWidth = 0 /\ clipWidth = 0 /\ coreWidth = 0
  /\ serverPb = "null"
  /\ desktopStarted = FALSE
  /\ failures = 0
  /\ crashed = FALSE

\* The display's objects as one record, on which the operations work.
Now == [server |-> server, core |-> core, pb |-> pb, device |-> device, inputs |-> inputs,
        screenWidth |-> screenWidth, pbWidth |-> pbWidth, clipWidth |-> clipWidth,
        coreWidth |-> coreWidth, serverPb |-> serverPb, crashed |-> crashed]

Become(d) ==
  /\ server' = d.server /\ core' = d.core /\ pb' = d.pb /\ device' = d.device
  /\ inputs' = d.inputs
  /\ screenWidth' = d.screenWidth /\ pbWidth' = d.pbWidth
  /\ clipWidth' = d.clipWidth /\ coreWidth' = d.coreWidth
  /\ serverPb' = d.serverPb
  /\ crashed' = d.crashed

\* delete d.f: nothing is done for a null pointer.
Deleted(d, f) ==
  [d EXCEPT ![f] = IF @ = "null" THEN @ ELSE "freed", !.crashed = @ \/ d[f] = "freed"]

\* DeviceFrameBuffer: its DIB section has an even width.
EvenWidth(w) == w - (w % 2)

-----------------------------------------------------------------------------
(* The operations, as sets of outcomes.                                    *)

\* DeviceContext::getPF and the DeviceFrameBuffer's constructor with its DIB
\* section: all that it has made is gone when one of its steps throws.
NewBuffer(d, w) ==
  {Throws(d),
   Returns([d EXCEPT !.pb = "live", !.device = "live", !.screenWidth = w, !.pbWidth = EvenWidth(w)])}

\* Once the buffer is there it is filled, and only then told to the others;
\* its first grabbing may throw.
PublishBuffer(d) ==
  {Throws(d),
   Returns([d EXCEPT !.clipWidth = d.pbWidth,
                     !.coreWidth = IF d.core = "null" THEN @ ELSE d.screenWidth,
                     !.crashed = @ \/ d.core = "freed",
                     !.serverPb = IF d.server THEN "current" ELSE @])}

\* The old buffer is deleted; the server that still has it is not told.
DeleteOldBuffer(d) ==
  LET e == Deleted(Deleted(d, "pb"), "device")
  IN [e EXCEPT !.serverPb = IF @ = "current" THEN "freed" ELSE @]

\* SDisplay::recreatePixelBuffer.  Opening the device may throw before
\* anything is changed; comparing with the old buffer uses it.
recreatePixelBuffer(d, w, force) ==
  LET unchanged == ~force /\ d.pb # "null" /\ w = d.screenWidth
      compared == [d EXCEPT !.crashed = @ \/ (unchanged /\ d.pb = "freed")]
  IN {Throws(d)}
       \cup IF unchanged THEN {Returns(compared)}
            ELSE Then(NewBuffer(DeleteOldBuffer(compared), w), PublishBuffer)

\* SDisplay::stopCore: pb and device go with the core.
stopCore(d) ==
  LET e == Deleted(Deleted(Deleted(d, "core"), "pb"), "device")
  IN [e EXCEPT !.core = "null", !.pb = "null", !.device = "null", !.inputs = FALSE,
               !.serverPb = IF @ = "current" THEN "freed" ELSE @]

\* Mutant: a core that cannot start its timer is deleted, not forgotten.
NewCoreDangling(d) ==
  {Throws(d), Throws([d EXCEPT !.core = "freed"]),
   Returns([d EXCEPT !.core = "live", !.coreWidth = d.screenWidth, !.inputs = TRUE])}

\* The second half of SDisplay::startCore: the core's window, its timer, then
\* the input handlers.
NewCore(d) ==
  {Throws(d),
   Returns([d EXCEPT !.core = "live", !.coreWidth = d.screenWidth, !.inputs = TRUE])}

startCore(d, w) == Then(recreatePixelBuffer(d, w, TRUE), NewCore)

-----------------------------------------------------------------------------
(* What the server does with its desktop.                                  *)

Counted(ok) ==
  failures' = IF ok \/ failures = MaxFailures THEN failures ELSE failures + 1

\* VNCServerST::startDesktop, SDisplay::start.
Start ==
  /\ ~crashed /\ ~desktopStarted
  /\ \E o \in startCore([Now EXCEPT !.server = TRUE], width) :
       /\ Become(o.after)
       /\ desktopStarted' = o.ok
       /\ Counted(o.ok)
  /\ UNCHANGED width

\* VNCServerST::stopDesktop by way of removeSocket, SDisplay::stop: the server
\* forgets the buffer first.
Stop ==
  /\ ~crashed /\ desktopStarted
  /\ Become([stopCore([Now EXCEPT !.serverPb = "null"]) EXCEPT !.server = FALSE])
  /\ desktopStarted' = FALSE
  /\ failures' = 0
  /\ UNCHANGED width

\* SDisplay::getFbSize for the page with the viewer: without a core a buffer
\* is made and deleted again, unless an exception comes between.
GetFbSize ==
  /\ ~crashed
  /\ IF core # "null"
     THEN UNCHANGED <<objectVars, sizeVars, serverPb, failures>> /\ crashed' = (pb = "freed")
     ELSE \E o \in recreatePixelBuffer(Now, width, FALSE) :
            /\ Become(IF o.ok THEN stopCore(o.after) ELSE o.after)
            /\ IF o.ok /\ ~o.after.crashed THEN failures' = 0 ELSE Counted(o.ok)
  /\ UNCHANGED <<width, desktopStarted>>

\* SDisplay::processEvent and the events of clients use the core, the buffer,
\* and the input handlers.
UseDesktop ==
  /\ ~crashed /\ desktopStarted
  /\ crashed' = (core # "live" \/ pb # "live" \/ ~inputs \/ serverPb # "current")
  /\ UNCHANGED <<width, objectVars, sizeVars, serverPb, desktopStarted, failures>>

\* The display is rotated, or another one chosen.
Resize ==
  /\ ~crashed
  /\ width' \in Widths \ {width}
  /\ UNCHANGED <<objectVars, sizeVars, serverPb, desktopStarted, failures, crashed>>

DisplayNext == Start \/ Stop \/ GetFbSize \/ UseDesktop \/ Resize

DisplaySpec == DisplayInit /\ [][DisplayNext]_displayVars

-----------------------------------------------------------------------------
(* Properties.                                                             *)

\* No object is deleted or used after it was deleted unless two operations
\* have thrown with no stopCore() between them: one that leaves a buffer
\* without a core, and one that deletes that buffer and then fails to make the
\* next.
SurvivesOneFailure == crashed => failures >= 2

\* A started desktop is whole, whatever failed before: core, buffer, device
\* and input handlers exist, the server has this very buffer, and the clipper
\* and the core have its size and the screen's of the time it was made.
StartedIsWhole ==
  desktopStarted /\ ~crashed =>
    /\ core = "live" /\ pb = "live" /\ device = "live" /\ inputs /\ server
    /\ serverPb = "current"
    /\ clipWidth = EvenWidth(screenWidth) /\ coreWidth = screenWidth

\* Whatever fails once, the desktop is whole or stopped, and nothing that was
\* deleted is used.
DesktopIsWhole == SurvivesOneFailure /\ StartedIsWhole
=============================================================================
