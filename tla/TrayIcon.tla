----------------------------- MODULE TrayIcon -----------------------------
(***************************************************************************)
(* winvnc::STrayIconThread, an rfb::Thread: the thread that shows the tray *)
(* icon, and the host thread that makes it, gives it tool-tips and deletes *)
(* it.  The two share flags without a lock and a tool-tip with one, and    *)
(* talk through the thread's queue of Windows messages.                    *)
(*                                                                         *)
(* The commands of the icon's menu are in module CommandQueue.  Here the   *)
(* icon's window may be told to close at any time, and is made again.      *)
(***************************************************************************)
EXTENDS Naturals, Sequences

CONSTANTS
  MaxTips,  \* bound on the tool-tips that are set
  MaxCloses \* bound on the WM_CLOSE that are sent

ASSUME TrayAssumption == MaxTips \in Nat /\ MaxCloses \in Nat

VARIABLES
  owner,        \* where the host thread is, to which the icon belongs
  tray,         \* where the icon's thread is
  threadState,  \* Thread::state
  joinWakes,    \* Thread::sig: "none" waits, "waiting", or "woken"
  runTrayIcon,  \* the members of STrayIconThread
  windowHandle, \*   is it not null
  toolTip,      \*   number of the tool-tip, 0 if null
  membersAlive, \*   have lock and toolTip not been destroyed
  hasQueue,     \* does the thread have a message queue yet
  hasWindow,    \* is there a window of an STrayIcon
  messages,     \* in the thread's queue, oldest first
  quitting,     \* PostQuitMessage was called
  shownTip,     \* the tool-tip that this icon shows, 0 if none
  tips, closes  \* how often, for the bounds

ownerVars   == <<owner, joinWakes>>
flagVars   == <<runTrayIcon, windowHandle>>
queueVars  == <<hasQueue, hasWindow, messages, quitting>>
memberVars == <<toolTip, membersAlive>>
trayVars   == <<ownerVars, tray, threadState, flagVars, queueVars, memberVars, shownTip, tips, closes>>

TrayInit ==
  /\ owner = "new"
  /\ tray = "suspended"
  /\ threadState = "ThreadCreated"
  /\ joinWakes = "none"
  /\ runTrayIcon = TRUE /\ windowHandle = FALSE
  /\ toolTip = 0 /\ membersAlive = TRUE
  /\ hasQueue = FALSE /\ hasWindow = FALSE
  /\ messages = <<>> /\ quitting = FALSE
  /\ shownTip = 0
  /\ tips = 0 /\ closes = 0

-----------------------------------------------------------------------------
(* The icon's thread.                                                      *)

TrayUnchanged == UNCHANGED <<owner, threadState, joinWakes, runTrayIcon, memberVars, tips, closes>>

\* STrayIconThread::run, the outer loop.
CheckOuter ==
  /\ tray = "outer"
  /\ tray' = IF runTrayIcon THEN "create" ELSE "returned"
  /\ UNCHANGED <<windowHandle, queueVars, shownTip>>
  /\ TrayUnchanged

\* STrayIcon's constructor; a thread with a window has a message queue.
CreateIcon ==
  /\ tray = "create"
  /\ hasQueue' = TRUE /\ hasWindow' = TRUE
  /\ messages' = messages \o <<"WM_TIMER", "WM_SET_TOOLTIP">>
  /\ tray' = "handle"
  /\ UNCHANGED <<windowHandle, quitting, shownTip>>
  /\ TrayUnchanged

PublishHandle ==
  /\ tray = "handle"
  /\ windowHandle' = TRUE
  /\ tray' = "inner"
  /\ UNCHANGED <<queueVars, shownTip>>
  /\ TrayUnchanged

CheckInner ==
  /\ tray = "inner"
  /\ tray' = IF runTrayIcon THEN "get" ELSE "leave"
  /\ UNCHANGED <<windowHandle, queueVars, shownTip>>
  /\ TrayUnchanged

\* GetMessage and DispatchMessage.  A WM_QUIT that was posted has its place in
\* the queue; that of PostQuitMessage comes when the queue is empty.
GetMessage ==
  /\ tray = "get"
  /\ \/ /\ messages # <<>>
        /\ messages' = Tail(messages)
        /\ tray' = CASE Head(messages) = "WM_QUIT" -> "leave"
                     [] Head(messages) = "WM_SET_TOOLTIP" -> "tip"
                     [] OTHER -> "inner"
        /\ quitting' = (quitting \/ Head(messages) = "WM_CLOSE")
     \/ /\ messages = <<>> /\ quitting
        /\ quitting' = FALSE
        /\ tray' = "leave"
        /\ UNCHANGED messages
  /\ UNCHANGED <<windowHandle, hasQueue, hasWindow, shownTip>>
  /\ TrayUnchanged

\* STrayIcon::processMessage of WM_SET_TOOLTIP, under the lock.
ShowToolTip ==
  /\ tray = "tip"
  /\ owner # "post"
  /\ shownTip' = IF toolTip # 0 THEN toolTip ELSE shownTip
  /\ tray' = "inner"
  /\ UNCHANGED <<windowHandle, queueVars>>
  /\ TrayUnchanged

ForgetHandle ==
  /\ tray = "leave"
  /\ windowHandle' = FALSE
  /\ tray' = "destroy"
  /\ UNCHANGED <<queueVars, shownTip>>
  /\ TrayUnchanged

\* STrayIcon's destructor: the window's messages go with it.
DestroyIcon ==
  /\ tray = "destroy"
  /\ hasWindow' = FALSE
  /\ messages' = SelectSeq(messages, LAMBDA m : m = "WM_QUIT")
  /\ shownTip' = 0
  /\ tray' = "outer"
  /\ UNCHANGED <<windowHandle, hasQueue, quitting>>
  /\ TrayUnchanged

\* Mutant: the thread's condition is not signalled.
StopsSilently ==
  /\ tray = "returned"
  /\ tray' = "exited"
  /\ threadState' = "ThreadStopped"
  /\ UNCHANGED <<owner, joinWakes, flagVars, queueVars, memberVars, shownTip, tips, closes>>

\* Thread::threadProc, once run() has returned.
ThreadStops ==
  /\ tray = "returned"
  /\ tray' = "exited"
  /\ threadState' = "ThreadStopped"
  /\ joinWakes' = IF joinWakes = "waiting" THEN "woken" ELSE joinWakes
  /\ UNCHANGED <<owner, flagVars, queueVars, memberVars, shownTip, tips, closes>>

TrayStep ==
  \/ CheckOuter \/ CreateIcon \/ PublishHandle \/ CheckInner \/ GetMessage
  \/ ShowToolTip \/ ForgetHandle \/ DestroyIcon \/ ThreadStops

-----------------------------------------------------------------------------
(* The host thread.                                                        *)

OwnerUnchanged == UNCHANGED <<windowHandle, hasQueue, hasWindow, quitting, shownTip, closes>>

\* The constructor ends in Thread::start.
StartThread ==
  /\ owner = "new"
  /\ owner' = "idle"
  /\ threadState' = "ThreadStarted"
  /\ tray' = "outer"
  /\ UNCHANGED <<joinWakes, runTrayIcon, memberVars, messages, tips>>
  /\ OwnerUnchanged

\* STrayIconThread::setToolTip: it does nothing if there is no window.
setToolTip == owner' = IF windowHandle THEN "store" ELSE "idle"

\* The listener's port or an address of the machine has changed: the tip with
\* the addresses, one more than the last.
processAddressChange ==
  /\ owner = "idle" /\ tips < MaxTips
  /\ tips' = tips + 1
  /\ setToolTip
  /\ UNCHANGED <<tray, threadState, joinWakes, runTrayIcon, memberVars, messages>>
  /\ OwnerUnchanged

StoreToolTip ==
  /\ owner = "store"
  /\ toolTip' = tips
  /\ owner' = "post"
  /\ UNCHANGED <<tray, threadState, joinWakes, runTrayIcon, membersAlive, messages, tips>>
  /\ OwnerUnchanged

\* Still under the lock, the handle is read again; a message for no window
\* goes to the caller.
PostToolTip ==
  /\ owner = "post"
  /\ messages' = IF windowHandle /\ hasWindow THEN Append(messages, "WM_SET_TOOLTIP") ELSE messages
  /\ owner' = "idle"
  /\ UNCHANGED <<tray, threadState, joinWakes, runTrayIcon, memberVars, tips>>
  /\ OwnerUnchanged

\* ~STrayIconThread: the flag, WM_QUIT if there is a queue to post it to, the
\* members, and then ~Thread with its join().
ClearFlag ==
  /\ owner = "idle"
  /\ runTrayIcon' = FALSE
  /\ owner' = "quit"
  /\ UNCHANGED <<tray, threadState, joinWakes, memberVars, messages, tips>>
  /\ OwnerUnchanged

PostQuit ==
  /\ owner = "quit"
  /\ messages' = IF hasQueue THEN Append(messages, "WM_QUIT") ELSE messages
  /\ owner' = "members"
  /\ UNCHANGED <<tray, threadState, joinWakes, runTrayIcon, memberVars, tips>>
  /\ OwnerUnchanged

DestroyMembers ==
  /\ owner = "members"
  /\ membersAlive' = FALSE
  /\ owner' = "join"
  /\ UNCHANGED <<tray, threadState, joinWakes, runTrayIcon, toolTip, messages, tips>>
  /\ OwnerUnchanged

\* Thread::join, whose loop waits while the thread has not stopped.
JoinThread ==
  /\ owner = "join" /\ joinWakes # "waiting"
  /\ IF threadState = "ThreadStarted"
     THEN joinWakes' = "waiting" /\ UNCHANGED <<owner, threadState>>
     ELSE owner' = "joined" /\ threadState' = "ThreadJoined" /\ UNCHANGED joinWakes
  /\ UNCHANGED <<tray, runTrayIcon, memberVars, messages, tips>>
  /\ OwnerUnchanged

OwnerStep ==
  \/ StartThread \/ StoreToolTip \/ PostToolTip \/ PostQuit \/ DestroyMembers \/ JoinThread

\* WM_CLOSE is posted to the icon's window, or WM_TIMER is due.
Post(m) ==
  /\ hasWindow /\ closes < MaxCloses
  /\ closes' = closes + 1
  /\ messages' = Append(messages, m)
  /\ UNCHANGED <<ownerVars, tray, threadState, flagVars, hasQueue, hasWindow, quitting,
                 memberVars, shownTip, tips>>

TrayNext ==
  \/ TrayStep
  \/ OwnerStep
  \/ processAddressChange
  \/ ClearFlag
  \/ \E m \in {"WM_CLOSE", "WM_TIMER"} : Post(m)

TraySpec == TrayInit /\ [][TrayNext]_trayVars

\* Both threads run.
TrayFairness == WF_trayVars(TrayStep) /\ WF_trayVars(OwnerStep)

-----------------------------------------------------------------------------
(* Properties.                                                             *)

\* The destructor comes to its end: the thread ends wherever it was when it
\* was told to.
DestructorReturns == owner \in {"quit", "members", "join"} ~> owner = "joined"
=============================================================================
