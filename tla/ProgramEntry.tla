---------------------------- MODULE ProgramEntry ----------------------------
(***************************************************************************)
(* winvnc's _tWinMain in several processes: the one that serves, others    *)
(* that are started while it does, and those that only tell it something   *)
(* (-connect, -disconnect, -kill).  They find the server by the title of   *)
(* the window of its tray icon, and keep out of its way by a named mutex   *)
(* of the operating system that exists as long as somebody has a handle.   *)
(*                                                                         *)
(* How the server performs what it is told is in module CommandQueue, its  *)
(* icon in module TrayIcon.                                                *)
(***************************************************************************)
CONSTANTS
  Instances,    \* processes of the program
  CommandLines  \* the options of command lines: sets of "connect", ...

ASSUME EntryAssumption == CommandLines \subseteq SUBSET {"connect", "disconnect", "kill"}

VARIABLES
  place,     \* where a process is in _tWinMain
  options,   \* those of its command line that have not been looked at
  runServer, \* the static variable of a process
  handles,   \* processes with a handle to the mutex VNC_is_Running
  windows,   \* processes whose window has the title winvnc::IPC_Interface
  found,     \* the process of the window that FindWindow gave
  stopping,  \* servers whose stop() was called
  reported   \* commands that a process reported to have failed

entryVars == <<place, options, runServer, handles, windows, found, stopping, reported>>

EntryInit ==
  /\ place = [p \in Instances |-> "none"]
  /\ options = [p \in Instances |-> {}]
  /\ runServer = [p \in Instances |-> TRUE]
  /\ handles = {} /\ windows = {} /\ stopping = {}
  /\ found = [p \in Instances |-> p]
  /\ reported = [p \in Instances |-> {}]

Goto(p, where) == place' = [place EXCEPT ![p] = where]

Launch(p, line) ==
  /\ place[p] = "none"
  /\ Goto(p, "options")
  /\ options' = [options EXCEPT ![p] = line]
  /\ UNCHANGED <<runServer, handles, windows, found, stopping, reported>>

\* -connect is looked at first, then -disconnect, then -kill.
NextOption(p, o) ==
  /\ o \in options[p]
  /\ o = "disconnect" => "connect" \notin options[p]
  /\ o = "kill" => options[p] = {"kill"}

\* An option makes the process no server.  Without a window to tell it to, an
\* exception ends the process, whatever other options there are.
FindServer(p, o) ==
  /\ place[p] = "options" /\ NextOption(p, o)
  /\ runServer' = [runServer EXCEPT ![p] = FALSE]
  /\ IF windows = {}
     THEN /\ Goto(p, "ended")
          /\ reported' = [reported EXCEPT ![p] = @ \cup {o}]
          /\ UNCHANGED found
     ELSE /\ Goto(p, o)
          /\ \E w \in windows : found' = [found EXCEPT ![p] = w]
          /\ UNCHANGED reported
  /\ UNCHANGED <<options, handles, windows, stopping>>

\* STrayIcon::processMessage of WM_COPYDATA: what it answers with.  -kill's
\* answer is that of DefWindowProc, which is zero.
Answers(o) == IF o = "connect" THEN BOOLEAN ELSE {o = "disconnect"}

\* SendMessage to the window that was found, if that is still there.
SendCommand(p, o) ==
  /\ place[p] = o
  /\ options' = [options EXCEPT ![p] = @ \ {o}]
  /\ Goto(p, "options")
  /\ \E success \in IF found[p] \in windows THEN Answers(o) ELSE {FALSE} :
       reported' = [reported EXCEPT ![p] = IF success THEN @ ELSE @ \cup {o}]
  /\ stopping' = IF o = "kill" /\ found[p] \in windows THEN stopping \cup {found[p]} ELSE stopping
  /\ UNCHANGED <<runServer, handles, windows, found>>

\* CreateMutex gives a handle in any case, and tells whether the mutex was there.
CreateMutex(p) ==
  /\ place[p] = "options" /\ options[p] = {}
  /\ IF runServer[p]
     THEN /\ handles' = handles \cup {p}
          /\ Goto(p, IF handles = {} THEN "construct" ELSE "close")
     ELSE Goto(p, "ended") /\ UNCHANGED handles
  /\ UNCHANGED <<options, runServer, windows, found, stopping, reported>>

\* VNCServerWin32's constructor may throw.
ConstructServer(p) ==
  /\ place[p] = "construct"
  /\ \/ Goto(p, "run") \/ Goto(p, "close")
  /\ UNCHANGED <<options, runServer, handles, windows, found, stopping, reported>>

\* run(): the icon's thread makes its window, and another one when the first
\* was told to close.
ShowIcon(p) ==
  /\ place[p] = "run" /\ p \notin windows
  /\ windows' = windows \cup {p}
  /\ UNCHANGED <<place, options, runServer, handles, found, stopping, reported>>

LoseIcon(p) ==
  /\ place[p] \in {"run", "destroy"} /\ p \in windows
  /\ windows' = windows \ {p}
  /\ UNCHANGED <<place, options, runServer, handles, found, stopping, reported>>

\* run() returns, because it was told to stop or by itself.
RunReturns(p) ==
  /\ place[p] = "run"
  /\ Goto(p, "destroy")
  /\ UNCHANGED <<options, runServer, handles, windows, found, stopping, reported>>

\* What was declared last is destroyed first: the server, with its icon ...
DestroyServer(p) ==
  /\ place[p] = "destroy" /\ p \notin windows
  /\ Goto(p, "close")
  /\ UNCHANGED <<options, runServer, handles, windows, found, stopping, reported>>

\* Mutant: a process that found the mutex closes it for everybody.
CloseForAll(p) ==
  /\ place[p] = "close"
  /\ handles' = {}
  /\ Goto(p, "ended")
  /\ UNCHANGED <<options, runServer, windows, found, stopping, reported>>

\* ... and then the handle, that of a process which is no server as well.
CloseHandle(p) ==
  /\ place[p] = "close"
  /\ handles' = handles \ {p}
  /\ Goto(p, "ended")
  /\ UNCHANGED <<options, runServer, windows, found, stopping, reported>>

EntryNext ==
  \E p \in Instances :
    \/ \E line \in CommandLines : Launch(p, line)
    \/ \E o \in {"connect", "disconnect", "kill"} : FindServer(p, o) \/ SendCommand(p, o)
    \/ CreateMutex(p) \/ ConstructServer(p) \/ ShowIcon(p) \/ LoseIcon(p) \/ RunReturns(p)
    \/ DestroyServer(p) \/ CloseHandle(p)

EntrySpec == EntryInit /\ [][EntryNext]_entryVars

-----------------------------------------------------------------------------
(* Properties.                                                             *)

\* Where a process has a server that is made, runs or is being destroyed.
HasServer(p) == place[p] \in {"construct", "run", "destroy"}

\* There is one server at a time, from before it is made until it is gone, and
\* none beside one that was told to stop; so a process that tells a server
\* something has found the only one there is, and one that only told something
\* never becomes a server itself.
OneServer ==
  /\ \A p, q \in Instances : HasServer(p) /\ HasServer(q) => p = q
  /\ \A p \in Instances : HasServer(p) => runServer[p]
  /\ \A p, q \in windows : p = q
=============================================================================
