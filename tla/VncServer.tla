----------------------------- MODULE VncServer -----------------------------
(***************************************************************************)
(* The life of the connections of one VNC server: rfb::VNCServerST, its    *)
(* per-client objects rfb::VNCSConnectionST and their protocol machine     *)
(* rfb::SConnection, driven by the host thread's loop in                   *)
(* rfb::win32::SocketManager / EventManager, together with the part of     *)
(* rfb::win32::SDisplay that starts, restarts and stops the desktop and    *)
(* the Accept/Reject dialog of winvnc::VNCServerWin32.                     *)
(*                                                                         *)
(* A socket stands for the address of a network::Socket: once the socket   *)
(* manager has deleted it, a later connection may be given it again.       *)
(* What the clients see of the screen is module UpdateFlow's business, the *)
(* hand-over of commands between threads module CommandQueue's.            *)
(***************************************************************************)
EXTENDS Naturals

CONSTANTS
  Socks,     \* socket addresses
  NoSock,    \* the null pointer
  Keys,      \* key symbols, after remapping, ISO_Left_Tab aside
  Policies,  \* the parameter settings the server may be started with
  CoreMayFail \* may SDisplayCore::flushUpdates throw: the interface lets it,
              \* SDisplayCorePolling, the only core built, does not

ASSUME SocksAssumption == NoSock \notin Socks
ASSUME PoliciesAssumption ==
  Policies \subseteq [alwaysShared : BOOLEAN, neverShared : BOOLEAN,
                      disconnectClients : BOOLEAN, queryConnect : BOOLEAN]
ASSUME CoreMayFailAssumption == CoreMayFail \in BOOLEAN

VARIABLES
  policy,          \* rfb::Server's AlwaysShared, NeverShared, ...
  state,           \* state_ of the socket's client; "none": no such socket,
                   \* "rejected": a member of closingSockets
  reverse,         \* reverseConnection of each client
  pressed,         \* pressedKeys of each client
  pointerClient,   \* the client that holds a pointer button down
  held,            \* the keys the operating system believes are down
  desktopStarted,  \* VNCServerST::desktopStarted
  pb,              \* the buffer VNCServerST::pb points to
  core,            \* does SDisplay have a running core, and a keyboard
  starts,          \* SDesktop::start() calls since the last stop(), capped
  dialogSock,      \* QueryConnectDialog::sock, NoSock when there is no dialog
  dialogLive,      \* is the connection the dialog was opened for still there
  answer,          \* what the dialog's user has said
  loop,            \* where the host thread is in EventManager::getMessage
  cur              \* the socket whose event is being processed

serverVars  == <<policy, state, reverse>>
inputVars   == <<pressed, pointerClient, held>>
desktopVars == <<desktopStarted, pb, core, starts>>
dialogVars  == <<dialogSock, dialogLive, answer>>
loopVars    == <<loop, cur>>
vars == <<serverVars, inputVars, desktopVars, dialogVars, loopVars>>

PreAuth  == {"version", "sectype", "security"}
Shutdown == {"closing", "rejected"}
State    == {"none", "querying", "initialisation", "normal"}
              \cup PreAuth \cup Shutdown

authenticated(st) == st \in {"initialisation", "normal"}

Clients == {s \in Socks : state[s] \notin {"none", "rejected"}}

\* Mutants: count only the clients in the session; count every client.
OthersInSession(s) == \E t \in Socks \ {s} : state[t] = "normal"
\* Somebody other than s has authenticated: authClientCount() > 0 while s is
\* not yet authenticated, authClientCount() > 1 once it is.
OthersAuthenticated(s) == \E t \in Socks \ {s} : authenticated(state[t])

TypeOK ==
  /\ policy \in Policies
  /\ state \in [Socks -> State]
  /\ reverse \in [Socks -> BOOLEAN]
  /\ pressed \in [Socks -> SUBSET Keys]
  /\ pointerClient \in Socks \cup {NoSock}
  /\ held \in SUBSET Keys
  /\ desktopStarted \in BOOLEAN
  /\ pb \in {"null", "live", "freed"}
  /\ core \in {"stopped", "running"}
  /\ starts \in 0..2
  /\ dialogSock \in Socks \cup {NoSock}
  /\ dialogLive \in BOOLEAN
  /\ answer \in {"none", "accept", "reject"}
  /\ loop \in {"ready", "served", "timeouts", "sweep", "exit"}
  /\ cur \in Socks \cup {NoSock}

Init ==
  /\ policy \in Policies
  /\ state = [s \in Socks |-> "none"]
  /\ reverse = [s \in Socks |-> FALSE]
  /\ pressed = [s \in Socks |-> {}]
  /\ pointerClient = NoSock
  /\ held = {}
  /\ desktopStarted = FALSE
  /\ pb = "null"
  /\ core = "stopped"
  /\ starts = 0
  /\ dialogSock = NoSock
  /\ dialogLive = FALSE
  /\ answer = "none"
  /\ loop = "timeouts"
  /\ cur = NoSock

-----------------------------------------------------------------------------
(* Callees: what one call does to the variables it may change.             *)

\* VNCSConnectionST::close(): the socket is shut down and marked, nothing is
\* deleted.  The client may already be closing ("second close").
Close(S) == [s \in Socks |-> IF s \in S THEN "closing" ELSE state[s]]

\* SDesktop::start() as SDisplay implements it: it fails in
\* recreatePixelBuffer() before the server has a new buffer, or in the
\* creation of the core after it has one, or it succeeds.
SDisplay_start(ok) ==
  /\ starts' = IF starts = 2 THEN 2 ELSE starts + 1
  /\ \/ /\ ok
        /\ pb' = "live"
        /\ core' = "running"
     \/ /\ ~ok
        /\ pb' \in {pb, IF pb = "null" THEN "null" ELSE "freed", "live"}
        /\ UNCHANGED core

SDisplay_stop ==
  /\ pb' = "null"
  /\ core' = "stopped"
  /\ starts' = 0

\* SConnection::approveConnection(true), with authSuccess() and
\* startDesktop(): the client is authenticated before the desktop starts, and
\* closed again when it does not.
Admit(s) ==
  \/ /\ desktopStarted
     /\ state' = [state EXCEPT ![s] = "initialisation"]
     /\ UNCHANGED desktopVars
  \/ /\ ~desktopStarted
     /\ SDisplay_start(TRUE)
     /\ desktopStarted' = TRUE
     /\ state' = [state EXCEPT ![s] = "initialisation"]
  \/ /\ ~desktopStarted
     /\ SDisplay_start(FALSE)
     /\ state' = Close({s})
     /\ UNCHANGED desktopStarted

\* approveConnection(false): AuthFailureException, and the client is closed.
Refuse(s) == state' = Close({s}) /\ UNCHANGED desktopVars

\* The dialog is one object, and one connection is asked about at a time.
DialogNeverBusy == FALSE    \* Mutant: a second query takes the dialog over.
DialogBusy == dialogSock # NoSock

\* VNCSConnectionST::queryConnection(), in the order of its tests.  asked:
\* the socket's filter, or QueryConnect, wants the local user to be asked.
queryConnection(s) ==
  \/ /\ policy.neverShared
     /\ ~policy.disconnectClients
     /\ OthersAuthenticated(s)
     /\ Refuse(s)
     /\ UNCHANGED dialogVars
  \/ /\ ~(policy.neverShared /\ ~policy.disconnectClients /\ OthersAuthenticated(s))
     /\ \E asked \in IF policy.queryConnect THEN {TRUE} ELSE BOOLEAN :
          \/ /\ reverse[s] \/ ~asked
             /\ Admit(s)
             /\ UNCHANGED dialogVars
          \/ /\ ~reverse[s] /\ asked
             /\ DialogBusy
             /\ Refuse(s)
             /\ UNCHANGED dialogVars
          \/ /\ ~reverse[s] /\ asked
             /\ ~DialogBusy
             /\ state' = [state EXCEPT ![s] = "querying"]
             /\ dialogSock' = s
             /\ dialogLive' = TRUE
             /\ answer' = "none"
             /\ UNCHANGED desktopVars

\* SConnection::processSecurityMsg(): more data needed, failure, or done.
processSecurityMsg(s) ==
  \/ /\ state' \in {[state EXCEPT ![s] = "security"], Close({s})}
     /\ UNCHANGED <<desktopVars, dialogVars>>
  \/ queryConnection(s)

-----------------------------------------------------------------------------
(* Socket events: SocketManager::processEvent of a connection, down to     *)
(* VNCSConnectionST::processMessages.  One step reads one message; while    *)
(* there is more data the same event goes on to the next.                  *)

Readable(s) ==
  /\ loop = "ready" \/ (loop = "served" /\ cur = s)
  /\ state[s] \notin {"none", "rejected"}
  /\ loop' = "served"
  /\ cur' = s
  /\ UNCHANGED <<policy, reverse>>

\* End of stream, a malformed or unexpected message (any message at all while
\* the local user is being asked), a failed write: the exception closes the
\* client.
ProcessException(s) ==
  /\ Readable(s)
  /\ state' = Close({s})
  /\ UNCHANGED <<inputVars, desktopVars, dialogVars>>

\* A 3.7 or 3.8 client is offered the security types; for a 3.3 client the
\* server chooses one and goes straight on.
ProcessVersionMsg(s) ==
  /\ Readable(s)
  /\ state[s] = "version"
  /\ \/ /\ state' = [state EXCEPT ![s] = "sectype"]
        /\ UNCHANGED <<desktopVars, dialogVars>>
     \/ processSecurityMsg(s)
  /\ UNCHANGED inputVars

ProcessSecurityTypeMsg(s) ==
  /\ Readable(s)
  /\ state[s] = "sectype"
  /\ processSecurityMsg(s)
  /\ UNCHANGED inputVars

ProcessSecurityMsg(s) ==
  /\ Readable(s)
  /\ state[s] = "security"
  /\ processSecurityMsg(s)
  /\ UNCHANGED inputVars

\* The flag a client is initialised with: the parameters override it, and
\* NeverShared comes last.
SharedAlwaysLast(s, sharedFlag) ==   \* Mutant: the overrides are swapped.
  (sharedFlag /\ ~policy.neverShared) \/ policy.alwaysShared \/ reverse[s]
Shared(s, sharedFlag) ==
  (sharedFlag \/ policy.alwaysShared \/ reverse[s]) /\ ~policy.neverShared

\* VNCSConnectionST::clientInit(): sharing is decided here, once for all.
clientInit(s, sharedFlag) ==
  /\ Readable(s)
  /\ state[s] = "initialisation"
  /\ state' =
       IF Shared(s, sharedFlag) THEN [state EXCEPT ![s] = "normal"]
       ELSE IF policy.disconnectClients
            THEN [Close(Clients \ {s}) EXCEPT ![s] = "normal"]
       ELSE IF OthersAuthenticated(s) THEN Close({s})
       ELSE [state EXCEPT ![s] = "normal"]
  /\ UNCHANGED <<inputVars, desktopVars, dialogVars>>

\* SDisplay::keyEvent() is a no-operation without a keyboard.
keyEvent(s, k, down) ==
  /\ Readable(s)
  /\ state[s] = "normal"
  /\ down \/ k \in pressed[s]
  /\ pressed' = [pressed EXCEPT ![s] = IF down THEN @ \cup {k} ELSE @ \ {k}]
  /\ held' = IF core = "stopped" THEN held
             ELSE IF down THEN held \cup {k} ELSE held \ {k}
  /\ UNCHANGED <<state, pointerClient, desktopVars, dialogVars>>

\* A pointer event is dropped while another client holds a button down.
pointerEvent(s, buttons) ==
  /\ Readable(s)
  /\ state[s] = "normal"
  /\ pointerClient \in {NoSock, s}
  /\ pointerClient' = IF buttons THEN s ELSE NoSock
  /\ UNCHANGED <<state, pressed, held, desktopVars, dialogVars>>

-----------------------------------------------------------------------------
(* Connections come and go.                                                *)

\* SocketManager::addSocket and VNCServerST::addSocket: a blacklisted host is
\* shut down at once; init() closes the client if its first write fails.
NewConnection(s, rev) ==
  /\ loop = "ready"
  /\ state[s] = "none"
  /\ state' \in {[state EXCEPT ![s] = st] : st \in {"version", "closing", "rejected"}}
  /\ reverse' = [reverse EXCEPT ![s] = rev]
  /\ loop' = "timeouts"
  /\ cur' = NoSock
  /\ UNCHANGED <<policy, inputVars, desktopVars, dialogVars>>

\* A client that leaves gives the pointer up.
ReleasePointer(s) == pointerClient' = IF pointerClient = s THEN NoSock ELSE pointerClient

\* VNCServerST::removeSocket with the client's destructor, and the end of the
\* Socket object in SocketManager::remSocket.  The desktop is stopped when no
\* client that is left is authenticated, whatever those clients still hold.
removeSocket(s) ==
  /\ state' = [state EXCEPT ![s] = "none"]
  /\ dialogLive' = (dialogLive /\ dialogSock # s)
  /\ pressed' = [pressed EXCEPT ![s] = {}]
  /\ held' = IF core = "running" THEN held \ pressed[s] ELSE held
  /\ ReleasePointer(s)
  /\ IF state[s] # "rejected" /\ ~OthersAuthenticated(s) /\ desktopStarted
     THEN desktopStarted' = FALSE /\ SDisplay_stop
     ELSE UNCHANGED desktopVars
  /\ UNCHANGED <<policy, reverse, dialogSock, answer>>

\* The end of SocketManager::processEvent: the socket whose event it was is
\* the first to go.
SocketServed ==
  /\ loop = "served"
  /\ IF state[cur] \in Shutdown
     THEN removeSocket(cur)
     ELSE UNCHANGED <<serverVars, inputVars, desktopVars, dialogVars>>
  /\ loop' = "timeouts"
  /\ cur' = NoSock

\* Mutant: the pass over the idle clients is the last thing the call does.
CheckTimeoutsOnly ==
  /\ loop = "timeouts"
  /\ \E idle \in SUBSET Clients : state' = Close(idle)
  /\ loop' = "ready"
  /\ UNCHANGED <<policy, reverse, inputVars, desktopVars, dialogVars, cur>>

\* SocketManager::checkTimeouts: clients that have been idle too long are
\* closed, then every socket that is shut down is removed.
CheckTimeouts ==
  /\ loop = "timeouts"
  /\ \E idle \in SUBSET Clients : state' = Close(idle)
  /\ loop' = "sweep"
  /\ UNCHANGED <<policy, reverse, inputVars, desktopVars, dialogVars, cur>>

SweepSocket(s) ==
  /\ loop = "sweep"
  /\ state[s] \in Shutdown
  /\ removeSocket(s)
  /\ UNCHANGED loopVars

SweepDone ==
  /\ loop = "sweep"
  /\ \A s \in Socks : state[s] \notin Shutdown
  /\ loop' = "ready"
  /\ UNCHANGED <<serverVars, inputVars, desktopVars, dialogVars, cur>>

-----------------------------------------------------------------------------
(* Events of the host thread that are not a client's.                      *)

HostEvent == loop = "ready" /\ loop' = "timeouts" /\ UNCHANGED cur

\* Command DisconnectClients, from the tray icon.
DisconnectClients ==
  /\ HostEvent
  /\ state' = Close(Clients)
  /\ UNCHANGED <<policy, reverse, inputVars, desktopVars, dialogVars>>

\* The dialog's own thread: a button, or the countdown.
DialogAnswers ==
  /\ DialogBusy
  /\ loop # "exit"
  /\ answer = "none"
  /\ answer' \in {"accept", "reject"}
  /\ UNCHANGED <<serverVars, inputVars, desktopVars, dialogSock, dialogLive, loopVars>>

\* What the dialog's answer comes to.
AnyAnswer == answer # "none"    \* Mutant: the rejection is not looked at.
UserAccepts == answer = "accept"

\* VNCServerST::approveConnection: the client is found again by the address of
\* its socket, and approveConnection() of SConnection throws unless it is
\* querying, which closes it.
ApproveNobody(s) == UNCHANGED <<state, desktopVars>>   \* Mutant: never found.
ApproveConnection(s) ==
  \/ state[s] = "querying" /\ UserAccepts /\ Admit(s)
  \/ state[s] = "querying" /\ ~UserAccepts /\ Refuse(s)
  \/ s \in Clients /\ state[s] # "querying" /\ Refuse(s)
  \/ s \notin Clients /\ UNCHANGED <<state, desktopVars>>

\* Command QueryConnectionComplete, queued by the dialog's thread.
QueryConnectionComplete ==
  /\ HostEvent
  /\ DialogBusy
  /\ answer # "none"
  /\ ApproveConnection(dialogSock)
  /\ dialogSock' = NoSock
  /\ dialogLive' = FALSE
  /\ answer' = "none"
  /\ UNCHANGED <<policy, reverse, inputVars>>

\* SDisplay::processEvent that goes well, a restart of the core included: any
\* write to a client may fail, and one that cannot resize is closed.
UpdateEvent ==
  /\ HostEvent
  /\ core = "running"
  /\ \E failed \in SUBSET {s \in Socks : state[s] = "normal"} : state' = Close(failed)
  /\ UNCHANGED <<policy, reverse, inputVars, desktopVars, dialogVars>>

\* SDisplay::restartCore that cannot start a new core: the old buffer is gone,
\* and the server may or may not have been given a new one.
RestartFails ==
  /\ HostEvent
  /\ CoreMayFail
  /\ core = "running"
  /\ core' = "stopped"
  /\ pb' \in {"freed", "live"}
  /\ state' = Close(Clients)
  /\ UNCHANGED <<policy, reverse, inputVars, desktopStarted, starts, dialogVars>>

\* SDisplay::getFbSize for the page with the Java viewer: a buffer is made for
\* the purpose and deleted, and a server that an earlier, failed start() left
\* behind is given it in between.
GetFbSize ==
  /\ HostEvent
  /\ core = "stopped"
  /\ pb' = IF starts > 0 THEN "freed" ELSE pb
  /\ UNCHANGED <<serverVars, inputVars, desktopStarted, core, starts, dialogVars>>

\* VNCServerST::~VNCServerST after the loop has ended: every client is deleted
\* while the desktop still runs.
ServerShutdown ==
  /\ loop = "ready"
  /\ loop' = "exit"
  /\ state' = [s \in Socks |-> "none"]
  /\ held' = IF core = "running" THEN held \ UNION {pressed[s] : s \in Socks} ELSE held
  /\ pressed' = [s \in Socks |-> {}]
  /\ pointerClient' = NoSock
  /\ IF desktopStarted THEN desktopStarted' = FALSE /\ SDisplay_stop
                       ELSE UNCHANGED desktopVars
  /\ dialogLive' = FALSE
  /\ UNCHANGED <<policy, reverse, dialogSock, answer, cur>>

-----------------------------------------------------------------------------
SocketEvent(s) ==
  \/ ProcessException(s)
  \/ ProcessVersionMsg(s)
  \/ ProcessSecurityTypeMsg(s)
  \/ ProcessSecurityMsg(s)
  \/ \E sharedFlag \in BOOLEAN : clientInit(s, sharedFlag)
  \/ \E k \in Keys, down \in BOOLEAN : keyEvent(s, k, down)
  \/ \E buttons \in BOOLEAN : pointerEvent(s, buttons)

Next ==
  \/ \E s \in Socks : SocketEvent(s)
  \/ \E s \in Socks, rev \in BOOLEAN : NewConnection(s, rev)
  \/ SocketServed
  \/ CheckTimeouts
  \/ \E s \in Socks : SweepSocket(s)
  \/ SweepDone
  \/ DisconnectClients
  \/ DialogAnswers
  \/ QueryConnectionComplete
  \/ UpdateEvent
  \/ RestartFails
  \/ GetFbSize
  \/ ServerShutdown

Spec == Init /\ [][Next]_vars

\* The host thread never blocks between two waits, the dialog counts down to
\* zero, and the command event comes before every socket's in the array given
\* to WaitForMultipleObjects, so that sockets cannot starve it.
Fairness ==
  /\ WF_vars(SocketServed)
  /\ WF_vars(CheckTimeouts)
  /\ \A s \in Socks : WF_vars(SweepSocket(s))
  /\ WF_vars(SweepDone)
  /\ WF_vars(DialogAnswers)
  /\ SF_vars(QueryConnectionComplete)

FairSpec == Spec /\ Fairness

-----------------------------------------------------------------------------
(* Properties.                                                             *)

\* Every connection that waits for the local user's answer is the one the
\* dialog shows: none is forgotten in RFBSTATE_QUERYING when a second one
\* asks, when one goes away, or when its address is used again.
QueryingHasDialog ==
  \A s \in Socks : state[s] = "querying" => dialogSock = s /\ dialogLive

\* The handlers of an authenticated client use the server's pixel buffer and
\* the desktop's input devices without testing for null: as long as there is
\* such a client, the buffer is the current one and the core runs, across
\* failed starts, failed restarts and the stop that a removal causes.
DesktopServesClients ==
  (\E s \in Socks : authenticated(state[s]))
    => desktopStarted /\ pb = "live" /\ core = "running"

\* SDesktop.h: stop() is called when there are no longer any authenticated
\* clients.  Whenever the host thread waits for events, a started desktop has
\* a client to run for, and the pixel buffer is not one that was deleted.
NoIdleDesktop ==
  loop = "ready" /\ desktopStarted => \E s \in Socks : authenticated(state[s])

\* The client that owns the pointer exists and can still release it: a client
\* that left with a button down does not keep the others from the pointer.
PointerOwnerAlive ==
  loop = "ready" /\ pointerClient # NoSock => state[pointerClient] = "normal"

\* What the server remembers of single clients, the one that the dialog shows
\* and the one that owns the pointer, is of clients that are still there.
RemembersClients == QueryingHasDialog /\ PointerOwnerAlive

\* A second client enters the session only while the server's policy lets
\* clients share it, whatever the order in which they authenticated and were
\* approved: not under NeverShared.
NeverSharedIsExclusive ==
  [][ \A s, t \in Socks :
        s # t /\ state'[s] = "normal" /\ state'[t] = "normal"
          => ~policy.neverShared ]_vars

\* A connection leaves RFBSTATE_QUERYING for the session only when the dialog
\* still shows that very connection and the user has accepted it.
AdmittedByUser ==
  [][ \A s \in Socks :
        state[s] = "querying" /\ authenticated(state'[s])
          => dialogSock = s /\ dialogLive /\ answer = "accept" ]_vars

\* VNCSConnectionST.cxx, in the destructor: the keys the client still had
\* pressed are released.
KeysReleased ==
  loop = "ready" => \A k \in held : \E s \in Socks : k \in pressed[s]

\* A connection the server has closed is removed, and its address is free
\* again.
ClosedIsRemoved ==
  \A s \in Socks : state[s] = "closing" ~> state[s] = "none"

\* VNCServerST.h: if PENDING is returned, approveConnection() is called some
\* time later.  No connection waits for the local user for ever.
QueryIsAnswered ==
  \A s \in Socks : state[s] = "querying" ~> state[s] # "querying"
=============================================================================
