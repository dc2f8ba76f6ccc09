----------------------------- MODULE Descriptors -----------------------------
(***************************************************************************)
(* Who has which handle: the TcpSockets of clients and browsers from the   *)
(* call that makes them to the end of their destructors, the TcpListeners, *)
(* and those who keep their addresses: SocketManager, VNCServerST,         *)
(* HTTPServer and the two ManagedListeners.  The system gives out a handle *)
(* that was closed again, to whichever thread asks first.                  *)
(*                                                                         *)
(* Events and readiness are the subject of module SocketManager.  The      *)
(* network reports no FD_CLOSE of a listener, which is no connection.      *)
(***************************************************************************)
EXTENDS Naturals, FiniteSets

CONSTANTS
  Handles,   \* what the system knows sockets by
  Sockets,   \* addresses at which a TcpSocket may be
  Callers,   \* threads that call addNewClient
  NoHandle, NoCaller

Listeners == {"rfb", "http"}
Holders == Sockets \cup Callers \cup Listeners

ASSUME DescriptorsAssumption ==
  /\ Sockets \cap Callers = {} /\ (Sockets \cup Callers) \cap Listeners = {}
  /\ Callers \cap {"free", "host", "added", "dying"} = {}
  /\ NoHandle \notin Handles /\ NoCaller \notin Callers /\ Sockets # {}

VARIABLES
  open,        \* handles that are open
  handle,      \* of a TcpSocket: its streams' fd; of a listener: its fd; of a
               \*   caller: the variable sock of TcpSocket's constructor
  place,       \* whose a TcpSocket is: nobody's, a caller's, the host thread's,
               \*   SocketManager's, or its destructor's after the handle is closed
  isShutdown,  \* Socket::isShutdown_
  left,        \* TcpSockets whose FdOutStream holds bytes not written
  connections, \* SocketManager::connections
  clients, closingSockets,  \* VNCServerST
  sessions,    \* HTTPServer
  listening,   \* ManagedListeners whose sock is not null
  registered,  \* SocketManager::listeners
  command,     \* the caller whose AddClient is queued
  phase,       \* where the callers are
  host,        \* where the host thread is
  cur, via, back,  \* the TcpSocket it handles, for which server, and where it goes then
  lst          \* the ManagedListener that is refreshed

handleVars == <<open, handle, place, left>>
serverVars == <<isShutdown, connections, clients, closingSockets, sessions>>
listenVars == <<listening, registered, lst>>
commandVars == <<command, phase>>
descriptorVars ==
  <<handleVars, serverVars, listenVars, commandVars, host, cur, via, back>>

DescriptorsInit ==
  /\ open = {} /\ handle = [x \in Holders |-> NoHandle]
  /\ place = [s \in Sockets |-> "free"]
  /\ isShutdown = {} /\ left = {} /\ connections = {}
  /\ clients = {} /\ closingSockets = {} /\ sessions = {}
  /\ listening = {} /\ registered = {} /\ lst = "rfb"
  /\ command = NoCaller /\ phase = [c \in Callers |-> "idle"]
  /\ host = "timeouts" /\ cur = (CHOOSE s \in Sockets : TRUE) /\ via = "rfb" /\ back = "timeouts"

\* socket() and accept(); closesocket().
Opens(x, h) == h \notin open /\ open' = open \cup {h} /\ handle' = [handle EXCEPT ![x] = h]
Closes(x) == open' = open \ {handle[x]} /\ handle' = [handle EXCEPT ![x] = NoHandle]

-----------------------------------------------------------------------------
(* A caller: addNewClient and the constructor TcpSocket(host, port).       *)

Stage(c, from, to) == phase[c] = from /\ phase' = [phase EXCEPT ![c] = to]
HostWaits == UNCHANGED <<left, serverVars, listenVars, host, cur, via, back>>

StartConnect(c) ==
  /\ Stage(c, "idle", "resolve") /\ host \notin {"unlisten", "over"}
  /\ \E h \in Handles : Opens(c, h)
  /\ UNCHANGED <<place, command>> /\ HostWaits

\* The host has an address, or the constructor closes the socket and throws.
Resolve(c) ==
  \/ Stage(c, "resolve", "connect") /\ UNCHANGED <<handle, place, open, command>> /\ HostWaits
  \/ Stage(c, "resolve", "idle") /\ Closes(c) /\ UNCHANGED <<place, command>> /\ HostWaits

\* It is connected and gets its streams, or the constructor closes and throws.
Connect(c) ==
  \/ /\ Stage(c, "connect", "made")
     /\ \E s \in Sockets :
          /\ place[s] = "free" /\ place' = [place EXCEPT ![s] = c]
          /\ handle' = [handle EXCEPT ![s] = handle[c], ![c] = NoHandle]
     /\ UNCHANGED <<open, command>> /\ HostWaits
  \/ Stage(c, "connect", "idle") /\ Closes(c) /\ UNCHANGED <<place, command>> /\ HostWaits

\* Mutant: the caller's own thread tells the SocketManager.
AddedByCaller(c) ==
  /\ Stage(c, "made", "idle")
  /\ \E s \in Sockets :
       /\ place[s] = c /\ place' = [place EXCEPT ![s] = "added"]
       /\ connections' = connections \cup {s} /\ clients' = clients \cup {s}
  /\ UNCHANGED <<open, handle, left, isShutdown, closingSockets, sessions, listenVars,
                 command, host, cur, via, back>>

\* queueCommand(AddClient, sock), which waits until the slot is free, and then
\* until the command was performed; it does not fail.
queueCommand(c) ==
  /\ Stage(c, "made", "waits") /\ command = NoCaller /\ command' = c
  /\ UNCHANGED <<open, handle, place>> /\ HostWaits

-----------------------------------------------------------------------------
(* The host thread and its TcpSockets.                                     *)

Goto(from, to) == host = from /\ host' = to
Others == UNCHANGED <<listenVars, commandVars>>

\* A socket comes from a caller or from a listener's accept().
AddClient ==
  /\ Goto("wait", "add") /\ command # NoCaller
  /\ \E s \in Sockets :
       place[s] = command /\ place' = [place EXCEPT ![s] = "host"] /\ cur' = s
  /\ via' = "rfb" /\ back' = "clear"
  /\ UNCHANGED <<open, handle, left, serverVars, listenVars, commandVars>>

ClearCommand ==
  /\ Goto("clear", "timeouts")
  /\ phase' = [phase EXCEPT ![command] = "idle"] /\ command' = NoCaller
  /\ UNCHANGED <<handleVars, serverVars, listenVars, cur, via, back>>

TcpListenerAccept(l) ==
  /\ l \in registered
  /\ \/ /\ Goto("wait", "filter")
        /\ \E s \in Sockets, h \in Handles :
             place[s] = "free" /\ place' = [place EXCEPT ![s] = "host"] /\ cur' = s /\ Opens(s, h)
        /\ via' = l /\ back' = "timeouts" /\ UNCHANGED left
     \/ Goto("wait", "ended") /\ UNCHANGED <<handleVars, cur, via, back>>
  /\ UNCHANGED serverVars /\ Others

\* A filter that does not let the connection in has accept() delete it.
VerifyConnection ==
  /\ Goto("filter", "add") \/ Goto("filter", "delete")
  /\ UNCHANGED <<handleVars, serverVars, cur, via, back>> /\ Others

\* VNCServerST::addSocket tells a blacklisted host so and shuts the connection
\* down; VNCSConnectionST::init does so when it cannot write.  HTTPServer::addSocket.
ToServer ==
  \/ /\ via = "rfb" /\ closingSockets' = closingSockets \cup {cur}
     /\ isShutdown' = isShutdown \cup {cur} /\ UNCHANGED <<clients, sessions>>
  \/ /\ via = "rfb" /\ clients' = clients \cup {cur}
     /\ isShutdown' \in {isShutdown, isShutdown \cup {cur}} /\ UNCHANGED <<closingSockets, sessions>>
  \/ /\ via = "http" /\ sessions' = sessions \cup {cur}
     /\ UNCHANGED <<isShutdown, clients, closingSockets>>

\* SocketManager::addSocket deletes a socket it has no event for.
AddSocket ==
  /\ \/ Goto("add", "delete") /\ UNCHANGED <<place, left, serverVars>>
     \/ /\ Goto("add", back)
        /\ connections' = connections \cup {cur} /\ place' = [place EXCEPT ![cur] = "added"]
        /\ left' \in {left, left \cup {cur}} /\ ToServer
  /\ UNCHANGED <<open, handle, cur, via, back>> /\ Others

\* checkTimeouts: idle ones are shut down, as any clients are by a command, and
\* what is shut down is removed.
CheckTimeouts ==
  /\ Goto("timeouts", "sweep")
  /\ \E idle \in SUBSET (clients \cup sessions) : isShutdown' = isShutdown \cup idle
  /\ UNCHANGED <<handleVars, connections, clients, closingSockets, sessions, cur, via, back>>
  /\ Others

Sweep ==
  /\ \/ /\ Goto("sweep", "remove") /\ back' = "sweep"
        /\ cur' \in connections \cap isShutdown
     \/ Goto("sweep", "wait") /\ connections \cap isShutdown = {} /\ UNCHANGED <<back, cur>>
  /\ UNCHANGED <<handleVars, serverVars, via>> /\ Others

\* The event of a connection: what its server reads and writes, to other
\* clients too, may leave bytes in their streams and shut down a browser, or
\* any clients; an exception removes the socket as well.
ProcessEvent(s) ==
  /\ s \in connections
  /\ \E shut \in SUBSET (IF s \in sessions THEN {s} ELSE clients) :
       /\ isShutdown' = isShutdown \cup shut
       /\ \/ Goto("wait", "remove") /\ cur' = s /\ back' = "timeouts"
          \/ Goto("wait", "timeouts") /\ s \notin isShutdown' /\ UNCHANGED <<cur, back>>
  /\ \E unsent \in SUBSET connections : left' = unsent
  /\ UNCHANGED <<open, handle, place, connections, clients, closingSockets, sessions, via>>
  /\ Others

\* remSocket: the server's removeSocket, and then the socket is deleted.
RemSocket ==
  /\ Goto("remove", "delete")
  /\ clients' = clients \ {cur} /\ closingSockets' = closingSockets \ {cur}
  /\ sessions' = sessions \ {cur}
  /\ UNCHANGED <<handleVars, isShutdown, connections, cur, via, back>> /\ Others

\* ~TcpSocket closes the handle ...
DestroyTcpSocket ==
  /\ Goto("delete", "streams")
  /\ open' = open \ {handle[cur]} /\ place' = [place EXCEPT ![cur] = "dying"]
  /\ UNCHANGED <<handle, left, serverVars, cur, via, back>> /\ Others

\* ... before ~Socket deletes the streams, of which ~FdOutStream writes what is
\* left to the handle of that number, if there is one again.
DestroySocket ==
  /\ Goto("streams", back)
  /\ left' = left \ {cur} /\ handle' = [handle EXCEPT ![cur] = NoHandle]
  /\ place' = [place EXCEPT ![cur] = "free"]
  /\ connections' = connections \ {cur} /\ isShutdown' = isShutdown \ {cur}
  /\ UNCHANGED <<open, clients, closingSockets, sessions, cur, via, back>> /\ Others

-----------------------------------------------------------------------------
(* The host thread and its TcpListeners.                                   *)

NoSocket == UNCHANGED <<place, left, serverVars, commandVars, cur, via, back>>

\* SocketManager::remListener deletes the listener.
remListener(l) ==
  /\ l \in registered /\ Closes(l)
  /\ registered' = registered \ {l} /\ listening' = listening \ {l}

\* ManagedListener::refresh: the old listener goes; there may be no new one.
\* remListener would throw for a listener that is not registered.
Refresh(l) ==
  /\ lst' = l
  /\ \/ l \in listening /\ (Goto("wait", "open") \/ Goto("wait", "timeouts")) /\ remListener(l)
     \/ /\ l \notin listening /\ Goto("wait", "open")
        /\ UNCHANGED <<open, handle, listening, registered>>
  /\ NoSocket

\* The constructor TcpListener(port): refresh catches what it throws.
OpenListener ==
  /\ \/ Goto("open", "bind") /\ \E h \in Handles : Opens(lst, h)
     \/ Goto("open", "timeouts") /\ UNCHANGED <<open, handle>>
  /\ UNCHANGED listenVars /\ NoSocket

BindListener ==
  /\ \/ Goto("bind", "listen") /\ UNCHANGED <<open, handle>>
     \/ Goto("bind", "timeouts") /\ Closes(lst)
  /\ UNCHANGED listenVars /\ NoSocket

Listen ==
  /\ \/ Goto("listen", "register") /\ listening' = listening \cup {lst} /\ UNCHANGED <<open, handle>>
     \/ Goto("listen", "timeouts") /\ Closes(lst) /\ UNCHANGED listening
  /\ UNCHANGED <<registered, lst>> /\ NoSocket

\* SocketManager::addListener deletes a listener it has no event for and
\* throws; refresh forgets it, and throws on.
AddListener ==
  /\ \/ /\ Goto("register", "timeouts") /\ registered' = registered \cup {lst}
        /\ UNCHANGED <<open, handle, listening>>
     \/ /\ Goto("register", "timeouts") \/ Goto("register", "ended")
        /\ Closes(lst) /\ listening' = listening \ {lst} /\ UNCHANGED registered
  /\ UNCHANGED lst /\ NoSocket

-----------------------------------------------------------------------------
(* The end: WM_QUIT or an exception ends the loop; ~VNCServerWin32 waits   *)
(* for the thread of the tray icon and destroys its members.               *)

EndLoop ==
  /\ Goto("wait", "ended") \/ (Goto("ended", "unlisten") /\ \A c \in Callers : phase[c] = "idle")
  /\ UNCHANGED <<open, handle, listenVars>> /\ NoSocket

\* ~ManagedListener, of httpSock first.
EndListener(l) ==
  /\ Goto("unlisten", "unlisten") /\ l \in listening /\ (l = "rfb" => "http" \notin listening)
  /\ remListener(l) /\ UNCHANGED lst /\ NoSocket

\* ~SocketManager does nothing, ~HTTPServer deletes its sessions, and
\* ~VNCServerST closes and deletes its clients.
EndServers ==
  /\ Goto("unlisten", "over") /\ listening = {}
  /\ isShutdown' = isShutdown \cup clients
  /\ clients' = {} /\ closingSockets' = {} /\ sessions' = {}
  /\ UNCHANGED <<handleVars, connections, cur, via, back>> /\ Others

-----------------------------------------------------------------------------
CallerStep(c) == StartConnect(c) \/ Resolve(c) \/ Connect(c) \/ queueCommand(c)

DescriptorsNext ==
  \/ \E c \in Callers : CallerStep(c)
  \/ AddClient \/ ClearCommand \/ VerifyConnection \/ AddSocket
  \/ CheckTimeouts \/ Sweep \/ RemSocket \/ DestroyTcpSocket \/ DestroySocket
  \/ \E s \in Sockets : ProcessEvent(s)
  \/ OpenListener \/ BindListener \/ Listen \/ AddListener
  \/ \E l \in Listeners : TcpListenerAccept(l) \/ Refresh(l) \/ EndListener(l)
  \/ EndLoop \/ EndServers
DescriptorsSpec == DescriptorsInit /\ [][DescriptorsNext]_descriptorVars

-----------------------------------------------------------------------------
(* Properties.                                                             *)

DescriptorsTypeOK ==
  /\ open \subseteq Handles /\ handle \in [Holders -> Handles \cup {NoHandle}]
  /\ place \in [Sockets -> {"free", "host", "added", "dying"} \cup Callers]
  /\ isShutdown \subseteq Sockets /\ left \subseteq Sockets /\ connections \subseteq Sockets
  /\ clients \subseteq Sockets /\ closingSockets \subseteq Sockets /\ sessions \subseteq Sockets
  /\ listening \subseteq Listeners /\ registered \subseteq Listeners
  /\ command \in Callers \cup {NoCaller}
  /\ phase \in [Callers -> {"idle", "resolve", "connect", "made", "waits"}]
  /\ host \in {"timeouts", "sweep", "wait", "filter", "add", "clear", "remove", "delete",
               "streams", "open", "bind", "listen", "register", "ended", "unlisten", "over"}
  /\ cur \in Sockets /\ via \in Listeners /\ lst \in Listeners
  /\ back \in {"timeouts", "sweep", "clear"}

\* Who will close a handle.
Owners ==
  {x \in Holders : handle[x] # NoHandle /\ ~(x \in Sockets /\ x = cur /\ host = "streams")}

\* Whatever fails on the way, every open handle has one owner and every owner
\* an open handle: none is lost, and none is closed that was given to another
\* meanwhile.
HandlesAreOwned ==
  /\ open = {handle[x] : x \in Owners}
  /\ \A x, y \in Owners : handle[x] = handle[y] => x = y

\* The bytes that a destructor still writes to a closed handle reach no client
\* or browser that is served, and no listener, although a thread that connects
\* may be given the handle's number between the two.
BytesStayOffServed ==
  host = "streams" /\ cur \in left =>
    \A x \in (connections \cup registered) \ {cur} : handle[x] # handle[cur]

\* The servers keep the addresses of the sockets that the manager has, each in
\* one place, until it deletes them, and the listeners are those it has.
ServersKnowSockets ==
  host # "over" =>
    /\ clients \cup closingSockets \cup sessions
         = {s \in connections : ~(s = cur /\ host \in {"delete", "streams"})}
    /\ \A s \in clients \cup closingSockets \cup sessions : place[s] = "added"
    /\ clients \cap closingSockets = {} /\ (clients \cup closingSockets) \cap sessions = {}
    /\ listening = registered \cup (IF host = "register" THEN {lst} ELSE {})

\* Of the clients', the browsers' and the manager's sockets, of which each part
\* keeps addresses and one deletes, no handle is lost or closed twice, no byte
\* of one reaches another that is served, and no address is kept of one that is gone.
SocketsAreOwned == HandlesAreOwned /\ BytesStayOffServed /\ ServersKnowSockets
=============================================================================
