---------------------------- MODULE SocketManager ----------------------------
(***************************************************************************)
(* The host thread's table of events: rfb::win32::EventManager with the    *)
(* sockets that SocketManager keeps in it, the listeners ManagedListener   *)
(* opens and closes, and the network at the other end.                     *)
(*                                                                         *)
(* An event and its socket bear one name.  WSAEventSelect has the event    *)
(* set when there is something to accept or to read, now or later.  The    *)
(* code is the one built for Windows CE, which arms a listener anew after  *)
(* each of its events.                                                     *)
(***************************************************************************)
EXTENDS Naturals, Sequences

CONSTANTS
  Peers,      \* connections, each of which comes once
  Listeners,  \* "rfb" and "http": what each ManagedListener opens
  MaxEvents,  \* places in the table, besides the server's own events
  Faults,     \* where WSAEventSelect may fail
  MaxSends    \* bound: how often a peer sends

ASSUME NamesAssumption == Peers \cap Listeners = {}
ASSUME BoundsAssumption == MaxEvents \in Nat /\ MaxSends \in Nat
ASSUME FaultsAssumption == Faults \subseteq {"listen", "add", "cancel", "rearm"}

Socks == Peers \cup Listeners

VARIABLES
  events,     \* EventManager::events, as far as they are sockets'
  listeners,  \* SocketManager::listeners
  peer,       \* where each connection is
  backlog,    \* connections a listener has not accepted yet
  isShutdown, \* connections the server has shut down
  selected,   \* sockets whose event is told of the network
  isSet,      \* events that are set
  unread,     \* connections with data, or their end, to be read
  sent,       \* how often each peer has sent
  manager,    \* where the host thread is
  cur         \* whose event it handles

netVars == <<peer, backlog, isShutdown, unread, sent>>
eventVars == <<events, listeners, selected, isSet>>
managerVars == <<manager, cur>>
socketVars == <<netVars, eventVars, managerVars>>

PeerStates == {"new", "waiting", "aborted", "connected", "removed"}
HostStates == {"timeouts", "sweep", "wait", "accept", "relisten", "rearm_listener",
               "cancel", "reset", "serve", "rearm", "ended"}

SocketsTypeOK ==
  /\ events \in Seq(Socks) /\ Len(events) <= MaxEvents
  /\ listeners \subseteq Listeners
  /\ peer \in [Peers -> PeerStates]
  /\ backlog \in [Listeners -> SUBSET Peers]
  /\ isShutdown \subseteq Peers
  /\ selected \subseteq Socks
  /\ isSet \subseteq Socks
  /\ unread \subseteq Peers
  /\ sent \in [Peers -> 0 .. MaxSends]
  /\ manager \in HostStates
  /\ cur \in Socks

SocketsInit ==
  /\ events = <<>>
  /\ listeners = {}
  /\ peer = [p \in Peers |-> "new"]
  /\ backlog = [l \in Listeners |-> {}]
  /\ isShutdown = {}
  /\ selected = {}
  /\ isSet = {}
  /\ unread = {}
  /\ sent = [p \in Peers |-> 0]
  /\ manager = "timeouts"
  /\ cur \in Socks

connections == {p \in Peers : peer[p] = "connected"}

\* Events of the table whose socket is gone.
Stale == {events[i] : i \in DOMAIN events} \ (connections \cup listeners)

-----------------------------------------------------------------------------
(* The table.                                                              *)

Full == Len(events) >= MaxEvents

IndexOf(s) == CHOOSE i \in DOMAIN events : events[i] = s

WithoutLast(s) == SubSeq(events, 1, Len(events) - 1)   \* Mutant: nothing moves up.

\* EventManager::removeEvent moves the later events up.
Without(s) ==
  [i \in 1 .. Len(events) - 1 |-> IF i < IndexOf(s) THEN events[i] ELSE events[i + 1]]

\* WaitForMultipleObjects reports the first event that is set.
IsFirst(i) ==
  /\ events[i] \in isSet
  /\ \A j \in 1 .. i - 1 : events[j] \notin isSet

\* WSAEventSelect, and accept, set the event when there is something already.
SetIf(set, s, ready) == IF ready THEN set \cup {s} ELSE set

-----------------------------------------------------------------------------
(* Connections are added and removed.                                      *)

\* SocketManager::addSocket.  When the selection fails, after addEvent, the
\* event stays in the table although it is closed; a connection from a
\* blacklisted host is shut down by its server.  set: the events set before.
addSocket(p, set) ==
  \/ /\ Full \/ "add" \in Faults
     /\ peer' = [peer EXCEPT ![p] = "removed"]
     /\ events' = IF Full THEN events ELSE Append(events, p)
     /\ isSet' = set
     /\ UNCHANGED <<selected, isShutdown>>
  \/ /\ ~Full
     /\ peer' = [peer EXCEPT ![p] = "connected"]
     /\ events' = Append(events, p)
     /\ selected' = selected \cup {p}
     /\ isSet' = SetIf(set, p, p \in unread)
     /\ isShutdown' \in {isShutdown, isShutdown \cup {p}}

remSocket(p) ==
  /\ events' = Without(p)
  /\ peer' = [peer EXCEPT ![p] = "removed"]
  /\ selected' = selected \ {p}
  /\ isSet' = isSet \ {p}

-----------------------------------------------------------------------------
(* The loop of EventManager::getMessage.                                   *)

Goto(place) == manager' = place /\ UNCHANGED cur

\* SocketManager::checkTimeouts asks the servers of the listeners, which shut
\* idle connections down, and then removes what is shut down.
CheckTimeouts ==
  /\ manager = "timeouts"
  /\ \E idle \in IF listeners = {} THEN {{}} ELSE SUBSET connections :
       isShutdown' = isShutdown \cup idle
  /\ Goto("sweep")
  /\ UNCHANGED <<peer, backlog, unread, sent, eventVars>>

SweepSocket(p) ==
  /\ manager = "sweep"
  /\ p \in connections \cap isShutdown
  /\ remSocket(p)
  /\ UNCHANGED <<backlog, isShutdown, unread, sent, listeners, managerVars>>

SweepDone ==
  /\ manager = "sweep"
  /\ connections \cap isShutdown = {}
  /\ Goto("wait")
  /\ UNCHANGED <<netVars, eventVars>>

\* A closed event fails the wait, and the server ends.
WaitFails ==
  /\ manager = "wait"
  /\ Stale # {}
  /\ Goto("ended")
  /\ UNCHANGED <<netVars, eventVars>>

\* The wait finds an event.
Woken == manager = "wait" /\ Stale = {}

Dispatch ==
  /\ Woken
  /\ \E i \in DOMAIN events :
       /\ IsFirst(i)
       /\ cur' = events[i]
       /\ manager' = IF events[i] \in listeners THEN "accept" ELSE "cancel"
  /\ UNCHANGED <<netVars, eventVars>>

-----------------------------------------------------------------------------
(* SocketManager::processEvent, of a listener.                             *)

\* WSAEnumNetworkEvents resets the event, accept sets it again if there are
\* more.  Nobody catches the exception of an accept that fails.
Accept(p) ==
  /\ manager = "accept"
  /\ p \in backlog[cur]
  /\ backlog' = [backlog EXCEPT ![cur] = @ \ {p}]
  /\ LET set == SetIf(isSet \ {cur}, cur, backlog[cur] # {p}) IN
     \/ /\ peer[p] = "aborted"
        /\ peer' = [peer EXCEPT ![p] = "removed"]
        /\ isSet' = set
        /\ Goto("ended")
        /\ UNCHANGED <<events, selected, isShutdown>>
     \/ /\ peer[p] = "waiting"
        /\ peer' = [peer EXCEPT ![p] = "removed"]
        /\ isSet' = set
        /\ Goto("relisten")
        /\ UNCHANGED <<events, selected, isShutdown>>
     \/ /\ peer[p] = "waiting"
        /\ addSocket(p, set)
        /\ Goto("relisten")
  /\ UNCHANGED <<unread, sent, listeners>>

\* Windows CE: the selection is cancelled and the event reset ...
ResetListener ==
  /\ manager = "relisten"
  /\ selected' = selected \ {cur}
  /\ isSet' = isSet \ {cur}
  /\ Goto("rearm_listener")
  /\ UNCHANGED <<netVars, events, listeners>>

\* ... and it is selected again.
RearmListener ==
  /\ manager = "rearm_listener"
  /\ selected' = selected \cup {cur}
  /\ isSet' = SetIf(isSet, cur, backlog[cur] # {})
  /\ Goto("timeouts")
  /\ UNCHANGED <<netVars, events, listeners>>

-----------------------------------------------------------------------------
(* SocketManager::processEvent, of a connection.                           *)

\* An exception of this function removes the socket.
Throw(fault, place) ==
  /\ manager = place
  /\ fault \in Faults
  /\ remSocket(cur)
  /\ Goto("timeouts")
  /\ UNCHANGED <<backlog, isShutdown, unread, sent, listeners>>

Cancel ==
  \/ /\ manager = "cancel"
     /\ selected' = selected \ {cur}
     /\ Goto("reset")
     /\ UNCHANGED <<netVars, events, listeners, isSet>>
  \/ Throw("cancel", "cancel")

Reset ==
  /\ manager = "reset"
  /\ isSet' = isSet \ {cur}
  /\ Goto("serve")
  /\ UNCHANGED <<netVars, events, listeners, selected>>

\* processSocketEvent reads what there is, and may shut any connection down;
\* an exception that leaves it removes the socket like its shutdown.
Serve ==
  /\ manager = "serve"
  /\ unread' = unread \ {cur}
  /\ \E closed \in SUBSET connections :
       /\ isShutdown' = isShutdown \cup closed
       /\ IF cur \in isShutdown'
          THEN remSocket(cur) /\ Goto("timeouts")
          ELSE Goto("rearm") /\ UNCHANGED <<peer, events, selected, isSet>>
  /\ UNCHANGED <<backlog, sent, listeners>>

RearmForgotten ==       \* Mutant: the socket is not selected again.
  /\ manager = "rearm"
  /\ Goto("timeouts")
  /\ UNCHANGED <<netVars, eventVars>>

Rearm ==
  \/ /\ manager = "rearm"
     /\ selected' = selected \cup {cur}
     /\ isSet' = SetIf(isSet, cur, cur \in unread)
     /\ Goto("timeouts")
     /\ UNCHANGED <<netVars, events, listeners>>
  \/ Throw("rearm", "rearm")

-----------------------------------------------------------------------------
(* What else the host thread does between two waits.                       *)

\* VNCServerWin32::processEvent, AddClient: the connection is made already.
AddClient(p) ==
  /\ Woken
  /\ peer[p] = "new"
  /\ addSocket(p, isSet)
  /\ Goto("timeouts")
  /\ UNCHANGED <<backlog, unread, sent, listeners>>

\* DisconnectClients, or an update that could not be written.
ServerCloses(closed) ==
  /\ Woken
  /\ isShutdown' = isShutdown \cup closed
  /\ Goto("timeouts")
  /\ UNCHANGED <<peer, backlog, unread, sent, eventVars>>

\* ManagedListener::refresh: the old listener is removed, with those that wait
\* at it; a new one is opened, or there is none, because of the port or the
\* system; addListener throws when there is no place or no event.
refresh(l) ==
  /\ Woken
  /\ backlog' = [backlog EXCEPT ![l] = {}]
  /\ peer' = [p \in Peers |-> IF p \in backlog[l] THEN "removed" ELSE peer[p]]
  /\ isSet' = isSet \ {l}
  /\ LET rest == IF l \in listeners THEN Without(l) ELSE events IN
     \/ /\ listeners' = listeners \ {l}
        /\ events' = rest
        /\ selected' = selected \ {l}
        /\ \/ Goto("timeouts")
           \/ (Len(rest) >= MaxEvents \/ "listen" \in Faults) /\ Goto("ended")
     \/ /\ Len(rest) < MaxEvents
        /\ listeners' = listeners \cup {l}
        /\ events' = Append(rest, l)
        /\ selected' = selected \cup {l}
        /\ Goto("timeouts")
  /\ UNCHANGED <<isShutdown, unread, sent>>

-----------------------------------------------------------------------------
(* The network.                                                            *)

Connect(p, l) ==
  /\ peer[p] = "new"
  /\ l \in listeners
  /\ peer' = [peer EXCEPT ![p] = "waiting"]
  /\ backlog' = [backlog EXCEPT ![l] = @ \cup {p}]
  /\ isSet' = SetIf(isSet, l, l \in selected)
  /\ UNCHANGED <<isShutdown, unread, sent, events, listeners, selected, managerVars>>

\* A connection that ends before it is accepted makes accept fail.
Abort(p) ==
  /\ peer[p] = "waiting"
  /\ peer' = [peer EXCEPT ![p] = "aborted"]
  /\ UNCHANGED <<backlog, isShutdown, unread, sent, eventVars, managerVars>>

\* A peer sends, or ends the connection.
Send(p) ==
  /\ peer[p] \in {"waiting", "connected"}
  /\ sent[p] < MaxSends
  /\ sent' = [sent EXCEPT ![p] = @ + 1]
  /\ unread' = unread \cup {p}
  /\ isSet' = SetIf(isSet, p, p \in selected)
  /\ UNCHANGED <<peer, backlog, isShutdown, events, listeners, selected, managerVars>>

-----------------------------------------------------------------------------
SocketStep ==
  \/ CheckTimeouts
  \/ \E p \in Peers : SweepSocket(p)
  \/ SweepDone
  \/ WaitFails
  \/ \E p \in Peers : Accept(p)
  \/ ResetListener
  \/ RearmListener
  \/ Cancel
  \/ Reset
  \/ Serve
  \/ Rearm

OtherEvent ==
  \/ \E p \in Peers : AddClient(p)
  \/ \E closed \in SUBSET connections \ {{}} : ServerCloses(closed)
  \/ \E l \in Listeners : refresh(l)

NetStep ==
  \/ \E p \in Peers, l \in Listeners : Connect(p, l)
  \/ \E p \in Peers : Abort(p)
  \/ \E p \in Peers : Send(p)

SocketsNext == SocketStep \/ Dispatch \/ OtherEvent \/ NetStep

SocketsSpec == SocketsInit /\ [][SocketsNext]_socketVars

\* The host thread runs, and the server's own events, which come first in the
\* table, are not set all the time.
SocketsFairness == WF_socketVars(SocketStep) /\ SF_socketVars(Dispatch)

-----------------------------------------------------------------------------
(* Properties.                                                             *)

\* The cancelling, resetting and selecting around a connection's turn loses
\* nothing: what has come is read in this turn, or the event is set for the
\* next one.
UnreadIsSet ==
  \A p \in connections \cap unread :
    p \in isSet \/ (cur = p /\ manager \in {"serve", "rearm"})

\* Neither is a connection forgotten that waits at a listener.
BacklogIsSet ==
  \A l \in listeners :
    backlog[l] # {} => l \in isSet \/ (cur = l /\ manager = "rearm_listener")

\* Every socket has one place in the table, however places are taken and
\* given up: a socket without one would never be served, and a socket with
\* two would be served after its end.
TableHasAll ==
  /\ \A s \in connections \cup listeners : \E i \in DOMAIN events : events[i] = s
  /\ \A i, j \in DOMAIN events : events[i] = events[j] => i = j

\* What a client sends is read, or its connection or the server ends.
UnreadIsRead ==
  \A p \in Peers :
    p \in unread \cap connections ~> p \notin unread \cap connections \/ manager = "ended"

\* A connection does not wait at a listener for ever.
PeersAreAccepted ==
  \A p \in Peers : peer[p] = "waiting" ~> peer[p] # "waiting" \/ manager = "ended"

\* Whoever comes is let in, and whatever is sent is read, although every event
\* is cancelled, reset and selected again around each turn of the host thread
\* and the lowest one that is set is always served first.
PeersAreServed == UnreadIsRead /\ PeersAreAccepted
=============================================================================
