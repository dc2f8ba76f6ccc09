------------------------- MODULE SocketManagerProofs -------------------------
(***************************************************************************)
(* Proofs about SocketManager, for any number of sockets and of places in  *)
(* the table: no event is lost, and every socket has its place.            *)
(***************************************************************************)
EXTENDS SocketManager, TLAPS

(***************************************************************************)
(* The inductive invariant: outside its turn every socket is selected, so  *)
(* what comes sets its event; the table has the registered sockets and     *)
(* those whose selection failed, each once; the socket that is served is   *)
(* registered.                                                             *)
(***************************************************************************)
Table(q) == {q[i] : i \in DOMAIN q}
Once(q) == \A i, j \in DOMAIN q : q[i] = q[j] => i = j

TableHasOnly == Table(events) \subseteq listeners \cup {p \in Peers : peer[p] \in {"connected", "removed"}}

ServedIsRegistered ==
  /\ manager \in {"cancel", "reset", "serve", "rearm"} => cur \in connections
  /\ manager \in {"accept", "relisten", "rearm_listener"} => cur \in listeners

ServedIsSet == manager \in {"cancel", "reset"} => cur \in isSet

Selected ==
  /\ \A p \in connections : p \in selected \/ (cur = p /\ manager \in {"reset", "serve", "rearm"})
  /\ \A l \in listeners : l \in selected \/ (cur = l /\ manager = "rearm_listener")

IInv ==
  /\ SocketsTypeOK
  /\ TableHasAll
  /\ TableHasOnly
  /\ ServedIsRegistered
  /\ ServedIsSet
  /\ Selected
  /\ UnreadIsSet
  /\ BacklogIsSet

USE NamesAssumption, BoundsAssumption, FaultsAssumption

-----------------------------------------------------------------------------
(* The table.                                                              *)

LEMMA Removed ==
  ASSUME events \in Seq(Socks), Once(events), NEW s \in Table(events)
  PROVE  /\ Without(s) \in Seq(Socks)
         /\ Len(Without(s)) = Len(events) - 1
         /\ Once(Without(s))
         /\ Table(Without(s)) = Table(events) \ {s}
<1> DEFINE n == Len(events)
           k == IndexOf(s)
           W == Without(s)
<1>1. n \in Nat /\ DOMAIN events = 1 .. n /\ \A i \in 1 .. n : events[i] \in Socks
  OBVIOUS
<1>2. k \in 1 .. n /\ events[k] = s
  <2>1. \E i \in DOMAIN events : events[i] = s
    BY DEF Table
  <2> QED BY <1>1, <2>1 DEF IndexOf
<1>3. W = [i \in 1 .. n - 1 |-> IF i < k THEN events[i] ELSE events[i + 1]]
  BY DEF Without
<1> HIDE DEF k, W
<1>4. n - 1 \in Nat /\ DOMAIN W = 1 .. (n - 1)
  BY <1>1, <1>2, <1>3
<1>5. \A i \in 1 .. (n - 1) :
        /\ i < k => W[i] = events[i] /\ i \in 1 .. n /\ i # k
        /\ ~(i < k) => W[i] = events[i + 1] /\ i + 1 \in 1 .. n /\ i + 1 # k
  BY <1>1, <1>2, <1>3
<1>6. \A i \in 1 .. (n - 1) : W[i] \in Socks
  BY <1>1, <1>5
<1>7. W \in Seq(Socks) /\ Len(W) = n - 1
  <2>1. W \in [1 .. (n - 1) -> Socks]
    BY <1>3, <1>6
  <2> QED BY <1>4, <2>1
<1>8. Once(W)
  <2> SUFFICES ASSUME NEW i \in 1 .. (n - 1), NEW j \in 1 .. (n - 1), W[i] = W[j] PROVE i = j
    BY <1>4 DEF Once
  <2>1. CASE i < k /\ j < k
    BY <1>1, <1>5, <2>1 DEF Once
  <2>2. CASE i < k /\ ~(j < k)
    <3>1. i = j + 1
      BY <1>1, <1>5, <2>2 DEF Once
    <3> QED BY <1>2, <2>2, <3>1
  <2>3. CASE ~(i < k) /\ j < k
    <3>1. j = i + 1
      BY <1>1, <1>5, <2>3 DEF Once
    <3> QED BY <1>2, <2>3, <3>1
  <2>4. CASE ~(i < k) /\ ~(j < k)
    <3>1. i + 1 = j + 1
      BY <1>1, <1>5, <2>4 DEF Once
    <3> QED BY <3>1
  <2> QED BY <2>1, <2>2, <2>3, <2>4
<1>9. ASSUME NEW u \in Table(W) PROVE u \in Table(events) \ {s}
  <2>1. PICK i \in 1 .. (n - 1) : u = W[i]
    BY <1>4, <1>9 DEF Table
  <2>2. PICK j \in 1 .. n : u = events[j] /\ j # k
    BY <1>5, <2>1
  <2>3. events[j] # s
    BY <1>1, <1>2, <2>2 DEF Once
  <2> QED BY <1>1, <2>2, <2>3 DEF Table
<1>10. ASSUME NEW u \in Table(events) \ {s} PROVE u \in Table(W)
  <2>1. PICK j \in 1 .. n : u = events[j]
    BY <1>1, <1>10 DEF Table
  <2>2. j # k
    BY <1>2, <1>10, <2>1
  <2>3. CASE j < k
    <3>1. j \in 1 .. (n - 1) /\ W[j] = u
      BY <1>1, <1>2, <1>5, <2>1, <2>3
    <3> QED BY <1>4, <3>1 DEF Table
  <2>4. CASE j > k
    <3>1. j - 1 \in 1 .. (n - 1) /\ ~(j - 1 < k) /\ (j - 1) + 1 = j
      BY <1>1, <1>2, <2>4
    <3>2. W[j - 1] = u
      BY <1>5, <2>1, <3>1
    <3> QED BY <1>4, <3>1, <3>2 DEF Table
  <2> QED BY <1>2, <2>2, <2>3, <2>4
<1> QED BY <1>7, <1>8, <1>9, <1>10 DEF W

LEMMA Added ==
  ASSUME NEW q \in Seq(Socks), Once(q), NEW s \in Socks, s \notin Table(q)
  PROVE  /\ Append(q, s) \in Seq(Socks)
         /\ Len(Append(q, s)) = Len(q) + 1
         /\ Once(Append(q, s))
         /\ Table(Append(q, s)) = Table(q) \cup {s}
<1> DEFINE n == Len(q)
           A == Append(q, s)
<1>1. n \in Nat /\ DOMAIN q = 1 .. n
  OBVIOUS
<1>2. /\ A \in Seq(Socks) /\ Len(A) = n + 1 /\ DOMAIN A = 1 .. (n + 1)
      /\ A[n + 1] = s /\ \A i \in 1 .. n : A[i] = q[i]
  BY <1>1
<1> HIDE DEF A
<1>3. \A i \in 1 .. n : A[i] # s
  BY <1>1, <1>2 DEF Table
<1>4. ASSUME NEW i \in DOMAIN A, NEW j \in DOMAIN A, A[i] = A[j] PROVE i = j
  <2>1. CASE i = n + 1 \/ j = n + 1
    BY <1>1, <1>2, <1>3, <1>4, <2>1
  <2>2. CASE i \in 1 .. n /\ j \in 1 .. n
    BY <1>1, <1>2, <1>4, <2>2 DEF Once
  <2> QED BY <1>1, <1>2, <2>1, <2>2
<1>5. Table(A) = Table(q) \cup {s}
  <2>1. ASSUME NEW u \in Table(A) PROVE u \in Table(q) \cup {s}
    <3>1. PICK i \in 1 .. (n + 1) : u = A[i]
      BY <1>2, <2>1 DEF Table
    <3>2. CASE i = n + 1
      BY <1>2, <3>1, <3>2
    <3>3. CASE i \in 1 .. n
      BY <1>1, <1>2, <3>1, <3>3 DEF Table
    <3> QED BY <1>1, <3>2, <3>3
  <2>2. ASSUME NEW u \in Table(q) PROVE u \in Table(A)
    <3>1. PICK i \in 1 .. n : u = q[i]
      BY <1>1, <2>2 DEF Table
    <3>2. i \in 1 .. (n + 1) /\ A[i] = u
      BY <1>1, <1>2, <3>1
    <3> QED BY <1>2, <3>2 DEF Table
  <2>3. s \in Table(A)
    <3>1. n + 1 \in 1 .. (n + 1)
      BY <1>1
    <3> QED BY <1>2, <3>1 DEF Table
  <2> QED BY <2>1, <2>2, <2>3
<1> QED BY <1>2, <1>4, <1>5 DEF Once, A

\* What TableHasAll says of the set of events in the table.
LEMMA TableMeaning ==
  /\ TableHasAll <=> connections \cup listeners \subseteq Table(events) /\ Once(events)
  /\ TableHasAll' <=> connections' \cup listeners' \subseteq Table(events') /\ Once(events')
BY DEF TableHasAll, Table, Once

LEMMA RemSocketKeepsTable ==
  ASSUME IInv, NEW p \in connections, remSocket(p), UNCHANGED listeners
  PROVE  /\ events' \in Seq(Socks) /\ Len(events') <= MaxEvents
         /\ peer' \in [Peers -> PeerStates]
         /\ TableHasAll' /\ TableHasOnly'
         /\ connections' = connections \ {p}
<1>1. /\ events \in Seq(Socks) /\ Len(events) <= MaxEvents /\ Len(events) \in Nat
      /\ peer \in [Peers -> PeerStates]
      /\ Once(events) /\ p \in Table(events) /\ p \in Peers
      /\ connections \cup listeners \subseteq Table(events)
      /\ p \notin listeners
  BY TableMeaning DEF IInv, SocketsTypeOK, connections
<1>2. /\ events' \in Seq(Socks)
      /\ Len(events') = Len(events) - 1
      /\ Once(events')
      /\ Table(events') = Table(events) \ {p}
  BY <1>1, Removed DEF remSocket
<1>3. /\ peer' = [peer EXCEPT ![p] = "removed"]
      /\ connections' = connections \ {p}
      /\ peer' \in [Peers -> PeerStates]
  BY <1>1 DEF remSocket, connections, PeerStates
<1>4. TableHasAll'
  BY <1>1, <1>2, <1>3, TableMeaning
<1>5. TableHasOnly'
  BY <1>1, <1>2, <1>3 DEF IInv, TableHasOnly
<1> QED BY <1>1, <1>2, <1>3, <1>4, <1>5

LEMMA AddSocketKeepsTable ==
  ASSUME IInv, NEW p \in Peers, peer[p] \notin {"connected", "removed"},
         NEW set \in SUBSET Socks, addSocket(p, set), UNCHANGED listeners
  PROVE  /\ events' \in Seq(Socks) /\ Len(events') <= MaxEvents
         /\ peer' \in [Peers -> PeerStates] /\ isShutdown' \subseteq Peers
         /\ TableHasAll' /\ TableHasOnly'
         /\ connections \subseteq connections' /\ connections' \subseteq connections \cup {p}
         /\ selected' \subseteq Socks /\ selected \subseteq selected'
         /\ isSet' \subseteq Socks /\ set \subseteq isSet'
         /\ p \in connections' => p \in selected' /\ (p \in unread => p \in isSet')
<1>1. /\ events \in Seq(Socks) /\ Len(events) <= MaxEvents /\ Len(events) \in Nat
      /\ peer \in [Peers -> PeerStates] /\ p \in Socks
      /\ Once(events) /\ connections \cup listeners \subseteq Table(events)
      /\ isShutdown \subseteq Peers /\ selected \subseteq Socks
      /\ p \notin connections /\ listeners \subseteq Listeners
  BY TableMeaning DEF IInv, SocketsTypeOK, connections, Socks
<1>2. p \notin Table(events)
  BY <1>1 DEF IInv, TableHasOnly
<1>3. /\ Append(events, p) \in Seq(Socks)
      /\ Len(Append(events, p)) = Len(events) + 1
      /\ Once(Append(events, p))
      /\ Table(Append(events, p)) = Table(events) \cup {p}
  BY <1>1, <1>2, Added
<1>4. CASE /\ Full \/ "add" \in Faults
           /\ peer' = [peer EXCEPT ![p] = "removed"]
           /\ events' = IF Full THEN events ELSE Append(events, p)
           /\ isSet' = set
           /\ UNCHANGED <<selected, isShutdown>>
  <2>1. connections' = connections /\ peer' \in [Peers -> PeerStates]
    BY <1>1, <1>4 DEF connections, PeerStates
  <2>2. /\ events' \in Seq(Socks) /\ Len(events') <= MaxEvents /\ Once(events')
        /\ Table(events) \subseteq Table(events') /\ Table(events') \subseteq Table(events) \cup {p}
    BY <1>1, <1>3, <1>4 DEF Full
  <2>3. TableHasAll'
    BY <1>1, <2>1, <2>2, TableMeaning
  <2>4. TableHasOnly'
    BY <1>1, <1>4, <2>2 DEF IInv, TableHasOnly
  <2> QED BY <1>1, <1>4, <2>1, <2>2, <2>3, <2>4
<1>5. CASE /\ ~Full
           /\ peer' = [peer EXCEPT ![p] = "connected"]
           /\ events' = Append(events, p)
           /\ selected' = selected \cup {p}
           /\ isSet' = SetIf(set, p, p \in unread)
           /\ isShutdown' \in {isShutdown, isShutdown \cup {p}}
  <2>1. connections' = connections \cup {p} /\ peer' \in [Peers -> PeerStates]
    BY <1>1, <1>5 DEF connections, PeerStates
  <2>2. Len(events') <= MaxEvents
    BY <1>1, <1>3, <1>5 DEF Full
  <2>3. TableHasAll'
    BY <1>1, <1>3, <1>5, <2>1, TableMeaning
  <2>4. TableHasOnly'
    BY <1>1, <1>3, <1>5 DEF IInv, TableHasOnly
  <2>5. isSet' \subseteq Socks /\ set \subseteq isSet' /\ (p \in unread => p \in isSet')
    BY <1>1, <1>5 DEF SetIf
  <2> QED BY <1>1, <1>3, <1>5, <2>1, <2>2, <2>3, <2>4, <2>5
<1> QED BY <1>4, <1>5 DEF addSocket

-----------------------------------------------------------------------------
(* The invariant, action by action.                                        *)

LEMMA InitHolds == SocketsInit => IInv
<1> SUFFICES ASSUME SocketsInit PROVE IInv
  OBVIOUS
<1>1. SocketsTypeOK
  BY DEF SocketsInit, SocketsTypeOK, PeerStates, HostStates, Socks
<1>2. connections = {} /\ Table(events) = {} /\ Once(events)
  BY DEF SocketsInit, connections, Table, Once
<1>3. TableHasAll /\ TableHasOnly
  BY <1>2, TableMeaning DEF SocketsInit, TableHasOnly
<1> QED BY <1>1, <1>2, <1>3 DEF SocketsInit, IInv, ServedIsRegistered, ServedIsSet, Selected, UnreadIsSet, BacklogIsSet

\* Steps of the loop that change no socket.
LEMMA LoopKeeps ==
  ASSUME IInv, CheckTimeouts \/ SweepDone \/ WaitFails
                 \/ \E closed \in SUBSET connections \ {{}} : ServerCloses(closed)
  PROVE  IInv'
<1>1. UNCHANGED <<events, listeners, peer, backlog, selected, isSet, unread, sent, cur>>
  BY DEF CheckTimeouts, SweepDone, WaitFails, ServerCloses, Goto, netVars, eventVars
<1>2. manager' \in {"sweep", "wait", "ended", "timeouts"} /\ manager \in {"timeouts", "sweep", "wait"}
  BY DEF CheckTimeouts, SweepDone, WaitFails, ServerCloses, Goto, Woken
<1>3. isShutdown' \subseteq Peers
  <2>1. isShutdown \subseteq Peers /\ connections \subseteq Peers
    BY DEF IInv, SocketsTypeOK, connections
  <2>2. CASE CheckTimeouts
    BY <2>1, <2>2 DEF CheckTimeouts
  <2>3. CASE \E closed \in SUBSET connections \ {{}} : ServerCloses(closed)
    BY <2>1, <2>3 DEF ServerCloses
  <2>4. CASE UNCHANGED isShutdown
    BY <2>1, <2>4
  <2> QED BY <2>2, <2>3, <2>4 DEF SweepDone, WaitFails, netVars
<1>4. SocketsTypeOK'
  BY <1>1, <1>2, <1>3 DEF IInv, SocketsTypeOK, HostStates
<1>5. TableHasAll' /\ TableHasOnly' /\ connections' = connections
  BY <1>1 DEF IInv, TableHasAll, TableHasOnly, connections, Table
<1>6. ServedIsRegistered' /\ ServedIsSet'
  BY <1>2 DEF ServedIsRegistered, ServedIsSet
<1>7. Selected' /\ UnreadIsSet' /\ BacklogIsSet'
  BY <1>1, <1>2, <1>5 DEF IInv, Selected, UnreadIsSet, BacklogIsSet
<1> QED BY <1>4, <1>5, <1>6, <1>7 DEF IInv

\* The socket that is removed is the one that is served, or none is.
LEMMA RemovalKeeps ==
  ASSUME IInv, NEW p \in connections, remSocket(p), UNCHANGED <<listeners, backlog, cur, sent>>,
         unread' \subseteq unread, isShutdown' \subseteq Peers,
         \A u \in connections \ {p} : u \in unread' <=> u \in unread,
         manager' \in {"sweep", "timeouts"},
         manager = "sweep" \/ (cur = p /\ manager \in {"cancel", "serve", "rearm"})
  PROVE  IInv'
<1>1. /\ events' \in Seq(Socks) /\ Len(events') <= MaxEvents
      /\ peer' \in [Peers -> PeerStates]
      /\ TableHasAll' /\ TableHasOnly'
      /\ connections' = connections \ {p}
  BY RemSocketKeepsTable
<1>2. /\ selected' = selected \ {p} /\ isSet' = isSet \ {p}
      /\ p \notin listeners
  BY DEF remSocket, connections, IInv, SocketsTypeOK
<1>3. SocketsTypeOK'
  BY <1>1, <1>2 DEF IInv, SocketsTypeOK, HostStates
<1>4. ServedIsRegistered' /\ ServedIsSet'
  BY DEF ServedIsRegistered, ServedIsSet
<1>5. Selected'
  BY <1>1, <1>2 DEF IInv, Selected
<1>6. UnreadIsSet'
  <2> SUFFICES ASSUME NEW u \in connections \ {p}, u \in unread PROVE u \in isSet'
    BY <1>1 DEF UnreadIsSet
  <2>1. u \in isSet
    BY DEF IInv, UnreadIsSet
  <2> QED BY <1>2, <2>1
<1>7. BacklogIsSet'
  <2> SUFFICES ASSUME NEW l \in listeners, backlog[l] # {} PROVE l \in isSet'
    BY DEF BacklogIsSet
  <2>1. l \in isSet
    BY DEF IInv, BacklogIsSet
  <2> QED BY <1>2, <2>1
<1> QED BY <1>1, <1>3, <1>4, <1>5, <1>6, <1>7 DEF IInv

LEMMA SweepSocketKeeps ==
  ASSUME IInv, NEW p \in Peers, SweepSocket(p)
  PROVE  IInv'
<1>1. p \in connections /\ remSocket(p) /\ manager = "sweep" /\ manager' = "sweep"
  BY DEF SweepSocket, managerVars
<1>2. UNCHANGED <<listeners, backlog, cur, sent, unread, isShutdown>>
  BY DEF SweepSocket, managerVars
<1>3. isShutdown' \subseteq Peers
  BY <1>2 DEF IInv, SocketsTypeOK
<1> QED BY <1>1, <1>2, <1>3, RemovalKeeps

LEMMA ThrowKeeps ==
  ASSUME IInv, NEW fault, NEW place \in {"cancel", "rearm"}, Throw(fault, place)
  PROVE  IInv'
<1>1. cur \in connections /\ remSocket(cur) /\ manager = place /\ manager' = "timeouts"
  BY DEF Throw, Goto, IInv, ServedIsRegistered
<1>2. UNCHANGED <<listeners, backlog, cur, sent, unread, isShutdown>>
  BY DEF Throw, Goto
<1>3. isShutdown' \subseteq Peers
  BY <1>2 DEF IInv, SocketsTypeOK
<1> QED BY <1>1, <1>2, <1>3, RemovalKeeps

LEMMA ServeKeeps ==
  ASSUME IInv, Serve
  PROVE  IInv'
<1>1. PICK closed \in SUBSET connections :
        /\ isShutdown' = isShutdown \cup closed
        /\ IF cur \in isShutdown'
           THEN remSocket(cur) /\ Goto("timeouts")
           ELSE Goto("rearm") /\ UNCHANGED <<peer, events, selected, isSet>>
  BY DEF Serve
<1>2. /\ manager = "serve" /\ cur \in connections /\ unread' = unread \ {cur}
      /\ UNCHANGED <<backlog, sent, listeners>>
  BY DEF Serve, IInv, ServedIsRegistered
<1>3. isShutdown' \subseteq Peers
  BY <1>1 DEF IInv, SocketsTypeOK, connections
<1>4. CASE cur \in isShutdown'
  <2>1. remSocket(cur) /\ manager' = "timeouts" /\ UNCHANGED cur
    BY <1>1, <1>4 DEF Goto
  <2> QED BY <1>2, <1>3, <2>1, RemovalKeeps
<1>5. CASE cur \notin isShutdown'
  <2>1. manager' = "rearm" /\ UNCHANGED <<cur, peer, events, selected, isSet>>
    BY <1>1, <1>5 DEF Goto
  <2>2. SocketsTypeOK'
    BY <1>2, <1>3, <2>1 DEF IInv, SocketsTypeOK, HostStates
  <2>3. TableHasAll' /\ TableHasOnly' /\ connections' = connections
    BY <1>2, <2>1 DEF IInv, TableHasAll, TableHasOnly, connections, Table
  <2>4. ServedIsRegistered' /\ ServedIsSet'
    BY <1>2, <2>1, <2>3 DEF ServedIsRegistered, ServedIsSet
  <2>5. Selected' /\ UnreadIsSet' /\ BacklogIsSet'
    BY <1>2, <2>1, <2>3 DEF IInv, Selected, UnreadIsSet, BacklogIsSet
  <2> QED BY <2>2, <2>3, <2>4, <2>5 DEF IInv
<1> QED BY <1>4, <1>5

\* Steps that only select the event of the served socket, or reset it.
LEMMA ArmingKeeps ==
  ASSUME IInv,
         \/ ResetListener \/ RearmListener \/ Reset
         \/ /\ manager = "cancel"
            /\ selected' = selected \ {cur}
            /\ Goto("reset")
            /\ UNCHANGED <<netVars, events, listeners, isSet>>
         \/ /\ manager = "rearm"
            /\ selected' = selected \cup {cur}
            /\ isSet' = SetIf(isSet, cur, cur \in unread)
            /\ Goto("timeouts")
            /\ UNCHANGED <<netVars, events, listeners>>
  PROVE  IInv'
<1>1. UNCHANGED <<events, listeners, peer, backlog, isShutdown, unread, sent, cur>>
  BY DEF ResetListener, RearmListener, Reset, Goto, netVars
<1>2. TableHasAll' /\ TableHasOnly' /\ connections' = connections
  BY <1>1 DEF IInv, TableHasAll, TableHasOnly, connections, Table
<1>3. /\ cur \in Socks /\ selected \subseteq Socks /\ isSet \subseteq Socks
      /\ connections \cap listeners = {}
  BY DEF IInv, SocketsTypeOK, connections
<1>4. ASSUME ResetListener PROVE IInv'
  <2>1. /\ manager = "relisten" /\ manager' = "rearm_listener" /\ cur \in listeners
        /\ selected' = selected \ {cur} /\ isSet' = isSet \ {cur}
    BY <1>4 DEF ResetListener, Goto, IInv, ServedIsRegistered
  <2>2. SocketsTypeOK'
    BY <1>1, <1>3, <2>1 DEF IInv, SocketsTypeOK, HostStates
  <2>3. ServedIsRegistered' /\ ServedIsSet' /\ Selected' /\ UnreadIsSet' /\ BacklogIsSet'
    BY <1>1, <1>2, <1>3, <2>1 DEF IInv, ServedIsRegistered, ServedIsSet, Selected, UnreadIsSet, BacklogIsSet
  <2> QED BY <1>2, <2>2, <2>3 DEF IInv
<1>5. ASSUME RearmListener PROVE IInv'
  <2>1. /\ manager = "rearm_listener" /\ manager' = "timeouts" /\ cur \in listeners
        /\ selected' = selected \cup {cur} /\ isSet' = SetIf(isSet, cur, backlog[cur] # {})
    BY <1>5 DEF RearmListener, Goto, IInv, ServedIsRegistered
  <2>2. SocketsTypeOK'
    BY <1>1, <1>3, <2>1 DEF IInv, SocketsTypeOK, HostStates, SetIf
  <2>3. ServedIsRegistered' /\ ServedIsSet' /\ Selected' /\ UnreadIsSet'
    BY <1>1, <1>2, <1>3, <2>1 DEF IInv, ServedIsRegistered, ServedIsSet, Selected, UnreadIsSet, SetIf
  <2>4. BacklogIsSet'
    BY <1>1, <2>1 DEF IInv, BacklogIsSet, SetIf
  <2> QED BY <1>2, <2>2, <2>3, <2>4 DEF IInv
<1>6. ASSUME Reset PROVE IInv'
  <2>1. /\ manager = "reset" /\ manager' = "serve" /\ cur \in connections
        /\ selected' = selected /\ isSet' = isSet \ {cur}
    BY <1>6 DEF Reset, Goto, IInv, ServedIsRegistered
  <2>2. SocketsTypeOK'
    BY <1>1, <1>3, <2>1 DEF IInv, SocketsTypeOK, HostStates
  <2>3. ServedIsRegistered' /\ ServedIsSet' /\ Selected' /\ UnreadIsSet' /\ BacklogIsSet'
    BY <1>1, <1>2, <1>3, <2>1 DEF IInv, ServedIsRegistered, ServedIsSet, Selected, UnreadIsSet, BacklogIsSet
  <2> QED BY <1>2, <2>2, <2>3 DEF IInv
<1>7. ASSUME manager = "cancel", selected' = selected \ {cur}, Goto("reset"), UNCHANGED isSet PROVE IInv'
  <2>1. manager' = "reset" /\ cur \in connections
    BY <1>7 DEF Goto, IInv, ServedIsRegistered
  <2>2. SocketsTypeOK'
    BY <1>1, <1>3, <1>7, <2>1 DEF IInv, SocketsTypeOK, HostStates
  <2>3. ServedIsRegistered' /\ ServedIsSet' /\ Selected' /\ UnreadIsSet' /\ BacklogIsSet'
    BY <1>1, <1>2, <1>3, <1>7, <2>1 DEF IInv, ServedIsRegistered, ServedIsSet, Selected, UnreadIsSet, BacklogIsSet
  <2> QED BY <1>2, <2>2, <2>3 DEF IInv
<1>8. ASSUME manager = "rearm", selected' = selected \cup {cur}, isSet' = SetIf(isSet, cur, cur \in unread),
             Goto("timeouts")
      PROVE  IInv'
  <2>1. manager' = "timeouts" /\ cur \in connections
    BY <1>8 DEF Goto, IInv, ServedIsRegistered
  <2>2. SocketsTypeOK'
    BY <1>1, <1>3, <1>8, <2>1 DEF IInv, SocketsTypeOK, HostStates, SetIf
  <2>3. ServedIsRegistered' /\ ServedIsSet' /\ Selected' /\ BacklogIsSet'
    BY <1>1, <1>2, <1>3, <1>8, <2>1 DEF IInv, ServedIsRegistered, ServedIsSet, Selected, BacklogIsSet, SetIf
  <2>4. UnreadIsSet'
    BY <1>1, <1>2, <1>8, <2>1 DEF IInv, UnreadIsSet, SetIf
  <2> QED BY <1>2, <2>2, <2>3, <2>4 DEF IInv
<1> QED BY <1>4, <1>5, <1>6, <1>7, <1>8

LEMMA DispatchKeeps ==
  ASSUME IInv, Dispatch
  PROVE  IInv'
<1>1. PICK i \in DOMAIN events :
        /\ IsFirst(i) /\ cur' = events[i]
        /\ manager' = IF events[i] \in listeners THEN "accept" ELSE "cancel"
  BY DEF Dispatch
<1>2. /\ UNCHANGED <<events, listeners, peer, backlog, isShutdown, selected, isSet, unread, sent>>
      /\ manager = "wait" /\ Stale = {}
  BY DEF Dispatch, Woken, netVars, eventVars
<1>3. cur' \in connections \cup listeners
  BY <1>1, <1>2 DEF Stale
<1>4. cur' \in isSet /\ cur' \in Socks
  BY <1>1 DEF IsFirst, IInv, SocketsTypeOK
<1>5. SocketsTypeOK'
  BY <1>1, <1>2, <1>4 DEF IInv, SocketsTypeOK, HostStates
<1>6. TableHasAll' /\ TableHasOnly' /\ connections' = connections
  BY <1>2 DEF IInv, TableHasAll, TableHasOnly, connections, Table
<1>7. ServedIsRegistered' /\ ServedIsSet'
  BY <1>1, <1>2, <1>3, <1>4, <1>6 DEF ServedIsRegistered, ServedIsSet
<1>8. Selected' /\ UnreadIsSet' /\ BacklogIsSet'
  BY <1>1, <1>2, <1>6 DEF IInv, Selected, UnreadIsSet, BacklogIsSet
<1> QED BY <1>5, <1>6, <1>7, <1>8 DEF IInv

\* A connection leaves the backlog of its listener, and is registered or not.
LEMMA AcceptKeeps ==
  ASSUME IInv, NEW p \in Peers, Accept(p)
  PROVE  IInv'
<1> DEFINE set == SetIf(isSet \ {cur}, cur, backlog[cur] # {p})
<1>1. /\ manager = "accept" /\ cur \in listeners /\ p \in backlog[cur]
      /\ backlog' = [backlog EXCEPT ![cur] = @ \ {p}]
      /\ UNCHANGED <<unread, sent, listeners>>
  BY DEF Accept, IInv, ServedIsRegistered
<1>2. /\ manager' \in {"ended", "relisten"} /\ UNCHANGED cur /\ peer[p] \in {"waiting", "aborted"}
  BY DEF Accept, Goto
<1>3. /\ listeners \subseteq Listeners /\ isSet \subseteq Socks /\ cur \in Socks
      /\ peer \in [Peers -> PeerStates] /\ backlog \in [Listeners -> SUBSET Peers]
      /\ connections \cap listeners = {}
  BY DEF IInv, SocketsTypeOK, connections
<1>4. /\ set \subseteq Socks /\ isSet \ {cur} \subseteq set
      /\ backlog[cur] # {p} => cur \in set
  BY <1>3 DEF SetIf
<1> HIDE DEF set
<1>5. /\ events' \in Seq(Socks) /\ Len(events') <= MaxEvents
      /\ peer' \in [Peers -> PeerStates] /\ isShutdown' \subseteq Peers
      /\ TableHasAll' /\ TableHasOnly'
      /\ connections \subseteq connections' /\ connections' \subseteq connections \cup {p}
      /\ selected' \subseteq Socks /\ selected \subseteq selected'
      /\ isSet' \subseteq Socks /\ set \subseteq isSet'
      /\ p \in connections' => p \in selected' /\ (p \in unread => p \in isSet')
  <2>1. CASE addSocket(p, set)
    BY <1>1, <1>2, <1>4, <2>1, AddSocketKeepsTable
  <2>2. CASE peer' = [peer EXCEPT ![p] = "removed"] /\ isSet' = set /\ UNCHANGED <<events, selected, isShutdown>>
    <3>1. peer' \in [Peers -> PeerStates] /\ connections' = connections
      BY <1>2, <1>3, <2>2 DEF connections, PeerStates
    <3>2. TableHasAll'
      BY <1>1, <2>2, <3>1 DEF IInv, TableHasAll
    <3>3. TableHasOnly'
      <4>1. Table(events') = Table(events)
        BY <2>2
      <4> SUFFICES ASSUME NEW s \in Table(events), s \notin listeners
                   PROVE  s \in Peers /\ peer'[s] \in {"connected", "removed"}
        BY <1>1, <4>1 DEF TableHasOnly
      <4>2. s \in Peers /\ peer[s] \in {"connected", "removed"}
        BY DEF IInv, TableHasOnly
      <4>3. peer'[s] = IF s = p THEN "removed" ELSE peer[s]
        BY <1>3, <2>2, <4>2
      <4> QED BY <4>2, <4>3
    <3>4. p \notin connections'
      BY <1>2, <3>1 DEF connections
    <3>5. events' \in Seq(Socks) /\ Len(events') <= MaxEvents /\ isShutdown' \subseteq Peers
          /\ selected' = selected /\ selected \subseteq Socks
      BY <2>2 DEF IInv, SocketsTypeOK
    <3> QED BY <1>4, <2>2, <3>1, <3>2, <3>3, <3>4, <3>5
  <2> QED BY <2>1, <2>2 DEF Accept, set
<1>6. SocketsTypeOK'
  BY <1>1, <1>2, <1>3, <1>5 DEF IInv, SocketsTypeOK, HostStates
<1>7. ServedIsRegistered' /\ ServedIsSet'
  BY <1>1, <1>2 DEF ServedIsRegistered, ServedIsSet
<1>8. Selected'
  BY <1>1, <1>2, <1>5 DEF IInv, Selected
<1>9. UnreadIsSet'
  <2> SUFFICES ASSUME NEW u \in connections', u \in unread PROVE u \in isSet'
    BY <1>1 DEF UnreadIsSet
  <2>1. CASE u = p
    BY <1>5, <2>1
  <2>2. CASE u # p
    <3>1. u \in connections
      BY <1>5, <2>2
    <3>2. u \in isSet \ {cur}
      BY <1>1, <1>3, <3>1 DEF IInv, UnreadIsSet
    <3> QED BY <1>4, <1>5, <3>2
  <2> QED BY <2>1, <2>2
<1>10. BacklogIsSet'
  <2> SUFFICES ASSUME NEW l \in listeners, backlog'[l] # {} PROVE l \in isSet'
    BY <1>1 DEF BacklogIsSet
  <2>1. CASE l = cur
    <3>1. backlog'[l] = backlog[cur] \ {p}
      BY <1>1, <1>3, <2>1
    <3> QED BY <1>4, <1>5, <2>1, <3>1
  <2>2. CASE l # cur
    <3>1. backlog'[l] = backlog[l]
      BY <1>1, <1>3, <2>2
    <3>2. l \in isSet \ {cur}
      BY <1>1, <2>2, <3>1 DEF IInv, BacklogIsSet
    <3> QED BY <1>4, <1>5, <3>2
  <2> QED BY <2>1, <2>2
<1> QED BY <1>5, <1>6, <1>7, <1>8, <1>9, <1>10 DEF IInv

LEMMA AddClientKeeps ==
  ASSUME IInv, NEW p \in Peers, AddClient(p)
  PROVE  IInv'
<1>1. /\ manager = "wait" /\ manager' = "timeouts" /\ peer[p] = "new" /\ addSocket(p, isSet)
      /\ UNCHANGED <<backlog, unread, sent, listeners, cur>> /\ isSet \subseteq Socks
  BY DEF AddClient, Woken, Goto, IInv, SocketsTypeOK
<1>2. /\ events' \in Seq(Socks) /\ Len(events') <= MaxEvents
      /\ peer' \in [Peers -> PeerStates] /\ isShutdown' \subseteq Peers
      /\ TableHasAll' /\ TableHasOnly'
      /\ connections \subseteq connections' /\ connections' \subseteq connections \cup {p}
      /\ selected' \subseteq Socks /\ selected \subseteq selected'
      /\ isSet' \subseteq Socks /\ isSet \subseteq isSet'
      /\ p \in connections' => p \in selected' /\ (p \in unread => p \in isSet')
  BY <1>1, AddSocketKeepsTable
<1>3. SocketsTypeOK'
  BY <1>1, <1>2 DEF IInv, SocketsTypeOK, HostStates
<1>4. ServedIsRegistered' /\ ServedIsSet'
  BY <1>1 DEF ServedIsRegistered, ServedIsSet
<1>5. Selected' /\ UnreadIsSet' /\ BacklogIsSet'
  BY <1>1, <1>2 DEF IInv, Selected, UnreadIsSet, BacklogIsSet
<1> QED BY <1>2, <1>3, <1>4, <1>5 DEF IInv

LEMMA RefreshKeeps ==
  ASSUME IInv, NEW l \in Listeners, refresh(l)
  PROVE  IInv'
<1> DEFINE rest == IF l \in listeners THEN Without(l) ELSE events
<1>1. /\ manager = "wait" /\ manager' \in {"timeouts", "ended"}
      /\ backlog' = [backlog EXCEPT ![l] = {}]
      /\ peer' = [q \in Peers |-> IF q \in backlog[l] THEN "removed" ELSE peer[q]]
      /\ isSet' = isSet \ {l}
      /\ UNCHANGED <<isShutdown, unread, sent, cur>>
  BY DEF refresh, Woken, Goto
<1>2. /\ events \in Seq(Socks) /\ Len(events) <= MaxEvents /\ Len(events) \in Nat
      /\ Once(events) /\ connections \cup listeners \subseteq Table(events)
      /\ peer \in [Peers -> PeerStates] /\ backlog \in [Listeners -> SUBSET Peers]
      /\ selected \subseteq Socks /\ l \in Socks /\ l \notin Peers /\ listeners \subseteq Listeners
  BY TableMeaning DEF IInv, SocketsTypeOK, Socks
<1>3. /\ rest \in Seq(Socks) /\ Len(rest) \in Nat /\ Len(rest) <= MaxEvents
      /\ Once(rest) /\ Table(rest) = Table(events) \ {l}
  <2>1. CASE l \in listeners
    BY <1>2, <2>1, Removed
  <2>2. CASE l \notin listeners
    <3>1. l \notin Table(events)
      BY <1>2, <2>2 DEF IInv, TableHasOnly
    <3> QED BY <1>2, <2>2, <3>1
  <2> QED BY <2>1, <2>2
<1> HIDE DEF rest
<1>4. /\ peer' \in [Peers -> PeerStates] /\ connections' \subseteq connections
      /\ \A q \in Peers : peer[q] = "removed" => peer'[q] = "removed"
      /\ \A q \in Peers : peer[q] = "connected" => peer'[q] \in {"connected", "removed"}
  BY <1>1, <1>2 DEF connections, PeerStates
<1>5. /\ events' \in Seq(Socks) /\ Len(events') <= MaxEvents /\ Once(events')
      /\ listeners \ {l} \subseteq listeners' /\ listeners' \subseteq listeners \cup {l}
      /\ Table(events') = (Table(events) \ {l}) \cup (listeners' \cap {l})
      /\ selected' \subseteq Socks /\ selected \ {l} \subseteq selected'
      /\ l \in listeners' => l \in selected'
  <2>1. CASE /\ listeners' = listeners \ {l}
             /\ events' = rest
             /\ selected' = selected \ {l}
    BY <1>2, <1>3, <2>1
  <2>2. CASE /\ Len(rest) < MaxEvents
             /\ listeners' = listeners \cup {l}
             /\ events' = Append(rest, l)
             /\ selected' = selected \cup {l}
    <3>1. /\ events' \in Seq(Socks) /\ Len(events') = Len(rest) + 1 /\ Once(events')
          /\ Table(events') = Table(rest) \cup {l}
      BY <1>2, <1>3, <2>2, Added
    <3>2. Len(events') <= MaxEvents
      BY <1>3, <2>2, <3>1
    <3> QED BY <1>2, <1>3, <2>2, <3>1, <3>2
  <2> QED BY <2>1, <2>2 DEF refresh, rest
<1>6. SocketsTypeOK'
  BY <1>1, <1>2, <1>4, <1>5 DEF IInv, SocketsTypeOK, HostStates
<1>7. TableHasAll'
  BY <1>2, <1>4, <1>5, TableMeaning DEF connections
<1>8. TableHasOnly'
  <2> SUFFICES ASSUME NEW s \in Table(events'), s \notin listeners'
               PROVE  s \in Peers /\ peer'[s] \in {"connected", "removed"}
    BY DEF TableHasOnly
  <2>1. s \in Table(events) /\ s # l
    BY <1>5
  <2>2. s \in Peers /\ peer[s] \in {"connected", "removed"}
    BY <1>5, <2>1 DEF IInv, TableHasOnly
  <2> QED BY <1>4, <2>2
<1>9. ServedIsRegistered' /\ ServedIsSet'
  BY <1>1 DEF ServedIsRegistered, ServedIsSet
<1>10. Selected'
  BY <1>1, <1>2, <1>4, <1>5 DEF IInv, Selected, connections
<1>11. UnreadIsSet'
  BY <1>1, <1>2, <1>4 DEF IInv, UnreadIsSet, connections
<1>12. BacklogIsSet'
  BY <1>1, <1>2, <1>5 DEF IInv, BacklogIsSet
<1> QED BY <1>6, <1>7, <1>8, <1>9, <1>10, <1>11, <1>12 DEF IInv

LEMMA NetStepKeeps ==
  ASSUME IInv, NetStep
  PROVE  IInv'
<1>1. /\ peer \in [Peers -> PeerStates] /\ backlog \in [Listeners -> SUBSET Peers]
      /\ sent \in [Peers -> 0 .. MaxSends] /\ isSet \subseteq Socks
      /\ listeners \subseteq Listeners /\ connections \cap Listeners = {}
  BY DEF IInv, SocketsTypeOK, connections
<1>2. ASSUME NEW p \in Peers, NEW l \in Listeners, Connect(p, l) PROVE IInv'
  <2>1. /\ peer[p] = "new" /\ l \in listeners
        /\ peer' = [peer EXCEPT ![p] = "waiting"]
        /\ backlog' = [backlog EXCEPT ![l] = @ \cup {p}]
        /\ isSet' = SetIf(isSet, l, l \in selected)
        /\ UNCHANGED <<isShutdown, unread, sent, events, listeners, selected, manager, cur>>
    BY <1>2 DEF Connect, managerVars
  <2>2. connections' = connections /\ peer' \in [Peers -> PeerStates]
    BY <1>1, <2>1 DEF connections, PeerStates
  <2>3. /\ isSet' \subseteq Socks /\ isSet \subseteq isSet' /\ (l \in selected => l \in isSet')
        /\ isSet' \subseteq isSet \cup {l}
    BY <1>1, <2>1 DEF SetIf, Socks
  <2>4. SocketsTypeOK'
    BY <1>1, <2>1, <2>2, <2>3 DEF IInv, SocketsTypeOK
  <2>5. TableHasAll' /\ TableHasOnly'
    <3>1. TableHasAll'
      BY <2>1, <2>2 DEF IInv, TableHasAll
    <3>2. TableHasOnly'
      BY <1>1, <2>1 DEF IInv, TableHasOnly, Table
    <3> QED BY <3>1, <3>2
  <2>6. ServedIsRegistered' /\ ServedIsSet' /\ Selected' /\ UnreadIsSet'
    BY <2>1, <2>2, <2>3 DEF IInv, ServedIsRegistered, ServedIsSet, Selected, UnreadIsSet
  <2>7. BacklogIsSet'
    BY <1>1, <2>1, <2>3 DEF IInv, BacklogIsSet, Selected
  <2> QED BY <2>4, <2>5, <2>6, <2>7 DEF IInv
<1>3. ASSUME NEW p \in Peers, Abort(p) PROVE IInv'
  <2>1. /\ peer[p] = "waiting" /\ peer' = [peer EXCEPT ![p] = "aborted"]
        /\ UNCHANGED <<backlog, isShutdown, unread, sent, events, listeners, selected, isSet, manager, cur>>
    BY <1>3 DEF Abort, managerVars, eventVars
  <2>2. connections' = connections /\ peer' \in [Peers -> PeerStates]
    BY <1>1, <2>1 DEF connections, PeerStates
  <2>3. SocketsTypeOK'
    BY <2>1, <2>2 DEF IInv, SocketsTypeOK
  <2>4. TableHasAll'
    BY <2>1, <2>2 DEF IInv, TableHasAll
  <2>5. TableHasOnly'
    BY <1>1, <2>1 DEF IInv, TableHasOnly, Table
  <2>6. ServedIsRegistered' /\ ServedIsSet' /\ Selected' /\ UnreadIsSet' /\ BacklogIsSet'
    BY <2>1, <2>2 DEF IInv, ServedIsRegistered, ServedIsSet, Selected, UnreadIsSet, BacklogIsSet
  <2> QED BY <2>3, <2>4, <2>5, <2>6 DEF IInv
<1>4. ASSUME NEW p \in Peers, Send(p) PROVE IInv'
  <2>1. /\ sent[p] < MaxSends /\ sent' = [sent EXCEPT ![p] = @ + 1]
        /\ unread' = unread \cup {p}
        /\ isSet' = SetIf(isSet, p, p \in selected)
        /\ UNCHANGED <<peer, backlog, isShutdown, events, listeners, selected, manager, cur>>
    BY <1>4 DEF Send, managerVars
  <2>2. connections' = connections
    BY <2>1 DEF connections
  <2>3. /\ isSet' \subseteq Socks /\ isSet \subseteq isSet' /\ (p \in selected => p \in isSet')
        /\ isSet' \subseteq isSet \cup {p}
    BY <1>1, <2>1 DEF SetIf, Socks
  <2>4. sent' \in [Peers -> 0 .. MaxSends]
    BY <1>1, <2>1
  <2>5. SocketsTypeOK'
    BY <1>1, <2>1, <2>3, <2>4 DEF IInv, SocketsTypeOK
  <2>6. TableHasAll' /\ TableHasOnly'
    BY <2>1, <2>2 DEF IInv, TableHasAll, TableHasOnly, Table
  <2>7. ServedIsRegistered' /\ ServedIsSet' /\ Selected' /\ BacklogIsSet'
    BY <1>1, <2>1, <2>2, <2>3 DEF IInv, ServedIsRegistered, ServedIsSet, Selected, BacklogIsSet
  <2>8. UnreadIsSet'
    BY <2>1, <2>2, <2>3 DEF IInv, UnreadIsSet, Selected, ServedIsSet
  <2> QED BY <2>5, <2>6, <2>7, <2>8 DEF IInv
<1> QED BY <1>2, <1>3, <1>4 DEF NetStep

LEMMA NextKeeps == IInv /\ [SocketsNext]_socketVars => IInv'
<1> SUFFICES ASSUME IInv, [SocketsNext]_socketVars PROVE IInv'
  OBVIOUS
<1>1. CASE SocketStep
  <2>1. CASE Cancel
    BY <2>1, ThrowKeeps, ArmingKeeps DEF Cancel
  <2>2. CASE Rearm
    BY <2>2, ThrowKeeps, ArmingKeeps DEF Rearm
  <2> QED BY <1>1, <2>1, <2>2, LoopKeeps, SweepSocketKeeps, AcceptKeeps, ServeKeeps, ArmingKeeps DEF SocketStep
<1>2. CASE OtherEvent
  BY <1>2, AddClientKeeps, LoopKeeps, RefreshKeeps DEF OtherEvent
<1>3. CASE UNCHANGED socketVars
  <2>1. UNCHANGED <<events, listeners, peer, backlog, isShutdown, selected, isSet, unread, sent, manager, cur>>
    BY <1>3 DEF socketVars, netVars, eventVars, managerVars
  <2> QED BY <2>1 DEF IInv, SocketsTypeOK, TableHasAll, TableHasOnly, Table, ServedIsRegistered, ServedIsSet, Selected,
                       UnreadIsSet, BacklogIsSet, connections
<1> QED BY <1>1, <1>2, <1>3, DispatchKeeps, NetStepKeeps DEF SocketsNext

-----------------------------------------------------------------------------
(* The theorems.                                                           *)

\* The invariant holds in every state of SocketManager.
THEOREM ManagerInvariance == SocketsSpec => []IInv
<1>1. SocketsInit => IInv
  BY InitHolds
<1>2. IInv /\ [SocketsNext]_socketVars => IInv'
  BY NextKeeps
<1> QED BY <1>1, <1>2, PTL DEF SocketsSpec

\* The table never holds more events than it has places, and the rest of the
\* state keeps its types.
THEOREM ManagerTypes == SocketsSpec => []SocketsTypeOK
<1>1. IInv => SocketsTypeOK
  BY DEF IInv
<1> QED BY <1>1, ManagerInvariance, PTL

\* SocketManager::processEvent loses no data that come while it cancels,
\* resets and selects the event of a connection.
THEOREM DataIsNotForgotten == SocketsSpec => []UnreadIsSet
<1>1. IInv => UnreadIsSet
  BY DEF IInv
<1> QED BY <1>1, ManagerInvariance, PTL

\* It loses no connection that comes while it handles a listener's event.
THEOREM PeersAreNotForgotten == SocketsSpec => []BacklogIsSet
<1>1. IInv => BacklogIsSet
  BY DEF IInv
<1> QED BY <1>1, ManagerInvariance, PTL

\* addEvent and removeEvent keep one place for every registered socket.
THEOREM SocketsHaveTheirPlace == SocketsSpec => []TableHasAll
<1>1. IInv => TableHasAll
  BY DEF IInv
<1> QED BY <1>1, ManagerInvariance, PTL
=============================================================================
