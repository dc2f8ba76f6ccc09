----------------------------- MODULE HostProofs -----------------------------
(***************************************************************************)
(* The program on its host: one server at a time, whom the listeners admit, *)
(* when silent peers are closed, and how a connection is opened. Each part  *)
(* has its own invariant and shares nothing with the others.                *)
(***************************************************************************)
EXTENDS ProgramEntry, Listening, IdleTimeouts, Handshake, RegistryImport, HttpSession, Arithmetic,
        SequenceTheorems, FiniteSetTheorems

-----------------------------------------------------------------------------
(***************************************************************************)
(* There is one server at a time, for any number of processes and any      *)
(* command lines. The mutex is what keeps a second one out: a process has  *)
(* its handle from before its server is made until after it is gone.       *)
(***************************************************************************)
Places ==
  {"none", "options", "connect", "disconnect", "kill", "construct", "run", "destroy",
   "close", "ended"}

EntryTypeOK ==
  /\ place \in [Instances -> Places]
  /\ options \in [Instances -> SUBSET {"connect", "disconnect", "kill"}]
  /\ runServer \in [Instances -> BOOLEAN]
  /\ handles \subseteq Instances /\ windows \subseteq Instances /\ stopping \subseteq Instances
  /\ found \in [Instances -> Instances]
  /\ reported \in [Instances -> SUBSET {"connect", "disconnect", "kill"}]

\* A server is behind its handle, and the process meant to serve ...
HandleHeld == \A p \in Instances : HasServer(p) => p \in handles /\ runServer[p]

\* ... while the window is only there while run() is, or its server is destroyed.
WindowServes == \A p \in windows : place[p] \in {"run", "destroy"}

Alone == \A p, q \in Instances : HasServer(p) /\ HasServer(q) => p = q

EntryIInv == EntryTypeOK /\ HandleHeld /\ WindowServes /\ Alone

LEMMA EntryInitInv == EntryInit => EntryIInv
BY EntryAssumption DEF EntryInit, EntryIInv, EntryTypeOK, HandleHeld, WindowServes, Alone, HasServer, Places

\* A step that changes one process's place, neither to nor from one with a
\* server, and takes nothing from the others.
LEMMA KeepsServers ==
  ASSUME EntryIInv, EntryTypeOK', NEW p \in Instances, NEW where \in Places,
         place' = [place EXCEPT ![p] = where],
         ~HasServer(p), where \notin {"construct", "run", "destroy"},
         windows' = windows,
         \A q \in Instances : q # p => (q \in handles => q \in handles') /\ runServer'[q] = runServer[q]
  PROVE  EntryIInv'
<1>1. \A q \in Instances : HasServer(q)' => HasServer(q) /\ q # p
  BY DEF HasServer, EntryIInv, EntryTypeOK
<1>2. HandleHeld' BY <1>1 DEF EntryIInv, HandleHeld
<1>3. WindowServes'
  BY DEF EntryIInv, EntryTypeOK, WindowServes, HasServer
<1>4. Alone' BY <1>1 DEF EntryIInv, Alone
<1> QED BY <1>2, <1>3, <1>4 DEF EntryIInv

\* A step of a process that has a server and keeps it.
LEMMA KeepsServer ==
  ASSUME EntryIInv, EntryTypeOK', NEW p \in Instances, HasServer(p),
         \A q \in Instances : HasServer(q)' <=> HasServer(q),
         WindowServes', UNCHANGED <<runServer, handles>>
  PROVE  EntryIInv'
BY DEF EntryIInv, HandleHeld, Alone

\* A process that waits for its command line, or tells a server something.
LEMMA OptionsStep ==
  ASSUME EntryIInv, NEW p \in Instances,
         \/ \E line \in CommandLines : Launch(p, line)
         \/ \E o \in {"connect", "disconnect", "kill"} : FindServer(p, o) \/ SendCommand(p, o)
  PROVE  EntryIInv'
<1>1. CASE \E line \in CommandLines : Launch(p, line)
  <2>1. PICK line \in CommandLines : Launch(p, line) BY <1>1
  <2>2. EntryTypeOK'
    BY <2>1, EntryAssumption DEF Launch, Goto, EntryIInv, EntryTypeOK, Places
  <2>3. ~HasServer(p) BY <2>1 DEF Launch, HasServer
  <2> QED BY <2>1, <2>2, <2>3, KeepsServers DEF Launch, Goto, Places
<1>2. ASSUME NEW o \in {"connect", "disconnect", "kill"}, FindServer(p, o) PROVE EntryIInv'
  <2>1. EntryTypeOK'
    <3>1. CASE windows = {}
      BY <1>2, <3>1 DEF FindServer, Goto, EntryIInv, EntryTypeOK, Places
    <3>2. CASE windows # {}
      BY <1>2, <3>2 DEF FindServer, Goto, EntryIInv, EntryTypeOK, Places
    <3> QED BY <3>1, <3>2
  <2>2. ~HasServer(p) BY <1>2 DEF FindServer, HasServer
  <2>3. \A q \in Instances : q # p => runServer'[q] = runServer[q]
    BY <1>2 DEF FindServer, EntryIInv, EntryTypeOK
  <2>4. \E where \in {"ended", o} : place' = [place EXCEPT ![p] = where]
    BY <1>2 DEF FindServer, Goto
  <2>5. UNCHANGED <<handles, windows>> BY <1>2 DEF FindServer
  <2> QED BY <2>1, <2>2, <2>3, <2>4, <2>5, KeepsServers DEF Places
<1>3. ASSUME NEW o \in {"connect", "disconnect", "kill"}, SendCommand(p, o) PROVE EntryIInv'
  <2>1. EntryTypeOK'
    <3>1. place' \in [Instances -> Places] /\ options' \in [Instances -> SUBSET {"connect", "disconnect", "kill"}]
      BY <1>3 DEF SendCommand, Goto, EntryIInv, EntryTypeOK, Places
    <3>2. reported' \in [Instances -> SUBSET {"connect", "disconnect", "kill"}]
      BY <1>3 DEF SendCommand, EntryIInv, EntryTypeOK
    <3>3. stopping' \subseteq Instances
      BY <1>3 DEF SendCommand, EntryIInv, EntryTypeOK
    <3> QED BY <1>3, <3>1, <3>2, <3>3 DEF SendCommand, EntryIInv, EntryTypeOK
  <2>2. ~HasServer(p) BY <1>3 DEF SendCommand, HasServer
  <2> QED BY <1>3, <2>1, <2>2, KeepsServers DEF SendCommand, Goto, Places
<1> QED BY <1>1, <1>2, <1>3

\* The mutex lets one process make a server, when there is none.
LEMMA MutexStep == ASSUME EntryIInv, NEW p \in Instances, CreateMutex(p) PROVE EntryIInv'
<1>1. EntryTypeOK' BY DEF CreateMutex, Goto, EntryIInv, EntryTypeOK, Places
<1>2. ~HasServer(p) BY DEF CreateMutex, HasServer
<1>3. CASE runServer[p] /\ handles = {}
  <2>1. \A q \in Instances : ~HasServer(q) BY <1>3 DEF EntryIInv, HandleHeld
  <2>2. \A q \in Instances : HasServer(q)' => q = p
    BY <1>3, <2>1 DEF CreateMutex, Goto, HasServer, EntryIInv, EntryTypeOK
  <2>3. HandleHeld' BY <1>3, <2>2 DEF CreateMutex, HandleHeld
  <2>4. windows = {} BY <2>1 DEF EntryIInv, EntryTypeOK, WindowServes, HasServer
  <2>5. WindowServes' BY <2>4 DEF CreateMutex, WindowServes
  <2> QED BY <1>1, <2>2, <2>3, <2>5 DEF EntryIInv, Alone
<1>4. CASE ~(runServer[p] /\ handles = {})
  <2>1. \E where \in {"close", "ended"} : place' = [place EXCEPT ![p] = where]
    BY <1>4 DEF CreateMutex, Goto
  <2>2. handles \subseteq handles' /\ UNCHANGED <<runServer, windows>>
    BY <1>4 DEF CreateMutex
  <2> QED BY <1>1, <1>2, <2>1, <2>2, KeepsServers DEF Places
<1> QED BY <1>3, <1>4

\* From the constructor to the end of the handle.
LEMMA ServerStep ==
  ASSUME EntryIInv, NEW p \in Instances,
         \/ ConstructServer(p) \/ ShowIcon(p) \/ LoseIcon(p) \/ RunReturns(p)
         \/ DestroyServer(p) \/ CloseHandle(p)
  PROVE  EntryIInv'
<1>0. EntryTypeOK'
  BY DEF ConstructServer, ShowIcon, LoseIcon, RunReturns, DestroyServer, CloseHandle, Goto,
         EntryIInv, EntryTypeOK, Places
<1>1. CASE ShowIcon(p) \/ LoseIcon(p)
  <2>1. WindowServes' BY <1>1 DEF ShowIcon, LoseIcon, EntryIInv, WindowServes
  <2>2. HasServer(p) BY <1>1 DEF ShowIcon, LoseIcon, HasServer
  <2>3. \A q \in Instances : HasServer(q)' <=> HasServer(q)
    BY <1>1 DEF ShowIcon, LoseIcon, HasServer
  <2> QED BY <1>0, <1>1, <2>1, <2>2, <2>3, KeepsServer DEF ShowIcon, LoseIcon
<1>2. CASE RunReturns(p)
  <2>1. WindowServes' BY <1>2 DEF RunReturns, Goto, EntryIInv, EntryTypeOK, WindowServes
  <2>2. HasServer(p) BY <1>2 DEF RunReturns, HasServer
  <2>3. \A q \in Instances : HasServer(q)' <=> HasServer(q)
    BY <1>2 DEF RunReturns, Goto, HasServer, EntryIInv, EntryTypeOK
  <2> QED BY <1>0, <1>2, <2>1, <2>2, <2>3, KeepsServer DEF RunReturns
<1>3. CASE ConstructServer(p) \/ DestroyServer(p) \/ CloseHandle(p)
  <2>1. \A q \in Instances : HasServer(q)' => HasServer(q)
    BY <1>3 DEF ConstructServer, DestroyServer, CloseHandle, Goto, HasServer, EntryIInv, EntryTypeOK
  <2>2. HandleHeld'
    <3>1. CASE ConstructServer(p) \/ DestroyServer(p)
      BY <2>1, <3>1 DEF ConstructServer, DestroyServer, EntryIInv, HandleHeld
    <3>2. CASE CloseHandle(p)
      <4>1. ~HasServer(p) BY <3>2 DEF CloseHandle, HasServer
      <4> QED BY <2>1, <3>2, <4>1 DEF CloseHandle, EntryIInv, HandleHeld
    <3> QED BY <1>3, <3>1, <3>2
  <2>3. p \notin windows
    BY <1>3 DEF ConstructServer, DestroyServer, CloseHandle, EntryIInv, WindowServes
  <2>4. WindowServes'
    BY <1>3, <2>3 DEF ConstructServer, DestroyServer, CloseHandle, Goto, EntryIInv, EntryTypeOK, WindowServes
  <2>5. Alone' BY <2>1 DEF EntryIInv, Alone
  <2> QED BY <1>0, <2>2, <2>4, <2>5 DEF EntryIInv
<1> QED BY <1>1, <1>2, <1>3

LEMMA EntryNextInv == EntryIInv /\ [EntryNext]_entryVars => EntryIInv'
<1> SUFFICES ASSUME EntryIInv, [EntryNext]_entryVars PROVE EntryIInv'
  OBVIOUS
<1>1. CASE UNCHANGED entryVars
  BY <1>1 DEF entryVars, EntryIInv, EntryTypeOK, HandleHeld, WindowServes, Alone, HasServer
<1>2. ASSUME NEW p \in Instances, \E line \in CommandLines : Launch(p, line) PROVE EntryIInv'
  BY <1>2, OptionsStep
<1>3. ASSUME NEW p \in Instances,
             \E o \in {"connect", "disconnect", "kill"} : FindServer(p, o) \/ SendCommand(p, o)
      PROVE EntryIInv'
  BY <1>3, OptionsStep
<1>4. ASSUME NEW p \in Instances, CreateMutex(p) PROVE EntryIInv'
  BY <1>4, MutexStep
<1>5. ASSUME NEW p \in Instances,
             \/ ConstructServer(p) \/ ShowIcon(p) \/ LoseIcon(p) \/ RunReturns(p)
             \/ DestroyServer(p) \/ CloseHandle(p)
      PROVE EntryIInv'
  BY <1>5, ServerStep
<1> QED BY <1>1, <1>2, <1>3, <1>4, <1>5 DEF EntryNext

-----------------------------------------------------------------------------
\* The variables keep their types, a server its handle and a window its server.
THEOREM EntryInvariance == EntrySpec => []EntryIInv
BY EntryInitInv, EntryNextInv, PTL DEF EntrySpec

\* However many processes are started, with whatever options, one serves.
THEOREM ServesAlone == EntrySpec => []OneServer
<1>1. EntryIInv => OneServer
  BY DEF EntryIInv, EntryTypeOK, HandleHeld, WindowServes, Alone, OneServer, HasServer
<1>2. QED BY <1>1, EntryInvariance, PTL

-----------------------------------------------------------------------------
(***************************************************************************)
(* Every host that is admitted is one that the first pattern which names it *)
(* admits, for any width of addresses, and a host that keeps coming is put *)
(* off for ever longer.                                                    *)
(***************************************************************************)
ListenerPattern == [action : {"+", "-", "?"}, addr : Hosts \cup {NoAddress}, bits : 0 .. AddrBits]

LEMMA MaskType ==
  ASSUME NEW bits \in 0 .. AddrBits
  PROVE  AddrBits - bits \in Nat /\ Pow2[AddrBits - bits] \in Nat /\ Pow2[AddrBits - bits] > 0
<1>1. AddrBits - bits \in Nat
  BY ListeningAssumption
<1> QED BY <1>1, Pow2Facts

\* The pattern as it was parsed matches the hosts that the pattern names.
LEMMA MatchesNamed ==
  ASSUME NEW p \in ListenerPattern, Proper(p), NEW h \in Hosts, h # INADDR_NONE
  PROVE  patternMatchIP(parsePattern(p), h) <=> Names(p, h)
<1> DEFINE m == Pow2[AddrBits - p.bits]
<1>1. m \in Nat /\ m > 0 /\ p.bits \in 0 .. AddrBits /\ p.addr \in Hosts /\ Hosts \subseteq Nat
  <2>1. p.bits \in 0 .. AddrBits /\ p.addr \in Hosts
    BY DEF ListenerPattern, Proper
  <2> QED BY <2>1, MaskType DEF Hosts
<1>2. parsePattern(p).address = Masked(p.addr, p.bits) /\ parsePattern(p).mask = p.bits
  BY DEF parsePattern, Proper
<1>3. \A a \in Nat : Masked(a, p.bits) = a - (a % m)
  BY DEF Masked
<1> HIDE DEF m
<1>4. p.addr - (p.addr % m) \in Nat /\ (p.addr - (p.addr % m)) % m = 0 /\ p.addr \in Nat /\ h \in Nat
  BY <1>1, WithoutRemainder
<1>5. Masked(Masked(p.addr, p.bits), p.bits) = p.addr - (p.addr % m)
  BY <1>3, <1>4
<1>6. Masked(h, p.bits) = h - (h % m)
  BY <1>3, <1>4
<1>7. patternMatchIP(parsePattern(p), h) <=> p.addr - (p.addr % m) = h - (h % m)
  BY <1>2, <1>5, <1>6 DEF patternMatchIP
<1>8. p.addr - (p.addr % m) = h - (h % m) <=> p.addr \div m = h \div m
  BY <1>1, <1>4, SameQuotient
<1> QED BY <1>7, <1>8 DEF Names, m

\* What AdmittedAreNamed says of a connection, once the configuration is applied.
NamedBy(hosts, a) ==
  LET Naming(p) == Names(p, a.host)
      i == SelectInSeq(hosts, Naming)
  IN a.by = "filter" /\ (\A p \in ToSet(hosts) : Proper(p)) =>
       i # 0 /\ hosts[i].action # "-" /\ (a.query <=> hosts[i].action = "?")

\* The verdict is that of the first pattern that names the host.
LEMMA VerdictIsNamed ==
  ASSUME NEW filter \in Seq(ListenerPattern), NEW h \in Hosts, NEW a, a.host = h,
         a.by = "filter" => verifyConnection(filter, h) # "-",
         a.query = (verifyConnection(filter, h) = "?")
  PROVE  NamedBy(filter, a)
<1> SUFFICES ASSUME \A p \in ToSet(filter) : Proper(p), verifyConnection(filter, h) # "-"
             PROVE  NamedBy(filter, a)
  BY DEF NamedBy
<1> DEFINE parsed == [i \in DOMAIN filter |-> parsePattern(filter[i])]
           M == {i \in 1 .. Len(parsed) : patternMatchIP(parsed[i], h)}
           N == {i \in 1 .. Len(filter) : Names(filter[i], h)}
<1>1. DOMAIN filter = 1 .. Len(filter) /\ Len(filter) \in Nat
      /\ \A i \in 1 .. Len(filter) : filter[i] \in ListenerPattern /\ filter[i] \in ToSet(filter)
  BY DEF ToSet
<1>2. Len(parsed) = Len(filter)
  <2>1. parsed \in [1 .. Len(filter) -> {parsePattern(p) : p \in ListenerPattern}]
    BY <1>1
  <2> QED BY <1>1, <2>1
<1>3. \A i \in 1 .. Len(filter) : parsed[i] = parsePattern(filter[i])
  BY <1>1
<1>4. verifyConnection(filter, h) = IF M # {} THEN parsed[Min(M)].action ELSE "-"
  <2>1. M # {} => Min(M) # 0
    <3>1. M \subseteq Nat
      OBVIOUS
    <3>2. M # {} => \E x \in M : \A y \in M : x <= y
      BY <3>1, NatMin
    <3>3. M # {} => Min(M) \in M
      BY <3>2 DEF Min
    <3> QED BY <3>3
  <2> DEFINE Matches(pattern) == patternMatchIP(pattern, h)
             i == SelectInSeq(parsed, Matches)
  <2>2. verifyConnection(filter, h) = IF i = 0 THEN "-" ELSE parsed[i].action
    BY DEF verifyConnection
  <2>3. i = IF M # {} THEN Min(M) ELSE 0
    BY DEF SelectInSeq
  <2> HIDE DEF i
  <2> QED BY <2>1, <2>2, <2>3
<1> HIDE DEF parsed
<1>5. M # {}
  BY <1>4
<1>6. h # INADDR_NONE
  BY <1>5 DEF patternMatchIP
<1>7. M = N
  <2>1. \A i \in 1 .. Len(filter) : patternMatchIP(parsed[i], h) <=> Names(filter[i], h)
    BY <1>1, <1>3, <1>6, MatchesNamed
  <2> QED BY <1>2, <2>1
<1>8. Min(N) \in N
  <2>1. N \subseteq Nat
    OBVIOUS
  <2>2. \E x \in N : \A y \in N : x <= y
    BY <1>5, <1>7, <2>1, NatMin
  <2> QED BY <2>2 DEF Min
<1>9. parsed[Min(N)].action = filter[Min(N)].action
  <2>1. \A p : parsePattern(p).action = p.action
    BY DEF parsePattern
  <2>2. Min(N) \in 1 .. Len(filter)
    BY <1>8
  <2> QED BY <1>3, <2>1, <2>2
<1>10. verifyConnection(filter, h) = filter[Min(N)].action /\ Min(N) # 0
  <2> HIDE DEF M, N
  <2>1. verifyConnection(filter, h) = parsed[Min(N)].action
    BY <1>4, <1>5, <1>7
  <2>2. Min(N) # 0
    BY <1>8 DEF N
  <2> QED BY <1>9, <2>1, <2>2
<1>11. NamedBy(filter, a) <=>
         (a.by = "filter" /\ (\A p \in ToSet(filter) : Proper(p)) =>
           LET i == IF N # {} THEN Min(N) ELSE 0
           IN  i # 0 /\ filter[i].action # "-" /\ (a.query <=> filter[i].action = "?"))
  BY DEF NamedBy, SelectInSeq
<1> HIDE DEF M, N
<1> QED BY <1>5, <1>7, <1>10, <1>11

-----------------------------------------------------------------------------
(* The listeners. *)

Filters == {NoFilter} \cup {g.hosts : g \in Configs}
Ports == {0} \cup {g.port_number : g \in Configs} \cup {g.http_port : g \in Configs}
Scopes == {FALSE} \cup {g.localHost : g \in Configs}

Listener == [server : BOOLEAN, port : Ports, localOnly : Scopes, filter : Filters,
             open : BOOLEAN, sockFilter : Filters]

\* A listener that is open is not one for the local host ...
Good(s) == s \in Listener /\ (s.open => ~s.localOnly)

\* ... and lets in what its filter does.
Applied(s) == s.filter = config.hosts /\ (s.open => s.sockFilter = config.hosts)

LEMMA RefreshOpens ==
  ASSUME NEW s \in Listener, NEW other, NEW o \in refresh(s, other)
  PROVE  Good(o.after) /\ o.after.filter = s.filter /\ (o.after.open => o.after.sockFilter = s.filter)
<1> DEFINE closed == [s EXCEPT !.open = FALSE, !.sockFilter = NoFilter]
           opened == [closed EXCEPT !.open = TRUE, !.sockFilter = IF s.localOnly THEN @ ELSE s.filter]
<1>1. closed \in Listener /\ ~closed.open /\ closed.filter = s.filter /\ closed.localOnly = s.localOnly
  BY DEF Listener, Filters
<1> HIDE DEF closed
<1>2. ~s.localOnly => Good(opened) /\ opened.filter = s.filter /\ opened.sockFilter = s.filter
  BY <1>1 DEF Listener, Filters, Good
<1> HIDE DEF opened
<1>3. CASE o = Returns(closed) \/ o = Throws(closed)
  BY <1>1, <1>3 DEF Returns, Throws, Good
<1>4. CASE o = Returns(opened) /\ Binds(s, other)
  BY <1>2, <1>4 DEF Returns, Binds
<1> QED BY <1>3, <1>4 DEF refresh, closed, opened

LEMMA SetServerGood ==
  ASSUME NEW s, Good(s), NEW other, NEW o \in setServer(s, other) PROVE Good(o.after)
<1>1. CASE s.server
  BY <1>1 DEF setServer, Returns
<1>2. CASE ~s.server
  <2>1. [s EXCEPT !.server = TRUE] \in Listener
    BY DEF Good, Listener
  <2> QED BY <1>2, <2>1, RefreshOpens DEF setServer, Good
<1> QED BY <1>1, <1>2

LEMMA SetPortGood ==
  ASSUME NEW s, Good(s), NEW port \in Ports, NEW localOnly \in Scopes, NEW other,
         NEW o \in setPort(s, port, localOnly, other)
  PROVE  Good(o.after)
<1>1. CASE port = s.port /\ localOnly = s.localOnly
  BY <1>1 DEF setPort, Returns
<1>2. CASE ~ (port = s.port /\ localOnly = s.localOnly)
  <2>1. [s EXCEPT !.port = port, !.localOnly = localOnly] \in Listener
    BY DEF Good, Listener
  <2> QED BY <1>2, <2>1, RefreshOpens DEF setPort, Good
<1> QED BY <1>1, <1>2

LEMMA SetFilterApplied ==
  ASSUME NEW s, Good(s), config \in Configs
  PROVE  Good(setFilter(s, config.hosts)) /\ Applied(setFilter(s, config.hosts))
<1> DEFINE f == setFilter(s, config.hosts)
<1>1. config.hosts \in Filters
  BY DEF Filters
<1>2. f \in Listener /\ f.filter = config.hosts /\ f.open = s.open /\ f.localOnly = s.localOnly
      /\ f.sockFilter = IF s.open /\ ~s.localOnly THEN config.hosts ELSE s.sockFilter
  BY <1>1 DEF setFilter, Good, Listener
<1> HIDE DEF f
<1> QED BY <1>2 DEF Good, Applied, f

\* The listeners in the middle of regConfigChanged, and its steps on them.
Listeners == [rfb : {s \in Listener : Good(s)}, http : {s \in Listener : Good(s)}, rfbPort : Ports]

OnRfb(r, outcomes) == {[after |-> [r EXCEPT !.rfb = o.after], ok |-> o.ok] : o \in outcomes}
OnHttp(r, outcomes) == {[after |-> [r EXCEPT !.http = o.after], ok |-> o.ok] : o \in outcomes}
RfbServerStep(r)  == OnRfb(r, setServer(r.rfb, Bound(r.http)))
RfbPortStep(r)    == OnRfb(r, setPort(r.rfb, config.port_number, config.localHost, Bound(r.http)))
HttpServerStep(r) == OnHttp(r, setServer(r.http, Bound(r.rfb)))
HttpPortStep(r)   == OnHttp(r, setPort(r.http, config.http_port, config.localHost, Bound(r.rfb)))
FilterStep(r) ==
  LET done == [rfb |-> setFilter(r.rfb, config.hosts), http |-> setFilter(r.http, config.hosts),
               rfbPort |-> IF r.rfb.open THEN config.port_number ELSE 0]
  IN {Returns(done), Throws(done)}

LEMMA StepsOfRegConfig ==
  ASSUME NEW g
  PROVE  regConfigChanged(g) =
           Then(Then(Then(Then(RfbServerStep(g), RfbPortStep), HttpServerStep), HttpPortStep), FilterStep)
BY DEF regConfigChanged, RfbServerStep, RfbPortStep, HttpServerStep, HttpPortStep, FilterStep,
       OnRfb, OnHttp

LEMMA StepsAreGood ==
  ASSUME config \in Configs, NEW r \in Listeners
  PROVE  /\ \A o \in RfbServerStep(r) : o.after \in Listeners
         /\ \A o \in RfbPortStep(r) : o.after \in Listeners
         /\ \A o \in HttpServerStep(r) : o.after \in Listeners
         /\ \A o \in HttpPortStep(r) : o.after \in Listeners
         /\ \A o \in FilterStep(r) :
              o.after \in Listeners /\ Applied(o.after.rfb) /\ Applied(o.after.http)
<1>1. Good(r.rfb) /\ Good(r.http) /\ r.rfbPort \in Ports
  BY DEF Listeners
<1>2. config.port_number \in Ports /\ config.http_port \in Ports /\ config.localHost \in Scopes /\ 0 \in Ports
  BY DEF Ports, Scopes
<1>3. ASSUME NEW S, \A o \in S : Good(o.after)
      PROVE  (\A o \in OnRfb(r, S) : o.after \in Listeners) /\ (\A o \in OnHttp(r, S) : o.after \in Listeners)
  BY <1>3 DEF OnRfb, OnHttp, Listeners, Good
<1>4. \A o \in setServer(r.rfb, Bound(r.http)) : Good(o.after)
  BY <1>1, SetServerGood
<1>5. \A o \in setServer(r.http, Bound(r.rfb)) : Good(o.after)
  BY <1>1, SetServerGood
<1>6. \A o \in setPort(r.rfb, config.port_number, config.localHost, Bound(r.http)) : Good(o.after)
  BY <1>1, <1>2, SetPortGood
<1>7. \A o \in setPort(r.http, config.http_port, config.localHost, Bound(r.rfb)) : Good(o.after)
  BY <1>1, <1>2, SetPortGood
<1>8. ASSUME NEW o \in FilterStep(r)
      PROVE  o.after \in Listeners /\ Applied(o.after.rfb) /\ Applied(o.after.http)
  <2>1. o.after = [rfb |-> setFilter(r.rfb, config.hosts), http |-> setFilter(r.http, config.hosts),
                   rfbPort |-> IF r.rfb.open THEN config.port_number ELSE 0]
    BY DEF FilterStep, Returns, Throws
  <2>2. /\ Good(setFilter(r.rfb, config.hosts)) /\ Applied(setFilter(r.rfb, config.hosts))
        /\ Good(setFilter(r.http, config.hosts)) /\ Applied(setFilter(r.http, config.hosts))
    BY <1>1, SetFilterApplied
  <2> QED BY <1>2, <2>1, <2>2 DEF Listeners, Good
<1> QED BY <1>3, <1>4, <1>5, <1>6, <1>7, <1>8 DEF RfbServerStep, RfbPortStep, HttpServerStep, HttpPortStep

\* Whatever throws in between, the listeners are good, and if nothing did they
\* have the filter.
LEMMA RegConfigApplies ==
  ASSUME config \in Configs, NEW g \in Listeners, NEW o \in regConfigChanged(g)
  PROVE  o.after \in Listeners /\ (o.ok => Applied(o.after.rfb) /\ Applied(o.after.http))
<1> DEFINE X1 == RfbServerStep(g)
           X2 == Then(X1, RfbPortStep)
           X3 == Then(X2, HttpServerStep)
           X4 == Then(X3, HttpPortStep)
<1>1. \A q \in X1 : q.after \in Listeners
  BY StepsAreGood
<1> HIDE DEF X1
<1>2. \A q \in X2 : q.after \in Listeners
  BY <1>1, StepsAreGood DEF Then
<1> HIDE DEF X2
<1>3. \A q \in X3 : q.after \in Listeners
  BY <1>2, StepsAreGood DEF Then
<1> HIDE DEF X3
<1>4. \A q \in X4 : q.after \in Listeners
  BY <1>3, StepsAreGood DEF Then
<1> HIDE DEF X4
<1>5. o \in Then(X4, FilterStep)
  BY StepsOfRegConfig DEF X1, X2, X3, X4
<1>6. CASE o \in X4 /\ ~o.ok
  BY <1>4, <1>6
<1>7. CASE \E q \in X4 : o \in FilterStep(q.after)
  BY <1>4, <1>7, StepsAreGood
<1> QED BY <1>5, <1>6, <1>7 DEF Then

-----------------------------------------------------------------------------
(* Both properties are kept by every step. *)

\* How far a host is put off: by twice the time of the retry before, until its
\* attempts took longer than the timeout's type holds.
PutOff(h) ==
  LET t == tries[h]  e == blm[h]  j == t.n - threshold
  IN  /\ e.marks >= threshold
      /\ \/ t.last - t.since >= Pow2[TimeoutBits] - initialTimeout
         \/ /\ t.last - t.since >= initialTimeout * (Pow2[j] - 1)
            /\ e.blockUntil = t.last + initialTimeout * Pow2[j]
            /\ e.blockTimeout = (initialTimeout * Pow2[j + 1]) % Pow2[TimeoutBits]

Tries == [n : Nat, since : Nat, last : Nat]
BlockEntry == [marks : Nat, blockUntil : Nat, blockTimeout : Nat]

Counted(h) ==
  /\ tries[h].since <= tries[h].last /\ tries[h].last <= now
  /\ tries[h].n = 0 => blm[h] = NoEntry
  /\ tries[h].n > 0 /\ tries[h].n < threshold =>
       blm[h] = [marks |-> tries[h].n + 1, blockUntil |-> 0, blockTimeout |-> initialTimeout]
  /\ tries[h].n >= threshold => PutOff(h)

BlackInv ==
  /\ now \in Nat /\ tries \in [Peers -> Tries] /\ blm \in [Peers -> BlockEntry]
  /\ \A h \in Peers : Counted(h)

SetupInv ==
  /\ config \in Configs
  /\ Good(rfbSock) /\ Good(httpSock) /\ rfbPort \in Ports
  /\ complete => Applied(rfbSock) /\ Applied(httpSock)
  /\ phase = "setKey" => ~complete /\ admitted.by = "nobody"

LEMMA NamedIsNamed ==
  /\ AdmittedAreNamed <=> (complete => NamedBy(config.hosts, admitted))
  /\ AdmittedAreNamed' <=> (complete' => NamedBy(config'.hosts, admitted'))
BY DEF AdmittedAreNamed, NamedBy, SelectInSeq

LEMMA NamedKept ==
  ASSUME AdmittedAreNamed, config' = config, admitted' = admitted,
         complete' => complete \/ admitted.by = "nobody"
  PROVE  AdmittedAreNamed'
<1>1. CASE complete
  BY <1>1, NamedIsNamed
<1>2. CASE admitted.by = "nobody"
  <2>1. \A hosts : NamedBy(hosts, admitted)
    BY <1>2 DEF NamedBy
  <2> QED BY <2>1, NamedIsNamed
<1> QED BY <1>1, <1>2, NamedIsNamed

LEMMA BlackKept ==
  ASSUME BlackInv, UNCHANGED <<tries, blm>>, now' \in Nat, now' >= now
  PROVE  BlackInv'
<1> SUFFICES ASSUME NEW h \in Peers PROVE Counted(h)'
  BY DEF BlackInv
<1>1. Counted(h) /\ tries[h].last \in Nat /\ now \in Nat
  BY DEF BlackInv, Tries
<1>2. tries'[h].last <= now'
  BY <1>1 DEF Counted
<1> QED BY <1>1, <1>2 DEF Counted, PutOff

LEMMA SetupKept == ASSUME SetupInv, UNCHANGED setupVars, phase # "setKey" \/ admitted' = admitted PROVE SetupInv'
BY DEF setupVars, SetupInv, Applied

LEMMA ListeningInitInv == ListeningInit => SetupInv /\ BlackInv /\ AdmittedAreNamed
<1> SUFFICES ASSUME ListeningInit PROVE SetupInv /\ BlackInv /\ AdmittedAreNamed
  OBVIOUS
<1>1. Good(NewListener)
  BY DEF NewListener, Good, Listener, Ports, Scopes, Filters
<1>2. SetupInv
  BY <1>1 DEF ListeningInit, SetupInv, Ports
<1>3. BlackInv
  BY ListeningAssumption DEF ListeningInit, BlackInv, Counted, Tries, BlockEntry, NoTries, NoEntry
<1>4. AdmittedAreNamed
  BY DEF ListeningInit, AdmittedAreNamed
<1> QED BY <1>2, <1>3, <1>4

\* The configuration, applied or not, and the address notifier.
LEMMA SetupStep ==
  ASSUME SetupInv, setKey \/ setAddressChangeNotifier
  PROVE  SetupInv' /\ UNCHANGED <<now, blm, tries, admitted>> /\ config' = config
         /\ (complete' => complete \/ admitted.by = "nobody")
<1>1. CASE setKey
  <2> DEFINE g == [rfb |-> rfbSock, http |-> httpSock, rfbPort |-> rfbPort]
  <2>1. PICK o \in {Throws(g)} \cup regConfigChanged(g) :
          /\ rfbSock' = o.after.rfb /\ httpSock' = o.after.http /\ rfbPort' = o.after.rfbPort
          /\ complete' = o.ok
    BY <1>1 DEF setKey
  <2>2. g \in Listeners
    BY DEF SetupInv, Listeners, Good
  <2>3. o.after \in Listeners /\ (o.ok => Applied(o.after.rfb) /\ Applied(o.after.http))
    BY <2>1, <2>2, RegConfigApplies DEF Throws, SetupInv
  <2>4. Good(o.after.rfb) /\ Good(o.after.http) /\ o.after.rfbPort \in Ports
    BY <2>3 DEF Listeners
  <2>5. config' = config /\ phase = "setKey" /\ phase' = "notifier"
        /\ UNCHANGED <<now, blm, tries, admitted>>
    BY <1>1 DEF setKey
  <2> QED BY <2>1, <2>3, <2>4, <2>5 DEF SetupInv, Applied
<1>2. CASE setAddressChangeNotifier
  <2>1. PICK o \in refresh(rfbSock, Bound(httpSock)) :
          rfbSock' = o.after /\ phase' = IF o.ok THEN "serving" ELSE "ended"
    BY <1>2 DEF setAddressChangeNotifier
  <2>2. Good(o.after) /\ o.after.filter = rfbSock.filter
        /\ (o.after.open => o.after.sockFilter = rfbSock.filter)
    BY <2>1, RefreshOpens DEF SetupInv, Good
  <2>3. UNCHANGED <<config, complete, httpSock, rfbPort, now, blm, tries, admitted>> /\ phase' # "setKey"
    BY <1>2, <2>1 DEF setAddressChangeNotifier
  <2> QED BY <2>1, <2>2, <2>3 DEF SetupInv, Applied
<1> QED BY <1>1, <1>2

LEMMA EntryPutOff ==
  ASSUME NEW e \in BlockEntry, NEW x \in Nat, NEW y \in Nat
  PROVE  [e EXCEPT !.blockUntil = x, !.blockTimeout = y]
           = [marks |-> e.marks, blockUntil |-> x, blockTimeout |-> y]
<1> DEFINE f == [e EXCEPT !.blockUntil = x]
<1>1. f = [marks |-> e.marks, blockUntil |-> x, blockTimeout |-> e.blockTimeout]
  BY DEF BlockEntry
<1> HIDE DEF f
<1>2. [f EXCEPT !.blockTimeout = y] = [marks |-> e.marks, blockUntil |-> x, blockTimeout |-> y]
  BY <1>1
<1> QED BY <1>2 DEF f

\* An attempt: what becomes of the entry of the host, and of its count.
LEMMA AttemptCounted ==
  ASSUME BlackInv, NEW h \in Peers, NEW b, b = isBlackmarked(blm[h]),
         blm' = [blm EXCEPT ![h] = b.entry], now' = now,
         tries' = IF ~b.answer THEN [tries EXCEPT ![h] = Tried(@)] ELSE tries
  PROVE  BlackInv'
<1> DEFINE t == tries[h]
           M == Pow2[TimeoutBits]
           e == IF blm[h] = NoEntry
                THEN [marks |-> 1, blockUntil |-> 0, blockTimeout |-> initialTimeout] ELSE blm[h]
<1>1. /\ now \in Nat /\ t \in Tries /\ blm[h] \in BlockEntry /\ e \in BlockEntry /\ e.marks >= 0
      /\ t.n \in Nat /\ t.since \in Nat /\ t.last \in Nat
      /\ threshold \in Nat /\ threshold > 0 /\ initialTimeout \in Nat
      /\ M \in Nat /\ M >= 1 /\ initialTimeout < M
  <2>1. M \in Nat /\ M >= 1 /\ initialTimeout < M /\ threshold \in Nat /\ threshold > 0 /\ initialTimeout \in Nat
    <3>1. TimeoutBits \in Nat /\ threshold \in Nat /\ threshold > 0 /\ initialTimeout \in Nat
          /\ initialTimeout < M
      BY ListeningAssumption
    <3> QED BY <3>1, Pow2Facts
  <2>2. now \in Nat /\ t \in Tries /\ blm[h] \in BlockEntry
    BY DEF BlackInv
  <2>3. e \in BlockEntry
    BY <2>1, <2>2 DEF BlockEntry
  <2>4. t.n \in Nat /\ t.since \in Nat /\ t.last \in Nat
    BY <2>2 DEF Tries
  <2>5. e.marks >= 0
    <3> HIDE DEF e
    <3> QED BY <2>3 DEF BlockEntry
  <2> HIDE DEF M, e, t
  <2> QED BY <2>1, <2>2, <2>3, <2>4, <2>5
<1>2. Counted(h)
  BY DEF BlackInv
<1>3. t.n < threshold =>
        e = [marks |-> t.n + 1, blockUntil |-> 0, blockTimeout |-> initialTimeout]
  <2>1. CASE t.n = 0
    BY <1>1, <1>2, <2>1 DEF Counted
  <2>2. CASE t.n > 0 /\ t.n < threshold
    <3>1. blm[h] = [marks |-> t.n + 1, blockUntil |-> 0, blockTimeout |-> initialTimeout]
      BY <1>2, <2>2 DEF Counted
    <3>2. blm[h].marks = t.n + 1 /\ t.n + 1 # 0
      BY <1>1, <3>1
    <3>3. blm[h] # NoEntry
      BY <3>2 DEF NoEntry
    <3> QED BY <3>1, <3>3
  <2> HIDE DEF t, e
  <2> QED BY <1>1, <2>1, <2>2
<1>4. t.n >= threshold => e = blm[h] /\ PutOff(h)
  <2>1. t.n >= threshold => blm[h].marks >= threshold
    BY <1>2 DEF Counted, PutOff
  <2> QED BY <1>1, <1>2, <2>1 DEF Counted, NoEntry
<1> HIDE DEF e, t, M
<1>5. b = IF e.marks < threshold THEN [entry |-> [e EXCEPT !.marks = @ + 1], answer |-> FALSE]
          ELSE IF now >= e.blockUntil THEN [entry |-> RetryAfter(e), answer |-> FALSE]
          ELSE [entry |-> e, answer |-> TRUE]
  BY DEF isBlackmarked, e
<1>6. RetryAfter(e) = [marks |-> e.marks, blockUntil |-> now + e.blockTimeout,
                       blockTimeout |-> (e.blockTimeout * 2) % M]
  <2>1. (e.blockTimeout * 2) % M \in Nat /\ now + e.blockTimeout \in Nat
    BY <1>1 DEF BlockEntry
  <2> QED BY <1>1, <2>1, EntryPutOff DEF RetryAfter, M
<1>7. b.entry \in BlockEntry
  <2>1. (e.blockTimeout * 2) % M \in Nat
    BY <1>1 DEF BlockEntry
  <2> QED BY <1>1, <1>5, <1>6, <2>1 DEF BlockEntry
<1>8. Tried(t) = [n |-> t.n + 1, since |-> IF t.n < threshold THEN now ELSE t.since, last |-> now]
      /\ Tried(t) \in Tries
  BY <1>1 DEF Tried, Tries
<1>9. tries' \in [Peers -> Tries] /\ blm' \in [Peers -> BlockEntry] /\ blm'[h] = b.entry
      /\ tries'[h] = (IF b.answer THEN t ELSE Tried(t))
  BY <1>7, <1>8 DEF BlackInv, t
<1>10. ASSUME NEW g \in Peers, g # h PROVE Counted(g)'
  <2>1. blm'[g] = blm[g] /\ tries'[g] = tries[g]
    BY <1>10 DEF BlackInv
  <2>2. Counted(g)
    BY DEF BlackInv
  <2> QED BY <2>1, <2>2 DEF Counted, PutOff
<1>11. Counted(h)'
  <2>1. CASE e.marks < threshold
    <3>1. t.n < threshold
      <4>1. t.n >= threshold => e.marks >= threshold
        BY <1>4 DEF PutOff
      <4> QED BY <1>1, <2>1, <4>1 DEF BlockEntry
    <3>2. b.entry = [marks |-> t.n + 2, blockUntil |-> 0, blockTimeout |-> initialTimeout]
          /\ ~b.answer /\ t.n + 1 < threshold
      BY <1>1, <1>3, <1>5, <2>1, <3>1
    <3> QED BY <1>1, <1>8, <1>9, <3>1, <3>2 DEF Counted
  <2>2. CASE e.marks >= threshold /\ now < e.blockUntil
    <3>1. b.entry = e /\ b.answer /\ t.n >= threshold
      BY <1>1, <1>3, <1>5, <2>2 DEF BlockEntry
    <3>2. blm'[h] = blm[h] /\ tries'[h] = tries[h]
      BY <1>4, <1>9, <3>1 DEF t
    <3> QED BY <1>2, <3>2 DEF Counted, PutOff
  <2>3. CASE e.marks >= threshold /\ now >= e.blockUntil
    <3>1. /\ ~b.answer /\ b.entry.marks >= threshold
          /\ b.entry.blockUntil = now + e.blockTimeout
          /\ b.entry.blockTimeout = (e.blockTimeout * 2) % M
      BY <1>1, <1>5, <1>6, <2>3 DEF BlockEntry
    <3>2. tries'[h].n = t.n + 1 /\ tries'[h].last = now
          /\ tries'[h].since = IF t.n < threshold THEN now ELSE t.since
      BY <1>8, <1>9, <3>1
    <3>3. CASE t.n < threshold
      <4>1. t.n + 1 = threshold /\ e.blockTimeout = initialTimeout
        BY <1>1, <1>3, <2>3, <3>3
      <4>2. Pow2[0] = 1 /\ Pow2[0 + 1] = 2
        BY Pow2Facts
      <4>3. PutOff(h)'
        <5>1. tries'[h].n - threshold = 0
          BY <1>1, <3>2, <4>1
        <5>2. blm'[h].marks >= threshold /\ blm'[h].blockUntil = now + initialTimeout
              /\ blm'[h].blockTimeout = (initialTimeout * 2) % M
          BY <1>9, <3>1, <4>1
        <5>3. tries'[h].last - tries'[h].since = 0 /\ initialTimeout * (Pow2[0] - 1) = 0
              /\ initialTimeout * Pow2[0] = initialTimeout
          BY <1>1, <3>2, <3>3, <4>2
        <5>4. tries'[h].last - tries'[h].since >= initialTimeout * (Pow2[tries'[h].n - threshold] - 1)
          BY <1>1, <5>1, <5>3
        <5>5. blm'[h].blockUntil = tries'[h].last + initialTimeout * Pow2[tries'[h].n - threshold]
          BY <3>2, <5>1, <5>2, <5>3
        <5>6. initialTimeout * Pow2[(tries'[h].n - threshold) + 1] = initialTimeout * 2
          BY <4>2, <5>1
        <5> QED BY <5>2, <5>4, <5>5, <5>6 DEF PutOff, M
      <4> QED BY <1>1, <3>2, <3>3, <4>1, <4>3 DEF Counted
    <3>4. CASE t.n >= threshold
      <4> DEFINE j == t.n - threshold
                 P == initialTimeout * Pow2[j]
      <4>1. j \in Nat /\ tries'[h].n - threshold = j + 1
        BY <1>1, <3>2, <3>4
      <4>2. /\ P \in Nat /\ initialTimeout * Pow2[j + 1] = 2 * P
            /\ initialTimeout * Pow2[(j + 1) + 1] = 2 * (2 * P)
            /\ initialTimeout * (Pow2[j] - 1) = P - initialTimeout
            /\ initialTimeout * (Pow2[j + 1] - 1) = 2 * P - initialTimeout
        <5>1. /\ Pow2[j] \in Nat /\ Pow2[j + 1] = 2 * Pow2[j] /\ Pow2[(j + 1) + 1] = 2 * Pow2[j + 1]
              /\ Pow2[j + 1] \in Nat
          BY <4>1, Pow2Facts
        <5> HIDE DEF j
        <5> QED BY <1>1, <5>1
      <4>3. \/ t.last - t.since >= M - initialTimeout
            \/ /\ t.last - t.since >= P - initialTimeout
               /\ e.blockUntil = t.last + P /\ e.blockTimeout = (2 * P) % M
        BY <1>4, <3>4, <4>2 DEF PutOff, t, M
      <4>4. t.since <= t.last /\ t.last <= now
        BY <1>2 DEF Counted, t
      <4> HIDE DEF j, P
      <4>5. \/ now - t.since >= M - initialTimeout
            \/ /\ now - t.since >= 2 * P - initialTimeout
               /\ e.blockUntil = t.last + P /\ e.blockTimeout = (2 * P) % M
        BY <1>1, <2>3, <4>2, <4>3, <4>4 DEF BlockEntry
      <4>6. CASE now - t.since >= M - initialTimeout
        <5>1. PutOff(h)'
          BY <1>9, <3>1, <3>2, <3>4, <4>6, <1>1 DEF PutOff, M
        <5> QED BY <1>1, <3>2, <3>4, <4>4, <5>1 DEF Counted
      <4>7. CASE /\ now - t.since >= 2 * P - initialTimeout /\ 2 * P < M
                 /\ e.blockTimeout = (2 * P) % M
        <5>1. e.blockTimeout = 2 * P
          BY <1>1, <4>2, <4>7, ModSmall, SMTT(30)
        <5>2. PutOff(h)'
          BY <1>1, <1>9, <3>1, <3>2, <3>4, <4>1, <4>2, <4>7, <5>1 DEF PutOff, M
        <5> QED BY <1>1, <3>2, <3>4, <4>4, <5>2 DEF Counted
      <4>8. now - t.since >= 2 * P - initialTimeout /\ ~ (2 * P < M) => now - t.since >= M - initialTimeout
        BY <1>1, <4>2
      <4> QED BY <4>5, <4>6, <4>7, <4>8
    <3> QED BY <1>1, <3>3, <3>4
  <2> QED BY <1>1, <2>1, <2>2, <2>3 DEF BlockEntry
<1> QED BY <1>9, <1>10, <1>11 DEF BlackInv

LEMMA AcceptInv ==
  ASSUME SetupInv, BlackInv, AdmittedAreNamed, NEW s \in {rfbSock, httpSock}, NEW vnc \in BOOLEAN,
         NEW h \in Peers, Accept(s, vnc, h)
  PROVE  BlackInv' /\ AdmittedAreNamed'
<1> DEFINE verdict == IF s.sockFilter = NoFilter THEN "+" ELSE verifyConnection(s.sockFilter, h)
           black == isBlackmarked(blm[h])
           asked == vnc /\ verdict # "-"
<1>1. /\ s.open /\ admitted'.host = h /\ admitted'.query = (verdict = "?")
      /\ admitted'.by = "filter" => verdict # "-"
      /\ blm' = IF asked THEN [blm EXCEPT ![h] = black.entry] ELSE blm
      /\ tries' = IF asked /\ ~black.answer THEN [tries EXCEPT ![h] = Tried(@)] ELSE tries
      /\ UNCHANGED <<setupVars, now>>
  BY DEF Accept
<1>2. BlackInv'
  <2>1. CASE asked
    BY <1>1, <2>1, AttemptCounted
  <2>2. CASE ~asked
    BY <1>1, <2>2 DEF BlackInv, Counted, PutOff
  <2> QED BY <2>1, <2>2
<1>3. AdmittedAreNamed'
  <2> SUFFICES ASSUME complete PROVE NamedBy(config.hosts, admitted')
    BY <1>1, NamedIsNamed DEF setupVars
  <2>1. config.hosts \in Seq(ListenerPattern) /\ h \in Hosts /\ config.hosts # NoFilter
    BY ListeningAssumption DEF SetupInv, ListenerPattern
  <2>2. verdict = verifyConnection(config.hosts, h)
    BY <1>1, <2>1 DEF SetupInv, Applied
  <2> HIDE DEF verdict
  <2> QED BY <1>1, <2>1, <2>2, VerdictIsNamed
<1> QED BY <1>2, <1>3

LEMMA ListeningNextInv ==
  SetupInv /\ BlackInv /\ AdmittedAreNamed /\ [ListeningNext]_listeningVars
    => (SetupInv /\ BlackInv /\ AdmittedAreNamed)'
<1> SUFFICES ASSUME SetupInv, BlackInv, AdmittedAreNamed, [ListeningNext]_listeningVars
             PROVE  (SetupInv /\ BlackInv /\ AdmittedAreNamed)'
  OBVIOUS
<1>1. CASE setKey \/ setAddressChangeNotifier
  <2>1. SetupInv' /\ UNCHANGED <<now, blm, tries, admitted>> /\ config' = config
        /\ (complete' => complete \/ admitted.by = "nobody")
    BY <1>1, SetupStep
  <2>2. now' \in Nat /\ now' >= now
    BY <2>1 DEF BlackInv
  <2> QED BY <2>1, <2>2, NamedKept, BlackKept
<1>2. ASSUME NEW h \in Peers, Accept(rfbSock, TRUE, h) \/ Accept(httpSock, FALSE, h)
      PROVE  (SetupInv /\ BlackInv /\ AdmittedAreNamed)'
  <2>1. SetupInv'
    BY <1>2, SetupKept DEF Accept
  <2> QED BY <1>2, <2>1, AcceptInv
<1>3. ASSUME NEW h \in Peers, clearBlackmark(h)
      PROVE  (SetupInv /\ BlackInv /\ AdmittedAreNamed)'
  <2>1. SetupInv' /\ AdmittedAreNamed'
    BY <1>3, SetupKept, NamedKept DEF clearBlackmark, setupVars
  <2>2. BlackInv'
    <3>1. tries' = [tries EXCEPT ![h] = NoTries] /\ blm' = [blm EXCEPT ![h] = NoEntry] /\ now' = now
      BY <1>3 DEF clearBlackmark
    <3>2. NoTries \in Tries /\ NoEntry \in BlockEntry
      BY DEF NoTries, NoEntry, Tries, BlockEntry
    <3>3. tries' \in [Peers -> Tries] /\ blm' \in [Peers -> BlockEntry] /\ now \in Nat
      BY <3>1, <3>2 DEF BlackInv
    <3>4. Counted(h)'
      BY <3>1, <3>3, ListeningAssumption DEF BlackInv, Counted, NoTries
    <3>5. ASSUME NEW g \in Peers, g # h PROVE Counted(g)'
      <4>1. tries'[g] = tries[g] /\ blm'[g] = blm[g] /\ Counted(g)
        BY <3>1, <3>5 DEF BlackInv
      <4> QED BY <3>1, <4>1 DEF Counted, PutOff
    <3> QED BY <3>1, <3>3, <3>4, <3>5 DEF BlackInv
  <2> QED BY <2>1, <2>2
<1>4. CASE Tick
  <2>1. SetupInv' /\ AdmittedAreNamed'
    BY <1>4, SetupKept, NamedKept DEF Tick, setupVars
  <2>2. BlackInv'
    BY <1>4, BlackKept DEF Tick, BlackInv
  <2> QED BY <2>1, <2>2
<1>5. CASE UNCHANGED listeningVars
  <2>1. SetupInv' /\ AdmittedAreNamed'
    BY <1>5, SetupKept, NamedKept DEF listeningVars, setupVars
  <2>2. now' \in Nat /\ now' >= now
    BY <1>5 DEF listeningVars, BlackInv
  <2> QED BY <1>5, <2>1, <2>2, BlackKept DEF listeningVars
<1> QED BY <1>1, <1>2, <1>3, <1>4, <1>5 DEF ListeningNext

THEOREM Admission == ListeningSpec => []AdmittedAreNamed
<1> QED BY ListeningInitInv, ListeningNextInv, PTL DEF ListeningSpec

THEOREM BackOff == ListeningSpec => []RetriesBackOff
<1>1. BlackInv => RetriesBackOff
  <2> SUFFICES ASSUME BlackInv, NEW h \in Peers, tries[h].n > threshold,
                      tries[h].last - tries[h].since < Pow2[TimeoutBits] - initialTimeout
               PROVE  tries[h].last - tries[h].since
                        >= initialTimeout * (Pow2[tries[h].n - threshold] - 1)
    BY DEF RetriesBackOff
  <2>1. PutOff(h)
    BY ListeningAssumption DEF BlackInv, Counted, Tries
  <2>2. tries[h].last \in Nat /\ tries[h].since \in Nat /\ Pow2[TimeoutBits] \in Nat
        /\ initialTimeout \in Nat
    BY ListeningAssumption, Pow2Facts DEF BlackInv, Tries
  <2> QED BY <2>1, <2>2 DEF PutOff
<1> QED BY ListeningInitInv, ListeningNextInv, <1>1, PTL DEF ListeningSpec

-----------------------------------------------------------------------------
(***************************************************************************)
(* A peer that is silent is closed when its time is over, for any timeouts *)
(* and any number of peers, whichever of their answers is the soonest.     *)
(***************************************************************************)
\* The connections of which the first half of SilentAreClosed speaks.
Relevant(c) ==
  c \in Here \ missed /\ (c \in Viewers => idleTimeout # 0) /\ (c \in Browsers => jumps[c] = 0)

\* The wait ends before the clock shows the limit, as far as it was not set
\* since the last look ...
OnTime(c) ==
  /\ 0 <= ago[c] /\ ago[c] + timeout <= LimitOf(c)
  /\ quiet[c] - ago[c] <= LimitOf(c) * jumps[c]

\* ... and if it was, before the limit once more.
Delayed(c) == jumps[c] >= 1 /\ quiet[c] + timeout <= LimitOf(c) * jumps[c]

IdleTypeOK ==
  /\ waiting \in BOOLEAN /\ timeout \in Nat
  /\ ago \in [Peer -> Int] /\ quiet \in [Peer -> Nat] /\ jumps \in [Peer -> Nat]
  /\ at = [c \in Peer |-> at[c]]

IdleInv ==
  /\ IdleTypeOK
  /\ waiting \/ timeout = 0
  /\ \A c \in Here \ missed : ServerOf(c) \in listening
  /\ \A c \in Here : jumps[c] = 0 => 0 <= ago[c] /\ ago[c] <= quiet[c]
  /\ \A c \in Peer : Relevant(c) => OnTime(c) \/ Delayed(c)
  /\ \A c \in Peer : Relevant(c) /\ waiting => timeout > 0
  /\ \A c \in Peer : at[c] = GONE /\ quiet[c] # 0 /\ jumps[c] = 0 =>
       quiet[c] >= IF c \in Browsers THEN idleTimeoutSecs ELSE idleTimeout

LEMMA Times ==
  ASSUME NEW l \in Nat, NEW j \in Nat
  PROVE  l * j \in Nat /\ l * (j + 1) = l * j + l /\ l * 0 = 0
OBVIOUS

LEMMA LimitType ==
  ASSUME NEW c \in Peer
  PROVE  LimitOf(c) \in Nat /\ (c \in Viewers /\ idleTimeout # 0 => LimitOf(c) > 0)
         /\ (c \in Viewers => LimitOf(c) >= idleTimeout)
         /\ (c \in Browsers => LimitOf(c) = idleTimeoutSecs) /\ (c \in Viewers <=> c \notin Browsers)
BY IdleAssumption DEF LimitOf, Peer

\* The soonest of several timeouts is one of them, and none is sooner.
LEMMA SoonestIsLeast ==
  ASSUME NEW S, S \subseteq Nat
  PROVE  /\ soonestTimeout(S) \in Nat
         /\ \A x \in S \ {0} : soonestTimeout(S) > 0 /\ soonestTimeout(S) <= x
<1>1. CASE S \subseteq {0}
  BY <1>1 DEF soonestTimeout
<1>2. CASE ~ (S \subseteq {0})
  <2>1. S \ {0} # {} /\ S \ {0} \subseteq Nat
    BY <1>2
  <2>2. \E x \in S \ {0} : \A y \in S \ {0} : x <= y
    BY <2>1, NatMin
  <2>3. Min(S \ {0}) \in S \ {0} /\ \A y \in S \ {0} : Min(S \ {0}) <= y
    BY <2>2 DEF Min
  <2> DEFINE m == Min(S \ {0})
  <2>4. soonestTimeout(S) = m
    BY <1>2 DEF soonestTimeout
  <2> HIDE DEF m
  <2>5. m \in Nat /\ m # 0
    BY <2>3 DEF m
  <2>6. \A x \in S \ {0} : m <= x
    BY <2>3 DEF m
  <2> QED BY <2>4, <2>5, <2>6
<1> QED BY <1>1, <1>2

\* What is answered for a connection: its time, or what the clock shows when
\* it was set, and when it is closed.
LEMMA AnswerOf ==
  ASSUME IdleTypeOK, NEW c \in Peer
  PROVE  LET i == idleTimeoutOf(c)
         IN  /\ i.answer \in Nat /\ i.ago \in Int /\ i.closed \in BOOLEAN
             /\ c \in Browsers =>
                  /\ i.ago = ago[c] /\ (i.closed <=> LimitOf(c) <= ago[c])
                  /\ ~i.closed => i.answer > 0 /\ i.ago + i.answer = LimitOf(c)
             /\ c \in Viewers /\ idleTimeout # 0 =>
                  /\ i.closed => i.ago >= LimitOf(c) /\ (ago[c] >= 0 => ago[c] = i.ago)
                  /\ ~i.closed => i.answer > 0 /\ 0 <= i.ago /\ i.ago + i.answer = LimitOf(c)
                  /\ i.ago \in {0, ago[c]}
                  /\ ago[c] >= 0 /\ ago[c] <= LimitOf(c) => i.ago = ago[c]
             /\ c \in Viewers /\ idleTimeout = 0 => i.ago = ago[c] /\ ~i.closed
<1> DEFINE limit == LimitOf(c)
<1>1. limit \in Nat /\ ago[c] \in Int /\ Late \in Nat /\ (c \in Viewers <=> c \notin Browsers)
      /\ (c \in Browsers => limit = idleTimeoutSecs) /\ (c \in Viewers /\ idleTimeout # 0 => limit > 0)
  BY LimitType, IdleAssumption DEF IdleTypeOK
<1>2. CASE c \in Browsers
  <2>1. idleTimeoutOf(c) = OfBrowser(c) /\ limit = idleTimeoutSecs
    BY <1>1, <1>2 DEF idleTimeoutOf
  <2>2. /\ OfBrowser(c).ago = ago[c]
        /\ OfBrowser(c).answer = IF idleTimeoutSecs - ago[c] > 0 THEN idleTimeoutSecs - ago[c] ELSE 0
        /\ OfBrowser(c).closed <=> idleTimeoutSecs - ago[c] <= 0
    BY DEF OfBrowser
  <2> HIDE DEF limit
  <2>3. OfBrowser(c).answer \in Nat
    BY <1>1, <1>2, <2>1, <2>2
  <2>4. OfBrowser(c).closed <=> limit <= ago[c]
    BY <1>1, <1>2, <2>1, <2>2
  <2>5. ~ (limit <= ago[c]) => OfBrowser(c).answer > 0 /\ ago[c] + OfBrowser(c).answer = limit
    BY <1>1, <1>2, <2>1, <2>2
  <2>6. OfBrowser(c).closed \in BOOLEAN
    BY DEF OfBrowser
  <2> QED BY <1>1, <1>2, <2>1, <2>2, <2>3, <2>4, <2>5, <2>6 DEF limit
<1>3. CASE c \in Viewers
  <2>1. idleTimeoutOf(c) = OfViewer(c)
    BY <1>3 DEF idleTimeoutOf
  <2> QED BY <1>1, <1>3, <2>1 DEF OfViewer
<1> QED BY <1>2, <1>3, <1>1

LEMMA IdleInitInv == IdleInit => IdleInv
<1> SUFFICES ASSUME IdleInit PROVE IdleInv
  OBVIOUS
<1>1. IdleTypeOK
  <2>1. waiting \in BOOLEAN
    BY DEF IdleInit
  <2>2. timeout \in Nat /\ ago \in [Peer -> Int] /\ quiet \in [Peer -> Nat] /\ jumps \in [Peer -> Nat]
    BY DEF IdleInit
  <2>3. at = [c \in Peer |-> at[c]]
    BY DEF IdleInit
  <2> QED BY <2>1, <2>2, <2>3 DEF IdleTypeOK
<1>2. Here = {}
  BY DEF IdleInit, Here
<1>3. \A c \in Peer : ~Relevant(c) /\ quiet[c] = 0
  BY <1>2 DEF Relevant, IdleInit
<1> QED BY <1>1, <1>2, <1>3 DEF IdleInit, IdleInv

-----------------------------------------------------------------------------
LEMMA CheckInv == ASSUME IdleInv, checkTimeouts PROVE IdleInv'
<1> DEFINE i(c) == idleTimeoutOf(c)
           answers == {i(c).answer : c \in Looked}
<1>1. \A c \in Peer : i(c).answer \in Nat
  BY AnswerOf DEF IdleInv
<1> HIDE DEF i
<1>2. answers \subseteq Nat
  BY <1>1 DEF Looked, Here
<1>3. waiting' = TRUE /\ timeout = 0 /\ timeout' = soonestTimeout(answers)
      /\ at' = [c \in Peer |-> IF c \in Looked /\ i(c).closed THEN GONE ELSE at[c]]
      /\ ago' = [c \in Peer |-> IF c \in Looked THEN i(c).ago ELSE ago[c]]
      /\ UNCHANGED <<quiet, jumps, missed, listening>>
  BY DEF checkTimeouts, IdleInv, i
<1>4. timeout' \in Nat /\ \A c \in Looked : i(c).answer # 0 => timeout' > 0 /\ timeout' <= i(c).answer
  <2> HIDE DEF answers
  <2>1. timeout' \in Nat /\ \A x \in answers \ {0} : timeout' > 0 /\ timeout' <= x
    BY <1>2, <1>3, SoonestIsLeast
  <2> QED BY <2>1 DEF answers
<1> HIDE DEF answers
<1>5. IdleTypeOK'
  <2>1. \A c \in Peer : i(c).ago \in Int
    BY AnswerOf DEF IdleInv, i
  <2> QED BY <1>3, <1>4, <2>1 DEF IdleInv, IdleTypeOK
<1>6. Here' \subseteq Here /\ Here' = {c \in Here : ~ (c \in Looked /\ i(c).closed)}
  BY <1>3 DEF Here
<1>7. \A c \in Here' \ missed' : ServerOf(c) \in listening' /\ c \in Looked /\ ~i(c).closed
  BY <1>3, <1>6 DEF IdleInv, Looked
<1>8. ASSUME NEW c \in Peer, Relevant(c)'
      PROVE  (OnTime(c) \/ Delayed(c))' /\ timeout' > 0
  <2>1. Relevant(c) /\ c \in Looked /\ ~i(c).closed
    BY <1>3, <1>6, <1>7, <1>8 DEF Relevant
  <2>2. LimitOf(c)' = LimitOf(c) /\ ago'[c] = i(c).ago
    BY <1>3, <2>1 DEF LimitOf
  <2>3. LimitOf(c) \in Nat /\ quiet[c] \in Nat /\ jumps[c] \in Nat /\ ago[c] \in Int
        /\ LimitOf(c) * jumps[c] \in Nat
    BY LimitType, Times DEF IdleInv, IdleTypeOK
  <2>4. OnTime(c) \/ Delayed(c)
    BY <2>1 DEF IdleInv
  <2>5. i(c).answer > 0 /\ i(c).answer \in Nat /\ i(c).ago + i(c).answer = LimitOf(c) /\ i(c).ago \in Int
        /\ (c \in Viewers => 0 <= i(c).ago /\ i(c).ago \in {0, ago[c]}
              /\ (ago[c] >= 0 /\ ago[c] <= LimitOf(c) => i(c).ago = ago[c]))
        /\ (c \in Browsers => i(c).ago = ago[c])
        /\ (c \in Viewers <=> c \notin Browsers)
    BY <2>1, AnswerOf, LimitType DEF IdleInv, Relevant, i
  <2>6. timeout' > 0 /\ timeout' <= i(c).answer
    BY <1>4, <2>1, <2>5
  <2>7. quiet'[c] = quiet[c] /\ jumps'[c] = jumps[c]
    BY <1>3
  <2>8. CASE OnTime(c)
    <3>1. 0 <= ago[c] /\ ago[c] <= LimitOf(c) /\ quiet[c] - ago[c] <= LimitOf(c) * jumps[c]
      BY <2>8, <1>3, <2>3 DEF OnTime
    <3>2. ago'[c] = ago[c]
      BY <3>1, <2>2, <2>5
    <3>3. ago[c] + timeout' <= LimitOf(c)
      BY <2>2, <2>3, <2>5, <2>6, <3>2, <1>4
    <3> QED BY <2>2, <2>6, <2>7, <3>1, <3>2, <3>3 DEF OnTime
  <2>9. CASE Delayed(c)
    <3>1. jumps[c] >= 1 /\ quiet[c] <= LimitOf(c) * jumps[c]
      BY <2>9, <1>3, <2>3 DEF Delayed
    <3>2. c \in Viewers
      BY <3>1, <2>1, <2>3, <2>5 DEF Relevant
    <3>3. 0 <= ago'[c] /\ ago'[c] + timeout' <= LimitOf(c)
      BY <2>2, <2>3, <2>5, <2>6, <3>2, <1>4
    <3>4. quiet[c] - ago'[c] <= LimitOf(c) * jumps[c]
      BY <2>2, <2>3, <2>5, <3>1, <3>2
    <3> QED BY <2>2, <2>6, <2>7, <3>3, <3>4 DEF OnTime
  <2> QED BY <2>4, <2>8, <2>9
<1>9. ASSUME NEW c \in Here', jumps'[c] = 0
      PROVE  0 <= ago'[c] /\ ago'[c] <= quiet'[c]
  <2>1. c \in Here /\ c \in Peer /\ jumps[c] = 0 /\ 0 <= ago[c] /\ ago[c] <= quiet[c]
        /\ quiet[c] \in Nat /\ ago[c] \in Int
    BY <1>3, <1>6, <1>9 DEF IdleInv, IdleTypeOK, Here
  <2>2. i(c).ago \in {0, ago[c]}
    BY <2>1, AnswerOf, LimitType DEF IdleInv, i
  <2> QED BY <1>3, <2>1, <2>2
<1>10. ASSUME NEW c \in Peer, at'[c] = GONE, quiet'[c] # 0, jumps'[c] = 0
       PROVE  quiet'[c] >= IF c \in Browsers THEN idleTimeoutSecs ELSE idleTimeout
  <2>1. CASE at[c] = GONE
    BY <1>3, <1>10, <2>1 DEF IdleInv
  <2>2. CASE at[c] # GONE
    <3>1. c \in Looked /\ i(c).closed /\ c \in Here
      BY <1>3, <1>10, <2>2 DEF Here
    <3>2. 0 <= ago[c] /\ ago[c] <= quiet[c] /\ quiet[c] \in Nat /\ ago[c] \in Int
      BY <1>3, <1>10, <3>1 DEF IdleInv, IdleTypeOK
    <3>3. ago[c] >= LimitOf(c) /\ LimitOf(c) \in Nat
      BY <3>1, <3>2, AnswerOf, LimitType DEF IdleInv, i
    <3>4. quiet[c] >= LimitOf(c)
      BY <3>2, <3>3
    <3> QED BY <1>3, <3>2, <3>3, <3>4, LimitType, IdleAssumption
  <2> QED BY <2>1, <2>2
<1> QED BY <1>3, <1>5, <1>7, <1>8, <1>9, <1>10 DEF IdleInv

LEMMA SecondInv == ASSUME IdleInv, Second PROVE IdleInv'
<1>1. waiting /\ waiting' = (timeout # 1) /\ timeout' = (IF timeout > 0 THEN timeout - 1 ELSE 0)
      /\ ago' = [c \in Peer |-> IF c \in Here THEN ago[c] + 1 ELSE ago[c]]
      /\ quiet' = [c \in Peer |-> IF c \in Here THEN quiet[c] + 1 ELSE quiet[c]]
      /\ UNCHANGED <<at, jumps, missed, listening>>
  BY DEF Second
<1>2. IdleTypeOK'
  BY <1>1 DEF IdleInv, IdleTypeOK
<1>3. Here' = Here /\ \A c \in Peer : LimitOf(c)' = LimitOf(c) /\ Relevant(c)' = Relevant(c)
  BY <1>1 DEF Here, LimitOf, Relevant
<1>4. ASSUME NEW c \in Peer, Relevant(c)
      PROVE  (OnTime(c) \/ Delayed(c))' /\ (waiting' => timeout' > 0)
  <2>1. timeout > 0 /\ timeout \in Nat /\ c \in Here /\ c \in Peer
    BY <1>1, <1>4 DEF IdleInv, IdleTypeOK, Relevant
  <2>2. timeout' = timeout - 1 /\ ago'[c] = ago[c] + 1 /\ quiet'[c] = quiet[c] + 1
        /\ jumps'[c] = jumps[c] /\ LimitOf(c)' = LimitOf(c)
    BY <1>1, <1>3, <2>1
  <2>3. LimitOf(c) * jumps[c] \in Nat /\ LimitOf(c) \in Nat /\ ago[c] \in Int /\ quiet[c] \in Nat
    BY LimitType, Times DEF IdleInv, IdleTypeOK
  <2>4. OnTime(c) \/ Delayed(c)
    BY <1>4 DEF IdleInv
  <2>7. waiting' => timeout' > 0
    <3>1. waiting' => timeout # 1
      BY <1>1
    <3> QED BY <2>1, <2>2, <3>1
  <2>5. CASE OnTime(c)
    <3>1. 0 <= ago[c] /\ ago[c] + timeout <= LimitOf(c) /\ quiet[c] - ago[c] <= LimitOf(c) * jumps[c]
      BY <2>5 DEF OnTime
    <3>2. 0 <= ago'[c] /\ ago'[c] + timeout' <= LimitOf(c)
          /\ quiet'[c] - ago'[c] <= LimitOf(c) * jumps[c]
      BY <2>1, <2>2, <2>3, <3>1
    <3>3. OnTime(c)'
      BY <2>2, <3>2 DEF OnTime
    <3> QED BY <2>7, <3>3
  <2>6. CASE Delayed(c)
    <3>1. jumps[c] >= 1 /\ quiet[c] + timeout <= LimitOf(c) * jumps[c]
      BY <2>6 DEF Delayed
    <3>2. quiet'[c] + timeout' <= LimitOf(c) * jumps[c]
      BY <2>1, <2>2, <2>3, <3>1
    <3>3. Delayed(c)'
      BY <2>2, <3>1, <3>2 DEF Delayed
    <3> QED BY <2>7, <3>3
  <2> QED BY <2>4, <2>5, <2>6
<1>5. waiting' \/ timeout' = 0
  <2>1. timeout = 1 => timeout' = 0
    BY <1>1
  <2>2. timeout # 1 => waiting'
    BY <1>1
  <2> QED BY <2>1, <2>2
<1>6. \A c \in Here : jumps[c] = 0 => 0 <= ago'[c] /\ ago'[c] <= quiet'[c]
  BY <1>1 DEF IdleInv, IdleTypeOK, Here
<1>7. \A c \in Peer : at[c] = GONE => quiet'[c] = quiet[c]
  BY <1>1 DEF Here
<1> QED BY <1>1, <1>2, <1>3, <1>4, <1>5, <1>6, <1>7 DEF IdleInv

LEMMA ClockSetInv == ASSUME IdleInv, ClockSet PROVE IdleInv'
<1>1. PICK d \in Jumps : ago' = [c \in Peer |-> IF c \in Here THEN ago[c] + d ELSE ago[c]]
  BY DEF ClockSet
<1>2. waiting /\ jumps' = [c \in Peer |-> IF c \in Here THEN jumps[c] + 1 ELSE jumps[c]]
      /\ UNCHANGED <<waiting, timeout, at, quiet, missed, listening>>
  BY DEF ClockSet
<1>3. IdleTypeOK'
  BY <1>1, <1>2, IdleAssumption DEF IdleInv, IdleTypeOK
<1>4. Here' = Here /\ \A c \in Here : jumps'[c] # 0 /\ jumps'[c] = jumps[c] + 1 /\ jumps[c] \in Nat
  BY <1>2 DEF Here, IdleInv, IdleTypeOK
<1>5. ASSUME NEW c \in Peer, Relevant(c)'
      PROVE  (OnTime(c) \/ Delayed(c))' /\ (waiting' => timeout' > 0)
  <2>1. Relevant(c) /\ c \in Here
    BY <1>2, <1>4, <1>5, LimitType DEF Relevant
  <2>2. LimitOf(c)' = LimitOf(c) /\ jumps'[c] = jumps[c] + 1 /\ timeout' = timeout /\ quiet'[c] = quiet[c]
    BY <1>2, <1>4, <2>1 DEF LimitOf
  <2>3. LimitOf(c) * jumps[c] \in Nat /\ LimitOf(c) \in Nat /\ ago[c] \in Int /\ quiet[c] \in Nat
        /\ jumps[c] \in Nat /\ timeout \in Nat
        /\ LimitOf(c) * (jumps[c] + 1) = LimitOf(c) * jumps[c] + LimitOf(c)
    BY LimitType, Times DEF IdleInv, IdleTypeOK
  <2>4. OnTime(c) \/ Delayed(c)
    BY <2>1 DEF IdleInv
  <2>5. quiet[c] + timeout <= LimitOf(c) * jumps[c] + LimitOf(c)
    BY <2>3, <2>4 DEF OnTime, Delayed
  <2>6. jumps[c] + 1 >= 1
    BY <2>3
  <2>7. Delayed(c)'
    BY <2>2, <2>3, <2>5, <2>6 DEF Delayed
  <2> QED BY <1>2, <2>1, <2>7 DEF IdleInv
<1>6. \A c \in Peer : at[c] = GONE => jumps'[c] = jumps[c]
  BY <1>2 DEF Here
<1> QED BY <1>2, <1>3, <1>4, <1>5, <1>6 DEF IdleInv

\* What every step does that ends the wait: an event makes a connection young.
LEMMA WakesInv ==
  ASSUME IdleInv, Wakes, IdleTypeOK', UNCHANGED listening,
         NEW c \in Peer, EventFrom(c), c \in Here',
         \A b \in Peer : b # c => at'[b] = at[b]
  PROVE  IdleInv'
<1>0. ~waiting' /\ timeout' = 0
  BY DEF Wakes
<1>1. /\ timeout' = 0
      /\ \A b \in Peer : b # c => ago'[b] = ago[b] /\ quiet'[b] = quiet[b] /\ jumps'[b] = jumps[b]
      /\ ago'[c] = 0 /\ quiet'[c] = 0 /\ jumps'[c] = 0
  BY <1>0 DEF EventFrom, IdleInv, IdleTypeOK
<1>2. \A b \in Peer : b # c => (b \in Here' <=> b \in Here) /\ (b \in missed' <=> b \in missed)
                               /\ LimitOf(b)' = LimitOf(b)
  BY DEF Here, EventFrom, LimitOf
<1>3. c \notin missed' => ServerOf(c) \in listening'
  BY DEF EventFrom
<1>4. ASSUME NEW b \in Peer, Relevant(b)'
      PROVE  (OnTime(b) \/ Delayed(b))'
  <2>1. LimitOf(b)' \in Nat
    BY IdleAssumption DEF LimitOf
  <2>2. CASE b = c
    <3>1. LimitOf(b)' * 0 = 0
      BY <2>1, Times
    <3>2. ago'[c] + timeout' = 0 /\ quiet'[c] - ago'[c] = 0
      BY <1>1
    <3>3. OnTime(c)'
      BY <1>1, <2>1, <2>2, <3>1, <3>2 DEF OnTime
    <3> QED BY <2>2, <3>3
  <2>3. CASE b # c
    <3>1. Relevant(b) /\ LimitOf(b)' = LimitOf(b)
      BY <1>1, <1>2, <1>4, <2>3 DEF Relevant
    <3>2. timeout \in Nat /\ ago[b] \in Int /\ quiet[b] \in Nat
      BY DEF IdleInv, IdleTypeOK
    <3>3. OnTime(b) \/ Delayed(b)
      BY <3>1 DEF IdleInv
    <3>4. LimitOf(b) \in Nat /\ LimitOf(b) * jumps[b] \in Nat
      BY LimitType, Times DEF IdleInv, IdleTypeOK
    <3>5. CASE OnTime(b)
      BY <1>1, <2>3, <3>1, <3>2, <3>4, <3>5 DEF OnTime
    <3>6. CASE Delayed(b)
      BY <1>1, <2>3, <3>1, <3>2, <3>4, <3>6 DEF Delayed
    <3> QED BY <3>3, <3>5, <3>6
  <2> QED BY <2>2, <2>3
<1>5. \A b \in Here' \ missed' : ServerOf(b) \in listening'
  BY <1>2, <1>3 DEF IdleInv, Here
<1>6. \A b \in Here' : jumps'[b] = 0 => 0 <= ago'[b] /\ ago'[b] <= quiet'[b]
  <2>1. \A b \in Here' : b \in Peer /\ (b # c => b \in Here)
    BY <1>2 DEF Here
  <2>2. \A b \in Here : jumps[b] = 0 => 0 <= ago[b] /\ ago[b] <= quiet[b]
    BY DEF IdleInv
  <2> QED BY <1>1, <2>1, <2>2
<1>7. \A b \in Peer : at'[b] = GONE /\ quiet'[b] # 0 /\ jumps'[b] = 0 =>
       quiet'[b] >= IF b \in Browsers THEN idleTimeoutSecs ELSE idleTimeout
  <2>1. \A b \in Peer : at[b] = GONE /\ quiet[b] # 0 /\ jumps[b] = 0 =>
          quiet[b] >= IF b \in Browsers THEN idleTimeoutSecs ELSE idleTimeout
    BY DEF IdleInv
  <2> QED BY <1>1, <2>1
<1> QED BY <1>0, <1>1, <1>4, <1>5, <1>6, <1>7 DEF IdleInv

LEMMA EventType ==
  ASSUME IdleTypeOK, NEW c \in Peer, Wakes, EventFrom(c), at' = [b \in Peer |-> at'[b]]
  PROVE  IdleTypeOK'
<1>1. waiting' \in BOOLEAN /\ timeout' = 0
  BY DEF Wakes
<1>2. ago' \in [Peer -> Int] /\ quiet' \in [Peer -> Nat] /\ jumps' \in [Peer -> Nat]
  BY DEF EventFrom, IdleTypeOK
<1> QED BY <1>1, <1>2 DEF IdleTypeOK

LEMMA SetPortInv == ASSUME IdleInv, SetPort PROVE IdleInv'
<1>1. ~waiting' /\ timeout' = 0 /\ UNCHANGED <<at, ago, quiet, jumps>>
      /\ missed' = missed \cup {c \in Here : ServerOf(c) \notin listening'}
  BY DEF SetPort, Wakes
<1>2. Here' = Here /\ \A c \in Peer : LimitOf(c)' = LimitOf(c) /\ (Relevant(c)' => Relevant(c))
  BY <1>1 DEF Here, LimitOf, Relevant
<1>3. ASSUME NEW b \in Peer, Relevant(b)'
      PROVE  (OnTime(b) \/ Delayed(b))'
  <2>1. OnTime(b) \/ Delayed(b)
    BY <1>2, <1>3 DEF IdleInv
  <2>2. timeout \in Nat /\ ago[b] \in Int /\ quiet[b] \in Nat /\ LimitOf(b) \in Nat
        /\ LimitOf(b) * jumps[b] \in Nat
    BY LimitType, Times DEF IdleInv, IdleTypeOK
  <2>3. CASE OnTime(b)
    BY <1>1, <1>2, <2>2, <2>3 DEF OnTime
  <2>4. CASE Delayed(b)
    BY <1>1, <1>2, <2>2, <2>4 DEF Delayed
  <2> QED BY <2>1, <2>3, <2>4
<1>4. IdleTypeOK'
  <2>1. timeout' \in Nat /\ ago' \in [Peer -> Int] /\ quiet' \in [Peer -> Nat] /\ jumps' \in [Peer -> Nat]
    BY <1>1 DEF IdleInv, IdleTypeOK
  <2>2. waiting' \in BOOLEAN /\ at' = [c \in Peer |-> at'[c]]
    BY DEF SetPort, Wakes, IdleInv, IdleTypeOK
  <2> QED BY <2>1, <2>2 DEF IdleTypeOK
<1> QED BY <1>1, <1>2, <1>3, <1>4 DEF IdleInv

LEMMA IdleNextInv == IdleInv /\ [IdleNext]_idleVars => IdleInv'
<1> SUFFICES ASSUME IdleInv, [IdleNext]_idleVars PROVE IdleInv'
  OBVIOUS
<1>1. ASSUME Connect PROVE IdleInv'
  <2>1. PICK c \in Peer \ Here : at' = [at EXCEPT ![c] = AUTH] /\ EventFrom(c)
    BY <1>1 DEF Connect
  <2>2. at' = [b \in Peer |-> IF b = c THEN AUTH ELSE at[b]]
    BY <2>1 DEF IdleInv, IdleTypeOK
  <2>3. IdleTypeOK'
    BY <1>1, <2>1, <2>2, EventType DEF Connect, IdleInv
  <2>4. c \in Here'
    BY <2>2, IdleAssumption DEF Here
  <2> QED BY <1>1, <2>1, <2>2, <2>3, <2>4, WakesInv DEF Connect
<1>2. ASSUME Message PROVE IdleInv'
  <2>1. PICK c \in Here : at' \in {at, [at EXCEPT ![c] = NORMAL]} /\ EventFrom(c)
    BY <1>2 DEF Message
  <2>2. c \in Peer /\ (at' = at \/ at' = [b \in Peer |-> IF b = c THEN NORMAL ELSE at[b]])
    BY <2>1 DEF IdleInv, IdleTypeOK, Here
  <2>3. IdleTypeOK'
    <3>1. at' = [b \in Peer |-> at'[b]]
      BY <2>2 DEF IdleInv, IdleTypeOK
    <3> QED BY <1>2, <2>1, <2>2, <3>1, EventType DEF Message, IdleInv
  <2>4. c \in Here'
    BY <2>1, <2>2, IdleAssumption DEF Here
  <2> QED BY <1>2, <2>1, <2>2, <2>3, <2>4, WakesInv DEF Message
<1>3. CASE UNCHANGED idleVars
  BY <1>3 DEF idleVars, IdleInv, IdleTypeOK, Here, Relevant, OnTime, Delayed, LimitOf
<1> QED BY <1>1, <1>2, <1>3, CheckInv, SecondInv, ClockSetInv, SetPortInv DEF IdleNext

\* SilentAreClosed, for any numbers of connections, any timeouts and any
\* setting of the clock, and without the bounds MaxJumps and MaxAgo playing a part.
THEOREM SilenceEnds == IdleSpec => []SilentAreClosed
<1>1. IdleInv => SilentAreClosed
  <2> SUFFICES ASSUME IdleInv, NEW c \in Peer, Relevant(c)
               PROVE  quiet[c] <= LimitOf(c) * (jumps[c] + 1)
    BY DEF SilentAreClosed, Relevant, IdleInv, Here
  <2>1. OnTime(c) \/ Delayed(c)
    BY DEF IdleInv
  <2>2. LimitOf(c) * jumps[c] \in Nat /\ LimitOf(c) \in Nat /\ ago[c] \in Int /\ quiet[c] \in Nat
        /\ timeout \in Nat /\ LimitOf(c) * (jumps[c] + 1) = LimitOf(c) * jumps[c] + LimitOf(c)
    BY LimitType, Times DEF IdleInv, IdleTypeOK
  <2>3. quiet[c] <= LimitOf(c) * jumps[c] + LimitOf(c)
    BY <2>1, <2>2 DEF OnTime, Delayed
  <2> QED BY <2>2, <2>3
<1> QED BY IdleInitInv, IdleNextInv, <1>1, PTL DEF IdleSpec

-----------------------------------------------------------------------------
(***************************************************************************)
(* How a connection is opened, for any versions, types, passwords and      *)
(* challenges, any tables and number of rounds of the cipher. First what   *)
(* the cipher keeps: every round can be undone by the one with the same    *)
(* subkey, so that the stored password is read as it was written.          *)
(***************************************************************************)
LEMMA Xors ==
  ASSUME NEW x \in Character, NEW y \in Character
  PROVE  Xor(x, y) \in Character /\ Xor(Xor(x, y), y) = x
<1>1. x \in {0, 1, 2, 3} /\ y \in {0, 1, 2, 3}
  BY DEF Character, Mask
<1> QED BY <1>1 DEF Xor, Character, Mask

LEMMA Turns ==
  ASSUME NEW x \in Character
  PROVE  rotl(x) \in Character /\ rotr(x) \in Character /\ rotr(rotl(x)) = x /\ rotl(rotr(x)) = x
<1>1. x \in {0, 1, 2, 3}
  BY DEF Character, Mask
<1> QED BY <1>1 DEF rotl, rotr, Character, Mask

LEMMA Swaps ==
  ASSUME NEW b \in Blocks
  PROVE  Swapped(b) \in Blocks /\ Swapped(Swapped(b)) = b
<1>1. PICK x \in Character, y \in Character : b = <<x, y>>
  BY DEF Blocks
<1>2. x \in {0, 1, 2, 3} /\ y \in {0, 1, 2, 3}
  BY DEF Character, Mask
<1> DEFINE Work(u, v) == Xor(u \div 2, v) % 2
<1>3. /\ Xor(x, Work(x, y) * 2) \in {0, 1, 2, 3} /\ Xor(y, Work(x, y)) \in {0, 1, 2, 3}
      /\ Work(Xor(x, Work(x, y) * 2), Xor(y, Work(x, y))) = Work(x, y)
      /\ Work(x, y) \in {0, 1}
  BY <1>2 DEF Xor
<1>4. /\ Xor(Xor(x, Work(x, y) * 2), Work(x, y) * 2) = x
      /\ Xor(Xor(y, Work(x, y)), Work(x, y)) = y
  <2>1. Work(x, y) \in Character /\ Work(x, y) * 2 \in Character
    BY <1>3 DEF Character, Mask
  <2> HIDE DEF Work
  <2> QED BY <2>1, Xors
<1>5. \A u, v : Swapped(<<u, v>>) = <<Xor(u, Work(u, v) * 2), Xor(v, Work(u, v))>>
  BY DEF Swapped
<1> HIDE DEF Work
<1>6. Swapped(b) = <<Xor(x, Work(x, y) * 2), Xor(y, Work(x, y))>>
  BY <1>1, <1>5
<1>7. Swapped(Swapped(b)) = <<x, y>>
  BY <1>3, <1>4, <1>5, <1>6
<1>8. Swapped(b) \in Blocks
  BY <1>3, <1>6 DEF Blocks, Character, Mask
<1> QED BY <1>1, <1>7, <1>8

LEMMA Ends ==
  ASSUME NEW b \in Blocks
  PROVE  /\ Initial(b) \in Blocks /\ Final(b) \in Blocks
         /\ Initial(Final(b)) = b /\ Final(Initial(b)) = b
<1>1. PICK x \in Character, y \in Character : b = <<x, y>>
  BY DEF Blocks
<1>2. PICK u \in Character, v \in Character : Swapped(b) = <<u, v>>
  BY Swaps DEF Blocks
<1>3. Initial(b) = <<rotl(u), rotl(v)>> /\ Initial(b) \in Blocks
  BY <1>2, Turns DEF Initial, Blocks
<1> DEFINE r == <<rotr(x), rotr(y)>>
<1>4. r \in Blocks /\ Final(b) = Swapped(r) /\ Final(b) \in Blocks
  BY <1>1, Turns, Swaps DEF Final, Blocks
<1>5. Initial(Final(b)) = b
  <2>1. Swapped(Final(b)) = r
    BY <1>4, Swaps
  <2>2. Initial(Final(b)) = <<rotl(rotr(x)), rotl(rotr(y))>>
    BY <2>1 DEF Initial
  <2> QED BY <1>1, <2>2, Turns
<1>6. Final(Initial(b)) = b
  <2>1. Final(Initial(b)) = Swapped(<<rotr(rotl(u)), rotr(rotl(v))>>)
    BY <1>3 DEF Final
  <2>2. Final(Initial(b)) = Swapped(<<u, v>>)
    BY <2>1, Turns
  <2> QED BY <1>2, <2>2, Swaps
<1> QED BY <1>3, <1>4, <1>5, <1>6

Keys == [1 .. Rounds -> 0 .. 15]

LEMMA RoundFacts ==
  ASSUME NEW b \in Blocks, NEW k \in 0 .. 15
  PROVE  /\ Round(b, k) \in Blocks
         /\ LET r == Round(b, k) IN Round(<<r[2], r[1]>>, k) = <<b[2], b[1]>>
<1>1. PICK x \in Character, y \in Character : b = <<x, y>>
  BY DEF Blocks
<1> DEFINE f == fval(y, k)
<1>2. f \in Character
  BY HandshakeAssumption DEF fval
<1> HIDE DEF f
<1>3. Round(b, k) = <<y, Xor(x, f)>>
  BY <1>1 DEF Round, f
<1>4. Xor(x, f) \in Character /\ Xor(Xor(x, f), f) = x
  BY <1>2, Xors
<1>5. Round(<<Xor(x, f), y>>, k) = <<y, Xor(Xor(x, f), f)>>
  BY DEF Round, f
<1> QED BY <1>1, <1>3, <1>4, <1>5 DEF Blocks

LEMMA DeskeyFacts ==
  ASSUME NEW key \in Blocks
  PROVE  /\ deskey(key, FALSE) \in Keys /\ deskey(key, TRUE) \in Keys
         /\ \A i \in 1 .. Rounds : deskey(key, TRUE)[i] = deskey(key, FALSE)[Rounds + 1 - i]
<1>1. Rounds \in Nat
  BY HandshakeAssumption
<1>2. ASSUME NEW i \in Nat PROVE Subkey(key, i) \in 0 .. 15
  <2>1. ASSUME NEW x \in Character, NEW n \in Nat PROVE Turned(x, n) \in 0 .. 3
    BY Turns DEF Turned, Character, Mask
  <2>2. key[1] \in Character /\ key[2] \in Character /\ i \div 2 \in Nat
    BY DEF Blocks
  <2>3. Turned(key[1], i) \in 0 .. 3 /\ Turned(key[2], i \div 2) \in 0 .. 3
    BY <2>1, <2>2
  <2> QED BY <2>3 DEF Subkey, Mask
<1>3. \A i \in 1 .. Rounds : i \in Nat /\ Rounds + 1 - i \in Nat /\ Rounds + 1 - i \in 1 .. Rounds
  BY <1>1
<1>4. deskey(key, FALSE) = [i \in 1 .. Rounds |-> Subkey(key, i)]
  BY DEF deskey
<1>5. deskey(key, TRUE) = [i \in 1 .. Rounds |-> Subkey(key, Rounds + 1 - i)]
  BY DEF deskey
<1> DEFINE K(i) == Subkey(key, i)
           n == Rounds
<1>6. n \in Nat /\ \A i \in Nat : K(i) \in 0 .. 15
  BY <1>1, <1>2
<1>7. \A i \in 1 .. n : i \in Nat /\ n + 1 - i \in Nat /\ n + 1 - i \in 1 .. n
  BY <1>3
<1> HIDE DEF K, n
<1>8. [i \in 1 .. n |-> K(i)] \in [1 .. n -> 0 .. 15]
  BY ONLY <1>6, <1>7
<1>9. [i \in 1 .. n |-> K(n + 1 - i)] \in [1 .. n -> 0 .. 15]
  BY ONLY <1>6, <1>7
<1>10. \A i \in 1 .. n : [j \in 1 .. n |-> K(n + 1 - j)][i] = [j \in 1 .. n |-> K(j)][n + 1 - i]
  BY ONLY <1>6, <1>7
<1> QED BY <1>4, <1>5, <1>8, <1>9, <1>10 DEF Keys, K, n

\* The rounds follow one another.
Enciphers(f, b, ks) ==
  /\ f[0] = Initial(b) /\ \A i \in 0 .. Rounds : f[i] \in Blocks
  /\ \A i \in 1 .. Rounds : f[i] = Round(f[i - 1], ks[i])

LEMMA RoundsFollow ==
  ASSUME NEW b \in Blocks, NEW ks \in Keys
  PROVE  Enciphers(desRounds(b, ks), b, ks)
<1> DEFINE n == Rounds
           first == Initial(b)
           Is(g) == g = [i \in 0 .. n |-> IF i = 0 THEN first ELSE Round(g[i - 1], ks[i])]
           step == [i \in Nat |-> [c \in Blocks |-> IF i \in 1 .. n THEN Round(c, ks[i]) ELSE c]]
<1>1. n \in Nat /\ first \in Blocks /\ \A i \in 1 .. n : ks[i] \in 0 .. 15
  BY HandshakeAssumption, Ends DEF Keys
<1> HIDE DEF n, first
<1>2. ASSUME NEW i \in 1 .. n, NEW c \in Blocks PROVE Round(c, ks[i]) \in Blocks
  BY <1>1, RoundFacts
<1>3. step \in [Nat -> [Blocks -> Blocks]]
  BY <1>2
<1>4. \A i \in 1 .. n, c \in Blocks : step[i][c] = Round(c, ks[i])
  BY <1>1
<1> HIDE DEF step
<1>5. PICK f \in [Nat -> Blocks] : FollowsOn(f, first, step)
  BY <1>1, <1>3, Recursion
<1> DEFINE h == [i \in 0 .. n |-> f[i]]
<1>6. ASSUME NEW i \in 0 .. n PROVE h[i] = IF i = 0 THEN first ELSE Round(h[i - 1], ks[i])
  <2>1. CASE i # 0
    <3>1. i \in 1 .. n /\ i \in Nat \ {0} /\ i - 1 \in 0 .. n /\ i - 1 \in Nat
      BY <1>1, <2>1
    <3>2. f[i] = step[i][f[i - 1]] /\ f[i - 1] \in Blocks
      BY <1>5, <3>1 DEF FollowsOn
    <3>3. h[i] = f[i] /\ h[i - 1] = f[i - 1]
      BY <3>1
    <3> HIDE DEF h
    <3> QED BY <1>4, <2>1, <3>1, <3>2, <3>3
  <2>2. CASE i = 0
    BY <1>1, <1>5, <2>2 DEF FollowsOn
  <2> QED BY <2>1, <2>2
<1>7. h = [i \in 0 .. n |-> h[i]]
  OBVIOUS
<1> HIDE DEF h
<1>8. Is(h)
  BY <1>6, <1>7
<1>9. desRounds(b, ks) = CHOOSE g : Is(g)
  BY DEF desRounds, n, first
<1> DEFINE p == desRounds(b, ks)
<1>10. Is(p)
  BY <1>8, <1>9
<1> HIDE DEF p
<1>11. p[0] = first
  BY <1>1, <1>10
<1>12. ASSUME NEW i \in 1 .. n PROVE p[i] = Round(p[i - 1], ks[i])
  <2>1. i \in 0 .. n /\ i # 0
    BY <1>1
  <2> QED BY <1>10, <2>1
<1> DEFINE S == {i \in Nat : i <= n => p[i] \in Blocks}
<1>13. 0 \in S
  BY <1>1, <1>11
<1>14. ASSUME NEW i \in Nat, i \in S PROVE i + 1 \in S
  <2> SUFFICES ASSUME i + 1 <= n PROVE p[i + 1] \in Blocks
    OBVIOUS
  <2>1. i + 1 \in 1 .. n /\ (i + 1) - 1 = i /\ i <= n
    BY <1>1
  <2>2. p[i + 1] = Round(p[i], ks[i + 1]) /\ p[i] \in Blocks
    BY <1>12, <1>14, <2>1
  <2> QED BY <1>2, <2>1, <2>2
<1> HIDE DEF S
<1>15. \A i \in 0 .. n : p[i] \in Blocks
  <2>1. Nat \subseteq S
    BY <1>13, <1>14, NatInd
  <2> QED BY <1>1, <2>1 DEF S
<1> QED BY <1>11, <1>12, <1>15 DEF Enciphers, n, first, p

\* What one key order has enciphered the other one deciphers, round for round,
\* the halves the other way round.
LEMMA Deciphers ==
  ASSUME NEW key \in Blocks, NEW block \in Blocks
  PROVE  /\ des(key, FALSE, block) \in Blocks
         /\ des(key, TRUE, des(key, FALSE, block)) = block
<1> DEFINE n == Rounds
           ks == deskey(key, FALSE)
           back == deskey(key, TRUE)
           f == desRounds(block, ks)
           Turn(b) == <<b[2], b[1]>>
           out == Final(Turn(f[n]))
           g == desRounds(out, back)
<1>1. n \in Nat /\ ks \in Keys /\ back \in Keys /\ \A i \in 1 .. n : back[i] = ks[n + 1 - i]
  BY HandshakeAssumption, DeskeyFacts
<1>2. des(key, FALSE, block) = out
  BY DEF des, desfunc
<1> HIDE DEF ks, back, n
<1>3. Enciphers(f, block, ks)
  BY <1>1, RoundsFollow
<1> HIDE DEF f
<1>4. \A b \in Blocks : Turn(b) \in Blocks /\ Turn(Turn(b)) = b /\ Turn(b)[1] = b[2] /\ Turn(b)[2] = b[1]
  BY DEF Blocks
<1>5. f[n] \in Blocks
  BY <1>1, <1>3 DEF Enciphers, n
<1> HIDE DEF Turn
<1>6. out \in Blocks /\ Initial(out) = Turn(f[n])
  BY <1>4, <1>5, Ends
<1> HIDE DEF out
<1>7. Enciphers(g, out, back)
  BY <1>1, <1>6, RoundsFollow
<1> HIDE DEF g
<1>8. /\ f[0] = Initial(block) /\ g[0] = Turn(f[n])
      /\ \A i \in 0 .. n : f[i] \in Blocks
      /\ \A i \in 1 .. n : f[i] = Round(f[i - 1], ks[i]) /\ g[i] = Round(g[i - 1], back[i])
  BY <1>3, <1>6, <1>7 DEF Enciphers, n
<1> DEFINE S == {i \in Nat : i <= n => g[i] = Turn(f[n - i])}
<1>9. 0 \in S
  BY <1>1, <1>8
<1>10. ASSUME NEW i \in Nat, i \in S PROVE i + 1 \in S
  <2> SUFFICES ASSUME i + 1 <= n PROVE g[i + 1] = Turn(f[n - (i + 1)])
    OBVIOUS
  <2> DEFINE j == n - i
  <2>1. /\ j \in 1 .. n /\ j - 1 \in 0 .. n /\ j - 1 = n - (i + 1) /\ n + 1 - (i + 1) = j
        /\ i + 1 \in 1 .. n /\ (i + 1) - 1 = i /\ i <= n
    BY <1>1
  <2>2. g[i] = Turn(f[j])
    BY <1>10, <2>1
  <2> HIDE DEF j
  <2>3. g[i + 1] = Round(Turn(f[j]), ks[j])
    BY <1>1, <1>8, <2>1, <2>2
  <2>4. f[j] = Round(f[j - 1], ks[j]) /\ f[j - 1] \in Blocks /\ ks[j] \in 0 .. 15
    BY <1>1, <1>8, <2>1 DEF Keys, n
  <2>5. Round(Turn(f[j]), ks[j]) = Turn(f[j - 1])
    BY <2>4, RoundFacts DEF Turn
  <2> QED BY <2>1, <2>3, <2>5
<1> HIDE DEF S
<1>11. g[n] = Turn(f[0])
  <2>1. n \in S /\ n - n = 0 /\ n <= n
    BY <1>1, <1>9, <1>10, NatInd
  <2> QED BY <2>1 DEF S
<1>12. des(key, TRUE, out) = Final(Turn(g[n]))
  BY DEF des, desfunc, g, back, n, Turn
<1>13. f[0] \in Blocks /\ Turn(g[n]) = f[0]
  BY <1>1, <1>4, <1>8, <1>11
<1>14. Final(f[0]) = block
  BY <1>8, Ends
<1> QED BY <1>2, <1>6, <1>12, <1>13, <1>14

\* A password that was stored is found again, as far as it counts.
LEMMA PasswordsKept ==
  ASSUME NEW p \in Passwords
  PROVE  /\ Padded(p) \in Blocks /\ ObfuscatedPasswd(p) \in Blocks
         /\ Padded(PlainPasswd(ObfuscatedPasswd(p))) = Padded(p)
<1>1. /\ p \in Seq(Character \ {0}) /\ ObfuscationKey \in Blocks /\ Len(p) \in Nat
      /\ \A i \in 1 .. Len(p) : p[i] \in Character /\ p[i] # 0
  BY HandshakeAssumption
<1>2. PICK x \in Character, y \in Character : Padded(p) = <<x, y>> /\ (x = 0 => y = 0)
  <2>1. 0 \in Character
    BY DEF Character, Mask
  <2> DEFINE x == IF Len(p) >= 1 THEN p[1] ELSE 0
             y == IF Len(p) >= 2 THEN p[2] ELSE 0
  <2>2. x \in Character /\ y \in Character /\ (x = 0 => y = 0)
    BY <1>1, <2>1
  <2>3. Padded(p) = <<x, y>>
    BY DEF Padded
  <2> QED BY <2>2, <2>3
<1>3. Padded(p) \in Blocks
  BY <1>2 DEF Blocks
<1>4. /\ ObfuscatedPasswd(p) \in Blocks
      /\ PlainPasswd(ObfuscatedPasswd(p)) = CString(<<x, y>>)
  BY <1>1, <1>2, <1>3, Deciphers DEF ObfuscatedPasswd, PlainPasswd
<1>5. Padded(CString(<<x, y>>)) = <<x, y>>
  <2>1. CASE x = 0
    BY <1>2, <2>1 DEF CString, Padded
  <2>2. CASE x # 0 /\ y = 0
    BY <2>2 DEF CString, Padded
  <2>3. CASE x # 0 /\ y # 0
    BY <2>3 DEF CString, Padded
  <2> QED BY <2>1, <2>2, <2>3
<1> QED BY <1>2, <1>3, <1>4, <1>5

\* A response has a block for each block of its challenge.
LEMMA ResponseFacts ==
  ASSUME NEW p \in Passwords, NEW c \in Challenges
  PROVE  /\ Len(c) \in Nat \ {0} /\ Len(Response(p, c)) = Len(c)
         /\ Response(p, c) \in Seq(Blocks)
<1>1. c \in Seq(Blocks) /\ c # <<>> /\ Len(c) \in Nat \ {0}
  BY HandshakeAssumption
<1>2. Padded(p) \in Blocks
  BY PasswordsKept
<1>3. ASSUME NEW i \in 1 .. Len(c) PROVE des(Padded(p), FALSE, c[i]) \in Blocks
  <2>1. c[i] \in Blocks
    BY <1>1
  <2> QED BY <1>2, <2>1, Deciphers
<1>4. Response(p, c) = [i \in 1 .. Len(c) |-> des(Padded(p), FALSE, c[i])]
  BY <1>1 DEF Response
<1> DEFINE D(i) == des(Padded(p), FALSE, c[i])
           n == Len(c)
<1>6. n \in Nat /\ \A i \in 1 .. n : D(i) \in Blocks
  BY <1>1, <1>3
<1> HIDE DEF D, n
<1>5. [i \in 1 .. n |-> D(i)] \in Seq(Blocks) /\ Len([i \in 1 .. n |-> D(i)]) = n
  BY ONLY <1>6
<1> QED BY <1>1, <1>4, <1>5 DEF D, n

\* Those that are picked out are a sequence of what was looked for.
LEMMA OfTheseType ==
  ASSUME NEW s, Len(s) \in Nat, NEW types
  PROVE  OfThese(s, types) \in Seq(types)
<1> DEFINE n == Len(s)
           D == Seq(types)
           Is(g) == g = [i \in 0 .. n |->
                           IF i = 0 THEN <<>>
                           ELSE IF s[i] \in types THEN Append(g[i - 1], s[i]) ELSE g[i - 1]]
           More(q, i) == IF s[i] \in types THEN Append(q, s[i]) ELSE q
           step == [i \in Nat |-> [q \in D |-> More(q, i)]]
<1>1. n \in Nat /\ <<>> \in D
  OBVIOUS
<1>2. ASSUME NEW i \in Nat, NEW q \in D PROVE More(q, i) \in D
  BY AppendProperties
<1>9. OfThese(s, types) = (CHOOSE g : Is(g))[n]
  BY DEF OfThese
<1>10. \A g : Is(g) <=> g = [i \in 0 .. n |-> IF i = 0 THEN <<>> ELSE More(g[i - 1], i)]
  OBVIOUS
<1> HIDE DEF n, D, More, Is
<1>3. step \in [Nat -> [D -> D]]
  BY <1>2
<1>4. \A i \in Nat, q \in D : step[i][q] = More(q, i)
  OBVIOUS
<1> HIDE DEF step
<1>5. PICK f \in [Nat -> D] : FollowsOn(f, <<>>, step)
  BY <1>1, <1>3, Recursion
<1> DEFINE h == [i \in 0 .. n |-> f[i]]
<1>6. ASSUME NEW i \in 0 .. n PROVE h[i] = IF i = 0 THEN <<>> ELSE More(h[i - 1], i)
  <2>1. CASE i # 0
    <3>1. i \in Nat \ {0} /\ i - 1 \in 0 .. n /\ i - 1 \in Nat
      BY <1>1, <2>1
    <3>2. f[i] = step[i][f[i - 1]] /\ f[i - 1] \in D
      BY <1>5, <3>1 DEF FollowsOn
    <3>3. h[i] = f[i] /\ h[i - 1] = f[i - 1]
      BY <3>1
    <3> HIDE DEF h
    <3> QED BY <1>4, <2>1, <3>1, <3>2, <3>3
  <2>2. CASE i = 0
    BY <1>1, <1>5, <2>2 DEF FollowsOn
  <2> QED BY <2>1, <2>2
<1>7. h = [i \in 0 .. n |-> h[i]]
  OBVIOUS
<1> HIDE DEF h
<1>8. Is(h)
  BY <1>6, <1>7, <1>10
<1> DEFINE p == CHOOSE g : Is(g)
<1>11. Is(p)
  BY <1>8
<1> HIDE DEF p
<1>12. /\ p[0] = <<>>
       /\ \A i \in 1 .. n : p[i] = More(p[i - 1], i)
  <2>1. p = [i \in 0 .. n |-> IF i = 0 THEN <<>> ELSE More(p[i - 1], i)]
    BY <1>10, <1>11
  <2>2. 0 \in 0 .. n /\ \A i \in 1 .. n : i \in 0 .. n /\ i # 0
    BY <1>1
  <2> QED BY <2>1, <2>2
<1> DEFINE S == {i \in Nat : i <= n => p[i] \in D}
<1>13. 0 \in S
  BY <1>1, <1>12
<1>14. ASSUME NEW i \in Nat, i \in S PROVE i + 1 \in S
  <2> SUFFICES ASSUME i + 1 <= n PROVE p[i + 1] \in D
    OBVIOUS
  <2>1. i + 1 \in 1 .. n /\ (i + 1) - 1 = i /\ i <= n /\ i + 1 \in Nat
    BY <1>1
  <2>2. p[i + 1] = More(p[i], i + 1) /\ p[i] \in D
    BY <1>12, <1>14, <2>1
  <2> QED BY <1>2, <2>1, <2>2
<1> HIDE DEF S
<1>15. n \in S
  BY <1>1, <1>13, <1>14, NatInd
<1>16. p[n] \in D
  BY <1>1, <1>15 DEF S
<1> QED BY <1>9, <1>16 DEF p, D

LEMMA SecTypes ==
  ASSUME offered \in TypeLists
  PROVE  getSecTypes \in Seq({None, VncAuth})
<1> DEFINE numbers == [i \in DOMAIN offered |-> secTypeNum(offered[i])]
           known == {None, VncAuth, "RA2", "RA2ne", "SSPI", "SSPIne"}
<1>1. offered \in Seq(STRING)
  BY HandshakeAssumption
<1>2. DOMAIN offered = 1 .. Len(offered) /\ Len(offered) \in Nat
  BY <1>1
<1>3. Len(numbers) \in Nat
  BY <1>2
<1> HIDE DEF numbers, known
<1>4. OfThese(numbers, known) \in Seq(known)
  BY <1>3, OfTheseType
<1>5. Len(parseSecTypes(offered)) \in Nat
  BY <1>4 DEF parseSecTypes, numbers, known
<1> QED BY <1>5, OfTheseType DEF getSecTypes

LEMMA OneItem ==
  ASSUME NEW x
  PROVE  /\ Head(<<x>>) = x /\ Tail(<<x>>) = <<>> /\ <<x>> # <<>>
         /\ <<>> \o <<x>> = <<x>> /\ <<x>> \o <<>> = <<x>>
<1>1. <<x>> \in Seq({x})
  OBVIOUS
<1> QED BY <1>1, ConcatEmptySeq

LEMMA TwoItems ==
  ASSUME NEW x, NEW y
  PROVE  /\ Head(<<x, y>>) = x /\ Tail(<<x, y>>) = <<y>> /\ <<x, y>> # <<>>
         /\ <<>> \o <<x, y>> = <<x, y>> /\ <<x>> \o <<y>> = <<x, y>> /\ Append(<<x>>, y) = <<x, y>>
<1>1. <<x, y>> \in Seq({x, y}) /\ <<x>> \in Seq({x, y}) /\ <<y>> \in Seq({x, y})
  OBVIOUS
<1>2. <<>> \o <<x, y>> = <<x, y>>
  BY <1>1, ConcatEmptySeq
<1>3. Append(<<x>>, y) = <<x, y>>
  <2> DEFINE a == Append(<<x>>, y)
             b == <<x, y>>
  <2>1. a \in Seq({x, y}) /\ Len(a) = 2 /\ a[1] = x /\ a[2] = y
    <3>1. Len(<<x>>) = 1 /\ <<x>>[1] = x
      OBVIOUS
    <3> QED BY <1>1, <3>1, AppendProperties
  <2>2. b \in Seq({x, y}) /\ Len(b) = 2 /\ b[1] = x /\ b[2] = y
    BY <1>1
  <2> HIDE DEF a, b
  <2>3. \A i \in 1 .. Len(a) : a[i] = b[i]
    BY <2>1, <2>2
  <2>4. a = b
    BY <2>1, <2>2, <2>3, SeqEqual
  <2> QED BY <2>4 DEF a, b
<1>4. <<x>> \o <<y>> = Append(<<x>>, y)
  BY <1>1, AppendIsConcat
<1>5. Head(<<x, y>>) = x /\ <<x, y>> # <<>>
  OBVIOUS
<1>6. Tail(<<x, y>>) = <<y>>
  OBVIOUS
<1> QED BY <1>2, <1>3, <1>4, <1>5, <1>6

-----------------------------------------------------------------------------
(***************************************************************************)
(* What may be on the way, for every place of the server and the client.   *)
(***************************************************************************)
SecurityTypes == {None, VncAuth}
Minor == Official(viewer.version[2])
Ways(server, client) == toServer = server /\ toViewer = client

\* Where a client goes that has a type, and whether it waits for a result.
Proceeds(t) == IF t = VncAuth THEN "challenge" ELSE IF Minor = 8 THEN "result" ELSE "in"
Waits(t) == t = VncAuth \/ Minor = 8
InitItem == Item("init", 0)

ServerSides ==
  [state : {"version", "type", "security", "querying", "initialisation", "normal", "closed"},
   verStrPos : {0, 1}, minor : {ServerMinor, 3, 7, 8}, type : SecurityTypes \cup {NoType},
   challenge : Challenges \cup {<<>>}, response : Seq(Blocks),
   why : {"open", "version", "no type", "type", "refused", "password", "bogus data"}]
ClientSides ==
  [at : {"version", "type", "types", "challenge", "result", "in", "refused", "served"},
   version : ClientVersions, password : Passwords]

HandshakeTypeOK ==
  /\ offered \in TypeLists
  /\ owner \in [store : Stores, password : Passwords, obfuscated : Blocks]
  /\ owner.obfuscated = ObfuscatedPasswd(owner.password)
  /\ viewer \in ClientSides
  /\ hs \in ServerSides /\ (hs.state # "closed" => hs.why = "open")

\* The versions: the client has not seen the server's, or it has answered.
Greeting ==
  LET version == Item("version", viewer.version)
  IN  /\ hs.state = "version"
      /\ \/ /\ viewer.at = "version" /\ hs.verStrPos = 0
            /\ Ways(<<>>, <<Item("version", <<3, ServerMinor>>)>>)
         \/ /\ viewer.at = IF Minor = 3 THEN "type" ELSE "types"
            /\ \/ hs.verStrPos = 0 /\ Ways(<<version, version>>, <<>>)
               \/ hs.verStrPos = 1 /\ Ways(<<version>>, <<>>)

\* The types were offered, or one was chosen.
Choosing ==
  /\ hs.state = "type" /\ hs.minor = Minor /\ Minor # 3
  /\ \/ viewer.at = "types" /\ getSecTypes # <<>> /\ Ways(<<>>, <<Item("types", getSecTypes)>>)
     \/ \E t \in SecurityTypes :
          viewer.at = Proceeds(t) /\ Ways(<<Item("type", t)>> \o InitIf(t), <<>>)

\* A part of the response is here, the rest on the way.
Answering ==
  LET r == Response(viewer.password, hs.challenge)  n == Len(hs.response)
  IN  /\ toServer \in Seq([k : {"response"}, v : Blocks])
      /\ n < Len(r) /\ n + Len(toServer) = Len(r)
      /\ \A i \in 1 .. n : hs.response[i] = r[i]
      /\ \A i \in 1 .. Len(toServer) : toServer[i] = Item("response", r[n + i])

Challenging ==
  LET challenge == Item("challenge", hs.challenge)
  IN  /\ hs.state = "security" /\ hs.type = VncAuth /\ hs.minor = Minor /\ Supported(VncAuth)
      /\ hs.challenge \in Challenges
      /\ \/ /\ Minor = 3 /\ viewer.at = "type" /\ hs.response = <<>>
            /\ Ways(<<>>, <<Item("type", VncAuth), challenge>>)
         \/ viewer.at = "challenge" /\ hs.response = <<>> /\ Ways(<<>>, <<challenge>>)
         \/ viewer.at = "result" /\ toViewer = <<>> /\ Answering

\* The client has what its type asks for.
Passed(h) ==
  /\ h.type \in SecurityTypes /\ Supported(h.type) /\ h.minor = Minor
  /\ h.type = VncAuth => owner.store # "nowhere" /\ SamePassword

\* A client that waits for no result may be ahead of the server.
Ahead ==
  \/ Minor = 3 /\ viewer.at = "type" /\ Ways(<<>>, <<Item("type", None)>>)
  \/ viewer.at = "in" /\ Ways(<<InitItem>>, <<>>)

Asking ==
  /\ hs.state = "querying" /\ Passed(hs)
  /\ \/ Waits(hs.type) /\ viewer.at = "result" /\ Ways(<<>>, <<>>)
     \/ ~Waits(hs.type) /\ Ahead

Accepted ==
  /\ hs.state = "initialisation" /\ Passed(hs)
  /\ \/ Waits(hs.type) /\ viewer.at = "result" /\ Ways(<<>>, <<Item("result", TRUE)>>)
     \/ Waits(hs.type) /\ viewer.at = "in" /\ Ways(<<InitItem>>, <<>>)
     \/ ~Waits(hs.type) /\ Ahead

Serving ==
  /\ hs.state = "normal" /\ Passed(hs)
  /\ \/ viewer.at = "in" /\ Ways(<<>>, <<Item("serverInit", 0)>>)
     \/ viewer.at = "served" /\ Ways(<<>>, <<>>)

\* However it ended, not for nothing.
Ended ==
  /\ hs.state = "closed"
  /\ hs.why = "password" => ~SamePassword \/ owner.store = "nowhere"
  /\ hs.why = "bogus data" => hs.type = None /\ hs.minor < 8

HandshakeIInv ==
  /\ HandshakeTypeOK
  /\ Greeting \/ Choosing \/ Challenging \/ Asking \/ Accepted \/ Serving \/ Ended

LEMMA HandshakeInitInv == HandshakeInit => HandshakeIInv
<1> SUFFICES ASSUME HandshakeInit PROVE HandshakeIInv
  OBVIOUS
<1>1. owner \in [store : Stores, password : Passwords, obfuscated : Blocks]
      /\ owner.obfuscated = ObfuscatedPasswd(owner.password)
  BY PasswordsKept DEF HandshakeInit
<1>2. viewer \in ClientSides /\ viewer.at = "version"
  BY DEF HandshakeInit, ClientSides
<1>3. hs \in ServerSides /\ hs.why = "open" /\ hs.state = "version" /\ hs.verStrPos = 0
  BY DEF HandshakeInit, ServerSides
<1>4. Greeting
  BY <1>2, <1>3 DEF HandshakeInit, Greeting, Ways
<1> QED BY <1>1, <1>2, <1>3, <1>4 DEF HandshakeInit, HandshakeIInv, HandshakeTypeOK

\* What a step that changes neither configuration nor the client's identity
\* leaves as it was.
Settled ==
  /\ offered' = offered /\ owner' = owner
  /\ viewer'.version = viewer.version /\ viewer'.password = viewer.password

LEMMA SettledKeeps ==
  ASSUME Settled
  PROVE  /\ getSecTypes' = getSecTypes /\ Minor' = Minor
         /\ \A t : (Supported(t)' <=> Supported(t)) /\ (Waits(t)' <=> Waits(t))
         /\ SamePassword' <=> SamePassword
         /\ \A h : Passed(h)' <=> Passed(h)
<1>1. getSecTypes' = getSecTypes
  BY DEF Settled, getSecTypes
<1>2. Minor' = Minor
  BY DEF Settled, Minor
<1>3. \A t : (Supported(t)' <=> Supported(t)) /\ (Waits(t)' <=> Waits(t))
  BY <1>1, <1>2 DEF Supported, Waits
<1>4. SamePassword' <=> SamePassword
  BY DEF Settled, SamePassword
<1>5. \A h : Passed(h)' <=> Passed(h)
  BY <1>2, <1>3, <1>4 DEF Passed, Settled
<1> QED BY <1>1, <1>2, <1>3, <1>4, <1>5

LEMMA Minors ==
  ASSUME HandshakeTypeOK
  PROVE  Minor \in {3, 7, 8} /\ viewer.version[2] \in Nat /\ Minor = Official(viewer.version[2])
BY HandshakeAssumption DEF HandshakeTypeOK, ClientSides, Minor, Official

-----------------------------------------------------------------------------
(* The steps of the server. *)

LEMMA TypesStay ==
  ASSUME HandshakeTypeOK, Settled, hs' \in ServerSides, viewer' \in ClientSides,
         hs'.state # "closed" => hs'.why = "open"
  PROVE  HandshakeTypeOK'
BY DEF HandshakeTypeOK, Settled

\* What a step shows that only the server takes, and one that only the client takes.
ServerSteps == viewer' = viewer /\ offered' = offered /\ owner' = owner
ClientSteps == hs' = hs /\ offered' = offered /\ owner' = owner

\* A server that has what it needs of the client asks the user or not.
LEMMA ApproveAdds ==
  ASSUME NEW h, Passed(h), HandshakeTypeOK
  PROVE  ApproveItems(h, TRUE) = IF Waits(h.type) THEN <<Item("result", TRUE)>> ELSE <<>>
<1>1. h.minor = Minor /\ h.type \in {None, VncAuth} /\ Minor \in {3, 7, 8}
  BY Minors DEF Passed, SecurityTypes
<1>2. Waits(h.type) <=> h.minor >= 8 \/ h.type # None
  BY <1>1 DEF Waits, None, VncAuth
<1> QED BY <1>2 DEF ApproveItems

\* The client, what is on the way to it and to the server.
Enters(h, client, server) ==
  \/ Waits(h.type) /\ viewer.at = "result" /\ client = <<>> /\ server = <<>>
  \/ ~Waits(h.type) /\ Minor = 3 /\ viewer.at = "type" /\ client = <<Item("type", None)>> /\ server = <<>>
  \/ ~Waits(h.type) /\ viewer.at = "in" /\ client = <<>> /\ server = <<InitItem>>

LEMMA Approves ==
  ASSUME HandshakeTypeOK, ServerSteps, NEW h \in ServerSides, h.why = "open", Passed(h),
         NEW client, Enters(h, client, toServer'),
         hs' = Approved(h, TRUE), toViewer' = client \o ApproveItems(h, TRUE)
  PROVE  HandshakeIInv'
<1>1. /\ hs' \in ServerSides /\ hs'.state = "initialisation" /\ hs'.why = "open"
      /\ hs'.type = h.type /\ hs'.minor = h.minor
  BY DEF ServerSides, Approved
<1>2. Settled
  BY DEF ServerSteps, Settled
<1>3. HandshakeTypeOK'
  BY <1>1, <1>2, TypesStay DEF ServerSteps, HandshakeTypeOK
<1>4. Passed(hs)'
  <2>1. Passed(hs') <=> Passed(h)
    BY <1>1 DEF Passed
  <2> QED BY <1>2, <2>1, SettledKeeps
<1>6. Minor' = Minor
  BY <1>2, SettledKeeps
<1>5. Accepted'
  <2>1. CASE Waits(h.type)
    <3>1. toViewer' = <<Item("result", TRUE)>> /\ toServer' = <<>> /\ viewer'.at = "result"
      <4>1. client = <<>> /\ toServer' = <<>> /\ viewer'.at = "result"
        BY <2>1 DEF Enters, ServerSteps
      <4>2. ApproveItems(h, TRUE) = <<Item("result", TRUE)>>
        BY <2>1, ApproveAdds
      <4> QED BY <4>1, <4>2, OneItem
    <3>2. Waits(hs.type)'
      BY <1>1, <1>6, <2>1 DEF Waits
    <3> QED BY <1>1, <1>4, <3>1, <3>2 DEF Accepted, Ways
  <2>2. CASE ~Waits(h.type)
    <3>1. ApproveItems(h, TRUE) = <<>>
      BY <2>2, ApproveAdds
    <3>2. toViewer' = client
      <4>1. client = <<>> \/ client = <<Item("type", None)>>
        BY DEF Enters
      <4>2. <<>> \o <<>> = <<>>
        OBVIOUS
      <4>3. client \o <<>> = client
        BY <4>1, <4>2, OneItem
      <4> QED BY <3>1, <4>3
    <3>3. Ahead'
      <4>1. Minor' = Minor /\ InitItem' = InitItem /\ viewer' = viewer
        BY <1>2, SettledKeeps DEF InitItem, ServerSteps
      <4> QED BY <2>2, <3>2, <4>1 DEF Enters, Ahead, Ways
    <3>4. ~Waits(hs.type)'
      BY <1>1, <1>6, <2>2 DEF Waits
    <3> QED BY <1>1, <1>4, <3>3, <3>4 DEF Accepted
  <2> QED BY <2>1, <2>2
<1> QED BY <1>3, <1>5 DEF HandshakeIInv

\* A step that ends the connection.
LEMMA Closes ==
  ASSUME HandshakeTypeOK, ServerSteps, hs' \in ServerSides, hs'.state = "closed",
         hs'.why = "password" => ~SamePassword \/ owner.store = "nowhere",
         hs'.why = "bogus data" => hs'.type = None /\ hs'.minor < 8
  PROVE  HandshakeIInv'
<1>1. Settled
  BY DEF ServerSteps, Settled
<1>2. HandshakeTypeOK'
  BY <1>1, TypesStay DEF ServerSteps, HandshakeTypeOK
<1>3. Ended'
  BY <1>1, SettledKeeps DEF Ended, ServerSteps
<1> QED BY <1>2, <1>3 DEF HandshakeIInv

LEMMA Refuses ==
  ASSUME HandshakeTypeOK, ServerSteps, NEW h \in ServerSides, hs' = Approved(h, FALSE)
  PROVE  HandshakeIInv'
<1>1. hs' \in ServerSides /\ hs'.state = "closed" /\ hs'.why = "refused"
  BY DEF ServerSides, Approved
<1> QED BY <1>1, Closes

LEMMA Queries ==
  ASSUME HandshakeTypeOK, ServerSteps, NEW h \in ServerSides, h.why = "open", Passed(h),
         toViewer = <<>>, NEW before, Enters(h, before, toServer'), Query(h, before)
  PROVE  HandshakeIInv'
<1>0. <<>> \o before = before
  <2>1. before = <<>> \/ before = <<Item("type", None)>>
    BY DEF Enters
  <2> QED BY <2>1, OneItem, ConcatEmptySeq
<1>1. CASE hs' = [h EXCEPT !.state = "querying"] /\ Write(before)
  <2>1. /\ hs' \in ServerSides /\ hs'.state = "querying" /\ hs'.why = "open"
        /\ hs'.type = h.type /\ hs'.minor = h.minor
    BY <1>1 DEF ServerSides
  <2>2. Settled
    BY DEF ServerSteps, Settled
  <2>3. HandshakeTypeOK'
    BY <2>1, <2>2, TypesStay DEF ServerSteps, HandshakeTypeOK
  <2>4. Passed(hs)'
    <3>1. Passed(hs') <=> Passed(h)
      BY <2>1 DEF Passed
    <3> QED BY <2>2, <3>1, SettledKeeps
  <2>5. toViewer' = before
    BY <1>0, <1>1 DEF Write
  <2>6. /\ Minor' = Minor /\ InitItem' = InitItem /\ viewer' = viewer
        /\ (Waits(hs.type)' <=> Waits(h.type))
    <3>1. Minor' = Minor
      BY <2>2, SettledKeeps
    <3> QED BY <2>1, <3>1 DEF InitItem, ServerSteps, Waits
  <2>7. Asking'
    BY <2>1, <2>4, <2>5, <2>6 DEF Asking, Enters, Ahead, Ways
  <2> QED BY <2>3, <2>7 DEF HandshakeIInv
<1>2. CASE hs' = Approved(h, TRUE) /\ Write(before \o ApproveItems(h, TRUE))
  <2>1. <<>> \o (before \o ApproveItems(h, TRUE)) = before \o ApproveItems(h, TRUE)
    <3>1. before \in {<<>>, <<Item("type", None)>>}
      BY DEF Enters
    <3>2. ApproveItems(h, TRUE) \in {<<>>, <<Item("result", TRUE)>>}
      BY ApproveAdds
    <3>3. Waits(h.type) => before = <<>>
      BY DEF Enters
    <3>4. ~Waits(h.type) => ApproveItems(h, TRUE) = <<>>
      BY ApproveAdds
    <3>5. before \o ApproveItems(h, TRUE) \in {<<>>, <<Item("type", None)>>, <<Item("result", TRUE)>>}
      <4>1. <<>> \o <<>> = <<>>
        OBVIOUS
      <4> QED BY <3>1, <3>2, <3>3, <3>4, <4>1, OneItem
    <3> QED BY <3>5, OneItem
  <2>2. toViewer' = before \o ApproveItems(h, TRUE)
    BY <1>2, <2>1 DEF Write
  <2> QED BY <1>2, <2>2, Approves
<1>3. CASE hs' = Approved(h, FALSE)
  BY <1>3, Refuses
<1> QED BY <1>1, <1>2, <1>3 DEF Query

\* Where a client may be that has still to see the challenge.
Begins(before) ==
  \/ Minor = 3 /\ viewer.at = "type" /\ before = <<Item("type", VncAuth)>>
  \/ viewer.at = "challenge" /\ before = <<>>

LEMMA Begun ==
  ASSUME HandshakeTypeOK, ServerSteps, NEW h \in ServerSides, h.why = "open",
         h.type \in SecurityTypes, Supported(h.type), h.minor = Minor, toViewer = <<>>,
         NEW before, h.type = None => Enters(h, before, toServer'),
         h.type = VncAuth => Begins(before) /\ toServer' = <<>>, StartSecurity(h, before)
  PROVE  HandshakeIInv'
<1>1. CASE h.type = None /\ Query(h, before)
  <2>1. Passed(h)
    BY <1>1 DEF Passed, None, VncAuth
  <2> QED BY <1>1, <2>1, Queries
<1>2. ASSUME h.type = VncAuth, NEW c \in Challenges,
             hs' = [h EXCEPT !.state = "security", !.challenge = c, !.response = <<>>],
             Write(Append(before, Item("challenge", c)))
      PROVE  HandshakeIInv'
  <2>1. /\ hs' \in ServerSides /\ hs'.state = "security" /\ hs'.why = "open" /\ hs'.type = VncAuth
        /\ hs'.minor = Minor /\ hs'.challenge = c /\ hs'.response = <<>>
    <3>1. c \in Challenges \cup {<<>>} /\ <<>> \in Seq(Blocks)
      OBVIOUS
    <3>2. hs' \in ServerSides
      BY <1>2, <3>1 DEF ServerSides
    <3>3. /\ hs'.state = "security" /\ hs'.why = h.why /\ hs'.type = h.type /\ hs'.minor = h.minor
          /\ hs'.challenge = c /\ hs'.response = <<>>
      BY <1>2 DEF ServerSides
    <3> QED BY <1>2, <3>2, <3>3
  <2>2. Settled
    BY DEF ServerSteps, Settled
  <2>3. HandshakeTypeOK'
    BY <2>1, <2>2, TypesStay DEF ServerSteps, HandshakeTypeOK
  <2>4. Minor' = Minor /\ Supported(VncAuth)' /\ viewer' = viewer
    BY <1>2, <2>2, SettledKeeps DEF ServerSteps
  <2> DEFINE challenge == Item("challenge", c)
  <2>5. challenge = Item("challenge", hs.challenge)'
    BY <2>1 DEF Item
  <2>6. toServer' = <<>> /\ Begins(before)
    BY <1>2
  <2>7. toViewer' = <<>> \o Append(before, challenge)
    BY <1>2 DEF Write
  <2> HIDE DEF challenge
  <2>8. CASE Minor = 3 /\ viewer.at = "type" /\ before = <<Item("type", VncAuth)>>
    <3>1. toViewer' = <<Item("type", VncAuth), challenge>>
      <4>1. Append(before, challenge) = <<Item("type", VncAuth), challenge>>
        BY <2>8, TwoItems
      <4> QED BY <2>7, <4>1, TwoItems
    <3>2. Item("type", VncAuth)' = Item("type", VncAuth)
      BY DEF Item, VncAuth
    <3>3. Challenging'
      BY <2>1, <2>4, <2>5, <2>6, <2>8, <3>1, <3>2 DEF Challenging, Ways
    <3> QED BY <2>3, <3>3 DEF HandshakeIInv
  <2>9. CASE viewer.at = "challenge" /\ before = <<>>
    <3>1. toViewer' = <<challenge>>
      <4>1. Append(<<>>, challenge) = <<challenge>>
        OBVIOUS
      <4> QED BY <2>7, <2>9, <4>1, OneItem
    <3>2. Challenging'
      BY <2>1, <2>4, <2>5, <2>6, <2>9, <3>1 DEF Challenging, Ways
    <3> QED BY <2>3, <3>2 DEF HandshakeIInv
  <2> QED BY <2>6, <2>8, <2>9 DEF Begins
<1> QED BY <1>1, <1>2 DEF StartSecurity

LEMMA VersionKept ==
  ASSUME HandshakeIInv, processVersionMsg
  PROVE  HandshakeIInv'
<1> USE DEF HandshakeIInv
<1>1. ServerSteps /\ hs.state = "version" /\ toServer # <<>> /\ toServer' = Tail(toServer)
  BY DEF processVersionMsg, ServerSteps, Arrives, Take
<1>2. Greeting /\ hs \in ServerSides /\ hs.why = "open" /\ HandshakeTypeOK
  BY <1>1 DEF Choosing, Challenging, Asking, Accepted, Serving, Ended, HandshakeTypeOK
<1>3. Settled
  BY <1>1 DEF ServerSteps, Settled
<1> DEFINE version == Item("version", viewer.version)
<1>4. /\ toViewer = <<>> /\ viewer.at = (IF Minor = 3 THEN "type" ELSE "types")
      /\ \/ hs.verStrPos = 0 /\ toServer = <<version, version>>
         \/ hs.verStrPos = 1 /\ toServer = <<version>>
  BY <1>1, <1>2 DEF Greeting, Ways
<1>5. Minor' = Minor /\ viewer' = viewer /\ getSecTypes' = getSecTypes
  BY <1>1, <1>3, SettledKeeps DEF ServerSteps
<1>6. CASE hs.verStrPos = 0
  <2>1. hs' = [hs EXCEPT !.verStrPos = 1] /\ Write(<<>>)
    BY <1>6 DEF processVersionMsg
  <2>2. hs' \in ServerSides /\ hs'.state = "version" /\ hs'.verStrPos = 1 /\ hs'.why = "open"
    BY <1>1, <1>2, <2>1 DEF ServerSides
  <2>3. HandshakeTypeOK'
    BY <1>1, <1>2, <1>3, <2>2, TypesStay DEF ServerSteps, HandshakeTypeOK
  <2>4. toViewer' = <<>> /\ toServer' = <<version>>
    <3>1. toServer = <<version, version>>
      BY <1>4, <1>6
    <3>2. toServer' = <<version>>
      BY <1>1, <3>1, TwoItems
    <3>3. toViewer' = <<>> \o <<>>
      BY <1>4, <2>1 DEF Write
    <3> QED BY <3>2, <3>3
  <2>5. version' = version
    BY <1>5 DEF Item
  <2>6. Greeting'
    BY <1>4, <1>5, <2>2, <2>4, <2>5 DEF Greeting, Ways
  <2> QED BY <2>3, <2>6
<1>7. CASE hs.verStrPos = 1
  <2>1. toServer' = <<>> /\ Next_ = viewer.version
    <3>1. toServer = <<version>>
      BY <1>4, <1>7
    <3> QED BY <1>1, <3>1, OneItem DEF Next_, Item
  <2> DEFINE h == [hs EXCEPT !.minor = Minor]
  <2>2. /\ h \in ServerSides /\ h.minor = Minor /\ h.why = "open" /\ h.state = "version"
        /\ Official(Next_[2]) = Minor
    BY <1>1, <1>2, <2>1, Minors DEF ServerSides, Minor
  <2>3. CASE hs' = Closed("version")
    <3>1. hs' \in ServerSides /\ hs'.state = "closed" /\ hs'.why = "version"
      BY <1>2, <2>3 DEF Closed, ServerSides
    <3> QED BY <1>1, <1>2, <3>1, Closes
  <2>4. CASE hs' = Closed("no type")
    <3>1. hs' \in ServerSides /\ hs'.state = "closed" /\ hs'.why = "no type"
      BY <1>2, <2>4 DEF Closed, ServerSides
    <3> QED BY <1>1, <1>2, <3>1, Closes
  <2>5. CASE /\ getSecTypes # <<>> /\ Minor = 3
             /\ StartSecurity([h EXCEPT !.type = getSecTypes[1]], <<Item("type", getSecTypes[1])>>)
    <3> DEFINE t == getSecTypes[1]
               k == [h EXCEPT !.type = t]
    <3>1. t \in SecurityTypes /\ Supported(t)
      <4>1. getSecTypes \in Seq({None, VncAuth})
        BY <1>2, SecTypes DEF HandshakeTypeOK
      <4>2. 1 \in DOMAIN getSecTypes /\ t \in {None, VncAuth}
        BY <2>5, <4>1
      <4> QED BY <4>2 DEF Supported, SecurityTypes
    <3>2. k \in ServerSides /\ k.type = t /\ k.minor = Minor /\ k.why = "open"
      BY <2>2, <3>1 DEF ServerSides
    <3>3. t = None => Enters(k, <<Item("type", t)>>, toServer')
      BY <1>4, <2>1, <2>5, <3>2 DEF Enters, Waits, None, VncAuth
    <3>4. t = VncAuth => Begins(<<Item("type", t)>>) /\ toServer' = <<>>
      BY <1>4, <2>1, <2>5 DEF Begins
    <3>5. StartSecurity(k, <<Item("type", t)>>)
      BY <2>5
    <3> HIDE DEF t, k
    <3> QED BY <1>1, <1>2, <1>4, <3>1, <3>2, <3>3, <3>4, <3>5, Begun
  <2>6. CASE /\ getSecTypes # <<>> /\ Minor # 3
             /\ hs' = [h EXCEPT !.state = "type"] /\ Write(<<Item("types", getSecTypes)>>)
    <3>1. hs' \in ServerSides /\ hs'.state = "type" /\ hs'.why = "open" /\ hs'.minor = Minor
      BY <2>2, <2>6 DEF ServerSides
    <3>2. HandshakeTypeOK'
      BY <1>1, <1>2, <1>3, <3>1, TypesStay DEF ServerSteps, HandshakeTypeOK
    <3>3. toViewer' = <<Item("types", getSecTypes)>>
      BY <1>4, <2>6, OneItem DEF Write
    <3>4. Item("types", getSecTypes)' = Item("types", getSecTypes)
      BY <1>5 DEF Item
    <3>5. Choosing'
      BY <1>4, <1>5, <2>1, <2>6, <3>1, <3>3, <3>4 DEF Choosing, Ways
    <3> QED BY <3>2, <3>5
  <2>7. hs.verStrPos # 0
    BY <1>7
  <2> QED BY <2>2, <2>3, <2>4, <2>5, <2>6, <2>7 DEF processVersionMsg
<1> QED BY <1>4, <1>6, <1>7

LEMMA TypeKept ==
  ASSUME HandshakeIInv, processSecurityTypeMsg
  PROVE  HandshakeIInv'
<1> USE DEF HandshakeIInv
<1>1. /\ ServerSteps /\ hs.state = "type" /\ toServer # <<>> /\ toServer' = Tail(toServer)
      /\ Head(toServer).k = "type"
  BY DEF processSecurityTypeMsg, ServerSteps, Arrives, Take
<1>2. Choosing /\ hs \in ServerSides /\ hs.why = "open" /\ HandshakeTypeOK
  BY <1>1 DEF Greeting, Challenging, Asking, Accepted, Serving, Ended, HandshakeTypeOK
<1>3. PICK t \in SecurityTypes :
        viewer.at = Proceeds(t) /\ Ways(<<Item("type", t)>> \o InitIf(t), <<>>)
  BY <1>1, <1>2 DEF Choosing, Ways
<1>4. Next_ = t /\ toServer' = InitIf(t)
  <2>1. InitIf(t) = <<>> \/ InitIf(t) = <<InitItem>>
    BY DEF InitIf, InitItem
  <2>2. toServer = <<Item("type", t)>> \o InitIf(t)
    BY <1>3 DEF Ways
  <2>3. CASE InitIf(t) = <<>>
    <3>1. toServer = <<Item("type", t)>>
      BY <2>2, <2>3, OneItem
    <3> QED BY <1>1, <2>3, <3>1, OneItem DEF Next_, Item
  <2>4. CASE InitIf(t) = <<InitItem>>
    <3>1. toServer = <<Item("type", t), InitItem>>
      BY <2>2, <2>4, TwoItems
    <3> QED BY <1>1, <2>4, <3>1, TwoItems DEF Next_, Item
  <2> QED BY <2>1, <2>3, <2>4
<1>5. CASE hs' = Closed("type")
  <2>1. hs' \in ServerSides /\ hs'.state = "closed" /\ hs'.why = "type"
    BY <1>2, <1>5 DEF Closed, ServerSides
  <2> QED BY <1>1, <1>2, <2>1, Closes
<1>6. CASE Supported(t) /\ StartSecurity([hs EXCEPT !.type = t], <<>>)
  <2> DEFINE k == [hs EXCEPT !.type = t]
  <2>1. k \in ServerSides /\ k.type = t /\ k.minor = Minor /\ k.why = "open" /\ Minor # 3
    BY <1>2 DEF ServerSides, Choosing
  <2>2. viewer.at = Proceeds(t) /\ toViewer = <<>> /\ Minor = Official(viewer.version[2])
    BY <1>3 DEF Ways, Minor
  <2>3. t = None => Enters(k, <<>>, toServer')
    BY <1>4, <2>1, <2>2 DEF Enters, Waits, None, VncAuth, Proceeds, InitIf, InitItem
  <2>4. t = VncAuth => Begins(<<>>) /\ toServer' = <<>>
    BY <1>4, <2>2 DEF Begins, Proceeds, InitIf, None, VncAuth
  <2>5. StartSecurity(k, <<>>)
    BY <1>6
  <2> HIDE DEF k
  <2> QED BY <1>1, <1>2, <1>6, <2>1, <2>2, <2>3, <2>4, <2>5, Begun
<1> QED BY <1>4, <1>5, <1>6 DEF processSecurityTypeMsg

\* What has arrived of a response, with what arrives next.
Continues(q, x, r) == Append(q, x) \in Seq(Blocks) /\ Len(Append(q, x)) = Len(q) + 1
                      /\ \A i \in 1 .. Len(q) + 1 : Append(q, x)[i] = r[i]

LEMMA PieceArrives ==
  ASSUME HandshakeTypeOK, hs.challenge \in Challenges, Answering, toServer # <<>>
  PROVE  LET r == Response(viewer.password, hs.challenge)
             n == Len(hs.response)
         IN  /\ r \in Seq(Blocks) /\ Len(r) = Len(hs.challenge) /\ Len(r) \in Nat /\ n \in Nat
             /\ Next_ \in Blocks /\ Continues(hs.response, Next_, r)
             /\ Tail(toServer) \in Seq([k : {"response"}, v : Blocks])
             /\ n + 1 + Len(Tail(toServer)) = Len(r)
             /\ \A i \in 1 .. Len(Tail(toServer)) : Tail(toServer)[i] = Item("response", r[n + 1 + i])
<1> DEFINE r == Response(viewer.password, hs.challenge)
           n == Len(hs.response)
           rest == Tail(toServer)
           Pieces == [k : {"response"}, v : Blocks]
<1>1. viewer.password \in Passwords /\ hs.response \in Seq(Blocks) /\ n \in Nat
  <2>1. viewer \in ClientSides /\ hs \in ServerSides
    BY DEF HandshakeTypeOK
  <2>2. viewer.password \in Passwords /\ hs.response \in Seq(Blocks)
    BY <2>1 DEF ClientSides, ServerSides
  <2>3. \A q \in Seq(Blocks) : Len(q) \in Nat
    OBVIOUS
  <2> QED BY <2>2, <2>3
<1>2. r \in Seq(Blocks) /\ Len(r) = Len(hs.challenge) /\ Len(r) \in Nat
  BY <1>1, ResponseFacts
<1>3. /\ toServer \in Seq(Pieces) /\ n < Len(r) /\ n + Len(toServer) = Len(r)
      /\ \A i \in 1 .. n : hs.response[i] = r[i]
      /\ \A i \in 1 .. Len(toServer) : toServer[i] = Item("response", r[n + i])
  BY DEF Answering
<1>4. /\ rest \in Seq(Pieces) /\ Len(rest) = Len(toServer) - 1 /\ Head(toServer) = toServer[1]
      /\ \A i \in 1 .. Len(rest) : rest[i] = toServer[i + 1]
      /\ Len(toServer) \in Nat /\ Len(toServer) >= 1
  <2>1. toServer \in Seq(Pieces) /\ toServer # <<>>
    BY <1>3
  <2> HIDE DEF Pieces
  <2> QED BY ONLY <2>1, HeadTailProperties DEF rest
<1> HIDE DEF r, n, rest
<1>5. Head(toServer) = Item("response", r[n + 1]) /\ Next_ = r[n + 1] /\ r[n + 1] \in Blocks
  <2>1. toServer[1] = Item("response", r[n + 1])
    BY <1>3, <1>4
  <2>2. n + 1 \in 1 .. Len(r)
    BY <1>1, <1>2, <1>3
  <2> QED BY <1>2, <1>4, <2>1, <2>2 DEF Next_, Item
<1>6. Continues(hs.response, Next_, r)
  <2>1. /\ Append(hs.response, Next_) \in Seq(Blocks) /\ Len(Append(hs.response, Next_)) = n + 1
        /\ \A i \in 1 .. n : Append(hs.response, Next_)[i] = hs.response[i]
        /\ Append(hs.response, Next_)[n + 1] = Next_
    BY <1>1, <1>5, AppendProperties DEF n
  <2> QED BY <1>1, <1>3, <1>5, <2>1 DEF Continues, n
<1>7. n + 1 + Len(rest) = Len(r)
  <2> DEFINE m == Len(toServer)
             l == Len(rest)
             k == Len(r)
  <2>1. n \in Nat /\ m \in Nat /\ k \in Nat /\ n + m = k /\ l = m - 1
    BY <1>1, <1>2, <1>3, <1>4
  <2> HIDE DEF m, l, k
  <2>2. n + 1 + l = k
    BY ONLY <2>1
  <2> QED BY <2>2 DEF l, k
<1>8. ASSUME NEW i \in 1 .. Len(rest) PROVE rest[i] = Item("response", r[n + 1 + i])
  <2>1. i + 1 \in 1 .. Len(toServer) /\ rest[i] = toServer[i + 1] /\ n + (i + 1) = n + 1 + i
    BY <1>1, <1>4
  <2> QED BY <1>3, <2>1
<1> QED BY <1>1, <1>2, <1>4, <1>5, <1>6, <1>7, <1>8 DEF r, n, rest

\* A response is one of the stored password when the passwords agree.
LEMMA Compared ==
  ASSUME HandshakeTypeOK, NEW c \in Challenges
  PROVE  \A p \in getVncAuthPasswd :
            owner.store # "nowhere" /\ (Response(viewer.password, c) = Response(p, c) <=> SamePassword)
<1> SUFFICES ASSUME NEW p \in getVncAuthPasswd
             PROVE  owner.store # "nowhere"
                    /\ (Response(viewer.password, c) = Response(p, c) <=> SamePassword)
  OBVIOUS
<1>1. owner.store # "nowhere" /\ p = PlainPasswd(ObfuscatedPasswd(owner.password))
  BY DEF getVncAuthPasswd, HandshakeTypeOK
<1>2. owner.password \in Passwords /\ viewer.password \in Passwords
  BY DEF HandshakeTypeOK, ClientSides
<1>3. Padded(p) = Padded(owner.password)
  BY <1>1, <1>2, PasswordsKept
<1>4. Response(p, c) = Response(owner.password, c)
  BY <1>3 DEF Response
<1>5. Response(viewer.password, c) = Response(owner.password, c) => SamePassword
  BY <1>2, ResponsesDiffer DEF SamePassword
<1>6. SamePassword => Response(viewer.password, c) = Response(owner.password, c)
  BY DEF SamePassword, Response
<1> QED BY <1>1, <1>4, <1>5, <1>6

LEMMA ResponseKept ==
  ASSUME HandshakeIInv, processSecurityMsg
  PROVE  HandshakeIInv'
<1> USE DEF HandshakeIInv
<1>1. /\ ServerSteps /\ hs.state = "security" /\ toServer # <<>> /\ toServer' = Tail(toServer)
  BY DEF processSecurityMsg, ServerSteps, Arrives, Take
<1>2. Challenging /\ hs \in ServerSides /\ hs.why = "open" /\ HandshakeTypeOK
  BY <1>1 DEF Greeting, Choosing, Asking, Accepted, Serving, Ended, HandshakeTypeOK
<1>3. /\ hs.type = VncAuth /\ hs.minor = Minor /\ Supported(VncAuth) /\ hs.challenge \in Challenges
      /\ viewer.at = "result" /\ toViewer = <<>> /\ Answering
  BY <1>1, <1>2 DEF Challenging, Ways
<1> DEFINE r == Response(viewer.password, hs.challenge)
           n == Len(hs.response)
           response == Append(hs.response, Next_)
<1>4. /\ r \in Seq(Blocks) /\ Len(r) = Len(hs.challenge) /\ Len(r) \in Nat /\ n \in Nat
      /\ response \in Seq(Blocks) /\ Len(response) = n + 1 /\ \A i \in 1 .. n + 1 : response[i] = r[i]
      /\ toServer' \in Seq([k : {"response"}, v : Blocks]) /\ n + 1 + Len(toServer') = Len(r)
      /\ \A i \in 1 .. Len(toServer') : toServer'[i] = Item("response", r[n + 1 + i])
  BY <1>1, <1>2, <1>3, PieceArrives DEF Continues
<1>5. Settled
  BY <1>1 DEF ServerSteps, Settled
<1>6. viewer' = viewer /\ Minor' = Minor /\ Supported(VncAuth)'
  BY <1>1, <1>3, <1>5, SettledKeeps DEF ServerSteps
<1>7. CASE Len(response) < Len(hs.challenge) /\ hs' = [hs EXCEPT !.response = response] /\ Write(<<>>)
  <2>1. /\ hs' \in ServerSides /\ hs'.state = "security" /\ hs'.why = "open" /\ hs'.type = VncAuth
        /\ hs'.minor = Minor /\ hs'.challenge = hs.challenge /\ hs'.response = response
    <3> HIDE DEF response
    <3> QED BY <1>1, <1>2, <1>3, <1>4, <1>7 DEF ServerSides
  <2>2. HandshakeTypeOK'
    BY <1>1, <1>2, <1>5, <2>1, TypesStay DEF ServerSteps, HandshakeTypeOK
  <2>3. toViewer' = <<>>
    BY <1>3, <1>7 DEF Write
  <2>4. r = Response(viewer.password, hs.challenge)'
    BY <1>6, <2>1 DEF Response
  <2>5. \A b : Item("response", b)' = Item("response", b)
    BY DEF Item
  <2> HIDE DEF r, response, n
  <2>6. Answering'
    BY <1>4, <1>7, <2>1, <2>4, <2>5 DEF Answering
  <2>7. Challenging'
    BY <1>3, <1>6, <2>1, <2>3, <2>6 DEF Challenging
  <2> QED BY <2>2, <2>7
<1>8. CASE Len(response) = Len(hs.challenge)
  <2>1. response = r
    <3> HIDE DEF response, r, n
    <3> QED BY <1>4, <1>8, SeqEqual
  <2>2. toServer' = <<>>
    <3> HIDE DEF response, r, n
    <3> DEFINE Pieces == [k : {"response"}, v : Blocks]
    <3>1. toServer' \in Seq(Pieces) /\ Len(toServer') = 0
      BY <1>4, <1>8
    <3> HIDE DEF Pieces
    <3> QED BY ONLY <3>1, EmptySeq
  <2>3. CASE (\A p \in getVncAuthPasswd : response # Response(p, hs.challenge)) /\ AuthFailed
    <3>1. hs' \in ServerSides /\ hs'.state = "closed" /\ hs'.why = "password"
      BY <1>2, <2>3 DEF AuthFailed, Closed, ServerSides
    <3>2. ~SamePassword \/ owner.store = "nowhere"
      <4>1. owner.store = "nowhere" \/ \E p : p \in getVncAuthPasswd
        BY DEF getVncAuthPasswd
      <4>2. \A p \in getVncAuthPasswd : r # Response(p, hs.challenge)
        BY <2>1, <2>3
      <4> QED BY <1>2, <1>3, <4>1, <4>2, Compared
    <3> QED BY <1>1, <1>2, <3>1, <3>2, Closes
  <2>4. ASSUME NEW p \in getVncAuthPasswd, response = Response(p, hs.challenge), Query(hs, <<>>)
        PROVE  HandshakeIInv'
    <3>1. owner.store # "nowhere" /\ SamePassword
      <4>1. r = Response(p, hs.challenge)
        BY <2>1, <2>4
      <4> QED BY <1>2, <1>3, <4>1, Compared
    <3>2. Passed(hs)
      BY <1>3, <3>1 DEF Passed, SecurityTypes
    <3>3. Enters(hs, <<>>, toServer')
      BY <1>3, <2>2 DEF Enters, Waits
    <3> QED BY <1>1, <1>2, <1>3, <2>4, <3>2, <3>3, Queries
  <2>5. ~(Len(response) < Len(hs.challenge))
    BY <1>4, <1>8
  <2> QED BY <2>3, <2>4, <2>5 DEF processSecurityMsg
<1> QED BY <1>7, <1>8 DEF processSecurityMsg

LEMMA BogusKept ==
  ASSUME HandshakeIInv, BogusData
  PROVE  HandshakeIInv'
<1>1. ServerSteps /\ hs.state = "querying" /\ toServer # <<>> /\ hs' = Closed("bogus data")
  BY DEF BogusData, ServerSteps
<1>2. Asking /\ hs \in ServerSides /\ HandshakeTypeOK
  BY <1>1 DEF HandshakeIInv, Greeting, Choosing, Challenging, Accepted, Serving, Ended, HandshakeTypeOK
<1>3. hs' \in ServerSides /\ hs'.state = "closed" /\ hs'.why = "bogus data" /\ hs'.type = hs.type
      /\ hs'.minor = hs.minor
  BY <1>1, <1>2 DEF Closed, ServerSides
<1>4. ~Waits(hs.type)
  BY <1>1, <1>2 DEF Asking, Ways
<1>5. hs.type = None /\ hs.minor < 8
  <2>1. hs.type \in {None, VncAuth} /\ hs.minor = Minor /\ Minor \in {3, 7, 8}
    BY <1>2, Minors DEF Asking, Passed, SecurityTypes
  <2> QED BY <1>4, <2>1 DEF Waits
<1> QED BY <1>1, <1>2, <1>3, <1>5, Closes

LEMMA ApprovalKept ==
  ASSUME HandshakeIInv, approveConnection
  PROVE  HandshakeIInv'
<1>1. PICK accept \in BOOLEAN : hs' = Approved(hs, accept) /\ Write(ApproveItems(hs, accept))
  BY DEF approveConnection
<1>2. ServerSteps /\ hs.state = "querying" /\ toServer' = toServer
  BY DEF approveConnection, ServerSteps
<1>3. Asking /\ hs \in ServerSides /\ hs.why = "open" /\ HandshakeTypeOK
  BY <1>2 DEF HandshakeIInv, Greeting, Choosing, Challenging, Accepted, Serving, Ended, HandshakeTypeOK
<1>4. CASE accept = TRUE
  <2>1. Passed(hs) /\ Enters(hs, toViewer, toServer')
    BY <1>2, <1>3 DEF Asking, Enters, Ways, Ahead
  <2> QED BY <1>1, <1>2, <1>3, <1>4, <2>1, Approves DEF Write
<1>5. CASE accept = FALSE
  BY <1>1, <1>2, <1>3, <1>5, Refuses
<1> QED BY <1>4, <1>5

LEMMA ClientInitKept ==
  ASSUME HandshakeIInv, clientInit
  PROVE  HandshakeIInv'
<1>1. /\ ServerSteps /\ hs.state = "initialisation" /\ toServer # <<>> /\ toServer' = Tail(toServer)
      /\ Head(toServer).k = "init" /\ hs' = [hs EXCEPT !.state = "normal"]
      /\ Write(<<Item("serverInit", 0)>>)
  BY DEF clientInit, ServerSteps, Arrives, Take
<1>2. Accepted /\ hs \in ServerSides /\ hs.why = "open" /\ HandshakeTypeOK
  BY <1>1 DEF HandshakeIInv, Greeting, Choosing, Challenging, Asking, Serving, Ended, HandshakeTypeOK
<1>3. toServer = <<InitItem>> /\ toViewer = <<>> /\ viewer.at = "in" /\ Passed(hs)
  BY <1>1, <1>2 DEF Accepted, Ways, Ahead
<1>4. toServer' = <<>> /\ toViewer' = <<Item("serverInit", 0)>>
  BY <1>1, <1>3, OneItem DEF Write
<1>5. hs' \in ServerSides /\ hs'.state = "normal" /\ hs'.why = "open" /\ hs'.type = hs.type
      /\ hs'.minor = hs.minor
  BY <1>1, <1>2 DEF ServerSides
<1>6. Settled
  BY <1>1 DEF ServerSteps, Settled
<1>7. HandshakeTypeOK'
  BY <1>1, <1>2, <1>5, <1>6, TypesStay DEF ServerSteps, HandshakeTypeOK
<1>8. Passed(hs)'
  <2>1. Passed(hs') <=> Passed(hs)
    BY <1>5 DEF Passed
  <2> QED BY <1>3, <1>6, <2>1, SettledKeeps
<1>9. Serving'
  BY <1>1, <1>3, <1>4, <1>5, <1>8 DEF Serving, Ways, ServerSteps, Item
<1> QED BY <1>7, <1>9 DEF HandshakeIInv

-----------------------------------------------------------------------------
(* The steps of the client. *)

Situation == Greeting \/ Choosing \/ Challenging \/ Asking \/ Accepted \/ Serving

LEMMA ClientMoves ==
  ASSUME HandshakeTypeOK, Viewer_
  PROVE  /\ Settled /\ hs' = hs /\ HandshakeTypeOK' /\ (Ended => Ended') /\ Minor' = Minor
         /\ getSecTypes' = getSecTypes
         /\ \A t : (Supported(t)' <=> Supported(t)) /\ (Waits(t)' <=> Waits(t))
         /\ Passed(hs)' <=> Passed(hs)
<1>1. ClientSteps
  BY DEF Viewer_, ClientSteps
<1>2. \E next \in {"type", "types", "challenge", "result", "in", "refused", "served"} :
         viewer' = [viewer EXCEPT !.at = next]
  BY DEF Viewer_, SaysVersion, HearsType, HearsTypes, HearsChallenge, HearsResult, HearsInit, Moves,
         AfterType
<1>3. viewer \in ClientSides /\ hs \in ServerSides
  BY DEF HandshakeTypeOK
<1>4. viewer' \in ClientSides /\ viewer'.version = viewer.version /\ viewer'.password = viewer.password
  BY <1>2, <1>3 DEF ClientSides
<1>5. Settled
  BY <1>1, <1>4 DEF Settled, ClientSteps
<1>6. HandshakeTypeOK'
  BY <1>1, <1>3, <1>4, <1>5, TypesStay DEF ClientSteps, HandshakeTypeOK
<1>7. Ended => Ended'
  BY <1>1, <1>5, SettledKeeps DEF Ended, ClientSteps
<1>8. Passed(hs)' <=> Passed(hs)
  <2>1. Passed(hs') <=> Passed(hs)
    BY <1>1 DEF ClientSteps
  <2> QED BY <1>1, <1>5, SettledKeeps DEF ClientSteps
<1> QED BY <1>1, <1>5, <1>6, <1>7, <1>8, SettledKeeps DEF ClientSteps

LEMMA TypeSaid ==
  ASSUME NEW t
  PROVE  <<Item("type", t)>> \o InitIf(t) \in {<<Item("type", t)>>, <<Item("type", t), InitItem>>}
<1> DEFINE x == Item("type", t)
<1>1. InitIf(t) = <<>> \/ InitIf(t) = <<InitItem>>
  BY DEF InitIf, InitItem
<1>2. <<x>> \o <<>> = <<x>>
  BY OneItem
<1>3. <<x>> \o <<InitItem>> = <<x, InitItem>>
  BY TwoItems
<1> QED BY <1>1, <1>2, <1>3

\* What a step of the client starts from.
LEMMA ClientFacts ==
  ASSUME HandshakeIInv, ~Ended
  PROVE  /\ HandshakeTypeOK /\ Situation /\ hs \in ServerSides /\ viewer \in ClientSides
         /\ Minor \in {3, 7, 8} /\ Minor = Official(viewer.version[2])
BY Minors DEF HandshakeIInv, Situation, HandshakeTypeOK

LEMMA VersionSaid ==
  ASSUME HandshakeIInv, ~Ended, Viewer_, SaysVersion
  PROVE  Situation'
<1>1. viewer.at = "version" /\ toViewer # <<>> /\ toViewer' = Tail(toViewer)
  BY DEF SaysVersion, Hears, Heard
<1>2. Greeting
  BY <1>1, ClientFacts DEF Situation, Choosing, Challenging, Asking, Accepted, Serving, Ahead, Proceeds
<1>3. toServer = <<>> /\ toViewer = <<Item("version", <<3, ServerMinor>>)>> /\ hs.verStrPos = 0
      /\ hs.state = "version"
  BY <1>1, <1>2 DEF Greeting, Ways
<1> DEFINE version == Item("version", viewer.version)
<1>4. version' = version /\ hs' = hs /\ Minor' = Minor
  BY ClientMoves, ClientFacts DEF Settled, Item
<1>5. toViewer' = <<>> /\ toServer' = <<version, version>>
  BY <1>1, <1>3, OneItem, TwoItems DEF SaysVersion, Says
<1>6. viewer'.at = IF Minor = 3 THEN "type" ELSE "types"
  BY ClientFacts DEF SaysVersion, Moves, ClientSides
<1>7. Greeting'
  BY <1>3, <1>4, <1>5, <1>6 DEF Greeting, Ways
<1> QED BY <1>7 DEF Situation

LEMMA TypeHeard ==
  ASSUME HandshakeIInv, ~Ended, Viewer_, HearsType
  PROVE  Situation'
<1>1. viewer.at = "type" /\ toViewer # <<>> /\ toViewer' = Tail(toViewer)
  BY DEF HearsType, Hears, Heard
<1>2. /\ hs' = hs /\ Minor' = Minor /\ (Passed(hs)' <=> Passed(hs))
      /\ \A t : (Supported(t)' <=> Supported(t)) /\ (Waits(t)' <=> Waits(t))
      /\ viewer \in ClientSides /\ Minor = Official(viewer.version[2])
  BY ClientMoves, ClientFacts
<1>3. CASE Challenging
  <2> DEFINE challenge == Item("challenge", hs.challenge)
  <2>1. Minor = 3 /\ hs.response = <<>> /\ toServer = <<>>
        /\ toViewer = <<Item("type", VncAuth), challenge>>
    BY <1>1, <1>3 DEF Challenging, Ways
  <2>2. Head(toViewer).v = VncAuth /\ toViewer' = <<challenge>>
    BY <1>1, <2>1, TwoItems DEF Item
  <2>3. Moves("challenge") /\ Says(<<>>)
    BY <2>2 DEF HearsType, AfterType, InitIf, None, VncAuth, NoType
  <2>4. viewer'.at = "challenge" /\ toServer' = <<>>
    BY <1>2, <2>1, <2>3 DEF Moves, Says, ClientSides
  <2>5. challenge' = challenge
    BY <1>2 DEF Item
  <2>6. Challenging'
    BY <1>2, <1>3, <2>1, <2>2, <2>4, <2>5 DEF Challenging, Ways
  <2> QED BY <2>6 DEF Situation
<1>4. CASE (Asking \/ Accepted) /\ ~Waits(hs.type) /\ Ahead
  <2>1. Minor = 3 /\ toServer = <<>> /\ toViewer = <<Item("type", None)>>
    BY <1>1, <1>4 DEF Ahead, Ways
  <2>2. Head(toViewer).v = None /\ toViewer' = <<>>
    BY <1>1, <2>1, OneItem DEF Item
  <2>3. Moves("in") /\ Says(<<InitItem>>)
    <3>1. None # NoType /\ None # VncAuth
      BY DEF None, NoType, VncAuth
    <3>2. AfterType(None) /\ Says(InitIf(None))
      BY <2>2, <3>1 DEF HearsType
    <3>3. Official(viewer.version[2]) = 3
      BY <1>2, <2>1
    <3>4. InitIf(None) = <<InitItem>>
      BY <3>3 DEF InitIf, InitItem
    <3>5. Moves("in")
      BY <3>1, <3>2, <3>3 DEF AfterType
    <3> QED BY <3>2, <3>4, <3>5
  <2>4. viewer'.at = "in" /\ toServer' = <<InitItem>>
    BY <1>2, <2>1, <2>3, OneItem DEF Moves, Says, ClientSides
  <2>5. Ahead'
    BY <2>2, <2>4 DEF Ahead, Ways, InitItem, Item
  <2>6. ~Waits(hs.type)'
    BY <1>2, <1>4 DEF Waits
  <2>7. Asking' \/ Accepted'
    BY <1>2, <1>4, <2>5, <2>6 DEF Asking, Accepted
  <2> QED BY <2>7 DEF Situation
<1>5. Challenging \/ ((Asking \/ Accepted) /\ ~Waits(hs.type) /\ Ahead)
  BY <1>1, ClientFacts DEF Situation, Greeting, Choosing, Asking, Accepted, Serving, Proceeds, Ways
<1> QED BY <1>3, <1>4, <1>5

LEMMA TypesHeard ==
  ASSUME HandshakeIInv, ~Ended, Viewer_, HearsTypes
  PROVE  Situation'
<1>1. toViewer # <<>> /\ toViewer' = Tail(toViewer)
  BY DEF HearsTypes, Hears, Heard
<1>2. /\ hs' = hs /\ Minor' = Minor
      /\ viewer \in ClientSides /\ Minor = Official(viewer.version[2])
  BY ClientMoves, ClientFacts
<1>3. Head(toViewer).k = "types" /\ viewer.at \in {"type", "types"}
  BY DEF HearsTypes, Hears
<1>4. Choosing
  <2>1. ~Challenging
    <3>1. SUFFICES ASSUME Challenging PROVE FALSE
      OBVIOUS
    <3>2. toViewer = <<Item("type", VncAuth), Item("challenge", hs.challenge)>>
      BY <1>3, <3>1 DEF Challenging, Ways
    <3> QED BY <1>3, <3>2, TwoItems DEF Item
  <2>2. ~Ahead
    <3>1. SUFFICES ASSUME Ahead PROVE FALSE
      OBVIOUS
    <3>2. toViewer = <<Item("type", None)>>
      BY <1>3, <3>1 DEF Ahead, Ways
    <3> QED BY <1>3, <3>2, OneItem DEF Item
  <2> QED BY <1>1, <1>3, <2>1, <2>2, ClientFacts DEF Situation, Greeting, Asking, Accepted, Serving, Ways
<1>5. /\ getSecTypes # <<>> /\ toServer = <<>> /\ toViewer = <<Item("types", getSecTypes)>>
      /\ hs.state = "type" /\ hs.minor = Minor /\ Minor # 3
  BY <1>1, <1>4 DEF Choosing, Ways
<1>6. Head(toViewer).v = getSecTypes /\ toViewer' = <<>>
  BY <1>1, <1>5, OneItem DEF Item
<1>7. PICK t \in SecurityTypes : AfterType(t) /\ Says(<<Item("type", t)>> \o InitIf(t))
  BY <1>5, <1>6 DEF HearsTypes, SecurityTypes
<1>8. viewer'.at = Proceeds(t)
  BY <1>2, <1>7 DEF AfterType, Proceeds, Moves, ClientSides
<1>9. toServer' = <<Item("type", t)>> \o InitIf(t)
  <2>2. <<Item("type", t)>> \o InitIf(t) \in {<<Item("type", t)>>, <<Item("type", t), InitItem>>}
    BY TypeSaid
  <2> QED BY <1>5, <1>7, <2>2, OneItem, TwoItems DEF Says
<1>10. InitIf(t)' = InitIf(t) /\ Item("type", t)' = Item("type", t) /\ Proceeds(t)' = Proceeds(t)
  BY <1>2, ClientMoves, ClientFacts DEF InitIf, Item, Proceeds, Settled
<1>11. Choosing'
  BY <1>2, <1>5, <1>6, <1>8, <1>9, <1>10 DEF Choosing, Ways
<1> QED BY <1>11 DEF Situation

LEMMA ChallengeHeard ==
  ASSUME HandshakeIInv, ~Ended, Viewer_, HearsChallenge
  PROVE  Situation'
<1>1. viewer.at = "challenge" /\ toViewer # <<>> /\ toViewer' = Tail(toViewer)
  BY DEF HearsChallenge, Hears, Heard
<1>2. /\ hs' = hs /\ Minor' = Minor /\ viewer'.password = viewer.password
      /\ \A t : (Supported(t)' <=> Supported(t))
      /\ viewer \in ClientSides /\ HandshakeTypeOK
  BY ClientMoves, ClientFacts DEF Settled
<1>3. Challenging
  BY <1>1, ClientFacts DEF Situation, Greeting, Choosing, Asking, Accepted, Serving, Ahead, Ways
<1>4. /\ hs.response = <<>> /\ toServer = <<>> /\ toViewer = <<Item("challenge", hs.challenge)>>
      /\ hs.challenge \in Challenges
  BY <1>1, <1>3 DEF Challenging, Ways
<1> DEFINE r == Response(viewer.password, hs.challenge)
           Pieces == [k : {"response"}, v : Blocks]
           answers == [i \in DOMAIN r |-> Item("response", r[i])]
<1>5. r \in Seq(Blocks) /\ Len(r) \in Nat \ {0}
  BY <1>2, <1>4, ResponseFacts DEF ClientSides
<1>6. Head(toViewer).v = hs.challenge /\ toViewer' = <<>>
  BY <1>1, <1>4, OneItem DEF Item
<1>7. viewer'.at = "result" /\ toServer' = <<>> \o answers
  BY <1>2, <1>4, <1>6 DEF HearsChallenge, Moves, Says, ClientSides
<1>8. answers \in Seq(Pieces) /\ Len(answers) = Len(r) /\ \A i \in 1 .. Len(r) : answers[i] = Item("response", r[i])
  <2>1. \A i \in 1 .. Len(r) : Item("response", r[i]) \in Pieces
    BY <1>5 DEF Item
  <2>2. answers = [i \in 1 .. Len(r) |-> Item("response", r[i])]
    BY <1>5
  <2> HIDE DEF r, answers, Pieces
  <2>3. Len(r) \in Nat
    BY <1>5
  <2> QED BY ONLY <2>1, <2>2, <2>3
<1>9. toServer' = answers
  <2> HIDE DEF Pieces, answers
  <2> QED BY <1>7, <1>8, ConcatEmptySeq
<1>10. r = Response(viewer.password, hs.challenge)'
  BY <1>2 DEF Response
<1>11. Answering'
  <2>1. \A b : Item("response", b)' = Item("response", b)
    BY DEF Item
  <2>2. hs'.response = <<>> /\ Len(<<>>) = 0
    BY <1>2, <1>4
  <2> HIDE DEF r, answers
  <2> QED BY <1>5, <1>8, <1>9, <1>10, <2>1, <2>2 DEF Answering
<1>12. Challenging'
  BY <1>2, <1>3, <1>6, <1>7, <1>11 DEF Challenging
<1> QED BY <1>12 DEF Situation

LEMMA ResultHeard ==
  ASSUME HandshakeIInv, ~Ended, Viewer_, HearsResult
  PROVE  Situation'
<1>1. viewer.at = "result" /\ toViewer # <<>> /\ toViewer' = Tail(toViewer)
  BY DEF HearsResult, Hears, Heard
<1>2. /\ hs' = hs /\ viewer \in ClientSides /\ (Passed(hs)' <=> Passed(hs))
      /\ \A t : Waits(t)' <=> Waits(t)
  BY ClientMoves, ClientFacts
<1>3. Accepted /\ Waits(hs.type) /\ toServer = <<>> /\ toViewer = <<Item("result", TRUE)>>
  BY <1>1, ClientFacts DEF Situation, Greeting, Choosing, Challenging, Asking, Accepted, Serving, Ahead, Ways
<1>4. Head(toViewer).v = TRUE /\ toViewer' = <<>>
  BY <1>1, <1>3, OneItem DEF Item
<1>5. viewer'.at = "in" /\ toServer' = <<InitItem>>
  BY <1>2, <1>3, <1>4, OneItem DEF HearsResult, Moves, Says, ClientSides, InitItem
<1>6. Waits(hs.type)' /\ InitItem' = InitItem
  BY <1>2, <1>3 DEF Waits, InitItem, Item
<1>7. Accepted'
  BY <1>2, <1>3, <1>4, <1>5, <1>6 DEF Accepted, Ways
<1> QED BY <1>7 DEF Situation

LEMMA InitHeard ==
  ASSUME HandshakeIInv, ~Ended, Viewer_, HearsInit
  PROVE  Situation'
<1>1. viewer.at = "in" /\ toViewer # <<>> /\ toViewer' = Tail(toViewer)
  BY DEF HearsInit, Hears, Heard
<1>2. hs' = hs /\ viewer \in ClientSides /\ (Passed(hs)' <=> Passed(hs))
  BY ClientMoves, ClientFacts
<1>3. Serving /\ toServer = <<>> /\ toViewer = <<Item("serverInit", 0)>>
  BY <1>1, ClientFacts DEF Situation, Greeting, Choosing, Challenging, Asking, Accepted, Serving, Ahead, Ways
<1>4. toViewer' = <<>>
  BY <1>1, <1>3, OneItem
<1>5. viewer'.at = "served" /\ toServer' = <<>>
  BY <1>2, <1>3 DEF HearsInit, Moves, Says, ClientSides
<1>6. Serving'
  BY <1>2, <1>3, <1>4, <1>5 DEF Serving, Ways
<1> QED BY <1>6 DEF Situation

LEMMA ViewerKept ==
  ASSUME HandshakeIInv, Viewer_
  PROVE  HandshakeIInv'
<1>1. HandshakeTypeOK' /\ (Ended => Ended')
  BY ClientMoves DEF HandshakeIInv
<1>2. CASE Ended
  BY <1>1, <1>2 DEF HandshakeIInv
<1>3. CASE ~Ended
  <2>1. SaysVersion \/ HearsType \/ HearsTypes \/ HearsChallenge \/ HearsResult \/ HearsInit
    BY DEF Viewer_
  <2>2. Situation'
    BY <1>3, <2>1, VersionSaid, TypeHeard, TypesHeard, ChallengeHeard, ResultHeard, InitHeard
  <2> QED BY <1>1, <2>2 DEF HandshakeIInv, Situation
<1> QED BY <1>2, <1>3

LEMMA HandshakeStepInv ==
  ASSUME HandshakeIInv, [HandshakeNext]_handshakeVars
  PROVE  HandshakeIInv'
<1>1. CASE HandshakeNext
  BY <1>1, VersionKept, TypeKept, ResponseKept, BogusKept, ApprovalKept, ClientInitKept, ViewerKept
     DEF HandshakeNext
<1>2. CASE UNCHANGED handshakeVars
  <2>1. Settled /\ hs' = hs /\ viewer' = viewer /\ toViewer' = toViewer /\ toServer' = toServer
    BY <1>2 DEF handshakeVars, Settled
  <2>2. HandshakeTypeOK'
    BY <2>1, TypesStay DEF HandshakeIInv, HandshakeTypeOK
  <2>3. /\ getSecTypes' = getSecTypes /\ Minor' = Minor /\ (Passed(hs)' <=> Passed(hs))
        /\ \A t : (Supported(t)' <=> Supported(t)) /\ (Waits(t)' <=> Waits(t))
        /\ SamePassword' <=> SamePassword /\ owner' = owner
    BY <1>2, <2>1, SettledKeeps DEF handshakeVars
  <2> QED BY <1>2, <2>2, <2>3 DEF handshakeVars, HandshakeIInv, Greeting, Choosing, Challenging, Asking,
             Accepted, Serving, Ended, Ahead, Answering, Ways, Proceeds, InitIf, Item, InitItem, Response
<1> QED BY <1>1, <1>2

\* Where nothing is on the way and nobody is asked, the session has begun.
LEMMA HandshakeIInvAgrees == HandshakeIInv => HandshakeAgrees
<1> SUFFICES ASSUME HandshakeIInv PROVE HandshakeAgrees
  OBVIOUS
<1>1. HandshakeTypeOK /\ hs \in ServerSides
  BY DEF HandshakeIInv, HandshakeTypeOK
<1>2. ASSUME toViewer = <<>>, toServer = <<>>, hs.state \notin {"closed", "querying"}
      PROVE  hs.state = "normal" /\ viewer.at = "served"
  <2>1. ~Challenging
    <3>1. SUFFICES ASSUME Challenging PROVE FALSE
      OBVIOUS
    <3>2. Answering
      BY <1>2, <3>1 DEF Challenging, Ways
    <3>3. Len(toServer) = 0 /\ Len(hs.response) \in Nat
      <4>1. hs.response \in Seq(Blocks)
        BY <1>1 DEF ServerSides
      <4>2. Len(<<>>) = 0
        OBVIOUS
      <4> QED BY <1>2, <4>1, <4>2
    <3> QED BY <3>2, <3>3 DEF Answering
  <2>2. ~Choosing
    <3>1. SUFFICES ASSUME Choosing PROVE FALSE
      OBVIOUS
    <3>2. PICK t \in SecurityTypes : toServer = <<Item("type", t)>> \o InitIf(t)
      BY <1>2, <3>1 DEF Choosing, Ways
    <3>3. toServer \in {<<Item("type", t)>>, <<Item("type", t), InitItem>>}
      BY <3>2, TypeSaid
    <3> QED BY <1>2, <3>3, OneItem, TwoItems
  <2> QED BY <1>2, <2>1, <2>2 DEF HandshakeIInv, Greeting, Asking, Accepted, Serving, Ended, Ahead, Ways
<1>3. ASSUME hs.state \in {"querying", "initialisation", "normal"}
      PROVE  Supported(hs.type) /\ (hs.type = VncAuth => owner.store # "nowhere" /\ SamePassword)
  BY <1>3 DEF HandshakeIInv, Greeting, Choosing, Challenging, Asking, Accepted, Serving, Ended, Passed
<1>4. CASE hs.state = "closed"
  BY <1>2, <1>3, <1>4 DEF HandshakeIInv, Greeting, Choosing, Challenging, Asking, Accepted, Serving, Ended,
     HandshakeAgrees
<1>5. CASE hs.state # "closed"
  <2>1. hs.why = "open"
    BY <1>1, <1>5 DEF HandshakeTypeOK
  <2> QED BY <1>2, <1>3, <2>1 DEF HandshakeAgrees
<1> QED BY <1>4, <1>5

\* HandshakeAgrees: for every version and type, whatever the order of the items,
\* the two sides end in a session or the connection ends for a reason; and only
\* the stored password, in the characters that count, gets a client past VNC
\* authentication.
THEOREM OpeningAgrees == HandshakeSpec => []HandshakeAgrees
<1>1. HandshakeInit => HandshakeIInv
  BY HandshakeInitInv
<1>2. HandshakeIInv /\ [HandshakeNext]_handshakeVars => HandshakeIInv'
  BY HandshakeStepInv
<1>3. HandshakeIInv => HandshakeAgrees
  BY HandshakeIInvAgrees
<1> QED BY <1>1, <1>2, <1>3, PTL DEF HandshakeSpec

-----------------------------------------------------------------------------
(***************************************************************************)
(* What regimp leaves in the registry is what the file says, for any       *)
(* file, any hash that is never 0, and any least size of the dictionary.    *)
(* The dictionary is a map from the names to their last values, however its *)
(* slots grow; the slots are counted so that each section and each of its   *)
(* entries has its turn.                                                    *)
(***************************************************************************)

\* The largest and the least of a set of numbers that has one are in it.
LEMMA SetMax ==
  ASSUME NEW S, NEW n \in Nat, S \subseteq 0 .. n, S # {}
  PROVE  Max(S) \in S
<1> DEFINE T == {n - x : x \in S}
<1>1. T \subseteq Nat /\ T # {}
  <2>1. \A x \in S : x \in 0 .. n /\ n - x \in Nat
    OBVIOUS
  <2> QED BY <2>1
<1>2. PICK t \in T : \A u \in T : t <= u
  BY <1>1, NatMin
<1>3. PICK x \in S : t = n - x
  BY <1>2
<1>4. \A y \in S : x >= y
  BY <1>2, <1>3
<1> QED BY <1>4 DEF Max

LEMMA SetMin ==
  ASSUME NEW S, S \subseteq Nat, S # {}
  PROVE  Min(S) \in S /\ \A y \in S : Min(S) <= y
<1>1. \E x \in S : \A y \in S : x <= y
  BY NatMin
<1> QED BY <1>1 DEF Min

\* How many are before one of a finite set of numbers.
Rank(S, i) == Cardinality({j \in S : j < i})

\* A rank is below the size ...
LEMMA RankBelow ==
  ASSUME NEW S, S \subseteq Nat, IsFiniteSet(S), NEW i \in S
  PROVE  Rank(S, i) \in 0 .. Cardinality(S) - 1
<1> DEFINE T == {j \in S : j < i}
<1>1. T \subseteq S /\ i \notin T
  OBVIOUS
<1>2. IsFiniteSet(T) /\ Cardinality(T) <= Cardinality(S) /\ Cardinality(S) # Cardinality(T)
  BY <1>1, FS_Subset
<1>3. Cardinality(T) \in Nat /\ Cardinality(S) \in Nat
  BY <1>2, FS_CardinalityType
<1> QED BY <1>2, <1>3 DEF Rank

\* ... and no two have the same.
LEMMA RanksDiffer ==
  ASSUME NEW S, S \subseteq Nat, IsFiniteSet(S), NEW i \in S, NEW j \in S, Rank(S, i) = Rank(S, j)
  PROVE  i = j
<1>1. ASSUME NEW a \in S, NEW b \in S, a < b PROVE Rank(S, a) # Rank(S, b)
  <2> DEFINE T == {k \in S : k < a}
             U == {k \in S : k < b}
  <2>1. T \subseteq U /\ a \in U /\ a \notin T /\ U \subseteq S
    <3>1. \A k \in S : k \in Nat /\ a \in Nat /\ b \in Nat
      OBVIOUS
    <3>2. \A k \in S : k < a => k < b
      BY <3>1, <1>1
    <3>3. T \subseteq U /\ U \subseteq S
      BY <3>2
    <3>4. a \in U
      BY <1>1
    <3>5. a \notin T
      BY <3>1
    <3> QED BY <3>3, <3>4, <3>5
  <2>2. IsFiniteSet(U)
    BY <2>1, FS_Subset
  <2>3. Cardinality(T) # Cardinality(U)
    BY <2>1, <2>2, FS_Subset
  <2> QED BY <2>3 DEF Rank
<1>2. i \in Nat /\ j \in Nat
  OBVIOUS
<1>3. ~ (i < j)
  BY <1>1
<1>4. ~ (j < i)
  BY <1>1
<1> QED BY <1>2, <1>3, <1>4

\* Each number below the size is the rank of one.
LEMMA RankFound ==
  ASSUME NEW S, S \subseteq Nat, IsFiniteSet(S), NEW n \in 0 .. Cardinality(S) - 1
  PROVE  \E i \in S : Rank(S, i) = n
<1> Cardinality(S) \in Nat
  BY FS_CardinalityType
<1> DEFINE P == {k \in Nat : k < Cardinality(S) => \E i \in S : Rank(S, i) = k}
<1>1. 0 \in P
  <2> SUFFICES ASSUME 0 < Cardinality(S) PROVE \E i \in S : Rank(S, i) = 0
    OBVIOUS
  <2>1. S # {}
    BY FS_EmptySet
  <2>2. PICK i \in S : \A j \in S : i <= j
    BY <2>1, NatMin
  <2>3. {j \in S : j < i} = {}
    <3>1. \A j \in S : i \in Nat /\ j \in Nat /\ i <= j
      BY <2>2
    <3>2. \A j \in S : ~ (j < i)
      BY <3>1
    <3> QED BY <3>2
  <2> QED BY <2>3, FS_EmptySet DEF Rank
<1>2. ASSUME NEW k \in Nat, k \in P PROVE k + 1 \in P
  <2> SUFFICES ASSUME k + 1 < Cardinality(S) PROVE \E i \in S : Rank(S, i) = k + 1
    OBVIOUS
  <2>1. PICK i \in S : Rank(S, i) = k
    BY <1>2
  <2> DEFINE B == {j \in S : j < i}
             U == {j \in S : i < j}
  <2>2. IsFiniteSet(B) /\ Cardinality(B) = k
    BY <2>1, FS_Subset DEF Rank
  <2>a. i \in Nat /\ i \notin B /\ i \in S
    OBVIOUS
  <2> HIDE DEF B
  <2>3. IsFiniteSet(B \cup {i}) /\ Cardinality(B \cup {i}) = k + 1
    BY <2>2, <2>a, FS_AddElement
  <2>4. U # {}
    <3>1. SUFFICES ASSUME U = {} PROVE FALSE
      OBVIOUS
    <3>2. \A j \in S : ~ (i < j)
      BY <3>1
    <3>3. \A j \in S : j \in Nat /\ i \in Nat /\ (j < i \/ j = i)
      BY <3>2
    <3>4. S = B \cup {i}
      BY <3>3 DEF B
    <3> QED BY <3>4, <2>3
  <2>5. PICK u \in U : \A v \in U : u <= v
    BY <2>4, NatMin
  <2>6. {j \in S : j < u} = B \cup {i}
    <3>1. u \in S /\ i < u /\ \A v \in S : i < v => u <= v
      BY <2>5
    <3>2. \A j \in S : j \in Nat /\ i \in Nat /\ u \in Nat
      BY <3>1
    <3>3. \A j \in S : j < u <=> (j < i \/ j = i)
      BY <3>1, <3>2
    <3> QED BY <3>3 DEF B
  <2>7. u \in S /\ Rank(S, u) = k + 1
    BY <2>3, <2>5, <2>6 DEF Rank
  <2> QED BY <2>7
<1> HIDE DEF P
<1>3. n \in P
  BY <1>1, <1>2, NatInd
<1> QED BY <1>3 DEF P

\* Nth finds the one of a rank.
LEMMA NthRank ==
  ASSUME NEW S, S \subseteq Nat, IsFiniteSet(S)
  PROVE  /\ \A n \in 0 .. Cardinality(S) - 1 : Nth(S, n) \in S /\ Rank(S, Nth(S, n)) = n
         /\ \A i \in S : Rank(S, i) \in 0 .. Cardinality(S) - 1 /\ Nth(S, Rank(S, i)) = i
<1>1. ASSUME NEW n \in 0 .. Cardinality(S) - 1 PROVE Nth(S, n) \in S /\ Rank(S, Nth(S, n)) = n
  <2>1. \E i \in S : Cardinality({j \in S : j < i}) = n
    BY RankFound DEF Rank
  <2> QED BY <2>1 DEF Nth, Rank
<1>2. ASSUME NEW i \in S PROVE Rank(S, i) \in 0 .. Cardinality(S) - 1 /\ Nth(S, Rank(S, i)) = i
  <2>1. Rank(S, i) \in 0 .. Cardinality(S) - 1
    BY RankBelow
  <2>2. Nth(S, Rank(S, i)) \in S /\ Rank(S, Nth(S, Rank(S, i))) = Rank(S, i)
    BY <2>1, <1>1
  <2> QED BY <2>1, <2>2, RanksDiffer
<1> QED BY <1>1, <1>2

\* What the dictionary is made of.
FileNames == [sec : FileSections \cup {NoSection}, key : FileKeys \cup {NoKey}]
EntryValues ==
  {[type |-> l.type, data |-> ValueOf(l.data, newline)] :
     l \in {l \in FileLines : l.kind = "entry"}, newline \in BOOLEAN}
Slots == [name : FileNames \cup {NULL}, val : EntryValues \cup {NULL}, hash : Nat]

\* No two slots have one name, and a slot without a name has no hash.
Used(d) == {i \in DOMAIN d.slots : InUse(d.slots[i])}
DictOK(d) ==
  /\ d = [slots |-> d.slots, n |-> d.n]
  /\ d.slots \in Seq(Slots) /\ Len(d.slots) > 0
  /\ \A i \in DOMAIN d.slots :
       d.slots[i].hash = IF InUse(d.slots[i]) THEN dictionary_hash(d.slots[i].name) ELSE 0
  /\ \A i, j \in Used(d) : d.slots[i].name = d.slots[j].name => i = j
  /\ d.n = Cardinality(Used(d))

\* The dictionary gives a name a value.
Holds(d, m, v) == \E i \in Used(d) : d.slots[i].name = m /\ d.slots[i].val = v

\* A name of a file has a hash, and it is not that of a slot without a name.
LEMMA NameFacts ==
  ASSUME NEW m \in FileNames
  PROVE  m # NULL /\ m.key \in DOMAIN HashOf /\ dictionary_hash(m) \in Nat /\ dictionary_hash(m) # 0
<1>1. m.key \in FileKeys \cup {NoKey} /\ m # NULL
  BY LinesAssumption DEF FileNames
<1>2. m.key \in DOMAIN HashOf
  BY <1>1, LinesAssumption, ImportAssumption
<1> QED BY <1>1, <1>2, ImportAssumption DEF dictionary_hash

LEMMA UsedFacts ==
  ASSUME NEW d, DictOK(d)
  PROVE  /\ DOMAIN d.slots = 1 .. Len(d.slots) /\ Len(d.slots) \in Nat
         /\ Used(d) \subseteq DOMAIN d.slots /\ IsFiniteSet(Used(d)) /\ Used(d) \subseteq Nat
         /\ \A i \in DOMAIN d.slots : d.slots[i] \in Slots
         /\ \A i \in Used(d) : d.slots[i].name \in FileNames
<1>1. DOMAIN d.slots = 1 .. Len(d.slots) /\ Len(d.slots) \in Nat
  BY DEF DictOK
<1>2. Used(d) \subseteq 1 .. Len(d.slots)
  BY <1>1 DEF Used
<1>3. IsFiniteSet(1 .. Len(d.slots))
  <2>1. 1 \in Int /\ Len(d.slots) \in Int
    BY <1>1
  <2> QED BY <2>1, FS_Interval
<1>4. IsFiniteSet(Used(d))
  BY <1>2, <1>3, FS_Subset
<1>5. \A i \in DOMAIN d.slots : d.slots[i] \in Slots
  BY <1>1 DEF DictOK
<1>6. \A i \in Used(d) : d.slots[i].name \in FileNames
  BY <1>5 DEF Used, InUse, Slots
<1> QED BY <1>1, <1>2, <1>4, <1>5, <1>6

\* The search by hash and name finds the slot of the name.
LEMMA AtIs ==
  ASSUME NEW d, DictOK(d), NEW m \in FileNames
  PROVE  At(d, m) = {i \in Used(d) : d.slots[i].name = m}
<1>1. m # NULL
  BY NameFacts
<1>2. \A i \in DOMAIN d.slots : d.slots[i].name = m => InUse(d.slots[i])
  BY <1>1 DEF InUse
<1>3. \A i \in Used(d) : d.slots[i].hash = dictionary_hash(d.slots[i].name)
  BY DEF DictOK, Used
<1> QED BY <1>2, <1>3 DEF At, Used

LEMMA AtMostOne ==
  ASSUME NEW d, DictOK(d), NEW m \in FileNames, NEW i \in At(d, m)
  PROVE  At(d, m) = {i} /\ i \in Used(d) /\ d.slots[i].name = m /\ Min(At(d, m)) = i
<1>1. At(d, m) = {i} /\ i \in Used(d) /\ d.slots[i].name = m
  BY AtIs DEF DictOK
<1>2. i \in Nat
  BY <1>1, UsedFacts
<1>3. Min({i}) \in {i}
  BY <1>2, SetMin
<1> QED BY <1>1, <1>3

\* What is found is what is held.
LEMMA DictGet ==
  ASSUME NEW d, DictOK(d), NEW m \in FileNames, NEW def
  PROVE  /\ \A v : Holds(d, m, v) => dictionary_get(d, m, def) = v
         /\ (\A v : ~ Holds(d, m, v)) => dictionary_get(d, m, def) = def
<1>1. ASSUME NEW v, Holds(d, m, v) PROVE dictionary_get(d, m, def) = v
  <2>1. PICK i \in Used(d) : d.slots[i].name = m /\ d.slots[i].val = v
    BY <1>1 DEF Holds
  <2>2. i \in At(d, m)
    BY <2>1, AtIs
  <2>3. Min(At(d, m)) = i
    BY <2>2, AtMostOne
  <2> QED BY <2>1, <2>2, <2>3 DEF dictionary_get
<1>2. ASSUME \A v : ~ Holds(d, m, v) PROVE dictionary_get(d, m, def) = def
  <2>1. \A i \in Used(d) : d.slots[i].name = m => Holds(d, m, d.slots[i].val)
    BY DEF Holds
  <2>2. At(d, m) = {}
    BY <1>2, <2>1, AtIs
  <2> QED BY <2>2 DEF dictionary_get
<1> QED BY <1>1, <1>2

\* There is room for one more.
LEMMA Room ==
  ASSUME NEW d, DictOK(d), NEW s,
         s = IF d.n = Len(d.slots) THEN mem_double(d.slots) ELSE d.slots
  PROVE  /\ s \in Seq(Slots) /\ DOMAIN d.slots \subseteq DOMAIN s /\ Len(s) > 0
         /\ \A i \in DOMAIN d.slots : s[i] = d.slots[i]
         /\ \A i \in DOMAIN s : i \notin DOMAIN d.slots => s[i] = EmptySlot
         /\ \E i \in DOMAIN s : ~InUse(s[i])
<1> DEFINE more == [i \in DOMAIN d.slots |-> EmptySlot]
<1>1. EmptySlot \in Slots /\ ~InUse(EmptySlot)
  BY DEF EmptySlot, Slots, InUse
<1>2. DOMAIN d.slots = 1 .. Len(d.slots) /\ Len(d.slots) \in Nat /\ Len(d.slots) > 0 /\ d.slots \in Seq(Slots)
  BY DEF DictOK
<1>3. more \in Seq(Slots) /\ Len(more) = Len(d.slots)
  BY <1>1, <1>2
<1>4. \A i \in 1 .. Len(d.slots) : more[i] = EmptySlot
  BY <1>2
<1> HIDE DEF more
<1>5. CASE d.n = Len(d.slots)
  <2>1. s = d.slots \o more
    BY <1>5 DEF mem_double, more
  <2>2. s \in Seq(Slots) /\ Len(s) = Len(d.slots) + Len(d.slots) /\ DOMAIN s = 1 .. Len(s)
    <3>0. d.slots \in Seq(Slots) /\ more \in Seq(Slots)
      BY <1>2, <1>3
    <3>2. d.slots \o more \in Seq(Slots) /\ Len(d.slots \o more) = Len(d.slots) + Len(more)
      BY <3>0, ConcatProperties
    <3>1. s \in Seq(Slots) /\ Len(s) = Len(d.slots) + Len(d.slots)
      BY <2>1, <1>3, <3>2
    <3> QED BY <3>1
  <2>3. \A i \in 1 .. Len(s) : s[i] = IF i <= Len(d.slots) THEN d.slots[i] ELSE more[i - Len(d.slots)]
    BY <2>1, <1>2, <1>3, ConcatProperties
  <2>4. \A i \in 1 .. Len(s) : ~(i <= Len(d.slots)) => i - Len(d.slots) \in 1 .. Len(d.slots) /\ s[i] = EmptySlot
    BY <2>2, <2>3, <1>2, <1>4
  <2>5. Len(s) \in DOMAIN s /\ s[Len(s)] = EmptySlot
    BY <2>2, <2>4, <1>2
  <2>6. \A i \in 1 .. Len(d.slots) : s[i] = d.slots[i]
    BY <2>2, <2>3, <1>2
  <2> QED BY <1>1, <1>2, <2>2, <2>4, <2>5, <2>6
<1>6. CASE d.n # Len(d.slots)
  <2>1. s = d.slots
    BY <1>6
  <2>2. Used(d) # DOMAIN d.slots
    <3>1. Cardinality(1 .. Len(d.slots)) = Len(d.slots)
      BY <1>2, FS_Interval
    <3> QED BY <3>1, <1>2, <1>6 DEF DictOK
  <2>3. \E i \in DOMAIN d.slots : ~InUse(d.slots[i])
    BY <2>2 DEF Used
  <2> QED BY <2>1, <2>3, <1>2
<1> QED BY <1>5, <1>6

\* Setting a name gives it that value, and every other keeps its own.
LEMMA DictSet ==
  ASSUME NEW d, DictOK(d), NEW m \in FileNames, NEW v \in EntryValues \cup {NULL},
         NEW e, e = dictionary_set(d, m, v)
  PROVE  DictOK(e) /\ \A x, w : Holds(e, x, w) <=> IF x = m THEN w = v ELSE Holds(d, x, w)
<1> DEFINE new == [name |-> m, val |-> v, hash |-> dictionary_hash(m)]
           s == IF d.n = Len(d.slots) THEN mem_double(d.slots) ELSE d.slots
           F == {i \in DOMAIN s : ~InUse(s[i])}
<1>1. DOMAIN d.slots = 1 .. Len(d.slots) /\ Len(d.slots) \in Nat /\ IsFiniteSet(Used(d))
      /\ Used(d) \subseteq DOMAIN d.slots /\ d.slots \in Seq(Slots)
  BY UsedFacts DEF DictOK
<1>2. new \in Slots /\ InUse(new) /\ new.name = m /\ new.val = v /\ new.hash = dictionary_hash(m)
  BY NameFacts DEF Slots, InUse
<1> SUFFICES ASSUME NEW t, NEW k, t \in Seq(Slots), k \in DOMAIN t, t[k] = new, Len(t) > 0,
                    e = [slots |-> t, n |-> Cardinality(Used(d) \cup {k})],
                    Used(d) \cup {k} = {i \in DOMAIN t : InUse(t[i])},
                    \A i \in DOMAIN t : i \notin Used(d) \cup {k} => t[i].hash = 0,
                    \A i \in Used(d) \ {k} : t[i] = d.slots[i] /\ d.slots[i].name # m,
                    k \in Used(d) => d.slots[k].name = m,
                    k \notin Used(d) => \A i \in Used(d) : d.slots[i].name # m
             PROVE  DictOK(e) /\ \A x, w : Holds(e, x, w) <=> IF x = m THEN w = v ELSE Holds(d, x, w)
  <2> DEFINE Shape(t, k) ==
        /\ t \in Seq(Slots) /\ k \in DOMAIN t /\ t[k] = new /\ Len(t) > 0
        /\ e = [slots |-> t, n |-> Cardinality(Used(d) \cup {k})]
        /\ Used(d) \cup {k} = {i \in DOMAIN t : InUse(t[i])}
        /\ \A i \in DOMAIN t : i \notin Used(d) \cup {k} => t[i].hash = 0
        /\ \A i \in Used(d) \ {k} : t[i] = d.slots[i] /\ d.slots[i].name # m
        /\ k \in Used(d) => d.slots[k].name = m
        /\ k \notin Used(d) => \A i \in Used(d) : d.slots[i].name # m
  <2>1. SUFFICES \E t, k : Shape(t, k)
    OBVIOUS
  <2>2. CASE At(d, m) # {}
    <3>1. PICK k \in At(d, m) : TRUE
      BY <2>2
    <3>2. Min(At(d, m)) = k /\ k \in Used(d) /\ d.slots[k].name = m /\ k \in DOMAIN d.slots
      BY <3>1, <1>1, AtMostOne
    <3>3. d.n > 0 /\ d.n = Cardinality(Used(d))
      <4>1. Cardinality(Used(d)) # 0 /\ Cardinality(Used(d)) \in Nat
        BY <1>1, <3>2, FS_EmptySet, FS_CardinalityType
      <4> QED BY <4>1 DEF DictOK
    <3>4. e = [d EXCEPT !.slots[k].val = v]
      BY <2>2, <3>2, <3>3 DEF dictionary_set
    <3> DEFINE t == [d.slots EXCEPT ![k].val = v]
    <3>5. d.slots[k] \in Slots /\ d.slots[k].hash = dictionary_hash(m)
      BY <3>2, UsedFacts DEF DictOK, Used
    <3>6. t[k] = new /\ t \in Seq(Slots) /\ DOMAIN t = DOMAIN d.slots /\ Len(t) = Len(d.slots)
      <4>1. [d.slots[k] EXCEPT !.val = v] = new
        BY <3>2, <3>5 DEF Slots
      <4> QED BY <4>1, <1>1, <1>2, <3>2
    <3>7. \A i \in DOMAIN d.slots : i # k => t[i] = d.slots[i]
      BY <1>1
    <3>8. e = [slots |-> t, n |-> d.n]
      BY <3>4 DEF DictOK
    <3>9. Used(d) \cup {k} = Used(d)
      BY <3>2
    <3>10. Used(d) = {i \in DOMAIN t : InUse(t[i])}
      BY <3>2, <3>6, <3>7, <1>2 DEF Used
    <3>11. \A i \in Used(d) \ {k} : d.slots[i].name # m
      BY <3>2 DEF DictOK
    <3>12. \A i \in DOMAIN t : i \notin Used(d) => t[i].hash = 0
      BY <3>2, <3>6, <3>7 DEF DictOK, Used
    <3> HIDE DEF t
    <3>13. Shape(t, k)
      BY <3>2, <3>3, <3>6, <3>7, <3>8, <3>9, <3>10, <3>11, <3>12, <1>1 DEF DictOK
    <3> QED BY <3>13
  <2>3. CASE At(d, m) = {}
    <3> DEFINE k == Min(F)
               t == [s EXCEPT ![k] = new]
    <3>1. e = [slots |-> t, n |-> d.n + 1]
      BY <2>3 DEF dictionary_set
    <3>2. /\ s \in Seq(Slots) /\ DOMAIN d.slots \subseteq DOMAIN s /\ Len(s) > 0
          /\ \A i \in DOMAIN d.slots : s[i] = d.slots[i]
          /\ \A i \in DOMAIN s : i \notin DOMAIN d.slots => s[i] = EmptySlot
          /\ F # {}
      BY Room
    <3> HIDE DEF s
    <3>3. DOMAIN s = 1 .. Len(s) /\ F \subseteq Nat
      BY <3>2
    <3> HIDE DEF F
    <3>4. k \in F
      BY <3>2, <3>3, SetMin
    <3> HIDE DEF k
    <3>5. k \in DOMAIN s /\ ~InUse(s[k])
      BY <3>4 DEF F
    <3>6. k \notin Used(d)
      BY <3>2, <3>5, <1>1 DEF Used
    <3>7. t \in Seq(Slots) /\ DOMAIN t = DOMAIN s /\ Len(t) = Len(s) /\ t[k] = new
      BY <3>2, <3>3, <3>5, <1>2
    <3>8. \A i \in DOMAIN s : i # k => t[i] = s[i]
      BY <3>2, <3>3
    <3>9. Cardinality(Used(d) \cup {k}) = d.n + 1
      <4>1. Cardinality(Used(d) \cup {k}) = Cardinality(Used(d)) + 1
        BY <3>6, <1>1, FS_AddElement
      <4> QED BY <4>1 DEF DictOK
    <3>10. Used(d) \cup {k} = {i \in DOMAIN t : InUse(t[i])}
      <4>1. ~InUse(EmptySlot)
        BY DEF InUse, EmptySlot
      <4>2. \A i \in DOMAIN s : i # k => (i \in Used(d) <=> InUse(t[i]))
        BY <4>1, <3>2, <3>8 DEF Used
      <4>3. InUse(t[k]) /\ k \in DOMAIN t
        BY <3>5, <3>7, <1>2
      <4>4. Used(d) \subseteq DOMAIN t
        BY <3>2, <3>7, <1>1
      <4> HIDE DEF t
      <4> QED BY <4>2, <4>3, <4>4, <3>7
    <3>11. \A i \in DOMAIN t : i \notin Used(d) \cup {k} => t[i].hash = 0
      <4>1. EmptySlot.hash = 0
        BY DEF EmptySlot
      <4>2. \A i \in DOMAIN d.slots : i \notin Used(d) => d.slots[i].hash = 0
        BY DEF DictOK, Used
      <4> HIDE DEF t
      <4> QED BY <4>1, <4>2, <3>2, <3>7, <3>8
    <3>12. \A i \in Used(d) : d.slots[i].name # m
      BY <2>3, AtIs
    <3>13. \A i \in Used(d) \ {k} : t[i] = d.slots[i]
      <4> HIDE DEF t
      <4> QED BY <3>2, <3>8, <1>1
    <3> HIDE DEF t
    <3>14. Shape(t, k)
      BY <3>1, <3>2, <3>5, <3>6, <3>7, <3>9, <3>10, <3>11, <3>12, <3>13
    <3> QED BY <3>14
  <2> QED BY <2>2, <2>3
<1> HIDE DEF new
<1>3. e.slots = t /\ e.n = Cardinality(Used(d) \cup {k}) /\ Used(e) = Used(d) \cup {k}
  BY DEF Used
<1>4. DictOK(e)
  <2>1. \A i, j \in Used(e) : e.slots[i].name = e.slots[j].name => i = j
    <3>1. \A i \in Used(d) \ {k} : t[i].name # m /\ t[i].name = d.slots[i].name
      OBVIOUS
    <3> QED BY <1>2, <1>3, <3>1 DEF DictOK
  <2>2. \A i \in DOMAIN e.slots :
          e.slots[i].hash = IF InUse(e.slots[i]) THEN dictionary_hash(e.slots[i].name) ELSE 0
    <3>1. \A i \in Used(d) : d.slots[i].hash = dictionary_hash(d.slots[i].name)
      BY DEF DictOK, Used
    <3>2. \A i \in DOMAIN t : InUse(t[i]) <=> i \in Used(d) \cup {k}
      OBVIOUS
    <3> QED BY <3>1, <3>2, <1>2, <1>3
  <2>3. e = [slots |-> e.slots, n |-> e.n]
    BY <1>3
  <2> QED BY <1>3, <2>1, <2>2, <2>3 DEF DictOK
<1>5. ASSUME NEW x, NEW w PROVE Holds(e, x, w) <=> IF x = m THEN w = v ELSE Holds(d, x, w)
  <2>1. Holds(e, x, w) <=> \E i \in Used(d) \cup {k} : t[i].name = x /\ t[i].val = w
    BY <1>3 DEF Holds
  <2>2. CASE x = m
    <3>1. \A i \in Used(d) \cup {k} : t[i].name = m => i = k
      OBVIOUS
    <3> QED BY <2>1, <2>2, <3>1, <1>2
  <2>3. CASE x # m
    <3>1. t[k].name # x
      BY <2>3, <1>2
    <3>2. Holds(d, x, w) <=> \E i \in Used(d) \ {k} : d.slots[i].name = x /\ d.slots[i].val = w
      BY <2>3 DEF Holds
    <3> QED BY <2>1, <2>3, <3>1, <3>2
  <2> QED BY <2>2, <2>3
<1> QED BY <1>4, <1>5

\* A new dictionary holds nothing.
LEMMA DictNew == DictOK(dictionary_new(0)) /\ \A x, w : ~ Holds(dictionary_new(0), x, w)
<1> DEFINE d == dictionary_new(0)
           l == Max({0, DICTMINSZ})
<1>1. l \in Nat /\ l > 0
  <2>1. {0, DICTMINSZ} \subseteq 0 .. DICTMINSZ /\ DICTMINSZ \in Nat /\ DICTMINSZ > 0
    BY ImportAssumption
  <2>2. \E x \in {0, DICTMINSZ} : \A y \in {0, DICTMINSZ} : x >= y
    BY <2>1
  <2>3. l \in {0, DICTMINSZ} /\ \A y \in {0, DICTMINSZ} : l >= y
    BY <2>2 DEF Max
  <2> QED BY <2>1, <2>3
<1> HIDE DEF l
<1>2. d = [slots |-> [i \in 1 .. l |-> EmptySlot], n |-> 0]
  BY DEF dictionary_new, l
<1> HIDE DEF d
<1>3. EmptySlot \in Slots /\ ~InUse(EmptySlot) /\ EmptySlot.hash = 0
  BY DEF EmptySlot, Slots, InUse
<1>4. d.slots \in Seq(Slots) /\ Len(d.slots) > 0 /\ \A i \in DOMAIN d.slots : d.slots[i] = EmptySlot
  BY <1>1, <1>2, <1>3
<1>5. Used(d) = {}
  BY <1>3, <1>4 DEF Used
<1>6. d.n = Cardinality(Used(d)) /\ d = [slots |-> d.slots, n |-> d.n]
  BY <1>2, <1>5, FS_EmptySet
<1>7. DictOK(d) /\ \A x, w : ~ Holds(d, x, w)
  BY <1>3, <1>4, <1>5, <1>6 DEF DictOK, Holds
<1> QED BY <1>7 DEF d

\* A name has one value.
LEMMA HeldOnce ==
  ASSUME NEW d, DictOK(d), NEW m \in FileNames, NEW v, NEW w, Holds(d, m, v), Holds(d, m, w)
  PROVE  v = w
BY DictGet

\* The file has no section of an unknown root.
AllKnown == \A name \in EntryNames(dict) : name.sec # NoSection => name.sec.root \in Roots
PlaceOf(m) == Place(m.sec.root, m.sec, ValueName(m.key, said[m]))
SecNth(j) == iniparser_getsecname(dict, j)

\* What the dictionary holds is what the lines so far say.
DictIsSaid ==
  /\ DictOK(dict)
  /\ sec \in FileSections \cup {NoSection}
  /\ sec # NoSection => Holds(dict, Section(sec), NULL)
  /\ \A m \in DOMAIN said :
       /\ m \in [sec : FileSections \cup {NoSection}, key : FileKeys]
       /\ said[m] \in EntryValues /\ Holds(dict, m, said[m])
       /\ m.sec # NoSection => Holds(dict, Section(m.sec), NULL)
  /\ \A i \in Used(dict) :
       IF IsSection(dict.slots[i].name) THEN dict.slots[i].name.sec \in FileSections
       ELSE dict.slots[i].name \in DOMAIN said

\* After some of the sections: what was written, and that nothing else was.
KeysAreSaid ==
  /\ stage \in {"read", "import", "flush", "over"}
  /\ iSect \in 0 .. iniparser_getnsec(dict)
  /\ stage = "read" => iSect = 0 /\ DOMAIN keys = {}
  /\ stage \in {"flush", "over"} => iSect = iniparser_getnsec(dict)
  /\ AllKnown =>
       /\ \A j \in 0 .. iSect - 1 : \A m \in DOMAIN said :
            m.sec = SecNth(j) /\ m.sec \notin refused /\ said[m].data # <<>>
            => PlaceOf(m) \in DOMAIN keys
       /\ \A a \in DOMAIN keys : \E m \in DOMAIN said :
            m.sec # NoSection /\ said[m].data # <<>> /\ a = PlaceOf(m) /\ keys[a] = Stored(said[m])

LEMMA SectionsAreFinite ==
  ASSUME NEW d, DictOK(d)
  PROVE  SectionsOf(d) \subseteq Used(d) /\ IsFiniteSet(SectionsOf(d)) /\ iniparser_getnsec(d) \in Nat
<1>1. IsFiniteSet(Used(d)) /\ SectionsOf(d) \subseteq Used(d)
  BY UsedFacts DEF SectionsOf, Used
<1>2. IsFiniteSet(SectionsOf(d))
  BY <1>1, FS_Subset
<1> QED BY <1>1, <1>2, FS_CardinalityType DEF iniparser_getnsec

LEMMA SectionFacts ==
  ASSUME NEW s \in FileSections
  PROVE  s = [root |-> s.root, stem |-> s.stem, last |-> s.last, up |-> FALSE] /\ s # NoSection
         /\ Section(s) \in FileNames
<1>1. PICK l \in FileLines : l.kind = "section" /\ s = strlwc(l.sec)
  BY DEF FileSections
<1>2. l.sec = [root |-> l.sec.root, stem |-> l.sec.stem, last |-> l.sec.last, up |-> l.sec.up]
  BY <1>1, LinesAssumption
<1>3. s = [root |-> s.root, stem |-> s.stem, last |-> s.last, up |-> FALSE]
  BY <1>1, <1>2 DEF strlwc
<1>4. s # NoSection
  BY LinesAssumption
<1> QED BY <1>3, <1>4 DEF Section, FileNames

LEMMA KeyFacts ==
  ASSUME NEW k \in FileKeys
  PROVE  strlwc(k) = k /\ k # NoKey
<1>1. PICK l \in FileLines : l.kind = "entry" /\ k = strlwc(strcrop(l.key))
  BY DEF FileKeys
<1>2. l.key = [text |-> l.key.text, up |-> l.key.up, pad |-> l.key.pad]
  BY <1>1, LinesAssumption
<1>3. strlwc(k) = k
  BY <1>1, <1>2 DEF strlwc, strcrop
<1> QED BY <1>3, LinesAssumption

\* A value whose numbers can all be read is stored as it is.
LEMMA CompleteIsStored ==
  ASSUME NEW v \in EntryValues, Complete(v)
  PROVE  Stored(v) = v
<1>1. PICK l \in FileLines, newline \in BOOLEAN :
        l.kind = "entry" /\ v = [type |-> l.type, data |-> ValueOf(l.data, newline)]
  BY DEF EntryValues
<1> DEFINE t == v.data
<1>2. ASSUME v.type # "REG_SZ" PROVE \E S : t \in Seq(S)
  <2>1. l.data # TwoQuotes
    BY <1>1, <1>2, LinesAssumption
  <2>2. t = l.data /\ l.data \in Seq({l.data[i] : i \in DOMAIN l.data})
    BY <1>1, <2>1, LinesAssumption DEF ValueOf
  <2> QED BY <2>2
<1>4. CASE v.type \in {"REG_BINARY", "REG_MULTI_SZ"}
  <2>0. PICK S : t \in Seq(S)
    BY <1>2, <1>4
  <2>1. \A i \in DOMAIN t : t[i] # Blank
    BY <1>4 DEF Complete
  <2> HIDE DEF t
  <2>2. DOMAIN t = 1 .. Len(t) /\ Len(t) \in Nat /\ t = [i \in DOMAIN t |-> t[i]]
    BY <2>0
  <2> DEFINE numbers(i) == {j \in 1 .. i : t[j] # Blank}
  <2>3. ASSUME NEW i \in DOMAIN t PROVE numbers(i) # {} /\ Max(numbers(i)) = i
    <3>1. i \in Nat /\ i >= 1 /\ i <= Len(t)
      BY <2>2
    <3>2. \A j \in 1 .. i : j \in DOMAIN t
      BY <2>2, <3>1
    <3>3. numbers(i) = 1 .. i
      BY <2>1, <3>2
    <3>4. 1 .. i \subseteq 0 .. i /\ 1 .. i # {}
      BY <3>1
    <3>5. \E x \in 1 .. i : \A y \in 1 .. i : x >= y
      BY <3>1
    <3>6. Max(1 .. i) \in 1 .. i /\ \A y \in 1 .. i : Max(1 .. i) >= y
      BY <3>5 DEF Max
    <3>7. Max(1 .. i) = i
      BY <3>1, <3>6
    <3> QED BY <3>3, <3>4, <3>7
  <2>4. StrToBytes(t) = [i \in DOMAIN t |-> t[i]]
    BY <2>3 DEF StrToBytes
  <2>5. StrToBytes(v.data) = v.data
    BY <2>2, <2>4 DEF t
  <2> QED BY <1>1, <1>4, <2>5 DEF Stored
<1>5. CASE v.type \notin {"REG_BINARY", "REG_MULTI_SZ"}
  BY <1>5 DEF Stored
<1> QED BY <1>4, <1>5

\* Places are told apart by the section and the name.
LEMMA PlacesDiffer ==
  ASSUME NEW s \in FileSections, NEW t \in FileSections, NEW a, NEW b,
         Place(s.root, s, a) = Place(t.root, t, b)
  PROVE  s = t /\ a = b
<1>1. <<s.root, s.stem, s.last>> = <<t.root, t.stem, t.last>> /\ a = b
  BY DEF Place
<1>2. s.root = t.root /\ s.stem = t.stem /\ s.last = t.last
  BY <1>1
<1> QED BY <1>1, <1>2, SectionFacts

\* The import of one section writes the entries the file has in it, and no other.
LEMMA SectionImported ==
  ASSUME DictIsSaid, NEW s \in FileSections, NEW im, im = Imported(s.root, s)
  PROVE  /\ \A m \in DOMAIN said : m.sec = s /\ said[m].data # <<>> => PlaceOf(m) \in DOMAIN im
         /\ DOMAIN keys \subseteq DOMAIN im
         /\ \A a \in DOMAIN im :
              \/ a \in DOMAIN keys /\ im[a] = keys[a]
              \/ \E m \in DOMAIN said :
                   m.sec = s /\ said[m].data # <<>> /\ a = PlaceOf(m) /\ im[a] = Stored(said[m])
<1> DEFINE K == KeysLike(dict, s)
           name(i) == iniparser_getkeyname(dict, s, i)
           put(i) == Place(s.root, s, ValueName(name(i), Got(s, i)))
           nkey == iniparser_getnkey(dict, s)
           written == {i \in 0 .. nkey - 1 : Got(s, i).data # <<>>}
           of(a) == {i \in written : put(i) = a}
<1>1. /\ DictOK(dict) /\ Used(dict) \subseteq DOMAIN dict.slots /\ IsFiniteSet(Used(dict))
      /\ Used(dict) \subseteq Nat
  BY UsedFacts DEF DictIsSaid
<1>2. K = {i \in Used(dict) : ~IsSection(dict.slots[i].name) /\ Alike(dict.slots[i].name.sec, s)}
  BY DEF KeysLike, Used
<1>3. K \subseteq Used(dict) /\ K \subseteq Nat /\ IsFiniteSet(K)
  <2>1. K \subseteq Used(dict)
    BY <1>2
  <2> QED BY <2>1, <1>1, FS_Subset
<1>4. nkey = Cardinality(K) /\ nkey \in Nat
  BY <1>3, FS_CardinalityType DEF iniparser_getnkey
<1>5. ASSUME NEW i \in 0 .. nkey - 1, Got(s, i).data # <<>>
      PROVE  \E m \in DOMAIN said : m.sec = s /\ Got(s, i) = said[m] /\ put(i) = PlaceOf(m)
  <2> DEFINE j == Nth(K, i)
             k == name(i)
             m == Entry(s, k)
  <2>1. j \in K
    <3> HIDE DEF K
    <3> QED BY <1>3, <1>4, NthRank
  <2>2. k = dict.slots[j].name.key
    BY DEF iniparser_getkeyname
  <2>3. dict.slots[j].name \in DOMAIN said
    BY <2>1, <1>2 DEF DictIsSaid
  <2>4. k \in FileKeys
    BY <2>2, <2>3 DEF DictIsSaid
  <2>5. strlwc(k) = k
    BY <2>4, KeyFacts
  <2>6. m \in FileNames /\ m.sec = s /\ m.key = k
    BY <2>4 DEF Entry, FileNames
  <2>7. Got(s, i) = dictionary_get(dict, m, EmptyString)
    BY <2>5 DEF Got, iniparser_getstring
  <2> HIDE DEF m, k, j
  <2>8. PICK v : Holds(dict, m, v)
    <3>1. SUFFICES ASSUME \A v : ~ Holds(dict, m, v) PROVE FALSE
      OBVIOUS
    <3>2. Got(s, i) = EmptyString
      BY <3>1, <2>6, <2>7, <1>1, DictGet
    <3> QED BY <3>2, <1>5 DEF EmptyString
  <2>9. m \in DOMAIN said
    <3>1. PICK n \in Used(dict) : dict.slots[n].name = m
      BY <2>8 DEF Holds
    <3>2. ~IsSection(m)
      BY <2>4, <2>6, KeyFacts DEF IsSection
    <3> QED BY <3>1, <3>2 DEF DictIsSaid
  <2>10. Got(s, i) = said[m]
    <3>1. Holds(dict, m, said[m])
      BY <2>9 DEF DictIsSaid
    <3> QED BY <3>1, <2>6, <2>7, <1>1, DictGet
  <2>11. put(i) = PlaceOf(m)
    BY <2>6, <2>10 DEF PlaceOf, k
  <2> QED BY <2>6, <2>9, <2>10, <2>11
<1>6. ASSUME NEW m \in DOMAIN said, m.sec = s, said[m].data # <<>>
      PROVE  \E i \in written : put(i) = PlaceOf(m)
  <2>1. /\ m \in [sec : FileSections \cup {NoSection}, key : FileKeys]
        /\ Holds(dict, m, said[m])
    BY DEF DictIsSaid
  <2>2. PICK j \in Used(dict) : dict.slots[j].name = m
    BY <2>1 DEF Holds
  <2>3. m.key \in FileKeys /\ m.key # NoKey /\ strlwc(m.key) = m.key /\ m = Entry(s, m.key) /\ m \in FileNames
    BY <2>1, <1>6, KeyFacts DEF Entry, FileNames
  <2>4. j \in K
    BY <2>2, <2>3, <1>2, <1>6, SectionFacts DEF IsSection, Alike
  <2>5. PICK i \in 0 .. nkey - 1 : Nth(K, i) = j
    <3> HIDE DEF K
    <3> QED BY <2>4, <1>3, <1>4, NthRank
  <2>6. name(i) = m.key
    BY <2>2, <2>5 DEF iniparser_getkeyname
  <2>7. Got(s, i) = said[m]
    <3>1. Got(s, i) = dictionary_get(dict, m, EmptyString)
      BY <2>3, <2>6 DEF Got, iniparser_getstring
    <3> QED BY <3>1, <2>1, <2>3, <1>1, DictGet
  <2>8. put(i) = PlaceOf(m)
    BY <2>6, <2>7, <1>6 DEF PlaceOf
  <2>9. i \in written
    BY <2>7, <1>6
  <2> QED BY <2>8, <2>9
<1>7. im = [a \in DOMAIN keys \cup {put(i) : i \in written} |->
              IF of(a) = {} THEN keys[a] ELSE Stored(Got(s, Max(of(a))))]
  BY DEF Imported
<1> HIDE DEF put, nkey, name, K
<1>8. DOMAIN im = DOMAIN keys \cup {put(i) : i \in written}
  BY <1>7
<1>9. ASSUME NEW a \in DOMAIN im
      PROVE  \/ a \in DOMAIN keys /\ im[a] = keys[a]
             \/ \E m \in DOMAIN said :
                  m.sec = s /\ said[m].data # <<>> /\ a = PlaceOf(m) /\ im[a] = Stored(said[m])
  <2>1. CASE of(a) = {}
    <3>1. a \notin {put(i) : i \in written}
      BY <2>1
    <3> QED BY <2>1, <3>1, <1>7, <1>8
  <2>2. CASE of(a) # {}
    <3> DEFINE i == Max(of(a))
    <3>1. of(a) \subseteq 0 .. nkey
      BY <1>4
    <3>2. i \in of(a)
      <4> HIDE DEF of
      <4> QED BY <3>1, <2>2, <1>4, SetMax
    <3>3. im[a] = Stored(Got(s, i))
      BY <1>7, <1>8, <2>2
    <3> HIDE DEF i
    <3>4. i \in 0 .. nkey - 1 /\ Got(s, i).data # <<>> /\ put(i) = a
      BY <3>2
    <3> QED BY <3>3, <3>4, <1>5
  <2> QED BY <2>1, <2>2
<1> HIDE DEF of, written
<1>10. \A m \in DOMAIN said : m.sec = s /\ said[m].data # <<>> => PlaceOf(m) \in DOMAIN im
  BY <1>6, <1>8
<1> QED BY <1>8, <1>9, <1>10

ImportIInv == DictIsSaid /\ KeysAreSaid

LEMMA ImportInitInv == ImportInit => ImportIInv
<1> SUFFICES ASSUME ImportInit PROVE ImportIInv
  OBVIOUS
<1>1. DictOK(dict) /\ (\A x, w : ~ Holds(dict, x, w))
  BY DictNew DEF ImportInit
<1>2. Used(dict) = {}
  <2>1. \A i \in Used(dict) : Holds(dict, dict.slots[i].name, dict.slots[i].val)
    BY DEF Holds
  <2> QED BY <1>1, <2>1
<1>3. DOMAIN said = {} /\ DOMAIN keys = {}
  BY DEF ImportInit
<1>4. DictIsSaid
  BY <1>1, <1>2, <1>3 DEF DictIsSaid, ImportInit
<1>5. SectionsOf(dict) = {}
  BY <1>2 DEF SectionsOf, Used
<1>6. iniparser_getnsec(dict) = 0
  BY <1>5, FS_EmptySet DEF iniparser_getnsec
<1>7. KeysAreSaid
  BY <1>3, <1>6 DEF KeysAreSaid, ImportInit
<1> QED BY <1>4, <1>7 DEF ImportIInv

\* The sections are counted from the first to the last.
LEMMA SectionsCounted ==
  ASSUME DictIsSaid
  PROVE  /\ iniparser_getnsec(dict) \in Nat
         /\ \A j \in 0 .. iniparser_getnsec(dict) - 1 :
              SecNth(j) \in FileSections /\ (AllKnown => SecNth(j).root \in Roots)
         /\ \A s \in FileSections : Holds(dict, Section(s), NULL) =>
              \E j \in 0 .. iniparser_getnsec(dict) - 1 : SecNth(j) = s
<1> DEFINE S == SectionsOf(dict)
<1>1. DictOK(dict) /\ Used(dict) \subseteq Nat
  BY UsedFacts DEF DictIsSaid
<1>2. S = {i \in Used(dict) : IsSection(dict.slots[i].name)}
  BY DEF SectionsOf, Used
<1>3. S \subseteq Nat /\ IsFiniteSet(S)
  BY <1>1, <1>2, SectionsAreFinite
<1>4. Cardinality(S) \in Nat /\ iniparser_getnsec(dict) = Cardinality(S)
  BY <1>1, SectionsAreFinite DEF iniparser_getnsec
<1>5. ASSUME NEW j \in 0 .. iniparser_getnsec(dict) - 1
      PROVE  SecNth(j) \in FileSections /\ (AllKnown => SecNth(j).root \in Roots)
  <2>1. Nth(S, j) \in S
    <3> HIDE DEF S
    <3> QED BY <1>3, <1>4, NthRank
  <2>2. SecNth(j) = dict.slots[Nth(S, j)].name.sec
    BY DEF SecNth, iniparser_getsecname
  <2>3. SecNth(j) \in FileSections
    BY <2>1, <2>2, <1>2 DEF DictIsSaid
  <2>4. dict.slots[Nth(S, j)].name \in EntryNames(dict)
    BY <2>1, <1>2 DEF EntryNames, Used
  <2> QED BY <2>2, <2>3, <2>4, SectionFacts DEF AllKnown
<1>6. ASSUME NEW s \in FileSections, Holds(dict, Section(s), NULL)
      PROVE  \E j \in 0 .. iniparser_getnsec(dict) - 1 : SecNth(j) = s
  <2>1. PICK i \in Used(dict) : dict.slots[i].name = Section(s)
    BY <1>6 DEF Holds
  <2>2. i \in S
    BY <2>1, <1>2 DEF IsSection, Section
  <2>3. PICK j \in 0 .. iniparser_getnsec(dict) - 1 : Nth(S, j) = i
    <3> HIDE DEF S
    <3> QED BY <2>2, <1>3, <1>4, NthRank
  <2>4. SecNth(j) = s
    BY <2>1, <2>3 DEF SecNth, iniparser_getsecname, Section
  <2> QED BY <2>4
<1> QED BY <1>4, <1>5, <1>6

LEMMA LoadKeeps == ImportIInv /\ iniparser_load => ImportIInv'
<1> SUFFICES ASSUME ImportIInv, iniparser_load PROVE ImportIInv'
  OBVIOUS
<1>1. PICK l \in FileLines, newline \in BOOLEAN : Read(l, newline) /\ stage' \in {stage, "import"}
  BY DEF iniparser_load
<1>2. stage = "read" /\ stage' \in {"read", "import"} /\ iSect' = iSect /\ keys' = keys
  BY <1>1 DEF iniparser_load
<1>3. DictIsSaid'
  <2>1. CASE l.kind = "section"
    <3> DEFINE s == strlwc(l.sec)
    <3>1. sec' = s /\ dict' = dictionary_set(dict, Section(s), NULL) /\ said' = said
      BY <1>1, <2>1 DEF Read, iniparser_add_entry
    <3>2. s \in FileSections /\ Section(s) \in FileNames /\ s # NoSection
      <4>1. s \in FileSections
        BY <2>1 DEF FileSections
      <4> QED BY <4>1, SectionFacts
    <3> HIDE DEF s
    <3>3. /\ DictOK(dict')
          /\ \A x, w : Holds(dict', x, w) <=> IF x = Section(s) THEN w = NULL ELSE Holds(dict, x, w)
      BY <3>1, <3>2, DictSet DEF ImportIInv, DictIsSaid
    <3>4. ASSUME NEW m \in DOMAIN said
          PROVE  /\ m \in [sec : FileSections \cup {NoSection}, key : FileKeys]
                 /\ said[m] \in EntryValues /\ Holds(dict', m, said[m])
                 /\ m.sec # NoSection => Holds(dict', Section(m.sec), NULL)
      <4>1. /\ m \in [sec : FileSections \cup {NoSection}, key : FileKeys]
            /\ said[m] \in EntryValues /\ Holds(dict, m, said[m])
            /\ m.sec # NoSection => Holds(dict, Section(m.sec), NULL)
        BY DEF ImportIInv, DictIsSaid
      <4>2. m # Section(s)
        BY <4>1, KeyFacts DEF Section
      <4> QED BY <4>1, <4>2, <3>3
    <3>5. ASSUME NEW i \in Used(dict')
          PROVE  IF IsSection(dict'.slots[i].name) THEN dict'.slots[i].name.sec \in FileSections
                 ELSE dict'.slots[i].name \in DOMAIN said
      <4> DEFINE x == dict'.slots[i].name
      <4>1. Holds(dict', x, dict'.slots[i].val)
        BY DEF Holds
      <4>2. CASE x = Section(s)
        BY <4>2, <3>2 DEF IsSection, Section
      <4>3. CASE x # Section(s)
        <5>1. Holds(dict, x, dict'.slots[i].val)
          BY <4>1, <4>3, <3>3
        <5>2. PICK n \in Used(dict) : dict.slots[n].name = x
          BY <5>1 DEF Holds
        <5> QED BY <5>2 DEF ImportIInv, DictIsSaid
      <4> QED BY <4>2, <4>3
    <3>6. sec' \in FileSections \cup {NoSection} /\ Holds(dict', Section(sec'), NULL)
      BY <3>1, <3>2, <3>3
    <3> QED BY <3>1, <3>3, <3>4, <3>5, <3>6 DEF DictIsSaid
  <2>2. CASE l.kind = "entry"
    <3> DEFINE k == strlwc(strcrop(l.key))
               v == [type |-> l.type, data |-> ValueOf(l.data, newline)]
               e == Entry(sec, k)
    <3>1. dict' = iniparser_add_entry(dict, sec, k, v) /\ sec' = sec
          /\ said' = [m \in DOMAIN said \cup {e} |-> IF m = e THEN v ELSE said[m]]
      BY <1>1, <2>2 DEF Read
    <3>2. k \in FileKeys /\ v \in EntryValues
      BY <2>2 DEF FileKeys, EntryValues
    <3> HIDE DEF k, v
    <3>3. k # NoKey
      BY <3>2, KeyFacts
    <3>4. dict' = dictionary_set(dict, e, v)
      BY <3>1, <3>3 DEF iniparser_add_entry
    <3>5. e \in [sec : FileSections \cup {NoSection}, key : FileKeys] /\ e \in FileNames /\ ~IsSection(e)
      BY <3>2, <3>3 DEF ImportIInv, DictIsSaid, Entry, FileNames, IsSection
    <3>6. e.sec = sec
      BY DEF Entry
    <3> HIDE DEF e
    <3>7. /\ DictOK(dict')
          /\ \A x, w : Holds(dict', x, w) <=> IF x = e THEN w = v ELSE Holds(dict, x, w)
      BY <3>2, <3>4, <3>5, DictSet DEF ImportIInv, DictIsSaid
    <3>8. DOMAIN said' = DOMAIN said \cup {e} /\ \A m \in DOMAIN said' : said'[m] = IF m = e THEN v ELSE said[m]
      BY <3>1
    <3>9. \A s : Section(s) # e
      BY <3>5 DEF Section, IsSection
    <3>10. sec' \in FileSections \cup {NoSection} /\ (sec' # NoSection => Holds(dict', Section(sec'), NULL))
      BY <3>1, <3>7, <3>9 DEF ImportIInv, DictIsSaid
    <3>11. ASSUME NEW m \in DOMAIN said'
          PROVE  /\ m \in [sec : FileSections \cup {NoSection}, key : FileKeys]
                 /\ said'[m] \in EntryValues /\ Holds(dict', m, said'[m])
                 /\ m.sec # NoSection => Holds(dict', Section(m.sec), NULL)
      <4>1. CASE m = e
        BY <4>1, <3>1, <3>2, <3>5, <3>6, <3>7, <3>8, <3>10
      <4>2. CASE m # e
        <5>1. m \in DOMAIN said /\ said'[m] = said[m]
          BY <4>2, <3>8
        <5>2. /\ m \in [sec : FileSections \cup {NoSection}, key : FileKeys]
              /\ said[m] \in EntryValues /\ Holds(dict, m, said[m])
              /\ m.sec # NoSection => Holds(dict, Section(m.sec), NULL)
          BY <5>1 DEF ImportIInv, DictIsSaid
        <5> QED BY <4>2, <5>1, <5>2, <3>7, <3>9
      <4> QED BY <4>1, <4>2
    <3>12. ASSUME NEW i \in Used(dict')
          PROVE  IF IsSection(dict'.slots[i].name) THEN dict'.slots[i].name.sec \in FileSections
                 ELSE dict'.slots[i].name \in DOMAIN said'
      <4> DEFINE x == dict'.slots[i].name
      <4>1. Holds(dict', x, dict'.slots[i].val)
        BY DEF Holds
      <4>2. CASE x = e
        BY <4>2, <3>5, <3>8
      <4>3. CASE x # e
        <5>1. Holds(dict, x, dict'.slots[i].val)
          BY <4>1, <4>3, <3>7
        <5>2. PICK n \in Used(dict) : dict.slots[n].name = x
          BY <5>1 DEF Holds
        <5> QED BY <5>2, <3>8 DEF ImportIInv, DictIsSaid
      <4> QED BY <4>2, <4>3
    <3> QED BY <3>7, <3>10, <3>11, <3>12 DEF DictIsSaid
  <2>3. CASE l.kind # "section" /\ l.kind # "entry"
    <3>1. UNCHANGED <<sec, dict, said>>
      BY <1>1, <2>3 DEF Read
    <3> QED BY <3>1 DEF ImportIInv, DictIsSaid
  <2> QED BY <2>1, <2>2, <2>3
<1>4. iniparser_getnsec(dict') \in Nat
  BY <1>3, SectionsAreFinite DEF DictIsSaid
<1>5. iSect = 0 /\ DOMAIN keys = {}
  BY <1>2 DEF ImportIInv, KeysAreSaid
<1>6. KeysAreSaid'
  BY <1>2, <1>4, <1>5 DEF KeysAreSaid
<1> QED BY <1>3, <1>6 DEF ImportIInv

LEMMA ImportKeeps == ImportIInv /\ ImportRegistry => ImportIInv'
<1> SUFFICES ASSUME ImportIInv, ImportRegistry PROVE ImportIInv'
  OBVIOUS
<1> DEFINE N == iniparser_getnsec(dict)
           s == SecNth(iSect)
<1>1. /\ stage = "import" /\ iSect < N /\ iSect' = iSect + 1
      /\ UNCHANGED <<stage, sec, dict, said, lines>>
  BY DEF ImportRegistry
<1>2. \/ keys' = Imported(FoundRoot(s), s) /\ refused' = refused
      \/ refused' = refused \cup {s} /\ keys' = keys
  BY DEF ImportRegistry, SecNth
<1>3. DictIsSaid /\ N \in Nat /\ iSect \in 0 .. N - 1
  BY <1>1, SectionsCounted DEF ImportIInv, KeysAreSaid
<1>4. DictIsSaid'
  BY <1>1, <1>3 DEF DictIsSaid
<1>5. (AllKnown' <=> AllKnown) /\ (\A m : PlaceOf(m)' = PlaceOf(m)) /\ (\A j : SecNth(j)' = SecNth(j))
      /\ iniparser_getnsec(dict') = N /\ refused \subseteq refused'
  BY <1>1, <1>2 DEF AllKnown, PlaceOf, SecNth
<1> HIDE DEF N
<1>6. ASSUME AllKnown
      PROVE  /\ \A j \in 0 .. iSect : \A m \in DOMAIN said :
                  m.sec = SecNth(j) /\ m.sec \notin refused' /\ said[m].data # <<>>
                  => PlaceOf(m) \in DOMAIN keys'
             /\ \A a \in DOMAIN keys' : \E m \in DOMAIN said :
                  m.sec # NoSection /\ said[m].data # <<>> /\ a = PlaceOf(m) /\ keys'[a] = Stored(said[m])
  <2>1. s \in FileSections /\ s.root \in Roots /\ s # NoSection
    BY <1>3, <1>6, SectionsCounted, SectionFacts DEF N
  <2>2. FoundRoot(s) = s.root
    BY <2>1 DEF FoundRoot
  <2> HIDE DEF s
  <2>3. /\ \A j \in 0 .. iSect - 1 : \A m \in DOMAIN said :
            m.sec = SecNth(j) /\ m.sec \notin refused /\ said[m].data # <<>>
            => PlaceOf(m) \in DOMAIN keys
        /\ \A a \in DOMAIN keys : \E m \in DOMAIN said :
            m.sec # NoSection /\ said[m].data # <<>> /\ a = PlaceOf(m) /\ keys[a] = Stored(said[m])
    BY <1>6 DEF ImportIInv, KeysAreSaid
  <2>4. \A j \in 0 .. iSect : j \in 0 .. iSect - 1 \/ j = iSect
    BY <1>3
  <2>5. CASE keys' = Imported(s.root, s)
    <3>1. /\ \A m \in DOMAIN said : m.sec = s /\ said[m].data # <<>> => PlaceOf(m) \in DOMAIN keys'
          /\ DOMAIN keys \subseteq DOMAIN keys'
          /\ \A a \in DOMAIN keys' :
               \/ a \in DOMAIN keys /\ keys'[a] = keys[a]
               \/ \E m \in DOMAIN said :
                    m.sec = s /\ said[m].data # <<>> /\ a = PlaceOf(m) /\ keys'[a] = Stored(said[m])
      BY <1>3, <2>1, <2>5, SectionImported
    <3>2. ASSUME NEW j \in 0 .. iSect, NEW m \in DOMAIN said,
                 m.sec = SecNth(j), m.sec \notin refused', said[m].data # <<>>
          PROVE  PlaceOf(m) \in DOMAIN keys'
      <4>1. CASE j \in 0 .. iSect - 1
        BY <4>1, <3>1, <3>2, <2>3, <1>5
      <4>2. CASE j = iSect
        BY <4>2, <3>1, <3>2 DEF s
      <4> QED BY <4>1, <4>2, <2>4
    <3>3. ASSUME NEW a \in DOMAIN keys'
          PROVE  \E m \in DOMAIN said :
                   m.sec # NoSection /\ said[m].data # <<>> /\ a = PlaceOf(m) /\ keys'[a] = Stored(said[m])
      <4>1. CASE a \in DOMAIN keys /\ keys'[a] = keys[a]
        BY <4>1, <2>3
      <4>2. CASE \E m \in DOMAIN said :
                    m.sec = s /\ said[m].data # <<>> /\ a = PlaceOf(m) /\ keys'[a] = Stored(said[m])
        BY <4>2, <2>1
      <4> QED BY <4>1, <4>2, <3>1
    <3> QED BY <3>2, <3>3
  <2>6. CASE refused' = refused \cup {s} /\ keys' = keys
    <3>1. ASSUME NEW j \in 0 .. iSect, NEW m \in DOMAIN said,
                 m.sec = SecNth(j), m.sec \notin refused', said[m].data # <<>>
          PROVE  PlaceOf(m) \in DOMAIN keys'
      <4>1. j # iSect
        BY <2>6, <3>1 DEF s
      <4> QED BY <4>1, <3>1, <2>3, <2>4, <2>6
    <3> QED BY <3>1, <2>3, <2>6
  <2> QED BY <1>2, <2>2, <2>5, <2>6
<1>7. KeysAreSaid'
  <2>1. iSect' \in 0 .. N /\ iSect' - 1 = iSect
    BY <1>1, <1>3
  <2>2. AllKnown' =>
       /\ \A j \in 0 .. iSect' - 1 : \A m \in DOMAIN said' :
            m.sec = SecNth(j)' /\ m.sec \notin refused' /\ said'[m].data # <<>>
            => PlaceOf(m)' \in DOMAIN keys'
       /\ \A a \in DOMAIN keys' : \E m \in DOMAIN said' :
            m.sec # NoSection /\ said'[m].data # <<>> /\ a = PlaceOf(m)' /\ keys'[a] = Stored(said'[m])
    BY <1>1, <1>5, <1>6, <2>1
  <2> QED BY <1>1, <1>5, <2>1, <2>2 DEF KeysAreSaid
<1> QED BY <1>4, <1>7 DEF ImportIInv

LEMMA OthersKeep ==
  ImportIInv /\ (StartImport \/ EndImport \/ FlushRegistry \/ UNCHANGED importVars) => ImportIInv'
<1> SUFFICES ASSUME ImportIInv, StartImport \/ EndImport \/ FlushRegistry \/ UNCHANGED importVars PROVE ImportIInv'
  OBVIOUS
<1>1. UNCHANGED <<sec, dict, said, iSect, keys, refused>>
  BY DEF StartImport, EndImport, FlushRegistry, importVars
<1>2. DictIsSaid'
  BY <1>1 DEF ImportIInv, DictIsSaid
<1>3. AllKnown' = AllKnown /\ (\A m : PlaceOf(m)' = PlaceOf(m)) /\ (\A j : SecNth(j)' = SecNth(j))
  BY <1>1 DEF AllKnown, PlaceOf, SecNth
<1>4. /\ stage' \in {"read", "import", "flush", "over"}
      /\ stage' = "read" => stage = "read"
      /\ stage' \in {"flush", "over"} => iSect = iniparser_getnsec(dict)
  BY DEF StartImport, EndImport, FlushRegistry, importVars, ImportIInv, KeysAreSaid
<1>5. KeysAreSaid'
  BY <1>1, <1>3, <1>4 DEF ImportIInv, KeysAreSaid
<1> QED BY <1>2, <1>5 DEF ImportIInv

LEMMA IInvIsFile == ImportIInv => RegistryIsFile
<1> SUFFICES ASSUME ImportIInv, stage = "over", AllKnown
             PROVE  /\ \A m \in DOMAIN said :
                         LET val == said[m]
                             s == m.sec
                             name == ValueName(m.key, val)
                             put == Place(s.root, s, name)
                         IN  /\ s # NoSection /\ s \notin refused /\ val.data # <<>>
                             /\ \A v \in SaidOf(s, name) : Complete(v)
                             => put \in DOMAIN keys /\ keys[put] \in SaidOf(s, name)
                    /\ \A put \in DOMAIN keys :
                         \E m \in {m \in DOMAIN said : m.sec # NoSection} :
                           put = Place(m.sec.root, m.sec, ValueName(m.key, said[m]))
  BY DEF RegistryIsFile, AllKnown
<1>1. /\ DictIsSaid /\ iSect = iniparser_getnsec(dict)
      /\ \A j \in 0 .. iSect - 1 : \A m \in DOMAIN said :
           m.sec = SecNth(j) /\ m.sec \notin refused /\ said[m].data # <<>>
           => PlaceOf(m) \in DOMAIN keys
      /\ \A a \in DOMAIN keys : \E m \in DOMAIN said :
           m.sec # NoSection /\ said[m].data # <<>> /\ a = PlaceOf(m) /\ keys[a] = Stored(said[m])
  BY DEF ImportIInv, KeysAreSaid
<1>2. \A m \in DOMAIN said : said[m] \in EntryValues /\ (m.sec # NoSection => m.sec \in FileSections)
  BY <1>1 DEF DictIsSaid
<1>3. ASSUME NEW m \in DOMAIN said, m.sec # NoSection, m.sec \notin refused, said[m].data # <<>>,
             NEW name, name = ValueName(m.key, said[m]),
             \A v \in SaidOf(m.sec, name) : Complete(v)
      PROVE  PlaceOf(m) \in DOMAIN keys /\ keys[PlaceOf(m)] \in SaidOf(m.sec, name)
  <2>1. m.sec \in FileSections /\ Holds(dict, Section(m.sec), NULL)
    BY <1>1, <1>2, <1>3 DEF DictIsSaid
  <2>2. PICK j \in 0 .. iSect - 1 : SecNth(j) = m.sec
    BY <2>1, <1>1, SectionsCounted
  <2>3. PlaceOf(m) \in DOMAIN keys
    BY <2>2, <1>1, <1>3
  <2>4. PICK n \in DOMAIN said :
          n.sec # NoSection /\ said[n].data # <<>> /\ PlaceOf(m) = PlaceOf(n) /\ keys[PlaceOf(m)] = Stored(said[n])
    BY <2>3, <1>1
  <2>5. n.sec \in FileSections /\ said[n] \in EntryValues
    BY <2>4, <1>2
  <2>6. n.sec = m.sec /\ ValueName(n.key, said[n]) = name
    <3>1. Place(m.sec.root, m.sec, name) = Place(n.sec.root, n.sec, ValueName(n.key, said[n]))
      BY <2>4, <1>3 DEF PlaceOf
    <3>2. \A s, t \in FileSections : \A a, b :
            Place(s.root, s, a) = Place(t.root, t, b) => s = t /\ a = b
      BY PlacesDiffer
    <3>3. m.sec = n.sec /\ name = ValueName(n.key, said[n])
      <4> DEFINE s == m.sec
                 t == n.sec
                 b == ValueName(n.key, said[n])
      <4>1. s \in FileSections /\ t \in FileSections
        BY <2>1, <2>5
      <4>2. Place(s.root, s, name) = Place(t.root, t, b)
        BY <3>1
      <4> HIDE DEF s, t, b
      <4>3. s = t /\ name = b
        BY <4>1, <4>2, <3>2
      <4> QED BY <4>3 DEF s, t, b
    <3> QED BY <3>3
  <2>7. said[n] \in SaidOf(m.sec, name)
    BY <2>4, <2>6 DEF SaidOf
  <2>8. Stored(said[n]) = said[n]
    BY <2>5, <2>7, <1>3, CompleteIsStored
  <2> QED BY <2>3, <2>4, <2>7, <2>8
<1>4. ASSUME NEW a \in DOMAIN keys
      PROVE  \E m \in {m \in DOMAIN said : m.sec # NoSection} :
               a = Place(m.sec.root, m.sec, ValueName(m.key, said[m]))
  BY <1>1 DEF PlaceOf
<1> QED BY <1>3, <1>4 DEF PlaceOf

\* When the import is over the registry holds what the file says: of each section
\* that could be created every entry with its last value, and nothing else
\* (ImportRegistry of regimp/Registry.cpp, with the dictionary of
\* regimp/dictionary.cpp).
THEOREM FileIsImported == ImportSpec => []RegistryIsFile
<1>1. ImportInit => ImportIInv
  BY ImportInitInv
<1>2. ImportIInv /\ [ImportNext]_importVars => ImportIInv'
  BY LoadKeeps, ImportKeeps, OthersKeep DEF ImportNext
<1>3. ImportIInv => RegistryIsFile
  BY IInvIsFile
<1> QED BY <1>1, <1>2, <1>3, PTL DEF ImportSpec

-----------------------------------------------------------------------------
(***************************************************************************)
(* A browser gets the answer to what it has sent, and a page as its author *)
(* means it, for any request lines, documents and pieces. Splitting a text *)
(* into lines and reading it by characters are related by how the lines    *)
(* change with one more character; a page is copied from its variables,    *)
(* one turn for each buffer of its stream.                                 *)
(***************************************************************************)
\* The greatest and the least of a set of numbers.
LEMMA MaxIs ==
  ASSUME NEW S, S \subseteq Nat, NEW m \in S, \A y \in S : m >= y
  PROVE  Max(S) = m
<1>1. Max(S) \in S /\ \A y \in S : Max(S) >= y
  BY DEF Max
<1>2. Max(S) \in Nat /\ m \in Nat /\ Max(S) >= m /\ m >= Max(S)
  BY <1>1
<1> QED BY <1>2

LEMMA MinIs ==
  ASSUME NEW S, S \subseteq Nat, NEW m \in S, \A y \in S : m <= y
  PROVE  Min(S) = m
<1>1. Min(S) \in S /\ \A y \in S : Min(S) <= y
  BY DEF Min
<1>2. Min(S) \in Nat /\ m \in Nat /\ Min(S) <= m /\ m <= Min(S)
  BY <1>1
<1> QED BY <1>2

LEMMA MinFacts ==
  ASSUME NEW S, S \subseteq Nat, S # {}
  PROVE  Min(S) \in S /\ \A y \in S : Min(S) <= y
<1>1. \E x \in S : \A y \in S : x <= y
  BY NatMin
<1> QED BY <1>1 DEF Min

LEMMA MaxFacts ==
  ASSUME NEW S, NEW b \in Nat, S \subseteq 0 .. b, S # {}
  PROVE  Max(S) \in S /\ \A y \in S : Max(S) >= y
<1> DEFINE T == {n \in Nat : b - n \in S}
<1>1. ASSUME NEW y \in S PROVE b - y \in T /\ y \in Nat
  <2>1. y \in 0 .. b /\ b - (b - y) = y
    OBVIOUS
  <2> QED BY <2>1
<1>2. T \subseteq Nat /\ T # {}
  BY <1>1
<1>3. PICK t \in T : \A u \in T : t <= u
  BY <1>2, NatMin
<1>4. b - t \in S /\ t \in Nat
  BY <1>3
<1>5. ASSUME NEW y \in S PROVE b - t >= y
  <2>1. t <= b - y
    BY <1>1, <1>3
  <2> QED BY <1>1, <1>4, <2>1
<1> QED BY <1>4, <1>5 DEF Max

-----------------------------------------------------------------------------
(* The lines of a text, as the text grows by a character. *)
Input == Chars \cup {CR, LF}
LineEnds(t) == {i \in DOMAIN t : t[i] = LF}
UpTo(t, i) == {j \in LineEnds(t) : j <= i}
EndOf(t, k) ==
  IF k > Cardinality(LineEnds(t)) THEN Len(t) + 1
  ELSE CHOOSE i \in {i \in LineEnds(t) : Cardinality(UpTo(t, i)) = k} : TRUE
StartOf(t, e) == Max({0} \cup {i \in LineEnds(t) : i < e}) + 1

LEMMA SplitIs ==
  ASSUME NEW t
  PROVE  Split(t) = [k \in 1 .. Cardinality(LineEnds(t)) + 1 |->
                       SubSeq(t, StartOf(t, EndOf(t, k)), EndOf(t, k) - 1)]
BY DEF Split, EndOf, StartOf, LineEnds, UpTo

LEMMA EndsFinite ==
  ASSUME NEW A, NEW t \in Seq(A)
  PROVE  /\ Len(t) \in Nat /\ LineEnds(t) \subseteq 1 .. Len(t)
         /\ IsFiniteSet(LineEnds(t)) /\ Cardinality(LineEnds(t)) \in Nat
<1>1. Len(t) \in Nat /\ LineEnds(t) \subseteq 1 .. Len(t)
  BY DEF LineEnds
<1>2. IsFiniteSet(1 .. Len(t))
  BY <1>1, FS_Interval
<1>3. IsFiniteSet(LineEnds(t))
  BY <1>1, <1>2, FS_Subset
<1> QED BY <1>1, <1>3, FS_CardinalityType

LEMMA UpToFinite ==
  ASSUME NEW A, NEW t \in Seq(A), NEW i
  PROVE  IsFiniteSet(UpTo(t, i)) /\ Cardinality(UpTo(t, i)) \in Nat
<1>1. IsFiniteSet(UpTo(t, i))
  BY EndsFinite, FS_Subset DEF UpTo
<1> QED BY <1>1, FS_CardinalityType

\* The k-th end is there.
LEMMA EndIsThere ==
  ASSUME NEW A, NEW t \in Seq(A), NEW k \in 1 .. Cardinality(LineEnds(t))
  PROVE  {i \in LineEnds(t) : Cardinality(UpTo(t, i)) = k} # {}
<1> DEFINE S == {n \in Nat : \A c \in 1 .. Cardinality(UpTo(t, n)) :
                               \E i \in LineEnds(t) : Cardinality(UpTo(t, i)) = c}
<1>0. Len(t) \in Nat /\ LineEnds(t) \subseteq 1 .. Len(t)
  BY EndsFinite
<1>1. 0 \in S
  <2>1. UpTo(t, 0) = {}
    BY <1>0 DEF UpTo
  <2>2. Cardinality(UpTo(t, 0)) = 0
    BY <2>1, FS_EmptySet
  <2> QED BY <2>2
<1>2. ASSUME NEW n \in Nat, n \in S PROVE n + 1 \in S
  <2>1. CASE n + 1 \in LineEnds(t)
    <3>1. UpTo(t, n + 1) = UpTo(t, n) \cup {n + 1} /\ n + 1 \notin UpTo(t, n)
      BY <1>0, <2>1 DEF UpTo
    <3>2. Cardinality(UpTo(t, n + 1)) = Cardinality(UpTo(t, n)) + 1
      BY <3>1, UpToFinite, FS_AddElement
    <3>3. Cardinality(UpTo(t, n)) \in Nat
      BY UpToFinite
    <3>4. ASSUME NEW c \in 1 .. Cardinality(UpTo(t, n + 1))
          PROVE \E i \in LineEnds(t) : Cardinality(UpTo(t, i)) = c
      <4>1. c \in 1 .. Cardinality(UpTo(t, n)) \/ c = Cardinality(UpTo(t, n + 1))
        BY <3>2, <3>3
      <4> QED BY <1>2, <2>1, <4>1
    <3> QED BY <3>4
  <2>2. CASE n + 1 \notin LineEnds(t)
    <3>1. UpTo(t, n + 1) = UpTo(t, n)
      BY <1>0, <2>2 DEF UpTo
    <3> QED BY <1>2, <3>1
  <2> QED BY <2>1, <2>2
<1>3. Len(t) \in S
  BY <1>0, <1>1, <1>2, NatInd
<1>4. UpTo(t, Len(t)) = LineEnds(t)
  BY <1>0 DEF UpTo
<1> QED BY <1>3, <1>4

\* Where a line begins and ends.
LEMMA LineBounds ==
  ASSUME NEW A, NEW t \in Seq(A), NEW k \in 1 .. Cardinality(LineEnds(t)) + 1
  PROVE  /\ k <= Cardinality(LineEnds(t)) => EndOf(t, k) \in LineEnds(t)
         /\ EndOf(t, k) \in 1 .. Len(t) + 1
         /\ StartOf(t, EndOf(t, k)) \in 1 .. EndOf(t, k)
<1>0. /\ Len(t) \in Nat /\ LineEnds(t) \subseteq 1 .. Len(t) /\ Cardinality(LineEnds(t)) \in Nat
  BY EndsFinite
<1>1. k <= Cardinality(LineEnds(t)) => EndOf(t, k) \in LineEnds(t)
  <2> SUFFICES ASSUME k <= Cardinality(LineEnds(t)) PROVE EndOf(t, k) \in LineEnds(t)
    OBVIOUS
  <2>1. {i \in LineEnds(t) : Cardinality(UpTo(t, i)) = k} # {}
    BY <1>0, EndIsThere
  <2> QED BY <1>0, <2>1 DEF EndOf
<1>2. EndOf(t, k) \in 1 .. Len(t) + 1
  BY <1>0, <1>1 DEF EndOf
<1> DEFINE e == EndOf(t, k)
           B == {0} \cup {i \in LineEnds(t) : i < e}
<1>3. B \subseteq 0 .. e - 1 /\ B # {} /\ e - 1 \in Nat
  BY <1>0, <1>2
<1>4. Max(B) \in B
  BY <1>3, MaxFacts
<1> QED BY <1>1, <1>2, <1>3, <1>4 DEF StartOf

LEMMA SplitType ==
  ASSUME NEW A, NEW t \in Seq(A)
  PROVE  /\ Split(t) \in Seq(Seq(A)) /\ Len(Split(t)) = Cardinality(LineEnds(t)) + 1
         /\ Cardinality(LineEnds(t)) \in Nat
<1>0. Len(t) \in Nat /\ Cardinality(LineEnds(t)) \in Nat
  BY EndsFinite
<1>1. ASSUME NEW k \in 1 .. Cardinality(LineEnds(t)) + 1
      PROVE SubSeq(t, StartOf(t, EndOf(t, k)), EndOf(t, k) - 1) \in Seq(A)
  BY <1>0, LineBounds, SubSeqProperties
<1> DEFINE n == Cardinality(LineEnds(t)) + 1
           line(k) == SubSeq(t, StartOf(t, EndOf(t, k)), EndOf(t, k) - 1)
<1>2. n \in Nat /\ \A k \in 1 .. n : line(k) \in Seq(A)
  BY <1>0, <1>1
<1>3. Split(t) = [k \in 1 .. n |-> line(k)]
  BY SplitIs
<1> HIDE DEF line, n
<1>4. [k \in 1 .. n |-> line(k)] \in Seq(Seq(A)) /\ Len([k \in 1 .. n |-> line(k)]) = n
  BY <1>2
<1> QED BY <1>0, <1>3, <1>4 DEF n

LEMMA SplitStart == Split(<<>>) = << <<>> >>
<1> SUFFICES ASSUME NEW t, t = <<>> PROVE Split(t) = << <<>> >>
  OBVIOUS
<1>1. Len(t) = 0 /\ DOMAIN t = {}
  OBVIOUS
<1>2. LineEnds(t) = {}
  BY <1>1 DEF LineEnds
<1>3. Cardinality(LineEnds(t)) = 0
  BY <1>2, FS_EmptySet
<1>4. EndOf(t, 1) = 1
  BY <1>1, <1>3 DEF EndOf
<1>5. StartOf(t, 1) = 1
  <2>1. {0} \cup {i \in LineEnds(t) : i < 1} = {0}
    BY <1>2
  <2>2. Max({0}) = 0
    BY MaxIs
  <2>3. StartOf(t, 1) = Max({0} \cup {i \in LineEnds(t) : i < 1}) + 1
    BY DEF StartOf
  <2> QED BY <2>1, <2>2, <2>3
<1> DEFINE line(k) == SubSeq(t, StartOf(t, EndOf(t, k)), EndOf(t, k) - 1)
<1>6. line(1) = <<>>
  BY <1>4, <1>5
<1>7. Split(t) = [k \in 1 .. 1 |-> line(k)]
  <2>1. Cardinality(LineEnds(t)) + 1 = 1
    BY <1>3
  <2> QED BY <2>1, SplitIs
<1> HIDE DEF line
<1> QED BY <1>6, <1>7

\* Parts of sequences that agree.
LEMMA SameSubSeq ==
  ASSUME NEW A, NEW t \in Seq(A), NEW u \in Seq(A), NEW b \in Nat, NEW e \in Int, 1 <= b,
         e <= Len(t), e <= Len(u), \A i \in 1 .. e : u[i] = t[i]
  PROVE  SubSeq(u, b, e) = SubSeq(t, b, e)
<1>0. Len(t) \in Nat /\ Len(u) \in Nat /\ \A i \in b .. e : i \in 1 .. Len(t) /\ i \in 1 .. Len(u) /\ i \in 1 .. e
  OBVIOUS
<1>1. \A i \in b .. e : t[i] \in A /\ u[i] \in A
  BY <1>0
<1> DEFINE v == SubSeq(t, b, e)
           w == SubSeq(u, b, e)
<1>2. /\ v \in Seq(A) /\ Len(v) = IF b <= e THEN e - b + 1 ELSE 0
      /\ \A i \in 1 .. e - b + 1 : v[i] = t[b + i - 1]
  BY <1>1, SubSeqProperties
<1>3. /\ w \in Seq(A) /\ Len(w) = IF b <= e THEN e - b + 1 ELSE 0
      /\ \A i \in 1 .. e - b + 1 : w[i] = u[b + i - 1]
  BY <1>1, SubSeqProperties
<1> HIDE DEF v, w
<1>4. ASSUME NEW i \in 1 .. Len(w) PROVE w[i] = v[i]
  <2>1. i \in 1 .. e - b + 1 /\ b + i - 1 \in 1 .. e
    BY <1>3
  <2> QED BY <1>2, <1>3, <2>1
<1>5. Len(w) = Len(v)
  BY <1>2, <1>3
<1>6. w = v
  BY <1>2, <1>3, <1>4, <1>5, SeqEqual
<1> QED BY <1>6 DEF v, w

LEMMA SubSeqOfAppend ==
  ASSUME NEW A, NEW t \in Seq(A), NEW c \in A, NEW b \in 1 .. Len(t) + 1
  PROVE  SubSeq(Append(t, c), b, Len(t) + 1) = Append(SubSeq(t, b, Len(t)), c)
<1> DEFINE u == Append(t, c)
           v == SubSeq(t, b, Len(t))
           w == SubSeq(u, b, Len(t) + 1)
<1>0. Len(t) \in Nat /\ b \in Nat /\ \A i \in b .. Len(t) : i \in 1 .. Len(t)
  OBVIOUS
<1>1. /\ u \in Seq(A) /\ Len(u) = Len(t) + 1 /\ u[Len(t) + 1] = c
      /\ \A i \in 1 .. Len(t) : u[i] = t[i]
  BY AppendProperties
<1> HIDE DEF u
<1>2. \A i \in b .. Len(t) + 1 : u[i] \in A
  BY <1>0, <1>1
<1>3. /\ v \in Seq(A) /\ Len(v) = Len(t) - b + 1
      /\ \A i \in 1 .. Len(t) - b + 1 : v[i] = t[b + i - 1]
  <2>1. \A i \in b .. Len(t) : t[i] \in A
    BY <1>0
  <2> QED BY <1>0, <2>1, SubSeqProperties
<1>4. /\ w \in Seq(A) /\ Len(w) = Len(t) - b + 2
      /\ \A i \in 1 .. Len(t) - b + 2 : w[i] = u[b + i - 1]
  <2>1. Len(t) + 1 \in Int /\ b \in Int
    BY <1>0
  <2> HIDE DEF w
  <2>2. /\ SubSeq(u, b, Len(t) + 1) \in Seq(A)
        /\ Len(SubSeq(u, b, Len(t) + 1)) = IF b <= Len(t) + 1 THEN Len(t) + 1 - b + 1 ELSE 0
        /\ \A i \in 1 .. Len(t) + 1 - b + 1 : SubSeq(u, b, Len(t) + 1)[i] = u[b + i - 1]
    BY <1>2, <2>1, SubSeqProperties
  <2> QED BY <1>0, <2>2 DEF w
<1> HIDE DEF v, w
<1>5. /\ Append(v, c) \in Seq(A) /\ Len(Append(v, c)) = Len(v) + 1 /\ Append(v, c)[Len(v) + 1] = c
      /\ \A i \in 1 .. Len(v) : Append(v, c)[i] = v[i]
  BY <1>3, AppendProperties
<1>6. ASSUME NEW i \in 1 .. Len(w) PROVE w[i] = Append(v, c)[i]
  <2>0. i \in Nat /\ 1 <= i /\ i <= Len(t) - b + 2 /\ b \in Nat /\ 1 <= b /\ b <= Len(t) + 1
    BY <1>4
  <2>1. CASE i = Len(t) - b + 2
    <3>1. b + i - 1 = Len(t) + 1 /\ i = Len(v) + 1 /\ i \in 1 .. Len(t) - b + 2
      BY <1>0, <1>3, <2>0, <2>1
    <3> QED BY <1>1, <1>4, <1>5, <3>1
  <2>2. CASE i # Len(t) - b + 2
    <3>1. i \in 1 .. Len(t) - b + 1 /\ b + i - 1 \in 1 .. Len(t) /\ i \in 1 .. Len(t) - b + 2
      BY <1>0, <2>0, <2>2
    <3> QED BY <1>1, <1>3, <1>4, <1>5, <3>1
  <2> QED BY <2>1, <2>2
<1>7. Len(w) = Len(Append(v, c))
  BY <1>0, <1>3, <1>4, <1>5
<1>8. w = Append(v, c)
  BY <1>4, <1>5, <1>6, <1>7, SeqEqual
<1> QED BY <1>8 DEF u, v, w

\* A character that ends no line is the last of the last line.
LEMMA SplitMore ==
  ASSUME NEW A, NEW t \in Seq(A), NEW c \in A, c # LF
  PROVE  LET L == Split(t)
             M == Split(Append(t, c))
         IN /\ Len(M) = Len(L) /\ M[Len(M)] = Append(L[Len(L)], c)
            /\ \A k \in 1 .. Len(L) - 1 : M[k] = L[k]
<1> DEFINE u == Append(t, c)
           L == Split(t)
           M == Split(u)
           n == Cardinality(LineEnds(t))
<1>0. /\ Len(t) \in Nat /\ LineEnds(t) \subseteq 1 .. Len(t) /\ n \in Nat /\ Len(L) = n + 1
      /\ L \in Seq(Seq(A))
  BY EndsFinite, SplitType
<1>1. /\ u \in Seq(A) /\ Len(u) = Len(t) + 1 /\ u[Len(t) + 1] = c
      /\ \A i \in 1 .. Len(t) : u[i] = t[i]
  BY AppendProperties
<1> HIDE DEF u
<1>2. LineEnds(u) = LineEnds(t)
  BY <1>0, <1>1 DEF LineEnds
<1>3. Len(M) = n + 1
  BY <1>1, <1>2, SplitType
<1>4. ASSUME NEW k \in 1 .. n PROVE M[k] = L[k]
  <2>1. EndOf(u, k) = EndOf(t, k)
    BY <1>0, <1>2 DEF EndOf, UpTo
  <2>2. EndOf(t, k) \in LineEnds(t) /\ StartOf(t, EndOf(t, k)) \in 1 .. EndOf(t, k)
    BY <1>0, LineBounds
  <2>3. StartOf(u, EndOf(t, k)) = StartOf(t, EndOf(t, k))
    BY <1>2 DEF StartOf
  <2> DEFINE e == EndOf(t, k)
             b == StartOf(t, EndOf(t, k))
  <2>4. L[k] = SubSeq(t, b, e - 1) /\ M[k] = SubSeq(u, b, e - 1)
    BY <1>0, <1>2, <2>1, <2>3, SplitIs
  <2>5. b \in Nat /\ e \in Nat /\ 1 <= b /\ e <= Len(t)
    BY <1>0, <2>2
  <2> HIDE DEF b, e
  <2>6. SubSeq(t, b, e - 1) = SubSeq(u, b, e - 1)
    <3>1. e - 1 \in Int /\ e - 1 <= Len(t) /\ e - 1 <= Len(u)
      BY <1>0, <1>1, <2>5
    <3>2. \A i \in 1 .. e - 1 : u[i] = t[i]
      BY <1>0, <1>1, <2>5
    <3> QED BY <1>1, <2>5, <3>1, <3>2, SameSubSeq
  <2> QED BY <2>4, <2>6
<1>5. M[n + 1] = Append(L[n + 1], c)
  <2>1. EndOf(t, n + 1) = Len(t) + 1 /\ EndOf(u, n + 1) = Len(t) + 2
    BY <1>0, <1>1, <1>2 DEF EndOf
  <2>2. StartOf(t, Len(t) + 1) \in 1 .. Len(t) + 1
    BY <1>0, <2>1, LineBounds
  <2> DEFINE b == StartOf(t, Len(t) + 1)
  <2>3. StartOf(u, Len(t) + 2) = b
    <3>1. {i \in LineEnds(u) : i < Len(t) + 2} = {i \in LineEnds(t) : i < Len(t) + 1}
      BY <1>0, <1>2
    <3> QED BY <3>1 DEF StartOf
  <2>4. L[n + 1] = SubSeq(t, b, Len(t)) /\ M[n + 1] = SubSeq(u, b, Len(t) + 1)
    BY <1>0, <1>2, <2>1, <2>3, SplitIs
  <2> HIDE DEF b
  <2>5. SubSeq(u, b, Len(t) + 1) = Append(SubSeq(t, b, Len(t)), c)
    BY <1>0, <2>2, SubSeqOfAppend DEF b, u
  <2> QED BY <2>4, <2>5
<1> QED BY <1>0, <1>3, <1>4, <1>5 DEF u

\* The end of a line begins a new one.
LEMMA SplitEnd ==
  ASSUME NEW A, NEW t \in Seq(A), LF \in A
  PROVE  LET L == Split(t)
             M == Split(Append(t, LF))
         IN /\ Len(M) = Len(L) + 1 /\ M[Len(M)] = <<>>
            /\ \A k \in 1 .. Len(L) : M[k] = L[k]
<1> DEFINE u == Append(t, LF)
           L == Split(t)
           M == Split(u)
           n == Cardinality(LineEnds(t))
<1>0. /\ Len(t) \in Nat /\ LineEnds(t) \subseteq 1 .. Len(t) /\ n \in Nat /\ Len(L) = n + 1
      /\ L \in Seq(Seq(A)) /\ IsFiniteSet(LineEnds(t))
  BY EndsFinite, SplitType
<1>1. /\ u \in Seq(A) /\ Len(u) = Len(t) + 1 /\ u[Len(t) + 1] = LF
      /\ \A i \in 1 .. Len(t) : u[i] = t[i]
  BY AppendProperties
<1> HIDE DEF u
<1>2. LineEnds(u) = LineEnds(t) \cup {Len(t) + 1} /\ Len(t) + 1 \notin LineEnds(t)
  BY <1>0, <1>1 DEF LineEnds
<1>3. Cardinality(LineEnds(u)) = n + 1
  BY <1>0, <1>2, FS_AddElement
<1>4. Len(M) = n + 2
  BY <1>0, <1>1, <1>3, SplitType
<1>5. ASSUME NEW k \in 1 .. n + 1 PROVE EndOf(u, k) = EndOf(t, k)
  <2>1. \A i \in LineEnds(t) : UpTo(u, i) = UpTo(t, i)
    BY <1>0, <1>2 DEF UpTo
  <2>2. UpTo(u, Len(t) + 1) = LineEnds(u)
    BY <1>0, <1>2 DEF UpTo
  <2>3. CASE k <= n
    <3>1. {i \in LineEnds(u) : Cardinality(UpTo(u, i)) = k} = {i \in LineEnds(t) : Cardinality(UpTo(t, i)) = k}
      <4>1. Cardinality(UpTo(u, Len(t) + 1)) # k
        BY <1>0, <1>3, <2>2, <2>3
      <4> QED BY <1>2, <2>1, <4>1
    <3>2. ~(k > Cardinality(LineEnds(u))) /\ ~(k > Cardinality(LineEnds(t)))
      BY <1>0, <1>3, <2>3
    <3> QED BY <3>1, <3>2 DEF EndOf
  <2>4. CASE k = n + 1
    <3>1. EndOf(t, k) = Len(t) + 1
      BY <1>0, <2>4 DEF EndOf
    <3>2. EndOf(u, k) \in LineEnds(u)
      BY <1>0, <1>1, <1>3, <2>4, LineBounds
    <3>3. PICK i \in LineEnds(u) : Cardinality(UpTo(u, i)) = k /\ i = EndOf(u, k)
      <4>1. {i \in LineEnds(u) : Cardinality(UpTo(u, i)) = k} # {}
        BY <1>0, <1>1, <1>3, <2>4, EndIsThere
      <4> QED BY <1>0, <1>3, <2>4, <4>1 DEF EndOf
    <3>4. ASSUME i \in LineEnds(t) PROVE FALSE
      <4>1. UpTo(t, i) \subseteq LineEnds(t)
        BY DEF UpTo
      <4>2. Cardinality(UpTo(t, i)) <= n
        BY <1>0, <4>1, FS_Subset
      <4> QED BY <1>0, <2>1, <2>4, <3>3, <3>4, <4>2
    <3> QED BY <1>2, <3>1, <3>3, <3>4
  <2> QED BY <1>0, <2>3, <2>4
<1>6. ASSUME NEW k \in 1 .. n + 1 PROVE M[k] = L[k]
  <2>2. EndOf(t, k) \in 1 .. Len(t) + 1 /\ StartOf(t, EndOf(t, k)) \in 1 .. EndOf(t, k)
    BY <1>0, LineBounds
  <2> DEFINE e == EndOf(t, k)
             b == StartOf(t, EndOf(t, k))
  <2>3. StartOf(u, e) = b
    <3>1. {i \in LineEnds(u) : i < e} = {i \in LineEnds(t) : i < e}
      BY <1>0, <1>2, <2>2
    <3> QED BY <3>1 DEF StartOf
  <2>4. L[k] = SubSeq(t, b, e - 1) /\ M[k] = SubSeq(u, b, e - 1)
    <3>1. k \in 1 .. Cardinality(LineEnds(u)) + 1
      BY <1>0, <1>3
    <3> QED BY <1>5, <2>3, <3>1, SplitIs
  <2>5. b \in Nat /\ e \in Nat /\ 1 <= b /\ e <= Len(t) + 1
    BY <1>0, <2>2
  <2> HIDE DEF b, e
  <2>6. e - 1 \in Int /\ e - 1 <= Len(t) /\ e - 1 <= Len(u)
    BY <1>0, <1>1, <2>5
  <2>7. SubSeq(u, b, e - 1) = SubSeq(t, b, e - 1)
    <3>1. ASSUME NEW i \in 1 .. e - 1 PROVE u[i] = t[i]
      <4>1. i \in 1 .. Len(t)
        BY <1>0, <2>6
      <4> QED BY <1>1, <4>1
    <3> QED BY <1>1, <2>5, <2>6, <3>1, SameSubSeq
  <2> QED BY <2>4, <2>7
<1>7. M[n + 2] = <<>>
  <2>1. EndOf(u, n + 2) = Len(t) + 2
    BY <1>0, <1>1, <1>3 DEF EndOf
  <2> DEFINE B == {0} \cup {i \in LineEnds(u) : i < Len(t) + 2}
  <2>2. Len(t) + 1 \in B /\ B \subseteq Nat /\ \A i \in B : Len(t) + 1 >= i
    BY <1>0, <1>2
  <2>3. Max(B) = Len(t) + 1
    BY <2>2, MaxIs
  <2>4. StartOf(u, Len(t) + 2) = Len(t) + 2
    BY <1>0, <2>3 DEF StartOf
  <2>5. M[n + 2] = SubSeq(u, Len(t) + 2, Len(t) + 1)
    BY <1>0, <1>3, <2>1, <2>4, SplitIs
  <2> QED BY <1>0, <2>5, SubSeqEmpty
<1> QED BY <1>0, <1>4, <1>6, <1>7 DEF u

-----------------------------------------------------------------------------
(* What a session knows of the text it has read. *)
\* What the buffer holds of a line.
Held(l) == IF Len(l) >= LineLen THEN SubSeq(l, 1, LineLen - 1) ELSE l

\* The lines that tell something.
Telling(L) == {k \in DOMAIN L : (k < Len(L) \/ Len(L[k]) >= LineLen) /\ Cut(L[k]) # <<>>}
First(L, r) == r \in Telling(L) /\ \A k \in Telling(L) : r <= k

IsRequest(line) == line \in DOMAIN Requests /\ Requests[line].method \in {"GET", "HEAD"}

\* The headers after line r go on.
GoesOn(L, r) == \A k \in r + 1 .. Len(L) - 1 : Cut(L[k]) # <<>>

Agrees(s, t) ==
  LET L == Split(t)
  IN /\ s.answer # 0 => s.answer = Expected(t)
     /\ s.answer = 200 => Named(Requests[s.request].uri) \in DOMAIN Resources
     /\ s.answer = 0 =>
          /\ Expected(t) = 0 /\ s.buf = Held(L[Len(L)])
          /\ \/ s.state = "ReadRequestLine" /\ Telling(L) = {}
             \/ /\ s.state = "ReadHeaders"
                /\ \E r \in Telling(L) :
                     First(L, r) /\ s.request = Cut(L[r]) /\ IsRequest(s.request) /\ GoesOn(L, r)

Sessions ==
  [state : {"ReadRequestLine", "ReadHeaders", "WriteResponse"}, buf : Seq(Input), request : Seq(Input),
   answer : Nat]

LEMMA ExpectedNone ==
  ASSUME NEW t, Telling(Split(t)) = {}
  PROVE  Expected(t) = 0
BY DEF Expected, Telling

LEMMA ExpectedIs ==
  ASSUME NEW A, NEW t \in Seq(A), NEW r, First(Split(t), r)
  PROVE  LET L == Split(t)
             request == Cut(L[r])
         IN /\ request \notin DOMAIN Requests => Expected(t) = 400
            /\ request \in DOMAIN Requests /\ ~IsRequest(request) => Expected(t) = 501
            /\ IsRequest(request) /\ GoesOn(L, r) => Expected(t) = 0
            /\ IsRequest(request) /\ ~GoesOn(L, r) => Expected(t) = CodeOf(request)
<1> DEFINE L == Split(t)
           T == Telling(L)
<1>1. L \in Seq(Seq(A))
  BY SplitType
<1>2. T \subseteq Nat
  <2>1. DOMAIN L = 1 .. Len(L) /\ Len(L) \in Nat
    BY <1>1
  <2> QED BY <2>1 DEF Telling
<1>3. Min(T) = r /\ T # {}
  BY <1>2, MinIs DEF First
<1>4. T = {k \in DOMAIN L : (k < Len(L) \/ Len(L[k]) >= LineLen) /\ Cut(L[k]) # <<>>}
  BY DEF Telling
<1>5. Expected(t) = LET r1 == Min(T)
                        request == Cut(L[r1])
                    IN IF T = {} THEN 0
                       ELSE IF request \notin DOMAIN Requests THEN 400
                       ELSE IF Requests[request].method \notin {"GET", "HEAD"} THEN 501
                       ELSE IF \E k \in r1 + 1 .. Len(L) - 1 : Cut(L[k]) = <<>> THEN CodeOf(request)
                       ELSE 0
  BY <1>4 DEF Expected
<1> HIDE DEF T
<1>6. Expected(t) = LET request == Cut(L[r])
                    IN IF request \notin DOMAIN Requests THEN 400
                       ELSE IF Requests[request].method \notin {"GET", "HEAD"} THEN 501
                       ELSE IF \E k \in r + 1 .. Len(L) - 1 : Cut(L[k]) = <<>> THEN CodeOf(request)
                       ELSE 0
  BY <1>3, <1>5
<1> HIDE DEF L
<1>7. GoesOn(L, r) <=> ~ \E k \in r + 1 .. Len(L) - 1 : Cut(L[k]) = <<>>
  BY DEF GoesOn
<1>8. IsRequest(Cut(L[r])) <=> Cut(L[r]) \in DOMAIN Requests /\ ~(Requests[Cut(L[r])].method \notin {"GET", "HEAD"})
  BY DEF IsRequest
<1> QED BY <1>6, <1>7, <1>8 DEF L

LEMMA LineLenType == LineLen \in Nat /\ LineLen > 2
BY HttpAssumption, Zenon

\* How a line is cut.
LEMMA CutFacts ==
  ASSUME NEW l \in Seq(Input)
  PROVE  /\ Len(l) >= LineLen =>
              /\ Held(l) = Cut(l) /\ Len(Held(l)) = LineLen - 1
              /\ Held(l) # <<>> /\ StripCR(Held(l)) # <<>>
         /\ Len(l) < LineLen => Held(l) = l /\ Cut(l) = StripCR(l)
         /\ Held(l) \in Seq(Input) /\ Cut(l) \in Seq(Input) /\ StripCR(l) \in Seq(Input)
<1>0. LineLen \in Nat /\ LineLen > 2 /\ Len(l) \in Nat
  BY LineLenType
<1>1. ASSUME NEW m \in Seq(Input) PROVE StripCR(m) \in Seq(Input) /\ Len(StripCR(m)) >= Len(m) - 1
  <2>1. CASE m # <<>>
    <3>1. Len(m) \in Nat /\ Len(m) >= 1
      BY <2>1
    <3>2. \A i \in 1 .. Len(m) - 1 : m[i] \in Input
      BY <3>1
    <3>3. Front(m) \in Seq(Input) /\ Len(Front(m)) = Len(m) - 1
      <4>1. 1 \in Int /\ Len(m) - 1 \in Int
        BY <3>1
      <4>2. SubSeq(m, 1, Len(m) - 1) \in Seq(Input) /\
            Len(SubSeq(m, 1, Len(m) - 1)) = IF 1 <= Len(m) - 1 THEN Len(m) - 1 - 1 + 1 ELSE 0
        BY <4>1, <3>2, SubSeqProperties
      <4>3. Len(SubSeq(m, 1, Len(m) - 1)) = Len(m) - 1
        <5>1. CASE Len(m) = 1
          BY <4>2, <5>1
        <5>2. CASE Len(m) > 1
          <6>1. 1 <= Len(m) - 1
            BY <3>1, <5>2
          <6> QED BY <4>2, <6>1, <3>1
        <5> QED BY <3>1, <5>1, <5>2
      <4>4. Front(m) = SubSeq(m, 1, Len(m) - 1)
        BY DEF Front
      <4> QED BY <4>2, <4>3, <4>4
    <3> QED BY <3>1, <3>3 DEF StripCR
  <2>2. CASE m = <<>>
    BY <2>2 DEF StripCR
  <2> QED BY <2>1, <2>2
<1>2. CASE Len(l) >= LineLen
  <2> DEFINE h == SubSeq(l, 1, LineLen - 1)
  <2>1. \A i \in 1 .. LineLen - 1 : l[i] \in Input
    BY <1>0, <1>2
  <2>2. h \in Seq(Input) /\ Len(h) = LineLen - 1
    BY <1>0, <2>1, SubSeqProperties
  <2>3. Held(l) = h /\ Cut(l) = h
    BY <1>2 DEF Held, Cut
  <2> HIDE DEF h
  <2>4. Len(StripCR(h)) >= 1 /\ Len(h) >= 1
    BY <1>0, <1>1, <2>2
  <2>5. h # <<>> /\ StripCR(h) # <<>>
    BY <2>4
  <2> QED BY <1>0, <1>1, <1>2, <2>2, <2>3, <2>5
<1>3. CASE Len(l) < LineLen
  <2>1. Held(l) = l /\ Cut(l) = StripCR(l)
    BY <1>0, <1>3 DEF Held, Cut
  <2> QED BY <1>0, <1>1, <1>3, <2>1
<1> QED BY <1>0, <1>2, <1>3

LEMMA HeldStays ==
  ASSUME NEW l \in Seq(Input), NEW c \in Input, Len(l) >= LineLen - 1
  PROVE  /\ Held(Append(l, c)) = Held(l) /\ Cut(Append(l, c)) = Held(l) /\ Held(l) # <<>>
         /\ Len(Held(l)) = LineLen - 1 /\ Len(Append(l, c)) >= LineLen
<1>0. LineLen \in Nat /\ LineLen > 2 /\ Len(l) \in Nat
  BY LineLenType
<1>1. Append(l, c) \in Seq(Input) /\ Len(Append(l, c)) = Len(l) + 1 /\ \A i \in 1 .. Len(l) : Append(l, c)[i] = l[i]
  BY AppendProperties
<1>2. SubSeq(Append(l, c), 1, LineLen - 1) = SubSeq(l, 1, LineLen - 1)
  <2>1. LineLen - 1 \in Int /\ LineLen - 1 <= Len(l) /\ LineLen - 1 <= Len(Append(l, c))
    BY <1>0, <1>1
  <2>2. \A i \in 1 .. LineLen - 1 : Append(l, c)[i] = l[i]
    BY <1>0, <1>1
  <2> QED BY <1>1, <2>1, <2>2, SameSubSeq
<1>3. Held(l) = SubSeq(l, 1, LineLen - 1)
  <2>1. CASE Len(l) < LineLen
    <3>1. Len(l) = LineLen - 1
      BY <1>0, <2>1
    <3>2. SubSeq(l, 1, Len(l)) = l
      OBVIOUS
    <3> QED BY <2>1, <3>1, <3>2 DEF Held
  <2>2. CASE Len(l) >= LineLen
    BY <2>2 DEF Held
  <2> QED BY <1>0, <2>1, <2>2
<1>4. Len(Append(l, c)) >= LineLen
  BY <1>0, <1>1
<1>5. Held(Append(l, c)) = Held(l) /\ Cut(Append(l, c)) = Held(l)
  BY <1>2, <1>3, <1>4 DEF Held, Cut
<1> QED BY <1>1, <1>4, <1>5, CutFacts

\* What a session does with a line.
LEMMA TakeLineFacts ==
  ASSUME NEW s \in Sessions, NEW line \in Seq(Input), s.answer = 0
  PROVE  LET s1 == TakeLine(s, line)
         IN /\ s.state = "ReadRequestLine" =>
                /\ line = <<>> => s1 = s
                /\ line # <<>> /\ line \notin DOMAIN Requests => s1 \in Sessions /\ s1.answer = 400
                /\ line # <<>> /\ line \in DOMAIN Requests /\ ~IsRequest(line) => s1 \in Sessions /\ s1.answer = 501
                /\ line # <<>> /\ IsRequest(line) =>
                     /\ s1 \in Sessions /\ s1.state = "ReadHeaders" /\ s1.request = line
                     /\ s1.answer = 0 /\ s1.buf = s.buf
            /\ s.state = "ReadHeaders" =>
                /\ line = <<>> => s1 \in Sessions /\ s1.answer = CodeOf(s.request) /\ s1.request = s.request
                /\ line # <<>> => s1 = s
<1>1. ASSUME NEW code \in Nat
      PROVE  Done(s, code) \in Sessions /\ Done(s, code).answer = code /\ Done(s, code).request = s.request
  BY DEF Done, Sessions
<1>2. [s EXCEPT !.state = "ReadHeaders", !.request = line] \in Sessions
  BY DEF Sessions
<1>3. CodeOf(s.request) \in Nat
  BY DEF CodeOf
<1>4. ASSUME s.state = "ReadRequestLine", line = <<>> PROVE TakeLine(s, line) = s
  BY <1>4 DEF TakeLine
<1>5. ASSUME s.state = "ReadRequestLine", line # <<>>, line \notin DOMAIN Requests PROVE TakeLine(s, line) = Done(s, 400)
  BY <1>5 DEF TakeLine
<1>6. ASSUME s.state = "ReadRequestLine", line # <<>>, line \in DOMAIN Requests
      PROVE  TakeLine(s, line) = IF IsRequest(line) THEN [s EXCEPT !.state = "ReadHeaders", !.request = line]
                                 ELSE Done(s, 501)
  BY <1>6 DEF TakeLine, IsRequest
<1>7. ASSUME s.state = "ReadHeaders" PROVE TakeLine(s, line) = IF line = <<>> THEN Done(s, CodeOf(s.request)) ELSE s
  BY <1>7 DEF TakeLine
<1>8. s.state = "ReadRequestLine" =>
        /\ line = <<>> => TakeLine(s, line) = s
        /\ line # <<>> /\ line \notin DOMAIN Requests => TakeLine(s, line) \in Sessions /\ TakeLine(s, line).answer = 400
        /\ line # <<>> /\ line \in DOMAIN Requests /\ ~IsRequest(line) =>
             TakeLine(s, line) \in Sessions /\ TakeLine(s, line).answer = 501
  BY <1>1, <1>4, <1>5, <1>6
<1>9. ASSUME s.state = "ReadRequestLine", line # <<>>, IsRequest(line)
      PROVE  /\ TakeLine(s, line) \in Sessions /\ TakeLine(s, line).state = "ReadHeaders"
             /\ TakeLine(s, line).request = line
             /\ TakeLine(s, line).answer = 0 /\ TakeLine(s, line).buf = s.buf
  <2>1. TakeLine(s, line) = [s EXCEPT !.state = "ReadHeaders", !.request = line]
    BY <1>6, <1>9 DEF IsRequest
  <2> QED BY <1>2, <2>1 DEF Sessions
<1> QED BY <1>1, <1>3, <1>7, <1>8, <1>9

\* A line that changes nothing.
LEMMA TakeLineSame ==
  ASSUME NEW s, NEW line,
         (s.state = "ReadRequestLine" /\ line = <<>>) \/ (s.state = "ReadHeaders" /\ line # <<>>)
  PROVE  TakeLine(s, line) = s
BY DEF TakeLine

LEMMA TakeLineEnds ==
  ASSUME NEW s \in Sessions, s.state = "ReadHeaders"
  PROVE  /\ TakeLine(s, <<>>) \in Sessions
         /\ TakeLine(s, <<>>).answer = CodeOf(s.request) /\ TakeLine(s, <<>>).request = s.request
<1>1. TakeLine(s, <<>>) = Done(s, CodeOf(s.request))
  BY DEF TakeLine
<1>2. CodeOf(s.request) \in Nat
  BY DEF CodeOf
<1>3. Done(s, CodeOf(s.request)) \in Sessions
  BY <1>2 DEF Done, Sessions
<1> QED BY <1>1, <1>3 DEF Done, Sessions

\* A session that has not answered reads one more character.
LEMMA TakeCharacterAgrees ==
  ASSUME NEW t \in Seq(Input), NEW c \in Input, NEW s \in Sessions, s.answer = 0, Agrees(s, t)
  PROVE  TakeCharacter(s, c) \in Sessions /\ Agrees(TakeCharacter(s, c), Append(t, c))
<1> DEFINE L == Split(t)
           n == Len(L)
           l == L[n]
           u == Append(t, c)
           M == Split(u)
           s1 == TakeCharacter(s, c)
           line == read(s.buf, c).line
           b == read(s.buf, c).buf
<1>0. LineLen \in Nat /\ LineLen > 2
  BY LineLenType
<1>1. u \in Seq(Input)
  BY AppendProperties
<1>2. L \in Seq(Seq(Input)) /\ n \in Nat /\ n >= 1 /\ M \in Seq(Seq(Input))
  <2>1. Split(t) \in Seq(Seq(Input)) /\ Len(Split(t)) = Cardinality(LineEnds(t)) + 1 /\ Cardinality(LineEnds(t)) \in Nat
    BY SplitType
  <2>2. M \in Seq(Seq(Input))
    BY <1>1, SplitType
  <2> QED BY <2>1, <2>2
<1>3. l \in Seq(Input) /\ \A k \in 1 .. n : L[k] \in Seq(Input)
  BY <1>2
<1>4. /\ Expected(t) = 0 /\ s.buf = Held(l)
      /\ \/ s.state = "ReadRequestLine" /\ Telling(L) = {}
         \/ /\ s.state = "ReadHeaders"
            /\ \E r \in Telling(L) : First(L, r) /\ s.request = Cut(L[r]) /\ IsRequest(s.request) /\ GoesOn(L, r)
  BY DEF Agrees
<1>5. s.buf \in Seq(Input) /\ s.request \in Seq(Input) /\ s.answer = 0 /\
      s.state \in {"ReadRequestLine", "ReadHeaders", "WriteResponse"} /\
      s = [state |-> s.state, buf |-> s.buf, request |-> s.request, answer |-> s.answer]
  BY DEF Sessions
<1>6. /\ Len(l) >= LineLen =>
           /\ Held(l) = Cut(l) /\ Len(Held(l)) = LineLen - 1 /\ Held(l) # <<>> /\ StripCR(Held(l)) # <<>>
      /\ Len(l) < LineLen => Held(l) = l /\ Cut(l) = StripCR(l)
      /\ Held(l) \in Seq(Input) /\ Cut(l) \in Seq(Input) /\ StripCR(Held(l)) \in Seq(Input)
  BY <1>3, CutFacts
<1>7. Len(l) \in Nat /\ DOMAIN L = 1 .. n /\ DOMAIN M = 1 .. Len(M) /\ Len(M) \in Nat
  BY <1>2, <1>3
<1>8. \A r : CodeOf(r) \in {200, 404} /\ (CodeOf(r) = 200 => Named(Requests[r].uri) \in DOMAIN Resources)
  BY DEF CodeOf
<1>9. ASSUME s1.answer # 0, s1.answer = Expected(u),
             s1.answer = 200 => Named(Requests[s1.request].uri) \in DOMAIN Resources
      PROVE  Agrees(s1, u)
  BY <1>9 DEF Agrees
<1>10. ASSUME s1.answer = 0, Expected(u) = 0, s1.buf = Held(M[Len(M)]),
              s1.state = "ReadRequestLine", Telling(M) = {}
       PROVE  Agrees(s1, u)
  BY <1>10 DEF Agrees
<1>11. ASSUME s1.answer = 0, Expected(u) = 0, s1.buf = Held(M[Len(M)]), s1.state = "ReadHeaders",
              NEW r, First(M, r), s1.request = Cut(M[r]), IsRequest(s1.request), GoesOn(M, r)
       PROVE  Agrees(s1, u)
  BY <1>11 DEF Agrees, First
<1> DEFINE s0 == [s EXCEPT !.buf = b]
<1>12. ASSUME b \in Seq(Input)
       PROVE  /\ s0 \in Sessions /\ s0.answer = 0 /\ s0.buf = b /\ s0.state = s.state /\ s0.request = s.request
  BY <1>5, <1>12 DEF Sessions
<1> HIDE DEF L, M, u, l, n, s0, b, line
<1>13. CASE c = LF
  <2>1. b = <<>> /\ line = StripCR(Held(l)) /\ s1 = TakeLine(s0, line)
    BY <1>4, <1>13 DEF read, TakeCharacter, b, line, s0
  <2>2. Len(M) = n + 1 /\ M[n + 1] = <<>> /\ \A k \in 1 .. n : M[k] = L[k]
    BY <1>13, SplitEnd DEF L, M, n, u
  <2>3. Telling(M) = Telling(L) \cup {k \in {n} : Cut(l) # <<>>}
    <3>1. ~(Len(M[n + 1]) >= LineLen)
      BY <1>0, <2>2
    <3>2. ASSUME NEW k \in 1 .. n + 1 PROVE k \in Telling(M) <=> k \in Telling(L) \/ (k = n /\ Cut(l) # <<>>)
      <4>1. CASE k = n + 1
        BY <1>2, <1>7, <2>2, <3>1, <4>1 DEF Telling
      <4>2. CASE k = n
        BY <1>2, <1>7, <2>2, <4>2 DEF Telling, l
      <4>3. CASE k < n
        BY <1>2, <1>7, <2>2, <4>3 DEF Telling
      <4> QED BY <1>2, <4>1, <4>2, <4>3
    <3>3. Telling(M) \subseteq 1 .. n + 1 /\ Telling(L) \subseteq 1 .. n + 1 /\ n \in 1 .. n + 1
      BY <1>2, <1>7, <2>2 DEF Telling
    <3> QED BY <3>2, <3>3
  <2>4. line = <<>> <=> Cut(l) = <<>>
    BY <1>0, <1>6, <1>7, <2>1
  <2>5. Held(M[Len(M)]) = <<>>
    <3>1. ~(Len(<<>>) >= LineLen)
      BY <1>0
    <3> QED BY <2>2, <3>1 DEF Held
  <2>6. s0 \in Sessions /\ s0.answer = 0 /\ s0.buf = <<>> /\ s0.state = s.state /\ s0.request = s.request
    BY <1>12, <2>1
  <2>7. line \in Seq(Input)
    BY <1>6, <2>1
  <2>8. CASE s.state = "ReadRequestLine" /\ Telling(L) = {}
    <3>1. Len(l) < LineLen /\ line = Cut(l)
      <4>1. CASE Len(l) >= LineLen
        <5>1. n \in Telling(L)
          BY <1>2, <1>6, <1>7, <4>1 DEF Telling, l
        <5> QED BY <2>8, <5>1
      <4> QED BY <1>0, <1>6, <1>7, <2>1, <4>1
    <3>2. CASE line = <<>>
      <4>1. Telling(M) = {}
        BY <2>3, <2>4, <2>8, <3>2
      <4>2. Expected(u) = 0
        BY <4>1, ExpectedNone DEF M
      <4>3. s1 = s0
        BY <2>1, <2>6, <2>8, <3>2, TakeLineSame
      <4> QED BY <1>10, <2>5, <2>6, <2>8, <4>1, <4>2, <4>3 DEF M, u
    <3>3. CASE line # <<>>
      <4>1. First(M, n) /\ M[n] = l /\ GoesOn(M, n)
        <5>1. Telling(M) = {n}
          BY <2>3, <2>4, <2>8, <3>3
        <5> QED BY <1>2, <2>2, <5>1 DEF First, GoesOn, l
      <4>2. CASE line \notin DOMAIN Requests
        <5>1. Expected(u) = 400
          BY <1>1, <3>1, <4>1, <4>2, ExpectedIs DEF M
        <5>2. s1 \in Sessions /\ s1.answer = 400
          BY <2>1, <2>6, <2>7, <2>8, <3>3, <4>2, TakeLineFacts
        <5> QED BY <1>9, <5>1, <5>2 DEF M, u
      <4>3. CASE line \in DOMAIN Requests /\ ~IsRequest(line)
        <5>1. Expected(u) = 501
          BY <1>1, <3>1, <4>1, <4>3, ExpectedIs DEF M
        <5>2. s1 \in Sessions /\ s1.answer = 501
          BY <2>1, <2>6, <2>7, <2>8, <3>3, <4>3, TakeLineFacts
        <5> QED BY <1>9, <5>1, <5>2 DEF M, u
      <4>4. CASE IsRequest(line)
        <5>1. Expected(u) = 0
          BY <1>1, <3>1, <4>1, <4>4, ExpectedIs DEF M
        <5>2. /\ s1 \in Sessions /\ s1.state = "ReadHeaders" /\ s1.request = line
              /\ s1.answer = 0 /\ s1.buf = <<>>
          BY <2>1, <2>6, <2>7, <2>8, <3>3, <4>4, TakeLineFacts
        <5> QED BY <1>11, <2>5, <3>1, <4>1, <4>4, <5>1, <5>2 DEF M, u
      <4> QED BY <4>2, <4>3, <4>4 DEF IsRequest
    <3> QED BY <3>2, <3>3
  <2>9. CASE /\ s.state = "ReadHeaders"
             /\ \E r \in Telling(L) : First(L, r) /\ s.request = Cut(L[r]) /\ IsRequest(s.request) /\ GoesOn(L, r)
    <3>1. PICK r \in Telling(L) : First(L, r) /\ s.request = Cut(L[r]) /\ IsRequest(s.request) /\ GoesOn(L, r)
      BY <2>9
    <3>2. r \in 1 .. n /\ M[r] = L[r]
      BY <1>7, <2>2 DEF Telling
    <3>3. First(M, r)
      <4>1. r \in Telling(M) /\ \A k \in Telling(M) : k \in Telling(L) \/ k = n
        BY <2>3
      <4>2. \A k \in Telling(L) : r <= k
        BY <3>1 DEF First
      <4>3. r <= n
        BY <1>2, <3>2
      <4> QED BY <4>1, <4>2, <4>3 DEF First
    <3>4. CASE line = <<>>
      <4>1. r < n
        <5>1. Cut(L[r]) # <<>>
          BY DEF Telling
        <5> QED BY <1>2, <2>4, <3>2, <3>4, <5>1 DEF l
      <4>2. ~GoesOn(M, r)
        <5>1. n \in r + 1 .. Len(M) - 1 /\ Cut(M[n]) = <<>>
          BY <1>2, <2>2, <2>4, <3>2, <3>4, <4>1 DEF l
        <5> QED BY <5>1 DEF GoesOn
      <4>3. Expected(u) = CodeOf(s.request)
        BY <1>1, <3>1, <3>2, <3>3, <4>2, ExpectedIs DEF M
      <4>4. s1 \in Sessions /\ s1.answer = CodeOf(s.request) /\ s1.request = s.request
        BY <2>1, <2>6, <2>9, <3>4, TakeLineEnds
      <4> QED BY <1>8, <1>9, <4>3, <4>4 DEF M, u
    <3>5. CASE line # <<>>
      <4>1. GoesOn(M, r)
        <5> SUFFICES ASSUME NEW k \in r + 1 .. Len(M) - 1 PROVE Cut(M[k]) # <<>>
          BY DEF GoesOn
        <5>1. k \in 1 .. n /\ M[k] = L[k]
          BY <1>2, <2>2, <3>2
        <5>2. CASE k = n
          BY <2>4, <3>5, <5>1, <5>2 DEF l
        <5>3. CASE k # n
          <6>1. k \in r + 1 .. n - 1
            BY <1>2, <2>2, <3>2, <5>3
          <6> QED BY <3>1, <5>1, <6>1 DEF GoesOn, n
        <5> QED BY <5>2, <5>3
      <4>2. Expected(u) = 0
        BY <1>1, <3>1, <3>2, <3>3, <4>1, ExpectedIs DEF M
      <4>3. s1 = s0
        BY <2>1, <2>6, <2>9, <3>5, TakeLineSame
      <4> QED BY <1>11, <2>5, <2>6, <2>9, <3>1, <3>2, <3>3, <4>1, <4>2, <4>3 DEF M, u
    <3> QED BY <3>4, <3>5
  <2> QED BY <1>4, <2>8, <2>9
<1>14. CASE c # LF
  <2>1. Len(M) = n /\ M[n] = Append(l, c) /\ \A k \in 1 .. n - 1 : M[k] = L[k]
    BY <1>14, SplitMore DEF L, M, n, u, l
  <2>2. Append(l, c) \in Seq(Input) /\ Len(Append(l, c)) = Len(l) + 1
    BY <1>3, AppendProperties
  <2>3. CASE Len(s.buf) = LineLen - 1
    <3>1. b = s.buf /\ line = s.buf /\ s1 = TakeLine(s0, line)
      BY <1>14, <2>3 DEF read, TakeCharacter, b, line, s0
    <3>2. Len(l) >= LineLen - 1
      BY <1>0, <1>4, <1>6, <1>7, <2>3
    <3>3. /\ Held(M[n]) = line /\ Cut(M[n]) = line /\ line # <<>>
          /\ Len(M[n]) >= LineLen
      BY <1>3, <1>4, <2>1, <3>1, <3>2, HeldStays
    <3>4. Telling(M) = Telling(L) \cup {n}
      <4>1. ASSUME NEW k \in 1 .. n PROVE k \in Telling(M) <=> k \in Telling(L) \/ k = n
        <5>1. CASE k = n
          BY <1>2, <1>7, <2>1, <3>3, <5>1 DEF Telling
        <5>2. CASE k < n
          <6>1. k \in 1 .. n - 1 /\ k < Len(M) /\ k < Len(L) /\ k \in DOMAIN M /\ k \in DOMAIN L
            BY <1>2, <1>7, <2>1, <5>2 DEF n
          <6>2. M[k] = L[k]
            BY <2>1, <6>1
          <6> QED BY <5>2, <6>1, <6>2 DEF Telling
        <5> QED BY <1>2, <5>1, <5>2
      <4>2. Telling(M) \subseteq 1 .. n /\ Telling(L) \subseteq 1 .. n /\ n \in 1 .. n
        BY <1>2, <1>7, <2>1 DEF Telling
      <4> QED BY <4>1, <4>2
    <3>5. s0 \in Sessions /\ s0.answer = 0 /\ s0.buf = line /\ s0.state = s.state /\ s0.request = s.request
      BY <1>5, <1>12, <3>1
    <3>6. line \in Seq(Input)
      BY <1>5, <3>1
    <3>7. CASE s.state = "ReadRequestLine" /\ Telling(L) = {}
      <4>1. First(M, n) /\ GoesOn(M, n)
        <5>1. Telling(M) = {n}
          BY <3>4, <3>7
        <5> QED BY <1>2, <2>1, <5>1 DEF First, GoesOn
      <4>2. CASE line \notin DOMAIN Requests
        <5>1. Expected(u) = 400
          BY <1>1, <3>3, <4>1, <4>2, ExpectedIs DEF M
        <5>2. s1 \in Sessions /\ s1.answer = 400
          BY <3>1, <3>3, <3>5, <3>6, <3>7, <4>2, TakeLineFacts
        <5> QED BY <1>9, <5>1, <5>2 DEF M, u
      <4>3. CASE line \in DOMAIN Requests /\ ~IsRequest(line)
        <5>1. Expected(u) = 501
          BY <1>1, <3>3, <4>1, <4>3, ExpectedIs DEF M
        <5>2. s1 \in Sessions /\ s1.answer = 501
          BY <3>1, <3>3, <3>5, <3>6, <3>7, <4>3, TakeLineFacts
        <5> QED BY <1>9, <5>1, <5>2 DEF M, u
      <4>4. CASE IsRequest(line)
        <5>1. Expected(u) = 0
          BY <1>1, <3>3, <4>1, <4>4, ExpectedIs DEF M
        <5>2. /\ s1 \in Sessions /\ s1.state = "ReadHeaders" /\ s1.request = line
              /\ s1.answer = 0 /\ s1.buf = line
          BY <3>1, <3>3, <3>5, <3>6, <3>7, <4>4, TakeLineFacts
        <5> QED BY <1>11, <2>1, <3>3, <4>1, <4>4, <5>1, <5>2 DEF M, u
      <4> QED BY <4>2, <4>3, <4>4 DEF IsRequest
    <3>8. CASE /\ s.state = "ReadHeaders"
               /\ \E r \in Telling(L) : First(L, r) /\ s.request = Cut(L[r]) /\ IsRequest(s.request) /\ GoesOn(L, r)
      <4>1. PICK r \in Telling(L) : First(L, r) /\ s.request = Cut(L[r]) /\ IsRequest(s.request) /\ GoesOn(L, r)
        BY <3>8
      <4>2. r \in 1 .. n
        BY <1>7 DEF Telling
      <4>3. First(M, r)
        BY <1>2, <3>4, <4>1, <4>2 DEF First
      <4>4. Cut(M[r]) = Cut(L[r])
        <5>1. CASE r = n
          \* The line is too long already: what it is cut to stays.
          <6>1. Len(l) >= LineLen
            BY <1>2, <5>1 DEF Telling, l, n
          <6> QED BY <1>4, <1>6, <3>1, <3>3, <5>1, <6>1 DEF l
        <5>2. CASE r # n
          <6>1. r \in 1 .. n - 1
            BY <1>2, <4>2, <5>2
          <6> QED BY <2>1, <6>1
        <5> QED BY <5>1, <5>2
      <4>5. GoesOn(M, r)
        <5> SUFFICES ASSUME NEW k \in r + 1 .. Len(M) - 1 PROVE Cut(M[k]) # <<>>
          BY DEF GoesOn
        <5>1. k \in r + 1 .. n - 1 /\ M[k] = L[k]
          BY <1>2, <2>1, <4>2
        <5> QED BY <4>1, <5>1 DEF GoesOn, n
      <4>6. Expected(u) = 0
        BY <1>1, <4>1, <4>3, <4>4, <4>5, ExpectedIs DEF M
      <4>7. s1 = s0
        BY <3>1, <3>3, <3>5, <3>8, TakeLineSame
      <4> QED BY <1>11, <2>1, <3>3, <3>5, <3>8, <4>1, <4>3, <4>4, <4>5, <4>6, <4>7 DEF M, u
    <3> QED BY <1>4, <3>7, <3>8
  <2>4. CASE Len(s.buf) # LineLen - 1
    <3>1. b = Append(s.buf, c) /\ s1 = s0
      BY <1>14, <2>4 DEF read, TakeCharacter, b, s0
    <3>2. Len(l) < LineLen - 1 /\ s.buf = l
      BY <1>0, <1>4, <1>6, <1>7, <2>4
    <3>3. Held(M[n]) = b /\ ~(Len(M[n]) >= LineLen) /\ b \in Seq(Input)
      <4>1. Len(M[n]) < LineLen /\ M[n] \in Seq(Input) /\ b = M[n]
        BY <1>0, <1>7, <2>1, <2>2, <3>1, <3>2
      <4>2. Held(M[n]) = M[n]
        BY <4>1, CutFacts
      <4> QED BY <1>0, <2>2, <4>1, <4>2, <1>7, <2>1, <3>2
    <3>4. s0 \in Sessions /\ s0.answer = 0 /\ s0.buf = b /\ s0.state = s.state /\ s0.request = s.request
      BY <1>12, <3>3
    <3>5. Telling(M) = Telling(L)
      <4>1. ASSUME NEW k \in 1 .. n PROVE k \in Telling(M) <=> k \in Telling(L)
        <5>1. CASE k = n
          <6>1. ~(Len(L[n]) >= LineLen)
            BY <1>0, <1>7, <3>2 DEF l
          <6> QED BY <1>2, <1>7, <2>1, <3>3, <5>1, <6>1 DEF Telling, n
        <5>2. CASE k < n
          <6>1. k \in 1 .. n - 1 /\ k < Len(M) /\ k < Len(L) /\ k \in DOMAIN M /\ k \in DOMAIN L
            BY <1>2, <1>7, <2>1, <5>2 DEF n
          <6>2. M[k] = L[k]
            BY <2>1, <6>1
          <6> QED BY <5>2, <6>1, <6>2 DEF Telling
        <5> QED BY <1>2, <5>1, <5>2
      <4>2. Telling(M) \subseteq 1 .. n /\ Telling(L) \subseteq 1 .. n
        BY <1>2, <1>7, <2>1 DEF Telling
      <4> QED BY <4>1, <4>2
    <3>6. CASE s.state = "ReadRequestLine" /\ Telling(L) = {}
      <4>1. Telling(M) = {} /\ Expected(u) = 0
        BY <3>5, <3>6, ExpectedNone DEF M
      <4> QED BY <1>10, <2>1, <3>1, <3>3, <3>4, <3>6, <4>1 DEF M, u
    <3>7. CASE /\ s.state = "ReadHeaders"
               /\ \E r \in Telling(L) : First(L, r) /\ s.request = Cut(L[r]) /\ IsRequest(s.request) /\ GoesOn(L, r)
      <4>1. PICK r \in Telling(L) : First(L, r) /\ s.request = Cut(L[r]) /\ IsRequest(s.request) /\ GoesOn(L, r)
        BY <3>7
      <4>2. r \in 1 .. n - 1
        <5>1. r \in 1 .. n /\ r # n
          BY <1>0, <1>2, <1>7, <3>2 DEF Telling, n, l
        <5> QED BY <1>2, <5>1
      <4>3. First(M, r) /\ M[r] = L[r]
        BY <2>1, <3>5, <4>1, <4>2 DEF First
      <4>4. GoesOn(M, r)
        <5> SUFFICES ASSUME NEW k \in r + 1 .. Len(M) - 1 PROVE Cut(M[k]) # <<>>
          BY DEF GoesOn
        <5>1. k \in r + 1 .. n - 1 /\ M[k] = L[k]
          BY <1>2, <2>1, <4>2
        <5> QED BY <4>1, <5>1 DEF GoesOn, n
      <4>5. Expected(u) = 0
        BY <1>1, <4>1, <4>3, <4>4, ExpectedIs DEF M
      <4> QED BY <1>11, <2>1, <3>1, <3>3, <3>4, <3>7, <4>1, <4>3, <4>4, <4>5 DEF M, u
    <3> QED BY <1>4, <3>6, <3>7
  <2> QED BY <2>3, <2>4
<1> QED BY <1>13, <1>14

\* Sessions that may go on or have answered.
Live == {s \in Sessions : s.answer = 0 => s.state \in {"ReadRequestLine", "ReadHeaders"}}

LEMMA ReadType ==
  ASSUME NEW buf \in Seq(Input), NEW c \in Input
  PROVE  read(buf, c).buf \in Seq(Input) /\ read(buf, c).line \in Seq(Input)
<1>1. StripCR(buf) \in Seq(Input)
  BY CutFacts
<1>2. Append(buf, c) \in Seq(Input) /\ <<>> \in Seq(Input)
  OBVIOUS
<1>3. CASE c = LF
  BY <1>1, <1>2, <1>3 DEF read
<1>4. CASE c # LF /\ Len(buf) = LineLen - 1
  BY <1>4 DEF read
<1>5. CASE c # LF /\ Len(buf) # LineLen - 1
  BY <1>2, <1>5 DEF read
<1> QED BY <1>3, <1>4, <1>5

LEMMA TakeCharacterType ==
  ASSUME NEW s \in Live, NEW c \in Input, s.answer = 0
  PROVE  TakeCharacter(s, c) \in Live
<1> DEFINE line == read(s.buf, c).line
           b == read(s.buf, c).buf
           s0 == [s EXCEPT !.buf = b]
<1>1. /\ s \in Sessions /\ s.buf \in Seq(Input) /\ s.request \in Seq(Input)
      /\ s.state \in {"ReadRequestLine", "ReadHeaders"}
  BY DEF Live, Sessions
<1>2. b \in Seq(Input) /\ line \in Seq(Input)
  BY <1>1, ReadType
<1>3. s0 \in Sessions /\ s0.answer = 0 /\ s0.state = s.state
  BY <1>1, <1>2 DEF Sessions
<1>4. s0 \in Live
  BY <1>1, <1>3 DEF Live
<1>5. TakeCharacter(s, c) = TakeLine(s0, line) \/ TakeCharacter(s, c) = s0
  BY DEF TakeCharacter
<1> HIDE DEF s0, b, line
<1>6. TakeLine(s0, line) \in Live
  <2>1. CASE (s0.state = "ReadRequestLine" /\ line = <<>>) \/ (s0.state = "ReadHeaders" /\ line # <<>>)
    <3>1. TakeLine(s0, line) = s0
      BY <2>1, TakeLineSame
    <3> QED BY <1>4, <3>1
  <2>2. CASE s0.state = "ReadRequestLine" /\ line # <<>>
    <3>1. TakeLine(s0, line) \in Sessions /\
          (TakeLine(s0, line).answer \in {400, 501} \/ TakeLine(s0, line).state = "ReadHeaders")
      BY <1>2, <1>3, <2>2, TakeLineFacts DEF IsRequest
    <3> QED BY <3>1 DEF Live
  <2>3. CASE s0.state = "ReadHeaders" /\ line = <<>>
    <3>1. TakeLine(s0, line) \in Sessions /\ TakeLine(s0, line).answer = CodeOf(s0.request)
      BY <1>3, <2>3, TakeLineEnds
    <3>2. CodeOf(s0.request) # 0
      BY DEF CodeOf
    <3> QED BY <3>1, <3>2 DEF Live
  <2> QED BY <1>1, <1>3, <2>1, <2>2, <2>3
<1> QED BY <1>4, <1>5, <1>6

-----------------------------------------------------------------------------
(* A call with several characters. *)
After == [session : Live, rest : Seq(Input)]
TurnOf(t, c) ==
  IF t.session.answer # 0 THEN [session |-> t.session, rest |-> Append(t.rest, c)]
  ELSE [session |-> TakeCharacter(t.session, c), rest |-> t.rest]

LEMMA AfterEachFollows ==
  ASSUME NEW s \in Live, NEW input \in Seq(Input), NEW n \in Nat, n = Len(input)
  PROVE  /\ \A k \in 0 .. n : AfterEach(s, input)[k] \in After
         /\ AfterEach(s, input)[0] = [session |-> s, rest |-> <<>>]
         /\ \A k \in 1 .. n : AfterEach(s, input)[k] = TurnOf(AfterEach(s, input)[k - 1], input[k])
<1> DEFINE d == [session |-> s, rest |-> <<>>]
           Is(g) == g = [k \in 0 .. n |-> IF k = 0 THEN d ELSE TurnOf(g[k - 1], input[k])]
           step == [k \in Nat |-> [m \in After |-> IF k \in 1 .. n THEN TurnOf(m, input[k]) ELSE m]]
<1>1. d \in After
  BY DEF After
<1>2. ASSUME NEW k \in 1 .. n, NEW m \in After PROVE TurnOf(m, input[k]) \in After
  <2>1. input[k] \in Input /\ m.session \in Live /\ m.rest \in Seq(Input)
    BY DEF After
  <2>2. Append(m.rest, input[k]) \in Seq(Input)
    BY <2>1
  <2>3. m.session.answer = 0 => TakeCharacter(m.session, input[k]) \in Live
    BY <2>1, TakeCharacterType
  <2> QED BY <2>1, <2>2, <2>3 DEF After, TurnOf
<1> HIDE DEF d
<1>3. step \in [Nat -> [After -> After]]
  BY <1>2
<1>4. \A k \in 1 .. n, m \in After : step[k][m] = TurnOf(m, input[k])
  OBVIOUS
<1> HIDE DEF step
<1>5. PICK f \in [Nat -> After] : FollowsOn(f, d, step)
  BY <1>1, <1>3, Recursion
<1> DEFINE h == [k \in 0 .. n |-> f[k]]
<1>6. ASSUME NEW k \in 0 .. n
      PROVE h[k] = IF k = 0 THEN d ELSE TurnOf(h[k - 1], input[k])
  <2>1. CASE k # 0
    <3>1. k \in 1 .. n /\ k \in Nat \ {0} /\ k - 1 \in 0 .. n /\ k - 1 \in Nat
      BY <2>1
    <3>2. f[k] = step[k][f[k - 1]] /\ f[k - 1] \in After
      BY <1>5, <3>1 DEF FollowsOn
    <3>3. h[k] = f[k] /\ h[k - 1] = f[k - 1]
      BY <3>1
    <3> HIDE DEF h
    <3> QED BY <1>4, <2>1, <3>1, <3>2, <3>3
  <2>2. CASE k = 0
    BY <1>5, <2>2 DEF FollowsOn
  <2> QED BY <2>1, <2>2
<1>7. h = [k \in 0 .. n |-> h[k]]
  OBVIOUS
<1> HIDE DEF h
<1>8. Is(h)
  BY <1>6, <1>7
<1> DEFINE g == CHOOSE g : Is(g)
<1>9. Is(g)
  BY <1>8
<1>10. AfterEach(s, input) = g
  BY DEF AfterEach, TurnOf, d
<1> HIDE DEF g
<1>11. g[0] = d /\ \A k \in 1 .. n : g[k] = TurnOf(g[k - 1], input[k])
  BY <1>9
<1> DEFINE S == {k \in Nat : k <= n => g[k] \in After}
<1>12. 0 \in S
  BY <1>1, <1>11
<1>13. ASSUME NEW k \in Nat, k \in S PROVE k + 1 \in S
  <2>1. SUFFICES ASSUME k + 1 <= n PROVE g[k + 1] \in After
    OBVIOUS
  <2>2. k + 1 \in 1 .. n /\ g[k] \in After
    BY <1>13, <2>1
  <2>3. g[k + 1] = TurnOf(g[k], input[k + 1])
    BY <1>11, <2>2
  <2> QED BY <1>2, <2>2, <2>3
<1>14. \A k \in Nat : k \in S
  BY <1>12, <1>13, NatInd
<1> QED BY <1>10, <1>11, <1>14 DEF d

LEMMA AppendAfter ==
  ASSUME NEW a \in Seq(Input), NEW b \in Seq(Input), NEW c \in Input
  PROVE  a \o Append(b, c) = Append(a \o b, c)
<1>1. Append(b, c) = b \o <<c>> /\ Append(a \o b, c) = (a \o b) \o <<c>>
  <2>1. a \o b \in Seq(Input)
    BY ConcatProperties
  <2> QED BY <2>1, AppendIsConcat
<1>2. <<c>> \in Seq(Input)
  OBVIOUS
<1> QED BY <1>1, <1>2, ConcatAssociative

\* What a call has read of the input agrees with the session, and nothing is
\* left but after an answer.
LEMMA CallAgrees ==
  ASSUME NEW s \in Live, NEW text \in Seq(Input), Agrees(s, text), NEW input \in Seq(Input)
  PROVE  LET after == processHTTP(s, input)
         IN /\ after.session \in Live /\ after.rest \in Seq(Input)
            /\ \E p \in Seq(Input) :
                 /\ p \o after.rest = input
                 /\ Agrees(after.session, text \o p)
            /\ after.rest # <<>> => after.session.answer # 0
<1> DEFINE n == Len(input)
           A == AfterEach(s, input)
           GoodSoFar(t, k) ==
             /\ \E p \in Seq(Input) : p \o t.rest = SubSeq(input, 1, k) /\ Agrees(t.session, text \o p)
             /\ t.rest # <<>> => t.session.answer # 0
<1>1. n \in Nat
  OBVIOUS
<1>2. /\ \A k \in 0 .. n : A[k] \in After
      /\ A[0] = [session |-> s, rest |-> <<>>]
      /\ \A k \in 1 .. n : A[k] = TurnOf(A[k - 1], input[k])
  BY <1>1, AfterEachFollows
<1> HIDE DEF A
<1> DEFINE S == {k \in Nat : k <= n => GoodSoFar(A[k], k)}
<1>3. 0 \in S
  <2>1. <<>> \in Seq(Input) /\ text \o <<>> = text /\ <<>> \o <<>> = <<>> /\ SubSeq(input, 1, 0) = <<>>
    OBVIOUS
  <2>2. A[0].rest = <<>> /\ A[0].session = s
    BY <1>2
  <2> QED BY <2>1, <2>2
<1>4. ASSUME NEW k \in Nat, k \in S PROVE k + 1 \in S
  <2> HIDE DEF GoodSoFar
  <2> SUFFICES ASSUME k + 1 <= n PROVE GoodSoFar(A[k + 1], k + 1)
    OBVIOUS
  <2> DEFINE c == input[k + 1]
             t == A[k]
  <2>1. k \in 0 .. n /\ k + 1 \in 1 .. n /\ (k + 1) - 1 = k
    BY <1>1
  <2>2. c \in Input /\ t \in After /\ A[k + 1] = TurnOf(t, c)
    BY <1>2, <2>1
  <2>3. t.rest \in Seq(Input) /\ t.session \in Live /\ t.session \in Sessions
    BY <2>2 DEF After, Live
  <2>4. GoodSoFar(t, k)
    BY <1>4, <2>1
  <2>5. PICK p \in Seq(Input) : p \o t.rest = SubSeq(input, 1, k) /\ Agrees(t.session, text \o p)
    BY <2>4 DEF GoodSoFar
  <2>6. Append(p \o t.rest, c) = SubSeq(input, 1, k + 1)
    <3>1. SubSeq(input, 1, k + 1) = SubSeq(input, 1, k) \o <<c>>
      BY <2>1, SubSeqRecursiveSecond
    <3>2. p \o t.rest \in Seq(Input)
      BY <2>3, ConcatProperties
    <3> QED BY <2>2, <2>5, <3>1, <3>2, AppendIsConcat
  <2> HIDE DEF t, c
  <2>7. CASE t.session.answer # 0
    <3>1. A[k + 1].session = t.session /\ A[k + 1].rest = Append(t.rest, c)
      BY <2>2, <2>7 DEF TurnOf
    <3>2. p \o Append(t.rest, c) = SubSeq(input, 1, k + 1)
      BY <2>2, <2>3, <2>6, AppendAfter
    <3> QED BY <2>5, <2>7, <3>1, <3>2 DEF GoodSoFar
  <2>8. CASE t.session.answer = 0
    <3>1. A[k + 1].session = TakeCharacter(t.session, c) /\ A[k + 1].rest = t.rest /\ t.rest = <<>>
      BY <2>2, <2>4, <2>8 DEF TurnOf, GoodSoFar
    <3>2. text \o p \in Seq(Input) /\ Append(p, c) \in Seq(Input)
      BY <2>2, ConcatProperties, AppendProperties
    <3>3. Agrees(TakeCharacter(t.session, c), Append(text \o p, c))
      BY <2>2, <2>3, <2>5, <2>8, <3>2, TakeCharacterAgrees
    <3>4. Append(text \o p, c) = text \o Append(p, c)
      BY <2>2, AppendAfter
    <3>5. p \o <<>> = p /\ Append(p, c) \o <<>> = Append(p, c)
      BY <3>2, ConcatEmptySeq
    <3>6. Append(p, c) \o A[k + 1].rest = SubSeq(input, 1, k + 1)
      BY <2>6, <3>1, <3>5
    <3> QED BY <3>1, <3>2, <3>3, <3>4, <3>6 DEF GoodSoFar
  <2> QED BY <2>7, <2>8
<1> HIDE DEF GoodSoFar
<1>5. \A k \in Nat : k \in S
  BY <1>3, <1>4, NatInd
<1>6. GoodSoFar(A[n], n) /\ A[n] \in After
  BY <1>1, <1>2, <1>5
<1>7. SubSeq(input, 1, n) = input
  BY SubSeqFull
<1> QED BY <1>6, <1>7 DEF GoodSoFar, A, After, processHTTP

-----------------------------------------------------------------------------
(* A page: what is copied of it is what its author means.                  *)
Values(S) == S \cup UNION {Range(substitute(v)) : v \in DOMAIN VarNames}
SizesAt(text, i) == {n \in 1 .. Len(text) - i + 1 : SubSeq(text, i, i + n - 1) \in DOMAIN VarNames}
PageAt(g, text, i) ==
  IF i > Len(text) THEN <<>>
  ELSE IF SizesAt(text, i) = {} THEN <<text[i]>> \o g[i + 1]
  ELSE substitute(SubSeq(text, i, i + Min(SizesAt(text, i)) - 1)) \o g[i + Min(SizesAt(text, i))]
IsPageOf(g, text) == g = [i \in 1 .. Len(text) + 1 |-> PageAt(g, text, i)]

Paged(S, text, page) ==
  \A i \in 1 .. Len(text) + 1 : page[i] \in Seq(Values(S)) /\ page[i] = PageAt(page, text, i)
Plain(text, i, e) == \A j \in i .. e : SizesAt(text, j) = {}

LEMMA VarNameFacts ==
  /\ MaxVarName \in Nat /\ Server.name \in Seq(Range(Server.name))
  /\ \A v \in DOMAIN VarNames :
       /\ v[1] = Dollar /\ Len(v) <= MaxVarName
       /\ VarNames[v] \in {"DOLLAR", "PORT", "WIDTH", "APPLETWIDTH", "HEIGHT", "APPLETHEIGHT", "DESKTOP"}
BY HttpAssumption, Zenon

\* Values are sequences.
LEMMA SubstituteType ==
  ASSUME NEW S, NEW v \in DOMAIN VarNames
  PROVE  substitute(v) \in Seq(Values(S))
<1>1. ASSUME NEW n PROVE Decimal(n) \in Seq(Range(Decimal(n)))
  <2> DEFINE size == Max({k \in 1 .. 5 : k = 1 \/ n >= 10 ^ (k - 1)})
             digit(i) == (n \div 10 ^ (size - i)) % 10
             d == [i \in 1 .. size |-> digit(i)]
  <2>1. size \in Nat
    <3> DEFINE B == {k \in 1 .. 5 : k = 1 \/ n >= 10 ^ (k - 1)}
    <3>1. B \subseteq 0 .. 5 /\ 1 \in B
      OBVIOUS
    <3> HIDE DEF B
    <3>2. Max(B) \in B
      BY <3>1, MaxFacts
    <3>3. \A x \in B : x \in Nat
      BY <3>1
    <3>4. Max(B) \in Nat
      BY <3>2, <3>3, Zenon
    <3> QED BY <3>4 DEF B
  <2>2. Decimal(n) = d
    BY DEF Decimal
  <2> HIDE DEF size, digit
  <2>3. d \in Seq(Range(d))
    <3>1. \A i \in 1 .. size : digit(i) \in Range(d)
      BY DEF Range
    <3> HIDE DEF d
    <3>2. d = [i \in 1 .. size |-> digit(i)]
      BY DEF d
    <3> DEFINE R == Range(d)
    <3> HIDE DEF R
    <3>3. [i \in 1 .. size |-> digit(i)] \in Seq(R)
      BY <2>1, <3>1 DEF R
    <3> QED BY <3>2, <3>3 DEF R
  <2> QED BY <2>2, <2>3
<1>2. <<Dollar>> \in Seq(Range(<<Dollar>>))
  <2>1. <<Dollar>>[1] = Dollar /\ 1 \in DOMAIN <<Dollar>>
    OBVIOUS
  <2>2. Dollar \in Range(<<Dollar>>)
    BY <2>1 DEF Range
  <2> QED BY <2>2
<1>3. substitute(v) \in {<<Dollar>>, Decimal(Server.rfbPort), Decimal(Server.width), Decimal(Server.height),
                         Decimal(Server.height + 32), Server.name}
  BY VarNameFacts DEF substitute
<1>4. substitute(v) \in Seq(Range(substitute(v)))
  BY <1>1, <1>2, <1>3, VarNameFacts
<1>5. Range(substitute(v)) \subseteq Values(S)
  BY DEF Values
<1> QED BY <1>4, <1>5

\* Where a variable begins there is a dollar.
LEMMA SizesFacts ==
  ASSUME NEW S, NEW text \in Seq(S), NEW i \in 1 .. Len(text)
  PROVE  /\ SizesAt(text, i) # {} => text[i] = Dollar
         /\ SizesAt(text, i) # {} =>
              /\ Min(SizesAt(text, i)) \in 1 .. Len(text) - i + 1
              /\ SubSeq(text, i, i + Min(SizesAt(text, i)) - 1) \in DOMAIN VarNames
         /\ \A n \in SizesAt(text, i) : n <= MaxVarName
<1>0. Len(text) \in Nat /\ i \in Nat
  OBVIOUS
<1>1. ASSUME NEW n \in SizesAt(text, i) PROVE text[i] = Dollar /\ n <= MaxVarName
  <2>1. n \in 1 .. Len(text) - i + 1 /\ SubSeq(text, i, i + n - 1) \in DOMAIN VarNames
    BY DEF SizesAt
  <2>2. \A j \in i .. i + n - 1 : text[j] \in S
    BY <1>0, <2>1
  <2>3. i \in Int /\ i + n - 1 \in Int /\ i <= i + n - 1 /\ 1 \in 1 .. i + n - 1 - i + 1
    BY <1>0, <2>1
  <2> DEFINE e == i + n - 1
             v == SubSeq(text, i, e)
  <2>4. e - i + 1 = n /\ i + 1 - 1 = i /\ n \in Nat /\ i <= e /\ i \in Int /\ e \in Int
    BY <1>0, <2>1
  <2> HIDE DEF e
  <2>5. /\ Len(v) = IF i <= e THEN e - i + 1 ELSE 0
        /\ \A j \in 1 .. e - i + 1 : v[j] = text[i + j - 1]
    BY <2>2, <2>4, SubSeqProperties DEF e
  <2> HIDE DEF v
  <2>6. Len(v) = n /\ v[1] = text[i]
    <3>1. 1 \in 1 .. e - i + 1
      BY <2>1, <2>4
    <3>2. v[1] = text[i + 1 - 1]
      BY <2>5, <3>1
    <3> QED BY <2>5, <2>4, <3>2
  <2>7. v \in DOMAIN VarNames
    BY <2>1 DEF v, e
  <2> QED BY <2>6, <2>7, VarNameFacts
<1>2. ASSUME SizesAt(text, i) # {}
      PROVE  Min(SizesAt(text, i)) \in SizesAt(text, i)
  <2>1. SizesAt(text, i) \subseteq Nat
    BY <1>0 DEF SizesAt
  <2> QED BY <1>2, <2>1, MinFacts
<1> QED BY <1>1, <1>2 DEF SizesAt

LEMMA PageAtType ==
  ASSUME NEW S, NEW text \in Seq(S), NEW i \in 1 .. Len(text), NEW g,
         \A j \in i + 1 .. Len(text) + 1 : g[j] \in Seq(Values(S))
  PROVE  PageAt(g, text, i) \in Seq(Values(S))
<1> DEFINE L == Len(text)
           V == Values(S)
           x == PageAt(g, text, i)
<1>0. L \in Nat /\ i \in Nat /\ i <= L /\ text[i] \in V
  BY DEF Values
<1> HIDE DEF V, x
<1>1. CASE SizesAt(text, i) = {}
  <2>1. x = <<text[i]>> \o g[i + 1]
    BY <1>0, <1>1 DEF PageAt, x
  <2>2. <<text[i]>> \in Seq(V) /\ g[i + 1] \in Seq(V)
    BY <1>0 DEF V
  <2> QED BY <2>1, <2>2, ConcatProperties DEF V, x
<1>2. CASE SizesAt(text, i) # {}
  <2> DEFINE n == Min(SizesAt(text, i))
             v == SubSeq(text, i, i + n - 1)
  <2>1. x = substitute(v) \o g[i + n]
    <3>1. ~(i > Len(text)) /\ ~(SizesAt(text, i) = {})
      BY <1>0, <1>2
    <3> QED BY <3>1 DEF PageAt, x
  <2>2. n \in 1 .. L - i + 1 /\ v \in DOMAIN VarNames
    BY <1>2, SizesFacts
  <2> HIDE DEF n, v
  <2>3. g[i + n] \in Seq(V)
    BY <1>0, <2>2 DEF V
  <2>4. substitute(v) \in Seq(V)
    BY <2>2, SubstituteType DEF V
  <2> QED BY <2>1, <2>3, <2>4, ConcatProperties DEF V, x
<1> QED BY <1>1, <1>2

LEMMA PageExists ==
  ASSUME NEW S, NEW text \in Seq(S)
  PROVE  \E g \in [1 .. Len(text) + 1 -> Seq(Values(S))] : IsPageOf(g, text)
<1> DEFINE L == Len(text)
           V == Values(S)
           From(m) == L + 1 - m .. L + 1
           S1 == {m \in Nat : m <= L => \E g \in [From(m) -> Seq(V)] : \A i \in From(m) : g[i] = PageAt(g, text, i)}
<1>0. L \in Nat /\ S \subseteq V /\ \A i \in 1 .. L : text[i] \in V
  BY DEF Values
<1> HIDE DEF V
<1>1. 0 \in S1
  <2> DEFINE g == [i \in From(0) |-> <<>>]
  <2>1. g \in [From(0) -> Seq(V)] /\ \A i \in From(0) : i > Len(text) /\ g[i] = <<>>
    BY <1>0
  <2> QED BY <2>1 DEF PageAt
<1>2. ASSUME NEW m \in Nat, m \in S1 PROVE m + 1 \in S1
  <2> SUFFICES ASSUME m + 1 <= L
               PROVE  \E g \in [From(m + 1) -> Seq(V)] : \A i \in From(m + 1) : g[i] = PageAt(g, text, i)
    OBVIOUS
  <2>1. PICK g \in [From(m) -> Seq(V)] : \A i \in From(m) : g[i] = PageAt(g, text, i)
    BY <1>0, <1>2
  <2> DEFINE i == L - m
             x == PageAt(g, text, i)
             h == [j \in From(m + 1) |-> IF j = i THEN x ELSE g[j]]
  <2>2. i \in 1 .. L /\ From(m + 1) = From(m) \cup {i} /\ i \notin From(m) /\ i + 1 \in From(m)
    BY <1>0
  <2>3. ASSUME NEW j \in From(m + 1), j <= L
        PROVE  /\ j + 1 \in From(m) /\ (SizesAt(text, j) # {} => j + Min(SizesAt(text, j)) \in From(m))
               /\ j \in 1 .. L
    <3>1. j \in 1 .. L
      BY <1>0, <2>3
    <3>2. SizesAt(text, j) # {} => Min(SizesAt(text, j)) \in 1 .. L - j + 1
      BY <3>1, SizesFacts
    <3> QED BY <1>0, <2>3, <3>1, <3>2
  <2> HIDE DEF i
  <2>4. x \in Seq(V)
    <3>1. \A j \in i + 1 .. Len(text) + 1 : g[j] \in Seq(V)
      BY <1>0, <2>2 DEF i
    <3> QED BY <2>2, <3>1, PageAtType DEF V
  <2> HIDE DEF x
  <2>5. h \in [From(m + 1) -> Seq(V)] /\ h[i] = x /\ \A j \in From(m) : h[j] = g[j]
    BY <2>2, <2>4
  <2> HIDE DEF h
  <2>6. ASSUME NEW j \in From(m + 1) PROVE PageAt(h, text, j) = PageAt(g, text, j)
    <3>1. CASE j <= L
      <4>1. h[j + 1] = g[j + 1]
            /\ (SizesAt(text, j) # {} => h[j + Min(SizesAt(text, j))] = g[j + Min(SizesAt(text, j))])
        BY <2>3, <2>5, <3>1
      <4> QED BY <4>1 DEF PageAt
    <3>2. CASE ~(j <= L)
      BY <1>0, <3>2 DEF PageAt
    <3> QED BY <3>1, <3>2
  <2>7. ASSUME NEW j \in From(m + 1) PROVE h[j] = PageAt(h, text, j)
    BY <2>1, <2>2, <2>5, <2>6 DEF x
  <2> QED BY <2>5, <2>7
<1>3. \A m \in Nat : m \in S1
  <2> HIDE DEF S1
  <2> QED BY <1>1, <1>2, NatInd
<1>5. From(L) = 1 .. Len(text) + 1
  BY <1>0
<1> HIDE DEF From
<1>4. PICK g \in [From(L) -> Seq(V)] : \A i \in From(L) : g[i] = PageAt(g, text, i)
  <2>1. L \in S1 /\ L <= L
    BY <1>0, <1>3
  <2> HIDE DEF L
  <2> QED BY <2>1
<1>6. g = [i \in 1 .. Len(text) + 1 |-> PageAt(g, text, i)]
  BY <1>4, <1>5
<1> QED BY <1>4, <1>5, <1>6 DEF IsPageOf, V

\* PageFrom's page, its parts sequences.
LEMMA PageFacts ==
  ASSUME NEW S, NEW text \in Seq(S)
  PROVE  \E page : PageFrom(text) = page[1] /\ Paged(S, text, page)
<1> DEFINE L == Len(text)
           page == CHOOSE g : IsPageOf(g, text)
<1>0. L \in Nat
  OBVIOUS
<1>1. IsPageOf(page, text)
  BY PageExists
<1>2. PageFrom(text) = page[1]
  BY DEF PageFrom, IsPageOf, PageAt, SizesAt
<1> HIDE DEF page
<1>3. ASSUME NEW i \in 1 .. L + 1 PROVE page[i] = PageAt(page, text, i)
  BY <1>1 DEF IsPageOf
<1> DEFINE S1 == {m \in Nat : m <= L => \A i \in L + 1 - m .. L + 1 : page[i] \in Seq(Values(S))}
<1>4. 0 \in S1
  <2>1. page[L + 1] \in Seq(Values(S))
    <3>1. L + 1 > L /\ L + 1 \in 1 .. L + 1
      BY <1>0
    <3>2. page[L + 1] = <<>>
      BY <1>3, <3>1 DEF PageAt
    <3> QED BY <3>2
  <2>2. \A i \in L + 1 - 0 .. L + 1 : i = L + 1
    BY <1>0
  <2> QED BY <2>1, <2>2
<1>5. ASSUME NEW m \in Nat, m \in S1 PROVE m + 1 \in S1
  <2> SUFFICES ASSUME m + 1 <= L, NEW i \in L + 1 - (m + 1) .. L + 1 PROVE page[i] \in Seq(Values(S))
    OBVIOUS
  <2>1. CASE i = L - m
    <3>1. i \in 1 .. L /\ i \in 1 .. L + 1
      BY <1>0, <2>1
    <3>2. \A j \in i + 1 .. L + 1 : page[j] \in Seq(Values(S))
      BY <1>0, <1>5, <2>1
    <3> QED BY <1>3, <3>1, <3>2, PageAtType
  <2>2. CASE i # L - m
    <3>1. i \in L + 1 - m .. L + 1 /\ m <= L
      BY <1>0, <2>2
    <3> QED BY <1>5, <3>1
  <2> QED BY <2>1, <2>2
<1>6. \A m \in Nat : m \in S1
  <2> HIDE DEF S1
  <2> QED BY <1>4, <1>5, NatInd
<1>7. \A i \in 1 .. L + 1 : page[i] \in Seq(Values(S))
  <2>1. CASE L = 0
    <3>1. 0 \in S1
      BY <1>6
    <3>2. \A i \in 1 .. L + 1 : i \in L + 1 - 0 .. L + 1
      BY <1>0, <2>1
    <3> QED BY <1>0, <3>1, <3>2
  <2>2. L \in S1
    BY <1>0, <1>6
  <2>3. \A i \in 1 .. L + 1 : i \in L + 1 - L .. L + 1
    BY <1>0
  <2>4. L <= L
    BY <1>0
  <2> HIDE DEF L
  <2> QED BY <2>2, <2>3, <2>4
<1> QED BY <1>2, <1>3, <1>7 DEF Paged

\* Where no variable begins a page is the text.
LEMMA PlainText ==
  ASSUME NEW S, NEW text \in Seq(S), NEW page,
         Paged(S, text, page),
         NEW i \in 1 .. Len(text), NEW e \in i .. Len(text), Plain(text, i, e)
  PROVE  page[i] = SubSeq(text, i, e) \o page[e + 1]
<1> DEFINE L == Len(text)
           V == Values(S)
           S1 == {d \in Nat : i + d <= e => page[i] = SubSeq(text, i, i + d) \o page[i + d + 1]}
<1>0. L \in Nat /\ i \in Nat /\ e \in Nat /\ i <= e /\ e <= L /\ text \in Seq(V)
  BY DEF Values
<1>1. ASSUME NEW j \in i .. e PROVE page[j] = <<text[j]>> \o page[j + 1] /\ <<text[j]>> \in Seq(V) /\ page[j + 1] \in Seq(V)
  <2>1. j \in 1 .. L /\ j + 1 \in 1 .. L + 1 /\ ~(j > L) /\ j \in 1 .. L + 1
    BY <1>0
  <2>2. page[j] = PageAt(page, text, j) /\ page[j + 1] \in Seq(V)
    BY <2>1 DEF Paged
  <2>3. PageAt(page, text, j) = <<text[j]>> \o page[j + 1]
    BY <2>1 DEF PageAt, Plain
  <2>4. <<text[j]>> \in Seq(V)
    BY <1>0, <2>1
  <2> QED BY <2>2, <2>3, <2>4
<1> HIDE DEF V
<1>2. 0 \in S1
  <2>1. SubSeq(text, i, i) = <<text[i]>> \o SubSeq(text, i + 1, i)
    BY <1>0, SubSeqRecursiveFirst
  <2>2. SubSeq(text, i + 1, i) = <<>>
    BY <1>0, SubSeqEmpty
  <2>3. i \in i .. e /\ i + 0 = i /\ i + 0 + 1 = i + 1
    BY <1>0
  <2>4. <<text[i]>> \o <<>> = <<text[i]>>
    BY <1>1, <2>3, ConcatEmptySeq
  <2>5. page[i] = SubSeq(text, i, i) \o page[i + 1]
    BY <1>1, <2>1, <2>2, <2>3, <2>4
  <2> QED BY <2>3, <2>5
<1>3. ASSUME NEW d \in Nat, d \in S1 PROVE d + 1 \in S1
  <2> DEFINE j == i + d + 1
  <2> SUFFICES ASSUME i + (d + 1) <= e PROVE page[i] = SubSeq(text, i, j) \o page[j + 1]
    <3>1. i + (d + 1) = j /\ i + (d + 1) + 1 = j + 1 /\ d + 1 \in Nat
      BY <1>0
    <3> HIDE DEF j
    <3> QED BY <3>1
  <2>1. j \in i .. e /\ j \in i .. L /\ j - 1 = i + d /\ i + d <= e /\ i + d \in i .. L
    BY <1>0
  <2>2. page[i] = SubSeq(text, i, j - 1) \o page[j]
    BY <1>3, <2>1
  <2>3. page[j] = <<text[j]>> \o page[j + 1] /\ <<text[j]>> \in Seq(V) /\ page[j + 1] \in Seq(V)
    BY <1>1, <2>1
  <2>4. SubSeq(text, i, j) = SubSeq(text, i, j - 1) \o <<text[j]>>
    BY <1>0, <2>1, SubSeqRecursiveSecond
  <2>5. SubSeq(text, i, j - 1) \in Seq(V)
    <3>1. i \in Int /\ j - 1 \in Int /\ \A k \in i .. j - 1 : text[k] \in V
      BY <1>0, <2>1
    <3> QED BY <3>1, SubSeqProperties
  <2> HIDE DEF j
  <2> DEFINE a == SubSeq(text, i, j - 1)
             b == <<text[j]>>
  <2>6. a \in Seq(V) /\ b \in Seq(V)
    BY <2>3, <2>5, Zenon
  <2> HIDE DEF a, b
  <2>7. (a \o b) \o page[j + 1] = a \o (b \o page[j + 1])
    <3>1. \A x, y, z \in Seq(V) : (x \o y) \o z = x \o (y \o z)
      BY ConcatAssociative
    <3>2. page[j + 1] \in Seq(V)
      BY <2>3, Zenon
    <3> QED BY <2>6, <3>1, <3>2, Zenon
  <2> QED BY <2>2, <2>3, <2>4, <2>7 DEF a, b
<1>4. \A d \in Nat : d \in S1
  <2> HIDE DEF S1
  <2> QED BY <1>2, <1>3, NatInd
<1>5. e - i \in Nat /\ i + (e - i) = e /\ e <= e
  BY <1>0
<1> DEFINE d == e - i
<1>6. d \in S1 /\ i + d = e /\ i + d + 1 = e + 1 /\ i + d <= e
  BY <1>0, <1>4, <1>5
<1> HIDE DEF d
<1> QED BY <1>6

\* A turn of the copying: what is given stands for as much of the page as is
\* taken.
LEMMA OverrunIsPage ==
  ASSUME NEW S, NEW text \in Seq(S), NEW page,
         Paged(S, text, page),
         NEW i \in 1 .. Len(text)
  PROVE  LET o == overrun(SubSeq(text, i, Len(text)))
         IN /\ o.taken \in 1 .. Len(text) - i + 1 /\ o.text \in Seq(Values(S))
            /\ page[i] = o.text \o page[i + o.taken]
<1> DEFINE L == Len(text)
           V == Values(S)
           rest == SubSeq(text, i, L)
           size == L - i + 1
           names == {n \in 1 .. Min({MaxVarName, Len(rest)}) : SubSeq(rest, 1, n) \in DOMAIN VarNames}
           dollars == {j \in 2 .. Len(rest) : rest[j] = Dollar}
           upTo == IF dollars = {} THEN Len(rest) ELSE Min(dollars) - 1
           o == overrun(rest)
<1>0. L \in Nat /\ i \in Nat /\ i <= L /\ L \in 1 .. L /\ size \in Nat /\ size >= 1 /\ text \in Seq(V)
  BY DEF Values
<1>1. rest \in Seq(S) /\ Len(rest) = size /\ \A j \in 1 .. size : rest[j] = text[i + j - 1]
  <2>1. i \in Int /\ L \in Int /\ \A j \in i .. L : text[j] \in S
    BY <1>0
  <2> QED BY <1>0, <2>1, SubSeqProperties
<1>2. ASSUME NEW n \in 1 .. size PROVE SubSeq(rest, 1, n) = SubSeq(text, i, i + n - 1)
  <2>1. 1 \in 1 .. L - i + 1 /\ n \in 1 .. L - i + 1 /\ i + 1 - 1 = i
    BY <1>0
  <2>2. SubSeq(SubSeq(text, i, L), 1, n) = SubSeq(text, i + 1 - 1, i + n - 1)
    BY <1>0, <2>1, SubSeqOfSubSeq
  <2> QED BY <2>1, <2>2
<1> HIDE DEF V
<1>3. names = SizesAt(text, i)
  <2>1. /\ Min({MaxVarName, Len(rest)}) \in {MaxVarName, size}
        /\ Min({MaxVarName, Len(rest)}) <= MaxVarName /\ Min({MaxVarName, Len(rest)}) <= size
    <3>1. {MaxVarName, Len(rest)} \subseteq Nat /\ {MaxVarName, Len(rest)} # {}
      BY <1>0, <1>1, VarNameFacts
    <3> QED BY <1>1, <3>1, MinFacts
  <2> DEFINE b == Min({MaxVarName, Len(rest)})
  <2>2. b \in Nat /\ b <= MaxVarName /\ b <= size /\ (b = MaxVarName \/ b = size) /\ MaxVarName \in Nat
    BY <1>0, <2>1, VarNameFacts
  <2>3. names = {n \in 1 .. b : SubSeq(rest, 1, n) \in DOMAIN VarNames}
    OBVIOUS
  <2> HIDE DEF b, names, rest
  <2>4. ASSUME NEW n \in names PROVE n \in SizesAt(text, i)
    <3>1. n \in 1 .. size /\ SubSeq(rest, 1, n) \in DOMAIN VarNames
      BY <1>0, <2>2, <2>3
    <3> QED BY <1>2, <3>1 DEF SizesAt
  <2>5. ASSUME NEW n \in SizesAt(text, i) PROVE n \in names
    <3>1. n \in 1 .. size /\ SubSeq(text, i, i + n - 1) \in DOMAIN VarNames
      BY DEF SizesAt
    <3>2. n <= MaxVarName
      BY SizesFacts
    <3>3. n \in 1 .. b
      BY <1>0, <2>2, <3>1, <3>2
    <3> QED BY <1>2, <2>3, <3>1, <3>3
  <2> QED BY <2>4, <2>5
<1>4. o = IF rest[1] = Dollar /\ names # {}
          THEN [text |-> substitute(SubSeq(rest, 1, Min(names))), taken |-> Min(names)]
          ELSE [text |-> SubSeq(rest, 1, upTo), taken |-> upTo]
  BY DEF overrun
<1>5. rest[1] = text[i]
  <2>1. 1 \in 1 .. size /\ i + 1 - 1 = i
    BY <1>0
  <2> QED BY <1>1, <2>1
<1>6. 2 .. Len(rest) \subseteq Nat /\ dollars \subseteq 2 .. Len(rest)
  BY <1>0, <1>1
<1>7. upTo \in 1 .. size /\ \A j \in 2 .. upTo : rest[j] # Dollar
  <2> HIDE DEF rest
  <2>1. CASE dollars = {}
    <3>1. upTo = size
      BY <1>1, <2>1
    <3>2. \A j \in 2 .. size : rest[j] # Dollar
      BY <1>1, <2>1
    <3> HIDE DEF upTo, size
    <3> QED BY <1>0, <3>1, <3>2
  <2>2. CASE dollars # {}
    <3>1. Min(dollars) \in dollars /\ \A j \in dollars : Min(dollars) <= j
      <4>1. dollars \subseteq Nat
        BY <1>6
      <4> HIDE DEF dollars
      <4> QED BY <2>2, <4>1, MinFacts
    <3> DEFINE m == Min(dollars)
    <3>2. m \in 2 .. size /\ upTo = m - 1
      BY <1>1, <2>2, <3>1
    <3>3. \A j \in 2 .. size : rest[j] = Dollar => m <= j
      BY <1>1, <3>1
    <3> HIDE DEF m, upTo, size
    <3>4. \A j \in 2 .. upTo : j \in 2 .. size /\ ~(m <= j)
      BY <1>0, <3>2
    <3>5. upTo \in 1 .. size
      BY <1>0, <3>2
    <3> QED BY <3>3, <3>4, <3>5
  <2> QED BY <2>1, <2>2
<1> HIDE DEF rest, names, dollars, upTo, o, L, size
<1>8. CASE rest[1] = Dollar /\ names # {}
  <2> DEFINE n == Min(SizesAt(text, i))
             v == SubSeq(text, i, i + n - 1)
  <2>1. n \in 1 .. size /\ v \in DOMAIN VarNames
    BY <1>3, <1>8, SizesFacts DEF size, L
  <2>2. o.text = substitute(v) /\ o.taken = n
    BY <1>2, <1>3, <1>4, <1>8, <2>1
  <2>3. page[i] = substitute(v) \o page[i + n]
    <3>1. ~(i > Len(text)) /\ ~(SizesAt(text, i) = {}) /\ i \in 1 .. Len(text) + 1
      BY <1>0, <1>3, <1>8 DEF L
    <3> QED BY <3>1 DEF PageAt, Paged
  <2> HIDE DEF n, v
  <2>4. substitute(v) \in Seq(V)
    BY <2>1, SubstituteType DEF V
  <2> QED BY <2>1, <2>2, <2>3, <2>4 DEF o, rest, L, size, V
<1>9. CASE ~(rest[1] = Dollar /\ names # {})
  <2> DEFINE e == i + upTo - 1
  <2>0. e \in i .. L /\ e + 1 = i + upTo
    BY <1>0, <1>7 DEF size
  <2>1. o.text = SubSeq(text, i, e) /\ o.taken = upTo
    BY <1>2, <1>4, <1>7, <1>9
  <2>2. ASSUME NEW j \in i .. e PROVE SizesAt(text, j) = {}
    <3>1. CASE j = i
      BY <1>3, <1>5, <1>9, <3>1, SizesFacts DEF L
    <3>2. CASE j # i
      <4> DEFINE k == j - i + 1
      <4>1. k \in 2 .. upTo /\ k \in 1 .. size /\ i + k - 1 = j /\ j \in 1 .. L
        BY <1>0, <1>7, <2>0, <3>2
      <4> HIDE DEF k
      <4>2. text[j] # Dollar
        BY <1>1, <1>7, <4>1
      <4> QED BY <4>1, <4>2, SizesFacts DEF L
    <3> QED BY <3>1, <3>2
  <2> HIDE DEF e
  <2>3. page[i] = SubSeq(text, i, e) \o page[e + 1]
    <3>1. Plain(text, i, e) /\ e \in i .. Len(text)
      BY <2>0, <2>2 DEF Plain, L
    <3> QED BY <3>1, PlainText
  <2>4. SubSeq(text, i, e) \in Seq(V)
    <3>1. i \in Int /\ e \in Int /\ \A j \in i .. e : j \in 1 .. Len(text)
      BY <1>0, <2>0 DEF L
    <3>2. \A j \in i .. e : text[j] \in V
      BY <1>0, <3>1
    <3> QED BY <3>1, <3>2, SubSeqProperties
  <2> QED BY <1>7, <2>0, <2>1, <2>3, <2>4 DEF o, rest, L, size, V
<1> QED BY <1>8, <1>9

Copying(S) == [out : Seq(Values(S)), rest : Seq(S)]
CopyTurn(t) ==
  IF t.rest = <<>> THEN t
  ELSE [out |-> t.out \o overrun(t.rest).text,
        rest |-> SubSeq(t.rest, overrun(t.rest).taken + 1, Len(t.rest))]

LEMMA CopyTurnType ==
  ASSUME NEW S, NEW t \in Copying(S)
  PROVE  CopyTurn(t) \in Copying(S)
<1> DEFINE rest == t.rest
           o == overrun(rest)
<1>0. rest \in Seq(S) /\ t.out \in Seq(Values(S)) /\ Len(rest) \in Nat
  BY DEF Copying
<1> SUFFICES ASSUME rest # <<>> PROVE CopyTurn(t) \in Copying(S)
  BY DEF CopyTurn
<1>1. PICK page : Paged(S, rest, page)
  BY <1>0, PageFacts
<1>2. 1 \in 1 .. Len(rest) /\ SubSeq(rest, 1, Len(rest)) = rest
  BY <1>0, SubSeqFull
<1>3. o.taken \in 1 .. Len(rest) - 1 + 1 /\ o.text \in Seq(Values(S))
  BY <1>0, <1>1, <1>2, OverrunIsPage
<1> HIDE DEF o
<1>4. SubSeq(rest, o.taken + 1, Len(rest)) \in Seq(S)
  <2>1. o.taken + 1 \in Int /\ Len(rest) \in Int /\ \A j \in o.taken + 1 .. Len(rest) : rest[j] \in S
    BY <1>0, <1>3
  <2> QED BY <2>1, SubSeqProperties
<1>5. t.out \o o.text \in Seq(Values(S))
  BY <1>0, <1>3, ConcatProperties
<1>6. CopyTurn(t) = [out |-> t.out \o o.text, rest |-> SubSeq(rest, o.taken + 1, Len(rest))]
  BY DEF CopyTurn, o
<1> QED BY <1>4, <1>5, <1>6 DEF Copying

LEMMA CopiedFollows ==
  ASSUME NEW S, NEW text \in Seq(S), NEW n \in Nat, n = Len(text)
  PROVE  /\ \A k \in 0 .. n : Copied(text)[k] \in Copying(S)
         /\ Copied(text)[0] = [out |-> <<>>, rest |-> text]
         /\ \A k \in 1 .. n : Copied(text)[k] = CopyTurn(Copied(text)[k - 1])
<1> DEFINE d == [out |-> <<>>, rest |-> text]
           Is(g) == g = [k \in 0 .. n |-> IF k = 0 THEN d ELSE CopyTurn(g[k - 1])]
           D == Copying(S)
           step == [k \in Nat |-> [m \in D |-> CopyTurn(m)]]
<1>1. d \in D
  BY DEF Copying
<1>2. \A m \in D : CopyTurn(m) \in D
  BY CopyTurnType
<1> HIDE DEF d, D
<1>3. step \in [Nat -> [D -> D]]
  BY <1>2
<1>4. \A k \in Nat, m \in D : step[k][m] = CopyTurn(m)
  OBVIOUS
<1> HIDE DEF step
<1>5. PICK f \in [Nat -> D] : FollowsOn(f, d, step)
  BY <1>1, <1>3, Recursion
<1> DEFINE h == [k \in 0 .. n |-> f[k]]
<1>6. ASSUME NEW k \in 0 .. n
      PROVE h[k] = IF k = 0 THEN d ELSE CopyTurn(h[k - 1])
  <2>1. CASE k # 0
    <3>1. k \in Nat \ {0} /\ k - 1 \in 0 .. n /\ k - 1 \in Nat /\ k \in Nat
      BY <2>1
    <3>2. f[k] = step[k][f[k - 1]] /\ f[k - 1] \in D
      BY <1>5, <3>1 DEF FollowsOn
    <3>3. h[k] = f[k] /\ h[k - 1] = f[k - 1]
      BY <3>1
    <3> HIDE DEF h
    <3> QED BY <1>4, <2>1, <3>1, <3>2, <3>3
  <2>2. CASE k = 0
    BY <1>5, <2>2 DEF FollowsOn
  <2> QED BY <2>1, <2>2
<1>7. h = [k \in 0 .. n |-> h[k]]
  OBVIOUS
<1> HIDE DEF h
<1>8. Is(h)
  BY <1>6, <1>7
<1> DEFINE g == CHOOSE g : Is(g)
<1>9. Is(g)
  BY <1>8
<1>10. Copied(text) = g
  BY DEF Copied, CopyTurn, d
<1> HIDE DEF g
<1>11. g[0] = d /\ \A k \in 1 .. n : g[k] = CopyTurn(g[k - 1])
  BY <1>9
<1> DEFINE S1 == {k \in Nat : k <= n => g[k] \in D}
<1>12. 0 \in S1
  BY <1>1, <1>11
<1>13. ASSUME NEW k \in Nat, k \in S1 PROVE k + 1 \in S1
  <2>1. SUFFICES ASSUME k + 1 <= n PROVE g[k + 1] \in D
    OBVIOUS
  <2>2. k + 1 \in 1 .. n /\ g[k] \in D
    BY <1>13, <2>1
  <2>3. g[k + 1] = CopyTurn(g[k])
    BY <1>11, <2>2
  <2> QED BY <1>2, <2>2, <2>3
<1>14. \A k \in Nat : k \in S1
  BY <1>12, <1>13, NatInd
<1> QED BY <1>10, <1>11, <1>14 DEF d, D

\* A page comes with its variables replaced and nothing else changed.
LEMMA CopyIsPage ==
  ASSUME NEW S, NEW text \in Seq(S)
  PROVE  copyStream(text) = PageFrom(text)
<1> DEFINE L == Len(text)
           V == Values(S)
           C == Copied(text)
<1>0. L \in Nat
  OBVIOUS
<1>1. PICK page : PageFrom(text) = page[1] /\ Paged(S, text, page)
  BY PageFacts
<1>2. /\ \A k \in 0 .. L : C[k] \in Copying(S)
      /\ C[0] = [out |-> <<>>, rest |-> text]
      /\ \A k \in 1 .. L : C[k] = CopyTurn(C[k - 1])
  BY <1>0, CopiedFollows
<1>3. \A i \in 1 .. L + 1 : page[i] \in Seq(V)
  BY <1>1 DEF Paged
<1> DEFINE GoodSoFar(t, k) ==
             \E i \in 1 .. L + 1 :
               t.rest = SubSeq(text, i, L) /\ t.out \o page[i] = page[1] /\ (i > k \/ i = L + 1)
           S1 == {k \in Nat : k <= L => GoodSoFar(C[k], k)}
<1> HIDE DEF C, V
<1>4. 0 \in S1
  <2>1. C[0].rest = SubSeq(text, 1, L) /\ C[0].out = <<>>
    BY <1>2, SubSeqFull
  <2>2. <<>> \o page[1] = page[1] /\ 1 \in 1 .. L + 1 /\ 1 > 0
    BY <1>0, <1>3, ConcatEmptySeq
  <2> QED BY <2>1, <2>2
<1> HIDE DEF GoodSoFar
<1>5. ASSUME NEW k \in Nat, k \in S1 PROVE k + 1 \in S1
  <2> SUFFICES ASSUME k + 1 <= L PROVE GoodSoFar(C[k + 1], k + 1)
    OBVIOUS
  <2> DEFINE t == C[k]
  <2>1. GoodSoFar(t, k) /\ k \in 0 .. L /\ k + 1 \in 1 .. L /\ (k + 1) - 1 = k
    BY <1>0, <1>5
  <2>2. t \in Copying(S) /\ C[k + 1] = CopyTurn(t)
    BY <1>2, <2>1
  <2>3. t.rest \in Seq(S) /\ t.out \in Seq(V)
    BY <2>2 DEF Copying, V
  <2> HIDE DEF t
  <2>4. PICK i \in 1 .. L + 1 :
          t.rest = SubSeq(text, i, L) /\ t.out \o page[i] = page[1] /\ (i > k \/ i = L + 1)
    BY <2>1 DEF GoodSoFar
  <2>5. CASE i = L + 1
    <3>1. t.rest = <<>>
      BY <1>0, <2>4, <2>5, SubSeqEmpty
    <3>2. C[k + 1] = t
      BY <2>2, <3>1 DEF CopyTurn
    <3> QED BY <1>0, <2>4, <2>5, <3>2 DEF GoodSoFar
  <2>6. CASE i # L + 1
    <3> DEFINE o == overrun(t.rest)
               m == i + o.taken
    <3>1. i \in 1 .. L /\ i \in Nat /\ i <= L
      BY <1>0, <2>6
    <3>2. o.taken \in 1 .. L - i + 1 /\ o.text \in Seq(V) /\ page[i] = o.text \o page[m]
      BY <1>1, <2>4, <3>1, OverrunIsPage DEF V
    <3>3. t.rest # <<>> /\ Len(t.rest) = L - i + 1
      <4>1. i \in Int /\ L \in Int /\ \A j \in i .. L : text[j] \in S
        BY <1>0, <3>1
      <4>2. Len(SubSeq(text, i, L)) = IF i <= L THEN L - i + 1 ELSE 0
        BY <4>1, SubSeqProperties
      <4>3. Len(t.rest) = L - i + 1
        BY <2>4, <3>1, <4>2
      <4> QED BY <1>0, <3>1, <4>3
    <3>4. C[k + 1].out = t.out \o o.text /\ C[k + 1].rest = SubSeq(t.rest, o.taken + 1, L - i + 1)
      <4>1. CopyTurn(t) = [out |-> t.out \o o.text, rest |-> SubSeq(t.rest, o.taken + 1, Len(t.rest))]
        BY <3>3 DEF CopyTurn
      <4> DEFINE out == t.out \o o.text
                 left == SubSeq(t.rest, o.taken + 1, Len(t.rest))
      <4>2. left = SubSeq(t.rest, o.taken + 1, L - i + 1)
        BY <3>3
      <4>3. C[k + 1] = [out |-> out, rest |-> left]
        BY <2>2, <4>1, Zenon
      <4> HIDE DEF out, left
      <4>4. C[k + 1].out = out /\ C[k + 1].rest = left
        BY <4>3
      <4> QED BY <4>2, <4>4 DEF out
    <3> HIDE DEF o
    <3>5. m > k + 1 \/ m = L + 1
      BY <1>0, <2>4, <2>6, <3>1, <3>2
    <3>6. m \in 1 .. L + 1
      BY <1>0, <3>1, <3>2
    <3>7. C[k + 1].out \o page[m] = page[1]
      <4>1. page[m] \in Seq(V)
        BY <1>3, <3>6
      <4>2. \A x, y, z \in Seq(V) : (x \o y) \o z = x \o (y \o z)
        BY ConcatAssociative
      <4>3. (t.out \o o.text) \o page[m] = t.out \o (o.text \o page[m])
        BY <2>3, <3>2, <4>1, <4>2, Zenon
      <4> HIDE DEF m
      <4> QED BY <2>4, <3>2, <3>4, <4>3
    <3>8. C[k + 1].rest = SubSeq(text, m, L)
      <4>1. CASE m = L + 1
        <5>1. L - i + 1 < o.taken + 1 /\ o.taken + 1 \in Int /\ L - i + 1 \in Int /\ L < m
          BY <1>0, <3>1, <3>2, <4>1
        <5>2. SubSeq(t.rest, o.taken + 1, L - i + 1) = <<>>
          BY <5>1, SubSeqEmpty
        <5>3. SubSeq(text, m, L) = <<>>
          BY <1>0, <3>6, <5>1, SubSeqEmpty
        <5> QED BY <3>4, <5>2, <5>3
      <4>2. CASE m # L + 1
        <5>1. /\ o.taken + 1 \in 1 .. L - i + 1 /\ L - i + 1 \in 1 .. L - i + 1 /\ L \in 1 .. L
              /\ i + (o.taken + 1) - 1 = m /\ i + (L - i + 1) - 1 = L
          BY <1>0, <3>1, <3>2, <4>2
        <5> DEFINE a == o.taken + 1
                   z == L - i + 1
        <5> HIDE DEF a, z, m
        <5>2. a \in 1 .. L - i + 1 /\ z \in 1 .. L - i + 1
          BY <5>1 DEF a, z
        <5>3. SubSeq(SubSeq(text, i, L), a, z) = SubSeq(text, i + a - 1, i + z - 1)
          BY <3>1, <5>1, <5>2, SubSeqOfSubSeq
        <5>4. i + a - 1 = m /\ i + z - 1 = L
          BY <5>1 DEF a, z
        <5> QED BY <2>4, <3>4, <5>3, <5>4 DEF a, z
      <4> QED BY <4>1, <4>2
    <3> HIDE DEF m
    <3> QED BY <3>5, <3>6, <3>7, <3>8 DEF GoodSoFar
  <2> QED BY <2>5, <2>6
<1>6. \A k \in Nat : k \in S1
  <2> HIDE DEF S1
  <2> QED BY <1>4, <1>5, NatInd
<1>7. GoodSoFar(C[L], L) /\ C[L] \in Copying(S)
  <2>1. L \in S1 /\ L <= L /\ L \in 0 .. L
    BY <1>0, <1>6
  <2> HIDE DEF L
  <2> QED BY <1>2, <2>1
<1>8. C[L].out \o page[L + 1] = page[1]
  <2>1. PICK i \in 1 .. L + 1 : C[L].out \o page[i] = page[1] /\ (i > L \/ i = L + 1)
    BY <1>7 DEF GoodSoFar
  <2>2. i = L + 1
    BY <1>0, <2>1
  <2> QED BY <2>1, <2>2
<1>9. page[L + 1] = <<>>
  <2>1. L + 1 \in 1 .. Len(text) + 1 /\ L + 1 > Len(text)
    BY <1>0
  <2> QED BY <1>1, <2>1 DEF Paged, PageAt
<1>10. C[L].out = page[1]
  <2>1. C[L].out \in Seq(V)
    BY <1>7 DEF Copying, V
  <2> QED BY <1>8, <1>9, <2>1, ConcatEmptySeq
<1> QED BY <1>1, <1>10 DEF copyStream, C

LEMMA WrittenIsExpected ==
  ASSUME NEW r, Named(Requests[r].uri) \in DOMAIN Resources
  PROVE  writeResponse(200, r).body = ExpectedBody(r)
<1> DEFINE name == Named(Requests[r].uri)
<1>1. /\ name # <<>> /\ Resources[name] \in Seq(Range(Resources[name]))
      /\ Last(name) = "vnc" => Len(name) > 1 /\ name # <<"", "vnc">>
  BY HttpAssumption, Zenon
<1>2. copyStream(Resources[name]) = PageFrom(Resources[name])
  BY <1>1, CopyIsPage
<1>3. IsPage(name) <=> Last(name) = "vnc"
  BY <1>1 DEF IsPage
<1>4. getFile(Requests[r].uri).body = IF Last(name) = "vnc" THEN PageFrom(Resources[name]) ELSE Resources[name]
  BY <1>2, <1>3 DEF getFile
<1>5. CASE Requests[r].method = "HEAD"
  <2>1. writeResponse(200, r) = [getFile(Requests[r].uri) EXCEPT !.body = <<>>]
    BY <1>5 DEF writeResponse
  <2>2. writeResponse(200, r).body = <<>>
    BY <2>1 DEF getFile
  <2> QED BY <1>5, <2>2 DEF ExpectedBody
<1>6. CASE Requests[r].method # "HEAD"
  <2>1. writeResponse(200, r) = getFile(Requests[r].uri)
    BY <1>6 DEF writeResponse
  <2> QED BY <1>4, <1>6, <2>1 DEF ExpectedBody
<1> QED BY <1>5, <1>6

-----------------------------------------------------------------------------
\* What a session has read agrees with what it knows, and what it has written
\* with what it was asked.
HttpIInv ==
  /\ session \in Live /\ unread \in Seq(Input) /\ whole \in BOOLEAN
  /\ \E p \in Seq(Input) : sent = p \o unread /\ Agrees(session, p)
  /\ ~isShutdown => session.answer = 0 /\ ~whole
  /\ whole /\ session.answer = 200 => document.body = ExpectedBody(session.request)

LEMMA SessionStarts == HttpInit => HttpIInv
<1> SUFFICES ASSUME HttpInit PROVE HttpIInv
  OBVIOUS
<1> USE DEF HttpInit
<1>1. session \in Live
  BY DEF Live, Sessions
<1>2. Agrees(session, <<>>)
  <2> DEFINE L == Split(<<>>)
  <2>1. L = << <<>> >> /\ Len(L) = 1 /\ L[1] = <<>> /\ DOMAIN L = {1}
    BY SplitStart
  <2>2. LineLen > 0 /\ LineLen \in Nat /\ Len(<<>>) = 0
    BY LineLenType
  <2>3. Held(L[Len(L)]) = <<>>
    <3>1. ~(Len(<<>>) >= LineLen)
      BY <2>2
    <3> QED BY <2>1, <3>1 DEF Held
  <2>4. Telling(L) = {}
    <3>1. ~(Len(<<>>) >= LineLen)
      BY <2>2
    <3> QED BY <2>1, <3>1 DEF Telling
  <2>5. Expected(<<>>) = 0
    BY <2>4, ExpectedNone
  <2> HIDE DEF L
  <2> QED BY <2>3, <2>4, <2>5 DEF Agrees, L
<1>3. <<>> \in Seq(Input) /\ <<>> \o <<>> = <<>>
  OBVIOUS
<1> QED BY <1>1, <1>2, <1>3 DEF HttpIInv

LEMMA SessionGoesOn == HttpIInv /\ [HttpNext]_httpVars => HttpIInv'
<1> SUFFICES ASSUME HttpIInv, [HttpNext]_httpVars PROVE HttpIInv'
  OBVIOUS
<1>0. PICK p \in Seq(Input) : sent = p \o unread /\ Agrees(session, p)
  BY DEF HttpIInv
<1>1. ASSUME NEW c \in Chars \cup {CR, LF}, Send(c) PROVE HttpIInv'
  <2>1. c \in Input
    BY DEF Input
  <2>2. Append(p \o unread, c) = p \o Append(unread, c) /\ Append(unread, c) \in Seq(Input)
    BY <2>1, AppendAfter, AppendProperties DEF HttpIInv
  <2>3. sent' = p \o unread' /\ unread' \in Seq(Input)
    BY <1>0, <1>1, <2>2 DEF Send
  <2>4. session' = session /\ whole' = whole /\ document' = document /\ isShutdown' = isShutdown
    BY <1>1 DEF Send
  <2> QED BY <1>0, <2>3, <2>4 DEF HttpIInv
<1>2. CASE processSocketEvent
  <2> DEFINE after == processHTTP(session, unread)
  <2>1. /\ ~isShutdown /\ session.answer = 0 /\ ~whole /\ sent' = sent
        /\ unread' = after.rest /\ session' = after.session
        /\ whole' \in IF session'.answer # 0 THEN BOOLEAN ELSE {whole}
        /\ document' = IF whole' THEN writeResponse(session'.answer, session'.request) ELSE document
        /\ isShutdown' = (session'.answer # 0)
    BY <1>2 DEF processSocketEvent, HttpIInv
  <2>2. session \in Live /\ unread \in Seq(Input)
    BY DEF HttpIInv
  <2>3. /\ after.session \in Live /\ after.rest \in Seq(Input)
        /\ \E q \in Seq(Input) : q \o after.rest = unread /\ Agrees(after.session, p \o q)
    BY <1>0, <2>2, CallAgrees
  <2>4. PICK q \in Seq(Input) : q \o after.rest = unread /\ Agrees(after.session, p \o q)
    BY <2>3
  <2> HIDE DEF after
  <2>5. p \o q \in Seq(Input) /\ p \o (q \o after.rest) = (p \o q) \o after.rest
    <3> DEFINE left == after.rest
    <3>1. left \in Seq(Input)
      BY <2>3
    <3> HIDE DEF left
    <3>2. p \o (q \o left) = (p \o q) \o left
      BY <3>1, ConcatAssociative
    <3>3. p \o q \in Seq(Input)
      BY ConcatProperties
    <3> QED BY <3>2, <3>3 DEF left
  <2>6. sent' = (p \o q) \o unread' /\ Agrees(session', p \o q)
    BY <1>0, <2>1, <2>4, <2>5
  <2>7. whole' \in BOOLEAN /\ (whole' => session'.answer # 0)
    <3>1. whole \in BOOLEAN
      BY DEF HttpIInv
    <3>2. CASE session'.answer # 0
      BY <2>1, <3>2
    <3>3. CASE session'.answer = 0
      <4>1. whole' = whole
        BY <2>1, <3>3
      <4> QED BY <2>1, <3>1, <4>1, Zenon
    <3> QED BY <3>2, <3>3
  <2>8. whole' /\ session'.answer = 200 => document'.body = ExpectedBody(session'.request)
    <3> SUFFICES ASSUME whole', session'.answer = 200 PROVE document'.body = ExpectedBody(session'.request)
      OBVIOUS
    <3>1. Named(Requests[session'.request].uri) \in DOMAIN Resources
      BY <2>6 DEF Agrees
    <3>2. writeResponse(200, session'.request).body = ExpectedBody(session'.request)
      BY <3>1, WrittenIsExpected
    <3> QED BY <2>1, <3>2
  <2>9. \E r \in Seq(Input) : sent' = r \o unread' /\ Agrees(session', r)
    BY <2>5, <2>6
  <2>10. (~isShutdown => session.answer = 0 /\ ~whole)'
    BY <2>1, <2>7
  <2>11. session' \in Live /\ unread' \in Seq(Input)
    BY <2>1, <2>3
  <2> QED BY <2>7, <2>8, <2>9, <2>10, <2>11 DEF HttpIInv
<1>3. CASE Wait
  BY <1>3 DEF Wait, HttpIInv
<1>4. CASE checkIdleTimeout
  BY <1>4 DEF checkIdleTimeout, HttpIInv
<1>5. CASE UNCHANGED httpVars
  BY <1>5 DEF httpVars, HttpIInv
<1> QED BY <1>1, <1>2, <1>3, <1>4, <1>5 DEF HttpNext

LEMMA SessionAnswers == HttpIInv => AnswersRequest
<1> SUFFICES ASSUME HttpIInv PROVE AnswersRequest
  OBVIOUS
<1>1. PICK p \in Seq(Input) : sent = p \o unread /\ Agrees(session, p)
  BY DEF HttpIInv
<1>2. unread \in Seq(Input) /\ Len(p) \in Nat /\ Len(unread) \in Nat
  BY DEF HttpIInv
<1>3. SubSeq(sent, 1, Len(sent) - Len(unread)) = p
  <2>1. Len(sent) = Len(p) + Len(unread)
    BY <1>1, <1>2, ConcatProperties
  <2>2. Len(sent) - Len(unread) = Len(p)
    BY <1>2, <2>1
  <2>3. CASE p = <<>>
    <3>1. Len(p) = 0
      BY <2>3
    <3>2. SubSeq(sent, 1, 0) = <<>>
      BY SubSeqEmpty
    <3> QED BY <2>2, <2>3, <3>1, <3>2
  <2>4. CASE p # <<>>
    <3>1. 1 \in 1 .. Len(p) /\ Len(p) \in 1 .. Len(p)
      BY <1>2, <2>4
    <3>2. SubSeq(p \o unread, 1, Len(p)) = SubSeq(p, 1, Len(p))
      BY <1>2, <3>1, SubSeqOfConcat1
    <3>3. SubSeq(p, 1, Len(p)) = p
      BY SubSeqFull
    <3> QED BY <1>1, <2>2, <3>2, <3>3
  <2> QED BY <2>3, <2>4
<1>4. /\ session.answer # 0 => session.answer = Expected(p)
      /\ session.answer = 0 => Expected(p) = 0
  BY <1>1 DEF Agrees
<1>5. whole /\ session.answer = 200 => document.body = ExpectedBody(session.request)
  BY DEF HttpIInv
<1> QED BY <1>3, <1>4, <1>5 DEF AnswersRequest

\* However the text that a browser sends is cut into pieces, a session answers
\* what it calls for as soon as that has been read, and a page that it writes
\* whole is the one its author means.
THEOREM RequestsAreAnswered == HttpSpec => []AnswersRequest
<1>1. HttpInit => HttpIInv
  BY SessionStarts
<1>2. HttpIInv /\ [HttpNext]_httpVars => HttpIInv'
  BY SessionGoesOn
<1>3. HttpIInv => AnswersRequest
  BY SessionAnswers
<1> QED BY <1>1, <1>2, <1>3, PTL DEF HttpSpec
=============================================================================
