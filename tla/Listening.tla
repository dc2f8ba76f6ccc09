----------------------------- MODULE Listening -----------------------------
(***************************************************************************)
(* From the configuration to the connections that are let in: RegConfig,   *)
(* VNCServerWin32::regConfigChanged, the two ManagedListeners, TcpListener *)
(* with its TcpFilter, and the Blacklist of the VNC server.                *)
(*                                                                         *)
(* In this build RegKey::awaitChange is empty, so that the configuration   *)
(* is loaded once, before the first event; an exception in it is caught by *)
(* RegConfig::setKey, whose result run() does not look at.  What becomes   *)
(* of a listener's socket later on is in module SocketManager.             *)
(***************************************************************************)
EXTENDS Naturals, Sequences, SequencesExt, Outcomes, Powers

CONSTANTS
  AddrBits,       \* width of an address
  NoAddress,      \* text of a pattern that is no address
  Configs,        \* what the registry may hold: [port_number, http_port, localHost,
                  \*   hosts], port 0 meaning none, hosts a sequence of patterns
                  \*   [action, addr, bits]
  TakenPorts,     \* sets of ports that other programs may use
  Peers,          \* hosts that connect
  NoFilter,       \* a null TcpFilter
  threshold,      \* BlacklistThreshold
  initialTimeout, \* BlacklistTimeout
  TimeoutBits,    \* width of Blacklist's blockTimeout
  MaxTime, MaxTries \* bounds on the time and on a host's attempts that are counted

Hosts == 0 .. (Pow2[AddrBits] - 1)

ASSUME ListeningAssumption ==
  /\ {AddrBits, threshold, initialTimeout, TimeoutBits} \subseteq Nat \ {0}
  /\ Peers \subseteq Hosts /\ NoAddress \notin Hosts
  /\ initialTimeout < Pow2[TimeoutBits]
  /\ \A g \in Configs :
       g.hosts # NoFilter /\ g.hosts \in Seq([action : {"+", "-", "?"},
                                              addr : Hosts \cup {NoAddress}, bits : 0 .. AddrBits])

VARIABLES
  phase,       \* of VNCServerWin32::run: "setKey", "notifier", "serving", "ended"
  config,      \* the parameters read
  taken,       \* ports that other programs use
  complete,    \* has regConfigChanged returned
  rfbSock, httpSock, \* the ManagedListeners
  rfbPort,     \* HTTPServer::rfbPort
  now,         \* time(0)
  blm,         \* Blacklist::blm by host
  tries,       \* history: attempts admitted since the entry was made, the time of
               \*   the first one over the threshold, and of the last one
  admitted     \* history: the last connection and what became of it

setupVars == <<phase, config, taken, complete, rfbSock, httpSock, rfbPort>>
listeningVars == <<setupVars, now, blm, tries, admitted>>

NewListener == [server |-> FALSE, port |-> 0, localOnly |-> FALSE, filter |-> NoFilter,
                open |-> FALSE, sockFilter |-> NoFilter]
NoTries == [n |-> 0, since |-> 0, last |-> 0]
NoEntry == [marks |-> 0, blockUntil |-> 0, blockTimeout |-> 0]

ListeningInit ==
  /\ phase = "setKey"
  /\ config \in Configs
  /\ taken \in TakenPorts
  /\ complete = FALSE
  /\ rfbSock = NewListener /\ httpSock = NewListener
  /\ rfbPort = 0
  /\ now = 1
  /\ blm = [h \in Peers |-> NoEntry]
  /\ tries = [h \in Peers |-> NoTries]
  /\ admitted = [host |-> 0, by |-> "nobody", query |-> FALSE]

-----------------------------------------------------------------------------
(* The filter.                                                             *)

\* What is left of an address under a mask of so many leading ones.
Masked(a, bits) == a - (a % Pow2[AddrBits - bits])

\* TcpFilter::parsePattern.  INADDR_NONE stands for what is no address; a
\* pattern for address 0, or for INADDR_NONE, has no mask and matches all.
INADDR_NONE == Pow2[AddrBits] - 1
parsePattern(p) ==
  LET address == Masked(IF p.addr = NoAddress THEN INADDR_NONE ELSE p.addr, p.bits)
  IN [action |-> p.action, address |-> address,
      mask |-> IF address \in {0, INADDR_NONE} THEN 0 ELSE p.bits]

\* patternMatchIP, where the peer's address INADDR_NONE matches nothing.
patternMatchIP(pattern, address) ==
  /\ address # INADDR_NONE
  /\ Masked(pattern.address, pattern.mask) = Masked(address, pattern.mask)

\* Mutant: the last pattern that matches decides.
VerifyLast(filter, host) ==
  LET parsed == [i \in DOMAIN filter |-> parsePattern(filter[i])]
      Matches(pattern) == patternMatchIP(pattern, host)
      i == SelectLastInSeq(parsed, Matches)
  IN IF i = 0 THEN "-" ELSE parsed[i].action

\* TcpFilter::verifyConnection: the first pattern that matches decides, and a
\* host that none of them matches is rejected.
verifyConnection(filter, host) ==
  LET parsed == [i \in DOMAIN filter |-> parsePattern(filter[i])]
      Matches(pattern) == patternMatchIP(pattern, host)
      i == SelectInSeq(parsed, Matches)
  IN IF i = 0 THEN "-" ELSE parsed[i].action

-----------------------------------------------------------------------------
(* The listeners.  Each operation is that of one ManagedListener s; other   *)
(* is the port the other one has bound, 0 if none.                         *)

Bound(s) == IF s.open THEN s.port ELSE 0

\* TcpListener's constructor.  The loop-back address is given to bind() with
\* its bytes in the wrong order, as an address no interface has.
Binds(s, other) == s.port # 0 /\ ~s.localOnly /\ s.port \notin taken \cup {other}

\* ManagedListener::refresh: a port that cannot be bound is logged, while
\* SocketManager::addListener throws.
refresh(s, other) ==
  LET closed == [s EXCEPT !.open = FALSE, !.sockFilter = NoFilter]
  IN IF ~s.server \/ ~Binds(s, other) THEN {Returns(closed)}
     ELSE {Returns([closed EXCEPT !.open = TRUE,
                                  !.sockFilter = IF s.localOnly THEN @ ELSE s.filter]),
           Throws(closed)}

setServer(s, other) ==
  IF s.server THEN {Returns(s)} ELSE refresh([s EXCEPT !.server = TRUE], other)

setPort(s, port, localOnly, other) ==
  IF port = s.port /\ localOnly = s.localOnly THEN {Returns(s)}
  ELSE refresh([s EXCEPT !.port = port, !.localOnly = localOnly], other)

setFilter(s, filter) ==
  [s EXCEPT !.filter = filter,
            !.sockFilter = IF s.open /\ ~s.localOnly THEN filter ELSE @]

\* VNCServerWin32::regConfigChanged on [rfb, http, rfbPort].  The tool-tip's
\* list of addresses, at the end, may throw as well.
regConfigChanged(g) ==
  LET Rfb(r, Op(_, _)) ==
        {[after |-> [r EXCEPT !.rfb = o.after], ok |-> o.ok] : o \in Op(r.rfb, Bound(r.http))}
      Http(r, Op(_, _)) ==
        {[after |-> [r EXCEPT !.http = o.after], ok |-> o.ok] : o \in Op(r.http, Bound(r.rfb))}
      RfbPort(s, other)  == setPort(s, config.port_number, config.localHost, other)
      HttpPort(s, other) == setPort(s, config.http_port, config.localHost, other)
      Finish(r) ==
        LET done == [rfb |-> setFilter(r.rfb, config.hosts),
                     http |-> setFilter(r.http, config.hosts),
                     rfbPort |-> IF r.rfb.open THEN config.port_number ELSE 0]
        IN {Returns(done), Throws(done)}
      S1(r) == Rfb(r, RfbPort)
      S2(r) == Http(r, setServer)
      S3(r) == Http(r, HttpPort)
  IN Then(Then(Then(Then(Rfb(g, setServer), S1), S2), S3), Finish)

\* RegConfig::setKey: the key is opened, or not, the parameters are read and
\* the callback is called.
setKey ==
  /\ phase = "setKey"
  /\ LET g == [rfb |-> rfbSock, http |-> httpSock, rfbPort |-> rfbPort]
     IN \E o \in {Throws(g)} \cup regConfigChanged(g) :
       /\ rfbSock' = o.after.rfb /\ httpSock' = o.after.http /\ rfbPort' = o.after.rfbPort
       /\ complete' = o.ok
  /\ phase' = "notifier"
  /\ UNCHANGED <<config, taken, now, blm, tries, admitted>>

\* setAddressChangeNotifier, whose refresh() opens the port a second time; an
\* exception leaves run().
setAddressChangeNotifier ==
  /\ phase = "notifier"
  /\ \E o \in refresh(rfbSock, Bound(httpSock)) :
       /\ rfbSock' = o.after
       /\ phase' = IF o.ok THEN "serving" ELSE "ended"
  /\ UNCHANGED <<config, taken, complete, httpSock, rfbPort, now, blm, tries, admitted>>

-----------------------------------------------------------------------------
(* Connections.                                                            *)

\* Mutant: the timeout stays what it was.
RetryAfterSame(e) == [e EXCEPT !.blockUntil = now + e.blockTimeout]

\* Blacklist: the next retry is put off for twice as long, in an unsigned int.
RetryAfter(e) == [e EXCEPT !.blockUntil = now + e.blockTimeout,
                           !.blockTimeout = (@ * 2) % Pow2[TimeoutBits]]

\* Blacklist::isBlackmarked: the entry afterwards, and the answer.
isBlackmarked(entry) ==
  LET e == IF entry = NoEntry
           THEN [marks |-> 1, blockUntil |-> 0, blockTimeout |-> initialTimeout] ELSE entry
  IN IF e.marks < threshold THEN [entry |-> [e EXCEPT !.marks = @ + 1], answer |-> FALSE]
     ELSE IF now >= e.blockUntil THEN [entry |-> RetryAfter(e), answer |-> FALSE]
     ELSE [entry |-> e, answer |-> TRUE]

Tried(t) == [n |-> t.n + 1, since |-> IF t.n < threshold THEN now ELSE t.since, last |-> now]

\* TcpListener::accept, then VNCServerST::addSocket for the port of the VNC
\* server; HTTPServer has no blacklist.
Accept(s, vnc, h) ==
  /\ phase = "serving" /\ s.open
  /\ vnc => tries[h].n < MaxTries
  /\ LET verdict == IF s.sockFilter = NoFilter THEN "+" ELSE verifyConnection(s.sockFilter, h)
         black == isBlackmarked(blm[h])
         asked == vnc /\ verdict # "-"
     IN /\ admitted' = [host |-> h, query |-> verdict = "?",
                        by |-> CASE verdict = "-" -> "nobody"
                                 [] asked /\ black.answer -> "nobody"
                                 [] OTHER -> "filter"]
        /\ blm' = IF asked THEN [blm EXCEPT ![h] = black.entry] ELSE blm
        /\ tries' = IF asked /\ ~black.answer THEN [tries EXCEPT ![h] = Tried(@)] ELSE tries
  /\ UNCHANGED <<setupVars, now>>

\* VNCSConnectionST::queryConnection: a connection from h has authenticated.
clearBlackmark(h) ==
  /\ tries[h].n > 0
  /\ blm' = [blm EXCEPT ![h] = NoEntry]
  /\ tries' = [tries EXCEPT ![h] = NoTries]
  /\ UNCHANGED <<setupVars, now, admitted>>

Tick ==
  /\ phase = "serving" /\ now < MaxTime
  /\ now' = now + 1
  /\ UNCHANGED <<setupVars, blm, tries, admitted>>

ListeningNext ==
  \/ setKey
  \/ setAddressChangeNotifier
  \/ \E h \in Peers : Accept(rfbSock, TRUE, h) \/ Accept(httpSock, FALSE, h)
  \/ \E h \in Peers : clearBlackmark(h)
  \/ Tick

ListeningSpec == ListeningInit /\ [][ListeningNext]_listeningVars

-----------------------------------------------------------------------------
(* Properties.                                                             *)

\* Does pattern p name host h: do their leading bits agree.
Names(p, h) == h \div Pow2[AddrBits - p.bits] = p.addr \div Pow2[AddrBits - p.bits]

\* A pattern that is written for a network other than that of address zero.
Proper(p) == p.addr # NoAddress /\ Masked(p.addr, p.bits) \notin {0, INADDR_NONE}

\* When the configuration was applied without an exception, a connection that
\* is let in comes from a host that the first pattern naming it accepts, on
\* either port, and the user is queried about it if the pattern says so.
AdmittedAreNamed ==
  LET Naming(p) == Names(p, admitted.host)
      i == SelectInSeq(config.hosts, Naming)
  IN complete /\ admitted.by = "filter" /\ (\A p \in ToSet(config.hosts) : Proper(p)) =>
       /\ i # 0 /\ config.hosts[i].action # "-"
       /\ admitted.query <=> config.hosts[i].action = "?"

\* A host that does not authenticate is admitted threshold times, and from then
\* on only after twice the time of the retry before, until the timeouts add up
\* to more than their type holds.
RetriesBackOff ==
  \A h \in Peers :
    LET elapsed == tries[h].last - tries[h].since
    IN tries[h].n > threshold /\ elapsed < Pow2[TimeoutBits] - initialTimeout
         => elapsed >= initialTimeout * (Pow2[tries[h].n - threshold] - 1)
=============================================================================
