---------------------------- MODULE IdleTimeouts ----------------------------
(***************************************************************************)
(* How silent connections are found: before the host thread waits for      *)
(* events it asks the servers that have a listener for the soonest timeout  *)
(* of their connections, closes those whose time is over, and waits no      *)
(* longer than that.  The time is the clock of the day, which somebody may  *)
(* set while nobody looks; the wait is not.  A connection is known here by  *)
(* the seconds since its last event: those the clock shows (ago) and those  *)
(* that went by (quiet).                                                    *)
(***************************************************************************)
EXTENDS Integers, FiniteSetsExt

CONSTANTS
  Viewers, Browsers,   \* connections of the VNC and of the HTTP server
  NORMAL, AUTH, GONE,  \* what a connection is at
  idleTimeout,         \* Server::idleTimeout; 0: viewers may be silent for ever
  MinimumAuth,         \* the least timeout before a viewer is admitted
  Late,                \* seconds the callback may be late before it is the clock
  idleTimeoutSecs,     \* HTTPServer: timeout of a browser
  Jumps,               \* seconds the clock is set by
  MaxJumps, MaxAgo     \* bounds

ASSUME IdleAssumption ==
  /\ Viewers \cap Browsers = {}
  /\ {idleTimeout, MinimumAuth, Late, idleTimeoutSecs, MaxJumps, MaxAgo} \subseteq Nat
  /\ Jumps \subseteq Int /\ GONE \notin {NORMAL, AUTH}

VARIABLES
  waiting,     \* the host thread waits for events
  timeout,     \* seconds it will wait; 0 for ever
  at,          \* by connection
  ago, quiet,  \* by connection
  jumps,       \* by connection: times the clock was set since its last event
  missed,      \* connections not looked at since, for want of a listener
  listening    \* servers with a listener
idleVars == <<waiting, timeout, at, ago, quiet, jumps, missed, listening>>

Peer == Viewers \cup Browsers
Here == {c \in Peer : at[c] # GONE}
ServerOf(c) == IF c \in Viewers THEN "vnc" ELSE "http"
Looked == {c \in Here : ServerOf(c) \in listening}

-----------------------------------------------------------------------------
LimitOf(c) ==
  IF c \in Browsers THEN idleTimeoutSecs
  ELSE IF at[c] # NORMAL /\ idleTimeout < MinimumAuth THEN MinimumAuth ELSE idleTimeout

\* VNCSConnectionST::checkIdleTimeout: what the clock shows then, the answer,
\* and whether the connection is closed.  A clock that is behind the last event,
\* or too far after the time to close, was set: the silence counts from now.
OfViewer(c) ==
  LET limit == LimitOf(c)
      shown == IF ago[c] < 0 THEN 0 ELSE ago[c]
      left == limit - shown
  IN  IF idleTimeout = 0 THEN [ago |-> ago[c], answer |-> 0, closed |-> FALSE]
      ELSE IF left < -Late THEN [ago |-> 0, answer |-> limit, closed |-> FALSE]
      ELSE IF left <= 0 THEN [ago |-> shown, answer |-> 0, closed |-> TRUE]
      ELSE [ago |-> shown, answer |-> left, closed |-> FALSE]

\* HTTPServer::Session::checkIdleTimeout.
OfBrowser(c) ==
  LET left == idleTimeoutSecs - ago[c]
  IN  [ago |-> ago[c], answer |-> IF left > 0 THEN left ELSE 0, closed |-> left <= 0]

idleTimeoutOf(c) == IF c \in Viewers THEN OfViewer(c) ELSE OfBrowser(c)

\* Mutant: the longest timeout counts.
LongestTimeout(answers) == IF answers \subseteq {0} THEN 0 ELSE Max(answers)

\* soonestTimeout, over all the answers: the least one that is a timeout.
soonestTimeout(answers) == IF answers \subseteq {0} THEN 0 ELSE Min(answers \ {0})

\* SocketManager::checkTimeouts: connections that were shut down are removed
\* before it returns.
checkTimeouts ==
  /\ ~waiting /\ waiting' = TRUE
  /\ timeout' = soonestTimeout({idleTimeoutOf(c).answer : c \in Looked})
  /\ at' = [c \in Peer |-> IF c \in Looked /\ idleTimeoutOf(c).closed THEN GONE ELSE at[c]]
  /\ ago' = [c \in Peer |-> IF c \in Looked THEN idleTimeoutOf(c).ago ELSE ago[c]]
  /\ UNCHANGED <<quiet, jumps, missed, listening>>

-----------------------------------------------------------------------------
(* What ends the wait. *)

Wakes == waiting /\ waiting' = FALSE /\ timeout' = 0

\* A second goes by; the wait ends when its time is over.
Second ==
  /\ waiting /\ \A c \in Here : ago[c] < MaxAgo /\ quiet[c] < MaxAgo
  /\ ago' = [c \in Peer |-> IF c \in Here THEN ago[c] + 1 ELSE ago[c]]
  /\ quiet' = [c \in Peer |-> IF c \in Here THEN quiet[c] + 1 ELSE quiet[c]]
  /\ timeout' = IF timeout > 0 THEN timeout - 1 ELSE 0
  /\ waiting' = (timeout # 1)
  /\ UNCHANGED <<at, jumps, missed, listening>>

\* Somebody sets the clock; nobody is told.
ClockSet ==
  /\ waiting /\ \A c \in Here : jumps[c] < MaxJumps
  /\ \E d \in Jumps :
       /\ \A c \in Here : ago[c] + d \in -MaxAgo .. MaxAgo
       /\ ago' = [c \in Peer |-> IF c \in Here THEN ago[c] + d ELSE ago[c]]
  /\ jumps' = [c \in Peer |-> IF c \in Here THEN jumps[c] + 1 ELSE jumps[c]]
  /\ UNCHANGED <<waiting, timeout, at, quiet, missed, listening>>

EventFrom(c) ==
  /\ ago' = [ago EXCEPT ![c] = 0] /\ quiet' = [quiet EXCEPT ![c] = 0]
  /\ jumps' = [jumps EXCEPT ![c] = 0]
  /\ missed' = IF ServerOf(c) \in listening THEN missed \ {c} ELSE missed \cup {c}

\* A connection is accepted, which needs a listener, in the place of one gone.
Connect ==
  /\ Wakes
  /\ \E c \in Peer \ Here :
       ServerOf(c) \in listening /\ at' = [at EXCEPT ![c] = AUTH] /\ EventFrom(c)
  /\ UNCHANGED listening

\* Messages of a connection; a viewer may have been admitted by them.
Message ==
  /\ Wakes
  /\ \E c \in Here : at' \in {at, [at EXCEPT ![c] = NORMAL]} /\ EventFrom(c)
  /\ UNCHANGED listening

\* A command of the host opens or closes a port.
SetPort ==
  /\ Wakes
  /\ \E s \in {"vnc", "http"} :
       listening' = IF s \in listening THEN listening \ {s} ELSE listening \cup {s}
  /\ missed' = missed \cup {c \in Here : ServerOf(c) \notin listening'}
  /\ UNCHANGED <<at, ago, quiet, jumps>>

IdleInit ==
  /\ waiting = FALSE /\ timeout = 0 /\ missed = {} /\ listening = {"vnc", "http"}
  /\ at = [c \in Peer |-> GONE]
  /\ ago = [c \in Peer |-> 0] /\ quiet = [c \in Peer |-> 0] /\ jumps = [c \in Peer |-> 0]

IdleNext == checkTimeouts \/ Second \/ ClockSet \/ Connect \/ Message \/ SetPort
IdleSpec == IdleInit /\ [][IdleNext]_idleVars

-----------------------------------------------------------------------------
\* Although the wait is worked out once for all connections and the clock may
\* be set during it, a connection of a server that kept its listener is silent
\* no longer than its time, a viewer once more for every time the clock was
\* set; and none is closed before its time unless the clock was set.
SilentAreClosed ==
  /\ \A c \in Here \ missed :
       (c \in Viewers => idleTimeout # 0) /\ (c \in Browsers => jumps[c] = 0) =>
         quiet[c] <= LimitOf(c) * (jumps[c] + 1)
  /\ \A c \in Peer : at[c] = GONE /\ quiet[c] # 0 /\ jumps[c] = 0 =>
       quiet[c] >= IF c \in Browsers THEN idleTimeoutSecs ELSE idleTimeout
=============================================================================
