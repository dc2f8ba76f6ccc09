-------------------------- MODULE VncServerProofs --------------------------
(***************************************************************************)
(* Proofs about VncServer, for every set of sockets, keys and policies.    *)
(***************************************************************************)
EXTENDS VncServer, TLAPS

(***************************************************************************)
(* The inductive invariant.  Besides the properties themselves it says     *)
(* what the host thread's loop adds to them: a desktop that has been       *)
(* started has a client that is in the session or on its way out, nothing  *)
(* is shut down when the loop waits, and while one event is being served   *)
(* other clients are shut down only by a client that is in the session.    *)
(***************************************************************************)
DesktopHasClient ==
  desktopStarted => \E s \in Socks : state[s] \in {"initialisation", "normal", "closing"}

SweptWhenReady ==
  /\ loop = "ready" => \A s \in Socks : state[s] \notin Shutdown
  /\ loop = "served" =>
       /\ cur \in Socks
       /\ (\E s \in Socks : state[s] \in Shutdown) => state[cur] \in {"normal", "closing"}

PointerOwnerListed ==
  pointerClient # NoSock => state[pointerClient] \in {"normal", "closing"}

IInv ==
  /\ TypeOK
  /\ QueryingHasDialog
  /\ DesktopServesClients
  /\ DesktopHasClient
  /\ SweptWhenReady
  /\ PointerOwnerListed

USE SocksAssumption, PoliciesAssumption, CoreMayFailAssumption
USE DEF State, PreAuth, Shutdown, authenticated, Clients, OthersAuthenticated,
        DialogBusy, UserAccepts, Shared, ReleasePointer,
        serverVars, inputVars, desktopVars, dialogVars, loopVars, vars

-----------------------------------------------------------------------------
(* Each callee and each action keeps the types. *)

LEMMA AdmitTypes ==
  ASSUME TypeOK, NEW s \in Socks, Admit(s)
  PROVE  /\ state' \in [Socks -> State]
         /\ desktopStarted' \in BOOLEAN
         /\ pb' \in {"null", "live", "freed"}
         /\ core' \in {"stopped", "running"}
         /\ starts' \in 0..2
<1>1. state' \in [Socks -> State]
  BY DEF TypeOK, Admit, Close
<1>2. desktopStarted' \in BOOLEAN
  BY DEF TypeOK, Admit
<1>3. CASE UNCHANGED desktopVars
  BY <1>1, <1>3 DEF TypeOK
<1>4. CASE SDisplay_start(TRUE)
  BY <1>1, <1>2, <1>4 DEF TypeOK, SDisplay_start
<1>5. CASE SDisplay_start(FALSE)
  BY <1>1, <1>2, <1>5 DEF TypeOK, SDisplay_start
<1>6. QED
  BY <1>3, <1>4, <1>5 DEF Admit

LEMMA StopTypes ==
  ASSUME TypeOK, (desktopStarted' = FALSE /\ SDisplay_stop) \/ UNCHANGED desktopVars
  PROVE  /\ desktopStarted' \in BOOLEAN
         /\ pb' \in {"null", "live", "freed"}
         /\ core' \in {"stopped", "running"}
         /\ starts' \in 0..2
<1>1. CASE desktopStarted' = FALSE /\ SDisplay_stop
  <2>1. desktopStarted' \in BOOLEAN
    BY <1>1, Zenon
  <2>2. pb' \in {"null", "live", "freed"} /\ core' \in {"stopped", "running"}
    BY <1>1, Zenon DEF SDisplay_stop
  <2>3. starts' \in 0..2
    BY <1>1 DEF SDisplay_stop
  <2>4. QED BY <2>1, <2>2, <2>3
<1>2. CASE UNCHANGED desktopVars
  BY <1>2, Zenon DEF TypeOK
<1>3. QED BY <1>1, <1>2

\* How processing a security message can end, whatever the policy.
SecurityOutcome(s) ==
  \/ /\ state' \in {[state EXCEPT ![s] = "security"], Close({s})}
     /\ UNCHANGED <<desktopVars, dialogVars>>
  \/ Admit(s) /\ UNCHANGED dialogVars
  \/ /\ dialogSock = NoSock
     /\ state' = [state EXCEPT ![s] = "querying"]
     /\ dialogSock' = s
     /\ dialogLive' = TRUE
     /\ answer' = "none"
     /\ UNCHANGED desktopVars

LEMMA SecurityCases ==
  ASSUME NEW s \in Socks, processSecurityMsg(s)
  PROVE  SecurityOutcome(s)
<1>1. CASE queryConnection(s)
  BY <1>1, Zenon DEF queryConnection, Refuse, SecurityOutcome
<1>2. CASE ~queryConnection(s)
  BY <1>2, Zenon DEF processSecurityMsg, SecurityOutcome
<1>3. QED BY <1>1, <1>2

LEMMA SecurityTypes ==
  ASSUME TypeOK, NEW s \in Socks, SecurityOutcome(s)
  PROVE  /\ state' \in [Socks -> State]
         /\ desktopStarted' \in BOOLEAN
         /\ pb' \in {"null", "live", "freed"}
         /\ core' \in {"stopped", "running"}
         /\ starts' \in 0..2
         /\ dialogSock' \in Socks \cup {NoSock}
         /\ dialogLive' \in BOOLEAN
         /\ answer' \in {"none", "accept", "reject"}
<1>1. CASE Admit(s) /\ UNCHANGED dialogVars
  BY <1>1, AdmitTypes DEF TypeOK
<1>2. CASE ~(Admit(s) /\ UNCHANGED dialogVars)
  BY <1>2 DEF SecurityOutcome, TypeOK, Close
<1>3. QED BY <1>1, <1>2

LEMMA RemoveTypes ==
  ASSUME TypeOK, NEW s \in Socks, removeSocket(s),
         UNCHANGED loopVars \/ (loop' = "timeouts" /\ cur' = NoSock)
  PROVE  TypeOK'
<1>1. /\ policy' \in Policies
      /\ state' \in [Socks -> State]
      /\ reverse' \in [Socks -> BOOLEAN]
      /\ pressed' \in [Socks -> SUBSET Keys]
      /\ pointerClient' \in Socks \cup {NoSock}
      /\ held' \in SUBSET Keys
  BY DEF TypeOK, removeSocket
<1>2. /\ desktopStarted' \in BOOLEAN
      /\ pb' \in {"null", "live", "freed"}
      /\ core' \in {"stopped", "running"}
      /\ starts' \in 0..2
  <2>1. (desktopStarted' = FALSE /\ SDisplay_stop) \/ UNCHANGED desktopVars
    BY Zenon DEF removeSocket
  <2>2. QED BY <2>1, StopTypes
<1>3. /\ dialogSock' \in Socks \cup {NoSock}
      /\ answer' \in {"none", "accept", "reject"}
      /\ loop' \in {"ready", "served", "timeouts", "sweep", "exit"}
      /\ cur' \in Socks \cup {NoSock}
  BY DEF TypeOK, removeSocket
<1>4. dialogLive' \in BOOLEAN
  BY Zenon DEF removeSocket
<1>5. QED BY <1>1, <1>2, <1>3, <1>4 DEF TypeOK

LEMMA TypesStep == TypeOK /\ SweptWhenReady /\ [Next]_vars => TypeOK'
<1> SUFFICES ASSUME TypeOK, SweptWhenReady, [Next]_vars PROVE TypeOK'
  OBVIOUS
<1>1. ASSUME NEW s \in Socks, ProcessException(s) PROVE TypeOK'
  BY <1>1 DEF TypeOK, ProcessException, Readable, Close
<1>2. ASSUME NEW s \in Socks, ProcessVersionMsg(s) PROVE TypeOK'
  BY <1>2, SecurityCases, SecurityTypes DEF TypeOK, ProcessVersionMsg, Readable
<1>3. ASSUME NEW s \in Socks, ProcessSecurityTypeMsg(s) PROVE TypeOK'
  BY <1>3, SecurityCases, SecurityTypes DEF TypeOK, ProcessSecurityTypeMsg, Readable
<1>4. ASSUME NEW s \in Socks, ProcessSecurityMsg(s) PROVE TypeOK'
  BY <1>4, SecurityCases, SecurityTypes DEF TypeOK, ProcessSecurityMsg, Readable
<1>5. ASSUME NEW s \in Socks, NEW f \in BOOLEAN, clientInit(s, f) PROVE TypeOK'
  BY <1>5 DEF TypeOK, clientInit, Readable, Close
<1>6. ASSUME NEW s \in Socks, NEW k \in Keys, NEW d \in BOOLEAN, keyEvent(s, k, d) PROVE TypeOK'
  BY <1>6 DEF TypeOK, keyEvent, Readable
<1>7. ASSUME NEW s \in Socks, NEW b \in BOOLEAN, pointerEvent(s, b) PROVE TypeOK'
  BY <1>7 DEF TypeOK, pointerEvent, Readable
<1>8. ASSUME NEW s \in Socks, NEW r \in BOOLEAN, NewConnection(s, r) PROVE TypeOK'
  BY <1>8 DEF TypeOK, NewConnection
<1>9. CASE SocketServed
  <2>1. cur \in Socks BY <1>9 DEF SocketServed, SweptWhenReady
  <2>2. QED BY <1>9, <2>1, RemoveTypes DEF TypeOK, SocketServed
<1>10. CASE CheckTimeouts
  BY <1>10 DEF TypeOK, CheckTimeouts, Close
<1>11. ASSUME NEW s \in Socks, SweepSocket(s) PROVE TypeOK'
  BY <1>11, RemoveTypes DEF SweepSocket
<1>12. CASE SweepDone
  BY <1>12 DEF TypeOK, SweepDone
<1>13. CASE DisconnectClients
  BY <1>13 DEF TypeOK, DisconnectClients, HostEvent, Close
<1>14. CASE DialogAnswers
  BY <1>14 DEF TypeOK, DialogAnswers
<1>15. CASE QueryConnectionComplete
  <2>1. /\ state' \in [Socks -> State]
        /\ desktopStarted' \in BOOLEAN
        /\ pb' \in {"null", "live", "freed"}
        /\ core' \in {"stopped", "running"}
        /\ starts' \in 0..2
    <3>1. dialogSock \in Socks
      BY <1>15 DEF QueryConnectionComplete, TypeOK
    <3>2. CASE Admit(dialogSock)
      BY <3>1, <3>2, AdmitTypes
    <3>3. CASE ~Admit(dialogSock)
      BY <1>15, <3>1, <3>3 DEF QueryConnectionComplete, ApproveConnection, Refuse, Close, TypeOK
    <3>4. QED BY <3>2, <3>3
  <2>2. QED BY <1>15, <2>1 DEF TypeOK, QueryConnectionComplete, HostEvent
<1>16. CASE UpdateEvent
  BY <1>16 DEF TypeOK, UpdateEvent, HostEvent, Close
<1>17. CASE RestartFails
  BY <1>17 DEF TypeOK, RestartFails, HostEvent, Close
<1>18. CASE GetFbSize
  BY <1>18 DEF TypeOK, GetFbSize, HostEvent
<1>19. CASE ServerShutdown
  <2>1. (desktopStarted' = FALSE /\ SDisplay_stop) \/ UNCHANGED desktopVars
    BY <1>19, Zenon DEF ServerShutdown
  <2>2. /\ desktopStarted' \in BOOLEAN
        /\ pb' \in {"null", "live", "freed"}
        /\ core' \in {"stopped", "running"}
        /\ starts' \in 0..2
    BY <2>1, StopTypes
  <2>3. held' \in SUBSET Keys
    BY <1>19 DEF TypeOK, ServerShutdown
  <2>4. QED BY <1>19, <2>2, <2>3 DEF TypeOK, ServerShutdown
<1>20. CASE UNCHANGED vars
  BY <1>20 DEF TypeOK
<1>21. QED
  BY <1>1, <1>2, <1>3, <1>4, <1>5, <1>6, <1>7, <1>8, <1>9, <1>10, <1>11, <1>12,
     <1>13, <1>14, <1>15, <1>16, <1>17, <1>18, <1>19, <1>20 DEF Next, SocketEvent

-----------------------------------------------------------------------------
(* The other conjuncts of the invariant, callee by callee. *)

Kept == QueryingHasDialog' /\ DesktopServesClients' /\ DesktopHasClient' /\ PointerOwnerListed'

USE DEF QueryingHasDialog, DesktopServesClients, DesktopHasClient, PointerOwnerListed

\* Closing clients keeps the invariant, whoever they are.
LEMMA CloseKeeps ==
  ASSUME IInv, NEW S \in SUBSET Clients, state' = Close(S),
         UNCHANGED <<pointerClient, desktopVars, dialogVars>>
  PROVE  Kept
<1>1. QueryingHasDialog'
  BY DEF IInv, TypeOK, Close
<1>2. DesktopServesClients'
  BY DEF IInv, TypeOK, Close
<1>3. DesktopHasClient'
  BY DEF IInv, TypeOK, Close
<1>4. PointerOwnerListed'
  BY DEF IInv, TypeOK, Close
<1>5. QED BY <1>1, <1>2, <1>3, <1>4 DEF Kept

\* A client is let in: the desktop runs afterwards, or the client is closed.
LEMMA AdmitKeeps ==
  ASSUME IInv, NEW s \in Socks, Admit(s), UNCHANGED pointerClient,
         state[s] \in PreAuth \cup {"querying"},
         \A t \in Socks : state[t] \notin Shutdown,
         \/ UNCHANGED dialogVars /\ state[s] # "querying"
         \/ state[s] = "querying"
  PROVE  Kept
<1>1. \A t \in Socks \ {s} : state'[t] = state[t]
  BY DEF IInv, TypeOK, Admit, Close
<1>2. state'[s] \in {"initialisation", "closing"}
  BY DEF IInv, TypeOK, Admit, Close
<1>3. QueryingHasDialog'
  BY <1>1, <1>2 DEF IInv
<1>4. state'[s] = "initialisation" => desktopStarted' /\ pb' = "live" /\ core' = "running"
  <2>1. CASE desktopStarted
    BY <2>1 DEF IInv, Admit
  <2>2. CASE ~desktopStarted
    BY <2>2 DEF IInv, TypeOK, Admit, SDisplay_start, Close
  <2>3. QED BY <2>1, <2>2
<1>5. DesktopServesClients'
  <2>1. CASE desktopStarted
    BY <1>1, <1>2, <1>4, <2>1 DEF IInv, Admit
  <2>2. CASE ~desktopStarted
    BY <1>1, <1>2, <1>4, <2>2 DEF IInv
  <2>3. QED BY <2>1, <2>2
<1>6. DesktopHasClient'
  BY <1>2
<1>7. PointerOwnerListed'
  BY <1>1 DEF IInv, TypeOK
<1>8. QED BY <1>3, <1>5, <1>6, <1>7 DEF Kept

\* A socket is removed: the desktop stops with its last authenticated client.
LEMMA RemoveKeeps ==
  ASSUME IInv, NEW s \in Socks, removeSocket(s), state[s] \in Shutdown
  PROVE  Kept
<1>1. \A t \in Socks \ {s} : state'[t] = state[t]
  BY DEF IInv, TypeOK, removeSocket
<1>2. state'[s] = "none"
  BY DEF IInv, TypeOK, removeSocket
<1>3. QueryingHasDialog'
  BY <1>1, <1>2 DEF IInv, removeSocket
<1>4. PointerOwnerListed'
  BY <1>1, <1>2 DEF IInv, TypeOK, removeSocket
<1>5. CASE \E t \in Socks \ {s} : authenticated(state[t])
  <2>1. UNCHANGED desktopVars
    BY <1>5, Zenon DEF removeSocket
  <2>2. QED BY <1>1, <1>2, <1>3, <1>4, <1>5, <2>1 DEF IInv, Kept
<1>6. CASE ~\E t \in Socks \ {s} : authenticated(state[t])
  <2>1. DesktopServesClients'
    BY <1>1, <1>2, <1>6
  <2>2. CASE state[s] = "rejected"
    <3>1. UNCHANGED desktopVars
      BY <2>2, Zenon DEF removeSocket
    <3>2. QED BY <1>1, <1>2, <1>3, <1>4, <2>1, <2>2, <3>1 DEF IInv, Kept
  <2>3. CASE state[s] # "rejected" /\ desktopStarted
    <3>1. desktopStarted' = FALSE
      BY <1>6, <2>3, Zenon DEF removeSocket
    <3>2. QED BY <1>3, <1>4, <2>1, <3>1 DEF Kept
  <2>4. CASE ~desktopStarted
    <3>1. UNCHANGED desktopVars
      BY <2>4, Zenon DEF removeSocket
    <3>2. QED BY <1>3, <1>4, <2>1, <2>4, <3>1 DEF Kept
  <2>5. QED BY <2>2, <2>3, <2>4
<1>7. QED BY <1>5, <1>6

\* A security message: only a client that has not authenticated sends one, so
\* nothing was shut down earlier in the same event.
LEMMA SecurityKeeps ==
  ASSUME IInv, NEW s \in Socks, Readable(s), state[s] \in PreAuth,
         SecurityOutcome(s), UNCHANGED pointerClient
  PROVE  Kept
<1>1. \A t \in Socks : state[t] \notin Shutdown
  BY DEF IInv, SweptWhenReady, Readable
<1>2. CASE state' = Close({s}) /\ UNCHANGED <<desktopVars, dialogVars>>
  BY <1>2, CloseKeeps, {s} \in SUBSET Clients
<1>3. CASE state' = [state EXCEPT ![s] = "security"] /\ UNCHANGED <<desktopVars, dialogVars>>
  BY <1>1, <1>3 DEF IInv, TypeOK, Kept
<1>4. CASE Admit(s) /\ UNCHANGED dialogVars
  BY <1>1, <1>4, AdmitKeeps
<1>5. CASE /\ dialogSock = NoSock
           /\ state' = [state EXCEPT ![s] = "querying"]
           /\ dialogSock' = s
           /\ dialogLive' = TRUE
           /\ UNCHANGED desktopVars
  BY <1>1, <1>5 DEF IInv, TypeOK, Kept
<1>6. QED BY <1>2, <1>3, <1>4, <1>5 DEF SecurityOutcome

\* An action that leaves clients, desktop, dialog and pointer owner alone.
LEMMA QuietKeeps ==
  ASSUME IInv, UNCHANGED <<state, desktopVars, dialogSock, dialogLive, pointerClient>>
  PROVE  Kept
BY DEF IInv, Kept

\* The pointer changes hands among clients in the session.
LEMMA PointerKeeps ==
  ASSUME IInv, NEW s \in Socks, NEW b \in BOOLEAN, pointerEvent(s, b)
  PROVE  Kept
<1>1. PointerOwnerListed'
  BY DEF pointerEvent
<1>2. QED BY <1>1 DEF IInv, Kept, pointerEvent

\* The sharing decision: the client enters the session and closes the others,
\* or is closed itself.
LEMMA InitKeeps ==
  ASSUME IInv, NEW s \in Socks, NEW f \in BOOLEAN, clientInit(s, f)
  PROVE  Kept
<1>1. CASE state' = Close({s})
  BY <1>1, CloseKeeps, {s} \in SUBSET Clients DEF clientInit, Readable
<1>2. CASE state' # Close({s})
  <2>1. /\ state'[s] = "normal"
        /\ \A t \in Socks \ {s} : state'[t] \in {state[t], "closing"}
        /\ \A t \in Socks \ {s} : state'[t] = "closing" => state[t] \in State \ {"none"}
    BY <1>2 DEF clientInit, Close, IInv, TypeOK
  <2>2. UNCHANGED <<pointerClient, desktopVars, dialogVars>>
    BY DEF clientInit
  <2>3. authenticated(state[s])
    BY DEF clientInit
  <2>4. desktopStarted' /\ pb' = "live" /\ core' = "running"
    BY <2>2, <2>3 DEF IInv
  <2>5. QueryingHasDialog'
    BY <2>1, <2>2 DEF IInv
  <2>6. DesktopServesClients' /\ DesktopHasClient'
    BY <2>1, <2>4
  <2>7. PointerOwnerListed'
    BY <2>1, <2>2 DEF IInv, TypeOK
  <2>8. QED BY <2>5, <2>6, <2>7 DEF Kept
<1>3. QED BY <1>1, <1>2

\* A new connection takes an address that nothing used.
LEMMA NewKeeps ==
  ASSUME IInv, NEW s \in Socks, NEW r \in BOOLEAN, NewConnection(s, r)
  PROVE  Kept
<1>1. /\ state'[s] \in {"version", "closing", "rejected"}
      /\ \A t \in Socks \ {s} : state'[t] = state[t]
      /\ state[s] = "none"
  BY DEF NewConnection, IInv, TypeOK
<1>2. UNCHANGED <<pointerClient, desktopVars, dialogVars>>
  BY DEF NewConnection
<1>3. QueryingHasDialog' /\ PointerOwnerListed'
  BY <1>1, <1>2 DEF IInv, TypeOK
<1>4. DesktopServesClients' /\ DesktopHasClient'
  BY <1>1, <1>2 DEF IInv
<1>5. QED BY <1>3, <1>4 DEF Kept

\* The dialog's answer arrives while the host loop waits: nobody is shut down.
LEMMA AnswerKeeps ==
  ASSUME IInv, QueryConnectionComplete
  PROVE  Kept
<1> DEFINE s == dialogSock
<1>1. s \in Socks
  BY DEF IInv, TypeOK, QueryConnectionComplete
<1>2. \A t \in Socks : state[t] \notin Shutdown
  BY DEF IInv, SweptWhenReady, QueryConnectionComplete, HostEvent
<1>3. CASE state[s] = "querying" /\ Admit(s)
  <2>1. UNCHANGED pointerClient
    BY DEF QueryConnectionComplete
  <2>2. QED BY <1>1, <1>2, <1>3, <2>1, AdmitKeeps
<1>4. CASE ~(state[s] = "querying" /\ Admit(s))
  <2>1. /\ UNCHANGED <<pointerClient, desktopVars>>
        /\ \/ state' = Close({s}) /\ s \in Clients
           \/ UNCHANGED state
              /\ state[s] # "querying"
    BY <1>1, <1>4 DEF QueryConnectionComplete, ApproveConnection, Refuse
  <2>2. /\ \A t \in Socks \ {s} : state'[t] = state[t]
        /\ state'[s] # "querying"
    BY <1>1, <2>1 DEF IInv, TypeOK, Close
  <2>3. QueryingHasDialog'
    BY <2>2 DEF IInv
  <2>4. DesktopServesClients' /\ DesktopHasClient' /\ PointerOwnerListed'
    <3>1. CASE UNCHANGED state
      BY <2>1, <3>1 DEF IInv
    <3>2. CASE state' = Close({s}) /\ s \in Clients
      BY <1>1, <2>1, <3>2 DEF IInv, TypeOK, Close
    <3>3. QED BY <2>1, <3>1, <3>2
  <2>5. QED BY <2>3, <2>4 DEF Kept
<1>5. QED BY <1>3, <1>4

\* After a restart that failed every client is closed, and the desktop still
\* counts as started.
LEMMA RestartKeeps ==
  ASSUME IInv, RestartFails
  PROVE  Kept
<1>1. /\ state' = Close(Clients)
      /\ UNCHANGED <<pointerClient, desktopStarted, dialogVars>>
  BY DEF RestartFails
<1>2. \A t \in Socks : state'[t] \in {"none", "rejected", "closing"}
  BY <1>1 DEF Close, IInv, TypeOK
<1>3. QueryingHasDialog' /\ DesktopServesClients'
  BY <1>2
<1>4. DesktopHasClient' /\ PointerOwnerListed'
  BY <1>1 DEF IInv, TypeOK, Close
<1>5. QED BY <1>3, <1>4 DEF Kept

LEMMA ShutdownKeeps ==
  ASSUME IInv, ServerShutdown
  PROVE  Kept
<1>1. /\ \A t \in Socks : state'[t] = "none"
      /\ pointerClient' = NoSock
  BY DEF ServerShutdown
<1>2. ~desktopStarted'
  BY Zenon DEF ServerShutdown
<1>3. QED BY <1>1, <1>2 DEF Kept

-----------------------------------------------------------------------------
(* The host loop: what is shut down where. *)

\* While an event of client s is served, s is the only one that goes from
\* alive to shut down, unless s has just entered the session.
LEMMA ServeSweeps ==
  ASSUME IInv, NEW s \in Socks, Readable(s),
         \/ state'[s] \in {"normal", "closing"}
         \/ \A t \in Socks : state'[t] \notin Shutdown
  PROVE  SweptWhenReady'
BY DEF SweptWhenReady, Readable

LEMMA SecuritySweeps ==
  ASSUME IInv, NEW s \in Socks, Readable(s), state[s] \in PreAuth, SecurityOutcome(s)
  PROVE  SweptWhenReady'
<1>1. \A t \in Socks : state[t] \notin Shutdown
  BY DEF IInv, SweptWhenReady, Readable
<1>2. /\ \A t \in Socks \ {s} : state'[t] = state[t]
      /\ state'[s] \in {"security", "closing", "initialisation", "querying"}
  BY DEF SecurityOutcome, Admit, Close, IInv, TypeOK
<1>3. QED BY <1>1, <1>2, ServeSweeps

LEMMA SocketEventKeeps ==
  ASSUME IInv, NEW s \in Socks, SocketEvent(s)
  PROVE  Kept /\ SweptWhenReady'
<1>1. CASE ProcessException(s)
  <2>1. Readable(s) /\ state' = Close({s})
    BY <1>1 DEF ProcessException
  <2>2. UNCHANGED <<pointerClient, desktopVars, dialogVars>>
    BY <1>1 DEF ProcessException
  <2>3. Kept
    BY <2>1, <2>2, CloseKeeps, {s} \in SUBSET Clients DEF Readable
  <2>4. state'[s] = "closing"
    BY <2>1 DEF Close
  <2>5. QED BY <2>1, <2>3, <2>4, ServeSweeps
<1>2. CASE ProcessVersionMsg(s)
  <2>1. CASE processSecurityMsg(s)
    <3>1. Readable(s) /\ state[s] \in PreAuth /\ UNCHANGED pointerClient
      BY <1>2 DEF ProcessVersionMsg
    <3>2. QED BY <2>1, <3>1, SecurityCases, SecurityKeeps, SecuritySweeps
  <2>2. CASE state' = [state EXCEPT ![s] = "sectype"] /\ UNCHANGED <<desktopVars, dialogVars>>
    <3>1. Readable(s) /\ state[s] = "version" /\ UNCHANGED pointerClient
      BY <1>2 DEF ProcessVersionMsg
    <3>2. \A t \in Socks : state[t] \notin Shutdown
      BY <3>1 DEF IInv, SweptWhenReady, Readable
    <3>3. \A t \in Socks : state'[t] = IF t = s THEN "sectype" ELSE state[t]
      BY <2>2 DEF IInv, TypeOK
    <3>4. SweptWhenReady'
      BY <3>1, <3>2, <3>3, ServeSweeps
    <3>5. Kept
      BY <2>2, <3>1, <3>3 DEF Kept, IInv, TypeOK
    <3>6. QED BY <3>4, <3>5
  <2>3. QED BY <1>2, <2>1, <2>2 DEF ProcessVersionMsg
<1>3. CASE ProcessSecurityTypeMsg(s) \/ ProcessSecurityMsg(s)
  <2>1. /\ Readable(s) /\ state[s] \in PreAuth /\ UNCHANGED pointerClient
        /\ processSecurityMsg(s)
    BY <1>3 DEF ProcessSecurityTypeMsg, ProcessSecurityMsg
  <2>2. QED BY <2>1, SecurityCases, SecurityKeeps, SecuritySweeps
<1>4. ASSUME NEW f \in BOOLEAN, clientInit(s, f) PROVE Kept /\ SweptWhenReady'
  <2>1. Readable(s)
    BY <1>4 DEF clientInit
  <2>2. state'[s] \in {"normal", "closing"}
    BY <1>4 DEF clientInit, Close, IInv, TypeOK
  <2>3. QED BY <1>4, <2>1, <2>2, ServeSweeps, InitKeeps
<1>5. ASSUME NEW k \in Keys, NEW d \in BOOLEAN, keyEvent(s, k, d)
      PROVE  Kept /\ SweptWhenReady'
  <2>1. /\ Readable(s)
        /\ state'[s] = "normal"
        /\ UNCHANGED <<state, desktopVars, dialogSock, dialogLive, pointerClient>>
    BY <1>5 DEF keyEvent
  <2>2. QED BY <2>1, ServeSweeps, QuietKeeps
<1>6. ASSUME NEW b \in BOOLEAN, pointerEvent(s, b) PROVE Kept /\ SweptWhenReady'
  <2>1. Readable(s) /\ state'[s] = "normal"
    BY <1>6 DEF pointerEvent
  <2>2. QED BY <1>6, <2>1, ServeSweeps, PointerKeeps
<1>7. QED BY <1>1, <1>2, <1>3, <1>4, <1>5, <1>6 DEF SocketEvent

LEMMA InitInv == Init => IInv
<1> SUFFICES ASSUME Init PROVE IInv
  OBVIOUS
<1>1. TypeOK
  <2>1. desktopStarted \in BOOLEAN /\ dialogLive \in BOOLEAN
    BY Zenon DEF Init
  <2>2. QED BY <2>1 DEF Init, TypeOK
<1>2. ~desktopStarted /\ loop = "timeouts" /\ pointerClient = NoSock
  BY DEF Init
<1>3. \A s \in Socks : state[s] = "none"
  BY DEF Init
<1>4. QED BY <1>1, <1>2, <1>3 DEF IInv, SweptWhenReady

\* The induction step.
LEMMA IInvStep == IInv /\ [Next]_vars => IInv'
<1> SUFFICES ASSUME IInv, [Next]_vars PROVE IInv'
  OBVIOUS
<1> TypeOK'
  BY TypesStep DEF IInv
<1> SUFFICES Kept /\ SweptWhenReady'
  BY DEF Kept, IInv
<1>1. ASSUME NEW s \in Socks, SocketEvent(s) PROVE Kept /\ SweptWhenReady'
  BY <1>1, SocketEventKeeps
<1>2. ASSUME NEW s \in Socks, NEW r \in BOOLEAN, NewConnection(s, r)
      PROVE  Kept /\ SweptWhenReady'
  <2>1. SweptWhenReady'
    BY <1>2 DEF NewConnection, SweptWhenReady
  <2>2. QED BY <1>2, <2>1, NewKeeps
<1>3. CASE SocketServed
  <2>1. SweptWhenReady'
    BY <1>3 DEF SocketServed, SweptWhenReady
  <2>2. cur \in Socks
    BY <1>3 DEF SocketServed, IInv, SweptWhenReady
  <2>3. QED BY <1>3, <2>1, <2>2, RemoveKeeps, QuietKeeps DEF SocketServed
<1>4. CASE CheckTimeouts
  <2>1. SweptWhenReady'
    BY <1>4 DEF CheckTimeouts, SweptWhenReady
  <2>2. PICK S \in SUBSET Clients : state' = Close(S)
    BY <1>4 DEF CheckTimeouts
  <2>3. UNCHANGED <<pointerClient, desktopVars, dialogVars>>
    BY <1>4 DEF CheckTimeouts
  <2>4. QED BY <2>1, <2>2, <2>3, CloseKeeps
<1>5. ASSUME NEW s \in Socks, SweepSocket(s) PROVE Kept /\ SweptWhenReady'
  <2>1. SweptWhenReady'
    BY <1>5 DEF SweepSocket, SweptWhenReady
  <2>2. QED BY <1>5, <2>1, RemoveKeeps DEF SweepSocket
<1>6. CASE SweepDone
  <2>1. SweptWhenReady'
    BY <1>6 DEF SweepDone, SweptWhenReady
  <2>2. QED BY <1>6, <2>1, QuietKeeps DEF SweepDone
<1>7. CASE DisconnectClients
  <2>1. SweptWhenReady'
    BY <1>7 DEF DisconnectClients, HostEvent, SweptWhenReady
  <2>2. QED BY <1>7, <2>1, CloseKeeps, Clients \in SUBSET Clients DEF DisconnectClients
<1>8. CASE DialogAnswers
  <2>1. SweptWhenReady'
    BY <1>8 DEF DialogAnswers, IInv, SweptWhenReady
  <2>2. QED BY <1>8, <2>1, QuietKeeps DEF DialogAnswers
<1>9. CASE QueryConnectionComplete
  <2>1. SweptWhenReady'
    BY <1>9 DEF QueryConnectionComplete, HostEvent, SweptWhenReady
  <2>2. QED BY <1>9, <2>1, AnswerKeeps
<1>10. CASE UpdateEvent
  <2>1. SweptWhenReady'
    BY <1>10 DEF UpdateEvent, HostEvent, SweptWhenReady
  <2>2. PICK S \in SUBSET Clients : state' = Close(S)
    BY <1>10 DEF UpdateEvent
  <2>3. UNCHANGED <<pointerClient, desktopVars, dialogVars>>
    BY <1>10 DEF UpdateEvent
  <2>4. QED BY <2>1, <2>2, <2>3, CloseKeeps
<1>11. CASE RestartFails
  <2>1. SweptWhenReady'
    BY <1>11 DEF RestartFails, HostEvent, SweptWhenReady
  <2>2. QED BY <1>11, <2>1, RestartKeeps
<1>12. CASE GetFbSize
  <2>1. SweptWhenReady'
    BY <1>12 DEF GetFbSize, HostEvent, SweptWhenReady
  <2>2. ~\E s \in Socks : authenticated(state[s])
    BY <1>12 DEF GetFbSize, IInv
  <2>3. UNCHANGED <<state, pointerClient, desktopStarted, dialogSock, dialogLive>>
    BY <1>12 DEF GetFbSize
  <2>4. QED BY <2>1, <2>2, <2>3 DEF Kept, IInv
<1>13. CASE ServerShutdown
  <2>1. SweptWhenReady'
    BY <1>13 DEF ServerShutdown, SweptWhenReady
  <2>2. QED BY <1>13, <2>1, ShutdownKeeps
<1>14. CASE UNCHANGED vars
  BY <1>14, QuietKeeps DEF IInv, SweptWhenReady
<1>15. QED
  BY <1>1, <1>2, <1>3, <1>4, <1>5, <1>6, <1>7, <1>8, <1>9, <1>10, <1>11, <1>12,
     <1>13, <1>14 DEF Next

-----------------------------------------------------------------------------
(* The theorems. *)

\* The strengthened invariant holds in every reachable state.
THEOREM Invariance == Spec => []IInv
BY InitInv, IInvStep, PTL DEF Spec

\* Every variable keeps its type.
THEOREM TypeCorrect == Spec => []TypeOK
<1>1. IInv => TypeOK BY DEF IInv
<1>2. QED BY <1>1, Invariance, PTL

\* No connection that waits for the local user is without its dialog.
THEOREM QueryingShown == Spec => []QueryingHasDialog
<1>1. IInv => QueryingHasDialog BY DEF IInv
<1>2. QED BY <1>1, Invariance, PTL

\* The desktop serves every authenticated client: the handlers that use the
\* server's buffer find the current one and a running core.
THEOREM DesktopServes == Spec => []DesktopServesClients
<1>1. IInv => DesktopServesClients BY DEF IInv
<1>2. QED BY <1>1, Invariance, PTL

\* The desktop does not run for nobody once the host loop waits.
THEOREM DesktopNotIdle == Spec => []NoIdleDesktop
<1>1. IInv => NoIdleDesktop
  BY DEF IInv, SweptWhenReady, NoIdleDesktop
<1>2. QED BY <1>1, Invariance, PTL

\* The pointer's owner is a client in the session once the host loop waits.
THEOREM PointerOwner == Spec => []PointerOwnerAlive
<1>1. IInv => PointerOwnerAlive
  BY DEF IInv, TypeOK, SweptWhenReady, PointerOwnerAlive
<1>2. QED BY <1>1, Invariance, PTL

\* So what the server remembers of single clients is never of one that is gone.
THEOREM ClientsRemembered == Spec => []RemembersClients
<1>1. QueryingHasDialog /\ PointerOwnerAlive => RemembersClients
  BY DEF RemembersClients
<1>2. QED BY <1>1, QueryingShown, PointerOwner, PTL

\* Under NeverShared the session has one client at most.
Exclusive ==
  policy.neverShared =>
    \A s, t \in Socks : state[s] = "normal" /\ state[t] = "normal" => s = t

\* Only the sharing decision lets a client enter the session.
LEMMA EntersByInit ==
  ASSUME IInv, [Next]_vars, NEW s \in Socks, state'[s] = "normal", state[s] # "normal"
  PROVE  \E f \in BOOLEAN : clientInit(s, f)
<1>1. ASSUME NEW t \in Socks, processSecurityMsg(t) PROVE FALSE
  <2>1. SecurityOutcome(t)
    BY <1>1, SecurityCases
  <2>2. QED BY <2>1 DEF SecurityOutcome, Admit, Close, IInv, TypeOK
<1>2. ASSUME NEW t \in Socks, SocketEvent(t) PROVE \E f \in BOOLEAN : clientInit(s, f)
  <2>1. ~ProcessException(t)
    BY DEF ProcessException, Close
  <2>2. ~ProcessVersionMsg(t) /\ ~ProcessSecurityTypeMsg(t) /\ ~ProcessSecurityMsg(t)
    BY <1>1 DEF ProcessVersionMsg, ProcessSecurityTypeMsg, ProcessSecurityMsg, IInv, TypeOK
  <2>3. \A k \in Keys, d \in BOOLEAN : ~keyEvent(t, k, d)
    BY DEF keyEvent
  <2>4. \A b \in BOOLEAN : ~pointerEvent(t, b)
    BY DEF pointerEvent
  <2>5. PICK f \in BOOLEAN : clientInit(t, f)
    BY <1>2, <2>1, <2>2, <2>3, <2>4 DEF SocketEvent
  <2>6. t = s
    BY <2>5 DEF clientInit, Close, IInv, TypeOK
  <2>7. QED BY <2>5, <2>6
<1>3. ASSUME NEW t \in Socks, removeSocket(t) PROVE FALSE
  BY <1>3 DEF removeSocket, IInv, TypeOK
<1>4. ~QueryConnectionComplete
  BY DEF QueryConnectionComplete, ApproveConnection, Admit, Refuse, Close, IInv, TypeOK
<1>5. ~SocketServed /\ \A t \in Socks : ~SweepSocket(t)
  BY <1>3 DEF SocketServed, SweepSocket, IInv, SweptWhenReady
<1>6. \A t \in Socks, r \in BOOLEAN : ~NewConnection(t, r)
  BY DEF NewConnection, IInv, TypeOK
<1>7. ~CheckTimeouts /\ ~DisconnectClients /\ ~UpdateEvent /\ ~RestartFails
  BY DEF CheckTimeouts, DisconnectClients, UpdateEvent, RestartFails, Close
<1>8. ~SweepDone /\ ~DialogAnswers /\ ~GetFbSize /\ ~ServerShutdown /\ ~UNCHANGED vars
  BY DEF SweepDone, DialogAnswers, GetFbSize, ServerShutdown
<1>9. QED BY <1>2, <1>4, <1>5, <1>6, <1>7, <1>8 DEF Next

\* The policy is set once, before the first connection.
LEMMA PolicyFixed == [Next]_vars => UNCHANGED policy
BY DEF Next, SocketEvent, Readable, ProcessException, ProcessVersionMsg,
       ProcessSecurityTypeMsg, ProcessSecurityMsg, clientInit, keyEvent, pointerEvent,
       NewConnection, SocketServed, removeSocket, CheckTimeouts, SweepSocket, SweepDone,
       DisconnectClients, DialogAnswers, QueryConnectionComplete, UpdateEvent,
       RestartFails, GetFbSize, ServerShutdown

LEMMA ExclusiveStep == IInv /\ Exclusive /\ [Next]_vars => Exclusive'
<1> SUFFICES ASSUME IInv, Exclusive, [Next]_vars, policy.neverShared,
                    NEW s \in Socks, NEW t \in Socks, s # t,
                    state'[s] = "normal", state'[t] = "normal"
             PROVE  FALSE
  BY PolicyFixed DEF Exclusive
<1>1. ASSUME NEW u \in Socks, NEW v \in Socks, u # v, NEW f \in BOOLEAN, clientInit(u, f),
             state'[u] = "normal", state'[v] = "normal"
      PROVE  FALSE
  <2>1. CASE policy.disconnectClients
    BY <1>1, <2>1 DEF clientInit, Close, IInv, TypeOK
  <2>2. CASE ~policy.disconnectClients
    BY <1>1, <2>2 DEF clientInit, Close, IInv, TypeOK
  <2>3. QED BY <2>1, <2>2
<1>2. state[s] = "normal" /\ state[t] = "normal"
  BY <1>1, EntersByInit
<1>3. QED BY <1>2 DEF Exclusive

\* Under NeverShared no step leaves two clients in the session, in whatever
\* order they authenticated, were approved and initialised.
THEOREM NeverShared == Spec => NeverSharedIsExclusive
<1>1. Init => Exclusive
  BY DEF Init, Exclusive
<1>2. Exclusive' => \A s, t \in Socks :
        s # t /\ state'[s] = "normal" /\ state'[t] = "normal" => ~policy'.neverShared
  BY DEF Exclusive
<1>3. IInv /\ Exclusive /\ [Next]_vars
        => [\A s, t \in Socks :
              s # t /\ state'[s] = "normal" /\ state'[t] = "normal" => ~policy.neverShared]_vars
  BY <1>2, ExclusiveStep, PolicyFixed
<1>4. QED BY <1>1, <1>3, Invariance, ExclusiveStep, PTL DEF Spec, NeverSharedIsExclusive

\* Nobody gets from the query into the session but by the local user's yes.
THEOREM UserAdmits == Spec => AdmittedByUser
<1>1. ASSUME IInv, Next, NEW s \in Socks, state[s] = "querying", authenticated(state'[s])
      PROVE  dialogSock = s /\ dialogLive /\ answer = "accept"
  <2>1. dialogSock = s /\ dialogLive
    BY <1>1 DEF IInv
  <2>2. ASSUME NEW t \in Socks, SocketEvent(t) PROVE FALSE
    <3>1. ASSUME processSecurityMsg(t), state[t] \in PreAuth PROVE FALSE
      <4>1. SecurityOutcome(t)
        BY <3>1, SecurityCases
      <4>2. QED BY <1>1, <3>1, <4>1 DEF SecurityOutcome, Admit, Close, IInv, TypeOK
    <3>2. QED
      BY <1>1, <2>2, <3>1
      DEF SocketEvent, ProcessException, ProcessVersionMsg, ProcessSecurityTypeMsg,
          ProcessSecurityMsg, clientInit, keyEvent, pointerEvent, Close, IInv, TypeOK
  <2>3. ASSUME NEW t \in Socks, removeSocket(t) PROVE FALSE
    BY <1>1, <2>3 DEF removeSocket, IInv, TypeOK
  <2>4. ~SocketServed /\ \A t \in Socks : ~SweepSocket(t)
    BY <1>1, <2>3 DEF SocketServed, SweepSocket, IInv, SweptWhenReady
  <2>5. \A t \in Socks, r \in BOOLEAN : ~NewConnection(t, r)
    BY <1>1 DEF NewConnection, IInv, TypeOK
  <2>6. ~CheckTimeouts /\ ~DisconnectClients /\ ~UpdateEvent /\ ~RestartFails
    BY <1>1 DEF CheckTimeouts, DisconnectClients, UpdateEvent, RestartFails, Close
  <2>7. ~SweepDone /\ ~DialogAnswers /\ ~GetFbSize /\ ~ServerShutdown
    BY <1>1 DEF SweepDone, DialogAnswers, GetFbSize, ServerShutdown
  <2>8. QueryConnectionComplete
    BY <1>1, <2>2, <2>4, <2>5, <2>6, <2>7 DEF Next
  <2>9. answer = "accept"
    BY <1>1, <2>1, <2>8 DEF QueryConnectionComplete, ApproveConnection, Refuse, Close
  <2>10. QED BY <2>1, <2>9
<1>2. IInv /\ [Next]_vars
        => [\A s \in Socks :
              state[s] = "querying" /\ authenticated(state'[s])
                => dialogSock = s /\ dialogLive /\ answer = "accept"]_vars
  BY <1>1
<1>3. QED BY <1>2, Invariance, PTL DEF Spec, AdmittedByUser
=============================================================================
