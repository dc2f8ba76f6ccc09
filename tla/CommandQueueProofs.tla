------------------------- MODULE CommandQueueProofs -------------------------
(***************************************************************************)
(* Proofs about CommandQueue, for any number of calling threads: it keeps  *)
(* the promise of CommandMailbox, and no wake-up is lost.                  *)
(***************************************************************************)
EXTENDS CommandQueue, Integers, TLAPS

(***************************************************************************)
(* The inductive invariant: a thread sleeps once and only inside           *)
(* queueCommand, the event and the host thread's place say whether there   *)
(* is a command, and the command in the slot is what its owner wants.      *)
(***************************************************************************)
SleepsOnce ==
  /\ \A i, j \in DOMAIN waiting : waiting[i] = waiting[j] => i = j
  /\ \A t \in Asleep : stage[t] \in {"slot", "done"}

EventHasCommand ==
  commandEvent \/ host \in {"reset", "check", "perform", "join", "clear"}
    => command # "NoCommand"

Owns(t) == IF t = Dialog THEN stage[t] \in {"left", "ended"} ELSE stage[t] = "done"

SlotHasOwner ==
  command # "NoCommand" =>
    /\ wanted[commandData] = command
    /\ \/ Owns(commandData)
       \/ host = "clear" /\ commandData = Dialog /\ stage[Dialog] = "none"

\* The event is reset before the command is looked at.
EventTaken == host \in {"check", "perform", "join", "clear"} => ~commandEvent

\* A thread in queueCommand has come with a command.
AsksKnown == \A t \in Threads : stage[t] \in {"slot", "done"} => wanted[t] \in Commands

IInv ==
  /\ TypeOK
  /\ SleepsOnce
  /\ EventHasCommand
  /\ EventTaken
  /\ AsksKnown
  /\ SlotHasOwner
  /\ NoLostWakeup
  /\ CommandIsSignalled

USE DialogAssumption, EndsAssumption

-----------------------------------------------------------------------------
(* The condition variable's list. *)

LEMMA PushedList ==
  ASSUME TypeOK, SleepsOnce, NEW t \in Threads, t \notin Asleep, wait(t)
  PROVE  /\ waiting' \in Seq(Threads)
         /\ Asleep' = Asleep \cup {t}
         /\ \A i, j \in DOMAIN waiting' : waiting'[i] = waiting'[j] => i = j
<1> DEFINE n == Len(waiting)
<1>1. waiting \in Seq(Threads) /\ n \in Nat /\ DOMAIN waiting = 1 .. n
  BY DEF TypeOK
<1>2. /\ waiting' \in Seq(Threads)
      /\ DOMAIN waiting' = 1 .. (n + 1)
      /\ waiting'[1] = t
      /\ \A i \in 2 .. (n + 1) : waiting'[i] = waiting[i - 1]
  BY <1>1 DEF wait
<1>3. \A i \in 1 .. n : waiting[i] = waiting'[i + 1]
  BY <1>1, <1>2
<1>4. Asleep' = Asleep \cup {t}
  <2>1. ASSUME NEW u \in Asleep' PROVE u \in Asleep \cup {t}
    <3>1. PICK i \in 1 .. (n + 1) : u = waiting'[i]
      BY <1>2, <2>1 DEF Asleep
    <3>2. CASE i = 1
      BY <3>1, <3>2, <1>2
    <3>3. CASE i \in 2 .. (n + 1)
      BY <3>1, <3>3, <1>1, <1>2 DEF Asleep
    <3> QED BY <3>2, <3>3, <1>1
  <2>2. ASSUME NEW u \in Asleep PROVE u \in Asleep'
    <3>1. PICK i \in 1 .. n : u = waiting[i]
      BY <1>1, <2>2 DEF Asleep
    <3>2. u = waiting'[i + 1] /\ i + 1 \in DOMAIN waiting'
      BY <3>1, <1>1, <1>2, <1>3
    <3> QED BY <3>2 DEF Asleep
  <2>3. t \in Asleep'
    BY <1>1, <1>2 DEF Asleep
  <2> QED BY <2>1, <2>2, <2>3
<1>5. ASSUME NEW i \in DOMAIN waiting', NEW j \in DOMAIN waiting', waiting'[i] = waiting'[j]
      PROVE  i = j
  <2>1. \A k \in 2 .. (n + 1) : k - 1 \in DOMAIN waiting /\ waiting'[k] = waiting[k - 1]
    BY <1>1, <1>2
  <2>2. \A k \in 2 .. (n + 1) : waiting'[k] # t
    BY <2>1 DEF Asleep
  <2>3. CASE i = 1 \/ j = 1
    BY <2>2, <2>3, <1>1, <1>2, <1>5
  <2>4. CASE i # 1 /\ j # 1
    <3>1. i - 1 \in DOMAIN waiting /\ j - 1 \in DOMAIN waiting /\ waiting[i - 1] = waiting[j - 1]
      BY <2>1, <2>4, <1>1, <1>2, <1>5
    <3> QED BY <3>1, <1>1, <1>2 DEF SleepsOnce
  <2> QED BY <2>3, <2>4
<1> QED BY <1>2, <1>4, <1>5

LEMMA SignalledList ==
  ASSUME TypeOK, SleepsOnce, signal
  PROVE  /\ waiting' \in Seq(Threads)
         /\ Asleep' \subseteq Asleep
         /\ \A i, j \in DOMAIN waiting' : waiting'[i] = waiting'[j] => i = j
         /\ waiting' # <<>> => \E t \in Asleep : t \notin Asleep'
<1>1. CASE waiting = <<>>
  BY <1>1 DEF TypeOK, SleepsOnce, signal, Asleep
<1>2. CASE waiting # <<>>
  <2> DEFINE n == Len(waiting)
  <2>1. waiting \in Seq(Threads) /\ n \in Nat \ {0} /\ DOMAIN waiting = 1 .. n
    BY <1>2 DEF TypeOK
  <2>2. /\ waiting' \in Seq(Threads)
        /\ DOMAIN waiting' = 1 .. (n - 1)
        /\ \A i \in 1 .. (n - 1) : waiting'[i] = waiting[i + 1]
    BY <1>2, <2>1 DEF signal
  <2>3. \A i \in DOMAIN waiting' : i + 1 \in DOMAIN waiting /\ i + 1 # 1 /\ waiting'[i] = waiting[i + 1]
    BY <2>1, <2>2
  <2>4. Asleep' \subseteq Asleep
    BY <2>3 DEF Asleep
  <2>5. \A i, j \in DOMAIN waiting' : waiting'[i] = waiting'[j] => i = j
    <3> SUFFICES ASSUME NEW i \in DOMAIN waiting', NEW j \in DOMAIN waiting', waiting'[i] = waiting'[j]
                 PROVE  i = j
      OBVIOUS
    <3>1. i + 1 = j + 1
      BY <2>3 DEF SleepsOnce
    <3> QED BY <3>1, <2>1, <2>2
  <2>6. waiting[1] \in Asleep
    BY <2>1 DEF Asleep
  <2>7. waiting[1] \notin Asleep'
    <3> SUFFICES ASSUME NEW i \in DOMAIN waiting', waiting[1] = waiting'[i] PROVE FALSE
      BY DEF Asleep
    <3>1. 1 \in DOMAIN waiting
      BY <2>1
    <3> QED BY <2>3, <3>1 DEF SleepsOnce
  <2> QED BY <2>2, <2>4, <2>5, <2>6, <2>7
<1> QED BY <1>1, <1>2
-----------------------------------------------------------------------------
(* The invariant, action by action. *)

LEMMA InitHolds == Init => IInv
<1> SUFFICES ASSUME Init PROVE IInv
  OBVIOUS
<1>1. stage \in [Threads -> {"none", "open", "idle", "slot", "done", "left", "ended"}]
  BY DEF Init
<1>2. waiting \in Seq(Threads) /\ DOMAIN waiting = {}
  BY DEF Init
<1>3. performed \in {<<>>} \cup Threads \X Commands
  BY DEF Init
<1>4. TypeOK
  BY <1>1, <1>2, <1>3 DEF Init, TypeOK
<1>5. SleepsOnce
  BY <1>2 DEF SleepsOnce, Asleep
<1> QED BY <1>4, <1>5 DEF Init, IInv, EventHasCommand, EventTaken, AsksKnown, SlotHasOwner, NoLostWakeup, CommandIsSignalled

\* A call comes to the loop that waits for the slot, from outside or woken.
LEMMA EnterKeeps ==
  ASSUME IInv, NEW t \in Threads, NEW cmd \in Commands, Enter(t, cmd),
         t \notin Asleep,
         stage[t] \in {"idle", "open", "slot"},
         wanted' \in [Threads -> Commands \cup {"NoCommand"}],
         wanted'[t] = cmd, \A u \in Threads \ {t} : wanted'[u] = wanted[u],
         UNCHANGED <<host, runServer, performed>>
  PROVE  IInv'
<1>0. commandData \in Threads /\ stage \in [Threads -> {"none", "open", "idle", "slot", "done", "left", "ended"}]
  BY DEF IInv, TypeOK
<1>1. CASE command # "NoCommand" /\ stage' = [stage EXCEPT ![t] = "slot"] /\ wait(t) /\ UNCHANGED slotVars
  <2>1. /\ waiting' \in Seq(Threads)
        /\ Asleep' = Asleep \cup {t}
        /\ \A i, j \in DOMAIN waiting' : waiting'[i] = waiting'[j] => i = j
    BY <1>1, PushedList DEF IInv
  <2>2. TypeOK'
    BY <1>1, <2>1 DEF IInv, TypeOK, slotVars
  <2>3. SleepsOnce'
    BY <1>0, <1>1, <2>1 DEF IInv, SleepsOnce, TypeOK
  <2>4. EventHasCommand' /\ EventTaken' /\ CommandIsSignalled' /\ NoLostWakeup'
    BY <1>1 DEF IInv, EventHasCommand, EventTaken, CommandIsSignalled, NoLostWakeup, slotVars
  <2>6. AsksKnown'
    BY <1>0, <1>1 DEF IInv, AsksKnown
  <2>5. SlotHasOwner'
    <3>1. commandData # t
      BY <1>1 DEF IInv, SlotHasOwner, Owns
    <3> QED BY <1>0, <1>1, <3>1 DEF IInv, SlotHasOwner, Owns, slotVars
  <2> QED BY <2>2, <2>3, <2>4, <2>5, <2>6 DEF IInv
<1>2. CASE command = "NoCommand" /\ Put(t, cmd)
  <2>1. command' = cmd /\ cmd # "NoCommand" /\ commandData' = t /\ commandEvent' = TRUE
    BY <1>2 DEF Put, Commands, Calls
  <2>2. /\ waiting' \in Seq(Threads)
        /\ stage' = [stage EXCEPT ![t] = IF t = Dialog THEN "left" ELSE "done"]
        /\ \A i, j \in DOMAIN waiting' : waiting'[i] = waiting'[j] => i = j
        /\ Asleep' = IF t = Dialog THEN Asleep ELSE Asleep \cup {t}
    <3>1. CASE t = Dialog
      BY <1>2, <3>1 DEF Put, Waits, IInv, TypeOK, SleepsOnce, Asleep
    <3>2. CASE t # Dialog
      <4>1. wait(t) /\ stage' = [stage EXCEPT ![t] = "done"]
        BY <1>2, <3>2 DEF Put, Waits
      <4> QED BY <4>1, <3>2, PushedList DEF IInv
    <3> QED BY <3>1, <3>2
  <2>3. TypeOK'
    BY <2>1, <2>2 DEF IInv, TypeOK
  <2>4. SleepsOnce'
    BY <1>0, <2>2 DEF IInv, SleepsOnce, TypeOK
  <2>5. EventHasCommand' /\ EventTaken' /\ CommandIsSignalled' /\ NoLostWakeup'
    <3>1. host \notin {"check", "perform", "join", "clear"}
      BY <1>2 DEF IInv, EventHasCommand
    <3> QED BY <2>1, <3>1 DEF EventHasCommand, EventTaken, CommandIsSignalled, NoLostWakeup
  <2>7. AsksKnown'
    BY <1>0, <2>2 DEF IInv, AsksKnown, TypeOK
  <2>6. SlotHasOwner'
    BY <1>0, <2>1, <2>2 DEF SlotHasOwner, Owns
  <2> QED BY <2>3, <2>4, <2>5, <2>6, <2>7 DEF IInv
<1> QED BY <1>1, <1>2 DEF Enter

LEMMA queueCommandKeeps ==
  ASSUME IInv, NEW t \in Callers, NEW cmd \in Calls, queueCommand(t, cmd)
  PROVE  IInv'
<1>1. t \in Threads /\ cmd \in Commands /\ stage[t] = "idle"
  BY DEF Threads, Commands, queueCommand
<1>2. t \notin Asleep
  BY <1>1 DEF IInv, SleepsOnce
<1>3. /\ wanted' \in [Threads -> Commands \cup {"NoCommand"}]
      /\ wanted'[t] = cmd
      /\ \A u \in Threads \ {t} : wanted'[u] = wanted[u]
  BY <1>1 DEF queueCommand, IInv, TypeOK
<1> QED BY <1>1, <1>2, <1>3, EnterKeeps DEF queueCommand

LEMMA queryConnectionCompleteKeeps ==
  ASSUME IInv, queryConnectionComplete
  PROVE  IInv'
<1>1. Dialog \in Threads /\ "QueryConnectionComplete" \in Commands /\ stage[Dialog] = "open"
  BY DEF Threads, Commands, queryConnectionComplete
<1>2. Dialog \notin Asleep
  BY <1>1 DEF IInv, SleepsOnce
<1>3. /\ wanted' \in [Threads -> Commands \cup {"NoCommand"}]
      /\ wanted'[Dialog] = "QueryConnectionComplete"
      /\ \A u \in Threads \ {Dialog} : wanted'[u] = wanted[u]
  BY <1>1 DEF queryConnectionComplete, IInv, TypeOK
<1> QED BY <1>1, <1>2, <1>3, EnterKeeps DEF queryConnectionComplete

LEMMA SlotWokenKeeps ==
  ASSUME IInv, NEW t \in Threads, SlotWoken(t)
  PROVE  IInv'
<1>1. wanted[t] \in Commands
  BY DEF IInv, AsksKnown, SlotWoken
<1>2. wanted' \in [Threads -> Commands \cup {"NoCommand"}] /\ wanted' = wanted
  BY DEF SlotWoken, IInv, TypeOK
<1> QED BY <1>1, <1>2, EnterKeeps DEF SlotWoken

LEMMA DoneWokenKeeps ==
  ASSUME IInv, NEW t \in Threads, DoneWoken(t)
  PROVE  IInv'
<1>0. /\ stage \in [Threads -> {"none", "open", "idle", "slot", "done", "left", "ended"}]
      /\ t \notin Asleep /\ stage[t] = "done"
  BY DEF IInv, TypeOK, DoneWoken
<1>1. CASE command # "NoCommand" /\ wait(t) /\ UNCHANGED stage
  <2>1. /\ waiting' \in Seq(Threads)
        /\ Asleep' = Asleep \cup {t}
        /\ \A i, j \in DOMAIN waiting' : waiting'[i] = waiting'[j] => i = j
    BY <1>0, <1>1, PushedList DEF IInv
  <2>2. TypeOK' /\ SleepsOnce' /\ SlotHasOwner' /\ AsksKnown'
    BY <1>0, <1>1, <2>1 DEF IInv, TypeOK, SleepsOnce, SlotHasOwner, AsksKnown, Owns, slotVars, DoneWoken
  <2>3. EventHasCommand' /\ EventTaken' /\ CommandIsSignalled' /\ NoLostWakeup'
    BY <1>1 DEF IInv, EventHasCommand, EventTaken, CommandIsSignalled, NoLostWakeup, slotVars, DoneWoken
  <2> QED BY <2>2, <2>3 DEF IInv
<1>2. CASE command = "NoCommand" /\ stage' = [stage EXCEPT ![t] = "idle"] /\ signal
  <2>1. /\ waiting' \in Seq(Threads)
        /\ Asleep' \subseteq Asleep
        /\ \A i, j \in DOMAIN waiting' : waiting'[i] = waiting'[j] => i = j
        /\ waiting' # <<>> => \E u \in Asleep : u \notin Asleep'
    BY <1>2, SignalledList DEF IInv
  <2>2. TypeOK' /\ SleepsOnce'
    BY <1>0, <1>2, <2>1 DEF IInv, TypeOK, SleepsOnce, slotVars, DoneWoken
  <2>3. SlotHasOwner' /\ AsksKnown' /\ EventHasCommand' /\ EventTaken' /\ CommandIsSignalled'
    BY <1>0, <1>2 DEF IInv, SlotHasOwner, AsksKnown, EventHasCommand, EventTaken, CommandIsSignalled, slotVars, DoneWoken
  <2>4. NoLostWakeup'
    <3> SUFFICES ASSUME waiting' # <<>>
                 PROVE  \E u \in Threads : stage'[u] \in {"slot", "done"} /\ u \notin Asleep'
      BY DEF NoLostWakeup
    <3>1. PICK u \in Asleep : u \notin Asleep'
      BY <2>1
    <3>2. u \in Threads
      BY <3>1 DEF Asleep, IInv, TypeOK
    <3>3. u # t /\ stage[u] \in {"slot", "done"}
      BY <1>0, <3>1 DEF IInv, SleepsOnce
    <3> QED BY <1>0, <1>2, <3>1, <3>2, <3>3
  <2> QED BY <2>2, <2>3, <2>4 DEF IInv
<1> QED BY <1>1, <1>2 DEF DoneWoken

LEMMA ClearCommandKeeps ==
  ASSUME IInv, ClearCommand
  PROVE  IInv'
<1>1. /\ waiting' \in Seq(Threads)
      /\ Asleep' \subseteq Asleep
      /\ \A i, j \in DOMAIN waiting' : waiting'[i] = waiting'[j] => i = j
      /\ waiting' # <<>> => \E u \in Asleep : u \notin Asleep'
  BY SignalledList DEF IInv, ClearCommand
<1>2. TypeOK' /\ SleepsOnce'
  BY <1>1 DEF IInv, TypeOK, SleepsOnce, ClearCommand, HostUnchanged
<1>3. ~commandEvent
  BY DEF IInv, EventTaken, ClearCommand
<1>4. /\ SlotHasOwner' /\ AsksKnown' /\ EventHasCommand' /\ EventTaken' /\ CommandIsSignalled'
  BY <1>3 DEF IInv, SlotHasOwner, AsksKnown, EventHasCommand, EventTaken, CommandIsSignalled, ClearCommand, HostUnchanged
<1>5. NoLostWakeup'
  <2> SUFFICES ASSUME waiting' # <<>>
               PROVE  \E u \in Threads : stage'[u] \in {"slot", "done"} /\ u \notin Asleep'
    BY DEF NoLostWakeup
  <2>1. PICK u \in Asleep : u \notin Asleep'
    BY <1>1
  <2>2. u \in Threads /\ stage'[u] \in {"slot", "done"}
    BY <2>1 DEF Asleep, IInv, TypeOK, SleepsOnce, ClearCommand
  <2> QED BY <2>1, <2>2
<1> QED BY <1>2, <1>4, <1>5 DEF IInv

\* Steps that leave the list and the slot alone.
LEMMA HostStepKeeps ==
  ASSUME IInv, EventFound \/ ResetCommandEvent \/ CheckCommand \/ PerformCommand \/ JoinTray
                 \/ JoinLastDialog \/ RunReturns \/ RunFails
  PROVE  IInv'
<1>0. UNCHANGED <<command, commandData, waiting, stage, wanted>>
  BY DEF EventFound, ResetCommandEvent, CheckCommand, PerformCommand, JoinTray,
         JoinLastDialog, RunReturns, RunFails, HostUnchanged, slotVars
<1>1. TypeOK'
  <2>1. performed' \in {<<>>} \cup Threads \X Commands
    <3>1. CASE PerformCommand
      BY <3>1 DEF PerformCommand, IInv, TypeOK, EventHasCommand
    <3>2. CASE UNCHANGED performed
      BY <3>2 DEF IInv, TypeOK
    <3> QED BY <3>1, <3>2 DEF EventFound, ResetCommandEvent, CheckCommand, JoinTray,
         JoinLastDialog, RunReturns, RunFails
  <2>2. commandEvent' \in BOOLEAN /\ runServer' \in BOOLEAN
    BY DEF IInv, TypeOK, EventFound, ResetCommandEvent, CheckCommand, PerformCommand, JoinTray,
         JoinLastDialog, RunReturns, RunFails, HostUnchanged, slotVars
  <2>3. host' \in {"wait", "reset", "check", "perform", "join", "clear", "tray", "dialog", "exited"}
    BY DEF EventFound, ResetCommandEvent, CheckCommand, PerformCommand, JoinTray,
         JoinLastDialog, RunReturns, RunFails
  <2> QED BY <1>0, <2>1, <2>2, <2>3 DEF IInv, TypeOK
<1>2. SleepsOnce' /\ NoLostWakeup' /\ AsksKnown'
  BY <1>0 DEF IInv, SleepsOnce, NoLostWakeup, AsksKnown, Asleep
<1>3. EventHasCommand' /\ EventTaken' /\ CommandIsSignalled'
  BY <1>0 DEF IInv, EventHasCommand, EventTaken, CommandIsSignalled, EventFound, ResetCommandEvent,
       CheckCommand, PerformCommand, JoinTray, JoinLastDialog, RunReturns, RunFails, HostUnchanged, slotVars
<1>4. SlotHasOwner'
  BY <1>0 DEF IInv, SlotHasOwner, Owns, EventFound, ResetCommandEvent,
       CheckCommand, PerformCommand, JoinTray, JoinLastDialog, RunReturns, RunFails
<1> QED BY <1>1, <1>2, <1>3, <1>4 DEF IInv

\* Steps of a thread that is not in queueCommand, and the ones that only
\* change where the dialog's thread is.
LEMMA OtherStepKeeps ==
  ASSUME IInv, DialogStopped \/ JoinDialog \/ queryConnection
                 \/ (\E t \in Callers : stop(t) \/ CallerStopped(t))
  PROVE  IInv'
<1>0. stage \in [Threads -> {"none", "open", "idle", "slot", "done", "left", "ended"}]
  BY DEF IInv, TypeOK
<1>1. UNCHANGED <<command, commandData, commandEvent, waiting, wanted, performed>>
  BY DEF DialogStopped, JoinDialog, queryConnection, stop, CallerStopped, HostUnchanged, slotVars
<1>2. /\ host' = IF JoinDialog THEN "clear" ELSE host
      /\ JoinDialog => host = "join" /\ stage[Dialog] = "ended" /\ stage' = [stage EXCEPT ![Dialog] = "none"]
  BY DEF DialogStopped, JoinDialog, queryConnection, stop, CallerStopped
<1>3. runServer' \in BOOLEAN
  BY DEF IInv, TypeOK, DialogStopped, JoinDialog, queryConnection, stop, CallerStopped, HostUnchanged
<1>4. /\ stage' \in [Threads -> {"none", "open", "idle", "slot", "done", "left", "ended"}]
      /\ \A t \in Threads : stage[t] \in {"slot", "done"} <=> stage'[t] \in {"slot", "done"}
      /\ \A t \in Threads : stage[t] \in {"slot", "done"} => stage'[t] = stage[t]
  <2>1. CASE DialogStopped
    BY <1>0, <2>1 DEF DialogStopped, Threads
  <2>2. CASE JoinDialog
    BY <1>0, <2>2 DEF JoinDialog, Threads
  <2>3. CASE queryConnection
    BY <1>0, <2>3 DEF queryConnection, Threads
  <2>4. CASE \E t \in Callers : stop(t) \/ CallerStopped(t)
    BY <1>0, <2>4 DEF stop, CallerStopped, Threads
  <2> QED BY <2>1, <2>2, <2>3, <2>4
<1>5. TypeOK'
  BY <1>1, <1>2, <1>3, <1>4 DEF IInv, TypeOK
<1>6. SleepsOnce'
  BY <1>1, <1>4 DEF IInv, TypeOK, SleepsOnce, Asleep
<1>7. NoLostWakeup' /\ AsksKnown'
  BY <1>1, <1>4 DEF IInv, NoLostWakeup, AsksKnown, Asleep
<1>8. EventHasCommand' /\ EventTaken' /\ CommandIsSignalled'
  BY <1>1, <1>2 DEF IInv, EventHasCommand, EventTaken, CommandIsSignalled
<1>9. SlotHasOwner'
  <2> SUFFICES ASSUME command # "NoCommand"
               PROVE  /\ wanted[commandData] = command
                      /\ \/ Owns(commandData)'
                         \/ host' = "clear" /\ commandData = Dialog /\ stage'[Dialog] = "none"
    BY <1>1 DEF SlotHasOwner
  <2>1. commandData \in Threads /\ wanted[commandData] = command
    BY DEF IInv, TypeOK, SlotHasOwner
  <2>2. CASE commandData # Dialog
    <3>1. stage[commandData] = "done"
      BY <2>2 DEF IInv, SlotHasOwner, Owns
    <3> QED BY <1>1, <1>4, <2>1, <2>2, <3>1 DEF Owns
  <2>3. CASE commandData = Dialog
    <3>1. \/ stage[Dialog] \in {"left", "ended"}
          \/ host = "clear" /\ stage[Dialog] = "none"
      BY <2>3 DEF IInv, SlotHasOwner, Owns
    <3>2. \/ stage'[Dialog] \in {"left", "ended"}
          \/ host' = "clear" /\ stage'[Dialog] = "none"
      <4>1. CASE DialogStopped
        BY <1>0, <4>1 DEF DialogStopped, Threads
      <4>2. CASE JoinDialog
        BY <1>0, <4>2 DEF JoinDialog, Threads
      <4>3. CASE queryConnection
        BY <3>1, <4>3 DEF queryConnection
      <4>4. CASE \E t \in Callers : stop(t) \/ CallerStopped(t)
        BY <1>0, <3>1, <4>4 DEF stop, CallerStopped, Threads
      <4> QED BY <4>1, <4>2, <4>3, <4>4
    <3> QED BY <1>1, <2>1, <2>3, <3>2 DEF Owns
  <2> QED BY <2>2, <2>3
<1> QED BY <1>5, <1>6, <1>7, <1>8, <1>9 DEF IInv

LEMMA NextKeeps == IInv /\ [Next]_vars => IInv'
<1> SUFFICES ASSUME IInv, [Next]_vars PROVE IInv'
  OBVIOUS
<1>1. ASSUME NEW t \in Callers, NEW cmd \in Calls, queueCommand(t, cmd) PROVE IInv'
  BY <1>1, queueCommandKeeps
<1>2. ASSUME NEW t \in Threads, ThreadStep(t) PROVE IInv'
  BY <1>2, SlotWokenKeeps, DoneWokenKeeps DEF ThreadStep
<1>3. CASE UNCHANGED vars
  <2>1. UNCHANGED <<command, commandData, commandEvent, waiting, stage, wanted, host, runServer, performed>>
    BY <1>3 DEF vars, slotVars
  <2> QED BY <2>1 DEF IInv, TypeOK, SleepsOnce, EventHasCommand, EventTaken, SlotHasOwner, Owns, AsksKnown,
                       NoLostWakeup, CommandIsSignalled, Asleep
<1> QED BY <1>1, <1>2, <1>3, queryConnectionCompleteKeeps, ClearCommandKeeps, HostStepKeeps, OtherStepKeeps
     DEF Next, HostStep

-----------------------------------------------------------------------------
(* The refinement of CommandMailbox, action by action. *)

\* A step that changes no thread's status, asks nothing and performs nothing.
LEMMA Stutters ==
  ASSUME \A u \in Threads : StatusOf(u)' = StatusOf(u), UNCHANGED <<wanted, performed>>
  PROVE  UNCHANGED Mailbox!vars
<1>1. Status' = Status
  BY DEF Status
<1> QED BY <1>1 DEF Mailbox!vars

\* A step that changes one thread's status.
LEMMA OneMoves ==
  ASSUME NEW t \in Threads, NEW s, StatusOf(t)' = s,
         \A u \in Threads \ {t} : StatusOf(u)' = StatusOf(u)
  PROVE  Status' = [Status EXCEPT ![t] = s] /\ Status[t] = StatusOf(t)
BY DEF Status

LEMMA EnterAsks ==
  ASSUME IInv, NEW t \in Threads, NEW cmd \in Commands, Enter(t, cmd),
         stage[t] \in {"idle", "open"}, wanted' = [wanted EXCEPT ![t] = cmd],
         UNCHANGED <<host, performed>>
  PROVE  Mailbox!Ask(t, cmd)
<1>0. stage \in [Threads -> {"none", "open", "idle", "slot", "done", "left", "ended"}]
  BY DEF IInv, TypeOK
<1>1. StatusOf(t) = "idle"
  BY DEF StatusOf, Queued
<1>2. StatusOf(t)' = "asked" /\ \A u \in Threads \ {t} : StatusOf(u)' = StatusOf(u)
  <2>1. CASE command # "NoCommand" /\ stage' = [stage EXCEPT ![t] = "slot"] /\ UNCHANGED slotVars
    BY <1>0, <2>1 DEF StatusOf, Queued, Pending, slotVars
  <2>2. CASE command = "NoCommand" /\ Put(t, cmd)
    <3>1. /\ command' # "NoCommand" /\ commandData' = t
          /\ stage' = [stage EXCEPT ![t] = IF t = Dialog THEN "left" ELSE "done"]
      BY <2>2 DEF Put, Waits, Commands, Calls
    <3>2. host' \notin {"join", "clear"}
      BY <2>2 DEF IInv, EventHasCommand
    <3> QED BY <1>0, <2>2, <3>1, <3>2 DEF StatusOf, Queued, Pending
  <2> QED BY <2>1, <2>2 DEF Enter
<1> QED BY <1>1, <1>2, OneMoves DEF Mailbox!Ask

LEMMA SlotWokenStutters ==
  ASSUME IInv, NEW t \in Threads, SlotWoken(t)
  PROVE  UNCHANGED Mailbox!vars
<1>0. /\ stage \in [Threads -> {"none", "open", "idle", "slot", "done", "left", "ended"}]
      /\ stage[t] = "slot" /\ UNCHANGED <<wanted, host, performed>>
  BY DEF IInv, TypeOK, SlotWoken
<1>1. \A u \in Threads : StatusOf(u)' = StatusOf(u)
  <2>1. CASE command # "NoCommand" /\ stage' = [stage EXCEPT ![t] = "slot"] /\ UNCHANGED slotVars
    BY <1>0, <2>1 DEF StatusOf, Queued, Pending, slotVars
  <2>2. CASE command = "NoCommand" /\ Put(t, wanted[t])
    <3>1. /\ command' # "NoCommand" /\ commandData' = t
          /\ stage' = [stage EXCEPT ![t] = IF t = Dialog THEN "left" ELSE "done"]
      BY <1>0, <2>2 DEF Put, Waits, Commands, Calls, IInv, AsksKnown
    <3>2. host' \notin {"join", "clear"}
      BY <1>0, <2>2 DEF IInv, EventHasCommand
    <3> QED BY <1>0, <2>2, <3>1, <3>2 DEF StatusOf, Queued, Pending
  <2> QED BY <2>1, <2>2 DEF SlotWoken, Enter
<1> QED BY <1>0, <1>1, Stutters

LEMMA DoneWokenReturns ==
  ASSUME IInv, NEW t \in Threads, DoneWoken(t)
  PROVE  UNCHANGED Mailbox!vars \/ Mailbox!Return(t)
<1>0. /\ stage \in [Threads -> {"none", "open", "idle", "slot", "done", "left", "ended"}]
      /\ stage[t] = "done" /\ UNCHANGED <<command, commandData, wanted, host, performed>>
  BY DEF IInv, TypeOK, DoneWoken, slotVars
<1>1. CASE UNCHANGED stage
  <2>1. \A u \in Threads : StatusOf(u)' = StatusOf(u)
    BY <1>0, <1>1 DEF StatusOf, Queued, Pending
  <2> QED BY <1>0, <2>1, Stutters
<1>2. CASE command = "NoCommand" /\ stage' = [stage EXCEPT ![t] = "idle"]
  <2>1. StatusOf(t) = "done"
    BY <1>0, <1>2 DEF StatusOf, Queued, Pending
  <2>2. StatusOf(t)' = "idle" /\ \A u \in Threads \ {t} : StatusOf(u)' = StatusOf(u)
    BY <1>0, <1>2 DEF StatusOf, Queued, Pending
  <2> QED BY <1>0, <2>1, <2>2, OneMoves DEF Mailbox!Return
<1> QED BY <1>1, <1>2 DEF DoneWoken

\* The dialog's call is over when its thread is joined.
LEMMA JoinDialogReturns ==
  ASSUME IInv, JoinDialog
  PROVE  Mailbox!Return(Dialog)
<1>0. /\ stage \in [Threads -> {"none", "open", "idle", "slot", "done", "left", "ended"}]
      /\ stage[Dialog] = "ended" /\ stage' = [stage EXCEPT ![Dialog] = "none"]
      /\ UNCHANGED <<command, commandData, wanted, performed>>
      /\ host = "join" /\ host' = "clear" /\ Dialog \in Threads
  BY DEF IInv, TypeOK, JoinDialog, HostUnchanged, slotVars, Threads
<1>1. StatusOf(Dialog) = "done"
  BY <1>0 DEF StatusOf, Queued, Pending
<1>2. StatusOf(Dialog)' = "idle" /\ \A u \in Threads \ {Dialog} : StatusOf(u)' = StatusOf(u)
  BY <1>0 DEF StatusOf, Queued, Pending
<1> QED BY <1>0, <1>1, <1>2, OneMoves DEF Mailbox!Return

\* The command that is performed is its owner's, and its owner is still in
\* the call.
LEMMA PerformCommandPerforms ==
  ASSUME IInv, PerformCommand
  PROVE  \E t \in Threads : Mailbox!Perform(t)
<1>0. /\ stage \in [Threads -> {"none", "open", "idle", "slot", "done", "left", "ended"}]
      /\ commandData \in Threads /\ command # "NoCommand" /\ wanted[commandData] = command
      /\ UNCHANGED <<command, commandData, wanted, stage>>
      /\ host = "perform" /\ host' \in {"join", "clear"}
      /\ performed' = <<commandData, command>>
  BY DEF IInv, TypeOK, EventHasCommand, SlotHasOwner, PerformCommand, HostUnchanged, slotVars
<1>1. Queued(commandData) /\ Queued(commandData)'
  BY <1>0 DEF IInv, SlotHasOwner, Owns, Queued
<1>2. StatusOf(commandData) = "asked"
  BY <1>0, <1>1 DEF StatusOf, Pending
<1>3. /\ StatusOf(commandData)' = "done"
      /\ \A u \in Threads \ {commandData} : StatusOf(u)' = StatusOf(u)
  <2>1. StatusOf(commandData)' = "done"
    <3>1. stage'[commandData] # "slot"
      BY <1>0, <1>1 DEF Queued
    <3> QED BY <1>0, <1>1, <3>1 DEF StatusOf, Pending
  <2>2. ASSUME NEW u \in Threads \ {commandData} PROVE StatusOf(u)' = StatusOf(u)
    BY <1>0 DEF StatusOf, Queued, Pending
  <2> QED BY <2>1, <2>2
<1> QED BY <1>0, <1>2, <1>3, OneMoves DEF Mailbox!Perform

\* The slot is cleared, or only the host thread's place, the event or the
\* flag of the loop changes.
LEMMA HostStutters ==
  ASSUME IInv, EventFound \/ ResetCommandEvent \/ CheckCommand \/ ClearCommand \/ JoinTray
                 \/ JoinLastDialog \/ RunReturns \/ RunFails
  PROVE  UNCHANGED Mailbox!vars
<1>0. UNCHANGED <<commandData, stage, wanted, performed>>
  BY DEF EventFound, ResetCommandEvent, CheckCommand, ClearCommand, JoinTray,
         JoinLastDialog, RunReturns, RunFails, HostUnchanged, slotVars
<1>1. \A u \in Threads : Pending(u)' = Pending(u)
  <2>1. CASE ClearCommand
    BY <2>1 DEF ClearCommand, Pending
  <2>2. CASE UNCHANGED command /\ ((host \in {"join", "clear"}) <=> (host' \in {"join", "clear"}))
    BY <1>0, <2>2 DEF Pending
  <2> QED BY <2>1, <2>2 DEF EventFound, ResetCommandEvent, CheckCommand, JoinTray,
         JoinLastDialog, RunReturns, RunFails, slotVars
<1>2. \A u \in Threads : StatusOf(u)' = StatusOf(u)
  BY <1>0, <1>1 DEF StatusOf, Queued
<1> QED BY <1>0, <1>2, Stutters

LEMMA OtherStutters ==
  ASSUME IInv, DialogStopped \/ queryConnection \/ (\E t \in Callers : stop(t) \/ CallerStopped(t))
  PROVE  UNCHANGED Mailbox!vars
<1>0. /\ stage \in [Threads -> {"none", "open", "idle", "slot", "done", "left", "ended"}]
      /\ Dialog \in Threads /\ Callers \subseteq Threads /\ Dialog \notin Callers
  BY DEF IInv, TypeOK, Threads
<1>1. UNCHANGED <<command, commandData, wanted, host, performed>>
  BY DEF DialogStopped, queryConnection, stop, CallerStopped, HostUnchanged, slotVars
<1>2. \A u \in Threads : Queued(u)' = Queued(u) /\ (stage'[u] = "slot" <=> stage[u] = "slot")
  <2>1. CASE DialogStopped
    BY <1>0, <2>1 DEF DialogStopped, Queued
  <2>2. CASE queryConnection
    BY <1>0, <2>2 DEF queryConnection, Queued
  <2>3. CASE \E t \in Callers : stop(t) \/ CallerStopped(t)
    BY <1>0, <2>3 DEF stop, CallerStopped, Queued
  <2> QED BY <2>1, <2>2, <2>3
<1>3. \A u \in Threads : StatusOf(u)' = StatusOf(u)
  BY <1>1, <1>2 DEF StatusOf, Pending
<1> QED BY <1>1, <1>3, Stutters

LEMMA NextRefines == IInv /\ [Next]_vars => [Mailbox!Next]_(Mailbox!vars)
<1> SUFFICES ASSUME IInv, [Next]_vars PROVE [Mailbox!Next]_(Mailbox!vars)
  OBVIOUS
<1>1. ASSUME NEW t \in Callers, NEW cmd \in Calls, queueCommand(t, cmd) PROVE Mailbox!Next
  <2>1. t \in Threads /\ cmd \in Commands
    BY DEF Threads, Commands
  <2>2. Mailbox!Ask(t, cmd)
    BY <1>1, <2>1, EnterAsks DEF queueCommand
  <2> QED BY <2>1, <2>2 DEF Mailbox!Next
<1>2. CASE queryConnectionComplete
  <2>1. Dialog \in Threads /\ "QueryConnectionComplete" \in Commands
    BY DEF Threads, Commands
  <2>2. Mailbox!Ask(Dialog, "QueryConnectionComplete")
    BY <1>2, <2>1, EnterAsks DEF queryConnectionComplete
  <2> QED BY <2>1, <2>2 DEF Mailbox!Next
<1>3. ASSUME NEW t \in Threads, ThreadStep(t) PROVE [Mailbox!Next]_(Mailbox!vars)
  BY <1>3, SlotWokenStutters, DoneWokenReturns DEF ThreadStep, Mailbox!Next
<1>4. CASE JoinDialog
  BY <1>4, JoinDialogReturns DEF Mailbox!Next, Threads
<1>5. CASE PerformCommand
  BY <1>5, PerformCommandPerforms DEF Mailbox!Next
<1>6. CASE UNCHANGED vars
  <2>1. \A u \in Threads : StatusOf(u)' = StatusOf(u)
    BY <1>6 DEF vars, slotVars, StatusOf, Queued, Pending
  <2> QED BY <1>6, <2>1, Stutters DEF vars
<1> QED BY <1>1, <1>2, <1>3, <1>4, <1>5, <1>6, HostStutters, OtherStutters DEF Next, HostStep

LEMMA InitRefines == Init => Mailbox!Init
<1> SUFFICES ASSUME Init PROVE Mailbox!Init
  OBVIOUS
<1>1. \A t \in Threads : StatusOf(t) = "idle"
  BY DEF Init, StatusOf, Queued
<1> QED BY <1>1 DEF Init, Mailbox!Init, Status

-----------------------------------------------------------------------------
(* The theorems. *)

\* The invariant holds in every state the host thread and the threads that
\* queue commands come to.
THEOREM QueueInvariance == Spec => []IInv
<1>1. Init => IInv
  BY InitHolds
<1>2. IInv /\ [Next]_vars => IInv'
  BY NextKeeps
<1> QED BY <1>1, <1>2, PTL DEF Spec

\* The variables of the queue keep their types.
THEOREM QueueTypes == Spec => []TypeOK
<1>1. IInv => TypeOK
  BY DEF IInv
<1> QED BY <1>1, QueueInvariance, PTL

\* commandSig never leaves a free slot with only sleepers, however many
\* threads call queueCommand.
THEOREM WakeupsAreKept == Spec => []NoLostWakeup
<1>1. IInv => NoLostWakeup
  BY DEF IInv
<1> QED BY <1>1, QueueInvariance, PTL

\* The host thread never waits with a command in the slot and no event set.
THEOREM CommandsAreSignalled == Spec => []CommandIsSignalled
<1>1. IInv => CommandIsSignalled
  BY DEF IInv
<1> QED BY <1>1, QueueInvariance, PTL

\* The slot with its lock, condition and event implements the mailbox: each
\* command is performed once, with its owner's arguments, before its call
\* returns, whatever threads call and in whatever order they wake.
THEOREM QueueRefinesMailbox == Spec => KeepsMailbox
<1>1. Init => Mailbox!Init
  BY InitRefines
<1>2. IInv /\ [Next]_vars => [Mailbox!Next]_(Mailbox!vars)
  BY NextRefines
<1> QED BY <1>1, <1>2, QueueInvariance, PTL DEF Spec, KeepsMailbox, Mailbox!Spec
=============================================================================
