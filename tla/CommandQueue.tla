---------------------------- MODULE CommandQueue ----------------------------
(***************************************************************************)
(* How other threads have the host thread do things: the one command slot  *)
(* of winvnc::VNCServerWin32 with its lock, its condition variable and its *)
(* event, the dialog's thread, and the end of the host thread's loop with  *)
(* the destructor that joins the threads.                                  *)
(*                                                                         *)
(* A critical section of commandLock is one step, up to a wait in it: wait *)
(* leaves the lock, and the thread enters it again once it was signalled.  *)
(***************************************************************************)
EXTENDS Sequences

CONSTANTS
  Callers,   \* threads that call disconnectClients or addNewClient: in the
             \* program the tray icon's; the interface lets any thread do so
  Dialog,    \* the thread of the Accept/Reject dialog
  Ends       \* how the loop of the host thread may end: "stop", "failure"

ASSUME DialogAssumption == Dialog \notin Callers
ASSUME EndsAssumption == Ends \subseteq {"stop", "failure"}

Threads == Callers \cup {Dialog}
Calls == {"DisconnectClients", "AddClient"}
Commands == Calls \cup {"QueryConnectionComplete"}

VARIABLES
  command,      \* the slot
  commandData,  \* whose data commandData points to
  commandEvent, \* is the event set
  waiting,      \* Condition::waiting, the thread to be woken first in front
  stage,        \* where each thread is; "none" for a dialog that is not there
  wanted,       \* the command each thread calls queueCommand with
  host,         \* where the host thread is
  runServer,    \* VNCServerWin32::runServer
  performed     \* history: the command performed last, and for whom

slotVars == <<command, commandData, commandEvent>>
vars == <<slotVars, waiting, stage, wanted, host, runServer, performed>>

Asleep == {waiting[i] : i \in DOMAIN waiting}

TypeOK ==
  /\ command \in Commands \cup {"NoCommand"}
  /\ commandData \in Threads
  /\ commandEvent \in BOOLEAN
  /\ waiting \in Seq(Threads)
  /\ stage \in [Threads -> {"none", "open", "idle", "slot", "done", "left", "ended"}]
  /\ wanted \in [Threads -> Commands \cup {"NoCommand"}]
  /\ host \in {"wait", "reset", "check", "perform", "join", "clear",
               "tray", "dialog", "exited"}
  /\ runServer \in BOOLEAN
  /\ performed \in {<<>>} \cup Threads \X Commands

Init ==
  /\ command = "NoCommand"
  /\ commandData \in Threads
  /\ commandEvent = FALSE
  /\ waiting = <<>>
  /\ stage = [t \in Threads |-> IF t = Dialog THEN "none" ELSE "idle"]
  /\ wanted = [t \in Threads |-> "NoCommand"]
  /\ host = "wait"
  /\ runServer = TRUE
  /\ performed = <<>>

-----------------------------------------------------------------------------
(* Condition, and queueCommand. *)

\* Condition::wait until it is left by the signal: the thread is asleep.
wait(t) == waiting' = <<t>> \o waiting

\* Condition::signal wakes the thread that has come last.
signal == waiting' = IF waiting = <<>> THEN <<>> ELSE Tail(waiting)

\* Mutant: every call waits.
WaitsAlways(t) == TRUE

\* A call of the dialog's thread does not wait for its command.
Waits(t) == t # Dialog

\* The command is put into the slot.
Put(t, cmd) ==
  /\ command' = cmd
  /\ commandData' = t
  /\ commandEvent' = TRUE
  /\ IF Waits(t) THEN stage' = [stage EXCEPT ![t] = "done"] /\ wait(t)
                 ELSE stage' = [stage EXCEPT ![t] = "left"] /\ UNCHANGED waiting

\* The loop that waits for the slot.
Enter(t, cmd) ==
  \/ /\ command # "NoCommand"
     /\ stage' = [stage EXCEPT ![t] = "slot"]
     /\ wait(t)
     /\ UNCHANGED slotVars
  \/ command = "NoCommand" /\ Put(t, cmd)

\* A menu item, or a message of another program.
queueCommand(t, cmd) ==
  /\ stage[t] = "idle"
  /\ wanted' = [wanted EXCEPT ![t] = cmd]
  /\ Enter(t, cmd)
  /\ UNCHANGED <<host, runServer, performed>>

\* The dialog has its answer.
queryConnectionComplete ==
  /\ stage[Dialog] = "open"
  /\ wanted' = [wanted EXCEPT ![Dialog] = "QueryConnectionComplete"]
  /\ Enter(Dialog, "QueryConnectionComplete")
  /\ UNCHANGED <<host, runServer, performed>>

\* Mutant: the slot is taken for free by whoever is woken.
SlotWokenOnce(t) ==
  /\ stage[t] = "slot"
  /\ t \notin Asleep
  /\ Put(t, wanted[t])
  /\ UNCHANGED <<wanted, host, runServer, performed>>

SlotWoken(t) ==
  /\ stage[t] = "slot"
  /\ t \notin Asleep
  /\ Enter(t, wanted[t])
  /\ UNCHANGED <<wanted, host, runServer, performed>>

\* The loop that waits for the command to be performed.
DoneWoken(t) ==
  /\ stage[t] = "done"
  /\ t \notin Asleep
  /\ \/ /\ command # "NoCommand"
        /\ wait(t)
        /\ UNCHANGED stage
     \/ /\ command = "NoCommand"
        /\ stage' = [stage EXCEPT ![t] = "idle"]
        /\ signal
  /\ UNCHANGED <<slotVars, wanted, host, runServer, performed>>

\* Thread::threadProc of the dialog, after its run().
DialogStopped ==
  /\ stage[Dialog] = "left"
  /\ stage' = [stage EXCEPT ![Dialog] = "ended"]
  /\ UNCHANGED <<slotVars, waiting, wanted, host, runServer, performed>>

-----------------------------------------------------------------------------
(* The host thread. *)

HostUnchanged == UNCHANGED <<wanted, runServer>>

\* EventManager::getMessage finds the command event set.
EventFound ==
  /\ host = "wait"
  /\ commandEvent
  /\ host' = "reset"
  /\ UNCHANGED <<slotVars, waiting, stage, performed>>
  /\ HostUnchanged

\* VNCServerWin32::processEvent, in four steps.
ResetCommandEvent ==
  /\ host = "reset"
  /\ commandEvent' = FALSE
  /\ host' = "check"
  /\ UNCHANGED <<command, commandData, waiting, stage, performed>>
  /\ HostUnchanged

CheckCommand ==
  /\ host = "check"
  /\ host' = IF command = "NoCommand" THEN "wait" ELSE "perform"
  /\ UNCHANGED <<slotVars, waiting, stage, performed>>
  /\ HostUnchanged

PerformCommand ==
  /\ host = "perform"
  /\ performed' = <<commandData, command>>
  /\ host' = IF command = "QueryConnectionComplete" THEN "join" ELSE "clear"
  /\ UNCHANGED <<slotVars, waiting, stage>>
  /\ HostUnchanged

\* The dialog's thread is joined before its object goes.
JoinDialog ==
  /\ host = "join"
  /\ stage[Dialog] = "ended"
  /\ stage' = [stage EXCEPT ![Dialog] = "none"]
  /\ host' = "clear"
  /\ UNCHANGED <<slotVars, waiting, performed>>
  /\ HostUnchanged

\* Mutant: nobody is woken.
ClearSilently ==
  /\ host = "clear"
  /\ command' = "NoCommand"
  /\ host' = "wait"
  /\ UNCHANGED <<commandData, commandEvent, waiting, stage, performed>>
  /\ HostUnchanged

ClearCommand ==
  /\ host = "clear"
  /\ command' = "NoCommand"
  /\ signal
  /\ host' = "wait"
  /\ UNCHANGED <<commandData, commandEvent, stage, performed>>
  /\ HostUnchanged

\* VNCServerWin32::queryConnection, in a socket's event: the command event is
\* looked at first.
queryConnection ==
  /\ host = "wait"
  /\ ~commandEvent
  /\ stage[Dialog] = "none"
  /\ stage' = [stage EXCEPT ![Dialog] = "open"]
  /\ UNCHANGED <<slotVars, waiting, host, performed>>
  /\ HostUnchanged

\* VNCServerWin32::stop, from a menu item or another program.
stop(t) ==
  /\ "stop" \in Ends
  /\ stage[t] = "idle"
  /\ runServer' = FALSE
  /\ UNCHANGED <<slotVars, waiting, stage, wanted, host, performed>>

\* The loop of VNCServerWin32::run: a message, which is looked at when no
\* event is set, ends it after stop().
RunReturns ==
  /\ host = "wait"
  /\ ~commandEvent
  /\ ~runServer
  /\ host' = "tray"
  /\ UNCHANGED <<slotVars, waiting, stage, performed>>
  /\ HostUnchanged

\* The wait fails, or the handler of some event throws.
RunFails ==
  /\ "failure" \in Ends
  /\ host = "wait"
  /\ runServer' = FALSE
  /\ host' = "tray"
  /\ UNCHANGED <<slotVars, waiting, stage, wanted, performed>>

\* Deleting the tray icon asks its thread to end.
CallerStopped(t) ==
  /\ host = "tray"
  /\ stage[t] = "idle"
  /\ stage' = [stage EXCEPT ![t] = "ended"]
  /\ UNCHANGED <<slotVars, waiting, host, performed>>
  /\ HostUnchanged

\* VNCServerWin32::~VNCServerWin32 joins it, then the dialog's.
JoinTray ==
  /\ host = "tray"
  /\ \A t \in Callers : stage[t] = "ended"
  /\ host' = "dialog"
  /\ UNCHANGED <<slotVars, waiting, stage, performed>>
  /\ HostUnchanged

JoinLastDialog ==
  /\ host = "dialog"
  /\ stage[Dialog] \in {"none", "ended"}
  /\ host' = "exited"
  /\ UNCHANGED <<slotVars, waiting, stage, performed>>
  /\ HostUnchanged

-----------------------------------------------------------------------------
ThreadStep(t) == SlotWoken(t) \/ DoneWoken(t)

HostStep ==
  \/ EventFound
  \/ ResetCommandEvent
  \/ CheckCommand
  \/ PerformCommand
  \/ JoinDialog
  \/ ClearCommand
  \/ JoinTray
  \/ JoinLastDialog

Next ==
  \/ \E t \in Callers, cmd \in Calls : queueCommand(t, cmd)
  \/ queryConnectionComplete
  \/ \E t \in Threads : ThreadStep(t)
  \/ DialogStopped
  \/ HostStep
  \/ queryConnection
  \/ \E t \in Callers : stop(t)
  \/ RunReturns
  \/ RunFails
  \/ \E t \in Callers : CallerStopped(t)

Spec == Init /\ [][Next]_vars

\* Threads that can run do, and a thread that has been woken is not for ever
\* overtaken by new dialogs, which take a client and a user; the dialog counts
\* down; the tray icon's thread ends when it is asked to; a quiet moment in
\* which a message is looked at comes again and again.
Fairness ==
  /\ \A t \in Threads : WF_vars(ThreadStep(t))
  /\ \A t \in Callers : SF_vars(command = "NoCommand" /\ ThreadStep(t))
  /\ WF_vars(HostStep)
  /\ WF_vars(queryConnectionComplete)
  /\ WF_vars(DialogStopped)
  /\ \A t \in Callers : SF_vars(CallerStopped(t))
  /\ SF_vars(RunReturns)

FairSpec == Spec /\ Fairness

-----------------------------------------------------------------------------
(* Properties. *)

\* The call a thread is in, seen from outside.
Pending(t) ==
  commandData = t /\ command # "NoCommand" /\ host \notin {"join", "clear"}

Queued(t) == stage[t] \in {"done", "left"} \/ (t = Dialog /\ stage[t] = "ended")

StatusOf(t) ==
  CASE stage[t] = "slot" \/ (Queued(t) /\ Pending(t)) -> "asked"
    [] Queued(t) /\ ~Pending(t) -> "done"
    [] OTHER -> "idle"

Status == [t \in Threads |-> StatusOf(t)]

Mailbox == INSTANCE CommandMailbox WITH status <- Status

\* The slot, the condition variable and the event keep the promise of the
\* mailbox: every command is performed once, as it was asked for, and no call
\* that waits returns before.
KeepsMailbox == Mailbox!Spec

\* A free slot is never slept on: when no command is pending and a thread
\* sleeps on the condition, another one is awake that will take the slot or
\* signal again.  One signal is sent at a time, so a thread that took it and
\* went away would leave the others asleep for ever.
NoLostWakeup ==
  command = "NoCommand" /\ waiting # <<>>
    => \E t \in Threads : stage[t] \in {"slot", "done"} /\ t \notin Asleep

\* A command in the slot is never left there by a host thread that waits
\* without its event.
CommandIsSignalled ==
  command # "NoCommand" /\ host = "wait" => commandEvent

\* While the server runs, a call returns.
CallsReturn ==
  \A t \in Callers : stage[t] \in {"slot", "done"} ~> stage[t] = "idle" \/ ~runServer

\* While the server runs, the dialog's answer is taken and the dialog deleted.
DialogCompletes == stage[Dialog] = "open" ~> stage[Dialog] = "none" \/ ~runServer

\* The command line's -kill: a server that was told to stop ends.
KillEnds == ~runServer ~> host = "exited"

\* VNCServerWin32.h, of stop(): it causes the run() call to return.
StopEndsRun == ~runServer ~> host \in {"tray", "dialog", "exited"}
=============================================================================
