----------------------------- MODULE MCThreads -----------------------------
(* Instances of what the threads of the server have to do with each other   *)
(* and with the network: the commands that other threads have the host      *)
(* thread do, the tray icon's thread with its owner, and the host thread's  *)
(* table of the sockets' events.  They share no state: a behaviour is one of *)
(* a single part, which the first state chooses; the others stay in their   *)
(* first state, of which one is enough.                                     *)
EXTENDS CommandQueue, TrayIcon, SocketManager

VARIABLE part

threadVars == <<part, vars, trayVars, socketVars>>

ThreadsInit ==
  /\ part \in {"queue", "tray", "sockets"}
  /\ Init /\ TrayInit /\ SocketsInit
  /\ part # "queue" => commandData = Dialog
  /\ part # "sockets" => cur = CHOOSE s \in Socks : TRUE

QueueTurn(Step) == part = "queue" /\ Step /\ UNCHANGED <<part, trayVars, socketVars>>
TrayTurn(Step) == part = "tray" /\ Step /\ UNCHANGED <<part, vars, socketVars>>
SocketsTurn(Step) == part = "sockets" /\ Step /\ UNCHANGED <<part, vars, trayVars>>

ThreadsNext == QueueTurn(Next) \/ TrayTurn(TrayNext) \/ SocketsTurn(SocketsNext)

\* Fairness, TrayFairness and SocketsFairness, for the steps of this
\* specification.
QueueFairness ==
  /\ \A t \in Threads : WF_threadVars(QueueTurn(ThreadStep(t)))
  /\ \A t \in Callers : SF_threadVars(QueueTurn(command = "NoCommand" /\ ThreadStep(t)))
  /\ WF_threadVars(QueueTurn(HostStep))
  /\ WF_threadVars(QueueTurn(queryConnectionComplete))
  /\ WF_threadVars(QueueTurn(DialogStopped))
  /\ \A t \in Callers : SF_threadVars(QueueTurn(CallerStopped(t)))
  /\ SF_threadVars(QueueTurn(RunReturns))

ThreadsSpec ==
  /\ ThreadsInit /\ [][ThreadsNext]_threadVars /\ QueueFairness
  /\ WF_threadVars(TrayTurn(TrayStep)) /\ WF_threadVars(TrayTurn(OwnerStep))
  /\ WF_threadVars(SocketsTurn(SocketStep)) /\ SF_threadVars(SocketsTurn(Dispatch))
=============================================================================
