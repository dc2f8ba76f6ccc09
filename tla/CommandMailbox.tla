--------------------------- MODULE CommandMailbox ---------------------------
(***************************************************************************)
(* What winvnc::VNCServerWin32 promises the threads that hand commands to  *)
(* its host thread: every command is performed by the host thread, once,   *)
(* one at a time, with the arguments it was queued with, and a call that   *)
(* waits returns after that.  In which order, and when, is left open.      *)
(***************************************************************************)
CONSTANTS
  Threads,    \* the threads that queue commands
  Commands    \* what they may ask for

VARIABLES
  status,     \* of the call each thread is in
  wanted,     \* the command each thread has last asked for
  performed   \* the command performed last, and for whom

vars == <<status, wanted, performed>>

Init ==
  /\ status = [t \in Threads |-> "idle"]
  /\ wanted = [t \in Threads |-> "NoCommand"]
  /\ performed = <<>>

Ask(t, cmd) ==
  /\ status[t] = "idle"
  /\ status' = [status EXCEPT ![t] = "asked"]
  /\ wanted' = [wanted EXCEPT ![t] = cmd]
  /\ UNCHANGED performed

Perform(t) ==
  /\ status[t] = "asked"
  /\ status' = [status EXCEPT ![t] = "done"]
  /\ performed' = <<t, wanted[t]>>
  /\ UNCHANGED wanted

Return(t) ==
  /\ status[t] = "done"
  /\ status' = [status EXCEPT ![t] = "idle"]
  /\ UNCHANGED <<wanted, performed>>

Next ==
  \E t \in Threads :
    \/ \E cmd \in Commands : Ask(t, cmd)
    \/ Perform(t)
    \/ Return(t)

Spec == Init /\ [][Next]_vars
=============================================================================
