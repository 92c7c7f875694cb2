--------------------------- MODULE ReaperContract ---------------------------
(***************************************************************************)
(* What a container may rely on when tuxreaperd is its PID 1, without      *)
(* processes, signals or /proc: it runs one workload, notices that it      *)
(* ended, waits, and ends itself with the workload's status.               *)
(***************************************************************************)
EXTENDS Naturals

CONSTANTS
  WaitStatuses,  \* <<"exit", code>> and <<"signal", n>>
  ForkChecked    \* whether a workload that cannot be forked ends the container

NoWork == <<"none", 0>>
Running == <<"running", 0>>
NoCode == 256

VARIABLES phase, work, code
vars == <<phase, work, code>>

(* The shell convention the README quotes: 128 + signal for signal deaths. *)
ShellStatus(st) == IF st[1] = "signal" THEN 128 + st[2] ELSE st[2]

Init == phase = "starting" /\ work = NoWork /\ code = NoCode

Start ==
  /\ phase = "starting"
  /\ phase' = "supervising"
  /\ work' = Running
  /\ UNCHANGED code

StartFails ==
  /\ phase = "starting"
  /\ IF ForkChecked
     THEN phase' = "exited" /\ code' = 1
     ELSE \/ phase' = "exited" /\ code' = 1
          \/ phase' = "supervising" /\ UNCHANGED code
  /\ UNCHANGED work

WorkEnds ==
  /\ phase = "supervising" /\ work = Running
  /\ work' \in WaitStatuses
  /\ UNCHANGED <<phase, code>>

Notice ==
  /\ phase = "supervising" /\ work \in WaitStatuses
  /\ phase' = "draining"
  /\ UNCHANGED <<work, code>>

End ==
  /\ phase = "draining"
  /\ phase' = "exited"
  /\ code' = ShellStatus(work)
  /\ UNCHANGED work

Next == Start \/ StartFails \/ WorkEnds \/ Notice \/ End

(* Noticing is not promised, ending once it was noticed is. *)
Spec == Init /\ [][Next]_vars /\ WF_vars(End)
=============================================================================
