---------------------------- MODULE MCTuxDockApp ----------------------------
(* Small instances of TuxDockApp: two containers, one image. *)
EXTENDS TuxDockApp

World(states) == [containers |-> [c \in Containers |-> states[c]], images |-> [i \in Images |-> "idle"]]

(* Container 1 is stopped, container 2 runs. *)
OneRunning == {World(<<"idle", "running">>)}

SessionMenu  == {"show", "create", "stop", "execDetached", "shell", "exit"}
PickMenu     == {"start", "show"}
EndMenu      == {"start", "pull", "shell", "exit"}
ConvergeMenu == {"remove", "stop", "shell"}

NoSignals == {}
Both      == {"SIGINT", "SIGTERM"}
=============================================================================
