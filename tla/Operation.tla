------------------------------ MODULE Operation -------------------------------
(***************************************************************************)
(* Operations from BeginBusyOperation to the completion (src/main.cpp      *)
(* 600-630): the UI thread installs the traps and starts a thread, the     *)
(* thread makes one call of DockerManager, and its completion removes the  *)
(* traps.  The two components meet in the handler: delivered to the thread *)
(* of the operation while it waits in read(), it ends the read with EINTR, *)
(* since a read with a time limit is not restarted.                        *)
(***************************************************************************)
EXTENDS EngineClient, SignalTraps

CONSTANT MaxOps         \* bound: operations

ASSUME MaxOpsAssumption == MaxOps \in Nat

VARIABLES phase,        \* the operation: free, installing, running, removing
          interrupted   \* the read of the operation's thread has been interrupted

vars == <<client, traps, phase, interrupted>>

Init == ClientInit /\ TrapsInit /\ phase = "free" /\ interrupted = FALSE

BeginBusyOperation ==
    /\ phase = "free" /\ UIRuns /\ operation < MaxOps
    /\ phase' = "installing" /\ todo' = InstallSignalTraps
    /\ operation' = operation + 1 /\ swallowed' = {}
    /\ UNCHANGED <<client, switches, frames, signals, dead, held, disturbed, strayed, interrupted>>

(* A slip, kept for the runs to detect: the thread is started while the traps are installed. *)
StartThreadEarly ==
    /\ phase = "installing" /\ UIRuns
    /\ phase' = "running" /\ held' = TRUE
    /\ \E a \in Acts : Call(a)
    /\ UNCHANGED <<todo, switches, frames, signals, dead, operation, swallowed, disturbed, strayed, interrupted>>

StartThread ==
    /\ phase = "installing" /\ UIRuns /\ todo = <<>>
    /\ phase' = "running" /\ held' = TRUE
    /\ \E a \in Acts : Call(a)
    /\ UNCHANGED <<todo, switches, frames, signals, dead, operation, swallowed, disturbed, strayed, interrupted>>

(* The completion the thread has posted takes the result; the call is over, and so is the operation. *)
Complete_ ==
    /\ phase = "running" /\ UIRuns /\ todo = <<>> /\ pc = "idle"
    /\ phase' = "removing" /\ held' = FALSE /\ todo' = RemoveSignalTraps
    /\ report' = Unreported
    /\ UNCHANGED <<engine, call, pc, conn, got, seen, switches, frames, signals, dead, operation, swallowed, disturbed, strayed, interrupted>>

Completed == /\ phase = "removing" /\ UIRuns /\ todo = <<>>
             /\ phase' = "free"
             /\ UNCHANGED <<client, traps, interrupted>>

UI == \/ BeginBusyOperation \/ StartThread \/ Complete_ \/ Completed
      \/ Statement /\ UNCHANGED <<client, phase, interrupted>>

(* The thread of the operation, when it is not in a handler. *)
WorkerRuns == frames["worker"] = <<>> /\ ~dead

Work == /\ WorkerRuns
        /\ IF interrupted THEN Again ELSE Client
        /\ interrupted' = FALSE
        /\ UNCHANGED <<traps, phase>>

(* The Engine has closed the connection before the request is written: nothing ignores SIGPIPE. *)
BrokenPipe == /\ WorkerRuns /\ pc = "write" /\ EngineEnds
              /\ dead' = TRUE
              /\ UNCHANGED <<client, todo, switches, frames, signals, history, phase, interrupted>>

Waits == pc = "read" /\ ~conn.ended

(* A signal: on the thread of the operation it may find a read() with nothing to read. *)
Signal == \E s \in Trapped, t \in Threads :
              /\ t = "worker" => pc # "idle"
              /\ Deliver(s, t)
              /\ interrupted' \in IF t = "worker" /\ Waits THEN {interrupted, TRUE} ELSE {interrupted}
              /\ UNCHANGED <<client, phase>>

Handle(t) == Handler(t) /\ UNCHANGED <<client, phase, interrupted>>

(* The bound on operations is reached, or TuxDock is no more. *)
Over == (dead \/ (phase = "free" /\ operation = MaxOps)) /\ UNCHANGED vars

Next == \/ UI \/ Work \/ BrokenPipe \/ Signal \/ (\E t \in Threads : Handle(t))
        \/ Engine /\ UNCHANGED <<traps, phase, interrupted>>
        \/ Over

Spec == Init /\ [][Next]_vars

(* The thread of an operation is scheduled, in its handlers and out of them, and a read ends by
   its time limit at the latest (SO_RCVTIMEO). *)
ThreadRuns == WF_vars(Work /\ pc # "connect") /\ WF_vars(Handle("worker"))

(* No time limit is set yet when connect() is called: it returns, with a connection or an error,
   because the Engine, if it runs at all, goes on accepting connections. *)
EngineAccepts == WF_vars(Work /\ pc = "connect")

(* Nothing else is asked of the Engine, and nothing of the UI. *)
FairSpec == Spec /\ ThreadRuns /\ EngineAccepts

Caller == INSTANCE DockerCall WITH
    issued <- Issued, alive <- ~dead, report <- [verdict |-> report.verdict, told |-> report.told]

(* A call, however its request fares, is a DockerCall: it reports success only if Docker was in
   the promised state since it began, and a listing is of such a moment; Docker does nothing
   nobody asked for (request, and the success cases of DockerManager's functions). *)
ImplementsCall == Caller!Spec

(* Every call returns, whatever is lost, late or interrupted, and whether the Engine answers or
   not (the time limit of the reads, the errors of the other calls, request called again), as
   long as connect() does. *)
CallReturns == Caller!Returns
=============================================================================
