----------------------------- MODULE SignalTraps ------------------------------
(***************************************************************************)
(* The traps of src/main.cpp (28-105) that keep SIGINT and SIGTSTP from    *)
(* ending or suspending TuxDock during an operation: InstallSignalTraps    *)
(* and RemoveSignalTraps, which the UI thread runs statement by statement, *)
(* and the handler, which any thread may be running meanwhile.             *)
(*                                                                         *)
(* Before the traps, both signals belong to FTXUI's handler ("app").  A    *)
(* signal may be delivered to any thread: to the UI thread, which stops    *)
(* where it is until the handler is done; to the thread of the operation;  *)
(* or to another one (the poller, the refresh, a thread that is done).     *)
(***************************************************************************)
EXTENDS Naturals, Sequences, FiniteSets

CONSTANT MaxSignals     \* bound: signals that arrive

ASSUME SignalsAssumption == MaxSignals \in Nat

Trapped == {"SIGINT", "SIGTSTP"}
Threads == {"ui", "worker", "other"}

VARIABLES todo,                 \* what is left of the function the UI thread is in
          busy, noticed,        \* g_sigint_busy; the counters of trapped signals that are not 0
          installed, previous,  \* g_sig*_trap_installed, g_sig*_previous
          disposition,          \* the kernel's: app, trap or default
          frames,               \* per thread, the handlers on its stack: the last one runs
          signals, dead,        \* signals so far; whether one has killed TuxDock
          operation, held,      \* history: the number of the operation, whether its thread works on it
          swallowed, disturbed, \* history: what the traps swallowed in it; whether FTXUI got one all the same
          strayed               \* history: the signals a handler has given back to the default action

switches == <<busy, noticed, installed, previous, disposition>>
history  == <<operation, held, swallowed, disturbed, strayed>>
traps    == <<todo, switches, frames, signals, dead, history>>

TrapsInit == /\ todo = <<>> /\ busy = FALSE /\ noticed = {} /\ installed = {}
             /\ previous = [s \in Trapped |-> "default"]
             /\ disposition = [s \in Trapped |-> "app"]
             /\ frames = [t \in Threads |-> <<>>] /\ signals = 0 /\ dead = FALSE
             /\ operation = 0 /\ held = FALSE /\ swallowed = {} /\ disturbed = FALSE /\ strayed = {}

(***************************************************************************)
(* The two functions, as the statements they consist of.                   *)
(***************************************************************************)
Do(statement, s) == [do |-> statement, sig |-> s]

(* A slip, kept for the runs to detect: the flag goes up when the handlers are in place. *)
InstallFlagLast == <<Do("clear", "both"),
                     Do("take", "SIGINT"), Do("note", "SIGINT"),
                     Do("take", "SIGTSTP"), Do("note", "SIGTSTP"), Do("raise", "both")>>

(* A slip, kept for the runs to detect: the counters are reset under the flag. *)
InstallClearsLate == <<Do("raise", "both"), Do("take", "SIGINT"), Do("note", "SIGINT"),
                       Do("clear", "both"),
                       Do("take", "SIGTSTP"), Do("note", "SIGTSTP")>>

InstallSignalTraps == <<Do("clear", "both"), Do("raise", "both"),
                        Do("take", "SIGINT"), Do("note", "SIGINT"),
                        Do("take", "SIGTSTP"), Do("note", "SIGTSTP")>>

RemoveSignalTraps == <<Do("lower", "both"), Do("clear", "both"),
                       Do("restore", "SIGINT"), Do("forget", "SIGINT"),
                       Do("restore", "SIGTSTP"), Do("forget", "SIGTSTP")>>

(* What a statement does to the switches; the tests of g_sig*_trap_installed skip it. *)
Execute(do, s) ==
    /\ busy'        = IF do = "raise" THEN TRUE ELSE IF do = "lower" THEN FALSE ELSE busy
    /\ noticed'     = IF do = "clear" THEN {} ELSE noticed
    /\ installed'   = CASE do = "note"   -> installed \cup {s}
                        [] do = "forget" -> installed \ {s}
                        [] OTHER         -> installed
    /\ previous'    = IF do = "take" /\ s \notin installed
                      THEN [previous EXCEPT ![s] = disposition[s]] ELSE previous
    /\ disposition' = CASE do = "take" /\ s \notin installed   -> [disposition EXCEPT ![s] = "trap"]
                        [] do = "restore" /\ s \in installed   -> [disposition EXCEPT ![s] = previous[s]]
                        [] OTHER                               -> disposition

UIRuns == frames["ui"] = <<>> /\ ~dead

Statement == /\ UIRuns /\ todo # <<>>
             /\ Execute(Head(todo).do, Head(todo).sig)
             /\ todo' = Tail(todo)
             /\ UNCHANGED <<frames, signals, dead, history>>

(***************************************************************************)
(* A signal that is acted upon.  FTXUI's handler ends the loop or the      *)
(* terminal's raw mode; the default action kills TuxDock, or suspends it.  *)
(***************************************************************************)
ActedUpon(s, action, of) ==
    /\ dead' = (dead \/ (action = "default" /\ s = "SIGINT"))
    /\ disturbed' = (disturbed \/ (action = "app" /\ of = operation /\ held))

(* The operation a signal came in, 0 when the flag was not up. *)
During == IF busy THEN operation ELSE 0

Frame(s) == [sig |-> s, at |-> "entered", of |-> During]

(* The kernel delivers a signal to thread t, which is not in the handler of the same signal. *)
Deliver(s, t) ==
    /\ signals < MaxSignals /\ ~dead
    /\ \A n \in DOMAIN frames[t] : frames[t][n].sig # s
    /\ signals' = signals + 1
    /\ IF disposition[s] = "trap"
       THEN frames' = [frames EXCEPT ![t] = Append(@, Frame(s))] /\ UNCHANGED <<dead, disturbed>>
       ELSE ActedUpon(s, disposition[s], During) /\ UNCHANGED frames
    /\ UNCHANGED <<todo, switches, operation, held, swallowed, strayed>>

Running(t) == frames[t][Len(frames[t])]
At(t, at)  == frames[t] # <<>> /\ Running(t).at = at /\ ~dead

Pop(t) == frames' = [frames EXCEPT ![t] = SubSeq(@, 1, Len(@) - 1)]

(* TuxDockHandleSigint, TuxDockHandleSigtstp: the test of g_sigint_busy, ... *)
HandlerEnters(t) ==
    /\ At(t, "entered")
    /\ frames' = [frames EXCEPT ![t][Len(frames[t])].at = IF busy THEN "count" ELSE "chain"]
    /\ UNCHANGED <<todo, switches, signals, dead, history>>

(* ... the counter, ... *)
HandlerCounts(t) ==
    /\ At(t, "count")
    /\ noticed' = noticed \cup {Running(t).sig}
    /\ swallowed' = IF Running(t).of = operation THEN swallowed \cup {Running(t).sig} ELSE swallowed
    /\ Pop(t)
    /\ UNCHANGED <<todo, busy, installed, previous, disposition, signals, dead, operation, held, disturbed, strayed>>

(* ... or the previous handler, and without one the default action for good. *)
HandlerChains(t) ==
    /\ At(t, "chain")
    /\ LET s     == Running(t).sig
           chain == s \in installed /\ previous[s] = "app"
       IN  /\ ActedUpon(s, IF chain THEN "app" ELSE "default", Running(t).of)
           /\ disposition' = IF chain THEN disposition ELSE [disposition EXCEPT ![s] = "default"]
           /\ strayed' = IF chain THEN strayed ELSE strayed \cup {s}
    /\ Pop(t)
    /\ UNCHANGED <<todo, busy, noticed, installed, previous, signals, operation, held, swallowed>>

Handler(t) == HandlerEnters(t) \/ HandlerCounts(t) \/ HandlerChains(t)

(***************************************************************************)
(* Properties.                                                             *)
(***************************************************************************)
(* A signal that comes while an operation is under way never reaches FTXUI's handler, which ends
   the loop, as long as that operation is, whichever thread it is delivered to and however long
   its handler takes (TuxDockHandleSigint; DEVLOG.md:72-73). *)
Undisturbed == ~disturbed

(* Only a handler on another thread can give a signal back to the default action for good: one
   delivered to the UI thread, in the middle of InstallSignalTraps or RemoveSignalTraps or
   anywhere else, finds the previous handler to chain to. *)
NeverDefaultOnUI == \A n \in DOMAIN frames["ui"] :
    LET frame == frames["ui"][n]
    IN  frame.at = "chain" /\ frame.sig \notin strayed
            => frame.sig \in installed /\ previous[frame.sig] = "app"

(* A signal swallowed in an operation is shown in its modal until the operation is over
   (the counters, which InstallSignalTraps resets before the flag is up). *)
SwallowedIsShown == busy => swallowed \subseteq noticed
=============================================================================
