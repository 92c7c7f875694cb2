------------------------------ MODULE TuxDockApp ------------------------------
(***************************************************************************)
(* The TuxDock program, src/main.cpp with src/src/docker_state_poller.cpp  *)
(* and src/src/operation_state.cpp: the UI thread, which runs the          *)
(* ScreenInteractive loop and every modal callback, and the threads it     *)
(* starts (the poller, at most one refresh, the spinner, one thread per    *)
(* operation), around the cached lists of Docker's containers and images.  *)
(*                                                                         *)
(* Threads hand results to the UI thread with ScreenInteractive::Post, a   *)
(* FIFO queue of closures.  FTXUI is external and taken as main.cpp uses   *)
(* it: a closure posted while the loop does not accept any (`open` is      *)
(* FALSE: a shell owns the terminal, or the exit closure has run) is       *)
(* dropped, and the loop returns when it accepts none and the queue is     *)
(* empty.  A keystroke is a UI step enabled whenever the UI thread is      *)
(* between two closures; no key is read after the exit closure has run.    *)
(***************************************************************************)
EXTENDS DockerState

CONSTANTS Start,        \* the worlds Docker may be in when TuxDock starts
          Menu,         \* the menu entries the user picks from
          MaxPorts,     \* bound: port mappings of one created container
          MaxOps,       \* bound: operations and shells of one session
          MaxChanges,   \* bound: changes other Docker clients make
          MaxFailures,  \* bound: list requests that fail
          MaxQueue,     \* bound: no poll or refresh starts behind more closures
          Timeouts,     \* whether a timed request may outlast its time limit
          Periodic,     \* whether the poller's 5 s wait may time out
          Signals       \* the signals that may reach TuxDock: SIGINT, SIGTERM

ASSUME BoundsAssumption == {MaxPorts, MaxOps, MaxChanges, MaxFailures, MaxQueue} \subseteq Nat
ASSUME SetupAssumption == /\ Start \subseteq Worlds
                          /\ Menu \subseteq Requests \cup {"show", "exit"}
                          /\ {Timeouts, Periodic} \subseteq BOOLEAN
                          /\ Signals \subseteq {"SIGINT", "SIGTERM"}

VARIABLES
    world, late, changes, failures,         \* Docker, and requests it answers too late
    cache,                                  \* containers_, images_
    queue, open,                            \* the posted closures; whether Post is accepted
    ui,                                     \* what the UI thread is doing
    mode, entries, flow, history,           \* modal_mode_, modal_select_entries_, the callback, history_container_id_
    busy, trapped,                          \* operation_state_, g_sigint_busy with its handlers
    ops, actions,                           \* action_threads_
    spinner, spinnerStop,                   \* spinner_thread_, spinner_stop_
    refresh,                                \* refresh_thread_
    poll, stop, immediate                   \* state_poller_: its thread, stop_, immediate_

docker  == <<world, late, changes, failures>>
modal   == <<mode, entries, flow, history>>
loop    == <<queue, open>>
marks   == <<busy, trapped>>
spin    == <<spinner, spinnerStop>>
poller  == <<poll, stop, immediate>>
vars    == <<docker, cache, loop, ui, modal, marks, ops, actions, spin, refresh, poller>>

(* The two lists a thread fetched: {} for one that is missing, {l} for l. *)
NoLists == [k \in Kinds |-> {}]

Idle    == [pc |-> "none", got |-> NoLists]
Waiting == [pc |-> "wait", got |-> NoLists]
NoFlow  == [act |-> "none", target |-> 0, seen |-> 0, asks |-> <<>>]

Task(kind, from, got) == [kind |-> kind, from |-> from, got |-> got]

Posted(task) == IF open THEN Append(queue, task) ELSE queue

ExitPosted == \E n \in DOMAIN queue : queue[n].kind = "exit"

(* ScreenInteractive::Active() == screen *)
Active == ui \notin {"stopPoller", "joinRefresh", "joinSpinner", "joinActions", "returned"}

(* A slip, kept for the runs to detect: Return is taken for the menu while an operation runs. *)
AwaitsAlsoBusy(m) == ui = "idle" /\ open /\ (mode = m \/ (m = "None" /\ mode = "Busy"))

(* Keys reach the modal layer (OnEvent) between two closures; a Busy modal swallows them. *)
Awaits(m) == ui = "idle" /\ open /\ mode = m

(***************************************************************************)
(* Starting: the preflight succeeded and both lists were asked for once.   *)
(***************************************************************************)
Init ==
    /\ world \in Start
    /\ cache \in {c \in [Kinds -> {<<>>, Listing(world.containers), Listing(world.images)}] :
                     \A k \in Kinds : c[k] \in {<<>>, Listing(world[k])}}
    /\ late = {} /\ changes = 0 /\ failures = 0
    /\ queue = <<>> /\ open = TRUE /\ ui = "idle"
    /\ mode = "None" /\ entries = <<>> /\ flow = NoFlow /\ history = 0
    /\ busy = FALSE /\ trapped = FALSE
    /\ ops = 0 /\ actions = <<>>
    /\ spinner = "none" /\ spinnerStop = TRUE
    /\ refresh = Idle
    /\ poll = Waiting /\ stop = FALSE /\ immediate = FALSE

(***************************************************************************)
(* Docker, as far as it acts on its own: other clients, and a request that *)
(* TuxDock has given up on.                                                *)
(***************************************************************************)
ChangedElsewhere ==
    /\ changes < MaxChanges
    /\ changes' = changes + 1
    /\ world' \in Elsewhere(world)
    /\ UNCHANGED <<late, failures, cache, loop, ui, modal, marks, ops, actions, spin, refresh, poller>>

AppliedLate ==
    /\ \E r \in late : /\ \E answer \in Answers(world, r.act, r.target) : world' = answer.world
                       /\ late' = late \ {r}
    /\ UNCHANGED <<changes, failures, cache, loop, ui, modal, marks, ops, actions, spin, refresh, poller>>

(***************************************************************************)
(* Asking for the lists: getContainerList, then getImageList.  A thread    *)
(* doing so has the kind it asks for next as its pc, then "post".          *)
(***************************************************************************)
Replies(k) == {{Listing(world[k])}} \cup (IF failures < MaxFailures THEN {{}} ELSE {})

Fetched(t, r) == [t EXCEPT !.got = [t.got EXCEPT ![t.pc] = r],
                           !.pc = IF t.pc = "containers" THEN "images" ELSE "post"]

CountFailure(r) == failures' = failures + (IF r = {} THEN 1 ELSE 0)

(* ApplyRefreshResults: a list that could not be read leaves the cached one. *)
Applied(got) == [k \in Kinds |-> IF got[k] = {} THEN cache[k] ELSE CHOOSE l \in got[k] : TRUE]

(***************************************************************************)
(* RefreshState: the UI thread waits for the previous refresh to end, then *)
(* starts another.                                                         *)
(***************************************************************************)
StartRefresh ==
    /\ ui = "refreshJoin" /\ refresh.pc = "none"
    /\ ui' = "idle"
    /\ refresh' = [pc |-> "containers", got |-> NoLists]
    /\ UNCHANGED <<docker, cache, loop, modal, marks, ops, actions, spin, poller>>

RefreshFetch ==
    /\ refresh.pc \in Kinds
    /\ \E r \in Replies(refresh.pc) : /\ refresh' = Fetched(refresh, r)
                                      /\ CountFailure(r)
    /\ UNCHANGED <<world, late, changes, cache, loop, ui, modal, marks, ops, actions, spin, poller>>

RefreshPost ==
    /\ refresh.pc = "post"
    /\ refresh' = Idle
    /\ queue' = Posted(Task("apply", 0, refresh.got))
    /\ UNCHANGED <<docker, cache, open, ui, modal, marks, ops, actions, spin, poller>>

(***************************************************************************)
(* The menu and its modals.  What a callback chain still has to ask is     *)
(* flow.asks; flow.seen is a history variable: the entry that was          *)
(* highlighted when the user pressed Enter.                                *)
(***************************************************************************)
Asks(act) ==
    CASE act \in {"pull", "stop"} \cup Execs -> {<<"Input">>}
      [] act \in {"delete", "remove"}        -> {<<"Confirm">>}
      [] act = "create"                      -> {[n \in 1..(2 + p) |-> "Input"] : p \in 0..MaxPorts}
      [] OTHER                               -> {<<>>}

KindOf(act) == IF act \in OnContainer THEN "containers" ELSE "images"

(* ActionListContainers, ActionListImages, ActionAbout *)
Show ==
    /\ Awaits("None") /\ "show" \in Menu
    /\ mode' = "Message"
    /\ UNCHANGED <<docker, cache, loop, ui, entries, flow, history, marks, ops, actions, spin, refresh, poller>>

ActionPullImage ==
    /\ Awaits("None") /\ "pull" \in Menu /\ ops < MaxOps
    /\ mode' = "Input"
    /\ \E i \in Images, asks \in Asks("pull") :
          flow' = [act |-> "pull", target |-> i, seen |-> i, asks |-> Tail(asks)]
    /\ UNCHANGED <<docker, cache, loop, ui, entries, history, marks, ops, actions, spin, refresh, poller>>

(* A slip, kept for the runs to detect: the selection is opened on an empty list. *)
PromptUnchecked(act) ==
    /\ Awaits("None") /\ act \in Menu /\ ops < MaxOps
    /\ mode' = "Select"
    /\ entries' = cache[KindOf(act)]
    /\ \E asks \in Asks(act) : flow' = [NoFlow EXCEPT !.act = act, !.asks = asks]
    /\ UNCHANGED <<docker, cache, loop, ui, history, marks, ops, actions, spin, refresh, poller>>

(* PromptContainerSelection, PromptImageSelection *)
Prompt(act) ==
    /\ Awaits("None") /\ act \in Menu /\ ops < MaxOps
    /\ IF cache[KindOf(act)] = <<>>
       THEN Len(queue) < MaxQueue /\ ui' = "refreshJoin" /\ UNCHANGED <<mode, entries, flow>>
       ELSE /\ mode' = "Select"
            /\ entries' = cache[KindOf(act)]
            /\ \E asks \in Asks(act) : flow' = [NoFlow EXCEPT !.act = act, !.asks = asks]
            /\ UNCHANGED ui
    /\ UNCHANGED <<docker, cache, loop, history, marks, ops, actions, spin, refresh, poller>>

Exit ==
    /\ Awaits("None") /\ "exit" \in Menu /\ ~ExitPosted
    /\ queue' = Posted(Task("exit", 0, NoLists))
    /\ UNCHANGED <<docker, cache, open, ui, modal, marks, ops, actions, spin, refresh, poller>>

CloseMessage ==
    /\ Awaits("Message")
    /\ mode' = "None"
    /\ UNCHANGED <<docker, cache, loop, ui, entries, flow, history, marks, ops, actions, spin, refresh, poller>>

(* A slip, kept for the runs to detect: the resolver clears the mode after it has called the callback. *)
BeginThenClose(f) ==
    /\ mode' = "None" /\ flow' = f
    /\ busy' = TRUE /\ trapped' = TRUE
    /\ spinnerStop' = TRUE
    /\ ops' = ops + 1
    /\ ui' = "startOp"
    /\ UNCHANGED open

(***************************************************************************)
(* Operations.  BeginBusyOperation and BeginStopOperation mark the program *)
(* busy, trap the signals and show the Busy modal, then start the spinner  *)
(* (waiting for the previous one to end) and the thread of the operation.  *)
(***************************************************************************)
BeginBusyOperation(f) ==
    /\ mode' = "Busy" /\ flow' = f
    /\ busy' = TRUE /\ trapped' = TRUE
    /\ spinnerStop' = TRUE
    /\ ops' = ops + 1
    /\ ui' = "startOp"
    /\ UNCHANGED open

(* ActionExecShell: the loop gives the terminal to the shell and waits. *)
ExecShell ==
    /\ mode' = "None" /\ flow' = NoFlow
    /\ ops' = ops + 1
    /\ ui' = "shell" /\ open' = FALSE
    /\ UNCHANGED <<busy, trapped, spinnerStop>>

AskNext(f) ==
    /\ mode' = Head(f.asks)
    /\ flow' = [f EXCEPT !.asks = Tail(f.asks)]
    /\ UNCHANGED <<ui, open, busy, trapped, ops, spinnerStop>>

Proceed(f) ==
    \/ f.asks # <<>> /\ AskNext(f)
    \/ f.asks = <<>> /\ f.act = "shell" /\ ExecShell
    \/ f.asks = <<>> /\ f.act # "shell" /\ BeginBusyOperation(f)

Dismiss ==
    /\ mode' = "None" /\ flow' = NoFlow
    /\ UNCHANGED <<ui, open, busy, trapped, ops, spinnerStop>>

(* ResolveSelect: the callback indexes the lists cached now, not the ones
   shown.  (Nothing reads the entries shown once the modal is resolved.)  *)
ResolveSelect ==
    /\ Awaits("Select")
    /\ entries' = <<>>
    /\ \/ Dismiss /\ UNCHANGED history
       \/ \E n \in DOMAIN entries :
             IF n > Len(cache[KindOf(flow.act)]) THEN Dismiss /\ UNCHANGED history
             ELSE LET id == cache[KindOf(flow.act)][n].id
                  IN  /\ Proceed([flow EXCEPT !.target = id, !.seen = entries[n].id])
                      /\ history' = IF flow.act \in Execs THEN id ELSE history
    /\ UNCHANGED <<docker, cache, queue, actions, spinner, refresh, poller>>

(* ResolveInput and ResolveConfirm; only the answers to "create" are validated. *)
Resolve(m) ==
    /\ Awaits(m)
    /\ \/ Dismiss
       \/ Proceed(flow)
    /\ UNCHANGED <<docker, cache, queue, entries, history, actions, spinner, refresh, poller>>

(* F1 opens the history from an Input modal; Enter and Escape go back to it. *)
OpenHistory ==
    /\ Awaits("Input")
    /\ mode' = "History"
    /\ UNCHANGED <<docker, cache, loop, ui, entries, flow, history, marks, ops, actions, spin, refresh, poller>>

ResolveHistory ==
    /\ Awaits("History")
    /\ mode' = "Input"
    /\ UNCHANGED <<docker, cache, loop, ui, entries, flow, history, marks, ops, actions, spin, refresh, poller>>

ShellEnds ==
    /\ ui = "shell"
    /\ ui' = "idle" /\ open' = TRUE
    /\ UNCHANGED <<docker, cache, queue, modal, marks, ops, actions, spin, refresh, poller>>

(* StopSpinner's join, the new spinner, and the operation's thread. *)
StartThreads ==
    /\ ui = "startOp" /\ spinner # "running"
    /\ ui' = "idle"
    /\ spinner' = "running" /\ spinnerStop' = FALSE
    /\ actions' = Append(actions, [act |-> flow.act, target |-> flow.target, seen |-> flow.seen,
                                   pc |-> "call", got |-> NoLists, ok |-> FALSE])
    /\ flow' = NoFlow
    /\ UNCHANGED <<docker, cache, loop, mode, entries, history, marks, ops, refresh, poller>>

SpinnerEnds ==
    /\ spinner = "running" /\ (spinnerStop \/ ~Active)
    /\ spinner' = "ended"
    /\ UNCHANGED <<docker, cache, loop, ui, modal, marks, ops, actions, spinnerStop, refresh, poller>>

(***************************************************************************)
(* The thread of operation a: the request, then for a stop the two lists,  *)
(* then the completion.  A command reads history_container_id_ only here.  *)
(***************************************************************************)
TargetOf(op) == IF op.act \in Execs THEN history ELSE op.target

ActionCall(a) ==
    /\ actions[a].pc = "call"
    /\ LET op   == actions[a]
           next == IF op.act = "stop" THEN "containers" ELSE "post"
       IN  \/ /\ \E answer \in Answers(world, op.act, TargetOf(op)) :
                    /\ world' = answer.world
                    /\ actions' = [actions EXCEPT ![a] = [op EXCEPT !.pc = next, !.ok = answer.ok]]
              /\ UNCHANGED late
           \/ /\ Timeouts /\ op.act \in Timed
              /\ late' = late \cup {[act |-> op.act, target |-> TargetOf(op)]}
              /\ actions' = [actions EXCEPT ![a] = [op EXCEPT !.pc = next]]
              /\ UNCHANGED world
    /\ UNCHANGED <<changes, failures, cache, loop, ui, modal, marks, ops, spin, refresh, poller>>

ActionFetch(a) ==
    /\ actions[a].pc \in Kinds
    /\ \E r \in Replies(actions[a].pc) : /\ actions' = [actions EXCEPT ![a] = Fetched(actions[a], r)]
                                         /\ CountFailure(r)
    /\ UNCHANGED <<world, late, changes, cache, loop, ui, modal, marks, ops, spin, refresh, poller>>

ActionPost(a) ==
    /\ actions[a].pc = "post"
    /\ queue' = Posted(Task("complete", a, actions[a].got))
    /\ actions' = [actions EXCEPT ![a] = [actions[a] EXCEPT !.pc = IF open THEN "sent" ELSE "lost",
                                                            !.got = NoLists]]
    /\ UNCHANGED <<docker, cache, open, ui, modal, marks, ops, spin, refresh, poller>>

ActionStep(a) == ActionCall(a) \/ ActionFetch(a) \/ ActionPost(a)

Finished(a) == actions[a].pc \in {"sent", "lost", "settled"}

(***************************************************************************)
(* The UI thread runs the closure at the head of the queue.  A completion  *)
(* waits for the spinner in the middle, so it takes two steps and leaves   *)
(* the queue at the second.                                                *)
(***************************************************************************)
Runs(kind) == ui = "idle" /\ queue # <<>> /\ Head(queue).kind = kind

ApplyRefreshResults ==
    /\ Runs("apply")
    /\ cache' = Applied(Head(queue).got)
    /\ queue' = Tail(queue)
    /\ UNCHANGED <<docker, open, ui, modal, marks, ops, actions, spin, refresh, poller>>

(* A slip, kept for the runs to detect: the spinner is joined without being told to stop. *)
CompleteSpinning ==
    /\ Runs("complete")
    /\ busy' = FALSE /\ trapped' = FALSE
    /\ cache' = Applied(Head(queue).got)
    /\ ui' = "finishOp"
    /\ UNCHANGED <<docker, loop, modal, ops, actions, spin, refresh, poller>>

(* RemoveSignalTraps; a stop applies its lists; complete; StopSpinner begins. *)
Complete ==
    /\ Runs("complete")
    /\ busy' = FALSE /\ trapped' = FALSE
    /\ cache' = Applied(Head(queue).got)
    /\ spinnerStop' = TRUE
    /\ ui' = "finishOp"
    /\ UNCHANGED <<docker, loop, modal, ops, actions, spinner, refresh, poller>>

(* The spinner is joined, the result shown; every operation but a stop triggers a poll. *)
ShowResult ==
    /\ ui = "finishOp" /\ spinner # "running"
    /\ ui' = "idle" /\ mode' = "Message"
    /\ spinner' = "none"
    /\ queue' = Tail(queue)
    /\ LET a == Head(queue).from
       IN  /\ actions' = [actions EXCEPT ![a] = [actions[a] EXCEPT !.pc = "settled"]]
           /\ immediate' = (immediate \/ actions[a].act # "stop")
    /\ UNCHANGED <<docker, cache, open, entries, flow, history, marks, ops, spinnerStop, refresh, poll, stop>>

(* The exit closure: from here on Post drops what it is given. *)
ExitLoop ==
    /\ Runs("exit")
    /\ open' = FALSE
    /\ queue' = Tail(queue)
    /\ UNCHANGED <<docker, cache, ui, modal, marks, ops, actions, spin, refresh, poller>>

HandleTask == ApplyRefreshResults \/ Complete \/ ExitLoop

(* SIGINT is ignored while trapped; the handler FTXUI installed ends the loop. *)
ExitSignal ==
    /\ open /\ ~ExitPosted
    /\ \E s \in Signals : ~(s = "SIGINT" /\ trapped)
    /\ queue' = Posted(Task("exit", 0, NoLists))
    /\ UNCHANGED <<docker, cache, open, ui, modal, marks, ops, actions, spin, refresh, poller>>

(***************************************************************************)
(* Run after Loop: stop the poller and join it, then the refresh, the      *)
(* spinner and the operations.                                             *)
(***************************************************************************)
Rest == <<docker, cache, loop, modal, marks, ops, actions, spinnerStop, refresh, poll, immediate>>

(* A slip, kept for the runs to detect: the poller is joined without being told to stop. *)
LoopReturnsUnstopped ==
    /\ ui = "idle" /\ ~open /\ queue = <<>>
    /\ ui' = "stopPoller"
    /\ UNCHANGED <<Rest, spinner, stop>>

LoopReturns ==
    /\ ui = "idle" /\ ~open /\ queue = <<>>
    /\ ui' = "stopPoller"
    /\ stop' = TRUE
    /\ UNCHANGED <<Rest, spinner>>

JoinPoller ==
    /\ ui = "stopPoller" /\ poll.pc = "ended"
    /\ ui' = "joinRefresh"
    /\ UNCHANGED <<Rest, spinner, stop>>

(* A slip, kept for the runs to detect: the refresh thread is not joined. *)
JoinRefreshSkipped ==
    /\ ui = "joinRefresh"
    /\ ui' = "joinSpinner"
    /\ UNCHANGED <<Rest, spinner, stop>>

JoinRefresh ==
    /\ ui = "joinRefresh" /\ refresh.pc = "none"
    /\ ui' = "joinSpinner"
    /\ UNCHANGED <<Rest, spinner, stop>>

JoinSpinner ==
    /\ ui = "joinSpinner" /\ spinner # "running"
    /\ ui' = "joinActions"
    /\ spinner' = "none"
    /\ UNCHANGED <<Rest, stop>>

JoinActions ==
    /\ ui = "joinActions" /\ \A a \in DOMAIN actions : Finished(a)
    /\ ui' = "returned"
    /\ UNCHANGED <<Rest, spinner, stop>>

Leave == LoopReturns \/ JoinPoller \/ JoinRefresh \/ JoinSpinner \/ JoinActions

(* A slip, kept for the runs to detect: the poller waits for a trigger, with no time limit. *)
PollWakesTriggered ==
    /\ poll.pc = "wait" /\ ~stop
    /\ immediate
    /\ Len(queue) < MaxQueue
    /\ immediate' = FALSE
    /\ poll' = [poll EXCEPT !.pc = "containers"]
    /\ UNCHANGED <<docker, cache, loop, ui, modal, marks, ops, actions, spin, refresh, stop>>

(***************************************************************************)
(* DockerStatePoller::loop                                                 *)
(***************************************************************************)
PollWakes ==
    /\ poll.pc = "wait" /\ ~stop
    /\ immediate \/ Periodic
    /\ Len(queue) < MaxQueue
    /\ immediate' = FALSE
    /\ poll' = [poll EXCEPT !.pc = "containers"]
    /\ UNCHANGED <<docker, cache, loop, ui, modal, marks, ops, actions, spin, refresh, stop>>

PollFetch ==
    /\ poll.pc \in Kinds
    /\ \E r \in Replies(poll.pc) : /\ poll' = Fetched(poll, r)
                                   /\ CountFailure(r)
    /\ UNCHANGED <<world, late, changes, cache, loop, ui, modal, marks, ops, actions, spin, refresh, stop, immediate>>

(* A slip, kept for the runs to detect: the trigger is cleared when a poll is done, not when it starts. *)
PollPostThenReset ==
    /\ poll.pc = "post"
    /\ poll' = Waiting
    /\ queue' = Posted(Task("apply", 0, poll.got))
    /\ immediate' = FALSE
    /\ UNCHANGED <<docker, cache, open, ui, modal, marks, ops, actions, spin, refresh, stop>>

PollPost ==
    /\ poll.pc = "post"
    /\ poll' = Waiting
    /\ queue' = Posted(Task("apply", 0, poll.got))
    /\ UNCHANGED <<docker, cache, open, ui, modal, marks, ops, actions, spin, refresh, stop, immediate>>

PollEnds ==
    /\ poll.pc = "wait" /\ stop
    /\ poll' = [poll EXCEPT !.pc = "ended"]
    /\ UNCHANGED <<docker, cache, loop, ui, modal, marks, ops, actions, spin, refresh, stop, immediate>>

Poller == PollWakes \/ PollFetch \/ PollPost \/ PollEnds

(***************************************************************************)
(* The program.                                                            *)
(***************************************************************************)
User ==
    \/ Show \/ ActionPullImage \/ Exit \/ CloseMessage
    \/ \E act \in OnContainer \cup OnImage : Prompt(act)
    \/ ResolveSelect \/ Resolve("Input") \/ Resolve("Confirm")
    \/ OpenHistory \/ ResolveHistory

Program ==
    \/ HandleTask \/ ShowResult \/ StartThreads \/ StartRefresh \/ ShellEnds \/ Leave
    \/ SpinnerEnds \/ RefreshFetch \/ RefreshPost \/ Poller
    \/ \E a \in DOMAIN actions : ActionStep(a)

Returned == ui = "returned" /\ UNCHANGED vars

Next == User \/ Program \/ ExitSignal \/ ChangedElsewhere \/ AppliedLate \/ Returned

Spec == Init /\ [][Next]_vars

(***************************************************************************)
(* Fairness.  Every thread keeps running, Engine requests and commands     *)
(* return, the user leaves a shell.  The queue is FIFO, so a closure is    *)
(* run however many keys arrive; the poller's fairness is strong because   *)
(* MaxQueue, and not the code, may hold it back for a while.  Nothing      *)
(* obliges the user, other clients or signals to do anything.              *)
(***************************************************************************)
Fairness ==
    /\ SF_vars(HandleTask) /\ SF_vars(Poller)
    /\ WF_vars(ShowResult) /\ WF_vars(StartThreads) /\ WF_vars(StartRefresh)
    /\ WF_vars(ShellEnds) /\ WF_vars(Leave) /\ WF_vars(SpinnerEnds)
    /\ WF_vars(RefreshFetch \/ RefreshPost)
    /\ \A a \in 1..MaxOps : WF_vars(a \in DOMAIN actions /\ ActionStep(a))

FairSpec == Spec /\ Fairness

(***************************************************************************)
(* Properties.                                                             *)
(***************************************************************************)
Entries == Seq(Entry)
Lists   == [Kinds -> SUBSET Entries]
Flows   == [act : Requests \cup {"none"}, target : Nat, seen : Nat, asks : Seq({"Input", "Confirm"})]
Tasks   == [kind : {"apply", "complete", "exit"}, from : Nat, got : Lists]
Records == [act : Requests, target : Nat, seen : Nat, ok : BOOLEAN, got : Lists,
            pc : {"call", "containers", "images", "post", "sent", "lost", "settled"}]

(* Every variable of the program keeps to the values its C++ counterpart can
   hold, and a selection always has something to select. *)
TypeOK ==
    /\ world \in Worlds
    /\ late \subseteq [act : Timed, target : Nat]
    /\ changes \in 0..MaxChanges /\ failures \in 0..MaxFailures
    /\ cache \in [Kinds -> Entries]
    /\ queue \in Seq(Tasks) /\ open \in BOOLEAN
    /\ ui \in {"idle", "refreshJoin", "startOp", "finishOp", "shell", "stopPoller",
              "joinRefresh", "joinSpinner", "joinActions", "returned"}
    /\ mode \in {"None", "Input", "Confirm", "Select", "Message", "Busy", "History"}
    /\ entries \in Entries /\ flow \in Flows /\ history \in Nat
    /\ mode = "Select" => entries # <<>>
    /\ {busy, trapped, spinnerStop, stop, immediate} \subseteq BOOLEAN
    /\ ops \in 0..MaxOps /\ actions \in Seq(Records)
    /\ spinner \in {"none", "running", "ended"}
    /\ refresh \in [pc : {"none", "containers", "images", "post"}, got : Lists]
    /\ poll \in [pc : {"wait", "containers", "images", "post", "ended"}, got : Lists]

Unsettled(a) == actions[a].pc # "settled"

(* "Blocked input during long-running Docker operations" (DEVLOG.md:115): at
   most one operation is under way, and the Busy modal, operation_state_ and
   the signal traps are there exactly as long as it is. *)
OneOperation ==
    /\ \A a, b \in DOMAIN actions : Unsettled(a) /\ Unsettled(b) => a = b
    /\ mode = "Busy" <=> (ui = "startOp" \/ \E a \in DOMAIN actions : Unsettled(a))
    /\ busy = (mode = "Busy" /\ ui # "finishOp")
    /\ trapped = busy

(* history_container_id_ is read by the thread of a command, unsynchronised,
   when it runs: it still names the container the user picked for it. *)
ExecTarget ==
    \A a \in DOMAIN actions :
        actions[a].pc = "call" /\ actions[a].act \in Execs => history = actions[a].target

(* A completion is dropped only when the session is over: never because a
   shell owns the terminal, and never leaving a loop that waits for it. *)
LostOnlyAtExit == \A a \in DOMAIN actions : actions[a].pc = "lost" => ~open /\ ui # "shell"

(* No thread is left when Run returns and its screen is destroyed. *)
AllJoined ==
    ui = "returned" => /\ poll.pc = "ended" /\ refresh.pc = "none" /\ spinner = "none"
                       /\ \A a \in DOMAIN actions : Finished(a)

(* An operation always gives the modal back, or the session ends: joining the
   spinner in the completion cannot block the UI thread for good. *)
OperationEnds == (mode = "Busy") ~> (mode # "Busy" \/ ui = "returned")

(* Once the exit closure is posted, the joins of Run all end. *)
ExitFinishes == ExitPosted ~> (ui = "returned")

Current == \A k \in Kinds : cache[k] = Listing(world[k])

(* "This prevents state drift when an Engine API call times out but Docker
   still applied the change" (DEVLOG.md:15): when Docker stops changing, the
   cached lists end up equal to Docker's for as long as the session lasts. *)
CacheConverges == <>[](~open \/ Current)

(* trigger_now is never lost: without any periodic poll, the completion of an
   operation is followed by lists that show Docker as it is. *)
TriggerRefreshes ==
    (ui = "finishOp" /\ actions[Head(queue).from].act # "stop") ~> (~open \/ Current)

(* The operation runs on the entry that was highlighted when Enter was
   pressed: "Select a container with arrows and press Enter." (main.cpp:538). *)
ChosenIsShown ==
    /\ flow.target = flow.seen
    /\ \A a \in DOMAIN actions : actions[a].target = actions[a].seen
=============================================================================
