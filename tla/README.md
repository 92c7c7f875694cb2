# TuxDock: a verification project

TuxDock (`src/main.cpp`, `src/src/`) is a terminal program that manages Docker
containers. `tuxreaperd` (`src/tuxreaperdgnu.c`, `src/tuxreaperdasm.c`) is the
PID 1 it mounts into the containers it creates. The modules in this directory
model both: what can interleave, be lost, arrive late or never end. TLC checks
them on small instances. TLAPS proves, for every value of the constants, all that they promise except
what needs fairness: every invariant and action property of the passing runs, and that the three
models with an abstract specification implement it step by step.

`tuxreaperd` and `TuxDockApp` are the two large models. Three smaller ones look closer at
what `TuxDockApp` takes as one step: an operation's call of the Docker Engine with the signal
traps around it (`Operation`), a `docker` command (`ProcessRunner`), and the history file
(`DetachedHistory`).

The two programs share no state and meet only through Docker: TuxDock's *stop*
makes Docker send SIGTERM to `tuxreaperd`, which forwards it, drains its
descendants and exits, upon which Docker answers the request. They are modelled
apart; TuxDock sees `tuxreaperd` as a request that answers, fails or is late.

## 1. Inventory

### tuxreaperd

| Part | State | Operations |
|---|---|---|
| Startup | signal mask, dispositions | subreaper flag, `sigaction` for six forwarded signals and SIGCHLD, `sigprocmask(SIG_BLOCK)`, fork and `execvp` of the command |
| Handlers | `g_pending_signals`, `g_child_exited`, `g_main_status`, `g_main_child` | `proxy_signal_handler`, `sigchld_handler` |
| Main loop | the loop's locals | `sigsuspend`, `drain_zombies`, `handle_pending_signals`, and once the main child has exited: `count_descendants`, a 50 ms poll, a deadline of 60 s, the exit status |
| Broadcast | none of its own | `broadcast_signal`: two sweeps of `/proc`, each with a `readlink` and a `kill` per entry; the translation table for web engines |
| Freestanding build | the same | the same control flow written without libc; the result of `fork` is not tested |

It interacts with the kernel: the process table (forks, execs, exits, adoption
of orphans), SIGCHLD, which does not queue, `waitpid`, and `/proc`, which changes
while it is read. Correct means: no zombie is left behind; the container's exit
status is the main process's; a broadcast reaches every process, web engines with the
signal that stops them gracefully; the container does not end under live
descendants before the deadline, and does end after it.

### TuxDock

| Part | State | Operations |
|---|---|---|
| UI thread (`TuxDockApp`) | `containers_`, `images_`, the modal fields, `operation_state_`, `history_container_id_` | `OnEvent`, the `Resolve*` functions, thirteen menu entries and their callback chains, completions, `Run` |
| Operation threads | `action_threads_` | one Engine request or `docker` command each, for a stop also both lists, then a posted completion |
| Spinner | `spinner_thread_`, `spinner_stop_` | a frame now and then until told to stop |
| Refresh | `refresh_thread_` | both lists, then a posted update |
| `DockerStatePoller` | `stop_`, `immediate_` under a mutex | every 5 s or on `trigger_now`: both lists, then a posted update |
| Signal traps | `g_sigint_busy`, the counters, the saved dispositions | installed for the length of an operation; handlers on any thread that count or chain |
| `DetachedHistory` | a file of at most 200 commands per container | load, insert, clear, truncating save; shared by all running TuxDock |
| `DockerManager` | none | one function per Docker operation |
| `DockerEngineClient`, HTTP parser | a socket, bytes read so far | request with a time limit per read, repeated after EINTR; when a response is complete, and parse |
| `ProcessRunner` | pipes, in the program's one table of descriptors | fork and exec, read both outputs, wait |
| `container_parser` | none | JSON to records |
| `stop_waiter` | none | compiled into its tests only |

All state of the UI belongs to the UI thread. Other threads reach it with
`ScreenInteractive::Post`, a FIFO queue of closures; a closure posted when the loop
accepts none (a shell owns the terminal, or the program is leaving) is dropped.
Two things escape the rule: the atomics of the spinner and the poller's
mutex-protected flags, and `history_container_id_`, read by an operation's
thread without synchronisation. `Run` joins every thread before it returns, and
three handlers join a thread in the middle of a session.

Correct means: input is blocked exactly while an operation runs, and comes back;
every request goes to the container the user picked; no completion is lost; the
cached lists catch up with Docker; no join waits for ever and no thread outlives
`Run`. A call of `DockerManager` returns and reports only what Docker was seen to do; a signal does
not end or garble an operation; a command's output and status are whole; the history keeps
each container's latest commands, the newest first.

### What is hard here

`PROJECT.json` lists the hazards with their lines. The ones that shaped the models:

- a SIGCHLD that stands for several exits, and exits between `sigsuspend` and the
  `waitpid` of the main loop;
- `/proc` read entry by entry while processes fork, exec and die, twice, and once
  more for the count that ends the drain;
- a handler that interrupts another in the middle of `g_pending_signals |= bit`;
- three sources of lists (poller, refresh, stop) applied in the order of posting
  and not of fetching, under a modal that was opened on older ones;
- joins on the UI thread of threads that post to the UI thread;
- a shell that takes the terminal from the loop while polls are under way;
- requests that time out and are applied all the same;
- leaving, or a signal, at any of these moments;
- a signal between two statements that install or remove the traps, or on another
  thread, where it may interrupt a read and make the request be sent again;
- two readings of one response: when it is complete, and what it says;
- a descriptor closed twice, with another thread's socket opened in between;
- a file that is truncated before it is written, by programs that know nothing of each other.

## 2. Modules

| Module | Models | Composed with |
|---|---|---|
| `SignalRules` | the rule tables of `handle_pending_signals` and `proc_remap_signal`'s match, as operators | extended by `Tuxreaperd` |
| `Tuxreaperd` | all of `tuxreaperd` with the kernel around it | implements `ReaperContract` |
| `ReaperContract` | what a container may rely on: one workload, noticed, drained, its status given out | instantiated by `Tuxreaperd` |
| `TuxreaperdProofs`, `TuxreaperdSignalProofs` | proofs about `Tuxreaperd` | |
| `Subsequences` | the k-th number of a set, and the entries of a list at given places, as operators | extended by `DockerState`, `DetachedHistory` |
| `SubsequencesProofs` | lemmas about these | extended by `TuxDockAppProofs`, `DetachedHistoryProofs` |
| `DockerState` | Docker's containers and images, the effect and the reported result of each request | extended by `TuxDockApp` |
| `TuxDockApp` | the UI thread, its modals and callbacks, and the spinner, refresh, poller and operation threads | |
| `TuxDockAppProofs` | proofs about `TuxDockApp` | |
| `HttpResponse` | `http_response_parser.cpp`, as operators | extended by `EngineClient` |
| `EngineClient` | one call of `DockerManager` through `DockerEngineClient`, and the Engine | extended by `Operation` |
| `SignalTraps` | the traps, statement by statement, and their handlers on three threads | extended by `Operation` |
| `Operation` | `BeginBusyOperation`: traps, thread, call, completion; the handler that interrupts a read | implements `DockerCall` |
| `OperationProofs` | proofs about the `SignalTraps` of `Operation` | |
| `CallProofs` | proofs about the `EngineClient` of `Operation`: the parser, the refinement of `DockerCall` | |
| `DockerCall` | what a caller of `DockerManager` may rely on | instantiated by `Operation` |
| `ProcessRunner` | `ProcessRunner::run`, its command, and the poller's sockets in the same table | |
| `ProcessRunnerProofs` | proofs about `ProcessRunner` | |
| `DetachedHistory` | the history file, shared by several programs, and its modal | implements `CommandLog` |
| `DetachedHistoryProofs` | proofs about `DetachedHistory`, with the refinement of `CommandLog` | |
| `CommandLog` | a log per container that cut-off changes leave alone or lose whole | instantiated by `DetachedHistory` |
| `MCTuxreaperd`, `MCTuxDockApp`, `MCOperation`, `MCProcessRunner`, `MCDetachedHistory` | the constants of the TLC configurations | |

`Subsequences` says what `SelectSeq` and `SetToSortSeq` of the libraries say. It exists because
the prover can expand neither definition.

Definitions whose comment calls them *a slip* are mutated forms of the definition
next to them. No specification uses them; they exist to show that a run
detects the mistake they make.

### Tuxreaperd

`pc` says where `main()` is; one step of the model lies between two points at which
another process or a signal can make a difference.

| Source | Model |
|---|---|
| argument and `prctl` checks, `sigaction`s, mask, fork | `BootFails`, `InstallHandlers`, `BlockSignals`, `ForkMain`, `ForkMainFails` |
| `sigsuspend` | `Wake` (every pending signal gets a frame), `SigsuspendReturns` |
| handlers | `Deliver`, `ProxyLoad`, `ProxyStore`, `SigchldHandler` on the stack `frames` |
| `drain_zombies` at the top of the loop and in the drain | `DrainZombies(from, to)` |
| `handle_pending_signals` | `HandlePending`, `NextSignal`, `HandledAll` |
| `broadcast_signal`, `proc_remap_signal` | `OpenProc`, `OpenProcFails`, `ReadDir`, `BufferFull`, `NextBuffer`, `ReadDirEnds`, `ReadLink`, `Kill`, `SecondSweep`, `BroadcastEnds` |
| `count_descendants` and the decision | the same `/proc` steps at `pc = "count"`, then `ExitDrained` or `Poll` |
| the processes of the container, `docker exec`, `docker stop` | `Environment` |

`due` and `reached` are history variables: who was alive when a sweep or a count
ended, and whom `kill` found in the current broadcast. `at` is the position of the open
directory: `getdents` fills a buffer with the entries that follow it, and these are read and signalled before
the next buffer is filled (`BufferFull`, `NextBuffer`).

Abstractions. A pid is allocated in increasing order and not reused. A buffer of directory
entries holds any number of them from one on, whatever its size in bytes. Time is a
count of polls. An exe link is a pair, the entry of the rule tables it
starts with and the rest. The `waitpid(..., WNOHANG)` loops are one step: a child that
ends while one runs is reaped by it or announced by a new SIGCHLD, and the two
outcomes are those of ending just before or just after. A `docker exec` does not
come before the handlers are installed. A process reacts to a signal as it
likes, so it may end at any time with any of its statuses. The system calls and
string loops of `tuxreaperdasm.c` are taken to do what their libc counterparts
do; constant `Libc` selects the build.

### TuxDockApp

`ui` says where the UI thread is: `idle` between two closures, or inside a handler
that waits for something (`refreshJoin`, `startOp`, `finishOp`, `shell`, the
joins of `Run`). `mode` is `modal_mode_`; `flow` holds the captures of the pending
callback: the menu entry, the picked target, what is still to be asked. The record
`actions[a]` is one operation's thread; `refresh` and `poll` are the two fetching
threads; `queue` holds the posted closures.

| Source | Model |
|---|---|
| menu entries | `Show`, `ActionPullImage`, `Prompt(act)`, `Exit` |
| `OnEvent` and `Resolve*` | `ResolveSelect`, `Resolve(m)`, `OpenHistory`, `ResolveHistory`, `CloseMessage` |
| `BeginBusyOperation`, `BeginStopOperation` | `BeginBusyOperation`, `StartThreads` (a join lies in between) |
| the thread of an operation | `ActionCall`, `ActionFetch` (stop only), `ActionPost` |
| completions | `Complete`, `ShowResult` (again a join in between) |
| `RefreshState` and its thread | `StartRefresh`, `RefreshFetch`, `RefreshPost` |
| `DockerStatePoller::loop`, `stop` | `PollWakes`, `PollFetch`, `PollPost`, `PollEnds` |
| `ApplyRefreshResults` | the action of the same name |
| `ActionExecShell`, `RunWithRestoredIO` | `ExecShell`, `ShellEnds` |
| `Run` after the loop | `Leave` |
| Docker, other clients, late requests | `Answers`, `ChangedElsewhere`, `AppliedLate` |

Abstractions. What the user types is left out but for the choice of an entry, of
continuing or of going back; how many ports a create asks for is chosen when it starts.
FTXUI is external: its queue is FIFO, a key is handled between two closures, and
none after the exit closure. The spinner's frames are not posted one by one: they
change nothing but a picture. A thread that has ended is back at its initial
record, since nothing tells joinable and joined apart once a join
would return at once. Entries of a resolved selection are cleared: the code
keeps them and never reads them again. Container ids are not reused. Signals that
arrive while a shell is attached are not modelled.

### Operation: EngineClient and SignalTraps

`phase` is the operation as the UI thread sees it; `todo` holds the statements left of the
trap function it is in; `pc` is where the operation's thread is in `request`; `frames[t]`
are the handlers on the stack of thread `t`.

| Source | Model |
|---|---|
| `BeginBusyOperation` and the posted completion | `BeginBusyOperation`, `StartThread`, `Complete_`, `Completed` |
| `InstallSignalTraps`, `RemoveSignalTraps` | sequences of statements, run by `Statement` and `Execute` |
| `TuxDockHandleSigint`, `TuxDockHandleSigtstp` | `HandlerEnters`, `HandlerCounts`, `HandlerChains` |
| `request` | `Connect`, `ConnectionFails`, `Write`, `Receive`, `EndOfFile`, `TimeOut`, `Reset`, `Again` |
| `httpResponseComplete`, `decodeChunked`, `parseHttpResponse` | `Complete`, `DecodeChunked`, `Parse` |
| which status is success | `AlsoAccepted`, `Ok`, `Verdict` |
| the Engine | `AnswersTo`, `EngineAnswers`, `EngineStops`, `EngineIsLate` |

`conn`, `late` and `thing` belong to the Engine; `seen`, `swallowed`, `disturbed` and `strayed` are
history variables. `DockerCall` gives a call as its caller sees it: Docker may carry it
out more than once, and even after it has failed, but success is reported only if Docker was in
the promised state since the call began.

Abstractions. Status line and headers arrive in one piece: a cut inside them leaves no blank
line, and both functions then say so. A body is a few symbols, each a character or a line end;
listings are three bodies of which none is a prefix of another, as JSON documents are. Docker has one
object with three states, and an image "in use" is one that "runs". A method is never
HEAD in this program. The two counters of trapped signals are kept as zero or not. A stop and a
second thread's calls would be two instances of the same.
`connect` is called before the socket has its time limits (`docker_engine_client.cpp:54`, 60-63), so the code
alone does not make it return; what is assumed instead is in section *Fairness*.

### ProcessRunner

`slots` is the table of descriptors, `run` the thread in `run()` with its two pipes, `request`
the poller in `request()`. A thread names a descriptor by number, so a number kept after
its `close` means whatever the slot holds by then; a `read` that blocks keeps what it was
called on.

| Source | Model |
|---|---|
| `pipe`, `fork`, the closes in the parent | `MakePipe`, `Fork`, `CloseWrite` |
| the `poll` loop | `Poll`, `Pass`, `Collect`, `EndStream` |
| `waitpid`, `~Pipe` | `Wait`, `Drop` |
| the command | `ChildWants`, `ChildWrites`, `ChildEnds` |
| the poller's request | `OpenSocket`, `WriteRequest`, `CallRead`, `ReadReturns`, `CloseSocket` |

A command run in the user's terminal has no pipes and takes part as a `fork` and a `wait`.
What the child closes and executes is not followed: it holds its write ends until it ends.
Two error paths of `run()` are left out because the kernel does not take them here: the `break` on a
`poll()` error other than EINTR (`process_runner.cpp:89-91`), which two descriptors do not provoke, and the return on a
`waitpid()` error (111-114), since the child is `run()`'s own and the handlers are installed with
`SA_RESTART`. The second could be taken by a TuxDock that was started with SIGCHLD ignored: it would
report the command as failed once all its children have ended.

### DetachedHistory

`file` is what the disk holds: nothing, an empty (truncated) file, a list, or something that does
not parse and so loads as no history. `pc` and `entries` are each program's place in a save. An entry
is its container and the number of its command; times and texts are left out. `Log` maps the file
to `CommandLog`, a truncated file under a program that is about to write counting as what it held.
`clash` names the programs whose changes overlapped: to those `CommandLog` promises only that
every entry left was once given.

## 3. What the runs check

### Runs that pass

| Run | Properties | What it shows |
|---|---|---|
| `TuxreaperdLifecycle` | `TypeOK`, `ZombieAnnounced`, `ExitStatusFaithful`, `DrainComplete` | Up to four processes forking, ending and orphaning one another in any order, with `docker exec`: `sigsuspend` never sleeps on a zombie, the exit status is the main child's whoever died with it, and before the deadline the container ends only over processes that came from outside after the count. |
| `TuxreaperdBroadcast` | `BroadcastReachesAll`, `WebEnginesGraceful` | SIGTERM while two processes fork, exec (into a versioned PHP-FPM too), become unreadable and die at any point of the sweeps: whoever was alive at the end of the first sweep is reached, wherever the buffers of `/proc` end, and with a signal that suits a program it has been running. |
| `TuxreaperdContract` | `ImplementsContract`, `NoticedLeadsToExit`, `ZombiesReaped`, `RecordedIsBroadcast` | The freestanding build, the one with more behaviours, with `/proc` failing at will and the fork failing, implements `ReaperContract`, liveness included. The main child dies by a signal, so that a status passed on without its 128 shows. |
| `TuxDockSession` | `TypeOK`, `OneOperation`, `ExecTarget`, `LostOnlyAtExit`, `AllJoined` | Two operations of one session (create, stop, a command, a shell) with polls, late answers, both signals and leaving at any moment. |
| `TuxDockEnds` | `OperationEnds`, `ExitFinishes`, `TriggerRefreshes` | Liveness without the periodic poll: every operation gives the modal back, leaving ends, and `trigger_now` alone is enough to bring the lists up to date. |
| `OperationCalls` | `Undisturbed`, `NeverDefaultOnUI`, `SwallowedIsShown`, `FailsOnlyIfRefused`, `ImplementsCall`, `CallReturns` | Two operations, each with one of six calls, and a signal on any thread at any statement. The Engine answers in one piece or in chunks, at once, late, or never to the end. `Operation` implements `DockerCall`; a call whose answer came through fails only if Docker refused it; every call returns; no signal reaches FTXUI's handler during an operation, and none that was swallowed is forgotten. |
| `Descriptors` | `NoneLeftOpen`, `OutputWhole`, `CrossesOnlyInDrop`, `RunReturns` | Two commands and one request of the poller in a table of four descriptors. As long as no thread has closed what is the other's, nothing leaks, no output is lost, and `run()` returns; and that happens first nowhere but in `~Pipe`. |
| `History` | `NewestFirst`, `WithinLimit`, `ImplementsLog` | Two programs add, clear and look, with a crash, a denied or a failed save at any step. |
| `TuxDockConverges` | `CacheConverges` | With a removal, or a stop that fetches the lists itself, after one change elsewhere, a request applied after its time limit, one failed list and a shell that drops posts, the cached lists end up equal to Docker's for good. |

### Runs that show a disagreement

Each checks one property that states what a comment, document or
text of the program says, and finds a behaviour of the code that violates it.

| Run | Property | What happens |
|---|---|---|
| `TuxreaperdMainReaped` | `MainReapNoticed` | The main child exits between the return of `sigsuspend` and `drain_zombies`, which reaps it and drops the status. The SIGCHLD finds nothing, `g_child_exited` stays 0, and `tuxreaperd` sleeps for ever. |
| `TuxDockChosen` | `ChosenIsShown` | A poll replaces `containers_` under an open selection; Enter acts on the container that is now at that position. |
| `DescriptorsReturn` | `CommandReturns` | `run()` closes a read end, the poller's socket gets its number, `~Pipe` closes the socket, the next command's pipe takes the number, and the poller closes that. `poll()` reports an invalid descriptor for ever, and the loop looks for other events only. |

More is modelled that goes wrong, without a run of its own; the hazards list names the lines.

- *tuxreaperd.* A signal that arrives between the `sigaction`s and the mask is recorded and
  forwarded only after the next wake-up; a handler interrupted between load and
  store overwrites the other's bit; a main child that has not yet exec'd takes a
  broadcast for itself; a process that execs between readlink and kill gets its old program's signal. A process
  whose exe link PID 1 may not read, as one with another uid when PID 1 lacks CAP_SYS_PTRACE, is skipped by
  both sweeps, although the comments say that every other process receives the original signal (`tuxreaperdgnu.c:32-33`,
  `tuxreaperdasm.c:583-584`); `BroadcastReachesAll` shows that no further one is missed. During the
  drain the forwarded signals stay blocked, so `handle_pending_signals` never takes
  one there, although the comment above it (`tuxreaperdgnu.c:321`) says it does.
- *TuxDock.* Lists fetched before a stop and posted after its completion show the container running
  under the modal that says it stopped (compare DEVLOG.md:109). No trap is installed while a
  shell is attached (compare DEVLOG.md:75).
- *Traps.* A handler delayed on another thread until the traps are removed
  sets the default action for good, and the next Ctrl+C kills TuxDock (`strayed`).
  `SA_RESTART` does not keep a read with a time limit from EINTR (compare DEVLOG.md:76): the request is sent again.
- *Engine client.* A chunk that is just `0` is taken for the end of the body (`SeemsToEnd`). A request
  written to a connection the Engine has closed raises SIGPIPE, which kills TuxDock (`BrokenPipe`).
- *History.* A crash between truncation and write loses all of it, and of two changes at
  once one may undo the other.

### Bounds, and why they are enough

*tuxreaperd.* `MaxPid` 3 or 5: the main child with one other process, or with three. Two
processes are enough for "forked behind the reader" and "changed
between readlink and kill". Four give a main child that dies with orphans and an orphan that forks
while it is counted. `MaxImages` 2: one exec after the first, so a link can be stale.
`DrainPolls` 1 or 2: the first poll, a further one and the deadline all
occur. Statuses tell the pid, so one taken for another shows. One
forwarded signal (SIGTERM, the only one translated) with SIGCHLD gives handlers that nest;
several forwarded signals are covered by the proofs. `TuxreaperdLifecycle` does not
check for deadlock, because the system really stops there: once the exit
of the main child went unnoticed (`TuxreaperdMainReaped`) and every process is
gone, nothing wakes PID 1.

*TuxDock.* Two containers, one image, one running container: a pick can go wrong,
a stop and a removal can do something and can fail. `MaxOps` 2 lets an operation meet
what the one before it left; `MaxQueue` 1 (2 where the order of two lists matters) holds
back the poller and the refresh while that many closures wait, and nothing else.
`MaxChanges` and `MaxFailures` 1 make each happen at every point once. A
convergence property needs them finite: a Docker that never stops
changing is never caught up with. `MaxPorts` 0 or 1: a create asks in a chain of two or three.

*Operation.* Two operations: what a signal, a late request or a handler of the first leaves behind
meets the second. One signal; instances with two were explored for two calls, without change.
Bodies have at most two symbols and are cut at every place, which gives every chunk
boundary the parser tells apart. `Framed` leaves out bodies ended by the connection, which the
Engine does not send. `MaxChanges` 0: other clients would add nothing to requests
carried out late, and the refinement does not depend on them.

*ProcessRunner.* Four slots hold the pipes of one command or, after one pipe, a socket, so both
`pipe()` and `socket()` can find the table full, and numbers are reused at once. `Capacity` 1 with
`MaxWrites` 2 fills a pipe. `Descriptors` does not check for deadlock, because after a
crossing the threads may block for ever on each other's pipe; `RunReturns` shows that they do not before one.

*DetachedHistory.* Four commands against a limit of 2: the cap is reached with two containers mixed. One
fault, at any step of either program. Programs and containers are symmetric: nothing tells two of them apart.

### Fairness

*tuxreaperd.* `SF_vars(Main)` and strong fairness of the running handler at each depth of the
stack: PID 1 is scheduled, and signals do not keep arriving faster than
it runs. The environment owes nothing: no process has to exit, no signal has to come.

*TuxDock.* The closure queue is FIFO and keys share it, so a posted closure is run
however many keys arrive: `SF_vars(HandleTask)`. The poller's fairness is strong
because the bound `MaxQueue`, and not the code, may disable it now and then. Every other thread
and every handler that waits has weak fairness. This assumes that an Engine
request or a `docker` command returns and that the user leaves a shell. Nothing
obliges the user, other clients, late requests or signals to do anything.

*Operation.* The operation's thread is scheduled, in its handlers and out of them (`ThreadRuns`).
A read ends by its time limit at the latest, which makes
`TimeOut` part of `Work`. The Engine owes one thing, stated apart as `EngineAccepts`: `connect()`, which has no time
limit, returns. An Engine that is not there refuses at once, so this asks only that one that runs goes on
accepting connections; without it the operation would stay in `connect()` and `CallReturns` would not hold. It never
has to answer. Interrupted reads are as many as signals.

*ProcessRunner.* Both threads are scheduled, and the command runs: it may write or end, but does not
stay silent for ever. The poller's read ends by its time limit. *DetachedHistory* states no fairness.

## 4. What is proved

| Theorem | Statement |
|---|---|
| `TuxreaperdProofs!TypeCorrect` | `Spec => []TypeOK` |
| `TuxreaperdProofs!NoUnannouncedZombie` | `Spec => []ZombieAnnounced` |
| `TuxreaperdProofs!ExitStatusCorrect` | `Spec => []ExitStatusFaithful` |
| `TuxreaperdProofs!ContractKept` | `Spec => Contract!Init /\ [][Contract!Next]_Contract!vars` |
| `TuxreaperdProofs!NobodyLeftBehind` | `~ProcFails => (Spec => DrainComplete)` |
| `TuxreaperdSignalProofs!EnginesStopGracefully` | `Spec => []WebEnginesGraceful` |
| `TuxreaperdSignalProofs!BroadcastMissesNone` | `~ProcFails => (Spec => BroadcastReachesAll)` |
| `TuxDockAppProofs!OneOperationAtATime` | `Spec => []OneOperation` |
| `TuxDockAppProofs!CommandReachesItsContainer` | `Spec => []ExecTarget` |
| `TuxDockAppProofs!CompletionsLostOnlyAtExit` | `Spec => []LostOnlyAtExit` |
| `TuxDockAppProofs!NoThreadLeft` | `Spec => []AllJoined` |
| `TuxDockAppProofs!TypesCorrect` | `Spec => []TypeOK` |
| `OperationProofs!NeverDisturbed` | `Spec => []Undisturbed` |
| `OperationProofs!UIThreadChains` | `Spec => []NeverDefaultOnUI` |
| `OperationProofs!NothingSwallowedUnseen` | `Spec => []SwallowedIsShown` |
| `CallProofs!EveryCallImplements` | `Spec => ImplementsCall` |
| `CallProofs!FailsFairly` | `Spec => FailsOnlyIfRefused` |
| `ProcessRunnerProofs!NothingLeftOpen` | `Spec => []NoneLeftOpen` |
| `ProcessRunnerProofs!OutputIsWhole` | `Spec => []OutputWhole` |
| `ProcessRunnerProofs!CrossingKnown` | `Spec => CrossesOnlyInDrop` |
| `DetachedHistoryProofs!AlwaysNewestFirst` | `Spec => []NewestFirst` |
| `DetachedHistoryProofs!NeverOverLimit` | `Spec => []WithinLimit` |
| `DetachedHistoryProofs!HistoryIsLog` | `Spec => ImplementsLog` |

They hold for any number of processes, programs, signals, containers, images, operations, queued
closures, descriptors, commands and changes, from the assumptions on the constants alone: sizes are
naturals, what has to be finite is, `DrainPolls` and the limit of the history are positive,
`Signals` are among the six forwarded ones, no program is `tuxreaperd`'s own image.

**ZombieAnnounced** is inductive with `TypeOK` and `FramesWhere` (handlers run
only where signals are not blocked). The argument is a count of moments: a
process that becomes PID 1's zombie puts SIGCHLD back to pending; a
delivery moves it to a frame; only `waitpid` takes the frame away, and it leaves no zombie.

**ExitStatusFaithful** needs `ExitInv`: until the fork there is no main
child, and the drain is entered only after the exit was noted. Without the second
conjunct the exit code could be taken from an unset status. A reaped process
keeps its status since pids are not reused.

**WebEnginesGraceful** needs `SuitInv`: a listed process exists, and the
signal chosen between readlink and kill suits a program the process has been
running. Lemma `OutSigSuits`, about the rule tables, gives the choice; the rest is that an
image list only grows.

**BroadcastReachesAll** needs `SweepInv`, about the second sweep: each process that is due still
lies ahead of the position in the directory, is listed in the buffer, was reached, or is hidden; and nothing lies
ahead of the position once the sweep may end. It assumes that
`/proc` can be opened.

**DrainComplete** needs `CountInv`: a count that has listed nobody has not moved, and after a count that listed nobody, nobody was alive when it
ended. The reader goes up the pids and moves only to a process it lists:
a listing that is still empty at its end passed over nothing. It assumes that `/proc` can be
opened, since `count_descendants` returns 0 when it cannot (`tuxreaperdgnu.c:173`).

**The contract of tuxreaperd** follows from `MainInv`: what `ExitInv` says of the exit status,
and that the main child, once there is one, has been forked. `Phase` and `Work` are the mapping; lemma
`ContractSteps` gives each step of `ReaperContract` in terms of them. Six kinds of step are seen
from outside: an early exit, the start, a failed fork, the end of the main child, the handler's notice of it, and the
exit after the drain. All others leave `Phase`, `Work` and the exit code alone (`ContractStutter`).

**The TuxDock invariants** are proved together as `SessionInv`. Each leans on the
others: one operation at a time because the modal is Busy while a thread is unsettled;
that, because a completion in the queue is the only one and belongs to a thread that has sent it
(`Completions`); that, because a completion is lost only when the session is over; and
`history_container_id_` is stable because a pick needs a modal that is not Busy (`Picked`).
`Handlers` says where the UI thread can be in each of these situations.
`Shapes` keeps only what the other conjuncts need of the types. **AllJoined** is separate:
`JoinInv` says what each join has established so far.

**The invariants of the traps** are proved together as `TrapInv`. `Progress` says where the UI
thread is in `InstallSignalTraps` or `RemoveSignalTraps`; `Switched` derives from that, signal by
signal, which handler is in place, what the flag says and what is kept of the earlier handler:
between `sigaction` and the flag it is kept but not noted. `FramesWhere` gives every
handler on a stack its operation: one about to chain is never of the operation under way, since
the flag was down when it came or it saw the flag down. `UIFrames` uses that a handler on the UI
thread stops the two functions, so that what it read stays true. A handler
elsewhere has no such protection, and it is what `strayed` excepts. The proofs are for
any number of signals and operations, and for handlers stacked on each thread.

**The types of TuxDockApp** are not inductive without `Pending`, which says that while a callback's
modal is open its request is known and the bound on operations leaves room for it, and without
`SessionInv`: a completion that is taken from the queue must be at its head, and an operation that is
about to start must be in a Busy modal. The proof has one lemma for each thread and each callback.

**The refinement of DockerCall** has two halves. The parser: whatever beginning of whatever encoding
of a body has been read, `DecodeChunked` yields a beginning of the body, and the whole of it if
`Complete` says so (`Heard`). `decodeChunked` only looks forward, which is why its recursive definition has
a solution (`DecodeDefined`, by well-foundedness); bodies have at most two symbols, so the rest is by cases on the
chunks. `Verdicts` then gives what `DockerManager` reports. The protocol: `CallInv` says that what has been read is a
beginning of an answer Docker gave in a state it was in since the call began, however often the request
was repeated or carried out late. **FailsOnlyIfRefused** is read off the same invariant: an answer that came
through whole gets the verdict that Docker gave, except where `SeemsToEnd` cuts it off.

**The properties of ProcessRunner** follow from `RunnerInv`. As long as no thread has closed what
is the other's, every number a thread keeps stands for its own end (`EndsHeld`, `SocketHeld`)
and no other slot holds one (`EndsKnown`); after a failure `~Pipe` closes what is still open, after a command
what the loop has closed already (`DropKnown`). That gives **NoneLeftOpen** and, since only the second case closes a
number that may be another's, **CrossesOnlyInDrop**. `OutputKept` balances what was
written against what was read and what is still in the pipe, which gives **OutputWhole**. Once a
descriptor has crossed, only `TypeOK` and `Paired` remain.

**The properties of DetachedHistory** rest on lemmas about lists: what loading, inserting under the cap
and clearing leave of *one* container (`OfCapped`, `OfInFront`, `OfCleared`), from the lemmas of
`SubsequencesProofs`. From there on no proof looks into a list. `HistoryInv` says that every list that is, was or
will be on disk is sound (each container's commands numbered downwards, no more than the limit, none from the
future), and that a change that overlaps no other (`Alone`) finds the file as it loaded it. In
the refinement the truncation is a stutter and the write is the step of the log; a crash or a failure
between them is the log's step that loses everything.

Only model-checked, because each needs fairness, which the prover does not handle:
`NoticedLeadsToExit`, `ZombiesReaped`, `RecordedIsBroadcast` and the fairness of `ImplementsContract`;
`OperationEnds`, `ExitFinishes`, `TriggerRefreshes`, `CacheConverges`; `CallReturns`; `RunReturns`.

## 5. What is not modelled

- *DockerManager*: argument checks, the texts of `apiError` and the search for the `tuxreaperd`
  binary. What its operations do and report is in `DockerState`, and down to the response in `EngineClient`.
- *HTTP parser*: malformed headers and sizes, which the Engine does not send.
- *The system-call wrappers of `tuxreaperdasm.c`*: inline assembly.
- *container_parser*: the mapping of fields and the removal of duplicate ports have no state; that a
  listing is taken whole or not at all is in `Verdict`.
- *Two operation threads at once*: TuxDock runs one at a time (`OneOperation`), so `Operation` and `ProcessRunner`
  have one, beside the poller.
- *stop_waiter*: no program of the repository calls it.
- *Rendering, build, packaging, tests*: no behaviour of the system.

## 6. Plan

1. Done: `SignalRules`, `Tuxreaperd`, `ReaperContract`, `DockerState`, `TuxDockApp` and nine theorems.
2. Done: `HttpResponse`, `EngineClient`, `SignalTraps`, `Operation` over `DockerCall`; `ProcessRunner`;
   `DetachedHistory` over `CommandLog`; the theorems of `OperationProofs`.
3. Done: `Subsequences`, the theorems of `ProcessRunnerProofs`, `DetachedHistoryProofs` and `CallProofs`,
   `ContractKept`, `NobodyLeftBehind`, `TypesCorrect`.
4. Done: `/proc` read buffer by buffer, a stop in `TuxDockConverges`, the fairness of `connect()`.
5. Left: what the liveness properties rest on, as invariants: that the thread a join or a read waits for always has a
   step to take.

## Running

    tlc -config TuxreaperdLifecycle.cfg MCTuxreaperd.tla
    tlc -config TuxDockSession.cfg MCTuxDockApp.tla
    tlapm TuxreaperdProofs.tla
    tlapm CallProofs.tla

Configurations named `Tuxreaperd*` belong to `MCTuxreaperd`, those named `TuxDock*` to
`MCTuxDockApp`, `OperationCalls` to `MCOperation`, `Descriptors*` to `MCProcessRunner` and
`History` to `MCDetachedHistory`. Each run finishes within about three minutes; `CallProofs` takes about three to prove, the other
proof modules less.
