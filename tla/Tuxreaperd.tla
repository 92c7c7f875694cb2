------------------------------ MODULE Tuxreaperd ------------------------------
(***************************************************************************)
(* tuxreaperd, the PID 1 that tux-dock mounts into the containers it       *)
(* creates, together with the part of the kernel it talks to: the process  *)
(* table of the container, signal delivery to PID 1, waitpid and /proc.    *)
(*                                                                         *)
(* The two implementations (tuxreaperdgnu.c with libc, tuxreaperdasm.c     *)
(* without) have the same control flow but for the result of fork, which   *)
(* only the first tests: constant Libc.                                    *)
(*                                                                         *)
(* Abstractions.  Pids are allocated in increasing order and never reused. *)
(* A fork and the exec that may follow are two steps; a program is the     *)
(* target of its exe link (SignalRules).  What a process does on a signal  *)
(* is left open: it may end at any time with any status.  Time is the      *)
(* number of 50 ms polls since the exit of the main child was noticed.     *)
(***************************************************************************)
EXTENDS SignalRules, Sequences, FiniteSets

CONSTANTS
  MaxPid,       \* bound: pids 2..MaxPid can be given to processes
  Signals,      \* bound: the forwarded signals that are sent to the container
  Programs,     \* bound: the exe links a process can have after exec
  MaxImages,    \* bound: images a process runs in its life
  Statuses,     \* bound: the wait statuses each pid can end with,
                \*        <<"exit", code>> or <<"signal", n>>
  DrainPolls,   \* polls that make up DESCENDANT_TIMEOUT_SECONDS
  Libc,         \* TRUE: tuxreaperdgnu.c, FALSE: tuxreaperdasm.c
  ProcFails     \* whether opendir("/proc") can fail

Self == <<"tuxreaperd", "">>      \* the main child between fork and execvp
Unreadable == <<"unreadable", "">>  \* readlink refused: the process changed uid

Pids == 2..MaxPid
WaitStatuses == ({"exit"} \X (0..255)) \cup ({"signal"} \X (1..64))

ASSUME SizesAssumption ==
  /\ MaxPid \in Nat
  /\ MaxImages \in Nat
  /\ DrainPolls \in Nat \ {0}
ASSUME SignalsAssumption == Signals \subseteq Forwarded
ASSUME ProgramsAssumption == Self \notin Programs
ASSUME StatusesAssumption == Statuses \in [Pids -> SUBSET WaitStatuses]
ASSUME SwitchesAssumption == Libc \in BOOLEAN /\ ProcFails \in BOOLEAN

NoPid == 0
Init1 == 1                        \* the pid of tuxreaperd itself
Images == Programs \cup {Self}
StatusZero == <<"exit", 0>>       \* g_main_status before it is assigned
NotExited == 256

VARIABLES
  \* the kernel
  proc,         \* pid -> "none", "live", "zombie" or "reaped"
  parent,       \* pid -> its parent: a pid, Init1, or NoPid for docker exec
  image,        \* pid -> the exe links it has had, the current one last
  status,       \* pid -> its wait status once it has ended
  kpending,     \* signals pending on PID 1
  got,          \* pid -> the signals tuxreaperd sent it and it did not drop
  \* the globals of the program
  frames,       \* the signal handlers running on PID 1, the innermost first
  gPending,     \* g_pending_signals, as a set
  gChildExited, \* g_child_exited
  gStatus,      \* g_main_status
  gMain,        \* g_main_child
  \* where main() is, and its locals
  pc,
  todo,         \* the copy handle_pending_signals took, less what is done
  cur,          \* the signal being broadcast
  sweep,        \* 1 or 2: which proc_remap_signal of broadcast_signal
  entries,      \* directory entries listed and not yet processed
  at,           \* the position in /proc: up to which pid it has been listed
  out,          \* sent_sig of the entry between its readlink and its kill
  polls,        \* now - child_exit_time_ms, in polls
  exitCode,
  \* history
  due,          \* processes live when the first sweep, or a count, ended
  reached       \* processes kill succeeded on in the current broadcast

kernel == <<proc, parent, image, status, kpending, got>>
globals == <<frames, gPending, gChildExited, gStatus, gMain>>
locals == <<todo, cur, sweep, entries, at, out, polls, exitCode, due, reached>>
vars == <<kernel, globals, pc, locals>>

Live == {p \in Pids : proc[p] = "live"}
Existing == {p \in Pids : proc[p] \in {"live", "zombie"}}
Orphans(q) == {p \in Existing : parent[p] = q}
Waitable == {p \in Pids : proc[p] = "zombie" /\ parent[p] = Init1}
Exe(p) == image[p][Len(image[p])]
Least(S) == CHOOSE x \in S : \A y \in S : x <= y
Fresh(p) == proc[p] = "none" /\ \A q \in 2..(p - 1) : proc[q] # "none"
FrameSignals == {frames[i].sig : i \in DOMAIN frames}
(* A slip, kept for the runs to detect: 128 not added. *)
PlainCode(st) == st[2]

ExitCode(st) == IF st[1] = "exit" THEN st[2] ELSE 128 + st[2]

Startup == {"boot", "installed", "fork"}
Scanning == {"open", "list", "scan", "kill"}
Draining == {"drain", "count", "counting", "decide"}
PCs == Startup \cup Scanning \cup Draining
         \cup {"suspend", "handlers", "drainZ", "handle", "next", "exited"}

Init ==
  /\ proc = [p \in Pids |-> "none"]
  /\ parent = [p \in Pids |-> NoPid]
  /\ image = [p \in Pids |-> <<>>]
  /\ status = [p \in Pids |-> StatusZero]
  /\ kpending = {}
  /\ got = [p \in Pids |-> {}]
  /\ frames = <<>>
  /\ gPending = {}
  /\ gChildExited = FALSE
  /\ gStatus = StatusZero
  /\ gMain = NoPid
  /\ pc = "boot"
  /\ todo = {} /\ cur = 0 /\ sweep = 1 /\ entries = {} /\ at = MaxPid /\ out = 0
  /\ polls = 0 /\ exitCode = NotExited
  /\ due = {} /\ reached = {}

------------------------------------------------------------------------------
(* The environment: the processes of the container and Docker. *)

(* A process comes to be; the parent's image is inherited until an exec. *)
Spawn(p, par, img) ==
  /\ proc' = [proc EXCEPT ![p] = "live"]
  /\ parent' = [parent EXCEPT ![p] = par]
  /\ image' = [image EXCEPT ![p] = <<img>>]

ProcForks(q) ==
  /\ proc[q] = "live" /\ Exe(q) # Self
  /\ \E p \in Pids : Fresh(p) /\ Spawn(p, q, Exe(q))
  /\ UNCHANGED <<status, kpending, got, globals, pc, locals>>

(* docker exec; it is assumed not to come before the handlers are installed. *)
DockerExec ==
  /\ pc # "boot"
  /\ \E p \in Pids, e \in Programs : Fresh(p) /\ Spawn(p, NoPid, e)
  /\ UNCHANGED <<status, kpending, got, globals, pc, locals>>

(* execve, or a change of uid after which PID 1 may not read the exe link. *)
ProcExecs(p) ==
  /\ proc[p] = "live" /\ Len(image[p]) < MaxImages
  /\ \E e \in Programs \ {Exe(p)} : image' = [image EXCEPT ![p] = Append(@, e)]
  /\ UNCHANGED <<proc, parent, status, kpending, got, globals, pc, locals>>

(* The process becomes a zombie, its children become children of PID 1.  The
   kernel sends PID 1 a SIGCHLD for its own child and for each zombie it is
   given; SIGCHLD does not queue. *)
ProcExits(p, st) ==
  /\ proc[p] = "live"
  /\ proc' = [proc EXCEPT ![p] = "zombie"]
  /\ status' = [status EXCEPT ![p] = st]
  /\ parent' = [q \in Pids |-> IF q \in Orphans(p) THEN Init1 ELSE parent[q]]
  /\ kpending' = IF Waitable' \subseteq Waitable THEN kpending ELSE kpending \cup {CHLD}
  /\ UNCHANGED <<image, got, globals, pc, locals>>

(* A parent other than PID 1 waits for its child. *)
ParentReaps(p) ==
  /\ proc[p] = "zombie" /\ parent[p] # Init1
  /\ parent[p] # NoPid => proc[parent[p]] = "live"
  /\ proc' = [proc EXCEPT ![p] = "reaped"]
  /\ UNCHANGED <<parent, image, status, kpending, got, globals, pc, locals>>

(* docker stop, docker kill.  PID 1 is immune to a signal without a handler:
   before main() installs them the signal is dropped. *)
SendSignal(s) ==
  /\ pc # "boot" /\ s \notin kpending
  /\ kpending' = kpending \cup {s}
  /\ UNCHANGED <<proc, parent, image, status, got, globals, pc, locals>>

Environment ==
  /\ pc # "exited"
  /\ \/ \E p \in Pids : ProcForks(p) \/ ProcExecs(p) \/ ParentReaps(p)
     \/ \E p \in Pids : \E st \in Statuses[p] : ProcExits(p, st)
     \/ DockerExec
     \/ \E s \in Signals : SendSignal(s)

------------------------------------------------------------------------------
(* Signal handlers.  A handler runs with its own signal masked and can be
   interrupted by the others, since sa_mask is empty. *)

Frame(s) == [sig |-> s, loaded |-> FALSE, reg |-> {}]

(* How the kernel stacks the frames of the signals S that are pending at once:
   it takes the lowest number first, so the highest runs first. *)
Stackings(S) ==
  {f \in [1..Cardinality(S) -> {Frame(s) : s \in S}] :
     /\ \A s \in S : \E i \in DOMAIN f : f[i].sig = s
     /\ \A i, j \in DOMAIN f : i < j => f[i].sig > f[j].sig}

(* sigsuspend(&old_mask) with something pending: every signal is delivered
   before it returns. *)
Wake ==
  /\ pc = "suspend" /\ kpending # {}
  /\ frames' \in Stackings(kpending)
  /\ kpending' = {}
  /\ pc' = "handlers"
  /\ UNCHANGED <<proc, parent, image, status, got,
                 gPending, gChildExited, gStatus, gMain, locals>>

(* A signal that arrives while its bit is not masked: between the sigactions
   and the sigprocmask of main(), or inside another handler. *)
Deliver(s) ==
  /\ \/ pc = "installed"
     \/ pc = "handlers" /\ frames # <<>>
  /\ s \in kpending \ FrameSignals
  /\ frames' = <<Frame(s)>> \o frames
  /\ kpending' = kpending \ {s}
  /\ UNCHANGED <<proc, parent, image, status, got,
                 gPending, gChildExited, gStatus, gMain, pc, locals>>

(* proxy_signal_handler: g_pending_signals |= bit is a load, an or and a store
   (so compiled for x86-64 and AArch64), and not one step. *)
ProxyLoad ==
  /\ frames # <<>> /\ Head(frames).sig # CHLD /\ ~Head(frames).loaded
  /\ frames' = [frames EXCEPT ![1].loaded = TRUE, ![1].reg = gPending]
  /\ UNCHANGED <<kernel, gPending, gChildExited, gStatus, gMain, pc, locals>>

ProxyStore ==
  /\ frames # <<>> /\ Head(frames).loaded
  /\ gPending' = Head(frames).reg \cup {Head(frames).sig}
  /\ frames' = Tail(frames)
  /\ UNCHANGED <<kernel, gChildExited, gStatus, gMain, pc, locals>>

(* Slips, kept for the runs to detect: one waitpid per signal; waitpid for the
   main child only; the status of any child taken for the main child's. *)
ReapOne ==
  proc' = [p \in Pids |->
             IF p \in Waitable /\ p = Least(Waitable) THEN "reaped" ELSE proc[p]]
ReapMain ==
  proc' = [p \in Pids |-> IF p \in Waitable \cap {gMain} THEN "reaped" ELSE proc[p]]
NoteAnyChild ==
  /\ gChildExited' = (gChildExited \/ Waitable # {})
  /\ gStatus' = IF Waitable # {} THEN status[Least(Waitable)] ELSE gStatus

(* waitpid(-1, &st, WNOHANG) until it finds nothing: every zombie child is
   gone.  The status of the main child is kept only if the caller keeps it. *)
ReapAll == proc' = [p \in Pids |-> IF p \in Waitable THEN "reaped" ELSE proc[p]]

NoteMain ==
  /\ gChildExited' = (gChildExited \/ gMain \in Waitable)
  /\ gStatus' = IF gMain \in Waitable THEN status[gMain] ELSE gStatus

SigchldHandler ==
  /\ frames # <<>> /\ Head(frames).sig = CHLD
  /\ ReapAll
  /\ NoteMain
  /\ frames' = Tail(frames)
  /\ UNCHANGED <<parent, image, status, kpending, got,
                 gPending, gMain, pc, locals>>

SigsuspendReturns ==
  /\ pc = "handlers" /\ frames = <<>>
  /\ pc' = "drainZ"
  /\ UNCHANGED <<kernel, globals, locals>>

------------------------------------------------------------------------------
(* Startup. *)

(* argc < 2 or prctl(PR_SET_CHILD_SUBREAPER) failing. *)
Leave(code) ==
  /\ pc' = "exited"
  /\ exitCode' = code
  /\ proc' = [p \in Pids |-> IF p \in Existing THEN "reaped" ELSE proc[p]]
  /\ UNCHANGED <<parent, image, status, kpending, got, globals,
                 todo, cur, sweep, entries, at, out, polls, due, reached>>

BootFails == pc = "boot" /\ Leave(1)

InstallHandlers ==
  /\ pc = "boot"
  /\ pc' = "installed"
  /\ UNCHANGED <<kernel, globals, locals>>

BlockSignals ==
  /\ pc = "installed" /\ frames = <<>>
  /\ pc' = "fork"
  /\ UNCHANGED <<kernel, globals, locals>>

ForkMain ==
  /\ pc = "fork"
  /\ \E p \in Pids : Fresh(p) /\ Spawn(p, Init1, Self) /\ gMain' = p
  /\ pc' = "suspend"
  /\ UNCHANGED <<status, kpending, got,
                 frames, gPending, gChildExited, gStatus, locals>>

(* Without libc the negative result is stored in g_main_child, where it equals
   no pid, and main() goes on. *)
ForkMainFails ==
  /\ pc = "fork"
  /\ IF Libc THEN Leave(1)
     ELSE pc' = "suspend" /\ UNCHANGED <<kernel, globals, locals>>

------------------------------------------------------------------------------
(* The loop of main(). *)

LoopTop == IF gChildExited THEN "drain" ELSE "suspend"

DrainZombies(from, to) ==
  /\ pc = from
  /\ ReapAll
  /\ pc' = to
  /\ UNCHANGED <<parent, image, status, kpending, got, globals, locals>>

(* A slip, kept for the runs to detect: the record is cleared before it is copied. *)
ClearThenTake ==
  /\ pc = "handle"
  /\ todo' = {}
  /\ gPending' = {}
  /\ pc' = "next"
  /\ UNCHANGED <<kernel, frames, gChildExited, gStatus, gMain,
                 cur, sweep, entries, at, out, polls, exitCode, due, reached>>

(* handle_pending_signals: take the recorded signals, then broadcast each. *)
HandlePending ==
  /\ pc = "handle"
  /\ todo' = gPending
  /\ gPending' = {}
  /\ pc' = "next"
  /\ UNCHANGED <<kernel, frames, gChildExited, gStatus, gMain,
                 cur, sweep, entries, at, out, polls, exitCode, due, reached>>

NextSignal ==
  /\ pc = "next" /\ todo # {}
  /\ cur' = Least(todo)
  /\ sweep' = 1
  /\ reached' = {}
  /\ pc' = "open"
  /\ UNCHANGED <<kernel, globals, todo, entries, at, out, polls, exitCode, due>>

HandledAll ==
  /\ pc = "next" /\ todo = {}
  /\ pc' = LoopTop
  /\ UNCHANGED <<kernel, globals, locals>>

(* opendir("/proc") for proc_remap_signal and for count_descendants. *)
OpenProc ==
  /\ \/ pc = "open" /\ pc' = "list"
     \/ pc = "count" /\ pc' = "counting"
  /\ entries' = {}
  /\ at' = 0
  /\ UNCHANGED <<kernel, globals, todo, cur, sweep, out, polls, exitCode,
                 due, reached>>

(* proc_remap_signal returns, count_descendants returns 0. *)
OpenProcFails ==
  /\ ProcFails
  /\ \/ pc = "open" /\ pc' = "scan" /\ UNCHANGED due
     \/ pc = "count" /\ pc' = "decide" /\ due' = Live
  /\ entries' = {}
  /\ at' = MaxPid
  /\ UNCHANGED <<kernel, globals, todo, cur, sweep, out, polls, exitCode, reached>>

(* A slip, kept for the runs to detect: only PID 1's own children are seen. *)
ListChildren == {p \in Existing : parent[p] = Init1 /\ p > at}

(* getdents lists /proc in increasing pid order, each pid as it finds it at
   that moment, zombies included, tuxreaperd itself skipped. *)
ToList == {p \in Existing : p > at}

ReadDir ==
  /\ pc \in {"list", "counting"} /\ ToList # {}
  /\ entries' = entries \cup {Least(ToList)}
  /\ at' = Least(ToList)
  /\ UNCHANGED <<kernel, globals, pc, todo, cur, sweep, out, polls, exitCode,
                 due, reached>>

(* The buffer has no room for the next entry: those it holds, one or more, are
   processed before the rest is listed.  A count only adds them up. *)
BufferFull ==
  /\ pc = "list" /\ entries # {} /\ ToList # {}
  /\ pc' = "scan"
  /\ UNCHANGED <<kernel, globals, locals>>

NextBuffer ==
  /\ pc = "scan" /\ entries = {} /\ at < MaxPid
  /\ pc' = "list"
  /\ UNCHANGED <<kernel, globals, locals>>

(* The end of /proc, which stays the end for the call that finds nothing more. *)
ReadDirEnds ==
  /\ ToList = {}
  /\ \/ pc = "list" /\ pc' = "scan" /\ UNCHANGED due
     \/ pc = "counting" /\ pc' = "decide" /\ due' = Live
  /\ at' = MaxPid
  /\ UNCHANGED <<kernel, globals, todo, cur, sweep, entries, out, polls,
                 exitCode, reached>>

(* readlink of the exe link of the next entry: nothing to read for a process
   that has ended or that PID 1 may not inspect. *)
ReadLink ==
  /\ pc = "scan" /\ entries # {}
  /\ LET p == Least(entries)
     IN  IF proc[p] = "live" /\ Exe(p) # Unreadable
         THEN /\ out' = OutSig(cur, Exe(p))
              /\ pc' = "kill"
              /\ UNCHANGED entries
         ELSE /\ entries' = entries \ {p}
              /\ UNCHANGED <<out, pc>>
  /\ UNCHANGED <<kernel, globals, todo, cur, sweep, at, polls, exitCode, due, reached>>

(* kill of that entry, whatever became of it since.  Before its exec the main
   child still has proxy_signal_handler installed, which only sets the child's
   copy of g_pending_signals: the signal is lost on it. *)
Kill ==
  /\ pc = "kill"
  /\ LET p == Least(entries)
     IN  /\ got' = IF proc[p] = "live" /\ Exe(p) # Self
                   THEN [got EXCEPT ![p] = @ \cup {out}] ELSE got
         /\ reached' = IF p \in Existing THEN reached \cup {p} ELSE reached
         /\ entries' = entries \ {p}
  /\ pc' = "scan"
  /\ UNCHANGED <<proc, parent, image, status, kpending, globals,
                 todo, cur, sweep, at, out, polls, exitCode, due>>

(* A slip, kept for the runs to detect: a broadcast of one sweep. *)
NoSecondSweep ==
  /\ pc = "scan" /\ entries = {} /\ at = MaxPid /\ sweep = 1
  /\ due' = Live
  /\ todo' = todo \ {cur}
  /\ pc' = "next"
  /\ UNCHANGED <<kernel, globals, cur, sweep, entries, at, out, polls, exitCode, reached>>

(* broadcast_signal: usleep between the sweeps, then the next signal. *)
SecondSweep ==
  /\ pc = "scan" /\ entries = {} /\ at = MaxPid /\ sweep = 1
  /\ sweep' = 2
  /\ due' = Live
  /\ pc' = "open"
  /\ UNCHANGED <<kernel, globals, todo, cur, entries, at, out, polls, exitCode, reached>>

BroadcastEnds ==
  /\ pc = "scan" /\ entries = {} /\ at = MaxPid /\ sweep = 2
  /\ todo' = todo \ {cur}
  /\ pc' = "next"
  /\ UNCHANGED <<kernel, globals, cur, sweep, entries, at, out, polls, exitCode,
                 due, reached>>

(* A slip, kept for the runs to detect: ">" for ">=". *)
ExpiredLate == polls > DrainPolls

(* The two breaks of the drain branch; the deadline is tested last. *)
Expired == polls >= DrainPolls

ExitDrained ==
  /\ pc = "decide" /\ (entries = {} \/ Expired)
  /\ Leave(ExitCode(gStatus))

(* A slip, kept for the runs to detect: child_exit_time_ms set at every turn. *)
PollForgetsStart ==
  /\ pc = "decide" /\ entries # {} /\ ~Expired
  /\ polls' = 0
  /\ pc' = "handle"
  /\ UNCHANGED <<kernel, globals, todo, cur, sweep, entries, at, out, exitCode,
                 due, reached>>

(* usleep(DESCENDANT_POLL_INTERVAL_US); the signals stay blocked. *)
Poll ==
  /\ pc = "decide" /\ entries # {} /\ ~Expired
  /\ polls' = polls + 1
  /\ pc' = "handle"
  /\ UNCHANGED <<kernel, globals, todo, cur, sweep, entries, at, out, exitCode,
                 due, reached>>

Handler == ProxyLoad \/ ProxyStore \/ SigchldHandler
Delivery == \E s \in Signals \cup {CHLD} : Deliver(s)

Main ==
  \/ BootFails \/ InstallHandlers \/ BlockSignals \/ ForkMain \/ ForkMainFails
  \/ Wake \/ SigsuspendReturns
  \/ DrainZombies("drainZ", "handle") \/ DrainZombies("drain", "count")
  \/ HandlePending \/ NextSignal \/ HandledAll
  \/ OpenProc \/ OpenProcFails \/ ReadDir \/ BufferFull \/ NextBuffer \/ ReadDirEnds
  \/ ReadLink \/ Kill \/ SecondSweep \/ BroadcastEnds
  \/ ExitDrained \/ Poll

Exited == pc = "exited" /\ UNCHANGED vars

Next == Environment \/ Delivery \/ Handler \/ Main \/ Exited

Spec == Init /\ [][Next]_vars

(* PID 1 is scheduled, and signals do not keep arriving faster than it runs:
   a handler interrupted by others gets to its end (strong fairness). *)
Fairness ==
  /\ SF_vars(Main)
  /\ \A n \in 1..(Cardinality(Signals) + 1) : SF_vars(Handler /\ Len(frames) = n)

FairSpec == Spec /\ Fairness

------------------------------------------------------------------------------
(* Properties. *)

FrameType == [sig : Signals \cup {CHLD}, loaded : BOOLEAN, reg : SUBSET Signals]

KernelType ==
  /\ proc \in [Pids -> {"none", "live", "zombie", "reaped"}]
  /\ parent \in [Pids -> Pids \cup {NoPid, Init1}]
  /\ image \in [Pids -> Seq(Images)]
  /\ \A p \in Pids : proc[p] # "none" => image[p] # <<>>
  /\ status \in [Pids -> WaitStatuses]
  /\ kpending \in SUBSET (Signals \cup {CHLD})
  /\ got \in [Pids -> SUBSET (0..31)]

GlobalsType ==
  /\ frames \in Seq(FrameType)
  /\ \A i \in DOMAIN frames : frames[i].loaded => frames[i].sig # CHLD
  /\ gPending \in SUBSET Signals
  /\ gChildExited \in BOOLEAN
  /\ gStatus \in WaitStatuses
  /\ gMain \in Pids \cup {NoPid}

LocalsType ==
  /\ pc \in PCs
  /\ todo \in SUBSET Signals
  /\ cur \in Signals \cup {0}
  /\ sweep \in {1, 2}
  /\ entries \in SUBSET Pids
  /\ at \in 0..MaxPid
  /\ out \in 0..31
  /\ polls \in 0..DrainPolls
  /\ exitCode \in 0..NotExited
  /\ due \in SUBSET Pids
  /\ reached \in SUBSET Pids

(* The type of every variable; in particular a handler that has loaded the
   record is never that of SIGCHLD, and the polls never pass the deadline. *)
TypeOK == KernelType /\ GlobalsType /\ LocalsType

(* SIGCHLD does not queue and is blocked most of the time; still, no zombie is
   ever left to PID 1 without a SIGCHLD that is pending or whose handler has
   yet to call waitpid: sigsuspend cannot sleep on a zombie. *)
ZombieAnnounced == Waitable # {} => CHLD \in kpending \cup FrameSignals

(* The exit status of the container is that of its main process, never that of
   an adopted orphan, and it is not given out before that process ended and
   was waited for. *)
ExitStatusFaithful ==
  /\ gChildExited => /\ gMain # NoPid
                     /\ proc[gMain] = "reaped"
                     /\ gStatus = status[gMain]
  /\ pc = "exited" => exitCode = IF gMain = NoPid THEN 1 ELSE ExitCode(status[gMain])

(* tuxreaperd does not take the container down under a process it promised to
   wait for: when it exits before the deadline, what is alive was started from
   outside (docker exec) after no process was left to count. *)
DrainComplete ==
  [][pc = "decide" /\ pc' = "exited" /\ polls < DrainPolls => Live \cap due = {}]_vars

(* "to catch processes that spawned just after the first scan": each process
   that is alive when the first sweep ends, whoever forked it and when, and
   lives through the second, has been sent the signal when the broadcast is
   over, unless its exe link cannot be read. *)
Hidden(p) == \E i \in DOMAIN image[p] : image[p][i] = Unreadable
BroadcastReachesAll ==
  [][pc = "scan" /\ pc' = "next" =>
       \A p \in due' \cap Live : p \in reached \/ Hidden(p)]_vars

(* No web engine is stopped the fast way and no other program gets Apache's
   signal: each signal a process was sent suits a program it was running. *)
WebEnginesGraceful ==
  \A p \in Pids : \A s \in got[p] : \E i \in DOMAIN image[p] : Suits(s, image[p][i])

(* Once the exit of the main child is noticed the container ends: the deadline
   is reached even if descendants never exit and signals never stop. *)
NoticedLeadsToExit == gChildExited ~> pc = "exited"

(* Orphans never accumulate: a zombie given to PID 1 is reaped. *)
ZombiesReaped ==
  \A p \in Pids : (proc[p] = "zombie" /\ parent[p] = Init1) ~> (proc[p] = "reaped")

(* A signal on record when sigsuspend returns is broadcast. *)
RecordedIsBroadcast ==
  \A s \in Signals : (pc = "drainZ" /\ s \in gPending) ~> (pc = "open" /\ cur = s)

------------------------------------------------------------------------------
(* What comments and documents say, and the code does not do. *)

(* "Block the signals we wait on so the check/suspend loop is race-free."
   The exit of the main child is noticed when it is waited for. *)
MainReapNoticed ==
  gMain # NoPid /\ pc # "exited" /\ proc[gMain] = "reaped" => gChildExited

------------------------------------------------------------------------------
(* The contract this implements. *)

Contract == INSTANCE ReaperContract WITH
  ForkChecked <- Libc,
  phase <- IF pc \in Startup THEN "starting"
           ELSE IF pc = "exited" THEN "exited"
           ELSE IF gChildExited THEN "draining" ELSE "supervising",
  work <- IF gMain = NoPid THEN <<"none", 0>>
          ELSE IF proc[gMain] = "live" THEN <<"running", 0>> ELSE status[gMain],
  code <- exitCode

(* tuxreaperd does what ReaperContract says and, under Fairness, ends. *)
ImplementsContract == Contract!Spec
==============================================================================
