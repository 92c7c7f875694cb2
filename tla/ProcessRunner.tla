----------------------------- MODULE ProcessRunner ----------------------------
(***************************************************************************)
(* ProcessRunner::run, src/src/process_runner.cpp, one command after the   *)
(* other on the thread of an operation, while the poller makes requests of *)
(* its own (docker_engine_client.cpp): the two share the table of          *)
(* descriptors.  A number is given to the lowest free slot, and a thread   *)
(* that keeps a number after its slot was closed uses whatever the slot    *)
(* holds by then.                                                          *)
(*                                                                         *)
(* The command is external: it writes to its two streams, waits while a    *)
(* pipe is full, and ends.  One unit of data is what one read() returns.   *)
(*                                                                         *)
(* Left out, as the kernel does not give these errors here: the break on a *)
(* poll() error other than EINTR, which two pollfds do not provoke         *)
(* (EINVAL and ENOMEM are about their number, EFAULT about their address); *)
(* and the return on a waitpid() error, which takes a tux-dock started     *)
(* with SIGCHLD ignored (the child is run()'s own and waited for once, and *)
(* the handlers of main.cpp are installed with SA_RESTART).                *)
(***************************************************************************)
EXTENDS Naturals, SequencesExt

CONSTANTS Slots,        \* the limit on open descriptors (ulimit -n)
          MaxRuns,      \* bound: commands run
          MaxRequests,  \* bound: requests the poller makes
          MaxWrites,    \* bound: units of output of a command
          Capacity      \* units a pipe holds

ASSUME RunnerAssumption == /\ {MaxRuns, MaxRequests, MaxWrites} \subseteq Nat
                           /\ {Slots, Capacity} \subseteq Nat \ {0}

Numbers == 1..Slots     \* descriptors; 0 stands for -1
Streams == {"out", "err"}
Pipes   == (1..MaxRuns) \X Streams

(* What a slot may hold: an end of a pipe, or the socket of a request. *)
End(kind, pipe) == [kind |-> kind, pipe |-> pipe]
Socket(k)       == End("socket", <<k, "out">>)
Free            == End("free", <<0, "out">>)

VARIABLES slots,        \* the descriptor table
          data,         \* per pipe, the units written and not read
          run,          \* the thread of the operation in run()
          child,        \* its child process
          request,      \* the poller in request()
          sockets,      \* per request: silent, answered, or spent (its answer was read)
          wrote,        \* history: the units the current command has written, per stream
          crossed       \* history: a thread has closed what belongs to the other one

vars == <<slots, data, run, child, request, sockets, wrote, crossed>>

NoPipe   == [read |-> 0, write |-> 0]
NoOutput == [s \in Streams |-> 0]
NoRun    == [n |-> 0, pc |-> "idle", pipes |-> [s \in Streams |-> NoPipe], watch |-> <<>>, events |-> <<>>, i |-> 1,
             text |-> NoOutput, drop |-> <<>>, status |-> "none"]
NoChild  == [alive |-> FALSE, wants |-> "none", status |-> "none"]
NoRequest == [n |-> 0, pc |-> "idle", number |-> 0, holds |-> Free]

Init == /\ slots = [n \in Numbers |-> Free] /\ data = [p \in Pipes |-> 0]
        /\ run = NoRun /\ child = NoChild
        /\ request = NoRequest /\ sockets = [k \in 1..MaxRequests |-> "silent"]
        /\ wrote = NoOutput /\ crossed = FALSE

(***************************************************************************)
(* Descriptors.                                                            *)
(***************************************************************************)
FreeNumbers == {n \in Numbers : slots[n] = Free}
Lowest      == Min(FreeNumbers)

At(n) == IF n \in Numbers THEN slots[n] ELSE Free

Mine(thread, end) == IF thread = "poller" THEN end.kind = "socket" ELSE end.kind \in {"read", "write"}

(* close(n), whatever the slot holds; a free one is EBADF, which nobody looks at. *)
Close(thread, n) ==
    /\ slots' = IF n \in Numbers THEN [slots EXCEPT ![n] = Free] ELSE slots
    /\ crossed' = (crossed \/ (At(n) # Free /\ ~Mine(thread, At(n))))

(* The command of the current run holds a write end of each of its pipes until it ends. *)
Writers(pipe) == (child.alive /\ pipe[1] = run.n) \/ \E n \in Numbers : slots[n] = End("write", pipe)
Readers(pipe) == (\E n \in Numbers : slots[n] = End("read", pipe)) \/ request.holds = End("read", pipe)

HasData(end) == CASE end.kind = "read"   -> data[end.pipe] > 0
                  [] end.kind = "socket" -> sockets[end.pipe[1]] = "answered"
                  [] OTHER               -> FALSE

(* A slip, kept for the runs to detect: POLLHUP is taken for the end, whatever is left in the pipe. *)
HungUp(end) == end.kind = "read" /\ ~Writers(end.pipe)

AtEnd(end) == CASE end.kind = "read"   -> data[end.pipe] = 0 /\ ~Writers(end.pipe)
                [] end.kind = "socket" -> sockets[end.pipe[1]] = "spent"
                [] OTHER               -> FALSE

(* read() fails at once where nothing can be read. *)
Unreadable(end) == end.kind \in {"free", "write"}

(* A unit is read from an end that has one. *)
Take(end) == IF end.kind = "read"
             THEN data' = [data EXCEPT ![end.pipe] = @ - 1] /\ UNCHANGED sockets
             ELSE sockets' = [sockets EXCEPT ![end.pipe[1]] = "spent"] /\ UNCHANGED data

(***************************************************************************)
(* The run.                                                                *)
(***************************************************************************)
Pipe(s) == <<run.n, s>>

(* What is pushed to a list, or closed, of a number that may be -1. *)
Opened(n) == IF n = 0 THEN <<>> ELSE <<n>>

(* A slip, kept for the runs to detect: ~Pipe closes the read end only. *)
DroppedReads(pipes) == Opened(pipes["err"].read) \o Opened(pipes["out"].read)

(* ~Pipe of stderr_pipe, then of stdout_pipe: every number that is not -1 is closed. *)
Dropped(pipes) == Opened(pipes["err"].read) \o Opened(pipes["err"].write)
                      \o Opened(pipes["out"].read) \o Opened(pipes["out"].write)

(* The descriptors to poll: those of the two read ends. *)
Watched == Opened(run.pipes["out"].read) \o Opened(run.pipes["err"].read)

Leaving(pipes, status) == [run EXCEPT !.pc = "drop", !.pipes = pipes, !.drop = Dropped(pipes), !.status = status]

Begin == /\ run.pc = "idle" /\ run.n < MaxRuns
         /\ \E pc \in {"pipeOut", "fork"} :         \* captured, or inherit_stdio
                run' = [NoRun EXCEPT !.n = run.n + 1, !.pc = pc]
         /\ wrote' = NoOutput
         /\ UNCHANGED <<slots, data, child, request, sockets, crossed>>

(* pipe(): two slots, or EMFILE. *)
MakePipe(s, from, to) ==
    /\ run.pc = from
    /\ LET read  == Lowest
           write == Min(FreeNumbers \ {read})
       IN  IF Cardinality(FreeNumbers) < 2
           THEN run' = Leaving(run.pipes, "failed") /\ UNCHANGED slots
           ELSE /\ slots' = [slots EXCEPT ![read] = End("read", Pipe(s)), ![write] = End("write", Pipe(s))]
                /\ run' = [run EXCEPT !.pc = to, !.pipes[s] = [read |-> read, write |-> write]]
    /\ UNCHANGED <<data, child, request, sockets, wrote, crossed>>
Fork == /\ run.pc = "fork"
        /\ \/ /\ child' = [alive |-> TRUE, wants |-> "none", status |-> "none"]
              /\ run' = [run EXCEPT !.pc = "closeOut"]
           \/ /\ run' = Leaving(run.pipes, "failed")
              /\ UNCHANGED child
        /\ UNCHANGED <<slots, data, request, sockets, wrote, crossed>>

(* A slip, kept for the runs to detect: the number of a closed write end is kept. *)
CloseWriteKept(s, from, to) ==
    /\ run.pc = from
    /\ Close("runner", run.pipes[s].write)
    /\ run' = [run EXCEPT !.pc = to, !.watch = Watched]
    /\ UNCHANGED <<data, child, request, sockets, wrote>>

(* The parent's copy of a write end, which would keep the pipe from ending. *)
CloseWrite(s, from, to) ==
    /\ run.pc = from
    /\ Close("runner", run.pipes[s].write)
    /\ run' = [run EXCEPT !.pc = to, !.pipes[s].write = 0, !.watch = Watched]
    /\ UNCHANGED <<data, child, request, sockets, wrote>>

(* poll() returns when it has something to say of a descriptor.  run() looks for POLLIN and
   POLLHUP only: POLLNVAL of a free slot, POLLERR of a write end pass unseen. *)
Ready(n)   == HasData(At(n)) \/ AtEnd(At(n))
Invalid(n) == At(n) = Free \/ (At(n).kind = "write" /\ ~Readers(At(n).pipe))

(* A slip, kept for the runs to detect: one stream is read to its end before the other. *)
PollFirst == /\ run.pc = "poll"
             /\ IF run.watch = <<>>
                THEN run' = [run EXCEPT !.pc = "wait"]
                ELSE /\ Ready(run.watch[1]) \/ Invalid(run.watch[1])
                     /\ run' = [run EXCEPT !.pc = "scan", !.i = 1,
                                           !.events = [i \in DOMAIN run.watch |-> i = 1 /\ Ready(run.watch[1])]]
             /\ UNCHANGED <<slots, data, child, request, sockets, wrote, crossed>>

(* poll() without a time limit, called again after EINTR. *)
Poll == /\ run.pc = "poll"
        /\ IF run.watch = <<>>
           THEN run' = [run EXCEPT !.pc = "wait"]
           ELSE /\ \E i \in DOMAIN run.watch : Ready(run.watch[i]) \/ Invalid(run.watch[i])
                /\ run' = [run EXCEPT !.pc = "scan", !.i = 1,
                                      !.events = [i \in DOMAIN run.watch |-> Ready(run.watch[i])]]
        /\ UNCHANGED <<slots, data, child, request, sockets, wrote, crossed>>

(* The pass over poll_fds: a descriptor without an event is passed over, ... *)
Pass == /\ run.pc = "scan"
        /\ \/ run.i > Len(run.watch) /\ run' = [run EXCEPT !.pc = "poll"]
           \/ run.i <= Len(run.watch) /\ ~run.events[run.i] /\ run' = [run EXCEPT !.i = @ + 1]
        /\ UNCHANGED <<slots, data, child, request, sockets, wrote, crossed>>

Scanned == run.watch[run.i]
Scans   == run.pc = "scan" /\ run.i <= Len(run.watch) /\ run.events[run.i]

(* ... one with data gives a unit of it, to the text its number stands for, ... *)
Collect == /\ Scans /\ HasData(At(Scanned))
           /\ Take(At(Scanned))
           /\ LET s == IF Scanned = run.pipes["out"].read THEN "out" ELSE "err"
              IN  run' = [run EXCEPT !.text[s] = @ + 1, !.i = @ + 1]
           /\ UNCHANGED <<slots, child, request, wrote, crossed>>

(* ... and one at its end, or in error, is closed and replaced by the last. *)
SwapRemoved(s, i) == Front(ReplaceAt(s, i, Last(s)))

EndStream == /\ Scans /\ (AtEnd(At(Scanned)) \/ Unreadable(At(Scanned)))
             /\ Close("runner", Scanned)
             /\ run' = [run EXCEPT !.watch = SwapRemoved(@, run.i), !.events = SwapRemoved(@, run.i)]
             /\ UNCHANGED <<data, child, request, sockets, wrote>>

(* waitpid() of the command, which may long have ended. *)
Wait == /\ run.pc = "wait" /\ ~child.alive
        /\ run' = Leaving(run.pipes, child.status)
        /\ UNCHANGED <<slots, data, child, request, sockets, wrote, crossed>>

Drop == /\ run.pc = "drop"
        /\ IF run.drop = <<>>
           THEN run' = [run EXCEPT !.pc = "idle"] /\ UNCHANGED <<slots, crossed>>
           ELSE run' = [run EXCEPT !.drop = Tail(@)] /\ Close("runner", Head(run.drop))
        /\ UNCHANGED <<data, child, request, sockets, wrote>>

Runner == \/ Begin \/ MakePipe("out", "pipeOut", "pipeErr") \/ MakePipe("err", "pipeErr", "fork") \/ Fork
          \/ CloseWrite("out", "closeOut", "closeErr") \/ CloseWrite("err", "closeErr", "poll")
          \/ Poll \/ Pass \/ Collect \/ EndStream \/ Wait \/ Drop

(***************************************************************************)
(* The command.                                                            *)
(***************************************************************************)
Captured == run.pipes["out"].read # 0

ChildWants == /\ child.alive /\ child.wants = "none" /\ Captured
              /\ \E s \in Streams : wrote[s] < MaxWrites /\ child' = [child EXCEPT !.wants = s]
              /\ UNCHANGED <<slots, data, run, request, sockets, wrote, crossed>>

(* It waits while the pipe is full, and gets SIGPIPE when nobody can read it any more. *)
ChildWrites == /\ child.alive /\ child.wants # "none"
               /\ LET pipe == Pipe(child.wants)
                  IN  IF Readers(pipe)
                      THEN /\ data[pipe] < Capacity
                           /\ data' = [data EXCEPT ![pipe] = @ + 1]
                           /\ wrote' = [wrote EXCEPT ![child.wants] = @ + 1]
                           /\ child' = [child EXCEPT !.wants = "none"]
                      ELSE /\ child' = [alive |-> FALSE, wants |-> "none", status |-> "killed"]
                           /\ UNCHANGED <<data, wrote>>
               /\ UNCHANGED <<slots, run, request, sockets, crossed>>

ChildEnds == /\ child.alive /\ child.wants = "none"
             /\ \E status \in {"exited", "killed"} :
                    child' = [alive |-> FALSE, wants |-> "none", status |-> status]
             /\ UNCHANGED <<slots, data, run, request, sockets, wrote, crossed>>

Child == ChildWants \/ ChildWrites \/ ChildEnds

(***************************************************************************)
(* The poller, in DockerEngineClient::request.                             *)
(***************************************************************************)
(* socket(): the lowest free slot, or EMFILE. *)
OpenSocket == /\ request.pc = "idle" /\ request.n < MaxRequests /\ FreeNumbers # {}
              /\ slots' = [slots EXCEPT ![Lowest] = Socket(request.n + 1)]
              /\ request' = [n |-> request.n + 1, pc |-> "write", number |-> Lowest, holds |-> Free]
              /\ UNCHANGED <<data, run, child, sockets, wrote, crossed>>

(* connect and write by number, or an error: the slot may hold a pipe by now. *)
WriteRequest ==
    /\ request.pc = "write"
    /\ LET end == At(request.number)
       IN  \/ /\ end.kind = "socket" /\ request' = [request EXCEPT !.pc = "read"]
              /\ UNCHANGED data
           \/ /\ end.kind = "write" /\ Readers(end.pipe) /\ data[end.pipe] < Capacity
              /\ data' = [data EXCEPT ![end.pipe] = @ + 1]
              /\ request' = [request EXCEPT !.pc = "read"]
           \/ request' = [request EXCEPT !.pc = "close"] /\ UNCHANGED data
    /\ UNCHANGED <<slots, run, child, sockets, wrote, crossed>>

(* read() keeps hold of what the slot held when it was called. *)
CallRead == /\ request.pc = "read"
            /\ request' = [request EXCEPT !.pc = "reading", !.holds = At(request.number)]
            /\ UNCHANGED <<slots, data, run, child, sockets, wrote, crossed>>

(* It returns a unit, the end, an error or, by its time limit, nothing; after a unit the loop
   may go on. *)
ReadReturns ==
    /\ request.pc = "reading"
    /\ \/ /\ HasData(request.holds) /\ Take(request.holds)
          /\ \E pc \in {"read", "close"} : request' = [request EXCEPT !.pc = pc, !.holds = Free]
       \/ /\ request.holds.kind # "read" \/ AtEnd(request.holds)
          /\ request' = [request EXCEPT !.pc = "close", !.holds = Free]
          /\ UNCHANGED <<data, sockets>>
    /\ UNCHANGED <<slots, run, child, wrote, crossed>>

CloseSocket == /\ request.pc = "close"
               /\ Close("poller", request.number)
               /\ request' = [request EXCEPT !.pc = "idle", !.number = 0]
               /\ UNCHANGED <<data, run, child, sockets, wrote>>

Poller == OpenSocket \/ WriteRequest \/ CallRead \/ ReadReturns \/ CloseSocket

EngineAnswers == /\ \E k \in 1..request.n : /\ sockets[k] = "silent"
                                             /\ sockets' = [sockets EXCEPT ![k] = "answered"]
                 /\ UNCHANGED <<slots, data, run, child, request, wrote, crossed>>

(* The bounds are reached. *)
Over == /\ run.pc = "idle" /\ run.n = MaxRuns /\ request.pc = "idle" /\ request.n = MaxRequests
        /\ UNCHANGED vars

Next == Runner \/ Child \/ Poller \/ EngineAnswers \/ Over

Spec == Init /\ [][Next]_vars

(* Both threads are scheduled, and the command does not wait for ever of its own accord. *)
FairSpec == Spec /\ WF_vars(Runner) /\ WF_vars(Child) /\ WF_vars(Poller)

(***************************************************************************)
(* Properties.                                                             *)
(***************************************************************************)
(* Neither an error in the middle of run() or request(), nor a command that ends early, leaves a
   descriptor open: with both threads outside these functions the table is empty. *)
NoneLeftOpen == run.pc = "idle" /\ request.pc = "idle" /\ ~crossed => FreeNumbers = Numbers

(* A captured command's result is all it wrote, on the stream it wrote it, with the status it
   ended with, however its output and its end interleave with the polls. *)
OutputWhole == run.pc = "idle" /\ Captured /\ run.status # "failed" /\ ~crossed =>
                   run.text = wrote /\ run.status = child.status

(* A thread first closes what belongs to the other one where ~Pipe closes a read end that the
   loop has closed at its end of file: no other close in the two functions comes too late. *)
CrossesOnlyInDrop ==
    [][crossed' /\ ~crossed => /\ run.pc = "drop" /\ child.status # "none"
                                /\ \E s \in Streams : Head(run.drop) = run.pipes[s].read]_vars

(* run() returns once the command has ended, as long as no descriptor was crossed: it drains
   both pipes, so the command never waits for a full one. *)
RunReturns == run.pc # "idle" ~> run.pc = "idle" \/ crossed

(* run() returns, so that the operation that waits for it ends (README.md:34). *)
CommandReturns == run.pc # "idle" ~> run.pc = "idle"
=============================================================================
