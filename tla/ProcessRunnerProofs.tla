-------------------------- MODULE ProcessRunnerProofs --------------------------
(***************************************************************************)
(* Theorems about ProcessRunner for every size of the descriptor table,    *)
(* every number of commands and of requests, and every amount of output.   *)
(***************************************************************************)
EXTENDS ProcessRunner, TLAPS, SequenceTheorems, FiniteSetTheorems,
        WellFoundedInduction

(***************************************************************************)
(* The inductive invariant.  What it says of the descriptors and of the    *)
(* output it says while neither thread has closed what belongs to the      *)
(* other: from then on nothing can be relied on.                           *)
(***************************************************************************)
Before == {"pipeOut", "pipeErr", "fork"}
Within == {"closeOut", "closeErr", "poll", "scan", "wait"}

Ends == {Free} \cup {End(k, p) : k \in {"read", "write"}, p \in Pipes} \cup {Socket(k) : k \in 1..MaxRequests}

Statuses == {"none", "exited", "killed", "failed"}

Runs == [n : 0..MaxRuns, pc : Before \cup Within \cup {"drop", "idle"},
         pipes : [Streams -> [read : 0..Slots, write : 0..Slots]],
         watch : Seq(Numbers), events : Seq(BOOLEAN), i : Nat \ {0},
         text : [Streams -> Nat], drop : Seq(Numbers), status : Statuses]

Children == [alive : BOOLEAN, wants : Streams \cup {"none"}, status : Statuses \ {"failed"}]

Requests == [n : 0..MaxRequests, pc : {"idle", "write", "read", "reading", "close"},
             number : 0..Slots, holds : Ends]

TypeOK == /\ slots \in [Numbers -> Ends] /\ data \in [Pipes -> Nat]
          /\ run \in Runs /\ child \in Children
          /\ run.pc # "idle" => run.n > 0
          /\ request \in Requests /\ sockets \in [1..MaxRequests -> {"silent", "answered", "spent"}]
          /\ wrote \in [Streams -> Nat] /\ crossed \in BOOLEAN

(* The loop looks at as many events as it watches numbers. *)
Paired == run.pc = "scan" => Len(run.events) = Len(run.watch)

(* The poller's number stands for its socket, and no other slot holds one. *)
SocketHeld ==
    /\ request.pc # "idle" => /\ request.number \in Numbers
                              /\ slots[request.number] = Socket(request.n)
    /\ \A m \in Numbers : slots[m].kind = "socket" => request.pc # "idle" /\ m = request.number
    /\ request.holds.kind \in {"free", "socket"}

(* Which numbers a run has, by the point it has reached. *)
PipesMade ==
    /\ run.pc = "pipeOut" => run.pipes["out"] = NoPipe
    /\ run.pc \in {"pipeOut", "pipeErr"} => run.pipes["err"] = NoPipe
    /\ run.pc = "pipeErr" => run.pipes["out"].read # 0 /\ run.pipes["out"].write # 0
    /\ run.pc \notin {"pipeOut", "pipeErr"} /\ run.status # "failed" =>
           (run.pipes["out"].read # 0 <=> run.pipes["err"].read # 0)
    /\ run.pc \in {"fork", "closeOut"} => \A s \in Streams : run.pipes[s].read # 0 <=> run.pipes[s].write # 0
    /\ run.pc \in {"closeErr", "poll", "scan", "wait"} => run.pipes["out"].write = 0
    /\ run.pc = "closeErr" => (run.pipes["err"].read # 0 <=> run.pipes["err"].write # 0)
    /\ run.pc \in {"poll", "scan", "wait"} => run.pipes["err"].write = 0
    /\ run.pc \notin {"drop", "idle"} => run.status = "none"
    /\ run.pc = "drop" => run.status # "none"
    /\ run.pc = "idle" /\ run.status = "none" => ~Captured
    /\ run.pipes["out"].read # 0 => run.pipes["out"].read # run.pipes["err"].read

(* Its numbers stand for its ends, ... *)
EndsHeld ==
    /\ run.pc \in Before \cup Within => \A s \in Streams :
           run.pipes[s].write # 0 => slots[run.pipes[s].write] = End("write", Pipe(s))
    /\ run.pc \in Before \cup {"closeOut", "closeErr"} => \A s \in Streams :
           run.pipes[s].read # 0 => slots[run.pipes[s].read] = End("read", Pipe(s))
    /\ run.pc \in {"poll", "scan", "wait"} => \A i \in DOMAIN run.watch : \E s \in Streams :
           /\ run.watch[i] = run.pipes[s].read
           /\ slots[run.watch[i]] = End("read", Pipe(s))

(* ... and no other slot holds one. *)
EndsKnown ==
    \A m \in Numbers :
        /\ slots[m].kind = "write" =>
               \/ run.pc \in Before \cup Within /\ \E s \in Streams : m = run.pipes[s].write
               \/ run.pc = "drop" /\ \E i \in DOMAIN run.drop : m = run.drop[i]
        /\ slots[m].kind = "read" =>
               \/ run.pc \in Before \cup {"closeOut", "closeErr"} /\ \E s \in Streams : m = run.pipes[s].read
               \/ run.pc \in {"poll", "scan", "wait"} /\ \E i \in DOMAIN run.watch : m = run.watch[i]
               \/ run.pc = "drop" /\ \E i \in DOMAIN run.drop : m = run.drop[i]

(* The loop watches each number once, until it watches none. *)
WatchedOnce ==
    /\ \A i, j \in DOMAIN run.watch : run.watch[i] = run.watch[j] => i = j
    /\ run.pc = "wait" => run.watch = <<>>

(* What ~Pipe closes after a failure is still open; after the command's end it is a read end
   that the loop has closed. *)
DropKnown ==
    run.pc = "drop" =>
        /\ run.status = "failed" =>
               /\ \A i, j \in DOMAIN run.drop : run.drop[i] = run.drop[j] => i = j
               /\ \A i \in DOMAIN run.drop : slots[run.drop[i]].kind \in {"read", "write"}
        /\ run.status # "failed" =>
               \A i \in DOMAIN run.drop : \E s \in Streams : run.drop[i] = run.pipes[s].read

(* The command runs inside run() only, and its status is known once it has ended. *)
ChildKnown ==
    /\ child.alive => run.pc \in Within
    /\ run.pc \in Within => (child.alive <=> child.status = "none")
    /\ run.pc \in {"drop", "idle"} /\ run.status \notin {"none", "failed"} =>
           child.status = run.status

(* What the command wrote has been read or is in its pipe; a stream that has been closed, or a
   run that is over, has nothing left, and nobody to write more. *)
OutputKept ==
    /\ \A p \in Pipes : p[1] > run.n => data[p] = 0
    /\ run.n = 0 => run.text = wrote
    /\ run.n > 0 => \A s \in Streams : run.text[s] + data[Pipe(s)] = wrote[s]
    /\ Captured /\ run.pc \in {"poll", "scan", "wait"} => \A s \in Streams :
           (\A i \in DOMAIN run.watch : run.watch[i] # run.pipes[s].read) =>
               data[Pipe(s)] = 0 /\ ~child.alive
    /\ Captured /\ run.pc \in {"drop", "idle"} /\ run.status # "failed" =>
           \A s \in Streams : data[Pipe(s)] = 0

RunKept == /\ PipesMade /\ EndsHeld /\ EndsKnown
           /\ WatchedOnce /\ DropKnown /\ ChildKnown /\ OutputKept

Uncrossed == SocketHeld /\ RunKept

RunnerInv == TypeOK /\ Paired /\ (~crossed => Uncrossed)

(***************************************************************************)
(* Descriptors and sequences.                                              *)
(***************************************************************************)
(* The naturals are well-ordered, in the form of the library. *)
LEMMA NatMinimal ==
  ASSUME NEW S \in SUBSET Nat, S # {}
  PROVE  \E x \in S : \A y \in S : <<y, x>> \notin OpToRel(<, Nat)
BY NatLessThanWellFounded, WFMin

(* A non-empty set of naturals has its Min. *)
LEMMA MinIn ==
  ASSUME NEW S \in SUBSET Nat, S # {}
  PROVE  Min(S) \in S
<1>1. PICK x \in S : \A y \in S : <<y, x>> \notin OpToRel(<, Nat)
  BY NatMinimal
<1>2. \A a, b \in Nat : a < b => <<a, b>> \in OpToRel(<, Nat)
  BY DEF OpToRel
<1>3. ASSUME NEW y \in S PROVE x <= y
  <2>1. ~ (y < x)
    BY <1>1, <1>2
  <2> QED
    BY <2>1
<1> QED
  BY <1>3 DEF Min

LEMMA NumbersFacts == /\ Numbers \in SUBSET Nat /\ IsFiniteSet(Numbers)
                      /\ 0 \notin Numbers /\ Numbers \subseteq 0..Slots
                      /\ Slots \in Nat /\ MaxRuns \in Nat /\ MaxRequests \in Nat
<1>1. Slots \in Nat \ {0} /\ MaxRuns \in Nat /\ MaxRequests \in Nat
  BY RunnerAssumption
<1>2. IsFiniteSet(1..Slots)
  BY <1>1, FS_Interval
<1> QED
  BY <1>1, <1>2 DEF Numbers

(* open() and socket() get a free slot. *)
LEMMA LowestFree ==
  ASSUME FreeNumbers # {}
  PROVE  Lowest \in Numbers /\ slots[Lowest] = Free
BY MinIn, NumbersFacts DEF FreeNumbers, Lowest

(* pipe() gets two. *)
LEMMA TwoLowestFree ==
  ASSUME ~ (Cardinality(FreeNumbers) < 2)
  PROVE  LET read  == Lowest
             write == Min(FreeNumbers \ {read})
         IN  /\ read \in Numbers /\ slots[read] = Free
             /\ write \in Numbers /\ slots[write] = Free
             /\ read # write
<1>1. IsFiniteSet(FreeNumbers) /\ FreeNumbers \in SUBSET Nat
  BY NumbersFacts, FS_Subset DEF FreeNumbers
<1>2. FreeNumbers # {}
  BY FS_EmptySet
<1>3. Lowest \in FreeNumbers
  BY <1>1, <1>2, MinIn DEF Lowest
<1>4. FreeNumbers \ {Lowest} # {}
  <2>1. Cardinality(FreeNumbers \ {Lowest}) = Cardinality(FreeNumbers) - 1
    BY <1>1, <1>3, FS_RemoveElement
  <2>2. Cardinality(FreeNumbers) \in Nat
    BY <1>1, FS_CardinalityType
  <2> QED
    BY <2>1, <2>2, FS_EmptySet
<1>5. Min(FreeNumbers \ {Lowest}) \in FreeNumbers \ {Lowest}
  BY <1>1, <1>4, MinIn
<1> QED
  BY <1>3, <1>5 DEF FreeNumbers

LEMMA Joined2 ==
  ASSUME NEW a \in Nat, NEW b \in Nat
  PROVE  <<a>> \o <<b>> = <<a, b>>
<1>1. <<a>> \o <<b>> \in Seq(Nat) /\ <<a, b>> \in Seq(Nat)
  OBVIOUS
<1>2. Len(<<a>> \o <<b>>) = 2 /\ Len(<<a, b>>) = 2
  OBVIOUS
<1>3. \A i \in 1..2 : (<<a>> \o <<b>>)[i] = <<a, b>>[i]
  OBVIOUS
<1> QED
  BY <1>1, <1>2, <1>3, SeqEqual

LEMMA Joined3 ==
  ASSUME NEW a \in Nat, NEW b \in Nat, NEW c \in Nat
  PROVE  <<a, b>> \o <<c>> = <<a, b, c>>
<1>1. <<a, b>> \o <<c>> \in Seq(Nat) /\ <<a, b, c>> \in Seq(Nat)
  OBVIOUS
<1>2. Len(<<a, b>> \o <<c>>) = 3 /\ Len(<<a, b, c>>) = 3
  OBVIOUS
<1>3. \A i \in 1..3 : (<<a, b>> \o <<c>>)[i] = <<a, b, c>>[i]
  OBVIOUS
<1> QED
  BY <1>1, <1>2, <1>3, SeqEqual

LEMMA Joined4 ==
  ASSUME NEW a \in Nat, NEW b \in Nat, NEW c \in Nat, NEW d \in Nat
  PROVE  <<a, b, c>> \o <<d>> = <<a, b, c, d>>
<1>1. <<a, b, c>> \o <<d>> \in Seq(Nat) /\ <<a, b, c, d>> \in Seq(Nat)
  OBVIOUS
<1>2. Len(<<a, b, c>> \o <<d>>) = 4 /\ Len(<<a, b, c, d>>) = 4
  OBVIOUS
<1>3. \A i \in 1..4 : (<<a, b, c>> \o <<d>>)[i] = <<a, b, c, d>>[i]
  OBVIOUS
<1> QED
  BY <1>1, <1>2, <1>3, SeqEqual

(* What poll() is given. *)
LEMMA WatchedCases ==
  ASSUME NEW o \in Nat, NEW e \in Nat
  PROVE  /\ o # 0 /\ e # 0 => Opened(o) \o Opened(e) = <<o, e>>
         /\ o # 0 /\ e = 0 => Opened(o) \o Opened(e) = <<o>>
         /\ o = 0 /\ e # 0 => Opened(o) \o Opened(e) = <<e>>
         /\ o = 0 /\ e = 0 => Opened(o) \o Opened(e) = <<>>
<1>1. <<o>> \o <<>> = <<o>> /\ <<>> \o <<e>> = <<e>> /\ <<>> \o <<>> = <<>>
  <2>1. <<o>> \in Seq(Nat) /\ <<e>> \in Seq(Nat) /\ <<>> \in Seq(Nat)
    OBVIOUS
  <2> QED
    BY <2>1, ConcatEmptySeq
<1>2. <<o>> \o <<e>> = <<o, e>>
  BY Joined2
<1> QED
  BY <1>1, <1>2 DEF Opened

(* What ~Pipe closes. *)
LEMMA DroppedCases ==
  ASSUME NEW pipes \in [Streams -> [read : Nat, write : Nat]],
         NEW er, er = pipes["err"].read, NEW ew, ew = pipes["err"].write,
         NEW or, or = pipes["out"].read, NEW ow, ow = pipes["out"].write
  PROVE  /\ er = 0 /\ ew = 0 /\ or = 0 /\ ow = 0 => Dropped(pipes) = <<>>
         /\ er = 0 /\ ew = 0 /\ or # 0 /\ ow # 0 => Dropped(pipes) = <<or, ow>>
         /\ er # 0 /\ ew = 0 /\ or # 0 /\ ow = 0 => Dropped(pipes) = <<er, or>>
         /\ er # 0 /\ ew # 0 /\ or # 0 /\ ow # 0 => Dropped(pipes) = <<er, ew, or, ow>>
<1>1. er \in Nat /\ ew \in Nat /\ or \in Nat /\ ow \in Nat
  BY DEF Streams
<1>2. Dropped(pipes) = Opened(er) \o Opened(ew) \o Opened(or) \o Opened(ow)
  BY DEF Dropped
<1>3. CASE er = 0 /\ ew = 0 /\ or = 0 /\ ow = 0
  BY <1>2, <1>3, ConcatEmptySeq, EmptySeq DEF Opened
<1>4. CASE er = 0 /\ ew = 0 /\ or # 0 /\ ow # 0
  <2>1. Opened(er) \o Opened(ew) = <<>>
    BY <1>4, ConcatEmptySeq, EmptySeq DEF Opened
  <2>2. <<>> \o <<or>> = <<or>>
    BY <1>1, ConcatEmptySeq
  <2>3. <<or>> \o <<ow>> = <<or, ow>>
    BY <1>1, Joined2
  <2> QED
    BY <1>2, <1>4, <2>1, <2>2, <2>3 DEF Opened
<1>5. CASE er # 0 /\ ew = 0 /\ or # 0 /\ ow = 0
  <2>1. <<er>> \in Seq(Nat) /\ <<er, or>> \in Seq(Nat)
    BY <1>1
  <2>2. <<er>> \o <<>> = <<er>> /\ <<er, or>> \o <<>> = <<er, or>>
    BY <2>1, ConcatEmptySeq
  <2>3. <<er>> \o <<or>> = <<er, or>>
    BY <1>1, Joined2
  <2>4. /\ Opened(er) = <<er>> /\ Opened(ew) = <<>>
        /\ Opened(or) = <<or>> /\ Opened(ow) = <<>>
    BY <1>5 DEF Opened
  <2>5. Dropped(pipes) = <<er, or>>
    BY <1>2, <2>2, <2>3, <2>4, Zenon
  <2> QED
    BY <1>5, <2>5
<1>6. CASE er # 0 /\ ew # 0 /\ or # 0 /\ ow # 0
  <2>1. /\ Opened(er) = <<er>> /\ Opened(ew) = <<ew>>
        /\ Opened(or) = <<or>> /\ Opened(ow) = <<ow>>
    BY <1>6 DEF Opened
  <2>2. <<er>> \o <<ew>> = <<er, ew>>
    BY <1>1, Joined2, Zenon
  <2>3. <<er, ew>> \o <<or>> = <<er, ew, or>>
    BY <1>1, Joined3, Zenon
  <2>4. <<er, ew, or>> \o <<ow>> = <<er, ew, or, ow>>
    BY <1>1, Joined4
  <2>5. Dropped(pipes) = <<er, ew, or, ow>>
    BY <1>2, <2>1, <2>2, <2>3, <2>4, Zenon
  <2> QED
    BY <1>6, <2>5
<1> QED
  BY <1>3, <1>4, <1>5, <1>6

(* The list without its i-th element: the last takes its place. *)
LEMMA SwapRemovedIs ==
  ASSUME NEW S, NEW s \in Seq(S), NEW i \in 1..Len(s)
  PROVE  /\ SwapRemoved(s, i) \in Seq(S)
         /\ Len(SwapRemoved(s, i)) = Len(s) - 1
         /\ \A j \in 1..(Len(s) - 1) :
                SwapRemoved(s, i)[j] = IF j = i THEN s[Len(s)] ELSE s[j]
<1>1. s[Len(s)] \in S
  OBVIOUS
<1>2. ReplaceAt(s, i, Last(s)) \in Seq(S) /\ Len(ReplaceAt(s, i, Last(s))) = Len(s)
  BY <1>1 DEF ReplaceAt, Last
<1> QED
  BY <1>1, <1>2 DEF SwapRemoved, Front, ReplaceAt, Last

(***************************************************************************)
(* Types.                                                                  *)
(***************************************************************************)
LEMMA EndFields ==
  /\ \A k, p : End(k, p).kind = k /\ End(k, p).pipe = p
  /\ \A k : Socket(k).kind = "socket" /\ Socket(k).pipe = <<k, "out">>
  /\ Free.kind = "free"
BY DEF Free, End, Socket

LEMMA EndFacts ==
  /\ Free \in Ends
  /\ \A k \in {"read", "write"}, p \in Pipes : End(k, p) \in Ends
  /\ \A k \in 1..MaxRequests : Socket(k) \in Ends
  /\ \A e \in Ends : /\ e.kind \in {"free", "read", "write", "socket"}
                     /\ e.kind = "free" <=> e = Free
                     /\ e.kind \in {"read", "write"} => e.pipe \in Pipes
                     /\ e.kind = "socket" => e.pipe[1] \in 1..MaxRequests
<1>1. /\ Free \in Ends
      /\ \A k \in {"read", "write"}, p \in Pipes : End(k, p) \in Ends
      /\ \A k \in 1..MaxRequests : Socket(k) \in Ends
  BY DEF Ends
<1>2. ASSUME NEW e \in Ends
      PROVE  /\ e.kind \in {"free", "read", "write", "socket"}
             /\ e.kind = "free" <=> e = Free
             /\ e.kind \in {"read", "write"} => e.pipe \in Pipes
             /\ e.kind = "socket" => e.pipe[1] \in 1..MaxRequests
  <2>1. CASE e = Free
    BY <2>1, EndFields
  <2>2. ASSUME NEW k \in {"read", "write"}, NEW p \in Pipes, e = End(k, p)
        PROVE  e.kind = k /\ e.pipe = p /\ e # Free
    BY <2>2, EndFields
  <2>3. ASSUME NEW k \in 1..MaxRequests, e = Socket(k)
        PROVE  e.kind = "socket" /\ e.pipe[1] = k /\ e # Free
    BY <2>3, EndFields
  <2> QED
    BY <2>1, <2>2, <2>3 DEF Ends
<1> QED
  BY <1>1, <1>2

LEMMA TypeInit == Init => TypeOK
<1> SUFFICES ASSUME Init PROVE TypeOK
  OBVIOUS
<1>1. slots \in [Numbers -> Ends] /\ data \in [Pipes -> Nat]
  BY EndFacts DEF Init
<1>2. NoRun \in Runs
  BY NumbersFacts, EmptySeq DEF NoRun, NoPipe, NoOutput, Statuses, Runs
<1>3. request \in Requests
  BY NumbersFacts, EndFacts DEF Init, NoRequest, Requests
<1>4. NoChild \in Children /\ NoOutput \in [Streams -> Nat] /\ NoRun.pc = "idle"
  BY DEF NoChild, Children, Statuses, NoOutput, NoRun
<1> QED
  BY <1>1, <1>2, <1>3, <1>4 DEF Init, TypeOK

LEMMA OpenedType ==
  ASSUME NEW n \in 0..Slots
  PROVE  Opened(n) \in Seq(Numbers)
<1>1. CASE n = 0
  BY <1>1, EmptySeq DEF Opened
<1>2. CASE n # 0
  <2>1. n \in Numbers
    BY <1>2, NumbersFacts DEF Numbers
  <2>2. <<n>> \in Seq(Numbers)
    BY <2>1
  <2> QED
    BY <1>2, <2>2 DEF Opened
<1> QED
  BY <1>1, <1>2

LEMMA DroppedType ==
  ASSUME TypeOK
  PROVE  Dropped(run.pipes) \in Seq(Numbers)
<1>1. \A n \in 0..Slots : Opened(n) \in Seq(Numbers)
  BY OpenedType
<1>2. \A s \in Streams : run.pipes[s].read \in 0..Slots /\ run.pipes[s].write \in 0..Slots
  BY DEF TypeOK, Runs
<1>3. "out" \in Streams /\ "err" \in Streams
  BY DEF Streams
<1> QED
  BY <1>1, <1>2, <1>3, ConcatProperties DEF Dropped

LEMMA WatchedType ==
  ASSUME TypeOK
  PROVE  Watched \in Seq(Numbers)
<1>1. \A n \in 0..Slots : Opened(n) \in Seq(Numbers)
  BY OpenedType
<1>2. \A s \in Streams : run.pipes[s].read \in 0..Slots
  BY DEF TypeOK, Runs
<1>3. "out" \in Streams /\ "err" \in Streams
  BY DEF Streams
<1> QED
  BY <1>1, <1>2, <1>3, ConcatProperties DEF Watched

(* The slots after a close, and what a close can cross. *)
LEMMA Closed ==
  ASSUME TypeOK, NEW thread \in {"runner", "poller"}, NEW n \in 0..Slots, Close(thread, n)
  PROVE  /\ slots' \in [Numbers -> Ends]
         /\ \A m \in Numbers : slots'[m] = IF m = n THEN Free ELSE slots[m]
         /\ crossed' \in BOOLEAN
         /\ ~crossed' => ~crossed
         /\ ~crossed' /\ n \in Numbers /\ thread = "runner" => slots[n].kind # "socket"
         /\ ~crossed' /\ n \in Numbers /\ thread = "poller" => slots[n].kind \in {"free", "socket"}
<1>1. slots' \in [Numbers -> Ends]
  BY EndFacts DEF TypeOK, Close
<1>2. \A m \in Numbers : slots'[m] = IF m = n THEN Free ELSE slots[m]
  BY DEF TypeOK, Close
<1>3. crossed' \in BOOLEAN /\ (~crossed' => ~crossed)
  BY DEF TypeOK, Close
<1>4. ASSUME ~crossed', n \in Numbers
      PROVE  slots[n] = Free \/ Mine(thread, slots[n])
  BY <1>4, <1>3 DEF Close, At
<1> QED
  BY <1>1, <1>2, <1>3, <1>4, EndFacts DEF Mine, TypeOK

(* What a read leaves. *)
LEMMA TakeTypes ==
  ASSUME TypeOK, NEW end \in Ends, HasData(end), Take(end)
  PROVE  /\ data' \in [Pipes -> Nat]
         /\ sockets' \in [1..MaxRequests -> {"silent", "answered", "spent"}]
<1> USE DEF TypeOK
<1>1. CASE end.kind = "read"
  <2>1. end.pipe \in Pipes
    BY <1>1, EndFacts
  <2>2. data[end.pipe] \in Nat /\ data[end.pipe] > 0
    BY <1>1, <2>1 DEF HasData
  <2>3. data[end.pipe] - 1 \in Nat
    BY <2>2
  <2> QED
    BY <1>1, <2>1, <2>3 DEF Take
<1>2. CASE end.kind # "read"
  BY <1>2 DEF Take
<1> QED
  BY <1>1, <1>2

(* Every step of the run keeps the types. *)
LEMMA RunnerTypes ==
  ASSUME TypeOK, Paired, Runner
  PROVE  TypeOK'
<1> USE DEF TypeOK
<1>0. /\ run \in Runs /\ run.i + 1 \in Nat \ {0} /\ run.n \in 0..MaxRuns
      /\ \A pc \in Before \cup Within \cup {"drop", "idle"} : [run EXCEPT !.pc = pc] \in Runs
      /\ \A s \in Streams : run.pipes[s].read \in 0..Slots /\ run.pipes[s].write \in 0..Slots
  <2>1. run.i + 1 \in Nat \ {0}
    BY DEF Runs
  <2> QED
    BY <2>1 DEF Runs
<1>1. CASE Begin
  <2>1. run.n + 1 \in 0..MaxRuns
    BY <1>0, <1>1, NumbersFacts DEF Begin
  <2>2. NoRun \in Runs
    BY NumbersFacts, EmptySeq DEF NoRun, NoPipe, NoOutput, Statuses, Runs
  <2> DEFINE m == run.n + 1
  <2>3. PICK pc \in Before : run' = [NoRun EXCEPT !.n = m, !.pc = pc]
    BY <1>1 DEF Begin, Before
  <2>4. m \in 0..MaxRuns /\ m > 0
    BY <1>0, <2>1
  <2> HIDE DEF m
  <2>5. run' \in Runs /\ run'.n = m
    BY <2>2, <2>3, <2>4 DEF Runs
  <2> QED
    BY <1>1, <2>4, <2>5 DEF Begin, NoOutput
<1>a. \A status \in Statuses : /\ Leaving(run.pipes, status) \in Runs
                               /\ Leaving(run.pipes, status).n = run.n
  BY <1>0, DroppedType DEF Leaving, Runs
<1>2. ASSUME NEW s \in Streams, NEW from, from # "idle", NEW to \in Before, MakePipe(s, from, to)
      PROVE  TypeOK'
  <2>0. run.n > 0
    BY <1>2 DEF MakePipe
  <2>1. CASE Cardinality(FreeNumbers) < 2
    <3>1. run' \in Runs /\ run'.n > 0
      BY <1>2, <1>a, <2>0, <2>1 DEF MakePipe, Statuses
    <3> QED
      BY <1>2, <2>1, <3>1 DEF MakePipe
  <2>2. CASE ~ (Cardinality(FreeNumbers) < 2)
    <3> DEFINE r == Lowest
               w == Min(FreeNumbers \ {r})
               made == [run EXCEPT !.pc = to, !.pipes[s] = [read |-> r, write |-> w]]
    <3>1. r \in Numbers /\ w \in Numbers
      BY <2>2, TwoLowestFree
    <3>2. Pipe(s) \in Pipes
      BY <1>0, <2>0 DEF Pipe, Pipes
    <3> HIDE DEF r, w
    <3>3. made \in Runs /\ made.n = run.n
      BY <1>0, <3>1, NumbersFacts DEF Runs
    <3>4. [slots EXCEPT ![r] = End("read", Pipe(s)), ![w] = End("write", Pipe(s))] \in [Numbers -> Ends]
      BY <3>1, <3>2, EndFacts
    <3>5. /\ run' = made
          /\ slots' = [slots EXCEPT ![r] = End("read", Pipe(s)), ![w] = End("write", Pipe(s))]
          /\ UNCHANGED <<data, child, request, sockets, wrote, crossed>>
      BY <1>2, <2>2 DEF MakePipe, r, w
    <3> QED
      BY <2>0, <3>3, <3>4, <3>5
  <2> QED
    BY <2>1, <2>2
<1>3. CASE Fork
  <2>1. run' \in Runs /\ run'.n = run.n
    <3>1. [run EXCEPT !.pc = "closeOut"] \in Runs /\ [run EXCEPT !.pc = "closeOut"].n = run.n
      BY <1>0 DEF Within, Runs
    <3> QED
      BY <1>3, <1>a, <3>1 DEF Fork, Statuses
  <2>2. child' \in Children
    <3>1. [alive |-> TRUE, wants |-> "none", status |-> "none"] \in Children
      BY DEF Children, Statuses
    <3> QED
      BY <1>3, <3>1 DEF Fork
  <2>3. run.n > 0
    BY <1>3 DEF Fork
  <2> QED
    BY <1>3, <2>1, <2>2, <2>3 DEF Fork
<1>4. ASSUME NEW s \in Streams, NEW from, from # "idle", NEW to \in Within, CloseWrite(s, from, to)
      PROVE  TypeOK'
  <2> DEFINE closed == [run EXCEPT !.pc = to, !.pipes[s].write = 0, !.watch = Watched]
  <2>1. closed \in Runs /\ closed.n = run.n
    <3> DEFINE z == 0
               w == Watched
    <3>1. w \in Seq(Numbers)
      BY WatchedType
    <3>2. z \in 0..Slots
      BY NumbersFacts
    <3>3. closed = [run EXCEPT !.pc = to, !.pipes = [run.pipes EXCEPT ![s].write = z], !.watch = w]
      OBVIOUS
    <3>5. closed.n = run.n
      BY <1>0 DEF Runs
    <3> HIDE DEF z, w, closed
    <3>6. [run.pipes EXCEPT ![s].write = z] \in [Streams -> [read : 0..Slots, write : 0..Slots]]
      <4>1. run.pipes \in [Streams -> [read : 0..Slots, write : 0..Slots]]
        BY <1>0 DEF Runs
      <4> QED
        BY <3>2, <4>1
    <3>4. [run EXCEPT !.pc = to, !.pipes = [run.pipes EXCEPT ![s].write = z], !.watch = w] \in Runs
      BY <1>0, <3>1, <3>6 DEF Runs
    <3> QED
      BY <3>3, <3>4, <3>5
  <2>2. run' = closed
    BY <1>4 DEF CloseWrite
  <2>3. run.n > 0
    BY <1>4 DEF CloseWrite
  <2>4. slots' \in [Numbers -> Ends] /\ crossed' \in BOOLEAN
    BY <1>0, <1>4, Closed DEF CloseWrite
  <2> QED
    BY <1>4, <2>1, <2>2, <2>3, <2>4 DEF CloseWrite
<1>5. CASE Poll
  <2> DEFINE seen == [i \in DOMAIN run.watch |-> Ready(run.watch[i])]
  <2>1. [run EXCEPT !.pc = "wait"] \in Runs /\ [run EXCEPT !.pc = "wait"].n = run.n
    BY <1>0 DEF Runs, Within
  <2>2. seen \in Seq(BOOLEAN)
    <3>1. run.watch \in Seq(Numbers)
      BY <1>0 DEF Runs
    <3>2. \A i : Ready(run.watch[i]) \in BOOLEAN
      BY DEF Ready
    <3>3. DOMAIN run.watch = 1..Len(run.watch) /\ Len(run.watch) \in Nat
      BY <3>1
    <3>4. seen \in [1..Len(run.watch) -> BOOLEAN]
      BY <3>2, <3>3, Zenon
    <3> QED
      BY <3>3, <3>4
  <2> HIDE DEF seen
  <2>3. [run EXCEPT !.pc = "scan", !.i = 1, !.events = seen] \in Runs
    <3> DEFINE first == 1
    <3>1. first \in Nat \ {0}
      OBVIOUS
    <3> HIDE DEF first
    <3>2. [run EXCEPT !.pc = "scan", !.i = first, !.events = seen] \in Runs
      BY <1>0, <2>2, <3>1 DEF Runs, Within
    <3> QED
      BY <3>2 DEF first
  <2>4. [run EXCEPT !.pc = "scan", !.i = 1, !.events = seen].n = run.n
    BY <1>0 DEF Runs
  <2>5. \/ run' = [run EXCEPT !.pc = "wait"]
        \/ run' = [run EXCEPT !.pc = "scan", !.i = 1, !.events = seen]
    BY <1>5 DEF Poll, seen
  <2>6. run.n > 0 /\ UNCHANGED <<slots, data, child, request, sockets, wrote, crossed>>
    BY <1>5 DEF Poll
  <2> QED
    BY <2>1, <2>3, <2>4, <2>5, <2>6
<1>6. CASE Pass
  <2>1. /\ [run EXCEPT !.pc = "poll"] \in Runs /\ [run EXCEPT !.pc = "poll"].n = run.n
        /\ [run EXCEPT !.i = @ + 1] \in Runs /\ [run EXCEPT !.i = @ + 1].n = run.n
    BY <1>0 DEF Within, Runs
  <2> QED
    BY <1>6, <2>1 DEF Pass
<1>s. ASSUME Scans
      PROVE  /\ run.i \in 1..Len(run.watch) /\ run.watch \in Seq(Numbers)
             /\ Scanned \in Numbers /\ At(Scanned) = slots[Scanned] /\ At(Scanned) \in Ends
             /\ run.n > 0
  <2>1. run.watch \in Seq(Numbers) /\ run.i \in Nat \ {0}
    BY <1>0 DEF Runs
  <2>2. run.i \in 1..Len(run.watch)
    BY <1>s, <2>1 DEF Scans
  <2>3. Scanned \in Numbers
    BY <2>1, <2>2 DEF Scanned
  <2> QED
    BY <1>s, <2>1, <2>2, <2>3 DEF At, Scans
<1>7. CASE Collect
  <2>0. Scans /\ HasData(At(Scanned)) /\ Take(At(Scanned)) /\ run.n > 0
    BY <1>7, <1>s DEF Collect
  <2>1. data' \in [Pipes -> Nat] /\ sockets' \in [1..MaxRequests -> {"silent", "answered", "spent"}]
    BY <1>s, <2>0, TakeTypes
  <2>2. ASSUME NEW s \in Streams
        PROVE  /\ [run EXCEPT !.text[s] = @ + 1, !.i = @ + 1] \in Runs
               /\ [run EXCEPT !.text[s] = @ + 1, !.i = @ + 1].n = run.n
    <3>1. run.text \in [Streams -> Nat]
      BY <1>0 DEF Runs
    <3>2. [run.text EXCEPT ![s] = @ + 1] \in [Streams -> Nat]
      BY <3>1
    <3>3. ASSUME NEW t \in [Streams -> Nat], NEW k \in Nat \ {0}
          PROVE  [run EXCEPT !.text = t, !.i = k] \in Runs /\ [run EXCEPT !.text = t, !.i = k].n = run.n
      BY <1>0 DEF Runs
    <3>4. [run EXCEPT !.text[s] = @ + 1, !.i = @ + 1]
            = [run EXCEPT !.text = [run.text EXCEPT ![s] = @ + 1], !.i = run.i + 1]
      OBVIOUS
    <3> QED
      BY <1>0, <3>2, <3>3, <3>4
  <2>3. run' \in Runs /\ run'.n = run.n
    BY <1>7, <2>2 DEF Collect, Streams
  <2> QED
    BY <1>7, <2>0, <2>1, <2>3 DEF Collect
<1>8. CASE EndStream
  <2> DEFINE w == SwapRemoved(run.watch, run.i)
             e == SwapRemoved(run.events, run.i)
  <2>0. Scans /\ Close("runner", Scanned) /\ Len(run.events) = Len(run.watch)
    BY <1>8 DEF EndStream, Scans, Paired
  <2>1. w \in Seq(Numbers) /\ e \in Seq(BOOLEAN) /\ Len(w) = Len(e)
    <3>1. run.watch \in Seq(Numbers) /\ run.events \in Seq(BOOLEAN)
      BY <1>0 DEF Runs
    <3> QED
      BY <1>s, <2>0, <3>1, SwapRemovedIs
  <2>2. run' = [run EXCEPT !.watch = w, !.events = e]
    BY <1>8 DEF EndStream
  <2> HIDE DEF w, e
  <2>3. /\ run' \in Runs /\ run'.n = run.n
        /\ run'.watch = w /\ run'.events = e
    BY <1>0, <2>1, <2>2 DEF Runs
  <2>4. slots' \in [Numbers -> Ends] /\ crossed' \in BOOLEAN
    BY <1>s, <2>0, Closed, NumbersFacts
  <2> QED
    BY <1>8, <1>s, <2>0, <2>1, <2>3, <2>4 DEF EndStream
<1>9. CASE Wait
  <2>1. child.status \in Statuses
    BY DEF Children
  <2>2. run' \in Runs /\ run'.n = run.n
    BY <1>9, <1>a, <2>1 DEF Wait
  <2> QED
    BY <1>9, <2>2 DEF Wait
<1>10. CASE Drop
  <2>1. CASE run.drop = <<>>
    <3>1. run' = [run EXCEPT !.pc = "idle"] /\ UNCHANGED <<slots, crossed>>
      BY <1>10, <2>1 DEF Drop
    <3>2. run' \in Runs /\ run'.n = run.n
      BY <1>0, <3>1 DEF Runs
    <3> QED
      BY <1>10, <3>1, <3>2 DEF Drop
  <2>2. CASE run.drop # <<>>
    <3>1. Head(run.drop) \in Numbers /\ Tail(run.drop) \in Seq(Numbers)
      <4>1. run.drop \in Seq(Numbers)
        BY <1>0 DEF Runs
      <4> QED
        BY <2>2, <4>1
    <3>2. run' = [run EXCEPT !.drop = Tail(@)] /\ Close("runner", Head(run.drop))
      BY <1>10, <2>2 DEF Drop
    <3>3. run' \in Runs /\ run'.n = run.n
      BY <1>0, <3>1, <3>2 DEF Runs
    <3>4. slots' \in [Numbers -> Ends] /\ crossed' \in BOOLEAN
      BY <3>1, <3>2, Closed, NumbersFacts
    <3> QED
      BY <1>10, <3>3, <3>4 DEF Drop
  <2> QED
    BY <2>1, <2>2
<1> QED
  BY <1>1, <1>2, <1>3, <1>4, <1>5, <1>6, <1>7, <1>8, <1>9, <1>10
  DEF Runner, Before, Within, Streams

LEMMA AtType ==
  ASSUME TypeOK, NEW n
  PROVE  At(n) \in Ends
BY EndFacts DEF At, TypeOK

(* And so does every other step. *)
LEMMA OtherTypes ==
  ASSUME TypeOK, Child \/ Poller \/ EngineAnswers \/ Over \/ UNCHANGED vars
  PROVE  TypeOK'
<1> USE DEF TypeOK
<1>0. ASSUME NEW pipe
      PROVE  [data EXCEPT ![pipe] = @ + 1] \in [Pipes -> Nat]
  <2>1. CASE pipe \in Pipes
    <3>1. data[pipe] + 1 \in Nat
      BY <2>1
    <3> QED
      BY <2>1, <3>1
  <2>2. CASE pipe \notin Pipes
    BY <2>2
  <2> QED
    BY <2>1, <2>2
<1>1. CASE ChildWants
  <2>1. child' \in Children
    BY <1>1 DEF ChildWants, Children
  <2> QED
    BY <1>1, <2>1 DEF ChildWants
<1>2. CASE ChildWrites
  <2>1. CASE Readers(Pipe(child.wants))
    <3>1. child' \in Children
      <4>1. [child EXCEPT !.wants = "none"] \in Children
        BY DEF Children
      <4> QED
        BY <1>2, <2>1, <4>1 DEF ChildWrites
    <3>2. wrote' \in [Streams -> Nat]
      BY <1>2, <2>1 DEF ChildWrites
    <3>3. data' \in [Pipes -> Nat]
      BY <1>0, <1>2, <2>1 DEF ChildWrites
    <3> QED
      BY <1>2, <3>1, <3>2, <3>3 DEF ChildWrites
  <2>2. CASE ~Readers(Pipe(child.wants))
    <3>1. [alive |-> FALSE, wants |-> "none", status |-> "killed"] \in Children
      BY DEF Children, Statuses
    <3> QED
      BY <1>2, <2>2, <3>1 DEF ChildWrites
  <2> QED
    BY <2>1, <2>2
<1>3. CASE ChildEnds
  <2>1. \A status \in {"exited", "killed"} : [alive |-> FALSE, wants |-> "none", status |-> status] \in Children
    BY DEF Children, Statuses
  <2>2. child' \in Children
    BY <1>3, <2>1 DEF ChildEnds
  <2> QED
    BY <1>3, <2>2 DEF ChildEnds
<1>4. CASE OpenSocket
  <2>1. Lowest \in Numbers /\ request.n + 1 \in 1..MaxRequests
    BY <1>4, LowestFree, NumbersFacts DEF OpenSocket, Requests
  <2>2. slots' \in [Numbers -> Ends]
    <3>1. Socket(request.n + 1) \in Ends
      BY <2>1, EndFacts
    <3> QED
      BY <1>4, <3>1 DEF OpenSocket
  <2> DEFINE n == request.n + 1
  <2>3. n \in 0..MaxRequests /\ Lowest \in 0..Slots
    BY <2>1, NumbersFacts
  <2>4. request' = [n |-> n, pc |-> "write", number |-> Lowest, holds |-> Free]
    BY <1>4 DEF OpenSocket
  <2> HIDE DEF n
  <2>5. request' \in Requests
    BY <2>3, <2>4, EndFacts DEF Requests
  <2> QED
    BY <1>4, <2>2, <2>5 DEF OpenSocket
<1>5. ASSUME NEW pc \in {"read", "close"}
      PROVE  /\ [request EXCEPT !.pc = pc] \in Requests
             /\ [request EXCEPT !.pc = pc, !.holds = Free] \in Requests
  BY EndFacts DEF Requests
<1>6. CASE WriteRequest
  <2>1. request' \in Requests
    BY <1>5, <1>6 DEF WriteRequest
  <2>2. data' \in [Pipes -> Nat]
    <3>1. data' = data \/ \E pipe : data' = [data EXCEPT ![pipe] = @ + 1]
      BY <1>6 DEF WriteRequest
    <3> QED
      BY <1>0, <3>1
  <2> QED
    BY <1>6, <2>1, <2>2 DEF WriteRequest
<1>7. CASE CallRead
  <2>1. request' \in Requests
    BY <1>7, AtType DEF CallRead, Requests
  <2> QED
    BY <1>7, <2>1 DEF CallRead
<1>8. CASE ReadReturns
  <2>1. request.holds \in Ends
    BY DEF Requests
  <2>2. request' \in Requests
    BY <1>5, <1>8 DEF ReadReturns
  <2>3. data' \in [Pipes -> Nat] /\ sockets' \in [1..MaxRequests -> {"silent", "answered", "spent"}]
    BY <1>8, <2>1, TakeTypes DEF ReadReturns
  <2> QED
    BY <1>8, <2>2, <2>3 DEF ReadReturns
<1>9. CASE CloseSocket
  <2> DEFINE zero == 0
  <2>1. request.number \in 0..Slots /\ zero \in 0..Slots
    BY NumbersFacts DEF Requests
  <2>2. slots' \in [Numbers -> Ends] /\ crossed' \in BOOLEAN
    BY <1>9, <2>1, Closed DEF CloseSocket
  <2>3. request' = [request EXCEPT !.pc = "idle", !.number = zero]
    BY <1>9 DEF CloseSocket
  <2> HIDE DEF zero
  <2>4. request' \in Requests
    BY <2>1, <2>3 DEF Requests
  <2> QED
    BY <1>9, <2>2, <2>4 DEF CloseSocket
<1>10. CASE EngineAnswers
  <2>1. sockets' \in [1..MaxRequests -> {"silent", "answered", "spent"}]
    BY <1>10 DEF EngineAnswers
  <2> QED
    BY <1>10, <2>1 DEF EngineAnswers
<1>11. CASE Over \/ UNCHANGED vars
  BY <1>11 DEF Over, vars
<1> QED
  BY <1>1, <1>2, <1>3, <1>4, <1>6, <1>7, <1>8, <1>9, <1>10, <1>11 DEF Child, Poller

(* The events keep their numbers. *)
LEMMA PairedStep ==
  ASSUME TypeOK, Paired, [Next]_vars
  PROVE  Paired'
<1>0. run \in Runs /\ run.watch \in Seq(Numbers) /\ run.events \in Seq(BOOLEAN) /\ run.i \in Nat \ {0}
  BY DEF TypeOK, Runs
<1>1. CASE run' = run
  BY <1>1 DEF Paired
<1>2. CASE run'.pc # "scan"
  BY <1>2 DEF Paired
<1>3. CASE Poll
  <2> DEFINE seen == [i \in DOMAIN run.watch |-> Ready(run.watch[i])]
  <2>1. CASE run.watch = <<>>
    BY <1>0, <1>3, <2>1 DEF Poll, Paired, Runs
  <2>2. CASE run.watch # <<>>
    <3>1. run' = [run EXCEPT !.pc = "scan", !.i = 1, !.events = seen]
      BY <1>3, <2>2 DEF Poll
    <3>2. Len(seen) = Len(run.watch)
      BY <1>0
    <3> HIDE DEF seen
    <3>3. run'.events = seen /\ run'.watch = run.watch
      BY <1>0, <3>1 DEF Runs
    <3> QED
      BY <3>2, <3>3 DEF Paired
  <2> QED
    BY <2>1, <2>2
<1>4. CASE Pass \/ Collect
  <2>1. run'.events = run.events /\ run'.watch = run.watch /\ (run'.pc = "scan" => run.pc = "scan")
    BY <1>0, <1>4 DEF Pass, Collect, Scans, Runs
  <2> QED
    BY <2>1 DEF Paired
<1>5. CASE EndStream
  <2> DEFINE w == SwapRemoved(run.watch, run.i)
             e == SwapRemoved(run.events, run.i)
  <2>1. run' = [run EXCEPT !.watch = w, !.events = e]
    BY <1>5 DEF EndStream
  <2>2. run.pc = "scan" /\ run.i \in 1..Len(run.watch)
    BY <1>0, <1>5 DEF EndStream, Scans
  <2>3. Len(w) = Len(e)
    <3>1. Len(run.events) = Len(run.watch)
      BY <2>2 DEF Paired
    <3>2. Len(w) = Len(run.watch) - 1
      BY <1>0, <2>2, SwapRemovedIs
    <3>3. Len(e) = Len(run.events) - 1
      BY <1>0, <2>2, <3>1, SwapRemovedIs
    <3> QED
      BY <3>1, <3>2, <3>3
  <2> HIDE DEF w, e
  <2>4. run'.watch = w /\ run'.events = e
    BY <1>0, <2>1 DEF Runs
  <2> QED
    BY <2>3, <2>4 DEF Paired
<1>6. ASSUME NEW s \in Streams, NEW from, NEW to \in Before, MakePipe(s, from, to)
      PROVE  Paired'
  <2>1. run'.pc \in {"drop", to}
    BY <1>0, <1>6 DEF MakePipe, Leaving, Runs
  <2> QED
    BY <1>2, <2>1 DEF Before
<1>7. ASSUME NEW s \in Streams, NEW from, NEW to \in {"closeErr", "poll"}, CloseWrite(s, from, to)
      PROVE  Paired'
  <2>1. run'.pc = to
    BY <1>0, <1>7 DEF CloseWrite, Runs
  <2> QED
    BY <1>2, <2>1
<1>8. CASE Begin
  <2>1. run'.pc \in {"pipeOut", "fork"}
    BY <1>8 DEF Begin, NoRun
  <2> QED
    BY <1>2, <2>1
<1>9. CASE Fork
  <2>1. run'.pc \in {"closeOut", "drop"}
    BY <1>0, <1>9 DEF Fork, Leaving, Runs
  <2> QED
    BY <1>2, <2>1
<1>10. CASE Wait
  <2>1. run'.pc = "drop"
    BY <1>0, <1>10 DEF Wait, Leaving, Runs
  <2> QED
    BY <1>2, <2>1
<1>11. CASE Drop
  <2>1. run'.pc \in {"idle", "drop"}
    BY <1>0, <1>11 DEF Drop, Runs
  <2> QED
    BY <1>2, <2>1
<1> QED
  BY <1>1, <1>3, <1>4, <1>5, <1>6, <1>7, <1>8, <1>9, <1>10, <1>11
  DEF Next, Runner, Child, Poller, vars, Streams, Before, ChildWants, ChildWrites,
     ChildEnds, OpenSocket, WriteRequest, CallRead, ReadReturns, CloseSocket, EngineAnswers, Over

(***************************************************************************)
(* The steps of the run.                                                   *)
(***************************************************************************)
LEMMA StreamFacts == /\ "out" \in Streams /\ "err" \in Streams
                     /\ \A s \in Streams : s = "out" \/ s = "err"
BY DEF Streams

LEMMA RunFields ==
  ASSUME TypeOK
  PROVE  /\ run \in Runs /\ run.n \in 0..MaxRuns /\ run.n \in Nat
         /\ run.watch \in Seq(Numbers) /\ run.drop \in Seq(Numbers) /\ run.events \in Seq(BOOLEAN)
         /\ run.i \in Nat \ {0}
         /\ run.text \in [Streams -> Nat] /\ run.text["out"] \in Nat /\ run.text["err"] \in Nat
         /\ run.pc \in Before \cup Within \cup {"drop", "idle"}
         /\ run.pipes \in [Streams -> [read : 0..Slots, write : 0..Slots]]
         /\ \A s \in Streams : /\ run.pipes[s].read \in 0..Slots /\ run.pipes[s].read \in Nat
                               /\ run.pipes[s].write \in 0..Slots /\ run.pipes[s].write \in Nat
         /\ \A p \in Pipes : data[p] \in Nat
         /\ \A s \in Streams : wrote[s] \in Nat
         /\ run.n > 0 => \A s \in Streams : Pipe(s) \in Pipes
         /\ \A m \in Numbers : slots[m] \in Ends
<1>1. run \in Runs
  BY DEF TypeOK
<1>2. run.n \in 0..MaxRuns /\ run.n \in Nat
  BY <1>1, NumbersFacts DEF Runs
<1>3. /\ run.watch \in Seq(Numbers) /\ run.drop \in Seq(Numbers) /\ run.events \in Seq(BOOLEAN)
      /\ run.i \in Nat \ {0} /\ run.text \in [Streams -> Nat]
      /\ run.pc \in Before \cup Within \cup {"drop", "idle"}
      /\ run.pipes \in [Streams -> [read : 0..Slots, write : 0..Slots]]
  BY <1>1 DEF Runs
<1>4. \A s \in Streams : /\ run.pipes[s].read \in 0..Slots /\ run.pipes[s].read \in Nat
                         /\ run.pipes[s].write \in 0..Slots /\ run.pipes[s].write \in Nat
  BY <1>3, NumbersFacts
<1>5. /\ \A p \in Pipes : data[p] \in Nat
      /\ \A s \in Streams : wrote[s] \in Nat
      /\ \A m \in Numbers : slots[m] \in Ends
  BY DEF TypeOK
<1>6. run.n > 0 => \A s \in Streams : Pipe(s) \in Pipes
  BY <1>2 DEF Pipe, Pipes
<1> QED
  BY <1>1, <1>2, <1>3, <1>4, <1>5, <1>6, StreamFacts

LEMMA BeginKeeps ==
  ASSUME TypeOK, RunKept, Begin
  PROVE  RunKept'
<1>1. /\ run'.n = run.n + 1 /\ run'.pc \in {"pipeOut", "fork"} /\ run'.status = "none"
      /\ \A s \in Streams : run'.pipes[s] = NoPipe /\ run'.text[s] = 0 /\ wrote'[s] = 0
      /\ run'.watch = <<>>
      /\ UNCHANGED <<slots, data, child>>
  BY DEF Begin, NoRun, NoOutput
<1>2. run.pc = "idle"
  BY DEF Begin
<1>3. NoPipe.read = 0 /\ NoPipe.write = 0
  BY DEF NoPipe
<1>4. PipesMade'
  BY <1>1, <1>3, StreamFacts DEF PipesMade, Captured
<1>5. \A m \in Numbers : slots[m].kind \notin {"read", "write"}
  BY <1>2 DEF RunKept, EndsKnown, Before, Within
<1>6. EndsHeld'
  BY <1>1, <1>3 DEF EndsHeld
<1>7. EndsKnown'
  BY <1>1, <1>5 DEF EndsKnown
<1>8. WatchedOnce' /\ DropKnown'
  BY <1>1 DEF WatchedOnce, DropKnown
<1>9. ChildKnown'
  BY <1>1, <1>2 DEF RunKept, ChildKnown, Within
<1>10. OutputKept'
  <2>1. \A s \in Streams : Pipe(s)' \in Pipes /\ Pipe(s)'[1] = run.n + 1
    <3>1. run.n + 1 \in 1..MaxRuns
      <4>1. run.n < MaxRuns
        BY DEF Begin
      <4> QED
        BY <4>1, RunFields, RunnerAssumption
    <3>2. \A s \in Streams : Pipe(s)' = <<run.n + 1, s>>
      BY <1>1 DEF Pipe
    <3> QED
      BY <3>1, <3>2 DEF Pipes
  <2>2. \A s \in Streams : data[Pipe(s)'] = 0
    BY <2>1, RunFields DEF RunKept, OutputKept
  <2>3. \A p \in Pipes : p[1] \in Nat
    BY RunnerAssumption DEF Pipes
  <2>4. \A p \in Pipes : p[1] > run.n + 1 => data[p] = 0
    BY <2>3, RunFields DEF RunKept, OutputKept
  <2> QED
    BY <1>1, <1>3, <2>2, <2>4, RunFields, StreamFacts DEF OutputKept, Captured
<1> QED
  BY <1>4, <1>6, <1>7, <1>8, <1>9, <1>10 DEF RunKept

LEMMA LeavingFields ==
  ASSUME TypeOK, NEW status, run' = Leaving(run.pipes, status)
  PROVE  /\ run'.n = run.n /\ run'.pc = "drop" /\ run'.pipes = run.pipes
         /\ run'.watch = run.watch /\ run'.text = run.text
         /\ run'.drop = Dropped(run.pipes) /\ run'.status = status
BY RunFields DEF Leaving, Runs

(* A failure leaves to ~Pipe exactly what is open. *)
LEMMA FailureKeeps ==
  ASSUME TypeOK, RunKept, run.pc \in Before, run' = Leaving(run.pipes, "failed"),
         UNCHANGED <<slots, data, child, wrote>>
  PROVE  RunKept'
<1> DEFINE or == run.pipes["out"].read   ow == run.pipes["out"].write
           er == run.pipes["err"].read   ew == run.pipes["err"].write
<1>1. /\ run'.n = run.n /\ run'.pc = "drop" /\ run'.pipes = run.pipes
      /\ run'.watch = run.watch /\ run'.text = run.text
      /\ run'.drop = Dropped(run.pipes) /\ run'.status = "failed"
  BY LeavingFields
<1>2. or \in Nat /\ ow \in Nat /\ er \in Nat /\ ew \in Nat
  BY RunFields, StreamFacts
<1>3. /\ or # 0 => slots[or] = End("read", Pipe("out"))
      /\ ow # 0 => slots[ow] = End("write", Pipe("out"))
      /\ er # 0 => slots[er] = End("read", Pipe("err"))
      /\ ew # 0 => slots[ew] = End("write", Pipe("err"))
  BY StreamFacts DEF RunKept, EndsHeld
<1>4. /\ or # 0 <=> ow # 0
      /\ er # 0 <=> ew # 0
      /\ er # 0 => or # 0
  BY StreamFacts DEF RunKept, PipesMade, NoPipe, Before
<1>5. /\ or # 0 => slots[or].kind = "read" /\ slots[or].pipe = Pipe("out")
      /\ ow # 0 => slots[ow].kind = "write" /\ slots[ow].pipe = Pipe("out")
      /\ er # 0 => slots[er].kind = "read" /\ slots[er].pipe = Pipe("err")
      /\ ew # 0 => slots[ew].kind = "write" /\ slots[ew].pipe = Pipe("err")
  <2>1. \A k, q : End(k, q).kind = k /\ End(k, q).pipe = q
    BY EndFields
  <2> QED
    BY <1>3, <2>1
<1>6. Pipe("out") # Pipe("err")
  BY DEF Pipe
<1>7. PipesMade'
  BY <1>1 DEF RunKept, PipesMade, Captured
<1>8. EndsHeld' /\ WatchedOnce' /\ ChildKnown'
  BY <1>1 DEF RunKept, EndsHeld, WatchedOnce, ChildKnown, Before, Within
<1>9. /\ \A m \in Numbers : slots[m].kind = "write" => m = ow \/ m = ew
      /\ \A m \in Numbers : slots[m].kind = "read" => m = or \/ m = er
      /\ 0 \notin Numbers
  BY NumbersFacts, StreamFacts DEF RunKept, EndsKnown, Before
<1>10. run.pipes \in [Streams -> [read : Nat, write : Nat]]
  BY RunFields, NumbersFacts
<1>11. EndsKnown' /\ DropKnown'
  <2>1. CASE or = 0
    <3>1. run'.drop = <<>>
      BY <1>1, <1>4, <1>10, <2>1, DroppedCases
    <3> QED
      BY <1>1, <1>4, <1>9, <2>1, <3>1 DEF EndsKnown, DropKnown
  <2>2. CASE or # 0 /\ er = 0
    <3>1. run'.drop = <<or, ow>>
      BY <1>1, <1>4, <1>10, <2>2, DroppedCases
    <3>2. DOMAIN run'.drop = {1, 2} /\ run'.drop[1] = or /\ run'.drop[2] = ow
      BY <3>1
    <3>3. EndsKnown'
      BY <1>1, <1>4, <1>9, <2>2, <3>2 DEF EndsKnown
    <3>4. or # ow /\ slots[or].kind = "read" /\ slots[ow].kind = "write"
      BY <1>4, <1>5, <2>2
    <3> QED
      BY <1>1, <3>2, <3>3, <3>4 DEF DropKnown
  <2>3. CASE or # 0 /\ er # 0
    <3>1. run'.drop = <<er, ew, or, ow>>
      BY <1>1, <1>4, <1>10, <2>3, DroppedCases
    <3>2. /\ DOMAIN run'.drop = {1, 2, 3, 4} /\ run'.drop[1] = er /\ run'.drop[2] = ew
          /\ run'.drop[3] = or /\ run'.drop[4] = ow
      BY <3>1
    <3>3. EndsKnown'
      BY <1>1, <1>9, <3>2 DEF EndsKnown
    <3>4. or # ow /\ er # ew /\ or # er /\ ow # ew /\ or # ew /\ er # ow
      BY <1>4, <1>5, <1>6, <2>3
    <3>5. /\ slots[or].kind = "read" /\ slots[ow].kind = "write"
          /\ slots[er].kind = "read" /\ slots[ew].kind = "write"
      BY <1>4, <1>5, <2>3
    <3> QED
      BY <1>1, <3>2, <3>3, <3>4, <3>5 DEF DropKnown
  <2> QED
    BY <2>1, <2>2, <2>3
<1>12. OutputKept'
  BY <1>1 DEF RunKept, OutputKept, Captured, Pipe
<1> QED
  BY <1>7, <1>8, <1>11, <1>12 DEF RunKept

(* pipe() adds two ends, under the two numbers it returns. *)
LEMMA MakePipeKeeps ==
  ASSUME TypeOK, RunKept,
         NEW s, NEW from, NEW to, MakePipe(s, from, to),
         \/ s = "out" /\ from = "pipeOut" /\ to = "pipeErr"
         \/ s = "err" /\ from = "pipeErr" /\ to = "fork"
  PROVE  RunKept'
<1>0. run.pc = from /\ UNCHANGED <<data, child, wrote>> /\ s \in Streams /\ from \in Before /\ to \in Before
  BY StreamFacts DEF MakePipe, Before
<1>1. CASE Cardinality(FreeNumbers) < 2
  BY <1>0, <1>1, FailureKeeps DEF MakePipe
<1>2. CASE ~ (Cardinality(FreeNumbers) < 2)
  <2> DEFINE r == Lowest
             w == Min(FreeNumbers \ {r})
  <2>1. /\ r \in Numbers /\ w \in Numbers /\ r # w
        /\ slots[r] = Free /\ slots[w] = Free
    BY <1>2, TwoLowestFree
  <2>2. /\ slots' = [slots EXCEPT ![r] = End("read", Pipe(s)), ![w] = End("write", Pipe(s))]
        /\ run' = [run EXCEPT !.pc = to, !.pipes[s] = [read |-> r, write |-> w]]
    BY <1>2 DEF MakePipe
  <2> HIDE DEF r, w
  <2>3. /\ slots'[r] = End("read", Pipe(s)) /\ slots'[w] = End("write", Pipe(s))
        /\ \A m \in Numbers : m # r /\ m # w => slots'[m] = slots[m]
    BY <2>1, <2>2 DEF TypeOK
  <2>4. /\ run'.n = run.n /\ run'.pc = to /\ run'.text = run.text /\ run'.status = run.status
        /\ run'.watch = run.watch
        /\ run'.pipes[s].read = r /\ run'.pipes[s].write = w
        /\ \A t \in Streams : t # s => run'.pipes[t] = run.pipes[t]
    BY <1>0, <2>2, RunFields DEF Runs
  <2>5. run.pipes[s] = NoPipe /\ r # 0 /\ w # 0 /\ NoPipe.read = 0 /\ NoPipe.write = 0
    BY <1>0, <2>1, NumbersFacts DEF RunKept, PipesMade, NoPipe
  <2>6. \A t \in Streams : /\ run.pipes[t].read # 0 => slots[run.pipes[t].read] = End("read", Pipe(t))
                           /\ run.pipes[t].write # 0 => slots[run.pipes[t].write] = End("write", Pipe(t))
                           /\ run.pipes[t].read # 0 => run.pipes[t].read # r /\ run.pipes[t].read # w
                           /\ run.pipes[t].write # 0 => run.pipes[t].write # r /\ run.pipes[t].write # w
    BY <1>0, <2>1, EndFields DEF RunKept, EndsHeld
  <2>7. PipesMade'
    <3>1. CASE s = "out" /\ from = "pipeOut" /\ to = "pipeErr"
      <4>1. /\ run'.pipes["out"].read = r /\ run'.pipes["out"].write = w
            /\ run'.pipes["err"] = NoPipe
        BY <1>0, <2>4, <3>1, StreamFacts DEF RunKept, PipesMade
      <4>2. run'.status = "none" /\ run'.pc = "pipeErr"
        BY <1>0, <2>4, <3>1 DEF RunKept, PipesMade
      <4> QED
        BY <2>5, <4>1, <4>2 DEF PipesMade
    <3>2. CASE s = "err" /\ from = "pipeErr" /\ to = "fork"
      <4>1. /\ run'.pipes["err"].read = r /\ run'.pipes["err"].write = w
            /\ run'.pipes["out"] = run.pipes["out"]
        BY <1>0, <2>4, <3>2, StreamFacts
      <4>2. run.pipes["out"].read # 0 /\ run.pipes["out"].write # 0
        BY <1>0, <3>2 DEF RunKept, PipesMade
      <4>4. run.pipes["out"].read # r
        BY <2>6, <4>2, StreamFacts
      <4>3. run'.status = "none" /\ run'.pc = "fork"
        BY <1>0, <2>4, <3>2 DEF RunKept, PipesMade
      <4> QED
        BY <2>5, <4>1, <4>2, <4>3, <4>4, StreamFacts DEF PipesMade
    <3> QED
      BY <3>1, <3>2
  <2>8. EndsHeld'
    <3>1. \A t \in Streams : Pipe(t)' = Pipe(t)
      BY <2>4 DEF Pipe
    <3>2. ASSUME NEW t \in Streams
          PROVE  /\ run'.pipes[t].read # 0 => slots'[run'.pipes[t].read] = End("read", Pipe(t))
                 /\ run'.pipes[t].write # 0 => slots'[run'.pipes[t].write] = End("write", Pipe(t))
      <4>1. CASE t = s
        BY <2>3, <2>4, <4>1
      <4>2. CASE t # s
        <5>1. run'.pipes[t] = run.pipes[t]
          BY <2>4, <4>2
        <5>2. /\ run.pipes[t].read # 0 => run.pipes[t].read \in Numbers
              /\ run.pipes[t].write # 0 => run.pipes[t].write \in Numbers
          BY RunFields DEF Numbers
        <5> DEFINE tr == run.pipes[t].read
                   tw == run.pipes[t].write
        <5>3. tr # 0 => slots'[tr] = slots[tr]
          BY <2>3, <2>6, <5>2
        <5>4. tw # 0 => slots'[tw] = slots[tw]
          BY <2>3, <2>6, <5>2
        <5>5. /\ tr # 0 => slots[tr] = End("read", Pipe(t))
              /\ tw # 0 => slots[tw] = End("write", Pipe(t))
          BY <2>6
        <5> QED
          BY <5>1, <5>3, <5>4, <5>5
      <4> QED
        BY <4>1, <4>2
    <3> QED
      BY <1>0, <2>4, <3>1, <3>2 DEF EndsHeld, Before, Within
  <2>9. EndsKnown'
    <3>1. ASSUME NEW m \in Numbers
          PROVE  /\ slots'[m].kind = "write" => \E t \in Streams : m = run'.pipes[t].write
                 /\ slots'[m].kind = "read" => \E t \in Streams : m = run'.pipes[t].read
      <4>1. CASE m = r \/ m = w
        BY <1>0, <2>1, <2>3, <2>4, <4>1, EndFields
      <4>2. CASE m # r /\ m # w
        <5>1. /\ slots[m].kind = "write" => \E t \in Streams : m = run.pipes[t].write
              /\ slots[m].kind = "read" => \E t \in Streams : m = run.pipes[t].read
          BY <1>0 DEF RunKept, EndsKnown, Before
        <5> QED
          BY <2>3, <2>4, <2>5, <4>2, <5>1, NumbersFacts
      <4> QED
        BY <4>1, <4>2
    <3> QED
      BY <1>0, <2>4, <3>1 DEF EndsKnown, Before
  <2>10. WatchedOnce' /\ DropKnown' /\ ChildKnown'
    BY <1>0, <2>4 DEF RunKept, WatchedOnce, DropKnown, ChildKnown, Before, Within
  <2>11. OutputKept'
    BY <1>0, <2>4 DEF RunKept, OutputKept, Pipe, Before, Captured
  <2> QED
    BY <2>7, <2>8, <2>9, <2>10, <2>11 DEF RunKept
<1> QED
  BY <1>1, <1>2

LEMMA ForkKeeps ==
  ASSUME TypeOK, RunKept, Fork
  PROVE  RunKept'
<1>0. run.pc = "fork" /\ UNCHANGED <<slots, data, wrote>>
  BY DEF Fork
<1>1. CASE run' = Leaving(run.pipes, "failed") /\ UNCHANGED child
  BY <1>0, <1>1, FailureKeeps DEF Before
<1>2. CASE /\ child' = [alive |-> TRUE, wants |-> "none", status |-> "none"]
           /\ run' = [run EXCEPT !.pc = "closeOut"]
  <2>1. /\ run'.n = run.n /\ run'.pc = "closeOut" /\ run'.pipes = run.pipes
        /\ run'.watch = run.watch /\ run'.text = run.text /\ run'.status = run.status
    BY <1>2, RunFields DEF Runs
  <2>2. child'.alive /\ child'.status = "none"
    BY <1>2
  <2>3. PipesMade'
    BY <1>0, <2>1 DEF RunKept, PipesMade, Captured
  <2>4. EndsHeld'
    BY <1>0, <2>1 DEF RunKept, EndsHeld, Before, Within, Pipe
  <2>5. EndsKnown'
    BY <1>0, <2>1 DEF RunKept, EndsKnown, Before, Within
  <2>6. WatchedOnce' /\ DropKnown' /\ ChildKnown'
    BY <1>0, <2>1, <2>2 DEF RunKept, WatchedOnce, DropKnown, ChildKnown, Within
  <2>7. OutputKept'
    BY <1>0, <2>1 DEF RunKept, OutputKept, Captured, Pipe
  <2> QED
    BY <2>3, <2>4, <2>5, <2>6, <2>7 DEF RunKept
<1> QED
  BY <1>1, <1>2 DEF Fork

(* The two read ends are watched, or nothing is captured and there are none. *)
LEMMA WatchedIs ==
  ASSUME TypeOK, RunKept, run.pc \in {"closeOut", "closeErr"}
  PROVE  LET or == run.pipes["out"].read
             er == run.pipes["err"].read
         IN  \/ or = 0 /\ er = 0 /\ Watched = <<>>
             \/ or # 0 /\ er # 0 /\ or # er /\ Watched = <<or, er>>
<1> DEFINE or == run.pipes["out"].read
           er == run.pipes["err"].read
<1>1. or \in Nat /\ er \in Nat
  BY RunFields, StreamFacts
<1>2. (or # 0 <=> er # 0) /\ (or # 0 => or # er)
  BY DEF RunKept, PipesMade
<1> QED
  BY <1>1, <1>2, WatchedCases DEF Watched

(* The parent's copies of the write ends are the only slots that are closed here. *)
LEMMA CloseWriteKeeps ==
  ASSUME TypeOK, RunKept,
         NEW s, NEW from, NEW to, CloseWrite(s, from, to),
         \/ s = "out" /\ from = "closeOut" /\ to = "closeErr"
         \/ s = "err" /\ from = "closeErr" /\ to = "poll"
  PROVE  RunKept'
<1> DEFINE wn == run.pipes[s].write
<1>0. /\ run.pc = from /\ UNCHANGED <<data, child, wrote>> /\ Close("runner", wn)
      /\ s \in Streams /\ from \in Within /\ to \in Within
  BY StreamFacts DEF CloseWrite, Within
<1>1. wn \in 0..Slots
  BY <1>0, RunFields
<1>2. \A m \in Numbers : slots'[m] = IF m = wn THEN Free ELSE slots[m]
  BY <1>0, <1>1, Closed
<1>3. run' = [run EXCEPT !.pc = to, !.pipes[s].write = 0, !.watch = Watched]
  BY DEF CloseWrite
<1>4. /\ run'.n = run.n /\ run'.pc = to /\ run'.text = run.text /\ run'.status = run.status
      /\ run'.watch = Watched
      /\ \A t \in Streams : run'.pipes[t].read = run.pipes[t].read
      /\ \A t \in Streams : run'.pipes[t].write = IF t = s THEN 0 ELSE run.pipes[t].write
  BY <1>0, <1>3, RunFields DEF Runs
<1>5. ASSUME NEW t \in Streams
      PROVE  /\ run.pipes[t].read # 0 => slots[run.pipes[t].read] = End("read", Pipe(t))
             /\ run.pipes[t].write # 0 => slots[run.pipes[t].write] = End("write", Pipe(t))
  BY <1>0 DEF RunKept, EndsHeld
<1>6. ASSUME NEW t \in Streams
      PROVE  /\ run.pipes[t].read # 0 => run.pipes[t].read \in Numbers
             /\ run.pipes[t].write # 0 => run.pipes[t].write \in Numbers
  BY RunFields DEF Numbers
<1>7. ASSUME NEW t \in Streams, run.pipes[t].read # 0
      PROVE  slots'[run.pipes[t].read] = End("read", Pipe(t))
  <2>1. run.pipes[t].read # wn
    BY <1>0, <1>5, <1>7, EndFields
  <2> QED
    BY <1>2, <1>5, <1>6, <1>7, <2>1
<1>8. ASSUME NEW t \in Streams, t # s, run.pipes[t].write # 0
      PROVE  slots'[run.pipes[t].write] = End("write", Pipe(t))
  <2>1. Pipe(t) # Pipe(s)
    BY <1>8 DEF Pipe
  <2>2. run.pipes[t].write # wn
    BY <1>0, <1>5, <1>8, <2>1, EndFields
  <2> QED
    BY <1>2, <1>5, <1>6, <1>8, <2>2
<1>9. PipesMade'
  BY <1>0, <1>4, StreamFacts DEF RunKept, PipesMade, Captured
<1>10. EndsHeld' /\ WatchedOnce'
  <2>1. \A t \in Streams : Pipe(t)' = Pipe(t)
    BY <1>4 DEF Pipe
  <2>2. \A t \in Streams : run'.pipes[t].write # 0 => slots'[run'.pipes[t].write] = End("write", Pipe(t))
    BY <1>4, <1>8
  <2>3. \A t \in Streams : run'.pipes[t].read # 0 => slots'[run'.pipes[t].read] = End("read", Pipe(t))
    BY <1>4, <1>7
  <2>4. /\ \A i \in DOMAIN run'.watch : \E t \in Streams :
               run'.watch[i] = run.pipes[t].read /\ run.pipes[t].read # 0
        /\ \A i, j \in DOMAIN run'.watch : run'.watch[i] = run'.watch[j] => i = j
    BY <1>0, <1>4, WatchedIs, StreamFacts
  <2>5. \A i \in DOMAIN run'.watch : \E t \in Streams :
            run'.watch[i] = run'.pipes[t].read /\ slots'[run'.watch[i]] = End("read", Pipe(t))
    BY <1>4, <2>3, <2>4
  <2>6. EndsHeld'
    BY <2>1, <2>2, <2>3, <2>5 DEF EndsHeld
  <2>7. WatchedOnce'
    BY <1>4, <2>4 DEF WatchedOnce
  <2> QED
    BY <2>6, <2>7
<1>11. EndsKnown'
  <2>1. ASSUME NEW m \in Numbers, slots'[m].kind = "write"
        PROVE  \E t \in Streams : m = run'.pipes[t].write
    <3>1. m # wn /\ slots[m].kind = "write"
      BY <1>2, <2>1, EndFields
    <3>2. PICK t \in Streams : m = run.pipes[t].write
      BY <1>0, <3>1 DEF RunKept, EndsKnown, Within
    <3>3. t # s
      BY <3>1, <3>2
    <3> QED
      BY <1>4, <3>2, <3>3
  <2>2. ASSUME NEW m \in Numbers, slots'[m].kind = "read"
        PROVE  /\ \E t \in Streams : m = run'.pipes[t].read
               /\ \E i \in DOMAIN run'.watch : m = run'.watch[i]
    <3>1. slots[m].kind = "read"
      BY <1>2, <2>2, EndFields
    <3>2. PICK t \in Streams : m = run.pipes[t].read
      BY <1>0, <3>1 DEF RunKept, EndsKnown, Within
    <3>3. m # 0
      BY NumbersFacts
    <3>4. \E i \in DOMAIN Watched : m = Watched[i]
      BY <1>0, <3>2, <3>3, WatchedIs, StreamFacts
    <3> QED
      BY <1>4, <3>2, <3>4
  <2> QED
    BY <1>0, <1>4, <2>1, <2>2 DEF EndsKnown, Within
<1>12. DropKnown' /\ ChildKnown'
  BY <1>0, <1>4 DEF RunKept, DropKnown, ChildKnown, Within
<1>13. OutputKept'
  <2>1. run.pc \notin {"drop", "idle"} /\ run'.pc \notin {"drop", "idle"}
    BY <1>0, <1>4 DEF Within
  <2>2. ASSUME Captured', NEW t \in Streams
        PROVE  \E i \in DOMAIN run'.watch : run'.watch[i] = run'.pipes[t].read
    <3>1. run.pipes["out"].read # 0
      BY <1>4, <2>2, StreamFacts DEF Captured
    <3> QED
      BY <1>0, <1>4, <3>1, WatchedIs, StreamFacts
  <2>3. \A t \in Streams : Pipe(t)' = Pipe(t)
    BY <1>4 DEF Pipe
  <2> QED
    BY <1>0, <1>4, <2>1, <2>2, <2>3 DEF RunKept, OutputKept
<1> QED
  BY <1>9, <1>10, <1>11, <1>12, <1>13 DEF RunKept

LEMMA PollKeeps ==
  ASSUME TypeOK, RunKept, Poll
  PROVE  RunKept'
<1> DEFINE seen == [i \in DOMAIN run.watch |-> Ready(run.watch[i])]
<1>0. run.pc = "poll" /\ UNCHANGED <<slots, data, child, wrote>>
  BY DEF Poll
<1>1. \/ run.watch = <<>> /\ run' = [run EXCEPT !.pc = "wait"]
      \/ run' = [run EXCEPT !.pc = "scan", !.i = 1, !.events = seen]
  BY DEF Poll
<1> HIDE DEF seen
<1>2. /\ run'.n = run.n /\ run'.pipes = run.pipes /\ run'.text = run.text
      /\ run'.status = run.status /\ run'.watch = run.watch
      /\ run'.pc \in {"scan", "wait"} /\ (run'.pc = "wait" => run.watch = <<>>)
  BY <1>1, RunFields DEF Runs
<1>3. PipesMade' /\ WatchedOnce' /\ DropKnown' /\ ChildKnown'
  BY <1>0, <1>2 DEF RunKept, PipesMade, WatchedOnce, DropKnown, ChildKnown, Captured, Within
<1>4. EndsHeld'
  BY <1>0, <1>2 DEF RunKept, EndsHeld, Within, Before, Pipe
<1>5. EndsKnown'
  BY <1>0, <1>2 DEF RunKept, EndsKnown, Within, Before
<1>6. OutputKept'
  BY <1>0, <1>2 DEF RunKept, OutputKept, Captured, Pipe
<1> QED
  BY <1>3, <1>4, <1>5, <1>6 DEF RunKept

LEMMA PassKeeps ==
  ASSUME TypeOK, RunKept, Pass
  PROVE  RunKept'
<1>0. run.pc = "scan" /\ UNCHANGED <<slots, data, child, wrote>>
  BY DEF Pass
<1>1. run' = [run EXCEPT !.pc = "poll"] \/ run' = [run EXCEPT !.i = @ + 1]
  BY DEF Pass
<1>2. /\ run'.n = run.n /\ run'.pipes = run.pipes /\ run'.text = run.text
      /\ run'.status = run.status /\ run'.watch = run.watch
      /\ run'.pc \in {"scan", "poll"}
  BY <1>0, <1>1, RunFields DEF Runs
<1>3. PipesMade' /\ WatchedOnce' /\ DropKnown' /\ ChildKnown'
  BY <1>0, <1>2 DEF RunKept, PipesMade, WatchedOnce, DropKnown, ChildKnown, Captured, Within
<1>4. EndsHeld'
  BY <1>0, <1>2 DEF RunKept, EndsHeld, Within, Before, Pipe
<1>5. EndsKnown'
  BY <1>0, <1>2 DEF RunKept, EndsKnown, Within, Before
<1>6. OutputKept'
  BY <1>0, <1>2 DEF RunKept, OutputKept, Captured, Pipe
<1> QED
  BY <1>3, <1>4, <1>5, <1>6 DEF RunKept

(* The end of the command leaves ~Pipe read ends that are closed already. *)
LEMMA WaitKeeps ==
  ASSUME TypeOK, RunKept, Wait
  PROVE  RunKept'
<1> DEFINE or == run.pipes["out"].read
           er == run.pipes["err"].read
<1>0. /\ run.pc = "wait" /\ ~child.alive /\ run' = Leaving(run.pipes, child.status)
      /\ UNCHANGED <<slots, data, child, wrote>>
  BY DEF Wait
<1>1. /\ run'.n = run.n /\ run'.pc = "drop" /\ run'.pipes = run.pipes
      /\ run'.watch = run.watch /\ run'.text = run.text
      /\ run'.drop = Dropped(run.pipes) /\ run'.status = child.status
  BY <1>0, LeavingFields
<1>2. child.status # "none" /\ child.status # "failed"
  BY <1>0 DEF RunKept, ChildKnown, Within, TypeOK, Children
<1>3. /\ or \in Nat /\ er \in Nat /\ (or # 0 <=> er # 0)
      /\ run.pipes["out"].write = 0 /\ run.pipes["err"].write = 0
      /\ run.pipes \in [Streams -> [read : Nat, write : Nat]]
  BY <1>0, RunFields, StreamFacts DEF RunKept, PipesMade
<1>4. run'.drop = <<>> \/ run'.drop = <<er, or>>
  BY <1>1, <1>3, DroppedCases
<1>5. \A m \in Numbers : slots[m].kind \notin {"read", "write"}
  BY <1>0, <1>3, NumbersFacts, StreamFacts DEF RunKept, EndsKnown, WatchedOnce, Before
<1>6. PipesMade' /\ EndsHeld' /\ WatchedOnce' /\ ChildKnown'
  BY <1>0, <1>1, <1>2 DEF RunKept, PipesMade, EndsHeld, WatchedOnce, ChildKnown, Captured, Before, Within
<1>7. EndsKnown'
  BY <1>0, <1>5 DEF EndsKnown
<1>8. DropKnown'
  BY <1>1, <1>2, <1>4, StreamFacts DEF DropKnown
<1>9. OutputKept'
  BY <1>0, <1>1, <1>2 DEF RunKept, OutputKept, WatchedOnce, Captured, Pipe
<1> QED
  BY <1>6, <1>7, <1>8, <1>9 DEF RunKept

(* ~Pipe closes its numbers one by one. *)
LEMMA DropKeeps ==
  ASSUME TypeOK, RunKept, Drop
  PROVE  RunKept'
<1>0. run.pc = "drop" /\ UNCHANGED <<data, child, wrote>>
  BY DEF Drop
<1>1. CASE run.drop = <<>>
  <2>1. run' = [run EXCEPT !.pc = "idle"] /\ UNCHANGED slots
    BY <1>1 DEF Drop
  <2>2. /\ run'.n = run.n /\ run'.pipes = run.pipes /\ run'.text = run.text
        /\ run'.status = run.status /\ run'.watch = run.watch /\ run'.pc = "idle"
    BY <2>1, RunFields DEF Runs
  <2>3. PipesMade' /\ EndsHeld' /\ WatchedOnce' /\ DropKnown' /\ ChildKnown'
    BY <1>0, <2>1, <2>2 DEF RunKept, PipesMade, EndsHeld, WatchedOnce, DropKnown, ChildKnown, Captured, Before, Within
  <2>4. EndsKnown'
    BY <1>0, <1>1, <2>1, <2>2 DEF RunKept, EndsKnown, Before, Within
  <2>5. OutputKept'
    BY <1>0, <2>2 DEF RunKept, OutputKept, Captured, Pipe
  <2> QED
    BY <2>3, <2>4, <2>5 DEF RunKept
<1>2. CASE run.drop # <<>>
  <2> DEFINE h == Head(run.drop)
             rest == Tail(run.drop)
  <2>1. run' = [run EXCEPT !.drop = rest] /\ Close("runner", h)
    BY <1>2 DEF Drop
  <2>2. /\ Len(run.drop) \in Nat \ {0} /\ h = run.drop[1] /\ h \in Numbers
        /\ rest \in Seq(Numbers) /\ Len(rest) = Len(run.drop) - 1
        /\ \A i \in 1..Len(rest) : rest[i] = run.drop[i + 1]
    BY <1>2, RunFields
  <2>3. \A m \in Numbers : slots'[m] = IF m = h THEN Free ELSE slots[m]
    BY <2>1, <2>2, Closed, NumbersFacts
  <2> HIDE DEF h, rest
  <2>4. /\ run'.n = run.n /\ run'.pipes = run.pipes /\ run'.text = run.text
        /\ run'.status = run.status /\ run'.watch = run.watch /\ run'.pc = "drop"
        /\ run'.drop = rest
    BY <1>0, <2>1, RunFields DEF Runs
  <2>5. PipesMade' /\ EndsHeld' /\ WatchedOnce' /\ ChildKnown'
    BY <1>0, <2>4 DEF RunKept, PipesMade, EndsHeld, WatchedOnce, ChildKnown, Captured, Before, Within
  <2>6. DOMAIN run.drop = 1..Len(run.drop) /\ DOMAIN rest = 1..Len(rest)
    BY <2>2, RunFields
  <2>7. ASSUME NEW m \in Numbers, slots'[m].kind \in {"read", "write"}
        PROVE  \E i \in DOMAIN rest : m = rest[i]
    <3>1. m # h /\ slots[m].kind \in {"read", "write"}
      BY <2>3, <2>7, EndFields
    <3>2. PICK i \in DOMAIN run.drop : m = run.drop[i]
      BY <1>0, <3>1 DEF RunKept, EndsKnown, Before, Within
    <3>3. i # 1 /\ i - 1 \in 1..Len(rest)
      BY <2>2, <2>6, <3>1, <3>2
    <3>4. m = rest[i - 1]
      BY <2>2, <2>6, <3>2, <3>3
    <3> QED
      BY <2>6, <3>3, <3>4
  <2>8. EndsKnown'
    BY <2>4, <2>7 DEF EndsKnown
  <2>9. DropKnown'
    <3>1. ASSUME NEW i \in DOMAIN rest
          PROVE  i + 1 \in DOMAIN run.drop /\ rest[i] = run.drop[i + 1] /\ i + 1 # 1
      BY <2>2, <2>6
    <3>2. CASE run.status = "failed"
      <4>1. \A i, j \in DOMAIN run.drop : run.drop[i] = run.drop[j] => i = j
        BY <1>0, <3>2 DEF RunKept, DropKnown
      <4>2. \A i \in DOMAIN run.drop : slots[run.drop[i]].kind \in {"read", "write"}
        BY <1>0, <3>2 DEF RunKept, DropKnown
      <4>3. ASSUME NEW i \in DOMAIN rest, NEW j \in DOMAIN rest, rest[i] = rest[j]
            PROVE  i = j
        <5>1. i + 1 = j + 1
          BY <3>1, <4>1, <4>3
        <5> QED
          BY <2>2, <2>6, <5>1
      <4>4. ASSUME NEW i \in DOMAIN rest
            PROVE  slots'[rest[i]].kind \in {"read", "write"}
        <5>1. rest[i] # h
          BY <2>2, <2>6, <3>1, <4>1
        <5>2. rest[i] \in Numbers
          BY <2>2, <2>6
        <5> QED
          BY <2>3, <3>1, <4>2, <5>1, <5>2
      <4> QED
        BY <2>4, <3>2, <4>3, <4>4 DEF DropKnown
    <3>3. CASE run.status # "failed"
      <4>1. \A i \in DOMAIN run.drop : \E t \in Streams : run.drop[i] = run.pipes[t].read
        BY <1>0, <3>3 DEF RunKept, DropKnown
      <4> QED
        BY <2>4, <3>1, <3>3, <4>1 DEF DropKnown
    <3> QED
      BY <3>2, <3>3
  <2>10. OutputKept'
    BY <1>0, <2>4 DEF RunKept, OutputKept, Captured, Pipe
  <2> QED
    BY <2>5, <2>8, <2>9, <2>10 DEF RunKept
<1> QED
  BY <1>1, <1>2

(* What the pass over poll_fds looks at is an open read end of the run. *)
LEMMA ScannedIs ==
  ASSUME TypeOK, RunKept, Scans
  PROVE  /\ run.pc = "scan" /\ run.n > 0 /\ run.i \in 1..Len(run.watch)
         /\ Scanned \in Numbers /\ Scanned = run.watch[run.i] /\ At(Scanned) = slots[Scanned]
         /\ \E t \in Streams : Scanned = run.pipes[t].read /\ slots[Scanned] = End("read", Pipe(t))
<1>1. run.pc = "scan" /\ run.i \in 1..Len(run.watch)
  BY RunFields DEF Scans
<1>2. Scanned \in Numbers /\ Scanned = run.watch[run.i]
  BY <1>1, RunFields DEF Scanned
<1>3. run.i \in DOMAIN run.watch
  BY <1>1, RunFields
<1>4. \E t \in Streams : Scanned = run.pipes[t].read /\ slots[Scanned] = End("read", Pipe(t))
  BY <1>1, <1>2, <1>3 DEF RunKept, EndsHeld
<1> QED
  BY <1>1, <1>2, <1>4 DEF At, TypeOK

(* A unit that is read goes to the text of its own stream. *)
LEMMA CollectKeeps ==
  ASSUME TypeOK, RunKept, Collect
  PROVE  RunKept'
<1>0. /\ Scans /\ HasData(At(Scanned)) /\ Take(At(Scanned))
      /\ UNCHANGED <<slots, child, wrote>>
  BY DEF Collect
<1>1. PICK t \in Streams : Scanned = run.pipes[t].read /\ slots[Scanned] = End("read", Pipe(t))
  BY <1>0, ScannedIs
<1>2. /\ run.pc = "scan" /\ run.n > 0 /\ Scanned \in Numbers /\ Scanned # 0
      /\ At(Scanned) = End("read", Pipe(t))
  BY <1>0, <1>1, ScannedIs, NumbersFacts
<1>3. t = IF Scanned = run.pipes["out"].read THEN "out" ELSE "err"
  <2>1. run.pipes["out"].read # 0 => run.pipes["out"].read # run.pipes["err"].read
    BY DEF RunKept, PipesMade
  <2> QED
    BY <1>1, <1>2, <2>1, StreamFacts
<1>4. run' = [run EXCEPT !.text[t] = @ + 1, !.i = @ + 1]
  BY <1>3 DEF Collect
<1>5. /\ run'.n = run.n /\ run'.pipes = run.pipes /\ run'.status = run.status /\ run'.watch = run.watch
      /\ run'.pc = "scan" /\ run'.text[t] = run.text[t] + 1
      /\ \A u \in Streams : u # t => run'.text[u] = run.text[u]
  BY <1>1, <1>2, <1>4, RunFields DEF Runs
<1>6. /\ Pipe(t) \in Pipes /\ data[Pipe(t)] \in Nat /\ data[Pipe(t)] > 0
      /\ data' = [data EXCEPT ![Pipe(t)] = @ - 1]
  <2>1. End("read", Pipe(t)).kind = "read" /\ End("read", Pipe(t)).pipe = Pipe(t)
    BY EndFields
  <2>2. Pipe(t) \in Pipes /\ data[Pipe(t)] \in Nat
    BY <1>2, RunFields
  <2> QED
    BY <1>0, <1>2, <2>1, <2>2 DEF HasData, Take
<1>7. /\ data'[Pipe(t)] = data[Pipe(t)] - 1
      /\ \A p \in Pipes : p # Pipe(t) => data'[p] = data[p]
  BY <1>6 DEF TypeOK
<1>8. PipesMade' /\ WatchedOnce' /\ DropKnown' /\ ChildKnown'
  BY <1>0, <1>2, <1>5 DEF RunKept, PipesMade, WatchedOnce, DropKnown, ChildKnown, Captured, Within
<1>9. EndsHeld'
  BY <1>0, <1>2, <1>5 DEF RunKept, EndsHeld, Within, Before, Pipe
<1>10. EndsKnown'
  BY <1>0, <1>2, <1>5 DEF RunKept, EndsKnown, Within, Before
<1>11. OutputKept'
  <2>1. \A u \in Streams : Pipe(u)' = Pipe(u) /\ Pipe(u) \in Pipes
    BY <1>2, <1>5, RunFields DEF Pipe
  <2>2. \A u \in Streams : u # t => Pipe(u) # Pipe(t)
    BY DEF Pipe
  <2>3. \A p \in Pipes : p[1] > run.n => data'[p] = 0
    <3> SUFFICES ASSUME NEW p \in Pipes, p[1] > run.n
                 PROVE  data'[p] = 0
      OBVIOUS
    <3>1. Pipe(t)[1] = run.n
      BY DEF Pipe
    <3>2. run.n \in Nat /\ p # Pipe(t)
      BY <3>1, RunFields
    <3>3. data[p] = 0
      BY DEF RunKept, OutputKept
    <3> QED
      BY <1>7, <3>2, <3>3
  <2>4. \A u \in Streams : run'.text[u] + data'[Pipe(u)] = wrote[u]
    <3>1. \A u \in Streams : run.text[u] + data[Pipe(u)] = wrote[u]
      BY <1>2 DEF RunKept, OutputKept
    <3>2. run'.text[t] + data'[Pipe(t)] = wrote[t]
      <4>1. run.text[t] \in Nat /\ data[Pipe(t)] \in Nat
        BY <1>6, RunFields
      <4>2. run.text[t] + data[Pipe(t)] = wrote[t]
        BY <3>1
      <4> QED
        BY <1>5, <1>7, <4>1, <4>2
    <3> QED
      BY <1>5, <1>7, <2>1, <2>2, <3>1, <3>2
  <2>5. ASSUME Captured, NEW u \in Streams,
               \A i \in DOMAIN run.watch : run.watch[i] # run.pipes[u].read
        PROVE  data'[Pipe(u)] = 0 /\ ~child.alive
    <3>1. data[Pipe(u)] = 0 /\ ~child.alive
      BY <1>2, <2>5 DEF RunKept, OutputKept
    <3>2. u # t
      BY <1>6, <3>1
    <3> QED
      BY <1>7, <2>1, <2>2, <3>1, <3>2
  <2>6. Captured' => Captured
    BY <1>5 DEF Captured
  <2> QED
    BY <1>0, <1>2, <1>5, <2>1, <2>3, <2>4, <2>5, <2>6 DEF OutputKept
<1> QED
  BY <1>8, <1>9, <1>10, <1>11 DEF RunKept

(* A stream that is closed has been read to its end. *)
LEMMA EndStreamKeeps ==
  ASSUME TypeOK, RunKept, EndStream
  PROVE  RunKept'
<1> DEFINE k == run.i
           n == Len(run.watch)
           w == SwapRemoved(run.watch, k)
           e == SwapRemoved(run.events, k)
<1>0. Scans
  BY DEF EndStream
<1>1. PICK t \in Streams : Scanned = run.pipes[t].read /\ slots[Scanned] = End("read", Pipe(t))
  BY <1>0, ScannedIs
<1>2. /\ run.pc = "scan" /\ run.n > 0 /\ Scanned \in Numbers /\ Scanned # 0 /\ k \in 1..n
      /\ Scanned = run.watch[k] /\ At(Scanned) = End("read", Pipe(t))
  BY <1>0, <1>1, ScannedIs, NumbersFacts
<1>3. data[Pipe(t)] = 0 /\ ~child.alive
  <2>1. End("read", Pipe(t)).kind = "read" /\ End("read", Pipe(t)).pipe = Pipe(t)
    BY EndFields
  <2>2. AtEnd(At(Scanned))
    BY <1>2, <2>1 DEF Unreadable, EndStream
  <2>3. data[Pipe(t)] = 0 /\ ~Writers(Pipe(t))
    BY <1>2, <2>1, <2>2 DEF AtEnd
  <2>4. Pipe(t)[1] = run.n
    BY DEF Pipe
  <2> QED
    BY <2>3, <2>4 DEF Writers
<1>4. \A m \in Numbers : slots'[m] = IF m = Scanned THEN Free ELSE slots[m]
  BY <1>2, Closed, NumbersFacts DEF EndStream
<1>5. run' = [run EXCEPT !.watch = w, !.events = e]
  BY DEF EndStream
<1>6. /\ n \in Nat /\ w \in Seq(Numbers) /\ Len(w) = n - 1
      /\ \A j \in 1..(n - 1) : w[j] = IF j = k THEN run.watch[n] ELSE run.watch[j]
      /\ DOMAIN run.watch = 1..n /\ DOMAIN w = 1..(n - 1)
  <2>1. run.watch \in Seq(Numbers)
    BY RunFields
  <2>2. n \in Nat /\ DOMAIN run.watch = 1..n /\ k \in 1..Len(run.watch)
    BY <1>2, <2>1
  <2>3. /\ w \in Seq(Numbers) /\ Len(w) = n - 1
        /\ \A j \in 1..(n - 1) : w[j] = IF j = k THEN run.watch[n] ELSE run.watch[j]
    BY <2>1, <2>2, SwapRemovedIs
  <2> HIDE DEF w, e
  <2> QED
    BY <2>2, <2>3
<1> HIDE DEF w, e
<1>7. /\ run'.n = run.n /\ run'.pipes = run.pipes /\ run'.status = run.status
      /\ run'.pc = "scan" /\ run'.text = run.text /\ run'.watch = w
  BY <1>2, <1>5, RunFields DEF Runs
<1>8. \A i, j \in 1..n : run.watch[i] = run.watch[j] => i = j
  BY <1>6 DEF RunKept, WatchedOnce
<1>9. ASSUME NEW j \in 1..(n - 1)
      PROVE  \E i \in 1..n : w[j] = run.watch[i] /\ i # k /\ i = IF j = k THEN n ELSE j
  BY <1>2, <1>6
<1>10. ASSUME NEW i \in 1..n, i # k
       PROVE  \E j \in 1..(n - 1) : w[j] = run.watch[i]
  <2>1. CASE i = n
    BY <1>2, <1>6, <1>10, <2>1
  <2>2. CASE i # n
    BY <1>2, <1>6, <1>10, <2>2
  <2> QED
    BY <2>1, <2>2
<1>11. PipesMade' /\ DropKnown' /\ ChildKnown'
  BY <1>0, <1>2, <1>7 DEF RunKept, PipesMade, DropKnown, ChildKnown, Captured, Within, EndStream
<1>12. WatchedOnce'
  BY <1>2, <1>6, <1>7, <1>8, <1>9 DEF WatchedOnce
<1>13. EndsHeld'
  <2>1. \A u \in Streams : Pipe(u)' = Pipe(u)
    BY <1>7 DEF Pipe
  <2>2. ASSUME NEW u \in Streams, run.pipes[u].write # 0
        PROVE  FALSE
    BY <1>2, <2>2, StreamFacts DEF RunKept, PipesMade
  <2>3. ASSUME NEW j \in DOMAIN w
        PROVE  \E u \in Streams : w[j] = run.pipes[u].read /\ slots'[w[j]] = End("read", Pipe(u))
    <3>1. PICK i \in 1..n : w[j] = run.watch[i] /\ i # k
      BY <1>6, <1>9
    <3>2. PICK u \in Streams : run.watch[i] = run.pipes[u].read /\ slots[run.watch[i]] = End("read", Pipe(u))
      BY <1>2, <1>6 DEF RunKept, EndsHeld
    <3>3. w[j] # Scanned /\ w[j] \in Numbers
      BY <1>2, <1>6, <1>8, <3>1
    <3> QED
      BY <1>4, <3>1, <3>2, <3>3
  <2> QED
    BY <1>7, <2>1, <2>2, <2>3 DEF EndsHeld, Before
<1>14. EndsKnown'
  <2>1. ASSUME NEW m \in Numbers, slots'[m].kind = "write"
        PROVE  \E u \in Streams : m = run.pipes[u].write
    <3>1. slots[m].kind = "write"
      BY <1>4, <2>1, EndFields
    <3> QED
      BY <1>2, <3>1 DEF RunKept, EndsKnown
  <2>2. ASSUME NEW m \in Numbers, slots'[m].kind = "read"
        PROVE  \E j \in DOMAIN w : m = w[j]
    <3>1. m # Scanned /\ slots[m].kind = "read"
      BY <1>4, <2>2, EndFields
    <3>2. PICK i \in 1..n : m = run.watch[i]
      BY <1>2, <1>6, <3>1 DEF RunKept, EndsKnown, Before
    <3>3. i # k
      BY <1>2, <3>1, <3>2
    <3> QED
      BY <1>6, <1>10, <3>2, <3>3
  <2> QED
    BY <1>7, <2>1, <2>2 DEF EndsKnown, Within
<1>15. OutputKept'
  <2>1. \A u \in Streams : Pipe(u)' = Pipe(u)
    BY <1>7 DEF Pipe
  <2>2. ASSUME Captured, NEW u \in Streams,
               \A j \in DOMAIN w : w[j] # run.pipes[u].read
        PROVE  data[Pipe(u)] = 0 /\ ~child.alive
    <3>1. CASE u = t
      BY <1>3, <3>1
    <3>2. CASE u # t
      <4>1. run.pipes[u].read # run.pipes[t].read
        BY <1>1, <1>2, <3>2, StreamFacts DEF RunKept, PipesMade
      <4>2. \A i \in 1..n : run.watch[i] # run.pipes[u].read
        <5> SUFFICES ASSUME NEW i \in 1..n, run.watch[i] = run.pipes[u].read
                     PROVE  FALSE
          OBVIOUS
        <5>1. i # k
          BY <1>1, <1>2, <4>1
        <5>2. PICK j \in 1..(n - 1) : w[j] = run.watch[i]
          BY <1>10, <5>1
        <5> QED
          BY <1>6, <2>2, <5>2
      <4> QED
        BY <1>2, <1>6, <2>2, <4>2 DEF RunKept, OutputKept
    <3> QED
      BY <3>1, <3>2
  <2>3. UNCHANGED <<data, child, wrote>>
    BY DEF EndStream
  <2>4. Captured' => Captured
    BY <1>7 DEF Captured
  <2> QED
    BY <1>2, <1>7, <2>1, <2>2, <2>3, <2>4 DEF RunKept, OutputKept
<1> QED
  BY <1>11, <1>12, <1>13, <1>14, <1>15 DEF RunKept

(***************************************************************************)
(* The other steps.                                                        *)
(***************************************************************************)
(* The invariant looks at the pipe ends in the table, at the run, at the pipes' data and at the
   command; a step that leaves them alone keeps it. *)
LEMMA ElsewhereKeeps ==
  ASSUME TypeOK, TypeOK', RunKept, UNCHANGED <<run, data, child, wrote>>,
         \A m \in Numbers : \/ slots'[m] = slots[m]
                            \/ /\ slots[m].kind \notin {"read", "write"}
                               /\ slots'[m].kind \notin {"read", "write"}
  PROVE  RunKept'
<1>1. PipesMade' /\ WatchedOnce' /\ ChildKnown'
  BY DEF RunKept, PipesMade, WatchedOnce, ChildKnown, Captured
<1>2. EndsKnown'
  BY DEF RunKept, EndsKnown
<1>3. \A s \in Streams : /\ run.pipes[s].read # 0 => run.pipes[s].read \in Numbers
                         /\ run.pipes[s].write # 0 => run.pipes[s].write \in Numbers
  BY RunFields DEF Numbers
<1>4. EndsHeld'
  <2>1. \A s \in Streams : Pipe(s)' = Pipe(s)
    BY DEF Pipe
  <2>2. ASSUME NEW m \in Numbers, NEW kind \in {"read", "write"}, NEW p, slots[m] = End(kind, p)
        PROVE  slots'[m] = End(kind, p)
    BY <2>2, EndFields
  <2>3. \A i \in DOMAIN run.watch : run.watch[i] \in Numbers
    BY RunFields
  <2> QED
    BY <1>3, <2>1, <2>2, <2>3 DEF RunKept, EndsHeld
<1>5. DropKnown'
  <2>1. \A i \in DOMAIN run.drop : run.drop[i] \in Numbers
    BY RunFields
  <2> QED
    BY <2>1 DEF RunKept, DropKnown
<1>6. OutputKept'
  BY DEF RunKept, OutputKept, Captured, Pipe
<1> QED
  BY <1>1, <1>2, <1>4, <1>5, <1>6 DEF RunKept

(* The command writes inside run(), to a pipe that is not at its end. *)
LEMMA ChildKeeps ==
  ASSUME TypeOK, RunKept, Child
  PROVE  RunKept'
<1>0. child.alive /\ UNCHANGED <<slots, run>>
  BY DEF Child, ChildWants, ChildWrites, ChildEnds
<1>1. run.pc \in Within /\ run.n > 0 /\ child.status = "none"
  BY <1>0 DEF RunKept, ChildKnown, TypeOK, Within
<1>2. PipesMade' /\ EndsHeld' /\ EndsKnown' /\ WatchedOnce' /\ DropKnown'
  BY <1>0 DEF RunKept, PipesMade, EndsHeld, EndsKnown, WatchedOnce, DropKnown, Captured, Pipe
<1>3. ASSUME child'.alive <=> child'.status = "none"
      PROVE  ChildKnown'
  BY <1>0, <1>1, <1>3 DEF ChildKnown, Within
<1>4. ASSUME UNCHANGED <<data, wrote>>
      PROVE  OutputKept'
  <2>1. run.pc \in {"poll", "scan", "wait"} /\ Captured =>
            \A s \in Streams : \E i \in DOMAIN run.watch : run.watch[i] = run.pipes[s].read
    BY <1>0 DEF RunKept, OutputKept
  <2> QED
    BY <1>0, <1>1, <1>4, <2>1 DEF RunKept, OutputKept, Captured, Pipe, Within
<1>5. CASE ChildWants
  <2>1. child'.alive = child.alive /\ child'.status = child.status /\ UNCHANGED <<data, wrote>>
    BY <1>5 DEF ChildWants, TypeOK, Children
  <2> QED
    BY <1>0, <1>1, <1>2, <1>3, <1>4, <2>1 DEF RunKept
<1>6. CASE ChildEnds
  <2>1. ~child'.alive /\ child'.status # "none" /\ UNCHANGED <<data, wrote>>
    BY <1>6 DEF ChildEnds
  <2> QED
    BY <1>2, <1>3, <1>4, <2>1 DEF RunKept
<1>7. CASE ChildWrites
  <2> DEFINE t == child.wants
  <2>1. t \in Streams /\ Pipe(t) \in Pipes
    BY <1>1, <1>7, RunFields DEF ChildWrites, TypeOK, Children
  <2>2. CASE Readers(Pipe(t))
    <3>1. /\ data' = [data EXCEPT ![Pipe(t)] = @ + 1]
          /\ wrote' = [wrote EXCEPT ![t] = @ + 1]
          /\ child'.alive = child.alive /\ child'.status = child.status
      BY <1>7, <2>2 DEF ChildWrites, TypeOK, Children
    <3>2. /\ data'[Pipe(t)] = data[Pipe(t)] + 1 /\ wrote'[t] = wrote[t] + 1
          /\ \A p \in Pipes : p # Pipe(t) => data'[p] = data[p]
          /\ \A u \in Streams : u # t => wrote'[u] = wrote[u]
      BY <2>1, <3>1 DEF TypeOK
    <3>3. OutputKept'
      <4>1. \A u \in Streams : Pipe(u)' = Pipe(u) /\ Pipe(u) \in Pipes /\ (u # t => Pipe(u) # Pipe(t))
        BY <1>0, <1>1, RunFields DEF Pipe
      <4>2. ASSUME NEW p \in Pipes, p[1] > run.n
            PROVE  data'[p] = 0
        <5>1. Pipe(t)[1] = run.n
          BY DEF Pipe
        <5>2. p # Pipe(t)
          BY <4>2, <5>1, RunFields
        <5>3. data[p] = 0
          BY <4>2 DEF RunKept, OutputKept
        <5> QED
          BY <3>2, <5>2, <5>3
      <4>3. ASSUME NEW u \in Streams
            PROVE  run.text[u] + data'[Pipe(u)] = wrote'[u]
        <5>1. run.text[u] + data[Pipe(u)] = wrote[u]
          BY <1>1 DEF RunKept, OutputKept
        <5>2. run.text[u] \in Nat /\ data[Pipe(u)] \in Nat /\ wrote[u] \in Nat
          BY <4>1, RunFields
        <5> QED
          BY <3>2, <4>1, <5>1, <5>2
      <4>4. run.pc \in {"poll", "scan", "wait"} /\ Captured =>
                \A s \in Streams : \E i \in DOMAIN run.watch : run.watch[i] = run.pipes[s].read
        BY <1>0 DEF RunKept, OutputKept
      <4> QED
        BY <1>0, <1>1, <4>1, <4>2, <4>3, <4>4 DEF OutputKept, Captured, Within
    <3> QED
      BY <1>0, <1>1, <1>2, <1>3, <3>1, <3>3 DEF RunKept
  <2>3. CASE ~Readers(Pipe(t))
    <3>1. ~child'.alive /\ child'.status # "none" /\ UNCHANGED <<data, wrote>>
      BY <1>7, <2>3 DEF ChildWrites
    <3> QED
      BY <1>2, <1>3, <1>4, <3>1 DEF RunKept
  <2> QED
    BY <2>2, <2>3
<1> QED
  BY <1>5, <1>6, <1>7 DEF Child

(* The run closes no socket as long as it does not cross. *)
LEMMA RunnerSlots ==
  ASSUME TypeOK, Runner, ~crossed'
  PROVE  /\ ~crossed /\ request' = request
         /\ \A m \in Numbers : \/ slots'[m] = slots[m]
                               \/ slots[m].kind # "socket" /\ slots'[m].kind # "socket"
<1>1. CASE UNCHANGED <<slots, request, crossed>>
  BY <1>1
<1>2. ASSUME NEW n \in 0..Slots, Close("runner", n)
      PROVE  /\ ~crossed
             /\ \A m \in Numbers : \/ slots'[m] = slots[m]
                                   \/ slots[m].kind # "socket" /\ slots'[m].kind # "socket"
  BY <1>2, Closed, EndFields
<1>3. ASSUME NEW s \in Streams, NEW from, NEW to, MakePipe(s, from, to)
      PROVE  /\ ~crossed /\ request' = request
             /\ \A m \in Numbers : \/ slots'[m] = slots[m]
                                   \/ slots[m].kind # "socket" /\ slots'[m].kind # "socket"
  <2>1. CASE Cardinality(FreeNumbers) < 2
    BY <1>3, <2>1 DEF MakePipe
  <2>2. CASE ~ (Cardinality(FreeNumbers) < 2)
    <3> DEFINE n == Lowest
               w == Min(FreeNumbers \ {n})
    <3>1. /\ n \in Numbers /\ w \in Numbers /\ n # w
          /\ slots[n] = Free /\ slots[w] = Free
      BY <2>2, TwoLowestFree
    <3>2. slots' = [slots EXCEPT ![n] = End("read", Pipe(s)), ![w] = End("write", Pipe(s))]
      BY <1>3, <2>2 DEF MakePipe
    <3> HIDE DEF n, w
    <3>3. /\ slots'[n] = End("read", Pipe(s)) /\ slots'[w] = End("write", Pipe(s))
          /\ \A m \in Numbers : m # n /\ m # w => slots'[m] = slots[m]
      BY <3>1, <3>2 DEF TypeOK
    <3> QED
      BY <1>3, <3>1, <3>3, EndFields DEF MakePipe
  <2> QED
    BY <2>1, <2>2
<1>4. ASSUME NEW s \in Streams, NEW from, NEW to, CloseWrite(s, from, to)
      PROVE  /\ ~crossed /\ request' = request
             /\ \A m \in Numbers : \/ slots'[m] = slots[m]
                                   \/ slots[m].kind # "socket" /\ slots'[m].kind # "socket"
  BY <1>2, <1>4, RunFields DEF CloseWrite
<1>5. CASE EndStream
  <2>1. run.i \in 1..Len(run.watch)
    BY <1>5, RunFields DEF EndStream, Scans
  <2>2. Scanned \in 0..Slots
    <3>1. Scanned \in Numbers
      BY <2>1, RunFields DEF Scanned
    <3> QED
      BY <3>1, NumbersFacts
  <2> QED
    BY <1>2, <1>5, <2>2 DEF EndStream
<1>6. CASE Drop
  <2>1. CASE run.drop = <<>>
    BY <1>1, <1>6, <2>1 DEF Drop
  <2>2. CASE run.drop # <<>>
    <3>1. Head(run.drop) \in 0..Slots
      <4>1. run.drop \in Seq(Numbers)
        BY RunFields
      <4>2. Head(run.drop) \in Numbers
        BY <2>2, <4>1
      <4> QED
        BY <4>2, NumbersFacts
    <3> QED
      BY <1>2, <1>6, <2>2, <3>1 DEF Drop
  <2> QED
    BY <2>1, <2>2
<1> QED
  BY <1>1, <1>3, <1>4, <1>5, <1>6, StreamFacts
  DEF Runner, Begin, Fork, Poll, Pass, Collect, Wait

(* The poller's own number stays its own: it touches no pipe end, and crosses nothing. *)
LEMMA PollerKeeps ==
  ASSUME TypeOK, SocketHeld, Poller
  PROVE  /\ SocketHeld' /\ UNCHANGED <<run, data, child, wrote>>
         /\ ~crossed => ~crossed'
         /\ \A m \in Numbers : \/ slots'[m] = slots[m]
                               \/ /\ slots[m].kind \notin {"read", "write"}
                                  /\ slots'[m].kind \notin {"read", "write"}
<1> DEFINE n == request.number
           Rest == \A m \in Numbers : \/ slots'[m] = slots[m]
                                      \/ /\ slots[m].kind \notin {"read", "write"}
                                         /\ slots'[m].kind \notin {"read", "write"}
<1>0. request \in Requests /\ n \in 0..Slots /\ 0 \notin Numbers
  BY NumbersFacts DEF TypeOK, Requests
<1>1. CASE OpenSocket
  <2>1. Lowest \in Numbers /\ slots[Lowest] = Free
    BY <1>1, LowestFree DEF OpenSocket
  <2>2. /\ slots'[Lowest] = Socket(request.n + 1)
        /\ \A m \in Numbers : m # Lowest => slots'[m] = slots[m]
    BY <1>1, <2>1 DEF OpenSocket, TypeOK
  <2>3. /\ request'.n = request.n + 1 /\ request'.pc = "write" /\ request'.number = Lowest
        /\ request'.holds = Free
    BY <1>1 DEF OpenSocket
  <2>4. request.pc = "idle"
    BY <1>1 DEF OpenSocket
  <2>5. SocketHeld'
    BY <2>1, <2>2, <2>3, <2>4, EndFields DEF SocketHeld
  <2>6. Rest
    BY <2>1, <2>2, EndFields
  <2> QED
    BY <1>1, <2>5, <2>6 DEF OpenSocket
<1>2. ASSUME request.pc # "idle"
      PROVE  n \in Numbers /\ slots[n] = Socket(request.n) /\ At(n) = Socket(request.n)
  BY <1>2 DEF SocketHeld, At
<1>3. CASE WriteRequest
  <2>1. At(n).kind = "socket"
    BY <1>2, <1>3, EndFields DEF WriteRequest
  <2>2. \E pc \in {"read", "close"} : request' = [request EXCEPT !.pc = pc]
    BY <1>3 DEF WriteRequest
  <2>3. request'.n = request.n /\ request'.number = n /\ request'.holds = request.holds
        /\ request'.pc # "idle" /\ request.pc # "idle"
    BY <1>0, <1>3, <2>2 DEF Requests, WriteRequest
  <2>4. UNCHANGED <<slots, run, data, child, wrote, crossed>>
    BY <1>3, <2>1 DEF WriteRequest
  <2>5. SocketHeld'
    BY <2>3, <2>4 DEF SocketHeld
  <2> QED
    BY <2>4, <2>5
<1>4. CASE CallRead
  <2>1. /\ request'.n = request.n /\ request'.number = n /\ request'.holds = At(n)
        /\ request'.pc # "idle" /\ request.pc # "idle"
        /\ UNCHANGED <<slots, run, data, child, wrote, crossed>>
    BY <1>0, <1>4 DEF Requests, CallRead
  <2>2. SocketHeld'
    BY <1>2, <2>1, EndFields DEF SocketHeld
  <2> QED
    BY <2>1, <2>2
<1>5. CASE ReadReturns
  <2>1. request.holds.kind \in {"free", "socket"}
    BY DEF SocketHeld
  <2>2. \E pc \in {"read", "close"} : request' = [request EXCEPT !.pc = pc, !.holds = Free]
    BY <1>5 DEF ReadReturns
  <2>3. /\ request'.n = request.n /\ request'.number = n /\ request'.holds = Free
        /\ request'.pc # "idle" /\ request.pc # "idle"
    BY <1>0, <1>5, <2>2 DEF Requests, ReadReturns
  <2>4. UNCHANGED <<slots, run, data, child, wrote, crossed>>
    BY <1>5, <2>1 DEF ReadReturns, Take
  <2>5. SocketHeld'
    BY <2>3, <2>4, EndFields DEF SocketHeld
  <2> QED
    BY <2>4, <2>5
<1>6. CASE CloseSocket
  <2>1. n \in Numbers /\ slots[n] = Socket(request.n) /\ At(n) = Socket(request.n) /\ request.pc = "close"
    BY <1>2, <1>6 DEF CloseSocket
  <2>2. \A m \in Numbers : slots'[m] = IF m = n THEN Free ELSE slots[m]
    BY <1>0, <1>6, Closed DEF CloseSocket
  <2>3. request'.pc = "idle" /\ request'.holds = request.holds
    BY <1>0, <1>6 DEF CloseSocket, Requests
  <2>4. ~crossed => ~crossed'
    BY <1>6, <2>1, EndFields DEF CloseSocket, Close, Mine
  <2>5. SocketHeld'
    BY <2>1, <2>2, <2>3, EndFields DEF SocketHeld
  <2>6. Rest
    BY <2>1, <2>2, EndFields
  <2> QED
    BY <1>6, <2>4, <2>5, <2>6 DEF CloseSocket
<1> QED
  BY <1>1, <1>3, <1>4, <1>5, <1>6 DEF Poller

(* Who crosses first. *)
LEMMA FirstCross ==
  ASSUME TypeOK, Uncrossed, Next, ~crossed, crossed'
  PROVE  /\ run.pc = "drop" /\ child.status # "none"
         /\ \E s \in Streams : Head(run.drop) = run.pipes[s].read
<1>1. \/ \E s \in Streams : \E from, to : CloseWrite(s, from, to) /\ from \in {"closeOut", "closeErr"}
      \/ EndStream \/ Drop
  <2>1. ~Poller
    BY PollerKeeps DEF Uncrossed
  <2> QED
    BY <2>1, StreamFacts DEF Next, Runner, Child, Begin, MakePipe, Fork, Poll, Pass, Collect, Wait,
       ChildWants, ChildWrites, ChildEnds, EngineAnswers, Over, vars
<1>2. ASSUME NEW n, Close("runner", n)
      PROVE  At(n) # Free /\ At(n).kind \notin {"read", "write"}
  BY <1>2 DEF Close, Mine
<1>3. ASSUME NEW s \in Streams, NEW from \in {"closeOut", "closeErr"}, NEW to, CloseWrite(s, from, to)
      PROVE  FALSE
  <2>1. run.pipes[s].write # 0 => slots[run.pipes[s].write] = End("write", Pipe(s))
    BY <1>3 DEF CloseWrite, Uncrossed, RunKept, EndsHeld, Within
  <2>2. run.pipes[s].write = 0 => At(run.pipes[s].write) = Free
    BY NumbersFacts DEF At
  <2>3. run.pipes[s].write # 0 => At(run.pipes[s].write) = End("write", Pipe(s))
    BY <2>1, RunFields DEF At, Numbers
  <2> QED
    BY <1>2, <1>3, <2>2, <2>3, EndFields DEF CloseWrite
<1>4. CASE EndStream
  <2>1. \E t \in Streams : At(Scanned) = End("read", Pipe(t))
    BY <1>4, ScannedIs DEF EndStream, Uncrossed
  <2> QED
    BY <1>2, <1>4, <2>1, EndFields DEF EndStream
<1>5. CASE Drop
  <2> DEFINE h == Head(run.drop)
  <2>1. run.pc = "drop" /\ run.drop # <<>> /\ Close("runner", h)
    BY <1>5 DEF Drop
  <2>2. 1 \in DOMAIN run.drop /\ h = run.drop[1] /\ h \in Numbers
    BY <2>1, RunFields
  <2>3. At(h).kind \notin {"read", "write"} /\ At(h) = slots[h]
    BY <1>2, <2>1, <2>2 DEF At
  <2>4. run.status # "failed"
    BY <2>1, <2>2, <2>3 DEF Uncrossed, RunKept, DropKnown
  <2>5. \E s \in Streams : h = run.pipes[s].read
    BY <2>1, <2>2, <2>4 DEF Uncrossed, RunKept, DropKnown
  <2>6. child.status # "none"
    BY <2>1, <2>4 DEF Uncrossed, RunKept, ChildKnown, PipesMade
  <2> QED
    BY <2>1, <2>5, <2>6
<1> QED
  BY <1>1, <1>3, <1>4, <1>5

(***************************************************************************)
(* The theorems.                                                           *)
(***************************************************************************)
LEMMA InvInit == Init => RunnerInv
<1> SUFFICES ASSUME Init PROVE RunnerInv
  OBVIOUS
<1>1. TypeOK
  BY TypeInit
<1>2. /\ run.n = 0 /\ run.pc = "idle" /\ run.status = "none" /\ run.watch = <<>>
      /\ run.text = NoOutput /\ wrote = NoOutput
      /\ \A s \in Streams : run.pipes[s].read = 0 /\ run.pipes[s].write = 0
      /\ ~child.alive /\ request.pc = "idle" /\ request.holds = Free
      /\ \A m \in Numbers : slots[m] = Free
      /\ \A p \in Pipes : data[p] = 0
  BY DEF Init, NoRun, NoPipe, NoChild, NoRequest
<1>3. Paired /\ SocketHeld /\ EndsHeld /\ EndsKnown /\ WatchedOnce /\ DropKnown
  BY <1>2, EndFields DEF Paired, SocketHeld, EndsHeld, EndsKnown, WatchedOnce, DropKnown, Before, Within
<1>4. PipesMade /\ ChildKnown /\ OutputKept
  BY <1>2, StreamFacts DEF PipesMade, ChildKnown, OutputKept, Captured, Within
<1> QED
  BY <1>1, <1>3, <1>4 DEF RunnerInv, Uncrossed, RunKept

LEMMA InvStep == RunnerInv /\ [Next]_vars => RunnerInv'
<1> SUFFICES ASSUME RunnerInv, [Next]_vars
             PROVE  RunnerInv'
  OBVIOUS
<1>1. TypeOK /\ Paired
  BY DEF RunnerInv
<1>2. TypeOK'
  BY <1>1, RunnerTypes, OtherTypes DEF Next
<1>3. Paired'
  BY <1>1, PairedStep
<1>4. ASSUME ~crossed'
      PROVE  Uncrossed'
  <2>1. CASE Runner
    <3>1. /\ ~crossed /\ request' = request
          /\ \A m \in Numbers : \/ slots'[m] = slots[m]
                                \/ slots[m].kind # "socket" /\ slots'[m].kind # "socket"
      BY <1>1, <1>4, <2>1, RunnerSlots
    <3>2. SocketHeld /\ RunKept
      BY <3>1 DEF RunnerInv, Uncrossed
    <3>3. SocketHeld'
      <4>1. ASSUME NEW m \in Numbers, slots[m].kind = "socket" \/ slots'[m].kind = "socket"
            PROVE  slots'[m] = slots[m]
        BY <3>1, <4>1
      <4>2. request.pc # "idle" => slots[request.number].kind = "socket"
        BY <3>2, EndFields DEF SocketHeld
      <4> QED
        BY <3>1, <3>2, <4>1, <4>2 DEF SocketHeld
    <3>4. RunKept'
      BY <1>1, <2>1, <3>2, BeginKeeps, MakePipeKeeps, ForkKeeps, CloseWriteKeeps, PollKeeps, PassKeeps,
         CollectKeeps, EndStreamKeeps, WaitKeeps, DropKeeps DEF Runner
    <3> QED
      BY <3>3, <3>4 DEF Uncrossed
  <2>2. CASE Child
    <3>1. UNCHANGED <<slots, request, crossed>>
      BY <2>2 DEF Child, ChildWants, ChildWrites, ChildEnds
    <3>2. SocketHeld /\ RunKept
      BY <1>4, <3>1 DEF RunnerInv, Uncrossed
    <3>3. SocketHeld'
      BY <3>1, <3>2 DEF SocketHeld
    <3> QED
      BY <1>1, <2>2, <3>2, <3>3, ChildKeeps DEF Uncrossed
  <2>3. CASE Poller
    <3>1. ~crossed
      BY <1>4, <2>3 DEF Poller, OpenSocket, WriteRequest, CallRead, ReadReturns, CloseSocket, Close
    <3>2. SocketHeld /\ RunKept
      BY <3>1 DEF RunnerInv, Uncrossed
    <3> QED
      BY <1>1, <1>2, <2>3, <3>2, PollerKeeps, ElsewhereKeeps DEF Uncrossed
  <2>4. CASE EngineAnswers \/ Over \/ UNCHANGED vars
    <3>1. UNCHANGED <<slots, data, run, child, request, wrote, crossed>>
      BY <2>4 DEF EngineAnswers, Over, vars
    <3>2. SocketHeld /\ RunKept
      BY <1>4, <3>1 DEF RunnerInv, Uncrossed
    <3>3. SocketHeld'
      BY <3>1, <3>2 DEF SocketHeld
    <3> QED
      BY <1>1, <1>2, <3>1, <3>2, <3>3, ElsewhereKeeps DEF Uncrossed
  <2> QED
    BY <2>1, <2>2, <2>3, <2>4 DEF Next
<1> QED
  BY <1>2, <1>3, <1>4 DEF RunnerInv

LEMMA RunnerInvariant == Spec => []RunnerInv
<1>1. Init => RunnerInv
  BY InvInit
<1>2. RunnerInv /\ [Next]_vars => RunnerInv'
  BY InvStep
<1> QED
  BY <1>1, <1>2, PTL DEF Spec

(* Whatever fails, and whenever the command ends, run() and request() leave no descriptor open,
   as long as none was crossed (the early returns of ProcessRunner::run, ~Pipe, the loop's close
   at the end of a stream). *)
THEOREM NothingLeftOpen == Spec => []NoneLeftOpen
<1>1. RunnerInv => NoneLeftOpen
  <2> SUFFICES ASSUME RunnerInv, run.pc = "idle", request.pc = "idle", ~crossed
               PROVE  FreeNumbers = Numbers
    BY DEF NoneLeftOpen
  <2>1. TypeOK /\ SocketHeld /\ EndsKnown
    BY DEF RunnerInv, Uncrossed, RunKept
  <2>2. ASSUME NEW m \in Numbers
        PROVE  slots[m] = Free
    <3>1. slots[m] \in Ends
      BY <2>1, RunFields
    <3>2. slots[m].kind \notin {"read", "write", "socket"}
      BY <2>1 DEF SocketHeld, EndsKnown, Before, Within
    <3> QED
      BY <3>1, <3>2, EndFacts
  <2> QED
    BY <2>2 DEF FreeNumbers
<1> QED
  BY <1>1, RunnerInvariant, PTL

(* A captured command's result is all it wrote, on the stream it wrote it, with its status: no
   interleaving of its output, its end and the two threads loses a unit or takes one twice (the
   poll loop and waitpid of ProcessRunner::run). *)
THEOREM OutputIsWhole == Spec => []OutputWhole
<1>1. RunnerInv => OutputWhole
  <2> SUFFICES ASSUME RunnerInv, run.pc = "idle", Captured, run.status # "failed", ~crossed
               PROVE  run.text = wrote /\ run.status = child.status
    BY DEF OutputWhole
  <2>1. TypeOK /\ PipesMade /\ ChildKnown /\ OutputKept
    BY DEF RunnerInv, Uncrossed, RunKept
  <2>2. run.status # "none"
    BY <2>1 DEF PipesMade
  <2>3. run.status = child.status
    BY <2>1, <2>2 DEF ChildKnown
  <2>4. CASE run.n = 0
    BY <2>1, <2>3, <2>4 DEF OutputKept
  <2>5. CASE run.n # 0
    <3>1. run.n > 0
      BY <2>1, <2>5, RunFields
    <3>2. ASSUME NEW s \in Streams
          PROVE  run.text[s] = wrote[s]
      <4>1. data[Pipe(s)] = 0 /\ run.text[s] + data[Pipe(s)] = wrote[s]
        BY <2>1, <3>1 DEF OutputKept
      <4>2. run.text[s] \in Nat
        BY <2>1, RunFields
      <4> QED
        BY <4>1, <4>2
    <3>3. run.text \in [Streams -> Nat] /\ wrote \in [Streams -> Nat]
      BY <2>1, RunFields DEF TypeOK
    <3>4. run.text = wrote
      BY <3>2, <3>3
    <3> QED
      BY <2>3, <3>4
  <2> QED
    BY <2>4, <2>5
<1> QED
  BY <1>1, RunnerInvariant, PTL

(* The first close of the other thread's descriptor is one of ~Pipe, of a read end that the loop
   has closed already. *)
THEOREM CrossingKnown == Spec => CrossesOnlyInDrop
<1>1. RunnerInv /\ [Next]_vars =>
          [crossed' /\ ~crossed => /\ run.pc = "drop" /\ child.status # "none"
                                   /\ \E s \in Streams : Head(run.drop) = run.pipes[s].read]_vars
  <2> SUFFICES ASSUME RunnerInv, Next, crossed', ~crossed
               PROVE  /\ run.pc = "drop" /\ child.status # "none"
                      /\ \E s \in Streams : Head(run.drop) = run.pipes[s].read
    BY DEF vars
  <2>1. TypeOK /\ Uncrossed
    BY DEF RunnerInv
  <2> QED
    BY <2>1, FirstCross
<1> QED
  BY <1>1, RunnerInvariant, PTL DEF Spec, CrossesOnlyInDrop
================================================================================
