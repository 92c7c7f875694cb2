-------------------------- MODULE TuxreaperdProofs --------------------------
(***************************************************************************)
(* Theorems about Tuxreaperd for every number of processes, every set of   *)
(* forwarded signals, every set of programs and every deadline.            *)
(***************************************************************************)
EXTENDS Tuxreaperd, TLAPS, SequenceTheorems, FiniteSetTheorems,
        WellFoundedInduction

(* The naturals are well-ordered, in the form of the library. *)
LEMMA NatMinimal ==
  ASSUME NEW S \in SUBSET Nat, S # {}
  PROVE  \E x \in S : \A y \in S : <<y, x>> \notin OpToRel(<, Nat)
BY NatLessThanWellFounded, WFMin

(* A non-empty set of naturals has its Least. *)
LEMMA LeastIn ==
  ASSUME NEW S \in SUBSET Nat, S # {}
  PROVE  Least(S) \in S /\ \A y \in S : Least(S) <= y
<1>1. PICK x \in S : \A y \in S : <<y, x>> \notin OpToRel(<, Nat)
  BY NatMinimal
<1>2. \A a, b \in Nat : a < b => <<a, b>> \in OpToRel(<, Nat)
  BY DEF OpToRel
<1>3. ASSUME NEW y \in S PROVE x <= y
  <2>1. ~ (y < x)
    BY <1>1, <1>2
  <2> QED
    BY <2>1
<1> QED
  BY <1>3 DEF Least

(* What a rule table can translate a signal to. *)
LEMMA OutSigCases ==
  ASSUME NEW sig, NEW exe
  PROVE  /\ OutSig(sig, exe) \in {sig, WINCH, QUIT}
         /\ sig # TERM => OutSig(sig, exe) = sig
<1>1. CASE sig # TERM
  BY <1>1 DEF OutSig, RulesFor
<1>2. CASE sig = TERM
  <2> DEFINE rules == <<ApacheRule, NginxRule, PhpFpmRule>>
             hits == {r \in 1..3 : Matches(rules[r], exe)}
  <2>1. OutSig(sig, exe) = IF hits = {} THEN sig
                           ELSE rules[CHOOSE r \in hits : \A q \in hits : r <= q].out
    BY <1>2 DEF OutSig, RulesFor
  <2>2. CASE hits # {}
    <3>1. Least(hits) \in 1..3
      BY <2>2, LeastIn
    <3>2. \A r \in 1..3 : rules[r].out \in {WINCH, QUIT}
      BY DEF ApacheRule, NginxRule, PhpFpmRule
    <3> QED
      BY <1>2, <2>1, <2>2, <3>1, <3>2 DEF Least
  <2> QED
    BY <1>2, <2>1, <2>2
<1> QED
  BY <1>1, <1>2

(* The facts about the constants that the proofs below use. *)
LEMMA ConstantFacts ==
  /\ Signals \subseteq 1..31
  /\ CHLD \notin Signals
  /\ Signals \cup {CHLD} \subseteq 1..31
  /\ StatusZero \in WaitStatuses
  /\ \A st \in WaitStatuses : ExitCode(st) \in 0..NotExited
  /\ Pids \subseteq Nat
  /\ NoPid \notin Pids /\ Init1 \notin Pids
<1>1. \A st \in WaitStatuses : ExitCode(st) \in 0..NotExited
  <2> SUFFICES ASSUME NEW st \in WaitStatuses
               PROVE  ExitCode(st) \in 0..NotExited
    OBVIOUS
  <2>1. CASE st \in {"exit"} \X (0..255)
    BY <2>1 DEF ExitCode, NotExited
  <2>2. CASE st \in {"signal"} \X (1..64)
    BY <2>2 DEF ExitCode, NotExited
  <2> QED
    BY <2>1, <2>2 DEF WaitStatuses
<1> QED
  BY <1>1, SizesAssumption, SignalsAssumption
  DEF Forwarded, TERM, QUIT, INT, HUP, USR1, USR2, CHLD, StatusZero,
      WaitStatuses, Pids, NoPid, Init1

LEMMA TypeInit == Init => TypeOK
<1> SUFFICES ASSUME Init PROVE TypeOK
  OBVIOUS
<1>1. KernelType
  BY ConstantFacts DEF Init, KernelType
<1>2. GlobalsType
  <2>1. <<>> \in Seq(FrameType) /\ DOMAIN <<>> = {}
    BY EmptySeq, LenProperties
  <2> QED
    BY <2>1, ConstantFacts DEF Init, GlobalsType
<1>3. LocalsType
  BY SizesAssumption DEF Init, LocalsType, PCs, Startup, NotExited
<1> QED
  BY <1>1, <1>2, <1>3 DEF TypeOK

LEMMA EnvironmentType ==
  ASSUME TypeOK, Environment
  PROVE  TypeOK'
<1> USE DEF TypeOK
<1>1. GlobalsType' /\ LocalsType'
  BY DEF Environment, ProcForks, DockerExec, ProcExecs, ProcExits, ParentReaps,
         SendSignal, globals, locals, GlobalsType, LocalsType
<1>2. ASSUME NEW p \in Pids, NEW par \in Pids \cup {NoPid, Init1},
             NEW img \in Images, Spawn(p, par, img),
             UNCHANGED <<status, kpending, got>>
      PROVE  KernelType'
  <2>1. <<img>> \in Seq(Images) /\ <<img>> # <<>>
    OBVIOUS
  <2> QED
    BY <1>2, <2>1 DEF KernelType, Spawn
<1>3. ASSUME NEW q \in Pids, proc[q] = "live"
      PROVE  Exe(q) \in Images
  BY <1>3 DEF KernelType, Exe
<1>4. ASSUME NEW q \in Pids, ProcForks(q) PROVE KernelType'
  BY <1>2, <1>3, <1>4 DEF ProcForks
<1>5. ASSUME DockerExec PROVE KernelType'
  BY <1>2, <1>5 DEF DockerExec, Images
<1>6. ASSUME NEW p \in Pids, ProcExecs(p) PROVE KernelType'
  <2>1. PICK e \in Programs \ {Exe(p)} : image' = [image EXCEPT ![p] = Append(@, e)]
    BY <1>6 DEF ProcExecs
  <2>2. Append(image[p], e) \in Seq(Images) /\ Append(image[p], e) # <<>>
    BY DEF KernelType, Images
  <2> QED
    BY <1>6, <2>1, <2>2 DEF ProcExecs, KernelType
<1>7. ASSUME NEW p \in Pids, NEW st \in Statuses[p], ProcExits(p, st)
      PROVE  KernelType'
  <2>1. st \in WaitStatuses
    BY StatusesAssumption
  <2> QED
    BY <1>7, <2>1 DEF ProcExits, KernelType, Orphans
<1>8. ASSUME NEW p \in Pids, ParentReaps(p) PROVE KernelType'
  BY <1>8 DEF ParentReaps, KernelType
<1>9. ASSUME NEW s \in Signals, SendSignal(s) PROVE KernelType'
  BY <1>9 DEF SendSignal, KernelType
<1> QED
  BY <1>1, <1>4, <1>5, <1>6, <1>7, <1>8, <1>9 DEF Environment

(* Pushing or popping a frame of the handler stack keeps its type. *)
LEMMA FramesType ==
  ASSUME GlobalsType
  PROVE  /\ FrameSignals \subseteq Signals \cup {CHLD}
         /\ frames # <<>> => Head(frames) \in FrameType /\ Tail(frames) \in Seq(FrameType)
         /\ frames # <<>> => 1 \in DOMAIN frames /\ Head(frames) = frames[1]
         /\ frames # <<>> =>
              \A i \in DOMAIN Tail(frames) :
                i + 1 \in DOMAIN frames /\ Tail(frames)[i] = frames[i + 1]
<1>1. DOMAIN frames = 1..Len(frames) /\ \A i \in DOMAIN frames : frames[i] \in FrameType
  BY LenProperties, ElementOfSeq DEF GlobalsType
<1>2. FrameSignals \subseteq Signals \cup {CHLD}
  BY <1>1 DEF FrameSignals, FrameType
<1>3. ASSUME frames # <<>>
      PROVE  /\ Head(frames) \in FrameType /\ Tail(frames) \in Seq(FrameType)
             /\ 1 \in DOMAIN frames /\ Head(frames) = frames[1]
             /\ \A i \in DOMAIN Tail(frames) :
                  i + 1 \in DOMAIN frames /\ Tail(frames)[i] = frames[i + 1]
  BY <1>1, <1>3, HeadTailProperties DEF GlobalsType
<1> QED
  BY <1>2, <1>3

(* A handler frame as it is pushed. *)
LEMMA FrameIsFrame ==
  ASSUME NEW s \in Signals \cup {CHLD}
  PROVE  Frame(s) \in FrameType /\ ~Frame(s).loaded /\ Frame(s).sig = s
BY DEF Frame, FrameType

LEMMA DeliveryType ==
  ASSUME TypeOK, NEW s \in Signals \cup {CHLD}, Deliver(s)
  PROVE  TypeOK'
<1> DEFINE f == <<Frame(s)>> \o frames
<1>1. f \in Seq(FrameType) /\ \A i \in DOMAIN f : f[i].loaded => f[i].sig # CHLD
  <2>1. <<Frame(s)>> \in Seq(FrameType) /\ Len(<<Frame(s)>>) = 1 /\ <<Frame(s)>>[1] = Frame(s)
    BY FrameIsFrame
  <2>2. /\ f \in Seq(FrameType) /\ Len(f) = 1 + Len(frames)
        /\ \A i \in 1..(1 + Len(frames)) : f[i] = IF i <= 1 THEN Frame(s) ELSE frames[i - 1]
    <3> HIDE DEF f
    <3> QED
      BY <2>1, ConcatProperties DEF TypeOK, GlobalsType, f
  <2>3. DOMAIN f = 1..(1 + Len(frames)) /\ DOMAIN frames = 1..Len(frames)
        /\ Len(frames) \in Nat
    BY <2>2, LenProperties DEF TypeOK, GlobalsType
  <2>4. ASSUME NEW i \in DOMAIN f, f[i].loaded PROVE f[i].sig # CHLD
    <3>1. CASE i <= 1
      BY <2>2, <2>3, <2>4, <3>1, FrameIsFrame
    <3>2. CASE i > 1
      <4>1. i - 1 \in DOMAIN frames /\ f[i] = frames[i - 1]
        BY <2>2, <2>3, <3>2
      <4> QED
        BY <2>4, <4>1 DEF TypeOK, GlobalsType
    <3> QED
      BY <2>3, <3>1, <3>2
  <2> QED
    BY <2>2, <2>4
<1>2. GlobalsType'
  BY <1>1 DEF Deliver, TypeOK, GlobalsType
<1>3. KernelType' /\ LocalsType'
  BY DEF Deliver, TypeOK, KernelType, LocalsType, locals
<1> QED
  BY <1>2, <1>3 DEF TypeOK

LEMMA HandlerType ==
  ASSUME TypeOK, Handler
  PROVE  TypeOK'
<1> USE DEF TypeOK
<1>1. CASE ProxyLoad
  <2> DEFINE g == [frames[1] EXCEPT !.loaded = TRUE, !.reg = gPending]
  <2>1. frames # <<>> /\ Head(frames).sig # CHLD
    BY <1>1 DEF ProxyLoad
  <2>2. frames[1] \in FrameType /\ frames[1].sig # CHLD
    BY <2>1, FramesType
  <2>3. g \in FrameType /\ g.sig # CHLD
    BY <2>2 DEF FrameType, GlobalsType
  <2>4. frames' = [frames EXCEPT ![1] = g]
    BY <1>1 DEF ProxyLoad
  <2>5. DOMAIN frames = 1..Len(frames) /\ 1 \in 1..Len(frames)
    BY <2>1, FramesType, LenProperties DEF GlobalsType
  <2>6. /\ frames' \in Seq(FrameType)
        /\ \A i \in DOMAIN frames' : frames'[i].loaded => frames'[i].sig # CHLD
    <3> HIDE DEF g
    <3>1. frames' \in Seq(FrameType)
      BY <2>3, <2>4, <2>5, ExceptSeq DEF GlobalsType
    <3>2. DOMAIN frames' = DOMAIN frames
      BY <2>4
    <3>3. \A i \in DOMAIN frames : frames'[i] = IF i = 1 THEN g ELSE frames[i]
      BY <2>4
    <3> QED
      BY <2>3, <3>1, <3>2, <3>3 DEF GlobalsType
  <2>7. UNCHANGED <<kernel, gPending, gChildExited, gStatus, gMain, pc, locals>>
    BY <1>1 DEF ProxyLoad
  <2> QED
    BY <2>6, <2>7 DEF GlobalsType, KernelType, LocalsType, kernel, locals
<1>2. CASE ProxyStore
  <2>1. frames # <<>> /\ Head(frames).loaded
    BY <1>2 DEF ProxyStore
  <2>2. Head(frames) \in FrameType /\ Head(frames).sig # CHLD
    BY <2>1, FramesType DEF GlobalsType
  <2>3. Head(frames).reg \cup {Head(frames).sig} \in SUBSET Signals
    BY <2>2 DEF FrameType
  <2>4. /\ Tail(frames) \in Seq(FrameType)
        /\ \A i \in DOMAIN Tail(frames) : Tail(frames)[i].loaded => Tail(frames)[i].sig # CHLD
    BY <2>1, FramesType DEF GlobalsType
  <2> QED
    BY <1>2, <2>3, <2>4 DEF ProxyStore, GlobalsType, KernelType, LocalsType, kernel, locals
<1>3. CASE SigchldHandler
  <2>1. /\ Tail(frames) \in Seq(FrameType)
        /\ \A i \in DOMAIN Tail(frames) : Tail(frames)[i].loaded => Tail(frames)[i].sig # CHLD
    BY <1>3, FramesType DEF GlobalsType, SigchldHandler
  <2>2. GlobalsType'
    BY <1>3, <2>1 DEF SigchldHandler, NoteMain, GlobalsType, KernelType, Waitable
  <2>3. KernelType' /\ LocalsType'
    BY <1>3 DEF SigchldHandler, ReapAll, KernelType, LocalsType, Waitable, locals
  <2> QED
    BY <2>2, <2>3
<1> QED
  BY <1>1, <1>2, <1>3 DEF Handler

(* The stack the kernel builds when sigsuspend is woken. *)
LEMMA StackingsType ==
  ASSUME NEW S \in SUBSET (Signals \cup {CHLD}), NEW f \in Stackings(S)
  PROVE  /\ f \in Seq(FrameType)
         /\ \A i \in DOMAIN f : ~f[i].loaded
         /\ \A s \in S : \E i \in DOMAIN f : f[i].sig = s
<1>1. Cardinality(S) \in Nat
  <2>1. S \in SUBSET Nat /\ \A s \in S : s <= 31
    BY ConstantFacts
  <2> QED
    BY <2>1, FS_BoundedSetOfNaturals, FS_CardinalityType
<1>2. f \in [1..Cardinality(S) -> {Frame(s) : s \in S}]
  BY DEF Stackings
<1>3. {Frame(s) : s \in S} \subseteq FrameType
  BY FrameIsFrame
<1>4. f \in Seq({Frame(s) : s \in S})
  BY <1>1, <1>2, SeqDef
<1>5. f \in Seq(FrameType)
  BY <1>3, <1>4, SeqMonotonic
<1>6. \A i \in DOMAIN f : ~f[i].loaded
  BY <1>2 DEF Frame
<1> QED
  BY <1>5, <1>6 DEF Stackings

(* The names of the program points. *)
LEMMA PointsType ==
  /\ LoopTop \in PCs
  /\ {"handlers", "drainZ", "handle", "next", "exited", "suspend"} \subseteq PCs
  /\ Startup \subseteq PCs /\ Scanning \subseteq PCs /\ Draining \subseteq PCs
BY DEF LoopTop, PCs, Draining

LEMMA MainType ==
  ASSUME TypeOK, Main
  PROVE  TypeOK'
<1> USE TypeOK DEF TypeOK
<1>1. ASSUME NEW code \in 0..NotExited, Leave(code) PROVE TypeOK'
  BY <1>1, PointsType DEF Leave, KernelType, GlobalsType, LocalsType, globals, Existing
<1>2. CASE BootFails
  BY <1>1, <1>2 DEF BootFails, NotExited
<1>3. CASE InstallHandlers
  BY <1>3 DEF InstallHandlers, KernelType, GlobalsType, LocalsType, kernel,
              globals, locals, PCs, Startup
<1>4. CASE BlockSignals
  BY <1>4 DEF BlockSignals, KernelType, GlobalsType, LocalsType, kernel,
              globals, locals, PCs, Startup
<1>5. CASE ForkMain
  <2>1. PICK p \in Pids : Spawn(p, Init1, Self) /\ gMain' = p
    BY <1>5 DEF ForkMain
  <2>2. <<Self>> \in Seq(Images) /\ <<Self>> # <<>>
    BY DEF Images
  <2>3. KernelType'
    BY <1>5, <2>1, <2>2 DEF ForkMain, Spawn, KernelType
  <2>4. GlobalsType' /\ LocalsType'
    BY <1>5, <2>1, PointsType DEF ForkMain, GlobalsType, LocalsType, locals
  <2> QED
    BY <2>3, <2>4
<1>6. CASE ForkMainFails
  <2>1. CASE Libc
    BY <1>1, <1>6, <2>1 DEF ForkMainFails, NotExited
  <2>2. CASE ~Libc
    BY <1>6, <2>2, PointsType DEF ForkMainFails, KernelType, GlobalsType,
                                  LocalsType, kernel, globals, locals
  <2> QED
    BY <2>1, <2>2
<1>7. CASE Wake
  <2>1. frames' \in Stackings(kpending) /\ kpending \subseteq Signals \cup {CHLD}
    BY <1>7 DEF Wake, KernelType
  <2>2. GlobalsType'
    BY <1>7, <2>1, StackingsType DEF Wake, GlobalsType
  <2>3. KernelType' /\ LocalsType'
    BY <1>7, PointsType DEF Wake, KernelType, LocalsType, locals
  <2> QED
    BY <2>2, <2>3
<1>8. CASE SigsuspendReturns
  BY <1>8, PointsType DEF SigsuspendReturns, KernelType, GlobalsType, LocalsType,
                          kernel, globals, locals
<1>9. ASSUME NEW from, NEW to \in PCs, DrainZombies(from, to) PROVE TypeOK'
  BY <1>9 DEF DrainZombies, ReapAll, KernelType, GlobalsType, LocalsType,
              globals, locals, Waitable
<1>10. CASE DrainZombies("drainZ", "handle") \/ DrainZombies("drain", "count")
  BY <1>9, <1>10, PointsType DEF Draining
<1>11. CASE HandlePending
  BY <1>11, PointsType DEF HandlePending, KernelType, GlobalsType, LocalsType, kernel
<1>12. CASE NextSignal
  <2>1. Least(todo) \in todo
    BY <1>12, LeastIn, ConstantFacts DEF NextSignal, LocalsType
  <2> QED
    BY <1>12, <2>1, PointsType DEF NextSignal, KernelType, GlobalsType, LocalsType,
                                   kernel, globals, Scanning
<1>13. CASE HandledAll
  BY <1>13, PointsType DEF HandledAll, KernelType, GlobalsType, LocalsType,
                           kernel, globals, locals
<1>14. CASE OpenProc
  <2>1. at' \in 0..MaxPid
    BY <1>14, SizesAssumption DEF OpenProc
  <2>2. KernelType' /\ GlobalsType'
    BY <1>14 DEF OpenProc, KernelType, GlobalsType, kernel, globals
  <2> QED
    BY <1>14, <2>1, <2>2, PointsType DEF OpenProc, LocalsType, Scanning, Draining
<1>15. CASE OpenProcFails
  <2>1. at' \in 0..MaxPid
    BY <1>15, SizesAssumption DEF OpenProcFails
  <2>2. KernelType' /\ GlobalsType'
    BY <1>15 DEF OpenProcFails, KernelType, GlobalsType, kernel, globals
  <2> QED
    BY <1>15, <2>1, <2>2, PointsType DEF OpenProcFails, LocalsType, Scanning, Draining, Live
<1>16. CASE ReadDir
  <2>1. Least(ToList) \in Pids
    BY <1>16, LeastIn, ConstantFacts DEF ReadDir, ToList, Existing
  <2>2. at' \in 0..MaxPid
    BY <1>16, <2>1, SizesAssumption DEF ReadDir, Pids
  <2>3. KernelType' /\ GlobalsType'
    BY <1>16 DEF ReadDir, KernelType, GlobalsType, kernel, globals
  <2> QED
    BY <1>16, <2>1, <2>2, <2>3 DEF ReadDir, LocalsType
<1>17. CASE ReadDirEnds
  <2>1. at' \in 0..MaxPid
    BY <1>17, SizesAssumption DEF ReadDirEnds
  <2>2. KernelType' /\ GlobalsType'
    BY <1>17 DEF ReadDirEnds, KernelType, GlobalsType, kernel, globals
  <2> QED
    BY <1>17, <2>1, <2>2, PointsType DEF ReadDirEnds, LocalsType, Scanning, Draining, Live
<1>18. CASE ReadLink
  <2>1. OutSig(cur, Exe(Least(entries))) \in 0..31
    BY OutSigCases, ConstantFacts DEF LocalsType, WINCH, QUIT
  <2> QED
    BY <1>18, <2>1, PointsType DEF ReadLink, KernelType, GlobalsType, LocalsType,
                                   kernel, globals, Scanning
<1>19. CASE Kill
  <2>1. \A p : p \in Existing => p \in Pids
    BY DEF Existing
  <2>2. got' \in [Pids -> SUBSET (0..31)]
    BY <1>19 DEF Kill, KernelType, LocalsType
  <2> QED
    BY <1>19, <2>1, <2>2, PointsType DEF Kill, KernelType, GlobalsType, LocalsType,
                                         globals, Scanning
<1>20. CASE SecondSweep
  BY <1>20, PointsType DEF SecondSweep, KernelType, GlobalsType, LocalsType,
                           kernel, globals, Scanning, Live
<1>21. CASE BroadcastEnds
  BY <1>21, PointsType DEF BroadcastEnds, KernelType, GlobalsType, LocalsType,
                           kernel, globals
<1>22. CASE ExitDrained
  BY <1>1, <1>22, ConstantFacts DEF ExitDrained, GlobalsType
<1>23. CASE Poll
  <2>1. polls' \in 0..DrainPolls
    BY <1>23, SizesAssumption DEF Poll, Expired, LocalsType
  <2>2. KernelType' /\ GlobalsType'
    BY <1>23 DEF Poll, KernelType, GlobalsType, kernel, globals
  <2> QED
    BY <1>23, <2>1, <2>2, PointsType DEF Poll, LocalsType
<1>24. CASE BufferFull \/ NextBuffer
  BY <1>24, PointsType DEF BufferFull, NextBuffer, KernelType, GlobalsType, LocalsType,
                           kernel, globals, locals, Scanning
<1> QED
  BY <1>2, <1>3, <1>4, <1>5, <1>6, <1>7, <1>8, <1>10, <1>11, <1>12, <1>13, <1>14,
     <1>15, <1>16, <1>17, <1>18, <1>19, <1>20, <1>21, <1>22, <1>23, <1>24 DEF Main

LEMMA StutterType ==
  ASSUME TypeOK, UNCHANGED vars
  PROVE  TypeOK'
BY DEF TypeOK, KernelType, GlobalsType, LocalsType, vars, kernel, globals, locals

LEMMA TypeStep == TypeOK /\ [Next]_vars => TypeOK'
<1> SUFFICES ASSUME TypeOK, [Next]_vars PROVE TypeOK'
  OBVIOUS
<1> QED
  BY EnvironmentType, DeliveryType, HandlerType, MainType, StutterType
  DEF Next, Delivery, Exited

(* Every variable keeps its type: the record holds forwarded signals only, the
   exit code is a byte, the polls stop at the deadline, whatever the processes
   of the container do and whenever signals arrive. *)
THEOREM TypeCorrect == Spec => []TypeOK
<1> QED
  BY TypeInit, TypeStep, PTL DEF Spec

------------------------------------------------------------------------------
(* Handlers run only where signals are not blocked. *)

FramesWhere == frames # <<>> => pc \in {"installed", "handlers"}

LEMMA FramesWhereStep ==
  ASSUME TypeOK, FramesWhere, [Next]_vars
  PROVE  FramesWhere'
<1> USE FramesWhere DEF FramesWhere
<1>1. CASE Environment
  BY <1>1 DEF Environment, ProcForks, DockerExec, ProcExecs, ProcExits,
              ParentReaps, SendSignal, globals
<1>2. CASE Delivery
  BY <1>2 DEF Delivery, Deliver
<1>3. CASE Handler
  BY <1>3 DEF Handler, ProxyLoad, ProxyStore, SigchldHandler
<1>4. CASE Main
  <2>1. frames = <<>> \/ pc \in {"installed", "handlers"}
    OBVIOUS
  <2>2. CASE Wake \/ SigsuspendReturns \/ BlockSignals \/ InstallHandlers
    BY <2>2 DEF Wake, SigsuspendReturns, BlockSignals, InstallHandlers, globals
  <2>3. ASSUME ~(Wake \/ SigsuspendReturns \/ BlockSignals \/ InstallHandlers)
        PROVE  frames' = frames /\ pc \notin {"installed", "handlers"}
    BY <1>4, <2>3
    DEF Main, BootFails, Leave, ForkMain, ForkMainFails, DrainZombies,
        HandlePending, NextSignal, HandledAll, OpenProc, OpenProcFails, ReadDir,
        BufferFull, NextBuffer, ReadDirEnds, ReadLink, Kill, SecondSweep,
        BroadcastEnds, ExitDrained, Poll, globals
  <2> QED
    BY <2>1, <2>2, <2>3
<1>5. CASE UNCHANGED vars
  BY <1>5 DEF vars, globals
<1> QED
  BY <1>1, <1>2, <1>3, <1>4, <1>5 DEF Next, Exited

------------------------------------------------------------------------------
(* No zombie without a SIGCHLD. *)

(* Every step but the two that reap keeps the announcement: the signal is
   pending, or moves to the handler stack, and leaves it only by reaping. *)
LEMMA AnnouncedStep ==
  ASSUME TypeOK, FramesWhere, ZombieAnnounced, [Next]_vars
  PROVE  ZombieAnnounced'
<1> USE TypeOK, ZombieAnnounced DEF TypeOK, ZombieAnnounced
<1>1. ASSUME UNCHANGED <<proc, parent, kpending, frames>>
      PROVE  ZombieAnnounced'
  BY <1>1 DEF Waitable, FrameSignals
<1>2. ASSUME NEW p \in Pids, NEW par, NEW img, Fresh(p), Spawn(p, par, img),
             UNCHANGED <<kpending, frames>>
      PROVE  ZombieAnnounced'
  BY <1>2 DEF Waitable, FrameSignals, Fresh, Spawn, KernelType
<1>3. ASSUME Waitable' = {} PROVE ZombieAnnounced'
  BY <1>3
<1>4. ASSUME ReapAll, UNCHANGED parent PROVE Waitable' = {}
  BY <1>4 DEF ReapAll, Waitable, KernelType
<1>5. ASSUME NEW code, Leave(code) PROVE Waitable' = {}
  BY <1>5 DEF Leave, Waitable, Existing, KernelType
<1>6. CASE Environment
  <2>1. ASSUME NEW q \in Pids, ProcForks(q) PROVE ZombieAnnounced'
    BY <1>2, <2>1 DEF ProcForks, globals
  <2>2. ASSUME NEW p \in Pids, ProcExecs(p) PROVE ZombieAnnounced'
    BY <1>1, <2>2 DEF ProcExecs, globals
  <2>3. ASSUME NEW p \in Pids, ParentReaps(p) PROVE ZombieAnnounced'
    BY <2>3 DEF ParentReaps, globals, Waitable, FrameSignals, KernelType
  <2>4. ASSUME NEW p \in Pids, NEW st \in Statuses[p], ProcExits(p, st)
        PROVE  ZombieAnnounced'
    BY <2>4 DEF ProcExits, globals, FrameSignals
  <2>5. CASE DockerExec
    BY <1>2, <2>5 DEF DockerExec, globals
  <2>6. ASSUME NEW s \in Signals, SendSignal(s) PROVE ZombieAnnounced'
    BY <2>6 DEF SendSignal, globals, Waitable, FrameSignals
  <2> QED
    BY <1>6, <2>1, <2>2, <2>3, <2>4, <2>5, <2>6 DEF Environment
<1>7. ASSUME NEW s \in Signals \cup {CHLD}, Deliver(s) PROVE ZombieAnnounced'
  <2>1. {s} \cup FrameSignals \subseteq FrameSignals'
    <3>1. frames \in Seq(FrameType) /\ frames' = <<Frame(s)>> \o frames
      BY <1>7 DEF Deliver, GlobalsType
    <3>2. <<Frame(s)>> \in Seq(FrameType) /\ Len(<<Frame(s)>>) = 1
          /\ <<Frame(s)>>[1] = Frame(s)
      BY FrameIsFrame
    <3>3. /\ Len(frames') = 1 + Len(frames) /\ frames' \in Seq(FrameType)
          /\ \A i \in 1..(1 + Len(frames)) :
               frames'[i] = IF i <= 1 THEN Frame(s) ELSE frames[i - 1]
      BY <3>1, <3>2, ConcatProperties
    <3>4. DOMAIN frames = 1..Len(frames) /\ DOMAIN frames' = 1..(1 + Len(frames))
          /\ Len(frames) \in Nat
      BY <3>1, <3>3, LenProperties
    <3>5. 1 \in DOMAIN frames' /\ frames'[1].sig = s
      BY <3>3, <3>4, FrameIsFrame
    <3>6. \A i \in DOMAIN frames : i + 1 \in DOMAIN frames' /\ frames'[i + 1] = frames[i]
      BY <3>3, <3>4
    <3> QED
      BY <3>5, <3>6 DEF FrameSignals
  <2>2. Waitable' = Waitable /\ kpending' = kpending \ {s}
    BY <1>7 DEF Deliver, Waitable
  <2> QED
    BY <2>1, <2>2
<1>8. CASE ProxyLoad
  <2>1. FrameSignals \subseteq FrameSignals'
    BY <1>8, FramesType DEF ProxyLoad, FrameSignals, GlobalsType, FrameType
  <2> QED
    BY <1>8, <2>1 DEF ProxyLoad, kernel, Waitable
<1>9. CASE ProxyStore
  <2>1. frames # <<>> /\ frames' = Tail(frames) /\ frames[1].sig # CHLD
    BY <1>9, FramesType DEF ProxyStore, GlobalsType
  <2>2. FrameSignals \subseteq FrameSignals' \cup {frames[1].sig}
    <3>1. DOMAIN frames = 1..Len(frames) /\ Len(frames) \in Nat
          /\ DOMAIN frames' = 1..(Len(frames) - 1)
      BY <2>1, LenProperties, HeadTailProperties DEF GlobalsType
    <3>2. \A i \in DOMAIN frames : i # 1 => i - 1 \in DOMAIN frames' /\ frames'[i - 1] = frames[i]
      BY <2>1, <3>1, FramesType
    <3> QED
      BY <3>2 DEF FrameSignals
  <2> QED
    BY <1>9, <2>1, <2>2 DEF ProxyStore, kernel, Waitable
<1>10. CASE SigchldHandler
  BY <1>3, <1>4, <1>10 DEF SigchldHandler
<1>11. CASE Wake
  <2>1. frames' \in Stackings(kpending) /\ kpending \in SUBSET (Signals \cup {CHLD})
    BY <1>11 DEF Wake, KernelType
  <2>2. kpending \subseteq FrameSignals'
    BY <2>1, StackingsType DEF FrameSignals
  <2>3. FrameSignals = {}
    BY <1>11 DEF Wake, FramesWhere, FrameSignals
  <2> QED
    BY <1>11, <2>2, <2>3 DEF Wake, Waitable
<1>12. CASE ForkMain
  BY <1>2, <1>12 DEF ForkMain
<1>13. ASSUME NEW from, NEW to, DrainZombies(from, to) PROVE ZombieAnnounced'
  BY <1>3, <1>4, <1>13 DEF DrainZombies
<1>14. CASE BootFails \/ ForkMainFails \/ ExitDrained
  BY <1>1, <1>3, <1>5, <1>14 DEF BootFails, ForkMainFails, ExitDrained, kernel, globals
<1>15. CASE Main
  <2>1. CASE \/ InstallHandlers \/ BlockSignals \/ SigsuspendReturns
             \/ HandlePending \/ NextSignal \/ HandledAll
             \/ OpenProc \/ OpenProcFails \/ ReadDir \/ ReadDirEnds
             \/ BufferFull \/ NextBuffer \/ ReadLink \/ Kill \/ SecondSweep
             \/ BroadcastEnds \/ Poll
    <3>1. UNCHANGED <<proc, parent, kpending, frames>>
      BY <2>1 DEF InstallHandlers, BlockSignals, SigsuspendReturns, HandlePending,
                  NextSignal, HandledAll, OpenProc, OpenProcFails, ReadDir,
                  ReadDirEnds, BufferFull, NextBuffer, ReadLink, Kill, SecondSweep,
                  BroadcastEnds, Poll, kernel, globals
    <3> QED
      BY <1>1, <3>1
  <2> QED
    BY <1>11, <1>12, <1>13, <1>14, <1>15, <2>1 DEF Main
<1>16. CASE UNCHANGED vars
  BY <1>1, <1>16 DEF vars, kernel, globals
<1> QED
  BY <1>6, <1>7, <1>8, <1>9, <1>10, <1>15, <1>16 DEF Next, Delivery, Handler, Exited

(* sigsuspend never sleeps on a zombie that PID 1 has to reap, however the
   exits, the adoptions of orphans and the coalesced SIGCHLDs fall. *)
THEOREM NoUnannouncedZombie == Spec => []ZombieAnnounced
<1> DEFINE Inv == TypeOK /\ FramesWhere /\ ZombieAnnounced
<1>1. Init => Inv
  <2>1. Init => FramesWhere /\ ZombieAnnounced
    BY DEF Init, FramesWhere, ZombieAnnounced, Waitable
  <2> QED
    BY <2>1, TypeInit
<1>2. Inv /\ [Next]_vars => Inv'
  BY TypeStep, FramesWhereStep, AnnouncedStep
<1>3. Inv => ZombieAnnounced
  OBVIOUS
<1> QED
  BY <1>1, <1>2, <1>3, PTL DEF Spec

------------------------------------------------------------------------------
(* The exit status. *)

(* What makes the exit status come out right: there is no main child before
   the fork, and the drain branch is entered only with its exit on record. *)
ExitInv ==
  /\ FramesWhere
  /\ ExitStatusFaithful
  /\ pc \in Startup => gMain = NoPid
  /\ pc \in Draining => gChildExited

LEMMA ExitInvStutter ==
  ASSUME ExitInv, UNCHANGED <<gChildExited, gStatus, gMain, exitCode>>,
         gMain # NoPid => status'[gMain] = status[gMain],
         gMain # NoPid /\ proc[gMain] = "reaped" => proc'[gMain] = "reaped",
         FramesWhere',
         pc' \in Startup => pc \in Startup,
         pc' \in Draining => pc \in Draining \/ gChildExited,
         pc' = "exited" => pc = "exited"
  PROVE  ExitInv'
BY DEF ExitInv, ExitStatusFaithful

LEMMA ExitInvStep ==
  ASSUME TypeOK, ExitInv, [Next]_vars
  PROVE  ExitInv'
<1> USE TypeOK DEF TypeOK
<1>0. FramesWhere'
  BY FramesWhereStep DEF ExitInv
<1>1. ASSUME UNCHANGED <<gChildExited, gStatus, gMain, exitCode, proc, status>>,
             pc' \in Startup => pc \in Startup,
             pc' \in Draining => pc \in Draining \/ gChildExited,
             pc' = "exited" => pc = "exited"
      PROVE  ExitInv'
  BY <1>0, <1>1, ExitInvStutter
<1>2. CASE Environment
  <2>1. UNCHANGED <<gChildExited, gStatus, gMain, exitCode, pc>>
    BY <1>2 DEF Environment, ProcForks, DockerExec, ProcExecs, ProcExits,
                ParentReaps, SendSignal, globals, locals
  <2>2. ASSUME NEW p \in Pids, NEW par, NEW img, Fresh(p), Spawn(p, par, img),
               UNCHANGED status
        PROVE  ExitInv'
    <3>1. gMain # NoPid /\ proc[gMain] = "reaped" => proc'[gMain] = "reaped"
      BY <2>2 DEF Fresh, Spawn, KernelType, GlobalsType
    <3> QED
      BY <1>0, <2>1, <2>2, <3>1, ExitInvStutter
  <2>3. ASSUME NEW q \in Pids, ProcForks(q) PROVE ExitInv'
    BY <2>2, <2>3 DEF ProcForks
  <2>4. CASE DockerExec
    BY <2>2, <2>4 DEF DockerExec
  <2>5. ASSUME NEW p \in Pids, ProcExecs(p) PROVE ExitInv'
    BY <1>1, <2>1, <2>5 DEF ProcExecs
  <2>6. ASSUME NEW p \in Pids, NEW st \in Statuses[p], ProcExits(p, st)
        PROVE  ExitInv'
    <3>1. /\ gMain # NoPid /\ proc[gMain] = "reaped" => proc'[gMain] = "reaped"
          /\ gMain # NoPid /\ gMain # p => status'[gMain] = status[gMain]
      BY <2>6 DEF ProcExits, KernelType, GlobalsType
    <3>2. CASE gMain = p
      <4>1. ~gChildExited /\ pc # "exited"
        BY <1>2, <2>6, <3>2, ConstantFacts
        DEF Environment, ExitInv, ExitStatusFaithful, ProcExits
      <4> QED
        BY <1>0, <2>1, <4>1 DEF ExitInv, ExitStatusFaithful
    <3>3. CASE gMain # p
      BY <1>0, <2>1, <3>1, <3>3, ExitInvStutter
    <3> QED
      BY <3>2, <3>3
  <2>7. ASSUME NEW p \in Pids, ParentReaps(p) PROVE ExitInv'
    <3>1. gMain # NoPid /\ proc[gMain] = "reaped" => proc'[gMain] = "reaped"
      BY <2>7 DEF ParentReaps, KernelType, GlobalsType
    <3> QED
      BY <1>0, <2>1, <2>7, <3>1, ExitInvStutter DEF ParentReaps
  <2>8. ASSUME NEW s \in Signals, SendSignal(s) PROVE ExitInv'
    BY <1>1, <2>1, <2>8 DEF SendSignal
  <2> QED
    BY <1>2, <2>3, <2>4, <2>5, <2>6, <2>7, <2>8 DEF Environment
<1>3. CASE Delivery
  BY <1>1, <1>3 DEF Delivery, Deliver, locals
<1>4. CASE ProxyLoad \/ ProxyStore
  BY <1>1, <1>4 DEF ProxyLoad, ProxyStore, kernel, locals
<1>5. CASE SigchldHandler
  <2>1. pc \in {"installed", "handlers"} /\ pc' = pc /\ exitCode' = exitCode
        /\ status' = status /\ gMain' = gMain
    BY <1>5 DEF SigchldHandler, locals, ExitInv, FramesWhere
  <2>2. CASE gMain \in Waitable
    <3>1. /\ gChildExited' /\ gStatus' = status[gMain] /\ gMain # NoPid
          /\ proc'[gMain] = "reaped"
      BY <1>5, <2>2, ConstantFacts DEF SigchldHandler, NoteMain, ReapAll, Waitable
    <3> QED
      BY <1>0, <2>1, <3>1 DEF ExitInv, ExitStatusFaithful, Startup, Draining
  <2>3. CASE gMain \notin Waitable
    <3>1. /\ gChildExited' = gChildExited /\ gStatus' = gStatus
          /\ gMain # NoPid => proc'[gMain] = proc[gMain]
      BY <1>5, <2>3 DEF SigchldHandler, NoteMain, ReapAll, GlobalsType
    <3> QED
      BY <1>0, <2>1, <3>1, ExitInvStutter
  <2> QED
    BY <2>2, <2>3
<1>6. CASE Main
  <2>1. ASSUME NEW from, NEW to, DrainZombies(from, to), pc \notin Startup,
               to \notin Startup, to # "exited", to \in Draining => from \in Draining
        PROVE  ExitInv'
    <3>1. gMain # NoPid /\ proc[gMain] = "reaped" => proc'[gMain] = "reaped"
      BY <2>1 DEF DrainZombies, ReapAll, GlobalsType
    <3> QED
      BY <1>0, <2>1, <3>1, ExitInvStutter DEF DrainZombies, globals, locals
  <2>2. CASE DrainZombies("drainZ", "handle") \/ DrainZombies("drain", "count")
    BY <2>1, <2>2 DEF DrainZombies, Startup, Draining
  <2>3. CASE BootFails
    BY <1>0, <2>3 DEF BootFails, Leave, ExitInv, ExitStatusFaithful, Startup,
                      Draining, globals
  <2>4. CASE ForkMain
    <3>1. pc \in Startup /\ ~gChildExited /\ pc' = "suspend"
          /\ gChildExited' = gChildExited
      BY <2>4 DEF ForkMain, ExitInv, ExitStatusFaithful, Startup
    <3> QED
      BY <1>0, <3>1 DEF ExitInv, ExitStatusFaithful, Startup, Draining
  <2>5. CASE ForkMainFails
    <3>1. pc = "fork" /\ gMain = NoPid /\ ~gChildExited
      BY <2>5 DEF ForkMainFails, ExitInv, ExitStatusFaithful, Startup
    <3>2. CASE Libc
      BY <1>0, <2>5, <3>1, <3>2 DEF ForkMainFails, Leave, ExitInv,
         ExitStatusFaithful, Startup, Draining, globals
    <3>3. CASE ~Libc
      BY <1>1, <2>5, <3>3 DEF ForkMainFails, kernel, globals, locals, Startup, Draining
    <3> QED
      BY <3>2, <3>3
  <2>6. CASE ExitDrained
    <3>1. gChildExited /\ gMain # NoPid /\ gStatus = status[gMain]
          /\ proc[gMain] = "reaped"
      BY <2>6 DEF ExitDrained, ExitInv, ExitStatusFaithful, Draining
    <3>2. /\ pc' = "exited" /\ exitCode' = ExitCode(gStatus) /\ status' = status
          /\ UNCHANGED <<gChildExited, gMain, gStatus>> /\ proc'[gMain] = "reaped"
      BY <2>6, <3>1 DEF ExitDrained, Leave, globals, GlobalsType, Existing
    <3> QED
      BY <1>0, <3>1, <3>2 DEF ExitInv, ExitStatusFaithful, Startup, Draining
  <2>7. CASE InstallHandlers \/ BlockSignals \/ Wake \/ SigsuspendReturns
    BY <1>1, <2>7 DEF InstallHandlers, BlockSignals, Wake, SigsuspendReturns, kernel,
                      globals, locals, Startup, Draining
  <2>8. CASE HandlePending \/ NextSignal \/ HandledAll
    BY <1>1, <2>8 DEF HandlePending, NextSignal, HandledAll, LoopTop, kernel,
                      globals, locals, Startup, Draining
  <2>9. CASE OpenProc \/ OpenProcFails \/ ReadDir \/ ReadDirEnds
    BY <1>1, <2>9 DEF OpenProc, OpenProcFails, ReadDir, ReadDirEnds, kernel,
                      globals, Startup, Draining
  <2>10. CASE ReadLink \/ Kill \/ SecondSweep \/ BroadcastEnds \/ Poll
    BY <1>1, <2>10 DEF ReadLink, Kill, SecondSweep, BroadcastEnds, Poll, kernel,
                       globals, Startup, Draining
  <2>11. CASE BufferFull \/ NextBuffer
    BY <1>1, <2>11 DEF BufferFull, NextBuffer, kernel, globals, locals, Startup, Draining
  <2> QED
    BY <1>6, <2>2, <2>3, <2>4, <2>5, <2>6, <2>7, <2>8, <2>9, <2>10, <2>11 DEF Main
<1>7. CASE UNCHANGED vars
  BY <1>1, <1>7 DEF vars, kernel, globals, locals
<1> QED
  BY <1>2, <1>3, <1>4, <1>5, <1>6, <1>7 DEF Next, Handler, Exited

(* The container's exit status is the main process's, and it is given out only
   after that process ended and was waited for. *)
THEOREM ExitStatusCorrect == Spec => []ExitStatusFaithful
<1> DEFINE Inv == TypeOK /\ ExitInv
<1>1. Init => Inv
  <2>1. Init => ExitInv
    BY DEF Init, ExitInv, FramesWhere, ExitStatusFaithful, Startup, Draining
  <2> QED
    BY <2>1, TypeInit
<1>2. Inv /\ [Next]_vars => Inv'
  BY TypeStep, ExitInvStep
<1>3. Inv => ExitStatusFaithful
  BY DEF ExitInv
<1> QED
  BY <1>1, <1>2, <1>3, PTL DEF Spec

-----------------------------------------------------------------------------
(* The steps of tuxreaperd are steps of ReaperContract or leave it alone. *)

(* The refinement mapping, as in Contract. *)
Phase == IF pc \in Startup THEN "starting"
         ELSE IF pc = "exited" THEN "exited"
         ELSE IF gChildExited THEN "draining" ELSE "supervising"
Work  == IF gMain = NoPid THEN <<"none", 0>>
         ELSE IF proc[gMain] = "live" THEN <<"running", 0>> ELSE status[gMain]

LEMMA ContractSteps ==
  /\ Contract!Init <=> Phase = "starting" /\ Work = <<"none", 0>> /\ exitCode = 256
  /\ Phase = "starting" /\ Phase' = "supervising" /\ Work' = <<"running", 0>> /\ exitCode' = exitCode
       => Contract!Next
  /\ Phase = "starting" /\ Phase' = "exited" /\ exitCode' = 1 /\ Work' = Work
       => Contract!Next
  /\ ~Libc /\ Phase = "starting" /\ Phase' = "supervising" /\ exitCode' = exitCode /\ Work' = Work
       => Contract!Next
  /\ Phase = "supervising" /\ Work = <<"running", 0>> /\ Work' \in WaitStatuses
       /\ Phase' = Phase /\ exitCode' = exitCode
       => Contract!Next
  /\ Phase = "supervising" /\ Work \in WaitStatuses
       /\ Phase' = "draining" /\ Work' = Work /\ exitCode' = exitCode
       => Contract!Next
  /\ Phase = "draining" /\ Phase' = "exited" /\ Work' = Work
       /\ exitCode' = Contract!ShellStatus(Work)
       => Contract!Next
  /\ Phase' = Phase /\ Work' = Work /\ exitCode' = exitCode => UNCHANGED Contract!vars
<1>1. Contract!Init <=> Phase = "starting" /\ Work = <<"none", 0>> /\ exitCode = 256
  BY DEF Contract!Init, Contract!NoWork, Contract!NoCode, Phase, Work
<1>2. Phase = "starting" /\ Phase' = "supervising" /\ Work' = <<"running", 0>> /\ exitCode' = exitCode
       => Contract!Start
  BY DEF Contract!Start, Contract!Running, Phase, Work
<1>3. Phase = "starting" /\ Phase' = "exited" /\ exitCode' = 1 /\ Work' = Work
       => Contract!StartFails
  BY DEF Contract!StartFails, Phase, Work
<1>4. ~Libc /\ Phase = "starting" /\ Phase' = "supervising" /\ exitCode' = exitCode /\ Work' = Work
       => Contract!StartFails
  BY DEF Contract!StartFails, Phase, Work
<1>5. Phase = "supervising" /\ Work = <<"running", 0>> /\ Work' \in WaitStatuses
       /\ Phase' = Phase /\ exitCode' = exitCode
       => Contract!WorkEnds
  BY DEF Contract!WorkEnds, Contract!Running, Phase, Work
<1>6. Phase = "supervising" /\ Work \in WaitStatuses
       /\ Phase' = "draining" /\ Work' = Work /\ exitCode' = exitCode
       => Contract!Notice
  BY DEF Contract!Notice, Phase, Work
<1>7. Phase = "draining" /\ Phase' = "exited" /\ Work' = Work
       /\ exitCode' = Contract!ShellStatus(Work)
       => Contract!End
  BY DEF Contract!End, Contract!ShellStatus, Phase, Work
<1>8. Phase' = Phase /\ Work' = Work /\ exitCode' = exitCode => UNCHANGED Contract!vars
  BY DEF Contract!vars, Phase, Work
<1>9. Contract!Start \/ Contract!StartFails \/ Contract!WorkEnds \/ Contract!Notice \/ Contract!End => Contract!Next
  BY DEF Contract!Next
<1> QED BY <1>1, <1>2, <1>3, <1>4, <1>5, <1>6, <1>7, <1>8, <1>9

(* 128 + signal, by two formulas. *)
LEMMA SameStatus == \A st \in WaitStatuses : Contract!ShellStatus(st) = ExitCode(st)
<1> SUFFICES ASSUME NEW st \in WaitStatuses PROVE Contract!ShellStatus(st) = ExitCode(st)
  OBVIOUS
<1>1. CASE st \in {"exit"} \X (0..255)
  BY <1>1 DEF Contract!ShellStatus, ExitCode
<1>2. CASE st \in {"signal"} \X (1..64)
  BY <1>2 DEF Contract!ShellStatus, ExitCode
<1> QED BY <1>1, <1>2 DEF WaitStatuses

(* The main child, once there is one, has been forked. *)
MainInv == TypeOK /\ ExitInv /\ (gMain # NoPid => proc[gMain] # "none")

(* A step that ends neither PID 1 nor its main child, forks none and notes no exit. *)
LEMMA ContractStutter ==
  ASSUME MainInv, UNCHANGED <<gChildExited, gMain, exitCode>>,
         gMain # NoPid => /\ status'[gMain] = status[gMain] /\ proc'[gMain] # "none"
                          /\ proc'[gMain] = "live" <=> proc[gMain] = "live",
         pc' \in Startup <=> pc \in Startup, pc' = "exited" <=> pc = "exited"
  PROVE  UNCHANGED Contract!vars /\ (gMain' # NoPid => proc'[gMain'] # "none")
BY ContractSteps DEF Phase, Work

LEMMA ContractStep ==
  ASSUME MainInv, [Next]_vars
  PROVE  [Contract!Next]_Contract!vars /\ (gMain' # NoPid => proc'[gMain'] # "none")
<1> DEFINE Forked == gMain' # NoPid => proc'[gMain'] # "none"
<1> USE DEF MainInv, TypeOK
<1>1. CASE Environment
  <2>1. UNCHANGED <<gChildExited, gMain, exitCode, pc>> /\ pc # "exited"
    BY <1>1 DEF Environment, ProcForks, DockerExec, ProcExecs, ProcExits,
                ParentReaps, SendSignal, globals, locals
  <2>2. ASSUME NEW p \in Pids, NEW par, NEW img, Fresh(p), Spawn(p, par, img), UNCHANGED status
        PROVE  UNCHANGED Contract!vars /\ Forked
    <3>1. gMain # NoPid => proc'[gMain] = proc[gMain]
      BY <2>2 DEF Fresh, Spawn, KernelType, GlobalsType
    <3> QED BY <2>1, <2>2, <3>1, ContractStutter
  <2>3. ASSUME NEW q \in Pids, ProcForks(q) PROVE UNCHANGED Contract!vars /\ Forked
    BY <2>2, <2>3 DEF ProcForks
  <2>4. CASE DockerExec
    BY <2>2, <2>4 DEF DockerExec
  <2>5. ASSUME NEW p \in Pids, ProcExecs(p) PROVE UNCHANGED Contract!vars /\ Forked
    BY <2>1, <2>5, ContractStutter DEF ProcExecs
  <2>6. ASSUME NEW p \in Pids, NEW st \in Statuses[p], ProcExits(p, st)
        PROVE  [Contract!Next]_Contract!vars /\ Forked
    <3>1. p # NoPid /\ st \in WaitStatuses
      BY ConstantFacts, StatusesAssumption
    <3>2. CASE gMain = p
      <4>1. Work = <<"running", 0>> /\ gMain # NoPid
        BY <2>6, <3>1, <3>2 DEF ProcExits, Work
      <4>2. Phase = "supervising" /\ Phase' = Phase
        BY <2>1, <2>6, <3>2, <4>1 DEF Phase, ExitInv, ExitStatusFaithful, ProcExits
      <4>3. proc'[p] = "zombie" /\ status'[p] = st
        BY <2>6 DEF ProcExits, KernelType
      <4>4. Work' = st
        BY <2>1, <3>1, <3>2, <4>3 DEF Work
      <4> QED BY <2>1, <3>1, <3>2, <4>1, <4>2, <4>3, <4>4, ContractSteps
    <3>3. CASE gMain # p
      <4>1. gMain # NoPid => proc'[gMain] = proc[gMain] /\ status'[gMain] = status[gMain]
        BY <2>6, <3>3 DEF ProcExits, KernelType, GlobalsType
      <4> QED BY <2>1, <4>1, ContractStutter
    <3> QED BY <3>2, <3>3
  <2>7. ASSUME NEW p \in Pids, ParentReaps(p) PROVE UNCHANGED Contract!vars /\ Forked
    <3>1. gMain # NoPid => /\ proc'[gMain] # "none" /\ status'[gMain] = status[gMain]
                           /\ proc'[gMain] = "live" <=> proc[gMain] = "live"
      BY <2>7 DEF ParentReaps, KernelType, GlobalsType
    <3> QED BY <2>1, <3>1, ContractStutter
  <2>8. ASSUME NEW s \in Signals, SendSignal(s) PROVE UNCHANGED Contract!vars /\ Forked
    BY <2>1, <2>8, ContractStutter DEF SendSignal
  <2> QED BY <1>1, <2>3, <2>4, <2>5, <2>6, <2>7, <2>8 DEF Environment
<1>2. ASSUME UNCHANGED <<gChildExited, gMain, exitCode, proc, status>>,
             pc' \in Startup <=> pc \in Startup, pc' = "exited" <=> pc = "exited"
      PROVE  UNCHANGED Contract!vars /\ Forked
  BY <1>2, ContractStutter
<1>3. CASE Delivery
  BY <1>2, <1>3 DEF Delivery, Deliver, locals
<1>4. CASE ProxyLoad \/ ProxyStore
  BY <1>2, <1>4 DEF ProxyLoad, ProxyStore, kernel, locals
<1>5. CASE SigchldHandler
  <2>1. /\ pc \in {"installed", "handlers"} /\ pc' = pc /\ exitCode' = exitCode
        /\ status' = status /\ gMain' = gMain
    BY <1>5 DEF SigchldHandler, locals, ExitInv, FramesWhere
  <2>2. CASE gMain \in Waitable
    <3>1. gMain # NoPid /\ proc[gMain] = "zombie" /\ proc'[gMain] = "reaped" /\ gChildExited'
      BY <1>5, <2>2, ConstantFacts DEF SigchldHandler, NoteMain, ReapAll, Waitable
    <3>2. ~gChildExited /\ pc \notin Startup /\ pc # "exited"
      BY <2>1, <3>1 DEF ExitInv, ExitStatusFaithful
    <3>3. Phase = "supervising" /\ Phase' = "draining"
      BY <2>1, <3>1, <3>2 DEF Phase
    <3>4. Work = status[gMain] /\ Work' = Work
      BY <2>1, <3>1 DEF Work
    <3>5. Work \in WaitStatuses
      BY <3>1, <3>4 DEF KernelType, GlobalsType
    <3> QED BY <2>1, <3>1, <3>3, <3>4, <3>5, ContractSteps
  <2>3. CASE gMain \notin Waitable
    <3>1. gChildExited' = gChildExited /\ (gMain # NoPid => proc'[gMain] = proc[gMain])
      BY <1>5, <2>3 DEF SigchldHandler, NoteMain, ReapAll, GlobalsType
    <3> QED BY <2>1, <3>1, ContractStutter
  <2> QED BY <2>2, <2>3
<1>6. CASE Main
  <2>1. ASSUME NEW from, NEW to, DrainZombies(from, to), pc \notin Startup, pc # "exited",
               to \notin Startup, to # "exited"
        PROVE  UNCHANGED Contract!vars /\ Forked
    <3>1. gMain # NoPid => proc'[gMain] # "none" /\ (proc'[gMain] = "live" <=> proc[gMain] = "live")
      BY <2>1 DEF DrainZombies, ReapAll, GlobalsType, Waitable
    <3> QED BY <2>1, <3>1, ContractStutter DEF DrainZombies, globals, locals
  <2>2. CASE DrainZombies("drainZ", "handle") \/ DrainZombies("drain", "count")
    BY <2>1, <2>2 DEF DrainZombies, Startup
  <2>3. ASSUME pc \in Startup, Leave(1) PROVE [Contract!Next]_Contract!vars /\ Forked
    <3>1. gMain = NoPid /\ gMain' = NoPid /\ pc' = "exited" /\ exitCode' = 1
      BY <2>3 DEF Leave, ExitInv, globals
    <3>2. Phase = "starting" /\ Phase' = "exited" /\ Work' = Work
      BY <2>3, <3>1 DEF Phase, Work, Startup
    <3> QED BY <3>1, <3>2, ContractSteps
  <2>4. CASE BootFails
    BY <2>3, <2>4 DEF BootFails, Startup
  <2>5. CASE ForkMain
    <3>1. PICK p \in Pids : Fresh(p) /\ Spawn(p, Init1, Self) /\ gMain' = p
      BY <2>5 DEF ForkMain
    <3>2. /\ pc \in Startup /\ ~gChildExited' /\ pc' = "suspend" /\ exitCode' = exitCode
          /\ p # NoPid /\ proc'[p] = "live"
      BY <2>5, <3>1, ConstantFacts
      DEF ForkMain, Spawn, ExitInv, ExitStatusFaithful, Startup, KernelType, locals
    <3>3. Phase = "starting" /\ Phase' = "supervising" /\ Work' = <<"running", 0>>
      BY <3>1, <3>2 DEF Phase, Work, Startup
    <3> QED BY <3>1, <3>2, <3>3, ContractSteps
  <2>6. CASE ForkMainFails
    <3>1. CASE Libc
      BY <2>3, <2>6, <3>1 DEF ForkMainFails, Startup
    <3>2. CASE ~Libc
      <4>1. pc = "fork" /\ pc' = "suspend" /\ UNCHANGED <<proc, status, gMain, gChildExited, exitCode>>
        BY <2>6, <3>2 DEF ForkMainFails, kernel, globals, locals
      <4>2. gMain = NoPid /\ ~gChildExited
        BY <4>1 DEF ExitInv, ExitStatusFaithful, Startup
      <4>3. Phase = "starting" /\ Phase' = "supervising" /\ Work' = Work
        BY <4>1, <4>2 DEF Phase, Work, Startup
      <4> QED BY <3>2, <4>1, <4>2, <4>3, ContractSteps
    <3> QED BY <3>1, <3>2
  <2>7. CASE ExitDrained
    <3>1. /\ pc = "decide" /\ pc' = "exited" /\ exitCode' = ExitCode(gStatus) /\ status' = status
          /\ gMain' = gMain /\ gChildExited
      BY <2>7 DEF ExitDrained, Leave, globals, ExitInv, Draining
    <3>2. gMain # NoPid /\ proc[gMain] = "reaped" /\ gStatus = status[gMain] /\ proc'[gMain] = "reaped"
      BY <2>7, <3>1 DEF ExitDrained, Leave, ExitInv, ExitStatusFaithful, Existing, GlobalsType
    <3>3. Phase = "draining" /\ Phase' = "exited"
      BY <3>1 DEF Phase, Startup
    <3>4. Work = status[gMain] /\ Work' = Work /\ Work \in WaitStatuses
      BY <3>1, <3>2 DEF Work, KernelType, GlobalsType
    <3> QED BY <3>1, <3>2, <3>3, <3>4, SameStatus, ContractSteps
  <2>8. CASE InstallHandlers \/ BlockSignals \/ Wake \/ SigsuspendReturns
    BY <1>2, <2>8 DEF InstallHandlers, BlockSignals, Wake, SigsuspendReturns, kernel, globals, locals, Startup
  <2>9. CASE HandlePending \/ NextSignal \/ HandledAll
    BY <1>2, <2>9 DEF HandlePending, NextSignal, HandledAll, LoopTop, kernel, globals, locals, Startup
  <2>10. CASE OpenProc \/ OpenProcFails \/ ReadDir \/ ReadDirEnds
    BY <1>2, <2>10 DEF OpenProc, OpenProcFails, ReadDir, ReadDirEnds, kernel, globals, Startup
  <2>11. CASE ReadLink \/ Kill \/ SecondSweep \/ BroadcastEnds \/ Poll
    BY <1>2, <2>11 DEF ReadLink, Kill, SecondSweep, BroadcastEnds, Poll, kernel, globals, Startup
  <2>12. CASE BufferFull \/ NextBuffer
    BY <1>2, <2>12 DEF BufferFull, NextBuffer, kernel, globals, locals, Startup
  <2> QED BY <1>6, <2>2, <2>4, <2>5, <2>6, <2>7, <2>8, <2>9, <2>10, <2>11, <2>12 DEF Main
<1>7. CASE UNCHANGED vars
  BY <1>2, <1>7 DEF vars, kernel, globals, locals
<1> QED BY <1>1, <1>3, <1>4, <1>5, <1>6, <1>7 DEF Next, Handler, Exited

(* Whatever the processes of the container do, and in whatever order signals arrive: tuxreaperd
   runs one workload, notices its end once, waits, and gives out that workload's status
   (main() of tuxreaperdgnu.c and tuxreaperdasm.c).  That it does end is left to TLC. *)
THEOREM ContractKept == Spec => Contract!Init /\ [][Contract!Next]_Contract!vars
<1>1. Init => MainInv /\ Contract!Init
  <2>1. Init => Phase = "starting" /\ Work = <<"none", 0>> /\ exitCode = 256 /\ gMain = NoPid
    BY DEF Init, Phase, Work, Startup, NotExited
  <2>2. Init => ExitInv
    BY DEF Init, ExitInv, FramesWhere, ExitStatusFaithful, Startup, Draining
  <2> QED BY <2>1, <2>2, TypeInit, ContractSteps DEF MainInv
<1>2. MainInv /\ [Next]_vars => MainInv' /\ [Contract!Next]_Contract!vars
  BY TypeStep, ExitInvStep, ContractStep DEF MainInv
<1> QED BY <1>1, <1>2, PTL DEF Spec

-----------------------------------------------------------------------------
(* The drain. *)

(* A count that found nobody left nobody to wait for: /proc is listed in increasing
   pid order, so what a listing that is still empty at its end passed over does not exist. *)
CountInv ==
  /\ pc = "counting" /\ entries = {} => at = 0
  /\ pc = "decide" /\ entries = {} => due = {}

LEMMA CountStep ==
  ASSUME ~ProcFails, TypeOK, CountInv, [Next]_vars
  PROVE  CountInv'
<1> USE DEF CountInv
<1>1. ASSUME pc' \in {"counting", "decide"} => UNCHANGED <<pc, entries, at, due>>
      PROVE  CountInv'
  BY <1>1
<1>2. CASE Environment
  BY <1>1, <1>2 DEF Environment, ProcForks, DockerExec, ProcExecs, ProcExits, ParentReaps, SendSignal, locals
<1>3. CASE Delivery \/ Handler
  BY <1>1, <1>3 DEF Delivery, Deliver, Handler, ProxyLoad, ProxyStore, SigchldHandler, locals
<1>4. CASE ReadDirEnds
  <2>1. CASE pc = "counting" /\ entries = {}
    <3>1. ToList = Existing
      BY <2>1, ConstantFacts DEF ToList, Existing, Pids
    <3> QED BY <1>4, <2>1, <3>1 DEF ReadDirEnds, Existing, Live
  <2>2. CASE pc = "counting" /\ entries # {}
    BY <1>4, <2>2 DEF ReadDirEnds
  <2>3. CASE pc # "counting"
    BY <1>4, <2>3 DEF ReadDirEnds
  <2> QED BY <2>1, <2>2, <2>3
<1>5. CASE OpenProc \/ ReadDir
  BY <1>5 DEF OpenProc, ReadDir
<1>6. CASE Main /\ ~ReadDirEnds /\ ~OpenProc /\ ~ReadDir
  <2>1. pc' \notin {"counting", "decide"}
    <3>1. CASE BootFails \/ InstallHandlers \/ BlockSignals \/ ForkMain \/ ForkMainFails \/ Wake \/ SigsuspendReturns
      BY <3>1 DEF BootFails, Leave, InstallHandlers, BlockSignals, ForkMain, ForkMainFails, Wake, SigsuspendReturns
    <3>2. CASE \/ DrainZombies("drainZ", "handle") \/ DrainZombies("drain", "count")
               \/ HandlePending \/ NextSignal \/ HandledAll
      BY <3>2 DEF DrainZombies, HandlePending, NextSignal, HandledAll, LoopTop
    <3>3. CASE \/ OpenProcFails \/ BufferFull \/ NextBuffer \/ ReadLink \/ Kill
               \/ SecondSweep \/ BroadcastEnds \/ ExitDrained \/ Poll
      BY <3>3 DEF OpenProcFails, BufferFull, NextBuffer, ReadLink, Kill, SecondSweep, BroadcastEnds, ExitDrained, Leave, Poll
    <3> QED BY <1>6, <3>1, <3>2, <3>3 DEF Main
  <2> QED BY <2>1
<1>7. CASE UNCHANGED vars
  BY <1>1, <1>7 DEF vars, locals
<1> QED BY <1>2, <1>3, <1>4, <1>5, <1>6, <1>7 DEF Next, Exited

(* Only the drain branch ends at pc "decide", and before the deadline only an empty count ends it. *)
LEMMA ExitsDrained ==
  ASSUME TypeOK, CountInv, [Next]_vars, pc = "decide", pc' = "exited", polls < DrainPolls
  PROVE  Live \cap due = {}
<1>1. ~(Environment \/ Delivery \/ Handler \/ UNCHANGED vars)
  BY DEF Environment, ProcForks, DockerExec, ProcExecs, ProcExits, ParentReaps, SendSignal, Delivery, Deliver,
         Handler, ProxyLoad, ProxyStore, SigchldHandler, vars
<1>2. Main
  BY <1>1 DEF Next, Exited
<1>3. ExitDrained
  BY <1>2 DEF Main, BootFails, InstallHandlers, BlockSignals, ForkMain, ForkMainFails, Wake, SigsuspendReturns,
     DrainZombies, HandlePending, NextSignal, HandledAll, OpenProc, OpenProcFails, ReadDir, ReadDirEnds,
     BufferFull, NextBuffer, ReadLink, Kill, SecondSweep, BroadcastEnds, Poll
<1>4. polls \in Nat /\ DrainPolls \in Nat
  BY SizesAssumption DEF TypeOK, LocalsType
<1>5. entries = {}
  BY <1>3, <1>4 DEF ExitDrained, Expired
<1> QED BY <1>5 DEF CountInv

(* Where /proc can be opened, tuxreaperd leaves before the deadline only when the last count found
   no process, zombies included (count_descendants, main()); where it cannot, count_descendants
   returns 0 and the container is ended under its processes. *)
THEOREM NobodyLeftBehind == ~ProcFails => (Spec => DrainComplete)
<1> SUFFICES ASSUME ~ProcFails PROVE Spec => DrainComplete
  OBVIOUS
<1> DEFINE Inv == TypeOK /\ CountInv
           Kept == pc = "decide" /\ pc' = "exited" /\ polls < DrainPolls => Live \cap due = {}
<1>1. Init => Inv
  BY TypeInit DEF Init, CountInv
<1>2. Inv /\ [Next]_vars => Inv'
  BY TypeStep, CountStep
<1>3. Inv /\ [Next]_vars => [Kept]_vars
  BY ExitsDrained
<1> QED
  BY <1>1, <1>2, <1>3, PTL DEF Spec, DrainComplete
=============================================================================
