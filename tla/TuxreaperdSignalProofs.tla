----------------------- MODULE TuxreaperdSignalProofs -----------------------
(***************************************************************************)
(* Theorems about the signals Tuxreaperd sends: each suits its receiver,   *)
(* and a broadcast misses no process it should reach.                      *)
(***************************************************************************)
EXTENDS TuxreaperdProofs

(* The rule table never picks the fast-stop signal for a web engine. *)
LEMMA OutSigSuits ==
  ASSUME NEW sig \in Signals \cup {0}, NEW exe
  PROVE  Suits(OutSig(sig, exe), exe)
<1> USE DEF TERM, QUIT, WINCH
<1>1. sig # WINCH
  BY SignalsAssumption DEF Forwarded, INT, HUP, USR1, USR2
<1>2. CASE sig # TERM
  BY <1>1, <1>2, OutSigCases DEF Suits
<1>3. CASE sig = TERM
  <2> DEFINE rules == <<ApacheRule, NginxRule, PhpFpmRule>>
             hits == {r \in 1..3 : Matches(rules[r], exe)}
             first == Least(hits)
  <2>1. OutSig(sig, exe) = IF hits = {} THEN sig ELSE rules[first].out
    BY <1>3 DEF OutSig, RulesFor, Least
  <2>2. CASE hits = {}
    <3>1. /\ ~Matches(ApacheRule, exe)
          /\ ~Matches(NginxRule, exe)
          /\ ~Matches(PhpFpmRule, exe)
      BY <2>2
    <3>2. ~IsWebEngine(exe)
      BY <3>1 DEF Matches, ApacheRule, NginxRule, PhpFpmRule, IsWebEngine,
                  IsApache, IsNginx, IsPhpFpm
    <3> QED
      BY <1>3, <2>1, <2>2, <3>2 DEF Suits
  <2>3. CASE hits # {}
    <3>1. first \in 1..3 /\ Matches(rules[first], exe)
      BY <2>3, LeastIn
    <3>2. first = 1 => IsApache(exe)
      <4>1. first = 1 => Matches(ApacheRule, exe)
        BY <3>1
      <4> QED
        BY <4>1 DEF Matches, ApacheRule, IsApache
    <3>3. /\ first = 1 => rules[first].out = WINCH
          /\ first # 1 => rules[first].out = QUIT
      BY <3>1 DEF ApacheRule, NginxRule, PhpFpmRule
    <3> QED
      BY <2>1, <2>3, <3>2, <3>3 DEF Suits
  <2> QED
    BY <2>2, <2>3
<1> QED
  BY <1>2, <1>3

------------------------------------------------------------------------------
(* What no step undoes. *)

(* Processes are not forgotten or revived, and images are only added to. *)
Grows ==
  \A p \in Pids : proc[p] # "none" =>
    /\ proc'[p] # "none"
    /\ proc'[p] = "live" => proc[p] = "live"
    /\ DOMAIN image[p] \subseteq DOMAIN image'[p]
    /\ \A i \in DOMAIN image[p] : image'[p][i] = image[p][i]

LEMMA HistoryGrows ==
  ASSUME TypeOK, [Next]_vars
  PROVE  Grows
<1> USE TypeOK DEF TypeOK
<1>1. ASSUME UNCHANGED <<proc, image>> PROVE Grows
  BY <1>1 DEF Grows
<1>2. ASSUME NEW p \in Pids, NEW par, NEW img, Fresh(p), Spawn(p, par, img) PROVE Grows
  BY <1>2 DEF Grows, Fresh, Spawn, KernelType
<1>4. CASE Environment
  <2>1. ASSUME NEW p \in Pids, ProcForks(p) \/ DockerExec PROVE Grows
    BY <1>2, <2>1 DEF ProcForks, DockerExec
  <2>2. ASSUME NEW p \in Pids, ProcExecs(p) PROVE Grows
    <3>1. PICK e \in Programs : image' = [image EXCEPT ![p] = Append(@, e)]
      BY <2>2 DEF ProcExecs
    <3>2. /\ image[p] \in Seq(Images) /\ e \in Images
          /\ UNCHANGED proc
      BY <2>2 DEF ProcExecs, KernelType, Images
    <3>3. /\ DOMAIN image[p] \subseteq DOMAIN Append(image[p], e)
          /\ \A i \in DOMAIN image[p] : Append(image[p], e)[i] = image[p][i]
      BY <3>2
    <3> QED
      BY <3>1, <3>2, <3>3 DEF Grows, KernelType
  <2>3. ASSUME NEW p \in Pids,
               ParentReaps(p) \/ \E st \in Statuses[p] : ProcExits(p, st)
        PROVE  Grows
    BY <2>3 DEF ParentReaps, ProcExits, KernelType, Grows
  <2>4. ASSUME NEW s \in Signals, SendSignal(s) PROVE Grows
    BY <1>1, <2>4 DEF SendSignal
  <2>5. CASE DockerExec
    BY <1>2, <2>5 DEF DockerExec
  <2> QED
    BY <1>4, <2>1, <2>2, <2>3, <2>4, <2>5 DEF Environment
<1>5. CASE Delivery \/ ProxyLoad \/ ProxyStore
  BY <1>1, <1>5 DEF Delivery, Deliver, ProxyLoad, ProxyStore, kernel
<1>6. ASSUME ReapAll, UNCHANGED image PROVE Grows
  BY <1>6 DEF ReapAll, Grows
<1>7. CASE SigchldHandler \/ (\E from, to : DrainZombies(from, to))
  BY <1>6, <1>7 DEF SigchldHandler, DrainZombies
<1>8. ASSUME NEW code, Leave(code) PROVE Grows
  BY <1>8 DEF Leave, Grows
<1>9. CASE BootFails \/ ForkMainFails \/ ExitDrained
  BY <1>1, <1>8, <1>9 DEF BootFails, ForkMainFails, ExitDrained, kernel
<1>10. CASE ForkMain
  BY <1>2, <1>10 DEF ForkMain
<1>11. CASE Main
  <2>1. CASE \/ InstallHandlers \/ BlockSignals \/ Wake \/ SigsuspendReturns
             \/ HandlePending \/ NextSignal \/ HandledAll
             \/ OpenProc \/ OpenProcFails \/ ReadDir \/ ReadDirEnds
             \/ BufferFull \/ NextBuffer \/ ReadLink \/ Kill \/ SecondSweep
             \/ BroadcastEnds \/ Poll
    <3>1. UNCHANGED <<proc, image>>
      BY <2>1 DEF InstallHandlers, BlockSignals, Wake, SigsuspendReturns,
                  HandlePending, NextSignal, HandledAll, OpenProc, OpenProcFails,
                  ReadDir, ReadDirEnds, BufferFull, NextBuffer, ReadLink, Kill,
                  SecondSweep, BroadcastEnds, Poll, kernel
    <3> QED
      BY <1>1, <3>1
  <2> QED
    BY <1>7, <1>9, <1>10, <1>11, <2>1 DEF Main
<1>12. CASE UNCHANGED vars
  BY <1>1, <1>12 DEF vars, kernel
<1> QED
  BY <1>4, <1>5, <1>7, <1>11, <1>12 DEF Next, Handler, Exited

------------------------------------------------------------------------------
(* Each signal suits its receiver. *)

SuitsSome(s, p) == \E i \in DOMAIN image[p] : Suits(s, image[p][i])

(* Only processes that came to be are listed or signalled, and the signal
   chosen between readlink and kill suits the process it is chosen for. *)
SuitInv ==
  /\ \A p \in Pids : got[p] # {} \/ p \in entries => proc[p] # "none"
  /\ \A p \in Pids : \A s \in got[p] : SuitsSome(s, p)
  /\ pc = "kill" => entries # {} /\ SuitsSome(out, Least(entries))

LEMMA SuitStep ==
  ASSUME TypeOK, SuitInv, [Next]_vars
  PROVE  SuitInv'
<1> USE TypeOK, SuitInv DEF TypeOK, SuitInv
<1>1. Grows
  BY HistoryGrows
<1>2. ASSUME NEW p \in Pids, proc[p] # "none", NEW s, SuitsSome(s, p)
      PROVE  SuitsSome(s, p)'
  BY <1>1, <1>2 DEF Grows, SuitsSome
<1>3. ASSUME UNCHANGED got, entries' \subseteq entries,
             pc' = "kill" => pc = "kill" /\ UNCHANGED <<entries, out>>
      PROVE  SuitInv'
  <2>1. \A p \in Pids : got'[p] # {} \/ p \in entries' => proc'[p] # "none"
    BY <1>1, <1>3 DEF Grows
  <2>2. \A p \in Pids : \A s \in got'[p] : SuitsSome(s, p)'
    BY <1>2, <1>3
  <2>3. pc' = "kill" => entries' # {} /\ SuitsSome(out, Least(entries))'
    <3> SUFFICES ASSUME pc' = "kill"
                 PROVE  entries' # {} /\ SuitsSome(out, Least(entries))'
      OBVIOUS
    <3>1. entries # {} /\ SuitsSome(out, Least(entries)) /\ Least(entries) \in entries
          /\ UNCHANGED <<entries, out>>
      BY <1>3, LeastIn, ConstantFacts DEF LocalsType
    <3>2. Least(entries) \in Pids /\ proc[Least(entries)] # "none"
      BY <3>1 DEF LocalsType
    <3>3. SuitsSome(out, Least(entries)) => SuitsSome(out, Least(entries))'
      BY <1>1, <3>1, <3>2 DEF SuitsSome, Grows
    <3> QED
      BY <3>1, <3>3
  <2> QED
    BY <2>1, <2>2, <2>3
<1>4. CASE ReadDir
  <2>1. Least(ToList) \in Existing
    BY <1>4, LeastIn, ConstantFacts DEF ReadDir, ToList, Existing
  <2>2. /\ \A p \in Pids : p \in entries' => proc'[p] # "none"
        /\ pc' # "kill" /\ UNCHANGED got
    BY <1>1, <1>4, <2>1 DEF ReadDir, Existing, kernel, Grows
  <2>3. \A p \in Pids : \A s \in got'[p] : SuitsSome(s, p)'
    BY <1>2, <2>2
  <2> QED
    BY <1>1, <2>2, <2>3 DEF Grows
<1>5. CASE ReadLink
  <2> DEFINE p == Least(entries)
  <2>1. CASE pc' = "kill"
    <3>1. p \in entries /\ p \in Pids /\ proc[p] = "live"
          /\ out' = OutSig(cur, Exe(p)) /\ UNCHANGED <<entries, got, image, proc>>
      BY <1>5, <2>1, LeastIn, ConstantFacts DEF ReadLink, LocalsType, kernel
    <3>2. Len(image[p]) \in DOMAIN image[p] /\ Exe(p) = image[p][Len(image[p])]
      BY <3>1 DEF KernelType, Exe
    <3>3. Suits(out', Exe(p))
      BY <3>1, OutSigSuits DEF LocalsType
    <3>4. SuitsSome(out, Least(entries))'
      BY <3>1, <3>2, <3>3 DEF SuitsSome
    <3>5. \A q \in Pids : \A s \in got'[q] : SuitsSome(s, q)'
      BY <1>2, <3>1
    <3> QED
      BY <3>1, <3>4, <3>5
  <2>2. CASE pc' # "kill"
    BY <1>3, <1>5, <2>2 DEF ReadLink, kernel
  <2> QED
    BY <2>1, <2>2
<1>6. CASE Kill
  <2> DEFINE p == Least(entries)
  <2>1. p \in entries /\ p \in Pids /\ proc[p] # "none" /\ SuitsSome(out, p)
    BY <1>6, LeastIn, ConstantFacts DEF Kill, LocalsType
  <2>2. got' = got \/ got' = [got EXCEPT ![p] = @ \cup {out}]
    BY <1>6 DEF Kill
  <2>3. \A q \in Pids : got'[q] # {} => proc[q] # "none"
    BY <2>1, <2>2 DEF KernelType
  <2>4. \A q \in Pids : \A s \in got'[q] : SuitsSome(s, q)
    <3>1. \A q \in Pids : got'[q] \subseteq got[q] \cup (IF q = p THEN {out} ELSE {})
      BY <2>1, <2>2 DEF KernelType
    <3> QED
      BY <2>1, <3>1
  <2>5. \A q \in Pids : \A s \in got'[q] : SuitsSome(s, q)'
    BY <1>2, <2>3, <2>4
  <2> QED
    BY <1>1, <1>6, <2>3, <2>5 DEF Kill, Grows
<1>7. CASE Environment
  BY <1>3, <1>7 DEF Environment, ProcForks, DockerExec, ProcExecs, ProcExits,
                    ParentReaps, SendSignal, locals
<1>8. CASE Delivery \/ Handler
  BY <1>3, <1>8 DEF Delivery, Deliver, Handler, ProxyLoad, ProxyStore,
                    SigchldHandler, kernel, locals
<1>9. CASE Main
  <2>1. CASE \/ BootFails \/ InstallHandlers \/ BlockSignals \/ ForkMain \/ ForkMainFails
             \/ Wake \/ SigsuspendReturns \/ ExitDrained \/ Poll
    BY <1>3, <2>1 DEF BootFails, InstallHandlers, BlockSignals, ForkMain, ForkMainFails,
                      Wake, SigsuspendReturns, ExitDrained, Poll, Leave, kernel, locals
  <2>2. CASE DrainZombies("drainZ", "handle") \/ DrainZombies("drain", "count")
    BY <1>3, <2>2 DEF DrainZombies, locals
  <2>3. CASE \/ HandlePending \/ NextSignal \/ HandledAll \/ OpenProc \/ OpenProcFails
             \/ ReadDirEnds \/ BufferFull \/ NextBuffer \/ SecondSweep \/ BroadcastEnds
    BY <1>3, <2>3 DEF HandlePending, NextSignal, HandledAll, LoopTop, OpenProc,
                      OpenProcFails, ReadDirEnds, BufferFull, NextBuffer, SecondSweep,
                      BroadcastEnds, kernel, locals
  <2> QED
    BY <1>4, <1>5, <1>6, <1>9, <2>1, <2>2, <2>3 DEF Main
<1>10. CASE UNCHANGED vars
  BY <1>3, <1>10 DEF vars, kernel, locals
<1> QED
  BY <1>7, <1>8, <1>9, <1>10 DEF Next, Exited

(* No web engine is ever sent SIGTERM while it is one, none but Apache is sent
   SIGWINCH: for all programs, forwarded signals and interleavings with exec. *)
THEOREM EnginesStopGracefully == Spec => []WebEnginesGraceful
<1> DEFINE Inv == TypeOK /\ SuitInv
<1>1. Init => Inv
  <2>1. Init => SuitInv
    BY DEF Init, SuitInv
  <2> QED
    BY <2>1, TypeInit
<1>2. Inv /\ [Next]_vars => Inv'
  BY TypeStep, SuitStep
<1>3. Inv => WebEnginesGraceful
  BY DEF SuitInv, SuitsSome, WebEnginesGraceful
<1> QED
  BY <1>1, <1>2, <1>3, PTL DEF Spec

------------------------------------------------------------------------------
(* A broadcast reaches every process. *)

(* In the second sweep a process that was alive at its start is, as long as it
   lives, still ahead of the listing, listed, signalled or hidden. *)
SweepInv ==
  /\ \A p \in due : proc[p] # "none"
  /\ pc = "kill" => entries # {}
  /\ pc \in {"list", "scan", "kill"} /\ sweep = 2 =>
       \A p \in due \cap Live : p > at \/ p \in entries \/ p \in reached \/ Hidden(p)

LEMMA SweepStep ==
  ASSUME TypeOK, SweepInv, ~ProcFails, [Next]_vars
  PROVE  SweepInv'
<1> USE TypeOK DEF TypeOK
<1>1. /\ Grows
      /\ \A p \in due : p \in Pids
      /\ \A p \in due \cap Live' : p \in due \cap Live
      /\ \A p \in due : Hidden(p) => Hidden(p)'
  <2>1. Grows
    BY HistoryGrows
  <2>2. \A p \in due : p \in Pids
    BY DEF LocalsType
  <2> QED
    BY <2>1, <2>2 DEF Grows, SweepInv, Live, Hidden
<1>2. \A p \in due : proc'[p] # "none"
  BY <1>1 DEF Grows, SweepInv
<1>3. ASSUME UNCHANGED <<entries, at, due, reached, sweep>>,
             pc' \in {"list", "scan", "kill"} => pc' = pc
      PROVE  SweepInv'
  BY <1>1, <1>2, <1>3 DEF SweepInv
<1>4. ASSUME pc' \notin {"list", "scan", "kill"}, due' \subseteq due \/ due' = Live
      PROVE  SweepInv'
  <2>1. \A p \in Live : proc'[p] # "none"
    BY <1>1 DEF Grows, Live
  <2> QED
    BY <1>2, <1>4, <2>1 DEF SweepInv
<1>5. CASE OpenProc
  <2>1. at' = 0 /\ UNCHANGED due /\ pc' # "kill"
    BY <1>5 DEF OpenProc
  <2>2. \A p \in due : p > 0
    BY <1>1, SizesAssumption DEF Pids
  <2> QED
    BY <1>2, <2>1, <2>2 DEF SweepInv
<1>6. CASE ReadDir
  <2>1. Least(ToList) \in ToList /\ \A q \in ToList : Least(ToList) <= q
    BY <1>6, LeastIn, ConstantFacts DEF ReadDir, ToList, Existing
  <2>2. Least(ToList) \in Nat /\ Pids \subseteq Nat
    BY <2>1, ConstantFacts DEF ToList, Existing
  <2>3. /\ entries' = entries \cup {Least(ToList)} /\ at' = Least(ToList)
        /\ pc \in {"list", "counting"} /\ UNCHANGED <<pc, due, reached, sweep, proc, image>>
    BY <1>6 DEF ReadDir, kernel
  <2>4. Live' = Live /\ \A p : Hidden(p)' = Hidden(p)
    BY <2>3 DEF Live, Hidden
  <2>5. ASSUME NEW p \in due \cap Live, p > at
        PROVE  p > at' \/ p \in entries'
    <3>1. p \in ToList /\ p \in Nat
      BY <2>2, <2>5 DEF ToList, Existing, Live
    <3> QED
      BY <2>1, <2>2, <2>3, <3>1
  <2> QED
    BY <1>2, <2>3, <2>4, <2>5 DEF SweepInv
<1>7. CASE ReadDirEnds
  <2>1. CASE pc = "counting"
    BY <1>4, <1>7, <2>1 DEF ReadDirEnds
  <2>2. CASE pc = "list"
    <3>1. pc' = "scan" /\ UNCHANGED <<due, entries, reached, sweep, proc, image>> /\ ToList = {}
      BY <1>7, <2>2 DEF ReadDirEnds, kernel
    <3>2. \A p \in Live : ~(p > at)
      BY <3>1 DEF Live, Existing, ToList
    <3>3. Live' = Live /\ \A p : Hidden(p)' = Hidden(p)
      BY <3>1 DEF Live, Hidden
    <3> QED
      BY <1>2, <2>2, <3>1, <3>2, <3>3 DEF SweepInv
  <2> QED
    BY <1>7, <2>1, <2>2 DEF ReadDirEnds
<1>8. CASE ReadLink
  <2> DEFINE p == Least(entries)
  <2>1. CASE pc' = "kill"
    BY <1>1, <1>2, <1>8, <2>1 DEF ReadLink, SweepInv
  <2>2. CASE pc' = "scan"
    <3>1. /\ entries' = entries \ {p} /\ ~(proc[p] = "live" /\ Exe(p) # Unreadable)
          /\ UNCHANGED <<at, due, reached, sweep, proc, image>> /\ pc = "scan"
      BY <1>8, <2>2 DEF ReadLink, kernel
    <3>2. p \in due \cap Live => Hidden(p)
      <4> SUFFICES ASSUME p \in due \cap Live PROVE Hidden(p)
        OBVIOUS
      <4>1. p \in Pids /\ Exe(p) = Unreadable /\ image[p] \in Seq(Images) /\ image[p] # <<>>
        BY <3>1 DEF Live, KernelType
      <4>2. Len(image[p]) \in DOMAIN image[p]
        BY <4>1
      <4> QED
        BY <4>1, <4>2 DEF Exe, Hidden
    <3>3. Live' = Live /\ \A q : Hidden(q)' = Hidden(q)
      BY <3>1 DEF Live, Hidden
    <3> HIDE DEF p
    <3> QED
      BY <1>2, <2>2, <3>1, <3>2, <3>3 DEF SweepInv
  <2> QED
    BY <1>8, <2>1, <2>2 DEF ReadLink
<1>9. CASE Kill
  <2> DEFINE p == Least(entries)
  <2>1. /\ entries' = entries \ {p} /\ pc = "kill" /\ pc' = "scan"
        /\ UNCHANGED <<at, due, sweep, proc, image>>
        /\ reached \subseteq reached' /\ (p \in Existing => p \in reached')
    BY <1>9 DEF Kill
  <2>2. Live' = Live /\ \A q : Hidden(q)' = Hidden(q)
    BY <2>1 DEF Live, Hidden
  <2>3. \A q \in Live : q \in Existing
    BY DEF Live, Existing
  <2> HIDE DEF p
  <2> QED
    BY <1>2, <2>1, <2>2, <2>3 DEF SweepInv
<1>10. CASE SecondSweep
  BY <1>4, <1>10 DEF SecondSweep
<1>11. CASE NextSignal
  BY <1>4, <1>11 DEF NextSignal
<1>12. CASE OpenProcFails
  BY <1>12 DEF OpenProcFails
<1>17. CASE BufferFull \/ NextBuffer
  <2>1. pc \in {"list", "scan"} /\ pc' # "kill" /\ UNCHANGED <<entries, at, due, reached, sweep>>
    BY <1>17 DEF BufferFull, NextBuffer, locals
  <2> QED
    BY <1>1, <1>2, <2>1 DEF SweepInv
<1>13. CASE Environment
  BY <1>3, <1>13 DEF Environment, ProcForks, DockerExec, ProcExecs, ProcExits,
                     ParentReaps, SendSignal, locals
<1>14. CASE Delivery \/ Handler
  BY <1>3, <1>14 DEF Delivery, Deliver, Handler, ProxyLoad, ProxyStore,
                     SigchldHandler, locals
<1>15. CASE Main
  <2>1. CASE \/ InstallHandlers \/ BlockSignals \/ ForkMain \/ Wake \/ SigsuspendReturns
             \/ BootFails \/ ForkMainFails \/ ExitDrained
             \/ DrainZombies("drainZ", "handle") \/ DrainZombies("drain", "count")
    BY <1>3, <2>1 DEF InstallHandlers, BlockSignals, ForkMain, Wake, SigsuspendReturns,
                      BootFails, ForkMainFails, ExitDrained, Leave, DrainZombies, locals
  <2>2. CASE HandlePending \/ HandledAll \/ BroadcastEnds \/ Poll
    BY <1>3, <2>2 DEF HandlePending, HandledAll, LoopTop, BroadcastEnds, Poll, locals
  <2> QED
    BY <1>5, <1>6, <1>7, <1>8, <1>9, <1>10, <1>11, <1>12, <1>15, <1>17,
       <2>1, <2>2 DEF Main
<1>16. CASE UNCHANGED vars
  BY <1>3, <1>16 DEF vars, locals
<1> QED
  BY <1>13, <1>14, <1>15, <1>16 DEF Next, Exited

(* The end of a broadcast is the end of its second sweep. *)
LEMMA OnlyBroadcastEnds ==
  ASSUME [Next]_vars, pc = "scan", pc' = "next"
  PROVE  entries = {} /\ at = MaxPid /\ sweep = 2 /\ due' = due
<1>1. CASE Environment \/ Delivery \/ Handler \/ Exited \/ UNCHANGED vars
  BY <1>1 DEF Environment, ProcForks, DockerExec, ProcExecs, ProcExits, ParentReaps,
              SendSignal, Delivery, Deliver, Handler, ProxyLoad, ProxyStore,
              SigchldHandler, Exited, vars
<1>2. CASE Main
  BY <1>2 DEF Main, BootFails, InstallHandlers, BlockSignals, ForkMain, ForkMainFails,
              Wake, SigsuspendReturns, DrainZombies, HandlePending, NextSignal,
              HandledAll, OpenProc, OpenProcFails, ReadDir, ReadDirEnds, BufferFull,
              NextBuffer, ReadLink, Kill, SecondSweep, BroadcastEnds, ExitDrained, Poll
<1> QED
  BY <1>1, <1>2 DEF Next

(* Where /proc can be opened, a broadcast misses no process that is alive when
   its first sweep ends: not one forked during that sweep by a process already
   signalled, whatever the number of processes. *)
THEOREM BroadcastMissesNone == ~ProcFails => (Spec => BroadcastReachesAll)
<1> SUFFICES ASSUME ~ProcFails PROVE Spec => BroadcastReachesAll
  OBVIOUS
<1> DEFINE Inv == TypeOK /\ SweepInv
<1>1. Init => Inv
  <2>1. Init => SweepInv
    BY DEF Init, SweepInv
  <2> QED
    BY <2>1, TypeInit
<1>2. Inv /\ [Next]_vars => Inv'
  BY TypeStep, SweepStep
<1>3. Inv /\ [Next]_vars =>
        [pc = "scan" /\ pc' = "next" =>
           \A p \in due' \cap Live : p \in reached \/ Hidden(p)]_vars
  <2>1. TypeOK => \A p \in due : ~(p > MaxPid)
    BY SizesAssumption DEF TypeOK, LocalsType, Pids
  <2> QED
    BY OnlyBroadcastEnds, <2>1 DEF SweepInv
<1> QED
  BY <1>1, <1>2, <1>3, PTL DEF Spec, BroadcastReachesAll
=============================================================================
