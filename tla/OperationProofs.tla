--------------------------- MODULE OperationProofs ----------------------------
(***************************************************************************)
(* What holds of the signal traps in every sequence of operations, for     *)
(* every number of signals, whichever thread they are delivered to and     *)
(* however long their handlers take.                                       *)
(***************************************************************************)
EXTENDS Operation, SequenceTheorems, TLAPS

Statements == [do : {"clear", "raise", "lower", "take", "note", "restore", "forget"}, sig : Trapped \cup {"both"}]

Dispositions == {"app", "trap", "default"}

Frames == [sig : Trapped, at : {"entered", "count", "chain"}, of : Nat]

Left == Len(todo)

(* How many statements the functions have left when they come to note or forget s. *)
Order == [s \in Trapped |-> IF s = "SIGINT" THEN 2 ELSE 0]

(* TuxDock's handler is in place, and known to be. *)
Placed(s) == \/ phase = "running"
             \/ phase = "installing" /\ Left <= Order[s] + 1
             \/ phase = "removing" /\ Left > Order[s] + 1
Noted(s) == \/ phase = "running"
            \/ phase = "installing" /\ Left <= Order[s]
            \/ phase = "removing" /\ Left > Order[s]

ControlTypes == /\ todo \in Seq(Statements) /\ Len(todo) <= 6
                /\ phase \in {"free", "installing", "running", "removing"}
                /\ operation \in Nat
                /\ busy \in BOOLEAN /\ held \in BOOLEAN

SwitchTypes == /\ installed \subseteq Trapped
               /\ previous \in [Trapped -> Dispositions]
               /\ disposition \in [Trapped -> Dispositions]

FrameTypes == frames \in [Threads -> Seq(Frames)]

(* The UI thread is where its phase and the statements that are left say. *)
Progress ==
    /\ phase \in {"free", "running"} => todo = <<>>
    /\ phase = "installing" => \A n \in 1..Left : todo[n] = InstallSignalTraps[6 - Left + n]
    /\ phase = "removing" => \A n \in 1..Left : todo[n] = RemoveSignalTraps[6 - Left + n]
    /\ busy <=> \/ phase = "installing" /\ Left <= 4
                \/ phase = "running"
                \/ phase = "removing" /\ Left = 6
    /\ held <=> phase = "running"
    /\ phase # "free" => operation >= 1

(* The flags, the handlers and what is kept of the earlier ones agree with it. *)
Switched == \A s \in Trapped :
    /\ s \in installed <=> Noted(s)
    /\ Placed(s) => disposition[s] # "app"
    /\ ~Placed(s) => disposition[s] # "trap"
    /\ disposition[s] = "default" => s \in strayed
    /\ Placed(s) \/ Noted(s) => previous[s] = "app" \/ (previous[s] = "default" /\ s \in strayed)

(* A handler about to chain, or entered before the flag is up, is not of the present operation. *)
FramesWhere == \A t \in Threads : \A n \in 1..Len(frames[t]) :
    /\ frames[t][n].of <= operation
    /\ phase = "installing" /\ ~busy => frames[t][n].of < operation
    /\ phase \in {"installing", "running"} /\ frames[t][n].at = "chain" => frames[t][n].of < operation

(* A handler on the UI thread stops the functions that change what it tests. *)
UIFrames == \A n \in 1..Len(frames["ui"]) :
    /\ frames["ui"][n].at = "chain" => ~busy
    /\ ~busy /\ frames["ui"][n].sig \notin strayed
           => frames["ui"][n].sig \in installed /\ previous[frames["ui"][n].sig] = "app"

Shown == /\ busy => swallowed \subseteq noticed
         /\ phase = "installing" /\ ~busy => swallowed = {}

TrapInv == ControlTypes /\ SwitchTypes /\ FrameTypes /\ Progress /\ Switched /\ FramesWhere /\ UIFrames /\ Shown /\ Undisturbed

-----------------------------------------------------------------------------
(* Stacks of handlers. *)

LEMMA PushFrame ==
    ASSUME NEW S, NEW q \in Seq(S), NEW x \in S
    PROVE  /\ Append(q, x) \in Seq(S) /\ Len(Append(q, x)) = Len(q) + 1 /\ Len(q) \in Nat
           /\ \A n \in 1..Len(q) : Append(q, x)[n] = q[n]
           /\ Append(q, x)[Len(q) + 1] = x
OBVIOUS

LEMMA PopFrame ==
    ASSUME NEW S, NEW q \in Seq(S), q # <<>>
    PROVE  /\ SubSeq(q, 1, Len(q) - 1) \in Seq(S) /\ Len(SubSeq(q, 1, Len(q) - 1)) = Len(q) - 1
           /\ Len(q) \in Nat /\ Len(q) >= 1 /\ q[Len(q)] \in S
           /\ \A n \in 1..(Len(q) - 1) : SubSeq(q, 1, Len(q) - 1)[n] = q[n]
<1>1. Len(q) \in Nat /\ Len(q) >= 1 /\ q[Len(q)] \in S
  OBVIOUS
<1>2. \A i \in 1..(Len(q) - 1) : q[i] \in S
  OBVIOUS
<1>3. /\ SubSeq(q, 1, Len(q) - 1) \in Seq(S)
      /\ Len(SubSeq(q, 1, Len(q) - 1)) = IF 1 <= Len(q) - 1 THEN (Len(q) - 1) - 1 + 1 ELSE 0
      /\ \A n \in 1..((Len(q) - 1) - 1 + 1) : SubSeq(q, 1, Len(q) - 1)[n] = q[1 + n - 1]
  BY <1>1, <1>2, SubSeqProperties
<1> DEFINE p == SubSeq(q, 1, Len(q) - 1)
           l == Len(q)
<1>4. p \in Seq(S) /\ Len(p) = IF 1 <= l - 1 THEN (l - 1) - 1 + 1 ELSE 0
  BY <1>3
<1>5. \A n \in 1..((l - 1) - 1 + 1) : p[n] = q[1 + n - 1]
  BY <1>3
<1> HIDE DEF p
<1>6. Len(p) = l - 1
  <2>1. l \in Nat /\ l >= 1
    BY <1>1
  <2> HIDE DEF l
  <2>2. (IF 1 <= l - 1 THEN (l - 1) - 1 + 1 ELSE 0) = l - 1
    BY <2>1
  <2> QED BY <1>4, <2>2
<1>7. \A n \in 1..(l - 1) : p[n] = q[n]
  <2> HIDE DEF l
  <2>1. l \in Nat /\ \A n \in 1..(l - 1) : 1 + n - 1 = n
    BY <1>1 DEF l
  <2>2. 1..((l - 1) - 1 + 1) = 1..(l - 1)
    BY <2>1
  <2> QED BY <1>5, <2>1, <2>2
<1> QED BY <1>1, <1>4, <1>6, <1>7 DEF p

LEMMA NextStatement ==
    ASSUME NEW S, NEW q \in Seq(S), q # <<>>
    PROVE  /\ Head(q) = q[1] /\ Head(q) \in S /\ Tail(q) \in Seq(S)
           /\ Len(q) \in Nat /\ Len(q) >= 1 /\ Len(Tail(q)) = Len(q) - 1
           /\ \A n \in 1..(Len(q) - 1) : Tail(q)[n] = q[n + 1]
OBVIOUS

-----------------------------------------------------------------------------
(* The invariant holds at the start and is kept by every step. *)

LEMMA FrameAt ==
    ASSUME NEW q \in Seq(Frames), NEW n \in 1..Len(q)
    PROVE  /\ q[n] \in Frames /\ q[n].of \in Nat /\ q[n].sig \in Trapped
           /\ q # <<>> /\ Len(q) \in Nat
<1>1. q[n] \in Frames
  OBVIOUS
<1>2. q[n].of \in Nat /\ q[n].sig \in Trapped
  BY <1>1 DEF Frames
<1> QED BY <1>1, <1>2

LEMMA TrapInvInit == Init => TrapInv
<1> SUFFICES ASSUME Init PROVE TrapInv
  OBVIOUS
<1> USE DEF Init, TrapsInit
<1>1. <<>> \in Seq(Statements) /\ <<>> \in Seq(Frames) /\ Len(<<>>) = 0
  OBVIOUS
<1>2. ControlTypes
  <2>1. todo \in Seq(Statements) /\ Len(todo) <= 6
    BY <1>1
  <2> QED BY <2>1 DEF ControlTypes
<1>3. FrameTypes
  BY <1>1 DEF FrameTypes
<1>4. SwitchTypes
  BY DEF SwitchTypes, Dispositions
<1>5. Progress /\ Shown /\ Undisturbed
  BY DEF Progress, Shown, Undisturbed
<1>6. \A s \in Trapped : ~Placed(s) /\ ~Noted(s)
  BY DEF Placed, Noted
<1>7. Switched
  BY <1>6 DEF Switched
<1>8. FramesWhere /\ UIFrames
  BY DEF FramesWhere, UIFrames, Threads
<1> QED BY <1>2, <1>3, <1>4, <1>5, <1>7, <1>8 DEF TrapInv

LEMMA TrapInvKept ==
    ASSUME TrapInv, UNCHANGED <<todo, switches, frames, history, phase>>
    PROVE  TrapInv'
BY DEF switches, history, TrapInv, ControlTypes, SwitchTypes, FrameTypes, Progress, Switched, FramesWhere, UIFrames,
       Shown, Undisturbed, Placed, Noted, Left

LEMMA InstallList ==
    /\ InstallSignalTraps \in Seq(Statements) /\ Len(InstallSignalTraps) = 6
    /\ RemoveSignalTraps \in Seq(Statements) /\ Len(RemoveSignalTraps) = 6
BY DEF InstallSignalTraps, RemoveSignalTraps, Do, Statements, Trapped

LEMMA BeginInv == TrapInv /\ BeginBusyOperation => TrapInv'
<1> SUFFICES ASSUME TrapInv, BeginBusyOperation PROVE TrapInv'
  OBVIOUS
<1>1. /\ phase = "free" /\ phase' = "installing" /\ todo' = InstallSignalTraps
      /\ operation' = operation + 1 /\ swallowed' = {}
      /\ UNCHANGED <<busy, noticed, installed, previous, disposition, frames, held, disturbed, strayed>>
  BY DEF BeginBusyOperation, switches
<1>2. ControlTypes /\ SwitchTypes /\ FrameTypes /\ Progress /\ Switched /\ FramesWhere /\ UIFrames /\ Shown /\ Undisturbed
  BY DEF TrapInv
<1>3. ~busy /\ ~held /\ operation \in Nat
  BY <1>1, <1>2 DEF Progress, ControlTypes
<1>4. ControlTypes' /\ SwitchTypes' /\ FrameTypes'
  <2>1. todo' \in Seq(Statements) /\ Len(todo') <= 6
    BY <1>1, InstallList
  <2>2. ControlTypes'
    BY <1>1, <1>2, <1>3, <2>1 DEF ControlTypes
  <2> QED BY <1>1, <1>2, <2>2 DEF SwitchTypes, FrameTypes
<1>5. Left' = 6
  BY <1>1, InstallList DEF Left
<1>6. Progress'
  <2>1. \A n \in 1..6 : todo'[n] = InstallSignalTraps[6 - 6 + n]
    BY <1>1
  <2> QED BY <1>1, <1>3, <1>5, <2>1 DEF Progress
<1>7. Switched'
  <2>1. \A s \in Trapped : ~Placed(s) /\ ~Noted(s) /\ ~Placed(s)' /\ ~Noted(s)'
    BY <1>1, <1>5 DEF Placed, Noted, Order, Trapped
  <2> QED BY <1>1, <1>2, <2>1 DEF Switched
<1>8. FramesWhere'
  <2> SUFFICES ASSUME NEW t \in Threads, NEW n \in 1..Len(frames[t])
               PROVE  frames[t][n].of <= operation + 1 /\ frames[t][n].of < operation + 1
    BY <1>1 DEF FramesWhere
  <2>1. frames[t][n].of \in Nat
    BY <1>2, FrameAt DEF FrameTypes
  <2>2. frames[t][n].of <= operation
    BY <1>2 DEF FramesWhere
  <2> QED BY <1>3, <2>1, <2>2
<1>9. UIFrames' /\ Shown' /\ Undisturbed'
  BY <1>1, <1>2, <1>3 DEF UIFrames, Shown, Undisturbed
<1> QED BY <1>4, <1>6, <1>7, <1>8, <1>9 DEF TrapInv

LEMMA StartInv == TrapInv /\ StartThread => TrapInv'
<1> SUFFICES ASSUME TrapInv, StartThread PROVE TrapInv'
  OBVIOUS
<1>1. /\ phase = "installing" /\ todo = <<>> /\ phase' = "running" /\ held' = TRUE
      /\ UNCHANGED <<todo, busy, noticed, installed, previous, disposition, frames, operation, swallowed, disturbed, strayed>>
  BY DEF StartThread, switches
<1>2. ControlTypes /\ SwitchTypes /\ FrameTypes /\ Progress /\ Switched /\ FramesWhere /\ UIFrames /\ Shown /\ Undisturbed
  BY DEF TrapInv
<1>3. Left = 0 /\ Left' = 0
  BY <1>1 DEF Left
<1>4. busy /\ operation >= 1
  BY <1>1, <1>2, <1>3 DEF Progress
<1>5. ControlTypes' /\ SwitchTypes' /\ FrameTypes'
  BY <1>1, <1>2 DEF ControlTypes, SwitchTypes, FrameTypes
<1>6. Progress'
  BY <1>1, <1>4 DEF Progress
<1>7. Switched'
  <2>1. \A s \in Trapped : Placed(s) /\ Noted(s) /\ Placed(s)' /\ Noted(s)'
    BY <1>1, <1>3 DEF Placed, Noted, Order, Trapped
  <2> QED BY <1>1, <1>2, <2>1 DEF Switched
<1>8. FramesWhere'
  BY <1>1, <1>2 DEF FramesWhere
<1>9. UIFrames' /\ Shown' /\ Undisturbed'
  BY <1>1, <1>2 DEF UIFrames, Shown, Undisturbed
<1> QED BY <1>5, <1>6, <1>7, <1>8, <1>9 DEF TrapInv

LEMMA CompleteInv == TrapInv /\ Complete_ => TrapInv'
<1> SUFFICES ASSUME TrapInv, Complete_ PROVE TrapInv'
  OBVIOUS
<1>1. /\ phase = "running" /\ phase' = "removing" /\ held' = FALSE /\ todo' = RemoveSignalTraps
      /\ UNCHANGED <<busy, noticed, installed, previous, disposition, frames, operation, swallowed, disturbed, strayed>>
  BY DEF Complete_, switches
<1>2. ControlTypes /\ SwitchTypes /\ FrameTypes /\ Progress /\ Switched /\ FramesWhere /\ UIFrames /\ Shown /\ Undisturbed
  BY DEF TrapInv
<1>3. Left' = 6
  BY <1>1, InstallList DEF Left
<1>4. busy /\ operation >= 1
  BY <1>1, <1>2 DEF Progress
<1>5. ControlTypes' /\ SwitchTypes' /\ FrameTypes'
  <2>1. todo' \in Seq(Statements) /\ Len(todo') <= 6
    BY <1>1, InstallList
  <2>2. ControlTypes'
    BY <1>1, <1>2, <2>1 DEF ControlTypes
  <2> QED BY <1>1, <1>2, <2>2 DEF SwitchTypes, FrameTypes
<1>6. Progress'
  <2>1. \A n \in 1..6 : todo'[n] = RemoveSignalTraps[6 - 6 + n]
    BY <1>1
  <2> QED BY <1>1, <1>3, <1>4, <2>1 DEF Progress
<1>7. Switched'
  <2>1. \A s \in Trapped : Placed(s) /\ Noted(s) /\ Placed(s)' /\ Noted(s)'
    BY <1>1, <1>3 DEF Placed, Noted, Order, Trapped
  <2> QED BY <1>1, <1>2, <2>1 DEF Switched
<1>8. FramesWhere'
  BY <1>1, <1>2 DEF FramesWhere
<1>9. UIFrames' /\ Shown' /\ Undisturbed'
  BY <1>1, <1>2 DEF UIFrames, Shown, Undisturbed
<1> QED BY <1>5, <1>6, <1>7, <1>8, <1>9 DEF TrapInv

LEMMA CompletedInv == TrapInv /\ Completed => TrapInv'
<1> SUFFICES ASSUME TrapInv, Completed PROVE TrapInv'
  OBVIOUS
<1>1. /\ phase = "removing" /\ todo = <<>> /\ phase' = "free"
      /\ UNCHANGED <<todo, busy, noticed, installed, previous, disposition, frames,
                     operation, held, swallowed, disturbed, strayed>>
  BY DEF Completed, traps, switches, history
<1>2. ControlTypes /\ SwitchTypes /\ FrameTypes /\ Progress /\ Switched /\ FramesWhere /\ UIFrames /\ Shown /\ Undisturbed
  BY DEF TrapInv
<1>3. Left = 0 /\ Left' = 0
  BY <1>1 DEF Left
<1>4. ~busy /\ ~held
  BY <1>1, <1>2, <1>3 DEF Progress
<1>5. ControlTypes' /\ SwitchTypes' /\ FrameTypes'
  BY <1>1, <1>2 DEF ControlTypes, SwitchTypes, FrameTypes
<1>6. Progress'
  BY <1>1, <1>4 DEF Progress
<1>7. Switched'
  <2>1. \A s \in Trapped : ~Placed(s) /\ ~Noted(s) /\ ~Placed(s)' /\ ~Noted(s)'
    BY <1>1, <1>3 DEF Placed, Noted, Order, Trapped
  <2> QED BY <1>1, <1>2, <2>1 DEF Switched
<1>8. FramesWhere'
  BY <1>1, <1>2 DEF FramesWhere
<1>9. UIFrames' /\ Shown' /\ Undisturbed'
  BY <1>1, <1>2, <1>4 DEF UIFrames, Shown, Undisturbed
<1> QED BY <1>5, <1>6, <1>7, <1>8, <1>9 DEF TrapInv

(* The twelve statements, by what is left of the function they are in. *)
LEMMA WhichStatement ==
    ASSUME ControlTypes, Progress, todo # <<>>
    PROVE  /\ Left \in 1..6 /\ Tail(todo) \in Seq(Statements) /\ Len(Tail(todo)) = Left - 1
           /\ phase \in {"installing", "removing"}
           /\ phase = "installing" => Head(todo) = InstallSignalTraps[7 - Left]
           /\ phase = "removing" => Head(todo) = RemoveSignalTraps[7 - Left]
           /\ \A n \in 1..(Left - 1) : Tail(todo)[n] = todo[n + 1]
<1>1. /\ Head(todo) = todo[1] /\ Tail(todo) \in Seq(Statements)
      /\ Len(todo) \in Nat /\ Len(todo) >= 1 /\ Len(Tail(todo)) = Len(todo) - 1
      /\ \A n \in 1..(Len(todo) - 1) : Tail(todo)[n] = todo[n + 1]
  BY NextStatement DEF ControlTypes
<1>2. Left \in 1..6
  BY <1>1 DEF ControlTypes, Left
<1>3. phase \in {"installing", "removing"}
  BY DEF ControlTypes, Progress
<1>4. 1 \in 1..Left /\ 6 - Left + 1 = 7 - Left
  BY <1>2
<1>5. /\ phase = "installing" => todo[1] = InstallSignalTraps[7 - Left]
      /\ phase = "removing" => todo[1] = RemoveSignalTraps[7 - Left]
  BY <1>4 DEF Progress
<1> QED BY <1>1, <1>2, <1>3, <1>5 DEF Left

LEMMA InstallIs ==
    /\ InstallSignalTraps[1] = Do("clear", "both")   /\ InstallSignalTraps[2] = Do("raise", "both")
    /\ InstallSignalTraps[3] = Do("take", "SIGINT")  /\ InstallSignalTraps[4] = Do("note", "SIGINT")
    /\ InstallSignalTraps[5] = Do("take", "SIGTSTP") /\ InstallSignalTraps[6] = Do("note", "SIGTSTP")
BY DEF InstallSignalTraps

LEMMA RemoveIs ==
    /\ RemoveSignalTraps[1] = Do("lower", "both")      /\ RemoveSignalTraps[2] = Do("clear", "both")
    /\ RemoveSignalTraps[3] = Do("restore", "SIGINT")  /\ RemoveSignalTraps[4] = Do("forget", "SIGINT")
    /\ RemoveSignalTraps[5] = Do("restore", "SIGTSTP") /\ RemoveSignalTraps[6] = Do("forget", "SIGTSTP")
BY DEF RemoveSignalTraps

(* The switches before and after, statement by statement. *)
Runs(p, l, do, s) == phase = p /\ Left = l /\ Execute(do, s)

LEMMA StatementIs ==
    ASSUME TrapInv, Statement
    PROVE  \/ Runs("installing", 6, "clear", "both")  \/ Runs("installing", 5, "raise", "both")
           \/ Runs("installing", 4, "take", "SIGINT")  \/ Runs("installing", 3, "note", "SIGINT")
           \/ Runs("installing", 2, "take", "SIGTSTP") \/ Runs("installing", 1, "note", "SIGTSTP")
           \/ Runs("removing", 6, "lower", "both")    \/ Runs("removing", 5, "clear", "both")
           \/ Runs("removing", 4, "restore", "SIGINT") \/ Runs("removing", 3, "forget", "SIGINT")
           \/ Runs("removing", 2, "restore", "SIGTSTP") \/ Runs("removing", 1, "forget", "SIGTSTP")
<1>1. ControlTypes /\ Progress /\ todo # <<>> /\ Execute(Head(todo).do, Head(todo).sig)
  BY DEF TrapInv, Statement
<1>2. /\ Left \in 1..6 /\ phase \in {"installing", "removing"}
      /\ phase = "installing" => Head(todo) = InstallSignalTraps[7 - Left]
      /\ phase = "removing" => Head(todo) = RemoveSignalTraps[7 - Left]
  BY <1>1, WhichStatement
<1>3. \A do, s : Do(do, s).do = do /\ Do(do, s).sig = s
  BY DEF Do
<1>4. CASE Left = 6
  BY <1>1, <1>2, <1>3, <1>4, InstallIs, RemoveIs DEF Runs
<1>5. CASE Left = 5
  BY <1>1, <1>2, <1>3, <1>5, InstallIs, RemoveIs DEF Runs
<1>6. CASE Left = 4
  BY <1>1, <1>2, <1>3, <1>6, InstallIs, RemoveIs DEF Runs
<1>7. CASE Left = 3
  BY <1>1, <1>2, <1>3, <1>7, InstallIs, RemoveIs DEF Runs
<1>8. CASE Left = 2
  BY <1>1, <1>2, <1>3, <1>8, InstallIs, RemoveIs DEF Runs
<1>9. CASE Left = 1
  BY <1>1, <1>2, <1>3, <1>9, InstallIs, RemoveIs DEF Runs
<1> QED BY <1>2, <1>4, <1>5, <1>6, <1>7, <1>8, <1>9

LEMMA ExecuteIs ==
    ASSUME NEW s
    PROVE  /\ Execute("clear", s) => noticed' = {} /\ UNCHANGED <<busy, installed, previous, disposition>>
           /\ Execute("raise", s) => busy' = TRUE /\ UNCHANGED <<noticed, installed, previous, disposition>>
           /\ Execute("lower", s) => busy' = FALSE /\ UNCHANGED <<noticed, installed, previous, disposition>>
           /\ Execute("note", s) => installed' = installed \cup {s} /\ UNCHANGED <<busy, noticed, previous, disposition>>
           /\ Execute("forget", s) => installed' = installed \ {s} /\ UNCHANGED <<busy, noticed, previous, disposition>>
           /\ Execute("take", s) /\ s \notin installed =>
                  /\ previous' = [previous EXCEPT ![s] = disposition[s]]
                  /\ disposition' = [disposition EXCEPT ![s] = "trap"]
           /\ Execute("restore", s) /\ s \in installed =>
                  previous' = previous /\ disposition' = [disposition EXCEPT ![s] = previous[s]]
           /\ Execute("take", s) \/ Execute("restore", s) => UNCHANGED <<busy, noticed, installed>>
BY DEF Execute

(* What a statement of either function does to the handler of one signal, x. *)
Others(x) == \A y \in Trapped \ {x} : (Placed(y)' <=> Placed(y)) /\ (Noted(y)' <=> Noted(y))

LEMMA TakeSwitched ==
    ASSUME SwitchTypes, Switched, strayed' = strayed, NEW x \in Trapped, Execute("take", x),
           ~Placed(x), ~Noted(x), Placed(x)', ~Noted(x)', Others(x)
    PROVE  Switched'
<1>1. x \notin installed
  BY DEF Switched
<1>2. /\ installed' = installed
      /\ previous' = [previous EXCEPT ![x] = disposition[x]]
      /\ disposition' = [disposition EXCEPT ![x] = "trap"]
  BY <1>1, ExecuteIs
<1>3. /\ previous'[x] = disposition[x] /\ disposition'[x] = "trap"
      /\ \A y \in Trapped \ {x} : previous'[y] = previous[y] /\ disposition'[y] = disposition[y]
  BY <1>2 DEF SwitchTypes
<1>4. disposition[x] \in {"app", "default"} /\ (disposition[x] = "default" => x \in strayed)
  BY DEF Switched, SwitchTypes, Dispositions
<1> QED BY <1>2, <1>3, <1>4 DEF Switched, Others

LEMMA NoteSwitched ==
    ASSUME SwitchTypes, Switched, strayed' = strayed, NEW x \in Trapped, Execute("note", x),
           Placed(x), ~Noted(x), Placed(x)', Noted(x)', Others(x)
    PROVE  Switched'
<1>1. installed' = installed \cup {x} /\ previous' = previous /\ disposition' = disposition
  BY ExecuteIs
<1> QED BY <1>1 DEF Switched, Others

LEMMA RestoreSwitched ==
    ASSUME SwitchTypes, Switched, strayed' = strayed, NEW x \in Trapped, Execute("restore", x),
           Placed(x), Noted(x), ~Placed(x)', Noted(x)', Others(x)
    PROVE  Switched'
<1>1. x \in installed
  BY DEF Switched
<1>2. installed' = installed /\ previous' = previous /\ disposition' = [disposition EXCEPT ![x] = previous[x]]
  BY <1>1, ExecuteIs
<1>3. disposition'[x] = previous[x] /\ \A y \in Trapped \ {x} : disposition'[y] = disposition[y]
  BY <1>2 DEF SwitchTypes
<1>4. previous[x] = "app" \/ (previous[x] = "default" /\ x \in strayed)
  BY DEF Switched
<1> QED BY <1>2, <1>3, <1>4 DEF Switched, Others

LEMMA ForgetSwitched ==
    ASSUME SwitchTypes, Switched, strayed' = strayed, NEW x \in Trapped, Execute("forget", x),
           ~Placed(x), Noted(x), ~Placed(x)', ~Noted(x)', Others(x)
    PROVE  Switched'
<1>1. installed' = installed \ {x} /\ previous' = previous /\ disposition' = disposition
  BY ExecuteIs
<1> QED BY <1>1 DEF Switched, Others

LEMMA StatementInv == TrapInv /\ Statement /\ phase' = phase => TrapInv'
<1> SUFFICES ASSUME TrapInv, Statement, phase' = phase PROVE TrapInv'
  OBVIOUS
<1>1. /\ todo # <<>> /\ todo' = Tail(todo) /\ frames["ui"] = <<>>
      /\ UNCHANGED <<frames, operation, held, swallowed, disturbed, strayed>>
  BY DEF Statement, UIRuns, history
<1>2. ControlTypes /\ SwitchTypes /\ FrameTypes /\ Progress /\ Switched /\ FramesWhere /\ UIFrames /\ Shown /\ Undisturbed
  BY DEF TrapInv
<1>3. /\ Left \in 1..6 /\ Tail(todo) \in Seq(Statements) /\ Len(Tail(todo)) = Left - 1
      /\ phase \in {"installing", "removing"}
      /\ \A n \in 1..(Left - 1) : Tail(todo)[n] = todo[n + 1]
  BY <1>1, <1>2, WhichStatement
<1>4. Left' = Left - 1
  BY <1>1, <1>3 DEF Left
<1>5. \/ Runs("installing", 6, "clear", "both")  \/ Runs("installing", 5, "raise", "both")
      \/ Runs("installing", 4, "take", "SIGINT")  \/ Runs("installing", 3, "note", "SIGINT")
      \/ Runs("installing", 2, "take", "SIGTSTP") \/ Runs("installing", 1, "note", "SIGTSTP")
      \/ Runs("removing", 6, "lower", "both")    \/ Runs("removing", 5, "clear", "both")
      \/ Runs("removing", 4, "restore", "SIGINT") \/ Runs("removing", 3, "forget", "SIGINT")
      \/ Runs("removing", 2, "restore", "SIGTSTP") \/ Runs("removing", 1, "forget", "SIGTSTP")
  BY StatementIs
<1>6. /\ busy' <=> \/ phase = "installing" /\ Left - 1 <= 4
                   \/ phase = "removing" /\ Left - 1 = 6
      /\ busy' \in BOOLEAN
  <2>1. busy \in BOOLEAN /\ phase # "running"
    BY <1>2, <1>3 DEF ControlTypes
  <2>2. busy <=> \/ phase = "installing" /\ Left <= 4
                 \/ phase = "removing" /\ Left = 6
    BY <1>2, <2>1 DEF Progress
  <2>3. CASE Runs("installing", 5, "raise", "both")
    <3>1. busy' = TRUE
      BY <2>3, ExecuteIs DEF Runs
    <3> QED BY <2>3, <3>1 DEF Runs
  <2>4. CASE Runs("removing", 6, "lower", "both")
    <3>1. busy' = FALSE /\ Left = 6 /\ phase = "removing"
      BY <2>4, ExecuteIs DEF Runs
    <3>2. ~busy' /\ busy' \in BOOLEAN
      BY <3>1, Zenon
    <3>3. Left - 1 # 6 /\ phase # "installing"
      BY <3>1
    <3> QED BY <3>2, <3>3
  <2>5. CASE ~Runs("installing", 5, "raise", "both") /\ ~Runs("removing", 6, "lower", "both")
    <3>1. busy' = busy
      BY <1>5, <2>5, ExecuteIs DEF Runs
    <3>2. (phase = "installing" /\ Left # 5) \/ (phase = "removing" /\ Left # 6)
      BY <1>5, <2>5 DEF Runs
    <3>3. (Left <= 4 <=> Left - 1 <= 4) \/ Left = 5
      BY <1>3
    <3>4. Left - 1 # 6
      BY <1>3
    <3> QED BY <2>1, <2>2, <3>1, <3>2, <3>3, <3>4
  <2> QED BY <2>3, <2>4, <2>5
<1>7. ControlTypes' /\ FrameTypes'
  <2>1. todo' \in Seq(Statements) /\ Len(todo') <= 6
    BY <1>1, <1>3
  <2> QED BY <1>1, <1>2, <1>6, <2>1 DEF ControlTypes, FrameTypes
<1>8. SwitchTypes'
  BY <1>2, <1>5 DEF SwitchTypes, Runs, Execute, Trapped, Dispositions
<1>9. Progress'
  <2>1. \A n \in 1..(Left - 1) : n + 1 \in 1..Left /\ 6 - Left + (n + 1) = 6 - (Left - 1) + n
    BY <1>3
  <2>2. phase = "installing" => \A n \in 1..(Left - 1) : todo'[n] = InstallSignalTraps[6 - (Left - 1) + n]
    BY <1>1, <1>2, <1>3, <2>1 DEF Progress
  <2>3. phase = "removing" => \A n \in 1..(Left - 1) : todo'[n] = RemoveSignalTraps[6 - (Left - 1) + n]
    BY <1>1, <1>2, <1>3, <2>1 DEF Progress
  <2> QED BY <1>1, <1>2, <1>3, <1>4, <1>6, <2>2, <2>3 DEF Progress
<1>10. Switched'
  <2>1. /\ phase = "installing" =>
              \A s \in Trapped : /\ Placed(s) <=> Left <= Order[s] + 1
                                 /\ Noted(s) <=> Left <= Order[s]
                                 /\ Placed(s)' <=> Left - 1 <= Order[s] + 1
                                 /\ Noted(s)' <=> Left - 1 <= Order[s]
        /\ phase = "removing" =>
              \A s \in Trapped : /\ Placed(s) <=> Left > Order[s] + 1
                                 /\ Noted(s) <=> Left > Order[s]
                                 /\ Placed(s)' <=> Left - 1 > Order[s] + 1
                                 /\ Noted(s)' <=> Left - 1 > Order[s]
    BY <1>4 DEF Placed, Noted
  <2>2. Trapped = {"SIGINT", "SIGTSTP"} /\ Order["SIGINT"] = 2 /\ Order["SIGTSTP"] = 0
    BY DEF Order, Trapped
  <2>3. SwitchTypes /\ Switched /\ strayed' = strayed
    BY <1>1, <1>2
  <2>4. CASE \/ Runs("installing", 6, "clear", "both") \/ Runs("installing", 5, "raise", "both")
             \/ Runs("removing", 6, "lower", "both") \/ Runs("removing", 5, "clear", "both")
    <3>1. UNCHANGED <<installed, previous, disposition>>
      BY <2>4, ExecuteIs DEF Runs
    <3>2. phase \in {"installing", "removing"} /\ Left \in {5, 6}
      BY <2>4 DEF Runs
    <3>3. \A s \in Trapped : (Placed(s)' <=> Placed(s)) /\ (Noted(s)' <=> Noted(s))
      <4>1. CASE phase = "installing"
        BY <2>1, <2>2, <3>2, <4>1
      <4>2. CASE phase = "removing"
        BY <2>1, <2>2, <3>2, <4>2
      <4> QED BY <3>2, <4>1, <4>2
    <3> QED BY <2>3, <3>1, <3>3 DEF Switched
  <2>5. CASE Runs("installing", 4, "take", "SIGINT")
    <3>1. phase = "installing" /\ Left = 4 /\ Execute("take", "SIGINT")
      BY <2>5 DEF Runs
    <3>2. ~Placed("SIGINT") /\ ~Noted("SIGINT") /\ Placed("SIGINT")' /\ ~Noted("SIGINT")'
      BY <2>1, <2>2, <3>1
    <3>3. Others("SIGINT")
      BY <2>1, <2>2, <3>1 DEF Others
    <3> QED BY <2>2, <2>3, <3>1, <3>2, <3>3, TakeSwitched
  <2>6. CASE Runs("installing", 3, "note", "SIGINT")
    <3>1. phase = "installing" /\ Left = 3 /\ Execute("note", "SIGINT")
      BY <2>6 DEF Runs
    <3>2. Placed("SIGINT") /\ ~Noted("SIGINT") /\ Placed("SIGINT")' /\ Noted("SIGINT")'
      BY <2>1, <2>2, <3>1
    <3>3. Others("SIGINT")
      BY <2>1, <2>2, <3>1 DEF Others
    <3> QED BY <2>2, <2>3, <3>1, <3>2, <3>3, NoteSwitched
  <2>7. CASE Runs("installing", 2, "take", "SIGTSTP")
    <3>1. phase = "installing" /\ Left = 2 /\ Execute("take", "SIGTSTP")
      BY <2>7 DEF Runs
    <3>2. ~Placed("SIGTSTP") /\ ~Noted("SIGTSTP") /\ Placed("SIGTSTP")' /\ ~Noted("SIGTSTP")'
      BY <2>1, <2>2, <3>1
    <3>3. Others("SIGTSTP")
      BY <2>1, <2>2, <3>1 DEF Others
    <3> QED BY <2>2, <2>3, <3>1, <3>2, <3>3, TakeSwitched
  <2>8. CASE Runs("installing", 1, "note", "SIGTSTP")
    <3>1. phase = "installing" /\ Left = 1 /\ Execute("note", "SIGTSTP")
      BY <2>8 DEF Runs
    <3>2. Placed("SIGTSTP") /\ ~Noted("SIGTSTP") /\ Placed("SIGTSTP")' /\ Noted("SIGTSTP")'
      BY <2>1, <2>2, <3>1
    <3>3. Others("SIGTSTP")
      BY <2>1, <2>2, <3>1 DEF Others
    <3> QED BY <2>2, <2>3, <3>1, <3>2, <3>3, NoteSwitched
  <2>9. CASE Runs("removing", 4, "restore", "SIGINT")
    <3>1. phase = "removing" /\ Left = 4 /\ Execute("restore", "SIGINT")
      BY <2>9 DEF Runs
    <3>2. Placed("SIGINT") /\ Noted("SIGINT") /\ ~Placed("SIGINT")' /\ Noted("SIGINT")'
      BY <2>1, <2>2, <3>1
    <3>3. Others("SIGINT")
      BY <2>1, <2>2, <3>1 DEF Others
    <3> QED BY <2>2, <2>3, <3>1, <3>2, <3>3, RestoreSwitched
  <2>10. CASE Runs("removing", 3, "forget", "SIGINT")
    <3>1. phase = "removing" /\ Left = 3 /\ Execute("forget", "SIGINT")
      BY <2>10 DEF Runs
    <3>2. ~Placed("SIGINT") /\ Noted("SIGINT") /\ ~Placed("SIGINT")' /\ ~Noted("SIGINT")'
      BY <2>1, <2>2, <3>1
    <3>3. Others("SIGINT")
      BY <2>1, <2>2, <3>1 DEF Others
    <3> QED BY <2>2, <2>3, <3>1, <3>2, <3>3, ForgetSwitched
  <2>11. CASE Runs("removing", 2, "restore", "SIGTSTP")
    <3>1. phase = "removing" /\ Left = 2 /\ Execute("restore", "SIGTSTP")
      BY <2>11 DEF Runs
    <3>2. Placed("SIGTSTP") /\ Noted("SIGTSTP") /\ ~Placed("SIGTSTP")' /\ Noted("SIGTSTP")'
      BY <2>1, <2>2, <3>1
    <3>3. Others("SIGTSTP")
      BY <2>1, <2>2, <3>1 DEF Others
    <3> QED BY <2>2, <2>3, <3>1, <3>2, <3>3, RestoreSwitched
  <2>12. CASE Runs("removing", 1, "forget", "SIGTSTP")
    <3>1. phase = "removing" /\ Left = 1 /\ Execute("forget", "SIGTSTP")
      BY <2>12 DEF Runs
    <3>2. ~Placed("SIGTSTP") /\ Noted("SIGTSTP") /\ ~Placed("SIGTSTP")' /\ ~Noted("SIGTSTP")'
      BY <2>1, <2>2, <3>1
    <3>3. Others("SIGTSTP")
      BY <2>1, <2>2, <3>1 DEF Others
    <3> QED BY <2>2, <2>3, <3>1, <3>2, <3>3, ForgetSwitched
  <2> QED BY <1>5, <2>4, <2>5, <2>6, <2>7, <2>8, <2>9, <2>10, <2>11, <2>12
<1>11. FramesWhere'
  <2>1. phase = "installing" /\ ~busy' => ~busy
    BY <1>2, <1>3, <1>6 DEF Progress
  <2> QED BY <1>1, <1>2, <2>1 DEF FramesWhere
<1>12. UIFrames'
  BY <1>1 DEF UIFrames
<1>13. Shown'
  <2>1. busy' => swallowed \subseteq noticed'
    <3>1. busy => swallowed \subseteq noticed
      BY <1>2 DEF Shown
    <3>2. CASE Runs("installing", 5, "raise", "both")
      BY <1>2, <3>2 DEF Shown, Progress, Runs
    <3>3. CASE Runs("installing", 6, "clear", "both") \/ Runs("removing", 6, "lower", "both") \/ Runs("removing", 5, "clear", "both")
      BY <1>6, <3>3 DEF Runs
    <3>4. CASE /\ ~Runs("installing", 5, "raise", "both") /\ ~Runs("installing", 6, "clear", "both")
               /\ ~Runs("removing", 6, "lower", "both") /\ ~Runs("removing", 5, "clear", "both")
      <4>1. busy' = busy /\ noticed' = noticed
        BY <1>5, <3>4, ExecuteIs DEF Runs
      <4> QED BY <3>1, <4>1
    <3> QED BY <3>2, <3>3, <3>4
  <2>2. phase = "installing" /\ ~busy' => swallowed = {}
    BY <1>2, <1>3, <1>6 DEF Shown, Progress
  <2> QED BY <1>1, <2>1, <2>2 DEF Shown
<1>14. Undisturbed'
  BY <1>1, <1>2 DEF Undisturbed
<1> QED BY <1>7, <1>8, <1>9, <1>10, <1>11, <1>12, <1>13, <1>14 DEF TrapInv
(* A signal and its handlers. *)
LEMMA DeliverInv == ASSUME NEW s \in Trapped, NEW t \in Threads, TrapInv, Deliver(s, t), phase' = phase PROVE TrapInv'
<1>1. /\ UNCHANGED <<todo, busy, noticed, installed, previous, disposition, operation, held, swallowed, strayed>>
      /\ \/ disposition[s] = "trap" /\ frames' = [frames EXCEPT ![t] = Append(@, Frame(s))] /\ disturbed' = disturbed
         \/ disposition[s] # "trap" /\ ActedUpon(s, disposition[s], During) /\ frames' = frames
  BY DEF Deliver, switches
<1>2. ControlTypes /\ SwitchTypes /\ FrameTypes /\ Progress /\ Switched /\ FramesWhere /\ UIFrames /\ Shown /\ Undisturbed
  BY DEF TrapInv
<1>3. ControlTypes' /\ SwitchTypes' /\ Progress' /\ Switched' /\ Shown'
  BY <1>1, <1>2 DEF ControlTypes, SwitchTypes, Progress, Switched, Shown, Placed, Noted, Left
<1>4. CASE disposition[s] # "trap"
  <2>1. frames' = frames /\ ActedUpon(s, disposition[s], During)
    BY <1>1, <1>4
  <2>2. held => disposition[s] # "app"
    BY <1>2 DEF Progress, Switched, Placed
  <2>3. Undisturbed'
    BY <1>2, <2>1, <2>2 DEF Undisturbed, ActedUpon
  <2>4. FrameTypes' /\ FramesWhere' /\ UIFrames'
    BY <1>1, <1>2, <2>1 DEF FrameTypes, FramesWhere, UIFrames
  <2> QED BY <1>3, <2>3, <2>4 DEF TrapInv
<1>5. CASE disposition[s] = "trap"
  <2>1. frames' = [frames EXCEPT ![t] = Append(@, Frame(s))] /\ disturbed' = disturbed
    BY <1>1, <1>5
  <2>2. operation \in Nat /\ busy \in BOOLEAN /\ During \in Nat /\ During <= operation /\ (~busy => During = 0)
    BY <1>2 DEF ControlTypes, During
  <2>3. /\ Frame(s) \in Frames /\ Frame(s).at = "entered" /\ Frame(s).of = During /\ Frame(s).sig = s
    BY <2>2 DEF Frame, Frames
  <2>4. frames \in [Threads -> Seq(Frames)] /\ frames[t] \in Seq(Frames)
    BY <1>2 DEF FrameTypes
  <2> DEFINE q == frames[t]
             p == Append(q, Frame(s))
  <2>5. /\ p \in Seq(Frames) /\ Len(p) = Len(q) + 1 /\ Len(q) \in Nat
        /\ \A n \in 1..Len(q) : p[n] = q[n]
        /\ p[Len(q) + 1] = Frame(s)
    BY <2>3, <2>4, PushFrame
  <2>6. frames'[t] = p /\ \A u \in Threads \ {t} : frames'[u] = frames[u]
    BY <2>1, <2>4
  <2>7. FrameTypes'
    BY <2>1, <2>4, <2>5 DEF FrameTypes
  <2> HIDE DEF p
  <2>8. FramesWhere'
    <3> SUFFICES ASSUME NEW u \in Threads, NEW n \in 1..Len(frames'[u])
                 PROVE  /\ frames'[u][n].of <= operation
                        /\ phase = "installing" /\ ~busy => frames'[u][n].of < operation
                        /\ phase \in {"installing", "running"} /\ frames'[u][n].at = "chain" => frames'[u][n].of < operation
      BY <1>1 DEF FramesWhere
    <3>1. CASE u = t /\ n = Len(q) + 1
      <4>1. frames'[u][n] = Frame(s)
        BY <2>5, <2>6, <3>1
      <4>2. phase = "installing" /\ ~busy => During < operation
        BY <1>2, <2>2 DEF Progress
      <4> QED BY <2>2, <2>3, <4>1, <4>2
    <3>2. CASE ~(u = t /\ n = Len(q) + 1)
      <4>1. n \in 1..Len(frames[u]) /\ frames'[u][n] = frames[u][n]
        BY <2>5, <2>6, <3>2
      <4> QED BY <1>2, <4>1 DEF FramesWhere
    <3> QED BY <3>1, <3>2
  <2>9. UIFrames'
    <3> SUFFICES ASSUME NEW n \in 1..Len(frames'["ui"])
                 PROVE  /\ frames'["ui"][n].at = "chain" => ~busy
                        /\ ~busy /\ frames'["ui"][n].sig \notin strayed
                               => frames'["ui"][n].sig \in installed /\ previous[frames'["ui"][n].sig] = "app"
      BY <1>1 DEF UIFrames
    <3>1. CASE t = "ui" /\ n = Len(q) + 1
      <4>1. frames'["ui"][n] = Frame(s)
        BY <2>5, <2>6, <3>1
      <4>2. Placed(s)
        BY <1>2, <1>5 DEF Switched
      <4>3. Left \in Nat /\ Order[s] \in {0, 2}
        BY <1>2 DEF ControlTypes, Left, Order, Trapped
      <4>4. ~busy => phase # "running" /\ ~(phase = "installing" /\ Left <= 4)
        BY <1>2 DEF Progress
      <4>5. ~busy => phase = "removing" /\ Left > Order[s] + 1
        BY <4>2, <4>3, <4>4 DEF Placed
      <4>6. ~busy => Noted(s)
        BY <4>3, <4>5 DEF Noted
      <4>7. ~busy /\ s \notin strayed => s \in installed /\ previous[s] = "app"
        BY <1>2, <4>6 DEF Switched
      <4> QED BY <2>3, <4>1, <4>7
    <3>2. CASE ~(t = "ui" /\ n = Len(q) + 1)
      <4>1. n \in 1..Len(frames["ui"]) /\ frames'["ui"][n] = frames["ui"][n]
        BY <2>5, <2>6, <3>2 DEF Threads
      <4> QED BY <1>2, <4>1 DEF UIFrames
    <3> QED BY <3>1, <3>2
  <2>10. Undisturbed'
    BY <1>2, <2>1 DEF Undisturbed
  <2> QED BY <1>3, <2>7, <2>8, <2>9, <2>10 DEF TrapInv
<1> QED BY <1>4, <1>5

LEMMA EntersInv == ASSUME NEW t \in Threads, TrapInv, HandlerEnters(t), phase' = phase PROVE TrapInv'
<1> DEFINE q == frames[t]
           l == Len(q)
           f == [q[l] EXCEPT !.at = IF busy THEN "count" ELSE "chain"]
<1>1. /\ UNCHANGED <<todo, busy, noticed, installed, previous, disposition, operation, held, swallowed, disturbed, strayed>>
      /\ q # <<>> /\ frames' = [frames EXCEPT ![t][l].at = IF busy THEN "count" ELSE "chain"]
  BY DEF HandlerEnters, At, switches, history
<1>2. ControlTypes /\ SwitchTypes /\ FrameTypes /\ Progress /\ Switched /\ FramesWhere /\ UIFrames /\ Shown /\ Undisturbed
  BY DEF TrapInv
<1>3. ControlTypes' /\ SwitchTypes' /\ Progress' /\ Switched' /\ Shown' /\ Undisturbed'
  BY <1>1, <1>2 DEF ControlTypes, SwitchTypes, Progress, Switched, Shown, Undisturbed, Placed, Noted, Left
<1>4. frames \in [Threads -> Seq(Frames)] /\ q \in Seq(Frames)
  BY <1>2 DEF FrameTypes
<1>5. l \in Nat /\ l >= 1 /\ l \in 1..l /\ q[l] \in Frames
  BY <1>1, <1>4, PopFrame
<1>6. /\ f \in Frames /\ f.of = q[l].of /\ f.sig = q[l].sig
      /\ f.at = (IF busy THEN "count" ELSE "chain")
  BY <1>5 DEF Frames
<1>7. frames' = [frames EXCEPT ![t] = [q EXCEPT ![l] = f]]
  BY <1>1
<1>8. /\ [q EXCEPT ![l] = f] \in Seq(Frames) /\ Len([q EXCEPT ![l] = f]) = l
      /\ [q EXCEPT ![l] = f][l] = f
      /\ \A n \in (1..l) \ {l} : [q EXCEPT ![l] = f][n] = q[n]
  <2> HIDE DEF f
  <2> QED BY <1>4, <1>5, <1>6
<1>9. /\ frames'[t] \in Seq(Frames) /\ Len(frames'[t]) = l /\ frames'[t][l] = f
      /\ \A n \in (1..l) \ {l} : frames'[t][n] = q[n]
      /\ \A u \in Threads \ {t} : frames'[u] = frames[u]
  <2> HIDE DEF f
  <2> QED BY <1>4, <1>7, <1>8
<1>10. FrameTypes'
  <2> HIDE DEF f
  <2> QED BY <1>4, <1>7, <1>8 DEF FrameTypes
<1> HIDE DEF f
<1>11. FramesWhere'
  <2> SUFFICES ASSUME NEW u \in Threads, NEW n \in 1..Len(frames'[u])
               PROVE  /\ frames'[u][n].of <= operation
                      /\ phase = "installing" /\ ~busy => frames'[u][n].of < operation
                      /\ phase \in {"installing", "running"} /\ frames'[u][n].at = "chain" => frames'[u][n].of < operation
    BY <1>1 DEF FramesWhere
  <2>1. CASE u = t /\ n = l
    <3>1. /\ q[l].of <= operation
          /\ phase = "installing" /\ ~busy => q[l].of < operation
      BY <1>2, <1>5 DEF FramesWhere
    <3>2. frames'[u][n] = f
      BY <1>9, <2>1
    <3>3. f.at = "chain" => ~busy /\ phase # "running"
      BY <1>2, <1>6 DEF Progress
    <3> QED BY <1>6, <3>1, <3>2, <3>3
  <2>2. CASE ~(u = t /\ n = l)
    <3>1. n \in 1..Len(frames[u]) /\ frames'[u][n] = frames[u][n]
      BY <1>9, <2>2
    <3> QED BY <1>2, <3>1 DEF FramesWhere
  <2> QED BY <2>1, <2>2
<1>12. UIFrames'
  <2> SUFFICES ASSUME NEW n \in 1..Len(frames'["ui"])
               PROVE  /\ frames'["ui"][n].at = "chain" => ~busy
                      /\ ~busy /\ frames'["ui"][n].sig \notin strayed
                             => frames'["ui"][n].sig \in installed /\ previous[frames'["ui"][n].sig] = "app"
    BY <1>1 DEF UIFrames
  <2>1. CASE t = "ui" /\ n = l
    <3>1. ~busy /\ q[l].sig \notin strayed => q[l].sig \in installed /\ previous[q[l].sig] = "app"
      BY <1>2, <1>5, <2>1 DEF UIFrames
    <3>2. frames'["ui"][n] = f
      BY <1>9, <2>1
    <3>3. f.at = "chain" => ~busy
      BY <1>6
    <3> QED BY <1>6, <3>1, <3>2, <3>3
  <2>2. CASE ~(t = "ui" /\ n = l)
    <3>1. n \in 1..Len(frames["ui"]) /\ frames'["ui"][n] = frames["ui"][n]
      BY <1>9, <2>2 DEF Threads
    <3> QED BY <1>2, <3>1 DEF UIFrames
  <2> QED BY <2>1, <2>2
<1> QED BY <1>3, <1>10, <1>11, <1>12 DEF TrapInv
(* What a handler leaves on the stacks when it is done. *)
LEMMA FewerFrames ==
    ASSUME FrameTypes, NEW t \in Threads, frames[t] # <<>>, Pop(t)
    PROVE  /\ FrameTypes'
           /\ Len(frames[t]) \in 1..Len(frames[t]) /\ Running(t) \in Frames
           /\ \A u \in Threads : \A n \in 1..Len(frames'[u]) :
                  n \in 1..Len(frames[u]) /\ frames'[u][n] = frames[u][n]
<1> DEFINE q == frames[t]
           p == SubSeq(q, 1, Len(q) - 1)
<1>1. frames \in [Threads -> Seq(Frames)] /\ q \in Seq(Frames)
  BY DEF FrameTypes
<1>2. /\ p \in Seq(Frames) /\ Len(p) = Len(q) - 1
      /\ Len(q) \in Nat /\ Len(q) >= 1 /\ q[Len(q)] \in Frames
      /\ \A n \in 1..(Len(q) - 1) : p[n] = q[n]
  BY <1>1, PopFrame
<1>3. frames' = [frames EXCEPT ![t] = p]
  BY DEF Pop
<1> HIDE DEF p
<1>4. frames'[t] = p /\ \A u \in Threads \ {t} : frames'[u] = frames[u]
  BY <1>1, <1>3
<1>5. FrameTypes'
  BY <1>1, <1>2, <1>3 DEF FrameTypes
<1>6. ASSUME NEW u \in Threads, NEW n \in 1..Len(frames'[u])
      PROVE  n \in 1..Len(frames[u]) /\ frames'[u][n] = frames[u][n]
  <2>1. CASE u = t
    <3>1. n \in 1..(Len(q) - 1)
      BY <1>2, <1>4, <2>1
    <3>2. n \in 1..Len(q) /\ p[n] = q[n]
      BY <1>2, <3>1
    <3> QED BY <1>4, <2>1, <3>2
  <2>2. CASE u # t
    BY <1>4, <2>2
  <2> QED BY <2>1, <2>2
<1> QED BY <1>2, <1>5, <1>6 DEF Running

LEMMA CountsInv == ASSUME NEW t \in Threads, TrapInv, HandlerCounts(t), phase' = phase PROVE TrapInv'
<1>1. /\ UNCHANGED <<todo, busy, installed, previous, disposition, operation, held, disturbed, strayed>>
      /\ frames[t] # <<>> /\ Pop(t)
      /\ noticed' = noticed \cup {Running(t).sig}
      /\ swallowed' = IF Running(t).of = operation THEN swallowed \cup {Running(t).sig} ELSE swallowed
  BY DEF HandlerCounts, At
<1>2. ControlTypes /\ SwitchTypes /\ FrameTypes /\ Progress /\ Switched /\ FramesWhere /\ UIFrames /\ Shown /\ Undisturbed
  BY DEF TrapInv
<1>3. ControlTypes' /\ SwitchTypes' /\ Progress' /\ Switched' /\ Undisturbed'
  BY <1>1, <1>2 DEF ControlTypes, SwitchTypes, Progress, Switched, Undisturbed, Placed, Noted, Left
<1>4. /\ FrameTypes'
      /\ Len(frames[t]) \in 1..Len(frames[t]) /\ Running(t) \in Frames
      /\ \A u \in Threads : \A n \in 1..Len(frames'[u]) :
             n \in 1..Len(frames[u]) /\ frames'[u][n] = frames[u][n]
  BY <1>1, <1>2, FewerFrames
<1>5. FramesWhere'
  BY <1>1, <1>2, <1>4 DEF FramesWhere
<1>6. UIFrames'
  BY <1>1, <1>2, <1>4 DEF UIFrames, Threads
<1>7. Shown'
  <2>1. Running(t).of \in Nat /\ operation \in Nat
    BY <1>2, <1>4 DEF Frames, ControlTypes
  <2>2. phase = "installing" /\ ~busy => Running(t).of < operation
    BY <1>2, <1>4 DEF FramesWhere, Running
  <2>3. phase = "installing" /\ ~busy => swallowed' = swallowed
    BY <1>1, <2>1, <2>2
  <2> QED BY <1>1, <1>2, <2>3 DEF Shown
<1> QED BY <1>3, <1>4, <1>5, <1>6, <1>7 DEF TrapInv

LEMMA ChainsInv == ASSUME NEW t \in Threads, TrapInv, HandlerChains(t), phase' = phase PROVE TrapInv'
<1> DEFINE s     == Running(t).sig
           chain == s \in installed /\ previous[s] = "app"
<1>1. /\ UNCHANGED <<todo, busy, noticed, installed, previous, operation, held, swallowed>>
      /\ frames[t] # <<>> /\ Running(t).at = "chain" /\ Pop(t)
      /\ ActedUpon(s, IF chain THEN "app" ELSE "default", Running(t).of)
      /\ disposition' = IF chain THEN disposition ELSE [disposition EXCEPT ![s] = "default"]
      /\ strayed' = IF chain THEN strayed ELSE strayed \cup {s}
  BY DEF HandlerChains, At
<1>2. ControlTypes /\ SwitchTypes /\ FrameTypes /\ Progress /\ Switched /\ FramesWhere /\ UIFrames /\ Shown /\ Undisturbed
  BY DEF TrapInv
<1>3. /\ FrameTypes'
      /\ Len(frames[t]) \in 1..Len(frames[t]) /\ Running(t) \in Frames
      /\ \A u \in Threads : \A n \in 1..Len(frames'[u]) :
             n \in 1..Len(frames[u]) /\ frames'[u][n] = frames[u][n]
  BY <1>1, <1>2, FewerFrames
<1>4. s \in Trapped /\ Running(t).of \in Nat /\ operation \in Nat
  BY <1>2, <1>3 DEF Frames, ControlTypes
<1>5. strayed \subseteq strayed'
  BY <1>1
<1>6. ControlTypes' /\ Progress' /\ Shown'
  BY <1>1, <1>2 DEF ControlTypes, Progress, Shown, Left
<1>7. \A x \in Trapped : disposition'[x] = IF x = s /\ ~chain THEN "default" ELSE disposition[x]
  <2> HIDE DEF s, chain
  <2> QED BY <1>1, <1>2, <1>4 DEF SwitchTypes
<1>8. SwitchTypes'
  <2> HIDE DEF s, chain
  <2> QED BY <1>1, <1>2 DEF SwitchTypes, Dispositions
<1>9. Switched'
  <2> SUFFICES ASSUME NEW x \in Trapped
               PROVE  /\ x \in installed <=> Noted(x)'
                      /\ Placed(x)' => disposition'[x] # "app"
                      /\ ~Placed(x)' => disposition'[x] # "trap"
                      /\ disposition'[x] = "default" => x \in strayed'
                      /\ Placed(x)' \/ Noted(x)' => previous[x] = "app" \/ (previous[x] = "default" /\ x \in strayed')
    BY <1>1 DEF Switched
  <2>1. (Placed(x)' <=> Placed(x)) /\ (Noted(x)' <=> Noted(x))
    BY <1>1 DEF Placed, Noted, Left
  <2>2. disposition'[x] = disposition[x] \/ (disposition'[x] = "default" /\ x \in strayed')
    <3> HIDE DEF s, chain
    <3> QED BY <1>1, <1>7
  <2> QED BY <1>2, <1>5, <2>1, <2>2 DEF Switched
<1>10. FramesWhere'
  BY <1>1, <1>2, <1>3 DEF FramesWhere
<1>11. UIFrames'
  BY <1>1, <1>2, <1>3, <1>5 DEF UIFrames, Threads
<1>12. Undisturbed'
  <2>1. phase \in {"installing", "running"} => Running(t).of < operation
    BY <1>1, <1>2, <1>3 DEF FramesWhere, Running
  <2>2. ~(Running(t).of = operation /\ held)
    BY <1>2, <1>4, <2>1 DEF Progress
  <2> QED BY <1>1, <1>2, <2>2 DEF Undisturbed, ActedUpon
<1> QED BY <1>3, <1>6, <1>8, <1>9, <1>10, <1>11, <1>12 DEF TrapInv

LEMMA TrapInvStep == TrapInv /\ [Next]_vars => TrapInv'
<1> SUFFICES ASSUME TrapInv, [Next]_vars PROVE TrapInv'
  OBVIOUS
<1>1. CASE UI
  <2>1. CASE Statement /\ UNCHANGED <<client, phase, interrupted>>
    BY <2>1, StatementInv
  <2> QED BY <1>1, <2>1, BeginInv, StartInv, CompleteInv, CompletedInv DEF UI
<1>2. CASE Work
  BY <1>2, TrapInvKept DEF Work, traps
<1>3. CASE BrokenPipe
  BY <1>3, TrapInvKept DEF BrokenPipe
<1>4. CASE Signal
  BY <1>4, DeliverInv DEF Signal
<1>5. CASE \E t \in Threads : Handle(t)
  BY <1>5, EntersInv, CountsInv, ChainsInv DEF Handle, Handler
<1>6. CASE Engine /\ UNCHANGED <<traps, phase, interrupted>>
  BY <1>6, TrapInvKept DEF traps
<1>7. CASE UNCHANGED vars
  BY <1>7, TrapInvKept DEF vars, traps
<1> QED BY <1>1, <1>2, <1>3, <1>4, <1>5, <1>6, <1>7 DEF Next, Over

(* Where the UI thread is in the two functions determines the flags, the handlers in place and
   what is kept of the earlier ones, and every handler on a stack knows which operation it is of:
   the facts of src/main.cpp:29-104 the three theorems below follow from. *)
THEOREM TrapsInvariant == Spec => []TrapInv
<1> QED BY TrapInvInit, TrapInvStep, PTL DEF Spec

(* No signal that comes while an operation is under way reaches FTXUI's handler as long as that
   operation is, for any number of signals and operations, on whichever thread they arrive
   (TuxDockHandleSigint, src/main.cpp:37-51; BeginBusyOperation, 600-627). *)
THEOREM NeverDisturbed == Spec => []Undisturbed
<1>1. TrapInv => Undisturbed
  BY DEF TrapInv
<1> QED BY <1>1, TrapsInvariant, PTL

(* A handler on the UI thread, wherever it stops InstallSignalTraps or RemoveSignalTraps, finds
   the previous handler to chain to, unless another thread's has lost it (src/main.cpp:37-104). *)
THEOREM UIThreadChains == Spec => []NeverDefaultOnUI
<1>1. TrapInv => NeverDefaultOnUI
  <2> SUFFICES ASSUME TrapInv, NEW n \in DOMAIN frames["ui"],
                      frames["ui"][n].at = "chain", frames["ui"][n].sig \notin strayed
               PROVE  frames["ui"][n].sig \in installed /\ previous[frames["ui"][n].sig] = "app"
    BY DEF NeverDefaultOnUI
  <2>1. DOMAIN frames["ui"] = 1..Len(frames["ui"])
    BY DEF TrapInv, FrameTypes, Threads
  <2> QED BY <2>1 DEF TrapInv, UIFrames
<1> QED BY <1>1, TrapsInvariant, PTL

(* What the traps swallow during an operation is in the counters its modal shows until the
   operation is over: no reset loses it (InstallSignalTraps, src/main.cpp:70-72). *)
THEOREM NothingSwallowedUnseen == Spec => []SwallowedIsShown
<1>1. TrapInv => SwallowedIsShown
  BY DEF TrapInv, Shown, SwallowedIsShown
<1> QED BY <1>1, TrapsInvariant, PTL
=============================================================================
