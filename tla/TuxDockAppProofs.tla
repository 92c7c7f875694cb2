--------------------------- MODULE TuxDockAppProofs ---------------------------
(***************************************************************************)
(* What holds of every session of TuxDock, for every number of containers, *)
(* operations and polls: one operation at a time, a command that reaches   *)
(* the container it was typed for, no completion lost but at the end.      *)
(***************************************************************************)
EXTENDS TuxDockApp, SubsequencesProofs, TLAPS

(* A sequence of whatever it holds. *)
IsSeq(q) == q \in Seq({q[n] : n \in DOMAIN q})

LEMMA EmptyIsSeq == IsSeq(<<>>)
BY DEF IsSeq

LEMMA SeqIsSeq ==
    ASSUME NEW S, NEW s \in Seq(S)
    PROVE  IsSeq(s)
<1>1. Len(s) \in Nat /\ DOMAIN s = 1..Len(s)
  OBVIOUS
<1>2. s = [n \in 1..Len(s) |-> s[n]]
  OBVIOUS
<1>3. \A n \in 1..Len(s) : s[n] \in {s[m] : m \in DOMAIN s}
  BY <1>1
<1>4. [n \in 1..Len(s) |-> s[n]] \in Seq({s[m] : m \in DOMAIN s})
  BY <1>1, <1>3
<1> QED BY <1>2, <1>4 DEF IsSeq

LEMMA SeqDomain ==
    ASSUME NEW q, IsSeq(q)
    PROVE  Len(q) \in Nat /\ DOMAIN q = 1..Len(q)
BY DEF IsSeq

LEMMA AppendIsSeq ==
    ASSUME NEW q, IsSeq(q), NEW x
    PROVE  /\ IsSeq(Append(q, x))
           /\ DOMAIN Append(q, x) = 1..(Len(q) + 1)
           /\ \A n \in DOMAIN q : Append(q, x)[n] = q[n]
           /\ Append(q, x)[Len(q) + 1] = x
<1> DEFINE S == {q[n] : n \in DOMAIN q} \cup {x}
<1>1. q \in Seq({q[n] : n \in DOMAIN q}) /\ Len(q) \in Nat /\ DOMAIN q = 1..Len(q)
  BY SeqDomain DEF IsSeq
<1>2. q \in Seq(S)
  BY <1>1
<1>3. /\ Append(q, x) \in Seq(S)
      /\ Len(Append(q, x)) = Len(q) + 1
      /\ DOMAIN Append(q, x) = 1..(Len(q) + 1)
      /\ \A n \in 1..Len(q) : Append(q, x)[n] = q[n]
      /\ Append(q, x)[Len(q) + 1] = x
  BY <1>2
<1>4. IsSeq(Append(q, x))
  BY <1>3, SeqIsSeq
<1> QED BY <1>1, <1>3, <1>4

LEMMA TailIsSeq ==
    ASSUME NEW q, IsSeq(q), q # <<>>
    PROVE  /\ IsSeq(Tail(q))
           /\ Len(q) >= 1 /\ Head(q) = q[1] /\ 1 \in DOMAIN q
           /\ DOMAIN Tail(q) = 1..(Len(q) - 1)
           /\ \A n \in DOMAIN Tail(q) : n + 1 \in DOMAIN q /\ Tail(q)[n] = q[n + 1]
<1> DEFINE S == {q[n] : n \in DOMAIN q}
<1>1. q \in Seq(S) /\ Len(q) \in Nat /\ DOMAIN q = 1..Len(q)
  BY SeqDomain DEF IsSeq
<1>2. Len(q) >= 1 /\ Head(q) = q[1] /\ 1 \in DOMAIN q
  BY <1>1
<1>3. /\ Tail(q) \in Seq(S)
      /\ Len(Tail(q)) = Len(q) - 1
      /\ DOMAIN Tail(q) = 1..(Len(q) - 1)
      /\ \A n \in 1..(Len(q) - 1) : Tail(q)[n] = q[n + 1]
  BY <1>1, <1>2
<1>4. IsSeq(Tail(q))
  BY <1>3, SeqIsSeq
<1> QED BY <1>1, <1>2, <1>3, <1>4

LEMMA ExceptIsSeq ==
    ASSUME NEW q, IsSeq(q), NEW a \in DOMAIN q, NEW x
    PROVE  /\ IsSeq([q EXCEPT ![a] = x])
           /\ DOMAIN [q EXCEPT ![a] = x] = DOMAIN q
           /\ [q EXCEPT ![a] = x][a] = x
           /\ \A n \in DOMAIN q : n # a => [q EXCEPT ![a] = x][n] = q[n]
<1> DEFINE r == [q EXCEPT ![a] = x]
           S == {q[n] : n \in DOMAIN q} \cup {x}
<1>1. q \in Seq({q[n] : n \in DOMAIN q}) /\ Len(q) \in Nat /\ DOMAIN q = 1..Len(q)
  BY SeqDomain DEF IsSeq
<1>2. q \in Seq(S)
  BY <1>1
<1>3. r \in Seq(S)
  BY <1>2
<1>4. IsSeq(r)
  BY <1>3, SeqIsSeq
<1>5. q = [n \in DOMAIN q |-> q[n]]
  BY <1>2
<1> QED BY <1>4, <1>5

(***************************************************************************)
(* The inductive invariant.  OneOperation alone is not inductive: that a   *)
(* completion settles the one operation under way needs the queue to hold  *)
(* no second completion, and that no operation begins beside another needs *)
(* the states in which the UI thread is inside a handler.                  *)
(***************************************************************************)
Asked == {"Input", "Confirm"}

Fields == {"act", "target", "seen", "pc", "got", "ok"}

Shapes ==
    /\ IsSeq(actions) /\ \A a \in DOMAIN actions : DOMAIN actions[a] = Fields
    /\ IsSeq(queue)
    /\ DOMAIN flow = {"act", "target", "seen", "asks"} /\ flow.asks \in Seq(Asked)

Completions ==
    /\ \A n \in DOMAIN queue : queue[n].kind = "complete" =>
           queue[n].from \in DOMAIN actions /\ actions[queue[n].from].pc = "sent"
    /\ \A m, n \in DOMAIN queue :
           queue[m].kind = "complete" /\ queue[n].kind = "complete" => m = n

Handlers ==
    /\ ui = "startOp" => mode = "Busy" /\ \A a \in DOMAIN actions : ~Unsettled(a)
    /\ ui = "finishOp" => mode = "Busy" /\ queue # <<>> /\ Head(queue).kind = "complete"
    /\ ui \in {"refreshJoin", "shell"} => mode = "None"

Picked == flow.act \in Execs /\ mode # "Select" => history = flow.target

SessionInv == /\ Shapes /\ OneOperation /\ Completions /\ Handlers
              /\ Picked /\ ExecTarget /\ LostOnlyAtExit

seen == <<queue, open, ui, flow, mode, history, busy, trapped, actions>>

USE DEF OneOperation, Unsettled

LEMMA InitSession == Init => SessionInv
<1> SUFFICES ASSUME Init PROVE SessionInv
  OBVIOUS
<1>1. Shapes
  BY EmptyIsSeq DEF Init, Shapes, NoFlow
<1>2. DOMAIN queue = {} /\ DOMAIN actions = {}
  BY DEF Init
<1>3. OneOperation /\ Completions /\ ExecTarget /\ LostOnlyAtExit
  BY <1>2 DEF Init, Completions, ExecTarget, LostOnlyAtExit
<1>4. Handlers /\ Picked
  BY DEF Init, Handlers, Picked, NoFlow, Execs
<1> QED BY <1>1, <1>3, <1>4 DEF SessionInv

(* A step that touches nothing the invariant speaks of. *)
LEMMA Untouched ==
    ASSUME SessionInv, UNCHANGED seen
    PROVE  SessionInv'
<1>1. Shapes'
  BY DEF SessionInv, seen, Shapes, IsSeq
<1>2. OneOperation' /\ Completions'
  BY DEF SessionInv, seen, Completions
<1>3. Handlers' /\ Picked' /\ ExecTarget' /\ LostOnlyAtExit'
  BY DEF SessionInv, seen, Handlers, Picked, ExecTarget, LostOnlyAtExit
<1> QED BY <1>1, <1>2, <1>3 DEF SessionInv

(* A step that only posts a closure other than a completion. *)
LEMMA OtherPosted ==
    ASSUME SessionInv, NEW task, task.kind # "complete", queue' = Posted(task),
           UNCHANGED <<open, ui, flow, mode, history, busy, trapped, actions>>
    PROVE  SessionInv'
<1> USE DEF SessionInv
<1>1. CASE ~open
  BY <1>1, Untouched DEF Posted, seen
<1>2. CASE open
  <2>1. queue' = Append(queue, task)
    BY <1>2 DEF Posted
  <2>2. /\ IsSeq(queue') /\ DOMAIN queue' = 1..(Len(queue) + 1) /\ queue'[Len(queue) + 1] = task
        /\ \A n \in DOMAIN queue : queue'[n] = queue[n]
    BY <2>1, AppendIsSeq DEF Shapes
  <2>3. Len(queue) \in Nat /\ DOMAIN queue = 1..Len(queue)
    BY SeqDomain DEF Shapes
  <2>4. \A n \in DOMAIN queue' : queue'[n].kind = "complete" =>
            n \in DOMAIN queue /\ queue'[n] = queue[n]
    BY <2>2, <2>3
  <2>5. Shapes' /\ Completions'
    <3>1. Shapes'
      BY <2>2 DEF Shapes, IsSeq
    <3>2. Completions'
      BY <2>4 DEF Completions
    <3> QED BY <3>1, <3>2
  <2>6. ui = "finishOp" => queue' # <<>> /\ Head(queue').kind = "complete"
    <3> SUFFICES ASSUME ui = "finishOp" PROVE queue' # <<>> /\ Head(queue').kind = "complete"
      OBVIOUS
    <3>1. queue # <<>> /\ Head(queue).kind = "complete"
      BY DEF Handlers
    <3>2. Head(queue) = queue[1] /\ 1 \in DOMAIN queue
      BY <3>1, TailIsSeq DEF Shapes
    <3>3. queue' # <<>>
      BY <2>2, <2>3
    <3>4. Head(queue') = queue'[1]
      BY <2>2, <3>3, TailIsSeq
    <3> QED BY <2>2, <3>1, <3>2, <3>3, <3>4
  <2>7. Handlers' /\ OneOperation' /\ Picked' /\ ExecTarget' /\ LostOnlyAtExit'
    BY <2>6 DEF Handlers, Picked, ExecTarget, LostOnlyAtExit
  <2> QED BY <2>5, <2>7
<1> QED BY <1>1, <1>2 DEF Shapes

(* A step that runs a closure which is not a completion. *)
LEMMA OtherRun ==
    ASSUME SessionInv, ui = "idle", queue # <<>>, Head(queue).kind # "complete", queue' = Tail(queue),
           open' = open \/ open' = FALSE,
           UNCHANGED <<ui, flow, mode, history, busy, trapped, actions>>
    PROVE  SessionInv'
<1> USE DEF SessionInv
<1>1. /\ IsSeq(queue')
      /\ \A n \in DOMAIN queue' : n + 1 \in DOMAIN queue /\ queue'[n] = queue[n + 1]
      /\ DOMAIN queue' = 1..(Len(queue) - 1)
  BY TailIsSeq DEF Shapes
<1>2. Shapes'
  BY <1>1 DEF Shapes, IsSeq
<1>3. Completions'
  <2>1. \A m, n \in DOMAIN queue' : m + 1 = n + 1 => m = n
    BY <1>1, SeqDomain DEF Shapes
  <2> QED BY <1>1, <2>1 DEF Completions
<1>4. Handlers' /\ OneOperation' /\ Picked' /\ ExecTarget' /\ LostOnlyAtExit'
  BY DEF Handlers, Picked, ExecTarget, LostOnlyAtExit
<1> QED BY <1>2, <1>3, <1>4

(* A step of the user between modals, with nothing under way. *)
LEMMA ModalStep ==
    ASSUME SessionInv, ui \in {"idle", "refreshJoin", "shell"}, mode # "Busy", mode' # "Busy",
           ui' = "idle" \/ (ui' \in {"refreshJoin", "shell"} /\ mode' = "None"),
           DOMAIN flow' = {"act", "target", "seen", "asks"}, flow'.asks \in Seq(Asked),
           Picked',
           UNCHANGED <<queue, busy, trapped, actions>>
    PROVE  SessionInv'
<1> USE DEF SessionInv
<1>1. Shapes'
  BY DEF Shapes, IsSeq
<1>2. \A a \in DOMAIN actions : ~Unsettled(a)
  OBVIOUS
<1>3. OneOperation' /\ Completions'
  BY <1>2 DEF Completions
<1>4. Handlers'
  BY DEF Handlers
<1>5. ExecTarget' /\ LostOnlyAtExit'
  BY <1>2 DEF ExecTarget, LostOnlyAtExit
<1> QED BY <1>1, <1>3, <1>4, <1>5

(* A step of an operation's thread that neither starts nor ends it. *)
LEMMA ThreadStep ==
    ASSUME SessionInv, NEW a \in DOMAIN actions, actions[a].pc \in {"call", "containers", "images"},
           NEW op, actions' = [actions EXCEPT ![a] = op], DOMAIN op = Fields,
           op.pc \in {"containers", "images", "post"},
           UNCHANGED <<queue, open, ui, flow, mode, history, busy, trapped>>
    PROVE  SessionInv'
<1> USE DEF SessionInv
<1>1. /\ IsSeq(actions') /\ DOMAIN actions' = DOMAIN actions /\ actions'[a] = op
      /\ \A b \in DOMAIN actions : b # a => actions'[b] = actions[b]
  BY ExceptIsSeq DEF Shapes
<1>2. Shapes'
  BY <1>1 DEF Shapes, IsSeq
<1>3. \A b \in DOMAIN actions : Unsettled(b)' <=> Unsettled(b)
  BY <1>1
<1>4. OneOperation'
  BY <1>1, <1>3
<1>5. Completions'
  BY <1>1 DEF Completions
<1>6. Handlers'
  BY <1>1, <1>3 DEF Handlers
<1>7. Picked' /\ ExecTarget' /\ LostOnlyAtExit'
  BY <1>1 DEF Picked, ExecTarget, LostOnlyAtExit
<1> QED BY <1>2, <1>4, <1>5, <1>6, <1>7

(* An operation begins: nothing else is under way. *)
LEMMA BeginStep ==
    ASSUME SessionInv, ui = "idle", mode # "Busy", NEW f, BeginBusyOperation(f),
           DOMAIN f = {"act", "target", "seen", "asks"}, f.asks \in Seq(Asked),
           f.act \in Execs => history' = f.target,
           UNCHANGED <<queue, actions>>
    PROVE  SessionInv'
<1> USE DEF SessionInv, BeginBusyOperation
<1>1. Shapes'
  BY DEF Shapes, IsSeq
<1>2. \A a \in DOMAIN actions : ~Unsettled(a)
  OBVIOUS
<1>3. OneOperation' /\ Completions'
  BY <1>2 DEF Completions
<1>4. Handlers' /\ Picked'
  BY <1>2 DEF Handlers, Picked
<1>5. ExecTarget' /\ LostOnlyAtExit'
  BY <1>2 DEF ExecTarget, LostOnlyAtExit
<1> QED BY <1>1, <1>3, <1>4, <1>5

LEMMA StartThreadsStep == SessionInv /\ StartThreads => SessionInv'
<1> SUFFICES ASSUME SessionInv, StartThreads PROVE SessionInv'
  OBVIOUS
<1> DEFINE op == [act |-> flow.act, target |-> flow.target, seen |-> flow.seen,
                  pc |-> "call", got |-> NoLists, ok |-> FALSE]
           new == Len(actions) + 1
<1> USE DEF SessionInv
<1>1. /\ ui = "startOp" /\ ui' = "idle" /\ actions' = Append(actions, op) /\ flow' = NoFlow
      /\ UNCHANGED <<queue, open, mode, history, busy, trapped>>
  BY DEF StartThreads, loop, marks
<1>2. Len(actions) \in Nat /\ DOMAIN actions = 1..Len(actions)
  BY SeqDomain DEF Shapes
<1>3. /\ IsSeq(actions') /\ DOMAIN actions' = DOMAIN actions \cup {new} /\ new \notin DOMAIN actions
      /\ actions'[new] = op /\ \A b \in DOMAIN actions : actions'[b] = actions[b]
  <2>1. /\ IsSeq(Append(actions, op)) /\ DOMAIN Append(actions, op) = 1..new
        /\ \A n \in DOMAIN actions : Append(actions, op)[n] = actions[n]
        /\ Append(actions, op)[new] = op
    BY AppendIsSeq DEF Shapes
  <2>2. 1..new = 1..Len(actions) \cup {new}
    BY <1>2
  <2> QED BY <1>1, <1>2, <2>1, <2>2
<1>4. mode = "Busy" /\ \A a \in DOMAIN actions : ~Unsettled(a)
  BY <1>1 DEF Handlers
<1>5. Shapes'
  <2>1. DOMAIN flow' = {"act", "target", "seen", "asks"} /\ flow'.asks \in Seq(Asked)
    BY <1>1 DEF NoFlow
  <2>2. IsSeq(actions)' /\ \A a \in DOMAIN actions' : DOMAIN actions'[a] = Fields
    BY <1>3 DEF Shapes, Fields, IsSeq
  <2>3. IsSeq(queue)'
    BY <1>1 DEF Shapes, IsSeq
  <2> QED BY <2>1, <2>2, <2>3 DEF Shapes
<1>6. OneOperation'
  BY <1>1, <1>3, <1>4
<1>7. Completions'
  BY <1>1, <1>3 DEF Completions
<1>8. Handlers'
  BY <1>1 DEF Handlers
<1>9. Picked' /\ ExecTarget'
  <2>1. flow.act \in Execs => history = flow.target
    BY <1>4 DEF Picked
  <2>2. Picked'
    BY <1>1 DEF NoFlow, Picked, Execs
  <2>3. ExecTarget'
    BY <1>1, <1>3, <2>1 DEF ExecTarget
  <2> QED BY <2>2, <2>3
<1>10. LostOnlyAtExit'
  BY <1>1, <1>3, <1>4 DEF LostOnlyAtExit
<1> QED BY <1>5, <1>6, <1>7, <1>8, <1>9, <1>10

LEMMA ActionPostStep ==
    ASSUME SessionInv, NEW a \in DOMAIN actions, ActionPost(a)
    PROVE  SessionInv'
<1> DEFINE op == [actions[a] EXCEPT !.pc = IF open THEN "sent" ELSE "lost", !.got = NoLists]
           task == Task("complete", a, actions[a].got)
<1> USE DEF SessionInv
<1>1. /\ actions[a].pc = "post" /\ actions' = [actions EXCEPT ![a] = op] /\ queue' = Posted(task)
      /\ UNCHANGED <<open, ui, flow, mode, history, busy, trapped>>
  BY DEF ActionPost, modal, marks
<1>2. /\ IsSeq(actions') /\ DOMAIN actions' = DOMAIN actions /\ actions'[a] = op
      /\ \A b \in DOMAIN actions : b # a => actions'[b] = actions[b]
  BY <1>1, ExceptIsSeq DEF Shapes
<1>3. /\ DOMAIN op = Fields /\ op.act = actions[a].act /\ op.target = actions[a].target
      /\ (open /\ op.pc = "sent") \/ (~open /\ op.pc = "lost")
  BY DEF Shapes, Fields
<1>4. mode = "Busy" /\ \A b \in DOMAIN actions : b # a => ~Unsettled(b)
  BY <1>1
<1>5. \A n \in DOMAIN queue : queue[n].kind # "complete"
  BY <1>1, <1>4 DEF Completions
<1> HIDE DEF op, task
<1>6. /\ IsSeq(queue') /\ DOMAIN queue' \subseteq DOMAIN queue \cup {Len(queue) + 1}
      /\ \A n \in DOMAIN queue' : (n \in DOMAIN queue /\ queue'[n] = queue[n])
                                   \/ (n = Len(queue) + 1 /\ queue'[n] = task /\ open)
  <2>1. CASE ~open
    <3>1. queue' = queue
      BY <1>1, <2>1 DEF Posted
    <3> QED BY <3>1 DEF Shapes, IsSeq
  <2>2. CASE open
    <3>1. queue' = Append(queue, task)
      BY <1>1, <2>2 DEF Posted
    <3>2. Len(queue) \in Nat /\ DOMAIN queue = 1..Len(queue)
      BY SeqDomain DEF Shapes
    <3>3. /\ IsSeq(Append(queue, task)) /\ DOMAIN Append(queue, task) = 1..(Len(queue) + 1)
          /\ \A n \in DOMAIN queue : Append(queue, task)[n] = queue[n]
          /\ Append(queue, task)[Len(queue) + 1] = task
      BY AppendIsSeq DEF Shapes
    <3> QED BY <2>2, <3>1, <3>2, <3>3
  <2> QED BY <2>1, <2>2
<1>7. Shapes'
  BY <1>1, <1>2, <1>3, <1>6 DEF Shapes, IsSeq
<1>8. OneOperation'
  <2>1. \A b \in DOMAIN actions' : Unsettled(b)' <=> b = a
    BY <1>2, <1>3, <1>4
  <2>2. mode' = "Busy" /\ busy' = busy /\ trapped' = trapped /\ ui' = ui
    BY <1>1, <1>4
  <2>3. (\E b \in DOMAIN actions' : Unsettled(b)')
        /\ \A b, c \in DOMAIN actions' : Unsettled(b)' /\ Unsettled(c)' => b = c
    BY <1>2, <2>1
  <2>4. busy = (mode = "Busy" /\ ui # "finishOp") /\ trapped = busy
    OBVIOUS
  <2>5. busy' = (mode' = "Busy" /\ ui' # "finishOp") /\ trapped' = busy'
    BY <1>4, <2>2, <2>4
  <2> QED BY <2>2, <2>3, <2>5
<1>9. Completions'
  <2>1. task.kind = "complete" /\ task.from = a
    BY DEF Task, task
  <2>2. \A n \in DOMAIN queue' : queue'[n].kind = "complete" =>
            n = Len(queue) + 1 /\ queue'[n].from = a /\ actions'[a].pc = "sent"
    BY <1>2, <1>3, <1>5, <1>6, <2>1
  <2> QED BY <1>2, <2>2 DEF Completions
<1>10. Handlers'
  <2>1. ui \notin {"startOp", "refreshJoin", "shell"}
    BY <1>1, <1>4 DEF Handlers
  <2>2. ui # "finishOp"
    <3> SUFFICES ASSUME ui = "finishOp" PROVE FALSE
      OBVIOUS
    <3>1. queue # <<>> /\ Head(queue).kind = "complete"
      BY DEF Handlers
    <3>2. 1 \in DOMAIN queue /\ Head(queue) = queue[1]
      BY <3>1, TailIsSeq DEF Shapes
    <3> QED BY <1>5, <3>1, <3>2
  <2> QED BY <1>1, <2>1, <2>2 DEF Handlers
<1>11. Picked' /\ ExecTarget'
  BY <1>1, <1>2, <1>3 DEF Picked, ExecTarget
<1>12. LostOnlyAtExit'
  <2>1. ui # "shell"
    BY <1>4 DEF Handlers
  <2> QED BY <1>1, <1>2, <1>3, <2>1 DEF LostOnlyAtExit
<1> QED BY <1>7, <1>8, <1>9, <1>10, <1>11, <1>12

LEMMA ShowResultStep == SessionInv /\ ShowResult => SessionInv'
<1> SUFFICES ASSUME SessionInv, ShowResult PROVE SessionInv'
  OBVIOUS
<1> DEFINE a == Head(queue).from
           op == [actions[a] EXCEPT !.pc = "settled"]
<1> USE DEF SessionInv
<1>1. /\ ui = "finishOp" /\ ui' = "idle" /\ mode' = "Message" /\ queue' = Tail(queue)
      /\ actions' = [actions EXCEPT ![a] = op]
      /\ UNCHANGED <<open, flow, history, busy, trapped>>
  BY DEF ShowResult, marks
<1>2. queue # <<>> /\ Head(queue).kind = "complete" /\ mode = "Busy"
  BY <1>1 DEF Handlers
<1>3. /\ Head(queue) = queue[1] /\ 1 \in DOMAIN queue /\ IsSeq(queue')
      /\ DOMAIN queue' = 1..(Len(queue) - 1)
      /\ \A n \in DOMAIN queue' : n + 1 \in DOMAIN queue /\ queue'[n] = queue[n + 1]
  BY <1>1, <1>2, TailIsSeq DEF Shapes
<1>4. a \in DOMAIN actions /\ actions[a].pc = "sent"
  BY <1>2, <1>3 DEF Completions
<1>5. /\ IsSeq(actions') /\ DOMAIN actions' = DOMAIN actions /\ actions'[a] = op
      /\ \A b \in DOMAIN actions : b # a => actions'[b] = actions[b]
  BY <1>1, <1>4, ExceptIsSeq DEF Shapes
<1>6. DOMAIN op = Fields /\ op.pc = "settled"
  BY <1>4 DEF Shapes, Fields
<1>7. \A b \in DOMAIN actions' : ~Unsettled(b)'
  BY <1>4, <1>5, <1>6
<1>8. Shapes'
  BY <1>1, <1>3, <1>5, <1>6 DEF Shapes, IsSeq
<1>9. OneOperation'
  BY <1>1, <1>2, <1>7
<1>10. \A n \in DOMAIN queue' : queue'[n].kind # "complete"
  <2>1. \A n \in DOMAIN queue' : n + 1 # 1
    BY <1>3, SeqDomain DEF Shapes
  <2> QED BY <1>2, <1>3, <2>1 DEF Completions
<1>11. Completions' /\ Handlers'
  BY <1>1, <1>10 DEF Completions, Handlers
<1>12. Picked' /\ ExecTarget' /\ LostOnlyAtExit'
  <2>1. Picked'
    BY <1>1, <1>2 DEF Picked
  <2>2. ExecTarget' /\ LostOnlyAtExit'
    BY <1>7 DEF ExecTarget, LostOnlyAtExit
  <2> QED BY <2>1, <2>2
<1> QED BY <1>8, <1>9, <1>11, <1>12

LEMMA CompleteStep == SessionInv /\ Complete => SessionInv'
<1> SUFFICES ASSUME SessionInv, Complete PROVE SessionInv'
  OBVIOUS
<1> USE DEF SessionInv
<1>1. /\ ui = "idle" /\ ui' = "finishOp" /\ busy' = FALSE /\ trapped' = FALSE
      /\ queue # <<>> /\ Head(queue).kind = "complete"
      /\ UNCHANGED <<queue, open, flow, mode, history, actions>>
  BY DEF Complete, Runs, loop, modal
<1>2. mode = "Busy"
  <2>1. 1 \in DOMAIN queue /\ Head(queue) = queue[1]
    BY <1>1, TailIsSeq DEF Shapes
  <2> QED BY <1>1, <2>1 DEF Completions
<1>3. Shapes' /\ Completions'
  BY <1>1 DEF Shapes, IsSeq, Completions
<1>4. OneOperation' /\ Handlers'
  BY <1>1, <1>2 DEF Handlers
<1>5. Picked' /\ ExecTarget' /\ LostOnlyAtExit'
  BY <1>1 DEF Picked, ExecTarget, LostOnlyAtExit
<1> QED BY <1>3, <1>4, <1>5

LEMMA LeaveStep == SessionInv /\ Leave => SessionInv'
<1> SUFFICES ASSUME SessionInv, Leave PROVE SessionInv'
  OBVIOUS
<1> USE DEF SessionInv
<1>1. /\ ui \notin {"startOp", "finishOp"} /\ ui' \notin {"startOp", "finishOp", "refreshJoin", "shell"}
      /\ UNCHANGED <<queue, open, flow, mode, history, busy, trapped, actions>>
  BY DEF Leave, LoopReturns, JoinPoller, JoinRefresh, JoinSpinner, JoinActions, Rest, loop, modal, marks
<1>2. Shapes' /\ Completions'
  BY <1>1 DEF Shapes, IsSeq, Completions
<1>3. OneOperation' /\ Handlers'
  BY <1>1 DEF Handlers
<1>4. Picked' /\ ExecTarget' /\ LostOnlyAtExit'
  BY <1>1 DEF Picked, ExecTarget, LostOnlyAtExit
<1> QED BY <1>2, <1>3, <1>4

(* What a callback chain asks is a sequence of Input and Confirm modals. *)
LEMMA AsksType ==
    ASSUME NEW act, NEW asks \in Asks(act)
    PROVE  asks \in Seq(Asked) /\ (asks # <<>> => Head(asks) \in Asked /\ Tail(asks) \in Seq(Asked))
<1>1. asks \in Seq(Asked)
  <2>1. CASE act \in {"pull", "stop"} \cup Execs
    <3>1. asks = <<"Input">>
      BY <2>1 DEF Asks, Execs
    <3> QED BY <3>1 DEF Asked
  <2>2. CASE act \in {"delete", "remove"}
    <3>1. asks = <<"Confirm">>
      BY <2>2 DEF Asks, Execs
    <3> QED BY <3>1 DEF Asked
  <2>3. CASE act = "create"
    <3>1. PICK p \in 0..MaxPorts : asks = [n \in 1..(2 + p) |-> "Input"]
      BY <2>3 DEF Asks, Execs
    <3>2. 2 + p \in Nat
      BY BoundsAssumption DEF BoundsAssumption
    <3> QED BY <3>1, <3>2 DEF Asked
  <2>4. CASE act \notin {"pull", "stop", "delete", "remove", "create"} \cup Execs
    <3>1. asks = <<>>
      BY <2>4 DEF Asks, Execs
    <3> QED BY <3>1
  <2> QED BY <2>1, <2>2, <2>3, <2>4
<1> QED BY <1>1

LEMMA ProceedStep ==
    ASSUME SessionInv, ui = "idle", mode # "Busy", NEW f, Proceed(f),
           DOMAIN f = {"act", "target", "seen", "asks"}, f.asks \in Seq(Asked),
           f.act \in Execs => history' = f.target,
           UNCHANGED <<queue, actions>>
    PROVE  SessionInv'
<1>1. CASE f.asks # <<>> /\ AskNext(f)
  <2>1. Head(f.asks) \in Asked /\ Tail(f.asks) \in Seq(Asked)
    BY <1>1
  <2>2. /\ mode' \in Asked /\ ui' = "idle" /\ UNCHANGED <<busy, trapped>>
        /\ DOMAIN flow' = {"act", "target", "seen", "asks"} /\ flow'.asks \in Seq(Asked)
        /\ flow'.act = f.act /\ flow'.target = f.target
    BY <1>1, <2>1 DEF AskNext
  <2>3. Picked'
    BY <2>2 DEF Picked
  <2> QED BY <2>2, <2>3, ModalStep DEF Asked
<1>2. CASE ExecShell
  <2>1. Picked' /\ DOMAIN flow' = {"act", "target", "seen", "asks"} /\ flow'.asks \in Seq(Asked)
    BY <1>2 DEF ExecShell, Picked, NoFlow, Execs
  <2> QED BY <1>2, <2>1, ModalStep DEF ExecShell
<1>3. CASE BeginBusyOperation(f)
  BY <1>3, BeginStep
<1> QED BY <1>1, <1>2, <1>3 DEF Proceed

LEMMA DismissStep ==
    ASSUME SessionInv, ui = "idle", mode # "Busy", Dismiss, UNCHANGED <<queue, actions>>
    PROVE  SessionInv'
<1>1. Picked' /\ DOMAIN flow' = {"act", "target", "seen", "asks"} /\ flow'.asks \in Seq(Asked)
  BY DEF Dismiss, Picked, NoFlow, Execs
<1> QED BY <1>1, ModalStep DEF Dismiss

LEMMA UserStep == SessionInv /\ User => SessionInv'
<1> SUFFICES ASSUME SessionInv, User PROVE SessionInv'
  OBVIOUS
<1>0. DOMAIN flow = {"act", "target", "seen", "asks"} /\ flow.asks \in Seq(Asked) /\ Picked
  BY DEF SessionInv, Shapes
<1>1. ASSUME Show \/ CloseMessage \/ OpenHistory \/ ResolveHistory PROVE SessionInv'
  <2>1. /\ ui = "idle" /\ mode \notin {"Busy", "Select"} /\ mode' \notin {"Busy", "Select"}
        /\ UNCHANGED <<queue, open, ui, flow, history, busy, trapped, actions>>
    BY <1>1 DEF Show, CloseMessage, OpenHistory, ResolveHistory, Awaits, loop, marks
  <2>2. Picked'
    BY <1>0, <2>1 DEF Picked
  <2> QED BY <1>0, <2>1, <2>2, ModalStep
<1>2. CASE ActionPullImage
  <2>1. PICK i \in Images, asks \in Asks("pull") :
            flow' = [act |-> "pull", target |-> i, seen |-> i, asks |-> Tail(asks)]
    BY <1>2 DEF ActionPullImage
  <2>2. asks = <<"Input">>
    BY DEF Asks, Execs
  <2>3. Tail(asks) \in Seq(Asked)
    BY <2>2 DEF Asked
  <2>4. /\ ui = "idle" /\ ui' = "idle" /\ mode = "None" /\ mode' = "Input"
        /\ UNCHANGED <<queue, open, busy, trapped, actions>>
    BY <1>2 DEF ActionPullImage, Awaits, loop, marks
  <2>5. Picked'
    BY <2>1 DEF Picked, Execs
  <2> QED BY <2>1, <2>3, <2>4, <2>5, ModalStep
<1>3. ASSUME NEW act \in OnContainer \cup OnImage, Prompt(act) PROVE SessionInv'
  <2>1. /\ ui = "idle" /\ mode = "None"
        /\ UNCHANGED <<queue, open, history, busy, trapped, actions>>
    BY <1>3 DEF Prompt, Awaits, loop, marks
  <2>2. CASE ui' = "refreshJoin" /\ UNCHANGED <<mode, entries, flow>>
    <3>1. Picked'
      BY <1>0, <2>1, <2>2 DEF Picked
    <3> QED BY <1>0, <2>1, <2>2, <3>1, ModalStep
  <2>3. CASE mode' = "Select" /\ UNCHANGED ui /\ \E asks \in Asks(act) :
                flow' = [NoFlow EXCEPT !.act = act, !.asks = asks]
    <3>1. PICK asks \in Asks(act) : flow' = [NoFlow EXCEPT !.act = act, !.asks = asks]
      BY <2>3
    <3>2. DOMAIN flow' = {"act", "target", "seen", "asks"} /\ flow'.asks \in Seq(Asked)
      BY <3>1, AsksType DEF NoFlow
    <3>3. Picked'
      BY <2>3 DEF Picked
    <3> QED BY <2>1, <2>3, <3>2, <3>3, ModalStep
  <2> QED BY <1>3, <2>2, <2>3 DEF Prompt
<1>4. CASE Exit
  <2>1. /\ queue' = Posted(Task("exit", 0, NoLists))
        /\ UNCHANGED <<open, ui, flow, mode, history, busy, trapped, actions>>
    BY <1>4 DEF Exit, modal, marks
  <2>2. Task("exit", 0, NoLists).kind # "complete"
    BY DEF Task
  <2> QED BY <2>1, <2>2, OtherPosted
<1>5. CASE ResolveSelect
  <2>1. ui = "idle" /\ mode = "Select" /\ UNCHANGED <<queue, actions>>
    BY <1>5 DEF ResolveSelect, Awaits
  <2>2. CASE Dismiss
    BY <2>1, <2>2, DismissStep
  <2>3. ASSUME NEW id, NEW shown, Proceed([flow EXCEPT !.target = id, !.seen = shown]),
               history' = IF flow.act \in Execs THEN id ELSE history
        PROVE  SessionInv'
    <3> DEFINE f == [flow EXCEPT !.target = id, !.seen = shown]
    <3>1. /\ DOMAIN f = {"act", "target", "seen", "asks"} /\ f.asks \in Seq(Asked)
          /\ f.act = flow.act /\ f.target = id
      BY <1>0
    <3> HIDE DEF f
    <3>2. f.act \in Execs => history' = f.target
      BY <2>3, <3>1
    <3>3. Proceed(f)
      BY <2>3 DEF f
    <3> QED BY <2>1, <3>1, <3>2, <3>3, ProceedStep
  <2> QED BY <1>5, <2>2, <2>3 DEF ResolveSelect
<1>6. ASSUME NEW m \in Asked, Resolve(m) PROVE SessionInv'
  <2>1. ui = "idle" /\ mode = m /\ UNCHANGED <<queue, history, actions>>
    BY <1>6 DEF Resolve, Awaits
  <2>2. mode \notin {"Busy", "Select"}
    BY <2>1 DEF Asked
  <2>3. flow.act \in Execs => history' = flow.target
    BY <1>0, <2>1, <2>2 DEF Picked
  <2>4. CASE Dismiss
    BY <2>1, <2>2, <2>4, DismissStep
  <2>5. CASE Proceed(flow)
    BY <1>0, <2>1, <2>2, <2>3, <2>5, ProceedStep
  <2> QED BY <1>6, <2>4, <2>5 DEF Resolve
<1> QED BY <1>1, <1>2, <1>3, <1>4, <1>5, <1>6 DEF User, Asked

LEMMA ActionsStep ==
    ASSUME SessionInv, NEW a \in DOMAIN actions, ActionStep(a)
    PROVE  SessionInv'
<1>0. DOMAIN actions[a] = Fields
  BY DEF SessionInv, Shapes
<1>1. CASE ActionCall(a)
  <2> DEFINE next == IF actions[a].act = "stop" THEN "containers" ELSE "post"
  <2>1. /\ actions[a].pc = "call"
        /\ UNCHANGED <<queue, open, ui, flow, mode, history, busy, trapped>>
    BY <1>1 DEF ActionCall, loop, modal, marks
  <2>2. PICK ok : \/ actions' = [actions EXCEPT ![a] = [actions[a] EXCEPT !.pc = next, !.ok = ok]]
                  \/ actions' = [actions EXCEPT ![a] = [actions[a] EXCEPT !.pc = next]]
    BY <1>1 DEF ActionCall
  <2> DEFINE answered == [actions[a] EXCEPT !.pc = next, !.ok = ok]
             lost     == [actions[a] EXCEPT !.pc = next]
  <2>3. /\ DOMAIN answered = Fields /\ answered.pc = next
        /\ DOMAIN lost = Fields /\ lost.pc = next
    BY <1>0 DEF Fields
  <2>4. actions' = [actions EXCEPT ![a] = answered] \/ actions' = [actions EXCEPT ![a] = lost]
    BY <2>2
  <2>5. next \in {"containers", "post"}
    OBVIOUS
  <2> HIDE DEF answered, lost, next
  <2> QED BY <2>1, <2>3, <2>4, <2>5, ThreadStep
<1>2. CASE ActionFetch(a)
  <2>1. /\ actions[a].pc \in Kinds
        /\ UNCHANGED <<queue, open, ui, flow, mode, history, busy, trapped>>
    BY <1>2 DEF ActionFetch, loop, modal, marks
  <2>2. PICK r : actions' = [actions EXCEPT ![a] = Fetched(actions[a], r)]
    BY <1>2 DEF ActionFetch
  <2>3. DOMAIN Fetched(actions[a], r) = Fields /\ Fetched(actions[a], r).pc \in {"images", "post"}
    BY <1>0 DEF Fetched, Fields
  <2> QED BY <2>1, <2>2, <2>3, ThreadStep DEF Kinds
<1>3. CASE ActionPost(a)
  BY <1>3, ActionPostStep
<1> QED BY <1>1, <1>2, <1>3 DEF ActionStep

LEMMA NextSession == SessionInv /\ [Next]_vars => SessionInv'
<1> SUFFICES ASSUME SessionInv, [Next]_vars PROVE SessionInv'
  OBVIOUS
<1> USE DEF vars, docker, modal, loop, marks, spin, poller
<1>1. CASE User
  BY <1>1, UserStep
<1>2. CASE ApplyRefreshResults \/ ExitLoop
  <2>1. Head(queue).kind # "complete"
    BY <1>2 DEF ApplyRefreshResults, ExitLoop, Runs
  <2> QED BY <1>2, <2>1, OtherRun DEF ApplyRefreshResults, ExitLoop, Runs
<1>3. CASE Complete
  BY <1>3, CompleteStep
<1>4. CASE ShowResult
  BY <1>4, ShowResultStep
<1>5. CASE StartThreads
  BY <1>5, StartThreadsStep
<1>6. CASE StartRefresh \/ ShellEnds
  <2>1. /\ ui \in {"refreshJoin", "shell"} /\ ui' = "idle" /\ mode = "None"
        /\ UNCHANGED <<queue, flow, mode, history, busy, trapped, actions>>
    BY <1>6 DEF StartRefresh, ShellEnds, SessionInv, Handlers
  <2>2. Picked' /\ DOMAIN flow' = {"act", "target", "seen", "asks"} /\ flow'.asks \in Seq(Asked)
    BY <2>1 DEF SessionInv, Shapes, Picked
  <2> QED BY <2>1, <2>2, ModalStep
<1>7. CASE Leave
  BY <1>7, LeaveStep
<1>8. CASE RefreshPost \/ PollPost \/ ExitSignal
  <2>1. PICK task : task.kind # "complete" /\ queue' = Posted(task)
    BY <1>8 DEF RefreshPost, PollPost, ExitSignal, Task
  <2>2. UNCHANGED <<open, ui, flow, mode, history, busy, trapped, actions>>
    BY <1>8 DEF RefreshPost, PollPost, ExitSignal
  <2> QED BY <2>1, <2>2, OtherPosted
<1>9. ASSUME NEW a \in DOMAIN actions, ActionStep(a) PROVE SessionInv'
  BY <1>9, ActionsStep
<1>10. CASE \/ SpinnerEnds \/ RefreshFetch \/ PollWakes \/ PollFetch \/ PollEnds
            \/ ChangedElsewhere \/ AppliedLate \/ Returned \/ UNCHANGED vars
  BY <1>10, Untouched DEF SpinnerEnds, RefreshFetch, PollWakes, PollFetch, PollEnds,
                          ChangedElsewhere, AppliedLate, Returned, seen
<1> QED BY <1>1, <1>2, <1>3, <1>4, <1>5, <1>6, <1>7, <1>8, <1>9, <1>10
        DEF Next, Program, HandleTask, Poller

LEMMA SessionInvariant == Spec => []SessionInv
<1> QED BY InitSession, NextSession, PTL DEF Spec

(* At most one operation is under way, and the Busy modal, operation_state_
   and the signal traps are there exactly as long as it is (main.cpp:600-653,
   973-977), whatever the poller, the refresh, the user and the signals do. *)
THEOREM OneOperationAtATime == Spec => []OneOperation
<1>1. SessionInv => OneOperation
  BY DEF SessionInv
<1> QED BY SessionInvariant, <1>1, PTL

(* The unsynchronised read of history_container_id_ in the thread of a command
   (main.cpp:868, 933) always yields the container the user picked for it. *)
THEOREM CommandReachesItsContainer == Spec => []ExecTarget
<1>1. SessionInv => ExecTarget
  BY DEF SessionInv
<1> QED BY SessionInvariant, <1>1, PTL

(* The Active() check and the dropped Post of an operation's thread
   (main.cpp:612, 643) lose a completion only when the session is over. *)
THEOREM CompletionsLostOnlyAtExit == Spec => []LostOnlyAtExit
<1>1. SessionInv => LostOnlyAtExit
  BY DEF SessionInv
<1> QED BY SessionInvariant, <1>1, PTL

(***************************************************************************)
(* Leaving: what each join of Run has established stays established.       *)
(***************************************************************************)
PollerGone  == {"joinRefresh", "joinSpinner", "joinActions", "returned"}
RefreshGone == {"joinSpinner", "joinActions", "returned"}
SpinnerGone == {"joinActions", "returned"}

JoinInv ==
    /\ ui \in PollerGone => poll.pc = "ended"
    /\ ui \in RefreshGone => refresh.pc = "none"
    /\ ui \in SpinnerGone => spinner = "none"
    /\ ui = "returned" => \A a \in DOMAIN actions : Finished(a)

LEMMA NextJoin == JoinInv /\ [Next]_vars => JoinInv'
<1> SUFFICES ASSUME JoinInv, [Next]_vars PROVE JoinInv'
  OBVIOUS
<1> USE DEF JoinInv, PollerGone, RefreshGone, SpinnerGone
<1>1. CASE ui \notin {"stopPoller"} \cup PollerGone
  <2>1. ui' \notin PollerGone
    BY <1>1 DEF Next, User, Program, HandleTask, Poller, Leave, ActionStep, Show, ActionPullImage, Exit,
         CloseMessage, Prompt, ResolveSelect, Resolve, OpenHistory, ResolveHistory, Dismiss, Proceed,
         AskNext, ExecShell, BeginBusyOperation, ApplyRefreshResults, Complete, ExitLoop, ShowResult,
         StartThreads, StartRefresh, ShellEnds, LoopReturns, JoinPoller, JoinRefresh, JoinSpinner,
         JoinActions, SpinnerEnds, RefreshFetch, RefreshPost, PollWakes, PollFetch, PollPost, PollEnds,
         ActionCall, ActionFetch, ActionPost, ExitSignal, ChangedElsewhere, AppliedLate, Returned, vars
  <2> QED BY <2>1
<1>2. CASE ui \in {"stopPoller"} \cup PollerGone
  <2>1. ~User /\ ~HandleTask /\ ~ShowResult /\ ~StartThreads /\ ~StartRefresh /\ ~ShellEnds
    BY <1>2 DEF User, HandleTask, ShowResult, StartThreads, StartRefresh, ShellEnds, Show, ActionPullImage,
         Exit, CloseMessage, Prompt, ResolveSelect, Resolve, OpenHistory, ResolveHistory, Awaits,
         ApplyRefreshResults, Complete, ExitLoop, Runs
  <2>2. CASE Leave
    BY <2>2 DEF Leave, LoopReturns, JoinPoller, JoinRefresh, JoinSpinner, JoinActions, Rest, poller, Finished
  <2>3. CASE SpinnerEnds
    BY <2>3 DEF SpinnerEnds, poller, Finished
  <2>4. CASE RefreshFetch \/ RefreshPost
    BY <2>4 DEF RefreshFetch, RefreshPost, Kinds, Idle, spin, poller, Finished
  <2>5. CASE Poller
    BY <2>5 DEF Poller, PollWakes, PollFetch, PollPost, PollEnds, Kinds, spin, Finished
  <2>6. ASSUME NEW a \in DOMAIN actions, ActionStep(a) PROVE JoinInv'
    <3>1. ~Finished(a)
      BY <2>6 DEF ActionStep, ActionCall, ActionFetch, ActionPost, Kinds, Finished
    <3>2. UNCHANGED <<ui, poll, refresh, spinner>>
      BY <2>6 DEF ActionStep, ActionCall, ActionFetch, ActionPost, spin, poller
    <3> QED BY <3>1, <3>2
  <2>7. CASE ExitSignal \/ ChangedElsewhere \/ AppliedLate \/ Returned \/ UNCHANGED vars
    BY <2>7 DEF ExitSignal, ChangedElsewhere, AppliedLate, Returned, vars, spin, poller, Finished
  <2> QED BY <2>1, <2>2, <2>3, <2>4, <2>5, <2>6, <2>7 DEF Next, Program
<1> QED BY <1>1, <1>2

(* Run returns, and destroys its screen, only when every thread it or its
   handlers started has ended and been joined (main.cpp:1150-1157). *)
THEOREM NoThreadLeft == Spec => []AllJoined
<1>1. Init => JoinInv
  BY DEF Init, JoinInv, PollerGone, RefreshGone, SpinnerGone
<1>2. JoinInv => AllJoined
  BY DEF JoinInv, AllJoined, PollerGone, RefreshGone, SpinnerGone
<1> QED BY <1>1, <1>2, NextJoin, PTL DEF Spec

(***************************************************************************)
(* The types.  A callback needs the bound on operations to hold still while *)
(* its modals are open, and a completion to be at the head of the queue    *)
(* when it leaves it.                                                      *)
(***************************************************************************)
Pending ==
    /\ mode \in {"Select", "Input", "Confirm", "History"} => flow.act \in Requests /\ ops < MaxOps
    /\ ui = "startOp" => flow.act \in Requests

DockerOK == /\ world \in Worlds /\ late \subseteq [act : Timed, target : Nat]
            /\ changes \in 0..MaxChanges /\ failures \in 0..MaxFailures
ListsOK  == /\ cache \in [Kinds -> Entries]
            /\ queue \in Seq(Tasks) /\ open \in BOOLEAN
ModalOK  == /\ mode \in {"None", "Input", "Confirm", "Select", "Message", "Busy", "History"}
            /\ entries \in Entries /\ flow \in Flows /\ history \in Nat
            /\ mode = "Select" => entries # <<>>
UIOK     == /\ ui \in {"idle", "refreshJoin", "startOp", "finishOp", "shell", "stopPoller",
                       "joinRefresh", "joinSpinner", "joinActions", "returned"}
            /\ ops \in 0..MaxOps /\ busy \in BOOLEAN /\ trapped \in BOOLEAN
ThreadsOK == /\ actions \in Seq(Records)
             /\ spinner \in {"none", "running", "ended"} /\ spinnerStop \in BOOLEAN
             /\ refresh \in [pc : {"none", "containers", "images", "post"}, got : Lists]
             /\ poll \in [pc : {"wait", "containers", "images", "post", "ended"}, got : Lists]
             /\ stop \in BOOLEAN /\ immediate \in BOOLEAN

(* TypeOK, split by the part of the program that keeps it. *)
LEMMA TypeParts == TypeOK <=> DockerOK /\ ListsOK /\ ModalOK /\ UIOK /\ ThreadsOK
BY DEF TypeOK, DockerOK, ListsOK, ModalOK, UIOK, ThreadsOK

(* A listing is a sequence of entries: Nth picks members of the set listed. *)
LEMMA ListingType ==
    ASSUME NEW things, NEW I \in SUBSET (Nat \ {0}), IsFiniteSet(I), things \in [I -> Lifecycle]
    PROVE  Listing(things) \in Entries
<1> DEFINE listed == {i \in I : things[i] \in {"idle", "running"}}
           count  == Cardinality(listed)
           id(n)  == Nth(count - n + 1, listed)
<1>1. Listing(things) = [n \in 1..count |-> [id |-> id(n), state |-> things[id(n)]]]
  BY DEF Listing
<1>2. listed \in SUBSET Nat /\ IsFiniteSet(listed)
  BY FS_Subset
<1> HIDE DEF listed
<1>3. count \in Nat /\ \A k \in 1..count : Nth(k, listed) \in listed
  BY <1>2, NthFacts, FS_CardinalityType
<1>4. \A n \in 1..count : count - n + 1 \in 1..count
  BY <1>3
<1>5. \A n \in 1..count : id(n) \in listed
  BY <1>3, <1>4
<1> HIDE DEF id
<1>6. \A n \in 1..count : [id |-> id(n), state |-> things[id(n)]] \in Entry
  BY <1>5 DEF Entry, listed
<1> QED BY <1>1, <1>3, <1>6 DEF Entries

(* What Docker would list is a legal list for the cache. *)
LEMMA WorldListing == ASSUME world \in Worlds, NEW k \in Kinds PROVE Listing(world[k]) \in Entries
<1>1. world.containers \in [Containers -> Lifecycle] /\ world.images \in [Images -> Lifecycle]
  BY DEF Worlds
<1>2. Listing(world.containers) \in Entries /\ Listing(world.images) \in Entries
  BY <1>1, IdsAssumption, ListingType DEF IdsAssumption
<1> QED BY <1>2 DEF Kinds

(* Setting one container or image leaves a world. *)
LEMMA SetType ==
    ASSUME NEW w \in Worlds, NEW t, NEW s \in Lifecycle
    PROVE  SetContainer(w, t, s) \in Worlds /\ SetImage(w, t, s) \in Worlds
BY DEF SetContainer, SetImage, Worlds

(* A call's effect on the world is a world. *)
LEMMA AnswerType ==
    ASSUME NEW w \in Worlds, NEW act, NEW t, NEW answer \in Answers(w, act, t)
    PROVE  answer.world \in Worlds /\ answer.ok \in BOOLEAN
<1> USE DEF Lifecycle
<1> SUFFICES \E v \in Worlds, ok \in BOOLEAN : answer = [world |-> v, ok |-> ok]
  OBVIOUS
<1> DEFINE made == SetImage(w, t, "idle")
<1>1. \A s \in Lifecycle : SetContainer(w, t, s) \in Worlds /\ SetImage(w, t, s) \in Worlds
  BY SetType
<1>2. \A c : SetContainer(made, c, "idle") \in Worlds
  BY <1>1, SetType
<1>3. \/ answer \in {[world |-> w, ok |-> FALSE], [world |-> w, ok |-> TRUE]}
      \/ \E s \in Lifecycle : answer \in {[world |-> SetContainer(w, t, s), ok |-> TRUE],
                                          [world |-> SetImage(w, t, s), ok |-> TRUE]}
      \/ \E c \in NextContainer(w) : answer = [world |-> SetContainer(made, c, "idle"), ok |-> TRUE]
  BY DEF Answers, CarriedOut
<1> HIDE DEF made
<1> QED BY <1>1, <1>2, <1>3

(* What another client may do to the world leaves a world. *)
LEMMA ElsewhereType == ASSUME NEW w \in Worlds, NEW v \in Elsewhere(w) PROVE v \in Worlds
<1> USE DEF Lifecycle
<1>1. CASE \E c : \E s \in Lifecycle : v = SetContainer(w, c, s) \/ v = SetImage(w, c, s)
  BY <1>1, SetType
<1> QED BY <1>1 DEF Elsewhere

(* The values for nothing fetched and nothing asked are typed. *)
LEMMA NoListsType == NoLists \in Lists /\ NoFlow.asks = <<>> /\ NoFlow \in Flows
BY DEF NoLists, Lists, NoFlow, Flows

(* A fetch gives what was listed or nothing. *)
LEMMA ReplyType ==
    ASSUME DockerOK, NEW k \in Kinds, NEW r \in Replies(k), CountFailure(r)
    PROVE  r \in SUBSET Entries /\ failures' \in 0..MaxFailures
<1>1. Listing(world[k]) \in Entries
  BY WorldListing DEF DockerOK
<1>2. r = {Listing(world[k])} \/ (r = {} /\ failures < MaxFailures)
  BY DEF Replies
<1>3. failures \in 0..MaxFailures /\ MaxFailures \in Nat
  BY BoundsAssumption DEF DockerOK, BoundsAssumption
<1> QED BY <1>1, <1>2, <1>3 DEF CountFailure

(* So the pair of lists a thread carries stays typed. *)
LEMMA FetchedType ==
    ASSUME NEW r \in SUBSET Entries
    PROVE  /\ refresh \in [pc : {"none", "containers", "images", "post"}, got : Lists] =>
                  Fetched(refresh, r) \in [pc : {"none", "containers", "images", "post"}, got : Lists]
           /\ poll \in [pc : {"wait", "containers", "images", "post", "ended"}, got : Lists] =>
                  Fetched(poll, r) \in [pc : {"wait", "containers", "images", "post", "ended"}, got : Lists]
           /\ \A op \in Records : Fetched(op, r) \in Records
BY DEF Fetched, Lists, Records

(* Applying a fetch fills the cache with listings. *)
LEMMA AppliedType == ASSUME cache \in [Kinds -> Entries], NEW got \in Lists PROVE Applied(got) \in [Kinds -> Entries]
<1>1. ASSUME NEW k \in Kinds, got[k] # {} PROVE (CHOOSE l \in got[k] : TRUE) \in Entries
  BY <1>1 DEF Lists
<1> QED BY <1>1 DEF Applied

(* Posting a typed task leaves a typed queue. *)
LEMMA PostedType ==
    ASSUME ListsOK, NEW task \in Tasks, queue' = Posted(task), UNCHANGED <<cache, open>>
    PROVE  ListsOK'
BY DEF ListsOK, Posted

(* Taking the first task of a queue gives a typed task and a typed queue. *)
LEMMA HeadType ==
    ASSUME queue \in Seq(Tasks), queue # <<>>
    PROVE  Head(queue) \in Tasks /\ Head(queue).got \in Lists /\ Tail(queue) \in Seq(Tasks)
<1>1. Head(queue) \in Tasks /\ Tail(queue) \in Seq(Tasks)
  OBVIOUS
<1> QED BY <1>1 DEF Tasks

(* What a step leaves alone keeps its type. *)
LEMMA SameTypes ==
    /\ DockerOK /\ UNCHANGED <<world, late, changes, failures>> => DockerOK'
    /\ ListsOK /\ UNCHANGED <<cache, queue, open>> => ListsOK'
    /\ ModalOK /\ UNCHANGED <<mode, entries, flow, history>> => ModalOK'
    /\ UIOK /\ UNCHANGED <<ui, ops, busy, trapped>> => UIOK'
    /\ ThreadsOK /\ UNCHANGED <<actions, spinner, spinnerStop, refresh, poll, stop, immediate>> => ThreadsOK'
BY DEF DockerOK, ListsOK, ModalOK, UIOK, ThreadsOK

Typed == DockerOK /\ ListsOK /\ ModalOK /\ UIOK /\ ThreadsOK

(* Every kind of request is a request, and nothing asked is none. *)
LEMMA RequestFacts ==
    /\ OnContainer \cup OnImage \subseteq Requests /\ "pull" \in Requests /\ Timed \subseteq Requests
    /\ "none" \notin Requests
BY DEF OnContainer, OnImage, Requests, Timed

(* The program starts typed, with no modal open. *)
LEMMA InitTyped == Init => Typed /\ Pending
<1> SUFFICES ASSUME Init PROVE Typed /\ Pending
  OBVIOUS
<1>1. DockerOK
  BY SetupAssumption, BoundsAssumption DEF Init, DockerOK, SetupAssumption, BoundsAssumption
<1>2. ListsOK
  <2>1. \A k \in Kinds : Listing(world[k]) \in Entries
    BY <1>1, WorldListing DEF DockerOK
  <2>2. <<>> \in Entries
    BY DEF Entries
  <2>3. cache \in [Kinds -> Entries]
    <3>1. PICK S : cache \in [Kinds -> S]
      BY DEF Init
    <3>2. \A k \in Kinds : cache[k] \in {<<>>, Listing(world[k])}
      BY DEF Init
    <3> QED BY <3>1, <3>2, <2>1, <2>2
  <2> QED BY <2>3 DEF Init, ListsOK
<1>3. ModalOK
  <2>1. entries = <<>> /\ <<>> \in Entries
    BY DEF Init, Entries
  <2> QED BY <2>1, NoListsType DEF Init, ModalOK
<1>4. UIOK /\ Pending
  <2>1. busy \in BOOLEAN /\ trapped \in BOOLEAN
    BY DEF Init
  <2>2. ui = "idle" /\ mode = "None" /\ ops = 0
    BY DEF Init
  <2>3. MaxOps \in Nat
    BY BoundsAssumption DEF BoundsAssumption
  <2>4. UIOK
    BY <2>1, <2>2, <2>3 DEF UIOK
  <2>5. Pending
    BY <2>2 DEF Pending
  <2> QED BY <2>4, <2>5
<1>5. ThreadsOK
  <2>1. refresh = [pc |-> "none", got |-> NoLists] /\ poll = [pc |-> "wait", got |-> NoLists]
    BY DEF Init, Idle, Waiting
  <2>2. actions = <<>> /\ <<>> \in Seq(Records)
    BY DEF Init
  <2>3. spinnerStop \in BOOLEAN /\ stop \in BOOLEAN /\ immediate \in BOOLEAN /\ spinner = "none"
    BY DEF Init
  <2> QED BY <2>1, <2>2, <2>3, NoListsType DEF ThreadsOK
<1> QED BY <1>1, <1>2, <1>3, <1>4, <1>5 DEF Typed

(* Docker changes, and a fetching thread asks for a list. *)
LEMMA DockerTypes ==
    ASSUME Typed, ChangedElsewhere \/ AppliedLate
    PROVE  Typed'
<1>1. UNCHANGED <<failures, cache, queue, open, ui, mode, entries, flow, history, ops, busy, trapped,
                  actions, spinner, spinnerStop, refresh, poll, stop, immediate>>
  BY DEF ChangedElsewhere, AppliedLate, loop, modal, marks, spin, poller
<1>2. DockerOK'
  <2>1. CASE ChangedElsewhere
    <3>1. world' \in Worlds
      BY <2>1, ElsewhereType DEF ChangedElsewhere, Typed, DockerOK
    <3> QED BY <2>1, <3>1, <1>1, BoundsAssumption DEF ChangedElsewhere, Typed, DockerOK, BoundsAssumption
  <2>2. CASE AppliedLate
    <3>0. PICK r \in late : \E answer \in Answers(world, r.act, r.target) : world' = answer.world /\ late' = late \ {r}
      BY <2>2 DEF AppliedLate
    <3>1. PICK answer \in Answers(world, r.act, r.target) : world' = answer.world /\ late' = late \ {r}
      BY <3>0
    <3>2. world' \in Worlds
      BY <3>1, AnswerType DEF Typed, DockerOK
    <3> QED BY <2>2, <3>1, <3>2, <1>1 DEF AppliedLate, Typed, DockerOK
  <2> QED BY <2>1, <2>2
<1> QED BY <1>1, <1>2, SameTypes DEF Typed

(* The refresh thread: two fetches and a post. *)
LEMMA RefreshTypes ==
    ASSUME Typed, StartRefresh \/ RefreshFetch \/ RefreshPost
    PROVE  Typed'
<1>1. CASE StartRefresh
  <2>1. UIOK' /\ ThreadsOK'
    BY <1>1, NoListsType DEF StartRefresh, Typed, UIOK, ThreadsOK, marks, spin, poller
  <2> QED BY <1>1, <2>1, SameTypes DEF StartRefresh, Typed, docker, loop, modal
<1>2. CASE RefreshFetch
  <2>1. PICK r \in Replies(refresh.pc) : refresh' = Fetched(refresh, r) /\ CountFailure(r)
    BY <1>2 DEF RefreshFetch
  <2>2. r \in SUBSET Entries /\ failures' \in 0..MaxFailures
    BY <1>2, <2>1, ReplyType DEF RefreshFetch, Typed
  <2>3. DockerOK'
    BY <1>2, <2>2 DEF RefreshFetch, Typed, DockerOK
  <2>4. ThreadsOK'
    BY <1>2, <2>1, <2>2, FetchedType DEF RefreshFetch, Typed, ThreadsOK, spin, poller
  <2> QED BY <1>2, <2>3, <2>4, SameTypes DEF RefreshFetch, Typed, loop, modal, marks
<1>3. CASE RefreshPost
  <2>1. refresh.got \in Lists
    BY DEF Typed, ThreadsOK
  <2>2. Task("apply", 0, refresh.got) \in Tasks
    BY <2>1 DEF Task, Tasks
  <2>3. ListsOK'
    BY <1>3, <2>2, PostedType DEF RefreshPost, Typed
  <2>4. ThreadsOK'
    BY <1>3, NoListsType DEF RefreshPost, Typed, ThreadsOK, spin, poller, Idle
  <2> QED BY <1>3, <2>3, <2>4, SameTypes DEF RefreshPost, Typed, docker, modal, marks
<1> QED BY <1>1, <1>2, <1>3

(* The poller: its waits, fetches and posts. *)
LEMMA PollerTypes == ASSUME Typed, Poller PROVE Typed'
<1>1. CASE PollWakes \/ PollEnds
  <2>1. ThreadsOK'
    BY <1>1 DEF PollWakes, PollEnds, Typed, ThreadsOK, spin
  <2> QED BY <1>1, <2>1, SameTypes DEF PollWakes, PollEnds, Typed, docker, loop, modal, marks
<1>2. CASE PollFetch
  <2>1. PICK r \in Replies(poll.pc) : poll' = Fetched(poll, r) /\ CountFailure(r)
    BY <1>2 DEF PollFetch
  <2>2. r \in SUBSET Entries /\ failures' \in 0..MaxFailures
    BY <1>2, <2>1, ReplyType DEF PollFetch, Typed
  <2>3. DockerOK'
    BY <1>2, <2>2 DEF PollFetch, Typed, DockerOK
  <2>4. ThreadsOK'
    BY <1>2, <2>1, <2>2, FetchedType DEF PollFetch, Typed, ThreadsOK, spin
  <2> QED BY <1>2, <2>3, <2>4, SameTypes DEF PollFetch, Typed, loop, modal, marks
<1>3. CASE PollPost
  <2>1. poll.got \in Lists
    BY DEF Typed, ThreadsOK
  <2>2. Task("apply", 0, poll.got) \in Tasks
    BY <2>1 DEF Task, Tasks
  <2>3. ListsOK'
    BY <1>3, <2>2, PostedType DEF PollPost, Typed
  <2>4. ThreadsOK'
    BY <1>3, NoListsType DEF PollPost, Typed, ThreadsOK, spin, Waiting
  <2> QED BY <1>3, <2>3, <2>4, SameTypes DEF PollPost, Typed, docker, modal, marks
<1> QED BY <1>1, <1>2, <1>3 DEF Poller

(* A step that leaves the flow and the bound alone and opens at most a message keeps Pending. *)
LEMMA PendingKept ==
    ASSUME Pending, UNCHANGED <<flow, ops>>, mode' \in {mode, "None", "Message"}, ui' = "startOp" => ui = "startOp"
    PROVE  Pending'
BY DEF Pending

(* A callback asks the next question, gives the terminal to a shell, or begins an operation. *)
LEMMA ProceedTypes ==
    ASSUME Typed, NEW f \in Flows, f.act \in Requests, ops < MaxOps, ui = "idle", Proceed(f),
           entries' \in Entries, history' \in Nat,
           UNCHANGED <<world, late, changes, failures, cache, queue, actions, spinner, refresh, poll, stop, immediate>>
    PROVE  Typed' /\ Pending'
<1> USE DEF Typed
<1>0. ops + 1 \in 0..MaxOps
  BY BoundsAssumption DEF UIOK, BoundsAssumption
<1>1. DockerOK'
  BY SameTypes
<1>2. CASE f.asks # <<>> /\ AskNext(f)
  <2>1. Head(f.asks) \in {"Input", "Confirm"} /\ Tail(f.asks) \in Seq({"Input", "Confirm"})
    <3>1. f.asks \in Seq({"Input", "Confirm"})
      BY DEF Flows
    <3> QED BY <1>2, <3>1
  <2>2. flow' \in Flows /\ flow'.act = f.act /\ mode' \in {"Input", "Confirm"}
    BY <1>2, <2>1 DEF AskNext, Flows
  <2>3. UNCHANGED <<ui, open, busy, trapped, ops, spinnerStop>>
    BY <1>2 DEF AskNext
  <2>4. ModalOK'
    BY <2>2 DEF ModalOK
  <2>5. Pending'
    BY <2>2, <2>3 DEF Pending
  <2> QED BY <1>1, <2>3, <2>4, <2>5, SameTypes
<1>3. CASE ExecShell
  <2>1. mode' = "None" /\ flow' = NoFlow /\ ops' = ops + 1 /\ ui' = "shell" /\ open' = FALSE
        /\ UNCHANGED <<busy, trapped, spinnerStop>>
    BY <1>3 DEF ExecShell
  <2>2. ModalOK'
    BY <2>1, NoListsType DEF ModalOK
  <2>3. UIOK' /\ ListsOK'
    BY <1>0, <2>1 DEF UIOK, ListsOK
  <2>4. Pending'
    BY <2>1 DEF Pending
  <2> QED BY <1>1, <2>1, <2>2, <2>3, <2>4, SameTypes
<1>4. CASE BeginBusyOperation(f)
  <2>1. mode' = "Busy" /\ flow' = f /\ busy' \in BOOLEAN /\ trapped' \in BOOLEAN /\ spinnerStop' \in BOOLEAN
        /\ ops' = ops + 1 /\ ui' = "startOp" /\ open' = open
    BY <1>4 DEF BeginBusyOperation
  <2>2. ModalOK' /\ Pending'
    BY <2>1 DEF ModalOK, Pending
  <2>3. UIOK' /\ ListsOK'
    BY <1>0, <2>1 DEF UIOK, ListsOK
  <2>4. ThreadsOK'
    BY <2>1 DEF ThreadsOK
  <2> QED BY <1>1, <2>2, <2>3, <2>4
<1> QED BY <1>2, <1>3, <1>4 DEF Proceed

(* Closing a modal. *)
LEMMA DismissTypes ==
    ASSUME Typed, ui = "idle", Dismiss, entries' \in Entries, history' \in Nat,
           UNCHANGED <<world, late, changes, failures, cache, queue, actions, spinner, refresh, poll, stop, immediate>>
    PROVE  Typed' /\ Pending'
<1>1. mode' = "None" /\ flow' = NoFlow /\ UNCHANGED <<ui, open, busy, trapped, ops, spinnerStop>>
  BY DEF Dismiss
<1>2. ModalOK' /\ Pending'
  BY <1>1, NoListsType DEF ModalOK, Pending
<1> QED BY <1>1, <1>2, SameTypes DEF Typed

(* The answer to a picker: dismissed, or an entry chosen and the next question asked. *)
LEMMA SelectTypes ==
    ASSUME Typed, Pending, ResolveSelect
    PROVE  Typed' /\ Pending'
<1> USE DEF Typed
<1>1. /\ ui = "idle" /\ mode = "Select" /\ entries' = <<>> /\ flow.act \in Requests /\ ops < MaxOps
      /\ UNCHANGED <<world, late, changes, failures, cache, queue, actions, spinner, refresh, poll, stop, immediate>>
  BY DEF ResolveSelect, Awaits, docker, poller, Pending
<1>2. entries' \in Entries /\ history \in Nat /\ flow \in Flows /\ entries \in Entries /\ cache \in [Kinds -> Entries]
  BY <1>1 DEF Entries, ModalOK, ListsOK
<1>3. CASE Dismiss /\ UNCHANGED history
  BY <1>1, <1>2, <1>3, DismissTypes
<1>4. ASSUME NEW n \in DOMAIN entries, n <= Len(cache[KindOf(flow.act)])
      PROVE  entries[n].id \in Nat /\ cache[KindOf(flow.act)][n].id \in Nat
  <2>1. cache[KindOf(flow.act)] \in Seq(Entry) /\ entries \in Seq(Entry)
    BY <1>2 DEF Kinds, KindOf, Entries
  <2> HIDE DEF Typed
  <2>2. cache[KindOf(flow.act)][n] \in Entry /\ entries[n] \in Entry
    BY <1>4, <2>1
  <2> QED BY <2>2 DEF Entry
<1>5. ASSUME NEW n \in DOMAIN entries, NEW id, id = cache[KindOf(flow.act)][n].id, n <= Len(cache[KindOf(flow.act)]),
             Proceed([flow EXCEPT !.target = id, !.seen = entries[n].id]),
             history' = IF flow.act \in Execs THEN id ELSE history
      PROVE  Typed' /\ Pending'
  <2> DEFINE f == [flow EXCEPT !.target = id, !.seen = entries[n].id]
  <2>1. f \in Flows /\ f.act = flow.act /\ history' \in Nat
    BY <1>2, <1>4, <1>5 DEF Flows
  <2>2. Proceed(f)
    BY <1>5
  <2> HIDE DEF f
  <2> QED BY <1>1, <1>2, <2>1, <2>2, ProceedTypes
<1>6. ASSUME NEW n \in DOMAIN entries PROVE n > Len(cache[KindOf(flow.act)]) \/ n <= Len(cache[KindOf(flow.act)])
  <2>1. cache[KindOf(flow.act)] \in Seq(Entry) /\ entries \in Seq(Entry)
    BY <1>2 DEF Kinds, KindOf, Entries
  <2> QED BY <1>6, <2>1
<1> QED BY <1>3, <1>5, <1>6 DEF ResolveSelect

(* Every callback of the user's keys. *)
LEMMA UserTypes ==
    ASSUME Typed, Pending, User
    PROVE  Typed' /\ Pending'
<1> USE DEF Typed
<1>1. CASE Show \/ CloseMessage
  <2>1. /\ mode' \in {"Message", "None"}
        /\ UNCHANGED <<world, late, changes, failures, cache, queue, open, ui, entries, flow, history, ops, busy, trapped,
                       actions, spinner, spinnerStop, refresh, poll, stop, immediate>>
    BY <1>1 DEF Show, CloseMessage, docker, loop, marks, spin, poller
  <2>2. ModalOK' /\ Pending'
    BY <2>1, PendingKept DEF ModalOK
  <2> QED BY <2>1, <2>2, SameTypes
<1>2. CASE OpenHistory \/ ResolveHistory
  <2>1. /\ mode \in {"Input", "History"} /\ mode' \in {"Input", "History"}
        /\ UNCHANGED <<world, late, changes, failures, cache, queue, open, ui, entries, flow, history, ops, busy, trapped,
                       actions, spinner, spinnerStop, refresh, poll, stop, immediate>>
    BY <1>2 DEF OpenHistory, ResolveHistory, Awaits, docker, loop, marks, spin, poller
  <2>2. ModalOK' /\ Pending'
    BY <2>1 DEF ModalOK, Pending
  <2> QED BY <2>1, <2>2, SameTypes
<1>3. CASE Exit
  <2>1. /\ queue' = Posted(Task("exit", 0, NoLists))
        /\ UNCHANGED <<world, late, changes, failures, cache, open, ui, mode, entries, flow, history, ops, busy, trapped,
                       actions, spinner, spinnerStop, refresh, poll, stop, immediate>>
    BY <1>3 DEF Exit, docker, modal, marks, spin, poller
  <2>2. Task("exit", 0, NoLists) \in Tasks
    BY NoListsType DEF Task, Tasks
  <2>3. ListsOK' /\ Pending'
    BY <2>1, <2>2, PostedType, PendingKept
  <2> QED BY <2>1, <2>3, SameTypes
<1>4. CASE ActionPullImage
  <2>1. /\ ui = "idle" /\ ops < MaxOps /\ mode' = "Input"
        /\ UNCHANGED <<world, late, changes, failures, cache, queue, open, ui, entries, history, ops, busy, trapped,
                       actions, spinner, spinnerStop, refresh, poll, stop, immediate>>
    BY <1>4 DEF ActionPullImage, Awaits, docker, loop, marks, spin, poller
  <2>2. PICK i \in Images, asks \in Asks("pull") :
            flow' = [act |-> "pull", target |-> i, seen |-> i, asks |-> Tail(asks)]
    BY <1>4 DEF ActionPullImage
  <2>3. i \in Nat /\ Tail(asks) \in Seq({"Input", "Confirm"})
    <3>1. asks = <<"Input">>
      BY DEF Asks, Execs
    <3> QED BY <3>1, IdsAssumption DEF IdsAssumption
  <2>4. flow' \in Flows /\ flow'.act \in Requests
    BY <2>2, <2>3, RequestFacts DEF Flows
  <2>5. ModalOK' /\ Pending'
    BY <2>1, <2>4 DEF ModalOK, Pending
  <2> QED BY <2>1, <2>5, SameTypes
<1>5. ASSUME NEW act \in OnContainer \cup OnImage, Prompt(act) PROVE Typed' /\ Pending'
  <2>1. /\ ui = "idle" /\ mode = "None" /\ ops < MaxOps
        /\ UNCHANGED <<world, late, changes, failures, cache, queue, open, history, ops, busy, trapped,
                       actions, spinner, spinnerStop, refresh, poll, stop, immediate>>
    BY <1>5 DEF Prompt, Awaits, docker, loop, marks, spin, poller
  <2>2. CASE ui' = "refreshJoin" /\ UNCHANGED <<mode, entries, flow>>
    <3>1. UIOK' /\ Pending'
      BY <2>1, <2>2, PendingKept DEF UIOK
    <3> QED BY <2>1, <2>2, <3>1, SameTypes
  <2>3. CASE /\ cache[KindOf(act)] # <<>> /\ mode' = "Select" /\ entries' = cache[KindOf(act)] /\ UNCHANGED ui
             /\ \E asks \in Asks(act) : flow' = [NoFlow EXCEPT !.act = act, !.asks = asks]
    <3>1. PICK asks \in Asks(act) : flow' = [NoFlow EXCEPT !.act = act, !.asks = asks]
      BY <2>3
    <3>2. asks \in Seq({"Input", "Confirm"}) /\ act \in Requests
      BY AsksType, RequestFacts DEF Asked
    <3>3. flow' \in Flows /\ flow'.act \in Requests
      BY <3>1, <3>2 DEF Flows, NoFlow
    <3>4. cache[KindOf(act)] \in Entries
      BY DEF ListsOK, KindOf, Kinds
    <3>5. ModalOK' /\ Pending'
      BY <2>1, <2>3, <3>3, <3>4 DEF ModalOK, Pending
    <3> QED BY <2>1, <2>3, <3>5, SameTypes
  <2> QED BY <1>5, <2>2, <2>3 DEF Prompt
<1>6. CASE ResolveSelect
  BY <1>6, SelectTypes
<1>7. ASSUME NEW m \in {"Input", "Confirm"}, Resolve(m) PROVE Typed' /\ Pending'
  <2>1. /\ ui = "idle" /\ flow.act \in Requests /\ ops < MaxOps
        /\ UNCHANGED <<world, late, changes, failures, cache, queue, entries, history, actions, spinner, refresh,
                       poll, stop, immediate>>
    BY <1>7 DEF Resolve, Awaits, docker, poller, Pending
  <2>2. entries' \in Entries /\ history' \in Nat /\ flow \in Flows
    BY <2>1 DEF ModalOK
  <2> HIDE DEF Typed
  <2> QED BY <1>7, <2>1, <2>2, DismissTypes, ProceedTypes DEF Resolve
<1> QED BY <1>1, <1>2, <1>3, <1>4, <1>5, <1>6, <1>7 DEF User

(* The thread of an operation. *)
LEMMA ActionTypes ==
    ASSUME Typed, NEW a \in DOMAIN actions, ActionStep(a)
    PROVE  Typed'
<1> USE DEF Typed
<1>1. actions \in Seq(Records) /\ actions[a] \in Records
  <2>1. actions \in Seq(Records)
    BY DEF ThreadsOK
  <2> HIDE DEF Typed
  <2> QED BY <2>1
<1>2. ASSUME NEW op \in Records, actions' = [actions EXCEPT ![a] = op],
             UNCHANGED <<spinner, spinnerStop, refresh, poll, stop, immediate>>
      PROVE  ThreadsOK'
  <2>1. [actions EXCEPT ![a] = op] \in Seq(Records)
    BY <1>1
  <2> QED BY <1>2, <2>1 DEF ThreadsOK
<1>3. CASE ActionCall(a)
  <2> DEFINE next == IF actions[a].act = "stop" THEN "containers" ELSE "post"
             target == TargetOf(actions[a])
  <2>1. target \in Nat
    BY <1>1 DEF TargetOf, Records, ModalOK
  <2>2. UNCHANGED <<changes, failures, cache, queue, open, ui, mode, entries, flow, history, ops, busy, trapped,
                    spinner, spinnerStop, refresh, poll, stop, immediate>>
    BY <1>3 DEF ActionCall, loop, modal, marks, spin, poller
  <2>3. CASE \E answer \in Answers(world, actions[a].act, target) :
                /\ world' = answer.world /\ late' = late
                /\ actions' = [actions EXCEPT ![a] = [actions[a] EXCEPT !.pc = next, !.ok = answer.ok]]
    <3>1. PICK answer \in Answers(world, actions[a].act, target) :
                /\ world' = answer.world /\ late' = late
                /\ actions' = [actions EXCEPT ![a] = [actions[a] EXCEPT !.pc = next, !.ok = answer.ok]]
      BY <2>3
    <3>2. answer.world \in Worlds /\ answer.ok \in BOOLEAN
      BY AnswerType DEF DockerOK
    <3>3. DockerOK'
      BY <2>2, <3>1, <3>2 DEF DockerOK
    <3>4. [actions[a] EXCEPT !.pc = next, !.ok = answer.ok] \in Records
      BY <1>1, <3>2 DEF Records
    <3>5. ThreadsOK'
      BY <1>2, <2>2, <3>1, <3>4
    <3> QED BY <2>2, <3>3, <3>5, SameTypes
  <2>4. CASE /\ actions[a].act \in Timed /\ world' = world
             /\ late' = late \cup {[act |-> actions[a].act, target |-> target]}
             /\ actions' = [actions EXCEPT ![a] = [actions[a] EXCEPT !.pc = next]]
    <3>1. DockerOK'
      BY <2>1, <2>2, <2>4 DEF DockerOK
    <3>2. [actions[a] EXCEPT !.pc = next] \in Records
      BY <1>1 DEF Records
    <3>3. ThreadsOK'
      BY <1>2, <2>2, <2>4, <3>2
    <3> QED BY <2>2, <3>1, <3>3, SameTypes
  <2>5. \/ /\ \E answer \in Answers(world, actions[a].act, target) :
                /\ world' = answer.world
                /\ actions' = [actions EXCEPT ![a] = [actions[a] EXCEPT !.pc = next, !.ok = answer.ok]]
           /\ UNCHANGED late
        \/ /\ Timeouts /\ actions[a].act \in Timed
           /\ late' = late \cup {[act |-> actions[a].act, target |-> target]}
           /\ actions' = [actions EXCEPT ![a] = [actions[a] EXCEPT !.pc = next]]
           /\ UNCHANGED world
    BY <1>3 DEF ActionCall
  <2> HIDE DEF next, target
  <2> QED BY <2>3, <2>4, <2>5
<1>4. CASE ActionFetch(a)
  <2>1. PICK r \in Replies(actions[a].pc) : actions' = [actions EXCEPT ![a] = Fetched(actions[a], r)] /\ CountFailure(r)
    BY <1>4 DEF ActionFetch
  <2>2. actions[a].pc \in Kinds /\
        UNCHANGED <<world, late, changes, cache, queue, open, ui, mode, entries, flow, history, ops, busy, trapped,
                    spinner, spinnerStop, refresh, poll, stop, immediate>>
    BY <1>4 DEF ActionFetch, loop, modal, marks, spin, poller
  <2>3. r \in SUBSET Entries /\ failures' \in 0..MaxFailures
    BY <2>1, <2>2, ReplyType
  <2>4. DockerOK'
    BY <2>2, <2>3 DEF DockerOK
  <2>5. ThreadsOK'
    BY <1>1, <1>2, <2>1, <2>2, <2>3, FetchedType
  <2> QED BY <2>2, <2>4, <2>5, SameTypes
<1>5. CASE ActionPost(a)
  <2> DEFINE op == [actions[a] EXCEPT !.pc = IF open THEN "sent" ELSE "lost", !.got = NoLists]
  <2>1. /\ queue' = Posted(Task("complete", a, actions[a].got)) /\ actions' = [actions EXCEPT ![a] = op]
        /\ UNCHANGED <<world, late, changes, failures, cache, open, ui, mode, entries, flow, history, ops, busy, trapped,
                       spinner, spinnerStop, refresh, poll, stop, immediate>>
    BY <1>5 DEF ActionPost, docker, modal, marks, spin, poller
  <2>2. op \in Records
    BY <1>1, NoListsType DEF Records
  <2>3. a \in Nat
    BY <1>1
  <2>4. Task("complete", a, actions[a].got) \in Tasks
    BY <1>1, <2>3 DEF Task, Tasks, Records
  <2> HIDE DEF op
  <2>5. ListsOK' /\ ThreadsOK'
    BY <1>2, <2>1, <2>2, <2>4, PostedType
  <2> QED BY <2>1, <2>5, SameTypes
<1> QED BY <1>3, <1>4, <1>5 DEF ActionStep

(* The closures the UI thread runs, and its way out. *)
LEMMA ClosureTypes ==
    ASSUME Typed, Pending, SessionInv, HandleTask \/ ShowResult \/ StartThreads \/ ShellEnds
    PROVE  Typed'
<1> USE DEF Typed
<1>1. CASE HandleTask
  <2>1. /\ queue # <<>>
        /\ UNCHANGED <<world, late, changes, failures, mode, entries, flow, history, ops,
                       actions, spinner, refresh, poll, stop, immediate>>
    BY <1>1 DEF HandleTask, ApplyRefreshResults, Complete, ExitLoop, Runs, docker, loop, modal, marks, spin, poller
  <2>2. Head(queue).got \in Lists /\ Tail(queue) \in Seq(Tasks)
    BY <2>1, HeadType DEF ListsOK
  <2>3. ListsOK'
    <3>1. Applied(Head(queue).got) \in [Kinds -> Entries]
      BY <2>2, AppliedType DEF ListsOK
    <3> QED BY <1>1, <2>2, <3>1 DEF HandleTask, ApplyRefreshResults, Complete, ExitLoop, ListsOK, loop
  <2>4. UIOK' /\ ThreadsOK'
    <3>1. CASE ApplyRefreshResults \/ ExitLoop
      BY <3>1, SameTypes DEF ApplyRefreshResults, ExitLoop, marks, spin, poller
    <3>2. CASE Complete
      <4>1. busy' \in BOOLEAN /\ trapped' \in BOOLEAN /\ spinnerStop' \in BOOLEAN /\ ui' = "finishOp"
        BY <3>2 DEF Complete
      <4> QED BY <2>1, <4>1 DEF UIOK, ThreadsOK
    <3> QED BY <1>1, <3>1, <3>2 DEF HandleTask
  <2> QED BY <2>1, <2>3, <2>4, SameTypes
<1>2. CASE ShowResult
  <2> DEFINE a == Head(queue).from
             op == [actions[a] EXCEPT !.pc = "settled"]
  <2>1. /\ ui = "finishOp" /\ ui' = "idle" /\ mode' = "Message" /\ spinner' = "none" /\ queue' = Tail(queue)
        /\ actions' = [actions EXCEPT ![a] = op] /\ immediate' \in BOOLEAN
        /\ UNCHANGED <<world, late, changes, failures, cache, open, entries, flow, history, ops, busy, trapped,
                       spinnerStop, refresh, poll, stop>>
    BY <1>2 DEF ShowResult, docker, marks
  <2>2. queue # <<>>
    BY <2>1 DEF SessionInv, Handlers
  <2>3. ListsOK'
    BY <2>1, <2>2, HeadType DEF ListsOK
  <2>4. a \in DOMAIN actions => op \in Records
    <3>1. actions \in Seq(Records)
      BY DEF ThreadsOK
    <3> HIDE DEF Typed
    <3>2. a \in DOMAIN actions => actions[a] \in Records
      BY <3>1
    <3> QED BY <3>2 DEF Records
  <2> HIDE DEF a, op
  <2>5. actions' \in Seq(Records)
    <3>1. actions \in Seq(Records)
      BY DEF ThreadsOK
    <3>2. a \in DOMAIN actions
      <4>1. Head(queue) = queue[1] /\ 1 \in DOMAIN queue /\ Head(queue).kind = "complete"
        BY <2>1, <2>2, TailIsSeq DEF SessionInv, Shapes, Handlers
      <4> QED BY <4>1 DEF SessionInv, Completions, a
    <3> HIDE DEF Typed
    <3> QED BY <2>1, <2>4, <3>1, <3>2
  <2>6. ThreadsOK' /\ UIOK' /\ ModalOK'
    BY <2>1, <2>5 DEF ThreadsOK, UIOK, ModalOK
  <2> QED BY <2>1, <2>3, <2>6, SameTypes
<1>3. CASE StartThreads
  <2> DEFINE op == [act |-> flow.act, target |-> flow.target, seen |-> flow.seen,
                    pc |-> "call", got |-> NoLists, ok |-> FALSE]
  <2>1. /\ ui = "startOp" /\ ui' = "idle" /\ spinner' = "running" /\ spinnerStop' \in BOOLEAN /\ flow' = NoFlow
        /\ actions' = Append(actions, op)
        /\ UNCHANGED <<world, late, changes, failures, cache, queue, open, mode, entries, history, ops, busy, trapped,
                       refresh, poll, stop, immediate>>
    BY <1>3 DEF StartThreads, docker, loop, marks, poller
  <2>2. op \in Records
    BY <2>1, NoListsType DEF ModalOK, Flows, Pending, Records
  <2> HIDE DEF op
  <2>3. actions' \in Seq(Records)
    BY <2>1, <2>2 DEF ThreadsOK
  <2>4. ThreadsOK' /\ UIOK' /\ ModalOK'
    BY <2>1, <2>3, NoListsType DEF ThreadsOK, UIOK, ModalOK
  <2> QED BY <2>1, <2>4, SameTypes
<1>4. CASE ShellEnds
  <2>1. UIOK' /\ ListsOK'
    BY <1>4 DEF ShellEnds, UIOK, ListsOK, marks
  <2> QED BY <1>4, <2>1, SameTypes DEF ShellEnds, docker, modal, spin, poller
<1> QED BY <1>1, <1>2, <1>3, <1>4

(* Leaving Run, the end of the spinner and the posted exit. *)
LEMMA LeaveTypes ==
    ASSUME Typed, Leave \/ SpinnerEnds \/ ExitSignal
    PROVE  Typed'
<1> USE DEF Typed
<1>1. CASE Leave
  <2>1. UIOK' /\ ThreadsOK'
    BY <1>1 DEF Leave, LoopReturns, JoinPoller, JoinRefresh, JoinSpinner, JoinActions, Rest, marks, UIOK, ThreadsOK
  <2>2. UNCHANGED <<world, late, changes, failures, cache, queue, open, mode, entries, flow, history>>
    BY <1>1 DEF Leave, LoopReturns, JoinPoller, JoinRefresh, JoinSpinner, JoinActions, Rest, docker, loop, modal
  <2> QED BY <2>1, <2>2, SameTypes
<1>2. CASE SpinnerEnds
  <2>1. ThreadsOK'
    BY <1>2 DEF SpinnerEnds, ThreadsOK, poller
  <2> QED BY <1>2, <2>1, SameTypes DEF SpinnerEnds, docker, loop, modal, marks
<1>3. CASE ExitSignal
  <2>1. Task("exit", 0, NoLists) \in Tasks
    BY NoListsType DEF Task, Tasks
  <2>2. ListsOK'
    BY <1>3, <2>1, PostedType DEF ExitSignal
  <2> QED BY <1>3, <2>2, SameTypes DEF ExitSignal, docker, modal, marks, spin, poller
<1> QED BY <1>1, <1>2, <1>3

(* Outside the callbacks, nothing an open modal waits for changes. *)
LEMMA PendingElsewhere ==
    ASSUME Pending, SessionInv, [Next]_vars, ~User
    PROVE  Pending'
<1>1. CASE StartThreads
  <2>1. mode = "Busy"
    BY <1>1 DEF StartThreads, SessionInv, Handlers
  <2>2. mode' = "Busy" /\ ui' = "idle"
    BY <1>1, <2>1 DEF StartThreads, modal
  <2> QED BY <2>2 DEF Pending
<1>2. CASE ~StartThreads
  <2>1. UNCHANGED <<flow, ops>>
    BY <1>2 DEF Next, Program, HandleTask, Poller, Leave, ActionStep, ApplyRefreshResults, Complete, ExitLoop, ShowResult,
         StartRefresh, ShellEnds, LoopReturns, JoinPoller, JoinRefresh, JoinSpinner, JoinActions, SpinnerEnds,
         RefreshFetch, RefreshPost, PollWakes, PollFetch, PollPost, PollEnds, ActionCall, ActionFetch, ActionPost,
         ExitSignal, ChangedElsewhere, AppliedLate, Returned, Rest, modal, vars
  <2>2. mode' \in {mode, "Message"}
    BY <1>2 DEF Next, Program, HandleTask, Poller, Leave, ActionStep, ApplyRefreshResults, Complete, ExitLoop, ShowResult,
         StartRefresh, ShellEnds, LoopReturns, JoinPoller, JoinRefresh, JoinSpinner, JoinActions, SpinnerEnds,
         RefreshFetch, RefreshPost, PollWakes, PollFetch, PollPost, PollEnds, ActionCall, ActionFetch, ActionPost,
         ExitSignal, ChangedElsewhere, AppliedLate, Returned, Rest, modal, vars
  <2>3. ui' = "startOp" => ui = "startOp"
    BY <1>2 DEF Next, Program, HandleTask, Poller, Leave, ActionStep, ApplyRefreshResults, Complete, ExitLoop, ShowResult,
         StartRefresh, ShellEnds, LoopReturns, JoinPoller, JoinRefresh, JoinSpinner, JoinActions, SpinnerEnds,
         RefreshFetch, RefreshPost, PollWakes, PollFetch, PollPost, PollEnds, ActionCall, ActionFetch, ActionPost,
         ExitSignal, ChangedElsewhere, AppliedLate, Returned, Rest, vars
  <2> QED BY <2>1, <2>2, <2>3, PendingKept
<1> QED BY <1>1, <1>2

(* Every step keeps the types, given what the session invariant says of tasks and modals. *)
LEMMA TypesKept == Typed /\ Pending /\ SessionInv /\ [Next]_vars => Typed' /\ Pending'
<1> SUFFICES ASSUME Typed, Pending, SessionInv, [Next]_vars PROVE Typed' /\ Pending'
  OBVIOUS
<1>1. CASE User
  BY <1>1, UserTypes
<1>2. CASE ~User
  <2>1. Pending'
    BY <1>2, PendingElsewhere
  <2>2. CASE Returned \/ UNCHANGED vars
    <3>1. UNCHANGED <<world, late, changes, failures, cache, queue, open, ui, mode, entries, flow, history, ops, busy,
                      trapped, actions, spinner, spinnerStop, refresh, poll, stop, immediate>>
      BY <2>2 DEF Returned, vars, docker, loop, modal, marks, spin, poller
    <3> QED BY <2>1, <3>1, SameTypes DEF Typed
  <2>3. Typed'
    BY <1>2, <2>2, DockerTypes, RefreshTypes, PollerTypes, ActionTypes, ClosureTypes, LeaveTypes DEF Next, Program
  <2> QED BY <2>1, <2>3
<1> QED BY <1>1, <1>2

(* Whatever the user, the other threads, Docker and the signals do, every variable of the program
   keeps its type, the bounds hold, and a Select modal has entries (main.cpp:522-530). *)
THEOREM TypesCorrect == Spec => []TypeOK
<1> DEFINE Inv == Typed /\ Pending /\ SessionInv
<1>1. Init => Inv
  BY InitTyped, InitSession
<1>2. Inv /\ [Next]_vars => Inv'
  BY TypesKept, NextSession
<1>3. Inv => TypeOK
  BY TypeParts DEF Typed
<1> QED BY <1>1, <1>2, <1>3, PTL DEF Spec
=============================================================================
