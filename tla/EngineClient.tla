----------------------------- MODULE EngineClient -----------------------------
(***************************************************************************)
(* One call of DockerManager on its way through DockerEngineClient,        *)
(* src/src/docker_engine_client.cpp: a connection per request, the write   *)
(* of the request, the read loop with its time limit per read, the parse,  *)
(* and the repetition after a read that was interrupted.  On the other     *)
(* side the Docker Engine, external, with one object (a container, or an   *)
(* image for "delete", where "running" stands for one in use): it carries  *)
(* out a request it has received even if nobody waits for the answer any   *)
(* more, and may end in the middle of an answer.                           *)
(***************************************************************************)
EXTENDS HttpResponse

CONSTANTS Acts,         \* the calls made: start, stop, remove, delete, list, ping
          Framed,       \* how the Engine delimits bodies
          EngineEnds,   \* whether the Engine may end while it answers
          MaxChanges    \* bound: changes by other Docker clients

ASSUME ClientAssumption == /\ Acts \subseteq {"start", "stop", "remove", "delete", "list", "ping"}
                           /\ Framed \subseteq Framings
                           /\ EngineEnds \in BOOLEAN
                           /\ MaxChanges \in Nat

States == {"idle", "running", "gone"}

VARIABLES thing, late, changes,     \* Docker's object, the abandoned requests it still holds
          call, pc,                 \* the call, and where the thread is in request()
          conn, got,                \* the connection, and the pieces read from it: raw
          report,                   \* what the last call returned
          seen                      \* history: the states of the object since the call began, {} between calls

engine == <<thing, late, changes>>
client == <<engine, call, pc, conn, got, report, seen>>

(***************************************************************************)
(* The Engine.                                                             *)
(***************************************************************************)
Answer(status, after, body) == [status |-> status, after |-> after, body |-> body]

Message == <<"x">>      \* an error message, and the OK of a ping

(* The JSON of a listing: none is a prefix of another. *)
Listing == [s \in States |-> CASE s = "idle" -> <<"x", "x">> [] s = "running" -> <<"x", "0">>
                               [] s = "gone" -> <<"2", "x">>]

(* To an object that is there, in state s. *)
Changing(act, s) ==
    CASE act = "start"  -> IF s = "running" THEN Answer(304, s, <<>>) ELSE Answer(204, "running", <<>>)
      [] act = "stop"   -> IF s = "idle" THEN Answer(304, s, <<>>) ELSE Answer(204, "idle", <<>>)
      [] act = "remove" -> IF s = "running" THEN Answer(409, s, Message) ELSE Answer(204, "gone", <<>>)
      [] act = "delete" -> IF s = "running" THEN Answer(409, s, Message) ELSE Answer(200, "gone", Message)

Regular(act, s) ==
    CASE act = "ping" -> Answer(200, s, Message)
      [] act = "list" -> Answer(200, s, Listing[s])
      [] OTHER        -> IF s = "gone" THEN Answer(404, s, Message) ELSE Changing(act, s)

AnswersTo(act, s) == {Regular(act, s), Answer(500, s, Message)}

After(act, s) == {answer.after : answer \in AnswersTo(act, s)}

(* The Engine may send a body in one chunk or symbol by symbol. *)
Chunkings(body) == IF body = <<>> THEN {<<>>} ELSE {<<body>>, [i \in DOMAIN body |-> <<body[i]>>]}

Refused(act, status) == status \in {409, 500} \/ (act = "start" /\ status = 404)

NoReply == Response(0, "close", <<>>)
Closed  == [answered |-> FALSE, reply |-> NoReply, ended |-> FALSE]

(***************************************************************************)
(* DockerManager: what it makes of a response.                             *)
(***************************************************************************)
(* A slip, kept for the runs to detect: a missing container counts as success for a start, too. *)
AcceptedLoosely ==
    [start |-> {304, 404}, stop |-> {304, 404}, remove |-> {404}, delete |-> {404}, list |-> {}, ping |-> {}]

AlsoAccepted == [start |-> {304}, stop |-> {304, 404}, remove |-> {404}, delete |-> {404}, list |-> {}, ping |-> {}]

(* A slip, kept for the runs to detect: what a repeated request meets is not taken for success. *)
OkStrict(act, response) == Succeeded(response.status) /\ response.error = "none"

Ok(act, response) == \/ Succeeded(response.status) /\ response.error = "none"
                     \/ response.status \in AlsoAccepted[act]

Tells(response) == {s \in States : Listing[s] = response.body}

Verdict(act, response) ==
    IF Ok(act, response) /\ (act = "list" => Tells(response) # {}) /\ (act = "ping" => response.body = Message)
    THEN [verdict |-> "ok", told |-> IF act = "list" THEN CHOOSE s \in Tells(response) : TRUE ELSE "none",
          error |-> response.error]
    ELSE [verdict |-> "failed", told |-> "none", error |-> response.error]

Unreported == [verdict |-> "none", told |-> "none", error |-> "none"]

Failed(error) == [status |-> 0, body |-> <<>>, error |-> error]

(***************************************************************************)
(* The client, step by step.                                               *)
(***************************************************************************)
ClientInit == /\ thing \in States /\ late = [a \in Acts |-> 0] /\ changes = 0
              /\ call = "none" /\ pc = "idle" /\ conn = Closed /\ got = 0
              /\ report = Unreported /\ seen = {}

Call(a) == /\ pc = "idle"
           /\ call' = a /\ pc' = "connect" /\ seen' = {thing} /\ report' = Unreported
           /\ UNCHANGED <<engine, conn, got>>

Return(response) == /\ report' \in {Verdict(call, heard) : heard \in {response}}
                    /\ call' = "none" /\ pc' = "idle" /\ conn' = Closed /\ got' = 0 /\ seen' = {}
                    /\ UNCHANGED <<thing, changes>>

(* A request that was written and not answered stays with the Engine. *)
Abandon == late' = IF pc = "read" /\ ~conn.answered THEN [late EXCEPT ![call] = @ + 1] ELSE late

(* connect() is called before the time limits are set, so it may block for as
   long as the Engine's backlog is full: that this step is ever taken is an
   assumption about the Engine, which the fairness of Operation states apart. *)
Connect == /\ pc = "connect" /\ pc' = "write"
           /\ UNCHANGED <<engine, call, conn, got, report, seen>>

(* socket, connect or write fails: reported at once, the interrupted ones too. *)
ConnectionFails == pc \in {"connect", "write"} /\ Return(Failed("connection")) /\ UNCHANGED late

Write == /\ pc = "write" /\ pc' = "read"
         /\ UNCHANGED <<engine, call, conn, got, report, seen>>

(* read() returned some bytes: the loop goes on until they are a whole response. *)
Receive == /\ pc = "read" /\ conn.answered /\ ~conn.ended
           /\ \E n \in (got + 1)..Size(conn.reply) :
                  IF Complete(conn.reply, n)
                  THEN Return(Parse(conn.reply, n)) /\ UNCHANGED late
                  ELSE got' = n /\ UNCHANGED <<engine, call, pc, conn, report, seen>>

(* read() returned 0: the Engine has sent all and closed the connection, or has ended. *)
EndOfFile == /\ pc = "read" /\ conn.answered
             /\ conn.ended \/ got = Size(conn.reply)
             /\ Return(Parse(conn.reply, got))
             /\ UNCHANGED late

(* A slip, kept for the runs to detect: the socket has no time limit. *)
TimeOutNever == pc = "read" /\ FALSE /\ UNCHANGED client

(* EAGAIN; the loop would have ended had the response been complete. *)
TimeOut == /\ pc = "read" /\ ~conn.ended
           /\ Return(Failed("timeout"))
           /\ Abandon

(* ECONNRESET: the Engine ended with the connection open. *)
Reset == /\ pc = "read" /\ conn.ended
         /\ Return(Failed("connection"))
         /\ UNCHANGED late

(* EINTR: the whole request again, on a connection of its own. *)
Again == /\ pc = "read"
         /\ Abandon
         /\ pc' = "connect" /\ conn' = Closed /\ got' = 0
         /\ UNCHANGED <<thing, changes, call, report, seen>>

Client == Connect \/ ConnectionFails \/ Write \/ Receive \/ EndOfFile \/ TimeOut \/ Reset

(***************************************************************************)
(* The Engine's steps, and other Docker clients.                           *)
(***************************************************************************)
Becomes(s) == thing' = s /\ seen' = IF call = "none" THEN {} ELSE seen \cup {s}

EngineAnswers ==
    /\ pc = "read" /\ ~conn.answered
    /\ \E answer \in AnswersTo(call, thing), framing \in Framed :
         \E chunks \in Chunkings(answer.body) :
             conn' = [answered |-> TRUE, reply |-> Response(answer.status, framing, chunks), ended |-> FALSE]
         /\ Becomes(answer.after)
    /\ UNCHANGED <<late, changes, call, pc, got, report>>

(* It ends in the middle of an answer: what has not been read by then never comes. *)
EngineStops == /\ EngineEnds /\ conn.answered /\ got < Size(conn.reply)
               /\ ~conn.ended /\ conn' = [conn EXCEPT !.ended = TRUE]
               /\ UNCHANGED <<engine, call, pc, got, report, seen>>

EngineIsLate == \E a \in Acts :
    /\ late[a] > 0
    /\ late' = [late EXCEPT ![a] = @ - 1]
    /\ \E s \in After(a, thing) : Becomes(s)
    /\ UNCHANGED <<changes, call, pc, conn, got, report>>

ChangedElsewhere == /\ changes < MaxChanges /\ changes' = changes + 1
                    /\ \E s \in States \ {thing} : Becomes(s)
                    /\ UNCHANGED <<late, call, pc, conn, got, report>>

Engine == EngineAnswers \/ EngineStops \/ EngineIsLate \/ ChangedElsewhere

(***************************************************************************)
(* What a call promises to its caller.                                     *)
(***************************************************************************)
Promised(act) == CASE act = "start" -> {"running"}
                   [] act = "stop" -> {"idle", "gone"}
                   [] act \in {"remove", "delete"} -> {"gone"}
                   [] OTHER -> States

Issued == {a \in Acts : late[a] > 0} \cup (IF call # "none" /\ ~conn.answered THEN {call} ELSE {})

(* When the whole answer came through, a call fails only if Docker refused it: neither the way
   the answer was cut up, nor a request carried out before, makes it fail (httpResponseComplete
   against parseHttpResponse; DEVLOG.md:16).  The exception is a chunk that is just "0". *)
FailsOnlyIfRefused ==
    [][(/\ call # "none" /\ call' = "none"
        /\ report'.verdict = "failed" /\ report'.error \notin {"timeout", "connection"}
        /\ conn.answered /\ ~conn.ended)
           => Refused(call, conn.reply.status) \/ SeemsToEnd(conn.reply)]_client
=============================================================================
