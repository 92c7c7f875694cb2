------------------------------ MODULE DockerCall ------------------------------
(***************************************************************************)
(* What a caller of DockerManager may rely on, whatever happens to its     *)
(* request on the way: a call returns, unless the program is killed; one that reports success saw Docker *)
(* in the state it promises at some moment since the call began, and a     *)
(* listing is Docker's state at such a moment.  Docker may carry a request *)
(* out more than once, and after the call has reported failure, but never  *)
(* one that nobody asked for.                                              *)
(***************************************************************************)
CONSTANTS Acts,                 \* the calls
          After(_, _),          \* the states a call may leave Docker's object in
          Promised(_)           \* the states a successful call promises

VARIABLES thing,    \* the state of Docker's object
          issued,   \* the calls Docker may yet carry out
          call,     \* the call in progress, or "none"
          seen,     \* the states since it began; {} between calls
          report,   \* what the last call returned: its verdict, and the state a listing told
          alive     \* whether the program that calls still runs

Init == /\ thing \in {"idle", "running", "gone"}
        /\ issued = {} /\ call = "none" /\ seen = {}
        /\ report = [verdict |-> "none", told |-> "none"]
        /\ alive = TRUE

Call(a) == /\ alive /\ call = "none"
           /\ call' = a /\ issued' = issued \cup {a} /\ seen' = {thing}
           /\ report' = [verdict |-> "none", told |-> "none"]
           /\ UNCHANGED <<thing, alive>>

(* The request of the call is sent once more. *)
Resend == call # "none" /\ issued' = issued \cup {call} /\ UNCHANGED <<thing, call, seen, report, alive>>

CarryOut == \E a \in issued :
                /\ thing' \in After(a, thing)
                /\ seen' = IF call = "none" THEN {} ELSE seen \cup {thing'}
                /\ issued' \in {issued, issued \ {a}}
                /\ UNCHANGED <<call, report, alive>>

Elsewhere == /\ thing' \in {"idle", "running", "gone"}
             /\ seen' = IF call = "none" THEN {} ELSE seen \cup {thing'}
             /\ UNCHANGED <<issued, call, report, alive>>

Fails    == report' = [verdict |-> "failed", told |-> "none"]
Succeeds == /\ seen \cap Promised(call) # {}
            /\ \E s \in seen \cup {"none"} : report' = [verdict |-> "ok", told |-> s]
            /\ call = "list" => report'.told # "none"

Return == /\ alive /\ call # "none" /\ (Fails \/ Succeeds)
          /\ call' = "none" /\ seen' = {} /\ issued' \in SUBSET issued
          /\ UNCHANGED <<thing, alive>>

(* The caller has taken the result. *)
Taken == /\ alive /\ report' = [verdict |-> "none", told |-> "none"]
         /\ UNCHANGED <<thing, issued, call, seen, alive>>

Killed == alive /\ alive' = FALSE /\ UNCHANGED <<thing, issued, call, seen, report>>

Next == (\E a \in Acts : Call(a)) \/ Resend \/ CarryOut \/ Elsewhere \/ Return \/ Taken \/ Killed

vars == <<thing, issued, call, seen, report, alive>>

Spec == Init /\ [][Next]_vars

(* A call returns, whatever Docker does. *)
Returns == call # "none" ~> call = "none" \/ ~alive
=============================================================================
