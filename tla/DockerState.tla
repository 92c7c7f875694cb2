------------------------------ MODULE DockerState ------------------------------
(***************************************************************************)
(* What TuxDock sees of Docker: the containers and images that exist, the  *)
(* lists the Engine returns, and what each request of src/docker_manager   *)
(* does to them.  Docker itself is external: these definitions say what    *)
(* DockerManager relies on, status code by status code.                    *)
(*                                                                         *)
(* A container id is a number, larger for a container created later.  Ids  *)
(* are never reused, so a removed container is "gone" for good; one that   *)
(* was not created yet is "future".                                        *)
(***************************************************************************)
EXTENDS Naturals, Sequences, Subsequences

CONSTANTS Containers,   \* the container ids there is room for
          Images        \* the image ids there is room for

ASSUME IdsAssumption == /\ Containers \subseteq Nat \ {0} /\ IsFiniteSet(Containers)
                        /\ Images \subseteq Nat \ {0} /\ IsFiniteSet(Images)

Kinds == {"containers", "images"}

Lifecycle == {"future", "idle", "running", "gone"}

Worlds == [containers : [Containers -> Lifecycle], images : [Images -> Lifecycle]]

Entry == [id : Nat \ {0}, state : Lifecycle]

(* The listing of one kind: what exists, the newest first. *)
Listing(things) ==
    LET listed == {i \in DOMAIN things : things[i] \in {"idle", "running"}}
        count  == Cardinality(listed)
        id(n)  == Nth(count - n + 1, listed)
    IN  [n \in 1..count |-> [id |-> id(n), state |-> things[id(n)]]]

NextContainer(w) == {c \in Containers : /\ w.containers[c] = "future"
                                        /\ \A d \in Containers : d < c => w.containers[d] # "future"}

(***************************************************************************)
(* The requests.  The ones sent through DockerEngineClient have a time     *)
(* limit; the others run the docker command and wait for it.               *)
(***************************************************************************)
OnContainer == {"start", "stop", "remove", "shell", "execDetached", "execOutput"}
OnImage     == {"create", "delete"}
Execs       == {"execDetached", "execOutput"}
Timed       == {"start", "stop", "remove", "delete"}
Requests    == OnContainer \cup OnImage \cup {"pull"}

SetContainer(w, c, s) == [w EXCEPT !.containers[c] = s]
SetImage(w, i, s)     == [w EXCEPT !.images[i] = s]

(* The worlds a request may leave when Docker carries it out, each with what
   DockerManager reports: 304 and 404 count as success where it says so. *)
CarriedOut(w, act, t) ==
    CASE act = "start"  -> IF w.containers[t] = "gone" THEN {[world |-> w, ok |-> FALSE]}
                           ELSE {[world |-> SetContainer(w, t, "running"), ok |-> TRUE]}
      [] act = "stop"   -> IF w.containers[t] = "gone" THEN {[world |-> w, ok |-> TRUE]}
                           ELSE {[world |-> SetContainer(w, t, "idle"), ok |-> TRUE]}
      [] act = "remove" -> IF w.containers[t] = "running" THEN {[world |-> w, ok |-> FALSE]}
                           ELSE {[world |-> SetContainer(w, t, "gone"), ok |-> TRUE]}
      [] act = "delete" -> {[world |-> SetImage(w, t, "gone"), ok |-> TRUE]}
      [] act = "pull"   -> {[world |-> SetImage(w, t, "idle"), ok |-> TRUE]}
      [] act = "create" -> {[world |-> SetContainer(SetImage(w, t, "idle"), c, "idle"), ok |-> TRUE] :
                               c \in NextContainer(w)}
      [] OTHER          -> {[world |-> w, ok |-> TRUE]}

(* Docker may also refuse, and changes nothing then. *)
Answers(w, act, t) == CarriedOut(w, act, t) \cup {[world |-> w, ok |-> FALSE]}

(* What another Docker client may do to the world in one step. *)
Elsewhere(w) ==
    {SetContainer(w, c, "idle") : c \in NextContainer(w)}
        \cup {SetContainer(w, c, s) : c \in {d \in Containers : w.containers[d] \in {"idle", "running"}},
                                      s \in {"idle", "running", "gone"}}
        \cup {SetImage(w, i, s) : i \in Images, s \in {"idle", "gone"}}
=============================================================================
