------------------------------ MODULE CommandLog ------------------------------
(***************************************************************************)
(* What the history of commands promises: per container the last commands, *)
(* the newest first.  A program that adds or clears alone does just that,  *)
(* or loses nothing or everything if it is cut off.  Programs that change  *)
(* the history at the same time may undo each other's changes, but never   *)
(* make up an entry.                                                       *)
(***************************************************************************)
EXTENDS Naturals, Sequences

CONSTANTS Programs, Containers, MaxEntries

VARIABLES log,      \* per container, the numbers of its commands
          change,   \* per program, the change it is making, or None
          clash,    \* the programs whose change overlaps another one
          stamp     \* the number of the newest command

None == [kind |-> "none", container |-> "none", stamp |-> 0]

Empty == [c \in Containers |-> <<>>]

Init == /\ log = Empty /\ change = [p \in Programs |-> None] /\ clash = {} /\ stamp = 0

Changing == {p \in Programs : change[p] # None}

Begin(p) ==
    /\ change[p] = None
    /\ \E kind \in {"add", "clear"}, c \in Containers :
           /\ stamp' = IF kind = "add" THEN stamp + 1 ELSE stamp
           /\ change' = [change EXCEPT ![p] = [kind |-> kind, container |-> c, stamp |-> stamp']]
    /\ clash' = IF Changing = {} THEN clash ELSE clash \cup Changing \cup {p}
    /\ UNCHANGED log

Latest(stamps) == SubSeq(stamps, 1, IF Len(stamps) < MaxEntries THEN Len(stamps) ELSE MaxEntries)

Made(todo) == [log EXCEPT ![todo.container] = IF todo.kind = "clear" THEN <<>> ELSE Latest(<<todo.stamp>> \o @)]

(* Nothing but commands that were given. *)
Muddled(l) == \A c \in Containers : \A i \in DOMAIN l[c] : l[c][i] \in 1..stamp

End(p) == /\ change[p] # None
          /\ change' = [change EXCEPT ![p] = None]
          /\ clash' = clash \ {p}
          /\ UNCHANGED stamp

Finish(p) == End(p) /\ (log' = Made(change[p]) \/ (p \in clash /\ Muddled(log')))
CutOff(p) == End(p) /\ (log' \in {log, Empty} \/ (p \in clash /\ Muddled(log')))

Next == \E p \in Programs : Begin(p) \/ Finish(p) \/ CutOff(p)

vars == <<log, change, clash, stamp>>

Spec == Init /\ [][Next]_vars
=============================================================================
