--------------------------- MODULE DetachedHistory ----------------------------
(***************************************************************************)
(* The history of commands, src/main.cpp 105-215 and 876-908, in the file  *)
(* ~/.tuxdock/detached-history.json: every change loads the file, edits    *)
(* the list, truncates the file and writes it.  Several TuxDock may run at *)
(* once, and each may be killed, or find the disk full, at any moment; no  *)
(* failure is reported.                                                    *)
(*                                                                         *)
(* A file is absent, empty (truncated, nothing written yet), a list, or    *)
(* broken (a part of a list, or one list over a longer one): JSON that     *)
(* does not parse loads as no history.  A command is its number.           *)
(***************************************************************************)
EXTENDS Naturals, SequencesExt, Subsequences

CONSTANTS Programs,     \* the instances of TuxDock
          Containers,   \* container names: the history is kept by name
          MaxEntries,   \* kMaxDetachedHistoryEntries
          MaxAdds,      \* bound: commands given
          MaxFaults     \* bound: crashes and failed saves

ASSUME HistoryAssumption == MaxEntries \in Nat \ {0} /\ {MaxAdds, MaxFaults} \subseteq Nat

VARIABLES file,         \* the file: its state, and the entries of a list
          pc, entries,  \* per program: where it is in a save, and what it saves
          modal,        \* per program: the history modal
          stamp,        \* the number of the newest command
          faults,
          before,       \* history: the entries of the file before it was truncated
          change, clash \* history: per program the change under way; those that overlap another

saving == <<pc, entries, change, clash>>
vars   == <<file, saving, modal, stamp, faults, before>>

Entry(n, c) == [stamp |-> n, container |-> c]
Closed      == [container |-> "none", entries |-> <<>>]
None        == [kind |-> "none", container |-> "none", stamp |-> 0]

Init == /\ file = [state |-> "absent", entries |-> <<>>]
        /\ pc = [p \in Programs |-> "idle"] /\ entries = [p \in Programs |-> <<>>]
        /\ modal = [p \in Programs |-> Closed] /\ stamp = 0 /\ faults = 0
        /\ before = <<>> /\ change = [p \in Programs |-> None] /\ clash = {}

(***************************************************************************)
(* Loading and editing.                                                    *)
(***************************************************************************)
LoadDetachedHistory == IF file.state = "list" THEN file.entries ELSE <<>>

(* Where a list has the entries of container c. *)
Places(list, c) == {i \in DOMAIN list : list[i].container = c}

Of(list, c) == Kept(list, Places(list, c))

LoadDetachedHistoryForContainer(c) == Of(LoadDetachedHistory, c)

(* A slip, kept for the runs to detect: every entry counts, whatever its container. *)
CappedOverall(list, c) == SubSeq(list, 1, IF Len(list) < MaxEntries THEN Len(list) ELSE MaxEntries)

(* A slip, kept for the runs to detect: one entry too many is kept. *)
CappedLate(list, c) ==
    Kept(list, {i \in DOMAIN list : list[i].container = c => Rank(i, Places(list, c)) <= MaxEntries + 1})

(* remove_if over the list: of container c, the first MaxEntries stay. *)
Capped(list, c) ==
    Kept(list, {i \in DOMAIN list : list[i].container = c => Rank(i, Places(list, c)) <= MaxEntries})

(* A slip, kept for the runs to detect: the new entry goes to the end. *)
InsertLast(list, c, n) == Capped(Append(list, Entry(n, c)), c)

Insert(list, c, n) == Capped(<<Entry(n, c)>> \o list, c)

Cleared(list, c) == Kept(list, DOMAIN list \ Places(list, c))

(* A change begins with the load: the list to save is known from then on. *)
Saving(p, todo, list) ==
    LET changing == {q \in Programs : change[q] # None}
    IN  /\ pc' = [pc EXCEPT ![p] = "open"]
        /\ entries' = [entries EXCEPT ![p] = list]
        /\ change' = [change EXCEPT ![p] = todo]
        /\ clash' = IF changing = {} THEN clash ELSE clash \cup changing \cup {p}

AddDetachedHistoryEntry(p, c) ==
    /\ pc[p] = "idle" /\ modal[p] = Closed /\ stamp < MaxAdds
    /\ stamp' = stamp + 1
    /\ Saving(p, [kind |-> "add", container |-> c, stamp |-> stamp + 1],
              Insert(LoadDetachedHistory, c, stamp + 1))
    /\ UNCHANGED <<file, modal, faults, before>>

ClearDetachedHistory(p, c) ==
    Saving(p, [kind |-> "clear", container |-> c, stamp |-> stamp],
           Cleared(LoadDetachedHistory, c))

(***************************************************************************)
(* SaveDetachedHistory: the file is opened, which truncates it, and what   *)
(* the stream holds is written when it is closed.                          *)
(***************************************************************************)
Truncate(p) == /\ pc[p] = "open"
               /\ pc' = [pc EXCEPT ![p] = "write"]
               /\ before' = IF file.state = "empty" /\ \E q \in Programs : pc[q] = "write"
                            THEN before ELSE LoadDetachedHistory
               /\ file' = [state |-> "empty", entries |-> <<>>]
               /\ UNCHANGED <<entries, modal, stamp, faults, change, clash>>

Done(p) == /\ pc' = [pc EXCEPT ![p] = "idle"]
           /\ entries' = [entries EXCEPT ![p] = <<>>]
           /\ change' = [change EXCEPT ![p] = None]
           /\ clash' = clash \ {p}

Broken == [state |-> "broken", entries |-> <<>>]

(* Over what another program wrote since the truncation, some of which may stay at the end. *)
Write(p) == /\ pc[p] = "write"
            /\ file' \in {[state |-> "list", entries |-> entries[p]]}
                             \cup (IF file.state = "empty" THEN {} ELSE {Broken})
            /\ Done(p)
            /\ UNCHANGED <<modal, stamp, faults, before>>

Fault(p) == /\ faults < MaxFaults /\ faults' = faults + 1
            /\ Done(p)
            /\ UNCHANGED <<stamp, before>>

(* The file cannot be opened: nothing is saved. *)
Denied(p) == pc[p] = "open" /\ Fault(p) /\ UNCHANGED <<file, modal>>

(* The disk is full: a part of the list at most. *)
WriteFails(p) == /\ pc[p] = "write" /\ Fault(p)
                 /\ file' \in {file, Broken}
                 /\ UNCHANGED modal

(* TuxDock is killed, and started again. *)
Crash(p) == /\ pc[p] # "idle" /\ Fault(p)
            /\ file' \in {file} \cup (IF pc[p] = "write" THEN {Broken} ELSE {})
            /\ modal' = [modal EXCEPT ![p] = Closed]

(***************************************************************************)
(* The history modal: a row for a new command, one per entry, one to clear. *)
(***************************************************************************)
OpenHistory(p, c) == /\ pc[p] = "idle" /\ modal[p] = Closed
                     /\ modal' = [modal EXCEPT ![p] = [container |-> c,
                                                       entries |-> LoadDetachedHistoryForContainer(c)]]
                     /\ UNCHANGED <<file, saving, stamp, faults, before>>

(* Rows 0 and Len(entries) + 1 are the first and the last. *)
ResolveHistory(p, selected) ==
    /\ modal[p] # Closed /\ selected <= Len(modal[p].entries) + 1
    /\ modal' = [modal EXCEPT ![p] = Closed]
    /\ IF selected = Len(modal[p].entries) + 1
       THEN ClearDetachedHistory(p, modal[p].container)
       ELSE UNCHANGED saving
    /\ UNCHANGED <<file, stamp, faults, before>>

Next == \E p \in Programs :
            \/ \E c \in Containers : AddDetachedHistoryEntry(p, c) \/ OpenHistory(p, c)
            \/ \E selected \in 0..(MaxEntries + 1) : ResolveHistory(p, selected)
            \/ Truncate(p) \/ Write(p) \/ Denied(p) \/ WriteFails(p) \/ Crash(p)

Spec == Init /\ [][Next]_vars

(***************************************************************************)
(* Properties.                                                             *)
(***************************************************************************)
(* The entries on disk, or those about to be replaced. *)
Durable == IF file.state = "empty" /\ \E p \in Programs : pc[p] = "write"
           THEN before ELSE LoadDetachedHistory

Stamps(list, c) == LET l == Of(list, c) IN [i \in DOMAIN l |-> l[i].stamp]

Log == INSTANCE CommandLog WITH
    log <- [c \in Containers |-> Stamps(Durable, c)]

(* A change made by one TuxDock alone does what it says to its container and nothing to the
   others; cut off, it changes nothing or loses everything; and no entry is ever made up
   (AddDetachedHistoryEntry, ClearDetachedHistory, SaveDetachedHistory). *)
ImplementsLog == Log!Spec

(* Whatever overlaps, breaks or crashes: a container's commands come newest first, in the file
   and in every list about to be saved (the insertion at the front). *)
NewestFirst == \A list \in {Durable} \cup Range(entries) : \A c \in Containers :
    LET l == Of(list, c) IN \A i \in 1..(Len(l) - 1) : l[i].stamp > l[i + 1].stamp

(* Nor does an overlap make a container's history, or the one shown, longer than the limit. *)
WithinLimit == \A list \in {Durable} \cup {modal[p].entries : p \in Programs} : \A c \in Containers :
    Len(Of(list, c)) <= MaxEntries
=============================================================================
