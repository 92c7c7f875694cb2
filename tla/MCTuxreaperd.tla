---------------------------- MODULE MCTuxreaperd ----------------------------
(* Small instances of Tuxreaperd for TLC. *)
EXTENDS Tuxreaperd

Shell == <<"/bin/sh", "">>
PhpFpm == <<"/usr/sbin/php-fpm", "8.4">>

ShellOnly == {Shell}
ShellEngineHidden == {Shell, PhpFpm, Unreadable}

NoSignals == {}
Term == {TERM}

(* A status that tells the pid, so that one taken for another shows. *)
StatusPerPid == [p \in Pids |-> {<<"exit", p>>}]
(* The first process killed or not, the others ended normally. *)
FirstKilled ==
  [p \in Pids |-> {<<"exit", p>>} \cup (IF p = 2 THEN {<<"signal", 15>>} ELSE {})]
(* The first process killed, the others ended normally. *)
FirstDiesKilled ==
  [p \in Pids |-> IF p = 2 THEN {<<"signal", 15>>} ELSE {<<"exit", p>>}]
=============================================================================
