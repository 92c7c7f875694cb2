----------------------------- MODULE SignalRules -----------------------------
(***************************************************************************)
(* The translation table of tuxreaperd: which signal a process is sent     *)
(* when the container receives one.  A pure function of the received       *)
(* signal and of the target of the process's /proc/<pid>/exe link.         *)
(*                                                                         *)
(* A link target is abstracted to <<base, rest>>: base is the entry of the *)
(* rule tables it starts with (or a stand-in for all other programs), rest *)
(* is what follows that entry ("" when the two are equal).  The kernel     *)
(* appends " (deleted)" to the link of a program whose file was replaced.  *)
(***************************************************************************)
EXTENDS Naturals

HUP == 1
INT == 2
QUIT == 3
USR1 == 10
USR2 == 12
TERM == 15
CHLD == 17
WINCH == 28

(* The signals main() installs proxy_signal_handler for. *)
Forwarded == {TERM, QUIT, INT, HUP, USR1, USR2}

ApacheExes == {"/usr/sbin/apache2", "/usr/sbin/httpd",
               "/usr/local/apache2/bin/httpd"}
NginxExes == {"/usr/sbin/nginx", "/usr/local/nginx/sbin/nginx"}
PhpFpmExes == {"/usr/sbin/php-fpm", "/usr/local/sbin/php-fpm"}

ApacheRule == [targets |-> ApacheExes, out |-> WINCH, prefix |-> FALSE]
NginxRule == [targets |-> NginxExes, out |-> QUIT, prefix |-> FALSE]
PhpFpmRule == [targets |-> PhpFpmExes, out |-> QUIT, prefix |-> TRUE]

(* handle_pending_signals builds the rules only for SIGTERM, in this order. *)
RulesFor(sig) ==
  IF sig = TERM THEN <<ApacheRule, NginxRule, PhpFpmRule>> ELSE <<>>

(* A slip of this code, kept for the runs to detect: the flag of the PHP-FPM
   rule ignored, so that versioned binaries match nothing. *)
MatchesExactly(rule, exe) ==
  exe[1] \in rule.targets /\ exe[2] = ""

Matches(rule, exe) ==
  /\ exe[1] \in rule.targets
  /\ rule.prefix \/ exe[2] = ""

(* The signal sent to a process whose exe link is readable: that of the first
   rule that matches, else the received one. *)
OutSig(sig, exe) ==
  LET rules == RulesFor(sig)
      hits == {r \in DOMAIN rules : Matches(rules[r], exe)}
  IN  IF hits = {} THEN sig
      ELSE rules[CHOOSE r \in hits : \A q \in hits : r <= q].out

------------------------------------------------------------------------------
(* What the README promises, stated without the tables: the signal that stops
   each web engine gracefully, by the program it runs. *)
IsApache(exe) == exe[1] \in ApacheExes /\ exe[2] = ""
IsNginx(exe) == exe[1] \in NginxExes /\ exe[2] = ""
IsPhpFpm(exe) == exe[1] \in PhpFpmExes
IsWebEngine(exe) == IsApache(exe) \/ IsNginx(exe) \/ IsPhpFpm(exe)

(* A signal that does no harm to a program: SIGTERM would stop an engine the
   fast way, SIGWINCH means something to Apache only. *)
Suits(sig, exe) ==
  /\ sig = TERM => ~IsWebEngine(exe)
  /\ sig = WINCH => IsApache(exe)
==============================================================================
