----------------------------- MODULE MCOperation ------------------------------
(* Small instances of Operation. *)
EXTENDS Operation

AllActs == {"start", "stop", "remove", "delete", "list", "ping"}
=============================================================================
