-------------------------- MODULE MCDetachedHistory ---------------------------
(* Small instances of DetachedHistory. *)
EXTENDS DetachedHistory

(* Neither the programs nor the containers are told apart by anything but their names. *)
Symmetry == Permutations(Programs) \cup Permutations(Containers)
=============================================================================
