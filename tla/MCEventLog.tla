---- MODULE MCEventLog ----
(* Model values for EventLog and the symmetries that are sound for safety. *)
EXTENDS EventLog, TLC

Symmetry == Permutations(Subscribers) \cup Permutations(Emitters) \cup Permutations(Wires)
===========================
