---- MODULE MCEventPump ----
(* Model values for EventPump and the symmetry that is sound for safety. *)
EXTENDS EventPump, TLC

Symmetry == Permutations(Callers) \cup Permutations(Pumps)
===========================
