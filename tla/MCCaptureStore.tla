---- MODULE MCCaptureStore ----
(* Model values for CaptureStore: two exchanges that differ in nothing. *)
EXTENDS CaptureStore, TLC

CONSTANTS x, y

MCIds    == {x, y}
Symmetry == Permutations(MCIds)
===========================
