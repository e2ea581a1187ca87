---- MODULE MCApprovals ----
(* Model values for Approvals: calls w1, w2 wait, n1, n2 do not; one other call has a key of its own. *)
EXTENDS Approvals, TLC

CONSTANTS w1, w2, n1, n2, other, same, different

MCCalls   == {w1, w2, n1, n2, other}
MCKeys    == {same, different}
MCKeyOf   == [c \in MCCalls |-> IF c = other THEN different ELSE same]
MCCanWait == {w1, w2}
OneStep   == {w1}
Symmetry  == Permutations({n1, n2})
===========================
