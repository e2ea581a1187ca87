---- MODULE MCEngineConnection ----
(* Model values for EngineConnection: a plain call and a subscription. *)
EXTENDS EngineConnection, TLC

CONSTANTS c1, s1

MCCalls == {c1, s1}
MCSubs  == {s1}
===================================
