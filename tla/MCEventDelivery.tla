---- MODULE MCEventDelivery ----
(* Model values for EventDelivery: one traffic wire and one other, and the requests of a client. *)
EXTENDS EventDelivery, TLC

CONSTANTS traffic, status

MCWires    == {traffic, status}
BothWires  == {<<traffic, status>>}
OneWire    == {<<status>>}
OneOrBoth  == {<<traffic, status>>, <<status>>}
===========================
