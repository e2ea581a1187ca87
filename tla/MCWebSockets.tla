---- MODULE MCWebSockets ----
(* Model values for WebSockets: one thread reconnects and sends on a, another connects b and d. *)
EXTENDS WebSockets, TLC

CONSTANTS a, b, d, k1, k2, c1, c2

MCIds     == {a, b, d}
MCCallers == {k1, k2}
MCConns   == {c1, c2}
MCConnects == [k \in MCCallers |-> IF k = k1 THEN {a} ELSE {b, d}]
MCSends    == [k \in MCCallers |-> IF k = k1 THEN {a} ELSE {}]
MCMaxGeneration == [i \in MCIds |-> IF i = a THEN 2 ELSE 1]
Symmetry   == Permutations(MCConns) \cup Permutations({b, d})
===========================
