----------------------------- MODULE EventFeed -----------------------------
(***************************************************************************)
(* What event delivery promises to a session, whatever threads, batches    *)
(* and timers are in between.  An event becomes due when it is numbered,   *)
(* once and to exactly the sessions attached to its wire.  A session that  *)
(* resumes is caught up with a wire before it attaches to it: every event  *)
(* of the wire after its resume point becomes due, once.  It is caught up  *)
(* again only if it has left the wire, so that only then an event can be   *)
(* due to it a second time.  Nothing else becomes due; a due event is      *)
(* given once; and only the end of the session takes one away.             *)
(*                                                                         *)
(* It does not promise an order.  Nor does it promise what is numbered     *)
(* after a session is caught up with a wire and before it is attached: the *)
(* two are steps of their own, as they are in the engine.                  *)
(*                                                                         *)
(* The end of the engine is the end of every session that has begun; the   *)
(* next engine numbers from 1.                                             *)
(***************************************************************************)
EXTENDS Integers, Sequences

CONSTANTS Sessions, Wires, MaxSeq

VARIABLES
  wires,   \* the wire of every event, in the order they are numbered
  since,   \* for each session, the number it resumes after; None when it does not resume
  stage,   \* for each session and wire: away, caught up with it, or attached
  due,     \* for each session, how many times each event has still to be given to it
  given,   \* for each session, how many times each event has been given to it
  ended    \* the sessions whose connection is gone

feedVars == <<wires, since, stage, due, given, ended>>

None     == -1
NoEvents == [n \in 1..MaxSeq |-> 0]
Away     == [s \in Sessions |-> [w \in Wires |-> "away"]]

Init ==
  /\ wires = <<>>
  /\ since = [s \in Sessions |-> None]
  /\ stage = Away
  /\ due = [s \in Sessions |-> NoEvents]
  /\ given = [s \in Sessions |-> NoEvents]
  /\ ended = {}

Owe(s, events) == [n \in 1..MaxSeq |-> due[s][n] + (IF n \in events THEN 1 ELSE 0)]

\* An event is numbered: it is due to the sessions attached to its wire and to no other.
Record(w) ==
  /\ Len(wires) < MaxSeq
  /\ wires' = Append(wires, w)
  /\ due' = [s \in Sessions |-> IF stage[s][w] = "attached" THEN Owe(s, {Len(wires) + 1}) ELSE due[s]]
  /\ UNCHANGED <<since, stage, given, ended>>

\* A session begins where an earlier one of its client stopped.
Resume(s, last) ==
  /\ s \notin ended /\ since[s] = None
  /\ since' = [since EXCEPT ![s] = last]
  /\ UNCHANGED <<wires, stage, due, given, ended>>

\* Every event of the wire numbered since then is due to it.
CatchUp(s, w) ==
  /\ s \notin ended /\ since[s] # None
  /\ stage[s][w] = "away"
  /\ stage' = [stage EXCEPT ![s][w] = "caught"]
  /\ due' = [due EXCEPT ![s] = Owe(s, {n \in 1..Len(wires) : n > since[s] /\ wires[n] = w})]
  /\ UNCHANGED <<wires, since, given, ended>>

\* A session that resumes attaches to a wire once it is caught up with it.
Attach(s, w) ==
  /\ s \notin ended
  /\ stage[s][w] = IF since[s] = None THEN "away" ELSE "caught"
  /\ stage' = [stage EXCEPT ![s][w] = "attached"]
  /\ UNCHANGED <<wires, since, due, given, ended>>

Leave(s, w) ==
  /\ stage[s][w] = "attached"
  /\ stage' = [stage EXCEPT ![s][w] = "away"]
  /\ UNCHANGED <<wires, since, due, given, ended>>

\* One frame gives some of the due events: what is no longer due has been given.
Give(s) ==
  /\ s \notin ended
  /\ given'[s] # given[s]
  /\ UNCHANGED <<wires, since, stage, ended>>
  /\ \A n \in 1..MaxSeq :
       /\ due'[s][n] <= due[s][n]
       /\ due[s][n] - due'[s][n] = given'[s][n] - given[s][n]
  /\ \A r \in Sessions \ {s} : due'[r] = due[r] /\ given'[r] = given[r]

End(s) ==
  /\ s \notin ended
  /\ ended' = ended \cup {s}
  /\ UNCHANGED <<wires, since, stage, due, given>>

\* What is due to a session that has ended may be dropped.
Drop(s, n) ==
  /\ s \in ended
  /\ due[s][n] > 0
  /\ due' = [due EXCEPT ![s][n] = @ - 1]
  /\ UNCHANGED <<wires, since, stage, given, ended>>

\* The engine ends, and with it every session that has begun; another one numbers its events anew.
Renew(begun) ==
  /\ wires' = <<>> /\ stage' = Away /\ ended' = ended \cup begun
  /\ \A s \in Sessions \ begun :
       due[s] = NoEvents /\ given[s] = NoEvents /\ stage[s] = Away[s] /\ since[s] = None
  /\ given' = [s \in Sessions |-> NoEvents]
  /\ due' = [s \in Sessions |-> NoEvents]
  /\ UNCHANGED since

Next ==
  \/ \E w \in Wires : Record(w)
  \/ \E s \in Sessions, last \in 0..Len(wires) : Resume(s, last)
  \/ \E s \in Sessions, w \in Wires : CatchUp(s, w) \/ Attach(s, w) \/ Leave(s, w)
  \/ \E s \in Sessions : Give(s) \/ End(s)
  \/ \E s \in Sessions, n \in 1..MaxSeq : Drop(s, n)
  \/ \E begun \in SUBSET Sessions : Renew(begun)

Spec == Init /\ [][Next]_feedVars

=============================================================================
