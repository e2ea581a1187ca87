--------------------------- MODULE EventDelivery ---------------------------
(***************************************************************************)
(* Events from the threads that emit them to a client that may lose its    *)
(* connection and come back: the event log and the pump of every session,  *)
(* joined by crates/engine/src/transport/session.rs, and the loop that     *)
(* serves one connection (serve_framed_stream in socket.rs).               *)
(*                                                                         *)
(* The sessions 1, 2, ... are the successive connections of one client.    *)
(* A session is one task: it handles a frame to the end before it writes   *)
(* or reads again.  Subscribing holds the session's own mutex, which       *)
(* nobody else contends for, but takes the log's mutex twice and pushes    *)
(* the backlog in between the engine's emitters.                           *)
(***************************************************************************)
EXTENDS Integers, Sequences, FiniteSets

CONSTANTS
  Connections,  \* bound: how many connections the client makes, one after the other
  Wires, Traffic, Emitters, MaxEvents, MaxBatch, MaxSeq,
  Requests,     \* the `events` of the subscribe and unsubscribe frames the client sends
  MaxFrames,    \* bound: subscribe and unsubscribe frames per session
  MaxEngines    \* bound: how many engines are started, one after the other

ASSUME DeliveryAssumption ==
  /\ Traffic \in Wires
  /\ Connections \in Nat
  /\ MaxEvents \in Nat \ {0} /\ MaxBatch \in Nat \ {0} /\ MaxSeq \in Nat
  /\ Requests \subseteq Seq(Wires)
  /\ MaxFrames \in Nat
  /\ MaxEngines \in Nat \ {0}

Sessions == 1..Connections

VARIABLES
  buffer, seq, logClosed, retained, subscribers, calling, recorded,   \* the event log
  pending, pendingSeq, generation, timerArmed, pumpClosed, timers,    \* the pumps
  unsent, timerUnsent, out,
  phase,        \* of each session: new, open (hello is answered), closing, closed
  resume,       \* State::resume_from: what the client had seen, None when it does not resume
  count,        \* State::subscriptions: how often each wire is subscribed
  task,         \* what the session's task is doing
  frames,       \* subscribe and unsubscribe frames handled by each session
  engine,       \* the number of the running engine
  lastSeen,     \* client: the highest number on a frame it has read
  lastFrom,     \* history: the engine that frame came from
  owed,         \* history: what was numbered while the session was attached
  caught,       \* history: what the session was caught up with
  got,          \* history: how often the client has read each event of the running engine
  detached,     \* history: the wires each session has stopped listening to
  refused       \* history: the sessions whose resume point was refused by a subscribe

logVars    == <<buffer, seq, logClosed, retained, subscribers, calling, recorded>>
pumpVars   == <<pending, pendingSeq, generation, timerArmed, pumpClosed, timers,
                unsent, timerUnsent, out>>
clientVars == <<engine, lastSeen, lastFrom, got>>
history    == <<owed, caught, detached, refused>>
vars == <<logVars, pumpVars, phase, resume, count, task, frames, clientVars, history>>

Log  == INSTANCE EventLog WITH Subscribers <- Sessions, received <- out
Pump == INSTANCE EventPump WITH Pumps <- Sessions, Callers <- Emitters \cup Sessions,
                                accepted <- owed, pusher <- recorded

None == -1
Idle == [at |-> "idle", rest |-> <<>>, backlog |-> {}]
Task == [at : {"idle", "subscribe", "attach", "backlog"}, rest : Seq(Wires),
         backlog : SUBSET Log!Event]

Init ==
  /\ Log!LogInit
  /\ Pump!PumpInit
  /\ phase = [s \in Sessions |-> "new"]
  /\ resume = [s \in Sessions |-> None]
  /\ count = [s \in Sessions |-> [w \in Wires |-> 0]]
  /\ task = [s \in Sessions |-> Idle]
  /\ frames = [s \in Sessions |-> 0]
  /\ engine = 1
  /\ lastSeen = 0 /\ lastFrom = 1
  /\ got = [s \in Sessions |-> [n \in 1..MaxSeq |-> 0]]
  /\ owed = [s \in Sessions |-> {}]
  /\ caught = [s \in Sessions |-> {}]
  /\ detached = [s \in Sessions |-> {}]
  /\ refused = {}

PushUnlessBusy(c, s, e) ==   \* mutant: a busy session's events are skipped
  IF c # s /\ task[s] # Idle
  THEN unsent[c] = <<>> /\ UNCHANGED pumpVars
  ELSE IF e.event = Traffic THEN Pump!PushEntry(c, s, e.seq) ELSE Pump!PushOther(c, s, e.seq)

\* EventPump::push as the callback and the backlog loop call it.
Push(c, s, e) ==
  \/ Pump!PushRefused(c, s)
  \/ IF e.event = Traffic THEN Pump!PushEntry(c, s, e.seq) ELSE Pump!PushOther(c, s, e.seq)

-----------------------------------------------------------------------------
(* The engine's threads. *)

Emit(t, w) ==
  /\ unsent[t] = <<>>
  /\ Log!Emit(t, w)
  /\ owed' = [s \in Sessions |-> owed[s] \cup (IF s \in subscribers[w] THEN {seq'} ELSE {})]
  /\ UNCHANGED <<pumpVars, phase, resume, count, task, frames, clientVars, caught, detached, refused>>

\* A session of another client subscribes: the wire is numbered from now on.
OthersSubscribe(w) ==
  /\ w \notin retained
  /\ retained' = retained \cup {w}
  /\ UNCHANGED <<buffer, seq, logClosed, subscribers, calling, recorded>>
  /\ UNCHANGED <<pumpVars, phase, resume, count, task, frames, clientVars, history>>

DeliverAgain(c) ==   \* mutant: a callback that has run is run again
  /\ c \in calling
  /\ Push(c.by, c.to, c.event)
  /\ UNCHANGED <<logVars, phase, resume, count, task, frames, clientVars, history>>

Deliver(c) ==
  /\ Log!CallSubscriber(c)
  /\ Push(c.by, c.to, c.event)
  /\ UNCHANGED <<phase, resume, count, task, frames, clientVars, history>>

PumpStep ==
  /\ \/ \E t \in Emitters \cup Sessions : Pump!Send(t)
     \/ \E x \in timers : Pump!TimerTakes(x) \/ Pump!TimerStale(x)
     \/ \E x \in timerUnsent : Pump!TimerSends(x)
  /\ UNCHANGED <<logVars, phase, resume, count, task, frames, clientVars, history>>

-----------------------------------------------------------------------------
(* The session's task. *)

HoldsAny(s, w) == count[s][w] >= 0   \* mutant: off by one
Holds(s, w) == count[s][w] > 0

Ready(s) == phase[s] = "open" /\ task[s] = Idle /\ unsent[s] = <<>>

\* handshake: the client says what it has seen, or nothing; the log is asked whether that can be
\* served, and prunes.
Hello(s, last) ==
  /\ phase[s] = "new"
  /\ s > 1 => phase[s - 1] \in {"closing", "closed"}
  /\ last \in {None} \cup (IF lastSeen = 0 THEN {} ELSE {lastSeen})
  /\ IF last = None THEN UNCHANGED logVars ELSE Log!PruneForReplay
  /\ resume' = [resume EXCEPT ![s] = IF last # None /\ Log!CanReplay(buffer', seq, last)
                                     THEN last ELSE None]
  /\ phase' = [phase EXCEPT ![s] = "open"]
  /\ UNCHANGED <<pumpVars, count, task, frames, clientVars, history>>

\* subscribe: the frame is accepted, its wires are taken one after the other.
SubscribeFrame(s, wires) ==
  /\ Ready(s)
  /\ frames[s] < MaxFrames
  /\ frames' = [frames EXCEPT ![s] = @ + 1]
  /\ task' = [task EXCEPT ![s] = [at |-> "subscribe", rest |-> wires, backlog |-> {}]]
  /\ UNCHANGED <<logVars, pumpVars, phase, resume, count, clientVars, history>>

Goto(s, at, rest, backlog) ==
  task' = [task EXCEPT ![s] = [at |-> at, rest |-> rest, backlog |-> backlog]]

SubscribeAgain(s) ==
  /\ task[s].at = "subscribe" /\ task[s].rest # <<>>
  /\ LET w == Head(task[s].rest)
     IN  /\ Holds(s, w)
         /\ count' = [count EXCEPT ![s][w] = @ + 1]
  /\ Goto(s, "subscribe", Tail(task[s].rest), {})
  /\ UNCHANGED <<logVars, pumpVars, phase, resume, frames, clientVars, history>>

AnyWire(s, w) == TRUE   \* mutant: a repeated wire is attached again
Unattached(s, w) == count[s][w] = 0

SubscribeFresh(s) ==
  /\ task[s].at = "subscribe" /\ task[s].rest # <<>>
  /\ resume[s] = None
  /\ Unattached(s, Head(task[s].rest))
  /\ Goto(s, "attach", task[s].rest, {})
  /\ UNCHANGED <<logVars, pumpVars, phase, resume, count, frames, clientVars, history>>

\* The backlog is taken from the log before the session is attached to it.
SubscribeReplay(s) ==
  /\ task[s].at = "subscribe" /\ task[s].rest # <<>>
  /\ resume[s] # None
  /\ LET w == Head(task[s].rest)
     IN  /\ Unattached(s, w)
         /\ Log!PruneForReplay
         /\ IF Log!CanReplay(buffer', seq, resume[s])
            THEN LET backlog == Log!ReplayFrom(buffer', resume[s], {w})
                 IN  /\ Goto(s, "attach", task[s].rest, backlog)
                     /\ caught' = [caught EXCEPT ![s] = @ \cup {e.seq : e \in backlog}]
                     /\ UNCHANGED refused
            ELSE /\ task' = [task EXCEPT ![s] = Idle]
                 /\ refused' = refused \cup {s}
                 /\ UNCHANGED caught
  /\ UNCHANGED <<pumpVars, phase, resume, count, frames, clientVars, owed, detached>>

SubscribeAttach(s) ==
  /\ task[s].at = "attach"
  /\ Log!Subscribe(s, Head(task[s].rest))
  /\ Goto(s, "backlog", task[s].rest, task[s].backlog)
  /\ UNCHANGED <<pumpVars, phase, resume, count, frames, clientVars, history>>

SubscribeBacklog(s) ==
  /\ task[s].at = "backlog"
  /\ \E e \in task[s].backlog :
       /\ \A f \in task[s].backlog : e.seq <= f.seq
       /\ Push(s, s, e)
       /\ Goto(s, "backlog", task[s].rest, task[s].backlog \ {e})
  /\ UNCHANGED <<logVars, phase, resume, count, frames, clientVars, history>>

SubscribeInsert(s) ==
  /\ task[s].at = "backlog" /\ task[s].backlog = {} /\ unsent[s] = <<>>
  /\ count' = [count EXCEPT ![s][Head(task[s].rest)] = 1]
  /\ Goto(s, "subscribe", Tail(task[s].rest), {})
  /\ UNCHANGED <<logVars, pumpVars, phase, resume, frames, clientVars, history>>

SubscribeAnswer(s) ==
  /\ task[s].at = "subscribe" /\ task[s].rest = <<>>
  /\ task' = [task EXCEPT ![s] = Idle]
  /\ UNCHANGED <<logVars, pumpVars, phase, resume, count, frames, clientVars, history>>

\* unsubscribe of one wire: detached when its last subscription goes.
UnsubscribeFrame(s, w) ==
  /\ Ready(s)
  /\ frames[s] < MaxFrames
  /\ frames' = [frames EXCEPT ![s] = @ + 1]
  /\ Holds(s, w)
  /\ count' = [count EXCEPT ![s][w] = @ - 1]
  /\ IF count[s][w] = 1
     THEN Log!Unsubscribe(s, w) /\ detached' = [detached EXCEPT ![s] = @ \cup {w}]
     ELSE UNCHANGED <<logVars, detached>>
  /\ UNCHANGED <<pumpVars, phase, resume, task, clientVars, owed, caught, refused>>

\* The connection's loop writes the next frame, and the client reads it.
ClientReads(s) ==
  /\ Ready(s)
  /\ out[s] # <<>>
  /\ LET f == Head(out[s])
     IN  /\ IF f.seq <= lastSeen
            THEN UNCHANGED <<lastSeen, lastFrom>>
            ELSE lastSeen' = f.seq /\ lastFrom' = engine
         /\ got' = [got EXCEPT ![s] =
                      [n \in 1..MaxSeq |-> @[n] + Cardinality({i \in DOMAIN f.entries : f.entries[i] = n})]]
  /\ out' = [out EXCEPT ![s] = Tail(@)]
  /\ UNCHANGED <<pending, pendingSeq, generation, timerArmed, pumpClosed, timers, unsent, timerUnsent>>
  /\ UNCHANGED <<logVars, phase, resume, count, task, frames, engine, history>>

\* The connection ends.  close detaches every wire, one lock section each, then closes the pump.
Disconnect(s) ==
  /\ Ready(s)
  /\ phase' = [phase EXCEPT ![s] = "closing"]
  /\ UNCHANGED <<logVars, pumpVars, resume, count, task, frames, clientVars, history>>

CloseForgets(s, w) ==   \* mutant: the table is emptied, the log is not told
  /\ phase[s] = "closing"
  /\ Holds(s, w)
  /\ count' = [count EXCEPT ![s][w] = 0]
  /\ UNCHANGED <<logVars, pumpVars, phase, resume, task, frames, clientVars, history>>

CloseDetach(s, w) ==
  /\ phase[s] = "closing"
  /\ Holds(s, w)
  /\ count' = [count EXCEPT ![s][w] = 0]
  /\ Log!Unsubscribe(s, w)
  /\ UNCHANGED <<pumpVars, phase, resume, task, frames, clientVars, history>>

CloseSessionPump(s) ==
  /\ phase[s] = "closing"
  /\ \A w \in Wires : count[s][w] = 0
  /\ Pump!ClosePump(s, s)
  /\ phase' = [phase EXCEPT ![s] = "closed"]
  /\ UNCHANGED <<logVars, resume, count, task, frames, clientVars, history>>

\* The engine stops, with everything it holds in memory, and another one is started: its log numbers
\* from 1 again.  A connection the client had is gone; what the client remembers stays.
Restart ==
  /\ engine < MaxEngines
  /\ engine' = engine + 1
  /\ Log!NewLog
  /\ Pump!NewPumps
  /\ phase' = [s \in Sessions |-> IF phase[s] = "new" THEN "new" ELSE "closed"]
  /\ count' = [s \in Sessions |-> [w \in Wires |-> 0]]
  /\ task' = [s \in Sessions |-> Idle]
  /\ got' = [s \in Sessions |-> [n \in 1..MaxSeq |-> 0]]
  /\ owed' = [s \in Sessions |-> {}]
  /\ caught' = [s \in Sessions |-> {}]
  /\ detached' = [s \in Sessions |-> {}]
  /\ refused' = {}
  /\ UNCHANGED <<resume, frames, lastSeen, lastFrom>>

SubscribeStep(s) ==
  \/ SubscribeAgain(s) \/ SubscribeFresh(s) \/ SubscribeReplay(s) \/ SubscribeAttach(s)
  \/ SubscribeBacklog(s) \/ SubscribeInsert(s) \/ SubscribeAnswer(s)

CloseStep(s) == (\E w \in Wires : CloseDetach(s, w)) \/ CloseSessionPump(s)

Next ==
  \/ \E t \in Emitters, w \in Wires : Emit(t, w)
  \/ \E w \in Wires : OthersSubscribe(w)
  \/ \E c \in calling : Deliver(c)
  \/ PumpStep
  \/ \E s \in Sessions, last \in -1..MaxSeq : Hello(s, last)
  \/ \E s \in Sessions, wires \in Requests : SubscribeFrame(s, wires)
  \/ \E s \in Sessions : SubscribeStep(s) \/ CloseStep(s) \/ ClientReads(s) \/ Disconnect(s)
  \/ \E s \in Sessions, w \in Wires : UnsubscribeFrame(s, w)
  \/ Restart

\* Threads and tasks run on; the client goes on reading while it is connected.
Fairness ==
  /\ \A t \in Emitters : WF_vars(\E c \in calling : c.by = t /\ Deliver(c))
  /\ WF_vars(PumpStep)
  /\ \A s \in Sessions : WF_vars(SubscribeStep(s)) /\ WF_vars(CloseStep(s)) /\ WF_vars(ClientReads(s))

Spec == Init /\ [][Next]_vars /\ Fairness

-----------------------------------------------------------------------------
(***************************************************************************)
(* Properties                                                              *)
(***************************************************************************)

TypeOK ==
  /\ buffer \in Seq(Log!Event) /\ seq \in Nat /\ logClosed \in BOOLEAN
  /\ retained \subseteq Wires /\ subscribers \in [Wires -> SUBSET Sessions]
  /\ calling \subseteq Log!Call /\ recorded \in Seq(Wires)
  /\ pending \in [Sessions -> Seq(Pump!Number)] /\ pendingSeq \in [Sessions -> Nat]
  /\ generation \in [Sessions -> Nat] /\ timers \subseteq Pump!Timer
  /\ timerArmed \in [Sessions -> BOOLEAN] /\ pumpClosed \in [Sessions -> BOOLEAN]
  /\ unsent \in [Emitters \cup Sessions -> Seq(Pump!Sending)]
  /\ timerUnsent \subseteq Pump!Holding /\ out \in [Sessions -> Seq(Pump!Frame)]
  /\ phase \in [Sessions -> {"new", "open", "closing", "closed"}]
  /\ resume \in [Sessions -> Nat \cup {None}]
  /\ count \in [Sessions -> [Wires -> Nat]]
  /\ task \in [Sessions -> Task]
  /\ frames \in [Sessions -> 0..MaxFrames]
  /\ engine \in 1..MaxEngines /\ lastSeen \in Nat /\ lastFrom \in 1..MaxEngines
  /\ got \in [Sessions -> [1..MaxSeq -> Nat]]
  /\ owed \in [Sessions -> SUBSET (1..MaxSeq)] /\ caught \in [Sessions -> SUBSET (1..MaxSeq)]
  /\ detached \in [Sessions -> SUBSET Wires] /\ refused \subseteq Sessions

\* The log calls a session for exactly the wires in the session's own table, also after a subscribe
\* that failed half way; a session that has ended is never left in the log.
TableMatchesLog ==
  \A s \in Sessions, w \in Wires :
    /\ s \in subscribers[w] <=> \/ count[s][w] > 0
                               \/ (task[s].at = "backlog" /\ Head(task[s].rest) = w)
    /\ phase[s] \in {"new", "closed"} => s \notin subscribers[w]

\* The backlog of a resumed session and what it is called with live never overlap, so an event
\* comes twice only on a wire the client has left and subscribed to again.
NeverTwice ==
  \A s \in Sessions : \A n \in 1..seq :
    (n \in owed[s] \cap caught[s] \/ got[s][n] > 1) => recorded[n] \in detached[s]

\* How many copies of event n are on their way to session s.
OnTheWay(s, n) ==
  Cardinality({c \in calling : c.to = s /\ c.event.seq = n})
  + Cardinality({e \in task[s].backlog : e.seq = n})
  + Cardinality(Pump!Copies(n, s))

Due   == [s \in Sessions |-> [n \in 1..MaxSeq |-> OnTheWay(s, n)]]
Ended == {s \in Sessions : phase[s] \in {"closing", "closed"}}

\* Where session s is with wire w: a resumed one has its backlog before it attaches.
Stage == [s \in Sessions |-> [w \in Wires |->
  IF s \in subscribers[w] THEN "attached"
  ELSE IF task[s].at = "attach" /\ Head(task[s].rest) = w /\ resume[s] # None THEN "caught" ELSE "away"]]

Feed == INSTANCE EventFeed WITH wires <- recorded, since <- resume, stage <- Stage, due <- Due,
                                given <- got, ended <- Ended

\* Delivery implements what EventFeed promises, however emitters, timers, batches, unsubscribes and the
\* end of the session interleave: an event on its way to a session is one numbered while the session was
\* attached to its wire, or one the session was caught up with before it attached; it is on its way
\* once, and once more only when the session left the wire and came back; and it is never lost or handed
\* to another session.  What is numbered between catching up and attaching is not promised (CaughtUp).
ImplementsFeed == Feed!Spec

\* Every event a session is owed is read by its client, unless the session ends.
OwedIsRead ==
  \A s \in Sessions, n \in 1..MaxSeq :
    n \in owed[s] \cup caught[s] ~> got[s][n] > 0 \/ phase[s] # "open"

\* "a bounded recent history so a reconnecting client can be caught up": a resumed session that has
\* subscribed to a wire, and was not refused, is given every event of it after its resume point.
CaughtUp ==
  \A s \in Sessions : \A n \in 1..seq :
    (/\ phase[s] = "open" /\ task[s] = Idle /\ s \notin refused
     /\ resume[s] # None /\ resume[s] < n
     /\ count[s][recorded[n]] > 0 /\ recorded[n] \notin detached[s])
    => n \in owed[s] \cup caught[s]

\* "Present only when the client sent `lastSeq` and the engine can serve it": when the engine grants a
\* resume point, the client has been given every event up to it that it was owed before.
ResumePointIsHonest ==
  \A s \in Sessions : \A n \in 1..seq :
    (phase[s] = "open" /\ resume[s] # None /\ n <= resume[s]) =>
      \A r \in 1..s - 1 : n \in owed[r] \cup caught[r] => \E q \in 1..s - 1 : got[q][n] > 0

\* ... and the number the client sent is one this engine gave it.
ResumesOwnNumbers ==
  [][\A s \in Sessions : resume'[s] # resume[s] => lastFrom = engine]_vars

=============================================================================
