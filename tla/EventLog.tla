------------------------------ MODULE EventLog ------------------------------
(***************************************************************************)
(* The engine's event log: crates/engine/src/transport/event_log.rs.       *)
(*                                                                         *)
(* Any thread of the engine may emit on the bus.  The log's listener       *)
(* numbers the event and copies it into the bounded history under the      *)
(* log's mutex, takes the list of subscribers, and calls them one by one   *)
(* after it has let go of the mutex.  Sessions attach to the log, detach   *)
(* from it, and ask it for what they missed.                               *)
(*                                                                         *)
(* An event is its wire name and its number; its payload is left out.      *)
(* Subscribers of one wire form a set: the order in which one thread calls *)
(* different subscribers is left open.                                     *)
(***************************************************************************)
EXTENDS Integers, Sequences, FiniteSets

CONSTANTS
  Wires,        \* wire names of events (event.ws.status, event.log.entry, ...)
  Subscribers,  \* the callbacks: one per subscribed session
  Emitters,     \* the threads that emit on the bus
  MaxEvents,    \* DEFAULT_MAX_EVENTS: how many events the history keeps
  MaxSeq        \* bound: how many events are recorded in a behaviour

ASSUME LogAssumption ==
  /\ MaxEvents \in Nat \ {0}
  /\ MaxSeq \in Nat

VARIABLES
  buffer,       \* the recent history, oldest first
  seq,          \* the number of the newest event
  logClosed,    \* EventLog::close has run
  retained,     \* the wires that are numbered and buffered
  subscribers,  \* for each wire, who is attached to it
  calling,      \* callbacks an emitter has taken under the lock and not yet run
  recorded      \* history: the wire of every event ever numbered, in order

logVars == <<buffer, seq, logClosed, retained, subscribers, calling, recorded>>

Event == [event : Wires, seq : Nat \ {0}]
Call  == [by : Emitters, event : Event, to : Subscribers]

(***************************************************************************)
(* prune: first the events that are too old, then those over the limit.    *)
(* Events enter in time order, so what has aged out is a prefix; `aged` is *)
(* its length.                                                             *)
(***************************************************************************)
DropFirst(s, n) == SubSeq(s, n + 1, Len(s))

PruneByAgeOnly(b, aged) == DropFirst(b, aged)   \* mutant: the limit is forgotten

Prune(b, aged) ==
  LET kept == DropFirst(b, aged)
  IN  IF Len(kept) > MaxEvents THEN DropFirst(kept, Len(kept) - MaxEvents) ELSE kept

(***************************************************************************)
(* replay_from, after its prune, on history b with newest number newest:   *)
(* whether a client that has seen `last` can be caught up, and with what.  *)
(* The events are a set; their numbers give the order.                     *)
(***************************************************************************)
CanReplayPastGap(b, newest, last) ==   \* mutant: one event too far back
  IF b = <<>> THEN last = newest ELSE last + 2 >= b[1].seq /\ last <= newest

CanReplayInside(b, newest, last) ==   \* mutant: the event before the oldest is asked for too
  IF b = <<>> THEN last = newest ELSE last >= b[1].seq /\ last <= newest

CanReplayFromNothing(b, newest, last) ==   \* mutant: an empty history serves every old number
  IF b = <<>> THEN last <= newest ELSE last + 1 >= b[1].seq /\ last <= newest

CanReplay(b, newest, last) ==
  IF b = <<>> THEN last = newest
              ELSE last + 1 >= b[1].seq /\ last <= newest

ReplayFrom(b, last, names) ==
  {e \in {b[i] : i \in 1..Len(b)} : e.seq > last /\ e.event \in names}

LogInit ==
  /\ buffer = <<>>
  /\ seq = 0
  /\ logClosed = FALSE
  /\ retained = {}
  /\ subscribers = [w \in Wires |-> {}]
  /\ calling = {}
  /\ recorded = <<>>

Idle(t) == \A c \in calling : c.by # t

NumberedEarly(w) == [event |-> w, seq |-> seq]   \* mutant: the number is taken before it is bumped
Numbered(w) == [event |-> w, seq |-> seq + 1]

\* The listener's lock section, when the event is numbered.  A new event has no age, so only
\* older ones can have aged out.
Emit(t, w) ==
  /\ Idle(t)
  /\ seq < MaxSeq
  /\ ~logClosed
  /\ w \in retained
  /\ seq' = seq + 1
  /\ LET e == Numbered(w)
     IN  /\ \E aged \in 0..Len(buffer) : buffer' = Prune(Append(buffer, e), aged)
         /\ calling' = calling \cup {[by |-> t, event |-> e, to |-> s] : s \in subscribers[w]}
  /\ recorded' = Append(recorded, w)
  /\ UNCHANGED <<logClosed, retained, subscribers>>

\* target(&event): one callback, run without the lock.
CallSubscriber(c) ==
  /\ c \in calling
  /\ calling' = calling \ {c}
  /\ UNCHANGED <<buffer, seq, logClosed, retained, subscribers, recorded>>

\* EventLog::subscribe of one wire, the way a session calls it.
Subscribe(s, w) ==
  /\ retained' = retained \cup {w}
  /\ subscribers' = [subscribers EXCEPT ![w] = @ \cup {s}]
  /\ UNCHANGED <<buffer, seq, logClosed, calling, recorded>>

UnsubscribeAndForget(s, w) ==   \* mutant: the calls already taken are dropped
  /\ subscribers' = [subscribers EXCEPT ![w] = @ \ {s}]
  /\ calling' = {c \in calling : c.to # s}
  /\ UNCHANGED <<buffer, seq, logClosed, retained, recorded>>

Unsubscribe(s, w) ==
  /\ subscribers' = [subscribers EXCEPT ![w] = @ \ {s}]
  /\ UNCHANGED <<buffer, seq, logClosed, retained, calling, recorded>>

\* The side effect of replay_from: it prunes too.
PruneForReplay ==
  /\ \E aged \in 0..Len(buffer) : buffer' = Prune(buffer, aged)
  /\ UNCHANGED <<seq, logClosed, retained, subscribers, calling, recorded>>

CloseLog ==
  /\ ~logClosed
  /\ logClosed' = TRUE
  /\ retained' = {}
  /\ subscribers' = [w \in Wires |-> {}]
  /\ UNCHANGED <<buffer, seq, calling, recorded>>

\* A new engine starts with a new log, which numbers from 1 again.
NewLog ==
  /\ buffer' = <<>> /\ seq' = 0 /\ logClosed' = FALSE /\ retained' = {}
  /\ subscribers' = [w \in Wires |-> {}]
  /\ calling' = {} /\ recorded' = <<>>

-----------------------------------------------------------------------------
(***************************************************************************)
(* The log on its own, with subscribers that keep what they are given.     *)
(***************************************************************************)
VARIABLES
  owed,      \* history: the events numbered while the subscriber was attached
  received   \* the events each subscriber has been called with, in order

vars == <<logVars, owed, received>>

Init ==
  /\ LogInit
  /\ owed = [s \in Subscribers |-> {}]
  /\ received = [s \in Subscribers |-> <<>>]

EmitStep(t, w) ==
  /\ Emit(t, w)
  /\ owed' = [s \in Subscribers |->
                owed[s] \cup (IF s \in subscribers[w] THEN {seq'} ELSE {})]
  /\ UNCHANGED received

CallStep(c) ==
  /\ CallSubscriber(c)
  /\ received' = [received EXCEPT ![c.to] = Append(@, c.event.seq)]
  /\ UNCHANGED owed

SubscribeStep(s, w) ==
  /\ s \notin subscribers[w]
  /\ Subscribe(s, w)
  /\ UNCHANGED <<owed, received>>

UnsubscribeStep(s, w) ==
  /\ s \in subscribers[w]
  /\ Unsubscribe(s, w)
  /\ UNCHANGED <<owed, received>>

ReplayStep == PruneForReplay /\ UNCHANGED <<owed, received>>
CloseStep  == CloseLog /\ UNCHANGED <<owed, received>>

Next ==
  \/ \E t \in Emitters, w \in Wires : EmitStep(t, w)
  \/ \E c \in calling : CallStep(c)
  \/ \E s \in Subscribers, w \in Wires : SubscribeStep(s, w) \/ UnsubscribeStep(s, w)
  \/ ReplayStep
  \/ CloseStep

Spec == Init /\ [][Next]_vars

-----------------------------------------------------------------------------
(***************************************************************************)
(* Properties                                                              *)
(***************************************************************************)

RangeOf(f) == {f[i] : i \in DOMAIN f}

TypeOK ==
  /\ buffer \in Seq(Event)
  /\ seq \in Nat
  /\ logClosed \in BOOLEAN
  /\ retained \subseteq Wires
  /\ subscribers \in [Wires -> SUBSET Subscribers]
  /\ calling \subseteq Call
  /\ recorded \in Seq(Wires)
  /\ owed \in [Subscribers -> SUBSET (Nat \ {0})]
  /\ received \in [Subscribers -> Seq(Nat \ {0})]

\* The history is a bounded tail, without gaps, of everything ever numbered: what `oldest` and
\* `last_seq + 1 < oldest` in replay_from rely on.
HistoryIsTail ==
  /\ seq = Len(recorded)
  /\ Len(buffer) <= seq
  /\ Len(buffer) <= MaxEvents
  /\ \A i \in 1..Len(buffer) :
       buffer[i] = [event |-> recorded[seq - Len(buffer) + i], seq |-> seq - Len(buffer) + i]

\* Everything numbered after `last` on one of the wires.
MissedSince(last, names) ==
  {[event |-> recorded[n], seq |-> n] : n \in {m \in last + 1..seq : recorded[m] \in names}}

\* A client that is caught up gets every event it missed and nothing else, whatever has aged out
\* or been pushed out of the history in between.
ReplayIsExact ==
  \A last \in 0..seq + 1, names \in SUBSET Wires :
    CanReplay(buffer, seq, last) => ReplayFrom(buffer, last, names) = MissedSince(last, names)

\* A client is told to re-fetch its state only when an event it has not seen is gone, or when it
\* claims to have seen an event that was never numbered.
ResyncOnlyWhenLost ==
  \A last \in 0..seq + 1 :
    ~CanReplay(buffer, seq, last) =>
      \/ last > seq
      \/ \E n \in last + 1..seq : n \notin {buffer[i].seq : i \in 1..Len(buffer)}

\* Each event reaches each subscriber attached when it was numbered exactly once: it is either
\* still to be called by the emitter or has been received, never both and never twice, also when
\* the subscriber detaches or the log closes in between.
InFlight(s) == {c.event.seq : c \in {d \in calling : d.to = s}}

DeliveredOnce ==
  \A s \in Subscribers :
    /\ owed[s] = RangeOf(received[s]) \cup InFlight(s)
    /\ RangeOf(received[s]) \cap InFlight(s) = {}
    /\ \A i, j \in 1..Len(received[s]) : received[s][i] = received[s][j] => i = j

\* A resume point the log can no longer serve is never served again: the check of the handshake and
\* the later one of the subscription cannot disagree in the client's favour.
LostStaysLost ==
  [][\A last \in 0..seq : ~CanReplay(buffer, seq, last) => ~CanReplay(buffer', seq', last)]_vars

=============================================================================
