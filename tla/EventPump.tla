----------------------------- MODULE EventPump -----------------------------
(***************************************************************************)
(* What a session's events pass through on the way to its connection:      *)
(* crates/engine/src/transport/event_pump.rs.                              *)
(*                                                                         *)
(* Traffic entries wait in a batch that is sent when it is full, when a    *)
(* timer fires, when another event comes by, or when the pump closes.  A   *)
(* caller decides what to send under the pump's mutex and sends it after   *)
(* it has let go of the mutex; the timer task does the same.               *)
(*                                                                         *)
(* An event is its number.  A frame holds the numbers of the events in it: *)
(* several for a batch of traffic, one for any other event.                *)
(***************************************************************************)
EXTENDS Integers, Sequences, FiniteSets

CONSTANTS
  Pumps,     \* one per session
  Callers,   \* the threads that call push or close
  MaxBatch,  \* DEFAULT_MAX_BATCH
  MaxSeq     \* bound: the highest number of an event

ASSUME PumpAssumption ==
  /\ MaxBatch \in Nat \ {0}
  /\ MaxSeq \in Nat

VARIABLES
  pending,      \* entries waiting for the next batch
  pendingSeq,   \* the highest number among them, 0 when there are none
  generation,   \* bumped on every flush
  timerArmed,
  pumpClosed,
  timers,       \* spawned timer tasks still asleep: [pump, generation they were armed in]
  unsent,       \* what each caller has decided to send, in order, and not yet sent
  timerUnsent,  \* timer tasks that have taken a batch and not yet sent it
  out           \* the channel to the connection's single writer

pumpVars == <<pending, pendingSeq, generation, timerArmed, pumpClosed, timers,
              unsent, timerUnsent, out>>

Number  == Nat \ {0}
Frame   == [batch : BOOLEAN, seq : Number, entries : Seq(Number)]
Sending == [pump : Pumps, frame : Frame]
Timer   == [pump : Pumps, generation : Nat]
Holding == [pump : Pumps, generation : Nat, frame : Frame]

Single(p, n) == [pump |-> p, frame |-> [batch |-> FALSE, seq |-> n, entries |-> <<n>>]]

Batch(p, top, entries) ==
  [pump |-> p, frame |-> [batch |-> TRUE, seq |-> top, entries |-> entries]]

GreatestIsFirst(m, n) == IF m = 0 THEN n ELSE m   \* mutant: the first entry's number is kept
Greatest(m, n) == IF m >= n THEN m ELSE n

PumpInit ==
  /\ pending = [p \in Pumps |-> <<>>]
  /\ pendingSeq = [p \in Pumps |-> 0]
  /\ generation = [p \in Pumps |-> 0]
  /\ timerArmed = [p \in Pumps |-> FALSE]
  /\ pumpClosed = [p \in Pumps |-> FALSE]
  /\ timers = {}
  /\ unsent = [c \in Callers |-> <<>>]
  /\ timerUnsent = {}
  /\ out = [p \in Pumps |-> <<>>]

\* take_batch: what it returns, as a sequence of at most one thing to send, and what it resets.
TakenEvenEmpty(p) == <<Batch(p, pendingSeq[p], pending[p])>>   \* mutant: no check for empty

TakenBatch(p) ==
  IF pending[p] = <<>> THEN <<>> ELSE <<Batch(p, pendingSeq[p], pending[p])>>

ResetNotPending(p) ==   \* mutant: the entries are copied, not taken
  /\ generation' = [generation EXCEPT ![p] = @ + 1]
  /\ timerArmed' = [timerArmed EXCEPT ![p] = FALSE]
  /\ UNCHANGED <<pending, pendingSeq>>

ResetNotTimer(p) ==   \* mutant: the timer still counts as armed
  /\ generation' = [generation EXCEPT ![p] = @ + 1]
  /\ pending' = [pending EXCEPT ![p] = <<>>]
  /\ pendingSeq' = [pendingSeq EXCEPT ![p] = 0]
  /\ UNCHANGED timerArmed

ResetBatch(p) ==
  /\ generation' = [generation EXCEPT ![p] = @ + 1]
  /\ timerArmed' = [timerArmed EXCEPT ![p] = FALSE]
  /\ pending' = [pending EXCEPT ![p] = <<>>]
  /\ pendingSeq' = [pendingSeq EXCEPT ![p] = 0]

\* push on a closed pump returns at once.
PushRefused(c, p) ==
  /\ unsent[c] = <<>>
  /\ pumpClosed[p]
  /\ UNCHANGED pumpVars

\* push of an event that is not traffic: the waiting batch goes first.
PushSpawned(c, p, n) ==   \* mutant: the event is sent from a task of its own
  /\ unsent[c] = <<>>
  /\ ~pumpClosed[p]
  /\ unsent' = [unsent EXCEPT ![c] = TakenBatch(p)]
  /\ timerUnsent' = timerUnsent \cup
       {[pump |-> p, generation |-> generation[p], frame |-> Single(p, n).frame]}
  /\ ResetBatch(p)
  /\ UNCHANGED <<pumpClosed, timers, out>>

PushOther(c, p, n) ==
  /\ unsent[c] = <<>>
  /\ ~pumpClosed[p]
  /\ unsent' = [unsent EXCEPT ![c] = Append(TakenBatch(p), Single(p, n))]
  /\ ResetBatch(p)
  /\ UNCHANGED <<pumpClosed, timers, timerUnsent, out>>

\* push of a traffic entry that fills the batch.
PushFull(c, p, n) ==
  /\ unsent[c] = <<>>
  /\ ~pumpClosed[p]
  /\ Len(pending[p]) + 1 >= MaxBatch
  /\ unsent' = [unsent EXCEPT ![c] =
                  <<Batch(p, Greatest(pendingSeq[p], n), Append(pending[p], n))>>]
  /\ ResetBatch(p)
  /\ UNCHANGED <<pumpClosed, timers, timerUnsent, out>>

\* push of a traffic entry that has to wait; the first to wait arms the timer.
PushWaits(c, p, n) ==
  /\ unsent[c] = <<>>
  /\ ~pumpClosed[p]
  /\ Len(pending[p]) + 1 < MaxBatch
  /\ pending' = [pending EXCEPT ![p] = Append(@, n)]
  /\ pendingSeq' = [pendingSeq EXCEPT ![p] = Greatest(@, n)]
  /\ timerArmed' = [timerArmed EXCEPT ![p] = TRUE]
  /\ timers' = IF timerArmed[p] THEN timers
               ELSE timers \cup {[pump |-> p, generation |-> generation[p]]}
  /\ UNCHANGED <<generation, pumpClosed, unsent, timerUnsent, out>>

PushEntry(c, p, n) == PushFull(c, p, n) \/ PushWaits(c, p, n)

\* A caller sends the next thing it decided to send.
Send(c) ==
  /\ unsent[c] # <<>>
  /\ LET x == Head(unsent[c])
     IN  out' = [out EXCEPT ![x.pump] = Append(@, x.frame)]
  /\ unsent' = [unsent EXCEPT ![c] = Tail(@)]
  /\ UNCHANGED <<pending, pendingSeq, generation, timerArmed, pumpClosed, timers, timerUnsent>>

\* A timer task wakes up in the generation it was armed in, and takes the batch.
TimerTakes(x) ==
  /\ x \in timers
  /\ ~pumpClosed[x.pump]
  /\ x.generation = generation[x.pump]
  /\ timers' = timers \ {x}
  /\ timerUnsent' = timerUnsent \cup
       {[pump |-> x.pump, generation |-> x.generation, frame |-> TakenBatch(x.pump)[i].frame] :
          i \in 1..Len(TakenBatch(x.pump))}
  /\ ResetBatch(x.pump)
  /\ UNCHANGED <<pumpClosed, unsent, out>>

\* A timer task wakes up too late, and does nothing.
TimerStale(x) ==
  /\ x \in timers
  /\ pumpClosed[x.pump] \/ x.generation # generation[x.pump]
  /\ timers' = timers \ {x}
  /\ UNCHANGED <<pending, pendingSeq, generation, timerArmed, pumpClosed, unsent, timerUnsent, out>>

TimerSends(x) ==
  /\ x \in timerUnsent
  /\ timerUnsent' = timerUnsent \ {x}
  /\ out' = [out EXCEPT ![x.pump] = Append(@, x.frame)]
  /\ UNCHANGED <<pending, pendingSeq, generation, timerArmed, pumpClosed, timers, unsent>>

ClosePumpAndDrop(c, p) ==   \* mutant: what is waiting is not sent
  /\ unsent[c] = <<>>
  /\ ~pumpClosed[p]
  /\ pumpClosed' = [pumpClosed EXCEPT ![p] = TRUE]
  /\ ResetBatch(p)
  /\ UNCHANGED <<unsent, timers, timerUnsent, out>>

ClosePump(c, p) ==
  /\ unsent[c] = <<>>
  /\ ~pumpClosed[p]
  /\ pumpClosed' = [pumpClosed EXCEPT ![p] = TRUE]
  /\ unsent' = [unsent EXCEPT ![c] = TakenBatch(p)]
  /\ ResetBatch(p)
  /\ UNCHANGED <<timers, timerUnsent, out>>

\* A new engine has no sessions: their pumps, timers and channels start anew.
NewPumps ==
  /\ pending' = [p \in Pumps |-> <<>>] /\ pendingSeq' = [p \in Pumps |-> 0]
  /\ generation' = [p \in Pumps |-> 0] /\ timerArmed' = [p \in Pumps |-> FALSE]
  /\ pumpClosed' = [p \in Pumps |-> FALSE] /\ timers' = {}
  /\ unsent' = [c \in Callers |-> <<>>] /\ timerUnsent' = {}
  /\ out' = [p \in Pumps |-> <<>>]

-----------------------------------------------------------------------------
(***************************************************************************)
(* The pump on its own.  Each number is pushed once; a thread pushes its   *)
(* events in the order of their numbers, but threads overtake each other   *)
(* between the log, which numbers, and the pump.                           *)
(***************************************************************************)
VARIABLES
  accepted,  \* history: the events each open pump has been given
  pusher     \* history: who pushed each event that was pushed

vars == <<pumpVars, accepted, pusher>>

Init ==
  /\ PumpInit
  /\ accepted = [p \in Pumps |-> {}]
  /\ pusher = <<>>

PushStep(c, p, n) ==
  /\ n \notin DOMAIN pusher
  /\ \A m \in DOMAIN pusher : pusher[m] = c => m < n
  /\ PushOther(c, p, n) \/ PushEntry(c, p, n)
  /\ accepted' = [accepted EXCEPT ![p] = @ \cup {n}]
  /\ pusher' = [m \in DOMAIN pusher \cup {n} |-> IF m = n THEN c ELSE pusher[m]]

Quiet == UNCHANGED <<accepted, pusher>>

Next ==
  \/ \E c \in Callers, p \in Pumps, n \in 1..MaxSeq : PushStep(c, p, n)
  \/ \E c \in Callers, p \in Pumps : PushRefused(c, p) /\ Quiet
  \/ \E c \in Callers, p \in Pumps : ClosePump(c, p) /\ Quiet
  \/ \E c \in Callers : Send(c) /\ Quiet
  \/ \E x \in timers : (TimerTakes(x) \/ TimerStale(x)) /\ Quiet
  \/ \E x \in timerUnsent : TimerSends(x) /\ Quiet

\* The runtime wakes every sleeping task and runs every thread on.
Fairness ==
  /\ \A c \in Callers : WF_vars(Send(c) /\ Quiet)
  /\ \A p \in Pumps :
       /\ WF_vars(\E x \in timers : x.pump = p /\ (TimerTakes(x) \/ TimerStale(x)) /\ Quiet)
       /\ WF_vars(\E x \in timerUnsent : x.pump = p /\ TimerSends(x) /\ Quiet)

Spec == Init /\ [][Next]_vars /\ Fairness

-----------------------------------------------------------------------------
(***************************************************************************)
(* Properties                                                              *)
(***************************************************************************)

TypeOK ==
  /\ pending \in [Pumps -> Seq(Number)]
  /\ pendingSeq \in [Pumps -> Nat]
  /\ generation \in [Pumps -> Nat]
  /\ timerArmed \in [Pumps -> BOOLEAN]
  /\ pumpClosed \in [Pumps -> BOOLEAN]
  /\ timers \subseteq Timer
  /\ unsent \in [Callers -> Seq(Sending)]
  /\ timerUnsent \subseteq Holding
  /\ out \in [Pumps -> Seq(Frame)]
  /\ accepted \in [Pumps -> SUBSET Number]
  /\ DOMAIN pusher \subseteq Number
  /\ \A n \in DOMAIN pusher : pusher[n] \in Callers

\* Where a copy of event n for pump p is: in the batch, decided on by a caller or a timer, or sent.
PlacesIn(f, n) == {j \in DOMAIN f.entries : f.entries[j] = n}

CopiesWaiting(n, p) == {<<"pending", j>> : j \in {k \in DOMAIN pending[p] : pending[p][k] = n}}

CopiesOfCaller(c, n, p) ==
  UNION {{<<"caller", c, i, j>> : j \in PlacesIn(unsent[c][i].frame, n)} :
         i \in {k \in DOMAIN unsent[c] : unsent[c][k].pump = p}}

CopiesOfTimers(n, p) ==
  UNION {{<<"timer", x, j>> : j \in PlacesIn(x.frame, n)} : x \in {y \in timerUnsent : y.pump = p}}

CopiesSent(n, p) == UNION {{<<"out", i, j>> : j \in PlacesIn(out[p][i], n)} : i \in DOMAIN out[p]}

Copies(n, p) ==
  CopiesWaiting(n, p) \cup (UNION {CopiesOfCaller(c, n, p) : c \in Callers})
    \cup CopiesOfTimers(n, p) \cup CopiesSent(n, p)

\* Coalescing neither loses nor repeats an event: whatever the timer, the callers and the close do
\* in between, an accepted event is in exactly one place, and a pump never holds another's event.
ExactlyOnce ==
  \A p \in Pumps, n \in 1..MaxSeq :
    Cardinality(Copies(n, p)) = IF n \in accepted[p] THEN 1 ELSE 0

\* A batch that waits has a timer asleep that will still recognise it: the generation check that
\* silences timers of earlier batches never silences the one that is needed.
NoBatchStranded ==
  \A p \in Pumps :
    /\ pending[p] # <<>> => [pump |-> p, generation |-> generation[p]] \in timers
    /\ Len(pending[p]) < MaxBatch
    /\ pumpClosed[p] => pending[p] = <<>>

\* The number on a frame is the highest number in it, so that a client that remembers the number
\* of the last frame has been given nothing newer than it.
FrameNumber ==
  \A p \in Pumps : \A i \in DOMAIN out[p] :
    LET f == out[p][i]
    IN  /\ \A j \in DOMAIN f.entries : f.entries[j] <= f.seq
        /\ \E j \in DOMAIN f.entries : f.entries[j] = f.seq

\* The events other than traffic that one thread pushes leave in the order it pushed them.
CallerOrder ==
  \A p \in Pumps : \A i, j \in DOMAIN out[p] :
    (/\ i < j
     /\ ~out[p][i].batch /\ ~out[p][j].batch
     /\ pusher[out[p][i].seq] = pusher[out[p][j].seq])
    => out[p][i].seq < out[p][j].seq

\* "every other event goes out at once, after any batch already waiting so order is kept": the
\* events one thread pushes go out in the order in which it pushed them, batched or not.
OrderKept ==
  \A p \in Pumps : \A i, j \in DOMAIN out[p] :
    i < j => \A k \in DOMAIN out[p][i].entries, m \in DOMAIN out[p][j].entries :
               pusher[out[p][i].entries[k]] = pusher[out[p][j].entries[m]] =>
                 out[p][i].entries[k] < out[p][j].entries[m]

\* An accepted event goes out, also when nothing is pushed after it and when the pump closes.
AcceptedIsSent ==
  \A p \in Pumps, n \in 1..MaxSeq :
    n \in accepted[p] ~>
      \E i \in DOMAIN out[p] : \E j \in DOMAIN out[p][i].entries : out[p][i].entries[j] = n

=============================================================================
