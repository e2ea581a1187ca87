------------------------ MODULE EventDeliveryProofs ------------------------
(***************************************************************************)
(* Proofs about EventDelivery, for any number of connections, wires,       *)
(* emitters, events, frames and engines, and any size of the history and   *)
(* of a batch.                                                             *)
(*                                                                         *)
(* TypeOK is not inductive.  That no frame has the number 0 needs the      *)
(* number of a waiting batch to be set; that what a session is caught up   *)
(* with has been numbered needs every event in the history, in a callback  *)
(* and in a backlog to be one that was numbered, under its own wire.       *)
(*                                                                         *)
(* What the log, the pumps and the sessions do together is proved by       *)
(* counting the copies of an event: where a step takes them from and where *)
(* it puts them.  The counts give NeverTwice (Once), and that every step   *)
(* is one of EventFeed's, whose `due` is the number of copies on their way *)
(* (FeedCorrect).  That a replay is exactly what the session missed on the *)
(* wire is proved of the log alone, in EventLogProofs, and holds of the    *)
(* log here (LogFacts).                                                    *)
(***************************************************************************)
EXTENDS EventDelivery, SequenceTheorems, FunctionTheorems, FiniteSetTheorems, TLAPS

\* What is proved of the log alone holds of the log here.
LogFacts == INSTANCE EventLogProofs WITH Subscribers <- Sessions, received <- out

Callers == Emitters \cup Sessions

\* Event e is one of those recorded, under its number.
OnRecord(e, record) == e \in Log!Event /\ e.seq <= Len(record) /\ e.event = record[e.seq]

LogTypes ==
  /\ seq \in Nat /\ seq <= MaxSeq /\ recorded \in Seq(Wires) /\ Len(recorded) = seq
  /\ buffer \in Seq(Log!Event) /\ \A i \in 1..Len(buffer) : OnRecord(buffer[i], recorded)
  /\ logClosed \in BOOLEAN /\ retained \subseteq Wires
  /\ subscribers \in [Wires -> SUBSET Sessions]
  /\ calling \subseteq Log!Call /\ \A c \in calling : OnRecord(c.event, recorded)

PumpTypes ==
  /\ pending \in [Sessions -> Seq(Pump!Number)] /\ pendingSeq \in [Sessions -> Nat]
  /\ \A p \in Sessions : pending[p] # <<>> => pendingSeq[p] # 0
  /\ generation \in [Sessions -> Nat] /\ timers \subseteq Pump!Timer
  /\ timerArmed \in [Sessions -> BOOLEAN] /\ pumpClosed \in [Sessions -> BOOLEAN]
  /\ unsent \in [Callers -> Seq(Pump!Sending)]
  /\ timerUnsent \subseteq Pump!Holding /\ out \in [Sessions -> Seq(Pump!Frame)]

\* A task that attaches a wire has one to attach.
GoodTask == {x \in Task : x.at \in {"attach", "backlog"} => x.rest # <<>>}

SessionTypes ==
  /\ phase \in [Sessions -> {"new", "open", "closing", "closed"}]
  /\ resume \in [Sessions -> Nat \cup {None}]
  /\ count \in [Sessions -> [Wires -> Nat]]
  /\ task \in [Sessions -> GoodTask]
  /\ frames \in [Sessions -> 0..MaxFrames]

ClientTypes ==
  /\ engine \in 1..MaxEngines /\ lastSeen \in Nat /\ lastFrom \in 1..MaxEngines
  /\ got \in [Sessions -> [1..MaxSeq -> Nat]]

HistoryTypes ==
  /\ owed \in [Sessions -> SUBSET (1..seq)] /\ caught \in [Sessions -> SUBSET (1..seq)]
  /\ detached \in [Sessions -> SUBSET Wires] /\ refused \subseteq Sessions
  /\ \A s \in Sessions : \A e \in task[s].backlog : OnRecord(e, recorded)

Types == LogTypes /\ PumpTypes /\ SessionTypes /\ ClientTypes /\ HistoryTypes

LEMMA InitTypes == Init => Types
<1> SUFFICES ASSUME Init PROVE Types
  OBVIOUS
<1> USE DeliveryAssumption, EmptySeq
<1>1. LogTypes
  <2>1. /\ buffer = <<>> /\ seq = 0 /\ logClosed = FALSE /\ retained = {} /\ calling = {} /\ recorded = <<>>
        /\ subscribers = [w \in Wires |-> {}] /\ Len(<<>>) = 0 /\ MaxSeq \in Nat
    BY DEF Init, Log!LogInit
  <2>2. <<>> \in Seq(Wires) /\ <<>> \in Seq(Log!Event)
    OBVIOUS
  <2>3. \A i \in 1..Len(buffer) : OnRecord(buffer[i], recorded)
    BY <2>1
  <2>4. subscribers \in [Wires -> SUBSET Sessions] /\ calling \subseteq Log!Call
    BY <2>1
  <2>5. /\ buffer \in Seq(Log!Event) /\ recorded \in Seq(Wires) /\ Len(recorded) = seq
        /\ seq \in Nat /\ seq <= MaxSeq
    BY <2>1, <2>2
  <2>6. logClosed \in BOOLEAN /\ retained \subseteq Wires /\ \A c \in calling : OnRecord(c.event, recorded)
    BY <2>1
  <2> QED  BY <2>3, <2>4, <2>5, <2>6 DEF LogTypes
<1>2. PumpTypes
  BY DEF Init, Pump!PumpInit, PumpTypes, Callers
<1>3. SessionTypes
  BY DEF Init, SessionTypes, Task, GoodTask, Idle
<1>4. ClientTypes
  BY DEF Init, ClientTypes
<1>5. HistoryTypes
  BY DEF Init, HistoryTypes, Idle
<1> QED  BY <1>1, <1>2, <1>3, <1>4, <1>5 DEF Types

-----------------------------------------------------------------------------
(* The pump's types. *)

LEMMA TakenTyped ==
  ASSUME PumpTypes, NEW p \in Sessions
  PROVE  Pump!TakenBatch(p) \in Seq(Pump!Sending)
<1>1. pending[p] \in Seq(Pump!Number) /\ pendingSeq[p] \in Nat
  BY DEF PumpTypes
<1>2. CASE pending[p] = <<>>
  BY <1>2, EmptySeq DEF Pump!TakenBatch
<1>3. CASE pending[p] # <<>>
  <2>1. pendingSeq[p] \in Pump!Number
    BY <1>1, <1>3 DEF PumpTypes, Pump!Number
  <2>2. Pump!Batch(p, pendingSeq[p], pending[p]) \in Pump!Sending
    BY <1>1, <2>1 DEF Pump!Batch, Pump!Sending, Pump!Frame
  <2> QED  BY <1>3, <2>2 DEF Pump!TakenBatch
<1> QED  BY <1>2, <1>3

LEMMA SingleTyped ==
  ASSUME NEW p \in Sessions, NEW n \in Pump!Number
  PROVE  Pump!Single(p, n) \in Pump!Sending
<1>1. <<n>> \in Seq(Pump!Number)
  OBVIOUS
<1> QED  BY <1>1 DEF Pump!Single, Pump!Sending, Pump!Frame

LEMMA FullTyped ==
  ASSUME PumpTypes, NEW p \in Sessions, NEW n \in Pump!Number
  PROVE  /\ Append(pending[p], n) \in Seq(Pump!Number)
         /\ Pump!Greatest(pendingSeq[p], n) \in Pump!Number
         /\ <<Pump!Batch(p, Pump!Greatest(pendingSeq[p], n), Append(pending[p], n))>> \in Seq(Pump!Sending)
<1> DEFINE q == Append(pending[p], n)
           g == Pump!Greatest(pendingSeq[p], n)
<1>1. q \in Seq(Pump!Number)
  BY AppendProperties DEF PumpTypes
<1>2. g \in Pump!Number
  BY DEF PumpTypes, Pump!Greatest, Pump!Number
<1> HIDE DEF q, g
<1>3. Pump!Batch(p, g, q) \in Pump!Sending
  BY <1>1, <1>2 DEF Pump!Batch, Pump!Sending, Pump!Frame
<1>4. <<Pump!Batch(p, g, q)>> \in Seq(Pump!Sending)
  BY <1>3
<1> QED  BY <1>1, <1>2, <1>4 DEF q, g

LEMMA ResetTyped ==
  ASSUME PumpTypes, NEW p \in Sessions, Pump!ResetBatch(p)
  PROVE  /\ pending' \in [Sessions -> Seq(Pump!Number)] /\ pendingSeq' \in [Sessions -> Nat]
         /\ \A r \in Sessions : pending'[r] # <<>> => pendingSeq'[r] # 0
         /\ generation' \in [Sessions -> Nat] /\ timerArmed' \in [Sessions -> BOOLEAN]
<1>1. /\ pending' = [pending EXCEPT ![p] = <<>>] /\ pendingSeq' = [pendingSeq EXCEPT ![p] = 0]
      /\ generation' = [generation EXCEPT ![p] = @ + 1]
      /\ timerArmed' = [timerArmed EXCEPT ![p] = FALSE]
  BY DEF Pump!ResetBatch
<1>2. <<>> \in Seq(Pump!Number)
  BY EmptySeq
<1>3. pending' \in [Sessions -> Seq(Pump!Number)] /\ pendingSeq' \in [Sessions -> Nat]
  BY <1>1, <1>2 DEF PumpTypes
<1>4. generation' \in [Sessions -> Nat]
  BY <1>1 DEF PumpTypes
<1>5. timerArmed' \in [Sessions -> BOOLEAN]
  BY <1>1 DEF PumpTypes
<1>6. \A r \in Sessions : pending'[r] # <<>> => pendingSeq'[r] # 0
  BY <1>1 DEF PumpTypes
<1> QED  BY <1>3, <1>4, <1>5, <1>6

LEMMA PushTypes ==
  ASSUME PumpTypes, NEW c \in Callers, NEW p \in Sessions, NEW n \in Pump!Number,
         Pump!PushOther(c, p, n) \/ Pump!PushEntry(c, p, n) \/ Pump!PushRefused(c, p)
  PROVE  PumpTypes'
<1>1. CASE Pump!PushOther(c, p, n)
  <2> DEFINE q == Append(Pump!TakenBatch(p), Pump!Single(p, n))
  <2>1. /\ Pump!ResetBatch(p) /\ UNCHANGED <<pumpClosed, timers, timerUnsent, out>>
        /\ unsent' = [unsent EXCEPT ![c] = q]
    BY <1>1 DEF Pump!PushOther
  <2>2. q \in Seq(Pump!Sending)
    BY TakenTyped, SingleTyped, AppendProperties
  <2> HIDE DEF q
  <2>3. unsent' \in [Callers -> Seq(Pump!Sending)]
    BY <2>1, <2>2 DEF PumpTypes
  <2> QED  BY <2>1, <2>3, ResetTyped DEF PumpTypes
<1>2. CASE Pump!PushFull(c, p, n)
  <2> DEFINE q == <<Pump!Batch(p, Pump!Greatest(pendingSeq[p], n), Append(pending[p], n))>>
  <2>1. /\ Pump!ResetBatch(p) /\ UNCHANGED <<pumpClosed, timers, timerUnsent, out>>
        /\ unsent' = [unsent EXCEPT ![c] = q]
    BY <1>2 DEF Pump!PushFull
  <2>2. q \in Seq(Pump!Sending)
    BY FullTyped
  <2> HIDE DEF q
  <2>3. unsent' \in [Callers -> Seq(Pump!Sending)]
    BY <2>1, <2>2 DEF PumpTypes
  <2> QED  BY <2>1, <2>3, ResetTyped DEF PumpTypes
<1>3. CASE Pump!PushWaits(c, p, n)
  <2> DEFINE x == [pump |-> p, generation |-> generation[p]]
  <2>1. /\ pending' = [pending EXCEPT ![p] = Append(@, n)]
        /\ pendingSeq' = [pendingSeq EXCEPT ![p] = Pump!Greatest(@, n)]
        /\ timerArmed' = [timerArmed EXCEPT ![p] = TRUE]
        /\ timers' = IF timerArmed[p] THEN timers ELSE timers \cup {x}
        /\ UNCHANGED <<generation, pumpClosed, unsent, timerUnsent, out>>
    BY <1>3 DEF Pump!PushWaits
  <2>2. /\ Append(pending[p], n) \in Seq(Pump!Number)
        /\ Pump!Greatest(pendingSeq[p], n) \in Pump!Number
    BY FullTyped
  <2>3. x \in Pump!Timer
    BY DEF PumpTypes, Pump!Timer
  <2> HIDE DEF x
  <2>4. pending' \in [Sessions -> Seq(Pump!Number)] /\ pendingSeq' \in [Sessions -> Nat]
    BY <2>1, <2>2 DEF PumpTypes, Pump!Number
  <2>5. timerArmed' \in [Sessions -> BOOLEAN] /\ timers' \subseteq Pump!Timer
    BY <2>1, <2>3 DEF PumpTypes
  <2>6. \A r \in Sessions : pending'[r] # <<>> => pendingSeq'[r] # 0
    BY <2>1, <2>2 DEF PumpTypes, Pump!Number
  <2> QED  BY <2>1, <2>4, <2>5, <2>6 DEF PumpTypes
<1>4. CASE Pump!PushRefused(c, p)
  BY <1>4 DEF Pump!PushRefused, Pump!pumpVars, PumpTypes
<1> QED  BY <1>1, <1>2, <1>3, <1>4 DEF Pump!PushEntry

\* A frame goes into a channel.
LEMMA OutTyped ==
  ASSUME PumpTypes, NEW p \in Sessions, NEW f \in Pump!Frame, out' = [out EXCEPT ![p] = Append(@, f)]
  PROVE  out' \in [Sessions -> Seq(Pump!Frame)]
<1>1. Append(out[p], f) \in Seq(Pump!Frame)
  BY AppendProperties DEF PumpTypes
<1> QED  BY <1>1 DEF PumpTypes

LEMMA SendTypes ==
  ASSUME PumpTypes, NEW c \in Callers, Pump!Send(c)
  PROVE  PumpTypes'
<1> DEFINE x == Head(unsent[c])
<1>1. /\ unsent[c] # <<>> /\ out' = [out EXCEPT ![x.pump] = Append(@, x.frame)]
      /\ unsent' = [unsent EXCEPT ![c] = Tail(@)]
      /\ UNCHANGED <<pending, pendingSeq, generation, timerArmed, pumpClosed, timers, timerUnsent>>
  BY DEF Pump!Send
<1>2. x \in Pump!Sending /\ Tail(unsent[c]) \in Seq(Pump!Sending)
  BY <1>1, HeadTailProperties DEF PumpTypes
<1> HIDE DEF x
<1>3. out' \in [Sessions -> Seq(Pump!Frame)]
  BY <1>1, <1>2, OutTyped DEF Pump!Sending
<1>4. unsent' \in [Callers -> Seq(Pump!Sending)]
  BY <1>1, <1>2 DEF PumpTypes
<1> QED  BY <1>1, <1>3, <1>4 DEF PumpTypes

LEMMA TimerTypes ==
  ASSUME PumpTypes, NEW x \in timers, Pump!TimerTakes(x) \/ Pump!TimerStale(x)
  PROVE  PumpTypes'
<1>1. x.pump \in Sessions /\ x.generation \in Nat
  BY DEF PumpTypes, Pump!Timer
<1>2. CASE Pump!TimerTakes(x)
  <2> DEFINE taken == Pump!TakenBatch(x.pump)
  <2>1. /\ timers' = timers \ {x} /\ Pump!ResetBatch(x.pump)
        /\ timerUnsent' = timerUnsent \cup
             {[pump |-> x.pump, generation |-> x.generation, frame |-> taken[i].frame] :
                i \in 1..Len(taken)}
        /\ UNCHANGED <<pumpClosed, unsent, out>>
    BY <1>2 DEF Pump!TimerTakes
  <2>2. \A i \in 1..Len(taken) : taken[i] \in Pump!Sending
    BY <1>1, TakenTyped, ElementOfSeq
  <2> HIDE DEF taken
  <2>3. timerUnsent' \subseteq Pump!Holding /\ timers' \subseteq Pump!Timer
    BY <1>1, <2>1, <2>2 DEF PumpTypes, Pump!Holding, Pump!Sending
  <2> QED  BY <1>1, <2>1, <2>3, ResetTyped DEF PumpTypes
<1>3. CASE Pump!TimerStale(x)
  BY <1>3 DEF Pump!TimerStale, PumpTypes
<1> QED  BY <1>2, <1>3

LEMMA TimerSendTypes ==
  ASSUME PumpTypes, NEW x \in timerUnsent, Pump!TimerSends(x)
  PROVE  PumpTypes'
<1>1. /\ timerUnsent' = timerUnsent \ {x} /\ out' = [out EXCEPT ![x.pump] = Append(@, x.frame)]
      /\ UNCHANGED <<pending, pendingSeq, generation, timerArmed, pumpClosed, timers, unsent>>
  BY DEF Pump!TimerSends
<1>2. x.pump \in Sessions /\ x.frame \in Pump!Frame
  BY DEF PumpTypes, Pump!Holding
<1>3. out' \in [Sessions -> Seq(Pump!Frame)]
  BY <1>1, <1>2, OutTyped
<1> QED  BY <1>1, <1>3 DEF PumpTypes

LEMMA PumpStepTypes ==
  ASSUME PumpTypes, PumpStep
  PROVE  PumpTypes'
BY SendTypes, TimerTypes, TimerSendTypes DEF PumpStep, Callers

LEMMA ClosePumpTypes ==
  ASSUME PumpTypes, NEW s \in Sessions, Pump!ClosePump(s, s)
  PROVE  PumpTypes'
<1>1. /\ pumpClosed' = [pumpClosed EXCEPT ![s] = TRUE] /\ Pump!ResetBatch(s)
      /\ unsent' = [unsent EXCEPT ![s] = Pump!TakenBatch(s)]
      /\ UNCHANGED <<timers, timerUnsent, out>>
  BY DEF Pump!ClosePump
<1>2. unsent' \in [Callers -> Seq(Pump!Sending)]
  BY <1>1, TakenTyped DEF PumpTypes
<1>3. pumpClosed' \in [Sessions -> BOOLEAN]
  BY <1>1 DEF PumpTypes
<1> QED  BY <1>1, <1>2, <1>3, ResetTyped DEF PumpTypes

\* The pump's variables keep their types when a step leaves them alone.
LEMMA PumpRests ==
  ASSUME PumpTypes, UNCHANGED pumpVars
  PROVE  PumpTypes'
BY DEF PumpTypes, pumpVars

-----------------------------------------------------------------------------
(* The log's types. *)

LEMMA DropTyped ==
  ASSUME NEW b \in Seq(Log!Event), NEW n \in 0..Len(b)
  PROVE  /\ Log!DropFirst(b, n) \in Seq(Log!Event)
         /\ \A i \in 1..Len(Log!DropFirst(b, n)) : \E j \in 1..Len(b) : Log!DropFirst(b, n)[i] = b[j]
<1>1. \A i \in n + 1..Len(b) : b[i] \in Log!Event
  BY ElementOfSeq
<1>2. /\ SubSeq(b, n + 1, Len(b)) \in Seq(Log!Event)
      /\ Len(SubSeq(b, n + 1, Len(b))) = IF n + 1 <= Len(b) THEN Len(b) - (n + 1) + 1 ELSE 0
      /\ \A i \in 1..Len(b) - (n + 1) + 1 : SubSeq(b, n + 1, Len(b))[i] = b[(n + 1) + i - 1]
  BY <1>1, SubSeqProperties
<1>3. Len(b) \in Nat
  BY LenProperties
<1> DEFINE d == SubSeq(b, n + 1, Len(b))
<1> HIDE DEF d
<1>4. ASSUME NEW i \in 1..Len(d) PROVE \E j \in 1..Len(b) : d[i] = b[j]
  <2>1. n + 1 <= Len(b) /\ i \in 1..Len(b) - (n + 1) + 1
    BY <1>2, <1>3 DEF d
  <2>2. (n + 1) + i - 1 \in 1..Len(b) /\ d[i] = b[(n + 1) + i - 1]
    BY <1>2, <1>3, <2>1 DEF d
  <2> QED  BY <2>2
<1> QED  BY <1>2, <1>4 DEF Log!DropFirst, d

\* Pruning only removes.
LEMMA PruneTyped ==
  ASSUME NEW b \in Seq(Log!Event), NEW aged \in 0..Len(b)
  PROVE  /\ Log!Prune(b, aged) \in Seq(Log!Event)
         /\ \A i \in 1..Len(Log!Prune(b, aged)) : \E j \in 1..Len(b) : Log!Prune(b, aged)[i] = b[j]
<1> DEFINE kept == Log!DropFirst(b, aged)
<1>1. kept \in Seq(Log!Event) /\ \A i \in 1..Len(kept) : \E j \in 1..Len(b) : kept[i] = b[j]
  BY DropTyped
<1> HIDE DEF kept
<1>2. CASE Len(kept) > MaxEvents
  <2> DEFINE less == Log!DropFirst(kept, Len(kept) - MaxEvents)
  <2>1. Len(kept) \in Nat /\ Len(kept) - MaxEvents \in 0..Len(kept)
    BY <1>1, <1>2, LenProperties, DeliveryAssumption
  <2>2. /\ less \in Seq(Log!Event)
        /\ \A i \in 1..Len(less) : \E j \in 1..Len(kept) : less[i] = kept[j]
    BY <1>1, <2>1, DropTyped
  <2>3. Log!Prune(b, aged) = less
    BY <1>2 DEF Log!Prune, kept
  <2> HIDE DEF less
  <2> QED  BY <1>1, <2>2, <2>3
<1>3. CASE ~(Len(kept) > MaxEvents)
  <2>1. Log!Prune(b, aged) = kept
    BY <1>3 DEF Log!Prune, kept
  <2> QED  BY <1>1, <2>1
<1> QED  BY <1>2, <1>3

LEMMA PruneTypes ==
  ASSUME LogTypes, Log!PruneForReplay
  PROVE  LogTypes'
<1>1. PICK aged \in 0..Len(buffer) : buffer' = Log!Prune(buffer, aged)
  BY DEF Log!PruneForReplay
<1>2. UNCHANGED <<seq, logClosed, retained, subscribers, calling, recorded>>
  BY DEF Log!PruneForReplay
<1>3. /\ buffer' \in Seq(Log!Event)
      /\ \A i \in 1..Len(buffer') : \E j \in 1..Len(buffer) : buffer'[i] = buffer[j]
  BY <1>1, PruneTyped DEF LogTypes
<1>4. \A i \in 1..Len(buffer') : OnRecord(buffer'[i], recorded)
  BY <1>3 DEF LogTypes
<1> QED  BY <1>2, <1>3, <1>4 DEF LogTypes

\* What is on record stays there when an event is numbered, and the new event is on record.
LEMMA EmitRecords ==
  ASSUME LogTypes, NEW t \in Emitters, NEW w \in Wires, Log!Emit(t, w)
  PROVE  /\ seq' = seq + 1 /\ seq < MaxSeq /\ recorded' \in Seq(Wires) /\ Len(recorded') = seq'
         /\ \A e : OnRecord(e, recorded) => OnRecord(e, recorded')
         /\ \E e \in Log!Event : e = Log!Numbered(w) /\ e.seq = seq + 1 /\ OnRecord(e, recorded')
<1>1. seq' = seq + 1 /\ seq < MaxSeq /\ recorded' = Append(recorded, w) /\ seq \in Nat
  BY DEF Log!Emit, LogTypes
<1>2. /\ recorded \in Seq(Wires) /\ Len(recorded) = seq
      /\ \A i \in 1..seq : recorded'[i] = recorded[i]
      /\ recorded'[seq + 1] = w /\ recorded' \in Seq(Wires) /\ Len(recorded') = seq + 1
  BY <1>1, AppendProperties DEF LogTypes
<1>3. ASSUME NEW e, OnRecord(e, recorded) PROVE OnRecord(e, recorded')
  <2>1. e \in Log!Event /\ e.seq \in 1..seq /\ e.event = recorded[e.seq]
    BY <1>1, <1>2, <1>3 DEF OnRecord, Log!Event
  <2> QED  BY <1>1, <1>2, <2>1 DEF OnRecord
<1>4. Log!Numbered(w) \in Log!Event /\ Log!Numbered(w).seq = seq + 1 /\ Log!Numbered(w).event = w
  BY <1>1 DEF Log!Numbered, Log!Event
<1>5. OnRecord(Log!Numbered(w), recorded')
  BY <1>1, <1>2, <1>4 DEF OnRecord
<1> QED  BY <1>1, <1>2, <1>3, <1>4, <1>5

LEMMA EmitTypes ==
  ASSUME LogTypes, NEW t \in Emitters, NEW w \in Wires, Log!Emit(t, w)
  PROVE  LogTypes'
<1>1. PICK e \in Log!Event : e = Log!Numbered(w) /\ OnRecord(e, recorded')
  BY EmitRecords
<1>2. /\ \A d : OnRecord(d, recorded) => OnRecord(d, recorded')
      /\ seq' = seq + 1 /\ seq < MaxSeq /\ recorded' \in Seq(Wires) /\ Len(recorded') = seq'
  BY EmitRecords
<1>3. /\ \E aged \in 0..Len(buffer) : buffer' = Log!Prune(Append(buffer, e), aged)
      /\ calling' = calling \cup {[by |-> t, event |-> e, to |-> s] : s \in subscribers[w]}
      /\ UNCHANGED <<logClosed, retained, subscribers>>
  BY <1>1 DEF Log!Emit
<1>4. PICK b : b = Append(buffer, e)
  OBVIOUS
<1>5. /\ b \in Seq(Log!Event) /\ Len(buffer) \in Nat /\ Len(b) = Len(buffer) + 1
      /\ \A i \in 1..Len(b) : b[i] = e \/ \E j \in 1..Len(buffer) : b[i] = buffer[j]
  <2>1. buffer \in Seq(Log!Event) /\ Len(buffer) \in Nat
    BY LenProperties DEF LogTypes
  <2>2. /\ b \in Seq(Log!Event) /\ Len(b) = Len(buffer) + 1 /\ b[Len(buffer) + 1] = e
        /\ \A i \in 1..Len(buffer) : b[i] = buffer[i]
    BY <1>4, <2>1, AppendProperties
  <2>3. \A i \in 1..Len(b) : i \in 1..Len(buffer) \/ i = Len(buffer) + 1
    BY <2>1, <2>2
  <2> QED  BY <2>1, <2>2, <2>3
<1>6. PICK aged \in 0..Len(buffer) : buffer' = Log!Prune(b, aged)
  BY <1>3, <1>4
<1>7. aged \in 0..Len(b)
  BY <1>5
<1>8. /\ buffer' \in Seq(Log!Event)
      /\ \A i \in 1..Len(buffer') : \E j \in 1..Len(b) : buffer'[i] = b[j]
  BY <1>5, <1>6, <1>7, PruneTyped
<1>9. \A i \in 1..Len(b) : OnRecord(b[i], recorded')
  BY <1>1, <1>2, <1>5 DEF LogTypes
<1>10. \A i \in 1..Len(buffer') : OnRecord(buffer'[i], recorded')
  BY <1>8, <1>9
<1>11. subscribers[w] \subseteq Sessions
  BY DEF LogTypes
<1>12. /\ calling' \subseteq Log!Call
       /\ \A c \in calling' : OnRecord(c.event, recorded')
  BY <1>1, <1>2, <1>3, <1>11 DEF LogTypes, Log!Call
<1>13. seq' \in Nat /\ seq' <= MaxSeq
  BY <1>2, DeliveryAssumption DEF LogTypes
<1> QED  BY <1>2, <1>3, <1>8, <1>10, <1>12, <1>13 DEF LogTypes

LEMMA CallTypes ==
  ASSUME LogTypes, NEW c \in calling, Log!CallSubscriber(c)
  PROVE  LogTypes'
BY DEF LogTypes, Log!CallSubscriber

LEMMA AttachTypes ==
  ASSUME LogTypes, NEW s \in Sessions, NEW w \in Wires, Log!Subscribe(s, w) \/ Log!Unsubscribe(s, w)
  PROVE  LogTypes'
<1>1. UNCHANGED <<buffer, seq, logClosed, calling, recorded>>
  BY DEF Log!Subscribe, Log!Unsubscribe
<1>2. retained' \subseteq Wires
  BY DEF Log!Subscribe, Log!Unsubscribe, LogTypes
<1>3. subscribers' \in [Wires -> SUBSET Sessions]
  BY DEF Log!Subscribe, Log!Unsubscribe, LogTypes
<1> QED  BY <1>1, <1>2, <1>3 DEF LogTypes

LEMMA LogRests ==
  ASSUME LogTypes, UNCHANGED logVars
  PROVE  LogTypes'
BY DEF LogTypes, logVars

-----------------------------------------------------------------------------
(* The types of the session, of the client and of what is remembered of them. *)

LEMMA SessionRests ==
  ASSUME SessionTypes, UNCHANGED <<phase, resume, count, task, frames>>
  PROVE  SessionTypes'
BY DEF SessionTypes

LEMMA ClientRests ==
  ASSUME ClientTypes, UNCHANGED clientVars
  PROVE  ClientTypes'
BY DEF ClientTypes, clientVars

LEMMA HistoryRests ==
  ASSUME HistoryTypes, UNCHANGED history, UNCHANGED <<seq, recorded, task>>
  PROVE  HistoryTypes'
BY DEF HistoryTypes, history

\* A session's task goes on.
LEMMA TaskTyped ==
  ASSUME SessionTypes, HistoryTypes, NEW s \in Sessions, NEW x \in GoodTask,
         \A e \in x.backlog : OnRecord(e, recorded), task' = [task EXCEPT ![s] = x]
  PROVE  /\ task' \in [Sessions -> GoodTask]
         /\ \A r \in Sessions : \A e \in task'[r].backlog : OnRecord(e, recorded)
BY DEF SessionTypes, HistoryTypes

LEMMA IdleTyped == Idle \in GoodTask /\ Idle.backlog = {}
BY EmptySeq DEF Idle, Task, GoodTask

LEMMA TaskParts ==
  ASSUME SessionTypes, HistoryTypes, NEW s \in Sessions
  PROVE  /\ task[s] \in GoodTask /\ task[s].rest \in Seq(Wires) /\ task[s].backlog \subseteq Log!Event
         /\ task[s].at \in {"attach", "backlog"} => task[s].rest # <<>>
         /\ task[s].rest # <<>> => Head(task[s].rest) \in Wires /\ Tail(task[s].rest) \in Seq(Wires)
         /\ \A e \in task[s].backlog : OnRecord(e, recorded)
<1>1. /\ task[s] \in GoodTask /\ task[s].rest \in Seq(Wires) /\ task[s].backlog \subseteq Log!Event
      /\ task[s].at \in {"attach", "backlog"} => task[s].rest # <<>>
  BY DEF SessionTypes, GoodTask, Task
<1> QED  BY <1>1, HeadTailProperties DEF HistoryTypes

\* A task goes on to take the wires `rest`, with nothing in the backlog.
LEMMA GotoTyped ==
  ASSUME SessionTypes, HistoryTypes, NEW s \in Sessions, NEW at \in {"idle", "subscribe", "attach", "backlog"},
         NEW rest \in Seq(Wires), at \in {"attach", "backlog"} => rest # <<>>,
         NEW backlog \in SUBSET Log!Event,
         \A e \in backlog : OnRecord(e, recorded),
         task' = [task EXCEPT ![s] = [at |-> at, rest |-> rest, backlog |-> backlog]]
  PROVE  /\ task' \in [Sessions -> GoodTask]
         /\ \A r \in Sessions : \A e \in task'[r].backlog : OnRecord(e, recorded)
<1> DEFINE x == [at |-> at, rest |-> rest, backlog |-> backlog]
<1>1. x \in GoodTask /\ x.backlog = backlog
  BY DEF Task, GoodTask
<1> HIDE DEF x
<1>2. task' = [task EXCEPT ![s] = x]
  BY DEF x
<1> QED  BY <1>1, <1>2, TaskTyped

LEMMA GotoPlain ==
  ASSUME SessionTypes, HistoryTypes, NEW s \in Sessions, NEW rest \in Seq(Wires),
         \/ task' = [task EXCEPT ![s] = [at |-> "subscribe", rest |-> rest, backlog |-> {}]]
         \/ /\ task' = [task EXCEPT ![s] = [at |-> "attach", rest |-> rest, backlog |-> {}]]
            /\ rest # <<>>
  PROVE  /\ task' \in [Sessions -> GoodTask]
         /\ \A r \in Sessions : \A e \in task'[r].backlog : OnRecord(e, recorded)
<1>0. PICK none : none = {}
  OBVIOUS
<1>1. none = {} /\ none \in SUBSET Log!Event /\ \A e \in none : OnRecord(e, recorded)
  BY <1>0
<1>2. CASE task' = [task EXCEPT ![s] = [at |-> "subscribe", rest |-> rest, backlog |-> none]]
  BY <1>1, <1>2, GotoTyped
<1>3. CASE task' = [task EXCEPT ![s] = [at |-> "attach", rest |-> rest, backlog |-> none]] /\ rest # <<>>
  BY <1>1, <1>3, GotoTyped
<1> QED  BY <1>1, <1>2, <1>3

\* What the log replays has been recorded, on the wire it was asked for and after the given number.
LEMMA ReplayTyped ==
  ASSUME LogTypes, NEW b \in Seq(Log!Event), \A i \in 1..Len(b) : OnRecord(b[i], recorded),
         NEW last \in Nat, NEW w \in Wires
  PROVE  \A e \in Log!ReplayFrom(b, last, {w}) :
           e \in Log!Event /\ OnRecord(e, recorded) /\ e.event = w /\ e.seq > last /\ e.seq \in 1..seq
<1> SUFFICES ASSUME NEW e \in Log!ReplayFrom(b, last, {w})
             PROVE  e \in Log!Event /\ OnRecord(e, recorded) /\ e.event = w /\ e.seq > last /\ e.seq \in 1..seq
  OBVIOUS
<1>1. e.seq > last /\ e.event = w /\ \E i \in 1..Len(b) : e = b[i]
  BY DEF Log!ReplayFrom
<1>2. OnRecord(e, recorded)
  BY <1>1
<1>3. e \in Log!Event /\ e.seq <= seq
  BY <1>2 DEF OnRecord, LogTypes
<1>4. e.seq \in Nat \ {0}
  BY <1>3 DEF Log!Event
<1> QED  BY <1>1, <1>2, <1>3, <1>4 DEF LogTypes

LEMMA EmitActionTypes ==
  ASSUME Types, NEW t \in Emitters, NEW w \in Wires, Emit(t, w)
  PROVE  Types'
<1>1. /\ Log!Emit(t, w)
      /\ owed' = [s \in Sessions |-> owed[s] \cup (IF s \in subscribers[w] THEN {seq'} ELSE {})]
      /\ UNCHANGED <<pumpVars, phase, resume, count, task, frames, clientVars, caught, detached, refused>>
  BY DEF Emit
<1>2. LogTypes'
  BY <1>1, EmitTypes DEF Types
<1>3. seq' = seq + 1 /\ seq \in Nat /\ \A e : OnRecord(e, recorded) => OnRecord(e, recorded')
  BY <1>1, EmitRecords DEF Types, LogTypes
<1>4. HistoryTypes'
  <2>1. owed' \in [Sessions -> SUBSET (1..seq')] /\ caught' \in [Sessions -> SUBSET (1..seq')]
    <3>1. 1..seq \subseteq 1..seq' /\ seq' \in 1..seq'
      BY <1>3
    <3> QED  BY <1>1, <3>1 DEF Types, HistoryTypes
  <2> QED  BY <1>1, <1>3, <2>1 DEF Types, HistoryTypes
<1>5. PumpTypes' /\ SessionTypes' /\ ClientTypes'
  BY <1>1, PumpRests, SessionRests, ClientRests DEF Types
<1> QED  BY <1>2, <1>4, <1>5 DEF Types

\* The steps that leave the session, the client and the histories alone.
LEMMA EngineStepTypes ==
  ASSUME Types, (\E w \in Wires : OthersSubscribe(w)) \/ (\E c \in calling : Deliver(c)) \/ PumpStep
  PROVE  Types'
<1>1. UNCHANGED <<phase, resume, count, task, frames, clientVars, history, seq, recorded>>
  BY DEF OthersSubscribe, Deliver, PumpStep, Log!CallSubscriber, logVars
<1>2. SessionTypes' /\ ClientTypes' /\ HistoryTypes'
  BY <1>1, SessionRests, ClientRests, HistoryRests DEF Types
<1>3. ASSUME NEW w \in Wires, OthersSubscribe(w) PROVE LogTypes' /\ PumpTypes'
  <2>1. LogTypes'
    BY <1>3 DEF OthersSubscribe, Types, LogTypes
  <2>2. PumpTypes'
    BY <1>3, PumpRests DEF OthersSubscribe, Types
  <2> QED  BY <2>1, <2>2
<1>4. ASSUME NEW c \in calling, Deliver(c) PROVE LogTypes' /\ PumpTypes'
  <2>1. c.by \in Callers /\ c.to \in Sessions /\ c.event.seq \in Pump!Number
    BY DEF Types, LogTypes, Log!Call, Log!Event, Callers, Pump!Number
  <2>2. LogTypes'
    BY <1>4, CallTypes DEF Deliver, Types
  <2>3. PumpTypes'
    BY <1>4, <2>1, PushTypes DEF Deliver, Push, Types
  <2> QED  BY <2>2, <2>3
<1>5. ASSUME PumpStep PROVE LogTypes' /\ PumpTypes'
  BY <1>5, LogRests, PumpStepTypes DEF PumpStep, Types
<1> QED  BY <1>2, <1>3, <1>4, <1>5 DEF Types

LEMMA HelloTypes ==
  ASSUME Types, NEW s \in Sessions, NEW last \in -1..MaxSeq, Hello(s, last)
  PROVE  Types'
<1>1. /\ last \in {None} \cup (IF lastSeen = 0 THEN {} ELSE {lastSeen})
      /\ IF last = None THEN UNCHANGED logVars ELSE Log!PruneForReplay
      /\ resume' = [resume EXCEPT ![s] = IF last # None /\ Log!CanReplay(buffer', seq, last)
                                         THEN last ELSE None]
      /\ phase' = [phase EXCEPT ![s] = "open"]
      /\ UNCHANGED <<pumpVars, count, task, frames, clientVars, history>>
  BY DEF Hello
<1>2. LogTypes' /\ UNCHANGED <<seq, recorded>>
  BY <1>1, LogRests, PruneTypes DEF Types, Log!PruneForReplay, logVars
<1>3. last \in Nat \cup {None}
  BY <1>1 DEF Types, ClientTypes
<1>4. SessionTypes'
  BY <1>1, <1>3 DEF Types, SessionTypes
<1>5. PumpTypes' /\ ClientTypes' /\ HistoryTypes'
  BY <1>1, <1>2, PumpRests, ClientRests, HistoryRests DEF Types
<1> QED  BY <1>2, <1>4, <1>5 DEF Types

\* The steps of a subscribe that leave the log and the pump alone.
LEMMA SubscribePlainTypes ==
  ASSUME Types, NEW s \in Sessions,
         \/ \E wires \in Requests : SubscribeFrame(s, wires)
         \/ SubscribeAgain(s) \/ SubscribeFresh(s) \/ SubscribeInsert(s) \/ SubscribeAnswer(s)
  PROVE  Types'
<1>1. UNCHANGED <<logVars, pumpVars, phase, resume, clientVars, history>>
  BY DEF SubscribeFrame, SubscribeAgain, SubscribeFresh, SubscribeInsert, SubscribeAnswer
<1>2. /\ task[s].rest \in Seq(Wires)
      /\ task[s].rest # <<>> => Head(task[s].rest) \in Wires /\ Tail(task[s].rest) \in Seq(Wires)
  BY TaskParts DEF Types
<1>3. /\ task' \in [Sessions -> GoodTask]
      /\ \A r \in Sessions : \A e \in task'[r].backlog : OnRecord(e, recorded)
  <2>1. ASSUME NEW wires \in Requests, SubscribeFrame(s, wires)
        PROVE  /\ task' \in [Sessions -> GoodTask]
               /\ \A r \in Sessions : \A e \in task'[r].backlog : OnRecord(e, recorded)
    <3>1. wires \in Seq(Wires)
      BY DeliveryAssumption
    <3> QED  BY <2>1, <3>1, GotoPlain DEF SubscribeFrame, Types
  <2>2. CASE SubscribeAgain(s) \/ SubscribeFresh(s)
    BY <1>2, <2>2, GotoPlain DEF SubscribeAgain, SubscribeFresh, Goto, Types
  <2>3. CASE SubscribeInsert(s)
    <3>1. task' = [task EXCEPT ![s] = [at |-> "subscribe", rest |-> Tail(task[s].rest), backlog |-> {}]]
      BY <2>3 DEF SubscribeInsert, Goto
    <3>2. Tail(task[s].rest) \in Seq(Wires)
      BY <1>2, <2>3, TaskParts DEF SubscribeInsert, Types
    <3> QED  BY <3>1, <3>2, GotoPlain DEF Types
  <2>4. CASE SubscribeAnswer(s)
    BY <2>4, IdleTyped, TaskTyped DEF SubscribeAnswer, Types
  <2> QED  BY <2>1, <2>2, <2>3, <2>4
<1>4. frames' \in [Sessions -> 0..MaxFrames]
  BY DeliveryAssumption DEF SubscribeFrame, SubscribeAgain, SubscribeFresh, SubscribeInsert, SubscribeAnswer, Types, SessionTypes
<1>5. count' \in [Sessions -> [Wires -> Nat]]
  <2>1. CASE SubscribeAgain(s)
    <3>1. Head(task[s].rest) \in Wires /\ count' = [count EXCEPT ![s][Head(task[s].rest)] = @ + 1]
      BY <1>2, <2>1 DEF SubscribeAgain
    <3> QED  BY <3>1 DEF Types, SessionTypes
  <2>2. CASE SubscribeInsert(s)
    BY <2>2 DEF SubscribeInsert, Types, SessionTypes
  <2>3. CASE UNCHANGED count
    BY <2>3 DEF Types, SessionTypes
  <2> QED  BY <2>1, <2>2, <2>3 DEF SubscribeFrame, SubscribeFresh, SubscribeAnswer
<1>6. SessionTypes' /\ HistoryTypes'
  BY <1>1, <1>3, <1>4, <1>5 DEF Types, SessionTypes, HistoryTypes, history, logVars
<1> QED  BY <1>1, <1>6, LogRests, PumpRests, ClientRests DEF Types

LEMMA SubscribeReplayTypes ==
  ASSUME Types, NEW s \in Sessions, SubscribeReplay(s)
  PROVE  Types'
<1>1. /\ task[s].rest # <<>> /\ resume[s] # None /\ Log!PruneForReplay
      /\ UNCHANGED <<pumpVars, phase, resume, count, frames, clientVars, owed, detached>>
  BY DEF SubscribeReplay
<1>2. LogTypes' /\ UNCHANGED <<seq, recorded>>
  BY <1>1, PruneTypes DEF Types, Log!PruneForReplay
<1>3. resume[s] \in Nat /\ Head(task[s].rest) \in Wires
  BY <1>1, TaskParts DEF Types, SessionTypes
<1> DEFINE backlog == Log!ReplayFrom(buffer', resume[s], {Head(task[s].rest)})
<1>4. \A e \in backlog : e \in Log!Event /\ OnRecord(e, recorded) /\ e.seq \in 1..seq
  <2>1. buffer' \in Seq(Log!Event) /\ \A i \in 1..Len(buffer') : OnRecord(buffer'[i], recorded)
    BY <1>2 DEF LogTypes
  <2> QED  BY <1>3, <2>1, ReplayTyped DEF Types
<1>5. \/ /\ Goto(s, "attach", task[s].rest, backlog)
         /\ caught' = [caught EXCEPT ![s] = @ \cup {e.seq : e \in backlog}]
         /\ UNCHANGED refused
      \/ task' = [task EXCEPT ![s] = Idle] /\ refused' = refused \cup {s} /\ UNCHANGED caught
  BY DEF SubscribeReplay
<1> HIDE DEF backlog
<1>6. /\ task' \in [Sessions -> GoodTask]
      /\ \A r \in Sessions : \A e \in task'[r].backlog : OnRecord(e, recorded)
  <2>1. CASE Goto(s, "attach", task[s].rest, backlog)
    BY <1>1, <1>4, <2>1, TaskParts, GotoTyped DEF Goto, Types
  <2>2. CASE task' = [task EXCEPT ![s] = Idle]
    BY <2>2, IdleTyped, TaskTyped DEF Types
  <2> QED  BY <1>5, <2>1, <2>2
<1>7. caught' \in [Sessions -> SUBSET (1..seq)] /\ refused' \subseteq Sessions
  BY <1>4, <1>5 DEF Types, HistoryTypes
<1>8. SessionTypes' /\ HistoryTypes'
  BY <1>1, <1>2, <1>6, <1>7 DEF Types, SessionTypes, HistoryTypes
<1> QED  BY <1>1, <1>2, <1>8, PumpRests, ClientRests DEF Types

LEMMA SubscribeAttachTypes ==
  ASSUME Types, NEW s \in Sessions, SubscribeAttach(s)
  PROVE  Types'
<1>1. /\ task[s].at = "attach" /\ Log!Subscribe(s, Head(task[s].rest))
      /\ task' = [task EXCEPT ![s] = [at |-> "backlog", rest |-> task[s].rest, backlog |-> task[s].backlog]]
      /\ UNCHANGED <<pumpVars, phase, resume, count, frames, clientVars, history>>
  BY DEF SubscribeAttach, Goto
<1>2. /\ Head(task[s].rest) \in Wires /\ task[s].rest # <<>> /\ task[s].rest \in Seq(Wires)
      /\ task[s].backlog \in SUBSET Log!Event /\ \A e \in task[s].backlog : OnRecord(e, recorded)
  BY <1>1, TaskParts DEF Types
<1>3. LogTypes' /\ UNCHANGED <<seq, recorded>>
  BY <1>1, <1>2, AttachTypes DEF Types, Log!Subscribe
<1>4. /\ task' \in [Sessions -> GoodTask]
      /\ \A r \in Sessions : \A e \in task'[r].backlog : OnRecord(e, recorded)
  BY <1>1, <1>2, GotoTyped DEF Types
<1>5. SessionTypes' /\ HistoryTypes'
  BY <1>1, <1>3, <1>4 DEF Types, SessionTypes, HistoryTypes, history
<1> QED  BY <1>1, <1>3, <1>5, PumpRests, ClientRests DEF Types

LEMMA SubscribeBacklogTypes ==
  ASSUME Types, NEW s \in Sessions, SubscribeBacklog(s)
  PROVE  Types'
<1>1. PICK e \in task[s].backlog : Push(s, s, e) /\ Goto(s, "backlog", task[s].rest, task[s].backlog \ {e})
  BY DEF SubscribeBacklog
<1>2. /\ task[s].at = "backlog"
      /\ UNCHANGED <<logVars, phase, resume, count, frames, clientVars, history>>
  BY DEF SubscribeBacklog
<1>3. /\ task[s].rest # <<>> /\ task[s].rest \in Seq(Wires)
      /\ task[s].backlog \in SUBSET Log!Event /\ \A d \in task[s].backlog : OnRecord(d, recorded)
  BY <1>2, TaskParts DEF Types
<1>4. /\ task' \in [Sessions -> GoodTask]
      /\ \A r \in Sessions : \A d \in task'[r].backlog : OnRecord(d, recorded)
  <2>1. PICK b : b = task[s].backlog \ {e}
    OBVIOUS
  <2>2. b \in SUBSET Log!Event /\ \A d \in b : OnRecord(d, recorded)
    BY <1>3, <2>1
  <2>3. task' = [task EXCEPT ![s] = [at |-> "backlog", rest |-> task[s].rest, backlog |-> b]]
    BY <1>1, <2>1 DEF Goto
  <2> QED  BY <1>3, <2>2, <2>3, GotoTyped DEF Types
<1>5. PumpTypes'
  <2>1. e.seq \in Pump!Number /\ s \in Callers
    BY <1>3 DEF Log!Event, Pump!Number, Callers
  <2> QED  BY <1>1, <2>1, PushTypes DEF Push, Types
<1>6. SessionTypes' /\ HistoryTypes'
  BY <1>2, <1>4 DEF Types, SessionTypes, HistoryTypes, history, logVars
<1> QED  BY <1>2, <1>5, <1>6, LogRests, ClientRests DEF Types

LEMMA UnsubscribeTypes ==
  ASSUME Types, NEW s \in Sessions, NEW w \in Wires, UnsubscribeFrame(s, w)
  PROVE  Types'
<1>1. /\ frames[s] < MaxFrames /\ frames' = [frames EXCEPT ![s] = @ + 1]
      /\ count[s][w] > 0 /\ count' = [count EXCEPT ![s][w] = @ - 1]
      /\ \/ Log!Unsubscribe(s, w) /\ detached' = [detached EXCEPT ![s] = @ \cup {w}]
         \/ UNCHANGED <<logVars, detached>>
      /\ UNCHANGED <<pumpVars, phase, resume, task, clientVars, owed, caught, refused>>
  BY DEF UnsubscribeFrame, Holds
<1>2. LogTypes' /\ UNCHANGED <<seq, recorded>>
  <2>1. CASE Log!Unsubscribe(s, w)
    BY <2>1, AttachTypes DEF Types, Log!Unsubscribe
  <2>2. CASE UNCHANGED logVars
    BY <2>2, LogRests DEF Types, logVars
  <2> QED  BY <1>1, <2>1, <2>2
<1>3. detached' \in [Sessions -> SUBSET Wires]
  BY <1>1 DEF Types, HistoryTypes
<1>4. frames' \in [Sessions -> 0..MaxFrames] /\ count' \in [Sessions -> [Wires -> Nat]]
  <2>1. frames' \in [Sessions -> 0..MaxFrames]
    BY <1>1, DeliveryAssumption DEF Types, SessionTypes
  <2>2. count' \in [Sessions -> [Wires -> Nat]]
    BY <1>1 DEF Types, SessionTypes
  <2> QED  BY <2>1, <2>2
<1>5. SessionTypes' /\ HistoryTypes'
  BY <1>1, <1>2, <1>3, <1>4 DEF Types, SessionTypes, HistoryTypes
<1> QED  BY <1>1, <1>2, <1>5, PumpRests, ClientRests DEF Types

LEMMA ClientReadsTypes ==
  ASSUME Types, NEW s \in Sessions, ClientReads(s)
  PROVE  Types'
<1> DEFINE f == Head(out[s])
<1>1. /\ out[s] # <<>> /\ out' = [out EXCEPT ![s] = Tail(@)]
      /\ \/ UNCHANGED <<lastSeen, lastFrom>>
         \/ lastSeen' = f.seq /\ lastFrom' = engine
      /\ got' = [got EXCEPT ![s] =
                   [n \in 1..MaxSeq |-> @[n] + Cardinality({i \in DOMAIN f.entries : f.entries[i] = n})]]
      /\ UNCHANGED <<pending, pendingSeq, generation, timerArmed, pumpClosed, timers, unsent, timerUnsent>>
      /\ UNCHANGED <<logVars, phase, resume, count, task, frames, engine, history>>
  BY DEF ClientReads
<1>2. f \in Pump!Frame /\ Tail(out[s]) \in Seq(Pump!Frame)
  BY <1>1, HeadTailProperties DEF Types, PumpTypes
<1> HIDE DEF f
<1>3. PumpTypes'
  BY <1>1, <1>2 DEF Types, PumpTypes
<1>4. \A n : Cardinality({i \in DOMAIN f.entries : f.entries[i] = n}) \in Nat
  <2>1. f.entries \in Seq(Pump!Number)
    BY <1>2 DEF Pump!Frame
  <2>2. DOMAIN f.entries = 1..Len(f.entries) /\ Len(f.entries) \in Nat
    BY <2>1, LenProperties
  <2>3. IsFiniteSet(DOMAIN f.entries)
    BY <2>2, FS_Interval
  <2> QED  BY <2>3, FS_Subset, FS_CardinalityType
<1>5. ClientTypes'
  <2>1. lastSeen' \in Nat /\ lastFrom' \in 1..MaxEngines /\ engine' \in 1..MaxEngines
    BY <1>1, <1>2 DEF Types, ClientTypes, Pump!Frame, Pump!Number
  <2>2. got' \in [Sessions -> [1..MaxSeq -> Nat]]
    <3>1. got \in [Sessions -> [1..MaxSeq -> Nat]]
      BY DEF Types, ClientTypes
    <3> DEFINE times(n) == Cardinality({i \in DOMAIN f.entries : f.entries[i] = n})
               new == [n \in 1..MaxSeq |-> got[s][n] + times(n)]
    <3>2. new \in [1..MaxSeq -> Nat]
      <4>1. \A n \in 1..MaxSeq : got[s][n] \in Nat /\ times(n) \in Nat
        BY <1>4, <3>1
      <4> HIDE DEF times
      <4> QED  BY <4>1
    <3>3. got' = [got EXCEPT ![s] = new]
      BY <1>1
    <3> HIDE DEF new
    <3> QED  BY <3>1, <3>2, <3>3
  <2> QED  BY <2>1, <2>2 DEF ClientTypes
<1>6. LogTypes' /\ SessionTypes' /\ HistoryTypes'
  BY <1>1, LogRests, SessionRests, HistoryRests DEF Types, logVars
<1> QED  BY <1>3, <1>5, <1>6 DEF Types

\* The steps that end a session.
LEMMA EndTypes ==
  ASSUME Types, NEW s \in Sessions, Disconnect(s) \/ CloseStep(s)
  PROVE  Types'
<1>1. UNCHANGED <<resume, task, frames, clientVars, history, seq, recorded>>
  BY DEF Disconnect, CloseStep, CloseDetach, CloseSessionPump, Log!Unsubscribe, logVars
<1>2. CASE Disconnect(s)
  <2>1. SessionTypes'
    BY <1>2 DEF Disconnect, Types, SessionTypes
  <2> QED  BY <1>1, <1>2, <2>1, LogRests, PumpRests, ClientRests, HistoryRests DEF Disconnect, Types
<1>3. ASSUME NEW w \in Wires, CloseDetach(s, w) PROVE Types'
  <2>1. Log!Unsubscribe(s, w) /\ count' = [count EXCEPT ![s][w] = 0] /\ UNCHANGED <<pumpVars, phase>>
    BY <1>3 DEF CloseDetach
  <2>2. LogTypes'
    BY <2>1, AttachTypes DEF Types
  <2>3. count' \in [Sessions -> [Wires -> Nat]]
    BY <2>1 DEF Types, SessionTypes
  <2>4. SessionTypes'
    BY <1>1, <2>1, <2>3 DEF Types, SessionTypes
  <2> QED  BY <1>1, <2>1, <2>2, <2>4, PumpRests, ClientRests, HistoryRests DEF Types
<1>4. CASE CloseSessionPump(s)
  <2>1. Pump!ClosePump(s, s) /\ phase' = [phase EXCEPT ![s] = "closed"] /\ UNCHANGED <<logVars, count>>
    BY <1>4 DEF CloseSessionPump
  <2>2. SessionTypes'
    BY <1>1, <2>1 DEF Types, SessionTypes
  <2> QED  BY <1>1, <2>1, <2>2, LogRests, ClosePumpTypes, ClientRests, HistoryRests DEF Types
<1> QED  BY <1>2, <1>3, <1>4 DEF CloseStep

LEMMA RestartTypes ==
  ASSUME Types, Restart
  PROVE  Types'
<1>1. LogTypes'
  <2>1. /\ buffer' = <<>> /\ seq' = 0 /\ logClosed' = FALSE /\ retained' = {} /\ calling' = {} /\ recorded' = <<>>
        /\ subscribers' = [w \in Wires |-> {}] /\ Len(<<>>) = 0 /\ MaxSeq \in Nat
    BY EmptySeq, DeliveryAssumption DEF Restart, Log!NewLog
  <2>2. <<>> \in Seq(Wires) /\ <<>> \in Seq(Log!Event)
    OBVIOUS
  <2>3. \A i \in 1..Len(buffer') : OnRecord(buffer'[i], recorded')
    BY <2>1
  <2>4. subscribers' \in [Wires -> SUBSET Sessions] /\ calling' \subseteq Log!Call
    BY <2>1
  <2>5. /\ buffer' \in Seq(Log!Event) /\ recorded' \in Seq(Wires) /\ Len(recorded') = seq'
        /\ seq' \in Nat /\ seq' <= MaxSeq
    BY <2>1, <2>2
  <2>6. logClosed' \in BOOLEAN /\ retained' \subseteq Wires /\ \A c \in calling' : OnRecord(c.event, recorded')
    BY <2>1
  <2> QED  BY <2>3, <2>4, <2>5, <2>6 DEF LogTypes
<1>2. PumpTypes'
  BY EmptySeq DEF Restart, Pump!NewPumps, PumpTypes, Callers
<1>3. SessionTypes'
  <2>1. task' \in [Sessions -> GoodTask]
    BY IdleTyped DEF Restart
  <2>2. count' \in [Sessions -> [Wires -> Nat]] /\ UNCHANGED <<resume, frames>>
    BY DEF Restart
  <2>3. phase' \in [Sessions -> {"new", "open", "closing", "closed"}]
    BY DEF Restart
  <2> QED  BY <2>1, <2>2, <2>3 DEF Types, SessionTypes
<1>4. ClientTypes'
  <2>1. engine' \in 1..MaxEngines /\ UNCHANGED <<lastSeen, lastFrom>>
    BY DeliveryAssumption DEF Restart, Types, ClientTypes
  <2>2. got' \in [Sessions -> [1..MaxSeq -> Nat]]
    BY DEF Restart
  <2> QED  BY <2>1, <2>2 DEF Types, ClientTypes
<1>5. HistoryTypes'
  BY IdleTyped DEF Restart, HistoryTypes
<1> QED  BY <1>1, <1>2, <1>3, <1>4, <1>5 DEF Types

LEMMA NextTypes == Types /\ [Next]_vars => Types'
<1> SUFFICES ASSUME Types, [Next]_vars PROVE Types'
  OBVIOUS
<1>1. CASE \E t \in Emitters, w \in Wires : Emit(t, w)
  BY <1>1, EmitActionTypes
<1>2. CASE (\E w \in Wires : OthersSubscribe(w)) \/ (\E c \in calling : Deliver(c)) \/ PumpStep
  BY <1>2, EngineStepTypes
<1>3. CASE \E s \in Sessions, last \in -1..MaxSeq : Hello(s, last)
  BY <1>3, HelloTypes
<1>4. CASE \E s \in Sessions, wires \in Requests : SubscribeFrame(s, wires)
  BY <1>4, SubscribePlainTypes
<1>5. ASSUME NEW s \in Sessions, SubscribeStep(s) PROVE Types'
  BY <1>5, SubscribePlainTypes, SubscribeReplayTypes, SubscribeAttachTypes, SubscribeBacklogTypes
     DEF SubscribeStep
<1>6. CASE \E s \in Sessions, w \in Wires : UnsubscribeFrame(s, w)
  BY <1>6, UnsubscribeTypes
<1>7. CASE \E s \in Sessions : ClientReads(s)
  BY <1>7, ClientReadsTypes
<1>8. CASE \E s \in Sessions : CloseStep(s) \/ Disconnect(s)
  BY <1>8, EndTypes
<1>9. CASE Restart
  BY <1>9, RestartTypes
<1>10. CASE UNCHANGED vars
  BY <1>10, LogRests, PumpRests, SessionRests, ClientRests, HistoryRests DEF vars, logVars, Types
<1> QED  BY <1>1, <1>2, <1>3, <1>4, <1>5, <1>6, <1>7, <1>8, <1>9, <1>10 DEF Next

LEMMA TypesImply == Types => TypeOK
<1> SUFFICES ASSUME Types PROVE TypeOK
  OBVIOUS
<1>1. 1..seq \subseteq 1..MaxSeq
  BY DeliveryAssumption DEF Types, LogTypes
<1>2. owed \in [Sessions -> SUBSET (1..MaxSeq)] /\ caught \in [Sessions -> SUBSET (1..MaxSeq)]
  BY <1>1 DEF Types, HistoryTypes
<1>3. task \in [Sessions -> Task]
  BY DEF Types, SessionTypes, GoodTask
<1> QED  BY <1>2, <1>3 DEF Types, LogTypes, PumpTypes, SessionTypes, ClientTypes, HistoryTypes, TypeOK, Callers

\* The variables of the joined model keep their types, through reconnects, unsubscribes and restarts of the
\* engine; in particular whatever a session is owed or caught up with is the number of an event recorded.
THEOREM TypeCorrect == Spec => []TypeOK
<1> QED  BY InitTypes, NextTypes, TypesImply, PTL DEF Spec

-----------------------------------------------------------------------------
(***************************************************************************)
(* The table of a session and the log.  TableMatchesLog is not inductive:  *)
(* it needs that a wire being attached is in nobody's count, that only an  *)
(* open session has a subscribe under way, and that a session which has    *)
(* not begun or is over holds nothing.                                     *)
(***************************************************************************)
Attaching(s) == task[s].at \in {"attach", "backlog"}

Attached(s, w) == count[s][w] > 0 \/ (task[s].at = "backlog" /\ Head(task[s].rest) = w)

SessionTable(s) ==
  /\ \A w \in Wires : s \in subscribers[w] <=> Attached(s, w)
  /\ phase[s] # "open" => task[s] = Idle
  /\ phase[s] \in {"new", "closed"} => \A w \in Wires : count[s][w] = 0
  /\ Attaching(s) => count[s][Head(task[s].rest)] = 0
  /\ ~Attaching(s) => task[s].backlog = {}

Table == \A s \in Sessions : SessionTable(s)

LEMMA InitTable == Init => Table
BY DEF Init, Log!LogInit, Table, SessionTable, Attached, Attaching, Idle

\* Only session s is touched.
LEMMA TableOfOne ==
  ASSUME Table, NEW s \in Sessions, SessionTable(s)',
         \A r \in Sessions \ {s} :
           /\ phase'[r] = phase[r] /\ count'[r] = count[r] /\ task'[r] = task[r]
           /\ \A w \in Wires : r \in subscribers'[w] <=> r \in subscribers[w]
  PROVE  Table'
<1>1. ASSUME NEW r \in Sessions \ {s} PROVE SessionTable(r)'
  BY <1>1 DEF Table, SessionTable, Attached, Attaching
<1> QED  BY <1>1 DEF Table

LEMMA TableRests ==
  ASSUME Table, UNCHANGED <<subscribers, phase, count, task>>
  PROVE  Table'
BY DEF Table, SessionTable, Attached, Attaching

\* The steps of threads, timers and the client's reading.
LEMMA QuietTable ==
  ASSUME Table,
         \/ \E t \in Emitters, w \in Wires : Emit(t, w)
         \/ \E w \in Wires : OthersSubscribe(w)
         \/ \E c \in calling : Deliver(c)
         \/ PumpStep
         \/ \E s \in Sessions : ClientReads(s)
  PROVE  Table'
<1>1. UNCHANGED <<subscribers, phase, count, task>>
  BY DEF Emit, Log!Emit, OthersSubscribe, Deliver, Log!CallSubscriber, PumpStep, ClientReads, logVars
<1> QED  BY <1>1, TableRests

LEMMA PhaseTable ==
  ASSUME Types, Table, NEW s \in Sessions,
         \/ \E last \in -1..MaxSeq : Hello(s, last)
         \/ Disconnect(s)
         \/ CloseSessionPump(s)
  PROVE  Table'
<1>1. UNCHANGED <<subscribers, count, task>>
  BY DEF Hello, Disconnect, CloseSessionPump, Log!PruneForReplay, logVars
<1>2. SessionTable(s)
  BY DEF Table
<1>3. CASE \E last \in -1..MaxSeq : Hello(s, last)
  <2>1. phase' = [phase EXCEPT ![s] = "open"]
    BY <1>3 DEF Hello
  <2>2. SessionTable(s)'
    BY <1>1, <1>2, <2>1 DEF Types, SessionTypes, SessionTable, Attached, Attaching
  <2> QED  BY <1>1, <2>1, <2>2, TableOfOne DEF Types, SessionTypes
<1>4. CASE Disconnect(s)
  <2>1. task[s] = Idle /\ phase' = [phase EXCEPT ![s] = "closing"]
    BY <1>4 DEF Disconnect, Ready
  <2>2. SessionTable(s)'
    BY <1>1, <1>2, <2>1 DEF Types, SessionTypes, SessionTable, Attached, Attaching
  <2> QED  BY <1>1, <2>1, <2>2, TableOfOne DEF Types, SessionTypes
<1>5. CASE CloseSessionPump(s)
  <2>1. phase[s] = "closing" /\ (\A w \in Wires : count[s][w] = 0) /\ phase' = [phase EXCEPT ![s] = "closed"]
    BY <1>5 DEF CloseSessionPump
  <2>2. SessionTable(s)'
    BY <1>1, <1>2, <2>1 DEF Types, SessionTypes, SessionTable, Attached, Attaching
  <2> QED  BY <1>1, <2>1, <2>2, TableOfOne DEF Types, SessionTypes
<1> QED  BY <1>3, <1>4, <1>5

\* A frame is begun, a wire is found subscribed or fresh or is replayed, the frame is answered.
LEMMA TakeTable ==
  ASSUME Types, Table, NEW s \in Sessions,
         \/ \E wires \in Requests : SubscribeFrame(s, wires)
         \/ SubscribeAgain(s) \/ SubscribeFresh(s) \/ SubscribeReplay(s) \/ SubscribeAnswer(s)
  PROVE  Table'
<1>1. UNCHANGED <<subscribers, phase>>
  BY DEF SubscribeFrame, SubscribeAgain, SubscribeFresh, SubscribeReplay, SubscribeAnswer,
         Log!PruneForReplay, logVars
<1>2. SessionTable(s) /\ task \in [Sessions -> GoodTask] /\ count \in [Sessions -> [Wires -> Nat]]
  BY DEF Table, Types, SessionTypes
<1>3. task[s].rest # <<>> => Head(task[s].rest) \in Wires
  BY TaskParts DEF Types
<1>4. ~Attaching(s)
  BY DEF SubscribeFrame, SubscribeAgain, SubscribeFresh, SubscribeReplay, SubscribeAnswer, Ready, Attaching, Idle
<1>5. ASSUME NEW wires \in Requests, SubscribeFrame(s, wires) PROVE Table'
  <2>1. /\ phase[s] = "open" /\ UNCHANGED count
        /\ task' = [task EXCEPT ![s] = [at |-> "subscribe", rest |-> wires, backlog |-> {}]]
    BY <1>5 DEF SubscribeFrame, Ready
  <2>2. SessionTable(s)'
    BY <1>1, <1>2, <1>4, <2>1 DEF SessionTable, Attached, Attaching
  <2> QED  BY <1>1, <1>2, <2>1, <2>2, TableOfOne
<1>6. CASE SubscribeAgain(s)
  <2> DEFINE w == Head(task[s].rest)
  <2>1. /\ w \in Wires /\ count[s][w] > 0 /\ count' = [count EXCEPT ![s][w] = @ + 1]
        /\ task' = [task EXCEPT ![s] = [at |-> "subscribe", rest |-> Tail(task[s].rest), backlog |-> {}]]
        /\ task[s].at = "subscribe"
    BY <1>3, <1>6 DEF SubscribeAgain, Holds, Goto
  <2> HIDE DEF w
  <2>2. count'[s] = [count[s] EXCEPT ![w] = @ + 1] /\ \A v \in Wires : count'[s][v] > 0 <=> count[s][v] > 0
    BY <1>2, <2>1
  <2>3. phase[s] = "open"
    BY <1>2, <2>1 DEF SessionTable, Idle
  <2>4. SessionTable(s)'
    BY <1>1, <1>2, <2>1, <2>2, <2>3 DEF SessionTable, Attached, Attaching
  <2> QED  BY <1>1, <1>2, <2>1, <2>4, TableOfOne
<1>7. CASE SubscribeFresh(s) \/ SubscribeReplay(s)
  <2>1. /\ task[s].at = "subscribe" /\ count[s][Head(task[s].rest)] = 0 /\ UNCHANGED count
        /\ \/ \E b : task' = [task EXCEPT ![s] = [at |-> "attach", rest |-> task[s].rest, backlog |-> b]]
           \/ task' = [task EXCEPT ![s] = Idle]
    BY <1>7 DEF SubscribeFresh, SubscribeReplay, Unattached, Goto
  <2>2. phase[s] = "open"
    BY <1>2, <2>1 DEF SessionTable, Idle
  <2>3. SessionTable(s)'
    BY <1>1, <1>2, <2>1, <2>2 DEF SessionTable, Attached, Attaching, Idle
  <2> QED  BY <1>1, <1>2, <2>1, <2>3, TableOfOne
<1>8. CASE SubscribeAnswer(s)
  <2>1. task' = [task EXCEPT ![s] = Idle] /\ UNCHANGED count
    BY <1>8 DEF SubscribeAnswer
  <2>2. SessionTable(s)'
    BY <1>1, <1>2, <1>4, <2>1 DEF SessionTable, Attached, Attaching, Idle
  <2> QED  BY <1>1, <1>2, <2>1, <2>2, TableOfOne
<1> QED  BY <1>5, <1>6, <1>7, <1>8

\* The wire is attached in the log, its backlog is pushed, and it is entered in the table.
LEMMA AttachTable ==
  ASSUME Types, Table, NEW s \in Sessions, SubscribeAttach(s) \/ SubscribeBacklog(s) \/ SubscribeInsert(s)
  PROVE  Table'
<1>1. UNCHANGED phase /\ Attaching(s)
  BY DEF SubscribeAttach, SubscribeBacklog, SubscribeInsert, Attaching
<1>2. /\ SessionTable(s) /\ task \in [Sessions -> GoodTask] /\ count \in [Sessions -> [Wires -> Nat]]
      /\ subscribers \in [Wires -> SUBSET Sessions]
  BY DEF Table, Types, SessionTypes, LogTypes
<1>3. Head(task[s].rest) \in Wires /\ phase[s] = "open" /\ count[s][Head(task[s].rest)] = 0
  BY <1>1, <1>2, TaskParts DEF Types, Attaching, SessionTable, Idle
<1> DEFINE w == Head(task[s].rest)
<1>4. CASE SubscribeAttach(s)
  <2>1. /\ subscribers' = [subscribers EXCEPT ![w] = @ \cup {s}] /\ UNCHANGED count /\ task[s].at = "attach"
        /\ task' = [task EXCEPT ![s] = [at |-> "backlog", rest |-> task[s].rest, backlog |-> task[s].backlog]]
    BY <1>4 DEF SubscribeAttach, Log!Subscribe, Goto
  <2>2. \A v \in Wires : s \in subscribers'[v] <=> (s \in subscribers[v] \/ v = w)
    BY <1>2, <1>3, <2>1
  <2>3. SessionTable(s)'
    BY <1>1, <1>2, <1>3, <2>1, <2>2 DEF SessionTable, Attached, Attaching
  <2>4. \A r \in Sessions \ {s} : \A v \in Wires : r \in subscribers'[v] <=> r \in subscribers[v]
    BY <1>2, <2>1
  <2> QED  BY <1>1, <1>2, <2>1, <2>3, <2>4, TableOfOne
<1>5. CASE SubscribeBacklog(s)
  <2>1. /\ task[s].at = "backlog" /\ UNCHANGED <<subscribers, count>>
        /\ \E b : task' = [task EXCEPT ![s] = [at |-> "backlog", rest |-> task[s].rest, backlog |-> b]]
    BY <1>5 DEF SubscribeBacklog, Goto, logVars
  <2>2. SessionTable(s)'
    BY <1>1, <1>2, <1>3, <2>1 DEF SessionTable, Attached, Attaching
  <2> QED  BY <1>1, <1>2, <2>1, <2>2, TableOfOne
<1>6. CASE SubscribeInsert(s)
  <2>1. /\ count' = [count EXCEPT ![s][w] = 1] /\ UNCHANGED subscribers /\ task[s].at = "backlog"
        /\ task' = [task EXCEPT ![s] = [at |-> "subscribe", rest |-> Tail(task[s].rest), backlog |-> {}]]
    BY <1>6 DEF SubscribeInsert, Goto, logVars
  <2>2. \A v \in Wires : count'[s][v] > 0 <=> (count[s][v] > 0 \/ v = w)
    BY <1>2, <1>3, <2>1
  <2>3. SessionTable(s)'
    BY <1>1, <1>2, <1>3, <2>1, <2>2 DEF SessionTable, Attached, Attaching
  <2> QED  BY <1>1, <1>2, <2>1, <2>3, TableOfOne
<1> QED  BY <1>4, <1>5, <1>6

\* A wire is given up, by an unsubscribe or when the connection ends.
LEMMA DetachTable ==
  ASSUME Types, Table, NEW s \in Sessions, NEW w \in Wires, UnsubscribeFrame(s, w) \/ CloseDetach(s, w)
  PROVE  Table'
<1>1. UNCHANGED <<phase, task>> /\ count[s][w] > 0
  BY DEF UnsubscribeFrame, CloseDetach, Holds
<1>2. /\ SessionTable(s) /\ count \in [Sessions -> [Wires -> Nat]] /\ subscribers \in [Wires -> SUBSET Sessions]
  BY DEF Table, Types, SessionTypes, LogTypes
<1>3. task[s] = Idle /\ phase[s] \notin {"new", "closed"}
  BY <1>1, <1>2 DEF UnsubscribeFrame, CloseDetach, Ready, SessionTable
<1>4. CASE Log!Unsubscribe(s, w) /\ count'[s][w] = 0 /\ \E k \in Nat : count' = [count EXCEPT ![s][w] = k]
  <2>1. subscribers' = [subscribers EXCEPT ![w] = @ \ {s}]
    BY <1>4 DEF Log!Unsubscribe
  <2>2. \A v \in Wires : /\ s \in subscribers'[v] <=> (s \in subscribers[v] /\ v # w)
                         /\ count'[s][v] > 0 <=> (count[s][v] > 0 /\ v # w)
    BY <1>2, <1>4, <2>1
  <2>3. SessionTable(s)'
    <3>1. task'[s].at = "idle" /\ task[s].at = "idle" /\ task'[s].backlog = {} /\ task'[s] = Idle
      BY <1>1, <1>3 DEF Idle
    <3>2. \A v \in Wires : s \in subscribers'[v] <=> Attached(s, v)'
      BY <1>2, <2>2, <3>1 DEF SessionTable, Attached
    <3> QED  BY <1>1, <1>3, <3>1, <3>2 DEF SessionTable, Attaching
  <2>4. \A r \in Sessions \ {s} : \A v \in Wires : r \in subscribers'[v] <=> r \in subscribers[v]
    BY <1>2, <2>1
  <2>5. \A r \in Sessions \ {s} : count'[r] = count[r]
    BY <1>2, <1>4
  <2> QED  BY <1>1, <2>3, <2>4, <2>5, TableOfOne
<1>5. CASE UNCHANGED subscribers /\ count[s][w] > 1 /\ count' = [count EXCEPT ![s][w] = @ - 1]
  <2>1. \A v \in Wires : count'[s][v] > 0 <=> count[s][v] > 0
    BY <1>2, <1>5
  <2>2. SessionTable(s)'
    BY <1>1, <1>2, <1>3, <1>5, <2>1 DEF SessionTable, Attached, Attaching, Idle
  <2>3. \A r \in Sessions \ {s} : count'[r] = count[r]
    BY <1>2, <1>5
  <2> QED  BY <1>1, <1>5, <2>2, <2>3, TableOfOne
<1>6. CASE CloseDetach(s, w)
  <2>1. Log!Unsubscribe(s, w) /\ count' = [count EXCEPT ![s][w] = 0]
    BY <1>6 DEF CloseDetach
  <2> QED  BY <1>2, <1>4, <2>1
<1>7. CASE UnsubscribeFrame(s, w)
  <2>1. /\ count' = [count EXCEPT ![s][w] = @ - 1] /\ count[s][w] \in Nat
        /\ \/ count[s][w] = 1 /\ Log!Unsubscribe(s, w)
           \/ count[s][w] # 1 /\ UNCHANGED subscribers
    BY <1>2, <1>7 DEF UnsubscribeFrame, logVars
  <2>2. CASE count[s][w] = 1 /\ Log!Unsubscribe(s, w)
    <3>1. count' = [count EXCEPT ![s][w] = 0] /\ count'[s][w] = 0
      BY <1>2, <2>1, <2>2
    <3> QED  BY <1>4, <2>2, <3>1
  <2>3. CASE count[s][w] # 1 /\ UNCHANGED subscribers
    BY <1>1, <1>5, <2>1, <2>3
  <2> QED  BY <2>1, <2>2, <2>3
<1> QED  BY <1>6, <1>7

LEMMA RestartTable == Restart => Table'
<1> SUFFICES ASSUME Restart PROVE Table'
  OBVIOUS
<1>1. /\ subscribers' = [w \in Wires |-> {}] /\ task' = [s \in Sessions |-> Idle]
      /\ count' = [s \in Sessions |-> [w \in Wires |-> 0]]
  BY DEF Restart, Log!NewLog
<1> QED  BY <1>1 DEF Table, SessionTable, Attached, Attaching, Idle

LEMMA NextTable == Types /\ Table /\ [Next]_vars => Table'
<1> SUFFICES ASSUME Types, Table, [Next]_vars PROVE Table'
  OBVIOUS
<1>1. CASE \/ \E t \in Emitters, w \in Wires : Emit(t, w)
           \/ \E w \in Wires : OthersSubscribe(w)
           \/ \E c \in calling : Deliver(c)
           \/ PumpStep
           \/ \E s \in Sessions : ClientReads(s)
  BY <1>1, QuietTable
<1>2. CASE \E s \in Sessions, last \in -1..MaxSeq : Hello(s, last)
  BY <1>2, PhaseTable
<1>3. CASE \E s \in Sessions, wires \in Requests : SubscribeFrame(s, wires)
  BY <1>3, TakeTable
<1>4. ASSUME NEW s \in Sessions, SubscribeStep(s) PROVE Table'
  BY <1>4, TakeTable, AttachTable DEF SubscribeStep
<1>5. ASSUME NEW s \in Sessions, CloseStep(s) \/ Disconnect(s) PROVE Table'
  BY <1>5, PhaseTable, DetachTable DEF CloseStep
<1>6. CASE \E s \in Sessions, w \in Wires : UnsubscribeFrame(s, w)
  BY <1>6, DetachTable
<1>7. CASE Restart
  BY <1>7, RestartTable
<1>8. CASE UNCHANGED vars
  BY <1>8, TableRests DEF vars, logVars
<1> QED  BY <1>1, <1>2, <1>3, <1>4, <1>5, <1>6, <1>7, <1>8 DEF Next

LEMMA TableImplies == Table => TableMatchesLog
BY DEF Table, SessionTable, Attached, TableMatchesLog, Idle

\* Whatever a session subscribes, unsubscribes and leaves half done, and however its connection ends, the log
\* calls it for the wires in its own table and for no other; one that is over is called no more.
THEOREM TableCorrect == Spec => []TableMatchesLog
<1>1. Types /\ Table /\ [Next]_vars => Types' /\ Table'
  BY NextTypes, NextTable
<1> QED  BY <1>1, InitTypes, InitTable, TableImplies, PTL DEF Spec

-----------------------------------------------------------------------------
(***************************************************************************)
(* Counting the copies of an event.                                        *)
(*                                                                         *)
(* Every step takes some of the places where an event is, A, and puts it   *)
(* in other places, B.  What the step does to the number of copies is then *)
(* the difference between the sizes of A and B.                            *)
(***************************************************************************)
LEMMA Exchange ==
  ASSUME NEW S, NEW A \in SUBSET S, NEW B, NEW R, IsFiniteSet(S), IsFiniteSet(B), B \cap (S \ A) = {},
         \A x : x \in R <=> (x \in S /\ x \notin A) \/ x \in B
  PROVE  /\ IsFiniteSet(R) /\ Cardinality(R) \in Nat /\ Cardinality(S) \in Nat
         /\ Cardinality(A) \in Nat /\ Cardinality(B) \in Nat
         /\ Cardinality(R) + Cardinality(A) = Cardinality(S) + Cardinality(B)
<1>1. R = (S \ A) \cup B /\ S = (S \ A) \cup A /\ A \cap (S \ A) = {}
  OBVIOUS
<1>2. IsFiniteSet(A) /\ IsFiniteSet(S \ A)
  BY FS_Subset
<1>3. /\ Cardinality((S \ A) \cup B) = Cardinality(S \ A) + Cardinality(B) - Cardinality((S \ A) \cap B)
      /\ IsFiniteSet((S \ A) \cup B)
  BY <1>2, FS_Union
<1>4. Cardinality((S \ A) \cup A) = Cardinality(S \ A) + Cardinality(A) - Cardinality((S \ A) \cap A)
  BY <1>2, FS_Union
<1>5. Cardinality((S \ A) \cap B) = 0 /\ Cardinality((S \ A) \cap A) = 0
  BY <1>1, FS_EmptySet
<1>6. /\ Cardinality(S) \in Nat /\ Cardinality(A) \in Nat /\ Cardinality(B) \in Nat
      /\ Cardinality(S \ A) \in Nat
  BY <1>2, FS_CardinalityType
<1> QED  BY <1>1, <1>3, <1>4, <1>5, <1>6

\* The image of a finite set under g, which keeps its members apart.
LEMMA Image ==
  ASSUME NEW S, NEW T, NEW g, g \in [S -> T], IsFiniteSet(S),
         \A x, y \in S : g[x] = g[y] => x = y, \A z \in T : \E x \in S : g[x] = z
  PROVE  IsFiniteSet(T) /\ Cardinality(T) = Cardinality(S)
<1>1. g \in Bijection(S, T)
  BY Fun_IsBij
<1>2. ExistsBijection(S, T)
  BY <1>1 DEF ExistsBijection
<1> QED  BY <1>2, FS_Bijection

\* The places where q holds n.
Spots(q, n) == {j \in DOMAIN q : q[j] = n}

LEMMA SpotsFinite ==
  ASSUME NEW X, NEW q \in Seq(X), NEW n
  PROVE  IsFiniteSet(Spots(q, n)) /\ Cardinality(Spots(q, n)) \in Nat /\ Spots(q, n) \subseteq 1..Len(q)
<1>1. DOMAIN q = 1..Len(q) /\ Len(q) \in Nat
  BY LenProperties
<1>2. Spots(q, n) \subseteq 1..Len(q)
  BY <1>1 DEF Spots
<1>3. IsFiniteSet(1..Len(q))
  BY <1>1, FS_Interval
<1> QED  BY <1>2, <1>3, FS_Subset, FS_CardinalityType

LEMMA SpotsAppend ==
  ASSUME NEW X, NEW q \in Seq(X), NEW e \in X, NEW n
  PROVE  /\ Cardinality(Spots(Append(q, e), n)) = Cardinality(Spots(q, n)) + (IF e = n THEN 1 ELSE 0)
         /\ \A j : j \in Spots(Append(q, e), n) <=> (j \in Spots(q, n) \/ (j = Len(q) + 1 /\ e = n))
<1>1. /\ Len(q) \in Nat /\ DOMAIN q = 1..Len(q) /\ DOMAIN Append(q, e) = 1..Len(q) + 1
      /\ Append(q, e)[Len(q) + 1] = e /\ \A j \in 1..Len(q) : Append(q, e)[j] = q[j]
  BY AppendProperties, LenProperties
<1>2. \A j : j \in Spots(Append(q, e), n) <=> (j \in Spots(q, n) \/ (j = Len(q) + 1 /\ e = n))
  BY <1>1 DEF Spots
<1>3. IsFiniteSet(Spots(q, n)) /\ Len(q) + 1 \notin Spots(q, n)
  BY <1>1, SpotsFinite
<1>4. CASE e = n
  <2>1. Spots(Append(q, e), n) = Spots(q, n) \cup {Len(q) + 1}
    BY <1>2, <1>4
  <2> QED  BY <1>3, <1>4, <2>1, FS_AddElement
<1>5. CASE e # n
  <2>1. Spots(Append(q, e), n) = Spots(q, n)
    BY <1>2, <1>5
  <2> QED  BY <1>3, <1>5, <2>1, SpotsFinite
<1> QED  BY <1>2, <1>4, <1>5

LEMMA SpotsNone == ASSUME NEW n PROVE Spots(<<>>, n) = {} /\ Cardinality(Spots(<<>>, n)) = 0
<1>1. Spots(<<>>, n) = {}
  BY DEF Spots
<1> QED  BY <1>1, FS_EmptySet

LEMMA SpotsSingle ==
  ASSUME NEW e, NEW n
  PROVE  /\ Cardinality(Spots(<<e>>, n)) = (IF e = n THEN 1 ELSE 0)
         /\ IsFiniteSet(Spots(<<e>>, n))
<1>1. CASE e = n
  <2>1. Spots(<<e>>, n) = {1}
    BY <1>1 DEF Spots
  <2> QED  BY <1>1, <2>1, FS_Singleton
<1>2. CASE e # n
  <2>1. Spots(<<e>>, n) = {}
    BY <1>2 DEF Spots
  <2> QED  BY <1>2, <2>1, FS_EmptySet
<1> QED  BY <1>1, <1>2

\* The places of EventPump's Copies, kind by kind: in the batch, with a caller, with a timer, sent.
InBatchOf(q, n)    == {<<"pending", j>> : j \in Spots(q, n)}
InCallOf(c, i, f, n) == {<<"caller", c, i, j>> : j \in Spots(f.entries, n)}
InTimerOf(t, n)    == {<<"timer", t, j>> : j \in Spots(t.frame.entries, n)}
InOutOf(i, f, n)   == {<<"out", i, j>> : j \in Spots(f.entries, n)}

LEMMA BatchImage ==
  ASSUME NEW q, NEW n, IsFiniteSet(Spots(q, n))
  PROVE  IsFiniteSet(InBatchOf(q, n)) /\ Cardinality(InBatchOf(q, n)) = Cardinality(Spots(q, n))
<1> DEFINE g == [j \in Spots(q, n) |-> <<"pending", j>>]
<1>1. g \in [Spots(q, n) -> InBatchOf(q, n)]
  BY DEF InBatchOf
<1>2. \A x, y \in Spots(q, n) : g[x] = g[y] => x = y
  OBVIOUS
<1>3. \A z \in InBatchOf(q, n) : \E x \in Spots(q, n) : g[x] = z
  BY DEF InBatchOf
<1> HIDE DEF g
<1> QED  BY <1>1, <1>2, <1>3, Image

LEMMA CallImage ==
  ASSUME NEW c, NEW i, NEW f, NEW n, IsFiniteSet(Spots(f.entries, n))
  PROVE  /\ IsFiniteSet(InCallOf(c, i, f, n))
         /\ Cardinality(InCallOf(c, i, f, n)) = Cardinality(Spots(f.entries, n))
<1> DEFINE g == [j \in Spots(f.entries, n) |-> <<"caller", c, i, j>>]
<1>1. g \in [Spots(f.entries, n) -> InCallOf(c, i, f, n)]
  BY DEF InCallOf
<1>2. \A x, y \in Spots(f.entries, n) : g[x] = g[y] => x = y
  OBVIOUS
<1>3. \A z \in InCallOf(c, i, f, n) : \E x \in Spots(f.entries, n) : g[x] = z
  BY DEF InCallOf
<1> HIDE DEF g
<1> QED  BY <1>1, <1>2, <1>3, Image

LEMMA TimerImage ==
  ASSUME NEW t, NEW n, IsFiniteSet(Spots(t.frame.entries, n))
  PROVE  /\ IsFiniteSet(InTimerOf(t, n))
         /\ Cardinality(InTimerOf(t, n)) = Cardinality(Spots(t.frame.entries, n))
<1> DEFINE g == [j \in Spots(t.frame.entries, n) |-> <<"timer", t, j>>]
<1>1. g \in [Spots(t.frame.entries, n) -> InTimerOf(t, n)]
  BY DEF InTimerOf
<1>2. \A x, y \in Spots(t.frame.entries, n) : g[x] = g[y] => x = y
  OBVIOUS
<1>3. \A z \in InTimerOf(t, n) : \E x \in Spots(t.frame.entries, n) : g[x] = z
  BY DEF InTimerOf
<1> HIDE DEF g
<1> QED  BY <1>1, <1>2, <1>3, Image

LEMMA OutImage ==
  ASSUME NEW i, NEW f, NEW n, IsFiniteSet(Spots(f.entries, n))
  PROVE  /\ IsFiniteSet(InOutOf(i, f, n))
         /\ Cardinality(InOutOf(i, f, n)) = Cardinality(Spots(f.entries, n))
<1> DEFINE g == [j \in Spots(f.entries, n) |-> <<"out", i, j>>]
<1>1. g \in [Spots(f.entries, n) -> InOutOf(i, f, n)]
  BY DEF InOutOf
<1>2. \A x, y \in Spots(f.entries, n) : g[x] = g[y] => x = y
  OBVIOUS
<1>3. \A z \in InOutOf(i, f, n) : \E x \in Spots(f.entries, n) : g[x] = z
  BY DEF InOutOf
<1> HIDE DEF g
<1> QED  BY <1>1, <1>2, <1>3, Image

\* What the caller c has still to send to pump r, and what has been sent.
Held(q, c, n, r) == UNION {InCallOf(c, i, q[i].frame, n) : i \in {k \in DOMAIN q : q[k].pump = r}}
SentIn(q, n)     == UNION {InOutOf(i, q[i], n) : i \in DOMAIN q}

LEMMA CopiesAre ==
  ASSUME NEW n, NEW r \in Sessions, NEW x
  PROVE  x \in Pump!Copies(n, r) <=>
           \/ x \in InBatchOf(pending[r], n)
           \/ \E c \in Callers : x \in Held(unsent[c], c, n, r)
           \/ \E t \in timerUnsent : t.pump = r /\ x \in InTimerOf(t, n)
           \/ x \in SentIn(out[r], n)
<1>1. x \in Pump!CopiesWaiting(n, r) <=> x \in InBatchOf(pending[r], n)
  BY DEF Pump!CopiesWaiting, InBatchOf, Spots
<1>2. ASSUME NEW c \in Callers
      PROVE  x \in Pump!CopiesOfCaller(c, n, r) <=> x \in Held(unsent[c], c, n, r)
  BY DEF Pump!CopiesOfCaller, Held, InCallOf, Pump!PlacesIn, Spots
<1>3. x \in Pump!CopiesOfTimers(n, r) <=> \E t \in timerUnsent : t.pump = r /\ x \in InTimerOf(t, n)
  BY DEF Pump!CopiesOfTimers, InTimerOf, Pump!PlacesIn, Spots
<1>4. x \in Pump!CopiesSent(n, r) <=> x \in SentIn(out[r], n)
  BY DEF Pump!CopiesSent, SentIn, InOutOf, Pump!PlacesIn, Spots
<1>5. x \in Pump!Copies(n, r) <=>
        \/ x \in Pump!CopiesWaiting(n, r)
        \/ \E c \in Callers : x \in Pump!CopiesOfCaller(c, n, r)
        \/ x \in Pump!CopiesOfTimers(n, r)
        \/ x \in Pump!CopiesSent(n, r)
  BY DEF Pump!Copies, Callers
<1> QED  BY <1>1, <1>2, <1>3, <1>4, <1>5

\* A place says where it is.
LEMMA PlaceNames ==
  ASSUME NEW n, NEW x
  PROVE  /\ \A q : x \in InBatchOf(q, n) => x[1] = "pending"
         /\ \A q, c, r : x \in Held(q, c, n, r) => x[1] = "caller" /\ x[2] = c
         /\ \A t : x \in InTimerOf(t, n) => x[1] = "timer" /\ x[2] = t
         /\ \A q : x \in SentIn(q, n) => x[1] = "out"
<1>1. ASSUME NEW q, x \in InBatchOf(q, n) PROVE x[1] = "pending"
  BY <1>1 DEF InBatchOf
<1>2. ASSUME NEW q, NEW c, NEW r, x \in Held(q, c, n, r) PROVE x[1] = "caller" /\ x[2] = c
  BY <1>2 DEF Held, InCallOf
<1>3. ASSUME NEW t, x \in InTimerOf(t, n) PROVE x[1] = "timer" /\ x[2] = t
  BY <1>3 DEF InTimerOf
<1>4. ASSUME NEW q, x \in SentIn(q, n) PROVE x[1] = "out"
  BY <1>4 DEF SentIn, InOutOf
<1> QED  BY <1>1, <1>2, <1>3, <1>4

LEMMA HeldNone == ASSUME NEW c, NEW n, NEW r PROVE Held(<<>>, c, n, r) = {}
BY DEF Held

LEMMA HeldAppend ==
  ASSUME NEW q \in Seq(Pump!Sending), NEW x \in Pump!Sending, NEW c, NEW n, NEW r,
         IsFiniteSet(Held(q, c, n, r))
  PROVE  /\ IsFiniteSet(Held(Append(q, x), c, n, r))
         /\ Cardinality(Held(Append(q, x), c, n, r))
              = Cardinality(Held(q, c, n, r)) + (IF x.pump = r THEN Cardinality(Spots(x.frame.entries, n)) ELSE 0)
<1>1. /\ Len(q) \in Nat /\ DOMAIN q = 1..Len(q) /\ DOMAIN Append(q, x) = 1..Len(q) + 1
      /\ Append(q, x)[Len(q) + 1] = x /\ \A i \in 1..Len(q) : Append(q, x)[i] = q[i]
  BY AppendProperties, LenProperties
<1> DEFINE B == IF x.pump = r THEN InCallOf(c, Len(q) + 1, x.frame, n) ELSE {}
<1>2. \A z : z \in Held(Append(q, x), c, n, r) <=> z \in Held(q, c, n, r) \/ z \in B
  BY <1>1 DEF Held
<1>3. B \cap Held(q, c, n, r) = {}
  <2>1. ASSUME NEW z \in B PROVE z[3] = Len(q) + 1
    BY DEF InCallOf
  <2>2. ASSUME NEW z \in Held(q, c, n, r) PROVE z[3] \in 1..Len(q)
    BY <1>1 DEF Held, InCallOf
  <2> HIDE DEF B
  <2> QED  BY <1>1, <2>1, <2>2
<1>4. x.frame.entries \in Seq(Pump!Number)
  BY DEF Pump!Sending, Pump!Frame
<1>5. IsFiniteSet(Spots(x.frame.entries, n)) /\ Cardinality(Spots(x.frame.entries, n)) \in Nat
  BY <1>4, SpotsFinite
<1>6. /\ IsFiniteSet(B)
      /\ Cardinality(B) = IF x.pump = r THEN Cardinality(Spots(x.frame.entries, n)) ELSE 0
  BY <1>5, CallImage, FS_EmptySet
<1> HIDE DEF B
<1>7. PICK S, R, none : S = Held(q, c, n, r) /\ R = Held(Append(q, x), c, n, r) /\ none = {}
  OBVIOUS
<1>8. /\ IsFiniteSet(R) /\ Cardinality(R) \in Nat /\ Cardinality(S) \in Nat
      /\ Cardinality(none) \in Nat /\ Cardinality(B) \in Nat
      /\ Cardinality(R) + Cardinality(none) = Cardinality(S) + Cardinality(B)
  <2>1. none \in SUBSET S /\ B \cap (S \ none) = {} /\ \A z : z \in R <=> (z \in S /\ z \notin none) \/ z \in B
    BY <1>2, <1>3, <1>7
  <2>2. IsFiniteSet(S) /\ IsFiniteSet(B)
    BY <1>6, <1>7
  <2> QED  BY <2>1, <2>2, Exchange
<1>9. Cardinality(none) = 0
  BY <1>7, FS_EmptySet
<1> QED  BY <1>5, <1>6, <1>7, <1>8, <1>9

LEMMA HeldTail ==
  ASSUME NEW q \in Seq(Pump!Sending), q # <<>>, NEW c, NEW n, NEW r, IsFiniteSet(Held(q, c, n, r))
  PROVE  /\ IsFiniteSet(Held(Tail(q), c, n, r))
         /\ Cardinality(Held(q, c, n, r)) = Cardinality(Held(Tail(q), c, n, r))
              + (IF Head(q).pump = r THEN Cardinality(Spots(Head(q).frame.entries, n)) ELSE 0)
<1>1. /\ Len(q) \in Nat \ {0} /\ DOMAIN q = 1..Len(q) /\ DOMAIN Tail(q) = 1..Len(q) - 1
      /\ Head(q) = q[1] /\ Head(q) \in Pump!Sending /\ \A i \in 1..Len(q) - 1 : Tail(q)[i] = q[i + 1]
  BY HeadTailProperties, LenProperties, EmptySeq
<1> DEFINE A == IF q[1].pump = r THEN InCallOf(c, 1, q[1].frame, n) ELSE {}
           D == Held(q, c, n, r) \ A
           T == Held(Tail(q), c, n, r)
           g == [z \in D |-> <<"caller", c, z[3] - 1, z[4]>>]
<1>2. \A z \in Held(q, c, n, r) : \E i \in 1..Len(q) : \E j \in Spots(q[i].frame.entries, n) :
        q[i].pump = r /\ z = <<"caller", c, i, j>>
  BY <1>1 DEF Held, InCallOf
<1>3. \A z \in T : \E i \in 1..Len(q) - 1 : \E j \in Spots(q[i + 1].frame.entries, n) :
        q[i + 1].pump = r /\ z = <<"caller", c, i, j>>
  BY <1>1 DEF Held, InCallOf
<1>4. ASSUME NEW z \in D
      PROVE  \E i \in 2..Len(q) : \E j \in Spots(q[i].frame.entries, n) :
               q[i].pump = r /\ z = <<"caller", c, i, j>>
  <2>1. PICK i \in 1..Len(q) : \E j \in Spots(q[i].frame.entries, n) : q[i].pump = r /\ z = <<"caller", c, i, j>>
    BY <1>2
  <2>2. i # 1
    BY <2>1 DEF InCallOf
  <2> QED  BY <1>1, <2>1, <2>2
<1>5. ASSUME NEW i \in 2..Len(q), NEW j \in Spots(q[i].frame.entries, n), q[i].pump = r
      PROVE  <<"caller", c, i, j>> \in D
  <2>1. <<"caller", c, i, j>> \in Held(q, c, n, r)
    BY <1>1, <1>5 DEF Held, InCallOf
  <2>2. <<"caller", c, i, j>> \notin A
    <3>1. <<"caller", c, i, j>>[3] = i /\ i # 1
      OBVIOUS
    <3>2. \A z \in A : z[3] = 1
      BY DEF InCallOf
    <3> QED  BY <3>1, <3>2
  <2> QED  BY <2>1, <2>2
<1>6. ASSUME NEW i \in 1..Len(q) - 1, NEW j \in Spots(q[i + 1].frame.entries, n), q[i + 1].pump = r
      PROVE  <<"caller", c, i, j>> \in T
  BY <1>1, <1>6 DEF Held, InCallOf
<1>7. A \subseteq Held(q, c, n, r)
  BY <1>1 DEF Held
<1>8. IsFiniteSet(A) /\ Cardinality(A) = IF q[1].pump = r THEN Cardinality(Spots(q[1].frame.entries, n)) ELSE 0
  <2>1. q[1].frame.entries \in Seq(Pump!Number)
    BY <1>1 DEF Pump!Sending, Pump!Frame
  <2>2. IsFiniteSet(Spots(q[1].frame.entries, n))
    BY <2>1, SpotsFinite
  <2> QED  BY <2>2, CallImage, FS_EmptySet
<1> HIDE DEF A, T
<1>9. g \in [D -> T]
  <2>1. ASSUME NEW z \in D PROVE <<"caller", c, z[3] - 1, z[4]>> \in T
    <3>1. PICK i \in 2..Len(q) : \E j \in Spots(q[i].frame.entries, n) : q[i].pump = r /\ z = <<"caller", c, i, j>>
      BY <1>4
    <3>2. PICK j \in Spots(q[i].frame.entries, n) : q[i].pump = r /\ z = <<"caller", c, i, j>>
      BY <3>1
    <3>3. i - 1 \in 1..Len(q) - 1 /\ (i - 1) + 1 = i
      BY <1>1
    <3>4. <<"caller", c, i - 1, j>> \in T
      BY <1>6, <3>2, <3>3
    <3>5. z[3] = i /\ z[4] = j
      BY <3>2
    <3> QED  BY <3>4, <3>5
  <2> QED  BY <2>1
<1>10. \A x, y \in D : g[x] = g[y] => x = y
  <2> SUFFICES ASSUME NEW x \in D, NEW y \in D, g[x] = g[y] PROVE x = y
    OBVIOUS
  <2>1. PICK i, j : i \in 2..Len(q) /\ x = <<"caller", c, i, j>>
    BY <1>4
  <2>2. PICK k, l : k \in 2..Len(q) /\ y = <<"caller", c, k, l>>
    BY <1>4
  <2>3. g[x] = <<"caller", c, i - 1, j>> /\ g[y] = <<"caller", c, k - 1, l>>
    BY <2>1, <2>2
  <2>4. i - 1 = k - 1 /\ j = l
    BY <2>3
  <2> QED  BY <2>1, <2>2, <2>4
<1>11. \A z \in T : \E x \in D : g[x] = z
  <2> SUFFICES ASSUME NEW z \in T PROVE \E x \in D : g[x] = z
    OBVIOUS
  <2>1. PICK i \in 1..Len(q) - 1 : \E j \in Spots(q[i + 1].frame.entries, n) :
          q[i + 1].pump = r /\ z = <<"caller", c, i, j>>
    BY <1>3
  <2>2. PICK j \in Spots(q[i + 1].frame.entries, n) : q[i + 1].pump = r /\ z = <<"caller", c, i, j>>
    BY <2>1
  <2>3. i + 1 \in 2..Len(q) /\ (i + 1) - 1 = i
    BY <1>1
  <2>4. <<"caller", c, i + 1, j>> \in D
    BY <1>5, <2>2, <2>3
  <2>5. g[<<"caller", c, i + 1, j>>] = z
    BY <2>2, <2>3, <2>4
  <2> QED  BY <2>4, <2>5
<1>12. IsFiniteSet(D) /\ Cardinality(D) \in Nat /\ Cardinality(A) \in Nat
       /\ Cardinality(Held(q, c, n, r)) = Cardinality(D) + Cardinality(A)
  <2>1. IsFiniteSet(D) /\ Cardinality(D) = Cardinality(Held(q, c, n, r)) - Cardinality(Held(q, c, n, r) \cap A)
    BY FS_Difference
  <2>2. Held(q, c, n, r) \cap A = A
    BY <1>7
  <2>3. Cardinality(A) \in Nat /\ Cardinality(Held(q, c, n, r)) \in Nat
    BY <1>8, FS_CardinalityType
  <2>5. Cardinality(Held(q, c, n, r) \cap A) = Cardinality(A)
    BY <2>2
  <2>4. Cardinality(D) \in Nat
    BY <2>1, FS_CardinalityType
  <2> HIDE DEF D
  <2> QED  BY <2>1, <2>3, <2>4, <2>5
<1> HIDE DEF D, g
<1>13. IsFiniteSet(T) /\ Cardinality(T) = Cardinality(D)
  BY <1>9, <1>10, <1>11, <1>12, Image
<1> QED  BY <1>1, <1>8, <1>12, <1>13 DEF T

LEMMA SentAppend ==
  ASSUME NEW q \in Seq(Pump!Frame), NEW f \in Pump!Frame, NEW n, IsFiniteSet(SentIn(q, n))
  PROVE  /\ IsFiniteSet(InOutOf(Len(q) + 1, f, n))
         /\ Cardinality(InOutOf(Len(q) + 1, f, n)) = Cardinality(Spots(f.entries, n))
         /\ InOutOf(Len(q) + 1, f, n) \cap SentIn(q, n) = {}
         /\ \A z : z \in SentIn(Append(q, f), n) <=> z \in SentIn(q, n) \/ z \in InOutOf(Len(q) + 1, f, n)
<1>1. /\ Len(q) \in Nat /\ DOMAIN q = 1..Len(q) /\ DOMAIN Append(q, f) = 1..Len(q) + 1
      /\ Append(q, f)[Len(q) + 1] = f /\ \A i \in 1..Len(q) : Append(q, f)[i] = q[i]
  BY AppendProperties, LenProperties
<1>2. \A z : z \in SentIn(Append(q, f), n) <=> z \in SentIn(q, n) \/ z \in InOutOf(Len(q) + 1, f, n)
  BY <1>1 DEF SentIn
<1>3. InOutOf(Len(q) + 1, f, n) \cap SentIn(q, n) = {}
  <2>1. \A z \in InOutOf(Len(q) + 1, f, n) : z[2] = Len(q) + 1
    BY DEF InOutOf
  <2>2. \A z \in SentIn(q, n) : z[2] \in 1..Len(q)
    BY <1>1 DEF SentIn, InOutOf
  <2> QED  BY <1>1, <2>1, <2>2
<1>4. f.entries \in Seq(Pump!Number)
  BY DEF Pump!Frame
<1>5. IsFiniteSet(Spots(f.entries, n))
  BY <1>4, SpotsFinite
<1> QED  BY <1>2, <1>3, <1>5, OutImage

LEMMA SentTail ==
  ASSUME NEW q \in Seq(Pump!Frame), q # <<>>, NEW n, IsFiniteSet(SentIn(q, n))
  PROVE  /\ IsFiniteSet(SentIn(Tail(q), n))
         /\ Cardinality(SentIn(q, n)) = Cardinality(SentIn(Tail(q), n)) + Cardinality(Spots(Head(q).entries, n))
<1>1. /\ Len(q) \in Nat \ {0} /\ DOMAIN q = 1..Len(q) /\ DOMAIN Tail(q) = 1..Len(q) - 1
      /\ Head(q) = q[1] /\ Head(q) \in Pump!Frame /\ \A i \in 1..Len(q) - 1 : Tail(q)[i] = q[i + 1]
  BY HeadTailProperties, LenProperties, EmptySeq
<1> DEFINE A == InOutOf(1, q[1], n)
           D == SentIn(q, n) \ A
           T == SentIn(Tail(q), n)
           g == [z \in D |-> <<"out", z[2] - 1, z[3]>>]
<1>2. \A z \in SentIn(q, n) : \E i \in 1..Len(q) : \E j \in Spots(q[i].entries, n) : z = <<"out", i, j>>
  BY <1>1 DEF SentIn, InOutOf
<1>3. \A z \in T : \E i \in 1..Len(q) - 1 : \E j \in Spots(q[i + 1].entries, n) : z = <<"out", i, j>>
  BY <1>1 DEF SentIn, InOutOf
<1>4. ASSUME NEW z \in D
      PROVE  \E i \in 2..Len(q) : \E j \in Spots(q[i].entries, n) : z = <<"out", i, j>>
  <2>1. PICK i \in 1..Len(q) : \E j \in Spots(q[i].entries, n) : z = <<"out", i, j>>
    BY <1>2
  <2>2. i # 1
    BY <2>1 DEF InOutOf
  <2> QED  BY <1>1, <2>1, <2>2
<1>5. ASSUME NEW i \in 2..Len(q), NEW j \in Spots(q[i].entries, n) PROVE <<"out", i, j>> \in D
  <2>1. <<"out", i, j>> \in SentIn(q, n)
    BY <1>1 DEF SentIn, InOutOf
  <2>2. <<"out", i, j>> \notin A
    <3>1. <<"out", i, j>>[2] = i /\ i # 1
      OBVIOUS
    <3>2. \A z \in A : z[2] = 1
      BY DEF InOutOf
    <3> QED  BY <3>1, <3>2
  <2> QED  BY <2>1, <2>2
<1>6. ASSUME NEW i \in 1..Len(q) - 1, NEW j \in Spots(q[i + 1].entries, n) PROVE <<"out", i, j>> \in T
  BY <1>1 DEF SentIn, InOutOf
<1>7. A \subseteq SentIn(q, n)
  BY <1>1 DEF SentIn
<1>8. IsFiniteSet(A) /\ Cardinality(A) = Cardinality(Spots(q[1].entries, n))
  <2>1. q[1].entries \in Seq(Pump!Number)
    BY <1>1 DEF Pump!Frame
  <2>2. IsFiniteSet(Spots(q[1].entries, n))
    BY <2>1, SpotsFinite
  <2> QED  BY <2>2, OutImage
<1> HIDE DEF A, T
<1>9. g \in [D -> T]
  <2>1. ASSUME NEW z \in D PROVE <<"out", z[2] - 1, z[3]>> \in T
    <3>1. PICK i \in 2..Len(q) : \E j \in Spots(q[i].entries, n) : z = <<"out", i, j>>
      BY <1>4
    <3>2. PICK j \in Spots(q[i].entries, n) : z = <<"out", i, j>>
      BY <3>1
    <3>3. i - 1 \in 1..Len(q) - 1 /\ (i - 1) + 1 = i
      BY <1>1
    <3>4. <<"out", i - 1, j>> \in T
      BY <1>6, <3>2, <3>3
    <3>5. z[2] = i /\ z[3] = j
      BY <3>2
    <3> QED  BY <3>4, <3>5
  <2> QED  BY <2>1
<1>10. \A x, y \in D : g[x] = g[y] => x = y
  <2> SUFFICES ASSUME NEW x \in D, NEW y \in D, g[x] = g[y] PROVE x = y
    OBVIOUS
  <2>1. PICK i, j : i \in 2..Len(q) /\ x = <<"out", i, j>>
    BY <1>4
  <2>2. PICK k, l : k \in 2..Len(q) /\ y = <<"out", k, l>>
    BY <1>4
  <2>3. g[x] = <<"out", i - 1, j>> /\ g[y] = <<"out", k - 1, l>>
    BY <2>1, <2>2
  <2>4. i - 1 = k - 1 /\ j = l
    BY <2>3
  <2> QED  BY <2>1, <2>2, <2>4
<1>11. \A z \in T : \E x \in D : g[x] = z
  <2> SUFFICES ASSUME NEW z \in T PROVE \E x \in D : g[x] = z
    OBVIOUS
  <2>1. PICK i \in 1..Len(q) - 1 : \E j \in Spots(q[i + 1].entries, n) : z = <<"out", i, j>>
    BY <1>3
  <2>2. PICK j \in Spots(q[i + 1].entries, n) : z = <<"out", i, j>>
    BY <2>1
  <2>3. i + 1 \in 2..Len(q) /\ (i + 1) - 1 = i
    BY <1>1
  <2>4. <<"out", i + 1, j>> \in D
    BY <1>5, <2>2, <2>3
  <2>5. g[<<"out", i + 1, j>>] = z
    BY <2>2, <2>3, <2>4
  <2> QED  BY <2>4, <2>5
<1>12. IsFiniteSet(D) /\ Cardinality(D) \in Nat /\ Cardinality(A) \in Nat
       /\ Cardinality(SentIn(q, n)) = Cardinality(D) + Cardinality(A)
  <2>1. IsFiniteSet(D) /\ Cardinality(D) = Cardinality(SentIn(q, n)) - Cardinality(SentIn(q, n) \cap A)
    BY FS_Difference
  <2>2. SentIn(q, n) \cap A = A
    BY <1>7
  <2>3. Cardinality(A) \in Nat /\ Cardinality(SentIn(q, n)) \in Nat
    BY <1>8, FS_CardinalityType
  <2>5. Cardinality(SentIn(q, n) \cap A) = Cardinality(A)
    BY <2>2
  <2>4. Cardinality(D) \in Nat
    BY <2>1, FS_CardinalityType
  <2> HIDE DEF D
  <2> QED  BY <2>1, <2>3, <2>4, <2>5
<1> HIDE DEF D, g
<1>13. IsFiniteSet(T) /\ Cardinality(T) = Cardinality(D)
  <2>1. IsFiniteSet(D)
    BY <1>12
  <2> QED  BY <1>9, <1>10, <1>11, <2>1, Image
<1> QED  BY <1>1, <1>8, <1>12, <1>13 DEF T

CopiesMatch ==
  \A n : \A r \in Sessions : \A x :
    x \in Pump!Copies(n, r) <=>
      \/ x \in InBatchOf(pending[r], n)
      \/ \E c \in Callers : x \in Held(unsent[c], c, n, r)
      \/ \E t \in timerUnsent : t.pump = r /\ x \in InTimerOf(t, n)
      \/ x \in SentIn(out[r], n)

LEMMA CopiesMatched == CopiesMatch /\ CopiesMatch'
<1>1. CopiesMatch
  BY CopiesAre DEF CopiesMatch
<1> QED  BY <1>1, PTL

\* A part of what is finite.
LEMMA PartsFinite ==
  ASSUME NEW n, NEW r \in Sessions, IsFiniteSet(Pump!Copies(n, r))
  PROVE  /\ \A c \in Callers : IsFiniteSet(Held(unsent[c], c, n, r))
         /\ IsFiniteSet(SentIn(out[r], n))
         /\ IsFiniteSet(InBatchOf(pending[r], n))
         /\ \A t \in timerUnsent : t.pump = r => IsFiniteSet(InTimerOf(t, n))
<1>1. CopiesMatch
  BY CopiesMatched
<1>2. ASSUME NEW c \in Callers PROVE IsFiniteSet(Held(unsent[c], c, n, r))
  <2>1. Held(unsent[c], c, n, r) \in SUBSET Pump!Copies(n, r)
    BY <1>1 DEF CopiesMatch
  <2> QED  BY <2>1, FS_Subset
<1>3. IsFiniteSet(SentIn(out[r], n))
  <2>1. SentIn(out[r], n) \in SUBSET Pump!Copies(n, r)
    BY <1>1 DEF CopiesMatch
  <2> QED  BY <2>1, FS_Subset
<1>4. IsFiniteSet(InBatchOf(pending[r], n))
  <2>1. InBatchOf(pending[r], n) \in SUBSET Pump!Copies(n, r)
    BY <1>1 DEF CopiesMatch
  <2> QED  BY <2>1, FS_Subset
<1>5. ASSUME NEW t \in timerUnsent, t.pump = r PROVE IsFiniteSet(InTimerOf(t, n))
  <2>1. InTimerOf(t, n) \in SUBSET Pump!Copies(n, r)
    BY <1>1, <1>5 DEF CopiesMatch
  <2> QED  BY <2>1, FS_Subset
<1> QED  BY <1>2, <1>3, <1>4, <1>5

LEMMA CopiesRest ==
  ASSUME NEW n, NEW r \in Sessions, UNCHANGED <<pending, unsent, timerUnsent, out>>
  PROVE  Pump!Copies(n, r)' = Pump!Copies(n, r)
<1>1. CopiesMatch /\ CopiesMatch'
  BY CopiesMatched
<1>2. \A x : x \in Pump!Copies(n, r)' <=> x \in Pump!Copies(n, r)
  BY <1>1 DEF CopiesMatch
<1> QED  BY <1>2

\* The copies after a step that takes those at A and puts them at B.
LEMMA CopiesExchange ==
  ASSUME NEW n, NEW r \in Sessions, IsFiniteSet(Pump!Copies(n, r)),
         NEW A \in SUBSET Pump!Copies(n, r), NEW B, IsFiniteSet(B), B \cap (Pump!Copies(n, r) \ A) = {},
         \A x : x \in Pump!Copies(n, r)' <=> (x \in Pump!Copies(n, r) /\ x \notin A) \/ x \in B
  PROVE  /\ IsFiniteSet(Pump!Copies(n, r)')
         /\ Cardinality(Pump!Copies(n, r)') \in Nat /\ Cardinality(Pump!Copies(n, r)) \in Nat
         /\ Cardinality(A) \in Nat /\ Cardinality(B) \in Nat
         /\ Cardinality(Pump!Copies(n, r)') + Cardinality(A) = Cardinality(Pump!Copies(n, r)) + Cardinality(B)
<1>1. PICK S, R : S = Pump!Copies(n, r) /\ R = Pump!Copies(n, r)'
  OBVIOUS
<1>2. /\ A \in SUBSET S /\ IsFiniteSet(S) /\ B \cap (S \ A) = {}
      /\ \A x : x \in R <=> (x \in S /\ x \notin A) \/ x \in B
  BY <1>1
<1>3. /\ IsFiniteSet(R) /\ Cardinality(R) \in Nat /\ Cardinality(S) \in Nat
      /\ Cardinality(A) \in Nat /\ Cardinality(B) \in Nat
      /\ Cardinality(R) + Cardinality(A) = Cardinality(S) + Cardinality(B)
  BY <1>2, Exchange
<1> QED  BY <1>1, <1>3

\* A caller with nothing left to send takes what waits in pump p, and decides to send q.
Decides(c, p, q) ==
  /\ unsent[c] = <<>> /\ unsent' = [unsent EXCEPT ![c] = q]
  /\ pending' = [pending EXCEPT ![p] = <<>>]
  /\ UNCHANGED <<timerUnsent, out>>

\* What waits in pump p of event n, as seen from pump r.
Waiting(p, n, r) == IF r = p THEN Cardinality(Spots(pending[p], n)) ELSE 0

\* The step adds k copies of event n to pump r.
Added(n, r, k) ==
  /\ IsFiniteSet(Pump!Copies(n, r)') /\ Cardinality(Pump!Copies(n, r)) \in Nat
  /\ Cardinality(Pump!Copies(n, r)') = Cardinality(Pump!Copies(n, r)) + k

LEMMA CallerDecides ==
  ASSUME PumpTypes, NEW n, NEW r \in Sessions, NEW p \in Sessions, NEW c \in Callers, NEW q, Decides(c, p, q),
         IsFiniteSet(Pump!Copies(n, r)), IsFiniteSet(Held(q, c, n, r)),
         NEW k \in Nat, Cardinality(Held(q, c, n, r)) = Waiting(p, n, r) + k
  PROVE  Added(n, r, k)
<1> DEFINE A == IF r = p THEN InBatchOf(pending[p], n) ELSE {}
           B == Held(q, c, n, r)
<1>1. CopiesMatch /\ CopiesMatch'
  BY CopiesMatched
<1>2. /\ unsent'[c] = q /\ \A d \in Callers \ {c} : unsent'[d] = unsent[d]
      /\ pending'[p] = <<>> /\ \A s \in Sessions \ {p} : pending'[s] = pending[s]
  BY DEF PumpTypes, Decides
<1>3. InBatchOf(<<>>, n) = {} /\ Held(unsent[c], c, n, r) = {} /\ UNCHANGED <<timerUnsent, out>>
  BY HeldNone, SpotsNone DEF InBatchOf, Decides
<1>4. A \in SUBSET Pump!Copies(n, r)
  BY <1>1 DEF CopiesMatch
<1>5. IsFiniteSet(A) /\ Cardinality(A) = IF r = p THEN Cardinality(Spots(pending[p], n)) ELSE 0
  <2>1. pending[p] \in Seq(Pump!Number)
    BY DEF PumpTypes
  <2>2. IsFiniteSet(Spots(pending[p], n))
    BY <2>1, SpotsFinite
  <2> QED  BY <2>2, BatchImage, FS_EmptySet
<1>6. ASSUME NEW x \in B PROVE x \notin Pump!Copies(n, r)
  <2>1. x[1] = "caller" /\ x[2] = c
    BY PlaceNames
  <2>2. \A d \in Callers : x \notin Held(unsent[d], d, n, r)
    BY <1>3, <2>1, PlaceNames
  <2>3. x \notin InBatchOf(pending[r], n) /\ x \notin SentIn(out[r], n) /\ \A t : x \notin InTimerOf(t, n)
    BY <2>1, PlaceNames
  <2> QED  BY <1>1, <2>2, <2>3 DEF CopiesMatch
<1>7. ASSUME NEW x PROVE x \in Pump!Copies(n, r)' <=> (x \in Pump!Copies(n, r) /\ x \notin A) \/ x \in B
  <2>1. x \in Pump!Copies(n, r)' <=>
          \/ x \in InBatchOf(pending'[r], n)
          \/ \E d \in Callers : x \in Held(unsent'[d], d, n, r)
          \/ \E t \in timerUnsent : t.pump = r /\ x \in InTimerOf(t, n)
          \/ x \in SentIn(out[r], n)
    BY <1>1, <1>3 DEF CopiesMatch
  <2>2. (\E d \in Callers : x \in Held(unsent'[d], d, n, r)) <=>
          (\E d \in Callers : x \in Held(unsent[d], d, n, r)) \/ x \in B
    BY <1>2, <1>3
  <2>3. x \in InBatchOf(pending'[r], n) <=> x \in InBatchOf(pending[r], n) /\ x \notin A
    BY <1>2, <1>3
  <2>4. x \in A => x[1] = "pending"
    BY PlaceNames
  <2>5. /\ \A d \in Callers : x \in Held(unsent[d], d, n, r) => x \notin A
        /\ \A t \in timerUnsent : x \in InTimerOf(t, n) => x \notin A
        /\ x \in SentIn(out[r], n) => x \notin A
    BY <2>4, PlaceNames
  <2> HIDE DEF A, B
  <2> QED  BY <1>1, <2>1, <2>2, <2>3, <2>5 DEF CopiesMatch
<1>8. B \cap (Pump!Copies(n, r) \ A) = {}
  BY <1>6
<1> HIDE DEF A
<1>9. /\ IsFiniteSet(Pump!Copies(n, r)')
      /\ Cardinality(Pump!Copies(n, r)') \in Nat /\ Cardinality(Pump!Copies(n, r)) \in Nat
      /\ Cardinality(A) \in Nat /\ Cardinality(B) \in Nat
      /\ Cardinality(Pump!Copies(n, r)') + Cardinality(A) = Cardinality(Pump!Copies(n, r)) + Cardinality(B)
  BY <1>4, <1>7, <1>8, CopiesExchange
<1>10. Cardinality(A) = Waiting(p, n, r)
  BY <1>5 DEF Waiting
<1> QED  BY <1>9, <1>10 DEF Added

LEMMA HeldSingle ==
  ASSUME NEW x \in Pump!Sending, NEW c, NEW n, NEW r
  PROVE  /\ IsFiniteSet(Held(<<x>>, c, n, r))
         /\ Cardinality(Held(<<x>>, c, n, r)) = (IF x.pump = r THEN Cardinality(Spots(x.frame.entries, n)) ELSE 0)
<1>1. PICK e, q : e = <<>> /\ q = <<x>>
  OBVIOUS
<1>2. e \in Seq(Pump!Sending) /\ q = Append(e, x)
  BY <1>1
<1>3. IsFiniteSet(Held(e, c, n, r)) /\ Cardinality(Held(e, c, n, r)) = 0
  BY <1>1, HeldNone, FS_EmptySet
<1>4. /\ IsFiniteSet(Held(q, c, n, r))
      /\ Cardinality(Held(q, c, n, r))
           = Cardinality(Held(e, c, n, r)) + (IF x.pump = r THEN Cardinality(Spots(x.frame.entries, n)) ELSE 0)
  BY <1>2, <1>3, HeldAppend
<1>5. x.frame.entries \in Seq(Pump!Number)
  BY DEF Pump!Sending, Pump!Frame
<1>6. Cardinality(Spots(x.frame.entries, n)) \in Nat
  BY <1>5, SpotsFinite
<1> QED  BY <1>1, <1>3, <1>4, <1>6

\* What a taken batch holds is what waited.
LEMMA TakenHolds ==
  ASSUME PumpTypes, NEW p \in Sessions, NEW c, NEW n, NEW r \in Sessions
  PROVE  /\ IsFiniteSet(Held(Pump!TakenBatch(p), c, n, r))
         /\ Cardinality(Held(Pump!TakenBatch(p), c, n, r)) = Waiting(p, n, r)
<1> USE DEF Waiting
<1>1. IsFiniteSet(Held(<<>>, c, n, r)) /\ Cardinality(Held(<<>>, c, n, r)) = 0
  BY HeldNone, FS_EmptySet
<1>2. CASE pending[p] = <<>>
  BY <1>1, <1>2, SpotsNone DEF Pump!TakenBatch
<1>3. CASE pending[p] # <<>>
  <2>1. PICK x : x = Pump!Batch(p, pendingSeq[p], pending[p])
    OBVIOUS
  <2>2. x.pump = p /\ x.frame.entries = pending[p]
    BY <2>1 DEF Pump!Batch
  <2>3. Pump!TakenBatch(p) = <<x>>
    BY <1>3, <2>1 DEF Pump!TakenBatch
  <2>4. x \in Pump!Sending
    <3>1. <<x>> \in Seq(Pump!Sending)
      BY <2>3, TakenTyped
    <3>2. Head(<<x>>) \in Pump!Sending /\ Head(<<x>>) = x
      BY <3>1
    <3> QED  BY <3>2
  <2> QED  BY <2>2, <2>3, <2>4, HeldSingle
<1> QED  BY <1>2, <1>3

\* A push of event m to an open pump adds one copy of it there.
LEMMA PushCopies ==
  ASSUME PumpTypes, NEW c \in Callers, NEW p \in Sessions, NEW m \in Pump!Number,
         Pump!PushOther(c, p, m) \/ Pump!PushEntry(c, p, m),
         NEW n, NEW r \in Sessions, IsFiniteSet(Pump!Copies(n, r))
  PROVE  Added(n, r, IF r = p /\ n = m THEN 1 ELSE 0)
<1>1. pending[p] \in Seq(Pump!Number) /\ pendingSeq[p] \in Nat /\ unsent[c] = <<>>
  BY DEF PumpTypes, Pump!PushOther, Pump!PushEntry, Pump!PushFull, Pump!PushWaits
<1>2. Cardinality(Spots(pending[p], n)) \in Nat /\ Waiting(p, n, r) \in Nat
  BY <1>1, SpotsFinite DEF Waiting
<1>3. PICK k \in Nat : k = IF r = p /\ n = m THEN 1 ELSE 0
  OBVIOUS
<1>4. CASE Pump!PushOther(c, p, m)
  <2>1. PICK q, x : q = Append(Pump!TakenBatch(p), x) /\ x = Pump!Single(p, m)
    OBVIOUS
  <2>2. Decides(c, p, q)
    BY <1>4, <2>1 DEF Pump!PushOther, Pump!ResetBatch, Decides
  <2>3. x.pump = p /\ x.frame.entries = <<m>> /\ x \in Pump!Sending
    BY <2>1, SingleTyped DEF Pump!Single
  <2>4. /\ IsFiniteSet(Held(Pump!TakenBatch(p), c, n, r)) /\ Pump!TakenBatch(p) \in Seq(Pump!Sending)
        /\ Cardinality(Held(Pump!TakenBatch(p), c, n, r)) = Waiting(p, n, r)
    BY TakenHolds, TakenTyped
  <2>5. /\ IsFiniteSet(Held(q, c, n, r))
        /\ Cardinality(Held(q, c, n, r)) = Cardinality(Held(Pump!TakenBatch(p), c, n, r))
             + (IF x.pump = r THEN Cardinality(Spots(x.frame.entries, n)) ELSE 0)
    BY <2>1, <2>3, <2>4, HeldAppend
  <2>6. Cardinality(Spots(<<m>>, n)) = (IF m = n THEN 1 ELSE 0)
    BY SpotsSingle
  <2>7. Cardinality(Held(q, c, n, r)) = Waiting(p, n, r) + k
    BY <1>2, <1>3, <2>3, <2>4, <2>5, <2>6
  <2>8. Added(n, r, k)
    BY <2>2, <2>5, <2>7, CallerDecides
  <2> QED  BY <1>3, <2>8
<1>6. CASE Pump!PushFull(c, p, m)
  <2>1. PICK q, x, g : q = <<x>> /\ x = Pump!Batch(p, g, Append(pending[p], m)) /\ g = Pump!Greatest(pendingSeq[p], m)
    OBVIOUS
  <2>2. Decides(c, p, q)
    BY <1>6, <2>1 DEF Pump!PushFull, Pump!ResetBatch, Decides
  <2>3. x.pump = p /\ x.frame.entries = Append(pending[p], m)
    BY <2>1 DEF Pump!Batch
  <2>4. x \in Pump!Sending
    BY <2>1, FullTyped
  <2>5. /\ IsFiniteSet(Held(q, c, n, r))
        /\ Cardinality(Held(q, c, n, r)) = (IF x.pump = r THEN Cardinality(Spots(x.frame.entries, n)) ELSE 0)
    BY <2>1, <2>4, HeldSingle
  <2>6. Cardinality(Spots(Append(pending[p], m), n)) = Cardinality(Spots(pending[p], n)) + (IF m = n THEN 1 ELSE 0)
    BY <1>1, SpotsAppend
  <2>7. Cardinality(Held(q, c, n, r)) = Waiting(p, n, r) + k
    BY <1>2, <1>3, <2>3, <2>5, <2>6 DEF Waiting
  <2>8. Added(n, r, k)
    BY <2>2, <2>5, <2>7, CallerDecides
  <2> QED  BY <1>3, <2>8
<1>5. CASE Pump!PushWaits(c, p, m)
  <2>1. pending' = [pending EXCEPT ![p] = Append(@, m)] /\ UNCHANGED <<unsent, timerUnsent, out>>
    BY <1>5 DEF Pump!PushWaits
  <2>2. CopiesMatch /\ CopiesMatch'
    BY CopiesMatched
  <2>3. PICK A, B : A = {} /\ B = IF r = p /\ m = n THEN {<<"pending", Len(pending[p]) + 1>>} ELSE {}
    OBVIOUS
  <2>4. ASSUME NEW x PROVE x \in InBatchOf(pending'[r], n) <=> x \in InBatchOf(pending[r], n) \/ x \in B
    <3>1. CASE r # p
      <4>1. pending'[r] = pending[r]
        BY <2>1, <3>1 DEF PumpTypes
      <4> QED  BY <2>3, <3>1, <4>1
    <3>2. CASE r = p
      <4>1. pending'[r] = Append(pending[p], m)
        BY <2>1, <3>2 DEF PumpTypes
      <4>2. \A j : j \in Spots(Append(pending[p], m), n) <=> (j \in Spots(pending[p], n) \/ (j = Len(pending[p]) + 1 /\ m = n))
        BY <1>1, SpotsAppend
      <4> QED  BY <2>3, <3>2, <4>1, <4>2 DEF InBatchOf
    <3> QED  BY <3>1, <3>2
  <2>5. ASSUME NEW x PROVE x \in Pump!Copies(n, r)' <=> (x \in Pump!Copies(n, r) /\ x \notin A) \/ x \in B
    <3>1. x \in Pump!Copies(n, r)' <=>
            \/ x \in InBatchOf(pending'[r], n)
            \/ \E d \in Callers : x \in Held(unsent[d], d, n, r)
            \/ \E t \in timerUnsent : t.pump = r /\ x \in InTimerOf(t, n)
            \/ x \in SentIn(out[r], n)
      BY <2>1, <2>2 DEF CopiesMatch
    <3> QED  BY <2>2, <2>3, <2>4, <3>1 DEF CopiesMatch
  <2>6. ASSUME NEW x \in B PROVE x \notin Pump!Copies(n, r)
    <3>1. r = p /\ x = <<"pending", Len(pending[p]) + 1>>
      BY <2>3
    <3>2. x[1] = "pending" /\ x[2] = Len(pending[p]) + 1
      BY <3>1
    <3>3. x \notin InBatchOf(pending[r], n)
      <4>1. Spots(pending[p], n) \subseteq 1..Len(pending[p]) /\ Len(pending[p]) \in Nat
        BY <1>1, SpotsFinite, LenProperties
      <4>2. \A y \in InBatchOf(pending[r], n) : y[2] \in Spots(pending[p], n)
        BY <3>1 DEF InBatchOf
      <4> QED  BY <3>2, <4>1, <4>2
    <3>4. /\ \A d \in Callers : x \notin Held(unsent[d], d, n, r)
          /\ x \notin SentIn(out[r], n) /\ \A t : x \notin InTimerOf(t, n)
      BY <3>2, PlaceNames
    <3> QED  BY <2>2, <3>3, <3>4 DEF CopiesMatch
  <2>7. /\ A \in SUBSET Pump!Copies(n, r) /\ B \cap (Pump!Copies(n, r) \ A) = {}
        /\ IsFiniteSet(B) /\ Cardinality(B) = (IF r = p /\ m = n THEN 1 ELSE 0) /\ Cardinality(A) = 0
    BY <2>3, <2>6, FS_EmptySet, FS_Singleton
  <2>8. /\ IsFiniteSet(Pump!Copies(n, r)')
        /\ Cardinality(Pump!Copies(n, r)') \in Nat /\ Cardinality(Pump!Copies(n, r)) \in Nat
        /\ Cardinality(A) \in Nat /\ Cardinality(B) \in Nat
        /\ Cardinality(Pump!Copies(n, r)') + Cardinality(A) = Cardinality(Pump!Copies(n, r)) + Cardinality(B)
    BY <2>5, <2>7, CopiesExchange
  <2> QED  BY <2>7, <2>8 DEF Added
<1> QED  BY <1>4, <1>5, <1>6 DEF Pump!PushEntry

\* The pump is closed: what waits is with the session's task.
LEMMA CloseCopies ==
  ASSUME PumpTypes, NEW c \in Callers, NEW p \in Sessions, Pump!ClosePump(c, p),
         NEW n, NEW r \in Sessions, IsFiniteSet(Pump!Copies(n, r))
  PROVE  Added(n, r, 0)
<1>1. PICK q : q = Pump!TakenBatch(p)
  OBVIOUS
<1>2. Decides(c, p, q)
  BY <1>1 DEF Pump!ClosePump, Pump!ResetBatch, Decides
<1>3. pending[p] \in Seq(Pump!Number)
  BY DEF PumpTypes
<1>4. Waiting(p, n, r) \in Nat
  BY <1>3, SpotsFinite DEF Waiting
<1>5. IsFiniteSet(Held(q, c, n, r)) /\ Cardinality(Held(q, c, n, r)) = Waiting(p, n, r) + 0
  BY <1>1, <1>4, TakenHolds
<1> QED  BY <1>2, <1>5, CallerDecides

\* A caller sends: what it held first is sent.
LEMMA SendCopies ==
  ASSUME PumpTypes, NEW c \in Callers, Pump!Send(c), NEW n, NEW r \in Sessions, IsFiniteSet(Pump!Copies(n, r))
  PROVE  Added(n, r, 0)
<1>1. PICK q, x, f : q = unsent[c] /\ x = Head(q) /\ f = x.frame
  OBVIOUS
<1>2. /\ q # <<>> /\ q \in Seq(Pump!Sending) /\ x \in Pump!Sending /\ f \in Pump!Frame /\ x.pump \in Sessions
      /\ unsent' = [unsent EXCEPT ![c] = Tail(q)] /\ out' = [out EXCEPT ![x.pump] = Append(@, f)]
      /\ UNCHANGED <<pending, timerUnsent>>
  <2>1. q # <<>> /\ q \in Seq(Pump!Sending)
    BY <1>1 DEF Pump!Send, PumpTypes
  <2>2. x \in Pump!Sending
    BY <1>1, <2>1, HeadTailProperties
  <2> QED  BY <1>1, <2>1, <2>2 DEF Pump!Send, Pump!Sending
<1>3. /\ unsent'[c] = Tail(q) /\ \A d \in Callers \ {c} : unsent'[d] = unsent[d]
      /\ out'[x.pump] = Append(out[x.pump], f) /\ \A s \in Sessions \ {x.pump} : out'[s] = out[s]
      /\ out[r] \in Seq(Pump!Frame)
  BY <1>2 DEF PumpTypes
<1>4. CopiesMatch /\ CopiesMatch'
  BY CopiesMatched
<1> DEFINE A == Held(q, c, n, r)
           H == Held(Tail(q), c, n, r)
           O == IF r = x.pump THEN InOutOf(Len(out[r]) + 1, f, n) ELSE {}
<1>5. IsFiniteSet(A) /\ IsFiniteSet(SentIn(out[r], n))
  BY <1>1, PartsFinite
<1>6. /\ IsFiniteSet(H)
      /\ Cardinality(A) = Cardinality(H) + (IF x.pump = r THEN Cardinality(Spots(f.entries, n)) ELSE 0)
  BY <1>1, <1>2, <1>5, HeldTail
<1>7. /\ IsFiniteSet(O) /\ Cardinality(O) = (IF x.pump = r THEN Cardinality(Spots(f.entries, n)) ELSE 0)
      /\ O \cap SentIn(out[r], n) = {}
      /\ \A z : z \in SentIn(out'[r], n) <=> z \in SentIn(out[r], n) \/ z \in O
  <2>1. CASE r = x.pump
    BY <1>2, <1>3, <1>5, <2>1, SentAppend
  <2>2. CASE r # x.pump
    BY <1>3, <2>2, FS_EmptySet
  <2> QED  BY <2>1, <2>2
<1>8. \A z \in O : z[1] = "out"
  BY DEF InOutOf
<1>9. (\A z \in A : z[1] = "caller" /\ z[2] = c) /\ (\A z \in H : z[1] = "caller" /\ z[2] = c)
  BY PlaceNames
<1> HIDE DEF A, H, O
<1>10. /\ IsFiniteSet(H \cup O) /\ Cardinality(H \cup O) = Cardinality(A)
  <2>1. H \cap O = {}
    BY <1>8, <1>9
  <2>2. /\ IsFiniteSet(H \cup O)
        /\ Cardinality(H \cup O) = Cardinality(H) + Cardinality(O) - Cardinality(H \cap O)
    BY <1>6, <1>7, FS_Union
  <2>3. Cardinality(H \cap O) = 0
    BY <2>1, FS_EmptySet
  <2>4. Cardinality(H) \in Nat /\ Cardinality(O) \in Nat
    BY <1>6, <1>7, FS_CardinalityType
  <2> QED  BY <1>6, <1>7, <2>2, <2>3, <2>4
<1>11. A \in SUBSET Pump!Copies(n, r)
  BY <1>1, <1>4 DEF CopiesMatch, A
<1>12. ASSUME NEW z \in H \cup O PROVE z \notin Pump!Copies(n, r) \ A
  <2>1. CASE z \in H
    <3>1. z[1] = "caller" /\ z[2] = c
      BY <1>9, <2>1
    <3>2. /\ z \notin InBatchOf(pending[r], n) /\ z \notin SentIn(out[r], n) /\ \A t : z \notin InTimerOf(t, n)
          /\ \A d \in Callers : z \in Held(unsent[d], d, n, r) => d = c
      BY <3>1, PlaceNames
    <3> QED  BY <1>1, <1>4, <3>2 DEF CopiesMatch, A
  <2>2. CASE z \in O
    <3>1. z[1] = "out" /\ z \notin SentIn(out[r], n)
      BY <1>7, <1>8, <2>2
    <3>2. /\ z \notin InBatchOf(pending[r], n) /\ \A t : z \notin InTimerOf(t, n)
          /\ \A d \in Callers : z \notin Held(unsent[d], d, n, r)
      BY <3>1, PlaceNames
    <3> QED  BY <1>4, <3>1, <3>2 DEF CopiesMatch
  <2> QED  BY <2>1, <2>2
<1>13. ASSUME NEW z PROVE z \in Pump!Copies(n, r)' <=> (z \in Pump!Copies(n, r) /\ z \notin A) \/ z \in H \cup O
  <2>1. z \in Pump!Copies(n, r)' <=>
          \/ z \in InBatchOf(pending[r], n)
          \/ \E d \in Callers : z \in Held(unsent'[d], d, n, r)
          \/ \E t \in timerUnsent : t.pump = r /\ z \in InTimerOf(t, n)
          \/ z \in SentIn(out'[r], n)
    BY <1>2, <1>4 DEF CopiesMatch
  <2>2. (\E d \in Callers : z \in Held(unsent'[d], d, n, r)) <=>
          ((\E d \in Callers : z \in Held(unsent[d], d, n, r)) /\ z \notin A) \/ z \in H
    <3>1. \A d \in Callers : z \in Held(unsent[d], d, n, r) => (z \in A <=> d = c)
      BY <1>1, <1>9, PlaceNames DEF A
    <3>2. z \in Held(unsent'[c], c, n, r) <=> z \in H
      BY <1>3 DEF H
    <3>3. \A d \in Callers : d # c => Held(unsent'[d], d, n, r) = Held(unsent[d], d, n, r)
      BY <1>3
    <3> QED  BY <3>1, <3>2, <3>3
  <2>3. z \in A => z \notin InBatchOf(pending[r], n) /\ z \notin SentIn(out[r], n) /\ \A t : z \notin InTimerOf(t, n)
    BY <1>9, PlaceNames
  <2>4. z \in SentIn(out'[r], n) <=> z \in SentIn(out[r], n) \/ z \in O
    BY <1>7
  <2> QED  BY <1>4, <2>1, <2>2, <2>3, <2>4 DEF CopiesMatch
<1>14. PICK B : B = H \cup O
  OBVIOUS
<1>15. /\ IsFiniteSet(B) /\ Cardinality(B) = Cardinality(A) /\ B \cap (Pump!Copies(n, r) \ A) = {}
       /\ \A z : z \in Pump!Copies(n, r)' <=> (z \in Pump!Copies(n, r) /\ z \notin A) \/ z \in B
  BY <1>10, <1>12, <1>13, <1>14
<1>16. /\ IsFiniteSet(Pump!Copies(n, r)')
       /\ Cardinality(Pump!Copies(n, r)') \in Nat /\ Cardinality(Pump!Copies(n, r)) \in Nat
       /\ Cardinality(A) \in Nat /\ Cardinality(B) \in Nat
       /\ Cardinality(Pump!Copies(n, r)') + Cardinality(A) = Cardinality(Pump!Copies(n, r)) + Cardinality(B)
  BY <1>11, <1>15, CopiesExchange
<1> QED  BY <1>15, <1>16 DEF Added

\* A timer task of an older generation has what it holds; the one of this generation has nothing yet.
TimersOld == \A t \in timerUnsent : t.generation < generation[t.pump]

LEMMA TimerTakesCopies ==
  ASSUME PumpTypes, TimersOld, NEW x, Pump!TimerTakes(x), NEW n, NEW r \in Sessions,
         IsFiniteSet(Pump!Copies(n, r))
  PROVE  Added(n, r, 0)
<1>1. PICK p, q : p = x.pump /\ q = Pump!TakenBatch(p)
  OBVIOUS
<1>2. /\ p \in Sessions /\ x.generation = generation[p] /\ generation[p] \in Nat
      /\ timerUnsent' = timerUnsent \cup {[pump |-> p, generation |-> x.generation, frame |-> q[i].frame] : i \in 1..Len(q)}
      /\ pending' = [pending EXCEPT ![p] = <<>>] /\ UNCHANGED <<unsent, out>>
  BY <1>1 DEF Pump!TimerTakes, Pump!ResetBatch, PumpTypes, Pump!Timer
<1>3. pending[p] \in Seq(Pump!Number)
  BY <1>2 DEF PumpTypes
<1>4. CopiesMatch /\ CopiesMatch'
  BY CopiesMatched
<1>5. CASE pending[p] = <<>>
  <2>1. q = <<>> /\ Len(<<>>) = 0
    BY <1>1, <1>5, EmptySeq DEF Pump!TakenBatch
  <2>2. UNCHANGED <<pending, unsent, timerUnsent, out>>
    <3>1. timerUnsent' = timerUnsent
      BY <1>2, <2>1
    <3>2. pending' = pending
      BY <1>2, <1>5 DEF PumpTypes
    <3> QED  BY <1>2, <3>1, <3>2
  <2>3. Pump!Copies(n, r)' = Pump!Copies(n, r)
    BY <2>2, CopiesRest
  <2> QED  BY <2>3, FS_CardinalityType DEF Added
<1>6. CASE pending[p] # <<>>
  <2>1. PICK y, h : /\ y = Pump!Batch(p, pendingSeq[p], pending[p])
                    /\ h = [pump |-> p, generation |-> x.generation, frame |-> y.frame]
    OBVIOUS
  <2>2. q = <<y>> /\ Len(<<y>>) = 1 /\ <<y>>[1] = y
    BY <1>1, <1>6, <2>1 DEF Pump!TakenBatch
  <2>3. timerUnsent' = timerUnsent \cup {h}
    <3>1. 1..Len(q) = {1}
      BY <2>2
    <3> QED  BY <1>2, <2>1, <2>2, <3>1
  <2>4. h.pump = p /\ h.frame.entries = pending[p] /\ h.generation = generation[p]
    BY <1>2, <2>1 DEF Pump!Batch
  <2>5. h \notin timerUnsent
    BY <1>2, <2>4 DEF TimersOld
  <2> DEFINE A == IF r = p THEN InBatchOf(pending[p], n) ELSE {}
             B == IF r = p THEN InTimerOf(h, n) ELSE {}
  <2>6. IsFiniteSet(A) /\ IsFiniteSet(B) /\ Cardinality(A) = Cardinality(B)
    <3>1. IsFiniteSet(Spots(pending[p], n))
      BY <1>3, SpotsFinite
    <3> QED  BY <2>4, <3>1, BatchImage, TimerImage, FS_EmptySet
  <2>7. A \in SUBSET Pump!Copies(n, r)
    BY <1>4 DEF CopiesMatch
  <2>8. ASSUME NEW z \in B PROVE z \notin Pump!Copies(n, r)
    <3>1. z[1] = "timer" /\ z[2] = h
      BY PlaceNames
    <3>2. /\ z \notin InBatchOf(pending[r], n) /\ z \notin SentIn(out[r], n)
          /\ \A t \in timerUnsent : z \notin InTimerOf(t, n)
          /\ \A d \in Callers : z \notin Held(unsent[d], d, n, r)
      BY <2>5, <3>1, PlaceNames
    <3> QED  BY <1>4, <3>2 DEF CopiesMatch
  <2>9. InBatchOf(<<>>, n) = {}
    BY SpotsNone DEF InBatchOf
  <2>10. ASSUME NEW z PROVE z \in Pump!Copies(n, r)' <=> (z \in Pump!Copies(n, r) /\ z \notin A) \/ z \in B
    <3>1. z \in Pump!Copies(n, r)' <=>
            \/ z \in InBatchOf(pending'[r], n)
            \/ \E d \in Callers : z \in Held(unsent[d], d, n, r)
            \/ \E t \in timerUnsent' : t.pump = r /\ z \in InTimerOf(t, n)
            \/ z \in SentIn(out[r], n)
      BY <1>2, <1>4 DEF CopiesMatch
    <3>2. (\E t \in timerUnsent' : t.pump = r /\ z \in InTimerOf(t, n)) <=>
            (\E t \in timerUnsent : t.pump = r /\ z \in InTimerOf(t, n)) \/ z \in B
      BY <2>3, <2>4
    <3>3. z \in InBatchOf(pending'[r], n) <=> z \in InBatchOf(pending[r], n) /\ z \notin A
      BY <1>2, <2>9 DEF PumpTypes
    <3>4. z \in A => z[1] = "pending"
      BY PlaceNames
    <3>5. /\ \A d \in Callers : z \in Held(unsent[d], d, n, r) => z \notin A
          /\ \A t \in timerUnsent : z \in InTimerOf(t, n) => z \notin A
          /\ z \in SentIn(out[r], n) => z \notin A
      BY <3>4, PlaceNames
    <3> HIDE DEF A, B
    <3> QED  BY <1>4, <3>1, <3>2, <3>3, <3>5 DEF CopiesMatch
  <2>11. B \cap (Pump!Copies(n, r) \ A) = {}
    BY <2>8
  <2> HIDE DEF A, B
  <2>12. /\ IsFiniteSet(Pump!Copies(n, r)')
         /\ Cardinality(Pump!Copies(n, r)') \in Nat /\ Cardinality(Pump!Copies(n, r)) \in Nat
         /\ Cardinality(A) \in Nat /\ Cardinality(B) \in Nat
         /\ Cardinality(Pump!Copies(n, r)') + Cardinality(A) = Cardinality(Pump!Copies(n, r)) + Cardinality(B)
    BY <2>6, <2>7, <2>10, <2>11, CopiesExchange
  <2> QED  BY <2>6, <2>12 DEF Added
<1> QED  BY <1>5, <1>6

LEMMA TimerSendsCopies ==
  ASSUME PumpTypes, NEW x, Pump!TimerSends(x), NEW n, NEW r \in Sessions, IsFiniteSet(Pump!Copies(n, r))
  PROVE  Added(n, r, 0)
<1>1. PICK p, f : p = x.pump /\ f = x.frame
  OBVIOUS
<1>2. /\ x \in timerUnsent /\ p \in Sessions /\ f \in Pump!Frame
      /\ timerUnsent' = timerUnsent \ {x} /\ out' = [out EXCEPT ![p] = Append(@, f)]
      /\ UNCHANGED <<pending, unsent>>
  BY <1>1 DEF Pump!TimerSends, PumpTypes, Pump!Holding
<1>3. /\ out'[p] = Append(out[p], f) /\ \A s \in Sessions \ {p} : out'[s] = out[s]
      /\ out[r] \in Seq(Pump!Frame) /\ f.entries \in Seq(Pump!Number)
  BY <1>2 DEF PumpTypes, Pump!Frame
<1>4. CopiesMatch /\ CopiesMatch'
  BY CopiesMatched
<1> DEFINE A == IF r = p THEN InTimerOf(x, n) ELSE {}
           B == IF r = p THEN InOutOf(Len(out[r]) + 1, f, n) ELSE {}
<1>5. IsFiniteSet(SentIn(out[r], n)) /\ IsFiniteSet(Spots(f.entries, n))
  BY <1>3, PartsFinite, SpotsFinite
<1>6. IsFiniteSet(A) /\ IsFiniteSet(B) /\ Cardinality(A) = Cardinality(B)
  BY <1>1, <1>5, TimerImage, OutImage, FS_EmptySet
<1>7. \A z : z \in SentIn(out'[r], n) <=> z \in SentIn(out[r], n) \/ z \in B
  <2>1. CASE r = p
    BY <1>2, <1>3, <1>5, <2>1, SentAppend
  <2>2. CASE r # p
    BY <1>3, <2>2
  <2> QED  BY <2>1, <2>2
<1>8. B \cap SentIn(out[r], n) = {}
  BY <1>2, <1>3, <1>5, SentAppend
<1>9. (\A z \in A : z[1] = "timer" /\ z[2] = x) /\ (\A z \in B : z[1] = "out")
  BY PlaceNames DEF InOutOf
<1>10. A \in SUBSET Pump!Copies(n, r)
  BY <1>1, <1>2, <1>4 DEF CopiesMatch
<1>11. \A z : (\E t \in timerUnsent' : t.pump = r /\ z \in InTimerOf(t, n)) <=>
                (\E t \in timerUnsent : t.pump = r /\ z \in InTimerOf(t, n)) /\ z \notin A
  <2> SUFFICES ASSUME NEW z
               PROVE  (\E t \in timerUnsent' : t.pump = r /\ z \in InTimerOf(t, n)) <=>
                        (\E t \in timerUnsent : t.pump = r /\ z \in InTimerOf(t, n)) /\ z \notin A
    OBVIOUS
  <2>1. \A t : z \in InTimerOf(t, n) => z[2] = t
    BY PlaceNames
  <2>2. \A t : t.pump = r /\ z \in InTimerOf(t, n) => (z \in A <=> t = x)
    BY <1>1, <2>1
  <2> QED  BY <1>1, <1>2, <2>2
<1> HIDE DEF A, B
<1>12. ASSUME NEW z \in B PROVE z \notin Pump!Copies(n, r)
  <2>1. /\ z \notin InBatchOf(pending[r], n) /\ \A t : z \notin InTimerOf(t, n)
        /\ \A d \in Callers : z \notin Held(unsent[d], d, n, r)
    BY <1>9, PlaceNames
  <2> QED  BY <1>4, <1>8, <2>1 DEF CopiesMatch
<1>13. ASSUME NEW z PROVE z \in Pump!Copies(n, r)' <=> (z \in Pump!Copies(n, r) /\ z \notin A) \/ z \in B
  <2>1. z \in Pump!Copies(n, r)' <=>
          \/ z \in InBatchOf(pending[r], n)
          \/ \E d \in Callers : z \in Held(unsent[d], d, n, r)
          \/ \E t \in timerUnsent' : t.pump = r /\ z \in InTimerOf(t, n)
          \/ z \in SentIn(out'[r], n)
    BY <1>2, <1>4 DEF CopiesMatch
  <2>2. z \in A => /\ z \notin InBatchOf(pending[r], n) /\ z \notin SentIn(out[r], n)
                   /\ \A d \in Callers : z \notin Held(unsent[d], d, n, r)
    BY <1>9, PlaceNames
  <2> QED  BY <1>4, <1>7, <1>11, <2>1, <2>2 DEF CopiesMatch
<1>14. B \cap (Pump!Copies(n, r) \ A) = {}
  BY <1>12
<1>15. /\ IsFiniteSet(Pump!Copies(n, r)')
       /\ Cardinality(Pump!Copies(n, r)') \in Nat /\ Cardinality(Pump!Copies(n, r)) \in Nat
       /\ Cardinality(A) \in Nat /\ Cardinality(B) \in Nat
       /\ Cardinality(Pump!Copies(n, r)') + Cardinality(A) = Cardinality(Pump!Copies(n, r)) + Cardinality(B)
  BY <1>6, <1>10, <1>13, <1>14, CopiesExchange
<1> QED  BY <1>6, <1>15 DEF Added

\* The client reads a frame: the copies in it are gone from its session's pump.
LEMMA ReadCopies ==
  ASSUME PumpTypes, NEW s \in Sessions, out[s] # <<>>, out' = [out EXCEPT ![s] = Tail(@)],
         UNCHANGED <<pending, unsent, timerUnsent>>, NEW n, NEW r \in Sessions, IsFiniteSet(Pump!Copies(n, r))
  PROVE  /\ IsFiniteSet(Pump!Copies(n, r)')
         /\ Cardinality(Pump!Copies(n, r)') \in Nat /\ Cardinality(Pump!Copies(n, r)) \in Nat
         /\ Cardinality(Spots(Head(out[s]).entries, n)) \in Nat
         /\ Cardinality(Pump!Copies(n, r)) = Cardinality(Pump!Copies(n, r)')
              + (IF r = s THEN Cardinality(Spots(Head(out[s]).entries, n)) ELSE 0)
<1>1. PICK q, f : q = out[s] /\ f = Head(q)
  OBVIOUS
<1>2. /\ q \in Seq(Pump!Frame) /\ q # <<>> /\ f \in Pump!Frame
      /\ out'[s] = Tail(q) /\ \A t \in Sessions \ {s} : out'[t] = out[t]
  BY <1>1, HeadTailProperties DEF PumpTypes
<1>3. CopiesMatch /\ CopiesMatch'
  BY CopiesMatched
<1>4. Cardinality(Spots(f.entries, n)) \in Nat
  <2>1. f.entries \in Seq(Pump!Number)
    BY <1>2 DEF Pump!Frame
  <2> QED  BY <2>1, SpotsFinite
<1>5. CASE r # s
  <2>1. \A x : x \in Pump!Copies(n, r)' <=> x \in Pump!Copies(n, r)
    BY <1>2, <1>3, <1>5 DEF CopiesMatch
  <2>2. Pump!Copies(n, r)' = Pump!Copies(n, r)
    BY <2>1
  <2> QED  BY <1>1, <1>4, <1>5, <2>2, FS_CardinalityType
<1>6. CASE r = s
  <2> DEFINE A == SentIn(q, n)
             B == SentIn(Tail(q), n)
  <2>1. IsFiniteSet(A)
    BY <1>1, <1>6, PartsFinite
  <2>2. IsFiniteSet(B) /\ Cardinality(A) = Cardinality(B) + Cardinality(Spots(f.entries, n))
    BY <1>1, <1>2, <2>1, SentTail
  <2>3. (\A z \in A : z[1] = "out") /\ (\A z \in B : z[1] = "out")
    BY PlaceNames
  <2>4. A \in SUBSET Pump!Copies(n, r)
    BY <1>1, <1>3, <1>6 DEF CopiesMatch
  <2>5. \A x : x \in Pump!Copies(n, r) <=>
                 \/ x \in InBatchOf(pending[r], n)
                 \/ \E c \in Callers : x \in Held(unsent[c], c, n, r)
                 \/ \E t \in timerUnsent : t.pump = r /\ x \in InTimerOf(t, n)
                 \/ x \in A
    BY <1>1, <1>3, <1>6 DEF CopiesMatch
  <2>6. \A x : x \in Pump!Copies(n, r)' <=>
                 \/ x \in InBatchOf(pending[r], n)
                 \/ \E c \in Callers : x \in Held(unsent[c], c, n, r)
                 \/ \E t \in timerUnsent : t.pump = r /\ x \in InTimerOf(t, n)
                 \/ x \in B
    BY <1>2, <1>3, <1>6 DEF CopiesMatch
  <2> HIDE DEF A, B
  <2>7. \A x : x[1] = "out" => /\ x \notin InBatchOf(pending[r], n) /\ \A t : x \notin InTimerOf(t, n)
                               /\ \A d \in Callers : x \notin Held(unsent[d], d, n, r)
    BY PlaceNames
  <2>8. B \cap (Pump!Copies(n, r) \ A) = {}
    BY <2>3, <2>5, <2>7
  <2>9. \A x : x \in Pump!Copies(n, r)' <=> (x \in Pump!Copies(n, r) /\ x \notin A) \/ x \in B
    BY <2>3, <2>5, <2>6, <2>7
  <2>10. /\ IsFiniteSet(Pump!Copies(n, r)')
         /\ Cardinality(Pump!Copies(n, r)') \in Nat /\ Cardinality(Pump!Copies(n, r)) \in Nat
         /\ Cardinality(A) \in Nat /\ Cardinality(B) \in Nat
         /\ Cardinality(Pump!Copies(n, r)') + Cardinality(A) = Cardinality(Pump!Copies(n, r)) + Cardinality(B)
    BY <2>2, <2>4, <2>8, <2>9, CopiesExchange
  <2> QED  BY <1>1, <1>4, <1>6, <2>2, <2>10
<1> QED  BY <1>5, <1>6

-----------------------------------------------------------------------------
(***************************************************************************)
(* How many copies of an event are on their way to a session, and what     *)
(* each step does to their number.                                         *)
(***************************************************************************)
CallsOf(s, n)   == {c \in calling : c.to = s /\ c.event.seq = n}
BacklogOf(s, n) == {e \in task[s].backlog : e.seq = n}

Finite(s, n) ==
  IsFiniteSet(CallsOf(s, n)) /\ IsFiniteSet(BacklogOf(s, n)) /\ IsFiniteSet(Pump!Copies(n, s))

AllFinite == \A s \in Sessions : \A n \in Pump!Number : Finite(s, n)

PumpsOpen == \A s \in Sessions : pumpClosed[s] => phase[s] = "closed"

Countable == AllFinite /\ TimersOld /\ PumpsOpen

CallsAdded(s, n, k) ==
  /\ IsFiniteSet(CallsOf(s, n)') /\ Cardinality(CallsOf(s, n)) \in Nat
  /\ Cardinality(CallsOf(s, n)') = Cardinality(CallsOf(s, n)) + k

BacklogAdded(s, n, k) ==
  /\ IsFiniteSet(BacklogOf(s, n)') /\ Cardinality(BacklogOf(s, n)) \in Nat
  /\ Cardinality(BacklogOf(s, n)') = Cardinality(BacklogOf(s, n)) + k

\* The step adds k copies of event n to those on their way to session s.
Moves(s, n, k) ==
  /\ Finite(s, n)' /\ OnTheWay(s, n) \in Nat /\ OnTheWay(s, n)' \in Nat
  /\ OnTheWay(s, n)' = OnTheWay(s, n) + k

LEMMA MovesSum ==
  ASSUME NEW s \in Sessions, NEW n, NEW i \in Int, NEW j \in Int, NEW k \in Int,
         CallsAdded(s, n, i), BacklogAdded(s, n, j), Added(n, s, k)
  PROVE  Moves(s, n, i + j + k)
<1>1. /\ Cardinality(CallsOf(s, n)') \in Nat /\ Cardinality(BacklogOf(s, n)') \in Nat
      /\ Cardinality(Pump!Copies(n, s)') \in Nat
  BY FS_CardinalityType DEF CallsAdded, BacklogAdded, Added
<1>2. OnTheWay(s, n) = Cardinality(CallsOf(s, n)) + Cardinality(BacklogOf(s, n)) + Cardinality(Pump!Copies(n, s))
  BY DEF OnTheWay, CallsOf, BacklogOf
<1>3. OnTheWay(s, n)' = Cardinality(CallsOf(s, n)') + Cardinality(BacklogOf(s, n)') + Cardinality(Pump!Copies(n, s)')
  BY DEF OnTheWay, CallsOf, BacklogOf
<1>4. Finite(s, n)'
  BY DEF Finite, CallsAdded, BacklogAdded, Added
<1> QED  BY <1>1, <1>2, <1>3, <1>4 DEF Moves, CallsAdded, BacklogAdded, Added

LEMMA CallsRest ==
  ASSUME NEW s, NEW n, Finite(s, n), UNCHANGED calling
  PROVE  CallsAdded(s, n, 0)
<1>1. CallsOf(s, n)' = CallsOf(s, n)
  BY DEF CallsOf
<1> QED  BY <1>1, FS_CardinalityType DEF CallsAdded, Finite

LEMMA BacklogRest ==
  ASSUME NEW s, NEW n, Finite(s, n), task'[s].backlog = task[s].backlog
  PROVE  BacklogAdded(s, n, 0)
<1>1. BacklogOf(s, n)' = BacklogOf(s, n)
  BY DEF BacklogOf
<1> QED  BY <1>1, FS_CardinalityType DEF BacklogAdded, Finite

LEMMA PumpsRest ==
  ASSUME NEW s \in Sessions, NEW n, Finite(s, n), UNCHANGED <<pending, unsent, timerUnsent, out>>
  PROVE  Added(n, s, 0)
<1>1. Pump!Copies(n, s)' = Pump!Copies(n, s)
  BY CopiesRest
<1> QED  BY <1>1, FS_CardinalityType DEF Added, Finite

\* A step that leaves the callbacks, the backlog and the pumps alone.
LEMMA NothingMoves ==
  ASSUME NEW s \in Sessions, NEW n, Finite(s, n), UNCHANGED <<calling, pumpVars>>,
         task'[s].backlog = task[s].backlog
  PROVE  Moves(s, n, 0)
<1>1. UNCHANGED <<pending, unsent, timerUnsent, out>>
  BY DEF pumpVars
<1>2. CallsAdded(s, n, 0) /\ BacklogAdded(s, n, 0) /\ Added(n, s, 0)
  BY <1>1, CallsRest, BacklogRest, PumpsRest
<1>3. Moves(s, n, 0 + 0 + 0)
  BY <1>2, MovesSum
<1> QED  BY <1>3

\* One callback is run.
LEMMA CallRuns ==
  ASSUME NEW c \in calling, calling' = calling \ {c}, NEW s, NEW n, Finite(s, n)
  PROVE  CallsAdded(s, n, IF s = c.to /\ n = c.event.seq THEN -1 ELSE 0)
<1>1. IsFiniteSet(CallsOf(s, n)) /\ Cardinality(CallsOf(s, n)) \in Nat
  BY FS_CardinalityType DEF Finite
<1>2. CASE s = c.to /\ n = c.event.seq
  <2>1. CallsOf(s, n)' = CallsOf(s, n) \ {c} /\ c \in CallsOf(s, n)
    BY <1>2 DEF CallsOf
  <2>2. IsFiniteSet(CallsOf(s, n) \ {c}) /\ Cardinality(CallsOf(s, n) \ {c}) = Cardinality(CallsOf(s, n)) - 1
    BY <1>1, <2>1, FS_RemoveElement
  <2> QED  BY <1>1, <1>2, <2>1, <2>2 DEF CallsAdded
<1>3. CASE ~(s = c.to /\ n = c.event.seq)
  <2>1. CallsOf(s, n)' = CallsOf(s, n)
    BY <1>3 DEF CallsOf
  <2> QED  BY <1>1, <1>3, <2>1 DEF CallsAdded
<1> QED  BY <1>2, <1>3

\* One event of the backlog is pushed.
LEMMA BacklogShrinks ==
  ASSUME NEW r \in Sessions, NEW e \in task[r].backlog, NEW s, NEW n, Finite(s, n),
         task'[r].backlog = task[r].backlog \ {e}, s # r => task'[s] = task[s]
  PROVE  BacklogAdded(s, n, IF s = r /\ n = e.seq THEN -1 ELSE 0)
<1>1. IsFiniteSet(BacklogOf(s, n)) /\ Cardinality(BacklogOf(s, n)) \in Nat
  BY FS_CardinalityType DEF Finite
<1>2. CASE s = r /\ n = e.seq
  <2>1. BacklogOf(s, n)' = BacklogOf(s, n) \ {e} /\ e \in BacklogOf(s, n)
    BY <1>2 DEF BacklogOf
  <2>2. IsFiniteSet(BacklogOf(s, n) \ {e}) /\ Cardinality(BacklogOf(s, n) \ {e}) = Cardinality(BacklogOf(s, n)) - 1
    BY <1>1, <2>1, FS_RemoveElement
  <2> QED  BY <1>1, <1>2, <2>1, <2>2 DEF BacklogAdded
<1>3. CASE ~(s = r /\ n = e.seq)
  <2>1. BacklogOf(s, n)' = BacklogOf(s, n)
    BY <1>3 DEF BacklogOf
  <2> QED  BY <1>1, <1>3, <2>1 DEF BacklogAdded
<1> QED  BY <1>2, <1>3

\* An event that is numbered is on its way to whoever is attached to its wire.
LEMMA EmitMoves ==
  ASSUME Types, Countable, NEW t \in Emitters, NEW w \in Wires, Emit(t, w),
         NEW s \in Sessions, NEW n \in Pump!Number
  PROVE  Moves(s, n, IF n = seq + 1 /\ s \in subscribers[w] THEN 1 ELSE 0)
<1>1. PICK e : e = [event |-> w, seq |-> seq + 1]
  OBVIOUS
<1>2. /\ \A c \in calling : c.by # t
      /\ calling' = calling \cup {[by |-> t, event |-> e, to |-> r] : r \in subscribers[w]}
      /\ UNCHANGED <<pumpVars, task>>
  BY <1>1 DEF Emit, Log!Emit, Log!Idle, Log!Numbered
<1>3. Finite(s, n) /\ UNCHANGED <<pending, unsent, timerUnsent, out>> /\ e.seq = seq + 1
  BY <1>1, <1>2 DEF Countable, AllFinite, pumpVars
<1>4. BacklogAdded(s, n, 0) /\ Added(n, s, 0)
  BY <1>2, <1>3, BacklogRest, PumpsRest
<1>5. IsFiniteSet(CallsOf(s, n)) /\ Cardinality(CallsOf(s, n)) \in Nat
  BY <1>3, FS_CardinalityType DEF Finite
<1>6. CASE n = seq + 1 /\ s \in subscribers[w]
  <2>1. PICK c : c = [by |-> t, event |-> e, to |-> s]
    OBVIOUS
  <2>2. c \notin CallsOf(s, n)
    BY <1>2, <2>1 DEF CallsOf
  <2>3. CallsOf(s, n)' = CallsOf(s, n) \cup {c}
    BY <1>2, <1>3, <1>6, <2>1 DEF CallsOf
  <2>4. IsFiniteSet(CallsOf(s, n) \cup {c}) /\ Cardinality(CallsOf(s, n) \cup {c}) = Cardinality(CallsOf(s, n)) + 1
    BY <1>5, <2>2, FS_AddElement
  <2>5. CallsAdded(s, n, 1)
    BY <1>5, <2>3, <2>4 DEF CallsAdded
  <2>6. Moves(s, n, 1 + 0 + 0)
    BY <1>4, <2>5, MovesSum
  <2> QED  BY <1>6, <2>6
<1>7. CASE ~(n = seq + 1 /\ s \in subscribers[w])
  <2>1. CallsOf(s, n)' = CallsOf(s, n)
    BY <1>2, <1>3, <1>7 DEF CallsOf
  <2>2. CallsAdded(s, n, 0)
    BY <1>5, <2>1 DEF CallsAdded
  <2>3. Moves(s, n, 0 + 0 + 0)
    BY <1>4, <2>2, MovesSum
  <2> QED  BY <1>7, <2>3
<1> QED  BY <1>6, <1>7

\* A callback hands its event to the pump, which drops it when it is closed.
LEMMA DeliverMoves ==
  ASSUME Types, Countable, NEW c \in calling, Deliver(c), NEW s \in Sessions, NEW n \in Pump!Number
  PROVE  Moves(s, n, IF pumpClosed[c.to] /\ s = c.to /\ n = c.event.seq THEN -1 ELSE 0)
<1>1. /\ calling' = calling \ {c} /\ UNCHANGED <<phase, task>>
      /\ \/ Pump!PushRefused(c.by, c.to)
         \/ Pump!PushEntry(c.by, c.to, c.event.seq) \/ Pump!PushOther(c.by, c.to, c.event.seq)
  BY DEF Deliver, Log!CallSubscriber, Push
<1>2. c.by \in Callers /\ c.to \in Sessions /\ c.event.seq \in Pump!Number
  BY DEF Types, LogTypes, Log!Call, Log!Event, Callers, Pump!Number
<1>3. Finite(s, n) /\ PumpTypes
  BY DEF Countable, AllFinite, Types
<1>4. PICK k \in Int : k = IF s = c.to /\ n = c.event.seq THEN -1 ELSE 0
  OBVIOUS
<1>5. CallsAdded(s, n, k) /\ BacklogAdded(s, n, 0)
  BY <1>1, <1>3, <1>4, CallRuns, BacklogRest
<1>6. CASE Pump!PushRefused(c.by, c.to)
  <2>1. pumpClosed[c.to] /\ UNCHANGED <<pending, unsent, timerUnsent, out>>
    BY <1>6 DEF Pump!PushRefused, Pump!pumpVars
  <2>2. Added(n, s, 0)
    BY <1>3, <2>1, PumpsRest
  <2>3. Moves(s, n, k + 0 + 0)
    BY <1>5, <2>2, MovesSum
  <2> QED  BY <1>4, <2>1, <2>3
<1>7. CASE Pump!PushEntry(c.by, c.to, c.event.seq) \/ Pump!PushOther(c.by, c.to, c.event.seq)
  <2>1. ~pumpClosed[c.to]
    BY <1>7 DEF Pump!PushEntry, Pump!PushFull, Pump!PushWaits, Pump!PushOther
  <2>2. PICK j \in Int : j = IF s = c.to /\ n = c.event.seq THEN 1 ELSE 0
    OBVIOUS
  <2>3. Added(n, s, j)
    BY <1>2, <1>3, <1>7, <2>2, PushCopies DEF Finite
  <2>4. Moves(s, n, k + 0 + j)
    BY <1>5, <2>3, MovesSum
  <2>5. k + 0 + j = 0
    BY <1>4, <2>2
  <2> QED  BY <2>1, <2>4, <2>5
<1> QED  BY <1>1, <1>6, <1>7

\* Senders and timers move copies, and change their number nowhere.
LEMMA PumpStepMoves ==
  ASSUME Types, Countable, PumpStep, NEW s \in Sessions, NEW n \in Pump!Number
  PROVE  Moves(s, n, 0)
<1>1. UNCHANGED <<calling, task>>
  BY DEF PumpStep, logVars
<1>2. Finite(s, n) /\ PumpTypes /\ TimersOld /\ IsFiniteSet(Pump!Copies(n, s))
  BY DEF Countable, AllFinite, Types, Finite
<1>3. CallsAdded(s, n, 0) /\ BacklogAdded(s, n, 0)
  BY <1>1, <1>2, CallsRest, BacklogRest
<1>4. Added(n, s, 0)
  <2>1. ASSUME NEW t \in Callers, Pump!Send(t) PROVE Added(n, s, 0)
    BY <1>2, <2>1, SendCopies
  <2>2. ASSUME NEW x \in timers, Pump!TimerTakes(x) PROVE Added(n, s, 0)
    BY <1>2, <2>2, TimerTakesCopies
  <2>3. ASSUME NEW x \in timers, Pump!TimerStale(x) PROVE Added(n, s, 0)
    BY <1>2, <2>3, PumpsRest DEF Pump!TimerStale
  <2>4. ASSUME NEW x \in timerUnsent, Pump!TimerSends(x) PROVE Added(n, s, 0)
    BY <1>2, <2>4, TimerSendsCopies
  <2> QED  BY <2>1, <2>2, <2>3, <2>4 DEF PumpStep, Callers
<1>5. Moves(s, n, 0 + 0 + 0)
  BY <1>3, <1>4, MovesSum
<1> QED  BY <1>5

\* The events a resumed session is caught up with are on their way to it, once each.
LEMMA ReplayMoves ==
  ASSUME Types, Table, Countable, NEW r \in Sessions, SubscribeReplay(r)
  PROVE  \E events \in SUBSET (1..seq) :
           /\ caught' = [caught EXCEPT ![r] = @ \cup events]
           /\ events = {e.seq : e \in task'[r].backlog}
           /\ \A n \in events : recorded[n] = Head(task[r].rest) /\ task'[r].at = "attach" /\ task'[r].rest = task[r].rest
           /\ \A s \in Sessions : \A n \in Pump!Number : Moves(s, n, IF s = r /\ n \in events THEN 1 ELSE 0)
<1>1. /\ task[r].at = "subscribe" /\ task[r].rest # <<>> /\ resume[r] # None /\ Log!PruneForReplay
      /\ UNCHANGED <<calling, pumpVars, recorded>>
  BY DEF SubscribeReplay, Log!PruneForReplay
<1>2. PICK w : w = Head(task[r].rest)
  OBVIOUS
<1>3. resume[r] \in Nat /\ w \in Wires /\ task[r].backlog = {} /\ task \in [Sessions -> GoodTask]
  BY <1>1, <1>2, TaskParts DEF Types, SessionTypes, Table, SessionTable, Attaching
<1>4. LogTypes' /\ UNCHANGED <<seq, recorded>>
  BY <1>1, PruneTypes DEF Types, Log!PruneForReplay
<1>5. PICK backlog : backlog = Log!ReplayFrom(buffer', resume[r], {w})
  OBVIOUS
<1>6. \A e \in backlog : e \in Log!Event /\ OnRecord(e, recorded) /\ e.event = w /\ e.seq \in 1..seq
  <2>1. buffer' \in Seq(Log!Event) /\ \A i \in 1..Len(buffer') : OnRecord(buffer'[i], recorded)
    BY <1>4 DEF LogTypes
  <2> QED  BY <1>3, <1>5, <2>1, ReplayTyped DEF Types
<1>7. \/ /\ task' = [task EXCEPT ![r] = [at |-> "attach", rest |-> task[r].rest, backlog |-> backlog]]
         /\ caught' = [caught EXCEPT ![r] = @ \cup {e.seq : e \in backlog}]
      \/ task' = [task EXCEPT ![r] = Idle] /\ UNCHANGED caught
  BY <1>2, <1>5 DEF SubscribeReplay, Goto
<1>8. PICK b : /\ b \in {backlog, {}} /\ task'[r].backlog = b
               /\ b # {} => task'[r].at = "attach" /\ task'[r].rest = task[r].rest
               /\ caught' = [caught EXCEPT ![r] = @ \cup {e.seq : e \in b}]
               /\ \A s \in Sessions \ {r} : task'[s] = task[s]
  <2>1. CASE /\ task' = [task EXCEPT ![r] = [at |-> "attach", rest |-> task[r].rest, backlog |-> backlog]]
             /\ caught' = [caught EXCEPT ![r] = @ \cup {e.seq : e \in backlog}]
    <3>1. task'[r] = [at |-> "attach", rest |-> task[r].rest, backlog |-> backlog] /\ \A s \in Sessions \ {r} : task'[s] = task[s]
      BY <1>3, <2>1
    <3> WITNESS backlog
    <3> QED  BY <2>1, <3>1
  <2>2. CASE task' = [task EXCEPT ![r] = Idle] /\ UNCHANGED caught
    <3>1. PICK none : none = {}
      OBVIOUS
    <3>2. task'[r] = Idle /\ Idle.backlog = none /\ \A s \in Sessions \ {r} : task'[s] = task[s]
      BY <1>3, <2>2, <3>1 DEF Idle
    <3>3. caught' = [caught EXCEPT ![r] = @ \cup {e.seq : e \in none}]
      BY <2>2, <3>1 DEF Types, HistoryTypes
    <3> WITNESS none
    <3> QED  BY <3>1, <3>2, <3>3
  <2> QED  BY <1>7, <2>1, <2>2
<1>9. \A e \in b : e \in Log!Event /\ OnRecord(e, recorded) /\ e.event = w /\ e.seq \in 1..seq
  BY <1>6, <1>8
<1>10. PICK events : events = {e.seq : e \in b}
  OBVIOUS
<1>11. \A n \in events : recorded[n] = w
  BY <1>9, <1>10 DEF OnRecord
<1>12. ASSUME NEW s \in Sessions, NEW n \in Pump!Number PROVE Moves(s, n, IF s = r /\ n \in events THEN 1 ELSE 0)
  <2>1. Finite(s, n) /\ UNCHANGED <<pending, unsent, timerUnsent, out>>
    BY <1>1 DEF Countable, AllFinite, pumpVars
  <2>2. CallsAdded(s, n, 0) /\ Added(n, s, 0)
    BY <1>1, <2>1, CallsRest, PumpsRest
  <2>3. PICK k \in Int : k = IF s = r /\ n \in events THEN 1 ELSE 0
    OBVIOUS
  <2>4. BacklogAdded(s, n, k)
    <3>1. CASE s # r
      BY <1>8, <2>1, <2>3, <3>1, BacklogRest
    <3>2. CASE s = r
      <4>1. BacklogOf(s, n) = {} /\ BacklogOf(s, n)' = {e \in b : e.seq = n}
        BY <1>3, <1>8, <3>2 DEF BacklogOf
      <4>2. CASE n \in events
        <5>1. PICK e \in b : e.seq = n
          BY <1>10, <4>2
        <5>2. \A d \in b : d.seq = n => d = e
          BY <1>9, <5>1 DEF Log!Event
        <5>3. BacklogOf(s, n)' = {e}
          BY <4>1, <5>1, <5>2
        <5>4. IsFiniteSet(BacklogOf(s, n)') /\ Cardinality(BacklogOf(s, n)') = 1
          BY <5>3, FS_Singleton
        <5>5. Cardinality(BacklogOf(s, n)) = 0
          BY <4>1, FS_EmptySet
        <5> QED  BY <2>3, <3>2, <4>2, <5>4, <5>5 DEF BacklogAdded
      <4>3. CASE n \notin events
        <5>1. BacklogOf(s, n)' = {}
          BY <1>10, <4>1, <4>3
        <5> QED  BY <2>3, <3>2, <4>1, <4>3, <5>1, FS_EmptySet DEF BacklogAdded
      <4> QED  BY <4>2, <4>3
    <3> QED  BY <3>1, <3>2
  <2>5. Moves(s, n, 0 + k + 0)
    BY <2>2, <2>4, MovesSum
  <2> QED  BY <2>3, <2>5
<1>13. /\ events \in SUBSET (1..seq)
       /\ caught' = [caught EXCEPT ![r] = @ \cup events]
       /\ events = {e.seq : e \in task'[r].backlog}
       /\ \A n \in events : recorded[n] = Head(task[r].rest) /\ task'[r].at = "attach" /\ task'[r].rest = task[r].rest
  BY <1>2, <1>8, <1>9, <1>10, <1>11
<1> QED  BY <1>12, <1>13

\* An event of the backlog goes to the pump, which is open while the session subscribes.
LEMMA BacklogMoves ==
  ASSUME Types, Table, Countable, NEW r \in Sessions, SubscribeBacklog(r), NEW s \in Sessions, NEW n \in Pump!Number
  PROVE  Moves(s, n, 0)
<1>1. PICK e \in task[r].backlog : Push(r, r, e) /\ Goto(r, "backlog", task[r].rest, task[r].backlog \ {e})
  BY DEF SubscribeBacklog
<1>2. task[r].at = "backlog" /\ UNCHANGED calling /\ task \in [Sessions -> GoodTask]
  BY DEF SubscribeBacklog, logVars, Types, SessionTypes
<1>3. task'[r].backlog = task[r].backlog \ {e} /\ \A q \in Sessions \ {r} : task'[q] = task[q]
  BY <1>1, <1>2 DEF Goto
<1>4. ~pumpClosed[r]
  <2>1. task[r] # Idle
    BY <1>2 DEF Idle
  <2>2. phase[r] = "open"
    BY <2>1 DEF Table, SessionTable
  <2> QED  BY <2>2 DEF Countable, PumpsOpen
<1>5. Pump!PushEntry(r, r, e.seq) \/ Pump!PushOther(r, r, e.seq)
  BY <1>1, <1>4 DEF Push, Pump!PushRefused
<1>6. r \in Callers /\ e.seq \in Pump!Number /\ PumpTypes /\ Finite(s, n)
  <2>1. e \in Log!Event
    BY <1>2 DEF GoodTask, Task
  <2> QED  BY <2>1 DEF Log!Event, Pump!Number, Callers, Types, Countable, AllFinite
<1>7. PICK k \in Int, j \in Int : /\ k = IF s = r /\ n = e.seq THEN -1 ELSE 0
                                  /\ j = IF s = r /\ n = e.seq THEN 1 ELSE 0
  OBVIOUS
<1>8. CallsAdded(s, n, 0)
  BY <1>2, <1>6, CallsRest
<1>9. BacklogAdded(s, n, k)
  BY <1>3, <1>6, <1>7, BacklogShrinks
<1>10. Added(n, s, j)
  BY <1>5, <1>6, <1>7, PushCopies DEF Finite
<1>11. Moves(s, n, 0 + k + j)
  BY <1>8, <1>9, <1>10, MovesSum
<1>12. 0 + k + j = 0
  BY <1>7
<1> QED  BY <1>11, <1>12

\* What the client reads is no longer on its way: each copy of it counts as read.
LEMMA ReadMoves ==
  ASSUME Types, Countable, NEW r \in Sessions, ClientReads(r), NEW s \in Sessions, NEW n \in Pump!Number
  PROVE  \E k \in Nat : /\ Moves(s, n, -k)
                        /\ n \in 1..MaxSeq => got'[s][n] = got[s][n] + k
                        /\ s # r => k = 0
<1>1. PICK f, k : f = Head(out[r]) /\ k = IF s = r THEN Cardinality(Spots(f.entries, n)) ELSE 0
  OBVIOUS
<1>2. /\ out[r] # <<>> /\ out' = [out EXCEPT ![r] = Tail(@)]
      /\ UNCHANGED <<pending, unsent, timerUnsent, calling, task>>
      /\ got' = [got EXCEPT ![r] =
                   [m \in 1..MaxSeq |-> @[m] + Cardinality({i \in DOMAIN f.entries : f.entries[i] = m})]]
  BY <1>1 DEF ClientReads, logVars
<1>3. PumpTypes /\ Finite(s, n) /\ got \in [Sessions -> [1..MaxSeq -> Nat]]
  BY DEF Types, ClientTypes, Countable, AllFinite
<1>4. /\ IsFiniteSet(Pump!Copies(n, s)')
      /\ Cardinality(Pump!Copies(n, s)') \in Nat /\ Cardinality(Pump!Copies(n, s)) \in Nat
      /\ Cardinality(Spots(f.entries, n)) \in Nat
      /\ Cardinality(Pump!Copies(n, s)) = Cardinality(Pump!Copies(n, s)')
           + (IF s = r THEN Cardinality(Spots(f.entries, n)) ELSE 0)
  BY <1>1, <1>2, <1>3, ReadCopies DEF Finite
<1>5. k \in Nat /\ Added(n, s, -k)
  BY <1>1, <1>4 DEF Added
<1>6. CallsAdded(s, n, 0) /\ BacklogAdded(s, n, 0)
  BY <1>2, <1>3, CallsRest, BacklogRest
<1>7. Moves(s, n, -k)
  <2>1. Moves(s, n, 0 + 0 + (-k))
    BY <1>5, <1>6, MovesSum
  <2>2. 0 + 0 + (-k) = -k
    BY <1>5
  <2> QED  BY <2>1, <2>2
<1>8. ASSUME n \in 1..MaxSeq PROVE got'[s][n] = got[s][n] + k
  <2>1. CASE s # r
    <3>1. k = 0 /\ got[s][n] \in Nat
      BY <1>1, <1>3, <1>8, <2>1
    <3>2. got'[s] = got[s]
      BY <1>2, <1>3, <2>1
    <3> QED  BY <3>1, <3>2
  <2>2. CASE s = r
    <3>1. got'[s] = [m \in 1..MaxSeq |-> got[s][m] + Cardinality({i \in DOMAIN f.entries : f.entries[i] = m})]
      BY <1>2, <1>3, <2>2
    <3>2. Spots(f.entries, n) = {i \in DOMAIN f.entries : f.entries[i] = n}
      BY DEF Spots
    <3> QED  BY <1>1, <1>8, <2>2, <3>1, <3>2
  <2> QED  BY <2>1, <2>2
<1>9. s # r => k = 0
  BY <1>1
<1> QED  BY <1>5, <1>7, <1>8, <1>9

LEMMA ClosePumpMoves ==
  ASSUME Types, Countable, NEW r \in Sessions, CloseSessionPump(r), NEW s \in Sessions, NEW n \in Pump!Number
  PROVE  Moves(s, n, 0)
<1>1. Pump!ClosePump(r, r) /\ UNCHANGED <<calling, task>>
  BY DEF CloseSessionPump, logVars
<1>2. PumpTypes /\ Finite(s, n) /\ r \in Callers
  BY DEF Types, Countable, AllFinite, Callers
<1>3. CallsAdded(s, n, 0) /\ BacklogAdded(s, n, 0) /\ Added(n, s, 0)
  BY <1>1, <1>2, CallsRest, BacklogRest, CloseCopies DEF Finite
<1>4. Moves(s, n, 0 + 0 + 0)
  BY <1>3, MovesSum
<1> QED  BY <1>4

\* The other steps of a session, and those of other clients' sessions, move nothing.
Plain ==
  \/ \E w \in Wires : OthersSubscribe(w)
  \/ \E s \in Sessions, last \in -1..MaxSeq : Hello(s, last)
  \/ \E s \in Sessions, wires \in Requests : SubscribeFrame(s, wires)
  \/ \E s \in Sessions : \/ SubscribeAgain(s) \/ SubscribeFresh(s) \/ SubscribeAttach(s)
                         \/ SubscribeInsert(s) \/ SubscribeAnswer(s) \/ Disconnect(s)
  \/ \E s \in Sessions, w \in Wires : CloseDetach(s, w) \/ UnsubscribeFrame(s, w)

LEMMA PlainRests == Plain => UNCHANGED <<calling, pumpVars, recorded, seq, got, owed, caught>>
BY DEF Plain, OthersSubscribe, Hello, SubscribeFrame, SubscribeAgain, SubscribeFresh, SubscribeAttach,
       SubscribeInsert, SubscribeAnswer, Disconnect, CloseDetach, UnsubscribeFrame, Log!PruneForReplay,
       Log!Subscribe, Log!Unsubscribe, logVars, clientVars, history

LEMMA PlainMoves ==
  ASSUME Types, Table, Countable, Plain, NEW s \in Sessions, NEW n \in Pump!Number
  PROVE  Moves(s, n, 0)
<1>1. UNCHANGED <<calling, pumpVars>> /\ Finite(s, n) /\ task \in [Sessions -> GoodTask] /\ SessionTable(s)
  BY PlainRests DEF Countable, AllFinite, Types, SessionTypes, Table
<1>2. task'[s].backlog = task[s].backlog
  <2>1. ASSUME NEW r \in Sessions,
               \/ \E wires \in Requests : SubscribeFrame(r, wires)
               \/ SubscribeAgain(r) \/ SubscribeFresh(r) \/ SubscribeInsert(r) \/ SubscribeAnswer(r)
        PROVE  task'[s].backlog = task[s].backlog
    <3>1. SessionTable(r)
      BY DEF Table
    <3>2. task[r].backlog = {}
      BY <2>1, <3>1 DEF SubscribeFrame, SubscribeAgain, SubscribeFresh, SubscribeInsert, SubscribeAnswer, Ready,
                        SessionTable, Attaching, Idle
    <3>3. \E at, rest : task' = [task EXCEPT ![r] = [at |-> at, rest |-> rest, backlog |-> {}]]
      BY <2>1 DEF SubscribeFrame, SubscribeAgain, SubscribeFresh, SubscribeInsert, SubscribeAnswer, Goto, Idle
    <3> QED  BY <1>1, <3>2, <3>3
  <2>2. ASSUME NEW r \in Sessions, SubscribeAttach(r) PROVE task'[s].backlog = task[s].backlog
    <3>1. task' = [task EXCEPT ![r] = [at |-> "backlog", rest |-> task[r].rest, backlog |-> task[r].backlog]]
      BY <2>2 DEF SubscribeAttach, Goto
    <3> QED  BY <1>1, <3>1
  <2>3. CASE UNCHANGED task
    BY <2>3
  <2> QED  BY <2>1, <2>2, <2>3 DEF Plain, OthersSubscribe, Hello, Disconnect, CloseDetach, UnsubscribeFrame
<1> QED  BY <1>1, <1>2, NothingMoves

\* A new engine holds nothing.
LEMMA EmptyPumps ==
  ASSUME NEW s \in Sessions, NEW n, pending[s] = <<>>, \A c \in Callers : unsent[c] = <<>>,
         timerUnsent = {}, out[s] = <<>>
  PROVE  Pump!Copies(n, s) = {}
<1>1. CopiesMatch
  BY CopiesMatched
<1>2. InBatchOf(<<>>, n) = {} /\ (\A c : Held(<<>>, c, n, s) = {}) /\ SentIn(<<>>, n) = {}
  BY SpotsNone, HeldNone DEF InBatchOf, SentIn
<1>3. \A x : x \notin Pump!Copies(n, s)
  BY <1>1, <1>2 DEF CopiesMatch
<1> QED  BY <1>3

NothingThere == \A s \in Sessions : \A n \in Pump!Number : Finite(s, n) /\ OnTheWay(s, n) = 0

LEMMA EmptyEngine ==
  ASSUME pending = [p \in Sessions |-> <<>>], unsent = [c \in Callers |-> <<>>], timerUnsent = {},
         out = [p \in Sessions |-> <<>>], calling = {}, task = [s \in Sessions |-> Idle]
  PROVE  NothingThere
<1> SUFFICES ASSUME NEW s \in Sessions, NEW n \in Pump!Number PROVE Finite(s, n) /\ OnTheWay(s, n) = 0
  BY DEF NothingThere
<1>1. Pump!Copies(n, s) = {}
  BY EmptyPumps
<1>2. CallsOf(s, n) = {} /\ BacklogOf(s, n) = {}
  BY DEF CallsOf, BacklogOf, Idle
<1>3. OnTheWay(s, n) = Cardinality(CallsOf(s, n)) + Cardinality(BacklogOf(s, n)) + Cardinality(Pump!Copies(n, s))
  BY DEF OnTheWay, CallsOf, BacklogOf
<1>4. IsFiniteSet({}) /\ Cardinality({}) = 0
  BY FS_EmptySet
<1> QED  BY <1>1, <1>2, <1>3, <1>4 DEF Finite

EmptyState ==
  /\ pending = [p \in Sessions |-> <<>>] /\ unsent = [c \in Callers |-> <<>>] /\ timerUnsent = {}
  /\ out = [p \in Sessions |-> <<>>] /\ calling = {} /\ task = [s \in Sessions |-> Idle]
  /\ pumpClosed = [s \in Sessions |-> FALSE]

LEMMA EmptyCounts == EmptyState => NothingThere /\ Countable
<1> SUFFICES ASSUME EmptyState PROVE NothingThere /\ Countable
  OBVIOUS
<1>1. NothingThere
  BY EmptyEngine DEF EmptyState
<1> QED  BY <1>1 DEF Countable, AllFinite, NothingThere, TimersOld, PumpsOpen, EmptyState

LEMMA InitCounts == Init => NothingThere /\ Countable
<1>1. Init => EmptyState
  BY DEF Init, Pump!PumpInit, Log!LogInit, EmptyState, Callers
<1> QED  BY <1>1, EmptyCounts

LEMMA RestartCounts == Restart => NothingThere' /\ Countable'
<1>1. Restart => EmptyState'
  BY DEF Restart, Pump!NewPumps, Log!NewLog, EmptyState, Callers
<1>2. (EmptyState => NothingThere /\ Countable)'
  BY EmptyCounts, PTL
<1> QED  BY <1>1, <1>2

\* A timer task that holds a batch stays one of an earlier generation.
LEMMA KeepsOld ==
  ASSUME PumpTypes, TimersOld, \A p \in Sessions : generation'[p] \in Nat /\ generation'[p] >= generation[p],
         \A t \in timerUnsent' : t \in timerUnsent \/ t.generation < generation'[t.pump]
  PROVE  TimersOld'
<1> SUFFICES ASSUME NEW t \in timerUnsent' PROVE t.generation < generation'[t.pump]
  BY DEF TimersOld
<1>1. CASE t \in timerUnsent
  <2>1. t.pump \in Sessions /\ t.generation \in Nat /\ generation[t.pump] \in Nat
    BY <1>1 DEF PumpTypes, Pump!Holding
  <2>2. t.generation < generation[t.pump]
    BY <1>1 DEF TimersOld
  <2> QED  BY <2>1, <2>2
<1> QED  BY <1>1

LEMMA PumpKeepsOld ==
  ASSUME PumpTypes, TimersOld,
         \/ \E c \in Callers, p \in Sessions :
              \/ Pump!PushRefused(c, p) \/ Pump!ClosePump(c, p)
              \/ \E m \in Pump!Number : Pump!PushEntry(c, p, m) \/ Pump!PushOther(c, p, m)
         \/ \E c \in Callers : Pump!Send(c)
         \/ \E x \in timers : Pump!TimerTakes(x) \/ Pump!TimerStale(x)
         \/ \E x \in timerUnsent : Pump!TimerSends(x)
  PROVE  TimersOld'
<1>1. \A p \in Sessions : generation[p] \in Nat
  BY DEF PumpTypes
<1>2. ASSUME UNCHANGED generation, timerUnsent' \subseteq timerUnsent PROVE TimersOld'
  BY <1>1, <1>2, KeepsOld
<1>3. ASSUME NEW p \in Sessions, generation' = [generation EXCEPT ![p] = @ + 1],
             \A t \in timerUnsent' : t \in timerUnsent \/ (t.pump = p /\ t.generation = generation[p])
      PROVE  TimersOld'
  <2>1. \A q \in Sessions : generation'[q] \in Nat /\ generation'[q] >= generation[q]
    BY <1>1, <1>3 DEF PumpTypes
  <2>2. generation'[p] = generation[p] + 1
    BY <1>1, <1>3 DEF PumpTypes
  <2>3. \A t \in timerUnsent' : t \in timerUnsent \/ t.generation < generation'[t.pump]
    BY <1>1, <1>3, <2>2
  <2> QED  BY <2>1, <2>3, KeepsOld
<1>4. ASSUME NEW c \in Callers, NEW p \in Sessions,
             \/ Pump!PushRefused(c, p) \/ Pump!ClosePump(c, p)
             \/ \E m \in Pump!Number : Pump!PushEntry(c, p, m) \/ Pump!PushOther(c, p, m)
      PROVE  TimersOld'
  <2>1. /\ UNCHANGED timerUnsent
        /\ UNCHANGED generation \/ generation' = [generation EXCEPT ![p] = @ + 1]
    BY <1>4 DEF Pump!PushRefused, Pump!ClosePump, Pump!PushEntry, Pump!PushFull, Pump!PushWaits, Pump!PushOther,
                Pump!ResetBatch, Pump!pumpVars
  <2> QED  BY <1>2, <1>3, <2>1
<1>5. CASE \E c \in Callers : Pump!Send(c)
  BY <1>2, <1>5 DEF Pump!Send
<1>6. CASE \E x \in timers : Pump!TimerStale(x)
  BY <1>2, <1>6 DEF Pump!TimerStale
<1>7. CASE \E x \in timerUnsent : Pump!TimerSends(x)
  BY <1>2, <1>7 DEF Pump!TimerSends
<1>8. ASSUME NEW x \in timers, Pump!TimerTakes(x) PROVE TimersOld'
  <2>1. /\ x.pump \in Sessions /\ x.generation = generation[x.pump]
        /\ generation' = [generation EXCEPT ![x.pump] = @ + 1]
        /\ \A t \in timerUnsent' : t \in timerUnsent \/ (t.pump = x.pump /\ t.generation = x.generation)
    BY <1>8 DEF PumpTypes, Pump!Timer, Pump!TimerTakes, Pump!ResetBatch
  <2> QED  BY <1>3, <2>1
<1> QED  BY <1>4, <1>5, <1>6, <1>7, <1>8

LEMMA StaysOpen ==
  ASSUME Types, PumpsOpen, [Next]_vars, ~Restart
  PROVE  PumpsOpen'
<1>1. \A s \in Sessions : phase[s] = "closed" => phase'[s] = "closed"
  <2>1. ASSUME NEW r \in Sessions, \E p : phase' = [phase EXCEPT ![r] = p], phase[r] # "closed"
        PROVE  \A s \in Sessions : phase[s] = "closed" => phase'[s] = "closed"
    BY <2>1 DEF Types, SessionTypes
  <2>2. CASE UNCHANGED phase
    BY <2>2
  <2>3. ASSUME NEW r \in Sessions, (\E last \in -1..MaxSeq : Hello(r, last)) \/ Disconnect(r) \/ CloseSessionPump(r)
        PROVE  \A s \in Sessions : phase[s] = "closed" => phase'[s] = "closed"
    BY <2>1, <2>3 DEF Hello, Disconnect, CloseSessionPump, Ready
  <2>4. \/ UNCHANGED phase
        \/ \E r \in Sessions : (\E last \in -1..MaxSeq : Hello(r, last)) \/ Disconnect(r) \/ CloseSessionPump(r)
    BY DEF Next, Emit, OthersSubscribe, Deliver, PumpStep, SubscribeFrame, SubscribeStep, SubscribeAgain,
           SubscribeFresh, SubscribeReplay, SubscribeAttach, SubscribeBacklog, SubscribeInsert, SubscribeAnswer,
           CloseStep, CloseDetach, ClientReads, UnsubscribeFrame, vars
  <2> QED  BY <2>2, <2>3, <2>4
<1>2. \A s \in Sessions : pumpClosed'[s] => pumpClosed[s] \/ phase'[s] = "closed"
  <2>1. CASE \E r \in Sessions : CloseSessionPump(r)
    <3>1. PICK r \in Sessions : CloseSessionPump(r)
      BY <2>1
    <3>2. /\ pumpClosed' = [pumpClosed EXCEPT ![r] = TRUE] /\ phase' = [phase EXCEPT ![r] = "closed"]
      BY <3>1 DEF CloseSessionPump, Pump!ClosePump
    <3> QED  BY <3>2 DEF Types, SessionTypes, PumpTypes
  <2>2. CASE UNCHANGED pumpClosed
    BY <2>2
  <2>3. (\E r \in Sessions : CloseSessionPump(r)) \/ UNCHANGED pumpClosed
    <3>1. ASSUME NEW c, NEW p, NEW e, Push(c, p, e) PROVE UNCHANGED pumpClosed
      BY <3>1 DEF Push, Pump!PushRefused, Pump!PushEntry, Pump!PushFull, Pump!PushWaits, Pump!PushOther, Pump!pumpVars
    <3>2. CASE \E c \in calling : Deliver(c)
      BY <3>1, <3>2 DEF Deliver
    <3>3. CASE \E r \in Sessions : SubscribeBacklog(r)
      BY <3>1, <3>3 DEF SubscribeBacklog
    <3>4. CASE PumpStep
      BY <3>4 DEF PumpStep, Pump!Send, Pump!TimerTakes, Pump!TimerStale, Pump!TimerSends
    <3>5. CASE Plain
      BY <3>5, PlainRests DEF pumpVars
    <3>6. CASE \E t \in Emitters, w \in Wires : Emit(t, w)
      BY <3>6 DEF Emit, pumpVars
    <3>7. CASE \E r \in Sessions : SubscribeReplay(r) \/ ClientReads(r)
      BY <3>7 DEF SubscribeReplay, ClientReads, pumpVars
    <3>8. CASE UNCHANGED vars
      BY <3>8 DEF vars, pumpVars
    <3> QED  BY <3>2, <3>3, <3>4, <3>5, <3>6, <3>7, <3>8 DEF Next, SubscribeStep, CloseStep, Plain
  <2> QED  BY <2>1, <2>2, <2>3
<1> QED  BY <1>1, <1>2 DEF PumpsOpen

-----------------------------------------------------------------------------
(***************************************************************************)
(* NeverTwice.  It follows from Once: everything a session was given or is *)
(* being given is on its record of what it is owed or was caught up with,  *)
(* and a second copy means that the wire was left.  That a replay of a     *)
(* wire never repeats what a session was called with live needs Listening: *)
(* a wire on the record is still subscribed, being subscribed, or left.    *)
(***************************************************************************)
QuietStep ==
  \/ \E c \in calling : Deliver(c)
  \/ PumpStep \/ Plain
  \/ \E r \in Sessions : SubscribeBacklog(r) \/ ClientReads(r) \/ CloseSessionPump(r)
  \/ UNCHANGED vars

LEMMA StepKinds ==
  ASSUME [Next]_vars
  PROVE  \/ \E t \in Emitters, w \in Wires : Emit(t, w)
         \/ \E r \in Sessions : SubscribeReplay(r)
         \/ Restart
         \/ QuietStep
BY DEF Next, SubscribeStep, CloseStep, QuietStep, Plain

Total(s, n) == got[s][n] + OnTheWay(s, n)

\* A quiet step gives nobody an event, and puts none on anyone's record.
LEMMA QuietMoves ==
  ASSUME Types, Table, Countable, QuietStep, NEW s \in Sessions, NEW n \in Pump!Number
  PROVE  /\ Finite(s, n)'
         /\ n \in 1..MaxSeq => /\ Total(s, n)' <= Total(s, n)
                               /\ OnTheWay(s, n) \in Nat /\ OnTheWay(s, n)' \in Nat /\ got'[s][n] \in Nat
         /\ UNCHANGED <<recorded, seq, owed, caught>>
<1>1. got \in [Sessions -> [1..MaxSeq -> Nat]] /\ \A c \in calling : c.to \in Sessions
  BY DEF Types, ClientTypes, LogTypes, Log!Call
<1>2. ASSUME NEW k \in Int, k <= 0, Moves(s, n, k), UNCHANGED <<got, recorded, seq, owed, caught>>
      PROVE  /\ Finite(s, n)'
             /\ n \in 1..MaxSeq => /\ Total(s, n)' <= Total(s, n)
                                   /\ OnTheWay(s, n) \in Nat /\ OnTheWay(s, n)' \in Nat /\ got'[s][n] \in Nat
             /\ UNCHANGED <<recorded, seq, owed, caught>>
  <2>1. n \in 1..MaxSeq => got[s][n] \in Nat /\ got'[s][n] = got[s][n]
    BY <1>1, <1>2
  <2> QED  BY <1>2, <2>1 DEF Moves, Total
<1>3. CASE \E c \in calling : Deliver(c)
  <2>1. PICK c \in calling : Deliver(c)
    BY <1>3
  <2>2. PICK k \in Int : k = IF pumpClosed[c.to] /\ s = c.to /\ n = c.event.seq THEN -1 ELSE 0
    OBVIOUS
  <2>3. Moves(s, n, k) /\ k <= 0
    BY <2>1, <2>2, DeliverMoves
  <2>4. UNCHANGED <<got, recorded, seq, owed, caught>>
    BY <2>1 DEF Deliver, Log!CallSubscriber, clientVars, history
  <2> QED  BY <1>2, <2>3, <2>4
<1>4. CASE PumpStep
  <2>1. Moves(s, n, 0) /\ UNCHANGED <<got, recorded, seq, owed, caught>>
    BY <1>4, PumpStepMoves DEF PumpStep, logVars, clientVars, history
  <2> QED  BY <1>2, <2>1
<1>5. CASE Plain
  <2>1. Moves(s, n, 0) /\ UNCHANGED <<got, recorded, seq, owed, caught>>
    BY <1>5, PlainMoves, PlainRests
  <2> QED  BY <1>2, <2>1
<1>6. ASSUME NEW r \in Sessions, SubscribeBacklog(r) \/ CloseSessionPump(r)
      PROVE  Moves(s, n, 0) /\ UNCHANGED <<got, recorded, seq, owed, caught>>
  BY <1>6, BacklogMoves, ClosePumpMoves DEF SubscribeBacklog, CloseSessionPump, logVars, clientVars, history
<1>7. CASE \E r \in Sessions : SubscribeBacklog(r) \/ CloseSessionPump(r)
  BY <1>2, <1>6, <1>7
<1>8. CASE \E r \in Sessions : ClientReads(r)
  <2>1. PICK r \in Sessions : ClientReads(r)
    BY <1>8
  <2>2. PICK k \in Nat : Moves(s, n, -k) /\ (n \in 1..MaxSeq => got'[s][n] = got[s][n] + k)
    BY <2>1, ReadMoves
  <2>3. UNCHANGED <<recorded, seq, owed, caught>>
    BY <2>1 DEF ClientReads, logVars, history
  <2>4. n \in 1..MaxSeq => got[s][n] \in Nat
    BY <1>1
  <2> QED  BY <2>2, <2>3, <2>4 DEF Moves, Total
<1>9. CASE UNCHANGED vars
  <2>1. Finite(s, n) /\ UNCHANGED <<calling, pumpVars, task, got, recorded, seq, owed, caught>>
    BY <1>9 DEF vars, logVars, clientVars, history, Countable, AllFinite
  <2>2. Moves(s, n, 0)
    BY <2>1, NothingMoves
  <2> QED  BY <1>2, <2>1, <2>2
<1> QED  BY <1>3, <1>4, <1>5, <1>7, <1>8, <1>9 DEF QuietStep

LEMMA NextOld ==
  ASSUME Types, TimersOld, [Next]_vars, ~Restart
  PROVE  TimersOld'
<1>1. PumpTypes
  BY DEF Types
<1>2. ASSUME UNCHANGED <<generation, timerUnsent>> PROVE TimersOld'
  BY <1>2 DEF TimersOld
<1>3. ASSUME NEW c \in Callers, NEW p \in Sessions, NEW e \in Log!Event, Push(c, p, e) PROVE TimersOld'
  <2>1. e.seq \in Pump!Number
    BY DEF Log!Event, Pump!Number
  <2> QED  BY <1>1, <1>3, <2>1, PumpKeepsOld DEF Push
<1>4. CASE \E c \in calling : Deliver(c)
  <2>1. PICK c \in calling : Push(c.by, c.to, c.event)
    BY <1>4 DEF Deliver
  <2>2. c.by \in Callers /\ c.to \in Sessions /\ c.event \in Log!Event
    BY DEF Types, LogTypes, Log!Call, Callers
  <2> QED  BY <1>3, <2>1, <2>2
<1>5. CASE \E r \in Sessions : SubscribeBacklog(r)
  <2>1. PICK r \in Sessions : \E e \in task[r].backlog : Push(r, r, e)
    BY <1>5 DEF SubscribeBacklog
  <2>2. task[r].backlog \in SUBSET Log!Event /\ r \in Callers
    BY DEF Types, SessionTypes, GoodTask, Task, Callers
  <2> QED  BY <1>3, <2>1, <2>2
<1>6. CASE PumpStep
  BY <1>1, <1>6, PumpKeepsOld DEF PumpStep, Callers
<1>7. CASE \E r \in Sessions : CloseSessionPump(r)
  BY <1>1, <1>7, PumpKeepsOld DEF CloseSessionPump, Callers
<1>8. CASE Plain
  BY <1>2, <1>8, PlainRests DEF pumpVars
<1>9. CASE (\E t \in Emitters, w \in Wires : Emit(t, w)) \/ (\E r \in Sessions : SubscribeReplay(r) \/ ClientReads(r))
  BY <1>2, <1>9 DEF Emit, SubscribeReplay, ClientReads, pumpVars
<1>10. CASE UNCHANGED vars
  BY <1>2, <1>10 DEF vars, pumpVars
<1> QED  BY <1>4, <1>5, <1>6, <1>7, <1>8, <1>9, <1>10, StepKinds DEF QuietStep

LEMMA NextCountable == Types /\ Table /\ Countable /\ [Next]_vars => Countable'
<1> SUFFICES ASSUME Types, Table, Countable, [Next]_vars PROVE Countable'
  OBVIOUS
<1>1. CASE Restart
  BY <1>1, RestartCounts
<1>2. CASE ~Restart
  <2>1. TimersOld' /\ PumpsOpen'
    BY <1>2, NextOld, StaysOpen DEF Countable
  <2>2. ASSUME NEW s \in Sessions, NEW n \in Pump!Number PROVE Finite(s, n)'
    <3>1. CASE \E t \in Emitters, w \in Wires : Emit(t, w)
      <4>1. PICK t \in Emitters, w \in Wires : Emit(t, w)
        BY <3>1
      <4>2. Moves(s, n, IF n = seq + 1 /\ s \in subscribers[w] THEN 1 ELSE 0)
        BY <4>1, EmitMoves
      <4> QED  BY <4>2 DEF Moves
    <3>2. CASE \E r \in Sessions : SubscribeReplay(r)
      <4>1. PICK r \in Sessions : SubscribeReplay(r)
        BY <3>2
      <4>2. PICK events : Moves(s, n, IF s = r /\ n \in events THEN 1 ELSE 0)
        BY <4>1, ReplayMoves
      <4> QED  BY <4>2 DEF Moves
    <3>3. CASE QuietStep
      BY <3>3, QuietMoves
    <3> QED  BY <1>2, <3>1, <3>2, <3>3, StepKinds
  <2> QED  BY <2>1, <2>2 DEF Countable, AllFinite
<1> QED  BY <1>1, <1>2

-----------------------------------------------------------------------------
(* What a session is owed or was caught up with, and the wires it listens to. *)

Listens(s, w) == count[s][w] > 0 \/ w \in detached[s] \/ (Attaching(s) /\ Head(task[s].rest) = w)

Listening ==
  \A s \in Sessions :
    /\ phase[s] = "new" => owed[s] = {} /\ caught[s] = {}
    /\ phase[s] = "open" => \A n \in owed[s] \cup caught[s] : Listens(s, recorded[n])

LEMMA OnRecordWires ==
  ASSUME Types, NEW s \in Sessions, NEW n \in owed[s] \cup caught[s]
  PROVE  n \in 1..seq /\ n \in 1..MaxSeq /\ n \in Pump!Number /\ recorded[n] \in Wires
<1>1. n \in 1..seq
  BY DEF Types, HistoryTypes
<1>2. seq \in Nat /\ seq <= MaxSeq /\ recorded \in Seq(Wires) /\ Len(recorded) = seq /\ MaxSeq \in Nat
  BY DeliveryAssumption DEF Types, LogTypes
<1>3. recorded[n] \in Wires
  BY <1>1, <1>2
<1> QED  BY <1>1, <1>2, <1>3 DEF Pump!Number

\* A session that stays open goes on listening to a wire, or leaves it.
LEMMA ListensStays ==
  ASSUME Types, Table, [Next]_vars, ~Restart, NEW s \in Sessions, NEW w \in Wires, Listens(s, w),
         phase[s] = "open", phase'[s] = "open"
  PROVE  Listens(s, w)'
<1>1. /\ task \in [Sessions -> GoodTask] /\ count \in [Sessions -> [Wires -> Nat]]
      /\ detached \in [Sessions -> SUBSET Wires]
  BY DEF Types, SessionTypes, HistoryTypes
<1>2. CASE count'[s] = count[s] /\ task'[s] = task[s] /\ detached'[s] = detached[s]
  BY <1>2 DEF Listens, Attaching
<1>3. CASE UNCHANGED <<count, task, detached>>
  BY <1>2, <1>3
<1>4. CASE \/ \E t \in Emitters, v \in Wires : Emit(t, v)
           \/ \E v \in Wires : OthersSubscribe(v)
           \/ \E c \in calling : Deliver(c)
           \/ PumpStep
           \/ \E r \in Sessions, last \in -1..MaxSeq : Hello(r, last)
           \/ \E r \in Sessions : ClientReads(r) \/ Disconnect(r) \/ CloseSessionPump(r)
           \/ UNCHANGED vars
  BY <1>3, <1>4 DEF Emit, OthersSubscribe, Deliver, PumpStep, Hello, ClientReads, Disconnect, CloseSessionPump,
                    history, vars
<1>5. ASSUME NEW r \in Sessions,
             \/ \E wires \in Requests : SubscribeFrame(r, wires)
             \/ SubscribeFresh(r) \/ SubscribeReplay(r) \/ SubscribeAnswer(r)
      PROVE  Listens(s, w)'
  <2>1. /\ UNCHANGED <<count, detached>> /\ ~Attaching(r)
        /\ \E x : task' = [task EXCEPT ![r] = x]
    BY <1>5 DEF SubscribeFrame, SubscribeFresh, SubscribeReplay, SubscribeAnswer, Ready, Goto, Attaching, Idle, history
  <2>2. CASE s # r
    BY <1>1, <1>2, <2>1, <2>2
  <2>3. CASE s = r
    BY <2>1, <2>3 DEF Listens
  <2> QED  BY <2>2, <2>3
<1>6. ASSUME NEW r \in Sessions, SubscribeAttach(r) \/ SubscribeBacklog(r) PROVE Listens(s, w)'
  <2>1. /\ UNCHANGED <<count, detached>>
        /\ \E b : task' = [task EXCEPT ![r] = [at |-> "backlog", rest |-> task[r].rest, backlog |-> b]]
    BY <1>6 DEF SubscribeAttach, SubscribeBacklog, Goto, history
  <2>2. CASE s # r
    BY <1>1, <1>2, <2>1, <2>2
  <2>3. CASE s = r
    BY <1>1, <2>1, <2>3 DEF Listens, Attaching
  <2> QED  BY <2>2, <2>3
<1>7. ASSUME NEW r \in Sessions, SubscribeAgain(r) PROVE Listens(s, w)'
  <2>1. /\ UNCHANGED detached /\ ~Attaching(r)
        /\ count' = [count EXCEPT ![r][Head(task[r].rest)] = @ + 1]
        /\ \E x : task' = [task EXCEPT ![r] = x]
    BY <1>7 DEF SubscribeAgain, Goto, Attaching, history
  <2>2. CASE s # r
    BY <1>1, <1>2, <2>1, <2>2
  <2>3. CASE s = r
    <3>1. count[s][w] > 0 => count'[s][w] > 0
      BY <1>1, <2>1, <2>3
    <3> QED  BY <2>1, <2>3, <3>1 DEF Listens
  <2> QED  BY <2>2, <2>3
<1>8. ASSUME NEW r \in Sessions, SubscribeInsert(r) PROVE Listens(s, w)'
  <2>1. /\ UNCHANGED detached
        /\ count' = [count EXCEPT ![r][Head(task[r].rest)] = 1]
        /\ \E x : task' = [task EXCEPT ![r] = x]
    BY <1>8 DEF SubscribeInsert, Goto, history
  <2>2. CASE s # r
    BY <1>1, <1>2, <2>1, <2>2
  <2>3. CASE s = r
    <3>1. count[s][w] > 0 \/ w = Head(task[r].rest) => count'[s][w] > 0
      BY <1>1, <2>1, <2>3
    <3> QED  BY <2>1, <2>3, <3>1 DEF Listens
  <2> QED  BY <2>2, <2>3
<1>9. ASSUME NEW r \in Sessions, NEW v \in Wires, UnsubscribeFrame(r, v) PROVE Listens(s, w)'
  <2>1. /\ count' = [count EXCEPT ![r][v] = @ - 1] /\ UNCHANGED task
        /\ \/ count[r][v] = 1 /\ detached' = [detached EXCEPT ![r] = @ \cup {v}]
           \/ count[r][v] # 1 /\ UNCHANGED detached
        /\ count[r][v] > 0
    BY <1>9 DEF UnsubscribeFrame, Holds
  <2>2. CASE s # r
    BY <1>1, <1>2, <2>1, <2>2
  <2>3. CASE s = r
    <3>1. count[s][w] > 0 => count'[s][w] > 0 \/ w \in detached'[s]
      BY <1>1, <2>1, <2>3
    <3>2. w \in detached[s] => w \in detached'[s]
      BY <1>1, <2>1, <2>3
    <3> QED  BY <2>1, <3>1, <3>2 DEF Listens, Attaching
  <2> QED  BY <2>2, <2>3
<1>10. ASSUME NEW r \in Sessions, NEW v \in Wires, CloseDetach(r, v) PROVE Listens(s, w)'
  <2>1. /\ phase[r] = "closing" /\ UNCHANGED <<task, detached>> /\ count' = [count EXCEPT ![r][v] = 0]
    BY <1>10 DEF CloseDetach, history
  <2> QED  BY <1>1, <1>2, <2>1
<1> QED  BY <1>4, <1>5, <1>6, <1>7, <1>8, <1>9, <1>10 DEF Next, SubscribeStep, CloseStep

\* A session that stays new, or is open and was so or has just been greeted.
LEMMA PhaseSteps ==
  ASSUME Types, [Next]_vars, ~Restart, NEW s \in Sessions
  PROVE  /\ phase'[s] = "new" => phase[s] = "new"
         /\ phase'[s] = "open" => phase[s] \in {"new", "open"}
<1>1. phase \in [Sessions -> {"new", "open", "closing", "closed"}]
  BY DEF Types, SessionTypes
<1>2. CASE UNCHANGED phase
  BY <1>1, <1>2
<1>3. ASSUME NEW r \in Sessions, NEW last \in -1..MaxSeq, Hello(r, last)
      PROVE  phase[r] = "new" /\ phase' = [phase EXCEPT ![r] = "open"]
  BY <1>3 DEF Hello
<1>4. ASSUME NEW r \in Sessions, Disconnect(r) \/ CloseSessionPump(r)
      PROVE  phase' = [phase EXCEPT ![r] = "closing"] \/ phase' = [phase EXCEPT ![r] = "closed"]
  BY <1>4 DEF Disconnect, CloseSessionPump
<1>5. \/ UNCHANGED phase
      \/ \E r \in Sessions, last \in -1..MaxSeq : Hello(r, last)
      \/ \E r \in Sessions : Disconnect(r) \/ CloseSessionPump(r)
  BY DEF Next, Emit, OthersSubscribe, Deliver, PumpStep, SubscribeFrame, SubscribeStep, SubscribeAgain,
         SubscribeFresh, SubscribeReplay, SubscribeAttach, SubscribeBacklog, SubscribeInsert, SubscribeAnswer,
         CloseStep, CloseDetach, ClientReads, UnsubscribeFrame, vars
<1>6. CASE \E r \in Sessions, last \in -1..MaxSeq : Hello(r, last)
  BY <1>1, <1>3, <1>6
<1>7. CASE \E r \in Sessions : Disconnect(r) \/ CloseSessionPump(r)
  BY <1>1, <1>4, <1>7
<1> QED  BY <1>2, <1>5, <1>6, <1>7

\* What a step adds to a session's record is on a wire that it listens to.
LEMMA RecordSteps ==
  ASSUME Types, Table, Countable, [Next]_vars, ~Restart, NEW s \in Sessions
  PROVE  /\ \A n \in 1..seq : recorded'[n] = recorded[n]
         /\ \A n \in owed'[s] \cup caught'[s] :
              \/ n \in owed[s] \cup caught[s]
              \/ phase[s] # "new" /\ \E w \in Wires : recorded'[n] = w /\ (Listens(s, w) \/ Listens(s, w)')
<1>1. /\ owed \in [Sessions -> SUBSET (1..seq)] /\ caught \in [Sessions -> SUBSET (1..seq)]
      /\ recorded \in Seq(Wires) /\ Len(recorded) = seq /\ seq \in Nat /\ SessionTable(s)
  BY DEF Types, HistoryTypes, LogTypes, Table
<1>2. CASE UNCHANGED <<recorded, owed, caught>>
  BY <1>2
<1>3. CASE QuietStep
  <2>1. \A n \in Pump!Number : UNCHANGED <<recorded, owed, caught>>
    BY <1>3, QuietMoves
  <2>2. 1 \in Pump!Number
    BY DEF Pump!Number
  <2> QED  BY <1>2, <2>1, <2>2
<1>4. ASSUME NEW t \in Emitters, NEW w \in Wires, Emit(t, w)
      PROVE  /\ \A n \in 1..seq : recorded'[n] = recorded[n]
             /\ \A n \in owed'[s] \cup caught'[s] :
                  \/ n \in owed[s] \cup caught[s]
                  \/ phase[s] # "new" /\ recorded'[n] = w /\ Listens(s, w)
  <2>1. /\ recorded' = Append(recorded, w) /\ UNCHANGED caught
        /\ owed' = [r \in Sessions |-> owed[r] \cup (IF r \in subscribers[w] THEN {seq + 1} ELSE {})]
    BY <1>4 DEF Emit, Log!Emit
  <2>2. recorded'[seq + 1] = w /\ \A n \in 1..seq : recorded'[n] = recorded[n]
    BY <1>1, <2>1
  <2>3. s \in subscribers[w] => Listens(s, w) /\ phase[s] # "new"
    BY <1>1 DEF SessionTable, Attached, Attaching, Listens, Idle
  <2> QED  BY <2>1, <2>2, <2>3
<1>5. ASSUME NEW r \in Sessions, SubscribeReplay(r)
      PROVE  /\ UNCHANGED recorded
             /\ \A n \in owed'[s] \cup caught'[s] :
                  \/ n \in owed[s] \cup caught[s]
                  \/ phase[s] # "new" /\ \E w \in Wires : recorded'[n] = w /\ Listens(s, w)'
  <2>1. UNCHANGED <<recorded, owed>> /\ task[r].at = "subscribe"
    BY <1>5 DEF SubscribeReplay, Log!PruneForReplay
  <2>2. PICK events \in SUBSET (1..seq) :
          /\ caught' = [caught EXCEPT ![r] = @ \cup events]
          /\ \A n \in events : /\ recorded[n] = Head(task[r].rest)
                               /\ task'[r].at = "attach" /\ task'[r].rest = task[r].rest
    BY <1>5, ReplayMoves
  <2>3. phase[r] = "open"
    BY <2>1 DEF Table, SessionTable, Idle
  <2>4. ASSUME NEW n \in events, s = r
        PROVE  phase[s] # "new" /\ \E w \in Wires : recorded'[n] = w /\ Listens(s, w)'
    <3>1. PICK w \in Wires : w = recorded[n]
      BY <1>1
    <3>2. Listens(s, w)'
      BY <2>2, <2>4, <3>1 DEF Listens, Attaching
    <3> QED  BY <2>1, <2>3, <2>4, <3>1, <3>2
  <2> QED  BY <1>1, <2>1, <2>2, <2>4
<1> QED  BY <1>3, <1>4, <1>5, StepKinds

LEMMA InitListening == Init => Listening
BY DEF Init, Listening

LEMMA NextListening == Types /\ Table /\ Countable /\ Listening /\ [Next]_vars => Listening'
<1> SUFFICES ASSUME Types, Table, Countable, Listening, [Next]_vars, NEW s \in Sessions
             PROVE  /\ phase'[s] = "new" => owed'[s] = {} /\ caught'[s] = {}
                    /\ phase'[s] = "open" => \A n \in owed'[s] \cup caught'[s] : Listens(s, recorded[n])'
  BY DEF Listening
<1>1. CASE Restart
  BY <1>1 DEF Restart
<1>2. CASE ~Restart
  <2>1. /\ phase'[s] = "new" => phase[s] = "new"
        /\ phase'[s] = "open" => phase[s] \in {"new", "open"}
    BY <1>2, PhaseSteps
  <2>2. /\ \A n \in 1..seq : recorded'[n] = recorded[n]
        /\ \A n \in owed'[s] \cup caught'[s] :
             \/ n \in owed[s] \cup caught[s]
             \/ phase[s] # "new" /\ \E w \in Wires : recorded'[n] = w /\ (Listens(s, w) \/ Listens(s, w)')
    BY <1>2, RecordSteps
  <2>3. phase[s] = "new" => owed[s] = {} /\ caught[s] = {} /\ owed'[s] = {} /\ caught'[s] = {}
    BY <2>2 DEF Listening
  <2>4. ASSUME phase'[s] = "open", NEW n \in owed'[s] \cup caught'[s] PROVE Listens(s, recorded[n])'
    <3>1. phase[s] = "open"
      BY <2>1, <2>3, <2>4
    <3>2. PICK w \in Wires : recorded'[n] = w /\ (Listens(s, w) \/ Listens(s, w)')
      <4>1. CASE n \in owed[s] \cup caught[s]
        <5>1. recorded[n] \in Wires /\ n \in 1..seq
          BY <4>1, OnRecordWires
        <5>2. PICK w \in Wires : w = recorded[n]
          BY <5>1
        <5>3. Listens(s, w)
          BY <3>1, <4>1, <5>2 DEF Listening
        <5> QED  BY <2>2, <5>1, <5>2, <5>3
      <4> QED  BY <2>2, <2>4, <4>1
    <3>3. Listens(s, w)'
      BY <1>2, <2>4, <3>1, <3>2, ListensStays
    <3> QED  BY <3>2, <3>3 DEF Listens, Attaching
  <2> QED  BY <2>1, <2>3, <2>4
<1> QED  BY <1>1, <1>2

-----------------------------------------------------------------------------
(* An event comes once, except on a wire that was left. *)

OnceFor(s, n) ==
  /\ Total(s, n) > 0 => n \in owed[s] \cup caught[s]
  /\ Total(s, n) > 1 \/ n \in owed[s] \cap caught[s] => recorded[n] \in detached[s]

Once == \A s \in Sessions : \A n \in 1..MaxSeq : OnceFor(s, n)

\* The totals are numbers.
LEMMA TotalTyped ==
  ASSUME Types, Countable, NEW s \in Sessions, NEW n \in 1..MaxSeq
  PROVE  /\ got[s][n] \in Nat /\ OnTheWay(s, n) \in Nat /\ Total(s, n) \in Nat /\ n \in Pump!Number
         /\ Total(s, n) = got[s][n] + OnTheWay(s, n)
<1>1. got[s][n] \in Nat /\ n \in Pump!Number
  BY DeliveryAssumption DEF Types, ClientTypes, Pump!Number
<1>2. Finite(s, n)
  BY <1>1 DEF Countable, AllFinite
<1>3. OnTheWay(s, n) = Cardinality(CallsOf(s, n)) + Cardinality(BacklogOf(s, n)) + Cardinality(Pump!Copies(n, s))
  BY DEF OnTheWay, CallsOf, BacklogOf
<1>4. OnTheWay(s, n) \in Nat
  BY <1>2, <1>3, FS_CardinalityType DEF Finite
<1> QED  BY <1>1, <1>4 DEF Total

LEMMA NothingTwice ==
  ASSUME Countable, NothingThere, Types, \A s \in Sessions : \A n \in 1..MaxSeq : got[s][n] = 0,
         \A s \in Sessions : owed[s] = {}
  PROVE  Once
<1> SUFFICES ASSUME NEW s \in Sessions, NEW n \in 1..MaxSeq PROVE OnceFor(s, n)
  BY DEF Once
<1>1. n \in Pump!Number
  BY TotalTyped
<1>2. Total(s, n) = 0
  BY <1>1 DEF NothingThere, Total
<1> QED  BY <1>2 DEF OnceFor

LEMMA InitOnce == Init => Once
<1> SUFFICES ASSUME Init PROVE Once
  OBVIOUS
<1>1. /\ \A s \in Sessions : \A n \in 1..MaxSeq : got[s][n] = 0
      /\ \A s \in Sessions : owed[s] = {}
  BY DEF Init
<1> QED  BY <1>1, InitCounts, InitTypes, NothingTwice

FreshEngine ==
  /\ Countable /\ NothingThere /\ Types
  /\ \A s \in Sessions : \A n \in 1..MaxSeq : got[s][n] = 0
  /\ \A s \in Sessions : owed[s] = {}

LEMMA FreshOnce == FreshEngine => Once
BY NothingTwice DEF FreshEngine

LEMMA RestartOnce == Types /\ Restart => Once'
<1> SUFFICES ASSUME Types, Restart PROVE Once'
  OBVIOUS
<1>1. /\ \A s \in Sessions : \A n \in 1..MaxSeq : got'[s][n] = 0
      /\ \A s \in Sessions : owed'[s] = {}
  BY DEF Restart
<1>2. FreshEngine'
  BY <1>1, RestartCounts, RestartTypes DEF FreshEngine
<1>3. (FreshEngine => Once)'
  BY FreshOnce, PTL
<1> QED  BY <1>2, <1>3

\* A wire that was left stays left, unless the engine is started anew.
LEMMA DetachedStays ==
  ASSUME Types, [Next]_vars, ~Restart, NEW s \in Sessions
  PROVE  detached[s] \subseteq detached'[s]
<1>1. UNCHANGED detached \/ \E r \in Sessions, w \in Wires : detached' = [detached EXCEPT ![r] = @ \cup {w}]
  BY DEF Next, Emit, OthersSubscribe, Deliver, PumpStep, Hello, SubscribeFrame, SubscribeStep, SubscribeAgain,
         SubscribeFresh, SubscribeReplay, SubscribeAttach, SubscribeBacklog, SubscribeInsert, SubscribeAnswer,
         CloseStep, CloseDetach, CloseSessionPump, ClientReads, Disconnect, UnsubscribeFrame, vars, history
<1> QED  BY <1>1 DEF Types, HistoryTypes

LEMMA NextOnce == Types /\ Table /\ Countable /\ Listening /\ Once /\ [Next]_vars => Once'
<1> SUFFICES ASSUME Types, Table, Countable, Listening, Once, [Next]_vars PROVE Once'
  OBVIOUS
<1>1. CASE Restart
  BY <1>1, RestartOnce
<1>2. CASE ~Restart
  <2> SUFFICES ASSUME NEW s \in Sessions, NEW n \in 1..MaxSeq PROVE OnceFor(s, n)'
    BY DEF Once
  <2>1. /\ OnceFor(s, n) /\ got[s][n] \in Nat /\ Total(s, n) = got[s][n] + OnTheWay(s, n)
        /\ n \in Pump!Number /\ Total(s, n) \in Nat
    BY TotalTyped DEF Once
  <2>2. /\ detached[s] \subseteq detached'[s] /\ \A m \in 1..seq : recorded'[m] = recorded[m]
        /\ \A m \in owed[s] \cup caught[s] : m \in 1..seq
    BY <1>2, DetachedStays, RecordSteps, OnRecordWires
  <2>3. CASE QuietStep
    <3>1. /\ Total(s, n)' <= Total(s, n) /\ Total(s, n)' \in Nat /\ UNCHANGED <<recorded, owed, caught>>
      BY <2>1, <2>3, QuietMoves DEF Total
    <3>2. Total(s, n)' > 0 => Total(s, n) > 0
      BY <2>1, <3>1
    <3>3. Total(s, n)' > 1 => Total(s, n) > 1
      BY <2>1, <3>1
    <3> QED  BY <2>1, <2>2, <3>1, <3>2, <3>3 DEF OnceFor
  <2>4. ASSUME NEW t \in Emitters, NEW w \in Wires, Emit(t, w) PROVE OnceFor(s, n)'
    <3>1. Moves(s, n, IF n = seq + 1 /\ s \in subscribers[w] THEN 1 ELSE 0)
      BY <2>1, <2>4, EmitMoves
    <3>2. /\ owed'[s] = owed[s] \cup (IF s \in subscribers[w] THEN {seq + 1} ELSE {})
          /\ UNCHANGED <<caught, got>>
      BY <2>4 DEF Emit, Log!Emit, clientVars
    <3>3. Total(s, n)' = got[s][n] + OnTheWay(s, n)'
      BY <3>2 DEF Total
    <3>4. seq \in Nat
      BY DEF Types, LogTypes
    <3>5. CASE n = seq + 1
      <4>1. n \notin owed[s] /\ n \notin caught[s]
        BY <2>2, <3>4, <3>5
      <4>2. Total(s, n) = 0
        BY <2>1, <4>1 DEF OnceFor
      <4>3. CASE s \in subscribers[w]
        <5>1. Total(s, n)' = 1 /\ n \in owed'[s] /\ n \notin caught'[s]
          BY <2>1, <3>1, <3>2, <3>3, <3>5, <4>1, <4>2, <4>3 DEF Moves
        <5> QED  BY <5>1 DEF OnceFor
      <4>4. CASE s \notin subscribers[w]
        <5>1. Total(s, n)' = 0 /\ n \notin owed'[s]
          BY <2>1, <3>1, <3>2, <3>3, <4>1, <4>2, <4>4 DEF Moves
        <5> QED  BY <5>1 DEF OnceFor
      <4> QED  BY <4>3, <4>4
    <3>6. CASE n # seq + 1
      <4>1. Total(s, n)' = Total(s, n) /\ (n \in owed'[s] <=> n \in owed[s])
        BY <2>1, <3>1, <3>2, <3>3, <3>6 DEF Moves
      <4> QED  BY <2>1, <2>2, <3>2, <4>1 DEF OnceFor
    <3> QED  BY <3>5, <3>6
  <2>5. ASSUME NEW r \in Sessions, SubscribeReplay(r) PROVE OnceFor(s, n)'
    <3>1. /\ UNCHANGED <<recorded, owed, got, detached>> /\ task[r].at = "subscribe"
          /\ count[r][Head(task[r].rest)] = 0
      BY <2>5 DEF SubscribeReplay, Log!PruneForReplay, clientVars, Unattached
    <3>2. PICK events \in SUBSET (1..seq) :
            /\ caught' = [caught EXCEPT ![r] = @ \cup events]
            /\ \A m \in events : recorded[m] = Head(task[r].rest)
            /\ Moves(s, n, IF s = r /\ n \in events THEN 1 ELSE 0)
      BY <2>1, <2>5, ReplayMoves
    <3>3. Total(s, n)' = got[s][n] + OnTheWay(s, n)' /\ caught \in [Sessions -> SUBSET (1..seq)]
      BY <3>1 DEF Total, Types, HistoryTypes
    <3>4. CASE s = r /\ n \in events
      <4>1. Total(s, n)' = Total(s, n) + 1 /\ n \in caught'[s]
        BY <2>1, <3>2, <3>3, <3>4 DEF Moves
      <4>2. CASE n \in owed[s] \cup caught[s]
        <5>1. phase[s] = "open"
          BY <3>1, <3>4 DEF Table, SessionTable, Idle
        <5>2. Listens(s, recorded[n])
          BY <4>2, <5>1 DEF Listening
        <5>3. recorded[n] \in detached[s]
          BY <3>1, <3>2, <3>4, <5>2 DEF Listens, Attaching
        <5> QED  BY <3>1, <4>1, <5>3 DEF OnceFor
      <4>3. CASE n \notin owed[s] \cup caught[s]
        <5>1. Total(s, n) = 0
          BY <2>1, <4>3 DEF OnceFor
        <5>2. Total(s, n)' = 1 /\ n \notin owed'[s]
          BY <3>1, <4>1, <4>3, <5>1
        <5> QED  BY <4>1, <5>2 DEF OnceFor
      <4> QED  BY <4>2, <4>3
    <3>5. CASE ~(s = r /\ n \in events)
      <4>1. Total(s, n)' = Total(s, n) /\ (n \in caught'[s] <=> n \in caught[s])
        BY <2>1, <3>2, <3>3, <3>5 DEF Moves
      <4> QED  BY <2>1, <3>1, <4>1 DEF OnceFor
    <3> QED  BY <3>4, <3>5
  <2> QED  BY <1>2, <2>3, <2>4, <2>5, StepKinds
<1> QED  BY <1>1, <1>2

LEMMA OnceImplies == Types /\ Countable /\ Once => NeverTwice
<1> SUFFICES ASSUME Types, Countable, Once, NEW s \in Sessions, NEW n \in 1..seq,
                    n \in owed[s] \cap caught[s] \/ got[s][n] > 1
             PROVE  recorded[n] \in detached[s]
  BY DEF NeverTwice
<1>1. n \in 1..MaxSeq
  BY DeliveryAssumption DEF Types, LogTypes
<1>2. got[s][n] \in Nat /\ OnTheWay(s, n) \in Nat /\ Total(s, n) = got[s][n] + OnTheWay(s, n) /\ OnceFor(s, n)
  BY <1>1, TotalTyped DEF Once
<1>3. got[s][n] > 1 => Total(s, n) > 1
  BY <1>2
<1> QED  BY <1>2, <1>3 DEF OnceFor

\* A client never reads an event twice, and is never owed live what it is also caught up with, unless it left the
\* event's wire and subscribed to it again: however emitters, timers, subscribes and restarts interleave.
THEOREM NeverTwiceCorrect == Spec => []NeverTwice
<1>1. Init => Types /\ Table /\ Countable /\ Listening /\ Once
  BY InitTypes, InitTable, InitCounts, InitListening, InitOnce
<1>2. Types /\ Table /\ Countable /\ Listening /\ Once /\ [Next]_vars
        => Types' /\ Table' /\ Countable' /\ Listening' /\ Once'
  BY NextTypes, NextTable, NextCountable, NextListening, NextOnce
<1> QED  BY <1>1, <1>2, OnceImplies, PTL DEF Spec

-----------------------------------------------------------------------------
(* The history of the log here is the tail of its record, as it is of a log alone; and a session
   that has not been greeted resumes nothing. *)

LEMMA LogAssumed == LogFacts!LogAssumption
BY DeliveryAssumption DEF LogFacts!LogAssumption

LEMMA PruneKeepsTail ==
  ASSUME LogFacts!TypedTail, Log!PruneForReplay
  PROVE  LogFacts!TypedTail'
<1>1. LogFacts!PruneForReplay
  BY DEF LogFacts!PruneForReplay, Log!PruneForReplay, LogFacts!Prune, Log!Prune, LogFacts!DropFirst, Log!DropFirst
<1> QED  BY <1>1, LogAssumed, LogFacts!PruneTail

LEMMA EmitKeepsTail ==
  ASSUME LogFacts!TypedTail, NEW t \in Emitters, NEW w \in Wires, Log!Emit(t, w)
  PROVE  LogFacts!TypedTail'
<1>1. LogFacts!Emit(t, w)
  BY DEF LogFacts!Emit, Log!Emit, LogFacts!Idle, Log!Idle, LogFacts!Numbered, Log!Numbered, LogFacts!Prune, Log!Prune,
         LogFacts!DropFirst, Log!DropFirst
<1> QED  BY <1>1, LogAssumed, LogFacts!EmitTail

EmptyLog == buffer = <<>> /\ recorded = <<>> /\ seq = 0

LEMMA EmptyTail == EmptyLog => LogFacts!TypedTail
<1>1. Len(<<>>) = 0 /\ \A S : <<>> \in Seq(S)
  BY EmptySeq
<1> QED  BY <1>1, DeliveryAssumption DEF EmptyLog, LogFacts!TypedTail, LogFacts!HistoryIsTail

LEMMA InitTail == Init => LogFacts!TypedTail
BY EmptyTail DEF Init, Log!LogInit, EmptyLog

LEMMA NextTail == LogFacts!TypedTail /\ [Next]_vars => LogFacts!TypedTail'
<1> SUFFICES ASSUME LogFacts!TypedTail, [Next]_vars PROVE LogFacts!TypedTail'
  OBVIOUS
<1>1. CASE UNCHANGED <<buffer, recorded, seq>>
  BY <1>1 DEF LogFacts!TypedTail, LogFacts!HistoryIsTail
<1>2. CASE \E t \in Emitters, w \in Wires : Emit(t, w)
  BY <1>2, EmitKeepsTail DEF Emit
<1>3. CASE Log!PruneForReplay
  BY <1>3, PruneKeepsTail
<1>4. CASE Restart
  <2>1. (EmptyLog => LogFacts!TypedTail)'
    BY EmptyTail, PTL
  <2>2. EmptyLog'
    BY <1>4 DEF Restart, Log!NewLog, EmptyLog
  <2> QED  BY <2>1, <2>2
<1>5. \/ UNCHANGED <<buffer, recorded, seq>>
      \/ Log!PruneForReplay
      \/ \E t \in Emitters, w \in Wires : Emit(t, w)
      \/ Restart
  <2>1. CASE \E r \in Sessions : (\E last \in -1..MaxSeq : Hello(r, last)) \/ SubscribeReplay(r)
    BY <2>1 DEF Hello, SubscribeReplay, logVars
  <2>2. CASE \E r \in Sessions : SubscribeStep(r) /\ ~SubscribeReplay(r)
    BY <2>2 DEF SubscribeStep, SubscribeAgain, SubscribeFresh, SubscribeAttach, Log!Subscribe, SubscribeBacklog,
                SubscribeInsert, SubscribeAnswer, logVars
  <2>3. CASE \E r \in Sessions, w \in Wires : UnsubscribeFrame(r, w) \/ CloseDetach(r, w)
    BY <2>3 DEF UnsubscribeFrame, CloseDetach, Log!Unsubscribe, logVars
  <2>4. CASE \/ \E w \in Wires : OthersSubscribe(w)
             \/ \E c \in calling : Deliver(c)
             \/ PumpStep
             \/ \E r \in Sessions, wires \in Requests : SubscribeFrame(r, wires)
             \/ \E r \in Sessions : CloseSessionPump(r) \/ ClientReads(r) \/ Disconnect(r)
             \/ UNCHANGED vars
    BY <2>4 DEF OthersSubscribe, Deliver, Log!CallSubscriber, PumpStep, SubscribeFrame, CloseSessionPump, ClientReads,
                Disconnect, logVars, vars
  <2> QED  BY <2>1, <2>2, <2>3, <2>4 DEF Next, CloseStep
<1> QED  BY <1>1, <1>2, <1>3, <1>4, <1>5

Unresumed == \A s \in Sessions : phase[s] = "new" => resume[s] = None

LEMMA InitUnresumed == Init => Unresumed
BY DEF Init, Unresumed

LEMMA NextUnresumed == Types /\ Unresumed /\ [Next]_vars => Unresumed'
<1> SUFFICES ASSUME Types, Unresumed, [Next]_vars PROVE Unresumed'
  OBVIOUS
<1>1. phase \in [Sessions -> {"new", "open", "closing", "closed"}] /\ resume \in [Sessions -> Nat \cup {None}]
  BY DEF Types, SessionTypes
<1>2. CASE Restart
  BY <1>2 DEF Restart, Unresumed
<1>3. CASE ~Restart
  <2>1. ASSUME NEW r \in Sessions, NEW last \in -1..MaxSeq, Hello(r, last) PROVE Unresumed'
    BY <1>1, <2>1 DEF Hello, Unresumed
  <2>2. CASE UNCHANGED resume
    <3>1. \A s \in Sessions : phase'[s] = "new" => phase[s] = "new"
      BY <1>3, PhaseSteps
    <3> QED  BY <2>2, <3>1 DEF Unresumed
  <2>3. UNCHANGED resume \/ \E r \in Sessions, last \in -1..MaxSeq : Hello(r, last)
    BY <1>3 DEF Next, Emit, OthersSubscribe, Deliver, PumpStep, SubscribeFrame, SubscribeStep, SubscribeAgain,
         SubscribeFresh, SubscribeReplay, SubscribeAttach, SubscribeBacklog, SubscribeInsert, SubscribeAnswer,
         CloseStep, CloseDetach, CloseSessionPump, ClientReads, Disconnect, UnsubscribeFrame, vars
  <2> QED  BY <2>1, <2>2, <2>3
<1> QED  BY <1>2, <1>3

-----------------------------------------------------------------------------
(***************************************************************************)
(* The refinement of EventFeed, step by step, under what is on its way as  *)
(* due.  A timer, a batch and a sender only move what is due; numbering    *)
(* makes an event due to those attached, and a replay what the session     *)
(* missed, before it is attached; reading gives it; and what a callback    *)
(* hands to a closed pump was due to a session that has ended.             *)
(***************************************************************************)
LEMMA DueMoves ==
  ASSUME NEW s \in Sessions, NEW n \in 1..MaxSeq, NEW k, Moves(s, n, k)
  PROVE  Due[s][n] \in Nat /\ Due'[s][n] \in Nat /\ Due'[s][n] = Due[s][n] + k
BY DEF Due, Moves

\* What is due after the step is known from what is due to each session of each event.
LEMMA DueAre ==
  ASSUME NEW d, d = [s \in Sessions |-> [n \in 1..MaxSeq |-> d[s][n]]],
         \A s \in Sessions : \A n \in 1..MaxSeq : Due'[s][n] = d[s][n]
  PROVE  Due' = d
<1>1. Due' = [s \in Sessions |-> [n \in 1..MaxSeq |-> Due'[s][n]]]
  BY DEF Due
<1>2. \A s \in Sessions : [n \in 1..MaxSeq |-> Due'[s][n]] = [n \in 1..MaxSeq |-> d[s][n]]
  OBVIOUS
<1> QED  BY <1>1, <1>2

LEMMA DueShape ==
  /\ Due = [s \in Sessions |-> [n \in 1..MaxSeq |-> Due[s][n]]]
  /\ \A s \in Sessions : Due[s] = [n \in 1..MaxSeq |-> Due[s][n]]
BY DEF Due

\* Sessions that have ended: only Disconnect adds one.
LEMMA EndedStays ==
  ASSUME Types, [Next]_vars, ~Restart, ~\E r \in Sessions : Disconnect(r)
  PROVE  Ended' = Ended
<1>1. \/ UNCHANGED phase
      \/ \E r \in Sessions : (\E last \in -1..MaxSeq : Hello(r, last)) \/ CloseSessionPump(r)
  BY DEF Next, Emit, OthersSubscribe, Deliver, PumpStep, SubscribeFrame, SubscribeStep, SubscribeAgain,
         SubscribeFresh, SubscribeReplay, SubscribeAttach, SubscribeBacklog, SubscribeInsert, SubscribeAnswer,
         CloseStep, CloseDetach, ClientReads, UnsubscribeFrame, vars
<1>2. phase \in [Sessions -> {"new", "open", "closing", "closed"}]
  BY DEF Types, SessionTypes
<1>3. ASSUME NEW r \in Sessions, \E last \in -1..MaxSeq : Hello(r, last) PROVE Ended' = Ended
  BY <1>2, <1>3 DEF Hello, Ended
<1>4. ASSUME NEW r \in Sessions, CloseSessionPump(r) PROVE Ended' = Ended
  BY <1>2, <1>4 DEF CloseSessionPump, Ended
<1> QED  BY <1>1, <1>3, <1>4 DEF Ended

\* A step that leaves all this alone is no step of the feed.
Stutters == UNCHANGED <<recorded, resume, Stage, Due, got, Ended>>

LEMMA DueRests ==
  ASSUME \A s \in Sessions : \A n \in 1..MaxSeq : Moves(s, n, 0)
  PROVE  Due' = Due
<1>1. \A s \in Sessions : \A n \in 1..MaxSeq : Due'[s][n] = Due[s][n]
  <2> SUFFICES ASSUME NEW s \in Sessions, NEW n \in 1..MaxSeq PROVE Due'[s][n] = Due[s][n]
    OBVIOUS
  <2>1. Due[s][n] \in Nat /\ Due'[s][n] = Due[s][n] + 0
    BY DueMoves
  <2> QED  BY <2>1
<1>2. PICK d : d = Due
  OBVIOUS
<1>3. Due' = d
  BY <1>1, <1>2, DueShape, DueAre
<1> QED  BY <1>2, <1>3

LEMMA Numbers == \A n \in 1..MaxSeq : n \in Pump!Number
BY DeliveryAssumption DEF Pump!Number

\* Where a session is with a wire after the step is known from where each session is with each wire.
LEMMA StageAre ==
  ASSUME NEW d, d = [s \in Sessions |-> [w \in Wires |-> d[s][w]]],
         \A s \in Sessions : \A w \in Wires : Stage'[s][w] = d[s][w]
  PROVE  Stage' = d
<1>1. Stage' = [s \in Sessions |-> [w \in Wires |-> Stage'[s][w]]]
  BY DEF Stage
<1>2. \A s \in Sessions : [w \in Wires |-> Stage'[s][w]] = [w \in Wires |-> d[s][w]]
  OBVIOUS
<1> QED  BY <1>1, <1>2

LEMMA StageShape == Stage = [s \in Sessions |-> [w \in Wires |-> Stage[s][w]]]
BY DEF Stage

LEMMA StageRests ==
  ASSUME \A s \in Sessions : \A w \in Wires : Stage'[s][w] = Stage[s][w]
  PROVE  Stage' = Stage
<1>1. PICK d : d = Stage
  OBVIOUS
<1>2. Stage' = d
  BY <1>1, StageShape, StageAre
<1> QED  BY <1>1, <1>2

\* Session r moves on with wire w, and with no other.
LEMMA StageMoves ==
  ASSUME NEW r \in Sessions, NEW w \in Wires, NEW to,
         \A s \in Sessions : \A v \in Wires : Stage'[s][v] = IF s = r /\ v = w THEN to ELSE Stage[s][v]
  PROVE  Stage' = [Stage EXCEPT ![r][w] = to]
<1>1. PICK d : d = [Stage EXCEPT ![r][w] = to]
  OBVIOUS
<1>2. d = [s \in Sessions |-> [v \in Wires |-> IF s = r /\ v = w THEN to ELSE Stage[s][v]]]
  BY <1>1, StageShape
<1>3. d = [s \in Sessions |-> [v \in Wires |-> d[s][v]]]
  BY <1>2
<1>4. \A s \in Sessions : \A v \in Wires : Stage'[s][v] = d[s][v]
  BY <1>2
<1>5. Stage' = d
  BY <1>3, <1>4, StageAre
<1> QED  BY <1>1, <1>5

\* The steps that attach no session, detach none and catch none up.
LEMMA StageStays ==
  ASSUME Types, Table, [Next]_vars, ~Restart,
         ~\E r \in Sessions : SubscribeReplay(r) \/ SubscribeAttach(r),
         ~\E r \in Sessions, w \in Wires : UnsubscribeFrame(r, w) \/ CloseDetach(r, w)
  PROVE  Stage' = Stage
<1>1. CASE UNCHANGED <<subscribers, task, resume>>
  BY <1>1 DEF Stage
<1>2. ASSUME NEW r \in Sessions, UNCHANGED <<subscribers, resume>>, \E x : task' = [task EXCEPT ![r] = x],
             task[r].at # "attach", task'[r].at # "attach" \/ resume[r] = None
      PROVE  Stage' = Stage
  <2>1. task \in [Sessions -> GoodTask]
    BY DEF Types, SessionTypes
  <2>2. \A s \in Sessions \ {r} : task'[s] = task[s]
    BY <1>2, <2>1
  <2>3. ASSUME NEW s \in Sessions, NEW w \in Wires PROVE Stage'[s][w] = Stage[s][w]
    BY <1>2, <2>2 DEF Stage
  <2> QED  BY <2>3, StageRests
<1>3. ASSUME NEW r \in Sessions, NEW last \in -1..MaxSeq, Hello(r, last) PROVE Stage' = Stage
  <2>1. /\ UNCHANGED <<subscribers, task>> /\ phase[r] = "new"
        /\ \E x : resume' = [resume EXCEPT ![r] = x]
    BY <1>3 DEF Hello, Log!PruneForReplay, logVars
  <2>2. task[r] = Idle
    BY <2>1 DEF Table, SessionTable
  <2>3. ASSUME NEW s \in Sessions, NEW w \in Wires PROVE Stage'[s][w] = Stage[s][w]
    BY <2>1, <2>2 DEF Stage, Idle, Types, SessionTypes
  <2> QED  BY <2>3, StageRests
<1>4. ASSUME NEW r \in Sessions,
             \/ \E wires \in Requests : SubscribeFrame(r, wires)
             \/ SubscribeAgain(r) \/ SubscribeFresh(r) \/ SubscribeBacklog(r) \/ SubscribeInsert(r) \/ SubscribeAnswer(r)
      PROVE  Stage' = Stage
  <2>1. UNCHANGED <<subscribers, resume>>
    BY <1>4 DEF SubscribeFrame, SubscribeAgain, SubscribeFresh, SubscribeBacklog, SubscribeInsert, SubscribeAnswer,
                logVars
  <2>2. /\ task[r].at # "attach" /\ \E x : task' = [task EXCEPT ![r] = x]
        /\ task'[r].at # "attach" \/ resume[r] = None
    <3>1. task \in [Sessions -> GoodTask]
      BY DEF Types, SessionTypes
    <3> QED  BY <1>4, <3>1 DEF SubscribeFrame, SubscribeAgain, SubscribeFresh, SubscribeBacklog, SubscribeInsert,
                               SubscribeAnswer, Ready, Goto, Idle
  <2> QED  BY <1>2, <2>1, <2>2
<1>5. CASE \/ \E t \in Emitters, w \in Wires : Emit(t, w)
           \/ \E w \in Wires : OthersSubscribe(w)
           \/ \E c \in calling : Deliver(c)
           \/ PumpStep
           \/ \E r \in Sessions : ClientReads(r) \/ Disconnect(r) \/ CloseSessionPump(r)
           \/ UNCHANGED vars
  BY <1>1, <1>5 DEF Emit, Log!Emit, OthersSubscribe, Deliver, Log!CallSubscriber, PumpStep, ClientReads, Disconnect,
                    CloseSessionPump, logVars, vars
<1> QED  BY <1>3, <1>4, <1>5 DEF Next, SubscribeStep, CloseStep

\* An event is numbered: it becomes due to the sessions attached to its wire.
LEMMA EmitFeeds ==
  ASSUME Types, Countable, NEW t \in Emitters, NEW w \in Wires, Emit(t, w), Ended' = Ended, Stage' = Stage
  PROVE  Feed!Next
<1>1. /\ seq \in Nat /\ seq < MaxSeq /\ Len(recorded) = seq /\ recorded' = Append(recorded, w)
      /\ UNCHANGED <<resume, got>>
  BY DEF Types, LogTypes, Emit, Log!Emit, clientVars
<1>2. \A s \in Sessions : Stage[s][w] = "attached" <=> s \in subscribers[w]
  BY DEF Stage
<1>3. PICK d : d = [s \in Sessions |-> IF Stage[s][w] = "attached" THEN Feed!Owe(s, {Len(recorded) + 1}) ELSE Due[s]]
  OBVIOUS
<1>4. ASSUME NEW s \in Sessions
      PROVE  /\ d[s] = [n \in 1..MaxSeq |-> d[s][n]]
             /\ \A n \in 1..MaxSeq : Due'[s][n] = d[s][n]
  <2>1. CASE s \in subscribers[w]
    <3>1. d[s] = [n \in 1..MaxSeq |-> Due[s][n] + (IF n \in {seq + 1} THEN 1 ELSE 0)]
      BY <1>1, <1>2, <1>3, <2>1 DEF Feed!Owe
    <3>2. ASSUME NEW n \in 1..MaxSeq PROVE Due'[s][n] = d[s][n]
      <4>1. Moves(s, n, IF n = seq + 1 THEN 1 ELSE 0)
        BY <2>1, Numbers, EmitMoves
      <4>2. Due'[s][n] = Due[s][n] + (IF n = seq + 1 THEN 1 ELSE 0)
        BY <4>1, DueMoves
      <4> QED  BY <3>1, <4>2
    <3> QED  BY <3>1, <3>2
  <2>2. CASE s \notin subscribers[w]
    <3>1. d[s] = Due[s]
      BY <1>2, <1>3, <2>2
    <3>2. ASSUME NEW n \in 1..MaxSeq PROVE Due'[s][n] = d[s][n]
      <4>1. Moves(s, n, 0)
        BY <2>2, Numbers, EmitMoves
      <4>2. Due[s][n] \in Nat /\ Due'[s][n] = Due[s][n] + 0
        BY <4>1, DueMoves
      <4> QED  BY <3>1, <4>2
    <3> QED  BY <3>1, <3>2, DueShape
  <2> QED  BY <2>1, <2>2
<1>5. d = [s \in Sessions |-> [n \in 1..MaxSeq |-> d[s][n]]]
  <2>1. d = [s \in Sessions |-> d[s]]
    BY <1>3
  <2> QED  BY <1>4, <2>1
<1>6. Due' = d
  BY <1>4, <1>5, DueAre
<1>7. Feed!Record(w)
  BY <1>1, <1>3, <1>6 DEF Feed!Record
<1> QED  BY <1>7 DEF Feed!Next

\* What replay_from gives a session is what it missed on the wire, all of it and once.
ReplaysExactly ==
  \A last \in Nat : \A w \in Wires :
    Log!CanReplay(buffer, seq, last) =>
      {e.seq : e \in Log!ReplayFrom(buffer, last, {w})} = {n \in 1..Len(recorded) : n > last /\ recorded[n] = w}

LEMMA ReplayGives == LogFacts!TypedTail => ReplaysExactly
<1> SUFFICES ASSUME LogFacts!TypedTail, NEW last \in Nat, NEW w \in Wires, Log!CanReplay(buffer, seq, last)
             PROVE  {e.seq : e \in Log!ReplayFrom(buffer, last, {w})} =
                      {n \in 1..Len(recorded) : n > last /\ recorded[n] = w}
  BY DEF ReplaysExactly
<1>2. seq \in Nat /\ buffer \in Seq(Log!Event) /\ Len(recorded) = seq /\ Len(buffer) <= seq /\ Len(buffer) \in Nat
      /\ \A i \in 1..Len(buffer) :
           buffer[i] = [event |-> recorded[seq - Len(buffer) + i], seq |-> seq - Len(buffer) + i]
  BY LenProperties DEF LogFacts!TypedTail, LogFacts!HistoryIsTail, LogFacts!Event, Log!Event
<1>3. last \in 0..seq + 1
  <2>1. CASE buffer = <<>>
    BY <1>2, <2>1 DEF Log!CanReplay
  <2>2. CASE buffer # <<>>
    BY <1>2, <2>2 DEF Log!CanReplay
  <2> QED  BY <2>1, <2>2
<1>4. LogFacts!ReplayIsExact
  BY LogAssumed, LogFacts!TailReplays
<1>5. LogFacts!CanReplay(buffer, seq, last)
  BY DEF LogFacts!CanReplay, Log!CanReplay
<1>6. LogFacts!ReplayFrom(buffer, last, {w}) = LogFacts!MissedSince(last, {w})
  BY <1>3, <1>4, <1>5 DEF LogFacts!ReplayIsExact
<1>7. Log!ReplayFrom(buffer, last, {w}) = {[event |-> recorded[n], seq |-> n] : n \in {m \in last + 1..seq : recorded[m] \in {w}}}
  BY <1>6 DEF LogFacts!ReplayFrom, Log!ReplayFrom, LogFacts!MissedSince
<1>8. {e.seq : e \in Log!ReplayFrom(buffer, last, {w})} = {m \in last + 1..seq : recorded[m] \in {w}}
  <2>1. PICK missed : missed = {m \in last + 1..seq : recorded[m] \in {w}}
    OBVIOUS
  <2>2. Log!ReplayFrom(buffer, last, {w}) = {[event |-> recorded[n], seq |-> n] : n \in missed}
    BY <1>7, <2>1
  <2>3. ASSUME NEW n \in missed PROVE n \in {e.seq : e \in Log!ReplayFrom(buffer, last, {w})}
    <3>1. PICK e \in Log!ReplayFrom(buffer, last, {w}) : e = [event |-> recorded[n], seq |-> n]
      BY <2>2
    <3>2. e.seq = n
      BY <3>1
    <3> QED  BY <3>2
  <2>4. ASSUME NEW e \in Log!ReplayFrom(buffer, last, {w}) PROVE e.seq \in missed
    BY <2>2
  <2> QED  BY <2>1, <2>3, <2>4
<1>9. {m \in last + 1..seq : recorded[m] \in {w}} = {n \in 1..Len(recorded) : n > last /\ recorded[n] = w}
  BY <1>2
<1> QED  BY <1>8, <1>9

\* A resumed session is caught up, unless the engine refuses: what it missed becomes due to it.
LEMMA ReplayFeeds ==
  ASSUME Types, Table, Countable, LogFacts!TypedTail, NEW r \in Sessions, SubscribeReplay(r), Ended' = Ended
  PROVE  Feed!Next \/ Stutters
<1>1. PICK events \in SUBSET (1..seq) :
        /\ events = {e.seq : e \in task'[r].backlog}
        /\ \A s \in Sessions : \A n \in Pump!Number : Moves(s, n, IF s = r /\ n \in events THEN 1 ELSE 0)
  BY ReplayMoves
<1>2. PICK w : w = Head(task[r].rest)
  OBVIOUS
<1>3. /\ w \in Wires /\ task[r].at = "subscribe" /\ resume[r] \in Nat /\ resume[r] # None /\ count[r][w] = 0
      /\ task \in [Sessions -> GoodTask] /\ Log!PruneForReplay
      /\ UNCHANGED <<recorded, seq, subscribers, resume, got>>
  <2>1. task[r].rest # <<>>
    BY DEF SubscribeReplay
  <2> QED  BY <1>2, <2>1, TaskParts DEF SubscribeReplay, Types, SessionTypes, Unattached, Log!PruneForReplay, clientVars
<1>4. r \notin Ended /\ Stage[r][w] = "away"
  <2>1. phase[r] = "open" /\ r \notin subscribers[w]
    BY <1>3 DEF Table, SessionTable, Attached, Idle
  <2> QED  BY <1>3, <2>1 DEF Ended, Stage
<1>5. CASE ~Log!CanReplay(buffer', seq, resume[r])
  <2>1. task' = [task EXCEPT ![r] = Idle]
    BY <1>5 DEF SubscribeReplay
  <2>2. task'[r] = Idle /\ \A s \in Sessions \ {r} : task'[s] = task[s]
    BY <1>3, <2>1
  <2>3. events = {}
    BY <1>1, <2>2 DEF Idle
  <2>4. \A s \in Sessions : \A n \in 1..MaxSeq : Moves(s, n, 0)
    BY <1>1, <2>3, Numbers
  <2>5. Stage' = Stage
    <3>1. ASSUME NEW s \in Sessions, NEW v \in Wires PROVE Stage'[s][v] = Stage[s][v]
      BY <1>3, <2>2 DEF Stage, Idle
    <3> QED  BY <3>1, StageRests
  <2> QED  BY <1>3, <2>4, <2>5, DueRests DEF Stutters
<1>6. CASE Log!CanReplay(buffer', seq, resume[r])
  <2>1. PICK backlog : /\ backlog = Log!ReplayFrom(buffer', resume[r], {w})
                       /\ task' = [task EXCEPT ![r] = [at |-> "attach", rest |-> task[r].rest, backlog |-> backlog]]
    BY <1>2, <1>6 DEF SubscribeReplay, Goto
  <2>2. task'[r] = [at |-> "attach", rest |-> task[r].rest, backlog |-> backlog] /\ \A s \in Sessions \ {r} : task'[s] = task[s]
    BY <1>3, <2>1
  <2>3. events = {n \in 1..Len(recorded) : n > resume[r] /\ recorded[n] = w}
    <3>1. PICK last \in Nat : last = resume[r]
      BY <1>3
    <3>2. LogFacts!TypedTail' /\ Log!CanReplay(buffer', seq', last)
      BY <1>3, <1>6, <3>1, PruneKeepsTail
    <3>3. {e.seq : e \in Log!ReplayFrom(buffer', last, {w})} = {n \in 1..Len(recorded') : n > last /\ recorded'[n] = w}
      <4>1. (LogFacts!TypedTail => ReplaysExactly)'
        BY ReplayGives, PTL
      <4> QED  BY <1>3, <3>2, <4>1 DEF ReplaysExactly
    <3> QED  BY <1>1, <1>3, <2>1, <2>2, <3>1, <3>3
  <2>4. Stage' = [Stage EXCEPT ![r][w] = "caught"]
    <3>1. ASSUME NEW s \in Sessions, NEW v \in Wires
          PROVE  Stage'[s][v] = IF s = r /\ v = w THEN "caught" ELSE Stage[s][v]
      <4>1. CASE s # r
        BY <1>3, <2>2, <4>1 DEF Stage
      <4>2. CASE s = r
        BY <1>2, <1>3, <1>4, <2>2, <4>2 DEF Stage
      <4> QED  BY <4>1, <4>2
    <3>2. w \in Wires
      BY <1>3
    <3> QED  BY <3>1, <3>2, StageMoves
  <2>5. PICK d : d = [Due EXCEPT ![r] = Feed!Owe(r, events)]
    OBVIOUS
  <2>6. /\ d[r] = [n \in 1..MaxSeq |-> Due[r][n] + (IF n \in events THEN 1 ELSE 0)]
        /\ \A s \in Sessions \ {r} : d[s] = Due[s]
        /\ d = [s \in Sessions |-> d[s]]
    BY <2>5, DueShape DEF Feed!Owe
  <2>7. ASSUME NEW s \in Sessions
        PROVE  /\ d[s] = [n \in 1..MaxSeq |-> d[s][n]]
               /\ \A n \in 1..MaxSeq : Due'[s][n] = d[s][n]
    <3>1. CASE s = r
      <4>1. ASSUME NEW n \in 1..MaxSeq PROVE Due'[s][n] = d[s][n]
        <5>1. Moves(s, n, IF n \in events THEN 1 ELSE 0)
          BY <1>1, <3>1, Numbers
        <5>2. Due'[s][n] = Due[s][n] + (IF n \in events THEN 1 ELSE 0)
          BY <5>1, DueMoves
        <5> QED  BY <2>6, <3>1, <5>2
      <4> QED  BY <2>6, <3>1, <4>1
    <3>2. CASE s # r
      <4>1. ASSUME NEW n \in 1..MaxSeq PROVE Due'[s][n] = d[s][n]
        <5>1. Moves(s, n, 0)
          BY <1>1, <3>2, Numbers
        <5>2. Due[s][n] \in Nat /\ Due'[s][n] = Due[s][n] + 0
          BY <5>1, DueMoves
        <5> QED  BY <2>6, <3>2, <5>2
      <4> QED  BY <2>6, <3>2, <4>1, DueShape
    <3> QED  BY <3>1, <3>2
  <2>8. d = [s \in Sessions |-> [n \in 1..MaxSeq |-> d[s][n]]]
    BY <2>6, <2>7
  <2>9. Due' = d
    BY <2>7, <2>8, DueAre
  <2>10. Feed!CatchUp(r, w)
    BY <1>3, <1>4, <2>3, <2>4, <2>5, <2>9 DEF Feed!CatchUp, Feed!None, None
  <2> QED  BY <1>3, <2>10 DEF Feed!Next
<1> QED  BY <1>5, <1>6

\* A session is attached to a wire: to one that it is caught up with, when it resumes.
LEMMA AttachFeeds ==
  ASSUME Types, Table, Countable, NEW r \in Sessions, SubscribeAttach(r), Ended' = Ended
  PROVE  Feed!Next
<1>1. PICK w : w = Head(task[r].rest)
  OBVIOUS
<1>2. task[r].at = "attach" /\ task \in [Sessions -> GoodTask] /\ w \in Wires
  BY <1>1, TaskParts DEF SubscribeAttach, Types, SessionTypes
<1>3. phase[r] = "open" /\ r \notin subscribers[w]
  BY <1>1, <1>2 DEF Table, SessionTable, Attached, Attaching, Idle
<1>4. /\ subscribers \in [Wires -> SUBSET Sessions] /\ subscribers' = [subscribers EXCEPT ![w] = @ \cup {r}]
      /\ task' = [task EXCEPT ![r] = [at |-> "backlog", rest |-> task[r].rest, backlog |-> task[r].backlog]]
      /\ UNCHANGED <<resume, got>>
  BY <1>1 DEF SubscribeAttach, Log!Subscribe, Goto, Types, LogTypes, clientVars
<1>5. task'[r].at = "backlog" /\ \A s \in Sessions \ {r} : task'[s] = task[s]
  BY <1>2, <1>4
<1>6. Stage' = [Stage EXCEPT ![r][w] = "attached"]
  <2>1. ASSUME NEW s \in Sessions, NEW v \in Wires
        PROVE  Stage'[s][v] = IF s = r /\ v = w THEN "attached" ELSE Stage[s][v]
    <3>1. s \in subscribers'[v] <=> s \in subscribers[v] \/ (s = r /\ v = w)
      BY <1>2, <1>4
    <3>2. CASE s # r
      BY <1>4, <1>5, <3>1, <3>2 DEF Stage
    <3>3. CASE s = r
      BY <1>1, <1>2, <1>5, <3>1, <3>3 DEF Stage
    <3> QED  BY <3>2, <3>3
  <2> QED  BY <1>2, <2>1, StageMoves
<1>7. Stage[r][w] = IF resume[r] = None THEN "away" ELSE "caught"
  BY <1>1, <1>2, <1>3 DEF Stage
<1>8. Plain
  BY DEF Plain
<1>9. Due' = Due /\ UNCHANGED recorded
  BY <1>8, PlainRests, PlainMoves, Numbers, DueRests
<1>10. Feed!Attach(r, w)
  BY <1>3, <1>4, <1>6, <1>7, <1>9 DEF Feed!Attach, Feed!None, None, Ended
<1> QED  BY <1>2, <1>10 DEF Feed!Next

\* A session lets go of its last subscription of a wire, or of one of several.
LEMMA DetachFeeds ==
  ASSUME Types, Table, Countable, NEW r \in Sessions, NEW w \in Wires, UnsubscribeFrame(r, w) \/ CloseDetach(r, w),
         Ended' = Ended
  PROVE  Feed!Next \/ Stutters
<1>1. /\ UNCHANGED <<task, resume, got>> /\ count[r][w] > 0 /\ count \in [Sessions -> [Wires -> Nat]]
      /\ subscribers \in [Wires -> SUBSET Sessions]
      /\ Log!Unsubscribe(r, w) \/ UNCHANGED subscribers
  BY DEF UnsubscribeFrame, CloseDetach, Holds, clientVars, Types, SessionTypes, LogTypes, logVars
<1>2. r \in subscribers[w] /\ task[r] = Idle
  BY <1>1 DEF Table, SessionTable, Attached, UnsubscribeFrame, CloseDetach, Ready
<1>3. Plain
  BY DEF Plain
<1>4. Due' = Due /\ UNCHANGED recorded
  BY <1>3, PlainRests, PlainMoves, Numbers, DueRests
<1>5. CASE UNCHANGED subscribers
  <2>1. Stage' = Stage
    BY <1>1, <1>5 DEF Stage
  <2> QED  BY <1>1, <1>4, <2>1 DEF Stutters
<1>6. CASE Log!Unsubscribe(r, w)
  <2>1. subscribers' = [subscribers EXCEPT ![w] = @ \ {r}]
    BY <1>6 DEF Log!Unsubscribe
  <2>2. ASSUME NEW s \in Sessions, NEW v \in Wires
        PROVE  Stage'[s][v] = IF s = r /\ v = w THEN "away" ELSE Stage[s][v]
    <3>1. s \in subscribers'[v] <=> s \in subscribers[v] /\ ~(s = r /\ v = w)
      BY <1>1, <2>1
    <3> QED  BY <1>1, <1>2, <3>1 DEF Stage, Idle
  <2>3. Stage' = [Stage EXCEPT ![r][w] = "away"]
    BY <2>2, StageMoves
  <2>4. Stage[r][w] = "attached"
    BY <1>2 DEF Stage
  <2>5. Feed!Leave(r, w)
    BY <1>1, <1>4, <2>3, <2>4 DEF Feed!Leave
  <2> QED  BY <2>5 DEF Feed!Next
<1> QED  BY <1>1, <1>5, <1>6

\* A session is greeted: it resumes where the client stopped, or does not resume.
LEMMA HelloFeeds ==
  ASSUME Types, Table, Countable, Unresumed, NEW r \in Sessions, NEW last \in -1..MaxSeq, Hello(r, last),
         Ended' = Ended, Stage' = Stage
  PROVE  Feed!Next \/ Stutters
<1>1. Plain
  BY DEF Plain
<1>2. Due' = Due /\ UNCHANGED <<recorded, seq, got>>
  BY <1>1, PlainRests, PlainMoves, Numbers, DueRests
<1>3. phase[r] = "new" /\ resume[r] = None /\ r \notin Ended
  BY DEF Hello, Unresumed, Ended
<1>4. CASE resume' = resume
  BY <1>2, <1>4 DEF Stutters
<1>5. CASE resume' # resume
  <2>1. resume \in [Sessions -> Nat \cup {None}] /\ last \in Int
    BY DEF Types, SessionTypes
  <2>2. last # None /\ Log!CanReplay(buffer', seq, last) /\ resume' = [resume EXCEPT ![r] = last]
    BY <1>3, <1>5, <2>1 DEF Hello
  <2>3. last \in Nat
    BY <2>2 DEF Hello, Types, ClientTypes
  <2>4. last \in 0..Len(recorded)
    BY <2>2, <2>3 DEF Log!CanReplay, Types, LogTypes
  <2>5. Feed!Resume(r, last)
    BY <1>2, <1>3, <2>2 DEF Feed!Resume, Feed!None, None
  <2> QED  BY <2>4, <2>5 DEF Feed!Next
<1> QED  BY <1>4, <1>5

\* The client reads a frame: the copies in it are given, and if there are none nothing happens.
LEMMA ReadFeeds ==
  ASSUME Types, Table, Countable, NEW r \in Sessions, ClientReads(r), Ended' = Ended
  PROVE  Feed!Next \/ Stutters
<1>1. ASSUME NEW s \in Sessions, NEW n \in 1..MaxSeq
      PROVE  /\ Due'[s][n] \in Nat /\ Due[s][n] \in Nat /\ got[s][n] \in Nat /\ got'[s][n] \in Nat
             /\ Due'[s][n] <= Due[s][n] /\ Due[s][n] - Due'[s][n] = got'[s][n] - got[s][n]
             /\ s # r => Due'[s][n] = Due[s][n] /\ got'[s][n] = got[s][n]
             /\ Due'[s][n] = Due[s][n] => got'[s][n] = got[s][n]
  <2>1. PICK k \in Nat : Moves(s, n, -k) /\ got'[s][n] = got[s][n] + k /\ (s # r => k = 0)
    BY Numbers, ReadMoves
  <2>2. got[s][n] \in Nat
    BY DEF Types, ClientTypes
  <2>3. Due[s][n] \in Nat /\ Due'[s][n] \in Nat /\ Due'[s][n] = Due[s][n] + (-k)
    BY <2>1, DueMoves
  <2> QED  BY <2>1, <2>2, <2>3
<1>2. ClientTypes'
  BY ClientReadsTypes DEF Types
<1>3. /\ got \in [Sessions -> [1..MaxSeq -> Nat]] /\ got' \in [Sessions -> [1..MaxSeq -> Nat]]
  BY <1>2 DEF Types, ClientTypes
<1>4. UNCHANGED <<recorded, resume, Stage>> /\ r \notin Ended
  BY DEF ClientReads, Ready, logVars, Ended, Stage
<1>5. \A s \in Sessions : Due[s] = [n \in 1..MaxSeq |-> Due[s][n]] /\ Due'[s] = [n \in 1..MaxSeq |-> Due'[s][n]]
  BY DEF Due
<1>6. ASSUME NEW s \in Sessions, \A n \in 1..MaxSeq : got'[s][n] = got[s][n] PROVE got'[s] = got[s]
  <2>1. got[s] = [n \in 1..MaxSeq |-> got[s][n]] /\ got'[s] = [n \in 1..MaxSeq |-> got'[s][n]]
    BY <1>3
  <2> QED  BY <1>6, <2>1
<1>7. ASSUME NEW s \in Sessions \ {r} PROVE Due'[s] = Due[s] /\ got'[s] = got[s]
  <2>1. \A n \in 1..MaxSeq : Due'[s][n] = Due[s][n] /\ got'[s][n] = got[s][n]
    BY <1>1
  <2>2. [n \in 1..MaxSeq |-> Due'[s][n]] = [n \in 1..MaxSeq |-> Due[s][n]]
    BY <2>1
  <2>3. got'[s] = got[s]
    BY <1>6, <2>1
  <2>4. Due'[s] = Due[s]
    BY <1>5, <2>2
  <2> QED  BY <2>3, <2>4
<1>8. CASE got'[r] # got[r]
  BY <1>1, <1>4, <1>7, <1>8 DEF Feed!Next, Feed!Give
<1>9. CASE got'[r] = got[r]
  <2>1. \A n \in 1..MaxSeq : Due'[r][n] = Due[r][n]
    BY <1>1, <1>9
  <2>2. Due'[r] = Due[r]
    <3>1. [n \in 1..MaxSeq |-> Due'[r][n]] = [n \in 1..MaxSeq |-> Due[r][n]]
      BY <2>1
    <3> QED  BY <1>5, <3>1
  <2>3. got' = got
    BY <1>3, <1>7, <1>9
  <2>4. Due' = Due
    <3>1. Due = [s \in Sessions |-> Due[s]] /\ Due' = [s \in Sessions |-> Due'[s]]
      BY DEF Due
    <3>2. \A s \in Sessions : Due'[s] = Due[s]
      BY <1>7, <2>2
    <3> QED  BY <3>1, <3>2
  <2> QED  BY <1>4, <2>3, <2>4 DEF Stutters
<1> QED  BY <1>8, <1>9

\* A callback hands its event on; to a closed pump it is dropped.
LEMMA DeliverFeeds ==
  ASSUME Types, Table, Countable, NEW c \in calling, Deliver(c), Ended' = Ended
  PROVE  Feed!Next \/ Stutters
<1>1. UNCHANGED <<recorded, resume, Stage, got>>
  BY DEF Deliver, Log!CallSubscriber, clientVars, Stage
<1>2. c.to \in Sessions /\ c.event.seq \in 1..MaxSeq
  <2>1. seq \in Nat /\ seq <= MaxSeq /\ Len(recorded) = seq /\ OnRecord(c.event, recorded) /\ c \in Log!Call
    BY DEF Types, LogTypes
  <2> QED  BY <2>1, DeliveryAssumption DEF OnRecord, Log!Call, Log!Event
<1>3. CASE ~pumpClosed[c.to]
  <2>1. \A s \in Sessions : \A n \in 1..MaxSeq : Moves(s, n, 0)
    BY <1>3, Numbers, DeliverMoves
  <2> QED  BY <1>1, <2>1, DueRests DEF Stutters
<1>4. CASE pumpClosed[c.to]
  <2>1. PICK r \in Sessions, m \in 1..MaxSeq : r = c.to /\ m = c.event.seq
    BY <1>2
  <2>2. r \in Ended
    BY <1>4, <2>1 DEF Countable, PumpsOpen, Ended
  <2>3. \A s \in Sessions : \A n \in 1..MaxSeq : Moves(s, n, IF s = r /\ n = m THEN -1 ELSE 0)
    BY <1>4, <2>1, Numbers, DeliverMoves
  <2>4. \A s \in Sessions : \A n \in 1..MaxSeq :
          /\ Due[s][n] \in Nat /\ Due'[s][n] \in Nat /\ Due'[s][n] = Due[s][n] + (IF s = r /\ n = m THEN -1 ELSE 0)
    BY <2>3, DueMoves
  <2>5. PICK d : d = [Due EXCEPT ![r][m] = @ - 1]
    OBVIOUS
  <2>6. d = [s \in Sessions |-> [n \in 1..MaxSeq |-> IF s = r /\ n = m THEN Due[s][n] - 1 ELSE Due[s][n]]]
    BY <2>5, DueShape
  <2>7. \A s \in Sessions : \A n \in 1..MaxSeq : Due'[s][n] = d[s][n]
    BY <2>4, <2>6
  <2>8. d = [s \in Sessions |-> [n \in 1..MaxSeq |-> d[s][n]]]
    BY <2>6
  <2>9. Due' = d
    BY <2>7, <2>8, DueAre
  <2>10. Due[r][m] > 0
    BY <2>4
  <2>11. Feed!Drop(r, m)
    BY <1>1, <2>2, <2>5, <2>9, <2>10 DEF Feed!Drop
  <2> QED  BY <2>11 DEF Feed!Next
<1> QED  BY <1>3, <1>4

\* The end of a connection.
LEMMA EndFeeds ==
  ASSUME Types, Table, Countable, NEW r \in Sessions, Disconnect(r)
  PROVE  Feed!Next
<1>1. Plain
  BY DEF Plain
<1>2. UNCHANGED <<recorded, got>>
  BY <1>1, PlainRests
<1>3. \A s \in Sessions : \A n \in 1..MaxSeq : Moves(s, n, 0)
  BY <1>1, Numbers, PlainMoves
<1>4. Due' = Due
  BY <1>3, DueRests
<1>5. r \notin Ended /\ Ended' = Ended \cup {r}
  BY DEF Disconnect, Ready, Ended, Types, SessionTypes
<1>6. UNCHANGED <<resume, Stage>>
  BY DEF Disconnect, logVars, Stage
<1> QED  BY <1>2, <1>4, <1>5, <1>6 DEF Feed!Next, Feed!End

\* A new engine: nothing is due, given or numbered, and the sessions that have begun are over.  Of those that have
\* not, no event was recorded as owed, so that none was given or due, and they are nowhere.
LEMMA RestartFeeds ==
  ASSUME Types, Table, Countable, Listening, Once, Unresumed, Restart
  PROVE  Feed!Next
<1> DEFINE begun == {s \in Sessions : phase[s] # "new"}
<1>1. recorded' = <<>> /\ got' = [s \in Sessions |-> Feed!NoEvents] /\ UNCHANGED resume
  BY DEF Restart, Log!NewLog, Feed!NoEvents
<1>2. Due' = [s \in Sessions |-> Feed!NoEvents]
  <2>1. NothingThere'
    BY RestartCounts
  <2>2. \A s \in Sessions : \A n \in 1..MaxSeq : OnTheWay(s, n)' = 0
    BY <2>1, Numbers DEF NothingThere
  <2> QED  BY <2>2 DEF Due, Feed!NoEvents
<1>3. Ended' = Ended \cup begun
  <2>1. phase' = [s \in Sessions |-> IF phase[s] = "new" THEN "new" ELSE "closed"]
    BY DEF Restart
  <2>2. Ended' = begun
    BY <2>1 DEF Ended
  <2>3. Ended \subseteq begun
    BY DEF Ended
  <2> QED  BY <2>2, <2>3
<1>4. ASSUME NEW s \in Sessions \ begun PROVE Due[s] = Feed!NoEvents /\ got[s] = Feed!NoEvents
  <2>1. ASSUME NEW n \in 1..MaxSeq PROVE OnTheWay(s, n) = 0 /\ got[s][n] = 0
    <3>1. n \notin owed[s] \cup caught[s]
      BY <1>4 DEF Listening
    <3>2. got[s][n] \in Nat /\ OnTheWay(s, n) \in Nat /\ Total(s, n) = got[s][n] + OnTheWay(s, n)
      BY TotalTyped
    <3>3. OnceFor(s, n)
      BY DEF Once
    <3> QED  BY <3>1, <3>2, <3>3 DEF OnceFor
  <2>2. got[s] \in [1..MaxSeq -> Nat]
    BY DEF Types, ClientTypes
  <2>3. got[s] = Feed!NoEvents
    BY <2>1, <2>2 DEF Feed!NoEvents
  <2>4. Due[s] = Feed!NoEvents
    BY <2>1 DEF Due, Feed!NoEvents
  <2> QED  BY <2>3, <2>4
<1>5. ASSUME NEW s \in Sessions \ begun PROVE Stage[s] = Feed!Away[s] /\ resume[s] = None
  <2>1. task[s] = Idle /\ \A w \in Wires : s \notin subscribers[w]
    BY <1>5 DEF Table, SessionTable, Attached, Idle
  <2>2. Stage[s] = [w \in Wires |-> "away"]
    BY <2>1 DEF Stage, Idle
  <2> QED  BY <1>5, <2>2 DEF Feed!Away, Unresumed
<1>6. Stage' = Feed!Away
  BY DEF Restart, Log!NewLog, Stage, Idle, Feed!Away
<1>7. Feed!Renew(begun)
  BY <1>1, <1>2, <1>3, <1>4, <1>5, <1>6 DEF Feed!Renew, Feed!None, None
<1> QED  BY <1>7 DEF Feed!Next

\* What the proof of a step rests on.
FeedInv == Types /\ Table /\ Countable /\ Listening /\ Once /\ LogFacts!TypedTail /\ Unresumed

\* Every step of the delivery is one of the feed or none.
LEMMA FeedStep == FeedInv /\ [Next]_vars => [Feed!Next]_(Feed!feedVars)
<1> SUFFICES ASSUME FeedInv, [Next]_vars, ~Restart
             PROVE  Feed!Next \/ Stutters
  BY RestartFeeds DEF Stutters, Feed!feedVars, FeedInv
<1> USE DEF FeedInv
<1>1. CASE \E r \in Sessions : Disconnect(r)
  BY <1>1, EndFeeds
<1>2. CASE ~\E r \in Sessions : Disconnect(r)
  <2>1. Ended' = Ended
    BY <1>2, EndedStays
  <2>2. CASE \E r \in Sessions : SubscribeReplay(r) \/ SubscribeAttach(r)
    BY <2>1, <2>2, ReplayFeeds, AttachFeeds
  <2>3. CASE \E r \in Sessions, w \in Wires : UnsubscribeFrame(r, w) \/ CloseDetach(r, w)
    BY <2>1, <2>3, DetachFeeds
  <2>4. CASE /\ ~\E r \in Sessions : SubscribeReplay(r) \/ SubscribeAttach(r)
             /\ ~\E r \in Sessions, w \in Wires : UnsubscribeFrame(r, w) \/ CloseDetach(r, w)
    <3>1. Stage' = Stage
      BY <2>4, StageStays
    <3>2. CASE \E t \in Emitters, w \in Wires : Emit(t, w)
      BY <2>1, <3>1, <3>2, EmitFeeds
    <3>3. CASE \E r \in Sessions, last \in -1..MaxSeq : Hello(r, last)
      BY <2>1, <3>1, <3>3, HelloFeeds
    <3>4. CASE (\E c \in calling : Deliver(c)) \/ \E r \in Sessions : ClientReads(r)
      BY <2>1, <3>4, DeliverFeeds, ReadFeeds
    <3>5. ASSUME UNCHANGED <<recorded, resume, got>>, \A s \in Sessions : \A n \in 1..MaxSeq : Moves(s, n, 0)
          PROVE  Stutters
      BY <2>1, <3>1, <3>5, DueRests DEF Stutters
    <3>6. CASE PumpStep
      BY <3>5, <3>6, Numbers, PumpStepMoves DEF PumpStep, logVars, clientVars
    <3>7. CASE Plain /\ ~\E r \in Sessions, last \in -1..MaxSeq : Hello(r, last)
      <4>1. UNCHANGED resume
        BY <3>7 DEF Plain, OthersSubscribe, SubscribeFrame, SubscribeAgain, SubscribeFresh, SubscribeAttach,
                    SubscribeInsert, SubscribeAnswer, Disconnect, CloseDetach, UnsubscribeFrame
      <4> QED  BY <3>5, <3>7, <4>1, Numbers, PlainRests, PlainMoves
    <3>8. CASE \E r \in Sessions : SubscribeBacklog(r) \/ CloseSessionPump(r)
      <4>1. PICK r \in Sessions : SubscribeBacklog(r) \/ CloseSessionPump(r)
        BY <3>8
      <4>2. UNCHANGED <<recorded, resume, got>>
        BY <4>1 DEF SubscribeBacklog, CloseSessionPump, logVars, clientVars
      <4>3. \A s \in Sessions : \A n \in 1..MaxSeq : Moves(s, n, 0)
        BY <4>1, Numbers, BacklogMoves, ClosePumpMoves
      <4> QED  BY <3>5, <4>2, <4>3
    <3>9. CASE UNCHANGED vars
      <4>1. UNCHANGED <<recorded, resume, got, calling, pumpVars, task>>
        BY <3>9 DEF vars, logVars, clientVars
      <4>2. \A s \in Sessions : \A n \in 1..MaxSeq : Moves(s, n, 0)
        BY <4>1, Numbers, NothingMoves DEF Countable, AllFinite
      <4> QED  BY <3>5, <4>1, <4>2
    <3> QED  BY <2>4, <3>2, <3>3, <3>4, <3>6, <3>7, <3>8, <3>9, StepKinds DEF QuietStep
  <2> QED  BY <2>2, <2>3, <2>4
<1> QED  BY <1>1, <1>2

LEMMA FeedInit == Init => Feed!Init
<1> SUFFICES ASSUME Init PROVE Feed!Init
  OBVIOUS
<1>1. \A s \in Sessions : \A n \in 1..MaxSeq : OnTheWay(s, n) = 0
  BY Numbers, InitCounts DEF NothingThere
<1>2. Due = [s \in Sessions |-> [n \in 1..MaxSeq |-> 0]]
  BY <1>1 DEF Due
<1>3. Ended = {}
  BY DEF Init, Ended
<1>4. Stage = [s \in Sessions |-> [w \in Wires |-> "away"]]
  BY DEF Init, Log!LogInit, Stage, Idle
<1> QED  BY <1>2, <1>3, <1>4 DEF Feed!Init, Feed!NoEvents, Feed!Away, Feed!None, None, Init, Log!LogInit

\* Delivery implements the feed: an event is due to the sessions attached when it is numbered and to no other; a
\* resumed session is owed, before it attaches to a wire, every event of it after its resume point; what is due is
\* given once, becomes due again only to a session that has left the wire, and is dropped only when the session has
\* ended, itself or with its engine.  Threads, batches, timers and the order of their steps do not show.
THEOREM FeedCorrect == Spec => ImplementsFeed
<1>1. Init => FeedInv
  BY InitTypes, InitTable, InitCounts, InitListening, InitOnce, InitTail, InitUnresumed DEF FeedInv
<1>2. FeedInv /\ [Next]_vars => FeedInv'
  BY NextTypes, NextTable, NextCountable, NextListening, NextOnce, NextTail, NextUnresumed DEF FeedInv
<1> QED  BY <1>1, <1>2, FeedInit, FeedStep, PTL DEF Spec, ImplementsFeed, Feed!Spec

=============================================================================
