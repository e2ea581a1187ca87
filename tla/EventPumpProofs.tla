-------------------------- MODULE EventPumpProofs --------------------------
(***************************************************************************)
(* Proofs about EventPump, for any number of pumps, callers and events and *)
(* any size of a batch.                                                    *)
(*                                                                         *)
(* TypeOK is not inductive: the number of a frame is at least 1 only       *)
(* because pendingSeq is the highest number in the batch.  NoBatchStranded *)
(* needs the flag that guards the timer: it is set while a batch waits,    *)
(* and a timer of the current generation sleeps while it is set.           *)
(***************************************************************************)
EXTENDS EventPump, SequenceTheorems, FiniteSetTheorems, TLAPS

IsTop(n, q) ==
  /\ \A j \in 1..Len(q) : q[j] <= n
  /\ IF q = <<>> THEN n = 0 ELSE \E j \in 1..Len(q) : q[j] = n

GoodFrame   == {f \in Frame : IsTop(f.seq, f.entries) /\ f.entries # <<>>}
GoodSending == [pump : Pumps, frame : GoodFrame]
GoodHolding == [pump : Pumps, generation : Nat, frame : GoodFrame]

PumpTypes ==
  /\ pending \in [Pumps -> Seq(Number)]
  /\ pendingSeq \in [Pumps -> Nat]
  /\ generation \in [Pumps -> Nat]
  /\ timerArmed \in [Pumps -> BOOLEAN]
  /\ pumpClosed \in [Pumps -> BOOLEAN]
  /\ timers \subseteq Timer
  /\ unsent \in [Callers -> Seq(GoodSending)]
  /\ timerUnsent \subseteq GoodHolding
  /\ out \in [Pumps -> Seq(GoodFrame)]
  /\ accepted \in [Pumps -> SUBSET Number]
  /\ DOMAIN pusher \subseteq Number
  /\ \A n \in DOMAIN pusher : pusher[n] \in Callers

Waiting ==
  \A p \in Pumps :
    /\ IsTop(pendingSeq[p], pending[p])
    /\ pending[p] # <<>> => timerArmed[p]
    /\ timerArmed[p] => [pump |-> p, generation |-> generation[p]] \in timers
    /\ Len(pending[p]) < MaxBatch
    /\ pumpClosed[p] => pending[p] = <<>> /\ ~timerArmed[p]

Inv == PumpTypes /\ Waiting

LEMMA InitInv == Init => Inv
BY EmptySeq, PumpAssumption DEF Init, PumpInit, Inv, PumpTypes, Waiting, IsTop

\* Adding a number to a batch raises the batch's number to it, when it is higher.
LEMMA TopOfAppend ==
  ASSUME NEW q \in Seq(Number), NEW m \in Nat, NEW n \in Number, IsTop(m, q)
  PROVE  /\ Append(q, n) \in Seq(Number) /\ Len(Append(q, n)) = Len(q) + 1
         /\ Append(q, n) # <<>>
         /\ Greatest(m, n) \in Number /\ IsTop(Greatest(m, n), Append(q, n))
<1> DEFINE r == Append(q, n)
           g == Greatest(m, n)
<1>1. /\ r \in Seq(Number) /\ Len(r) = Len(q) + 1 /\ Len(q) \in Nat
      /\ \A i \in 1..Len(r) : r[i] = IF i = Len(q) + 1 THEN n ELSE q[i]
      /\ \A i \in 1..Len(q) : q[i] \in Number
  BY AppendProperties, LenProperties, ElementOfSeq
<1>2. g \in Number /\ m <= g /\ n <= g /\ (g = m \/ g = n)
  BY DEF Greatest, Number
<1>3. (q = <<>> /\ m = 0) \/ \E j \in 1..Len(q) : q[j] = m
  BY DEF IsTop
<1>4. \A j \in 1..Len(q) : q[j] <= m
  BY DEF IsTop
<1>5. q = <<>> => Len(q) = 0
  BY EmptySeq
<1> HIDE DEF r, g
<1>6. ASSUME NEW j \in 1..Len(r) PROVE r[j] <= g
  <2>1. CASE j = Len(q) + 1
    BY <2>1, <1>1, <1>2
  <2>2. CASE j # Len(q) + 1
    <3>1. j \in 1..Len(q) /\ r[j] = q[j] /\ q[j] <= m /\ q[j] \in Number
      BY <2>2, <1>1, <1>4
    <3> QED  BY <3>1, <1>2 DEF Number
  <2> QED  BY <2>1, <2>2
<1>7. \E j \in 1..Len(r) : r[j] = g
  <2>1. CASE g = n
    <3>1. Len(q) + 1 \in 1..Len(r) /\ r[Len(q) + 1] = n
      BY <1>1
    <3> QED  BY <3>1, <2>1
  <2>2. CASE g # n /\ q # <<>>
    <3>1. PICK j \in 1..Len(q) : q[j] = m
      BY <2>2, <1>3
    <3>2. j \in 1..Len(r) /\ r[j] = q[j]
      BY <1>1
    <3> QED  BY <3>1, <3>2, <2>2, <1>2
  <2>3. CASE g # n /\ q = <<>>
    \* Then the batch was empty and its number 0, below any event's.
    <3>1. m = 0
      BY <2>3 DEF IsTop
    <3> QED  BY <2>3, <3>1, <1>2 DEF Number
  <2> QED  BY <2>1, <2>2, <2>3
<1>8. r # <<>>
  BY <1>1, EmptySeq
<1> QED  BY <1>1, <1>2, <1>6, <1>7, <1>8 DEF IsTop, r, g

\* Whatever is taken from the state to be sent is a frame with the right number.
LEMMA TakenGood ==
  ASSUME Inv, NEW p \in Pumps
  PROVE  TakenBatch(p) \in Seq(GoodSending)
<1>1. pending[p] \in Seq(Number) /\ pendingSeq[p] \in Nat /\ IsTop(pendingSeq[p], pending[p])
  BY DEF Inv, PumpTypes, Waiting
<1>2. CASE pending[p] = <<>>
  BY <1>2, EmptySeq DEF TakenBatch
<1>3. CASE pending[p] # <<>>
  <2>1. PICK j \in 1..Len(pending[p]) : pending[p][j] = pendingSeq[p]
    BY <1>1, <1>3 DEF IsTop
  <2>2. pendingSeq[p] \in Number
    BY <1>1, <2>1, ElementOfSeq
  <2>3. Batch(p, pendingSeq[p], pending[p]) \in GoodSending
    BY <1>1, <1>3, <2>2 DEF Batch, GoodSending, GoodFrame, Frame
  <2> QED  BY <1>3, <2>3 DEF TakenBatch
<1> QED  BY <1>2, <1>3

LEMMA SingleGood ==
  ASSUME NEW p \in Pumps, NEW n \in Number
  PROVE  Single(p, n) \in GoodSending
<1> DEFINE q == <<n>>
<1>1. q \in Seq(Number) /\ q # <<>> /\ Len(q) = 1 /\ q[1] = n
  OBVIOUS
<1> HIDE DEF q
<1>2. IsTop(n, q)
  BY <1>1 DEF IsTop, Number
<1>3. [batch |-> FALSE, seq |-> n, entries |-> q] \in GoodFrame
  BY <1>1, <1>2 DEF GoodFrame, Frame
<1> QED  BY <1>3 DEF Single, GoodSending, q

LEMMA FullGood ==
  ASSUME Inv, NEW p \in Pumps, NEW n \in Number
  PROVE  <<Batch(p, Greatest(pendingSeq[p], n), Append(pending[p], n))>> \in Seq(GoodSending)
<1> DEFINE g == Greatest(pendingSeq[p], n)
           q == Append(pending[p], n)
<1>1. q \in Seq(Number) /\ q # <<>> /\ g \in Number /\ IsTop(g, q)
  BY TopOfAppend DEF Inv, PumpTypes, Waiting
<1> HIDE DEF g, q
<1>2. Batch(p, g, q) \in GoodSending
  BY <1>1 DEF Batch, GoodSending, GoodFrame, Frame
<1>3. <<Batch(p, g, q)>> \in Seq(GoodSending)
  BY <1>2
<1> QED  BY <1>3 DEF g, q

\* After a flush nothing waits, so nothing about the timers can be wrong.
LEMMA ResetInv ==
  ASSUME Inv, NEW p \in Pumps, ResetBatch(p),
         pumpClosed' = pumpClosed \/ pumpClosed' = [pumpClosed EXCEPT ![p] = TRUE],
         \A x \in timers : x.pump # p => x \in timers'
  PROVE  /\ Waiting'
         /\ pending' \in [Pumps -> Seq(Number)] /\ pendingSeq' \in [Pumps -> Nat]
         /\ generation' \in [Pumps -> Nat] /\ timerArmed' \in [Pumps -> BOOLEAN]
         /\ pumpClosed' \in [Pumps -> BOOLEAN]
<1>1. /\ pending' = [pending EXCEPT ![p] = <<>>] /\ pendingSeq' = [pendingSeq EXCEPT ![p] = 0]
      /\ generation' = [generation EXCEPT ![p] = @ + 1]
      /\ timerArmed' = [timerArmed EXCEPT ![p] = FALSE]
  BY DEF ResetBatch
<1>2. <<>> \in Seq(Number) /\ Len(<<>>) = 0
  BY EmptySeq
<1>3. /\ pending' \in [Pumps -> Seq(Number)] /\ pendingSeq' \in [Pumps -> Nat]
      /\ generation' \in [Pumps -> Nat] /\ timerArmed' \in [Pumps -> BOOLEAN]
      /\ pumpClosed' \in [Pumps -> BOOLEAN]
  <2>1. pending' \in [Pumps -> Seq(Number)]
    BY <1>1, <1>2 DEF Inv, PumpTypes
  <2>2. pendingSeq' \in [Pumps -> Nat] /\ generation' \in [Pumps -> Nat]
    BY <1>1 DEF Inv, PumpTypes
  <2>3. timerArmed' \in [Pumps -> BOOLEAN]
    BY <1>1 DEF Inv, PumpTypes
  <2>4. pumpClosed' \in [Pumps -> BOOLEAN]
    <3>1. CASE pumpClosed' = pumpClosed
      BY <3>1 DEF Inv, PumpTypes
    <3>2. CASE pumpClosed' = [pumpClosed EXCEPT ![p] = TRUE]
      BY <3>2 DEF Inv, PumpTypes
    <3> QED  BY <3>1, <3>2
  <2> QED  BY <2>1, <2>2, <2>3, <2>4
<1>4. ASSUME NEW r \in Pumps
      PROVE  /\ IsTop(pendingSeq'[r], pending'[r])
             /\ pending'[r] # <<>> => timerArmed'[r]
             /\ timerArmed'[r] => [pump |-> r, generation |-> generation'[r]] \in timers'
             /\ Len(pending'[r]) < MaxBatch
             /\ pumpClosed'[r] => pending'[r] = <<>> /\ ~timerArmed'[r]
  <2>1. CASE r = p
    <3>1. pending'[r] = <<>> /\ pendingSeq'[r] = 0 /\ timerArmed'[r] = FALSE
      BY <1>1, <2>1 DEF Inv, PumpTypes
    <3> QED  BY <3>1, <1>2, PumpAssumption DEF IsTop
  <2>2. CASE r # p
    <3>1. /\ pending'[r] = pending[r] /\ pendingSeq'[r] = pendingSeq[r]
          /\ timerArmed'[r] = timerArmed[r] /\ generation'[r] = generation[r]
          /\ pumpClosed'[r] = pumpClosed[r]
      BY <1>1, <2>2 DEF Inv, PumpTypes
    <3>2. [pump |-> r, generation |-> generation[r]] \in timers =>
            [pump |-> r, generation |-> generation[r]] \in timers'
      BY <2>2
    <3> QED  BY <3>1, <3>2 DEF Inv, Waiting
  <2> QED  BY <2>1, <2>2
<1> QED  BY <1>3, <1>4 DEF Waiting

LEMMA PushInv ==
  ASSUME Inv, NEW c \in Callers, NEW p \in Pumps, NEW n \in 1..MaxSeq, PushStep(c, p, n)
  PROVE  Inv'
<1>1. /\ PushOther(c, p, n) \/ PushEntry(c, p, n)
      /\ accepted' = [accepted EXCEPT ![p] = @ \cup {n}]
      /\ pusher' = [m \in DOMAIN pusher \cup {n} |-> IF m = n THEN c ELSE pusher[m]]
  BY DEF PushStep
<1>2. n \in Number
  BY PumpAssumption DEF Number
<1>3. /\ accepted' \in [Pumps -> SUBSET Number]
      /\ DOMAIN pusher' \subseteq Number /\ \A m \in DOMAIN pusher' : pusher'[m] \in Callers
  BY <1>1, <1>2 DEF Inv, PumpTypes
<1>4. CASE PushOther(c, p, n)
  <2>1. /\ ResetBatch(p) /\ UNCHANGED <<pumpClosed, timers, timerUnsent, out>>
        /\ unsent' = [unsent EXCEPT ![c] = Append(TakenBatch(p), Single(p, n))]
    BY <1>4 DEF PushOther
  <2>2. Append(TakenBatch(p), Single(p, n)) \in Seq(GoodSending)
    BY <1>2, TakenGood, SingleGood, AppendProperties
  <2>3. unsent' \in [Callers -> Seq(GoodSending)]
    BY <2>1, <2>2 DEF Inv, PumpTypes
  <2> QED  BY <2>1, <2>3, <1>3, ResetInv DEF Inv, PumpTypes
<1>5. CASE PushFull(c, p, n)
  <2> DEFINE full == <<Batch(p, Greatest(pendingSeq[p], n), Append(pending[p], n))>>
  <2>1. /\ ResetBatch(p) /\ UNCHANGED <<pumpClosed, timers, timerUnsent, out>>
        /\ unsent' = [unsent EXCEPT ![c] = full]
    BY <1>5 DEF PushFull
  <2>2. full \in Seq(GoodSending)
    BY <1>2, FullGood
  <2> HIDE DEF full
  <2>3. unsent' \in [Callers -> Seq(GoodSending)]
    BY <2>1, <2>2 DEF Inv, PumpTypes
  <2> QED  BY <2>1, <2>3, <1>3, ResetInv DEF Inv, PumpTypes
<1>6. CASE PushWaits(c, p, n)
  <2> DEFINE x == [pump |-> p, generation |-> generation[p]]
  <2>1. /\ ~pumpClosed[p] /\ Len(pending[p]) + 1 < MaxBatch
        /\ pending' = [pending EXCEPT ![p] = Append(@, n)]
        /\ pendingSeq' = [pendingSeq EXCEPT ![p] = Greatest(@, n)]
        /\ timerArmed' = [timerArmed EXCEPT ![p] = TRUE]
        /\ timers' = IF timerArmed[p] THEN timers ELSE timers \cup {x}
        /\ UNCHANGED <<generation, pumpClosed, unsent, timerUnsent, out>>
    BY <1>6 DEF PushWaits
  <2>2. pending[p] \in Seq(Number) /\ pendingSeq[p] \in Nat /\ IsTop(pendingSeq[p], pending[p])
    BY DEF Inv, PumpTypes, Waiting
  <2>3. /\ Append(pending[p], n) \in Seq(Number)
        /\ Len(Append(pending[p], n)) = Len(pending[p]) + 1
        /\ Greatest(pendingSeq[p], n) \in Number
        /\ IsTop(Greatest(pendingSeq[p], n), Append(pending[p], n))
    BY <2>2, <1>2, TopOfAppend
  <2>4. x \in Timer /\ timers \subseteq timers' /\ timers' \subseteq timers \cup {x} /\ x \in timers'
    BY <2>1 DEF Inv, PumpTypes, Waiting, Timer
  <2> HIDE DEF x
  <2>5. PumpTypes'
    BY <2>1, <2>3, <2>4, <1>3 DEF Inv, PumpTypes, Number
  <2>6. ASSUME NEW r \in Pumps
        PROVE  /\ IsTop(pendingSeq'[r], pending'[r])
               /\ pending'[r] # <<>> => timerArmed'[r]
               /\ timerArmed'[r] => [pump |-> r, generation |-> generation'[r]] \in timers'
               /\ Len(pending'[r]) < MaxBatch
               /\ pumpClosed'[r] => pending'[r] = <<>> /\ ~timerArmed'[r]
    <3>1. CASE r = p
      <4>1. /\ pending'[r] = Append(pending[p], n) /\ pendingSeq'[r] = Greatest(pendingSeq[p], n)
            /\ timerArmed'[r] /\ ~pumpClosed'[r] /\ generation' = generation
        BY <2>1, <3>1 DEF Inv, PumpTypes
      <4> QED  BY <4>1, <2>1, <2>3, <2>4, <3>1 DEF x
    <3>2. CASE r # p
      <4>1. /\ pending'[r] = pending[r] /\ pendingSeq'[r] = pendingSeq[r]
            /\ timerArmed'[r] = timerArmed[r] /\ generation' = generation
            /\ pumpClosed' = pumpClosed
        BY <2>1, <3>2 DEF Inv, PumpTypes
      <4> QED  BY <4>1, <2>4 DEF Inv, Waiting
    <3> QED  BY <3>1, <3>2
  <2> QED  BY <2>5, <2>6 DEF Inv, Waiting
<1> QED  BY <1>1, <1>4, <1>5, <1>6 DEF PushEntry

LEMMA SendInv ==
  ASSUME Inv, NEW c \in Callers, Send(c) /\ Quiet
  PROVE  Inv'
<1> DEFINE x == Head(unsent[c])
<1>1. /\ unsent[c] # <<>>
      /\ out' = [out EXCEPT ![x.pump] = Append(@, x.frame)]
      /\ unsent' = [unsent EXCEPT ![c] = Tail(@)]
      /\ UNCHANGED <<pending, pendingSeq, generation, timerArmed, pumpClosed, timers, timerUnsent,
                     accepted, pusher>>
  BY DEF Send, Quiet
<1>2. x \in GoodSending /\ Tail(unsent[c]) \in Seq(GoodSending)
  BY <1>1, HeadTailProperties DEF Inv, PumpTypes
<1> HIDE DEF x
<1>3. x.pump \in Pumps /\ x.frame \in GoodFrame
  BY <1>2 DEF GoodSending
<1>4. out[x.pump] \in Seq(GoodFrame)
  BY <1>3 DEF Inv, PumpTypes
<1>5. Append(out[x.pump], x.frame) \in Seq(GoodFrame)
  BY <1>3, <1>4, AppendProperties
<1>6. PumpTypes'
  BY <1>1, <1>2, <1>3, <1>5 DEF Inv, PumpTypes
<1>7. Waiting'
  BY <1>1 DEF Inv, Waiting
<1> QED  BY <1>6, <1>7 DEF Inv

LEMMA TimerInv ==
  ASSUME Inv, NEW x \in timers, (TimerTakes(x) \/ TimerStale(x)) /\ Quiet
  PROVE  Inv'
<1>1. x.pump \in Pumps /\ x.generation \in Nat
      /\ x = [pump |-> x.pump, generation |-> x.generation]
  BY DEF Inv, PumpTypes, Timer
<1>2. CASE TimerTakes(x)
  <2> DEFINE taken == TakenBatch(x.pump)
  <2>1. /\ timers' = timers \ {x} /\ ResetBatch(x.pump)
        /\ timerUnsent' = timerUnsent \cup
             {[pump |-> x.pump, generation |-> x.generation, frame |-> taken[i].frame] :
                i \in 1..Len(taken)}
        /\ UNCHANGED <<pumpClosed, unsent, out, accepted, pusher>>
    BY <1>2 DEF TimerTakes, Quiet
  <2>2. \A i \in 1..Len(taken) : taken[i] \in GoodSending
    BY <1>1, TakenGood, ElementOfSeq
  <2> HIDE DEF taken
  <2>3. timerUnsent' \subseteq GoodHolding /\ timers' \subseteq Timer
    BY <1>1, <2>1, <2>2 DEF Inv, PumpTypes, GoodHolding, GoodSending
  <2>4. \A y \in timers : y.pump # x.pump => y \in timers'
    BY <2>1
  <2> QED  BY <2>1, <2>3, <2>4, <1>1, ResetInv DEF Inv, PumpTypes
<1>3. CASE TimerStale(x)
  <2>1. /\ timers' = timers \ {x}
        /\ pumpClosed[x.pump] \/ x.generation # generation[x.pump]
        /\ UNCHANGED <<pending, pendingSeq, generation, timerArmed, pumpClosed, unsent, timerUnsent,
                       out, accepted, pusher>>
    BY <1>3 DEF TimerStale, Quiet
  <2>2. ASSUME NEW p \in Pumps, timerArmed[p]
        PROVE  [pump |-> p, generation |-> generation[p]] \in timers'
    <3>1. ~pumpClosed[p] /\ [pump |-> p, generation |-> generation[p]] \in timers
      BY <2>2 DEF Inv, Waiting
    <3>2. [pump |-> p, generation |-> generation[p]] # x
      BY <2>1, <3>1
    <3> QED  BY <2>1, <3>1, <3>2
  <2>3. PumpTypes'
    BY <2>1 DEF Inv, PumpTypes
  <2>4. Waiting'
    BY <2>1, <2>2 DEF Inv, Waiting
  <2> QED  BY <2>3, <2>4 DEF Inv
<1> QED  BY <1>2, <1>3

LEMMA TimerSendInv ==
  ASSUME Inv, NEW x \in timerUnsent, TimerSends(x) /\ Quiet
  PROVE  Inv'
<1>1. /\ timerUnsent' = timerUnsent \ {x}
      /\ out' = [out EXCEPT ![x.pump] = Append(@, x.frame)]
      /\ UNCHANGED <<pending, pendingSeq, generation, timerArmed, pumpClosed, timers, unsent,
                     accepted, pusher>>
  BY DEF TimerSends, Quiet
<1>2. x.pump \in Pumps /\ x.frame \in GoodFrame
  BY DEF Inv, PumpTypes, GoodHolding
<1>3. out[x.pump] \in Seq(GoodFrame)
  BY <1>2 DEF Inv, PumpTypes
<1>4. Append(out[x.pump], x.frame) \in Seq(GoodFrame)
  BY <1>2, <1>3, AppendProperties
<1>5. PumpTypes'
  BY <1>1, <1>2, <1>4 DEF Inv, PumpTypes
<1>6. Waiting'
  BY <1>1 DEF Inv, Waiting
<1> QED  BY <1>5, <1>6 DEF Inv

LEMMA CloseInv ==
  ASSUME Inv, NEW c \in Callers, NEW p \in Pumps, ClosePump(c, p) /\ Quiet
  PROVE  Inv'
<1>1. /\ pumpClosed' = [pumpClosed EXCEPT ![p] = TRUE] /\ ResetBatch(p)
      /\ unsent' = [unsent EXCEPT ![c] = TakenBatch(p)]
      /\ UNCHANGED <<timers, timerUnsent, out, accepted, pusher>>
  BY DEF ClosePump, Quiet
<1>2. unsent' \in [Callers -> Seq(GoodSending)]
  BY <1>1, TakenGood DEF Inv, PumpTypes
<1> QED  BY <1>1, <1>2, ResetInv DEF Inv, PumpTypes

LEMMA NextInv == Inv /\ [Next]_vars => Inv'
<1> SUFFICES ASSUME Inv, [Next]_vars PROVE Inv'
  OBVIOUS
<1>1. CASE \E c \in Callers, p \in Pumps, n \in 1..MaxSeq : PushStep(c, p, n)
  BY <1>1, PushInv
<1>2. CASE \E c \in Callers, p \in Pumps : ClosePump(c, p) /\ Quiet
  BY <1>2, CloseInv
<1>3. CASE \E c \in Callers : Send(c) /\ Quiet
  BY <1>3, SendInv
<1>4. CASE \E x \in timers : (TimerTakes(x) \/ TimerStale(x)) /\ Quiet
  BY <1>4, TimerInv
<1>5. CASE \E x \in timerUnsent : TimerSends(x) /\ Quiet
  BY <1>5, TimerSendInv
<1>6. CASE UNCHANGED vars
  <2>1. PumpTypes'
    BY <1>6 DEF Inv, PumpTypes, vars, pumpVars
  <2>2. Waiting'
    BY <1>6 DEF Inv, Waiting, vars, pumpVars
  <2> QED  BY <2>1, <2>2 DEF Inv
<1>7. ASSUME \E c \in Callers, p \in Pumps : PushRefused(c, p) /\ Quiet
      PROVE  UNCHANGED vars
  BY <1>7 DEF PushRefused, Quiet, vars
<1> QED  BY <1>1, <1>2, <1>3, <1>4, <1>5, <1>6, <1>7 DEF Next

-----------------------------------------------------------------------------
LEMMA InvImplies == Inv => TypeOK /\ NoBatchStranded /\ FrameNumber
<1> SUFFICES ASSUME Inv PROVE TypeOK /\ NoBatchStranded /\ FrameNumber
  OBVIOUS
<1>1. GoodFrame \subseteq Frame /\ GoodSending \subseteq Sending /\ GoodHolding \subseteq Holding
  BY DEF GoodFrame, GoodSending, Sending, GoodHolding, Holding
<1>2. unsent \in [Callers -> Seq(Sending)]
  <2>1. \A c \in Callers : unsent[c] \in Seq(Sending)
    BY <1>1, SeqMonotonic DEF Inv, PumpTypes
  <2> QED  BY <2>1 DEF Inv, PumpTypes
<1>3. out \in [Pumps -> Seq(Frame)]
  <2>1. \A p \in Pumps : out[p] \in Seq(Frame)
    BY <1>1, SeqMonotonic DEF Inv, PumpTypes
  <2> QED  BY <2>1 DEF Inv, PumpTypes
<1>4. TypeOK
  BY <1>1, <1>2, <1>3 DEF Inv, PumpTypes, TypeOK
<1>5. NoBatchStranded
  BY DEF Inv, Waiting, NoBatchStranded
<1>6. ASSUME NEW p \in Pumps, NEW i \in DOMAIN out[p]
      PROVE  /\ \A j \in DOMAIN out[p][i].entries : out[p][i].entries[j] <= out[p][i].seq
             /\ \E j \in DOMAIN out[p][i].entries : out[p][i].entries[j] = out[p][i].seq
  <2>1. out[p] \in Seq(GoodFrame) /\ i \in 1..Len(out[p])
    BY <1>6, LenProperties DEF Inv, PumpTypes
  <2>2. out[p][i] \in GoodFrame
    BY <2>1, ElementOfSeq
  <2>3. DOMAIN out[p][i].entries = 1..Len(out[p][i].entries)
    BY <2>2, LenProperties DEF GoodFrame, Frame
  <2> QED  BY <2>2, <2>3 DEF GoodFrame, IsTop
<1>7. FrameNumber
  BY <1>6 DEF FrameNumber
<1> QED  BY <1>4, <1>5, <1>7

\* The pump's variables keep their types; in particular no frame has the number 0.
THEOREM TypeCorrect == Spec => []TypeOK
<1> QED  BY InitInv, NextInv, InvImplies, PTL DEF Spec

\* A batch that waits always has a timer that will send it (the generation check of push), and is
\* never as long as the limit nor left behind by close.
THEOREM NeverStranded == Spec => []NoBatchStranded
<1> QED  BY InitInv, NextInv, InvImplies, PTL DEF Spec

\* The number of every frame sent is the highest of the events in it (pending_seq, take_batch).
THEOREM FrameNumberCorrect == Spec => []FrameNumber
<1> QED  BY InitInv, NextInv, InvImplies, PTL DEF Spec

-----------------------------------------------------------------------------
(***************************************************************************)
(* The order of what one thread pushes.  A thread has at most one event    *)
(* other than traffic to send, behind the batch that goes with it, and     *)
(* every one it pushed before is out: it decides only when it has sent.    *)
(***************************************************************************)
IsSingle(f) == ~f.batch

OutPushed == \A p \in Pumps : \A i \in 1..Len(out[p]) : IsSingle(out[p][i]) => out[p][i].seq \in DOMAIN pusher

Sorted ==
  \A p \in Pumps : \A i, j \in 1..Len(out[p]) :
    (i < j /\ IsSingle(out[p][i]) /\ IsSingle(out[p][j]) /\ pusher[out[p][i].seq] = pusher[out[p][j].seq])
      => out[p][i].seq < out[p][j].seq

\* Event n of thread c is later than whatever c has sent.
Later(c, n) ==
  \A p \in Pumps : \A i \in 1..Len(out[p]) :
    IsSingle(out[p][i]) /\ pusher[out[p][i].seq] = c => out[p][i].seq < n

UnsentLater ==
  \A c \in Callers : \A i \in 1..Len(unsent[c]) :
    IsSingle(unsent[c][i].frame) =>
      /\ i = Len(unsent[c])
      /\ unsent[c][i].frame.seq \in DOMAIN pusher
      /\ pusher[unsent[c][i].frame.seq] = c
      /\ Later(c, unsent[c][i].frame.seq)

TimersBatch == \A x \in timerUnsent : ~IsSingle(x.frame)

Order == Inv /\ OutPushed /\ Sorted /\ UnsentLater /\ TimersBatch

LEMMA InitOrder == Init => Order
BY InitInv, EmptySeq DEF Init, PumpInit, Order, OutPushed, Sorted, UnsentLater, TimersBatch

\* What take_batch returns is a batch, and at most one.
LEMMA TakenIsBatch ==
  ASSUME Inv, NEW p \in Pumps
  PROVE  /\ TakenBatch(p) \in Seq(GoodSending) /\ Len(TakenBatch(p)) \in {0, 1}
         /\ \A i \in 1..Len(TakenBatch(p)) : ~IsSingle(TakenBatch(p)[i].frame)
<1>1. TakenBatch(p) \in Seq(GoodSending)
  BY TakenGood
<1>2. CASE pending[p] = <<>>
  BY <1>1, <1>2, EmptySeq DEF TakenBatch
<1>3. CASE pending[p] # <<>>
  <2> DEFINE b == Batch(p, pendingSeq[p], pending[p])
  <2>1. TakenBatch(p) = <<b>> /\ b.frame.batch = TRUE
    BY <1>3 DEF TakenBatch, Batch
  <2> HIDE DEF b
  <2> QED  BY <1>1, <2>1 DEF IsSingle
<1> QED  BY <1>2, <1>3

\* A step that sends nothing and has c decide on batches only, and may count one more event as pushed.
LEMMA BatchesOrder ==
  ASSUME Order, Inv', NEW c \in Callers, NEW q, unsent' = [unsent EXCEPT ![c] = q] \/ unsent' = unsent,
         \A i \in 1..Len(q) : ~IsSingle(q[i].frame),
         out' = out, TimersBatch',
         \A n \in DOMAIN pusher : n \in DOMAIN pusher' /\ pusher'[n] = pusher[n]
  PROVE  Order'
<1>1. OutPushed' /\ Sorted'
  BY DEF Order, OutPushed, Sorted
<1>2. ASSUME NEW d \in Callers, NEW i \in 1..Len(unsent'[d]), IsSingle(unsent'[d][i].frame)
      PROVE  /\ i = Len(unsent'[d]) /\ unsent'[d][i].frame.seq \in DOMAIN pusher'
             /\ pusher'[unsent'[d][i].frame.seq] = d /\ Later(d, unsent[d][i].frame.seq)'
  <2>1. unsent'[d] = unsent[d]
    BY <1>2 DEF Inv, PumpTypes
  <2>2. /\ i = Len(unsent[d]) /\ unsent[d][i].frame.seq \in DOMAIN pusher
        /\ pusher[unsent[d][i].frame.seq] = d /\ Later(d, unsent[d][i].frame.seq)
    BY <1>2, <2>1 DEF Order, UnsentLater
  <2>3. Later(d, unsent[d][i].frame.seq)'
    BY <2>1, <2>2 DEF Order, Later, OutPushed
  <2> QED  BY <2>1, <2>2, <2>3
<1>3. UnsentLater'
  BY <1>2 DEF UnsentLater
<1> QED  BY <1>1, <1>3 DEF Order

LEMMA PushOrder ==
  ASSUME Order, NEW c \in Callers, NEW p \in Pumps, NEW n \in 1..MaxSeq, PushStep(c, p, n)
  PROVE  Order'
<1>1. Inv'
  BY PushInv DEF Order
<1>2. /\ n \notin DOMAIN pusher /\ n \in Nat
      /\ \A m \in DOMAIN pusher : pusher[m] = c => m < n
      /\ PushOther(c, p, n) \/ PushFull(c, p, n) \/ PushWaits(c, p, n)
      /\ pusher' = [m \in DOMAIN pusher \cup {n} |-> IF m = n THEN c ELSE pusher[m]]
  BY DEF PushStep, PushEntry
<1>3. /\ DOMAIN pusher' = DOMAIN pusher \cup {n} /\ pusher'[n] = c
      /\ \A m \in DOMAIN pusher : m \in DOMAIN pusher' /\ pusher'[m] = pusher[m]
  BY <1>2
<1>4. out' = out /\ timerUnsent' = timerUnsent /\ TimersBatch'
  BY <1>2 DEF PushOther, PushFull, PushWaits, Order, TimersBatch
<1>5. CASE PushFull(c, p, n)
  <2> DEFINE b == Batch(p, Greatest(pendingSeq[p], n), Append(pending[p], n))
             q == <<b>>
  <2>1. unsent' = [unsent EXCEPT ![c] = q]
    BY <1>5 DEF PushFull
  <2>2. b.frame.batch = TRUE
    BY DEF Batch
  <2> HIDE DEF b
  <2>3. \A i \in 1..Len(q) : ~IsSingle(q[i].frame)
    BY <2>2 DEF IsSingle
  <2> HIDE DEF q
  <2> QED  BY <1>1, <1>3, <1>4, <2>1, <2>3, BatchesOrder
<1>6. CASE PushWaits(c, p, n)
  <2>1. unsent' = unsent
    BY <1>6 DEF PushWaits
  <2>2. \A i \in 1..Len(<<>>) : FALSE
    BY EmptySeq
  <2> QED  BY <1>1, <1>3, <1>4, <2>1, <2>2, BatchesOrder
<1>7. CASE PushOther(c, p, n)
  <2> DEFINE t == TakenBatch(p)
             x == Single(p, n)
             q == Append(t, x)
  <2>1. unsent' = [unsent EXCEPT ![c] = q]
    BY <1>7 DEF PushOther
  <2>2. /\ t \in Seq(GoodSending) /\ Len(t) \in Nat
        /\ \A i \in 1..Len(t) : ~IsSingle(t[i].frame)
    BY TakenIsBatch, LenProperties DEF Order
  <2>3. x \in GoodSending
    BY <1>2, SingleGood DEF Number
  <2>4. x.frame.seq = n
    BY DEF Single
  <2> HIDE DEF t, x
  <2>5. /\ Len(q) = Len(t) + 1 /\ q[Len(t) + 1] = x
        /\ \A i \in 1..Len(t) : q[i] = t[i]
    BY <2>2, <2>3, AppendProperties
  <2> HIDE DEF q
  <2>6. OutPushed' /\ Sorted'
    BY <1>3, <1>4 DEF Order, OutPushed, Sorted
  <2>7. Later(c, n)'
    BY <1>2, <1>3, <1>4 DEF Order, Later, OutPushed
  <2>8. ASSUME NEW d \in Callers, NEW i \in 1..Len(unsent'[d]), IsSingle(unsent'[d][i].frame)
        PROVE  /\ i = Len(unsent'[d]) /\ unsent'[d][i].frame.seq \in DOMAIN pusher'
               /\ pusher'[unsent'[d][i].frame.seq] = d /\ Later(d, unsent[d][i].frame.seq)'
    <3>1. CASE d = c
      <4>1. unsent'[d] = q
        BY <2>1, <3>1 DEF Order, Inv, PumpTypes
      <4>2. i = Len(t) + 1
        BY <2>2, <2>5, <2>8, <4>1
      <4> QED  BY <1>3, <2>4, <2>5, <2>7, <3>1, <4>1, <4>2
    <3>2. CASE d # c
      <4>1. unsent'[d] = unsent[d]
        BY <2>1, <3>2 DEF Order, Inv, PumpTypes
      <4>2. /\ i = Len(unsent[d]) /\ unsent[d][i].frame.seq \in DOMAIN pusher
            /\ pusher[unsent[d][i].frame.seq] = d /\ Later(d, unsent[d][i].frame.seq)
        BY <2>8, <4>1 DEF Order, UnsentLater
      <4>3. Later(d, unsent[d][i].frame.seq)'
        BY <1>3, <1>4, <4>1, <4>2 DEF Order, Later, OutPushed
      <4> QED  BY <1>3, <4>1, <4>2, <4>3
    <3> QED  BY <3>1, <3>2
  <2>9. UnsentLater'
    BY <2>8 DEF UnsentLater
  <2> QED  BY <1>1, <1>4, <2>6, <2>9 DEF Order
<1> QED  BY <1>2, <1>5, <1>6, <1>7

\* The channel of a pump after one more frame.
LEMMA Sent ==
  ASSUME Inv, NEW x, x.pump \in Pumps, x.frame \in GoodFrame,
         out' = [out EXCEPT ![x.pump] = Append(@, x.frame)]
  PROVE  /\ \A p \in Pumps : \A i \in 1..Len(out'[p]) :
              \/ i \in 1..Len(out[p]) /\ out'[p][i] = out[p][i]
              \/ p = x.pump /\ i = Len(out[p]) + 1 /\ i \notin 1..Len(out[p]) /\ out'[p][i] = x.frame
         /\ \A p \in Pumps : Len(out[p]) \in Nat
<1>1. x.pump \in Pumps /\ x.frame \in GoodFrame
  OBVIOUS
<1>2. ASSUME NEW p \in Pumps, NEW i \in 1..Len(out'[p])
      PROVE  \/ i \in 1..Len(out[p]) /\ out'[p][i] = out[p][i]
             \/ p = x.pump /\ i = Len(out[p]) + 1 /\ i \notin 1..Len(out[p]) /\ out'[p][i] = x.frame
  <2>1. out[p] \in Seq(GoodFrame) /\ Len(out[p]) \in Nat
    BY LenProperties DEF Inv, PumpTypes
  <2>2. CASE p = x.pump
    <3>1. out'[p] = Append(out[p], x.frame)
      BY <2>2 DEF Inv, PumpTypes
    <3>2. /\ Len(Append(out[p], x.frame)) = Len(out[p]) + 1
          /\ Append(out[p], x.frame)[Len(out[p]) + 1] = x.frame
          /\ \A j \in 1..Len(out[p]) : Append(out[p], x.frame)[j] = out[p][j]
      BY <1>1, <2>1, AppendProperties
    <3> QED  BY <1>2, <2>1, <2>2, <3>1, <3>2
  <2>3. CASE p # x.pump
    BY <2>3 DEF Inv, PumpTypes
  <2> QED  BY <2>2, <2>3
<1>3. \A p \in Pumps : Len(out[p]) \in Nat
  BY LenProperties DEF Inv, PumpTypes
<1> QED  BY <1>2, <1>3

LEMMA SendOrder ==
  ASSUME Order, NEW c \in Callers, Send(c) /\ Quiet
  PROVE  Order'
<1> DEFINE x == Head(unsent[c])
<1>1. /\ unsent[c] # <<>> /\ unsent[c] \in Seq(GoodSending)
      /\ out' = [out EXCEPT ![x.pump] = Append(@, x.frame)]
      /\ unsent' = [unsent EXCEPT ![c] = Tail(@)]
      /\ UNCHANGED <<timerUnsent, pusher>>
  BY DEF Send, Quiet, Order, Inv, PumpTypes
<1>2. /\ x \in GoodSending /\ x = unsent[c][1] /\ Len(unsent[c]) \in Nat /\ 1 \in 1..Len(unsent[c])
      /\ Len(Tail(unsent[c])) = Len(unsent[c]) - 1
      /\ \A i \in 1..Len(Tail(unsent[c])) : Tail(unsent[c])[i] = unsent[c][i + 1]
  <2>1. Len(unsent[c]) \in Nat /\ Len(unsent[c]) # 0
    BY <1>1, EmptySeq, LenProperties
  <2> QED  BY <1>1, <2>1, HeadTailProperties
<1> HIDE DEF x
<1>3. Inv'
  BY SendInv DEF Order
<1>4. /\ \A p \in Pumps : \A i \in 1..Len(out'[p]) :
           \/ i \in 1..Len(out[p]) /\ out'[p][i] = out[p][i]
           \/ p = x.pump /\ i = Len(out[p]) + 1 /\ i \notin 1..Len(out[p]) /\ out'[p][i] = x.frame
      /\ \A p \in Pumps : Len(out[p]) \in Nat
  BY <1>1, <1>2, Sent DEF Order, GoodSending
<1>5. IsSingle(x.frame) =>
        /\ Len(unsent[c]) = 1 /\ x.frame.seq \in DOMAIN pusher /\ pusher[x.frame.seq] = c
        /\ Later(c, x.frame.seq)
  BY <1>2 DEF Order, UnsentLater
<1>6. OutPushed'
  BY <1>1, <1>4, <1>5 DEF Order, OutPushed
<1>7. ASSUME NEW p \in Pumps, NEW i \in 1..Len(out'[p]), NEW j \in 1..Len(out'[p]), i < j,
             IsSingle(out'[p][i]), IsSingle(out'[p][j]), pusher'[out'[p][i].seq] = pusher'[out'[p][j].seq]
      PROVE  out'[p][i].seq < out'[p][j].seq
  <2>1. CASE j \in 1..Len(out[p]) /\ out'[p][j] = out[p][j]
    <3>1. i \in 1..Len(out[p]) /\ out'[p][i] = out[p][i]
      BY <1>4, <1>7, <2>1
    <3> QED  BY <1>1, <1>7, <2>1, <3>1 DEF Order, Sorted
  <2>2. CASE j = Len(out[p]) + 1 /\ out'[p][j] = x.frame
    <3>1. i \in 1..Len(out[p]) /\ out'[p][i] = out[p][i]
      BY <1>4, <1>7, <2>2
    <3> QED  BY <1>1, <1>5, <1>7, <2>2, <3>1 DEF Later
  <2> QED  BY <1>4, <2>1, <2>2
<1>8. Sorted'
  BY <1>1, <1>7 DEF Sorted
<1>9. ASSUME NEW d \in Callers, NEW i \in 1..Len(unsent'[d]), IsSingle(unsent'[d][i].frame)
      PROVE  /\ i = Len(unsent'[d]) /\ unsent'[d][i].frame.seq \in DOMAIN pusher'
             /\ pusher'[unsent'[d][i].frame.seq] = d /\ Later(d, unsent[d][i].frame.seq)'
  <2>1. CASE d = c
    <3>1. unsent'[d] = Tail(unsent[c]) /\ i + 1 \in 1..Len(unsent[c]) /\ i + 1 # 1
          /\ unsent'[d][i] = unsent[c][i + 1] /\ Len(unsent'[d]) = Len(unsent[c]) - 1
      BY <1>1, <1>2, <1>9, <2>1 DEF Order, Inv, PumpTypes
    <3>2. /\ i + 1 = Len(unsent[c]) /\ unsent[c][i + 1].frame.seq \in DOMAIN pusher
          /\ pusher[unsent[c][i + 1].frame.seq] = c /\ Later(c, unsent[c][i + 1].frame.seq)
      BY <1>9, <3>1 DEF Order, UnsentLater
    <3>3. ~IsSingle(x.frame)
      BY <1>2, <1>5, <3>1
    <3>4. \A p \in Pumps : \A k \in 1..Len(out'[p]) :
            IsSingle(out'[p][k]) => k \in 1..Len(out[p]) /\ out'[p][k] = out[p][k]
      BY <1>4, <3>3
    <3>5. Later(d, unsent[d][i].frame.seq)'
      BY <1>1, <2>1, <3>1, <3>2, <3>4 DEF Later
    <3> QED  BY <1>1, <1>2, <2>1, <3>1, <3>2, <3>5
  <2>2. CASE d # c
    <3>1. unsent'[d] = unsent[d]
      BY <1>1, <2>2 DEF Order, Inv, PumpTypes
    <3>2. /\ i = Len(unsent[d]) /\ unsent[d][i].frame.seq \in DOMAIN pusher
          /\ pusher[unsent[d][i].frame.seq] = d /\ Later(d, unsent[d][i].frame.seq)
      BY <1>9, <3>1 DEF Order, UnsentLater
    <3>3. Later(d, unsent[d][i].frame.seq)'
      BY <1>1, <1>4, <1>5, <2>2, <3>1, <3>2 DEF Later
    <3> QED  BY <1>1, <3>1, <3>2, <3>3
  <2> QED  BY <2>1, <2>2
<1>10. UnsentLater'
  BY <1>9 DEF UnsentLater
<1>11. TimersBatch'
  BY <1>1 DEF Order, TimersBatch
<1> QED  BY <1>3, <1>6, <1>8, <1>10, <1>11 DEF Order

LEMMA TimerSendOrder ==
  ASSUME Order, NEW x \in timerUnsent, TimerSends(x) /\ Quiet
  PROVE  Order'
<1>1. /\ timerUnsent' = timerUnsent \ {x} /\ UNCHANGED <<unsent, pusher>>
      /\ out' = [out EXCEPT ![x.pump] = Append(@, x.frame)]
      /\ x.pump \in Pumps /\ x.frame \in GoodFrame /\ ~IsSingle(x.frame)
  BY DEF TimerSends, Quiet, Order, Inv, PumpTypes, TimersBatch, GoodHolding
<1>2. Inv'
  BY TimerSendInv DEF Order
<1>3. \A p \in Pumps : \A i \in 1..Len(out'[p]) :
        IsSingle(out'[p][i]) => i \in 1..Len(out[p]) /\ out'[p][i] = out[p][i]
  BY <1>1, Sent DEF Order
<1>4. OutPushed' /\ Sorted'
  <2>1. OutPushed'
    BY <1>1, <1>3 DEF Order, OutPushed
  <2>2. Sorted'
    BY <1>1, <1>3 DEF Order, Sorted
  <2> QED  BY <2>1, <2>2
<1>5. ASSUME NEW c \in Callers, NEW n, Later(c, n) PROVE Later(c, n)'
  BY <1>1, <1>3, <1>5 DEF Later
<1>6. UnsentLater'
  BY <1>1, <1>5 DEF Order, UnsentLater
<1> QED  BY <1>1, <1>2, <1>4, <1>6 DEF Order, TimersBatch

LEMMA TimerOrder ==
  ASSUME Order, NEW x \in timers, (TimerTakes(x) \/ TimerStale(x)) /\ Quiet
  PROVE  Order'
<1>1. Inv' /\ UNCHANGED <<unsent, out, pusher>> /\ x.pump \in Pumps
  BY TimerInv DEF TimerTakes, TimerStale, Quiet, Order, Inv, PumpTypes, Timer
<1>2. TimersBatch'
  <2>1. CASE TimerTakes(x)
    <3> DEFINE t == TakenBatch(x.pump)
    <3>1. timerUnsent' = timerUnsent \cup
            {[pump |-> x.pump, generation |-> x.generation, frame |-> t[i].frame] : i \in 1..Len(t)}
      BY <2>1 DEF TimerTakes
    <3>2. \A i \in 1..Len(t) : ~IsSingle(t[i].frame)
      BY <1>1, TakenIsBatch DEF Order
    <3> HIDE DEF t
    <3> QED  BY <3>1, <3>2 DEF Order, TimersBatch
  <2>2. CASE TimerStale(x)
    BY <2>2 DEF TimerStale, Order, TimersBatch
  <2> QED  BY <2>1, <2>2
<1>3. OutPushed' /\ Sorted'
  BY <1>1 DEF Order, OutPushed, Sorted
<1>4. UnsentLater'
  BY <1>1 DEF Order, UnsentLater, Later
<1> QED  BY <1>1, <1>2, <1>3, <1>4 DEF Order

LEMMA CloseOrder ==
  ASSUME Order, NEW c \in Callers, NEW p \in Pumps, ClosePump(c, p) /\ Quiet
  PROVE  Order'
<1>1. /\ unsent' = [unsent EXCEPT ![c] = TakenBatch(p)] /\ UNCHANGED <<timerUnsent, out, pusher>>
      /\ Inv'
  BY CloseInv DEF ClosePump, Quiet, Order
<1>2. \A i \in 1..Len(TakenBatch(p)) : ~IsSingle(TakenBatch(p)[i].frame)
  BY TakenIsBatch DEF Order
<1>3. TimersBatch'
  BY <1>1 DEF Order, TimersBatch
<1> QED  BY <1>1, <1>2, <1>3, BatchesOrder

LEMMA NextOrder == Order /\ [Next]_vars => Order'
<1> SUFFICES ASSUME Order, [Next]_vars PROVE Order'
  OBVIOUS
<1>1. CASE \E c \in Callers, p \in Pumps, n \in 1..MaxSeq : PushStep(c, p, n)
  BY <1>1, PushOrder
<1>2. CASE \E c \in Callers, p \in Pumps : ClosePump(c, p) /\ Quiet
  BY <1>2, CloseOrder
<1>3. CASE \E c \in Callers : Send(c) /\ Quiet
  BY <1>3, SendOrder
<1>4. CASE \E x \in timers : (TimerTakes(x) \/ TimerStale(x)) /\ Quiet
  BY <1>4, TimerOrder
<1>5. CASE \E x \in timerUnsent : TimerSends(x) /\ Quiet
  BY <1>5, TimerSendOrder
<1>6. CASE UNCHANGED vars
  <2>1. Inv' /\ UNCHANGED <<unsent, timerUnsent, out, pusher>>
    BY <1>6, NextInv DEF vars, pumpVars, Order
  <2> QED  BY <2>1 DEF Order, OutPushed, Sorted, UnsentLater, Later, TimersBatch
<1>7. ASSUME \E c \in Callers, p \in Pumps : PushRefused(c, p) /\ Quiet
      PROVE  UNCHANGED vars
  BY <1>7 DEF PushRefused, Quiet, vars
<1> QED  BY <1>1, <1>2, <1>3, <1>4, <1>5, <1>6, <1>7 DEF Next

\* The events other than traffic that one thread pushes leave in the order it pushed them, though the thread
\* sends after it has let go of the pump's mutex (push).
THEOREM OrderCorrect == Spec => []CallerOrder
<1>1. Order => CallerOrder
  <2> SUFFICES ASSUME Order PROVE CallerOrder
    OBVIOUS
  <2>1. \A p \in Pumps : DOMAIN out[p] = 1..Len(out[p])
    BY LenProperties DEF Order, Inv, PumpTypes
  <2> QED  BY <2>1 DEF Order, Sorted, IsSingle, CallerOrder
<1> QED  BY <1>1, InitOrder, NextOrder, PTL DEF Spec

-----------------------------------------------------------------------------
(***************************************************************************)
(* An event accepted by a pump is in exactly one place.                    *)
(*                                                                         *)
(* Every step moves each copy of an event to one new place: the copies     *)
(* after the step are the image of those before, so that what is one copy  *)
(* stays one, and what is none stays none.  Only a push adds a copy, of an *)
(* event that had none.                                                    *)
(***************************************************************************)
InBatch(x, n, p) == \E j \in 1..Len(pending[p]) : x = <<"pending", j>> /\ pending[p][j] = n

InCaller(x, n, p) ==
  \E c \in Callers : \E i \in 1..Len(unsent[c]) : \E j \in 1..Len(unsent[c][i].frame.entries) :
    /\ x = <<"caller", c, i, j>>
    /\ unsent[c][i].pump = p /\ unsent[c][i].frame.entries[j] = n

InTimer(x, n, p) ==
  \E t \in timerUnsent : \E j \in 1..Len(t.frame.entries) :
    x = <<"timer", t, j>> /\ t.pump = p /\ t.frame.entries[j] = n

InOut(x, n, p) ==
  \E i \in 1..Len(out[p]) : \E j \in 1..Len(out[p][i].entries) :
    x = <<"out", i, j>> /\ out[p][i].entries[j] = n

IsCopy(x, n, p) == InBatch(x, n, p) \/ InCaller(x, n, p) \/ InTimer(x, n, p) \/ InOut(x, n, p)

\* An event without a copy, and one with exactly one.
NoCopy(n, p)  == Copies(n, p) = {}
OneCopy(n, p) == \E x : Copies(n, p) = {x}

One ==
  \A p \in Pumps :
    /\ accepted[p] \subseteq DOMAIN pusher
    /\ \A n \in Number : IF n \in accepted[p] THEN OneCopy(n, p) ELSE NoCopy(n, p)

Whole == Inv /\ One

---------------------------------------------------------------------------
(* What a copy is. *)

LEMMA Lengths ==
  ASSUME Inv
  PROVE  /\ \A p \in Pumps : pending[p] \in Seq(Number) /\ Len(pending[p]) \in Nat
                             /\ DOMAIN pending[p] = 1..Len(pending[p])
         /\ \A c \in Callers : /\ DOMAIN unsent[c] = 1..Len(unsent[c]) /\ Len(unsent[c]) \in Nat
                               /\ \A i \in 1..Len(unsent[c]) : unsent[c][i] \in GoodSending
         /\ \A p \in Pumps : /\ DOMAIN out[p] = 1..Len(out[p]) /\ Len(out[p]) \in Nat
                             /\ \A i \in 1..Len(out[p]) : out[p][i] \in GoodFrame
         /\ \A f \in GoodFrame : DOMAIN f.entries = 1..Len(f.entries) /\ Len(f.entries) \in Nat
         /\ \A x \in GoodSending \cup GoodHolding : x.frame \in GoodFrame /\ x.pump \in Pumps
<1>1. \A p \in Pumps : pending[p] \in Seq(Number) /\ Len(pending[p]) \in Nat
                       /\ DOMAIN pending[p] = 1..Len(pending[p])
  BY LenProperties DEF Inv, PumpTypes
<1>2. \A c \in Callers : /\ DOMAIN unsent[c] = 1..Len(unsent[c]) /\ Len(unsent[c]) \in Nat
                         /\ \A i \in 1..Len(unsent[c]) : unsent[c][i] \in GoodSending
  BY LenProperties, ElementOfSeq DEF Inv, PumpTypes
<1>3. \A p \in Pumps : /\ DOMAIN out[p] = 1..Len(out[p]) /\ Len(out[p]) \in Nat
                       /\ \A i \in 1..Len(out[p]) : out[p][i] \in GoodFrame
  BY LenProperties, ElementOfSeq DEF Inv, PumpTypes
<1>4. \A f \in GoodFrame : DOMAIN f.entries = 1..Len(f.entries) /\ Len(f.entries) \in Nat
  BY LenProperties DEF GoodFrame, Frame
<1>5. \A x \in GoodSending \cup GoodHolding : x.frame \in GoodFrame /\ x.pump \in Pumps
  BY DEF GoodSending, GoodHolding
<1> QED  BY <1>1, <1>2, <1>3, <1>4, <1>5

CopiesMatch == \A n : \A p \in Pumps : \A x : x \in Copies(n, p) <=> IsCopy(x, n, p)

LEMMA CopiesAre == Inv => CopiesMatch
<1> SUFFICES ASSUME Inv, NEW n, NEW p \in Pumps
             PROVE  \A x : x \in Copies(n, p) <=> IsCopy(x, n, p)
  BY DEF CopiesMatch
<1>1. ASSUME NEW x PROVE x \in CopiesWaiting(n, p) <=> InBatch(x, n, p)
  BY Lengths DEF InBatch, CopiesWaiting
<1>2. ASSUME NEW x, NEW c \in Callers
      PROVE  x \in CopiesOfCaller(c, n, p) <=>
               \E i \in 1..Len(unsent[c]) : \E j \in 1..Len(unsent[c][i].frame.entries) :
                 /\ x = <<"caller", c, i, j>>
                 /\ unsent[c][i].pump = p /\ unsent[c][i].frame.entries[j] = n
  <2>1. DOMAIN unsent[c] = 1..Len(unsent[c])
    BY Lengths
  <2>2. \A i \in DOMAIN unsent[c] : DOMAIN unsent[c][i].frame.entries = 1..Len(unsent[c][i].frame.entries)
    BY Lengths
  <2> QED  BY <2>1, <2>2 DEF CopiesOfCaller, PlacesIn
<1>3. ASSUME NEW x PROVE (\E c \in Callers : x \in CopiesOfCaller(c, n, p)) <=> InCaller(x, n, p)
  BY <1>2 DEF InCaller
<1>4. ASSUME NEW x PROVE x \in CopiesOfTimers(n, p) <=> InTimer(x, n, p)
  <2>1. \A t \in timerUnsent : DOMAIN t.frame.entries = 1..Len(t.frame.entries)
    BY Lengths DEF Inv, PumpTypes
  <2> QED  BY <2>1 DEF InTimer, PlacesIn, CopiesOfTimers
<1>5. ASSUME NEW x PROVE x \in CopiesSent(n, p) <=> InOut(x, n, p)
  <2>1. \A i \in DOMAIN out[p] : DOMAIN out[p][i].entries = 1..Len(out[p][i].entries)
    BY Lengths
  <2>2. DOMAIN out[p] = 1..Len(out[p])
    BY Lengths
  <2> QED  BY <2>1, <2>2 DEF InOut, PlacesIn, CopiesSent
<1>6. ASSUME NEW x
      PROVE  x \in Copies(n, p) <=>
               \/ x \in CopiesWaiting(n, p) \/ x \in CopiesOfTimers(n, p) \/ x \in CopiesSent(n, p)
               \/ \E c \in Callers : x \in CopiesOfCaller(c, n, p)
  BY DEF Copies
<1> QED  BY <1>1, <1>3, <1>4, <1>5, <1>6 DEF IsCopy

\* When the copies after a step are where g takes those before, their number is the same.
LEMMA Moved ==
  ASSUME Inv, Inv', NEW n, NEW p \in Pumps, NEW g,
         \A x, y : IsCopy(x, n, p) /\ y = g[x] => IsCopy(y, n, p)',
         \A y : IsCopy(y, n, p)' => \E x : IsCopy(x, n, p) /\ y = g[x]
  PROVE  (OneCopy(n, p) => OneCopy(n, p)') /\ (NoCopy(n, p) => NoCopy(n, p)')
<1>1. \A x : x \in Copies(n, p) <=> IsCopy(x, n, p)
  BY CopiesAre DEF CopiesMatch
<1>2. \A x : x \in Copies(n, p)' <=> IsCopy(x, n, p)'
  <2>1. CopiesMatch'
    BY CopiesAre, PTL
  <2> QED  BY <2>1 DEF CopiesMatch
<1>3. ASSUME NEW x, Copies(n, p) = {x} PROVE Copies(n, p)' = {g[x]}
  BY <1>1, <1>2, <1>3
<1>4. ASSUME Copies(n, p) = {} PROVE Copies(n, p)' = {}
  BY <1>1, <1>2, <1>4
<1> QED  BY <1>3, <1>4 DEF OneCopy, NoCopy

---------------------------------------------------------------------------
(* Where the steps take a copy. *)

\* A caller takes the batch: what waits is in the first thing it has to send.
ToCaller(c, x) == IF x[1] = "pending" THEN <<"caller", c, 1, x[2]>> ELSE x

\* What a thread decides to send to pump r holds event n where the batch of pump p does, and nowhere else.
Carries(q, n, p, r) ==
  \A i \in 1..Len(q) : \A j \in 1..Len(q[i].frame.entries) :
    (q[i].pump = r /\ q[i].frame.entries[j] = n)
      => i = 1 /\ r = p /\ j \in 1..Len(pending[p]) /\ pending[p][j] = n

CarriesAll(q, n, p) ==
  \A j \in 1..Len(pending[p]) : pending[p][j] = n =>
    1 \in 1..Len(q) /\ q[1].pump = p /\ j \in 1..Len(q[1].frame.entries) /\ q[1].frame.entries[j] = n

LEMMA CallerTakes ==
  ASSUME Inv, Inv', NEW c \in Callers, NEW p \in Pumps, NEW q, NEW n, NEW r \in Pumps,
         unsent[c] = <<>>, unsent' = [unsent EXCEPT ![c] = q],
         pending' = [pending EXCEPT ![p] = <<>>], UNCHANGED <<timerUnsent, out>>,
         Carries(q, n, p, r), CarriesAll(q, n, p)
  PROVE  (OneCopy(n, r) => OneCopy(n, r)') /\ (NoCopy(n, r) => NoCopy(n, r)')
<1> DEFINE g == [x \in Copies(n, r) |-> IF r = p THEN ToCaller(c, x) ELSE x]
<1>1. ASSUME NEW x, IsCopy(x, n, r) PROVE x \in Copies(n, r)
  BY <1>1, CopiesAre DEF CopiesMatch
<1>2. /\ unsent'[c] = q /\ \A d \in Callers \ {c} : unsent'[d] = unsent[d]
      /\ pending'[p] = <<>> /\ \A s \in Pumps \ {p} : pending'[s] = pending[s]
      /\ Len(<<>>) = 0 /\ Len(unsent[c]) = 0
  BY EmptySeq DEF Inv, PumpTypes
<1>3. ASSUME NEW x, NEW y, InBatch(x, n, r), y = g[x] PROVE IsCopy(y, n, r)'
  <2>1. PICK j \in 1..Len(pending[r]) : x = <<"pending", j>> /\ pending[r][j] = n
    BY <1>3 DEF InBatch
  <2>2. x \in Copies(n, r)
    BY <1>1, <1>3 DEF IsCopy
  <2>3. CASE r # p
    <3>1. y = x /\ pending'[r] = pending[r]
      BY <1>2, <1>3, <2>2, <2>3
    <3> QED  BY <2>1, <3>1 DEF IsCopy, InBatch
  <2>4. CASE r = p
    <3>1. x[1] = "pending" /\ x[2] = j
      BY <2>1
    <3>2. y = <<"caller", c, 1, j>>
      BY <1>3, <2>2, <2>4, <3>1 DEF ToCaller
    <3>3. /\ 1 \in 1..Len(unsent'[c]) /\ unsent'[c][1].pump = p
          /\ j \in 1..Len(unsent'[c][1].frame.entries) /\ unsent'[c][1].frame.entries[j] = n
      BY <1>2, <2>1, <2>4 DEF CarriesAll
    <3>4. InCaller(y, n, r)'
      BY <2>4, <3>2, <3>3 DEF InCaller
    <3> QED  BY <3>4 DEF IsCopy
  <2> QED  BY <2>3, <2>4
<1>4. ASSUME NEW x, NEW y, InCaller(x, n, r), y = g[x] PROVE IsCopy(y, n, r)'
  <2>1. PICK d, i, j :
          /\ d \in Callers /\ i \in 1..Len(unsent[d]) /\ j \in 1..Len(unsent[d][i].frame.entries)
          /\ x = <<"caller", d, i, j>> /\ unsent[d][i].pump = r /\ unsent[d][i].frame.entries[j] = n
    BY <1>4 DEF InCaller
  <2>2. x \in Copies(n, r) /\ x[1] = "caller"
    BY <1>1, <1>4, <2>1 DEF IsCopy
  <2>3. y = x
    BY <1>4, <2>2 DEF ToCaller
  <2>4. d # c /\ unsent'[d] = unsent[d]
    BY <1>2, <2>1
  <2> QED  BY <2>1, <2>3, <2>4 DEF IsCopy, InCaller
<1>5. ASSUME NEW x, NEW y, InTimer(x, n, r) \/ InOut(x, n, r), y = g[x] PROVE IsCopy(y, n, r)'
  <2>1. x \in Copies(n, r)
    BY <1>1, <1>5 DEF IsCopy
  <2>2. x[1] # "pending"
    BY <1>5 DEF InTimer, InOut
  <2>3. y = x
    BY <1>5, <2>1, <2>2 DEF ToCaller
  <2> QED  BY <1>5, <2>3 DEF IsCopy, InTimer, InOut
<1>6. ASSUME NEW y, IsCopy(y, n, r)' PROVE \E x : IsCopy(x, n, r) /\ y = g[x]
  <2>1. CASE InBatch(y, n, r)'
    <3>1. PICK j \in 1..Len(pending'[r]) : y = <<"pending", j>> /\ pending'[r][j] = n
      BY <2>1 DEF InBatch
    <3>2. r # p /\ pending'[r] = pending[r]
      BY <1>2, <3>1
    <3>3. IsCopy(y, n, r)
      BY <3>1, <3>2 DEF IsCopy, InBatch
    <3>4. g[y] = y
      BY <1>1, <3>2, <3>3
    <3> QED  BY <3>3, <3>4
  <2>2. CASE InCaller(y, n, r)'
    <3>1. PICK d, i, j :
            /\ d \in Callers /\ i \in 1..Len(unsent'[d]) /\ j \in 1..Len(unsent'[d][i].frame.entries)
            /\ y = <<"caller", d, i, j>> /\ unsent'[d][i].pump = r /\ unsent'[d][i].frame.entries[j] = n
      BY <2>2 DEF InCaller
    <3>2. CASE d = c
      <4>1. i = 1 /\ r = p /\ j \in 1..Len(pending[p]) /\ pending[p][j] = n
        BY <1>2, <3>1, <3>2 DEF Carries
      <4> DEFINE x == <<"pending", j>>
      <4>2. IsCopy(x, n, r)
        BY <4>1 DEF IsCopy, InBatch
      <4>3. x[1] = "pending" /\ x[2] = j
        OBVIOUS
      <4>4. x \in Copies(n, r)
        BY <1>1, <4>2
      <4> HIDE DEF x
      <4>5. g[x] = <<"caller", c, 1, j>>
        BY <4>1, <4>3, <4>4 DEF ToCaller
      <4> QED  BY <3>1, <3>2, <4>1, <4>2, <4>5
    <3>3. CASE d # c
      <4>1. unsent'[d] = unsent[d]
        BY <1>2, <3>3
      <4>2. IsCopy(y, n, r)
        BY <3>1, <4>1 DEF IsCopy, InCaller
      <4>3. y[1] = "caller"
        BY <3>1
      <4>4. g[y] = y
        BY <1>1, <4>2, <4>3 DEF ToCaller
      <4> QED  BY <4>2, <4>4
    <3> QED  BY <3>2, <3>3
  <2>3. CASE InTimer(y, n, r)' \/ InOut(y, n, r)'
    <3>1. InTimer(y, n, r) \/ InOut(y, n, r)
      BY <2>3 DEF InTimer, InOut
    <3>2. y[1] # "pending"
      BY <3>1 DEF InTimer, InOut
    <3>3. IsCopy(y, n, r)
      BY <3>1 DEF IsCopy
    <3>4. g[y] = y
      BY <1>1, <3>2, <3>3 DEF ToCaller
    <3> QED  BY <3>3, <3>4
  <2> QED  BY <1>6, <2>1, <2>2, <2>3 DEF IsCopy
<1> HIDE DEF g
<1>7. \A x, y : IsCopy(x, n, r) /\ y = g[x] => IsCopy(y, n, r)'
  BY <1>3, <1>4, <1>5 DEF IsCopy
<1> QED  BY <1>6, <1>7, Moved

\* A timer takes the batch.
LEMMA TimerCarries ==
  ASSUME Inv, Inv', NEW p \in Pumps, NEW n, NEW r \in Pumps, NEW b,
         pending' = [pending EXCEPT ![p] = <<>>], UNCHANGED <<unsent, out>>,
         \/ pending[p] = <<>> /\ timerUnsent' = timerUnsent
         \/ timerUnsent' = timerUnsent \cup {b} /\ b.pump = p /\ b.frame.entries = pending[p]
  PROVE  (OneCopy(n, r) => OneCopy(n, r)') /\ (NoCopy(n, r) => NoCopy(n, r)')
<1> DEFINE g == [x \in Copies(n, r) |-> IF r = p /\ x[1] = "pending" THEN <<"timer", b, x[2]>> ELSE x]
<1>1. ASSUME NEW x, IsCopy(x, n, r) PROVE x \in Copies(n, r)
  BY <1>1, CopiesAre DEF CopiesMatch
<1>2. /\ pending'[p] = <<>> /\ \A s \in Pumps \ {p} : pending'[s] = pending[s]
      /\ Len(<<>>) = 0 /\ timerUnsent \subseteq timerUnsent'
  BY EmptySeq DEF Inv, PumpTypes
<1>3. ASSUME NEW x, NEW y, InBatch(x, n, r), y = g[x] PROVE IsCopy(y, n, r)'
  <2>1. PICK j \in 1..Len(pending[r]) : x = <<"pending", j>> /\ pending[r][j] = n
    BY <1>3 DEF InBatch
  <2>2. x \in Copies(n, r) /\ x[1] = "pending" /\ x[2] = j
    BY <1>1, <1>3, <2>1 DEF IsCopy
  <2>3. CASE r # p
    <3>1. y = x /\ pending'[r] = pending[r]
      BY <1>2, <1>3, <2>2, <2>3
    <3> QED  BY <2>1, <3>1 DEF IsCopy, InBatch
  <2>4. CASE r = p
    <3>1. y = <<"timer", b, j>>
      BY <1>3, <2>2, <2>4
    <3>2. b \in timerUnsent' /\ b.pump = r /\ j \in 1..Len(b.frame.entries) /\ b.frame.entries[j] = n
      BY <1>2, <2>1, <2>4
    <3>3. InTimer(y, n, r)'
      BY <3>1, <3>2 DEF InTimer
    <3> QED  BY <3>3 DEF IsCopy
  <2> QED  BY <2>3, <2>4
<1>4. ASSUME NEW x, NEW y, InCaller(x, n, r) \/ InTimer(x, n, r) \/ InOut(x, n, r), y = g[x]
      PROVE  IsCopy(y, n, r)'
  <2>1. x \in Copies(n, r)
    BY <1>1, <1>4 DEF IsCopy
  <2>2. x[1] # "pending"
    BY <1>4 DEF InCaller, InTimer, InOut
  <2>3. y = x
    BY <1>4, <2>1, <2>2
  <2>4. InTimer(x, n, r) => InTimer(y, n, r)'
    BY <1>2, <2>3 DEF InTimer
  <2>5. (InCaller(x, n, r) => InCaller(y, n, r)') /\ (InOut(x, n, r) => InOut(y, n, r)')
    BY <2>3 DEF InCaller, InOut
  <2> QED  BY <1>4, <2>4, <2>5 DEF IsCopy
<1>5. ASSUME NEW y, IsCopy(y, n, r)' PROVE \E x : IsCopy(x, n, r) /\ y = g[x]
  <2>1. CASE InBatch(y, n, r)'
    <3>1. PICK j \in 1..Len(pending'[r]) : y = <<"pending", j>> /\ pending'[r][j] = n
      BY <2>1 DEF InBatch
    <3>2. r # p /\ pending'[r] = pending[r]
      BY <1>2, <3>1
    <3>3. IsCopy(y, n, r)
      BY <3>1, <3>2 DEF IsCopy, InBatch
    <3>4. g[y] = y
      BY <1>1, <3>2, <3>3
    <3> QED  BY <3>3, <3>4
  <2>2. CASE InTimer(y, n, r)'
    <3>1. PICK t, j : /\ t \in timerUnsent' /\ j \in 1..Len(t.frame.entries)
                      /\ y = <<"timer", t, j>> /\ t.pump = r /\ t.frame.entries[j] = n
      BY <2>2 DEF InTimer
    <3>2. CASE t \in timerUnsent
      <4>1. IsCopy(y, n, r)
        BY <3>1, <3>2 DEF IsCopy, InTimer
      <4>2. y[1] = "timer"
        BY <3>1
      <4>3. g[y] = y
        BY <1>1, <4>1, <4>2
      <4> QED  BY <4>1, <4>3
    <3>3. CASE t \notin timerUnsent
      <4>1. t = b /\ r = p /\ j \in 1..Len(pending[p]) /\ pending[p][j] = n
        BY <3>1, <3>3
      <4> DEFINE x == <<"pending", j>>
      <4>2. IsCopy(x, n, r)
        BY <4>1 DEF IsCopy, InBatch
      <4>3. x[1] = "pending" /\ x[2] = j
        OBVIOUS
      <4>4. x \in Copies(n, r)
        BY <1>1, <4>2
      <4> HIDE DEF x
      <4>5. g[x] = <<"timer", b, j>>
        BY <4>1, <4>3, <4>4
      <4> QED  BY <3>1, <4>1, <4>2, <4>5
    <3> QED  BY <3>2, <3>3
  <2>3. CASE InCaller(y, n, r)' \/ InOut(y, n, r)'
    <3>1. InCaller(y, n, r) \/ InOut(y, n, r)
      BY <2>3 DEF InCaller, InOut
    <3>2. y[1] # "pending"
      BY <3>1 DEF InCaller, InOut
    <3>3. IsCopy(y, n, r)
      BY <3>1 DEF IsCopy
    <3>4. g[y] = y
      BY <1>1, <3>2, <3>3
    <3> QED  BY <3>3, <3>4
  <2> QED  BY <1>5, <2>1, <2>2, <2>3 DEF IsCopy
<1> HIDE DEF g
<1>6. \A x, y : IsCopy(x, n, r) /\ y = g[x] => IsCopy(y, n, r)'
  BY <1>3, <1>4 DEF IsCopy
<1> QED  BY <1>5, <1>6, Moved

\* The frames of a channel after x was sent.
LEMMA Appended ==
  ASSUME Inv, NEW x, x.pump \in Pumps, x.frame \in GoodFrame,
         out' = [out EXCEPT ![x.pump] = Append(@, x.frame)]
  PROVE  \A r \in Pumps :
           /\ Len(out[r]) \in Nat
           /\ \A i \in 1..Len(out[r]) : i \in 1..Len(out'[r]) /\ out'[r][i] = out[r][i]
           /\ r = x.pump => Len(out[r]) + 1 \in 1..Len(out'[r]) /\ out'[r][Len(out[r]) + 1] = x.frame
           /\ \A i \in 1..Len(out'[r]) : i \in 1..Len(out[r]) \/ (r = x.pump /\ i = Len(out[r]) + 1)
<1> SUFFICES ASSUME NEW r \in Pumps
             PROVE  /\ Len(out[r]) \in Nat
                    /\ \A i \in 1..Len(out[r]) : i \in 1..Len(out'[r]) /\ out'[r][i] = out[r][i]
                    /\ r = x.pump => Len(out[r]) + 1 \in 1..Len(out'[r]) /\ out'[r][Len(out[r]) + 1] = x.frame
                    /\ \A i \in 1..Len(out'[r]) : i \in 1..Len(out[r]) \/ (r = x.pump /\ i = Len(out[r]) + 1)
  OBVIOUS
<1>2. out[r] \in Seq(GoodFrame) /\ Len(out[r]) \in Nat
  BY LenProperties DEF Inv, PumpTypes
<1>3. CASE r = x.pump
  <2>1. out'[r] = Append(out[r], x.frame)
    BY <1>3 DEF Inv, PumpTypes
  <2>2. /\ Len(out'[r]) = Len(out[r]) + 1 /\ out'[r][Len(out[r]) + 1] = x.frame
        /\ \A j \in 1..Len(out[r]) : out'[r][j] = out[r][j]
    BY <1>2, <2>1, AppendProperties
  <2> QED  BY <1>2, <1>3, <2>2
<1>4. CASE r # x.pump
  BY <1>2, <1>4 DEF Inv, PumpTypes
<1> QED  BY <1>3, <1>4

\* What a timer took goes out.
LEMMA TimerDelivers ==
  ASSUME Inv, Inv', NEW b \in timerUnsent, NEW n, NEW r \in Pumps,
         timerUnsent' = timerUnsent \ {b}, out' = [out EXCEPT ![b.pump] = Append(@, b.frame)],
         UNCHANGED <<pending, unsent>>
  PROVE  (OneCopy(n, r) => OneCopy(n, r)') /\ (NoCopy(n, r) => NoCopy(n, r)')
<1> DEFINE last == Len(out[r]) + 1
           g == [x \in Copies(n, r) |-> IF x[1] = "timer" /\ x[2] = b THEN <<"out", last, x[3]>> ELSE x]
<1>1. ASSUME NEW x, IsCopy(x, n, r) PROVE x \in Copies(n, r)
  BY <1>1, CopiesAre DEF CopiesMatch
<1>2. b.pump \in Pumps /\ b.frame \in GoodFrame
  BY DEF Inv, PumpTypes, GoodHolding
<1>3. /\ Len(out[r]) \in Nat
      /\ \A i \in 1..Len(out[r]) : i \in 1..Len(out'[r]) /\ out'[r][i] = out[r][i]
      /\ r = b.pump => last \in 1..Len(out'[r]) /\ out'[r][last] = b.frame
      /\ \A i \in 1..Len(out'[r]) : i \in 1..Len(out[r]) \/ (r = b.pump /\ i = last)
  BY <1>2, Appended
<1> HIDE DEF last
<1>4. ASSUME NEW x, NEW y, InTimer(x, n, r), y = g[x] PROVE IsCopy(y, n, r)'
  <2>1. PICK t, j : /\ t \in timerUnsent /\ j \in 1..Len(t.frame.entries)
                    /\ x = <<"timer", t, j>> /\ t.pump = r /\ t.frame.entries[j] = n
    BY <1>4 DEF InTimer
  <2>2. x \in Copies(n, r) /\ x[1] = "timer" /\ x[2] = t /\ x[3] = j
    BY <1>1, <1>4, <2>1 DEF IsCopy
  <2>3. CASE t = b
    <3>1. y = <<"out", last, j>>
      BY <1>4, <2>2, <2>3
    <3>2. InOut(y, n, r)'
      BY <1>3, <2>1, <2>3, <3>1 DEF InOut
    <3> QED  BY <3>2 DEF IsCopy
  <2>4. CASE t # b
    <3>1. y = x
      BY <1>4, <2>2, <2>4
    <3>2. InTimer(y, n, r)'
      BY <2>1, <2>4, <3>1 DEF InTimer
    <3> QED  BY <3>2 DEF IsCopy
  <2> QED  BY <2>3, <2>4
<1>5. ASSUME NEW x, NEW y, InBatch(x, n, r) \/ InCaller(x, n, r) \/ InOut(x, n, r), y = g[x]
      PROVE  IsCopy(y, n, r)'
  <2>1. x \in Copies(n, r)
    BY <1>1, <1>5 DEF IsCopy
  <2>2. x[1] # "timer"
    BY <1>5 DEF InBatch, InCaller, InOut
  <2>3. y = x
    BY <1>5, <2>1, <2>2
  <2>4. InOut(x, n, r) => InOut(y, n, r)'
    BY <1>3, <2>3 DEF InOut
  <2>5. (InBatch(x, n, r) => InBatch(y, n, r)') /\ (InCaller(x, n, r) => InCaller(y, n, r)')
    BY <2>3 DEF InBatch, InCaller
  <2> QED  BY <1>5, <2>4, <2>5 DEF IsCopy
<1>6. ASSUME NEW y, IsCopy(y, n, r)' PROVE \E x : IsCopy(x, n, r) /\ y = g[x]
  <2>1. CASE InOut(y, n, r)'
    <3>1. PICK i, j : /\ i \in 1..Len(out'[r]) /\ j \in 1..Len(out'[r][i].entries)
                      /\ y = <<"out", i, j>> /\ out'[r][i].entries[j] = n
      BY <2>1 DEF InOut
    <3>2. CASE i \in 1..Len(out[r])
      <4>1. IsCopy(y, n, r)
        BY <1>3, <3>1, <3>2 DEF IsCopy, InOut
      <4>2. y[1] = "out"
        BY <3>1
      <4>3. g[y] = y
        BY <1>1, <4>1, <4>2
      <4> QED  BY <4>1, <4>3
    <3>3. CASE i \notin 1..Len(out[r])
      <4>1. i = last /\ r = b.pump /\ out'[r][i] = b.frame
        BY <1>3, <3>1, <3>3
      <4> DEFINE x == <<"timer", b, j>>
      <4>2. IsCopy(x, n, r)
        BY <3>1, <4>1 DEF IsCopy, InTimer
      <4>3. x[1] = "timer" /\ x[2] = b /\ x[3] = j
        OBVIOUS
      <4>4. x \in Copies(n, r)
        BY <1>1, <4>2
      <4> HIDE DEF x
      <4>5. g[x] = <<"out", last, j>>
        BY <4>3, <4>4
      <4> QED  BY <3>1, <4>1, <4>2, <4>5
    <3> QED  BY <3>2, <3>3
  <2>2. CASE InTimer(y, n, r)'
    <3>1. PICK t, j : /\ t \in timerUnsent /\ t # b /\ j \in 1..Len(t.frame.entries)
                      /\ y = <<"timer", t, j>> /\ t.pump = r /\ t.frame.entries[j] = n
      BY <2>2 DEF InTimer
    <3>2. IsCopy(y, n, r) /\ y[2] = t
      BY <3>1 DEF IsCopy, InTimer
    <3>3. g[y] = y
      BY <1>1, <3>1, <3>2
    <3> QED  BY <3>2, <3>3
  <2>3. CASE InBatch(y, n, r)' \/ InCaller(y, n, r)'
    <3>1. InBatch(y, n, r) \/ InCaller(y, n, r)
      BY <2>3 DEF InBatch, InCaller
    <3>2. y[1] # "timer"
      BY <3>1 DEF InBatch, InCaller
    <3>3. IsCopy(y, n, r)
      BY <3>1 DEF IsCopy
    <3>4. g[y] = y
      BY <1>1, <3>2, <3>3
    <3> QED  BY <3>3, <3>4
  <2> QED  BY <1>6, <2>1, <2>2, <2>3 DEF IsCopy
<1> HIDE DEF g
<1>7. \A x, y : IsCopy(x, n, r) /\ y = g[x] => IsCopy(y, n, r)'
  BY <1>4, <1>5 DEF IsCopy
<1> QED  BY <1>6, <1>7, Moved

\* Where a frame of the channel holds event n there is a copy of it.
SentCopy ==
  \A n : \A r \in Pumps : \A y : \A i \in 1..Len(out[r]) : \A j \in 1..Len(out[r][i].entries) :
    y = <<"out", i, j>> /\ out[r][i].entries[j] = n => InOut(y, n, r)

LEMMA SentCopies == SentCopy
BY DEF SentCopy, InOut

\* The first of what a thread has to send goes out, and the rest moves up.
LEMMA CallerDelivers ==
  ASSUME Inv, Inv', NEW c \in Callers, NEW n, NEW r \in Pumps, NEW b \in GoodSending, NEW q,
         b = unsent[c][1], 1 \in 1..Len(unsent[c]), Len(q) = Len(unsent[c]) - 1,
         \A i \in 1..Len(q) : q[i] = unsent[c][i + 1],
         out' = [out EXCEPT ![b.pump] = Append(@, b.frame)], unsent' = [unsent EXCEPT ![c] = q],
         UNCHANGED <<pending, timerUnsent>>
  PROVE  (OneCopy(n, r) => OneCopy(n, r)') /\ (NoCopy(n, r) => NoCopy(n, r)')
<1> DEFINE last == Len(out[r]) + 1
           g == [x \in Copies(n, r) |->
                   IF x[1] = "caller" /\ x[2] = c
                   THEN IF x[3] = 1 THEN <<"out", last, x[4]>> ELSE <<"caller", c, x[3] - 1, x[4]>>
                   ELSE x]
<1>1. ASSUME NEW x, IsCopy(x, n, r) PROVE x \in Copies(n, r)
  BY <1>1, CopiesAre DEF CopiesMatch
<1>2. /\ Len(unsent[c]) \in Nat /\ unsent'[c] = q /\ \A d \in Callers \ {c} : unsent'[d] = unsent[d]
      /\ Len(unsent'[c]) = Len(unsent[c]) - 1
      /\ \A i \in 1..Len(unsent'[c]) : unsent'[c][i] = unsent[c][i + 1]
  <2>1. unsent'[c] = q /\ \A d \in Callers \ {c} : unsent'[d] = unsent[d]
    BY DEF Inv, PumpTypes
  <2>2. Len(unsent[c]) \in Nat
    BY Lengths
  <2> QED  BY <2>1, <2>2
<1>3. /\ Len(out[r]) \in Nat
      /\ \A i \in 1..Len(out[r]) : i \in 1..Len(out'[r]) /\ out'[r][i] = out[r][i]
      /\ r = b.pump => last \in 1..Len(out'[r]) /\ out'[r][last] = b.frame
      /\ \A i \in 1..Len(out'[r]) : i \in 1..Len(out[r]) \/ (r = b.pump /\ i = last)
  BY Appended DEF GoodSending
<1>8. SentCopy'
  BY SentCopies, PTL
<1> HIDE DEF last
<1>4. ASSUME NEW x, NEW y, InCaller(x, n, r), y = g[x] PROVE IsCopy(y, n, r)'
  <2>1. PICK d, i, j :
          /\ d \in Callers /\ i \in 1..Len(unsent[d]) /\ j \in 1..Len(unsent[d][i].frame.entries)
          /\ x = <<"caller", d, i, j>> /\ unsent[d][i].pump = r /\ unsent[d][i].frame.entries[j] = n
    BY <1>4 DEF InCaller
  <2>2. x \in Copies(n, r) /\ x[1] = "caller" /\ x[2] = d /\ x[3] = i /\ x[4] = j
    BY <1>1, <1>4, <2>1 DEF IsCopy
  <2>3. CASE d = c /\ i = 1
    <3>1. y = <<"out", last, j>>
      BY <1>4, <2>2, <2>3
    <3>2. r = b.pump /\ unsent[d][i] = b
      BY <1>2, <2>1, <2>3
    <3>3. /\ last \in 1..Len(out'[r]) /\ j \in 1..Len(out'[r][last].entries)
          /\ out'[r][last].entries[j] = n
      BY <1>3, <2>1, <3>2
    <3>4. InOut(y, n, r)'
      BY <1>8, <3>1, <3>3 DEF SentCopy
    <3> QED  BY <3>4 DEF IsCopy
  <2>4. CASE d = c /\ i # 1
    <3>1. y = <<"caller", c, i - 1, j>>
      BY <1>4, <2>2, <2>4
    <3>2. i - 1 \in 1..Len(unsent'[c]) /\ unsent'[c][i - 1] = unsent[c][i]
      BY <1>2, <2>1, <2>4
    <3>3. InCaller(y, n, r)'
      BY <2>1, <2>4, <3>1, <3>2 DEF InCaller
    <3> QED  BY <3>3 DEF IsCopy
  <2>5. CASE d # c
    <3>1. y = x /\ unsent'[d] = unsent[d]
      BY <1>2, <1>4, <2>1, <2>2, <2>5
    <3>2. InCaller(y, n, r)'
      BY <2>1, <3>1 DEF InCaller
    <3> QED  BY <3>2 DEF IsCopy
  <2> QED  BY <2>3, <2>4, <2>5
<1>5. ASSUME NEW x, NEW y, InBatch(x, n, r) \/ InTimer(x, n, r) \/ InOut(x, n, r), y = g[x]
      PROVE  IsCopy(y, n, r)'
  <2>1. x \in Copies(n, r)
    BY <1>1, <1>5 DEF IsCopy
  <2>2. x[1] # "caller"
    BY <1>5 DEF InBatch, InTimer, InOut
  <2>3. y = x
    BY <1>5, <2>1, <2>2
  <2>4. ASSUME InOut(x, n, r) PROVE InOut(y, n, r)'
    <3>1. PICK i, j : /\ i \in 1..Len(out[r]) /\ j \in 1..Len(out[r][i].entries)
                      /\ x = <<"out", i, j>> /\ out[r][i].entries[j] = n
      BY <2>4 DEF InOut
    <3>2. i \in 1..Len(out'[r]) /\ out'[r][i] = out[r][i]
      BY <1>3, <3>1
    <3>3. y = <<"out", i, j>>
      BY <2>3, <3>1
    <3>4. i \in 1..Len(out'[r]) /\ j \in 1..Len(out'[r][i].entries) /\ out'[r][i].entries[j] = n
      BY <3>1, <3>2
    <3> QED  BY <1>8, <3>3, <3>4 DEF SentCopy
  <2>5. (InBatch(x, n, r) => InBatch(y, n, r)') /\ (InTimer(x, n, r) => InTimer(y, n, r)')
    BY <2>3 DEF InBatch, InTimer
  <2> QED  BY <1>5, <2>4, <2>5 DEF IsCopy
<1>6. ASSUME NEW y, IsCopy(y, n, r)' PROVE \E x : IsCopy(x, n, r) /\ y = g[x]
  <2>1. CASE InOut(y, n, r)'
    <3>1. PICK i, j : /\ i \in 1..Len(out'[r]) /\ j \in 1..Len(out'[r][i].entries)
                      /\ y = <<"out", i, j>> /\ out'[r][i].entries[j] = n
      BY <2>1 DEF InOut
    <3>2. CASE i \in 1..Len(out[r])
      <4>1. IsCopy(y, n, r)
        BY <1>3, <3>1, <3>2 DEF IsCopy, InOut
      <4>2. y[1] = "out"
        BY <3>1
      <4>3. g[y] = y
        BY <1>1, <4>1, <4>2
      <4> QED  BY <4>1, <4>3
    <3>3. CASE i \notin 1..Len(out[r])
      <4>1. i = last /\ r = b.pump /\ out'[r][i] = b.frame
        BY <1>3, <3>1, <3>3
      <4> DEFINE x == <<"caller", c, 1, j>>
      <4>2. InCaller(x, n, r)
        BY <1>2, <3>1, <4>1 DEF InCaller
      <4>3. x[1] = "caller" /\ x[2] = c /\ x[3] = 1 /\ x[4] = j
        OBVIOUS
      <4>4. x \in Copies(n, r) /\ IsCopy(x, n, r)
        BY <1>1, <4>2 DEF IsCopy
      <4> HIDE DEF x
      <4>5. g[x] = <<"out", last, j>>
        BY <4>3, <4>4
      <4> QED  BY <3>1, <4>1, <4>4, <4>5
    <3> QED  BY <3>2, <3>3
  <2>2. CASE InCaller(y, n, r)'
    <3>1. PICK d, i, j :
            /\ d \in Callers /\ i \in 1..Len(unsent'[d]) /\ j \in 1..Len(unsent'[d][i].frame.entries)
            /\ y = <<"caller", d, i, j>> /\ unsent'[d][i].pump = r /\ unsent'[d][i].frame.entries[j] = n
      BY <2>2 DEF InCaller
    <3>2. CASE d = c
      <4> DEFINE k == i + 1
                 x == <<"caller", c, k, j>>
      <4>1. k \in 1..Len(unsent[c]) /\ unsent'[c][i] = unsent[c][k] /\ k # 1 /\ k - 1 = i
        BY <1>2, <3>1, <3>2
      <4> HIDE DEF k
      <4>2. InCaller(x, n, r)
        BY <3>1, <3>2, <4>1 DEF InCaller
      <4>3. x[1] = "caller" /\ x[2] = c /\ x[3] = k /\ x[4] = j
        OBVIOUS
      <4>4. x \in Copies(n, r) /\ IsCopy(x, n, r)
        BY <1>1, <4>2 DEF IsCopy
      <4> HIDE DEF x
      <4>5. g[x] = <<"caller", c, k - 1, j>>
        BY <4>1, <4>3, <4>4
      <4> QED  BY <3>1, <3>2, <4>1, <4>4, <4>5
    <3>3. CASE d # c
      <4>1. unsent'[d] = unsent[d]
        BY <1>2, <3>1, <3>3
      <4>2. IsCopy(y, n, r)
        BY <3>1, <4>1 DEF IsCopy, InCaller
      <4>3. y[2] = d
        BY <3>1
      <4>4. g[y] = y
        BY <1>1, <3>3, <4>2, <4>3
      <4> QED  BY <4>2, <4>4
    <3> QED  BY <3>2, <3>3
  <2>3. CASE InBatch(y, n, r)' \/ InTimer(y, n, r)'
    <3>1. InBatch(y, n, r) \/ InTimer(y, n, r)
      BY <2>3 DEF InBatch, InTimer
    <3>2. y[1] # "caller"
      BY <3>1 DEF InBatch, InTimer
    <3>3. IsCopy(y, n, r)
      BY <3>1 DEF IsCopy
    <3>4. g[y] = y
      BY <1>1, <3>2, <3>3
    <3> QED  BY <3>3, <3>4
  <2> QED  BY <1>6, <2>1, <2>2, <2>3 DEF IsCopy
<1> HIDE DEF g
<1>7. \A x, y : IsCopy(x, n, r) /\ y = g[x] => IsCopy(y, n, r)'
  BY <1>4, <1>5 DEF IsCopy
<1> QED  BY <1>6, <1>7, Moved

---------------------------------------------------------------------------
(* A push adds one copy, of an event that had none. *)

LEMMA NoneIs ==
  ASSUME Inv, NEW n, NEW p \in Pumps
  PROVE  NoCopy(n, p) <=> \A x : ~IsCopy(x, n, p)
BY CopiesAre DEF NoCopy, CopiesMatch

LEMMA OneIs ==
  ASSUME Inv', NEW n, NEW p \in Pumps, NEW y, IsCopy(y, n, p)', \A x : IsCopy(x, n, p)' => x = y
  PROVE  OneCopy(n, p)'
<1>1. CopiesMatch'
  BY CopiesAre, PTL
<1>2. \A x : x \in Copies(n, p)' <=> IsCopy(x, n, p)'
  BY <1>1 DEF CopiesMatch
<1>3. Copies(n, p)' = {y}
  BY <1>2
<1> QED  BY <1>3 DEF OneCopy

LEMMA Same ==
  ASSUME Inv, Inv', NEW n, NEW p \in Pumps, \A x : IsCopy(x, n, p)' <=> IsCopy(x, n, p)
  PROVE  (OneCopy(n, p) => OneCopy(n, p)') /\ (NoCopy(n, p) => NoCopy(n, p)')
<1>1. CopiesMatch'
  BY CopiesAre, PTL
<1>2. \A x : x \in Copies(n, p)' <=> IsCopy(x, n, p)'
  BY <1>1 DEF CopiesMatch
<1>3. \A x : x \in Copies(n, p) <=> IsCopy(x, n, p)
  BY CopiesAre DEF CopiesMatch
<1>4. Copies(n, p)' = Copies(n, p)
  BY <1>2, <1>3
<1> QED  BY <1>4 DEF OneCopy, NoCopy

\* Of what a thread decides to send to pump p, entry k of thing a is event n, and no other is.
Only(q, n, p, a, k) ==
  /\ a \in 1..Len(q) /\ k \in 1..Len(q[a].frame.entries) /\ q[a].pump = p /\ q[a].frame.entries[k] = n
  /\ \A i \in 1..Len(q) : \A j \in 1..Len(q[i].frame.entries) :
       q[i].pump = p /\ q[i].frame.entries[j] = n => i = a /\ j = k

\* A caller that has decided on a frame with the new event holds its only copy.
LEMMA CallerNew ==
  ASSUME Inv, Inv', NEW c \in Callers, NEW p \in Pumps, NEW q, NEW n, NoCopy(n, p),
         unsent[c] = <<>>, unsent' = [unsent EXCEPT ![c] = q],
         pending' = [pending EXCEPT ![p] = <<>>], UNCHANGED <<timerUnsent, out>>,
         NEW a, NEW k, Only(q, n, p, a, k)
  PROVE  OneCopy(n, p)'
<1>1. PICK y : y = <<"caller", c, a, k>>
  OBVIOUS
<1>2. \A x : ~IsCopy(x, n, p)
  BY NoneIs
<1>3. /\ unsent'[c] = q /\ \A d \in Callers \ {c} : unsent'[d] = unsent[d]
      /\ pending'[p] = <<>> /\ Len(<<>>) = 0
  BY EmptySeq DEF Inv, PumpTypes
<1>4. ASSUME NEW x PROVE ~InBatch(x, n, p)' /\ ~InTimer(x, n, p)' /\ ~InOut(x, n, p)'
  <2>1. ~InBatch(x, n, p)'
    BY <1>3 DEF InBatch
  <2>2. ~InTimer(x, n, p)' /\ ~InOut(x, n, p)'
    BY <1>2 DEF IsCopy, InTimer, InOut
  <2> QED  BY <2>1, <2>2
<1>5. ASSUME NEW x, InCaller(x, n, p)' PROVE x = y
  <2>1. PICK d, i, j :
          /\ d \in Callers /\ i \in 1..Len(unsent'[d]) /\ j \in 1..Len(unsent'[d][i].frame.entries)
          /\ x = <<"caller", d, i, j>> /\ unsent'[d][i].pump = p /\ unsent'[d][i].frame.entries[j] = n
    BY <1>5 DEF InCaller
  <2>2. CASE d = c
    BY <1>1, <1>3, <2>1, <2>2 DEF Only
  <2>3. CASE d # c
    <3>1. unsent'[d] = unsent[d]
      BY <1>3, <2>1, <2>3
    <3>2. InCaller(x, n, p)
      BY <2>1, <3>1 DEF InCaller
    <3> QED  BY <1>2, <3>2 DEF IsCopy
  <2> QED  BY <2>2, <2>3
<1>6. InCaller(y, n, p)'
  BY <1>1, <1>3 DEF InCaller, Only
<1>7. \A x : IsCopy(x, n, p)' => x = y
  BY <1>4, <1>5 DEF IsCopy
<1>8. IsCopy(y, n, p)'
  BY <1>6 DEF IsCopy
<1> QED  BY <1>7, <1>8, OneIs

\* The batch of p with one more event.
LEMMA WaitsNew ==
  ASSUME Inv, Inv', NEW p \in Pumps, NEW n \in Number,
         pending' = [pending EXCEPT ![p] = Append(@, n)], UNCHANGED <<unsent, timerUnsent, out>>,
         NEW m, NEW r \in Pumps
  PROVE  /\ NoCopy(n, p) => OneCopy(n, p)'
         /\ (m # n \/ r # p) => (OneCopy(m, r) => OneCopy(m, r)') /\ (NoCopy(m, r) => NoCopy(m, r)')
<1>1. PICK last : last = Len(pending[p]) + 1
  OBVIOUS
<1>2. PICK y : y = <<"pending", last>>
  OBVIOUS
<1>3. /\ Len(pending[p]) \in Nat /\ Len(pending'[p]) = last /\ pending'[p][last] = n
      /\ \A j \in 1..Len(pending[p]) : pending'[p][j] = pending[p][j]
      /\ \A s \in Pumps \ {p} : pending'[s] = pending[s]
  <2>1. pending[p] \in Seq(Number) /\ Len(pending[p]) \in Nat
    BY Lengths
  <2>2. pending'[p] = Append(pending[p], n) /\ \A s \in Pumps \ {p} : pending'[s] = pending[s]
    BY DEF Inv, PumpTypes
  <2> QED  BY <1>1, <2>1, <2>2, AppendProperties
<1>4. ASSUME NEW x, NEW e, NEW s \in Pumps
      PROVE  /\ InCaller(x, e, s)' <=> InCaller(x, e, s)
             /\ InTimer(x, e, s)' <=> InTimer(x, e, s)
             /\ InOut(x, e, s)' <=> InOut(x, e, s)
  BY DEF InCaller, InTimer, InOut
<1>5. last \in 1..last /\ \A j \in 1..last : j \in 1..Len(pending[p]) \/ j = last
  BY <1>1, <1>3
<1>6. \A j \in 1..Len(pending[p]) : j \in 1..last
  BY <1>1, <1>3
<1>7. ASSUME NoCopy(n, p) PROVE OneCopy(n, p)'
  <2>1. \A x : ~IsCopy(x, n, p)
    BY <1>7, NoneIs
  <2>2. InBatch(y, n, p)'
    BY <1>3, <1>5, <1>2 DEF InBatch
  <2>3. ASSUME NEW x, InBatch(x, n, p)' PROVE x = y
    <3>1. PICK j \in 1..last : x = <<"pending", j>> /\ pending'[p][j] = n
      BY <1>3, <2>3 DEF InBatch
    <3>2. CASE j \in 1..Len(pending[p])
      <4>1. InBatch(x, n, p)
        BY <1>3, <3>1, <3>2 DEF InBatch
      <4> QED  BY <2>1, <4>1 DEF IsCopy
    <3> QED  BY <1>5, <1>2, <3>1, <3>2
  <2>4. \A x : IsCopy(x, n, p)' => x = y
    BY <1>4, <2>1, <2>3 DEF IsCopy
  <2>5. IsCopy(y, n, p)'
    BY <2>2 DEF IsCopy
  <2> QED  BY <2>4, <2>5, OneIs
<1>8. ASSUME m # n \/ r # p
      PROVE  (OneCopy(m, r) => OneCopy(m, r)') /\ (NoCopy(m, r) => NoCopy(m, r)')
  <2>1. ASSUME NEW x PROVE InBatch(x, m, r)' <=> InBatch(x, m, r)
    <3>1. CASE r # p
      <4>1. pending'[r] = pending[r]
        BY <1>3, <3>1
      <4> QED  BY <4>1 DEF InBatch
    <3>2. CASE r = p
      <4>1. ASSUME InBatch(x, m, p) PROVE InBatch(x, m, p)'
        BY <1>3, <1>6, <4>1 DEF InBatch
      <4>2. ASSUME InBatch(x, m, p)' PROVE InBatch(x, m, p)
        BY <1>3, <1>5, <1>8, <3>2, <4>2 DEF InBatch
      <4> QED  BY <3>2, <4>1, <4>2
    <3> QED  BY <3>1, <3>2
  <2>2. \A x : IsCopy(x, m, r)' <=> IsCopy(x, m, r)
    BY <1>4, <2>1 DEF IsCopy
  <2> QED  BY <2>2, Same
<1> QED  BY <1>7, <1>8

\* What take_batch returns: nothing, or the batch.
LEMMA Taken ==
  ASSUME Inv, NEW p \in Pumps
  PROVE  LET t == TakenBatch(p)
         IN  /\ t \in Seq(GoodSending) /\ Len(t) \in Nat
             /\ \A i \in 1..Len(t) : i = 1 /\ t[i].pump = p /\ t[i].frame.entries = pending[p]
             /\ IF pending[p] = <<>> THEN Len(t) = 0 ELSE Len(t) = 1
<1>1. TakenBatch(p) \in Seq(GoodSending)
  BY TakenGood
<1>2. CASE pending[p] = <<>>
  BY <1>1, <1>2, EmptySeq DEF TakenBatch
<1>3. CASE pending[p] # <<>>
  <2> DEFINE b == Batch(p, pendingSeq[p], pending[p])
  <2>1. TakenBatch(p) = <<b>> /\ b.pump = p /\ b.frame.entries = pending[p]
    BY <1>3 DEF TakenBatch, Batch
  <2> HIDE DEF b
  <2> QED  BY <1>1, <1>3, <2>1
<1> QED  BY <1>2, <1>3

---------------------------------------------------------------------------
(* The steps. *)

\* Steps that accept nothing.
LEMMA Keeps ==
  ASSUME Whole, Inv', UNCHANGED <<accepted, pusher>>,
         \A r \in Pumps : \A n \in Number :
           (OneCopy(n, r) => OneCopy(n, r)') /\ (NoCopy(n, r) => NoCopy(n, r)')
  PROVE  Whole'
<1>1. ASSUME NEW r \in Pumps
      PROVE  /\ accepted'[r] \subseteq DOMAIN pusher'
             /\ \A n \in Number : IF n \in accepted'[r] THEN OneCopy(n, r)' ELSE NoCopy(n, r)'
  <2>1. /\ accepted[r] \subseteq DOMAIN pusher
        /\ \A n \in Number : IF n \in accepted[r] THEN OneCopy(n, r) ELSE NoCopy(n, r)
    BY DEF Whole, One
  <2> QED  BY <2>1
<1>2. One'
  BY <1>1 DEF One
<1> QED  BY <1>2 DEF Whole

\* A push of n to p, which had no copy and now has one.
LEMMA Adds ==
  ASSUME Whole, Inv', NEW c \in Callers, NEW p \in Pumps, NEW n \in 1..MaxSeq, PushStep(c, p, n),
         NoCopy(n, p) => OneCopy(n, p)',
         \A r \in Pumps : \A m \in Number : (m # n \/ r # p) =>
           (OneCopy(m, r) => OneCopy(m, r)') /\ (NoCopy(m, r) => NoCopy(m, r)')
  PROVE  Whole'
<1>1. /\ n \notin DOMAIN pusher /\ n \in Number
      /\ accepted' = [accepted EXCEPT ![p] = @ \cup {n}]
      /\ DOMAIN pusher' = DOMAIN pusher \cup {n}
  BY PumpAssumption DEF PushStep, Number
<1>2. accepted'[p] = accepted[p] \cup {n} /\ \A r \in Pumps \ {p} : accepted'[r] = accepted[r]
  BY <1>1 DEF Whole, Inv, PumpTypes
<1>3. ASSUME NEW r \in Pumps, NEW m \in Number
      PROVE  IF m \in accepted'[r] THEN OneCopy(m, r)' ELSE NoCopy(m, r)'
  <2>1. IF m \in accepted[r] THEN OneCopy(m, r) ELSE NoCopy(m, r)
    BY DEF Whole, One
  <2>2. CASE m = n /\ r = p
    <3>1. NoCopy(n, p)
      BY <1>1, <2>1, <2>2 DEF Whole, One
    <3> QED  BY <1>2, <2>2, <3>1
  <2>3. CASE m # n \/ r # p
    <3>1. m \in accepted'[r] <=> m \in accepted[r]
      BY <1>2, <2>3
    <3> QED  BY <2>1, <2>3, <3>1
  <2> QED  BY <2>2, <2>3
<1>4. \A r \in Pumps : accepted'[r] \subseteq DOMAIN pusher'
  BY <1>1, <1>2 DEF Whole, One
<1>5. One'
  BY <1>3, <1>4 DEF One
<1> QED  BY <1>5 DEF Whole

LEMMA PushOtherOnce ==
  ASSUME Whole, Inv', NEW c \in Callers, NEW p \in Pumps, NEW n \in 1..MaxSeq, PushStep(c, p, n),
         PushOther(c, p, n)
  PROVE  Whole'
<1>1. PICK t : t = TakenBatch(p)
  OBVIOUS
<1>2. PICK s : s = Single(p, n)
  OBVIOUS
<1>3. PICK q : q = Append(t, s)
  OBVIOUS
<1>4. Inv /\ n \in Number
  BY PumpAssumption DEF Whole, Number
<1>5. /\ unsent[c] = <<>> /\ unsent' = [unsent EXCEPT ![c] = q]
      /\ pending' = [pending EXCEPT ![p] = <<>>] /\ UNCHANGED <<timerUnsent, out>>
  BY <1>1, <1>2, <1>3 DEF PushOther, ResetBatch
<1>6. /\ t \in Seq(GoodSending) /\ Len(t) \in Nat
      /\ \A i \in 1..Len(t) : i = 1 /\ t[i].pump = p /\ t[i].frame.entries = pending[p]
      /\ IF pending[p] = <<>> THEN Len(t) = 0 ELSE Len(t) = 1
  BY <1>1, <1>4, Taken
<1>7. s \in GoodSending /\ s.pump = p /\ Len(s.frame.entries) = 1 /\ s.frame.entries[1] = n
  <2>1. s \in GoodSending
    BY <1>2, <1>4, SingleGood
  <2> QED  BY <1>2, <2>1 DEF Single
<1>8. /\ Len(q) = Len(t) + 1 /\ q[Len(t) + 1] = s /\ \A i \in 1..Len(t) : q[i] = t[i]
  BY <1>3, <1>6, <1>7, AppendProperties
<1>9. /\ Len(t) + 1 \in 1..Len(q)
      /\ \A i \in 1..Len(q) : i \in 1..Len(t) \/ i = Len(t) + 1
      /\ \A i \in 1..Len(t) : i \in 1..Len(q)
  BY <1>6, <1>8
<1>10. ASSUME NEW r \in Pumps, NEW m \in Number, m # n \/ r # p
       PROVE  (OneCopy(m, r) => OneCopy(m, r)') /\ (NoCopy(m, r) => NoCopy(m, r)')
  <2>1. Carries(q, m, p, r)
    <3> SUFFICES ASSUME NEW i \in 1..Len(q), NEW j \in 1..Len(q[i].frame.entries),
                        q[i].pump = r, q[i].frame.entries[j] = m
                 PROVE  i = 1 /\ r = p /\ j \in 1..Len(pending[p]) /\ pending[p][j] = m
      BY DEF Carries
    <3>1. CASE i \in 1..Len(t)
      BY <1>6, <1>8, <3>1
    <3>2. CASE i = Len(t) + 1
      <4>1. q[i] = s /\ j = 1
        BY <1>7, <1>8, <3>2
      <4> QED  BY <1>7, <1>10, <4>1
    <3> QED  BY <1>9, <3>1, <3>2
  <2>2. CarriesAll(q, m, p)
    <3> SUFFICES ASSUME NEW j \in 1..Len(pending[p]), pending[p][j] = m
                 PROVE  /\ 1 \in 1..Len(q) /\ q[1].pump = p /\ j \in 1..Len(q[1].frame.entries)
                        /\ q[1].frame.entries[j] = m
      BY DEF CarriesAll
    <3>1. pending[p] # <<>>
      BY EmptySeq
    <3>2. Len(t) = 1
      BY <1>6, <3>1
    <3>3. 1 \in 1..Len(t)
      BY <3>2
    <3> QED  BY <1>6, <1>8, <1>9, <3>3
  <2> QED  BY <1>4, <1>5, <2>1, <2>2, CallerTakes
<1>11. ASSUME NoCopy(n, p) PROVE OneCopy(n, p)'
  <2>1. PICK a : a = Len(t) + 1
    OBVIOUS
  <2>2. a \in 1..Len(q) /\ 1 \in 1..Len(q[a].frame.entries) /\ q[a].pump = p /\ q[a].frame.entries[1] = n
    BY <1>7, <1>8, <1>9, <2>1
  <2>3. ASSUME NEW i \in 1..Len(q), NEW j \in 1..Len(q[i].frame.entries), q[i].pump = p, q[i].frame.entries[j] = n
        PROVE  i = a /\ j = 1
    <3>1. CASE i \in 1..Len(t)
      <4>1. j \in 1..Len(pending[p]) /\ pending[p][j] = n
        BY <1>6, <1>8, <2>3, <3>1
      <4>2. IsCopy(<<"pending", j>>, n, p)
        BY <4>1 DEF IsCopy, InBatch
      <4> QED  BY <1>4, <1>11, <4>2, NoneIs
    <3>2. CASE i = a
      <4>1. q[i] = s
        BY <1>8, <2>1, <3>2
      <4>2. j \in 1..Len(s.frame.entries)
        BY <4>1
      <4> QED  BY <1>7, <3>2, <4>2
    <3> QED  BY <1>9, <2>1, <3>1, <3>2
  <2>4. Only(q, n, p, a, 1)
    BY <2>2, <2>3 DEF Only
  <2> QED  BY <1>4, <1>5, <1>11, <2>4, CallerNew
<1> QED  BY <1>10, <1>11, Adds

LEMMA PushFullOnce ==
  ASSUME Whole, Inv', NEW c \in Callers, NEW p \in Pumps, NEW n \in 1..MaxSeq, PushStep(c, p, n),
         PushFull(c, p, n)
  PROVE  Whole'
<1>1. PICK e : e = Append(pending[p], n)
  OBVIOUS
<1>2. PICK b : b = Batch(p, Greatest(pendingSeq[p], n), e)
  OBVIOUS
<1>3. PICK q : q = <<b>>
  OBVIOUS
<1>4. Inv /\ n \in Number
  BY PumpAssumption DEF Whole, Number
<1>5. /\ unsent[c] = <<>> /\ unsent' = [unsent EXCEPT ![c] = q]
      /\ pending' = [pending EXCEPT ![p] = <<>>] /\ UNCHANGED <<timerUnsent, out>>
  BY <1>1, <1>2, <1>3 DEF PushFull, ResetBatch
<1>6. Len(q) = 1 /\ q[1] = b /\ b.pump = p /\ b.frame.entries = e
  BY <1>2, <1>3 DEF Batch
<1>7. /\ Len(pending[p]) \in Nat /\ Len(e) = Len(pending[p]) + 1 /\ e[Len(pending[p]) + 1] = n
      /\ \A j \in 1..Len(pending[p]) : e[j] = pending[p][j]
  <2>1. pending[p] \in Seq(Number) /\ Len(pending[p]) \in Nat
    BY <1>4, Lengths
  <2> QED  BY <1>1, <1>4, <2>1, AppendProperties
<1>8. /\ \A i \in 1..Len(q) : i = 1
      /\ 1 \in 1..Len(q) /\ Len(pending[p]) + 1 \in 1..Len(e)
      /\ \A j \in 1..Len(e) : j \in 1..Len(pending[p]) \/ j = Len(pending[p]) + 1
      /\ \A j \in 1..Len(pending[p]) : j \in 1..Len(e)
  BY <1>6, <1>7
<1>9. ASSUME NEW r \in Pumps, NEW m \in Number, m # n \/ r # p
      PROVE  (OneCopy(m, r) => OneCopy(m, r)') /\ (NoCopy(m, r) => NoCopy(m, r)')
  <2>1. Carries(q, m, p, r)
    BY <1>6, <1>7, <1>8, <1>9 DEF Carries
  <2>2. CarriesAll(q, m, p)
    BY <1>6, <1>7, <1>8 DEF CarriesAll
  <2> QED  BY <1>4, <1>5, <2>1, <2>2, CallerTakes
<1>10. ASSUME NoCopy(n, p) PROVE OneCopy(n, p)'
  <2>1. PICK k : k = Len(pending[p]) + 1
    OBVIOUS
  <2>2. k \in 1..Len(q[1].frame.entries) /\ q[1].pump = p /\ q[1].frame.entries[k] = n
    BY <1>6, <1>7, <1>8, <2>1
  <2>3. ASSUME NEW i \in 1..Len(q), NEW j \in 1..Len(q[i].frame.entries), q[i].frame.entries[j] = n
        PROVE  i = 1 /\ j = k
    <3>1. i = 1 /\ j \in 1..Len(e) /\ e[j] = n
      BY <1>6, <1>8, <2>3
    <3>2. CASE j \in 1..Len(pending[p])
      <4>1. pending[p][j] = n
        BY <1>7, <3>1, <3>2
      <4>2. IsCopy(<<"pending", j>>, n, p)
        BY <3>2, <4>1 DEF IsCopy, InBatch
      <4> QED  BY <1>4, <1>10, <4>2, NoneIs
    <3> QED  BY <1>8, <2>1, <3>1, <3>2
  <2>4. Only(q, n, p, 1, k)
    BY <1>8, <2>2, <2>3 DEF Only
  <2> QED  BY <1>4, <1>5, <1>10, <2>4, CallerNew
<1> QED  BY <1>9, <1>10, Adds

LEMMA PushWaitsOnce ==
  ASSUME Whole, Inv', NEW c \in Callers, NEW p \in Pumps, NEW n \in 1..MaxSeq, PushStep(c, p, n),
         PushWaits(c, p, n)
  PROVE  Whole'
<1>1. Inv /\ n \in Number
  BY PumpAssumption DEF Whole, Number
<1>2. pending' = [pending EXCEPT ![p] = Append(@, n)] /\ UNCHANGED <<unsent, timerUnsent, out>>
  BY DEF PushWaits
<1>3. NoCopy(n, p) => OneCopy(n, p)'
  BY <1>1, <1>2, WaitsNew
<1>4. \A r \in Pumps : \A m \in Number : (m # n \/ r # p) =>
        (OneCopy(m, r) => OneCopy(m, r)') /\ (NoCopy(m, r) => NoCopy(m, r)')
  BY <1>1, <1>2, WaitsNew
<1> QED  BY <1>3, <1>4, Adds

LEMMA CloseOnce ==
  ASSUME Whole, NEW c \in Callers, NEW p \in Pumps, ClosePump(c, p) /\ Quiet
  PROVE  Whole'
<1>1. PICK q : q = TakenBatch(p)
  OBVIOUS
<1>2. Inv /\ Inv'
  BY CloseInv DEF Whole
<1>3. /\ unsent[c] = <<>> /\ unsent' = [unsent EXCEPT ![c] = q]
      /\ pending' = [pending EXCEPT ![p] = <<>>] /\ UNCHANGED <<timerUnsent, out>>
  BY <1>1 DEF ClosePump, ResetBatch
<1>4. /\ \A i \in 1..Len(q) : i = 1 /\ q[i].pump = p /\ q[i].frame.entries = pending[p]
      /\ IF pending[p] = <<>> THEN Len(q) = 0 ELSE Len(q) = 1
  BY <1>1, <1>2, Taken
<1>5. ASSUME NEW r \in Pumps, NEW n \in Number
      PROVE  (OneCopy(n, r) => OneCopy(n, r)') /\ (NoCopy(n, r) => NoCopy(n, r)')
  <2>1. Carries(q, n, p, r)
    BY <1>4 DEF Carries
  <2>2. CarriesAll(q, n, p)
    <3> SUFFICES ASSUME NEW j \in 1..Len(pending[p]), pending[p][j] = n
                 PROVE  /\ 1 \in 1..Len(q) /\ q[1].pump = p /\ j \in 1..Len(q[1].frame.entries)
                        /\ q[1].frame.entries[j] = n
      BY DEF CarriesAll
    <3>1. pending[p] # <<>>
      BY EmptySeq
    <3>2. Len(q) = 1
      BY <1>4, <3>1
    <3>3. 1 \in 1..Len(q)
      BY <3>2
    <3> QED  BY <1>4, <3>3
  <2> QED  BY <1>2, <1>3, <2>1, <2>2, CallerTakes
<1> QED  BY <1>2, <1>5, Keeps DEF Quiet

LEMMA SendOnce ==
  ASSUME Whole, NEW c \in Callers, Send(c) /\ Quiet
  PROVE  Whole'
<1>1. PICK b : b = Head(unsent[c])
  OBVIOUS
<1>2. PICK q : q = Tail(unsent[c])
  OBVIOUS
<1>3. Inv /\ Inv'
  BY SendInv DEF Whole
<1>4. /\ unsent[c] # <<>> /\ unsent[c] \in Seq(GoodSending)
      /\ out' = [out EXCEPT ![b.pump] = Append(@, b.frame)] /\ unsent' = [unsent EXCEPT ![c] = q]
      /\ UNCHANGED <<pending, timerUnsent>>
  BY <1>1, <1>2, <1>3 DEF Send, Inv, PumpTypes
<1>5. /\ b \in GoodSending /\ b = unsent[c][1] /\ 1 \in 1..Len(unsent[c])
      /\ Len(q) = Len(unsent[c]) - 1 /\ \A i \in 1..Len(q) : q[i] = unsent[c][i + 1]
  <2>1. Len(unsent[c]) \in Nat /\ Len(unsent[c]) # 0
    BY <1>4, EmptySeq, LenProperties
  <2>2. 1 \in 1..Len(unsent[c])
    BY <2>1
  <2> QED  BY <1>1, <1>2, <1>4, <2>2, HeadTailProperties
<1>6. ASSUME NEW r \in Pumps, NEW n \in Number
      PROVE  (OneCopy(n, r) => OneCopy(n, r)') /\ (NoCopy(n, r) => NoCopy(n, r)')
  BY <1>3, <1>4, <1>5, CallerDelivers
<1> QED  BY <1>3, <1>6, Keeps DEF Quiet

\* A step that moves nothing.
LEMMA RestsOnce ==
  ASSUME Whole, Inv', UNCHANGED <<pending, unsent, timerUnsent, out, accepted, pusher>>
  PROVE  Whole'
<1>1. ASSUME NEW r \in Pumps, NEW n \in Number
      PROVE  (OneCopy(n, r) => OneCopy(n, r)') /\ (NoCopy(n, r) => NoCopy(n, r)')
  <2>1. ASSUME NEW x PROVE IsCopy(x, n, r)' <=> IsCopy(x, n, r)
    BY DEF IsCopy, InBatch, InCaller, InTimer, InOut
  <2> QED  BY <2>1, Same DEF Whole
<1> QED  BY <1>1, Keeps

LEMMA TimerOnce ==
  ASSUME Whole, NEW x \in timers, (TimerTakes(x) \/ TimerStale(x)) /\ Quiet
  PROVE  Whole'
<1>1. Inv /\ Inv' /\ x.pump \in Pumps
  BY TimerInv DEF Whole, Inv, PumpTypes, Timer
<1>2. CASE TimerStale(x)
  BY <1>1, <1>2, RestsOnce DEF TimerStale, Quiet
<1>3. CASE TimerTakes(x)
  <2>1. PICK p : p = x.pump
    OBVIOUS
  <2>2. PICK t : t = TakenBatch(p)
    OBVIOUS
  <2>3. /\ p \in Pumps /\ pending' = [pending EXCEPT ![p] = <<>>] /\ UNCHANGED <<unsent, out>>
        /\ timerUnsent' = timerUnsent \cup
             {[pump |-> p, generation |-> x.generation, frame |-> t[i].frame] : i \in 1..Len(t)}
    BY <1>1, <1>3, <2>1, <2>2 DEF TimerTakes, ResetBatch
  <2> DEFINE b == [pump |-> p, generation |-> x.generation, frame |-> t[1].frame]
  <2>4. /\ \A i \in 1..Len(t) : i = 1 /\ t[i].pump = p /\ t[i].frame.entries = pending[p]
        /\ IF pending[p] = <<>> THEN Len(t) = 0 ELSE Len(t) = 1
    BY <1>1, <2>2, <2>3, Taken
  <2>5. \/ pending[p] = <<>> /\ timerUnsent' = timerUnsent
        \/ timerUnsent' = timerUnsent \cup {b} /\ b.pump = p /\ b.frame.entries = pending[p]
    <3>1. CASE pending[p] = <<>>
      <4>1. 1..Len(t) = {}
        BY <2>4, <3>1
      <4> QED  BY <2>3, <3>1, <4>1
    <3>2. CASE pending[p] # <<>>
      <4>1. Len(t) = 1
        BY <2>4, <3>2
      <4>2. 1..Len(t) = {1}
        BY <4>1
      <4> QED  BY <2>3, <2>4, <4>2
    <3> QED  BY <3>1, <3>2
  <2> HIDE DEF b
  <2>6. ASSUME NEW r \in Pumps, NEW n \in Number
        PROVE  (OneCopy(n, r) => OneCopy(n, r)') /\ (NoCopy(n, r) => NoCopy(n, r)')
    BY <1>1, <2>3, <2>5, TimerCarries
  <2> QED  BY <1>1, <2>6, Keeps DEF Quiet
<1> QED  BY <1>2, <1>3

LEMMA TimerSendOnce ==
  ASSUME Whole, NEW x \in timerUnsent, TimerSends(x) /\ Quiet
  PROVE  Whole'
<1>1. Inv /\ Inv'
  BY TimerSendInv DEF Whole
<1>2. /\ timerUnsent' = timerUnsent \ {x} /\ out' = [out EXCEPT ![x.pump] = Append(@, x.frame)]
      /\ UNCHANGED <<pending, unsent>>
  BY DEF TimerSends
<1>3. ASSUME NEW r \in Pumps, NEW n \in Number
      PROVE  (OneCopy(n, r) => OneCopy(n, r)') /\ (NoCopy(n, r) => NoCopy(n, r)')
  BY <1>1, <1>2, TimerDelivers
<1> QED  BY <1>1, <1>3, Keeps DEF Quiet

LEMMA InitOnce == Init => Whole
<1> SUFFICES ASSUME Init PROVE Whole
  OBVIOUS
<1>1. Inv
  BY InitInv
<1>2. ASSUME NEW p \in Pumps PROVE accepted[p] = {}
  BY DEF Init
<1>3. ASSUME NEW x, NEW n, NEW p \in Pumps PROVE ~IsCopy(x, n, p)
  BY EmptySeq DEF Init, PumpInit, IsCopy, InBatch, InCaller, InTimer, InOut
<1>4. \A p \in Pumps : \A n \in Number : NoCopy(n, p)
  BY <1>1, <1>3, NoneIs
<1> QED  BY <1>1, <1>2, <1>4 DEF Whole, One

LEMMA NextOnce == Whole /\ [Next]_vars => Whole'
<1> SUFFICES ASSUME Whole, [Next]_vars PROVE Whole'
  OBVIOUS
<1>1. ASSUME NEW c \in Callers, NEW p \in Pumps, NEW n \in 1..MaxSeq, PushStep(c, p, n) PROVE Whole'
  <2>1. Inv'
    BY <1>1, PushInv DEF Whole
  <2> QED  BY <1>1, <2>1, PushOtherOnce, PushFullOnce, PushWaitsOnce DEF PushStep, PushEntry
<1>2. CASE \E c \in Callers, p \in Pumps : ClosePump(c, p) /\ Quiet
  BY <1>2, CloseOnce
<1>3. CASE \E c \in Callers : Send(c) /\ Quiet
  BY <1>3, SendOnce
<1>4. CASE \E x \in timers : (TimerTakes(x) \/ TimerStale(x)) /\ Quiet
  BY <1>4, TimerOnce
<1>5. CASE \E x \in timerUnsent : TimerSends(x) /\ Quiet
  BY <1>5, TimerSendOnce
<1>6. CASE UNCHANGED vars
  <2>1. Inv'
    BY <1>6, NextInv DEF Whole
  <2> QED  BY <1>6, <2>1, RestsOnce DEF vars, pumpVars
<1>7. ASSUME \E c \in Callers, p \in Pumps : PushRefused(c, p) /\ Quiet
      PROVE  UNCHANGED vars
  BY <1>7 DEF PushRefused, Quiet, vars
<1> QED  BY <1>1, <1>2, <1>3, <1>4, <1>5, <1>6, <1>7 DEF Next

\* Coalescing neither loses nor repeats an event: whatever the timers, the callers and the close of the pump do
\* in between, an accepted event is in exactly one place, and an event not accepted is nowhere (push, flush, close).
THEOREM OnceCorrect == Spec => []ExactlyOnce
<1>1. Whole => ExactlyOnce
  <2> SUFFICES ASSUME Whole, NEW p \in Pumps, NEW n \in 1..MaxSeq
               PROVE  Cardinality(Copies(n, p)) = IF n \in accepted[p] THEN 1 ELSE 0
    BY DEF ExactlyOnce
  <2>1. n \in Number
    BY PumpAssumption DEF Number
  <2>2. CASE n \in accepted[p]
    <3>1. PICK x : Copies(n, p) = {x}
      BY <2>1, <2>2 DEF Whole, One, OneCopy
    <3>2. Cardinality({x}) = 1
      BY FS_Singleton
    <3> QED  BY <2>2, <3>1, <3>2
  <2>3. CASE n \notin accepted[p]
    <3>1. Copies(n, p) = {}
      BY <2>1, <2>3 DEF Whole, One, NoCopy
    <3> QED  BY <2>3, <3>1, FS_EmptySet
  <2> QED  BY <2>2, <2>3
<1> QED  BY <1>1, InitOnce, NextOnce, PTL DEF Spec

=============================================================================
