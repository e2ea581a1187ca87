--------------------------- MODULE EventLogProofs ---------------------------
(***************************************************************************)
(* Proofs about EventLog, for any number of wires, subscribers, emitters   *)
(* and events.                                                             *)
(***************************************************************************)
EXTENDS EventLog, SequenceTheorems, TLAPS

\* What is left of a sequence when its first n elements go.
LEMMA DropFirstType ==
  ASSUME NEW S, NEW s \in Seq(S), NEW n \in 0..Len(s)
  PROVE  /\ DropFirst(s, n) \in Seq(S)
         /\ Len(DropFirst(s, n)) = Len(s) - n
         /\ \A i \in 1..Len(s) - n : DropFirst(s, n)[i] = s[n + i]
<1>1. \A i \in n + 1..Len(s) : s[i] \in S
  BY ElementOfSeq
<1>2. /\ SubSeq(s, n + 1, Len(s)) \in Seq(S)
      /\ Len(SubSeq(s, n + 1, Len(s))) = IF n + 1 <= Len(s) THEN Len(s) - (n + 1) + 1 ELSE 0
      /\ \A i \in 1..Len(s) - (n + 1) + 1 : SubSeq(s, n + 1, Len(s))[i] = s[(n + 1) + i - 1]
  BY <1>1, SubSeqProperties
<1> QED  BY <1>2 DEF DropFirst

\* Pruning drops some events from the front, however much has aged out, and leaves no more than
\* the limit.
LEMMA PruneDropsFront ==
  ASSUME NEW b \in Seq(Event), NEW aged \in 0..Len(b)
  PROVE  \E n \in aged..Len(b) : /\ Prune(b, aged) \in Seq(Event)
                                 /\ Len(Prune(b, aged)) = Len(b) - n
                                 /\ Len(b) - n <= MaxEvents
                                 /\ \A i \in 1..Len(b) - n : Prune(b, aged)[i] = b[n + i]
<1> DEFINE kept == DropFirst(b, aged)
<1>1. /\ kept \in Seq(Event)
      /\ Len(kept) = Len(b) - aged
      /\ \A i \in 1..Len(b) - aged : kept[i] = b[aged + i]
  BY DropFirstType
<1>2. CASE Len(kept) <= MaxEvents
  <2>1. Prune(b, aged) = kept
    BY <1>2, <1>1, LogAssumption DEF Prune
  <2> QED  BY <2>1, <1>1, <1>2
<1>3. CASE Len(kept) > MaxEvents
  <2> DEFINE k == Len(kept) - MaxEvents
  <2>1. k \in 0..Len(kept)
    BY <1>1, <1>3, LogAssumption
  <2>2. Prune(b, aged) = DropFirst(kept, k)
    BY <1>3 DEF Prune
  <2>3. /\ DropFirst(kept, k) \in Seq(Event)
        /\ Len(DropFirst(kept, k)) = Len(kept) - k
        /\ \A i \in 1..Len(kept) - k : DropFirst(kept, k)[i] = kept[k + i]
    BY <2>1, <1>1, DropFirstType
  <2>a. k \in Nat /\ Len(kept) \in Nat /\ Len(b) \in Nat
    BY <2>1, <1>1, LenProperties
  <2>4. aged + k \in aged..Len(b) /\ Len(b) - (aged + k) = Len(kept) - k
    <3> HIDE DEF kept, k
    <3> QED  BY <2>1, <2>a, <1>1
  <2>5. Len(kept) - k <= MaxEvents
    BY <1>1, LogAssumption
  <2> HIDE DEF kept, k
  <2>6. ASSUME NEW i \in 1..Len(kept) - k
        PROVE  kept[k + i] = b[(aged + k) + i]
    <3>1. k + i \in 1..Len(b) - aged /\ aged + (k + i) = (aged + k) + i
      BY <2>1, <2>a, <1>1
    <3> QED  BY <3>1, <1>1
  <2>7. /\ Prune(b, aged) \in Seq(Event)
        /\ Len(Prune(b, aged)) = Len(b) - (aged + k)
        /\ Len(b) - (aged + k) <= MaxEvents
        /\ \A i \in 1..Len(b) - (aged + k) : Prune(b, aged)[i] = b[(aged + k) + i]
    BY <2>2, <2>3, <2>4, <2>5, <2>6
  <2> QED  BY <2>4, <2>7
<1> QED  BY <1>1, <1>2, <1>3, LogAssumption

\* Pruning a tail of the recorded events leaves a tail of them.
LEMMA PruneKeepsTail ==
  ASSUME NEW b \in Seq(Event), NEW r \in Seq(Wires), NEW aged \in 0..Len(b),
         Len(b) <= Len(r),
         \A i \in 1..Len(b) : b[i] = [event |-> r[Len(r) - Len(b) + i], seq |-> Len(r) - Len(b) + i]
  PROVE  /\ Prune(b, aged) \in Seq(Event)
         /\ Len(Prune(b, aged)) <= Len(r) /\ Len(Prune(b, aged)) <= MaxEvents
         /\ \A i \in 1..Len(Prune(b, aged)) :
              Prune(b, aged)[i] = [event |-> r[Len(r) - Len(Prune(b, aged)) + i],
                                   seq |-> Len(r) - Len(Prune(b, aged)) + i]
<1> DEFINE p == Prune(b, aged)
<1>0. \E n \in aged..Len(b) : /\ Prune(b, aged) \in Seq(Event)
                              /\ Len(Prune(b, aged)) = Len(b) - n
                              /\ Len(b) - n <= MaxEvents
                              /\ \A i \in 1..Len(b) - n : Prune(b, aged)[i] = b[n + i]
  BY PruneDropsFront
<1>1. PICK n \in aged..Len(b) : /\ p \in Seq(Event)
                                /\ Len(p) = Len(b) - n
                                /\ Len(b) - n <= MaxEvents
                                /\ \A i \in 1..Len(b) - n : p[i] = b[n + i]
  BY <1>0
<1>2. Len(b) \in Nat /\ Len(r) \in Nat
  BY LenProperties
<1>3. ASSUME NEW i \in 1..Len(p)
      PROVE  p[i] = [event |-> r[Len(r) - Len(p) + i], seq |-> Len(r) - Len(p) + i]
  <2>1. n + i \in 1..Len(b) /\ p[i] = b[n + i]
    BY <1>1, <1>2
  <2>2. Len(r) - Len(b) + (n + i) = Len(r) - Len(p) + i
    BY <1>1, <1>2
  <2>3. b[n + i] = [event |-> r[Len(r) - Len(b) + (n + i)], seq |-> Len(r) - Len(b) + (n + i)]
    BY <2>1
  <2> QED  BY <2>1, <2>2, <2>3
<1> QED  BY <1>1, <1>2, <1>3

-----------------------------------------------------------------------------
\* The history is a typed tail of the record: what the log alone keeps, whoever it calls.
TypedTail == buffer \in Seq(Event) /\ recorded \in Seq(Wires) /\ seq \in Nat /\ HistoryIsTail

\* The types and the shape of the history hold together: the wire of every event is on record.
Inv == TypeOK /\ HistoryIsTail

LEMMA InvTail == Inv => TypedTail
BY DEF Inv, TypeOK, TypedTail

LEMMA InitInv == Init => Inv
<1> SUFFICES ASSUME Init PROVE Inv
  OBVIOUS
<1>1. Len(<<>>) = 0 /\ \A S : <<>> \in Seq(S)
  BY EmptySeq
<1>2. TypeOK
  BY <1>1 DEF Init, LogInit, TypeOK
<1>3. HistoryIsTail
  BY <1>1, LogAssumption DEF Init, LogInit, HistoryIsTail
<1> QED  BY <1>2, <1>3 DEF Inv

\* Numbering an event: appended and pruned, the history is still a tail.
LEMMA EmitTail ==
  ASSUME TypedTail, NEW t \in Emitters, NEW w \in Wires, Emit(t, w)
  PROVE  TypedTail'
<1> DEFINE e == [event |-> w, seq |-> seq + 1]
           b == Append(buffer, e)
           r == Append(recorded, w)
<1>1. /\ seq' = seq + 1 /\ recorded' = r
      /\ \E aged \in 0..Len(buffer) : buffer' = Prune(b, aged)
  BY DEF Emit, Numbered
<1>2. /\ buffer \in Seq(Event) /\ recorded \in Seq(Wires) /\ seq \in Nat /\ e \in Event
      /\ seq = Len(recorded) /\ Len(buffer) <= seq /\ Len(buffer) \in Nat
  BY LenProperties DEF TypedTail, HistoryIsTail, Event
<1>3. /\ b \in Seq(Event) /\ Len(b) = Len(buffer) + 1
      /\ \A i \in 1..Len(b) : b[i] = IF i = Len(buffer) + 1 THEN e ELSE buffer[i]
  BY <1>2, AppendProperties
<1>4. /\ r \in Seq(Wires) /\ Len(r) = seq + 1
      /\ \A i \in 1..Len(r) : r[i] = IF i = seq + 1 THEN w ELSE recorded[i]
  BY <1>2, AppendProperties
<1> HIDE DEF b, r
<1>5. ASSUME NEW i \in 1..Len(b)
      PROVE  b[i] = [event |-> r[Len(r) - Len(b) + i], seq |-> Len(r) - Len(b) + i]
  <2>1. CASE i = Len(buffer) + 1
    <3>1. Len(r) - Len(b) + i = seq + 1
      BY <1>2, <1>3, <1>4, <2>1
    <3>2. r[seq + 1] = w
      BY <1>2, <1>4
    <3> QED  BY <3>1, <3>2, <2>1, <1>3
  <2>2. CASE i # Len(buffer) + 1
    <3>1. /\ i \in 1..Len(buffer)
          /\ Len(r) - Len(b) + i = seq - Len(buffer) + i
          /\ seq - Len(buffer) + i \in 1..seq
      BY <1>2, <1>3, <1>4, <2>2
    <3>2. b[i] = buffer[i]
      BY <1>3, <2>2
    <3>3. buffer[i] = [event |-> recorded[seq - Len(buffer) + i], seq |-> seq - Len(buffer) + i]
      BY <3>1 DEF TypedTail, HistoryIsTail
    <3>4. r[seq - Len(buffer) + i] = recorded[seq - Len(buffer) + i]
      <4>1. ASSUME NEW j \in 1..seq PROVE r[j] = recorded[j]
        BY <1>2, <1>4
      <4> QED  BY <3>1, <4>1
    <3> QED  BY <3>1, <3>2, <3>3, <3>4
  <2> QED  BY <2>1, <2>2
<1>6. PICK aged \in 0..Len(b) : buffer' = Prune(b, aged)
  BY <1>1, <1>2, <1>3
<1>7. /\ buffer' \in Seq(Event)
      /\ Len(buffer') <= Len(r) /\ Len(buffer') <= MaxEvents
      /\ \A i \in 1..Len(buffer') :
           buffer'[i] = [event |-> r[Len(r) - Len(buffer') + i], seq |-> Len(r) - Len(buffer') + i]
  <2>1. Len(b) <= Len(r)
    BY <1>2, <1>3, <1>4
  <2> QED  BY <1>3, <1>4, <1>5, <1>6, <2>1, PruneKeepsTail
<1>8. HistoryIsTail'
  BY <1>1, <1>4, <1>7 DEF HistoryIsTail
<1> QED  BY <1>1, <1>2, <1>4, <1>7, <1>8 DEF TypedTail

LEMMA EmitInv ==
  ASSUME Inv, NEW t \in Emitters, NEW w \in Wires, EmitStep(t, w)
  PROVE  Inv'
<1> DEFINE e == [event |-> w, seq |-> seq + 1]
<1>1. /\ seq' = seq + 1
      /\ calling' = calling \cup {[by |-> t, event |-> e, to |-> s] : s \in subscribers[w]}
      /\ UNCHANGED <<logClosed, retained, subscribers, received>>
      /\ owed' = [s \in Subscribers |->
                    owed[s] \cup (IF s \in subscribers[w] THEN {seq'} ELSE {})]
  BY DEF EmitStep, Emit, Numbered
<1>2. seq \in Nat /\ e \in Event
  BY DEF Inv, TypeOK, Event
<1>3. TypedTail'
  BY InvTail, EmitTail DEF EmitStep
<1>4. {[by |-> t, event |-> e, to |-> s] : s \in subscribers[w]} \subseteq Call
  BY <1>2 DEF Inv, TypeOK, Call
<1>5. owed' \in [Subscribers -> SUBSET (Nat \ {0})]
  BY <1>1, <1>2 DEF Inv, TypeOK
<1>6. TypeOK'
  BY <1>1, <1>3, <1>4, <1>5 DEF Inv, TypeOK, TypedTail
<1> QED  BY <1>3, <1>6 DEF Inv, TypedTail

LEMMA PruneTail ==
  ASSUME TypedTail, PruneForReplay
  PROVE  TypedTail'
<1>1. /\ \E aged \in 0..Len(buffer) : buffer' = Prune(buffer, aged)
      /\ UNCHANGED <<seq, logClosed, retained, subscribers, calling, recorded>>
  BY DEF PruneForReplay
<1>2. /\ buffer \in Seq(Event) /\ recorded \in Seq(Wires) /\ seq = Len(recorded)
      /\ Len(buffer) <= Len(recorded)
      /\ \A i \in 1..Len(buffer) :
           buffer[i] = [event |-> recorded[Len(recorded) - Len(buffer) + i],
                        seq |-> Len(recorded) - Len(buffer) + i]
  BY DEF TypedTail, HistoryIsTail
<1>3. PICK aged \in 0..Len(buffer) : buffer' = Prune(buffer, aged)
  BY <1>1
<1>4. /\ buffer' \in Seq(Event)
      /\ Len(buffer') <= Len(recorded) /\ Len(buffer') <= MaxEvents
      /\ \A i \in 1..Len(buffer') :
           buffer'[i] = [event |-> recorded[Len(recorded) - Len(buffer') + i],
                         seq |-> Len(recorded) - Len(buffer') + i]
  BY <1>2, <1>3, PruneKeepsTail
<1> QED  BY <1>1, <1>2, <1>4 DEF TypedTail, HistoryIsTail

LEMMA ReplayInv ==
  ASSUME Inv, ReplayStep
  PROVE  Inv'
<1>1. TypedTail'
  BY InvTail, PruneTail DEF ReplayStep
<1> QED  BY <1>1 DEF ReplayStep, PruneForReplay, Inv, TypeOK, TypedTail

LEMMA NextInv == Inv /\ [Next]_vars => Inv'
<1> SUFFICES ASSUME Inv, [Next]_vars PROVE Inv'
  OBVIOUS
<1>1. CASE \E t \in Emitters, w \in Wires : EmitStep(t, w)
  BY <1>1, EmitInv
<1>2. ASSUME NEW c \in calling, CallStep(c)
      PROVE  Inv'
  <2>1. /\ calling' = calling \ {c}
        /\ received' = [received EXCEPT ![c.to] = Append(@, c.event.seq)]
        /\ UNCHANGED <<buffer, seq, logClosed, retained, subscribers, recorded, owed>>
    BY <1>2 DEF CallStep, CallSubscriber
  <2>2. c.to \in Subscribers /\ c.event.seq \in Nat \ {0} /\ received[c.to] \in Seq(Nat \ {0})
    BY DEF Inv, TypeOK, Call, Event
  <2>3. Append(received[c.to], c.event.seq) \in Seq(Nat \ {0})
    BY <2>2, AppendProperties
  <2>4. received' \in [Subscribers -> Seq(Nat \ {0})]
    BY <2>1, <2>2, <2>3 DEF Inv, TypeOK
  <2> QED  BY <2>1, <2>4 DEF Inv, TypeOK, HistoryIsTail
<1>3. ASSUME NEW s \in Subscribers, NEW w \in Wires, SubscribeStep(s, w)
      PROVE  Inv'
  BY <1>3 DEF Inv, TypeOK, HistoryIsTail, SubscribeStep, Subscribe
<1>4. ASSUME NEW s \in Subscribers, NEW w \in Wires, UnsubscribeStep(s, w)
      PROVE  Inv'
  BY <1>4 DEF Inv, TypeOK, HistoryIsTail, UnsubscribeStep, Unsubscribe
<1>5. CASE ReplayStep
  BY <1>5, ReplayInv
<1>6. CASE CloseStep
  BY <1>6 DEF Inv, TypeOK, HistoryIsTail, CloseStep, CloseLog
<1>7. CASE UNCHANGED vars
  BY <1>7 DEF Inv, TypeOK, HistoryIsTail, vars, logVars
<1> QED  BY <1>1, <1>2, <1>3, <1>4, <1>5, <1>6, <1>7 DEF Next

\* The log's variables keep their types.
THEOREM TypeCorrect == Spec => []TypeOK
<1>1. Inv => TypeOK
  BY DEF Inv
<1> QED  BY InitInv, NextInv, <1>1, PTL DEF Spec

\* The history is always a tail of everything numbered, without gaps and within its limit
\* (event_log.rs, prune and the listener of EventLog::new).
THEOREM HistoryCorrect == Spec => []HistoryIsTail
<1>1. Inv => HistoryIsTail
  BY DEF Inv
<1> QED  BY InitInv, NextInv, <1>1, PTL DEF Spec

-----------------------------------------------------------------------------
\* What the history holds, by number.
LEMMA HistoryByNumber ==
  ASSUME TypedTail
  PROVE  /\ seq \in Nat /\ Len(buffer) \in 0..seq
         /\ \A n \in seq - Len(buffer) + 1..seq :
              /\ n - (seq - Len(buffer)) \in 1..Len(buffer)
              /\ buffer[n - (seq - Len(buffer))] = [event |-> recorded[n], seq |-> n]
         /\ {buffer[i] : i \in 1..Len(buffer)} =
              {[event |-> recorded[n], seq |-> n] : n \in seq - Len(buffer) + 1..seq}
         /\ buffer # <<>> => Len(buffer) > 0 /\ buffer[1].seq = seq - Len(buffer) + 1
         /\ buffer = <<>> => Len(buffer) = 0
<1> DEFINE gone == seq - Len(buffer)
<1>1. /\ seq \in Nat /\ Len(buffer) \in 0..seq
      /\ buffer = <<>> => Len(buffer) = 0
      /\ buffer # <<>> => Len(buffer) > 0
  BY LenProperties, EmptySeq DEF TypedTail, HistoryIsTail
<1>2. \A i \in 1..Len(buffer) : buffer[i] = [event |-> recorded[gone + i], seq |-> gone + i]
  BY DEF TypedTail, HistoryIsTail
<1>3. gone \in Nat /\ gone + Len(buffer) = seq
  BY <1>1
<1> HIDE DEF gone
<1>4. ASSUME NEW n \in gone + 1..seq
      PROVE  n - gone \in 1..Len(buffer) /\ buffer[n - gone] = [event |-> recorded[n], seq |-> n]
  <2>1. n - gone \in 1..Len(buffer) /\ gone + (n - gone) = n
    BY <1>1, <1>3
  <2> QED  BY <2>1, <1>2
<1>5. ASSUME NEW i \in 1..Len(buffer)
      PROVE  gone + i \in gone + 1..seq /\ buffer[i] = [event |-> recorded[gone + i], seq |-> gone + i]
  BY <1>1, <1>2, <1>3
<1>6. {buffer[i] : i \in 1..Len(buffer)} = {[event |-> recorded[n], seq |-> n] : n \in gone + 1..seq}
  <2>1. ASSUME NEW x \in {buffer[i] : i \in 1..Len(buffer)}
        PROVE  x \in {[event |-> recorded[n], seq |-> n] : n \in gone + 1..seq}
    <3>1. PICK i \in 1..Len(buffer) : x = buffer[i]
      OBVIOUS
    <3> DEFINE n == gone + i
    <3>2. n \in gone + 1..seq /\ x = [event |-> recorded[n], seq |-> n]
      BY <1>5, <3>1
    <3> HIDE DEF n
    <3> QED  BY <3>2
  <2>2. ASSUME NEW x \in {[event |-> recorded[n], seq |-> n] : n \in gone + 1..seq}
        PROVE  x \in {buffer[i] : i \in 1..Len(buffer)}
    <3>1. PICK n \in gone + 1..seq : x = [event |-> recorded[n], seq |-> n]
      OBVIOUS
    <3> DEFINE i == n - gone
    <3>2. i \in 1..Len(buffer) /\ x = buffer[i]
      BY <1>4, <3>1
    <3> HIDE DEF i
    <3> QED  BY <3>2
  <2> QED  BY <2>1, <2>2
<1>7. buffer # <<>> => buffer[1].seq = gone + 1
  <2>1. SUFFICES ASSUME buffer # <<>> PROVE buffer[1].seq = gone + 1
    OBVIOUS
  <2>2. 1 \in 1..Len(buffer)
    BY <1>1, <2>1
  <2>3. buffer[1] = [event |-> recorded[gone + 1], seq |-> gone + 1]
    BY <1>2, <2>2
  <2> QED  BY <2>3
<1> QED  BY <1>1, <1>4, <1>6, <1>7 DEF gone

LEMMA TailReplays == TypedTail => ReplayIsExact /\ ResyncOnlyWhenLost
<1> SUFFICES ASSUME TypedTail PROVE ReplayIsExact /\ ResyncOnlyWhenLost
  OBVIOUS
<1> DEFINE gone == seq - Len(buffer)
           e(n) == [event |-> recorded[n], seq |-> n]
<1>0. /\ seq \in Nat /\ Len(buffer) \in 0..seq
      /\ {buffer[i] : i \in 1..Len(buffer)} = {e(n) : n \in gone + 1..seq}
      /\ buffer # <<>> => Len(buffer) > 0 /\ buffer[1].seq = gone + 1
      /\ buffer = <<>> => Len(buffer) = 0
  BY HistoryByNumber
<1>1. /\ seq \in Nat /\ gone \in Nat /\ gone <= seq
      /\ {buffer[i] : i \in 1..Len(buffer)} = {e(n) : n \in gone + 1..seq}
      /\ buffer # <<>> => buffer[1].seq = gone + 1 /\ gone < seq
      /\ buffer = <<>> => gone = seq
  <2>1. seq \in Nat /\ gone \in Nat /\ gone <= seq
    BY <1>0
  <2>2. buffer = <<>> => gone = seq
    BY <1>0
  <2>3. buffer # <<>> => buffer[1].seq = gone + 1 /\ gone < seq
    BY <1>0
  <2> QED  BY <1>0, <2>1, <2>2, <2>3
<1> HIDE DEF gone
<1>2. \A last \in Nat : CanReplay(buffer, seq, last) <=> gone <= last /\ last <= seq
  BY <1>1 DEF CanReplay
<1>3. ASSUME NEW last \in 0..seq + 1, NEW names \in SUBSET Wires, CanReplay(buffer, seq, last)
      PROVE  ReplayFrom(buffer, last, names) = MissedSince(last, names)
  <2>1. gone <= last /\ last <= seq
    BY <1>2, <1>3
  <2>2. ReplayFrom(buffer, last, names) =
          {x \in {e(n) : n \in gone + 1..seq} : x.seq > last /\ x.event \in names}
    BY <1>1 DEF ReplayFrom
  <2>3. MissedSince(last, names) = {e(n) : n \in {m \in last + 1..seq : recorded[m] \in names}}
    BY DEF MissedSince
  <2>4. ASSUME NEW x \in ReplayFrom(buffer, last, names)
        PROVE  x \in MissedSince(last, names)
    <3>1. PICK n \in gone + 1..seq : x = e(n)
      BY <2>2
    <3>2. n \in last + 1..seq /\ recorded[n] \in names
      BY <2>1, <2>2, <3>1, <1>1
    <3> QED  BY <3>1, <3>2, <2>3
  <2>5. ASSUME NEW x \in MissedSince(last, names)
        PROVE  x \in ReplayFrom(buffer, last, names)
    <3>1. PICK n \in {m \in last + 1..seq : recorded[m] \in names} : x = e(n)
      BY <2>3
    <3>2. n \in gone + 1..seq /\ n > last
      BY <2>1, <1>1, <3>1
    <3> QED  BY <3>1, <3>2, <2>2
  <2> QED  BY <2>4, <2>5
<1>4. ASSUME NEW last \in 0..seq + 1, ~CanReplay(buffer, seq, last), ~(last > seq)
      PROVE  \E n \in last + 1..seq : n \notin {buffer[i].seq : i \in 1..Len(buffer)}
  <2>1. last < gone /\ last + 1 \in last + 1..seq
    BY <1>1, <1>2, <1>4
  <2>2. ASSUME NEW i \in 1..Len(buffer) PROVE buffer[i].seq # last + 1
    <3>1. PICK n \in gone + 1..seq : buffer[i] = e(n)
      BY <1>1
    <3> QED  BY <3>1, <2>1, <1>1
  <2> QED  BY <2>1, <2>2
<1> QED  BY <1>3, <1>4 DEF ReplayIsExact, ResyncOnlyWhenLost

\* A client that is caught up is given exactly what it missed (replay_from), for every history
\* limit, every age limit and every choice of wires.
THEOREM ReplayCorrect == Spec => []ReplayIsExact
<1> QED  BY InitInv, NextInv, InvTail, TailReplays, PTL DEF Spec

\* A client is told to re-fetch only when an event it missed is gone, or was never numbered.
THEOREM ResyncCorrect == Spec => []ResyncOnlyWhenLost
<1> QED  BY InitInv, NextInv, InvTail, TailReplays, PTL DEF Spec

-----------------------------------------------------------------------------
\* Whether a resume point can be served is a question of how many events are gone.
ServedByNumber ==
  \A last \in Nat : CanReplay(buffer, seq, last) <=> seq - Len(buffer) <= last /\ last <= seq

LEMMA CanReplayByNumber == Inv => ServedByNumber
<1> SUFFICES ASSUME Inv, NEW last \in Nat
             PROVE  CanReplay(buffer, seq, last) <=> seq - Len(buffer) <= last /\ last <= seq
  BY DEF ServedByNumber
<1>1. /\ seq \in Nat /\ Len(buffer) \in 0..seq
      /\ buffer # <<>> => Len(buffer) > 0 /\ buffer[1].seq = seq - Len(buffer) + 1
      /\ buffer = <<>> => Len(buffer) = 0
  BY InvTail, HistoryByNumber
<1>2. CASE buffer = <<>>
  BY <1>1, <1>2 DEF CanReplay
<1>3. CASE buffer # <<>>
  BY <1>1, <1>3 DEF CanReplay
<1> QED  BY <1>2, <1>3

\* No step brings back an event that has left the history.
LEMMA GoneGrows ==
  ASSUME Inv, [Next]_vars
  PROVE  seq \in Nat /\ seq' \in Nat /\ seq <= seq' /\ seq - Len(buffer) <= seq' - Len(buffer')
<1>1. buffer \in Seq(Event) /\ seq \in Nat /\ Len(buffer) \in Nat
  BY LenProperties DEF Inv, TypeOK
<1>2. ASSUME NEW t \in Emitters, NEW w \in Wires, EmitStep(t, w)
      PROVE  seq' = seq + 1 /\ Len(buffer') <= Len(buffer) + 1 /\ Len(buffer') \in Nat
  <2> DEFINE e == [event |-> w, seq |-> seq + 1]
             b == Append(buffer, e)
  <2>1. seq' = seq + 1 /\ \E aged \in 0..Len(buffer) : buffer' = Prune(b, aged)
    BY <1>2 DEF EmitStep, Emit, Numbered
  <2>2. b \in Seq(Event) /\ Len(b) = Len(buffer) + 1
    BY <1>1, AppendProperties DEF Event
  <2> HIDE DEF b
  <2>3. PICK aged \in 0..Len(b) : buffer' = Prune(b, aged)
    BY <2>1, <2>2, <1>1
  <2>4. \E n \in aged..Len(b) : Len(Prune(b, aged)) = Len(b) - n
    BY <2>2, PruneDropsFront
  <2> QED  BY <2>1, <2>2, <2>3, <2>4, <1>1
<1>3. ASSUME ReplayStep
      PROVE  seq' = seq /\ Len(buffer') <= Len(buffer) /\ Len(buffer') \in Nat
  <2>1. seq' = seq /\ \E aged \in 0..Len(buffer) : buffer' = Prune(buffer, aged)
    BY <1>3 DEF ReplayStep, PruneForReplay
  <2>2. PICK aged \in 0..Len(buffer) : buffer' = Prune(buffer, aged)
    BY <2>1
  <2>3. \E n \in aged..Len(buffer) : Len(Prune(buffer, aged)) = Len(buffer) - n
    BY <1>1, PruneDropsFront
  <2> QED  BY <2>1, <2>2, <2>3, <1>1
<1>4. CASE UNCHANGED <<buffer, seq>>
  BY <1>1, <1>4
<1>5. \/ \E t \in Emitters, w \in Wires : EmitStep(t, w)
      \/ ReplayStep
      \/ UNCHANGED <<buffer, seq>>
  BY DEF Next, vars, logVars, CallStep, CallSubscriber, SubscribeStep, Subscribe,
         UnsubscribeStep, Unsubscribe, CloseStep, CloseLog
<1> QED  BY <1>1, <1>2, <1>3, <1>4, <1>5

\* A resume point the log has refused once stays refused (replay_from), so the handshake and a
\* later subscription cannot disagree in the client's favour.
THEOREM LostStaysLostCorrect == Spec => LostStaysLost
<1>1. ASSUME Inv, Inv', [Next]_vars
      PROVE  [\A last \in 0..seq : ~CanReplay(buffer, seq, last) => ~CanReplay(buffer', seq', last)]_vars
  <2>1. SUFFICES ASSUME NEW last \in 0..seq, ~CanReplay(buffer, seq, last)
                 PROVE  ~CanReplay(buffer', seq', last)
    OBVIOUS
  <2>2. /\ seq \in Nat /\ seq' \in Nat /\ seq <= seq'
        /\ seq - Len(buffer) <= seq' - Len(buffer')
        /\ Len(buffer) \in Nat
    BY <1>1, GoneGrows, LenProperties DEF Inv, TypeOK
  <2>3. last \in Nat /\ ~(seq - Len(buffer) <= last)
    BY <2>1, <2>2, <1>1, CanReplayByNumber DEF ServedByNumber
  <2>4. ServedByNumber'
    BY <1>1, CanReplayByNumber, PTL
  <2>5. Len(buffer') \in Nat
    BY <1>1, LenProperties DEF Inv, TypeOK
  <2> QED  BY <2>2, <2>3, <2>4, <2>5 DEF ServedByNumber
<1> QED  BY <1>1, InitInv, NextInv, PTL DEF Spec, LostStaysLost

-----------------------------------------------------------------------------
\* Delivery needs two more facts: nobody is owed an event that has no number yet, so a new call
\* cannot repeat an old one, and no two calls in flight carry the same event to one subscriber, so
\* running one of them does not leave the event in flight.
DeliveryInv ==
  /\ DeliveredOnce
  /\ \A s \in Subscribers : owed[s] \subseteq 1..seq
  /\ \A c, d \in calling : c.to = d.to /\ c.event.seq = d.event.seq => c = d

LEMMA DeliveryInit == Init => DeliveryInv
BY EmptySeq DEF Init, LogInit, DeliveryInv, DeliveredOnce, InFlight, RangeOf

\* The members of a sequence that grows by one.
LEMMA RangeOfAppend ==
  ASSUME NEW S, NEW q \in Seq(S), NEW x \in S
  PROVE  /\ RangeOf(Append(q, x)) = RangeOf(q) \cup {x}
         /\ x \notin RangeOf(q) /\ (\A i, j \in 1..Len(q) : q[i] = q[j] => i = j) =>
              \A i, j \in 1..Len(Append(q, x)) : Append(q, x)[i] = Append(q, x)[j] => i = j
<1> DEFINE r == Append(q, x)
<1>1. /\ r \in Seq(S) /\ Len(r) = Len(q) + 1 /\ Len(q) \in Nat
      /\ \A i \in 1..Len(r) : r[i] = IF i = Len(q) + 1 THEN x ELSE q[i]
      /\ DOMAIN r = 1..Len(r) /\ DOMAIN q = 1..Len(q)
  BY AppendProperties, LenProperties
<1> HIDE DEF r
<1>2. \A i \in 1..Len(q) : i \in 1..Len(r) /\ r[i] = q[i]
  BY <1>1
<1>3. Len(r) \in 1..Len(r) /\ r[Len(r)] = x
  BY <1>1
<1>4. \A i \in 1..Len(r) : i = Len(r) \/ i \in 1..Len(q)
  BY <1>1
<1>5. RangeOf(r) = RangeOf(q) \cup {x}
  BY <1>1, <1>2, <1>3, <1>4 DEF RangeOf
<1>6. ASSUME x \notin RangeOf(q), \A i, j \in 1..Len(q) : q[i] = q[j] => i = j
      PROVE  \A i, j \in 1..Len(r) : r[i] = r[j] => i = j
  <2>1. \A i \in 1..Len(q) : q[i] # x
    BY <1>1, <1>6 DEF RangeOf
  <2> QED  BY <1>2, <1>3, <1>4, <1>6, <2>1
<1> QED  BY <1>5, <1>6 DEF r

LEMMA DeliveryEmit ==
  ASSUME Inv, DeliveryInv, NEW t \in Emitters, NEW w \in Wires, EmitStep(t, w)
  PROVE  DeliveryInv'
<1> DEFINE e == [event |-> w, seq |-> seq + 1]
           taken == {[by |-> t, event |-> e, to |-> s] : s \in subscribers[w]}
<1>1. /\ seq' = seq + 1 /\ calling' = calling \cup taken /\ received' = received
      /\ owed' = [s \in Subscribers |->
                    owed[s] \cup (IF s \in subscribers[w] THEN {seq'} ELSE {})]
  BY DEF EmitStep, Emit, Numbered
<1>2. /\ seq \in Nat /\ calling \subseteq Call /\ subscribers[w] \subseteq Subscribers
      /\ owed \in [Subscribers -> SUBSET (Nat \ {0})]
  BY DEF Inv, TypeOK
<1>3. \A c \in taken : c.event.seq = seq + 1 /\ c.to \in subscribers[w]
  OBVIOUS
<1>4. \A c \in calling : c.to \in Subscribers /\ c.event.seq \in 1..seq
  <2>1. SUFFICES ASSUME NEW c \in calling PROVE c.to \in Subscribers /\ c.event.seq \in 1..seq
    OBVIOUS
  <2>2. c.to \in Subscribers
    BY <1>2 DEF Call
  <2>3. c.event.seq \in owed[c.to]
    BY <2>2 DEF DeliveryInv, DeliveredOnce, InFlight
  <2> QED  BY <2>2, <2>3 DEF DeliveryInv
<1>5. ASSUME NEW s \in Subscribers
      PROVE  InFlight(s)' = InFlight(s) \cup (IF s \in subscribers[w] THEN {seq + 1} ELSE {})
  <2>1. CASE s \in subscribers[w]
    <3>1. [by |-> t, event |-> e, to |-> s] \in taken
      BY <2>1
    <3> HIDE DEF taken
    <3>2. \A c \in taken : c.to = s => c.event.seq = seq + 1
      BY <1>3
    <3>3. \E c \in taken : c.to = s /\ c.event.seq = seq + 1
      BY <3>1
    <3> QED  BY <1>1, <2>1, <3>2, <3>3 DEF InFlight
  <2>2. CASE s \notin subscribers[w]
    <3> HIDE DEF taken
    <3> QED  BY <1>1, <1>3, <2>2 DEF InFlight
  <2> QED  BY <2>1, <2>2
<1>6. ASSUME NEW s \in Subscribers
      PROVE  /\ owed'[s] = RangeOf(received'[s]) \cup InFlight(s)'
             /\ RangeOf(received'[s]) \cap InFlight(s)' = {}
             /\ \A i, j \in 1..Len(received'[s]) : received'[s][i] = received'[s][j] => i = j
             /\ owed'[s] \subseteq 1..seq'
  <2>1. /\ owed[s] = RangeOf(received[s]) \cup InFlight(s)
        /\ RangeOf(received[s]) \cap InFlight(s) = {}
        /\ \A i, j \in 1..Len(received[s]) : received[s][i] = received[s][j] => i = j
        /\ owed[s] \subseteq 1..seq
    BY DEF DeliveryInv, DeliveredOnce
  <2>2. seq + 1 \notin owed[s] /\ 1..seq \subseteq 1..seq + 1 /\ seq + 1 \in 1..seq + 1
    BY <2>1, <1>2
  <2>3. owed'[s] = owed[s] \cup (IF s \in subscribers[w] THEN {seq + 1} ELSE {})
    BY <1>1
  <2>4. CASE s \in subscribers[w]
    <3>1. owed'[s] = owed[s] \cup {seq + 1} /\ InFlight(s)' = InFlight(s) \cup {seq + 1}
      BY <2>3, <2>4, <1>5
    <3> QED  BY <2>1, <2>2, <3>1, <1>1
  <2>5. CASE s \notin subscribers[w]
    <3>1. owed'[s] = owed[s] /\ InFlight(s)' = InFlight(s)
      BY <2>3, <2>5, <1>5
    <3> QED  BY <2>1, <2>2, <3>1, <1>1
  <2> QED  BY <2>4, <2>5
<1>7. ASSUME NEW c \in calling', NEW d \in calling', c.to = d.to, c.event.seq = d.event.seq
      PROVE  c = d
  <2>1. CASE c \in calling /\ d \in calling
    BY <2>1, <1>7 DEF DeliveryInv
  <2>2. CASE c \in taken /\ d \in taken
    BY <2>2, <1>7
  <2>3. CASE (c \in calling /\ d \in taken) \/ (c \in taken /\ d \in calling)
    <3> HIDE DEF taken
    <3> QED  BY <2>3, <1>2, <1>3, <1>4, <1>7
  <2> QED  BY <1>1, <2>1, <2>2, <2>3
<1>8. DeliveredOnce'
  BY <1>6 DEF DeliveredOnce
<1> QED  BY <1>6, <1>7, <1>8 DEF DeliveryInv

LEMMA DeliveryCall ==
  ASSUME Inv, DeliveryInv, NEW c \in calling, CallStep(c)
  PROVE  DeliveryInv'
<1> DEFINE x == c.event.seq
<1>1. /\ calling' = calling \ {c}
      /\ received' = [received EXCEPT ![c.to] = Append(@, x)]
      /\ seq' = seq /\ owed' = owed
  BY DEF CallStep, CallSubscriber
<1>2. /\ c.to \in Subscribers /\ x \in Nat \ {0}
      /\ received \in [Subscribers -> Seq(Nat \ {0})]
  BY DEF Inv, TypeOK, Call, Event
<1>3. x \in InFlight(c.to)
  BY DEF InFlight
<1>4. InFlight(c.to)' = InFlight(c.to) \ {x}
  BY <1>1 DEF InFlight, DeliveryInv
<1>5. \A s \in Subscribers \ {c.to} : InFlight(s)' = InFlight(s) /\ received'[s] = received[s]
  BY <1>1, <1>2 DEF InFlight
<1>6. received'[c.to] = Append(received[c.to], x)
  BY <1>1, <1>2
<1> HIDE DEF x
<1>7. /\ x \notin RangeOf(received[c.to])
      /\ owed[c.to] = RangeOf(received[c.to]) \cup InFlight(c.to)
      /\ RangeOf(received[c.to]) \cap InFlight(c.to) = {}
      /\ \A i, j \in 1..Len(received[c.to]) : received[c.to][i] = received[c.to][j] => i = j
  BY <1>2, <1>3 DEF DeliveryInv, DeliveredOnce
<1>8. /\ RangeOf(received'[c.to]) = RangeOf(received[c.to]) \cup {x}
      /\ \A i, j \in 1..Len(received'[c.to]) : received'[c.to][i] = received'[c.to][j] => i = j
  <2> DEFINE q == received[c.to]
  <2>1. q \in Seq(Nat \ {0})
    BY <1>2
  <2> HIDE DEF q
  <2>2. /\ RangeOf(Append(q, x)) = RangeOf(q) \cup {x}
        /\ x \notin RangeOf(q) /\ (\A i, j \in 1..Len(q) : q[i] = q[j] => i = j) =>
             \A i, j \in 1..Len(Append(q, x)) : Append(q, x)[i] = Append(q, x)[j] => i = j
    BY <2>1, <1>2, RangeOfAppend
  <2> QED  BY <2>2, <1>6, <1>7 DEF q
<1>9. ASSUME NEW s \in Subscribers
      PROVE  /\ owed'[s] = RangeOf(received'[s]) \cup InFlight(s)'
             /\ RangeOf(received'[s]) \cap InFlight(s)' = {}
             /\ \A i, j \in 1..Len(received'[s]) : received'[s][i] = received'[s][j] => i = j
             /\ owed'[s] \subseteq 1..seq'
  <2>1. CASE s = c.to
    BY <2>1, <1>1, <1>3, <1>4, <1>7, <1>8 DEF DeliveryInv
  <2>2. CASE s # c.to
    BY <2>2, <1>1, <1>5 DEF DeliveryInv, DeliveredOnce
  <2> QED  BY <2>1, <2>2
<1>10. \A d, f \in calling' : d.to = f.to /\ d.event.seq = f.event.seq => d = f
  BY <1>1 DEF DeliveryInv
<1>11. DeliveredOnce'
  BY <1>9 DEF DeliveredOnce
<1> QED  BY <1>9, <1>10, <1>11 DEF DeliveryInv

LEMMA DeliveryNext == Inv /\ DeliveryInv /\ [Next]_vars => DeliveryInv'
<1> SUFFICES ASSUME Inv, DeliveryInv, [Next]_vars PROVE DeliveryInv'
  OBVIOUS
<1>1. CASE \E t \in Emitters, w \in Wires : EmitStep(t, w)
  BY <1>1, DeliveryEmit
<1>2. CASE \E c \in calling : CallStep(c)
  BY <1>2, DeliveryCall
<1>3. CASE UNCHANGED <<seq, calling, owed, received>>
  BY <1>3 DEF DeliveryInv, DeliveredOnce, InFlight
<1>4. \/ \E t \in Emitters, w \in Wires : EmitStep(t, w)
      \/ \E c \in calling : CallStep(c)
      \/ UNCHANGED <<seq, calling, owed, received>>
  BY DEF Next, vars, logVars, ReplayStep, PruneForReplay, SubscribeStep, Subscribe,
         UnsubscribeStep, Unsubscribe, CloseStep, CloseLog
<1> QED  BY <1>1, <1>2, <1>3, <1>4

\* Every event reaches every subscriber that was attached when it was numbered exactly once, though
\* the callbacks run outside the lock and detach and close may come first (the listener of
\* EventLog::new).
THEOREM DeliveryCorrect == Spec => []DeliveredOnce
<1>1. DeliveryInv => DeliveredOnce
  BY DEF DeliveryInv
<1> QED  BY InitInv, NextInv, DeliveryInit, DeliveryNext, <1>1, PTL DEF Spec

=============================================================================
