---------------------- MODULE EngineConnectionProofs ----------------------
(***************************************************************************)
(* Proofs about EngineConnection, for any number of calls, subscriptions   *)
(* and events.                                                             *)
(*                                                                         *)
(* FeedIsWhole is not inductive.  A subscription in the list has not been  *)
(* told of the end, and the events on the wire are those that follow the   *)
(* last one it was sent, in order (WireInOrder, RestIsComing).             *)
(***************************************************************************)
EXTENDS EngineConnection, SequenceTheorems, TLAPS

LastOf(s) == inbox[s][Len(inbox[s])]

\* A subscription whose sender is not in the list yet was sent nothing.
NotYetPushed ==
  \A s \in Subs : pc[s] \in {"new", "admitted"} => inbox[s] = <<>> /\ s \notin subscribers

\* A subscription that was added and is still held is in the list or has been told of the end.
PushedIsAttached ==
  \A s \in Subs :
    pc[s] \notin {"new", "admitted"} /\ Alive(s) => s \in subscribers \/ IsTold(s)

ToldHasLeft == \A s \in subscribers : ~IsTold(s)

\* The frames from position i on carry event n.
Carries(i, n) == \E j \in i..Len(wire) : IsEvent(wire[j]) /\ wire[j].event = n

\* Every event on the wire is followed by all the later ones, in their order.
WireInOrder ==
  \A i \in 1..Len(wire) : IsEvent(wire[i]) =>
    /\ wire[i].event <= emitted
    /\ \A n \in wire[i].event + 1..emitted : Carries(i + 1, n)
    /\ \A j \in i + 1..Len(wire) : IsEvent(wire[j]) => wire[i].event < wire[j].event

\* The events on the wire are those after the last one a subscription of the list was sent.
RestIsComing ==
  \A s \in subscribers : inbox[s] # <<>> =>
    /\ LastOf(s) <= emitted
    /\ \A n \in LastOf(s) + 1..emitted : Carries(1, n)
    /\ \A j \in 1..Len(wire) : IsEvent(wire[j]) => LastOf(s) < wire[j].event

FeedInv == ToldHasLeft /\ FeedIsWhole /\ WireInOrder /\ RestIsComing

Inv == TypeOK /\ WaitingIsPending /\ NotYetPushed /\ PushedIsAttached /\ FeedInv

-----------------------------------------------------------------------------
(* Frames and sequences. *)

LEMMA FrameKinds ==
  ASSUME NEW f \in Frame
  PROVE  /\ IsEvent(f) => f.event \in 1..MaxEvents
         /\ ~IsEvent(f) => f.to \in Calls /\ f.answer \in Answers
<1>1. CASE f \in [to : Calls, answer : Answers]
  BY <1>1 DEF IsEvent
<1>2. CASE f \in [event : 1..MaxEvents]
  BY <1>2 DEF IsEvent
<1> QED
  BY <1>1, <1>2 DEF Frame

LEMMA NewFrames ==
  /\ \A n \in 1..MaxEvents : Event(n) \in Frame /\ IsEvent(Event(n)) /\ Event(n).event = n
  /\ \A c \in Calls, answer \in Answers : Response(c, answer) \in Frame /\ ~IsEvent(Response(c, answer))
BY DEF Event, Response, Frame, IsEvent

\* What Append does to a sequence, position by position.
LEMMA Appended ==
  ASSUME NEW S, NEW q \in Seq(S), NEW x \in S
  PROVE  /\ Append(q, x) \in Seq(S) /\ Append(q, x) # <<>>
         /\ Len(q) \in Nat /\ Len(Append(q, x)) = Len(q) + 1
         /\ Append(q, x)[Len(q) + 1] = x
         /\ \A k \in 1..Len(q) : Append(q, x)[k] = q[k]
BY AppendProperties, LenProperties

\* What Tail does to a sequence, position by position.
LEMMA Tailed ==
  ASSUME NEW S, NEW q \in Seq(S), q # <<>>
  PROVE  /\ Tail(q) \in Seq(S) /\ Head(q) = q[1] /\ Head(q) \in S
         /\ Len(q) \in Nat \ {0} /\ Len(Tail(q)) = Len(q) - 1
         /\ \A k \in 1..Len(q) - 1 : Tail(q)[k] = q[k + 1]
BY HeadTailProperties, LenProperties, EmptySeq, ElementOfSeq

\* The last item of an inbox.
LEMMA LastItem ==
  ASSUME TypeOK, NEW s \in Subs, inbox[s] # <<>>
  PROVE  Len(inbox[s]) \in Nat \ {0} /\ LastOf(s) \in 0..MaxEvents
<1>1. inbox[s] \in Seq(0..MaxEvents)
  BY DEF TypeOK
<1>2. Len(inbox[s]) \in Nat \ {0}
  BY <1>1, EmptySeq, LenProperties
<1>3. Len(inbox[s]) \in 1..Len(inbox[s])
  BY <1>2
<1>4. inbox[s][Len(inbox[s])] \in 0..MaxEvents
  BY <1>1, <1>3, ElementOfSeq
<1> QED
  BY <1>2, <1>4 DEF LastOf

\* What Told does to the inboxes.
LEMMA ToldItem ==
  ASSUME TypeOK, NEW subs, NEW item \in 0..MaxEvents, inbox' = Told(subs, item)
  PROVE  /\ inbox' \in [Subs -> Seq(0..MaxEvents)]
         /\ \A s \in Subs : ~(s \in subs /\ Alive(s)) => inbox'[s] = inbox[s]
         /\ \A s \in Subs : s \in subs /\ Alive(s) =>
              /\ inbox'[s] # <<>> /\ Len(inbox[s]) \in Nat /\ Len(inbox'[s]) = Len(inbox[s]) + 1
              /\ inbox'[s][Len(inbox[s]) + 1] = item
              /\ \A k \in 1..Len(inbox[s]) : inbox'[s][k] = inbox[s][k]
<1>1. \A s \in Subs : inbox[s] \in Seq(0..MaxEvents)
  BY DEF TypeOK
<1>2. \A s \in Subs : inbox'[s] = IF s \in subs /\ Alive(s) THEN Append(inbox[s], item) ELSE inbox[s]
  BY DEF Told
<1>3. \A s \in Subs : inbox'[s] \in Seq(0..MaxEvents)
  BY <1>1, <1>2, Appended
<1>4. inbox' = [s \in Subs |-> IF s \in subs /\ Alive(s) THEN Append(inbox[s], item) ELSE inbox[s]]
  BY DEF Told
<1>5. inbox' \in [Subs -> Seq(0..MaxEvents)]
  BY <1>3, <1>4
<1> QED
  BY <1>1, <1>2, <1>5, Appended

-----------------------------------------------------------------------------
(* The feed: inboxes and the wire. *)

\* Steps of callers leave the feed alone.
LEMMA FeedSame ==
  ASSUME FeedInv, subscribers' \subseteq subscribers, UNCHANGED <<inbox, wire, emitted>>
  PROVE  FeedInv'
<1>1. ToldHasLeft'
  BY DEF FeedInv, ToldHasLeft, IsTold
<1>2. FeedIsWhole'
  BY DEF FeedInv, FeedIsWhole
<1>3. WireInOrder'
  BY DEF FeedInv, WireInOrder, Carries
<1>4. RestIsComing'
  BY DEF FeedInv, RestIsComing, Carries, LastOf
<1> QED
  BY <1>1, <1>2, <1>3, <1>4 DEF FeedInv

\* A frame that is no event changes nothing for the subscriptions.
LEMMA FeedAnswered ==
  ASSUME TypeOK, FeedInv, NEW f \in Frame, ~IsEvent(f), wire' = Append(wire, f),
         UNCHANGED <<subscribers, inbox, emitted>>
  PROVE  FeedInv'
<1>1. /\ Len(wire) \in Nat /\ Len(wire') = Len(wire) + 1 /\ wire'[Len(wire) + 1] = f
      /\ \A k \in 1..Len(wire) : wire'[k] = wire[k]
  BY Appended DEF TypeOK
<1>2. \A i \in Nat \ {0}, n \in Nat : Carries(i, n) => Carries(i, n)'
  BY <1>1 DEF Carries
<1>3. \A i \in 1..Len(wire') : IsEvent(wire'[i]) => i \in 1..Len(wire)
  BY <1>1
<1>4. WireInOrder'
  <2> SUFFICES ASSUME NEW i \in 1..Len(wire), IsEvent(wire[i])
               PROVE  /\ wire[i].event <= emitted
                      /\ \A n \in wire[i].event + 1..emitted : Carries(i + 1, n)'
                      /\ \A j \in i + 1..Len(wire') : IsEvent(wire'[j]) => wire[i].event < wire'[j].event
    BY <1>1, <1>3 DEF WireInOrder
  <2>1. wire[i].event \in Nat
    BY FrameKinds DEF TypeOK
  <2>2. wire[i].event <= emitted
    BY DEF FeedInv, WireInOrder
  <2>3. \A n \in wire[i].event + 1..emitted : Carries(i + 1, n)'
    BY <1>2, <2>1 DEF FeedInv, WireInOrder, TypeOK
  <2>4. \A j \in i + 1..Len(wire') : IsEvent(wire'[j]) => wire[i].event < wire'[j].event
    BY <1>1, <1>3 DEF FeedInv, WireInOrder
  <2> QED
    BY <2>2, <2>3, <2>4
<1>5. RestIsComing'
  <2> SUFFICES ASSUME NEW s \in subscribers, inbox[s] # <<>>
               PROVE  /\ LastOf(s) <= emitted
                      /\ \A n \in LastOf(s) + 1..emitted : Carries(1, n)'
                      /\ \A j \in 1..Len(wire') : IsEvent(wire'[j]) => LastOf(s) < wire'[j].event
    BY DEF RestIsComing, LastOf
  <2>1. LastOf(s) \in Nat
    BY LastItem, ConnectionAssumption DEF TypeOK
  <2> QED
    BY <1>1, <1>2, <1>3, <2>1 DEF FeedInv, RestIsComing, TypeOK
<1> QED
  BY <1>4, <1>5 DEF FeedInv, ToldHasLeft, IsTold, FeedIsWhole

\* A new event goes to the end of the wire with the next number.
LEMMA FeedEmitted ==
  ASSUME TypeOK, FeedInv, emitted < MaxEvents, emitted' = emitted + 1,
         wire' = Append(wire, Event(emitted')), UNCHANGED <<subscribers, inbox>>
  PROVE  FeedInv'
<1> DEFINE e == Event(emitted')
<1>1. emitted \in Nat /\ emitted' \in 1..MaxEvents /\ e \in Frame /\ IsEvent(e) /\ e.event = emitted'
  BY NewFrames, ConnectionAssumption DEF TypeOK
<1>2. /\ Len(wire) \in Nat /\ Len(wire') = Len(wire) + 1 /\ wire'[Len(wire) + 1] = e
      /\ \A k \in 1..Len(wire) : wire'[k] = wire[k]
  BY <1>1, Appended DEF TypeOK
<1> HIDE DEF e
<1>3. \A i \in Nat \ {0}, n \in Nat : Carries(i, n) => Carries(i, n)'
  BY <1>2 DEF Carries
<1>4. \A i \in 1..Len(wire) + 1, n \in Nat : n = emitted' => Carries(i, n)'
  BY <1>1, <1>2 DEF Carries
<1>5. WireInOrder'
  <2> SUFFICES ASSUME NEW i \in 1..Len(wire'), IsEvent(wire'[i])
               PROVE  /\ wire'[i].event <= emitted'
                      /\ \A n \in wire'[i].event + 1..emitted' : Carries(i + 1, n)'
                      /\ \A j \in i + 1..Len(wire') : IsEvent(wire'[j]) => wire'[i].event < wire'[j].event
    BY DEF WireInOrder
  <2>1. CASE i = Len(wire) + 1
    BY <1>1, <1>2, <2>1
  <2>2. CASE i \in 1..Len(wire)
    <3>1. wire'[i] = wire[i] /\ wire[i].event \in Nat /\ IsEvent(wire[i])
      BY <1>2, <2>2, FrameKinds DEF TypeOK
    <3>2. wire[i].event <= emitted
      BY <2>2, <3>1 DEF FeedInv, WireInOrder
    <3>3. \A n \in wire[i].event + 1..emitted' : Carries(i + 1, n)'
      <4> SUFFICES ASSUME NEW n \in wire[i].event + 1..emitted' PROVE Carries(i + 1, n)'
        OBVIOUS
      <4>1. CASE n = emitted'
        BY <1>1, <1>2, <1>4, <2>2, <4>1
      <4>2. CASE n \in wire[i].event + 1..emitted
        BY <1>3, <2>2, <3>1, <4>2 DEF FeedInv, WireInOrder
      <4> QED
        BY <1>1, <3>1, <4>1, <4>2
    <3>4. \A j \in i + 1..Len(wire') : IsEvent(wire'[j]) => wire[i].event < wire'[j].event
      BY <1>1, <1>2, <2>2, <3>1, <3>2 DEF FeedInv, WireInOrder
    <3>5. wire[i].event <= emitted'
      BY <1>1, <3>1, <3>2
    <3> QED
      BY <3>1, <3>3, <3>4, <3>5, SMTT(30)
  <2> QED
    BY <1>2, <2>1, <2>2
<1>6. RestIsComing'
  <2> SUFFICES ASSUME NEW s \in subscribers, inbox[s] # <<>>
               PROVE  /\ LastOf(s) <= emitted'
                      /\ \A n \in LastOf(s) + 1..emitted' : Carries(1, n)'
                      /\ \A j \in 1..Len(wire') : IsEvent(wire'[j]) => LastOf(s) < wire'[j].event
    BY DEF RestIsComing, LastOf
  <2>1. LastOf(s) \in Nat
    BY LastItem, ConnectionAssumption DEF TypeOK
  <2>2. LastOf(s) <= emitted
    BY DEF FeedInv, RestIsComing
  <2>3. \A n \in LastOf(s) + 1..emitted' : Carries(1, n)'
    <3> SUFFICES ASSUME NEW n \in LastOf(s) + 1..emitted' PROVE Carries(1, n)'
      OBVIOUS
    <3>1. CASE n = emitted'
      BY <1>1, <1>2, <1>4, <3>1
    <3>2. CASE n \in LastOf(s) + 1..emitted
      BY <1>3, <2>1, <3>2 DEF FeedInv, RestIsComing
    <3> QED
      BY <1>1, <2>1, <3>1, <3>2
  <2>4. \A j \in 1..Len(wire') : IsEvent(wire'[j]) => LastOf(s) < wire'[j].event
    BY <1>1, <1>2, <2>1, <2>2 DEF FeedInv, RestIsComing
  <2> QED
    BY <1>1, <2>1, <2>2, <2>3, <2>4
<1> QED
  BY <1>5, <1>6 DEF FeedInv, ToldHasLeft, IsTold, FeedIsWhole

\* Taking the head off the wire keeps the order of the rest.
LEMMA WireTail ==
  ASSUME TypeOK, WireInOrder, wire # <<>>, wire' = Tail(wire), UNCHANGED emitted
  PROVE  /\ WireInOrder'
         /\ \A i \in Nat \ {0}, n \in Nat : Carries(i + 1, n) => Carries(i, n)'
<1>1. /\ Len(wire) \in Nat \ {0} /\ Len(wire') = Len(wire) - 1
      /\ \A k \in 1..Len(wire') : wire'[k] = wire[k + 1]
  BY Tailed DEF TypeOK
<1>2. \A i \in Nat \ {0}, n \in Nat : Carries(i + 1, n) => Carries(i, n)'
  <2> SUFFICES ASSUME NEW i \in Nat \ {0}, NEW n \in Nat, Carries(i + 1, n)
               PROVE  Carries(i, n)'
    OBVIOUS
  <2>1. PICK j \in i + 1..Len(wire) : IsEvent(wire[j]) /\ wire[j].event = n
    BY DEF Carries
  <2>2. j - 1 \in i..Len(wire') /\ wire'[j - 1] = wire[j]
    BY <1>1, <2>1
  <2> QED
    BY <2>1, <2>2 DEF Carries
<1>3. WireInOrder'
  <2> SUFFICES ASSUME NEW i \in 1..Len(wire'), IsEvent(wire'[i])
               PROVE  /\ wire'[i].event <= emitted
                      /\ \A n \in wire'[i].event + 1..emitted : Carries(i + 1, n)'
                      /\ \A j \in i + 1..Len(wire') : IsEvent(wire'[j]) => wire'[i].event < wire'[j].event
    BY DEF WireInOrder
  <2>1. i + 1 \in 1..Len(wire) /\ wire'[i] = wire[i + 1] /\ wire[i + 1] \in Frame
    BY <1>1 DEF TypeOK
  <2>2. wire[i + 1].event \in Nat
    BY <2>1, FrameKinds
  <2>3. wire[i + 1].event <= emitted /\ \A n \in wire[i + 1].event + 1..emitted : Carries(i + 2, n)
    BY <2>1 DEF WireInOrder
  <2>4. \A n \in wire[i + 1].event + 1..emitted : Carries(i + 1, n)'
    BY <1>2, <2>2, <2>3
  <2>5. \A j \in i + 1..Len(wire') : IsEvent(wire'[j]) => wire[i + 1].event < wire'[j].event
    BY <1>1, <2>1 DEF WireInOrder
  <2> QED
    BY <2>1, <2>3, <2>4, <2>5
<1> QED
  BY <1>2, <1>3

\* Reading a response leaves the events on the wire.
LEMMA FeedResponseRead ==
  ASSUME TypeOK, FeedInv, wire # <<>>, ~IsEvent(Head(wire)), wire' = Tail(wire),
         UNCHANGED <<subscribers, inbox, emitted>>
  PROVE  FeedInv'
<1>1. /\ Len(wire) \in Nat \ {0} /\ Len(wire') = Len(wire) - 1 /\ Head(wire) = wire[1]
      /\ \A k \in 1..Len(wire') : wire'[k] = wire[k + 1]
  BY Tailed DEF TypeOK
<1>2. WireInOrder' /\ \A n \in Nat : Carries(1 + 1, n) => Carries(1, n)'
  BY WireTail DEF FeedInv
<1>3. \A n \in Nat : Carries(1, n) => Carries(1 + 1, n)
  BY <1>1 DEF Carries
<1>4. RestIsComing'
  <2> SUFFICES ASSUME NEW s \in subscribers, inbox[s] # <<>>
               PROVE  /\ LastOf(s) <= emitted
                      /\ \A n \in LastOf(s) + 1..emitted : Carries(1, n)'
                      /\ \A j \in 1..Len(wire') : IsEvent(wire'[j]) => LastOf(s) < wire'[j].event
    BY DEF RestIsComing, LastOf
  <2>1. LastOf(s) \in Nat
    BY LastItem, ConnectionAssumption DEF TypeOK
  <2>2. LastOf(s) <= emitted /\ \A n \in LastOf(s) + 1..emitted : Carries(1, n)
    BY DEF FeedInv, RestIsComing
  <2>3. \A n \in LastOf(s) + 1..emitted : Carries(1, n)'
    BY <1>2, <1>3, <2>1, <2>2
  <2>4. \A j \in 1..Len(wire') : IsEvent(wire'[j]) => LastOf(s) < wire'[j].event
    BY <1>1 DEF FeedInv, RestIsComing
  <2> QED
    BY <2>2, <2>3, <2>4
<1> QED
  BY <1>2, <1>4 DEF FeedInv, ToldHasLeft, IsTold, FeedIsWhole

\* Reading an event sends it to the list: it is the next one for each of them.
LEMMA FeedEventRead ==
  ASSUME TypeOK, FeedInv, wire # <<>>, IsEvent(Head(wire)), wire' = Tail(wire),
         inbox' = Told(subscribers, Head(wire).event),
         subscribers' = {s \in subscribers : Alive(s)}, UNCHANGED emitted
  PROVE  FeedInv'
<1> DEFINE h == Head(wire).event
<1>1. /\ Len(wire) \in Nat \ {0} /\ Len(wire') = Len(wire) - 1 /\ Head(wire) = wire[1]
      /\ \A k \in 1..Len(wire') : wire'[k] = wire[k + 1]
      /\ Head(wire) \in Frame
  BY Tailed DEF TypeOK
<1>2. h \in 1..MaxEvents /\ h # TheEnd /\ emitted \in Nat
  BY <1>1, FrameKinds, ConnectionAssumption DEF TypeOK, TheEnd
<1>3. /\ h <= emitted
      /\ \A n \in h + 1..emitted : Carries(1 + 1, n)
      /\ \A j \in 1 + 1..Len(wire) : IsEvent(wire[j]) => h < wire[j].event
  BY <1>1 DEF FeedInv, WireInOrder
<1>4. /\ \A s \in Subs : ~(s \in subscribers /\ Alive(s)) => inbox'[s] = inbox[s]
      /\ \A s \in Subs : s \in subscribers /\ Alive(s) =>
           /\ inbox'[s] # <<>> /\ Len(inbox[s]) \in Nat /\ Len(inbox'[s]) = Len(inbox[s]) + 1
           /\ inbox'[s][Len(inbox[s]) + 1] = h
           /\ \A k \in 1..Len(inbox[s]) : inbox'[s][k] = inbox[s][k]
  BY <1>2, ToldItem, ConnectionAssumption
<1>5. WireInOrder' /\ \A n \in Nat : Carries(1 + 1, n) => Carries(1, n)'
  BY WireTail DEF FeedInv
<1>6. \A s \in subscribers : inbox[s] # <<>> => LastOf(s) + 1 = h /\ LastOf(s) # TheEnd
  <2> SUFFICES ASSUME NEW s \in subscribers, inbox[s] # <<>>
               PROVE  LastOf(s) + 1 = h /\ LastOf(s) # TheEnd
    OBVIOUS
  <2>1. LastOf(s) \in Nat /\ LastOf(s) # TheEnd
    BY LastItem, ConnectionAssumption DEF TypeOK, FeedInv, ToldHasLeft, IsTold, LastOf
  <2>2. LastOf(s) < h /\ \A n \in LastOf(s) + 1..emitted : Carries(1, n)
    BY <1>1 DEF FeedInv, RestIsComing
  <2>3. Carries(1, LastOf(s) + 1)
    BY <1>2, <1>3, <2>1, <2>2
  <2>4. PICK j \in 1..Len(wire) : IsEvent(wire[j]) /\ wire[j].event = LastOf(s) + 1
    BY <2>3 DEF Carries
  <2>5. j = 1 \/ h < LastOf(s) + 1
    BY <1>1, <1>3, <2>4
  <2> QED
    BY <1>1, <1>2, <2>1, <2>2, <2>4, <2>5
<1> HIDE DEF h
<1>7. ToldHasLeft'
  BY <1>2, <1>4 DEF ToldHasLeft, IsTold, TypeOK, FeedInv
<1>8. FeedIsWhole'
  <2> SUFFICES ASSUME NEW s \in Subs, NEW k \in 1..Len(inbox'[s]) - 1
               PROVE  inbox'[s][k] # TheEnd /\ inbox'[s][k + 1] \in {inbox'[s][k] + 1, TheEnd}
    BY DEF FeedIsWhole
  <2>1. CASE ~(s \in subscribers /\ Alive(s))
    BY <1>4, <2>1 DEF FeedInv, FeedIsWhole
  <2>2. CASE s \in subscribers /\ Alive(s) /\ k \in 1..Len(inbox[s]) - 1
    <3>1. inbox'[s][k] = inbox[s][k] /\ inbox'[s][k + 1] = inbox[s][k + 1]
      BY <1>4, <2>2
    <3> QED
      BY <2>2, <3>1 DEF FeedInv, FeedIsWhole
  <2>3. CASE s \in subscribers /\ Alive(s) /\ k = Len(inbox[s])
    <3>1. inbox[s] # <<>>
      BY <2>3, EmptySeq
    <3> QED
      BY <1>4, <1>6, <2>3, <3>1 DEF LastOf
  <2> QED
    BY <1>4, <2>1, <2>2, <2>3
<1>9. RestIsComing'
  <2> SUFFICES ASSUME NEW s \in subscribers, Alive(s)
               PROVE  /\ LastOf(s)' <= emitted
                      /\ \A n \in LastOf(s)' + 1..emitted : Carries(1, n)'
                      /\ \A j \in 1..Len(wire') : IsEvent(wire'[j]) => LastOf(s)' < wire'[j].event
    BY DEF RestIsComing
  <2>1. LastOf(s)' = h
    BY <1>4 DEF LastOf, TypeOK
  <2>2. \A n \in h + 1..emitted : Carries(1, n)'
    BY <1>2, <1>3, <1>5 DEF h
  <2>3. \A j \in 1..Len(wire') : IsEvent(wire'[j]) => h < wire'[j].event
    BY <1>1, <1>3 DEF h
  <2> QED
    BY <1>3, <2>1, <2>2, <2>3 DEF h
<1> QED
  BY <1>5, <1>7, <1>8, <1>9 DEF FeedInv

\* The end is the last item of every feed: who hears it leaves the list.
LEMMA FeedEnds ==
  ASSUME TypeOK, FeedInv, inbox' = Told(subscribers, TheEnd), subscribers' = {}, UNCHANGED <<wire, emitted>>
  PROVE  FeedInv'
<1>1. TheEnd \in 0..MaxEvents
  BY ConnectionAssumption DEF TheEnd
<1>2. /\ \A s \in Subs : ~(s \in subscribers /\ Alive(s)) => inbox'[s] = inbox[s]
      /\ \A s \in Subs : s \in subscribers /\ Alive(s) =>
           /\ inbox'[s] # <<>> /\ Len(inbox[s]) \in Nat /\ Len(inbox'[s]) = Len(inbox[s]) + 1
           /\ inbox'[s][Len(inbox[s]) + 1] = TheEnd
           /\ \A k \in 1..Len(inbox[s]) : inbox'[s][k] = inbox[s][k]
  BY <1>1, ToldItem
<1>3. FeedIsWhole'
  <2> SUFFICES ASSUME NEW s \in Subs, NEW k \in 1..Len(inbox'[s]) - 1
               PROVE  inbox'[s][k] # TheEnd /\ inbox'[s][k + 1] \in {inbox'[s][k] + 1, TheEnd}
    BY DEF FeedIsWhole
  <2>1. CASE ~(s \in subscribers /\ Alive(s))
    BY <1>2, <2>1 DEF FeedInv, FeedIsWhole
  <2>2. CASE s \in subscribers /\ Alive(s) /\ k \in 1..Len(inbox[s]) - 1
    BY <1>2, <2>2 DEF FeedInv, FeedIsWhole
  <2>3. CASE s \in subscribers /\ Alive(s) /\ k = Len(inbox[s])
    <3>1. inbox[s] # <<>>
      BY <2>3, EmptySeq
    <3> QED
      BY <1>2, <2>3, <3>1 DEF FeedInv, ToldHasLeft, IsTold
  <2> QED
    BY <1>2, <2>1, <2>2, <2>3
<1>4. WireInOrder'
  BY DEF FeedInv, WireInOrder, Carries
<1>5. ToldHasLeft' /\ RestIsComing'
  BY DEF ToldHasLeft, RestIsComing
<1> QED
  BY <1>3, <1>4, <1>5 DEF FeedInv

\* A subscription joins the list with an empty inbox.
LEMMA FeedJoined ==
  ASSUME FeedInv, NEW s \in Subs, inbox[s] = <<>>, subscribers' = subscribers \cup {s},
         UNCHANGED <<inbox, wire, emitted>>
  PROVE  FeedInv'
<1>1. ToldHasLeft'
  BY DEF FeedInv, ToldHasLeft, IsTold
<1>2. FeedIsWhole'
  BY DEF FeedInv, FeedIsWhole
<1>3. WireInOrder'
  BY DEF FeedInv, WireInOrder, Carries
<1>4. RestIsComing'
  BY DEF FeedInv, RestIsComing, Carries, LastOf
<1> QED
  BY <1>1, <1>2, <1>3, <1>4 DEF FeedInv

-----------------------------------------------------------------------------
(* Each action preserves Inv. *)

\* Inv from its parts, for a step whose effect on the feed is known.
LEMMA Parts ==
  ASSUME TypeOK', WaitingIsPending', NotYetPushed', PushedIsAttached', FeedInv'
  PROVE  Inv'
BY DEF Inv

\* A step of a caller that moves it to a later place, without touching the feed or the channels.
LEMMA CallerMoves ==
  ASSUME Inv, NEW c \in Calls, NEW label,
         pc' = [pc EXCEPT ![c] = label],
         label \in {"admitted", "ready", "open", "inserted", "waiting", "unwritten", "removed", "failing"}
                     \cup Over,
         label \in {"inserted", "waiting"} /\ slot[c] = "nothing" => c \in pending',
         c \in Subs /\ pc[c] = "new" => label \in {"refused", "admitted"},
         c \in Subs => pc[c] # "admitted",
         pc[c] \notin {"new"} => label # "admitted",
         pc[c] \in Over \ {"ok"} => label \in Over \ {"ok"},
         UNCHANGED <<slot, subscribers, inbox>>,
         \A d \in Calls \ {c} : d \in pending => d \in pending'
  PROVE  WaitingIsPending' /\ NotYetPushed' /\ PushedIsAttached'
<1>1. \A d \in Calls : pc'[d] = IF d = c THEN label ELSE pc[d]
  BY DEF Inv, TypeOK
<1>2. WaitingIsPending'
  BY <1>1 DEF Inv, WaitingIsPending, Over
<1>3. NotYetPushed'
  BY <1>1, ConnectionAssumption DEF Inv, NotYetPushed, Over
<1>4. PushedIsAttached'
  BY <1>1, ConnectionAssumption DEF Inv, PushedIsAttached, Alive, Over, IsTold
<1> QED
  BY <1>2, <1>3, <1>4

LEMMA SubscribeCheckInv ==
  ASSUME Inv, NEW c \in Calls, SubscribeCheck(c)
  PROVE  Inv'
<1>1. TypeOK'
  BY ConnectionAssumption DEF Inv, TypeOK, SubscribeCheck, Goto, At, Over, Answers, feedVars, closeVars, engineVars
<1>2. WaitingIsPending' /\ NotYetPushed' /\ PushedIsAttached'
  <2> DEFINE label == IF closed THEN "refused" ELSE "admitted"
  <2>1. pc' = [pc EXCEPT ![c] = label]
    BY DEF SubscribeCheck, Goto
  <2> QED
    BY <2>1, CallerMoves DEF Inv, TypeOK, WaitingIsPending, SubscribeCheck, At, Over, Answers, feedVars
<1>3. FeedInv'
  BY FeedSame DEF Inv, SubscribeCheck, feedVars, engineVars
<1> QED
  BY <1>1, <1>2, <1>3, Parts

LEMMA RequestCheckInv ==
  ASSUME Inv, NEW c \in Calls, RequestCheck(c)
  PROVE  Inv'
<1>1. TypeOK'
  BY ConnectionAssumption DEF Inv, TypeOK, RequestCheck, Goto, At, Over, Answers, feedVars, closeVars, engineVars
<1>2. WaitingIsPending' /\ NotYetPushed' /\ PushedIsAttached'
  <2> DEFINE label == IF closed THEN "refused" ELSE "open"
  <2>1. pc' = [pc EXCEPT ![c] = label]
    BY DEF RequestCheck, Goto
  <2> QED
    BY <2>1, CallerMoves DEF Inv, TypeOK, WaitingIsPending, RequestCheck, At, Over, Answers, feedVars
<1>3. FeedInv'
  BY FeedSame DEF Inv, RequestCheck, feedVars, engineVars
<1> QED
  BY <1>1, <1>2, <1>3, Parts

LEMMA RequestInsertInv ==
  ASSUME Inv, NEW c \in Calls, RequestInsert(c)
  PROVE  Inv'
<1>1. TypeOK'
  BY ConnectionAssumption DEF Inv, TypeOK, RequestInsert, Goto, At, Over, Answers, feedVars, closeVars, engineVars
<1>2. WaitingIsPending' /\ NotYetPushed' /\ PushedIsAttached'
  <2> DEFINE label == "inserted"
  <2>1. pc' = [pc EXCEPT ![c] = label]
    BY DEF RequestInsert, Goto
  <2> QED
    BY <2>1, CallerMoves DEF Inv, TypeOK, WaitingIsPending, RequestInsert, At, Over, Answers, feedVars
<1>3. FeedInv'
  BY FeedSame DEF Inv, RequestInsert, feedVars, engineVars
<1> QED
  BY <1>1, <1>2, <1>3, Parts

LEMMA RequestWriteInv ==
  ASSUME Inv, NEW c \in Calls, RequestWrite(c)
  PROVE  Inv'
<1>1. TypeOK'
  BY ConnectionAssumption DEF Inv, TypeOK, RequestWrite, Goto, At, Over, Answers, feedVars, closeVars, engineVars
<1>2. WaitingIsPending' /\ NotYetPushed' /\ PushedIsAttached'
  <2> DEFINE label == "waiting"
  <2>1. pc' = [pc EXCEPT ![c] = label]
    BY DEF RequestWrite, Goto
  <2> QED
    BY <2>1, CallerMoves DEF Inv, TypeOK, WaitingIsPending, RequestWrite, At, Over, Answers, feedVars
<1>3. FeedInv'
  BY FeedSame DEF Inv, RequestWrite, feedVars, engineVars
<1> QED
  BY <1>1, <1>2, <1>3, Parts

LEMMA WriteFailsInv ==
  ASSUME Inv, NEW c \in Calls, WriteFails(c)
  PROVE  Inv'
<1>1. TypeOK'
  BY ConnectionAssumption DEF Inv, TypeOK, WriteFails, Goto, At, Over, Answers, feedVars, closeVars, engineVars
<1>2. WaitingIsPending' /\ NotYetPushed' /\ PushedIsAttached'
  <2> DEFINE label == "unwritten"
  <2>1. pc' = [pc EXCEPT ![c] = label]
    BY DEF WriteFails, Goto
  <2> QED
    BY <2>1, CallerMoves DEF Inv, TypeOK, WaitingIsPending, WriteFails, At, Over, Answers, feedVars
<1>3. FeedInv'
  BY FeedSame DEF Inv, WriteFails, feedVars, engineVars
<1> QED
  BY <1>1, <1>2, <1>3, Parts

LEMMA UnwrittenRemoveInv ==
  ASSUME Inv, NEW c \in Calls, UnwrittenRemove(c)
  PROVE  Inv'
<1>1. TypeOK'
  BY ConnectionAssumption DEF Inv, TypeOK, UnwrittenRemove, Goto, At, Over, Answers, feedVars, closeVars, engineVars
<1>2. WaitingIsPending' /\ NotYetPushed' /\ PushedIsAttached'
  <2> DEFINE label == "removed"
  <2>1. pc' = [pc EXCEPT ![c] = label]
    BY DEF UnwrittenRemove, Goto
  <2> QED
    BY <2>1, CallerMoves DEF Inv, TypeOK, WaitingIsPending, UnwrittenRemove, At, Over, Answers, feedVars
<1>3. FeedInv'
  BY FeedSame DEF Inv, UnwrittenRemove, feedVars, engineVars
<1> QED
  BY <1>1, <1>2, <1>3, Parts

LEMMA UnwrittenFailsInv ==
  ASSUME Inv, NEW c \in Calls, UnwrittenFails(c)
  PROVE  Inv'
<1>1. TypeOK'
  BY ConnectionAssumption DEF Inv, TypeOK, UnwrittenFails, Goto, At, Over, Answers, feedVars, closeVars, engineVars
<1>2. WaitingIsPending' /\ NotYetPushed' /\ PushedIsAttached'
  <2> DEFINE label == IF closed THEN "failed" ELSE "failing"
  <2>1. pc' = [pc EXCEPT ![c] = label]
    BY DEF UnwrittenFails, Goto
  <2> QED
    BY <2>1, CallerMoves DEF Inv, TypeOK, WaitingIsPending, UnwrittenFails, At, Over, Answers, feedVars
<1>3. FeedInv'
  BY FeedSame DEF Inv, UnwrittenFails, feedVars, engineVars
<1> QED
  BY <1>1, <1>2, <1>3, Parts

LEMMA CallEndsInv ==
  ASSUME Inv, NEW c \in Calls, CallEnds(c)
  PROVE  Inv'
<1>1. TypeOK'
  BY ConnectionAssumption DEF Inv, TypeOK, CallEnds, Goto, At, Over, Answers, feedVars, closeVars, engineVars
<1>2. WaitingIsPending' /\ NotYetPushed' /\ PushedIsAttached'
  <2> DEFINE label == slot[c]
  <2>1. pc' = [pc EXCEPT ![c] = label]
    BY DEF CallEnds, Goto
  <2> QED
    BY <2>1, CallerMoves DEF Inv, TypeOK, WaitingIsPending, CallEnds, At, Over, Answers, feedVars
<1>3. FeedInv'
  BY FeedSame DEF Inv, CallEnds, feedVars, engineVars
<1> QED
  BY <1>1, <1>2, <1>3, Parts

LEMMA DropInv ==
  ASSUME Inv, NEW c \in Calls, Drop(c)
  PROVE  Inv'
<1>1. TypeOK'
  BY ConnectionAssumption DEF Inv, TypeOK, Drop, Goto, At, Over, Answers, feedVars, closeVars, engineVars
<1>2. WaitingIsPending' /\ NotYetPushed' /\ PushedIsAttached'
  <2> DEFINE label == "dropped"
  <2>1. pc' = [pc EXCEPT ![c] = label]
    BY DEF Drop, Goto
  <2> QED
    BY <2>1, CallerMoves DEF Inv, TypeOK, WaitingIsPending, Drop, At, Over, Answers, feedVars
<1>3. FeedInv'
  BY FeedSame DEF Inv, Drop, feedVars, engineVars
<1> QED
  BY <1>1, <1>2, <1>3, Parts

LEMMA SubscribePushInv ==
  ASSUME Inv, NEW s \in Subs, SubscribePush(s)
  PROVE  Inv'
<1>1. TypeOK'
  BY ConnectionAssumption DEF Inv, TypeOK, SubscribePush, Goto, closeVars, engineVars
<1>2. /\ pc[s] = "admitted" /\ inbox[s] = <<>> /\ s \in Calls
      /\ \A d \in Calls : pc'[d] = IF d = s THEN "ready" ELSE pc[d]
      /\ subscribers' = subscribers \cup {s} /\ UNCHANGED <<pending, slot, inbox, wire, emitted>>
  BY ConnectionAssumption DEF Inv, TypeOK, NotYetPushed, SubscribePush, At, Goto, engineVars
<1>3. WaitingIsPending'
  BY <1>2 DEF Inv, WaitingIsPending
<1>4. NotYetPushed'
  BY <1>2, ConnectionAssumption DEF Inv, NotYetPushed
<1>5. PushedIsAttached'
  BY <1>2, ConnectionAssumption DEF Inv, PushedIsAttached, Alive, Over, IsTold
<1>6. FeedInv'
  BY <1>2, FeedJoined DEF Inv
<1> QED
  BY <1>1, <1>3, <1>4, <1>5, <1>6, Parts

LEMMA DrainPendingInv ==
  ASSUME Inv, DrainPending
  PROVE  Inv'
<1>1. TypeOK'
  BY DEF Inv, TypeOK, DrainPending, feedVars, engineVars
<1>2. WaitingIsPending'
  BY DEF Inv, TypeOK, WaitingIsPending, DrainPending
<1>3. NotYetPushed' /\ PushedIsAttached'
  BY DEF Inv, NotYetPushed, PushedIsAttached, Alive, IsTold, DrainPending, feedVars
<1>4. FeedInv'
  BY FeedSame DEF Inv, DrainPending, feedVars, engineVars
<1> QED
  BY <1>1, <1>2, <1>3, <1>4, Parts

LEMMA DrainSubscribersInv ==
  ASSUME Inv, DrainSubscribers
  PROVE  Inv'
<1>1. TheEnd \in 0..MaxEvents
  BY ConnectionAssumption DEF TheEnd
<1>2. /\ inbox' \in [Subs -> Seq(0..MaxEvents)]
      /\ \A s \in Subs : ~(s \in subscribers /\ Alive(s)) => inbox'[s] = inbox[s]
      /\ \A s \in Subs : s \in subscribers /\ Alive(s) => IsTold(s)'
  BY <1>1, ToldItem DEF Inv, DrainSubscribers, IsTold
<1>3. /\ \A c \in Calls : pc'[c] = IF c \in closer THEN "failed" ELSE pc[c]
      /\ subscribers' = {} /\ closing' = "done" /\ UNCHANGED <<pending, slot>>
  BY DEF DrainSubscribers
<1>4. TypeOK'
  BY <1>2, <1>3 DEF Inv, TypeOK, DrainSubscribers, Over, engineVars
<1>5. WaitingIsPending'
  BY <1>3 DEF Inv, WaitingIsPending
<1>6. NotYetPushed'
  BY <1>2, <1>3, ConnectionAssumption DEF Inv, NotYetPushed
<1>7. PushedIsAttached'
  BY <1>2, <1>3, ConnectionAssumption DEF Inv, PushedIsAttached, Alive, Over, IsTold
<1>8. FeedInv'
  BY FeedEnds DEF Inv, DrainSubscribers, engineVars
<1> QED
  BY <1>4, <1>5, <1>6, <1>7, <1>8, Parts

LEMMA ReadResponseInv ==
  ASSUME Inv, ReadResponse
  PROVE  Inv'
<1>1. /\ wire # <<>> /\ Head(wire) \in Frame /\ ~IsEvent(Head(wire)) /\ Tail(wire) \in Seq(Frame)
      /\ Head(wire).to \in Calls /\ Head(wire).answer \in Answers
  BY Tailed, FrameKinds DEF Inv, TypeOK, ReadResponse
<1>2. TypeOK'
  BY <1>1 DEF Inv, TypeOK, ReadResponse, feedVars, closeVars
<1>3. WaitingIsPending'
  BY <1>1 DEF Inv, TypeOK, WaitingIsPending, ReadResponse, Answers
<1>4. NotYetPushed' /\ PushedIsAttached'
  BY DEF Inv, NotYetPushed, PushedIsAttached, Alive, IsTold, ReadResponse, feedVars
<1>5. FeedInv'
  BY FeedResponseRead DEF Inv, ReadResponse, feedVars
<1> QED
  BY <1>2, <1>3, <1>4, <1>5, Parts

LEMMA ReadEventInv ==
  ASSUME Inv, ReadEvent
  PROVE  Inv'
<1>1. /\ wire # <<>> /\ Tail(wire) \in Seq(Frame) /\ Head(wire).event \in 0..MaxEvents
  BY Tailed, FrameKinds DEF Inv, TypeOK, ReadEvent
<1>2. /\ inbox' \in [Subs -> Seq(0..MaxEvents)]
      /\ \A s \in Subs : ~(s \in subscribers /\ Alive(s)) => inbox'[s] = inbox[s]
  BY <1>1, ToldItem DEF Inv, ReadEvent
<1>3. TypeOK'
  BY <1>1, <1>2 DEF Inv, TypeOK, ReadEvent, callVars, closeVars
<1>4. WaitingIsPending'
  BY DEF Inv, WaitingIsPending, ReadEvent, callVars
<1>5. NotYetPushed'
  BY <1>2 DEF Inv, NotYetPushed, ReadEvent, callVars
<1>6. PushedIsAttached'
  BY <1>2 DEF Inv, PushedIsAttached, FeedInv, ToldHasLeft, Alive, IsTold, ReadEvent, callVars
<1>7. FeedInv'
  BY FeedEventRead DEF Inv, ReadEvent
<1> QED
  BY <1>3, <1>4, <1>5, <1>6, <1>7, Parts

LEMMA ReaderEndsInv ==
  ASSUME Inv, ReaderEnds
  PROVE  Inv'
<1>1. TypeOK'
  BY DEF Inv, TypeOK, ReaderEnds, callVars, closeVars, feedVars, engineVars
<1>2. WaitingIsPending' /\ NotYetPushed' /\ PushedIsAttached'
  BY DEF Inv, WaitingIsPending, NotYetPushed, PushedIsAttached, Alive, IsTold, ReaderEnds, callVars, feedVars
<1>3. FeedInv'
  BY FeedSame DEF Inv, ReaderEnds, feedVars, engineVars
<1> QED
  BY <1>1, <1>2, <1>3, Parts

LEMMA EngineEndInv ==
  ASSUME Inv, EngineEnd
  PROVE  Inv'
<1>1. WaitingIsPending' /\ NotYetPushed' /\ PushedIsAttached'
  BY DEF Inv, WaitingIsPending, NotYetPushed, PushedIsAttached, Alive, IsTold, EngineEnd,
         EngineAnswers, EngineEmits, EngineShuts, EngineGoes, callVars, feedVars
<1>2. ASSUME NEW c \in Calls, NEW answer \in Answers, EngineAnswers(c, answer)
      PROVE  TypeOK' /\ FeedInv'
  <2>1. Response(c, answer) \in Frame /\ ~IsEvent(Response(c, answer))
    BY NewFrames
  <2>2. wire' \in Seq(Frame)
    BY <1>2, <2>1, Appended DEF Inv, TypeOK, EngineAnswers
  <2>3. TypeOK'
    BY <1>2, <2>2 DEF Inv, TypeOK, EngineAnswers, callVars, closeVars, feedVars
  <2> QED
    BY <1>2, <2>1, <2>3, FeedAnswered DEF Inv, EngineAnswers, feedVars
<1>3. CASE EngineEmits
  <2>1. emitted' \in 1..MaxEvents
    BY <1>3, ConnectionAssumption DEF Inv, TypeOK, EngineEmits
  <2>2. wire' \in Seq(Frame)
    BY <1>3, <2>1, NewFrames, Appended DEF Inv, TypeOK, EngineEmits
  <2>3. TypeOK'
    BY <1>3, <2>1, <2>2 DEF Inv, TypeOK, EngineEmits, callVars, closeVars, feedVars
  <2> QED
    BY <1>1, <1>3, <2>3, FeedEmitted, Parts DEF Inv, EngineEmits, feedVars
<1>4. CASE EngineShuts \/ EngineGoes
  <2>1. TypeOK'
    BY <1>4 DEF Inv, TypeOK, EngineShuts, EngineGoes, callVars, closeVars, feedVars
  <2> QED
    BY <1>1, <1>4, <2>1, FeedSame, Parts DEF Inv, EngineShuts, EngineGoes, feedVars
<1> QED
  BY <1>1, <1>2, <1>3, <1>4, Parts DEF EngineEnd

LEMMA StutterInv ==
  ASSUME Inv, UNCHANGED vars
  PROVE  Inv'
<1>1. TypeOK' /\ WaitingIsPending' /\ NotYetPushed' /\ PushedIsAttached'
  BY DEF vars, callVars, closeVars, feedVars, engineVars, Inv, TypeOK, WaitingIsPending, NotYetPushed,
         PushedIsAttached, Alive, IsTold
<1>2. FeedInv'
  BY FeedSame DEF Inv, vars, feedVars, engineVars
<1> QED
  BY <1>1, <1>2, Parts

-----------------------------------------------------------------------------
(* The theorems. *)

LEMMA InitInv == Init => Inv
<1> SUFFICES ASSUME Init PROVE Inv
  OBVIOUS
<1>1. TypeOK
  <2>1. inbox \in [Subs -> Seq(0..MaxEvents)]
    BY EmptySeq DEF Init
  <2>2. wire \in Seq(Frame)
    BY EmptySeq DEF Init
  <2>3. emitted \in 0..MaxEvents
    BY ConnectionAssumption DEF Init
  <2>4. /\ slot \in [Calls -> {"nothing", "Closed"} \cup Answers]
        /\ pc \in [Calls -> {"new", "admitted", "ready", "open", "inserted", "waiting",
                             "unwritten", "removed", "failing"} \cup Over]
    BY DEF Init
  <2> QED
    BY <2>1, <2>2, <2>3, <2>4 DEF Init, TypeOK
<1>2. WaitingIsPending /\ NotYetPushed /\ PushedIsAttached
  BY ConnectionAssumption DEF Init, WaitingIsPending, NotYetPushed, PushedIsAttached, Alive
<1>3. FeedInv
  BY EmptySeq DEF Init, FeedInv, ToldHasLeft, FeedIsWhole, WireInOrder, RestIsComing
<1> QED
  BY <1>1, <1>2, <1>3 DEF Inv

LEMMA NextInv == Inv /\ [Next]_vars => Inv'
<1> SUFFICES ASSUME Inv, [Next]_vars PROVE Inv'
  OBVIOUS
<1>1. ASSUME NEW c \in Calls, Request(c) \/ Drop(c) PROVE Inv'
  BY <1>1, RequestCheckInv, RequestInsertInv, RequestWriteInv, WriteFailsInv, UnwrittenRemoveInv,
     UnwrittenFailsInv, CallEndsInv, DropInv DEF Request
<1>2. ASSUME NEW s \in Subs, SubscribeCheck(s) \/ SubscribePush(s) PROVE Inv'
  BY <1>2, SubscribeCheckInv, SubscribePushInv, ConnectionAssumption
<1>3. CASE FailEverything
  BY <1>3, DrainPendingInv, DrainSubscribersInv DEF FailEverything
<1>4. CASE Read
  BY <1>4, ReadResponseInv, ReadEventInv, ReaderEndsInv DEF Read
<1> QED
  BY <1>1, <1>2, <1>3, <1>4, EngineEndInv, StutterInv DEF Next

LEMMA Invariance == Spec => []Inv
BY InitInv, NextInv, PTL DEF Spec

\* The connection's variables keep their types, and the flag is set exactly while fail_everything
\* runs or has run.
THEOREM TypeCorrect == Spec => []TypeOK
BY Invariance, PTL DEF Inv

\* A call that waits on an empty channel can still be found, whoever closes the connection.
THEOREM WaitingCorrect == Spec => []WaitingIsPending
BY Invariance, PTL DEF Inv

\* A subscription is sent every event once, in order, and then at most one end.
THEOREM FeedCorrect == Spec => []FeedIsWhole
<1>1. Inv => FeedIsWhole
  BY DEF Inv, FeedInv
<1> QED
  BY <1>1, Invariance, PTL

\* A subscription granted by the engine is in the list until it is told of the end.
THEOREM GrantedCorrect == Spec => []GrantedIsAttached
<1>1. Inv => GrantedIsAttached
  BY ConnectionAssumption DEF Inv, TypeOK, PushedIsAttached, GrantedIsAttached, Alive
<1> QED
  BY <1>1, Invariance, PTL
=============================================================================
