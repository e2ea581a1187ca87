-------------------------- MODULE WebSocketsProofs --------------------------
(***************************************************************************)
(* Proofs about WebSockets, for any ids, connections, threads and limits.  *)
(*                                                                         *)
(* The argument is the one of the code: a task's generation is the entry's *)
(* exactly while the entry has the task's channel.  It ends where an entry *)
(* is evicted under a running task.                                        *)
(***************************************************************************)
EXTENDS WebSockets, SequenceTheorems, FiniteSetTheorems, FunctionTheorems, TLAPS

Text      == {"send", "close"}
EntryType == [generation : Nat, tx : Conns \cup {None}, status : Statuses, closing : BOOLEAN]
ConnType  == [generation : Nat, id : Ids \cup {None}, phase : Phases, inbox : Seq(Text)]
Place     == [at : {"idle", "counting", "adding", "sending"}, id : Ids \cup {None}]

EntryTyped  == entry \in [Ids -> EntryType] /\ \A i \in Ids : ~Exists(i) => entry[i] = NoEntry
ConnTyped   == /\ conn \in [Conns -> ConnType]
               /\ \A c \in Conns : Running(c) <=> conn[c].id # None
               /\ \A c \in Conns : Running(c) => conn[c].generation > 0
CallerTyped == caller \in [Callers -> Place] /\ \A k \in Callers : caller[k].at = "idle" <=> caller[k].id = None
RestTyped   == sweeping \subseteq Conns /\ recycled \subseteq Ids

Typed  == EntryTyped /\ ConnTyped /\ CallerTyped /\ RestTyped
Tasked == Typed /\ LiveHasTask

---------------------------------------------------------------------------
(* Entries, connections and threads after one change. *)

LEMMA Queued ==
  ASSUME NEW r \in ConnType, NEW m \in Text
  PROVE  /\ [r EXCEPT !.inbox = Append(@, m)] \in ConnType
         /\ [r EXCEPT !.inbox = Append(@, m)].id = r.id
         /\ [r EXCEPT !.inbox = Append(@, m)].phase = r.phase
         /\ [r EXCEPT !.inbox = Append(@, m)].generation = r.generation
         /\ [r EXCEPT !.inbox = Append(@, m)].inbox = Append(r.inbox, m)
<1>1. r.inbox \in Seq(Text)
  BY DEF ConnType
<1>2. Append(r.inbox, m) \in Seq(Text)
  BY <1>1, AppendProperties
<1> QED
  BY <1>2 DEF ConnType

LEMMA EntryParts ==
  ASSUME NEW r \in EntryType
  PROVE  r = [generation |-> r.generation, tx |-> r.tx, status |-> r.status, closing |-> r.closing]
BY DEF EntryType

LEMMA ClosingTyped ==
  ASSUME NEW r \in EntryType
  PROVE  /\ [r EXCEPT !.closing = TRUE] \in EntryType
         /\ [r EXCEPT !.closing = TRUE].generation = r.generation
         /\ [r EXCEPT !.closing = TRUE].tx = r.tx
         /\ [r EXCEPT !.closing = TRUE].status = r.status
         /\ [r EXCEPT !.closing = TRUE].closing
BY DEF EntryType

\* A thread goes somewhere, or is done.
LEMMA ThreadTyped ==
  ASSUME CallerTyped, NEW k \in Callers
  PROVE  /\ Return(k) => CallerTyped'
         /\ \A i \in Ids, at \in {"counting", "adding", "sending"} : Goto(k, at, i) => CallerTyped'
<1>1. \A i \in Ids : i # None
  BY WebSocketsAssumption
<1>2. ASSUME Return(k) PROVE CallerTyped'
  BY <1>2 DEF CallerTyped, Place, Return, Idle
<1>3. ASSUME NEW i \in Ids, NEW at \in {"counting", "adding", "sending"}, Goto(k, at, i)
      PROVE  CallerTyped'
  BY <1>1, <1>3 DEF CallerTyped, Place, Goto
<1> QED
  BY <1>2, <1>3

LEMMA PlaceOfThread ==
  ASSUME CallerTyped, NEW k \in Callers, caller[k].at # "idle"
  PROVE  caller[k].id \in Ids
BY DEF CallerTyped, Place

\* A step that touches no entry, and keeps every connection's id, generation and whether it runs.
LEMMA SameTasked ==
  ASSUME Tasked, UNCHANGED <<entry, recycled>>, sweeping' = sweeping, conn' \in [Conns -> ConnType], CallerTyped',
         \A c \in Conns : /\ conn'[c].id = conn[c].id /\ conn'[c].generation = conn[c].generation
                          /\ Running(c)' = Running(c)
  PROVE  Tasked'
<1>1. EntryTyped'
  BY DEF Tasked, Typed, EntryTyped, Exists
<1>2. ConnTyped' /\ RestTyped'
  BY DEF Tasked, Typed, ConnTyped, RestTyped
<1>3. ASSUME NEW i \in Ids, Live(i)'
      PROVE  Running(entry[i].tx)' /\ conn'[entry[i].tx].id = i /\ Current(entry[i].tx)'
  <2>1. Live(i) /\ entry[i].tx \in Conns
    BY <1>3 DEF Live, Tasked, Typed, EntryTyped, EntryType
  <2> QED
    BY <2>1 DEF Tasked, LiveHasTask, Current, EntryOf
<1> QED
  BY <1>1, <1>2, <1>3 DEF Tasked, Typed, LiveHasTask

---------------------------------------------------------------------------
(* The types, and a task for every live entry. *)

LEMMA InitTasked == Init => Tasked
<1>1. <<>> \in Seq(Text)
  OBVIOUS
<1> QED
  BY <1>1, WebSocketsAssumption
     DEF Init, Tasked, Typed, EntryTyped, ConnTyped, CallerTyped, RestTyped, EntryType, ConnType, Place, LiveHasTask,
         Live, Running, Exists, NoEntry, NoConn, Idle, Statuses, Phases

LEMMA LookTasked ==
  ASSUME Tasked, NEW k \in Callers, NEW i \in Connects[k], ConnectLook(k, i)
  PROVE  Tasked'
<1>1. i \in Ids
  BY WebSocketsAssumption
<1>2. CallerTyped'
  BY <1>1, ThreadTyped DEF ConnectLook, Tasked, Typed
<1> QED
  BY <1>2, SameTasked DEF ConnectLook, Running, Tasked, Typed, ConnTyped

LEMMA CountTasked ==
  ASSUME Tasked, NEW k \in Callers, ConnectCount(k)
  PROVE  Tasked'
<1>1. caller[k].id \in Ids
  BY PlaceOfThread DEF ConnectCount, Tasked, Typed
<1>2. CallerTyped'
  BY <1>1, ThreadTyped DEF ConnectCount, Tasked, Typed
<1> QED
  BY <1>2, SameTasked DEF ConnectCount, Running, Tasked, Typed, ConnTyped

LEMMA SendLookTasked ==
  ASSUME Tasked, NEW k \in Callers, NEW i \in Sends[k], SendLook(k, i)
  PROVE  Tasked'
<1>1. i \in Ids
  BY WebSocketsAssumption
<1>2. CallerTyped'
  BY <1>1, ThreadTyped DEF SendLook, Tasked, Typed
<1> QED
  BY <1>2, SameTasked DEF SendLook, Running, Tasked, Typed, ConnTyped

LEMMA SendQueueTasked ==
  ASSUME Tasked, NEW k \in Callers, SendQueue(k)
  PROVE  Tasked'
<1> DEFINE i == caller[k].id
           c == entry[i].tx
<1>1. CallerTyped'
  BY ThreadTyped DEF SendQueue, Tasked, Typed
<1>2. i \in Ids
  BY PlaceOfThread DEF SendQueue, Tasked, Typed
<1>3. CASE StillOpen(i) /\ Running(c)
  <2>1. conn' = [conn EXCEPT ![c].inbox = Append(@, "send")] /\ c \in Conns
    BY <1>2, <1>3 DEF SendQueue, StillOpen, Sendable, Live, Tasked, Typed, EntryTyped, EntryType
  <2>2. conn[c] \in ConnType
    BY <2>1 DEF Tasked, Typed, ConnTyped
  <2>3. conn' = [conn EXCEPT ![c] = [conn[c] EXCEPT !.inbox = Append(@, "send")]]
    BY <2>1
  <2>4. /\ [conn[c] EXCEPT !.inbox = Append(@, "send")] \in ConnType
        /\ [conn[c] EXCEPT !.inbox = Append(@, "send")].id = conn[c].id
        /\ [conn[c] EXCEPT !.inbox = Append(@, "send")].phase = conn[c].phase
        /\ [conn[c] EXCEPT !.inbox = Append(@, "send")].generation = conn[c].generation
    BY <2>2, Queued DEF Text
  <2> QED
    BY <1>1, <2>1, <2>3, <2>4, SameTasked DEF SendQueue, Running, Tasked, Typed, ConnTyped
<1>4. CASE ~(StillOpen(i) /\ Running(c))
  BY <1>1, <1>4, SameTasked DEF SendQueue, Running, Tasked, Typed, ConnTyped
<1> QED
  BY <1>3, <1>4

\* The old task is told, and neither its place nor its generation changes.
Told(old) == [c \in Conns |-> IF c = old THEN [conn[c] EXCEPT !.inbox = Append(@, "close")] ELSE conn[c]]

LEMMA ToldTyped ==
  ASSUME Tasked, NEW old
  PROVE  /\ Told(old) \in [Conns -> ConnType]
         /\ \A c \in Conns : /\ Told(old)[c].id = conn[c].id /\ Told(old)[c].phase = conn[c].phase
                             /\ Told(old)[c].generation = conn[c].generation
                             /\ Told(old)[c].inbox = IF c = old THEN Append(conn[c].inbox, "close") ELSE conn[c].inbox
<1>1. ASSUME NEW c \in Conns
      PROVE  /\ Told(old)[c] \in ConnType
             /\ Told(old)[c].id = conn[c].id /\ Told(old)[c].phase = conn[c].phase
             /\ Told(old)[c].generation = conn[c].generation
             /\ Told(old)[c].inbox = IF c = old THEN Append(conn[c].inbox, "close") ELSE conn[c].inbox
  <2>1. conn[c] \in ConnType
    BY DEF Tasked, Typed, ConnTyped
  <2>2. Told(old)[c] = IF c = old THEN [conn[c] EXCEPT !.inbox = Append(@, "close")] ELSE conn[c]
    BY DEF Told
  <2> QED
    BY <2>1, <2>2, Queued DEF Text
<1>2. DOMAIN Told(old) = Conns /\ Told(old) = [c \in Conns |-> Told(old)[c]]
  BY DEF Told
<1> QED
  BY <1>1, <1>2

\* The two outcomes of connect_socket's section, as one entry and at most one new task.
LEMMA AddSteps ==
  ASSUME Tasked, NEW k \in Callers, ConnectAdd(k)
  PROVE  LET i == caller[k].id IN
         /\ i \in Ids /\ entry[i].generation \in Nat /\ UNCHANGED <<sweeping, recycled>>
         /\ \A j \in Ids \ {i} : entry'[j] = entry[j]
         /\ entry' \in [Ids -> EntryType]
         /\ \/ \E c \in Conns :
                  /\ ~Running(c)
                  /\ entry'[i] = [generation |-> entry[i].generation + 1, tx |-> c, status |-> "connecting",
                                  closing |-> FALSE]
                  /\ conn' = [Told(entry[i].tx) EXCEPT ![c] =
                                [generation |-> entry[i].generation + 1, id |-> i, phase |-> "dialing", inbox |-> <<>>]]
            \/ /\ entry'[i] = [generation |-> entry[i].generation + 1, tx |-> None, status |-> "ended",
                                closing |-> FALSE]
               /\ conn' = Told(entry[i].tx)
<1> DEFINE i == caller[k].id
           next == entry[i].generation + 1
           added(c, status) == [generation |-> next, tx |-> c, status |-> status, closing |-> FALSE]
<1>1. i \in Ids
  BY PlaceOfThread DEF ConnectAdd, Tasked, Typed
<1>2. entry \in [Ids -> EntryType] /\ entry[i].generation \in Nat
  BY <1>1 DEF Tasked, Typed, EntryTyped, EntryType
<1>3. ASSUME NEW c \in Conns \cup {None}, NEW status \in Statuses
      PROVE  added(c, status) \in EntryType
  BY <1>2 DEF EntryType
<1>4. /\ UNCHANGED <<sweeping, recycled>>
      /\ \/ \E c \in Conns :
             /\ ~Running(c)
             /\ entry' = [entry EXCEPT ![i] = added(c, "connecting")]
             /\ conn' = [Told(entry[i].tx) EXCEPT ![c] =
                          [generation |-> next, id |-> i, phase |-> "dialing", inbox |-> <<>>]]
         \/ /\ entry' = [entry EXCEPT ![i] = added(None, "ended")]
            /\ conn' = Told(entry[i].tx)
  BY DEF ConnectAdd, Told
<1>5. "connecting" \in Statuses /\ "ended" \in Statuses
  BY DEF Statuses
<1> HIDE DEF added
<1>6. CASE /\ entry' = [entry EXCEPT ![i] = added(None, "ended")]
           /\ conn' = Told(entry[i].tx)
  <2>1. added(None, "ended") \in EntryType
    BY <1>3, <1>5
  <2>2. /\ entry'[i] = added(None, "ended") /\ entry' \in [Ids -> EntryType]
        /\ \A j \in Ids \ {i} : entry'[j] = entry[j]
    BY <1>1, <1>2, <1>6, <2>1
  <2> QED
    BY <1>1, <1>2, <1>4, <1>6, <2>2 DEF added
<1>7. CASE \E c \in Conns :
             /\ ~Running(c)
             /\ entry' = [entry EXCEPT ![i] = added(c, "connecting")]
             /\ conn' = [Told(entry[i].tx) EXCEPT ![c] =
                          [generation |-> next, id |-> i, phase |-> "dialing", inbox |-> <<>>]]
  <2>0. PICK c \in Conns :
             /\ ~Running(c)
             /\ entry' = [entry EXCEPT ![i] = added(c, "connecting")]
             /\ conn' = [Told(entry[i].tx) EXCEPT ![c] =
                          [generation |-> next, id |-> i, phase |-> "dialing", inbox |-> <<>>]]
    BY <1>7
  <2>1. added(c, "connecting") \in EntryType
    BY <1>3, <1>5
  <2>2. /\ entry'[i] = added(c, "connecting") /\ entry' \in [Ids -> EntryType]
        /\ \A j \in Ids \ {i} : entry'[j] = entry[j]
    BY <1>1, <1>2, <2>0, <2>1
  <2> QED
    BY <1>1, <1>2, <1>4, <2>0, <2>2 DEF added
<1> QED
  BY <1>4, <1>6, <1>7

LEMMA AddTasked ==
  ASSUME Tasked, NEW k \in Callers, ConnectAdd(k)
  PROVE  Tasked'
<1> DEFINE i == caller[k].id
           told == Told(entry[i].tx)
<1>1. CallerTyped'
  BY ThreadTyped DEF ConnectAdd, Tasked, Typed
<1>2. /\ i \in Ids /\ entry[i].generation \in Nat /\ UNCHANGED <<sweeping, recycled>>
      /\ \A j \in Ids \ {i} : entry'[j] = entry[j]
      /\ entry' \in [Ids -> EntryType]
  BY AddSteps
<1>3. /\ told \in [Conns -> ConnType]
      /\ \A c \in Conns : /\ told[c].id = conn[c].id /\ told[c].phase = conn[c].phase
                          /\ told[c].generation = conn[c].generation
  BY ToldTyped
<1> HIDE DEF told
<1>4. CASE \E c \in Conns :
             /\ ~Running(c)
             /\ entry'[i] = [generation |-> entry[i].generation + 1, tx |-> c, status |-> "connecting", closing |-> FALSE]
             /\ conn' = [told EXCEPT ![c] =
                           [generation |-> entry[i].generation + 1, id |-> i, phase |-> "dialing", inbox |-> <<>>]]
  <2>1. PICK c \in Conns :
             /\ ~Running(c)
             /\ entry'[i] = [generation |-> entry[i].generation + 1, tx |-> c, status |-> "connecting", closing |-> FALSE]
             /\ conn' = [told EXCEPT ![c] =
                           [generation |-> entry[i].generation + 1, id |-> i, phase |-> "dialing", inbox |-> <<>>]]
    BY <1>4
  <2>2. [generation |-> entry[i].generation + 1, id |-> i, phase |-> "dialing", inbox |-> <<>>] \in ConnType
    BY <1>2 DEF ConnType, Phases
  <2>3. /\ conn' \in [Conns -> ConnType]
        /\ conn'[c] = [generation |-> entry[i].generation + 1, id |-> i, phase |-> "dialing", inbox |-> <<>>]
        /\ \A d \in Conns \ {c} : conn'[d] = told[d]
    BY <1>3, <2>1, <2>2
  <2>4. EntryTyped'
    BY <1>2, <2>1 DEF Tasked, Typed, EntryTyped, Exists
  <2>5. ConnTyped'
    <3>1. \A d \in Conns : d # c => /\ conn'[d].phase = conn[d].phase /\ conn'[d].id = conn[d].id
                                  /\ conn'[d].generation = conn[d].generation
      BY <1>3, <2>3
    <3>2. conn'[c].phase = "dialing" /\ conn'[c].id = i /\ i # None /\ conn'[c].generation > 0
      BY <1>2, <2>3, WebSocketsAssumption
    <3> QED
      BY <2>3, <3>1, <3>2 DEF Tasked, Typed, ConnTyped, Running
  <2>6. LiveHasTask'
    <3> SUFFICES ASSUME NEW j \in Ids, Live(j)'
                 PROVE  (Running(entry[j].tx) /\ conn[entry[j].tx].id = j /\ Current(entry[j].tx))'
      BY DEF LiveHasTask
    <3>1. CASE j = i
      BY <1>2, <2>1, <2>3, <3>1 DEF Running, Current, EntryOf
    <3>2. CASE j # i
      <4> DEFINE d == entry[j].tx
      <4>1. Live(j) /\ d \in Conns /\ entry'[j] = entry[j]
        BY <1>2, <3>2 DEF Live, Tasked, Typed, EntryTyped, EntryType
      <4>2. Running(d) /\ conn[d].id = j /\ Current(d)
        BY <4>1 DEF Tasked, LiveHasTask
      <4>3. d # c /\ conn'[d].phase = conn[d].phase /\ conn'[d].id = j /\ conn'[d].generation = conn[d].generation
        BY <1>3, <2>1, <2>3, <4>1, <4>2
      <4> QED
        BY <4>1, <4>2, <4>3 DEF Running, Current, EntryOf
    <3> QED
      BY <3>1, <3>2
  <2> QED
    BY <1>1, <1>2, <2>4, <2>5, <2>6 DEF Tasked, Typed, RestTyped
<1>5. CASE /\ entry'[i] = [generation |-> entry[i].generation + 1, tx |-> None, status |-> "ended", closing |-> FALSE]
           /\ conn' = told
  <2>4. EntryTyped'
    BY <1>2, <1>5 DEF Tasked, Typed, EntryTyped, Exists
  <2>5. ConnTyped'
    BY <1>3, <1>5 DEF Tasked, Typed, ConnTyped, Running
  <2>6. LiveHasTask'
    <3> SUFFICES ASSUME NEW j \in Ids, Live(j)'
                 PROVE  (Running(entry[j].tx) /\ conn[entry[j].tx].id = j /\ Current(entry[j].tx))'
      BY DEF LiveHasTask
    <3> DEFINE d == entry[j].tx
    <3>1. Live(j) /\ d \in Conns /\ entry'[j] = entry[j]
      BY <1>2, <1>5 DEF Live, Tasked, Typed, EntryTyped, EntryType
    <3>2. Running(d) /\ conn[d].id = j /\ Current(d)
      BY <3>1 DEF Tasked, LiveHasTask
    <3>3. conn'[d].phase = conn[d].phase /\ conn'[d].id = j /\ conn'[d].generation = conn[d].generation
      BY <1>3, <1>5, <3>1, <3>2
    <3> QED
      BY <3>1, <3>2, <3>3 DEF Running, Current, EntryOf
  <2> QED
    BY <1>1, <1>2, <2>4, <2>5, <2>6 DEF Tasked, Typed, RestTyped
<1> QED
  BY <1>4, <1>5, AddSteps DEF told

LEMMA DisconnectTasked ==
  ASSUME Tasked, NEW i \in Ids, Disconnect(i)
  PROVE  /\ Tasked'
         /\ entry[i].tx \in Conns /\ Told(entry[i].tx) = conn'
         /\ entry'[i].generation = entry[i].generation /\ entry'[i].tx = entry[i].tx
         /\ entry'[i].status = entry[i].status /\ entry'[i].closing
         /\ \A j \in Ids \ {i} : entry'[j] = entry[j]
         /\ UNCHANGED recycled
<1> DEFINE c == entry[i].tx
           r == [entry[i] EXCEPT !.closing = TRUE]
<1>1. c \in Conns /\ Running(c) /\ Live(i)
  BY DEF Tasked, Typed, EntryTyped, EntryType, LiveHasTask, Live, Disconnect
<1>2. /\ entry' = [entry EXCEPT ![i].closing = TRUE]
      /\ conn' = [conn EXCEPT ![c].inbox = Append(@, "close")]
      /\ UNCHANGED <<sweeping, caller, recycled>>
  BY <1>1 DEF Disconnect
<1>3. entry[i] \in EntryType /\ entry \in [Ids -> EntryType]
  BY DEF Tasked, Typed, EntryTyped
<1>4. entry' = [entry EXCEPT ![i] = r]
  BY <1>2
<1>5. /\ r \in EntryType /\ r.generation = entry[i].generation /\ r.tx = c /\ r.status = entry[i].status
      /\ r.closing
  BY <1>3, ClosingTyped
<1> HIDE DEF r
<1>6. /\ entry'[i] = r /\ entry' \in [Ids -> EntryType] /\ \A j \in Ids \ {i} : entry'[j] = entry[j]
      /\ entry'[i].generation = entry[i].generation /\ entry'[i].tx = c /\ entry'[i].status = entry[i].status
      /\ entry'[i].closing
  BY <1>3, <1>4, <1>5
<1>7. conn \in [Conns -> ConnType]
  BY DEF Tasked, Typed, ConnTyped
<1>8. conn' = Told(c)
  BY <1>1, <1>2, <1>7 DEF Told
<1>9. EntryTyped'
  <2>1. Exists(i) /\ Exists(i)'
    BY <1>1, <1>6, WebSocketsAssumption DEF Tasked, Typed, EntryTyped, Live, NoEntry, Exists
  <2> QED
    BY <1>6, <2>1 DEF Tasked, Typed, EntryTyped, Exists
<1>10. /\ conn' \in [Conns -> ConnType]
       /\ \A d \in Conns : /\ conn'[d].id = conn[d].id /\ conn'[d].phase = conn[d].phase
                           /\ conn'[d].generation = conn[d].generation
  BY <1>8, ToldTyped
<1>11. ConnTyped'
  BY <1>10 DEF Tasked, Typed, ConnTyped, Running
<1>12. LiveHasTask'
  <2> SUFFICES ASSUME NEW j \in Ids, Live(j)'
               PROVE  (Running(entry[j].tx) /\ conn[entry[j].tx].id = j /\ Current(entry[j].tx))'
    BY DEF LiveHasTask
  <2> DEFINE d == entry[j].tx
  <2>1. entry'[j].tx = d /\ entry'[j].generation = entry[j].generation
    BY <1>6
  <2>2. Live(j) /\ d \in Conns
    BY <2>1 DEF Live, Tasked, Typed, EntryTyped, EntryType
  <2>3. Running(d) /\ conn[d].id = j /\ Current(d)
    BY <2>2 DEF Tasked, LiveHasTask
  <2>4. conn'[d].phase = conn[d].phase /\ conn'[d].id = j /\ conn'[d].generation = conn[d].generation
    BY <1>10, <2>2, <2>3
  <2> QED
    BY <2>1, <2>3, <2>4 DEF Running, Current, EntryOf
<1> QED
  BY <1>1, <1>2, <1>6, <1>8, <1>9, <1>11, <1>12 DEF Tasked, Typed, RestTyped, CallerTyped

---------------------------------------------------------------------------
(* What a task's step may do to its entry and to itself. *)

EntryEffect(c) ==
  LET i == conn[c].id IN
  /\ EntryTyped'
  /\ \A j \in Ids \ {i} : entry'[j] = entry[j]
  /\ \/ entry'[i] = entry[i]
     \/ /\ Current(c)
        /\ entry'[i].generation = entry[i].generation /\ entry'[i].closing = entry[i].closing
        /\ entry'[i].tx = entry[i].tx \/ (entry'[i].tx = None /\ entry'[i].status = "ended")

ConnEffect(c) ==
  /\ ConnTyped'
  /\ \A d \in Conns \ {c} : conn'[d] = conn[d]
  /\ \/ conn'[c] = NoConn /\ entry'[conn[c].id].tx # c
     \/ /\ Running(c)' /\ entry'[conn[c].id].tx = EntryOf(c).tx
        /\ conn'[c].id = conn[c].id /\ conn'[c].generation = conn[c].generation
        /\ conn'[c].inbox = conn[c].inbox
           \/ (conn[c].inbox # <<>> /\ conn'[c].inbox = Tail(conn[c].inbox))

TaskEffect(c) == EntryEffect(c) /\ ConnEffect(c) /\ RestTyped' /\ UNCHANGED <<caller, recycled>>

LEMMA MoveEffect ==
  ASSUME Tasked, NEW c \in Conns, Running(c), NEW phase \in Phases \ {"none"}, Move(c, phase),
         entry'[conn[c].id].tx = EntryOf(c).tx
  PROVE  ConnEffect(c)
<1>1. conn[c] \in ConnType /\ conn \in [Conns -> ConnType]
  BY DEF Tasked, Typed, ConnTyped
<1>2. /\ [conn[c] EXCEPT !.phase = phase] \in ConnType
      /\ [conn[c] EXCEPT !.phase = phase].phase = phase
      /\ [conn[c] EXCEPT !.phase = phase].id = conn[c].id
      /\ [conn[c] EXCEPT !.phase = phase].generation = conn[c].generation
      /\ [conn[c] EXCEPT !.phase = phase].inbox = conn[c].inbox
  BY <1>1 DEF ConnType
<1>3. conn' = [conn EXCEPT ![c] = [conn[c] EXCEPT !.phase = phase]]
  BY DEF Move
<1>4. /\ conn' \in [Conns -> ConnType] /\ conn'[c] = [conn[c] EXCEPT !.phase = phase]
      /\ \A d \in Conns \ {c} : conn'[d] = conn[d]
  BY <1>1, <1>2, <1>3
<1>5. phase # "none"
  OBVIOUS
<1> QED
  BY <1>2, <1>4, <1>5 DEF ConnEffect, Tasked, Typed, ConnTyped, Running

LEMMA EndEffect ==
  ASSUME Tasked, NEW c \in Conns, End(c), entry'[conn[c].id].tx # c
  PROVE  ConnEffect(c)
<1>1. NoConn \in ConnType /\ NoConn.phase = "none" /\ NoConn.id = None
  BY DEF NoConn, ConnType, Phases
<1>2. conn \in [Conns -> ConnType]
  BY DEF Tasked, Typed, ConnTyped
<1>3. /\ conn' \in [Conns -> ConnType] /\ conn'[c] = NoConn
      /\ \A d \in Conns \ {c} : conn'[d] = conn[d]
  BY <1>1, <1>2 DEF End
<1> HIDE DEF NoConn
<1> QED
  BY <1>1, <1>3 DEF ConnEffect, Tasked, Typed, ConnTyped, Running

LEMMA OwnEntry ==
  ASSUME Tasked, NEW c \in Conns, Running(c)
  PROVE  conn[c].id \in Ids /\ EntryOf(c) \in EntryType /\ conn[c].generation > 0
BY DEF Tasked, Typed, EntryTyped, ConnTyped, ConnType, EntryOf

\* record changes the entry of the connection that is not superseded, or nothing.
LEMMA RecordEffect ==
  ASSUME Tasked, NEW c \in Conns, Running(c), NEW changed \in EntryType, Record(c, changed),
         changed.generation = EntryOf(c).generation, changed.closing = EntryOf(c).closing,
         changed.tx = EntryOf(c).tx \/ (changed.tx = None /\ changed.status = "ended")
  PROVE  EntryEffect(c) /\ sweeping' \subseteq Conns /\ (Matches(c) => entry'[conn[c].id] = changed)
         /\ (~Matches(c) => entry' = entry) /\ (changed.tx = EntryOf(c).tx => entry'[conn[c].id].tx = EntryOf(c).tx)
<1> DEFINE i == conn[c].id
<1>1. i \in Ids /\ entry[i] \in EntryType /\ conn[c].generation > 0 /\ EntryOf(c) = entry[i]
  BY OwnEntry DEF EntryOf
<1>2. entry \in [Ids -> EntryType] /\ sweeping \subseteq Conns
  BY DEF Tasked, Typed, EntryTyped, RestTyped
<1>3. CASE Matches(c)
  <2>1. entry' = [entry EXCEPT ![i] = changed] /\ sweeping' = sweeping \cup {c}
    BY <1>3 DEF Record
  <2>2. /\ entry' \in [Ids -> EntryType] /\ entry'[i] = changed
        /\ \A j \in Ids \ {i} : entry'[j] = entry[j]
    BY <1>1, <1>2, <2>1
  <2>3. Current(c) /\ entry[i].generation > 0
    BY <1>1, <1>3 DEF Matches, Current
  <2>4. EntryTyped'
    BY <1>1, <2>2, <2>3 DEF Tasked, Typed, EntryTyped, Exists
  <2> QED
    BY <1>1, <1>2, <1>3, <2>1, <2>2, <2>3, <2>4 DEF EntryEffect
<1>4. CASE ~Matches(c)
  <2>1. UNCHANGED <<entry, sweeping>>
    BY <1>4 DEF Record
  <2>2. EntryTyped'
    BY <2>1 DEF Tasked, Typed, EntryTyped, Exists
  <2> QED
    BY <1>1, <1>2, <1>4, <2>1, <2>2 DEF EntryEffect
<1> QED
  BY <1>3, <1>4

LEMMA NoRecordEffect ==
  ASSUME Tasked, NEW c \in Conns, UNCHANGED <<entry, sweeping>>
  PROVE  EntryEffect(c) /\ sweeping' \subseteq Conns /\ entry'[conn[c].id].tx = EntryOf(c).tx
BY DEF EntryOf, EntryEffect, Tasked, Typed, EntryTyped, RestTyped, Exists

LEMMA StatusTyped ==
  ASSUME NEW r \in EntryType, NEW status \in Statuses
  PROVE  /\ [r EXCEPT !.status = status] \in EntryType
         /\ [r EXCEPT !.status = status].generation = r.generation
         /\ [r EXCEPT !.status = status].closing = r.closing
         /\ [r EXCEPT !.status = status].tx = r.tx
BY DEF EntryType

LEMMA ClosedTyped ==
  ASSUME NEW r \in EntryType
  PROVE  LET s == [r EXCEPT !.tx = None, !.status = "ended"] IN
         s \in EntryType /\ s.generation = r.generation /\ s.closing = r.closing /\ s.tx = None /\ s.status = "ended"
<1>1. "ended" \in Statuses
  BY DEF Statuses
<1>2. [r EXCEPT !.tx = None] \in EntryType
  BY DEF EntryType
<1>3. [r EXCEPT !.tx = None, !.status = "ended"] = [[r EXCEPT !.tx = None] EXCEPT !.status = "ended"]
  BY DEF EntryType
<1>4. [r EXCEPT !.tx = None].generation = r.generation /\ [r EXCEPT !.tx = None].closing = r.closing
      /\ [r EXCEPT !.tx = None].tx = None
  BY DEF EntryType
<1>5. [[r EXCEPT !.tx = None] EXCEPT !.status = "ended"].status = "ended"
  BY DEF EntryType
<1> QED
  BY <1>1, <1>2, <1>3, <1>4, <1>5, StatusTyped

\* A superseded task is not the one whose channel its entry has.
LEMMA SupersededHeld ==
  ASSUME Tasked, NEW c \in Conns, Running(c), ~Matches(c)
  PROVE  entry[conn[c].id].tx # c
<1>1. conn[c].id \in Ids
  BY OwnEntry
<1> QED
  BY <1>1, WebSocketsAssumption DEF Tasked, LiveHasTask, Live, Matches

LEMMA TaskRuns ==
  ASSUME NEW c \in Conns, At(c, "dialing") \/ At(c, "open") \/ At(c, "closing")
  PROVE  Running(c)
BY DEF At, Running

LEMMA OpenEffect ==
  ASSUME Tasked, NEW c \in Conns, RecordOpen(c)
  PROVE  TaskEffect(c)
<1>1. Running(c)
  BY TaskRuns DEF RecordOpen
<1>2. "connected" \in Statuses /\ "open" \in Phases \ {"none"}
  BY DEF Statuses, Phases
<1>3. /\ EntryEffect(c) /\ sweeping' \subseteq Conns /\ (~Matches(c) => entry' = entry)
      /\ entry'[conn[c].id].tx = EntryOf(c).tx
  BY <1>1, <1>2, OwnEntry, StatusTyped, RecordEffect DEF RecordOpen
<1>4. ConnEffect(c)
  <2>1. CASE Matches(c)
    BY <1>1, <1>2, <1>3, <2>1, MoveEffect DEF RecordOpen
  <2>2. CASE ~Matches(c)
    <3>1. entry'[conn[c].id].tx # c /\ End(c)
      BY <1>1, <1>3, <2>2, SupersededHeld DEF RecordOpen
    <3> QED
      BY <3>1, EndEffect
  <2> QED
    BY <2>1, <2>2
<1> QED
  BY <1>3, <1>4 DEF TaskEffect, RecordOpen, RestTyped, Tasked, Typed

LEMMA ReceivedEffect ==
  ASSUME Tasked, NEW c \in Conns, RecordReceived(c)
  PROVE  TaskEffect(c)
<1>1. Running(c)
  BY TaskRuns DEF RecordReceived
<1>2. EntryEffect(c) /\ sweeping' \subseteq Conns /\ entry'[conn[c].id].tx = EntryOf(c).tx
  BY <1>1, OwnEntry, RecordEffect DEF RecordReceived
<1>3. ConnEffect(c)
  BY <1>1, <1>2 DEF ConnEffect, RecordReceived, Tasked, Typed, ConnTyped, Running
<1> QED
  BY <1>2, <1>3 DEF TaskEffect, RecordReceived, RestTyped, Tasked, Typed

LEMMA ErrorEffect ==
  ASSUME Tasked, NEW c \in Conns, RecordError(c)
  PROVE  TaskEffect(c)
<1>1. Running(c)
  BY TaskRuns DEF RecordError
<1>2. "ended" \in Statuses /\ "closing" \in Phases \ {"none"}
  BY DEF Statuses, Phases
<1>3. EntryEffect(c) /\ sweeping' \subseteq Conns /\ entry'[conn[c].id].tx = EntryOf(c).tx
  <2>1. CASE EntryOf(c).closing
    BY <1>1, <2>1, OwnEntry, RecordEffect DEF RecordError
  <2>2. CASE ~EntryOf(c).closing
    BY <1>1, <1>2, <2>2, OwnEntry, StatusTyped, RecordEffect DEF RecordError
  <2> QED
    BY <2>1, <2>2
<1>4. ConnEffect(c)
  BY <1>1, <1>2, <1>3, MoveEffect DEF RecordError
<1> QED
  BY <1>3, <1>4 DEF TaskEffect, RecordError, RestTyped, Tasked, Typed

LEMMA PeerEffect ==
  ASSUME Tasked, NEW c \in Conns, PeerEnds(c)
  PROVE  TaskEffect(c)
<1>1. Running(c)
  BY TaskRuns DEF PeerEnds
<1>2. "closing" \in Phases \ {"none"}
  BY DEF Phases
<1>3. EntryEffect(c) /\ sweeping' \subseteq Conns /\ entry'[conn[c].id].tx = EntryOf(c).tx
  BY NoRecordEffect DEF PeerEnds
<1>4. ConnEffect(c)
  BY <1>1, <1>2, <1>3, MoveEffect DEF PeerEnds
<1> QED
  BY <1>3, <1>4 DEF TaskEffect, PeerEnds, RestTyped, Tasked, Typed

LEMMA CloseEffect ==
  ASSUME Tasked, NEW c \in Conns, RecordClose(c)
  PROVE  TaskEffect(c)
<1>1. Running(c)
  BY TaskRuns DEF RecordClose
<1> DEFINE s == [EntryOf(c) EXCEPT !.tx = None, !.status = "ended"]
<1>2. /\ s \in EntryType /\ s.generation = EntryOf(c).generation /\ s.closing = EntryOf(c).closing
      /\ s.tx = None /\ s.status = "ended"
  BY <1>1, OwnEntry, ClosedTyped
<1>3. Record(c, s)
  BY DEF RecordClose
<1> HIDE DEF s
<1>4. /\ EntryEffect(c) /\ sweeping' \subseteq Conns /\ (Matches(c) => entry'[conn[c].id] = s)
      /\ (~Matches(c) => entry' = entry)
  BY <1>1, <1>2, <1>3, RecordEffect
<1>5. entry'[conn[c].id].tx # c
  <2>1. CASE Matches(c)
    BY <1>2, <1>4, <2>1, WebSocketsAssumption
  <2>2. CASE ~Matches(c)
    BY <1>1, <1>4, <2>2, SupersededHeld
  <2> QED
    BY <2>1, <2>2
<1>6. ConnEffect(c)
  BY <1>5, EndEffect DEF RecordClose
<1> QED
  BY <1>4, <1>6 DEF TaskEffect, RecordClose, RestTyped, Tasked, Typed

\* A command is taken, and the task goes on or closes.
LEMMA TakenTyped ==
  ASSUME NEW r \in ConnType, r.inbox # <<>>, NEW phase \in Phases
  PROVE  LET t == [r EXCEPT !.inbox = Tail(r.inbox)]
             s == [t EXCEPT !.phase = phase]
         IN /\ t \in ConnType /\ t.generation = r.generation /\ t.id = r.id /\ t.phase = r.phase
            /\ t.inbox = Tail(r.inbox)
            /\ s \in ConnType /\ s.generation = r.generation /\ s.id = r.id /\ s.phase = phase
            /\ s.inbox = Tail(r.inbox)
<1> DEFINE t == [r EXCEPT !.inbox = Tail(r.inbox)]
<1>1. r.inbox \in Seq(Text)
  BY DEF ConnType
<1>2. Tail(r.inbox) \in Seq(Text)
  BY <1>1, HeadTailProperties
<1>3. /\ t \in ConnType /\ t.generation = r.generation /\ t.id = r.id /\ t.phase = r.phase
      /\ t.inbox = Tail(r.inbox)
  BY <1>2 DEF ConnType
<1> HIDE DEF t
<1>4. LET s == [t EXCEPT !.phase = phase] IN
      /\ s \in ConnType /\ s.generation = t.generation /\ s.id = t.id /\ s.phase = phase
      /\ s.inbox = t.inbox
  BY <1>3 DEF ConnType
<1> QED
  BY <1>3, <1>4 DEF t

LEMMA TakeEffect ==
  ASSUME Tasked, NEW c \in Conns, TakeCommand(c)
  PROVE  TaskEffect(c)
<1> DEFINE inbox == conn[c].inbox
           t == [conn[c] EXCEPT !.inbox = Tail(conn[c].inbox)]
           taken == [conn EXCEPT ![c].inbox = Tail(inbox)]
<1>1. Running(c)
  BY TaskRuns DEF TakeCommand
<1>2. EntryEffect(c) /\ sweeping' \subseteq Conns /\ entry'[conn[c].id].tx = EntryOf(c).tx
  BY NoRecordEffect DEF TakeCommand
<1>3. conn \in [Conns -> ConnType] /\ conn[c] \in ConnType
  BY DEF Tasked, Typed, ConnTyped
<1>4. "closing" \in Phases \ {"none"}
  BY DEF Phases
<1>5. ConnEffect(c)
  <2>1. CASE inbox = <<>>
    <3>1. entry'[conn[c].id].tx # c
      BY <2>1 DEF TakeCommand, Holds, EntryOf
    <3>2. Move(c, "closing") \/ End(c)
      BY <2>1 DEF TakeCommand
    <3> QED
      BY <1>1, <1>2, <1>4, <3>1, <3>2, MoveEffect, EndEffect
  <2>2. CASE inbox # <<>>
    <3>1. conn' = taken \/ conn' = [taken EXCEPT ![c].phase = "closing"]
      BY <2>2 DEF TakeCommand
    <3>2. taken = [conn EXCEPT ![c] = t]
      OBVIOUS
    <3>3. /\ t \in ConnType /\ t.generation = conn[c].generation /\ t.id = conn[c].id /\ t.phase = conn[c].phase
          /\ t.inbox = Tail(inbox)
          /\ [t EXCEPT !.phase = "closing"] \in ConnType
          /\ [t EXCEPT !.phase = "closing"].generation = conn[c].generation
          /\ [t EXCEPT !.phase = "closing"].id = conn[c].id
          /\ [t EXCEPT !.phase = "closing"].phase = "closing"
          /\ [t EXCEPT !.phase = "closing"].inbox = Tail(inbox)
      BY <1>3, <1>4, <2>2, TakenTyped
    <3> HIDE DEF t, taken
    <3>4. taken \in [Conns -> ConnType] /\ taken[c] = t /\ \A d \in Conns \ {c} : taken[d] = conn[d]
      BY <1>3, <3>2, <3>3
    <3>5. [taken EXCEPT ![c].phase = "closing"] = [taken EXCEPT ![c] = [t EXCEPT !.phase = "closing"]]
      BY <3>4
    <3>6. /\ conn' \in [Conns -> ConnType] /\ \A d \in Conns \ {c} : conn'[d] = conn[d]
          /\ conn'[c] = t \/ conn'[c] = [t EXCEPT !.phase = "closing"]
      BY <1>3, <3>1, <3>3, <3>4, <3>5
    <3>7. /\ conn'[c].generation = conn[c].generation /\ conn'[c].id = conn[c].id
          /\ conn'[c].phase # "none" /\ conn'[c].inbox = Tail(inbox)
      BY <1>1, <3>3, <3>6 DEF Running
    <3>8. ConnTyped'
      BY <1>1, <3>6, <3>7 DEF Tasked, Typed, ConnTyped, Running
    <3> QED
      BY <1>2, <2>2, <3>6, <3>7, <3>8 DEF ConnEffect, Running
  <2> QED
    BY <2>1, <2>2
<1> QED
  BY <1>2, <1>5 DEF TaskEffect, TakeCommand, RestTyped, Tasked, Typed

LEMMA StepEffect ==
  ASSUME Tasked, NEW c \in Conns, Task(c)
  PROVE  (Running(c) /\ TaskEffect(c)) \/ Evict(c)
BY OpenEffect, ReceivedEffect, ErrorEffect, PeerEffect, CloseEffect, TakeEffect, TaskRuns
   DEF Task, RecordOpen, RecordReceived, RecordError, PeerEnds, RecordClose, TakeCommand

LEMMA EffectTasked ==
  ASSUME Tasked, NEW c \in Conns, Running(c), TaskEffect(c)
  PROVE  Tasked'
<1>1. LiveHasTask'
  <2> SUFFICES ASSUME NEW j \in Ids, Live(j)'
               PROVE  (Running(entry[j].tx) /\ conn[entry[j].tx].id = j /\ Current(entry[j].tx))'
    BY DEF LiveHasTask
  <2> DEFINE d == entry[j].tx
  <2>1. entry'[j].tx = d /\ entry'[j].generation = entry[j].generation
    BY DEF TaskEffect, EntryEffect, Live
  <2>2. Live(j) /\ d \in Conns
    BY <2>1 DEF Live, Tasked, Typed, EntryTyped, EntryType
  <2>3. Running(d) /\ conn[d].id = j /\ Current(d)
    BY <2>2 DEF Tasked, LiveHasTask
  <2>4. conn'[d].phase # "none" /\ conn'[d].id = j /\ conn'[d].generation = conn[d].generation
    BY <2>1, <2>2, <2>3 DEF TaskEffect, ConnEffect, Running
  <2> QED
    BY <2>1, <2>3, <2>4 DEF Running, Current, EntryOf
<1> QED
  BY <1>1 DEF TaskEffect, EntryEffect, ConnEffect, Tasked, Typed, CallerTyped

\* What an eviction may do: an entry without a task may go, and is remembered when one of its tasks still runs.
LEMMA EvictSteps ==
  ASSUME Tasked, NEW c \in Conns, Evict(c)
  PROVE  /\ UNCHANGED <<conn, caller>> /\ sweeping' \subseteq sweeping /\ recycled \subseteq recycled'
         /\ recycled' \subseteq Ids /\ entry' \in [Ids -> EntryType]
         /\ \A j \in Ids : \/ entry'[j] = entry[j]
                           \/ /\ entry'[j] = NoEntry /\ ~Live(j)
                              /\ j \in recycled' \/ \A d \in Conns : Running(d) => conn[d].id # j
<1>1. PICK gone \in SUBSET Finished :
        /\ entry' = [i \in Ids |-> IF i \in gone THEN NoEntry ELSE entry[i]]
        /\ recycled' = recycled \cup {i \in gone : \E d \in Conns : Running(d) /\ conn[d].id = i}
  BY DEF Evict
<1>2. NoEntry \in EntryType /\ entry \in [Ids -> EntryType]
  BY DEF NoEntry, EntryType, Statuses, Tasked, Typed, EntryTyped
<1> HIDE DEF NoEntry
<1>3. gone \subseteq Ids /\ \A j \in gone : ~Live(j)
  BY DEF Finished
<1>4. UNCHANGED <<conn, caller>> /\ sweeping' \subseteq sweeping
  BY DEF Evict
<1>5. recycled' \subseteq Ids /\ recycled \subseteq recycled'
  BY <1>1, <1>3 DEF Tasked, Typed, RestTyped
<1>6. entry' \in [Ids -> EntryType]
  BY <1>1, <1>2
<1>7. ASSUME NEW j \in Ids
      PROVE  \/ entry'[j] = entry[j]
             \/ /\ entry'[j] = NoEntry /\ ~Live(j)
                /\ j \in recycled' \/ \A d \in Conns : Running(d) => conn[d].id # j
  BY <1>1, <1>3
<1> QED
  BY <1>4, <1>5, <1>6, <1>7

LEMMA EvictTasked ==
  ASSUME Tasked, NEW c \in Conns, Evict(c)
  PROVE  Tasked'
<1>1. /\ UNCHANGED <<conn, caller>> /\ sweeping' \subseteq sweeping /\ recycled' \subseteq Ids
      /\ entry' \in [Ids -> EntryType]
      /\ \A j \in Ids : entry'[j] = entry[j] \/ (entry'[j] = NoEntry /\ ~Live(j))
  BY EvictSteps
<1>2. EntryTyped'
  BY <1>1 DEF Tasked, Typed, EntryTyped, Exists
<1>3. LiveHasTask'
  <2> SUFFICES ASSUME NEW j \in Ids, Live(j)'
               PROVE  (Running(entry[j].tx) /\ conn[entry[j].tx].id = j /\ Current(entry[j].tx))'
    BY DEF LiveHasTask
  <2>1. entry'[j] = entry[j] /\ Live(j) /\ entry[j].tx \in Conns
    BY <1>1 DEF Live, NoEntry, Tasked, Typed, EntryTyped, EntryType
  <2>2. Running(entry[j].tx) /\ conn[entry[j].tx].id = j /\ Current(entry[j].tx)
    BY <2>1 DEF Tasked, LiveHasTask
  <2> QED
    BY <1>1, <2>1, <2>2 DEF Running, Current, EntryOf
<1> QED
  BY <1>1, <1>2, <1>3 DEF Tasked, Typed, ConnTyped, Running, CallerTyped, RestTyped

\* A step of the registry, a step of a task, or one that changes neither entries nor connections.
LEMMA StepCases ==
  ASSUME Tasked, [Next]_vars
  PROVE  \/ UNCHANGED <<entry, conn, recycled>>
         \/ \E k \in Callers : SendQueue(k)
         \/ \E k \in Callers : ConnectAdd(k)
         \/ \E i \in Ids : Disconnect(i)
         \/ \E c \in Conns : Running(c) /\ TaskEffect(c)
         \/ \E c \in Conns : Evict(c)
<1>1. CASE UNCHANGED vars
  BY <1>1 DEF vars
<1>2. ASSUME NEW k \in Callers, Command(k)
      PROVE  UNCHANGED <<entry, conn, recycled>> \/ SendQueue(k) \/ ConnectAdd(k)
  BY <1>2 DEF Command, ConnectLook, ConnectCount, SendLook
<1>3. ASSUME NEW c \in Conns, Task(c)
      PROVE  (Running(c) /\ TaskEffect(c)) \/ Evict(c)
  BY <1>3, StepEffect
<1> QED
  BY <1>1, <1>2, <1>3 DEF Next

LEMMA NextTasked == Tasked /\ [Next]_vars => Tasked'
<1> SUFFICES ASSUME Tasked, [Next]_vars PROVE Tasked'
  OBVIOUS
<1>1. CASE UNCHANGED vars
  BY <1>1 DEF vars, Tasked, Typed, EntryTyped, ConnTyped, CallerTyped, RestTyped, LiveHasTask, Live, Running, Exists,
              Current, EntryOf
<1>2. ASSUME NEW k \in Callers, Command(k) PROVE Tasked'
  BY <1>2, LookTasked, CountTasked, SendLookTasked, SendQueueTasked, AddTasked DEF Command
<1>3. ASSUME NEW c \in Conns, Task(c) PROVE Tasked'
  BY <1>3, StepEffect, EffectTasked, EvictTasked
<1>4. ASSUME NEW i \in Ids, Disconnect(i) PROVE Tasked'
  BY <1>4, DisconnectTasked
<1> QED
  BY <1>1, <1>2, <1>3, <1>4 DEF Next

LEMMA TaskedHolds == Spec => []Tasked
BY InitTasked, NextTasked, PTL DEF Spec

\* Every live entry has a running task whose reports it accepts (record_close clears `tx` for its own entry
\* only, connect_socket makes entry and task in one section).
THEOREM LiveTaskCorrect == Spec => []LiveHasTask
<1>1. Tasked => LiveHasTask
  BY DEF Tasked
<1> QED
  BY <1>1, TaskedHolds, PTL

---------------------------------------------------------------------------
(* A task's generation is its entry's only while the entry has its channel. *)

Owned ==
  \A c \in Conns : Running(c) /\ conn[c].id \notin recycled =>
    conn[c].generation <= EntryOf(c).generation /\ (Current(c) => Holds(c))

Owner == Tasked /\ Owned /\ ConnectedIsLive

\* The generations of entries and connections are numbers, and a task's entry is one.
LEMMA Numbers ==
  ASSUME Tasked
  PROVE  /\ \A i \in Ids : entry[i].generation \in Nat /\ entry[i].tx \in Conns \cup {None}
         /\ \A c \in Conns : conn[c].generation \in Nat
         /\ \A c \in Conns : Running(c) => conn[c].id \in Ids
BY DEF Tasked, Typed, EntryTyped, EntryType, ConnTyped, ConnType

LEMMA InitOwner == Init => Owner
<1>1. Init => Owned /\ ConnectedIsLive
  BY DEF Init, Owned, ConnectedIsLive, Running, NoConn, NoEntry
<1> QED
  BY <1>1, InitTasked DEF Owner

\* A step that keeps what the entries and connections say of each other.
LEMMA KeepsOwner ==
  ASSUME Tasked, Owned, ConnectedIsLive, UNCHANGED recycled,
         \A i \in Ids : entry'[i].generation = entry[i].generation /\ entry'[i].tx = entry[i].tx
                        /\ entry'[i].status = entry[i].status,
         \A c \in Conns : /\ conn'[c].phase = conn[c].phase /\ conn'[c].id = conn[c].id
                          /\ conn'[c].generation = conn[c].generation
  PROVE  Owned' /\ ConnectedIsLive'
<1>1. ConnectedIsLive'
  BY DEF ConnectedIsLive, Live
<1>2. ASSUME NEW c \in Conns, Running(c)', conn'[c].id \notin recycled
      PROVE  conn'[c].generation <= entry'[conn'[c].id].generation /\ (Current(c)' => Holds(c)')
  <2>1. Running(c) /\ conn[c].id \notin recycled /\ conn[c].id \in Ids
    BY <1>2, Numbers DEF Running
  <2>2. conn[c].generation <= EntryOf(c).generation /\ (Current(c) => Holds(c))
    BY <2>1 DEF Owned
  <2> QED
    BY <2>1, <2>2 DEF Current, Holds, EntryOf
<1> QED
  BY <1>1, <1>2 DEF Owned, EntryOf

LEMMA AddOwner ==
  ASSUME Owner, NEW k \in Callers, ConnectAdd(k)
  PROVE  Owned' /\ ConnectedIsLive'
<1> DEFINE i == caller[k].id
           told == Told(entry[i].tx)
<1>1. /\ i \in Ids /\ entry[i].generation \in Nat /\ UNCHANGED recycled
      /\ \A j \in Ids \ {i} : entry'[j] = entry[j]
      /\ entry' \in [Ids -> EntryType]
  BY AddSteps DEF Owner
<1>2. /\ told \in [Conns -> ConnType]
      /\ \A c \in Conns : /\ told[c].id = conn[c].id /\ told[c].phase = conn[c].phase
                          /\ told[c].generation = conn[c].generation
  BY ToldTyped DEF Owner
<1>3. PICK tx \in Conns \cup {None}, status \in Statuses :
        /\ entry'[i] = [generation |-> entry[i].generation + 1, tx |-> tx, status |-> status, closing |-> FALSE]
        /\ \/ /\ tx \in Conns /\ ~Running(tx)
              /\ conn' = [told EXCEPT ![tx] =
                            [generation |-> entry[i].generation + 1, id |-> i, phase |-> "dialing", inbox |-> <<>>]]
           \/ tx = None /\ status = "ended" /\ conn' = told
  BY AddSteps DEF Owner, Statuses
<1> HIDE DEF told
<1>4. /\ tx \in Conns => conn'[tx].id = i /\ conn'[tx].generation = entry[i].generation + 1
      /\ \A d \in Conns \ {tx} : conn'[d] = told[d]
  BY <1>2, <1>3, WebSocketsAssumption
<1>5. ConnectedIsLive'
  <2> SUFFICES ASSUME NEW j \in Ids, j \notin recycled', entry'[j].status \in {"connecting", "connected"}
               PROVE  Live(j)'
    BY DEF ConnectedIsLive
  <2>1. CASE j = i
    BY <1>3, <2>1, WebSocketsAssumption DEF Live
  <2>2. CASE j # i
    BY <1>1, <2>2 DEF Owner, ConnectedIsLive, Live
  <2> QED
    BY <2>1, <2>2
<1>6. Owned'
  <2> SUFFICES ASSUME NEW d \in Conns, Running(d)', conn'[d].id \notin recycled'
               PROVE  conn'[d].generation <= entry'[conn'[d].id].generation /\ (Current(d)' => Holds(d)')
    BY DEF Owned, EntryOf
  <2>1. CASE d = tx
    BY <1>1, <1>3, <1>4, <2>1 DEF Current, Holds, EntryOf
  <2>2. CASE d # tx
    <3>1. /\ conn'[d].id = conn[d].id /\ conn'[d].generation = conn[d].generation
          /\ Running(d) /\ conn[d].id \notin recycled
      BY <1>1, <1>2, <1>4, <2>2 DEF Running
    <3>2. /\ conn[d].generation <= EntryOf(d).generation /\ (Current(d) => Holds(d))
          /\ conn[d].id \in Ids /\ conn[d].generation \in Nat
      BY <3>1, Numbers DEF Owner, Owned
    <3>3. CASE conn[d].id = i
      <4>1. conn[d].generation <= entry[i].generation /\ entry'[i].generation = entry[i].generation + 1
        BY <1>3, <3>2, <3>3 DEF EntryOf
      <4> QED
        BY <1>1, <3>1, <3>2, <3>3, <4>1 DEF Current, EntryOf
    <3>4. CASE conn[d].id # i
      BY <1>1, <3>1, <3>2, <3>4 DEF Current, Holds, EntryOf
    <3> QED
      BY <3>3, <3>4
  <2> QED
    BY <2>1, <2>2
<1> QED
  BY <1>5, <1>6

LEMMA EffectOwner ==
  ASSUME Owner, NEW c \in Conns, Running(c), TaskEffect(c)
  PROVE  Owned' /\ ConnectedIsLive'
<1> DEFINE i == conn[c].id
<1>1. /\ UNCHANGED recycled /\ i \in Ids /\ EntryOf(c) = entry[i]
      /\ \A j \in Ids \ {i} : entry'[j] = entry[j]
      /\ entry'[i].generation = entry[i].generation
      /\ \/ entry'[i] = entry[i]
         \/ Current(c) /\ entry'[i].tx = entry[i].tx
         \/ Current(c) /\ entry'[i].tx = None /\ entry'[i].status = "ended"
  BY Numbers DEF Owner, TaskEffect, EntryEffect, EntryOf
<1>2. i \notin recycled /\ Current(c) => entry[i].tx = c
  BY <1>1 DEF Owner, Owned, Holds
<1>3. ConnectedIsLive'
  <2> SUFFICES ASSUME NEW j \in Ids, j \notin recycled', entry'[j].status \in {"connecting", "connected"}
               PROVE  Live(j)'
    BY DEF ConnectedIsLive
  <2>1. CASE entry'[j] = entry[j]
    BY <1>1, <2>1 DEF Owner, ConnectedIsLive, Live
  <2>2. CASE entry'[j] # entry[j]
    BY <1>1, <1>2, <2>2, WebSocketsAssumption DEF Live
  <2> QED
    BY <2>1, <2>2
<1>4. Owned'
  <2> SUFFICES ASSUME NEW d \in Conns, Running(d)', conn'[d].id \notin recycled'
               PROVE  conn'[d].generation <= entry'[conn'[d].id].generation /\ (Current(d)' => Holds(d)')
    BY DEF Owned, EntryOf
  <2>1. /\ conn'[d].id = conn[d].id /\ conn'[d].generation = conn[d].generation /\ Running(d)
        /\ d = c => entry'[i].tx = entry[i].tx
    <3>1. CASE d = c
      <4>1. conn'[c] # NoConn
        BY <3>1 DEF Running, NoConn
      <4> QED
        BY <1>1, <3>1, <4>1 DEF TaskEffect, ConnEffect
    <3>2. CASE d # c
      BY <3>2 DEF TaskEffect, ConnEffect, Running
    <3> QED
      BY <3>1, <3>2
  <2>2. /\ conn[d].generation <= EntryOf(d).generation /\ (Current(d) => Holds(d)) /\ conn[d].id \in Ids
        /\ conn[d].id \notin recycled
    BY <1>1, <2>1, Numbers DEF Owner, Owned
  <2>3. entry'[conn[d].id].generation = entry[conn[d].id].generation
    BY <1>1, <2>2
  <2>4. ASSUME Current(d)' PROVE Holds(d)'
    <3>1. Current(d) /\ entry[conn[d].id].tx = d
      BY <2>1, <2>2, <2>3, <2>4 DEF Current, Holds, EntryOf
    <3>2. CASE conn[d].id = i
      <4>1. entry'[i].tx = entry[i].tx
        BY <1>1, <1>2, <2>1, <2>2, <3>1, <3>2
      <4> QED
        BY <2>1, <3>1, <3>2, <4>1 DEF Holds, EntryOf
    <3>3. CASE conn[d].id # i
      BY <1>1, <2>1, <2>2, <3>1, <3>3 DEF Holds, EntryOf
    <3> QED
      BY <3>2, <3>3
  <2> QED
    BY <2>1, <2>2, <2>3, <2>4 DEF EntryOf
<1> QED
  BY <1>3, <1>4

LEMMA EvictOwner ==
  ASSUME Owner, NEW c \in Conns, Evict(c)
  PROVE  Owned' /\ ConnectedIsLive'
<1>1. /\ UNCHANGED conn /\ recycled \subseteq recycled'
      /\ \A j \in Ids : \/ entry'[j] = entry[j]
                        \/ /\ entry'[j] = NoEntry
                           /\ j \in recycled' \/ \A d \in Conns : Running(d) => conn[d].id # j
  BY EvictSteps DEF Owner
<1>2. ConnectedIsLive'
  BY <1>1 DEF Owner, ConnectedIsLive, Live, NoEntry
<1>3. Owned'
  <2> SUFFICES ASSUME NEW d \in Conns, Running(d)', conn'[d].id \notin recycled'
               PROVE  conn'[d].generation <= entry'[conn'[d].id].generation /\ (Current(d)' => Holds(d)')
    BY DEF Owned, EntryOf
  <2>1. Running(d) /\ conn[d].id \notin recycled /\ conn[d].id \in Ids
    BY <1>1, Numbers DEF Running, Owner
  <2>2. entry'[conn[d].id] = entry[conn[d].id]
    BY <1>1, <2>1
  <2> QED
    BY <1>1, <2>1, <2>2 DEF Owner, Owned, Current, Holds, EntryOf
<1> QED
  BY <1>2, <1>3

LEMMA SendQueueKeeps ==
  ASSUME Tasked, NEW k \in Callers, SendQueue(k)
  PROVE  /\ UNCHANGED <<entry, recycled>>
         /\ \A c \in Conns :
              /\ conn'[c].phase = conn[c].phase /\ conn'[c].id = conn[c].id
              /\ conn'[c].generation = conn[c].generation
              /\ \/ conn'[c].inbox = conn[c].inbox
                 \/ /\ conn'[c].inbox = Append(conn[c].inbox, "send") /\ Running(c) /\ Holds(c)
                    /\ ~EntryOf(c).closing
<1> DEFINE i == caller[k].id
           c == entry[i].tx
           r == [conn[c] EXCEPT !.inbox = Append(@, "send")]
<1>1. CASE StillOpen(i) /\ Running(c)
  <2>1. i \in Ids /\ Live(i) /\ ~entry[i].closing
    BY <1>1, PlaceOfThread DEF SendQueue, Tasked, Typed, StillOpen, Sendable
  <2>2. c \in Conns /\ conn[c].id = i
    BY <2>1 DEF Live, Tasked, LiveHasTask, Typed, EntryTyped, EntryType
  <2>3. conn[c] \in ConnType /\ conn \in [Conns -> ConnType]
    BY <2>2 DEF Tasked, Typed, ConnTyped
  <2>4. /\ r.phase = conn[c].phase /\ r.id = conn[c].id /\ r.generation = conn[c].generation
        /\ r.inbox = Append(conn[c].inbox, "send")
    BY <2>3, Queued DEF Text
  <2>5. conn' = [conn EXCEPT ![c] = r] /\ UNCHANGED <<entry, recycled>>
    BY <1>1 DEF SendQueue
  <2> HIDE DEF r
  <2>6. conn'[c] = r /\ \A d \in Conns \ {c} : conn'[d] = conn[d]
    BY <2>2, <2>3, <2>5
  <2>7. Holds(c) /\ ~EntryOf(c).closing
    BY <2>1, <2>2 DEF Holds, EntryOf
  <2> QED
    BY <1>1, <2>4, <2>5, <2>6, <2>7
<1>2. CASE ~(StillOpen(i) /\ Running(c))
  BY <1>2 DEF SendQueue
<1> QED
  BY <1>1, <1>2

LEMMA NextOwner == Owner /\ [Next]_vars => Owner'
<1> SUFFICES ASSUME Owner, [Next]_vars PROVE Owner'
  OBVIOUS
<1> USE DEF Owner
<1>1. Tasked'
  BY NextTasked
<1>2. CASE UNCHANGED <<entry, conn, recycled>>
  BY <1>1, <1>2, KeepsOwner
<1>3. ASSUME NEW k \in Callers, SendQueue(k) PROVE Owner'
  BY <1>1, <1>3, SendQueueKeeps, KeepsOwner
<1>4. ASSUME NEW k \in Callers, ConnectAdd(k) PROVE Owner'
  BY <1>1, <1>4, AddOwner
<1>5. ASSUME NEW i \in Ids, Disconnect(i) PROVE Owner'
  <2>1. /\ Told(entry[i].tx) = conn' /\ UNCHANGED recycled
        /\ \A j \in Ids : entry'[j].generation = entry[j].generation /\ entry'[j].tx = entry[j].tx
                          /\ entry'[j].status = entry[j].status
    BY <1>5, DisconnectTasked
  <2> QED
    BY <1>1, <2>1, ToldTyped, KeepsOwner
<1>6. ASSUME NEW c \in Conns, Running(c) /\ TaskEffect(c) PROVE Owner'
  BY <1>1, <1>6, EffectOwner
<1>7. ASSUME NEW c \in Conns, Evict(c) PROVE Owner'
  BY <1>1, <1>7, EvictOwner
<1> QED
  BY <1>2, <1>3, <1>4, <1>5, <1>6, <1>7, StepCases

\* An entry that says connecting or connected is live, unless it was evicted while a task of its id still ran
\* (connect_socket raises the generation in the section that replaces the channel, so no other task matches).
THEOREM ConnectedCorrect == Spec => []ConnectedIsLive
<1>1. Owner => ConnectedIsLive
  BY DEF Owner
<1> QED
  BY <1>1, InitOwner, NextOwner, PTL DEF Spec

---------------------------------------------------------------------------
(* A channel is closed for texts once a close is in it. *)

CloseTold ==
  \A c \in Conns : Running(c) /\ Holds(c) =>
    EntryOf(c).closing \/ \A n \in 1..Len(conn[c].inbox) : conn[c].inbox[n] # "close"

Closed == Tasked /\ CloseTold /\ NoSendAfterClose

CloseLast(q) == \A m, n \in 1..Len(q) : m < n /\ q[n] = "send" => q[m] # "close"

LEMMA InboxTyped ==
  ASSUME Tasked, NEW c \in Conns
  PROVE  conn[c].inbox \in Seq(Text)
BY DEF Tasked, Typed, ConnTyped, ConnType

LEMMA CloseAppended ==
  ASSUME NEW q \in Seq(Text), CloseLast(q)
  PROVE  CloseLast(Append(q, "close"))
<1>1. /\ Len(Append(q, "close")) = Len(q) + 1 /\ Len(q) \in Nat
      /\ \A n \in 1..Len(q) : Append(q, "close")[n] = q[n]
      /\ Append(q, "close")[Len(q) + 1] = "close"
  BY AppendProperties DEF Text
<1> QED
  BY <1>1 DEF CloseLast

LEMMA SendAppended ==
  ASSUME NEW q \in Seq(Text), \A n \in 1..Len(q) : q[n] # "close"
  PROVE  /\ CloseLast(Append(q, "send"))
         /\ \A n \in 1..Len(Append(q, "send")) : Append(q, "send")[n] # "close"
<1>1. /\ Len(Append(q, "send")) = Len(q) + 1 /\ Len(q) \in Nat
      /\ \A n \in 1..Len(q) : Append(q, "send")[n] = q[n]
      /\ Append(q, "send")[Len(q) + 1] = "send"
  BY AppendProperties DEF Text
<1>2. \A n \in 1..Len(Append(q, "send")) : Append(q, "send")[n] # "close"
  BY <1>1
<1> QED
  BY <1>2 DEF CloseLast

LEMMA Shortened ==
  ASSUME NEW q \in Seq(Text), q # <<>>
  PROVE  /\ CloseLast(q) => CloseLast(Tail(q))
         /\ (\A n \in 1..Len(q) : q[n] # "close") => \A n \in 1..Len(Tail(q)) : Tail(q)[n] # "close"
<1>1. Len(q) \in Nat \ {0} /\ Len(Tail(q)) = Len(q) - 1 /\ \A n \in 1..Len(Tail(q)) : Tail(q)[n] = q[n+1]
  BY HeadTailProperties, EmptySeq
<1>2. \A n \in 1..Len(Tail(q)) : n + 1 \in 1..Len(q)
  BY <1>1
<1>3. ASSUME CloseLast(q), NEW m \in 1..Len(Tail(q)), NEW n \in 1..Len(Tail(q)), m < n, Tail(q)[n] = "send"
      PROVE  Tail(q)[m] # "close"
  <2>1. m + 1 \in 1..Len(q) /\ n + 1 \in 1..Len(q) /\ m + 1 < n + 1
    BY <1>1, <1>2, <1>3
  <2> QED
    BY <1>1, <1>3, <2>1 DEF CloseLast
<1> QED
  BY <1>1, <1>2, <1>3 DEF CloseLast

LEMMA InitClosed == Init => Closed
<1>1. Init => CloseTold /\ NoSendAfterClose
  BY DEF Init, CloseTold, NoSendAfterClose, Running, NoConn
<1> QED
  BY <1>1, InitTasked DEF Closed

LEMMA SendClosed ==
  ASSUME Closed, NEW k \in Callers, SendQueue(k)
  PROVE  CloseTold' /\ NoSendAfterClose'
<1>1. UNCHANGED entry
  BY SendQueueKeeps DEF Closed
<1>2. ASSUME NEW c \in Conns
      PROVE  /\ CloseLast(conn'[c].inbox)
             /\ Running(c)' /\ Holds(c)' =>
                  EntryOf(c)'.closing \/ \A n \in 1..Len(conn'[c].inbox) : conn'[c].inbox[n] # "close"
  <2>1. /\ conn'[c].phase = conn[c].phase /\ conn'[c].id = conn[c].id
        /\ \/ conn'[c].inbox = conn[c].inbox
           \/ /\ conn'[c].inbox = Append(conn[c].inbox, "send") /\ Running(c) /\ Holds(c)
              /\ ~EntryOf(c).closing
    BY SendQueueKeeps DEF Closed
  <2>2. /\ CloseLast(conn[c].inbox) /\ conn[c].inbox \in Seq(Text)
        /\ Running(c) /\ Holds(c) =>
                  EntryOf(c).closing \/ \A n \in 1..Len(conn[c].inbox) : conn[c].inbox[n] # "close"
    BY InboxTyped DEF Closed, NoSendAfterClose, CloseTold, CloseLast
  <2>3. CASE conn'[c].inbox = conn[c].inbox
    BY <1>1, <2>1, <2>2, <2>3 DEF Running, Holds, EntryOf
  <2>4. CASE /\ conn'[c].inbox = Append(conn[c].inbox, "send") /\ Running(c) /\ Holds(c)
             /\ ~EntryOf(c).closing
    BY <2>2, <2>4, SendAppended
  <2> QED
    BY <2>1, <2>3, <2>4
<1> QED
  BY <1>2 DEF CloseTold, NoSendAfterClose, CloseLast

LEMMA ToldLast ==
  ASSUME Closed, NEW old, NEW c \in Conns
  PROVE  CloseLast(Told(old)[c].inbox)
<1>1. CloseLast(conn[c].inbox) /\ conn[c].inbox \in Seq(Text)
  BY InboxTyped DEF Closed, NoSendAfterClose, CloseLast
<1>2. Told(old)[c].inbox = IF c = old THEN Append(conn[c].inbox, "close") ELSE conn[c].inbox
  BY ToldTyped DEF Closed
<1> QED
  BY <1>1, <1>2, CloseAppended

LEMMA DisconnectClosed ==
  ASSUME Closed, NEW i \in Ids, Disconnect(i)
  PROVE  CloseTold' /\ NoSendAfterClose'
<1> DEFINE t == entry[i].tx
<1>1. /\ t \in Conns /\ conn' = Told(t) /\ entry'[i].closing
      /\ \A j \in Ids : entry'[j].tx = entry[j].tx /\ (j # i => entry'[j] = entry[j])
  BY DisconnectTasked DEF Closed
<1>2. Running(t) /\ conn[t].id = i
  BY <1>1, WebSocketsAssumption DEF Closed, Tasked, LiveHasTask, Live
<1>3. NoSendAfterClose'
  BY <1>1, ToldLast DEF NoSendAfterClose, CloseLast
<1>4. ASSUME NEW c \in Conns, Running(c)', Holds(c)'
      PROVE  EntryOf(c)'.closing \/ \A n \in 1..Len(conn'[c].inbox) : conn'[c].inbox[n] # "close"
  <2>1. /\ conn'[c].phase = conn[c].phase /\ conn'[c].id = conn[c].id
        /\ conn'[c].inbox = IF c = t THEN Append(conn[c].inbox, "close") ELSE conn[c].inbox
    BY <1>1, ToldTyped DEF Closed
  <2>2. Running(c) /\ conn[c].id \in Ids
    BY <1>4, <2>1, Numbers DEF Running, Closed
  <2>3. CASE conn[c].id = i
    BY <1>1, <2>1, <2>3 DEF EntryOf
  <2>4. CASE conn[c].id # i
    <3>1. c # t /\ entry'[conn[c].id] = entry[conn[c].id]
      BY <1>1, <1>2, <2>2, <2>4
    <3> QED
      BY <1>4, <2>1, <2>2, <3>1 DEF Closed, CloseTold, Holds, EntryOf
  <2> QED
    BY <2>3, <2>4
<1> QED
  BY <1>3, <1>4 DEF CloseTold

LEMMA AddClosed ==
  ASSUME Closed, NEW k \in Callers, ConnectAdd(k)
  PROVE  CloseTold' /\ NoSendAfterClose'
<1> DEFINE i == caller[k].id
           told == Told(entry[i].tx)
<1>1. i \in Ids /\ \A j \in Ids \ {i} : entry'[j] = entry[j]
  BY AddSteps DEF Closed
<1>2. PICK tx \in Conns \cup {None}, status \in Statuses :
        /\ entry'[i] = [generation |-> entry[i].generation + 1, tx |-> tx, status |-> status, closing |-> FALSE]
        /\ \/ /\ tx \in Conns
              /\ conn' = [told EXCEPT ![tx] =
                            [generation |-> entry[i].generation + 1, id |-> i, phase |-> "dialing", inbox |-> <<>>]]
           \/ tx = None /\ conn' = told
  BY AddSteps DEF Closed, Statuses
<1>3. /\ told \in [Conns -> ConnType]
      /\ \A c \in Conns : /\ told[c].id = conn[c].id /\ told[c].phase = conn[c].phase
                          /\ told[c].inbox = IF c = entry[i].tx THEN Append(conn[c].inbox, "close") ELSE conn[c].inbox
                          /\ CloseLast(told[c].inbox)
  BY ToldTyped, ToldLast DEF Closed
<1> HIDE DEF told
<1>4. /\ tx \in Conns => conn'[tx].inbox = <<>>
      /\ \A d \in Conns \ {tx} : conn'[d] = told[d]
  BY <1>2, <1>3, WebSocketsAssumption
<1>5. NoSendAfterClose'
  <2>1. ASSUME NEW c \in Conns PROVE CloseLast(conn'[c].inbox)
    BY <1>3, <1>4 DEF CloseLast
  <2> QED
    BY <2>1 DEF NoSendAfterClose, CloseLast
<1>6. ASSUME NEW c \in Conns, Running(c)', Holds(c)'
      PROVE  EntryOf(c)'.closing \/ \A n \in 1..Len(conn'[c].inbox) : conn'[c].inbox[n] # "close"
  <2>1. CASE c = tx
    BY <1>4, <2>1
  <2>2. CASE c # tx
    <3>1. conn'[c].id = conn[c].id /\ Running(c) /\ conn[c].id \in Ids
      BY <1>3, <1>4, <1>6, <2>2, Numbers DEF Running, Closed
    <3>2. conn[c].id # i
      BY <1>2, <1>6, <2>2, <3>1 DEF Holds, EntryOf
    <3>3. c # entry[i].tx
      BY <1>1, <3>2, WebSocketsAssumption DEF Closed, Tasked, LiveHasTask, Live
    <3>4. entry'[conn[c].id] = entry[conn[c].id] /\ conn'[c].inbox = conn[c].inbox
      BY <1>1, <1>3, <1>4, <2>2, <3>1, <3>2, <3>3
    <3> QED
      BY <1>6, <3>1, <3>4 DEF Closed, CloseTold, Holds, EntryOf
  <2> QED
    BY <2>1, <2>2
<1> QED
  BY <1>5, <1>6 DEF CloseTold

LEMMA EffectClosed ==
  ASSUME Closed, NEW c \in Conns, Running(c), TaskEffect(c)
  PROVE  CloseTold' /\ NoSendAfterClose'
<1> DEFINE i == conn[c].id
<1>1. /\ \A j \in Ids : entry'[j].closing = entry[j].closing /\ (entry'[j].tx = entry[j].tx \/ entry'[j].tx = None)
      /\ \A d \in Conns \ {c} : conn'[d] = conn[d]
  BY DEF TaskEffect, EntryEffect, ConnEffect
<1>2. \/ conn'[c] = NoConn
      \/ /\ conn'[c].id = conn[c].id
         /\ conn'[c].inbox = conn[c].inbox \/ (conn[c].inbox # <<>> /\ conn'[c].inbox = Tail(conn[c].inbox))
  BY DEF TaskEffect, ConnEffect
<1>3. ASSUME NEW d \in Conns
      PROVE  /\ CloseLast(conn'[d].inbox)
             /\ Running(d)' /\ Holds(d)' =>
                  EntryOf(d)'.closing \/ \A n \in 1..Len(conn'[d].inbox) : conn'[d].inbox[n] # "close"
  <2>1. /\ CloseLast(conn[d].inbox) /\ conn[d].inbox \in Seq(Text)
        /\ Running(d) /\ Holds(d) =>
                  EntryOf(d).closing \/ \A n \in 1..Len(conn[d].inbox) : conn[d].inbox[n] # "close"
    BY InboxTyped DEF Closed, NoSendAfterClose, CloseTold, CloseLast
  <2>2. CASE d = c /\ conn'[c] = NoConn
    BY <2>2 DEF NoConn, Running, CloseLast
  <2>3. CASE ~(d = c /\ conn'[c] = NoConn)
    <3>1. /\ conn'[d].id = conn[d].id
          /\ conn'[d].inbox = conn[d].inbox \/ (conn[d].inbox # <<>> /\ conn'[d].inbox = Tail(conn[d].inbox))
      BY <1>1, <1>2, <2>3
    <3>2. /\ CloseLast(conn'[d].inbox)
          /\ (\A n \in 1..Len(conn[d].inbox) : conn[d].inbox[n] # "close")
               => \A n \in 1..Len(conn'[d].inbox) : conn'[d].inbox[n] # "close"
      BY <2>1, <3>1, Shortened
    <3>3. Running(d)' => Running(d) /\ conn[d].id \in Ids
      BY <1>1, Numbers DEF Running, Closed
    <3>4. Running(d)' /\ Holds(d)' => Holds(d) /\ EntryOf(d)'.closing = EntryOf(d).closing
      BY <1>1, <3>1, <3>3, WebSocketsAssumption DEF Holds, EntryOf
    <3> QED
      BY <2>1, <3>2, <3>3, <3>4
  <2> QED
    BY <2>2, <2>3
<1> QED
  BY <1>3 DEF CloseTold, NoSendAfterClose, CloseLast

LEMMA EvictClosed ==
  ASSUME Closed, NEW c \in Conns, Evict(c)
  PROVE  CloseTold' /\ NoSendAfterClose'
<1>1. UNCHANGED conn /\ \A j \in Ids : entry'[j] = entry[j] \/ entry'[j].tx = None
  BY EvictSteps DEF Closed, NoEntry
<1>2. NoSendAfterClose'
  BY <1>1 DEF Closed, NoSendAfterClose
<1>3. ASSUME NEW d \in Conns, Running(d)', Holds(d)'
      PROVE  EntryOf(d)'.closing \/ \A n \in 1..Len(conn'[d].inbox) : conn'[d].inbox[n] # "close"
  <2>1. Running(d) /\ conn[d].id \in Ids
    BY <1>1, <1>3, Numbers DEF Running, Closed
  <2>2. entry'[conn[d].id] = entry[conn[d].id]
    BY <1>1, <1>3, <2>1, WebSocketsAssumption DEF Holds, EntryOf
  <2> QED
    BY <1>1, <1>3, <2>1, <2>2 DEF Closed, CloseTold, Holds, EntryOf
<1> QED
  BY <1>2, <1>3 DEF CloseTold

LEMMA NextClosed == Closed /\ [Next]_vars => Closed'
<1> SUFFICES ASSUME Closed, [Next]_vars PROVE Closed'
  OBVIOUS
<1> USE DEF Closed
<1>1. Tasked'
  BY NextTasked
<1>2. CASE UNCHANGED <<entry, conn, recycled>>
  BY <1>1, <1>2 DEF CloseTold, NoSendAfterClose, Running, Holds, EntryOf
<1>3. ASSUME NEW k \in Callers, SendQueue(k) PROVE Closed'
  BY <1>1, <1>3, SendClosed
<1>4. ASSUME NEW k \in Callers, ConnectAdd(k) PROVE Closed'
  BY <1>1, <1>4, AddClosed
<1>5. ASSUME NEW i \in Ids, Disconnect(i) PROVE Closed'
  BY <1>1, <1>5, DisconnectClosed
<1>6. ASSUME NEW c \in Conns, Running(c) /\ TaskEffect(c) PROVE Closed'
  BY <1>1, <1>6, EffectClosed
<1>7. ASSUME NEW c \in Conns, Evict(c) PROVE Closed'
  BY <1>1, <1>7, EvictClosed
<1> QED
  BY <1>2, <1>3, <1>4, <1>5, <1>6, <1>7, StepCases

\* No text is queued behind a close: what put the close there also marked the entry as closing, or took the
\* channel out of it (disconnect_socket, connect_socket), and send_socket_message looks again under the lock.
THEOREM NoSendAfterCloseCorrect == Spec => []NoSendAfterClose
<1>1. Closed => NoSendAfterClose
  BY DEF Closed
<1> QED
  BY <1>1, InitClosed, NextClosed, PTL DEF Spec

---------------------------------------------------------------------------
(* The limit. *)

Targets(place) == {place[k].id : k \in {x \in Callers : place[x].at = "adding"}}
LiveIds        == {i \in Ids : Live(i)}

Limited == Tasked /\ LimitUpToRaces

LEMMA TargetsBounded ==
  ASSUME NEW place
  PROVE  IsFiniteSet(Targets(place)) /\ Cardinality(Targets(place)) <= Cardinality(Callers)
<1> DEFINE A == {x \in Callers : place[x].at = "adding"}
           f == [k \in A |-> place[k].id]
<1>1. IsFiniteSet(A) /\ Cardinality(A) <= Cardinality(Callers)
  BY WebSocketsAssumption, FS_Subset
<1>2. f \in Surjection(A, Targets(place))
  BY DEF Surjection, Targets
<1>3. IsFiniteSet(Targets(place)) /\ Cardinality(Targets(place)) <= Cardinality(A)
  BY <1>1, <1>2, FS_Surjection
<1>4. Cardinality(Targets(place)) \in Nat /\ Cardinality(A) \in Nat /\ Cardinality(Callers) \in Nat
  BY <1>1, <1>3, WebSocketsAssumption, FS_CardinalityType
<1> QED
  BY <1>1, <1>3, <1>4

\* No more ids than before are live or about to be.
LEMMA KeepsLimit ==
  ASSUME Limited, Committed' \subseteq Committed
  PROVE  LimitUpToRaces'
<1>1. IsFiniteSet(Committed) /\ IsFiniteSet(Ids)
  BY WebSocketsAssumption, FS_Subset DEF Committed
<1>2. IsFiniteSet(Committed') /\ Cardinality(Committed') <= Cardinality(Committed)
  BY <1>1, FS_Subset
<1>3. /\ Cardinality(Committed) \in Nat /\ Cardinality(Committed') \in Nat
      /\ Cardinality(Callers) \in Nat /\ MaxLive \in Nat
  BY <1>1, <1>2, WebSocketsAssumption, FS_CardinalityType
<1> QED
  BY <1>2, <1>3 DEF Limited, LimitUpToRaces

\* A connect that finds room leaves the ids of the other adding callers to be counted on top of what is live.
LEMMA CountLimit ==
  ASSUME Limited, NEW k \in Callers, ConnectCount(k)
  PROVE  LimitUpToRaces'
<1>1. UNCHANGED entry
  BY DEF ConnectCount
<1>2. CASE Room
  <2>1. IsFiniteSet(LiveIds) /\ Cardinality(LiveIds) <= MaxLive - 1
    <3>1. LiveIds = {i \in Ids : Live(i)} /\ Cardinality(LiveIds) < MaxLive
      BY <1>2 DEF LiveIds, Room, LiveCount
    <3>2. IsFiniteSet(LiveIds)
      BY WebSocketsAssumption, FS_Subset DEF LiveIds
    <3> QED
      BY <3>1, <3>2, WebSocketsAssumption, FS_CardinalityType
  <2>2. IsFiniteSet(Targets(caller')) /\ Cardinality(Targets(caller')) <= Cardinality(Callers)
    BY TargetsBounded
  <2>3. Committed' \subseteq LiveIds \cup Targets(caller')
    BY <1>1 DEF Committed, LiveIds, Targets, Live
  <2>4. /\ IsFiniteSet(LiveIds \cup Targets(caller'))
        /\ Cardinality(LiveIds \cup Targets(caller'))
             = Cardinality(LiveIds) + Cardinality(Targets(caller')) - Cardinality(LiveIds \cap Targets(caller'))
    BY <2>1, <2>2, FS_Union
  <2>5. IsFiniteSet(LiveIds \cap Targets(caller'))
    BY <2>1, FS_Subset
  <2>6. IsFiniteSet(Committed') /\ Cardinality(Committed') <= Cardinality(LiveIds \cup Targets(caller'))
    BY <2>3, <2>4, FS_Subset
  <2>7. /\ Cardinality(LiveIds) \in Nat /\ Cardinality(Targets(caller')) \in Nat /\ Cardinality(LiveIds \cap Targets(caller')) \in Nat
        /\ Cardinality(Committed') \in Nat /\ Cardinality(Callers) \in Nat /\ MaxLive \in Nat
        /\ Cardinality(LiveIds \cup Targets(caller')) \in Nat
    BY <2>1, <2>2, <2>4, <2>5, <2>6, WebSocketsAssumption, FS_CardinalityType
  <2>8. Cardinality(Committed') <= MaxLive + Cardinality(Callers) - 1
    BY <2>1, <2>2, <2>4, <2>6, <2>7
  <2> QED
    BY <2>8 DEF LimitUpToRaces
<1>3. CASE ~Room
  <2>1. Committed' \subseteq Committed
    BY <1>1, <1>3 DEF ConnectCount, Return, Idle, Committed, Live, Limited, Tasked, Typed, CallerTyped
  <2> QED
    BY <2>1, KeepsLimit
<1> QED
  BY <1>2, <1>3

LEMMA InitLimited == Init => Limited
<1>1. ASSUME Init PROVE Committed = {}
  BY <1>1, WebSocketsAssumption DEF Init, Committed, Live, NoEntry, Idle
<1>2. Cardinality({}) = 0 /\ Cardinality(Callers) \in Nat
  BY FS_EmptySet, WebSocketsAssumption, FS_CardinalityType
<1>3. ASSUME Init PROVE LimitUpToRaces
  <2>1. Cardinality(Committed) = 0
    BY <1>1, <1>2, <1>3
  <2> QED
    BY <1>2, <2>1, WebSocketsAssumption DEF LimitUpToRaces
<1> QED
  BY <1>3, InitTasked DEF Limited

LEMMA NextLimited == Limited /\ [Next]_vars => Limited'
<1> SUFFICES ASSUME Limited, [Next]_vars PROVE Limited'
  OBVIOUS
<1> USE DEF Limited
<1>1. Tasked'
  BY NextTasked
<1>2. caller \in [Callers -> Place]
  BY DEF Tasked, Typed, CallerTyped
<1>3. CASE UNCHANGED vars
  <2>1. Committed' \subseteq Committed
    BY <1>3 DEF vars, Committed, Live
  <2> QED
    BY <1>1, <2>1, KeepsLimit
<1>4. ASSUME NEW k \in Callers, Command(k) PROVE Limited'
  <2>1. CASE ConnectCount(k)
    BY <1>1, <2>1, CountLimit
  <2>2. ASSUME NEW i \in Connects[k], ConnectLook(k, i) PROVE Committed' \subseteq Committed
    BY <1>2, <2>2 DEF ConnectLook, Goto, Committed, Live
  <2>3. ASSUME NEW i \in Sends[k], SendLook(k, i) PROVE Committed' \subseteq Committed
    BY <1>2, <2>3 DEF SendLook, Goto, Committed, Live
  <2>4. CASE SendQueue(k)
    <3>1. UNCHANGED entry
      BY <2>4, SendQueueKeeps
    <3>2. Committed' \subseteq Committed
      BY <1>2, <2>4, <3>1 DEF SendQueue, Return, Idle, Committed, Live
    <3> QED
      BY <1>1, <3>2, KeepsLimit
  <2>5. CASE ConnectAdd(k)
    <3>1. caller[k].id \in Ids /\ \A j \in Ids \ {caller[k].id} : entry'[j] = entry[j]
      BY <2>5, AddSteps
    <3>2. caller[k].at = "adding" /\ Return(k)
      BY <2>5 DEF ConnectAdd
    <3>3. caller[k] = [at |-> "adding", id |-> caller[k].id]
      BY <1>2, <3>2 DEF Place
    <3>4. Committed' \subseteq Committed
      BY <1>2, <3>1, <3>2, <3>3 DEF Return, Idle, Committed, Live
    <3> QED
      BY <1>1, <3>4, KeepsLimit
  <2> QED
    BY <1>1, <1>4, <2>1, <2>2, <2>3, <2>4, <2>5, KeepsLimit DEF Command
<1>5. ASSUME NEW i \in Ids, Disconnect(i) PROVE Limited'
  <2>1. \A j \in Ids : entry'[j].tx = entry[j].tx
    BY <1>5, DisconnectTasked
  <2>2. UNCHANGED caller
    BY <1>5 DEF Disconnect
  <2> QED
    BY <1>1, <2>1, <2>2, KeepsLimit DEF Committed, Live
<1>6. ASSUME NEW c \in Conns, Task(c) PROVE Limited'
  <2>1. UNCHANGED caller /\ \A j \in Ids : entry'[j].tx = entry[j].tx \/ entry'[j].tx = None
    <3>1. CASE Running(c) /\ TaskEffect(c)
      BY <3>1 DEF TaskEffect, EntryEffect
    <3>2. CASE Evict(c)
      BY <3>2, EvictSteps DEF NoEntry
    <3> QED
      BY <1>6, <3>1, <3>2, StepEffect
  <2> QED
    BY <1>1, <2>1, KeepsLimit DEF Committed, Live
<1> QED
  BY <1>3, <1>4, <1>5, <1>6 DEF Next

\* Connects that pass the check together exceed the limit by at most one for each other caller: whoever counts
\* later finds the ones already added (connect_socket counts outside the lock it adds under).
THEOREM LimitCorrect == Spec => []LimitUpToRaces
<1>1. Limited => LimitUpToRaces
  BY DEF Limited
<1> QED
  BY <1>1, InitLimited, NextLimited, PTL DEF Spec

---------------------------------------------------------------------------
(* The ids seen finished. *)

\* Where k comes among the members of U, counted from 1, tells it from the others, and every place is taken.
LEMMA Ranks ==
  ASSUME NEW top \in Nat, NEW U \in SUBSET (1..top)
  PROVE  /\ IsFiniteSet(U) /\ Cardinality(U) \in Nat
         /\ \A k \in U : Cardinality(U \cap 1..k) \in 1..Cardinality(U)
         /\ \A k, l \in U : Cardinality(U \cap 1..k) = Cardinality(U \cap 1..l) => k = l
         /\ \A n \in 1..Cardinality(U) : \E k \in U : Cardinality(U \cap 1..k) = n
<1> DEFINE rank(k) == Cardinality(U \cap 1..k)
<1>1. IsFiniteSet(U) /\ Cardinality(U) \in Nat
  <2>1. IsFiniteSet(1..top)
    BY FS_Interval
  <2> QED  BY <2>1, FS_Subset, FS_CardinalityType
<1>2. \A k : IsFiniteSet(U \cap 1..k) /\ rank(k) \in Nat /\ rank(k) <= Cardinality(U)
  BY <1>1, FS_Intersection, FS_CardinalityType
<1>3. ASSUME NEW k \in U, NEW l \in U, k < l PROVE rank(k) < rank(l)
  <2>1. l \notin U \cap 1..k
    BY <1>3
  <2>2. Cardinality((U \cap 1..k) \cup {l}) = rank(k) + 1
    BY <1>2, <2>1, FS_AddElement
  <2>3. (U \cap 1..k) \cup {l} \in SUBSET (U \cap 1..l)
    BY <1>3
  <2>4. Cardinality((U \cap 1..k) \cup {l}) <= rank(l)
    BY <1>2, <2>3, FS_Subset
  <2> QED  BY <1>2, <2>2, <2>4
<1>4. \A k, l \in U : rank(k) = rank(l) => k = l
  <2> SUFFICES ASSUME NEW k \in U, NEW l \in U, rank(k) = rank(l), k # l PROVE FALSE
    OBVIOUS
  <2>1. rank(k) \in Nat /\ rank(l) \in Nat
    BY <1>2
  <2>2. CASE k < l
    BY <1>3, <2>1, <2>2
  <2>3. CASE l < k
    BY <1>3, <2>1, <2>3
  <2> QED  BY <2>2, <2>3
<1>5. ASSUME NEW k \in U PROVE rank(k) \in 1..Cardinality(U)
  <2>1. U \cap 1..k # {}
    OBVIOUS
  <2>2. rank(k) # 0
    BY <1>2, <2>1, FS_EmptySet
  <2> QED  BY <1>1, <1>2, <2>2
<1> DEFINE f == [k \in U |-> rank(k)]
<1>6. f \in Injection(U, 1..Cardinality(U))
  <2>1. f \in [U -> 1..Cardinality(U)]
    BY <1>5
  <2>2. \A k, l \in U : f[k] = f[l] => k = l
    BY <1>4
  <2> HIDE DEF f
  <2> QED  BY <2>1, <2>2, Fun_IsInj
<1>7. f \in Surjection(U, 1..Cardinality(U))
  <2>1. IsFiniteSet(1..Cardinality(U)) /\ Cardinality(1..Cardinality(U)) = Cardinality(U)
    BY <1>1, FS_Interval
  <2> QED  BY <1>6, <2>1, FS_Injection
<1>8. \A n \in 1..Cardinality(U) : \E k \in U : rank(k) = n
  BY <1>7 DEF Surjection
<1> QED  BY <1>1, <1>4, <1>5, <1>8

LEMMA RetainTyped ==
  ASSUME NEW list \in Seq(Ids), NEW kept \in SUBSET (DOMAIN list)
  PROVE  Retain(list, kept) \in Seq(Ids)
<1>1. Len(list) \in Nat /\ DOMAIN list = 1..Len(list)
  OBVIOUS
<1>2. PICK top \in Nat : top = Len(list)
  BY <1>1
<1>3. kept \in SUBSET (1..top)
  BY <1>1, <1>2
<1>4. Cardinality(kept) \in Nat /\ \A n \in 1..Cardinality(kept) : \E k \in kept : Cardinality(kept \cap 1..k) = n
  BY <1>3, Ranks
<1>5. ASSUME NEW n \in 1..Cardinality(kept)
      PROVE  list[CHOOSE k \in kept : Cardinality(kept \cap 1..k) = n] \in Ids
  <2>1. (CHOOSE k \in kept : Cardinality(kept \cap 1..k) = n) \in kept
    BY <1>4
  <2> QED
    BY <1>1, <2>1
<1>6. [n \in 1..Cardinality(kept) |-> list[CHOOSE k \in kept : Cardinality(kept \cap 1..k) = n]]
        \in [1..Cardinality(kept) -> Ids]
  BY <1>5
<1>7. \A f \in [1..Cardinality(kept) -> Ids] : f \in Seq(Ids)
  BY <1>4
<1> QED
  BY <1>6, <1>7 DEF Retain

FinishedTyped == finished \in Seq(Ids)

\* The ids of a set in any order.
LEMMA OrdersTyped ==
  ASSUME NEW S \in SUBSET Ids, NEW late \in SetToSeqs(S)
  PROVE  late \in Seq(Ids)
<1>1. Cardinality(S) \in Nat
  BY WebSocketsAssumption, FS_Subset, FS_CardinalityType
<1>2. late \in [1..Cardinality(S) -> S]
  BY DEF SetToSeqs
<1> QED
  BY <1>1, <1>2

LEMMA EvictFinished ==
  ASSUME FinishedTyped, NEW c \in Conns, Evict(c)
  PROVE  FinishedTyped'
<1>1. Known \in Seq(Ids)
  BY RetainTyped DEF Known, FinishedTyped
<1>2. PICK late \in SetToSeqs(Finished \ ToSet(Known)) :
        LET line == Known \o late
            drop == IF Len(line) > MaxFinished THEN Len(line) - MaxFinished ELSE 0
        IN  finished' = SubSeq(line, drop + 1, Len(line))
  BY DEF Evict
<1>3. Finished \ ToSet(Known) \in SUBSET Ids
  BY DEF Finished
<1>4. late \in Seq(Ids)
  BY <1>3, OrdersTyped
<1>5. PICK line \in Seq(Ids) : line = Known \o late
  BY <1>1, <1>4, ConcatProperties
<1>6. PICK drop \in Nat : drop = IF Len(line) > MaxFinished THEN Len(line) - MaxFinished ELSE 0
  <2>1. MaxFinished \in Nat /\ Len(line) \in Nat
    BY WebSocketsAssumption
  <2>2. Len(line) > MaxFinished => Len(line) - MaxFinished \in Nat
    BY <2>1
  <2> QED
    BY <2>2
<1>7. finished' = SubSeq(line, drop + 1, Len(line))
  BY <1>2, <1>5, <1>6
<1>8. \A n \in drop + 1 .. Len(line) : line[n] \in Ids
  OBVIOUS
<1>9. SubSeq(line, drop + 1, Len(line)) \in Seq(Ids)
  BY <1>8, SubSeqProperties
<1> QED
  BY <1>7, <1>9 DEF FinishedTyped

LEMMA NextFinished == FinishedTyped /\ [Next]_vars => FinishedTyped'
<1> SUFFICES ASSUME FinishedTyped, [Next]_vars PROVE FinishedTyped'
  OBVIOUS
<1>1. CASE UNCHANGED finished
  BY <1>1 DEF FinishedTyped
<1>2. ASSUME NEW c \in Conns, Evict(c) PROVE FinishedTyped'
  BY <1>2, EvictFinished
<1>3. ASSUME NEW k \in Callers, Command(k) PROVE UNCHANGED finished
  BY <1>3 DEF Command, ConnectCount, ConnectAdd, SendQueue, ConnectLook, SendLook
<1>4. ASSUME NEW i \in Ids, Disconnect(i) PROVE UNCHANGED finished
  BY <1>4 DEF Disconnect
<1>5. ASSUME NEW c \in Conns, Task(c), ~Evict(c) PROVE UNCHANGED finished
  BY <1>5 DEF Task, RecordOpen, RecordReceived, PeerEnds, RecordError, RecordClose, TakeCommand
<1> QED
  BY <1>1, <1>2, <1>3, <1>4, <1>5 DEF Next, vars

\* The variables have their types, and an id without an entry has nothing of one: a task whose entry was evicted
\* reports to nobody.
THEOREM TypeCorrect == Spec => []TypeOK
<1>1. Init => FinishedTyped
  BY DEF Init, FinishedTyped
<1>2. Tasked /\ FinishedTyped => TypeOK
  BY DEF Tasked, Typed, EntryTyped, ConnTyped, CallerTyped, RestTyped, FinishedTyped, TypeOK, EntryType, ConnType, Place,
         Text
<1> QED
  BY <1>1, <1>2, TaskedHolds, NextFinished, PTL DEF Spec

==============================================================================
