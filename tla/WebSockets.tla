----------------------------- MODULE WebSockets -----------------------------
(***************************************************************************)
(* The WebSockets of one workspace: the registry of entries                *)
(* (crates/engine/src/kernel/streams.rs) and the operations and tasks over *)
(* it (crates/engine/src/websocket/registry.rs).                           *)
(*                                                                         *)
(* An entry is named by its socket id and outlives its connections.  Each  *)
(* connection has a task that owns the socket; the entry holds the sending *)
(* half of the task's command channel while the connection is its live     *)
(* one.  A task reports through `record`, which compares generations.      *)
(*                                                                         *)
(* Message logs, urls, codes and reasons are left out, and so is whether   *)
(* what ended did so cleanly ("disconnected") or not ("error").  The peer  *)
(* and the network may do anything at any time.                            *)
(***************************************************************************)
EXTENDS Integers, Sequences, FiniteSets, SequencesExt

CONSTANTS
  Ids,            \* socket ids
  Conns,          \* names for connections; bound of the model: how many tasks there are at once
  Callers,        \* threads that run commands
  Connects,       \* for each thread, the ids it connects
  Sends,          \* for each thread, the ids it sends texts to
  None,           \* no connection, no id
  MaxLive,        \* MAX_WS_CONNECTIONS
  MaxFinished,    \* MAX_FINISHED_PER_WORKSPACE
  MaxGeneration,  \* bound of the model: for each id, connects of one entry
  MaxQueued       \* bound of the model: commands in one channel

ASSUME WebSocketsAssumption ==
  /\ None \notin Conns \cup Ids
  /\ Connects \in [Callers -> SUBSET Ids] /\ Sends \in [Callers -> SUBSET Ids]
  /\ IsFiniteSet(Ids) /\ IsFiniteSet(Callers)
  /\ MaxLive \in Nat \ {0} /\ MaxFinished \in Nat
  /\ MaxGeneration \in [Ids -> Nat] /\ MaxQueued \in Nat

VARIABLES
  entry,     \* for each id, its entry; generation 0 when there is none
  conn,      \* for each connection: its id, generation, where its task is, its channel
  sweeping,  \* the tasks between their change of the entry and the eviction that follows
  finished,  \* the ids seen finished by an eviction, the oldest first
  caller,    \* for each thread: what it is in the middle of, and on which id
  recycled   \* history: ids whose entry was evicted while a connection of theirs still ran

vars == <<entry, conn, sweeping, finished, caller, recycled>>

NoEntry == [generation |-> 0, tx |-> None, status |-> "none", closing |-> FALSE]
NoConn  == [generation |-> 0, id |-> None, phase |-> "none", inbox |-> <<>>]
Idle    == [at |-> "idle", id |-> None]

Exists(i)  == entry[i].generation > 0
Live(i)    == entry[i].tx # None
Sendable(i) == Live(i) /\ entry[i].status = "connected" /\ ~entry[i].closing
EntryOf(c) == entry[conn[c].id]
Holds(c)   == EntryOf(c).tx = c     \* the entry keeps the channel open
Running(c) == conn[c].phase # "none"
At(c, phase) == conn[c].phase = phase /\ c \notin sweeping

Init ==
  /\ entry = [i \in Ids |-> NoEntry]
  /\ conn = [c \in Conns |-> NoConn]
  /\ sweeping = {} /\ finished = <<>> /\ recycled = {}
  /\ caller = [k \in Callers |-> Idle]

---------------------------------------------------------------------------
(* The registry. *)

Current(c) == EntryOf(c).generation = conn[c].generation

MatchesExisting(c) == Exists(conn[c].id)   \* mutant: a task's generation is not compared

MatchesAlways(c) == TRUE   \* mutant: nor whether there is an entry at all

Matches(c) == Current(c)

\* record: the change of the entry, when the connection has not been superseded.
Record(c, changed) ==
  IF Matches(c)
  THEN /\ entry' = [entry EXCEPT ![conn[c].id] = changed]
       /\ sweeping' = sweeping \cup {c}
  ELSE UNCHANGED <<entry, sweeping>>

Finished == {i \in Ids : Exists(i) /\ ~Live(i)}

\* The ids of the list at the places kept, in their order.
Retain(list, kept) == [n \in 1..Cardinality(kept) |-> list[CHOOSE k \in kept : Cardinality(kept \cap 1..k) = n]]

Known == Retain(finished, {n \in DOMAIN finished : finished[n] \in Finished})

\* evict_finished: ids seen finished for the first time queue up in any order behind those seen before.
Evict(c) ==
  /\ c \in sweeping
  /\ \E late \in SetToSeqs(Finished \ ToSet(Known)) :
       LET line == Known \o late
           drop == IF Len(line) > MaxFinished THEN Len(line) - MaxFinished ELSE 0
           gone == {i \in Finished : \E n \in 1..drop : line[n] = i}
       IN /\ entry' = [i \in Ids |-> IF i \in gone THEN NoEntry ELSE entry[i]]
          /\ finished' = SubSeq(line, drop + 1, Len(line))
          /\ recycled' = recycled \cup {i \in gone : \E d \in Conns : Running(d) /\ conn[d].id = i}
  /\ sweeping' = sweeping \ {c}
  /\ UNCHANGED <<conn, caller>>

---------------------------------------------------------------------------
(* The commands. *)

Goto(k, at, i) == caller' = [caller EXCEPT ![k] = [at |-> at, id |-> i]]
Return(k)      == caller' = [caller EXCEPT ![k] = Idle]

\* connect_socket: a live entry of the same id is replaced without a look at the limit.
ConnectLook(k, i) ==
  /\ caller[k].at = "idle"
  /\ Goto(k, IF Live(i) THEN "adding" ELSE "counting", i)
  /\ UNCHANGED <<entry, conn, sweeping, finished, recycled>>

LiveCount == Cardinality({i \in Ids : Live(i)})

RoomOffByOne == LiveCount <= MaxLive   \* mutant: one connection above the limit

Room == LiveCount < MaxLive

ConnectCount(k) ==
  /\ caller[k].at = "counting"
  /\ IF Room THEN Goto(k, "adding", caller[k].id) ELSE Return(k)
  /\ UNCHANGED <<entry, conn, sweeping, finished, recycled>>

\* connect_socket under the lock: the old task is superseded and told to close; a request that cannot be
\* built leaves the entry in error and without a task.
ConnectAdd(k) ==
  LET i == caller[k].id
      old == entry[i].tx
      told == [c \in Conns |-> IF c = old THEN [conn[c] EXCEPT !.inbox = Append(@, "close")] ELSE conn[c]]
      next == entry[i].generation + 1
      added(c, status) == [generation |-> next, tx |-> c, status |-> status, closing |-> FALSE]
  IN /\ caller[k].at = "adding"
     /\ entry[i].generation < MaxGeneration[i]
     /\ \/ \E c \in Conns :
             /\ ~Running(c) /\ c \notin sweeping
             /\ entry' = [entry EXCEPT ![i] = added(c, "connecting")]
             /\ conn' = [told EXCEPT ![c] = [generation |-> next, id |-> i, phase |-> "dialing", inbox |-> <<>>]]
        \/ /\ entry' = [entry EXCEPT ![i] = added(None, "ended")]
           /\ conn' = told
     /\ Return(k)
     /\ UNCHANGED <<sweeping, finished, recycled>>

\* disconnect_socket.  A task that is gone could not report a close: the state is settled at once.
Disconnect(i) ==
  LET c == entry[i].tx IN
  /\ Live(i)
  /\ Len(conn[c].inbox) < MaxQueued
  /\ IF ~Running(c)
     THEN /\ entry' = [entry EXCEPT ![i].closing = TRUE, ![i].tx = None, ![i].status = "ended"]
          /\ UNCHANGED conn
     ELSE /\ entry' = [entry EXCEPT ![i].closing = TRUE]
          /\ conn' = [conn EXCEPT ![c].inbox = Append(@, "close")]
  /\ UNCHANGED <<sweeping, finished, caller, recycled>>

\* send_socket_message: looks, resolves the text without the lock, and looks again.
SendLook(k, i) ==
  /\ caller[k].at = "idle"
  /\ Sendable(i)
  /\ Goto(k, "sending", i)
  /\ UNCHANGED <<entry, conn, sweeping, finished, recycled>>

StillLive(i) == Live(i)   \* mutant: the second look only asks for a task

StillOpen(i) == Sendable(i)

SendQueue(k) ==
  LET i == caller[k].id
      c == entry[i].tx
  IN /\ caller[k].at = "sending"
     /\ Return(k)
     /\ IF StillOpen(i) /\ Running(c)
        THEN /\ Len(conn[c].inbox) < MaxQueued
             /\ conn' = [conn EXCEPT ![c].inbox = Append(@, "send")]
        ELSE UNCHANGED conn
     /\ UNCHANGED <<entry, sweeping, finished, recycled>>

---------------------------------------------------------------------------
(* The task of a connection. *)

Move(c, phase) == conn' = [conn EXCEPT ![c].phase = phase]
End(c)         == conn' = [conn EXCEPT ![c] = NoConn]

\* The handshake completed.  A superseded connection is closed with nobody left to report to.
RecordOpen(c) ==
  /\ At(c, "dialing")
  /\ Record(c, [EntryOf(c) EXCEPT !.status = "connected"])
  /\ IF Matches(c) THEN Move(c, "open") ELSE End(c)
  /\ UNCHANGED <<finished, caller, recycled>>

RecordReceived(c) ==
  /\ At(c, "open")
  /\ Record(c, EntryOf(c))
  /\ UNCHANGED <<conn, finished, caller, recycled>>

\* The handshake or the stream fails.
RecordError(c) ==
  /\ At(c, "dialing") \/ At(c, "open")
  /\ Record(c, IF EntryOf(c).closing THEN EntryOf(c) ELSE [EntryOf(c) EXCEPT !.status = "ended"])
  /\ Move(c, "closing")
  /\ UNCHANGED <<finished, caller, recycled>>

\* The peer closes or the stream ends.
PeerEnds(c) ==
  /\ At(c, "open")
  /\ Move(c, "closing")
  /\ UNCHANGED <<entry, sweeping, finished, caller, recycled>>

\* The task takes a command, or finds its channel empty and closed.  Closing an open socket waits for the
\* peer a while before the close is recorded; a socket with nobody left to report to is just closed.
TakeCommand(c) ==
  /\ At(c, "dialing") \/ At(c, "open")
  /\ LET inbox == conn[c].inbox
         taken == [conn EXCEPT ![c].inbox = Tail(inbox)]
     IN IF inbox = <<>>
        THEN ~Holds(c) /\ IF At(c, "dialing") THEN Move(c, "closing") ELSE End(c)
        ELSE \/ Head(inbox) = "close" /\ conn' = [taken EXCEPT ![c].phase = "closing"]
             \/ Head(inbox) = "send"  /\ conn' = taken
  /\ UNCHANGED <<entry, sweeping, finished, caller, recycled>>

RecordCloseStatusOnly(c) ==   \* mutant: the close leaves the channel in the entry
  /\ At(c, "closing")
  /\ Record(c, [EntryOf(c) EXCEPT !.status = "ended"])
  /\ End(c)
  /\ UNCHANGED <<finished, caller, recycled>>

\* A text the task cannot send ends it in RecordError; what a socket closed with is left out.
RecordClose(c) ==
  /\ At(c, "closing")
  /\ Record(c, [EntryOf(c) EXCEPT !.tx = None, !.status = "ended"])
  /\ End(c)
  /\ UNCHANGED <<finished, caller, recycled>>

Task(c) == RecordOpen(c) \/ RecordReceived(c) \/ PeerEnds(c) \/ RecordError(c)
           \/ RecordClose(c) \/ TakeCommand(c) \/ Evict(c)

Command(k) ==
  \/ ConnectCount(k) \/ ConnectAdd(k) \/ SendQueue(k)
  \/ \E i \in Connects[k] : ConnectLook(k, i)
  \/ \E i \in Sends[k] : SendLook(k, i)

Next ==
  \/ \E k \in Callers : Command(k)
  \/ \E i \in Ids : Disconnect(i)
  \/ \E c \in Conns : Task(c)

Spec == Init /\ [][Next]_vars

---------------------------------------------------------------------------
(* What must hold. *)

Phases == {"none", "dialing", "open", "closing"}
Statuses == {"none", "connecting", "connected", "ended"}

\* The variables have their types; an id without an entry has nothing of one.
TypeOK ==
  /\ entry \in [Ids -> [generation : Nat, tx : Conns \cup {None}, status : Statuses, closing : BOOLEAN]]
  /\ \A i \in Ids : ~Exists(i) => entry[i] = NoEntry
  /\ conn \in [Conns -> [generation : Nat, id : Ids \cup {None}, phase : Phases,
                         inbox : Seq({"send", "close"})]]
  /\ \A c \in Conns : Running(c) <=> conn[c].id # None
  /\ sweeping \subseteq Conns
  /\ finished \in Seq(Ids)
  /\ caller \in [Callers -> [at : {"idle", "counting", "adding", "sending"}, id : Ids \cup {None}]]
  /\ \A k \in Callers : caller[k].at = "idle" <=> caller[k].id = None
  /\ recycled \subseteq Ids

\* A live entry has a running task whose reports it accepts: it can always be closed, and never counts
\* against the limit for nothing.
LiveHasTask ==
  \A i \in Ids : Live(i) =>
    LET c == entry[i].tx IN Running(c) /\ conn[c].id = i /\ Current(c)

\* The ids that have, or are about to have, a live connection.
Committed == {i \in Ids : Live(i) \/ \E k \in Callers : caller[k] = [at |-> "adding", id |-> i]}

\* Connects that pass the check together can exceed the limit, but by no more than one for each other
\* caller, however long they go on.
LimitUpToRaces == Cardinality(Committed) <= MaxLive + Cardinality(Callers) - 1

\* What says it is connecting or connected is live, unless the entry had been evicted under a running task.
ConnectedIsLive ==
  \A i \in Ids \ recycled : entry[i].status \in {"connecting", "connected"} => Live(i)

\* No text is queued behind a close: what was accepted goes out ahead of it.
NoSendAfterClose ==
  \A c \in Conns : \A m, n \in 1..Len(conn[c].inbox) :
    m < n /\ conn[c].inbox[n] = "send" => conn[c].inbox[m] # "close"

\* registry.rs:64: "a task whose generation is behind the entry's no-ops, so a superseded socket's late close
\* cannot overwrite the new socket's state".  An entry evicted and created again starts at generation 1 again.
SupersededChangesNothing ==
  [][\A c \in Conns : Running(c) /\ ~Holds(c) /\ RecordClose(c) => entry' = entry]_vars
===========================
