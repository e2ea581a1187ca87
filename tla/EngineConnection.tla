------------------------- MODULE EngineConnection -------------------------
(***************************************************************************)
(* One client connection to the engine: crates/engine-client/src/          *)
(* connection.rs.                                                          *)
(*                                                                         *)
(* Callers on threads of their own share one socket.  A reader thread      *)
(* hands each response to the call that waits for it and each event to     *)
(* every subscriber; whoever finds the connection broken, the reader or a  *)
(* caller whose write fails, fails everything that waits.  Each lock of    *)
(* the code (pending, subscribers, writer) is taken for one action here;   *)
(* the flag `closed` is read outside them all.                             *)
(*                                                                         *)
(* Of the engine's end (crates/engine/src/transport) there is what the     *)
(* client can see of it.  When it ends a session it first shuts the        *)
(* direction the client reads and then drops the socket (socket.rs): in    *)
(* between a write succeeds.                                               *)
(***************************************************************************)
EXTENDS Integers, Sequences

CONSTANTS
  Calls,      \* the calls made over the connection
  Subs,       \* those made by `subscribe`, each with a receiver of its own
  MaxEvents   \* bound: events the engine emits

ASSUME ConnectionAssumption ==
  /\ Subs \subseteq Calls
  /\ MaxEvents \in Nat

VARIABLES
  closed,       \* the flag of Shared
  pending,      \* the calls whose sender is in the map
  subscribers,  \* the subscriptions whose sender is in the list
  slot,         \* for each call, what its one-shot channel holds
  inbox,        \* for each subscription, everything it was sent
  pc,           \* for each call, where it is
  closing,      \* fail_everything: no, swapped, drained, done
  closer,       \* the calls inside fail_everything (the others are the reader's business)
  reader,       \* the reader thread: reading, done
  engine,       \* the engine's session: serving, shut, gone
  requested,    \* the calls the engine has read and not answered
  wire,         \* the frames on their way to the client
  emitted       \* how many events the engine has sent

callVars   == <<pending, slot, pc>>
closeVars  == <<closed, closing, closer>>
feedVars   == <<subscribers, inbox>>
engineVars == <<engine, requested, wire, emitted>>
vars == <<callVars, closeVars, feedVars, reader, engineVars>>

Answers == {"ok", "error"}
Over    == {"ok", "error", "refused", "failed", "Closed", "dropped"}

Response(c, answer) == [to |-> c, answer |-> answer]
Event(n) == [event |-> n]
Frame == [to : Calls, answer : Answers] \cup [event : 1..MaxEvents]
IsEvent(frame) == "event" \in DOMAIN frame

\* Incoming::Closed; the other items a subscription is sent are the numbers of events.
TheEnd == 0

Init ==
  /\ closed = FALSE /\ closing = "no" /\ closer = {} /\ reader = "reading"
  /\ pending = {} /\ subscribers = {} /\ requested = {}
  /\ slot = [c \in Calls |-> "nothing"]
  /\ inbox = [s \in Subs |-> <<>>]
  /\ pc = [c \in Calls |-> "new"]
  /\ engine = "serving" /\ wire = <<>> /\ emitted = 0

Goto(c, label) == pc' = [pc EXCEPT ![c] = label]
At(c, label) == pc[c] = label

-----------------------------------------------------------------------------
(* A caller. *)

\* subscribe looks at the flag ...
SubscribeCheck(s) ==
  /\ s \in Subs /\ At(s, "new")
  /\ Goto(s, IF closed THEN "refused" ELSE "admitted")
  /\ UNCHANGED <<pending, slot, closeVars, feedVars, reader, engineVars>>

\* ... adds its sender, and only then calls the engine.
SubscribePush(s) ==
  /\ At(s, "admitted")
  /\ subscribers' = subscribers \cup {s}
  /\ Goto(s, "ready")
  /\ UNCHANGED <<pending, slot, closeVars, inbox, reader, engineVars>>

\* send_request looks at the flag ...
RequestCheck(c) ==
  /\ At(c, "ready") \/ (c \notin Subs /\ At(c, "new"))
  /\ Goto(c, IF closed THEN "refused" ELSE "open")
  /\ UNCHANGED <<pending, slot, closeVars, feedVars, reader, engineVars>>

\* ... puts its sender into the map ...
RequestInsert(c) ==
  /\ At(c, "open")
  /\ pending' = pending \cup {c}
  /\ Goto(c, "inserted")
  /\ UNCHANGED <<slot, closeVars, feedVars, reader, engineVars>>

\* ... and writes the frame.  An engine that has shut its side may still take it, unread.
RequestWrite(c) ==
  /\ At(c, "inserted")
  /\ engine # "gone"
  /\ requested' = IF engine = "serving" THEN requested \cup {c} ELSE requested
  /\ Goto(c, "waiting")
  /\ UNCHANGED <<pending, slot, closeVars, feedVars, reader, engine, wire, emitted>>

\* The write fails: the socket is gone, or the frame is above the limit of a frame.
WriteFails(c) ==
  /\ At(c, "inserted")
  /\ Goto(c, "unwritten")
  /\ UNCHANGED <<pending, slot, closeVars, feedVars, reader, engineVars>>

UnwrittenRemove(c) ==
  /\ At(c, "unwritten")
  /\ pending' = pending \ {c}
  /\ Goto(c, "removed")
  /\ UNCHANGED <<slot, closeVars, feedVars, reader, engineVars>>

ClosesUnmarked(c) ==   \* mutant: the flag is read and not set
  /\ At(c, "removed")
  /\ IF closed
     THEN Goto(c, "failed") /\ UNCHANGED closeVars
     ELSE /\ closing' = "swapped" /\ closer' = {c}
          /\ Goto(c, "failing")
          /\ UNCHANGED closed
  /\ UNCHANGED <<pending, slot, feedVars, reader, engineVars>>

\* fail_everything, from the caller: the first one in goes on, the others return.
UnwrittenFails(c) ==
  /\ At(c, "removed")
  /\ IF closed
     THEN Goto(c, "failed") /\ UNCHANGED closeVars
     ELSE /\ closed' = TRUE /\ closing' = "swapped" /\ closer' = {c}
          /\ Goto(c, "failing")
  /\ UNCHANGED <<pending, slot, feedVars, reader, engineVars>>

\* The call takes what is in its channel.
CallEnds(c) ==
  /\ At(c, "waiting")
  /\ slot[c] # "nothing"
  /\ Goto(c, slot[c])
  /\ UNCHANGED <<pending, slot, closeVars, feedVars, reader, engineVars>>

\* The future of a call, or the receiver of a subscription, is dropped.
Drop(c) ==
  /\ At(c, "waiting") \/ (c \in Subs /\ At(c, "ok"))
  /\ Goto(c, "dropped")
  /\ UNCHANGED <<pending, slot, closeVars, feedVars, reader, engineVars>>

-----------------------------------------------------------------------------
(* fail_everything, after the swap. *)

DrainAndForget ==   \* mutant: the calls are taken out and not told
  /\ closing = "swapped"
  /\ pending' = {} /\ closing' = "drained"
  /\ UNCHANGED <<slot, pc, closed, closer, feedVars, reader, engineVars>>

DrainPending ==
  /\ closing = "swapped"
  /\ slot' = [c \in Calls |-> IF c \in pending THEN "Closed" ELSE slot[c]]
  /\ pending' = {}
  /\ closing' = "drained"
  /\ UNCHANGED <<pc, closed, closer, feedVars, reader, engineVars>>

\* A send to a subscription whose receiver is dropped fails.
Alive(s) == ~ (pc[s] \in Over \ {"ok"})

Told(subs, item) == [s \in Subs |-> IF s \in subs /\ Alive(s) THEN Append(inbox[s], item) ELSE inbox[s]]

DrainNotEmptied ==   \* mutant: the senders are told and kept
  /\ closing = "drained"
  /\ inbox' = Told(subscribers, TheEnd) /\ closing' = "done" /\ closer' = {}
  /\ pc' = [c \in Calls |-> IF c \in closer THEN "failed" ELSE pc[c]]
  /\ UNCHANGED <<pending, slot, closed, subscribers, reader, engineVars>>

\* The lock is held for the whole loop.
DrainSubscribers ==
  /\ closing = "drained"
  /\ inbox' = Told(subscribers, TheEnd)
  /\ subscribers' = {}
  /\ closing' = "done"
  /\ closer' = {}
  /\ pc' = [c \in Calls |-> IF c \in closer THEN "failed" ELSE pc[c]]
  /\ UNCHANGED <<pending, slot, closed, reader, engineVars>>

-----------------------------------------------------------------------------
(* The reader thread. *)

\* deliver_response: a response nobody waits for is ignored.
ReadResponse ==
  /\ reader = "reading" /\ wire # <<>> /\ ~IsEvent(Head(wire))
  /\ LET c == Head(wire).to IN
       /\ slot' = IF c \in pending THEN [slot EXCEPT ![c] = Head(wire).answer] ELSE slot
       /\ pending' = pending \ {c}
  /\ wire' = Tail(wire)
  /\ UNCHANGED <<pc, closeVars, feedVars, reader, engine, requested, emitted>>

ForgetsBusy ==   \* mutant: a subscription whose call is still waiting is taken for dropped
  /\ reader = "reading" /\ wire # <<>> /\ IsEvent(Head(wire))
  /\ inbox' = Told(subscribers, Head(wire).event)
  /\ subscribers' = {s \in subscribers : pc[s] = "ok"}
  /\ wire' = Tail(wire)
  /\ UNCHANGED <<callVars, closeVars, reader, engine, requested, emitted>>

\* deliver_event: dropped subscriptions leave the list.
ReadEvent ==
  /\ reader = "reading" /\ wire # <<>> /\ IsEvent(Head(wire))
  /\ inbox' = Told(subscribers, Head(wire).event)
  /\ subscribers' = {s \in subscribers : Alive(s)}
  /\ wire' = Tail(wire)
  /\ UNCHANGED <<callVars, closeVars, reader, engine, requested, emitted>>

ReaderLeaves ==   \* mutant: the loop ends and nobody is told
  /\ reader = "reading"
  /\ reader' = "done"
  /\ UNCHANGED <<callVars, closeVars, feedVars, engineVars>>

\* The stream ends, or what comes cannot be read, whatever the engine is doing: the loop is left for
\* fail_everything.
ReaderEnds ==
  /\ reader = "reading"
  /\ reader' = "done"
  /\ IF closed
     THEN UNCHANGED closeVars
     ELSE closed' = TRUE /\ closing' = "swapped" /\ closer' = {}
  /\ UNCHANGED <<callVars, feedVars, engineVars>>

-----------------------------------------------------------------------------
(* The engine's end of the connection: a reply for a request, the events its pump sends, and the end of the
   stream in two steps, its writer shut and its socket dropped. *)

EngineAnswers(c, answer) ==
  /\ engine = "serving" /\ c \in requested
  /\ requested' = requested \ {c}
  /\ wire' = Append(wire, Response(c, answer))
  /\ UNCHANGED <<callVars, closeVars, feedVars, reader, engine, emitted>>

EngineEmits ==
  /\ engine = "serving" /\ emitted < MaxEvents
  /\ emitted' = emitted + 1
  /\ wire' = Append(wire, Event(emitted'))
  /\ UNCHANGED <<callVars, closeVars, feedVars, reader, engine, requested>>

EngineShuts ==
  /\ engine = "serving"
  /\ engine' = "shut"
  /\ UNCHANGED <<callVars, closeVars, feedVars, reader, requested, wire, emitted>>

EngineGoes ==
  /\ engine = "shut"
  /\ engine' = "gone"
  /\ UNCHANGED <<callVars, closeVars, feedVars, reader, requested, wire, emitted>>

-----------------------------------------------------------------------------
Request(c) ==
  \/ RequestCheck(c) \/ RequestInsert(c) \/ RequestWrite(c) \/ WriteFails(c)
  \/ UnwrittenRemove(c) \/ UnwrittenFails(c) \/ CallEnds(c)

FailEverything == DrainPending \/ DrainSubscribers

Read == ReadResponse \/ ReadEvent \/ ReaderEnds

EngineEnd ==
  \/ \E c \in Calls, answer \in Answers : EngineAnswers(c, answer)
  \/ EngineEmits \/ EngineShuts \/ EngineGoes

Next ==
  \/ \E c \in Calls : Request(c) \/ Drop(c)
  \/ \E s \in Subs : SubscribeCheck(s) \/ SubscribePush(s)
  \/ FailEverything
  \/ Read
  \/ EngineEnd

\* The reader reads what has come, fail_everything runs to its end, a call takes what is in its
\* channel.  A write may block, the engine owes nothing, and no future need be dropped.
Fairness ==
  /\ WF_vars(Read) /\ WF_vars(FailEverything)
  /\ \A c \in Calls : WF_vars(CallEnds(c))

Spec == Init /\ [][Next]_vars /\ Fairness

-----------------------------------------------------------------------------
(***************************************************************************)
(* Properties                                                              *)
(***************************************************************************)

TypeOK ==
  /\ closed \in BOOLEAN /\ closing \in {"no", "swapped", "drained", "done"}
  /\ closed = (closing # "no")
  /\ closer \subseteq Calls /\ reader \in {"reading", "done"}
  /\ pending \subseteq Calls /\ subscribers \subseteq Subs
  /\ slot \in [Calls -> {"nothing", "Closed"} \cup Answers]
  /\ inbox \in [Subs -> Seq(0..MaxEvents)]
  /\ pc \in [Calls -> {"new", "admitted", "ready", "open", "inserted", "waiting",
                       "unwritten", "removed", "failing"} \cup Over]
  /\ engine \in {"serving", "shut", "gone"} /\ requested \subseteq Calls
  /\ wire \in Seq(Frame) /\ emitted \in 0..MaxEvents

\* The channel of a call that waits is never dropped empty-handed: while it is empty its sender is in
\* the map, where a response or the end of the connection would find it, whoever else is closing.
WaitingIsPending ==
  \A c \in Calls : pc[c] \in {"inserted", "waiting"} /\ slot[c] = "nothing" => c \in pending

\* What a subscription is sent is an unbroken run of events, then at most one Incoming::Closed and nothing more,
\* also when a failed write has closed the client and the reader still reads events.
FeedIsWhole ==
  \A s \in Subs : \A k \in 1..Len(inbox[s]) - 1 :
    /\ inbox[s][k] # TheEnd
    /\ inbox[s][k + 1] \in {inbox[s][k] + 1, TheEnd}

IsTold(s) == inbox[s] # <<>> /\ inbox[s][Len(inbox[s])] = TheEnd

\* A subscription that was granted and is still held has a sender in the list until it is told that
\* the connection ended: no order of subscribing and closing leaves it waiting for nothing.
GrantedIsAttached ==
  \A s \in Subs : pc[s] = "ok" => s \in subscribers \/ IsTold(s)

\* A call that waits when the engine ends the session, before anyone has closed the client, ends.
WaitingCallEnds ==
  \A c \in Calls :
    (pc[c] = "waiting" /\ engine # "serving" /\ ~closed) ~> pc[c] # "waiting"

\* Every granted subscription hears that the session ended.
SubscriberHearsEnd ==
  \A s \in Subs : (pc[s] = "ok" /\ engine # "serving") ~> (pc[s] = "dropped" \/ IsTold(s))

\* "calls in flight fail with closed when the engine goes away": once the reader has ended and
\* everything was failed, no call waits on an empty channel.
CallsInFlightFail ==
  reader = "done" /\ closing = "done" =>
    \A c \in Calls : pc[c] = "waiting" => slot[c] # "nothing"

=============================================================================
