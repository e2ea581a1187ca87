----------------------------- MODULE Approvals -----------------------------
(***************************************************************************)
(* The queue of calls a policy holds until a person decides:               *)
(* crates/engine/src/workspace/policy/approvals.rs.                        *)
(*                                                                         *)
(* A held call that can wait queues an item and waits on a one-shot        *)
(* channel for the decision, for a while.  A call that cannot wait only    *)
(* queues, and fails.  An approval goes to the waiting call, or stays      *)
(* behind as a pass for one identical call.                                *)
(*                                                                         *)
(* An item is named by the call that queued it.  Workspace, client, method *)
(* and URL are one key.  Time is left out: a wait may end, and what is     *)
(* due may run out, at any time; it is swept whenever the lock is taken.   *)
(***************************************************************************)
EXTENDS Integers, FiniteSets

CONSTANTS
  Calls,        \* the calls a policy holds, retries included
  Keys,         \* workspace, client, method and URL
  KeyOf,        \* for each call, its key
  CanWait,      \* the calls made through `hold`; the others are made through `hold_now`
  Cancellable   \* the waiting calls whose command can be dropped (steps of a flow run)

ASSUME ApprovalsAssumption ==
  /\ KeyOf \in [Calls -> Keys]
  /\ CanWait \subseteq Calls
  /\ Cancellable \subseteq CanWait

VARIABLES
  pending,    \* the items waiting for a person
  sender,     \* the items whose entry still holds the sending half of its channel
  listening,  \* the items whose receiving half is neither closed nor dropped
  sent,       \* for each item, what its channel holds: nothing, approved, denied
  passes,     \* the approved items that have become a pass
  decision,   \* for each item: none, approved, denied, expired
  state,      \* for each call: new, waiting, ended, unheard, or its outcome
  used,       \* history: for each item, the calls that went on with its approval
  lapsed      \* history: the passes that ran out

vars == <<pending, sender, listening, sent, passes, decision, state, used, lapsed>>

Outcomes == {"passed", "refused", "held", "dropped"}

Init ==
  /\ pending = {} /\ sender = {} /\ listening = {} /\ passes = {}
  /\ sent = [i \in Calls |-> "nothing"]
  /\ decision = [i \in Calls |-> "none"]
  /\ state = [c \in Calls |-> "new"]
  /\ used = [i \in Calls |-> {}] /\ lapsed = {}

Same(c, i) == KeyOf[c] = KeyOf[i]

\* Nobody waits on the item: a second call need not queue another one.
Unattended(i) == i \notin sender \/ i \notin listening

\* sweep, at the start of every lock section: some items and some passes have run out.  The lapsed
\* items' senders are dropped with them.
SweptDecision(gone) == [i \in Calls |-> IF i \in gone THEN "expired" ELSE decision[i]]

Sweep(gone, lost) ==
  /\ gone \subseteq pending
  /\ lost \subseteq passes
  /\ lapsed' = lapsed \cup lost

Leave(c, outcome) == state' = [state EXCEPT ![c] = outcome]

Use(c, i) == used' = [used EXCEPT ![i] = @ \cup {c}]

UsePassKept(c, gone, lost) ==   \* mutant: the pass that lets a call go on is left in place
  /\ state[c] = "new"
  /\ Sweep(gone, lost)
  /\ passes' = passes \ lost
  /\ \E i \in passes \ lost : Same(c, i) /\ Use(c, i)
  /\ Leave(c, "passed")
  /\ pending' = pending \ gone /\ sender' = sender \ gone
  /\ decision' = SweptDecision(gone)
  /\ UNCHANGED <<listening, sent>>

\* enqueue finds a pass: it is used up and the call goes on.
UsePass(c, gone, lost) ==
  /\ state[c] = "new"
  /\ Sweep(gone, lost)
  /\ \E i \in passes \ lost :
       /\ Same(c, i)
       /\ passes' = passes \ (lost \cup {i})
       /\ Use(c, i)
  /\ Leave(c, "passed")
  /\ pending' = pending \ gone /\ sender' = sender \ gone
  /\ decision' = SweptDecision(gone)
  /\ UNCHANGED <<listening, sent>>

NoPass(c, lost) == \A i \in passes \ lost : ~Same(c, i)

ReusableNever(c, gone) == {}   \* mutant: an identical item is never looked for

Reusable(c, gone) == {i \in pending \ gone : Same(c, i) /\ Unattended(i)}

\* enqueue for a call that cannot wait: an identical item that nobody waits on is named again.
Reuse(c, gone, lost) ==
  /\ state[c] = "new" /\ c \notin CanWait
  /\ Sweep(gone, lost)
  /\ NoPass(c, lost)
  /\ Reusable(c, gone) # {}
  /\ Leave(c, "held")
  /\ pending' = pending \ gone /\ sender' = sender \ gone /\ passes' = passes \ lost
  /\ decision' = SweptDecision(gone)
  /\ UNCHANGED <<listening, sent, used>>

\* enqueue otherwise: a new item, with a channel when the call can wait.
Queue(c, gone, lost) ==
  /\ state[c] = "new"
  /\ Sweep(gone, lost)
  /\ NoPass(c, lost)
  /\ c \in CanWait \/ Reusable(c, gone) = {}
  /\ pending' = (pending \ gone) \cup {c}
  /\ IF c \in CanWait
     THEN /\ sender' = (sender \ gone) \cup {c}
          /\ listening' = listening \cup {c}
          /\ Leave(c, "waiting")
     ELSE /\ sender' = sender \ gone
          /\ Leave(c, "held")
          /\ UNCHANGED listening
  /\ passes' = passes \ lost
  /\ decision' = SweptDecision(gone)
  /\ UNCHANGED <<sent, used>>

Enqueue(c, gone, lost) == UsePass(c, gone, lost) \/ Reuse(c, gone, lost) \/ Queue(c, gone, lost)

\* The call acts on what its channel holds.
Heed(c) ==
  /\ Leave(c, IF sent[c] = "approved" THEN "passed" ELSE "refused")
  /\ IF sent[c] = "approved" THEN Use(c, c) ELSE UNCHANGED used

\* hold: the select picks the decision ...
HeedDecision(c) ==
  /\ state[c] = "waiting"
  /\ sent[c] # "nothing"
  /\ Heed(c)
  /\ listening' = listening \ {c}
  /\ UNCHANGED <<pending, sender, sent, passes, decision, lapsed>>

\* ... or the end of the wait, the stop of the engine, or a channel whose sender is gone.
WaitEnds(c) ==
  /\ state[c] = "waiting"
  /\ Leave(c, "ended")
  /\ UNCHANGED <<pending, sender, listening, sent, passes, decision, used, lapsed>>

CloseChannelUnread(c) ==   \* mutant: the channel is closed and not looked into
  /\ state[c] = "ended"
  /\ listening' = listening \ {c}
  /\ Leave(c, "unheard")
  /\ UNCHANGED <<pending, sender, sent, passes, decision, used, lapsed>>

\* The channel is closed, and a decision that landed just before counts.
CloseChannel(c) ==
  /\ state[c] = "ended"
  /\ listening' = listening \ {c}
  /\ IF sent[c] # "nothing" THEN Heed(c) ELSE Leave(c, "unheard") /\ UNCHANGED used
  /\ UNCHANGED <<pending, sender, sent, passes, decision, lapsed>>

\* Under the lock again: nobody waits on the item, if it is still there.
GiveUp(c) ==
  /\ state[c] = "unheard"
  /\ sender' = sender \ {c}
  /\ Leave(c, "held")
  /\ UNCHANGED <<pending, listening, sent, passes, decision, used, lapsed>>

\* The run the call is a step of is cancelled or times out: it is dropped where it waits.
DropCall(c) ==
  /\ c \in Cancellable
  /\ state[c] = "waiting"
  /\ listening' = listening \ {c}
  /\ Leave(c, "dropped")
  /\ UNCHANGED <<pending, sender, sent, passes, decision, used, lapsed>>

\* decide: a waiting call takes the approval itself, otherwise it becomes a pass.
Approve(i, gone, lost) ==
  /\ Sweep(gone, lost)
  /\ i \in pending \ gone
  /\ pending' = pending \ (gone \cup {i}) /\ sender' = sender \ (gone \cup {i})
  /\ decision' = [SweptDecision(gone) EXCEPT ![i] = "approved"]
  /\ IF Unattended(i)
     THEN passes' = (passes \ lost) \cup {i} /\ UNCHANGED sent
     ELSE passes' = passes \ lost /\ sent' = [sent EXCEPT ![i] = "approved"]
  /\ UNCHANGED <<listening, state, used>>

DenyKept(i, gone, lost) ==   \* mutant: a denied item stays in the queue
  /\ Sweep(gone, lost)
  /\ i \in pending \ gone
  /\ pending' = pending \ gone /\ sender' = sender \ (gone \cup {i})
  /\ decision' = [SweptDecision(gone) EXCEPT ![i] = "denied"]
  /\ sent' = IF Unattended(i) THEN sent ELSE [sent EXCEPT ![i] = "denied"]
  /\ passes' = passes \ lost
  /\ UNCHANGED <<listening, state, used>>

Deny(i, gone, lost) ==
  /\ Sweep(gone, lost)
  /\ i \in pending \ gone
  /\ pending' = pending \ (gone \cup {i}) /\ sender' = sender \ (gone \cup {i})
  /\ decision' = [SweptDecision(gone) EXCEPT ![i] = "denied"]
  /\ sent' = IF Unattended(i) THEN sent ELSE [sent EXCEPT ![i] = "denied"]
  /\ passes' = passes \ lost
  /\ UNCHANGED <<listening, state, used>>

SweepSenderKept(gone, lost) ==   \* mutant: the sender of an expired item is kept
  /\ Sweep(gone, lost)
  /\ pending' = pending \ gone /\ passes' = passes \ lost
  /\ decision' = SweptDecision(gone)
  /\ UNCHANGED <<sender, listening, sent, state, used>>

\* approvals.list, and a decision on an item that is not pending, only sweep.
SweepOnly(gone, lost) ==
  /\ Sweep(gone, lost)
  /\ pending' = pending \ gone /\ sender' = sender \ gone /\ passes' = passes \ lost
  /\ decision' = SweptDecision(gone)
  /\ UNCHANGED <<listening, sent, state, used>>

Step(c) == HeedDecision(c) \/ WaitEnds(c) \/ CloseChannel(c) \/ GiveUp(c) \/ DropCall(c)

Next ==
  \/ \E c \in Calls : Step(c)
  \/ \E gone \in SUBSET pending, lost \in SUBSET passes :
       \/ \E c \in Calls : Enqueue(c, gone, lost) \/ Approve(c, gone, lost) \/ Deny(c, gone, lost)
       \/ SweepOnly(gone, lost)

Spec == Init /\ [][Next]_vars

-----------------------------------------------------------------------------
(***************************************************************************)
(* Properties                                                              *)
(***************************************************************************)

TypeOK ==
  /\ pending \subseteq Calls /\ sender \subseteq pending /\ listening \subseteq CanWait
  /\ sent \in [Calls -> {"nothing", "approved", "denied"}]
  /\ passes \subseteq Calls /\ lapsed \subseteq Calls
  /\ decision \in [Calls -> {"none", "approved", "denied", "expired"}]
  /\ state \in [Calls -> {"new", "waiting", "ended", "unheard"} \cup Outcomes]
  /\ used \in [Calls -> SUBSET Calls]

\* A held call goes on only with an approval a person gave to an identical call, and one approval
\* lets one call go on: whoever gets it first, the waiting call, its retry or an identical call.
OneCallPerApproval ==
  /\ \A c \in Calls : state[c] = "passed" =>
       \E i \in Calls : c \in used[i] /\ Same(c, i) /\ decision[i] = "approved"
  /\ \A i \in Calls : \A c, d \in used[i] : c = d

\* Where an approval can be: a pass, used, run out, or on its way to a call that will still look.
Counts(i) ==
  \/ i \in passes \cup lapsed
  \/ used[i] # {}
  \/ sent[i] = "approved" /\ state[i] \in {"waiting", "ended"}

\* An approval is never lost between a wait that ends and the decision that arrives, unless the
\* call that took it was dropped.
ApprovalNotLost ==
  \A i \in Calls : decision[i] = "approved" => Counts(i) \/ state[i] = "dropped"

\* "A waiting call takes the approval itself; otherwise it becomes a pass for the next identical
\* call": an approval is never lost.
ApprovalCounts ==
  \A i \in Calls : decision[i] = "approved" => Counts(i)

\* Calls that cannot wait queue once: their retries name the same item until it is decided.
QueuedOnce ==
  \A i, j \in pending \ CanWait : Same(i, j) => i = j

\* A decision is final: an item that was approved, denied or expired is never decided again.
DecisionFinal ==
  [][\A i \in Calls : decision[i] # "none" => decision'[i] = decision[i]]_vars

=============================================================================
