-------------------------- MODULE ApprovalsProofs --------------------------
(***************************************************************************)
(* Proofs about Approvals, for any sets of calls and keys, however many of *)
(* the calls wait or can be dropped.                                       *)
(*                                                                         *)
(* OneCallPerApproval and ApprovalNotLost are not inductive.  They need    *)
(* to know where an approval went: into the channel of the call that       *)
(* queued the item or into the passes, never both, and into neither while  *)
(* the item is in the queue.  Each step's first fact says, point by point, *)
(* what the step changes; the parts of Inv follow from it one by one.      *)
(***************************************************************************)
EXTENDS Approvals, TLAPS

\* An item in the queue is undecided, nothing was sent to its call, and it is no pass.
PendingOpen ==
  \A i \in pending : decision[i] = "none" /\ sent[i] = "nothing" /\ state[i] # "new"

\* A call that has not come yet has left no trace.
NewUntouched ==
  \A c \in Calls : state[c] = "new" =>
    decision[c] = "none" /\ sent[c] = "nothing" /\ c \notin pending /\ c \notin listening

\* A channel holds the decision on its item, and only a call that listens or has looked has one.
SentDecided ==
  \A i \in Calls : sent[i] # "nothing" => decision[i] = sent[i]

\* A pass is an approval that went to no channel and to no call.
PassesOpen ==
  \A i \in passes :
    /\ decision[i] = "approved" /\ sent[i] = "nothing"
    /\ used[i] = {}

\* An approval that was used came from the call's own channel, or from a pass.
UsedApproved ==
  \A i \in Calls : \A c \in used[i] :
    /\ decision[i] = "approved" /\ state[c] = "passed" /\ Same(c, i)
    /\ c = i => sent[i] = "approved"
    /\ c # i => sent[i] = "nothing"

\* A call whose channel is open still looks into it; one that does not wait has no channel.
ListeningLooks ==
  \A c \in Calls : c \in listening <=> state[c] \in {"waiting", "ended"}

\* What every step preserves: each promise of the queue needs the parts above.
Inv ==
  /\ TypeOK /\ PendingOpen /\ NewUntouched /\ SentDecided /\ PassesOpen
  /\ UsedApproved /\ ListeningLooks
  /\ OneCallPerApproval /\ ApprovalNotLost /\ QueuedOnce

\* What a call that heeds its channel changes.
LEMMA HeedEffect ==
  ASSUME TypeOK, NEW c \in Calls, Heed(c)
  PROVE  /\ \A d \in Calls : state'[d] = IF d = c THEN (IF sent[c] = "approved" THEN "passed" ELSE "refused")
                                         ELSE state[d]
         /\ state' \in [Calls -> {"new", "waiting", "ended", "unheard"} \cup Outcomes]
         /\ used' \in [Calls -> SUBSET Calls]
         /\ \A j \in Calls : used'[j] = IF j = c /\ sent[c] = "approved" THEN used[j] \cup {c} ELSE used[j]
<1>1. /\ \A d \in Calls : state'[d] = IF d = c THEN (IF sent[c] = "approved" THEN "passed" ELSE "refused")
                                      ELSE state[d]
      /\ state' \in [Calls -> {"new", "waiting", "ended", "unheard"} \cup Outcomes]
  BY DEF TypeOK, Heed, Leave, Outcomes
<1>2. CASE sent[c] = "approved"
  <2>1. used' = [used EXCEPT ![c] = @ \cup {c}]
    BY <1>2 DEF Heed, Use
  <2> QED
    BY <1>1, <1>2, <2>1 DEF TypeOK
<1>3. CASE sent[c] # "approved"
  BY <1>1, <1>3 DEF TypeOK, Heed
<1> QED
  BY <1>2, <1>3

-----------------------------------------------------------------------------
(* Each action preserves Inv. *)

LEMMA UsePassInv ==
  ASSUME Inv, NEW c \in Calls, NEW gone, NEW lost, UsePass(c, gone, lost)
  PROVE  Inv'
<1>1. /\ state[c] = "new"
      /\ \A d \in Calls : decision'[d] = IF d \in gone THEN "expired" ELSE decision[d]
      /\ gone \subseteq pending /\ lost \subseteq passes
      /\ lapsed' = lapsed \cup lost
      /\ pending' = pending \ gone /\ sender' = sender \ gone
      /\ decision' \in [Calls -> {"none", "approved", "denied", "expired"}]
      /\ \A d \in Calls : state'[d] = IF d = c THEN "passed" ELSE state[d]
      /\ state' \in [Calls -> {"new", "waiting", "ended", "unheard"} \cup Outcomes]
      /\ used' \in [Calls -> SUBSET Calls]
      /\ \E i \in passes \ lost :
           /\ Same(c, i) /\ passes' = passes \ (lost \cup {i})
           /\ \A j \in Calls : used'[j] = IF j = i THEN used[j] \cup {c} ELSE used[j]
      /\ UNCHANGED <<listening, sent>>
  <2>1. PICK i \in passes \ lost : Same(c, i) /\ passes' = passes \ (lost \cup {i}) /\ Use(c, i)
    BY DEF UsePass
  <2>2. /\ i \in Calls /\ used' \in [Calls -> SUBSET Calls]
        /\ \A j \in Calls : used'[j] = IF j = i THEN used[j] \cup {c} ELSE used[j]
    BY <2>1 DEF Inv, TypeOK, Use
  <2> QED
    BY <2>1, <2>2 DEF Inv, TypeOK, UsePass, Leave, Outcomes, Sweep, SweptDecision
<1>2. TypeOK'
  BY <1>1, ApprovalsAssumption DEF Inv, TypeOK
<1>3. PendingOpen'
  BY <1>1 DEF Inv, TypeOK, PendingOpen, NewUntouched
<1>4. NewUntouched'
  BY <1>1 DEF Inv, TypeOK, NewUntouched, PendingOpen
<1>5. SentDecided'
  BY <1>1 DEF Inv, TypeOK, SentDecided, PendingOpen
<1>6. PassesOpen'
  BY <1>1 DEF Inv, TypeOK, PassesOpen, PendingOpen, UsedApproved
<1>7. UsedApproved'
  BY <1>1 DEF Inv, TypeOK, UsedApproved, PassesOpen, PendingOpen, NewUntouched, SentDecided, Same
<1>8. ListeningLooks'
  BY <1>1, ApprovalsAssumption DEF Inv, TypeOK, ListeningLooks, NewUntouched
<1>9. OneCallPerApproval'
  BY <1>1 DEF Inv, TypeOK, OneCallPerApproval, UsedApproved, PassesOpen, PendingOpen,
      SentDecided, Same
<1>10. ApprovalNotLost'
  BY <1>1 DEF Inv, TypeOK, ApprovalNotLost, Counts, PendingOpen, ListeningLooks, NewUntouched
<1>11. QueuedOnce'
  BY <1>1 DEF Inv, TypeOK, QueuedOnce, ListeningLooks, Same
<1> QED
  BY <1>2, <1>3, <1>4, <1>5, <1>6, <1>7, <1>8, <1>9, <1>10, <1>11 DEF Inv

LEMMA ReuseInv ==
  ASSUME Inv, NEW c \in Calls, NEW gone, NEW lost, Reuse(c, gone, lost)
  PROVE  Inv'
<1>1. /\ state[c] = "new"
      /\ \A d \in Calls : decision'[d] = IF d \in gone THEN "expired" ELSE decision[d]
      /\ gone \subseteq pending /\ lost \subseteq passes
      /\ lapsed' = lapsed \cup lost
      /\ pending' = pending \ gone /\ sender' = sender \ gone
      /\ decision' \in [Calls -> {"none", "approved", "denied", "expired"}]
      /\ \A d \in Calls : state'[d] = IF d = c THEN "held" ELSE state[d]
      /\ state' \in [Calls -> {"new", "waiting", "ended", "unheard"} \cup Outcomes]
      /\ passes' = passes \ lost
      /\ UNCHANGED <<listening, sent, used>>
  BY DEF Inv, TypeOK, Reuse, Leave, Outcomes, Sweep, SweptDecision
<1>2. TypeOK'
  BY <1>1, ApprovalsAssumption DEF Inv, TypeOK
<1>3. PendingOpen'
  BY <1>1 DEF Inv, TypeOK, PendingOpen, NewUntouched
<1>4. NewUntouched'
  BY <1>1 DEF Inv, TypeOK, NewUntouched, PendingOpen
<1>5. SentDecided'
  BY <1>1 DEF Inv, TypeOK, SentDecided, PendingOpen
<1>6. PassesOpen'
  BY <1>1 DEF Inv, TypeOK, PassesOpen, PendingOpen, UsedApproved
<1>7. UsedApproved'
  BY <1>1 DEF Inv, TypeOK, UsedApproved, PassesOpen, PendingOpen, NewUntouched, SentDecided, Same
<1>8. ListeningLooks'
  BY <1>1, ApprovalsAssumption DEF Inv, TypeOK, ListeningLooks, NewUntouched
<1>9. OneCallPerApproval'
  BY <1>1 DEF Inv, TypeOK, OneCallPerApproval, UsedApproved, PassesOpen, PendingOpen,
      SentDecided, Same
<1>10. ApprovalNotLost'
  BY <1>1 DEF Inv, TypeOK, ApprovalNotLost, Counts, PendingOpen, ListeningLooks, NewUntouched
<1>11. QueuedOnce'
  BY <1>1 DEF Inv, TypeOK, QueuedOnce, ListeningLooks, Same
<1> QED
  BY <1>2, <1>3, <1>4, <1>5, <1>6, <1>7, <1>8, <1>9, <1>10, <1>11 DEF Inv

LEMMA QueueInv ==
  ASSUME Inv, NEW c \in Calls, NEW gone, NEW lost, Queue(c, gone, lost)
  PROVE  Inv'
<1>1. /\ state[c] = "new"
      /\ \A d \in Calls : decision'[d] = IF d \in gone THEN "expired" ELSE decision[d]
      /\ gone \subseteq pending /\ lost \subseteq passes
      /\ lapsed' = lapsed \cup lost
      /\ decision' \in [Calls -> {"none", "approved", "denied", "expired"}]
      /\ state' \in [Calls -> {"new", "waiting", "ended", "unheard"} \cup Outcomes]
      /\ passes' = passes \ lost
      /\ pending' = (pending \ gone) \cup {c}
      /\ c \in CanWait \/ \A i \in pending \ gone : Same(c, i) => i \in listening
      /\ \A d \in Calls : state'[d] = IF d = c THEN (IF c \in CanWait THEN "waiting" ELSE "held") ELSE state[d]
      /\ sender' = IF c \in CanWait THEN (sender \ gone) \cup {c} ELSE sender \ gone
      /\ listening' = IF c \in CanWait THEN listening \cup {c} ELSE listening
      /\ UNCHANGED <<sent, used>>
  BY DEF Inv, TypeOK, Queue, Reusable, Unattended, Leave, Outcomes, Sweep, SweptDecision
<1>2. TypeOK'
  BY <1>1, ApprovalsAssumption DEF Inv, TypeOK
<1>3. PendingOpen'
  BY <1>1 DEF Inv, TypeOK, PendingOpen, NewUntouched
<1>4. NewUntouched'
  BY <1>1 DEF Inv, TypeOK, NewUntouched, PendingOpen
<1>5. SentDecided'
  BY <1>1 DEF Inv, TypeOK, SentDecided, PendingOpen
<1>6. PassesOpen'
  BY <1>1 DEF Inv, TypeOK, PassesOpen, PendingOpen, UsedApproved
<1>7. UsedApproved'
  BY <1>1 DEF Inv, TypeOK, UsedApproved, PassesOpen, PendingOpen, NewUntouched, SentDecided, Same
<1>8. ListeningLooks'
  BY <1>1, ApprovalsAssumption DEF Inv, TypeOK, ListeningLooks, NewUntouched
<1>9. OneCallPerApproval'
  BY <1>1 DEF Inv, TypeOK, OneCallPerApproval, UsedApproved, PassesOpen, PendingOpen,
      SentDecided, Same
<1>10. ApprovalNotLost'
  BY <1>1 DEF Inv, TypeOK, ApprovalNotLost, Counts, PendingOpen, ListeningLooks, NewUntouched
<1>11. QueuedOnce'
  BY <1>1 DEF Inv, TypeOK, QueuedOnce, ListeningLooks, Same
<1> QED
  BY <1>2, <1>3, <1>4, <1>5, <1>6, <1>7, <1>8, <1>9, <1>10, <1>11 DEF Inv

LEMMA HeedDecisionInv ==
  ASSUME Inv, NEW c \in Calls, HeedDecision(c)
  PROVE  Inv'
<1>1. /\ state[c] = "waiting" /\ sent[c] # "nothing"
      /\ \A d \in Calls : state'[d] = IF d = c THEN (IF sent[c] = "approved" THEN "passed" ELSE "refused") ELSE state[d]
      /\ state' \in [Calls -> {"new", "waiting", "ended", "unheard"} \cup Outcomes]
      /\ used' \in [Calls -> SUBSET Calls]
      /\ \A j \in Calls : used'[j] = IF j = c /\ sent[c] = "approved" THEN used[j] \cup {c} ELSE used[j]
      /\ listening' = listening \ {c}
      /\ UNCHANGED <<pending, sender, sent, passes, decision, lapsed>>
  BY HeedEffect DEF Inv, HeedDecision
<1>2. TypeOK'
  BY <1>1, ApprovalsAssumption DEF Inv, TypeOK
<1>3. PendingOpen'
  BY <1>1 DEF Inv, TypeOK, PendingOpen, NewUntouched
<1>4. NewUntouched'
  BY <1>1 DEF Inv, TypeOK, NewUntouched, PendingOpen
<1>5. SentDecided'
  BY <1>1 DEF Inv, TypeOK, SentDecided, PendingOpen
<1>6. PassesOpen'
  BY <1>1 DEF Inv, TypeOK, PassesOpen, PendingOpen, UsedApproved
<1>7. UsedApproved'
  BY <1>1 DEF Inv, TypeOK, UsedApproved, PassesOpen, PendingOpen, NewUntouched, SentDecided, Same
<1>8. ListeningLooks'
  BY <1>1, ApprovalsAssumption DEF Inv, TypeOK, ListeningLooks, NewUntouched
<1>9. OneCallPerApproval'
  BY <1>1 DEF Inv, TypeOK, OneCallPerApproval, UsedApproved, PassesOpen, PendingOpen,
      SentDecided, Same
<1>10. ApprovalNotLost'
  BY <1>1 DEF Inv, TypeOK, ApprovalNotLost, Counts, PendingOpen, ListeningLooks, NewUntouched
<1>11. QueuedOnce'
  BY <1>1 DEF Inv, TypeOK, QueuedOnce, ListeningLooks, Same
<1> QED
  BY <1>2, <1>3, <1>4, <1>5, <1>6, <1>7, <1>8, <1>9, <1>10, <1>11 DEF Inv

LEMMA WaitEndsInv ==
  ASSUME Inv, NEW c \in Calls, WaitEnds(c)
  PROVE  Inv'
<1>1. /\ state[c] = "waiting"
      /\ \A d \in Calls : state'[d] = IF d = c THEN "ended" ELSE state[d]
      /\ state' \in [Calls -> {"new", "waiting", "ended", "unheard"} \cup Outcomes]
      /\ UNCHANGED <<pending, sender, listening, sent, passes, decision, used, lapsed>>
  BY DEF Inv, TypeOK, WaitEnds, Leave, Outcomes
<1>2. TypeOK'
  BY <1>1, ApprovalsAssumption DEF Inv, TypeOK
<1>3. PendingOpen'
  BY <1>1 DEF Inv, TypeOK, PendingOpen, NewUntouched
<1>4. NewUntouched'
  BY <1>1 DEF Inv, TypeOK, NewUntouched, PendingOpen
<1>5. SentDecided'
  BY <1>1 DEF Inv, TypeOK, SentDecided, PendingOpen
<1>6. PassesOpen'
  BY <1>1 DEF Inv, TypeOK, PassesOpen, PendingOpen, UsedApproved
<1>7. UsedApproved'
  BY <1>1 DEF Inv, TypeOK, UsedApproved, PassesOpen, PendingOpen, NewUntouched, SentDecided, Same
<1>8. ListeningLooks'
  BY <1>1, ApprovalsAssumption DEF Inv, TypeOK, ListeningLooks, NewUntouched
<1>9. OneCallPerApproval'
  BY <1>1 DEF Inv, TypeOK, OneCallPerApproval, UsedApproved, PassesOpen, PendingOpen,
      SentDecided, Same
<1>10. ApprovalNotLost'
  BY <1>1 DEF Inv, TypeOK, ApprovalNotLost, Counts, PendingOpen, ListeningLooks, NewUntouched
<1>11. QueuedOnce'
  BY <1>1 DEF Inv, TypeOK, QueuedOnce, ListeningLooks, Same
<1> QED
  BY <1>2, <1>3, <1>4, <1>5, <1>6, <1>7, <1>8, <1>9, <1>10, <1>11 DEF Inv

LEMMA CloseChannelInv ==
  ASSUME Inv, NEW c \in Calls, CloseChannel(c)
  PROVE  Inv'
<1>1. /\ state[c] = "ended"
      /\ \A d \in Calls : state'[d] = IF d = c THEN (IF sent[c] = "approved" THEN "passed" ELSE IF sent[c] = "denied" THEN "refused" ELSE "unheard") ELSE state[d]
      /\ state' \in [Calls -> {"new", "waiting", "ended", "unheard"} \cup Outcomes]
      /\ used' \in [Calls -> SUBSET Calls]
      /\ \A j \in Calls : used'[j] = IF j = c /\ sent[c] = "approved" THEN used[j] \cup {c} ELSE used[j]
      /\ listening' = listening \ {c}
      /\ UNCHANGED <<pending, sender, sent, passes, decision, lapsed>>
  <2>1. CASE sent[c] = "nothing"
    BY <2>1 DEF Inv, TypeOK, CloseChannel, Leave, Outcomes
  <2>2. CASE sent[c] # "nothing"
    BY <2>2, HeedEffect DEF Inv, TypeOK, CloseChannel
  <2> QED
    BY <2>1, <2>2
<1>2. TypeOK'
  BY <1>1, ApprovalsAssumption DEF Inv, TypeOK
<1>3. PendingOpen'
  BY <1>1 DEF Inv, TypeOK, PendingOpen, NewUntouched
<1>4. NewUntouched'
  BY <1>1 DEF Inv, TypeOK, NewUntouched, PendingOpen
<1>5. SentDecided'
  BY <1>1 DEF Inv, TypeOK, SentDecided, PendingOpen
<1>6. PassesOpen'
  BY <1>1 DEF Inv, TypeOK, PassesOpen, PendingOpen, UsedApproved
<1>7. UsedApproved'
  BY <1>1 DEF Inv, TypeOK, UsedApproved, PassesOpen, PendingOpen, NewUntouched, SentDecided, Same
<1>8. ListeningLooks'
  BY <1>1, ApprovalsAssumption DEF Inv, TypeOK, ListeningLooks, NewUntouched
<1>9. OneCallPerApproval'
  BY <1>1 DEF Inv, TypeOK, OneCallPerApproval, UsedApproved, PassesOpen, PendingOpen,
      SentDecided, Same
<1>10. ApprovalNotLost'
  BY <1>1 DEF Inv, TypeOK, ApprovalNotLost, Counts, PendingOpen, ListeningLooks, NewUntouched
<1>11. QueuedOnce'
  BY <1>1 DEF Inv, TypeOK, QueuedOnce, ListeningLooks, Same
<1> QED
  BY <1>2, <1>3, <1>4, <1>5, <1>6, <1>7, <1>8, <1>9, <1>10, <1>11 DEF Inv

LEMMA GiveUpInv ==
  ASSUME Inv, NEW c \in Calls, GiveUp(c)
  PROVE  Inv'
<1>1. /\ state[c] = "unheard"
      /\ \A d \in Calls : state'[d] = IF d = c THEN "held" ELSE state[d]
      /\ state' \in [Calls -> {"new", "waiting", "ended", "unheard"} \cup Outcomes]
      /\ sender' = sender \ {c}
      /\ UNCHANGED <<pending, listening, sent, passes, decision, used, lapsed>>
  BY DEF Inv, TypeOK, GiveUp, Leave, Outcomes
<1>2. TypeOK'
  BY <1>1, ApprovalsAssumption DEF Inv, TypeOK
<1>3. PendingOpen'
  BY <1>1 DEF Inv, TypeOK, PendingOpen, NewUntouched
<1>4. NewUntouched'
  BY <1>1 DEF Inv, TypeOK, NewUntouched, PendingOpen
<1>5. SentDecided'
  BY <1>1 DEF Inv, TypeOK, SentDecided, PendingOpen
<1>6. PassesOpen'
  BY <1>1 DEF Inv, TypeOK, PassesOpen, PendingOpen, UsedApproved
<1>7. UsedApproved'
  BY <1>1 DEF Inv, TypeOK, UsedApproved, PassesOpen, PendingOpen, NewUntouched, SentDecided, Same
<1>8. ListeningLooks'
  BY <1>1, ApprovalsAssumption DEF Inv, TypeOK, ListeningLooks, NewUntouched
<1>9. OneCallPerApproval'
  BY <1>1 DEF Inv, TypeOK, OneCallPerApproval, UsedApproved, PassesOpen, PendingOpen,
      SentDecided, Same
<1>10. ApprovalNotLost'
  BY <1>1 DEF Inv, TypeOK, ApprovalNotLost, Counts, PendingOpen, ListeningLooks, NewUntouched
<1>11. QueuedOnce'
  BY <1>1 DEF Inv, TypeOK, QueuedOnce, ListeningLooks, Same
<1> QED
  BY <1>2, <1>3, <1>4, <1>5, <1>6, <1>7, <1>8, <1>9, <1>10, <1>11 DEF Inv

LEMMA DropCallInv ==
  ASSUME Inv, NEW c \in Calls, DropCall(c)
  PROVE  Inv'
<1>1. /\ state[c] = "waiting"
      /\ \A d \in Calls : state'[d] = IF d = c THEN "dropped" ELSE state[d]
      /\ state' \in [Calls -> {"new", "waiting", "ended", "unheard"} \cup Outcomes]
      /\ listening' = listening \ {c}
      /\ UNCHANGED <<pending, sender, sent, passes, decision, used, lapsed>>
  BY DEF Inv, TypeOK, DropCall, Leave, Outcomes
<1>2. TypeOK'
  BY <1>1, ApprovalsAssumption DEF Inv, TypeOK
<1>3. PendingOpen'
  BY <1>1 DEF Inv, TypeOK, PendingOpen, NewUntouched
<1>4. NewUntouched'
  BY <1>1 DEF Inv, TypeOK, NewUntouched, PendingOpen
<1>5. SentDecided'
  BY <1>1 DEF Inv, TypeOK, SentDecided, PendingOpen
<1>6. PassesOpen'
  BY <1>1 DEF Inv, TypeOK, PassesOpen, PendingOpen, UsedApproved
<1>7. UsedApproved'
  BY <1>1 DEF Inv, TypeOK, UsedApproved, PassesOpen, PendingOpen, NewUntouched, SentDecided, Same
<1>8. ListeningLooks'
  BY <1>1, ApprovalsAssumption DEF Inv, TypeOK, ListeningLooks, NewUntouched
<1>9. OneCallPerApproval'
  BY <1>1 DEF Inv, TypeOK, OneCallPerApproval, UsedApproved, PassesOpen, PendingOpen,
      SentDecided, Same
<1>10. ApprovalNotLost'
  BY <1>1 DEF Inv, TypeOK, ApprovalNotLost, Counts, PendingOpen, ListeningLooks, NewUntouched
<1>11. QueuedOnce'
  BY <1>1 DEF Inv, TypeOK, QueuedOnce, ListeningLooks, Same
<1> QED
  BY <1>2, <1>3, <1>4, <1>5, <1>6, <1>7, <1>8, <1>9, <1>10, <1>11 DEF Inv

LEMMA ApproveInv ==
  ASSUME Inv, NEW c \in Calls, NEW gone, NEW lost, Approve(c, gone, lost)
  PROVE  Inv'
<1>1. /\ c \in pending \ gone /\ pending' = pending \ (gone \cup {c}) /\ sender' = sender \ (gone \cup {c})
      /\ gone \subseteq pending /\ lost \subseteq passes /\ lapsed' = lapsed \cup lost
      /\ \A d \in Calls : decision'[d] = IF d = c THEN "approved" ELSE IF d \in gone THEN "expired" ELSE decision[d]
      /\ decision' \in [Calls -> {"none", "approved", "denied", "expired"}]
      /\ sent' \in [Calls -> {"nothing", "approved", "denied"}]
      /\ \/ /\ passes' = (passes \ lost) \cup {c} /\ sent' = sent
         \/ /\ passes' = passes \ lost /\ c \in listening
            /\ \A d \in Calls : sent'[d] = IF d = c THEN "approved" ELSE sent[d]
      /\ UNCHANGED <<listening, state, used>>
  BY DEF Inv, TypeOK, Approve, Unattended, Sweep, SweptDecision
<1>2. TypeOK'
  BY <1>1, ApprovalsAssumption DEF Inv, TypeOK
<1>3. PendingOpen'
  BY <1>1 DEF Inv, TypeOK, PendingOpen, NewUntouched
<1>4. NewUntouched'
  BY <1>1 DEF Inv, TypeOK, NewUntouched, PendingOpen
<1>5. SentDecided'
  BY <1>1 DEF Inv, TypeOK, SentDecided, PendingOpen
<1>6. PassesOpen'
  BY <1>1 DEF Inv, TypeOK, PassesOpen, PendingOpen, UsedApproved
<1>7. UsedApproved'
  BY <1>1 DEF Inv, TypeOK, UsedApproved, PassesOpen, PendingOpen, NewUntouched, SentDecided, Same
<1>8. ListeningLooks'
  BY <1>1, ApprovalsAssumption DEF Inv, TypeOK, ListeningLooks, NewUntouched
<1>9. OneCallPerApproval'
  BY <1>1 DEF Inv, TypeOK, OneCallPerApproval, UsedApproved, PassesOpen, PendingOpen,
      SentDecided, Same
<1>10. ApprovalNotLost'
  BY <1>1 DEF Inv, TypeOK, ApprovalNotLost, Counts, PendingOpen, ListeningLooks, NewUntouched
<1>11. QueuedOnce'
  BY <1>1 DEF Inv, TypeOK, QueuedOnce, ListeningLooks, Same
<1> QED
  BY <1>2, <1>3, <1>4, <1>5, <1>6, <1>7, <1>8, <1>9, <1>10, <1>11 DEF Inv

LEMMA DenyInv ==
  ASSUME Inv, NEW c \in Calls, NEW gone, NEW lost, Deny(c, gone, lost)
  PROVE  Inv'
<1>1. /\ c \in pending \ gone /\ pending' = pending \ (gone \cup {c}) /\ sender' = sender \ (gone \cup {c})
      /\ gone \subseteq pending /\ lost \subseteq passes /\ lapsed' = lapsed \cup lost
      /\ \A d \in Calls : decision'[d] = IF d = c THEN "denied" ELSE IF d \in gone THEN "expired" ELSE decision[d]
      /\ decision' \in [Calls -> {"none", "approved", "denied", "expired"}]
      /\ sent' \in [Calls -> {"nothing", "approved", "denied"}]
      /\ passes' = passes \ lost
      /\ \A d \in Calls : sent'[d] = sent[d] \/ (d = c /\ sent'[d] = "denied")
      /\ UNCHANGED <<listening, state, used>>
  <2>1. sent' = sent \/ sent' = [sent EXCEPT ![c] = "denied"]
    BY DEF Deny
  <2>2. /\ sent' \in [Calls -> {"nothing", "approved", "denied"}]
        /\ \A d \in Calls : sent'[d] = sent[d] \/ (d = c /\ sent'[d] = "denied")
    BY <2>1 DEF Inv, TypeOK
  <2> QED
    BY <2>2 DEF Inv, TypeOK, Deny, Sweep, SweptDecision
<1>2. TypeOK'
  BY <1>1, ApprovalsAssumption DEF Inv, TypeOK
<1>3. PendingOpen'
  BY <1>1 DEF Inv, TypeOK, PendingOpen, NewUntouched
<1>4. NewUntouched'
  BY <1>1 DEF Inv, TypeOK, NewUntouched, PendingOpen
<1>5. SentDecided'
  BY <1>1 DEF Inv, TypeOK, SentDecided, PendingOpen
<1>6. PassesOpen'
  BY <1>1 DEF Inv, TypeOK, PassesOpen, PendingOpen, UsedApproved
<1>7. UsedApproved'
  BY <1>1 DEF Inv, TypeOK, UsedApproved, PassesOpen, PendingOpen, NewUntouched, SentDecided, Same
<1>8. ListeningLooks'
  BY <1>1, ApprovalsAssumption DEF Inv, TypeOK, ListeningLooks, NewUntouched
<1>9. OneCallPerApproval'
  BY <1>1 DEF Inv, TypeOK, OneCallPerApproval, UsedApproved, PassesOpen, PendingOpen,
      SentDecided, Same
<1>10. ApprovalNotLost'
  BY <1>1 DEF Inv, TypeOK, ApprovalNotLost, Counts, PendingOpen, ListeningLooks, NewUntouched
<1>11. QueuedOnce'
  BY <1>1 DEF Inv, TypeOK, QueuedOnce, ListeningLooks, Same
<1> QED
  BY <1>2, <1>3, <1>4, <1>5, <1>6, <1>7, <1>8, <1>9, <1>10, <1>11 DEF Inv

LEMMA SweepOnlyInv ==
  ASSUME Inv, NEW gone, NEW lost, SweepOnly(gone, lost)
  PROVE  Inv'
<1>1. /\ \A d \in Calls : decision'[d] = IF d \in gone THEN "expired" ELSE decision[d]
      /\ gone \subseteq pending /\ lost \subseteq passes
      /\ lapsed' = lapsed \cup lost
      /\ decision' \in [Calls -> {"none", "approved", "denied", "expired"}]
      /\ pending' = pending \ gone /\ sender' = sender \ gone
      /\ passes' = passes \ lost
      /\ UNCHANGED <<listening, sent, state, used>>
  BY DEF Inv, TypeOK, SweepOnly, Sweep, SweptDecision
<1>2. TypeOK'
  BY <1>1, ApprovalsAssumption DEF Inv, TypeOK
<1>3. PendingOpen'
  BY <1>1 DEF Inv, TypeOK, PendingOpen, NewUntouched
<1>4. NewUntouched'
  BY <1>1 DEF Inv, TypeOK, NewUntouched, PendingOpen
<1>5. SentDecided'
  BY <1>1 DEF Inv, TypeOK, SentDecided, PendingOpen
<1>6. PassesOpen'
  BY <1>1 DEF Inv, TypeOK, PassesOpen, PendingOpen, UsedApproved
<1>7. UsedApproved'
  BY <1>1 DEF Inv, TypeOK, UsedApproved, PassesOpen, PendingOpen, NewUntouched, SentDecided, Same
<1>8. ListeningLooks'
  BY <1>1, ApprovalsAssumption DEF Inv, TypeOK, ListeningLooks, NewUntouched
<1>9. OneCallPerApproval'
  BY <1>1 DEF Inv, TypeOK, OneCallPerApproval, UsedApproved, PassesOpen, PendingOpen,
      SentDecided, Same
<1>10. ApprovalNotLost'
  BY <1>1 DEF Inv, TypeOK, ApprovalNotLost, Counts, PendingOpen, ListeningLooks, NewUntouched
<1>11. QueuedOnce'
  BY <1>1 DEF Inv, TypeOK, QueuedOnce, ListeningLooks, Same
<1> QED
  BY <1>2, <1>3, <1>4, <1>5, <1>6, <1>7, <1>8, <1>9, <1>10, <1>11 DEF Inv

-----------------------------------------------------------------------------
(* The theorems. *)

LEMMA InitInv == Init => Inv
BY ApprovalsAssumption DEF Init, Inv, TypeOK, PendingOpen, NewUntouched, SentDecided, PassesOpen,
    UsedApproved,
  ListeningLooks, OneCallPerApproval, ApprovalNotLost, QueuedOnce

LEMMA StutterInv ==
  ASSUME Inv, UNCHANGED vars
  PROVE  Inv'
BY DEF vars, Inv, TypeOK, PendingOpen, NewUntouched, SentDecided, PassesOpen, UsedApproved,
  ListeningLooks, OneCallPerApproval, ApprovalNotLost, Counts, QueuedOnce

LEMMA NextInv == Inv /\ [Next]_vars => Inv'
<1> SUFFICES ASSUME Inv, [Next]_vars PROVE Inv'
  OBVIOUS
<1>1. ASSUME NEW c \in Calls, Step(c) PROVE Inv'
  BY <1>1, HeedDecisionInv, WaitEndsInv, CloseChannelInv, GiveUpInv, DropCallInv DEF Step
<1>2. ASSUME NEW gone \in SUBSET pending, NEW lost \in SUBSET passes, NEW c \in Calls, Enqueue(c, gone, lost)
      PROVE  Inv'
  BY <1>2, UsePassInv, ReuseInv, QueueInv DEF Enqueue
<1> QED
  BY <1>1, <1>2, ApproveInv, DenyInv, SweepOnlyInv, StutterInv DEF Next

LEMMA Invariance == Spec => []Inv
BY InitInv, NextInv, PTL DEF Spec

\* The queue's variables keep their types.
THEOREM TypeCorrect == Spec => []TypeOK
BY Invariance, PTL DEF Inv

\* A held call goes on only with a person's approval of an identical call, and an approval lets one
\* call go on, whoever gets it first.
THEOREM OneCallCorrect == Spec => []OneCallPerApproval
BY Invariance, PTL DEF Inv

\* An approval that meets the end of a wait is used, becomes a pass, or went to a dropped call.
THEOREM NotLostCorrect == Spec => []ApprovalNotLost
BY Invariance, PTL DEF Inv

\* Calls that cannot wait never fill the queue with copies of one question.
THEOREM QueuedOnceCorrect == Spec => []QueuedOnce
BY Invariance, PTL DEF Inv

\* An item is decided once: only items of the queue are decided, and they are undecided.
LEMMA NextKeepsDecisions ==
  ASSUME Inv, [Next]_vars, NEW i \in Calls, decision[i] # "none"
  PROVE  decision'[i] = decision[i]
<1>1. i \notin pending
  BY DEF Inv, PendingOpen
<1>2. ASSUME NEW gone \in SUBSET pending, decision' = SweptDecision(gone)
      PROVE  decision'[i] = decision[i]
  BY <1>1, <1>2 DEF SweptDecision
<1>3. ASSUME NEW c \in pending, NEW d, NEW gone \in SUBSET pending,
             decision' = [SweptDecision(gone) EXCEPT ![c] = d]
      PROVE  decision'[i] = decision[i]
  BY <1>1, <1>3 DEF SweptDecision
<1>4. ASSUME NEW c \in Calls, Step(c) PROVE decision'[i] = decision[i]
  BY <1>4 DEF Step, HeedDecision, WaitEnds, CloseChannel, GiveUp, DropCall
<1>5. ASSUME NEW gone \in SUBSET pending, NEW lost, NEW c \in Calls, Enqueue(c, gone, lost)
      PROVE  decision'[i] = decision[i]
  BY <1>2, <1>5 DEF Enqueue, UsePass, Reuse, Queue
<1>6. ASSUME NEW gone \in SUBSET pending, NEW lost, NEW c \in Calls,
             Approve(c, gone, lost) \/ Deny(c, gone, lost)
      PROVE  decision'[i] = decision[i]
  BY <1>3, <1>6 DEF Approve, Deny
<1>7. ASSUME NEW gone \in SUBSET pending, NEW lost, SweepOnly(gone, lost)
      PROVE  decision'[i] = decision[i]
  BY <1>2, <1>7 DEF SweepOnly
<1>8. CASE UNCHANGED vars
  BY <1>8 DEF vars
<1> QED
  BY <1>4, <1>5, <1>6, <1>7, <1>8 DEF Next

\* A person's decision, or an expiry, is never changed afterwards.
THEOREM DecisionFinalCorrect == Spec => DecisionFinal
<1>1. Inv /\ [Next]_vars => [\A i \in Calls : decision[i] # "none" => decision'[i] = decision[i]]_vars
  BY NextKeepsDecisions
<1> QED
  BY <1>1, Invariance, PTL DEF Spec, DecisionFinal
=============================================================================
