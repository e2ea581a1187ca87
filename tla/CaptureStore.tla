---------------------------- MODULE CaptureStore ----------------------------
(***************************************************************************)
(* The captured exchanges of one workspace, in memory and on disk:         *)
(* crates/engine/src/capture/store.rs.                                     *)
(*                                                                         *)
(* Every operation is one section of the store's lock.  The first change   *)
(* arms a timer; its task looks, in one section, whether its token is      *)
(* still the pending one, takes the snapshot in another, and writes the    *)
(* file outside the lock, truncating it first.  The engine flushes when it *)
(* stops, does not wait for tasks, and may also just die.                  *)
(*                                                                         *)
(* Of an exchange only its id and its pin are kept; that an update changed *)
(* anything else in it shows in `fresh`: whether a snapshot has the newest *)
(* change of the memory it was taken from.                                 *)
(***************************************************************************)
EXTENDS Integers, Sequences, FiniteSets, Functions

CONSTANTS
  Ids,      \* ids of exchanges
  Limits,   \* the values of captureLimit in the settings
  MaxToken  \* bound of the model: timers armed by one engine

ASSUME CaptureAssumption ==
  /\ Limits \subseteq Nat \ {0} /\ Limits # {}
  /\ MaxToken \in Nat

VARIABLES
  setting,   \* captureLimit as the settings have it
  limit,     \* the limit in force; 0 when the settings have not been read
  paused,
  loaded,    \* the workspace has been read from its file
  entries,   \* the exchanges in memory, newest first
  pending,   \* the token of the timer that will write; 0 when there is none
  nextToken,
  asleep,    \* the timers that sleep
  due,       \* those about to call write_now: timers that found their token pending, or the flush
  writes,    \* the writes under way
  flushed,   \* the engine is stopping and has looked what to flush
  file,      \* what a reading of the file gives, and whether it has the newest change
  unsure     \* history: a write failed, or was not alone, and none has succeeded alone since

memory    == <<limit, paused, loaded, entries, pending, nextToken, asleep>>
schedule  == <<pending, nextToken, asleep>>
disk      == <<writes, file, unsure>>
vars == <<setting, memory, due, flushed, disk>>

Unreadable == [entries |-> <<>>, fresh |-> FALSE]   \* loads as an empty history
Flush      == 0                                     \* the flush, among the timers' tokens

Init ==
  /\ setting \in Limits /\ limit = 0 /\ paused = FALSE
  /\ loaded = FALSE /\ entries = <<>>
  /\ pending = 0 /\ nextToken = 0 /\ asleep = {} /\ due = {}
  /\ writes = {} /\ flushed = FALSE
  /\ file = Unreadable /\ unsure = FALSE

---------------------------------------------------------------------------
(* The history in memory. *)

Unpinned(list) == {n \in DOMAIN list : ~list[n].pinned}

\* Vec::retain: the entries at the places kept, in their order.
Retain(list, kept) ==
  [n \in 1..Cardinality(kept) |-> list[CHOOSE k \in kept : Cardinality(kept \cap 1..k) = n]]

\* evict: every pinned entry and the newest unpinned ones.
Evict(list, most) ==
  Retain(list, {n \in DOMAIN list : list[n].pinned \/ Cardinality(Unpinned(list) \cap 1..n) <= most})

LimitOf == IF limit = 0 THEN setting ELSE limit

\* entries_of: what the file has is cut to the limit when it is read, and not written again for that.
EntriesOf == IF loaded THEN entries ELSE Evict(file.entries, LimitOf)

HasNewest(list, i) == list # <<>> /\ list[1].id = i   \* mutant: only the newest is looked at

Has(list, i) == \E n \in DOMAIN list : list[n].id = i

Load ==
  /\ limit' = LimitOf /\ loaded' = TRUE
  /\ entries' = EntriesOf
  /\ file' = IF loaded THEN file ELSE [file EXCEPT !.fresh = TRUE]
  /\ UNCHANGED <<schedule, writes>>

ScheduleIfIdle ==   \* mutant: a timer that is still asleep, whatever its token, is relied on
  IF pending # 0 \/ asleep # {}
  THEN UNCHANGED schedule
  ELSE /\ nextToken < MaxToken
       /\ nextToken' = nextToken + 1
       /\ pending' = nextToken' /\ asleep' = asleep \cup {nextToken'}

\* schedule_write: the first change arms a timer, later ones ride on it.  Left out: a host that has remembered no
\* runtime yet has no timer to arm, and the change waits for a flush.
Schedule ==
  IF pending # 0
  THEN UNCHANGED schedule
  ELSE /\ nextToken < MaxToken
       /\ nextToken' = nextToken + 1
       /\ pending' = nextToken' /\ asleep' = asleep \cup {nextToken'}

\* A change makes what was taken before old.
Change(list) ==
  /\ entries' = list /\ loaded' = TRUE
  /\ Schedule
  /\ file' = [file EXCEPT !.fresh = FALSE]
  /\ writes' = {[w EXCEPT !.fresh = FALSE] : w \in writes}

Alter(list) == Change(list) /\ limit' = LimitOf

Untouched == UNCHANGED <<setting, paused, due, flushed, unsure>>

\* record_capture: an exchange already kept is updated where it is, also while paused.
Record(i) ==
  /\ IF Has(EntriesOf, i)
     THEN Alter(EntriesOf)
     ELSE IF paused THEN Load
     ELSE Alter(Evict(<<[id |-> i, pinned |-> FALSE]>> \o EntriesOf, LimitOf))
  /\ Untouched

\* record_capture_message: a message of an exchange that is not kept records nothing.
RecordMessage(i) ==
  /\ IF Has(EntriesOf, i) THEN Alter(EntriesOf) ELSE Load
  /\ Untouched

List == Load /\ Untouched

\* clear_capture does not read what it replaces.
Clear ==
  /\ Change(<<>>) /\ UNCHANGED limit
  /\ Untouched

RemoveCapture(ids) ==
  /\ IF \E i \in ids : Has(EntriesOf, i)
     THEN Alter(Retain(EntriesOf, {n \in DOMAIN EntriesOf : EntriesOf[n].id \notin ids}))
     ELSE Load
  /\ Untouched

\* pin_capture: an entry unpinned beyond the limit is evicted at once.
Pin(ids, pinned) ==
  /\ IF \E n \in DOMAIN EntriesOf : EntriesOf[n].id \in ids /\ EntriesOf[n].pinned # pinned
     THEN Alter(Evict([n \in DOMAIN EntriesOf |->
                         IF EntriesOf[n].id \in ids THEN [EntriesOf[n] EXCEPT !.pinned = pinned]
                         ELSE EntriesOf[n]], LimitOf))
     ELSE Load
  /\ Untouched

SetPaused(on) ==
  /\ paused' = on
  /\ UNCHANGED <<setting, limit, loaded, entries, schedule, due, flushed, disk>>

ChangeSetting ==
  /\ setting' \in Limits
  /\ UNCHANGED <<memory, due, flushed, disk>>

RefreshLater ==   \* mutant: a lower limit waits for the next exchange
  /\ limit' = setting
  /\ UNCHANGED <<loaded, entries, schedule, writes, file>>
  /\ Untouched

\* refresh_capture_limit: what is in memory is cut, and written if that dropped anything.
Refresh ==
  /\ limit' = setting
  /\ IF loaded /\ Len(Evict(entries, setting)) < Len(entries)
     THEN Change(Evict(entries, setting))
     ELSE UNCHANGED <<loaded, entries, schedule, writes, file>>
  /\ Untouched

---------------------------------------------------------------------------
(* The file. *)

\* The timer of a write that something else has done meanwhile ends without one.
TimerWakes(t) ==
  /\ t \in asleep
  /\ asleep' = asleep \ {t}
  /\ due' = IF pending = t THEN due \cup {t} ELSE due
  /\ UNCHANGED <<setting, limit, paused, loaded, entries, pending, nextToken, flushed, disk>>

\* flush_capture looks what is pending; the engine does so once, when it stops.
FlushLooks ==
  /\ ~flushed
  /\ flushed' = TRUE
  /\ due' = IF pending # 0 THEN due \cup {Flush} ELSE due
  /\ UNCHANGED <<setting, memory, disk>>

Snapshot(t) == [by |-> t, entries |-> entries, fresh |-> loaded, opened |-> FALSE, alone |-> writes = {}]

\* write_now under the lock: nothing is pending any more, whatever its token.
TakeSnapshot(t) ==
  /\ t \in due
  /\ due' = due \ {t}
  /\ pending' = 0
  /\ writes' = {[w EXCEPT !.alone = FALSE] : w \in writes} \cup {Snapshot(t)}
  /\ UNCHANGED <<setting, limit, paused, loaded, entries, nextToken, asleep, flushed, file, unsure>>

\* The file is created or truncated.
Open(w) ==
  /\ ~w.opened
  /\ writes' = (writes \ {w}) \cup {[w EXCEPT !.opened = TRUE]}
  /\ file' = Unreadable
  /\ UNCHANGED <<setting, memory, due, flushed, unsure>>

\* The content is written; two writes of one file can leave a mixture of both.
Written(w) ==
  /\ w.opened
  /\ writes' = writes \ {w}
  /\ LET whole == [entries |-> w.entries, fresh |-> w.fresh]
     IN file' \in IF w.alone THEN {whole} ELSE {whole, Unreadable}
  /\ unsure' = ~w.alone
  /\ UNCHANGED <<setting, memory, due, flushed>>

\* A write that fails is reported, and not tried again before the next change.
WriteFails(w) ==
  /\ writes' = writes \ {w}
  /\ unsure' = TRUE
  /\ UNCHANGED <<setting, memory, due, flushed, file>>

\* The engine ends, after its flush or at any other moment, and the next one starts.
Restart ==
  /\ limit' = 0 /\ paused' = FALSE /\ loaded' = FALSE /\ entries' = <<>>
  /\ pending' = 0 /\ nextToken' = 0 /\ asleep' = {} /\ due' = {} /\ writes' = {}
  /\ flushed' = FALSE
  /\ unsure' = FALSE
  /\ UNCHANGED <<setting, file>>

Write == \E w \in writes : Open(w) \/ Written(w) \/ WriteFails(w)

Next ==
  \/ \E i \in Ids : Record(i) \/ RecordMessage(i)
  \/ List \/ Clear \/ Refresh \/ ChangeSetting \/ FlushLooks \/ Restart \/ Write
  \/ \E ids \in SUBSET Ids \ {{}} : RemoveCapture(ids) \/ \E pinned \in BOOLEAN : Pin(ids, pinned)
  \/ \E on \in BOOLEAN : SetPaused(on)
  \/ \E t \in asleep : TimerWakes(t)
  \/ \E t \in due : TakeSnapshot(t)

Spec == Init /\ [][Next]_vars

---------------------------------------------------------------------------
(* What must hold. *)

Entry == [id : Ids, pinned : BOOLEAN]
Tokens == 1..MaxToken

\* The variables have their types, an exchange is kept once, and a pending token was given.
TypeOK ==
  /\ setting \in Limits /\ limit \in Limits \cup {0}
  /\ paused \in BOOLEAN /\ loaded \in BOOLEAN /\ flushed \in BOOLEAN /\ unsure \in BOOLEAN
  /\ entries \in Seq(Entry) /\ IsInjective([n \in DOMAIN entries |-> entries[n].id])
  /\ nextToken \in 0..MaxToken /\ pending \in 0..nextToken
  /\ asleep \subseteq 1..nextToken /\ due \subseteq 0..nextToken
  /\ file \in [entries : Seq(Entry), fresh : BOOLEAN]
  /\ writes \subseteq [by : 0..nextToken, entries : Seq(Entry), fresh : BOOLEAN,
                       opened : BOOLEAN, alone : BOOLEAN]

\* What the file holds, or will hold without another change: every change has a timer that will recognise
\* its token, is about to be taken, is being written, or is in the file.  Only a write that failed or was not
\* alone leaves it open.
NoChangeForgotten ==
  loaded => \/ pending \in asleep \cup due \/ Flush \in due
            \/ \E w \in writes : w.fresh
            \/ file.fresh \/ unsure

\* Whatever is recorded, loaded, unpinned or set, memory keeps no more unpinned exchanges than the limit in force.
WithinLimit == Cardinality(Unpinned(entries)) <= limit
===========================
