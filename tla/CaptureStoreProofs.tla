------------------------- MODULE CaptureStoreProofs -------------------------
(***************************************************************************)
(* Proofs about the captured exchanges, for any exchanges, limits and      *)
(* number of timers: the variables keep their types and an exchange is     *)
(* kept once, memory keeps no more than the limit, and no change is        *)
(* forgotten.                                                              *)
(***************************************************************************)
EXTENDS CaptureStore, SequenceTheorems, FunctionTheorems, FiniteSetTheorems, TLAPS

---------------------------------------------------------------------------
(* Retain and Evict. *)

\* Where k comes among the members of U, counted from 1, tells it from the others, and every place is taken.
LEMMA Ranks ==
  ASSUME NEW top \in Nat, NEW U \in SUBSET (1..top)
  PROVE  /\ IsFiniteSet(U) /\ Cardinality(U) \in Nat
         /\ \A k \in U : Cardinality(U \cap 1..k) \in 1..Cardinality(U)
         /\ \A k, l \in U : Cardinality(U \cap 1..k) = Cardinality(U \cap 1..l) => k = l
         /\ \A n \in 1..Cardinality(U) : \E k \in U : Cardinality(U \cap 1..k) = n
<1> DEFINE rank(k) == Cardinality(U \cap 1..k)
<1>1. IsFiniteSet(U) /\ Cardinality(U) \in Nat
  <2>1. IsFiniteSet(1..top)
    BY FS_Interval
  <2> QED  BY <2>1, FS_Subset, FS_CardinalityType
<1>2. \A k : IsFiniteSet(U \cap 1..k) /\ rank(k) \in Nat /\ rank(k) <= Cardinality(U)
  BY <1>1, FS_Intersection, FS_CardinalityType
<1>3. ASSUME NEW k \in U, NEW l \in U, k < l PROVE rank(k) < rank(l)
  <2>1. l \notin U \cap 1..k
    BY <1>3
  <2>2. Cardinality((U \cap 1..k) \cup {l}) = rank(k) + 1
    BY <1>2, <2>1, FS_AddElement
  <2>3. (U \cap 1..k) \cup {l} \in SUBSET (U \cap 1..l)
    BY <1>3
  <2>4. Cardinality((U \cap 1..k) \cup {l}) <= rank(l)
    BY <1>2, <2>3, FS_Subset
  <2> QED  BY <1>2, <2>2, <2>4
<1>4. \A k, l \in U : rank(k) = rank(l) => k = l
  <2> SUFFICES ASSUME NEW k \in U, NEW l \in U, rank(k) = rank(l), k # l PROVE FALSE
    OBVIOUS
  <2>1. rank(k) \in Nat /\ rank(l) \in Nat
    BY <1>2
  <2>2. CASE k < l
    BY <1>3, <2>1, <2>2
  <2>3. CASE l < k
    BY <1>3, <2>1, <2>3
  <2> QED  BY <2>2, <2>3
<1>5. ASSUME NEW k \in U PROVE rank(k) \in 1..Cardinality(U)
  <2>1. U \cap 1..k # {}
    OBVIOUS
  <2>2. rank(k) # 0
    BY <1>2, <2>1, FS_EmptySet
  <2> QED  BY <1>1, <1>2, <2>2
<1> DEFINE f == [k \in U |-> rank(k)]
<1>6. f \in Injection(U, 1..Cardinality(U))
  <2>1. f \in [U -> 1..Cardinality(U)]
    BY <1>5
  <2>2. \A k, l \in U : f[k] = f[l] => k = l
    BY <1>4
  <2> HIDE DEF f
  <2> QED  BY <2>1, <2>2, Fun_IsInj
<1>7. f \in Surjection(U, 1..Cardinality(U))
  <2>1. IsFiniteSet(1..Cardinality(U)) /\ Cardinality(1..Cardinality(U)) = Cardinality(U)
    BY <1>1, FS_Interval
  <2> QED  BY <1>6, <2>1, FS_Injection
<1>8. \A n \in 1..Cardinality(U) : \E k \in U : rank(k) = n
  BY <1>7 DEF Surjection
<1> QED  BY <1>1, <1>4, <1>5, <1>8

---------------------------------------------------------------------------
(* The inductive invariant. *)

IsWrite(w) ==
  /\ w = [by |-> w.by, entries |-> w.entries, fresh |-> w.fresh, opened |-> w.opened, alone |-> w.alone]
  /\ w.fresh \in BOOLEAN /\ w.opened \in BOOLEAN /\ w.alone \in BOOLEAN

Typed ==
  /\ loaded \in BOOLEAN
  /\ nextToken \in Nat /\ pending \in Nat
  /\ asleep \subseteq Nat \ {0}
  /\ \A w \in writes : IsWrite(w)
  /\ file = [entries |-> file.entries, fresh |-> file.fresh]

\* A pending token is that of a timer that sleeps, or has just found it.
PendingHasTimer == pending # 0 => pending \in asleep \cup due

\* Nothing is due or written before the history was read.
UnloadedIdle == ~loaded => pending = 0 /\ due = {} /\ writes = {}

AloneIsAlone == \A w \in writes : w.alone => writes = {w}

\* What a write that is alone misses is still pending.
AloneStale == \A w \in writes : w.alone /\ ~w.fresh => pending # 0

\* An older snapshot under way beside a newer file is noticed.
StaleNoticed == \A w \in writes : file.fresh /\ ~w.fresh => unsure

Inv == Typed /\ PendingHasTimer /\ UnloadedIdle /\ AloneIsAlone /\ AloneStale /\ StaleNoticed
       /\ NoChangeForgotten

---------------------------------------------------------------------------
(* What the helpers do to it. *)

LEMMA InitInv == Init => Inv
<1> SUFFICES ASSUME Init PROVE Inv
  OBVIOUS
<1>1. file = [entries |-> file.entries, fresh |-> file.fresh]
  BY DEF Init, Unreadable
<1> QED
  BY <1>1 DEF Init, Inv, Typed, PendingHasTimer, UnloadedIdle, AloneIsAlone, AloneStale, StaleNoticed,
       NoChangeForgotten

\* After schedule_write a token is pending and a timer of it lives.
LEMMA ScheduleInv ==
  ASSUME Inv, Schedule, due' = due
  PROVE  /\ pending' # 0 /\ pending' \in asleep' \cup due'
         /\ nextToken' \in Nat /\ pending' \in Nat /\ asleep' \subseteq Nat \ {0}
BY DEF Inv, Typed, PendingHasTimer, Schedule, schedule

\* A change leaves a timer behind that will take it.
LEMMA ChangeInv ==
  ASSUME Inv, NEW list, Change(list), due' = due, unsure' = unsure
  PROVE  Inv'
<1>1. /\ pending' # 0 /\ pending' \in asleep' \cup due'
      /\ nextToken' \in Nat /\ pending' \in Nat /\ asleep' \subseteq Nat \ {0}
  BY ScheduleInv DEF Change
<1>2. /\ file' = [file EXCEPT !.fresh = FALSE]
      /\ writes' = {[w EXCEPT !.fresh = FALSE] : w \in writes} /\ loaded' = TRUE
  BY DEF Change
<1>3. /\ file'.fresh = FALSE /\ file' = [entries |-> file'.entries, fresh |-> file'.fresh]
  BY <1>2 DEF Inv, Typed
<1>4. ASSUME NEW w \in writes'
      PROVE  IsWrite(w) /\ (w.alone => writes' = {w})
  <2>1. PICK v \in writes : w = [v EXCEPT !.fresh = FALSE]
    BY <1>2
  <2>2. IsWrite(v) /\ (v.alone => writes = {v})
    BY DEF Inv, Typed, AloneIsAlone
  <2>3. w = [by |-> v.by, entries |-> v.entries, fresh |-> FALSE, opened |-> v.opened, alone |-> v.alone]
    BY <2>1, <2>2 DEF IsWrite
  <2>4. IsWrite(w) /\ w.alone = v.alone
    BY <2>2, <2>3 DEF IsWrite
  <2> QED
    BY <1>2, <2>1, <2>2, <2>4
<1>5. Typed'
  BY <1>1, <1>2, <1>3, <1>4 DEF Typed
<1>6. PendingHasTimer' /\ UnloadedIdle' /\ AloneStale' /\ StaleNoticed' /\ NoChangeForgotten'
  BY <1>1, <1>2, <1>3 DEF PendingHasTimer, UnloadedIdle, AloneStale, StaleNoticed, NoChangeForgotten
<1>7. AloneIsAlone'
  BY <1>4 DEF AloneIsAlone
<1> QED
  BY <1>5, <1>6, <1>7 DEF Inv

\* Reading the file changes nothing that was under way.
LEMMA LoadInv ==
  ASSUME Inv, Load, due' = due, unsure' = unsure
  PROVE  Inv'
<1>1. loaded' = TRUE /\ UNCHANGED <<pending, nextToken, asleep, writes, due, unsure>>
  BY DEF Load, schedule
<1>2. CASE loaded
  <2>1. file' = file
    BY <1>2 DEF Load
  <2> QED
    BY <1>1, <1>2, <2>1 DEF Inv, Typed, PendingHasTimer, UnloadedIdle, AloneIsAlone, AloneStale, StaleNoticed,
       NoChangeForgotten, IsWrite
<1>3. CASE ~loaded
  <2>1. /\ file'.fresh = TRUE /\ file' = [entries |-> file'.entries, fresh |-> file'.fresh]
    BY <1>3 DEF Load, Inv, Typed
  <2>2. writes' = {} /\ pending' = 0
    BY <1>1, <1>3 DEF Inv, UnloadedIdle
  <2> QED
    BY <1>1, <2>1, <2>2 DEF Inv, Typed, PendingHasTimer, UnloadedIdle, AloneIsAlone, AloneStale, StaleNoticed,
       NoChangeForgotten
<1> QED
  BY <1>2, <1>3 DEF Inv, Typed

\* A step that touches none of it.
LEMMA SameInv ==
  ASSUME Inv, UNCHANGED <<loaded, schedule, due, disk>>
  PROVE  Inv'
BY DEF Inv, Typed, PendingHasTimer, UnloadedIdle, AloneIsAlone, AloneStale, StaleNoticed, NoChangeForgotten,
       IsWrite, schedule, disk

---------------------------------------------------------------------------
(* The operations. *)

LEMMA AlterInv ==
  ASSUME Inv, NEW list, Alter(list) \/ Load, Untouched
  PROVE  Inv'
BY ChangeInv, LoadInv DEF Alter, Untouched

LEMMA RecordInv ==
  ASSUME Inv, NEW i \in Ids, Record(i) \/ RecordMessage(i)
  PROVE  Inv'
BY AlterInv DEF Record, RecordMessage

LEMMA RemoveInv ==
  ASSUME Inv, NEW ids \in SUBSET Ids, RemoveCapture(ids)
  PROVE  Inv'
BY AlterInv DEF RemoveCapture

LEMMA PinInv ==
  ASSUME Inv, NEW ids \in SUBSET Ids, NEW pinned \in BOOLEAN, Pin(ids, pinned)
  PROVE  Inv'
BY AlterInv DEF Pin

LEMMA ListInv == ASSUME Inv, List PROVE Inv'
BY LoadInv DEF List, Untouched

LEMMA ClearInv == ASSUME Inv, Clear PROVE Inv'
BY ChangeInv DEF Clear, Untouched

LEMMA RefreshInv ==
  ASSUME Inv, Refresh
  PROVE  Inv'
<1>1. CASE loaded /\ Len(Evict(entries, setting)) < Len(entries)
  BY <1>1, ChangeInv DEF Refresh, Untouched
<1>2. CASE ~(loaded /\ Len(Evict(entries, setting)) < Len(entries))
  BY <1>2, SameInv DEF Refresh, Untouched, disk
<1> QED
  BY <1>1, <1>2

---------------------------------------------------------------------------
(* The timers, the flush and the writes. *)

\* A timer that finds its token goes on to write; one that does not was not the pending one.
LEMMA TimerInv ==
  ASSUME Inv, NEW t \in asleep, TimerWakes(t)
  PROVE  Inv'
<1>1. /\ asleep' = asleep \ {t} /\ due' = IF pending = t THEN due \cup {t} ELSE due
      /\ UNCHANGED <<loaded, pending, nextToken, disk>>
  BY DEF TimerWakes
<1>2. t # 0
  BY DEF Inv, Typed
<1>3. Typed' /\ AloneIsAlone' /\ AloneStale' /\ StaleNoticed'
  BY <1>1 DEF Inv, Typed, AloneIsAlone, AloneStale, StaleNoticed, IsWrite, disk
<1>4. PendingHasTimer' /\ UnloadedIdle'
  BY <1>1, <1>2 DEF Inv, PendingHasTimer, UnloadedIdle, disk
<1>5. NoChangeForgotten'
  BY <1>1, <1>2 DEF Inv, NoChangeForgotten, Flush, disk
<1> QED
  BY <1>3, <1>4, <1>5 DEF Inv

LEMMA FlushInv ==
  ASSUME Inv, FlushLooks
  PROVE  Inv'
<1>1. /\ due' = IF pending # 0 THEN due \cup {Flush} ELSE due
      /\ UNCHANGED <<loaded, schedule, disk>>
  BY DEF FlushLooks, memory, schedule
<1> QED
  BY <1>1 DEF Inv, Typed, PendingHasTimer, UnloadedIdle, AloneIsAlone, AloneStale, StaleNoticed, NoChangeForgotten,
     IsWrite, schedule, disk

\* The new snapshot has everything; it is alone only where no other write is under way.
LEMMA SnapshotInv ==
  ASSUME Inv, NEW t \in due, TakeSnapshot(t)
  PROVE  Inv'
<1> DEFINE s == Snapshot(t)
<1>1. /\ due' = due \ {t} /\ pending' = 0
      /\ writes' = {[w EXCEPT !.alone = FALSE] : w \in writes} \cup {s}
      /\ UNCHANGED <<loaded, nextToken, asleep, file, unsure>>
  BY DEF TakeSnapshot
<1>2. loaded = TRUE
  BY DEF Inv, Typed, UnloadedIdle
<1>3. IsWrite(s) /\ s.fresh = TRUE /\ (s.alone => writes = {})
  BY <1>2 DEF Snapshot, IsWrite
<1> HIDE DEF s
<1>4. ASSUME NEW w \in writes', w # s
      PROVE  IsWrite(w) /\ ~w.alone /\ \E v \in writes : w.fresh = v.fresh
  <2>1. PICK v \in writes : w = [v EXCEPT !.alone = FALSE]
    BY <1>1, <1>4
  <2>2. IsWrite(v)
    BY DEF Inv, Typed
  <2>3. w = [by |-> v.by, entries |-> v.entries, fresh |-> v.fresh, opened |-> v.opened, alone |-> FALSE]
    BY <2>1, <2>2 DEF IsWrite
  <2> QED
    BY <2>2, <2>3 DEF IsWrite
<1>5. Typed'
  BY <1>1, <1>3, <1>4 DEF Inv, Typed
<1>6. PendingHasTimer' /\ UnloadedIdle' /\ NoChangeForgotten'
  BY <1>1, <1>2, <1>3 DEF PendingHasTimer, UnloadedIdle, NoChangeForgotten
<1>7. AloneIsAlone'
  BY <1>1, <1>3, <1>4 DEF AloneIsAlone
<1>8. AloneStale'
  BY <1>3, <1>4 DEF AloneStale
<1>9. StaleNoticed'
  BY <1>1, <1>3, <1>4 DEF Inv, StaleNoticed
<1> QED
  BY <1>5, <1>6, <1>7, <1>8, <1>9 DEF Inv

\* A file cut short is missed only by a write that is not fresh: what is newer is pending or was noticed.
LEMMA OpenInv ==
  ASSUME Inv, NEW w \in writes, Open(w)
  PROVE  Inv'
<1>0. PICK o : o = [w EXCEPT !.opened = TRUE]
  OBVIOUS
<1>1. /\ writes' = (writes \ {w}) \cup {o} /\ file' = Unreadable
      /\ UNCHANGED <<loaded, pending, nextToken, asleep, due, unsure>>
  BY <1>0 DEF Open, memory
<1>2. IsWrite(w)
  BY DEF Inv, Typed
<1>3. IsWrite(o) /\ o.fresh = w.fresh /\ o.alone = w.alone
  <2>1. o = [by |-> w.by, entries |-> w.entries, fresh |-> w.fresh, opened |-> TRUE, alone |-> w.alone]
    BY <1>0, <1>2 DEF IsWrite
  <2> QED
    BY <1>2, <2>1 DEF IsWrite
<1>4. file'.fresh = FALSE /\ file' = [entries |-> file'.entries, fresh |-> file'.fresh]
  BY <1>1 DEF Unreadable
<1>5. Typed' /\ PendingHasTimer' /\ UnloadedIdle'
  BY <1>1, <1>3, <1>4 DEF Inv, Typed, PendingHasTimer, UnloadedIdle
<1>6. AloneIsAlone'
  BY <1>1, <1>3 DEF Inv, AloneIsAlone
<1>7. AloneStale' /\ StaleNoticed'
  BY <1>1, <1>3, <1>4 DEF Inv, AloneStale, StaleNoticed
<1>8. NoChangeForgotten'
  <2>1. CASE w.fresh
    BY <1>1, <1>3, <2>1 DEF NoChangeForgotten
  <2>2. CASE ~w.fresh
    BY <1>1, <2>2 DEF Inv, NoChangeForgotten, StaleNoticed
  <2> QED
    BY <2>1, <2>2
<1> QED
  BY <1>5, <1>6, <1>7, <1>8 DEF Inv

\* A write that was alone brings everything, or what it misses is pending.
LEMMA WrittenInv ==
  ASSUME Inv, NEW w \in writes, Written(w)
  PROVE  Inv'
<1>1. /\ writes' = writes \ {w} /\ unsure' = ~w.alone
      /\ UNCHANGED <<loaded, pending, nextToken, asleep, due>>
      /\ file' \in {[entries |-> w.entries, fresh |-> w.fresh], Unreadable}
      /\ w.alone => file' = [entries |-> w.entries, fresh |-> w.fresh]
  BY DEF Written, memory
<1>2. IsWrite(w)
  BY DEF Inv, Typed
<1>3. file' = [entries |-> file'.entries, fresh |-> file'.fresh]
  BY <1>1 DEF Unreadable
<1>4. Typed' /\ PendingHasTimer' /\ UnloadedIdle' /\ AloneIsAlone' /\ AloneStale'
  BY <1>1, <1>3 DEF Inv, Typed, PendingHasTimer, UnloadedIdle, AloneIsAlone, AloneStale
<1>5. CASE w.alone
  <2>1. writes' = {} /\ file'.fresh = w.fresh
    BY <1>1, <1>5 DEF Inv, AloneIsAlone
  <2>2. StaleNoticed'
    BY <2>1 DEF StaleNoticed
  <2>3. ~w.fresh => pending' \in asleep' \cup due'
    BY <1>1, <1>5 DEF Inv, AloneStale, PendingHasTimer
  <2>4. NoChangeForgotten'
    BY <2>1, <2>3 DEF NoChangeForgotten
  <2> QED
    BY <1>4, <2>2, <2>4 DEF Inv
<1>6. CASE ~w.alone
  <2>1. unsure' = TRUE
    BY <1>1, <1>6
  <2> QED
    BY <1>4, <2>1 DEF Inv, StaleNoticed, NoChangeForgotten
<1> QED
  BY <1>5, <1>6

LEMMA FailsInv ==
  ASSUME Inv, NEW w \in writes, WriteFails(w)
  PROVE  Inv'
<1>1. /\ writes' = writes \ {w} /\ unsure' = TRUE
      /\ UNCHANGED <<loaded, pending, nextToken, asleep, due, file>>
  BY DEF WriteFails, memory
<1> QED
  BY <1>1 DEF Inv, Typed, PendingHasTimer, UnloadedIdle, AloneIsAlone, AloneStale, StaleNoticed, NoChangeForgotten,
     IsWrite

LEMMA RestartInv == ASSUME Inv, Restart PROVE Inv'
BY DEF Restart, Inv, Typed, PendingHasTimer, UnloadedIdle, AloneIsAlone, AloneStale, StaleNoticed, NoChangeForgotten

---------------------------------------------------------------------------
(* The theorem. *)

LEMMA NextInv == ASSUME Inv, [Next]_vars PROVE Inv'
<1>1. CASE \E i \in Ids : Record(i) \/ RecordMessage(i)
  BY <1>1, RecordInv
<1>2. CASE \E ids \in SUBSET Ids \ {{}} : RemoveCapture(ids) \/ \E pinned \in BOOLEAN : Pin(ids, pinned)
  BY <1>2, RemoveInv, PinInv
<1>3. CASE List \/ Clear \/ Refresh \/ FlushLooks \/ Restart
  BY <1>3, ListInv, ClearInv, RefreshInv, FlushInv, RestartInv
<1>4. CASE ChangeSetting \/ \E on \in BOOLEAN : SetPaused(on)
  BY <1>4, SameInv DEF ChangeSetting, SetPaused, memory, schedule
<1>5. CASE Write
  BY <1>5, OpenInv, WrittenInv, FailsInv DEF Write
<1>6. CASE (\E t \in asleep : TimerWakes(t)) \/ (\E t \in due : TakeSnapshot(t))
  BY <1>6, TimerInv, SnapshotInv
<1>7. CASE UNCHANGED vars
  BY <1>7, SameInv DEF vars, memory, schedule, disk
<1> QED
  BY <1>1, <1>2, <1>3, <1>4, <1>5, <1>6, <1>7 DEF Next

\* Every change of the history has a timer that will write it, is being written or is in the file, whatever
\* timers, flushes and writes overlap (store.rs, schedule_write, write_now and flush_capture).
THEOREM NoChangeCorrect == Spec => []NoChangeForgotten
<1>1. Inv => NoChangeForgotten
  BY DEF Inv
<1> QED
  BY InitInv, NextInv, <1>1, PTL DEF Spec

---------------------------------------------------------------------------
(***************************************************************************)
(* The types and the limit.  That memory is within the limit needs that    *)
(* nothing is kept before the file is read; that an exchange is kept once  *)
(* needs the same of every snapshot and of the file.                       *)
(***************************************************************************)
History(list) ==
  /\ list \in Seq(Entry)
  /\ \A m, n \in DOMAIN list : list[m].id = list[n].id => m = n

\* No more unpinned entries than most.
Within(list, most) == Cardinality(Unpinned(list)) <= most

LEMMA UnpinnedFinite ==
  ASSUME NEW list \in Seq(Entry)
  PROVE  /\ Len(list) \in Nat /\ DOMAIN list = 1..Len(list)
         /\ Unpinned(list) \in SUBSET (1..Len(list))
         /\ IsFiniteSet(Unpinned(list)) /\ Cardinality(Unpinned(list)) \in Nat
<1>1. Len(list) \in Nat /\ DOMAIN list = 1..Len(list)
  OBVIOUS
<1>2. Unpinned(list) \in SUBSET (1..Len(list))
  BY <1>1 DEF Unpinned
<1> QED  BY <1>1, <1>2, Ranks

\* Retain keeps each of the places once.
LEMMA RetainPlaces ==
  ASSUME NEW list \in Seq(Entry), NEW kept \in SUBSET DOMAIN list
  PROVE  \E f \in [1..Cardinality(kept) -> kept] :
           /\ \A m, n \in 1..Cardinality(kept) : f[m] = f[n] => m = n
           /\ Retain(list, kept) = [n \in 1..Cardinality(kept) |-> list[f[n]]]
           /\ Cardinality(kept) \in Nat /\ IsFiniteSet(kept)
<1> DEFINE place(n) == CHOOSE k \in kept : Cardinality(kept \cap 1..k) = n
           f == [n \in 1..Cardinality(kept) |-> place(n)]
<1>1. kept \in SUBSET (1..Len(list)) /\ Len(list) \in Nat
  OBVIOUS
<1>2. /\ IsFiniteSet(kept) /\ Cardinality(kept) \in Nat
      /\ \A n \in 1..Cardinality(kept) : \E k \in kept : Cardinality(kept \cap 1..k) = n
  BY <1>1, Ranks
<1>3. \A n \in 1..Cardinality(kept) : place(n) \in kept /\ Cardinality(kept \cap 1..place(n)) = n
  BY <1>2
<1> HIDE DEF place
<1>4. f \in [1..Cardinality(kept) -> kept] /\ \A m, n \in 1..Cardinality(kept) : f[m] = f[n] => m = n
  <2>1. \A n \in 1..Cardinality(kept) : f[n] = place(n)
    OBVIOUS
  <2>2. f \in [1..Cardinality(kept) -> kept]
    BY <1>3
  <2> HIDE DEF f
  <2>3. ASSUME NEW m \in 1..Cardinality(kept), NEW n \in 1..Cardinality(kept), f[m] = f[n] PROVE m = n
    <3>1. place(m) = place(n)
      BY <2>1, <2>3
    <3> QED  BY <1>3, <3>1
  <2> QED  BY <2>2, <2>3
<1>5. Retain(list, kept) = [n \in 1..Cardinality(kept) |-> list[f[n]]]
  BY DEF Retain, place
<1> HIDE DEF f
<1> QED  BY <1>2, <1>4, <1>5

LEMMA RetainHistory ==
  ASSUME NEW list, History(list), NEW kept \in SUBSET DOMAIN list
  PROVE  /\ History(Retain(list, kept)) /\ Len(Retain(list, kept)) = Cardinality(kept)
         /\ \A n \in DOMAIN Retain(list, kept) : \E k \in kept : Retain(list, kept)[n] = list[k]
<1>1. list \in Seq(Entry) /\ \A m, n \in DOMAIN list : list[m].id = list[n].id => m = n
  BY DEF History
<1>2. PICK f \in [1..Cardinality(kept) -> kept] :
         /\ \A m, n \in 1..Cardinality(kept) : f[m] = f[n] => m = n
         /\ Retain(list, kept) = [n \in 1..Cardinality(kept) |-> list[f[n]]]
         /\ Cardinality(kept) \in Nat
  BY <1>1, RetainPlaces
<1>3. PICK r : r = Retain(list, kept)
  OBVIOUS
<1>4. r = [n \in 1..Cardinality(kept) |-> list[f[n]]] /\ \A n \in 1..Cardinality(kept) : list[f[n]] \in Entry
  BY <1>1, <1>2, <1>3
<1>5. r \in Seq(Entry) /\ Len(r) = Cardinality(kept) /\ DOMAIN r = 1..Cardinality(kept)
  BY <1>2, <1>4
<1>6. \A m, n \in DOMAIN r : r[m].id = r[n].id => m = n
  BY <1>1, <1>2, <1>4, <1>5
<1>7. \A n \in DOMAIN r : \E k \in kept : r[n] = list[k]
  BY <1>2, <1>4, <1>5
<1> QED  BY <1>3, <1>5, <1>6, <1>7 DEF History

\* What is retained has no more unpinned entries than the places had.
LEMMA RetainUnpinned ==
  ASSUME NEW list \in Seq(Entry), NEW kept \in SUBSET DOMAIN list
  PROVE  Cardinality(Unpinned(Retain(list, kept))) <= Cardinality(Unpinned(list) \cap kept)
<1>1. PICK f \in [1..Cardinality(kept) -> kept] :
         /\ \A m, n \in 1..Cardinality(kept) : f[m] = f[n] => m = n
         /\ Retain(list, kept) = [n \in 1..Cardinality(kept) |-> list[f[n]]]
         /\ IsFiniteSet(kept)
  BY RetainPlaces
<1>2. PICK S, T : S = Unpinned(Retain(list, kept)) /\ T = Unpinned(list) \cap kept
  OBVIOUS
<1>3. S = {n \in 1..Cardinality(kept) : ~list[f[n]].pinned}
  BY <1>1, <1>2 DEF Unpinned
<1>4. [n \in S |-> f[n]] \in [S -> T]
  BY <1>2, <1>3 DEF Unpinned
<1>5. [n \in S |-> f[n]] \in Injection(S, T)
  BY <1>1, <1>3, <1>4, Fun_IsInj
<1>6. IsFiniteSet(T)
  BY <1>2, UnpinnedFinite, FS_Intersection
<1> QED  BY <1>2, <1>5, <1>6, FS_Injection

Stays(list, most) == {n \in DOMAIN list : list[n].pinned \/ Cardinality(Unpinned(list) \cap 1..n) <= most}

\* evict leaves at most the limit, and what it does not shorten was within it.
LEMMA EvictWithin ==
  ASSUME NEW list, History(list), NEW most \in Nat
  PROVE  /\ History(Evict(list, most)) /\ Within(Evict(list, most), most)
         /\ ~(Len(Evict(list, most)) < Len(list)) => Within(list, most)
<1>1. /\ list \in Seq(Entry) /\ DOMAIN list = 1..Len(list) /\ Len(list) \in Nat
      /\ Unpinned(list) \in SUBSET (1..Len(list)) /\ IsFiniteSet(Unpinned(list))
  BY UnpinnedFinite DEF History
<1>2. Evict(list, most) = Retain(list, Stays(list, most)) /\ Stays(list, most) \in SUBSET DOMAIN list
  BY DEF Evict, Stays
<1>3. PICK U, A : U = Unpinned(list) /\ A = Unpinned(list) \cap Stays(list, most)
  OBVIOUS
<1>4. /\ \A k \in U : Cardinality(U \cap 1..k) \in 1..Cardinality(U)
      /\ \A k, l \in U : Cardinality(U \cap 1..k) = Cardinality(U \cap 1..l) => k = l
  BY <1>1, <1>3, Ranks
<1>5. A \in SUBSET U /\ \A k \in A : Cardinality(U \cap 1..k) \in 1..most
  <2>1. ASSUME NEW k \in A PROVE k \in U /\ Cardinality(U \cap 1..k) <= most
    BY <1>3 DEF Stays, Unpinned
  <2>2. Cardinality(U) \in Nat
    BY <1>1, <1>3, FS_CardinalityType
  <2>3. ASSUME NEW k \in A PROVE Cardinality(U \cap 1..k) \in 1..most
    <3>1. PICK r : r = Cardinality(U \cap 1..k)
      OBVIOUS
    <3>2. r \in 1..Cardinality(U) /\ r <= most
      BY <1>4, <2>1, <3>1
    <3>3. r \in 1..most
      BY <2>2, <3>2
    <3> QED  BY <3>1, <3>3
  <2> QED  BY <2>1, <2>3
<1>6. IsFiniteSet(A) /\ Cardinality(A) \in Nat /\ Cardinality(A) <= most
  <2> DEFINE f == [k \in A |-> Cardinality(U \cap 1..k)]
  <2>1. f \in [A -> 1..most] /\ \A k, l \in A : f[k] = f[l] => k = l
    BY <1>4, <1>5
  <2> HIDE DEF f
  <2>2. f \in Injection(A, 1..most)
    BY <2>1, Fun_IsInj
  <2>3. IsFiniteSet(1..most) /\ Cardinality(1..most) = most
    BY FS_Interval
  <2> QED  BY <2>2, <2>3, FS_Injection, FS_CardinalityType
<1>7. History(Evict(list, most)) /\ Len(Evict(list, most)) = Cardinality(Stays(list, most))
  BY <1>2, RetainHistory
<1>8. Within(Evict(list, most), most)
  <2>1. Cardinality(Unpinned(Evict(list, most))) <= Cardinality(A)
    BY <1>1, <1>2, <1>3, RetainUnpinned
  <2>2. Cardinality(Unpinned(Evict(list, most))) \in Nat
    BY <1>7, UnpinnedFinite DEF History
  <2> QED  BY <1>6, <2>1, <2>2 DEF Within
<1>9. ASSUME ~(Len(Evict(list, most)) < Len(list)) PROVE Within(list, most)
  <2>1. IsFiniteSet(1..Len(list)) /\ Cardinality(1..Len(list)) = Len(list)
    <3>1. PICK size \in Nat : size = Len(list)
      BY <1>1
    <3>2. IsFiniteSet(1..size) /\ Cardinality(1..size) = size
      BY FS_Interval
    <3> QED  BY <3>1, <3>2
  <2>2. Stays(list, most) \in SUBSET (1..Len(list))
    BY <1>1, <1>2
  <2>3. Cardinality(Stays(list, most)) \in Nat /\ Cardinality(Stays(list, most)) <= Len(list)
    BY <2>1, <2>2, FS_Subset, FS_CardinalityType
  <2>4. Cardinality(Stays(list, most)) = Cardinality(1..Len(list))
    BY <1>1, <1>7, <1>9, <2>1, <2>3
  <2>5. Stays(list, most) = 1..Len(list)
    BY <2>1, <2>2, <2>4, FS_Subset
  <2>6. A = Unpinned(list)
    BY <1>1, <1>3, <2>5
  <2> QED  BY <1>6, <2>6 DEF Within
<1> QED  BY <1>7, <1>8, <1>9

---------------------------------------------------------------------------
(* The invariant. *)

AWrite == [by : 0..MaxToken, entries : Seq(Entry), fresh : BOOLEAN, opened : BOOLEAN, alone : BOOLEAN]

MemoryTyped ==
  /\ setting \in Limits /\ limit \in Limits \cup {0}
  /\ paused \in BOOLEAN /\ loaded \in BOOLEAN /\ flushed \in BOOLEAN
  /\ History(entries) /\ Within(entries, limit)
  /\ ~loaded => entries = <<>>

TokensTyped ==
  /\ nextToken \in 0..MaxToken /\ pending \in 0..nextToken
  /\ asleep \subseteq 1..nextToken /\ due \subseteq 0..nextToken

DiskTyped ==
  /\ file \in [entries : Seq(Entry), fresh : BOOLEAN] /\ History(file.entries)
  /\ writes \subseteq AWrite
  /\ \A w \in writes : w.by \in 0..nextToken /\ History(w.entries)
  /\ unsure \in BOOLEAN

Kinds == MemoryTyped /\ TokensTyped /\ DiskTyped

LEMMA NothingKept == History(<<>>) /\ \A most \in Nat : Within(<<>>, most)
<1>1. Unpinned(<<>>) = {} /\ <<>> \in Seq(Entry) /\ DOMAIN <<>> = {}
  BY DEF Unpinned
<1>2. History(<<>>)
  BY <1>1 DEF History
<1>3. \A most \in Nat : Within(<<>>, most)
  BY <1>1, FS_EmptySet DEF Within
<1> QED  BY <1>2, <1>3

LEMMA LimitsTyped == \A l \in Limits \cup {0} : l \in Nat
BY CaptureAssumption

LEMMA InitKinds == Init => Kinds
<1> SUFFICES ASSUME Init PROVE Kinds
  OBVIOUS
<1>1. MemoryTyped
  BY NothingKept DEF Init, MemoryTyped
<1>2. TokensTyped
  BY CaptureAssumption DEF Init, TokensTyped
<1>3. file = [entries |-> <<>>, fresh |-> FALSE]
  BY DEF Init, Unreadable
<1>4. file.entries = <<>> /\ file \in [entries : Seq(Entry), fresh : BOOLEAN] /\ History(<<>>)
  BY <1>3, NothingKept DEF History
<1>5. DiskTyped
  BY <1>4 DEF Init, DiskTyped
<1> QED  BY <1>1, <1>2, <1>5 DEF Kinds

\* What an operation finds in memory is within the limit it finds.
LEMMA EntriesTyped ==
  ASSUME Kinds
  PROVE  /\ LimitOf \in Limits /\ LimitOf \in Nat /\ LimitOf \in Limits \cup {0}
         /\ History(EntriesOf) /\ Within(EntriesOf, LimitOf)
<1>1. LimitOf \in Limits
  BY DEF Kinds, MemoryTyped, LimitOf
<1>2. LimitOf \in Nat
  BY <1>1, LimitsTyped
<1>3. CASE loaded
  <2>1. EntriesOf = entries /\ History(entries) /\ Within(entries, limit)
    BY <1>3 DEF EntriesOf, Kinds, MemoryTyped
  <2>2. Cardinality(Unpinned(entries)) \in Nat
    BY <2>1, UnpinnedFinite DEF History
  <2>3. Within(entries, LimitOf)
    BY <1>2, <2>1, <2>2 DEF Within, LimitOf
  <2> QED  BY <1>1, <1>2, <2>1, <2>3
<1>4. CASE ~loaded
  <2>1. EntriesOf = Evict(file.entries, LimitOf) /\ History(file.entries)
    BY <1>4 DEF EntriesOf, Kinds, DiskTyped
  <2> QED  BY <1>1, <1>2, <2>1, EvictWithin
<1> QED  BY <1>3, <1>4 DEF Kinds, MemoryTyped

LEMMA LoadKinds ==
  ASSUME Kinds, Load, Untouched
  PROVE  Kinds'
<1>1. /\ limit' = LimitOf /\ loaded' = TRUE /\ entries' = EntriesOf
      /\ UNCHANGED <<schedule, writes, setting, paused, due, flushed, unsure>>
      /\ file' = IF loaded THEN file ELSE [file EXCEPT !.fresh = TRUE]
  BY DEF Load, Untouched
<1>2. MemoryTyped'
  BY <1>1, EntriesTyped DEF Kinds, MemoryTyped, Within, Unpinned, History
<1>3. TokensTyped'
  BY <1>1 DEF Kinds, TokensTyped, schedule
<1>4. file' \in [entries : Seq(Entry), fresh : BOOLEAN] /\ file'.entries = file.entries
  BY <1>1 DEF Kinds, DiskTyped
<1>5. DiskTyped'
  BY <1>1, <1>4 DEF Kinds, DiskTyped, schedule, History
<1> QED  BY <1>2, <1>3, <1>5 DEF Kinds

LEMMA ScheduleKinds ==
  ASSUME Kinds, Schedule, UNCHANGED due
  PROVE  TokensTyped' /\ nextToken' >= nextToken
<1>1. /\ nextToken \in 0..MaxToken /\ MaxToken \in Nat /\ pending \in 0..nextToken
      /\ asleep \subseteq 1..nextToken /\ due \subseteq 0..nextToken
  BY CaptureAssumption DEF Kinds, TokensTyped
<1>2. CASE UNCHANGED schedule
  BY <1>1, <1>2 DEF TokensTyped, schedule
<1>3. CASE /\ nextToken < MaxToken /\ nextToken' = nextToken + 1
           /\ pending' = nextToken' /\ asleep' = asleep \cup {nextToken'}
  <2>1. nextToken' \in 0..MaxToken /\ pending' \in 0..nextToken'
    BY <1>1, <1>3
  <2>2. 1..nextToken \subseteq 1..nextToken' /\ 0..nextToken \subseteq 0..nextToken' /\ nextToken' \in 1..nextToken'
    BY <1>1, <1>3
  <2>3. asleep' \subseteq 1..nextToken' /\ due' \subseteq 0..nextToken'
    BY <1>1, <1>3, <2>2
  <2> QED  BY <1>1, <1>3, <2>1, <2>3 DEF TokensTyped
<1> QED  BY <1>2, <1>3 DEF Schedule

LEMMA ChangeKinds ==
  ASSUME Kinds, NEW list, Change(list), Untouched, History(list),
         limit' \in Limits \cup {0}, Within(list, limit')
  PROVE  Kinds'
<1>1. /\ entries' = list /\ loaded' = TRUE /\ UNCHANGED <<setting, paused, due, flushed, unsure>>
      /\ file' = [file EXCEPT !.fresh = FALSE]
      /\ writes' = {[w EXCEPT !.fresh = FALSE] : w \in writes}
  BY DEF Change, Untouched
<1>2. TokensTyped' /\ nextToken' >= nextToken
  BY <1>1, ScheduleKinds DEF Change
<1>3. MemoryTyped'
  BY <1>1 DEF Kinds, MemoryTyped, Within, Unpinned, History
<1>4. file' \in [entries : Seq(Entry), fresh : BOOLEAN] /\ file'.entries = file.entries
  BY <1>1 DEF Kinds, DiskTyped
<1>5. ASSUME NEW w \in writes' PROVE w \in AWrite /\ w.by \in 0..nextToken' /\ History(w.entries)
  <2>1. PICK v \in writes : w = [v EXCEPT !.fresh = FALSE]
    BY <1>1
  <2>2. v \in AWrite /\ v.by \in 0..nextToken /\ History(v.entries)
    BY DEF Kinds, DiskTyped
  <2>3. w \in AWrite /\ w.by = v.by /\ w.entries = v.entries
    BY <2>1, <2>2 DEF AWrite
  <2>4. v.by \in 0..nextToken'
    BY <1>2, <2>2 DEF Kinds, TokensTyped
  <2> QED  BY <2>2, <2>3, <2>4
<1>6. DiskTyped'
  BY <1>1, <1>4, <1>5 DEF Kinds, DiskTyped, History
<1> QED  BY <1>2, <1>3, <1>6 DEF Kinds

LEMMA AlterKinds ==
  ASSUME Kinds, NEW list, Alter(list), Untouched, History(list), Within(list, LimitOf)
  PROVE  Kinds'
<1>1. Change(list) /\ limit' = LimitOf
  BY DEF Alter
<1>2. limit' \in Limits \cup {0} /\ Within(list, limit')
  BY <1>1, EntriesTyped
<1> QED  BY <1>1, <1>2, ChangeKinds

---------------------------------------------------------------------------
(* The operations. *)

LEMMA RecordKinds ==
  ASSUME Kinds, NEW i \in Ids, Record(i) \/ RecordMessage(i)
  PROVE  Kinds'
<1>1. PICK list : list = EntriesOf
  OBVIOUS
<1>2. History(list) /\ Within(list, LimitOf) /\ LimitOf \in Nat /\ Untouched
  BY <1>1, EntriesTyped DEF Record, RecordMessage
<1>3. CASE Alter(list) \/ Load
  BY <1>2, <1>3, AlterKinds, LoadKinds
<1>4. CASE ~Has(list, i) /\ Alter(Evict(<<[id |-> i, pinned |-> FALSE]>> \o list, LimitOf))
  <2>1. PICK e, new : e = [id |-> i, pinned |-> FALSE] /\ new = <<e>> \o list
    OBVIOUS
  <2>2. e \in Entry /\ list \in Seq(Entry)
    BY <1>2, <2>1 DEF Entry, History
  <2>3. /\ new \in Seq(Entry) /\ Len(new) = Len(list) + 1
        /\ \A n \in DOMAIN new : new[n] = IF n = 1 THEN e ELSE list[n - 1]
    <3>1. <<e>> \in Seq(Entry) /\ Len(<<e>>) = 1 /\ <<e>>[1] = e
      BY <2>2
    <3>2. /\ new \in Seq(Entry) /\ Len(new) = 1 + Len(list)
          /\ \A n \in 1..(1 + Len(list)) : new[n] = IF n <= 1 THEN <<e>>[n] ELSE list[n - 1]
      BY <2>1, <2>2, <3>1, ConcatProperties
    <3> QED  BY <2>2, <3>1, <3>2
  <2>4. \A n \in DOMAIN list : list[n].id # e.id
    BY <1>4, <2>1 DEF Has
  <2>5. History(new)
    <3>1. ASSUME NEW m \in DOMAIN new, NEW n \in DOMAIN new, new[m].id = new[n].id PROVE m = n
      <4>1. m \in 1..Len(list) + 1 /\ n \in 1..Len(list) + 1 /\ DOMAIN list = 1..Len(list) /\ Len(list) \in Nat
        BY <2>2, <2>3
      <4>2. CASE m = 1 \/ n = 1
        BY <2>3, <2>4, <3>1, <4>1, <4>2
      <4>3. CASE m # 1 /\ n # 1
        <5>1. m - 1 \in DOMAIN list /\ n - 1 \in DOMAIN list /\ list[m - 1].id = list[n - 1].id
          BY <2>3, <3>1, <4>1, <4>3
        <5>2. m - 1 = n - 1
          BY <1>2, <5>1 DEF History
        <5> QED  BY <4>1, <5>2
      <4> QED  BY <4>2, <4>3
    <3> QED  BY <2>3, <3>1 DEF History
  <2>6. History(Evict(new, LimitOf)) /\ Within(Evict(new, LimitOf), LimitOf)
    BY <1>2, <2>5, EvictWithin
  <2>7. Alter(Evict(new, LimitOf))
    BY <1>4, <2>1
  <2> QED  BY <1>2, <2>6, <2>7, AlterKinds
<1> QED  BY <1>1, <1>3, <1>4 DEF Record, RecordMessage

LEMMA RemoveKinds ==
  ASSUME Kinds, NEW ids \in SUBSET Ids, RemoveCapture(ids)
  PROVE  Kinds'
<1>1. PICK list, kept : list = EntriesOf /\ kept = {n \in DOMAIN list : list[n].id \notin ids}
  OBVIOUS
<1>2. /\ History(list) /\ Within(list, LimitOf) /\ LimitOf \in Nat /\ Untouched
      /\ kept \in SUBSET DOMAIN list
  BY <1>1, EntriesTyped DEF RemoveCapture
<1>3. CASE Load
  BY <1>2, <1>3, LoadKinds
<1>4. CASE Alter(Retain(list, kept))
  <2>1. History(Retain(list, kept)) /\ list \in Seq(Entry)
    BY <1>2, RetainHistory DEF History
  <2>2. Within(Retain(list, kept), LimitOf)
    <3>1. Cardinality(Unpinned(Retain(list, kept))) <= Cardinality(Unpinned(list) \cap kept)
      BY <1>2, <2>1, RetainUnpinned
    <3>2. IsFiniteSet(Unpinned(list)) /\ Cardinality(Unpinned(list)) \in Nat
      BY <2>1, UnpinnedFinite
    <3>3. /\ Cardinality(Unpinned(list) \cap kept) <= Cardinality(Unpinned(list))
          /\ Cardinality(Unpinned(list) \cap kept) \in Nat
      BY <3>2, FS_Intersection, FS_CardinalityType
    <3>4. Cardinality(Unpinned(Retain(list, kept))) \in Nat
      BY <2>1, UnpinnedFinite DEF History
    <3> QED  BY <1>2, <3>1, <3>2, <3>3, <3>4 DEF Within
  <2> QED  BY <1>2, <1>4, <2>1, <2>2, AlterKinds
<1> QED  BY <1>1, <1>3, <1>4 DEF RemoveCapture

LEMMA PinKinds ==
  ASSUME Kinds, NEW ids \in SUBSET Ids, NEW pinned \in BOOLEAN, Pin(ids, pinned)
  PROVE  Kinds'
<1>1. PICK list, new : /\ list = EntriesOf
                       /\ new = [n \in DOMAIN list |-> IF list[n].id \in ids THEN [list[n] EXCEPT !.pinned = pinned]
                                                       ELSE list[n]]
  OBVIOUS
<1>2. History(list) /\ LimitOf \in Nat /\ Untouched
  BY <1>1, EntriesTyped DEF Pin
<1>3. History(new)
  <2>1. list \in Seq(Entry) /\ DOMAIN list = 1..Len(list) /\ Len(list) \in Nat
    BY <1>2 DEF History
  <2>2. ASSUME NEW n \in DOMAIN list PROVE new[n] \in Entry /\ new[n].id = list[n].id
    <3>1. PICK e : e = list[n]
      OBVIOUS
    <3>2. e \in Entry /\ new[n] = IF e.id \in ids THEN [e EXCEPT !.pinned = pinned] ELSE e
      BY <1>1, <2>1, <3>1
    <3> QED  BY <3>1, <3>2 DEF Entry
  <2>3. new \in Seq(Entry) /\ DOMAIN new = DOMAIN list
    BY <1>1, <2>1, <2>2
  <2> QED  BY <1>2, <2>2, <2>3 DEF History
<1>4. CASE Load
  BY <1>2, <1>4, LoadKinds
<1>5. CASE Alter(Evict(new, LimitOf))
  BY <1>2, <1>3, <1>5, EvictWithin, AlterKinds
<1> QED  BY <1>1, <1>4, <1>5 DEF Pin

LEMMA ClearKinds == ASSUME Kinds, Clear PROVE Kinds'
<1>1. Change(<<>>) /\ UNCHANGED limit /\ Untouched
  BY DEF Clear
<1>2. limit' \in Limits \cup {0} /\ limit' \in Nat
  BY <1>1, LimitsTyped DEF Kinds, MemoryTyped
<1>3. PICK none : none = <<>>
  OBVIOUS
<1>4. Change(none) /\ History(none) /\ Within(none, limit')
  BY <1>1, <1>2, <1>3, NothingKept
<1> QED  BY <1>1, <1>2, <1>4, ChangeKinds

\* A new limit cuts memory to it, or memory was within it.
LEMMA RefreshKinds == ASSUME Kinds, Refresh PROVE Kinds'
<1>1. limit' = setting /\ Untouched /\ setting \in Limits /\ setting \in Nat /\ History(entries)
  BY LimitsTyped DEF Refresh, Kinds, MemoryTyped
<1>2. /\ History(Evict(entries, setting)) /\ Within(Evict(entries, setting), setting)
      /\ ~(Len(Evict(entries, setting)) < Len(entries)) => Within(entries, setting)
  BY <1>1, EvictWithin
<1>3. CASE loaded /\ Len(Evict(entries, setting)) < Len(entries)
  <2>1. Change(Evict(entries, setting))
    BY <1>3 DEF Refresh
  <2>2. limit' \in Limits \cup {0} /\ Within(Evict(entries, setting), limit')
    BY <1>1, <1>2
  <2> QED  BY <1>1, <1>2, <2>1, <2>2, ChangeKinds
<1>4. CASE ~(loaded /\ Len(Evict(entries, setting)) < Len(entries))
  <2>1. UNCHANGED <<loaded, entries, schedule, writes, file, setting, paused, due, flushed, unsure>>
    BY <1>1, <1>4 DEF Refresh, Untouched
  <2>2. Within(entries, setting)
    BY <1>1, <1>2, <1>4, NothingKept DEF Kinds, MemoryTyped
  <2>3. MemoryTyped'
    BY <1>1, <2>1, <2>2 DEF Kinds, MemoryTyped, Within, Unpinned, History
  <2> QED  BY <2>1, <2>3 DEF Kinds, TokensTyped, DiskTyped, schedule, History
<1> QED  BY <1>3, <1>4

LEMMA OtherKinds ==
  ASSUME Kinds, \/ ChangeSetting \/ FlushLooks \/ (\E on \in BOOLEAN : SetPaused(on))
                \/ (\E t \in asleep : TimerWakes(t)) \/ UNCHANGED vars
  PROVE  Kinds'
<1>1. UNCHANGED <<limit, loaded, entries, pending, nextToken, disk>>
  BY DEF ChangeSetting, FlushLooks, SetPaused, TimerWakes, memory, vars, schedule
<1>2. asleep' \subseteq asleep /\ due' \subseteq due \cup asleep \cup {0}
  BY DEF ChangeSetting, FlushLooks, SetPaused, TimerWakes, memory, vars, schedule, Flush
<1>3. setting' \in Limits /\ paused' \in BOOLEAN /\ flushed' \in BOOLEAN
  BY DEF ChangeSetting, FlushLooks, SetPaused, TimerWakes, memory, vars, Kinds, MemoryTyped
<1>4. MemoryTyped'
  BY <1>1, <1>3 DEF Kinds, MemoryTyped, Within, Unpinned, History
<1>5. TokensTyped'
  <2>1. 0 \in 0..nextToken /\ 1..nextToken \subseteq 0..nextToken
    BY CaptureAssumption DEF Kinds, TokensTyped
  <2> QED  BY <1>1, <1>2, <2>1 DEF Kinds, TokensTyped
<1>6. DiskTyped'
  BY <1>1 DEF Kinds, DiskTyped, disk, History
<1> QED  BY <1>4, <1>5, <1>6 DEF Kinds

LEMMA SnapshotKinds == ASSUME Kinds, NEW t \in due, TakeSnapshot(t) PROVE Kinds'
<1>1. PICK s : s = Snapshot(t)
  OBVIOUS
<1>2. /\ due' = due \ {t} /\ pending' = 0
      /\ writes' = {[w EXCEPT !.alone = FALSE] : w \in writes} \cup {s}
      /\ UNCHANGED <<setting, limit, paused, loaded, entries, nextToken, asleep, flushed, file, unsure>>
  BY <1>1 DEF TakeSnapshot
<1>3. t \in 0..nextToken /\ nextToken \in 0..MaxToken
  BY DEF Kinds, TokensTyped
<1>4. s \in AWrite /\ s.by \in 0..nextToken /\ History(s.entries)
  <2>1. s = [by |-> t, entries |-> entries, fresh |-> loaded, opened |-> FALSE, alone |-> writes = {}]
    BY <1>1 DEF Snapshot
  <2>2. t \in 0..MaxToken
    BY <1>3, CaptureAssumption
  <2>3. entries \in Seq(Entry) /\ loaded \in BOOLEAN /\ History(entries)
    BY DEF Kinds, MemoryTyped, History
  <2>4. (writes = {}) \in BOOLEAN
    OBVIOUS
  <2> QED  BY <1>3, <2>1, <2>2, <2>3, <2>4 DEF AWrite
<1>5. ASSUME NEW w \in writes' PROVE w \in AWrite /\ w.by \in 0..nextToken /\ History(w.entries)
  <2>1. CASE w = s
    BY <1>4, <2>1
  <2>2. CASE w # s
    <3>1. PICK v \in writes : w = [v EXCEPT !.alone = FALSE]
      BY <1>2, <2>2
    <3>2. v \in AWrite /\ v.by \in 0..nextToken /\ History(v.entries)
      BY DEF Kinds, DiskTyped
    <3>3. w \in AWrite /\ w.by = v.by /\ w.entries = v.entries
      BY <3>1, <3>2 DEF AWrite
    <3> QED  BY <3>2, <3>3
  <2> QED  BY <2>1, <2>2
<1>6. MemoryTyped' /\ TokensTyped'
  BY <1>2, <1>3 DEF Kinds, MemoryTyped, TokensTyped, Within, Unpinned, History
<1>7. DiskTyped'
  BY <1>2, <1>5 DEF Kinds, DiskTyped, History
<1> QED  BY <1>6, <1>7 DEF Kinds

LEMMA WriteKinds == ASSUME Kinds, Write PROVE Kinds'
<1>1. PICK w \in writes : Open(w) \/ Written(w) \/ WriteFails(w)
  BY DEF Write
<1>2. w \in AWrite /\ w.by \in 0..nextToken /\ History(w.entries)
  BY DEF Kinds, DiskTyped
<1>3. PICK o, whole : o = [w EXCEPT !.opened = TRUE] /\ whole = [entries |-> w.entries, fresh |-> w.fresh]
  OBVIOUS
<1>4. o \in AWrite /\ o.by \in 0..nextToken /\ History(o.entries)
  BY <1>2, <1>3 DEF AWrite
<1>5. /\ UNCHANGED <<setting, memory, due, flushed>>
      /\ writes' \subseteq writes \cup {o}
      /\ file' \in {file, whole, Unreadable}
      /\ unsure' \in {unsure, ~w.alone, TRUE}
  BY <1>1, <1>3 DEF Open, Written, WriteFails
<1>6. \A f \in {file, whole, Unreadable} : f \in [entries : Seq(Entry), fresh : BOOLEAN] /\ History(f.entries)
  <2>1. whole \in [entries : Seq(Entry), fresh : BOOLEAN] /\ History(whole.entries)
    BY <1>2, <1>3 DEF AWrite
  <2>2. Unreadable \in [entries : Seq(Entry), fresh : BOOLEAN] /\ History(Unreadable.entries)
    BY NothingKept DEF Unreadable, History
  <2> QED  BY <2>1, <2>2 DEF Kinds, DiskTyped
<1>7. (~w.alone) \in BOOLEAN
  OBVIOUS
<1>8. MemoryTyped' /\ TokensTyped'
  BY <1>5 DEF Kinds, MemoryTyped, TokensTyped, memory, Within, Unpinned, History
<1>9. DiskTyped'
  <2>1. \A v \in writes' : v \in AWrite /\ v.by \in 0..nextToken /\ History(v.entries)
    BY <1>4, <1>5 DEF Kinds, DiskTyped
  <2>2. file' \in [entries : Seq(Entry), fresh : BOOLEAN] /\ History(file'.entries)
    BY <1>5, <1>6
  <2>3. unsure' \in BOOLEAN /\ nextToken' = nextToken
    BY <1>5, <1>7 DEF Kinds, DiskTyped, memory
  <2> QED  BY <2>1, <2>2, <2>3 DEF DiskTyped, History
<1> QED  BY <1>8, <1>9 DEF Kinds

LEMMA RestartKinds == ASSUME Kinds, Restart PROVE Kinds'
<1>1. /\ limit' = 0 /\ paused' = FALSE /\ loaded' = FALSE /\ entries' = <<>>
      /\ pending' = 0 /\ nextToken' = 0 /\ asleep' = {} /\ due' = {} /\ writes' = {}
      /\ flushed' = FALSE /\ unsure' = FALSE /\ UNCHANGED <<setting, file>>
  BY DEF Restart
<1>2. MemoryTyped'
  BY <1>1, NothingKept DEF Kinds, MemoryTyped, Within, Unpinned, History
<1>3. TokensTyped'
  BY <1>1, CaptureAssumption DEF TokensTyped
<1>4. DiskTyped'
  BY <1>1 DEF Kinds, DiskTyped, History
<1> QED  BY <1>2, <1>3, <1>4 DEF Kinds

LEMMA NextKinds == Kinds /\ [Next]_vars => Kinds'
<1> SUFFICES ASSUME Kinds, [Next]_vars PROVE Kinds'
  OBVIOUS
<1>1. CASE \E i \in Ids : Record(i) \/ RecordMessage(i)
  BY <1>1, RecordKinds
<1>2. CASE \E ids \in SUBSET Ids \ {{}} : RemoveCapture(ids) \/ \E pinned \in BOOLEAN : Pin(ids, pinned)
  BY <1>2, RemoveKinds, PinKinds
<1>3. CASE List
  BY <1>3, LoadKinds DEF List
<1>4. CASE Clear \/ Refresh \/ Restart \/ Write
  BY <1>4, ClearKinds, RefreshKinds, RestartKinds, WriteKinds
<1>5. CASE \E t \in due : TakeSnapshot(t)
  BY <1>5, SnapshotKinds
<1>6. CASE \/ ChangeSetting \/ FlushLooks \/ (\E on \in BOOLEAN : SetPaused(on))
           \/ (\E t \in asleep : TimerWakes(t)) \/ UNCHANGED vars
  BY <1>6, OtherKinds
<1> QED  BY <1>1, <1>2, <1>3, <1>4, <1>5, <1>6 DEF Next

LEMMA KindsImply == Kinds => TypeOK /\ WithinLimit
<1> SUFFICES ASSUME Kinds PROVE TypeOK /\ WithinLimit
  OBVIOUS
<1>1. entries \in Seq(Entry) /\ IsInjective([n \in DOMAIN entries |-> entries[n].id])
  BY DEF Kinds, MemoryTyped, History, IsInjective
<1>2. writes \subseteq [by : 0..nextToken, entries : Seq(Entry), fresh : BOOLEAN, opened : BOOLEAN, alone : BOOLEAN]
  BY DEF Kinds, DiskTyped, AWrite
<1>3. TypeOK
  BY <1>1, <1>2 DEF Kinds, MemoryTyped, TokensTyped, DiskTyped, TypeOK
<1>4. WithinLimit
  BY DEF Kinds, MemoryTyped, Within, WithinLimit
<1> QED  BY <1>3, <1>4

\* The variables have their types, and an exchange is kept once in memory, in the file and in every snapshot
\* under way, however recordings, pins, removals, loads and restarts follow each other.
THEOREM TypeCorrect == Spec => []TypeOK
<1>1. Kinds => TypeOK
  BY KindsImply
<1> QED  BY InitKinds, NextKinds, <1>1, PTL DEF Spec

\* Memory keeps no more unpinned exchanges than the limit in force, also after a file with more of them was read,
\* after unpinning, and after the limit was lowered (evict, entries_of, refresh_capture_limit).
THEOREM LimitCorrect == Spec => []WithinLimit
<1>1. Kinds => WithinLimit
  BY KindsImply
<1> QED  BY InitKinds, NextKinds, <1>1, PTL DEF Spec
===========================
