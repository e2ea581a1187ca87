--------------------------- MODULE GitSyncProofs ---------------------------
(***************************************************************************)
(* Proofs about GitSync, for any files, changes and requests, and any      *)
(* bounds: whatever is pulled, published, discarded, aborted and saved in  *)
(* between, and whatever git command fails, a change saved here is lost    *)
(* only as NothingLost says; and what nothing disturbed is restored after  *)
(* a pull and committed by a publish.                                      *)
(*                                                                         *)
(* NothingLost is not inductive.  What git takes out of the work tree must *)
(* be shown to be elsewhere: what HEAD, the remote or the base of a stash  *)
(* holds is committed (CommittedIsPast); what a stopped merge has in the   *)
(* index or in conflict is safe, so that aborting it drops nothing         *)
(* (MergeKept); once the work tree is stashed all that is in it is safe or *)
(* late, so that the checkout writes over nothing else; and a stash entry  *)
(* is dropped only once it has been applied (Phases, Applying, Applied).   *)
(*                                                                         *)
(* That a pull restores what it stashed needs to be said of every place an *)
(* undisturbed operation can be at (Restorable): up to the merge the work  *)
(* tree and the index are HEAD's, so that a merge that fails has stopped   *)
(* at a conflict or done nothing; then the tree is the index's, so that    *)
(* git has no reason to refuse to abort it; and then both are HEAD's       *)
(* again, so that git has no reason to refuse to pop the stash.            *)
(***************************************************************************)
EXTENDS GitSync, SequenceTheorems, TLAPS

Entry == [tree : SUBSET Changes, from : SUBSET Changes, fresh : SUBSET Files]

RepoTyped ==
  /\ remote \in Seq(SUBSET Changes) /\ origin \in 1..Len(remote)
  /\ head \in [tree : SUBSET Changes, contains : 1..origin, ahead : BOOLEAN]
  /\ head.ahead \/ head.tree = remote[head.contains]
  /\ tree \subseteq Changes /\ index \subseteq Changes /\ stash \in Seq(Entry)
  /\ unmerged \subseteq Files
  /\ merging \in 0..origin /\ (merging # 0 => head.ahead /\ head.contains < merging)
  /\ saved \subseteq Mine /\ exposed \subseteq Mine /\ risked \subseteq Mine /\ committed \subseteq Mine

CommittedIsPast ==
  /\ head.tree \cap Mine \subseteq committed
  /\ \A n \in 1..Len(remote) : remote[n] \cap Mine \subseteq committed
  /\ \A n \in 1..Len(stash) : stash[n].from \cap Mine \subseteq committed

\* Nothing is anywhere before it is saved; an untracked file was not in the commit it was stashed from.
SavedBefore == (tree \cup index \cup Stashed \cup committed) \cap Mine \subseteq saved
FreshIsNew  == \A n \in 1..Len(stash) : stash[n].fresh \cap FilesOf(stash[n].from) = {}

\* The changes that the work tree may lose.
Safe == committed \cup exposed \cup risked \cup Stashed

\* What aborting a stopped merge may take out of the work tree.
MergeKept == merging # 0 =>
  /\ \A c \in tree \cap Mine : FileOf[c] \in unmerged => c \in Safe
  /\ index \cap Mine \subseteq Safe

Kept == RepoTyped /\ CommittedIsPast /\ SavedBefore /\ FreshIsNew /\ MergeKept /\ NothingLost

\* The newest stash entry holds nothing that is not here already; or will be, when the checkout is over.
Applied == stash # <<>> => Head(stash).tree \cap Mine \subseteq tree \cup committed \cup exposed \cup risked
Applying ==
  stash # <<>> => \A c \in Head(stash).tree \cap Mine :
    \/ c \in committed \cup exposed \cup risked \cup op.late \/ FileOf[c] \in unmerged
    \/ c \in tree /\ (FileOf[c] \in FilesOf(index) => c \in index)

Phases ==
  /\ orphan # "none" => op.at \notin Commands
  /\ op.at \in {"fetch", "status"} => ~op.stashed
  /\ op.at = "stash" => Changed # {} \/ unmerged # {}
  /\ op.at \in {"merge", "pop"} /\ op.stashed =>
       merging = 0 /\ unmerged = {} /\ index = head.tree /\ head.tree \subseteq tree
  /\ op.at = "pop" => op.stashed
  /\ op.at = "abort" /\ op.stashed => merging = 0 \/ unmerged # {}
  /\ "unstash" \in {op.at, orphan} => merging = 0 \/ unmerged # {}
  /\ {"pop", "theirs", "reset", "drop"} \cap {op.at, orphan} # {} => merging = 0
  /\ op.at \in {"merge", "pop", "theirs"} /\ op.stashed => tree \cap Mine \subseteq Safe \cup op.late
  /\ orphan = "theirs" => tree \cap Mine \subseteq Safe
  /\ op.at = "theirs" => op.stashed /\ (unmerged # {} => Applying)
  /\ {"reset", "drop"} \cap {op.at} # {} \/ orphan = "drop" => Applied

Poller == [at : {"off", "idle", "waiting", "pulling", "pulled"}, tip : Nat, known : Nat]
Operation == [kind : {"none", "pull", "poll", "publish", "sync", "push"},
              at : {"none", "commit", "push"} \cup PullSteps, paths : SUBSET Files,
              stashed : BOOLEAN, calm : BOOLEAN, depth : Nat, late : SUBSET Mine, said : Outcomes]

OpTyped ==
  /\ op \in Operation /\ noting \in Int /\ poller \in Poller
  /\ orphan \in {"none"} \cup Commands
  /\ (op.kind = "poll") = (poller.at = "pulling")
  /\ op.at \in {"none", "commit", "push"} => op.kind # "poll"

Inv == Kept /\ OpTyped /\ Phases

---------------------------------------------------------------------------
(* Trees and stashes. *)

LEMMA FileOfChange == \A c \in Changes : FileOf[c] \in Files
BY GitSyncAssumption DEF Changes

\* A change of a file that two trees agree on is in both or in neither.
LEMMA Untouched ==
  ASSUME NEW s, NEW t, NEW c \in Changes, FileOf[c] \notin Touched(s, t)
  PROVE  c \in s <=> c \in t
<1>1. In(s, FileOf[c]) = In(t, FileOf[c])
  BY FileOfChange DEF Touched
<1>2. (c \in s <=> c \in In(s, FileOf[c])) /\ (c \in t <=> c \in In(t, FileOf[c]))
  BY DEF In
<1> QED  BY <1>1, <1>2

LEMMA AlikeUntouched == \A t : Touched(t, t) = {}
BY DEF Touched

\* Trees that differ in no file are one.
LEMMA Alike ==
  ASSUME NEW s \in SUBSET Changes, NEW t \in SUBSET Changes, Touched(s, t) = {}
  PROVE  s = t
<1>1. ASSUME NEW c \in Changes PROVE c \in s <=> c \in t
  BY <1>1, Untouched
<1> QED  BY <1>1

LEMMA PutTyped ==
  ASSUME NEW t \in SUBSET Changes, NEW fs, NEW u \in SUBSET Changes
  PROVE  /\ Put(t, fs, u) \in SUBSET Changes /\ Put(t, fs, u) \subseteq t \cup u
         /\ \A c \in t : FileOf[c] \notin fs => c \in Put(t, fs, u)
         /\ \A c \in u : FileOf[c] \in fs => c \in Put(t, fs, u)
         /\ \A c \in Put(t, fs, u) : IF FileOf[c] \in fs THEN c \in u ELSE c \in t
BY DEF Put

LEMMA MergeTyped ==
  ASSUME NEW b, NEW s \in SUBSET Changes, NEW t \in SUBSET Changes
  PROVE  /\ Merge3(b, s, t) \in SUBSET Changes /\ Merge3(b, s, t) \subseteq s \cup t
         /\ \A c \in s \cup t : c \notin b => c \in Merge3(b, s, t)
         /\ s \cap t \subseteq Merge3(b, s, t)
BY DEF Merge3

LEMMA StashTop ==
  ASSUME stash \in Seq(Entry), stash # <<>>
  PROVE  /\ Head(stash) \in Entry /\ Head(stash) = stash[1] /\ 1 \in 1..Len(stash)
         /\ Tail(stash) \in Seq(Entry)
         /\ \A n \in 1..Len(Tail(stash)) : n + 1 \in 1..Len(stash) /\ Tail(stash)[n] = stash[n + 1]
         /\ \A n \in 1..Len(stash) : n = 1 \/ (n - 1 \in 1..Len(Tail(stash)) /\ Tail(stash)[n - 1] = stash[n])
<1>1. /\ Head(stash) \in Entry /\ Tail(stash) \in Seq(Entry) /\ Len(Tail(stash)) = Len(stash) - 1
      /\ \A i \in 1..Len(Tail(stash)) : Tail(stash)[i] = stash[i + 1]
  BY HeadTailProperties
<1>2. Head(stash) = stash[1] /\ Len(stash) \in Nat /\ Len(stash) # 0
  BY EmptySeq, LenProperties
<1> QED  BY <1>1, <1>2

\* Popping or dropping the newest entry takes only that entry's changes out of the stash.
LEMMA StashLess ==
  ASSUME stash \in Seq(Entry), stash # <<>>, stash' = Tail(stash)
  PROVE  /\ stash' \in Seq(Entry)
         /\ Stashed \subseteq Stashed' \cup Head(stash).tree
         /\ \A n \in 1..Len(stash') : \E m \in 1..Len(stash) : stash'[n] = stash[m]
<1>1. ASSUME NEW c \in Stashed, c \notin Head(stash).tree PROVE c \in Stashed'
  <2>1. PICK n \in 1..Len(stash) : c \in stash[n].tree
    BY <1>1 DEF Stashed
  <2>2. n # 1
    BY <2>1, <1>1, StashTop
  <2>3. n - 1 \in 1..Len(stash') /\ stash'[n - 1] = stash[n]
    BY <2>2, StashTop
  <2> QED  BY <2>1, <2>3 DEF Stashed
<1>2. stash' \in Seq(Entry) /\ \A n \in 1..Len(stash') : \E m \in 1..Len(stash) : stash'[n] = stash[m]
  BY StashTop
<1> QED  BY <1>1, <1>2

LEMMA StashMore ==
  ASSUME stash \in Seq(Entry), NEW e \in Entry, stash' = <<e>> \o stash
  PROVE  /\ stash' \in Seq(Entry)
         /\ Stashed' = Stashed \cup e.tree
         /\ \A n \in 1..Len(stash') : stash'[n] = e \/ \E m \in 1..Len(stash) : stash'[n] = stash[m]
<1> DEFINE q == <<e>>
<1>1. q \in Seq(Entry) /\ Len(q) = 1 /\ q[1] = e
  OBVIOUS
<1>2. stash' = q \o stash
  OBVIOUS
<1> HIDE DEF q
<1>3. /\ stash' \in Seq(Entry) /\ Len(stash') = 1 + Len(stash) /\ Len(stash) \in Nat
      /\ \A n \in 1..Len(stash') : stash'[n] = IF n <= 1 THEN q[n] ELSE stash[n - 1]
  BY <1>1, <1>2, ConcatProperties, LenProperties
<1>4. ASSUME NEW n \in 1..Len(stash')
      PROVE  stash'[n] = e \/ (n - 1 \in 1..Len(stash) /\ stash'[n] = stash[n - 1])
  <2>1. CASE n = 1
    BY <2>1, <1>1, <1>3
  <2>2. CASE n # 1
    <3>1. n - 1 \in 1..Len(stash) /\ ~(n <= 1)
      BY <2>2, <1>3
    <3> QED  BY <3>1, <1>3
  <2> QED  BY <2>1, <2>2
<1>5. stash'[1] = e /\ 1 \in 1..Len(stash')
  BY <1>1, <1>3
<1>6. \A m \in 1..Len(stash) : m + 1 \in 1..Len(stash') /\ stash'[m + 1] = stash[m]
  BY <1>3
<1>7. Stashed' \subseteq Stashed \cup e.tree
  BY <1>4 DEF Stashed
<1>8. Stashed \cup e.tree \subseteq Stashed'
  <2>1. e.tree \subseteq Stashed'
    BY <1>5 DEF Stashed
  <2>2. ASSUME NEW c \in Stashed PROVE c \in Stashed'
    <3>1. PICK m \in 1..Len(stash) : c \in stash[m].tree
      BY DEF Stashed
    <3>2. m + 1 \in 1..Len(stash') /\ c \in stash'[m + 1].tree
      BY <3>1, <1>6
    <3> QED  BY <3>2 DEF Stashed
  <2> QED  BY <2>1, <2>2
<1> QED  BY <1>3, <1>4, <1>7, <1>8

\* The repository's invariant does not depend on the operation, and holds of what may be lost more.
LEMMA KeptFrame ==
  ASSUME Kept, UNCHANGED <<remote, origin, repo, saved, exposed, committed>>,
         risked \subseteq risked', risked' \subseteq Mine
  PROVE  /\ Kept' /\ (Applied => Applied') /\ Safe \subseteq Safe' /\ Changed' = Changed
         /\ UNCHANGED <<head, tree, index, stash, unmerged, merging>>
<1>1. UNCHANGED <<head, tree, index, stash, unmerged, merging>>
  BY DEF repo
<1>2. RepoTyped' /\ CommittedIsPast' /\ FreshIsNew'
  BY <1>1 DEF Kept, RepoTyped, CommittedIsPast, FreshIsNew
<1>3. Stashed' = Stashed
  BY <1>1 DEF Stashed
<1>4. Safe \subseteq Safe'
  BY <1>3 DEF Safe
<1>5. SavedBefore' /\ NothingLost'
  BY <1>1, <1>3 DEF Kept, SavedBefore, NothingLost
<1>6. MergeKept'
  BY <1>1, <1>4 DEF Kept, MergeKept
<1> QED  BY <1>1, <1>2, <1>4, <1>5, <1>6 DEF Kept, Applied, Changed

LEMMA InitInv == Init => Inv
<1> SUFFICES ASSUME Init PROVE Inv
  OBVIOUS
<1> DEFINE r == <<Seeds>>
<1>1. r \in Seq(SUBSET Changes) /\ Len(r) = 1 /\ r[1] = Seeds /\ Seeds \subseteq Changes /\ Seeds \cap Mine = {}
  BY GitSyncAssumption DEF Changes
<1>2. remote = r
  BY DEF Init
<1> HIDE DEF r
<1>3. head = [tree |-> Seeds, contains |-> 1, ahead |-> FALSE] /\ origin = 1
  BY DEF Init
<1>4. RepoTyped
  <2>1. /\ head \in [tree : SUBSET Changes, contains : 1..origin, ahead : BOOLEAN]
        /\ head.tree = remote[head.contains]
    <3>1. head.tree = Seeds /\ head.contains = 1 /\ remote[1] = Seeds
      BY <1>1, <1>2, <1>3
    <3>2. 1 \in 1..origin /\ Seeds \in SUBSET Changes
      BY <1>1, <1>3
    <3>3. head \in [tree : SUBSET Changes, contains : 1..origin, ahead : BOOLEAN]
      BY <1>3, <3>2
    <3> QED  BY <3>1, <3>3
  <2>2. stash \in Seq(Entry)
    BY EmptySeq DEF Init
  <2>3. remote \in Seq(SUBSET Changes) /\ origin \in 1..Len(remote)
    BY <1>1, <1>2, <1>3
  <2>4. merging = 0 /\ merging \in 0..origin
    BY <1>3 DEF Init
  <2> QED  BY <1>1, <2>1, <2>2, <2>3, <2>4 DEF Init, RepoTyped
<1>5. Len(stash) = 0 /\ Stashed = {}
  BY EmptySeq DEF Init, Stashed
<1>6. CommittedIsPast
  BY <1>1, <1>2, <1>3, <1>5 DEF Init, CommittedIsPast
<1>7. SavedBefore /\ FreshIsNew /\ MergeKept /\ NothingLost
  BY <1>1, <1>5 DEF Init, SavedBefore, FreshIsNew, MergeKept, NothingLost
<1>8. OpTyped
  BY DEF Init, OpTyped, NoOp, Off, Nothing, Operation, Poller, Outcomes
<1>9. Phases
  BY DEF Init, Phases, NoOp, Commands
<1> QED  BY <1>4, <1>6, <1>7, <1>8, <1>9 DEF Inv, Kept

---------------------------------------------------------------------------
(* What each git command does to what is kept. *)

\* A step that leaves the history of commits alone and changes only the work tree, the index and the stash.
Local == UNCHANGED <<remote, origin, saved, exposed, risked, committed>>

LEMMA AloneKept ==
  ASSUME Kept, UNCHANGED repo, Local
  PROVE  /\ Kept' /\ (Applied => Applied') /\ Safe \subseteq Safe'
         /\ UNCHANGED <<head, tree, index, stash, unmerged, merging>>
<1>1. risked' \subseteq Mine
  BY DEF Kept, RepoTyped, Local
<1> QED  BY <1>1, KeptFrame DEF Local

\* A stash that succeeds leaves the work tree and the index as HEAD has them.
LEMMA StashKept ==
  ASSUME Kept, NEW ok \in BOOLEAN, GitStash(ok), Local
  PROVE  /\ Kept'
         /\ ok => /\ unmerged' = {} /\ tree' = head.tree /\ index' = head.tree /\ head' = head
                  /\ (Changed # {} => merging' = 0)
<1>1. CASE UNCHANGED repo /\ (ok => unmerged = {} /\ Changed = {})
  <2>1. Changed = {} => tree = head.tree /\ index = head.tree
    <3>1. head.tree \in SUBSET Changes /\ tree \in SUBSET Changes /\ index \in SUBSET Changes
      BY DEF Kept, RepoTyped
    <3>2. Changed = {} => Touched(head.tree, tree) = {} /\ Touched(head.tree, index) = {}
      BY DEF Changed
    <3> QED  BY <3>1, <3>2, Alike
  <2> QED  BY <1>1, <2>1, AloneKept
<1>2. CASE /\ ok /\ unmerged = {} /\ Changed # {}
           /\ stash' = <<[tree |-> tree, from |-> head.tree,
                          fresh |-> FilesOf(tree) \ FilesOf(head.tree \cup index)]>> \o stash
           /\ tree' = head.tree /\ index' = head.tree /\ merging' = 0
           /\ UNCHANGED <<head, unmerged>>
  <2> DEFINE e == [tree |-> tree, from |-> head.tree, fresh |-> FilesOf(tree) \ FilesOf(head.tree \cup index)]
  <2>1. e \in Entry /\ e.tree = tree /\ e.from = head.tree /\ e.fresh \cap FilesOf(e.from) = {}
    <3>1. tree \subseteq Changes /\ head.tree \subseteq Changes
      BY DEF Kept, RepoTyped
    <3>2. FilesOf(tree) \subseteq Files
      BY <3>1, FileOfChange DEF FilesOf
    <3> QED  BY <3>1, <3>2 DEF Entry, FilesOf
  <2>2. stash' = <<e>> \o stash
    BY <1>2
  <2> HIDE DEF e
  <2>3. /\ stash' \in Seq(Entry) /\ Stashed' = Stashed \cup tree
        /\ \A n \in 1..Len(stash') : stash'[n] = e \/ \E m \in 1..Len(stash) : stash'[n] = stash[m]
    BY <2>1, <2>2, StashMore DEF Kept, RepoTyped
  <2>4. UNCHANGED <<head, unmerged, remote, origin, saved, exposed, risked, committed>>
    BY <1>2 DEF Local
  <2>5. RepoTyped'
    BY <1>2, <2>3, <2>4 DEF Kept, RepoTyped
  <2>6. CommittedIsPast' /\ FreshIsNew'
    BY <2>1, <2>3, <2>4 DEF Kept, CommittedIsPast, FreshIsNew
  <2>7. SavedBefore' /\ NothingLost'
    BY <1>2, <2>3, <2>4 DEF Kept, SavedBefore, CommittedIsPast, NothingLost
  <2>8. MergeKept'
    BY <1>2 DEF MergeKept
  <2> QED  BY <1>2, <2>5, <2>6, <2>7, <2>8 DEF Kept
<1> QED  BY <1>1, <1>2 DEF GitStash

\* A merge leaves no merge behind unless it stops at a conflict.
LEMMA MergeKeeps ==
  ASSUME Kept, NEW ok \in BOOLEAN, GitMerge(ok), Local
  PROVE  /\ Kept' /\ stash' = stash
         /\ ok => unmerged' = {} /\ merging' = 0
         /\ ~ok /\ merging = 0 => merging' = 0 \/ unmerged' # {}
         /\ index = head.tree /\ head.tree \subseteq tree => index' = head'.tree \/ ~ok
         /\ ok /\ index = head.tree /\ head.tree \subseteq tree => head'.tree \subseteq tree'
         /\ tree' \cap Mine \subseteq tree \cup Safe
         /\ Safe \subseteq Safe'
         /\ ~ok /\ tree = head.tree /\ index = head.tree => UNCHANGED repo \/ (merging' # 0 /\ tree' = index' /\ head' = head)
<1> DEFINE theirs == remote[origin]
           base == remote[head.contains]
           merged == IF head.ahead THEN Merge3(base, head.tree, theirs) ELSE theirs
           clash == IF head.ahead THEN Clash(base, head.tree, theirs) ELSE {}
           refused == \/ unmerged # {} \/ merging # 0
                      \/ Touched(head.tree, merged) \cap Changed # {}
                      \/ head.ahead /\ index # head.tree
<1>1. UNCHANGED <<remote, origin, saved, exposed, risked, committed>>
  BY DEF Local
<1>2. CASE UNCHANGED repo /\ (ok => unmerged = {} /\ merging = 0)
  BY <1>2, AloneKept
<1>3. ASSUME ~refused, origin # head.contains, NEW stop \in SUBSET (clash \ Changed),
             ok = (stop = {}), unmerged' = stop, merging' = IF ok THEN 0 ELSE origin,
             head' = IF ok THEN [head EXCEPT !.tree = merged, !.contains = origin] ELSE head,
             tree' = Merge3(head.tree, tree, merged), index' = Merge3(head.tree, index, merged), UNCHANGED stash
      PROVE  /\ Kept' /\ stash' = stash
             /\ ok => unmerged' = {} /\ merging' = 0
             /\ ~ok /\ merging = 0 => merging' = 0 \/ unmerged' # {}
             /\ index = head.tree /\ head.tree \subseteq tree => index' = head'.tree \/ ~ok
             /\ ok /\ index = head.tree /\ head.tree \subseteq tree => head'.tree \subseteq tree'
             /\ tree' \cap Mine \subseteq tree \cup Safe
             /\ Safe \subseteq Safe'
             /\ ~ok /\ tree = head.tree /\ index = head.tree
                  => UNCHANGED repo \/ (merging' # 0 /\ tree' = index' /\ head' = head)
  <2>1. /\ theirs \subseteq Changes /\ theirs \cap Mine \subseteq committed
        /\ head.tree \subseteq Changes /\ head.tree \cap Mine \subseteq committed
        /\ tree \subseteq Changes /\ index \subseteq Changes
        /\ origin \in Nat /\ origin # 0 /\ head.contains \in Nat /\ head.contains < origin
    BY <1>3, ElementOfSeq DEF Kept, RepoTyped, CommittedIsPast
  <2>2. merged \subseteq head.tree \cup theirs /\ (head.ahead \/ merged = theirs)
    BY DEF Merge3
  <2>3. clash \subseteq Files /\ (clash = {} \/ head.ahead) /\ (head.ahead => index = head.tree)
    BY <1>3 DEF Clash, Touched
  <2> HIDE DEF clash
  <2>4. merged \subseteq Changes /\ merged \cap Mine \subseteq committed
    BY <2>1, <2>2
  <2>5. head' \in [tree : SUBSET Changes, contains : 1..origin, ahead : BOOLEAN]
        /\ head'.ahead = head.ahead
        /\ (ok => head'.tree = merged /\ head'.contains = origin) /\ (~ok => head' = head)
    <3>1. CASE ok
      <4>1. head' = [head EXCEPT !.tree = merged, !.contains = origin]
        BY <1>3, <3>1
      <4>2. head \in [tree : SUBSET Changes, contains : 1..origin, ahead : BOOLEAN]
        BY DEF Kept, RepoTyped
      <4>3. head'.tree = merged /\ head'.contains = origin /\ head'.ahead = head.ahead
        BY <4>1, <4>2
      <4>4. origin \in 1..origin
        BY <2>1
      <4> QED  BY <3>1, <4>1, <4>2, <4>3, <4>4, <2>4
    <3>2. CASE ~ok
      <4>1. head' = head
        BY <1>3, <3>2
      <4> QED  BY <3>2, <4>1 DEF Kept, RepoTyped
    <3> QED  BY <3>1, <3>2
  <2>6. head'.ahead \/ head'.tree = remote[head'.contains]
    BY <2>2, <2>5 DEF Kept, RepoTyped
  <2> HIDE DEF merged, theirs, base, refused
  <2>7. /\ tree' \subseteq Changes /\ index' \subseteq Changes
        /\ tree' \subseteq tree \cup merged /\ tree \ tree' \subseteq head.tree
        /\ index' \subseteq index \cup merged
    BY <1>3, <2>1, <2>4 DEF Merge3
  <2>8. ~ok => head.ahead
    BY <1>3, <2>3
  <2>9. RepoTyped'
    BY <1>1, <1>3, <2>1, <2>3, <2>5, <2>6, <2>7, <2>8 DEF Kept, RepoTyped
  <2>10. CommittedIsPast'
    BY <1>1, <1>3, <2>1, <2>4, <2>5 DEF Kept, CommittedIsPast
  <2>11. Stashed' = Stashed /\ FreshIsNew'
    BY <1>3 DEF Stashed, Kept, FreshIsNew
  <2>12. Safe' = Safe
    BY <1>1, <2>11 DEF Safe
  <2>13. SavedBefore' /\ NothingLost'
    BY <1>1, <2>1, <2>4, <2>7, <2>11 DEF Kept, RepoTyped, NothingLost, SavedBefore
  <2>14. MergeKept'
    <3>1. CASE ok
      BY <1>3, <3>1 DEF MergeKept
    <3>2. CASE ~ok
      <4>1. index' \cap Mine \subseteq Safe
        BY <2>1, <2>3, <2>4, <2>7, <2>8, <3>2 DEF Safe
      <4>2. ASSUME NEW c \in tree' \cap Mine, FileOf[c] \in unmerged' PROVE c \in Safe
        <5>1. c \in Changes /\ FileOf[c] \notin Touched(head.tree, tree)
          BY <1>3, <4>2 DEF Changes, Changed
        <5>2. c \in tree <=> c \in head.tree
          BY <5>1, Untouched
        <5> QED  BY <2>1, <2>4, <2>7, <4>2, <5>2 DEF Safe
      <4> QED  BY <2>12, <4>1, <4>2 DEF MergeKept
    <3> QED  BY <3>1, <3>2
  <2>15. index = head.tree /\ head.tree \subseteq tree => (index' = head'.tree \/ ~ok)
    BY <1>3, <2>5 DEF Merge3
  <2>16. ok /\ index = head.tree /\ head.tree \subseteq tree => head'.tree \subseteq tree'
    BY <1>3, <2>5 DEF Merge3
  <2>17. ~ok /\ tree = head.tree /\ index = head.tree => merging' # 0 /\ tree' = index' /\ head' = head
    BY <1>3, <2>1, <2>5
  <2>18. tree' \cap Mine \subseteq tree \cup Safe
    BY <2>4, <2>7 DEF Safe
  <2> QED  BY <1>3, <2>9, <2>10, <2>11, <2>12, <2>13, <2>14, <2>15, <2>16, <2>17, <2>18 DEF Kept
<1>4. \/ UNCHANGED repo /\ (ok => unmerged = {} /\ merging = 0)
      \/ /\ ~refused /\ origin # head.contains
         /\ \E stop \in SUBSET (clash \ Changed) :
              /\ ok = (stop = {}) /\ unmerged' = stop /\ merging' = (IF ok THEN 0 ELSE origin)
              /\ head' = (IF ok THEN [head EXCEPT !.tree = merged, !.contains = origin] ELSE head)
              /\ tree' = Merge3(head.tree, tree, merged) /\ index' = Merge3(head.tree, index, merged)
              /\ UNCHANGED stash
  BY Zenon DEF GitMerge
<1> QED  BY <1>2, <1>3, <1>4

\* Aborting a merge takes nothing out of the work tree that is not safe.
LEMMA AbortKept ==
  ASSUME Kept, NEW ok \in BOOLEAN, GitMergeAbort(ok), Local
  PROVE  /\ Kept' /\ stash' = stash /\ (ok => merging' = 0) /\ (~ok => UNCHANGED repo)
         /\ ok /\ tree = index => tree' = head.tree /\ index' = head.tree /\ unmerged' = {} /\ head' = head
<1>1. UNCHANGED <<remote, origin, saved, exposed, risked, committed>>
  BY DEF Local
<1>2. CASE ~ok /\ UNCHANGED repo
  BY <1>2, AloneKept
<1>3. CASE /\ ok /\ ~AbortRefused
           /\ tree' = Put(tree, Brought \cup unmerged, head.tree) /\ index' = head.tree
           /\ unmerged' = {} /\ merging' = 0
           /\ UNCHANGED <<head, stash>>
  <2>1. merging # 0 /\ Brought \cap Touched(index, tree) = {}
    BY <1>3 DEF AbortRefused
  <2>2. /\ tree \in SUBSET Changes /\ head.tree \in SUBSET Changes /\ index \in SUBSET Changes
        /\ head.tree \cap Mine \subseteq committed
    BY DEF Kept, RepoTyped, CommittedIsPast
  <2>3. /\ tree' \in SUBSET Changes /\ tree' \subseteq tree \cup head.tree
        /\ \A c \in tree : FileOf[c] \notin Brought \cup unmerged => c \in tree'
        /\ \A c \in head.tree : FileOf[c] \in Brought \cup unmerged => c \in tree'
        /\ \A c \in tree' : IF FileOf[c] \in Brought \cup unmerged THEN c \in head.tree ELSE c \in tree
    <3> DEFINE fs == Brought \cup unmerged
    <3> HIDE DEF fs
    <3>1. tree' = Put(tree, fs, head.tree)
      BY <1>3 DEF fs
    <3>2. /\ tree' \in SUBSET Changes /\ tree' \subseteq tree \cup head.tree
          /\ \A c \in tree : FileOf[c] \notin fs => c \in tree'
          /\ \A c \in head.tree : FileOf[c] \in fs => c \in tree'
          /\ \A c \in tree' : IF FileOf[c] \in fs THEN c \in head.tree ELSE c \in tree
      BY <2>2, <3>1, PutTyped
    <3> QED  BY <3>2 DEF fs
  <2>4. Stashed' = Stashed
    BY <1>3 DEF Stashed
  <2>5. ASSUME NEW c \in tree \cap Mine, c \notin tree' PROVE c \in Safe
    <3>1. FileOf[c] \in Brought \cup unmerged /\ c \in Changes
      BY <2>2, <2>3, <2>5
    <3>2. CASE FileOf[c] \in unmerged
      BY <2>1, <2>5, <3>2 DEF Kept, MergeKept
    <3>3. CASE FileOf[c] \in Brought
      <4>1. FileOf[c] \notin Touched(index, tree)
        BY <2>1, <3>3
      <4>2. c \in index
        BY <2>5, <3>1, <4>1, Untouched
      <4> QED  BY <2>1, <2>5, <4>2 DEF Kept, MergeKept
    <3> QED  BY <3>1, <3>2, <3>3
  <2>6. RepoTyped' /\ CommittedIsPast' /\ FreshIsNew'
    <3>1. 0 \in 0..origin
      BY LenProperties DEF Kept, RepoTyped
    <3>2. RepoTyped'
      BY <1>1, <1>3, <2>2, <2>3, <3>1 DEF Kept, RepoTyped
    <3> QED  BY <1>1, <1>3, <3>2 DEF Kept, CommittedIsPast, FreshIsNew
  <2>7. SavedBefore' /\ NothingLost' /\ MergeKept'
    <3>1. SavedBefore'
      BY <1>1, <1>3, <2>2, <2>3, <2>4 DEF Kept, SavedBefore
    <3>2. NothingLost'
      BY <1>1, <2>4, <2>5 DEF Kept, RepoTyped, NothingLost, Safe
    <3> QED  BY <1>3, <3>1, <3>2 DEF MergeKept
  <2>8. tree = index => tree' = head.tree
    <3> SUFFICES ASSUME tree = index, NEW c \in Changes PROVE c \in tree' <=> c \in head.tree
      BY <2>2, <2>3
    <3>1. CASE FileOf[c] \in Brought \cup unmerged
      BY <2>3, <3>1
    <3>2. CASE FileOf[c] \notin Brought \cup unmerged
      <4>1. FileOf[c] \notin Touched(head.tree, index)
        BY <3>2 DEF Brought
      <4>2. c \in head.tree <=> c \in index
        BY <4>1, Untouched
      <4> QED  BY <2>3, <3>2, <4>2
    <3> QED  BY <3>1, <3>2
  <2> QED  BY <1>3, <2>6, <2>7, <2>8 DEF Kept
<1> QED  BY <1>2, <1>3 DEF GitMergeAbort

\* A pop puts the newest entry's changes into the work tree, but for the new files it found others in place of.
LEMMA PopKept ==
  ASSUME Kept, NEW ok \in BOOLEAN, GitPop(ok), Local, merging = 0 \/ unmerged # {}
  PROVE  /\ Kept' /\ merging' = merging
         /\ ok => stash # <<>> /\ stash' = Tail(stash)
         /\ ~ok => stash' = stash /\ tree' \cap Mine \subseteq tree \cup Safe'
         /\ ~ok /\ unmerged' # {} /\ unmerged = {} /\ FilesOf(index) \subseteq FilesOf(tree) =>
              \A c \in Head(stash).tree \cap Mine :
                \/ c \in committed \/ FileOf[c] \in unmerged' \/ FileOf[c] \in PopInWay
                \/ c \in tree' /\ (FileOf[c] \in FilesOf(index') => c \in index')
<1> DEFINE top == Head(stash)
           new == FilesOf(top.tree) \ (FilesOf(top.from) \cup top.fresh)
           merged == Merge3(top.from, tree, top.tree)
           staged == Merge3(top.from, index, top.tree)
<1>1. UNCHANGED <<remote, origin, saved, exposed, risked, committed>>
  BY DEF Local
<1>2. CASE ~ok /\ UNCHANGED repo
  BY <1>2, AloneKept DEF Safe
<1>3. ASSUME ~PopRefused, NEW stop \in SUBSET PopClash, ok => stop = {} /\ PopInWay = {}, unmerged' = stop,
             tree' = Put(merged, PopInWay, tree),
             index' = Put(index, IF stop = {} THEN new ELSE Files \ top.fresh, staged),
             stash' = IF ok THEN Tail(stash) ELSE stash, UNCHANGED <<head, merging>>
      PROVE  /\ Kept' /\ merging' = merging
             /\ ok => stash # <<>> /\ stash' = Tail(stash)
             /\ ~ok => stash' = stash /\ tree' \cap Mine \subseteq tree \cup Safe'
             /\ ~ok /\ unmerged' # {} /\ unmerged = {} /\ FilesOf(index) \subseteq FilesOf(tree) =>
                  \A c \in Head(stash).tree \cap Mine :
                    \/ c \in committed \/ FileOf[c] \in unmerged' \/ FileOf[c] \in PopInWay
                    \/ c \in tree' /\ (FileOf[c] \in FilesOf(index') => c \in index')
  <2>1. stash # <<>> /\ unmerged = {} /\ merging = 0
    BY <1>3 DEF PopRefused
  <2>2. /\ top \in Entry /\ top.from \cap Mine \subseteq committed /\ top.tree \in SUBSET Changes
        /\ top.tree \subseteq Stashed
    <3>1. top \in Entry /\ top = stash[1] /\ 1 \in 1..Len(stash)
      BY <2>1, StashTop DEF Kept, RepoTyped
    <3> QED  BY <3>1 DEF Kept, CommittedIsPast, Entry, Stashed
  <2>3. stop \subseteq Files /\ PopInWay = top.fresh \cap FilesOf(tree)
    BY <1>3 DEF PopClash, Clash, Touched, PopInWay
  <2>4. tree \in SUBSET Changes /\ index \in SUBSET Changes
    BY DEF Kept, RepoTyped
  <2> DEFINE fs == IF stop = {} THEN new ELSE Files \ top.fresh
             way == PopInWay
  <2>5. /\ merged \in SUBSET Changes /\ merged \subseteq tree \cup top.tree
        /\ \A c \in tree \cup top.tree : c \notin top.from => c \in merged
        /\ staged \in SUBSET Changes /\ staged \subseteq index \cup top.tree
        /\ \A c \in index \cup top.tree : c \notin top.from => c \in staged
    BY <2>2, <2>4, MergeTyped
  <2> HIDE DEF merged, staged, fs, way, top
  <2>6. tree' = Put(merged, way, tree) /\ index' = Put(index, fs, staged)
    BY <1>3 DEF fs, way, top, new
  <2>7. /\ tree' \in SUBSET Changes /\ tree' \subseteq merged \cup tree
        /\ \A c \in merged : FileOf[c] \notin way => c \in tree'
        /\ \A c \in tree : FileOf[c] \in way => c \in tree'
    BY <2>4, <2>5, <2>6, PutTyped
  <2>8. /\ index' \in SUBSET Changes /\ index' \subseteq index \cup staged
        /\ \A c \in staged : FileOf[c] \in fs => c \in index'
        /\ \A c \in index' : IF FileOf[c] \in fs THEN c \in staged ELSE c \in index
    BY <2>4, <2>5, <2>6, PutTyped
  <2>9. /\ stash' \in Seq(Entry)
        /\ Stashed \subseteq Stashed' \cup top.tree /\ (~ok => Stashed' = Stashed) /\ Stashed' \subseteq Stashed
        /\ \A n \in 1..Len(stash') : \E m \in 1..Len(stash) : stash'[n] = stash[m]
    <3>1. CASE ok
      <4>1. /\ stash' \in Seq(Entry) /\ Stashed \subseteq Stashed' \cup top.tree
            /\ \A n \in 1..Len(stash') : \E m \in 1..Len(stash) : stash'[n] = stash[m]
        BY <3>1, <1>3, <2>1, StashLess DEF Kept, RepoTyped, top
      <4> QED  BY <3>1, <4>1 DEF Stashed
    <3>2. CASE ~ok
      BY <3>2, <1>3 DEF Kept, RepoTyped, Stashed
    <3> QED  BY <3>1, <3>2
  <2>10. RepoTyped'
    BY <1>1, <1>3, <2>3, <2>7, <2>8, <2>9 DEF Kept, RepoTyped
  <2>11. CommittedIsPast' /\ FreshIsNew' /\ MergeKept'
    BY <1>1, <1>3, <2>1, <2>9 DEF Kept, CommittedIsPast, FreshIsNew, MergeKept
  <2>12. SavedBefore'
    <3>1. (tree' \cup index' \cup Stashed') \subseteq tree \cup index \cup Stashed
      BY <2>2, <2>5, <2>7, <2>8, <2>9
    <3> QED  BY <1>1, <3>1 DEF Kept, SavedBefore
  <2>13. NothingLost'
    <3>1. tree \cap Mine \subseteq tree' \cup committed
      BY <2>2, <2>5, <2>7
    <3>2. ok => top.tree \cap Mine \subseteq tree' \cup committed
      BY <1>3, <2>2, <2>5, <2>7 DEF way
    <3> QED  BY <1>1, <2>9, <3>1, <3>2 DEF Kept, RepoTyped, NothingLost
  <2>14. ~ok => tree' \cap Mine \subseteq tree \cup Safe'
    BY <2>2, <2>5, <2>7, <2>9 DEF Safe
  <2>15. ASSUME unmerged' # {}, FilesOf(index) \subseteq FilesOf(tree), NEW c \in top.tree \cap Mine,
                c \notin committed, FileOf[c] \notin way
         PROVE  c \in tree' /\ (FileOf[c] \in FilesOf(index') => c \in index')
    <3>1. c \notin top.from /\ c \in merged /\ c \in staged /\ c \in tree'
      BY <2>2, <2>5, <2>7, <2>15
    <3>2. fs = Files \ top.fresh /\ FileOf[c] \in Files
      BY <1>3, <2>2, <2>15, FileOfChange DEF fs
    <3>3. CASE FileOf[c] \in fs
      BY <2>8, <3>1, <3>3
    <3>4. CASE FileOf[c] \in top.fresh
      <4>1. FileOf[c] \notin FilesOf(tree)
        BY <2>3, <2>15, <3>4 DEF way
      <4>2. FileOf[c] \notin FilesOf(index)
        BY <2>15, <4>1
      <4>3. ASSUME NEW d \in index', FileOf[d] = FileOf[c] PROVE FALSE
        BY <2>8, <3>2, <3>4, <4>2, <4>3 DEF FilesOf
      <4> QED  BY <3>1, <4>3 DEF FilesOf
    <3> QED  BY <3>2, <3>3, <3>4
  <2> QED  BY <1>3, <2>1, <2>10, <2>11, <2>12, <2>13, <2>14, <2>15 DEF Kept, top, way
<1>4. \/ ~ok /\ UNCHANGED repo
      \/ /\ ~PopRefused
         /\ \E stop \in SUBSET PopClash :
              /\ ok => stop = {} /\ PopInWay = {}
              /\ unmerged' = stop /\ tree' = Put(merged, PopInWay, tree)
              /\ index' = Put(index, IF stop = {} THEN new ELSE Files \ top.fresh, staged)
              /\ stash' = (IF ok THEN Tail(stash) ELSE stash) /\ UNCHANGED <<head, merging>>
  BY Zenon DEF GitPop
<1> QED  BY <1>2, <1>3, <1>4

\* The checkout writes over nothing but what is safe or was late; once it is done the newest entry is applied.
LEMMA TheirsKept ==
  ASSUME Kept, NEW ok \in BOOLEAN, GitCheckoutTheirs(ok), merging = 0,
         UNCHANGED <<remote, origin, saved, exposed, committed>>,
         risked \subseteq risked', risked' \subseteq Mine,
         NEW late, tree \cap Mine \subseteq Safe \cup late, ok => late \subseteq risked'
  PROVE  /\ Kept' /\ UNCHANGED <<stash, unmerged, merging>>
         /\ ok /\ late = op.late /\ Applying => Applied'
<1>1. CASE ~ok /\ UNCHANGED repo
  BY <1>1, KeptFrame
<1>2. CASE /\ ok /\ stash # <<>>
           /\ tree' = Put(Put(tree, FilesOf(index), index), unmerged, Head(stash).tree)
           /\ UNCHANGED <<head, index, stash, unmerged, merging>>
  <2> DEFINE top == Head(stash)
             under == Put(tree, FilesOf(index), index)
  <2>1. top.tree \in SUBSET Changes /\ top.tree \subseteq Stashed
    <3>1. top \in Entry /\ top = stash[1] /\ 1 \in 1..Len(stash)
      BY <1>2, StashTop DEF Kept, RepoTyped
    <3> QED  BY <3>1 DEF Entry, Stashed
  <2>2. tree \in SUBSET Changes /\ index \in SUBSET Changes
    BY DEF Kept, RepoTyped
  <2>3. /\ under \in SUBSET Changes /\ under \subseteq tree \cup index
        /\ \A c \in tree : FileOf[c] \notin FilesOf(index) => c \in under
        /\ \A c \in index : FileOf[c] \in FilesOf(index) => c \in under
    BY <2>2, PutTyped
  <2>4. \A c \in index : c \in under
    BY <2>3 DEF FilesOf
  <2> HIDE DEF top, under
  <2>5. tree' = Put(under, unmerged, top.tree)
    BY <1>2 DEF top, under
  <2>6. /\ tree' \in SUBSET Changes /\ tree' \subseteq under \cup top.tree
        /\ \A c \in under : FileOf[c] \notin unmerged => c \in tree'
        /\ \A c \in top.tree : FileOf[c] \in unmerged => c \in tree'
    BY <2>1, <2>3, <2>5, PutTyped
  <2>7. Stashed' = Stashed
    BY <1>2 DEF Stashed
  <2>8. RepoTyped' /\ CommittedIsPast' /\ FreshIsNew' /\ MergeKept'
    BY <1>2, <2>6 DEF Kept, RepoTyped, CommittedIsPast, FreshIsNew, MergeKept
  <2>9. SavedBefore'
    <3>1. tree' \cup index' \cup Stashed' \subseteq tree \cup index \cup Stashed
      BY <1>2, <2>1, <2>3, <2>6, <2>7
    <3> QED  BY <3>1 DEF Kept, SavedBefore
  <2>10. NothingLost'
    <3>1. tree \cap Mine \subseteq committed \cup exposed \cup risked' \cup Stashed
      BY <1>2 DEF Safe
    <3> QED  BY <2>7, <3>1 DEF Kept, RepoTyped, NothingLost
  <2>11. ASSUME late = op.late, Applying PROVE Applied'
    <3>1. ASSUME NEW c \in top.tree \cap Mine
          PROVE  c \in tree' \cup committed \cup exposed \cup risked'
      <4>1. \/ c \in committed \cup exposed \cup risked \cup op.late \/ FileOf[c] \in unmerged
            \/ c \in tree /\ (FileOf[c] \in FilesOf(index) => c \in index)
        BY <1>2, <2>11 DEF Applying, top
      <4>2. CASE c \in tree /\ (FileOf[c] \in FilesOf(index) => c \in index) /\ FileOf[c] \notin unmerged
        BY <2>3, <2>4, <2>6, <4>2
      <4> QED  BY <1>2, <2>6, <2>11, <4>1, <4>2
    <3> QED  BY <1>2, <3>1 DEF Applied, top
  <2> QED  BY <1>2, <2>8, <2>9, <2>10, <2>11 DEF Kept
<1> QED  BY <1>1, <1>2 DEF GitCheckoutTheirs

LEMMA ResetKept ==
  ASSUME Kept, NEW ok \in BOOLEAN, GitReset(ok), Local
  PROVE  Kept' /\ (merging = 0 => merging' = 0) /\ stash' = stash /\ (Applied => Applied')
<1>1. CASE ~ok /\ UNCHANGED repo
  BY <1>1, AloneKept
<1>2. CASE /\ ok /\ index' = head.tree /\ unmerged' = {} /\ merging' = 0 /\ UNCHANGED <<head, tree, stash>>
  <2>1. UNCHANGED <<remote, origin, saved, exposed, risked, committed>> /\ Stashed' = Stashed
    BY <1>2 DEF Local, Stashed
  <2>2. RepoTyped' /\ CommittedIsPast' /\ FreshIsNew' /\ MergeKept'
    BY <1>2, <2>1 DEF Kept, RepoTyped, CommittedIsPast, FreshIsNew, MergeKept
  <2>3. SavedBefore' /\ NothingLost'
    BY <1>2, <2>1 DEF Kept, CommittedIsPast, SavedBefore, NothingLost
  <2>4. Applied => Applied'
    BY <1>2, <2>1 DEF Applied
  <2> QED  BY <1>2, <2>2, <2>3, <2>4 DEF Kept
<1> QED  BY <1>1, <1>2 DEF GitReset

\* Dropping the newest entry loses nothing, because all it holds has been applied.
LEMMA DropKept ==
  ASSUME Kept, NEW ok \in BOOLEAN, GitDrop(ok), Local, merging = 0, Applied
  PROVE  Kept' /\ (ok => stash # <<>> /\ stash' = Tail(stash))
<1>1. CASE ~ok /\ UNCHANGED repo
  BY <1>1, AloneKept
<1>2. CASE /\ ok /\ stash # <<>> /\ stash' = Tail(stash)
           /\ UNCHANGED <<head, tree, index, unmerged, merging>>
  <2>1. UNCHANGED <<remote, origin, saved, exposed, risked, committed>>
    BY DEF Local
  <2>2. /\ stash' \in Seq(Entry) /\ Stashed \subseteq Stashed' \cup Head(stash).tree
        /\ \A n \in 1..Len(stash') : \E m \in 1..Len(stash) : stash'[n] = stash[m]
    BY <1>2, StashLess DEF Kept, RepoTyped
  <2>3. Stashed' \subseteq Stashed
    BY <2>2 DEF Stashed
  <2>4. RepoTyped' /\ CommittedIsPast' /\ FreshIsNew' /\ MergeKept'
    BY <1>2, <2>1, <2>2 DEF Kept, RepoTyped, CommittedIsPast, FreshIsNew, MergeKept
  <2>5. SavedBefore'
    BY <1>2, <2>1, <2>3 DEF Kept, SavedBefore
  <2>6. NothingLost'
    BY <1>2, <2>1, <2>2 DEF Kept, RepoTyped, NothingLost, Applied
  <2> QED  BY <1>2, <2>4, <2>5, <2>6 DEF Kept
<1> QED  BY <1>1, <1>2 DEF GitDrop

---------------------------------------------------------------------------
(* The steps of a pull. *)

\* The operation goes on at another step; it is no calmer than it was.
On(at) ==
  /\ op' \in Operation /\ op'.at = at /\ op'.kind = op.kind /\ op'.stashed = op.stashed
  /\ op'.depth = op.depth /\ op'.late = op.late /\ (op'.calm => op.calm)

LEMMA GotoOn ==
  ASSUME op \in Operation, NEW at \in {"none", "commit", "push"} \cup PullSteps, Goto(at)
  PROVE  On(at) /\ op'.said = op.said
BY DEF On, Goto, Operation

LEMMA ReturnsOn ==
  ASSUME op \in Operation, NEW outcome \in Outcomes, PullReturns(outcome)
  PROVE  On("returned") /\ op'.said = outcome
<1>1. "returned" \in PullSteps
  BY DEF PullSteps
<1> QED  BY <1>1 DEF On, PullReturns, Operation

LEMMA IgnoredOn ==
  ASSUME op \in Operation, NEW at \in PullSteps, NEW ok \in BOOLEAN, NEW refused \in BOOLEAN,
         Ignored(at, ok, refused)
  PROVE  On(at) /\ (op'.calm => ok \/ refused)
BY DEF On, Ignored, Operation

LEMMA IgnoredReturnsOn ==
  ASSUME op \in Operation, NEW outcome \in Outcomes, NEW ok \in BOOLEAN, NEW refused \in BOOLEAN,
         IgnoredReturns(outcome, ok, refused)
  PROVE  On("returned") /\ op'.said = outcome /\ (op'.calm => ok \/ refused)
<1>1. "returned" \in PullSteps
  BY DEF PullSteps
<1> QED  BY <1>1 DEF On, IgnoredReturns, Operation

LEMMA OnTyped ==
  ASSUME OpTyped, op.at \in PullSteps, NEW at \in PullSteps, On(at), UNCHANGED <<noting, orphan, poller>>
  PROVE  OpTyped'
<1>1. at \notin {"none", "commit", "push"}
  BY DEF PullSteps, Commands
<1> QED  BY <1>1 DEF OpTyped, On

\* When neither an operation nor a process left behind is at a git command there is nothing more to say.
LEMMA QuietPhases ==
  ASSUME op'.at \in {"none", "returned", "commit", "push"}, orphan' = "none"
  PROVE  Phases'
BY DEF Phases, Commands

LEMMA Words ==
  /\ Commands \subseteq PullSteps /\ {"fetch", "status", "returned"} \subseteq PullSteps
  /\ {"stash", "merge", "abort", "unstash", "pop", "theirs", "reset", "drop"} = Commands
  /\ {"none", "fetch", "status", "returned", "commit", "push"} \cap Commands = {}
  /\ {"ok", "unreachable", "mergeFailed", "restoreFailed"} \subseteq Outcomes
BY DEF PullSteps, Commands, Outcomes

LEMMA CommandInv ==
  ASSUME Inv, PullCommand
  PROVE  Inv'
<1>1. /\ orphan = "none" /\ orphan' = "none" /\ UNCHANGED <<noting, orphan, poller>>
      /\ UNCHANGED <<remote, origin, saved, exposed, committed>>
      /\ Kept /\ OpTyped /\ Phases /\ op \in Operation
  BY DEF PullCommand, Inv, OpTyped
<1>2. AbortRefused \in BOOLEAN /\ (PopRefused \/ PopClash # {} \/ PopInWay # {}) \in BOOLEAN /\ (stash = <<>>) \in BOOLEAN
  BY Zenon DEF AbortRefused, PopRefused
<1>3. op.at \in PullSteps
  <2>1. \/ op.at = "stash" \/ op.at = "merge" \/ op.at = "abort" \/ op.at = "unstash"
        \/ op.at = "pop" \/ op.at = "theirs" \/ op.at = "reset" \/ op.at = "drop"
    BY Zenon DEF PullCommand, Stash, Merge, MergeFailed, Unstash, Pop, TakeTheirs, ResetIndex, Drop
  <2> QED  BY <2>1 DEF PullSteps, Commands
<1>4. ASSUME NEW at \in PullSteps, On(at) PROVE OpTyped' /\ (at = "returned" => Phases')
  <2>1. at = "returned" => op'.at = "returned"
    BY <1>4 DEF On
  <2>2. at = "returned" => Phases'
    BY <1>1, <2>1, QuietPhases
  <2>3. OpTyped'
    BY <1>1, <1>3, <1>4, OnTyped
  <2> QED  BY <2>2, <2>3
<1>5. CASE Stash
  <2>1. PICK ok \in BOOLEAN : GitStash(ok) /\ op' = [op EXCEPT !.at = "merge", !.stashed = ok]
    BY <1>5, Zenon DEF Stash
  <2>2. op.at = "stash" /\ Local
    BY <1>1, <1>5 DEF Stash, Local
  <2>3. Kept' /\ (ok => /\ unmerged' = {} /\ tree' = head.tree /\ index' = head.tree /\ head' = head
                        /\ (Changed # {} => merging' = 0))
    BY <1>1, <2>1, <2>2, StashKept
  <2>4. /\ op' \in Operation /\ op'.at = "merge" /\ op'.kind = op.kind /\ op'.stashed = ok
        /\ op'.late = op.late
    BY <1>1, <2>1, Words DEF Operation
  <2>5. OpTyped'
    BY <1>1, <1>3, <2>4 DEF OpTyped, PullSteps, Commands
  <2>6. ok => unmerged = {} /\ merging' = 0
    BY <1>1, <2>1, <2>2, <2>3 DEF GitStash, Phases
  <2>7. ok => tree' \cap Mine \subseteq Safe'
    BY <2>3 DEF Kept, CommittedIsPast, Safe
  <2>8. Phases'
    BY <1>1, <2>3, <2>4, <2>6, <2>7 DEF Phases
  <2> QED  BY <2>3, <2>5, <2>8 DEF Inv
<1>6. CASE Merge
  <2>1. op.at = "merge" /\ Local
    BY <1>1, <1>6 DEF Merge, Local
  <2>2. CASE GitMerge(TRUE) /\ op.stashed /\ Goto("pop")
    <3>1. On("pop") /\ OpTyped'
      BY <1>1, <1>4, <2>2, GotoOn, Words
    <3>2. /\ Kept' /\ unmerged' = {} /\ merging' = 0
          /\ tree' \cap Mine \subseteq tree \cup Safe /\ Safe \subseteq Safe'
          /\ index = head.tree /\ head.tree \subseteq tree =>
               index' = head'.tree /\ head'.tree \subseteq tree'
      BY <1>1, <2>1, <2>2, MergeKeeps
    <3>3. index = head.tree /\ head.tree \subseteq tree /\ tree \cap Mine \subseteq Safe \cup op.late
      BY <1>1, <2>1, <2>2 DEF Phases
    <3>4. Phases'
      BY <1>1, <2>2, <3>1, <3>2, <3>3 DEF Phases, On
    <3> QED  BY <3>1, <3>2, <3>4 DEF Inv
  <2>3. CASE GitMerge(TRUE) /\ PullReturns("ok")
    BY <1>1, <1>4, <2>1, <2>3, MergeKeeps, ReturnsOn, Words DEF Inv
  <2>4. CASE GitMerge(FALSE) /\ Goto("abort")
    <3>1. On("abort") /\ OpTyped'
      BY <1>1, <1>4, <2>4, GotoOn, Words
    <3>2. Kept' /\ (merging = 0 => merging' = 0 \/ unmerged' # {})
      BY <1>1, <2>1, <2>4, MergeKeeps
    <3>3. Phases'
      BY <1>1, <2>1, <3>1, <3>2 DEF Phases, On
    <3> QED  BY <3>1, <3>2, <3>3 DEF Inv
  <2> QED  BY <1>6, <2>2, <2>3, <2>4 DEF Merge
<1>7. CASE MergeFailed
  <2>1. PICK ok \in BOOLEAN : /\ GitMergeAbort(ok)
                              /\ IF op.stashed THEN Ignored("unstash", ok, AbortRefused)
                                 ELSE IgnoredReturns("mergeFailed", ok, AbortRefused)
    BY <1>7 DEF MergeFailed
  <2>2. op.at = "abort" /\ Local
    BY <1>1, <1>7 DEF MergeFailed, Local
  <2>3. Kept' /\ (ok => merging' = 0) /\ (~ok => UNCHANGED repo)
    BY <1>1, <2>1, <2>2, AbortKept
  <2>4. CASE op.stashed
    <3>1. On("unstash") /\ OpTyped'
      BY <1>1, <1>2, <1>4, <2>1, <2>4, IgnoredOn, Words
    <3>2. merging' = 0 \/ unmerged' # {}
      BY <1>1, <2>2, <2>3, <2>4 DEF Phases, repo
    <3>3. Phases'
      BY <1>1, <3>1, <3>2 DEF Phases, On
    <3> QED  BY <2>3, <3>1, <3>3 DEF Inv
  <2>5. CASE ~op.stashed
    BY <1>1, <1>2, <1>4, <2>1, <2>3, <2>5, IgnoredReturnsOn, Words DEF Inv
  <2> QED  BY <2>4, <2>5
<1>8. CASE Unstash
  <2>1. PICK ok \in BOOLEAN : /\ GitPop(ok)
                              /\ IgnoredReturns("mergeFailed", ok, PopRefused \/ PopClash # {} \/ PopInWay # {})
    BY <1>8 DEF Unstash
  <2>2. (merging = 0 \/ unmerged # {}) /\ Local
    BY <1>1, <1>8 DEF Unstash, Phases, Local
  <2>3. Kept'
    BY <1>1, <2>1, <2>2, PopKept
  <2> QED  BY <1>1, <1>2, <1>4, <2>1, <2>3, IgnoredReturnsOn, Words DEF Inv
<1>9. CASE Pop
  <2>1. /\ op.at = "pop" /\ op.stashed /\ merging = 0 /\ unmerged = {} /\ Local
        /\ FilesOf(index) \subseteq FilesOf(tree) /\ tree \cap Mine \subseteq Safe \cup op.late
    BY <1>1, <1>9 DEF Pop, Phases, Local, FilesOf
  <2>2. CASE GitPop(TRUE) /\ PullReturns("ok")
    BY <1>1, <1>4, <2>1, <2>2, PopKept, ReturnsOn, Words DEF Inv
  <2>3. CASE /\ GitPop(FALSE)
             /\ op' = [op EXCEPT !.at = "theirs",
                                 !.late = @ \cup {c \in Head(stash).tree \cap Mine : FileOf[c] \in PopInWay}]
    <3> DEFINE out == {c \in Head(stash).tree \cap Mine : FileOf[c] \in PopInWay}
    <3>1. /\ op' \in Operation /\ op'.at = "theirs" /\ op'.kind = op.kind /\ op'.stashed = op.stashed
          /\ op'.late = op.late \cup out
      <4>1. out \in SUBSET Mine
        OBVIOUS
      <4> HIDE DEF out
      <4>2. op' = [op EXCEPT !.at = "theirs", !.late = @ \cup out]
        BY <2>3 DEF out
      <4> QED  BY <1>1, <4>1, <4>2, Words DEF Operation
    <3>2. OpTyped'
      BY <1>1, <1>3, <3>1 DEF OpTyped, PullSteps, Commands
    <3>3. /\ Kept' /\ merging' = 0 /\ stash' = stash /\ tree' \cap Mine \subseteq tree \cup Safe'
          /\ unmerged' # {} =>
               \A c \in Head(stash).tree \cap Mine :
                 \/ c \in committed \/ FileOf[c] \in unmerged' \/ FileOf[c] \in PopInWay
                 \/ c \in tree' /\ (FileOf[c] \in FilesOf(index') => c \in index')
      BY <1>1, <2>1, <2>3, PopKept
    <3>4. Safe' = Safe
      BY <2>1, <3>3 DEF Safe, Stashed, Local
    <3>5. unmerged' # {} => Applying'
      BY <1>1, <3>1, <3>3 DEF Applying
    <3>6. Phases'
      BY <1>1, <2>1, <3>1, <3>3, <3>4, <3>5 DEF Phases
    <3> QED  BY <3>2, <3>3, <3>6 DEF Inv
  <2> QED  BY <1>9, <2>2, <2>3 DEF Pop
<1>10. CASE TakeTheirs
  <2>1. /\ op.at = "theirs" /\ merging = 0 /\ tree \cap Mine \subseteq Safe \cup op.late
        /\ (unmerged # {} => Applying) /\ op.late \subseteq Mine /\ risked \subseteq Mine
    BY <1>1, <1>10 DEF TakeTheirs, Phases, Operation, Kept, RepoTyped
  <2>2. CASE /\ unmerged # {} /\ GitCheckoutTheirs(TRUE) /\ Goto("reset") /\ risked' = risked \cup op.late
    <3>1. On("reset") /\ OpTyped'
      BY <1>1, <1>4, <2>2, GotoOn, Words
    <3>2. Kept' /\ merging' = 0 /\ Applied'
      BY <1>1, <2>1, <2>2, TheirsKept
    <3>3. Phases'
      BY <1>1, <3>1, <3>2 DEF Phases, On
    <3> QED  BY <3>1, <3>2, <3>3 DEF Inv
  <2>3. CASE GitCheckoutTheirs(FALSE) /\ PullReturns("restoreFailed") /\ UNCHANGED risked
    <3>1. Kept'
      BY <1>1, <2>1, <2>3, TheirsKept
    <3> QED  BY <1>1, <1>4, <2>3, <3>1, ReturnsOn, Words DEF Inv
  <2> QED  BY <1>10, <2>2, <2>3 DEF TakeTheirs
<1>11. CASE ResetIndex
  <2>1. PICK ok \in BOOLEAN : GitReset(ok)
    BY <1>11 DEF ResetIndex
  <2>2. op.at = "reset" /\ merging = 0 /\ Applied /\ Local /\ Goto("drop")
    BY <1>1, <1>11 DEF ResetIndex, Phases, Local
  <2>3. Kept' /\ merging' = 0 /\ Applied'
    BY <1>1, <2>1, <2>2, ResetKept
  <2>4. On("drop") /\ OpTyped'
    BY <1>1, <1>4, <2>2, GotoOn, Words
  <2>5. Phases'
    BY <1>1, <2>3, <2>4 DEF Phases, On
  <2> QED  BY <2>3, <2>4, <2>5 DEF Inv
<1>12. CASE Drop
  <2>1. PICK ok \in BOOLEAN : GitDrop(ok) /\ IgnoredReturns("ok", ok, stash = <<>>)
    BY <1>12 DEF Drop
  <2>2. op.at = "drop" /\ merging = 0 /\ Applied /\ Local
    BY <1>1, <1>12 DEF Drop, Phases, Local
  <2>3. Kept'
    BY <1>1, <2>1, <2>2, DropKept
  <2> QED  BY <1>1, <1>2, <1>4, <2>1, <2>3, IgnoredReturnsOn, Words DEF Inv
<1> QED  BY <1>5, <1>6, <1>7, <1>8, <1>9, <1>10, <1>11, <1>12 DEF PullCommand


---------------------------------------------------------------------------
(* The other steps. *)

\* A step that leaves the repository and any process left behind alone, and the operation at no git command.
LEMMA BesidePhases ==
  ASSUME Phases, UNCHANGED <<head, tree, index, stash, unmerged, merging, orphan>>, Applied => Applied',
         Safe \subseteq Safe', op'.at \notin Commands, op'.at \in {"fetch", "status"} => ~op'.stashed
  PROVE  Phases'
BY DEF Phases, Commands

LEMMA BeginTyped ==
  ASSUME OpTyped, NEW kind \in {"pull", "poll", "publish", "sync", "push"},
         NEW at \in {"fetch", "push"}, NEW paths \in SUBSET Files, Begin(kind, at, paths),
         Len(stash) \in Nat
  PROVE  op' \in Operation /\ op'.at = at /\ op'.kind = kind /\ ~op'.stashed /\ op.kind = "none"
<1>1. /\ op' = [kind |-> kind, at |-> at, paths |-> paths, stashed |-> FALSE, calm |-> orphan = "none",
                depth |-> Len(stash), late |-> {}, said |-> "none"]
      /\ op = NoOp
  BY DEF Begin, NoOp
<1>2. at \in {"none", "commit", "push"} \cup PullSteps
  BY DEF PullSteps
<1> QED  BY <1>1, <1>2 DEF Operation, Outcomes, NoOp

LEMMA RequestInv ==
  ASSUME Inv, Request
  PROVE  Inv'
<1>1. /\ Kept' /\ (Applied => Applied') /\ Safe \subseteq Safe'
      /\ UNCHANGED <<head, tree, index, stash, unmerged, merging, noting, orphan, poller>>
  BY AloneKept DEF Inv, Request, Local, past
<1>2. PICK request \in Requests :
        Begin(request.kind, IF request.kind = "push" THEN "push" ELSE "fetch", request.paths)
  BY DEF Request
<1>3. request.kind \in {"pull", "push", "publish", "sync"} /\ request.paths \in SUBSET Files
  BY GitSyncAssumption
<1>4. Len(stash) \in Nat
  BY LenProperties DEF Inv, Kept, RepoTyped
<1>5. /\ op' \in Operation /\ op'.at \in {"fetch", "push"} /\ op'.kind # "poll" /\ ~op'.stashed
      /\ op.kind = "none"
  BY <1>2, <1>3, <1>4, BeginTyped DEF Inv
<1>6. OpTyped'
  BY <1>1, <1>5 DEF Inv, OpTyped
<1>7. Phases'
  BY <1>1, <1>5, BesidePhases, Words DEF Inv
<1> QED  BY <1>1, <1>6, <1>7 DEF Inv

LEMMA FetchInv ==
  ASSUME Inv, Fetch
  PROVE  Inv'
<1>1. /\ UNCHANGED <<remote, head, tree, index, stash, unmerged, merging, noting, orphan, poller>>
      /\ UNCHANGED <<saved, exposed, risked, committed>>
      /\ op.at = "fetch" /\ op.at \in PullSteps /\ op \in Operation
  BY DEF Fetch, repo, past, PullSteps, Inv, OpTyped
<1>2. origin' = Len(remote) \/ origin' = origin
  BY DEF Fetch
<1>3. Kept' /\ (Applied => Applied') /\ Safe \subseteq Safe'
  <2>1. origin \in Nat /\ Len(remote) \in Nat /\ origin <= Len(remote) /\ 1 <= origin
    BY LenProperties DEF Inv, Kept, RepoTyped
  <2>2. origin' \in 1..Len(remote) /\ origin <= origin' /\ origin' \in Nat
    BY <1>2, <2>1
  <2>3. head \in [tree : SUBSET Changes, contains : 1..origin', ahead : BOOLEAN] /\ merging \in 0..origin'
    <3>1. head \in [tree : SUBSET Changes, contains : 1..origin, ahead : BOOLEAN] /\ merging \in 0..origin
      BY DEF Inv, Kept, RepoTyped
    <3>2. 1..origin \subseteq 1..origin' /\ 0..origin \subseteq 0..origin'
      BY <2>1, <2>2
    <3> QED  BY <3>1, <3>2
  <2>4. RepoTyped'
    BY <1>1, <2>2, <2>3 DEF Inv, Kept, RepoTyped
  <2>5. CommittedIsPast' /\ FreshIsNew' /\ Stashed' = Stashed
    BY <1>1 DEF Inv, Kept, CommittedIsPast, FreshIsNew, Stashed
  <2>6. Safe' = Safe /\ SavedBefore' /\ NothingLost'
    BY <1>1, <2>5 DEF Inv, Kept, SavedBefore, NothingLost, Safe
  <2>7. MergeKept'
    BY <1>1, <2>6 DEF Inv, Kept, MergeKept
  <2> QED  BY <1>1, <2>4, <2>5, <2>6, <2>7 DEF Kept, Applied
<1>4. OpTyped' /\ op'.at \in {"returned", "status"} /\ op'.stashed = op.stashed
  <2>1. ASSUME NEW at \in {"returned", "status"}, On(at) PROVE OpTyped' /\ op'.at = at /\ op'.stashed = op.stashed
    <3>1. at \in PullSteps
      BY Words
    <3>2. OpTyped'
      BY <1>1, <2>1, <3>1, OnTyped DEF Inv
    <3> QED  BY <2>1, <3>2 DEF On
  <2>2. CASE PullReturns("ok") \/ PullReturns("unreachable")
    BY <1>1, <2>1, <2>2, ReturnsOn, Words
  <2>3. CASE Goto("status")
    BY <1>1, <2>1, <2>3, GotoOn, Words
  <2> QED  BY <2>2, <2>3 DEF Fetch
<1>5. ~op.stashed
  BY <1>1 DEF Inv, Phases
<1>6. Phases'
  BY <1>1, <1>3, <1>4, <1>5, BesidePhases, Words DEF Inv
<1> QED  BY <1>3, <1>4, <1>6 DEF Inv

LEMMA StatusInv ==
  ASSUME Inv, Status
  PROVE  Inv'
<1>1. /\ UNCHANGED <<remote, origin, repo, past, poller, noting, orphan>> /\ orphan = "none"
      /\ op.at = "status" /\ op.at \in PullSteps /\ op \in Operation
  BY DEF Status, PullSteps, Inv, OpTyped
<1>2. Kept' /\ UNCHANGED <<head, tree, index, unmerged>>
  BY <1>1, AloneKept DEF Inv, Local, past
<1>3. Changed' = Changed
  BY <1>2 DEF Changed
<1>4. ~op.stashed
  BY <1>1 DEF Inv, Phases
<1>5. CASE Goto("merge")
  <2>1. On("merge") /\ OpTyped'
    BY <1>1, <1>5, GotoOn, OnTyped, Words DEF Inv
  <2>2. Phases'
    BY <1>1, <1>4, <2>1 DEF Phases, On
  <2> QED  BY <1>2, <2>1, <2>2 DEF Inv
<1>6. CASE Goto("stash") /\ Changed \cup unmerged # {}
  <2>1. On("stash") /\ OpTyped'
    BY <1>1, <1>6, GotoOn, OnTyped, Words DEF Inv
  <2>2. Phases'
    BY <1>1, <1>2, <1>3, <1>6, <2>1 DEF Phases, On
  <2> QED  BY <1>2, <2>1, <2>2 DEF Inv
<1> QED  BY <1>5, <1>6 DEF Status

\* A pull that has returned is over, or a publish goes on.
LEMMA ReturnInv ==
  ASSUME Inv, Return
  PROVE  Inv'
<1>1. /\ UNCHANGED <<remote, origin, repo, past, noting, orphan>> /\ op.at = "returned"
      /\ op \in Operation /\ poller \in Poller /\ OpTyped
  BY DEF Return, Inv, OpTyped
<1>2. /\ Kept' /\ (Applied => Applied') /\ Safe \subseteq Safe'
      /\ UNCHANGED <<head, tree, index, stash, unmerged, merging>>
  BY <1>1, AloneKept DEF Inv, Local, past
<1>3. op' \in Operation /\ op'.at \in {"none", "commit"} /\ op'.kind # "poll"
  <2>1. CASE op.kind \in Publishing
    <3>1. op' = [op EXCEPT !.at = "commit", !.stashed = FALSE, !.late = {}]
      BY <2>1 DEF Return
    <3> QED  BY <1>1, <2>1, <3>1 DEF Operation, Publishing
  <2>2. CASE op.kind \notin Publishing
    <3>1. op' = NoOp
      BY <2>2 DEF Return
    <3> QED  BY <3>1 DEF Operation, NoOp, Outcomes
  <2> QED  BY <2>1, <2>2
<1>4. poller' \in Poller /\ poller'.at # "pulling"
  <2>1. CASE op.kind # "poll"
    BY <1>1, <2>1 DEF Return, OpTyped
  <2>2. CASE op.kind = "poll"
    <3>1. CASE poller' = [poller EXCEPT !.at = "pulled"]
      BY <1>1, <3>1 DEF Poller
    <3>2. CASE poller' = [poller EXCEPT !.at = "idle", !.tip = 0]
      BY <1>1, <3>2 DEF Poller
    <3> QED  BY <2>2, <3>1, <3>2 DEF Return
  <2> QED  BY <2>1, <2>2
<1>5. OpTyped'
  BY <1>1, <1>3, <1>4 DEF OpTyped
<1>6. Phases'
  BY <1>1, <1>2, <1>3, BesidePhases, Words DEF Inv
<1> QED  BY <1>2, <1>5, <1>6 DEF Inv

\* A commit makes what it stages part of HEAD; one that git refuses leaves it staged.
LEMMA CommitInv ==
  ASSUME Inv, Commit
  PROVE  Inv'
<1> DEFINE staged == Put(index, op.paths, tree)
           left == unmerged \ op.paths
<1>1. /\ UNCHANGED <<remote, origin, tree, stash, poller, orphan, saved, exposed>>
      /\ op.at = "commit" /\ orphan = "none" /\ op \in Operation /\ op.kind # "poll"
      /\ index' = staged /\ unmerged' = left
  BY DEF Commit, Inv, OpTyped
<1>2. /\ tree \in SUBSET Changes /\ index \in SUBSET Changes /\ head.tree \in SUBSET Changes
      /\ Kept /\ RepoTyped
  BY DEF Inv, Kept, RepoTyped
<1>3. staged \in SUBSET Changes /\ staged \subseteq index \cup tree
  BY <1>2, PutTyped
<1> HIDE DEF staged
<1>4. Stashed' = Stashed /\ staged \cap Mine \subseteq saved
  BY <1>1, <1>2, <1>3 DEF Stashed, Kept, SavedBefore
<1>5. CASE /\ left = {}
           /\ head' = [tree |-> staged, contains |-> IF merging # 0 THEN merging ELSE head.contains, ahead |-> TRUE]
           /\ merging' = 0 /\ committed' = committed \cup (staged \cap Mine) /\ Goto("push")
           /\ UNCHANGED <<noting, risked>>
  <2>1. head' \in [tree : SUBSET Changes, contains : 1..origin, ahead : BOOLEAN] /\ head'.ahead /\ head'.tree = staged
    <3>1. head.contains \in 1..origin /\ (merging # 0 => merging \in 1..origin)
      BY <1>2 DEF RepoTyped
    <3> QED  BY <1>3, <1>5, <3>1
  <2>2. RepoTyped'
    <3>1. merging' \in 0..origin'
      BY <1>1, <1>2, <1>5, LenProperties DEF RepoTyped
    <3> QED  BY <1>1, <1>2, <1>3, <1>5, <2>1, <3>1 DEF RepoTyped
  <2>3. CommittedIsPast' /\ FreshIsNew'
    BY <1>1, <1>2, <1>5, <2>1 DEF Kept, CommittedIsPast, FreshIsNew
  <2>4. SavedBefore' /\ NothingLost' /\ MergeKept'
    BY <1>1, <1>2, <1>4, <1>5 DEF Kept, SavedBefore, NothingLost, MergeKept
  <2>5. op' \in Operation /\ op'.at = "push" /\ op'.kind = op.kind
    BY <1>1, <1>5 DEF Goto, Operation
  <2>6. OpTyped'
    BY <1>1, <1>5, <2>5 DEF Inv, OpTyped
  <2>7. Phases'
    BY <1>1, <2>5, QuietPhases
  <2> QED  BY <2>2, <2>3, <2>4, <2>6, <2>7 DEF Inv, Kept
<1>6. CASE /\ IF op.kind = "sync" THEN Goto("push") /\ UNCHANGED noting ELSE op' = NoOp /\ noting' = Unread
           /\ risked' = IF merging # 0 THEN risked \cup (staged \cap Mine) ELSE risked
           /\ UNCHANGED <<head, merging, committed>>
  <2>1. risked \subseteq risked' /\ risked' \subseteq Mine /\ (merging # 0 => staged \cap Mine \subseteq risked')
    BY <1>2, <1>6 DEF RepoTyped
  <2>2. RepoTyped' /\ CommittedIsPast' /\ FreshIsNew'
    BY <1>1, <1>2, <1>3, <1>6, <2>1 DEF Kept, RepoTyped, CommittedIsPast, FreshIsNew
  <2>3. SavedBefore' /\ NothingLost'
    BY <1>1, <1>2, <1>4, <1>6, <2>1 DEF Kept, SavedBefore, NothingLost
  <2>4. MergeKept'
    <3>1. Safe \subseteq Safe'
      BY <1>1, <1>4, <1>6, <2>1 DEF Safe
    <3> QED  BY <1>1, <1>2, <1>6, <2>1, <3>1 DEF Kept, MergeKept, Safe
  <2>5. op' \in Operation /\ op'.at \in {"none", "push"} /\ op'.kind # "poll" /\ noting' \in Int
    <3>1. CASE Goto("push") /\ UNCHANGED noting
      BY <1>1, <3>1 DEF Goto, Operation, Inv, OpTyped
    <3>2. CASE op' = NoOp /\ noting' = Unread
      BY <3>2 DEF NoOp, Operation, Outcomes, Unread
    <3> QED  BY <1>6, <3>1, <3>2
  <2>6. OpTyped'
    BY <1>1, <2>5 DEF Inv, OpTyped
  <2>7. Phases'
    BY <1>1, <2>5, QuietPhases
  <2> QED  BY <2>2, <2>3, <2>4, <2>6, <2>7 DEF Inv, Kept
<1> QED  BY <1>5, <1>6 DEF Commit, staged

\* The remote gets one more commit, all of whose changes made here are committed here.
LEMMA RemoteGrows ==
  ASSUME Kept, NEW t \in SUBSET Changes, t \cap Mine \subseteq committed, remote' = Append(remote, t)
  PROVE  /\ remote' \in Seq(SUBSET Changes) /\ Len(remote') = Len(remote) + 1 /\ Len(remote) \in Nat
         /\ \A n \in 1..Len(remote) : remote'[n] = remote[n]
         /\ remote'[Len(remote')] = t
         /\ \A n \in 1..Len(remote') : remote'[n] \cap Mine \subseteq committed
<1>1. /\ remote' \in Seq(SUBSET Changes) /\ Len(remote') = Len(remote) + 1 /\ Len(remote) \in Nat
      /\ \A n \in 1..Len(remote) : remote'[n] = remote[n]
      /\ remote'[Len(remote) + 1] = t
  BY AppendProperties, LenProperties DEF Kept, RepoTyped
<1>2. \A n \in 1..Len(remote') : n \in 1..Len(remote) \/ n = Len(remote) + 1
  BY <1>1
<1> QED  BY <1>1, <1>2 DEF Kept, CommittedIsPast

LEMMA PushInv ==
  ASSUME Inv, Push
  PROVE  Inv'
<1>1. /\ UNCHANGED <<tree, index, stash, unmerged, merging, poller, orphan, saved, exposed, risked, committed>>
      /\ op.at = "push" /\ op.kind # "poll" /\ op' = NoOp
      /\ noting' = IF op.kind \in Publishing THEN Unread ELSE noting
  BY DEF Push, past, Inv, OpTyped
<1>2. Stashed' = Stashed
  BY <1>1 DEF Stashed
<1>3. Safe' = Safe /\ SavedBefore' /\ FreshIsNew' /\ NothingLost'
  BY <1>1, <1>2 DEF Safe, Inv, Kept, SavedBefore, FreshIsNew, NothingLost
<1>4. MergeKept'
  BY <1>1, <1>3 DEF Inv, Kept, MergeKept
<1>5. ASSUME UNCHANGED <<remote, origin, head>> PROVE Kept'
  BY <1>1, <1>3, <1>4, <1>5 DEF Inv, Kept, RepoTyped, CommittedIsPast
<1>6. ASSUME head.contains = Len(remote), remote' = Append(remote, head.tree), origin' = Len(remote'),
             head' = [head EXCEPT !.contains = origin', !.ahead = FALSE]
      PROVE  Kept'
  <2>1. head.tree \in SUBSET Changes /\ head.tree \cap Mine \subseteq committed
    BY DEF Inv, Kept, RepoTyped, CommittedIsPast
  <2>2. /\ remote' \in Seq(SUBSET Changes) /\ Len(remote') = Len(remote) + 1 /\ Len(remote) \in Nat
        /\ remote'[Len(remote')] = head.tree
        /\ \A n \in 1..Len(remote') : remote'[n] \cap Mine \subseteq committed
    BY <1>6, <2>1, RemoteGrows DEF Inv
  <2>3. merging = 0
    <3>1. merging \in 0..origin /\ origin \in 1..Len(remote) /\ (merging # 0 => head.contains < merging)
      BY DEF Inv, Kept, RepoTyped
    <3> QED  BY <1>6, <2>2, <3>1
  <2>4. head \in [tree : SUBSET Changes, contains : 1..origin, ahead : BOOLEAN]
    BY DEF Inv, Kept, RepoTyped
  <2>5. head'.tree = head.tree /\ head'.contains = origin' /\ head'.ahead = FALSE
    BY <1>6, <2>4
  <2>6. origin' \in 1..origin' /\ origin' \in 1..Len(remote') /\ 0 \in 0..origin'
    BY <1>6, <2>2
  <2>7. head' \in [tree : SUBSET Changes, contains : 1..origin', ahead : BOOLEAN]
    BY <1>6, <2>4, <2>6
  <2>8. RepoTyped'
    BY <1>1, <1>6, <2>2, <2>3, <2>5, <2>6, <2>7 DEF Inv, Kept, RepoTyped
  <2>9. CommittedIsPast'
    BY <1>1, <2>2, <2>5 DEF Inv, Kept, CommittedIsPast
  <2> QED  BY <1>1, <1>3, <1>4, <2>5, <2>8, <2>9 DEF Kept
<1>7. Kept'
  BY <1>5, <1>6 DEF Push
<1>8. NoOp \in Operation /\ NoOp.at = "none" /\ NoOp.kind = "none"
  BY DEF NoOp, Operation, Outcomes
<1>9. OpTyped'
  BY <1>1, <1>8 DEF Inv, OpTyped, Unread
<1>10. Applied => Applied'
  BY <1>1 DEF Applied
<1>11. Phases'
  BY <1>1, <1>3, <1>8, <1>10, Words DEF Inv, Phases
<1> QED  BY <1>7, <1>9, <1>11 DEF Inv

LEMMA DiscardInv ==
  ASSUME Inv, NEW f \in Files, Discard(f)
  PROVE  Inv'
<1>1. /\ tree' = Put(tree, {f}, head.tree) /\ index' = Put(index, {f}, head.tree)
      /\ unmerged' = unmerged \ {f} /\ exposed' = exposed \cup In(saved, f) /\ op = NoOp /\ orphan = "none"
      /\ UNCHANGED <<remote, origin, head, stash, merging, op, poller, noting, orphan, saved, risked, committed>>
  BY DEF Discard
<1>2. /\ tree \in SUBSET Changes /\ index \in SUBSET Changes /\ head.tree \in SUBSET Changes
      /\ head.tree \cap Mine \subseteq committed /\ exposed \subseteq exposed' /\ exposed' \subseteq Mine
  BY <1>1 DEF Inv, Kept, RepoTyped, CommittedIsPast, In
<1>3. /\ tree' \in SUBSET Changes /\ tree' \subseteq tree \cup head.tree
      /\ \A c \in tree : FileOf[c] # f => c \in tree'
      /\ \A c \in tree' : FileOf[c] = f => c \in head.tree
      /\ index' \in SUBSET Changes /\ index' \subseteq index \cup head.tree
  BY <1>1, <1>2 DEF Put
<1>4. Stashed' = Stashed
  BY <1>1 DEF Stashed
<1>5. RepoTyped' /\ CommittedIsPast' /\ FreshIsNew'
  BY <1>1, <1>2, <1>3 DEF Inv, Kept, RepoTyped, CommittedIsPast, FreshIsNew
<1>6. SavedBefore'
  BY <1>1, <1>2, <1>3, <1>4 DEF Inv, Kept, SavedBefore
<1>7. Safe \subseteq Safe' /\ MergeKept'
  <2>1. Safe \subseteq Safe'
    BY <1>1, <1>2, <1>4 DEF Safe
  <2>2. ASSUME merging' # 0 PROVE index' \cap Mine \subseteq Safe'
    BY <1>1, <1>2, <1>3, <2>1, <2>2 DEF Inv, Kept, MergeKept, Safe
  <2>3. ASSUME merging' # 0, NEW c \in tree' \cap Mine, FileOf[c] \in unmerged' PROVE c \in Safe'
    <3>1. FileOf[c] # f /\ FileOf[c] \in unmerged
      BY <1>1, <2>3
    <3>2. c \in tree \/ c \in committed
      BY <1>2, <1>3, <2>3
    <3> QED  BY <1>1, <2>1, <2>3, <3>1, <3>2 DEF Inv, Kept, MergeKept, Safe
  <2> QED  BY <2>1, <2>2, <2>3 DEF MergeKept
<1>8. NothingLost'
  <2>1. \A c \in saved : FileOf[c] = f => c \in exposed'
    BY <1>1 DEF In
  <2> QED  BY <1>1, <1>2, <1>3, <1>4, <2>1 DEF Inv, Kept, NothingLost
<1>9. OpTyped'
  BY <1>1 DEF Inv, OpTyped
<1>10. Phases'
  BY <1>1, QuietPhases DEF NoOp
<1> QED  BY <1>5, <1>6, <1>7, <1>8, <1>9, <1>10 DEF Inv, Kept

\* What leaves the repository and the operation alone.
LEMMA AlonePhases ==
  ASSUME Kept, Phases, UNCHANGED <<repo, op, orphan>>, Local
  PROVE  Kept' /\ Phases'
<1>1. /\ Kept' /\ (Applied => Applied') /\ Safe \subseteq Safe'
      /\ UNCHANGED <<head, tree, index, stash, unmerged, merging, committed, exposed, risked>>
  BY AloneKept DEF Local
<1>2. Changed' = Changed /\ (Applying => Applying') /\ Safe' = Safe
  BY <1>1 DEF Changed, Applying, Safe, Stashed
<1> QED  BY <1>1, <1>2 DEF Phases

\* What the poller and after_publish do leaves the repository and, but for StopPoller, the operation alone.
LEMMA PollerInv ==
  ASSUME Inv, ReadTip \/ NoteTip \/ StartPoller \/ PollerLooks \/ PollerKnows
  PROVE  Inv'
<1>1. UNCHANGED <<remote, origin, repo, op, orphan, past>>
  BY DEF ReadTip, NoteTip, StartPoller, PollerLooks, PollerKnows
<1>2. Kept' /\ Phases'
  BY <1>1, AlonePhases DEF Inv, Local, past
<1>3. Len(remote) \in Nat /\ noting \in Int /\ poller \in Poller
  BY LenProperties DEF Inv, Kept, RepoTyped, OpTyped
<1>4. noting' \in Int /\ poller' \in Poller /\ (poller'.at = "pulling" <=> poller.at = "pulling")
  <2>1. CASE ReadTip
    BY <1>3, <2>1 DEF ReadTip
  <2>2. CASE NoteTip
    <3>1. noting > 0 /\ noting' = Nothing /\ noting \in Nat
      BY <1>3, <2>2 DEF NoteTip
    <3>2. poller' = IF poller = Off THEN Off ELSE [poller EXCEPT !.known = noting]
      BY <2>2 DEF NoteTip
    <3> QED  BY <1>3, <3>1, <3>2 DEF Poller, Off, Nothing
  <2>3. CASE StartPoller
    BY <1>3, <2>3 DEF StartPoller, Poller, Off
  <2>4. CASE PollerLooks
    BY <1>3, <2>4 DEF PollerLooks, Poller
  <2>5. CASE PollerKnows
    BY <1>3, <2>5 DEF PollerKnows, Poller
  <2> QED  BY <2>1, <2>2, <2>3, <2>4, <2>5
<1>5. OpTyped'
  BY <1>1, <1>4 DEF Inv, OpTyped
<1> QED  BY <1>2, <1>5 DEF Inv

LEMMA PollerPullsInv ==
  ASSUME Inv, PollerPulls
  PROVE  Inv'
<1>1. /\ UNCHANGED <<remote, origin, repo, noting, orphan, past>> /\ poller \in Poller
      /\ Begin("poll", "fetch", {}) /\ poller' = [poller EXCEPT !.at = "pulling"]
  BY DEF PollerPulls, Inv, OpTyped
<1>2. /\ Kept' /\ (Applied => Applied') /\ Safe \subseteq Safe'
      /\ UNCHANGED <<head, tree, index, stash, unmerged, merging>>
  BY <1>1, AloneKept DEF Inv, Local, past
<1>3. op' \in Operation /\ op'.at = "fetch" /\ op'.kind = "poll" /\ ~op'.stashed
  BY <1>1, BeginTyped, LenProperties DEF Inv, Kept, RepoTyped
<1>4. poller' \in Poller /\ poller'.at = "pulling"
  BY <1>1 DEF Poller
<1>5. OpTyped'
  BY <1>1, <1>3, <1>4 DEF Inv, OpTyped
<1>6. Phases'
  BY <1>1, <1>2, <1>3, BesidePhases, Words DEF Inv
<1> QED  BY <1>2, <1>5, <1>6 DEF Inv

\* An aborted pull may leave its checkout running, which writes over what is late by then, or its drop, of an
\* entry that has been applied.
LEMMA StopPollerInv ==
  ASSUME Inv, StopPoller
  PROVE  Inv'
<1>1. /\ UNCHANGED <<remote, origin, repo, noting, saved, exposed, committed>> /\ poller' = Off
      /\ Off \in Poller /\ Off.at = "off"
  BY DEF StopPoller, Poller, Off
<1>2. CASE op.kind = "poll"
  <2>1. /\ op' = NoOp /\ NoOp \in Operation /\ NoOp.at = "none" /\ NoOp.kind = "none"
        /\ orphan' = orphan \/ (orphan' \in Commands /\ orphan' = op.at /\ orphan = "none")
        /\ risked' = IF orphan' = "theirs" THEN risked \cup op.late ELSE risked
    BY <1>2 DEF StopPoller, NoOp, Operation, Outcomes
  <2>2. OpTyped'
    BY <1>1, <2>1 DEF Inv, OpTyped
  <2>3. op.late \subseteq Mine /\ risked \subseteq Mine
    BY DEF Inv, OpTyped, Operation, Kept, RepoTyped
  <2>4. /\ Kept' /\ (Applied => Applied') /\ Safe \subseteq Safe'
        /\ UNCHANGED <<head, tree, index, stash, unmerged, merging>>
    <3>1. risked \subseteq risked' /\ risked' \subseteq Mine
      BY <2>1, <2>3
    <3> QED  BY <1>1, <3>1, KeptFrame DEF Inv
  <2>5. orphan' = "theirs" => tree' \cap Mine \subseteq Safe'
    <3>1. CASE orphan' = "theirs" /\ op.at = "theirs"
      <4>1. tree \cap Mine \subseteq Safe \cup op.late /\ op.late \subseteq Safe'
        BY <2>1, <3>1 DEF Inv, Phases, Safe
      <4> QED  BY <2>4, <4>1
    <3>2. CASE orphan = "theirs"
      BY <2>4, <3>2 DEF Inv, Phases
    <3> QED  BY <2>1, <3>1, <3>2
  <2>6. Phases'
    BY <2>1, <2>4, <2>5, Words DEF Inv, Phases
  <2> QED  BY <2>2, <2>4, <2>6 DEF Inv
<1>3. CASE op.kind # "poll"
  <2>1. UNCHANGED <<op, orphan, risked>>
    BY <1>3 DEF StopPoller
  <2>2. Kept' /\ Phases'
    BY <1>1, <2>1, AlonePhases DEF Inv, Local
  <2> QED  BY <1>1, <1>3, <2>1, <2>2 DEF Inv, OpTyped
<1> QED  BY <1>2, <1>3

LEMMA DisturbedTyped ==
  ASSUME op \in Operation
  PROVE  /\ Disturbed \in Operation /\ Disturbed.at = op.at /\ Disturbed.kind = op.kind
         /\ Disturbed.stashed = op.stashed /\ Disturbed.late = op.late /\ (op.at = "none" \/ ~Disturbed.calm)
<1>1. CASE op = NoOp
  BY <1>1 DEF Disturbed, NoOp
<1>2. CASE op # NoOp
  <2>1. Disturbed = [op EXCEPT !.calm = FALSE]
    BY <1>2 DEF Disturbed
  <2> QED  BY <2>1 DEF Operation
<1> QED  BY <1>1, <1>2

LEMMA OrphanInv ==
  ASSUME Inv, OrphanEnds
  PROVE  Inv'
<1>1. /\ orphan # "none" /\ orphan \in Commands /\ orphan' = "none" /\ op' = Disturbed
      /\ UNCHANGED <<remote, origin, poller, noting, saved, exposed, risked, committed>> /\ Local /\ Kept
  BY DEF OrphanEnds, Local, Inv, OpTyped, past
<1>2. PICK ok \in BOOLEAN : Git(orphan, ok)
  BY DEF OrphanEnds
<1>3. Kept'
  <2>1. CASE orphan = "stash"
    BY <1>1, <1>2, <2>1, StashKept DEF Git
  <2>2. CASE orphan = "merge"
    BY <1>1, <1>2, <2>2, MergeKeeps DEF Git
  <2>3. CASE orphan = "abort"
    BY <1>1, <1>2, <2>3, AbortKept DEF Git
  <2>4. CASE orphan \in {"unstash", "pop"}
    <3>1. merging = 0 \/ unmerged # {}
      BY <2>4 DEF Inv, Phases
    <3>2. GitPop(ok)
      BY <1>2, <2>4 DEF Git
    <3> QED  BY <1>1, <3>1, <3>2, PopKept
  <2>5. CASE orphan = "theirs"
    <3>1. merging = 0 /\ tree \cap Mine \subseteq Safe \cup {} /\ GitCheckoutTheirs(ok)
      BY <1>2, <2>5 DEF Inv, Phases, Git
    <3>2. risked \subseteq risked' /\ risked' \subseteq Mine /\ {} \subseteq risked'
      BY <1>1 DEF Kept, RepoTyped
    <3> QED  BY <1>1, <3>1, <3>2, TheirsKept
  <2>6. CASE orphan = "reset"
    BY <1>1, <1>2, <2>6, ResetKept DEF Git
  <2>7. CASE orphan = "drop"
    BY <1>1, <1>2, <2>7, DropKept DEF Git, Inv, Phases
  <2> QED  BY <1>1, <2>1, <2>2, <2>3, <2>4, <2>5, <2>6, <2>7 DEF Commands
<1>4. op' \in Operation /\ op'.at = op.at /\ op'.kind = op.kind /\ op'.stashed = op.stashed
  BY <1>1, DisturbedTyped DEF Inv, OpTyped
<1>5. OpTyped'
  BY <1>1, <1>4 DEF Inv, OpTyped
<1>6. Phases'
  BY <1>1, <1>4 DEF Inv, Phases, Commands
<1> QED  BY <1>3, <1>5, <1>6 DEF Inv

LEMMA SaveInv ==
  ASSUME Inv, NEW c \in Mine, Save(c)
  PROVE  Inv'
<1>1. /\ c \notin saved /\ tree' = tree \cup {c} /\ saved' = saved \cup {c}
      /\ exposed' = IF FileOf[c] \in unmerged THEN exposed \cup {c} ELSE exposed
      /\ risked' = IF orphan = "theirs" THEN risked \cup {c} ELSE risked
      /\ op' = IF op.stashed /\ op.at \in {"merge", "pop", "theirs"} THEN [Disturbed EXCEPT !.late = @ \cup {c}]
               ELSE Disturbed
      /\ UNCHANGED <<remote, origin, head, index, stash, unmerged, merging, poller, noting, orphan, committed>>
  BY DEF Save
<1>2. /\ exposed \subseteq exposed' /\ exposed' \subseteq exposed \cup {c}
      /\ risked \subseteq risked' /\ risked' \subseteq risked \cup {c} /\ c \in Changes
  BY <1>1 DEF Changes
<1>3. Stashed' = Stashed /\ Safe \subseteq Safe'
  BY <1>1, <1>2 DEF Stashed, Safe
<1>4. RepoTyped' /\ CommittedIsPast' /\ FreshIsNew'
  BY <1>1, <1>2 DEF Inv, Kept, RepoTyped, CommittedIsPast, FreshIsNew
<1>5. SavedBefore' /\ NothingLost'
  BY <1>1, <1>2, <1>3 DEF Inv, Kept, SavedBefore, NothingLost
<1>6. MergeKept'
  <2>1. FileOf[c] \in unmerged => c \in Safe'
    BY <1>1 DEF Safe
  <2> QED  BY <1>1, <1>3, <2>1 DEF Inv, Kept, MergeKept
<1>7. /\ op' \in Operation /\ op'.at = op.at /\ op'.kind = op.kind /\ op'.stashed = op.stashed
      /\ op.late \subseteq op'.late
      /\ op.at \in {"merge", "pop", "theirs"} /\ op.stashed => c \in op'.late
  <2>1. /\ Disturbed \in Operation /\ Disturbed.at = op.at /\ Disturbed.kind = op.kind
        /\ Disturbed.stashed = op.stashed /\ Disturbed.late = op.late
    BY DisturbedTyped DEF Inv, OpTyped
  <2>2. CASE op' = Disturbed /\ ~(op.stashed /\ op.at \in {"merge", "pop", "theirs"})
    BY <2>1, <2>2
  <2>3. CASE op' = [Disturbed EXCEPT !.late = @ \cup {c}]
    <3> DEFINE d == Disturbed
    <3> HIDE DEF d
    <3>1. op' = [d EXCEPT !.late = @ \cup {c}] /\ d \in Operation
      BY <2>1, <2>3 DEF d
    <3>2. op' \in Operation /\ op'.at = d.at /\ op'.kind = d.kind /\ op'.stashed = d.stashed /\ op'.late = d.late \cup {c}
      BY <3>1 DEF Operation
    <3> QED  BY <2>1, <3>2 DEF d
  <2> QED  BY <1>1, <2>2, <2>3
<1>8. OpTyped'
  BY <1>1, <1>7 DEF Inv, OpTyped
<1>9. op.at = "stash" => Changed' # {} \/ unmerged' # {}
  <2>1. c \notin head.tree
    BY <1>1 DEF Inv, Kept, CommittedIsPast, SavedBefore
  <2>2. In(tree', FileOf[c]) # In(head.tree, FileOf[c]) /\ FileOf[c] \in Files
    BY <1>1, <1>2, <2>1, FileOfChange DEF In
  <2> QED  BY <1>1, <2>2 DEF Changed, Touched
<1>10. (Applied => Applied') /\ (Applying => Applying')
  BY <1>1, <1>2, <1>7 DEF Applied, Applying
<1>11. orphan' = "theirs" => tree' \cap Mine \subseteq Safe'
  BY <1>1, <1>3 DEF Inv, Phases, Safe
<1>12. op'.at \in {"merge", "pop", "theirs"} /\ op'.stashed => tree' \cap Mine \subseteq Safe' \cup op'.late
  BY <1>1, <1>3, <1>7 DEF Inv, Phases
<1>13. Phases'
  BY <1>1, <1>7, <1>9, <1>10, <1>11, <1>12 DEF Inv, Phases
<1> QED  BY <1>4, <1>5, <1>6, <1>8, <1>13 DEF Inv, Kept

LEMMA TeammateInv ==
  ASSUME Inv, NEW cs \in Pushes, Teammate(cs)
  PROVE  Inv'
<1> DEFINE t == Last(remote) \cup cs
<1>1. /\ remote' = Append(remote, t)
      /\ UNCHANGED <<origin, repo, op, poller, noting, orphan, past>>
      /\ UNCHANGED <<head, tree, index, stash, unmerged, merging, saved, exposed, risked, committed>>
  BY DEF Teammate, repo, past
<1>2. /\ Last(remote) = remote[Len(remote)] /\ Len(remote) \in 1..Len(remote)
      /\ origin \in 1..Len(remote)
  BY LenProperties DEF Last, Inv, Kept, RepoTyped
<1>3. t \in SUBSET Changes /\ t \cap Mine \subseteq committed
  <2>1. Last(remote) \subseteq Changes /\ Last(remote) \cap Mine \subseteq committed
    BY <1>2, ElementOfSeq DEF Inv, Kept, RepoTyped, CommittedIsPast
  <2>2. cs \subseteq Theirs
    BY GitSyncAssumption
  <2> QED  BY <2>1, <2>2, GitSyncAssumption DEF Changes
<1> HIDE DEF t
<1>4. /\ remote' \in Seq(SUBSET Changes) /\ Len(remote') = Len(remote) + 1 /\ Len(remote) \in Nat
      /\ \A n \in 1..Len(remote) : remote'[n] = remote[n]
      /\ \A n \in 1..Len(remote') : remote'[n] \cap Mine \subseteq committed
  BY <1>1, <1>3, RemoteGrows DEF Inv
<1>5. head.contains \in 1..Len(remote) /\ origin \in 1..Len(remote')
  <2>1. head.contains \in 1..origin
    BY DEF Inv, Kept, RepoTyped
  <2> QED  BY <1>2, <1>4, <2>1
<1>6. RepoTyped'
  BY <1>1, <1>4, <1>5 DEF Inv, Kept, RepoTyped
<1>7. CommittedIsPast' /\ FreshIsNew'
  BY <1>1, <1>4 DEF Inv, Kept, CommittedIsPast, FreshIsNew
<1>8. Safe' = Safe /\ SavedBefore' /\ NothingLost'
  BY <1>1 DEF Inv, Kept, SavedBefore, NothingLost, Stashed, Safe
<1>9. MergeKept' /\ Changed' = Changed /\ (Applied => Applied') /\ (Applying => Applying')
  BY <1>1, <1>8 DEF Inv, Kept, MergeKept, Changed, Applied, Applying
<1>10. OpTyped' /\ Phases'
  BY <1>1, <1>8, <1>9 DEF Inv, OpTyped, Phases
<1> QED  BY <1>6, <1>7, <1>8, <1>9, <1>10 DEF Inv, Kept

LEMMA StutterInv ==
  ASSUME Inv, UNCHANGED vars
  PROVE  Inv'
<1>1. Kept' /\ Phases'
  BY AlonePhases DEF Inv, vars, Local, past
<1> QED  BY <1>1 DEF Inv, OpTyped, vars

LEMMA NextInv == Inv /\ [Next]_vars => Inv'
BY RequestInv, FetchInv, StatusInv, CommandInv, ReturnInv, CommitInv, PushInv, PollerInv, PollerPullsInv,
   StopPollerInv, OrphanInv, DiscardInv, SaveInv, TeammateInv, StutterInv DEF Next

LEMMA InvImplies == Inv => TypeOK /\ NothingLost
<1> SUFFICES ASSUME Inv PROVE TypeOK /\ NothingLost
  OBVIOUS
<1>1. poller.at \in {"off", "idle", "waiting", "pulling", "pulled"}
  BY DEF Inv, OpTyped, Poller
<1> QED  BY <1>1 DEF Inv, Kept, RepoTyped, OpTyped, Operation, TypeOK, Entry

\* The variables of the repository and of the operation that holds its lock keep their types, and only a
\* merge of commits made here can stop at a conflict (pull, commit_paths, stop_auto_sync).
THEOREM TypeCorrect == Spec => []TypeOK
<1> QED  BY InitInv, NextInv, InvImplies, PTL DEF Spec

\* A change saved here is in the work tree, in a commit or in the stash, however pulls, publishes, discards,
\* saves, teammates and the end of the poller interleave, and whatever git command fails; unless it was
\* discarded, saved to a file in conflict, stashed or saved where a checkout of the stash wrote over it, or
\* staged into a stopped merge by a commit that git refused (git_sync_ops.rs, pull).
THEOREM NothingLostCorrect == Spec => []NothingLost
<1> QED  BY InitInv, NextInv, InvImplies, PTL DEF Spec

---------------------------------------------------------------------------
(* A pull that nothing disturbed puts back what it stashed, and a publish commits what was saved. *)

\* The stash is as the operation found it; the newest entry is the operation's own, stashed from HEAD.
Level == Len(stash) = op.depth
OnTop == Len(stash) = op.depth + 1 /\ Head(stash).from = head.tree
Clean == tree = head.tree /\ index = head.tree /\ unmerged = {}

\* Where an undisturbed operation is, and what it can still put back from there.
Restorable ==
  /\ orphan = "none"
  /\ op.at \in {"fetch", "status", "stash"} => Level /\ ~op.stashed
  /\ op.at = "merge" => IF op.stashed THEN OnTop /\ Clean ELSE Level
  /\ op.at = "abort" =>
       IF op.stashed THEN OnTop /\ IF merging = 0 THEN Clean ELSE tree = index
                     ELSE Level
  /\ op.at = "unstash" => OnTop /\ Clean
  /\ op.at \in {"pop", "theirs", "reset", "drop"} => Len(stash) = op.depth + 1
  /\ op.at \in {"returned", "commit"} => Level \/ op.said = "restoreFailed"

Calm == op.at # "none" /\ op.calm => Restorable

CommitStep ==
  op.at = "commit" /\ op'.at # "commit" /\ op.calm /\ op.depth = 0 /\ unmerged' = {} /\ index' = head'.tree
    => \A c \in saved \ (exposed \cup risked) :
         FileOf[c] \in op.paths => c \in committed' \/ op.said = "restoreFailed"

\* The tree and the index of a merge that stopped are alike until somebody touches them: git aborts it.
LEMMA AbortNotRefused ==
  ASSUME merging # 0, tree = index
  PROVE  ~AbortRefused
BY AlikeUntouched DEF AbortRefused

\* A stash pops on the clean tree it was stashed from.
LEMMA PopNotRefused ==
  ASSUME Kept, Clean, OnTop, op.depth \in Nat
  PROVE  ~PopRefused /\ PopClash = {} /\ PopInWay = {}
<1> DEFINE top == Head(stash)
<1>1. stash # <<>> /\ top.from = head.tree /\ tree = head.tree /\ index = tree /\ unmerged = {}
  BY EmptySeq DEF OnTop, Clean
<1>2. Touched(index, tree) = {} /\ Touched(top.from, tree) = {}
  BY <1>1, AlikeUntouched
<1>3. ~PopRefused
  BY <1>1, <1>2 DEF PopRefused
<1>4. PopClash = {}
  BY <1>2 DEF PopClash, Clash
<1>5. PopInWay = {}
  <2>1. top = stash[1] /\ 1 \in 1..Len(stash)
    BY <1>1, StashTop DEF Kept, RepoTyped
  <2>2. top.fresh \cap FilesOf(top.from) = {}
    BY <2>1 DEF Kept, FreshIsNew
  <2> QED  BY <1>1, <2>2 DEF PopInWay
<1> QED  BY <1>3, <1>4, <1>5

LEMMA StashMoreTop ==
  ASSUME stash \in Seq(Entry), NEW e \in Entry, stash' = <<e>> \o stash
  PROVE  Len(stash') = Len(stash) + 1 /\ Head(stash') = e
<1> DEFINE q == <<e>>
<1>1. q \in Seq(Entry) /\ Len(q) = 1 /\ q[1] = e /\ stash' = q \o stash
  OBVIOUS
<1> HIDE DEF q
<1>2. /\ stash' \in Seq(Entry) /\ Len(stash') = 1 + Len(stash) /\ Len(stash) \in Nat
      /\ \A n \in 1..Len(stash') : stash'[n] = IF n <= 1 THEN q[n] ELSE stash[n - 1]
  BY <1>1, ConcatProperties, LenProperties
<1>3. 1 \in 1..Len(stash') /\ stash' # <<>>
  BY <1>2, EmptySeq
<1>4. Head(stash') = stash'[1]
  BY <1>2, <1>3, HeadTailProperties
<1> QED  BY <1>1, <1>2, <1>3, <1>4

LEMMA StashOneLess ==
  ASSUME stash \in Seq(Entry), stash # <<>>, stash' = Tail(stash)
  PROVE  Len(stash') = Len(stash) - 1
BY HeadTailProperties

LEMMA CommandCalm ==
  ASSUME Inv, Calm, PullCommand
  PROVE  Calm'
<1> SUFFICES ASSUME op'.calm PROVE Restorable'
  BY DEF Calm
<1>1. /\ orphan = "none" /\ orphan' = "none" /\ UNCHANGED <<remote, origin>> /\ Kept /\ Phases /\ op \in Operation
      /\ stash \in Seq(Entry) /\ op.depth \in Nat /\ Len(stash) \in Nat /\ op.stashed \in BOOLEAN
      /\ UNCHANGED <<saved, exposed, committed>>
  BY LenProperties DEF PullCommand, Inv, Kept, RepoTyped, OpTyped, Operation
<1>2. AbortRefused \in BOOLEAN /\ (PopRefused \/ PopClash # {} \/ PopInWay # {}) \in BOOLEAN /\ (stash = <<>>) \in BOOLEAN
  BY Zenon DEF AbortRefused, PopRefused
<1>3. op.at # "none" /\ op.calm => Restorable
  BY DEF Calm
<1>4. ASSUME On("returned"), Len(stash') = op.depth \/ op'.said = "restoreFailed" PROVE Restorable'
  BY <1>1, <1>4 DEF Restorable, On, Level
<1>5. CASE Stash
  <2>1. PICK ok \in BOOLEAN : GitStash(ok) /\ op' = [op EXCEPT !.at = "merge", !.stashed = ok]
    BY <1>5, Zenon DEF Stash
  <2>2. op.at = "stash" /\ Local
    BY <1>1, <1>5 DEF Stash, Local
  <2>3. op'.at = "merge" /\ op'.stashed = ok /\ op'.depth = op.depth /\ op.calm
    BY <1>1, <2>1 DEF Operation
  <2>4. Level /\ (Changed # {} \/ unmerged # {})
    BY <1>1, <1>3, <2>2, <2>3 DEF Restorable, Phases
  <2>5. CASE ok
    <3> DEFINE e == [tree |-> tree, from |-> head.tree, fresh |-> FilesOf(tree) \ FilesOf(head.tree \cup index)]
    <3>1. stash' = <<e>> \o stash /\ head' = head
      BY <2>1, <2>4, <2>5 DEF GitStash
    <3>2. tree' = head.tree /\ index' = head.tree /\ unmerged' = {}
      BY <1>1, <2>1, <2>2, <2>5, StashKept
    <3>3. e \in Entry /\ e.from = head.tree
      <4>1. tree \subseteq Changes /\ head.tree \subseteq Changes
        BY <1>1 DEF Kept, RepoTyped
      <4>2. FilesOf(tree) \subseteq Files
        BY <4>1, FileOfChange DEF FilesOf
      <4> QED  BY <4>1, <4>2 DEF Entry
    <3> HIDE DEF e
    <3>4. Len(stash') = Len(stash) + 1 /\ Head(stash') = e
      BY <1>1, <3>1, <3>3, StashMoreTop
    <3>5. OnTop' /\ Clean'
      BY <2>3, <2>4, <3>1, <3>2, <3>3, <3>4 DEF OnTop, Clean, Level
    <3> QED  BY <1>1, <2>3, <2>5, <3>5 DEF Restorable
  <2>6. CASE ~ok
    <3>1. stash' = stash
      BY <2>1, <2>6 DEF GitStash, repo
    <3> QED  BY <1>1, <2>3, <2>4, <2>6, <3>1 DEF Restorable, Level
  <2> QED  BY <2>5, <2>6
<1>6. CASE Merge
  <2>1. op.at = "merge" /\ Local
    BY <1>1, <1>6 DEF Merge, Local
  <2>2. ASSUME NEW ok \in BOOLEAN, GitMerge(ok) PROVE stash' = stash
    BY <1>1, <2>1, <2>2, MergeKeeps
  <2>3. op.calm => IF op.stashed THEN OnTop /\ Clean ELSE Level
    BY <1>3, <2>1 DEF Restorable
  <2>4. CASE GitMerge(TRUE) /\ op.stashed /\ Goto("pop")
    <3>1. On("pop")
      BY <1>1, <2>4, GotoOn, Words
    <3> QED  BY <1>1, <2>2, <2>3, <2>4, <3>1 DEF Restorable, OnTop, On
  <2>5. CASE GitMerge(TRUE) /\ ~op.stashed /\ PullReturns("ok")
    <3>1. On("returned")
      BY <1>1, <2>5, ReturnsOn, Words
    <3>2. Len(stash') = op.depth
      BY <2>2, <2>3, <2>5, <3>1 DEF Level, On
    <3> QED  BY <1>4, <3>1, <3>2
  <2>6. CASE GitMerge(FALSE) /\ Goto("abort")
    <3>1. On("abort")
      BY <1>1, <2>6, GotoOn, Words
    <3>2. CASE op.stashed
      <4>1. OnTop /\ Clean /\ merging = 0
        BY <1>1, <2>1, <2>3, <3>1, <3>2 DEF On, Phases
      <4>2. UNCHANGED repo \/ (merging' # 0 /\ tree' = index' /\ head' = head)
        BY <1>1, <2>1, <2>6, <4>1, MergeKeeps DEF Clean
      <4>3. OnTop' /\ IF merging' = 0 THEN Clean' ELSE tree' = index'
        BY <2>2, <2>6, <3>1, <4>1, <4>2 DEF OnTop, Clean, On, repo
      <4> QED  BY <1>1, <3>1, <3>2, <4>3 DEF Restorable, On
    <3>3. CASE ~op.stashed
      BY <1>1, <2>2, <2>3, <2>6, <3>1, <3>3 DEF Restorable, Level, On
    <3> QED  BY <3>2, <3>3
  <2> QED  BY <1>6, <2>4, <2>5, <2>6 DEF Merge
<1>7. CASE MergeFailed
  <2>1. PICK ok \in BOOLEAN : /\ GitMergeAbort(ok)
                              /\ IF op.stashed THEN Ignored("unstash", ok, AbortRefused)
                                 ELSE IgnoredReturns("mergeFailed", ok, AbortRefused)
    BY <1>7 DEF MergeFailed
  <2>2. op.at = "abort" /\ Local
    BY <1>1, <1>7 DEF MergeFailed, Local
  <2>3. /\ stash' = stash /\ (~ok => UNCHANGED repo)
        /\ ok /\ tree = index => tree' = head.tree /\ index' = head.tree /\ unmerged' = {} /\ head' = head
    BY <1>1, <2>1, <2>2, AbortKept
  <2>4. CASE op.stashed
    <3>1. On("unstash") /\ (ok \/ AbortRefused)
      BY <1>1, <1>2, <2>1, <2>4, IgnoredOn, Words
    <3>2. OnTop /\ IF merging = 0 THEN Clean ELSE tree = index
      BY <1>3, <2>2, <2>4, <3>1 DEF Restorable, On
    <3>3. CASE ok
      <4>1. tree = index
        BY <2>1, <3>2, <3>3 DEF GitMergeAbort, AbortRefused
      <4>2. OnTop' /\ Clean'
        BY <2>3, <3>1, <3>2, <3>3, <4>1 DEF OnTop, Clean, On
      <4> QED  BY <1>1, <3>1, <4>2 DEF Restorable, On
    <3>4. CASE ~ok
      <4>1. Clean
        BY <3>1, <3>2, <3>4, AbortNotRefused
      <4>2. OnTop' /\ Clean'
        BY <2>3, <3>1, <3>2, <3>4, <4>1 DEF OnTop, Clean, On, repo
      <4> QED  BY <1>1, <3>1, <4>2 DEF Restorable, On
    <3> QED  BY <3>3, <3>4
  <2>5. CASE ~op.stashed
    <3>1. On("returned")
      BY <1>1, <1>2, <2>1, <2>5, IgnoredReturnsOn, Words
    <3>2. Len(stash') = op.depth
      BY <1>3, <2>2, <2>3, <2>5, <3>1 DEF Restorable, Level, On
    <3> QED  BY <1>4, <3>1, <3>2
  <2> QED  BY <2>4, <2>5
<1>8. CASE Unstash
  <2>1. PICK ok \in BOOLEAN : /\ GitPop(ok)
                              /\ IgnoredReturns("mergeFailed", ok, PopRefused \/ PopClash # {} \/ PopInWay # {})
    BY <1>8 DEF Unstash
  <2>2. op.at = "unstash" /\ (merging = 0 \/ unmerged # {}) /\ Local
    BY <1>1, <1>8 DEF Unstash, Phases, Local
  <2>3. On("returned") /\ (ok \/ PopRefused \/ PopClash # {} \/ PopInWay # {})
    BY <1>1, <1>2, <2>1, IgnoredReturnsOn, Words
  <2>4. OnTop /\ Clean
    BY <1>3, <2>2, <2>3 DEF Restorable, On
  <2>5. ok
    BY <1>1, <2>3, <2>4, PopNotRefused
  <2>6. stash # <<>> /\ stash' = Tail(stash)
    BY <1>1, <2>1, <2>2, <2>5, PopKept
  <2>7. Len(stash') = op.depth
    BY <1>1, <2>4, <2>6, StashOneLess DEF OnTop
  <2> QED  BY <1>4, <2>3, <2>7
<1>9. CASE Pop
  <2>1. /\ op.at = "pop" /\ merging = 0 /\ Local
        /\ op.calm => Len(stash) = op.depth + 1
    BY <1>1, <1>3, <1>9 DEF Pop, Phases, Local, Restorable
  <2>2. CASE GitPop(TRUE) /\ PullReturns("ok")
    <3>1. On("returned")
      BY <1>1, <2>2, ReturnsOn, Words
    <3>2. stash # <<>> /\ stash' = Tail(stash)
      BY <1>1, <2>1, <2>2, PopKept
    <3>3. Len(stash') = op.depth
      BY <1>1, <2>1, <3>1, <3>2, StashOneLess DEF On
    <3> QED  BY <1>4, <3>1, <3>3
  <2>3. CASE /\ GitPop(FALSE)
             /\ op' = [op EXCEPT !.at = "theirs",
                                 !.late = @ \cup {c \in Head(stash).tree \cap Mine : FileOf[c] \in PopInWay}]
    <3>1. stash' = stash
      BY <1>1, <2>1, <2>3, PopKept
    <3>2. op'.at = "theirs" /\ op'.depth = op.depth /\ op.calm
      BY <1>1, <2>3 DEF Operation
    <3> QED  BY <1>1, <2>1, <3>1, <3>2 DEF Restorable
  <2> QED  BY <1>9, <2>2, <2>3 DEF Pop
<1>10. CASE TakeTheirs
  <2>1. op.at = "theirs" /\ stash' = stash
    BY <1>10 DEF TakeTheirs, GitCheckoutTheirs, repo
  <2>2. CASE Goto("reset")
    <3>1. On("reset")
      BY <1>1, <2>2, GotoOn, Words
    <3> QED  BY <1>1, <1>3, <2>1, <3>1 DEF Restorable, On
  <2>3. CASE PullReturns("restoreFailed")
    BY <1>1, <1>4, <2>3, ReturnsOn, Words
  <2> QED  BY <1>10, <2>2, <2>3 DEF TakeTheirs
<1>11. CASE ResetIndex
  <2>1. op.at = "reset" /\ Goto("drop") /\ stash' = stash
    BY <1>11 DEF ResetIndex, GitReset, repo
  <2>2. On("drop")
    BY <1>1, <2>1, GotoOn, Words
  <2> QED  BY <1>1, <1>3, <2>1, <2>2 DEF Restorable, On
<1>12. CASE Drop
  <2>1. PICK ok \in BOOLEAN : GitDrop(ok) /\ IgnoredReturns("ok", ok, stash = <<>>)
    BY <1>12 DEF Drop
  <2>2. op.at = "drop"
    BY <1>12 DEF Drop
  <2>3. On("returned") /\ (ok \/ stash = <<>>)
    BY <1>1, <1>2, <2>1, IgnoredReturnsOn, Words
  <2>4. Len(stash) = op.depth + 1
    BY <1>3, <2>2, <2>3 DEF Restorable, On
  <2>5. stash # <<>>
    BY <1>1, <2>4, EmptySeq
  <2>6. stash' = Tail(stash)
    BY <2>1, <2>3, <2>5 DEF GitDrop
  <2>7. Len(stash') = op.depth
    BY <1>1, <2>4, <2>5, <2>6, StashOneLess
  <2> QED  BY <1>4, <2>3, <2>7
<1> QED  BY <1>5, <1>6, <1>7, <1>8, <1>9, <1>10, <1>11, <1>12 DEF PullCommand

LEMMA FetchCalm ==
  ASSUME Inv, Calm, Fetch
  PROVE  Calm'
<1>1. op.at = "fetch" /\ op \in Operation /\ UNCHANGED <<orphan, stash>>
  BY DEF Fetch, Inv, OpTyped, repo
<1>2. op.calm => orphan = "none" /\ Len(stash) = op.depth /\ ~op.stashed
  BY <1>1 DEF Calm, Restorable, Level
<1>3. CASE Goto("status")
  <2>1. On("status")
    BY <1>1, <1>3, GotoOn, Words
  <2> QED  BY <1>1, <1>2, <2>1 DEF Calm, Restorable, Level, On
<1>4. CASE PullReturns("ok") \/ PullReturns("unreachable")
  <2>1. On("returned")
    BY <1>1, <1>4, ReturnsOn, Words
  <2> QED  BY <1>1, <1>2, <2>1 DEF Calm, Restorable, Level, On
<1> QED  BY <1>3, <1>4 DEF Fetch

LEMMA StatusCalm ==
  ASSUME Inv, Calm, Status
  PROVE  Calm'
<1>1. op.at = "status" /\ op \in Operation /\ UNCHANGED <<orphan, stash>>
  BY DEF Status, Inv, OpTyped, repo
<1>2. op.calm => orphan = "none" /\ Len(stash) = op.depth /\ ~op.stashed
  BY <1>1 DEF Calm, Restorable, Level
<1>3. On("merge") \/ On("stash")
  BY <1>1, GotoOn, Words DEF Status
<1> QED  BY <1>1, <1>2, <1>3 DEF Calm, Restorable, Level, On

LEMMA ReturnCalm ==
  ASSUME Inv, Calm, Return
  PROVE  Calm'
<1>1. op.at = "returned" /\ op \in Operation /\ UNCHANGED <<orphan, stash>>
  BY DEF Return, Inv, OpTyped, repo
<1>2. CASE op' = [op EXCEPT !.at = "commit", !.stashed = FALSE, !.late = {}]
  <2>1. op'.at = "commit" /\ op'.calm = op.calm /\ op'.depth = op.depth /\ op'.said = op.said
    BY <1>1, <1>2 DEF Operation
  <2> QED  BY <1>1, <2>1 DEF Calm, Restorable, Level
<1>3. CASE op' = NoOp
  BY <1>3 DEF Calm, NoOp
<1> QED  BY <1>2, <1>3 DEF Return

\* An operation that begins beside no other git command is undisturbed, whatever it finds in the stash.
LEMMA BeginCalm ==
  ASSUME NEW kind, NEW at \in {"fetch", "push"}, NEW paths, Begin(kind, at, paths), UNCHANGED <<orphan, stash>>
  PROVE  Calm' /\ op.at = "none"
<1>1. /\ op' = [kind |-> kind, at |-> at, paths |-> paths, stashed |-> FALSE, calm |-> orphan = "none",
                depth |-> Len(stash), late |-> {}, said |-> "none"]
      /\ op.at = "none"
  BY DEF Begin, NoOp
<1>2. op'.at = at /\ op'.stashed = FALSE /\ op'.depth = Len(stash) /\ (op'.calm <=> orphan = "none")
  BY <1>1
<1> QED  BY <1>1, <1>2 DEF Calm, Restorable, Level

\* What is saved to the files of a publish is in the work tree it stages, or committed before.
LEMMA CommitCalm ==
  ASSUME Inv, Calm, Commit
  PROVE  Calm' /\ CommitStep
<1> DEFINE staged == Put(index, op.paths, tree)
<1>1. /\ op.at = "commit" /\ orphan = "none" /\ UNCHANGED <<orphan, stash, saved, exposed>>
      /\ op \in Operation /\ index' = staged /\ Kept
  BY DEF Commit, Inv, OpTyped
<1>2. Calm'
  <2>1. CASE Goto("push")
    <3>1. op'.at = "push" /\ op'.calm = op.calm
      BY <1>1, <2>1 DEF Goto, Operation
    <3> QED  BY <1>1, <3>1 DEF Calm, Restorable
  <2>2. CASE op' = NoOp
    BY <2>2 DEF Calm, NoOp
  <2> QED  BY <2>1, <2>2 DEF Commit
<1>3. ASSUME op.calm, op.depth = 0, unmerged' = {}, index' = head'.tree, op.said # "restoreFailed",
             NEW c \in saved \ (exposed \cup risked), FileOf[c] \in op.paths
      PROVE  c \in committed'
  <2>1. Len(stash) = 0
    BY <1>1, <1>3 DEF Calm, Restorable, Level
  <2>2. Stashed = {}
    BY <2>1 DEF Stashed
  <2>3. c \in tree \cup committed /\ c \in Mine
    BY <1>1, <1>3, <2>2 DEF Kept, RepoTyped, NothingLost
  <2>4. c \in tree => c \in staged
    BY <1>3 DEF Put
  <2> HIDE DEF staged
  <2>5. CASE head' = head /\ committed' = committed
    BY <1>1, <1>3, <2>3, <2>4, <2>5 DEF Kept, CommittedIsPast
  <2>6. CASE committed' = committed \cup (staged \cap Mine)
    BY <2>3, <2>4, <2>6
  <2> QED  BY <2>5, <2>6 DEF Commit, staged
<1>4. CommitStep
  BY <1>3 DEF CommitStep
<1> QED  BY <1>2, <1>4

\* What leaves the operation, the stash and the files alone; and what ends, precedes or disturbs an operation.
LEMMA OthersCalm ==
  ASSUME Inv, Calm,
         \/ ReadTip \/ NoteTip \/ StartPoller \/ PollerLooks \/ PollerKnows \/ (\E cs \in Pushes : Teammate(cs))
         \/ Push \/ StopPoller \/ OrphanEnds \/ (\E f \in Files : Discard(f)) \/ (\E c \in Mine : Save(c))
         \/ UNCHANGED vars
  PROVE  Calm' /\ (op.at = "commit" => op'.at = "commit")
<1>1. op \in Operation /\ (op.at = "commit" => op.kind # "poll") /\ NoOp.at = "none"
  BY DEF Inv, OpTyped, NoOp
<1>2. ASSUME UNCHANGED <<op, orphan, head, tree, index, stash, unmerged, merging>> PROVE Calm'
  BY <1>2 DEF Calm, Restorable, Level, OnTop, Clean
<1>3. CASE \/ ReadTip \/ NoteTip \/ StartPoller \/ PollerLooks \/ PollerKnows \/ (\E cs \in Pushes : Teammate(cs))
           \/ UNCHANGED vars
  <2>1. UNCHANGED <<op, orphan, repo>>
    BY <1>3 DEF ReadTip, NoteTip, StartPoller, PollerLooks, PollerKnows, Teammate, vars
  <2> QED  BY <1>2, <2>1 DEF repo
<1>4. CASE Push
  BY <1>1, <1>4 DEF Push, Calm
<1>5. CASE StopPoller
  <2>1. CASE op.kind = "poll"
    BY <1>1, <1>5, <2>1 DEF StopPoller, Calm
  <2>2. CASE op.kind # "poll"
    <3>1. UNCHANGED <<op, orphan, repo>>
      BY <1>5, <2>2 DEF StopPoller
    <3> QED  BY <1>2, <3>1 DEF repo
  <2> QED  BY <2>1, <2>2
<1>6. CASE OrphanEnds \/ \E c \in Mine : Save(c)
  <2>1. Disturbed \in Operation /\ Disturbed.at = op.at /\ (op.at = "none" \/ ~Disturbed.calm)
    BY <1>1, DisturbedTyped
  <2>2. op' = Disturbed \/ \E c \in Mine : op' = [Disturbed EXCEPT !.late = @ \cup {c}]
    BY <1>6 DEF OrphanEnds, Save
  <2> DEFINE d == Disturbed
  <2> HIDE DEF d
  <2>3. d \in Operation /\ (op' = d \/ \E c \in Mine : op' = [d EXCEPT !.late = @ \cup {c}])
    BY <2>1, <2>2 DEF d
  <2>4. op'.at = d.at /\ op'.calm = d.calm
    BY <2>3 DEF Operation
  <2> QED  BY <2>1, <2>4 DEF Calm, d
<1>7. CASE \E f \in Files : Discard(f)
  <2>1. op' = op /\ op.at = "none"
    BY <1>1, <1>7 DEF Discard
  <2> QED  BY <2>1 DEF Calm
<1> QED  BY <1>3, <1>4, <1>5, <1>6, <1>7

LEMMA InitCalm == Init => Calm
BY DEF Init, NoOp, Calm

LEMMA NextCalm == Inv /\ Calm /\ [Next]_vars => Calm' /\ CommitStep
<1> SUFFICES ASSUME Inv, Calm, [Next]_vars PROVE Calm' /\ CommitStep
  OBVIOUS
<1>1. ASSUME Request PROVE Calm' /\ op.at = "none"
  <2>1. PICK request \in Requests :
          Begin(request.kind, IF request.kind = "push" THEN "push" ELSE "fetch", request.paths)
    BY <1>1 DEF Request
  <2>2. UNCHANGED <<orphan, stash>>
    BY <1>1 DEF Request, repo
  <2> QED  BY <2>1, <2>2, BeginCalm
<1>2. ASSUME PollerPulls PROVE Calm' /\ op.at = "none"
  <2>1. Begin("poll", "fetch", {}) /\ UNCHANGED <<orphan, stash>>
    BY <1>2 DEF PollerPulls, repo
  <2> QED  BY <2>1, BeginCalm
<1>3. ASSUME Fetch \/ Status \/ PullCommand \/ Return PROVE op.at # "commit"
  <2>1. \/ op.at = "fetch" \/ op.at = "status" \/ op.at = "returned" \/ op.at = "stash" \/ op.at = "merge"
        \/ op.at = "abort" \/ op.at = "unstash" \/ op.at = "pop" \/ op.at = "theirs" \/ op.at = "reset"
        \/ op.at = "drop"
    BY <1>3, Zenon DEF Fetch, Status, Return, PullCommand, Stash, Merge, MergeFailed, Unstash, Pop, TakeTheirs,
                       ResetIndex, Drop
  <2> QED  BY <2>1
<1>4. op.at # "commit" \/ op'.at = "commit" => CommitStep
  BY DEF CommitStep
<1> QED  BY <1>1, <1>2, <1>3, <1>4, CommandCalm, FetchCalm, StatusCalm, ReturnCalm, CommitCalm, OthersCalm DEF Next

LEMMA CalmImplies == Inv /\ Calm => PullRestores
BY DEF Inv, OpTyped, Calm, Restorable, Level, PullRestores

\* A pull that no save, and no git command an aborted pull left behind, disturbed takes its own entry off the
\* stash again, through a merge that failed and was aborted as well as through one that succeeded, with the
\* poller on or off: the stash is as deep as it was, or the pull says that it could not restore.  So it is
\* unless one of the three commands whose failure pull ignores fails where nothing in the repository made git
\* refuse it (pull, lines 65, 67 and 86 of git_sync_ops.rs).
THEOREM PullRestoresCorrect == Spec => []PullRestores
<1> QED  BY InitInv, InitCalm, NextInv, NextCalm, CalmImplies, PTL DEF Spec

\* A publish that nothing disturbed, as above, and that found the stash empty commits every change saved to its
\* files, also when its pull's merge failed: none is left in the stash, unless the pull said that it could not
\* restore, or git refused the staging or the commit (publish_locked, commit_paths).
THEOREM PublishCommitsCorrect == Spec => PublishCommits
<1>1. Inv /\ Calm /\ [Next]_vars => [CommitStep]_vars
  BY NextCalm
<1> QED  BY InitInv, InitCalm, NextInv, NextCalm, <1>1, PTL DEF Spec, PublishCommits, CommitStep

===========================
