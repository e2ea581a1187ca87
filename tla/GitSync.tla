------------------------------ MODULE GitSync ------------------------------
(***************************************************************************)
(* A workspace's repository and its remote: pull with a stash around the   *)
(* merge, publish, push, and the poller that pulls by itself               *)
(* (crates/engine/src/gitops).                                             *)
(*                                                                         *)
(* A tree is the set of changes its files show; each change is of one      *)
(* file, and a file is there once it has a change.  A commit of the        *)
(* remote's branch is its place in `remote`.  One action is one git        *)
(* command, which may always fail of its own accord and then changes       *)
(* nothing: entities are saved between them without the workspace's lock,  *)
(* teammates push, and stopping the poller aborts its pull while the git   *)
(* process already started runs on.                                        *)
(***************************************************************************)
EXTENDS Integers, Sequences, FiniteSets, SequencesExt

CONSTANTS
  Files,
  Mine, Theirs,  \* the changes saved here, and those teammates push
  Seeds,         \* the changes the remote's branch starts with
  FileOf,        \* for each change, its file
  Pushes,        \* what teammates push, each a commit
  Requests,      \* what clients ask for: a pull, a push, a publish of some files or a sync of all
  MaxStash,      \* bound of the model: stash entries
  MaxRemote      \* bound of the model: commits of the remote's branch

ASSUME GitSyncAssumption ==
  /\ Mine \cap Theirs = {} /\ Seeds \subseteq Theirs
  /\ FileOf \in [Mine \cup Theirs -> Files]
  /\ Pushes \subseteq SUBSET Theirs
  /\ Requests \subseteq [kind : {"pull", "push", "publish", "sync"}, paths : SUBSET Files]

VARIABLES
  remote,    \* the remote's branch: the tree of each commit
  origin,    \* the commit of the remote the last fetch or push saw
  head,      \* HEAD: its tree, the commit of the remote it contains, whether it has commits of its own
  tree,      \* the work tree
  index,     \* the index; a file is tracked when it is in it
  stash,     \* the stash, the newest first: the tree stashed, the HEAD it was stashed from, its untracked files
  unmerged,  \* the files with a conflict in the index
  merging,   \* the commit of the remote a stopped merge was bringing in, 0 when there is none
  op,        \* the operation that holds the workspace's lock
  poller,    \* where the poller is, the tip it saw and the tip it knows; "off" when there is none
  noting,    \* after a publish: the remote's tip to note, Unread, or Nothing
  orphan,    \* the git command an aborted pull left running
  saved,     \* history: the changes saved here
  exposed,   \* history: those discarded, or saved to a file while it was in conflict
  risked,    \* history: those a pull's checkout may have written over, or a publish staged into a stopped merge
  committed  \* history: those committed here

repo == <<head, tree, index, stash, unmerged, merging>>
past == <<saved, exposed, risked, committed>>
vars == <<remote, origin, repo, op, poller, noting, orphan, past>>

NoOp == [kind |-> "none", at |-> "none", paths |-> {}, stashed |-> FALSE, calm |-> TRUE, depth |-> 0,
         late |-> {}, said |-> "none"]
Publishing == {"publish", "sync"}
Nothing == -1
Unread  == 0
Off  == [at |-> "off", tip |-> 0, known |-> 0]

Init ==
  /\ remote = <<Seeds>> /\ origin = 1
  /\ head = [tree |-> Seeds, contains |-> 1, ahead |-> FALSE]
  /\ tree = Seeds /\ index = Seeds /\ stash = <<>> /\ unmerged = {} /\ merging = 0
  /\ op = NoOp /\ poller = Off /\ noting = Nothing /\ orphan = "none"
  /\ saved = {} /\ exposed = {} /\ risked = {} /\ committed = {}

---------------------------------------------------------------------------
(* git: what the commands the engine runs do.  `ok` is whether the command succeeds. *)

FilesOf(t) == {FileOf[c] : c \in t}
In(t, f) == {c \in t : FileOf[c] = f}
Touched(s, t) == {f \in Files : In(s, f) # In(t, f)}

\* The tree t, with the files fs as they are in u.
Put(t, fs, u) == {c \in t : FileOf[c] \notin fs} \cup {c \in u : FileOf[c] \in fs}

\* A three-way merge takes what each side added and drops what either removed.
Merge3(base, ours, theirs) == (ours \cap theirs) \cup (ours \ base) \cup (theirs \ base)

\* Files both sides changed differently may conflict.
Clash(base, ours, theirs) == Touched(base, ours) \cap Touched(base, theirs) \cap Touched(ours, theirs)

\* The files that are not as in HEAD; what git status lists, with those in conflict.
Changed == Touched(head.tree, tree) \cup Touched(head.tree, index)

\* stash push: refused while files are in conflict; the reset it ends with forgets a merge that had stopped.
GitStash(ok) ==
  \/ ~ok /\ UNCHANGED repo
  \/ ok /\ unmerged = {} /\ Changed = {} /\ UNCHANGED repo
  \/ /\ ok /\ unmerged = {} /\ Changed # {} /\ Len(stash) < MaxStash
     /\ stash' = <<[tree |-> tree, from |-> head.tree, fresh |-> FilesOf(tree) \ FilesOf(head.tree \cup index)]>> \o stash
     /\ tree' = head.tree /\ index' = head.tree /\ merging' = 0
     /\ UNCHANGED <<head, unmerged>>

\* merge: refused while files are in conflict, a merge has stopped, or a change here is in its way; otherwise
\* it may stop at a conflict.
GitMerge(ok) ==
  LET theirs == remote[origin]
      base == remote[head.contains]
      merged == IF head.ahead THEN Merge3(base, head.tree, theirs) ELSE theirs
      clash == IF head.ahead THEN Clash(base, head.tree, theirs) ELSE {}
      refused == \/ unmerged # {} \/ merging # 0
                 \/ Touched(head.tree, merged) \cap Changed # {}
                 \/ head.ahead /\ index # head.tree
  IN \/ ~ok /\ UNCHANGED repo
     \/ ok /\ unmerged = {} /\ merging = 0 /\ origin = head.contains /\ UNCHANGED repo
     \/ /\ ~refused /\ origin # head.contains
        /\ \E stop \in SUBSET (clash \ Changed) :
             /\ ok = (stop = {})
             /\ unmerged' = stop /\ merging' = IF ok THEN 0 ELSE origin
             /\ head' = IF ok THEN [head EXCEPT !.tree = merged, !.contains = origin] ELSE head
             /\ tree' = Merge3(head.tree, tree, merged) /\ index' = Merge3(head.tree, index, merged)
             /\ UNCHANGED stash

\* merge --abort: refused when a file the merge brought in has been changed since.
Brought == Touched(head.tree, index) \ unmerged
AbortRefused == merging = 0 \/ Brought \cap Touched(index, tree) # {}

GitMergeAbort(ok) ==
  \/ ~ok /\ UNCHANGED repo
  \/ /\ ok /\ ~AbortRefused
     /\ tree' = Put(tree, Brought \cup unmerged, head.tree) /\ index' = head.tree
     /\ unmerged' = {} /\ merging' = 0
     /\ UNCHANGED <<head, stash>>

\* stash pop: refused while a tracked file it would write is changed here.  An untracked one that is here by now
\* stays as it is.  A pop that leaves conflicts, or a file out, keeps its entry.
PopRefused ==
  LET top == Head(stash)
  IN \/ stash = <<>> \/ unmerged # {}
     \/ (Touched(top.from, top.tree) \ top.fresh) \cap Touched(index, tree) # {}
PopInWay == Head(stash).fresh \cap FilesOf(tree)
PopClash == Clash(Head(stash).from, tree, Head(stash).tree) \ Head(stash).fresh

GitPop(ok) ==
  LET top == Head(stash)
      new == FilesOf(top.tree) \ (FilesOf(top.from) \cup top.fresh)
  IN \/ ~ok /\ UNCHANGED repo
     \/ /\ ~PopRefused
        /\ \E stop \in SUBSET PopClash :
             /\ ok => stop = {} /\ PopInWay = {}
             /\ unmerged' = stop
             /\ tree' = Put(Merge3(top.from, tree, top.tree), PopInWay, tree)
             /\ index' = Put(index, IF stop = {} THEN new ELSE Files \ top.fresh, Merge3(top.from, index, top.tree))
             /\ stash' = IF ok THEN Tail(stash) ELSE stash
             /\ UNCHANGED <<head, merging>>

\* checkout --theirs -- . : the files in conflict as they were stashed, every other tracked file as in the index.
GitCheckoutTheirs(ok) ==
  \/ ~ok /\ UNCHANGED repo
  \/ /\ ok /\ stash # <<>>
     /\ tree' = Put(Put(tree, FilesOf(index), index), unmerged, Head(stash).tree)
     /\ UNCHANGED <<head, index, stash, unmerged, merging>>

GitReset(ok) ==
  \/ ~ok /\ UNCHANGED repo
  \/ ok /\ index' = head.tree /\ unmerged' = {} /\ merging' = 0 /\ UNCHANGED <<head, tree, stash>>

GitDrop(ok) ==
  \/ ~ok /\ UNCHANGED repo
  \/ /\ ok /\ stash # <<>> /\ stash' = Tail(stash)
     /\ UNCHANGED <<head, tree, index, unmerged, merging>>

Git(command, ok) ==
  CASE command = "stash"  -> GitStash(ok)
    [] command = "merge"  -> GitMerge(ok)
    [] command = "abort"  -> GitMergeAbort(ok)
    [] command \in {"unstash", "pop"} -> GitPop(ok)
    [] command = "theirs" -> GitCheckoutTheirs(ok)
    [] command = "reset"  -> GitReset(ok)
    [] command = "drop"   -> GitDrop(ok)

Commands == {"stash", "merge", "abort", "unstash", "pop", "theirs", "reset", "drop"}

---------------------------------------------------------------------------
(* An operation takes the workspace's lock. *)

Begin(kind, at, paths) ==
  /\ op = NoOp
  /\ op' = [NoOp EXCEPT !.kind = kind, !.at = at, !.paths = paths, !.calm = (orphan = "none"), !.depth = Len(stash)]

Goto(at) == op' = [op EXCEPT !.at = at]

\* pull returns what it says.
PullReturns(outcome) == op' = [op EXCEPT !.at = "returned", !.said = outcome]

\* A command whose result pull ignores: it is not calm that git failed where it had no reason to refuse.
Ignored(at, ok, refused) == op' = [op EXCEPT !.at = at, !.calm = @ /\ (ok \/ refused)]
IgnoredReturns(outcome, ok, refused) ==
  op' = [op EXCEPT !.at = "returned", !.said = outcome, !.calm = @ /\ (ok \/ refused)]

\* fetch; a HEAD that is already the remote's is left alone, and so is one that rev-parse cannot read.
Fetch ==
  /\ op.at = "fetch"
  /\ \/ origin' = Len(remote) /\ PullReturns("ok")
     \/ origin' = Len(remote) /\ (head.contains # origin' \/ head.ahead) /\ Goto("status")
     \/ PullReturns("unreachable") /\ UNCHANGED origin
  /\ UNCHANGED <<remote, repo, poller, noting, orphan, past>>

\* A process an aborted pull left behind is over by the time a later operation has fetched.  A status that
\* cannot be read stashes nothing.
Status ==
  /\ op.at = "status" /\ orphan = "none"
  /\ \/ Goto("merge")
     \/ Changed \cup unmerged # {} /\ Goto("stash")
  /\ UNCHANGED <<remote, origin, repo, poller, noting, orphan, past>>

Stash ==
  /\ op.at = "stash"
  /\ \E ok \in BOOLEAN : GitStash(ok) /\ op' = [op EXCEPT !.at = "merge", !.stashed = ok]
  /\ UNCHANGED risked

Merge ==
  /\ op.at = "merge"
  /\ \/ GitMerge(TRUE) /\ IF op.stashed THEN Goto("pop") ELSE PullReturns("ok")
     \/ GitMerge(FALSE) /\ Goto("abort")
  /\ UNCHANGED risked

MergeFailedForgets ==   \* mutant: a merge that fails leaves the stash where it is
  /\ op.at = "abort"
  /\ \E ok \in BOOLEAN : GitMergeAbort(ok) /\ IgnoredReturns("mergeFailed", ok, AbortRefused)
  /\ UNCHANGED risked

MergeFailed ==
  /\ op.at = "abort"
  /\ \E ok \in BOOLEAN :
       /\ GitMergeAbort(ok)
       /\ IF op.stashed THEN Ignored("unstash", ok, AbortRefused)
                        ELSE IgnoredReturns("mergeFailed", ok, AbortRefused)
  /\ UNCHANGED risked

Unstash ==
  /\ op.at = "unstash"
  /\ \E ok \in BOOLEAN :
       /\ GitPop(ok)
       /\ IgnoredReturns("mergeFailed", ok, PopRefused \/ PopClash # {} \/ PopInWay # {})
  /\ UNCHANGED risked

\* An untracked file the pop has to leave out is in no tree when the entry is dropped after all.
Pop ==
  /\ op.at = "pop"
  /\ \/ GitPop(TRUE) /\ PullReturns("ok")
     \/ /\ GitPop(FALSE)
        /\ op' = [op EXCEPT !.at = "theirs", !.late = @ \cup {c \in Head(stash).tree \cap Mine : FileOf[c] \in PopInWay}]
  /\ UNCHANGED risked

TakeTheirsAlways ==   \* mutant: a pop that applied nothing is taken for one that left conflicts
  /\ op.at = "theirs"
  /\ \/ GitCheckoutTheirs(TRUE) /\ Goto("reset") /\ risked' = risked \cup op.late
     \/ GitCheckoutTheirs(FALSE) /\ PullReturns("restoreFailed") /\ UNCHANGED risked

\* What was changed here stays on top, when the pop did apply; otherwise the stash keeps it.  A file saved since
\* the stash is written over.
TakeTheirs ==
  /\ op.at = "theirs"
  /\ \/ unmerged # {} /\ GitCheckoutTheirs(TRUE) /\ Goto("reset") /\ risked' = risked \cup op.late
     \/ GitCheckoutTheirs(FALSE) /\ PullReturns("restoreFailed") /\ UNCHANGED risked

ResetIndex ==
  /\ op.at = "reset"
  /\ \E ok \in BOOLEAN : GitReset(ok)
  /\ Goto("drop") /\ UNCHANGED risked

Drop ==
  /\ op.at = "drop"
  /\ \E ok \in BOOLEAN : GitDrop(ok) /\ IgnoredReturns("ok", ok, stash = <<>>)
  /\ UNCHANGED risked

PullCommand ==
  /\ orphan = "none"
  /\ Stash \/ Merge \/ MergeFailed \/ Unstash \/ Pop \/ TakeTheirs \/ ResetIndex \/ Drop
  /\ UNCHANGED <<remote, origin, poller, noting, orphan, saved, exposed, committed>>

\* perform_git_pull returns; a publish goes on whatever it returned.
Return ==
  /\ op.at = "returned"
  /\ IF op.kind \in Publishing THEN op' = [op EXCEPT !.at = "commit", !.stashed = FALSE, !.late = {}] ELSE op' = NoOp
  /\ poller' = IF op.kind # "poll" THEN poller
               ELSE IF op.said = "ok" THEN [poller EXCEPT !.at = "pulled"]
               ELSE [poller EXCEPT !.at = "idle", !.tip = 0]
  /\ UNCHANGED <<remote, origin, repo, noting, orphan, past>>

\* The rest of a publish: commit_paths stages the files and commits the whole index, which git may refuse.
\* Then a push, which a publish of named files leaves out when nothing was committed.  A sync of the whole
\* workspace is a publish of all its files, in commits of their own.
Commit ==
  LET staged == Put(index, op.paths, tree)
      left == unmerged \ op.paths
  IN /\ op.at = "commit" /\ orphan = "none"
     /\ index' = staged /\ unmerged' = left
     /\ \/ /\ left = {} /\ staged # head.tree
           /\ head' = [tree |-> staged, contains |-> IF merging # 0 THEN merging ELSE head.contains, ahead |-> TRUE]
           /\ merging' = 0
           /\ committed' = committed \cup (staged \cap Mine)
           /\ Goto("push") /\ UNCHANGED <<noting, risked>>
        \/ /\ IF op.kind = "sync" THEN Goto("push") /\ UNCHANGED noting ELSE op' = NoOp /\ noting' = Unread
           /\ risked' = IF merging # 0 THEN risked \cup (staged \cap Mine) ELSE risked
           /\ UNCHANGED <<head, merging, committed>>
     /\ UNCHANGED <<remote, origin, tree, stash, poller, orphan, saved, exposed>>

\* push: refused when the remote has moved on.
Push ==
  /\ op.at = "push"
  /\ \/ /\ head.contains = Len(remote) /\ Len(remote) < MaxRemote /\ head.ahead
        /\ remote' = Append(remote, head.tree)
        /\ origin' = Len(remote')
        /\ head' = [head EXCEPT !.contains = origin', !.ahead = FALSE]
     \/ UNCHANGED <<remote, origin, head>>
  /\ op' = NoOp
  /\ noting' = IF op.kind \in Publishing THEN Unread ELSE noting
  /\ UNCHANGED <<tree, index, stash, unmerged, merging, poller, orphan, past>>

---------------------------------------------------------------------------
(* What starts operations, and what happens beside them. *)

Disturbed == IF op = NoOp THEN op ELSE [op EXCEPT !.calm = FALSE]

Request ==
  /\ \E request \in Requests :
       /\ request.kind \in Publishing => noting = Nothing
       /\ Begin(request.kind, IF request.kind = "push" THEN "push" ELSE "fetch", request.paths)
  /\ UNCHANGED <<remote, origin, repo, poller, noting, orphan, past>>

\* discard_changes: the file is what HEAD has again; one that git does not know is removed.
Discard(f) ==
  /\ op = NoOp /\ orphan = "none"
  /\ f \in Changed \cup unmerged
  /\ f \in FilesOf(head.tree) \/ f \notin FilesOf(index)
  /\ tree' = Put(tree, {f}, head.tree) /\ index' = Put(index, {f}, head.tree) /\ unmerged' = unmerged \ {f}
  /\ exposed' = exposed \cup In(saved, f)
  /\ UNCHANGED <<remote, origin, head, stash, merging, op, poller, noting, orphan, saved, risked, committed>>

\* after_publish: the remote's tip is read, and then noted for the poller if there is one.
ReadTip ==
  /\ noting = Unread
  /\ noting' = Len(remote)
  /\ UNCHANGED <<remote, origin, repo, op, poller, orphan, past>>

NoteTip ==
  /\ noting > 0
  /\ poller' = IF poller = Off THEN Off ELSE [poller EXCEPT !.known = noting]
  /\ noting' = Nothing
  /\ UNCHANGED <<remote, origin, repo, op, orphan, past>>

StartPoller ==
  /\ poller = Off
  /\ poller' = [at |-> "idle", tip |-> 0, known |-> 0]
  /\ UNCHANGED <<remote, origin, repo, op, noting, orphan, past>>

PollerLooks ==
  /\ poller.at = "idle" /\ poller.known # Len(remote)
  /\ poller' = [poller EXCEPT !.at = "waiting", !.tip = Len(remote)]
  /\ UNCHANGED <<remote, origin, repo, op, noting, orphan, past>>

PollerPulls ==
  /\ poller.at = "waiting" /\ Begin("poll", "fetch", {})
  /\ poller' = [poller EXCEPT !.at = "pulling"]
  /\ UNCHANGED <<remote, origin, repo, noting, orphan, past>>

PollerKnows ==
  /\ poller.at = "pulled"
  /\ poller' = [poller EXCEPT !.at = "idle", !.tip = 0, !.known = poller.tip]
  /\ UNCHANGED <<remote, origin, repo, op, noting, orphan, past>>

StopPollerOnly ==   \* mutant: the aborted pull does not give the workspace's lock back
  /\ poller # Off
  /\ poller' = Off
  /\ UNCHANGED <<remote, origin, repo, op, noting, orphan, past>>

\* stop_auto_sync: the task is aborted wherever it waits; the git process it waits for may run on.
StopPoller ==
  /\ poller # Off
  /\ poller' = Off
  /\ IF op.kind = "poll"
     THEN /\ op' = NoOp
          /\ orphan' \in {orphan} \cup (IF orphan = "none" THEN Commands \cap {op.at} ELSE {})
          /\ risked' = IF orphan' = "theirs" THEN risked \cup op.late ELSE risked
     ELSE UNCHANGED <<op, orphan, risked>>
  /\ UNCHANGED <<remote, origin, repo, noting, saved, exposed, committed>>

OrphanEnds ==
  /\ orphan # "none"
  /\ \E ok \in BOOLEAN : Git(orphan, ok)
  /\ orphan' = "none" /\ op' = Disturbed
  /\ UNCHANGED <<remote, origin, poller, noting, past>>

\* An entity is saved here, without the workspace's lock.
Save(c) ==
  /\ c \in Mine \ saved
  /\ tree' = tree \cup {c} /\ saved' = saved \cup {c}
  /\ exposed' = IF FileOf[c] \in unmerged THEN exposed \cup {c} ELSE exposed
  /\ risked' = IF orphan = "theirs" THEN risked \cup {c} ELSE risked
  /\ op' = IF op.stashed /\ op.at \in {"merge", "pop", "theirs"} THEN [Disturbed EXCEPT !.late = @ \cup {c}]
           ELSE Disturbed
  /\ UNCHANGED <<remote, origin, head, index, stash, unmerged, merging, poller, noting, orphan, committed>>

\* A teammate pushes on top of the remote's branch.
Teammate(cs) ==
  /\ Len(remote) < MaxRemote
  /\ \A n \in 1..Len(remote) : cs \cap remote[n] = {}
  /\ remote' = Append(remote, Last(remote) \cup cs)
  /\ UNCHANGED <<origin, repo, op, poller, noting, orphan, past>>

Next ==
  \/ Request \/ Fetch \/ Status \/ PullCommand \/ Return \/ Commit \/ Push
  \/ ReadTip \/ NoteTip
  \/ StartPoller \/ PollerLooks \/ PollerPulls \/ PollerKnows \/ StopPoller \/ OrphanEnds
  \/ \E f \in Files : Discard(f)
  \/ \E c \in Mine : Save(c)
  \/ \E cs \in Pushes : Teammate(cs)

Spec == Init /\ [][Next]_vars

---------------------------------------------------------------------------
(* What must hold. *)

PullSteps == {"fetch", "status", "returned"} \cup Commands
Outcomes  == {"none", "ok", "unreachable", "mergeFailed", "restoreFailed"}
Changes   == Mine \cup Theirs

\* The variables have their types; only a merge of commits made here can stop at a conflict.
TypeOK ==
  /\ remote \in Seq(SUBSET Changes) /\ origin \in 1..Len(remote)
  /\ head \in [tree : SUBSET Changes, contains : 1..origin, ahead : BOOLEAN]
  /\ head.ahead \/ head.tree = remote[head.contains]
  /\ tree \subseteq Changes /\ index \subseteq Changes
  /\ stash \in Seq([tree : SUBSET Changes, from : SUBSET Changes, fresh : SUBSET Files])
  /\ unmerged \subseteq Files
  /\ merging \in 0..origin /\ (merging # 0 => head.ahead /\ head.contains < merging)
  /\ op \in [kind : {"none", "pull", "poll", "publish", "sync", "push"},
             at : {"none", "commit", "push"} \cup PullSteps, paths : SUBSET Files,
             stashed : BOOLEAN, calm : BOOLEAN, depth : Nat, late : SUBSET Mine, said : Outcomes]
  /\ noting \in Int
  /\ poller.at \in {"off", "idle", "waiting", "pulling", "pulled"}
  /\ (op.kind = "poll") = (poller.at = "pulling")
  /\ orphan \in {"none"} \cup Commands
  /\ saved \cup exposed \cup risked \cup committed \subseteq Mine

Stashed == UNION {stash[n].tree : n \in 1..Len(stash)}

\* A change saved here is in the work tree, in a commit or in the stash, whatever git command fails, and whatever
\* is pulled, published, aborted or saved meanwhile.  The exceptions are those of `exposed` and `risked`: what is
\* discarded; what is saved to a file in conflict; and, when a pull's pop leaves conflicts, so that it checks
\* out and drops its entry, what was saved since it stashed, and the stashed version of a new file that the
\* pop found another in place of; and what a refused publish has staged while a merge had stopped.
NothingLost == saved \ (exposed \cup risked) \subseteq tree \cup committed \cup Stashed

\* A pull that no save and no git process left behind disturbed, with a poller or without, through a merge
\* that failed as well as one that succeeded, leaves the stash as deep as it was, or says that it could not.
\* That is unless git failed, for no reason the repository gave it, at one of the three commands whose
\* failure pull ignores.
PullRestores == op.at = "returned" /\ op.calm => Len(stash) = op.depth \/ op.said = "restoreFailed"

\* git_sync_ops.rs:27-28: "setting local changes aside (stashed, then restored on top) around the merge".
\* The same of every undisturbed pull, also when git fails where pull ignores it: not so.
StashIsTold == op.at = "returned" /\ op.kind # "none" => Len(stash) = op.depth \/ op.said = "restoreFailed"

\* A publish that nothing disturbed, that found no stash, and whose staging and commit git did not refuse has
\* committed all that was saved to its files, also when its pull's merge failed, unless the pull said that it
\* could not restore.  `calm` leaves out what PullRestores leaves out: a failure pull ignores can keep changes
\* in the stash, and then they are not in the commit.
PublishCommits ==
  [][op.at = "commit" /\ op'.at # "commit" /\ op.calm /\ op.depth = 0 /\ unmerged' = {} /\ index' = head'.tree
       => \A c \in saved \ (exposed \cup risked) :
            FileOf[c] \in op.paths => c \in committed' \/ op.said = "restoreFailed"]_vars

\* git_sync_ops.rs:73-74: "What was changed here stays on top (in the pop, "theirs" is the stash), as a
\* difference from the new `HEAD`".  NothingLost without the exceptions that are not the user's doing: not so.
ChangesStay == saved \ exposed \subseteq tree \cup committed \cup Stashed

===========================
