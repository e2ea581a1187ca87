# bifurc: a verification project

bifurc is a workbench for APIs: one background **engine** owns the workspaces, the traffic and the
secrets, and a desktop app, a command line, an MCP server and a browser extension are its clients. This
directory models the engine's concurrent core in TLA+, checks it with TLC on small instances and proves
theorems about it with TLAPS. All paths below are under `src/crates/` unless they say otherwise.

Contents: [the system](#1-the-system), [modules](#2-the-modules-and-the-code),
[runs](#3-what-the-runs-check), [findings](#4-where-the-code-and-its-words-differ),
[proofs](#5-what-is-proved), [not modelled](#6-what-is-not-modelled), [plan](#7-plan),
[how to run](#8-running-it).

## 1. The system

Clients find the engine through `runtime.json` in the data directory, connect to its socket, say
`hello`, send requests and receive responses and pushed events, all as length-prefixed JSON frames. The
engine runs on a multi-threaded tokio runtime (`engine/src/main.rs:66`): commands are tasks, and modules
share state behind short mutexes that are never held across an `await`. Workspaces are plain files in a
git repository.

### Inventory

| Component | State | Operations | What makes it correct |
|---|---|---|---|
| Event log (`engine/src/transport/event_log.rs`) | history, number of the newest event, names retained, subscribers | the bus listener, `subscribe`, `unsubscribe`, `replay_from`, `close` | the history is a gapless tail; a replay is exact or refused; callbacks outside the lock neither repeat nor miss |
| Event pump (`transport/event_pump.rs`) | waiting batch, its number, generation, timer flag, closed | `push`, the timer tasks, `close` | nothing accepted is lost, repeated or stranded; a frame's number fits its content |
| Session (`transport/session.rs`), serving loop (`transport/socket.rs`) | identity, subscription counters, resume point | `handshake`, `subscribe`, `unsubscribe`, command dispatch, `close` | its table and the log agree, also after partial failure and close; what is due arrives |
| Client connection (`engine-client/src/connection.rs`) | `closed`, waiting calls, subscriptions | `call`, `subscribe`, the reader thread, `fail_everything` | every call ends; a feed is whole and ends once |
| Policy approvals (`engine/src/workspace/policy/approvals.rs`) | queue, decided items, passes | `hold`, `hold_now`, `decide`, `approvals.list`, sweeping | one approval lets one call on, and is not lost; a decision is final |
| WebSockets (`engine/src/websocket/registry.rs`) over the stream registry (`engine/src/kernel/streams.rs`; SSE, Socket.IO, gRPC and MCP keep one too) | entries with a generation, a channel to their task, logs | connect, disconnect, send, the connection's task, eviction | a live entry has its task; a superseded task changes nothing; the limit holds but for races; nothing is sent after a close |
| Git sync (`engine/src/gitops/`) | a lock per workspace, pollers, sync state, the repository and its stash | pull, push, publish, sync of all, discard, auto-sync, index-lock retry | local changes survive every outcome of a pull; a publish commits what was saved; what the poller skips has been pulled |
| Settings (`engine/src/workspace/settings.rs`) | `app.json` | load, save, and read-change-write in some twenty commands | no change is lost; an unreadable file is not replaced by defaults |
| Claims (`workspace/claims.rs`) | a holder per entity, with a term | take, guard, release, prune, release of an ended session | one holder; an ended session holds nothing |
| Blob store (`workspace/blob/`) | directories with a lease | put, read, release, staging, sweep | a leased blob is not swept; an expired one is, once |
| Capture store (`engine/src/capture/store.rs`) | entries, pins, pause, limit, pending writes and their timers | record, messages, pin, remove, clear, pause, refresh of the limit, debounced write, flush | every change is written or will be; memory keeps within the limit |
| Vault (`engine/src/vault/`) | open vaults, failed attempts | unseal, seal, update, throttle | a sealed vault yields nothing; the throttle counts every failure |
| Engine lifecycle, discovery (`engine/src/runtime/`, `client/`, `engine-client/src/sidecar.rs`) | `runtime.json`, the socket file, processes | start, stop, restart, find, attach or start, reconnect | one engine per data directory; nobody removes another's files; a client that can attach does |
| Flows, runner (`engine/src/flows/`, `runner/`) | runs, tokens, live connections | start, deliver, cancel, deadline, progress | a run ends once and closes what it opened |
| Proxy, edge, mocks, mail, services, tunnels | listeners, rules, child processes | start, stop, forward, match | listeners follow the settings; owned servers end with their session |
| Import, export, analysis, REST, scripting, certificates, cookies | files, jars | conversions and requests | data in, data out |
| App, tray, CLI, MCP server | views of the engine | calls and events | they show what the engine says |

### How the parts interact

A module announces a change on the engine's bus (`kernel/bus.rs`). The event log listens to the bus: it
numbers the event under its lock, copies the subscribers' callbacks, releases the lock and calls them.
Each callback belongs to a session and pushes into that session's pump, which sends most events at once
and gathers traffic entries into batches, 250 ms or 100 entries long. The pump hands frames to an
unbounded channel; the session's serving loop takes them from there and writes them to the socket. On the
other end the client's reader thread gives each event to every subscription and each response to the call
that waits for it. A client that comes back can name the last number it saw; the log then replays what it
missed or says that it must re-fetch.

A WebSocket's command finds its entry in the registry, and reaches the connection's task through the
channel kept there; the task reports back by `record`, which compares generations and then evicts finished
entries. The proxies record every exchange in the capture store, which writes its file some time later.
Commands and the poller take the workspace's lock around whole git operations, while entities are saved
without it.

A command may be held by a policy. It then waits, outside all locks, on a one-shot channel until a person
decides in a terminal, its time runs out, the engine stops, or the flow run it is a step of is cancelled.

### What is hard

* **Interleaving**: callbacks run outside the lock under which they were chosen; a batch is taken under a
  lock and sent after it; a flag is read outside the locks of what it guards.
* **Two lock sections for one decision**: the backlog is read and the session attached separately; a wait
  ends and the queue is told separately.
* **Timers** that may wake late: pump batches, waits for approval, leases and claims.
* **Work outside the engine**: a git command can fail anywhere, and one that an aborted task was waiting for
  runs on; a peer of a socket does what it likes; a write of a file can fail, be torn by the end of the
  process, or overlap another.
* **Ends**: a connection, a session, a run, an engine ends between any two steps.
* **Numbering** across reconnects and restarts, and a bounded history.

`PROJECT.json` lists each hazard at the line where it bites, with the property that covers it or the
module of the plan that will.

## 2. The modules and the code

| Module | Models | State and actions |
|---|---|---|
| `EventLog` | `event_log.rs` | `buffer`, `seq`, `retained`, `subscribers`, `logClosed` are the fields of its `State`; `calling` is what an emitter holds after releasing the lock. `Emit` is the listener's lock section, with `Prune` and the copy of the subscribers; `CallSubscriber` is one callback. `CanReplay`/`ReplayFrom` are `replay_from`, pruning included (`PruneForReplay`). |
| `EventPump` | `event_pump.rs` | any number of pumps, callers that push and timers. `PushOther`, `PushEntry`, `PushRefused` are the branches of `push`; `TakenBatch`/`ResetBatch` are `take_batch`; `unsent` and `timerUnsent` are what was decided under the mutex and is not sent yet (`Send`, `TimerSends`), a timer's with its generation, so that two timers with equal batches stay two; `TimerTakes`, `TimerStale` are a timer waking up; `ClosePump` is `close`. |
| `EventDelivery` | `session.rs`, `socket.rs`, and the two modules above by `INSTANCE` | successive connections of one client. `Hello` is the handshake's resume point; `SubscribeFrame` and the seven `Subscribe*` steps are `subscribe`, one step per lock section of the log and per pushed event; `UnsubscribeFrame`; `Disconnect`, `CloseDetach`, `CloseSessionPump` are `close`; `ClientReads` is the serving loop and the client; `Restart` is a new engine. |
| `EventFeed` | nothing: the abstract promise | an event becomes due once, when it is numbered, to exactly the sessions attached to its wire (`Record`); or by the one catch-up that goes before a resumed session's attachment to a wire, which makes due every event of the wire after its resume point (`CatchUp`, `Attach`). A session is caught up again only after it has left the wire (`Leave`). Nothing else becomes due, a due event is given once, and only the end of its session takes it away. The end of an engine ends every session that has begun, and numbering starts again. No order is promised, nor what is numbered between a catch-up and the attachment. `EventDelivery` implements it with `due` read as what is on its way (`Due`: callbacks, batches, what is not sent, frames, backlogs), `stage` as the log's table and the step a subscribe has reached (`Stage`), `given` as what the client has read and `ended` as `Ended`. |
| `EngineConnection` | `connection.rs` of the client | one action per lock of a caller (`RequestCheck`, `RequestInsert`, `RequestWrite`/`WriteFails`, `UnwrittenRemove`, `UnwrittenFails`, `CallEnds`; `SubscribeCheck`, `SubscribePush`), of `fail_everything` (`DrainPending`, `DrainSubscribers`) and of the reader (`ReadResponse`, `ReadEvent`, `ReaderEnds`). The engine's end is what the client sees of the engine's `session.rs`, `event_pump.rs` and `socket.rs`: it answers, emits, shuts its write side and then goes. The reader may also end while the engine is serving, on a frame it cannot read. |
| `Approvals` | `policy/approvals.rs` | `pending` and `sender` are the queue's entries, `listening` and `sent` the two ends of an entry's channel, `passes` the passes. `UsePass`, `Reuse`, `Queue` are the branches of `enqueue`; `HeedDecision`, `WaitEnds`, `CloseChannel`, `GiveUp` are `hold` step by step; `Approve`, `Deny` are `decide`; `SweepOnly` is `approvals.list`; `DropCall` is `flows/run.rs` dropping a cancelled run. Each lock section starts with `Sweep`. |
| `WebSockets` | `websocket/registry.rs`, `kernel/streams.rs` | `entry` is the registry's map (`generation`, `tx`, `status`, `closing` for `close_requested`), `conn` the tasks with their channels, `finished` the stamps of `evict_finished` (`Known` and `Retain` are its `retain`), `caller` what a thread is in the middle of, `sweeping` the tasks between `record`'s change and its eviction. `ConnectLook`, `ConnectCount`, `ConnectAdd` are the three lock sections of `connect_socket`; `SendLook`, `SendQueue` the two of `send_socket_message`; `Disconnect`; `RecordOpen`, `RecordReceived`, `RecordError`, `RecordClose`, `PeerEnds`, `TakeCommand` are `run`, one arm of its `select!` each; `Evict` is `evict_finished`. |
| `GitSync` | `gitops/` | `remote`, `origin`, `head`, `tree`, `index`, `stash`, `unmerged`, `merging` are the repository; `op` is the holder of the workspace's lock and where it is, what its pull has said (`said`) and whether it is undisturbed (`calm`). `Fetch` to `Drop` are `pull`, one git command each, and every command may fail; `Return` is `perform_git_pull`'s; `Commit` and `Push` the rest of a publish, a sync or a push; `ReadTip`, `NoteTip` are `after_publish`; `StartPoller`, `PollerLooks`, `PollerPulls`, `PollerKnows`, `StopPoller` are `auto_sync.rs`; `Discard` is `discard_changes`; `Save` is an entity written by the workspace's commands. What git itself does (`GitStash`, `GitMerge`, ...) is external, over trees as sets of changes. |
| `CaptureStore` | `capture/store.rs` | one workspace's `entries`, `pending`, `nextToken`, `limit`, `paused` are fields of `Store`; `asleep` the timers, `due` those about to call `write_now`, `writes` what is between its snapshot and the end of its `fs::write`, `file` what a reading would give. One action per public operation; `Evict` and `Retain` are `evict`, by the place of an exchange among the unpinned ones; `TimerWakes`, `FlushLooks`, `TakeSnapshot`, `Open`, `Written`, `WriteFails` are a write step by step; `Restart` is the engine's end, flushed or not, and the next start. |
| `MC*` | | model values for TLC |
| `*Proofs` | | theorems of the module they extend |

Conventions: one action is one lock section, or one step between two; a callback, a send on a channel or
a write to a socket outside the lock is a step of its own. Time is never counted: what may run out, wake
up or age may do so at any moment (so what is proved or checked holds for any durations, also wrong ones).
Payloads are left out. Variables called *history* in a module's comments only record what happened. A
definition marked *mutant* is a plausible bug; it is used by no specification, and shows that a property
would notice it.

## 3. What the runs check

| Run | Instance | Question |
|---|---|---|
| `event_log` | 2 wires, 2 subscribers, 2 emitters, history of 2, 3 events; symmetry in all three sets (safety only) | Is the history a gapless tail (`HistoryIsTail`)? Is every replay exact (`ReplayIsExact`), and refused only when something is gone (`ResyncOnlyWhenLost`) and then for ever (`LostStaysLost`)? Is every callback made once (`DeliveredOnce`)? |
| `event_pump` | 1 pump, 2 callers, batches of 3, 4 events | Is an accepted event in exactly one place (`ExactlyOnce`), does a waiting batch have a timer that will recognise it (`NoBatchStranded`), does a frame carry the highest number in it (`FrameNumber`), does what one thread pushes unbatched keep its order (`CallerOrder`), and does everything accepted go out (`AcceptedIsSent`)? |
| `event_delivery_safety` | 2 connections, 2 engines, 2 events, 2 frames per session on one or two wires, history of 1 | Do the sessions' tables and the log agree (`TableMatchesLog`)? Does an event come twice only on a wire the client had left (`NeverTwice`)? |
| `event_delivery_feed` | 2 connections, 1 engine, 2 events, both wires in one frame | Does the whole implement `EventFeed` (`ImplementsFeed`), and is everything owed read (`OwedIsRead`)? |
| `approvals` | 2 waiting calls, one of which can be cancelled, and 2 that cannot wait, of one key; 1 call of another key | Does one approval let one identical call on (`OneCallPerApproval`)? Is it never lost, unless its call was dropped (`ApprovalNotLost`)? Do calls that cannot wait queue once (`QueuedOnce`)? Is a decision final (`DecisionFinal`)? |
| `engine_connection` | 1 call, 1 subscription, 2 events | Can a waiting call always be found (`WaitingIsPending`)? Is a feed whole, with one end (`FeedIsWhole`)? Is a granted subscription attached until it is told (`GrantedIsAttached`)? Do calls and subscriptions that were waiting when the engine left hear of it (`WaitingCallEnds`, `SubscriberHearsEnd`)? |
| `websockets` | 3 ids, 2 tasks at once, 2 threads (one connects and sends on `a`, one connects `b` and `d`), limit 1, 1 finished entry kept | Does a live entry have a running task whose reports it accepts (`LiveHasTask`)? By how much can racing connects exceed the limit (`LimitUpToRaces`)? Is what says connecting or connected live (`ConnectedIsLive`)? Is no text queued behind a close (`NoSendAfterClose`)? |
| `git_sync` | a file that is there and one that is not, a change of each here and one of each in a teammate's commit; publishes of the first file, the poller's pulls; stash of 2, 2 commits of the remote | Is a change saved here in the work tree, a commit or the stash, but for the named exceptions (`NothingLost`)? Does an undisturbed pull put back what it stashed, or say so (`PullRestores`)? Does an undisturbed publish commit what was saved, also when its pull's merge fails (`PublishCommits`)? |
| `capture_store` | 2 exchanges, limits 1 and 2, 2 timers between restarts | Is every change in the file, being written, or waiting for a timer or a flush that will take it (`NoChangeForgotten`)? Does memory keep within the limit in force (`WithinLimit`)? |

The other three runs are the disagreements of section 4: TLC finds each property violated.

**Bounds, and why they are enough.** A history of 2 with 3 events has every case of `replay_from`:
nothing retained, exactly one missing, several missing, ahead. A batch of 3 with 4 events has a batch that
fills, one that waits, one taken by a timer, by another event and by the close, and the stale timer after
each; two callers are enough for one to send what the other decided before. Two connections are the least
for a resume, two engines for a restart (of `event_delivery_safety`, and of `EventDelivery_feed_restart.cfg`); two frames per session for subscribe, subscribe again,
unsubscribe, subscribe. Two waiting calls, two others and a stranger have a retry for each kind and a call
that must not profit. Two tasks and three ids are the least for a task to be superseded while a third
entry's end evicts the one it belonged to; a limit of one makes both connects race for one place. Two
generations of `a` are a reconnect. A file that both sides have and one that is new on
both make every kind of conflict and of pop: here and there, here and in the stash, and an untracked file
in the way; the teammate's commit comes before, between or after the commands of an operation; two stash
entries are what a pull leaves and what the next one adds. Two exchanges under
a limit of one make eviction depend on pins, and two timers are the least for a timer that wakes for a
write something else has done. One call and one subscription with three closers (the caller, the subscriber, the
reader) have every order of closing; two events are the least for an order. Every action of every module
is taken in these runs.

**Deadlock** is checked for the log and the capture store. The other systems stop when everything is sent, decided or closed, and
their configurations say so.

**Fairness.** Safety properties assume none. `EventPump`: the runtime runs every thread on and wakes every
timer (tokio's contract; a sleeping task is never cancelled here). `EventDelivery`: emitters finish their
callbacks, pumps send, a session handles its frames, and a connected client goes on reading: without the
last, frames stay in the unbounded channel. A client never has to subscribe, disconnect or resume, and the
engine never has to emit. `EngineConnection`: the reader reads what is there (a thread of its own that does
nothing else), `fail_everything` runs to its end, and a call is polled when its channel has something. A
write may block for ever, the engine owes no answer, and no future has to be dropped. `WebSockets`,
`GitSync` and `CaptureStore` state no fairness: a peer, git and the disk promise nothing.

**What `git_sync` assumes of git.** `Merge3` takes what each side added and drops what either removed, by
file; a file changed differently on both sides may conflict or not. A command does what it does at once, or
fails and changes nothing; it may fail for no reason of the repository's, everywhere but at the `git add` of
a publish. A merge is refused while a file it would write is changed here, in conflict, or while a merge has
stopped; an abort while a file the merge brought in has been changed since; a pop while a tracked file it
would write is changed. A pop leaves out an untracked file that is here by now, and one that leaves a file
out or in conflict keeps its entry. `checkout --theirs -- .` writes every tracked file: those in conflict as
they were stashed, the others as they are in the index. A reset, also the one that ends a stash push, forgets
a merge that had stopped. A git process left by an aborted pull has ended by the time a later operation goes
past its fetch, a publish commits or a discard begins (the guards of `Status`, `PullCommand`, `Commit` and
`Discard`): git's own index lock makes the other order fail rather than interleave. Left out: deletions of
files, the discard of a file that is staged and not in HEAD, an edit undone between the status and the
stash, and the separate commits a sync makes of its paths.

**What the properties of `git_sync` leave out.** `NothingLost` has two exceptions. `exposed` is what the
user did: a change discarded, or saved to a file while it was in conflict. `risked` is what the code may
lose: when a pop leaves conflicts, the pull checks out every tracked file and drops its entry, and so writes
over what was saved since the stash, and drops the stashed version of a new file that the pop found another
in place of; and a publish whose commit is refused while a merge has stopped has staged its files into that
merge, whose end may take them back. `PullRestores` and `PublishCommits` are about operations that are
`calm`: no entity was saved and no orphaned git process ended meanwhile, and git did not fail, without a
reason in the repository, at one of the commands whose failure `pull` ignores (`git_sync_ops.rs:65`, `67`,
`86`). Such a failure leaves the stash behind and is not told; `GitSync_stash_told.cfg` (section 4) shows it.
`PublishCommits` is also of publishes that found no stash, and whose commit git did not refuse. Neither
depends on whether a poller runs: a pull that is aborted does not return.

**What `capture_store` leaves open.** `unsure` takes out of `NoChangeForgotten` the time after a write that
failed or overlapped another one. The end of the process in the middle of a write leaves a file that loads
as an empty history, pins included (`Open`, then `Restart`): the module shows it, no property forbids it.

## 4. Where the code and its words differ

Three runs expect a violation; the words are quoted in `PROJECT.json`.

* `engine_connection_in_flight` (a bug of the code): a caller passes the `closed` check, the reader meets
  the end of the stream and fails everything, and then the caller inserts itself and its write succeeds,
  since the engine shuts its write side before it drops the socket. Nobody is left to end the call.
* `websockets_generation` (a bug of the code): an entry whose old task is still closing is evicted, since a
  reconnect with a bad url left it without a task; the next connect starts it at generation 1 again, which is
  the old task's, and that task's close takes the new connection's channel away.
* `git_sync_known_head` (a bug of the code): after a publish the tip of the remote is read and noted for the
  poller although the publish pushed nothing, or a teammate has pushed since; the poller then does not pull
  it until the remote moves again.

Further configurations are kept beside the runs, for a reader who changes the code they are about. Four are
larger or other instances of a run, and pass:

* `EventDelivery_feed_restart.cfg` and `EventDelivery_feed_return.cfg` (`MCEventDelivery`): `ImplementsFeed`
  with a second engine, and with two frames for each session, so that it can leave a wire and come back.
* `GitSync_pull.cfg` and `GitSync_sync.cfg` (`MCGitSync`): the properties of `git_sync` with pulls a client
  asks for, and with syncs of all files and pushes.

In each of the others TLC finds the one property violated:

* `EventPump_order.cfg` (`MCEventPump`, `OrderKept`): a timer takes a batch and is overtaken, before it sends
  it, by an event pushed later; the header of the file promises the order (`event_pump.rs:2`).
* `EventDelivery_caught_up.cfg` (`MCEventDelivery`, `CaughtUp`): an event numbered between a resumed
  session's backlog and its attachment reaches it on neither way (`session.rs:397` and `410`).
* `EventDelivery_resume_point.cfg` (`ResumePointIsHonest`): frames can arrive out of the order of their
  numbers, so the highest number seen, which is what a client is asked for, does not say what it has seen.
* `EventDelivery_engine_restart.cfg` (`ResumesOwnNumbers`): a resume point of an earlier engine is granted by
  the next one, which numbers from 1 again.
* `Approvals_lost.cfg` (`MCApprovals`, `ApprovalCounts`): an approval sent to a call whose flow run is
  cancelled before the call is polled again lets no call on and leaves no pass (`approvals.rs:309`).
* `GitSync_changes_stay.cfg` (`MCGitSync`, `ChangesStay`): what was changed here should stay on top of a pull
  whose pop left conflicts (`git_sync_ops.rs:73`), but `checkout --theirs -- .` writes over a tracked file,
  without a conflict, that was saved since the stash (`git_sync_ops.rs:77`).
* `GitSync_stash_told.cfg` (`StashIsTold`): a `stash pop` or a `stash drop` whose failure is ignored leaves
  the stash entry, and the pull says nothing of it (`git_sync_ops.rs:67`, `86`).

No client in this repository sends `lastSeq` yet: the three about resumed sessions concern the protocol the
engine offers (`protocol/src/envelope.rs`), which is what `Hello` is modelled from.

## 5. What is proved

Every theorem is for any values of the constants under the module's assumption (`LogAssumption`,
`PumpAssumption`, `DeliveryAssumption`, `ApprovalsAssumption`, `ConnectionAssumption`, `WebSocketsAssumption`,
`GitSyncAssumption`, `CaptureAssumption`: bounds are numbers and sets are related as
the names say), which TLC evaluates on the instances.

| Module | Theorems | The inductive invariant, and why |
|---|---|---|
| `EventLogProofs` | `TypeOK`, `HistoryIsTail`, `ReplayIsExact`, `ResyncOnlyWhenLost`, `LostStaysLost`, `DeliveredOnce` | `TypeOK /\ HistoryIsTail` is inductive: whatever ages out, pruning only drops a front. Both replay properties follow from it. `LostStaysLost` compares a step's two histories: the oldest number never falls. `DeliveredOnce` also needs that nobody is owed a number not given yet, and that no two callbacks under way bring one subscriber the same event (`DeliveryInv`). |
| `EventPumpProofs` | `TypeOK`, `NoBatchStranded`, `FrameNumber`, `CallerOrder`, `ExactlyOnce` | Typing itself is not inductive: that a frame's number is at least 1 rests on `pendingSeq` being the highest number of the batch (`IsTop`). `NoBatchStranded` needs the flag between: a batch waits only while the flag is set, and while it is set a timer of the current generation sleeps. `CallerOrder` needs what is still to be sent: a single event is the last thing its thread has decided on, and later than all that thread has sent (`UnsentLater`); timers send only batches. `ExactlyOnce` speaks of places instead of counts: `Whole` says an accepted event has one place and any other event none. Each step gives every place a new one (`Moved`: the copies after it are the image of those before), so one stays one; only a push makes a new place, for an event that had none (`CallerNew`, `WaitsNew`). |
| `EventDeliveryProofs` | `TypeOK`, `TableMatchesLog`, `NeverTwice`, `ImplementsFeed` | `Types`, `Table`, `Countable`, `Listening`, `Once`: see below. |
| `ApprovalsProofs` | `TypeOK`, `OneCallPerApproval`, `ApprovalNotLost`, `QueuedOnce`, `DecisionFinal` | The invariant says where an approval went: into the channel of the call that queued the item or into the passes, never both, and into neither while the item is queued (`PendingOpen`, `SentDecided`, `PassesOpen`, `UsedApproved`, `ListeningLooks`). |
| `EngineConnectionProofs` | `TypeOK`, `WaitingIsPending`, `FeedIsWhole`, `GrantedIsAttached` | `FeedIsWhole` speaks of what was sent; the invariant adds what is on the wire: every event there is followed by all later ones (`WireInOrder`), and they are those after the last one a listed subscription was sent (`RestIsComing`); a listed subscription was not told of the end. |
| `WebSocketsProofs` | `TypeOK`, `LiveHasTask`, `ConnectedIsLive`, `NoSendAfterClose`, `LimitUpToRaces` | `Tasked` is types and `LiveHasTask`, inductive because entry and task are made in one section and a task clears only its own channel. `ConnectedIsLive` needs `Owned`: until an entry is evicted under a running task, no task is ahead of it and only the one whose channel it has matches it. `NoSendAfterClose` needs `CloseTold`: the entry that holds a channel with a close in it is marked as closing. `LimitUpToRaces` counts: only `ConnectCount` adds to `Committed`, when fewer than the limit are live, and what is not live is the target of a caller. `TypeOK` adds that `finished` is a sequence of ids (`FinishedTyped`), which rests on what keeping some places of a sequence gives (`Ranks`, `RetainTyped`). |
| `GitSyncProofs` | `TypeOK`, `NothingLost`, `PullRestores`, `PublishCommits` | What git takes out of the work tree must be shown to be elsewhere, or named by `exposed` or `risked`. `CommittedIsPast`: HEAD, the remote and the base of a stash hold only what was committed; `SavedBefore` and `FreshIsNew` say what a stash entry holds and which of its files were new; `MergeKept`: while a merge has stopped, what its abort would take out of the tree is committed or stashed. `Safe` is what the tree may lose, and `Phases` says, for each command of a pull and for the process an abort leaves, what its stash entry and the index hold (`Applying`, `Applied`): an entry is dropped only after it was applied, and what the pop had to leave out is `late`, which the checkout moves to `risked`. The other two need to know, at every place a calm operation can be, what it can still put back (`Restorable`): its entry is the newest and was taken from HEAD, so the merge meets a clean tree (`Clean`) and can be aborted, unless git itself fails (`AbortNotRefused`); the tree is HEAD's again, so the stash pops (`PopNotRefused`); and the stash is `Level` with what it was, or has the entry `OnTop`. Then a calm publish that began without a stash commits the tree that has all that is saved. `PullRestores` is a conjunct of states where a pull has returned, `PublishCommits` an action property of the commit. |
| `CaptureStoreProofs` | `TypeOK`, `WithinLimit`, `NoChangeForgotten` | What is pending has a timer asleep or due (`PendingHasTimer`); a write with no other beside it either holds every change or leaves one pending (`AloneIsAlone`, `AloneStale`); an older snapshot under way beside a newer file is noticed (`StaleNoticed`); nothing is due or written before the history was read (`UnloadedIdle`). `Kinds` has the types and `WithinLimit`: `EvictWithin` says that an eviction leaves exactly the newest of the unpinned and loses no pinned one, counted by ranks; an exchange is in a history once (`History`). |

**The composition.** `EventDeliveryProofs` is about the log, the pumps, the sessions and the client together,
for any number of them. Its parts build on each other:

* `Types`: that what a session is owed or caught up with has been recorded needs every event in the history,
  in a callback and in a backlog to be one that was recorded, under its own wire (`OnRecord`).
* `Table`: a wire is in the log's table of a session exactly while it is in the session's own, or while the
  subscribe that attached it has not entered it yet; a session that has not begun or is over has none.
* Counting. `OnTheWay(s, n)` is the number of copies of event `n` between the log and the client of `s`. Copies
  are places, and a step takes the places `A` and makes the places `B`; `Countable` (there are finitely many,
  a timer that holds a batch is of an earlier generation, only a closed session's pump is closed) lets the
  sizes be added. The lemmas `...Moves` say what every action adds to `OnTheWay` and to `got`.
* `Once`, for `NeverTwice`: what was given or is on its way is on the session's record of what it is owed or was
  caught up with; two copies of an event, or an event on both records, mean that the session has left its wire.
  `Listening` is why a replay does not repeat what came live.
* The refinement: `FeedInit` and a lemma per action (`FeedStep` puts them together) show that each step is a
  step of `EventFeed` or leaves all that it reads alone: `recorded`, `resume`, `Stage`, `Due`, `got` and
  `Ended`. `Emit` is the feed's `Record`, since a callback is made for exactly the sessions in the log's
  table; `SubscribeReplay` is its `CatchUp`, since what `replay_from` does not refuse is every event of the
  wire after the resume point; `SubscribeAttach` is its `Attach`. A restart takes away what every session is
  owed, and is the feed's `Renew`: that the sessions which outlive it had not been given or owed anything follows
  from `Listening` and `Once`. Trying to prove the step of a timer showed that an earlier form of `EventPump`, in
  which two timers that held equal batches were one element of a set, lost one of the two; no run was large
  enough to meet it.

Each proof has the same layout: the initial states satisfy the invariant, every action preserves it (a
lemma per action), and a temporal step combines the two. Modules start with lemmas on the operators and
sequences that the rest cites. Two operators that the code writes as loops over a list (`retain` in
`capture/store.rs` and in `kernel/streams.rs`) are stated by rank, `Retain`, because a fold over a
sequence is out of the prover's reach.

**Only model-checked**: everything about liveness (`AcceptedIsSent`, `OwedIsRead`, `WaitingCallEnds`,
`SubscriberHearsEnd`) and fairness, which this prover does not reach. Every invariant and every action
property of the runs, and the refinement of `EventFeed`, is a theorem. Induction over data and recursive
operators are also out of the prover's reach; no module here declares a recursive operator.

## 6. What is not modelled

Contents of frames and payloads, wire names, scopes and the dispatch of commands, the audit trail and the
cap on decided approvals, and the hooks a closing session runs (mocks, webhooks, claims). A traffic event
of `EventPump` carries one entry; the code adds each of an event's entries, and the limit can then be
passed rather than met. Of `schedule` in `capture/store.rs`, the branch without a runtime
(`store.rs:168`) is left out: the host remembers its runtime before anything is recorded.

Of the sockets: their message logs and `clear_socket_messages`, the status events (which are emitted after
the registry's lock is released, so that a listener can hear of an old connection's close after the new
one's `connecting`), urls, headers, cookies and error texts; "disconnected" and "error" are both `ended`.
Of git sync: the checks of access, the index lock and its removal (`git_lock.rs`), pending deletions and
folders, `sync` metadata and state, history and audit, cloning and setting up remotes, two workspaces, two
pollers started at once (`auto_sync.rs:58`). Of captures: several workspaces, the contents of an exchange
(one bit says whether the newest is in the file), the trace header kept beside the limit.

The components listed as `not_modelled` in `PROJECT.json` are on the plan below, or are pure I/O,
conversion or presentation, as their notes say. Most of the repository is of that kind: the app's screens,
the command line and the MCP server turn engine calls into output, and the import, export, analysis and
protocol modules turn data into data. They hold little state that several actors share, which is what these
models are about.

## 7. Plan

Done: the event path (`EventLog`, `EventPump`, `EventDelivery`, `EventFeed`), the client connection, the
approvals, the WebSockets with their registry, git sync and the capture store, with proofs of every
invariant and action property and of the refinement. What is left, in this order:

1. `SettingsFile` (`workspace/settings.rs`, `utils/json.rs`): truncating writes, reads in between, fallback
   to defaults, two writers. An abstract register it should implement, and where it does not.
2. `EngineStart` (`runtime/host.rs`, `discovery.rs`, `transport/socket.rs`, `sidecar.rs`): engines and
   clients racing for one data directory, crashes that leave `runtime.json` and the socket behind.
3. `Claims`, `BlobLease`: a claim made after its session ended; a lease extended under the sweep.
4. `FlowRun` (`flows/run.rs`): cancel, deadline and end of a run, composed with `Approvals`.

Theorems to come: with each new module, its invariants; of `EventFeed`, what it promises on its own, to be
carried over to `EventDelivery` by the refinement.

## 8. Running it

    tlc -workers 2 -config EventLog.cfg MCEventLog.tla
    tlapm EventLogProofs.tla

and so on for each run of `PROJECT.json` and each `*Proofs` module. `event_delivery_safety`,
`event_delivery_feed` and `git_sync` take two to three minutes each on two workers, `websockets` and
`capture_store` about one and a half, every other run less than half a minute; the proofs take about ten
minutes together, half of it `EventDeliveryProofs`.
