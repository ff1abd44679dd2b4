# Didi in TLA+

A verification project kept beside *didi*, the native MCP server for the Godot
engine. It models the parts of didi in which several processes, threads or
frames meet, checks them with TLC on small instances, and proves what matters
most with TLAPS for every value of the constants.

Source paths below are relative to the repository (`src/offline/blackboard.cpp`
is `src/src/offline/blackboard.cpp` in `PROJECT.json`).

## 1. The system

Didi is two programs.

* The **standalone server** (`src/standalone`, `src/mcp`, `src/tools`,
  `src/offline`, `src/runtime`) speaks MCP over stdio with one agent. It answers
  one request at a time, runs long work as jobs on threads of their own, and
  keeps per-project files under `.didi/`.
* The **GDExtension** (`src/gdextension`) runs inside a Godot editor or game. Its
  IPC threads receive requests and post them to the engine's main thread, which
  alone may touch the engine.

They are joined by a local pipe or socket (`src/common/ipc_channel_win32.cpp`)
that a session descriptor file advertises. Several servers (several agents) may
run against one project: they share the files under `.didi/` and compete for the
sessions.

### Components, their state and what makes them correct

| Component | State | Operations | Hard behaviour | What makes it correct |
| :-- | :-- | :-- | :-- | :-- |
| Board file lock (`common/file_lock.cpp`) | an OS lock on `<board>.lock` | poll until a deadline, release, release by death | holder dies; holder hangs; the caller's clock ages while it waits | one holder; every wait ends |
| Blackboard tasks (`offline/blackboard.cpp`) | tasks with status, dependencies, lease | create, claim, update, complete, list, resource | several processes, stale clocks, lapsed holders that come back, failed saves, crashes | a promised lease is honoured; completed stays completed; blocked exactly while waiting |
| Blackboard keys (same file) | a JSON document, metadata per path, tombstones, audit, revision | write, read, patch, list, clear | ttl lapses between calls, pins that are compared with stamps, parent and child writes | bounds; a pin overlooks lapses and nothing else |
| Command queue (`gdextension/editor_hook.cpp`, `runtime_request_router.cpp`) | queue, control block and promise per command, held slots, parked lists | post, wait, time out, pump, hold, finish, nested frame, drain | two threads race on every answer, frames re-enter, work lives across frames, shutdown | one answer each, told truthfully, in order, nobody left behind |
| Detached reimports and reloads (same file) | bounded table of late answers | detach, record, read | an answer that arrives after the caller left | read until evicted |
| Session host (`session_host.cpp`, `gdextension_ipc.cpp`) | descriptor, token, generation | publish, accept, retire | restart with the same pid; retired file | a request reaches the process it names |
| Session routes (`runtime/session_client.cpp`) | held routes, selection, epoch, teardown counts, locks | attach, auto-attach, lease, quarantine, detach, reap | attach races detach; process dies; lock file unlinked | one owner per session; its lock held from the first connection to the last; a detached route does not come back |
| IPC channel (`common/ipc_channel_win32.cpp`) | four slots, one handler lock | accept, serve, recycle, stop | idle connections fill the slots; stop races accept | a waiting client is served |
| Jobs (`mcp/jobs.cpp`) | job table, threads, flags | start, finish, cancel, look up, expire, evict, shut down | finish races cancel; limits; joins | one final state; a retried request starts nothing; every join ends |
| Mutation safety (`mcp/mutation_safety.cpp`) | confirmation tokens | preview, look up, probe, spend, prune | the target is probed outside the lock, from several threads | a token buys one run; nobody's work is overwritten unseen |
| Change journal (`mcp/change_journal.cpp`) | `.didi/journal.json` | append, find, view | several processes; a damaged or newer file; an undo looked up without the lock | together the servers write one log; its marks are true, redone and undone again or not |
| Undo ledger (`gdextension/undo_ledger.cpp`, parts of `godot_bridge.cpp`) | what Didi committed to the editor's undo histories | observe, evaluate, undo by reference | a person undoes, redoes and commits in between; versions are used again | undoes exactly the action it names |
| Managed recovery (`runtime/managed_recovery.cpp`, `checkpoint_store.cpp`, `managed_process.cpp`) | receipt, checkpoints, child process | before/after mutation, restart, restore | crash between steps; two renames | never "completed" without a checkpoint; the project directory survives |
| MCP server (`mcp/mcp_server.cpp`, `tool_registry.cpp`) | request in flight, subscriptions | initialise, call, cancel | cancellation races the answer | one answer per request |
| Scenario runner, collectors, rings, caches | bounded buffers, cursors | sample, read | old records are lost under a cursor | a cursor never skips silently |
| Bridge, tools, offline parsers, setup | none of their own | engine calls, parsing, file edits | - | not for a model checker |

`PROJECT.json` lists each with its status, and every hazard at its line.

### How they interact

The server forwards a live tool call over a session route; an IPC thread of the
extension posts it with `postCommand` and waits in `awaitRuntimeCommand`; the
engine's frame callback runs `processQueue`, which takes up to 64 commands,
starts each one, and answers it or holds it for later frames. The answer travels
back through a promise. The blackboard never touches the engine: every call is a
read-modify-write of one file under one lock, and the other party is another
process.

A `tools/call` passes the confirmation gate first, on the server's loop or on the
thread of a job. In managed mode the call is then bracketed by checkpoints of the
project the server owns. Every mutating call is recorded in the change journal,
which the servers of a project share; the entry of a live edit carries the undo
reference the extension's ledger gave it, and `editor_undo` of an entry takes that
reference back to the ledger.

## 2. Modules

```
FileLock ──EXTENDS── BoardTasks ── MCBoardTasks         (lease, graph, ghost)
    │                     └─ BoardTasksProofs
    └─────EXTENDS── ChangeJournal ── MCChangeJournal    (journal)
                          ├ implements JournalLog (INSTANCE ... WITH)
                          └─ ChangeJournalProofs
BoardKeys ── MCBoardKeys                                (board)
    └─ BoardKeysProofs
CommandQueue ── MCCommandQueue                          (dispatch, callers, shutdown)
    └─ CommandQueueProofs
WallClock ─┬─ Jobs ──────────┐
           └─ Confirmations ─┴─ ToolCalls ── MCToolCalls (calls)
                                    └─ ToolCallsProofs
SessionRoutes ── MCSessionRoutes                        (routes)
    └─ SessionRoutesProofs
ManagedRecovery ── MCManagedRecovery                    (recovery)
    └─ ManagedRecoveryProofs
UndoLedger ── MCUndoLedger                              (undo)
    └─ UndoLedgerProofs
```

Each `...Proofs` module extends the module it is about and is checked by TLAPS.

### FileLock

`withBoardLock` and the lock below it, which the journal's `append` takes in the
same way. A process is `idle`, `waiting`, `locked` or `answered`. `Arrive` reads
the clock into `now` *before* the wait, as each blackboard function does with
`now_ms`; `Acquire` is a successful poll, `GiveUp` a failed poll at or past the
deadline, `Operate` the end of the work under the lock, `Die` the death of the
process inside a call, after which the operating system frees its lock. One clock
serves all processes and never goes back (they run on one machine; a wall clock
set back by hand is outside the model). A tick is any number of milliseconds.

### BoardTasks

One action per task operation, each the whole handler: the sweep and
`refreshTasks`, the refusals in their order, the change, the save and the
read-back. `file` is the board on disk, `copy` what a call loaded, `reply` the
answer on its way. `SaveBoard` may fail and leave the file; `SaveAndReadBack` may
also change the file and then answer an error. `believes[t][a]` is a history
variable: until when agent `a` may count on task `t`, from the answers it
received and from what it has itself asked for since. The agents are the
processes (an agent uses one server). Ids, agent names, tags and texts are data:
an id is a number, a filter on tags or types is the set `among` of the tasks it
admits. `WriteKey` is there because a lapsing key makes the sweep report a
change, which matters to `ReadResource`.

### BoardKeys

The document is a function from a fixed set of paths to a value, `Obj` or
`None`; `Below` gives the paths under a path. Metadata carries the stamp and the
expiry. A call is issued (`Call`, which reads the clock) and later takes effect
in one step under the lock, whose exclusion is what `FileLock` and
`NoLostUpdate` establish. `seen` is a history variable with the caller's last
read, from which its pins come, and with the expiry times the board had then. A
patch is a sequence of `add`, `remove`, `replace` and `test`, applied all or nothing,
with the meaning the vendored JSON library gives them: that of RFC 6902, except that
an `add` or `remove` directly below a value does nothing and reports nothing, and an
`add` below `null` makes an object of it. `move` is a remove and an add and `copy` an
add, so they are left out. Arrays are values. Sizes in bytes and depth are represented
by the bound on keys.

### CommandQueue

Two kinds of thread. A caller posts its command and goes through
`awaitRuntimeCommand` one atomic step at a time: wait, deadline,
`tryCancelPending`, `tryCancelRunning`, `tryClaimResponse`, the last
millisecond. The main thread is a stack of frames (`frames`) and of command
bodies it is inside (`stack`); a body may re-enter the frame callback up to
`MaxDepth` times. `StartNext` takes the next command of the batch, `RunBody`
executes and completes it, `HoldBody` puts it into its slot or list,
`FinishHeld`, `TakeCapture` and `NextProcessor` are the `process...Frame` calls
in the order of the code, `Stop`, `Drain`, `CancelQueued` and `DrainHeld` the
shutdown. `fulfillCommand` is two steps, `TryClaimResponse` and `Publish`, since
another thread can come between them. `answered` stands for whatever the body
itself answered, its own errors included; the one word of an answer that is kept apart
is the `not_started` of a profiler read that has taken no sample (`FinishProfiler`,
`Ended`), because `NotStartedIsTrue` is about it. A detached reimport or reload is
answered as its body ends and stays in its slot or list until it is over.

Abstractions: the step gate is the occupancy of the `step` slot; "scene" stands
for `scene.open`, `scene.create` and `scene.packBranch`, which wait while the
editor starts or settles and are parked after saving; whether the editor is
starting or settling, how many frames a slot waits, and whether a pause takes
effect are chosen nondeterministically; commands are numbered in the order they
are posted; the drain, which may be called up to three times, is modelled once,
because a second call finds nothing. A reimport takes its slot as its body ends,
although the code takes it before the frames that body runs; an exception in a deferred
capture, which leaves the frame callback, is left out. A frame inside the editor's own import
pass or progress dialog only observes, as a nested one does. Nested frames from
inside the body of a held processor are modelled only for the deferred capture.

### Jobs, Confirmations and ToolCalls

`Jobs` is `JobStore`: an entry of `m_jobs` and the thread behind it, whose handle
sits in the entry, becomes an orphan when the entry is dropped, and is taken by
whoever joins it. `mutex` is `m_mutex`. The scopes in which the loop takes threads to
join, and in which a thread records its answer, are two steps each, one that takes the
mutex (`LoopLocks`, `Return`) and one that ends the scope (`TakeOrphans` or `Shutdown`,
`Finish`), so that a join made inside such a scope would be seen; every other operation
under it is one step, taken when it is free. Then a thread leaves (`Leave`). `Confirmations` is
`MutationSafety::evaluate` in the steps its mutex makes of it: look the token up,
probe the target outside the lock, spend the token. `ToolCalls` composes them: the
stdio loop takes one request at a time (`Preview`, `PlainCall`, `JobCall`,
`TaskCancel`, `Stop`), a call runs through the same gate on the loop or on a job's
thread, and `OutsideWrite` is anybody else who changes the target. A target's
content stands for what the tool's probe reads of it. Three kinds of call differ at
the gate: those that always need a token, those that need one when they are told to
overwrite and something is there (`requiresConfirmation`), and those that are not told
to, whose handlers look for themselves before they write (`Check`, `already_exists`).
`Unprobed` are the tools without a preview probe, whose previews read nothing.
`approved` is a history variable: since the call began, the target was at some moment
one this call may overwrite. A preview that read nothing, because nothing was there or
because there is no probe, gives a token that is spent without a second look, and tells
the client so (`target_checked_on_confirm`); `MayOverwrite` makes the same exception.

### SessionRoutes

A route needs the session's lock, an `flock` on `<session>.lock`. A lock belongs to
an inode, so `file[s]` is the inode the path names now, and `refs[n]` who points to
the `FileLock` on an inode: a route, or a thread; nobody pointing means unlocked.
Opening a route is `openRoute`, which lets go of dead routes, `SessionFound` or
`OpenRefused`, `AttachBegins` (the release epoch and the teardown count are read),
`LockFileOpened`, `LockTaken`, `Handshaken`, and then one of `AttachInstalls`,
`AttachKeepsExisting` and `AttachSuperseded` under the mutex; `tryAutoAttach` is the
same with a guessed session. `takeRouteLocked` is what detach, close and quarantine
share. Whoever lets go of a route moves it, with its lock, into a local (`HandOver`),
closes the connection outside the mutex, and only then frees the lock (`Disconnected`);
an attach that gives up does the same with the connection it had made. A connection may
break at any time and be seen to be broken by one thread and not by another: whether a
route is live is a choice wherever the code asks. `ReapBegins`, `ReapLocks` and
`ReapRemoves` are `reapOrphanedSessionLock`. A session is up, draining, retired, crashed
or exited (`GDExtensionIpc::stop`, the session host); its id is never used again. Left
out are the reconnections a failed live call makes by itself (see the disagreements) and
the record of which session was chosen explicitly, which only a report reads.

### ManagedRecovery

The server's supervisor, one disk effect per action, because the server may die
between any two: `receipt` is `recovery.json`, `store` the completed checkpoints,
`project`, `staged` and `preserved` the directories a restore renames. The actions
follow the code: `Launch...`, `Ensure...`, then for a mutation `MutationCalled`,
`MutationCompared`, `MutationGuarded`, `BeforeCheckpointed`, `PendingRecorded`,
`Dispatched`, `Answered`, `SceneSaved`, `AfterCheckpointed`, `CompletionRecorded`
with a failing twin of each, and for a restore `RestorePrepared`, `EditorStopped`,
`MovedAway`, `MovedIn`, `Restored`, with `RolledBack` on failure, and `RollbackRecorded`
also when the staged workspace went in but cannot be made the current directory. A launch
fails at any point, last of all when the scene that was open does not open again. The
changes of tools that only touch memory, which the code calls completed without a
checkpoint that holds them (`managed_recovery.cpp:391`), are left out. The editor
carries out what it was sent, or dies, at any time (`EditorApplies`,
`EditorExits`). Content is the set of mutations it contains; `Missing` is no
directory. Copying is one step that succeeds or fails.

### UndoLedger

`hist` is what Godot keeps (external): a sequence of actions, the current index and
the version, for the global history and for each opened scene. The code identifies
an action by place, version and name; the model also gives it a true `id`, which
only the properties read. `DidiCommits`, `DidiCommitsTwice` and `DidiReloads` are
Didi's commands with `attachUndoCommits` around them, `undoReferencedAction` the
undo by reference; everything else is the person at the same editor. One name for
Didi's actions and one for a person's: names that differ only help the code.
`commits` is the ledger, which forgets its oldest commits beyond `Capacity`; `refs`
are the references the journal was given, none of which the model forgets, so that a
reference may outlive what the ledger knows of it. Left out: a history that cannot be
read (`godot_bridge.cpp:3354`) and one the editor has trimmed (`undo_ledger.cpp:134`),
whose actions the code calls gone although they may still be there, and a reference into
a scene without a path (`godot_bridge.cpp:3337`), which it calls blocked for ever.

### ChangeJournal and JournalLog

`JournalLog` is the promise: calls recorded one at a time, under consecutive
numbers, the newest kept, an undo marked in the same write. `ChangeJournal` is the
code: `append` under `FileLock` in its steps (`Acquires`, `Reads` or `MovesAside`,
`Writes` or `WriteFails`, `Returns`), the unlocked `findEntry` of `editor_undo` and
the editor's undo between them, deaths, timeouts, a damaged file and a newer format.
An entry may be undone more than once: a redo, Didi's or a person's, makes its reference
available again, the journal does not connect the redo with the entry, and nothing looks
at `undone_by` before an undo, so `EditorUndoes` is always possible (a redo is a
`CallEnds` where it is a call). Left out: a stat of the file that fails, which the code
reads as no journal (`change_journal.cpp:370`), so that the write replaces what is there.
The refinement mapping reads the log off the file: the copy in memory, the lock and
the wait have no counterpart above, so their steps are stutters, `Writes` is
`Record`, and `MovesAside` is `BegunAgain`.

## 3. What TLC checks

| Run | Bounds | Shows |
| :-- | :-- | :-- |
| `lease` | 2 processes, 2 task ids (1 task kept), clock to 4, wait 1 | types, no lost update, leases exclusive and honoured, completed for ever, only the holder changes a leased task |
| `graph` | 2 processes, 3 ids (2 tasks kept), clock to 1 | blocked exactly while waiting; always something workable |
| `board` | 2 processes, 3 paths (one below another), 2 values, 2 keys, 1 record each, clock and revision to 3 | bounds; a pinned patch meets the board its caller read, but for keys whose ttl ran out |
| `dispatch` | 2 commands of 12 kinds, nesting 2 | one answer, truthful `not_started`, nobody left waiting, order, no command started inside a body, a paused game stays paused |
| `callers` | 2 commands, nesting 1, fair | every caller returns |
| `calls` | 2 job ids, 1 request id, 1 token, 3 calls (one of each kind), 1 finished job kept, clock to 1 | a token buys one run; nothing unapproved is overwritten; a retried request starts one job; cancelled never completes; joins end; a stopped server has no threads |
| `routes` | 2 servers with 1 and 2 threads, 2 sessions, 2 lock files, 1 held route, 3 calls | one owner per session; its lock held from the first connection to the last; selection held; released stays released |
| `recovery` | 2 mutations, 2 restores, 1 named checkpoint, 4 launches, 5 kept checkpoints, retention fails once | unsettled is on the receipt; completed is in a checkpoint; the before-state is kept; the project is never lost; nothing is sent to a restarted editor |
| `undo` | 2 scenes, 2 scene histories, 2 editor runs, 3 commits remembered, 6 things happen | every verdict is true, so an available reference undoes what it names; no needless refusal |
| `journal` | 2 servers, 5 calls, 3 entries kept, 1 damage, wait 1, clock to 1, fair | implements `JournalLog`; numbers account for all; an entry is marked by the newest undo of its change; every wait ends |

Two processes are enough for the races of the board: each involves one agent with an
old clock or promise and one that acted in between. A clock of 4 lets a lease be
granted, renewed, lapse, be taken by another agent and lapse again while a call of
the first is still waiting. With two commands one can be inside a body, held or
parked while the other is queued, timed out or drained, and a pause or a resume can
come while a frame step is held. With two threads in one server and one in another,
a route can be let go and attached anew by one while another is shaking hands, or
still closing what it had, and the third is reaping the lock file. Two mutations and two restores let a
restore fail, be rolled back and be tried again over an open mutation. Six things in
an editor are enough to commit, undo, commit in the same place, switch and come
back, and, with three commits remembered, for the ledger to have forgotten the
first; with `Recent` widened by one, `VerdictIsTrue` fails. Five calls with three
entries kept let an entry be looked up, pushed out and its undo recorded after that,
and let an entry, an undo of it and an undo from an older journal be held at once;
with two entries kept the last does not happen, and a run with that bound once
passed a statement of `MarksAreTrue` that its proof showed to be false. The limits
of the code (64 commands a frame, 256 records, 2000 tasks) are constants that the
runs set to 1 or 2, so that they are reached. `MaxClock`, `MaxRevision` and
`MaxCommands` bound the runs alone; when the horizon is reached and all calls are
over the model stutters, so a deadlock before that would be reported.

Each module's `TypeOK` gives the types its other definitions rely on. That of
`BoardTasks` is a property of a run; those of the other modules with proofs are
conjuncts of their inductive invariants.

### Disagreements between the code and what it says of itself

Two are kept as runs that TLC ends with a counterexample.

* `ghost`: `blackboardReadResource` computes `sweepExpired(...) ||
  refreshTasks(...)`. When a key lapses in the same call the tasks are not
  refreshed, and the answer shows a task held by an agent that is gone.
* `shutdown`: the drain leaves a held script call and a deferred capture
  unanswered. (`NobodyLeftWaiting` is the promise for all other kinds.)

The others were met while modelling and are noted here only. The four on
keys and the queue, and the second on undo, had counterexamples in these models.

* Keys: a write pinned to `expected_updated_at_ms` is accepted over another agent's
  change with the same millisecond stamp (`blackboard.cpp:604`; the header: "Only if
  this key has not changed since I read it").
* Keys: a write pinned with 0 ("this path must not exist yet") replaces a path that
  came with its parent's value, because the pin is compared with the path's own
  metadata (`blackboard.cpp:601`).
* Keys: metadata left by an earlier ttl write deletes a later value without a ttl
  (`blackboard.cpp:223`; ADMIN_GUIDE: "everything else persists").
* Keys: a patch `add` or `remove` below a value that is no object does nothing, and is
  reported as applied.
* Queue: a nested frame, which "must observe progress and nothing else", runs a
  deferred capture's body inside another command's body (`editor_hook.cpp:268`).
* Queue: a profiler read whose body ran is told `not_started` if it has not sampled yet
  (`editor_hook.cpp:673`, `:2386`). ARCHITECTURE keeps the word for a command that was
  still pending; `NotStartedIsTrue` states the exception.
* Jobs: `jobs.hpp:42` says a shutdown abandons a job; one whose work returns after
  the flag is set ends cancelled (`jobs.cpp:164`). A retried request runs again once
  its job has expired or been evicted.
* Routes: `tryAutoAttach` does not look at `kMaxHeldRoutes`, and a detach with
  nothing selected does not stop an auto-attach in flight. A repeatable live call whose
  transport fails connects its own lease's client again (`reconnectRuntimeRoute`,
  `session_client.cpp:2240`); if another thread let go of the route meanwhile, nothing
  there holds the session's lock any more. This was read in the source; the model has
  no such reconnection, and `LockFollowsUse` speaks of the connections of attaches.
* Recovery: a restore tried again after a failed rollback reports "original retained
  at" a directory that does not exist; the original is in that of the earlier
  restore (`MissingProjectIsPreserved` says so much and no more). Retention orders
  by wall clock, and if it fails again and again while an editor is being announced
  it can push out the checkpoint of an open mutation (the run lets it fail once; the
  theorem `CheckpointBeforeIsKept` says how often it may). The editor that a second
  `ensureEditor` restarted is kept from live requests, not from an offline file
  change.
* Undo: a reference to a scene that was closed and opened again is answered
  "blocked, needs its scene tab" for ever. `undo_ledger.hpp:40` says that of a
  reference older than the ledger "only the comparison with the other history loses its
  evidence, and is then refused rather than guessed"; `replacedLater`
  (`undo_ledger.cpp:113`) loses its evidence too, and an old reference to an action that
  was undone and replaced under the same name is then judged available. It takes 4096
  later commits in one run of the editor, where the journal that holds the references
  keeps 200 entries. `VerdictIsTrue` says what it says of references at most that old
  (`Recent`), and of all of them that what is said to be gone is gone.
* Journal: the note that a journal was recovered is lost if the process dies, or the
  write fails, after the file was moved aside, and a reader in between sees none. An
  undo looked up before that marks whatever has its number now, and can write over the
  mark of a true undo (`change_journal.cpp:400`). `MarksAreTrue` says that no other
  undo marks an entry that is not its own.

A sweep of lapsed keys changes the board without a new revision, so a patch
pinned to a revision is applied to a board from which keys have lapsed since.
`PinnedPatchSeesOnlyLapses` says that this is all a pin can overlook: a path that is
missing had, when it was read, an expiry that has passed since.

### Fairness

`WaitEnds` (checked on the journal, whose lock the board takes in the same way)
assumes that time passes and that a polling caller keeps polling
(`acquireWithin` is a loop with a bounded sleep). Nothing is assumed of the
holder, which may hang. `EveryCallerReturns` assumes that a caller's thread is
scheduled and its `wait_for` returns at the deadline, and that a thread that has
claimed a response goes on to publish it. Nothing is assumed of the main thread
otherwise: it may hang inside the engine. The other runs state no fairness; that a
join can go on is the invariant `JoinsNeverHang`, which says that one of the
threads being joined, or the one that has the mutex, can take a step.

## 4. What is proved

Each of the eight models that TLC runs has a module of proofs, with one inductive
invariant, `IndInv` (recovery a second one on top of it), one lemma per action that
the action keeps it, and theorems that read the properties off it. Except where said
otherwise the properties are those the runs check; the theorems hold for every value
of the constants that satisfies the module's assumptions.

| Module | Theorems |
| :-- | :-- |
| `BoardTasksProofs` | `TypeCorrect`, `NoLostUpdates`, `LeasesHonoured`, `LeasesExclusive`, `BlockedExactly`, `DependenciesAreFounded`, `WorkIsAlwaysPossible`; action properties `CompletedStays`, `OnlyHolderActs` |
| `BoardKeysProofs` | `TypeCorrect`, `BoardIsBounded`; action property `PinsHold` |
| `ChangeJournalProofs` | `TypeCorrect`, `EverythingCounted`, `MarksTrue`; the refinement `JournalImplementsLog` |
| `CommandQueueProofs` | `TypeCorrect`, `ToldNotStartedIsTrue`, `PausedStaysPaused`, `DrainAnswersAll`; action properties `OneAnswer`, `StartsAreAlone`, `StartsAreInOrder` |
| `ToolCallsProofs` | `TypeCorrect`, `OneRunPerToken`, `CancelHolds`, `RetriesFindTheirJob`, `OverwritesApproved`, `NoThreadSurvives`, `JoinsAreShort`, `JoinedThreadsGoOn` |
| `SessionRoutesProofs` | `SessionHasOneOwner`, `LocksFollowUse`, `SelectionIsHeld`; action property `ReleasesHold` |
| `ManagedRecoveryProofs` | `TypeCorrect`, `OpenOutcomesAreRecorded`, `CompletionsAreProtected`, `MissingProjectsAreRecorded`; `LaterCheckpointsAreCounted`, `CheckpointBeforeIsKept`; action property `EditsGoWhereTheyWereAsked` |
| `UndoLedgerProofs` | `TypeCorrect`, `VerdictsAreTrue`, `KnownIsOffered` |

### Assumptions

The numbers that bound a run are natural numbers, limits that the code cannot set
to zero (`kMaxEntries`, `MaxBatch`, `Kept`, ...) are positive, and the values that
stand for "none" are outside the sets they are added to. Beyond that:

* `BoardTasks`: fewer tasks than ids, so a free id can be made up; requests are what
  the argument checks let through.
* `BoardKeys`: the paths above a path form a chain (they are its prefixes), and the
  values of writes and patches are JSON, so that a value spread over its branch is
  itself a tree (`Spread`). There are finitely many paths.
* `Jobs`: there is a tool that runs as a job. `SessionRoutes`: a thread is not a
  route (both are what points to a lock).
* `UndoLedger`: Didi's names are not a person's (they begin with "Didi: "), and the
  ledger remembers one commit at least (the constructor raises a capacity of 0 to 1).
  A run of the model has room for one editor run and one opened scene.

### The arguments

*Tasks.* `LeaseExclusive` speaks of what two agents believe, and no step looks at
beliefs, so it is not inductive. The argument goes through the file: the lock names
the process inside it (`LockInv`) and what that process loaded is what the file
holds (`NoLostUpdate`); a call's clock is never ahead (`NowInv`); a promise an agent
counts on is on the file, at least as long (`LeaseHonoured`); a request in flight
that could end or shorten a lease has already been taken off its agent's belief
(`RequestInv`); an answer in flight speaks of what the file holds (`ReplyInv`);
leased tasks are in progress and blocked ones are waiting, which a refresh, with
however old a clock, preserves. A stale clock can only see *more* leases as live,
never fewer, which is why deciding with `now_ms` of before the wait is safe.
Exclusiveness follows, since the file names one owner. That something can always be
worked on needs no induction over numbers: `DepsFounded` says that of any set of
tasks one depends on none of the others. A new task keeps it, because nobody can
depend on it yet and what it depends on exists. The search for cycles in
`createsCycle` is not needed for it: the refusal of unknown dependencies is enough.

*Keys.* A board is good if it has its type and is within its limits. What each
operation makes of a good board is good; that of a patch is an induction over its
operations, written as the search for the least one that goes wrong (`LeastNumber`,
from the well-foundedness of the natural numbers), which also shows that the recursion
of the patch is well defined. For the pin (`SeenInv`): the revision of what a caller
read is never ahead of the file's, and at the same revision each path holds what the
caller read, or nothing where an expiry in that read has passed; and no path has an
expiry that was not read, so that a sweep takes nothing else.

*Journal.* A holder's copy is the file's document (`CopyInv`), so a write adds one
entry to what is there, and refines `Record`; every other step is a stutter or
`BegunAgain`. Marks are harder: an undo is looked up without the lock, so the
invariant follows the entry it found by its id (`FoundInv`), which outlives moves and
trims, and says that a call is recorded once (`RecordedInv`). A change may be undone,
redone and undone again, so its mark moves: `MarksInv` says by id that the mark of an
entry is by an undo at least as new as any that is held, and that this one is of that
change or was looked up in an older journal.

*Queue.* A command is in one place at a time: in line, in a body, held, or being
answered (`LineInv`, `RunInv`, `ClaimInv`). In line means not run; only the outermost
frame has a batch (`FrameInv`), which is why nested frames start nothing and order
is kept (`OrderInv`). What was told "not started" has left the line for good, or is a
profiler read that has no sample and will take none (`SettledInv`). Whoever waits is in one of those places (`AccountInv`), and the drain
empties them (`StageInv`) but for the two kinds of the `shutdown` run.

*Calls.* A token that can still be spent has not been (`TokenInv`); a cancel that was
taken is a flag the thread reads before it records its answer (`CancelInv`); what the
loop looked up before its joins can only have expired since (`AskedInv`); a probe
that passes has seen what was approved (`ApprovedInv`); a thread that is not over has
a handle in its entry, among the orphans or with whoever joins it (`ThreadInv`). That
a join is never of a thread that waits for the loop needs more: the loop has the mutex
only in the scopes before its joins, never while it joins (`LoopInv`), and otherwise the
one thread that records has it (`MutexInv`), which can go on; a handle that can be
joined is of a thread that was started (`HandleInv`), and only the loop makes previews
(`StageInv`), so that in every stage a job's call can be in there is a step.

*Routes.* One process points to an inode's lock (`ProcessInv`), an inode is only ever
used for the session it was created for (`TieInv`), and while a session serves, the
inode of its lock file is the only one in use (`UpInv`), because a thread that is about
to remove the file has seen the session gone for good (`ReapInv`). What a thread lets go
of keeps that inode until its connections are closed (the last part of `UpInv`), so the
lock is there exactly while something uses it, and one process owns the session. An
attach that was overtaken finds the epoch or the teardown count ahead of what it read
(`CounterInv`).

*Recovery.* `InboxInv` follows what the editor may still carry out from the dispatch,
when the receipt already says pending, to the steps that settle it, all of which find
nothing left to carry out. `NumberInv` and `StoreInv` say that numbers of mutations
and checkpoints grow, so the checkpoint a receipt names is never another.
`ProjectInv` follows the old project through the renames of a restore, whose receipt
names the place first. `BeforeIsKept` needs a count, `KeptInv`: checkpoints are numbered
without a gap and the store is the last of them, and since the before checkpoint of an
open mutation at most three more were made (the mutation's own after, the one of the
only automatic restart, and one made to accept the state), plus one for each time
retention failed after publishing. So it is still there if
`faults + 4 <= Kept`. TLC finds the bound tight: with three retained and no failure it
is pushed out. The code retains five, and so bears one failure, which is what the run
allows.

*Undo.* The code knows an action by place, version and name. A history's place and
version move together until it is cleared, which raises the version alone; so an action
of Didi's that is still in a history is at the place and version of its reference
(`ActsInv`, `PlaceInv`), and a reference whose difference of the two is not the
history's is of an action that is gone. The converse fails: another action can stand
there. If it is a person's its name differs; if it is Didi's it was committed later, at
a version no higher, and `ReplacedInv` says that then the earlier one is gone. What is
left is whether the ledger shows it: `CommitsInv` says that the ledger is the last
commits of the run without a gap, so it has the replacement whenever the reference is
recent. The same order of serials (`OrderInv`) is the order of the actions in time,
which decides which of the two histories the editor's Undo takes. `OfferedWhenKnown`
needs no bound on age: an action that is in its history was not replaced, so
`replacedLater` finds nothing, whatever the ledger has forgotten.

### What is only model-checked

* Liveness, `WaitEnds` and `EveryCallerReturns`: fairness is outside the prover's
  reach.
* `JoinsNeverHang` as it stands, because its second half uses ENABLED. Its first half is
  the theorem `JoinsAreShort`; `JoinedThreadsGoOn` (the invariant `JoinsGoOn`) is the
  second with the guards of a thread's steps (`CanGoOn`) for ENABLED. On the constants
  of the run TLC finds the two equivalent for these threads in every reachable state.

Every other property of a passing run is the statement of a theorem; that of
`BeforeIsKept` carries the condition above, which the run's constants satisfy.

## 5. Plan

1. *Done:* the board (tasks, keys, lock), the command queue, the proof of the
   lease properties.
2. *Done:* jobs and confirmations composed in `ToolCalls`, `SessionRoutes`,
   `ManagedRecovery`, `UndoLedger`, `ChangeJournal` and its abstract `JournalLog`.
3. *Done:* the proofs of section 4.
4. Left: an atomic board that `BoardTasks` implements; an exactly-one-answer service that
   `CommandQueue` implements.

### Not modelled

* The IPC channel and the process runner: their races are with handles, pipes and
  overlapped I/O of the operating system, whose behaviour the repository does not
  state.
* The table of late answers of detached reimports, log rings, capture cache, profiler
  samples, invariant watch, exploration, scenario runner: bounded buffers and
  interpreters behind one mutex or on one thread. As kinds of held work they appear in
  `CommandQueue`.
* `writeFileAtomically` below the step it promises (staging, flush, rename).
* The engine bridge apart from the undo histories, the forwarding tools, the offline
  parsers, setup, crash capture: no state of didi's own, or text and I/O. Vendored
  and generated code (`json.hpp`, `gdextension_interface.h`).
