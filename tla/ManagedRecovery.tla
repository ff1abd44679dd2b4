-------------------------- MODULE ManagedRecovery --------------------------
(***************************************************************************)
(* Managed mode: the server owns an editor and a copy of the project, takes *)
(* checkpoints around every mutation, restarts the editor once, and can put *)
(* a checkpoint back (src/src/runtime/managed_recovery.cpp, with             *)
(* checkpoint_store.cpp, managed_process.cpp and the part of                 *)
(* ToolRegistry::callTool that brackets a mutation).                         *)
(*                                                                         *)
(* The server makes one call at a time.  A step of it has at most one effect *)
(* on disk (a published file, a rename), because the server may die between *)
(* any two; the editor dies, and carries out what it was sent, at any time. *)
(* Saved content is the set of mutations it contains.  Any write, copy or    *)
(* rename may fail.  Of last_scene only the failure to open it again is kept; *)
(* unprotected_changes and the editor's log only appear in reports and are   *)
(* left out; the mutations that change memory alone are not modelled.        *)
(***************************************************************************)
EXTENDS Naturals, Sequences, SequencesExt

CONSTANTS Kept,          \* completed checkpoints that are retained (5 in the code)
          MaxMutations,  \* bound: how many mutations are asked for
          MaxRestores,   \* bound: how many restores are asked for
          MaxPoints,     \* bound: how many checkpoints are asked for by name
          MaxFaults,     \* bound: how often retention fails after a checkpoint is published
          MaxLaunches    \* bound: how many editors are launched

ASSUME ManagedRecoveryAssumption ==
  /\ Kept \in Nat \ {0}
  /\ \A b \in {MaxMutations, MaxRestores, MaxPoints, MaxFaults, MaxLaunches} : b \in Nat

Ids == 1..MaxMutations
Missing == {0}                           \* no directory there; no mutation has number 0
Content == (SUBSET Ids) \union {Missing}

Outcomes == {"none", "pending", "not_started", "failed_or_unknown",
             "applied_persistence_failed", "applied_checkpoint_failed",
             "applied_journal_failed", "completed", "accepted",
             "restore_prepared", "restored"}
States == {"starting", "waiting_for_files", "ready", "launch_failed", "restarting",
           "stopped", "restoring", "restore_failed"}

\* m_operation: a mutation, its editor and its checkpoints, or a restore and
\* where it keeps the old project.  0 stands for an absent field.
Operation == [outcome: Outcomes, id: Nat, session: Nat, before: Nat, after: Nat, preserved: Nat]
NoOperation == [outcome |-> "none", id |-> 0, session |-> 0, before |-> 0, after |-> 0,
                preserved |-> 0]

VARIABLES m,          \* the members of ManagedRecovery that decide something
          receipt,    \* what recovery.json says
          store,      \* the completed checkpoints, oldest first
          project,    \* content of <container>/project
          staged,     \* content of the staged workspace of the restore in progress
          preserved,  \* content of each preserved-... directory
          ed,         \* the owned editor process
          call,       \* the call the server is in
          pc,         \* where in it
          made        \* the bounds' counts

vars == <<m, receipt, store, project, staged, preserved, ed, call, pc, made>>
disk == <<store, project, staged, preserved>>

\* ret: where a launch returns to.  prior, lease: the session that was selected
\* when the call came, and the one its requests are bound to.
Call == [kind: {"scene", "file"}, prior: Nat, lease: Nat,
         ret: {"serve", "idle", "compare", "before"},
         answer: {"none", "ok", "unknown", "not_started"}]
NoCall == [kind |-> "file", prior |-> 0, lease |-> 0, ret |-> "idle", answer |-> "none"]

TypeOK ==
  /\ m \in [state: States, needs: BOOLEAN, restartUsed: BOOLEAN,
            attached: Nat, route: Nat, op: Operation]
  /\ receipt \in [needs: BOOLEAN, op: Operation]
  /\ \A i \in DOMAIN store : store[i] \in [id: Nat, files: SUBSET Ids]
  /\ project \in Content /\ staged \in Content
  /\ preserved \in [1..MaxRestores -> Content]
  /\ ed \in [run: {"none", "running", "unproven", "crashed", "closed"}, session: Nat,
             inbox: SUBSET Ids, memory: SUBSET Ids]
  /\ call \in Call
  /\ made \in [points: Nat, mutations: 0..MaxMutations, restores: 0..MaxRestores,
               asked: 0..MaxPoints, faults: 0..MaxFaults]

NewMemory == [state |-> "starting", needs |-> FALSE, restartUsed |-> FALSE,
              attached |-> 0, route |-> 0, op |-> NoOperation]
NoneMade == [points |-> 1, mutations |-> 0, restores |-> 0, asked |-> 0, faults |-> 0]

\* start(), up to the launch: the baseline checkpoint and a first receipt.
Init ==
  /\ m = NewMemory
  /\ receipt = [needs |-> FALSE, op |-> NoOperation]
  /\ store = <<[id |-> 1, files |-> {}]>>
  /\ project = {} /\ staged = Missing
  /\ preserved = [n \in 1..MaxRestores |-> Missing]
  /\ ed = [run |-> "none", session |-> 0, inbox |-> {}, memory |-> {}]
  /\ call = [NoCall EXCEPT !.ret = "serve"]
  /\ pc = "launch"
  /\ made = NoneMade

-----------------------------------------------------------------------------
(* Receipts and checkpoints.                                               *)

\* The call ends; a failed start ends the server.
Ends == /\ pc' = IF call.ret = "serve" THEN "ended" ELSE "idle"
        /\ call' = NoCall

Goes(where) == pc' = where /\ UNCHANGED call

\* journal(): a complete receipt replaces the old one, or nothing changes.
Journalled(mem) == receipt' = [needs |-> mem.needs, op |-> mem.op]
NotJournalled == UNCHANGED receipt

\* m becomes mem and a receipt is attempted, whatever comes of it.
JournalTried(mem) ==
  /\ m' = mem
  /\ Journalled(mem) \/ NotJournalled
  /\ UNCHANGED <<disk, ed, made>>

\* Mutant: only the two newest are retained.
Retained_two(s) == IF Len(s) > 2 THEN SubSeq(s, Len(s) - 1, Len(s)) ELSE s

Retained(s) == IF Len(s) > Kept THEN SubSeq(s, Len(s) - Kept + 1, Len(s)) ELSE s

NextPoint == made.points + 1

\* CheckpointStore::create: a copy of the saved files is published by a rename
\* and the oldest beyond the retained ones removed.
Create ==
  /\ project # Missing
  /\ store' = Retained(Append(store, [id |-> NextPoint, files |-> project]))
  /\ made' = [made EXCEPT !.points = NextPoint]
  /\ UNCHANGED <<project, staged, preserved>>

\* It reports failure: nothing was published, or the new checkpoint was and
\* retention then failed.
CreateFails ==
  \/ UNCHANGED <<disk, made>>
  \/ /\ project # Missing
     /\ made.faults < MaxFaults
     /\ store' = Append(store, [id |-> NextPoint, files |-> project])
     /\ made' = [made EXCEPT !.points = NextPoint, !.faults = @ + 1]
     /\ UNCHANGED <<project, staged, preserved>>

-----------------------------------------------------------------------------
(* The editor.                                                             *)

Alive == ed.run \in {"running", "unproven"}

\* activeSession(): routes to an editor that has exited are dropped first.
Active == IF ed.run = "running" THEN m.route ELSE 0

EditorExits(how) ==
  /\ ed.run = "running"
  /\ ed' = [ed EXCEPT !.run = how, !.inbox = {}, !.memory = {}]
  /\ UNCHANGED <<m, receipt, disk, call, pc, made>>

\* The editor carries out a request it was sent, however long ago.
EditorApplies(id) ==
  /\ Alive
  /\ id \in ed.inbox
  /\ ed' = [ed EXCEPT !.inbox = @ \ {id}, !.memory = @ \union {id}]
  /\ UNCHANGED <<m, receipt, disk, call, pc, made>>

\* launchAndAttach: the child is started ...
LaunchStarts ==
  /\ pc = "launch"
  /\ project # Missing
  /\ ~Alive
  /\ ed.session < MaxLaunches
  /\ ed' = [run |-> "running", session |-> ed.session + 1, inbox |-> {}, memory |-> {}]
  /\ Goes("attach")
  /\ UNCHANGED <<m, receipt, disk, made>>

\* ... attached when it has published its session ...
LaunchAttaches ==
  /\ pc = "attach"
  /\ ed.run = "running"
  /\ m' = [m EXCEPT !.attached = ed.session, !.route = ed.session, !.state = "waiting_for_files"]
  /\ Goes("settle")
  /\ UNCHANGED <<receipt, disk, ed, made>>

\* ... its files are checkpointed once they are quiet, again if that fails ...
LaunchSettles ==
  /\ pc = "settle"
  /\ ed.run = "running"
  /\ \/ Create /\ m' = [m EXCEPT !.state = "ready"] /\ Goes("announce")
     \/ CreateFails /\ UNCHANGED m /\ Goes("settle")
  /\ UNCHANGED <<receipt, ed>>

\* ... and the receipt is written.  A launch whose receipt fails has failed,
\* and leaves the state ready.
LaunchAnnounces ==
  /\ pc = "announce"
  /\ \/ /\ Journalled(m)
        /\ pc' = IF call.ret = "serve" THEN "idle" ELSE call.ret
        /\ call' = IF call.ret \in {"serve", "idle"} THEN NoCall ELSE call
     \/ NotJournalled /\ Ends
  /\ UNCHANGED <<m, disk, ed, made>>

\* Any of it fails or takes longer than the deadline; last of all, the scene that
\* was open before may not open again.
LaunchFails ==
  /\ pc \in {"launch", "attach", "settle", "announce"}
  /\ JournalTried([m EXCEPT !.state = "launch_failed"])
  /\ Ends

-----------------------------------------------------------------------------
(* ensureEditor, on the way to call.ret.                                   *)

EnsureFine ==
  /\ pc = "ensure"
  /\ Alive /\ m.state = "ready" /\ Active # 0 /\ Active = m.attached
  /\ pc' = call.ret
  /\ call' = IF call.ret = "idle" THEN NoCall ELSE call
  /\ UNCHANGED <<m, receipt, disk, ed, made>>

EnsureRefused ==
  /\ pc = "ensure"
  /\ \/ m.state = "restore_failed"
     \/ Alive /\ (m.state # "ready" \/ Active = 0 \/ Active # m.attached)
  /\ Ends
  /\ UNCHANGED <<m, receipt, disk, ed, made>>

\* The editor was closed, or has been restarted before.
EnsureSpent ==
  /\ pc = "ensure"
  /\ m.state # "restore_failed"
  /\ ~Alive
  /\ m.restartUsed \/ ed.run = "closed"
  /\ JournalTried([m EXCEPT !.state = "stopped"])
  /\ Ends

\* The one automatic restart, spent whether or not its receipt is written.
EnsureRestarts ==
  /\ pc = "ensure"
  /\ m.state # "restore_failed"
  /\ ed.run = "crashed" /\ ~m.restartUsed
  /\ LET mem == [m EXCEPT !.restartUsed = TRUE, !.state = "restarting"]
     IN  \/ Journalled(mem) /\ m' = [mem EXCEPT !.route = 0] /\ Goes("launch")
         \/ NotJournalled /\ m' = mem /\ Ends
  /\ UNCHANGED <<disk, ed, made>>

\* runtime_recover_editor, and every ordinary read.
RecoverEditor ==
  /\ pc = "idle"
  /\ Goes("ensure")
  /\ UNCHANGED <<m, receipt, disk, ed, made>>

-----------------------------------------------------------------------------
(* A mutation, as ToolRegistry::callTool brackets it.                      *)

MutationCalled(kind) ==
  /\ pc = "idle"
  /\ made.mutations < MaxMutations
  /\ made' = [made EXCEPT !.mutations = @ + 1]
  /\ call' = [NoCall EXCEPT !.kind = kind, !.prior = Active, !.ret = "compare"]
  /\ pc' = "ensure"
  /\ UNCHANGED <<m, receipt, disk, ed>>

\* Mutant: the call goes to whatever editor there is by now.
SameEditor_any == Active # 0

\* The editor the caller knew is the one there is.
SameEditor == call.prior # 0 /\ Active = call.prior

\* Otherwise the mutation is not started.  The requests of one that is are bound
\* to the route of now.
MutationCompared ==
  /\ pc = "compare"
  /\ IF SameEditor
       THEN pc' = "guard" /\ call' = [call EXCEPT !.lease = Active]
       ELSE Ends
  /\ UNCHANGED <<m, receipt, disk, ed, made>>

\* beforeMutation: nothing starts while an earlier outcome is unsettled, and
\* ensureEditor is asked once more.
MutationGuarded ==
  /\ pc = "guard"
  /\ IF m.needs THEN Ends
                ELSE pc' = "ensure" /\ call' = [call EXCEPT !.ret = "before"]
  /\ UNCHANGED <<m, receipt, disk, ed, made>>

BeforeCheckpointed ==
  /\ pc = "before"
  /\ \/ Create /\ Goes("record")
     \/ CreateFails /\ Ends
  /\ UNCHANGED <<m, receipt, ed>>

Pending == [NoOperation EXCEPT !.outcome = "pending", !.id = made.mutations,
                               !.session = m.attached, !.before = made.points]

\* Mutant: the mutation goes on without its receipt.
PendingRecorded_unwritten ==
  /\ pc = "record"
  /\ m' = [m EXCEPT !.op = Pending, !.needs = TRUE]
  /\ Journalled(m') \/ NotJournalled
  /\ Goes("dispatch")
  /\ UNCHANGED <<disk, ed, made>>

\* The receipt of a mutation about to run.
PendingRecorded ==
  /\ pc = "record"
  /\ m' = [m EXCEPT !.op = Pending, !.needs = TRUE]
  /\ \/ Journalled(m') /\ Goes("dispatch")
     \/ NotJournalled /\ Ends
  /\ UNCHANGED <<disk, ed, made>>

Answers(a) == pc' = "answered" /\ call' = [call EXCEPT !.answer = a]

\* The handler runs.  A scene edit is sent to the leased editor; a file edit
\* writes the saved files itself, and may fail after it has.
Dispatched ==
  /\ pc = "dispatch"
  /\ \/ /\ call.kind = "scene"
        /\ ed.run = "running" /\ ed.session = call.lease
        /\ ed' = [ed EXCEPT !.inbox = @ \union {m.op.id}]
        /\ Goes("sent")
        /\ UNCHANGED project
     \/ /\ call.kind = "scene"
        /\ Answers("not_started") \/ Answers("unknown")
        /\ UNCHANGED <<ed, project>>
     \/ /\ call.kind = "file"
        /\ \/ project' = project \union {m.op.id} /\ (Answers("ok") \/ Answers("unknown"))
           \/ project' = project /\ Answers("unknown")
        /\ UNCHANGED ed
  /\ UNCHANGED <<m, receipt, store, staged, preserved, made>>

\* The editor's answer: what it says is true (CommandQueue); with a lost
\* connection, a deadline or a dead editor the outcome is unknown, and the route
\* is quarantined or kept.
Answered ==
  /\ pc = "sent"
  /\ \/ m.op.id \in ed.memory /\ Answers("ok") /\ UNCHANGED <<m, ed>>
     \/ /\ m.op.id \in ed.inbox
        /\ ed' = [ed EXCEPT !.inbox = @ \ {m.op.id}]
        /\ Answers("not_started")
        /\ UNCHANGED m
     \/ Answers("unknown") /\ m' \in {m, [m EXCEPT !.route = 0]} /\ UNCHANGED ed
  /\ UNCHANGED <<receipt, disk, made>>

\* afterMutation of a failed call: settled only if it did not start and the
\* receipt that says so was written.
FailureRecorded ==
  /\ pc = "answered"
  /\ call.answer # "ok"
  /\ LET settled == call.answer = "not_started"
         mem == [m EXCEPT !.op.outcome = IF settled THEN "not_started" ELSE "failed_or_unknown",
                          !.needs = ~settled]
     IN  \/ Journalled(mem) /\ m' = mem
         \/ NotJournalled /\ m' = [mem EXCEPT !.needs = TRUE]
  /\ Ends
  /\ UNCHANGED <<disk, ed, made>>

\* Mutant: the checkpoint is taken of whatever is on disk.
SceneSaved_never ==
  /\ pc = "answered"
  /\ call.answer = "ok"
  /\ Goes("after")
  /\ UNCHANGED <<m, receipt, disk, ed, made>>

\* A scene edit is saved first; a file edit is on disk already.
SceneSaved ==
  /\ pc = "answered"
  /\ call.answer = "ok"
  /\ Goes("after")
  /\ \/ call.kind = "file" /\ UNCHANGED project
     \/ /\ call.kind = "scene"
        /\ ed.run = "running" /\ Active # 0
        /\ project' = project \union ed.memory
  /\ UNCHANGED <<m, receipt, store, staged, preserved, ed, made>>

SaveFails ==
  /\ pc = "answered"
  /\ call.answer = "ok" /\ call.kind = "scene"
  /\ JournalTried([m EXCEPT !.op.outcome = "applied_persistence_failed"])
  /\ Ends

AfterCheckpointed ==
  /\ pc = "after"
  /\ \/ Create /\ Goes("complete")
     \/ CreateFails /\ Goes("unprotected")
  /\ UNCHANGED <<m, receipt, ed>>

AfterFailed ==
  /\ pc = "unprotected"
  /\ JournalTried([m EXCEPT !.op.outcome = "applied_checkpoint_failed"])
  /\ Ends

CompletionRecorded ==
  /\ pc = "complete"
  /\ LET mem == [m EXCEPT !.op.outcome = "completed", !.op.after = made.points, !.needs = FALSE]
     IN  \/ Journalled(mem) /\ m' = mem
         \/ /\ NotJournalled
            /\ m' = [mem EXCEPT !.op.outcome = "applied_journal_failed", !.needs = TRUE]
  /\ Ends
  /\ UNCHANGED <<disk, ed, made>>

-----------------------------------------------------------------------------
(* runtime_checkpoint.                                                     *)

\* An unsettled outcome is accepted only explicitly, and only when the editor
\* that may still carry it out is gone or has been replaced.
MayAccept(accept) ==
  /\ m.needs => accept
  /\ m.needs /\ m.op.session \in {0, m.attached} => ~Alive

CheckpointAsked(accept) ==
  /\ pc = "idle"
  /\ made.asked < MaxPoints
  /\ MayAccept(accept)
  /\ \/ /\ project # Missing
        /\ store' = Retained(Append(store, [id |-> NextPoint, files |-> project]))
        /\ made' = [made EXCEPT !.points = NextPoint, !.asked = @ + 1]
        /\ UNCHANGED <<project, staged, preserved>>
        /\ Goes("accept")
     \/ CreateFails /\ Goes("idle")
  /\ UNCHANGED <<m, receipt, ed>>

CheckpointRecorded ==
  /\ pc = "accept"
  /\ LET mem == [m EXCEPT !.needs = FALSE,
                          !.op.outcome = IF @ = "none" THEN "none" ELSE "accepted"]
     IN  \/ Journalled(mem) /\ m' = mem
         \/ NotJournalled /\ m' = [mem EXCEPT !.needs = TRUE]
  /\ Ends
  /\ UNCHANGED <<disk, ed, made>>

-----------------------------------------------------------------------------
(* runtime_restore_checkpoint.                                             *)

\* stageRestore: the checkpoint is validated and copied beside the project.
RestoreAsked ==
  /\ pc = "idle"
  /\ made.restores < MaxRestores
  /\ \E i \in DOMAIN store : staged' = store[i].files
  /\ made' = [made EXCEPT !.restores = @ + 1]
  /\ Goes("prepare")
  /\ UNCHANGED <<m, receipt, store, project, preserved, ed>>

\* The receipt names where the old project will be before anything moves.
RestorePrepared ==
  /\ pc = "prepare"
  /\ LET mem == [m EXCEPT !.state = "restoring", !.needs = TRUE,
                          !.op = [NoOperation EXCEPT !.outcome = "restore_prepared",
                                                     !.preserved = made.restores]]
     IN  \/ Journalled(mem) /\ m' = mem /\ Goes("stop")
         \/ NotJournalled /\ m' = mem /\ Ends
  /\ UNCHANGED <<disk, ed, made>>

\* The route goes and the editor is killed, if it can be proven to be gone.
EditorStopped ==
  /\ pc = "stop"
  /\ m' = [m EXCEPT !.route = 0]
  /\ \/ ed' = IF ed.run = "running"
                THEN [ed EXCEPT !.run = "crashed", !.inbox = {}, !.memory = {}] ELSE ed
     \/ ed.run = "running" /\ ed' = [ed EXCEPT !.run = "unproven"]
  /\ Goes("away")
  /\ UNCHANGED <<receipt, disk, made>>

RestoreFailed ==
  /\ JournalTried([m EXCEPT !.state = "restore_failed"])
  /\ Ends

StopUnproven ==
  /\ pc = "away"
  /\ Alive
  /\ RestoreFailed

\* Mutant: the staged workspace is moved in over the project.
MovedAway_removed ==
  /\ pc = "away"
  /\ ~Alive /\ project # Missing
  /\ project' = Missing
  /\ Goes("in")
  /\ UNCHANGED <<m, receipt, store, staged, preserved, ed, made>>

MovedAway ==
  /\ pc = "away"
  /\ ~Alive /\ project # Missing
  /\ preserved' = [preserved EXCEPT ![made.restores] = project]
  /\ project' = Missing
  /\ Goes("in")
  /\ UNCHANGED <<m, receipt, store, staged, ed, made>>

\* The rename fails, or there is no project to move.
MoveAwayFails ==
  /\ pc = "away"
  /\ ~Alive
  /\ RestoreFailed

MovedIn ==
  /\ pc = "in"
  /\ project' = staged
  /\ staged' = Missing
  /\ Goes("installed")
  /\ UNCHANGED <<m, receipt, store, preserved, ed, made>>

\* The staged workspace did not go in: the old project goes back, if it will.
RolledBack ==
  /\ pc = "in"
  /\ \/ /\ project' = preserved[made.restores]
        /\ preserved' = [preserved EXCEPT ![made.restores] = Missing]
     \/ UNCHANGED <<project, preserved>>
  /\ Goes("fail")
  /\ UNCHANGED <<m, receipt, store, staged, ed, made>>

\* Either that, or the staged workspace went in and cannot be made the current
\* directory: then there is a project and nothing is moved back.
RollbackRecorded ==
  /\ pc \in {"fail", "installed"}
  /\ RestoreFailed

\* Settled in memory once the restored files are checkpointed; the receipt is
\* the launch's.
Restored ==
  /\ pc = "installed"
  /\ LET mem == [m EXCEPT !.op.outcome = "restored"]
     IN  \/ Create /\ m' = [mem EXCEPT !.needs = FALSE] /\ Goes("launch")
         \/ CreateFails /\ m' = mem /\ Ends
  /\ UNCHANGED <<receipt, ed>>

-----------------------------------------------------------------------------

\* The server dies, or is stopped; what is on disk is all there is, and no later
\* server reads it.  Where nothing ties the editor to the server, it lives on.
HostEnds ==
  /\ pc # "ended"
  /\ pc' = "ended"
  /\ call' = NoCall
  /\ m' = NewMemory
  /\ made' = NoneMade
  /\ UNCHANGED <<receipt, disk, ed>>

Next ==
  \/ LaunchStarts \/ LaunchAttaches \/ LaunchSettles \/ LaunchAnnounces \/ LaunchFails
  \/ EnsureFine \/ EnsureRefused \/ EnsureSpent \/ EnsureRestarts \/ RecoverEditor
  \/ \E kind \in {"scene", "file"} : MutationCalled(kind)
  \/ MutationCompared \/ MutationGuarded \/ BeforeCheckpointed \/ PendingRecorded
  \/ Dispatched \/ Answered \/ FailureRecorded \/ SceneSaved \/ SaveFails
  \/ AfterCheckpointed \/ AfterFailed \/ CompletionRecorded
  \/ \E accept \in BOOLEAN : CheckpointAsked(accept)
  \/ CheckpointRecorded
  \/ RestoreAsked \/ RestorePrepared \/ EditorStopped \/ StopUnproven
  \/ MovedAway \/ MoveAwayFails \/ MovedIn \/ RolledBack \/ RollbackRecorded \/ Restored
  \/ \E how \in {"crashed", "closed"} : EditorExits(how)
  \/ \E id \in Ids : EditorApplies(id)
  \/ HostEnds

Spec == Init /\ [][Next]_vars

-----------------------------------------------------------------------------
(* Properties.                                                             *)

\* An operation the editor may still carry out is unsettled, in memory and in
\* the receipt on disk: no receipt that settles it is ever written while its
\* editor may be alive, and no failed write leaves an older one that does.  So a
\* server that dies at any point leaves recovery.json saying so, and an
\* acceptance of the saved files is never overtaken (beforeMutation,
\* afterMutation, checkpoint, restore).
UnsettledIsRecorded ==
  Alive /\ ed.inbox # {} => receipt.needs /\ (pc # "ended" => m.needs)

\* A receipt that says completed is true: the checkpoint it names, while it is
\* retained, holds the change (afterMutation saves, then checkpoints, then
\* writes).
CompletedIsProtected ==
  receipt.op.outcome = "completed" =>
    \A i \in DOMAIN store : store[i].id = receipt.op.after => receipt.op.id \in store[i].files

\* While the outcome of a mutation is open, the checkpoint taken before it can
\* still be restored: neither its own later checkpoint nor the ones of a
\* restarted editor push it out of the store.
BeforeIsKept ==
  m.needs /\ m.op.outcome \in {"pending", "failed_or_unknown", "applied_persistence_failed",
                               "applied_checkpoint_failed", "applied_journal_failed"} =>
    \E i \in DOMAIN store : store[i].id = m.op.before

\* If there is no project, the receipt on disk says that a restore is unfinished
\* and the old project is where that restore, or an earlier one, preserved it.
MissingProjectIsPreserved ==
  project = Missing =>
    /\ receipt.needs /\ receipt.op.outcome = "restore_prepared"
    /\ \E n \in 1..receipt.op.preserved : preserved[n] # Missing

\* A scene edit is only ever sent to the editor that was selected when it was
\* asked for, although the editor may die and be restarted by either
\* ensureEditor on the way.
NeverSentToRestarted ==
  [][\A id \in Ids : id \in ed'.inbox \ ed.inbox => ed'.session = call.prior]_vars
=============================================================================
