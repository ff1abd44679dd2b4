----------------------------- MODULE BoardTasks -----------------------------
(***************************************************************************)
(* The task half of the shared blackboard                                  *)
(* (src/src/offline/blackboard.cpp): tasks with dependencies that agents   *)
(* create, claim under a lease, renew, hand back, complete and list, each  *)
(* call a load-modify-save of one JSON file under FileLock.                *)
(*                                                                         *)
(* Agents are processes, each with one call in flight.  A request is drawn *)
(* from the constant set Requests, already past the argument checks that   *)
(* come before the lock.  The board's key space is reduced to the expiry   *)
(* of one key: it is there because a resource read treats it together with *)
(* the leases.  Titles, notes, artifacts and progress are left out; a tag  *)
(* filter is the set of ids it admits.                                     *)
(***************************************************************************)
EXTENDS FileLock, Integers, FiniteSets

CONSTANTS TaskIds,    \* task ids, in the order of the board's keys
          MaxTasks,   \* kBlackboardMaxTasks
          Requests    \* the calls agents make

VARIABLES file,       \* the board on disk
          copy,       \* the board each lock holder loaded
          req,        \* the request each process is serving, or NoRequest
          reply,      \* the answer each process is about to give
          believes    \* believes[t][a]: until when agent a was told it holds t

boardVars == <<file, copy, req, reply, believes>>
vars == <<lockVars, boardVars>>

-----------------------------------------------------------------------------
(* The board and the calls.                                                *)

Statuses == {"blocked", "pending", "in_progress", "needs_review",
             "completed", "failed"}

\* A task; status "none" is an id nobody has created.  No lease: owner NoProc.
Task == [status : Statuses \union {"none"}, deps : SUBSET TaskIds,
         owner : Procs \union {NoProc}, expires : Nat,
         prio : Int, created : Nat]

NoTask == [status |-> "none", deps |-> {}, owner |-> NoProc, expires |-> 0,
           prio |-> 0, created |-> 0]

\* ttl is when the one modelled key of the board expires; 0 if it is absent.
Board == [tasks : [TaskIds -> Task], ttl : Nat]

EmptyBoard == [tasks |-> [i \in TaskIds |-> NoTask], ttl |-> 0]

Ops == {"create", "claim", "update", "complete", "list", "resource", "write"}

\* task 0 is "no task_id"; among is what the task_id and tag filters of a claim
\* admit; lease is lease_seconds, renew_lease_seconds (0: none) or ttl_seconds
\* (0: none); status "keep" is an update without one.
Request == [op : Ops \union {"none"}, task : TaskIds \union {0}, among : SUBSET TaskIds,
            deps : SUBSET TaskIds, prio : Int, lease : Nat,
            status : {"keep", "needs_review", "failed", "pending"},
            dry : BOOLEAN]

NoRequest == [op |-> "none", task |-> 0, among |-> {}, deps |-> {}, prio |-> 0,
              lease |-> 0, status |-> "keep", dry |-> FALSE]

Reply == [code : {"none", "ok", "empty", "refused", "error"},
          task : TaskIds \union {0}, until : Nat]

NoReply == [code |-> "none", task |-> 0, until |-> 0]
Refused == [NoReply EXCEPT !.code = "refused"]
Failed  == [NoReply EXCEPT !.code = "error"]
Done    == [NoReply EXCEPT !.code = "ok"]

ASSUME BoardTasksAssumption ==
  /\ TaskIds \subseteq Nat \ {0}
  /\ IsFiniteSet(TaskIds)
  /\ MaxTasks \in Nat
  /\ MaxTasks < Cardinality(TaskIds)   \* a free id can always be made up
  /\ Requests \subseteq Request
  /\ \A r \in Requests :
       /\ r.op = "claim" => r.lease > 0
       /\ r.op \in {"update", "complete"} => r.task # 0

-----------------------------------------------------------------------------
(* The helpers of the task section.                                        *)

Exists(tasks, i) == tasks[i].status # "none"
Existing(tasks) == {i \in TaskIds : Exists(tasks, i)}

HasLiveLease(task, t) == task.owner # NoProc /\ task.expires > t

\* The holder never renewed.
LapseLeases(tasks, t) ==
  [i \in TaskIds |->
     IF tasks[i].status = "in_progress" /\ ~HasLiveLease(tasks[i], t)
     THEN [tasks[i] EXCEPT !.status = "pending", !.owner = NoProc, !.expires = 0]
     ELSE tasks[i]]

Ready(tasks, deps) == \A d \in deps : tasks[d].status = "completed"

ReleaseReady(tasks) ==
  [i \in TaskIds |->
     IF tasks[i].status = "blocked" /\ Ready(tasks, tasks[i].deps)
     THEN [tasks[i] EXCEPT !.status = "pending"]
     ELSE tasks[i]]

RefreshTasks(tasks, t) == ReleaseReady(LapseLeases(tasks, t))

\* sweepExpired, for the one key.
KeyLapsed(board, t) == board.ttl # 0 /\ board.ttl <= t
SweepExpired(board, t) ==
  IF KeyLapsed(board, t) THEN [board EXCEPT !.ttl = 0] ELSE board

\* A depth-first search from deps meets id iff every set that holds deps and is
\* closed under dependencies holds id.
CreatesCycle(tasks, id, deps) ==
  \A C \in SUBSET TaskIds :
    deps \subseteq C /\ (\A d \in C : tasks[d].deps \subseteq C) => id \in C

\* generateTaskId: the first free id.
IsFirstFree(tasks, i) ==
  ~Exists(tasks, i) /\ \A j \in TaskIds : j < i => Exists(tasks, j)

-----------------------------------------------------------------------------
(* The steps of a call.                                                    *)

Init ==
  /\ LockInit
  /\ file = EmptyBoard
  /\ copy = [p \in Procs |-> EmptyBoard]
  /\ req = [p \in Procs |-> NoRequest]
  /\ reply = [p \in Procs |-> NoReply]
  /\ believes = [t \in TaskIds |-> [a \in Procs |-> 0]]

\* What agent p may still count on for task t once it has sent request r: a call
\* that gives the task up or moves its expiry may take effect whatever answer
\* comes back.
BeliefAfterSending(p, r, t) ==
  LET old == believes[t][p]
      end == clock + r.lease
  IN  IF r.dry \/ r.task # t THEN old
      ELSE IF r.op = "complete" \/ (r.op = "update" /\ r.status # "keep") THEN 0
      ELSE IF r.op = "update" /\ r.lease # 0 /\ end < old THEN end
      ELSE old

Call(p) ==
  /\ Arrive(p)
  /\ \E r \in Requests :
       /\ req' = [req EXCEPT ![p] = r]
       /\ believes' = [t \in TaskIds |->
            [believes[t] EXCEPT ![p] = BeliefAfterSending(p, r, t)]]
  /\ UNCHANGED <<file, copy, reply>>

\* withBoardLock takes the lock and the operation loads the board.
LockAndLoad(p) ==
  /\ Acquire(p)
  /\ copy' = [copy EXCEPT ![p] = file]
  /\ UNCHANGED <<file, req, reply, believes>>

\* The locals of a call go with it.
Forget(p) ==
  /\ copy' = [copy EXCEPT ![p] = EmptyBoard]
  /\ req' = [req EXCEPT ![p] = NoRequest]
  /\ reply' = [reply EXCEPT ![p] = NoReply]

TimedOut(p) == GiveUp(p) /\ Forget(p) /\ UNCHANGED <<file, believes>>

Crash(p) == Die(p) /\ Forget(p) /\ UNCHANGED <<file, believes>>

Advance == Tick /\ UNCHANGED boardVars

\* The call serves op under the lock.
Serving(p, op) ==
  /\ Operate(p)
  /\ req[p].op = op
  /\ copy' = [copy EXCEPT ![p] = EmptyBoard]
  /\ UNCHANGED <<req, believes>>

\* An answer that leaves the file alone.
Answer(p, a) ==
  /\ reply' = [reply EXCEPT ![p] = a]
  /\ UNCHANGED file

\* saveBoard: the whole file is replaced by one rename, or not at all.
SaveBoard(p, board, a) ==
  \/ /\ file' = board
     /\ reply' = [reply EXCEPT ![p] = a]
  \/ Answer(p, Failed)

\* saveAndReadBack: the board may be saved and the read back fail.
SaveAndReadBack(p, board, a) ==
  \/ SaveBoard(p, board, a)
  \/ /\ file' = board
     /\ reply' = [reply EXCEPT ![p] = Failed]

\* loadBoard refuses a file it cannot read, whatever the operation.
LoadFails(p) ==
  /\ Serving(p, req[p].op)
  /\ Answer(p, Failed)

-----------------------------------------------------------------------------
(* The operations.                                                         *)

\* The id a create uses: the one it names, or the first free one.
NewId(tasks, r, id) == IF r.task # 0 THEN id = r.task ELSE IsFirstFree(tasks, id)

\* Mutant: an unknown dependency is let through.
CreateRefused_unknownDependency(tasks, r, id) ==
  \/ Cardinality(Existing(tasks)) >= MaxTasks
  \/ Exists(tasks, id)
  \/ id \in r.deps
  \/ CreatesCycle(tasks, id, r.deps)

CreateRefused(tasks, r, id) ==
  \/ Cardinality(Existing(tasks)) >= MaxTasks
  \/ Exists(tasks, id)
  \/ id \in r.deps
  \/ \E d \in r.deps : ~Exists(tasks, d)
  \/ CreatesCycle(tasks, id, r.deps)

\* Mutant: a create forgets that its dependencies may be unfinished.
CreatedTask_alwaysPending(tasks, r, t) ==
  [NoTask EXCEPT !.status = "pending", !.deps = r.deps, !.prio = r.prio,
                 !.created = t]

CreatedTask(tasks, r, t) ==
  [NoTask EXCEPT !.status = IF Ready(tasks, r.deps) THEN "pending" ELSE "blocked",
                 !.deps = r.deps, !.prio = r.prio, !.created = t]

TaskCreate(p) ==
  LET r == req[p]
      tasks == RefreshTasks(copy[p].tasks, now[p])
  IN  /\ Serving(p, "create")
      /\ \E id \in TaskIds :
           /\ NewId(tasks, r, id)
           /\ \/ CreateRefused(tasks, r, id) /\ Answer(p, Refused)
              \/ ~CreateRefused(tasks, r, id) /\ r.dry /\ Answer(p, Done)
              \/ /\ ~CreateRefused(tasks, r, id)
                 /\ ~r.dry
                 /\ SaveAndReadBack(p,
                      [copy[p] EXCEPT !.tasks =
                         [tasks EXCEPT ![id] = CreatedTask(tasks, r, now[p])]],
                      [Done EXCEPT !.task = id])

\* Mutant: a claim looks at the status "not finished", not at the lease.
Candidates_stealing(tasks, r, t) ==
  {i \in r.among : tasks[i].status \in {"pending", "in_progress"}}

\* The tasks a claim may choose from.
Candidates(tasks, r, t) ==
  {i \in r.among : tasks[i].status = "pending" /\ ~HasLiveLease(tasks[i], t)}

\* Highest priority first, then the oldest, then the first key.
Before(tasks, i, j) ==
  \/ tasks[i].prio > tasks[j].prio
  \/ /\ tasks[i].prio = tasks[j].prio
     /\ \/ tasks[i].created < tasks[j].created
        \/ tasks[i].created = tasks[j].created /\ i < j

\* Mutant: the sign of the lease slips.
Claimed_backwards(task, a, t, lease) ==
  [task EXCEPT !.status = "in_progress", !.owner = a, !.expires = t - lease]

Claimed(task, a, t, lease) ==
  [task EXCEPT !.status = "in_progress", !.owner = a, !.expires = t + lease]

TaskClaim(p) ==
  LET r == req[p]
      tasks == RefreshTasks(copy[p].tasks, now[p])
      candidates == Candidates(tasks, r, now[p])
  IN  /\ Serving(p, "claim")
      /\ \/ \* Nothing to claim: an error if the task was named, and the leases
            \* this call reclaimed are kept.
            LET a == IF r.task # 0 THEN Refused ELSE [NoReply EXCEPT !.code = "empty"]
            IN /\ candidates = {}
               /\ IF r.dry \/ tasks = copy[p].tasks
                  THEN Answer(p, a)
                  ELSE SaveBoard(p, [copy[p] EXCEPT !.tasks = tasks], a)
         \/ \E i \in candidates :
              /\ \A j \in candidates \ {i} : Before(tasks, i, j)
              /\ IF r.dry
                 THEN Answer(p, Done)
                 ELSE SaveAndReadBack(p,
                        [copy[p] EXCEPT !.tasks =
                           [tasks EXCEPT ![i] = Claimed(tasks[i], p, now[p], r.lease)]],
                        [code |-> "ok", task |-> i, until |-> now[p] + r.lease])

\* Mutant: any agent may update a leased task.
UpdateRefused_anyAgent(task, a, r, t) ==
  \/ task.status \in {"none", "completed"}
  \/ /\ ~HasLiveLease(task, t)
     /\ ~(r.status = "pending" /\ task.status \in {"needs_review", "failed"})

\* Mutant: anything without a lease may be reopened.
UpdateRefused_reopensAll(task, a, r, t) ==
  \/ task.status = "none"
  \/ HasLiveLease(task, t) /\ task.owner # a
  \/ ~HasLiveLease(task, t) /\ r.status # "pending"

\* An update needs the caller's live lease; reopening reviewed or failed work
\* needs none.
UpdateRefused(task, a, r, t) ==
  \/ task.status \in {"none", "completed"}
  \/ HasLiveLease(task, t) /\ task.owner # a
  \/ /\ ~HasLiveLease(task, t)
     /\ ~(r.status = "pending" /\ task.status \in {"needs_review", "failed"})

Updated(task, a, r, t) ==
  IF r.status # "keep"
  THEN [task EXCEPT !.status = r.status, !.owner = NoProc, !.expires = 0]
  ELSE IF r.lease # 0
  THEN [task EXCEPT !.owner = a, !.expires = t + r.lease]
  ELSE task

TaskUpdate(p) ==
  LET r == req[p]
      i == r.task
      tasks == RefreshTasks(copy[p].tasks, now[p])
      task == Updated(tasks[i], p, r, now[p])
  IN  /\ Serving(p, "update")
      /\ \/ UpdateRefused(tasks[i], p, r, now[p]) /\ Answer(p, Refused)
         \/ ~UpdateRefused(tasks[i], p, r, now[p]) /\ r.dry /\ Answer(p, Done)
         \/ /\ ~UpdateRefused(tasks[i], p, r, now[p])
            /\ ~r.dry
            /\ SaveAndReadBack(p,
                 [copy[p] EXCEPT !.tasks =
                    RefreshTasks([tasks EXCEPT ![i] = task], now[p])],
                 [code |-> "ok", task |-> i, until |-> task.expires])

\* Mutant: the owner of the lease is not compared.
CompleteRefused_anyOwner(task, a, t) ==
  \/ task.status \in {"none", "completed"}
  \/ ~HasLiveLease(task, t)

CompleteRefused(task, a, t) ==
  \/ task.status \in {"none", "completed"}
  \/ ~HasLiveLease(task, t)
  \/ task.owner # a

Completed(task) ==
  [task EXCEPT !.status = "completed", !.owner = NoProc, !.expires = 0]

TaskComplete(p) ==
  LET r == req[p]
      i == r.task
      tasks == RefreshTasks(copy[p].tasks, now[p])
      projected == RefreshTasks([tasks EXCEPT ![i] = Completed(tasks[i])], now[p])
  IN  /\ Serving(p, "complete")
      /\ \/ CompleteRefused(tasks[i], p, now[p]) /\ Answer(p, Refused)
         \/ ~CompleteRefused(tasks[i], p, now[p]) /\ r.dry /\ Answer(p, Done)
         \/ /\ ~CompleteRefused(tasks[i], p, now[p])
            /\ ~r.dry
            /\ SaveAndReadBack(p, [copy[p] EXCEPT !.tasks = projected],
                               [Done EXCEPT !.task = i])

\* The answer shows the refreshed board, which is then also the one on disk.
TaskList(p) ==
  LET tasks == RefreshTasks(copy[p].tasks, now[p])
  IN  /\ Serving(p, "list")
      /\ IF tasks = copy[p].tasks
         THEN Answer(p, Done)
         ELSE SaveBoard(p, [copy[p] EXCEPT !.tasks = tasks], Done)

\* The leases are refreshed only when the sweep of the keys changed nothing.
ReadResource(p) ==
  LET swept == SweepExpired(copy[p], now[p])
      shown == IF KeyLapsed(copy[p], now[p]) THEN swept
               ELSE [copy[p] EXCEPT !.tasks = RefreshTasks(@, now[p])]
  IN  /\ Serving(p, "resource")
      /\ IF shown = copy[p] THEN Answer(p, Done) ELSE SaveBoard(p, shown, Done)

\* blackboardWrite of the one key, as far as the tasks can notice.
WriteKey(p) ==
  LET r == req[p]
      swept == SweepExpired(copy[p], now[p])
  IN  /\ Serving(p, "write")
      /\ SaveAndReadBack(p,
           [swept EXCEPT !.ttl = IF r.lease = 0 THEN 0 ELSE now[p] + r.lease],
           Done)

\* The lock is released and the agent learns the answer.
Return(p) ==
  /\ Release(p)
  /\ believes' =
       IF /\ reply[p].code = "ok"
          /\ reply[p].until > 0
       THEN [believes EXCEPT ![reply[p].task][p] = reply[p].until]
       ELSE believes
  /\ Forget(p)
  /\ UNCHANGED file

Handle(p) ==
  \/ TaskCreate(p) \/ TaskClaim(p) \/ TaskUpdate(p) \/ TaskComplete(p)
  \/ TaskList(p) \/ ReadResource(p) \/ WriteKey(p) \/ LoadFails(p)

Horizon == AtHorizon /\ UNCHANGED vars

Next ==
  \/ Advance
  \/ Horizon
  \/ \E p \in Procs :
       Call(p) \/ LockAndLoad(p) \/ TimedOut(p) \/ Handle(p) \/ Return(p) \/ Crash(p)

Spec == Init /\ [][Next]_vars

-----------------------------------------------------------------------------
(* Properties.                                                             *)

\* Every variable has its type, for every sequence of calls, failures and crashes.
TypeOK ==
  /\ LockTypeOK
  /\ file \in Board
  /\ copy \in [Procs -> Board]
  /\ req \in [Procs -> Request]
  /\ reply \in [Procs -> Reply]
  /\ believes \in [TaskIds -> [Procs -> Nat]]

\* A read-modify-write is never interleaved with another: what a call decides on
\* is what the file still holds when it saves, so no save undoes another
\* (withBoardLock; "loses whichever write landed first").
NoLostUpdate == \A p \in Procs : pc[p] = "locked" => copy[p] = file

\* No two agents are both entitled to work on a task: each was told an expiry
\* that has not passed.  Stale now_ms values, lapses, renewals that shorten a
\* lease, lost answers and crashes included (blackboardTaskClaim: "Two agents
\* reading unclaimed and both writing mine is the failure this exists to stop").
LeaseExclusive ==
  \A t \in TaskIds : \A a, b \in Procs :
    believes[t][a] > clock /\ believes[t][b] > clock => a = b

\* An agent that was told it holds a task until some moment finds the task its
\* own, in progress, until then: nothing another agent does with an older or a
\* newer clock takes it away early.
LeaseHonoured ==
  \A t \in TaskIds : \A a \in Procs :
    believes[t][a] > clock =>
      /\ file.tasks[t].status = "in_progress"
      /\ file.tasks[t].owner = a
      /\ file.tasks[t].expires >= believes[t][a]

\* A task is blocked exactly while a dependency is unfinished: work never starts
\* on top of half-done work, and no ready task is left blocked (refreshTasks,
\* and "Completing someone else's task is how a dependent gets released while
\* the work behind it is still half done").
BlockedIffWaiting ==
  \A t \in Existing(file.tasks) :
    (file.tasks[t].status = "blocked") <=> ~Ready(file.tasks, file.tasks[t].deps)

\* Whenever something is blocked, something else can be worked on: no set of
\* tasks waits only on itself or on tasks nobody created (the refusals of
\* blackboardTaskCreate, createsCycle).
SomethingIsWorkable ==
  (\E t \in TaskIds : file.tasks[t].status = "blocked") =>
    \E t \in TaskIds :
      file.tasks[t].status \in {"pending", "in_progress", "needs_review", "failed"}

\* The blackboard resource never shows work held by an agent whose lease was over
\* when it was asked for (refreshTasks: "no caller ever sees a task held by an
\* agent that is gone").
ResourceShowsNoGhost ==
  \A p \in Procs :
    pc[p] = "answered" /\ req[p].op = "resource" /\ reply[p].code = "ok" =>
      \A t \in TaskIds :
        file.tasks[t].status = "in_progress" => file.tasks[t].expires > now[p]

\* Finished work stays finished: no update, claim, lapse or late call of an agent
\* that once held the task reopens it, and no task disappears.
CompletedForever ==
  [][\A t \in TaskIds :
       /\ file.tasks[t].status = "completed" => file'.tasks[t] = file.tasks[t]
       /\ Exists(file.tasks, t) => Exists(file'.tasks, t)]_vars

\* While a lease runs, only a call of its owner changes the task.
OnlyHolderChanges ==
  [][\A t \in TaskIds :
       HasLiveLease(file.tasks[t], clock) /\ file'.tasks[t] # file.tasks[t]
         => lock = file.tasks[t].owner]_vars
=============================================================================
