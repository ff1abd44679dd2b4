-------------------------- MODULE BoardTasksProofs --------------------------
(***************************************************************************)
(* Proofs about BoardTasks, for any number of processes, any set of task   *)
(* ids, any requests and any clock bound.                                  *)
(*                                                                         *)
(* LeaseExclusive is not inductive: that two agents are not both told a    *)
(* live lease depends on what the file says of it, on what a call in       *)
(* flight may still do to it, and on the answer a holder of the lock has   *)
(* not delivered yet.  IndInv adds those facts.                            *)
(***************************************************************************)
EXTENDS BoardTasks, TLAPS

-----------------------------------------------------------------------------
(* The inductive invariant.                                                *)

\* The process inside the lock is the one the lock names.
LockInv == \A p \in Procs : pc[p] \in {"locked", "answered"} <=> lock = p

\* A call decides with a clock that is at most too old.
NowInv == \A p \in Procs : now[p] <= clock

\* What a consistent set of tasks is: only work in progress is leased, and a
\* task is blocked exactly while a dependency is unfinished.
LeasedInProgress(tasks) ==
  \A t \in TaskIds : tasks[t].owner # NoProc => tasks[t].status = "in_progress"
BlockedRight(tasks) ==
  \A t \in TaskIds : Exists(tasks, t) =>
    ((tasks[t].status = "blocked") <=> ~Ready(tasks, tasks[t].deps))

\* A call in flight that may end or shorten a lease is already allowed for in
\* what its agent counts on.
RequestInv ==
  \A p \in Procs :
    pc[p] \in {"waiting", "locked"} /\ ~req[p].dry /\ req[p].task # 0 =>
      LET old == believes[req[p].task][p]
      IN  /\ req[p].op = "complete" => old = 0
          /\ req[p].op = "update" /\ req[p].status # "keep" => old = 0
          /\ req[p].op = "update" /\ req[p].lease # 0 => old <= now[p] + req[p].lease

\* An answer that grants a lease speaks of what the file holds.
ReplyInv ==
  \A p \in Procs :
    pc[p] = "answered" /\ reply[p].code = "ok" /\ reply[p].until > 0 =>
      /\ reply[p].task \in TaskIds
      /\ file.tasks[reply[p].task].status = "in_progress"
      /\ file.tasks[reply[p].task].owner = p
      /\ file.tasks[reply[p].task].expires = reply[p].until

\* The request of a call is one of the constant set.
RequestsInv ==
  \A p \in Procs : pc[p] # "idle" => req[p] \in Requests

IndInv ==
  /\ TypeOK
  /\ LockInv
  /\ NowInv
  /\ NoLostUpdate
  /\ RequestsInv
  /\ LeasedInProgress(file.tasks)
  /\ BlockedRight(file.tasks)
  /\ LeaseHonoured
  /\ RequestInv
  /\ ReplyInv

-----------------------------------------------------------------------------
(* What refreshTasks does.                                                 *)

\* Each task is left alone, or its dead lease lapses, or it is unblocked.
RefreshCase(tasks, t, i) ==
  LET new == RefreshTasks(tasks, t)[i] IN
  \/ /\ tasks[i].status = "in_progress"
     /\ ~HasLiveLease(tasks[i], t)
     /\ new = [tasks[i] EXCEPT !.status = "pending", !.owner = NoProc, !.expires = 0]
  \/ /\ tasks[i].status = "blocked"
     /\ Ready(tasks, tasks[i].deps)
     /\ new = [tasks[i] EXCEPT !.status = "pending"]
  \/ /\ new = tasks[i]
     /\ new.status = "in_progress" => HasLiveLease(new, t)
     /\ new.status = "blocked" => ~Ready(tasks, tasks[i].deps)

\* refreshTasks does one of these to every task.
LEMMA RefreshCases ==
  ASSUME NEW tasks \in [TaskIds -> Task], NEW t \in Nat, NEW i \in TaskIds
  PROVE  RefreshCase(tasks, t, i)
<1> DEFINE lapsed == LapseLeases(tasks, t)
<1>1. /\ tasks[i] \in Task
      /\ lapsed[i] =
           IF tasks[i].status = "in_progress" /\ ~HasLiveLease(tasks[i], t)
           THEN [tasks[i] EXCEPT !.status = "pending", !.owner = NoProc, !.expires = 0]
           ELSE tasks[i]
  BY DEF LapseLeases
<1>2. ASSUME NEW d \in TaskIds
      PROVE  lapsed[d].status = "completed" <=> tasks[d].status = "completed"
  BY DEF LapseLeases, Task
<1>3. ASSUME tasks[i].status = "blocked"
      PROVE  /\ lapsed[i] = tasks[i]
             /\ Ready(lapsed, lapsed[i].deps) <=> Ready(tasks, tasks[i].deps)
  <2>1. lapsed[i] = tasks[i]
    BY <1>1, <1>3
  <2>2. tasks[i].deps \subseteq TaskIds
    BY <1>1 DEF Task
  <2> QED
    BY <1>2, <2>1, <2>2 DEF Ready
<1>4. RefreshTasks(tasks, t)[i] =
        IF lapsed[i].status = "blocked" /\ Ready(lapsed, lapsed[i].deps)
        THEN [lapsed[i] EXCEPT !.status = "pending"]
        ELSE lapsed[i]
  BY DEF RefreshTasks, ReleaseReady
<1> HIDE DEF lapsed
<1>5. CASE tasks[i].status = "blocked"
  BY <1>3, <1>4, <1>5 DEF RefreshCase
<1>6. CASE tasks[i].status = "in_progress" /\ ~HasLiveLease(tasks[i], t)
  BY <1>1, <1>4, <1>6 DEF Task, RefreshCase
<1>7. CASE tasks[i].status # "blocked"
           /\ ~(tasks[i].status = "in_progress" /\ ~HasLiveLease(tasks[i], t))
  BY <1>1, <1>4, <1>7 DEF RefreshCase
<1> QED
  BY <1>5, <1>6, <1>7

\* A refresh yields tasks.
LEMMA RefreshType ==
  ASSUME NEW tasks \in [TaskIds -> Task], NEW t \in Nat
  PROVE  RefreshTasks(tasks, t) \in [TaskIds -> Task]
<1>1. ASSUME NEW i \in TaskIds PROVE RefreshTasks(tasks, t)[i] \in Task
  <2>1. tasks[i] \in Task /\ RefreshCase(tasks, t, i)
    BY RefreshCases
  <2>2. /\ [tasks[i] EXCEPT !.status = "pending"] \in Task
        /\ [tasks[i] EXCEPT !.status = "pending", !.owner = NoProc, !.expires = 0] \in Task
    BY <2>1 DEF Task, Statuses
  <2> QED
    BY <2>1, <2>2 DEF RefreshCase
<1>2. RefreshTasks(tasks, t) = [i \in TaskIds |-> RefreshTasks(tasks, t)[i]]
  BY DEF RefreshTasks, ReleaseReady
<1> QED
  BY <1>1, <1>2

\* A live lease, finished work and the existence of a task survive a refresh.
RefreshKept(tasks, new, t, i) ==
  /\ HasLiveLease(tasks[i], t) => new[i] = tasks[i]
  /\ tasks[i].status = "completed" <=> new[i].status = "completed"
  /\ tasks[i].status = "completed" => new[i] = tasks[i]
  /\ Exists(tasks, i) <=> Exists(new, i)
  /\ new[i].owner # NoProc => new[i] = tasks[i]
  /\ new[i].deps = tasks[i].deps

\* refreshTasks keeps these of every task.
LEMMA RefreshKeeps ==
  ASSUME NEW tasks \in [TaskIds -> Task], NEW t \in Nat, NEW i \in TaskIds,
         LeasedInProgress(tasks)
  PROVE  RefreshKept(tasks, RefreshTasks(tasks, t), t, i)
<1>1. tasks[i] \in Task /\ RefreshCase(tasks, t, i)
  BY RefreshCases
<1> QED
  BY <1>1 DEF RefreshKept, RefreshCase, LeasedInProgress, HasLiveLease, Exists, Task

\* A refresh repairs everything a completion leaves behind: if no unready task is
\* free before it, exactly the unready tasks are blocked after it.
LEMMA RefreshBlocks ==
  ASSUME NEW tasks \in [TaskIds -> Task], NEW t \in Nat,
         LeasedInProgress(tasks),
         \A i \in TaskIds : Exists(tasks, i) /\ ~Ready(tasks, tasks[i].deps)
                              => tasks[i].status = "blocked"
  PROVE  /\ BlockedRight(RefreshTasks(tasks, t))
         /\ LeasedInProgress(RefreshTasks(tasks, t))
<1> DEFINE new == RefreshTasks(tasks, t)
<1> HIDE DEF new
<1>1. ASSUME NEW i \in TaskIds
      PROVE  RefreshKept(tasks, new, t, i) /\ RefreshCase(tasks, t, i)
  BY RefreshKeeps, RefreshCases DEF new
<1>2. ASSUME NEW i \in TaskIds
      PROVE  Ready(new, new[i].deps) <=> Ready(tasks, tasks[i].deps)
  <2>1. tasks[i].deps \subseteq TaskIds
    BY DEF Task
  <2>2. new[i].deps = tasks[i].deps
    BY <1>1 DEF RefreshKept
  <2>3. \A d \in TaskIds : tasks[d].status = "completed" <=> new[d].status = "completed"
    BY <1>1 DEF RefreshKept
  <2> QED
    BY <2>1, <2>2, <2>3 DEF Ready
<1>3. ASSUME NEW i \in TaskIds, Exists(new, i)
      PROVE  (new[i].status = "blocked") <=> ~Ready(new, new[i].deps)
  <2>1. tasks[i] \in Task /\ Exists(tasks, i) /\ RefreshCase(tasks, t, i)
    BY <1>1, <1>3 DEF RefreshKept
  <2>2. Ready(tasks, tasks[i].deps) => new[i].status # "blocked"
    BY <2>1 DEF RefreshCase, Task, new
  <2>3. ~Ready(tasks, tasks[i].deps) => new[i].status = "blocked"
    BY <2>1 DEF RefreshCase, Task, new
  <2> QED
    BY <1>2, <2>2, <2>3
<1>4. LeasedInProgress(new)
  BY <1>1 DEF LeasedInProgress, RefreshKept
<1> QED
  BY <1>3, <1>4 DEF BlockedRight, new

-----------------------------------------------------------------------------
(* What an operation does to the board.                                    *)

\* The same tasks exist and depend on the same tasks.
SameDeps(old, new) ==
  \A t \in TaskIds : (Exists(old, t) <=> Exists(new, t)) /\ new[t].deps = old[t].deps

\* Existing tasks keep their dependencies; new ones depend on existing ones only.
DepsGrow(old, new) ==
  \A t \in TaskIds :
    /\ Exists(old, t) => Exists(new, t) /\ new[t].deps = old[t].deps
    /\ Exists(new, t) /\ ~Exists(old, t) => \A d \in new[t].deps : Exists(old, d)

\* Tasks with the same dependencies have grown the same way.
LEMMA DepsGrowOn ==
  ASSUME NEW old, NEW mid, NEW new, DepsGrow(old, mid), SameDeps(mid, new)
  PROVE  DepsGrow(old, new)
BY DEF DepsGrow, SameDeps

\* A refresh changes no dependency.
LEMMA RefreshSameDeps ==
  ASSUME NEW tasks \in [TaskIds -> Task], NEW t \in Nat, LeasedInProgress(tasks)
  PROVE  SameDeps(tasks, RefreshTasks(tasks, t))
<1>1. \A i \in TaskIds : RefreshKept(tasks, RefreshTasks(tasks, t), t, i)
  BY RefreshKeeps
<1> QED
  BY <1>1 DEF SameDeps, RefreshKept

\* What the tasks saved by process p may be: consistent, with finished work and
\* other agents' live leases untouched, with no dependency changed, and with p's
\* own leases as promised.
GoodTasks(p, new) ==
  /\ new \in [TaskIds -> Task]
  /\ LeasedInProgress(new)
  /\ BlockedRight(new)
  /\ DepsGrow(file.tasks, new)
  /\ \A t \in TaskIds :
       /\ file.tasks[t].status = "completed" => new[t] = file.tasks[t]
       /\ Exists(file.tasks, t) => Exists(new, t)
       /\ HasLiveLease(file.tasks[t], now[p]) /\ file.tasks[t].owner # p
            => new[t] = file.tasks[t]
       /\ believes[t][p] > clock =>
            /\ new[t].status = "in_progress"
            /\ new[t].owner = p
            /\ new[t].expires >= believes[t][p]

\* An answer is right about the lease it grants.
GoodReply(p, a, tasks) ==
  /\ a \in Reply
  /\ a.code = "ok" /\ a.until > 0 =>
       /\ a.task \in TaskIds
       /\ tasks[a.task].status = "in_progress"
       /\ tasks[a.task].owner = p
       /\ tasks[a.task].expires = a.until

\* What a step of Handle(p) amounts to.
Effect(p) ==
  /\ Operate(p)
  /\ copy' = [copy EXCEPT ![p] = EmptyBoard]
  /\ UNCHANGED <<req, believes>>
  /\ file' \in Board
  /\ GoodTasks(p, file'.tasks)
  /\ \E a : GoodReply(p, a, file'.tasks) /\ reply' = [reply EXCEPT ![p] = a]

\* The tasks as they are, and the tasks refreshed, are good.
LEMMA RefreshGood ==
  ASSUME IndInv, NEW p \in Procs, pc[p] = "locked"
  PROVE  /\ copy[p] = file
         /\ now[p] \in Nat
         /\ file \in Board
         /\ file.tasks \in [TaskIds -> Task]
         /\ GoodTasks(p, file.tasks)
         /\ GoodTasks(p, RefreshTasks(file.tasks, now[p]))
<1> DEFINE old == file.tasks
           new == RefreshTasks(old, now[p])
<1>1. /\ copy[p] = file
      /\ file \in Board
      /\ old \in [TaskIds -> Task]
      /\ now[p] \in Nat
      /\ clock \in Nat
      /\ now[p] <= clock
      /\ believes \in [TaskIds -> [Procs -> Nat]]
  BY DEF IndInv, TypeOK, LockTypeOK, NoLostUpdate, Board, NowInv
<1>2. LeasedInProgress(old) /\ BlockedRight(old)
  BY DEF IndInv
<1>3. ASSUME NEW t \in TaskIds, believes[t][p] > clock
      PROVE  /\ old[t].status = "in_progress"
             /\ old[t].owner = p
             /\ old[t].expires >= believes[t][p]
             /\ HasLiveLease(old[t], now[p])
  <2>1. /\ old[t].status = "in_progress"
        /\ old[t].owner = p
        /\ old[t].expires >= believes[t][p]
    BY <1>3 DEF IndInv, LeaseHonoured
  <2>2. old[t].expires \in Nat /\ believes[t][p] \in Nat
    BY <1>1 DEF Task
  <2> QED
    BY <1>1, <1>3, <2>1, <2>2, FileLockAssumption DEF HasLiveLease
<1>4. GoodTasks(p, old)
  <2>1. DepsGrow(old, old)
    BY DEF DepsGrow
  <2> QED
    BY <1>1, <1>2, <1>3, <2>1 DEF GoodTasks
<1>5. GoodTasks(p, new)
  <2>1. new \in [TaskIds -> Task]
    BY <1>1, RefreshType
  <2>2. ASSUME NEW i \in TaskIds, Exists(old, i), ~Ready(old, old[i].deps)
        PROVE  old[i].status = "blocked"
    BY <1>2, <2>2 DEF BlockedRight
  <2>3. BlockedRight(new) /\ LeasedInProgress(new)
    BY <1>1, <1>2, <2>2, RefreshBlocks
  <2>4. ASSUME NEW t \in TaskIds
        PROVE  RefreshKept(old, new, now[p], t)
    BY <1>1, <1>2, RefreshKeeps
  <2>5. DepsGrow(old, old)
    BY DEF DepsGrow
  <2>6. DepsGrow(old, new)
    BY <1>1, <1>2, <2>5, DepsGrowOn, RefreshSameDeps
  <2> HIDE DEF old, new
  <2> QED
    BY <1>3, <2>1, <2>3, <2>4, <2>6 DEF GoodTasks, RefreshKept, old, new
<1> QED
  BY <1>1, <1>4, <1>5

\* The ways an operation ends.
LEMMA AnswerEffect ==
  ASSUME IndInv, NEW p \in Procs, pc[p] = "locked", Serving(p, req[p].op),
         NEW a \in Reply, Answer(p, a), a.until = 0
  PROVE  Effect(p)
<1>1. file' = file /\ reply' = [reply EXCEPT ![p] = a]
  BY DEF Answer
<1>2. GoodTasks(p, file'.tasks) /\ file' \in Board
  BY <1>1, RefreshGood
<1>3. GoodReply(p, a, file'.tasks)
  BY DEF GoodReply
<1> QED
  BY <1>1, <1>2, <1>3 DEF Effect, Serving

\* A save that succeeds, fails, or succeeds and cannot be read back.
LEMMA SaveEffect ==
  ASSUME IndInv, NEW p \in Procs, pc[p] = "locked", Serving(p, req[p].op),
         NEW board \in Board, GoodTasks(p, board.tasks),
         NEW a, GoodReply(p, a, board.tasks),
         SaveBoard(p, board, a) \/ SaveAndReadBack(p, board, a)
  PROVE  Effect(p)
<1>1. Failed \in Reply /\ Failed.until = 0
  BY DEF Failed, NoReply, Reply
<1>2. CASE Answer(p, Failed)
  BY <1>1, <1>2, AnswerEffect
<1>3. CASE file' = board /\ reply' = [reply EXCEPT ![p] = a]
  BY <1>3 DEF Effect, Serving
<1>4. CASE file' = board /\ reply' = [reply EXCEPT ![p] = Failed]
  <2>1. GoodReply(p, Failed, file'.tasks)
    BY <1>1 DEF GoodReply
  <2> QED
    BY <1>4, <2>1 DEF Effect, Serving
<1> QED
  BY <1>2, <1>3, <1>4 DEF SaveBoard, SaveAndReadBack

\* One task changed on top of tasks that are good.
LEMMA OneTaskGood ==
  ASSUME IndInv, NEW p \in Procs, pc[p] = "locked",
         NEW tasks, GoodTasks(p, tasks),
         NEW i \in TaskIds, NEW x \in Task,
         x.owner # NoProc => x.status = "in_progress",
         x.deps = tasks[i].deps,
         x.status = "completed" <=> tasks[i].status = "completed",
         x.status = "blocked" <=> tasks[i].status = "blocked",
         x.status # "none", tasks[i].status # "none",
         file.tasks[i].status # "completed",
         ~(HasLiveLease(file.tasks[i], now[p]) /\ file.tasks[i].owner # p),
         believes[i][p] > clock =>
            x.status = "in_progress" /\ x.owner = p /\ x.expires >= believes[i][p]
  PROVE  GoodTasks(p, [tasks EXCEPT ![i] = x])
<1> DEFINE new == [tasks EXCEPT ![i] = x]
<1>1. tasks \in [TaskIds -> Task] /\ LeasedInProgress(tasks) /\ BlockedRight(tasks)
  BY DEF GoodTasks
<1>2. new \in [TaskIds -> Task] /\ new[i] = x
      /\ \A j \in TaskIds : j # i => new[j] = tasks[j]
  BY <1>1
<1> HIDE DEF new
<1>3. LeasedInProgress(new)
  BY <1>1, <1>2 DEF LeasedInProgress
<1>4. BlockedRight(new)
  <2>1. \A d \in TaskIds : new[d].status = "completed" <=> tasks[d].status = "completed"
    BY <1>2
  <2>2. ASSUME NEW j \in TaskIds
        PROVE  /\ new[j].deps = tasks[j].deps
               /\ tasks[j].deps \subseteq TaskIds
               /\ new[j].status = "blocked" <=> tasks[j].status = "blocked"
               /\ Exists(new, j) => Exists(tasks, j)
    BY <1>1, <1>2 DEF Task, Exists
  <2>3. ASSUME NEW j \in TaskIds
        PROVE  Ready(new, new[j].deps) <=> Ready(tasks, tasks[j].deps)
    BY <2>1, <2>2 DEF Ready
  <2> QED
    BY <1>1, <2>2, <2>3 DEF BlockedRight
<1>5. ASSUME NEW t \in TaskIds
      PROVE  /\ file.tasks[t].status = "completed" => new[t] = file.tasks[t]
             /\ Exists(file.tasks, t) => Exists(new, t)
             /\ HasLiveLease(file.tasks[t], now[p]) /\ file.tasks[t].owner # p
                  => new[t] = file.tasks[t]
             /\ believes[t][p] > clock =>
                  /\ new[t].status = "in_progress"
                  /\ new[t].owner = p
                  /\ new[t].expires >= believes[t][p]
  BY <1>2 DEF GoodTasks, Exists
<1>6. DepsGrow(file.tasks, new)
  <2>1. SameDeps(tasks, new)
    BY <1>1, <1>2 DEF SameDeps, Exists
  <2> QED
    BY <2>1, DepsGrowOn DEF GoodTasks
<1> QED
  BY <1>2, <1>3, <1>4, <1>5, <1>6 DEF GoodTasks, new

\* Good, except that ready tasks may still be blocked.
AlmostGood(p, new) ==
  /\ new \in [TaskIds -> Task]
  /\ LeasedInProgress(new)
  /\ DepsGrow(file.tasks, new)
  /\ \A t \in TaskIds :
       /\ Exists(new, t) /\ ~Ready(new, new[t].deps) => new[t].status = "blocked"
       /\ file.tasks[t].status = "completed" => new[t] = file.tasks[t]
       /\ Exists(file.tasks, t) => Exists(new, t)
       /\ HasLiveLease(file.tasks[t], now[p]) /\ file.tasks[t].owner # p
            => new[t] = file.tasks[t]
       /\ believes[t][p] > clock =>
            /\ new[t].status = "in_progress"
            /\ new[t].owner = p
            /\ new[t].expires >= believes[t][p]

\* The refresh that ends an operation makes its tasks good.
LEMMA RefreshEnds ==
  ASSUME IndInv, NEW p \in Procs, pc[p] = "locked",
         NEW tasks, AlmostGood(p, tasks)
  PROVE  GoodTasks(p, RefreshTasks(tasks, now[p]))
<1> DEFINE new == RefreshTasks(tasks, now[p])
<1>1. /\ now[p] \in Nat
      /\ clock \in Nat
      /\ now[p] <= clock
      /\ believes \in [TaskIds -> [Procs -> Nat]]
  BY DEF IndInv, TypeOK, LockTypeOK, NowInv
<1>2. /\ tasks \in [TaskIds -> Task]
      /\ LeasedInProgress(tasks)
      /\ \A i \in TaskIds : Exists(tasks, i) /\ ~Ready(tasks, tasks[i].deps)
                              => tasks[i].status = "blocked"
  BY DEF AlmostGood
<1>3. new \in [TaskIds -> Task]
  BY <1>1, <1>2, RefreshType
<1>4. BlockedRight(new) /\ LeasedInProgress(new)
  BY <1>1, <1>2, RefreshBlocks
<1>5. ASSUME NEW t \in TaskIds
      PROVE  RefreshKept(tasks, new, now[p], t)
  BY <1>1, <1>2, RefreshKeeps
<1> HIDE DEF new
<1>6. ASSUME NEW t \in TaskIds, believes[t][p] > clock
      PROVE  /\ new[t].status = "in_progress"
             /\ new[t].owner = p
             /\ new[t].expires >= believes[t][p]
  <2>1. /\ tasks[t].status = "in_progress"
        /\ tasks[t].owner = p
        /\ tasks[t].expires >= believes[t][p]
    BY <1>6 DEF AlmostGood
  <2>2. tasks[t].expires \in Nat /\ believes[t][p] \in Nat
    BY <1>1, <1>2 DEF Task
  <2>3. HasLiveLease(tasks[t], now[p])
    BY <1>1, <1>6, <2>1, <2>2, FileLockAssumption DEF HasLiveLease
  <2> QED
    BY <1>5, <2>1, <2>3 DEF RefreshKept
<1>7. ASSUME NEW t \in TaskIds
      PROVE  /\ file.tasks[t].status = "completed" => new[t] = file.tasks[t]
             /\ Exists(file.tasks, t) => Exists(new, t)
             /\ HasLiveLease(file.tasks[t], now[p]) /\ file.tasks[t].owner # p
                  => new[t] = file.tasks[t]
  BY <1>5 DEF AlmostGood, RefreshKept
<1>8. DepsGrow(file.tasks, new)
  <2>1. SameDeps(tasks, new)
    BY <1>1, <1>2, RefreshSameDeps DEF new
  <2> QED
    BY <2>1, DepsGrowOn DEF AlmostGood
<1> QED
  BY <1>3, <1>4, <1>6, <1>7, <1>8 DEF GoodTasks, new

\* A good set of tasks needs no repair.
LEMMA GoodIsAlmostGood ==
  ASSUME NEW p, NEW tasks, GoodTasks(p, tasks)
  PROVE  AlmostGood(p, tasks)
BY DEF GoodTasks, AlmostGood, BlockedRight

\* What a handler starts from.
LEMMA HandlerContext ==
  ASSUME IndInv, NEW p \in Procs, NEW op, Serving(p, op)
  PROVE  /\ pc[p] = "locked"
         /\ Serving(p, req[p].op)
         /\ req[p].op = op
         /\ req[p] \in Requests
         /\ req[p] \in Request
BY DEF IndInv, TypeOK, RequestsInv, Serving, Operate

\* blackboardTaskCreate keeps the board good: the new task is blocked iff it must be.
LEMMA TaskCreateEffect ==
  ASSUME IndInv, NEW p \in Procs, TaskCreate(p)
  PROVE  Effect(p)
<1> DEFINE r == req[p]
           old == file.tasks
           tasks == RefreshTasks(old, now[p])
<1>1. /\ pc[p] = "locked"
      /\ Serving(p, req[p].op)
      /\ r \in Request
  BY HandlerContext DEF TaskCreate
<1>2. /\ copy[p] = file
      /\ file \in Board
      /\ now[p] \in Nat
      /\ old \in [TaskIds -> Task]
      /\ GoodTasks(p, tasks)
  BY <1>1, RefreshGood
<1>3. tasks \in [TaskIds -> Task] /\ LeasedInProgress(tasks) /\ BlockedRight(tasks)
  BY <1>2 DEF GoodTasks
<1> HIDE DEF tasks
<1>4. PICK id \in TaskIds :
         \/ Answer(p, Refused)
         \/ Answer(p, Done)
         \/ /\ ~CreateRefused(tasks, r, id)
            /\ SaveAndReadBack(p,
                 [file EXCEPT !.tasks =
                    [tasks EXCEPT ![id] = CreatedTask(tasks, r, now[p])]],
                 [Done EXCEPT !.task = id])
  BY <1>2 DEF TaskCreate, tasks
<1>5. /\ Refused \in Reply /\ Refused.until = 0
      /\ Done \in Reply /\ Done.until = 0
      /\ [Done EXCEPT !.task = id] \in Reply
      /\ [Done EXCEPT !.task = id].until = 0
  BY DEF Refused, Done, NoReply, Reply
<1>6. CASE Answer(p, Refused) \/ Answer(p, Done)
  BY <1>1, <1>5, <1>6, AnswerEffect
<1>7. CASE /\ ~CreateRefused(tasks, r, id)
           /\ SaveAndReadBack(p,
                 [file EXCEPT !.tasks =
                    [tasks EXCEPT ![id] = CreatedTask(tasks, r, now[p])]],
                 [Done EXCEPT !.task = id])
  <2> DEFINE x == CreatedTask(tasks, r, now[p])
             new == [tasks EXCEPT ![id] = x]
             board == [file EXCEPT !.tasks = new]
  <2>1. /\ x \in Task
        /\ x.status = IF Ready(tasks, r.deps) THEN "pending" ELSE "blocked"
        /\ x.deps = r.deps
        /\ x.owner = NoProc
    BY <1>1, <1>2 DEF CreatedTask, Request, Task, NoTask, Statuses
  <2>2. /\ tasks[id].status = "none"
        /\ id \notin r.deps
        /\ r.deps \subseteq TaskIds
    BY <1>1, <1>7 DEF CreateRefused, Exists, Request
  <2> HIDE DEF x
  <2>3. new \in [TaskIds -> Task] /\ new[id] = x
        /\ \A j \in TaskIds : j # id => new[j] = tasks[j]
    BY <1>3, <2>1
  <2> HIDE DEF new
  <2>4. \A d \in TaskIds : new[d].status = "completed" <=> tasks[d].status = "completed"
    BY <2>1, <2>2, <2>3
  <2>5. ASSUME NEW j \in TaskIds, j # id, Exists(new, j)
        PROVE  (new[j].status = "blocked") <=> ~Ready(new, new[j].deps)
    <3>1. new[j] = tasks[j] /\ tasks[j].deps \subseteq TaskIds
      BY <1>3, <2>3, <2>5 DEF Task
    <3>2. Ready(new, tasks[j].deps) <=> Ready(tasks, tasks[j].deps)
      BY <2>4, <3>1 DEF Ready
    <3> QED
      BY <1>3, <2>5, <3>1, <3>2 DEF BlockedRight, Exists
  <2>6. (x.status = "blocked") <=> ~Ready(new, x.deps)
    <3>1. Ready(new, r.deps) <=> Ready(tasks, r.deps)
      BY <2>2, <2>4 DEF Ready
    <3> QED
      BY <2>1, <3>1
  <2>7. BlockedRight(new)
    BY <2>3, <2>5, <2>6 DEF BlockedRight
  <2>8. LeasedInProgress(new)
    BY <1>3, <2>1, <2>3 DEF LeasedInProgress
  <2>9. /\ old[id].status = "none"
        /\ ~(believes[id][p] > clock)
        /\ old[id].owner = NoProc
    <3>1. old[id].status = "none" /\ ~(believes[id][p] > clock)
      BY <1>2, <2>2 DEF GoodTasks, Exists
    <3>2. LeasedInProgress(old)
      BY DEF IndInv
    <3> QED
      BY <3>1, <3>2 DEF LeasedInProgress
  <2>10. GoodTasks(p, new)
    <3>1. SameDeps(old, tasks)
      BY <1>2, RefreshSameDeps DEF tasks, IndInv
    <3>2. \A d \in r.deps : Exists(tasks, d)
      BY <1>7 DEF CreateRefused
    <3>3. DepsGrow(old, new)
      BY <2>1, <2>2, <2>3, <2>9, <3>1, <3>2 DEF DepsGrow, SameDeps, Exists
    <3> QED
      BY <1>2, <2>1, <2>3, <2>7, <2>8, <2>9, <3>3 DEF GoodTasks, Exists, HasLiveLease
  <2>11. board \in Board /\ board.tasks = new
    BY <1>2, <2>3 DEF Board
  <2>12. GoodReply(p, [Done EXCEPT !.task = id], board.tasks)
    BY <1>5 DEF GoodReply
  <2>13. SaveAndReadBack(p, board, [Done EXCEPT !.task = id])
    BY <1>7 DEF new, x
  <2> HIDE DEF board
  <2> QED
    BY <1>1, <2>10, <2>11, <2>12, <2>13, SaveEffect
<1> QED
  BY <1>4, <1>6, <1>7

\* blackboardTaskClaim takes only a task nobody holds.
LEMMA TaskClaimEffect ==
  ASSUME IndInv, NEW p \in Procs, TaskClaim(p)
  PROVE  Effect(p)
<1> DEFINE r == req[p]
           old == file.tasks
           tasks == RefreshTasks(old, now[p])
           candidates == Candidates(tasks, r, now[p])
           empty == IF r.task # 0 THEN Refused ELSE [NoReply EXCEPT !.code = "empty"]
<1>1. /\ pc[p] = "locked"
      /\ Serving(p, req[p].op)
      /\ r \in Request
  BY HandlerContext DEF TaskClaim
<1>2. /\ copy[p] = file
      /\ file \in Board
      /\ now[p] \in Nat
      /\ old \in [TaskIds -> Task]
      /\ GoodTasks(p, tasks)
  BY <1>1, RefreshGood
<1>3. tasks \in [TaskIds -> Task]
  BY <1>2 DEF GoodTasks
<1> HIDE DEF tasks
<1>4. \/ Answer(p, empty)
      \/ SaveBoard(p, [file EXCEPT !.tasks = tasks], empty)
      \/ Answer(p, Done)
      \/ \E i \in candidates :
           SaveAndReadBack(p,
             [file EXCEPT !.tasks =
                [tasks EXCEPT ![i] = Claimed(tasks[i], p, now[p], r.lease)]],
             [code |-> "ok", task |-> i, until |-> now[p] + r.lease])
  BY <1>2 DEF TaskClaim, tasks
<1>5. /\ empty \in Reply /\ empty.until = 0
      /\ Done \in Reply /\ Done.until = 0
  BY DEF Refused, Done, NoReply, Reply
<1> HIDE DEF empty
<1>6. CASE Answer(p, empty) \/ Answer(p, Done)
  BY <1>1, <1>5, <1>6, AnswerEffect
<1>7. CASE SaveBoard(p, [file EXCEPT !.tasks = tasks], empty)
  <2> DEFINE board == [file EXCEPT !.tasks = tasks]
  <2>1. board \in Board /\ board.tasks = tasks
    BY <1>2, <1>3 DEF Board
  <2>2. GoodReply(p, empty, tasks)
    BY <1>5 DEF GoodReply
  <2>3. SaveBoard(p, board, empty)
    BY <1>7
  <2> HIDE DEF board
  <2> QED
    BY <1>1, <1>2, <2>1, <2>2, <2>3, SaveEffect
<1>8. ASSUME NEW i \in candidates,
             SaveAndReadBack(p,
               [file EXCEPT !.tasks =
                  [tasks EXCEPT ![i] = Claimed(tasks[i], p, now[p], r.lease)]],
               [code |-> "ok", task |-> i, until |-> now[p] + r.lease])
      PROVE  Effect(p)
  <2> DEFINE x == Claimed(tasks[i], p, now[p], r.lease)
             new == [tasks EXCEPT ![i] = x]
             board == [file EXCEPT !.tasks = new]
             a == [code |-> "ok", task |-> i, until |-> now[p] + r.lease]
  <2>1. /\ i \in TaskIds
        /\ tasks[i] \in Task
        /\ tasks[i].status = "pending"
        /\ ~HasLiveLease(tasks[i], now[p])
        /\ r.lease \in Nat
        /\ now[p] + r.lease \in Nat
    BY <1>1, <1>2, <1>3 DEF Candidates, Request
  <2>2. /\ x \in Task
        /\ x.status = "in_progress"
        /\ x.owner = p
        /\ x.expires = now[p] + r.lease
        /\ x.deps = tasks[i].deps
    <3> DEFINE e == now[p] + r.lease
    <3>1. e \in Nat /\ x = [tasks[i] EXCEPT !.status = "in_progress", !.owner = p,
                                             !.expires = e]
      BY <2>1 DEF Claimed
    <3> HIDE DEF x, e
    <3>2. x.expires = e
      BY <2>1, <3>1 DEF Task
    <3> QED
      BY <2>1, <3>1, <3>2 DEF Task, Statuses, e
  <2>3. /\ file.tasks[i].status # "completed"
        /\ ~(HasLiveLease(file.tasks[i], now[p]) /\ file.tasks[i].owner # p)
        /\ ~(believes[i][p] > clock)
    BY <1>2, <2>1 DEF GoodTasks
  <2> HIDE DEF x
  <2>4. GoodTasks(p, new)
    BY <1>1, <1>2, <2>1, <2>2, <2>3, OneTaskGood
  <2>5. new[i] = x /\ new \in [TaskIds -> Task]
    BY <1>3, <2>1, <2>2
  <2> HIDE DEF new
  <2>6. board \in Board /\ board.tasks = new
    BY <1>2, <2>5 DEF Board
  <2>7. GoodReply(p, a, board.tasks)
    BY <1>2, <2>1, <2>2, <2>5, <2>6 DEF GoodReply, Reply
  <2>8. SaveAndReadBack(p, board, a)
    BY <1>8 DEF new, x
  <2> HIDE DEF board, a
  <2> QED
    BY <1>1, <2>4, <2>6, <2>7, <2>8, SaveEffect
<1> QED
  BY <1>4, <1>6, <1>7, <1>8

\* blackboardTaskUpdate moves only its own lease, or reopens what nobody holds.
LEMMA TaskUpdateEffect ==
  ASSUME IndInv, NEW p \in Procs, TaskUpdate(p)
  PROVE  Effect(p)
<1> DEFINE r == req[p]
           i == r.task
           old == file.tasks
           tasks == RefreshTasks(old, now[p])
           x == Updated(tasks[i], p, r, now[p])
           changed == [tasks EXCEPT ![i] = x]
           new == RefreshTasks(changed, now[p])
           board == [file EXCEPT !.tasks = new]
           a == [code |-> "ok", task |-> i, until |-> x.expires]
<1>1. /\ pc[p] = "locked"
      /\ Serving(p, req[p].op)
      /\ r.op = "update"
      /\ r \in Requests
      /\ r \in Request
  BY HandlerContext DEF TaskUpdate
<1>2. i \in TaskIds
  BY <1>1, BoardTasksAssumption DEF Request
<1>3. /\ copy[p] = file
      /\ file \in Board
      /\ now[p] \in Nat
      /\ old \in [TaskIds -> Task]
      /\ GoodTasks(p, tasks)
  BY <1>1, RefreshGood
<1>4. tasks \in [TaskIds -> Task] /\ LeasedInProgress(tasks)
  BY <1>3 DEF GoodTasks
<1>5. \/ Answer(p, Refused)
      \/ Answer(p, Done)
      \/ /\ ~UpdateRefused(tasks[i], p, r, now[p])
         /\ ~r.dry
         /\ SaveAndReadBack(p, board, a)
  BY <1>3 DEF TaskUpdate
<1> HIDE DEF tasks
<1>6. CASE Answer(p, Refused) \/ Answer(p, Done)
  <2>1. /\ Refused \in Reply /\ Refused.until = 0
        /\ Done \in Reply /\ Done.until = 0
    BY DEF Refused, Done, NoReply, Reply
  <2> QED
    BY <1>1, <1>6, <2>1, AnswerEffect
<1>7. CASE /\ ~UpdateRefused(tasks[i], p, r, now[p])
           /\ ~r.dry
           /\ SaveAndReadBack(p, board, a)
  <2>1. /\ tasks[i] \in Task
        /\ tasks[i].status \notin {"none", "completed", "blocked"}
        /\ r.status = "keep" => /\ HasLiveLease(tasks[i], now[p])
                                /\ tasks[i].owner = p
                                /\ tasks[i].status = "in_progress"
        /\ HasLiveLease(tasks[i], now[p]) => tasks[i].owner = p
    BY <1>2, <1>4, <1>7 DEF UpdateRefused, HasLiveLease, LeasedInProgress
  <2>2. /\ r.status \in {"keep", "needs_review", "failed", "pending"}
        /\ r.lease \in Nat
        /\ now[p] + r.lease \in Nat
    BY <1>1, <1>3 DEF Request
  <2>3. /\ x \in Task
        /\ x.deps = tasks[i].deps
        /\ x.status \notin {"none", "completed", "blocked"}
        /\ x.owner # NoProc => x.status = "in_progress"
        /\ x.expires > 0 => /\ r.status = "keep"
                            /\ x.owner = p
                            /\ x.status = "in_progress"
                            /\ HasLiveLease(x, now[p])
    <3>1. CASE r.status # "keep"
      <4>1. x = [tasks[i] EXCEPT !.status = r.status, !.owner = NoProc, !.expires = 0]
        BY <3>1 DEF Updated
      <4>2. r.status \in Statuses /\ r.status \notin {"none", "completed", "blocked"}
        BY <2>2, <3>1 DEF Statuses
      <4> DEFINE st == r.status
      <4>3. st \in Statuses /\ x = [tasks[i] EXCEPT !.status = st, !.owner = NoProc,
                                                    !.expires = 0]
        BY <4>1, <4>2
      <4> HIDE DEF x, st
      <4>4. x \in Task /\ x.status = st /\ x.owner = NoProc /\ x.expires = 0
            /\ x.deps = tasks[i].deps
        BY <2>1, <4>3 DEF Task
      <4> QED
        BY <4>2, <4>4 DEF st
    <3>2. CASE r.status = "keep" /\ r.lease # 0
      <4> DEFINE e == now[p] + r.lease
      <4>1. x = [tasks[i] EXCEPT !.owner = p, !.expires = e]
        BY <3>2 DEF Updated
      <4>2. e \in Nat /\ e > now[p]
        BY <1>3, <2>2, <3>2
      <4> HIDE DEF x, e
      <4>3. x \in Task /\ x.owner = p /\ x.expires = e
            /\ x.deps = tasks[i].deps /\ x.status = tasks[i].status
        BY <2>1, <4>1, <4>2 DEF Task
      <4> QED
        BY <2>1, <3>2, <4>2, <4>3, FileLockAssumption DEF HasLiveLease
    <3>3. CASE r.status = "keep" /\ r.lease = 0
      BY <2>1, <2>2, <3>3 DEF Updated, Task
    <3> QED
      BY <3>1, <3>2, <3>3
  <2>4. /\ file.tasks[i].status # "completed"
        /\ ~(HasLiveLease(file.tasks[i], now[p]) /\ file.tasks[i].owner # p)
    BY <1>2, <1>3, <2>1 DEF GoodTasks
  <2>5. believes[i][p] > clock =>
           x.status = "in_progress" /\ x.owner = p /\ x.expires >= believes[i][p]
    <3>1. /\ r.status # "keep" => believes[i][p] = 0
          /\ r.lease # 0 => believes[i][p] <= now[p] + r.lease
      BY <1>1, <1>2, <1>7, BoardTasksAssumption DEF IndInv, RequestInv
    <3>2. clock \in Nat
      BY DEF IndInv, TypeOK, LockTypeOK
    <3>3. CASE r.status # "keep"
      BY <3>1, <3>2, <3>3
    <3>4. CASE r.status = "keep" /\ r.lease # 0
      BY <2>1, <2>2, <3>1, <3>4 DEF Updated, Task
    <3>5. CASE r.status = "keep" /\ r.lease = 0
      <4>1. x = tasks[i]
        BY <3>5 DEF Updated
      <4> QED
        BY <1>2, <1>3, <4>1 DEF GoodTasks
    <3> QED
      BY <3>3, <3>4, <3>5
  <2> HIDE DEF x
  <2>6. GoodTasks(p, changed)
    BY <1>1, <1>2, <1>3, <2>1, <2>3, <2>4, <2>5, OneTaskGood
  <2>7. changed[i] = x /\ changed \in [TaskIds -> Task] /\ LeasedInProgress(changed)
    BY <1>2, <1>4, <2>3, <2>6 DEF GoodTasks
  <2> HIDE DEF changed
  <2>8. GoodTasks(p, new)
    BY <1>1, <2>6, RefreshEnds, GoodIsAlmostGood
  <2>9. HasLiveLease(x, now[p]) => new[i] = x
    <3>1. RefreshKept(changed, new, now[p], i)
      BY <1>2, <1>3, <2>7, RefreshKeeps
    <3> QED
      BY <2>7, <3>1 DEF RefreshKept
  <2>10. new \in [TaskIds -> Task]
    BY <2>8 DEF GoodTasks
  <2> HIDE DEF new
  <2>11. board \in Board /\ board.tasks = new
    BY <1>3, <2>10 DEF Board
  <2>12. GoodReply(p, a, board.tasks)
    <3>1. a \in Reply
      BY <1>2, <2>3 DEF Reply, Task
    <3> QED
      BY <1>2, <2>3, <2>9, <2>11, <3>1 DEF GoodReply
  <2> HIDE DEF board, a
  <2> QED
    BY <1>1, <1>7, <2>8, <2>11, <2>12, SaveEffect
<1> QED
  BY <1>5, <1>6, <1>7

\* blackboardTaskComplete ends its own lease and releases the dependents.
LEMMA TaskCompleteEffect ==
  ASSUME IndInv, NEW p \in Procs, TaskComplete(p)
  PROVE  Effect(p)
<1> DEFINE r == req[p]
           i == r.task
           old == file.tasks
           tasks == RefreshTasks(old, now[p])
           x == Completed(tasks[i])
           changed == [tasks EXCEPT ![i] = x]
           new == RefreshTasks(changed, now[p])
           board == [file EXCEPT !.tasks = new]
           a == [Done EXCEPT !.task = i]
<1>1. /\ pc[p] = "locked"
      /\ Serving(p, req[p].op)
      /\ r.op = "complete"
      /\ r \in Requests
      /\ r \in Request
  BY HandlerContext DEF TaskComplete
<1>2. i \in TaskIds /\ i # 0
  BY <1>1, BoardTasksAssumption DEF Request
<1>3. /\ copy[p] = file
      /\ file \in Board
      /\ now[p] \in Nat
      /\ old \in [TaskIds -> Task]
      /\ GoodTasks(p, tasks)
  BY <1>1, RefreshGood
<1>4. tasks \in [TaskIds -> Task] /\ LeasedInProgress(tasks) /\ BlockedRight(tasks)
  BY <1>3 DEF GoodTasks
<1>5. \/ Answer(p, Refused)
      \/ Answer(p, Done)
      \/ /\ ~CompleteRefused(tasks[i], p, now[p])
         /\ ~r.dry
         /\ SaveAndReadBack(p, board, a)
  BY <1>3 DEF TaskComplete
<1>6. /\ Refused \in Reply /\ Refused.until = 0
      /\ Done \in Reply /\ Done.until = 0
      /\ a \in Reply /\ a.until = 0
  BY <1>2 DEF Refused, Done, NoReply, Reply
<1> HIDE DEF tasks
<1>7. CASE Answer(p, Refused) \/ Answer(p, Done)
  BY <1>1, <1>6, <1>7, AnswerEffect
<1>8. CASE /\ ~CompleteRefused(tasks[i], p, now[p])
           /\ ~r.dry
           /\ SaveAndReadBack(p, board, a)
  <2>1. /\ tasks[i] \in Task
        /\ tasks[i].status = "in_progress"
        /\ tasks[i].owner = p
    BY <1>2, <1>4, <1>8 DEF CompleteRefused, HasLiveLease, LeasedInProgress
  <2>2. /\ x \in Task
        /\ x.status = "completed"
        /\ x.owner = NoProc
        /\ x.deps = tasks[i].deps
    BY <2>1 DEF Completed, Task, Statuses
  <2>3. ~(believes[i][p] > clock)
    <3>1. believes[i][p] = 0
      BY <1>1, <1>2, <1>8 DEF IndInv, RequestInv
    <3>2. clock \in Nat
      BY DEF IndInv, TypeOK, LockTypeOK
    <3> QED
      BY <3>1, <3>2
  <2> HIDE DEF x
  <2>4. /\ changed \in [TaskIds -> Task]
        /\ changed[i] = x
        /\ \A j \in TaskIds : j # i => changed[j] = tasks[j]
    BY <1>2, <1>4, <2>2
  <2> HIDE DEF changed
  <2>5. LeasedInProgress(changed)
    BY <1>4, <2>2, <2>4 DEF LeasedInProgress
  <2>6. ASSUME NEW j \in TaskIds, Exists(changed, j), ~Ready(changed, changed[j].deps)
        PROVE  changed[j].status = "blocked"
    <3>1. changed[j].deps = tasks[j].deps /\ tasks[j].deps \subseteq TaskIds
      BY <1>4, <2>2, <2>4 DEF Task
    <3>2. \A d \in TaskIds :
            tasks[d].status = "completed" => changed[d].status = "completed"
      BY <2>2, <2>4
    <3>3. ~Ready(tasks, tasks[j].deps)
      BY <2>6, <3>1, <3>2 DEF Ready
    <3>4. Exists(tasks, j)
      BY <2>1, <2>4, <2>6 DEF Exists
    <3>5. tasks[j].status = "blocked"
      BY <1>4, <3>3, <3>4 DEF BlockedRight
    <3> QED
      BY <2>1, <2>4, <3>5
  <2>7. ASSUME NEW t \in TaskIds
        PROVE  /\ file.tasks[t].status = "completed" => changed[t] = file.tasks[t]
               /\ Exists(file.tasks, t) => Exists(changed, t)
               /\ HasLiveLease(file.tasks[t], now[p]) /\ file.tasks[t].owner # p
                    => changed[t] = file.tasks[t]
               /\ believes[t][p] > clock =>
                    /\ changed[t].status = "in_progress"
                    /\ changed[t].owner = p
                    /\ changed[t].expires >= believes[t][p]
    <3>1. CASE t = i
      BY <1>3, <2>1, <2>2, <2>3, <2>4, <3>1 DEF GoodTasks, Exists
    <3>2. CASE t # i
      BY <1>3, <2>4, <3>2 DEF GoodTasks, Exists
    <3> QED
      BY <3>1, <3>2
  <2>8. AlmostGood(p, changed)
    <3>1. SameDeps(tasks, changed)
      BY <2>1, <2>2, <2>4 DEF SameDeps, Exists
    <3>2. DepsGrow(old, changed)
      BY <1>3, <3>1, DepsGrowOn DEF GoodTasks
    <3> QED
      BY <2>4, <2>5, <2>6, <2>7, <3>2 DEF AlmostGood
  <2>9. GoodTasks(p, new)
    BY <1>1, <2>8, RefreshEnds
  <2>10. new \in [TaskIds -> Task]
    BY <2>9 DEF GoodTasks
  <2> HIDE DEF new
  <2>11. board \in Board /\ board.tasks = new
    BY <1>3, <2>10 DEF Board
  <2>12. GoodReply(p, a, board.tasks)
    BY <1>6 DEF GoodReply
  <2> HIDE DEF board, a
  <2> QED
    BY <1>1, <1>8, <2>9, <2>11, <2>12, SaveEffect
<1> QED
  BY <1>5, <1>7, <1>8

\* Operations that save the refreshed tasks, or only touch the key.
LEMMA ReaderEffect ==
  ASSUME IndInv, NEW p \in Procs,
         TaskList(p) \/ ReadResource(p) \/ WriteKey(p) \/ LoadFails(p)
  PROVE  Effect(p)
<1> DEFINE tasks == RefreshTasks(file.tasks, now[p])
           ttl == IF req[p].lease = 0 THEN 0 ELSE now[p] + req[p].lease
<1>1. /\ pc[p] = "locked"
      /\ Serving(p, req[p].op)
      /\ req[p] \in Request
  BY HandlerContext DEF TaskList, ReadResource, WriteKey, LoadFails
<1>2. /\ copy[p] = file
      /\ file \in Board
      /\ now[p] \in Nat
      /\ GoodTasks(p, file.tasks)
      /\ GoodTasks(p, tasks)
      /\ tasks \in [TaskIds -> Task]
  BY <1>1, RefreshGood DEF GoodTasks
<1>3. /\ Done \in Reply /\ Done.until = 0
      /\ Failed \in Reply /\ Failed.until = 0
  BY DEF Done, Failed, NoReply, Reply
<1>4. ttl \in Nat
  BY <1>1, <1>2 DEF Request
<1>5. ASSUME NEW board \in Board, board.tasks = file.tasks \/ board.tasks = tasks
      PROVE  GoodTasks(p, board.tasks) /\ GoodReply(p, Done, board.tasks)
  BY <1>2, <1>3, <1>5 DEF GoodReply
<1> HIDE DEF tasks, ttl
<1>6. \/ Answer(p, Done)
      \/ Answer(p, Failed)
      \/ \E board \in Board :
           /\ board.tasks = file.tasks \/ board.tasks = tasks
           /\ SaveBoard(p, board, Done) \/ SaveAndReadBack(p, board, Done)
  <2>1. /\ [file EXCEPT !.tasks = tasks] \in Board
        /\ [file EXCEPT !.tasks = tasks].tasks = tasks
        /\ SweepExpired(file, now[p]) \in Board
        /\ SweepExpired(file, now[p]).tasks = file.tasks
    BY <1>2 DEF Board, SweepExpired
  <2>2. /\ [SweepExpired(file, now[p]) EXCEPT !.ttl = ttl] \in Board
        /\ [SweepExpired(file, now[p]) EXCEPT !.ttl = ttl].tasks = file.tasks
    BY <1>4, <2>1 DEF Board
  <2>3. CASE TaskList(p)
    BY <1>2, <2>1, <2>3 DEF TaskList, tasks
  <2>4. CASE ReadResource(p)
    BY <1>2, <2>1, <2>4 DEF ReadResource, tasks
  <2>5. CASE WriteKey(p)
    BY <1>2, <2>2, <2>5 DEF WriteKey, ttl
  <2>6. CASE LoadFails(p)
    BY <2>6 DEF LoadFails
  <2> QED
    BY <2>3, <2>4, <2>5, <2>6
<1>7. CASE Answer(p, Done) \/ Answer(p, Failed)
  BY <1>1, <1>3, <1>7, AnswerEffect
<1>8. ASSUME NEW board \in Board,
             board.tasks = file.tasks \/ board.tasks = tasks,
             SaveBoard(p, board, Done) \/ SaveAndReadBack(p, board, Done)
      PROVE  Effect(p)
  BY <1>1, <1>5, <1>8, SaveEffect
<1> QED
  BY <1>6, <1>7, <1>8

\* Every operation under the lock has the effect described above.
LEMMA HandleEffect ==
  ASSUME IndInv, NEW p \in Procs, Handle(p)
  PROVE  Effect(p)
BY TaskCreateEffect, TaskClaimEffect, TaskUpdateEffect, TaskCompleteEffect,
   ReaderEffect DEF Handle
-----------------------------------------------------------------------------
(* The invariant is inductive.                                             *)

\* A board nobody has written is a board.
LEMMA EmptyBoardType == EmptyBoard \in Board
BY DEF EmptyBoard, Board, Task, NoTask, Statuses

\* The invariant holds at the start.
LEMMA InitIndInv == Init => IndInv
<1> SUFFICES ASSUME Init PROVE IndInv
  OBVIOUS
<1> USE DEF Init, LockInit
<1>1. TypeOK
  BY EmptyBoardType, FileLockAssumption
     DEF TypeOK, LockTypeOK, Stages, NoRequest, Request, Ops, NoReply, Reply
<1>2. LockInv
  BY FileLockAssumption DEF LockInv
<1>3. NowInv
  <2>1. ASSUME NEW p \in Procs PROVE now[p] = 0 /\ clock = 0
    OBVIOUS
  <2>2. 0 <= 0
    OBVIOUS
  <2> QED
    BY ONLY <2>1, <2>2, Zenon DEF NowInv
<1>4. NoLostUpdate /\ RequestsInv /\ RequestInv /\ ReplyInv
  BY DEF NoLostUpdate, RequestsInv, RequestInv, ReplyInv
<1>5. LeasedInProgress(file.tasks) /\ BlockedRight(file.tasks)
  BY DEF LeasedInProgress, BlockedRight, EmptyBoard, NoTask, Exists
<1>6. LeaseHonoured
  BY DEF LeaseHonoured
<1> QED
  BY <1>1, <1>2, <1>3, <1>4, <1>5, <1>6 DEF IndInv

\* Time passing can only end what agents count on.
LEMMA AdvanceKeeps == IndInv /\ Advance => IndInv'
<1> SUFFICES ASSUME IndInv, Advance PROVE IndInv'
  OBVIOUS
<1>1. /\ clock' = clock + 1
      /\ clock \in Nat
      /\ UNCHANGED <<lock, pc, now, file, copy, req, reply, believes>>
  BY DEF IndInv, TypeOK, LockTypeOK, Advance, Tick, boardVars
<1>2. TypeOK'
  BY <1>1 DEF IndInv, TypeOK, LockTypeOK
<1>3. NowInv'
  BY <1>1 DEF IndInv, NowInv, TypeOK, LockTypeOK
<1>4. LeaseHonoured'
  BY <1>1 DEF IndInv, LeaseHonoured, TypeOK
<1>5. (LockInv /\ NoLostUpdate /\ RequestsInv /\ RequestInv /\ ReplyInv)'
  BY <1>1 DEF IndInv, LockInv, NoLostUpdate, RequestsInv, RequestInv, ReplyInv
<1>6. LeasedInProgress(file.tasks)' /\ BlockedRight(file.tasks)'
  BY <1>1 DEF IndInv, LeasedInProgress, BlockedRight, Exists, Ready
<1> QED
  BY <1>2, <1>3, <1>4, <1>5, <1>6 DEF IndInv

\* A call in flight lowers what its agent counts on to what it cannot lose by it.
LEMMA CallKeeps ==
  ASSUME IndInv, NEW p \in Procs, Call(p)
  PROVE  IndInv'
<1>1. PICK r \in Requests :
         /\ req' = [req EXCEPT ![p] = r]
         /\ believes' = [t \in TaskIds |->
              [believes[t] EXCEPT ![p] = BeliefAfterSending(p, r, t)]]
  BY DEF Call
<1>2. /\ pc[p] = "idle"
      /\ pc' = [pc EXCEPT ![p] = "waiting"]
      /\ now' = [now EXCEPT ![p] = clock]
      /\ UNCHANGED <<clock, lock, file, copy, reply>>
  BY DEF Call, Arrive
<1>3. /\ clock \in Nat
      /\ pc \in [Procs -> Stages]
      /\ now \in [Procs -> Nat]
      /\ req \in [Procs -> Request]
      /\ believes \in [TaskIds -> [Procs -> Nat]]
  BY DEF IndInv, TypeOK, LockTypeOK
<1>4. r \in Request /\ r.lease \in Nat /\ clock + r.lease \in Nat
  BY <1>3, BoardTasksAssumption DEF Request
<1>5. ASSUME NEW t \in TaskIds
      PROVE  /\ BeliefAfterSending(p, r, t) \in Nat
             /\ BeliefAfterSending(p, r, t) <= believes[t][p]
  <2>1. believes[t][p] \in Nat
    BY <1>3
  <2> QED
    BY <1>4, <2>1 DEF BeliefAfterSending
<1>6. ASSUME NEW t \in TaskIds, NEW q \in Procs
      PROVE  /\ believes'[t][q] = IF q = p THEN BeliefAfterSending(p, r, t)
                                           ELSE believes[t][q]
             /\ believes'[t][q] \in Nat
             /\ believes'[t][q] <= believes[t][q]
             /\ believes[t][q] \in Nat
  BY <1>1, <1>3, <1>5
<1>7. TypeOK'
  <2>1. believes' \in [TaskIds -> [Procs -> Nat]]
    <3>1. ASSUME NEW t \in TaskIds
          PROVE  [believes[t] EXCEPT ![p] = BeliefAfterSending(p, r, t)] \in [Procs -> Nat]
      BY <1>3, <1>5
    <3> QED
      BY <1>1, <3>1
  <2> QED
    BY <1>1, <1>2, <1>3, <1>4, <2>1 DEF IndInv, TypeOK, LockTypeOK, Stages
<1>8. LockInv'
  BY <1>2, <1>3 DEF IndInv, LockInv
<1>9. NowInv'
  BY <1>2, <1>3 DEF IndInv, NowInv
<1>10. NoLostUpdate' /\ ReplyInv'
  BY <1>2, <1>3 DEF IndInv, NoLostUpdate, ReplyInv
<1>11. RequestsInv'
  BY <1>1, <1>2, <1>3 DEF IndInv, RequestsInv
<1>12. LeasedInProgress(file.tasks)' /\ BlockedRight(file.tasks)'
  BY <1>2 DEF IndInv, LeasedInProgress, BlockedRight, Exists, Ready
<1>13. LeaseHonoured'
  <2> SUFFICES ASSUME NEW t \in TaskIds, NEW q \in Procs, believes'[t][q] > clock
               PROVE  /\ file.tasks[t].status = "in_progress"
                      /\ file.tasks[t].owner = q
                      /\ file.tasks[t].expires >= believes'[t][q]
    BY <1>2 DEF LeaseHonoured
  <2>1. believes[t][q] > clock
    BY <1>3, <1>6
  <2>2. file.tasks[t].expires \in Nat
    BY DEF IndInv, TypeOK, Board, Task
  <2> QED
    BY <1>6, <2>1, <2>2 DEF IndInv, LeaseHonoured
<1>14. RequestInv'
  <2> SUFFICES ASSUME NEW q \in Procs, pc'[q] \in {"waiting", "locked"},
                      ~req'[q].dry, req'[q].task # 0
               PROVE  LET old == believes'[req'[q].task][q]
                      IN  /\ req'[q].op = "complete" => old = 0
                          /\ req'[q].op = "update" /\ req'[q].status # "keep" => old = 0
                          /\ req'[q].op = "update" /\ req'[q].lease # 0
                               => old <= now'[q] + req'[q].lease
    BY DEF RequestInv
  <2>1. CASE q = p
    <3>1. req'[q] = r /\ now'[q] = clock /\ r.task \in TaskIds
      BY <1>1, <1>2, <1>3, <1>4, <2>1 DEF Request
    <3>2. believes'[r.task][q] = BeliefAfterSending(p, r, r.task)
      BY <1>6, <2>1, <3>1
    <3>3. believes[r.task][p] \in Nat
      BY <1>3, <3>1
    <3> QED
      BY <1>4, <3>1, <3>2, <3>3 DEF BeliefAfterSending
  <2>2. CASE q # p
    <3>1. req'[q] = req[q] /\ now'[q] = now[q] /\ pc'[q] = pc[q]
      BY <1>1, <1>2, <1>3, <2>2
    <3>2. req[q].task \in TaskIds
      BY <1>3, <3>1 DEF Request
    <3>3. believes'[req[q].task][q] = believes[req[q].task][q]
      BY <1>6, <2>2, <3>2
    <3> QED
      BY <3>1, <3>3 DEF IndInv, RequestInv
  <2> QED
    BY <2>1, <2>2
<1> QED
  BY <1>7, <1>8, <1>9, <1>10, <1>11, <1>12, <1>13, <1>14 DEF IndInv

\* Taking the lock and loading the file.
LEMMA LockAndLoadKeeps ==
  ASSUME IndInv, NEW p \in Procs, LockAndLoad(p)
  PROVE  IndInv'
<1>1. /\ pc[p] = "waiting"
      /\ lock = NoProc
      /\ lock' = p
      /\ pc' = [pc EXCEPT ![p] = "locked"]
      /\ copy' = [copy EXCEPT ![p] = file]
      /\ UNCHANGED <<clock, now, file, req, reply, believes>>
  BY DEF LockAndLoad, Acquire
<1>2. TypeOK'
  BY <1>1 DEF IndInv, TypeOK, LockTypeOK, Stages
<1>3. pc \in [Procs -> Stages] /\ copy \in [Procs -> Board]
  BY DEF IndInv, TypeOK, LockTypeOK
<1>4. LockInv'
  BY <1>1, <1>3, FileLockAssumption DEF IndInv, LockInv
<1>5. NoLostUpdate'
  BY <1>1, <1>3 DEF IndInv, NoLostUpdate
<1>6. NowInv' /\ RequestsInv' /\ RequestInv' /\ ReplyInv' /\ LeaseHonoured'
  BY <1>1, <1>3
     DEF IndInv, NowInv, RequestsInv, RequestInv, ReplyInv, LeaseHonoured
<1>7. LeasedInProgress(file.tasks)' /\ BlockedRight(file.tasks)'
  BY <1>1 DEF IndInv, LeasedInProgress, BlockedRight, Exists, Ready
<1> QED
  BY <1>2, <1>4, <1>5, <1>6, <1>7 DEF IndInv
\* A call that ends without the board: a timeout or a death.
LEMMA AbandonKeeps ==
  ASSUME IndInv, NEW p \in Procs, TimedOut(p) \/ Crash(p)
  PROVE  IndInv'
<1>1. /\ pc' = [pc EXCEPT ![p] = "idle"]
      /\ now' = [now EXCEPT ![p] = 0]
      /\ lock' = IF lock = p THEN NoProc ELSE lock
      /\ copy' = [copy EXCEPT ![p] = EmptyBoard]
      /\ req' = [req EXCEPT ![p] = NoRequest]
      /\ reply' = [reply EXCEPT ![p] = NoReply]
      /\ UNCHANGED <<clock, file, believes>>
  <2>1. CASE TimedOut(p)
    <3>1. lock # p
      BY <2>1 DEF IndInv, LockInv, TimedOut, GiveUp
    <3> QED
      BY <2>1, <3>1 DEF TimedOut, GiveUp, Forget
  <2>2. CASE Crash(p)
    BY <2>2 DEF Crash, Die, Forget
  <2> QED
    BY <2>1, <2>2
<1>2. /\ clock \in Nat
      /\ pc \in [Procs -> Stages]
      /\ now \in [Procs -> Nat]
      /\ copy \in [Procs -> Board]
      /\ req \in [Procs -> Request]
      /\ reply \in [Procs -> Reply]
  BY DEF IndInv, TypeOK, LockTypeOK
<1>3. NoRequest \in Request /\ NoReply \in Reply
  BY DEF NoRequest, NoReply, Request, Reply, Ops
<1>4. TypeOK'
  BY <1>1, <1>2, <1>3, EmptyBoardType DEF IndInv, TypeOK, LockTypeOK, Stages
<1>5. LockInv'
  BY <1>1, <1>2, FileLockAssumption DEF IndInv, LockInv
<1>6. NowInv'
  BY <1>1, <1>2 DEF IndInv, NowInv
<1>7. NoLostUpdate' /\ RequestsInv' /\ RequestInv' /\ ReplyInv' /\ LeaseHonoured'
  BY <1>1, <1>2
     DEF IndInv, NoLostUpdate, RequestsInv, RequestInv, ReplyInv, LeaseHonoured
<1>8. LeasedInProgress(file.tasks)' /\ BlockedRight(file.tasks)'
  BY <1>1 DEF IndInv, LeasedInProgress, BlockedRight, Exists, Ready
<1> QED
  BY <1>4, <1>5, <1>6, <1>7, <1>8 DEF IndInv

\* An operation under the lock.
LEMMA HandleKeeps ==
  ASSUME IndInv, NEW p \in Procs, Handle(p)
  PROVE  IndInv'
<1>1. Effect(p)
  BY HandleEffect
<1>2. PICK a : /\ GoodReply(p, a, file'.tasks)
               /\ reply' = [reply EXCEPT ![p] = a]
  BY <1>1 DEF Effect
<1>3. /\ pc[p] = "locked"
      /\ pc' = [pc EXCEPT ![p] = "answered"]
      /\ copy' = [copy EXCEPT ![p] = EmptyBoard]
      /\ UNCHANGED <<clock, lock, now, req, believes>>
      /\ file' \in Board
      /\ GoodTasks(p, file'.tasks)
  BY <1>1 DEF Effect, Operate
<1>4. /\ clock \in Nat
      /\ pc \in [Procs -> Stages]
      /\ now \in [Procs -> Nat]
      /\ copy \in [Procs -> Board]
      /\ reply \in [Procs -> Reply]
      /\ a \in Reply
      /\ believes \in [TaskIds -> [Procs -> Nat]]
  BY <1>2 DEF IndInv, TypeOK, LockTypeOK, GoodReply
<1>5. TypeOK'
  BY <1>2, <1>3, <1>4, EmptyBoardType DEF IndInv, TypeOK, LockTypeOK, Stages
<1>6. LockInv'
  BY <1>3, <1>4 DEF IndInv, LockInv
<1>7. ASSUME NEW q \in Procs, q # p
      PROVE  pc'[q] = pc[q] /\ pc[q] \notin {"locked", "answered"}
  BY <1>3, <1>4, <1>7 DEF IndInv, LockInv
<1>8. NowInv' /\ RequestsInv' /\ RequestInv'
  BY <1>3, <1>4 DEF IndInv, NowInv, RequestsInv, RequestInv
<1>9. NoLostUpdate'
  BY <1>3, <1>4, <1>7 DEF NoLostUpdate
<1>10. LeasedInProgress(file.tasks)' /\ BlockedRight(file.tasks)'
  BY <1>3 DEF GoodTasks, LeasedInProgress, BlockedRight, Exists, Ready
<1>11. ReplyInv'
  BY <1>2, <1>3, <1>4, <1>7 DEF ReplyInv, GoodReply
<1>12. LeaseHonoured'
  <2> SUFFICES ASSUME NEW t \in TaskIds, NEW q \in Procs, believes[t][q] > clock
               PROVE  /\ file'.tasks[t].status = "in_progress"
                      /\ file'.tasks[t].owner = q
                      /\ file'.tasks[t].expires >= believes[t][q]
    BY <1>3 DEF LeaseHonoured
  <2>1. CASE q = p
    BY <1>3, <2>1 DEF GoodTasks
  <2>2. CASE q # p
    <3>1. /\ file.tasks[t].status = "in_progress"
          /\ file.tasks[t].owner = q
          /\ file.tasks[t].expires >= believes[t][q]
      BY DEF IndInv, LeaseHonoured
    <3>2. /\ file.tasks[t].expires \in Nat
          /\ believes[t][q] \in Nat
          /\ now[p] \in Nat
          /\ now[p] <= clock
      BY <1>4 DEF IndInv, TypeOK, Board, Task, NowInv
    <3>3. HasLiveLease(file.tasks[t], now[p])
      BY <1>4, <3>1, <3>2, FileLockAssumption DEF HasLiveLease
    <3>4. file'.tasks[t] = file.tasks[t]
      BY <1>3, <2>2, <3>1, <3>3 DEF GoodTasks
    <3> QED
      BY <3>1, <3>4
  <2> QED
    BY <2>1, <2>2
<1> QED
  BY <1>5, <1>6, <1>8, <1>9, <1>10, <1>11, <1>12 DEF IndInv

\* The answer reaches the agent.
LEMMA ReturnKeeps ==
  ASSUME IndInv, NEW p \in Procs, Return(p)
  PROVE  IndInv'
<1> DEFINE grants == reply[p].code = "ok" /\ reply[p].until > 0
<1>1. /\ pc[p] = "answered"
      /\ pc' = [pc EXCEPT ![p] = "idle"]
      /\ now' = [now EXCEPT ![p] = 0]
      /\ lock' = NoProc
      /\ copy' = [copy EXCEPT ![p] = EmptyBoard]
      /\ req' = [req EXCEPT ![p] = NoRequest]
      /\ reply' = [reply EXCEPT ![p] = NoReply]
      /\ believes' = IF grants THEN [believes EXCEPT ![reply[p].task][p] = reply[p].until]
                     ELSE believes
      /\ UNCHANGED <<clock, file>>
  BY DEF Return, Release, Forget
<1>2. /\ clock \in Nat
      /\ pc \in [Procs -> Stages]
      /\ now \in [Procs -> Nat]
      /\ copy \in [Procs -> Board]
      /\ req \in [Procs -> Request]
      /\ reply \in [Procs -> Reply]
      /\ believes \in [TaskIds -> [Procs -> Nat]]
  BY DEF IndInv, TypeOK, LockTypeOK
<1>3. NoRequest \in Request /\ NoReply \in Reply
  BY DEF NoRequest, NoReply, Request, Reply, Ops
<1>4. grants => /\ reply[p].task \in TaskIds
                /\ reply[p].until \in Nat
                /\ file.tasks[reply[p].task].status = "in_progress"
                /\ file.tasks[reply[p].task].owner = p
                /\ file.tasks[reply[p].task].expires = reply[p].until
  BY <1>1, <1>2 DEF IndInv, ReplyInv, Reply
<1>5. believes' \in [TaskIds -> [Procs -> Nat]]
  BY <1>1, <1>2, <1>4
<1>6. ASSUME NEW t \in TaskIds, NEW q \in Procs
      PROVE  \/ believes'[t][q] = believes[t][q]
             \/ grants /\ t = reply[p].task /\ q = p /\ believes'[t][q] = reply[p].until
  BY <1>1, <1>2, <1>4
<1> HIDE DEF grants
<1>7. TypeOK'
  BY <1>1, <1>2, <1>3, <1>5, EmptyBoardType
     DEF IndInv, TypeOK, LockTypeOK, Stages
<1>8. LockInv'
  BY <1>1, <1>2, FileLockAssumption DEF IndInv, LockInv
<1>9. NowInv'
  BY <1>1, <1>2 DEF IndInv, NowInv
<1>10. NoLostUpdate' /\ RequestsInv' /\ ReplyInv'
  BY <1>1, <1>2 DEF IndInv, NoLostUpdate, RequestsInv, ReplyInv
<1>11. LeasedInProgress(file.tasks)' /\ BlockedRight(file.tasks)'
  BY <1>1 DEF IndInv, LeasedInProgress, BlockedRight, Exists, Ready
<1>12. LeaseHonoured'
  <2> SUFFICES ASSUME NEW t \in TaskIds, NEW q \in Procs, believes'[t][q] > clock
               PROVE  /\ file.tasks[t].status = "in_progress"
                      /\ file.tasks[t].owner = q
                      /\ file.tasks[t].expires >= believes'[t][q]
    BY <1>1 DEF LeaseHonoured
  <2>1. CASE believes'[t][q] = believes[t][q]
    BY <2>1 DEF IndInv, LeaseHonoured
  <2>2. CASE grants /\ t = reply[p].task /\ q = p /\ believes'[t][q] = reply[p].until
    BY <1>4, <2>2
  <2> QED
    BY <1>6, <2>1, <2>2
<1>13. RequestInv'
  <2> SUFFICES ASSUME NEW q \in Procs, pc'[q] \in {"waiting", "locked"},
                      ~req'[q].dry, req'[q].task # 0
               PROVE  LET old == believes'[req'[q].task][q]
                      IN  /\ req'[q].op = "complete" => old = 0
                          /\ req'[q].op = "update" /\ req'[q].status # "keep" => old = 0
                          /\ req'[q].op = "update" /\ req'[q].lease # 0
                               => old <= now'[q] + req'[q].lease
    BY DEF RequestInv
  <2>1. q # p /\ pc'[q] = pc[q] /\ req'[q] = req[q] /\ now'[q] = now[q]
    BY <1>1, <1>2
  <2>2. req[q].task \in TaskIds
    BY <1>2, <2>1 DEF Request
  <2>3. believes'[req[q].task][q] = believes[req[q].task][q]
    BY <1>6, <2>1, <2>2
  <2> QED
    BY <2>1, <2>3 DEF IndInv, RequestInv
<1> QED
  BY <1>7, <1>8, <1>9, <1>10, <1>11, <1>12, <1>13 DEF IndInv

\* A step that changes nothing.
LEMMA StutterKeeps == IndInv /\ UNCHANGED vars => IndInv'
<1> SUFFICES ASSUME IndInv, UNCHANGED vars PROVE IndInv'
  OBVIOUS
<1>1. UNCHANGED <<clock, lock, pc, now, file, copy, req, reply, believes>>
  BY DEF vars, lockVars, boardVars
<1> QED
  BY <1>1 DEF IndInv, TypeOK, LockTypeOK, LockInv, NowInv, NoLostUpdate, RequestsInv,
     RequestInv, ReplyInv, LeaseHonoured, LeasedInProgress, BlockedRight, Exists, Ready

\* Every step keeps the invariant.
LEMMA NextIndInv == IndInv /\ [Next]_vars => IndInv'
<1> SUFFICES ASSUME IndInv, [Next]_vars PROVE IndInv'
  OBVIOUS
<1>1. CASE Advance
  BY <1>1, AdvanceKeeps
<1>2. CASE Horizon \/ UNCHANGED vars
  BY <1>2, StutterKeeps DEF Horizon
<1>3. ASSUME NEW p \in Procs,
             \/ Call(p) \/ LockAndLoad(p) \/ TimedOut(p)
             \/ Handle(p) \/ Return(p) \/ Crash(p)
      PROVE  IndInv'
  BY <1>3, CallKeeps, LockAndLoadKeeps, AbandonKeeps, HandleKeeps, ReturnKeeps
<1> QED
  BY <1>1, <1>2, <1>3 DEF Next

\* Every reachable state satisfies the inductive invariant: types, the lock, the
\* clocks of calls, the consistency of the task list, and the promises made.
THEOREM BoardInvariant == Spec => []IndInv
BY InitIndInv, NextIndInv, PTL DEF Spec
-----------------------------------------------------------------------------
(* The properties.                                                         *)

\* Every variable keeps its type through every call, failure and crash.
THEOREM TypeCorrect == Spec => []TypeOK
<1>1. IndInv => TypeOK
  BY DEF IndInv
<1> QED
  BY <1>1, BoardInvariant, PTL

\* Read-modify-write pairs under withBoardLock never overlap.
THEOREM NoLostUpdates == Spec => []NoLostUpdate
<1>1. IndInv => NoLostUpdate
  BY DEF IndInv
<1> QED
  BY <1>1, BoardInvariant, PTL

\* A lease an agent was told of is on the board until it ends.
THEOREM LeasesHonoured == Spec => []LeaseHonoured
<1>1. IndInv => LeaseHonoured
  BY DEF IndInv
<1> QED
  BY <1>1, BoardInvariant, PTL

\* At no time are two agents entitled to the same task.
THEOREM LeasesExclusive == Spec => []LeaseExclusive
<1>1. IndInv => LeaseExclusive
  BY DEF IndInv, LeaseHonoured, LeaseExclusive
<1> QED
  BY <1>1, BoardInvariant, PTL

\* Blocked means waiting, at every moment and for every dependency graph.
THEOREM BlockedExactly == Spec => []BlockedIffWaiting
<1>1. IndInv => BlockedIffWaiting
  BY DEF IndInv, BlockedRight, BlockedIffWaiting, Existing
<1> QED
  BY <1>1, BoardInvariant, PTL

\* A step that is not an operation under the lock leaves the file alone.
LEMMA OtherStepsKeepFile ==
  ASSUME [Next]_vars, ~(\E p \in Procs : Handle(p))
  PROVE  file' = file
BY DEF Next, Advance, Horizon, Call, LockAndLoad, TimedOut, Return, Crash, vars, boardVars

\* Dependencies are on tasks that exist, and no set of tasks waits only on itself:
\* some member depends on none of the others.
DepsFounded(tasks) ==
  /\ \A t \in Existing(tasks) : tasks[t].deps \subseteq Existing(tasks)
  /\ \A S \in SUBSET Existing(tasks) :
       S # {} => \E t \in S : tasks[t].deps \intersect S = {}

\* Growing keeps the dependencies founded: a new task has nobody depending on it.
LEMMA GrowthIsFounded ==
  ASSUME NEW old \in [TaskIds -> Task], NEW new \in [TaskIds -> Task],
         DepsFounded(old), DepsGrow(old, new)
  PROVE  DepsFounded(new)
<1>1. ASSUME NEW t \in Existing(old)
      PROVE  /\ t \in Existing(new)
             /\ new[t].deps = old[t].deps
             /\ new[t].deps \subseteq Existing(old)
  BY DEF DepsGrow, DepsFounded, Existing
<1>2. ASSUME NEW t \in Existing(new), t \notin Existing(old)
      PROVE  new[t].deps \subseteq Existing(old)
  <2>1. new[t].deps \subseteq TaskIds
    BY DEF Existing, Task
  <2> QED
    BY <1>2, <2>1 DEF DepsGrow, Existing
<1>3. ASSUME NEW S \in SUBSET Existing(new), S # {}
      PROVE  \E t \in S : new[t].deps \intersect S = {}
  <2> DEFINE R == S \intersect Existing(old)
  <2>1. CASE R = {}
    <3>1. PICK t \in S : TRUE
      BY <1>3
    <3>2. new[t].deps \intersect S = {}
      BY <1>2, <2>1, <3>1
    <3> QED
      BY <3>2
  <2>2. CASE R # {}
    <3>1. PICK t \in R : old[t].deps \intersect R = {}
      BY <2>2 DEF DepsFounded
    <3>2. new[t].deps \intersect S = {}
      BY <1>1, <3>1
    <3> QED
      BY <3>1, <3>2
  <2> QED
    BY <2>1, <2>2
<1> QED
  BY <1>1, <1>2, <1>3 DEF DepsFounded

\* The dependencies of every board are founded, whatever graph the agents ask for.
THEOREM DependenciesAreFounded == Spec => []DepsFounded(file.tasks)
<1>1. Init => DepsFounded(file.tasks)
  BY DEF Init, EmptyBoard, NoTask, DepsFounded, Existing, Exists
<1>2. IndInv /\ IndInv' /\ DepsFounded(file.tasks) /\ [Next]_vars => DepsFounded(file.tasks)'
  <2> SUFFICES ASSUME IndInv, IndInv', DepsFounded(file.tasks), [Next]_vars
               PROVE  DepsFounded(file'.tasks)
    BY DEF DepsFounded, Existing, Exists
  <2>1. file.tasks \in [TaskIds -> Task] /\ file'.tasks \in [TaskIds -> Task]
    BY DEF IndInv, TypeOK, Board
  <2>2. ASSUME NEW p \in Procs, Handle(p) PROVE DepsFounded(file'.tasks)
    <3>1. DepsGrow(file.tasks, file'.tasks)
      BY <2>2, HandleEffect DEF Effect, GoodTasks
    <3> QED
      BY <2>1, <3>1, GrowthIsFounded
  <2>3. CASE ~(\E p \in Procs : Handle(p))
    BY <2>3, OtherStepsKeepFile
  <2> QED
    BY <2>2, <2>3
<1> QED
  BY <1>1, <1>2, BoardInvariant, PTL DEF Spec

\* Whenever a task is blocked, another one can be worked on: take a blocked task
\* that waits for no blocked one, and look at what it waits for.
THEOREM WorkIsAlwaysPossible == Spec => []SomethingIsWorkable
<1>1. IndInv /\ DepsFounded(file.tasks) => SomethingIsWorkable
  <2> SUFFICES ASSUME IndInv, DepsFounded(file.tasks),
                      NEW b \in TaskIds, file.tasks[b].status = "blocked"
               PROVE  \E t \in TaskIds : file.tasks[t].status \in
                         {"pending", "in_progress", "needs_review", "failed"}
    BY DEF SomethingIsWorkable
  <2> DEFINE S == {t \in TaskIds : file.tasks[t].status = "blocked"}
  <2>1. S \in SUBSET Existing(file.tasks) /\ S # {}
    BY DEF Existing, Exists
  <2>2. PICK t \in S : file.tasks[t].deps \intersect S = {}
    BY <2>1 DEF DepsFounded
  <2>3. PICK d \in file.tasks[t].deps : file.tasks[d].status # "completed"
    BY <2>1, <2>2 DEF IndInv, BlockedRight, Existing, Ready
  <2>4. d \in Existing(file.tasks) /\ d \notin S
    BY <2>1, <2>2, <2>3 DEF DepsFounded
  <2>5. file.tasks[d] \in Task
    BY <2>4 DEF IndInv, TypeOK, Board, Existing
  <2> QED
    BY <2>3, <2>4, <2>5 DEF Existing, Exists, Task, Statuses
<1> QED
  BY <1>1, BoardInvariant, DependenciesAreFounded, PTL

\* Finished work stays finished and no task disappears.
THEOREM CompletedStays == Spec => CompletedForever
<1> DEFINE Step == \A t \in TaskIds :
             /\ file.tasks[t].status = "completed" => file'.tasks[t] = file.tasks[t]
             /\ Exists(file.tasks, t) => Exists(file'.tasks, t)
<1>1. IndInv /\ [Next]_vars => Step
  <2> SUFFICES ASSUME IndInv, [Next]_vars PROVE Step
    OBVIOUS
  <2>1. ASSUME NEW p \in Procs, Handle(p) PROVE Step
    <3>1. GoodTasks(p, file'.tasks)
      BY <2>1, HandleEffect DEF Effect
    <3> QED
      BY <3>1 DEF GoodTasks
  <2>2. CASE ~(\E p \in Procs : Handle(p))
    BY <2>2, OtherStepsKeepFile
  <2> QED
    BY <2>1, <2>2
<1>2. IndInv /\ [Next]_vars => [Step]_vars
  BY <1>1
<1> QED
  BY <1>2, BoardInvariant, PTL DEF Spec, CompletedForever

\* While a lease runs, only its holder's own calls change the task.
THEOREM OnlyHolderActs == Spec => OnlyHolderChanges
<1> DEFINE Step == \A t \in TaskIds :
             HasLiveLease(file.tasks[t], clock) /\ file'.tasks[t] # file.tasks[t]
               => lock = file.tasks[t].owner
<1>1. IndInv /\ [Next]_vars => Step
  <2> SUFFICES ASSUME IndInv, [Next]_vars PROVE Step
    OBVIOUS
  <2>1. ASSUME NEW p \in Procs, Handle(p) PROVE Step
    <3>1. GoodTasks(p, file'.tasks) /\ pc[p] = "locked"
      BY <2>1, HandleEffect DEF Effect, Operate
    <3>2. lock = p
      BY <3>1 DEF IndInv, LockInv
    <3>3. ASSUME NEW t \in TaskIds, HasLiveLease(file.tasks[t], clock)
          PROVE  HasLiveLease(file.tasks[t], now[p])
      <4>1. /\ file.tasks[t].expires \in Nat
            /\ now[p] \in Nat
            /\ clock \in Nat
            /\ now[p] <= clock
        BY DEF IndInv, TypeOK, LockTypeOK, Board, Task, NowInv
      <4> QED
        BY <3>3, <4>1 DEF HasLiveLease
    <3> QED
      BY <3>1, <3>2, <3>3 DEF GoodTasks
  <2>2. CASE ~(\E p \in Procs : Handle(p))
    BY <2>2, OtherStepsKeepFile
  <2> QED
    BY <2>1, <2>2
<1>2. IndInv /\ [Next]_vars => [Step]_vars
  BY <1>1
<1> QED
  BY <1>2, BoardInvariant, PTL DEF Spec, OnlyHolderChanges
=============================================================================
