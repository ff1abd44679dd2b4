-------------------------- MODULE ToolCallsProofs --------------------------
(***************************************************************************)
(* Proofs about ToolCalls, and with it about Jobs and Confirmations, for    *)
(* any number of jobs, requests, tokens and calls and any limits.           *)
(*                                                                         *)
(* None of the promises is inductive.  A token buys one run because none    *)
(* that was spent is held again; a retried request finds its job because    *)
(* what the loop looked up before its joins can only have expired since; a  *)
(* call runs on what was approved because a probe that passes has seen it;  *)
(* and no thread is left behind because a handle is always in the entry,    *)
(* among the orphans or with the one who joins it.                          *)
(***************************************************************************)
EXTENDS ToolCalls, TLAPS

-----------------------------------------------------------------------------
(* The inductive invariant.                                                *)

\* A token that may still be spent was not.
TokenInv ==
  \A t \in Tokens : /\ token[t].status # "gone" => spent[t] = 0
                    /\ spent[t] <= 1

\* A cancel that was taken is seen when the answer is recorded.
CancelInv ==
  \A i \in Ids : job[i].asked => job[i].flag /\ job[i].state # "completed"

\* While the loop joins, nothing a retry of its request should find has come.
AskedInv ==
  loop \in {"taking", "joining"} =>
    /\ asked.call \in Works
    /\ \A i \in Kept : asked.request # NoRequest /\ job[i].request = asked.request
                         => Expired(job[i])

\* A probe of a target the call may overwrite has that noted, and no call goes on
\* without.
ApprovedInv ==
  \A p \in Callers :
    /\ call[p].stage = "probing" =>
         /\ call[p].token # NoToken
         /\ MayOverwrite(call[p], target) => call[p].approved
    /\ call[p].stage \in {"spending", "running"} => call[p].approved

\* A thread that is not over has a handle to join it by, and only one whose answer
\* is recorded is an orphan.
ThreadInv ==
  \A i \in Ids :
    /\ job[i].thread \in {"running", "recording", "leaving"} =>
         job[i].handle \in {"entry", "orphan"} \/ i \in joining
    /\ job[i].state # "working" => job[i].thread \notin {"running", "recording"}
    /\ job[i].handle = "orphan" \/ (i \in joining /\ ~shuttingDown)
         => job[i].thread \notin {"running", "recording"}

\* One thread at a time records, and it has the mutex.
MutexInv ==
  /\ \A i \in Ids : job[i].thread = "recording" => mutex = "thread"
  /\ mutex = "thread" => \E i \in Ids : job[i].thread = "recording"
  /\ \A i, k \in Ids : job[i].thread = "recording" /\ job[k].thread = "recording" => i = k

\* Where the loop is, in terms of the store.
LoopInv ==
  /\ shuttingDown <=> loop \in {"stopping", "stopped"}
  /\ joining # {} => loop \in {"joining", "stopping"}
  /\ mutex = "loop" <=> loop \in {"taking", "closing"}
  /\ shuttingDown => \A i \in Ids : job[i].handle \notin {"entry", "orphan"}

\* What the store of jobs keeps by itself, what the gate keeps of its tokens, and
\* what holds of the target and the calls on it.
StoreInv ==
  /\ JobsTypeOK
  /\ CancelInv
  /\ OneJobPerRequest
  /\ ThreadInv
  /\ MutexInv

GateInv ==
  /\ token \in [Tokens -> Token]
  /\ spent \in [Tokens -> Nat]
  /\ TokenInv

CallsInv ==
  /\ target \in Contents \union {Absent}
  /\ call \in [Callers -> Call]
  /\ ApprovedInv

IndInv ==
  /\ clock \in 0..MaxClock
  /\ loop \in LoopStates
  /\ asked \in Request
  /\ StoreInv
  /\ GateInv
  /\ CallsInv
  /\ AskedInv
  /\ LoopInv

-----------------------------------------------------------------------------
(* Jobs.                                                                   *)

\* An unused job id is well typed.
LEMMA NoJobFacts ==
  /\ NoJob \in Job
  /\ NoJob.state = "fresh" /\ NoJob.request = NoRequest /\ ~NoJob.asked
  /\ NoJob.thread = "none" /\ NoJob.handle = "none"
<1>1. (CHOOSE w \in Works : TRUE) \in Works
  BY JobsAssumption
<1> QED
  BY <1>1 DEF NoJob, Job, JobStates, Threads, Handles

\* What is left of an entry that is dropped.
LEMMA DropFacts ==
  ASSUME NEW j \in Job
  PROVE  /\ Drop(j) \in Job
         /\ Drop(j).state = "dropped" /\ Drop(j).request = NoRequest /\ ~Drop(j).asked
         /\ Drop(j).thread = j.thread
         /\ Drop(j).handle = IF j.handle = "entry" THEN "orphan" ELSE j.handle
<1> QED
  BY NoJobFacts DEF Drop, Job, JobStates, Threads, Handles

\* The entry of a job that starts.
Started(t, r, w) == [NoJob EXCEPT !.state = "working", !.created = t, !.request = r,
                                  !.work = w, !.thread = "running", !.handle = "entry"]

\* The jobs of D, all finished, are dropped and at most one, of a request no job
\* that stays has, is started, with every thread that was taken joined.
Replaced(D, S, t, r, w) ==
  /\ D \subseteq {k \in Ids : job[k].state \in Finished}
  /\ S \subseteq {k \in Ids : job[k].state = "fresh"}
  /\ \A a, b \in S : a = b
  /\ t \in Nat /\ r \in Requests \union {NoRequest} /\ w \in Works
  /\ \A k \in Kept \ D : r # NoRequest => job[k].request # r
  /\ \A k \in joining : job[k].thread = "over"
  /\ job' = [k \in Ids |-> IF k \in S THEN Started(t, r, w)
                           ELSE IF k \in D THEN Drop(job[k]) ELSE job[k]]
  /\ joining' = {}
  /\ shuttingDown' = shuttingDown
  /\ mutex = "free" /\ mutex' = mutex

\* Dropping entries and starting a job in their place keeps the store consistent.
LEMMA ReplacedKeeps ==
  ASSUME StoreInv, NEW D, NEW S, NEW t, NEW r, NEW w, Replaced(D, S, t, r, w)
  PROVE  StoreInv'
<1> USE DEF Replaced
<1> DEFINE new == Started(t, r, w)
<1>1. /\ new \in Job /\ new.state = "working" /\ new.request = r /\ ~new.asked
      /\ new.thread = "running" /\ new.handle = "entry"
  BY DEF Started, NoJob, Job, JobStates, Threads, Handles
<1> HIDE DEF new
<1>2. \A k \in Ids : job[k] \in Job
  BY DEF StoreInv, JobsTypeOK
<1>3. \A k \in Ids : \/ k \in S /\ job'[k] = new
                     \/ k \in D /\ job'[k] = Drop(job[k])
                     \/ k \notin S /\ k \notin D /\ job'[k] = job[k]
  BY DEF new
<1>4. JobsTypeOK'
  <2>1. \A k \in Ids : job'[k] \in Job
    BY <1>1, <1>2, <1>3, DropFacts
  <2> QED
    BY <2>1 DEF JobsTypeOK, StoreInv
<1>5. CancelInv'
  <2>1. \A k \in D : ~Drop(job[k]).asked
    BY <1>2, DropFacts
  <2>2. ASSUME NEW k \in Ids, job'[k].asked PROVE job'[k] = job[k]
    <3>1. CASE job'[k] = new
      BY <1>1, <2>2, <3>1, Zenon
    <3>2. CASE k \in D /\ job'[k] = Drop(job[k])
      BY <2>1, <2>2, <3>2, Zenon
    <3> QED
      BY <1>3, <3>1, <3>2, Zenon
  <2> QED
    BY <2>2 DEF CancelInv, StoreInv
<1>7. OneJobPerRequest'
  <2>1. \A k \in Kept' : (k \in S /\ job'[k] = new) \/ (k \in Kept \ D /\ job'[k] = job[k])
    BY <1>2, <1>3, DropFacts DEF Kept, Finished
  <2>2. \A k \in S : k \notin Kept
    BY DEF Kept, Finished
  <2> QED
    BY <1>1, <2>1, <2>2 DEF OneJobPerRequest, StoreInv
<1>8. ThreadInv'
  <2> SUFFICES ASSUME NEW k \in Ids
               PROVE  /\ job'[k].thread \in {"running", "recording", "leaving"} =>
                           job'[k].handle \in {"entry", "orphan"}
                      /\ job'[k].state # "working" => job'[k].thread \notin {"running", "recording"}
                      /\ job'[k].handle = "orphan" =>
                           job'[k].thread \notin {"running", "recording"}
    BY DEF ThreadInv
  <2>1. CASE k \in S /\ job'[k] = new
    BY <1>1, <2>1 DEF Finished
  <2>2. CASE k \in D /\ job'[k] = Drop(job[k])
    <3>1. /\ job[k].state \in Finished /\ job[k].thread \notin {"running", "recording"}
          /\ job[k].thread \in {"running", "recording", "leaving"} =>
               job[k].handle \in {"entry", "orphan"} \/ k \in joining
      BY <2>2 DEF StoreInv, ThreadInv, Finished
    <3>2. /\ job'[k].thread = job[k].thread
          /\ job'[k].handle = IF job[k].handle = "entry" THEN "orphan" ELSE job[k].handle
      <4>1. /\ Drop(job[k]).thread = job[k].thread
            /\ Drop(job[k]).handle =
                 IF job[k].handle = "entry" THEN "orphan" ELSE job[k].handle
        BY <1>2, DropFacts
      <4> QED
        BY <2>2, <4>1
    <3> QED
      BY <3>1, <3>2
  <2>3. CASE job'[k] = job[k]
    BY <2>3 DEF StoreInv, ThreadInv
  <2> QED
    BY <1>3, <2>1, <2>2, <2>3
<1>9. MutexInv'
  <2>1. \A k \in Ids : job[k].thread # "recording"
    BY DEF StoreInv, MutexInv
  <2>2. \A k \in D : Drop(job[k]).thread = job[k].thread
    BY <1>2, DropFacts
  <2>3. ASSUME NEW k \in Ids PROVE job'[k].thread # "recording"
    <3>1. CASE job'[k] = new
      BY <1>1, <3>1
    <3>2. CASE k \in D /\ job'[k] = Drop(job[k])
      BY <2>1, <2>2, <3>2
    <3> QED
      BY <1>3, <2>1, <3>1, <3>2
  <2> QED
    BY <2>3 DEF MutexInv
<1> QED
  BY <1>4, <1>5, <1>7, <1>8, <1>9 DEF StoreInv

\* The loop takes the mutex that nobody has.
LEMMA LoopLocksKeeps ==
  ASSUME StoreInv, LoopLocks
  PROVE  StoreInv'
<1>1. mutex = "free" /\ mutex' = "loop" /\ UNCHANGED <<job, joining, shuttingDown>>
  BY DEF LoopLocks
<1>2. JobsTypeOK' /\ CancelInv' /\ OneJobPerRequest' /\ ThreadInv'
  BY <1>1 DEF StoreInv, JobsTypeOK, CancelInv, OneJobPerRequest, Kept, ThreadInv
<1>3. MutexInv'
  BY <1>1 DEF StoreInv, MutexInv
<1> QED
  BY <1>2, <1>3 DEF StoreInv

\* start takes the orphans.
LEMMA TakeOrphansKeeps ==
  ASSUME StoreInv, joining = {}, TakeOrphans
  PROVE  /\ StoreInv'
         /\ \A k \in Ids : /\ job'[k].state = job[k].state
                           /\ job'[k].request = job[k].request
                           /\ job'[k].created = job[k].created
<1>1. /\ joining' = {k \in Ids : job[k].handle = "orphan"}
      /\ job' = [k \in Ids |-> IF job[k].handle = "orphan"
                                THEN [job[k] EXCEPT !.handle = "taken"] ELSE job[k]]
      /\ shuttingDown' = shuttingDown
      /\ mutex = "loop" /\ mutex' = "free"
  BY DEF TakeOrphans
<1>2. \A k \in Ids : job[k] \in Job
  BY DEF StoreInv, JobsTypeOK
<1>3. ASSUME NEW k \in Ids
      PROVE  /\ job'[k] \in Job
             /\ job'[k].state = job[k].state
             /\ job'[k].request = job[k].request
             /\ job'[k].created = job[k].created
             /\ job'[k].thread = job[k].thread
             /\ job'[k].asked = job[k].asked
             /\ job'[k].flag = job[k].flag
             /\ job'[k].handle = IF job[k].handle = "orphan" THEN "taken" ELSE job[k].handle
  BY <1>1, <1>2 DEF Job, Handles
<1>4. JobsTypeOK'
  BY <1>1, <1>3 DEF JobsTypeOK, StoreInv
<1>5. CancelInv'
  BY <1>3, Zenon DEF CancelInv, StoreInv
<1>7. OneJobPerRequest'
  BY <1>3 DEF OneJobPerRequest, Kept, StoreInv
<1>8. ThreadInv'
  BY <1>1, <1>3 DEF ThreadInv, StoreInv
<1>9. MutexInv'
  BY <1>1, <1>3 DEF MutexInv, StoreInv
<1> QED
  BY <1>3, <1>4, <1>5, <1>7, <1>8, <1>9 DEF StoreInv

\* Jobs past their ttl go, and start is refused.
LEMMA StartRefusedKeeps ==
  ASSUME StoreInv, StartRefused
  PROVE  StoreInv'
<1> DEFINE D == IF shuttingDown THEN {} ELSE {k \in Ids : Expired(job[k])}
<1>1. D \in SUBSET {k \in Ids : job[k].state \in Finished}
  BY DEF Expired
<1>2. /\ joining' = {} /\ shuttingDown' = shuttingDown
      /\ mutex = "free" /\ mutex' = mutex
      /\ \A k \in joining : job[k].thread = "over"
  BY DEF StartRefused, AllJoined
<1>3. job' = [k \in Ids |-> IF k \in D THEN Drop(job[k]) ELSE job[k]]
  BY DEF StartRefused, expireLocked, StoreInv, JobsTypeOK
<1> HIDE DEF D
<1>4. PICK w \in Works : TRUE
  BY JobsAssumption
<1> DEFINE S == {k \in Ids : FALSE}
<1>5. job' = [k \in Ids |-> IF k \in S THEN Started(0, NoRequest, w)
                            ELSE IF k \in D THEN Drop(job[k]) ELSE job[k]]
  BY <1>3
<1>6. Replaced(D, S, 0, NoRequest, w)
  BY <1>1, <1>2, <1>5 DEF Replaced
<1> QED
  BY <1>6, ReplacedKeeps

\* A job is started, after the expired ones and the evicted ones went.
LEMMA StartLockedKeeps ==
  ASSUME StoreInv, clock \in Nat, NEW i \in Ids,
         NEW r \in Requests \union {NoRequest}, NEW w \in Works,
         \A k \in Kept : r # NoRequest /\ job[k].request = r => Expired(job[k]),
         StartLocked(i, r, w)
  PROVE  StoreInv'
<1>1. PICK E \in evictLocked(expireLocked(job)) :
        job' = [k \in Ids |->
                  CASE k = i -> [NoJob EXCEPT !.state = "working", !.created = clock,
                                              !.request = r, !.work = w,
                                              !.thread = "running", !.handle = "entry"]
                    [] k # i /\ k \in E -> Drop(job[k])
                    [] OTHER -> expireLocked(job)[k]]
  BY DEF StartLocked
<1> DEFINE gone == {k \in Ids : Expired(job[k])}
           D == E \union gone
<1>2. \A k \in Ids : expireLocked(job)[k] = IF k \in gone THEN Drop(job[k]) ELSE job[k]
  BY DEF expireLocked
<1>3. \A k \in Ids : job[k] \in Job
  BY DEF StoreInv, JobsTypeOK
<1>4. E \subseteq {k \in Ids : job[k].state \in Finished}
  <2>1. E \subseteq {k \in Ids : expireLocked(job)[k].state \in Finished}
    BY DEF evictLocked
  <2>2. \A k \in gone : expireLocked(job)[k].state = "dropped"
    BY <1>2, <1>3, DropFacts
  <2> QED
    BY <1>2, <2>1, <2>2 DEF Finished
<1>5. D \in SUBSET {k \in Ids : job[k].state \in Finished}
  BY <1>4 DEF Expired
<1> DEFINE S == {i}
<1>6. S \in SUBSET {k \in Ids : job[k].state = "fresh"} /\ \A a, b \in S : a = b
  BY <1>5 DEF StartLocked, Finished
<1>7. /\ joining' = {} /\ shuttingDown' = shuttingDown
      /\ mutex = "free" /\ mutex' = mutex
      /\ \A k \in joining : job[k].thread = "over"
  BY DEF StartLocked, AllJoined
<1>8. \A k \in Kept \ D : r # NoRequest => job[k].request # r
  BY DEF Kept
<1>9. job' = [k \in Ids |->
                IF k \in S THEN Started(clock, r, w)
                ELSE IF k \in D THEN Drop(job[k]) ELSE job[k]]
  BY <1>1, <1>2 DEF Started
<1> HIDE DEF D, S
<1>10. Replaced(D, S, clock, r, w)
  BY <1>5, <1>6, <1>7, <1>8, <1>9 DEF Replaced
<1> QED
  BY <1>10, ReplacedKeeps

\* The thread of a job takes the mutex, to record its answer.
LEMMA ReturnKeeps ==
  ASSUME StoreInv, NEW i \in Ids, Return(i)
  PROVE  /\ StoreInv'
         /\ \A k \in Ids : /\ job'[k].state = job[k].state
                           /\ job'[k].request = job[k].request
                           /\ job'[k].created = job[k].created
                           /\ job'[k].handle = job[k].handle
                           /\ job'[k].thread = IF k = i THEN "recording" ELSE job[k].thread
         /\ UNCHANGED <<joining, shuttingDown>>
         /\ mutex = "free" /\ mutex' = "thread"
<1>1. /\ job[i].thread = "running"
      /\ job' = [job EXCEPT ![i].thread = "recording"]
      /\ UNCHANGED <<joining, shuttingDown>>
      /\ mutex = "free" /\ mutex' = "thread"
  BY DEF Return
<1>2. \A k \in Ids : job[k] \in Job
  BY DEF StoreInv, JobsTypeOK
<1>3. /\ job'[i] \in Job
      /\ job' \in [Ids -> Job]
      /\ job'[i].state = job[i].state /\ job'[i].thread = "recording"
      /\ job'[i].request = job[i].request
      /\ job'[i].created = job[i].created
      /\ job'[i].handle = job[i].handle
      /\ job'[i].asked = job[i].asked
      /\ job'[i].flag = job[i].flag
  BY <1>1, <1>2 DEF Job, Threads, StoreInv, JobsTypeOK
<1>4. \A k \in Ids : k # i => job'[k] = job[k]
  BY <1>1 DEF StoreInv, JobsTypeOK
<1>5. JobsTypeOK'
  BY <1>1, <1>3 DEF JobsTypeOK, StoreInv
<1>6. CancelInv'
  <2>1. job'[i].asked => job'[i].flag /\ job'[i].state # "completed"
    BY <1>3, Zenon DEF CancelInv, StoreInv
  <2> QED
    BY <1>4, <2>1, Zenon DEF CancelInv, StoreInv
<1>7. OneJobPerRequest'
  BY <1>3, <1>4 DEF OneJobPerRequest, Kept, StoreInv
<1>8. ThreadInv'
  BY <1>1, <1>3, <1>4 DEF ThreadInv, StoreInv
<1>9. MutexInv'
  BY <1>1, <1>3, <1>4 DEF MutexInv, StoreInv
<1> QED
  BY <1>1, <1>3, <1>4, <1>5, <1>6, <1>7, <1>8, <1>9 DEF StoreInv

\* The answer of a job is recorded.
LEMMA FinishKeeps ==
  ASSUME StoreInv, NEW i \in Ids, NEW threw \in BOOLEAN, Finish(i, threw)
  PROVE  /\ StoreInv'
         /\ Kept' = Kept
         /\ \A k \in Ids : /\ job'[k].request = job[k].request
                           /\ Expired(job[k]) => job'[k] = job[k]
<1> DEFINE answer == IF job[i].state # "working" THEN job[i].state
                     ELSE IF threw THEN "abandoned"
                     ELSE IF job[i].flag THEN "cancelled" ELSE "completed"
<1>1. /\ job[i].thread = "recording" /\ mutex' = "free"
      /\ job' = [job EXCEPT ![i].thread = "leaving", ![i].state = answer]
      /\ UNCHANGED <<joining, shuttingDown>>
  BY DEF Finish
<1>2. \A k \in Ids : job[k] \in Job
  BY DEF StoreInv, JobsTypeOK
<1>3. job[i].state = "working"
  BY <1>1 DEF StoreInv, ThreadInv
<1>4. /\ answer \in Finished
      /\ job[i].flag => answer # "completed"
  BY <1>3, Zenon DEF Finished
<1> HIDE DEF answer
<1>5. /\ job'[i] \in Job
      /\ job'[i].state = answer /\ job'[i].thread = "leaving"
      /\ job'[i].request = job[i].request
      /\ job'[i].asked = job[i].asked
      /\ job'[i].flag = job[i].flag
      /\ job'[i].handle = job[i].handle
  BY <1>1, <1>2, <1>4 DEF Job, JobStates, Threads, StoreInv, JobsTypeOK
<1>6. \A k \in Ids : k # i => job'[k] = job[k]
  BY <1>1 DEF StoreInv, JobsTypeOK
<1>7. JobsTypeOK'
  BY <1>1, <1>2, <1>5, <1>6 DEF StoreInv, JobsTypeOK
<1>8. CancelInv'
  <2>1. job'[i].asked => job'[i].flag /\ job'[i].state # "completed"
    BY <1>4, <1>5, Zenon DEF CancelInv, StoreInv
  <2> QED
    BY <1>6, <2>1, Zenon DEF CancelInv, StoreInv
<1>10. Kept' = Kept
  BY <1>3, <1>4, <1>5, <1>6 DEF Kept
<1>11. \A k \in Ids : job'[k].request = job[k].request
  BY <1>5, <1>6
<1>12. OneJobPerRequest'
  BY <1>10, <1>11 DEF OneJobPerRequest, StoreInv, Kept
<1>13. ThreadInv'
  BY <1>1, <1>5, <1>6 DEF ThreadInv, StoreInv
<1>14. \A k \in Ids : Expired(job[k]) => job'[k] = job[k]
  BY <1>3, <1>6 DEF Expired, Finished
<1>15. MutexInv'
  <2>1. \A k \in Ids : job'[k].thread # "recording"
    BY <1>1, <1>5, <1>6 DEF MutexInv, StoreInv
  <2> QED
    BY <1>1, <2>1 DEF MutexInv
<1> QED
  BY <1>7, <1>8, <1>10, <1>11, <1>12, <1>13, <1>14, <1>15 DEF StoreInv

\* The thread of a job is over, or a job is told to stop: nothing a request id
\* finds changes.
LEMMA LeaveKeeps ==
  ASSUME StoreInv, NEW i \in Ids, Leave(i) \/ Cancel(i)
  PROVE  /\ StoreInv'
         /\ \A k \in Ids : /\ job'[k].state = job[k].state
                           /\ job'[k].request = job[k].request
                           /\ job'[k].created = job[k].created
                           /\ job'[k].handle = job[k].handle
         /\ UNCHANGED <<mutex, joining, shuttingDown>>
<1>1. \A k \in Ids : job[k] \in Job
  BY DEF StoreInv, JobsTypeOK
<1>2. \A k \in Ids : k # i => job'[k] = job[k]
  <2>1. CASE Leave(i)
    BY <2>1 DEF Leave, StoreInv, JobsTypeOK
  <2>2. CASE Cancel(i)
    BY <2>2 DEF Cancel, StoreInv, JobsTypeOK
  <2> QED
    BY <2>1, <2>2
<1>3. /\ job'[i] \in Job
      /\ job' \in [Ids -> Job]
      /\ job'[i].state = job[i].state
      /\ job'[i].request = job[i].request
      /\ job'[i].created = job[i].created
      /\ job'[i].handle = job[i].handle
      /\ \/ job'[i].thread = job[i].thread
         \/ job[i].thread = "leaving" /\ job'[i].thread = "over"
      /\ UNCHANGED <<mutex, joining, shuttingDown>>
  <2>1. CASE Leave(i)
    BY <1>1, <2>1 DEF Leave, Job, Threads, StoreInv, JobsTypeOK
  <2>2. CASE Cancel(i)
    BY <1>1, <2>2 DEF Cancel, Working, Job, StoreInv, JobsTypeOK
  <2> QED
    BY <2>1, <2>2
<1>4. job'[i].asked => job'[i].flag /\ job'[i].state # "completed"
  <2>1. CASE Leave(i)
    <3>1. job'[i].asked = job[i].asked /\ job'[i].flag = job[i].flag
      BY <1>1, <2>1 DEF Leave, Job, StoreInv, JobsTypeOK
    <3> QED
      BY <1>3, <3>1, Zenon DEF CancelInv, StoreInv
  <2>2. CASE Cancel(i)
    BY <1>1, <2>2 DEF Cancel, Working, Job, StoreInv, JobsTypeOK
  <2> QED
    BY <2>1, <2>2
<1>5. JobsTypeOK'
  BY <1>3 DEF JobsTypeOK, StoreInv
<1>6. CancelInv'
  BY <1>2, <1>4, Zenon DEF CancelInv, StoreInv
<1>8. OneJobPerRequest'
  BY <1>2, <1>3 DEF OneJobPerRequest, Kept, StoreInv
<1>9. ThreadInv'
  BY <1>2, <1>3 DEF ThreadInv, StoreInv
<1>10. MutexInv'
  <2>1. \A k \in Ids : job'[k].thread = "recording" <=> job[k].thread = "recording"
    BY <1>2, <1>3
  <2> QED
    BY <1>3, <2>1 DEF MutexInv, StoreInv
<1> QED
  BY <1>2, <1>3, <1>5, <1>6, <1>8, <1>9, <1>10 DEF StoreInv

\* shutdown takes every handle there is.
LEMMA ShutdownKeeps ==
  ASSUME StoreInv, joining = {}, Shutdown
  PROVE  /\ StoreInv'
         /\ \A k \in Ids : job'[k].handle \notin {"entry", "orphan"}
         /\ shuttingDown' /\ mutex' = "free"
<1>1. \A k \in Ids : job[k] \in Job
  BY DEF StoreInv, JobsTypeOK
<1>2. ASSUME NEW k \in Ids
      PROVE  /\ job'[k] \in Job
             /\ job'[k].flag = (job[k].flag \/ k \in Kept)
             /\ job'[k].state = job[k].state
             /\ job'[k].request = job[k].request
             /\ job'[k].asked = job[k].asked
             /\ job'[k].thread = job[k].thread
             /\ job'[k].handle = IF job[k].handle \in {"entry", "orphan"} THEN "taken"
                                 ELSE job[k].handle
  <2>1. job'[k] = [job[k] EXCEPT !.flag = @ \/ k \in Kept,
                                 !.handle = IF @ \in {"entry", "orphan"} THEN "taken" ELSE @]
    BY DEF Shutdown
  <2> QED
    BY <1>1, <2>1 DEF Job, Handles
<1>4. JobsTypeOK'
  BY <1>2 DEF Shutdown, JobsTypeOK
<1>5. CancelInv'
  BY <1>2, Zenon DEF CancelInv, StoreInv
<1>3. \A k \in Ids : /\ job'[k].state = job[k].state
                       /\ job'[k].request = job[k].request
                       /\ job'[k].thread = job[k].thread
                       /\ job'[k].handle = IF job[k].handle \in {"entry", "orphan"} THEN "taken"
                                           ELSE job[k].handle
  BY <1>2
<1>7. OneJobPerRequest'
  BY <1>3 DEF OneJobPerRequest, Kept, StoreInv
<1>6. /\ shuttingDown' /\ joining' = {k \in Ids : job[k].handle \in {"entry", "orphan"}}
      /\ mutex = "loop" /\ mutex' = "free"
  BY DEF Shutdown
<1>8. ThreadInv'
  BY <1>3, <1>6 DEF ThreadInv, StoreInv
<1>9. MutexInv'
  BY <1>3, <1>6 DEF MutexInv, StoreInv
<1> QED
  BY <1>3, <1>4, <1>5, <1>6, <1>7, <1>8, <1>9 DEF StoreInv

\* Nothing happens in the store, or its last joins return.
LEMMA StoreQuietKeeps ==
  ASSUME StoreInv, UNCHANGED jobVars \/ ShutdownJoined
  PROVE  StoreInv'
<1>1. UNCHANGED <<job, mutex, shuttingDown>>
  BY DEF jobVars, ShutdownJoined
<1>2. \/ joining' = joining
      \/ joining' = {} /\ \A k \in joining : job[k].thread = "over"
  BY DEF jobVars, ShutdownJoined, AllJoined
<1>3. JobsTypeOK' /\ CancelInv' /\ OneJobPerRequest'
  BY <1>1, <1>2 DEF StoreInv, JobsTypeOK, CancelInv, OneJobPerRequest, Kept
<1>4. ThreadInv' /\ MutexInv'
  BY <1>1, <1>2 DEF StoreInv, ThreadInv, MutexInv
<1> QED
  BY <1>3, <1>4 DEF StoreInv

-----------------------------------------------------------------------------
(* Tokens.                                                                 *)

\* A call has a tool.
LEMMA SomeCall == (CHOOSE c \in Calls : TRUE) \in Calls
BY JobsAssumption, ToolCallsAssumption

\* A token that is not held is well typed.
LEMMA NotHeldFacts ==
  /\ NotHeld("gone") \in Token /\ NotHeld("gone").status = "gone"
  /\ NotHeld("fresh") \in Token /\ NotHeld("fresh").status = "fresh"
BY SomeCall DEF NotHeld, Token

\* A token is minted, and others may be pruned.
LEMMA MintKeeps ==
  ASSUME GateInv, target \in Contents \union {Absent},
         NEW t \in Tokens, NEW c \in Calls, NEW n \in Nat, Mint(t, c, n)
  PROVE  GateInv'
<1> DEFINE new == [status |-> "live", call |-> c, expires |-> n + TokenTtl,
                  seen |-> Fingerprint(c)]
<1>1. new \in Token /\ new.status = "live"
  <2>1. n + TokenTtl \in Nat
    BY ConfirmationsAssumption
  <2> QED
    BY <2>1 DEF Token, Fingerprint
<1>2. PICK K \in prune(n) :
        token' = [u \in Tokens |->
                    CASE u = t -> new
                      [] u # t /\ u \in Live(token) \ K -> NotHeld("gone")
                      [] OTHER -> token[u]]
  BY DEF Mint
<1>3. spent' = spent /\ token[t].status = "fresh"
  BY DEF Mint
<1> HIDE DEF new
<1>4. \A u \in Tokens : \/ u = t /\ token'[u] = new
                        \/ token'[u] = NotHeld("gone")
                        \/ token'[u] = token[u]
  BY <1>2
<1>5. token' \in [Tokens -> Token]
  <2>1. \A u \in Tokens : token'[u] \in Token
    BY <1>1, <1>4, NotHeldFacts DEF GateInv
  <2> QED
    BY <1>2, <2>1
<1>6. TokenInv'
  <2>1. spent[t] = 0
    BY <1>3 DEF GateInv, TokenInv
  <2> QED
    BY <1>3, <1>4, <2>1, NotHeldFacts DEF TokenInv, GateInv
<1> QED
  BY <1>3, <1>5, <1>6 DEF GateInv

\* A token is looked up, and gone if it has expired; or it is spent.
LEMMA SpendKeeps ==
  ASSUME GateInv, NEW t \in Tokens, NEW c \in Calls, LookUp(t, c) \/ Spend(t)
  PROVE  GateInv'
<1>1. CASE LookUp(t, c)
  <2>1. spent' = spent
    BY <1>1 DEF LookUp
  <2>2. token' = token \/ token' = [token EXCEPT ![t] = NotHeld("gone")]
    BY <1>1 DEF LookUp
  <2> QED
    BY <2>1, <2>2, NotHeldFacts DEF GateInv, TokenInv
<1>2. CASE Spend(t)
  <2>1. /\ token[t].status = "live"
        /\ token' = [token EXCEPT ![t] = NotHeld("gone")]
        /\ spent' = [spent EXCEPT ![t] = @ + 1]
    BY <1>2 DEF Spend
  <2>2. spent[t] = 0
    BY <2>1 DEF GateInv, TokenInv
  <2> QED
    BY <2>1, <2>2, NotHeldFacts DEF GateInv, TokenInv
<1> QED
  BY <1>1, <1>2

\* What does not touch the tokens keeps the gate consistent.
LEMMA GateQuietKeeps ==
  ASSUME GateInv, UNCHANGED confirmVars
  PROVE  GateInv'
BY DEF GateInv, TokenInv, confirmVars

-----------------------------------------------------------------------------
(* Calls.                                                                  *)

\* No call, and a call that is over, are well typed.
LEMMA NoCallFacts ==
  /\ NoCall \in Call /\ NoCall.stage = "none"
  /\ Ended \in Call /\ Ended.stage = "done"
BY SomeCall DEF NoCall, Ended, Call

\* A call that is let through is well typed; its handler looks at the target first
\* if it must not overwrite.
LEMMA RunsFacts ==
  ASSUME NEW k \in Call
  PROVE  /\ Runs(k) \in Call /\ Runs(k).approved = k.approved
         /\ Runs(k).stage = IF k.call \in RefusesExisting THEN "checking" ELSE "running"
BY NoCallFacts DEF Runs, Call

\* What one caller's record may become.
GoodCall(k, tgt) ==
  /\ k \in Call
  /\ k.stage = "probing" => k.token # NoToken /\ (MayOverwrite(k, tgt) => k.approved)
  /\ k.stage \in {"spending", "running"} => k.approved

\* A call ends, is made on the loop or waits for its thread.
LEMMA RestingIsGood ==
  ASSUME NEW k \in Call, k.stage \in {"none", "preview", "threw", "done"}, NEW tgt
  PROVE  GoodCall(k, tgt)
BY DEF GoodCall

\* One caller goes on while the target stays.
LEMMA OneCallKeeps ==
  ASSUME CallsInv, target' = target, NEW p \in Callers, NEW k, GoodCall(k, target),
         call' = [call EXCEPT ![p] = k]
  PROVE  CallsInv'
<1>1. call' \in [Callers -> Call]
  BY DEF CallsInv, GoodCall
<1>2. ASSUME NEW q \in Callers
      PROVE  GoodCall(call'[q], target)
  <2>1. CASE q = p
    BY <2>1 DEF CallsInv
  <2>2. CASE q # p
    BY <2>2 DEF CallsInv, ApprovedInv, GoodCall
  <2> QED
    BY <2>1, <2>2
<1> QED
  BY <1>1, <1>2 DEF CallsInv, ApprovedInv, GoodCall

\* The target changes under the calls in flight.
LEMMA SetTargetKeeps ==
  ASSUME NEW tgt \in Contents \union {Absent}, NEW calls \in [Callers -> Call],
         \A q \in Callers : GoodCall(calls[q], target),
         SetTarget(tgt, calls)
  PROVE  CallsInv'
<1>1. target' = tgt
  BY DEF SetTarget
<1>2. ASSUME NEW q \in Callers
      PROVE  GoodCall(call'[q], tgt)
  <2> DEFINE k == calls[q]
  <2>1. k \in Call /\ GoodCall(k, target)
    OBVIOUS
  <2>2. CASE k.stage \in {"probing", "spending"}
    <3> DEFINE new == [k EXCEPT !.approved = @ \/ MayOverwrite(k, tgt)]
    <3>1. call'[q] = new
      BY <2>2 DEF SetTarget
    <3>2. /\ new \in Call /\ new.stage = k.stage /\ new.token = k.token
          /\ new.seen = k.seen
          /\ new.approved = (k.approved \/ MayOverwrite(k, tgt))
      BY <2>1 DEF Call
    <3>3. MayOverwrite(new, tgt) <=> MayOverwrite(k, tgt)
      BY <3>2 DEF MayOverwrite
    <3>4. k.stage = "probing" => k.token # NoToken
      BY <2>1 DEF GoodCall
    <3>5. k.stage = "spending" => k.approved
      BY <2>1 DEF GoodCall
    <3> HIDE DEF new, k
    <3> QED
      BY <2>2, <3>1, <3>2, <3>3, <3>4, <3>5, Zenon DEF GoodCall
  <2>3. CASE k.stage \notin {"probing", "spending"}
    <3>1. call'[q] = k
      BY <2>3 DEF SetTarget
    <3> QED
      BY <2>1, <2>3, <3>1 DEF GoodCall
  <2> QED
    BY <2>2, <2>3
<1>3. call' \in [Callers -> Call]
  <2>1. call' = [q \in Callers |-> call'[q]]
    BY DEF SetTarget
  <2> QED
    BY <1>2, <2>1 DEF GoodCall
<1> QED
  BY <1>1, <1>2, <1>3 DEF CallsInv, ApprovedInv, GoodCall

\* The calls in flight are good.
LEMMA CallsAreGood ==
  ASSUME CallsInv
  PROVE  \A q \in Callers : GoodCall(call[q], target)
BY DEF CallsInv, ApprovedInv, GoodCall

\* evaluate, up to the probe.
LEMMA EvaluateKeeps ==
  ASSUME CallsInv, GateInv, clock \in Nat,
         NEW p \in Callers, NEW c \in Calls, NEW t \in Tokens \union {NoToken},
         Evaluate(p, c, t)
  PROVE  CallsInv' /\ GateInv'
<1> DEFINE found == [NoCall EXCEPT !.call = c, !.token = t,
                                   !.seen = IF t = NoToken THEN Absent ELSE token[t].seen]
           begun == [found EXCEPT !.approved = MayOverwrite(found, target)]
           looked == [begun EXCEPT !.stage = IF begun.seen = Absent THEN "spending" ELSE "probing"]
<1>1. target' = target
  BY DEF Evaluate
<1>2. t # NoToken => token[t].seen \in Contents \union {Absent}
  BY DEF GateInv, Token
<1>3. /\ found \in Call /\ found.token = t
      /\ found.seen = IF t = NoToken THEN Absent ELSE token[t].seen
      /\ found.call = c
  BY <1>2, NoCallFacts DEF Call
<1> HIDE DEF found
<1>4. /\ begun \in Call /\ begun.token = t /\ begun.seen = found.seen
      /\ begun.approved = MayOverwrite(found, target)
      /\ begun.call = c
  BY <1>3 DEF Call, MayOverwrite
<1>5. MayOverwrite(begun, target) <=> MayOverwrite(found, target)
  BY <1>3, <1>4 DEF MayOverwrite
<1> HIDE DEF begun
<1>6. CASE t = NoToken
  <2>1. /\ call' = [call EXCEPT ![p] = IF requiresConfirmation(c) THEN Ended ELSE Runs(begun)]
        /\ UNCHANGED confirmVars
    BY <1>6, ToolCallsAssumption DEF Evaluate, found, begun
  <2>2. GateInv'
    BY <2>1, GateQuietKeeps
  <2>3. CASE requiresConfirmation(c)
    <3>1. call' = [call EXCEPT ![p] = Ended]
      BY <2>1, <2>3
    <3> QED
      BY <1>1, <2>2, <3>1, NoCallFacts, RestingIsGood, OneCallKeeps
  <2>4. CASE ~requiresConfirmation(c)
    <3>1. call' = [call EXCEPT ![p] = Runs(begun)]
      BY <2>1, <2>4
    <3>2. c \in RefusesExisting \/ MayOverwrite(found, target)
      BY <2>4 DEF requiresConfirmation, MayOverwrite, RefusesExisting
    <3>3. Runs(begun).stage = "running" => Runs(begun).approved
      <4>1. Runs(begun).stage = "running" => c \notin RefusesExisting
        BY <1>4, RunsFacts
      <4> QED
        BY <1>4, <3>2, <4>1, RunsFacts, Zenon
    <3>4. Runs(begun) \in Call /\ Runs(begun).stage \in {"checking", "running"}
      BY <1>4, RunsFacts
    <3>5. GoodCall(Runs(begun), target)
      BY <3>3, <3>4 DEF GoodCall
    <3> QED
      BY <1>1, <2>2, <3>1, <3>5, OneCallKeeps
  <2> QED
    BY <2>3, <2>4
<1>7. CASE t # NoToken
  <2>1. /\ LookUp(t, c)
        /\ call' = [call EXCEPT ![p] = IF Verdict(t, c) # "spendable" THEN Ended ELSE looked]
    BY <1>7 DEF Evaluate, found, begun
  <2>2. GateInv'
    BY <1>7, <2>1, SpendKeeps
  <2>3. CASE Verdict(t, c) # "spendable"
    <3>1. call' = [call EXCEPT ![p] = Ended]
      BY <2>1, <2>3
    <3> QED
      BY <1>1, <2>2, <3>1, NoCallFacts, RestingIsGood, OneCallKeeps
  <2>4. CASE Verdict(t, c) = "spendable"
    <3>1. call' = [call EXCEPT ![p] = looked]
      BY <2>1, <2>4
    <3>2. /\ looked \in Call /\ looked.token = t /\ looked.seen = begun.seen
          /\ looked.approved = begun.approved
          /\ looked.stage = IF begun.seen = Absent THEN "spending" ELSE "probing"
      BY <1>4 DEF Call
    <3>3. MayOverwrite(looked, target) <=> MayOverwrite(begun, target)
      BY <1>4, <3>2 DEF MayOverwrite
    <3>4. looked.seen = Absent => MayOverwrite(found, target)
      BY <1>3, <1>4, <1>7, <3>2 DEF MayOverwrite
    <3> HIDE DEF looked
    <3>5. looked.stage = "spending" => looked.approved
      <4>1. looked.stage = "spending" => looked.seen = Absent
        BY <3>2
      <4> QED
        BY <1>4, <3>2, <3>4, <4>1, Zenon
    <3>6. MayOverwrite(looked, target) => looked.approved
      BY <1>4, <1>5, <3>2, <3>3, Zenon
    <3>7. looked.stage \in {"spending", "probing"}
      BY <3>2
    <3>8. GoodCall(looked, target)
      <4>1. looked.stage # "running"
        BY <3>7
      <4> QED
        BY <1>7, <3>2, <3>5, <3>6, <4>1, Zenon DEF GoodCall
    <3> QED
      BY <1>1, <2>2, <3>1, <3>8, OneCallKeeps
  <2> QED
    BY <2>3, <2>4
<1> QED
  BY <1>6, <1>7

\* The probe: what it lets through has been seen.
LEMMA ProbeKeeps ==
  ASSUME CallsInv, NEW p \in Callers, Probe(p)
  PROVE  CallsInv'
<1>1. target' = target /\ call[p].stage = "probing"
  BY DEF Probe
<1>2. CASE call' = [call EXCEPT ![p] = Ended]
  BY <1>1, <1>2, NoCallFacts, RestingIsGood, OneCallKeeps
<1>3. CASE ~Drifted(call[p].seen) /\ call' = [call EXCEPT ![p].stage = "spending"]
  <2> DEFINE k == [call[p] EXCEPT !.stage = "spending"]
  <2>1. call' = [call EXCEPT ![p] = k]
    BY <1>3
  <2>2. call[p] \in Call /\ GoodCall(call[p], target)
    BY CallsAreGood DEF CallsInv
  <2>3. k \in Call /\ k.stage = "spending" /\ k.approved = call[p].approved
    BY <2>2 DEF Call
  <2>4. call[p].token # NoToken /\ (MayOverwrite(call[p], target) => call[p].approved)
    BY <1>1, <2>2 DEF GoodCall
  <2>5. MayOverwrite(call[p], target)
    BY <1>3, <2>4 DEF Drifted, MayOverwrite
  <2> HIDE DEF k
  <2>6. k.approved
    BY <2>3, <2>4, <2>5, Zenon
  <2>7. GoodCall(k, target)
    BY <2>3, <2>6 DEF GoodCall
  <2> QED
    BY <1>1, <2>1, <2>7, OneCallKeeps
<1> QED
  BY <1>2, <1>3 DEF Probe

\* The second half of evaluate.
LEMMA AuthoriseKeeps ==
  ASSUME CallsInv, GateInv, NEW p \in Callers, Authorise(p)
  PROVE  CallsInv' /\ GateInv'
<1>1. target' = target /\ call[p].stage = "spending"
  BY DEF Authorise
<1>2. call[p] \in Call /\ GoodCall(call[p], target)
  BY CallsAreGood DEF CallsInv
<1>3. CASE Spend(call[p].token) /\ call' = [call EXCEPT ![p] = Runs(@)]
  <2>1. /\ Runs(call[p]) \in Call /\ Runs(call[p]).stage \in {"checking", "running"}
        /\ Runs(call[p]).approved = call[p].approved
    BY <1>2, RunsFacts
  <2>2. call[p].approved
    BY <1>1, <1>2 DEF GoodCall
  <2>3. Runs(call[p]).approved
    BY <2>1, <2>2, Zenon
  <2>4. GoodCall(Runs(call[p]), target)
    BY <2>1, <2>3 DEF GoodCall
  <2>5. CallsInv'
    BY <1>1, <1>3, <2>4, OneCallKeeps
  <2>6. CASE call[p].token \in Tokens
    BY <1>3, <2>5, <2>6, SpendKeeps, SomeCall
  <2>7. CASE call[p].token \notin Tokens
    <3>1. token' = token /\ spent' = spent
      BY <1>3, <2>7 DEF Spend, GateInv
    <3> QED
      BY <2>5, <3>1, GateQuietKeeps DEF confirmVars
  <2> QED
    BY <2>6, <2>7
<1>4. CASE SpentByAnother(call[p].token) /\ call' = [call EXCEPT ![p] = Ended]
  <2>1. GateInv'
    BY <1>4, GateQuietKeeps DEF SpentByAnother
  <2> QED
    BY <1>1, <1>4, <2>1, NoCallFacts, RestingIsGood, OneCallKeeps
<1> QED
  BY <1>3, <1>4 DEF Authorise

\* The handler's own look at the target.
LEMMA CheckKeeps ==
  ASSUME CallsInv, NEW p \in Callers, Check(p)
  PROVE  CallsInv'
<1>1. target' = target
  BY DEF Check
<1>2. CASE call' = [call EXCEPT ![p] = Ended]
  BY <1>1, <1>2, NoCallFacts, RestingIsGood, OneCallKeeps
<1>3. CASE call' = [call EXCEPT ![p].stage = "running", ![p].approved = TRUE]
  <2> DEFINE k == [call[p] EXCEPT !.stage = "running", !.approved = TRUE]
  <2>1. call' = [call EXCEPT ![p] = k]
    BY <1>3 DEF CallsInv
  <2>2. k \in Call /\ k.stage = "running" /\ k.approved
    BY DEF CallsInv, Call
  <2> HIDE DEF k
  <2>3. GoodCall(k, target)
    BY <2>2 DEF GoodCall
  <2> QED
    BY <1>1, <2>1, <2>3, OneCallKeeps
<1> QED
  BY <1>2, <1>3 DEF Check

\* The handler.
LEMMA ExecuteKeeps ==
  ASSUME CallsInv, NEW p \in Callers, Execute(p)
  PROVE  CallsInv'
<1>1. call[p] \in Call /\ Written[call[p].call] \in Contents
  BY ToolCallsAssumption DEF CallsInv, Call
<1>2. CASE SetTarget(Written[call[p].call], [call EXCEPT ![p] = Ended])
  <2> DEFINE calls == [call EXCEPT ![p] = Ended]
  <2>1. calls \in [Callers -> Call]
    BY NoCallFacts DEF CallsInv
  <2>2. \A q \in Callers : GoodCall(calls[q], target)
    BY CallsAreGood, NoCallFacts, RestingIsGood DEF CallsInv
  <2> QED
    BY <1>1, <1>2, <2>1, <2>2, SetTargetKeeps
<1>3. CASE call' = [call EXCEPT ![p] = Ended] /\ UNCHANGED target
  BY <1>3, NoCallFacts, RestingIsGood, OneCallKeeps
<1> QED
  BY <1>2, <1>3 DEF Execute

-----------------------------------------------------------------------------
(* Steps of the server.                                                    *)

\* The invariant holds of a server that has just started.
LEMMA InitIndInv == Init => IndInv
<1> SUFFICES ASSUME Init PROVE IndInv
  OBVIOUS
<1>1. clock \in 0..MaxClock /\ loop \in LoopStates
  BY WallClockAssumption DEF Init, ClockInit, LoopStates
<1>2. asked \in Request
  BY SomeCall DEF Init, NoRequestAtAll, Request
<1>3. StoreInv
  <2>1. job \in [Ids -> Job] /\ \A k \in Ids : job[k] = NoJob
    BY NoJobFacts DEF Init, JobsInit
  <2>2. Kept = {}
    BY <2>1, NoJobFacts DEF Kept, Finished
  <2>3. JobsTypeOK
    BY <2>1 DEF Init, JobsInit, JobsTypeOK
  <2>4. CancelInv
    BY <2>1, NoJobFacts, Zenon DEF CancelInv
  <2>5. ThreadInv /\ MutexInv
    BY <2>1, NoJobFacts DEF ThreadInv, MutexInv, Init, JobsInit
  <2> QED
    BY <2>2, <2>3, <2>4, <2>5 DEF StoreInv, OneJobPerRequest
<1>4. GateInv
  BY NotHeldFacts DEF Init, ConfirmInit, GateInv, TokenInv
<1>5. CallsInv
  BY NoCallFacts DEF Init, ConfirmInit, CallsInv, ApprovedInv
<1>6. AskedInv /\ LoopInv
  BY DEF Init, JobsInit, AskedInv, LoopInv
<1> QED
  BY <1>1, <1>2, <1>3, <1>4, <1>5, <1>6 DEF IndInv

\* What a step that leaves the store alone keeps, if the loop does not begin to
\* join or to stop in it.
LEMMA StoreStands ==
  ASSUME IndInv, UNCHANGED <<clock, jobVars, asked>>,
         \/ loop' = loop
         \/ loop \in {"ready", "calling"} /\ loop' \in {"ready", "calling"}
  PROVE  /\ clock' \in 0..MaxClock /\ loop' \in LoopStates /\ asked' \in Request
         /\ StoreInv' /\ AskedInv' /\ LoopInv'
<1>1. StoreInv'
  BY StoreQuietKeeps DEF IndInv
<1>2. UNCHANGED <<clock, job, mutex, joining, shuttingDown, asked>>
  BY DEF jobVars
<1>3. AskedInv'
  BY <1>2 DEF IndInv, AskedInv, Kept, Expired
<1>4. LoopInv'
  BY <1>2 DEF IndInv, LoopInv
<1> QED
  BY <1>1, <1>2, <1>3, <1>4 DEF IndInv, LoopStates

\* What a step that leaves the gate, the target and the calls alone keeps.
LEMMA CallsStand ==
  ASSUME IndInv, UNCHANGED <<confirmVars, target, call>>
  PROVE  GateInv' /\ CallsInv'
<1>1. GateInv'
  BY GateQuietKeeps DEF IndInv
<1> QED
  BY <1>1 DEF IndInv, CallsInv, ApprovedInv, MayOverwrite

\* The steps of a call through the gate keep the invariant.
LEMMA CallStepKeeps ==
  ASSUME IndInv, NEW p \in Callers,
         Probe(p) \/ Authorise(p) \/ Check(p) \/ Execute(p)
  PROVE  IndInv'
<1>1. UNCHANGED <<clock, jobVars, asked, loop>>
  BY DEF Probe, Authorise, Check, Execute
<1>2. CallsInv' /\ GateInv'
  <2>1. CASE Probe(p)
    BY <2>1, ProbeKeeps, GateQuietKeeps DEF IndInv, Probe
  <2>2. CASE Authorise(p)
    BY <2>2, AuthoriseKeeps DEF IndInv
  <2>3. CASE Execute(p)
    BY <2>3, ExecuteKeeps, GateQuietKeeps DEF IndInv, Execute
  <2>4. CASE Check(p)
    BY <2>4, CheckKeeps, GateQuietKeeps DEF IndInv, Check
  <2> QED
    BY <2>1, <2>2, <2>3, <2>4
<1> QED
  BY <1>1, <1>2, StoreStands DEF IndInv

\* Somebody else writes the target, or time passes.
LEMMA OutsideKeeps ==
  ASSUME IndInv, (\E tgt \in Contents \union {Absent} : OutsideWrite(tgt)) \/ Advance
  PROVE  IndInv'
<1>1. CASE \E tgt \in Contents \union {Absent} : OutsideWrite(tgt)
  <2>1. PICK tgt \in Contents \union {Absent} : OutsideWrite(tgt)
    BY <1>1
  <2>2. SetTarget(tgt, call) /\ UNCHANGED <<clock, jobVars, confirmVars, loop, asked>>
    BY <2>1 DEF OutsideWrite
  <2>3. CallsInv'
    BY <2>2, SetTargetKeeps, CallsAreGood DEF IndInv, CallsInv
  <2>4. GateInv'
    BY <2>2, GateQuietKeeps DEF IndInv
  <2> QED
    BY <2>2, <2>3, <2>4, StoreStands DEF IndInv
<1>2. CASE Advance
  <2>1. /\ clock \in Nat /\ clock' \in 0..MaxClock /\ clock' >= clock
        /\ UNCHANGED <<jobVars, confirmVars, target, loop, asked, call>>
    BY <1>2, WallClockAssumption DEF Advance, Tick, IndInv
  <2>2. GateInv' /\ CallsInv'
    BY <2>1, CallsStand
  <2>3. StoreInv'
    BY <2>1, StoreQuietKeeps DEF IndInv
  <2>4. AskedInv'
    <3>1. \A k \in Kept : Expired(job[k]) => Expired(job[k])'
      <4> SUFFICES ASSUME NEW k \in Kept, Expired(job[k]) PROVE Expired(job[k])'
        OBVIOUS
      <4>1. job[k].created \in Nat /\ job[k].created + Ttl \in Nat
        BY JobsAssumption DEF Kept, IndInv, StoreInv, JobsTypeOK, Job
      <4>2. clock >= job[k].created + Ttl /\ job[k].state \in Finished /\ job' = job
        BY <2>1 DEF Expired, jobVars
      <4>3. clock' >= job[k].created + Ttl
        BY <2>1, <4>1, <4>2
      <4> QED
        BY <4>2, <4>3 DEF Expired
    <3>2. Kept' = Kept /\ loop' = loop /\ asked' = asked /\ job' = job
      BY <2>1 DEF Kept, jobVars
    <3> QED
      BY <3>1, <3>2 DEF AskedInv, IndInv
  <2>5. LoopInv'
    BY <2>1 DEF LoopInv, IndInv, jobVars
  <2> QED
    BY <2>1, <2>2, <2>3, <2>4, <2>5 DEF IndInv
<1> QED
  BY <1>1, <1>2

\* A thread leaves or a job is cancelled, and no call goes on.
LEMMA QuietJobKeeps ==
  ASSUME IndInv, NEW i \in Ids, Leave(i) \/ Cancel(i),
         UNCHANGED <<clock, confirmVars, target, loop, asked, call>>
  PROVE  IndInv'
<1>1. /\ StoreInv'
      /\ \A k \in Ids : /\ job'[k].state = job[k].state
                        /\ job'[k].request = job[k].request
                        /\ job'[k].created = job[k].created
                        /\ job'[k].handle = job[k].handle
      /\ UNCHANGED <<mutex, joining, shuttingDown>>
  BY LeaveKeeps DEF IndInv
<1>2. AskedInv'
  BY <1>1 DEF AskedInv, IndInv, Kept, Expired
<1>3. LoopInv'
  BY <1>1 DEF LoopInv, IndInv
<1> QED
  BY <1>1, <1>2, <1>3, CallsStand DEF IndInv

\* The thread of a job: it begins, returns from its work, ends and leaves.
LEMMA JobStepKeeps ==
  ASSUME IndInv, NEW i \in Ids,
         JobBegins(i) \/ JobReturns(i) \/ JobEnds(i) \/ JobLeaves(i)
  PROVE  IndInv'
<1>0. i \in Callers /\ clock \in Nat
  BY WallClockAssumption DEF Callers, IndInv
<1>1. CASE JobBegins(i)
  <2>1. job[i].work \in Calls /\ call[i].token \in Tokens \union {NoToken}
    BY <1>0, ToolCallsAssumption
    DEF IndInv, StoreInv, JobsTypeOK, Job, CallsInv, Call
  <2>2. CallsInv' /\ GateInv'
    BY <1>0, <1>1, <2>1, EvaluateKeeps DEF JobBegins, IndInv
  <2>3. UNCHANGED <<clock, jobVars, asked, loop>>
    BY <1>1 DEF JobBegins, Evaluate
  <2> QED
    BY <2>2, <2>3, StoreStands DEF IndInv
<1>2. CASE JobEnds(i)
  <2>1. /\ Finish(i, call[i].stage = "threw")
        /\ call' = [call EXCEPT ![i] = Ended]
        /\ UNCHANGED <<clock, confirmVars, target, loop, asked>>
    BY <1>2 DEF JobEnds
  <2>2. PICK threw \in BOOLEAN : Finish(i, threw)
    BY <2>1
  <2>3. /\ StoreInv' /\ Kept' = Kept
        /\ \A k \in Ids : /\ job'[k].request = job[k].request
                          /\ Expired(job[k]) => job'[k] = job[k]
    BY <2>2, FinishKeeps DEF IndInv
  <2>4. CallsInv'
    BY <1>0, <2>1, NoCallFacts, RestingIsGood, OneCallKeeps DEF IndInv
  <2>5. GateInv'
    BY <2>1, GateQuietKeeps DEF IndInv
  <2>6. AskedInv'
    <3>1. \A k \in Kept : k \in Ids
      BY DEF Kept
    <3>2. \A k \in Ids : Expired(job[k]) => Expired(job[k])'
      BY <2>1, <2>3 DEF Expired
    <3> QED
      BY <2>1, <2>3, <3>1, <3>2 DEF AskedInv, IndInv
  <2>7. LoopInv'
    <3>1. UNCHANGED <<joining, shuttingDown>> /\ \A k \in Ids : job'[k].handle = job[k].handle
      BY <2>2 DEF Finish, IndInv, StoreInv, JobsTypeOK, Job
    <3>2. mutex = "thread" /\ mutex' = "free"
      BY <2>2 DEF Finish, IndInv, StoreInv, MutexInv
    <3> QED
      BY <2>1, <3>1, <3>2 DEF LoopInv, IndInv
  <2> QED
    BY <2>1, <2>3, <2>4, <2>5, <2>6, <2>7 DEF IndInv
<1>3. CASE JobLeaves(i)
  <2>1. Leave(i) /\ UNCHANGED <<clock, confirmVars, target, loop, asked, call>>
    BY <1>3 DEF JobLeaves
  <2> QED
    BY <2>1, QuietJobKeeps
<1>4. CASE JobReturns(i)
  <2> DEFINE threw == [NoCall EXCEPT !.stage = "threw"]
  <2>1. /\ Return(i)
        /\ call' = call \/ call' = [call EXCEPT ![i] = threw]
        /\ UNCHANGED <<clock, confirmVars, target, loop, asked>>
    BY <1>4 DEF JobReturns
  <2>2. threw \in Call /\ threw.stage = "threw"
    BY NoCallFacts DEF Call
  <2> HIDE DEF threw
  <2>3. CallsInv'
    <3>1. CASE call' = call
      BY <2>1, <3>1, CallsStand
    <3>2. CASE call' = [call EXCEPT ![i] = threw]
      <4>1. GoodCall(threw, target)
        BY <2>2, RestingIsGood
      <4> QED
        BY <1>0, <2>1, <3>2, <4>1, OneCallKeeps DEF IndInv
    <3> QED
      BY <2>1, <3>1, <3>2
  <2>4. GateInv'
    BY <2>1, GateQuietKeeps DEF IndInv
  <2>5. /\ StoreInv'
        /\ \A k \in Ids : /\ job'[k].state = job[k].state
                          /\ job'[k].request = job[k].request
                          /\ job'[k].created = job[k].created
                          /\ job'[k].handle = job[k].handle
        /\ UNCHANGED <<joining, shuttingDown>>
        /\ mutex = "free" /\ mutex' = "thread"
    BY <2>1, ReturnKeeps DEF IndInv
  <2>6. AskedInv' /\ LoopInv'
    BY <2>1, <2>5 DEF AskedInv, LoopInv, IndInv, Kept, Expired
  <2> QED
    BY <2>1, <2>3, <2>4, <2>5, <2>6 DEF IndInv
<1> QED
  BY <1>1, <1>2, <1>3, <1>4

\* A call on the loop: a dry run, its preview, a call, and its answer.
LEMMA LoopCallKeeps ==
  ASSUME IndInv,
         \/ \E c \in Calls : DryRun(c)
         \/ Preview
         \/ \E c \in Calls, t \in Offered : PlainCall(c, t)
         \/ PlainCallEnds
  PROVE  IndInv'
<1>0. Loop \in Callers /\ clock \in Nat
  BY WallClockAssumption DEF Callers, IndInv
<1>1. CASE \E c \in Calls : DryRun(c)
  <2>1. PICK c \in Calls : DryRun(c)
    BY <1>1
  <2> DEFINE k == [NoCall EXCEPT !.stage = "preview", !.call = c, !.now = clock,
                                 !.gated = requiresConfirmation(c)]
  <2>2. /\ loop = "ready" /\ loop' = "calling" /\ call' = [call EXCEPT ![Loop] = k]
        /\ UNCHANGED <<clock, jobVars, confirmVars, target, asked>>
    BY <2>1 DEF DryRun
  <2>3. k \in Call /\ k.stage = "preview"
    BY <1>0, NoCallFacts DEF Call, requiresConfirmation
  <2> HIDE DEF k
  <2>4. GoodCall(k, target)
    BY <2>3, RestingIsGood
  <2>5. CallsInv'
    BY <1>0, <2>2, <2>4, OneCallKeeps DEF IndInv
  <2>6. GateInv'
    BY <2>2, GateQuietKeeps DEF IndInv
  <2> QED
    BY <2>2, <2>5, <2>6, StoreStands DEF IndInv
<1>2. CASE Preview
  <2>1. /\ call' = [call EXCEPT ![Loop] = Ended]
        /\ UNCHANGED <<clock, jobVars, target, loop, asked>>
    BY <1>2 DEF Preview
  <2>2. CallsInv'
    BY <1>0, <2>1, NoCallFacts, RestingIsGood, OneCallKeeps DEF IndInv
  <2>3. GateInv'
    <3>1. CASE UNCHANGED confirmVars
      BY <3>1, GateQuietKeeps DEF IndInv
    <3>2. CASE ~UNCHANGED confirmVars
      <4> DEFINE t == CHOOSE t \in Tokens : token[t].status = "fresh"
      <4>1. /\ \E u \in Tokens : token[u].status = "fresh"
            /\ Mint(t, call[Loop].call, call[Loop].now)
        BY <1>2, <3>2 DEF Preview
      <4>2. t \in Tokens
        BY <4>1
      <4> HIDE DEF t
      <4>3. call[Loop].call \in Calls /\ call[Loop].now \in Nat
        BY <1>0 DEF IndInv, CallsInv, Call
      <4> QED
        BY <4>1, <4>2, <4>3, MintKeeps DEF IndInv, CallsInv
    <3> QED
      BY <3>1, <3>2
  <2> QED
    BY <2>1, <2>2, <2>3, StoreStands DEF IndInv
<1>3. CASE \E c \in Calls, t \in Offered : PlainCall(c, t)
  <2>1. PICK c \in Calls, t \in Offered : PlainCall(c, t)
    BY <1>3
  <2>2. t \in Tokens \union {NoToken}
    BY DEF Offered
  <2>3. /\ loop = "ready" /\ loop' = "calling" /\ Evaluate(Loop, c, t)
        /\ UNCHANGED <<clock, jobVars, asked>>
    BY <2>1 DEF PlainCall, Evaluate
  <2>4. CallsInv' /\ GateInv'
    BY <1>0, <2>2, <2>3, EvaluateKeeps DEF IndInv
  <2> QED
    BY <2>3, <2>4, StoreStands DEF IndInv
<1>4. CASE PlainCallEnds
  <2>1. /\ loop = "calling" /\ loop' = "ready" /\ call' = [call EXCEPT ![Loop] = NoCall]
        /\ UNCHANGED <<clock, jobVars, confirmVars, target, asked>>
    BY <1>4 DEF PlainCallEnds
  <2>2. CallsInv'
    BY <1>0, <2>1, NoCallFacts, RestingIsGood, OneCallKeeps DEF IndInv
  <2>3. GateInv'
    BY <2>1, GateQuietKeeps DEF IndInv
  <2> QED
    BY <2>1, <2>2, <2>3, StoreStands DEF IndInv
<1> QED
  BY <1>1, <1>2, <1>3, <1>4

\* tools/call as a job, from the look-up to the start.
LEMMA JobCallKeeps ==
  ASSUME IndInv,
         \/ \E r \in Requests \union {NoRequest}, w \in Works, t \in Offered : JobCall(r, w, t)
         \/ JobCallJoins
         \/ JobCallStarts
         \/ JobCallRefused
  PROVE  IndInv'
<1>0. clock \in Nat
  BY WallClockAssumption DEF IndInv
<1>1. CASE \E r \in Requests \union {NoRequest}, w \in Works, t \in Offered : JobCall(r, w, t)
  <2>1. PICK r \in Requests \union {NoRequest}, w \in Works, t \in Offered : JobCall(r, w, t)
    BY <1>1
  <2>2. /\ loop = "ready" /\ loop' = "taking" /\ findByRequest(r) = {} /\ LoopLocks
        /\ asked' = [request |-> r, call |-> w, token |-> t]
        /\ UNCHANGED <<clock, confirmVars, target, call>>
    BY <2>1 DEF JobCall
  <2>3. asked' \in Request /\ asked'.request = r /\ asked'.call = w
    BY <2>2, ToolCallsAssumption DEF Request, Offered
  <2>4. joining = {} /\ ~shuttingDown
    BY <2>2 DEF IndInv, LoopInv
  <2>5. StoreInv' /\ job' = job
    BY <2>2, LoopLocksKeeps DEF IndInv, LoopLocks
  <2>6. AskedInv'
    <3>1. \A k \in Kept : r # NoRequest /\ job[k].request = r => Expired(job[k])
      BY <2>2 DEF findByRequest
    <3> QED
      BY <2>2, <2>3, <2>5, <3>1 DEF AskedInv, Kept, Expired
  <2>7. LoopInv'
    BY <2>2, <2>4 DEF LoopInv, LoopLocks
  <2>8. loop' \in LoopStates /\ clock' \in 0..MaxClock
    BY <2>2 DEF LoopStates, IndInv
  <2> QED
    BY <2>2, <2>3, <2>5, <2>6, <2>7, <2>8, CallsStand DEF IndInv
<1>2. ASSUME loop = "joining", loop' = "ready", asked' = NoRequestAtAll,
             joining' = {}, UNCHANGED <<mutex, shuttingDown, clock>>
      PROVE  /\ AskedInv' /\ LoopInv' /\ asked' \in Request
             /\ loop' \in LoopStates /\ clock' \in 0..MaxClock
  <2>1. AskedInv' /\ LoopInv'
    BY <1>2 DEF AskedInv, LoopInv, IndInv
  <2>2. asked' \in Request
    BY <1>2, SomeCall DEF NoRequestAtAll, Request
  <2> QED
    BY <1>2, <2>1, <2>2 DEF IndInv, LoopStates
<1>3. CASE JobCallStarts
  <2> DEFINE i == CHOOSE k \in Ids : job[k].state = "fresh"
             n == [NoCall EXCEPT !.token = asked.token]
  <2>1. /\ loop = "joining" /\ StartLocked(i, asked.request, asked.call)
        /\ call' = [call EXCEPT ![i] = n]
        /\ asked' = NoRequestAtAll /\ loop' = "ready"
        /\ UNCHANGED <<clock, confirmVars, target>>
        /\ \E k \in Ids : job[k].state = "fresh"
    BY <1>3 DEF JobCallStarts
  <2>2. i \in Ids /\ i \in Callers
    BY <2>1 DEF Callers
  <2>3. n \in Call /\ n.stage = "none"
    BY NoCallFacts DEF Call, IndInv, Request
  <2> HIDE DEF i, n
  <2>4. CallsInv'
    BY <2>1, <2>2, <2>3, RestingIsGood, OneCallKeeps DEF IndInv
  <2>5. GateInv'
    BY <2>1, GateQuietKeeps DEF IndInv
  <2>6. StoreInv'
    <3>1. asked.request \in Requests \union {NoRequest}
      BY DEF IndInv, Request
    <3>2. /\ asked.call \in Works
          /\ \A k \in Kept : asked.request # NoRequest /\ job[k].request = asked.request
                               => Expired(job[k])
      BY <2>1 DEF IndInv, AskedInv
    <3> QED
      BY <1>0, <2>1, <2>2, <3>1, <3>2, StartLockedKeeps DEF IndInv
  <2>7. joining' = {} /\ UNCHANGED <<mutex, shuttingDown>>
    BY <2>1 DEF StartLocked
  <2> QED
    BY <1>2, <2>1, <2>4, <2>5, <2>6, <2>7 DEF IndInv
<1>4. CASE JobCallRefused
  <2>1. /\ loop = "joining" /\ StartRefused /\ asked' = NoRequestAtAll /\ loop' = "ready"
        /\ UNCHANGED <<clock, confirmVars, target, call>>
    BY <1>4 DEF JobCallRefused
  <2>2. joining' = {} /\ UNCHANGED <<mutex, shuttingDown>>
    BY <2>1 DEF StartRefused
  <2>3. StoreInv'
    BY <2>1, StartRefusedKeeps DEF IndInv
  <2> QED
    BY <1>2, <2>1, <2>2, <2>3, CallsStand DEF IndInv
<1>5. CASE JobCallJoins
  <2>1. /\ loop = "taking" /\ TakeOrphans /\ loop' = "joining"
        /\ UNCHANGED <<clock, confirmVars, target, asked, call>>
    BY <1>5 DEF JobCallJoins
  <2>2. joining = {} /\ ~shuttingDown
    BY <2>1 DEF IndInv, LoopInv
  <2>3. /\ StoreInv'
        /\ \A k \in Ids : /\ job'[k].state = job[k].state
                          /\ job'[k].request = job[k].request
                          /\ job'[k].created = job[k].created
    BY <2>1, <2>2, TakeOrphansKeeps DEF IndInv
  <2>4. AskedInv'
    BY <2>1, <2>3 DEF AskedInv, IndInv, Kept, Expired
  <2>5. LoopInv'
    BY <2>1, <2>2 DEF LoopInv, TakeOrphans
  <2> QED
    BY <2>1, <2>3, <2>4, <2>5, CallsStand DEF IndInv, LoopStates
<1> QED
  BY <1>1, <1>3, <1>4, <1>5

\* The end of the loop.
LEMMA StopKeeps ==
  ASSUME IndInv, Stop \/ StopJoins \/ Stopped
  PROVE  IndInv'
<1>3. CASE Stop
  <2>1. /\ loop = "ready" /\ LoopLocks /\ loop' = "closing"
        /\ UNCHANGED <<clock, confirmVars, target, asked, call>>
    BY <1>3 DEF Stop
  <2>2. StoreInv'
    BY <2>1, LoopLocksKeeps DEF IndInv
  <2>3. AskedInv' /\ LoopInv'
    BY <2>1 DEF AskedInv, LoopInv, IndInv, LoopLocks
  <2> QED
    BY <2>1, <2>2, <2>3, CallsStand DEF IndInv, LoopStates
<1>1. CASE StopJoins
  <2>1. /\ loop = "closing" /\ Shutdown /\ loop' = "stopping"
        /\ UNCHANGED <<clock, confirmVars, target, asked, call>>
    BY <1>1 DEF StopJoins
  <2>2. joining = {}
    BY <2>1 DEF IndInv, LoopInv
  <2>3. /\ StoreInv' /\ shuttingDown' /\ mutex' = "free"
        /\ \A k \in Ids : job'[k].handle \notin {"entry", "orphan"}
    BY <2>1, <2>2, ShutdownKeeps DEF IndInv
  <2>4. AskedInv' /\ LoopInv'
    BY <2>1, <2>3 DEF AskedInv, LoopInv
  <2> QED
    BY <2>1, <2>3, <2>4, CallsStand DEF IndInv, LoopStates
<1>2. CASE Stopped
  <2>1. /\ loop = "stopping" /\ ShutdownJoined /\ loop' = "stopped"
        /\ UNCHANGED <<clock, confirmVars, target, asked, call>>
    BY <1>2 DEF Stopped
  <2>2. StoreInv'
    BY <2>1, StoreQuietKeeps DEF IndInv
  <2>3. AskedInv' /\ LoopInv'
    BY <2>1 DEF AskedInv, LoopInv, ShutdownJoined, IndInv
  <2> QED
    BY <2>1, <2>2, <2>3, CallsStand DEF IndInv, LoopStates
<1> QED
  BY <1>1, <1>2, <1>3

\* Every step keeps the invariant.
LEMMA NextIndInv == IndInv /\ [Next]_vars => IndInv'
<1> SUFFICES ASSUME IndInv, [Next]_vars PROVE IndInv'
  OBVIOUS
<1>1. CASE Requested
  <2>1. CASE \E i \in Ids : TaskCancel(i)
    BY <2>1, QuietJobKeeps DEF TaskCancel
  <2> QED
    BY <1>1, <2>1, LoopCallKeeps, JobCallKeeps, StopKeeps DEF Requested
<1>2. CASE LoopSteps
  <2>1. Loop \in Callers
    BY DEF Callers
  <2> QED
    BY <1>2, <2>1, LoopCallKeeps, CallStepKeeps, JobCallKeeps, StopKeeps DEF LoopSteps
<1>3. CASE \E i \in Ids : JobSteps(i)
  <2>1. PICK i \in Ids : JobSteps(i)
    BY <1>3
  <2>2. i \in Callers
    BY DEF Callers
  <2> QED
    BY <2>1, <2>2, CallStepKeeps, JobStepKeeps DEF JobSteps
<1>4. CASE (\E tgt \in Contents \union {Absent} : OutsideWrite(tgt)) \/ Advance
  BY <1>4, OutsideKeeps
<1>5. CASE UNCHANGED vars
  BY <1>5, StoreStands, CallsStand DEF vars, IndInv
<1> QED
  BY <1>1, <1>2, <1>3, <1>4, <1>5 DEF Next, Terminated

-----------------------------------------------------------------------------
(* The theorems.                                                           *)

\* The invariant behind the others: what the store, the gate, the calls and the
\* loop keep between them.
THEOREM CallsInvariant == Spec => []IndInv
BY InitIndInv, NextIndInv, PTL DEF Spec

\* The server's state has the types of ToolCalls, Jobs and Confirmations.
THEOREM TypeCorrect == Spec => []TypeOK
<1>1. IndInv => TypeOK
  BY DEF IndInv, StoreInv, GateInv, CallsInv, TypeOK, ConfirmTypeOK
<1> QED
  BY <1>1, CallsInvariant, PTL

\* A confirmation token authorises one run (evaluate): also when any number of
\* job threads and the loop offer it at once.
THEOREM OneRunPerToken == Spec => []TokenBuysOneRun
<1>1. IndInv => TokenBuysOneRun
  BY DEF IndInv, GateInv, TokenInv, TokenBuysOneRun
<1> QED
  BY <1>1, CallsInvariant, PTL

\* A job whose cancel was taken is never answered with its result (cancel, and
\* the end of the thread in start).
THEOREM CancelHolds == Spec => []CancelledNeverCompletes
<1>1. IndInv => CancelledNeverCompletes
  BY Zenon DEF IndInv, StoreInv, CancelInv, CancelledNeverCompletes
<1> QED
  BY <1>1, CallsInvariant, PTL

\* A request id names one kept job, though the loop looks it up before it joins
\* and starts the job after (findByRequest, start).
THEOREM RetriesFindTheirJob == Spec => []OneJobPerRequest
<1>1. IndInv => OneJobPerRequest
  BY DEF IndInv, StoreInv
<1> QED
  BY <1>1, CallsInvariant, PTL

\* A handler starts to write only where, at some moment of its call, there was
\* nothing or what the token's preview had read, or the preview had told its client
\* that it read nothing to compare with (evaluate, requiresConfirmation and the
\* handlers' refusals).  A target that stood changed all through a call that a
\* comparison or a refusal guards is therefore not overwritten.
THEOREM OverwritesApproved == Spec => []RunsOnWhatWasApproved
<1>1. IndInv => RunsOnWhatWasApproved
  BY DEF IndInv, CallsInv, ApprovedInv, RunsOnWhatWasApproved
<1> QED
  BY <1>1, CallsInvariant, PTL

\* When the loop has stopped no thread of a job is left (shutdown, runStdio).
THEOREM NoThreadSurvives == Spec => []StoppedIsQuiet
<1>1. IndInv => StoppedIsQuiet
  <2> SUFFICES ASSUME IndInv, loop = "stopped", NEW i \in Ids
               PROVE  job[i].thread \in {"none", "over"}
    BY DEF StoppedIsQuiet
  <2>1. job[i].handle \notin {"entry", "orphan"} /\ i \notin joining
    BY DEF IndInv, LoopInv
  <2>2. job[i].thread \in Threads
    BY DEF IndInv, StoreInv, JobsTypeOK, Job
  <2> QED
    BY <2>1, <2>2 DEF IndInv, StoreInv, ThreadInv, Threads
<1> QED
  BY <1>1, CallsInvariant, PTL

\* start never joins a thread whose job has no answer yet: an orphan's, or one it
\* took, has recorded it (expireLocked, evictLocked).  This is the first half of
\* JoinsNeverHang; for the second, which speaks of ENABLED, see JoinedThreadsGoOn.
THEOREM JoinsAreShort ==
  Spec => [](\A i \in Ids : job[i].handle = "orphan" \/ (i \in joining /\ ~shuttingDown)
                              => job[i].thread \notin {"running", "recording"})
<1>1. IndInv => \A i \in Ids : job[i].handle = "orphan" \/ (i \in joining /\ ~shuttingDown)
                                 => job[i].thread \notin {"running", "recording"}
  BY DEF IndInv, StoreInv, ThreadInv
<1> QED
  BY <1>1, CallsInvariant, PTL
-----------------------------------------------------------------------------
(* The other half of JoinsNeverHang, with the guards of the steps in place  *)
(* of ENABLED.                                                             *)

\* The guard of a step of JobSteps(i) holds: of JobLeaves, JobEnds, JobBegins, Probe,
\* Authorise (which spends a live token and ends the call otherwise), Check, Execute,
\* or, when the work has returned, of JobReturns, which needs the mutex.
CanGoOn(i) ==
  \/ job[i].thread \in {"recording", "leaving"}
  \/ /\ job[i].thread = "running"
     /\ \/ call[i].stage \in {"none", "probing", "spending", "checking", "running"}
        \/ call[i].stage = "done" /\ mutex = "free"

\* While the loop joins threads that are not all over, it does not have the mutex,
\* and one of them, or the one that records, can go on.
JoinsGoOn ==
  loop \in {"joining", "stopping"} /\ ~AllJoined =>
    /\ mutex # "loop"
    /\ \E i \in Ids : /\ i \in joining \/ job[i].thread = "recording"
                      /\ CanGoOn(i)

\* A handle that can still be joined, or is being joined, is of a thread.
HandleInv ==
  \A i \in Ids :
    job[i].handle \in {"entry", "orphan"} \/ i \in joining => job[i].thread # "none"

\* Only the loop previews, and work that threw runs no more.
StageInv ==
  \A i \in Ids : /\ call[i].stage # "preview"
                 /\ call[i].stage = "threw" => job[i].thread # "running"

\* No thread runs that did not.
NoneStarts == \A k \in Ids : job'[k].thread = "running" => job[k].thread = "running"

\* What becomes of the threads in one step of the store: a handle that is new is of
\* a thread that runs, and no thread is unmade.
LEMMA ThreadsKept ==
  ASSUME HandleInv,
         \A k \in Ids : \/ job'[k].thread = "running"
                        \/ /\ job'[k].thread # "none" \/ job'[k].thread = job[k].thread
                           /\ job'[k].handle \in {"entry", "orphan"} =>
                                job[k].handle \in {"entry", "orphan"}
                           /\ k \in joining' =>
                                k \in joining \/ job[k].handle \in {"entry", "orphan"}
  PROVE  HandleInv'
BY DEF HandleInv

\* Dropping entries, and starting a job, keeps threads with their handles.
LEMMA ReplacedHandles ==
  ASSUME JobsTypeOK, HandleInv, joining' = {},
         \A k \in Ids : \/ job'[k] \in {job[k], Drop(job[k])}
                        \/ job'[k].thread = "running"
  PROVE  HandleInv'
<1>1. ASSUME NEW k \in Ids, job'[k] = Drop(job[k])
      PROVE  /\ job'[k].thread = job[k].thread
             /\ job'[k].handle \in {"entry", "orphan"} =>
                  job[k].handle \in {"entry", "orphan"}
  <2>1. /\ Drop(job[k]).thread = job[k].thread
        /\ Drop(job[k]).handle = IF job[k].handle = "entry" THEN "orphan" ELSE job[k].handle
    BY DropFacts DEF JobsTypeOK
  <2> QED
    BY <1>1, <2>1
<1> QED
  BY <1>1, ThreadsKept

\* The steps of start, but for the start itself.
LEMMA StartHandles ==
  ASSUME JobsTypeOK, HandleInv, TakeOrphans \/ StartRefused
  PROVE  HandleInv' /\ NoneStarts
<1>1. CASE TakeOrphans
  <2>1. \A k \in Ids : job[k] \in Job
    BY DEF JobsTypeOK
  <2>2. \A k \in Ids : /\ job'[k].thread = job[k].thread
                       /\ job'[k].handle \in {"taken", job[k].handle}
                       /\ k \in joining' => job[k].handle = "orphan"
    BY <1>1, <2>1 DEF TakeOrphans, Job
  <2> QED
    BY <2>2, ThreadsKept DEF NoneStarts
<1>2. CASE StartRefused
  <2>1. joining' = {} /\ \A k \in Ids : job'[k] \in {job[k], Drop(job[k])}
    BY <1>2 DEF StartRefused, expireLocked, JobsTypeOK
  <2>2. \A k \in Ids : Drop(job[k]).thread = job[k].thread
    BY DropFacts DEF JobsTypeOK
  <2>3. ASSUME NEW k \in Ids PROVE job'[k].thread = job[k].thread
    BY <2>1, <2>2
  <2> QED
    BY <2>1, <2>3, ReplacedHandles DEF NoneStarts
<1> QED
  BY <1>1, <1>2

\* The start: only the thread of the job that starts is new.
LEMMA StartedHandles ==
  ASSUME JobsTypeOK, HandleInv, NEW i \in Ids, NEW r, NEW w, StartLocked(i, r, w)
  PROVE  /\ HandleInv'
         /\ \A k \in Ids : k # i /\ job'[k].thread = "running" => job[k].thread = "running"
<1> DEFINE new == [NoJob EXCEPT !.state = "working", !.created = clock, !.request = r,
                                !.work = w, !.thread = "running", !.handle = "entry"]
<1>1. joining' = {}
  BY DEF StartLocked
<1>2. new.thread = "running"
  BY DEF NoJob
<1>3. PICK E : job' = [k \in Ids |->
                         CASE k = i -> new
                           [] k # i /\ k \in E -> Drop(job[k])
                           [] OTHER -> expireLocked(job)[k]]
  BY DEF StartLocked
<1> HIDE DEF new
<1>4. \A k \in Ids : expireLocked(job)[k] \in {job[k], Drop(job[k])}
  BY DEF expireLocked
<1>5. \A k \in Ids : \/ job'[k] \in {job[k], Drop(job[k])}
                     \/ k = i /\ job'[k] = new
  BY <1>3, <1>4
<1>6. \A k \in Ids : Drop(job[k]).thread = job[k].thread
  BY DropFacts DEF JobsTypeOK
<1>7. ASSUME NEW k \in Ids, k # i PROVE job'[k].thread = job[k].thread
  BY <1>5, <1>6, <1>7
<1> QED
  BY <1>1, <1>2, <1>5, <1>7, ReplacedHandles

\* The steps of threads, cancellations, the mutex and the shutdown.
LEMMA ThreadHandles ==
  ASSUME JobsTypeOK, HandleInv,
         \/ \E i \in Ids : \/ Leave(i) \/ Cancel(i) \/ Return(i)
                          \/ \E threw \in BOOLEAN : Finish(i, threw)
         \/ LoopLocks \/ Shutdown \/ ShutdownJoined \/ UNCHANGED jobVars
  PROVE  HandleInv' /\ NoneStarts
<1>1. \A k \in Ids : job[k] \in Job
  BY DEF JobsTypeOK
<1>2. ASSUME NEW i \in Ids,
             \/ Leave(i) \/ Cancel(i) \/ Return(i)
             \/ \E threw \in BOOLEAN : Finish(i, threw)
      PROVE  HandleInv' /\ NoneStarts
  <2>1. /\ joining' = joining
        /\ \A k \in Ids : job'[k].handle = job[k].handle
        /\ \A k \in Ids : job'[k].thread \in {job[k].thread, "recording", "leaving", "over"}
    BY <1>1, <1>2 DEF Leave, Cancel, Return, Finish, Job, JobsTypeOK
  <2> QED
    BY <2>1, ThreadsKept DEF NoneStarts
<1>3. CASE Shutdown
  <2>1. \A k \in Ids : /\ job'[k].thread = job[k].thread
                       /\ job'[k].handle \in {"taken", job[k].handle}
                       /\ k \in joining' => job[k].handle \in {"entry", "orphan"}
    BY <1>1, <1>3 DEF Shutdown, Job
  <2> QED
    BY <2>1, ThreadsKept DEF NoneStarts
<1>4. CASE ShutdownJoined
  BY <1>4 DEF ShutdownJoined, HandleInv, NoneStarts
<1>5. CASE UNCHANGED jobVars \/ LoopLocks
  BY <1>5 DEF jobVars, LoopLocks, HandleInv, NoneStarts
<1> QED
  BY <1>2, <1>3, <1>4, <1>5

\* A call of a job's thread never becomes a preview, and while no thread starts,
\* work that threw stays over.
LEMMA StagesKept ==
  ASSUME StageInv, NoneStarts,
         \A k \in Ids : call'[k].stage \in {call[k].stage, "none", "probing", "spending",
                                            "checking", "running", "done"}
  PROVE  StageInv'
BY DEF StageInv, NoneStarts

\* The steps of a call, of a job or of the loop.
LEMMA CallStages ==
  ASSUME CallsInv, GateInv, StageInv, NoneStarts,
         \/ \E p \in Callers : \/ Probe(p) \/ Authorise(p) \/ Check(p) \/ Execute(p)
                               \/ \E c \in Calls, t \in Tokens \union {NoToken} : Evaluate(p, c, t)
         \/ \E tgt \in Contents \union {Absent} : OutsideWrite(tgt)
  PROVE  StageInv'
<1> DEFINE Stages == {"none", "probing", "spending", "checking", "running", "done"}
<1>0. call \in [Callers -> Call] /\ Ids \subseteq Callers /\ Ended.stage = "done"
  BY NoCallFacts DEF CallsInv, Callers
<1>1. ASSUME NEW p \in Callers, NEW k, k.stage \in Stages, call' = [call EXCEPT ![p] = k]
      PROVE  StageInv'
  <2>1. \A q \in Ids : call'[q] \in {call[q], k}
    BY <1>0, <1>1
  <2> QED
    BY <1>1, <2>1, StagesKept
<1>2. ASSUME NEW tgt, NEW calls \in [Callers -> Call], SetTarget(tgt, calls),
             \A q \in Ids : calls[q].stage \in {call[q].stage, "done"}
      PROVE  StageInv'
  <2>1. \A q \in Ids : call'[q].stage = calls[q].stage
    BY <1>0, <1>2 DEF SetTarget, Call
  <2> QED
    BY <1>2, <2>1, StagesKept
<1>3. ASSUME NEW p \in Callers, call' = [call EXCEPT ![p] = Ended] PROVE StageInv'
  <2>1. \A q \in Ids : call'[q] \in {call[q], Ended}
    BY <1>0, <1>3
  <2> QED
    BY <1>0, <2>1, StagesKept
<1>4. ASSUME NEW p \in Callers, Probe(p) PROVE StageInv'
  <2> DEFINE k == [call[p] EXCEPT !.stage = "spending"]
  <2>1. k.stage \in Stages
    BY <1>0 DEF Call
  <2>2. call' = [call EXCEPT ![p] = Ended] \/ call' = [call EXCEPT ![p] = k]
    BY <1>4 DEF Probe
  <2> HIDE DEF k
  <2> QED
    BY <1>1, <1>3, <2>1, <2>2
<1>5. \A k : Runs(k).stage \in {"checking", "running"}
  BY NoCallFacts DEF Runs, Call
<1>6. ASSUME NEW p \in Callers, Authorise(p) PROVE StageInv'
  <2>1. \/ call' = [call EXCEPT ![p] = Ended]
        \/ call' = [call EXCEPT ![p] = Runs(call[p])]
    BY <1>6 DEF Authorise
  <2> QED
    BY <1>0, <1>1, <1>5, <2>1
<1>7. ASSUME NEW p \in Callers, Execute(p) PROVE StageInv'
  <2>1. CASE call' = [call EXCEPT ![p] = Ended]
    BY <1>3, <2>1
  <2>2. CASE SetTarget(Written[call[p].call], [call EXCEPT ![p] = Ended])
    <3> DEFINE calls == [call EXCEPT ![p] = Ended]
    <3>1. calls \in [Callers -> Call] /\ \A q \in Ids : calls[q] \in {call[q], Ended}
      BY <1>0, NoCallFacts
    <3> HIDE DEF calls
    <3>2. \A q \in Ids : calls[q].stage \in {call[q].stage, "done"}
      BY <1>0, <3>1
    <3>3. SetTarget(Written[call[p].call], calls)
      BY <2>2 DEF calls
    <3> QED
      BY <1>2, <3>1, <3>2, <3>3
  <2> QED
    BY <1>7, <2>1, <2>2 DEF Execute
<1>8. ASSUME NEW p \in Callers, NEW c \in Calls, NEW t \in Tokens \union {NoToken},
             Evaluate(p, c, t)
      PROVE  StageInv'
  <2> DEFINE found == [NoCall EXCEPT !.call = c, !.token = t,
                                     !.seen = IF t = NoToken THEN Absent ELSE token[t].seen]
             begun == [found EXCEPT !.approved = MayOverwrite(found, target)]
             looked == [begun EXCEPT !.stage = IF begun.seen = Absent THEN "spending"
                                               ELSE "probing"]
  <2>1. t # NoToken => token[t].seen \in Contents \union {Absent}
    BY DEF GateInv, Token
  <2>2. found \in Call
    BY <2>1, NoCallFacts DEF Call
  <2> HIDE DEF found
  <2>3. begun \in Call
    BY <2>2 DEF Call, MayOverwrite
  <2> HIDE DEF begun
  <2>4. looked.stage \in {"spending", "probing"}
    BY <2>3 DEF Call
  <2>5. \/ call' = [call EXCEPT ![p] = Ended]
        \/ call' = [call EXCEPT ![p] = Runs(begun)]
        \/ call' = [call EXCEPT ![p] = looked]
    <3> HIDE DEF looked
    <3> QED
      BY <1>8 DEF Evaluate, found, begun, looked
  <2> HIDE DEF looked
  <2> QED
    BY <1>0, <1>1, <1>5, <2>4, <2>5
<1>9. ASSUME NEW tgt \in Contents \union {Absent}, OutsideWrite(tgt) PROVE StageInv'
  BY <1>0, <1>2, <1>9 DEF OutsideWrite
<1>10. ASSUME NEW p \in Callers, Check(p) PROVE StageInv'
  <2> DEFINE k == [call[p] EXCEPT !.stage = "running", !.approved = TRUE]
  <2>1. k.stage \in Stages
    BY <1>0 DEF Call
  <2>2. call' = [call EXCEPT ![p] = Ended] \/ call' = [call EXCEPT ![p] = k]
    BY <1>0, <1>10 DEF Check
  <2> HIDE DEF k
  <2> QED
    BY <1>1, <1>3, <2>1, <2>2
<1> QED
  BY <1>4, <1>6, <1>7, <1>8, <1>9, <1>10

\* A call of a job ends, or one is made; the loop previews on its own account.
LEMMA OtherStages ==
  ASSUME CallsInv, StageInv, NoneStarts,
         \/ \E i \in Ids : \E k : call' = [call EXCEPT ![i] = k] /\ k.stage \in {"none", "done"}
         \/ \E k : call' = [call EXCEPT ![Loop] = k]
         \/ call' = call
  PROVE  StageInv'
<1>1. call \in [Callers -> Call] /\ Ids \subseteq Callers /\ Loop \notin Ids
  BY ToolCallsAssumption DEF CallsInv, Callers
<1>2. ASSUME NEW i \in Ids, NEW k, call' = [call EXCEPT ![i] = k], k.stage \in {"none", "done"}
      PROVE  StageInv'
  <2>1. \A q \in Ids : call'[q] \in {call[q], k}
    BY <1>1, <1>2
  <2> QED
    BY <1>2, <2>1, StagesKept
<1>3. ASSUME NEW k, call' = [call EXCEPT ![Loop] = k] PROVE StageInv'
  <2>1. \A q \in Ids : call'[q] = call[q]
    BY <1>1, <1>3
  <2> QED
    BY <2>1, StagesKept
<1> QED
  BY <1>2, <1>3, StagesKept

\* Every step keeps threads with their handles and previews on the loop.
LEMMA NextGoesOn ==
  ASSUME IndInv, HandleInv, StageInv, [Next]_vars
  PROVE  HandleInv' /\ StageInv'
<1>1. /\ JobsTypeOK /\ CallsInv /\ GateInv
      /\ Loop \in Callers /\ \A i \in Ids : i \in Callers
  BY DEF IndInv, StoreInv, Callers
<1>2. \A i \in Ids : job[i].work \in Calls /\ call[i].token \in Tokens \union {NoToken}
  BY <1>1, ToolCallsAssumption DEF JobsTypeOK, Job, CallsInv, Call
<1>3. NoCall.stage = "none" /\ Ended.stage = "done"
  BY NoCallFacts
<1>4. CASE Requested
  <2>1. ASSUME NEW c \in Calls, DryRun(c) PROVE HandleInv' /\ StageInv'
    BY <1>1, <2>1, ThreadHandles, OtherStages DEF DryRun
  <2>2. ASSUME NEW c \in Calls, NEW t \in Offered, PlainCall(c, t)
        PROVE  HandleInv' /\ StageInv'
    <3>1. t \in Tokens \union {NoToken} /\ Evaluate(Loop, c, t)
      BY <2>2 DEF Offered, PlainCall
    <3>2. UNCHANGED jobVars
      BY <3>1 DEF Evaluate
    <3> QED
      BY <1>1, <3>1, <3>2, ThreadHandles, CallStages
  <2>3. ASSUME NEW r, NEW w, NEW t, JobCall(r, w, t) PROVE HandleInv' /\ StageInv'
    BY <1>1, <2>3, ThreadHandles, OtherStages DEF JobCall
  <2>4. ASSUME NEW i \in Ids, TaskCancel(i) PROVE HandleInv' /\ StageInv'
    BY <1>1, <2>4, ThreadHandles, OtherStages DEF TaskCancel
  <2>5. CASE Stop
    BY <1>1, <2>5, ThreadHandles, OtherStages DEF Stop
  <2> QED
    BY <1>4, <2>1, <2>2, <2>3, <2>4, <2>5 DEF Requested
<1>5. ASSUME NEW p \in Callers, Probe(p) \/ Authorise(p) \/ Check(p) \/ Execute(p)
      PROVE  HandleInv' /\ StageInv'
  <2>1. UNCHANGED jobVars
    BY <1>5 DEF Probe, Authorise, Check, Execute
  <2> QED
    BY <1>1, <1>5, <2>1, ThreadHandles, CallStages
<1>6. CASE LoopSteps
  <2>1. CASE Preview
    BY <1>1, <2>1, ThreadHandles, OtherStages DEF Preview
  <2>2. CASE PlainCallEnds
    BY <1>1, <2>2, ThreadHandles, OtherStages DEF PlainCallEnds
  <2>3. CASE JobCallStarts
    <3> DEFINE i == CHOOSE k \in Ids : job[k].state = "fresh"
               n == [NoCall EXCEPT !.token = asked.token]
    <3>1. /\ i \in Ids /\ StartLocked(i, asked.request, asked.call)
          /\ call' = [call EXCEPT ![i] = n]
      BY <2>3 DEF JobCallStarts
    <3>2. n.stage = "none"
      BY <1>3 DEF NoCall
    <3> HIDE DEF i, n
    <3>3. /\ HandleInv'
          /\ \A k \in Ids : k # i /\ job'[k].thread = "running" => job[k].thread = "running"
      BY <1>1, <3>1, StartedHandles
    <3>4. call'[i] = n /\ \A k \in Ids : k # i => call'[k] = call[k]
      BY <1>1, <3>1 DEF CallsInv
    <3> QED
      BY <3>2, <3>3, <3>4 DEF StageInv
  <2>4. CASE JobCallRefused
    BY <1>1, <2>4, StartHandles, OtherStages DEF JobCallRefused
  <2>5. CASE Stopped
    BY <1>1, <2>5, ThreadHandles, OtherStages DEF Stopped
  <2>6. CASE JobCallJoins
    BY <1>1, <2>6, StartHandles, OtherStages DEF JobCallJoins
  <2>7. CASE StopJoins
    BY <1>1, <2>7, ThreadHandles, OtherStages DEF StopJoins
  <2> QED
    BY <1>1, <1>5, <1>6, <2>1, <2>2, <2>3, <2>4, <2>5, <2>6, <2>7 DEF LoopSteps
<1>7. ASSUME NEW i \in Ids, JobSteps(i) PROVE HandleInv' /\ StageInv'
  <2>1. CASE JobBegins(i)
    <3>1. Evaluate(i, job[i].work, call[i].token) /\ UNCHANGED jobVars
      BY <2>1 DEF JobBegins, Evaluate
    <3> QED
      BY <1>1, <1>2, <3>1, ThreadHandles, CallStages
  <2>2. CASE JobEnds(i)
    <3>1. Finish(i, call[i].stage = "threw") /\ call' = [call EXCEPT ![i] = Ended]
      BY <2>2 DEF JobEnds
    <3> QED
      BY <1>1, <1>3, <3>1, ThreadHandles, OtherStages
  <2>3. CASE JobLeaves(i)
    BY <1>1, <2>3, ThreadHandles, OtherStages DEF JobLeaves
  <2>4. CASE JobReturns(i)
    <3>1. Return(i)
      BY <2>4 DEF JobReturns
    <3>2. HandleInv' /\ NoneStarts
      BY <1>1, <3>1, ThreadHandles
    <3>3. CASE call' = call
      BY <1>1, <3>2, <3>3, OtherStages
    <3>4. CASE call' # call
      <4> DEFINE threw == [NoCall EXCEPT !.stage = "threw"]
      <4>1. call' = [call EXCEPT ![i] = threw] /\ threw.stage = "threw"
        BY <2>4, <3>4 DEF JobReturns, NoCall
      <4> HIDE DEF threw
      <4>2. job'[i].thread = "recording"
        BY <1>1, <3>1, ReturnKeeps DEF IndInv
      <4>3. call'[i] = threw /\ \A k \in Ids : k # i => call'[k] = call[k]
        BY <1>1, <4>1 DEF CallsInv
      <4> QED
        BY <3>2, <4>1, <4>2, <4>3 DEF StageInv, NoneStarts
    <3> QED
      BY <3>3, <3>4
  <2> QED
    BY <1>1, <1>5, <1>7, <2>1, <2>2, <2>3, <2>4 DEF JobSteps
<1>8. ASSUME NEW tgt \in Contents \union {Absent}, OutsideWrite(tgt)
      PROVE  HandleInv' /\ StageInv'
  <2>1. UNCHANGED jobVars
    BY <1>8 DEF OutsideWrite
  <2> QED
    BY <1>1, <1>8, <2>1, ThreadHandles, CallStages
<1>9. CASE Advance \/ UNCHANGED vars
  <2>1. UNCHANGED jobVars /\ call' = call
    BY <1>9 DEF Advance, vars
  <2> QED
    BY <1>1, <2>1, ThreadHandles, OtherStages
<1> QED
  BY <1>4, <1>6, <1>7, <1>8, <1>9 DEF Next, Terminated

\* While the loop joins threads, in start or in the shutdown, and one of them is not
\* over, one of them has its next step open to it, or another thread that records
\* its answer has: m_mutex, which the loop takes and releases around the taking of
\* the threads, is not with the loop (start and shutdown: "Outside the lock: a job
\* still running takes it to record its answer").  This is the second half of
\* JoinsNeverHang with the guards of the thread's steps for ENABLED.
THEOREM JoinedThreadsGoOn == Spec => []JoinsGoOn
<1> DEFINE Inv == HandleInv /\ StageInv
<1>1. Init => Inv
  <2> SUFFICES ASSUME Init PROVE Inv
    OBVIOUS
  <2>1. \A i \in Ids : job[i].handle = "none" /\ call[i].stage = "none"
    BY NoJobFacts, NoCallFacts DEF Init, JobsInit, Callers
  <2> QED
    BY <2>1 DEF Init, JobsInit, HandleInv, StageInv
<1>2. IndInv /\ Inv /\ [Next]_vars => Inv'
  BY NextGoesOn
<1>3. IndInv /\ Inv => JoinsGoOn
  <2> SUFFICES ASSUME IndInv, HandleInv, StageInv, ~AllJoined,
                      loop \in {"joining", "stopping"}
               PROVE  /\ mutex # "loop"
                      /\ \E i \in Ids : /\ i \in joining \/ job[i].thread = "recording"
                                        /\ CanGoOn(i)
    BY DEF JoinsGoOn
  <2>1. PICK i \in joining : job[i].thread # "over"
    BY DEF AllJoined
  <2>2. i \in Ids /\ job[i].thread \in Threads /\ call[i].stage # "preview"
    BY DEF IndInv, StoreInv, JobsTypeOK, Job, StageInv
  <2>3. call[i].stage \in {"none", "probing", "spending", "checking", "running", "threw", "done"}
    BY <2>2 DEF IndInv, CallsInv, Callers, Call
  <2>4. job[i].thread \in {"running", "recording", "leaving"}
    BY <2>1, <2>2 DEF HandleInv, Threads
  <2>5. mutex \in {"free", "thread"}
    BY DEF IndInv, LoopInv, StoreInv, JobsTypeOK
  <2>6. CASE mutex = "thread"
    <3>1. PICK k \in Ids : job[k].thread = "recording"
      BY <2>6 DEF IndInv, StoreInv, MutexInv
    <3> QED
      BY <2>6, <3>1 DEF CanGoOn
  <2>7. CASE mutex = "free"
    <3>1. job[i].thread = "running" => call[i].stage # "threw"
      BY <2>2 DEF StageInv
    <3>2. CanGoOn(i)
      BY <2>3, <2>4, <2>7, <3>1 DEF CanGoOn
    <3> QED
      BY <2>2, <2>7, <3>2
  <2> QED
    BY <2>5, <2>6, <2>7
<1> QED
  BY <1>1, <1>2, <1>3, CallsInvariant, PTL DEF Spec
=============================================================================
