-------------------------------- MODULE Jobs --------------------------------
(***************************************************************************)
(* The store of background jobs (src/src/mcp/jobs.cpp).                     *)
(*                                                                         *)
(* A job is an entry of m_jobs, a cancellation flag, and a thread whose    *)
(* handle moves: it sits in the entry, becomes an orphan when the entry is *)
(* dropped, and is taken by whoever joins it.  Every operation runs under  *)
(* m_mutex.  Taking the mutex is a step of its own where a thread records  *)
(* its answer and where the loop takes threads it then joins, outside the  *)
(* mutex; the other operations are one step that finds it free.  `start'   *)
(* and `shutdown' are called by one thread, the server's loop.             *)
(***************************************************************************)
EXTENDS WallClock, FiniteSets

CONSTANTS Ids,           \* job ids: 128 random bits, never used twice
          Requests,      \* request ids clients choose
          NoRequest,     \* a job started without one
          Works,         \* what a job does: its fingerprint
          MaxWorking,    \* Limits::max_working
          MaxRetained,   \* Limits::max_retained
          Ttl            \* Limits::ttl_ms, in ticks

ASSUME JobsAssumption ==
  /\ NoRequest \notin Requests
  /\ Works # {}                     \* some tools run as jobs
  /\ MaxWorking \in Nat /\ MaxRetained \in Nat /\ Ttl \in Nat

VARIABLES job,           \* the entry and the thread of every job id
          mutex,         \* who has m_mutex: nobody, the loop, or the thread that records
          joining,       \* the jobs whose threads the loop is joining
          shuttingDown   \* m_shutting_down

jobVars == <<job, mutex, joining, shuttingDown>>

Finished == {"completed", "cancelled", "abandoned"}

\* "fresh" is an id not drawn yet, "dropped" one whose entry was erased.
JobStates == {"fresh", "working", "dropped"} \union Finished

\* A thread runs its work, then records the answer under m_mutex, then leaves
\* (notify_all), then is over.
Threads == {"none", "running", "recording", "leaving", "over"}

\* Where the std::thread object is.
Handles == {"none", "entry", "orphan", "taken"}

Job == [state: JobStates, created: Nat, request: Requests \union {NoRequest},
        work: Works, asked: BOOLEAN, flag: BOOLEAN,
        thread: Threads, handle: Handles]

JobsTypeOK ==
  /\ job \in [Ids -> Job]
  /\ mutex \in {"free", "loop", "thread"}
  /\ joining \subseteq Ids
  /\ shuttingDown \in BOOLEAN

Kept == {i \in Ids : job[i].state \in {"working"} \union Finished}
Working == {i \in Ids : job[i].state = "working"}

NoJob == [state |-> "fresh", created |-> 0, request |-> NoRequest,
          work |-> CHOOSE w \in Works : TRUE, asked |-> FALSE, flag |-> FALSE,
          thread |-> "none", handle |-> "none"]

JobsInit ==
  /\ job = [i \in Ids |-> NoJob]
  /\ mutex = "free"
  /\ joining = {}
  /\ shuttingDown = FALSE

\* The loop takes m_mutex for the scope in which it takes threads.
LoopLocks ==
  /\ mutex = "free"
  /\ mutex' = "loop"
  /\ UNCHANGED <<job, joining, shuttingDown>>

-----------------------------------------------------------------------------
(* Dropping entries.                                                       *)

\* An entry leaves the map and nothing of it is kept but its joinable thread,
\* which becomes an orphan.
Drop(j) == [NoJob EXCEPT !.state = "dropped", !.thread = j.thread,
                         !.handle = IF j.handle = "entry" THEN "orphan" ELSE j.handle]

\* A finished job past its ttl; find and findByRequest do not show it either.
Expired(j) == j.state \in Finished /\ clock >= j.created + Ttl

expireLocked(js) == [i \in Ids |-> IF Expired(js[i]) THEN Drop(js[i]) ELSE js[i]]

\* Mutant: the oldest job goes, whatever its state.
evictLocked_any(js) ==
  LET kept == {i \in Ids : js[i].state \in {"working"} \union Finished}
      n    == IF Cardinality(kept) < MaxRetained THEN 0
              ELSE Cardinality(kept) - MaxRetained + 1
  IN  {D \in SUBSET kept :
         /\ Cardinality(D) = IF n < Cardinality(kept) THEN n ELSE Cardinality(kept)
         /\ \A d \in D, k \in kept \ D : js[d].created <= js[k].created}

\* The sets of jobs the eviction may drop: while as many are kept as may be,
\* the oldest finished one; it stops when none is finished.
evictLocked(js) ==
  LET kept == {i \in Ids : js[i].state \in {"working"} \union Finished}
      done == {i \in Ids : js[i].state \in Finished}
      n    == IF Cardinality(kept) < MaxRetained THEN 0
              ELSE Cardinality(kept) - MaxRetained + 1
  IN  {D \in SUBSET done :
         /\ Cardinality(D) = IF n < Cardinality(done) THEN n ELSE Cardinality(done)
         /\ \A d \in D, k \in done \ D : js[d].created <= js[k].created}

-----------------------------------------------------------------------------
(* start.                                                                  *)

\* The first half: the orphans are taken, to be joined outside the lock.
TakeOrphans ==
  /\ mutex = "loop"
  /\ mutex' = "free"
  /\ joining' = {i \in Ids : job[i].handle = "orphan"}
  /\ job' = [i \in Ids |-> IF job[i].handle = "orphan"
                             THEN [job[i] EXCEPT !.handle = "taken"] ELSE job[i]]
  /\ UNCHANGED shuttingDown

\* join returned for every thread taken.
AllJoined == \A i \in joining : job[i].thread = "over"

\* Neither the 503 of a store shutting down nor the 429 of a full one.
MayStart(js) ==
  /\ ~shuttingDown
  /\ Cardinality({i \in Ids : js[i].state = "working"}) < MaxWorking

\* The second half, refused: jobs past their ttl are gone all the same, unless
\* the store is shutting down.
StartRefused ==
  /\ AllJoined
  /\ mutex = "free"
  /\ ~MayStart(expireLocked(job))
  /\ job' = IF shuttingDown THEN job ELSE expireLocked(job)
  /\ joining' = {}
  /\ UNCHANGED <<mutex, shuttingDown>>

\* The second half: expire, evict, insert, and start the thread.
StartLocked(i, r, w) ==
  /\ AllJoined
  /\ mutex = "free"
  /\ job[i].state = "fresh"
  /\ MayStart(expireLocked(job))
  /\ \E D \in evictLocked(expireLocked(job)) :
       job' = [k \in Ids |->
                 CASE k = i -> [NoJob EXCEPT !.state = "working", !.created = clock,
                                             !.request = r, !.work = w,
                                             !.thread = "running", !.handle = "entry"]
                   [] k # i /\ k \in D -> Drop(job[k])
                   [] OTHER -> expireLocked(job)[k]]
  /\ joining' = {}
  /\ UNCHANGED <<mutex, shuttingDown>>

-----------------------------------------------------------------------------
(* The thread of a job, after its work returned or threw.                  *)

Return(i) ==
  /\ job[i].thread = "running"
  /\ mutex = "free"
  /\ mutex' = "thread"
  /\ job' = [job EXCEPT ![i].thread = "recording"]
  /\ UNCHANGED <<joining, shuttingDown>>

\* The answer is recorded under the lock, if the entry is still there.
Finish(i, threw) ==
  /\ job[i].thread = "recording"
  /\ mutex' = "free"
  /\ job' = [job EXCEPT ![i].thread = "leaving",
                        ![i].state = IF @ # "working" THEN @
                                     ELSE IF threw THEN "abandoned"
                                     ELSE IF job[i].flag THEN "cancelled"
                                     ELSE "completed"]
  /\ UNCHANGED <<joining, shuttingDown>>

Leave(i) ==
  /\ job[i].thread = "leaving"
  /\ job' = [job EXCEPT ![i].thread = "over"]
  /\ UNCHANGED <<mutex, joining, shuttingDown>>

-----------------------------------------------------------------------------
(* Reading and cancelling.                                                 *)

\* Mutant: only an answer that is kept is found by its request id.
findByRequest_finished(r) == {i \in Kept : /\ r # NoRequest
                                           /\ job[i].request = r
                                           /\ job[i].state \in Finished
                                           /\ ~Expired(job[i])}

\* The job a request id names, as a set of at most one.
findByRequest(r) == {i \in Kept : /\ r # NoRequest
                                  /\ job[i].request = r
                                  /\ ~Expired(job[i])}

\* Mutant: a job is asked to stop whatever its state.
Cancel_anyState(i) ==
  /\ mutex = "free"
  /\ i \in Kept
  /\ job' = [job EXCEPT ![i].flag = TRUE, ![i].asked = TRUE]
  /\ UNCHANGED <<mutex, joining, shuttingDown>>

\* tasks/cancel of a running job; a finished one is left as it is.
Cancel(i) ==
  /\ mutex = "free"
  /\ i \in Working
  /\ job' = [job EXCEPT ![i].flag = TRUE, ![i].asked = TRUE]
  /\ UNCHANGED <<mutex, joining, shuttingDown>>

-----------------------------------------------------------------------------
(* shutdown.                                                               *)

\* Mutant: only the threads of kept jobs are joined.
Shutdown_keptOnly ==
  /\ mutex = "loop"
  /\ mutex' = "free"
  /\ shuttingDown' = TRUE
  /\ joining' = {i \in Ids : job[i].handle = "entry"}
  /\ job' = [i \in Ids |->
               [job[i] EXCEPT !.flag = @ \/ i \in Kept,
                              !.handle = IF @ = "entry" THEN "taken" ELSE @]]

\* Mutant: the threads are joined in the scope that took them.
Shutdown_locked ==
  /\ mutex = "loop"
  /\ UNCHANGED mutex
  /\ shuttingDown' = TRUE
  /\ joining' = {i \in Ids : job[i].handle \in {"entry", "orphan"}}
  /\ job' = [i \in Ids |->
               [job[i] EXCEPT !.flag = @ \/ i \in Kept,
                              !.handle = IF @ \in {"entry", "orphan"} THEN "taken" ELSE @]]

\* Every kept job is told to stop; its thread and the orphans are taken, to be
\* joined outside the lock.
Shutdown ==
  /\ mutex = "loop"
  /\ mutex' = "free"
  /\ shuttingDown' = TRUE
  /\ joining' = {i \in Ids : job[i].handle \in {"entry", "orphan"}}
  /\ job' = [i \in Ids |->
               [job[i] EXCEPT !.flag = @ \/ i \in Kept,
                              !.handle = IF @ \in {"entry", "orphan"} THEN "taken" ELSE @]]

ShutdownJoined ==
  /\ AllJoined
  /\ joining' = {}
  /\ UNCHANGED <<job, mutex, shuttingDown>>

-----------------------------------------------------------------------------
(* What the store promises.                                                *)

\* A caller told that its cancel was taken is never answered with the work's
\* result, however the cancel and the return of the work race (cancel and the
\* end of the thread in start).
CancelledNeverCompletes ==
  \A i \in Ids : job[i].asked => job[i].state # "completed"

\* Two kept jobs never carry the same request id, so a retried request reads
\* the first run and does not start a second one beside it.
OneJobPerRequest ==
  \A i, k \in Kept : i # k /\ job[i].request # NoRequest => job[i].request # job[k].request
=============================================================================
