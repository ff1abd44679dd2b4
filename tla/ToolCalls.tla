----------------------------- MODULE ToolCalls -----------------------------
(***************************************************************************)
(* tools/call in the server: the stdio loop, the jobs it starts and the     *)
(* confirmation gate they share (handleRequest and runStdio in              *)
(* src/src/mcp/mcp_server.cpp, callTool in src/src/mcp/tool_registry.cpp).  *)
(*                                                                         *)
(* The loop handles one request at a time.  A call runs on the loop, or, if *)
(* its tool runs as a job and the client named the work, on a thread of its *)
(* own; both go through the same gate.  Jobs run while the loop answers     *)
(* other requests, and somebody else (the editor, another agent) may change *)
(* the target at any time.                                                 *)
(***************************************************************************)
EXTENDS Jobs, Confirmations

CONSTANTS Loop,       \* the server's loop, as a caller of callTool
          NoToken,    \* a call that offers no token
          Written     \* what each call leaves in the target

ASSUME ToolCallsAssumption ==
  /\ Loop \notin Ids
  /\ NoToken \notin Tokens
  /\ Works \subseteq Calls
  /\ Written \in [Calls -> Contents]

VARIABLES loop,       \* what the loop is doing
          asked,      \* the job it is about to start
          call        \* the call every caller has inside callTool

Callers == Ids \union {Loop}

\* stage: where evaluate and the handler are.  seen: previewed_fingerprint, what
\* the preview of the token read.  `gated' and `now': what a dry run read when
\* it began.  approved (history): at some moment since the call began the target
\* was one it may overwrite.
Call == [stage: {"none", "preview", "probing", "spending", "checking", "running", "threw",
                 "done"},
         call: Calls, token: Tokens \union {NoToken}, seen: Contents \union {Absent},
         now: Nat, gated: BOOLEAN, approved: BOOLEAN]

LoopStates == {"ready", "calling", "taking", "joining", "closing", "stopping", "stopped"}

Request == [request: Requests \union {NoRequest}, call: Calls,
            token: Tokens \union {NoToken}]

vars == <<clock, jobVars, confirmVars, target, loop, asked, call>>

TypeOK ==
  /\ clock \in 0..MaxClock
  /\ JobsTypeOK
  /\ ConfirmTypeOK
  /\ loop \in LoopStates
  /\ asked \in Request
  /\ call \in [Callers -> Call]

NoCall == [stage |-> "none", call |-> CHOOSE c \in Calls : TRUE, token |-> NoToken,
           seen |-> Absent, now |-> 0, gated |-> FALSE, approved |-> FALSE]

NoRequestAtAll == [request |-> NoRequest, call |-> CHOOSE c \in Calls : TRUE,
                   token |-> NoToken]

Init ==
  /\ ClockInit
  /\ JobsInit
  /\ ConfirmInit
  /\ loop = "ready"
  /\ asked = NoRequestAtAll
  /\ call = [p \in Callers |-> NoCall]

-----------------------------------------------------------------------------
(* The target.                                                             *)

\* What call k may overwrite: nothing; with a token, what its preview read, or,
\* if that read nothing and said so (target_checked_on_confirm), whatever is there.
MayOverwrite(k, tgt) ==
  \/ tgt = Absent
  \/ k.token # NoToken /\ k.seen \in {Absent, tgt}

\* The target becomes tgt; calls in flight that may overwrite it note that.
SetTarget(tgt, calls) ==
  /\ target' = tgt
  /\ call' = [p \in Callers |->
                IF calls[p].stage \in {"probing", "spending"}
                  THEN [calls[p] EXCEPT !.approved = @ \/ MayOverwrite(calls[p], tgt)]
                  ELSE calls[p]]

\* Somebody else writes or removes the target.
OutsideWrite(tgt) ==
  /\ tgt # target
  /\ SetTarget(tgt, call)
  /\ UNCHANGED <<clock, jobVars, confirmVars, loop, asked>>

Advance ==
  /\ Tick
  /\ UNCHANGED <<jobVars, confirmVars, target, loop, asked, call>>

-----------------------------------------------------------------------------
(* callTool, on the loop or on the thread of a job.                        *)

Ended == [NoCall EXCEPT !.stage = "done"]

\* The handler of a tool that writes one path refuses to overwrite unless told to.
RefusesExisting == Calls \ (AlwaysConfirmed \union Overwriting)

Runs(k) == [NoCall EXCEPT !.stage = IF k.call \in RefusesExisting THEN "checking" ELSE "running",
                          !.call = k.call, !.approved = k.approved]

\* The first half of evaluate: no token is needed, or one is and none came (428),
\* or the one that came is looked up under the lock.
Evaluate(p, c, t) ==
  LET found == [NoCall EXCEPT !.call = c, !.token = t,
                              !.seen = IF t = NoToken THEN Absent ELSE token[t].seen]
      begun == [found EXCEPT !.approved = MayOverwrite(found, target)]
  IN  /\ call[p].stage = "none"
      /\ \/ /\ t = NoToken
            /\ call' = [call EXCEPT ![p] =
                          IF requiresConfirmation(c) THEN Ended ELSE Runs(begun)]
            /\ UNCHANGED confirmVars
         \/ /\ t # NoToken
            /\ LookUp(t, c)
            /\ call' = [call EXCEPT ![p] =
                          IF Verdict(t, c) # "spendable" THEN Ended
                          ELSE [begun EXCEPT !.stage = IF begun.seen = Absent THEN "spending"
                                                       ELSE "probing"]]
      /\ UNCHANGED <<clock, jobVars, target>>

\* The target is read again, outside the lock.  A probe that fails, or finds the
\* target drifted, ends the call and leaves the token where it was.
Probe(p) ==
  /\ call[p].stage = "probing"
  /\ \/ call' = [call EXCEPT ![p] = Ended]
     \/ /\ ~Drifted(call[p].seen)
        /\ call' = [call EXCEPT ![p].stage = "spending"]
  /\ UNCHANGED <<clock, jobVars, confirmVars, target, loop, asked>>

\* The second half of evaluate.
Authorise(p) ==
  /\ call[p].stage = "spending"
  /\ \/ /\ Spend(call[p].token)
        /\ call' = [call EXCEPT ![p] = Runs(@)]
     \/ /\ SpentByAnother(call[p].token)
        /\ call' = [call EXCEPT ![p] = Ended]
  /\ UNCHANGED <<clock, jobVars, target, loop, asked>>

\* The handler's own look at the target (already_exists), before it writes.
Check(p) ==
  /\ call[p].stage = "checking"
  /\ \/ /\ target = Absent
        /\ call' = [call EXCEPT ![p].stage = "running", ![p].approved = TRUE]
     \/ call' = [call EXCEPT ![p] = Ended]
  /\ UNCHANGED <<clock, jobVars, confirmVars, target, loop, asked>>

\* The handler writes the target, or fails without.
Execute(p) ==
  /\ call[p].stage = "running"
  /\ \/ SetTarget(Written[call[p].call], [call EXCEPT ![p] = Ended])
     \/ /\ call' = [call EXCEPT ![p] = Ended]
        /\ UNCHANGED target
  /\ UNCHANGED <<clock, jobVars, confirmVars, loop, asked>>

-----------------------------------------------------------------------------
(* The threads of jobs.                                                    *)

\* The work of a job is callTool with the arguments it was started with.
JobBegins(i) ==
  /\ job[i].thread = "running"
  /\ Evaluate(i, job[i].work, call[i].token)
  /\ UNCHANGED <<loop, asked>>

\* callTool returned, or something in it threw past its handlers.
JobReturns(i) ==
  /\ Return(i)
  /\ \/ /\ call[i].stage = "done"
        /\ UNCHANGED call
     \/ /\ call[i].stage \in {"none", "probing"}
        /\ call' = [call EXCEPT ![i] = [NoCall EXCEPT !.stage = "threw"]]
  /\ UNCHANGED <<clock, confirmVars, target, loop, asked>>

JobEnds(i) ==
  /\ Finish(i, call[i].stage = "threw")
  /\ call' = [call EXCEPT ![i] = Ended]
  /\ UNCHANGED <<clock, confirmVars, target, loop, asked>>

JobLeaves(i) ==
  /\ Leave(i)
  /\ UNCHANGED <<clock, confirmVars, target, loop, asked, call>>

-----------------------------------------------------------------------------
(* Requests.                                                               *)

\* A dry run: it reads the clock and whether the call needs a confirmation.
DryRun(c) ==
  /\ loop = "ready"
  /\ loop' = "calling"
  /\ call' = [call EXCEPT ![Loop] = [NoCall EXCEPT !.stage = "preview", !.call = c,
                                                   !.now = clock,
                                                   !.gated = requiresConfirmation(c)]]
  /\ UNCHANGED <<clock, jobVars, confirmVars, target, asked>>

\* Its preview is refused, needs no token, or carries a new one.  Tokens are
\* random: which of the fresh ones is drawn makes no difference.
Preview ==
  /\ call[Loop].stage = "preview"
  /\ \/ UNCHANGED confirmVars
     \/ /\ call[Loop].gated
        /\ \E t \in Tokens : token[t].status = "fresh"
        /\ Mint(CHOOSE t \in Tokens : token[t].status = "fresh",
                call[Loop].call, call[Loop].now)
  /\ call' = [call EXCEPT ![Loop] = Ended]
  /\ UNCHANGED <<clock, jobVars, target, loop, asked>>

\* What a client may offer as a token: none, or one it has seen or made up
\* (unknown, like one that is gone).
Offered == {t \in Tokens : token[t].status # "fresh"} \union {NoToken}

\* tools/call of a tool that does not run as a job, or without a request id.
PlainCall(c, t) ==
  /\ loop = "ready"
  /\ loop' = "calling"
  /\ Evaluate(Loop, c, t)
  /\ UNCHANGED asked

\* The call on the loop is answered.
PlainCallEnds ==
  /\ loop = "calling"
  /\ call[Loop].stage = "done"
  /\ loop' = "ready"
  /\ call' = [call EXCEPT ![Loop] = NoCall]
  /\ UNCHANGED <<clock, jobVars, confirmVars, target, asked>>

\* tools/call as a job.  A request id that names a kept job is answered from the
\* store, or refused if its arguments differ: either way nothing is started.
\* Bound: as many jobs start as there are ids; a call past them is only made to a
\* full store, and goes no further if that has room again by the second half.
JobCall(r, w, t) ==
  /\ loop = "ready"
  /\ (\E i \in Ids : job[i].state = "fresh") \/ Cardinality(Working) >= MaxWorking
  /\ findByRequest(r) = {}
  /\ LoopLocks
  /\ loop' = "taking"
  /\ asked' = [request |-> r, call |-> w, token |-> t]
  /\ UNCHANGED <<clock, confirmVars, target, call>>

JobCallJoins ==
  /\ loop = "taking"
  /\ TakeOrphans
  /\ loop' = "joining"
  /\ UNCHANGED <<clock, confirmVars, target, asked, call>>

\* The job gets an id no job had.  The answer is the job as it is when it leaves
\* Working or when the grace of waitFor has passed; nothing depends on which.
JobCallStarts ==
  /\ loop = "joining"
  /\ \E k \in Ids : job[k].state = "fresh"
  /\ LET i == CHOOSE k \in Ids : job[k].state = "fresh"
     IN  /\ StartLocked(i, asked.request, asked.call)
         /\ call' = [call EXCEPT ![i] = [NoCall EXCEPT !.token = asked.token]]
  /\ asked' = NoRequestAtAll
  /\ loop' = "ready"
  /\ UNCHANGED <<clock, confirmVars, target>>

JobCallRefused ==
  /\ loop = "joining"
  /\ StartRefused
  /\ loop' = "ready"
  /\ asked' = NoRequestAtAll
  /\ UNCHANGED <<clock, confirmVars, target, call>>

TaskCancel(i) ==
  /\ loop = "ready"
  /\ Cancel(i)
  /\ UNCHANGED <<clock, confirmVars, target, loop, asked, call>>

\* The input ended or a stop was requested: the loop leaves and shuts the jobs
\* down, before it lets the runtime session go.
Stop ==
  /\ loop = "ready"
  /\ LoopLocks
  /\ loop' = "closing"
  /\ UNCHANGED <<clock, confirmVars, target, asked, call>>

StopJoins ==
  /\ loop = "closing"
  /\ Shutdown
  /\ loop' = "stopping"
  /\ UNCHANGED <<clock, confirmVars, target, asked, call>>

Stopped ==
  /\ loop = "stopping"
  /\ ShutdownJoined
  /\ loop' = "stopped"
  /\ UNCHANGED <<clock, confirmVars, target, asked, call>>

-----------------------------------------------------------------------------
(* The specification.                                                      *)

LoopSteps ==
  \/ Preview
  \/ Probe(Loop) \/ Authorise(Loop) \/ Check(Loop) \/ Execute(Loop)
  \/ PlainCallEnds
  \/ JobCallJoins
  \/ JobCallStarts
  \/ JobCallRefused
  \/ StopJoins
  \/ Stopped

JobSteps(i) ==
  \/ JobBegins(i)
  \/ Probe(i) \/ Authorise(i) \/ Check(i) \/ Execute(i)
  \/ JobReturns(i)
  \/ JobEnds(i)
  \/ JobLeaves(i)

Requested ==
  \/ \E c \in Calls : DryRun(c)
  \/ \E c \in Calls, t \in Offered : PlainCall(c, t)
  \/ \E r \in Requests \union {NoRequest}, w \in Works, t \in Offered : JobCall(r, w, t)
  \/ \E i \in Ids : TaskCancel(i)
  \/ Stop

\* The server has stopped.
Terminated == loop = "stopped" /\ UNCHANGED vars

Next ==
  \/ Requested
  \/ LoopSteps
  \/ \E i \in Ids : JobSteps(i)
  \/ \E tgt \in Contents \union {Absent} : OutsideWrite(tgt)
  \/ Advance
  \/ Terminated

Spec == Init /\ [][Next]_vars

-----------------------------------------------------------------------------
(* Properties.                                                             *)

\* A handler starts to write only if, at some moment since the call began, there
\* was nothing at the target, or what the confirming token's preview had read; the
\* one exception is a preview that read nothing and told the client so.  Writers
\* and other calls may come between the probe and the spend, but a target that
\* stood changed all through the call is never overwritten (evaluate, the
\* overwrite gate of requiresConfirmation, and the refusals of the handlers).
RunsOnWhatWasApproved ==
  \A p \in Callers : call[p].stage = "running" => call[p].approved

\* When the loop has stopped no thread of a job is left, dropped jobs included,
\* so none is half way through a write when the process leaves (stop and the
\* end of runStdio).
StoppedIsQuiet ==
  loop = "stopped" => \A i \in Ids : job[i].thread \in {"none", "over"}

\* Every join of a job's thread ends, and one in `start' soon: start takes only
\* threads whose jobs have their answer, which expireLocked and evictLocked must
\* keep to, and while the loop joins, one of the threads it waits for can go on,
\* or the one that has m_mutex can: the loop has let go of the mutex that a thread
\* needs to record its answer ("Outside the lock: a job still running takes it to
\* record its answer").
JoinsNeverHang ==
  /\ \A i \in Ids :
       job[i].handle = "orphan" \/ (i \in joining /\ ~shuttingDown)
         => job[i].thread \notin {"running", "recording"}
  /\ loop \in {"joining", "stopping"} /\ ~AllJoined
       => \E i \in Ids : /\ i \in joining \/ job[i].thread = "recording"
                         /\ ENABLED JobSteps(i)
=============================================================================
