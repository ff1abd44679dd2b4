---------------------------- MODULE CommandQueue ----------------------------
(***************************************************************************)
(* How a live call gets onto the engine's main thread and back             *)
(* (src/src/gdextension/editor_hook.cpp, runtime_request_router.cpp).      *)
(*                                                                         *)
(* IPC threads post commands and wait, each up to a deadline, on a promise *)
(* that two sides may try to fulfil: the main thread, and the waiter       *)
(* itself once its deadline is over.  The main thread takes commands in    *)
(* its frame callback.  Some answer at once, some wait over frames in a    *)
(* slot or a list, and some re-enter the frame callback from inside the    *)
(* engine.  At shutdown the queue and the slots are drained.               *)
(*                                                                         *)
(* Every atomic operation on a CommandControl is a step of its own, and so *)
(* is publishing a promise after claiming it.  How long things take is     *)
(* left open: a deadline may pass, and a slot may finish, in any frame.    *)
(* What a command does to the engine is left out, but for the pause state  *)
(* and for whether a profiler read has taken a sample.                     *)
(*                                                                         *)
(* Left out as well: the frames a reimport runs between taking its slot    *)
(* and the end of its body (here it takes the slot as its body ends), and  *)
(* an exception thrown by a deferred capture, which processMainScreen-     *)
(* CaptureFrame lets out of the frame callback.                            *)
(***************************************************************************)
EXTENDS Naturals, Sequences, SequencesExt

CONSTANTS MaxCommands,  \* bound: how many commands are posted
          Kinds,        \* the kinds of command that are posted
          MaxBatch,     \* kMaxCommandsPerFrame
          MaxDepth      \* bound: how deep frame callbacks nest

Commands == 1..MaxCommands     \* in the order they are posted
NoCommand == 0

\* One slot each: m_pendingRuntimeStep, m_pendingAssetReimport, ...
Slots == {"step", "reimport", "profiler", "watch", "explore", "capture", "script"}

\* Any number at once: m_parkedSceneCreates, m_parkedRefreshes,
\* m_pendingProjectScans.
Lists == {"scene", "refresh", "scan"}

\* plain, pause and resume answer in the frame that runs them; foreign is a
\* method the session kind does not admit.
AllKinds == {"plain", "pause", "resume", "foreign"} \union Slots \union Lists

ASSUME CommandQueueAssumption ==
  /\ MaxCommands \in Nat
  /\ Kinds \subseteq AllKinds
  /\ MaxBatch \in Nat \ {0}
  /\ MaxDepth \in Nat \ {0}

VARIABLES
  \* The commands.
  kind,       \* what each command is
  state,      \* CommandControl.m_state, "unposted" before
  ran,        \* CommandControl.m_everStarted
  claimed,    \* CommandControl.m_responseClaimed
  promise,    \* what the promise holds, or "none"
  \* The threads that wait for them.
  waiter,     \* where each is in awaitRuntimeCommand
  told,       \* what each returned
  \* The hook.
  queue,      \* m_commandQueue
  held,       \* held[k]: the commands waiting over frames in slot or list k
  fresh,      \* the held commands whose awaiting_next_callback is set
  pumping,    \* m_pumping
  ready,      \* GodotApi::isLiveReady
  \* The main thread.
  frames,     \* the frame callbacks it is in, the innermost last
  stack,      \* the command bodies it is in, the innermost last
  answer,     \* the answer it is about to give
  stage,      \* "live", "stopped", "draining" or "drained"
  \* The engine.
  paused,     \* the scene tree is paused
  wish,       \* what the last pause or resume asked for, or that a step
              \* failed to re-pause
  sampled     \* the profiler reads that have a sample (ProfilerCollector::started)

commandVars == <<kind, state, ran, claimed, promise>>
waiterVars == <<waiter, told>>
hookVars == <<queue, held, fresh, pumping, ready>>
mainVars == <<frames, stack, answer, stage>>
engineVars == <<paused, wish, sampled>>
vars == <<commandVars, waiterVars, hookVars, mainVars, engineVars>>

\* What a caller can be told; "answered" is what the command itself came to, a
\* success or an error.
Outcomes == {"answered", "rejected", "command_cancelled", "not_ready", "session_ended",
             "not_started", "unknown_outcome"}

NoAnswer == [cmd |-> NoCommand, outcome |-> "none", mine |-> FALSE]

\* A frame callback: the commands it has dequeued and not handled, the frame
\* processors it has still to run, how deep in command bodies it was called, and
\* whether it set m_pumping.
Frame == [batch : Seq(Commands), todo : Seq(Slots \union Lists),
          depth : Nat, pumps : BOOLEAN]

NestedOrder == <<"step", "reimport", "profiler", "watch", "explore", "capture", "script">>
FrameOrder == <<"step", "reimport", "profiler", "watch", "explore",
                "scene", "refresh", "scan", "capture", "script">>
DrainOrder == <<"step", "scan", "scene", "refresh", "reimport", "profiler", "watch",
                "explore">>

Init ==
  /\ kind = [c \in Commands |-> "plain"]
  /\ state = [c \in Commands |-> "unposted"]
  /\ ran = [c \in Commands |-> FALSE]
  /\ claimed = [c \in Commands |-> FALSE]
  /\ promise = [c \in Commands |-> "none"]
  /\ waiter = [c \in Commands |-> "idle"]
  /\ told = [c \in Commands |-> "none"]
  /\ queue = <<>>
  /\ held = [k \in Slots \union Lists |-> {}]
  /\ fresh = {}
  /\ pumping = FALSE
  /\ ready = TRUE
  /\ frames = <<>>
  /\ stack = <<>>
  /\ answer = NoAnswer
  /\ stage = "live"
  /\ paused \in BOOLEAN
  /\ wish = IF paused THEN "paused" ELSE "running"
  /\ sampled = {}

-----------------------------------------------------------------------------
(* The waiting side: postCommand and awaitRuntimeCommand.                  *)

\* Mutant: a command is queued whether or not the main loop still runs.
Post_afterStop(c) ==
  /\ state[c] = "unposted"
  /\ \A d \in Commands : d < c => state[d] # "unposted"
  /\ \E k \in Kinds : kind' = [kind EXCEPT ![c] = k]
  /\ waiter' = [waiter EXCEPT ![c] = "waiting"]
  /\ state' = [state EXCEPT ![c] = "Pending"]
  /\ queue' = Append(queue, c)
  /\ UNCHANGED <<claimed, promise, ran, told, held, fresh, pumping, ready,
                 mainVars, engineVars>>

\* postCommand: readiness is tested and the command queued under one lock.
Post(c) ==
  /\ state[c] = "unposted"
  /\ \A d \in Commands : d < c => state[d] # "unposted"
  /\ \E k \in Kinds : kind' = [kind EXCEPT ![c] = k]
  /\ waiter' = [waiter EXCEPT ![c] = "waiting"]
  /\ \/ /\ ready
        /\ state' = [state EXCEPT ![c] = "Pending"]
        /\ queue' = Append(queue, c)
        /\ UNCHANGED <<claimed, promise>>
     \/ /\ ~ready
        /\ state' = [state EXCEPT ![c] = "Completed"]
        /\ claimed' = [claimed EXCEPT ![c] = TRUE]
        /\ promise' = [promise EXCEPT ![c] = "not_ready"]
        /\ UNCHANGED queue
  /\ UNCHANGED <<ran, told, held, fresh, pumping, ready, mainVars, engineVars>>

\* The wait returns o.
Return(c, o) ==
  /\ waiter' = [waiter EXCEPT ![c] = "returned"]
  /\ told' = [told EXCEPT ![c] = o]

Goto(c, at) ==
  /\ waiter' = [waiter EXCEPT ![c] = at]
  /\ UNCHANGED told

\* The future is ready: within the deadline, or in the get() of a waiter that
\* cancelled a command whose answer the main thread had claimed.
GetAnswer(c) ==
  /\ waiter[c] \in {"waiting", "getting"}
  /\ promise[c] # "none"
  /\ Return(c, promise[c])
  /\ UNCHANGED <<commandVars, hookVars, mainVars, engineVars>>

\* Mutant: the deadline starts again.
DeadlinePasses_again(c) ==
  /\ waiter[c] = "waiting"
  /\ promise[c] = "none"
  /\ Goto(c, "waiting")
  /\ UNCHANGED <<commandVars, hookVars, mainVars, engineVars>>

DeadlinePasses(c) ==
  /\ waiter[c] = "waiting"
  /\ promise[c] = "none"
  /\ Goto(c, "expired")
  /\ UNCHANGED <<commandVars, hookVars, mainVars, engineVars>>

\* Mutant: the state is set, whatever it was.
TryCancelPending_store(c) ==
  /\ waiter[c] = "expired"
  /\ state' = [state EXCEPT ![c] = "Cancelled"]
  /\ Goto(c, "cancelled")
  /\ UNCHANGED <<kind, ran, claimed, promise, hookVars, mainVars, engineVars>>

TryCancelPending(c) ==
  /\ waiter[c] = "expired"
  /\ \/ /\ state[c] = "Pending"
        /\ state' = [state EXCEPT ![c] = "Cancelled"]
        /\ Goto(c, "cancelled")
     \/ /\ state[c] # "Pending"
        /\ Goto(c, "started")
        /\ UNCHANGED state
  /\ UNCHANGED <<kind, ran, claimed, promise, hookVars, mainVars, engineVars>>

\* The waiter claims the response and publishes o, if nobody has claimed it.
\* Only the waiter itself looks at the promise, so this is one step.
ClaimFor(c, o) ==
  /\ ~claimed[c]
  /\ claimed' = [claimed EXCEPT ![c] = TRUE]
  /\ promise' = [promise EXCEPT ![c] = o]
  /\ Return(c, o)

AnswerNotStarted(c) ==
  /\ waiter[c] = "cancelled"
  /\ \/ ClaimFor(c, "not_started")
     \/ claimed[c] /\ Goto(c, "getting") /\ UNCHANGED <<claimed, promise>>
  /\ UNCHANGED <<kind, state, ran, hookVars, mainVars, engineVars>>

TryCancelRunning(c) ==
  /\ waiter[c] = "started"
  /\ state' = [state EXCEPT ![c] = IF @ = "Running" THEN "Cancelled" ELSE @]
  /\ Goto(c, "unresolved")
  /\ UNCHANGED <<kind, ran, claimed, promise, hookVars, mainVars, engineVars>>

AnswerUnknown(c) ==
  /\ waiter[c] = "unresolved"
  /\ \/ ClaimFor(c, "unknown_outcome")
     \/ claimed[c] /\ Goto(c, "last_wait") /\ UNCHANGED <<claimed, promise>>
  /\ UNCHANGED <<kind, state, ran, hookVars, mainVars, engineVars>>

\* One more millisecond for an answer that was claimed and not published.
LastWait(c) ==
  /\ waiter[c] = "last_wait"
  /\ \/ promise[c] # "none" /\ Return(c, promise[c])
     \/ promise[c] = "none" /\ Return(c, "unknown_outcome")
  /\ UNCHANGED <<commandVars, hookVars, mainVars, engineVars>>

Await(c) ==
  \/ GetAnswer(c) \/ DeadlinePasses(c) \/ TryCancelPending(c) \/ AnswerNotStarted(c)
  \/ TryCancelRunning(c) \/ AnswerUnknown(c) \/ LastWait(c)

-----------------------------------------------------------------------------
(* fulfillCommand, on the main thread.                                     *)

\* The main thread turns to answering c with o.
Fulfill(c, o) == answer' = [cmd |-> c, outcome |-> o, mine |-> FALSE]

\* Mutant: the promise is set without a claim.
TryClaimResponse_always ==
  /\ answer # NoAnswer
  /\ ~answer.mine
  /\ claimed' = [claimed EXCEPT ![answer.cmd] = TRUE]
  /\ answer' = [answer EXCEPT !.mine = TRUE]
  /\ UNCHANGED <<kind, state, ran, promise, waiterVars, hookVars, frames, stack, stage,
                 engineVars>>

TryClaimResponse ==
  /\ answer # NoAnswer
  /\ ~answer.mine
  /\ claimed' = [claimed EXCEPT ![answer.cmd] = TRUE]
  /\ answer' = IF claimed[answer.cmd] THEN NoAnswer ELSE [answer EXCEPT !.mine = TRUE]
  /\ UNCHANGED <<kind, state, ran, promise, waiterVars, hookVars, frames, stack, stage,
                 engineVars>>

Publish ==
  /\ answer.mine
  /\ promise' = [promise EXCEPT ![answer.cmd] = answer.outcome]
  /\ answer' = NoAnswer
  /\ UNCHANGED <<kind, state, ran, claimed, waiterVars, hookVars, frames, stack, stage,
                 engineVars>>

-----------------------------------------------------------------------------
(* The main thread: frame callbacks (processQueue) and command bodies.     *)

\* It is between two frames; in a frame callback; or in a command body, from
\* which the engine may call the frame callback again.
Idle == frames = <<>> /\ answer = NoAnswer
InFrame == frames # <<>> /\ answer = NoAnswer /\ Len(stack) = Last(frames).depth
InBody == frames # <<>> /\ answer = NoAnswer /\ Len(stack) > Last(frames).depth

Top == Last(frames)
Body == Last(stack)

\* The innermost frame goes on as f.
Continue(f) == frames' = Append(Front(frames), f)

\* The body of c ends, and c is answered with o: markCompleted, fulfillCommand.
Complete(c, o) ==
  /\ state' = [state EXCEPT ![c] = "Completed"]
  /\ Fulfill(c, o)

\* A scene is not opened or written while the editor starts or its file system
\* settles.
Waits(c, settling) == settling /\ kind[c] = "scene"

\* Mutant: what waits is overtaken, and the front of the queue popped all the same.
Dequeued_overtaking(settling) == SelectSeq(queue, LAMBDA c : ~Waits(c, settling))

\* The commands this frame takes: those before the first that waits, as many as
\* fit.
Dequeued(settling) ==
  LET Takes(n) == n <= MaxBatch /\ \A i \in 1..n : ~Waits(queue[i], settling)
  IN  SubSeq(queue, 1, Max({n \in 0..Len(queue) : Takes(n)}))

\* A frame callback that takes the commands of batch, or that only looks at what
\* is in progress.
Pump(batch) ==
  /\ frames' = Append(frames, [batch |-> batch, todo |-> FrameOrder,
                               depth |-> Len(stack), pumps |-> TRUE])
  /\ queue' = SubSeq(queue, Len(batch) + 1, Len(queue))
  /\ pumping' = TRUE

Observe ==
  /\ frames' = Append(frames, [batch |-> <<>>, todo |-> NestedOrder,
                               depth |-> Len(stack), pumps |-> FALSE])
  /\ UNCHANGED <<queue, pumping>>

\* The engine calls the frame callback.  pass: an import pass or a progress dialog
\* is open, and stays open until a frame inside it returns.
FrameCallback(pass) ==
  /\ Idle \/ InBody
  /\ stage = "live"
  /\ Len(frames) < MaxDepth
  /\ frames # <<>> /\ ~pumping => pass
  /\ UNCHANGED <<commandVars, waiterVars, held, fresh, ready, stack, answer, stage,
                 engineVars>>

\* Mutant: the m_pumping guard is gone.
ProcessQueue_reentrant ==
  \E pass, settling \in BOOLEAN :
    /\ FrameCallback(pass)
    /\ IF pass THEN Observe ELSE Pump(Dequeued(settling))

\* Inside another callback, or inside a pass of the editor's own, a frame only
\* observes.
ProcessQueue ==
  \E pass, settling \in BOOLEAN :
    /\ FrameCallback(pass)
    /\ IF pumping \/ pass THEN Observe ELSE Pump(Dequeued(settling))

\* The next command of the batch: refused for its session kind, started, or found
\* cancelled by its waiter.
StartNext ==
  /\ InFrame
  /\ stage = "live"
  /\ Top.batch # <<>>
  /\ LET c == Head(Top.batch)
     IN  \/ /\ kind[c] = "foreign"
            /\ Fulfill(c, "rejected")
            /\ UNCHANGED <<state, ran, stack>>
         \/ /\ kind[c] # "foreign"
            /\ state[c] = "Pending"
            /\ state' = [state EXCEPT ![c] = "Running"]
            /\ ran' = [ran EXCEPT ![c] = TRUE]
            /\ stack' = Append(stack, [cmd |-> c, deferred |-> FALSE])
            /\ UNCHANGED answer
         \/ /\ kind[c] # "foreign"
            /\ state[c] # "Pending"
            /\ Fulfill(c, "command_cancelled")
            /\ UNCHANGED <<state, ran, stack>>
  /\ Continue([Top EXCEPT !.batch = Tail(@)])
  /\ UNCHANGED <<kind, claimed, promise, waiterVars, hookVars, stage, engineVars>>

\* A body that is answered in the frame that runs it: a synchronous command, a
\* refusal by a scheduler, a deferred capture, or anything that throws.
RunBody ==
  /\ InBody
  /\ LET c == Body.cmd
     IN  /\ Complete(c, "answered")
         /\ \/ UNCHANGED <<paused, wish>>        \* or the engine refuses to pause
            \/ /\ kind[c] \in {"pause", "resume"}
               /\ paused' = (kind[c] = "pause")
               /\ wish' = IF kind[c] = "pause" THEN "paused" ELSE "running"
  /\ stack' = Front(stack)
  /\ UNCHANGED <<kind, ran, claimed, promise, waiterVars, hookVars, frames, stage,
                 sampled>>

\* A scheduler accepts: its slot is free, a step finds the tree paused and an
\* exploration finds it running.
MayHold(k) ==
  /\ k \in Slots => held[k] = {}
  /\ k = "step" => paused
  /\ k = "explore" => ~paused

\* A body that goes on over frames.  Its caller is answered when it is over, or
\* now, with an id to ask after: a detached reimport or reload.
HoldBody ==
  /\ InBody
  /\ ~Body.deferred
  /\ LET c == Body.cmd
         k == kind[c]
     IN  /\ k \in Slots \union Lists
         /\ MayHold(k)
         /\ \/ UNCHANGED <<state, answer>>
            \/ k \in {"reimport", "scan"} /\ Complete(c, "answered")
         /\ held' = [held EXCEPT ![k] = @ \union {c}]
         /\ fresh' = IF k \in {"step", "profiler", "watch", "explore", "capture"}
                     THEN fresh \union {c} ELSE fresh
         /\ paused' = IF k = "step" THEN FALSE ELSE paused
  /\ stack' = Front(stack)
  /\ UNCHANGED <<kind, ran, claimed, promise, waiterVars, queue, pumping, ready, frames,
                 stage, wish, sampled>>

\* The frame processors still to run, and the first that finds something to look
\* at.
Todo == {n \in 1..Len(Top.todo) : held[Top.todo[n]] # {}}
Turn(n) == n \in Todo /\ \A i \in Todo : n <= i

\* The frame processor for k runs.
Processing(k) ==
  /\ InFrame
  /\ stage = "live"
  /\ Top.batch = <<>>
  /\ \E n \in Todo : Turn(n) /\ k = Top.todo[n]

Drop(k, c) == held' = [held EXCEPT ![k] = @ \ {c}]

\* Mutant: a step whose caller gave up is dropped, and the tree with it.
FinishStep_cancelled(c) ==
  /\ Drop("step", c)
  /\ Complete(c, "answered")
  /\ IF state[c] = "Cancelled" THEN UNCHANGED <<paused, wish>>
     ELSE paused' = TRUE /\ UNCHANGED wish

\* processRuntimeStepFrame: the last frame of a step pauses the tree again, or
\* reports that it could not.
FinishStep(c) ==
  /\ Drop("step", c)
  /\ \/ Complete(c, "answered") /\ paused' = TRUE /\ UNCHANGED wish
     \/ Complete(c, "answered") /\ wish' = "repause_failed" /\ UNCHANGED paused

\* processProfilerFrame: the last sample is taken, or one that fails ends the read.
FinishProfiler(c) ==
  /\ Drop("profiler", c)
  /\ \/ Complete(c, "answered") /\ sampled' = sampled \union {c}
     \/ /\ Complete(c, IF c \in sampled THEN "unknown_outcome" ELSE "not_started")
        /\ UNCHANGED sampled

\* The other processors; a detached command has been answered, and what it came to
\* is only kept.  A watch or an exploration may pause the tree as it ends.
FinishOther(k, c) ==
  /\ Drop(k, c)
  /\ \/ state[c] # "Completed" /\ Complete(c, "answered")
     \/ state[c] = "Completed" /\ UNCHANGED <<state, answer>>
  /\ \/ UNCHANGED <<paused, wish>>
     \/ k \in {"watch", "explore"} /\ paused' = TRUE /\ wish' = "paused"

\* A frame processor finds a held command of its kind finished.
FinishHeld(k) ==
  /\ Processing(k)
  /\ \E c \in held[k] \ fresh :
       \/ k = "step" /\ FinishStep(c) /\ UNCHANGED sampled
       \/ k = "profiler" /\ FinishProfiler(c) /\ UNCHANGED <<paused, wish>>
       \/ k \notin {"step", "profiler", "capture"} /\ FinishOther(k, c) /\ UNCHANGED sampled
  /\ UNCHANGED <<kind, ran, claimed, promise, waiterVars, queue, fresh, pumping, ready,
                 frames, stack, stage>>

\* processMainScreenCaptureFrame runs the capture the slot was holding.
TakeCapture(k) ==
  /\ Processing(k)
  /\ k = "capture"
  /\ \E c \in held[k] \ fresh :
       /\ Drop(k, c)
       /\ stack' = Append(stack, [cmd |-> c, deferred |-> TRUE])
  /\ UNCHANGED <<commandVars, waiterVars, queue, fresh, pumping, ready, frames, answer,
                 stage, engineVars>>

\* Nothing (more) to do for this kind in this frame; a profiler read that goes on
\* may have taken a sample.
NextProcessor(k) ==
  /\ Processing(k)
  /\ k = "capture" => held[k] \subseteq fresh
  /\ fresh' = fresh \ held[k]
  /\ \/ UNCHANGED sampled
     \/ k = "profiler" /\ sampled' = sampled \union (held[k] \ fresh)
  /\ \E n \in Todo : Turn(n) /\ Continue([Top EXCEPT !.todo = SubSeq(@, n + 1, Len(@))])
  /\ UNCHANGED <<commandVars, waiterVars, queue, held, pumping, ready, stack, answer,
                 stage, paused, wish>>

EndFrame ==
  /\ InFrame
  /\ Top.batch = <<>>
  /\ Todo = {}
  /\ frames' = Front(frames)
  /\ pumping' = IF Top.pumps THEN FALSE ELSE pumping
  /\ stage' = IF stage = "draining" THEN "drained" ELSE stage
  /\ UNCHANGED <<commandVars, waiterVars, queue, held, fresh, ready, stack, answer,
                 engineVars>>

-----------------------------------------------------------------------------
(* Shutdown: markMainLoopStopped, then cancelPendingCommands.              *)

Stop ==
  /\ Idle
  /\ stage = "live"
  /\ ready' = FALSE
  /\ stage' = "stopped"
  /\ UNCHANGED <<commandVars, waiterVars, queue, held, fresh, pumping, frames, stack,
                 answer, engineVars>>

\* The queue is swapped out under its lock.
Drain ==
  /\ Idle
  /\ stage = "stopped"
  /\ stage' = "draining"
  /\ queue' = <<>>
  /\ frames' = <<[batch |-> queue, todo |-> DrainOrder, depth |-> 0, pumps |-> FALSE]>>
  /\ UNCHANGED <<commandVars, waiterVars, held, fresh, pumping, ready, stack, answer,
                 engineVars>>

CancelQueued ==
  /\ InFrame
  /\ stage = "draining"
  /\ Top.batch # <<>>
  /\ LET c == Head(Top.batch)
     IN  \/ /\ state[c] = "Pending"
            /\ state' = [state EXCEPT ![c] = "Cancelled"]
            /\ Fulfill(c, "session_ended")
         \/ state[c] # "Pending" /\ UNCHANGED <<state, answer>>
  /\ Continue([Top EXCEPT !.batch = Tail(@)])
  /\ UNCHANGED <<kind, ran, claimed, promise, waiterVars, hookVars, stack, stage,
                 engineVars>>

\* What a running command is told of the end of the session.  A profiler read adds
\* that it never started if it has taken no sample; its body did run, and started
\* the frame timer that is stopped now.
Ended(k, c) == IF k = "profiler" /\ c \notin sampled THEN "not_started" ELSE "session_ended"

\* What waited over frames is told that the session ended; a scene that was saved
\* and a refresh that was made are answered as they stand, and a detached command
\* has been answered.
CancelHeld(k, c) ==
  /\ Drop(k, c)
  /\ \/ k \in {"scene", "refresh"} /\ Complete(c, "answered")
     \/ /\ k \notin {"scene", "refresh"}
        /\ state[c] = "Running"
        /\ state' = [state EXCEPT ![c] = "Cancelled"]
        /\ Fulfill(c, Ended(k, c))
     \/ /\ k \notin {"scene", "refresh"}
        /\ state[c] # "Running"
        /\ UNCHANGED <<state, answer>>

DrainHeld ==
  /\ InFrame
  /\ stage = "draining"
  /\ Top.batch = <<>>
  /\ \E n \in Todo : Turn(n) /\ \E c \in held[Top.todo[n]] : CancelHeld(Top.todo[n], c)
  /\ UNCHANGED <<kind, ran, claimed, promise, waiterVars, queue, fresh, pumping, ready,
                 frames, stack, stage, engineVars>>

Over ==
  /\ stage = "drained"
  /\ \A c \in Commands : waiter[c] = "returned"
  /\ UNCHANGED vars

Main ==
  \/ ProcessQueue \/ StartNext \/ RunBody \/ HoldBody \/ EndFrame
  \/ \E k \in Slots \union Lists : FinishHeld(k) \/ TakeCapture(k) \/ NextProcessor(k)
  \/ Stop \/ Drain \/ CancelQueued \/ DrainHeld

Next ==
  \/ \E c \in Commands : Post(c) \/ Await(c)
  \/ TryClaimResponse \/ Publish
  \/ Main
  \/ Over

\* A waiter's own steps are taken, its deadline passes, and an answer that was
\* claimed is published.  Nothing else is assumed of the main thread, which may
\* hang inside the engine for ever.
Fairness ==
  /\ \A c \in Commands : WF_vars(Await(c))
  /\ WF_vars(Publish)

Spec == Init /\ [][Next]_vars
FairSpec == Spec /\ Fairness

-----------------------------------------------------------------------------
(* Properties.                                                             *)

\* Every variable has its type; a slot holds one command at most.
TypeOK ==
  /\ kind \in [Commands -> AllKinds]
  /\ state \in [Commands -> {"unposted", "Pending", "Running", "Completed", "Cancelled"}]
  /\ ran \in [Commands -> BOOLEAN]
  /\ claimed \in [Commands -> BOOLEAN]
  /\ promise \in [Commands -> Outcomes \union {"none"}]
  /\ waiter \in [Commands -> {"idle", "waiting", "getting", "expired", "cancelled",
                              "started", "unresolved", "last_wait", "returned"}]
  /\ told \in [Commands -> Outcomes \union {"none"}]
  /\ queue \in Seq(Commands)
  /\ held \in [Slots \union Lists -> SUBSET Commands]
  /\ \A k \in Slots : \A c, d \in held[k] : c = d
  /\ fresh \subseteq Commands
  /\ pumping \in BOOLEAN
  /\ ready \in BOOLEAN
  /\ frames \in Seq(Frame)
  /\ stack \in Seq([cmd : Commands, deferred : BOOLEAN])
  /\ answer \in [cmd : Commands \union {NoCommand}, outcome : Outcomes \union {"none"},
                 mine : BOOLEAN]
  /\ stage \in {"live", "stopped", "draining", "drained"}
  /\ paused \in BOOLEAN
  /\ wish \in {"paused", "running", "repause_failed"}
  /\ sampled \subseteq Commands

\* A caller that was told its command never ran can send it again: it did not run,
\* and will not, however its deadline, the frame that dequeued it and a shutdown
\* interleaved (docs/ARCHITECTURE.md: "A still-pending command is atomically
\* cancelled and returns 504 with outcome: not_started").  The one exception is
\* not_started of a profiler read, whose body may have run: the hook says it of a
\* read that has taken no sample, and takes none afterwards.
NotStartedIsTrue ==
  \A c \in Commands :
    told[c] \in {"not_started", "command_cancelled", "not_ready", "rejected"} =>
      \/ ~ran[c]
      \/ told[c] = "not_started" /\ kind[c] = "profiler" /\ c \notin sampled

\* A promise is fulfilled once, though the waiter and the main thread both try:
\* a second set_value would throw on the engine's main thread (tryClaimResponse).
PublishedOnce ==
  [][\A c \in Commands : promise[c] # "none" => promise'[c] = promise[c]]_vars

\* No command is started while the engine is inside another one's body, though the
\* engine re-enters the frame callback from there (processQueue: "dequeuing there
\* would run unrelated scene and runtime commands against a tree that is
\* mid-reimport").
StartedAlone ==
  [][\A c \in Commands : ~ran[c] /\ ran'[c] => stack = <<>>]_vars

\* Commands start in the order they were posted: what waits for the editor to
\* settle is waited for by all behind it (processQueue: "nothing overtakes them").
StartedInOrder ==
  [][\A c, d \in Commands :
       ~ran[c] /\ ran'[c] /\ d < c /\ state[d] = "Pending" => kind[d] = "foreign"]_vars

\* A game left paused does not run on by itself: outside a frame step the tree is
\* paused unless a resume was the last word or a failed re-pause was reported.  A
\* step whose caller timed out is no exception (scheduleRuntimeStep,
\* processRuntimeStepFrame).
GameRunsOnlyIfAsked ==
  stage = "live" /\ ~paused /\ held["step"] = {} => wish # "paused"

\* When the shutdown has drained the hook, no caller is left waiting for its
\* deadline with an answer nobody will give, however its post raced the stop.
\* Said of every command but captures and coroutine calls.
NobodyLeftWaiting ==
  stage = "drained" =>
    \A c \in Commands :
      waiter[c] = "waiting" /\ kind[c] \notin {"capture", "script"} => promise[c] # "none"

\* The same of every command: what the comment in cancelPendingCommands asks of
\* work that lives across frames.
NobodyLeftWaitingAtAll ==
  stage = "drained" =>
    \A c \in Commands : waiter[c] = "waiting" => promise[c] # "none"

\* Every caller returns, even if the main thread hangs in the engine for ever
\* (docs/ARCHITECTURE.md: "No live path waits forever for a definitive response").
EveryCallerReturns ==
  \A c \in Commands : waiter[c] # "idle" ~> waiter[c] = "returned"
=============================================================================
