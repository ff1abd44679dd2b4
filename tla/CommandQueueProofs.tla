------------------------- MODULE CommandQueueProofs -------------------------
(***************************************************************************)
(* Proofs about CommandQueue, for any number of commands, any mix of kinds, *)
(* any batch size and any nesting of frame callbacks.                       *)
(*                                                                         *)
(* The argument is that a command is in one place at a time.  It waits in   *)
(* line (the queue, or the batch of the outermost frame, the only one that  *)
(* ever takes any), then it is a body on the main thread or held in a slot, *)
(* then it is being answered.  What is in line has not run; what was        *)
(* answered "not started" has left the line for good; whoever still waits   *)
(* is in one of those places, and shutdown empties them.                    *)
(***************************************************************************)
EXTENDS CommandQueue, SequenceTheorems, WellFoundedInduction, TLAPS

-----------------------------------------------------------------------------
(* The inductive invariant.                                                *)

\* The commands the outermost frame has dequeued, and all that are in line.
Batch == IF frames = <<>> THEN <<>> ELSE frames[1].batch
In(c, s) == \E i \in 1..Len(s) : s[i] = c
InLine(c) == In(c, Batch) \/ In(c, queue)

\* The command is a body on the main thread, or waits over frames.
OnStack(c) == \E i \in 1..Len(stack) : stack[i].cmd = c
IsHeld(c) == \E k \in Slots \union Lists : c \in held[k]

Increasing(s) == \A i, j \in 1..Len(s) : i < j => s[i] < s[j]

\* Commands are in line in the order they were posted.
OrderInv ==
  /\ Increasing(queue)
  /\ Increasing(Batch)
  /\ \A i \in 1..Len(Batch), j \in 1..Len(queue) : Batch[i] < queue[j]

\* What is in line has not run, and what has not run is in line.
LineInv ==
  /\ OrderInv
  /\ \A c \in Commands : InLine(c) =>
       /\ ~ran[c]
       /\ state[c] \in {"Pending", "Cancelled"}
       /\ state[c] = "Cancelled" => waiter[c] # "waiting"
  /\ \A c \in Commands : state[c] = "Pending" => ~ran[c]
  /\ \A c \in Commands : state[c] = "Pending" /\ kind[c] # "foreign" => InLine(c)

\* Commands are posted one after the other, and nothing has happened to the rest.
PostInv ==
  \A c \in Commands :
    /\ state[c] = "unposted" =>
         /\ ~ran[c] /\ ~claimed[c] /\ promise[c] = "none" /\ told[c] = "none"
         /\ waiter[c] = "idle"
         /\ \A d \in Commands : c < d => state[d] = "unposted"

\* A command that has started is in one place, and in the right one.
PlaceInv ==
  /\ \A i, j \in 1..Len(stack) : i # j => stack[i].cmd # stack[j].cmd
  /\ \A c \in Commands : ~(OnStack(c) /\ IsHeld(c))
  /\ \A k \in Slots \union Lists : \A c \in held[k] : kind[c] = k

\* What runs or waits over frames has started; a detached command is completed.
RunInv ==
  /\ PlaceInv
  /\ \A c \in Commands : OnStack(c) \/ IsHeld(c) =>
       /\ ran[c]
       /\ state[c] \in {"Running", "Cancelled", "Completed"}
       /\ state[c] = "Cancelled" => waiter[c] # "waiting"

\* Only the outermost frame has commands to start, and it is outside every body.
FrameInv ==
  /\ frames = <<>> => stack = <<>>
  /\ frames # <<>> => frames[1].depth = 0
  /\ \A i \in 2..Len(frames) : frames[i].batch = <<>>

\* A promise goes from claimed to published, by the one who claimed it.
ClaimInv ==
  /\ \A c \in Commands :
       /\ promise[c] # "none" => claimed[c]
       /\ claimed[c] /\ promise[c] = "none" => answer.mine /\ answer.cmd = c
  /\ answer.mine =>
       answer.cmd \in Commands /\ claimed[answer.cmd] /\ promise[answer.cmd] = "none"
  /\ answer # NoAnswer =>
       /\ answer.cmd \in Commands /\ state[answer.cmd] # "unposted"
       /\ answer.outcome # "none"

\* A profiler read that is over and has no sample.
Unsampled(c) ==
  /\ kind[c] = "profiler"
  /\ c \notin sampled
  /\ ~OnStack(c) /\ ~IsHeld(c)
  /\ state[c] \in {"Cancelled", "Completed"}

\* A command that may be said to have come to o: one that has not run and cannot
\* any more, or a read without a sample.
Settled(c, o) ==
  /\ state[c] # "unposted"
  /\ \/ ~ran[c] /\ (kind[c] = "foreign" \/ state[c] \in {"Cancelled", "Completed"})
     \/ o = "not_started" /\ Unsampled(c)

DidNotRun == {"not_started", "command_cancelled", "not_ready", "rejected"}

\* The caller of c is, was or will be told o.
Says(c, o) ==
  \/ promise[c] = o
  \/ told[c] = o
  \/ waiter[c] = "cancelled" /\ o = "not_started"

SettledInv ==
  \A o \in DidNotRun :
    /\ \A c \in Commands : Says(c, o) => Settled(c, o)
    /\ answer.outcome = o => Settled(answer.cmd, o)

\* Whoever waits for an answer is somewhere the main thread looks.
AccountInv ==
  \A c \in Commands : waiter[c] = "waiting" /\ promise[c] = "none" =>
    \/ InLine(c)
    \/ (OnStack(c) \/ IsHeld(c)) /\ state[c] # "Completed"
    \/ answer.cmd = c

\* How far the shutdown has got.
StageInv ==
  /\ ready <=> stage = "live"
  /\ stage \in {"stopped", "drained"} => frames = <<>> /\ answer = NoAnswer
  /\ stage \in {"draining", "drained"} => queue = <<>>
  /\ stage = "draining" => Len(frames) = 1 /\ frames[1].todo = DrainOrder /\ stack = <<>>
  /\ stage = "drained" => \A k \in (Slots \union Lists) \ {"capture", "script"} : held[k] = {}

IndInv ==
  /\ TypeOK
  /\ LineInv
  /\ PostInv
  /\ RunInv
  /\ FrameInv
  /\ ClaimInv
  /\ SettledInv
  /\ AccountInv
  /\ StageInv
  /\ GameRunsOnlyIfAsked

-----------------------------------------------------------------------------
(* Sequences.                                                              *)

\* The ends of a sequence that is not empty.
LEMMA LastFacts ==
  ASSUME NEW S, NEW s \in Seq(S), s # <<>>
  PROVE  /\ Len(s) \in Nat \ {0}
         /\ Last(s) = s[Len(s)]
         /\ Last(s) \in S
         /\ Front(s) \in Seq(S)
         /\ Len(Front(s)) = Len(s) - 1
         /\ \A i \in 1..(Len(s) - 1) : Front(s)[i] = s[i]
<1>1. Len(s) \in Nat \ {0}
  BY EmptySeq, LenProperties
<1>2. s[Len(s)] \in S
  BY <1>1, ElementOfSeq
<1>3. /\ Front(s) \in Seq(S)
      /\ Len(Front(s)) = Len(s) - 1
      /\ \A i \in 1..(Len(s) - 1) : Front(s)[i] = s[i]
  <2>1. \A i \in 1..(Len(s) - 1) : s[i] \in S
    BY <1>1, ElementOfSeq
  <2>2. /\ SubSeq(s, 1, Len(s) - 1) \in Seq(S)
        /\ Len(SubSeq(s, 1, Len(s) - 1)) =
             IF 1 <= Len(s) - 1 THEN (Len(s) - 1) - 1 + 1 ELSE 0
        /\ \A i \in 1..((Len(s) - 1) - 1 + 1) : SubSeq(s, 1, Len(s) - 1)[i] = s[1 + i - 1]
    <3>1. 1 \in Int /\ Len(s) - 1 \in Int
      BY <1>1
    <3> QED
      BY <2>1, <3>1, SubSeqProperties
  <2>3. (Len(s) - 1) - 1 + 1 = Len(s) - 1 /\ \A i \in 1..(Len(s) - 1) : 1 + i - 1 = i
    BY <1>1
  <2> QED
    BY <1>1, <2>2, <2>3 DEF Front
<1> QED
  BY <1>1, <1>2, <1>3 DEF Last

\* One more at the end.
LEMMA AppendFacts ==
  ASSUME NEW S, NEW s \in Seq(S), NEW e \in S
  PROVE  /\ Append(s, e) \in Seq(S)
         /\ Append(s, e) # <<>>
         /\ Len(s) \in Nat
         /\ Len(Append(s, e)) = Len(s) + 1
         /\ \A i \in 1..Len(s) : Append(s, e)[i] = s[i]
         /\ Append(s, e)[Len(s) + 1] = e
  BY AppendProperties, LenProperties

\* The last element is replaced.
LEMMA ReplaceLast ==
  ASSUME NEW S, NEW s \in Seq(S), s # <<>>, NEW e \in S
  PROVE  LET t == Append(Front(s), e)
         IN  /\ t \in Seq(S)
             /\ t # <<>>
             /\ Len(t) = Len(s)
             /\ t[Len(s)] = e
             /\ \A i \in 1..(Len(s) - 1) : t[i] = s[i]
<1>1. /\ Len(s) \in Nat \ {0}
      /\ Front(s) \in Seq(S)
      /\ Len(Front(s)) = Len(s) - 1
      /\ \A i \in 1..(Len(s) - 1) : Front(s)[i] = s[i]
  BY LastFacts
<1>2. /\ Append(Front(s), e) \in Seq(S)
      /\ Append(Front(s), e) # <<>>
      /\ Len(Append(Front(s), e)) = (Len(s) - 1) + 1
      /\ \A i \in 1..(Len(s) - 1) : Append(Front(s), e)[i] = Front(s)[i]
      /\ Append(Front(s), e)[(Len(s) - 1) + 1] = e
  BY <1>1, AppendFacts
<1>3. (Len(s) - 1) + 1 = Len(s)
  BY <1>1
<1> QED
  BY <1>1, <1>2, <1>3

\* The first element leaves an increasing line.
LEMMA TailFacts ==
  ASSUME NEW s \in Seq(Commands), s # <<>>, Increasing(s)
  PROVE  /\ Head(s) \in Commands
         /\ Head(s) = s[1]
         /\ Tail(s) \in Seq(Commands)
         /\ Increasing(Tail(s))
         /\ \A c : In(c, s) <=> c = Head(s) \/ In(c, Tail(s))
         /\ ~In(Head(s), Tail(s))
         /\ \A c \in Commands : In(c, Tail(s)) => Head(s) < c
<1>1. /\ Len(s) \in Nat \ {0}
      /\ Head(s) = s[1]
      /\ Head(s) \in Commands
      /\ Tail(s) \in Seq(Commands)
      /\ Len(Tail(s)) = Len(s) - 1
      /\ \A i \in 1..(Len(s) - 1) : Tail(s)[i] = s[i + 1]
  BY EmptySeq, LenProperties, HeadTailProperties, ElementOfSeq
<1>2. Increasing(Tail(s))
  BY <1>1 DEF Increasing
<1>3. \A c : In(c, s) <=> c = Head(s) \/ In(c, Tail(s))
  <2> TAKE c
  <2>1. ASSUME In(c, s) PROVE c = Head(s) \/ In(c, Tail(s))
    <3>1. PICK i \in 1..Len(s) : s[i] = c
      BY <2>1 DEF In
    <3>2. CASE i = 1
      BY <3>1, <3>2, <1>1
    <3>3. CASE i # 1
      <4>1. i - 1 \in 1..(Len(s) - 1) /\ (i - 1) + 1 = i
        BY <3>3, <1>1
      <4> QED
        BY <4>1, <3>1, <1>1 DEF In
    <3> QED
      BY <3>2, <3>3
  <2>2. ASSUME c = Head(s) PROVE In(c, s)
    <3>1. 1 \in 1..Len(s)
      BY <1>1
    <3> QED
      BY <2>2, <3>1, <1>1 DEF In
  <2>3. ASSUME In(c, Tail(s)) PROVE In(c, s)
    <3>1. PICK i \in 1..(Len(s) - 1) : s[i + 1] = c
      BY <2>3, <1>1 DEF In
    <3>2. i + 1 \in 1..Len(s)
      BY <1>1
    <3> QED
      BY <3>1, <3>2 DEF In
  <2> QED
    BY <2>1, <2>2, <2>3
<1>4. \A c \in Commands : In(c, Tail(s)) => Head(s) < c
  <2> SUFFICES ASSUME NEW c \in Commands, In(c, Tail(s)) PROVE Head(s) < c
    OBVIOUS
  <2>1. PICK i \in 1..(Len(s) - 1) : s[i + 1] = c
    BY <1>1 DEF In
  <2>2. 1 \in 1..Len(s) /\ i + 1 \in 1..Len(s) /\ 1 < i + 1
    BY <1>1
  <2> QED
    BY <2>1, <2>2, <1>1 DEF Increasing
<1>5. ~In(Head(s), Tail(s))
  BY <1>1, <1>4 DEF Commands
<1> QED
  BY <1>1, <1>2, <1>3, <1>4, <1>5

\* A line is split after its first m.
LEMMA SplitFacts ==
  ASSUME NEW q \in Seq(Commands), Increasing(q), NEW m \in 0..Len(q)
  PROVE  LET b == SubSeq(q, 1, m)
             r == SubSeq(q, m + 1, Len(q))
         IN  /\ b \in Seq(Commands) /\ Len(b) = m
             /\ r \in Seq(Commands)
             /\ Increasing(b) /\ Increasing(r)
             /\ \A i \in 1..Len(b), j \in 1..Len(r) : b[i] < r[j]
             /\ \A c : In(c, q) <=> In(c, b) \/ In(c, r)
<1> DEFINE b == SubSeq(q, 1, m)
           r == SubSeq(q, m + 1, Len(q))
<1>1. Len(q) \in Nat /\ \A i \in 1..Len(q) : q[i] \in Commands
  BY LenProperties, ElementOfSeq
<1>2. b \in Seq(Commands) /\ Len(b) = m /\ \A i \in 1..m : b[i] = q[i]
  <2>1. 1 \in Int /\ m \in Int /\ \A i \in 1..m : q[i] \in Commands
    BY <1>1
  <2>2. /\ b \in Seq(Commands)
        /\ Len(b) = IF 1 <= m THEN m - 1 + 1 ELSE 0
        /\ \A i \in 1..(m - 1 + 1) : b[i] = q[1 + i - 1]
    BY <2>1, SubSeqProperties
  <2>3. m - 1 + 1 = m /\ \A i \in 1..m : 1 + i - 1 = i
    BY <2>1
  <2>4. (IF 1 <= m THEN m ELSE 0) = m
    BY <1>1
  <2> HIDE DEF b
  <2> QED
    BY <2>2, <2>3, <2>4
<1>3. /\ r \in Seq(Commands)
      /\ Len(r) = Len(q) - m
      /\ \A i \in 1..(Len(q) - m) : r[i] = q[m + i]
  <2>1. m + 1 \in Int /\ Len(q) \in Int /\ \A i \in (m + 1)..Len(q) : q[i] \in Commands
    BY <1>1
  <2>2. /\ r \in Seq(Commands)
        /\ Len(r) = IF m + 1 <= Len(q) THEN Len(q) - (m + 1) + 1 ELSE 0
        /\ \A i \in 1..(Len(q) - (m + 1) + 1) : r[i] = q[(m + 1) + i - 1]
    BY <2>1, SubSeqProperties
  <2>3. /\ Len(q) - (m + 1) + 1 = Len(q) - m
        /\ \A i \in 1..(Len(q) - m) : (m + 1) + i - 1 = m + i
    BY <1>1
  <2>4. (IF m + 1 <= Len(q) THEN Len(q) - m ELSE 0) = Len(q) - m
    BY <1>1
  <2> HIDE DEF r
  <2> QED
    BY <2>2, <2>3, <2>4
<1> HIDE DEF b, r
<1>4. Increasing(b)
  <2>1. \A i \in 1..m : i \in 1..Len(q)
    BY <1>1
  <2> QED
    BY <1>2, <2>1 DEF Increasing
<1>5. \A i \in 1..Len(r) : i \in Nat /\ m + i \in 1..Len(q)
  BY <1>1, <1>3
<1>6. Increasing(r)
  <2> SUFFICES ASSUME NEW i \in 1..Len(r), NEW j \in 1..Len(r), i < j
               PROVE  r[i] < r[j]
    BY DEF Increasing
  <2>1. m + i \in 1..Len(q) /\ m + j \in 1..Len(q) /\ m + i < m + j
    BY <1>5
  <2> QED
    BY <1>3, <2>1 DEF Increasing
<1>7. \A i \in 1..Len(b), j \in 1..Len(r) : b[i] < r[j]
  <2> TAKE i \in 1..Len(b), j \in 1..Len(r)
  <2>1. i \in 1..Len(q) /\ i \in 1..m /\ m + j \in 1..Len(q) /\ i < m + j
    BY <1>1, <1>2, <1>5
  <2> QED
    BY <1>2, <1>3, <2>1 DEF Increasing
<1>8. \A c : In(c, q) <=> In(c, b) \/ In(c, r)
  <2> TAKE c
  <2>1. ASSUME In(c, q) PROVE In(c, b) \/ In(c, r)
    <3>1. PICK i \in 1..Len(q) : q[i] = c
      BY <2>1 DEF In
    <3>2. CASE i \in 1..m
      BY <3>1, <3>2, <1>2 DEF In
    <3>3. CASE i \notin 1..m
      <4>1. i - m \in 1..(Len(q) - m) /\ m + (i - m) = i
        BY <3>3, <1>1
      <4> QED
        BY <4>1, <3>1, <1>3 DEF In
    <3> QED
      BY <3>2, <3>3
  <2>2. ASSUME In(c, b) PROVE In(c, q)
    <3>1. PICK i \in 1..m : q[i] = c
      BY <2>2, <1>2 DEF In
    <3>2. i \in 1..Len(q)
      BY <1>1
    <3> QED
      BY <3>1, <3>2 DEF In
  <2>3. ASSUME In(c, r) PROVE In(c, q)
    <3>1. PICK i \in 1..Len(r) : q[m + i] = c
      BY <2>3, <1>3 DEF In
    <3> QED
      BY <3>1, <1>5 DEF In
  <2> QED
    BY <2>1, <2>2, <2>3
<1> QED
  BY <1>2, <1>3, <1>4, <1>6, <1>7, <1>8 DEF b, r

\* What a frame takes is a first part of the queue.
LEMMA DequeuedFacts ==
  ASSUME TypeOK, NEW settling \in BOOLEAN
  PROVE  \E m \in 0..Len(queue) : Dequeued(settling) = SubSeq(queue, 1, m)
<1> DEFINE Takes(n) == n <= MaxBatch /\ \A i \in 1..n : ~Waits(queue[i], settling)
           T == {n \in 0..Len(queue) : Takes(n)}
           U == {k \in Nat : \E n \in T : k = Len(queue) - n}
<1>1. Len(queue) \in Nat
  BY LenProperties DEF TypeOK
<1>2. 0 \in T
  <2>1. Takes(0)
    BY CommandQueueAssumption
  <2> QED
    BY <1>1, <2>1
<1>3. U # {} /\ U \subseteq Nat
  <2>1. Len(queue) - 0 \in Nat
    BY <1>1
  <2> QED
    BY <1>2, <2>1
<1>4. PICK x \in U : \A y \in U : ~(<<y, x>> \in OpToRel(<, Nat))
  BY <1>3, WFMin, NatLessThanWellFounded
<1>5. \A y \in U : ~(y < x)
  BY <1>4 DEF OpToRel
<1>6. PICK m \in T : x = Len(queue) - m
  OBVIOUS
<1>7. \A y \in T : m >= y
  <2> SUFFICES ASSUME NEW y \in T PROVE m >= y
    OBVIOUS
  <2>1. Len(queue) - y \in U
    BY <1>1
  <2>2. ~(Len(queue) - y < Len(queue) - m)
    BY <2>1, <1>5, <1>6
  <2> QED
    BY <2>2, <1>1
<1>8. Max(T) \in T
  <2>1. \E z \in T : \A y \in T : z >= y
    BY <1>7
  <2> HIDE DEF T
  <2> QED
    BY <2>1 DEF Max
<1>9. Dequeued(settling) = SubSeq(queue, 1, Max(T))
  BY DEF Dequeued
<1> QED
  BY <1>8, <1>9

-----------------------------------------------------------------------------
(* The waiting side.                                                       *)

\* What lines and slots hold is a matter of four variables.
LEMMA PlacesKept ==
  ASSUME UNCHANGED <<queue, frames, stack, held>>
  PROVE  /\ Batch' = Batch
         /\ \A c : InLine(c)' <=> InLine(c)
         /\ \A c : OnStack(c)' <=> OnStack(c)
         /\ \A c : IsHeld(c)' <=> IsHeld(c)
  BY DEF Batch, InLine, In, OnStack, IsHeld

\* What may be said of a command may be said of it later: neither is it started,
\* nor is a read that is over sampled.
LEMMA SettledKept ==
  ASSUME NEW c \in Commands, NEW o, Settled(c, o),
         kind'[c] = kind[c], ran'[c] = ran[c],
         (OnStack(c) \/ IsHeld(c))' => OnStack(c) \/ IsHeld(c),
         c \in sampled' => c \in sampled \/ OnStack(c) \/ IsHeld(c),
         state'[c] = state[c] \/ state'[c] \in {"Cancelled", "Completed"}
  PROVE  Settled(c, o)'
  BY DEF Settled, Unsampled

\* A step of the thread that waits for c, when it is not just waiting any more
\* after it: the others' commands are left alone, c can only become cancelled, the
\* response can only be claimed together with publishing it, and an answer that
\* says "did not run" is given to a command that is settled.
WaiterStep(c) ==
  /\ UNCHANGED <<kind, ran, hookVars, mainVars, engineVars>>
  /\ \A d \in Commands \ {c} :
       /\ state'[d] = state[d] /\ claimed'[d] = claimed[d] /\ promise'[d] = promise[d]
       /\ waiter'[d] = waiter[d] /\ told'[d] = told[d]
  /\ waiter[c] # "idle" /\ waiter'[c] \notin {"idle", "waiting"}
  /\ \/ state'[c] = state[c]
     \/ state[c] \in {"Pending", "Running"} /\ state'[c] = "Cancelled"
  /\ \/ claimed'[c] = claimed[c] /\ promise'[c] = promise[c]
     \/ ~claimed[c] /\ claimed'[c] /\ promise'[c] # "none"
  /\ \A o \in DidNotRun : Says(c, o)' => Settled(c, o)'

\* A step of a caller that says no more than it knows keeps the invariant.
LEMMA WaiterStepKeeps ==
  ASSUME IndInv, NEW c \in Commands, WaiterStep(c), TypeOK'
  PROVE  IndInv'
<1> USE DEF IndInv
<1>1. UNCHANGED <<kind, ran, queue, held, fresh, pumping, ready, frames, stack, answer, stage,
                  paused, wish, sampled>>
  BY DEF WaiterStep, hookVars, mainVars, engineVars
<1>2. /\ Batch' = Batch
      /\ \A d : InLine(d)' <=> InLine(d)
      /\ \A d : OnStack(d)' <=> OnStack(d)
      /\ \A d : IsHeld(d)' <=> IsHeld(d)
  BY <1>1, PlacesKept
<1>3. state[c] # "unposted" /\ state'[c] # "unposted"
  BY DEF WaiterStep, PostInv
<1>4. \A d \in Commands :
        /\ waiter'[d] = "waiting" => d # c /\ waiter[d] = "waiting" /\ state'[d] = state[d]
        /\ state'[d] = "unposted" <=> state[d] = "unposted"
        /\ state'[d] = "Pending" => state[d] = "Pending"
        /\ state[d] = "Cancelled" => state'[d] = "Cancelled"
        /\ state[d] = "Completed" => state'[d] = "Completed"
        /\ state[d] \in {"Pending", "Cancelled"} => state'[d] \in {"Pending", "Cancelled"}
        /\ state[d] \in {"Running", "Cancelled", "Completed"} =>
             state'[d] \in {"Running", "Cancelled", "Completed"}
        /\ state'[d] = state[d] \/ state'[d] = "Cancelled"
  BY <1>3 DEF WaiterStep
<1>5. LineInv'
  <2>1. Increasing(queue)' /\ Increasing(Batch)'
    BY <1>1, <1>2 DEF LineInv, OrderInv, Increasing
  <2>2. (\A i \in 1..Len(Batch), j \in 1..Len(queue) : Batch[i] < queue[j])'
    BY <1>1, <1>2 DEF LineInv, OrderInv
  <2>3. \A d \in Commands : InLine(d)' =>
          /\ ~ran'[d]
          /\ state'[d] \in {"Pending", "Cancelled"}
          /\ state'[d] = "Cancelled" => waiter'[d] # "waiting"
    BY <1>1, <1>2, <1>4 DEF LineInv, OrderInv
  <2>4. \A d \in Commands : state'[d] = "Pending" /\ kind'[d] # "foreign" => InLine(d)'
    BY <1>1, <1>2, <1>4 DEF LineInv, OrderInv
  <2>5. \A d \in Commands : state'[d] = "Pending" => ~ran'[d]
    BY <1>1, <1>4 DEF LineInv, OrderInv
  <2> QED
    BY <2>1, <2>2, <2>3, <2>4, <2>5 DEF LineInv, OrderInv
<1>6. PostInv'
  <2> SUFFICES ASSUME NEW d \in Commands, state'[d] = "unposted"
               PROVE  /\ ~ran'[d] /\ ~claimed'[d] /\ promise'[d] = "none"
                      /\ told'[d] = "none" /\ waiter'[d] = "idle"
                      /\ \A e \in Commands : d < e => state'[e] = "unposted"
    BY DEF PostInv
  <2>1. d # c /\ state[d] = "unposted"
    BY <1>3, <1>4
  <2> QED
    BY <2>1, <1>1, <1>4 DEF PostInv, WaiterStep
<1>7. RunInv'
  <2>1. \A d \in Commands : (OnStack(d) \/ IsHeld(d))' =>
          /\ ran'[d]
          /\ state'[d] \in {"Running", "Cancelled", "Completed"}
          /\ state'[d] = "Cancelled" => waiter'[d] # "waiting"
    BY <1>1, <1>2, <1>4 DEF RunInv, PlaceInv
  <2> QED
    BY <1>1, <1>2, <2>1 DEF RunInv, PlaceInv
<1>8. FrameInv'
  BY <1>1 DEF FrameInv
<1>9. ClaimInv'
  <2>1. \A d \in Commands : promise'[d] # "none" => claimed'[d]
    BY DEF ClaimInv, WaiterStep
  <2>2. \A d \in Commands : claimed'[d] /\ promise'[d] = "none" => answer.mine /\ answer.cmd = d
    BY DEF ClaimInv, WaiterStep
  <2>3. answer.mine =>
          answer.cmd \in Commands /\ claimed'[answer.cmd] /\ promise'[answer.cmd] = "none"
    BY DEF ClaimInv, WaiterStep
  <2>4. answer # NoAnswer =>
          /\ answer.cmd \in Commands /\ state'[answer.cmd] # "unposted"
          /\ answer.outcome # "none"
    BY <1>4 DEF ClaimInv
  <2> QED
    BY <1>1, <2>1, <2>2, <2>3, <2>4 DEF ClaimInv
<1>10. SettledInv'
  <2> SUFFICES ASSUME NEW o \in DidNotRun
               PROVE  /\ \A d \in Commands : Says(d, o)' => Settled(d, o)'
                      /\ answer'.outcome = o => Settled(answer.cmd, o)'
    BY DEF SettledInv, DidNotRun
  <2>1. \A d \in Commands : Settled(d, o) => Settled(d, o)'
    BY <1>1, <1>2, <1>4, SettledKept
  <2>2. ASSUME NEW d \in Commands \ {c}, Says(d, o)' PROVE Settled(d, o)'
    <3>1. Says(d, o)
      BY <2>2 DEF Says, WaiterStep
    <3> QED
      BY <2>1, <3>1 DEF SettledInv
  <2>3. Says(c, o)' => Settled(c, o)'
    BY DEF WaiterStep
  <2>4. answer.outcome = o => Settled(answer.cmd, o)'
    <3>1. answer.outcome = o => answer # NoAnswer
      BY DEF NoAnswer, DidNotRun
    <3>2. ASSUME answer.outcome = o PROVE \E d \in Commands : d = answer.cmd /\ Settled(d, o)'
      BY <2>1, <3>1, <3>2 DEF SettledInv, ClaimInv
    <3> QED
      BY <1>1, <3>2
  <2> QED
    BY <1>1, <2>2, <2>3, <2>4
<1>11. AccountInv'
  <2>1. \A d \in Commands : waiter'[d] = "waiting" /\ promise'[d] = "none" =>
          waiter[d] = "waiting" /\ promise[d] = "none" /\ state'[d] = state[d]
    BY <1>4 DEF WaiterStep
  <2> QED
    BY <2>1, <1>1, <1>2 DEF AccountInv
<1>12. StageInv'
  BY <1>1 DEF StageInv
<1>13. GameRunsOnlyIfAsked'
  BY <1>1 DEF GameRunsOnlyIfAsked
<1> QED
  BY <1>5, <1>6, <1>7, <1>8, <1>9, <1>10, <1>11, <1>12, <1>13

\* Every step of awaitRuntimeCommand keeps the invariant.
LEMMA AwaitKeeps ==
  ASSUME IndInv, NEW c \in Commands, Await(c)
  PROVE  IndInv'
<1> USE DEF IndInv
<1>1. UNCHANGED <<kind, ran, hookVars, mainVars, engineVars>>
  BY DEF Await, GetAnswer, DeadlinePasses, TryCancelPending, AnswerNotStarted,
         TryCancelRunning, AnswerUnknown, LastWait, commandVars
<1>2. SUFFICES ASSUME TypeOK PROVE TypeOK' /\ WaiterStep(c)
  BY WaiterStepKeeps
<1>3. waiter[c] # "idle" => state[c] # "unposted"
  BY DEF PostInv
<1>k. ASSUME NEW o \in DidNotRun, state'[c] = state[c] \/ state'[c] = "Cancelled", Says(c, o)
      PROVE  Settled(c, o)'
  <2>1. UNCHANGED <<kind, ran, queue, frames, stack, held, sampled>>
    BY <1>1 DEF hookVars, mainVars, engineVars
  <2>2. Settled(c, o)
    BY <1>k DEF SettledInv
  <2> QED
    BY <1>k, <2>1, <2>2, PlacesKept, SettledKept
<1>4. CASE GetAnswer(c)
  <2>1. /\ waiter' = [waiter EXCEPT ![c] = "returned"]
        /\ told' = [told EXCEPT ![c] = promise[c]]
        /\ UNCHANGED <<state, claimed, promise>>
        /\ waiter[c] # "idle"
    BY <1>4 DEF GetAnswer, Return, commandVars
  <2>2. TypeOK'
    BY <1>1, <2>1 DEF TypeOK, hookVars, mainVars, engineVars
  <2>3. \A o \in DidNotRun : Says(c, o)' => Settled(c, o)'
    <3> TAKE o \in DidNotRun
    <3>1. Says(c, o)' => promise[c] = o
      BY <2>1 DEF Says, TypeOK
    <3> QED
      BY <1>k, <2>1, <3>1 DEF Says
  <2> QED
    BY <1>1, <2>1, <2>2, <2>3 DEF WaiterStep, TypeOK
<1>5. CASE DeadlinePasses(c)
  <2>1. /\ waiter' = [waiter EXCEPT ![c] = "expired"]
        /\ UNCHANGED <<state, claimed, promise, told>>
        /\ waiter[c] # "idle"
    BY <1>5 DEF DeadlinePasses, Goto, commandVars
  <2>2. TypeOK'
    BY <1>1, <2>1 DEF TypeOK, hookVars, mainVars, engineVars
  <2>3. \A o \in DidNotRun : Says(c, o)' => Settled(c, o)'
    <3> TAKE o \in DidNotRun
    <3>1. Says(c, o)' => promise[c] = o \/ told[c] = o
      BY <2>1 DEF Says, TypeOK
    <3> QED
      BY <1>k, <2>1, <3>1 DEF Says
  <2> QED
    BY <1>1, <2>1, <2>2, <2>3 DEF WaiterStep, TypeOK
<1>6. CASE TryCancelPending(c)
  <2>1. UNCHANGED <<claimed, promise, told>> /\ waiter[c] # "idle"
    BY <1>6 DEF TryCancelPending, Goto
  <2>2. CASE state[c] = "Pending"
    <3>1. /\ state' = [state EXCEPT ![c] = "Cancelled"]
          /\ waiter' = [waiter EXCEPT ![c] = "cancelled"]
      BY <1>6, <2>2 DEF TryCancelPending, Goto
    <3>2. TypeOK'
      BY <1>1, <2>1, <3>1 DEF TypeOK, hookVars, mainVars, engineVars
    <3>3. \A o \in DidNotRun : Says(c, o)' => Settled(c, o)'
      <4>2. ~ran[c]
        BY <2>2 DEF LineInv, OrderInv
      <4> QED
        BY <1>1, <3>1, <4>2 DEF Settled, TypeOK
    <3> QED
      BY <1>1, <2>1, <2>2, <3>1, <3>2, <3>3 DEF WaiterStep, TypeOK
  <2>3. CASE state[c] # "Pending"
    <3>1. /\ waiter' = [waiter EXCEPT ![c] = "started"]
          /\ UNCHANGED state
      BY <1>6, <2>3 DEF TryCancelPending, Goto
    <3>2. TypeOK'
      BY <1>1, <2>1, <3>1 DEF TypeOK, hookVars, mainVars, engineVars
    <3>3. \A o \in DidNotRun : Says(c, o)' => Settled(c, o)'
      <4> TAKE o \in DidNotRun
      <4>1. Says(c, o)' => promise[c] = o \/ told[c] = o
        BY <2>1, <3>1 DEF Says, TypeOK
      <4> QED
        BY <1>k, <3>1, <4>1 DEF Says
    <3> QED
      BY <1>1, <2>1, <3>1, <3>2, <3>3 DEF WaiterStep, TypeOK
  <2> QED
    BY <2>2, <2>3
<1>7. CASE AnswerNotStarted(c)
  <2>1. UNCHANGED state /\ waiter[c] = "cancelled"
    BY <1>7 DEF AnswerNotStarted
  <2>2. \A o \in DidNotRun : Says(c, o) \/ o = "not_started" => Settled(c, o)'
    BY <1>k, <2>1 DEF Says
  <2>3. CASE ~claimed[c]
    <3>1. /\ claimed' = [claimed EXCEPT ![c] = TRUE]
          /\ promise' = [promise EXCEPT ![c] = "not_started"]
          /\ waiter' = [waiter EXCEPT ![c] = "returned"]
          /\ told' = [told EXCEPT ![c] = "not_started"]
      BY <1>7, <2>3 DEF AnswerNotStarted, ClaimFor, Return
    <3>2. TypeOK'
      BY <1>1, <2>1, <3>1 DEF TypeOK, hookVars, mainVars, engineVars, Outcomes
    <3>3. /\ claimed'[c] /\ promise'[c] # "none"
          /\ waiter'[c] = "returned" /\ told'[c] = "not_started"
          /\ \A d \in Commands \ {c} :
               /\ claimed'[d] = claimed[d] /\ promise'[d] = promise[d]
               /\ waiter'[d] = waiter[d] /\ told'[d] = told[d]
      BY <3>1 DEF TypeOK
    <3>4. promise'[c] = "not_started"
      BY <3>1 DEF TypeOK
    <3>5. \A o \in DidNotRun : Says(c, o)' => Settled(c, o)'
      BY <2>2, <3>3, <3>4 DEF Says
    <3> QED
      BY <1>1, <2>1, <2>3, <3>2, <3>3, <3>4, <3>5 DEF WaiterStep
  <2>4. CASE claimed[c]
    <3>1. /\ waiter' = [waiter EXCEPT ![c] = "getting"]
          /\ UNCHANGED <<claimed, promise, told>>
      BY <1>7, <2>4 DEF AnswerNotStarted, ClaimFor, Goto
    <3>2. TypeOK'
      BY <1>1, <2>1, <3>1 DEF TypeOK, hookVars, mainVars, engineVars
    <3>3. \A o \in DidNotRun : Says(c, o)' => Settled(c, o)'
      BY <2>2, <3>1 DEF Says, TypeOK
    <3> QED
      BY <1>1, <2>1, <3>1, <3>2, <3>3 DEF WaiterStep, TypeOK
  <2> QED
    BY <2>3, <2>4
<1>8. CASE TryCancelRunning(c)
  <2>1. /\ UNCHANGED <<claimed, promise, told>>
        /\ waiter[c] # "idle"
        /\ waiter' = [waiter EXCEPT ![c] = "unresolved"]
        /\ state' = [state EXCEPT ![c] = IF state[c] = "Running" THEN "Cancelled" ELSE state[c]]
    BY <1>8 DEF TryCancelRunning, Goto
  <2>2. /\ \/ state'[c] = state[c]
           \/ state[c] = "Running" /\ state'[c] = "Cancelled"
        /\ \A d \in Commands \ {c} : state'[d] = state[d]
        /\ state' \in [Commands -> {"unposted", "Pending", "Running", "Completed", "Cancelled"}]
    BY <2>1 DEF TypeOK
  <2>3. TypeOK'
    BY <1>1, <2>1, <2>2 DEF TypeOK, hookVars, mainVars, engineVars
  <2>4. \A o \in DidNotRun : Says(c, o)' => Settled(c, o)'
    <3> TAKE o \in DidNotRun
    <3>1. Says(c, o)' => promise[c] = o \/ told[c] = o
      BY <2>1 DEF Says, TypeOK
    <3> QED
      BY <1>k, <2>2, <3>1 DEF Says
  <2> QED
    BY <1>1, <2>1, <2>2, <2>3, <2>4 DEF WaiterStep, TypeOK
<1>9. CASE AnswerUnknown(c)
  <2>1. UNCHANGED state /\ waiter[c] # "idle"
    BY <1>9 DEF AnswerUnknown
  <2>2. \A o \in DidNotRun : promise[c] = o \/ told[c] = o => Settled(c, o)'
    BY <1>k, <2>1 DEF Says
  <2>3. CASE ~claimed[c]
    <3>1. /\ claimed' = [claimed EXCEPT ![c] = TRUE]
          /\ promise' = [promise EXCEPT ![c] = "unknown_outcome"]
          /\ waiter' = [waiter EXCEPT ![c] = "returned"]
          /\ told' = [told EXCEPT ![c] = "unknown_outcome"]
      BY <1>9, <2>3 DEF AnswerUnknown, ClaimFor, Return
    <3>2. TypeOK'
      BY <1>1, <2>1, <3>1 DEF TypeOK, hookVars, mainVars, engineVars, Outcomes
    <3>3. /\ claimed'[c] /\ promise'[c] # "none"
          /\ waiter'[c] = "returned" /\ told'[c] = "unknown_outcome"
          /\ \A d \in Commands \ {c} :
               /\ claimed'[d] = claimed[d] /\ promise'[d] = promise[d]
               /\ waiter'[d] = waiter[d] /\ told'[d] = told[d]
      BY <3>1 DEF TypeOK
    <3>4. promise'[c] = "unknown_outcome"
      BY <3>1 DEF TypeOK
    <3>5. \A o \in DidNotRun : ~Says(c, o)'
      BY <3>3, <3>4 DEF Says, DidNotRun
    <3> QED
      BY <1>1, <2>1, <2>3, <3>2, <3>3, <3>4, <3>5 DEF WaiterStep
  <2>4. CASE claimed[c]
    <3>1. /\ waiter' = [waiter EXCEPT ![c] = "last_wait"]
          /\ UNCHANGED <<claimed, promise, told>>
      BY <1>9, <2>4 DEF AnswerUnknown, ClaimFor, Goto
    <3>2. TypeOK'
      BY <1>1, <2>1, <3>1 DEF TypeOK, hookVars, mainVars, engineVars
    <3>3. \A o \in DidNotRun : Says(c, o)' => Settled(c, o)'
      BY <2>2, <3>1 DEF Says, TypeOK
    <3> QED
      BY <1>1, <2>1, <3>1, <3>2, <3>3 DEF WaiterStep, TypeOK
  <2> QED
    BY <2>3, <2>4
<1>10. CASE LastWait(c)
  <2>1. /\ waiter' = [waiter EXCEPT ![c] = "returned"]
        /\ UNCHANGED <<state, claimed, promise>>
        /\ waiter[c] # "idle"
    BY <1>10 DEF LastWait, Return, commandVars
  <2>2. PICK o \in {promise[c], "unknown_outcome"} :
          told' = [told EXCEPT ![c] = o] /\ o # "none"
    BY <1>10 DEF LastWait, Return
  <2>3. o \in Outcomes \union {"none"}
    BY DEF TypeOK, Outcomes
  <2>4. TypeOK'
    BY <1>1, <2>1, <2>2, <2>3 DEF TypeOK, hookVars, mainVars, engineVars
  <2>6. told'[c] = o /\ waiter'[c] = "returned"
    BY <2>1, <2>2 DEF TypeOK
  <2>5. \A x \in DidNotRun : Says(c, x)' => Settled(c, x)'
    <3> TAKE x \in DidNotRun
    <3>1. Says(c, x)' => promise[c] = x
      BY <2>1, <2>6 DEF Says, DidNotRun
    <3> QED
      BY <1>k, <2>1, <3>1 DEF Says
  <2> QED
    BY <1>1, <2>1, <2>2, <2>4, <2>5, <2>6 DEF WaiterStep, TypeOK
<1> QED
  BY <1>4, <1>5, <1>6, <1>7, <1>8, <1>9, <1>10 DEF Await

\* One more at the end of a line.
LEMMA AppendLine ==
  ASSUME NEW q \in Seq(Commands), Increasing(q), NEW c \in Commands,
         \A i \in 1..Len(q) : q[i] < c
  PROVE  /\ Increasing(Append(q, c))
         /\ \A d : In(d, Append(q, c)) <=> In(d, q) \/ d = c
<1> DEFINE r == Append(q, c)
<1>1. /\ Len(q) \in Nat /\ Len(r) = Len(q) + 1
      /\ \A i \in 1..Len(q) : r[i] = q[i]
      /\ r[Len(q) + 1] = c
  BY AppendFacts
<1> HIDE DEF r
<1>2. \A i \in 1..Len(r) : i \in 1..Len(q) \/ i = Len(q) + 1
  BY <1>1
<1>3. Increasing(r)
  <2> SUFFICES ASSUME NEW i \in 1..Len(r), NEW j \in 1..Len(r), i < j
               PROVE  r[i] < r[j]
    BY DEF Increasing
  <2>1. i \in 1..Len(q)
    BY <1>1
  <2>2. CASE j \in 1..Len(q)
    BY <1>1, <2>1, <2>2 DEF Increasing
  <2>3. CASE j = Len(q) + 1
    BY <1>1, <2>1, <2>3
  <2> QED
    BY <1>2, <2>2, <2>3
<1>4. \A d : In(d, r) <=> In(d, q) \/ d = c
  <2> TAKE d
  <2>1. ASSUME In(d, r) PROVE In(d, q) \/ d = c
    BY <1>1, <1>2, <2>1 DEF In
  <2>2. ASSUME In(d, q) PROVE In(d, r)
    <3>1. PICK i \in 1..Len(q) : q[i] = d
      BY <2>2 DEF In
    <3>2. i \in 1..Len(r) /\ r[i] = d
      BY <1>1, <3>1
    <3> QED
      BY <3>2 DEF In
  <2>3. ASSUME d = c PROVE In(d, r)
    <3>1. Len(q) + 1 \in 1..Len(r)
      BY <1>1
    <3> QED
      BY <1>1, <2>3, <3>1 DEF In
  <2> QED
    BY <2>1, <2>2, <2>3
<1> QED
  BY <1>3, <1>4 DEF r

\* The batch of the outermost frame is a sequence of commands.
LEMMA BatchType ==
  ASSUME TypeOK
  PROVE  /\ Batch \in Seq(Commands)
         /\ frames # <<>> => frames[1] \in Frame
<1>1. ASSUME frames # <<>> PROVE frames[1] \in Frame
  <2>1. 1 \in 1..Len(frames)
    BY <1>1, EmptySeq, LenProperties DEF TypeOK
  <2> QED
    BY <2>1, ElementOfSeq DEF TypeOK
<1>2. ASSUME frames = <<>> PROVE Batch \in Seq(Commands)
  BY <1>2, EmptySeq DEF Batch
<1> QED
  BY <1>1, <1>2 DEF Batch, Frame

\* postCommand keeps the invariant.
LEMMA PostKeeps ==
  ASSUME IndInv, NEW c \in Commands, Post(c)
  PROVE  IndInv'
<1> USE DEF IndInv
<1>1. /\ UNCHANGED <<ran, told, held, fresh, pumping, ready, frames, stack, answer, stage,
                     paused, wish, sampled>>
      /\ waiter' = [waiter EXCEPT ![c] = "waiting"]
      /\ state[c] = "unposted"
      /\ \A d \in Commands : d < c => state[d] # "unposted"
  BY DEF Post, mainVars, engineVars
<1>2. PICK k \in Kinds : kind' = [kind EXCEPT ![c] = k]
  BY DEF Post
<1>3. k \in AllKinds
  BY CommandQueueAssumption
<1>4. /\ ~ran[c] /\ ~claimed[c] /\ promise[c] = "none" /\ told[c] = "none"
      /\ \A d \in Commands : c < d => state[d] = "unposted"
      /\ answer # NoAnswer => answer.cmd # c
      /\ ~InLine(c) /\ ~OnStack(c) /\ ~IsHeld(c)
  BY <1>1 DEF PostInv, ClaimInv, LineInv, OrderInv, RunInv, PlaceInv
<1>5. \A d \in Commands : InLine(d) => d < c
  <2> SUFFICES ASSUME NEW d \in Commands, InLine(d) PROVE d < c
    OBVIOUS
  <2>1. state[d] # "unposted"
    BY DEF LineInv, OrderInv
  <2>2. d # c /\ ~(c < d)
    BY <2>1, <1>1, <1>4
  <2> QED
    BY <2>2 DEF Commands
<1>6. /\ Batch' = Batch
      /\ \A d : OnStack(d)' <=> OnStack(d)
      /\ \A d : IsHeld(d)' <=> IsHeld(d)
  BY <1>1 DEF Batch, OnStack, IsHeld
<1>7. /\ queue \in Seq(Commands) /\ Batch \in Seq(Commands)
      /\ \A i \in 1..Len(queue) : queue[i] \in Commands
      /\ \A i \in 1..Len(Batch) : Batch[i] \in Commands
  BY BatchType, ElementOfSeq DEF TypeOK
<1>8. /\ \A i \in 1..Len(queue) : queue[i] < c
      /\ \A i \in 1..Len(Batch) : Batch[i] < c
  BY <1>5, <1>7 DEF InLine, In
<1>9. \A d \in Commands \ {c} : kind'[d] = kind[d] /\ waiter'[d] = waiter[d]
  BY <1>1, <1>2 DEF TypeOK
<1>10. FrameInv' /\ GameRunsOnlyIfAsked'
  BY <1>1 DEF FrameInv, GameRunsOnlyIfAsked
<1>11. \A j \in Slots \union Lists : \A d \in held'[j] : kind'[d] = j
  <2> SUFFICES ASSUME NEW j \in Slots \union Lists, NEW d \in held[j] PROVE kind'[d] = j
    BY <1>1
  <2>1. d \in Commands
    BY DEF TypeOK
  <2>2. d # c
    BY <1>4 DEF IsHeld
  <2> QED
    BY <2>1, <2>2, <1>9 DEF RunInv, PlaceInv
<1>12. /\ waiter'[c] = "waiting" /\ kind'[c] = k
  BY <1>1, <1>2 DEF TypeOK
<1>13. CASE ready
  <2>1. /\ state' = [state EXCEPT ![c] = "Pending"]
        /\ queue' = Append(queue, c)
        /\ UNCHANGED <<claimed, promise>>
    BY <1>13 DEF Post
  <2>2. TypeOK'
    <3>1. queue' \in Seq(Commands)
      BY <1>7, <2>1, AppendFacts
    <3>2. kind' \in [Commands -> AllKinds]
      BY <1>2, <1>3 DEF TypeOK
    <3> QED
      BY <1>1, <2>1, <3>1, <3>2 DEF TypeOK
  <2>3. /\ Increasing(queue')
        /\ \A d : In(d, queue') <=> In(d, queue) \/ d = c
    BY <1>7, <1>8, <2>1, AppendLine DEF LineInv, OrderInv
  <2>4. \A d \in Commands : InLine(d)' <=> InLine(d) \/ d = c
    BY <1>6, <2>3 DEF InLine, In
  <2>5. state'[c] = "Pending" /\ \A d \in Commands \ {c} : state'[d] = state[d]
    BY <2>1 DEF TypeOK
  <2>6. LineInv'
    <3>1. Increasing(Batch')
      BY <1>6 DEF LineInv, OrderInv
    <3>2. \A i \in 1..Len(Batch'), j \in 1..Len(queue') : Batch'[i] < queue'[j]
      <4> SUFFICES ASSUME NEW i \in 1..Len(Batch), NEW j \in 1..Len(queue')
                   PROVE  Batch[i] < queue'[j]
        BY <1>6
      <4>1. /\ Len(queue) \in Nat /\ Len(queue') = Len(queue) + 1
            /\ \A l \in 1..Len(queue) : queue'[l] = queue[l]
            /\ queue'[Len(queue) + 1] = c
        BY <1>7, <2>1, AppendFacts
      <4>2. CASE j \in 1..Len(queue)
        BY <4>1, <4>2 DEF LineInv, OrderInv
      <4>3. CASE j \notin 1..Len(queue)
        <5>1. j = Len(queue) + 1
          BY <4>1, <4>3
        <5> QED
          BY <4>1, <5>1, <1>8
      <4> QED
        BY <4>2, <4>3
    <3>3. \A d \in Commands : InLine(d)' =>
            /\ ~ran'[d]
            /\ state'[d] \in {"Pending", "Cancelled"}
            /\ state'[d] = "Cancelled" => waiter'[d] # "waiting"
      BY <1>1, <1>4, <1>9, <2>4, <2>5 DEF LineInv, OrderInv
    <3>4. \A d \in Commands : state'[d] = "Pending" => ~ran'[d]
      BY <1>1, <1>4, <2>5 DEF LineInv, OrderInv
    <3>5. \A d \in Commands : state'[d] = "Pending" /\ kind'[d] # "foreign" => InLine(d)'
      BY <1>9, <2>4, <2>5 DEF LineInv, OrderInv
    <3> QED
      BY <2>3, <3>1, <3>2, <3>3, <3>4, <3>5 DEF LineInv, OrderInv, Increasing
  <2>7. PostInv'
    <3>1. \A d \in Commands \ {c} : state[d] = "unposted" => ~(d < c)
      BY <1>1
    <3> QED
      BY <1>1, <1>9, <2>1, <2>5, <3>1 DEF PostInv
  <2>8. RunInv'
    BY <1>1, <1>4, <1>6, <1>9, <1>11, <2>5 DEF RunInv, PlaceInv
  <2>9. ClaimInv'
    <3>1. answer' # NoAnswer => answer'.cmd \in Commands /\ state'[answer'.cmd] # "unposted"
                                /\ answer'.outcome # "none"
      BY <1>1, <1>4, <2>5 DEF ClaimInv
    <3> QED
      BY <1>1, <2>1, <3>1 DEF ClaimInv
  <2>10. SettledInv'
    <3> SUFFICES ASSUME NEW o \in DidNotRun
                 PROVE  /\ \A d \in Commands : Says(d, o)' => Settled(d, o)'
                        /\ answer'.outcome = o => Settled(answer.cmd, o)'
      BY DEF SettledInv, DidNotRun
    <3>1. \A d \in Commands \ {c} : Settled(d, o) => Settled(d, o)'
      BY <1>1, <1>6, <1>9, <2>5, SettledKept
    <3>2. answer'.outcome = o => Settled(answer.cmd, o)'
      <4>1. answer.outcome = o => answer # NoAnswer
        BY DEF NoAnswer, DidNotRun
      <4>2. ASSUME answer.outcome = o
            PROVE  \E d \in Commands : d = answer.cmd /\ Settled(d, o)'
        BY <1>4, <3>1, <4>1, <4>2 DEF SettledInv, ClaimInv
      <4> QED
        BY <1>1, <4>2
    <3>3. ASSUME NEW d \in Commands, Says(d, o)' PROVE d # c /\ Says(d, o)
      BY <1>1, <1>4, <1>9, <1>12, <2>1, <3>3 DEF Says, DidNotRun
    <3> QED
      BY <3>1, <3>2, <3>3 DEF SettledInv
  <2>11. AccountInv'
    BY <1>1, <1>6, <1>9, <2>1, <2>4 DEF AccountInv
  <2>12. StageInv'
    BY <1>1, <1>13, <2>1 DEF StageInv
  <2> QED
    BY <1>10, <2>2, <2>6, <2>7, <2>8, <2>9, <2>10, <2>11, <2>12
<1>14. CASE ~ready
  <2>1. /\ state' = [state EXCEPT ![c] = "Completed"]
        /\ claimed' = [claimed EXCEPT ![c] = TRUE]
        /\ promise' = [promise EXCEPT ![c] = "not_ready"]
        /\ UNCHANGED queue
    BY <1>14 DEF Post
  <2>2. TypeOK'
    <3>1. kind' \in [Commands -> AllKinds]
      BY <1>2, <1>3 DEF TypeOK
    <3>2. promise' \in [Commands -> Outcomes \union {"none"}]
      BY <2>1 DEF TypeOK, Outcomes
    <3> QED
      BY <1>1, <2>1, <3>1, <3>2 DEF TypeOK
  <2>3. \A d : InLine(d)' <=> InLine(d)
    BY <1>6, <2>1 DEF InLine, In
  <2>4. /\ state'[c] = "Completed" /\ claimed'[c] /\ promise'[c] = "not_ready"
        /\ \A d \in Commands \ {c} : /\ state'[d] = state[d] /\ claimed'[d] = claimed[d]
                                     /\ promise'[d] = promise[d]
    BY <2>1 DEF TypeOK
  <2>5. LineInv'
    <3>1. \A d \in Commands : InLine(d)' =>
            /\ ~ran'[d]
            /\ state'[d] \in {"Pending", "Cancelled"}
            /\ state'[d] = "Cancelled" => waiter'[d] # "waiting"
      BY <1>1, <1>4, <1>9, <2>3, <2>4 DEF LineInv, OrderInv
    <3>2. \A d \in Commands : state'[d] = "Pending" => ~ran'[d]
      BY <1>1, <2>4 DEF LineInv, OrderInv
    <3>3. \A d \in Commands : state'[d] = "Pending" /\ kind'[d] # "foreign" => InLine(d)'
      BY <1>9, <2>3, <2>4 DEF LineInv, OrderInv
    <3> QED
      BY <1>6, <2>1, <3>1, <3>2, <3>3 DEF LineInv, OrderInv, Increasing
  <2>6. PostInv'
    <3>1. \A d \in Commands \ {c} : state[d] = "unposted" => ~(d < c)
      BY <1>1
    <3> QED
      BY <1>1, <1>9, <2>4, <3>1 DEF PostInv
  <2>7. RunInv'
    BY <1>1, <1>4, <1>6, <1>9, <1>11, <2>4 DEF RunInv, PlaceInv
  <2>8. ClaimInv'
    <3>1. answer' # NoAnswer => answer'.cmd \in Commands /\ state'[answer'.cmd] # "unposted"
                                /\ answer'.outcome # "none"
      BY <1>1, <1>4, <2>4 DEF ClaimInv
    <3>2. answer.mine => answer # NoAnswer
      BY DEF NoAnswer
    <3>3. answer'.mine => answer'.cmd \in Commands /\ claimed'[answer'.cmd]
                          /\ promise'[answer'.cmd] = "none"
      BY <1>1, <1>4, <2>4, <3>2 DEF ClaimInv
    <3>4. \A d \in Commands :
            /\ promise'[d] # "none" => claimed'[d]
            /\ claimed'[d] /\ promise'[d] = "none" => answer'.mine /\ answer'.cmd = d
      BY <1>1, <2>4 DEF ClaimInv
    <3> QED
      BY <3>1, <3>3, <3>4 DEF ClaimInv
  <2>9. SettledInv'
    <3> SUFFICES ASSUME NEW o \in DidNotRun
                 PROVE  /\ \A d \in Commands : Says(d, o)' => Settled(d, o)'
                        /\ answer'.outcome = o => Settled(answer.cmd, o)'
      BY DEF SettledInv, DidNotRun
    <3>1. \A d \in Commands \ {c} : Settled(d, o) => Settled(d, o)'
      BY <1>1, <1>6, <1>9, <2>4, SettledKept
    <3>2. Settled(c, o)'
      BY <1>1, <1>4, <2>4 DEF Settled
    <3>3. answer'.outcome = o => Settled(answer.cmd, o)'
      <4>1. answer.outcome = o => answer # NoAnswer
        BY DEF NoAnswer, DidNotRun
      <4>2. ASSUME answer.outcome = o
            PROVE  \E d \in Commands : d = answer.cmd /\ Settled(d, o)'
        BY <1>4, <3>1, <4>1, <4>2 DEF SettledInv, ClaimInv
      <4> QED
        BY <1>1, <4>2
    <3>4. ASSUME NEW d \in Commands \ {c}, Says(d, o)' PROVE Says(d, o)
      BY <1>1, <1>9, <2>4, <3>4 DEF Says
    <3> QED
      BY <3>1, <3>2, <3>3, <3>4 DEF SettledInv
  <2>10. AccountInv'
    BY <1>1, <1>6, <1>9, <2>3, <2>4 DEF AccountInv
  <2>11. StageInv'
    BY <1>1, <2>1 DEF StageInv
  <2> QED
    BY <1>10, <2>2, <2>5, <2>6, <2>7, <2>8, <2>9, <2>10, <2>11
<1> QED
  BY <1>13, <1>14

-----------------------------------------------------------------------------
(* The main thread.                                                        *)

\* tryClaimResponse, won or lost, keeps the invariant.
LEMMA TryClaimResponseKeeps ==
  ASSUME IndInv, TryClaimResponse
  PROVE  IndInv'
<1> USE DEF IndInv
<1> DEFINE a == answer.cmd
<1>1. UNCHANGED <<kind, state, ran, promise, waiter, told, queue, held, fresh, pumping, ready,
                  frames, stack, stage, paused, wish, sampled>>
  BY DEF TryClaimResponse, waiterVars, hookVars, engineVars
<1>2. /\ answer # NoAnswer /\ ~answer.mine
      /\ claimed' = [claimed EXCEPT ![a] = TRUE]
      /\ a \in Commands /\ state[a] # "unposted" /\ answer.outcome # "none"
  BY DEF TryClaimResponse, ClaimInv
<1>3. /\ Batch' = Batch
      /\ \A d : InLine(d)' <=> InLine(d)
      /\ \A d : OnStack(d)' <=> OnStack(d)
      /\ \A d : IsHeld(d)' <=> IsHeld(d)
  BY <1>1, PlacesKept
<1>4. claimed'[a] /\ \A d \in Commands \ {a} : claimed'[d] = claimed[d]
  BY <1>2 DEF TypeOK
<1>5. /\ answer' \in [cmd : Commands \union {NoCommand}, outcome : Outcomes \union {"none"},
                      mine : BOOLEAN]
      /\ \/ claimed[a] /\ answer' = NoAnswer
         \/ /\ ~claimed[a]
            /\ answer'.cmd = a /\ answer'.outcome = answer.outcome /\ answer'.mine
  <2>1. CASE claimed[a]
    <3>1. answer' = NoAnswer
      BY <2>1 DEF TryClaimResponse
    <3>2. NoAnswer \in [cmd : Commands \union {NoCommand}, outcome : Outcomes \union {"none"},
                        mine : BOOLEAN]
      BY DEF NoAnswer
    <3> QED
      BY <2>1, <3>1, <3>2
  <2>2. CASE ~claimed[a]
    <3>1. answer' = [answer EXCEPT !.mine = TRUE]
      BY <2>2 DEF TryClaimResponse
    <3> QED
      BY <2>2, <3>1 DEF TypeOK
  <2> QED
    BY <2>1, <2>2
<1>6. TypeOK'
  BY <1>1, <1>2, <1>5 DEF TypeOK
<1>7. LineInv' /\ FrameInv' /\ GameRunsOnlyIfAsked'
  BY <1>1, <1>3 DEF LineInv, OrderInv, FrameInv, GameRunsOnlyIfAsked, Increasing
<1>8. PostInv'
  BY <1>1, <1>2, <1>4 DEF PostInv
<1>9. RunInv'
  BY <1>1, <1>3 DEF RunInv, PlaceInv
<1>10. ClaimInv'
  <2>1. \A d \in Commands : promise[d] # "none" => claimed'[d]
    BY <1>4 DEF ClaimInv
  <2>2. CASE claimed[a]
    <3>1. answer' = NoAnswer /\ ~answer'.mine
      BY <1>5, <2>2 DEF NoAnswer
    <3>2. \A d \in Commands : claimed'[d] => promise[d] # "none"
      BY <1>2, <1>4, <2>2 DEF ClaimInv
    <3> QED
      BY <1>1, <2>1, <3>1, <3>2 DEF ClaimInv
  <2>3. CASE ~claimed[a]
    <3>1. answer'.cmd = a /\ answer'.outcome = answer.outcome /\ answer'.mine
      BY <1>5, <2>3
    <3>2. promise[a] = "none"
      BY <1>2, <2>3 DEF ClaimInv
    <3>3. \A d \in Commands \ {a} : ~(claimed'[d] /\ promise[d] = "none")
      BY <1>2, <1>4 DEF ClaimInv
    <3> QED
      BY <1>1, <1>2, <1>4, <2>1, <3>1, <3>2, <3>3 DEF ClaimInv
  <2> QED
    BY <2>2, <2>3
<1>11. SettledInv'
  <2> SUFFICES ASSUME NEW o \in DidNotRun
               PROVE  /\ \A d \in Commands : Says(d, o)' => Settled(d, o)'
                      /\ answer'.outcome = o => Settled(answer.cmd, o)'
    BY DEF SettledInv, DidNotRun
  <2>1. \A d \in Commands : Settled(d, o) => Settled(d, o)'
    BY <1>1, <1>3, SettledKept
  <2>2. \A d \in Commands : Says(d, o)' => Says(d, o)
    BY <1>1 DEF Says
  <2>3. ASSUME answer'.outcome = o
        PROVE  \E d \in Commands : d = answer'.cmd /\ Settled(d, o)'
    <3>1. answer'.cmd = a /\ answer.outcome = o
      BY <1>5, <2>3 DEF NoAnswer, DidNotRun
    <3> QED
      BY <1>2, <2>1, <3>1 DEF SettledInv
  <2> QED
    BY <2>1, <2>2, <2>3 DEF SettledInv
<1>12. AccountInv'
  <2>1. \A d \in Commands : promise[d] = "none" => answer.cmd # d \/ answer'.cmd = d
    BY <1>2, <1>5 DEF ClaimInv
  <2> QED
    BY <1>1, <1>3, <2>1 DEF AccountInv
<1>13. StageInv'
  BY <1>1, <1>2 DEF StageInv
<1> QED
  BY <1>6, <1>7, <1>8, <1>9, <1>10, <1>11, <1>12, <1>13

\* Fulfilling the promise keeps the invariant.
LEMMA PublishKeeps ==
  ASSUME IndInv, Publish
  PROVE  IndInv'
<1> USE DEF IndInv
<1> DEFINE a == answer.cmd
<1>1. UNCHANGED <<kind, state, ran, claimed, waiter, told, queue, held, fresh, pumping, ready,
                  frames, stack, stage, paused, wish, sampled>>
  BY DEF Publish, waiterVars, hookVars, engineVars
<1>2. /\ answer.mine /\ answer # NoAnswer /\ answer' = NoAnswer
      /\ promise' = [promise EXCEPT ![a] = answer.outcome]
      /\ a \in Commands /\ claimed[a] /\ state[a] # "unposted" /\ answer.outcome # "none"
  <2>1. answer.mine => answer # NoAnswer
    BY DEF NoAnswer
  <2> QED
    BY <2>1 DEF Publish, ClaimInv
<1>3. /\ Batch' = Batch
      /\ \A d : InLine(d)' <=> InLine(d)
      /\ \A d : OnStack(d)' <=> OnStack(d)
      /\ \A d : IsHeld(d)' <=> IsHeld(d)
  BY <1>1, PlacesKept
<1>4. /\ promise'[a] = answer.outcome
      /\ \A d \in Commands \ {a} : promise'[d] = promise[d]
  BY <1>2 DEF TypeOK
<1>5. /\ answer'.cmd = NoCommand /\ answer'.outcome = "none" /\ ~answer'.mine
      /\ answer' \in [cmd : Commands \union {NoCommand}, outcome : Outcomes \union {"none"},
                      mine : BOOLEAN]
  BY <1>2 DEF NoAnswer
<1>6. TypeOK'
  <2>1. answer.outcome \in Outcomes \union {"none"}
    BY DEF TypeOK
  <2>2. promise' \in [Commands -> Outcomes \union {"none"}]
    BY <1>2, <2>1 DEF TypeOK
  <2> QED
    BY <1>1, <1>5, <2>2 DEF TypeOK
<1>7. LineInv' /\ FrameInv' /\ GameRunsOnlyIfAsked'
  BY <1>1, <1>3 DEF LineInv, OrderInv, FrameInv, GameRunsOnlyIfAsked, Increasing
<1>8. PostInv'
  BY <1>1, <1>2, <1>4 DEF PostInv
<1>9. RunInv'
  BY <1>1, <1>3 DEF RunInv, PlaceInv
<1>10. ClaimInv'
  <2>1. \A d \in Commands : promise'[d] # "none" => claimed[d]
    BY <1>2, <1>4 DEF ClaimInv
  <2>2. \A d \in Commands : ~(claimed[d] /\ promise'[d] = "none")
    BY <1>2, <1>4 DEF ClaimInv
  <2> QED
    BY <1>1, <1>2, <1>5, <2>1, <2>2 DEF ClaimInv
<1>11. SettledInv'
  <2> SUFFICES ASSUME NEW o \in DidNotRun
               PROVE  /\ \A d \in Commands : Says(d, o)' => Settled(d, o)'
                      /\ answer'.outcome # o
    BY DEF SettledInv, DidNotRun
  <2>1. \A d \in Commands : Settled(d, o) => Settled(d, o)'
    BY <1>1, <1>3, SettledKept
  <2>2. answer'.outcome # o
    BY <1>5 DEF DidNotRun
  <2>3. \A d \in Commands : Says(d, o)' => Settled(d, o)
    BY <1>1, <1>2, <1>4 DEF SettledInv, Says
  <2> QED
    BY <2>1, <2>2, <2>3
<1>12. AccountInv'
  BY <1>1, <1>2, <1>3, <1>4 DEF AccountInv
<1>13. StageInv'
  BY <1>1, <1>2 DEF StageInv
<1> QED
  BY <1>6, <1>7, <1>8, <1>9, <1>10, <1>11, <1>12, <1>13

\* A step that moves the commands that started, and those in line, but says
\* nothing to anybody.
LEMMA MovedKeeps ==
  ASSUME IndInv, TypeOK',
         UNCHANGED <<commandVars, waiterVars, answer>>,
         \A d \in Commands : InLine(d)' <=> InLine(d),
         \A d \in Commands : (OnStack(d) \/ IsHeld(d))' <=> OnStack(d) \/ IsHeld(d),
         \A d \in sampled' : d \in sampled \/ IsHeld(d),
         OrderInv', PlaceInv', FrameInv', StageInv', GameRunsOnlyIfAsked'
  PROVE  IndInv'
<1> USE DEF IndInv
<1>1. UNCHANGED <<kind, state, ran, claimed, promise, waiter, told, answer>>
  BY DEF commandVars, waiterVars
<1>2. LineInv'
  BY <1>1 DEF LineInv
<1>3. RunInv'
  BY <1>1 DEF RunInv
<1>4. PostInv' /\ ClaimInv'
  BY <1>1 DEF PostInv, ClaimInv
<1>5. SettledInv'
  <2> SUFFICES ASSUME NEW o \in DidNotRun
               PROVE  /\ \A d \in Commands : Says(d, o)' => Settled(d, o)'
                      /\ answer'.outcome = o => Settled(answer.cmd, o)'
    BY DEF SettledInv, DidNotRun
  <2>1. \A d \in Commands : Settled(d, o) => Settled(d, o)'
    BY <1>1, SettledKept
  <2>2. \A d \in Commands : Says(d, o)' => Says(d, o)
    BY <1>1 DEF Says
  <2>3. ASSUME answer.outcome = o PROVE \E d \in Commands : d = answer.cmd /\ Settled(d, o)'
    <3>1. answer # NoAnswer
      BY <2>3 DEF NoAnswer, DidNotRun
    <3> QED
      BY <2>1, <2>3, <3>1 DEF SettledInv, ClaimInv
  <2> QED
    BY <1>1, <2>1, <2>2, <2>3 DEF SettledInv
<1>6. AccountInv'
  BY <1>1 DEF AccountInv
<1> QED
  BY <1>2, <1>3, <1>4, <1>5, <1>6

\* The frame and the drain visit slots and lists.
LEMMA OrdersAreTyped ==
  /\ FrameOrder \in Seq(Slots \union Lists)
  /\ NestedOrder \in Seq(Slots \union Lists)
  /\ DrainOrder \in Seq(Slots \union Lists)
  BY DEF FrameOrder, NestedOrder, DrainOrder, Slots, Lists

\* A frame is entered: the outermost one stays what it was, or is the new one.
LEMMA EnterFrame ==
  ASSUME TypeOK, FrameInv, NEW f \in Frame, frames' = Append(frames, f),
         f.depth = Len(stack), UNCHANGED stack,
         frames # <<>> => f.batch = <<>>
  PROVE  /\ frames' \in Seq(Frame)
         /\ FrameInv'
         /\ Batch' = IF frames = <<>> THEN f.batch ELSE Batch
<1>1. /\ frames' \in Seq(Frame) /\ frames' # <<>> /\ Len(frames) \in Nat
      /\ Len(frames') = Len(frames) + 1
      /\ \A i \in 1..Len(frames) : frames'[i] = frames[i]
      /\ frames'[Len(frames) + 1] = f
  BY AppendFacts DEF TypeOK
<1>2. CASE frames = <<>>
  <2>1. Len(frames) = 0
    BY <1>2, EmptySeq
  <2>2. frames'[1] = f /\ Len(frames') = 1
    BY <1>1, <2>1
  <2>3. Len(stack) = 0
    BY <1>2, EmptySeq DEF FrameInv
  <2>4. \A i \in 2..Len(frames') : FALSE
    BY <2>2
  <2>5. FrameInv'
    BY <1>1, <2>2, <2>3, <2>4 DEF FrameInv
  <2> QED
    BY <1>1, <1>2, <2>2, <2>5 DEF Batch
<1>3. CASE frames # <<>>
  <2>1. Len(frames) \in Nat \ {0}
    BY <1>3, EmptySeq, LenProperties DEF TypeOK
  <2>2. frames'[1] = frames[1]
    BY <1>1, <2>1
  <2>3. \A i \in 2..Len(frames') : i \in 2..Len(frames) \/ i = Len(frames) + 1
    BY <1>1
  <2>4. \A i \in 2..Len(frames) : i \in 1..Len(frames)
    BY <2>1
  <2>5. \A i \in 2..Len(frames') : frames'[i].batch = <<>>
    BY <1>1, <1>3, <2>3, <2>4 DEF FrameInv
  <2>6. FrameInv'
    BY <1>1, <1>3, <2>2, <2>5 DEF FrameInv
  <2> QED
    BY <1>1, <1>3, <2>2, <2>6 DEF Batch
<1> QED
  BY <1>2, <1>3

\* Entering processQueue keeps the invariant.
LEMMA ProcessQueueKeeps ==
  ASSUME IndInv, ProcessQueue
  PROVE  IndInv'
<1> USE DEF IndInv
<1>1. PICK pass \in BOOLEAN, settling \in BOOLEAN :
        /\ FrameCallback(pass)
        /\ IF pumping \/ pass THEN Observe ELSE Pump(Dequeued(settling))
  BY DEF ProcessQueue
<1>2. /\ UNCHANGED <<commandVars, waiterVars, held, fresh, ready, stack, answer, stage,
                     paused, wish, sampled>>
      /\ stage = "live"
      /\ frames # <<>> /\ ~pumping => pass
  BY <1>1 DEF FrameCallback, engineVars
<1>3. UNCHANGED <<kind, state, ran, claimed, promise, waiter, told>>
  BY <1>2 DEF commandVars, waiterVars
<1>4. /\ \A d : OnStack(d)' <=> OnStack(d)
      /\ \A d : IsHeld(d)' <=> IsHeld(d)
      /\ PlaceInv' /\ StageInv' /\ GameRunsOnlyIfAsked'
  BY <1>2, <1>3 DEF OnStack, IsHeld, RunInv, PlaceInv, StageInv, GameRunsOnlyIfAsked
<1>5. Len(stack) \in Nat
  BY LenProperties DEF TypeOK
<1>6. CASE pumping \/ pass
  <2> DEFINE f == [batch |-> <<>>, todo |-> NestedOrder, depth |-> Len(stack), pumps |-> FALSE]
  <2>1. frames' = Append(frames, f) /\ UNCHANGED <<queue, pumping>>
    BY <1>1, <1>6 DEF Observe
  <2>2. f \in Frame /\ f.depth = Len(stack) /\ f.batch = <<>>
    BY <1>5, OrdersAreTyped, EmptySeq DEF Frame
  <2> HIDE DEF f
  <2>3. /\ frames' \in Seq(Frame)
        /\ FrameInv'
        /\ Batch' = IF frames = <<>> THEN f.batch ELSE Batch
    BY <1>2, <2>1, <2>2, EnterFrame
  <2>4. Batch' = Batch
    BY <2>2, <2>3 DEF Batch
  <2>5. TypeOK'
    BY <1>2, <1>3, <2>1, <2>3 DEF TypeOK
  <2>6. OrderInv' /\ \A d : InLine(d)' <=> InLine(d)
    BY <2>1, <2>4 DEF OrderInv, LineInv, InLine, In, Increasing
  <2> QED
    BY <1>2, <1>4, <2>3, <2>5, <2>6, MovedKeeps
<1>7. CASE ~(pumping \/ pass)
  <2>1. frames = <<>>
    BY <1>2, <1>7
  <2>2. PICK m \in 0..Len(queue) : Dequeued(settling) = SubSeq(queue, 1, m)
    BY DequeuedFacts
  <2> DEFINE b == SubSeq(queue, 1, m)
             r == SubSeq(queue, m + 1, Len(queue))
             f == [batch |-> b, todo |-> FrameOrder, depth |-> Len(stack), pumps |-> TRUE]
  <2>3. queue \in Seq(Commands) /\ Increasing(queue)
    BY DEF TypeOK, LineInv, OrderInv
  <2>4. /\ b \in Seq(Commands) /\ Len(b) = m
        /\ r \in Seq(Commands)
        /\ Increasing(b) /\ Increasing(r)
        /\ \A i \in 1..Len(b), j \in 1..Len(r) : b[i] < r[j]
        /\ \A c : In(c, queue) <=> In(c, b) \/ In(c, r)
    BY <2>3, SplitFacts
  <2>5. frames' = Append(frames, f) /\ queue' = r /\ pumping' = TRUE
    BY <1>1, <1>7, <2>2, <2>4 DEF Pump
  <2> HIDE DEF b, r
  <2>6. f \in Frame /\ f.depth = Len(stack) /\ f.batch = b
    BY <1>5, <2>4, OrdersAreTyped DEF Frame
  <2> HIDE DEF f
  <2>7. /\ frames' \in Seq(Frame)
        /\ FrameInv'
        /\ Batch' = IF frames = <<>> THEN f.batch ELSE Batch
    BY <1>2, <2>1, <2>5, <2>6, EnterFrame
  <2>8. Batch' = b /\ Batch = <<>>
    BY <2>1, <2>6, <2>7 DEF Batch
  <2>9. TypeOK'
    BY <1>2, <1>3, <2>4, <2>5, <2>7 DEF TypeOK
  <2>10. OrderInv'
    BY <2>4, <2>5, <2>8 DEF OrderInv, Increasing
  <2>11. \A d : InLine(d)' <=> InLine(d)
    <3>1. \A d : ~In(d, Batch)
      BY <2>8, EmptySeq DEF In
    <3> QED
      BY <2>4, <2>5, <2>8, <3>1 DEF InLine, In
  <2> QED
    BY <1>2, <1>4, <2>7, <2>9, <2>10, <2>11, MovedKeeps
<1> QED
  BY <1>6, <1>7

\* A command leaves the place it is in, and is to be answered, or nobody waits for
\* it; an answer that says it did not run is true.  A detached command is answered
\* and goes on in its slot.
Leaves(c) ==
  /\ answer = NoAnswer
  /\ InLine(c) \/ OnStack(c) \/ IsHeld(c)
  /\ UNCHANGED <<kind, ran, claimed, promise, waiterVars>>
  /\ \A d \in Commands \ {c} : state'[d] = state[d]
  /\ \/ state'[c] = state[c] /\ (state[c] = "Pending" => kind[c] = "foreign")
     \/ state'[c] \in {"Completed", "Cancelled"}
  /\ \/ /\ answer'.cmd = c /\ answer'.outcome # "none" /\ ~answer'.mine
        /\ \A o \in DidNotRun : answer'.outcome = o => Settled(c, o)'
     \/ answer' = NoAnswer /\ (waiter[c] = "waiting" => promise[c] # "none")
  /\ \A d \in Commands : InLine(d)' <=> InLine(d) /\ d # c
  /\ \A d \in Commands \ {c} : (OnStack(d) \/ IsHeld(d))' <=> OnStack(d) \/ IsHeld(d)
  /\ (OnStack(c) \/ IsHeld(c))' =>
       (OnStack(c) \/ IsHeld(c)) /\ ran[c] /\ state'[c] = "Completed"
  /\ \A d \in sampled' : d \in sampled \/ OnStack(d) \/ IsHeld(d)

\* A command that leaves its place to be answered keeps the invariant.
LEMMA LeavesKeeps ==
  ASSUME IndInv, TypeOK', NEW c \in Commands, Leaves(c),
         OrderInv', PlaceInv', FrameInv', StageInv', GameRunsOnlyIfAsked'
  PROVE  IndInv'
<1> USE DEF IndInv
<1>1. UNCHANGED <<kind, ran, claimed, promise, waiter, told>>
  BY DEF Leaves, waiterVars
<1>2. answer = NoAnswer /\ ~answer.mine /\ answer.cmd \notin Commands
  BY DEF Leaves, NoAnswer, NoCommand, Commands
<1>3. state[c] # "unposted"
  BY DEF Leaves, LineInv, RunInv
<1>4. /\ state'[c] # "unposted"
      /\ \A d \in Commands \ {c} : state'[d] = state[d]
      /\ state'[c] = "Pending" => state[c] = "Pending" /\ kind[c] = "foreign"
  BY <1>3 DEF Leaves
<1>5. LineInv'
  <2>1. \A d \in Commands : InLine(d)' =>
          /\ ~ran'[d]
          /\ state'[d] \in {"Pending", "Cancelled"}
          /\ state'[d] = "Cancelled" => waiter'[d] # "waiting"
    BY <1>1, <1>4 DEF LineInv, Leaves
  <2>2. \A d \in Commands : state'[d] = "Pending" => ~ran'[d]
    BY <1>1, <1>4 DEF LineInv
  <2>3. \A d \in Commands : state'[d] = "Pending" /\ kind'[d] # "foreign" => InLine(d)'
    BY <1>1, <1>4 DEF LineInv, Leaves
  <2> QED
    BY <2>1, <2>2, <2>3 DEF LineInv
<1>6. PostInv'
  <2> SUFFICES ASSUME NEW d \in Commands, state'[d] = "unposted"
               PROVE  /\ ~ran'[d] /\ ~claimed'[d] /\ promise'[d] = "none"
                      /\ told'[d] = "none" /\ waiter'[d] = "idle"
                      /\ \A e \in Commands : d < e => state'[e] = "unposted"
    BY DEF PostInv
  <2>1. d # c /\ state[d] = "unposted"
    BY <1>4
  <2>2. \A e \in Commands : d < e => e # c /\ state[e] = "unposted"
    BY <1>3, <2>1 DEF PostInv
  <2> QED
    BY <1>1, <1>4, <2>1, <2>2 DEF PostInv
<1>7. RunInv'
  <2>1. \A d \in Commands : (OnStack(d) \/ IsHeld(d))' =>
          /\ ran'[d]
          /\ state'[d] \in {"Running", "Cancelled", "Completed"}
          /\ state'[d] = "Cancelled" => waiter'[d] # "waiting"
    BY <1>1, <1>4 DEF RunInv, Leaves
  <2> QED
    BY <2>1 DEF RunInv
<1>8. ClaimInv'
  <2>1. ~answer'.mine
    BY DEF Leaves, NoAnswer
  <2>2. answer' # NoAnswer =>
          /\ answer'.cmd \in Commands /\ state'[answer'.cmd] # "unposted"
          /\ answer'.outcome # "none"
    BY <1>4 DEF Leaves
  <2> QED
    BY <1>1, <1>2, <2>1, <2>2 DEF ClaimInv
<1>9. SettledInv'
  <2> SUFFICES ASSUME NEW o \in DidNotRun
               PROVE  /\ \A d \in Commands : Says(d, o)' => Settled(d, o)'
                      /\ answer'.outcome = o => Settled(answer.cmd, o)'
    BY DEF SettledInv, DidNotRun
  <2>1. \A d \in Commands : Settled(d, o) => Settled(d, o)'
    <3> SUFFICES ASSUME NEW d \in Commands, Settled(d, o) PROVE Settled(d, o)'
      OBVIOUS
    <3>1. /\ kind'[d] = kind[d] /\ ran'[d] = ran[d]
          /\ (OnStack(d) \/ IsHeld(d))' => OnStack(d) \/ IsHeld(d)
          /\ d \in sampled' => d \in sampled \/ OnStack(d) \/ IsHeld(d)
          /\ state'[d] = state[d] \/ state'[d] \in {"Cancelled", "Completed"}
      BY <1>1, <1>4 DEF Leaves
    <3> QED
      BY <3>1, SettledKept
  <2>2. \A d \in Commands : Says(d, o)' => Says(d, o)
    BY <1>1 DEF Says
  <2>3. ASSUME answer'.outcome = o PROVE answer'.cmd = c /\ Settled(c, o)'
    BY <2>3 DEF Leaves, NoAnswer, DidNotRun
  <2>4. ASSUME answer'.outcome = o
        PROVE  \E d \in Commands : d = answer'.cmd /\ Settled(d, o)'
    BY <2>3, <2>4
  <2> QED
    BY <2>1, <2>2, <2>4 DEF SettledInv
<1>10. AccountInv'
  <2>1. waiter[c] = "waiting" /\ promise[c] = "none" => answer'.cmd = c
    BY DEF Leaves
  <2> QED
    BY <1>1, <1>2, <2>1 DEF AccountInv, Leaves
<1> QED
  BY <1>5, <1>6, <1>7, <1>8, <1>9, <1>10

\* Fulfil: the record of the answer, field by field.
LEMMA FulfillFacts ==
  ASSUME NEW c \in Commands, NEW o \in Outcomes, Fulfill(c, o)
  PROVE  /\ answer' \in [cmd : Commands \union {NoCommand},
                         outcome : Outcomes \union {"none"}, mine : BOOLEAN]
         /\ answer'.cmd = c /\ answer'.outcome = o /\ ~answer'.mine
         /\ answer'.outcome # "none"
  BY DEF Fulfill, Outcomes

\* The next command of a batch: its frame is the outermost, and outside every body.
LEMMA NextOfBatch ==
  ASSUME IndInv, InFrame, Top.batch # <<>>, UNCHANGED queue,
         Continue([Top EXCEPT !.batch = Tail(@)])
  PROVE  /\ Top.batch = Batch /\ stack = <<>> /\ answer = NoAnswer
         /\ Head(Batch) \in Commands /\ InLine(Head(Batch))
         /\ frames' \in Seq(Frame) /\ Len(frames') = 1
         /\ frames'[1].todo = frames[1].todo
         /\ FrameInv' /\ OrderInv'
         /\ \A d \in Commands : InLine(d)' <=> InLine(d) /\ d # Head(Batch)
         /\ \A d \in Commands : InLine(d)' => Head(Batch) < d
<1> USE DEF IndInv
<1> DEFINE f == [Top EXCEPT !.batch = Tail(@)]
<1>1. frames # <<>> /\ answer = NoAnswer /\ Len(stack) = Top.depth
  BY DEF InFrame, Top
<1>2. /\ Len(frames) \in Nat \ {0} /\ Top = frames[Len(frames)] /\ Top \in Frame
  BY <1>1, LastFacts DEF TypeOK, Top
<1>3. Len(frames) = 1
  <2> DEFINE n == Len(frames)
  <2>1. n \notin 2..n
    BY <1>2 DEF FrameInv
  <2>2. n \in Nat \ {0}
    BY <1>2
  <2> HIDE DEF n
  <2>3. n = 1
    BY <2>1, <2>2
  <2> QED
    BY <2>3 DEF n
<1>4. Top = frames[1] /\ Batch = Top.batch /\ Batch # <<>>
  BY <1>1, <1>2, <1>3 DEF Batch
<1>5. stack = <<>>
  <2>1. Len(stack) = 0
    BY <1>1, <1>4 DEF FrameInv
  <2> QED
    BY <2>1, EmptySeq DEF TypeOK
<1>6. Batch \in Seq(Commands) /\ Increasing(Batch)
  BY BatchType DEF LineInv, OrderInv
<1>7. /\ Head(Batch) \in Commands
      /\ Tail(Batch) \in Seq(Commands)
      /\ Increasing(Tail(Batch))
      /\ \A c : In(c, Batch) <=> c = Head(Batch) \/ In(c, Tail(Batch))
      /\ ~In(Head(Batch), Tail(Batch))
      /\ \A c \in Commands : In(c, Tail(Batch)) => Head(Batch) < c
      /\ Head(Batch) = Batch[1]
  BY <1>4, <1>6, TailFacts
<1>8. /\ f \in Frame /\ f.batch = Tail(Batch) /\ f.depth = Top.depth /\ f.todo = Top.todo
  BY <1>2, <1>4, <1>7 DEF Frame
<1>9. /\ frames' \in Seq(Frame) /\ frames' # <<>> /\ Len(frames') = 1 /\ frames'[1] = f
  <2>1. frames' = Append(Front(frames), f)
    BY DEF Continue
  <2> HIDE DEF f
  <2> QED
    BY <1>1, <1>3, <1>8, <2>1, ReplaceLast DEF TypeOK
<1> HIDE DEF f
<1>10. Batch' = Tail(Batch)
  BY <1>8, <1>9 DEF Batch
<1>11. FrameInv'
  <2>1. \A i \in 2..Len(frames') : FALSE
    BY <1>9
  <2> QED
    BY <1>1, <1>4, <1>8, <1>9, <2>1 DEF FrameInv
<1>12. \A j \in 1..Len(queue) : queue[j] \in Commands /\ Head(Batch) < queue[j]
  <2>1. 1 \in 1..Len(Batch)
    BY <1>4, <1>6, EmptySeq, LenProperties
  <2> QED
    BY <1>7, <2>1, ElementOfSeq DEF LineInv, OrderInv, TypeOK
<1>13. OrderInv'
  <2>1. \A i \in 1..Len(Tail(Batch)), j \in 1..Len(queue) : Tail(Batch)[i] < queue[j]
    <3> SUFFICES ASSUME NEW i \in 1..Len(Tail(Batch)), NEW j \in 1..Len(queue)
                 PROVE  Tail(Batch)[i] < queue[j]
      OBVIOUS
    <3>1. In(Tail(Batch)[i], Batch)
      BY <1>7 DEF In
    <3> QED
      BY <3>1 DEF In, LineInv, OrderInv
  <2> QED
    BY <1>7, <1>10, <2>1 DEF OrderInv, LineInv, Increasing
<1>14. ~In(Head(Batch), queue)
  BY <1>7, <1>12 DEF In, Commands
<1>15. \A d \in Commands : InLine(d)' <=> InLine(d) /\ d # Head(Batch)
  <2>1. \A d : InLine(d)' <=> In(d, Tail(Batch)) \/ In(d, queue)
    BY <1>10 DEF InLine, In
  <2> QED
    BY <1>7, <1>14, <2>1 DEF InLine
<1>16. \A d \in Commands : InLine(d)' => Head(Batch) < d
  <2>1. \A d : InLine(d)' <=> In(d, Tail(Batch)) \/ In(d, queue)
    BY <1>10 DEF InLine, In
  <2>2. \A d \in Commands : In(d, queue) => Head(Batch) < d
    BY <1>12 DEF In
  <2> QED
    BY <1>7, <2>1, <2>2
<1>17. InLine(Head(Batch))
  BY <1>7 DEF InLine
<1> QED
  BY <1>1, <1>4, <1>5, <1>7, <1>8, <1>9, <1>11, <1>13, <1>15, <1>16, <1>17

\* Starting, or skipping, the next command keeps the invariant.
LEMMA StartNextKeeps ==
  ASSUME IndInv, StartNext
  PROVE  IndInv'
<1> USE DEF IndInv
<1>1. /\ InFrame /\ stage = "live" /\ Top.batch # <<>>
      /\ Continue([Top EXCEPT !.batch = Tail(@)])
      /\ UNCHANGED <<kind, claimed, promise, waiterVars, waiter, told, queue, held, fresh,
                     pumping, ready, stage, paused, wish, sampled>>
  BY DEF StartNext, waiterVars, hookVars, engineVars
<1>a. Head(Batch) \in Commands
  BY <1>1, NextOfBatch
<1>b. PICK c \in Commands : c = Head(Batch)
  BY <1>a
<1>2. /\ Top.batch = Batch /\ stack = <<>> /\ answer = NoAnswer
      /\ InLine(c)
      /\ frames' \in Seq(Frame) /\ Len(frames') = 1
      /\ FrameInv' /\ OrderInv'
      /\ \A d \in Commands : InLine(d)' <=> InLine(d) /\ d # c
  BY <1>1, <1>b, NextOfBatch
<1>3. /\ ~ran[c] /\ state[c] \in {"Pending", "Cancelled"}
      /\ ~OnStack(c) /\ ~IsHeld(c)
  BY <1>2 DEF LineInv, RunInv
<1>4. StageInv' /\ GameRunsOnlyIfAsked'
  BY <1>1 DEF StageInv, GameRunsOnlyIfAsked
<1>5. \A d : IsHeld(d)' <=> IsHeld(d)
  BY <1>1 DEF IsHeld
<1>6. ASSUME NEW o \in {"rejected", "command_cancelled"}, Fulfill(c, o),
             UNCHANGED <<state, ran, stack>>,
             kind[c] = "foreign" \/ state[c] # "Pending"
      PROVE  IndInv'
  <2>1. /\ answer' \in [cmd : Commands \union {NoCommand},
                        outcome : Outcomes \union {"none"}, mine : BOOLEAN]
        /\ answer'.cmd = c /\ answer'.outcome = o /\ ~answer'.mine
        /\ answer'.outcome # "none"
    <3>1. o \in Outcomes
      BY DEF Outcomes
    <3> QED
      BY <1>2, <1>6, <3>1, FulfillFacts
  <2>2. TypeOK'
    BY <1>1, <1>2, <1>6, <2>1 DEF TypeOK
  <2>3. \A x \in DidNotRun : Settled(c, x)'
    BY <1>1, <1>3, <1>6 DEF Settled
  <2>4. \A d : OnStack(d)' <=> OnStack(d)
    BY <1>6 DEF OnStack
  <2>5. \A d \in Commands : (OnStack(d) \/ IsHeld(d))' <=> (OnStack(d) \/ IsHeld(d)) /\ d # c
    BY <1>3, <1>5, <2>4
  <2>6. Leaves(c)
    BY <1>1, <1>2, <1>3, <1>6, <2>1, <2>3, <2>5 DEF Leaves
  <2>7. PlaceInv'
    BY <1>1, <1>5, <1>6, <2>4 DEF PlaceInv, RunInv
  <2> QED
    BY <1>2, <1>4, <2>2, <2>6, <2>7, LeavesKeeps
<1>7. ASSUME kind[c] # "foreign", state[c] = "Pending",
             state' = [state EXCEPT ![c] = "Running"],
             ran' = [ran EXCEPT ![c] = TRUE],
             stack' = Append(stack, [cmd |-> c, deferred |-> FALSE]),
             UNCHANGED answer
      PROVE  IndInv'
  <2> DEFINE b == [cmd |-> c, deferred |-> FALSE]
  <2>1. b \in [cmd : Commands, deferred : BOOLEAN] /\ b.cmd = c
    BY <1>2
  <2> HIDE DEF b
  <2>2. /\ stack' \in Seq([cmd : Commands, deferred : BOOLEAN])
        /\ Len(stack') = 1 /\ stack'[1] = b
    <3>1. stack' = Append(stack, b)
      BY <1>7 DEF b
    <3>2. Len(stack) = 0 /\ stack \in Seq([cmd : Commands, deferred : BOOLEAN])
      BY <1>2, EmptySeq DEF TypeOK
    <3>3. /\ Append(stack, b) \in Seq([cmd : Commands, deferred : BOOLEAN])
          /\ Len(Append(stack, b)) = Len(stack) + 1
          /\ Append(stack, b)[Len(stack) + 1] = b
      BY <2>1, <3>2, AppendFacts
    <3> QED
      BY <3>1, <3>2, <3>3
  <2>3. TypeOK'
    BY <1>1, <1>2, <1>7, <2>2 DEF TypeOK
  <2>4. \A d : OnStack(d)' <=> d = c
    <3>1. \A i \in 1..Len(stack') : i = 1
      BY <2>2
    <3>2. 1 \in 1..Len(stack')
      BY <2>2
    <3> QED
      BY <2>1, <2>2, <3>1, <3>2 DEF OnStack
  <2>5. \A d : ~OnStack(d)
    BY <1>2, EmptySeq DEF OnStack
  <2>6. /\ state'[c] = "Running" /\ ran'[c]
        /\ \A d \in Commands \ {c} : state'[d] = state[d] /\ ran'[d] = ran[d]
    BY <1>2, <1>7 DEF TypeOK
  <2>7. PlaceInv'
    <3>1. \A i, j \in 1..Len(stack') : i = j
      BY <2>2
    <3>2. \A d \in Commands : ~(OnStack(d) /\ IsHeld(d))'
      BY <1>3, <1>5, <2>4
    <3> QED
      BY <1>1, <3>1, <3>2 DEF PlaceInv, RunInv
  <2>8. LineInv'
    <3>1. \A d \in Commands : InLine(d)' =>
            /\ ~ran'[d]
            /\ state'[d] \in {"Pending", "Cancelled"}
            /\ state'[d] = "Cancelled" => waiter'[d] # "waiting"
      BY <1>1, <1>2, <2>6 DEF LineInv
    <3>2. \A d \in Commands : state'[d] = "Pending" => ~ran'[d]
      BY <2>6 DEF LineInv
    <3>3. \A d \in Commands : state'[d] = "Pending" /\ kind'[d] # "foreign" => InLine(d)'
      BY <1>1, <1>2, <2>6 DEF LineInv
    <3> QED
      BY <1>2, <3>1, <3>2, <3>3 DEF LineInv
  <2>9. PostInv'
    <3> SUFFICES ASSUME NEW d \in Commands, state'[d] = "unposted"
                 PROVE  /\ ~ran'[d] /\ ~claimed'[d] /\ promise'[d] = "none"
                        /\ told'[d] = "none" /\ waiter'[d] = "idle"
                        /\ \A e \in Commands : d < e => state'[e] = "unposted"
      BY DEF PostInv
    <3>1. d # c /\ state[d] = "unposted"
      BY <2>6
    <3>2. \A e \in Commands : d < e => e # c /\ state[e] = "unposted"
      BY <1>7, <3>1 DEF PostInv
    <3> QED
      BY <1>1, <2>6, <3>1, <3>2 DEF PostInv
  <2>10. RunInv'
    <3>1. \A d \in Commands : (OnStack(d) \/ IsHeld(d))' =>
            /\ ran'[d]
            /\ state'[d] \in {"Running", "Cancelled", "Completed"}
            /\ state'[d] = "Cancelled" => waiter'[d] # "waiting"
      BY <1>1, <1>3, <1>5, <2>4, <2>6 DEF RunInv
    <3> QED
      BY <2>7, <3>1 DEF RunInv
  <2>11. ClaimInv'
    BY <1>1, <1>2, <1>7 DEF ClaimInv
  <2>12. SettledInv'
    <3> SUFFICES ASSUME NEW o \in DidNotRun
                 PROVE  /\ \A d \in Commands : Says(d, o)' => Settled(d, o)'
                        /\ answer'.outcome # o
      BY DEF SettledInv, DidNotRun
    <3>1. ~Settled(c, o)
      BY <1>7 DEF Settled, Unsampled
    <3>2. \A d \in Commands \ {c} : Settled(d, o) => Settled(d, o)'
      BY <1>1, <1>5, <2>4, <2>6, SettledKept
    <3>3. answer'.outcome # o
      BY <1>2, <1>7 DEF NoAnswer, DidNotRun
    <3>4. \A d \in Commands : Says(d, o)' => Says(d, o)
      BY <1>1 DEF Says
    <3> QED
      BY <3>1, <3>2, <3>3, <3>4 DEF SettledInv
  <2>13. AccountInv'
    BY <1>1, <1>2, <1>5, <1>7, <2>4, <2>5 DEF AccountInv
  <2> QED
    BY <1>2, <1>4, <2>3, <2>8, <2>9, <2>10, <2>11, <2>12, <2>13
<1>8. \/ kind[c] = "foreign" /\ Fulfill(c, "rejected") /\ UNCHANGED <<state, ran, stack>>
      \/ /\ kind[c] # "foreign"
         /\ state[c] = "Pending"
         /\ state' = [state EXCEPT ![c] = "Running"]
         /\ ran' = [ran EXCEPT ![c] = TRUE]
         /\ stack' = Append(stack, [cmd |-> c, deferred |-> FALSE])
         /\ UNCHANGED answer
      \/ /\ kind[c] # "foreign" /\ state[c] # "Pending"
         /\ Fulfill(c, "command_cancelled") /\ UNCHANGED <<state, ran, stack>>
  BY <1>2, <1>b DEF StartNext
<1> QED
  BY <1>6, <1>7, <1>8

\* The drain of the queue keeps the invariant.
LEMMA CancelQueuedKeeps ==
  ASSUME IndInv, CancelQueued
  PROVE  IndInv'
<1> USE DEF IndInv
<1>1. /\ InFrame /\ stage = "draining" /\ Top.batch # <<>>
      /\ Continue([Top EXCEPT !.batch = Tail(@)])
      /\ UNCHANGED <<kind, ran, claimed, promise, waiterVars, waiter, told, queue, held, fresh,
                     pumping, ready, stack, stage, paused, wish, sampled>>
  BY DEF CancelQueued, waiterVars, hookVars, engineVars
<1>a. Head(Batch) \in Commands
  BY <1>1, NextOfBatch
<1>b. PICK c \in Commands : c = Head(Batch)
  BY <1>a
<1>2. /\ Top.batch = Batch /\ answer = NoAnswer
      /\ InLine(c)
      /\ frames' \in Seq(Frame) /\ Len(frames') = 1 /\ frames'[1].todo = frames[1].todo
      /\ FrameInv' /\ OrderInv'
      /\ \A d \in Commands : InLine(d)' <=> InLine(d) /\ d # c
  BY <1>1, <1>b, NextOfBatch
<1>3. \/ /\ state[c] = "Pending"
         /\ state' = [state EXCEPT ![c] = "Cancelled"]
         /\ Fulfill(c, "session_ended")
      \/ state[c] # "Pending" /\ UNCHANGED <<state, answer>>
  BY <1>2, <1>b DEF CancelQueued
<1>4. /\ ~ran[c] /\ state[c] \in {"Pending", "Cancelled"}
      /\ state[c] = "Cancelled" => waiter[c] # "waiting"
      /\ ~OnStack(c) /\ ~IsHeld(c)
  BY <1>2 DEF LineInv, RunInv
<1>5. StageInv' /\ GameRunsOnlyIfAsked'
  BY <1>1, <1>2 DEF StageInv, GameRunsOnlyIfAsked
<1>6. /\ \A d : IsHeld(d)' <=> IsHeld(d)
      /\ \A d : OnStack(d)' <=> OnStack(d)
  BY <1>1 DEF IsHeld, OnStack
<1>7. PlaceInv'
  BY <1>1, <1>6 DEF PlaceInv, RunInv
<1>8. \A d \in Commands : (OnStack(d) \/ IsHeld(d))' <=> (OnStack(d) \/ IsHeld(d)) /\ d # c
  BY <1>4, <1>6
<1>9. CASE state[c] = "Pending"
  <2>1. state' = [state EXCEPT ![c] = "Cancelled"] /\ Fulfill(c, "session_ended")
    BY <1>3, <1>9
  <2>2. /\ answer' \in [cmd : Commands \union {NoCommand},
                        outcome : Outcomes \union {"none"}, mine : BOOLEAN]
        /\ answer'.cmd = c /\ answer'.outcome = "session_ended" /\ ~answer'.mine
        /\ answer'.outcome # "none"
    <3>1. "session_ended" \in Outcomes
      BY DEF Outcomes
    <3> QED
      BY <1>2, <2>1, <3>1, FulfillFacts
  <2>3. TypeOK'
    BY <1>1, <1>2, <2>1, <2>2 DEF TypeOK
  <2>4. state'[c] = "Cancelled" /\ \A d \in Commands \ {c} : state'[d] = state[d]
    BY <1>2, <2>1 DEF TypeOK
  <2>5. Leaves(c)
    BY <1>1, <1>2, <1>8, <2>2, <2>4 DEF Leaves, DidNotRun
  <2> QED
    BY <1>2, <1>5, <1>7, <2>3, <2>5, LeavesKeeps
<1>10. CASE state[c] # "Pending"
  <2>1. UNCHANGED <<state, answer>>
    BY <1>3, <1>10
  <2>2. TypeOK'
    BY <1>1, <1>2, <2>1 DEF TypeOK
  <2>3. Leaves(c)
    BY <1>1, <1>2, <1>4, <1>8, <1>10, <2>1 DEF Leaves
  <2> QED
    BY <1>2, <1>5, <1>7, <2>2, <2>3, LeavesKeeps
<1> QED
  BY <1>9, <1>10

\* The main thread is inside a body only while the hook is live.
LEMMA InBodyFacts ==
  ASSUME IndInv, InBody
  PROVE  stack # <<>> /\ frames # <<>> /\ answer = NoAnswer /\ stage = "live"
<1> USE DEF IndInv
<1>1. frames # <<>> /\ answer = NoAnswer /\ Len(stack) > Last(frames).depth
  BY DEF InBody
<1>2. Last(frames) \in Frame
  BY <1>1, LastFacts DEF TypeOK
<1>3. Last(frames).depth \in Nat
  BY <1>2 DEF Frame
<1>4. stack # <<>>
  <2>1. Len(stack) # 0
    BY <1>1, <1>3, LenProperties DEF TypeOK
  <2> QED
    BY <2>1, EmptySeq
<1>5. stage = "live"
  BY <1>1, <1>4 DEF StageInv, TypeOK
<1> QED
  BY <1>1, <1>4, <1>5

\* A body ends: its command, and no other, leaves the stack.
LEMMA PopFacts ==
  ASSUME TypeOK, PlaceInv, stack # <<>>, stack' = Front(stack),
         NEW c, c = Last(stack).cmd
  PROVE  /\ c \in Commands /\ OnStack(c)
         /\ stack' \in Seq([cmd : Commands, deferred : BOOLEAN])
         /\ \A d : OnStack(d)' <=> OnStack(d) /\ d # c
         /\ \A i, j \in 1..Len(stack') : i # j => stack'[i].cmd # stack'[j].cmd
<1> DEFINE B == [cmd : Commands, deferred : BOOLEAN]
<1>1. /\ Len(stack) \in Nat \ {0}
      /\ Last(stack) = stack[Len(stack)] /\ Last(stack) \in B
      /\ stack' \in Seq(B) /\ Len(stack') = Len(stack) - 1
      /\ \A i \in 1..(Len(stack) - 1) : stack'[i] = stack[i]
  <2>1. stack \in Seq(B)
    BY DEF TypeOK
  <2> HIDE DEF B
  <2> QED
    BY <2>1, LastFacts
<1>2. c \in Commands /\ stack[Len(stack)].cmd = c
  BY <1>1
<1>3. Len(stack) \in 1..Len(stack) /\ Len(stack) \notin 1..Len(stack')
  BY <1>1
<1>4. /\ \A i \in 1..Len(stack') : i \in 1..Len(stack) /\ stack'[i] = stack[i]
      /\ \A i \in 1..Len(stack) : i \in 1..Len(stack') \/ i = Len(stack)
  BY <1>1
<1>5. \A d : OnStack(d)' <=> OnStack(d) /\ d # c
  <2> TAKE d
  <2>1. ASSUME OnStack(d)' PROVE OnStack(d) /\ d # c
    <3>1. PICK i \in 1..Len(stack') : stack'[i].cmd = d
      BY <2>1 DEF OnStack
    <3>2. i \in 1..Len(stack) /\ stack[i].cmd = d /\ i # Len(stack)
      BY <1>3, <1>4, <3>1
    <3> QED
      BY <1>2, <1>3, <3>2 DEF OnStack, PlaceInv
  <2>2. ASSUME OnStack(d), d # c PROVE OnStack(d)'
    <3>1. PICK i \in 1..Len(stack) : stack[i].cmd = d
      BY <2>2 DEF OnStack
    <3>2. i \in 1..Len(stack')
      BY <1>2, <1>4, <2>2, <3>1
    <3> QED
      BY <1>4, <3>1, <3>2 DEF OnStack
  <2> QED
    BY <2>1, <2>2
<1>6. \A i, j \in 1..Len(stack') : i # j => stack'[i].cmd # stack'[j].cmd
  BY <1>4 DEF PlaceInv
<1>7. OnStack(c)
  BY <1>2, <1>3 DEF OnStack
<1> QED
  BY <1>1, <1>2, <1>5, <1>6, <1>7

\* A command, and no other, leaves a slot or a list.
LEMMA DropFacts ==
  ASSUME TypeOK, PlaceInv, NEW k \in Slots \union Lists, NEW c \in held[k], Drop(k, c)
  PROVE  /\ c \in Commands /\ IsHeld(c)
         /\ held' \in [Slots \union Lists -> SUBSET Commands]
         /\ \A j \in Slots : \A d, e \in held'[j] : d = e
         /\ \A d : IsHeld(d)' <=> IsHeld(d) /\ d # c
         /\ \A j \in Slots \union Lists : \A d \in held'[j] : kind[d] = j
         /\ held'[k] = held[k] \ {c}
         /\ \A j \in (Slots \union Lists) \ {k} : held'[j] = held[j]
<1>1. held' = [held EXCEPT ![k] = held[k] \ {c}]
  BY DEF Drop
<1>2. /\ held'[k] = held[k] \ {c}
      /\ \A j \in (Slots \union Lists) \ {k} : held'[j] = held[j]
      /\ held' \in [Slots \union Lists -> SUBSET Commands]
      /\ c \in Commands
  BY <1>1 DEF TypeOK
<1>3. \A j \in Slots \union Lists : held'[j] \subseteq held[j] /\ held'[j] = held[j] \ {c}
  <2> TAKE j \in Slots \union Lists
  <2>1. CASE j = k
    BY <1>2, <2>1
  <2>2. CASE j # k
    <3>1. c \notin held[j]
      BY <2>2 DEF PlaceInv
    <3> QED
      BY <1>2, <2>2, <3>1
  <2> QED
    BY <2>1, <2>2
<1>4. \A d : IsHeld(d)' <=> IsHeld(d) /\ d # c
  BY <1>3 DEF IsHeld
<1> QED
  BY <1>2, <1>3, <1>4 DEF TypeOK, PlaceInv, IsHeld

\* A body that answers keeps the invariant.
LEMMA RunBodyKeeps ==
  ASSUME IndInv, RunBody
  PROVE  IndInv'
<1> USE DEF IndInv
<1>1. InBody /\ stack' = Front(stack)
      /\ UNCHANGED <<kind, ran, claimed, promise, waiterVars, waiter, told, queue, held, fresh,
                     pumping, ready, frames, stage, sampled>>
  BY DEF RunBody, waiterVars, hookVars
<1>2. stack # <<>> /\ frames # <<>> /\ answer = NoAnswer /\ stage = "live"
  BY <1>1, InBodyFacts
<1>3. PICK c : c = Last(stack).cmd
  OBVIOUS
<1>4. /\ c \in Commands /\ OnStack(c)
      /\ stack' \in Seq([cmd : Commands, deferred : BOOLEAN])
      /\ \A d : OnStack(d)' <=> OnStack(d) /\ d # c
      /\ \A i, j \in 1..Len(stack') : i # j => stack'[i].cmd # stack'[j].cmd
  BY <1>1, <1>2, <1>3, PopFacts DEF RunInv
<1>5. /\ state' = [state EXCEPT ![c] = "Completed"] /\ Fulfill(c, "answered")
      /\ \/ UNCHANGED <<paused, wish>>
         \/ /\ kind[c] \in {"pause", "resume"}
            /\ paused' = (kind[c] = "pause")
            /\ wish' = IF kind[c] = "pause" THEN "paused" ELSE "running"
  BY <1>3 DEF RunBody, Body, Complete
<1>6. /\ answer' \in [cmd : Commands \union {NoCommand},
                      outcome : Outcomes \union {"none"}, mine : BOOLEAN]
      /\ answer'.cmd = c /\ answer'.outcome = "answered" /\ ~answer'.mine
      /\ answer'.outcome # "none"
  <2>1. "answered" \in Outcomes
    BY DEF Outcomes
  <2> QED
    BY <1>4, <1>5, <2>1, FulfillFacts
<1>7. /\ paused' \in BOOLEAN /\ wish' \in {"paused", "running", "repause_failed"}
      /\ GameRunsOnlyIfAsked'
  <2>1. CASE UNCHANGED <<paused, wish>>
    BY <1>1, <2>1 DEF GameRunsOnlyIfAsked, TypeOK
  <2>2. CASE /\ kind[c] = "pause"
             /\ paused' = TRUE
             /\ wish' = "paused"
    BY <2>2 DEF GameRunsOnlyIfAsked
  <2>3. CASE /\ kind[c] = "resume"
             /\ paused' = FALSE
             /\ wish' = "running"
    BY <2>3 DEF GameRunsOnlyIfAsked
  <2> QED
    BY <1>5, <2>1, <2>2, <2>3
<1>8. TypeOK'
  BY <1>1, <1>4, <1>5, <1>6, <1>7 DEF TypeOK
<1>9. /\ \A d : IsHeld(d)' <=> IsHeld(d)
      /\ \A d : InLine(d)' <=> InLine(d)
      /\ Batch' = Batch
  BY <1>1 DEF IsHeld, InLine, In, Batch
<1>10. ~IsHeld(c) /\ ~InLine(c)
  BY <1>4 DEF RunInv, PlaceInv, LineInv
<1>11. state'[c] = "Completed" /\ \A d \in Commands \ {c} : state'[d] = state[d]
  BY <1>4, <1>5 DEF TypeOK
<1>12. Leaves(c)
  <2>1. \A d \in Commands : InLine(d)' <=> InLine(d) /\ d # c
    BY <1>9, <1>10
  <2>2. \A d \in Commands : (OnStack(d) \/ IsHeld(d))' <=> (OnStack(d) \/ IsHeld(d)) /\ d # c
    BY <1>4, <1>9, <1>10
  <2> QED
    BY <1>1, <1>2, <1>4, <1>6, <1>11, <2>1, <2>2 DEF Leaves, DidNotRun
<1>13. OrderInv'
  BY <1>1, <1>9 DEF OrderInv, LineInv, Increasing
<1>14. PlaceInv'
  BY <1>1, <1>4, <1>9 DEF PlaceInv, RunInv
<1>15. FrameInv' /\ StageInv'
  BY <1>1, <1>2 DEF FrameInv, StageInv
<1> QED
  BY <1>4, <1>7, <1>8, <1>12, <1>13, <1>14, <1>15, LeavesKeeps

\* A body that is held over frames keeps the invariant.
LEMMA HoldBodyKeeps ==
  ASSUME IndInv, HoldBody
  PROVE  IndInv'
<1> USE DEF IndInv
<1>1. InBody /\ stack' = Front(stack)
      /\ UNCHANGED <<waiterVars, kind, ran, claimed, promise, waiter, told,
                     queue, pumping, ready, frames, stage, wish, sampled>>
  BY DEF HoldBody, waiterVars
<1>2. stack # <<>> /\ frames # <<>> /\ answer = NoAnswer /\ stage = "live"
  BY <1>1, InBodyFacts
<1>3. PICK c : c = Last(stack).cmd
  OBVIOUS
<1>4. /\ c \in Commands /\ OnStack(c)
      /\ stack' \in Seq([cmd : Commands, deferred : BOOLEAN])
      /\ \A d : OnStack(d)' <=> OnStack(d) /\ d # c
      /\ \A i, j \in 1..Len(stack') : i # j => stack'[i].cmd # stack'[j].cmd
  BY <1>1, <1>2, <1>3, PopFacts DEF RunInv
<1>5. PICK k : k = kind[c]
  OBVIOUS
<1>6. /\ k \in Slots \union Lists
      /\ k \in Slots => held[k] = {}
      /\ held' = [held EXCEPT ![k] = held[k] \union {c}]
      /\ fresh' = IF k \in {"step", "profiler", "watch", "explore", "capture"}
                  THEN fresh \union {c} ELSE fresh
      /\ paused' = IF k = "step" THEN FALSE ELSE paused
      /\ \/ UNCHANGED <<state, answer>>
         \/ state' = [state EXCEPT ![c] = "Completed"] /\ Fulfill(c, "answered")
  BY <1>3, <1>5 DEF HoldBody, Body, MayHold, Complete
<1>a. ASSUME Fulfill(c, "answered")
      PROVE  /\ answer' \in [cmd : Commands \union {NoCommand},
                             outcome : Outcomes \union {"none"}, mine : BOOLEAN]
             /\ answer'.cmd = c /\ answer'.outcome = "answered" /\ ~answer'.mine
  <2>1. "answered" \in Outcomes
    BY DEF Outcomes
  <2> QED
    BY <1>4, <1>a, <2>1, FulfillFacts
<1>7. /\ held'[k] = held[k] \union {c}
      /\ \A j \in (Slots \union Lists) \ {k} : held'[j] = held[j]
      /\ held' \in [Slots \union Lists -> SUBSET Commands]
  BY <1>4, <1>6 DEF TypeOK
<1>8. \A j \in Slots : \A d, e \in held'[j] : d = e
  BY <1>6, <1>7 DEF TypeOK
<1>9. TypeOK'
  <2>1. fresh' \subseteq Commands /\ paused' \in BOOLEAN
    BY <1>4, <1>6 DEF TypeOK
  <2>2. answer' \in [cmd : Commands \union {NoCommand},
                     outcome : Outcomes \union {"none"}, mine : BOOLEAN]
    <3>1. UNCHANGED answer \/ Fulfill(c, "answered")
      BY <1>6
    <3> QED
      BY <1>a, <3>1 DEF TypeOK
  <2>3. state' \in [Commands -> {"unposted", "Pending", "Running", "Completed", "Cancelled"}]
    <3>1. UNCHANGED state \/ state' = [state EXCEPT ![c] = "Completed"]
      BY <1>6
    <3> QED
      BY <1>4, <3>1 DEF TypeOK
  <2> QED
    BY <1>1, <1>4, <1>7, <1>8, <2>1, <2>2, <2>3 DEF TypeOK
<1>10. \A d : IsHeld(d)' <=> IsHeld(d) \/ d = c
  <2> TAKE d
  <2>1. ASSUME IsHeld(d)' PROVE IsHeld(d) \/ d = c
    <3>1. PICK j \in Slots \union Lists : d \in held'[j]
      BY <2>1 DEF IsHeld
    <3> QED
      BY <1>6, <1>7, <3>1 DEF IsHeld
  <2>2. ASSUME IsHeld(d) PROVE IsHeld(d)'
    <3>1. PICK j \in Slots \union Lists : d \in held[j]
      BY <2>2 DEF IsHeld
    <3> QED
      BY <1>7, <3>1 DEF IsHeld
  <2>3. ASSUME d = c PROVE IsHeld(d)'
    BY <1>6, <1>7, <2>3 DEF IsHeld
  <2> QED
    BY <2>1, <2>2, <2>3
<1>11. /\ \A d : InLine(d)' <=> InLine(d)
       /\ Batch' = Batch
  BY <1>1 DEF InLine, In, Batch
<1>12. \A d \in Commands : (OnStack(d) \/ IsHeld(d))' <=> OnStack(d) \/ IsHeld(d)
  BY <1>4, <1>10
<1>13. PlaceInv'
  <2>1. \A d \in Commands : ~(OnStack(d) /\ IsHeld(d))'
    BY <1>4, <1>10 DEF RunInv, PlaceInv
  <2>2. \A j \in Slots \union Lists : \A d \in held'[j] : kind'[d] = j
    BY <1>1, <1>5, <1>7 DEF RunInv, PlaceInv
  <2> QED
    BY <1>4, <2>1, <2>2 DEF PlaceInv
<1>14. OrderInv'
  BY <1>1, <1>11 DEF OrderInv, LineInv, Increasing
<1>15. FrameInv' /\ StageInv'
  BY <1>1, <1>2 DEF FrameInv, StageInv
<1>16. GameRunsOnlyIfAsked'
  <2>1. CASE k = "step"
    BY <1>7, <2>1 DEF GameRunsOnlyIfAsked
  <2>2. CASE k # "step"
    <3>1. held'["step"] = held["step"]
      BY <1>7, <2>2 DEF Slots
    <3> QED
      BY <1>1, <1>6, <2>2, <3>1 DEF GameRunsOnlyIfAsked
  <2> QED
    BY <2>1, <2>2
<1>17. CASE UNCHANGED <<state, answer>>
  <2>1. UNCHANGED <<commandVars, waiterVars, answer>>
    BY <1>1, <1>17 DEF commandVars
  <2> QED
    BY <1>1, <1>9, <1>11, <1>12, <1>13, <1>14, <1>15, <1>16, <2>1, MovedKeeps
<1>18. CASE state' = [state EXCEPT ![c] = "Completed"] /\ Fulfill(c, "answered")
  <2>1. state'[c] = "Completed" /\ \A d \in Commands \ {c} : state'[d] = state[d]
    BY <1>4, <1>18 DEF TypeOK
  <2>2. ran[c] /\ ~InLine(c)
    BY <1>4 DEF RunInv, LineInv
  <2>3. /\ answer'.cmd = c /\ answer'.outcome # "none" /\ ~answer'.mine
        /\ answer'.outcome \notin DidNotRun
    BY <1>18, <1>a DEF DidNotRun
  <2>4. Leaves(c)
    BY <1>1, <1>2, <1>4, <1>11, <1>12, <2>1, <2>2, <2>3 DEF Leaves
  <2> QED
    BY <1>4, <1>9, <1>13, <1>14, <1>15, <1>16, <2>4, LeavesKeeps
<1> QED
  BY <1>6, <1>17, <1>18

\* A frame that processes what is held is not about to start anything.
LEMMA ProcessingFacts ==
  ASSUME IndInv, NEW k, Processing(k)
  PROVE  /\ k \in Slots \union Lists
         /\ frames # <<>> /\ answer = NoAnswer /\ stage = "live"
<1> USE DEF IndInv
<1>1. /\ frames # <<>> /\ answer = NoAnswer /\ stage = "live"
      /\ \E n \in Todo : k = Top.todo[n]
  BY DEF Processing, InFrame
<1>2. Top \in Frame
  BY <1>1, LastFacts DEF TypeOK, Top
<1>3. Top.todo \in Seq(Slots \union Lists)
  BY <1>2 DEF Frame
<1>4. PICK n \in 1..Len(Top.todo) : k = Top.todo[n]
  BY <1>1 DEF Todo
<1> QED
  BY <1>1, <1>3, <1>4, ElementOfSeq

\* What a command that waited over frames can come to.
Finals == {"answered", "session_ended", "unknown_outcome", "not_started"}

\* A command that waited over frames is done: it leaves its slot and is answered,
\* or its caller has been answered or has gone.
LEMMA FinishedKeeps ==
  ASSUME IndInv, NEW k \in Slots \union Lists, NEW c \in held[k], Drop(k, c),
         frames # <<>>, answer = NoAnswer,
         UNCHANGED <<kind, ran, claimed, promise, waiterVars, queue, fresh, pumping, ready,
                     frames, stack, stage>>,
         \/ \E o \in Finals, st \in {"Completed", "Cancelled"} :
              /\ state' = [state EXCEPT ![c] = st] /\ Fulfill(c, o)
              /\ o = "not_started" => k = "profiler" /\ c \notin sampled'
         \/ state[c] # "Running" /\ UNCHANGED <<state, answer>>,
         sampled' \subseteq sampled \union {c},
         paused' \in BOOLEAN, wish' \in {"paused", "running", "repause_failed"},
         GameRunsOnlyIfAsked'
  PROVE  IndInv'
<1> USE DEF IndInv
<1>1. UNCHANGED <<kind, ran, claimed, promise, waiter, told, queue, fresh, pumping, ready,
                  frames, stack, stage>>
  BY DEF waiterVars
<1>2. /\ c \in Commands /\ IsHeld(c)
      /\ held' \in [Slots \union Lists -> SUBSET Commands]
      /\ \A j \in Slots : \A d, e \in held'[j] : d = e
      /\ \A d : IsHeld(d)' <=> IsHeld(d) /\ d # c
      /\ \A j \in Slots \union Lists : \A d \in held'[j] : kind[d] = j
  BY DropFacts DEF RunInv
<1>3. /\ \A d : OnStack(d)' <=> OnStack(d)
      /\ \A d : InLine(d)' <=> InLine(d)
      /\ Batch' = Batch
  BY <1>1 DEF OnStack, InLine, In, Batch
<1>4. /\ ~OnStack(c) /\ ~InLine(c) /\ state[c] \in {"Running", "Cancelled", "Completed"}
      /\ state[c] = "Cancelled" => waiter[c] # "waiting"
      /\ state[c] = "Completed" /\ waiter[c] = "waiting" => promise[c] # "none"
  <2>1. answer.cmd # c
    BY <1>2 DEF NoAnswer, NoCommand, Commands
  <2> QED
    BY <1>2, <2>1 DEF RunInv, PlaceInv, LineInv, AccountInv
<1>5. /\ \A d \in Commands : InLine(d)' <=> InLine(d) /\ d # c
      /\ \A d \in Commands : (OnStack(d) \/ IsHeld(d))' <=> (OnStack(d) \/ IsHeld(d)) /\ d # c
  BY <1>2, <1>3, <1>4
<1>6. OrderInv'
  BY <1>1, <1>3 DEF OrderInv, LineInv, Increasing
<1>7. PlaceInv'
  BY <1>1, <1>2, <1>3 DEF PlaceInv, RunInv
<1>8. FrameInv'
  BY <1>1 DEF FrameInv
<1>9. StageInv'
  <2>1. stage \in {"live", "draining"}
    BY DEF StageInv, TypeOK
  <2> QED
    BY <1>1, <2>1 DEF StageInv
<1>s. /\ sampled' \subseteq Commands
      /\ \A d \in sampled' : d \in sampled \/ OnStack(d) \/ IsHeld(d)
  BY <1>2 DEF TypeOK
<1>10. CASE \E o \in Finals, st \in {"Completed", "Cancelled"} :
              /\ state' = [state EXCEPT ![c] = st] /\ Fulfill(c, o)
              /\ o = "not_started" => k = "profiler" /\ c \notin sampled'
  <2>1. PICK o \in Finals, st \in {"Completed", "Cancelled"} :
          /\ state' = [state EXCEPT ![c] = st] /\ Fulfill(c, o)
          /\ o = "not_started" => k = "profiler" /\ c \notin sampled'
    BY <1>10
  <2>2. /\ answer' \in [cmd : Commands \union {NoCommand},
                        outcome : Outcomes \union {"none"}, mine : BOOLEAN]
        /\ answer'.cmd = c /\ answer'.outcome = o /\ ~answer'.mine
        /\ answer'.outcome # "none"
    <3>1. o \in Outcomes
      BY DEF Outcomes, Finals
    <3> QED
      BY <1>2, <2>1, <3>1, FulfillFacts
  <2>3. state'[c] = st /\ \A d \in Commands \ {c} : state'[d] = state[d]
    BY <1>2, <2>1 DEF TypeOK
  <2>4. TypeOK'
    BY <1>1, <1>2, <1>s, <2>1, <2>2 DEF TypeOK
  <2>6. ASSUME NEW x \in DidNotRun, answer'.outcome = x PROVE Settled(c, x)'
    <3>1. x = "not_started" /\ k = "profiler" /\ c \notin sampled'
      BY <2>1, <2>2, <2>6 DEF DidNotRun, Finals
    <3>2. kind'[c] = "profiler"
      BY <1>1, <3>1 DEF RunInv, PlaceInv
    <3> QED
      BY <1>2, <1>3, <1>4, <2>3, <3>1, <3>2 DEF Settled, Unsampled
  <2>5. Leaves(c)
    BY <1>1, <1>2, <1>5, <1>s, <2>2, <2>3, <2>6 DEF Leaves
  <2> QED
    BY <1>2, <1>6, <1>7, <1>8, <1>9, <2>4, <2>5, LeavesKeeps
<1>11. CASE state[c] # "Running" /\ UNCHANGED <<state, answer>>
  <2>1. TypeOK'
    BY <1>1, <1>2, <1>s, <1>11 DEF TypeOK
  <2>2. Leaves(c)
    BY <1>1, <1>2, <1>4, <1>5, <1>s, <1>11 DEF Leaves
  <2> QED
    BY <1>2, <1>6, <1>7, <1>8, <1>9, <2>1, <2>2, LeavesKeeps
<1> QED
  BY <1>10, <1>11

\* A held command that ends in a frame keeps the invariant.
LEMMA FinishHeldKeeps ==
  ASSUME IndInv, NEW k, FinishHeld(k)
  PROVE  IndInv'
<1> USE DEF IndInv
<1>1. /\ Processing(k)
      /\ UNCHANGED <<kind, ran, claimed, promise, waiterVars, queue, fresh, pumping, ready,
                     frames, stack, stage>>
  BY DEF FinishHeld
<1>2. k \in Slots \union Lists /\ frames # <<>> /\ answer = NoAnswer /\ stage = "live"
  BY <1>1, ProcessingFacts
<1>3. PICK c \in held[k] \ fresh :
        \/ k = "step" /\ FinishStep(c) /\ UNCHANGED sampled
        \/ k = "profiler" /\ FinishProfiler(c) /\ UNCHANGED <<paused, wish>>
        \/ /\ k \notin {"step", "profiler", "capture"}
           /\ FinishOther(k, c) /\ UNCHANGED sampled
  BY DEF FinishHeld
<1>4. /\ Drop(k, c)
      /\ \/ \E o \in Finals, st \in {"Completed", "Cancelled"} :
              /\ state' = [state EXCEPT ![c] = st] /\ Fulfill(c, o)
              /\ o = "not_started" => k = "profiler" /\ c \notin sampled'
         \/ state[c] # "Running" /\ UNCHANGED <<state, answer>>
      /\ sampled' \subseteq sampled \union {c}
  <2>1. CASE k = "step" /\ FinishStep(c) /\ UNCHANGED sampled
    BY <2>1 DEF FinishStep, Complete, Finals
  <2>2. CASE k = "profiler" /\ FinishProfiler(c)
    <3>1. CASE Complete(c, "answered") /\ sampled' = sampled \union {c}
      BY <2>2, <3>1 DEF FinishProfiler, Complete, Finals
    <3>2. CASE /\ Complete(c, IF c \in sampled THEN "unknown_outcome" ELSE "not_started")
               /\ UNCHANGED sampled
      <4>1. CASE c \in sampled
        BY <2>2, <3>2, <4>1 DEF FinishProfiler, Complete, Finals
      <4>2. CASE c \notin sampled
        BY <2>2, <3>2, <4>2 DEF FinishProfiler, Complete, Finals
      <4> QED
        BY <4>1, <4>2
    <3> QED
      BY <2>2, <3>1, <3>2 DEF FinishProfiler
  <2>3. CASE FinishOther(k, c) /\ UNCHANGED sampled
    BY <2>3 DEF FinishOther, Complete, Finals
  <2> QED
    BY <1>3, <2>1, <2>2, <2>3
<1>5. k # "step" => held'["step"] = held["step"]
  <2>1. \A j \in (Slots \union Lists) \ {k} : held'[j] = held[j]
    BY <1>2, <1>3, <1>4, DropFacts DEF RunInv
  <2> QED
    BY <2>1 DEF Slots
<1>6. /\ paused' \in BOOLEAN /\ wish' \in {"paused", "running", "repause_failed"}
      /\ GameRunsOnlyIfAsked'
  <2>1. CASE k = "step"
    <3>1. \/ paused' = TRUE /\ UNCHANGED wish
          \/ wish' = "repause_failed" /\ UNCHANGED paused
      BY <1>3, <2>1 DEF FinishStep
    <3> QED
      BY <3>1 DEF GameRunsOnlyIfAsked, TypeOK
  <2>2. CASE k # "step"
    <3>1. \/ UNCHANGED <<paused, wish>>
          \/ paused' = TRUE /\ wish' = "paused"
      BY <1>3, <2>2 DEF FinishOther
    <3> QED
      BY <1>1, <1>5, <2>2, <3>1 DEF GameRunsOnlyIfAsked, TypeOK
  <2> QED
    BY <2>1, <2>2
<1> QED
  BY <1>1, <1>2, <1>4, <1>6, FinishedKeeps

\* The drain of the held commands keeps the invariant.
LEMMA DrainHeldKeeps ==
  ASSUME IndInv, DrainHeld
  PROVE  IndInv'
<1> USE DEF IndInv
<1>1. /\ InFrame /\ stage = "draining"
      /\ UNCHANGED <<kind, ran, claimed, promise, waiterVars, queue, fresh, pumping, ready,
                     frames, stack, stage, paused, wish, sampled>>
  BY DEF DrainHeld, engineVars
<1>2. frames # <<>> /\ answer = NoAnswer
  BY <1>1 DEF InFrame
<1>3. PICK n \in 1..Len(Top.todo) : \E c \in held[Top.todo[n]] : CancelHeld(Top.todo[n], c)
  BY DEF DrainHeld, Todo
<1>4. Top.todo[n] \in Slots \union Lists
  <2>1. Top \in Frame
    BY <1>2, LastFacts DEF TypeOK, Top
  <2>2. Top.todo \in Seq(Slots \union Lists)
    BY <2>1 DEF Frame
  <2> QED
    BY <2>2, ElementOfSeq
<1>5. PICK k \in Slots \union Lists : k = Top.todo[n]
  BY <1>4
<1>6. PICK c \in held[k] : CancelHeld(k, c)
  BY <1>3, <1>5
<1>7. /\ Drop(k, c)
      /\ \/ \E o \in Finals, st \in {"Completed", "Cancelled"} :
              /\ state' = [state EXCEPT ![c] = st] /\ Fulfill(c, o)
              /\ o = "not_started" => k = "profiler" /\ c \notin sampled'
         \/ state[c] # "Running" /\ UNCHANGED <<state, answer>>
  <2>1. /\ Ended(k, c) \in {"session_ended", "not_started"}
        /\ Ended(k, c) = "not_started" => k = "profiler" /\ c \notin sampled'
    BY <1>1 DEF Ended
  <2> HIDE DEF Ended
  <2> QED
    BY <1>6, <2>1 DEF CancelHeld, Complete, Finals
<1>8. /\ paused' \in BOOLEAN /\ wish' \in {"paused", "running", "repause_failed"}
      /\ GameRunsOnlyIfAsked'
  BY <1>1 DEF GameRunsOnlyIfAsked, TypeOK
<1> QED
  BY <1>1, <1>2, <1>7, <1>8, FinishedKeeps

\* A deferred capture that becomes a body keeps the invariant.
LEMMA TakeCaptureKeeps ==
  ASSUME IndInv, NEW k, TakeCapture(k)
  PROVE  IndInv'
<1> USE DEF IndInv
<1> DEFINE B == [cmd : Commands, deferred : BOOLEAN]
<1>1. /\ Processing(k) /\ k = "capture"
      /\ UNCHANGED <<commandVars, waiterVars, kind, state, ran, claimed, promise, waiter, told,
                     queue, fresh, pumping, ready, frames, answer, stage, paused, wish, sampled>>
  BY DEF TakeCapture, commandVars, waiterVars, engineVars
<1>2. k \in Slots \union Lists /\ frames # <<>> /\ answer = NoAnswer /\ stage = "live"
  BY <1>1, ProcessingFacts
<1>3. PICK c \in held[k] \ fresh :
        Drop(k, c) /\ stack' = Append(stack, [cmd |-> c, deferred |-> TRUE])
  BY DEF TakeCapture
<1>4. /\ c \in Commands /\ IsHeld(c)
      /\ held' \in [Slots \union Lists -> SUBSET Commands]
      /\ \A j \in Slots : \A d, e \in held'[j] : d = e
      /\ \A d : IsHeld(d)' <=> IsHeld(d) /\ d # c
      /\ \A j \in Slots \union Lists : \A d \in held'[j] : kind[d] = j
      /\ \A j \in (Slots \union Lists) \ {k} : held'[j] = held[j]
  BY <1>2, <1>3, DropFacts DEF RunInv
<1>5. PICK b \in B : b.cmd = c /\ stack' = Append(stack, b)
  BY <1>3, <1>4
<1>6. stack \in Seq(B)
  BY DEF TypeOK
<1>7. /\ stack' \in Seq(B) /\ Len(stack) \in Nat /\ Len(stack') = Len(stack) + 1
      /\ \A i \in 1..Len(stack) : stack'[i] = stack[i]
      /\ stack'[Len(stack) + 1] = b
  <2> HIDE DEF B
  <2> QED
    BY <1>5, <1>6, AppendFacts
<1>8. /\ \A i \in 1..Len(stack') : i \in 1..Len(stack) \/ i = Len(stack) + 1
      /\ \A i \in 1..Len(stack) : i \in 1..Len(stack')
      /\ Len(stack) + 1 \in 1..Len(stack')
  BY <1>7
<1>9. \A d : OnStack(d)' <=> OnStack(d) \/ d = c
  <2> TAKE d
  <2>1. ASSUME OnStack(d)' PROVE OnStack(d) \/ d = c
    BY <1>5, <1>7, <1>8, <2>1 DEF OnStack
  <2>2. ASSUME OnStack(d) PROVE OnStack(d)'
    <3>1. PICK i \in 1..Len(stack) : stack[i].cmd = d
      BY <2>2 DEF OnStack
    <3>2. i \in 1..Len(stack') /\ stack'[i].cmd = d
      BY <1>7, <1>8, <3>1
    <3> QED
      BY <3>2 DEF OnStack
  <2>3. ASSUME d = c PROVE OnStack(d)'
    BY <1>5, <1>7, <1>8, <2>3 DEF OnStack
  <2> QED
    BY <2>1, <2>2, <2>3
<1>10. ~OnStack(c)
  BY <1>4 DEF RunInv, PlaceInv
<1>11. TypeOK'
  BY <1>1, <1>4, <1>7 DEF TypeOK
<1>12. /\ \A d : InLine(d)' <=> InLine(d)
       /\ Batch' = Batch
  BY <1>1 DEF InLine, In, Batch
<1>13. PlaceInv'
  <2>1. \A i, j \in 1..Len(stack') : i # j => stack'[i].cmd # stack'[j].cmd
    <3>1. \A i \in 1..Len(stack) : stack'[i].cmd # c
      BY <1>7, <1>10 DEF OnStack
    <3>2. stack'[Len(stack) + 1].cmd = c
      BY <1>5, <1>7
    <3> QED
      BY <1>7, <1>8, <3>1, <3>2 DEF RunInv, PlaceInv
  <2>2. \A d \in Commands : ~(OnStack(d) /\ IsHeld(d))'
    BY <1>4, <1>9 DEF RunInv, PlaceInv
  <2> QED
    BY <1>1, <1>4, <2>1, <2>2 DEF PlaceInv
<1>14. \A d \in Commands : (OnStack(d) \/ IsHeld(d))' <=> OnStack(d) \/ IsHeld(d)
  BY <1>4, <1>9
<1>15. OrderInv'
  BY <1>1, <1>12 DEF OrderInv, LineInv, Increasing
<1>16. FrameInv' /\ StageInv'
  BY <1>1, <1>2 DEF FrameInv, StageInv
<1>17. GameRunsOnlyIfAsked'
  <2>1. held'["step"] = held["step"]
    BY <1>1, <1>4 DEF Slots
  <2> QED
    BY <1>1, <2>1 DEF GameRunsOnlyIfAsked
<1> QED
  BY <1>1, <1>11, <1>12, <1>13, <1>14, <1>15, <1>16, <1>17, MovedKeeps

\* Going on to the next held kind keeps the invariant.
LEMMA NextProcessorKeeps ==
  ASSUME IndInv, NEW k, NextProcessor(k)
  PROVE  IndInv'
<1> USE DEF IndInv
<1>1. /\ Processing(k)
      /\ fresh' = fresh \ held[k]
      /\ UNCHANGED <<commandVars, waiterVars, kind, state, ran, claimed, promise, waiter, told,
                     queue, held, pumping, ready, stack, answer, stage, paused, wish>>
  BY DEF NextProcessor, commandVars, waiterVars
<1>s. sampled' \subseteq sampled \union (held[k] \ fresh)
  BY DEF NextProcessor
<1>2. k \in Slots \union Lists /\ frames # <<>> /\ answer = NoAnswer /\ stage = "live"
  BY <1>1, ProcessingFacts
<1>3. /\ Len(frames) \in Nat \ {0} /\ Top = frames[Len(frames)] /\ Top \in Frame
  BY <1>2, LastFacts DEF TypeOK, Top
<1>4. PICK n \in 1..Len(Top.todo) :
        Continue([Top EXCEPT !.todo = SubSeq(@, n + 1, Len(@))])
  BY DEF NextProcessor, Todo
<1>5. Top.todo \in Seq(Slots \union Lists)
  BY <1>3 DEF Frame
<1>6. SubSeq(Top.todo, n + 1, Len(Top.todo)) \in Seq(Slots \union Lists)
  <2>1. /\ n + 1 \in Int /\ Len(Top.todo) \in Int
        /\ \A i \in (n + 1)..Len(Top.todo) : i \in 1..Len(Top.todo)
    BY <1>5, LenProperties
  <2>2. \A i \in (n + 1)..Len(Top.todo) : Top.todo[i] \in Slots \union Lists
    BY <1>5, <2>1, ElementOfSeq
  <2> QED
    BY <2>1, <2>2, SubSeqProperties
<1> DEFINE f == [Top EXCEPT !.todo = SubSeq(@, n + 1, Len(@))]
<1>7. f \in Frame /\ f.batch = Top.batch /\ f.depth = Top.depth
  BY <1>3, <1>6 DEF Frame
<1>8. frames' = Append(Front(frames), f)
  BY <1>4 DEF Continue
<1> HIDE DEF f
<1>9. /\ frames' \in Seq(Frame) /\ frames' # <<>> /\ Len(frames') = Len(frames)
      /\ frames'[Len(frames)] = f
      /\ \A i \in 1..(Len(frames) - 1) : frames'[i] = frames[i]
  BY <1>2, <1>7, <1>8, ReplaceLast DEF TypeOK
<1>10. \A i \in 1..Len(frames) :
         frames'[i].batch = frames[i].batch /\ frames'[i].depth = frames[i].depth
  <2> TAKE i \in 1..Len(frames)
  <2>1. i = Len(frames) \/ i \in 1..(Len(frames) - 1)
    BY <1>3
  <2> QED
    BY <1>3, <1>7, <1>9, <2>1
<1>11. 1 \in 1..Len(frames) /\ \A i \in 2..Len(frames) : i \in 1..Len(frames)
  BY <1>3
<1>12. FrameInv' /\ Batch' = Batch
  BY <1>2, <1>9, <1>10, <1>11 DEF FrameInv, Batch
<1>13. TypeOK'
  <2>1. held[k] \subseteq Commands
    BY <1>2 DEF TypeOK
  <2>2. sampled' \subseteq Commands
    BY <1>s, <2>1 DEF TypeOK
  <2> QED
    BY <1>1, <1>9, <2>2 DEF TypeOK
<1>16. \A d \in sampled' : d \in sampled \/ IsHeld(d)
  BY <1>2, <1>s DEF IsHeld
<1>14. /\ OrderInv'
       /\ \A d : InLine(d)' <=> InLine(d)
  BY <1>1, <1>12 DEF OrderInv, LineInv, InLine, In, Increasing
<1>15. /\ \A d : OnStack(d)' <=> OnStack(d)
       /\ \A d : IsHeld(d)' <=> IsHeld(d)
       /\ PlaceInv' /\ StageInv' /\ GameRunsOnlyIfAsked'
  BY <1>1, <1>2 DEF OnStack, IsHeld, RunInv, PlaceInv, StageInv, GameRunsOnlyIfAsked
<1> QED
  BY <1>1, <1>12, <1>13, <1>14, <1>15, <1>16, MovedKeeps

\* The end of a frame keeps the invariant.
LEMMA EndFrameKeeps ==
  ASSUME IndInv, EndFrame
  PROVE  IndInv'
<1> USE DEF IndInv
<1>1. /\ InFrame /\ Top.batch = <<>> /\ Todo = {}
      /\ frames' = Front(frames)
      /\ pumping' = IF Top.pumps THEN FALSE ELSE pumping
      /\ stage' = IF stage = "draining" THEN "drained" ELSE stage
      /\ UNCHANGED <<commandVars, waiterVars, kind, state, ran, claimed, promise, waiter, told,
                     queue, held, fresh, ready, stack, answer, paused, wish, sampled>>
  BY DEF EndFrame, commandVars, waiterVars, engineVars
<1>2. frames # <<>> /\ answer = NoAnswer /\ Len(stack) = Top.depth
  BY <1>1 DEF InFrame, Top
<1>3. /\ Len(frames) \in Nat \ {0} /\ Top = frames[Len(frames)] /\ Top \in Frame
      /\ frames' \in Seq(Frame) /\ Len(frames') = Len(frames) - 1
      /\ \A i \in 1..(Len(frames) - 1) : frames'[i] = frames[i]
  <2>1. frames \in Seq(Frame)
    BY DEF TypeOK
  <2>2. /\ Len(frames) \in Nat \ {0}
        /\ Last(frames) = frames[Len(frames)] /\ Last(frames) \in Frame
        /\ Front(frames) \in Seq(Frame) /\ Len(Front(frames)) = Len(frames) - 1
        /\ \A i \in 1..(Len(frames) - 1) : Front(frames)[i] = frames[i]
    BY <1>2, <2>1, LastFacts
  <2> QED
    BY <1>1, <2>2 DEF Top
<1>4. TypeOK'
  <2>1. pumping' \in BOOLEAN /\ stage' \in {"live", "stopped", "draining", "drained"}
    BY <1>1 DEF TypeOK
  <2> QED
    BY <1>1, <1>3, <2>1 DEF TypeOK
<1>5. FrameInv' /\ Batch' = Batch
  <2>1. CASE Len(frames) = 1
    <3>1. frames' = <<>>
      BY <1>3, <2>1, EmptySeq
    <3>2. Batch = <<>>
      BY <1>1, <1>2, <1>3, <2>1 DEF Batch
    <3>3. stack = <<>>
      <4>1. Len(stack) = 0
        BY <1>2, <1>3, <2>1 DEF FrameInv
      <4> QED
        BY <4>1, EmptySeq DEF TypeOK
    <3>4. \A i \in 2..Len(frames') : FALSE
      BY <1>3, <2>1
    <3> QED
      BY <1>1, <3>1, <3>2, <3>3, <3>4 DEF FrameInv, Batch
  <2>2. CASE Len(frames) # 1
    <3>1. /\ 1 \in 1..(Len(frames) - 1)
          /\ \A i \in 2..Len(frames') : i \in 2..Len(frames) /\ i \in 1..(Len(frames) - 1)
      BY <1>3, <2>2
    <3>2. frames' # <<>>
      BY <1>3, <3>1, EmptySeq
    <3> QED
      BY <1>2, <1>3, <3>1, <3>2 DEF FrameInv, Batch
  <2> QED
    BY <2>1, <2>2
<1>6. /\ OrderInv'
      /\ \A d : InLine(d)' <=> InLine(d)
  BY <1>1, <1>5 DEF OrderInv, LineInv, InLine, In, Increasing
<1>7. /\ \A d : OnStack(d)' <=> OnStack(d)
      /\ \A d : IsHeld(d)' <=> IsHeld(d)
      /\ PlaceInv' /\ GameRunsOnlyIfAsked'
  BY <1>1 DEF OnStack, IsHeld, RunInv, PlaceInv, GameRunsOnlyIfAsked
<1>8. StageInv'
  <2>1. stage \in {"live", "draining"}
    BY <1>2 DEF StageInv, TypeOK
  <2>2. CASE stage = "live"
    BY <1>1, <2>2 DEF StageInv
  <2>3. CASE stage = "draining"
    <3>1. Len(frames) = 1 /\ frames[1].todo = DrainOrder /\ queue = <<>> /\ ~ready
      BY <2>3 DEF StageInv
    <3>2. frames' = <<>>
      BY <1>3, <3>1, EmptySeq
    <3>3. Top.todo = DrainOrder
      BY <1>3, <3>1
    <3>4. \A n \in 1..8 : held[DrainOrder[n]] = {}
      <4>1. Len(DrainOrder) = 8
        BY DEF DrainOrder
      <4> QED
        BY <1>1, <3>3, <4>1 DEF Todo
    <3>5. \A k \in (Slots \union Lists) \ {"capture", "script"} : held[k] = {}
      <4>1. \A k \in (Slots \union Lists) \ {"capture", "script"} :
              \E n \in 1..8 : DrainOrder[n] = k
        <5>1. /\ DrainOrder[1] = "step" /\ DrainOrder[2] = "scan" /\ DrainOrder[3] = "scene"
              /\ DrainOrder[4] = "refresh" /\ DrainOrder[5] = "reimport"
              /\ DrainOrder[6] = "profiler" /\ DrainOrder[7] = "watch"
              /\ DrainOrder[8] = "explore"
          BY DEF DrainOrder
        <5>2. 1 \in 1..8 /\ 2 \in 1..8 /\ 3 \in 1..8 /\ 4 \in 1..8 /\ 5 \in 1..8
              /\ 6 \in 1..8 /\ 7 \in 1..8 /\ 8 \in 1..8
          OBVIOUS
        <5> QED
          BY <5>1, <5>2 DEF Slots, Lists
      <4> QED
        BY <3>4, <4>1
    <3> QED
      BY <1>1, <1>2, <2>3, <3>1, <3>2, <3>5 DEF StageInv
  <2> QED
    BY <2>1, <2>2, <2>3
<1> QED
  BY <1>1, <1>4, <1>5, <1>6, <1>7, <1>8, MovedKeeps

\* Going to shut down keeps the invariant.
LEMMA StopKeeps ==
  ASSUME IndInv, Stop
  PROVE  IndInv'
<1> USE DEF IndInv
<1>1. /\ frames = <<>> /\ answer = NoAnswer /\ ready' = FALSE /\ stage' = "stopped"
      /\ UNCHANGED <<commandVars, waiterVars, kind, state, ran, claimed, promise, waiter, told,
                     queue, held, fresh, pumping, frames, stack, answer, paused, wish, sampled>>
  BY DEF Stop, Idle, commandVars, waiterVars, engineVars
<1>2. TypeOK' /\ StageInv' /\ GameRunsOnlyIfAsked'
  BY <1>1 DEF TypeOK, StageInv, GameRunsOnlyIfAsked
<1>3. /\ Batch' = Batch
      /\ \A d : InLine(d)' <=> InLine(d)
      /\ \A d : OnStack(d)' <=> OnStack(d)
      /\ \A d : IsHeld(d)' <=> IsHeld(d)
  BY <1>1, PlacesKept
<1>4. OrderInv' /\ PlaceInv' /\ FrameInv'
  BY <1>1, <1>3 DEF OrderInv, LineInv, PlaceInv, RunInv, FrameInv, Increasing
<1> QED
  BY <1>1, <1>2, <1>3, <1>4, MovedKeeps

\* Swapping the queue out to drain it keeps the invariant.
LEMMA DrainKeeps ==
  ASSUME IndInv, Drain
  PROVE  IndInv'
<1> USE DEF IndInv
<1> DEFINE f == [batch |-> queue, todo |-> DrainOrder, depth |-> 0, pumps |-> FALSE]
<1>1. /\ frames = <<>> /\ answer = NoAnswer /\ stage = "stopped" /\ stage' = "draining"
      /\ queue' = <<>> /\ frames' = <<f>>
      /\ UNCHANGED <<commandVars, waiterVars, kind, state, ran, claimed, promise, waiter, told,
                     held, fresh, pumping, ready, stack, answer, paused, wish, sampled>>
  BY DEF Drain, Idle, commandVars, waiterVars, engineVars
<1>2. f \in Frame /\ f.batch = queue /\ f.depth = 0 /\ f.todo = DrainOrder
  BY OrdersAreTyped DEF Frame, TypeOK
<1> HIDE DEF f
<1>3. frames' \in Seq(Frame) /\ frames' # <<>> /\ Len(frames') = 1 /\ frames'[1] = f
  BY <1>1, <1>2
<1>4. Batch' = queue /\ Batch = <<>> /\ Len(Batch) = 0
  BY <1>1, <1>2, <1>3 DEF Batch
<1>5. TypeOK'
  BY <1>1, <1>3 DEF TypeOK
<1>6. stack = <<>>
  BY <1>1 DEF FrameInv
<1>7. FrameInv'
  <2>1. \A i \in 2..Len(frames') : FALSE
    BY <1>3
  <2> QED
    BY <1>2, <1>3, <2>1 DEF FrameInv
<1>8. Len(queue') = 0 /\ \A i \in 1..0 : FALSE
  BY <1>1
<1>9. OrderInv'
  BY <1>4, <1>8 DEF OrderInv, LineInv, Increasing
<1>10. \A d : InLine(d)' <=> InLine(d)
  BY <1>4, <1>8 DEF InLine, In
<1>11. /\ \A d : OnStack(d)' <=> OnStack(d)
       /\ \A d : IsHeld(d)' <=> IsHeld(d)
       /\ PlaceInv' /\ GameRunsOnlyIfAsked'
  BY <1>1 DEF OnStack, IsHeld, RunInv, PlaceInv, GameRunsOnlyIfAsked
<1>12. StageInv'
  BY <1>1, <1>2, <1>3, <1>6 DEF StageInv
<1> QED
  BY <1>1, <1>5, <1>7, <1>9, <1>10, <1>11, <1>12, MovedKeeps

\* A step that changes nothing keeps the invariant.
LEMMA StutterKeeps ==
  ASSUME IndInv, UNCHANGED vars
  PROVE  IndInv'
<1> USE DEF IndInv
<1>1. UNCHANGED <<commandVars, waiterVars, kind, state, ran, claimed, promise, waiter, told,
                  queue, held, fresh, pumping, ready, frames, stack, answer, stage, paused,
                  wish, sampled>>
  BY DEF vars, commandVars, waiterVars, hookVars, mainVars, engineVars
<1>2. TypeOK' /\ StageInv' /\ GameRunsOnlyIfAsked'
  BY <1>1 DEF TypeOK, StageInv, GameRunsOnlyIfAsked
<1>3. /\ Batch' = Batch
      /\ \A d : InLine(d)' <=> InLine(d)
      /\ \A d : OnStack(d)' <=> OnStack(d)
      /\ \A d : IsHeld(d)' <=> IsHeld(d)
  BY <1>1, PlacesKept
<1>4. OrderInv' /\ PlaceInv' /\ FrameInv'
  BY <1>1, <1>3 DEF OrderInv, LineInv, PlaceInv, RunInv, FrameInv, Increasing
<1> QED
  BY <1>1, <1>2, <1>3, <1>4, MovedKeeps

-----------------------------------------------------------------------------
(* The theorems.                                                           *)

\* The invariant holds before the first command.
LEMMA InitHolds ==
  ASSUME Init
  PROVE  IndInv
<1> USE DEF Init
<1>1. TypeOK
  <2>1. <<>> \in Seq(Commands) /\ <<>> \in Seq(Frame)
        /\ <<>> \in Seq([cmd : Commands, deferred : BOOLEAN])
    BY EmptySeq
  <2>2. NoAnswer \in [cmd : Commands \union {NoCommand}, outcome : Outcomes \union {"none"},
                      mine : BOOLEAN]
    BY DEF NoAnswer
  <2>3. "plain" \in AllKinds
    BY DEF AllKinds
  <2>4. /\ paused \in BOOLEAN /\ wish \in {"paused", "running", "repause_failed"}
        /\ sampled \subseteq Commands
    OBVIOUS
  <2>5. /\ held \in [Slots \union Lists -> SUBSET Commands]
        /\ \A k \in Slots \union Lists : held[k] = {}
    OBVIOUS
  <2> QED
    BY <2>1, <2>2, <2>3, <2>4, <2>5 DEF TypeOK
<1>2. Batch = <<>> /\ Len(Batch) = 0 /\ Len(queue) = 0 /\ Len(stack) = 0 /\ Len(frames) = 0
  BY DEF Batch
<1>3. /\ \A i \in 1..0 : FALSE
      /\ \A i \in 2..0 : FALSE
  OBVIOUS
<1>4. \A c : ~InLine(c) /\ ~OnStack(c) /\ ~IsHeld(c)
  <2>1. \A k \in Slots \union Lists : held[k] = {}
    OBVIOUS
  <2> QED
    BY <1>2, <1>3, <2>1 DEF InLine, In, OnStack, IsHeld
<1>5. /\ \A c \in Commands : /\ state[c] = "unposted" /\ ~ran[c] /\ ~claimed[c]
                             /\ promise[c] = "none" /\ told[c] = "none" /\ waiter[c] = "idle"
      /\ answer.cmd = NoCommand /\ answer.outcome = "none" /\ ~answer.mine
  BY DEF NoAnswer
<1>6. OrderInv
  BY <1>2, <1>3 DEF OrderInv, Increasing
<1>7. LineInv /\ PostInv
  BY <1>4, <1>5, <1>6 DEF LineInv, PostInv
<1>8. PlaceInv
  BY <1>2, <1>3, <1>4 DEF PlaceInv, IsHeld
<1>9. RunInv
  BY <1>4, <1>8 DEF RunInv
<1>10. FrameInv
  BY <1>2, <1>3 DEF FrameInv
<1>11. ClaimInv
  BY <1>5 DEF ClaimInv
<1>12. SettledInv
  BY <1>5 DEF SettledInv, Says, DidNotRun
<1>13. AccountInv
  BY <1>5 DEF AccountInv
<1>14. StageInv
  BY DEF StageInv
<1>15. GameRunsOnlyIfAsked
  BY DEF GameRunsOnlyIfAsked
<1> QED
  BY <1>1, <1>7, <1>9, <1>10, <1>11, <1>12, <1>13, <1>14, <1>15 DEF IndInv

\* Every step keeps the invariant.
LEMMA NextKeeps ==
  ASSUME IndInv, [Next]_vars
  PROVE  IndInv'
<1>1. ASSUME NEW c \in Commands, Post(c) PROVE IndInv'
  BY <1>1, PostKeeps
<1>2. ASSUME NEW c \in Commands, Await(c) PROVE IndInv'
  BY <1>2, AwaitKeeps
<1>3. CASE TryClaimResponse
  BY <1>3, TryClaimResponseKeeps
<1>4. CASE Publish
  BY <1>4, PublishKeeps
<1>5. CASE ProcessQueue
  BY <1>5, ProcessQueueKeeps
<1>6. CASE StartNext
  BY <1>6, StartNextKeeps
<1>7. CASE RunBody
  BY <1>7, RunBodyKeeps
<1>8. CASE HoldBody
  BY <1>8, HoldBodyKeeps
<1>9. CASE EndFrame
  BY <1>9, EndFrameKeeps
<1>10. ASSUME NEW k, FinishHeld(k) PROVE IndInv'
  BY <1>10, FinishHeldKeeps
<1>11. ASSUME NEW k, TakeCapture(k) PROVE IndInv'
  BY <1>11, TakeCaptureKeeps
<1>12. ASSUME NEW k, NextProcessor(k) PROVE IndInv'
  BY <1>12, NextProcessorKeeps
<1>13. CASE Stop
  BY <1>13, StopKeeps
<1>14. CASE Drain
  BY <1>14, DrainKeeps
<1>15. CASE CancelQueued
  BY <1>15, CancelQueuedKeeps
<1>16. CASE DrainHeld
  BY <1>16, DrainHeldKeeps
<1>17. CASE UNCHANGED vars
  BY <1>17, StutterKeeps
<1>18. CASE Main
  BY <1>18, <1>5, <1>6, <1>7, <1>8, <1>9, <1>10, <1>11, <1>12, <1>13, <1>14, <1>15, <1>16
     DEF Main
<1> QED
  BY <1>1, <1>2, <1>3, <1>4, <1>17, <1>18 DEF Next, Over

\* The invariant of the command queue: a command is in one place at a time, in
\* line, in a body, held over frames or being answered, and what its caller has
\* been told agrees with where it is (editor_hook.cpp, CommandControl).
THEOREM QueueInvariant == Spec => []IndInv
<1>1. Init => IndInv
  BY InitHolds
<1>2. IndInv /\ [Next]_vars => IndInv'
  BY NextKeeps
<1> QED
  BY <1>1, <1>2, PTL DEF Spec

\* Every variable of the hook, the waiters and the engine keeps its type; a slot
\* holds one command at most (m_pendingRuntimeStep and its like).
THEOREM TypeCorrect == Spec => []TypeOK
<1>1. IndInv => TypeOK
  BY DEF IndInv
<1> QED
  BY <1>1, QueueInvariant, PTL

\* A caller told that its command did not start can send it again: awaitRuntimeCommand
\* and processQueue agree on it whatever the interleaving.
THEOREM ToldNotStartedIsTrue == Spec => []NotStartedIsTrue
<1>1. IndInv => NotStartedIsTrue
  <2> SUFFICES ASSUME IndInv, NEW c \in Commands, told[c] \in DidNotRun
               PROVE  \/ ~ran[c]
                      \/ told[c] = "not_started" /\ kind[c] = "profiler" /\ c \notin sampled
    BY DEF NotStartedIsTrue, DidNotRun
  <2>1. Settled(c, told[c])
    BY DEF IndInv, SettledInv, Says
  <2> QED
    BY <2>1 DEF Settled, Unsampled
<1> QED
  BY <1>1, QueueInvariant, PTL

\* A game left paused runs on only when a resume, or a step that could not pause it
\* again, was the last word (scheduleRuntimeStep, processRuntimeStepFrame).
THEOREM PausedStaysPaused == Spec => []GameRunsOnlyIfAsked
<1>1. IndInv => GameRunsOnlyIfAsked
  BY DEF IndInv
<1> QED
  BY <1>1, QueueInvariant, PTL

\* After cancelPendingCommands no caller waits for an answer nobody will give,
\* unless it asked for a capture or called a coroutine.
THEOREM DrainAnswersAll == Spec => []NobodyLeftWaiting
<1>1. ASSUME IndInv, stage = "drained",
             NEW c \in Commands, waiter[c] = "waiting", kind[c] \notin {"capture", "script"},
             promise[c] = "none"
      PROVE  FALSE
  <2> USE <1>1 DEF IndInv
  <2>1. /\ frames = <<>> /\ queue = <<>> /\ answer = NoAnswer
        /\ \A k \in (Slots \union Lists) \ {"capture", "script"} : held[k] = {}
    BY DEF StageInv
  <2>2. stack = <<>> /\ Batch = <<>>
    BY <2>1 DEF FrameInv, Batch
  <2>3. ~InLine(c) /\ ~OnStack(c)
    BY <2>1, <2>2, EmptySeq DEF InLine, In, OnStack
  <2>4. ~IsHeld(c)
    BY <2>1 DEF IsHeld, RunInv, PlaceInv
  <2>5. answer.cmd # c
    BY <2>1 DEF NoAnswer, NoCommand, Commands
  <2> QED
    BY <2>3, <2>4, <2>5 DEF AccountInv
<1>2. IndInv => NobodyLeftWaiting
  BY <1>1 DEF NobodyLeftWaiting
<1> QED
  BY <1>2, QueueInvariant, PTL

\* Only a frame that takes the next of its batch starts a command, and only three
\* steps set a promise.
LEMMA WhoDoesWhat ==
  ASSUME [Next]_vars
  PROVE  /\ StartNext \/ UNCHANGED ran
         /\ \/ UNCHANGED promise
            \/ Publish
            \/ \E c \in Commands : Post(c) \/ AnswerNotStarted(c) \/ AnswerUnknown(c)
<1>1. ASSUME NEW c \in Commands, Await(c)
      PROVE  /\ UNCHANGED ran
             /\ UNCHANGED promise \/ AnswerNotStarted(c) \/ AnswerUnknown(c)
  BY <1>1 DEF Await, GetAnswer, DeadlinePasses, TryCancelPending, TryCancelRunning, LastWait,
              AnswerNotStarted, AnswerUnknown, commandVars
<1>2. ASSUME NEW c \in Commands, Post(c) PROVE UNCHANGED ran
  BY <1>2 DEF Post
<1>3. CASE TryClaimResponse
  BY <1>3 DEF TryClaimResponse
<1>4. CASE Publish
  BY <1>4 DEF Publish
<1>5. CASE ProcessQueue \/ StartNext \/ RunBody \/ HoldBody \/ EndFrame
  BY <1>5 DEF ProcessQueue, FrameCallback, StartNext, RunBody, HoldBody, EndFrame, commandVars
<1>6. ASSUME NEW k, FinishHeld(k) \/ TakeCapture(k) \/ NextProcessor(k)
      PROVE  UNCHANGED <<ran, promise>>
  BY <1>6 DEF FinishHeld, TakeCapture, NextProcessor, commandVars
<1>7. CASE Stop \/ Drain \/ CancelQueued \/ DrainHeld
  BY <1>7 DEF Stop, Drain, CancelQueued, DrainHeld, commandVars
<1>8. CASE UNCHANGED vars
  BY <1>8 DEF vars, commandVars
<1> QED
  BY <1>1, <1>2, <1>3, <1>4, <1>5, <1>6, <1>7, <1>8 DEF Next, Main, Over

\* A promise is fulfilled once: tryClaimResponse lets one side publish, and what it
\* published stays.
THEOREM OneAnswer == Spec => PublishedOnce
<1>1. ASSUME IndInv, [Next]_vars, NEW c \in Commands, promise[c] # "none"
      PROVE  promise'[c] = promise[c]
  <2> USE <1>1 DEF IndInv
  <2>1. claimed[c] /\ state[c] # "unposted"
    BY DEF ClaimInv, PostInv
  <2>2. CASE Publish
    <3>1. promise' = [promise EXCEPT ![answer.cmd] = answer.outcome] /\ answer.cmd # c
      BY <2>2 DEF Publish, ClaimInv
    <3> QED
      BY <3>1 DEF TypeOK
  <2>3. ASSUME NEW d \in Commands, Post(d) PROVE promise'[c] = promise[c]
    <3>1. d # c
      BY <2>1, <2>3 DEF Post
    <3> QED
      BY <2>3, <3>1 DEF Post, TypeOK
  <2>4. ASSUME NEW d \in Commands, AnswerNotStarted(d) \/ AnswerUnknown(d)
        PROVE  promise'[c] = promise[c]
    <3>1. \/ UNCHANGED promise
          \/ ~claimed[d] /\ \E o : promise' = [promise EXCEPT ![d] = o]
      BY <2>4 DEF AnswerNotStarted, AnswerUnknown, ClaimFor
    <3> QED
      BY <2>1, <3>1 DEF TypeOK
  <2> QED
    BY <2>2, <2>3, <2>4, WhoDoesWhat
<1>2. IndInv /\ [Next]_vars =>
        [\A c \in Commands : promise[c] # "none" => promise'[c] = promise[c]]_vars
  BY <1>1
<1> QED
  BY <1>2, QueueInvariant, PTL DEF Spec, PublishedOnce

\* The command a step starts is the first of the outermost frame's batch.
LEMMA WhatStarts ==
  ASSUME IndInv, [Next]_vars, NEW c \in Commands, ~ran[c], ran'[c]
  PROVE  /\ StartNext /\ stack = <<>>
         /\ c = Head(Batch)
         /\ \A d \in Commands : InLine(d) => d = c \/ c < d
<1>1. StartNext
  BY WhoDoesWhat
<1>2. /\ InFrame /\ Top.batch # <<>> /\ Continue([Top EXCEPT !.batch = Tail(@)])
      /\ UNCHANGED queue
  BY <1>1 DEF StartNext, hookVars
<1>3. /\ Top.batch = Batch /\ stack = <<>>
      /\ Head(Batch) \in Commands
      /\ \A d \in Commands : InLine(d)' <=> InLine(d) /\ d # Head(Batch)
      /\ \A d \in Commands : InLine(d)' => Head(Batch) < d
  BY <1>2, NextOfBatch
<1>4. \/ UNCHANGED ran
      \/ ran' = [ran EXCEPT ![Head(Batch)] = TRUE]
  BY <1>1, <1>3 DEF StartNext
<1>5. c = Head(Batch)
  BY <1>3, <1>4 DEF IndInv, TypeOK
<1> QED
  BY <1>1, <1>3, <1>5

\* No command starts inside another one's body, however the engine re-enters
\* processQueue.
THEOREM StartsAreAlone == Spec => StartedAlone
<1>1. IndInv /\ [Next]_vars => [\A c \in Commands : ~ran[c] /\ ran'[c] => stack = <<>>]_vars
  BY WhatStarts
<1> QED
  BY <1>1, QueueInvariant, PTL DEF Spec, StartedAlone

\* Commands start in the order they were posted (processQueue: "nothing overtakes
\* them").
THEOREM StartsAreInOrder == Spec => StartedInOrder
<1>1. ASSUME IndInv, [Next]_vars, NEW c \in Commands, NEW d \in Commands,
             ~ran[c], ran'[c], d < c, state[d] = "Pending", kind[d] # "foreign"
      PROVE  FALSE
  <2>1. InLine(d)
    BY <1>1 DEF IndInv, LineInv
  <2>2. d = c \/ c < d
    BY <1>1, <2>1, WhatStarts
  <2> QED
    BY <1>1, <2>2 DEF Commands
<1>2. IndInv /\ [Next]_vars =>
        [\A c, d \in Commands :
           ~ran[c] /\ ran'[c] /\ d < c /\ state[d] = "Pending" => kind[d] = "foreign"]_vars
  BY <1>1
<1> QED
  BY <1>2, QueueInvariant, PTL DEF Spec, StartedInOrder
=============================================================================
