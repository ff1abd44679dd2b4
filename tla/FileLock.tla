------------------------------ MODULE FileLock ------------------------------
(***************************************************************************)
(* The exclusive operating-system lock every blackboard call runs under    *)
(* (src/src/common/file_lock.cpp, and withBoardLock in                     *)
(* src/src/offline/blackboard.cpp).                                        *)
(*                                                                         *)
(* A call first reads the wall clock (now_ms), and only then starts to     *)
(* poll for the lock, so the time it decides with may be as old as its     *)
(* wait.  The lock belongs to an open file description: the operating      *)
(* system frees it when the holder dies, however it dies.                  *)
(*                                                                         *)
(* There is one clock, shared by all processes of the machine, that never  *)
(* goes back; a tick stands for some number of milliseconds.               *)
(***************************************************************************)
EXTENDS Naturals

CONSTANTS Procs,      \* the processes (or threads) that use the board
          NoProc,     \* no process: the lock is free
          LockWait,   \* kLockWait: how long a caller polls, in ticks
          MaxClock    \* bound: the clock stops here

ASSUME FileLockAssumption ==
  /\ NoProc \notin Procs
  /\ LockWait \in Nat
  /\ MaxClock \in Nat

VARIABLES clock,      \* the time, in ticks
          lock,       \* the process that holds the lock, or NoProc
          pc,         \* where each process is in withBoardLock
          now         \* now_ms of the call each process is making; 0 outside one

lockVars == <<clock, lock, pc, now>>

Stages == {"idle", "waiting", "locked", "answered"}

LockTypeOK ==
  /\ clock \in Nat
  /\ lock \in Procs \union {NoProc}
  /\ pc \in [Procs -> Stages]
  /\ now \in [Procs -> Nat]

LockInit ==
  /\ clock = 0
  /\ lock = NoProc
  /\ pc = [p \in Procs |-> "idle"]
  /\ now = [p \in Procs |-> 0]

Tick ==
  /\ clock < MaxClock
  /\ clock' = clock + 1
  /\ UNCHANGED <<lock, pc, now>>

\* A call begins: it reads the clock, then starts to poll for the lock.
\* Bound: only calls whose deadline lies within MaxClock are made.
Arrive(p) ==
  /\ pc[p] = "idle"
  /\ clock + LockWait <= MaxClock
  /\ pc' = [pc EXCEPT ![p] = "waiting"]
  /\ now' = [now EXCEPT ![p] = clock]
  /\ UNCHANGED <<clock, lock>>

\* Mutant: a shared lock where an exclusive one is meant.
Acquire_shared(p) ==
  /\ pc[p] = "waiting"
  /\ lock' = p
  /\ pc' = [pc EXCEPT ![p] = "locked"]
  /\ UNCHANGED <<clock, now>>

\* An attempt of acquireWithin that finds the lock free.
Acquire(p) ==
  /\ pc[p] = "waiting"
  /\ lock = NoProc
  /\ lock' = p
  /\ pc' = [pc EXCEPT ![p] = "locked"]
  /\ UNCHANGED <<clock, now>>

\* Mutant: the deadline moves with every attempt.
GiveUp_slidingDeadline(p) ==
  /\ pc[p] = "waiting"
  /\ clock >= clock + LockWait
  /\ pc' = [pc EXCEPT ![p] = "idle"]
  /\ now' = [now EXCEPT ![p] = 0]
  /\ UNCHANGED <<clock, lock>>

\* An attempt at or after the deadline that fails, because the lock is held or
\* because the lock file could not be opened or written: the call ends in error.
GiveUp(p) ==
  /\ pc[p] = "waiting"
  /\ clock >= now[p] + LockWait
  /\ pc' = [pc EXCEPT ![p] = "idle"]
  /\ now' = [now EXCEPT ![p] = 0]
  /\ UNCHANGED <<clock, lock>>

\* The operation passed to withBoardLock runs; it is a step of the module that
\* extends this one.
Operate(p) ==
  /\ pc[p] = "locked"
  /\ pc' = [pc EXCEPT ![p] = "answered"]
  /\ UNCHANGED <<clock, lock, now>>

\* The FileLock goes out of scope and the answer leaves.
Release(p) ==
  /\ pc[p] = "answered"
  /\ lock' = NoProc
  /\ pc' = [pc EXCEPT ![p] = "idle"]
  /\ now' = [now EXCEPT ![p] = 0]
  /\ UNCHANGED clock

\* The process dies inside a call: no answer, and the system frees its lock.
Die(p) ==
  /\ pc[p] # "idle"
  /\ lock' = IF lock = p THEN NoProc ELSE lock
  /\ pc' = [pc EXCEPT ![p] = "idle"]
  /\ now' = [now EXCEPT ![p] = 0]
  /\ UNCHANGED clock

\* The end of the bounded run: nobody can call any more.
AtHorizon ==
  /\ clock = MaxClock
  /\ \A p \in Procs : pc[p] = "idle"
=============================================================================
