----------------------------- MODULE WallClock -----------------------------
(***************************************************************************)
(* The wall clock the server's components read (std::chrono::system_clock  *)
(* in jobs.cpp and mutation_safety.cpp).  It is taken never to go back; a  *)
(* tick stands for some number of milliseconds.                            *)
(***************************************************************************)
EXTENDS Naturals

CONSTANT MaxClock     \* bound: the clock stops here

ASSUME WallClockAssumption == MaxClock \in Nat

VARIABLE clock

ClockInit == clock = 0

Tick ==
  /\ clock < MaxClock
  /\ clock' = clock + 1
=============================================================================
