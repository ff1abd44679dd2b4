---------------------------- MODULE MCBoardTasks ----------------------------
(* Instances of BoardTasks for TLC: which calls the agents make in each run. *)
EXTENDS BoardTasks, TLC

CONSTANTS p1, p2

Symm == Permutations({p1, p2})

Create(task, deps, prio) ==
  [NoRequest EXCEPT !.op = "create", !.task = task, !.deps = deps, !.prio = prio]
Claim(among, lease) ==
  [NoRequest EXCEPT !.op = "claim", !.among = among, !.lease = lease]
ClaimNamed(task, lease) == [Claim({task}, lease) EXCEPT !.task = task]
Update(task, status, renew) ==
  [NoRequest EXCEPT !.op = "update", !.task = task, !.status = status, !.lease = renew]
Complete(task) == [NoRequest EXCEPT !.op = "complete", !.task = task]
Dry(r) == [r EXCEPT !.dry = TRUE]
List == [NoRequest EXCEPT !.op = "list"]
Resource == [NoRequest EXCEPT !.op = "resource"]
Write(ttl) == [NoRequest EXCEPT !.op = "write", !.lease = ttl]

\* One task, every call that moves its lease.
LeaseRequests ==
  {Create(1, {}, 0), ClaimNamed(1, 1), ClaimNamed(1, 2), Dry(ClaimNamed(1, 2)),
   Update(1, "keep", 1), Update(1, "failed", 0), Update(1, "pending", 0),
   Complete(1), List}

\* Two tasks, dependencies on each other, on nothing and on a missing task, and
\* a third task the board must refuse.
GraphRequests ==
  {Create(0, {}, 0), Create(0, {1}, 1), Create(2, {3}, 0), Create(1, {2}, 1),
   Claim(TaskIds, 1), Update(1, "needs_review", 0),
   Update(1, "pending", 0), Complete(1), Complete(2), Resource, Write(1)}

\* A lease and a key, both with an expiry.
ResourceRequests ==
  {Create(1, {}, 0), Claim({1}, 1), Resource, Write(1)}
=============================================================================
