---------------------------- MODULE MCBoardKeys -----------------------------
(* Instances of BoardKeys for TLC.  Path 1 is a, path 2 is a.b, path 3 is c.  *)
EXTENDS BoardKeys, TLC

CONSTANTS p1, p2, x, y

Symm == Permutations({p1, p2})

MCBelow == [q \in Paths |-> IF q = 1 THEN Paths \intersect {2} ELSE {}]

\* A value for one path, and a = {b: v}.
Leaf(q, v) == [EmptyTree EXCEPT ![q] = v]
Object(v) == [EmptyTree EXCEPT ![1] = Obj, ![2] = v]

PutAt(q, tree, ttl) ==
  [NoCall EXCEPT !.op = "write", !.path = q, !.tree = tree, !.ttl = ttl]
Pinned(r) == [r EXCEPT !.pinned = TRUE]
Dry(r) == [r EXCEPT !.dry = TRUE]
ReadAt(q) == [NoCall EXCEPT !.op = "read", !.path = q]
ClearAt(q) == [NoCall EXCEPT !.op = "clear", !.path = q]
ListAll == [NoCall EXCEPT !.op = "list"]
PatchWith(ops) == [NoCall EXCEPT !.op = "patch", !.ops = ops]
Step(op, q, tree) == [op |-> op, path |-> q, tree |-> tree]

BoardRequests ==
  {PutAt(1, Leaf(1, x), 0), PutAt(1, Object(x), 0), PutAt(2, Leaf(2, y), 1),
   PutAt(3, Leaf(3, x), 2), Dry(PutAt(2, Leaf(2, x), 0)),
   Pinned(PutAt(3, Leaf(3, x), 0)),
   ReadAt(3), ListAll, ClearAt(0), ClearAt(1),
   Pinned(PatchWith(<<Step("add", 3, Leaf(3, x)), Step("test", 3, Leaf(3, x))>>)),
   PatchWith(<<Step("test", 3, Leaf(3, x)), Step("remove", 2, EmptyTree)>>),
   \* An add below a value does nothing, below null (y) it makes an object.
   PatchWith(<<Step("replace", 1, Leaf(1, x)), Step("add", 2, Leaf(2, y)),
               Step("replace", 1, Leaf(1, y)), Step("add", 2, Leaf(2, y))>>)}
=============================================================================
