----------------------------- MODULE BoardKeys ------------------------------
(***************************************************************************)
(* The key half of the shared blackboard (src/src/offline/blackboard.cpp): *)
(* a tree of values with metadata (when written, when it expires), the     *)
(* tombstones of what lapsed or was cleared, and a revision.  Writers can  *)
(* pin a change to what they read: a write to the path's updated_at_ms, a  *)
(* patch to the board's revision.                                          *)
(*                                                                         *)
(* A call reads the clock (now_ms), waits for the lock, and then runs as   *)
(* one step: BoardTasksProofs shows that under withBoardLock no two calls  *)
(* overlap.  A save may fail and a process may die; then nothing happens.  *)
(*                                                                         *)
(* Paths are numbers in the order of the board's keys, with their tree     *)
(* given by Below; a path holds a value, an object, or nothing.  A value    *)
(* that is not an object, an array too, is one thing without parts.          *)
(***************************************************************************)
EXTENDS Naturals, FiniteSets, Sequences

CONSTANTS Procs,        \* the agents
          Paths,        \* the paths of the board, as numbers above 0
          Below,        \* Below[q]: the paths strictly under q
          Values,       \* values that are not objects
          Null,         \* one of them, JSON's null
          Obj,          \* an object
          None,         \* nothing
          MaxKeys,      \* kBlackboardMaxKeys
          MaxExpired,   \* kBlackboardMaxExpiredRecords
          MaxCleared,   \* kBlackboardMaxClearedRecords
          MaxAudit,     \* kBlackboardMaxAuditRecords
          Requests,     \* the calls agents make
          MaxClock,     \* bound: the clock stops here
          MaxRevision   \* bound: no call is made once the board has this revision

VARIABLES clock,        \* the time
          call,         \* call[p]: the request p is waiting to run, or NoCall
          now,          \* now[p]: now_ms of that call
          file,         \* the board on disk
          seen          \* seen[p]: what p's last read reported

vars == <<clock, call, now, file, seen>>

-----------------------------------------------------------------------------
(* The board and the calls.                                                *)

Tree == [Paths -> Values \union {Obj, None}]
EmptyTree == [q \in Paths |-> None]

\* Metadata of a path; updated 0 is no metadata, expires 0 no ttl.
Meta == [updated : Nat, expires : Nat]
NoMeta == [updated |-> 0, expires |-> 0]

Board == [state : Tree, meta : [Paths -> Meta], expired : [Paths -> Nat],
          cleared : [Paths -> Nat], audit : Seq(Paths \union {0}), revision : Nat]

EmptyBoard == [state |-> EmptyTree, meta |-> [q \in Paths |-> NoMeta],
               expired |-> [q \in Paths |-> 0], cleared |-> [q \in Paths |-> 0],
               audit |-> <<>>, revision |-> 0]

\* One operation of a patch.
PatchOp == [op : {"add", "remove", "replace", "test"}, path : Paths, tree : Tree]

\* path 0 is the whole board; tree is the value, spread over the path and what
\* is below it; pinned: the caller passes what its last read of the path
\* reported.
Request == [op : {"none", "write", "read", "patch", "list", "clear"}, path : Paths \union {0},
            tree : Tree, ttl : Nat, pinned : BOOLEAN, ops : Seq(PatchOp),
            dry : BOOLEAN]

NoCall == [op |-> "none", path |-> 0, tree |-> EmptyTree, ttl |-> 0, pinned |-> FALSE,
           ops |-> <<>>, dry |-> FALSE]

\* What a read reported, and the expiry times the board had then.
Seen == [path : Paths \union {0}, tree : Tree, updated : Nat, revision : Nat,
         expires : [Paths -> Nat]]

-----------------------------------------------------------------------------
(* Trees.                                                                  *)

Above(q) == {r \in Paths : q \in Below[r]}
Branch(q) == {q} \union Below[q]

\* The path a path is directly under, if it is under one.
Parents(q) == {r \in Above(q) : Below[r] \intersect Above(q) = {}}

\* A value for path q, spread over q and what is below it, is itself a tree.
Spread(tree, q) ==
  \A x \in Branch(q) : tree[x] # None => \A y \in Branch(q) \intersect Above(x) : tree[y] = Obj

\* The paths above a path are its prefixes; what a request carries is JSON.
ASSUME BoardKeysAssumption ==
  /\ Paths \subseteq Nat \ {0}
  /\ IsFiniteSet(Paths)
  /\ Below \in [Paths -> SUBSET Paths]
  /\ \A q \in Paths : q \notin Below[q]
  /\ \A q \in Paths : \A r \in Below[q] : Below[r] \subseteq Below[q]
  /\ \A q, r \in Paths :
       Below[q] \intersect Below[r] # {} => q = r \/ q \in Below[r] \/ r \in Below[q]
  /\ Obj \notin Values /\ None \notin Values /\ Obj # None /\ Null \in Values
  /\ MaxKeys \in Nat /\ MaxExpired \in Nat /\ MaxCleared \in Nat
  /\ MaxAudit \in Nat \ {0}
  /\ Requests \subseteq Request
  /\ \A r \in Requests :
       /\ r.op = "write" => r.path \in Paths /\ Spread(r.tree, r.path)
       /\ \A n \in DOMAIN r.ops : Spread(r.ops[n].tree, r.ops[n].path)

\* collectPaths / countKeys.
Keys(tree) == {q \in Paths : tree[q] # None}

\* The branch at q holds what sub says, under objects.
Put(tree, q, sub) ==
  [x \in Paths |-> IF x \in Branch(q) THEN sub[x]
                   ELSE IF x \in Above(q) THEN Obj
                   ELSE tree[x]]

\* The branches at the paths of S are erased.
Cut(tree, S) ==
  [x \in Paths |-> IF \E q \in S : x \in Branch(q) THEN None ELSE tree[x]]

WithinBounds(tree) == Cardinality(Keys(tree)) <= MaxKeys

\* trimTombstones: the limit most recent records, by time and then by key.
Trim(records, limit) ==
  [q \in Paths |->
     IF Cardinality({r \in Paths : /\ records[r] # 0
                                   /\ \/ records[r] > records[q]
                                      \/ records[r] = records[q] /\ r > q}) < limit
     THEN records[q] ELSE 0]

\* sweepExpired: entries whose ttl has lapsed go, with what is below them; the
\* metadata of what was below them stays.
Lapsed(board, t) ==
  {q \in Paths : board.meta[q].expires # 0 /\ board.meta[q].expires <= t}

SweepExpired(board, t) ==
  LET lapsed == Lapsed(board, t)
  IN  [board EXCEPT
         !.state = Cut(@, lapsed),
         !.meta = [q \in Paths |-> IF q \in lapsed THEN NoMeta ELSE @[q]],
         !.expired =
           IF lapsed = {} THEN @
           ELSE Trim([q \in Paths |-> IF q \in lapsed THEN board.meta[q].expires
                                      ELSE @[q]], MaxExpired)]

-----------------------------------------------------------------------------
(* The steps of a call.                                                    *)

Init ==
  /\ clock = 1                    \* the epoch is long past: 0 is "never"
  /\ call = [p \in Procs |-> NoCall]
  /\ now = [p \in Procs |-> 0]
  /\ file = EmptyBoard
  /\ seen = [p \in Procs |-> [path |-> 0, tree |-> EmptyTree, updated |-> 0,
                              revision |-> 0, expires |-> [q \in Paths |-> 0]]]

Tick ==
  /\ clock < MaxClock
  /\ clock' = clock + 1
  /\ UNCHANGED <<call, now, file, seen>>

\* A call reads the clock and starts to wait for the lock.  A caller pins to its
\* last read, so a pinned write is of the path it read.
Call(p) ==
  /\ call[p] = NoCall
  /\ file.revision < MaxRevision
  /\ \E r \in Requests :
       /\ r.op = "write" /\ r.pinned => seen[p].path = r.path
       /\ call' = [call EXCEPT ![p] = r]
  /\ now' = [now EXCEPT ![p] = clock]
  /\ UNCHANGED <<clock, file, seen>>

\* The call p has made, running under the lock; afterwards it is over.
Serving(p, op) ==
  /\ call[p] # NoCall
  /\ call[p].op = op
  /\ call' = [call EXCEPT ![p] = NoCall]
  /\ now' = [now EXCEPT ![p] = 0]
  /\ UNCHANGED clock

Swept(p) == SweepExpired(file, now[p])

\* The call ends without the board: the lock was not free in time, the file could
\* not be read or replaced, or the process died.
Fails(p) ==
  /\ call[p] # NoCall
  /\ Serving(p, call[p].op)
  /\ UNCHANGED <<file, seen>>

-----------------------------------------------------------------------------
(* The operations.                                                         *)

\* A write does not run through a value, meets its pin, and keeps the bounds.
WriteRefused(board, r, s) ==
  \/ \E q \in Above(r.path) : board.state[q] \in Values
  \/ r.pinned /\ board.meta[r.path].updated # s.updated
  \/ ~WithinBounds(Put(board.state, r.path, r.tree))

Written(board, r, t) ==
  [board EXCEPT
     !.revision = @ + 1,
     !.state = Put(@, r.path, r.tree),
     !.meta[r.path] = [updated |-> t, expires |-> IF r.ttl = 0 THEN 0 ELSE t + r.ttl],
     !.expired[r.path] = 0]

Write(p) ==
  LET r == call[p]
      refused == WriteRefused(Swept(p), r, seen[p])
  IN  /\ Serving(p, "write")
      /\ file' = IF refused \/ r.dry THEN file ELSE Written(Swept(p), r, now[p])
      /\ UNCHANGED seen

\* A read keeps the sweep it made, without a new revision, and reports the value,
\* the path's updated_at_ms and the revision.
Read(p) ==
  LET board == Swept(p)
      q == call[p].path
  IN  /\ Serving(p, "read")
      /\ file' = board
      /\ seen' = [seen EXCEPT ![p] =
                    [path |-> q, tree |-> board.state,
                     updated |-> IF q = 0 THEN 0 ELSE board.meta[q].updated,
                     revision |-> board.revision,
                     expires |-> [x \in Paths |-> board.meta[x].expires]]]

ListKeys(p) ==
  /\ Serving(p, "list")
  /\ file' = Swept(p)
  /\ UNCHANGED seen

\* One operation of a patch, as json::patch makes it.  Where the parent is a value
\* there is nothing to remove and nowhere to add, and the library does nothing and
\* says nothing (its assertion is compiled out); a null becomes an object.
Applies(tree, o) ==
  LET under == {tree[q] : q \in Parents(o.path)}
  IN  CASE o.op = "add" -> None \notin under
        [] o.op = "remove" -> tree[o.path] # None \/ under \intersect Values # {}
        [] o.op = "replace" -> tree[o.path] # None
        [] o.op = "test" -> \A q \in Branch(o.path) : tree[q] = o.tree[q]

Applied(tree, o) ==
  LET blocked == \E q \in Parents(o.path) : tree[q] \in Values \ {Null}
  IN  CASE o.op = "add" -> IF blocked THEN tree ELSE Put(tree, o.path, o.tree)
        [] o.op = "replace" -> Put(tree, o.path, o.tree)
        [] o.op = "remove" -> Cut(tree, {o.path})
        [] o.op = "test" -> tree

\* The tree after each prefix of the operations.
PatchTrees(tree, ops) ==
  LET after[n \in 0..Len(ops)] ==
        IF n = 0 THEN tree ELSE Applied(after[n - 1], ops[n])
  IN  after

\* All or nothing: one operation that does not apply refuses the patch.
PatchRefused(board, r, s) ==
  LET trees == PatchTrees(board.state, r.ops)
  IN  \/ r.pinned /\ s.revision # board.revision
      \/ \E n \in 1..Len(r.ops) : ~Applies(trees[n - 1], r.ops[n])
      \/ ~WithinBounds(trees[Len(r.ops)])

\* Metadata of paths the patch removed goes; the rest stays as it was.
Patched(board, r) ==
  LET tree == PatchTrees(board.state, r.ops)[Len(r.ops)]
  IN  [board EXCEPT
         !.revision = @ + 1,
         !.state = tree,
         !.meta = [q \in Paths |-> IF tree[q] = None THEN NoMeta ELSE @[q]]]

Patch(p) ==
  LET r == call[p]
      refused == PatchRefused(Swept(p), r, seen[p])
  IN  /\ Serving(p, "patch")
      /\ file' = IF refused \/ r.dry THEN file ELSE Patched(Swept(p), r)
      /\ UNCHANGED seen

\* What a clear of the path removes from the metadata.
Dead(board, q) == {x \in Branch(q) : board.meta[x] # NoMeta}

\* Mutant: a clear of many keys leaves a tombstone each, however many there are.
ClearedBranch_untrimmed(board, q, t) ==
  LET gone == Dead(board, q) \union {q}
  IN  [board EXCEPT
         !.state = Cut(@, {q}),
         !.meta = [x \in Paths |-> IF x \in gone THEN NoMeta ELSE @[x]],
         !.cleared = [x \in Paths |-> IF x \in gone THEN t ELSE @[x]],
         !.expired = [x \in Paths |-> IF x \in gone THEN 0 ELSE @[x]]]

ClearedBranch(board, q, t) ==
  LET gone == Dead(board, q) \union {q}
  IN  [board EXCEPT
         !.state = Cut(@, {q}),
         !.meta = [x \in Paths |-> IF x \in gone THEN NoMeta ELSE @[x]],
         !.cleared = Trim([x \in Paths |-> IF x \in gone THEN t ELSE @[x]], MaxCleared),
         !.expired = [x \in Paths |-> IF x \in gone THEN 0 ELSE @[x]]]

ClearedAll(board) ==
  [board EXCEPT !.state = EmptyTree,
                !.meta = [x \in Paths |-> NoMeta],
                !.cleared = [x \in Paths |-> 0]]

\* Mutant: a clear leaves the revision as it was.
Audited_sameRevision(board, q) ==
  LET longer == Append(board.audit, q)
  IN  [board EXCEPT !.audit = IF Len(longer) > MaxAudit THEN Tail(longer) ELSE longer]

\* The audit keeps the last MaxAudit clears.
Audited(board, q) ==
  LET longer == Append(board.audit, q)
  IN  [board EXCEPT !.revision = @ + 1,
                    !.audit = IF Len(longer) > MaxAudit THEN Tail(longer) ELSE longer]

Clear(p) ==
  LET r == call[p]
      q == r.path
      board == Swept(p)
      missing == q # 0 /\ board.state[q] = None
  IN  /\ Serving(p, "clear")
      /\ file' = IF missing \/ r.dry THEN file
                 ELSE Audited(IF q = 0 THEN ClearedAll(board)
                              ELSE ClearedBranch(board, q, now[p]), q)
      /\ UNCHANGED seen

Horizon ==
  /\ clock = MaxClock \/ file.revision = MaxRevision
  /\ \A p \in Procs : call[p] = NoCall
  /\ UNCHANGED vars

Next ==
  \/ Tick
  \/ Horizon
  \/ \E p \in Procs : \/ Call(p) \/ Fails(p)
                      \/ Write(p) \/ Read(p) \/ ListKeys(p) \/ Patch(p) \/ Clear(p)

Spec == Init /\ [][Next]_vars
-----------------------------------------------------------------------------
(* Properties.                                                             *)

\* The board and every answer remembered have their types.
TypeOK ==
  /\ clock \in Nat
  /\ call \in [Procs -> Request]
  /\ now \in [Procs -> Nat]
  /\ file \in Board
  /\ seen \in [Procs -> Seen]

\* The board never outgrows what the bounds promise the next agent: keys after a
\* write or a patch, and the records of lapses and clears after any sweep.
Bounded ==
  /\ Cardinality(Keys(file.state)) <= MaxKeys
  /\ Cardinality({q \in Paths : file.expired[q] # 0}) <= MaxExpired
  /\ Cardinality({q \in Paths : file.cleared[q] # 0}) <= MaxCleared
  /\ Len(file.audit) <= MaxAudit

\* Process p's call of op takes effect in this step with a new revision.
Commits(p, op) ==
  call[p].op = op /\ call'[p] = NoCall /\ file'.revision > file.revision

\* What became of a path since a read: it is as it was, or it is gone and it, or a
\* path above it, had an expiry in that read which has passed.
AsSeenOrLapsed(s, q) ==
  \/ file.state[q] = s.tree[q]
  \/ /\ file.state[q] = None
     /\ \E r \in {q} \union Above(q) : s.expires[r] \in 1..clock

\* A pinned patch is applied to the board its caller read, but for keys whose ttl
\* ran out in between: no write, patch or clear of another agent comes between the
\* read and the patch, in whatever order their calls read the clock and got the
\* lock, and nothing else is missing.
PinnedPatchSeesOnlyLapses ==
  [][\A p \in Procs : Commits(p, "patch") /\ call[p].pinned =>
       \A q \in Paths : AsSeenOrLapsed(seen[p], q)]_vars

=============================================================================
