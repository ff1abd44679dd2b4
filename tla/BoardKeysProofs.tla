--------------------------- MODULE BoardKeysProofs ---------------------------
(***************************************************************************)
(* Proofs about BoardKeys, for any paths, values, requests, agents and      *)
(* bounds.                                                                  *)
(*                                                                         *)
(* A patch is a recursion over its operations.  The proofs about it are     *)
(* inductions, written as the search for the least operation that goes      *)
(* wrong: LeastNumber is the one fact about the natural numbers they need.  *)
(***************************************************************************)
EXTENDS BoardKeys, FiniteSetTheorems, SequenceTheorems, WellFoundedInduction, TLAPS

-----------------------------------------------------------------------------
(* Induction.                                                              *)

\* A set of natural numbers that is not empty has a least element.
LEMMA LeastNumber ==
  ASSUME NEW T \in SUBSET Nat, T # {}
  PROVE  \E x \in T : \A y \in T : x <= y
<1>1. IsWellFoundedOn(OpToRel(<, Nat), Nat)
  BY NatLessThanWellFounded
<1>2. PICK x \in T : \A y \in T : ~(<<y, x>> \in OpToRel(<, Nat))
  BY <1>1, WFMin
<1>3. \A y \in T : ~(y < x)
  BY <1>2 DEF OpToRel
<1> QED
  BY <1>3

\* The first n trees of a patch.
Chain(g, n, tree, ops) ==
  \A i \in 0..n : g[i] = IF i = 0 THEN tree ELSE Applied(g[i - 1], ops[i])

\* The trees of a patch exist up to any operation.
LEMMA ChainExists ==
  ASSUME NEW tree, NEW ops, NEW n \in Nat
  PROVE  \E g : Chain(g, n, tree, ops)
<1> DEFINE T == {k \in Nat : ~ \E g : Chain(g, k, tree, ops)}
<1> SUFFICES ASSUME T # {} PROVE FALSE
  OBVIOUS
<1>1. PICK k \in T : \A j \in T : k <= j
  BY LeastNumber
<1>2. k \in Nat /\ ~ \E g : Chain(g, k, tree, ops)
  OBVIOUS
<1>3. k # 0
  <2>1. Chain([i \in {0} |-> tree], 0, tree, ops)
    BY DEF Chain
  <2> QED
    BY <1>2, <2>1
<1>4. k - 1 \in Nat /\ k - 1 \notin T
  BY <1>1, <1>2, <1>3
<1>5. PICK g : Chain(g, k - 1, tree, ops)
  BY <1>4
<1> DEFINE h == [i \in 0..k |-> IF i = k THEN Applied(g[k - 1], ops[k]) ELSE g[i]]
<1>6. ASSUME NEW i \in 0..k
      PROVE  h[i] = IF i = 0 THEN tree ELSE Applied(h[i - 1], ops[i])
  <2>1. CASE i = k
    <3>1. k - 1 \in 0..k /\ k - 1 # k
      BY <1>2, <1>3
    <3>2. h[k - 1] = g[k - 1] /\ h[k] = Applied(g[k - 1], ops[k])
      BY <1>2, <3>1
    <3> HIDE DEF h
    <3> QED
      BY <1>3, <2>1, <3>2
  <2>2. CASE i # k
    <3>1. i \in 0..(k - 1) /\ (i # 0 => i - 1 \in 0..k /\ i - 1 # k)
      BY <1>2, <2>2
    <3>2. h[i] = g[i] /\ (i # 0 => h[i - 1] = g[i - 1])
      BY <2>2, <3>1
    <3>3. g[i] = IF i = 0 THEN tree ELSE Applied(g[i - 1], ops[i])
      BY <1>5, <3>1 DEF Chain
    <3> HIDE DEF h
    <3> QED
      BY <3>2, <3>3
  <2> QED
    BY <2>1, <2>2
<1>7. Chain(h, k, tree, ops)
  BY <1>6 DEF Chain
<1> QED
  BY <1>2, <1>7

\* PatchTrees is what its recursive definition says.
LEMMA PatchTreesDefined ==
  ASSUME NEW tree, NEW ops, Len(ops) \in Nat
  PROVE  /\ PatchTrees(tree, ops)[0] = tree
         /\ \A n \in 1..Len(ops) :
              PatchTrees(tree, ops)[n] = Applied(PatchTrees(tree, ops)[n - 1], ops[n])
<1> DEFINE Is(f) == f = [n \in 0..Len(ops) |-> IF n = 0 THEN tree ELSE Applied(f[n - 1], ops[n])]
<1>1. PatchTrees(tree, ops) = CHOOSE f : Is(f)
  BY DEF PatchTrees
<1>2. \E f : Is(f)
  <2>1. PICK g : Chain(g, Len(ops), tree, ops)
    BY ChainExists
  <2> DEFINE f == [n \in 0..Len(ops) |-> g[n]]
  <2>2. \A n \in 0..Len(ops) : f[n] = g[n]
    OBVIOUS
  <2>3. \A n \in 0..Len(ops) : n # 0 => n - 1 \in 0..Len(ops)
    OBVIOUS
  <2>4. \A n \in 0..Len(ops) : f[n] = IF n = 0 THEN tree ELSE Applied(f[n - 1], ops[n])
    BY <2>1, <2>2, <2>3 DEF Chain
  <2>5. Is(f)
    BY <2>4
  <2> QED
    BY <2>5
<1>3. Is(PatchTrees(tree, ops))
  <2> HIDE DEF Is
  <2> QED
    BY <1>1, <1>2
<1>4. \A n \in 1..Len(ops) : n \in 0..Len(ops) /\ n # 0
  OBVIOUS
<1>5. 0 \in 0..Len(ops)
  OBVIOUS
<1> QED
  BY <1>3, <1>4, <1>5

-----------------------------------------------------------------------------
(* Trees.                                                                  *)

\* The board of nobody's writes is a tree without keys.
LEMMA EmptyIsTree == EmptyTree \in Tree /\ Keys(EmptyTree) = {}
  BY DEF EmptyTree, Tree, Keys

\* A branch that is cut leaves a tree, in which only what was cut is missing.
LEMMA CutKeeps ==
  ASSUME NEW tree \in Tree, NEW S \in SUBSET Paths
  PROVE  /\ Cut(tree, S) \in Tree
         /\ Keys(Cut(tree, S)) \subseteq Keys(tree)
         /\ \A q \in Paths :
              \/ Cut(tree, S)[q] = tree[q]
              \/ Cut(tree, S)[q] = None /\ \E r \in {q} \union Above(q) : r \in S
<1>1. Cut(tree, S) \in Tree
  BY DEF Cut, Tree
<1>2. ASSUME NEW q \in Paths
      PROVE  \/ Cut(tree, S)[q] = tree[q]
             \/ Cut(tree, S)[q] = None /\ \E r \in {q} \union Above(q) : r \in S
  <2>1. \A r \in S : q \in Branch(r) => r \in {q} \union Above(q)
    BY DEF Branch, Above
  <2> QED
    BY <2>1 DEF Cut
<1>3. Keys(Cut(tree, S)) \subseteq Keys(tree)
  BY <1>2 DEF Keys
<1> QED
  BY <1>1, <1>2, <1>3

\* So does a value that is put somewhere.
LEMMA PutKeeps ==
  ASSUME NEW tree \in Tree, NEW q \in Paths, NEW sub \in Tree
  PROVE  Put(tree, q, sub) \in Tree
  BY DEF Put, Tree

\* So does an operation of a patch.
LEMMA AppliedKeeps ==
  ASSUME NEW tree \in Tree, NEW o \in PatchOp
  PROVE  Applied(tree, o) \in Tree
<1>1. o.path \in Paths /\ o.tree \in Tree /\ o.op \in {"add", "remove", "replace", "test"}
  BY DEF PatchOp
<1>2. Put(tree, o.path, o.tree) \in Tree /\ Cut(tree, {o.path}) \in Tree
  BY <1>1, PutKeeps, CutKeeps
<1>3. Applied(tree, o) \in {tree, Put(tree, o.path, o.tree), Cut(tree, {o.path})}
  BY <1>1 DEF Applied
<1> QED
  BY <1>2, <1>3

\* So does a whole patch.
LEMMA PatchTreesKeep ==
  ASSUME NEW tree \in Tree, NEW ops \in Seq(PatchOp)
  PROVE  PatchTrees(tree, ops)[Len(ops)] \in Tree
<1>1. Len(ops) \in Nat /\ DOMAIN ops = 1..Len(ops) /\ \A n \in 1..Len(ops) : ops[n] \in PatchOp
  OBVIOUS
<1>2. PICK f : f = PatchTrees(tree, ops)
  OBVIOUS
<1>3. f[0] = tree /\ \A n \in 1..Len(ops) : f[n] = Applied(f[n - 1], ops[n])
  BY <1>1, <1>2, PatchTreesDefined
<1> DEFINE T == {n \in 0..Len(ops) : f[n] \notin Tree}
<1>4. ASSUME T # {} PROVE FALSE
  <2>1. PICK k \in T : \A j \in T : k <= j
    <3>1. T \in SUBSET Nat
      BY <1>1
    <3> QED
      BY <1>4, <3>1, LeastNumber
  <2>2. k # 0
    BY <1>3
  <2>3. k \in 1..Len(ops) /\ k - 1 \in 0..Len(ops) /\ k - 1 \notin T
    BY <1>1, <2>1, <2>2
  <2>4. f[k - 1] \in Tree
    BY <2>3
  <2>5. Applied(f[k - 1], ops[k]) \in Tree
    BY <1>1, <1>2, <2>3, <2>4, AppliedKeeps
  <2> QED
    BY <1>3, <2>3, <2>5
<1>5. Len(ops) \in 0..Len(ops)
  BY <1>1
<1> QED
  BY <1>2, <1>4, <1>5

-----------------------------------------------------------------------------
(* Bounds.                                                                 *)

\* A set of paths has no fewer members than a part of it.
LEMMA Smaller ==
  ASSUME NEW S \in SUBSET Paths, NEW T \in SUBSET S
  PROVE  Cardinality(T) \in Nat /\ Cardinality(S) \in Nat /\ Cardinality(T) <= Cardinality(S)
<1>1. IsFiniteSet(S)
  BY FS_Subset, BoardKeysAssumption
<1>2. IsFiniteSet(T) /\ Cardinality(T) <= Cardinality(S)
  BY <1>1, FS_Subset
<1> QED
  BY <1>1, <1>2, FS_CardinalityType

\* The records a trim keeps are at most as many as it was told: the oldest of them
\* has fewer than that above it.
LEMMA TrimKeeps ==
  ASSUME NEW records \in [Paths -> Nat], NEW limit \in Nat
  PROVE  /\ Trim(records, limit) \in [Paths -> Nat]
         /\ Cardinality({q \in Paths : Trim(records, limit)[q] # 0}) <= limit
<1> DEFINE Over(q) == {r \in Paths : /\ records[r] # 0
                                     /\ \/ records[r] > records[q]
                                        \/ records[r] = records[q] /\ r > q}
           K == {q \in Paths : Trim(records, limit)[q] # 0}
<1>1. Trim(records, limit) \in [Paths -> Nat]
  BY DEF Trim
<1>2. \A q \in K : q \in Paths /\ records[q] # 0 /\ Cardinality(Over(q)) < limit
  BY DEF Trim
<1>3. CASE K = {}
  <2>1. Cardinality(K) = 0
    BY <1>3, FS_EmptySet
  <2> QED
    BY <1>1, <2>1
<1>4. CASE K # {}
  <2> HIDE DEF K
  <2>1. PICK v \in {records[q] : q \in K} : \A w \in {records[q] : q \in K} : v <= w
    <3>1. {records[q] : q \in K} \in SUBSET Nat /\ {records[q] : q \in K} # {}
      BY <1>2, <1>4
    <3> QED
      BY <3>1, LeastNumber
  <2>2. PICK k \in {q \in K : records[q] = v} : \A j \in {q \in K : records[q] = v} : k <= j
    <3>1. {q \in K : records[q] = v} \in SUBSET Nat /\ {q \in K : records[q] = v} # {}
      BY <1>2, <2>1, BoardKeysAssumption
    <3> QED
      BY <3>1, LeastNumber
  <2>3. k \in K /\ k \in Paths /\ records[k] = v
    BY <1>2, <2>2
  <2>4. ASSUME NEW q \in K PROVE q \in Over(k) \union {k}
    <3>1. q \in Paths /\ records[q] # 0 /\ records[q] \in Nat /\ q \in Nat /\ k \in Nat /\ v \in Nat
      BY <1>2, <2>3, BoardKeysAssumption
    <3>2. v <= records[q] /\ (records[q] = v => k <= q)
      BY <2>1, <2>2
    <3>3. q = k \/ records[q] > v \/ (records[q] = v /\ q > k)
      BY <3>1, <3>2
    <3> QED
      BY <2>3, <3>1, <3>3
  <2>5. Over(k) \in SUBSET Paths
    OBVIOUS
  <2> HIDE DEF Over
  <2>6. IsFiniteSet(Over(k)) /\ Cardinality(Over(k)) \in Nat
    BY <2>5, FS_Subset, FS_CardinalityType, BoardKeysAssumption
  <2>7. /\ IsFiniteSet(Over(k) \union {k})
        /\ Cardinality(Over(k) \union {k}) \in {Cardinality(Over(k)), Cardinality(Over(k)) + 1}
    BY <2>6, FS_AddElement
  <2>8. Cardinality(Over(k) \union {k}) <= limit
    BY <1>2, <2>3, <2>6, <2>7
  <2>9. K \in SUBSET (Over(k) \union {k}) /\ Over(k) \union {k} \in SUBSET Paths
    BY <2>3, <2>4, <2>5
  <2>10. /\ Cardinality(K) \in Nat /\ Cardinality(Over(k) \union {k}) \in Nat
         /\ Cardinality(K) <= Cardinality(Over(k) \union {k})
    BY <2>9, Smaller
  <2>11. Cardinality(K) <= limit
    BY <2>8, <2>10
  <2> QED
    BY <1>1, <2>11 DEF K
<1> QED
  BY <1>3, <1>4

-----------------------------------------------------------------------------
(* Boards.                                                                 *)

\* A board within the bounds.
Records(f) == {q \in Paths : f[q] # 0}
Good(board) ==
  /\ board \in Board
  /\ Cardinality(Keys(board.state)) <= MaxKeys
  /\ Cardinality(Records(board.expired)) <= MaxExpired
  /\ Cardinality(Records(board.cleared)) <= MaxCleared
  /\ Len(board.audit) <= MaxAudit

\* The parts of a board have their types.
LEMMA BoardFields ==
  ASSUME NEW board \in Board
  PROVE  /\ board.state \in Tree /\ board.meta \in [Paths -> Meta]
         /\ board.expired \in [Paths -> Nat] /\ board.cleared \in [Paths -> Nat]
         /\ board.audit \in Seq(Paths \union {0}) /\ board.revision \in Nat
         /\ Keys(board.state) \in SUBSET Paths
         /\ Records(board.expired) \in SUBSET Paths
         /\ Records(board.cleared) \in SUBSET Paths
  BY DEF Board, Keys, Records

\* Fewer keys and records are within the bounds too.
LEMMA FewerAreGood ==
  ASSUME NEW board, Good(board), NEW new \in Board,
         Keys(new.state) \subseteq Keys(board.state) \/ Cardinality(Keys(new.state)) <= MaxKeys,
         \/ Records(new.expired) \subseteq Records(board.expired)
         \/ Cardinality(Records(new.expired)) <= MaxExpired,
         \/ Records(new.cleared) \subseteq Records(board.cleared)
         \/ Cardinality(Records(new.cleared)) <= MaxCleared,
         Len(new.audit) <= MaxAudit
  PROVE  Good(new)
<1>1. board \in Board
  BY DEF Good
<1>2. Cardinality(Keys(new.state)) <= MaxKeys
  <2>1. CASE Keys(new.state) \subseteq Keys(board.state)
    <3>1. Keys(board.state) \in SUBSET Paths /\ Keys(new.state) \in SUBSET Keys(board.state)
      BY <1>1, <2>1, BoardFields
    <3>2. /\ Cardinality(Keys(new.state)) \in Nat /\ Cardinality(Keys(board.state)) \in Nat
          /\ Cardinality(Keys(new.state)) <= Cardinality(Keys(board.state))
      BY <3>1, Smaller
    <3> QED
      BY <3>2, BoardKeysAssumption DEF Good
  <2> QED
    BY <2>1
<1>3. Cardinality(Records(new.expired)) <= MaxExpired
  <2>1. CASE Records(new.expired) \subseteq Records(board.expired)
    <3>1. /\ Records(board.expired) \in SUBSET Paths
          /\ Records(new.expired) \in SUBSET Records(board.expired)
      BY <1>1, <2>1, BoardFields
    <3>2. /\ Cardinality(Records(new.expired)) \in Nat
          /\ Cardinality(Records(board.expired)) \in Nat
          /\ Cardinality(Records(new.expired)) <= Cardinality(Records(board.expired))
      BY <3>1, Smaller
    <3> QED
      BY <3>2, BoardKeysAssumption DEF Good
  <2> QED
    BY <2>1
<1>4. Cardinality(Records(new.cleared)) <= MaxCleared
  <2>1. CASE Records(new.cleared) \subseteq Records(board.cleared)
    <3>1. /\ Records(board.cleared) \in SUBSET Paths
          /\ Records(new.cleared) \in SUBSET Records(board.cleared)
      BY <1>1, <2>1, BoardFields
    <3>2. /\ Cardinality(Records(new.cleared)) \in Nat
          /\ Cardinality(Records(board.cleared)) \in Nat
          /\ Cardinality(Records(new.cleared)) <= Cardinality(Records(board.cleared))
      BY <3>1, Smaller
    <3> QED
      BY <3>2, BoardKeysAssumption DEF Good
  <2> QED
    BY <2>1
<1> QED
  BY <1>2, <1>3, <1>4 DEF Good

\* sweepExpired keeps a board good, and only takes keys away.
LEMMA SweptGood ==
  ASSUME NEW board, Good(board), NEW t \in Nat
  PROVE  /\ Good(SweepExpired(board, t))
         /\ SweepExpired(board, t).revision = board.revision
         /\ SweepExpired(board, t).meta \in [Paths -> Meta]
         /\ \A q \in Paths :
              LET new == SweepExpired(board, t)
              IN  /\ \/ new.state[q] = board.state[q]
                     \/ /\ new.state[q] = None
                        /\ \E r \in {q} \union Above(q) : board.meta[r].expires \in 1..t
                  /\ new.meta[q].expires \in {0, board.meta[q].expires}
<1> DEFINE new == SweepExpired(board, t)
           lapsed == Lapsed(board, t)
           meta == [q \in Paths |-> IF q \in lapsed THEN NoMeta ELSE board.meta[q]]
           records == [q \in Paths |-> IF q \in lapsed THEN board.meta[q].expires
                                       ELSE board.expired[q]]
           expired == IF lapsed = {} THEN board.expired ELSE Trim(records, MaxExpired)
<1>1. board \in Board
  BY DEF Good
<1>2. /\ board.state \in Tree /\ board.meta \in [Paths -> Meta]
      /\ board.expired \in [Paths -> Nat]
  BY <1>1, BoardFields
<1>3. lapsed \in SUBSET Paths
  BY DEF Lapsed
<1> HIDE DEF lapsed
<1>4. meta \in [Paths -> Meta] /\ records \in [Paths -> Nat]
  BY <1>2, <1>3 DEF Meta, NoMeta
<1>5. expired \in [Paths -> Nat]
      /\ (expired = board.expired \/ Cardinality(Records(expired)) <= MaxExpired)
  <2> HIDE DEF records
  <2>1. /\ Trim(records, MaxExpired) \in [Paths -> Nat]
        /\ Cardinality({q \in Paths : Trim(records, MaxExpired)[q] # 0}) <= MaxExpired
    BY <1>4, TrimKeeps, BoardKeysAssumption
  <2> QED
    BY <1>2, <2>1 DEF Records
<1>6. /\ Cut(board.state, lapsed) \in Tree
      /\ Keys(Cut(board.state, lapsed)) \subseteq Keys(board.state)
      /\ \A q \in Paths :
           \/ Cut(board.state, lapsed)[q] = board.state[q]
           \/ /\ Cut(board.state, lapsed)[q] = None
              /\ \E r \in {q} \union Above(q) : r \in lapsed
  BY <1>2, <1>3, CutKeeps
<1>11. \A r \in lapsed : board.meta[r].expires \in 1..t
  BY <1>2 DEF lapsed, Lapsed, Meta
<1>12. \A q \in Paths : meta[q].expires \in {0, board.meta[q].expires}
  BY <1>2 DEF NoMeta
<1>7. new = [board EXCEPT !.state = Cut(board.state, lapsed), !.meta = meta, !.expired = expired]
  BY DEF SweepExpired, lapsed
<1> HIDE DEF meta, expired, new
<1>8. /\ new \in Board
      /\ new.state = Cut(board.state, lapsed) /\ new.expired = expired
      /\ new.meta = meta
      /\ new.cleared = board.cleared /\ new.audit = board.audit
      /\ new.revision = board.revision
  BY <1>1, <1>4, <1>5, <1>6, <1>7 DEF Board
<1>9. Len(board.audit) <= MaxAudit
  BY DEF Good
<1>10. Good(new)
  BY <1>5, <1>6, <1>8, <1>9, FewerAreGood
<1> QED
  BY <1>4, <1>6, <1>8, <1>10, <1>11, <1>12 DEF new

\* A write that blackboardWrite accepts keeps a board good.
LEMMA WrittenGood ==
  ASSUME NEW board, Good(board), NEW r \in Requests, r.op = "write", NEW s, NEW t \in Nat,
         ~WriteRefused(board, r, s)
  PROVE  /\ Good(Written(board, r, t))
         /\ Written(board, r, t).revision = board.revision + 1
<1> DEFINE new == Written(board, r, t)
           stamp == [updated |-> t, expires |-> IF r.ttl = 0 THEN 0 ELSE t + r.ttl]
<1>1. /\ board \in Board /\ r.path \in Paths /\ r.tree \in Tree /\ r.ttl \in Nat
  BY BoardKeysAssumption DEF Good, Request
<1>2. /\ board.state \in Tree /\ board.meta \in [Paths -> Meta]
      /\ board.expired \in [Paths -> Nat] /\ board.revision \in Nat
  BY <1>1, BoardFields
<1>3. Cardinality(Keys(Put(board.state, r.path, r.tree))) <= MaxKeys
  BY DEF WriteRefused, WithinBounds
<1>4. Put(board.state, r.path, r.tree) \in Tree
  BY <1>1, <1>2, PutKeeps
<1>5. stamp \in Meta
  BY <1>1 DEF Meta
<1> HIDE DEF stamp
<1>6. /\ [board.meta EXCEPT ![r.path] = stamp] \in [Paths -> Meta]
      /\ [board.expired EXCEPT ![r.path] = 0] \in [Paths -> Nat]
      /\ Records([board.expired EXCEPT ![r.path] = 0]) \subseteq Records(board.expired)
  BY <1>1, <1>2, <1>5 DEF Records
<1>7. new = [board EXCEPT !.revision = board.revision + 1,
                          !.state = Put(board.state, r.path, r.tree),
                          !.meta = [board.meta EXCEPT ![r.path] = stamp],
                          !.expired = [board.expired EXCEPT ![r.path] = 0]]
  BY <1>1 DEF Written, stamp, Board
<1> HIDE DEF new
<1>8. /\ new \in Board
      /\ new.state = Put(board.state, r.path, r.tree)
      /\ new.expired = [board.expired EXCEPT ![r.path] = 0]
      /\ new.cleared = board.cleared /\ new.audit = board.audit
      /\ new.revision = board.revision + 1
  <2>1. board.revision + 1 \in Nat
    BY <1>2
  <2> QED
    BY <1>1, <1>4, <1>6, <1>7, <2>1 DEF Board
<1>9. Len(board.audit) <= MaxAudit
  BY DEF Good
<1>10. Good(new)
  BY <1>3, <1>4, <1>6, <1>8, <1>9, FewerAreGood
<1> QED
  BY <1>8, <1>10 DEF new

\* A patch that blackboardPatch accepts keeps a board good; a pinned one found
\* its revision.
LEMMA PatchedGood ==
  ASSUME NEW board, Good(board), NEW r \in Requests, NEW s, ~PatchRefused(board, r, s)
  PROVE  /\ Good(Patched(board, r))
         /\ Patched(board, r).revision = board.revision + 1
         /\ r.pinned => s.revision = board.revision
<1> DEFINE new == Patched(board, r)
<1>1. board \in Board /\ r.ops \in Seq(PatchOp)
  BY BoardKeysAssumption DEF Good, Request
<1>2. board.state \in Tree /\ board.meta \in [Paths -> Meta] /\ board.revision \in Nat
  BY <1>1, BoardFields
<1>3. PICK tree : tree = PatchTrees(board.state, r.ops)[Len(r.ops)]
  OBVIOUS
<1>4. /\ Cardinality(Keys(tree)) <= MaxKeys
      /\ r.pinned => s.revision = board.revision
  BY <1>3 DEF PatchRefused, WithinBounds
<1>5. tree \in Tree
  BY <1>1, <1>2, <1>3, PatchTreesKeep
<1> DEFINE meta == [q \in Paths |-> IF tree[q] = None THEN NoMeta ELSE board.meta[q]]
<1>6. meta \in [Paths -> Meta]
  BY <1>2 DEF NoMeta, Meta
<1>7. new = [board EXCEPT !.revision = board.revision + 1, !.state = tree, !.meta = meta]
  BY <1>1, <1>3 DEF Patched, Board
<1> HIDE DEF new, meta
<1>8. /\ new \in Board
      /\ new.state = tree /\ new.expired = board.expired
      /\ new.cleared = board.cleared /\ new.audit = board.audit
      /\ new.revision = board.revision + 1
  <2>1. board.revision + 1 \in Nat
    BY <1>2
  <2> QED
    BY <1>1, <1>5, <1>6, <1>7, <2>1 DEF Board
<1>9. Len(board.audit) <= MaxAudit
  BY DEF Good
<1>10. Good(new)
  BY <1>4, <1>5, <1>8, <1>9, FewerAreGood
<1> QED
  BY <1>4, <1>8, <1>10 DEF new

\* Clearing the whole board keeps it good.
LEMMA ClearedAllGood ==
  ASSUME NEW board, Good(board)
  PROVE  Good(ClearedAll(board)) /\ ClearedAll(board).revision = board.revision
<1> DEFINE new == ClearedAll(board)
<1>1. board \in Board
  BY DEF Good
<1>2. /\ EmptyTree \in Tree /\ Keys(EmptyTree) = {}
      /\ [x \in Paths |-> NoMeta] \in [Paths -> Meta]
      /\ [x \in Paths |-> 0] \in [Paths -> Nat] /\ Records([x \in Paths |-> 0]) = {}
  BY EmptyIsTree DEF NoMeta, Meta, Records
<1>3. /\ new \in Board
      /\ new.state = EmptyTree /\ new.expired = board.expired
      /\ new.cleared = [x \in Paths |-> 0] /\ new.audit = board.audit
      /\ new.revision = board.revision
  BY <1>1, <1>2 DEF ClearedAll, Board
<1> HIDE DEF new
<1>4. Len(board.audit) <= MaxAudit
  BY DEF Good
<1>5. Good(new)
  BY <1>2, <1>3, <1>4, FewerAreGood
<1> QED
  BY <1>3, <1>5 DEF new

\* Clearing a branch keeps a board good.
LEMMA ClearedBranchGood ==
  ASSUME NEW board, Good(board), NEW q \in Paths, NEW t \in Nat
  PROVE  /\ Good(ClearedBranch(board, q, t))
         /\ ClearedBranch(board, q, t).revision = board.revision
<1> DEFINE new == ClearedBranch(board, q, t)
           gone == Dead(board, q) \union {q}
           meta == [x \in Paths |-> IF x \in gone THEN NoMeta ELSE board.meta[x]]
           records == [x \in Paths |-> IF x \in gone THEN t ELSE board.cleared[x]]
           expired == [x \in Paths |-> IF x \in gone THEN 0 ELSE board.expired[x]]
<1>1. board \in Board
  BY DEF Good
<1>2. /\ board.state \in Tree /\ board.meta \in [Paths -> Meta]
      /\ board.expired \in [Paths -> Nat] /\ board.cleared \in [Paths -> Nat]
  BY <1>1, BoardFields
<1> HIDE DEF gone
<1>3. /\ meta \in [Paths -> Meta] /\ records \in [Paths -> Nat] /\ expired \in [Paths -> Nat]
      /\ Records(expired) \subseteq Records(board.expired)
  BY <1>2 DEF NoMeta, Meta, Records
<1>4. /\ Cut(board.state, {q}) \in Tree
      /\ Keys(Cut(board.state, {q})) \subseteq Keys(board.state)
  BY <1>2, CutKeeps
<1>5. new = [board EXCEPT !.state = Cut(board.state, {q}), !.meta = meta,
                          !.cleared = Trim(records, MaxCleared), !.expired = expired]
  BY DEF ClearedBranch, gone
<1> HIDE DEF meta, records, expired, new
<1>6. /\ Trim(records, MaxCleared) \in [Paths -> Nat]
      /\ Cardinality(Records(Trim(records, MaxCleared))) <= MaxCleared
  BY <1>3, TrimKeeps, BoardKeysAssumption DEF Records
<1>7. /\ new \in Board
      /\ new.state = Cut(board.state, {q}) /\ new.expired = expired
      /\ new.cleared = Trim(records, MaxCleared) /\ new.audit = board.audit
      /\ new.revision = board.revision
  BY <1>1, <1>3, <1>4, <1>5, <1>6 DEF Board
<1>8. Len(board.audit) <= MaxAudit
  BY DEF Good
<1>9. Good(new)
  BY <1>3, <1>4, <1>6, <1>7, <1>8, FewerAreGood
<1> QED
  BY <1>7, <1>9 DEF new

\* The record of a clear, and the trim of the audit, keep a board good.
LEMMA AuditedGood ==
  ASSUME NEW board, Good(board), NEW q \in Paths \union {0}
  PROVE  Good(Audited(board, q)) /\ Audited(board, q).revision = board.revision + 1
<1> DEFINE new == Audited(board, q)
           longer == Append(board.audit, q)
           audit == IF Len(longer) > MaxAudit THEN Tail(longer) ELSE longer
<1>1. board \in Board /\ Len(board.audit) <= MaxAudit
  BY DEF Good
<1>2. board.audit \in Seq(Paths \union {0}) /\ board.revision \in Nat
  BY <1>1, BoardFields
<1>3. longer \in Seq(Paths \union {0}) /\ Len(longer) = Len(board.audit) + 1
  BY <1>2, AppendProperties
<1> HIDE DEF longer
<1>4. Len(board.audit) \in Nat /\ longer # <<>>
  BY <1>2, <1>3
<1>5. Tail(longer) \in Seq(Paths \union {0}) /\ Len(Tail(longer)) = Len(longer) - 1
  BY <1>3, <1>4, HeadTailProperties
<1>6. audit \in Seq(Paths \union {0}) /\ Len(audit) <= MaxAudit
  BY <1>1, <1>3, <1>4, <1>5, BoardKeysAssumption
<1>7. new = [board EXCEPT !.revision = board.revision + 1, !.audit = audit]
  BY <1>1 DEF Audited, longer, Board
<1> HIDE DEF audit, new
<1>8. /\ new \in Board
      /\ new.state = board.state /\ new.expired = board.expired
      /\ new.cleared = board.cleared /\ new.audit = audit
      /\ new.revision = board.revision + 1
  <2>1. board.revision + 1 \in Nat
    BY <1>2
  <2> QED
    BY <1>1, <1>6, <1>7, <2>1 DEF Board
<1>9. Good(new)
  BY <1>6, <1>8, FewerAreGood
<1> QED
  BY <1>8, <1>9 DEF new

-----------------------------------------------------------------------------
(* The inductive invariant.                                                *)

CallInv == \A p \in Procs : call[p] \in Requests \union {NoCall}

\* A call was made at a time that is not to come.
NowInv == \A p \in Procs : now[p] <= clock

\* A revision is never used twice: while the board has the one a process read, it
\* holds what was read but for what lapsed, and no expiry that was not read.
SeenInv ==
  \A p \in Procs :
    /\ seen[p].revision <= file.revision
    /\ seen[p].revision = file.revision =>
         \A q \in Paths : /\ AsSeenOrLapsed(seen[p], q)
                          /\ file.meta[q].expires \in {0, seen[p].expires[q]}

IndInv == TypeOK /\ Good(file) /\ CallInv /\ NowInv /\ SeenInv

\* No call is well typed.
LEMMA NoCallTypes == NoCall \in Request /\ NoCall.op = "none"
  BY EmptyIsTree DEF NoCall, Request

\* The invariant holds of an empty board.
LEMMA InitHolds == Init => IndInv
<1> SUFFICES ASSUME Init PROVE IndInv
  OBVIOUS
<1> USE DEF Init
<1>1. /\ EmptyTree \in Tree /\ Keys(EmptyTree) = {}
      /\ [x \in Paths |-> NoMeta] \in [Paths -> Meta]
      /\ [x \in Paths |-> 0] \in [Paths -> Nat] /\ Records([x \in Paths |-> 0]) = {}
  BY EmptyIsTree DEF NoMeta, Meta, Records
<1>2. /\ EmptyBoard.state = EmptyTree /\ EmptyBoard.expired = [x \in Paths |-> 0]
      /\ EmptyBoard.cleared = [x \in Paths |-> 0] /\ EmptyBoard.audit = <<>>
      /\ EmptyBoard.revision = 0 /\ EmptyBoard \in Board
      /\ EmptyBoard.meta = [x \in Paths |-> NoMeta]
  BY <1>1 DEF EmptyBoard, Board
<1>3. Good(file)
  <2>1. Len(<<>>) <= MaxAudit /\ 0 <= MaxKeys /\ 0 <= MaxExpired /\ 0 <= MaxCleared
    BY BoardKeysAssumption
  <2>2. Cardinality({}) = 0
    BY FS_EmptySet
  <2>3. /\ file = EmptyBoard
        /\ Keys(EmptyBoard.state) = {} /\ Records(EmptyBoard.expired) = {}
        /\ Records(EmptyBoard.cleared) = {}
    BY <1>1, <1>2
  <2> QED
    BY <1>1, <1>2, <2>1, <2>2, <2>3 DEF Good
<1>4. /\ seen \in [Procs -> Seen]
      /\ \A p \in Procs : seen[p].revision = 0 /\ seen[p].tree = EmptyTree
  BY <1>1 DEF Seen
<1>5. TypeOK
  BY <1>2, <1>4, NoCallTypes DEF TypeOK
<1>6. CallInv /\ NowInv
  BY DEF CallInv, NowInv
<1>7. SeenInv
  BY <1>2, <1>4 DEF SeenInv, AsSeenOrLapsed, NoMeta
<1> QED
  BY <1>3, <1>5, <1>6, <1>7 DEF IndInv

\* The calls after one is served.
LEMMA ServingKeeps ==
  ASSUME IndInv, NEW p \in Procs, NEW op, Serving(p, op)
  PROVE  /\ call[p] \in Requests /\ call[p].op = op
         /\ clock' \in Nat /\ call' \in [Procs -> Request] /\ now' \in [Procs -> Nat]
         /\ CallInv' /\ NowInv' /\ clock' = clock
         /\ call'[p] = NoCall /\ \A o \in Procs : o # p => call'[o] = call[o]
<1>1. call[p] \in Requests /\ call[p].op = op
  BY DEF IndInv, CallInv, Serving
<1>2. clock' \in Nat /\ call' \in [Procs -> Request] /\ now' \in [Procs -> Nat]
  BY NoCallTypes DEF Serving, IndInv, TypeOK
<1>3. call'[p] = NoCall /\ \A o \in Procs : o # p => call'[o] = call[o]
  BY DEF Serving, IndInv, TypeOK
<1>4. CallInv'
  BY <1>3 DEF CallInv, IndInv
<1>5. NowInv' /\ clock' = clock
  BY DEF NowInv, IndInv, TypeOK, Serving
<1> QED
  BY <1>1, <1>2, <1>3, <1>4, <1>5

\* A path of a board is as on file, or it lapsed by now; so did its metadata.
AsFiledOrLapsed(board, q) ==
  /\ \/ board.state[q] = file.state[q]
     \/ /\ board.state[q] = None
        /\ \E r \in {q} \union Above(q) : file.meta[r].expires \in 1..clock
  /\ board.meta[q].expires \in {0, file.meta[q].expires}

\* A board that follows the one on file: with a new revision, or swept.
Follows(board) ==
  /\ Good(board)
  /\ \/ board.revision = file.revision + 1
     \/ /\ board.revision = file.revision
        /\ \A q \in Paths : AsFiledOrLapsed(board, q)

\* What was as seen, or lapsed, before a sweep is so after it.
LEMMA StillAsSeen ==
  ASSUME IndInv, NEW o \in Procs, seen[o].revision = file.revision,
         NEW board, file' = board, clock' = clock, seen'[o] = seen[o],
         \A q \in Paths : AsFiledOrLapsed(board, q)
  PROVE  \A q \in Paths : /\ AsSeenOrLapsed(seen[o], q)'
                          /\ file'.meta[q].expires \in {0, seen'[o].expires[q]}
<1> TAKE q \in Paths
<1>1. \A x \in Paths : /\ AsSeenOrLapsed(seen[o], x)
                       /\ file.meta[x].expires \in {0, seen[o].expires[x]}
  BY DEF IndInv, SeenInv
<1>2. board.meta[q].expires \in {0, seen[o].expires[q]}
  BY <1>1 DEF AsFiledOrLapsed
<1>3. CASE board.state[q] = file.state[q]
  BY <1>1, <1>2, <1>3 DEF AsSeenOrLapsed
<1>4. CASE /\ board.state[q] = None
           /\ \E r \in {q} \union Above(q) : file.meta[r].expires \in 1..clock
  <2>1. PICK r \in {q} \union Above(q) : file.meta[r].expires \in 1..clock
    BY <1>4
  <2>2. r \in Paths
    BY DEF Above
  <2>3. clock \in Nat /\ 0 \notin 1..clock
    BY DEF IndInv, TypeOK
  <2>4. seen[o].expires[r] \in 1..clock
    BY <1>1, <2>1, <2>2, <2>3
  <2> QED
    BY <1>2, <1>4, <2>4 DEF AsSeenOrLapsed
<1> QED
  BY <1>3, <1>4 DEF AsFiledOrLapsed

\* Saving a board that follows the file keeps the invariant.
LEMMA FollowsKeeps ==
  ASSUME IndInv, NEW p \in Procs, NEW op, Serving(p, op), NEW board, Follows(board),
         file' = board, UNCHANGED seen
  PROVE  IndInv'
<1>1. /\ clock' \in Nat /\ call' \in [Procs -> Request] /\ now' \in [Procs -> Nat]
      /\ CallInv' /\ NowInv' /\ clock' = clock
  BY ServingKeeps
<1>2. Good(file)' /\ file' \in Board /\ file \in Board
  BY DEF Follows, Good, IndInv
<1>3. file.revision \in Nat /\ file'.revision \in Nat
  BY <1>2, BoardFields
<1>4. TypeOK'
  BY <1>1, <1>2 DEF IndInv, TypeOK
<1>5. ASSUME NEW o \in Procs
      PROVE  /\ seen'[o].revision <= file'.revision
             /\ seen'[o].revision = file'.revision =>
                  \A q \in Paths : /\ AsSeenOrLapsed(seen[o], q)'
                                   /\ file'.meta[q].expires \in {0, seen'[o].expires[q]}
  <2>1. seen[o].revision \in Nat /\ seen[o].revision <= file.revision
    BY DEF IndInv, TypeOK, Seen, SeenInv
  <2>2. CASE board.revision = file.revision + 1
    <3>1. seen[o].revision < file'.revision
      BY <1>3, <2>1, <2>2
    <3> QED
      BY <1>3, <2>1, <3>1
  <2>3. CASE /\ board.revision = file.revision
             /\ \A q \in Paths : AsFiledOrLapsed(board, q)
    BY <1>1, <2>1, <2>3, StillAsSeen
  <2> QED
    BY <2>2, <2>3 DEF Follows
<1>6. SeenInv'
  BY <1>5 DEF SeenInv
<1> QED
  BY <1>1, <1>2, <1>4, <1>6 DEF IndInv

\* The file follows itself.
LEMMA FileFollows ==
  ASSUME IndInv
  PROVE  Follows(file)
  BY DEF IndInv, Follows, AsFiledOrLapsed

\* The swept board follows the file, with its revision.
LEMMA SweptFollows ==
  ASSUME IndInv, NEW p \in Procs
  PROVE  /\ Follows(Swept(p)) /\ Good(Swept(p)) /\ now[p] \in Nat
         /\ Swept(p).revision = file.revision
         /\ \A q \in Paths : AsFiledOrLapsed(Swept(p), q)
<1>1. now[p] \in Nat /\ Good(file) /\ now[p] <= clock /\ clock \in Nat
  BY DEF IndInv, TypeOK, NowInv
<1>2. \A x : x \in 1..now[p] => x \in 1..clock
  BY <1>1
<1>3. \A q \in Paths : AsFiledOrLapsed(Swept(p), q)
  BY <1>1, <1>2, SweptGood DEF Swept, AsFiledOrLapsed
<1> QED
  BY <1>1, <1>3, SweptGood DEF Swept, Follows

\* blackboardWrite keeps the invariant.
LEMMA WriteKeeps ==
  ASSUME IndInv, NEW p \in Procs, Write(p)
  PROVE  IndInv'
<1>1. Serving(p, "write") /\ UNCHANGED seen
  BY DEF Write
<1>2. call[p] \in Requests /\ call[p].op = "write"
  BY <1>1, ServingKeeps
<1>3. CASE file' = file
  BY <1>1, <1>3, FileFollows, FollowsKeeps
<1>4. CASE /\ ~WriteRefused(Swept(p), call[p], seen[p])
           /\ file' = Written(Swept(p), call[p], now[p])
  <2>1. /\ Good(Written(Swept(p), call[p], now[p]))
        /\ Written(Swept(p), call[p], now[p]).revision = Swept(p).revision + 1
    BY <1>2, <1>4, SweptFollows, WrittenGood
  <2>2. Follows(Written(Swept(p), call[p], now[p]))
    BY <2>1, SweptFollows DEF Follows
  <2> QED
    BY <1>1, <1>4, <2>2, FollowsKeeps
<1> QED
  BY <1>3, <1>4 DEF Write

\* blackboardPatch keeps the invariant.
LEMMA PatchKeeps ==
  ASSUME IndInv, NEW p \in Procs, Patch(p)
  PROVE  /\ IndInv'
         /\ file' # file /\ call[p].pinned => seen[p].revision = file.revision
<1>1. Serving(p, "patch") /\ UNCHANGED seen
  BY DEF Patch
<1>2. call[p] \in Requests
  BY <1>1, ServingKeeps
<1>3. CASE file' = file
  BY <1>1, <1>3, FileFollows, FollowsKeeps
<1>4. CASE /\ ~PatchRefused(Swept(p), call[p], seen[p])
           /\ file' = Patched(Swept(p), call[p])
  <2>1. /\ Good(Patched(Swept(p), call[p]))
        /\ Patched(Swept(p), call[p]).revision = Swept(p).revision + 1
        /\ call[p].pinned => seen[p].revision = Swept(p).revision
    BY <1>2, <1>4, SweptFollows, PatchedGood
  <2>2. Follows(Patched(Swept(p), call[p]))
    BY <2>1, SweptFollows DEF Follows
  <2> QED
    BY <1>1, <1>4, <2>1, <2>2, SweptFollows, FollowsKeeps
<1> QED
  BY <1>3, <1>4 DEF Patch

\* blackboardClear keeps the invariant.
LEMMA ClearKeeps ==
  ASSUME IndInv, NEW p \in Procs, Clear(p)
  PROVE  IndInv'
<1>1. Serving(p, "clear") /\ UNCHANGED seen
  BY DEF Clear
<1>2. call[p].path \in Paths \union {0}
  BY DEF IndInv, TypeOK, Request
<1>3. CASE file' = file
  BY <1>1, <1>3, FileFollows, FollowsKeeps
<1>4. CASE file' = Audited(IF call[p].path = 0 THEN ClearedAll(Swept(p))
                           ELSE ClearedBranch(Swept(p), call[p].path, now[p]), call[p].path)
  <2>1. PICK board : board = IF call[p].path = 0 THEN ClearedAll(Swept(p))
                             ELSE ClearedBranch(Swept(p), call[p].path, now[p])
    OBVIOUS
  <2>2. Good(board) /\ board.revision = file.revision
    <3>1. CASE call[p].path = 0
      BY <2>1, <3>1, SweptFollows, ClearedAllGood
    <3>2. CASE call[p].path # 0
      <4>1. call[p].path \in Paths
        BY <1>2, <3>2
      <4> QED
        BY <2>1, <3>2, <4>1, SweptFollows, ClearedBranchGood
    <3> QED
      BY <3>1, <3>2
  <2>3. Good(Audited(board, call[p].path))
        /\ Audited(board, call[p].path).revision = file.revision + 1
    BY <1>2, <2>2, AuditedGood
  <2>4. Follows(Audited(board, call[p].path))
    BY <2>3 DEF Follows
  <2>5. file' = Audited(board, call[p].path)
    BY <1>4, <2>1
  <2> QED
    BY <1>1, <2>4, <2>5, FollowsKeeps
<1> QED
  BY <1>3, <1>4 DEF Clear

\* blackboardRead and blackboardList keep the invariant.
LEMMA ReadKeeps ==
  ASSUME IndInv, NEW p \in Procs, Read(p)
  PROVE  IndInv'
<1>1. PICK board : board = Swept(p)
  OBVIOUS
<1>2. /\ Good(board) /\ board.revision = file.revision
      /\ \A q \in Paths : AsFiledOrLapsed(board, q)
  BY <1>1, SweptFollows
<1>3. board \in Board
  BY <1>2 DEF Good
<1>4. Serving(p, "read") /\ file' = board
  BY <1>1 DEF Read
<1>5. /\ clock' \in Nat /\ call' \in [Procs -> Request] /\ now' \in [Procs -> Nat]
      /\ CallInv' /\ NowInv' /\ clock' = clock
  BY <1>4, ServingKeeps
<1>6. call[p].path \in Paths \union {0}
  BY DEF IndInv, TypeOK, Request
<1>7. PICK u : /\ u = IF call[p].path = 0 THEN 0 ELSE board.meta[call[p].path].updated
               /\ u \in Nat
  <2>1. call[p].path # 0 => board.meta[call[p].path] \in Meta
    BY <1>3, <1>6, BoardFields
  <2> QED
    BY <2>1 DEF Meta
<1>8. PICK ex : /\ ex = [x \in Paths |-> board.meta[x].expires]
                /\ ex \in [Paths -> Nat]
  BY <1>3, BoardFields DEF Meta
<1>9. PICK s : /\ s = [path |-> call[p].path, tree |-> board.state, updated |-> u,
                       revision |-> board.revision, expires |-> ex]
               /\ seen' = [seen EXCEPT ![p] = s]
  BY <1>1, <1>7, <1>8 DEF Read
<1>14. /\ s \in Seen /\ s.tree = board.state /\ s.revision = board.revision
       /\ \A x \in Paths : s.expires[x] = board.meta[x].expires
  BY <1>3, <1>6, <1>7, <1>8, <1>9, BoardFields DEF Seen
<1>10. /\ seen' \in [Procs -> Seen] /\ seen'[p] = s
       /\ \A o \in Procs : o # p => seen'[o] = seen[o]
  BY <1>9, <1>14 DEF IndInv, TypeOK
<1>11. TypeOK'
  BY <1>3, <1>4, <1>5, <1>10 DEF TypeOK
<1>12. board.revision \in Nat
  BY <1>3, BoardFields
<1>13. SeenInv'
  <2>1. ASSUME NEW o \in Procs
        PROVE  /\ seen'[o].revision <= board.revision
               /\ seen'[o].revision = board.revision =>
                    \A q \in Paths : /\ AsSeenOrLapsed(seen[o], q)'
                                     /\ file'.meta[q].expires \in {0, seen'[o].expires[q]}
    <3>1. CASE o = p
      BY <1>4, <1>10, <1>12, <1>14, <3>1 DEF AsSeenOrLapsed
    <3>2. CASE o # p
      <4>1. seen'[o] = seen[o] /\ seen[o].revision <= file.revision
        BY <1>10, <3>2 DEF IndInv, SeenInv
      <4> QED
        BY <1>2, <1>4, <1>5, <4>1, StillAsSeen
    <3> QED
      BY <3>1, <3>2
  <2> QED
    BY <1>4, <2>1 DEF SeenInv
<1> QED
  BY <1>2, <1>4, <1>5, <1>11, <1>13 DEF IndInv

\* Every step keeps the invariant.
LEMMA NextKeeps == IndInv /\ [Next]_vars => IndInv'
<1> SUFFICES ASSUME IndInv, [Next]_vars PROVE IndInv'
  OBVIOUS
<1>1. CASE UNCHANGED vars
  BY <1>1 DEF vars, IndInv, TypeOK, CallInv, NowInv, SeenInv, AsSeenOrLapsed
<1>2. CASE Tick
  <2>1. /\ clock \in Nat /\ clock' = clock + 1 /\ UNCHANGED <<call, now, file, seen>>
        /\ now \in [Procs -> Nat]
    BY <1>2 DEF Tick, IndInv, TypeOK
  <2>2. clock' \in Nat /\ (\A x : x \in 1..clock => x \in 1..clock') /\ NowInv'
    BY <2>1 DEF IndInv, NowInv
  <2>3. TypeOK' /\ CallInv' /\ Good(file)'
    BY <2>1, <2>2 DEF IndInv, TypeOK, CallInv
  <2>4. SeenInv'
    BY <2>1, <2>2 DEF IndInv, SeenInv, AsSeenOrLapsed
  <2> QED
    BY <2>2, <2>3, <2>4 DEF IndInv
<1>3. CASE Horizon
  BY <1>1, <1>3 DEF Horizon
<1>4. ASSUME NEW p \in Procs, Call(p) PROVE IndInv'
  <2>1. UNCHANGED <<clock, file, seen>> /\ now' = [now EXCEPT ![p] = clock]
    BY <1>4 DEF Call
  <2>2. PICK r \in Requests : call' = [call EXCEPT ![p] = r]
    BY <1>4 DEF Call
  <2>3. r \in Request
    BY BoardKeysAssumption
  <2>4. TypeOK'
    BY <2>1, <2>2, <2>3 DEF IndInv, TypeOK
  <2>5. CallInv'
    BY <2>2 DEF IndInv, TypeOK, CallInv
  <2>6. SeenInv' /\ Good(file)' /\ NowInv'
    BY <2>1 DEF IndInv, TypeOK, SeenInv, AsSeenOrLapsed, NowInv
  <2> QED
    BY <2>4, <2>5, <2>6 DEF IndInv
<1>5. ASSUME NEW p \in Procs, Fails(p) PROVE IndInv'
  <2>1. Serving(p, call[p].op) /\ file' = file /\ UNCHANGED seen
    BY <1>5 DEF Fails
  <2> QED
    BY <2>1, FileFollows, FollowsKeeps
<1>6. ASSUME NEW p \in Procs, ListKeys(p) PROVE IndInv'
  <2>1. Serving(p, "list") /\ file' = Swept(p) /\ UNCHANGED seen
    BY <1>6 DEF ListKeys
  <2> QED
    BY <2>1, SweptFollows, FollowsKeeps
<1>7. ASSUME NEW p \in Procs, Write(p) PROVE IndInv'
  BY <1>7, WriteKeeps
<1>8. ASSUME NEW p \in Procs, Patch(p) PROVE IndInv'
  BY <1>8, PatchKeeps
<1>9. ASSUME NEW p \in Procs, Clear(p) PROVE IndInv'
  BY <1>9, ClearKeeps
<1>10. ASSUME NEW p \in Procs, Read(p) PROVE IndInv'
  BY <1>10, ReadKeeps
<1> QED
  BY <1>1, <1>2, <1>3, <1>4, <1>5, <1>6, <1>7, <1>8, <1>9, <1>10 DEF Next

\* The inductive invariant holds in every state of the board's keys.
THEOREM BoardInvariant == Spec => []IndInv
  BY InitHolds, NextKeeps, PTL DEF Spec

\* The board, the calls and what was read have their types.
THEOREM TypeCorrect == Spec => []TypeOK
<1>1. IndInv => TypeOK
  BY DEF IndInv
<1> QED
  BY <1>1, BoardInvariant, PTL

\* The keys, the records of lapses and clears and the audit stay within their
\* limits, whatever these are (checkBoardBounds, trimTombstones, blackboardClear).
THEOREM BoardIsBounded == Spec => []Bounded
<1>1. IndInv => Bounded
  BY DEF IndInv, Good, Records, Bounded
<1> QED
  BY <1>1, BoardInvariant, PTL

\* Only a patch of its own makes p's patch take effect.
LEMMA StepPinnedPatch ==
  ASSUME IndInv, [Next]_vars
  PROVE  [\A p \in Procs : Commits(p, "patch") /\ call[p].pinned =>
            \A q \in Paths : AsSeenOrLapsed(seen[p], q)]_vars
<1> SUFFICES ASSUME NEW p \in Procs, Commits(p, "patch"), call[p].pinned
             PROVE  \A q \in Paths : AsSeenOrLapsed(seen[p], q)
  OBVIOUS
<1>1. /\ call[p].op = "patch" /\ call'[p] = NoCall
      /\ file'.revision > file.revision /\ file.revision \in Nat
  BY BoardFields DEF Commits, IndInv, Good
<1>2. call'[p] # call[p] /\ file' # file
  BY <1>1, NoCallTypes
<1>3. \A o \in Procs : \A op : Serving(o, op) => o = p /\ op = "patch"
  BY <1>1, <1>2, ServingKeeps
<1>4. ~ \E o \in Procs : Call(o) \/ Fails(o)
  BY <1>2 DEF Call, Fails
<1>5. ~(Tick \/ Horizon \/ UNCHANGED vars)
  BY <1>2 DEF Tick, Horizon, vars
<1>6. Patch(p)
  BY <1>3, <1>4, <1>5 DEF Next, Write, Read, ListKeys, Clear, Patch
<1>7. seen[p].revision = file.revision
  BY <1>2, <1>6, PatchKeeps
<1> QED
  BY <1>7 DEF IndInv, SeenInv

\* A pinned patch is applied to the board its caller read, but for paths whose
\* ttl, as it was read, has run out: nobody's write, patch or clear comes between
\* (blackboardPatch with expected_revision), however many agents there are.
THEOREM PinsHold == Spec => PinnedPatchSeesOnlyLapses
<1>1. IndInv /\ [Next]_vars =>
        [\A p \in Procs : Commits(p, "patch") /\ call[p].pinned =>
            \A q \in Paths : AsSeenOrLapsed(seen[p], q)]_vars
  BY StepPinnedPatch
<1> QED
  BY <1>1, BoardInvariant, PTL DEF Spec, PinnedPatchSeesOnlyLapses
=============================================================================
